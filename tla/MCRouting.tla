----------------------------- MODULE MCRouting -----------------------------
(* Small instances of Routing. *)
EXTENDS Routing, TLC
=============================================================================
