--------------------------- MODULE MCAdminAccess ---------------------------
(* Small instances of AdminAccess. *)
EXTENDS AdminAccess, TLC

Symmetry == Permutations(Requests) \cup Permutations(Kids)
=============================================================================
