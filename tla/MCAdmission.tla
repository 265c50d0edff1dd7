---------------------------- MODULE MCAdmission ----------------------------
(* Small instances of Admission. *)
EXTENDS Admission, TLC

MCRows ==
    {[status |-> "trialing", suspended |-> FALSE, until |-> 1],
     [status |-> "active", suspended |-> TRUE, until |-> 0]}

Symmetry == Permutations(Requests) \cup Permutations(Keys)
=============================================================================
