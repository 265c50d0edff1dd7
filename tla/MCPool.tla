------------------------------- MODULE MCPool -------------------------------
(* Small instances of Pool: one operator server and one server per tenant. *)
EXTENDS Pool, TLC

CONSTANTS op, ta, tb,   \* the servers
          alice, bob    \* the tenants

MCOwner == [v \in Servers |-> CASE v = op -> Operator [] v = ta -> alice [] OTHER -> bob]

MCSymmetry == Permutations(Clients) \cup Permutations(Requests) \cup Permutations(Sessions)
=============================================================================
