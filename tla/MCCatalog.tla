----------------------------- MODULE MCCatalog -----------------------------
(***************************************************************************)
(* Instances of Catalog for TLC: a tenant's server "a" with a tool whose   *)
(* name has a "__" in it and one with an override, and a server of the     *)
(* operator that may be named apart, or so that it begins as "a" does.     *)
(***************************************************************************)
EXTENDS Catalog, TLC

CONSTANTS s1, s2

MCClean == [a |-> <<"a">>, b |-> <<"b">>]
MCTenantName == [s \in {s1} |-> "a"]
X == <<"x">>
BX == <<"b", "x">>
Y == <<"y">>
MCTools == {X, BX, Y}
MCOffers == [s \in {s1, s2} |-> IF s = s1 THEN {X} ELSE {BX}]
MCOverride == [s \in {s1, s2} |-> [t \in MCTools |-> IF t = X THEN Y ELSE t]]

Symmetry == Permutations(Clients)

=============================================================================
