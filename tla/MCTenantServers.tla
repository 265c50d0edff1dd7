-------------------------- MODULE MCTenantServers --------------------------
(* Small instances of TenantServers. *)
EXTENDS TenantServers, TLC

MCSymmetry ==
    Permutations(Servers) \cup Permutations(Seals) \cup Permutations(Requests)
    \cup Permutations(Names) \cup Permutations(Origins)
=============================================================================
