------------------------------- MODULE Leases -------------------------------
(***************************************************************************)
(* What the pool promises its callers, without its mechanism: a request is *)
(* leased a client no other request has, within the cap of its server, the *)
(* share of its tenant and the budget of all tenants.  Pool implements     *)
(* this with stacks, reservations, counters and channels.                  *)
(***************************************************************************)
EXTENDS Naturals, FiniteSets

CONSTANTS Requests, Servers, Clients, Tenants, Operator, NoClient, Owner,
          MaxPerServer, TenantBudget, TenantPerKey

VARIABLE lease   \* lease[r]: the client r may use and its server, or NoClient

Leased == {r \in Requests : lease[r] # NoClient}

LeasedFor(owners) == {r \in Leased : Owner[lease[r].server] \in owners}

Init == lease = [r \in Requests |-> NoClient]

Grant(r, v, c) ==
    /\ lease[r] = NoClient
    /\ \A q \in Leased : lease[q].client # c
    /\ Cardinality({q \in Leased : lease[q].server = v}) < MaxPerServer
    /\ Owner[v] # Operator =>
        /\ Cardinality(LeasedFor({Owner[v]})) < TenantPerKey
        /\ Cardinality(LeasedFor(Tenants)) < TenantBudget
    /\ lease' = [lease EXCEPT ![r] = [server |-> v, client |-> c]]

Return(r) ==
    /\ r \in Leased
    /\ lease' = [lease EXCEPT ![r] = NoClient]

Next == \E r \in Requests :
    \/ \E v \in Servers, c \in Clients : Grant(r, v, c)
    \/ Return(r)

Spec == Init /\ [][Next]_lease
=============================================================================
