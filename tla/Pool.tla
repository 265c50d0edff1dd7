-------------------------------- MODULE Pool --------------------------------
(***************************************************************************)
(* The upstream connection pool (src/internal/mcp/pool.go).                *)
(*                                                                         *)
(* Requests (tool calls and tool listings) acquire a connected client for  *)
(* a pool key, use it, and release it.  Sessions may end, and the sweeper  *)
(* may run, between any two of their steps.  One action is one section     *)
(* under Pool.mu, one channel operation, or one return from the factory,   *)
(* which runs outside the lock.                                            *)
(*                                                                         *)
(* The stacks of clients are sets here: which of several idle clients is   *)
(* reused, and which of them the sweeper finds expired, is left open.      *)
(***************************************************************************)
EXTENDS Naturals, FiniteSets

CONSTANTS
    Requests,      \* the goroutines that acquire clients, one call at a time
    Sessions,      \* downstream session ids
    Servers,       \* pool keys: a server UUID, for a tenant with a fingerprint
    Clients,       \* identities of upstream clients
    Tenants,       \* tenant keys (owner user ids)
    Operator,      \* the owner of servers no tenant owns
    NoClient,      \* no client held
    Owner,         \* who owns each server
    MaxTotal,      \* maxTotal
    MaxPerServer,  \* maxPerServer
    TenantBudget,  \* tenantBudget
    TenantPerKey,  \* tenantPerKey
    EndsMidCall    \* may a session end while one of its calls is running?

ASSUME PoolAssumption ==
    /\ IsFiniteSet(Requests)
    /\ IsFiniteSet(Sessions)
    /\ IsFiniteSet(Servers)
    /\ IsFiniteSet(Clients)
    /\ Operator \notin Tenants
    /\ NoClient \notin Clients
    /\ Owner \in [Servers -> Tenants \cup {Operator}]
    /\ MaxTotal \in Nat \ {0}
    /\ MaxPerServer \in Nat \ {0}
    /\ TenantBudget \in Nat \ {0}
    /\ TenantPerKey \in Nat \ {0}
    /\ EndsMidCall \in BOOLEAN

\* A lease is not taken for none.
ASSUME LeaseAssumption == NoClient \notin [server : Servers, client : Clients]

VARIABLES
    idle,             \* idle[v]: the idle clients of server v
    active,           \* the clients in use, with the session and server they are in use for
    activePerServer,  \* in-use connections per server, reservations included
    activeTotal,      \* their running total
    tenantActive,     \* units of the tenant budget in use
    tenantSem,        \* tenantSem[t]: tokens in the channel of tenant t
    heldFor,          \* pooledClient.tenant/tenantKey; Operator: tenant is false
    pc,               \* where each request is
    request,          \* the session and server each request works for
    held              \* the client acquire returned to each request

poolVars == <<idle, active, activePerServer, activeTotal, tenantActive,
              tenantSem, heldFor>>
vars == <<idle, active, activePerServer, activeTotal, tenantActive, tenantSem,
          heldFor, pc, request, held>>

-----------------------------------------------------------------------------
(* Types and helpers                                                       *)

\* A client in use: active[session][server] holds client.
Attachment == [session : Sessions, server : Servers, client : Clients]

Place == [session : Sessions, server : Servers]

Steps == {"done", "slot", "budget", "acquire", "connect", "unreserve",
          "unbudget", "unslot", "calling"}

ServerOf(r) == request[r].server
OwnerOf(r) == Owner[ServerOf(r)]
IsTenant(r) == OwnerOf(r) # Operator

\* The attachment a request made when its client was handed out.
AttachmentOf(r, c) ==
    [session |-> request[r].session, server |-> ServerOf(r), client |-> c]

At(r, step) == pc[r] = step
Goto(r, step) == pc' = [pc EXCEPT ![r] = step]

\* Clients that exist: a new connection is none of these.
Live == {c \in Clients :
    \/ \E v \in Servers : c \in idle[v]
    \/ \E a \in active : c = a.client
    \/ \E r \in Requests : c = held[r]}

\* The clients of S go to idle[v] while it is below the cap; the rest are closed.
Parked(v, S) ==
    IF Cardinality(idle[v] \cup S) <= MaxPerServer
    THEN idle[v] \cup S
    ELSE CHOOSE T \in SUBSET (idle[v] \cup S) :
            idle[v] \subseteq T /\ Cardinality(T) = MaxPerServer

\* How many clients of A are checked out by a tenant acquire, in all and of t.
TenantClients(A) == {a \in A : heldFor[a.client] # Operator}
ClientsOfTenant(A, t) == {a \in A : heldFor[a.client] = t}
ClientsOfServer(A, v) == {a \in A : a.server = v}

Attach(r, c) ==
    /\ active' = active \cup {AttachmentOf(r, c)}
    /\ heldFor' = [heldFor EXCEPT ![c] = OwnerOf(r)]
    /\ held' = [held EXCEPT ![r] = c]

IncActive(v) ==
    /\ activePerServer' = [activePerServer EXCEPT ![v] = @ + 1]
    /\ activeTotal' = activeTotal + 1

\* Return the in-use connections A of any servers.  The code clamps at zero:
\* ConnectionAccounting shows that there is never anything to clamp.
DecActive(A) ==
    /\ activePerServer' = [v \in Servers |->
            activePerServer[v] - Cardinality(ClientsOfServer(A, v))]
    /\ activeTotal' = activeTotal - Cardinality(A)

\* releaseTenantLocked for every client of A: a receive on an empty channel
\* would block here with the pool's lock held.
ReleaseTenant(A) ==
    /\ \A t \in Tenants : Cardinality(ClientsOfTenant(A, t)) <= tenantSem[t]
    /\ tenantActive' = tenantActive - Cardinality(TenantClients(A))
    /\ tenantSem' = [t \in Tenants |->
            tenantSem[t] - Cardinality(ClientsOfTenant(A, t))]
    /\ heldFor' = [c \in Clients |->
            IF \E a \in A : a.client = c THEN Operator ELSE heldFor[c]]

\* Variant: parks the clients of A without removing them from active.
DetachKeeping(A) ==
    /\ UNCHANGED active
    /\ DecActive(A)
    /\ ReleaseTenant(A)
    /\ idle' = [v \in Servers |->
            Parked(v, {a.client : a \in ClientsOfServer(A, v)})]

\* Detach A: give back what its clients count for and park them.
Detach(A) ==
    /\ active' = active \ A
    /\ DecActive(A)
    /\ ReleaseTenant(A)
    /\ idle' = [v \in Servers |->
            Parked(v, {a.client : a \in ClientsOfServer(A, v)})]

-----------------------------------------------------------------------------
(* Actions                                                                 *)

Init ==
    /\ idle = [v \in Servers |-> {}]
    /\ active = {}
    /\ activePerServer = [v \in Servers |-> 0]
    /\ activeTotal = 0
    /\ tenantActive = 0
    /\ tenantSem = [t \in Tenants |-> 0]
    /\ heldFor = [c \in Clients |-> Operator]
    /\ pc = [r \in Requests |-> "done"]
    /\ request \in [Requests -> Place]
    /\ held = [r \in Requests |-> NoClient]

\* A call arrives: Aggregator.acquire sends tenant servers to AcquireTenant.
Begin(r) ==
    /\ At(r, "done")
    /\ \E s \in Sessions, v \in Servers :
        /\ request' = [request EXCEPT ![r] = [session |-> s, server |-> v]]
        /\ Goto(r, IF Owner[v] = Operator THEN "acquire" ELSE "slot")
    /\ UNCHANGED <<poolVars, held>>

\* sem <- struct{}{}: waits while the tenant has all its slots in use.
TakeSlot(r) ==
    /\ At(r, "slot")
    /\ tenantSem[OwnerOf(r)] < TenantPerKey
    /\ tenantSem' = [tenantSem EXCEPT ![OwnerOf(r)] = @ + 1]
    /\ Goto(r, "budget")
    /\ UNCHANGED <<idle, active, activePerServer, activeTotal, tenantActive,
                   heldFor, request, held>>

\* ctx.Done() ends the wait: "tenant upstream busy".
GiveUp(r) ==
    /\ At(r, "slot")
    /\ Goto(r, "done")
    /\ UNCHANGED <<poolVars, request, held>>

\* Variant: takes a unit of the budget without looking at it.
TakeBudgetUnchecked(r) ==
    /\ At(r, "budget")
    /\ tenantActive' = tenantActive + 1
    /\ Goto(r, "acquire")
    /\ UNCHANGED <<idle, active, activePerServer, activeTotal, tenantSem,
                   heldFor, request, held>>

TakeBudget(r) ==
    /\ At(r, "budget")
    /\ tenantActive < TenantBudget
    /\ tenantActive' = tenantActive + 1
    /\ Goto(r, "acquire")
    /\ UNCHANGED <<idle, active, activePerServer, activeTotal, tenantSem,
                   heldFor, request, held>>

\* Variant: the refusal keeps the slot.
BudgetFullKeepsSlot(r) ==
    /\ At(r, "budget")
    /\ tenantActive >= TenantBudget
    /\ Goto(r, "done")
    /\ UNCHANGED <<poolVars, request, held>>

\* errTenantBudgetFull; the deferred receive returns the slot.
BudgetFull(r) ==
    /\ At(r, "budget")
    /\ tenantActive >= TenantBudget
    /\ Goto(r, "unslot")
    /\ UNCHANGED <<poolVars, request, held>>

\* Variant: the client stays on the idle stack.
ReuseIdleKeeping(r) ==
    /\ At(r, "acquire")
    /\ \E c \in idle[ServerOf(r)] : Attach(r, c)
    /\ IncActive(ServerOf(r))
    /\ Goto(r, "calling")
    /\ UNCHANGED <<idle, tenantActive, tenantSem, request>>

\* Reuse an idle client: no cap is consulted on this path.
ReuseIdle(r) ==
    /\ At(r, "acquire")
    /\ \E c \in idle[ServerOf(r)] :
        /\ idle' = [idle EXCEPT ![ServerOf(r)] = @ \ {c}]
        /\ Attach(r, c)
    /\ IncActive(ServerOf(r))
    /\ Goto(r, "calling")
    /\ UNCHANGED <<tenantActive, tenantSem, request>>

\* errPoolFull or errPerServerFull.
Refuse(r) ==
    /\ At(r, "acquire")
    /\ idle[ServerOf(r)] = {}
    /\ \/ activeTotal >= MaxTotal
       \/ activePerServer[ServerOf(r)] >= MaxPerServer
    /\ Goto(r, IF IsTenant(r) THEN "unbudget" ELSE "done")
    /\ UNCHANGED <<poolVars, request, held>>

\* Variant: only the total cap is checked.
ReserveOneCap(r) ==
    /\ At(r, "acquire")
    /\ idle[ServerOf(r)] = {}
    /\ activeTotal < MaxTotal
    /\ IncActive(ServerOf(r))
    /\ Goto(r, "connect")
    /\ UNCHANGED <<idle, active, tenantActive, tenantSem, heldFor, request, held>>

\* Reserve a connection under both caps, then connect outside the lock.
Reserve(r) ==
    /\ At(r, "acquire")
    /\ idle[ServerOf(r)] = {}
    /\ activeTotal < MaxTotal
    /\ activePerServer[ServerOf(r)] < MaxPerServer
    /\ IncActive(ServerOf(r))
    /\ Goto(r, "connect")
    /\ UNCHANGED <<idle, active, tenantActive, tenantSem, heldFor, request, held>>

\* The factory returned a new client, which is attached under the lock.
Connect(r) ==
    /\ At(r, "connect")
    /\ \E c \in Clients \ Live : Attach(r, c)
    /\ Goto(r, "calling")
    /\ UNCHANGED <<idle, activePerServer, activeTotal, tenantActive, tenantSem,
                   request>>

\* Variant: the reservation of a failed connection is not returned.
ConnectFailKeepsReservation(r) ==
    /\ At(r, "connect")
    /\ Goto(r, IF IsTenant(r) THEN "unbudget" ELSE "done")
    /\ UNCHANGED <<poolVars, request, held>>

\* The factory failed or panicked: three deferred functions run in turn.
ConnectFail(r) ==
    /\ At(r, "connect")
    /\ Goto(r, "unreserve")
    /\ UNCHANGED <<poolVars, request, held>>

ReturnReservation(r) ==
    /\ At(r, "unreserve")
    /\ activePerServer' = [activePerServer EXCEPT ![ServerOf(r)] = @ - 1]
    /\ activeTotal' = activeTotal - 1
    /\ Goto(r, IF IsTenant(r) THEN "unbudget" ELSE "done")
    /\ UNCHANGED <<idle, active, tenantActive, tenantSem, heldFor, request, held>>

ReturnBudget(r) ==
    /\ At(r, "unbudget")
    /\ tenantActive' = tenantActive - 1
    /\ Goto(r, "unslot")
    /\ UNCHANGED <<idle, active, activePerServer, activeTotal, tenantSem,
                   heldFor, request, held>>

\* <-sem: would block for ever on an empty channel.
ReturnSlot(r) ==
    /\ At(r, "unslot")
    /\ tenantSem[OwnerOf(r)] > 0
    /\ tenantSem' = [tenantSem EXCEPT ![OwnerOf(r)] = @ - 1]
    /\ Goto(r, "done")
    /\ UNCHANGED <<idle, active, activePerServer, activeTotal, tenantActive,
                   heldFor, request, held>>

\* Variant: an error path of a caller returns without releasing its client.
ReleaseForgotten(r) ==
    /\ At(r, "calling")
    /\ Goto(r, "done")
    /\ held' = [held EXCEPT ![r] = NoClient]
    /\ UNCHANGED <<poolVars, request>>

\* Variant: counts a client as returned even when it is no longer attached.
ReleaseBlindly(r) ==
    /\ At(r, "calling")
    /\ active' = active \ {AttachmentOf(r, held[r])}
    /\ DecActive({AttachmentOf(r, held[r])})
    /\ idle' = [idle EXCEPT ![ServerOf(r)] = Parked(ServerOf(r), {held[r]})]
    /\ Goto(r, "done")
    /\ held' = [held EXCEPT ![r] = NoClient]
    /\ UNCHANGED <<tenantActive, tenantSem, heldFor, request>>

\* Release(sessionID, serverUUID, client), deferred by every caller.  Nothing
\* happens when the client is no longer attached there.
Release(r) ==
    /\ At(r, "calling")
    /\ Detach(active \cap {AttachmentOf(r, held[r])})
    /\ Goto(r, "done")
    /\ held' = [held EXCEPT ![r] = NoClient]
    /\ UNCHANGED request

\* A session is deleted, its SSE stream ends, or the sweeper finds it expired.
ReleaseSession(s) ==
    /\ EndsMidCall \/ \A r \in Requests : request[r].session = s => At(r, "done")
    /\ \E a \in active : a.session = s
    /\ Detach({a \in active : a.session = s})
    /\ UNCHANGED <<pc, request, held>>

\* Every few minutes: close the idle clients that are older than the TTL.
SweepExpired ==
    /\ \E expired \in SUBSET UNION {idle[v] : v \in Servers} :
        /\ expired # {}
        /\ idle' = [v \in Servers |-> idle[v] \ expired]
    /\ UNCHANGED <<active, activePerServer, activeTotal, tenantActive,
                   tenantSem, heldFor, pc, request, held>>

\* The steps of a request that its own goroutine takes once it can.
Proceed(r) ==
    \/ TakeBudget(r) \/ BudgetFull(r)
    \/ ReuseIdle(r) \/ Refuse(r) \/ Reserve(r)
    \/ Connect(r) \/ ConnectFail(r)
    \/ ReturnReservation(r) \/ ReturnBudget(r) \/ ReturnSlot(r)
    \/ Release(r)

Next ==
    \/ \E r \in Requests : Begin(r) \/ TakeSlot(r) \/ GiveUp(r) \/ Proceed(r)
    \/ \E s \in Sessions : ReleaseSession(s)
    \/ SweepExpired

Spec == Init /\ [][Next]_vars

\* Connecting and calling are bounded by the HTTP client's timeout, so a request
\* that can step does.  Waiting senders of a Go channel are served in order: a
\* slot that comes free again and again reaches each of them.  Nothing obliges
\* a caller to give up, a session to end or the sweeper to run.
Fairness ==
    /\ \A r \in Requests : WF_vars(Proceed(r))
    /\ \A r \in Requests : SF_vars(TakeSlot(r))

FairSpec == Spec /\ Fairness

-----------------------------------------------------------------------------
(* Properties                                                              *)

TypeOK ==
    /\ idle \in [Servers -> SUBSET Clients]
    /\ active \in SUBSET Attachment
    /\ activePerServer \in [Servers -> Nat]
    /\ activeTotal \in Nat
    /\ tenantActive \in Nat
    /\ tenantSem \in [Tenants -> Nat]
    /\ heldFor \in [Clients -> Tenants \cup {Operator}]
    /\ pc \in [Requests -> Steps]
    /\ request \in [Requests -> Place]
    /\ held \in [Requests -> Clients \cup {NoClient}]

\* Requests that reserved a connection and have no client attached for it yet.
Reserving == {r \in Requests : pc[r] \in {"connect", "unreserve"}}
\* Tenant requests that hold a budget unit, or a slot, without a client.
HoldingBudget ==
    {r \in Requests : IsTenant(r) /\ pc[r] \in {"acquire", "connect", "unreserve", "unbudget"}}
HoldingSlot(t) ==
    {r \in Requests : OwnerOf(r) = t
        /\ pc[r] \in {"budget", "acquire", "connect", "unreserve", "unbudget", "unslot"}}

\* The in-use counters count exactly the attached clients and the reservations
\* (pool.go:36-43), whatever ends a request or a session and in whatever order.
ConnectionAccounting ==
    /\ activeTotal = Cardinality(active) + Cardinality(Reserving)
    /\ \A v \in Servers :
        activePerServer[v] = Cardinality(ClientsOfServer(active, v))
                           + Cardinality({r \in Reserving : ServerOf(r) = v})

\* The budget and each tenant's channel count exactly the tenant clients in use
\* and the acquires on their way in or out: nothing is returned twice when a
\* session ends under a call, and nothing is lost when a connection fails.
TenantAccounting ==
    /\ tenantActive = Cardinality(TenantClients(active)) + Cardinality(HoldingBudget)
    /\ \A t \in Tenants :
        tenantSem[t] = Cardinality(ClientsOfTenant(active, t))
                     + Cardinality(HoldingSlot(t))

\* The receive under p.mu never blocks (pool.go:280 "the slot token is always
\* present"), nor does the deferred one.
SlotTokenPresent ==
    /\ \A t \in Tenants : Cardinality(ClientsOfTenant(active, t)) <= tenantSem[t]
    /\ \A r \in Requests : At(r, "unslot") => tenantSem[OwnerOf(r)] > 0

\* A client is in one idle stack or in one session's active stack, never in two
\* places (pool.go:288-293), and carries the tenant it was acquired for.
OnePlace ==
    /\ \A v, w \in Servers : v # w => idle[v] \cap idle[w] = {}
    /\ \A a \in active :
        /\ \A v \in Servers : a.client \notin idle[v]
        /\ \A b \in active : a.client = b.client => a = b
        /\ heldFor[a.client] = Owner[a.server]

\* At most MaxPerServer connections of a server exist, in use, being made and
\* idle together, so returning a client never has to close one.
PerServerCap ==
    \A v \in Servers : activePerServer[v] + Cardinality(idle[v]) <= MaxPerServer

\* Tenants together use at most the budget and each at most its share, counting
\* connections being made, which is what leaves operators their headroom.
TenantShare ==
    /\ Cardinality(TenantClients(active)) + Cardinality({r \in Reserving : IsTenant(r)})
         <= TenantBudget
    /\ \A t \in Tenants : Cardinality(ClientsOfTenant(active, t)) <= TenantPerKey

\* A client in use is in use by a running request for that session and server:
\* when the requests are done, nothing stays checked out, even if a session
\* ended under them and another request took the client meanwhile.
NothingLeaks ==
    \A a \in active : \E r \in Requests :
        At(r, "calling") /\ a = AttachmentOf(r, held[r])

\* A client handed to a caller is not handed to another one before the first
\* is done with it (pool.go:288-293, "response cross-talk").
NoCrossTalk ==
    \A q, r \in Requests :
        At(q, "calling") /\ At(r, "calling") /\ held[q] = held[r] => q = r

\* Every request ends: with a result, an error or a refusal.  A slot or budget
\* unit that was not given back would leave a later request waiting for ever.
RequestEnds == \A r \in Requests : ~At(r, "done") ~> At(r, "done")

-----------------------------------------------------------------------------
(* What callers are promised: exclusive leases within the caps.            *)

leaseOf == [r \in Requests |->
    IF At(r, "calling") THEN [server |-> ServerOf(r), client |-> held[r]] ELSE NoClient]

Leasing == INSTANCE Leases WITH lease <- leaseOf

LeaseSpec == Leasing!Spec
=============================================================================
