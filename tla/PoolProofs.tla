----------------------------- MODULE PoolProofs -----------------------------
(***************************************************************************)
(* The pool's counters, budgets and caps hold for every number of          *)
(* requests, sessions, servers, clients and tenants.                       *)
(***************************************************************************)
EXTENDS Pool, FiniteSetTheorems, TLAPS

\* Nothing is counted past the limits, and what is counted is finite.
Limits ==
    /\ IsFiniteSet(active)
    /\ tenantActive <= TenantBudget
    /\ \A t \in Tenants : tenantSem[t] <= TenantPerKey

\* Only tenant requests take slots and budget units, and give them back.
TenantSteps == \A r \in Requests :
    pc[r] \in {"slot", "budget", "unbudget", "unslot"} => IsTenant(r)

\* None of the pool's invariants is inductive alone: a counter stays a natural
\* number because it equals what it counts, that count follows a client only
\* because the client is in one place, and there is room to park a client only
\* because the counters are right.
IInv ==
    /\ TypeOK
    /\ Limits
    /\ TenantSteps
    /\ OnePlace
    /\ ConnectionAccounting
    /\ TenantAccounting
    /\ PerServerCap

-----------------------------------------------------------------------------
(* Counting                                                                *)

\* Sets that differ in one element at most differ by one at most.
LEMMA OneChange ==
    ASSUME NEW S, IsFiniteSet(S), NEW T, NEW x,
           \A y : y # x => (y \in S <=> y \in T)
    PROVE  /\ IsFiniteSet(T)
           /\ Cardinality(S) \in Nat
           /\ Cardinality(T) \in Nat
           /\ x \in S => Cardinality(S) >= 1
           /\ x \in T => Cardinality(T) >= 1
           /\ x \in S /\ x \in T => Cardinality(T) = Cardinality(S)
           /\ x \in S /\ x \notin T => Cardinality(T) = Cardinality(S) - 1
           /\ x \notin S /\ x \in T => Cardinality(T) = Cardinality(S) + 1
           /\ x \notin S /\ x \notin T => Cardinality(T) = Cardinality(S)
<1>1. /\ Cardinality(S) \in Nat
      /\ x \in S => Cardinality(S) >= 1
  <2>1. Cardinality(S) \in Nat
    BY FS_CardinalityType
  <2>2. IsFiniteSet(S \ {x}) /\ Cardinality(S \ {x}) \in Nat
    BY FS_RemoveElement, FS_CardinalityType
  <2>3. x \in S => Cardinality(S \ {x}) = Cardinality(S) - 1
    BY FS_RemoveElement
  <2> QED
    BY <2>1, <2>2, <2>3
<1>2. CASE x \in S /\ x \in T
  <2>1. T = S
    BY <1>2
  <2> QED
    BY <1>1, <1>2, <2>1
<1>3. CASE x \in S /\ x \notin T
  <2>1. T = S \ {x}
    BY <1>3
  <2>2. IsFiniteSet(T) /\ Cardinality(T) = Cardinality(S) - 1
    BY <1>3, <2>1, FS_RemoveElement
  <2> QED
    BY <1>1, <1>3, <2>2
<1>4. CASE x \notin S /\ x \in T
  <2>1. T = S \cup {x}
    BY <1>4
  <2>2. IsFiniteSet(T) /\ Cardinality(T) = Cardinality(S) + 1
    BY <1>4, <2>1, FS_AddElement
  <2> QED
    BY <1>1, <1>4, <2>2
<1>5. CASE x \notin S /\ x \notin T
  <2>1. T = S
    BY <1>5
  <2> QED
    BY <1>1, <1>5, <2>1
<1> QED
  BY <1>2, <1>3, <1>4, <1>5

\* Removing a part of a finite set.
LEMMA PartRemoved ==
    ASSUME NEW S, IsFiniteSet(S), NEW T, T \subseteq S
    PROVE  /\ IsFiniteSet(T) /\ IsFiniteSet(S \ T)
           /\ Cardinality(T) \in Nat /\ Cardinality(S) \in Nat
           /\ Cardinality(T) <= Cardinality(S)
           /\ Cardinality(S \ T) = Cardinality(S) - Cardinality(T)
<1>1. IsFiniteSet(T) /\ Cardinality(T) <= Cardinality(S)
  BY FS_Subset
<1>2. S \cap T = T
  OBVIOUS
<1>3. IsFiniteSet(S \ T) /\ Cardinality(S \ T) = Cardinality(S) - Cardinality(T)
  BY <1>2, FS_Difference
<1> QED
  BY <1>1, <1>3, FS_CardinalityType

\* The clients of a set of attachments are no more than the attachments.
LEMMA ClientsBound ==
    ASSUME NEW A, IsFiniteSet(A)
    PROVE  /\ IsFiniteSet({a.client : a \in A})
           /\ Cardinality({a.client : a \in A}) \in Nat
           /\ Cardinality({a.client : a \in A}) <= Cardinality(A)
<1> DEFINE T == {a.client : a \in A}
           f == [a \in A |-> a.client]
<1>1. f \in Surjection(A, T)
  BY DEF Surjection
<1>2. IsFiniteSet(T) /\ Cardinality(T) <= Cardinality(A)
  <2> HIDE DEF f, T
  <2> QED
    BY <1>1, FS_Surjection
<1> QED
  BY <1>2, FS_CardinalityType

\* Two finite sets together have at most as many elements as one by one.
LEMMA UnionBound ==
    ASSUME NEW S, NEW T, IsFiniteSet(S), IsFiniteSet(T)
    PROVE  /\ IsFiniteSet(S \cup T)
           /\ Cardinality(S \cup T) \in Nat
           /\ Cardinality(S \cup T) <= Cardinality(S) + Cardinality(T)
<1>1. Cardinality(S \cup T) = Cardinality(S) + Cardinality(T) - Cardinality(S \cap T)
  BY FS_Union
<1>2. IsFiniteSet(S \cup T) /\ IsFiniteSet(S \cap T)
  BY FS_Union, FS_Intersection
<1> QED
  BY <1>1, <1>2, FS_CardinalityType

-----------------------------------------------------------------------------
(* The counts of the invariant, before and after a step                    *)

InUse == Cardinality(active)
InUseOf(v) == Cardinality(ClientsOfServer(active, v))
TenantInUse == Cardinality(TenantClients(active))
InUseBy(t) == Cardinality(ClientsOfTenant(active, t))
ReservingFor(v) == {r \in Reserving : ServerOf(r) = v}

\* T is S but for x: what OneChange concludes.
Shift(S, T, x) ==
    /\ IsFiniteSet(T)
    /\ Cardinality(S) \in Nat
    /\ Cardinality(T) \in Nat
    /\ x \in S => Cardinality(S) >= 1
    /\ x \in T => Cardinality(T) >= 1
    /\ x \in S /\ x \in T => Cardinality(T) = Cardinality(S)
    /\ x \in S /\ x \notin T => Cardinality(T) = Cardinality(S) - 1
    /\ x \notin S /\ x \in T => Cardinality(T) = Cardinality(S) + 1
    /\ x \notin S /\ x \notin T => Cardinality(T) = Cardinality(S)

\* OneChange, in that name.
LEMMA ShiftOne ==
    ASSUME NEW S, IsFiniteSet(S), NEW T, NEW x,
           \A y : y # x => (y \in S <=> y \in T)
    PROVE  Shift(S, T, x)
BY OneChange DEF Shift

\* One request moves: each set of requests gains it, loses it or keeps it.
LEMMA RequestMoves ==
    ASSUME PoolAssumption, NEW r \in Requests,
           \A q \in Requests : q # r => pc'[q] = pc[q] /\ request'[q] = request[q]
    PROVE  /\ Shift(Reserving, Reserving', r)
           /\ \A v \in Servers : Shift(ReservingFor(v), ReservingFor(v)', r)
           /\ Shift(HoldingBudget, HoldingBudget', r)
           /\ \A t \in Tenants : Shift(HoldingSlot(t), HoldingSlot(t)', r)
<1> USE DEF ServerOf, OwnerOf, IsTenant
<1>1. Shift(Reserving, Reserving', r)
  <2>1. IsFiniteSet(Reserving)
    BY FS_Subset DEF PoolAssumption, Reserving
  <2>2. \A y : y # r => (y \in Reserving <=> y \in Reserving')
    BY DEF Reserving
  <2> QED
    BY <2>1, <2>2, ShiftOne
<1>2. ASSUME NEW v \in Servers
      PROVE  Shift(ReservingFor(v), ReservingFor(v)', r)
  <2>1. IsFiniteSet(ReservingFor(v))
    BY FS_Subset DEF PoolAssumption, Reserving, ReservingFor
  <2>2. \A y : y # r => (y \in ReservingFor(v) <=> y \in ReservingFor(v)')
    BY DEF Reserving, ReservingFor
  <2> QED
    BY <2>1, <2>2, ShiftOne
<1>3. Shift(HoldingBudget, HoldingBudget', r)
  <2>1. IsFiniteSet(HoldingBudget)
    BY FS_Subset DEF PoolAssumption, HoldingBudget
  <2>2. \A y : y # r => (y \in HoldingBudget <=> y \in HoldingBudget')
    BY DEF HoldingBudget
  <2> QED
    BY <2>1, <2>2, ShiftOne
<1>4. ASSUME NEW t \in Tenants
      PROVE  Shift(HoldingSlot(t), HoldingSlot(t)', r)
  <2>1. IsFiniteSet(HoldingSlot(t))
    BY FS_Subset DEF PoolAssumption, HoldingSlot
  <2>2. \A y : y # r => (y \in HoldingSlot(t) <=> y \in HoldingSlot(t)')
    BY DEF HoldingSlot
  <2> QED
    BY <2>1, <2>2, ShiftOne
<1> QED
  BY <1>1, <1>2, <1>3, <1>4

\* The attached clients are finitely many, of each server and of each tenant.
LEMMA InUseTypes ==
    ASSUME IsFiniteSet(active)
    PROVE  /\ InUse \in Nat /\ TenantInUse \in Nat
           /\ \A v \in Servers : IsFiniteSet(ClientsOfServer(active, v)) /\ InUseOf(v) \in Nat
           /\ IsFiniteSet(TenantClients(active))
           /\ \A t \in Tenants : IsFiniteSet(ClientsOfTenant(active, t)) /\ InUseBy(t) \in Nat
<1>1. InUse \in Nat
  BY FS_CardinalityType DEF InUse
<1>2. IsFiniteSet(TenantClients(active)) /\ TenantInUse \in Nat
  BY PartRemoved DEF TenantClients, TenantInUse
<1>3. \A v \in Servers : IsFiniteSet(ClientsOfServer(active, v)) /\ InUseOf(v) \in Nat
  BY PartRemoved DEF ClientsOfServer, InUseOf
<1>4. \A t \in Tenants : IsFiniteSet(ClientsOfTenant(active, t)) /\ InUseBy(t) \in Nat
  BY PartRemoved DEF ClientsOfTenant, InUseBy
<1> QED
  BY <1>1, <1>2, <1>3, <1>4

\* A client that is attached nowhere is attached for a request.
LEMMA ClientAttached ==
    ASSUME PoolAssumption, TypeOK, IsFiniteSet(active), request' = request,
           NEW r \in Requests, NEW c \in Clients, Attach(r, c),
           \A a \in active : a.client # c
    PROVE  /\ IsFiniteSet(active')
           /\ InUse' = InUse + 1
           /\ \A v \in Servers :
                InUseOf(v)' = IF v = ServerOf(r) THEN InUseOf(v) + 1 ELSE InUseOf(v)
           /\ TenantInUse' = IF IsTenant(r) THEN TenantInUse + 1 ELSE TenantInUse
           /\ \A t \in Tenants :
                InUseBy(t)' = IF t = OwnerOf(r) THEN InUseBy(t) + 1 ELSE InUseBy(t)
<1> DEFINE x == AttachmentOf(r, c)
<1>x. /\ x \notin active /\ x \in active' /\ x.client = c /\ x.server = ServerOf(r)
      /\ \A y : y # x => (y \in active <=> y \in active')
      /\ heldFor'[c] = OwnerOf(r)
      /\ \A a \in active : heldFor'[a.client] = heldFor[a.client]
  BY DEF Attach, AttachmentOf, TypeOK, Attachment
<1> HIDE DEF x
<1>1. IsFiniteSet(active') /\ InUse' = InUse + 1
  <2>1. Shift(active, active', x)
    BY <1>x, ShiftOne
  <2> QED
    BY <1>x, <2>1 DEF Shift, InUse
<1>2. ASSUME NEW v \in Servers
      PROVE  InUseOf(v)' = IF v = ServerOf(r) THEN InUseOf(v) + 1 ELSE InUseOf(v)
  <2>1. Shift(ClientsOfServer(active, v), ClientsOfServer(active, v)', x)
    <3>1. \A y : y # x => (y \in ClientsOfServer(active, v) <=> y \in ClientsOfServer(active, v)')
      BY <1>x DEF ClientsOfServer
    <3> QED
      BY <3>1, InUseTypes, ShiftOne
  <2>2. /\ x \notin ClientsOfServer(active, v)
        /\ x \in ClientsOfServer(active, v)' <=> v = ServerOf(r)
    BY <1>x DEF ClientsOfServer
  <2> QED
    BY <2>1, <2>2 DEF Shift, InUseOf
<1>3. TenantInUse' = IF IsTenant(r) THEN TenantInUse + 1 ELSE TenantInUse
  <2>1. Shift(TenantClients(active), TenantClients(active)', x)
    <3>1. \A y : y # x => (y \in TenantClients(active) <=> y \in TenantClients(active)')
      BY <1>x DEF TenantClients
    <3> QED
      BY <3>1, InUseTypes, ShiftOne
  <2>2. /\ x \notin TenantClients(active)
        /\ x \in TenantClients(active)' <=> IsTenant(r)
    BY <1>x DEF TenantClients, IsTenant
  <2> QED
    BY <2>1, <2>2 DEF Shift, TenantInUse
<1>4. ASSUME NEW t \in Tenants
      PROVE  InUseBy(t)' = IF t = OwnerOf(r) THEN InUseBy(t) + 1 ELSE InUseBy(t)
  <2>1. Shift(ClientsOfTenant(active, t), ClientsOfTenant(active, t)', x)
    <3>1. \A y : y # x => (y \in ClientsOfTenant(active, t) <=> y \in ClientsOfTenant(active, t)')
      BY <1>x DEF ClientsOfTenant
    <3> QED
      BY <3>1, InUseTypes, ShiftOne
  <2>2. /\ x \notin ClientsOfTenant(active, t)
        /\ x \in ClientsOfTenant(active, t)' <=> t = OwnerOf(r)
    BY <1>x DEF ClientsOfTenant
  <2> QED
    BY <2>1, <2>2 DEF Shift, InUseBy
<1> QED
  BY <1>1, <1>2, <1>3, <1>4

\* Detaching some of the attached clients takes them out of every count.
LEMMA Detached ==
    ASSUME PoolAssumption, TypeOK, IsFiniteSet(active), OnePlace,
           NEW A, A \subseteq active, Detach(A)
    PROVE  /\ IsFiniteSet(active') /\ IsFiniteSet(A)
           /\ Cardinality(A) \in Nat
           /\ InUse' = InUse - Cardinality(A) /\ InUse' \in Nat
           /\ \A v \in Servers :
                /\ Cardinality(ClientsOfServer(A, v)) \in Nat
                /\ InUseOf(v)' = InUseOf(v) - Cardinality(ClientsOfServer(A, v))
                /\ InUseOf(v)' \in Nat
           /\ Cardinality(TenantClients(A)) \in Nat
           /\ TenantInUse' = TenantInUse - Cardinality(TenantClients(A))
           /\ TenantInUse' \in Nat
           /\ \A t \in Tenants :
                /\ Cardinality(ClientsOfTenant(A, t)) \in Nat
                /\ InUseBy(t)' = InUseBy(t) - Cardinality(ClientsOfTenant(A, t))
                /\ InUseBy(t)' \in Nat
<1>x. /\ active' = active \ A
      /\ \A a \in active \ A : heldFor'[a.client] = heldFor[a.client]
  <2>1. \A a \in active \ A : a.client \in Clients /\ \A b \in A : b.client # a.client
    BY DEF OnePlace, TypeOK, Attachment
  <2> QED
    BY <2>1 DEF Detach, ReleaseTenant
<1>1. /\ IsFiniteSet(active') /\ IsFiniteSet(A) /\ Cardinality(A) \in Nat
      /\ InUse' = InUse - Cardinality(A) /\ InUse' \in Nat
  BY <1>x, PartRemoved, FS_CardinalityType DEF InUse
<1>2. ASSUME NEW v \in Servers
      PROVE  /\ Cardinality(ClientsOfServer(A, v)) \in Nat
             /\ InUseOf(v)' = InUseOf(v) - Cardinality(ClientsOfServer(A, v))
             /\ InUseOf(v)' \in Nat
  <2>1. ClientsOfServer(active, v)' = ClientsOfServer(active, v) \ ClientsOfServer(A, v)
    BY <1>x DEF ClientsOfServer
  <2>2. ClientsOfServer(A, v) \subseteq ClientsOfServer(active, v)
    BY DEF ClientsOfServer
  <2> QED
    BY <2>1, <2>2, InUseTypes, PartRemoved, FS_CardinalityType DEF InUseOf
<1>3. /\ Cardinality(TenantClients(A)) \in Nat
      /\ TenantInUse' = TenantInUse - Cardinality(TenantClients(A))
      /\ TenantInUse' \in Nat
  <2>1. TenantClients(active)' = TenantClients(active) \ TenantClients(A)
    BY <1>x DEF TenantClients
  <2>2. TenantClients(A) \subseteq TenantClients(active)
    BY DEF TenantClients
  <2> QED
    BY <2>1, <2>2, InUseTypes, PartRemoved, FS_CardinalityType DEF TenantInUse
<1>4. ASSUME NEW t \in Tenants
      PROVE  /\ Cardinality(ClientsOfTenant(A, t)) \in Nat
             /\ InUseBy(t)' = InUseBy(t) - Cardinality(ClientsOfTenant(A, t))
             /\ InUseBy(t)' \in Nat
  <2>1. ClientsOfTenant(active, t)' = ClientsOfTenant(active, t) \ ClientsOfTenant(A, t)
    BY <1>x DEF ClientsOfTenant
  <2>2. ClientsOfTenant(A, t) \subseteq ClientsOfTenant(active, t)
    BY DEF ClientsOfTenant
  <2> QED
    BY <2>1, <2>2, InUseTypes, PartRemoved, FS_CardinalityType DEF InUseBy
<1> QED
  BY <1>1, <1>2, <1>3, <1>4

\* Under the invariant there is room for every client that is detached: the
\* pool never closes one for want of it.
LEMMA RoomToPark ==
    ASSUME PoolAssumption, IInv, NEW A, A \subseteq active, NEW v \in Servers
    PROVE  LET S == {a.client : a \in ClientsOfServer(A, v)}
               n == Cardinality(ClientsOfServer(A, v))
           IN  /\ n \in Nat /\ n <= activePerServer[v]
               /\ Parked(v, S) = idle[v] \cup S
               /\ Cardinality(idle[v]) \in Nat
               /\ Cardinality(idle[v] \cup S) \in Nat
               /\ Cardinality(idle[v] \cup S) <= Cardinality(idle[v]) + n
<1> DEFINE B == ClientsOfServer(A, v)
           S == {a.client : a \in B}
           n == Cardinality(B)
<1>1. /\ IsFiniteSet(B) /\ n \in Nat /\ n <= InUseOf(v) /\ InUseOf(v) \in Nat
  <2>1. B \subseteq ClientsOfServer(active, v)
    BY DEF ClientsOfServer
  <2>2. IsFiniteSet(ClientsOfServer(active, v))
    BY InUseTypes DEF IInv, Limits
  <2> QED
    BY <2>1, <2>2, PartRemoved DEF InUseOf
<1>2. /\ activePerServer[v] \in Nat /\ n <= activePerServer[v]
      /\ activePerServer[v] + Cardinality(idle[v]) <= MaxPerServer
  <2>1. Cardinality(ReservingFor(v)) \in Nat
    BY FS_Subset, FS_CardinalityType DEF PoolAssumption, Reserving, ReservingFor
  <2>2. activePerServer[v] = InUseOf(v) + Cardinality(ReservingFor(v))
    BY DEF IInv, ConnectionAccounting, InUseOf, ReservingFor
  <2> QED
    BY <1>1, <2>1, <2>2 DEF IInv, PerServerCap, TypeOK
<1>3. IsFiniteSet(idle[v]) /\ Cardinality(idle[v]) \in Nat
  BY FS_Subset, FS_CardinalityType DEF IInv, TypeOK, PoolAssumption
<1>4. IsFiniteSet(S) /\ Cardinality(S) \in Nat /\ Cardinality(S) <= n
  <2> HIDE DEF B
  <2> QED
    BY <1>1, ClientsBound
<1>5. /\ Cardinality(idle[v] \cup S) \in Nat
      /\ Cardinality(idle[v] \cup S) <= Cardinality(idle[v]) + Cardinality(S)
  <2> HIDE DEF S
  <2> QED
    BY <1>3, <1>4, UnionBound
<1>6. Cardinality(idle[v] \cup S) <= MaxPerServer
  <2> HIDE DEF S, n
  <2> QED
    BY <1>1, <1>2, <1>3, <1>4, <1>5 DEF PoolAssumption
<1>7. Parked(v, S) = idle[v] \cup S
  BY <1>6 DEF Parked
<1>8. Cardinality(idle[v] \cup S) <= Cardinality(idle[v]) + n
  <2> HIDE DEF S, n
  <2> QED
    BY <1>1, <1>3, <1>4, <1>5
<1> QED
  BY <1>1, <1>2, <1>3, <1>5, <1>7, <1>8

-----------------------------------------------------------------------------
(* Steps preserve the invariant                                            *)

\* The two accounting invariants, in the names of the counts.
Counts ==
    /\ activeTotal = InUse + Cardinality(Reserving)
    /\ \A v \in Servers :
        activePerServer[v] = InUseOf(v) + Cardinality(ReservingFor(v))
    /\ tenantActive = TenantInUse + Cardinality(HoldingBudget)
    /\ \A t \in Tenants : tenantSem[t] = InUseBy(t) + Cardinality(HoldingSlot(t))

\* Counts says what the accounting invariants say, before and after a step.
LEMMA CountsAre ==
    /\ Counts <=> ConnectionAccounting /\ TenantAccounting
    /\ Counts' <=> ConnectionAccounting' /\ TenantAccounting'
BY DEF Counts, ConnectionAccounting, TenantAccounting, InUse, InUseOf,
       TenantInUse, InUseBy, ReservingFor

\* The steps of a request that touch neither the clients nor the sessions.
Bookkeeping(r) ==
    \/ Begin(r) \/ TakeSlot(r) \/ GiveUp(r) \/ TakeBudget(r) \/ BudgetFull(r)
    \/ Refuse(r) \/ Reserve(r) \/ ConnectFail(r)
    \/ ReturnReservation(r) \/ ReturnBudget(r) \/ ReturnSlot(r)

\* They preserve the invariant: every count moves with the counter it stands for.
LEMMA BookkeepingStep ==
    ASSUME PoolAssumption, IInv, NEW r \in Requests, Bookkeeping(r)
    PROVE  IInv'
<1> USE DEF At, Goto, ServerOf, OwnerOf, IsTenant
<1>1. /\ UNCHANGED <<idle, active, heldFor>>
      /\ \A q \in Requests : q # r => pc'[q] = pc[q] /\ request'[q] = request[q]
      /\ pc' \in [Requests -> Steps] /\ request' \in [Requests -> Place]
      /\ UNCHANGED held
  <2> USE DEF IInv, TypeOK, Steps, Place, poolVars
  <2>1. CASE Begin(r)
    BY <2>1 DEF Begin
  <2>2. CASE TakeSlot(r)
    BY <2>2 DEF TakeSlot
  <2>3. CASE GiveUp(r)
    BY <2>3 DEF GiveUp
  <2>4. CASE TakeBudget(r)
    BY <2>4 DEF TakeBudget
  <2>5. CASE BudgetFull(r)
    BY <2>5 DEF BudgetFull
  <2>6. CASE Refuse(r)
    BY <2>6 DEF Refuse
  <2>7. CASE Reserve(r)
    BY <2>7 DEF Reserve, IncActive
  <2>8. CASE ConnectFail(r)
    BY <2>8 DEF ConnectFail
  <2>9. CASE ReturnReservation(r)
    BY <2>9 DEF ReturnReservation
  <2>10. CASE ReturnBudget(r)
    BY <2>10 DEF ReturnBudget
  <2>11. CASE ReturnSlot(r)
    BY <2>11 DEF ReturnSlot
  <2> QED
    BY <2>1, <2>2, <2>3, <2>4, <2>5, <2>6, <2>7, <2>8, <2>9, <2>10, <2>11 DEF Bookkeeping
<1>2. /\ InUse' = InUse /\ TenantInUse' = TenantInUse
      /\ \A v \in Servers : InUseOf(v)' = InUseOf(v)
      /\ \A t \in Tenants : InUseBy(t)' = InUseBy(t)
  BY <1>1 DEF InUse, InUseOf, TenantInUse, InUseBy, ClientsOfServer,
              TenantClients, ClientsOfTenant
<1>3. /\ InUse \in Nat /\ TenantInUse \in Nat
      /\ \A v \in Servers : InUseOf(v) \in Nat
      /\ \A t \in Tenants : InUseBy(t) \in Nat
  BY InUseTypes DEF IInv, Limits
<1>4. /\ Shift(Reserving, Reserving', r)
      /\ \A v \in Servers : Shift(ReservingFor(v), ReservingFor(v)', r)
      /\ Shift(HoldingBudget, HoldingBudget', r)
      /\ \A t \in Tenants : Shift(HoldingSlot(t), HoldingSlot(t)', r)
  BY <1>1, RequestMoves
<1>5. Counts
  BY CountsAre DEF IInv
<1>6. OnePlace'
  BY <1>1 DEF IInv, OnePlace
<1>o. TenantSteps /\ OwnerOf(r) \in Tenants \cup {Operator}
  BY DEF IInv, TypeOK, Place, PoolAssumption
<1>7. \A v \in Servers : idle[v] = {} => Cardinality(idle[v]) = 0
  BY FS_EmptySet
<1> DEFINE Rest == /\ activePerServer' \in [Servers -> Nat] /\ activeTotal' \in Nat
                   /\ tenantActive' \in Nat /\ tenantSem' \in [Tenants -> Nat]
                   /\ tenantActive' <= TenantBudget
                   /\ \A t \in Tenants : tenantSem'[t] <= TenantPerKey
                   /\ Counts' /\ PerServerCap' /\ TenantSteps'
<1>8. SUFFICES Rest
  BY <1>1, <1>6, CountsAre DEF IInv, TypeOK, Limits
<1>t. /\ activePerServer \in [Servers -> Nat] /\ activeTotal \in Nat
      /\ tenantActive \in Nat /\ tenantSem \in [Tenants -> Nat]
      /\ pc[r] \in Steps /\ ServerOf(r) \in Servers
      /\ OwnerOf(r) \in Tenants \cup {Operator} /\ Operator \notin Tenants
      /\ tenantActive <= TenantBudget /\ TenantBudget \in Nat
      /\ \A t \in Tenants : tenantSem[t] <= TenantPerKey
      /\ TenantPerKey \in Nat /\ MaxPerServer \in Nat
      /\ pc \in [Requests -> Steps] /\ request[r] \in Place
  BY DEF IInv, TypeOK, PoolAssumption, Limits, Place
<1>c. /\ PerServerCap
      /\ \A v \in Servers : idle'[v] = idle[v] /\ Cardinality(idle[v]) \in Nat
  <2>1. \A v \in Servers : Cardinality(idle[v]) \in Nat
    BY FS_Subset, FS_CardinalityType DEF IInv, TypeOK, PoolAssumption
  <2> QED
    BY <1>1, <2>1 DEF IInv
\* Where the request is decides which counts it is in.
<1>r. /\ r \in Reserving <=> pc[r] \in {"connect", "unreserve"}
      /\ r \in Reserving' <=> pc'[r] \in {"connect", "unreserve"}
      /\ \A v \in Servers :
           /\ r \in ReservingFor(v) <=> r \in Reserving /\ ServerOf(r) = v
           /\ r \in ReservingFor(v)' <=> r \in Reserving' /\ ServerOf(r)' = v
  BY DEF Reserving, ReservingFor
<1>b. /\ r \in HoldingBudget <=>
           IsTenant(r) /\ pc[r] \in {"acquire", "connect", "unreserve", "unbudget"}
      /\ r \in HoldingBudget' <=>
           IsTenant(r)' /\ pc'[r] \in {"acquire", "connect", "unreserve", "unbudget"}
  BY DEF HoldingBudget
<1>s. \A t \in Tenants :
        /\ r \in HoldingSlot(t) <=> OwnerOf(r) = t
              /\ pc[r] \in {"budget", "acquire", "connect", "unreserve", "unbudget", "unslot"}
        /\ r \in HoldingSlot(t)' <=> OwnerOf(r)' = t
              /\ pc'[r] \in {"budget", "acquire", "connect", "unreserve", "unbudget", "unslot"}
  BY DEF HoldingSlot
<1>a1. CASE Begin(r)
  BY <1>a1, <1>1, <1>2, <1>3, <1>4, <1>5, <1>7, <1>t, <1>c, <1>r, <1>b, <1>s, <1>o
     DEF Begin, Counts, PerServerCap, Shift, poolVars, TenantSteps
<1>a2. CASE TakeSlot(r)
  BY <1>a2, <1>1, <1>2, <1>3, <1>4, <1>5, <1>7, <1>t, <1>c, <1>r, <1>b, <1>s, <1>o
     DEF TakeSlot, Counts, PerServerCap, Shift, poolVars, TenantSteps
<1>a3. CASE GiveUp(r)
  BY <1>a3, <1>1, <1>2, <1>3, <1>4, <1>5, <1>7, <1>t, <1>c, <1>r, <1>b, <1>s, <1>o
     DEF GiveUp, Counts, PerServerCap, Shift, poolVars, TenantSteps
<1>a4. CASE TakeBudget(r)
  BY <1>a4, <1>1, <1>2, <1>3, <1>4, <1>5, <1>7, <1>t, <1>c, <1>r, <1>b, <1>s, <1>o
     DEF TakeBudget, Counts, PerServerCap, Shift, poolVars, TenantSteps
<1>a5. CASE BudgetFull(r)
  BY <1>a5, <1>1, <1>2, <1>3, <1>4, <1>5, <1>7, <1>t, <1>c, <1>r, <1>b, <1>s, <1>o
     DEF BudgetFull, Counts, PerServerCap, Shift, poolVars, TenantSteps
<1>a6. CASE Refuse(r)
  BY <1>a6, <1>1, <1>2, <1>3, <1>4, <1>5, <1>7, <1>t, <1>c, <1>r, <1>b, <1>s, <1>o
     DEF Refuse, Counts, PerServerCap, Shift, poolVars, TenantSteps
<1>a7. CASE Reserve(r)
  <2>0. /\ activePerServer[ServerOf(r)] < MaxPerServer /\ idle[ServerOf(r)] = {}
        /\ activePerServer' = [activePerServer EXCEPT ![ServerOf(r)] = @ + 1]
        /\ activeTotal' = activeTotal + 1
        /\ tenantActive' = tenantActive /\ tenantSem' = tenantSem
    BY <1>a7 DEF Reserve, IncActive
  <2>1. /\ activePerServer' \in [Servers -> Nat] /\ activeTotal' \in Nat
        /\ PerServerCap'
    <3>1. \A v \in Servers : v # ServerOf(r) => activePerServer'[v] = activePerServer[v]
      BY <2>0, <1>t
    <3>2. activePerServer'[ServerOf(r)] = activePerServer[ServerOf(r)] + 1
      BY <2>0, <1>t
    <3>3. Cardinality(idle[ServerOf(r)]) = 0
      BY <2>0, <1>7, <1>t
    <3>4. \A v \in Servers : Cardinality(idle'[v]) = Cardinality(idle[v])
      BY <1>c
    <3>5. ASSUME NEW v \in Servers
          PROVE  activePerServer'[v] + Cardinality(idle'[v]) <= MaxPerServer
      <4> DEFINE n == Cardinality(idle[v])
      <4>1. n \in Nat /\ Cardinality(idle'[v]) = n
        BY <1>c, <3>4
      <4>2. activePerServer[v] \in Nat /\ activePerServer[v] + n <= MaxPerServer
        BY <1>t, <1>c DEF PerServerCap
      <4>3. CASE v = ServerOf(r)
        <5>1. n = 0 /\ activePerServer'[v] = activePerServer[v] + 1
          BY <3>2, <3>3, <4>3
        <5>2. activePerServer[v] < MaxPerServer
          BY <2>0, <4>3
        <5> HIDE DEF n
        <5> QED
          BY <4>1, <4>2, <5>1, <5>2, <1>t
      <4>4. CASE v # ServerOf(r)
        BY <3>1, <4>1, <4>2, <4>4
      <4> QED
        BY <4>3, <4>4
    <3> QED
      BY <2>0, <3>5, <1>t DEF PerServerCap
  <2>2. Counts'
    <3>0. pc[r] = "acquire" /\ pc'[r] = "connect" /\ request' = request
      BY <1>a7, <1>t DEF Reserve
    <3>1. activeTotal' = InUse' + Cardinality(Reserving')
      <4>1. Cardinality(Reserving) \in Nat /\ Cardinality(Reserving') = Cardinality(Reserving) + 1
        BY <3>0, <1>4, <1>r DEF Shift
      <4> QED
        BY <4>1, <2>0, <1>2, <1>3, <1>5 DEF Counts
    <3>2. ASSUME NEW v \in Servers
          PROVE  activePerServer'[v] = InUseOf(v)' + Cardinality(ReservingFor(v)')
      <4>1. /\ Cardinality(ReservingFor(v)) \in Nat
            /\ Cardinality(ReservingFor(v)') =
                 IF ServerOf(r) = v THEN Cardinality(ReservingFor(v)) + 1 ELSE Cardinality(ReservingFor(v))
        BY <3>0, <1>4, <1>r DEF Shift
      <4>2. /\ activePerServer[v] = InUseOf(v) + Cardinality(ReservingFor(v))
            /\ InUseOf(v) \in Nat /\ InUseOf(v)' = InUseOf(v)
            /\ activePerServer'[v] =
                 IF ServerOf(r) = v THEN activePerServer[v] + 1 ELSE activePerServer[v]
        BY <2>0, <1>2, <1>3, <1>5, <1>t DEF Counts
      <4> QED
        BY <4>1, <4>2
    <3>3. tenantActive' = TenantInUse' + Cardinality(HoldingBudget')
      <4>1. Cardinality(HoldingBudget') = Cardinality(HoldingBudget)
        BY <3>0, <1>4, <1>b DEF Shift
      <4> QED
        BY <4>1, <2>0, <1>2, <1>5 DEF Counts
    <3>4. ASSUME NEW t \in Tenants
          PROVE  tenantSem'[t] = InUseBy(t)' + Cardinality(HoldingSlot(t)')
      <4>1. Cardinality(HoldingSlot(t)') = Cardinality(HoldingSlot(t))
        BY <3>0, <1>4, <1>s DEF Shift
      <4> QED
        BY <4>1, <2>0, <1>2, <1>5 DEF Counts
    <3> QED
      BY <3>1, <3>2, <3>3, <3>4 DEF Counts
  <2>3. TenantSteps'
    BY <1>a7, <1>1, <1>t, <1>o DEF Reserve, TenantSteps
  <2> QED
    BY <2>0, <2>1, <2>2, <2>3, <1>t
<1>a8. CASE ConnectFail(r)
  BY <1>a8, <1>1, <1>2, <1>3, <1>4, <1>5, <1>7, <1>t, <1>c, <1>r, <1>b, <1>s, <1>o
     DEF ConnectFail, Counts, PerServerCap, Shift, poolVars, TenantSteps
<1>a9. CASE ReturnReservation(r)
  BY <1>a9, <1>1, <1>2, <1>3, <1>4, <1>5, <1>7, <1>t, <1>c, <1>r, <1>b, <1>s, <1>o
     DEF ReturnReservation, Counts, PerServerCap, Shift, poolVars, TenantSteps
<1>a10. CASE ReturnBudget(r)
  BY <1>a10, <1>1, <1>2, <1>3, <1>4, <1>5, <1>7, <1>t, <1>c, <1>r, <1>b, <1>s, <1>o
     DEF ReturnBudget, Counts, PerServerCap, Shift, poolVars, TenantSteps
<1>a11. CASE ReturnSlot(r)
  BY <1>a11, <1>1, <1>2, <1>3, <1>4, <1>5, <1>7, <1>t, <1>c, <1>r, <1>b, <1>s, <1>o
     DEF ReturnSlot, Counts, PerServerCap, Shift, poolVars, TenantSteps
<1> QED
  BY <1>a1, <1>a2, <1>a3, <1>a4, <1>a5, <1>a6, <1>a7, <1>a8, <1>a9, <1>a10, <1>a11 DEF Bookkeeping

\* A client is handed out: reused from the idle stack, or just connected.
HandOut(r) == ReuseIdle(r) \/ Connect(r)

\* Handing out a client preserves the invariant.
LEMMA HandOutStep ==
    ASSUME PoolAssumption, IInv, NEW r \in Requests, HandOut(r)
    PROVE  IInv'
<1> USE DEF At, Goto
<1>t. /\ TypeOK /\ OnePlace /\ Counts /\ PerServerCap /\ TenantSteps /\ Limits
      /\ ServerOf(r) \in Servers /\ OwnerOf(r) \in Tenants \cup {Operator}
      /\ r \in Requests /\ pc[r] \in {"acquire", "connect"} /\ pc'[r] = "calling"
  BY CountsAre DEF IInv, TypeOK, Place, ServerOf, OwnerOf, PoolAssumption, HandOut, ReuseIdle, Connect
<1>1. PICK c \in Clients :
        /\ Attach(r, c) /\ \A a \in active : a.client # c
        /\ \/ /\ pc[r] = "acquire" /\ c \in idle[ServerOf(r)]
              /\ idle' = [idle EXCEPT ![ServerOf(r)] = @ \ {c}]
              /\ IncActive(ServerOf(r))
           \/ /\ pc[r] = "connect" /\ \A v \in Servers : c \notin idle[v]
              /\ UNCHANGED <<idle, activePerServer, activeTotal>>
  <2>1. CASE ReuseIdle(r)
    <3>1. PICK c \in idle[ServerOf(r)] :
            /\ idle' = [idle EXCEPT ![ServerOf(r)] = @ \ {c}] /\ Attach(r, c)
      BY <2>1 DEF ReuseIdle
    <3>2. c \in Clients /\ \A a \in active : a.client # c
      BY <3>1, <1>t DEF TypeOK, OnePlace
    <3>3. pc[r] = "acquire" /\ IncActive(ServerOf(r))
      BY <2>1 DEF ReuseIdle
    <3> QED
      BY <3>1, <3>2, <3>3
  <2>2. CASE Connect(r)
    <3>1. PICK c \in Clients \ Live : Attach(r, c)
      BY <2>2 DEF Connect
    <3>2. /\ \A a \in active : a.client # c
          /\ \A v \in Servers : c \notin idle[v]
      BY <3>1 DEF Live
    <3>3. pc[r] = "connect" /\ UNCHANGED <<idle, activePerServer, activeTotal>>
      BY <2>2 DEF Connect
    <3> QED
      BY <3>1, <3>2, <3>3
  <2> QED
    BY <2>1, <2>2 DEF HandOut
<1>2. /\ UNCHANGED <<tenantActive, tenantSem, request>>
      /\ pc' = [pc EXCEPT ![r] = "calling"]
      /\ \A q \in Requests : q # r => pc'[q] = pc[q] /\ request'[q] = request[q]
  BY <1>t DEF HandOut, ReuseIdle, Connect, TypeOK
<1>3. /\ Shift(Reserving, Reserving', r)
      /\ \A v \in Servers : Shift(ReservingFor(v), ReservingFor(v)', r)
      /\ Shift(HoldingBudget, HoldingBudget', r)
      /\ \A t \in Tenants : Shift(HoldingSlot(t), HoldingSlot(t)', r)
  BY <1>2, RequestMoves
<1>4. /\ InUse \in Nat /\ TenantInUse \in Nat
      /\ \A v \in Servers : InUseOf(v) \in Nat
      /\ \A t \in Tenants : InUseBy(t) \in Nat
  BY <1>t, InUseTypes DEF Limits
<1>5. /\ IsFiniteSet(active')
      /\ InUse' = InUse + 1
      /\ \A v \in Servers :
            InUseOf(v)' = IF v = ServerOf(r) THEN InUseOf(v) + 1 ELSE InUseOf(v)
      /\ TenantInUse' = IF IsTenant(r) THEN TenantInUse + 1 ELSE TenantInUse
      /\ \A t \in Tenants :
            InUseBy(t)' = IF t = OwnerOf(r) THEN InUseBy(t) + 1 ELSE InUseBy(t)
  BY <1>t, <1>1, <1>2, ClientAttached DEF Limits
<1>6. /\ r \in Reserving <=> pc[r] = "connect"
      /\ r \notin Reserving'
      /\ \A v \in Servers :
           /\ r \in ReservingFor(v) <=> r \in Reserving /\ ServerOf(r) = v
           /\ r \notin ReservingFor(v)'
      /\ r \in HoldingBudget <=> IsTenant(r)
      /\ r \notin HoldingBudget'
      /\ \A t \in Tenants :
           /\ r \in HoldingSlot(t) <=> OwnerOf(r) = t
           /\ r \notin HoldingSlot(t)'
  BY <1>t DEF Reserving, ReservingFor, HoldingBudget, HoldingSlot
<1>7. /\ activePerServer' \in [Servers -> Nat] /\ activeTotal' \in Nat
      /\ \A v \in Servers : activePerServer'[v] =
            IF v = ServerOf(r) /\ pc[r] = "acquire" THEN activePerServer[v] + 1 ELSE activePerServer[v]
      /\ activeTotal' = IF pc[r] = "acquire" THEN activeTotal + 1 ELSE activeTotal
  BY <1>1, <1>t DEF IncActive, TypeOK
<1>8. Counts'
  <2>1. activeTotal' = InUse' + Cardinality(Reserving')
    <3>1. activeTotal = InUse + Cardinality(Reserving) /\ InUse \in Nat /\ InUse' = InUse + 1
      BY <1>4, <1>5, <1>t DEF Counts
    <3>2. /\ Cardinality(Reserving) \in Nat
          /\ Cardinality(Reserving') =
               IF pc[r] = "connect" THEN Cardinality(Reserving) - 1 ELSE Cardinality(Reserving)
      BY <1>3, <1>6 DEF Shift
    <3> QED
      BY <3>1, <3>2, <1>7, <1>t
  <2>2. ASSUME NEW v \in Servers
        PROVE  activePerServer'[v] = InUseOf(v)' + Cardinality(ReservingFor(v)')
    <3>1. /\ activePerServer[v] = InUseOf(v) + Cardinality(ReservingFor(v))
          /\ InUseOf(v) \in Nat
      BY <1>4, <1>t DEF Counts
    <3>2. /\ Cardinality(ReservingFor(v)) \in Nat
          /\ Cardinality(ReservingFor(v)') =
               IF ServerOf(r) = v /\ pc[r] = "connect"
               THEN Cardinality(ReservingFor(v)) - 1 ELSE Cardinality(ReservingFor(v))
      BY <1>3, <1>6 DEF Shift
    <3> QED
      BY <3>1, <3>2, <1>5, <1>7, <1>t
  <2>3. tenantActive' = TenantInUse' + Cardinality(HoldingBudget')
    <3>1. /\ tenantActive = TenantInUse + Cardinality(HoldingBudget) /\ tenantActive' = tenantActive
          /\ TenantInUse \in Nat
          /\ TenantInUse' = IF IsTenant(r) THEN TenantInUse + 1 ELSE TenantInUse
      BY <1>2, <1>4, <1>5, <1>t DEF Counts
    <3>2. /\ Cardinality(HoldingBudget) \in Nat
          /\ Cardinality(HoldingBudget') =
               IF IsTenant(r) THEN Cardinality(HoldingBudget) - 1 ELSE Cardinality(HoldingBudget)
      BY <1>3, <1>6 DEF Shift
    <3> QED
      BY <3>1, <3>2
  <2>4. ASSUME NEW t \in Tenants
        PROVE  tenantSem'[t] = InUseBy(t)' + Cardinality(HoldingSlot(t)')
    BY <1>2, <1>3, <1>4, <1>5, <1>6, <1>t DEF Counts, Shift
  <2> QED
    BY <2>1, <2>2, <2>3, <2>4 DEF Counts
<1>9. TypeOK'
  <2>1. AttachmentOf(r, c) \in Attachment
    BY <1>t DEF TypeOK, AttachmentOf, Attachment, Place, ServerOf
  <2>2. active' \in SUBSET Attachment
    BY <1>1, <1>t, <2>1 DEF TypeOK, Attach
  <2>3. /\ heldFor' \in [Clients -> Tenants \cup {Operator}]
        /\ held' \in [Requests -> Clients \cup {NoClient}]
    BY <1>1, <1>t DEF TypeOK, Attach
  <2>4. idle' \in [Servers -> SUBSET Clients]
    BY <1>1, <1>t DEF TypeOK
  <2>5. /\ pc' \in [Requests -> Steps] /\ request' \in [Requests -> Place]
        /\ tenantActive' \in Nat /\ tenantSem' \in [Tenants -> Nat]
    BY <1>2, <1>t DEF TypeOK, Steps
  <2> QED
    BY <1>7, <2>2, <2>3, <2>4, <2>5 DEF TypeOK
<1>10. OnePlace'
  <2>1. /\ active' = active \cup {AttachmentOf(r, c)}
        /\ heldFor' = [heldFor EXCEPT ![c] = OwnerOf(r)]
        /\ AttachmentOf(r, c).client = c /\ AttachmentOf(r, c).server = ServerOf(r)
    BY <1>1 DEF Attach, AttachmentOf
  <2>2. \A v \in Servers : c \notin idle'[v] /\ idle'[v] \subseteq idle[v]
    BY <1>1, <1>t DEF OnePlace, TypeOK
  <2>3. \A a \in active : heldFor'[a.client] = heldFor[a.client]
    BY <1>1, <2>1, <1>t DEF TypeOK
  <2>4. heldFor'[c] = Owner[ServerOf(r)]
    BY <2>1, <1>t DEF TypeOK, OwnerOf
  <2> QED
    BY <1>1, <2>1, <2>2, <2>3, <2>4, <1>t DEF OnePlace
<1>11. PerServerCap'
  <2> SUFFICES ASSUME NEW v \in Servers
               PROVE  activePerServer'[v] + Cardinality(idle'[v]) <= MaxPerServer
    BY DEF PerServerCap
  <2>1. IsFiniteSet(idle[v]) /\ Cardinality(idle[v]) \in Nat
    BY <1>t, FS_Subset, FS_CardinalityType DEF TypeOK, PoolAssumption
  <2>2. activePerServer[v] + Cardinality(idle[v]) <= MaxPerServer /\ MaxPerServer \in Nat
    BY <1>t DEF PerServerCap, PoolAssumption
  <2>3. CASE pc[r] = "acquire" /\ v = ServerOf(r)
    <3>1. Cardinality(idle'[v]) = Cardinality(idle[v]) - 1
      BY <1>1, <1>t, <2>1, <2>3, FS_RemoveElement DEF TypeOK
    <3> QED
      BY <1>7, <1>t, <2>1, <2>2, <2>3, <3>1 DEF TypeOK
  <2>4. CASE ~(pc[r] = "acquire" /\ v = ServerOf(r))
    <3>1. idle'[v] = idle[v]
      BY <1>1, <1>t, <2>4 DEF TypeOK
    <3> QED
      BY <1>7, <1>t, <2>1, <2>2, <2>4, <3>1
  <2> QED
    BY <2>3, <2>4
<1>12. TenantSteps' /\ Limits'
  BY <1>2, <1>5, <1>t DEF TenantSteps, Limits, IsTenant, OwnerOf, ServerOf, TypeOK
<1> QED
  BY <1>8, <1>9, <1>10, <1>11, <1>12, CountsAre DEF IInv

\* Clients are detached: by the request that has one, or with their session.
LEMMA DetachStep ==
    ASSUME PoolAssumption, IInv, NEW A, A \subseteq active, Detach(A),
           UNCHANGED request, pc' \in [Requests -> Steps],
           held' \in [Requests -> Clients \cup {NoClient}],
           \A r \in Requests : pc'[r] = pc[r] \/ (pc[r] = "calling" /\ pc'[r] = "done")
    PROVE  IInv'
<1>t. /\ TypeOK /\ OnePlace /\ Counts /\ PerServerCap /\ TenantSteps /\ Limits
  BY CountsAre DEF IInv
<1>d. /\ active' = active \ A
      /\ activePerServer' = [v \in Servers |->
            activePerServer[v] - Cardinality(ClientsOfServer(A, v))]
      /\ activeTotal' = activeTotal - Cardinality(A)
      /\ tenantActive' = tenantActive - Cardinality(TenantClients(A))
      /\ tenantSem' = [t \in Tenants |-> tenantSem[t] - Cardinality(ClientsOfTenant(A, t))]
      /\ heldFor' = [c \in Clients |->
            IF \E a \in A : a.client = c THEN Operator ELSE heldFor[c]]
      /\ idle' = [v \in Servers |-> Parked(v, {a.client : a \in ClientsOfServer(A, v)})]
  BY DEF Detach, DecActive, ReleaseTenant
<1>1. /\ IsFiniteSet(active') /\ Cardinality(A) \in Nat
      /\ InUse' = InUse - Cardinality(A) /\ InUse' \in Nat
      /\ \A v \in Servers :
            /\ Cardinality(ClientsOfServer(A, v)) \in Nat
            /\ InUseOf(v)' = InUseOf(v) - Cardinality(ClientsOfServer(A, v))
            /\ InUseOf(v)' \in Nat
      /\ Cardinality(TenantClients(A)) \in Nat
      /\ TenantInUse' = TenantInUse - Cardinality(TenantClients(A))
      /\ TenantInUse' \in Nat
      /\ \A t \in Tenants :
            /\ Cardinality(ClientsOfTenant(A, t)) \in Nat
            /\ InUseBy(t)' = InUseBy(t) - Cardinality(ClientsOfTenant(A, t))
            /\ InUseBy(t)' \in Nat
  BY <1>t, Detached DEF Limits
<1>2. /\ Reserving' = Reserving /\ HoldingBudget' = HoldingBudget
      /\ \A v \in Servers : ReservingFor(v)' = ReservingFor(v)
      /\ \A t \in Tenants : HoldingSlot(t)' = HoldingSlot(t)
  BY DEF Reserving, ReservingFor, HoldingBudget, HoldingSlot, IsTenant, OwnerOf, ServerOf
<1>3. /\ Cardinality(Reserving) \in Nat /\ Cardinality(HoldingBudget) \in Nat
      /\ \A v \in Servers : Cardinality(ReservingFor(v)) \in Nat
      /\ \A t \in Tenants : Cardinality(HoldingSlot(t)) \in Nat
  BY FS_Subset, FS_CardinalityType
     DEF PoolAssumption, Reserving, ReservingFor, HoldingBudget, HoldingSlot
<1>4. /\ InUse \in Nat /\ TenantInUse \in Nat
      /\ \A v \in Servers : InUseOf(v) \in Nat
      /\ \A t \in Tenants : InUseBy(t) \in Nat
  BY <1>t, InUseTypes DEF Limits
<1>5. Counts' /\ activeTotal' \in Nat /\ tenantActive' \in Nat
      /\ activePerServer' \in [Servers -> Nat] /\ tenantSem' \in [Tenants -> Nat]
  <2>1. activeTotal' = InUse' + Cardinality(Reserving') /\ activeTotal' \in Nat
    BY <1>d, <1>t, <1>1, <1>2, <1>3, <1>4 DEF Counts
  <2>2. ASSUME NEW v \in Servers
        PROVE  /\ activePerServer'[v] = InUseOf(v)' + Cardinality(ReservingFor(v)')
               /\ activePerServer'[v] \in Nat
    BY <1>d, <1>t, <1>1, <1>2, <1>3, <1>4 DEF Counts
  <2>3. tenantActive' = TenantInUse' + Cardinality(HoldingBudget') /\ tenantActive' \in Nat
    BY <1>d, <1>t, <1>1, <1>2, <1>3, <1>4 DEF Counts
  <2>4. ASSUME NEW t \in Tenants
        PROVE  /\ tenantSem'[t] = InUseBy(t)' + Cardinality(HoldingSlot(t)')
               /\ tenantSem'[t] \in Nat
    BY <1>d, <1>t, <1>1, <1>2, <1>3, <1>4 DEF Counts
  <2> QED
    BY <1>d, <2>1, <2>2, <2>3, <2>4 DEF Counts
\* Every client finds room on its server's idle stack.
<1>6. ASSUME NEW v \in Servers
      PROVE  /\ idle'[v] = idle[v] \cup {a.client : a \in ClientsOfServer(A, v)}
             /\ activePerServer'[v] + Cardinality(idle'[v]) <= MaxPerServer
  <2> DEFINE S == {a.client : a \in ClientsOfServer(A, v)}
             n == Cardinality(ClientsOfServer(A, v))
  <2>1. /\ n \in Nat /\ n <= activePerServer[v]
        /\ Parked(v, S) = idle[v] \cup S
        /\ Cardinality(idle[v]) \in Nat
        /\ Cardinality(idle[v] \cup S) \in Nat
        /\ Cardinality(idle[v] \cup S) <= Cardinality(idle[v]) + n
    BY RoomToPark
  <2>2. idle'[v] = idle[v] \cup S /\ activePerServer'[v] = activePerServer[v] - n
    BY <1>d, <2>1
  <2>3. /\ activePerServer[v] + Cardinality(idle[v]) <= MaxPerServer
        /\ activePerServer[v] \in Nat /\ MaxPerServer \in Nat
    BY <1>t DEF PerServerCap, TypeOK, PoolAssumption
  <2> HIDE DEF S, n
  <2>4. activePerServer'[v] + Cardinality(idle'[v]) <= MaxPerServer
    BY <2>1, <2>2, <2>3
  <2> QED
    BY <2>2, <2>4 DEF S
<1>7. \A a \in A : a \in active /\ a.client \in Clients /\ a.server \in Servers
  BY <1>t DEF TypeOK, Attachment
<1>8. TypeOK'
  <2>1. idle' \in [Servers -> SUBSET Clients]
    <3>1. \A v \in Servers : idle'[v] \subseteq Clients
      BY <1>6, <1>7, <1>t DEF TypeOK, ClientsOfServer
    <3> QED
      BY <1>d, <3>1
  <2>2. /\ active' \in SUBSET Attachment
        /\ heldFor' \in [Clients -> Tenants \cup {Operator}]
    BY <1>d, <1>t DEF TypeOK
  <2> QED
    BY <1>5, <1>t, <2>1, <2>2 DEF TypeOK
<1>9. OnePlace'
  <2>1. \A v \in Servers : \A c \in idle'[v] :
            c \in idle[v] \/ \E a \in A : a.client = c /\ a.server = v
    BY <1>6 DEF ClientsOfServer
  <2>2. \A v, w \in Servers : v # w => idle'[v] \cap idle'[w] = {}
    BY <2>1, <1>7, <1>t DEF OnePlace
  <2>3. \A a \in active' : \A v \in Servers : a.client \notin idle'[v]
    BY <2>1, <1>d, <1>7, <1>t DEF OnePlace
  <2>4. \A a \in active' : /\ \A b \in active' : a.client = b.client => a = b
                          /\ heldFor'[a.client] = Owner[a.server]
    <3>1. \A a \in active' : /\ a \in active /\ a.client \in Clients
                            /\ \A b \in A : b.client # a.client
      BY <1>d, <1>7, <1>t DEF OnePlace, TypeOK, Attachment
    <3> QED
      BY <3>1, <1>d, <1>t DEF OnePlace
  <2> QED
    BY <2>2, <2>3, <2>4 DEF OnePlace
<1>10. Limits'
  <2>1. tenantActive' <= TenantBudget
    BY <1>d, <1>1, <1>t DEF Limits, TypeOK, PoolAssumption
  <2>2. ASSUME NEW t \in Tenants
        PROVE  tenantSem'[t] <= TenantPerKey
    BY <1>d, <1>1, <1>t DEF Limits, TypeOK, PoolAssumption
  <2> QED
    BY <1>1, <2>1, <2>2 DEF Limits
<1>11. TenantSteps'
  BY <1>t DEF TenantSteps, IsTenant, OwnerOf, ServerOf
<1>12. PerServerCap'
  BY <1>6 DEF PerServerCap
<1> QED
  BY <1>5, <1>8, <1>9, <1>10, <1>11, <1>12, CountsAre DEF IInv

\* The sweeper only takes clients off the idle stacks.
LEMMA SweepStep ==
    ASSUME PoolAssumption, IInv, SweepExpired
    PROVE  IInv'
<1>1. PICK expired \in SUBSET UNION {idle[v] : v \in Servers} :
        idle' = [v \in Servers |-> idle[v] \ expired]
  BY DEF SweepExpired
<1>2. UNCHANGED <<active, activePerServer, activeTotal, tenantActive, tenantSem,
                  heldFor, pc, request, held>>
  BY DEF SweepExpired
<1>3. /\ ConnectionAccounting' /\ TenantAccounting' /\ Limits' /\ TenantSteps'
  BY <1>2 DEF IInv, ConnectionAccounting, TenantAccounting, Limits, TenantSteps,
              Reserving, HoldingBudget, HoldingSlot, IsTenant, OwnerOf, ServerOf,
              ClientsOfServer, TenantClients, ClientsOfTenant
<1>4. TypeOK'
  BY <1>1, <1>2 DEF IInv, TypeOK
<1>5. OnePlace'
  BY <1>1, <1>2 DEF IInv, OnePlace
<1>6. PerServerCap'
  <2> SUFFICES ASSUME NEW v \in Servers
               PROVE  activePerServer'[v] + Cardinality(idle'[v]) <= MaxPerServer
    BY DEF PerServerCap
  <2>1. IsFiniteSet(idle[v])
    BY FS_Subset DEF IInv, TypeOK, PoolAssumption
  <2>2. idle'[v] \subseteq idle[v]
    BY <1>1
  <2>3. /\ Cardinality(idle'[v]) \in Nat /\ Cardinality(idle[v]) \in Nat
        /\ Cardinality(idle'[v]) <= Cardinality(idle[v])
    BY <2>1, <2>2, PartRemoved
  <2> QED
    BY <1>2, <2>3 DEF IInv, PerServerCap, TypeOK, PoolAssumption
<1> QED
  BY <1>3, <1>4, <1>5, <1>6 DEF IInv

\* A request releases its client: what it finds attached is detached.
LEMMA ReleaseStep ==
    ASSUME PoolAssumption, IInv, NEW r \in Requests, Release(r)
    PROVE  IInv'
<1>1. /\ Detach(active \cap {AttachmentOf(r, held[r])})
      /\ pc[r] = "calling" /\ pc' = [pc EXCEPT ![r] = "done"]
      /\ held' = [held EXCEPT ![r] = NoClient] /\ UNCHANGED request
  BY DEF Release, At, Goto
<1>2. /\ pc' \in [Requests -> Steps]
      /\ held' \in [Requests -> Clients \cup {NoClient}]
      /\ \A q \in Requests : pc'[q] = pc[q] \/ (pc[q] = "calling" /\ pc'[q] = "done")
  BY <1>1 DEF IInv, TypeOK, Steps
<1> QED
  BY <1>1, <1>2, DetachStep

\* The end of a session preserves the invariant, whatever runs in it.
LEMMA ReleaseSessionStep ==
    ASSUME PoolAssumption, IInv, NEW s \in Sessions, ReleaseSession(s)
    PROVE  IInv'
<1>1. /\ Detach({a \in active : a.session = s}) /\ UNCHANGED <<pc, request, held>>
  BY DEF ReleaseSession
<1>2. /\ pc' \in [Requests -> Steps]
      /\ held' \in [Requests -> Clients \cup {NoClient}]
  BY <1>1 DEF IInv, TypeOK
<1> QED
  BY <1>1, <1>2, DetachStep

\* The empty pool satisfies the invariant.
LEMMA InitIInv == ASSUME PoolAssumption, Init PROVE IInv
<1>1. TypeOK
  BY DEF Init, TypeOK, Steps
<1>2. /\ active = {} /\ \A A : A \subseteq {} => A = {}
      /\ Reserving = {} /\ HoldingBudget = {}
      /\ \A t \in Tenants : HoldingSlot(t) = {}
  BY DEF Init, Reserving, HoldingBudget, HoldingSlot
<1>3. /\ TenantClients(active) = {} /\ \A v \in Servers : ClientsOfServer(active, v) = {}
      /\ \A t \in Tenants : ClientsOfTenant(active, t) = {}
      /\ \A v \in Servers : ReservingFor(v) = {}
  BY <1>2 DEF TenantClients, ClientsOfServer, ClientsOfTenant, ReservingFor
<1>4. IsFiniteSet({}) /\ Cardinality({}) = 0
  BY FS_EmptySet
<1>5. Counts
  <2>1. /\ InUse = 0 /\ TenantInUse = 0
        /\ Cardinality(Reserving) = 0 /\ Cardinality(HoldingBudget) = 0
    BY <1>2, <1>3, <1>4 DEF InUse, TenantInUse
  <2>2. \A v \in Servers : InUseOf(v) = 0 /\ Cardinality(ReservingFor(v)) = 0
    BY <1>3, <1>4 DEF InUseOf
  <2>3. \A t \in Tenants : InUseBy(t) = 0 /\ Cardinality(HoldingSlot(t)) = 0
    BY <1>2, <1>3, <1>4 DEF InUseBy
  <2> QED
    BY <2>1, <2>2, <2>3 DEF Init, Counts
<1>6. Limits
  BY <1>2, <1>4 DEF Init, Limits, PoolAssumption
<1>7. PerServerCap
  BY <1>4 DEF Init, PerServerCap, PoolAssumption
<1>8. OnePlace /\ TenantSteps
  BY DEF Init, OnePlace, TenantSteps
<1> QED
  BY <1>1, <1>5, <1>6, <1>7, <1>8, CountsAre DEF IInv

\* Every step of the specification preserves it.
LEMMA NextIInv == ASSUME PoolAssumption, IInv, [Next]_vars PROVE IInv'
<1>1. ASSUME NEW r \in Requests, Bookkeeping(r)
      PROVE  IInv'
  BY <1>1, BookkeepingStep
<1>2. ASSUME NEW r \in Requests, HandOut(r)
      PROVE  IInv'
  BY <1>2, HandOutStep
<1>3. ASSUME NEW r \in Requests, Release(r)
      PROVE  IInv'
  BY <1>3, ReleaseStep
<1>4. ASSUME NEW s \in Sessions, ReleaseSession(s)
      PROVE  IInv'
  BY <1>4, ReleaseSessionStep
<1>5. CASE SweepExpired
  BY <1>5, SweepStep
<1>6. CASE UNCHANGED vars
  <2>1. TypeOK' /\ Limits' /\ TenantSteps' /\ OnePlace' /\ PerServerCap'
    BY <1>6 DEF vars, IInv, TypeOK, Limits, TenantSteps, OnePlace, PerServerCap,
                IsTenant, OwnerOf, ServerOf
  <2>2. /\ Reserving' = Reserving /\ HoldingBudget' = HoldingBudget
        /\ TenantClients(active)' = TenantClients(active)
    BY <1>6 DEF vars, Reserving, HoldingBudget, TenantClients, IsTenant, OwnerOf, ServerOf
  <2>3. \A v \in Servers : /\ ReservingFor(v)' = ReservingFor(v)
                            /\ ClientsOfServer(active, v)' = ClientsOfServer(active, v)
    BY <1>6, <2>2 DEF vars, ReservingFor, ClientsOfServer, ServerOf
  <2>4. \A t \in Tenants : /\ HoldingSlot(t)' = HoldingSlot(t)
                            /\ ClientsOfTenant(active, t)' = ClientsOfTenant(active, t)
    BY <1>6 DEF vars, HoldingSlot, ClientsOfTenant, OwnerOf, ServerOf
  <2>5. Counts'
    BY <1>6, <2>2, <2>3, <2>4, CountsAre DEF vars, IInv, Counts, InUse, InUseOf, TenantInUse, InUseBy
  <2> QED
    BY <2>1, <2>5, CountsAre DEF IInv
<1> QED
  BY <1>1, <1>2, <1>3, <1>4, <1>5, <1>6 DEF Next, Proceed, Bookkeeping, HandOut

\* The inductive invariant holds in every state the pool reaches.
THEOREM Invariance == Spec => []IInv
<1>1. Init => IInv
  BY PoolAssumption, InitIInv
<1>2. IInv /\ [Next]_vars => IInv'
  BY PoolAssumption, NextIInv
<1> QED
  BY <1>1, <1>2, PTL DEF Spec

-----------------------------------------------------------------------------
(* What the invariant gives                                                *)

\* The counters stay natural numbers: the clamp in decActiveLocked
\* (pool.go:253-267) never has anything to clamp.
THEOREM TypeCorrect == Spec => []TypeOK
BY Invariance, PTL DEF IInv

\* The pool's counts of connections are those in use and being made (pool.go:54-60).
THEOREM ConnectionsCounted == Spec => []ConnectionAccounting
BY Invariance, PTL DEF IInv

\* So are a tenant's budget and the tokens in its channel (pool.go:227-251).
THEOREM TenantsCounted == Spec => []TenantAccounting
BY Invariance, PTL DEF IInv

\* A pooled client is in one place (pool.go:288-293).
THEOREM ClientInOnePlace == Spec => []OnePlace
BY Invariance, PTL DEF IInv

\* The per-server cap bounds the connections in use and idle together, so
\* Release and ReleaseSession never close a client for lack of room.
THEOREM PerServerCapHolds == Spec => []PerServerCap
BY Invariance, PTL DEF IInv

\* The receive under p.mu never blocks (pool.go:279-286), nor the deferred one.
THEOREM TokenPresent == Spec => []SlotTokenPresent
<1>1. IInv => SlotTokenPresent
  <2> SUFFICES ASSUME IInv PROVE SlotTokenPresent
    OBVIOUS
  <2>1. ASSUME NEW t \in Tenants
        PROVE  /\ InUseBy(t) \in Nat /\ Cardinality(HoldingSlot(t)) \in Nat
               /\ IsFiniteSet(HoldingSlot(t))
               /\ tenantSem[t] = InUseBy(t) + Cardinality(HoldingSlot(t))
    <3>1. IsFiniteSet(HoldingSlot(t))
      BY PoolAssumption, FS_Subset DEF PoolAssumption, HoldingSlot
    <3> QED
      BY <3>1, InUseTypes, FS_CardinalityType, CountsAre DEF IInv, Limits, Counts
  <2>2. \A t \in Tenants : Cardinality(ClientsOfTenant(active, t)) <= tenantSem[t]
    BY <2>1 DEF InUseBy
  <2>3. ASSUME NEW r \in Requests, At(r, "unslot")
        PROVE  tenantSem[OwnerOf(r)] > 0
    <3>1. OwnerOf(r) \in Tenants
      BY <2>3, PoolAssumption
         DEF IInv, TypeOK, TenantSteps, IsTenant, OwnerOf, ServerOf, Place, At, PoolAssumption
    <3>2. r \in HoldingSlot(OwnerOf(r))
      BY <2>3 DEF HoldingSlot, At
    <3>3. Cardinality(HoldingSlot(OwnerOf(r))) # 0
      BY <2>1, <3>1, <3>2, FS_EmptySet
    <3> QED
      BY <2>1, <3>1, <3>3
  <2> QED
    BY <2>2, <2>3 DEF SlotTokenPresent
<1> QED
  BY <1>1, Invariance, PTL

\* Tenants keep to the budget and each to its share, reservations included.
THEOREM TenantsWithinShare == Spec => []TenantShare
<1>1. IInv => TenantShare
  <2> SUFFICES ASSUME IInv PROVE TenantShare
    OBVIOUS
  <2>1. /\ IsFiniteSet(HoldingBudget) /\ Cardinality(HoldingBudget) \in Nat
        /\ TenantInUse \in Nat
    BY PoolAssumption, FS_Subset, FS_CardinalityType, InUseTypes
       DEF PoolAssumption, HoldingBudget, IInv, Limits
  <2>2. /\ Cardinality({r \in Reserving : IsTenant(r)}) \in Nat
        /\ Cardinality({r \in Reserving : IsTenant(r)}) <= Cardinality(HoldingBudget)
    <3>1. {r \in Reserving : IsTenant(r)} \subseteq HoldingBudget
      BY DEF Reserving, HoldingBudget
    <3> QED
      BY <2>1, <3>1, FS_Subset, FS_CardinalityType
  <2>3. tenantActive = TenantInUse + Cardinality(HoldingBudget) /\ tenantActive <= TenantBudget
    BY CountsAre DEF IInv, Counts, Limits
  <2>4. TenantInUse + Cardinality({r \in Reserving : IsTenant(r)}) <= TenantBudget
    BY <2>1, <2>2, <2>3, PoolAssumption DEF PoolAssumption, IInv, TypeOK
  <2>5. ASSUME NEW t \in Tenants
        PROVE  InUseBy(t) <= TenantPerKey
    <3>1. Cardinality(HoldingSlot(t)) \in Nat /\ InUseBy(t) \in Nat
      BY PoolAssumption, FS_Subset, FS_CardinalityType, InUseTypes
         DEF PoolAssumption, HoldingSlot, IInv, Limits
    <3>2. tenantSem[t] = InUseBy(t) + Cardinality(HoldingSlot(t)) /\ tenantSem[t] <= TenantPerKey
      BY CountsAre DEF IInv, Counts, Limits
    <3> QED
      BY <3>1, <3>2, PoolAssumption DEF PoolAssumption
  <2> QED
    BY <2>4, <2>5 DEF TenantShare, TenantInUse, InUseBy
<1> QED
  BY <1>1, Invariance, PTL

\* Every client in use is in use by a running request: nothing leaks, even
\* when sessions end under calls.  Inductive given the types.
THEOREM NothingStaysCheckedOut == Spec => []NothingLeaks
<1>1. Init => NothingLeaks
  BY DEF Init, NothingLeaks
<1>2. TypeOK /\ NothingLeaks /\ [Next]_vars => NothingLeaks'
  <2> SUFFICES ASSUME TypeOK, NothingLeaks, [Next]_vars PROVE NothingLeaks'
    OBVIOUS
  <2> USE DEF At, Goto
\* Steps of a request that is not calling leave every holder alone.
  <2>1. ASSUME active' \subseteq active, UNCHANGED held,
               NEW r \in Requests, pc[r] # "calling",
               \A q \in Requests : q # r => pc'[q] = pc[q] /\ request'[q] = request[q]
        PROVE  NothingLeaks'
    BY <2>1 DEF NothingLeaks, AttachmentOf, ServerOf
  <2>2. ASSUME NEW r \in Requests, Bookkeeping(r)
        PROVE  NothingLeaks'
    <3>1. /\ active' = active /\ UNCHANGED held /\ pc[r] # "calling"
          /\ \A q \in Requests : q # r => pc'[q] = pc[q] /\ request'[q] = request[q]
      <4> USE DEF TypeOK, poolVars
      <4>1. CASE Begin(r) \/ TakeSlot(r) \/ GiveUp(r) \/ TakeBudget(r) \/ BudgetFull(r)
        BY <4>1 DEF Begin, TakeSlot, GiveUp, TakeBudget, BudgetFull
      <4>2. CASE Refuse(r) \/ Reserve(r) \/ ConnectFail(r)
        BY <4>2 DEF Refuse, Reserve, ConnectFail
      <4>3. CASE ReturnReservation(r) \/ ReturnBudget(r) \/ ReturnSlot(r)
        BY <4>3 DEF ReturnReservation, ReturnBudget, ReturnSlot
      <4> QED
        BY <2>2, <4>1, <4>2, <4>3 DEF Bookkeeping
    <3> QED
      BY <2>1, <3>1
  <2>3. ASSUME NEW r \in Requests, HandOut(r)
        PROVE  NothingLeaks'
    <3>1. PICK c \in Clients : Attach(r, c)
      BY <2>3 DEF HandOut, ReuseIdle, Connect, TypeOK, ServerOf, Place
    <3>2. /\ pc[r] # "calling" /\ pc' = [pc EXCEPT ![r] = "calling"] /\ UNCHANGED request
          /\ active' = active \cup {AttachmentOf(r, c)} /\ held' = [held EXCEPT ![r] = c]
      BY <2>3, <3>1 DEF HandOut, ReuseIdle, Connect, Attach
    <3>3. \A q \in Requests : pc[q] = "calling" => pc'[q] = "calling" /\ held'[q] = held[q]
      BY <3>2 DEF TypeOK
    <3>4. pc'[r] = "calling" /\ held'[r] = c
      BY <3>2 DEF TypeOK
    <3> QED
      BY <3>2, <3>3, <3>4 DEF NothingLeaks, AttachmentOf, ServerOf
  <2>4. ASSUME NEW r \in Requests, Release(r)
        PROVE  NothingLeaks'
    <3>1. /\ active' = active \ {AttachmentOf(r, held[r])} /\ UNCHANGED request
          /\ pc' = [pc EXCEPT ![r] = "done"] /\ held' = [held EXCEPT ![r] = NoClient]
      BY <2>4 DEF Release, Detach
    <3>2. ASSUME NEW a \in active'
          PROVE  \E q \in Requests : pc'[q] = "calling" /\ a = AttachmentOf(q, held[q])'
      <4>1. PICK q \in Requests : pc[q] = "calling" /\ a = AttachmentOf(q, held[q])
        BY <3>1, <3>2 DEF NothingLeaks
      <4>2. q # r
        BY <3>1, <3>2, <4>1
      <4> QED
        BY <3>1, <4>1, <4>2 DEF TypeOK, AttachmentOf, ServerOf
    <3> QED
      BY <3>2 DEF NothingLeaks
  <2>5. ASSUME NEW s \in Sessions, ReleaseSession(s)
        PROVE  NothingLeaks'
    BY <2>5 DEF ReleaseSession, Detach, NothingLeaks, AttachmentOf, ServerOf
  <2>6. CASE SweepExpired
    BY <2>6 DEF SweepExpired, NothingLeaks, AttachmentOf, ServerOf
  <2>7. CASE UNCHANGED vars
    BY <2>7 DEF vars, NothingLeaks, AttachmentOf, ServerOf
  <2> QED
    BY <2>2, <2>3, <2>4, <2>5, <2>6, <2>7 DEF Next, Proceed, Bookkeeping, HandOut
<1> QED
  BY <1>1, <1>2, TypeCorrect, PTL DEF Spec

-----------------------------------------------------------------------------
(* The leases                                                              *)

\* While a request calls, its client is in use for it and for no other request.
\* This needs that no session ends under a call.
Exclusive == \A r \in Requests : At(r, "calling") =>
    /\ held[r] \in Clients
    /\ AttachmentOf(r, held[r]) \in active
    /\ \A q \in Requests : At(q, "calling") /\ held[q] = held[r] => q = r

\* What the steps without a client leave alone.
LEMMA BookkeepingFrame ==
    ASSUME TypeOK, NEW r \in Requests, Bookkeeping(r)
    PROVE  /\ active' = active /\ UNCHANGED held /\ pc[r] # "calling" /\ pc'[r] # "calling"
           /\ \A q \in Requests : q # r => pc'[q] = pc[q] /\ request'[q] = request[q]
<1> USE DEF TypeOK, poolVars, At, Goto
<1>1. CASE Begin(r) \/ TakeSlot(r) \/ GiveUp(r) \/ TakeBudget(r) \/ BudgetFull(r)
  BY <1>1 DEF Begin, TakeSlot, GiveUp, TakeBudget, BudgetFull
<1>2. CASE Refuse(r) \/ Reserve(r) \/ ConnectFail(r)
  BY <1>2 DEF Refuse, Reserve, ConnectFail
<1>3. CASE ReturnReservation(r) \/ ReturnBudget(r) \/ ReturnSlot(r)
  BY <1>3 DEF ReturnReservation, ReturnBudget, ReturnSlot
<1> QED
  BY <1>1, <1>2, <1>3 DEF Bookkeeping

\* The client that is handed out is nobody's: it is idle or a new connection.
LEMMA HandOutFrame ==
    ASSUME TypeOK, OnePlace, Exclusive, NEW r \in Requests, HandOut(r)
    PROVE  /\ pc[r] \in {"acquire", "connect"} /\ pc' = [pc EXCEPT ![r] = "calling"]
           /\ UNCHANGED request
           /\ \E c \in Clients :
                /\ active' = active \cup {AttachmentOf(r, c)} /\ held' = [held EXCEPT ![r] = c]
                /\ \A q \in Requests : At(q, "calling") => held[q] # c
<1>1. /\ pc[r] \in {"acquire", "connect"} /\ pc' = [pc EXCEPT ![r] = "calling"]
      /\ UNCHANGED request
  BY DEF HandOut, ReuseIdle, Connect, At, Goto
<1>2. CASE ReuseIdle(r)
  <2>1. PICK c \in idle[ServerOf(r)] : Attach(r, c)
    BY <1>2 DEF ReuseIdle
  <2>2. ServerOf(r) \in Servers /\ c \in Clients
    BY DEF TypeOK, Place, ServerOf
  <2>3. ASSUME NEW q \in Requests, At(q, "calling") PROVE held[q] # c
    <3>1. AttachmentOf(q, held[q]) \in active /\ AttachmentOf(q, held[q]).client = held[q]
      BY <2>3 DEF Exclusive, AttachmentOf
    <3> QED
      BY <2>2, <3>1 DEF OnePlace
  <2> QED
    BY <1>1, <2>1, <2>2, <2>3 DEF Attach
<1>3. CASE Connect(r)
  <2>1. PICK c \in Clients \ Live : Attach(r, c)
    BY <1>3 DEF Connect
  <2>2. \A q \in Requests : held[q] # c
    BY DEF Live
  <2> QED
    BY <1>1, <2>1, <2>2 DEF Attach
<1> QED
  BY <1>2, <1>3 DEF HandOut

\* Release detaches the request's own attachment only.
LEMMA ReleaseFrame ==
    ASSUME TypeOK, NEW r \in Requests, Release(r)
    PROVE  /\ active' = active \ {AttachmentOf(r, held[r])} /\ UNCHANGED request
           /\ pc[r] = "calling" /\ pc' = [pc EXCEPT ![r] = "done"]
           /\ held' = [held EXCEPT ![r] = NoClient]
BY DEF Release, Detach, At, Goto

\* Every step keeps the clients apart, if no session ends under a call.
LEMMA ExclusiveStep ==
    ASSUME ~EndsMidCall, TypeOK, OnePlace, Exclusive, [Next]_vars
    PROVE  Exclusive'
<1> USE DEF At, AttachmentOf, ServerOf
<1>1. ASSUME NEW r \in Requests, Bookkeeping(r) PROVE Exclusive'
  BY <1>1, BookkeepingFrame DEF Exclusive
<1>2. ASSUME NEW r \in Requests, HandOut(r) PROVE Exclusive'
  <2>1. PICK c \in Clients :
          /\ active' = active \cup {AttachmentOf(r, c)} /\ held' = [held EXCEPT ![r] = c]
          /\ \A q \in Requests : At(q, "calling") => held[q] # c
    BY <1>2, HandOutFrame
  <2>2. /\ pc' = [pc EXCEPT ![r] = "calling"] /\ UNCHANGED request
    BY <1>2, HandOutFrame
  <2> QED
    BY <2>1, <2>2 DEF Exclusive, TypeOK
<1>3. ASSUME NEW r \in Requests, Release(r) PROVE Exclusive'
  <2>1. /\ active' = active \ {AttachmentOf(r, held[r])} /\ UNCHANGED request
        /\ pc[r] = "calling" /\ pc' = [pc EXCEPT ![r] = "done"]
        /\ held' = [held EXCEPT ![r] = NoClient]
    BY <1>3, ReleaseFrame
  <2> QED
    BY <2>1 DEF Exclusive, TypeOK
<1>4. ASSUME NEW s \in Sessions, ReleaseSession(s) PROVE Exclusive'
  <2>1. /\ active' = {a \in active : a.session # s} /\ UNCHANGED <<pc, request, held>>
        /\ \A r \in Requests : request[r].session = s => pc[r] = "done"
    BY <1>4 DEF ReleaseSession, Detach
  <2> QED
    BY <2>1 DEF Exclusive
<1>5. CASE SweepExpired
  BY <1>5 DEF SweepExpired, Exclusive
<1>6. CASE UNCHANGED vars
  BY <1>6 DEF vars, Exclusive
<1> QED
  BY <1>1, <1>2, <1>3, <1>4, <1>5, <1>6 DEF Next, Proceed, Bookkeeping, HandOut

\* A client is handed to one caller at a time (pool.go:288-293), if no session
\* ends under its calls.
THEOREM ExclusiveUse == ~EndsMidCall => (Spec => []Exclusive)
<1> SUFFICES ASSUME ~EndsMidCall PROVE Spec => []Exclusive
  OBVIOUS
<1>1. Init => Exclusive
  BY DEF Init, Exclusive, At
<1>2. IInv /\ Exclusive /\ [Next]_vars => Exclusive'
  BY ExclusiveStep DEF IInv
<1> QED
  BY <1>1, <1>2, Invariance, PTL DEF Spec

\* The calls to servers of some owners, and those to one server.
CallingOf(owners) == {q \in Requests : At(q, "calling") /\ OwnerOf(q) \in owners}
CallingTo(v) == {q \in Requests : At(q, "calling") /\ ServerOf(q) = v}

\* Calls are no more than what they have in use.
LEMMA CallsCounted ==
    ASSUME PoolAssumption, Exclusive, NEW S, S \subseteq Requests, \A q \in S : At(q, "calling"),
           NEW T, IsFiniteSet(T), \A q \in S : AttachmentOf(q, held[q]) \in T
    PROVE  /\ Cardinality(S) \in Nat /\ Cardinality(T) \in Nat
           /\ Cardinality(S) <= Cardinality(T)
<1> DEFINE f == [q \in S |-> AttachmentOf(q, held[q])]
<1>1. \A q, u \in S : f[q] = f[u] => q = u
  <2> SUFFICES ASSUME NEW q \in S, NEW u \in S, f[q] = f[u] PROVE q = u
    OBVIOUS
  <2>1. AttachmentOf(q, held[q]).client = held[q] /\ AttachmentOf(u, held[u]).client = held[u]
    BY DEF AttachmentOf
  <2> QED
    BY <2>1 DEF Exclusive
<1>2. f \in Injection(S, T)
  BY <1>1 DEF Injection, IsInjective
<1> HIDE DEF f
<1>3. IsFiniteSet(S)
  BY FS_Subset DEF PoolAssumption
<1> QED
  BY <1>2, <1>3, FS_Injection, FS_CardinalityType

\* The lease a request has: its client while it calls.
LEMMA LeaseIs ==
    ASSUME TypeOK, Exclusive, NEW r \in Requests
    PROVE  /\ leaseOf[r] # NoClient <=> At(r, "calling")
           /\ At(r, "calling") =>
                /\ leaseOf[r] = [server |-> ServerOf(r), client |-> held[r]]
                /\ ServerOf(r) \in Servers /\ held[r] \in Clients
<1>1. CASE At(r, "calling")
  <2>1. ServerOf(r) \in Servers /\ held[r] \in Clients
    BY <1>1 DEF TypeOK, Place, ServerOf, Exclusive
  <2>2. [server |-> ServerOf(r), client |-> held[r]] \in [server : Servers, client : Clients]
    BY <2>1
  <2> QED
    BY <1>1, <2>1, <2>2, LeaseAssumption DEF leaseOf, LeaseAssumption
<1>2. CASE ~At(r, "calling")
  BY <1>2 DEF leaseOf
<1> QED
  BY <1>1, <1>2

\* When a client is handed out, its server, its tenant and the tenants' budget have
\* room for one more call.
LEMMA RoomToCall ==
    ASSUME PoolAssumption, IInv, Exclusive, NEW r \in Requests, HandOut(r)
    PROVE  /\ Cardinality(CallingTo(ServerOf(r))) < MaxPerServer
           /\ IsTenant(r) => /\ Cardinality(CallingOf({OwnerOf(r)})) < TenantPerKey
                             /\ Cardinality(CallingOf(Tenants)) < TenantBudget
<1> DEFINE v == ServerOf(r)
           t == OwnerOf(r)
<1>0. /\ TypeOK /\ Counts /\ PerServerCap /\ OnePlace /\ Limits
      /\ v \in Servers /\ t \in Tenants \cup {Operator} /\ pc[r] \in {"acquire", "connect"}
  BY CountsAre DEF IInv, TypeOK, Place, ServerOf, OwnerOf, PoolAssumption, HandOut, ReuseIdle, Connect, At
<1>1. /\ IsFiniteSet(ClientsOfServer(active, v)) /\ InUseOf(v) \in Nat
      /\ IsFiniteSet(TenantClients(active)) /\ TenantInUse \in Nat
      /\ t \in Tenants => IsFiniteSet(ClientsOfTenant(active, t)) /\ InUseBy(t) \in Nat
  BY <1>0, InUseTypes DEF Limits
<1>2. \A q \in Requests : At(q, "calling") =>
        LET a == AttachmentOf(q, held[q])
        IN  a \in active /\ a.server = ServerOf(q) /\ heldFor[a.client] = OwnerOf(q)
  BY <1>0 DEF Exclusive, OnePlace, AttachmentOf, OwnerOf
<1>3. Cardinality(CallingTo(v)) < MaxPerServer
  <2>1. Cardinality(CallingTo(v)) \in Nat /\ Cardinality(CallingTo(v)) <= InUseOf(v)
    <3>1. \A q \in CallingTo(v) : AttachmentOf(q, held[q]) \in ClientsOfServer(active, v)
      BY <1>2 DEF CallingTo, ClientsOfServer
    <3>2. CallingTo(v) \subseteq Requests /\ \A q \in CallingTo(v) : At(q, "calling")
      BY DEF CallingTo
    <3> QED
      BY <1>1, <3>1, <3>2, CallsCounted DEF InUseOf
  <2>2. /\ activePerServer[v] = InUseOf(v) + Cardinality(ReservingFor(v))
        /\ activePerServer[v] + Cardinality(idle[v]) <= MaxPerServer
    BY <1>0 DEF Counts, PerServerCap
  <2>3. /\ IsFiniteSet(ReservingFor(v)) /\ Cardinality(ReservingFor(v)) \in Nat
        /\ IsFiniteSet(idle[v]) /\ Cardinality(idle[v]) \in Nat
    <3>1. ReservingFor(v) \subseteq Requests /\ idle[v] \subseteq Clients
      BY <1>0 DEF ReservingFor, Reserving, TypeOK
    <3> QED
      BY <3>1, FS_Subset, FS_CardinalityType DEF PoolAssumption
  <2>4. Cardinality(ReservingFor(v)) > 0 \/ Cardinality(idle[v]) > 0
    <3>1. CASE ReuseIdle(r)
      BY <3>1, <2>3, FS_EmptySet DEF ReuseIdle
    <3>2. CASE Connect(r)
      <4>1. r \in ReservingFor(v)
        BY <3>2 DEF Connect, At, ReservingFor, Reserving
      <4> QED
        BY <4>1, <2>3, FS_EmptySet
    <3> QED
      BY <3>1, <3>2 DEF HandOut
  <2>5. MaxPerServer \in Nat
    BY DEF PoolAssumption
  <2> HIDE DEF v
  <2> QED
    BY <1>1, <2>1, <2>2, <2>3, <2>4, <2>5
<1>4. ASSUME IsTenant(r) PROVE Cardinality(CallingOf({t})) < TenantPerKey
  <2>0. t \in Tenants
    BY <1>0, <1>4 DEF IsTenant
  <2>1. Cardinality(CallingOf({t})) \in Nat /\ Cardinality(CallingOf({t})) <= InUseBy(t)
    <3>1. \A q \in CallingOf({t}) : AttachmentOf(q, held[q]) \in ClientsOfTenant(active, t)
      BY <1>2 DEF CallingOf, ClientsOfTenant
    <3>2. CallingOf({t}) \subseteq Requests /\ \A q \in CallingOf({t}) : At(q, "calling")
      BY DEF CallingOf
    <3> QED
      BY <1>1, <2>0, <3>1, <3>2, CallsCounted DEF InUseBy
  <2>2. tenantSem[t] = InUseBy(t) + Cardinality(HoldingSlot(t)) /\ tenantSem[t] <= TenantPerKey
    BY <1>0, <2>0 DEF Counts, Limits
  <2>3. Cardinality(HoldingSlot(t)) \in Nat /\ Cardinality(HoldingSlot(t)) > 0
    <3>1. r \in HoldingSlot(t) /\ HoldingSlot(t) \subseteq Requests
      BY <1>0 DEF HoldingSlot
    <3> QED
      BY <3>1, FS_Subset, FS_CardinalityType, FS_EmptySet DEF PoolAssumption
  <2>4. TenantPerKey \in Nat
    BY DEF PoolAssumption
  <2> HIDE DEF t
  <2> QED
    BY <1>1, <2>0, <2>1, <2>2, <2>3, <2>4
<1>5. ASSUME IsTenant(r) PROVE Cardinality(CallingOf(Tenants)) < TenantBudget
  <2>1. Cardinality(CallingOf(Tenants)) \in Nat /\ Cardinality(CallingOf(Tenants)) <= TenantInUse
    <3>1. \A q \in CallingOf(Tenants) : AttachmentOf(q, held[q]) \in TenantClients(active)
      BY <1>2 DEF CallingOf, TenantClients, PoolAssumption
    <3>2. CallingOf(Tenants) \subseteq Requests /\ \A q \in CallingOf(Tenants) : At(q, "calling")
      BY DEF CallingOf
    <3> QED
      BY <1>1, <3>1, <3>2, CallsCounted DEF TenantInUse
  <2>2. tenantActive = TenantInUse + Cardinality(HoldingBudget) /\ tenantActive <= TenantBudget
    BY <1>0 DEF Counts, Limits
  <2>3. Cardinality(HoldingBudget) \in Nat /\ Cardinality(HoldingBudget) > 0
    <3>1. r \in HoldingBudget /\ HoldingBudget \subseteq Requests
      BY <1>0, <1>5 DEF HoldingBudget
    <3> QED
      BY <3>1, FS_Subset, FS_CardinalityType, FS_EmptySet DEF PoolAssumption
  <2>4. TenantBudget \in Nat
    BY DEF PoolAssumption
  <2> QED
    BY <1>1, <2>1, <2>2, <2>3, <2>4
<1> QED
  BY <1>3, <1>4, <1>5

\* Leases and Pool count alike.
LEMMA SameCardinality == \A S : Leasing!Cardinality(S) = Cardinality(S)
BY DEF Leasing!Cardinality, Cardinality

\* A client that is handed out is a lease that Leases grants.
LEMMA HandOutGrants ==
    ASSUME PoolAssumption, IInv, Exclusive, Exclusive', TypeOK', NEW r \in Requests, HandOut(r)
    PROVE  \E c \in Clients : Leasing!Grant(r, ServerOf(r), c)
<1> DEFINE v == ServerOf(r)
<1>1. /\ pc[r] \in {"acquire", "connect"} /\ pc' = [pc EXCEPT ![r] = "calling"]
      /\ UNCHANGED request
  BY HandOutFrame DEF IInv
<1>2. PICK c \in Clients :
        /\ held' = [held EXCEPT ![r] = c]
        /\ \A q \in Requests : At(q, "calling") => held[q] # c
  BY HandOutFrame DEF IInv
<1>3. TypeOK /\ v \in Servers
  BY DEF IInv, TypeOK, Place, ServerOf
<1>4. \A q \in Requests : leaseOf[q] # NoClient <=> At(q, "calling")
  BY <1>3, LeaseIs
<1>5. ASSUME NEW q \in Requests, At(q, "calling")
      PROVE  leaseOf[q].server = ServerOf(q) /\ leaseOf[q].client = held[q]
  <2>1. leaseOf[q] = [server |-> ServerOf(q), client |-> held[q]]
    BY <1>3, <1>5, LeaseIs
  <2> QED
    BY <2>1
<1>6. Leasing!Leased = {q \in Requests : At(q, "calling")}
  BY <1>4 DEF Leasing!Leased
<1>7. \A owners : Leasing!LeasedFor(owners) = CallingOf(owners)
  BY <1>5, <1>6 DEF Leasing!LeasedFor, CallingOf, OwnerOf
<1>8. {q \in Leasing!Leased : leaseOf[q].server = v} = CallingTo(v)
  BY <1>5, <1>6 DEF CallingTo
<1>9. leaseOf[r] = NoClient
  BY <1>1, <1>4 DEF At
<1>10. leaseOf' = [leaseOf EXCEPT ![r] = [server |-> v, client |-> c]]
  <2>1. leaseOf'[r] = [server |-> v, client |-> c]
    BY <1>1, <1>2, <1>3 DEF leaseOf, At, ServerOf, TypeOK
  <2>2. \A q \in Requests \ {r} : leaseOf'[q] = leaseOf[q]
    BY <1>1, <1>2, <1>3 DEF leaseOf, At, ServerOf, TypeOK
  <2> QED
    BY <2>1, <2>2 DEF leaseOf
<1>11. \A q \in Leasing!Leased : leaseOf[q].client # c
  BY <1>2, <1>5, <1>6
<1>12. /\ Cardinality(CallingTo(v)) < MaxPerServer
       /\ IsTenant(r) => /\ Cardinality(CallingOf({OwnerOf(r)})) < TenantPerKey
                         /\ Cardinality(CallingOf(Tenants)) < TenantBudget
  BY RoomToCall
<1>13. Leasing!Grant(r, v, c)
  BY <1>7, <1>8, <1>9, <1>10, <1>11, <1>12, SameCardinality DEF Leasing!Grant, IsTenant, OwnerOf
<1> QED
  BY <1>13

\* A release returns the lease.
LEMMA ReleaseReturns ==
    ASSUME TypeOK, Exclusive, NEW r \in Requests, Release(r)
    PROVE  Leasing!Return(r)
<1>1. /\ pc[r] = "calling" /\ pc' = [pc EXCEPT ![r] = "done"] /\ UNCHANGED request
      /\ held' = [held EXCEPT ![r] = NoClient]
  BY ReleaseFrame
<1>2. leaseOf[r] # NoClient
  BY <1>1, LeaseIs DEF At
<1>3. leaseOf' = [leaseOf EXCEPT ![r] = NoClient]
  <2>1. leaseOf'[r] = NoClient
    BY <1>1 DEF leaseOf, At, TypeOK
  <2>2. \A q \in Requests \ {r} : leaseOf'[q] = leaseOf[q]
    BY <1>1 DEF leaseOf, At, ServerOf, TypeOK
  <2> QED
    BY <2>1, <2>2 DEF leaseOf
<1> QED
  BY <1>2, <1>3 DEF Leasing!Return, Leasing!Leased

\* Every step of the pool grants a lease, returns one or changes none.
LEMMA LeaseStep ==
    ASSUME PoolAssumption, IInv, IInv', Exclusive, Exclusive', [Next]_vars
    PROVE  [Leasing!Next]_leaseOf
<1> USE DEF IInv
<1>1. ASSUME NEW r \in Requests, HandOut(r) PROVE Leasing!Next
  <2>1. PICK c \in Clients : Leasing!Grant(r, ServerOf(r), c)
    BY <1>1, HandOutGrants
  <2>2. ServerOf(r) \in Servers
    BY DEF TypeOK, Place, ServerOf
  <2> QED
    BY <2>1, <2>2 DEF Leasing!Next
<1>2. ASSUME NEW r \in Requests, Release(r) PROVE Leasing!Next
  BY <1>2, ReleaseReturns DEF Leasing!Next
<1>3. ASSUME NEW r \in Requests, Bookkeeping(r) PROVE leaseOf' = leaseOf
  <2>1. /\ UNCHANGED held /\ pc[r] # "calling" /\ pc'[r] # "calling"
        /\ \A q \in Requests : q # r => pc'[q] = pc[q] /\ request'[q] = request[q]
    BY <1>3, BookkeepingFrame
  <2> QED
    BY <2>1 DEF leaseOf, At, ServerOf
<1>4. ASSUME UNCHANGED <<pc, request, held>> PROVE leaseOf' = leaseOf
  BY <1>4 DEF leaseOf, At, ServerOf
<1>5. ASSUME NEW s \in Sessions, ReleaseSession(s) PROVE leaseOf' = leaseOf
  BY <1>4, <1>5 DEF ReleaseSession
<1>6. CASE SweepExpired
  BY <1>4, <1>6 DEF SweepExpired
<1>7. CASE UNCHANGED vars
  BY <1>4, <1>7 DEF vars
<1> QED
  BY <1>1, <1>2, <1>3, <1>5, <1>6, <1>7 DEF Next, Proceed, Bookkeeping, HandOut

\* The pool implements the leases it promises its callers: a client nobody else has,
\* within the cap of the server, the tenant's share and the tenants' budget, as long
\* as no session ends under its calls.
THEOREM PoolLeases == ~EndsMidCall => (Spec => LeaseSpec)
<1> SUFFICES ASSUME ~EndsMidCall PROVE Spec => LeaseSpec
  OBVIOUS
<1>1. Init => Leasing!Init
  BY DEF Init, Leasing!Init, leaseOf, At
<1>2. IInv /\ IInv' /\ Exclusive /\ Exclusive' /\ [Next]_vars => [Leasing!Next]_leaseOf
  BY PoolAssumption, LeaseStep
<1>3. Spec => []Exclusive
  BY ExclusiveUse
<1> QED
  BY <1>1, <1>2, <1>3, Invariance, PTL DEF Spec, LeaseSpec, Leasing!Spec

\* No call gets another call's answer (pool.go:288-293 "response cross-talk"), as
\* long as no session ends under its calls.
THEOREM CallsDoNotCross == ~EndsMidCall => (Spec => []NoCrossTalk)
<1>1. Exclusive => NoCrossTalk
  BY DEF Exclusive, NoCrossTalk
<1> QED
  BY <1>1, ExclusiveUse, PTL

=============================================================================
