--------------------------- MODULE AdmissionProofs ---------------------------
(***************************************************************************)
(* Theorems about Admission, for any number of requests, addresses,        *)
(* tenants and rows, and any limits.                                       *)
(***************************************************************************)
EXTENDS Admission, FiniteSetTheorems, TLAPS

USE LimiterAssumption, AdmissionAssumption

-----------------------------------------------------------------------------
(* The limiter                                                             *)

\* A limiter whose entries are of now or earlier.
IsLimiter(l, n) ==
    /\ l \in Limiters
    /\ \A k \in Keys : l.last[k] <= n

\* The product of two naturals is one; the prover is told once.
LEMMA Earned ==
    ASSUME NEW a \in Nat PROVE Rate * a \in Nat
  OBVIOUS

\* What an address with an entry can spend, by what it earned.
LEMMA AvailableOf ==
    ASSUME NEW l, NEW n, NEW k, HasEntry(l, k), NEW e, e = Rate * (n - l.last[k])
    PROVE  Available(l, k, n) = IF l.tokens[k] + e < Burst THEN l.tokens[k] + e ELSE Burst
  BY Zenon DEF Available

\* What an address can spend is a number of tokens.
LEMMA AvailableType ==
    ASSUME NEW l, NEW n \in Nat, IsLimiter(l, n), NEW k \in Keys
    PROVE  Available(l, k, n) \in 0 .. Burst
  <1>1. l.tokens[k] \in 0 .. Burst /\ l.last[k] \in Nat /\ n - l.last[k] \in Nat
    BY DEF IsLimiter, Limiters
  <1>2. Rate * (n - l.last[k]) \in Nat
    BY <1>1, Earned
  <1>. QED
    BY <1>1, <1>2 DEF Available

\* The entry of the address that asked, and those of the others.
LEMMA AskedValues ==
    ASSUME NEW l, NEW n \in Nat, IsLimiter(l, n), NEW k \in Keys
    PROVE  LET m == Asked(l, k, n) IN
           /\ m.place = Touched(l, k)
           /\ m.place \in [Keys -> 0 .. MaxKeys]
           /\ m.place[k] = 0
           /\ m.last[k] = n
           /\ m.tokens[k] = Available(l, k, n) - (IF Passes(l, k, n) THEN 1 ELSE 0)
           /\ \A j \in Keys \ {k} : m.place[j] < MaxKeys =>
                m.tokens[j] = l.tokens[j] /\ m.last[j] = l.last[j]
           /\ IsLimiter(m, n)
  <1>. DEFINE place == Touched(l, k)
  <1>1. place \in [Keys -> 0 .. MaxKeys] /\ place[k] = 0
    BY DEF IsLimiter, Limiters, Touched
  <1>2. Available(l, k, n) \in 0 .. Burst
    BY AvailableType
  <1>3. Available(l, k, n) - (IF Passes(l, k, n) THEN 1 ELSE 0) \in 0 .. Burst
    BY <1>2 DEF Passes
  <1>. DEFINE left == Available(l, k, n) - (IF Passes(l, k, n) THEN 1 ELSE 0)
              tokens == [j \in Keys |-> IF j = k THEN left ELSE IF place[j] = MaxKeys THEN 0 ELSE l.tokens[j]]
              last == [j \in Keys |-> IF j = k THEN n ELSE IF place[j] = MaxKeys THEN 0 ELSE l.last[j]]
  <1>4. Asked(l, k, n) = [place |-> place, tokens |-> tokens, last |-> last]
    BY DEF Asked
  <1>5. left \in 0 .. Burst
    BY <1>3
  <1>. HIDE DEF left, place
  <1>6. tokens \in [Keys -> 0 .. Burst] /\ tokens[k] = left
    BY <1>5 DEF IsLimiter, Limiters
  <1>7. last \in [Keys -> Nat] /\ last[k] = n /\ \A j \in Keys : last[j] <= n
    BY DEF IsLimiter, Limiters
  <1>8. \A j \in Keys \ {k} : place[j] < MaxKeys => tokens[j] = l.tokens[j] /\ last[j] = l.last[j]
    BY <1>1
  <1>. HIDE DEF tokens, last
  <1>9. Asked(l, k, n) \in Limiters
    BY <1>1, <1>4, <1>6, <1>7 DEF Limiters
  <1>. QED
    BY <1>1, <1>4, <1>6, <1>7, <1>8, <1>9 DEF IsLimiter, place, left

-----------------------------------------------------------------------------
(* Types                                                                   *)

TypeInv ==
    /\ TypeOK
    /\ IsLimiter(limiter, now)
    /\ today \in Days

LEMMA NewLimiterType == IsLimiter(NewLimiter, 0)
  BY DEF IsLimiter, NewLimiter, Limiters

LEMMA OneMoreType ==
    ASSUME TypeOK, NEW r, NEW count \in [Tenants -> [Days -> Nat]]
    PROVE  OneMore(r, count) \in [Tenants -> [Days -> Nat]]
  BY DEF OneMore

LEMMA WatchedType ==
    ASSUME TypeOK, NEW k \in Keys, NEW p \in {0, 1}
    PROVE  Watched(k, p) \in [whom : SUBSET Keys, from : Nat, count : Nat, others : SUBSET Keys]
  BY DEF TypeOK, Watched, NotWatching

LEMMA TypeInit == Init => TypeInv
  <1>. SUFFICES ASSUME Init PROVE TypeInv
    OBVIOUS
  <1>1. IsLimiter(limiter, now)
    BY NewLimiterType DEF Init
  <1>2. watch \in [whom : SUBSET Keys, from : Nat, count : Nat, others : SUBSET Keys]
    BY DEF Init, NotWatching
  <1>3. row \in [Requests -> Rows] /\ pc \in [Requests -> Steps]
    BY DEF Init, Steps
  <1>. QED
    BY <1>1, <1>2, <1>3 DEF Init, TypeInv, TypeOK, IsLimiter, Days

LEMMA TypeStep == TypeInv /\ [Next]_vars => TypeInv'
  <1>. SUFFICES ASSUME TypeInv, [Next]_vars PROVE TypeInv'
    OBVIOUS
  <1>. USE DEF TypeInv, TypeOK, Goto, clocks, gate, Steps
  <1>1. ASSUME NEW r \in Requests, NEW k \in Keys, NEW t \in Tenants, LetIn(r, k, t) PROVE TypeInv'
    <2>1. IsLimiter(limiter', now)
      BY <1>1, AskedValues DEF LetIn
    <2>2. watch' \in [whom : SUBSET Keys, from : Nat, count : Nat, others : SUBSET Keys]
      BY <1>1, WatchedType DEF LetIn, Watches
    <2>. QED
      BY <1>1, <2>1, <2>2 DEF LetIn, IsLimiter
  <1>2. ASSUME NEW k \in Keys, TurnAway(k) PROVE TypeInv'
    <2>1. IsLimiter(limiter', now)
      BY <1>2, AskedValues DEF TurnAway
    <2>2. watch' \in [whom : SUBSET Keys, from : Nat, count : Nat, others : SUBSET Keys]
      BY <1>2, WatchedType DEF TurnAway
    <2>. QED
      BY <1>2, <2>1, <2>2 DEF TurnAway, IsLimiter
  <1>3. ASSUME NEW r \in Requests, Proceed(r) PROVE TypeInv'
    <2>1. CASE Resolve(r)
      BY <2>1 DEF Resolve, IsLimiter
    <2>2. CASE Turned(r) \/ Denied(r) \/ Finish(r)
      BY <2>2 DEF Turned, Denied, Finish, IsLimiter
    <2>3. CASE \E call \in BOOLEAN : Enter(r, call)
      BY <2>3 DEF Enter, IsLimiter
    <2>4. ASSUME NEW heard \in BOOLEAN, Update(r, heard) \/ Insert(r, heard) PROVE TypeInv'
      <3>1. OneMore(r, usage) \in [Tenants -> [Days -> Nat]] /\ OneMore(r, granted) \in [Tenants -> [Days -> Nat]]
        BY OneMoreType
      <3>2. usage' \in [Tenants -> [Days -> Nat]] /\ granted' \in [Tenants -> [Days -> Nat]]
        BY <2>4, <3>1 DEF Update, Insert, Reserve
      <3>3. raced' \subseteq Requests /\ pc' \in [Requests -> Steps]
        BY <2>4 DEF Update, Insert, Reserve, Overtaken
      <3>4. UNCHANGED <<now, today, limiter, tenant, of, row, entitled, watch>>
        BY <2>4 DEF Update, Insert
      <3>. QED
        BY <3>2, <3>3, <3>4 DEF IsLimiter
    <2>5. CASE UpdateNone(r) \/ Refuse(r) \/ FailOpen(r)
      <3>1. raced' \subseteq Requests /\ pc' \in [Requests -> Steps]
        BY <2>5 DEF UpdateNone, Refuse, FailOpen
      <3>2. UNCHANGED <<now, today, limiter, tenant, usage, of, row, granted, entitled, watch>>
        BY <2>5 DEF UpdateNone, Refuse, FailOpen
      <3>. QED
        BY <3>1, <3>2 DEF IsLimiter
    <2>. QED
      BY <1>3, <2>1, <2>2, <2>3, <2>4, <2>5 DEF Proceed
  <1>4. ASSUME NEW t \in Tenants, NEW new \in Rows, SetTenant(t, new) PROVE TypeInv'
    BY <1>4 DEF SetTenant, IsLimiter
  <1>5. CASE Tick
    BY <1>5 DEF Tick, IsLimiter, Limiters
  <1>6. CASE Midnight
    <2>1. today' \in Nat /\ today' \in Days
      BY <1>6 DEF Midnight, Days
    <2>2. UNCHANGED <<now, limiter, tenant, usage, pc, of, row, granted, raced, entitled, watch>>
      BY <1>6 DEF Midnight
    <2>. QED
      BY <2>1, <2>2 DEF IsLimiter
  <1>7. CASE UNCHANGED vars
    BY <1>7 DEF vars, IsLimiter
  <1>. QED
    BY <1>1, <1>2, <1>3, <1>4, <1>5, <1>6, <1>7 DEF Next

LEMMA TypesHold == Spec => []TypeInv
  BY TypeInit, TypeStep, PTL DEF Spec

\* Every variable keeps its type: buckets hold between none and Burst tokens, and
\* an entry has one of MaxKeys places (ratelimit.go:20-31).
THEOREM AdmissionTypes == Spec => []TypeOK
  BY TypesHold, PTL DEF TypeInv

-----------------------------------------------------------------------------
(* The daily cap                                                           *)

\* No row exceeds the cap, none was made before its day, and who is refused
\* unless overtaken is at the cap.
CapInv ==
    /\ \A t \in Tenants, d \in Days :
        /\ granted[t][d] <= usage[t][d]
        /\ usage[t][d] <= Cap
        /\ d > today => usage[t][d] = 0
    /\ \A r \in Requests : At(r, "insert") /\ r \notin raced => Calls(r) \in {0, Cap}

\* What a reservation does to the counts.
LEMMA ReserveCounts ==
    ASSUME TypeInv, CapInv, NEW r \in Requests, NEW heard \in BOOLEAN, Reserve(r, heard),
           Calls(r) < Cap
    PROVE  /\ \A t \in Tenants, d \in Days :
                /\ granted'[t][d] <= usage'[t][d]
                /\ usage'[t][d] <= Cap
                /\ d > today => usage'[t][d] = 0
           /\ \A t \in Tenants, d \in Days : ~(t = of[r] /\ d = today) => usage'[t][d] = usage[t][d]
  <1>. SUFFICES ASSUME NEW t \in Tenants, NEW d \in Days
                PROVE  /\ granted'[t][d] <= usage'[t][d]
                       /\ usage'[t][d] <= Cap
                       /\ d > today => usage'[t][d] = 0
                       /\ ~(t = of[r] /\ d = today) => usage'[t][d] = usage[t][d]
    OBVIOUS
  <1>1. usage'[t][d] = IF t = of[r] /\ d = today THEN usage[t][d] + 1 ELSE usage[t][d]
    BY DEF Reserve, OneMore
  <1>2. granted'[t][d] \in {granted[t][d], IF t = of[r] /\ d = today THEN granted[t][d] + 1 ELSE granted[t][d]}
    BY DEF Reserve, OneMore
  <1>3. usage[t][d] \in Nat /\ granted[t][d] \in Nat /\ today \in Days
    BY DEF TypeInv, TypeOK
  <1>4. granted[t][d] <= usage[t][d] /\ usage[t][d] <= Cap /\ (d > today => usage[t][d] = 0)
    BY DEF CapInv
  <1>5. t = of[r] /\ d = today => usage[t][d] < Cap
    BY DEF Calls
  <1>. QED
    BY <1>1, <1>2, <1>3, <1>4, <1>5 DEF Days

LEMMA CapInit == Init => CapInv
  <1>. SUFFICES ASSUME Init PROVE CapInv
    OBVIOUS
  <1>1. \A t \in Tenants, d \in Days : granted[t][d] = 0 /\ usage[t][d] = 0
    BY DEF Init
  <1>2. \A r \in Requests : ~At(r, "insert")
    BY DEF Init, At
  <1>. QED
    BY <1>1, <1>2 DEF CapInv

\* Steps that neither count a call nor bring a request to its INSERT.
LEMMA CapQuiet ==
    ASSUME TypeInv, CapInv, UNCHANGED <<today, usage, granted>>,
           \A q \in Requests : At(q, "insert")' /\ q \notin raced' =>
                At(q, "insert") /\ q \notin raced /\ of'[q] = of[q]
    PROVE  CapInv'
  BY DEF CapInv, Calls

LEMMA CapStep == TypeInv /\ CapInv /\ [Next]_vars => CapInv'
  <1>. SUFFICES ASSUME TypeInv, CapInv, [Next]_vars PROVE CapInv'
    OBVIOUS
  <1>. USE DEF TypeInv, TypeOK, Goto, clocks, gate, Steps, At
  <1>1. ASSUME NEW r \in Requests, NEW k \in Keys, NEW t \in Tenants, LetIn(r, k, t) PROVE CapInv'
    BY <1>1, CapQuiet DEF LetIn
  <1>2. ASSUME NEW k \in Keys, TurnAway(k) PROVE CapInv'
    BY <1>2, CapQuiet DEF TurnAway
  <1>3. ASSUME NEW r \in Requests, Proceed(r) PROVE CapInv'
    <2>1. CASE Resolve(r)
      BY <2>1, CapQuiet DEF Resolve
    <2>2. CASE Turned(r) \/ Denied(r) \/ Finish(r)
      BY <2>2, CapQuiet DEF Turned, Denied, Finish
    <2>3. CASE \E call \in BOOLEAN : Enter(r, call)
      BY <2>3, CapQuiet DEF Enter
    <2>4. ASSUME NEW heard \in BOOLEAN, Update(r, heard) PROVE CapInv'
      <3>1. Calls(r) \in 1 .. Cap - 1 /\ Reserve(r, heard) /\ UNCHANGED <<today, of, raced>>
        BY <2>4 DEF Update
      <3>2. /\ \A t \in Tenants, d \in Days :
                /\ granted'[t][d] <= usage'[t][d]
                /\ usage'[t][d] <= Cap
                /\ d > today => usage'[t][d] = 0
            /\ \A t \in Tenants, d \in Days : ~(t = of[r] /\ d = today) => usage'[t][d] = usage[t][d]
        BY <3>1, ReserveCounts
      <3>3. ASSUME NEW q \in Requests, pc'[q] = "insert", q \notin raced' PROVE usage'[of'[q]][today'] \in {0, Cap}
        <4>1. pc[q] = "insert" /\ q \notin raced
          BY <3>1, <3>3 DEF Reserve
        <4>2. Calls(q) \in {0, Cap}
          BY <4>1 DEF CapInv
        <4>3. of[q] # of[r]
          BY <3>1, <4>2 DEF Calls
        <4>. QED
          BY <3>1, <3>2, <4>2, <4>3 DEF Calls
      <3>. QED
        BY <3>1, <3>2, <3>3 DEF CapInv, Calls
    <2>5. ASSUME NEW heard \in BOOLEAN, Insert(r, heard) PROVE CapInv'
      <3>1. Calls(r) = 0 /\ Reserve(r, heard) /\ UNCHANGED <<today, of>> /\ raced' = (raced \ {r}) \cup Overtaken(r)
        BY <2>5 DEF Insert
      <3>2. /\ \A t \in Tenants, d \in Days :
                /\ granted'[t][d] <= usage'[t][d]
                /\ usage'[t][d] <= Cap
                /\ d > today => usage'[t][d] = 0
            /\ \A t \in Tenants, d \in Days : ~(t = of[r] /\ d = today) => usage'[t][d] = usage[t][d]
        BY <3>1, ReserveCounts
      <3>3. ASSUME NEW q \in Requests, pc'[q] = "insert", q \notin raced' PROVE usage'[of'[q]][today'] \in {0, Cap}
        <4>1. q # r /\ pc[q] = "insert" /\ q \notin raced /\ of[q] # of[r]
          BY <3>1, <3>3 DEF Reserve, Overtaken
        <4>2. Calls(q) \in {0, Cap}
          BY <4>1 DEF CapInv
        <4>. QED
          BY <3>1, <3>2, <4>1, <4>2 DEF Calls
      <3>. QED
        BY <3>1, <3>2, <3>3 DEF CapInv, Calls
    <2>6. CASE UpdateNone(r)
      <3>1. Calls(r) \in {0, Cap}
        <4>1. Calls(r) \in Nat /\ Calls(r) <= Cap
          BY DEF Calls, CapInv
        <4>2. Calls(r) \notin 1 .. Cap - 1
          BY <2>6 DEF UpdateNone
        <4>. HIDE DEF TypeOK, TypeInv
        <4>. QED
          BY <4>1, <4>2
      <3>2. \A q \in Requests : pc'[q] = "insert" /\ q \notin raced' => q = r \/ (pc[q] = "insert" /\ q \notin raced)
        BY <2>6 DEF UpdateNone
      <3>3. UNCHANGED <<today, usage, granted, of>>
        BY <2>6 DEF UpdateNone
      <3>4. \A q \in Requests : pc'[q] = "insert" /\ q \notin raced' => Calls(q) \in {0, Cap}
        BY <3>1, <3>2 DEF CapInv
      <3>. QED
        BY <3>3, <3>4 DEF CapInv, Calls
    <2>7. CASE Refuse(r) \/ FailOpen(r)
      BY <2>7, CapQuiet DEF Refuse, FailOpen
    <2>. QED
      BY <1>3, <2>1, <2>2, <2>3, <2>4, <2>5, <2>6, <2>7 DEF Proceed
  <1>4. ASSUME NEW t \in Tenants, NEW new \in Rows, SetTenant(t, new) PROVE CapInv'
    BY <1>4, CapQuiet DEF SetTenant
  <1>5. CASE Tick
    BY <1>5, CapQuiet DEF Tick
  <1>6. CASE Midnight
    <2>1. today + 1 \in Days /\ today' = today + 1 /\ UNCHANGED <<usage, granted, pc, raced, of>>
      BY <1>6 DEF Midnight, Days
    <2>2. \A t \in Tenants : usage[t][today + 1] = 0
      BY <2>1 DEF CapInv, Days
    <2>. QED
      BY <2>1, <2>2 DEF CapInv, Calls, Days
  <1>7. CASE UNCHANGED vars
    BY <1>7, CapQuiet DEF vars
  <1>. QED
    BY <1>1, <1>2, <1>3, <1>4, <1>5, <1>6, <1>7 DEF Next

LEMMA CapsHold == Spec => [](TypeInv /\ CapInv)
  BY TypeInit, TypeStep, CapInit, CapStep, PTL DEF Spec

\* No reservation is granted that the day's row does not count, and none past the
\* cap (tenants.go:182-210).
THEOREM CapIsNeverExceeded == Spec => []NeverOverCap
  <1>1. CapInv => NeverOverCap
    BY DEF CapInv, NeverOverCap
  <1>. QED
    BY CapsHold, <1>1, PTL

\* A call is refused below the cap only when another call's INSERT came between
\* its two statements (tenants.go:185-209).
THEOREM RefusedAtTheCap == Spec => NeverRefusedAlone
  <1>1. TypeInv /\ CapInv => AloneAtCap
    BY DEF TypeInv, TypeOK, CapInv, AloneAtCap, Refuse, Calls
  <1>. QED
    BY CapsHold, <1>1, PTL DEF NeverRefusedAlone

\* Only calls between their statements are overtaken.
RacedInv == \A r \in raced : At(r, "insert")

\* Every step keeps that.
LEMMA RacedStep == TypeInv /\ RacedInv /\ [Next]_vars => RacedInv'
  <1>. SUFFICES ASSUME TypeInv, RacedInv, [Next]_vars PROVE RacedInv'
    OBVIOUS
  <1>. USE DEF TypeInv, TypeOK, RacedInv, Goto, At, clocks, gate
  <1>1. ASSUME NEW r \in Requests, NEW k \in Keys, NEW t \in Tenants, LetIn(r, k, t) PROVE RacedInv'
    BY <1>1 DEF LetIn
  <1>2. ASSUME NEW k \in Keys, TurnAway(k) PROVE RacedInv'
    BY <1>2 DEF TurnAway
  <1>3. ASSUME NEW r \in Requests, Proceed(r) PROVE RacedInv'
    <2>1. CASE Resolve(r) \/ Turned(r) \/ Denied(r) \/ Finish(r)
      BY <2>1 DEF Resolve, Turned, Denied, Finish
    <2>2. CASE \E call \in BOOLEAN : Enter(r, call)
      BY <2>2 DEF Enter
    <2>3. CASE \E heard \in BOOLEAN : Update(r, heard)
      BY <2>3 DEF Update, Reserve
    <2>4. CASE \E heard \in BOOLEAN : Insert(r, heard)
      BY <2>4 DEF Insert, Reserve, Overtaken
    <2>5. CASE UpdateNone(r) \/ Refuse(r) \/ FailOpen(r)
      BY <2>5 DEF UpdateNone, Refuse, FailOpen
    <2>. QED
      BY <1>3, <2>1, <2>2, <2>3, <2>4, <2>5 DEF Proceed
  <1>4. CASE (\E t \in Tenants, new \in Rows : SetTenant(t, new)) \/ Tick \/ Midnight \/ UNCHANGED vars
    BY <1>4 DEF SetTenant, Tick, Midnight, vars
  <1>. QED
    BY <1>1, <1>2, <1>3, <1>4 DEF Next

LEMMA RacesHold == Spec => []RacedInv
  <1>1. Init => RacedInv
    BY DEF Init, RacedInv
  <1>. QED
    BY <1>1, RacedStep, CapsHold, PTL DEF Spec

\* A request that stops asking is one less of its tenant's.
LEMMA AnsweredIs ==
    ASSUME TypeInv, NEW r \in Requests, NEW step \in {"away", "serving"},
           pc[r] \in {"update", "insert"}, Goto(r, step), of' = of
    PROVE  /\ Reserving!Answered(r, of[r])
           /\ serving' = IF step = "serving" THEN serving \cup {r} ELSE serving
  <1>. USE DEF TypeInv, TypeOK, Goto, At
  <1>1. /\ pc'[r] = step
        /\ \A q \in Requests : q # r => pc'[q] = pc[q]
    OBVIOUS
  <1>2. of[r] \in Tenants /\ r \in asking[of[r]]
    BY DEF asking
  <1>3. asking' = [asking EXCEPT ![of[r]] = asking[of[r]] \ {r}]
    <2>1. \A t \in Tenants :
            asking'[t] = IF t = of[r] THEN asking[of[r]] \ {r} ELSE asking[t]
      BY <1>1 DEF asking
    <2>2. /\ asking = [t \in Tenants |-> asking[t]]
          /\ asking' = [t \in Tenants |-> asking'[t]]
      BY DEF asking
    <2>. QED
      BY <2>1, <2>2
  <1>4. serving' = IF step = "serving" THEN serving \cup {r} ELSE serving
    BY <1>1 DEF serving
  <1>. QED
    BY <1>2, <1>3, <1>4 DEF Reserving!Answered

\* Either statement that counts a call is the reservation.
LEMMA ReserveStep ==
    ASSUME TypeInv, CapInv, RacedInv, NEW r \in Requests, NEW heard \in BOOLEAN,
           Update(r, heard) \/ Insert(r, heard)
    PROVE  Reserving!Reserve(r, of[r])
  <1>1. pc[r] \in {"update", "insert"} /\ Reserve(r, heard) /\ UNCHANGED <<today, of>>
    BY DEF Update, Insert, At, clocks
  <1>7. Calls(r) < Cap
    <2>1. Cap \in Nat \ {0}
      BY AdmissionAssumption
    <2>2. Calls(r) \in 1 .. Cap - 1 \/ Calls(r) = 0
      BY DEF Update, Insert
    <2>. QED
      BY <2>1, <2>2
  <1>2. Reserving!Answered(r, of[r]) /\ serving' = serving \cup {r}
    BY <1>1, AnsweredIs DEF Reserve
  <1>3. of[r] \in Tenants /\ today \in Days
    BY DEF TypeInv, TypeOK
  <1>4. \A count : OneMore(r, count) = Reserving!Counted(count, of[r])
    BY DEF OneMore, Reserving!Counted
  <1>5. /\ usage' = Reserving!Counted(usage, of[r])
        /\ granted' \in {granted, Reserving!Counted(granted, of[r])}
    BY <1>1, <1>4 DEF Reserve
  <1>6. \E some \in SUBSET asking'[of[r]] : raced' = (raced \ {r}) \cup some
    <2>1. CASE Update(r, heard)
      <3>1. raced' = (raced \ {r}) \cup {}
        BY <2>1 DEF Update, RacedInv, At
      <3>. QED
        BY <3>1
    <2>2. CASE Insert(r, heard)
      <3>1. Overtaken(r) \subseteq asking'[of[r]]
        BY <1>1, <1>3 DEF Overtaken, asking, Reserve, Goto, At, TypeInv, TypeOK
      <3>. QED
        BY <2>2, <3>1 DEF Insert
    <2>. QED
      BY <2>1, <2>2
  <1>. QED
    BY <1>1, <1>7, <1>2, <1>5, <1>6 DEF Reserving!Reserve, Calls

\* What the requests do is a step of the quota or none of its business.
LEMMA QuotaProceeds ==
    ASSUME TypeInv, CapInv, RacedInv, NEW r \in Requests, Proceed(r)
    PROVE  [Reserving!Next]_(Reserving!quotaVars)
  <1>. USE DEF TypeInv, TypeOK
  <1>1. of[r] \in Tenants
    OBVIOUS
  <1>2. CASE Resolve(r) \/ Turned(r) \/ Denied(r) \/ UpdateNone(r)
    <2>1. /\ asking' = asking /\ serving' = serving
      BY <1>2 DEF Resolve, Turned, Denied, UpdateNone, Goto, At, asking, serving, gate
    <2>2. UNCHANGED <<today, usage, granted, raced>>
      BY <1>2 DEF Resolve, Turned, Denied, UpdateNone, clocks, gate, RacedInv, At
    <2>. QED
      BY <2>1, <2>2 DEF Reserving!quotaVars
  <1>3. ASSUME NEW call \in BOOLEAN, Enter(r, call) PROVE Reserving!Next
    <2>1. pc[r] = "gate" /\ UNCHANGED <<today, usage, granted, raced, of>>
      BY <1>3 DEF Enter, At, clocks, gate
    <2>2. \A t \in Tenants : r \notin asking[t]
      BY <2>1 DEF asking
    <2>3. CASE Goto(r, "update")
      <3>0. pc'[r] = "update" /\ \A q \in Requests : q # r => pc'[q] = pc[q]
        BY <2>3 DEF Goto
      <3>1. asking' = [asking EXCEPT ![of[r]] = asking[of[r]] \cup {r}] /\ serving' = serving
        <4>1. \A t \in Tenants :
                asking'[t] = IF t = of[r] THEN asking[of[r]] \cup {r} ELSE asking[t]
          BY <2>1, <3>0 DEF asking
        <4>2. /\ asking = [t \in Tenants |-> asking[t]]
              /\ asking' = [t \in Tenants |-> asking'[t]]
          BY DEF asking
        <4>3. serving' = serving
          BY <2>1, <3>0 DEF serving, At
        <4>. QED
          BY <4>1, <4>2, <4>3
      <3>2. Reserving!Ask(r, of[r])
        BY <2>1, <2>2, <3>1 DEF Reserving!Ask
      <3>. QED
        BY <1>1, <3>2 DEF Reserving!Next
    <2>4. CASE Goto(r, "serving")
      <3>1. asking' = asking /\ serving' = serving \cup {r}
        BY <2>1, <2>4 DEF asking, serving, Goto, At
      <3>2. Reserving!Serve(r)
        BY <2>1, <2>2, <3>1 DEF Reserving!Serve
      <3>. QED
        BY <3>2 DEF Reserving!Next
    <2>. QED
      BY <1>3, <2>3, <2>4 DEF Enter
  <1>4. CASE \E heard \in BOOLEAN : Update(r, heard) \/ Insert(r, heard)
    BY <1>1, <1>4, ReserveStep DEF Reserving!Next
  <1>5. CASE Refuse(r)
    <2>1. Reserving!Answered(r, of[r]) /\ serving' = serving
      BY <1>5, AnsweredIs DEF Refuse, At
    <2>2. usage[of[r]][today] = Cap \/ r \in raced
      BY <1>5 DEF Refuse, CapInv, Calls
    <2>3. Reserving!Refuse(r, of[r])
      BY <1>5, <2>1, <2>2 DEF Refuse, Reserving!Refuse, clocks
    <2>. QED
      BY <1>1, <2>3 DEF Reserving!Next
  <1>6. CASE FailOpen(r)
    <2>1. Reserving!Answered(r, of[r]) /\ serving' = serving \cup {r}
      BY <1>6, AnsweredIs DEF FailOpen
    <2>2. Reserving!LetThrough(r, of[r])
      BY <1>6, <2>1 DEF FailOpen, Reserving!LetThrough, clocks
    <2>. QED
      BY <1>1, <2>2 DEF Reserving!Next
  <1>7. CASE Finish(r)
    <2>1. asking' = asking /\ serving' = serving \ {r}
      BY <1>7 DEF Finish, Goto, At, asking, serving
    <2>2. Reserving!Finish(r)
      BY <1>7, <2>1 DEF Finish, Reserving!Finish, clocks, gate
    <2>. QED
      BY <2>2 DEF Reserving!Next
  <1>. QED
    BY <1>2, <1>3, <1>4, <1>5, <1>6, <1>7 DEF Proceed

\* Every step of Admission is one of Quota, or none of its business.
LEMMA QuotaStep ==
    TypeInv /\ CapInv /\ RacedInv /\ [Next]_vars => [Reserving!Next]_(Reserving!quotaVars)
  <1>. SUFFICES ASSUME TypeInv, CapInv, RacedInv, [Next]_vars
                PROVE  [Reserving!Next]_(Reserving!quotaVars)
    OBVIOUS
  <1>1. CASE \E r \in Requests, k \in Keys, t \in Tenants : LetIn(r, k, t)
    <2>1. asking' = asking /\ serving' = serving
      BY <1>1 DEF LetIn, Goto, At, asking, serving, TypeInv, TypeOK
    <2>. QED
      BY <1>1, <2>1 DEF LetIn, Reserving!quotaVars, clocks
  <1>2. CASE \E r \in Requests : Proceed(r)
    BY <1>2, QuotaProceeds
  <1>3. CASE \/ \E k \in Keys : TurnAway(k)
             \/ \E t \in Tenants, new \in Rows : SetTenant(t, new)
             \/ Tick
             \/ UNCHANGED vars
    <2>1. UNCHANGED <<pc, of, today, usage, granted, raced>>
      BY <1>3 DEF TurnAway, SetTenant, Tick, vars, clocks, gate
    <2>2. asking' = asking /\ serving' = serving
      BY <2>1 DEF asking, serving, At
    <2>. QED
      BY <2>1, <2>2 DEF Reserving!quotaVars
  <1>4. CASE Midnight
    <2>1. asking' = asking /\ serving' = serving
      BY <1>4 DEF Midnight, gate, asking, serving, At
    <2>2. Reserving!Midnight
      BY <1>4, <2>1 DEF Midnight, Reserving!Midnight, gate
    <2>. QED
      BY <2>2 DEF Reserving!Next
  <1>. QED
    BY <1>1, <1>2, <1>3, <1>4 DEF Next

\* The two statements of TryBumpUsage are one reservation, whatever runs between
\* them, but for the refusal of a call that another one's INSERT overtook
\* (tenants.go:182-210, tenant.go:77-101).
THEOREM ReservesAtomically == Spec => QuotaSpec
  <1>1. Init => Reserving!Init
    BY DEF Init, Reserving!Init, asking, serving, At
  <1>. QED
    BY <1>1, QuotaStep, CapsHold, RacesHold, PTL DEF Spec, QuotaSpec, Reserving!Spec

-----------------------------------------------------------------------------
(* Entitlement                                                             *)

EntitledInv ==
    \A r \in Requests :
        /\ ~At(r, "away") /\ Entitled(tenant[of[r]], now) => r \in entitled
        /\ At(r, "gate") /\ Entitled(row[r], now) => r \in entitled
        /\ pc[r] \in {"update", "insert", "serving"} => r \in entitled

\* What entitles at a moment entitled before.
LEMMA EntitledBefore ==
    ASSUME NEW t \in Rows, NEW n \in Nat, Entitled(t, n + 1) PROVE Entitled(t, n)
  BY DEF Entitled, Row

LEMMA EntitledInit == Init => EntitledInv
  BY DEF Init, EntitledInv, At

\* Steps at which no row and no clock changes, and a request leaves the gate only
\* to be turned away.
LEMMA EntitledQuiet ==
    ASSUME EntitledInv, UNCHANGED <<now, tenant, of, row, entitled>>,
           \A q \in Requests : \/ pc'[q] \in {pc[q], "away"}
                               \/ pc[q] \in {"update", "insert", "serving"} /\ pc'[q] # "gate"
    PROVE  EntitledInv'
  BY DEF EntitledInv, At, Entitled

LEMMA EntitledStep == TypeInv /\ EntitledInv /\ [Next]_vars => EntitledInv'
  <1>. SUFFICES ASSUME TypeInv, EntitledInv, [Next]_vars PROVE EntitledInv'
    OBVIOUS
  <1>. USE DEF TypeInv, TypeOK, Goto, clocks, gate, Steps, At
  <1>1. ASSUME NEW r \in Requests, NEW k \in Keys, NEW t \in Tenants, LetIn(r, k, t) PROVE EntitledInv'
    BY <1>1 DEF LetIn, EntitledInv
  <1>2. ASSUME NEW k \in Keys, TurnAway(k) PROVE EntitledInv'
    BY <1>2, EntitledQuiet DEF TurnAway
  <1>3. ASSUME NEW r \in Requests, Proceed(r) PROVE EntitledInv'
    <2>1. CASE Resolve(r)
      BY <2>1 DEF Resolve, EntitledInv
    <2>2. CASE Turned(r) \/ Denied(r) \/ Finish(r)
      BY <2>2, EntitledQuiet DEF Turned, Denied, Finish
    <2>3. CASE \E call \in BOOLEAN : Enter(r, call)
      BY <2>3 DEF Enter, EntitledInv
    <2>4. ASSUME NEW heard \in BOOLEAN, Update(r, heard) \/ Insert(r, heard) PROVE EntitledInv'
      BY <2>4, EntitledQuiet DEF Update, Insert, Reserve
    <2>5. CASE UpdateNone(r) \/ Refuse(r) \/ FailOpen(r)
      BY <2>5, EntitledQuiet DEF UpdateNone, Refuse, FailOpen
    <2>. QED
      BY <1>3, <2>1, <2>2, <2>3, <2>4, <2>5 DEF Proceed
  <1>4. ASSUME NEW t \in Tenants, NEW new \in Rows, SetTenant(t, new) PROVE EntitledInv'
    BY <1>4 DEF SetTenant, EntitledInv
  <1>5. CASE Tick
    BY <1>5, EntitledBefore DEF Tick, EntitledInv
  <1>6. CASE Midnight
    BY <1>6, EntitledQuiet DEF Midnight
  <1>7. CASE UNCHANGED vars
    BY <1>7, EntitledQuiet DEF vars
  <1>. QED
    BY <1>1, <1>2, <1>3, <1>4, <1>5, <1>6, <1>7 DEF Next

\* Whoever passes the gate was entitled at some moment since it came
\* (tenant.go:41-72, tenants.go:119-158).
THEOREM ServedWereEntitled == Spec => []ServedEntitled
  <1>1. EntitledInv => ServedEntitled
    BY DEF EntitledInv, ServedEntitled
  <1>. QED
    BY TypesHold, EntitledInit, EntitledStep, <1>1, PTL DEF Spec

-----------------------------------------------------------------------------
(* The rate                                                                *)

\* No two entries have the same place.
Distinct(l) ==
    \A i, j \in Keys : i # j /\ l.place[i] = l.place[j] => l.place[i] = MaxKeys

\* The watch w knows its address's entry, how many are before it, and that what it
\* counted and what the bucket still holds was there at the start or earned since.
Kept(k, w, l, n) ==
    /\ w.whom = {k}
    /\ HasEntry(l, k)
    /\ w.from <= n
    /\ w.count + Available(l, k, n) <= Burst + Rate * (n - w.from)
    /\ w.others = {j \in Keys : l.place[j] < l.place[k]}
    /\ l.place[k] = Cardinality(w.others)

WatchOK(w, l, n) == \A k \in w.whom : Kept(k, w, l, n)

RateInv == Distinct(limiter) /\ WatchOK(watch, limiter, now)

LEMMA DistinctStep ==
    ASSUME NEW l, NEW n \in Nat, IsLimiter(l, n), Distinct(l), NEW k \in Keys
    PROVE  Distinct(Asked(l, k, n))
  <1>1. Asked(l, k, n).place = Touched(l, k)
    BY AskedValues
  <1>2. \A j \in Keys : l.place[j] \in 0 .. MaxKeys
    BY DEF IsLimiter, Limiters
  <1>. QED
    BY <1>1, <1>2 DEF Distinct, Touched

\* An address that just asked has what it had before, less what it spent.
LEMMA LeftAfterAsking ==
    ASSUME NEW l, NEW n \in Nat, IsLimiter(l, n), NEW k \in Keys
    PROVE  LET m == Asked(l, k, n) IN
           /\ HasEntry(m, k)
           /\ Available(m, k, n) = Available(l, k, n) - (IF Passes(l, k, n) THEN 1 ELSE 0)
           /\ {j \in Keys : m.place[j] < m.place[k]} = {}
  <1>. DEFINE m == Asked(l, k, n)
  <1>1. m.place[k] = 0 /\ m.last[k] = n /\ m.place \in [Keys -> 0 .. MaxKeys]
    BY AskedValues
  <1>2. m.tokens[k] = Available(l, k, n) - (IF Passes(l, k, n) THEN 1 ELSE 0)
    BY AskedValues
  <1>3. Available(l, k, n) \in 0 .. Burst
    BY AvailableType
  <1>. HIDE DEF m
  <1>4. Rate * (n - m.last[k]) = 0
    BY <1>1
  <1>5. HasEntry(m, k)
    BY <1>1 DEF HasEntry
  <1>6. Available(m, k, n) = m.tokens[k]
    BY <1>2, <1>3, <1>4, <1>5 DEF Available, Passes
  <1>. QED
    BY <1>1, <1>2, <1>5, <1>6 DEF m

\* The watch that begins with a request that passes.
LEMMA WatchBegins ==
    ASSUME NEW l, NEW n \in Nat, IsLimiter(l, n), NEW k \in Keys, Passes(l, k, n)
    PROVE  WatchOK([whom |-> {k}, from |-> n, count |-> 1, others |-> {}], Asked(l, k, n), n)
  <1>. DEFINE m == Asked(l, k, n)
              w == [whom |-> {k}, from |-> n, count |-> 1, others |-> {}]
  <1>1. HasEntry(m, k) /\ Available(m, k, n) = Available(l, k, n) - 1 /\ {j \in Keys : m.place[j] < m.place[k]} = {}
    BY LeftAfterAsking
  <1>2. m.place[k] = 0 /\ Available(l, k, n) \in 0 .. Burst
    BY AskedValues, AvailableType
  <1>3. Cardinality({}) = 0 /\ Rate * (n - n) = 0
    BY FS_EmptySet
  <1>. HIDE DEF m
  <1>4. WatchOK(w, m, n)
    BY <1>1, <1>2, <1>3 DEF WatchOK, Kept
  <1>. QED
    BY <1>4 DEF m

\* A watch goes on when its address asks.
LEMMA WatchedItself ==
    ASSUME NEW l, NEW n \in Nat, IsLimiter(l, n), NEW k \in Keys, NEW w, WatchOK(w, l, n),
           w.whom = {k}, w.count \in Nat, w.from \in Nat
    PROVE  WatchOK([whom |-> w.whom, from |-> w.from,
                    count |-> w.count + (IF Passes(l, k, n) THEN 1 ELSE 0), others |-> {}],
                   Asked(l, k, n), n)
  <1>. DEFINE m == Asked(l, k, n)
              p == IF Passes(l, k, n) THEN 1 ELSE 0
              v == [whom |-> w.whom, from |-> w.from, count |-> w.count + p, others |-> {}]
  <1>1. HasEntry(m, k) /\ Available(m, k, n) = Available(l, k, n) - p /\ {j \in Keys : m.place[j] < m.place[k]} = {}
    BY LeftAfterAsking
  <1>2. m.place[k] = 0 /\ Available(l, k, n) \in 0 .. Burst
    BY AskedValues, AvailableType
  <1>3. w.from <= n /\ w.count + Available(l, k, n) <= Burst + Rate * (n - w.from)
    BY DEF WatchOK, Kept
  <1>4. Cardinality({}) = 0 /\ Rate * (n - w.from) \in Nat
    BY <1>3, FS_EmptySet, Earned
  <1>5. p \in {0, 1}
    OBVIOUS
  <1>. HIDE DEF m, p
  <1>6. WatchOK(v, m, n)
    BY <1>1, <1>2, <1>3, <1>4, <1>5 DEF WatchOK, Kept
  <1>. QED
    BY <1>6 DEF m, p

\* A watch goes on when another address asks, unless too many others have.
LEMMA WatchedOther ==
    ASSUME NEW l, NEW n \in Nat, IsLimiter(l, n), Distinct(l), NEW q \in Keys,
           NEW w, WatchOK(w, l, n), q \notin w.whom, w.whom \subseteq Keys,
           Cardinality(w.others \cup {q}) < MaxKeys
    PROVE  WatchOK([whom |-> w.whom, from |-> w.from, count |-> w.count, others |-> w.others \cup {q}],
                   Asked(l, q, n), n)
  <1>. DEFINE m == Asked(l, q, n)
              v == [whom |-> w.whom, from |-> w.from, count |-> w.count, others |-> w.others \cup {q}]
  <1>. SUFFICES ASSUME NEW k \in w.whom
                PROVE  /\ w.whom = {k}
                       /\ HasEntry(m, k)
                       /\ w.from <= n
                       /\ w.count + Available(m, k, n) <= Burst + Rate * (n - w.from)
                       /\ w.others \cup {q} = {j \in Keys : m.place[j] < m.place[k]}
                       /\ m.place[k] = Cardinality(w.others \cup {q})
    BY DEF WatchOK, Kept
  <1>1. k \in Keys /\ k # q /\ w.whom = {k}
    BY DEF WatchOK, Kept
  <1>2. /\ HasEntry(l, k)
        /\ w.from <= n
        /\ w.count + Available(l, k, n) <= Burst + Rate * (n - w.from)
        /\ w.others = {j \in Keys : l.place[j] < l.place[k]}
        /\ l.place[k] = Cardinality(w.others)
    BY DEF WatchOK, Kept
  <1>3. \A j \in Keys : l.place[j] \in 0 .. MaxKeys
    BY DEF IsLimiter, Limiters
  <1>4. m.place = Touched(l, q)
    BY AskedValues
  <1>5. \A j \in Keys : m.place[j] =
            IF j = q THEN 0 ELSE IF l.place[j] < l.place[q] THEN l.place[j] + 1 ELSE l.place[j]
    BY <1>4 DEF Touched
  <1>6. l.place[k] < MaxKeys
    BY <1>2 DEF HasEntry
  <1>. HIDE DEF m
  <1>7. m.place[k] = Cardinality(w.others \cup {q}) /\ w.others \cup {q} = {j \in Keys : m.place[j] < m.place[k]}
    <2>1. CASE l.place[q] < l.place[k]
      <3>1. w.others \cup {q} = w.others
        BY <1>2, <2>1
      <3>2. m.place[k] = l.place[k]
        BY <1>1, <1>3, <1>5, <2>1
      <3>3. \A j \in Keys : m.place[j] < m.place[k] <=> l.place[j] < l.place[k]
        <4>. TAKE j \in Keys
        <4>1. l.place[j] \in Nat /\ l.place[q] \in Nat /\ l.place[k] \in Nat
          BY <1>1, <1>3
        <4>2. m.place[j] = IF j = q THEN 0 ELSE IF l.place[j] < l.place[q] THEN l.place[j] + 1 ELSE l.place[j]
          BY <1>5
        <4>. QED
          BY <2>1, <3>2, <4>1, <4>2
      <3>. QED
        BY <1>2, <3>1, <3>2, <3>3
    <2>2. CASE ~(l.place[q] < l.place[k])
      <3>1. l.place[k] < l.place[q]
        BY <1>1, <1>3, <1>6, <2>2 DEF Distinct
      <3>2. m.place[k] = l.place[k] + 1
        BY <1>1, <1>5, <3>1
      <3>3. \A j \in Keys : m.place[j] < m.place[k] <=> j = q \/ l.place[j] < l.place[k]
        <4>. TAKE j \in Keys
        <4>1. j # k /\ j # q => l.place[j] # l.place[k]
          BY <1>1, <1>6 DEF Distinct
        <4>. QED
          BY <1>1, <1>3, <1>5, <3>1, <3>2, <4>1
      <3>4. IsFiniteSet(w.others) /\ q \notin w.others
        BY <1>2, <2>2, FS_Subset
      <3>5. Cardinality(w.others \cup {q}) = Cardinality(w.others) + 1
        BY <3>4, FS_AddElement
      <3>. QED
        BY <1>2, <3>2, <3>3, <3>5
    <2>. QED
      BY <2>1, <2>2
  <1>8. m.place[k] < MaxKeys
    BY <1>7
  <1>9. m.tokens[k] = l.tokens[k] /\ m.last[k] = l.last[k]
    BY <1>1, <1>8, AskedValues DEF m
  <1>10. HasEntry(m, k) /\ Available(m, k, n) = Available(l, k, n)
    BY <1>2, <1>8, <1>9 DEF HasEntry, Available
  <1>. QED
    BY <1>1, <1>2, <1>7, <1>10

LEMMA RateInit == Init => RateInv
  BY DEF Init, RateInv, Distinct, WatchOK, NewLimiter, NotWatching

LEMMA WatchedStep ==
    ASSUME TypeInv, RateInv, NEW k \in Keys
    PROVE  WatchOK(Watched(k, IF Passes(limiter, k, now) THEN 1 ELSE 0), Asked(limiter, k, now), now)
  <1>. DEFINE p == IF Passes(limiter, k, now) THEN 1 ELSE 0
  <1>1. /\ watch.whom \in SUBSET Keys /\ watch.from \in Nat /\ watch.count \in Nat
        /\ watch = [whom |-> watch.whom, from |-> watch.from, count |-> watch.count, others |-> watch.others]
        /\ now \in Nat /\ IsLimiter(limiter, now)
    BY DEF TypeInv, TypeOK
  <1>2. Distinct(limiter) /\ WatchOK(watch, limiter, now)
    BY DEF RateInv
  <1>3. CASE watch.whom = {}
    BY <1>3 DEF Watched, WatchOK, Kept
  <1>4. CASE k \in watch.whom
    <2>1. watch.whom = {k}
      BY <1>2, <1>4 DEF WatchOK, Kept
    <2>2. Watched(k, p) = [whom |-> watch.whom, from |-> watch.from, count |-> watch.count + p, others |-> {}]
      BY <1>4 DEF Watched
    <2>. QED
      BY <1>1, <1>2, <2>1, <2>2, WatchedItself
  <1>5. CASE k \notin watch.whom /\ watch.whom # {} /\ Cardinality(watch.others \cup {k}) < MaxKeys
    <2>1. Watched(k, p) = [whom |-> watch.whom, from |-> watch.from, count |-> watch.count,
                           others |-> watch.others \cup {k}]
      BY <1>1, <1>5 DEF Watched
    <2>. QED
      BY <1>1, <1>2, <1>5, <2>1, WatchedOther
  <1>6. CASE k \notin watch.whom /\ watch.whom # {} /\ ~(Cardinality(watch.others \cup {k}) < MaxKeys)
    BY <1>6 DEF Watched, WatchOK, Kept, NotWatching
  <1>. QED
    BY <1>3, <1>4, <1>5, <1>6

\* The watch of k goes on when time does.
LEMMA KeptLater ==
    ASSUME NEW n \in Nat, NEW m \in Nat, m = n + 1, NEW l, IsLimiter(l, n), NEW k \in Keys,
           NEW w, w.from \in Nat, w.count \in Nat, Kept(k, w, l, n)
    PROVE  Kept(k, w, l, m)
  <1>1. l.last[k] \in Nat /\ l.last[k] <= n /\ l.tokens[k] \in 0 .. Burst
    BY DEF IsLimiter, Limiters
  <1>2. HasEntry(l, k) /\ w.from <= n /\ w.count + Available(l, k, n) <= Burst + Rate * (n - w.from)
    BY DEF Kept
  <1>3. PICK since \in Nat : since = n - l.last[k]
    BY <1>1
  <1>4. PICK open \in Nat : open = n - w.from
    BY <1>2
  <1>5. m - l.last[k] = since + 1 /\ m - w.from = open + 1
    BY <1>1, <1>3, <1>4
  <1>6. PICK earned \in Nat : earned = Rate * since
    BY Earned
  <1>7. PICK allowed \in Nat : allowed = Rate * open
    BY Earned
  <1>8. Rate * (since + 1) = earned + Rate /\ Rate * (open + 1) = allowed + Rate
    BY <1>6, <1>7
  <1>9. earned = Rate * (n - l.last[k]) /\ earned + Rate = Rate * (m - l.last[k])
    BY <1>3, <1>5, <1>6, <1>8
  <1>10. allowed = Rate * (n - w.from) /\ allowed + Rate = Rate * (m - w.from)
    BY <1>4, <1>5, <1>7, <1>8
  <1>11. Available(l, k, n) = IF l.tokens[k] + earned < Burst THEN l.tokens[k] + earned ELSE Burst
    BY <1>2, <1>9, AvailableOf, Zenon
  <1>12. PICK later \in Nat : later = earned + Rate
    OBVIOUS
  <1>13. Available(l, k, m) = IF l.tokens[k] + later < Burst THEN l.tokens[k] + later ELSE Burst
    BY <1>2, <1>9, <1>12, AvailableOf, Zenon
  <1>14. Available(l, k, m) <= Available(l, k, n) + Rate /\ Available(l, k, n) \in Nat /\ Available(l, k, m) \in Nat
    BY <1>1, <1>11, <1>12, <1>13
  <1>15. w.count + Available(l, k, n) <= Burst + allowed
    BY <1>2, <1>10
  <1>16. w.count + Available(l, k, m) <= Burst + (allowed + Rate)
    BY <1>14, <1>15
  <1>17. w.count + Available(l, k, m) <= Burst + Rate * (m - w.from)
    BY <1>10, <1>16, Zenon
  <1>18. w.from <= m
    BY <1>2
  <1>. QED
    BY <1>17, <1>18 DEF Kept

LEMMA RateStep == TypeInv /\ RateInv /\ [Next]_vars => RateInv'
  <1>. SUFFICES ASSUME TypeInv, RateInv, [Next]_vars PROVE RateInv'
    OBVIOUS
  <1>. USE DEF clocks, gate
  <1>1. IsLimiter(limiter, now) /\ now \in Nat
    BY DEF TypeInv, TypeOK
  <1>2. ASSUME NEW r \in Requests, NEW k \in Keys, NEW t \in Tenants, LetIn(r, k, t) PROVE RateInv'
    <2>1. Passes(limiter, k, now) /\ limiter' = Asked(limiter, k, now) /\ now' = now /\ Watches(k)
      BY <1>2 DEF LetIn
    <2>2. Distinct(limiter')
      BY <1>1, <2>1, DistinctStep DEF RateInv
    <2>3. CASE watch' = Watched(k, 1)
      BY <2>1, <2>2, <2>3, WatchedStep DEF RateInv
    <2>4. CASE watch' = [whom |-> {k}, from |-> now, count |-> 1, others |-> {}]
      BY <1>1, <2>1, <2>2, <2>4, WatchBegins DEF RateInv
    <2>. QED
      BY <2>1, <2>3, <2>4 DEF Watches
  <1>3. ASSUME NEW k \in Keys, TurnAway(k) PROVE RateInv'
    <2>1. ~Passes(limiter, k, now) /\ limiter' = Asked(limiter, k, now) /\ now' = now /\ watch' = Watched(k, 0)
      BY <1>3 DEF TurnAway
    <2>. QED
      BY <1>1, <2>1, DistinctStep, WatchedStep DEF RateInv
  <1>4. CASE Tick
    <2>1. now' = now + 1 /\ UNCHANGED <<limiter, watch>>
      BY <1>4 DEF Tick
    <2>2. ASSUME NEW k \in watch.whom PROVE Kept(k, watch, limiter, now + 1)
      <3>1. k \in Keys /\ watch.from \in Nat /\ watch.count \in Nat /\ now + 1 \in Nat
        BY <1>1 DEF TypeInv, TypeOK
      <3>2. Kept(k, watch, limiter, now)
        BY DEF RateInv, WatchOK
      <3>. QED
        BY <1>1, <3>1, <3>2, KeptLater
    <2>3. WatchOK(watch, limiter, now + 1)
      BY <2>2 DEF WatchOK
    <2>. QED
      BY <2>1, <2>3 DEF RateInv
  <1>5. CASE UNCHANGED <<now, limiter, watch>>
    BY <1>5 DEF RateInv
  <1>6. ASSUME NEW r \in Requests, Proceed(r) PROVE UNCHANGED <<now, limiter, watch>>
    BY <1>6 DEF Proceed, Resolve, Turned, Denied, Enter, Update, Insert, UpdateNone, Refuse, FailOpen, Finish
  <1>7. (\E t \in Tenants, new \in Rows : SetTenant(t, new)) \/ Midnight \/ UNCHANGED vars
        => UNCHANGED <<now, limiter, watch>>
    BY DEF SetTenant, Midnight, vars
  <1>. QED
    BY <1>2, <1>3, <1>4, <1>5, <1>6, <1>7 DEF Next

\* In no window does an address pass more often than Burst and what is earned in it,
\* while fewer than MaxKeys others ask between its requests (ratelimit.go:53-84).
THEOREM RateIsLimited == Spec => []LimitsRate
  <1>1. TypeInv /\ RateInv => LimitsRate
    <2>. SUFFICES ASSUME TypeInv, RateInv, watch.whom # {}
                  PROVE  watch.count <= Burst + Rate * (now - watch.from)
      BY DEF LimitsRate
    <2>1. PICK k \in Keys : k \in watch.whom
      BY DEF TypeInv, TypeOK
    <2>2. watch.from <= now /\ watch.count + Available(limiter, k, now) <= Burst + Rate * (now - watch.from)
      BY <2>1 DEF RateInv, WatchOK, Kept
    <2>3. Available(limiter, k, now) \in 0 .. Burst /\ watch.count \in Nat /\ watch.from \in Nat /\ now \in Nat
      BY AvailableType DEF TypeInv, TypeOK
    <2>4. Rate * (now - watch.from) \in Nat
      BY <2>2, <2>3, Earned
    <2>. QED
      BY <2>2, <2>3, <2>4
  <1>. QED
    BY TypesHold, RateInit, RateStep, <1>1, PTL DEF Spec
=============================================================================
