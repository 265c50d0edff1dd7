----------------------------- MODULE Admission -----------------------------
(***************************************************************************)
(* How a request to /metamcp gets in: the rate limiter of its client's     *)
(* address, the tenant's row, the entitlement, and for a tool call of a    *)
(* tenant on trial a reservation against the daily cap                     *)
(* (src/internal/mcp/server.go, tenant.go, src/internal/db/tenants.go).    *)
(*                                                                         *)
(* An action is one section under RateLimiter.mu, one SQL statement, or a  *)
(* decision on what was read.  Several gateways may share the database:    *)
(* requests of all of them are meant, with the limiter of one.             *)
(***************************************************************************)
EXTENDS Limiter, FiniteSets

CONSTANTS
    Requests,   \* the goroutines serving requests, one request at a time
    Tenants,
    Rows,       \* what the row of a tenant may say
    Cap,        \* TRIAL_DAILY_LIMIT
    LastNow,    \* bound: the last moment
    LastDay     \* bound: the last day

Statuses == {"active", "trialing", "past_due", "other"}

\* until is trial_ends_at, or the end of the grace of past_due_since.
Row == [status : Statuses, suspended : BOOLEAN, until : Nat]

ASSUME AdmissionAssumption ==
    /\ IsFiniteSet(Keys)
    /\ Rows \subseteq Row
    /\ Cap \in Nat \ {0}
    /\ LastNow \in Nat
    /\ LastDay \in Nat \ {0}

VARIABLES
    now,        \* the gateway's clock
    today,      \* current_date, of the database's clock
    limiter,    \* Server.limiter
    tenant,     \* the rows of tenants
    usage,      \* usage_daily: calls by tenant and day, 0 without a row
    pc,         \* where each request is
    of,         \* its tenant
    row,        \* the row of that tenant as the request read it
    granted,    \* history: the reservations that were granted, by tenant and day
    raced,      \* history: requests between UPDATE and INSERT which another's INSERT overtook
    entitled,   \* history: requests whose tenant was entitled at some moment since they came
    watch       \* history: what one address was let through since some moment

vars == <<now, today, limiter, tenant, usage, pc, of, row, granted, raced, entitled, watch>>
clocks == <<now, today>>
gate == <<tenant, usage, granted, raced, entitled>>

-----------------------------------------------------------------------------

Days == 1 .. LastDay

Steps == {"away", "tenant", "gate", "update", "insert", "serving"}

At(r, step) == pc[r] = step
Goto(r, step) == pc' = [pc EXCEPT ![r] = step]

\* EvaluateEntitlement.
Entitled(t, n) ==
    /\ ~t.suspended
    /\ \/ t.status = "active"
       \/ t.status \in {"trialing", "past_due"} /\ n < t.until

\* Only tenants on trial are capped.
Capped(t) == t.status = "trialing"

NotWatching == [whom |-> {}, from |-> 0, count |-> 0, others |-> {}]

Init ==
    /\ now = 0
    /\ today = 1
    /\ limiter = NewLimiter
    /\ tenant \in [Tenants -> Rows]
    /\ usage = [t \in Tenants |-> [d \in Days |-> 0]]
    /\ pc = [r \in Requests |-> "away"]
    /\ of \in [Requests -> Tenants]
    /\ row = [r \in Requests |-> tenant[of[r]]]
    /\ granted = [t \in Tenants |-> [d \in Days |-> 0]]
    /\ raced = {}
    /\ entitled = {}
    /\ watch = NotWatching

-----------------------------------------------------------------------------
(* The rate limiter                                                        *)

\* Somebody watches the address k: how often it passes, and which others ask
\* since it last did.  Once as many others asked as there are entries, its
\* bucket may be gone, and the watch ends.
Watched(k, passed) ==
    IF watch.whom = {} THEN watch
    ELSE IF k \in watch.whom
    THEN [whom |-> watch.whom, from |-> watch.from, count |-> watch.count + passed, others |-> {}]
    ELSE IF Cardinality(watch.others \cup {k}) < MaxKeys
    THEN [watch EXCEPT !.others = @ \cup {k}]
    ELSE NotWatching

\* The watch may begin with any request that passes.
Watches(k) ==
    \/ watch' = Watched(k, 1)
    \/ watch.whom = {} /\ watch' = [whom |-> {k}, from |-> now, count |-> 1, others |-> {}]

\* A request of the tenant t from the address k is let in.
LetIn(r, k, t) ==
    /\ At(r, "away")
    /\ Passes(limiter, k, now)
    /\ limiter' = Asked(limiter, k, now)
    /\ Watches(k)
    /\ Goto(r, "tenant")
    /\ of' = [of EXCEPT ![r] = t]
    /\ entitled' = IF Entitled(tenant[t], now) THEN entitled \cup {r} ELSE entitled \ {r}
    /\ UNCHANGED <<clocks, tenant, usage, row, granted, raced>>

\* 429: the bucket of k is empty.
TurnAway(k) ==
    /\ ~Passes(limiter, k, now)
    /\ limiter' = Asked(limiter, k, now)
    /\ watch' = Watched(k, 0)
    /\ UNCHANGED <<clocks, gate, pc, of, row>>

-----------------------------------------------------------------------------
(* The tenant                                                              *)

\* Variant: the row of the last request is kept.
ResolveCached(r) ==
    /\ At(r, "tenant")
    /\ row' \in {row, [row EXCEPT ![r] = tenant[of[r]]]}
    /\ Goto(r, "gate")
    /\ UNCHANGED <<clocks, limiter, gate, of, watch>>

\* GetTenantBySlug: the tenant of the subdomain, or the operator's.
Resolve(r) ==
    /\ At(r, "tenant")
    /\ row' = [row EXCEPT ![r] = tenant[of[r]]]
    /\ Goto(r, "gate")
    /\ UNCHANGED <<clocks, limiter, gate, of, watch>>

\* No such tenant or endpoint, no valid key, no session, or an error.
Turned(r) ==
    /\ pc[r] \in {"tenant", "gate"}
    /\ Goto(r, "away")
    /\ UNCHANGED <<clocks, limiter, gate, of, row, watch>>

\* 402 or 403: the trial is over, or the account is suspended.
Denied(r) ==
    /\ At(r, "gate")
    /\ ~Entitled(row[r], now)
    /\ Goto(r, "away")
    /\ UNCHANGED <<clocks, limiter, gate, of, row, watch>>

\* The gate lets the request through, as far as the daily cap if it is a tool call.
Enter(r, call) ==
    /\ At(r, "gate")
    /\ Entitled(row[r], now)
    /\ Goto(r, IF call /\ Capped(row[r]) THEN "update" ELSE "serving")
    /\ UNCHANGED <<clocks, limiter, gate, of, row, watch>>

-----------------------------------------------------------------------------
(* TryBumpUsage                                                            *)

Calls(r) == usage[of[r]][today]

\* usage_daily, or a count kept beside it, after one more call today.
OneMore(r, count) ==
    [t \in Tenants |-> [d \in Days |->
        IF t = of[r] /\ d = today THEN count[t][d] + 1 ELSE count[t][d]]]

\* A call is reserved.  When the statement's answer is lost, it goes on as after
\* any error, and nobody knows of the reservation.
Reserve(r, heard) ==
    /\ usage' = OneMore(r, usage)
    /\ granted' = IF heard THEN OneMore(r, granted) ELSE granted
    /\ Goto(r, "serving")

\* Requests that found no row to update before r's INSERT makes it.
Overtaken(r) == {q \in Requests \ {r} : At(q, "insert") /\ of[q] = of[r]}

\* UPDATE ... SET calls = calls + 1 WHERE calls < cap found a row.
Update(r, heard) ==
    /\ At(r, "update")
    /\ Calls(r) \in 1 .. Cap - 1
    /\ Reserve(r, heard)
    /\ UNCHANGED <<clocks, limiter, tenant, of, row, raced, entitled, watch>>

\* Variant: UPDATE ... WHERE calls + 1 < cap.
UpdateNoneEarly(r) ==
    /\ At(r, "update")
    /\ Calls(r) \notin 1 .. Cap - 2
    /\ raced' = raced \ {r}
    /\ Goto(r, "insert")
    /\ UNCHANGED <<clocks, limiter, tenant, usage, of, row, granted, entitled, watch>>

\* It found none: no row of today, or one at the cap.
UpdateNone(r) ==
    /\ At(r, "update")
    /\ Calls(r) \notin 1 .. Cap - 1
    /\ raced' = raced \ {r}
    /\ Goto(r, "insert")
    /\ UNCHANGED <<clocks, limiter, tenant, usage, of, row, granted, entitled, watch>>

\* Variant: a conflict counts the call, without the cap.
InsertOrAdd(r, heard) ==
    /\ At(r, "insert")
    /\ Reserve(r, heard)
    /\ raced' = (raced \ {r}) \cup Overtaken(r)
    /\ UNCHANGED <<clocks, limiter, tenant, of, row, entitled, watch>>

\* INSERT ... ON CONFLICT DO NOTHING made today's row.
Insert(r, heard) ==
    /\ At(r, "insert")
    /\ Calls(r) = 0
    /\ Reserve(r, heard)
    /\ raced' = (raced \ {r}) \cup Overtaken(r)
    /\ UNCHANGED <<clocks, limiter, tenant, of, row, entitled, watch>>

\* 429: there was a row, "at or above cap".
Refuse(r) ==
    /\ At(r, "insert")
    /\ Calls(r) # 0
    /\ raced' = raced \ {r}
    /\ Goto(r, "away")
    /\ UNCHANGED <<clocks, limiter, tenant, usage, of, row, granted, entitled, watch>>

\* Variant: a call is refused when a statement fails.
FailClosed(r) ==
    /\ pc[r] \in {"update", "insert"}
    /\ raced' = raced \ {r}
    /\ Goto(r, "away")
    /\ UNCHANGED <<clocks, limiter, tenant, usage, of, row, granted, entitled, watch>>

\* Either statement failed: the call is let through uncounted.
FailOpen(r) ==
    /\ pc[r] \in {"update", "insert"}
    /\ raced' = raced \ {r}
    /\ Goto(r, "serving")
    /\ UNCHANGED <<clocks, limiter, tenant, usage, of, row, granted, entitled, watch>>

Finish(r) ==
    /\ At(r, "serving")
    /\ Goto(r, "away")
    /\ UNCHANGED <<clocks, limiter, gate, of, row, watch>>

-----------------------------------------------------------------------------
(* The dashboard, Stripe's webhooks, and time                              *)

SetTenant(t, new) ==
    /\ new # tenant[t]
    /\ tenant' = [tenant EXCEPT ![t] = new]
    /\ entitled' = IF Entitled(new, now)
                   THEN entitled \cup {r \in Requests : ~At(r, "away") /\ of[r] = t}
                   ELSE entitled
    /\ UNCHANGED <<clocks, limiter, usage, pc, of, row, granted, raced, watch>>

Tick ==
    /\ now < LastNow
    /\ now' = now + 1
    /\ UNCHANGED <<today, limiter, gate, pc, of, row, watch>>

Midnight ==
    /\ today < LastDay
    /\ today' = today + 1
    /\ UNCHANGED <<now, limiter, gate, pc, of, row, watch>>

-----------------------------------------------------------------------------

Proceed(r) ==
    \/ Resolve(r) \/ Turned(r) \/ Denied(r) \/ \E call \in BOOLEAN : Enter(r, call)
    \/ \E heard \in BOOLEAN : Update(r, heard) \/ Insert(r, heard)
    \/ UpdateNone(r) \/ Refuse(r) \/ FailOpen(r) \/ Finish(r)

Next ==
    \/ \E r \in Requests, k \in Keys, t \in Tenants : LetIn(r, k, t)
    \/ \E k \in Keys : TurnAway(k)
    \/ \E r \in Requests : Proceed(r)
    \/ \E t \in Tenants, new \in Rows : SetTenant(t, new)
    \/ Tick
    \/ Midnight

Spec == Init /\ [][Next]_vars

-----------------------------------------------------------------------------
(* Properties                                                              *)

TypeOK ==
    /\ now \in 0 .. LastNow
    /\ today \in Nat
    /\ limiter \in Limiters
    /\ tenant \in [Tenants -> Rows]
    /\ usage \in [Tenants -> [Days -> Nat]]
    /\ pc \in [Requests -> Steps]
    /\ of \in [Requests -> Tenants]
    /\ row \in [Requests -> Rows]
    /\ granted \in [Tenants -> [Days -> Nat]]
    /\ raced \subseteq Requests
    /\ entitled \subseteq Requests
    /\ watch \in [whom : SUBSET Keys, from : Nat, count : Nat, others : SUBSET Keys]

\* "atomically reserves one call against the daily cap" (tenants.go:182): no call is
\* let through on a reservation its day's row does not count, and no row counts
\* more than the cap, however many requests reserve at once, whenever the day
\* changes and whatever answer is lost.
NeverOverCap ==
    \A t \in Tenants, d \in Days : granted[t][d] <= usage[t][d] /\ usage[t][d] <= Cap

\* A tool call is refused only at the cap (tenants.go:208), or when another call
\* made the day's first row between its two statements: alone it is never
\* refused below the cap, also not over midnight.
AloneAtCap ==
    \A r \in Requests : Refuse(r) /\ r \notin raced => usage[of[r]][today] >= Cap
NeverRefusedAlone == [][AloneAtCap]_vars

\* Whoever is served was entitled at some moment since it came: a row that was
\* read before a suspension, and judged by the clock after it, lets nobody in who
\* came later (tenant.go:36-72).
ServedEntitled ==
    \A r \in Requests : pc[r] \in {"update", "insert", "serving"} => r \in entitled

\* An address passes at most Burst + Rate * elapsed times (ratelimit.go:52-84) in
\* every window, as long as fewer than MaxKeys other addresses ask between two of
\* its requests: least recently used entries go first, so its bucket is kept.
LimitsRate ==
    watch.whom # {} => watch.count <= Burst + Rate * (now - watch.from)

-----------------------------------------------------------------------------
(* What the reservation implements                                         *)

asking == [t \in Tenants |-> {r \in Requests : pc[r] \in {"update", "insert"} /\ of[r] = t}]
serving == {r \in Requests : At(r, "serving")}

Reserving == INSTANCE Quota WITH overtaken <- raced

\* The two statements, over midnight and with answers lost, are one reservation:
\* "atomically reserves one call against the daily cap" (tenants.go:182), but for the
\* refusal of a call that another one's INSERT overtook, and the fail-open of
\* tenant.go:85-90.
QuotaSpec == Reserving!Spec
=============================================================================
