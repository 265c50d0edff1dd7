------------------------------- MODULE Quota -------------------------------
(***************************************************************************)
(* What TryBumpUsage and allowToolCall promise, without their statements:  *)
(* a call that asks is reserved in one step, on the day of that step and   *)
(* below the cap; or let through because the database failed it; or        *)
(* refused, at the cap of that step's day or because a reservation of its  *)
(* own tenant overtook it.  Admission implements this.                     *)
(***************************************************************************)
EXTENDS Naturals

CONSTANTS Requests, Tenants, Days, Cap

VARIABLES
    today,      \* the day
    usage,      \* usage[t][d]: the reservations of a tenant on a day
    granted,    \* granted[t][d]: those a request was told of
    asking,     \* asking[t]: the calls of t that ask for one
    serving,    \* the requests that are served
    overtaken   \* calls a reservation of their tenant overtook

quotaVars == <<today, usage, granted, asking, serving, overtaken>>

Init ==
    /\ today = 1
    /\ usage = [t \in Tenants |-> [d \in Days |-> 0]]
    /\ granted = [t \in Tenants |-> [d \in Days |-> 0]]
    /\ asking = [t \in Tenants |-> {}]
    /\ serving = {}
    /\ overtaken = {}

Ask(r, t) ==
    /\ \A u \in Tenants : r \notin asking[u]
    /\ asking' = [asking EXCEPT ![t] = @ \cup {r}]
    /\ UNCHANGED <<today, usage, granted, serving, overtaken>>

Answered(r, t) ==
    /\ r \in asking[t]
    /\ asking' = [asking EXCEPT ![t] = @ \ {r}]

\* A count after one more of t today.
Counted(count, t) ==
    [u \in Tenants |-> [d \in Days |->
        IF u = t /\ d = today THEN count[u][d] + 1 ELSE count[u][d]]]

\* Reserved, whether the call hears of it or not: one that hears nothing is let through.
Reserve(r, t) ==
    /\ Answered(r, t)
    /\ usage[t][today] < Cap
    /\ usage' = Counted(usage, t)
    /\ granted' \in {granted, Counted(granted, t)}
    /\ serving' = serving \cup {r}
    /\ \E some \in SUBSET asking'[t] : overtaken' = (overtaken \ {r}) \cup some
    /\ UNCHANGED today

LetThrough(r, t) ==
    /\ Answered(r, t)
    /\ serving' = serving \cup {r}
    /\ overtaken' = overtaken \ {r}
    /\ UNCHANGED <<today, usage, granted>>

Refuse(r, t) ==
    /\ Answered(r, t)
    /\ usage[t][today] = Cap \/ r \in overtaken
    /\ overtaken' = overtaken \ {r}
    /\ UNCHANGED <<today, usage, granted, serving>>

\* What needs no reservation, and what is over.
Serve(r) ==
    /\ \A t \in Tenants : r \notin asking[t]
    /\ serving' = serving \cup {r}
    /\ UNCHANGED <<today, usage, granted, asking, overtaken>>

Finish(r) ==
    /\ serving' = serving \ {r}
    /\ UNCHANGED <<today, usage, granted, asking, overtaken>>

Midnight ==
    /\ today' = today + 1
    /\ UNCHANGED <<usage, granted, asking, serving, overtaken>>

Next ==
    \/ \E r \in Requests, t \in Tenants :
        Ask(r, t) \/ Reserve(r, t) \/ LetThrough(r, t) \/ Refuse(r, t)
    \/ \E r \in Requests : Serve(r) \/ Finish(r)
    \/ Midnight

Spec == Init /\ [][Next]_quotaVars
=============================================================================
