----------------------------- MODULE Discovery -----------------------------
(***************************************************************************)
(* The requests to one server and what they share: its circuit breaker,    *)
(* its tool cache with the single flight that fills it, and its            *)
(* error_status column (src/internal/mcp/aggregator.go).                   *)
(*                                                                         *)
(* A request is a tool call (CallTool), the server's part of one listing   *)
(* (getServerTools for ListTools or buildRouteMap) or a test of the server *)
(* (RefreshServer).                                                        *)
(* An action is one section under Breaker.mu or toolMu, one statement of   *)
(* the database, or one return from the upstream.                          *)
(***************************************************************************)
EXTENDS Breaker, FiniteSets

CONSTANTS
    Requests,   \* the goroutines working for this server, one request at a time
    NoRequest   \* nobody is fetching

ASSUME DiscoveryAssumption ==
    /\ IsFiniteSet(Requests)
    /\ NoRequest \notin Requests

VARIABLES
    breaker,      \* breakers[uuid]
    cache,        \* toolCache[uuid]: absent, within toolCacheTTL, or older
    flight,       \* inflight[uuid], named by the request that fetches
    errorStatus,  \* the error_status column
    pc,           \* where each request is
    kind,         \* what each request is
    probing,      \* history: how many were sent upstream in the current half-open
                  \*   period, the early ones apart
    early         \* history: who was let in before the breaker last opened and has
                  \*   not been sent since

vars == <<breaker, cache, flight, errorStatus, pc, kind, probing, early>>
history == <<probing, early>>

-----------------------------------------------------------------------------

Kinds == {"call", "list", "test", "none"}

Steps == {"done", "lookup", "join", "wait", "fetch", "acquire", "upstream",
          "quarantine", "unquarantine", "store", "land"}

At(r, step) == pc[r] = step
Goto(r, step) ==
    /\ pc' = [pc EXCEPT ![r] = step]
    /\ UNCHANGED kind

\* The requests in S return.
Return(S) ==
    /\ pc' = [r \in Requests |-> IF r \in S THEN "done" ELSE pc[r]]
    /\ kind' = [r \in Requests |-> IF r \in S THEN "none" ELSE kind[r]]

\* Where a request goes when it has its outcome: a listing ends its flight.
Leaves(r) == IF kind[r] = "list" THEN Goto(r, "land") ELSE Return({r})

\* Let in by the breaker, not sent yet.
Acquiring == {r \in Requests : At(r, "acquire")}

\* Replace the breaker; a half-open period may begin or end.
SetBreaker(b) ==
    /\ breaker' = b
    /\ probing' = IF IsHalfOpen(b) THEN probing ELSE 0

Init ==
    /\ breaker = NewBreaker
    /\ cache = "none"
    /\ flight = NoRequest
    /\ errorStatus = "NONE"
    /\ pc = [r \in Requests |-> "done"]
    /\ kind = [r \in Requests |-> "none"]
    /\ probing = 0
    /\ early = {}

-----------------------------------------------------------------------------
(* Arrival                                                                 *)

Arrives(r, k, step) ==
    /\ At(r, "done")
    /\ kind' = [kind EXCEPT ![r] = k]
    /\ pc' = [pc EXCEPT ![r] = step]

\* CallTool asks the breaker; then it acquires a client.
CallAllowed(r) ==
    /\ Admits(breaker)
    /\ Arrives(r, "call", "acquire")
    /\ SetBreaker(Allowed(breaker))
    /\ UNCHANGED <<cache, flight, errorStatus, early>>

\* ListTools asks the breaker before it knows whether it will fetch at all.
ListAllowed(r) ==
    /\ Admits(breaker)
    /\ Arrives(r, "list", "lookup")
    /\ SetBreaker(Allowed(breaker))
    /\ UNCHANGED <<cache, flight, errorStatus, early>>

\* buildRouteMap lists the tools of each server without asking its breaker:
\* before a listing asks, and before a call does when the routes are old.
RouteBegins(r) ==
    /\ Arrives(r, "list", "lookup")
    /\ UNCHANGED <<breaker, cache, flight, errorStatus, history>>

\* RefreshServer fetches at once, beside the single flight.
TestBegins(r) ==
    /\ Arrives(r, "test", "fetch")
    /\ UNCHANGED <<breaker, cache, flight, errorStatus, history>>

\* "circuit open": a call fails fast, a listing leaves the server out.
Refused(r) ==
    /\ At(r, "done")
    /\ ~Admits(breaker)
    /\ UNCHANGED vars

-----------------------------------------------------------------------------
(* getServerTools                                                          *)

Lookup(r) ==
    /\ At(r, "lookup")
    /\ IF cache = "fresh" THEN Return({r}) ELSE Goto(r, "join")
    /\ UNCHANGED <<breaker, cache, flight, errorStatus, history>>

\* Variant: looks for a flight in one section and starts its own in the next.
JoinBlindly(r) ==
    /\ At(r, "join")
    /\ flight' = r
    /\ Goto(r, "fetch")
    /\ UNCHANGED <<breaker, cache, errorStatus, history>>

Join(r) ==
    /\ At(r, "join")
    /\ IF flight = NoRequest
       THEN flight' = r /\ Goto(r, "fetch")
       ELSE Goto(r, "wait") /\ UNCHANGED flight
    /\ UNCHANGED <<breaker, cache, errorStatus, history>>

\* The tools arrived: cache them.
Store(r) ==
    /\ At(r, "store")
    /\ cache' = "fresh"
    /\ Leaves(r)
    /\ UNCHANGED <<breaker, flight, errorStatus, history>>

Waiting == {r \in Requests : At(r, "wait")}

\* Variant: only a fetch that filled the cache ends its flight.
LandIfFresh(r) ==
    /\ At(r, "land")
    /\ IF cache = "fresh"
       THEN Return({r} \cup Waiting) /\ flight' = NoRequest
       ELSE Return({r}) /\ UNCHANGED flight
    /\ UNCHANGED <<breaker, cache, errorStatus, history>>

\* The fetcher's deferred function ends the flight.  Its followers read the
\* cache and return: the fetched tools, stale ones, or an error without any.
Land(r) ==
    /\ At(r, "land")
    /\ flight' = NoRequest
    /\ Return({r} \cup Waiting)
    /\ UNCHANGED <<breaker, cache, errorStatus, history>>

-----------------------------------------------------------------------------
(* fetchServerTools and the upstream part of CallTool                      *)

\* Variant: relies on the question ListTools has asked already.
FetchUnasked(r) ==
    /\ At(r, "fetch")
    /\ SetBreaker(breaker)
    /\ Goto(r, "acquire")
    /\ UNCHANGED <<cache, flight, errorStatus, early>>

\* The fetch asks the breaker, for a listing the second time; then it acquires
\* a client.
FetchAllowed(r) ==
    /\ At(r, "fetch")
    /\ Admits(breaker)
    /\ SetBreaker(Allowed(breaker))
    /\ Goto(r, "acquire")
    /\ UNCHANGED <<cache, flight, errorStatus, early>>

\* "circuit open", or an error before the question: no URL, a blocked address,
\* a credential that cannot be opened.
FetchRefused(r) ==
    /\ At(r, "fetch")
    /\ Leaves(r)
    /\ UNCHANGED <<breaker, cache, flight, errorStatus, history>>

\* A client came from the pool, after a wait for a slot or a connection made
\* anew; the breaker is not asked again before the request is sent.
GoesUpstream(r) ==
    /\ At(r, "acquire")
    /\ probing' = IF IsHalfOpen(breaker) /\ r \notin early THEN probing + 1 ELSE probing
    /\ early' = early \ {r}
    /\ Goto(r, "upstream")
    /\ UNCHANGED <<breaker, cache, flight, errorStatus>>

Succeed(r) ==
    /\ At(r, "upstream")
    /\ SetBreaker(Succeeded(breaker))
    /\ Goto(r, "unquarantine")
    /\ UNCHANGED <<cache, flight, errorStatus, early>>

\* No client (a full pool counts too), an error answer, or a timeout.
Fail(r) ==
    /\ At(r, "acquire") \/ At(r, "upstream")
    /\ SetBreaker(Failed(breaker))
    /\ IF Trips(breaker)
       THEN Goto(r, "quarantine") /\ early' = Acquiring \ {r}
       ELSE Leaves(r) /\ early' = early \ {r}
    /\ UNCHANGED <<cache, flight, errorStatus>>

\* The downstream client went away: the breaker hears nothing.
ClientGone(r) ==
    /\ At(r, "acquire") \/ At(r, "upstream")
    /\ early' = early \ {r}
    /\ Leaves(r)
    /\ UNCHANGED <<breaker, cache, flight, errorStatus, probing>>

\* quarantine writes after the breaker's lock is gone; the write may fail.
Quarantine(r) ==
    /\ At(r, "quarantine")
    /\ errorStatus' \in {errorStatus, "ERROR"}
    /\ Leaves(r)
    /\ UNCHANGED <<breaker, cache, flight, history>>

Unquarantine(r) ==
    /\ At(r, "unquarantine")
    /\ errorStatus' \in {errorStatus, "NONE"}
    /\ IF kind[r] = "call" THEN Return({r}) ELSE Goto(r, "store")
    /\ UNCHANGED <<breaker, cache, flight, history>>

-----------------------------------------------------------------------------
(* Time                                                                    *)

CooldownPasses ==
    /\ IsOpen(breaker)
    /\ ~breaker.cooled
    /\ breaker' = Cooled(breaker)
    /\ UNCHANGED <<cache, flight, errorStatus, pc, kind, history>>

CacheExpires ==
    /\ cache = "fresh"
    /\ cache' = "stale"
    /\ UNCHANGED <<breaker, flight, errorStatus, pc, kind, history>>

-----------------------------------------------------------------------------

\* What a request does once it has been let in.
Proceed(r) ==
    \/ Lookup(r) \/ Join(r) \/ FetchAllowed(r) \/ FetchRefused(r)
    \/ GoesUpstream(r) \/ Succeed(r) \/ Fail(r) \/ ClientGone(r)
    \/ Quarantine(r) \/ Unquarantine(r) \/ Store(r) \/ Land(r)

Next ==
    \/ \E r \in Requests :
        \/ CallAllowed(r) \/ ListAllowed(r) \/ RouteBegins(r) \/ TestBegins(r)
        \/ Refused(r) \/ Proceed(r)
    \/ CooldownPasses
    \/ CacheExpires

Spec == Init /\ [][Next]_vars

\* The wait for a client and the calls upstream are bounded by timeouts, the writes by
\* bookkeepingTimeout.
\* Nothing obliges a client to send a request.
Fairness == \A r \in Requests : WF_vars(Proceed(r))

FairSpec == Spec /\ Fairness

\* Time passes, and clients keep calling the server's tools.
BusySpec ==
    /\ FairSpec
    /\ WF_vars(CooldownPasses)
    /\ WF_vars(CacheExpires)
    /\ WF_vars(\E r \in Requests : CallAllowed(r))

-----------------------------------------------------------------------------
(* Properties                                                              *)

TypeOK ==
    /\ breaker \in Breakers
    /\ cache \in {"none", "fresh", "stale"}
    /\ flight \in Requests \cup {NoRequest}
    /\ errorStatus \in {"NONE", "ERROR"}
    /\ pc \in [Requests -> Steps]
    /\ kind \in [Requests -> Kinds]
    /\ probing \in Nat
    /\ early \in SUBSET Requests

\* The breaker is closed exactly while fewer than MaxFailures failures were
\* reported since the last success (breaker.go:70-89), although reports of
\* requests let in long before may come in any state and in any order.
TripsAtMax == IsClosed(breaker) <=> breaker.failures < MaxFailures

\* Of the requests let in since the breaker last opened, at most MaxProbes + 1 are
\* sent to the upstream while it is half-open, however many calls, listings and tests
\* ask it and however long each of them acquires its client (breaker.go:37-58): the
\* one that finds the cooldown over, uncounted, and MaxProbes more, where the comment
\* of breaker.go:12-14 has one.  Those let in before it opened come on top.
FewProbes == IsHalfOpen(breaker) => probing <= MaxProbes + 1

Sent == {r \in Requests : At(r, "upstream")}

\* While the breaker is open (breaker.go:11), a request is sent to the upstream only if
\* it was past its last question when the breaker opened, and was acquiring its client:
\* no later call, and no listing or test that was let in before but asks again.
FailFast == IsOpen(breaker) => Sent' \ Sent \subseteq early
FailsFast == [][FailFast]_vars

Fetching == {"fetch", "acquire", "upstream", "quarantine", "unquarantine", "store", "land"}

\* One fetch per server at a time (aggregator.go:488): at most one listing
\* fetches, it is the one in flight, and whoever waits, waits for it.
OneFlight ==
    /\ \A r \in Requests : kind[r] = "list" /\ pc[r] \in Fetching <=> flight = r
    /\ \A r \in Requests : At(r, "wait") => flight # NoRequest

\* Every request ends, whatever happens to the request whose fetch it waits for.
RequestEnds == \A r \in Requests : ~At(r, "done") ~> At(r, "done")

\* "half-open: after cooldown, one probe request is allowed; success closes the
\* circuit, failure reopens it" (breaker.go:12-13): half-open is left again.
ProbeResolves == IsHalfOpen(breaker) ~> ~IsHalfOpen(breaker)
=============================================================================
