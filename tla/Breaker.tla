------------------------------ MODULE Breaker ------------------------------
(***************************************************************************)
(* The circuit breaker of one server (src/internal/mcp/breaker.go): what   *)
(* Allow, Success and Failure make of its state.  Each of them is one      *)
(* section under Breaker.mu.                                               *)
(*                                                                         *)
(* Time is reduced to whether the cooldown has passed since openedAt.      *)
(* The failure count is only ever compared with MaxFailures, so it stops   *)
(* there instead of growing while the breaker is open.                     *)
(***************************************************************************)
EXTENDS Naturals

CONSTANTS
    MaxFailures,  \* breakerMaxFailures
    MaxProbes     \* breakerMaxProbes

ASSUME BreakerAssumption ==
    /\ MaxFailures \in Nat \ {0}
    /\ MaxProbes \in Nat \ {0}

Breakers == [state : {"closed", "open", "half-open"},
             failures : 0 .. MaxFailures,
             probes : 0 .. MaxProbes,
             cooled : BOOLEAN]  \* time.Since(openedAt) > breakerCooldown

NewBreaker == [state |-> "closed", failures |-> 0, probes |-> 0, cooled |-> FALSE]

IsClosed(b) == b.state = "closed"
IsOpen(b) == b.state = "open"
IsHalfOpen(b) == b.state = "half-open"

HalfOpened(b) ==
    [state |-> "half-open", failures |-> b.failures, probes |-> 0, cooled |-> FALSE]

\* Does Allow return true?
Admits(b) ==
    \/ IsClosed(b)
    \/ IsOpen(b) /\ b.cooled
    \/ IsHalfOpen(b) /\ b.probes < MaxProbes

\* Variant: a probe admitted in the half-open state is not counted.
AllowedUncounted(b) ==
    IF IsOpen(b) THEN HalfOpened(b) ELSE b

\* Allow when it returns true.  The request that finds the cooldown over is not
\* counted as a probe.
Allowed(b) ==
    CASE IsOpen(b)     -> HalfOpened(b)
      [] IsHalfOpen(b) -> [b EXCEPT !.probes = @ + 1]
      [] OTHER         -> b

\* Variant: the failures counted so far are kept.
SucceededKeeping(b) ==
    [state |-> "closed", failures |-> b.failures, probes |-> b.probes, cooled |-> FALSE]

\* Success: closes the breaker in every state.
Succeeded(b) ==
    [state |-> "closed", failures |-> 0, probes |-> b.probes, cooled |-> FALSE]

\* Does Failure return true: has the breaker just opened?
Trips(b) ==
    \/ IsHalfOpen(b)
    \/ IsClosed(b) /\ b.failures + 1 >= MaxFailures

Count(b) == IF b.failures < MaxFailures THEN b.failures + 1 ELSE b.failures

Failed(b) ==
    IF Trips(b)
    THEN [state |-> "open", failures |-> Count(b), probes |-> b.probes, cooled |-> FALSE]
    ELSE [b EXCEPT !.failures = Count(b)]

\* The cooldown of an open breaker passes.
Cooled(b) == [b EXCEPT !.cooled = TRUE]
=============================================================================
