------------------------------ MODULE Limiter ------------------------------
(***************************************************************************)
(* The token bucket per client address of src/internal/mcp/ratelimit.go,   *)
(* as operators on its state.                                              *)
(*                                                                         *)
(* place[k] is the position of k's entry in RateLimiter.order, 0 at the    *)
(* front; MaxKeys says that k has no entry.  Time is counted in the time a *)
(* bucket takes to earn Rate tokens.                                       *)
(***************************************************************************)
EXTENDS Integers

CONSTANTS
    Keys,      \* the client addresses
    MaxKeys,   \* how many of them have an entry
    Rate,      \* tokens a bucket earns per unit of time
    Burst      \* tokens it holds

ASSUME LimiterAssumption ==
    /\ MaxKeys \in Nat \ {0}
    /\ Rate \in Nat
    /\ Burst \in Nat \ {0}

-----------------------------------------------------------------------------

Limiters == [place : [Keys -> 0 .. MaxKeys], tokens : [Keys -> 0 .. Burst], last : [Keys -> Nat]]

NewLimiter ==
    [place |-> [k \in Keys |-> MaxKeys], tokens |-> [k \in Keys |-> 0], last |-> [k \in Keys |-> 0]]

HasEntry(l, k) == l.place[k] < MaxKeys

\* What k can spend: what is left and what was earned since, or a full bucket.
Available(l, k, now) ==
    LET refilled == l.tokens[k] + Rate * (now - l.last[k]) IN
    IF HasEntry(l, k) /\ refilled < Burst THEN refilled ELSE Burst

Passes(l, k, now) == Available(l, k, now) >= 1

\* Variant: a key with an entry is not moved to the front.
TouchedIfNew(l, k) ==
    [j \in Keys |->
        IF HasEntry(l, k) THEN l.place[j]
        ELSE IF j = k THEN 0
        ELSE IF l.place[j] < MaxKeys THEN l.place[j] + 1
        ELSE l.place[j]]

\* k's entry comes to the front, those before it move back by one, and one that
\* moves past the last place is evicted.
Touched(l, k) ==
    [j \in Keys |->
        IF j = k THEN 0
        ELSE IF l.place[j] < l.place[k] THEN l.place[j] + 1
        ELSE l.place[j]]

\* The limiter after k asked.
Asked(l, k, now) ==
    LET place == Touched(l, k)
        taken == IF Passes(l, k, now) THEN 1 ELSE 0
    IN  [place  |-> place,
         tokens |-> [j \in Keys |->
            IF j = k THEN Available(l, k, now) - taken
            ELSE IF place[j] = MaxKeys THEN 0
            ELSE l.tokens[j]],
         last   |-> [j \in Keys |->
            IF j = k THEN now ELSE IF place[j] = MaxKeys THEN 0 ELSE l.last[j]]]
=============================================================================
