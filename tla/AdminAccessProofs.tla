-------------------------- MODULE AdminAccessProofs --------------------------
(***************************************************************************)
(* Theorems about AdminAccess, for any number of requests, keys, sessions  *)
(* and users, and any durations.                                           *)
(***************************************************************************)
EXTENDS AdminAccess, TLAPS

USE AdminAssumption

-----------------------------------------------------------------------------
(* Types                                                                   *)

\* Only a request with a cookie is looked up, only one with a token is verified.
HasCookie ==
    \A r \in Requests :
        /\ At(r, "cookie") => token[r] \in Tokens
        /\ pc[r] \in {"verify", "fetch", "answered", "decide"} => kid[r] \in Kids

TypeInv == TypeOK /\ HasCookie

LEMMA TypeInit == Init => TypeInv
  <1>. SUFFICES ASSUME Init PROVE TypeInv
    OBVIOUS
  <1>1. apiKey \in [ApiKeys -> ApiKey]
    <2>1. PICK owner \in [ApiKeys -> FirstOwners] : apiKey = [k \in ApiKeys |-> FirstRow(k, owner[k])]
      BY Zenon DEF Init
    <2>2. \A k \in ApiKeys : \A o \in FirstOwners : FirstRow(k, o) \in ApiKey
      BY DEF FirstOwners, FirstRow, ApiKey, Owners
    <2>. QED
      BY <2>1, <2>2
  <1>2. session \in [Tokens -> Session] /\ team \in [Kids -> Publication]
    BY DEF Init, NoSession, Session, Publication, Owners
  <1>3. /\ pc \in [Requests -> Steps]
        /\ token \in [Requests -> Tokens \cup {None}]
        /\ kid \in [Requests -> Kids \cup {None}]
        /\ who \in [Requests -> Owners]
        /\ at \in [Requests -> 0 .. LastNow]
        /\ HasCookie
    BY DEF Init, Steps, Owners, HasCookie, At
  <1>4. /\ now \in 1 .. LastNow /\ fetchedAt \in 0 .. LastNow /\ refetched \in 0 .. LastNow
        /\ started \in 0 .. LastNow /\ keys \subseteq Kids /\ answer \subseteq Kids /\ failed \in BOOLEAN
    <2>1. now = 1 /\ fetchedAt = 0 /\ refetched = 0 /\ started = 0 /\ keys = {} /\ answer = {} /\ failed = FALSE
      BY Zenon DEF Init
    <2>2. 1 \in 1 .. LastNow /\ 0 \in 0 .. LastNow
      OBVIOUS
    <2>. QED
      BY <2>1, <2>2, Zenon
  <1>5. TypeOK
    BY <1>1, <1>2, <1>3, <1>4, Zenon DEF TypeOK
  <1>. QED
    BY <1>3, <1>5 DEF TypeInv

\* What a request that becomes an identity leaves well typed.
LEMMA BecomeType ==
    ASSUME TypeOK, NEW r \in Requests, NEW s \in Steps, NEW o \in Owners, Become(r, s, o)
    PROVE  /\ pc' \in [Requests -> Steps]
           /\ token' \in [Requests -> Tokens \cup {None}]
           /\ kid' \in [Requests -> Kids \cup {None}]
           /\ who' \in [Requests -> Owners]
           /\ at' \in [Requests -> 0 .. LastNow]
  BY DEF TypeOK, Become, Goto

LEMMA LeaveType ==
    ASSUME TypeOK, NEW r \in Requests, Leave(r)
    PROVE  /\ pc' \in [Requests -> Steps]
           /\ token' \in [Requests -> Tokens \cup {None}]
           /\ kid' \in [Requests -> Kids \cup {None}]
           /\ who' \in [Requests -> Owners]
           /\ at' \in [Requests -> 0 .. LastNow]
  BY BecomeType DEF Leave, Steps, Owners

LEMMA TypeStep == TypeInv /\ [Next]_vars => TypeOK'
  <1>. SUFFICES ASSUME TypeOK, HasCookie, [Next]_vars PROVE TypeOK'
    BY DEF TypeInv
  <1>. USE DEF request, cache, fetch
  <1>1. ASSUME NEW r \in Requests, NEW k \in ApiKeys, Login(r, k) PROVE TypeOK'
    <2>1. Become(r, "login", apiKey[k].owner) /\ apiKey[k].owner \in Owners /\ "login" \in Steps
      BY <1>1 DEF Login, TypeOK, ApiKey, Steps
    <2>2. UNCHANGED <<now, apiKey, session, team, cache, fetch>>
      BY <1>1 DEF Login
    <2>. QED
      BY <2>1, <2>2, BecomeType DEF TypeOK
  <1>2. ASSUME NEW r \in Requests, NEW t \in Tokens, Create(r, t) PROVE TypeOK'
    <2>1. Leave(r) /\ UNCHANGED <<now, apiKey, team, cache, fetch>>
      BY <1>2 DEF Create
    <2>2. session' \in [Tokens -> Session]
      BY <1>2 DEF Create, TypeOK, Session
    <2>. QED
      BY <2>1, <2>2, LeaveType DEF TypeOK
  <1>3. ASSUME NEW r \in Requests, NEW t \in Tokens, NEW i \in Kids \cup {None}, ArriveWithCookie(r, t, i)
        PROVE  TypeOK'
    BY <1>3 DEF ArriveWithCookie, TypeOK, Goto, Steps
  <1>4. ASSUME NEW r \in Requests, NEW i \in Kids, ArriveWithToken(r, i) PROVE TypeOK'
    BY <1>4 DEF ArriveWithToken, TypeOK, Goto, Steps
  <1>5. ASSUME NEW r \in Requests, Lookup(r) PROVE TypeOK'
    <2>1. token[r] \in Tokens
      BY <1>5 DEF Lookup, HasCookie
    <2>2. session[token[r]].owner \in Owners
      BY <1>5, <2>1 DEF Lookup, TypeOK, Session
    <2>. QED
      BY <1>5, <2>2, BecomeType DEF Lookup, Steps, TypeOK
  <1>6. ASSUME NEW r \in Requests, LookupGone(r) PROVE TypeOK'
    <2>1. CASE Leave(r)
      BY <1>6, <2>1, LeaveType DEF LookupGone, TypeOK
    <2>2. CASE Goto(r, "verify") /\ token' = [token EXCEPT ![r] = None] /\ UNCHANGED <<kid, who, at>>
      BY <1>6, <2>2 DEF LookupGone, TypeOK, Goto, Steps
    <2>. QED
      BY <1>6, <2>1, <2>2 DEF LookupGone
  <1>7. ASSUME NEW r \in Requests, KeyFor(r) PROVE TypeOK'
    BY <1>7 DEF KeyFor, TypeOK, Goto, Steps
  <1>8. ASSUME NEW r \in Requests, Answer(r) PROVE TypeOK'
    BY <1>8 DEF Answer, TypeOK, Goto, Steps, Published
  <1>9. ASSUME NEW r \in Requests, Fetched(r) PROVE TypeOK'
    BY <1>9 DEF Fetched, TypeOK, Goto, Steps
  <1>10. ASSUME NEW r \in Requests, FetchFailed(r) PROVE TypeOK'
    <2>1. CASE Leave(r)
      BY <1>10, <2>1, LeaveType DEF FetchFailed, TypeOK
    <2>2. CASE Goto(r, "decide") /\ UNCHANGED request
      BY <1>10, <2>2 DEF FetchFailed, TypeOK, Goto, Steps
    <2>. QED
      BY <1>10, <2>1, <2>2 DEF FetchFailed
  <1>11. ASSUME NEW r \in Requests, Accept(r) PROVE TypeOK'
    BY <1>11, BecomeType DEF Accept, TypeOK, Steps, Owners
  <1>12. ASSUME NEW r \in Requests, RefuseKid(r) \/ RefuseToken(r) \/ Done(r) PROVE TypeOK'
    BY <1>12, LeaveType DEF RefuseKid, RefuseToken, Done, TypeOK
  <1>13. ASSUME NEW r \in Requests, NEW k \in ApiKeys, NEW b \in BOOLEAN, MintKey(r, k, b) \/ SetKey(r, k, b)
         PROVE  TypeOK'
    <2>1. Leave(r) /\ UNCHANGED <<now, session, team, cache, fetch>>
      BY <1>13 DEF MintKey, SetKey
    <2>2. \E row \in ApiKey : apiKey' = [apiKey EXCEPT ![k] = row]
      <3>1. apiKey[k].admin \in BOOLEAN /\ apiKey[k].owner \in Owners /\ who[r] \in Owners
        BY DEF TypeOK, ApiKey
      <3>2. (b /\ who[r] = Root) \in BOOLEAN
        OBVIOUS
      <3>3. [minted |-> TRUE, active |-> TRUE, admin |-> b /\ who[r] = Root, owner |-> who[r]] \in ApiKey
        BY <3>1, <3>2, Zenon DEF ApiKey
      <3>4. [minted |-> TRUE, active |-> b, admin |-> apiKey[k].admin, owner |-> apiKey[k].owner] \in ApiKey
        BY <3>1, Zenon DEF ApiKey
      <3>. QED
        BY <1>13, <3>3, <3>4, Zenon DEF MintKey, SetKey
    <2>3. apiKey' \in [ApiKeys -> ApiKey]
      BY <2>2 DEF TypeOK
    <2>. QED
      BY <2>1, <2>3, LeaveType DEF TypeOK
  <1>14. ASSUME NEW t \in Tokens, Destroy(t) PROVE TypeOK'
    BY <1>14 DEF Destroy, TypeOK, NoSession, Session, Owners
  <1>15. ASSUME NEW k \in ApiKeys, NEW u \in Users, DashboardMints(k, u) PROVE TypeOK'
    BY <1>15 DEF DashboardMints, TypeOK, ApiKey, Owners
  <1>16. ASSUME NEW i \in Kids, Rotate(i) PROVE TypeOK'
    BY <1>16 DEF Rotate, TypeOK, Publication
  <1>17. CASE Tick
    BY <1>17 DEF Tick, TypeOK
  <1>18. CASE UNCHANGED vars
    BY <1>18 DEF vars, TypeOK
  <1>. QED
    BY <1>1, <1>2, <1>3, <1>4, <1>5, <1>6, <1>7, <1>8, <1>9, <1>10, <1>11, <1>12, <1>13, <1>14, <1>15,
       <1>16, <1>17, <1>18 DEF Next, Proceed

LEMMA CookieStep == TypeInv /\ [Next]_vars => HasCookie'
  <1>. SUFFICES ASSUME TypeOK, HasCookie, [Next]_vars PROVE HasCookie'
    BY DEF TypeInv
  <1>. USE DEF request, cache, fetch, HasCookie, TypeOK, At, Goto, Become, Leave
  <1>1. ASSUME NEW r \in Requests, Proceed(r) PROVE HasCookie'
    <2>1. CASE \E t \in Tokens, i \in Kids \cup {None} : ArriveWithCookie(r, t, i)
      BY <2>1 DEF ArriveWithCookie
    <2>2. CASE \/ \E k \in ApiKeys : Login(r, k)
               \/ \E t \in Tokens : Create(r, t)
               \/ \E i \in Kids : ArriveWithToken(r, i)
               \/ Lookup(r) \/ LookupGone(r)
      BY <2>2 DEF Login, Create, ArriveWithToken, Lookup, LookupGone
    <2>3. CASE KeyFor(r) \/ Answer(r) \/ Fetched(r) \/ FetchFailed(r)
      BY <2>3 DEF KeyFor, Answer, Fetched, FetchFailed
    <2>4. CASE \/ Accept(r) \/ RefuseKid(r) \/ RefuseToken(r) \/ Done(r)
               \/ \E k \in ApiKeys, b \in BOOLEAN : MintKey(r, k, b) \/ SetKey(r, k, b)
      BY <2>4 DEF Accept, RefuseKid, RefuseToken, Done, MintKey, SetKey
    <2>. QED
      BY <1>1, <2>1, <2>2, <2>3, <2>4 DEF Proceed
  <1>2. CASE \/ \E t \in Tokens : Destroy(t)
             \/ \E k \in ApiKeys, u \in Users : DashboardMints(k, u)
             \/ \E i \in Kids : Rotate(i)
             \/ Tick \/ UNCHANGED vars
    BY <1>2 DEF Destroy, DashboardMints, Rotate, Tick, vars
  <1>. QED
    BY <1>1, <1>2 DEF Next

LEMMA TypesHold == Spec => []TypeInv
  <1>1. TypeInv /\ [Next]_vars => TypeInv'
    BY TypeStep, CookieStep DEF TypeInv
  <1>. QED
    BY TypeInit, <1>1, PTL DEF Spec

\* Every variable keeps its type; a verifier's times are times that have been.
THEOREM AdminTypes == Spec => []TypeOK
  BY TypesHold, PTL DEF TypeInv

-----------------------------------------------------------------------------
(* Who is an admin                                                         *)

\* A step that makes no key, session or identity but root's keeps OnlyOperators.
LEMMA OperatorsQuiet ==
    ASSUME TypeOK, OnlyOperators, UNCHANGED <<apiKey, session>>,
           \A r \in Requests : pc'[r] \in {"login", "serving"} =>
                \/ who'[r] \in {Root, Operator}
                \/ pc[r] \in {"login", "serving"} /\ who'[r] = who[r]
    PROVE  OnlyOperators'
  BY DEF OnlyOperators

LEMMA OperatorsInit == Init => OnlyOperators
  <1>. SUFFICES ASSUME Init PROVE OnlyOperators
    OBVIOUS
  <1>1. \A k \in ApiKeys : \A o \in FirstOwners :
            /\ FirstRow(k, o).minted => k \in FirstKeys
            /\ FirstRow(k, o).owner \in {Root, Operator}
    BY DEF FirstRow, FirstOwners
  <1>2. PICK owner \in [ApiKeys -> FirstOwners] : apiKey = [k \in ApiKeys |-> FirstRow(k, owner[k])]
    BY Zenon DEF Init
  <1>3. \A k \in ApiKeys :
            apiKey[k].minted => k \in FirstKeys /\ apiKey[k].owner \in {Root, Operator}
    BY <1>1, <1>2
  <1>4. \A t \in Tokens : ~session[t].live
    BY DEF Init, NoSession
  <1>5. \A r \in Requests : pc[r] = "away"
    BY DEF Init
  <1>. QED
    BY <1>3, <1>4, <1>5 DEF OnlyOperators

LEMMA OperatorsStep == TypeInv /\ OnlyOperators /\ [Next]_vars => OnlyOperators'
  <1>. SUFFICES ASSUME TypeOK, HasCookie, OnlyOperators, [Next]_vars PROVE OnlyOperators'
    BY DEF TypeInv
  <1>. USE DEF request, cache, fetch, At, Goto, Become, Leave
  <1>1. ASSUME NEW r \in Requests, Proceed(r) PROVE OnlyOperators'
    <2>1. ASSUME NEW k \in ApiKeys, Login(r, k) PROVE OnlyOperators'
      <3>1. apiKey[k].owner \in {Root, Operator}
        BY <2>1 DEF Login, OnlyOperators
      <3>. QED
        BY <2>1, <3>1, OperatorsQuiet DEF Login, TypeOK
    <2>2. ASSUME NEW t \in Tokens, Create(r, t) PROVE OnlyOperators'
      BY <2>2 DEF Create, TypeOK, OnlyOperators
    <2>3. CASE \/ \E t \in Tokens, i \in Kids \cup {None} : ArriveWithCookie(r, t, i)
               \/ \E i \in Kids : ArriveWithToken(r, i)
      BY <2>3, OperatorsQuiet DEF ArriveWithCookie, ArriveWithToken, TypeOK
    <2>4. CASE Lookup(r)
      <3>1. session[token[r]].owner \in {Root, Operator}
        BY <2>4 DEF Lookup, OnlyOperators, HasCookie
      <3>. QED
        BY <2>4, <3>1, OperatorsQuiet DEF Lookup, TypeOK
    <2>5. CASE LookupGone(r) \/ KeyFor(r) \/ Answer(r) \/ Fetched(r) \/ FetchFailed(r)
      BY <2>5, OperatorsQuiet DEF LookupGone, KeyFor, Answer, Fetched, FetchFailed, TypeOK
    <2>6. CASE Accept(r) \/ RefuseKid(r) \/ RefuseToken(r) \/ Done(r)
      BY <2>6, OperatorsQuiet DEF Accept, RefuseKid, RefuseToken, Done, TypeOK
    <2>7. ASSUME NEW k \in ApiKeys, NEW b \in BOOLEAN, MintKey(r, k, b) PROVE OnlyOperators'
      <3>1. UNCHANGED session
        BY <2>7 DEF MintKey
      <3>2. (apiKey'[k].admin => apiKey'[k].owner = Root) /\ \A j \in ApiKeys \ {k} : apiKey'[j] = apiKey[j]
        BY <2>7, <3>1 DEF MintKey, TypeOK
      <3>3. \A q \in Requests : pc'[q] \in {"login", "serving"} =>
                pc[q] \in {"login", "serving"} /\ who'[q] = who[q]
        BY <2>7 DEF MintKey, TypeOK
      <3>. QED
        BY <3>1, <3>2, <3>3 DEF OnlyOperators
    <2>8. ASSUME NEW k \in ApiKeys, NEW b \in BOOLEAN, SetKey(r, k, b) PROVE OnlyOperators'
      <3>1. apiKey'[k].owner = apiKey[k].owner /\ apiKey'[k].admin = apiKey[k].admin
            /\ apiKey[k].minted /\ (\A j \in ApiKeys \ {k} : apiKey'[j] = apiKey[j]) /\ UNCHANGED session
        BY <2>8 DEF SetKey, TypeOK
      <3>2. \A q \in Requests : pc'[q] \in {"login", "serving"} =>
                pc[q] \in {"login", "serving"} /\ who'[q] = who[q]
        BY <2>8 DEF SetKey, TypeOK
      <3>. QED
        BY <3>1, <3>2 DEF OnlyOperators
    <2>. QED
      BY <1>1, <2>1, <2>2, <2>3, <2>4, <2>5, <2>6, <2>7, <2>8 DEF Proceed
  <1>2. ASSUME NEW t \in Tokens, Destroy(t) PROVE OnlyOperators'
    BY <1>2 DEF Destroy, TypeOK, OnlyOperators, NoSession
  <1>3. ASSUME NEW k \in ApiKeys, NEW u \in Users, DashboardMints(k, u) PROVE OnlyOperators'
    BY <1>3 DEF DashboardMints, TypeOK, OnlyOperators
  <1>4. CASE (\E i \in Kids : Rotate(i)) \/ Tick \/ UNCHANGED vars
    BY <1>4, OperatorsQuiet DEF Rotate, Tick, vars
  <1>. QED
    BY <1>1, <1>2, <1>3, <1>4 DEF Next

\* Only root mints admin keys, and every admin key, every session and every admitted
\* request is root's or, by a key the migrations left (0003), the operator's own user's
\* (ui.go:378-383).
THEOREM OperatorsAreAdmins == Spec => []OnlyOperators
  BY TypesHold, OperatorsInit, OperatorsStep, PTL DEF Spec

-----------------------------------------------------------------------------
(* The verifier's keys                                                     *)

Holding == {"fetch", "answered", "decide"}

\* Verifier.mu is held once, and by a request that looked at the clock.
Locked ==
    /\ \A q, r \in Requests : pc[q] \in Holding /\ pc[r] \in Holding => q = r
    /\ \A r \in Requests : pc[r] \in Holding => at[r] <= now /\ at[r] >= 1

\* The verifier's times are in order, and know of every fetch but one under way.
Times ==
    /\ fetchedAt <= refetched /\ refetched <= started /\ started <= now
    /\ \A i \in Kids : team[i].since <= now
    /\ \A r \in Requests : pc[r] \in {"fetch", "answered"} => started = at[r]
    /\ (\A r \in Requests : pc[r] \notin {"fetch", "answered"}) => started = refetched
    /\ ~failed => fetchedAt = refetched /\ (refetched # 0 => keys # {})

\* What a key set K that was read no earlier than n says of the team today.
SetOf(K, n) ==
    \A i \in Kids :
        /\ i \in K => team[i].on \/ team[i].since >= n
        /\ i \notin K /\ team[i].on => team[i].since >= n

Cached ==
    /\ keys # {} => SetOf(keys, fetchedAt)
    /\ \A r \in Requests : At(r, "answered") => SetOf(answer, at[r])

\* What keyFor knows when it has the keys it will decide by.
Decided ==
    \A r \in Requests : At(r, "decide") /\ ~failed =>
        /\ keys # {}
        /\ kid[r] \in keys => at[r] - fetchedAt <= TTL
        /\ kid[r] \notin keys => at[r] - refetched < Cooldown

KeyInv == Locked /\ Times /\ Cached /\ Decided

LEMMA KeyInit == Init => KeyInv
  <1>. SUFFICES ASSUME Init PROVE KeyInv
    OBVIOUS
  <1>1. \A r \in Requests : pc[r] = "away"
    BY Zenon DEF Init
  <1>2. now = 1 /\ fetchedAt = 0 /\ refetched = 0 /\ started = 0 /\ keys = {}
    BY Zenon DEF Init
  <1>3. \A i \in Kids : team[i].since = 0
    <2>1. team = [i \in Kids |-> [on |-> FALSE, since |-> 0]]
      BY Zenon DEF Init
    <2>. QED
      BY <2>1
  <1>. QED
    BY <1>1, <1>2, <1>3 DEF KeyInv, Locked, Times, Cached, Decided, Holding, At

\* Steps of requests that do not hold the lock, or release it.
LEMMA KeyQuiet ==
    ASSUME KeyInv, UNCHANGED <<now, team, keys, fetchedAt, refetched, failed, answer, started>>,
           \A r \in Requests : pc'[r] \in Holding =>
                pc[r] = pc'[r] /\ at'[r] = at[r] /\ kid'[r] = kid[r],
           \A r \in Requests : pc[r] \in {"fetch", "answered"} => pc'[r] = pc[r]
    PROVE  KeyInv'
  <1>1. Locked'
    BY DEF KeyInv, Locked
  <1>2. Times'
    BY DEF KeyInv, Times, Holding
  <1>3. Cached'
    BY DEF KeyInv, Cached, SetOf, At, Holding
  <1>4. Decided'
    BY DEF KeyInv, Decided, At, Holding
  <1>. QED
    BY <1>1, <1>2, <1>3, <1>4 DEF KeyInv

LEMMA KeyForKeeps ==
    ASSUME TypeInv, KeyInv, NEW r \in Requests, KeyFor(r) PROVE KeyInv'
  <1>. USE DEF TypeInv, TypeOK, KeyFor, Goto, At, cache
  <1>1. /\ \A q \in Requests : pc[q] \notin Holding
        /\ \A q \in Requests \ {r} : pc'[q] = pc[q]
        /\ at'[r] = now /\ pc'[r] \in {"fetch", "decide"}
        /\ UNCHANGED <<now, team, keys, fetchedAt, refetched, failed, answer, kid>>
    BY DEF Unlocked, Holding
  <1>2. Locked'
    BY <1>1 DEF Locked
  <1>3. started = refetched
    BY <1>1 DEF KeyInv, Times, Holding
  <1>4. started' = IF pc'[r] = "fetch" THEN now ELSE started
    OBVIOUS
  <1>5. Times'
    BY <1>1, <1>3, <1>4 DEF KeyInv, Times, Holding
  <1>6. Cached'
    BY <1>1 DEF KeyInv, Cached, SetOf, Holding
  <1>7. ASSUME pc'[r] = "decide", ~failed
        PROVE  /\ keys # {}
               /\ kid[r] \in keys => now - fetchedAt <= TTL
               /\ kid[r] \notin keys => now - refetched < Cooldown
    <2>1. ~(Wanted(kid[r], now) /\ Allowed(now))
      BY <1>7
    <2>2. fetchedAt = refetched /\ (refetched # 0 => keys # {})
      BY <1>7 DEF KeyInv, Times
    <2>3. now \in Nat /\ fetchedAt \in Nat /\ refetched \in Nat
      OBVIOUS
    <2>. HIDE DEF TypeInv, TypeOK, KeyFor, Goto, At
    <2>. QED
      BY <2>1, <2>2, <2>3 DEF Wanted, Allowed
  <1>8. Decided'
    BY <1>1, <1>7 DEF Decided, Holding
  <1>. QED
    BY <1>2, <1>5, <1>6, <1>8 DEF KeyInv

LEMMA AnswerKeeps ==
    ASSUME TypeInv, KeyInv, NEW r \in Requests, Answer(r) PROVE KeyInv'
  <1>. USE DEF TypeInv, TypeOK, Answer, Goto, At, cache, request
  <1>1. /\ pc[r] = "fetch" /\ pc'[r] = "answered" /\ \A q \in Requests \ {r} : pc'[q] = pc[q]
        /\ UNCHANGED <<now, team, keys, fetchedAt, refetched, failed, started, kid, at>>
        /\ answer' = Published
    OBVIOUS
  <1>2. \A q \in Requests \ {r} : pc[q] \notin Holding
    BY <1>1 DEF KeyInv, Locked, Holding
  <1>3. Locked' /\ Times' /\ Decided'
    BY <1>1, <1>2 DEF KeyInv, Locked, Times, Decided, Holding
  <1>4. SetOf(answer, at[r])'
    BY <1>1 DEF SetOf, Published
  <1>5. Cached'
    BY <1>1, <1>2, <1>4 DEF KeyInv, Cached, SetOf, Holding
  <1>. QED
    BY <1>3, <1>5 DEF KeyInv

LEMMA FetchedKeeps ==
    ASSUME TypeInv, KeyInv, NEW r \in Requests, Fetched(r) PROVE KeyInv'
  <1>. USE DEF TypeInv, TypeOK, Fetched, Goto, At, request
  <1>1. /\ pc[r] = "answered" /\ pc'[r] = "decide" /\ \A q \in Requests \ {r} : pc'[q] = pc[q]
        /\ UNCHANGED <<now, team, started, kid, at>>
        /\ keys' = answer /\ answer # {} /\ fetchedAt' = at[r] /\ refetched' = at[r] /\ failed' = FALSE
    OBVIOUS
  <1>2. \A q \in Requests \ {r} : pc[q] \notin Holding
    BY <1>1 DEF KeyInv, Locked, Holding
  <1>3. at[r] <= now /\ at[r] \in Nat /\ started = at[r]
    BY <1>1 DEF KeyInv, Locked, Times, Holding
  <1>4. Locked'
    BY <1>1, <1>2 DEF KeyInv, Locked, Holding
  <1>5. Times'
    BY <1>1, <1>2, <1>3 DEF KeyInv, Times, Holding
  <1>6. Cached'
    BY <1>1, <1>2 DEF KeyInv, Cached, SetOf, Holding
  <1>7. Decided'
    BY <1>1, <1>2, <1>3 DEF Decided, Holding
  <1>. QED
    BY <1>4, <1>5, <1>6, <1>7 DEF KeyInv

LEMMA FetchFailedKeeps ==
    ASSUME TypeInv, KeyInv, NEW r \in Requests, FetchFailed(r) PROVE KeyInv'
  <1>. USE DEF TypeInv, TypeOK, FetchFailed, Goto, At, Leave, Become, request
  <1>1. /\ pc[r] \in {"fetch", "answered"} /\ pc'[r] \in {"away", "decide"}
        /\ \A q \in Requests \ {r} : pc'[q] = pc[q] /\ at'[q] = at[q] /\ kid'[q] = kid[q]
        /\ pc'[r] = "decide" => at'[r] = at[r]
        /\ UNCHANGED <<now, team, keys, fetchedAt, started>>
        /\ refetched' = at[r] /\ failed' = TRUE
    OBVIOUS
  <1>2. \A q \in Requests \ {r} : pc[q] \notin Holding
    BY <1>1 DEF KeyInv, Locked, Holding
  <1>3. at[r] <= now /\ at[r] \in Nat /\ started = at[r]
    BY <1>1 DEF KeyInv, Locked, Times, Holding
  <1>4. Locked'
    BY <1>1, <1>2 DEF KeyInv, Locked, Holding
  <1>5. Times'
    BY <1>1, <1>2, <1>3 DEF KeyInv, Times, Holding
  <1>6. Cached'
    BY <1>1, <1>2 DEF KeyInv, Cached, SetOf, Holding
  <1>7. Decided'
    BY <1>1 DEF Decided
  <1>. QED
    BY <1>4, <1>5, <1>6, <1>7 DEF KeyInv

LEMMA KeyStep == TypeInv /\ KeyInv /\ [Next]_vars => KeyInv'
  <1>. SUFFICES ASSUME TypeInv, KeyInv, [Next]_vars PROVE KeyInv'
    OBVIOUS
  <1>. USE DEF request, cache, fetch, At, Goto, Become, Leave, Holding
  <1>1. ASSUME NEW r \in Requests, Proceed(r) PROVE KeyInv'
    <2>1. CASE \/ \E k \in ApiKeys : Login(r, k)
               \/ \E t \in Tokens : Create(r, t)
               \/ \E t \in Tokens, i \in Kids \cup {None} : ArriveWithCookie(r, t, i)
               \/ \E i \in Kids : ArriveWithToken(r, i)
      BY <2>1, KeyQuiet DEF Login, Create, ArriveWithCookie, ArriveWithToken, TypeInv, TypeOK
    <2>2. CASE Lookup(r) \/ LookupGone(r)
      BY <2>2, KeyQuiet DEF Lookup, LookupGone, TypeInv, TypeOK
    <2>3. CASE \/ Accept(r) \/ RefuseKid(r) \/ RefuseToken(r) \/ Done(r)
               \/ \E k \in ApiKeys, b \in BOOLEAN : MintKey(r, k, b) \/ SetKey(r, k, b)
      BY <2>3, KeyQuiet DEF Accept, RefuseKid, RefuseToken, Done, MintKey, SetKey, TypeInv, TypeOK
    <2>. QED
      BY <1>1, <2>1, <2>2, <2>3, KeyForKeeps, AnswerKeeps, FetchedKeeps, FetchFailedKeeps DEF Proceed
  <1>2. CASE \/ \E t \in Tokens : Destroy(t)
             \/ \E k \in ApiKeys, u \in Users : DashboardMints(k, u)
             \/ UNCHANGED vars
    BY <1>2, KeyQuiet DEF Destroy, DashboardMints, vars
  <1>3. ASSUME NEW i \in Kids, Rotate(i) PROVE KeyInv'
    <2>1. /\ team'[i].on = ~team[i].on /\ team'[i].since = now
          /\ \A j \in Kids \ {i} : team'[j] = team[j]
          /\ UNCHANGED <<now, pc, at, kid, keys, fetchedAt, refetched, failed, answer, started>>
      BY <1>3 DEF Rotate, TypeInv, TypeOK
    <2>2. now \in Nat
      BY DEF TypeInv, TypeOK
    <2>3. Locked' /\ Times' /\ Decided'
      BY <2>1, <2>2 DEF KeyInv, Locked, Times, Decided
    <2>4. ASSUME NEW K, NEW n \in Nat, n <= now, SetOf(K, n) PROVE SetOf(K, n)'
      BY <2>1, <2>2, <2>4 DEF SetOf
    <2>5. fetchedAt \in Nat /\ fetchedAt <= now /\ \A r \in Requests : pc[r] = "answered" => at[r] \in Nat /\ at[r] <= now
      BY DEF KeyInv, Locked, Times, TypeInv, TypeOK
    <2>6. Cached'
      BY <2>1, <2>4, <2>5 DEF KeyInv, Cached
    <2>. QED
      BY <2>3, <2>6 DEF KeyInv
  <1>4. CASE Tick
    <2>1. now' = now + 1 /\ now \in Nat /\ UNCHANGED <<team, pc, at, kid, keys, fetchedAt, refetched, failed, answer, started>>
      BY <1>4 DEF Tick, TypeInv, TypeOK
    <2>2. \A r \in Requests : at[r] \in Nat
      BY DEF TypeInv, TypeOK
    <2>3. fetchedAt \in Nat /\ refetched \in Nat /\ started \in Nat /\ \A i \in Kids : team[i].since \in Nat
      BY DEF TypeInv, TypeOK, Publication
    <2>4. Locked' /\ Times'
      BY <2>1, <2>2, <2>3 DEF KeyInv, Locked, Times
    <2>5. Cached' /\ Decided'
      BY <2>1 DEF KeyInv, Cached, SetOf, Decided
    <2>. QED
      BY <2>4, <2>5 DEF KeyInv
  <1>. QED
    BY <1>1, <1>2, <1>3, <1>4 DEF Next

LEMMA KeysHold == Spec => [](TypeInv /\ KeyInv)
  <1>1. Spec => []KeyInv
    BY TypesHold, KeyInit, KeyStep, PTL DEF Spec
  <1>. QED
    BY <1>1, TypesHold, PTL

\* Two fetches are started at least Cooldown apart (access.go:216-235).
THEOREM FetchesKeepTheCooldown == Spec => FetchesSpaced
  <1>1. TypeInv /\ KeyInv /\ [Next]_vars => [Spaced]_vars
    <2>. SUFFICES ASSUME TypeInv, KeyInv, Next, NEW r \in Requests, At(r, "verify"), At(r, "fetch")'
                  PROVE  started = 0 \/ now - started >= Cooldown
      BY DEF Spaced
    <2>. USE DEF request, cache, fetch, At, Goto, Become, Leave
    <2>1. KeyFor(r)
      <3>1. ASSUME NEW q \in Requests, Proceed(q) PROVE KeyFor(r)
        <4>1. q = r
          BY <3>1 DEF Proceed, Login, Create, ArriveWithCookie, ArriveWithToken, Lookup, LookupGone, KeyFor,
                      Answer, Fetched, FetchFailed, Accept, RefuseKid, RefuseToken, MintKey, SetKey, Done,
                      TypeInv, TypeOK
        <4>. QED
          BY <3>1, <4>1 DEF Proceed, Login, Create, ArriveWithCookie, ArriveWithToken, Lookup, LookupGone,
                      Answer, Fetched, FetchFailed, Accept, RefuseKid, RefuseToken, MintKey, SetKey, Done,
                      TypeInv, TypeOK
      <3>. QED
        BY <3>1 DEF Next, Destroy, DashboardMints, Rotate, Tick
    <2>2. Allowed(now)
      BY <2>1 DEF KeyFor, TypeInv, TypeOK
    <2>3. started = refetched
      BY <2>1 DEF KeyFor, Unlocked, KeyInv, Times
    <2>. QED
      BY <2>2, <2>3 DEF Allowed
  <1>. QED
    BY KeysHold, <1>1, PTL DEF Spec, FetchesSpaced

\* While fetches succeed the verifier is at most TTL behind the team's withdrawals,
\* and Cooldown behind its new keys (access.go:222-250).
THEOREM VerifierFollowsTheTeam == Spec => FollowsTheTeam
  <1>1. TypeInv /\ KeyInv => Followed
    <2>. SUFFICES ASSUME TypeInv, KeyInv, NEW r \in Requests, At(r, "decide"), ~failed
                  PROVE  /\ kid[r] \in keys => team[kid[r]].on \/ at[r] - team[kid[r]].since <= TTL
                         /\ kid[r] \notin keys => ~team[kid[r]].on \/ at[r] - team[kid[r]].since < Cooldown
      BY DEF Followed, Accept, RefuseKid
    <2>1. /\ keys # {}
          /\ kid[r] \in keys => at[r] - fetchedAt <= TTL
          /\ kid[r] \notin keys => at[r] - refetched < Cooldown
      BY DEF KeyInv, Decided
    <2>2. SetOf(keys, fetchedAt) /\ fetchedAt = refetched
      BY <2>1 DEF KeyInv, Cached, Times
    <2>3. fetchedAt \in Nat /\ at[r] \in Nat /\ \A i \in Kids : team[i].since \in Nat
      BY DEF TypeInv, TypeOK, Publication
    <2>4. keys \subseteq Kids /\ kid[r] \in Kids
      BY DEF TypeInv, TypeOK, HasCookie, At
    <2>. QED
      BY <2>1, <2>2, <2>3, <2>4 DEF SetOf
  <1>. QED
    BY KeysHold, <1>1, PTL DEF FollowsTheTeam

=============================================================================
