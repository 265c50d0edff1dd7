---------------------------- MODULE AdminAccess ----------------------------
(***************************************************************************)
(* Who acts on the admin API (src/internal/ui/ui.go, src/internal/access): *)
(* an admin key makes a session, a session or a token of Cloudflare Access *)
(* passes requireAuth, and whoever passes may mint keys.  Tokens are       *)
(* checked with the keys the team publishes, which the Verifier caches.    *)
(*                                                                         *)
(* An action is one SQL statement or one section under sessionStore.mu;    *)
(* the section under Verifier.mu is cut where it waits for the team's      *)
(* endpoint.  Time starts at 1: 0 is Go's zero time.                       *)
(***************************************************************************)
EXTENDS Naturals

CONSTANTS
    Requests,     \* the goroutines serving requests, one request at a time
    ApiKeys,      \* rows of api_keys, minted or not yet
    FirstKeys,    \* the admin keys the migrations left
    Tokens,       \* session cookies
    Users,        \* tenants' user ids
    Operator,     \* the user id of the operator's own tenant
    Root,         \* no user id: the operator
    Kids,         \* ids of the team's signing keys
    None,         \* a request without the cookie or the header
    TTL,          \* KeyFetchTTL
    Cooldown,     \* KidRefreshCooldown
    LastNow       \* bound: the last moment

ASSUME AdminAssumption ==
    /\ FirstKeys \subseteq ApiKeys
    /\ Operator \in Users /\ Root \notin Users
    /\ None \notin Tokens /\ None \notin Kids
    /\ TTL \in Nat /\ Cooldown \in Nat \ {0} /\ Cooldown <= TTL
    /\ LastNow \in Nat \ {0}

VARIABLES
    now,         \* the gateway's clock
    apiKey,      \* api_keys
    session,     \* sessionStore.sessions
    pc,          \* where each request is
    token,       \* the session cookie it sent
    kid,         \* the id of the key that signed its Access token
    who,         \* as whom it acts
    at,          \* keyFor's now
    team,        \* whether the team publishes a key (external), and since when
    keys,        \* Verifier.keys, empty for nil
    fetchedAt,   \* Verifier.fetchedAt
    refetched,   \* Verifier.refetched
    answer,      \* what the endpoint answered the fetch that is under way
    failed,      \* history: the last fetch failed
    started      \* history: when the last fetch was started, 0 if none was

vars == <<now, apiKey, session, pc, token, kid, who, at, team, keys, fetchedAt, refetched,
          answer, failed, started>>
request == <<token, kid, who, at>>
cache == <<keys, fetchedAt, refetched, failed>>
fetch == <<answer, started>>

-----------------------------------------------------------------------------

Owners == Users \cup {Root}

ApiKey == [minted : BOOLEAN, active : BOOLEAN, admin : BOOLEAN, owner : Owners]
Session == [live : BOOLEAN, owner : Owners]
Publication == [on : BOOLEAN, since : Nat]

Steps == {"away", "login", "cookie", "verify", "fetch", "answered", "decide", "serving"}

\* Whom the migrations left admin keys: migration 0001 made admin keys of the
\* operator's, and 0003 gave those without a user, if any, to the operator's tenant.
FirstOwners == {Root, Operator}

NoSession == [live |-> FALSE, owner |-> Root]

At(r, step) == pc[r] = step
Goto(r, step) == pc' = [pc EXCEPT ![r] = step]

Published == {i \in Kids : team[i].on}

\* A key's row when the gateway starts.
FirstRow(k, owner) ==
    IF k \in FirstKeys
    THEN [minted |-> TRUE, active |-> TRUE, admin |-> TRUE, owner |-> owner]
    ELSE [minted |-> FALSE, active |-> FALSE, admin |-> FALSE, owner |-> Root]

\* The request r goes on, or ends, with no more than an identity.
Become(r, step, identity) ==
    /\ Goto(r, step)
    /\ token' = [token EXCEPT ![r] = None]
    /\ kid' = [kid EXCEPT ![r] = None]
    /\ who' = [who EXCEPT ![r] = identity]
    /\ at' = [at EXCEPT ![r] = 0]

Leave(r) == Become(r, "away", Root)

\* Verifier.mu is free.
Unlocked == \A q \in Requests : pc[q] \notin {"fetch", "answered", "decide"}

Init ==
    /\ now = 1
    /\ \E owner \in [ApiKeys -> FirstOwners] : apiKey = [k \in ApiKeys |-> FirstRow(k, owner[k])]
    /\ session = [t \in Tokens |-> NoSession]
    /\ pc = [r \in Requests |-> "away"]
    /\ token = [r \in Requests |-> None]
    /\ kid = [r \in Requests |-> None]
    /\ who = [r \in Requests |-> Root]
    /\ at = [r \in Requests |-> 0]
    /\ team = [i \in Kids |-> [on |-> FALSE, since |-> 0]]
    /\ keys = {}
    /\ fetchedAt = 0
    /\ refetched = 0
    /\ answer = {}
    /\ failed = FALSE
    /\ started = 0

-----------------------------------------------------------------------------
(* Sessions                                                                *)

\* handleLogin read an active admin key.
Login(r, k) ==
    /\ At(r, "away")
    /\ apiKey[k].minted /\ apiKey[k].active /\ apiKey[k].admin
    /\ Become(r, "login", apiKey[k].owner)
    /\ UNCHANGED <<now, apiKey, session, team, cache, fetch>>

\* sessionStore.create.
Create(r, t) ==
    /\ At(r, "login")
    /\ ~session[t].live
    /\ session' = [session EXCEPT ![t] = [live |-> TRUE, owner |-> who[r]]]
    /\ Leave(r)
    /\ UNCHANGED <<now, apiKey, team, cache, fetch>>

\* handleLogout; or its day is over: sessionStore.sweep, valid and lookup treat an
\* expired session as one that is gone.
Destroy(t) ==
    /\ session[t].live
    /\ session' = [session EXCEPT ![t] = NoSession]
    /\ UNCHANGED <<now, apiKey, pc, request, team, cache, fetch>>

\* valid: a request with a good cookie t, and maybe an Access token too.
ArriveWithCookie(r, t, i) ==
    /\ At(r, "away")
    /\ session[t].live
    /\ token' = [token EXCEPT ![r] = t]
    /\ kid' = [kid EXCEPT ![r] = i]
    /\ Goto(r, "cookie")
    /\ UNCHANGED <<now, apiKey, session, who, at, team, cache, fetch>>

\* One without a good cookie, with an Access token, through the trusted proxy.
ArriveWithToken(r, i) ==
    /\ At(r, "away")
    /\ i # None
    /\ kid' = [kid EXCEPT ![r] = i]
    /\ Goto(r, "verify")
    /\ UNCHANGED <<now, apiKey, session, token, who, at, team, cache, fetch>>

\* lookup finds the session still there.
Lookup(r) ==
    /\ At(r, "cookie")
    /\ session[token[r]].live
    /\ Become(r, "serving", session[token[r]].owner)
    /\ UNCHANGED <<now, apiKey, session, team, cache, fetch>>

\* It is gone since: the token is tried, or 401.
LookupGone(r) ==
    /\ At(r, "cookie")
    /\ ~session[token[r]].live
    /\ \/ kid[r] = None /\ Leave(r)
       \/ /\ kid[r] # None /\ Goto(r, "verify")
          /\ token' = [token EXCEPT ![r] = None]
          /\ UNCHANGED <<kid, who, at>>
    /\ UNCHANGED <<now, apiKey, session, team, cache, fetch>>

-----------------------------------------------------------------------------
(* Verifier.keyFor                                                         *)

\* Variant: keys that are known are never refreshed.
WantedIfUnknown(i, n) == i \notin keys

\* No keys, old keys, or not this one.
Wanted(i, n) == keys = {} \/ n - fetchedAt > TTL \/ i \notin keys

Allowed(n) == refetched = 0 \/ n - refetched >= Cooldown

\* Takes the lock and decides whether to fetch.
KeyFor(r) ==
    /\ At(r, "verify")
    /\ Unlocked
    /\ at' = [at EXCEPT ![r] = now]
    /\ \/ /\ Wanted(kid[r], now) /\ Allowed(now)
          /\ started' = now
          /\ Goto(r, "fetch")
       \/ /\ ~(Wanted(kid[r], now) /\ Allowed(now))
          /\ started' = started
          /\ Goto(r, "decide")
    /\ UNCHANGED <<now, apiKey, session, token, kid, who, team, cache, answer>>

\* The endpoint answers (external); the answer is on its way.
Answer(r) ==
    /\ At(r, "fetch")
    /\ answer' = Published
    /\ Goto(r, "answered")
    /\ UNCHANGED <<now, apiKey, session, request, team, cache, started>>

\* The answer arrives and holds keys.
Fetched(r) ==
    /\ At(r, "answered")
    /\ answer # {}
    /\ keys' = answer
    /\ fetchedAt' = at[r]
    /\ refetched' = at[r]
    /\ failed' = FALSE
    /\ answer' = {}
    /\ Goto(r, "decide")
    /\ UNCHANGED <<now, apiKey, session, request, team, started>>

\* Variant: only a fetch that succeeds counts against the cooldown.
FetchFailedUncounted(r) ==
    /\ pc[r] \in {"fetch", "answered"}
    /\ failed' = TRUE
    /\ answer' = {}
    /\ \/ keys = {} /\ Leave(r)
       \/ keys # {} /\ Goto(r, "decide") /\ UNCHANGED request
    /\ UNCHANGED <<now, apiKey, session, team, keys, fetchedAt, refetched, started>>

\* No answer in time, or one that is no key set: the old keys serve on, if any.
FetchFailed(r) ==
    /\ pc[r] \in {"fetch", "answered"}
    /\ refetched' = at[r]
    /\ failed' = TRUE
    /\ answer' = {}
    /\ \/ keys = {} /\ Leave(r)
       \/ keys # {} /\ Goto(r, "decide") /\ UNCHANGED request
    /\ UNCHANGED <<now, apiKey, session, team, keys, fetchedAt, started>>

\* The key is known, and signature, claims and email are in order: acts as root.
Accept(r) ==
    /\ At(r, "decide")
    /\ kid[r] \in keys
    /\ Become(r, "serving", Root)
    /\ UNCHANGED <<now, apiKey, session, team, cache, fetch>>

\* bad_kid.
RefuseKid(r) ==
    /\ At(r, "decide")
    /\ kid[r] \notin keys
    /\ Leave(r)
    /\ UNCHANGED <<now, apiKey, session, team, cache, fetch>>

\* The key is known; something else of the token is not in order.
RefuseToken(r) ==
    /\ At(r, "decide")
    /\ kid[r] \in keys
    /\ Leave(r)
    /\ UNCHANGED <<now, apiKey, session, team, cache, fetch>>

-----------------------------------------------------------------------------
(* Keys                                                                    *)

\* Variant: whoever is let in mints admin keys.
MintKeyAny(r, k, admin) ==
    /\ At(r, "serving")
    /\ ~apiKey[k].minted
    /\ apiKey' = [apiKey EXCEPT ![k] =
            [minted |-> TRUE, active |-> TRUE, admin |-> admin, owner |-> who[r]]]
    /\ Leave(r)
    /\ UNCHANGED <<now, session, team, cache, fetch>>

\* POST /api/admin/keys: only root mints admin keys.
MintKey(r, k, admin) ==
    /\ At(r, "serving")
    /\ ~apiKey[k].minted
    /\ apiKey' = [apiKey EXCEPT ![k] =
            [minted |-> TRUE, active |-> TRUE, admin |-> admin /\ who[r] = Root, owner |-> who[r]]]
    /\ Leave(r)
    /\ UNCHANGED <<now, session, team, cache, fetch>>

\* SetAPIKeyActive: root's session reaches every key.
SetKey(r, k, active) ==
    /\ At(r, "serving")
    /\ apiKey[k].minted
    /\ who[r] = Root \/ who[r] = apiKey[k].owner
    /\ apiKey' = [apiKey EXCEPT ![k] =
            [minted |-> TRUE, active |-> active, admin |-> apiKey[k].admin, owner |-> apiKey[k].owner]]
    /\ Leave(r)
    /\ UNCHANGED <<now, session, team, cache, fetch>>

\* Every other handler; and a login or request whose client or database failed.
Done(r) ==
    /\ pc[r] \in {"serving", "login"}
    /\ Leave(r)
    /\ UNCHANGED <<now, apiKey, session, team, cache, fetch>>

-----------------------------------------------------------------------------
(* The dashboard, the team, and time                                       *)

\* The dashboard gives a tenant a key (external).
DashboardMints(k, u) ==
    /\ ~apiKey[k].minted
    /\ apiKey' = [apiKey EXCEPT ![k] =
            [minted |-> TRUE, active |-> TRUE, admin |-> FALSE, owner |-> u]]
    /\ UNCHANGED <<now, session, pc, request, team, cache, fetch>>

\* The team publishes a key or withdraws it (external).
Rotate(i) ==
    /\ team' = [team EXCEPT ![i] = [on |-> ~team[i].on, since |-> now]]
    /\ UNCHANGED <<now, apiKey, session, pc, request, cache, fetch>>

Tick ==
    /\ now < LastNow
    /\ now' = now + 1
    /\ UNCHANGED <<apiKey, session, pc, request, team, cache, fetch>>

-----------------------------------------------------------------------------

Proceed(r) ==
    \/ \E k \in ApiKeys : Login(r, k)
    \/ \E t \in Tokens : Create(r, t)
    \/ \E t \in Tokens, i \in Kids \cup {None} : ArriveWithCookie(r, t, i)
    \/ \E i \in Kids : ArriveWithToken(r, i)
    \/ Lookup(r) \/ LookupGone(r)
    \/ KeyFor(r) \/ Answer(r) \/ Fetched(r) \/ FetchFailed(r)
    \/ Accept(r) \/ RefuseKid(r) \/ RefuseToken(r)
    \/ \E k \in ApiKeys, b \in BOOLEAN : MintKey(r, k, b) \/ SetKey(r, k, b)
    \/ Done(r)

Next ==
    \/ \E r \in Requests : Proceed(r)
    \/ \E t \in Tokens : Destroy(t)
    \/ \E k \in ApiKeys, u \in Users : DashboardMints(k, u)
    \/ \E i \in Kids : Rotate(i)
    \/ Tick

Spec == Init /\ [][Next]_vars

-----------------------------------------------------------------------------
(* Properties                                                              *)

TypeOK ==
    /\ now \in 1 .. LastNow
    /\ apiKey \in [ApiKeys -> ApiKey]
    /\ session \in [Tokens -> Session]
    /\ pc \in [Requests -> Steps]
    /\ token \in [Requests -> Tokens \cup {None}]
    /\ kid \in [Requests -> Kids \cup {None}]
    /\ who \in [Requests -> Owners]
    /\ at \in [Requests -> 0 .. LastNow]
    /\ team \in [Kids -> Publication]
    /\ keys \subseteq Kids
    /\ fetchedAt \in 0 .. LastNow
    /\ refetched \in 0 .. LastNow
    /\ answer \subseteq Kids
    /\ failed \in BOOLEAN
    /\ started \in 0 .. LastNow

\* "only root sessions can mint admin keys" (ui.go:378-383): whatever keys the
\* dashboard and the admins mint and switch and whatever they log in with, an admin key
\* that the migrations did not leave is root's, and nobody but root and the operator's
\* own user holds a session or gets through requireAuth.
OnlyOperators ==
    /\ \A k \in ApiKeys : apiKey[k].minted /\ apiKey[k].admin =>
        \/ apiKey[k].owner = Root
        \/ k \in FirstKeys /\ apiKey[k].owner = Operator
    /\ \A t \in Tokens : session[t].live => session[t].owner \in {Root, Operator}
    /\ \A r \in Requests : pc[r] \in {"login", "serving"} => who[r] \in {Root, Operator}

\* "at most one fetch per KidRefreshCooldown, across every trigger" (access.go:216-218):
\* also when fetches fail, and when requests that waited for the lock come next.
Spaced ==
    \A r \in Requests : At(r, "verify") /\ At(r, "fetch")' =>
        started = 0 \/ now - started >= Cooldown
FetchesSpaced == [][Spaced]_vars

\* Unless the last fetch failed, no token is accepted whose key was withdrawn more
\* than TTL before it was looked up, and none is refused whose key was published at
\* least Cooldown before and still is: neither the cooldown nor a rotation during a
\* fetch adds to that (access.go:214-250).
Followed ==
    \A r \in Requests :
        /\ Accept(r) => failed \/ team[kid[r]].on \/ at[r] - team[kid[r]].since <= TTL
        /\ RefuseKid(r) => failed \/ ~team[kid[r]].on \/ at[r] - team[kid[r]].since < Cooldown
FollowsTheTeam == [][Followed]_vars
=============================================================================
