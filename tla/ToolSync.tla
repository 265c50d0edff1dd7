------------------------------ MODULE ToolSync ------------------------------
(***************************************************************************)
(* The stored tools of one tenant server: the requests that fetch its tool *)
(* list and persist the names behind a hash gate (fetchServerTools and     *)
(* syncTools of src/internal/mcp/aggregator.go, SyncTools of               *)
(* src/internal/db/repos.go), the switch by which the tenant disables a    *)
(* tool (src/internal/mcp/tenant_api.go), and the calls that respect it.   *)
(*                                                                         *)
(* Postgres runs SyncTools at READ COMMITTED: its DELETE sees what is      *)
(* committed when it starts, and its upserts wait for whoever has deleted  *)
(* the same rows.  The breaker, the cache and the single flight in front   *)
(* of a fetch are Discovery's; here one is answered at any time.            *)
(*                                                                         *)
(* What is hashed is the list as it came; what is stored leaves out the    *)
(* tools that bear an override name of the namespace whose listing fetched *)
(* (buildRouteMap and RefreshServer fetch for no namespace, with none).    *)
(***************************************************************************)
CONSTANTS
    Tools,      \* names of tools
    Requests,   \* goroutines that fetch
    Filters     \* the override names a fetch may come with, none among them

ASSUME ToolSyncAssumption == {} \in Filters

VARIABLES
    upstream,   \* the names the upstream lists
    tools,      \* the rows of tools, as committed
    disabled,   \* the INACTIVE rows of namespace_tool_mappings, by tool
    hash,       \* syncHashes[uuid]: {}, or {names} for the hash of names
    pc,         \* where each request is
    fetched,    \* the names it was given
    saving,     \* the names it is to store (toSave)
    dropping,   \* the rows its open transaction has deleted
    overlapped, \* history: requests whose sync ran beside another one
    doubt       \* history: the last sync overlapped, or its commit was not confirmed

vars == <<upstream, tools, disabled, hash, pc, fetched, saving, dropping, overlapped, doubt>>

history == <<overlapped, doubt>>

Steps == {"done", "gate", "delete", "upsert", "remember"}

At(r, step) == pc[r] = step
Goto(r, step) == pc' = [pc EXCEPT ![r] = step]

Return(r) ==
    /\ Goto(r, "done")
    /\ fetched' = [fetched EXCEPT ![r] = {}]
    /\ saving' = [saving EXCEPT ![r] = {}]
    /\ dropping' = [dropping EXCEPT ![r] = {}]

Init ==
    /\ upstream = Tools
    /\ tools = {}
    /\ disabled = {}
    /\ hash = {}
    /\ pc = [r \in Requests |-> "done"]
    /\ fetched = [r \in Requests |-> {}]
    /\ saving = [r \in Requests |-> {}]
    /\ dropping = [r \in Requests |-> {}]
    /\ overlapped = {}
    /\ doubt = FALSE

-----------------------------------------------------------------------------
(* A fetch                                                                 *)

\* The upstream answers the list it has.  A fetch that fails goes no further.
Fetch(r) ==
    /\ At(r, "done")
    /\ fetched' = [fetched EXCEPT ![r] = upstream]
    /\ Goto(r, "gate")
    /\ UNCHANGED <<upstream, tools, disabled, hash, saving, dropping, history>>

\* Variant: anything known will do.
SkipAny(r) ==
    /\ At(r, "gate")
    /\ hash # {}
    /\ Return(r)
    /\ UNCHANGED <<upstream, tools, disabled, hash, history>>

\* The same names as at the last sync: nothing is written.
Skip(r) ==
    /\ At(r, "gate")
    /\ hash = {fetched[r]}
    /\ Return(r)
    /\ UNCHANGED <<upstream, tools, disabled, hash, history>>

\* Other names: they are to be stored, without those its listing's filter takes out.
Differ(r) ==
    /\ At(r, "gate")
    /\ hash # {fetched[r]}
    /\ \E filter \in Filters : saving' = [saving EXCEPT ![r] = fetched[r] \ filter]
    /\ Goto(r, "delete")
    /\ UNCHANGED <<upstream, tools, disabled, hash, fetched, dropping, history>>

\* The requests whose tools are being stored.
Storing == {r \in Requests : pc[r] \in {"upsert", "remember"}}

\* SyncTools opens its transaction with the DELETE of what it is not given.
Delete(r) ==
    /\ At(r, "delete")
    /\ dropping' = [dropping EXCEPT ![r] = tools \ saving[r]]
    /\ Goto(r, "upsert")
    /\ overlapped' = IF Storing = {} THEN {} ELSE overlapped \cup Storing \cup {r}
    /\ UNCHANGED <<upstream, tools, disabled, hash, fetched, saving, doubt>>

\* It upserts what it is given, once nobody else is deleting it, and commits.  The
\* mapping of a deleted tool goes with it.
Commit(r) ==
    /\ At(r, "upsert")
    /\ \A q \in Requests \ {r} : dropping[q] \cap saving[r] = {}
    /\ tools' = (tools \ dropping[r]) \cup saving[r]
    /\ disabled' = disabled \ dropping[r]

Upsert(r) ==
    /\ Commit(r)
    /\ dropping' = [dropping EXCEPT ![r] = {}]
    /\ Goto(r, "remember")
    /\ UNCHANGED <<upstream, hash, fetched, saving, history>>

\* The connection is lost, or the request's deadline passes, after the database
\* has committed and before the gateway hears of it: an error like any other.
UpsertUnheard(r) ==
    /\ Commit(r)
    /\ Return(r)
    /\ doubt' = TRUE
    /\ UNCHANGED <<upstream, hash, overlapped>>

\* Variant: the hash is kept although nothing was stored.
SyncFailsRemembering(r) ==
    /\ pc[r] \in {"delete", "upsert"}
    /\ hash' = {fetched[r]}
    /\ Return(r)
    /\ UNCHANGED <<upstream, tools, disabled, history>>

\* An error, a deadlock Postgres resolves or a timeout rolls back.
SyncFails(r) ==
    /\ pc[r] \in {"delete", "upsert"}
    /\ Return(r)
    /\ UNCHANGED <<upstream, tools, disabled, hash, history>>

Remember(r) ==
    /\ At(r, "remember")
    /\ hash' = {fetched[r]}
    /\ doubt' = (r \in overlapped)
    /\ Return(r)
    /\ UNCHANGED <<upstream, tools, disabled, overlapped>>

-----------------------------------------------------------------------------
(* The rest of the world                                                   *)

\* The upstream's tools change, or a PATCH has pointed the server elsewhere.
Offer(names) ==
    /\ upstream' = names
    /\ UNCHANGED <<tools, disabled, hash, pc, fetched, saving, dropping, history>>

\* ForgetServer after a PATCH.
Forget ==
    /\ hash' = {}
    /\ UNCHANGED <<upstream, tools, disabled, pc, fetched, saving, dropping, history>>

\* The gateway restarts: hashes and requests are gone, transactions roll back.
Restart ==
    /\ hash' = {}
    /\ pc' = [r \in Requests |-> "done"]
    /\ fetched' = [r \in Requests |-> {}]
    /\ saving' = [r \in Requests |-> {}]
    /\ dropping' = [r \in Requests |-> {}]
    /\ UNCHANGED <<upstream, tools, disabled, history>>

\* setToolEnabled: only a stored tool can be switched.
Disable(t) ==
    /\ t \in tools
    /\ disabled' = disabled \cup {t}
    /\ UNCHANGED <<upstream, tools, hash, pc, fetched, saving, dropping, history>>

Enable(t) ==
    /\ t \in tools
    /\ disabled' = disabled \ {t}
    /\ UNCHANGED <<upstream, tools, hash, pc, fetched, saving, dropping, history>>

-----------------------------------------------------------------------------

Sync(r) ==
    \/ Skip(r) \/ Differ(r)
    \/ Delete(r) \/ Upsert(r) \/ UpsertUnheard(r) \/ SyncFails(r) \/ Remember(r)

Next ==
    \/ \E r \in Requests : Fetch(r) \/ Sync(r)
    \/ \E names \in SUBSET Tools : Offer(names)
    \/ Forget
    \/ Restart
    \/ \E t \in Tools : Disable(t) \/ Enable(t)

Spec == Init /\ [][Next]_vars

\* Syncs have their request's deadline, and the server is listed again and again.
Fairness == \A r \in Requests : WF_vars(Fetch(r)) /\ WF_vars(Sync(r))

FairSpec == Spec /\ Fairness

-----------------------------------------------------------------------------
(* Properties                                                              *)

TypeOK ==
    /\ upstream \in SUBSET Tools
    /\ tools \in SUBSET Tools
    /\ disabled \in SUBSET tools
    /\ hash = {} \/ \E names \in SUBSET Tools : hash = {names}
    /\ pc \in [Requests -> Steps]
    /\ fetched \in [Requests -> SUBSET Tools]
    /\ saving \in [Requests -> SUBSET Tools]
    /\ dropping \in [Requests -> SUBSET Tools]
    /\ overlapped \in SUBSET Requests
    /\ doubt \in BOOLEAN

\* The stored tools are those of the list, save what some listing's filter takes out.
Holds(names) == \E filter \in Filters : tools = names \ filter

\* The hash gate skips the database only for a list that is stored, up to the override
\* names of one listing (aggregator.go:746-765), whatever fails, is forgotten, restarted
\* or fetched in between; not if two syncs overlap or a commit goes unconfirmed.
HashAgrees ==
    hash # {} /\ Storing = {} /\ ~doubt =>
        \E names \in SUBSET Tools : hash = {names} /\ Holds(names)

\* Steps of requests that nothing and nobody disturbs.
Smooth == \E r \in Requests :
    Fetch(r) \/ Skip(r) \/ Differ(r) \/ Delete(r) \/ Upsert(r) \/ Remember(r)

\* Whatever failed, was forgotten or was restarted before: once nothing does any
\* more, what the upstream offers comes to be stored, and stays, save the override
\* names of one listing (SyncTools behind its gate); with the exceptions of HashAgrees.
Stored == <>[][Smooth]_vars /\ []<>~doubt => <>[]Holds(upstream)
=============================================================================
