------------------------------ MODULE Routing ------------------------------
(***************************************************************************)
(* One tenant's namespace as the gateway sees it: the rows that say which  *)
(* server bears which name, the cached list of them and the cached route   *)
(* map made from a list (src/internal/mcp/aggregator.go), the tool calls   *)
(* that go by both, and the requests of the tenant API that change a row   *)
(* and drop the caches afterwards (src/internal/mcp/tenant_api.go).        *)
(*                                                                         *)
(* A step is one statement of the database or one section under a lock of  *)
(* the Aggregator.  Every server offers the tool that is called, so a name *)
(* is all that is left of a tool's name.  A listing takes the same way to  *)
(* its route map, and is a call whose target nobody looks at; a call by an *)
(* override's name resolves it in the list alone and is not modelled.      *)
(***************************************************************************)
EXTENDS Naturals

CONSTANTS
    Servers,     \* server UUIDs; one that was issued never comes back
    Names,       \* names of servers, unique within a tenant
    Requests,    \* goroutines serving MCP clients
    Writers,     \* goroutines serving the tenant API
    NoName,      \* no name, no row
    NoServer,    \* no server
    None,        \* nothing cached
    MaxChanges   \* bound: how often rows are changed

ASSUME RoutingAssumption ==
    /\ NoName \notin Names
    /\ NoServer \notin Servers
    /\ None \notin [Servers -> Names \cup {NoName}]
    /\ Requests \cap Writers = {}
    /\ MaxChanges \in Nat

VARIABLES
    rows,      \* rows[s]: the name of server s in the namespace
    issued,    \* the servers that have or had a row
    changes,   \* how often rows changed
    renamed,   \* history: the servers that were renamed
    list,      \* caches[ns] within nsCacheTTL: the rows read
    routes,    \* routes[ns] within nsCacheTTL: the rows it was made from
    pc,        \* where each request is
    asked,     \* the name a call gives
    read,      \* the rows a request works with
    target     \* the server a call is sent to

vars == <<rows, issued, changes, renamed, list, routes, pc, asked, read, target>>

-----------------------------------------------------------------------------

\* No two servers bear the same name.
Rows == {table \in [Servers -> Names \cup {NoName}] :
            \A s, t \in Servers : table[s] = table[t] => s = t \/ table[s] = NoName}

NoRows == [s \in Servers |-> NoName]

RequestSteps == {"done", "list", "save", "route", "saveroutes", "answer"}
WriterSteps == {"done", "lookup", "droplist", "droproutes"}

At(p, step) == pc[p] = step
Goto(p, step) == pc' = [pc EXCEPT ![p] = step]

Named(table, name) ==
    IF \E s \in Servers : table[s] = name
    THEN CHOOSE s \in Servers : table[s] = name
    ELSE NoServer

\* Variant: goes where the route map says.
TargetUnlisted(table, map, name) ==
    LET routed == Named(map, name) IN
    IF routed = NoServer THEN Named(table, name) ELSE routed

\* Where CallTool sends a call: to the server the route map gives, or else the
\* one whose name is the prefix; but only if that server is in the list.
Target(table, map, name) ==
    LET routed == Named(map, name)
        chosen == IF routed = NoServer THEN Named(table, name) ELSE routed
    IN  IF chosen # NoServer /\ table[chosen] # NoName THEN chosen ELSE NoServer

\* A tenant without servers.
Init ==
    /\ rows = NoRows
    /\ issued = {}
    /\ changes = 0
    /\ renamed = {}
    /\ list = None
    /\ routes = None
    /\ pc = [p \in Requests \cup Writers |-> "done"]
    /\ asked = [r \in Requests |-> NoName]
    /\ read = [r \in Requests |-> NoRows]
    /\ target = [r \in Requests |-> NoServer]

-----------------------------------------------------------------------------
(* Requests                                                                *)

requestVars == <<asked, read, target>>
storeVars == <<rows, issued, changes, renamed>>

Arrive(r, name) ==
    /\ At(r, "done")
    /\ Goto(r, "list")
    /\ asked' = [asked EXCEPT ![r] = name]
    /\ UNCHANGED <<storeVars, list, routes, read, target>>

Return(r) ==
    /\ Goto(r, "done")
    /\ asked' = [asked EXCEPT ![r] = NoName]
    /\ read' = [read EXCEPT ![r] = NoRows]
    /\ target' = [target EXCEPT ![r] = NoServer]

UseList(r) ==
    /\ At(r, "list")
    /\ list # None
    /\ Goto(r, "route")
    /\ read' = [read EXCEPT ![r] = list]
    /\ UNCHANGED <<storeVars, list, routes, asked, target>>

ReadList(r) ==
    /\ At(r, "list")
    /\ list = None
    /\ Goto(r, "save")
    /\ read' = [read EXCEPT ![r] = rows]
    /\ UNCHANGED <<storeVars, list, routes, asked, target>>

\* The database fails, to give the list or, afterwards, the tools' mappings.
ReadFails(r) ==
    /\ (At(r, "list") /\ list = None) \/ At(r, "route")
    /\ Return(r)
    /\ UNCHANGED <<storeVars, list, routes>>

SaveList(r) ==
    /\ At(r, "save")
    /\ list' = read[r]
    /\ Goto(r, "route")
    /\ UNCHANGED <<storeVars, routes, requestVars>>

Answer(r, map) ==
    /\ Goto(r, "answer")
    /\ target' = [target EXCEPT ![r] = Target(read[r], map, asked[r])]
    /\ UNCHANGED <<asked, read>>

UseRoutes(r) ==
    /\ At(r, "route")
    /\ routes # None
    /\ Answer(r, routes)
    /\ UNCHANGED <<storeVars, list, routes>>

\* Every server of the list answers with its tools.
BuildRoutes(r) ==
    /\ At(r, "route")
    /\ routes = None
    /\ Goto(r, "saveroutes")
    /\ UNCHANGED <<storeVars, list, routes, requestVars>>

\* The servers in failing do not answer: the map is used, but not kept.
BuildRoutesPartly(r, failing) ==
    /\ At(r, "route")
    /\ routes = None
    /\ Answer(r, [s \in Servers |-> IF s \in failing THEN NoName ELSE read[r][s]])
    /\ UNCHANGED <<storeVars, list, routes>>

SaveRoutes(r) ==
    /\ At(r, "saveroutes")
    /\ routes' = read[r]
    /\ Answer(r, read[r])
    /\ UNCHANGED <<storeVars, list>>

\* The answer, or "no active server matching", reaches the client.
Finish(r) ==
    /\ At(r, "answer")
    /\ Return(r)
    /\ UNCHANGED <<storeVars, list, routes>>

-----------------------------------------------------------------------------
(* Changes                                                                 *)

Stored(s) == rows[s] # NoName

\* Variant: leaves the name to the caller.
AnyName(name) == TRUE

\* The unique index of the names.
Free(name) == \A s \in Servers : rows[s] # name

Change(w, step) ==
    /\ At(w, "done")
    /\ changes < MaxChanges
    /\ changes' = changes + 1
    /\ Goto(w, step)
    /\ UNCHANGED <<list, routes, requestVars>>

\* createServer has looked the namespace up before.  Which unused UUID it draws
\* makes no difference.
Create(w, name) ==
    /\ issued # Servers /\ Free(name)
    /\ LET s == CHOOSE t \in Servers \ issued : TRUE IN
        /\ rows' = [rows EXCEPT ![s] = name]
        /\ issued' = issued \cup {s}
    /\ Change(w, "droplist")
    /\ UNCHANGED renamed

\* updateServer and deleteServer look it up afterwards, to drop its caches.
Rename(w, s, name) ==
    /\ Stored(s) /\ Free(name)
    /\ rows' = [rows EXCEPT ![s] = name]
    /\ renamed' = renamed \cup {s}
    /\ Change(w, "lookup")
    /\ UNCHANGED issued

Delete(w, s) ==
    /\ Stored(s)
    /\ rows' = [rows EXCEPT ![s] = NoName]
    /\ Change(w, "lookup")
    /\ UNCHANGED <<issued, renamed>>

Lookup(w) ==
    /\ At(w, "lookup")
    /\ Goto(w, "droplist")
    /\ UNCHANGED <<storeVars, list, routes, requestVars>>

\* The lookup fails: nothing is dropped.
LookupFails(w) ==
    /\ At(w, "lookup")
    /\ Goto(w, "done")
    /\ UNCHANGED <<storeVars, list, routes, requestVars>>

\* InvalidateNamespace, first under mu ...
DropList(w) ==
    /\ At(w, "droplist")
    /\ list' = None
    /\ Goto(w, "droproutes")
    /\ UNCHANGED <<storeVars, routes, requestVars>>

\* ... then under routeMu.
DropRoutes(w) ==
    /\ At(w, "droproutes")
    /\ routes' = None
    /\ Goto(w, "done")
    /\ UNCHANGED <<storeVars, list, requestVars>>

\* Variant: a list that is in use never gets too old.
ListKept == FALSE /\ UNCHANGED vars

ListExpires ==
    /\ list # None
    /\ list' = None
    /\ UNCHANGED <<storeVars, routes, pc, requestVars>>

RoutesExpire ==
    /\ routes # None
    /\ routes' = None
    /\ UNCHANGED <<storeVars, list, pc, requestVars>>

-----------------------------------------------------------------------------

\* What a request does once it is there.
Serve(r) ==
    \/ UseList(r) \/ ReadList(r) \/ ReadFails(r) \/ SaveList(r)
    \/ UseRoutes(r) \/ BuildRoutes(r) \/ SaveRoutes(r) \/ Finish(r)
    \/ \E failing \in (SUBSET Servers) \ {{}} : BuildRoutesPartly(r, failing)

Invalidate(w) == Lookup(w) \/ LookupFails(w) \/ DropList(w) \/ DropRoutes(w)

Next ==
    \/ \E r \in Requests :
        \/ \E name \in Names : Arrive(r, name)
        \/ Serve(r)
    \/ \E w \in Writers :
        \/ \E name \in Names :
            Create(w, name) \/ (\E s \in Servers : Rename(w, s, name))
        \/ \E s \in Servers : Delete(w, s)
        \/ Invalidate(w)
    \/ ListExpires
    \/ RoutesExpire

Spec == Init /\ [][Next]_vars

\* The statements and the upstream calls have deadlines, and time passes.
Fairness ==
    /\ \A r \in Requests : WF_vars(Serve(r))
    /\ \A w \in Writers : WF_vars(Invalidate(w))
    /\ WF_vars(ListExpires)
    /\ WF_vars(RoutesExpire)

FairSpec == Spec /\ Fairness

-----------------------------------------------------------------------------
(* Properties                                                              *)

TypeOK ==
    /\ rows \in Rows
    /\ issued \in SUBSET Servers
    /\ changes \in 0 .. MaxChanges
    /\ renamed \in SUBSET Servers
    /\ list \in Rows \cup {None}
    /\ routes \in Rows \cup {None}
    /\ pc \in [Requests \cup Writers -> RequestSteps \cup WriterSteps]
    /\ asked \in [Requests -> Names \cup {NoName}]
    /\ read \in [Requests -> Rows]
    /\ target \in [Requests -> Servers \cup {NoServer}]

\* A call goes to no server but one that bore the name the client gave in the
\* list the call read, unless that server has been renamed (aggregator.go:352-376):
\* list and route map may be of different moments, before and after a change.
NeverAnother ==
    \A r \in Requests :
        target[r] # NoServer => read[r][target[r]] = asked[r] \/ target[r] \in renamed

\* When the rows stop changing, calls come to reach the server that bears the
\* name, and none if there is none (nsCacheTTL), whatever raced with the changes
\* and whether or not the caches were dropped.
Settles ==
    <>[](\A r \in Requests :
            At(r, "answer") => target[r] = Named(rows, asked[r]))

=============================================================================
