------------------------------ MODULE Catalog ------------------------------
(***************************************************************************)
(* What the operator and the tenants put up and what MCP clients see of    *)
(* it: the tables the admin API edits (src/internal/ui/ui.go over          *)
(* src/internal/db/repos.go), the tenant's switch for a single tool        *)
(* (src/internal/mcp/tenant_api.go), the names under which ListTools shows *)
(* the tools of a namespace and the way CallTool finds a tool back by its  *)
(* name (src/internal/mcp/aggregator.go), with both caches and their age.  *)
(*                                                                         *)
(* A name is the sequence of what stands between its "__".  A handler of   *)
(* the admin API reads the rows it is about, and writes one: a UUID never  *)
(* comes back and tenant_managed never changes, so the row it writes is    *)
(* still what it read, or is gone and the write fails or changes nothing,  *)
(* and a handler is one step here.  Credentials, descriptions and whatever *)
(* else does not decide where a call goes are left out.  How a tenant's    *)
(* servers change is in Routing and TenantServers, how tools come and go   *)
(* in ToolSync; a call that was sent is Discovery's.                       *)
(***************************************************************************)
EXTENDS Naturals, Sequences

CONSTANTS
    Servers,     \* UUIDs of servers
    Managed,     \* those that tenants manage
    Namespaces,  \* UUIDs of namespaces
    Home,        \* the namespace the tenant was given
    Endpoints,   \* UUIDs of endpoints
    Door,        \* the endpoint the tenant was given
    Names,       \* names of servers, as stored
    Clean,       \* Clean[name]: its segments when sanitized
    TenantName,  \* TenantName[s]: the name of a tenant's server
    Tools,       \* names of tools, as sequences of segments
    Offers,      \* Offers[s]: the tools server s lists
    Override,    \* Override[s][t]: the override name of tool t, t for none
    Clients,     \* MCP clients, one request at a time each
    NoName,      \* no name, no row
    None,        \* nothing
    TTL,         \* nsCacheTTL in ticks
    Slow,        \* the most ticks between reading the rows and caching them
    MaxEdits     \* bound: how often the operator edits

ASSUME CatalogAssumption ==
    /\ Managed \subseteq Servers
    /\ Home \in Namespaces
    /\ Door \in Endpoints
    /\ Clean \in [Names -> Seq(STRING) \ {<<>>}]
    /\ TenantName \in [Managed -> Names]
    /\ Tools \subseteq Seq(STRING)
    /\ Offers \in [Servers -> SUBSET Tools]
    /\ Override \in [Servers -> [Tools -> Tools]]
    /\ NoName \notin Names
    /\ None \notin Servers \X Tools
    /\ TTL \in Nat \ {0}
    /\ Slow \in Nat
    /\ MaxEdits \in Nat

VARIABLES
    name,      \* name[s]: the name in the row of server s
    spaces,    \* the rows of namespaces
    mapped,    \* mapped[n]: the servers with an ACTIVE mapping in n
    off,       \* off[n]: the tools <<s, t>> with an INACTIVE mapping in n
    bound,     \* bound[e]: the namespace in the row of endpoint e
    unused,    \* the UUIDs that were not given out yet
    edits,     \* how often the operator edited
    list,      \* caches[n] within nsCacheTTL: the rows read, and their age
    routes,    \* routes[n] within nsCacheTTL: the rows it was made from, their age
    stage,     \* where the request of each client is
    session,   \* the endpoint and the namespace of its session
    using,     \* the rows its request works with
    held,      \* for how long it has held them without caching them
    seen,      \* the INACTIVE mappings it read
    sent,      \* the server and the tool its call was sent to
    doors,     \* history: the namespaces that were behind the tenant's endpoint
    gone,      \* history: gone[n][s]: since when s is not mapped in n, up to Late
    late,      \* history: servers gone for Late when the request began
    barred     \* history: tenants' tools that have been off since it began

catalogVars == <<name, spaces, mapped, off, bound, unused, edits, list,
                 routes, stage, session, using, held, seen, sent, doors, gone, late, barred>>

tables == <<name, spaces, mapped, off, bound, unused>>
caches == <<list, routes>>
request == <<stage, using, held, seen, sent>>

\* What was unmapped this long ago is called no more.
Late == TTL + Slow

Stages == {"idle", "list", "save", "mappings", "route", "build", "sent"}
AtStage(c, step) == stage[c] = step
Enter(c, step) == stage' = [stage EXCEPT ![c] = step]

Space(c) == session[c].space

-----------------------------------------------------------------------------
(* Names                                                                   *)

\* The rows of a namespace's list: the name of each server in it.
Tables == [Servers -> Names \cup {NoName}]
Nobody == [s \in Servers |-> NoName]
Table(n) == [s \in Servers |-> IF s \in mapped[n] THEN name[s] ELSE NoName]
Listed(table) == {s \in Servers : table[s] # NoName}
Only(table, some) == [s \in Servers |-> IF s \in some THEN table[s] ELSE NoName]

\* ToolName: the sanitized name of the server, "__", the name of the tool.
ToolName(server, tool) == Clean[server] \o tool

\* ParseToolName splits at the first "__".
Prefix(wire) == Head(wire)
Rest(wire) == Tail(wire)

\* Variant: an override is the whole name.
ShownBare(table, s, tool) ==
    IF Override[s][tool] # tool THEN Override[s][tool] ELSE ToolName(table[s], tool)

\* The name ListTools gives a tool: an override takes the place of the tool's part.
Shown(table, s, tool) == ToolName(table[s], Override[s][tool])

\* What ListTools answers when some of the servers do: tools that are not off.
ListTools(table, answering, inactive) ==
    {[name |-> Shown(table, p[1], p[2]), server |-> p[1], tool |-> p[2]] :
        p \in {q \in (Listed(table) \cap answering) \X Tools :
                  q[2] \in Offers[q[1]] /\ q \notin inactive}}

\* The tools whose override a name is.
Overridden(table, wire) ==
    {p \in Listed(table) \X Tools :
        /\ Clean[table[p[1]]] = <<Prefix(wire)>>
        /\ Override[p[1]][p[2]] = Rest(wire)
        /\ Override[p[1]][p[2]] # p[2]}

\* The servers the route map may give for a name: the first to claim it has it.
Routed(map, wire) ==
    {s \in Listed(map) : \E t \in Offers[s] : ToolName(map[s], t) = wire}

\* The servers whose whole name is the prefix, asked when the map has none.
Prefixed(table, wire) == {s \in Listed(table) : Clean[table[s]] = <<Prefix(wire)>>}

\* The server and the tool by a name that is nobody's override.
Chosen(table, map, wire) ==
    (IF Routed(map, wire) = {} THEN Prefixed(table, wire) ELSE Routed(map, wire))
        \X {Rest(wire)}

\* Variant: a tool that is off is hidden only.
TargetsHidden(table, map, inactive, wire) ==
    LET overridden == Overridden(table, wire)
    IN  {p \in IF overridden = {} THEN Chosen(table, map, wire) ELSE overridden \ inactive :
            table[p[1]] # NoName}

\* Where CallTool may send a call, empty if it is refused: to the tool of which the
\* name is the override; or to the server by the route map or the prefix, if it is
\* in the list.  A tenant's tool that is off is refused by every name, any other by
\* its override alone.
Targets(table, map, inactive, wire) ==
    LET overridden == Overridden(table, wire)
        found == IF overridden = {} THEN Chosen(table, map, wire) ELSE overridden \ inactive
    IN  {p \in found : /\ Prefix(wire) # ""
                       /\ table[p[1]] # NoName
                       /\ p[1] \in Managed => p \notin inactive}

\* The names a client may call by: what some server's tools are or were called.
Wires == {ToolName(n, t) : n \in Names, t \in Tools}

-----------------------------------------------------------------------------
(* The rows                                                                *)

\* A tenant that was provisioned: a namespace, an endpoint, servers with mappings.
CatalogInit ==
    /\ name = [s \in Servers |-> IF s \in Managed THEN TenantName[s] ELSE NoName]
    /\ spaces = {Home}
    /\ mapped = [n \in Namespaces |-> IF n = Home THEN Managed ELSE {}]
    /\ off = [n \in Namespaces |-> {}]
    /\ bound = [e \in Endpoints |-> IF e = Door THEN Home ELSE None]
    /\ unused = (Servers \ Managed) \cup (Namespaces \ {Home}) \cup (Endpoints \ {Door})
    /\ doors = {Home}
    /\ edits = 0
    /\ list = [n \in Namespaces |-> None]
    /\ routes = [n \in Namespaces |-> None]
    /\ stage = [c \in Clients |-> "idle"]
    /\ session = [c \in Clients |-> None]
    /\ using = [c \in Clients |-> Nobody]
    /\ held = [c \in Clients |-> 0]
    /\ seen = [c \in Clients |-> {}]
    /\ sent = [c \in Clients |-> None]
    /\ gone = [n \in Namespaces |-> [s \in Servers |->
                   IF n = Home /\ s \in Managed THEN 0 ELSE Late]]
    /\ late = [c \in Clients |-> {}]
    /\ barred = [c \in Clients |-> {}]

\* From now on these servers are the mapped ones.
Remap(now) ==
    /\ mapped' = now
    /\ gone' = [n \in Namespaces |-> [s \in Servers |-> IF s \in now[n] THEN 0 ELSE gone[n][s]]]
    /\ late' = [c \in Clients |->
                   IF session[c] = None THEN late[c] ELSE late[c] \ now[Space(c)]]

\* From now on these mappings are INACTIVE.
Switch(now) ==
    /\ off' = now
    /\ barred' = [c \in Clients |->
                     IF session[c] = None THEN barred[c] ELSE barred[c] \cap now[Space(c)]]

CreateServer(s, new) ==
    /\ s \in unused \ Managed
    /\ unused' = unused \ {s}
    /\ name' = [name EXCEPT ![s] = new]
    /\ UNCHANGED <<spaces, mapped, off, bound, caches, request, session, doors, gone, late, barred>>

\* A tenant's server is not the operator's to edit.
UpdateServer(s, new) ==
    /\ s \notin Managed
    /\ name[s] # NoName
    /\ name' = [name EXCEPT ![s] = new]
    /\ UNCHANGED <<spaces, mapped, off, bound, unused, caches, request, session, doors, gone, late, barred>>

\* The mappings go with it.
DeleteServer(s) ==
    /\ name[s] # NoName
    /\ name' = [name EXCEPT ![s] = NoName]
    /\ Remap([n \in Namespaces |-> mapped[n] \ {s}])
    /\ Switch([n \in Namespaces |-> {p \in off[n] : p[1] # s}])
    /\ UNCHANGED <<spaces, bound, unused, caches, request, session, doors>>

CreateNamespace(n) ==
    /\ n \in unused
    /\ unused' = unused \ {n}
    /\ spaces' = spaces \cup {n}
    /\ UNCHANGED <<name, mapped, off, bound, caches, request, session, doors, gone, late, barred>>

\* Variant: its endpoints stay.
DeleteNamespaceOnly(n) ==
    /\ n \in spaces
    /\ spaces' = spaces \ {n}
    /\ Remap([mapped EXCEPT ![n] = {}])
    /\ Switch([off EXCEPT ![n] = {}])
    /\ UNCHANGED <<name, bound, unused, caches, request, session, doors>>

\* Its mappings and its endpoints go with it.
DeleteNamespace(n) ==
    /\ n \in spaces
    /\ spaces' = spaces \ {n}
    /\ Remap([mapped EXCEPT ![n] = {}])
    /\ Switch([off EXCEPT ![n] = {}])
    /\ bound' = [e \in Endpoints |-> IF bound[e] = n THEN None ELSE bound[e]]
    /\ UNCHANGED <<name, unused, caches, request, session, doors>>

\* The operator's switch for a server in a namespace, anybody's, inserts or updates.
SetServerMapping(n, s, status) ==
    /\ n \in spaces
    /\ name[s] # NoName
    /\ Remap([mapped EXCEPT ![n] = IF status = "ACTIVE" THEN @ \cup {s} ELSE @ \ {s}])
    /\ UNCHANGED <<name, spaces, off, bound, unused, caches, request, session, doors, barred>>

CreateEndpoint(e, n) ==
    /\ e \in unused
    /\ n \in spaces
    /\ unused' = unused \ {e}
    /\ bound' = [bound EXCEPT ![e] = n]
    /\ UNCHANGED <<name, spaces, mapped, off, caches, request, session, doors, gone, late, barred>>

UpdateEndpoint(e, n) ==
    /\ bound[e] # None
    /\ n \in spaces
    /\ bound' = [bound EXCEPT ![e] = n]
    /\ doors' = IF e = Door THEN doors \cup {n} ELSE doors
    /\ UNCHANGED <<name, spaces, mapped, off, unused, caches, request, session, gone, late, barred>>

DeleteEndpoint(e) ==
    /\ bound[e] # None
    /\ bound' = [bound EXCEPT ![e] = None]
    /\ UNCHANGED <<name, spaces, mapped, off, unused, caches, request, session, doors, gone, late, barred>>

\* The tenant's switch for a tool of its own: it has looked up the namespace behind
\* its endpoint, now or before an edit of that, and writes the mapping there.
SetToolEnabled(n, s, t, enabled) ==
    /\ n \in doors \cap spaces
    /\ s \in Managed
    /\ name[s] # NoName
    /\ t \in Offers[s]
    /\ Switch([off EXCEPT ![n] = IF enabled THEN @ \ {<<s, t>>} ELSE @ \cup {<<s, t>>}])
    /\ UNCHANGED <<name, spaces, mapped, bound, unused, caches, request, session, doors, gone, late>>

-----------------------------------------------------------------------------
(* Requests                                                                *)

\* A new session is for the namespace the endpoint has now.
Initialize(c, e) ==
    /\ AtStage(c, "idle")
    /\ bound[e] # None
    /\ session' = [session EXCEPT ![c] = [endpoint |-> e, space |-> bound[e]]]
    /\ UNCHANGED <<tables, caches, request, doors, gone, late, barred>>

\* A tools/call or a tools/list: the endpoint is looked up, and the session knows
\* the namespace.  A list takes the same way and is a call that is never sent.
Begin(c) ==
    /\ AtStage(c, "idle")
    /\ session[c] # None
    /\ bound[session[c].endpoint] # None
    /\ Enter(c, "list")
    /\ late' = [late EXCEPT ![c] = {s \in Servers : gone[Space(c)][s] = Late}]
    /\ barred' = [barred EXCEPT ![c] = {p \in off[Space(c)] : p[1] \in Managed}]
    /\ UNCHANGED <<tables, caches, session, using, held, seen, sent, doors, gone>>

UseList(c) ==
    /\ AtStage(c, "list")
    /\ list[Space(c)] # None
    /\ using' = [using EXCEPT ![c] = list[Space(c)].rows]
    /\ Enter(c, "mappings")
    /\ UNCHANGED <<tables, caches, session, held, seen, sent, doors, gone, late, barred>>

ReadList(c) ==
    /\ AtStage(c, "list")
    /\ list[Space(c)] = None
    /\ using' = [using EXCEPT ![c] = Table(Space(c))]
    /\ Enter(c, "save")
    /\ UNCHANGED <<tables, caches, session, held, seen, sent, doors, gone, late, barred>>

SaveList(c) ==
    /\ AtStage(c, "save")
    /\ list' = [list EXCEPT ![Space(c)] = [rows |-> using[c], age |-> 0]]
    /\ held' = [held EXCEPT ![c] = 0]
    /\ Enter(c, "mappings")
    /\ UNCHANGED <<tables, routes, session, using, seen, sent, doors, gone, late, barred>>

ReadMappings(c) ==
    /\ AtStage(c, "mappings")
    /\ seen' = [seen EXCEPT ![c] = off[Space(c)]]
    /\ Enter(c, "route")
    /\ UNCHANGED <<tables, caches, session, using, held, sent, doors, gone, late, barred>>

Clear(c) ==
    /\ Enter(c, "idle")
    /\ using' = [using EXCEPT ![c] = Nobody]
    /\ held' = [held EXCEPT ![c] = 0]
    /\ seen' = [seen EXCEPT ![c] = {}]
    /\ sent' = [sent EXCEPT ![c] = None]
    /\ late' = [late EXCEPT ![c] = {}]
    /\ barred' = [barred EXCEPT ![c] = {}]

\* The call goes out, by any name.
Send(c, map) ==
    /\ \E wire \in Wires : \E target \in Targets(using[c], map, seen[c], wire) :
            sent' = [sent EXCEPT ![c] = target]
    /\ Enter(c, "sent")
    /\ UNCHANGED <<using, held, seen>>

UseRoutes(c) ==
    /\ AtStage(c, "route")
    /\ routes[Space(c)] # None
    /\ Send(c, routes[Space(c)].rows)
    /\ UNCHANGED <<tables, caches, session, doors, gone, late, barred>>

MissRoutes(c) ==
    /\ AtStage(c, "route")
    /\ routes[Space(c)] = None
    /\ Enter(c, "build")
    /\ UNCHANGED <<tables, caches, session, using, held, seen, sent, doors, gone, late, barred>>

\* Every server of the list answers: the map is kept.
BuildRoutes(c) ==
    /\ AtStage(c, "build")
    /\ routes' = [routes EXCEPT ![Space(c)] = [rows |-> using[c], age |-> 0]]
    /\ Send(c, using[c])
    /\ UNCHANGED <<tables, list, session, doors, gone, late, barred>>

\* Some do not: what there is of a map serves this request only.
BuildPartly(c, answering) ==
    /\ AtStage(c, "build")
    /\ ~(Listed(using[c]) \subseteq answering)
    /\ Send(c, Only(using[c], answering))
    /\ UNCHANGED <<tables, caches, session, doors, gone, late, barred>>

\* It was answered; or the database failed, or the call was refused, before it
\* was sent.
Finish(c) ==
    /\ stage[c] \in {"list", "mappings", "route", "build", "sent"}
    /\ Clear(c)
    /\ UNCHANGED <<tables, caches, session, doors, gone>>

-----------------------------------------------------------------------------

\* Variant: an entry as old as TTL is still good.
AgedLonger(cache) ==
    [n \in Namespaces |->
        IF cache[n] = None \/ cache[n].age = TTL
        THEN None ELSE [rows |-> cache[n].rows, age |-> cache[n].age + 1]]

\* The entries that are younger than TTL a tick later.
Aged(cache) ==
    [n \in Namespaces |->
        IF cache[n] = None \/ cache[n].age + 1 = TTL
        THEN None ELSE [rows |-> cache[n].rows, age |-> cache[n].age + 1]]

\* A request that has read the rows caches them within Slow ticks.
Tick ==
    /\ \A c \in Clients : AtStage(c, "save") => held[c] < Slow
    /\ list' = Aged(list)
    /\ routes' = Aged(routes)
    /\ gone' = [n \in Namespaces |-> [s \in Servers |->
                   IF s \in mapped[n] \/ gone[n][s] = Late THEN gone[n][s] ELSE gone[n][s] + 1]]
    /\ held' = [c \in Clients |-> IF AtStage(c, "save") THEN held[c] + 1 ELSE held[c]]
    /\ UNCHANGED <<tables, stage, session, using, seen, sent, doors, late, barred>>

AdminEdits ==
    \/ \E s \in Servers, new \in Names : CreateServer(s, new) \/ UpdateServer(s, new)
    \/ \E s \in Servers : DeleteServer(s)
    \/ \E n \in Namespaces : CreateNamespace(n) \/ DeleteNamespace(n)
    \/ \E n \in Namespaces, s \in Servers, status \in {"ACTIVE", "INACTIVE"} :
            SetServerMapping(n, s, status)
    \/ \E e \in Endpoints, n \in Namespaces : CreateEndpoint(e, n) \/ UpdateEndpoint(e, n)
    \/ \E e \in Endpoints : DeleteEndpoint(e)

AdminStep ==
    /\ edits < MaxEdits
    /\ edits' = edits + 1
    /\ AdminEdits

TenantStep ==
    \E n \in Namespaces, s \in Servers, t \in Tools, enabled \in BOOLEAN :
        SetToolEnabled(n, s, t, enabled)

ClientStep(c) ==
    \/ \E e \in Endpoints : Initialize(c, e)
    \/ Begin(c)
    \/ UseList(c) \/ ReadList(c) \/ SaveList(c) \/ ReadMappings(c)
    \/ UseRoutes(c) \/ MissRoutes(c) \/ BuildRoutes(c)
    \/ \E answering \in SUBSET Listed(using[c]) : BuildPartly(c, answering)
    \/ Finish(c)

CatalogNext ==
    \/ AdminStep
    \/ (TenantStep \/ (\E c \in Clients : ClientStep(c)) \/ Tick) /\ UNCHANGED edits

CatalogSpec == CatalogInit /\ [][CatalogNext]_catalogVars

-----------------------------------------------------------------------------
(* Properties                                                              *)

\* What is cached: rows, and for how long.
Entries == [rows : Tables, age : 0..TTL - 1]

\* Every variable has its type, of the code's records and maps: a mapping is of a
\* server and a namespace that have rows, an endpoint leads to a namespace that has
\* one, and no cache entry is as old as nsCacheTTL.
CatalogTypes ==
    /\ name \in Tables
    /\ spaces \subseteq Namespaces
    /\ mapped \in [Namespaces -> SUBSET Servers]
    /\ \A n \in Namespaces : \A s \in mapped[n] : n \in spaces /\ name[s] # NoName
    /\ off \in [Namespaces -> SUBSET (Servers \X Tools)]
    /\ bound \in [Endpoints -> spaces \cup {None}]
    /\ edits \in 0..MaxEdits
    /\ list \in [Namespaces -> {None} \cup Entries]
    /\ routes \in [Namespaces -> {None} \cup Entries]
    /\ stage \in [Clients -> Stages]
    /\ session \in [Clients -> {None} \cup [endpoint : Endpoints, space : Namespaces]]
    /\ using \in [Clients -> Tables]
    /\ held \in [Clients -> 0..Slow]
    /\ seen \in [Clients -> SUBSET (Servers \X Tools)]
    /\ sent \in [Clients -> {None} \cup (Servers \X Seq(STRING))]
    /\ gone \in [Namespaces -> [Servers -> 0..Late]]
    /\ late \in [Clients -> SUBSET Servers]
    /\ barred \in [Clients -> SUBSET (Servers \X Tools)]

\* Nobody else in a table has a name that begins as this server's name does, and no
\* other tool of it, one it lists no more included, has the name of one of its tools
\* for an override.
WellNamed(table, s) ==
    /\ Len(Clean[table[s]]) = 1
    /\ Head(Clean[table[s]]) # ""
    /\ \A other \in Listed(table) \ {s} : Head(Clean[table[other]]) # Head(Clean[table[s]])
    /\ \A t \in Offers[s], u \in Tools :
            t # u /\ Override[s][u] # u => Override[s][u] # Override[s][t]

\* ListTools and CallTool agree (aggregator.go): whatever the operator and the tenant
\* have put up and whichever servers answer to the one or the other, a name that
\* was listed for a tool of a well-named server calls that tool of that server.
ListedIsCalled ==
    \A n \in spaces : \A entry \in ListTools(Table(n), Servers, off[n]) :
        WellNamed(Table(n), entry.server) =>
            \A routed \in SUBSET Listed(Table(n)) :
                Targets(Table(n), Only(Table(n), routed), off[n], entry.name)
                    = {<<entry.server, entry.tool>>}

\* A tenant's switch holds at once (CallTool reads the mappings for each call,
\* aggregator.go): a call is never sent to a tool of a tenant's server that has
\* been off in the session's namespace since before the call came, by its name or
\* by its override's, through a list or a route map made before it was off.
DisabledRefused == \A c \in Clients : sent[c] \notin barred[c]

\* The caches keep to nsCacheTTL (getServers, buildRouteMap): a server whose mapping
\* or row was taken away that long ago, and as long again as reading the rows may
\* take, is sent no call that comes now, by neither cache nor by both together.
NoLateCall == \A c \in Clients : sent[c] # None => sent[c][1] \notin late[c]

=============================================================================
