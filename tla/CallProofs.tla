----------------------------- MODULE CallProofs -----------------------------
(***************************************************************************)
(* The way of a tool call, for any servers, tools, caches and clients:     *)
(* which tool a name calls and which calls are refused (Catalog), and then *)
(* what holds its server back and how its tools are fetched (Discovery).   *)
(*                                                                         *)
(* Catalog: the lemmas about names show that the prefix, the route map and *)
(* the overrides lead from a listed name to its one tool.  The invariant   *)
(* parts the age of the rows a request may work with into the time they    *)
(* are held and the time they are cached, and keeps what a call was        *)
(* refused among what its request has read.                                *)
(*                                                                         *)
(* Discovery: the breaker's own facts come first: Allow, Success and       *)
(* Failure keep its state well formed, and keep it closed exactly below    *)
(* MaxFailures.  The invariant then adds that the requests sent upstream   *)
(* while the breaker is half-open, and those still acquiring a client      *)
(* since the breaker last opened, are together covered by its probe count, *)
(* all but the first one; and that an open breaker has let in none of      *)
(* those still acquiring since it opened.                                  *)
(***************************************************************************)
EXTENDS Catalog, Discovery, SequenceTheorems, FiniteSetTheorems, TLAPS

-----------------------------------------------------------------------------
(* Names                                                                   *)

\* A server's segments are at least one, each a string.
LEMMA CleanType ==
    ASSUME NEW table \in Tables, NEW s \in Listed(table)
    PROVE  /\ s \in Servers /\ table[s] \in Names
           /\ Clean[table[s]] \in Seq(STRING) /\ Clean[table[s]] # <<>>
  BY CatalogAssumption DEF CatalogAssumption, Tables, Listed

\* Tools and their overrides are sequences of strings.
LEMMA ToolType ==
    ASSUME NEW s \in Servers, NEW t \in Tools
    PROVE  t \in Seq(STRING) /\ Override[s][t] \in Tools /\ Override[s][t] \in Seq(STRING)
  BY CatalogAssumption DEF CatalogAssumption

\* ParseToolName takes apart what ToolName put together, up to the first "__".
LEMMA ParsedName ==
    ASSUME NEW server \in Seq(STRING), server # <<>>, NEW tool \in Seq(STRING)
    PROVE  /\ server \o tool \in Seq(STRING) /\ server \o tool # <<>>
           /\ Head(server \o tool) = Head(server)
           /\ Len(server) = 1 => Tail(server \o tool) = tool /\ server = <<Head(server)>>
  <1>1. /\ server \o tool \in Seq(STRING)
        /\ Len(server \o tool) = Len(server) + Len(tool)
        /\ \A i \in 1 .. Len(server) + Len(tool) :
             (server \o tool)[i] = IF i <= Len(server) THEN server[i] ELSE tool[i - Len(server)]
    BY ConcatProperties
  <1>2. Len(server) \in Nat \ {0} /\ Len(tool) \in Nat
    BY EmptySeq, LenProperties
  <1>3. Len(server \o tool) > 0 /\ server \o tool # <<>>
    BY <1>1, <1>2, EmptySeq
  <1>4. Head(server \o tool) = Head(server)
    BY <1>1, <1>2
  <1>5. ASSUME Len(server) = 1 PROVE Tail(server \o tool) = tool
    <2>. DEFINE rest == Tail(server \o tool)
    <2>1. rest \in Seq(STRING) /\ Len(rest) = Len(tool) /\ \A i \in 1 .. Len(rest) : rest[i] = (server \o tool)[i + 1]
      BY <1>1, <1>2, <1>3, <1>5, HeadTailProperties
    <2>2. \A i \in 1 .. Len(rest) : rest[i] = tool[i]
      BY <1>1, <1>2, <1>5, <2>1
    <2>. HIDE DEF rest
    <2>3. rest = tool
      BY <2>1, <2>2, SeqEqual
    <2>. QED
      BY <2>3 DEF rest
  <1>6. ASSUME Len(server) = 1 PROVE server = <<Head(server)>>
    <2>1. Head(server) \in STRING /\ Head(server) = server[1]
      BY HeadTailProperties
    <2>2. <<Head(server)>> \in Seq(STRING) /\ Len(<<Head(server)>>) = 1 /\ <<Head(server)>>[1] = Head(server)
      BY <2>1
    <2>. QED
      BY <1>6, <2>1, <2>2, SeqEqual
  <1>. QED
    BY <1>1, <1>3, <1>4, <1>5, <1>6

\* The well-named server of a listed tool is the only one a name of it leads to, by
\* the route map, by the prefix, or by an override.
LEMMA OnlyItsServer ==
    ASSUME NEW table \in Tables, NEW s \in Listed(table), WellNamed(table, s),
           NEW tool \in Tools, NEW routed \in SUBSET Listed(table)
    PROVE  LET wire == ToolName(table[s], tool) IN
           /\ Prefix(wire) = Head(Clean[table[s]]) /\ Rest(wire) = tool
           /\ Clean[table[s]] = <<Prefix(wire)>>
           /\ Prefixed(table, wire) = {s}
           /\ Routed(Only(table, routed), wire) \subseteq {s}
           /\ \A p \in Overridden(table, wire) : p[1] = s
  <1>. DEFINE wire == ToolName(table[s], tool)
  <1>. USE DEF ToolName, Prefix, Rest
  <1>1. /\ s \in Servers /\ Clean[table[s]] \in Seq(STRING) /\ Clean[table[s]] # <<>>
        /\ tool \in Seq(STRING) /\ Len(Clean[table[s]]) = 1
    BY CleanType, ToolType DEF WellNamed
  <1>2. Prefix(wire) = Head(Clean[table[s]]) /\ Rest(wire) = tool /\ Clean[table[s]] = <<Prefix(wire)>>
    BY <1>1, ParsedName
  <1>3. ASSUME NEW other \in Listed(table), Head(Clean[table[other]]) = Prefix(wire) PROVE other = s
    BY <1>2, <1>3 DEF WellNamed
  <1>4. \A other \in Listed(table) : Clean[table[other]] = <<Prefix(wire)>> => other = s
    <2>. SUFFICES ASSUME NEW other \in Listed(table), Clean[table[other]] = <<Prefix(wire)>>
                  PROVE  other = s
      OBVIOUS
    <2>1. Clean[table[other]] = Clean[table[s]]
      BY <1>2
    <2>. QED
      BY <1>2, <1>3, <2>1
  <1>5. Prefixed(table, wire) = {s}
    BY <1>2, <1>4 DEF Prefixed
  <1>6. \A p \in Overridden(table, wire) : p[1] = s
    BY <1>4 DEF Overridden
  <1>7. ASSUME NEW other \in Routed(Only(table, routed), wire)
        PROVE  other = s
    <2>1. other \in Listed(table) /\ Only(table, routed)[other] = table[other]
      BY <1>7 DEF Routed, Only, Listed
    <2>2. PICK t \in Offers[other] : ToolName(table[other], t) = wire
      BY <1>7, <2>1 DEF Routed
    <2>3. other \in Servers /\ Clean[table[other]] \in Seq(STRING) /\ Clean[table[other]] # <<>>
      BY <2>1, CleanType
    <2>4. t \in Seq(STRING)
      BY <2>2, <2>3, CatalogAssumption DEF CatalogAssumption
    <2>5. Head(Clean[table[other]]) = Prefix(wire)
      BY <2>2, <2>3, <2>4, ParsedName
    <2>. QED
      BY <1>3, <2>1, <2>5
  <1>. QED
    BY <1>2, <1>5, <1>6, <1>7

\* A name that is listed for a tool calls that tool (ListTools and CallTool).
LEMMA CallsWhatIsListed ==
    ASSUME NEW table \in Tables, NEW s \in Listed(table), NEW t \in Offers[s], WellNamed(table, s),
           NEW inactive, <<s, t>> \notin inactive, NEW routed \in SUBSET Listed(table)
    PROVE  Targets(table, Only(table, routed), inactive, Shown(table, s, t)) = {<<s, t>>}
  <1>. DEFINE shown == Override[s][t]
              wire == ToolName(table[s], shown)
              map == Only(table, routed)
              overridden == Overridden(table, wire)
  <1>1. s \in Servers /\ t \in Tools /\ shown \in Tools
    BY CleanType, ToolType, CatalogAssumption DEF CatalogAssumption
  <1>2. Shown(table, s, t) = wire
    BY DEF Shown
  <1>3. /\ Prefix(wire) = Head(Clean[table[s]]) /\ Rest(wire) = shown
        /\ Clean[table[s]] = <<Prefix(wire)>>
        /\ Prefixed(table, wire) = {s}
        /\ Routed(map, wire) \subseteq {s}
        /\ \A p \in overridden : p[1] = s
    BY <1>1, OnlyItsServer
  <1>. HIDE DEF wire
  <1>4. Prefix(wire) # "" /\ table[s] # NoName
    BY <1>3 DEF WellNamed, Listed
  <1>5. CASE shown # t
    <2>1. <<s, t>> \in overridden
      BY <1>1, <1>3, <1>5 DEF Overridden
    <2>2. ASSUME NEW p \in overridden PROVE p = <<s, t>>
      <3>1. p \in Listed(table) \X Tools /\ p[1] = s /\ Override[s][p[2]] = shown /\ Override[s][p[2]] # p[2]
        BY <1>3, <2>2 DEF Overridden
      <3>2. p[2] = t
        BY <3>1 DEF WellNamed
      <3>. QED
        BY <3>1, <3>2
    <2>3. overridden = {<<s, t>>}
      BY <2>1, <2>2
    <2>4. overridden # {} /\ overridden \ inactive = {<<s, t>>}
      BY <2>3
    <2>. HIDE DEF overridden
    <2>5. Targets(table, map, inactive, wire) =
            {p \in {<<s, t>>} : /\ Prefix(wire) # ""
                                /\ table[p[1]] # NoName
                                /\ p[1] \in Managed => p \notin inactive}
      BY <2>4 DEF Targets, overridden
    <2>. QED
      BY <1>2, <1>4, <2>5
  <1>6. CASE shown = t
    <2>1. overridden = {}
      <3>. SUFFICES ASSUME NEW p \in overridden PROVE FALSE
        OBVIOUS
      <3>1. p \in Listed(table) \X Tools /\ p[1] = s /\ Override[s][p[2]] = shown /\ Override[s][p[2]] # p[2]
        BY <1>3 DEF Overridden
      <3>. QED
        BY <1>6, <3>1 DEF WellNamed
    <2>2. Chosen(table, map, wire) = {<<s, t>>}
      <3>1. Routed(map, wire) = {} \/ Routed(map, wire) = {s}
        BY <1>3
      <3>. HIDE DEF map
      <3>2. Chosen(table, map, wire) = {s} \X {t}
        BY <1>3, <1>6, <3>1 DEF Chosen
      <3>. QED
        BY <3>2
    <2>. HIDE DEF overridden
    <2>3. Targets(table, map, inactive, wire) =
            {p \in {<<s, t>>} : /\ Prefix(wire) # ""
                                /\ table[p[1]] # NoName
                                /\ p[1] \in Managed => p \notin inactive}
      BY <2>1, <2>2 DEF Targets, overridden
    <2>. QED
      BY <1>2, <1>4, <2>3
  <1>. QED
    BY <1>5, <1>6

\* A call is sent to a server of the list, and to no tenant's tool that is off.
LEMMA TargetOf ==
    ASSUME NEW table \in Tables, NEW map \in Tables, NEW inactive, NEW wire \in Wires,
           NEW p \in Targets(table, map, inactive, wire)
    PROVE  /\ p \in Servers \X Seq(STRING)
           /\ p[1] \in Listed(table)
           /\ p[1] \in Managed => p \notin inactive
  <1>1. Rest(wire) \in Seq(STRING)
    <2>1. PICK n \in Names, t \in Tools : wire = ToolName(n, t)
      BY DEF Wires
    <2>2. Clean[n] \in Seq(STRING) /\ Clean[n] # <<>> /\ t \in Seq(STRING)
      BY CatalogAssumption DEF CatalogAssumption
    <2>. QED
      BY <2>1, <2>2, ParsedName, HeadTailProperties DEF ToolName, Rest
  <1>2. ASSUME NEW q \in Overridden(table, wire) PROVE q \in Servers \X Seq(STRING)
    BY <1>2, CatalogAssumption DEF CatalogAssumption, Overridden, Listed
  <1>3. ASSUME NEW q \in Chosen(table, map, wire) PROVE q \in Servers \X Seq(STRING)
    BY <1>1, <1>3 DEF Chosen, Routed, Prefixed, Listed
  <1>4. p \in Servers \X Seq(STRING)
    BY <1>2, <1>3 DEF Targets
  <1>5. table[p[1]] # NoName /\ (p[1] \in Managed => p \notin inactive)
    BY DEF Targets
  <1>. QED
    BY <1>4, <1>5 DEF Listed

-----------------------------------------------------------------------------
(* The invariant                                                           *)

\* A request that has its servers, and one that has its mappings.
Using(c) == stage[c] \in {"save", "mappings", "route", "build", "sent"}
Seeing(c) == stage[c] \in {"route", "build", "sent"}

\* How long rows may have been gone that are still worked with: not at all when they
\* are read, as long as they are held, and as long again as they are cached.
AgeInv ==
    /\ \A n \in Namespaces : \A s \in mapped[n] : gone[n][s] = 0
    /\ \A n \in Namespaces : list[n] # None =>
            \A s \in Listed(list[n].rows) : gone[n][s] <= list[n].age + Slow
    /\ \A c \in Clients : AtStage(c, "save") =>
            \A s \in Listed(using[c]) : gone[Space(c)][s] <= held[c]

\* A request is one of a session.
HasSession == \A c \in Clients : ~AtStage(c, "idle") => session[c] # None

\* What was gone when a request began and has not come back is gone still, is in no
\* rows the request works with, and a call is sent only to what is in them.
LateInv == \A c \in Clients :
    /\ AtStage(c, "idle") => late[c] = {}
    /\ \A s \in late[c] : gone[Space(c)][s] = Late
    /\ Using(c) => late[c] \cap Listed(using[c]) = {}
    /\ ~AtStage(c, "sent") => sent[c] = None
    /\ sent[c] # None => sent[c][1] \in Listed(using[c])

\* What has been off since a request began is a tenant's, is off now, and was off
\* when the request read the mappings.
BarredInv == \A c \in Clients :
    /\ AtStage(c, "idle") => barred[c] = {}
    /\ \A p \in barred[c] : p[1] \in Managed /\ p \in off[Space(c)]
    /\ Seeing(c) => barred[c] \subseteq seen[c]
    /\ sent[c] \notin barred[c]

CatalogInv == CatalogTypes /\ HasSession /\ AgeInv /\ LateInv /\ BarredInv

-----------------------------------------------------------------------------
(* Types                                                                   *)

\* The rows that are read make a table.
LEMMA TableType ==
    ASSUME CatalogTypes, NEW n \in Namespaces
    PROVE  /\ Table(n) \in Tables
           /\ Nobody \in Tables
           /\ \A s \in Listed(Table(n)) : s \in mapped[n]
  BY DEF CatalogTypes, Tables, Table, Nobody, Listed

\* A part of a table is one.
LEMMA OnlyType ==
    ASSUME NEW table \in Tables, NEW some
    PROVE  Only(table, some) \in Tables
  BY DEF Tables, Only

\* Its session knows a namespace.
LEMMA SessionSpace ==
    ASSUME CatalogTypes, NEW c \in Clients, session[c] # None
    PROVE  Space(c) \in Namespaces
  BY DEF CatalogTypes, Space

\* What is sent, if a call is.
LEMMA SentType ==
    ASSUME CatalogTypes, NEW c \in Clients, NEW map \in Tables, Send(c, map)
    PROVE  /\ stage' = [stage EXCEPT ![c] = "sent"]
           /\ UNCHANGED <<using, held, seen>>
           /\ \E p \in Servers \X Seq(STRING) :
                /\ sent' = [sent EXCEPT ![c] = p]
                /\ p[1] \in Listed(using[c])
                /\ p[1] \in Managed => p \notin seen[c]
  <1>w. PICK wire \in Wires : \E p \in Targets(using[c], map, seen[c], wire) : sent' = [sent EXCEPT ![c] = p]
    BY DEF Send
  <1>1. PICK p \in Targets(using[c], map, seen[c], wire) : sent' = [sent EXCEPT ![c] = p]
    BY <1>w
  <1>2. using[c] \in Tables
    BY DEF CatalogTypes
  <1>3. p \in Servers \X Seq(STRING) /\ p[1] \in Listed(using[c]) /\ (p[1] \in Managed => p \notin seen[c])
    BY <1>2, TargetOf
  <1>. QED
    BY <1>1, <1>3 DEF Send, Enter

\* A cache that has aged has the type, and the rows of what it still keeps.
LEMMA AgedType ==
    ASSUME NEW kept \in [Namespaces -> {None} \cup Entries]
    PROVE  /\ Aged(kept) \in [Namespaces -> {None} \cup Entries]
           /\ \A n \in Namespaces : Aged(kept)[n] # None =>
                /\ kept[n] # None
                /\ Aged(kept)[n] = [rows |-> kept[n].rows, age |-> kept[n].age + 1]
  <1>1. ASSUME NEW n \in Namespaces, kept[n] # None, kept[n].age + 1 # TTL
        PROVE  [rows |-> kept[n].rows, age |-> kept[n].age + 1] \in Entries
    BY <1>1, CatalogAssumption DEF Entries, CatalogAssumption
  <1>. QED
    BY <1>1 DEF Aged

\* A tenant that was provisioned has the types.
LEMMA CatalogTypesInit == CatalogInit => CatalogTypes
  <1>. SUFFICES ASSUME CatalogInit PROVE CatalogTypes
    OBVIOUS
  <1>. USE CatalogAssumption DEF CatalogAssumption
  <1>1. name \in Tables
    BY DEF CatalogInit, Tables
  <1>2. \A n \in Namespaces : \A s \in mapped[n] : n \in spaces /\ name[s] # NoName
    BY DEF CatalogInit
  <1>3. gone \in [Namespaces -> [Servers -> 0..Late]]
    BY DEF CatalogInit, Late
  <1>4. using \in [Clients -> Tables] /\ stage \in [Clients -> Stages]
    BY DEF CatalogInit, Tables, Nobody, Stages
  <1>5. /\ list \in [Namespaces -> {None} \cup Entries]
        /\ routes \in [Namespaces -> {None} \cup Entries]
        /\ session \in [Clients -> {None} \cup [endpoint : Endpoints, space : Namespaces]]
        /\ sent \in [Clients -> {None} \cup (Servers \X Seq(STRING))]
    BY DEF CatalogInit
  <1>6. /\ spaces \subseteq Namespaces
        /\ mapped \in [Namespaces -> SUBSET Servers]
        /\ off \in [Namespaces -> SUBSET (Servers \X Tools)]
        /\ bound \in [Endpoints -> spaces \cup {None}]
        /\ edits \in 0..MaxEdits
        /\ held \in [Clients -> 0..Slow]
        /\ seen \in [Clients -> SUBSET (Servers \X Tools)]
        /\ late \in [Clients -> SUBSET Servers]
        /\ barred \in [Clients -> SUBSET (Servers \X Tools)]
    BY DEF CatalogInit
  <1>. QED
    BY <1>1, <1>2, <1>3, <1>4, <1>5, <1>6 DEF CatalogTypes

\* A change of the mappings keeps the histories' types.
LEMMA RemapType ==
    ASSUME CatalogTypes, NEW now \in [Namespaces -> SUBSET Servers], Remap(now)
    PROVE  /\ mapped' = now
           /\ gone' \in [Namespaces -> [Servers -> 0..Late]]
           /\ late' \in [Clients -> SUBSET Servers]
  BY CatalogAssumption DEF CatalogAssumption, CatalogTypes, Remap, Late

\* A change of the tools' switches keeps their types.
LEMMA SwitchType ==
    ASSUME CatalogTypes, NEW now \in [Namespaces -> SUBSET (Servers \X Tools)], Switch(now)
    PROVE  /\ off' = now
           /\ barred' \in [Clients -> SUBSET (Servers \X Tools)]
  BY DEF CatalogTypes, Switch

\* The edits of servers, namespaces, mappings and endpoints keep the types.
LEMMA EditTypes ==
    ASSUME CatalogTypes, AdminEdits, edits' \in 0..MaxEdits
    PROVE  CatalogTypes'
  <1>. USE DEF CatalogTypes, caches, request
  <1>1. ASSUME NEW s \in Servers, NEW new \in Names, CreateServer(s, new) \/ UpdateServer(s, new)
        PROVE  CatalogTypes'
    <2>1. name' \in Tables /\ \A v \in Servers : name[v] # NoName => name'[v] # NoName
      <3>1. name' = [name EXCEPT ![s] = new] /\ new # NoName /\ name \in [Servers -> Names \cup {NoName}]
        BY <1>1, CatalogAssumption DEF CreateServer, UpdateServer, Tables, CatalogAssumption
      <3>2. name' \in [Servers -> Names \cup {NoName}]
        BY <3>1
      <3>3. ASSUME NEW v \in Servers, name[v] # NoName PROVE name'[v] # NoName
        BY <3>1, <3>3
      <3>. QED
        BY <3>2, <3>3 DEF Tables
    <2>. QED
      BY <1>1, <2>1 DEF CreateServer, UpdateServer
  <1>2. ASSUME NEW s \in Servers, DeleteServer(s) PROVE CatalogTypes'
    <2>. DEFINE now == [n \in Namespaces |-> mapped[n] \ {s}]
                on == [n \in Namespaces |-> {p \in off[n] : p[1] # s}]
    <2>1. /\ mapped' = now /\ gone' \in [Namespaces -> [Servers -> 0..Late]]
          /\ late' \in [Clients -> SUBSET Servers]
      <3>1. now \in [Namespaces -> SUBSET Servers] /\ Remap(now)
        BY <1>2 DEF DeleteServer
      <3>. QED
        BY <3>1, RemapType
    <2>2. off' = on /\ barred' \in [Clients -> SUBSET (Servers \X Tools)]
      <3>1. on \in [Namespaces -> SUBSET (Servers \X Tools)] /\ Switch(on)
        BY <1>2 DEF DeleteServer
      <3>. QED
        BY <3>1, SwitchType
    <2>3. name' \in Tables /\ \A v \in Servers \ {s} : name'[v] = name[v]
      BY <1>2 DEF DeleteServer, Tables
    <2>. QED
      BY <1>2, <2>1, <2>2, <2>3 DEF DeleteServer
  <1>3. ASSUME NEW n \in Namespaces, CreateNamespace(n) PROVE CatalogTypes'
    BY <1>3 DEF CreateNamespace
  <1>4. ASSUME NEW n \in Namespaces, DeleteNamespace(n) PROVE CatalogTypes'
    <2>1. /\ mapped' = [mapped EXCEPT ![n] = {}] /\ gone' \in [Namespaces -> [Servers -> 0..Late]]
          /\ late' \in [Clients -> SUBSET Servers]
      BY <1>4, RemapType DEF DeleteNamespace
    <2>2. off' = [off EXCEPT ![n] = {}] /\ barred' \in [Clients -> SUBSET (Servers \X Tools)]
      BY <1>4, SwitchType DEF DeleteNamespace
    <2>3. spaces' = spaces \ {n} /\ bound' \in [Endpoints -> spaces' \cup {None}]
      BY <1>4 DEF DeleteNamespace
    <2>. QED
      BY <1>4, <2>1, <2>2, <2>3 DEF DeleteNamespace
  <1>5. ASSUME NEW n \in Namespaces, NEW s \in Servers, NEW status \in {"ACTIVE", "INACTIVE"},
               SetServerMapping(n, s, status)
        PROVE  CatalogTypes'
    <2>. DEFINE now == [mapped EXCEPT ![n] = IF status = "ACTIVE" THEN @ \cup {s} ELSE @ \ {s}]
    <2>1. /\ mapped' = now /\ gone' \in [Namespaces -> [Servers -> 0..Late]]
          /\ late' \in [Clients -> SUBSET Servers]
      <3>1. now \in [Namespaces -> SUBSET Servers] /\ Remap(now)
        BY <1>5 DEF SetServerMapping
      <3>. QED
        BY <3>1, RemapType
    <2>. QED
      BY <1>5, <2>1 DEF SetServerMapping
  <1>6. ASSUME NEW e \in Endpoints, NEW n \in Namespaces, CreateEndpoint(e, n) \/ UpdateEndpoint(e, n)
        PROVE  CatalogTypes'
    BY <1>6 DEF CreateEndpoint, UpdateEndpoint
  <1>7. ASSUME NEW e \in Endpoints, DeleteEndpoint(e) PROVE CatalogTypes'
    BY <1>7 DEF DeleteEndpoint
  <1>. QED
    BY <1>1, <1>2, <1>3, <1>4, <1>5, <1>6, <1>7 DEF AdminEdits

\* So do the steps of a request.
LEMMA ClientTypes ==
    ASSUME CatalogTypes, HasSession, NEW c \in Clients, ClientStep(c), UNCHANGED edits
    PROVE  CatalogTypes'
  <1>. USE DEF CatalogTypes, tables, caches, Enter, AtStage
  <1>s. {"idle", "list", "save", "mappings", "route", "build", "sent"} = Stages
    BY DEF Stages
  <1>1. ASSUME NEW e \in Endpoints, Initialize(c, e) PROVE CatalogTypes'
    <2>1. session' \in [Clients -> {None} \cup [endpoint : Endpoints, space : Namespaces]]
      BY <1>1 DEF Initialize
    <2>. QED
      BY <1>1, <2>1 DEF Initialize, request
  <1>n. ~AtStage(c, "idle") => Space(c) \in Namespaces
    BY SessionSpace DEF HasSession
  <1>2. CASE Begin(c)
    <2>1. late' \in [Clients -> SUBSET Servers] /\ stage' \in [Clients -> Stages]
      BY <1>s, <1>2 DEF Begin
    <2>2. Space(c) \in Namespaces
      BY <1>2, SessionSpace DEF Begin
    <2>3. barred' \in [Clients -> SUBSET (Servers \X Tools)]
      BY <1>2, <2>2 DEF Begin
    <2>. QED
      BY <1>2, <2>1, <2>3 DEF Begin
  <1>3. CASE UseList(c) \/ ReadList(c)
    <2>1. stage' \in [Clients -> Stages]
      BY <1>s, <1>3 DEF UseList, ReadList
    <2>2. Space(c) \in Namespaces
      BY <1>3, <1>n DEF UseList, ReadList
    <2>3. using' \in [Clients -> Tables]
      <3>1. Table(Space(c)) \in Tables
        BY <2>2, TableType
      <3>2. list[Space(c)] # None => list[Space(c)].rows \in Tables
        BY <2>2 DEF Entries
      <3>. QED
        BY <1>3, <3>1, <3>2 DEF UseList, ReadList
    <2>. QED
      BY <1>3, <2>1, <2>3 DEF UseList, ReadList
  <1>4. CASE SaveList(c)
    <2>1. stage' \in [Clients -> Stages] /\ held' \in [Clients -> 0..Slow]
      BY <1>s, <1>4, CatalogAssumption DEF SaveList, CatalogAssumption
    <2>2. [rows |-> using[c], age |-> 0] \in Entries
      BY CatalogAssumption DEF Entries, CatalogAssumption
    <2>3. list' \in [Namespaces -> {None} \cup Entries]
      BY <1>4, <2>2 DEF SaveList
    <2>. QED
      BY <1>4, <2>1, <2>3 DEF SaveList
  <1>5. CASE ReadMappings(c)
    <2>1. stage' \in [Clients -> Stages]
      BY <1>s, <1>5 DEF ReadMappings
    <2>2. seen' \in [Clients -> SUBSET (Servers \X Tools)]
      BY <1>5, <1>n DEF ReadMappings
    <2>. QED
      BY <1>5, <2>1, <2>2 DEF ReadMappings
  <1>6. ASSUME NEW map \in Tables, Send(c, map)
        PROVE  /\ stage' \in [Clients -> Stages] /\ UNCHANGED <<using, held, seen>>
               /\ sent' \in [Clients -> {None} \cup (Servers \X Seq(STRING))]
    <2>1. PICK p \in Servers \X Seq(STRING) : sent' = [sent EXCEPT ![c] = p]
      BY <1>6, SentType
    <2>2. stage' = [stage EXCEPT ![c] = "sent"] /\ UNCHANGED <<using, held, seen>>
      BY <1>6, SentType
    <2>. QED
      BY <1>s, <2>1, <2>2
  <1>7. CASE UseRoutes(c)
    <2>1. routes[Space(c)].rows \in Tables /\ Send(c, routes[Space(c)].rows)
      BY <1>7, <1>n DEF UseRoutes, Entries
    <2>. QED
      BY <1>7, <1>6, <2>1 DEF UseRoutes
  <1>8. CASE MissRoutes(c)
    <2>1. stage' \in [Clients -> Stages]
      BY <1>s, <1>8 DEF MissRoutes
    <2>. QED
      BY <1>8, <2>1 DEF MissRoutes
  <1>9. CASE BuildRoutes(c)
    <2>1. using[c] \in Tables /\ Send(c, using[c])
      BY <1>9 DEF BuildRoutes
    <2>2. [rows |-> using[c], age |-> 0] \in Entries
      BY CatalogAssumption DEF Entries, CatalogAssumption
    <2>3. routes' \in [Namespaces -> {None} \cup Entries]
      BY <1>9, <2>2 DEF BuildRoutes
    <2>. QED
      BY <1>9, <1>6, <2>1, <2>3 DEF BuildRoutes
  <1>10. ASSUME NEW answering \in SUBSET Listed(using[c]), BuildPartly(c, answering) PROVE CatalogTypes'
    <2>1. Only(using[c], answering) \in Tables /\ Send(c, Only(using[c], answering))
      BY <1>10, OnlyType DEF BuildPartly
    <2>. QED
      BY <1>10, <1>6, <2>1 DEF BuildPartly
  <1>11. CASE Finish(c)
    <2>1. stage' \in [Clients -> Stages] /\ held' \in [Clients -> 0..Slow]
      BY <1>s, <1>11, CatalogAssumption DEF Finish, Clear, CatalogAssumption
    <2>2. using' \in [Clients -> Tables]
      BY <1>11, Zenon DEF Finish, Clear, Tables, Nobody
    <2>3. /\ seen' \in [Clients -> SUBSET (Servers \X Tools)]
          /\ sent' \in [Clients -> {None} \cup (Servers \X Seq(STRING))]
          /\ late' \in [Clients -> SUBSET Servers]
          /\ barred' \in [Clients -> SUBSET (Servers \X Tools)]
      BY <1>11 DEF Finish, Clear
    <2>. QED
      BY <1>11, <2>1, <2>2, <2>3 DEF Finish
  <1>. QED
    BY <1>1, <1>2, <1>3, <1>4, <1>5, <1>7, <1>8, <1>9, <1>10, <1>11 DEF ClientStep

\* And time.
LEMMA TickTypes ==
    ASSUME CatalogTypes, Tick, UNCHANGED edits
    PROVE  CatalogTypes'
  <1>. USE DEF CatalogTypes, tables
  <1>1. list' \in [Namespaces -> {None} \cup Entries] /\ routes' \in [Namespaces -> {None} \cup Entries]
    BY AgedType DEF Tick
  <1>2. held' \in [Clients -> 0..Slow]
    BY CatalogAssumption DEF Tick, AtStage, CatalogAssumption
  <1>3. gone' \in [Namespaces -> [Servers -> 0..Late]]
    <2>1. ASSUME NEW n \in Namespaces, NEW s \in Servers, gone[n][s] # Late PROVE gone[n][s] + 1 \in 0..Late
      BY <2>1, CatalogAssumption DEF Late, CatalogAssumption
    <2>2. gone' = [n \in Namespaces |-> [s \in Servers |->
                     IF s \in mapped[n] \/ gone[n][s] = Late THEN gone[n][s] ELSE gone[n][s] + 1]]
      BY DEF Tick
    <2>. QED
      BY <2>1, <2>2
  <1>. QED
    BY <1>1, <1>2, <1>3 DEF Tick

\* Every step keeps the types.
LEMMA CatalogTypesStep == CatalogTypes /\ HasSession /\ [CatalogNext]_catalogVars => CatalogTypes'
  <1>. SUFFICES ASSUME CatalogTypes, HasSession, [CatalogNext]_catalogVars PROVE CatalogTypes'
    OBVIOUS
  <1>1. CASE AdminStep
    <2>1. edits' \in 0..MaxEdits
      BY <1>1, CatalogAssumption DEF AdminStep, CatalogTypes, CatalogAssumption
    <2>. QED
      BY <1>1, <2>1, EditTypes DEF AdminStep
  <1>2. ASSUME TenantStep, UNCHANGED edits PROVE CatalogTypes'
    <2>1. PICK n \in Namespaces, s \in Servers, t \in Tools, enabled \in BOOLEAN : SetToolEnabled(n, s, t, enabled)
      BY <1>2 DEF TenantStep
    <2>. DEFINE now == [off EXCEPT ![n] = IF enabled THEN @ \ {<<s, t>>} ELSE @ \cup {<<s, t>>}]
    <2>2. now \in [Namespaces -> SUBSET (Servers \X Tools)] /\ Switch(now)
      BY <2>1 DEF SetToolEnabled, CatalogTypes
    <2>3. off' = now /\ barred' \in [Clients -> SUBSET (Servers \X Tools)]
      BY <2>2, SwitchType
    <2>. QED
      BY <1>2, <2>1, <2>2, <2>3 DEF SetToolEnabled, CatalogTypes, caches, request
  <1>3. ASSUME NEW c \in Clients, ClientStep(c), UNCHANGED edits PROVE CatalogTypes'
    BY <1>3, ClientTypes
  <1>4. CASE UNCHANGED catalogVars
    BY <1>4 DEF catalogVars, CatalogTypes
  <1>. QED
    BY <1>1, <1>2, <1>3, <1>4, TickTypes DEF CatalogNext

-----------------------------------------------------------------------------
(* What a step does to what the invariant is about                         *)

\* An edit touches no cache and no request; it changes the mappings of servers, those
\* of tools, both or neither.
LEMMA EditEffect ==
    ASSUME CatalogTypes, AdminEdits \/ TenantStep
    PROVE  /\ UNCHANGED <<list, routes, stage, using, held, seen, sent, session>>
           /\ \/ UNCHANGED <<mapped, gone, late>>
              \/ \E now \in [Namespaces -> SUBSET Servers] : Remap(now)
           /\ \/ UNCHANGED <<off, barred>>
              \/ \E now \in [Namespaces -> SUBSET (Servers \X Tools)] : Switch(now)
  <1>. USE DEF caches, request
  <1>1. ASSUME NEW s \in Servers, NEW new \in Names, CreateServer(s, new) \/ UpdateServer(s, new)
        PROVE  UNCHANGED <<list, routes, stage, using, held, seen, sent, session, mapped, gone, late, off, barred>>
    BY <1>1 DEF CreateServer, UpdateServer
  <1>2. ASSUME NEW s \in Servers, DeleteServer(s)
        PROVE  /\ UNCHANGED <<list, routes, stage, using, held, seen, sent, session>>
               /\ \E now \in [Namespaces -> SUBSET Servers] : Remap(now)
               /\ \E now \in [Namespaces -> SUBSET (Servers \X Tools)] : Switch(now)
    <2>1. /\ [n \in Namespaces |-> mapped[n] \ {s}] \in [Namespaces -> SUBSET Servers]
          /\ [n \in Namespaces |-> {p \in off[n] : p[1] # s}] \in [Namespaces -> SUBSET (Servers \X Tools)]
      BY DEF CatalogTypes
    <2>. QED
      BY <1>2, <2>1 DEF DeleteServer
  <1>3. ASSUME NEW n \in Namespaces, DeleteNamespace(n)
        PROVE  /\ UNCHANGED <<list, routes, stage, using, held, seen, sent, session>>
               /\ \E now \in [Namespaces -> SUBSET Servers] : Remap(now)
               /\ \E now \in [Namespaces -> SUBSET (Servers \X Tools)] : Switch(now)
    <2>1. /\ [mapped EXCEPT ![n] = {}] \in [Namespaces -> SUBSET Servers]
          /\ [off EXCEPT ![n] = {}] \in [Namespaces -> SUBSET (Servers \X Tools)]
      BY DEF CatalogTypes
    <2>. QED
      BY <1>3, <2>1 DEF DeleteNamespace
  <1>4. ASSUME NEW n \in Namespaces, NEW s \in Servers, NEW status \in {"ACTIVE", "INACTIVE"},
               SetServerMapping(n, s, status)
        PROVE  /\ UNCHANGED <<list, routes, stage, using, held, seen, sent, session, off, barred>>
               /\ \E now \in [Namespaces -> SUBSET Servers] : Remap(now)
    <2>1. [mapped EXCEPT ![n] = IF status = "ACTIVE" THEN @ \cup {s} ELSE @ \ {s}] \in [Namespaces -> SUBSET Servers]
      BY DEF CatalogTypes
    <2>. QED
      BY <1>4, <2>1 DEF SetServerMapping
  <1>5. ASSUME NEW n \in Namespaces, CreateNamespace(n)
        PROVE  UNCHANGED <<list, routes, stage, using, held, seen, sent, session, mapped, gone, late, off, barred>>
    BY <1>5 DEF CreateNamespace
  <1>6. ASSUME NEW e \in Endpoints, NEW n \in Namespaces,
               CreateEndpoint(e, n) \/ UpdateEndpoint(e, n)
        PROVE  UNCHANGED <<list, routes, stage, using, held, seen, sent, session, mapped, gone, late, off, barred>>
    BY <1>6 DEF CreateEndpoint, UpdateEndpoint
  <1>7. ASSUME NEW n \in Namespaces, NEW s \in Servers, NEW t \in Tools, NEW enabled \in BOOLEAN,
               SetToolEnabled(n, s, t, enabled)
        PROVE  /\ UNCHANGED <<list, routes, stage, using, held, seen, sent, session, mapped, gone, late>>
               /\ \E now \in [Namespaces -> SUBSET (Servers \X Tools)] : Switch(now)
    <2>1. [off EXCEPT ![n] = IF enabled THEN @ \ {<<s, t>>} ELSE @ \cup {<<s, t>>}]
            \in [Namespaces -> SUBSET (Servers \X Tools)]
      BY DEF CatalogTypes
    <2>. QED
      BY <1>7, <2>1 DEF SetToolEnabled
  <1>8. ASSUME NEW e \in Endpoints, DeleteEndpoint(e)
        PROVE  UNCHANGED <<list, routes, stage, using, held, seen, sent, session, mapped, gone, late, off, barred>>
    BY <1>8 DEF DeleteEndpoint
  <1>. QED
    BY <1>1, <1>2, <1>3, <1>4, <1>5, <1>6, <1>7, <1>8, Zenon DEF AdminEdits, TenantStep

\* Nothing of another request than c's changes.
OthersWait(c) == \A d \in Clients \ {c} :
    /\ stage'[d] = stage[d] /\ session'[d] = session[d] /\ using'[d] = using[d]
    /\ held'[d] = held[d] /\ seen'[d] = seen[d] /\ sent'[d] = sent[d]
    /\ late'[d] = late[d] /\ barred'[d] = barred[d]

\* A step of a request changes no row and nothing of another request; its session
\* changes only while there is no request.
LEMMA ClientEffect ==
    ASSUME CatalogTypes, NEW c \in Clients, ClientStep(c)
    PROVE  /\ UNCHANGED <<mapped, off, gone>>
           /\ OthersWait(c)
           /\ ~AtStage(c, "idle") => session' = session
  <1>. USE DEF caches, tables, request, CatalogTypes, Enter, AtStage, OthersWait
  <1>1. ASSUME NEW e \in Endpoints, Initialize(c, e)
        PROVE  UNCHANGED <<mapped, off, gone>> /\ OthersWait(c) /\ AtStage(c, "idle")
    BY <1>1 DEF Initialize
  <1>2. CASE Begin(c)
    BY <1>2 DEF Begin
  <1>3. CASE UseList(c) \/ ReadList(c) \/ SaveList(c)
    BY <1>3 DEF UseList, ReadList, SaveList
  <1>4. CASE ReadMappings(c) \/ MissRoutes(c)
    BY <1>4 DEF ReadMappings, MissRoutes
  <1>5. ASSUME NEW map, Send(c, map)
        PROVE  /\ UNCHANGED <<using, held, seen>>
               /\ \A d \in Clients \ {c} : stage'[d] = stage[d] /\ sent'[d] = sent[d]
    BY <1>5 DEF Send
  <1>6. CASE UseRoutes(c)
    BY <1>6, <1>5 DEF UseRoutes
  <1>7. CASE BuildRoutes(c)
    BY <1>7, <1>5 DEF BuildRoutes
  <1>8. ASSUME NEW answering \in SUBSET Listed(using[c]), BuildPartly(c, answering)
        PROVE  UNCHANGED <<mapped, off, gone, session>> /\ OthersWait(c)
    BY <1>8, <1>5 DEF BuildPartly
  <1>9. CASE Finish(c)
    BY <1>9 DEF Finish, Clear
  <1>. QED
    BY <1>1, <1>2, <1>3, <1>4, <1>6, <1>7, <1>8, <1>9 DEF ClientStep

\* What a step makes of its own request: the stage it comes from and goes to, the
\* rows it works with then, what it has read and what it has sent.
LEMMA OwnStep ==
    ASSUME CatalogTypes, HasSession, NEW c \in Clients, ClientStep(c)
    PROVE  \/ /\ AtStage(c, "idle") /\ UNCHANGED <<list, stage, using, held, seen, sent, late, barred>>
           \/ /\ Begin(c)
           \/ /\ AtStage(c, "list") /\ stage'[c] = "mappings" /\ list[Space(c)] # None
              /\ using'[c] = list[Space(c)].rows
              /\ UNCHANGED <<list, held, seen, sent, late, barred>>
           \/ /\ AtStage(c, "list") /\ stage'[c] = "save" /\ using'[c] = Table(Space(c))
              /\ UNCHANGED <<list, held, seen, sent, late, barred>>
           \/ SaveList(c)
           \/ /\ AtStage(c, "mappings") /\ stage'[c] = "route" /\ seen'[c] = off[Space(c)]
              /\ UNCHANGED <<list, using, held, sent, late, barred>>
           \/ /\ AtStage(c, "route") /\ stage'[c] = "build"
              /\ UNCHANGED <<list, using, held, seen, sent, late, barred>>
           \/ /\ stage[c] \in {"route", "build"} /\ stage'[c] = "sent"
              /\ sent'[c][1] \in Listed(using[c])
              /\ sent'[c][1] \in Managed => sent'[c] \notin seen[c]
              /\ UNCHANGED <<list, using, held, seen, late, barred>>
           \/ Finish(c)
  <1>. USE DEF caches, tables, request, CatalogTypes, Enter, AtStage
  <1>1. ASSUME NEW e \in Endpoints, Initialize(c, e)
        PROVE  AtStage(c, "idle") /\ UNCHANGED <<list, stage, using, held, seen, sent, late, barred>>
    BY <1>1 DEF Initialize
  <1>2. CASE UseList(c)
    BY <1>2 DEF UseList
  <1>3. CASE ReadList(c)
    BY <1>3 DEF ReadList
  <1>4. CASE ReadMappings(c)
    BY <1>4 DEF ReadMappings
  <1>5. CASE MissRoutes(c)
    BY <1>5 DEF MissRoutes
  <1>6. ASSUME NEW map \in Tables, Send(c, map)
        PROVE  /\ stage'[c] = "sent" /\ sent'[c][1] \in Listed(using[c])
               /\ sent'[c][1] \in Managed => sent'[c] \notin seen[c]
               /\ UNCHANGED <<using, held, seen>>
    <2>1. PICK p \in Servers \X Seq(STRING) :
              /\ sent' = [sent EXCEPT ![c] = p]
              /\ p[1] \in Listed(using[c])
              /\ p[1] \in Managed => p \notin seen[c]
      BY <1>6, SentType
    <2>2. stage' = [stage EXCEPT ![c] = "sent"] /\ UNCHANGED <<using, held, seen>>
      BY <1>6, SentType
    <2>3. stage'[c] = "sent" /\ sent'[c] = p
      BY <2>1, <2>2
    <2>. QED
      BY <2>1, <2>2, <2>3
  <1>7. CASE UseRoutes(c)
    <2>1. Space(c) \in Namespaces
      BY <1>7, SessionSpace DEF UseRoutes, HasSession
    <2>2. routes[Space(c)].rows \in Tables /\ Send(c, routes[Space(c)].rows)
      BY <1>7, <2>1 DEF UseRoutes, Entries
    <2>. QED
      BY <1>7, <1>6, <2>2 DEF UseRoutes
  <1>8. CASE BuildRoutes(c)
    BY <1>8, <1>6 DEF BuildRoutes
  <1>9. ASSUME NEW answering \in SUBSET Listed(using[c]), BuildPartly(c, answering)
        PROVE  /\ stage[c] \in {"route", "build"} /\ stage'[c] = "sent"
               /\ sent'[c][1] \in Listed(using[c])
               /\ sent'[c][1] \in Managed => sent'[c] \notin seen[c]
               /\ UNCHANGED <<list, using, held, seen, late, barred>>
    BY <1>9, <1>6, OnlyType DEF BuildPartly
  <1>. QED
    BY <1>1, <1>2, <1>3, <1>4, <1>5, <1>7, <1>8, <1>9 DEF ClientStep

-----------------------------------------------------------------------------
(* The invariant holds of every step                                       *)

\* The rows in a cache have been gone for less than Late: they were there when they
\* were read, were held for at most Slow and cached for less than TTL.
LEMMA CachedIsNotLate ==
    ASSUME CatalogTypes, AgeInv, NEW n \in Namespaces, list[n] # None, NEW s \in Listed(list[n].rows)
    PROVE  gone[n][s] # Late
  <1>1. list[n].age \in 0..TTL - 1 /\ s \in Servers
    BY DEF CatalogTypes, Entries, Listed
  <1>2. gone[n][s] \in 0..Late /\ gone[n][s] <= list[n].age + Slow
    BY <1>1 DEF CatalogTypes, AgeInv
  <1>. QED
    BY <1>1, <1>2, CatalogAssumption DEF Late, CatalogAssumption

\* The rows that are read now are not gone at all.
LEMMA MappedIsNotLate ==
    ASSUME CatalogTypes, AgeInv, NEW n \in Namespaces, NEW s \in Listed(Table(n))
    PROVE  gone[n][s] = 0 /\ gone[n][s] # Late
  <1>1. gone[n][s] = 0
    BY TableType DEF AgeInv
  <1>. QED
    BY <1>1, CatalogAssumption DEF Late, CatalogAssumption

\* The invariant holds of a tenant that was provisioned.
LEMMA CatalogInvInit == CatalogInit => CatalogInv
  <1>. SUFFICES ASSUME CatalogInit PROVE CatalogInv
    OBVIOUS
  <1>1. CatalogTypes
    BY CatalogTypesInit
  <1>2. HasSession /\ LateInv /\ BarredInv
    BY DEF CatalogInit, HasSession, LateInv, BarredInv, AtStage, Using, Seeing
  <1>3. AgeInv
    <2>1. \A n \in Namespaces : \A s \in mapped[n] : n = Home /\ s \in Managed /\ s \in Servers
      BY CatalogAssumption DEF CatalogInit, CatalogAssumption
    <2>2. \A n \in Namespaces : \A s \in mapped[n] : gone[n][s] = 0
      BY <2>1 DEF CatalogInit
    <2>. QED
      BY <2>2 DEF CatalogInit, AgeInv, AtStage
  <1>. QED
    BY <1>1, <1>2, <1>3 DEF CatalogInv

\* An edit makes nothing older, and takes from the histories what is back.
LEMMA EditKeeps ==
    ASSUME CatalogInv, AdminEdits \/ TenantStep
    PROVE  HasSession' /\ AgeInv' /\ LateInv' /\ BarredInv'
  <1>. USE DEF CatalogInv
  <1>1. /\ UNCHANGED <<list, routes, stage, using, held, seen, sent, session>>
        /\ \/ UNCHANGED <<mapped, gone, late>>
           \/ \E now \in [Namespaces -> SUBSET Servers] : Remap(now)
        /\ \/ UNCHANGED <<off, barred>>
           \/ \E now \in [Namespaces -> SUBSET (Servers \X Tools)] : Switch(now)
    BY EditEffect
  <1>2. HasSession'
    BY <1>1 DEF HasSession, AtStage
  <1>3. \A c \in Clients : session[c] # None => Space(c) \in Namespaces /\ Space(c)' = Space(c)
    BY <1>1, SessionSpace DEF Space
  <1>4. AgeInv' /\ LateInv'
    <2>1. CASE UNCHANGED <<mapped, gone, late>>
      BY <1>1, <2>1 DEF AgeInv, LateInv, AtStage, Space, Using
    <2>2. ASSUME NEW now \in [Namespaces -> SUBSET Servers], Remap(now)
          PROVE  AgeInv' /\ LateInv'
      <3>1. /\ mapped' = now
            /\ \A n \in Namespaces : \A s \in Servers :
                 gone'[n][s] = IF s \in now[n] THEN 0 ELSE gone[n][s]
            /\ \A c \in Clients : late'[c] = IF session[c] = None THEN late[c] ELSE late[c] \ now[Space(c)]
        BY <2>2 DEF Remap
      <3>2. \A n \in Namespaces : \A s \in Servers : gone'[n][s] \in Nat /\ gone[n][s] \in Nat /\ gone'[n][s] <= gone[n][s]
        <4>1. \A n \in Namespaces : \A s \in Servers : gone[n][s] \in Nat
          BY CatalogAssumption DEF CatalogTypes, CatalogAssumption, Late
        <4>. QED
          BY <3>1, <4>1
      <3>3. \A n \in Namespaces : \A s \in mapped'[n] : gone'[n][s] = 0
        BY <3>1
      <3>4. ASSUME NEW n \in Namespaces, list'[n] # None, NEW s \in Listed(list'[n].rows)
            PROVE  gone'[n][s] <= list'[n].age + Slow
        <4>1. s \in Servers /\ list[n].age \in Nat /\ gone[n][s] <= list[n].age + Slow
          BY <1>1, <3>4, CatalogAssumption DEF CatalogTypes, Entries, Listed, AgeInv, CatalogAssumption
        <4>. QED
          BY <1>1, <3>2, <4>1, CatalogAssumption DEF CatalogAssumption
      <3>5. ASSUME NEW c \in Clients, AtStage(c, "save")', NEW s \in Listed(using'[c])
            PROVE  gone'[Space(c)'][s] <= held'[c]
        <4>1. session[c] # None /\ s \in Servers /\ Space(c) \in Namespaces /\ Space(c)' = Space(c)
          BY <1>1, <1>3, <3>5 DEF HasSession, AtStage, Listed
        <4>2. gone[Space(c)][s] <= held[c] /\ held[c] \in Nat
          BY <1>1, <3>5, CatalogAssumption DEF AgeInv, AtStage, CatalogTypes, CatalogAssumption
        <4>. QED
          BY <1>1, <3>2, <4>1, <4>2
      <3>6. LateInv'
        <4>. SUFFICES ASSUME NEW c \in Clients
                      PROVE  /\ AtStage(c, "idle")' => late'[c] = {}
                             /\ \A s \in late'[c] : gone'[Space(c)'][s] = Late
                             /\ Using(c)' => late'[c] \cap Listed(using'[c]) = {}
                             /\ ~AtStage(c, "sent")' => sent'[c] = None
                             /\ sent'[c] # None => sent'[c][1] \in Listed(using'[c])
          BY DEF LateInv, Late
        <4>1. late'[c] \subseteq late[c]
          BY <3>1
        <4>2. ASSUME NEW s \in late'[c] PROVE gone'[Space(c)'][s] = Late
          <5>1. s \in late[c] /\ late[c] \subseteq Servers
            BY <4>1, <4>2 DEF CatalogTypes
          <5>2. session[c] # None
            BY <5>1 DEF HasSession, LateInv
          <5>3. s \notin now[Space(c)]
            BY <3>1, <4>2, <5>2
          <5>. QED
            BY <1>3, <3>1, <5>1, <5>2, <5>3 DEF LateInv
        <4>. QED
          BY <1>1, <4>1, <4>2 DEF LateInv, AtStage, Using
      <3>. QED
        BY <3>3, <3>4, <3>5, <3>6 DEF AgeInv
    <2>. QED
      BY <1>1, <2>1, <2>2
  <1>5. BarredInv'
    <2>1. CASE UNCHANGED <<off, barred>>
      BY <1>1, <2>1 DEF BarredInv, AtStage, Space, Seeing
    <2>2. ASSUME NEW now \in [Namespaces -> SUBSET (Servers \X Tools)], Switch(now)
          PROVE  BarredInv'
      <3>1. /\ off' = now
            /\ \A c \in Clients : barred'[c] = IF session[c] = None THEN barred[c] ELSE barred[c] \cap now[Space(c)]
        BY <2>2 DEF Switch
      <3>. SUFFICES ASSUME NEW c \in Clients
                    PROVE  /\ AtStage(c, "idle")' => barred'[c] = {}
                           /\ \A p \in barred'[c] : p[1] \in Managed /\ p \in off'[Space(c)']
                           /\ Seeing(c)' => barred'[c] \subseteq seen'[c]
                           /\ sent'[c] \notin barred'[c]
        BY DEF BarredInv
      <3>2. barred'[c] \subseteq barred[c]
        BY <3>1
      <3>3. ASSUME NEW p \in barred'[c] PROVE p[1] \in Managed /\ p \in off'[Space(c)']
        <4>1. session[c] # None /\ p \in barred[c]
          BY <3>2, <3>3 DEF HasSession, BarredInv
        <4>. QED
          BY <1>3, <3>1, <3>3, <4>1 DEF BarredInv
      <3>. QED
        BY <1>1, <3>2, <3>3 DEF BarredInv, AtStage, Seeing
    <2>. QED
      BY <1>1, <2>1, <2>2
  <1>. QED
    BY <1>2, <1>4, <1>5

\* A request reads what is mapped or what a cache keeps, sends to what it has read,
\* and another's step does it nothing.
LEMMA ClientKeeps ==
    ASSUME CatalogInv, NEW c \in Clients, ClientStep(c)
    PROVE  HasSession' /\ AgeInv' /\ LateInv' /\ BarredInv'
  <1>. USE DEF CatalogInv, Enter, AtStage
  <1>1. /\ UNCHANGED <<mapped, off, gone>> /\ OthersWait(c)
        /\ ~AtStage(c, "idle") => session' = session
    BY ClientEffect
  <1>2. \A d \in Clients \ {c} : Space(d)' = Space(d)
    BY <1>1 DEF OthersWait, Space
  <1>. DEFINE Idle == AtStage(c, "idle") /\ UNCHANGED <<list, stage, using, held, seen, sent, late, barred>>
              Hit == /\ AtStage(c, "list") /\ stage'[c] = "mappings" /\ list[Space(c)] # None
                     /\ using'[c] = list[Space(c)].rows
                     /\ UNCHANGED <<list, held, seen, sent, late, barred>>
              Miss == /\ AtStage(c, "list") /\ stage'[c] = "save" /\ using'[c] = Table(Space(c))
                      /\ UNCHANGED <<list, held, seen, sent, late, barred>>
              Look == /\ AtStage(c, "mappings") /\ stage'[c] = "route" /\ seen'[c] = off[Space(c)]
                      /\ UNCHANGED <<list, using, held, sent, late, barred>>
              Make == /\ AtStage(c, "route") /\ stage'[c] = "build"
                      /\ UNCHANGED <<list, using, held, seen, sent, late, barred>>
              Call == /\ stage[c] \in {"route", "build"} /\ stage'[c] = "sent"
                      /\ sent'[c][1] \in Listed(using[c])
                      /\ sent'[c][1] \in Managed => sent'[c] \notin seen[c]
                      /\ UNCHANGED <<list, using, held, seen, late, barred>>
  <1>3. Idle \/ Begin(c) \/ Hit \/ Miss \/ SaveList(c) \/ Look \/ Make \/ Call \/ Finish(c)
    BY OwnStep, Zenon
  <1>4. ~Idle => session[c] # None /\ Space(c) \in Namespaces /\ Space(c)' = Space(c)
    <2>1. ~Idle => session' = session /\ session[c] # None
      BY <1>1, <1>3 DEF HasSession, Begin, SaveList, Finish
    <2>. QED
      BY <2>1, SessionSpace DEF Space
  <1>5. Begin(c) => /\ stage[c] = "idle" /\ stage'[c] = "list" /\ UNCHANGED <<list, using, held, seen, sent>>
                    /\ late'[c] = {s \in Servers : gone[Space(c)][s] = Late}
                    /\ barred'[c] = {p \in off[Space(c)] : p[1] \in Managed}
    BY DEF Begin, CatalogTypes, caches, tables
  <1>6. SaveList(c) => /\ stage[c] = "save" /\ stage'[c] = "mappings" /\ UNCHANGED <<using, seen, sent, late, barred>>
                       /\ list' = [list EXCEPT ![Space(c)] = [rows |-> using[c], age |-> 0]]
    BY DEF SaveList, CatalogTypes
  <1>7. Finish(c) => /\ stage'[c] = "idle" /\ sent'[c] = None /\ late'[c] = {} /\ barred'[c] = {} /\ list' = list
    BY DEF Finish, Clear, CatalogTypes, caches
  <1>. HIDE DEF Idle, Hit, Miss, Look, Make, Call
  <1>8. HasSession'
    <2>. SUFFICES ASSUME NEW d \in Clients, stage'[d] # "idle" PROVE session'[d] # None
      BY DEF HasSession
    <2>1. CASE d # c
      BY <1>1, <2>1 DEF OthersWait, HasSession
    <2>2. CASE d = c
      BY <1>1, <1>3, <1>4, <2>2 DEF HasSession, Idle, Begin, SaveList, Finish, Hit, Miss, Look, Make, Call, caches, tables
    <2>. QED
      BY <2>1, <2>2
  <1>9. AgeInv'
    <2>1. \A n \in Namespaces : \A s \in mapped'[n] : gone'[n][s] = 0
      BY <1>1 DEF AgeInv
    <2>2. ASSUME NEW n \in Namespaces, list'[n] # None, NEW s \in Listed(list'[n].rows)
          PROVE  gone'[n][s] <= list'[n].age + Slow
      <3>1. CASE list' = list
        BY <1>1, <2>2, <3>1 DEF AgeInv
      <3>2. CASE SaveList(c) /\ n # Space(c)
        <4>1. list'[n] = list[n]
          BY <1>6, <3>2 DEF CatalogTypes
        <4>. QED
          BY <1>1, <2>2, <4>1 DEF AgeInv
      <3>3. CASE SaveList(c) /\ n = Space(c)
        <4>1. list'[n] = [rows |-> using[c], age |-> 0]
          BY <1>6, <3>3 DEF CatalogTypes
        <4>2. s \in Listed(using[c]) /\ s \in Servers /\ gone[n][s] <= held[c]
          BY <1>6, <2>2, <3>3, <4>1 DEF AgeInv, Listed
        <4>3. held[c] \in 0..Slow /\ gone[n][s] \in 0..Late
          BY <4>2 DEF CatalogTypes
        <4>. QED
          BY <1>1, <4>1, <4>2, <4>3, CatalogAssumption DEF CatalogAssumption, Late
      <3>. QED
        BY <1>3, <1>5, <1>7, <3>1, <3>2, <3>3 DEF Idle, Hit, Miss, Look, Make, Call
    <2>3. ASSUME NEW d \in Clients, stage'[d] = "save", NEW s \in Listed(using'[d])
          PROVE  gone'[Space(d)'][s] <= held'[d]
      <3>1. CASE d # c
        BY <1>1, <1>2, <2>3, <3>1 DEF OthersWait, AgeInv
      <3>2. CASE d = c
        <4>1. Miss
          BY <1>3, <1>5, <1>6, <1>7, <2>3, <3>2 DEF Idle, Hit, Look, Make, Call
        <4>2. s \in Listed(Table(Space(c))) /\ Space(c)' = Space(c) /\ Space(c) \in Namespaces
          BY <1>4, <2>3, <3>2, <4>1 DEF Miss, Idle
        <4>3. gone[Space(c)][s] = 0
          BY <4>2, MappedIsNotLate
        <4>4. held'[c] = held[c] /\ held[c] \in 0..Slow
          BY <4>1 DEF Miss, CatalogTypes
        <4>. QED
          BY <1>1, <3>2, <4>2, <4>3, <4>4
      <3>. QED
        BY <3>1, <3>2
    <2>. QED
      BY <2>1, <2>2, <2>3 DEF AgeInv
  <1>10. LateInv'
    <2>. SUFFICES ASSUME NEW d \in Clients
                  PROVE  /\ stage'[d] = "idle" => late'[d] = {}
                         /\ \A s \in late'[d] : gone'[Space(d)'][s] = Late
                         /\ Using(d)' => late'[d] \cap Listed(using'[d]) = {}
                         /\ stage'[d] # "sent" => sent'[d] = None
                         /\ sent'[d] # None => sent'[d][1] \in Listed(using'[d])
      BY DEF LateInv, Late
    <2>1. CASE d # c
      BY <1>1, <1>2, <2>1 DEF OthersWait, LateInv, Using
    <2>2. CASE d = c
      <3>. USE <2>2 DEF LateInv, Using
      <3>1. CASE Idle
        BY <3>1 DEF Idle
      <3>2. CASE Begin(c)
        BY <1>1, <1>4, <1>5, <3>2 DEF Idle, Begin
      <3>3. CASE Hit
        <4>1. session[c] # None /\ Space(c) \in Namespaces /\ Space(c)' = Space(c)
          BY <1>4, <3>3 DEF Idle, Hit
        <4>2. ASSUME NEW s \in late[c], s \in Listed(using'[c]) PROVE FALSE
          BY <3>3, <4>1, <4>2, CachedIsNotLate DEF Hit
        <4>. QED
          BY <1>1, <3>3, <4>1, <4>2 DEF Hit
      <3>4. CASE Miss
        <4>1. session[c] # None /\ Space(c) \in Namespaces /\ Space(c)' = Space(c)
          BY <1>4, <3>4 DEF Idle, Miss
        <4>2. ASSUME NEW s \in late[c], s \in Listed(using'[c]) PROVE FALSE
          BY <3>4, <4>1, <4>2, MappedIsNotLate DEF Miss
        <4>. QED
          BY <1>1, <3>4, <4>1, <4>2 DEF Miss
      <3>5. CASE SaveList(c)
        BY <1>1, <1>4, <1>6, <3>5 DEF Idle
      <3>6. CASE Look \/ Make
        BY <1>1, <1>4, <3>6 DEF Idle, Look, Make
      <3>7. CASE Call
        BY <1>1, <1>4, <3>7 DEF Idle, Call
      <3>8. CASE Finish(c)
        BY <1>7, <3>8
      <3>. QED
        BY <1>3, <3>1, <3>2, <3>3, <3>4, <3>5, <3>6, <3>7, <3>8
    <2>. QED
      BY <2>1, <2>2
  <1>11. BarredInv'
    <2>. SUFFICES ASSUME NEW d \in Clients
                  PROVE  /\ stage'[d] = "idle" => barred'[d] = {}
                         /\ \A p \in barred'[d] : p[1] \in Managed /\ p \in off'[Space(d)']
                         /\ Seeing(d)' => barred'[d] \subseteq seen'[d]
                         /\ sent'[d] \notin barred'[d]
      BY DEF BarredInv
    <2>1. CASE d # c
      BY <1>1, <1>2, <2>1 DEF OthersWait, BarredInv, Seeing
    <2>2. CASE d = c
      <3>. USE <2>2 DEF BarredInv, Seeing
      <3>1. CASE Idle
        BY <3>1 DEF Idle
      <3>2. CASE Begin(c)
        <4>1. sent[c] = None
          BY <1>5, <3>2 DEF LateInv
        <4>2. Space(c) \in Namespaces /\ Space(c)' = Space(c) /\ session[c] # None
          BY <3>2, <1>1, SessionSpace DEF Begin, Space
        <4>3. barred'[c] \subseteq Servers \X Tools
          BY <1>5, <3>2, <4>2 DEF CatalogTypes
        <4>. QED
          BY <1>1, <1>5, <3>2, <4>1, <4>2, <4>3, CatalogAssumption DEF CatalogAssumption
      <3>3. CASE Hit \/ Miss
        BY <1>1, <1>4, <3>3 DEF Idle, Hit, Miss
      <3>4. CASE SaveList(c)
        BY <1>1, <1>4, <1>6, <3>4 DEF Idle
      <3>5. CASE Look
        BY <1>1, <1>4, <3>5 DEF Idle, Look
      <3>6. CASE Make
        BY <1>1, <1>4, <3>6 DEF Idle, Make
      <3>7. CASE Call
        BY <1>1, <1>4, <3>7 DEF Idle, Call
      <3>8. CASE Finish(c)
        BY <1>7, <3>8
      <3>. QED
        BY <1>3, <3>1, <3>2, <3>3, <3>4, <3>5, <3>6, <3>7, <3>8
    <2>. QED
      BY <2>1, <2>2
  <1>. QED
    BY <1>8, <1>9, <1>10, <1>11

\* A tick adds as much to the age of what is cached or held as to what is gone.
LEMMA TickKeeps ==
    ASSUME CatalogInv, Tick
    PROVE  HasSession' /\ AgeInv' /\ LateInv' /\ BarredInv'
  <1>. USE DEF CatalogInv, AtStage
  <1>1. UNCHANGED <<mapped, off, stage, session, using, seen, sent, late, barred>>
    BY DEF Tick, tables
  <1>2. \A c \in Clients : Space(c)' = Space(c)
    BY <1>1 DEF Space
  <1>3. HasSession' /\ BarredInv'
    BY <1>1, <1>2 DEF HasSession, BarredInv, Seeing
  <1>4. \A n \in Namespaces, s \in Servers :
            gone'[n][s] = IF s \in mapped[n] \/ gone[n][s] = Late THEN gone[n][s] ELSE gone[n][s] + 1
    BY DEF Tick
  <1>5. \A n \in Namespaces, s \in Servers :
            gone[n][s] \in Nat /\ gone'[n][s] \in Nat /\ gone'[n][s] <= gone[n][s] + 1
    <2>1. \A n \in Namespaces, s \in Servers : gone[n][s] \in Nat
      BY CatalogAssumption DEF CatalogTypes, CatalogAssumption, Late
    <2>. QED
      BY <1>4, <2>1
  <1>6. \A n \in Namespaces : \A s \in mapped'[n] : gone'[n][s] = 0
    BY <1>1, <1>4 DEF AgeInv, CatalogTypes
  <1>7. ASSUME NEW n \in Namespaces, list'[n] # None, NEW s \in Listed(list'[n].rows)
        PROVE  gone'[n][s] <= list'[n].age + Slow
    <2>1. list[n] # None /\ list'[n] = [rows |-> list[n].rows, age |-> list[n].age + 1]
      BY <1>7, AgedType DEF Tick, CatalogTypes
    <2>2. s \in Servers /\ s \in Listed(list[n].rows) /\ list[n].age \in 0..TTL - 1
      BY <1>7, <2>1 DEF Listed, CatalogTypes, Entries
    <2>3. gone[n][s] <= list[n].age + Slow
      BY <2>1, <2>2 DEF AgeInv
    <2>4. list'[n].age = list[n].age + 1
      BY <2>1
    <2>5. /\ gone[n][s] \in Nat /\ gone'[n][s] \in Nat /\ gone'[n][s] <= gone[n][s] + 1
          /\ list[n].age \in Nat /\ Slow \in Nat
      BY <1>5, <2>2, CatalogAssumption DEF CatalogAssumption
    <2>. QED
      BY <2>3, <2>4, <2>5
  <1>8. ASSUME NEW c \in Clients, stage'[c] = "save", NEW s \in Listed(using'[c])
        PROVE  gone'[Space(c)'][s] <= held'[c]
    <2>1. stage[c] = "save" /\ s \in Listed(using[c]) /\ s \in Servers
      BY <1>1, <1>8 DEF Listed
    <2>2. Space(c) \in Namespaces /\ Space(c)' = Space(c)
      BY <1>2, <2>1, SessionSpace DEF HasSession
    <2>3. gone[Space(c)][s] <= held[c] /\ held[c] \in 0..Slow /\ held'[c] = held[c] + 1
      BY <2>1 DEF AgeInv, CatalogTypes, Tick
    <2>4. /\ gone[Space(c)][s] \in Nat /\ gone'[Space(c)][s] \in Nat
          /\ gone'[Space(c)][s] <= gone[Space(c)][s] + 1 /\ held[c] \in Nat
      BY <1>5, <2>1, <2>2, <2>3, CatalogAssumption DEF CatalogAssumption
    <2>. QED
      BY <2>2, <2>3, <2>4
  <1>9. LateInv'
    <2>. SUFFICES ASSUME NEW c \in Clients, NEW s \in late[c]
                  PROVE  gone'[Space(c)][s] = Late
      BY <1>1, <1>2 DEF LateInv, Late, Using
    <2>1. s \in Servers /\ gone[Space(c)][s] = Late /\ session[c] # None
      BY DEF CatalogTypes, LateInv, HasSession
    <2>. QED
      BY <1>4, <2>1, SessionSpace
  <1>. QED
    BY <1>3, <1>6, <1>7, <1>8, <1>9 DEF AgeInv

\* Every step keeps the invariant.
LEMMA CatalogInvStep == CatalogInv /\ [CatalogNext]_catalogVars => CatalogInv'
  <1>. SUFFICES ASSUME CatalogInv, [CatalogNext]_catalogVars PROVE CatalogInv'
    OBVIOUS
  <1>1. CatalogTypes'
    BY CatalogTypesStep DEF CatalogInv
  <1>2. CASE UNCHANGED catalogVars
    BY <1>1, <1>2 DEF catalogVars, CatalogInv, HasSession, AgeInv, LateInv, BarredInv,
                      AtStage, Space, Using, Seeing
  <1>3. CASE AdminEdits \/ TenantStep
    BY <1>1, <1>3, EditKeeps DEF CatalogInv
  <1>4. ASSUME NEW c \in Clients, ClientStep(c) PROVE CatalogInv'
    BY <1>1, <1>4, ClientKeeps DEF CatalogInv
  <1>5. CASE Tick
    BY <1>1, <1>5, TickKeeps DEF CatalogInv
  <1>. QED
    BY <1>2, <1>3, <1>4, <1>5 DEF CatalogNext, AdminStep

\* The invariant holds of every run, for any rows, caches and clients.
THEOREM CatalogInvariance == CatalogSpec => []CatalogInv
  BY CatalogInvInit, CatalogInvStep, PTL DEF CatalogSpec

-----------------------------------------------------------------------------
(* What it shows                                                           *)

\* The tables, the caches and the requests have their types (src/internal/db/repos.go,
\* aggregator.go): a mapping is of a server and a namespace that have rows, an
\* endpoint leads to a namespace that has one, and an entry is used under nsCacheTTL.
THEOREM CatalogTypeCorrect == CatalogSpec => []CatalogTypes
  <1>1. CatalogInv => CatalogTypes
    BY DEF CatalogInv
  <1>. QED
    BY <1>1, CatalogInvariance, PTL

\* ListTools and CallTool agree: a name that was listed for a tool of a well-named
\* server calls that tool, whichever servers answered to the one or the other.
THEOREM ListedNamesCall == CatalogSpec => []ListedIsCalled
  <1>1. ASSUME CatalogTypes PROVE ListedIsCalled
    <2>. SUFFICES ASSUME NEW n \in spaces, NEW entry \in ListTools(Table(n), Servers, off[n]),
                         WellNamed(Table(n), entry.server),
                         NEW routed \in SUBSET Listed(Table(n))
                  PROVE  Targets(Table(n), Only(Table(n), routed), off[n], entry.name)
                            = {<<entry.server, entry.tool>>}
      BY DEF ListedIsCalled
    <2>1. n \in Namespaces /\ Table(n) \in Tables
      BY <1>1, TableType DEF CatalogTypes
    <2>2. PICK p \in (Listed(Table(n)) \cap Servers) \X Tools :
            /\ p[2] \in Offers[p[1]] /\ p \notin off[n]
            /\ entry = [name |-> Shown(Table(n), p[1], p[2]), server |-> p[1], tool |-> p[2]]
      BY DEF ListTools
    <2>3. /\ entry.name = Shown(Table(n), p[1], p[2]) /\ entry.server = p[1] /\ entry.tool = p[2]
          /\ p[1] \in Listed(Table(n)) /\ p = <<p[1], p[2]>>
      BY <2>2
    <2>4. Targets(Table(n), Only(Table(n), routed), off[n], Shown(Table(n), p[1], p[2])) = {<<p[1], p[2]>>}
      BY <2>1, <2>2, <2>3, CallsWhatIsListed
    <2>. QED
      BY <2>3, <2>4
  <1>. QED
    BY <1>1, CatalogTypeCorrect, PTL

\* A tenant's switch for a tool holds at once: CallTool reads the mappings of each
\* call, so no call is sent to a tool that has been off since before it came.
THEOREM SwitchHolds == CatalogSpec => []DisabledRefused
  <1>1. CatalogInv => DisabledRefused
    BY DEF CatalogInv, BarredInv, DisabledRefused
  <1>. QED
    BY <1>1, CatalogInvariance, PTL

\* getServers and buildRouteMap keep to nsCacheTTL: no call goes to a server that was
\* gone for TTL and the time of one reading when the call came.
THEOREM NoCallToLate == CatalogSpec => []NoLateCall
  <1>1. ASSUME CatalogInv PROVE NoLateCall
    <2>. SUFFICES ASSUME NEW c \in Clients, sent[c] # None PROVE sent[c][1] \notin late[c]
      BY DEF NoLateCall
    <2>1. AtStage(c, "sent")
      BY <1>1 DEF CatalogInv, LateInv
    <2>. QED
      BY <1>1, <2>1 DEF CatalogInv, LateInv, Using, AtStage
  <1>. QED
    BY <1>1, CatalogInvariance, PTL

-----------------------------------------------------------------------------
(* Discovery: the breaker, the requests that share it and the fetches      *)

\* The breaker is well formed, and closed exactly below MaxFailures.
Sound(b) == b \in Breakers /\ (IsClosed(b) <=> b.failures < MaxFailures)

\* Let in since the breaker last opened, and not sent yet.
Admitted == Acquiring \ early

\* The breaker's part of the invariant: of the requests sent upstream in a
\* half-open period, or let in and still to be sent, all but one are counted;
\* none is kept afterwards; and an open breaker has let in nobody who is not early.
BreakerInv ==
    /\ Sound(breaker)
    /\ probing \in Nat
    /\ early \subseteq Acquiring
    /\ IsHalfOpen(breaker) => probing + Cardinality(Admitted) <= breaker.probes + 1
    /\ ~IsHalfOpen(breaker) => probing = 0
    /\ IsOpen(breaker) => Admitted = {}

\* The requests' part: only listings use the single flight.
ControlInv ==
    /\ cache \in {"none", "fresh", "stale"}
    /\ flight \in Requests \cup {NoRequest}
    /\ errorStatus \in {"NONE", "ERROR"}
    /\ pc \in [Requests -> Steps]
    /\ kind \in [Requests -> Kinds]
    /\ \A r \in Requests : pc[r] \in {"lookup", "join", "wait", "land"} => kind[r] = "list"
    /\ OneFlight

IInv == BreakerInv /\ ControlInv

-----------------------------------------------------------------------------
(* The breaker                                                             *)

\* breaker.go:33-35: a new breaker.
LEMMA NewSound == Sound(NewBreaker)
BY BreakerAssumption DEF Sound, NewBreaker, Breakers, IsClosed

\* breaker.go:37-58: an admitting Allow opens no breaker, and counts every probe
\* but the one that finds the cooldown over.
LEMMA AllowedSound ==
    ASSUME NEW b, Sound(b), Admits(b)
    PROVE  /\ Sound(Allowed(b))
           /\ ~IsOpen(Allowed(b))
           /\ IsHalfOpen(b) => IsHalfOpen(Allowed(b)) /\ Allowed(b).probes = b.probes + 1
           /\ IsClosed(b) => Allowed(b) = b
           /\ Allowed(b).probes \in Nat
<1>1. CASE IsClosed(b)
    BY <1>1, BreakerAssumption DEF Sound, Allowed, Breakers, IsClosed, IsOpen, IsHalfOpen
<1>2. CASE IsOpen(b)
    BY <1>2, BreakerAssumption
    DEF Sound, Allowed, HalfOpened, Breakers, IsClosed, IsOpen, IsHalfOpen
<1>3. CASE IsHalfOpen(b)
    <2>1. Allowed(b) = [b EXCEPT !.probes = @ + 1]
        BY <1>3 DEF Allowed, IsOpen, IsHalfOpen
    <2>2. b.probes < MaxProbes
        BY <1>3 DEF Admits, IsClosed, IsOpen, IsHalfOpen
    <2> QED
        BY <1>3, <2>1, <2>2, BreakerAssumption
        DEF Sound, Breakers, IsClosed, IsOpen, IsHalfOpen
<1> QED
    BY <1>1, <1>2, <1>3 DEF Sound, Breakers, IsClosed, IsOpen, IsHalfOpen

\* breaker.go:60-68: Success closes the breaker.
LEMMA SucceededSound ==
    ASSUME NEW b, Sound(b)
    PROVE  Sound(Succeeded(b)) /\ IsClosed(Succeeded(b))
BY BreakerAssumption DEF Sound, Succeeded, Breakers, IsClosed

\* breaker.go:70-89: Failure leaves no breaker half-open.
LEMMA FailedSound ==
    ASSUME NEW b, Sound(b)
    PROVE  Sound(Failed(b)) /\ ~IsHalfOpen(Failed(b))
<1>1. Count(b) \in 0 .. MaxFailures
    BY BreakerAssumption DEF Sound, Count, Breakers
<1>2. Trips(b) => Count(b) = MaxFailures
    BY BreakerAssumption DEF Sound, Trips, Count, Breakers, IsClosed, IsHalfOpen
<1>3. ~Trips(b) => (IsClosed(b) <=> Count(b) < MaxFailures)
    BY BreakerAssumption DEF Sound, Trips, Count, Breakers, IsClosed, IsHalfOpen
<1> QED
    BY <1>1, <1>2, <1>3, BreakerAssumption
    DEF Sound, Failed, Trips, Breakers, IsClosed, IsHalfOpen

\* The cooldown passes.
LEMMA CooledSound ==
    ASSUME NEW b, Sound(b), IsOpen(b)
    PROVE  Sound(Cooled(b)) /\ IsOpen(Cooled(b))
BY DEF Sound, Cooled, Breakers, IsClosed, IsOpen

-----------------------------------------------------------------------------
(* The invariant                                                           *)

\* A request that moves on is acquiring a client or is not.
LEMMA GotoMoves ==
    ASSUME ControlInv, NEW r \in Requests, NEW step, Goto(r, step)
    PROVE  Acquiring' = IF step = "acquire" THEN Acquiring \cup {r} ELSE Acquiring \ {r}
BY DEF ControlInv, Goto, Acquiring, At

\* Whoever returns acquires nothing.
LEMMA ReturnMoves ==
    ASSUME ControlInv, NEW S, Return(S)
    PROVE  Acquiring' = Acquiring \ S
BY DEF ControlInv, Return, Acquiring, At

\* A request that leaves with its outcome acquires nothing.
LEMMA LeavesMoves ==
    ASSUME ControlInv, NEW r \in Requests, Leaves(r)
    PROVE  Acquiring' = Acquiring \ {r}
BY GotoMoves, ReturnMoves DEF Leaves

\* A request that arrives begins by acquiring a client or does not.
LEMMA ArrivesMoves ==
    ASSUME ControlInv, NEW r \in Requests, NEW k, NEW step, Arrives(r, k, step)
    PROVE  /\ r \notin Acquiring
           /\ Acquiring' = IF step = "acquire" THEN Acquiring \cup {r} ELSE Acquiring
BY DEF ControlInv, Arrives, Acquiring, At

\* The requests that acquire a client are finitely many.
LEMMA AdmittedFinite ==
    /\ IsFiniteSet(Admitted) /\ Cardinality(Admitted) \in Nat
    /\ Admitted = {} => Cardinality(Admitted) = 0
BY DiscoveryAssumption, FS_Subset, FS_CardinalityType, FS_EmptySet DEF Admitted, Acquiring

\* One more request is let in.
LEMMA OneLetIn ==
    ASSUME NEW r \in Requests, r \notin Acquiring, early \subseteq Acquiring,
           Acquiring' = Acquiring \cup {r}, early' = early
    PROVE  Cardinality(Admitted') = Cardinality(Admitted) + 1
<1>1. Admitted' = Admitted \cup {r} /\ r \notin Admitted
    BY DEF Admitted
<1> QED
    BY <1>1, AdmittedFinite, FS_AddElement

\* One request is sent, or fails before.
LEMMA OneGone ==
    ASSUME NEW r \in Requests, Acquiring' = Acquiring \ {r}, early' = early \ {r}
    PROVE  Cardinality(Admitted') = IF r \in Admitted THEN Cardinality(Admitted) - 1
                                                      ELSE Cardinality(Admitted)
<1>1. Admitted' = Admitted \ {r}
    BY DEF Admitted
<1>2. CASE r \in Admitted
    BY <1>1, <1>2, AdmittedFinite, FS_RemoveElement
<1>3. CASE r \notin Admitted
    <2>1. Admitted' = Admitted
        BY <1>1, <1>3
    <2> QED
        BY <1>3, <2>1
<1> QED
    BY <1>2, <1>3

\* Asking the breaker keeps its part of the invariant, whether the request goes on
\* to acquire a client or is a listing that may yet be served without.
LEMMA AskPreserves ==
    ASSUME BreakerInv, Admits(breaker), SetBreaker(Allowed(breaker)), early' = early,
           NEW r \in Requests, r \notin Acquiring,
           Acquiring' = Acquiring \/ Acquiring' = Acquiring \cup {r}
    PROVE  BreakerInv'
<1>1. Sound(breaker') /\ ~IsOpen(breaker') /\ breaker'.probes \in Nat
    BY AllowedSound DEF BreakerInv, SetBreaker
<1>2. /\ probing' \in Nat /\ (~IsHalfOpen(breaker') => probing' = 0)
      /\ early' \subseteq Acquiring'
    BY DEF BreakerInv, SetBreaker
<1>3. /\ Cardinality(Admitted) \in Nat /\ Cardinality(Admitted') \in Nat
      /\ Cardinality(Admitted') <= Cardinality(Admitted) + 1
    <2>1. CASE Acquiring' = Acquiring
        <3>1. Admitted' = Admitted
            BY <2>1 DEF Admitted
        <3> QED
            BY <3>1, AdmittedFinite
    <2>2. CASE Acquiring' = Acquiring \cup {r}
        BY <2>2, OneLetIn, AdmittedFinite DEF BreakerInv
    <2> QED
        BY <2>1, <2>2
<1>4. ASSUME IsHalfOpen(breaker')
      PROVE  probing' + Cardinality(Admitted') <= breaker'.probes + 1
    <2>1. probing' = probing /\ probing \in Nat
        BY <1>4 DEF SetBreaker, BreakerInv
    <2>2. CASE IsHalfOpen(breaker)
        <3>1. breaker'.probes = breaker.probes + 1 /\ breaker.probes \in Nat
            BY <2>2, AllowedSound, BreakerAssumption
            DEF BreakerInv, SetBreaker, Sound, Breakers
        <3> QED
            BY <1>3, <2>1, <2>2, <3>1 DEF BreakerInv
    <2>3. CASE ~IsHalfOpen(breaker)
        <3>1. IsOpen(breaker)
            <4>1. IsClosed(breaker) => breaker' = breaker
                BY AllowedSound DEF BreakerInv, SetBreaker
            <4> QED
                BY <1>4, <2>3, <4>1 DEF Admits, IsClosed, IsHalfOpen
        <3>2. Cardinality(Admitted) = 0 /\ probing = 0
            BY <2>3, <3>1, AdmittedFinite DEF BreakerInv
        <3> QED
            BY <1>1, <1>3, <2>1, <3>2
    <2> QED
        BY <2>2, <2>3
<1> QED
    BY <1>1, <1>2, <1>4 DEF BreakerInv

\* A success closes the breaker.
LEMMA SuccessPreserves ==
    ASSUME BreakerInv, SetBreaker(Succeeded(breaker)),
           Acquiring' = Acquiring, early' = early
    PROVE  BreakerInv'
<1>1. Sound(breaker') /\ ~IsHalfOpen(breaker') /\ ~IsOpen(breaker')
    BY SucceededSound DEF BreakerInv, SetBreaker, IsClosed, IsHalfOpen, IsOpen
<1>2. probing' = 0
    BY <1>1 DEF SetBreaker
<1> QED
    BY <1>1, <1>2 DEF BreakerInv

\* A failure ends a half-open period, and those who acquire a client when it opens
\* the breaker are early.
LEMMA FailurePreserves ==
    ASSUME BreakerInv, SetBreaker(Failed(breaker)), NEW r \in Requests,
           Acquiring' = Acquiring \ {r},
           early' = IF Trips(breaker) THEN Acquiring \ {r} ELSE early \ {r}
    PROVE  BreakerInv'
<1>1. Sound(breaker') /\ ~IsHalfOpen(breaker')
    BY FailedSound DEF BreakerInv, SetBreaker
<1>2. probing' = 0 /\ early' \subseteq Acquiring'
    BY <1>1 DEF SetBreaker, BreakerInv
<1>3. ASSUME IsOpen(breaker') PROVE Admitted' = {}
    <2>1. CASE Trips(breaker)
        BY <2>1 DEF Admitted
    <2>2. CASE ~Trips(breaker)
        <3>1. IsOpen(breaker)
            BY <1>3, <2>2 DEF SetBreaker, Failed, IsOpen, BreakerInv, Sound, Breakers
        <3> QED
            BY <2>2, <3>1 DEF BreakerInv, Admitted
    <2> QED
        BY <2>1, <2>2
<1> QED
    BY <1>1, <1>2, <1>3 DEF BreakerInv

\* A request is sent, or its client went away: one fewer acquires.
LEMMA GonePreserves ==
    ASSUME BreakerInv, breaker' = breaker, NEW r \in Requests,
           Acquiring' = Acquiring \ {r}, early' = early \ {r},
           \/ probing' = probing
           \/ r \in Admitted /\ IsHalfOpen(breaker) /\ probing' = probing + 1
    PROVE  BreakerInv'
<1>1. /\ Cardinality(Admitted) \in Nat
      /\ Cardinality(Admitted') = IF r \in Admitted THEN Cardinality(Admitted) - 1
                                                    ELSE Cardinality(Admitted)
    BY OneGone, AdmittedFinite
<1>2. Sound(breaker') /\ early' \subseteq Acquiring' /\ probing' \in Nat
    BY DEF BreakerInv
<1>3. /\ breaker.probes \in Nat
      /\ IsHalfOpen(breaker) => probing + Cardinality(Admitted) <= breaker.probes + 1
    BY BreakerAssumption DEF BreakerInv, Sound, Breakers
<1>4. IsHalfOpen(breaker') => probing' + Cardinality(Admitted') <= breaker'.probes + 1
    BY <1>1, <1>3 DEF BreakerInv
<1>5. /\ ~IsHalfOpen(breaker') => probing' = 0
      /\ IsOpen(breaker') => Admitted' = {}
    BY DEF BreakerInv, Admitted
<1> QED
    BY <1>2, <1>4, <1>5 DEF BreakerInv

\* Every step keeps the breaker's part of the invariant.
LEMMA BreakerPreserved ==
    ASSUME BreakerInv, ControlInv, [Next]_vars
    PROVE  BreakerInv'
<1>1. ASSUME UNCHANGED <<breaker, history>>, Acquiring' = Acquiring PROVE BreakerInv'
    BY <1>1 DEF BreakerInv, Sound, IsHalfOpen, IsClosed, IsOpen, Admitted, history
<1>2. ASSUME NEW r \in Requests, CallAllowed(r) \/ ListAllowed(r) PROVE BreakerInv'
    BY <1>2, AskPreserves, ArrivesMoves DEF CallAllowed, ListAllowed
<1>3. ASSUME NEW r \in Requests, FetchAllowed(r) PROVE BreakerInv'
    BY <1>3, AskPreserves, GotoMoves DEF FetchAllowed, Acquiring, At
<1>4. ASSUME NEW r \in Requests, GoesUpstream(r) PROVE BreakerInv'
    BY <1>4, GonePreserves, GotoMoves DEF GoesUpstream, Admitted, Acquiring
<1>5. ASSUME NEW r \in Requests, ClientGone(r) PROVE BreakerInv'
    BY <1>5, GonePreserves, LeavesMoves DEF ClientGone
<1>6. ASSUME NEW r \in Requests, Succeed(r) PROVE BreakerInv'
    BY <1>6, SuccessPreserves, GotoMoves DEF Succeed, Acquiring, At
<1>7. ASSUME NEW r \in Requests, Fail(r) PROVE BreakerInv'
    <2>1. Acquiring' = Acquiring \ {r}
        BY <1>7, GotoMoves, LeavesMoves DEF Fail
    <2> QED
        BY <1>7, <2>1, FailurePreserves DEF Fail
<1>8. ASSUME CooldownPasses PROVE BreakerInv'
    <2>1. Sound(breaker') /\ IsOpen(breaker') /\ IsOpen(breaker)
        BY <1>8, CooledSound DEF CooldownPasses, BreakerInv
    <2>2. UNCHANGED <<probing, early>> /\ Acquiring' = Acquiring
        BY <1>8 DEF CooldownPasses, history, Acquiring, At
    <2> QED
        BY <2>1, <2>2 DEF BreakerInv, IsOpen, IsHalfOpen, Admitted
<1>9. ASSUME NEW r \in Requests, RouteBegins(r) \/ TestBegins(r) PROVE BreakerInv'
    BY <1>1, <1>9, ArrivesMoves DEF RouteBegins, TestBegins
<1>10. ASSUME NEW r \in Requests,
              \/ Lookup(r) \/ Join(r) \/ FetchRefused(r)
              \/ Quarantine(r) \/ Unquarantine(r) \/ Store(r) \/ Land(r)
       PROVE BreakerInv'
    <2>1. UNCHANGED <<breaker, history>>
        BY <1>10 DEF Lookup, Join, FetchRefused, Quarantine, Unquarantine, Store, Land
    <2>2. r \notin Acquiring /\ Waiting \cap Acquiring = {}
        BY <1>10 DEF Lookup, Join, FetchRefused, Quarantine, Unquarantine, Store, Land,
            Waiting, Acquiring, At
    <2>3. \/ \E step \in Steps \ {"acquire"} : Goto(r, step)
          \/ Return({r}) \/ Return({r} \cup Waiting)
        BY <1>10 DEF Lookup, Join, FetchRefused, Quarantine, Unquarantine, Store, Land,
            Leaves, Steps
    <2>4. Acquiring' = Acquiring
        BY <2>2, <2>3, GotoMoves, ReturnMoves
    <2> QED
        BY <1>1, <2>1, <2>4
<1>11. ASSUME NEW r \in Requests, Refused(r) PROVE BreakerInv'
    BY <1>1, <1>11 DEF Refused, vars, history, Acquiring, At
<1>12. CASE CacheExpires \/ UNCHANGED vars
    BY <1>1, <1>12 DEF CacheExpires, vars, history, Acquiring, At
<1> QED
    BY <1>2, <1>3, <1>4, <1>5, <1>6, <1>7, <1>8, <1>9, <1>10, <1>11, <1>12 DEF Next, Proceed

\* A request that moves on within what it does keeps the requests' part.
LEMMA GotoPreserves ==
    ASSUME ControlInv, NEW r \in Requests, NEW step \in Steps, Goto(r, step),
           cache' \in {"none", "fresh", "stale"}, errorStatus' \in {"NONE", "ERROR"},
           flight' = flight, kind[r] = "list" => (pc[r] \in Fetching <=> step \in Fetching),
           step \in {"lookup", "join", "wait", "land"} => kind[r] = "list",
           step = "wait" => flight # NoRequest
    PROVE  ControlInv'
<1>1. pc' \in [Requests -> Steps] /\ pc'[r] = step /\ kind' = kind
      /\ \A q \in Requests : q # r => pc'[q] = pc[q]
    BY DEF ControlInv, Goto
<1> QED
    BY <1>1 DEF ControlInv, OneFlight, At

\* A request that returns without a flight of its own keeps the requests' part.
LEMMA ReturnPreserves ==
    ASSUME ControlInv, NEW r \in Requests, Return({r}),
           cache' \in {"none", "fresh", "stale"}, errorStatus' \in {"NONE", "ERROR"},
           flight' = flight, kind[r] # "list" \/ pc[r] \notin Fetching
    PROVE  ControlInv'
<1>1. /\ pc' \in [Requests -> Steps] /\ pc'[r] = "done"
      /\ kind' \in [Requests -> Kinds] /\ kind'[r] = "none"
      /\ \A q \in Requests : q # r => pc'[q] = pc[q] /\ kind'[q] = kind[q]
    BY DEF ControlInv, Return, Steps, Kinds
<1> QED
    BY <1>1 DEF ControlInv, OneFlight, At, Fetching

\* A request with its outcome lands or returns.
LEMMA LeavesPreserves ==
    ASSUME ControlInv, NEW r \in Requests, Leaves(r), pc[r] \in Fetching,
           cache' \in {"none", "fresh", "stale"}, errorStatus' \in {"NONE", "ERROR"},
           flight' = flight
    PROVE  ControlInv'
<1>1. CASE kind[r] = "list"
    <2>1. Goto(r, "land") /\ "land" \in Steps /\ "land" \in Fetching /\ "land" # "wait"
        BY <1>1 DEF Leaves, Steps, Fetching
    <2> QED
        BY <1>1, <2>1, GotoPreserves
<1>2. CASE kind[r] # "list"
    BY <1>2, ReturnPreserves DEF Leaves
<1> QED
    BY <1>1, <1>2

\* A request that arrives keeps the requests' part.
LEMMA ArrivesPreserves ==
    ASSUME ControlInv, NEW r \in Requests, NEW k \in Kinds, NEW step \in Steps,
           Arrives(r, k, step), UNCHANGED <<cache, flight, errorStatus>>,
           k = "list" => step = "lookup", step \notin {"join", "wait", "land"},
           step = "lookup" => k = "list"
    PROVE  ControlInv'
<1>1. /\ pc' \in [Requests -> Steps] /\ pc'[r] = step /\ pc[r] = "done"
      /\ kind' \in [Requests -> Kinds] /\ kind'[r] = k
      /\ \A q \in Requests : q # r => pc'[q] = pc[q] /\ kind'[q] = kind[q]
    BY DEF ControlInv, Arrives, At
<1> QED
    BY <1>1 DEF ControlInv, OneFlight, At, Fetching

\* Every step keeps the requests' part of the invariant.
LEMMA ControlPreserved ==
    ASSUME ControlInv, [Next]_vars
    PROVE  ControlInv'
<1> USE DEF Steps, Fetching
<1>1. cache \in {"none", "fresh", "stale"} /\ errorStatus \in {"NONE", "ERROR"}
    BY DEF ControlInv
<1>2. ASSUME NEW r \in Requests,
             CallAllowed(r) \/ ListAllowed(r) \/ RouteBegins(r) \/ TestBegins(r)
      PROVE ControlInv'
    BY <1>2, ArrivesPreserves DEF CallAllowed, ListAllowed, RouteBegins, TestBegins, Kinds
<1>3. ASSUME NEW r \in Requests, Lookup(r) PROVE ControlInv'
    <2>1. CASE cache = "fresh"
        BY <1>1, <1>3, <2>1, ReturnPreserves DEF Lookup, At
    <2>2. CASE cache # "fresh"
        BY <1>1, <1>3, <2>2, GotoPreserves DEF Lookup, At, ControlInv
    <2> QED
        BY <2>1, <2>2
<1>4. ASSUME NEW r \in Requests, Join(r) PROVE ControlInv'
    <2>1. CASE flight = NoRequest
        <3>1. /\ pc' \in [Requests -> Steps] /\ pc[r] = "join" /\ pc'[r] = "fetch"
              /\ kind' = kind /\ flight' = r
              /\ \A q \in Requests : q # r => pc'[q] = pc[q]
            BY <1>4, <2>1 DEF Join, Goto, At, ControlInv
        <3> QED
            BY <1>1, <1>4, <2>1, <3>1, DiscoveryAssumption
            DEF Join, ControlInv, OneFlight, At
    <2>2. CASE flight # NoRequest
        BY <1>1, <1>4, <2>2, GotoPreserves DEF Join, At, ControlInv
    <2> QED
        BY <2>1, <2>2
<1>5. ASSUME NEW r \in Requests, FetchAllowed(r) \/ GoesUpstream(r) \/ Succeed(r) PROVE ControlInv'
    BY <1>1, <1>5, GotoPreserves DEF FetchAllowed, GoesUpstream, Succeed, At
<1>6. ASSUME NEW r \in Requests,
             FetchRefused(r) \/ ClientGone(r) \/ Quarantine(r) \/ Store(r)
      PROVE ControlInv'
    BY <1>1, <1>6, LeavesPreserves DEF FetchRefused, ClientGone, Quarantine, Store, At
<1>7. ASSUME NEW r \in Requests, Fail(r) PROVE ControlInv'
    <2>1. CASE Trips(breaker)
        BY <1>1, <1>7, <2>1, GotoPreserves DEF Fail, At
    <2>2. CASE ~Trips(breaker)
        BY <1>1, <1>7, <2>2, LeavesPreserves DEF Fail, At
    <2> QED
        BY <2>1, <2>2
<1>8. ASSUME NEW r \in Requests, Unquarantine(r) PROVE ControlInv'
    <2>1. CASE kind[r] = "call"
        BY <1>1, <1>8, <2>1, ReturnPreserves DEF Unquarantine, At
    <2>2. CASE kind[r] # "call"
        BY <1>1, <1>8, <2>2, GotoPreserves DEF Unquarantine, At
    <2> QED
        BY <2>1, <2>2
<1>9. ASSUME NEW r \in Requests, Land(r) PROVE ControlInv'
    <2>1. pc[r] = "land" /\ kind[r] = "list" /\ flight = r /\ flight' = NoRequest
        BY <1>9 DEF Land, At, ControlInv, OneFlight
    <2>2. /\ pc' \in [Requests -> Steps] /\ kind' \in [Requests -> Kinds]
          /\ \A q \in Requests :
                IF q = r \/ pc[q] = "wait" THEN pc'[q] = "done" /\ kind'[q] = "none"
                ELSE pc'[q] = pc[q] /\ kind'[q] = kind[q]
        BY <1>9 DEF Land, Return, Waiting, At, ControlInv, Kinds
    <2> QED
        BY <1>1, <1>9, <2>1, <2>2, DiscoveryAssumption
        DEF Land, ControlInv, OneFlight, At
<1>10. CASE CacheExpires \/ CooldownPasses \/ UNCHANGED vars
    BY <1>10 DEF CacheExpires, CooldownPasses, vars, ControlInv, OneFlight, At
<1>11. ASSUME NEW r \in Requests, Refused(r) PROVE ControlInv'
    BY <1>11 DEF Refused, vars, ControlInv, OneFlight, At
<1> QED
    BY <1>2, <1>3, <1>4, <1>5, <1>6, <1>7, <1>8, <1>9, <1>10, <1>11 DEF Next, Proceed

\* The invariant holds in the initial states.
LEMMA InitIInv == Init => IInv
<1> SUFFICES ASSUME Init PROVE IInv
    OBVIOUS
<1>1. BreakerInv
    BY NewSound DEF Init, BreakerInv, NewBreaker, IsHalfOpen, IsOpen, Acquiring, At
<1>2. ControlInv
    BY DiscoveryAssumption DEF Init, ControlInv, OneFlight, At, Steps, Kinds, Fetching
<1> QED
    BY <1>1, <1>2 DEF IInv

\* The invariant holds in every reachable state, whatever requests, outcomes,
\* cancellations and expiries come in whatever order.
THEOREM Invariance == Spec => []IInv
<1>1. IInv /\ [Next]_vars => IInv'
    BY BreakerPreserved, ControlPreserved DEF IInv
<1> QED
    BY InitIInv, <1>1, PTL DEF Spec

-----------------------------------------------------------------------------
(* What follows                                                            *)

\* Type correctness: in particular the probe count stays within its bound.
THEOREM TypeCorrect == Spec => []TypeOK
<1>1. IInv => TypeOK
    BY DEF IInv, BreakerInv, Sound, ControlInv, TypeOK, Acquiring
<1> QED
    BY <1>1, Invariance, PTL

\* The breaker (breaker.go:70-89) is closed exactly below MaxFailures, for every
\* number of requests reporting to it.
THEOREM TripsAtMaxHolds == Spec => []TripsAtMax
<1>1. IInv => TripsAtMax
    BY DEF IInv, BreakerInv, Sound, TripsAtMax
<1> QED
    BY <1>1, Invariance, PTL

\* Of the requests let in since the breaker last opened, at most MaxProbes + 1 are
\* sent in a half-open period (breaker.go:37-58), whatever time lies between the
\* breaker's answer (aggregator.go:421, 557) and the sending (445, 578).
THEOREM FewProbesHolds == Spec => []FewProbes
<1>1. IInv => FewProbes
    <2> SUFFICES ASSUME IInv, IsHalfOpen(breaker)
                 PROVE  probing <= MaxProbes + 1
        BY DEF FewProbes
    <2>1. /\ probing \in Nat /\ breaker.probes \in 0 .. MaxProbes
          /\ probing + Cardinality(Admitted) <= breaker.probes + 1
        BY DEF IInv, BreakerInv, Sound, Breakers
    <2> QED
        BY <2>1, AdmittedFinite, BreakerAssumption
<1> QED
    BY <1>1, Invariance, PTL

\* At most one listing fetches, and followers have someone to wait for
\* (aggregator.go:488).
THEOREM OneFlightHolds == Spec => []OneFlight
<1>1. IInv => OneFlight
    BY DEF IInv, ControlInv
<1> QED
    BY <1>1, Invariance, PTL

\* While the breaker is open only those it let in before it opened are sent upstream
\* (breaker.go:11; aggregator.go:421-445, 557-578).
THEOREM FailsFastHolds == Spec => FailsFast
<1>1. IInv /\ [Next]_vars => FailFast
    <2> SUFFICES ASSUME IInv, [Next]_vars, IsOpen(breaker),
                        NEW r \in Requests, pc'[r] = "upstream", pc[r] # "upstream"
                 PROVE  r \in early
        BY DEF FailFast, Sent, At
    <2>1. GoesUpstream(r)
        <3> USE DEF IInv, ControlInv
        <3>1. ASSUME NEW q \in Requests, NEW step \in Steps \ {"upstream"}, Goto(q, step)
              PROVE  FALSE
            BY <3>1 DEF Goto
        <3>2. ASSUME NEW S, Return(S) PROVE FALSE
            BY <3>2 DEF Return
        <3>3. ASSUME NEW q \in Requests, Leaves(q) PROVE FALSE
            BY <3>1, <3>2, <3>3 DEF Leaves, Steps
        <3>4. ASSUME NEW q \in Requests, NEW k, NEW step \in Steps \ {"upstream"}, Arrives(q, k, step)
              PROVE  FALSE
            BY <3>4 DEF Arrives
        <3>5. ASSUME UNCHANGED pc PROVE FALSE
            BY <3>5
        <3>6. ASSUME NEW q \in Requests, Proceed(q) PROVE q = r /\ GoesUpstream(r)
            <4>1. CASE GoesUpstream(q)
                BY <4>1 DEF GoesUpstream, Goto
            <4>2. CASE ~GoesUpstream(q)
                BY <3>1, <3>2, <3>3, <3>6, <4>2
                DEF Proceed, Lookup, Join, FetchAllowed, FetchRefused, Succeed, Fail,
                    ClientGone, Quarantine, Unquarantine, Store, Land, Steps
            <4> QED
                BY <4>1, <4>2
        <3> QED
            BY <3>4, <3>5, <3>6
            DEF Next, CallAllowed, ListAllowed, RouteBegins, TestBegins, Refused,
                CooldownPasses, CacheExpires, vars, Steps
    <2>2. r \in Acquiring
        BY <2>1 DEF GoesUpstream, Acquiring
    <2> QED
        BY <2>2 DEF IInv, BreakerInv, Admitted
<1> QED
    BY <1>1, Invariance, PTL DEF Spec, FailsFast

=============================================================================
