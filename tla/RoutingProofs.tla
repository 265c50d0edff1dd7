--------------------------- MODULE RoutingProofs ---------------------------
(***************************************************************************)
(* What Routing promises for any number of servers, names, requests and    *)
(* writers.                                                                *)
(*                                                                         *)
(* Requests, the cached list and the cached route map each hold the rows   *)
(* of some earlier moment.  The invariant says that any two such tables    *)
(* agree on every server that both of them have and nobody has renamed:    *)
(* an issued UUID never gets a second row.                                 *)
(***************************************************************************)
EXTENDS Routing, TLAPS

\* All the tables there are.
Held(T) ==
    \/ T = rows
    \/ T = list /\ list # None
    \/ T = routes /\ routes # None
    \/ \E r \in Requests : T = read[r]

Agree(T, U, except) ==
    \A s \in Servers \ except : T[s] = U[s] \/ T[s] = NoName \/ U[s] = NoName

TablesInv ==
    /\ \A T, U : Held(T) /\ Held(U) => Agree(T, U, renamed)
    /\ \A T : Held(T) => \A s \in Servers : T[s] # NoName => s \in issued

\* A call has a name as long as it lasts, and a target once it is answered.
CallInv == \A r \in Requests :
    /\ ~At(r, "done") => asked[r] # NoName
    /\ ~At(r, "answer") => target[r] = NoServer

IInv == TypeOK /\ TablesInv /\ CallInv /\ NeverAnother

-----------------------------------------------------------------------------
(* Lemmas                                                                  *)

\* Servers without rows.
LEMMA NoRowsType == NoRows \in Rows /\ \A s \in Servers : NoRows[s] = NoName
BY DEF NoRows, Rows

\* What the index of names gives: the server of that name, if there is one.
LEMMA NamedIs ==
    ASSUME NEW T, NEW name
    PROVE  \/ Named(T, name) = NoServer
           \/ Named(T, name) \in Servers /\ T[Named(T, name)] = name
BY DEF Named

\* aggregator.go:352-376: the target is in the list, and bears the name there or
\* in the route map.
LEMMA TargetIs ==
    ASSUME NEW T, NEW map, NEW name
    PROVE  \/ Target(T, map, name) = NoServer
           \/ /\ Target(T, map, name) \in Servers
              /\ T[Target(T, map, name)] # NoName
              /\ \/ T[Target(T, map, name)] = name
                 \/ map[Target(T, map, name)] = name
BY NamedIs, RoutingAssumption DEF Target

\* A free name, or none, leaves names unique.
LEMMA StillUnique ==
    ASSUME rows \in Rows, NEW s \in Servers, NEW name \in Names \cup {NoName},
           name = NoName \/ Free(name)
    PROVE  [rows EXCEPT ![s] = name] \in Rows
<1> DEFINE new == [rows EXCEPT ![s] = name]
<1>1. new \in [Servers -> Names \cup {NoName}]
    BY DEF Rows
<1>2. new[s] = name /\ \A t \in Servers \ {s} : new[t] = rows[t]
    BY DEF Rows
<1>3. ASSUME NEW t \in Servers, NEW u \in Servers, new[t] = new[u]
      PROVE  t = u \/ new[t] = NoName
    BY <1>2, <1>3 DEF Rows, Free
<1> HIDE DEF new
<1>4. new \in Rows
    BY <1>1, <1>3 DEF Rows
<1> QED
    BY <1>4 DEF new

\* newServerUUID: an unused UUID, while there is one.
LEMMA FreshServer ==
    ASSUME TypeOK, issued # Servers
    PROVE  (CHOOSE t \in Servers \ issued : TRUE) \in Servers \ issued
<1>1. \E t : t \in Servers \ issued
    BY DEF TypeOK
<1> QED
    BY <1>1

\* A step that keeps the rows and makes no new table, other than an empty one,
\* keeps all tables in agreement.
LEMMA TablesKept ==
    ASSUME TypeOK, TablesInv, renamed' = renamed, issued' = issued,
           \A T : Held(T)' => Held(T) \/ T = NoRows
    PROVE  TablesInv'
<1>1. ASSUME NEW T, NEW U, Held(T)', Held(U)'
      PROVE  Agree(T, U, renamed)
    <2>1. \A s \in Servers : NoRows[s] = NoName
        BY NoRowsType
    <2>2. (Held(T) \/ T = NoRows) /\ (Held(U) \/ U = NoRows)
        BY <1>1
    <2> QED
        BY <2>1, <2>2 DEF TablesInv, Agree
<1>2. ASSUME NEW T, Held(T)', NEW s \in Servers, T[s] # NoName
      PROVE  s \in issued
    BY <1>2, NoRowsType DEF TablesInv
<1> QED
    BY <1>1, <1>2 DEF TablesInv, Agree

\* A server's new name agrees with every table once the server counts as renamed
\* or is new, and so does the removal of its row.
LEMMA RowsChanged ==
    ASSUME TypeOK, TablesInv, NEW s \in Servers, NEW name \in Names \cup {NoName},
           rows' = [rows EXCEPT ![s] = name],
           \/ name = NoName /\ issued' = issued /\ renamed' = renamed
           \/ s \notin issued /\ issued' = issued \cup {s} /\ renamed' = renamed
           \/ s \in issued /\ issued' = issued /\ renamed' = renamed \cup {s},
           UNCHANGED <<list, routes, read>>
    PROVE  TablesInv'
<1>1. \A T : Held(T)' => Held(T) \/ T = rows'
    BY DEF Held
<1>2. Held(rows)
    BY DEF Held
<1>3. rows \in [Servers -> Names \cup {NoName}]
    BY DEF TypeOK, Rows
<1>4. rows'[s] = name /\ \A t \in Servers \ {s} : rows'[t] = rows[t]
    BY <1>3
<1>5. ASSUME NEW T, Held(T)
      PROVE  Agree(T, rows', renamed') /\ Agree(rows', T, renamed')
    <2>1. Agree(T, rows, renamed)
        BY <1>2, <1>5 DEF TablesInv
    <2>2. \A t \in Servers : T[t] # NoName => t \in issued
        BY <1>5 DEF TablesInv
    <2>3. ASSUME NEW t \in Servers \ renamed'
          PROVE  T[t] = rows'[t] \/ T[t] = NoName \/ rows'[t] = NoName
        BY <1>4, <2>1, <2>2, <2>3 DEF Agree
    <2> QED
        BY <2>3 DEF Agree
<1>6. ASSUME NEW T, NEW U, Held(T), Held(U)
      PROVE  Agree(T, U, renamed')
    <2>1. Agree(T, U, renamed)
        BY <1>6 DEF TablesInv
    <2> QED
        BY <2>1 DEF Agree
<1>7. Agree(rows', rows', renamed')
    BY DEF Agree
<1>8. ASSUME NEW T, Held(T)', NEW t \in Servers, T[t] # NoName
      PROVE  t \in issued'
    BY <1>1, <1>2, <1>4, <1>8 DEF TablesInv
<1>9. ASSUME NEW T, NEW U, Held(T)', Held(U)'
      PROVE  Agree(T, U, renamed')
    BY <1>1, <1>5, <1>6, <1>7, <1>9
<1> QED
    BY <1>8, <1>9 DEF TablesInv

-----------------------------------------------------------------------------
(* The invariant                                                           *)

\* The invariant holds in the initial states.
LEMMA InitIInv == Init => IInv
<1> SUFFICES ASSUME Init PROVE IInv
    OBVIOUS
<1>1. TypeOK
    BY NoRowsType, RoutingAssumption
    DEF Init, TypeOK, Rows, RequestSteps, WriterSteps
<1>2. \A T : Held(T) => T = NoRows
    BY DEF Init, Held
<1>3. TablesInv
    BY <1>2, NoRowsType DEF TablesInv, Agree
<1>4. CallInv /\ NeverAnother
    BY DEF Init, CallInv, NeverAnother, At
<1> QED
    BY <1>1, <1>3, <1>4 DEF IInv

\* Every step keeps the types.
LEMMA TypePreserved ==
    ASSUME TypeOK, [Next]_vars
    PROVE  TypeOK'
<1> USE DEF TypeOK, RequestSteps, WriterSteps, At, Goto, storeVars, requestVars
<1>1. ASSUME NEW r \in Requests, NEW name \in Names, Arrive(r, name) PROVE TypeOK'
    BY <1>1 DEF Arrive
<1>2. ASSUME NEW r \in Requests, Return(r), UNCHANGED <<storeVars, list, routes>>
      PROVE  TypeOK'
    BY <1>2, NoRowsType DEF Return
<1>3. ASSUME NEW r \in Requests, UseList(r) \/ ReadList(r) \/ SaveList(r) \/ BuildRoutes(r)
      PROVE  TypeOK'
    BY <1>3 DEF UseList, ReadList, SaveList, BuildRoutes
<1>4. ASSUME NEW r \in Requests, NEW map, Answer(r, map), UNCHANGED <<storeVars, list>>,
             routes' \in Rows \cup {None}
      PROVE  TypeOK'
    <2>1. Target(read[r], map, asked[r]) \in Servers \cup {NoServer}
        BY TargetIs
    <2> QED
        BY <1>4, <2>1 DEF Answer
<1>5. ASSUME NEW r \in Requests, Serve(r) PROVE TypeOK'
    <2>1. CASE ReadFails(r) \/ Finish(r)
        BY <1>2, <2>1 DEF ReadFails, Finish
    <2>2. CASE UseRoutes(r)
        BY <1>4, <2>2 DEF UseRoutes
    <2>3. CASE SaveRoutes(r)
        <3>1. routes' \in Rows \cup {None}
            BY <2>3 DEF SaveRoutes
        <3> QED
            BY <1>4, <2>3, <3>1 DEF SaveRoutes
    <2>4. ASSUME NEW failing \in SUBSET Servers, BuildRoutesPartly(r, failing) PROVE TypeOK'
        BY <1>4, <2>4 DEF BuildRoutesPartly
    <2> QED
        BY <1>3, <1>5, <2>1, <2>2, <2>3, <2>4 DEF Serve
<1>6. ASSUME NEW w \in Writers, NEW name \in Names, Create(w, name) PROVE TypeOK'
    <2>1. PICK s \in Servers : rows' = [rows EXCEPT ![s] = name] /\ issued' = issued \cup {s}
        <3> DEFINE new == CHOOSE t \in Servers \ issued : TRUE
        <3>1. new \in Servers
            BY <1>6, FreshServer DEF Create
        <3>2. rows' = [rows EXCEPT ![new] = name] /\ issued' = issued \cup {new}
            BY <1>6 DEF Create
        <3> HIDE DEF new
        <3> QED
            BY <3>1, <3>2
    <2>2. rows' \in Rows
        <3>1. Free(name)
            BY <1>6 DEF Create
        <3>2. [rows EXCEPT ![s] = name] \in Rows
            BY <3>1, StillUnique
        <3> QED
            BY <2>1, <3>2
    <2>3. Change(w, "droplist") /\ renamed' = renamed
        BY <1>6 DEF Create
    <2>4. changes' \in 0 .. MaxChanges
        BY <2>3, RoutingAssumption DEF Change
    <2>5. pc' \in [Requests \cup Writers -> RequestSteps \cup WriterSteps]
        BY <2>3 DEF Change
    <2>6. issued' \in SUBSET Servers
        BY <2>1
    <2>7. UNCHANGED <<list, routes, requestVars, renamed>>
        BY <2>3 DEF Change
    <2> QED
        BY <2>2, <2>4, <2>5, <2>6, <2>7
<1>7. ASSUME NEW w \in Writers, NEW s \in Servers, NEW name \in Names, Rename(w, s, name)
      PROVE  TypeOK'
    <2>1. rows' \in Rows
        BY <1>7, StillUnique DEF Rename
    <2> QED
        BY <1>7, <2>1, RoutingAssumption DEF Rename, Change
<1>8. ASSUME NEW w \in Writers, NEW s \in Servers, Delete(w, s) PROVE TypeOK'
    <2>1. rows' \in Rows
        BY <1>8, StillUnique DEF Delete
    <2> QED
        BY <1>8, <2>1, RoutingAssumption DEF Delete, Change
<1>9. ASSUME NEW w \in Writers, Invalidate(w) PROVE TypeOK'
    BY <1>9 DEF Invalidate, Lookup, LookupFails, DropList, DropRoutes
<1>10. CASE ListExpires \/ RoutesExpire \/ UNCHANGED vars
    BY <1>10 DEF ListExpires, RoutesExpire, vars
<1> QED
    BY <1>1, <1>5, <1>6, <1>7, <1>8, <1>9, <1>10 DEF Next

\* Every step keeps the tables in agreement.
LEMMA TablesPreserved ==
    ASSUME TypeOK, TablesInv, [Next]_vars
    PROVE  TablesInv'
<1> USE DEF TypeOK, At, Goto, storeVars, requestVars
<1>1. ASSUME NEW r \in Requests, \E name \in Names : Arrive(r, name) PROVE TablesInv'
    BY <1>1, TablesKept DEF Arrive, Held
<1>2. ASSUME NEW r \in Requests, Serve(r) PROVE TablesInv'
    <2>1. renamed' = renamed /\ issued' = issued /\ rows' = rows
        BY <1>2
        DEF Serve, UseList, ReadList, ReadFails, SaveList, UseRoutes, BuildRoutes,
            BuildRoutesPartly, SaveRoutes, Finish
    <2>2. list' \in {list, read[r]} /\ routes' \in {routes, read[r]}
        BY <1>2
        DEF Serve, UseList, ReadList, ReadFails, SaveList, UseRoutes, BuildRoutes,
            BuildRoutesPartly, SaveRoutes, Finish
    <2>3. \E T : /\ T = NoRows \/ Held(T)
                 /\ read' = [read EXCEPT ![r] = T]
        <3>1. read = [read EXCEPT ![r] = read[r]] /\ Held(read[r])
            BY DEF Held
        <3> QED
            BY <1>2, <3>1
            DEF Serve, UseList, ReadList, ReadFails, SaveList, UseRoutes, BuildRoutes,
                BuildRoutesPartly, SaveRoutes, Finish, Answer, Return, Held
    <2>4. \A T : Held(T)' => Held(T) \/ T = NoRows
        BY <2>1, <2>2, <2>3 DEF Held
    <2> QED
        BY <2>1, <2>4, TablesKept
<1>3. ASSUME NEW w \in Writers, NEW name \in Names, Create(w, name) PROVE TablesInv'
    <2>1. PICK s \in Servers \ issued :
            rows' = [rows EXCEPT ![s] = name] /\ issued' = issued \cup {s}
        <3> DEFINE new == CHOOSE t \in Servers \ issued : TRUE
        <3>1. new \in Servers \ issued
            BY <1>3, FreshServer DEF Create
        <3>2. rows' = [rows EXCEPT ![new] = name] /\ issued' = issued \cup {new}
            BY <1>3 DEF Create
        <3> HIDE DEF new
        <3> QED
            BY <3>1, <3>2
    <2> QED
        BY <1>3, <2>1, RowsChanged DEF Create, Change
<1>4. ASSUME NEW w \in Writers, NEW s \in Servers, NEW name \in Names, Rename(w, s, name)
      PROVE  TablesInv'
    <2>1. s \in issued
        BY <1>4 DEF Rename, Stored, TablesInv, Held
    <2> QED
        BY <1>4, <2>1, RowsChanged DEF Rename, Change
<1>5. ASSUME NEW w \in Writers, NEW s \in Servers, Delete(w, s) PROVE TablesInv'
    BY <1>5, RowsChanged DEF Delete, Change
<1>6. ASSUME NEW w \in Writers, Invalidate(w) PROVE TablesInv'
    BY <1>6, TablesKept DEF Invalidate, Lookup, LookupFails, DropList, DropRoutes, Held
<1>7. CASE ListExpires \/ RoutesExpire \/ UNCHANGED vars
    BY <1>7, TablesKept DEF ListExpires, RoutesExpire, vars, Held
<1> QED
    BY <1>1, <1>2, <1>3, <1>4, <1>5, <1>6, <1>7 DEF Next

\* Every step keeps calls with the server of the name they gave.
LEMMA CallsPreserved ==
    ASSUME TypeOK, TablesInv, CallInv, NeverAnother, [Next]_vars
    PROVE  CallInv' /\ NeverAnother'
<1> USE DEF TypeOK, At, Goto, storeVars, requestVars
<1> DEFINE Fine(r) ==
        /\ pc[r] # "done" => asked[r] # NoName
        /\ pc[r] # "answer" => target[r] = NoServer
        /\ target[r] # NoServer => read[r][target[r]] = asked[r] \/ target[r] \in renamed
<1>1. SUFFICES \A q \in Requests : Fine(q)'
    BY DEF CallInv, NeverAnother
<1>2. \A q \in Requests : Fine(q)
    BY DEF CallInv, NeverAnother
<1>3. ASSUME NEW q \in Requests, UNCHANGED <<pc[q], asked[q], read[q], target[q]>>,
             renamed \subseteq renamed'
      PROVE  Fine(q)'
    BY <1>2, <1>3
<1>4. ASSUME NEW w \in Writers, NEW step \in WriterSteps, Goto(w, step),
             UNCHANGED requestVars, renamed \subseteq renamed'
      PROVE  \A q \in Requests : Fine(q)'
    BY <1>3, <1>4, RoutingAssumption
<1>5. ASSUME NEW r \in Requests, NEW map, Answer(r, map), pc[r] # "done", renamed' = renamed,
             Agree(read[r], map, renamed)
      PROVE  \A q \in Requests : Fine(q)'
    <2>1. /\ target'[r] = Target(read[r], map, asked[r])
          /\ read'[r] = read[r] /\ asked'[r] = asked[r] /\ asked[r] # NoName
          /\ pc'[r] = "answer"
        BY <1>2, <1>5 DEF Answer
    <2>2. Fine(r)'
        <3> SUFFICES ASSUME target'[r] # NoServer
                     PROVE  read[r][target'[r]] = asked[r] \/ target'[r] \in renamed
            BY <1>5, <2>1
        <3>1. /\ target'[r] \in Servers
              /\ read[r][target'[r]] # NoName
              /\ read[r][target'[r]] = asked[r] \/ map[target'[r]] = asked[r]
            BY <2>1, TargetIs
        <3> QED
            BY <1>5, <2>1, <3>1 DEF Agree
    <2>3. \A q \in Requests \ {r} : UNCHANGED <<pc[q], asked[q], read[q], target[q]>>
        BY <1>5 DEF Answer
    <2> QED
        BY <1>3, <1>5, <2>2, <2>3
<1>6. ASSUME NEW r \in Requests, renamed' = renamed,
             \A q \in Requests \ {r} : UNCHANGED <<pc[q], asked[q], read[q], target[q]>>,
             pc'[r] # "done" => asked'[r] # NoName,
             target'[r] = NoServer
      PROVE  \A q \in Requests : Fine(q)'
    BY <1>3, <1>6
<1>7. ASSUME NEW r \in Requests, NEW name \in Names, Arrive(r, name)
      PROVE  \A q \in Requests : Fine(q)'
    <2>1. target'[r] = NoServer /\ asked'[r] = name /\ renamed' = renamed
          /\ \A q \in Requests \ {r} : UNCHANGED <<pc[q], asked[q], read[q], target[q]>>
        BY <1>2, <1>7 DEF Arrive
    <2> QED
        BY <1>6, <2>1, RoutingAssumption
<1>8. ASSUME NEW r \in Requests,
             UseList(r) \/ ReadList(r) \/ SaveList(r) \/ BuildRoutes(r)
      PROVE  \A q \in Requests : Fine(q)'
    <2>1. target'[r] = NoServer /\ asked'[r] # NoName /\ renamed' = renamed
          /\ \A q \in Requests \ {r} : UNCHANGED <<pc[q], asked[q], read[q], target[q]>>
        BY <1>2, <1>8 DEF UseList, ReadList, SaveList, BuildRoutes
    <2> QED
        BY <1>6, <2>1
<1>9. ASSUME NEW r \in Requests, ReadFails(r) \/ Finish(r)
      PROVE  \A q \in Requests : Fine(q)'
    <2>1. target'[r] = NoServer /\ pc'[r] = "done" /\ renamed' = renamed
          /\ \A q \in Requests \ {r} : UNCHANGED <<pc[q], asked[q], read[q], target[q]>>
        BY <1>9 DEF ReadFails, Finish, Return
    <2> QED
        BY <1>6, <2>1
<1>10. ASSUME NEW r \in Requests, UseRoutes(r) PROVE \A q \in Requests : Fine(q)'
    <2>1. Agree(read[r], routes, renamed)
        BY <1>10 DEF UseRoutes, TablesInv, Held
    <2> QED
        BY <1>5, <1>10, <2>1 DEF UseRoutes
<1>11. ASSUME NEW r \in Requests, SaveRoutes(r) PROVE \A q \in Requests : Fine(q)'
    <2>1. Agree(read[r], read[r], renamed)
        BY DEF Agree
    <2> QED
        BY <1>5, <1>11, <2>1 DEF SaveRoutes
<1>12. ASSUME NEW r \in Requests, NEW failing \in SUBSET Servers, BuildRoutesPartly(r, failing)
      PROVE  \A q \in Requests : Fine(q)'
    <2> DEFINE map == [s \in Servers |-> IF s \in failing THEN NoName ELSE read[r][s]]
    <2>1. Agree(read[r], map, renamed)
        BY DEF Agree
    <2>2. Answer(r, map) /\ pc[r] # "done" /\ renamed' = renamed
        BY <1>12 DEF BuildRoutesPartly
    <2> HIDE DEF map
    <2> QED
        BY <1>5, <2>1, <2>2
<1>13. ASSUME NEW w \in Writers, Invalidate(w) PROVE \A q \in Requests : Fine(q)'
    BY <1>4, <1>13 DEF Invalidate, Lookup, LookupFails, DropList, DropRoutes, WriterSteps
<1>14. ASSUME NEW w \in Writers,
              \/ \E name \in Names : Create(w, name) \/ \E s \in Servers : Rename(w, s, name)
              \/ \E s \in Servers : Delete(w, s)
       PROVE  \A q \in Requests : Fine(q)'
    <2>1. UNCHANGED requestVars /\ renamed \subseteq renamed'
          /\ (Goto(w, "droplist") \/ Goto(w, "lookup"))
        BY <1>14 DEF Create, Rename, Delete, Change
    <2> QED
        BY <1>4, <2>1 DEF WriterSteps
<1>15. CASE ListExpires \/ RoutesExpire \/ UNCHANGED vars
    BY <1>3, <1>15 DEF ListExpires, RoutesExpire, vars
<1> HIDE DEF Fine
<1> QED
    BY <1>7, <1>8, <1>9, <1>10, <1>11, <1>12, <1>13, <1>14, <1>15 DEF Next, Serve

\* The invariant holds in every reachable state, whatever changes race with
\* whatever calls.
THEOREM Invariance == Spec => []IInv
<1>1. IInv /\ [Next]_vars => IInv'
    BY TypePreserved, TablesPreserved, CallsPreserved DEF IInv
<1> QED
    BY InitIInv, <1>1, PTL DEF Spec

-----------------------------------------------------------------------------
(* What follows                                                            *)

\* Type correctness: no table, however old, has a name twice.
THEOREM TypeCorrect == Spec => []TypeOK
<1>1. IInv => TypeOK
    BY DEF IInv
<1> QED
    BY <1>1, Invariance, PTL

\* A call goes to no server that bears another name, unless it was renamed
\* (aggregator.go:352-376).
THEOREM NeverAnotherHolds == Spec => []NeverAnother
<1>1. IInv => NeverAnother
    BY DEF IInv
<1> QED
    BY <1>1, Invariance, PTL
=============================================================================
