------------------------ MODULE TenantServersProofs ------------------------
(***************************************************************************)
(* What TenantServers promises for every number of servers, requests and   *)
(* origins.                                                                *)
(*                                                                         *)
(* Two inductive invariants do not depend on each other.  PairInv: the     *)
(* rows, and the rows requests have read, pair credentials with their      *)
(* origin.  LimitInv: who has counted the servers holds the lock, so that  *)
(* nobody else adds one before it does.                                    *)
(***************************************************************************)
EXTENDS TenantServers, FiniteSetTheorems, TLAPS

\* The credentials of a row are those of its origin.
Paired(row) == row.headers.for \subseteq {row.origin}

\* A new server's body names everything.
Complete(p) == p.name \in Names /\ p.origin \in Origins /\ p.headers \in {"clear", "full"}

PairInv ==
    /\ TypeOK
    /\ \A s \in Servers : rows[s] # NoServer => Paired(rows[s])
    /\ \A r \in Requests :
        At(r, "write") => /\ target[r] \in Servers
                          /\ seen[r] \in Row
                          /\ Paired(seen[r])
                          /\ Acceptable(patch[r], seen[r])
    /\ \A r \in Requests : pc[r] \in {"lock", "count", "insert"} => Complete(patch[r])
    /\ \A s \in Servers : pending[s] # NoServer => pending[s] \in Headers /\ pending[s].legacy

\* Only the holder of the lock is between its count and its insert.
LimitInv ==
    /\ \A r \in Requests : pc[r] \in {"count", "insert"} => lock = r
    /\ \A r \in Requests : At(r, "insert") => Cardinality(Stored) < MaxServers
    /\ ServerLimit

-----------------------------------------------------------------------------
(* Lemmas on what is written                                               *)

\* tenant_api.go:466-497: what an acceptable PATCH makes of a paired row is a
\* paired row.
LEMMA PatchedPaired ==
    ASSUME NEW p \in Patch, NEW cur \in Row, NEW seal \in Seals,
           Paired(cur), Acceptable(p, cur)
    PROVE  Patched(p, cur, seal) \in Row /\ Paired(Patched(p, cur, seal))
<1> DEFINE origin == Pick(p.origin, cur.origin)
           headers == NewHeaders(p, cur, seal)
<1>1. /\ p.name \in Names \cup {Keep} /\ p.origin \in Origins \cup {Keep}
      /\ cur.name \in Names /\ cur.origin \in Origins
      /\ cur.headers \in Headers /\ cur.headers.for \in SUBSET Origins
    BY DEF Patch, Row, Headers
<1>2. Pick(p.name, cur.name) \in Names /\ origin \in Origins
    BY <1>1 DEF Pick
<1>3. headers \in Headers /\ headers.for \subseteq {origin}
    <2>1. CASE p.headers = "keep"
        <3>1. headers = cur.headers
            BY <2>1 DEF NewHeaders
        <3>2. origin = cur.origin
            BY <2>1 DEF Acceptable, Pick
        <3> QED
            BY <1>1, <3>1, <3>2 DEF Paired
    <2>2. CASE p.headers = "clear"
        <3>1. headers = Empty
            BY <2>2 DEF NewHeaders
        <3> QED
            BY <3>1 DEF Empty, Headers
    <2>3. CASE p.headers = "full"
        <3>1. headers = [for |-> {origin}, seal |-> seal, legacy |-> FALSE]
            BY <2>3 DEF NewHeaders
        <3> QED
            BY <1>2, <3>1, TenantServersAssumption DEF Headers
    <2>4. CASE p.headers = "masked"
        <3>1. headers = [for |-> cur.headers.for \cup {origin}, seal |-> seal, legacy |-> FALSE]
            BY <2>4 DEF NewHeaders
        <3>2. origin = cur.origin
            BY <2>4 DEF Acceptable, Pick
        <3>3. cur.headers.for \cup {origin} \in SUBSET Origins
              /\ cur.headers.for \cup {origin} # {}
              /\ cur.headers.for \cup {origin} \subseteq {origin}
            BY <1>1, <1>2, <3>2 DEF Paired
        <3> QED
            BY <3>1, <3>3, TenantServersAssumption DEF Headers
    <2> QED
        BY <2>1, <2>2, <2>3, <2>4 DEF Patch, HeaderKinds
<1> QED
    BY <1>2, <1>3 DEF Patched, Row, Paired

\* tenant_api.go:375: a new server's row is paired.
LEMMA CreatedPaired ==
    ASSUME NEW p, Complete(p), NEW seal \in Seals
    PROVE  LET row == [name |-> p.name, origin |-> p.origin,
                       headers |-> IF p.headers = "clear" THEN Empty
                                   ELSE [for |-> {p.origin}, seal |-> seal, legacy |-> FALSE]]
           IN  row \in Row /\ Paired(row)
<1>1. Empty \in Headers /\ Empty.for = {}
    BY DEF Empty, Headers
<1>2. [for |-> {p.origin}, seal |-> seal, legacy |-> FALSE] \in Headers
    BY TenantServersAssumption DEF Complete, Headers
<1> QED
    BY <1>1, <1>2 DEF Complete, Row, Paired

\* tenant_reseal.go:44-63: a re-sealed row has the credentials it had.
LEMMA ResealedPaired ==
    ASSUME NEW row \in Row, Paired(row), NEW seal \in Seals, row.headers.legacy
    PROVE  LET new == [row EXCEPT !.headers = [for |-> row.headers.for, seal |-> seal,
                                               legacy |-> FALSE]]
           IN  new \in Row /\ Paired(new)
<1>1. [for |-> row.headers.for, seal |-> seal, legacy |-> FALSE] \in Headers
    BY TenantServersAssumption DEF Row, Headers
<1> QED
    BY <1>1 DEF Row, Paired

-----------------------------------------------------------------------------
(* Credentials                                                             *)

\* What Goto and Return leave of the requests' part of the type invariant.
LEMMA JobTypes ==
    ASSUME TypeOK, NEW r \in Requests
    PROVE  /\ \A step \in Steps : Goto(r, step) =>
                /\ pc' \in [Requests -> Steps] /\ pc'[r] = step
                /\ \A q \in Requests : q # r => pc'[q] = pc[q]
           /\ Return(r) =>
                /\ pc' \in [Requests -> Steps] /\ pc'[r] = "done"
                /\ target' \in [Requests -> Servers \cup {NoServer}]
                /\ seen' \in [Requests -> Row \cup {NoServer}]
                /\ patch' \in [Requests -> Patch]
                /\ \A q \in Requests : q # r =>
                    /\ pc'[q] = pc[q] /\ target'[q] = target[q]
                    /\ seen'[q] = seen[q] /\ patch'[q] = patch[q]
<1>1. NoPatch \in Patch /\ "done" \in Steps
    BY DEF NoPatch, Patch, HeaderKinds, Steps
<1> QED
    BY <1>1 DEF TypeOK, Goto, Return

\* A request returns while its step leaves the rows paired.
LEMMA ReturnPairs ==
    ASSUME PairInv, NEW r \in Requests, Return(r),
           rows' \in [Servers -> Row \cup {NoServer}],
           issued' \in SUBSET Servers, lock' \in Requests \cup {NoRequest},
           \A s \in Servers : rows'[s] # NoServer => Paired(rows'[s]),
           pending' = pending
    PROVE  PairInv'
<1>1. TypeOK
    BY DEF PairInv
<1>2. /\ pc' \in [Requests -> Steps] /\ pc'[r] = "done"
      /\ target' \in [Requests -> Servers \cup {NoServer}]
      /\ seen' \in [Requests -> Row \cup {NoServer}]
      /\ patch' \in [Requests -> Patch]
      /\ \A q \in Requests : q # r =>
            /\ pc'[q] = pc[q] /\ target'[q] = target[q]
            /\ seen'[q] = seen[q] /\ patch'[q] = patch[q]
    BY <1>1, JobTypes
<1>3. TypeOK'
    BY <1>1, <1>2 DEF TypeOK
<1>4. \A q \in Requests : At(q, "write")' =>
        /\ target'[q] \in Servers /\ seen'[q] \in Row
        /\ Paired(seen'[q]) /\ Acceptable(patch'[q], seen'[q])
    BY <1>2 DEF PairInv, At
<1>5. \A q \in Requests : pc'[q] \in {"lock", "count", "insert"} => Complete(patch'[q])
    BY <1>2 DEF PairInv
<1> QED
    BY <1>3, <1>4, <1>5 DEF PairInv

\* A request moves on within the transaction of a create.
LEMMA GotoPairs ==
    ASSUME PairInv, NEW r \in Requests, NEW step \in {"count", "insert"}, Goto(r, step),
           pc[r] \in {"lock", "count"}, lock' \in Requests \cup {NoRequest},
           UNCHANGED <<rows, issued, target, seen, patch, pending>>
    PROVE  PairInv'
<1>1. TypeOK /\ step \in Steps
    BY DEF PairInv, Steps
<1>2. /\ pc' \in [Requests -> Steps] /\ pc'[r] = step
      /\ \A q \in Requests : q # r => pc'[q] = pc[q]
    BY <1>1, JobTypes
<1> QED
    BY <1>1, <1>2 DEF PairInv, TypeOK, At

\* Every step keeps credentials with their origin.
LEMMA PairPreserved ==
    ASSUME PairInv, [Next]_vars
    PROVE  PairInv'
<1>1. TypeOK
    BY DEF PairInv
<1>2. ASSUME NEW r \in Requests, Create(r) PROVE PairInv'
    <2>1. PICK name \in Names, origin \in Origins, headers \in {"clear", "full"} :
            patch' = [patch EXCEPT ![r] =
                [name |-> name, origin |-> origin, headers |-> headers]]
        BY <1>2 DEF Create
    <2>2. [name |-> name, origin |-> origin, headers |-> headers] \in Patch
        BY DEF Patch, HeaderKinds
    <2>3. patch' \in [Requests -> Patch] /\ Complete(patch'[r])
          /\ \A q \in Requests : q # r => patch'[q] = patch[q]
        BY <1>1, <2>1, <2>2 DEF TypeOK, Complete
    <2>4. /\ pc' \in [Requests -> Steps] /\ pc'[r] = "lock"
          /\ \A q \in Requests : q # r => pc'[q] = pc[q]
        BY <1>1, <1>2, JobTypes DEF Create, Steps
    <2>5. UNCHANGED <<rows, issued, lock, target, seen, pending>>
        BY <1>2 DEF Create
    <2>6. TypeOK'
        BY <1>1, <2>3, <2>4, <2>5 DEF TypeOK
    <2> QED
        BY <2>3, <2>4, <2>5, <2>6 DEF PairInv, At
<1>3. ASSUME NEW r \in Requests, Lock(r) \/ Count(r) PROVE PairInv'
    BY <1>1, <1>3, GotoPairs DEF Lock, Count, At, TypeOK
<1>4. ASSUME NEW r \in Requests, Insert(r) PROVE PairInv'
    <2>1. PICK s \in Servers, seal \in Seals :
            /\ rows' = [rows EXCEPT ![s] =
                    [name |-> patch[r].name, origin |-> patch[r].origin,
                     headers |-> IF patch[r].headers = "clear" THEN Empty
                                 ELSE [for |-> {patch[r].origin}, seal |-> seal,
                                       legacy |-> FALSE]]]
            /\ issued' = issued \cup {s}
        BY <1>4 DEF Insert
    <2>2. Complete(patch[r])
        BY <1>4 DEF Insert, At, PairInv
    <2>3. rows' \in [Servers -> Row \cup {NoServer}]
          /\ \A v \in Servers : rows'[v] # NoServer => Paired(rows'[v])
        BY <1>1, <2>1, <2>2, CreatedPaired DEF TypeOK, PairInv
    <2>4. issued' \in SUBSET Servers
        BY <1>1, <2>1 DEF TypeOK
    <2>5. Return(r) /\ lock' \in Requests \cup {NoRequest} /\ pending' = pending
        BY <1>1, <1>4 DEF Insert, EndTransaction, TypeOK
    <2> QED
        BY <2>3, <2>4, <2>5, ReturnPairs
<1>5. ASSUME NEW r \in Requests, Rollback(r) \/ Refuse(r) PROVE PairInv'
    <2>1. Return(r) /\ lock' \in Requests \cup {NoRequest}
          /\ UNCHANGED <<rows, issued, pending>>
        BY <1>1, <1>5 DEF Rollback, Refuse, EndTransaction, TypeOK
    <2> QED
        BY <1>1, <2>1, ReturnPairs DEF TypeOK, PairInv
<1>6. ASSUME NEW r \in Requests, Read(r) PROVE PairInv'
    <2>1. PICK s \in Stored, p \in Patch :
            /\ Acceptable(p, rows[s])
            /\ target' = [target EXCEPT ![r] = s]
            /\ seen' = [seen EXCEPT ![r] = rows[s]]
            /\ patch' = [patch EXCEPT ![r] = p]
        BY <1>6 DEF Read
    <2>2. s \in Servers /\ rows[s] \in Row /\ Paired(rows[s])
        BY <1>1 DEF Stored, TypeOK, PairInv
    <2>3. /\ target' \in [Requests -> Servers \cup {NoServer}] /\ target'[r] = s
          /\ seen' \in [Requests -> Row \cup {NoServer}] /\ seen'[r] = rows[s]
          /\ patch' \in [Requests -> Patch] /\ patch'[r] = p
          /\ \A q \in Requests : q # r => /\ target'[q] = target[q]
                                         /\ seen'[q] = seen[q] /\ patch'[q] = patch[q]
        BY <1>1, <2>1, <2>2 DEF TypeOK
    <2>4. /\ pc' \in [Requests -> Steps] /\ pc'[r] = "write"
          /\ \A q \in Requests : q # r => pc'[q] = pc[q]
        BY <1>1, <1>6, JobTypes DEF Read, Steps
    <2>5. UNCHANGED <<rows, issued, lock, pending>>
        BY <1>6 DEF Read
    <2>6. TypeOK'
        BY <1>1, <2>3, <2>4, <2>5 DEF TypeOK
    <2>7. Acceptable(patch'[r], seen'[r]) /\ Paired(seen'[r]) /\ seen'[r] \in Row
        BY <2>1, <2>2, <2>3
    <2> QED
        BY <2>2, <2>3, <2>4, <2>5, <2>6, <2>7 DEF PairInv, At
<1>7. ASSUME NEW r \in Requests, Write(r) PROVE PairInv'
    <2>1. PICK seal \in Seals : Overwrite(r, seal)
        BY <1>7 DEF Write
    <2>2. /\ target[r] \in Servers /\ seen[r] \in Row /\ Paired(seen[r])
          /\ Acceptable(patch[r], seen[r]) /\ patch[r] \in Patch
        BY <1>1, <1>7 DEF Write, At, PairInv, TypeOK
    <2>3. rows' \in [Servers -> Row \cup {NoServer}]
          /\ \A v \in Servers : rows'[v] # NoServer => Paired(rows'[v])
        BY <1>1, <2>1, <2>2, PatchedPaired DEF Overwrite, TypeOK, PairInv
    <2>4. Return(r) /\ UNCHANGED <<issued, lock, pending>>
        BY <1>7 DEF Write
    <2> QED
        BY <1>1, <2>3, <2>4, ReturnPairs DEF TypeOK
<1>8. ASSUME NEW s \in Servers, Delete(s) PROVE PairInv'
    <2>1. rows' \in [Servers -> Row \cup {NoServer}]
          /\ \A v \in Servers : rows'[v] # NoServer => Paired(rows'[v])
        BY <1>1, <1>8 DEF Delete, TypeOK, PairInv
    <2> QED
        BY <1>1, <1>8, <2>1 DEF Delete, PairInv, TypeOK, At
<1>9. ASSUME NEW s \in Servers, Reseal(s) PROVE PairInv'
    <2>1. PICK seal \in Seals : rows' = [rows EXCEPT ![s].headers =
                [for |-> pending[s].for, seal |-> seal, legacy |-> FALSE]]
        BY <1>9 DEF Reseal
    <2>2. rows[s] \in Row /\ Paired(rows[s]) /\ rows[s].headers = pending[s]
          /\ rows[s].headers.legacy
        BY <1>1, <1>9 DEF Reseal, TypeOK, PairInv
    <2> DEFINE new == [rows[s] EXCEPT !.headers =
                [for |-> rows[s].headers.for, seal |-> seal, legacy |-> FALSE]]
    <2>3. rows' = [rows EXCEPT ![s] = new]
        BY <2>1, <2>2
    <2>4. new \in Row /\ Paired(new)
        BY <2>2, ResealedPaired
    <2> HIDE DEF new
    <2>5. rows' \in [Servers -> Row \cup {NoServer}]
          /\ \A v \in Servers : rows'[v] # NoServer => Paired(rows'[v])
        BY <1>1, <2>3, <2>4 DEF TypeOK, PairInv
    <2>6. /\ pending' \in [Servers -> Headers \cup {NoServer}]
          /\ \A v \in Servers : pending'[v] # NoServer =>
                pending'[v] \in Headers /\ pending'[v].legacy
        BY <1>1, <1>9 DEF Reseal, TypeOK, PairInv
    <2> QED
        BY <1>1, <1>9, <2>5, <2>6 DEF Reseal, PairInv, TypeOK, At
<1>10. CASE ListLegacy \/ StopBoot
    <2>1. /\ pending' \in [Servers -> Headers \cup {NoServer}]
          /\ \A v \in Servers : pending'[v] # NoServer =>
                pending'[v] \in Headers /\ pending'[v].legacy
        <3>1. \A v \in Stored : rows[v].headers \in Headers
            BY <1>1 DEF Stored, TypeOK, Row
        <3> QED
            BY <1>10, <3>1 DEF ListLegacy, StopBoot
    <2> QED
        BY <1>1, <1>10, <2>1 DEF ListLegacy, StopBoot, PairInv, TypeOK, At
<1>11. CASE UNCHANGED vars
    BY <1>1, <1>11 DEF vars, PairInv, TypeOK, At
<1> QED
    BY <1>2, <1>3, <1>4, <1>5, <1>6, <1>7, <1>8, <1>9, <1>10, <1>11 DEF Next

\* The initial rows are paired.
LEMMA InitPairs == Init => PairInv
<1> SUFFICES ASSUME Init PROVE PairInv
    OBVIOUS
<1>1. PICK first \in SUBSET Servers, name \in Names, origin \in Origins, seal \in Seals :
        rows = [s \in Servers |->
                    IF s \in first THEN OldRow(name, origin, seal) ELSE NoServer]
    BY DEF Init
<1>2. OldRow(name, origin, seal) \in Row /\ Paired(OldRow(name, origin, seal))
    <2>1. [for |-> {origin}, seal |-> seal, legacy |-> TRUE] \in Headers
        BY TenantServersAssumption DEF Headers
    <2> QED
        BY <2>1 DEF OldRow, Row, Paired
<1>3. NoPatch \in Patch
    BY DEF NoPatch, Patch, HeaderKinds
<1>4. issued \in SUBSET Servers
    BY DEF Init
<1>5. rows \in [Servers -> Row \cup {NoServer}]
      /\ \A s \in Servers : rows[s] # NoServer => Paired(rows[s])
    BY <1>1, <1>2
<1> QED
    BY <1>3, <1>4, <1>5 DEF Init, PairInv, TypeOK, Steps, At

\* The invariant of the credentials holds in every reachable state.
THEOREM PairInvariance == Spec => []PairInv
BY InitPairs, PairPreserved, PTL DEF Spec

\* Type correctness: what is stored under seal are credentials.
THEOREM TypeCorrect == Spec => []TypeOK
<1>1. PairInv => TypeOK
    BY DEF PairInv
<1> QED
    BY <1>1, PairInvariance, PTL

\* A stored credential stays with the origin it was supplied for
\* (tenant_api.go:466-473), whatever requests and re-seals overlap.
THEOREM CredentialsStayHolds == Spec => []CredentialsStay
<1>1. PairInv => CredentialsStay
    BY DEF PairInv, CredentialsStay, Stored, Paired
<1> QED
    BY <1>1, PairInvariance, PTL

-----------------------------------------------------------------------------
(* The server limit                                                        *)

\* Fewer stored servers are fewer.
LEMMA StoredCount ==
    ASSUME TenantServersAssumption
    PROVE  /\ IsFiniteSet(Stored) /\ Cardinality(Stored) \in Nat
           /\ \A T \in SUBSET Stored : Cardinality(T) \in Nat
                                     /\ Cardinality(T) <= Cardinality(Stored)
           /\ \A s \in Servers : Cardinality(Stored \cup {s}) \in Nat
                               /\ Cardinality(Stored \cup {s}) <= Cardinality(Stored) + 1
<1>1. IsFiniteSet(Stored)
    BY TenantServersAssumption, FS_Subset DEF Stored
<1>2. Cardinality(Stored) \in Nat
    BY <1>1, FS_CardinalityType
<1>3. ASSUME NEW T \in SUBSET Stored
      PROVE  Cardinality(T) \in Nat /\ Cardinality(T) <= Cardinality(Stored)
    BY <1>1, FS_Subset, FS_CardinalityType
<1>4. ASSUME NEW s \in Servers
      PROVE  /\ Cardinality(Stored \cup {s}) \in Nat
             /\ Cardinality(Stored \cup {s}) <= Cardinality(Stored) + 1
    <2>1. Cardinality(Stored \cup {s}) = Cardinality(Stored)
          \/ Cardinality(Stored \cup {s}) = Cardinality(Stored) + 1
        BY <1>1, FS_AddElement
    <2> QED
        BY <1>2, <2>1
<1> QED
    BY <1>1, <1>2, <1>3, <1>4

\* A step that adds no server and lets nobody past the lock keeps the limit.
LEMMA NoMoreServers ==
    ASSUME LimitInv, Stored' \subseteq Stored,
           \A r \in Requests : pc'[r] \in {"count", "insert"} => lock' = r,
           \A r \in Requests : pc'[r] = "insert" =>
                pc[r] = "insert" \/ Cardinality(Stored) < MaxServers
    PROVE  LimitInv'
<1>1. Cardinality(Stored') \in Nat /\ Cardinality(Stored) \in Nat
      /\ Cardinality(Stored') <= Cardinality(Stored)
    BY StoredCount, TenantServersAssumption
<1>2. \A r \in Requests : At(r, "insert")' => Cardinality(Stored') < MaxServers
    BY <1>1, TenantServersAssumption DEF LimitInv, At
<1> QED
    BY <1>1, <1>2, TenantServersAssumption DEF LimitInv, ServerLimit

\* Every step keeps the limit.
LEMMA LimitPreserved ==
    ASSUME PairInv, LimitInv, [Next]_vars
    PROVE  LimitInv'
<1>1. TypeOK
    BY DEF PairInv
<1>2. ASSUME NEW r \in Requests, Create(r) \/ Lock(r) \/ Count(r) \/ Read(r)
      PROVE  LimitInv'
    <2>1. Stored' = Stored
        BY <1>2 DEF Create, Lock, Count, Read, Stored
    <2>2. \A q \in Requests : pc'[q] \in {"count", "insert"} => lock' = q
        BY <1>1, <1>2, TenantServersAssumption
        DEF Create, Lock, Count, Read, Goto, At, LimitInv, TypeOK
    <2>3. \A q \in Requests : pc'[q] = "insert" =>
                pc[q] = "insert" \/ Cardinality(Stored) < MaxServers
        BY <1>1, <1>2 DEF Create, Lock, Count, Read, Goto, At, TypeOK
    <2> QED
        BY <2>1, <2>2, <2>3, NoMoreServers
<1>3. ASSUME NEW r \in Requests, Insert(r) PROVE LimitInv'
    <2>1. PICK s \in Servers : Stored' \subseteq Stored \cup {s}
        <3>1. PICK s \in Servers : \E row : rows' = [rows EXCEPT ![s] = row]
            BY <1>3 DEF Insert
        <3> QED
            BY <1>1, <3>1 DEF Stored, TypeOK
    <2>2. Cardinality(Stored) < MaxServers /\ lock = r
        BY <1>3 DEF Insert, LimitInv, At
    <2>3. \A q \in Requests : pc'[q] \notin {"count", "insert"}
        BY <1>1, <1>3, <2>2 DEF Insert, EndTransaction, Return, Goto, LimitInv, TypeOK
    <2>4. Cardinality(Stored') <= MaxServers
        <3>1. IsFiniteSet(Stored \cup {s})
            BY TenantServersAssumption, FS_Subset DEF Stored
        <3>2. Cardinality(Stored') \in Nat
              /\ Cardinality(Stored') <= Cardinality(Stored \cup {s})
            BY <2>1, <3>1, FS_Subset, FS_CardinalityType
        <3> QED
            BY <2>2, <3>2, StoredCount, TenantServersAssumption
    <2> QED
        BY <2>3, <2>4 DEF LimitInv, ServerLimit, At
<1>4. ASSUME NEW r \in Requests, Rollback(r) \/ Refuse(r) PROVE LimitInv'
    <2>1. Stored' = Stored
        BY <1>4 DEF Rollback, Refuse, Stored
    <2>2. \A q \in Requests : pc'[q] \in {"count", "insert"} =>
                pc'[q] = pc[q] /\ lock' = q
        BY <1>1, <1>4
        DEF Rollback, Refuse, EndTransaction, Return, Goto, LimitInv, TypeOK
    <2> QED
        BY <2>1, <2>2, NoMoreServers
<1>5. ASSUME NEW r \in Requests, Write(r) PROVE LimitInv'
    <2>1. Stored' \subseteq Stored
        BY <1>1, <1>5 DEF Write, Overwrite, Stored, TypeOK
    <2>2. \A q \in Requests : pc'[q] \in {"count", "insert"} =>
                pc'[q] = pc[q] /\ lock' = q
        BY <1>1, <1>5 DEF Write, Return, Goto, LimitInv, TypeOK
    <2> QED
        BY <2>1, <2>2, NoMoreServers
<1>6. ASSUME NEW s \in Servers, Delete(s) \/ Reseal(s) PROVE LimitInv'
    <2>1. Stored' \subseteq Stored /\ UNCHANGED <<pc, lock>>
        BY <1>1, <1>6 DEF Delete, Reseal, Stored, TypeOK
    <2> QED
        BY <2>1, NoMoreServers DEF LimitInv
<1>7. CASE ListLegacy \/ StopBoot \/ UNCHANGED vars
    <2>1. Stored' = Stored /\ UNCHANGED <<pc, lock>>
        BY <1>7 DEF ListLegacy, StopBoot, vars, Stored
    <2> QED
        BY <2>1, NoMoreServers DEF LimitInv
<1> QED
    BY <1>2, <1>3, <1>4, <1>5, <1>6, <1>7 DEF Next

\* At first there is at most one server, and nobody creates one.
LEMMA InitLimit == Init => LimitInv
<1> SUFFICES ASSUME Init PROVE LimitInv
    OBVIOUS
<1>1. PICK first \in SUBSET Servers : Cardinality(first) <= 1 /\ Stored \subseteq first
    BY DEF Init, Stored
<1>2. IsFiniteSet(first)
    BY TenantServersAssumption, FS_Subset
<1>3. Cardinality(Stored) \in Nat /\ Cardinality(Stored) <= Cardinality(first)
      /\ Cardinality(first) \in Nat
    BY <1>1, <1>2, FS_Subset, FS_CardinalityType
<1> QED
    BY <1>1, <1>3, TenantServersAssumption DEF Init, LimitInv, ServerLimit, At

\* Concurrent creates cannot exceed maxServers (tenant_servers.go:100-103), for
\* every number of requests and every limit.
THEOREM ServerLimitHolds == Spec => []ServerLimit
<1>1. PairInv /\ LimitInv /\ [Next]_vars => LimitInv'
    BY LimitPreserved
<1>2. LimitInv => ServerLimit
    BY DEF LimitInv
<1> QED
    BY InitLimit, PairInvariance, <1>1, <1>2, PTL DEF Spec

-----------------------------------------------------------------------------
(* What a write may do to the credentials of a row that stays              *)

\* A UUID that was never handed out has no row: an insert overwrites nothing.
IssuedInv == \A s \in Servers : rows[s] # NoServer => s \in issued

\* Every step keeps that.
LEMMA IssuedPreserved ==
    ASSUME PairInv, IssuedInv, [Next]_vars
    PROVE  IssuedInv'
<1>1. TypeOK
    BY DEF PairInv
<1>2. ASSUME NEW r \in Requests, Insert(r) PROVE IssuedInv'
    <2>1. PICK s \in Servers : /\ \E row : rows' = [rows EXCEPT ![s] = row]
                               /\ issued' = issued \cup {s}
        BY <1>2 DEF Insert
    <2> QED
        BY <1>1, <2>1 DEF IssuedInv, TypeOK
<1>3. ASSUME NEW r \in Requests, Write(r) PROVE IssuedInv'
    <2>1. rows[target[r]] # NoServer /\ issued' = issued
          /\ \E row : rows' = [rows EXCEPT ![target[r]] = row]
        BY <1>3 DEF Write, Overwrite
    <2>2. target[r] \in Servers
        BY <1>3 DEF Write, PairInv
    <2> QED
        BY <1>1, <2>1, <2>2 DEF IssuedInv, TypeOK
<1>4. ASSUME NEW r \in Requests,
             Create(r) \/ Lock(r) \/ Count(r) \/ Rollback(r) \/ Read(r) \/ Refuse(r)
      PROVE  IssuedInv'
    BY <1>4 DEF Create, Lock, Count, Rollback, Read, Refuse, IssuedInv
<1>5. ASSUME NEW s \in Servers, Delete(s) \/ Reseal(s) PROVE IssuedInv'
    <2>1. rows[s] # NoServer /\ issued' = issued
          /\ \A v \in Servers : v # s => rows'[v] = rows[v]
        BY <1>1, <1>5 DEF Delete, Reseal, Stored, TypeOK
    <2> QED
        BY <2>1 DEF IssuedInv
<1>6. CASE ListLegacy \/ StopBoot \/ UNCHANGED vars
    BY <1>6 DEF ListLegacy, StopBoot, vars, IssuedInv
<1> QED
    BY <1>2, <1>3, <1>4, <1>5, <1>6 DEF Next

\* A PATCH that says nothing of the headers writes those it read, which are those
\* the row still has; a re-seal writes what it read of a row that was of the old
\* format and still is the same; an insert finds no row.
LEMMA HeadersKeptStep ==
    ASSUME PairInv, IssuedInv, [Next]_vars
    PROVE  [HeadersKept]_vars
<1>1. TypeOK
    BY DEF PairInv
<1>2. ASSUME NEW r \in Requests, Insert(r) PROVE HeadersKept
    <2>1. PICK s \in Servers \ issued : \E row : rows' = [rows EXCEPT ![s] = row]
        BY <1>2 DEF Insert
    <2>2. rows[s] = NoServer /\ \A v \in Servers : v # s => rows'[v] = rows[v]
        BY <1>1, <2>1 DEF IssuedInv, TypeOK
    <2> QED
        BY <2>2 DEF HeadersKept, Written
<1>3. ASSUME NEW r \in Requests, Write(r) PROVE HeadersKept
    <2>1. PICK seal \in Seals : rows' = [rows EXCEPT ![target[r]] = Patched(patch[r], seen[r], seal)]
        BY <1>3 DEF Write, Overwrite
    <2>2. target[r] \in Servers /\ rows[target[r]].headers = seen[r].headers
        BY <1>3 DEF Write, PairInv
    <2>3. /\ rows'[target[r]] = Patched(patch[r], seen[r], seal)
          /\ \A v \in Servers : v # target[r] => rows'[v] = rows[v]
        BY <1>1, <2>1, <2>2 DEF TypeOK
    <2>4. At(r, "write") /\ pc'[r] = "done"
        BY <1>1, <1>3 DEF Write, Return, Goto, TypeOK
    <2>5. patch[r].headers = "keep" => rows'[target[r]].headers = rows[target[r]].headers
        BY <2>2, <2>3 DEF Patched, NewHeaders
    <2> QED
        BY <2>3, <2>4, <2>5 DEF HeadersKept, Written, Writes
<1>4. ASSUME NEW s \in Servers, Reseal(s) PROVE HeadersKept
    <2>1. PICK seal \in Seals : rows' = [rows EXCEPT ![s].headers =
                [for |-> pending[s].for, seal |-> seal, legacy |-> FALSE]]
        BY <1>4 DEF Reseal
    <2>2. rows[s] \in Row /\ rows[s].headers = pending[s] /\ rows[s].headers.legacy
        BY <1>1, <1>4 DEF Reseal, TypeOK, PairInv
    <2>3. /\ rows'[s].headers = [for |-> rows[s].headers.for, seal |-> seal, legacy |-> FALSE]
          /\ \A v \in Servers : v # s => rows'[v] = rows[v]
        BY <1>1, <2>1, <2>2 DEF TypeOK, Row
    <2> QED
        BY <2>2, <2>3 DEF HeadersKept, Written
<1>5. ASSUME NEW s \in Servers, Delete(s) PROVE HeadersKept
    <2>1. rows'[s] = NoServer /\ \A v \in Servers : v # s => rows'[v] = rows[v]
        BY <1>1, <1>5 DEF Delete, TypeOK
    <2> QED
        BY <2>1 DEF HeadersKept, Written
<1>6. ASSUME rows' = rows PROVE HeadersKept
    BY <1>6 DEF HeadersKept, Written
<1>7. ASSUME NEW r \in Requests,
             Create(r) \/ Lock(r) \/ Count(r) \/ Rollback(r) \/ Read(r) \/ Refuse(r)
      PROVE  HeadersKept
    BY <1>6, <1>7 DEF Create, Lock, Count, Rollback, Read, Refuse
<1>8. CASE ListLegacy \/ StopBoot
    BY <1>6, <1>8 DEF ListLegacy, StopBoot
<1> QED
    BY <1>2, <1>3, <1>4, <1>5, <1>7, <1>8 DEF Next

\* Who writes credentials writes those it was given or those it found
\* (tenant_servers.go:151-154, 234-238): no write of anything else brings an earlier
\* credential back, and no re-seal replaces a newer one.
THEOREM HeadersNeverRevert == Spec => HeadersNotReverted
<1>1. Init => IssuedInv
    BY DEF Init, IssuedInv
<1>2. PairInv /\ IssuedInv /\ [Next]_vars => IssuedInv'
    BY IssuedPreserved
<1>3. PairInv /\ IssuedInv /\ [Next]_vars => [HeadersKept]_vars
    BY HeadersKeptStep
<1> QED
    BY <1>1, <1>2, <1>3, PairInvariance, PTL DEF Spec, HeadersNotReverted

=============================================================================
