--------------------------- MODULE ToolSyncProofs ---------------------------
(***************************************************************************)
(* Proofs of ToolSync's type and of what its hash gate may rely on, for    *)
(* any tools and any number of requests.                                   *)
(***************************************************************************)
EXTENDS ToolSync, TLAPS

-----------------------------------------------------------------------------
(* The inductive invariant                                                 *)

Overlaps == \A r, q \in Storing : r # q => r \in overlapped

\* What a sync is to store is what it was given, through one listing's filter.
Filtered(r) ==
    pc[r] \in {"delete", "upsert", "remember"} =>
        \E filter \in Filters : saving[r] = fetched[r] \ filter

\* A sync that had the tools for itself drops what is too many, then has stored
\* what it was to store.
Alone(r) ==
    r \notin overlapped =>
        /\ At(r, "upsert") => dropping[r] = tools \ saving[r]
        /\ At(r, "remember") => tools = saving[r]

\* The hash is out of date only from a commit until the request that made it
\* remembers.
HashInv ==
    hash # {} /\ ~doubt /\ (\A r \in Requests : ~At(r, "remember")) =>
        \E names \in SUBSET Tools : hash = {names} /\ Holds(names)

\* What holds of each sync.
SyncInv == \A r \in Requests : Filtered(r) /\ Alone(r)

IInv == TypeOK /\ Overlaps /\ SyncInv /\ HashInv

-----------------------------------------------------------------------------
(* Lemmas                                                                  *)

\* Where a step leaves a request.
LEMMA GotoIs ==
    ASSUME TypeOK, NEW r \in Requests, NEW step, Goto(r, step)
    PROVE  /\ pc'[r] = step
           /\ \A q \in Requests : q # r => pc'[q] = pc[q]
BY DEF TypeOK, Goto

LEMMA ReturnIs ==
    ASSUME TypeOK, NEW r \in Requests, Return(r)
    PROVE  /\ pc'[r] = "done"
           /\ \A q \in Requests : q # r =>
                /\ pc'[q] = pc[q] /\ fetched'[q] = fetched[q]
                /\ saving'[q] = saving[q] /\ dropping'[q] = dropping[q]
           /\ pc' \in [Requests -> Steps]
           /\ fetched' \in [Requests -> SUBSET Tools]
           /\ saving' \in [Requests -> SUBSET Tools]
           /\ dropping' \in [Requests -> SUBSET Tools]
<1>1. "done" \in Steps
    BY DEF Steps
<1> QED
    BY <1>1 DEF TypeOK, Return, Goto

\* A request that ends without a commit leaves the rest as it was.
LEMMA ReturnPreserves ==
    ASSUME IInv, NEW r \in Requests, Return(r), ~At(r, "remember"),
           UNCHANGED <<upstream, tools, disabled, hash, overlapped, doubt>>
    PROVE  IInv'
<1>1. TypeOK'
    BY ReturnIs DEF IInv, TypeOK
<1>2. Storing' \subseteq Storing
    BY ReturnIs DEF IInv, Storing
<1>3. Overlaps'
    BY <1>2 DEF IInv, Overlaps
<1>4. ASSUME NEW q \in Requests
      PROVE  Filtered(q)' /\ Alone(q)'
    <2>1. CASE q = r
        BY <2>1, ReturnIs DEF IInv, SyncInv, Filtered, Alone, At
    <2>2. CASE q # r
        BY <2>2, ReturnIs DEF IInv, SyncInv, Filtered, Alone, At
    <2> QED
        BY <2>1, <2>2
<1>5. HashInv'
    <2>1. \A q \in Requests : At(q, "remember") => At(q, "remember")'
        BY ReturnIs DEF IInv, At
    <2> QED
        BY <2>1 DEF IInv, HashInv, Holds
<1> QED
    BY <1>1, <1>3, <1>4, <1>5 DEF IInv, SyncInv

\* Going on towards a sync changes nothing that is stored.
LEMMA ApproachPreserves ==
    ASSUME IInv, NEW r \in Requests, NEW step \in {"gate", "delete"}, Goto(r, step),
           pc[r] \in {"done", "gate"},
           fetched' \in [Requests -> SUBSET Tools],
           saving' \in [Requests -> SUBSET Tools],
           \A q \in Requests : q # r => fetched'[q] = fetched[q] /\ saving'[q] = saving[q],
           step = "delete" => \E filter \in Filters : saving'[r] = fetched'[r] \ filter,
           UNCHANGED <<upstream, tools, disabled, hash, dropping, overlapped, doubt>>
    PROVE  IInv'
<1>1. TypeOK'
    <2>1. step \in Steps
        BY DEF Steps
    <2> QED
        BY <2>1 DEF IInv, TypeOK, Goto
<1>2. Storing' = Storing
    BY GotoIs DEF IInv, Storing
<1>3. Overlaps'
    BY <1>2 DEF IInv, Overlaps
<1>4. ASSUME NEW q \in Requests
      PROVE  Filtered(q)' /\ Alone(q)'
    <2>1. CASE q = r
        BY <2>1, GotoIs DEF IInv, SyncInv, Filtered, Alone, At
    <2>2. CASE q # r
        BY <2>2, GotoIs DEF IInv, SyncInv, Filtered, Alone, At
    <2> QED
        BY <2>1, <2>2
<1>5. HashInv'
    <2>1. \A q \in Requests : At(q, "remember") <=> At(q, "remember")'
        BY GotoIs DEF IInv, At
    <2> QED
        BY <2>1 DEF IInv, HashInv, Holds
<1> QED
    BY <1>1, <1>3, <1>4, <1>5 DEF IInv, SyncInv

\* What a commit makes of the tools, and to whom it matters.
LEMMA CommitIs ==
    ASSUME IInv, NEW r \in Requests, Commit(r)
    PROVE  /\ tools' \in SUBSET Tools
           /\ disabled' \in SUBSET tools'
           /\ r \notin overlapped => tools' = saving[r]
           /\ \A q \in Requests : q # r /\ pc[q] \in {"upsert", "remember"} => q \in overlapped
<1>1. tools' \in SUBSET Tools /\ disabled' \in SUBSET tools'
    BY DEF IInv, TypeOK, Commit
<1>2. ASSUME r \notin overlapped
      PROVE  tools' = saving[r]
    <2>1. dropping[r] = tools \ saving[r]
        BY <1>2 DEF IInv, SyncInv, Alone, Commit
    <2> QED
        BY <2>1 DEF Commit
<1>3. r \in Storing
    BY DEF Commit, At, Storing
<1>4. ASSUME NEW q \in Requests, q # r, pc[q] \in {"upsert", "remember"}
      PROVE  q \in overlapped
    BY <1>3, <1>4 DEF IInv, Overlaps, Storing
<1> QED
    BY <1>1, <1>2, <1>4

-----------------------------------------------------------------------------
(* The steps                                                               *)

LEMMA DeletePreserves ==
    ASSUME IInv, NEW r \in Requests, Delete(r)
    PROVE  IInv'
<1>1. /\ pc'[r] = "upsert"
      /\ \A q \in Requests : q # r => pc'[q] = pc[q]
    BY GotoIs DEF IInv, Delete
<1>2. TypeOK'
    <2>1. "upsert" \in Steps
        BY DEF Steps
    <2>2. pc' \in [Requests -> Steps]
        BY <2>1 DEF IInv, TypeOK, Delete, Goto
    <2>3. dropping' \in [Requests -> SUBSET Tools]
        BY DEF IInv, TypeOK, Delete
    <2>4. overlapped' \in SUBSET Requests
        BY DEF IInv, TypeOK, Delete, Storing
    <2> QED
        BY <2>2, <2>3, <2>4 DEF IInv, TypeOK, Delete
<1>3. Storing' = Storing \cup {r}
    BY <1>1 DEF Storing
<1>4. dropping'[r] = tools \ saving[r]
    BY DEF IInv, TypeOK, Delete
<1>5. HashInv'
    <2>1. \A q \in Requests : At(q, "remember") => At(q, "remember")'
        BY <1>1 DEF Delete, At
    <2> QED
        BY <2>1 DEF IInv, HashInv, Holds, Delete
<1>6. CASE Storing = {}
    <2>1. Overlaps'
        BY <1>3, <1>6 DEF Overlaps
    <2>2. ASSUME NEW q \in Requests
          PROVE  Filtered(q)' /\ Alone(q)'
        <3>1. CASE q = r
            BY <3>1, <1>1, <1>4 DEF IInv, SyncInv, Filtered, Delete, Alone, At
        <3>2. CASE q # r
            <4>1. pc'[q] \notin {"upsert", "remember"}
                BY <3>2, <1>3, <1>6 DEF Storing
            <4> QED
                BY <4>1, <3>2, <1>1 DEF IInv, SyncInv, Filtered, Delete, Alone, At
        <3> QED
            BY <3>1, <3>2
    <2> QED
        BY <1>2, <1>5, <2>1, <2>2 DEF IInv, SyncInv
<1>7. CASE Storing # {}
    <2>1. Storing' \subseteq overlapped'
        BY <1>3, <1>7 DEF Delete
    <2>2. Overlaps'
        BY <2>1 DEF Overlaps
    <2>3. ASSUME NEW q \in Requests
          PROVE  Filtered(q)' /\ Alone(q)'
        BY <2>1, <1>1 DEF IInv, SyncInv, Filtered, Delete, Alone, At, Storing
    <2> QED
        BY <1>2, <1>5, <2>2, <2>3 DEF IInv, SyncInv
<1> QED
    BY <1>6, <1>7

LEMMA UpsertPreserves ==
    ASSUME IInv, NEW r \in Requests, Upsert(r)
    PROVE  IInv'
<1>1. /\ pc'[r] = "remember"
      /\ \A q \in Requests : q # r => pc'[q] = pc[q]
    BY GotoIs DEF IInv, Upsert
<1>2. Commit(r) /\ UNCHANGED <<upstream, hash, fetched, saving, overlapped, doubt>>
    BY DEF Upsert, history
<1>3. TypeOK'
    <2>1. "remember" \in Steps
        BY DEF Steps
    <2>2. pc' \in [Requests -> Steps]
        BY <2>1 DEF IInv, TypeOK, Upsert, Goto
    <2>3. dropping' \in [Requests -> SUBSET Tools]
        BY DEF IInv, TypeOK, Upsert
    <2> QED
        BY <1>2, <2>2, <2>3, CommitIs DEF IInv, TypeOK
<1>4. Storing' = Storing
    BY <1>1, <1>2 DEF Storing, Commit, At
<1>5. Overlaps'
    BY <1>2, <1>4 DEF IInv, Overlaps
<1>6. ASSUME NEW q \in Requests
      PROVE  Filtered(q)' /\ Alone(q)'
    <2>1. CASE q = r
        BY <2>1, <1>1, <1>2, CommitIs DEF IInv, SyncInv, Filtered, Commit, Alone, At
    <2>2. CASE q # r
        <3>1. pc[q] \in {"upsert", "remember"} => q \in overlapped
            BY <2>2, <1>2, CommitIs
        <3> QED
            BY <3>1, <2>2, <1>1, <1>2 DEF IInv, SyncInv, Filtered, Alone, At
    <2> QED
        BY <2>1, <2>2
<1>7. HashInv'
    BY <1>1 DEF HashInv, At
<1> QED
    BY <1>3, <1>5, <1>6, <1>7 DEF IInv, SyncInv

LEMMA UpsertUnheardPreserves ==
    ASSUME IInv, NEW r \in Requests, UpsertUnheard(r)
    PROVE  IInv'
<1>1. /\ Commit(r) /\ Return(r) /\ doubt' = TRUE
      /\ UNCHANGED <<upstream, hash, overlapped>>
    BY DEF UpsertUnheard
<1>2. TypeOK'
    BY <1>1, CommitIs, ReturnIs DEF IInv, TypeOK
<1>3. Overlaps'
    <2>1. Storing' \subseteq Storing
        BY <1>1, ReturnIs DEF IInv, Storing
    <2> QED
        BY <2>1, <1>1 DEF IInv, Overlaps
<1>4. ASSUME NEW q \in Requests
      PROVE  Filtered(q)' /\ Alone(q)'
    <2>1. CASE q = r
        BY <2>1, <1>1, ReturnIs DEF IInv, SyncInv, Filtered, Alone, At
    <2>2. CASE q # r
        <3>1. pc[q] \in {"upsert", "remember"} => q \in overlapped
            BY <2>2, <1>1, CommitIs
        <3> QED
            BY <3>1, <2>2, <1>1, ReturnIs DEF IInv, SyncInv, Filtered, Alone, At
    <2> QED
        BY <2>1, <2>2
<1>5. HashInv'
    BY <1>1 DEF HashInv
<1> QED
    BY <1>2, <1>3, <1>4, <1>5 DEF IInv, SyncInv

LEMMA RememberPreserves ==
    ASSUME IInv, NEW r \in Requests, Remember(r)
    PROVE  IInv'
<1>1. /\ At(r, "remember") /\ Return(r)
      /\ hash' = {fetched[r]} /\ doubt' = (r \in overlapped)
      /\ UNCHANGED <<upstream, tools, disabled, overlapped>>
    BY DEF Remember
<1>2. TypeOK'
    <2>1. fetched[r] \in SUBSET Tools
        BY DEF IInv, TypeOK
    <2> QED
        BY <2>1, <1>1, ReturnIs DEF IInv, TypeOK
<1>3. Overlaps'
    <2>1. Storing' \subseteq Storing
        BY <1>1, ReturnIs DEF IInv, Storing
    <2> QED
        BY <2>1, <1>1 DEF IInv, Overlaps
<1>4. ASSUME NEW q \in Requests
      PROVE  Filtered(q)' /\ Alone(q)'
    <2>1. CASE q = r
        BY <2>1, <1>1, ReturnIs DEF IInv, SyncInv, Filtered, Alone, At
    <2>2. CASE q # r
        BY <2>2, <1>1, ReturnIs DEF IInv, SyncInv, Filtered, Alone, At
    <2> QED
        BY <2>1, <2>2
<1>5. HashInv'
    <2>1. ASSUME ~doubt'
          PROVE  \E filter \in Filters : tools' = fetched[r] \ filter
        <3>1. tools' = saving[r]
            BY <1>1, <2>1 DEF IInv, SyncInv, Alone
        <3>2. PICK filter \in Filters : saving[r] = fetched[r] \ filter
            BY <1>1 DEF IInv, SyncInv, Filtered, At
        <3> QED
            BY <3>1, <3>2
    <2>2. fetched[r] \in SUBSET Tools
        BY DEF IInv, TypeOK
    <2> QED
        BY <1>1, <2>1, <2>2 DEF HashInv, Holds
<1> QED
    BY <1>2, <1>3, <1>4, <1>5 DEF IInv, SyncInv

LEMMA RestartPreserves ==
    ASSUME IInv, Restart
    PROVE  IInv'
<1>1. "done" \in Steps
    BY DEF Steps
<1>2. \A r \in Requests : pc'[r] = "done"
    BY DEF Restart
<1>3. TypeOK'
    BY <1>1 DEF IInv, TypeOK, Restart, history
<1>4. Overlaps' /\ SyncInv'
    BY <1>2 DEF Overlaps, Storing, SyncInv, Filtered, Alone, At
<1>5. HashInv'
    BY DEF HashInv, Restart
<1> QED
    BY <1>3, <1>4, <1>5 DEF IInv

\* Nothing of the invariant but the type depends on the upstream or the switch.
LEMMA OutsidePreserves ==
    ASSUME IInv, upstream' \in SUBSET Tools, disabled' \in SUBSET tools,
           hash' \in {hash, {}},
           UNCHANGED <<tools, pc, fetched, saving, dropping, overlapped, doubt>>
    PROVE  IInv'
<1>1. TypeOK'
    BY DEF IInv, TypeOK
<1>2. Overlaps' /\ SyncInv'
    BY DEF IInv, SyncInv, Overlaps, Storing, Filtered, Alone, At
<1>3. HashInv'
    BY DEF IInv, HashInv, Holds, At
<1> QED
    BY <1>1, <1>2, <1>3 DEF IInv

LEMMA SyncPreserves ==
    ASSUME IInv, NEW r \in Requests, Fetch(r) \/ Sync(r)
    PROVE  IInv'
<1>1. CASE Fetch(r)
    <2>1. /\ fetched' \in [Requests -> SUBSET Tools]
          /\ \A q \in Requests : q # r => fetched'[q] = fetched[q]
          /\ saving' = saving /\ saving \in [Requests -> SUBSET Tools]
        BY <1>1 DEF IInv, TypeOK, Fetch
    <2> QED
        BY <1>1, <2>1, ApproachPreserves DEF Fetch, At, history
<1>2. CASE Skip(r)
    BY <1>2, ReturnPreserves DEF Skip, At, history
<1>3. CASE Differ(r)
    <2>1. fetched' = fetched /\ fetched \in [Requests -> SUBSET Tools]
        BY <1>3 DEF IInv, TypeOK, Differ
    <2>2. PICK filter \in Filters : saving' = [saving EXCEPT ![r] = fetched[r] \ filter]
        BY <1>3 DEF Differ
    <2>3. /\ saving' \in [Requests -> SUBSET Tools]
          /\ saving'[r] = fetched'[r] \ filter
          /\ \A q \in Requests : q # r => saving'[q] = saving[q]
        BY <2>1, <2>2 DEF IInv, TypeOK
    <2> QED
        BY <1>3, <2>1, <2>3, ApproachPreserves DEF Differ, At, history
<1>4. CASE Delete(r)
    BY <1>4, DeletePreserves
<1>5. CASE Upsert(r)
    BY <1>5, UpsertPreserves
<1>6. CASE UpsertUnheard(r)
    BY <1>6, UpsertUnheardPreserves
<1>7. CASE SyncFails(r)
    BY <1>7, ReturnPreserves DEF SyncFails, At, history
<1>8. CASE Remember(r)
    BY <1>8, RememberPreserves
<1> QED
    BY <1>1, <1>2, <1>3, <1>4, <1>5, <1>6, <1>7, <1>8 DEF Sync

LEMMA NextPreserves ==
    ASSUME IInv, [Next]_vars
    PROVE  IInv'
<1>1. ASSUME NEW r \in Requests, Fetch(r) \/ Sync(r)
      PROVE  IInv'
    BY <1>1, SyncPreserves
<1>2. ASSUME NEW names \in SUBSET Tools, Offer(names)
      PROVE  IInv'
    BY <1>2, OutsidePreserves DEF Offer, history, IInv, TypeOK
<1>3. CASE Forget
    BY <1>3, OutsidePreserves DEF Forget, history, IInv, TypeOK
<1>4. CASE Restart
    BY <1>4, RestartPreserves
<1>5. ASSUME NEW t \in Tools, Disable(t) \/ Enable(t)
      PROVE  IInv'
    BY <1>5, OutsidePreserves DEF Disable, Enable, history, IInv, TypeOK
<1>6. CASE UNCHANGED vars
    BY <1>6, OutsidePreserves DEF vars, history, IInv, TypeOK
<1> QED
    BY <1>1, <1>2, <1>3, <1>4, <1>5, <1>6 DEF Next

LEMMA InitHolds == Init => IInv
<1> SUFFICES ASSUME Init PROVE IInv
    OBVIOUS
<1>1. "done" \in Steps
    BY DEF Steps
<1>2. TypeOK
    BY <1>1 DEF Init, TypeOK
<1>3. \A r \in Requests : pc[r] = "done"
    BY DEF Init
<1>4. Overlaps /\ SyncInv
    BY <1>3 DEF Overlaps, Storing, SyncInv, Filtered, Alone, At
<1>5. HashInv
    BY DEF Init, HashInv
<1> QED
    BY <1>2, <1>4, <1>5 DEF IInv

-----------------------------------------------------------------------------
(* Theorems                                                                *)

\* The inductive invariant: a sync that was alone stores what it was given, through
\* one filter, and the hash is out of date only between a commit and its end
\* (syncTools).
THEOREM Invariance == Spec => []IInv
<1>1. IInv /\ [Next]_vars => IInv'
    BY NextPreserves
<1> QED
    BY InitHolds, <1>1, PTL DEF Spec

\* The state has its type; a disabled tool is a stored one (the foreign key of
\* namespace_tool_mappings, which SyncTools' deletions follow).
THEOREM TypeCorrect == Spec => []TypeOK
<1>1. IInv => TypeOK
    BY DEF IInv
<1> QED
    BY Invariance, <1>1, PTL

\* The hash gate of syncTools skips the database only if the tools of the list are
\* stored, but for one listing's override names, unless syncs overlapped or a commit
\* went unconfirmed.
THEOREM HashAgreesHolds == Spec => []HashAgrees
<1>1. IInv => HashAgrees
    BY DEF IInv, HashInv, HashAgrees, Storing, At
<1> QED
    BY Invariance, <1>1, PTL
=============================================================================
