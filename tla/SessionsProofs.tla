-------------------------- MODULE SessionsProofs --------------------------
(***************************************************************************)
(* Proofs of Sessions' type, of the isolation of endpoints and of what     *)
(* becomes of an answer, for any number of sessions, endpoints and         *)
(* requests.                                                               *)
(***************************************************************************)
EXTENDS Sessions, SequenceTheorems, TLAPS

-----------------------------------------------------------------------------
(* The inductive invariant                                                 *)

Busy == {"lookup", "delete", "serve", "find", "send"}

\* The map holds what was put there first, so that what a lookup found stays true
\* of born when the map forgets.
Original == \A s \in SessionIds : sessions[s] # NoEndpoint => sessions[s] = born[s]

\* A request on its way names a session and an endpoint.
Named ==
    \A r \in Requests : pc[r] \in Busy => on[r] \in SessionIds /\ at[r] \in Endpoints

\* Only what is over has an answer.
Pending == \A r \in Requests : pc[r] # "done" => answer[r] = "none"

\* What a channel took names the session of the stream.
Taken == \A r \in Requests : answer[r] = "accepted" => on[r] \in SessionIds

\* A stream holds what was accepted, for its session.
Held ==
    \A s \in SessionIds : \A i \in 1 .. Len(Line(s)) :
        on[Line(s)[i]] = s /\ answer[Line(s)[i]] = "accepted"

\* What was answered before is answered.
Past == \A r \in Requests : \A q \in before[r] : answer[q] = "accepted"

IInv ==
    TypeOK /\ Original /\ Named /\ Pending /\ Taken /\ Isolated /\ Held /\ Past
        /\ InOrder /\ Accounted

-----------------------------------------------------------------------------
(* Lemmas on the answers of a stream                                       *)

\* What is moved from the head of one sequence to the end of another keeps its
\* place in the two together.
LEMMA MoveHead ==
    ASSUME NEW S, NEW w \in Seq(S), NEW c \in Seq(S), c # << >>
    PROVE  Append(w, Head(c)) \o Tail(c) = w \o c
<1> DEFINE h == <<Head(c)>>
           t == Tail(c)
<1>1. /\ h \in Seq(S)
      /\ Len(h) = 1
      /\ h[1] = c[1]
      /\ Append(w, Head(c)) = w \o h
    BY HeadTailProperties, AppendIsConcat
<1>2. /\ t \in Seq(S)
      /\ Len(t) = Len(c) - 1
      /\ \A i \in 1 .. Len(t) : t[i] = c[i + 1]
    BY HeadTailProperties
<1> HIDE DEF h, t
<1>3. /\ h \o t \in Seq(S)
      /\ Len(h \o t) = 1 + Len(t)
      /\ \A i \in 1 .. 1 + Len(t) : (h \o t)[i] = IF i <= 1 THEN h[i] ELSE t[i - 1]
    BY <1>1, <1>2, ConcatProperties
<1>4. h \o t = c
    <2>1. Len(c) \in Nat
        BY LenProperties
    <2>2. Len(h \o t) = Len(c)
        BY <1>2, <1>3, <2>1
    <2>3. ASSUME NEW i \in 1 .. Len(h \o t)
          PROVE  (h \o t)[i] = c[i]
        BY <1>1, <1>2, <1>3, <2>1, <2>2
    <2> QED
        BY <1>3, <2>2, <2>3, SeqEqual
<1>5. (w \o h) \o t = w \o (h \o t)
    <2>1. \A x, y \in Seq(S) : (w \o x) \o y = w \o (x \o y)
        BY ConcatAssociative
    <2> QED
        BY <1>1, <1>2, <2>1
<1> QED
    BY <1>1, <1>4, <1>5 DEF t

\* What comes last in a channel comes last on its stream.
LEMMA AppendLast ==
    ASSUME NEW S, NEW w \in Seq(S), NEW c \in Seq(S), NEW e \in S
    PROVE  w \o Append(c, e) = Append(w \o c, e)
<1>1. <<e>> \in Seq(S)
    OBVIOUS
<1>2. w \o c \in Seq(S)
    BY ConcatProperties
<1>3. Append(c, e) = c \o <<e>> /\ Append(w \o c, e) = (w \o c) \o <<e>>
    BY <1>2, AppendIsConcat
<1> QED
    BY <1>1, <1>3, ConcatAssociative

LEMMA LineType ==
    ASSUME TypeOK, NEW s \in SessionIds
    PROVE  /\ Line(s) \in Seq(Requests)
           /\ Len(Line(s)) \in Nat
           /\ \A i \in 1 .. Len(Line(s)) : Line(s)[i] \in Requests
<1>1. read[s] \in Seq(Requests) /\ chan[s] \in Seq(Requests)
    BY DEF TypeOK
<1>2. Line(s) \in Seq(Requests)
    BY <1>1, ConcatProperties DEF Line
<1> QED
    BY <1>2, LenProperties

-----------------------------------------------------------------------------
(* Lemmas on the steps                                                     *)

\* What a step does to a request: one at most changes, and it was not over.
LEMMA GotoIs ==
    ASSUME TypeOK, NEW r \in Requests, NEW step \in RequestSteps, Goto(r, step)
    PROVE  /\ pc' \in [Requests -> RequestSteps]
           /\ pc'[r] = step
           /\ \A q \in Requests : q # r => pc'[q] = pc[q]
BY DEF TypeOK, Goto

LEMMA ReplyIs ==
    ASSUME TypeOK, NEW r \in Requests, NEW how \in Answers, Reply(r, how)
    PROVE  /\ pc' \in [Requests -> RequestSteps]
           /\ answer' \in [Requests -> Answers]
           /\ pc'[r] = "done" /\ answer'[r] = how
           /\ \A q \in Requests : q # r => pc'[q] = pc[q] /\ answer'[q] = answer[q]
<1>1. "done" \in RequestSteps
    BY DEF RequestSteps
<1> QED
    BY <1>1, GotoIs DEF TypeOK, Reply

LEMMA EndIs ==
    ASSUME TypeOK, NEW r \in Requests, NEW how \in Answers, End(r, how)
    PROVE  /\ kind' \in [Requests -> Kinds \cup {"none"}]
           /\ on' \in [Requests -> SessionIds \cup {NoSession}]
           /\ at' \in [Requests -> Endpoints \cup {NoEndpoint}]
           /\ before' \in [Requests -> SUBSET Requests]
           /\ before'[r] = {}
           /\ \A q \in Requests : q # r =>
                /\ on'[q] = on[q]
                /\ at'[q] = at[q]
                /\ before'[q] = before[q]
BY DEF TypeOK, End

-----------------------------------------------------------------------------
(* What preserves the invariant                                            *)

\* A step that puts no answer into a channel.
LEMMA QuietPreserves ==
    ASSUME IInv, TypeOK', Original', Named', Pending', Isolated',
           \A q \in Requests :
                /\ answer'[q] = "accepted" <=> answer[q] = "accepted"
                /\ answer[q] = "accepted" => on'[q] = on[q] /\ before'[q] = before[q]
                /\ \A p \in before'[q] : answer[p] = "accepted",
           \A s \in SessionIds : Line(s)' = Line(s)
    PROVE  IInv'
<1>1. Taken'
    BY DEF IInv, Taken
<1>2. ASSUME NEW s \in SessionIds, NEW i \in 1 .. Len(Line(s))
      PROVE  Line(s)[i] \in Requests /\ answer[Line(s)[i]] = "accepted"
    BY LineType DEF IInv, Held
<1>3. Held'
    BY <1>2 DEF IInv, Held
<1>4. Past'
    <2>1. \A q \in Requests : before'[q] \subseteq Requests
        BY DEF TypeOK
    <2> QED
        BY <2>1 DEF Past
<1>5. InOrder'
    <2> SUFFICES ASSUME NEW s \in SessionIds, NEW i \in 1 .. Len(Line(s))
                 PROVE  /\ on'[Line(s)[i]] = s
                        /\ \A j \in 1 .. (i - 1) :
                            /\ Line(s)[j] # Line(s)[i]
                            /\ Line(s)[i] \notin before'[Line(s)[j]]
        BY DEF InOrder
    <2>1. \A j \in 1 .. (i - 1) : j \in 1 .. Len(Line(s))
        BY LineType DEF IInv
    <2>2. \A j \in 1 .. (i - 1) : before'[Line(s)[j]] = before[Line(s)[j]]
        BY <1>2, <2>1
    <2>3. on'[Line(s)[i]] = on[Line(s)[i]]
        BY <1>2
    <2> QED
        BY <2>2, <2>3 DEF IInv, InOrder
<1>6. Accounted'
    <2> SUFFICES ASSUME NEW q \in Requests, answer'[q] = "accepted"
                 PROVE  \E i \in 1 .. Len(Line(on[q])') : Line(on[q])'[i] = q
        BY DEF Accounted
    <2>1. on[q] \in SessionIds
        BY DEF IInv, Taken
    <2>2. \E i \in 1 .. Len(Line(on[q])) : Line(on[q])[i] = q
        BY DEF IInv, Accounted
    <2> QED
        BY <2>1, <2>2
<1> QED
    BY <1>1, <1>3, <1>4, <1>5, <1>6 DEF IInv

\* One that leaves the requests alone.
LEMMA StandingPreserves ==
    ASSUME IInv, TypeOK', Original', UNCHANGED <<requestVars, pc, answer>>,
           \A s \in SessionIds : born[s] # NoEndpoint => born'[s] = born[s],
           \A s \in SessionIds : Line(s)' = Line(s)
    PROVE  IInv'
<1>1. Named' /\ Pending'
    BY DEF IInv, Named, Pending, requestVars
<1>2. Isolated'
    BY SessionsAssumption DEF IInv, Isolated, Named, Busy, requestVars
<1>3. \A q \in Requests : \A p \in before[q] : answer[p] = "accepted"
    BY DEF IInv, Past
<1> QED
    BY <1>1, <1>2, <1>3, QuietPreserves DEF requestVars

\* A request that is answered as soon as it comes.
LEMMA ReplyPreserves ==
    ASSUME IInv, NEW r \in Requests, NEW how \in {"ok", "error"}, At(r, "new"),
           Reply(r, how), TypeOK', Original', UNCHANGED <<requestVars, chan, read>>,
           \A s \in SessionIds : born[s] # NoEndpoint => born'[s] = born[s]
    PROVE  IInv'
<1>1. how \in Answers /\ how # "accepted" /\ TypeOK /\ pc[r] = "new" /\ answer[r] = "none"
    BY DEF Answers, IInv, At, Pending
<1>2. /\ pc'[r] = "done" /\ answer'[r] = how
      /\ \A q \in Requests : q # r => pc'[q] = pc[q] /\ answer'[q] = answer[q]
    BY <1>1, ReplyIs
<1>3. Named' /\ Pending'
    BY <1>2 DEF IInv, Named, Pending, Busy, requestVars
<1>4. Isolated'
    BY <1>2, SessionsAssumption DEF IInv, Isolated, Named, Busy, requestVars
<1>5. \A q \in Requests : \A p \in before[q] : answer[p] = "accepted"
    BY DEF IInv, Past
<1>6. \A s \in SessionIds : Line(s)' = Line(s)
    BY DEF Line
<1> QED
    BY <1>1, <1>2, <1>3, <1>4, <1>5, <1>6, QuietPreserves DEF requestVars

\* A request that ends on its way.
LEMMA EndPreserves ==
    ASSUME IInv, NEW r \in Requests, NEW how \in {"ok", "error"}, pc[r] \in Busy,
           End(r, how), TypeOK', Original', UNCHANGED <<born, chan, read>>
    PROVE  IInv'
<1>1. how \in Answers /\ how # "accepted" /\ TypeOK /\ answer[r] = "none"
    BY DEF Answers, IInv, Pending, Busy
<1>2. Reply(r, how)
    BY DEF End
<1>3. /\ pc'[r] = "done" /\ answer'[r] = how /\ before'[r] = {}
      /\ \A q \in Requests : q # r =>
            /\ pc'[q] = pc[q] /\ answer'[q] = answer[q] /\ on'[q] = on[q]
            /\ at'[q] = at[q] /\ before'[q] = before[q]
    BY <1>1, <1>2, ReplyIs, EndIs
<1>4. Named' /\ Pending'
    BY <1>3 DEF IInv, Named, Pending, Busy
<1>5. Isolated'
    BY <1>3 DEF IInv, Isolated
<1>6. \A q \in Requests : \A p \in before'[q] : answer[p] = "accepted"
    BY <1>3 DEF IInv, Past
<1>7. \A s \in SessionIds : Line(s)' = Line(s)
    BY DEF Line
<1> QED
    BY <1>1, <1>3, <1>4, <1>5, <1>6, <1>7, QuietPreserves

\* A request that goes on, past its lookup only at the session's endpoint.
LEMMA GoPreserves ==
    ASSUME IInv, NEW r \in Requests, NEW step \in Busy, pc[r] \in Busy, Goto(r, step),
           born[on[r]] = at[r], UNCHANGED <<sessionVars, streamVars, requestVars, answer>>
    PROVE  IInv'
<1>1. TypeOK /\ step \in RequestSteps
    BY DEF IInv, Busy, RequestSteps
<1>2. /\ pc' \in [Requests -> RequestSteps] /\ pc'[r] = step
      /\ \A q \in Requests : q # r => pc'[q] = pc[q]
    BY <1>1, GotoIs
<1>3. TypeOK' /\ Original'
    BY <1>2 DEF IInv, TypeOK, Original, sessionVars, streamVars, requestVars
<1>4. Named' /\ Pending'
    BY <1>2 DEF IInv, Named, Pending, Busy, requestVars
<1>5. Isolated'
    BY <1>2 DEF IInv, Isolated, requestVars, sessionVars
<1>6. \A q \in Requests : \A p \in before[q] : answer[p] = "accepted"
    BY DEF IInv, Past
<1>7. \A s \in SessionIds : Line(s)' = Line(s)
    BY DEF Line, streamVars
<1> QED
    BY <1>3, <1>4, <1>5, <1>6, <1>7, QuietPreserves DEF requestVars

-----------------------------------------------------------------------------
(* Preservation, action by action                                          *)

LEMMA PutIs ==
    ASSUME TypeOK, Original, NEW s \in SessionIds, NEW e \in Endpoints, Put(s, e)
    PROVE  /\ sessions' \in [SessionIds -> Endpoints \cup {NoEndpoint}]
           /\ born' \in [SessionIds -> Endpoints \cup {NoEndpoint}]
           /\ Original'
           /\ \A t \in SessionIds : born[t] # NoEndpoint => born'[t] = born[t]
BY DEF TypeOK, Original, Put

LEMMA ForgottenIs ==
    ASSUME TypeOK, Original, NEW s \in SessionIds, sessions' = Forgotten(s),
           UNCHANGED born
    PROVE  /\ sessions' \in [SessionIds -> Endpoints \cup {NoEndpoint}]
           /\ Original'
BY DEF TypeOK, Original, Forgotten

\* What is taken leaves the channel, and the line stays as it is.
LEMMA TakeIs ==
    ASSUME TypeOK, NEW s \in SessionIds, Take(s)
    PROVE  /\ chan' \in [SessionIds -> Seq(Requests)]
           /\ \A t \in SessionIds : Len(chan'[t]) <= ChanCap
           /\ read' \in [SessionIds -> Seq(Requests)]
           /\ \A t \in SessionIds : Line(t)' = Line(t)
<1> DEFINE w == read[s]
           c == chan[s]
<1>1. w \in Seq(Requests) /\ c \in Seq(Requests) /\ c # << >> /\ Len(c) <= ChanCap
    BY DEF Take, TypeOK
<1>2. /\ chan' = [chan EXCEPT ![s] = Tail(c)]
      /\ read' = [read EXCEPT ![s] = Append(w, Head(c))]
    BY DEF Take
<1>3. /\ Tail(c) \in Seq(Requests) /\ Len(Tail(c)) <= ChanCap
      /\ Append(w, Head(c)) \in Seq(Requests)
    <2>1. Head(c) \in Requests /\ Tail(c) \in Seq(Requests) /\ Len(Tail(c)) = Len(c) - 1
        BY <1>1, HeadTailProperties
    <2>2. Append(w, Head(c)) \in Seq(Requests)
        BY <1>1, <2>1, AppendProperties
    <2>3. Len(c) \in Nat
        BY <1>1, LenProperties
    <2> QED
        BY <1>1, <2>1, <2>2, <2>3, SessionsAssumption
<1>4. Append(w, Head(c)) \o Tail(c) = w \o c
    BY <1>1, MoveHead
<1> DEFINE x == Append(w, Head(c))
           y == Tail(c)
<1> HIDE DEF x, y
<1>5. /\ chan' = [chan EXCEPT ![s] = y] /\ y \in Seq(Requests) /\ Len(y) <= ChanCap
      /\ read' = [read EXCEPT ![s] = x] /\ x \in Seq(Requests)
      /\ x \o y = read[s] \o chan[s]
    BY <1>2, <1>3, <1>4 DEF x, y
<1>6. /\ chan' \in [SessionIds -> Seq(Requests)]
      /\ \A t \in SessionIds : Len(chan'[t]) <= ChanCap
      /\ read' \in [SessionIds -> Seq(Requests)]
    BY <1>5 DEF TypeOK
<1>7. ASSUME NEW t \in SessionIds
      PROVE  Line(t)' = Line(t)
    <2>1. /\ chan'[s] = y /\ read'[s] = x
          /\ t # s => chan'[t] = chan[t] /\ read'[t] = read[t]
        BY <1>5 DEF TypeOK
    <2> QED
        BY <1>5, <2>1 DEF Line
<1> QED
    BY <1>6, <1>7

\* What is written is what was in hand.
LEMMA WriteIs ==
    ASSUME TypeOK, NEW s \in SessionIds, Write(s), Follows(s)
    PROVE  /\ written' \in [SessionIds -> Seq(Requests)]
           /\ \A t \in SessionIds : t # s => written'[t] = written[t]
           /\ stream[s] # "writing" \/ s \in gone => written' = written
           /\ stream[s] = "writing" /\ s \notin gone =>
                /\ Len(read[s]) = Len(written[s]) + 1
                /\ Len(written'[s]) = Len(written[s]) + 1
                /\ \A i \in 1 .. Len(written'[s]) : written'[s][i] = read[s][i]
<1>1. /\ written \in [SessionIds -> Seq(Requests)]
      /\ written[s] \in Seq(Requests) /\ Len(written[s]) \in Nat
      /\ read[s] \in Seq(Requests) /\ Len(read[s]) \in Nat
    BY LenProperties DEF TypeOK
<1>2. CASE stream[s] = "writing" /\ s \notin gone
    <2> DEFINE last == read[s][Len(read[s])]
               w == Append(written[s], last)
    <2>1. Len(read[s]) = Len(written[s]) + 1
        BY <1>2 DEF Follows, InHand
    <2>2. last \in Requests
        BY <1>1, <2>1, LenProperties
    <2> HIDE DEF last
    <2>3. /\ w \in Seq(Requests) /\ Len(w) = Len(written[s]) + 1
          /\ w[Len(written[s]) + 1] = last
          /\ \A i \in 1 .. Len(written[s]) : w[i] = written[s][i]
        BY <1>1, <2>2, AppendProperties
    <2>4. written' = [written EXCEPT ![s] = w]
        BY <1>2 DEF Write, last
    <2> HIDE DEF w
    <2>5. /\ written' \in [SessionIds -> Seq(Requests)] /\ written'[s] = w
          /\ \A t \in SessionIds : t # s => written'[t] = written[t]
        BY <1>1, <2>3, <2>4
    <2>6. ASSUME NEW i \in 1 .. Len(w)
          PROVE  w[i] = read[s][i]
        <3>1. CASE i \in 1 .. Len(written[s])
            BY <2>3, <3>1 DEF Follows
        <3>2. CASE i = Len(written[s]) + 1
            BY <2>1, <2>3, <3>2 DEF last
        <3> QED
            BY <1>1, <2>3, <3>1, <3>2
    <2> QED
        BY <1>2, <2>1, <2>3, <2>5, <2>6
<1>3. CASE ~(stream[s] = "writing" /\ s \notin gone)
    BY <1>1, <1>3 DEF Write
<1> QED
    BY <1>2, <1>3

\* The steps of a stream's handler, and the passing of time.
LEMMA HandlerPreserves ==
    ASSUME IInv, NEW s \in SessionIds,
           \/ \E e \in Endpoints : OpenStream(s, e)
           \/ Register(s) \/ Disconnect(s) \/ Beat(s) \/ Take(s)
           \/ Write(s) /\ Follows(s)
           \/ CloseStream(s) \/ Unregister(s) \/ Age(s)
    PROVE  IInv'
<1>1. TypeOK /\ Original
    BY DEF IInv
<1>2. CASE \E e \in Endpoints : OpenStream(s, e)
    <2> PICK e \in Endpoints : OpenStream(s, e)
        BY <1>2
    <2>1. Put(s, e) /\ UNCHANGED <<aged, chan, gone, read, written, requestVars, pc, answer>>
        BY DEF OpenStream, Put
    <2>2. stream' \in [SessionIds -> StreamSteps] /\ UNCHANGED sseChans
        BY <1>1 DEF OpenStream, TypeOK, StreamSteps, Served
    <2>3. TypeOK'
        BY <1>1, <2>1, <2>2, PutIs DEF TypeOK, requestVars
    <2>4. \A t \in SessionIds : Line(t)' = Line(t)
        BY <2>1 DEF Line
    <2> QED
        BY <1>1, <2>1, <2>3, <2>4, PutIs, StandingPreserves
<1>3. CASE Register(s)
    <2>1. TypeOK' /\ Original'
        BY <1>1, <1>3 DEF Register, TypeOK, Original, StreamSteps, Served, sessionVars, requestVars
    <2>2. \A t \in SessionIds : Line(t)' = Line(t)
        BY <1>3 DEF Register, Line
    <2> QED
        BY <1>3, <2>1, <2>2, StandingPreserves DEF Register, sessionVars
<1>4. CASE Take(s)
    <2>1. UNCHANGED <<sessionVars, sseChans, gone, written, requestVars, pc, answer>>
        BY <1>4 DEF Take
    <2>2. /\ chan' \in [SessionIds -> Seq(Requests)]
          /\ \A t \in SessionIds : Len(chan'[t]) <= ChanCap
          /\ read' \in [SessionIds -> Seq(Requests)]
          /\ \A t \in SessionIds : Line(t)' = Line(t)
        BY <1>1, <1>4, TakeIs
    <2>3. stream' \in [SessionIds -> StreamSteps]
        BY <1>1, <1>4 DEF Take, TypeOK, StreamSteps, Served
    <2>4. TypeOK'
        BY <1>1, <2>1, <2>2, <2>3 DEF TypeOK, sessionVars, requestVars
    <2>5. Original' /\ UNCHANGED <<born, requestVars, pc, answer>>
        BY <1>1, <2>1 DEF Original, sessionVars
    <2> QED
        BY <2>2, <2>4, <2>5, StandingPreserves
<1>8. CASE Write(s) /\ Follows(s)
    <2>1. UNCHANGED <<sessionVars, sseChans, chan, gone, read, requestVars, pc, answer>>
        BY <1>8 DEF Write
    <2>2. written' \in [SessionIds -> Seq(Requests)]
        BY <1>1, <1>8, WriteIs
    <2>3. stream' \in [SessionIds -> StreamSteps]
        BY <1>1, <1>8 DEF Write, TypeOK, StreamSteps, Served
    <2>4. TypeOK'
        BY <1>1, <2>1, <2>2, <2>3 DEF TypeOK, sessionVars, requestVars
    <2>5. Original' /\ UNCHANGED <<born, requestVars, pc, answer>>
        BY <1>1, <2>1 DEF Original, sessionVars
    <2>6. \A t \in SessionIds : Line(t)' = Line(t)
        BY <2>1 DEF Line
    <2> QED
        BY <2>4, <2>5, <2>6, StandingPreserves
<1>9. CASE Disconnect(s) \/ Beat(s)
    <2>1. TypeOK' /\ Original'
        BY <1>1, <1>9
        DEF Disconnect, Beat, TypeOK, Original, StreamSteps, Served, sessionVars, requestVars
    <2>2. \A t \in SessionIds : Line(t)' = Line(t)
        BY <1>9 DEF Disconnect, Beat, Line
    <2> QED
        BY <1>9, <2>1, <2>2, StandingPreserves DEF Disconnect, Beat, sessionVars
<1>5. CASE CloseStream(s)
    <2>1. stream' \in [SessionIds -> StreamSteps]
        BY <1>1, <1>5 DEF CloseStream, TypeOK, StreamSteps, Served
    <2>2. /\ sessions' = Forgotten(s)
          /\ UNCHANGED <<aged, born, sseChans, chan, gone, read, written, requestVars, pc, answer>>
        BY <1>5 DEF CloseStream
    <2>3. TypeOK' /\ Original'
        BY <1>1, <2>1, <2>2, ForgottenIs DEF TypeOK, requestVars
    <2>4. \A t \in SessionIds : Line(t)' = Line(t)
        BY <2>2 DEF Line
    <2> QED
        BY <2>2, <2>3, <2>4, StandingPreserves
<1>6. CASE Unregister(s)
    <2>1. TypeOK' /\ Original'
        BY <1>1, <1>6 DEF Unregister, TypeOK, Original, StreamSteps, Served, sessionVars, requestVars
    <2>2. \A t \in SessionIds : Line(t)' = Line(t)
        BY <1>6 DEF Unregister, Line
    <2> QED
        BY <1>6, <2>1, <2>2, StandingPreserves DEF Unregister, sessionVars
<1>7. CASE Age(s)
    <2>1. TypeOK' /\ Original'
        BY <1>1, <1>7 DEF Age, TypeOK, Original, streamVars, requestVars
    <2>2. \A t \in SessionIds : Line(t)' = Line(t)
        BY <1>7 DEF Age, Line, streamVars
    <2> QED
        BY <1>7, <2>1, <2>2, StandingPreserves DEF Age
<1> QED
    BY <1>2, <1>3, <1>4, <1>5, <1>6, <1>7, <1>8, <1>9

LEMMA SweepPreserves ==
    ASSUME IInv, Sweep
    PROVE  IInv'
<1>1. TypeOK' /\ Original'
    BY DEF IInv, Sweep, TypeOK, Original, streamVars, requestVars
<1>2. \A s \in SessionIds : Line(s)' = Line(s)
    BY DEF Sweep, Line, streamVars
<1> QED
    BY <1>1, <1>2, StandingPreserves DEF Sweep

\* What is answered as soon as it comes.
LEMMA NewPreserves ==
    ASSUME IInv, NEW r \in Requests,
           \/ \E s \in SessionIds, e \in Endpoints : Initialize(r, s, e)
           \/ Note(r) \/ TurnAway(r)
    PROVE  IInv'
<1>1. TypeOK /\ Original /\ At(r, "new") /\ "ok" \in Answers /\ "error" \in Answers
    BY DEF IInv, Initialize, Note, TurnAway, Answers
<1>2. ASSUME NEW how \in {"ok", "error"}, Reply(r, how),
             UNCHANGED <<sessionVars, streamVars, requestVars>>
      PROVE  IInv'
    <2>1. TypeOK' /\ Original'
        BY <1>1, <1>2, ReplyIs DEF TypeOK, Original, sessionVars, streamVars, requestVars
    <2> QED
        BY <1>1, <1>2, <2>1, ReplyPreserves DEF sessionVars, streamVars
<1>3. CASE \E s \in SessionIds, e \in Endpoints : Initialize(r, s, e)
    <2> PICK s \in SessionIds, e \in Endpoints : Initialize(r, s, e)
        BY <1>3
    <2>1. Put(s, e) /\ Reply(r, "ok") /\ UNCHANGED <<aged, streamVars, requestVars>>
        BY DEF Initialize, Put
    <2>2. TypeOK'
        BY <1>1, <2>1, PutIs, ReplyIs DEF TypeOK, streamVars, requestVars
    <2> QED
        BY <1>1, <2>1, <2>2, PutIs, ReplyPreserves DEF streamVars
<1>4. CASE Note(r)
    BY <1>2, <1>4 DEF Note
<1>5. CASE TurnAway(r)
    BY <1>2, <1>5 DEF TurnAway
<1> QED
    BY <1>3, <1>4, <1>5

LEMMA ArrivePreserves ==
    ASSUME IInv, NEW r \in Requests, NEW k \in Kinds, NEW s \in SessionIds,
           NEW e \in Endpoints, Arrive(r, k, s, e)
    PROVE  IInv'
<1>1. TypeOK /\ pc[r] = "new" /\ answer[r] = "none" /\ "lookup" \in RequestSteps
    BY DEF IInv, Arrive, At, Pending, RequestSteps
<1>2. Messages(s) \in SUBSET Requests /\ \A q \in Messages(s) : answer[q] = "accepted"
    BY DEF Messages
<1>3. /\ pc' \in [Requests -> RequestSteps]
      /\ pc'[r] = "lookup" /\ \A q \in Requests : q # r => pc'[q] = pc[q]
    BY <1>1, GotoIs DEF Arrive
<1>4. /\ on' \in [Requests -> SessionIds \cup {NoSession}]
      /\ on'[r] = s /\ \A q \in Requests : q # r => on'[q] = on[q]
    BY <1>1 DEF TypeOK, Arrive
<1>5. /\ at' \in [Requests -> Endpoints \cup {NoEndpoint}]
      /\ at'[r] = e /\ \A q \in Requests : q # r => at'[q] = at[q]
    BY <1>1 DEF TypeOK, Arrive
<1>6. /\ before' \in [Requests -> SUBSET Requests]
      /\ before'[r] = Messages(s) /\ \A q \in Requests : q # r => before'[q] = before[q]
    BY <1>1, <1>2 DEF TypeOK, Arrive
<1>7. /\ kind' \in [Requests -> Kinds \cup {"none"}]
      /\ UNCHANGED <<sessionVars, streamVars, answer>>
    BY <1>1 DEF TypeOK, Arrive
<1>8. TypeOK'
    BY <1>1, <1>3, <1>4, <1>5, <1>6, <1>7 DEF TypeOK, sessionVars, streamVars
<1>9. Original' /\ Named' /\ Pending' /\ Isolated'
    BY <1>1, <1>3, <1>4, <1>5, <1>7
    DEF IInv, Original, Named, Pending, Isolated, Busy, sessionVars
<1>10. \A q \in Requests : \A p \in before'[q] : answer[p] = "accepted"
    BY <1>2, <1>6 DEF IInv, Past
<1>11. \A t \in SessionIds : Line(t)' = Line(t)
    BY <1>7 DEF Line, streamVars
<1> QED
    BY <1>1, <1>4, <1>6, <1>7, <1>8, <1>9, <1>10, <1>11, QuietPreserves

\* A request at its steps, save the sending.
LEMMA HandlePreserves ==
    ASSUME IInv, NEW r \in Requests, Handle(r), ~Send(r)
    PROVE  IInv'
<1>1. TypeOK /\ Original
    BY DEF IInv
<1>2. ASSUME NEW how \in {"ok", "error"}, pc[r] \in Busy, End(r, how), Original',
             sessions' \in [SessionIds -> Endpoints \cup {NoEndpoint}],
             UNCHANGED <<aged, born, streamVars>>
      PROVE  IInv'
    <2>1. how \in Answers /\ Reply(r, how)
        BY <1>2 DEF Answers, End
    <2>2. TypeOK'
        BY <1>1, <1>2, <2>1, ReplyIs, EndIs DEF TypeOK, streamVars
    <2> QED
        BY <1>2, <2>2, EndPreserves DEF streamVars
<1>3. ASSUME NEW how \in {"ok", "error"}, pc[r] \in Busy, End(r, how),
             UNCHANGED <<sessionVars, streamVars>>
      PROVE  IInv'
    BY <1>1, <1>2, <1>3 DEF TypeOK, Original, sessionVars
<1>4. CASE Lookup(r)
    <2>1. /\ pc[r] = "lookup" /\ sessions[on[r]] = at[r]
          /\ on[r] \in SessionIds /\ at[r] \in Endpoints
        BY <1>4 DEF Lookup, At, Good, IInv, Named, Busy
    <2>2. born[on[r]] = at[r]
        BY <1>1, <2>1, SessionsAssumption DEF Original
    <2> DEFINE step == IF kind[r] = "delete" THEN "delete" ELSE "serve"
    <2>3. step \in Busy /\ Goto(r, step)
        BY <1>4 DEF Lookup, Busy
    <2> HIDE DEF step
    <2> QED
        BY <1>4, <2>1, <2>2, <2>3, GoPreserves DEF Lookup, Busy
<1>5. CASE LookupFails(r)
    <2>1. pc[r] = "lookup" /\ on[r] \in SessionIds
        BY <1>5 DEF LookupFails, At, IInv, Named, Busy
    <2>2. sessions' \in [SessionIds -> Endpoints \cup {NoEndpoint}] /\ Original'
        <3>1. CASE sessions' = Forgotten(on[r])
            BY <1>1, <1>5, <2>1, <3>1, ForgottenIs DEF LookupFails
        <3>2. CASE sessions' = sessions
            BY <1>1, <1>5, <3>2 DEF LookupFails, TypeOK, Original
        <3> QED
            BY <1>5, <3>1, <3>2 DEF LookupFails
    <2> QED
        BY <1>2, <1>5, <2>1, <2>2 DEF LookupFails, Busy
<1>6. CASE Delete(r)
    <2>1. pc[r] = "delete" /\ on[r] \in SessionIds
        BY <1>6 DEF Delete, At, IInv, Named, Busy
    <2>2. sessions' \in [SessionIds -> Endpoints \cup {NoEndpoint}] /\ Original'
        BY <1>1, <1>6, <2>1, ForgottenIs DEF Delete
    <2> QED
        BY <1>2, <1>6, <2>1, <2>2 DEF Delete, Busy
<1>7. CASE ServePost(r)
    BY <1>3, <1>7 DEF ServePost, At, Busy
<1>8. CASE ServeMessage(r)
    BY <1>8, GoPreserves DEF ServeMessage, At, Busy, IInv, Isolated
<1>9. CASE ServeNotification(r)
    BY <1>3, <1>9 DEF ServeNotification, At, Busy
<1>11. CASE ServeFails(r)
    BY <1>3, <1>11 DEF ServeFails, At, Busy
<1>12. CASE FindStream(r)
    BY <1>12, GoPreserves DEF FindStream, At, Busy, IInv, Isolated
<1>13. CASE StreamGone(r)
    BY <1>3, <1>13 DEF StreamGone, At, Busy
<1>14. CASE Drop(r)
    BY <1>3, <1>14 DEF Drop, At, Busy
<1> QED
    BY <1>4, <1>5, <1>6, <1>7, <1>8, <1>9, <1>11, <1>12, <1>13, <1>14 DEF Handle

\* The sending, where an answer takes its place on the stream.
LEMMA SendIs ==
    ASSUME TypeOK, NEW r \in Requests, NEW s \in SessionIds, on[r] = s, Send(r)
    PROVE  /\ chan' \in [SessionIds -> Seq(Requests)]
           /\ \A t \in SessionIds : Len(chan'[t]) <= ChanCap
           /\ Line(s)' = Append(Line(s), r)
           /\ \A t \in SessionIds : t # s => Line(t)' = Line(t)
<1> DEFINE w == read[s]
           c == chan[s]
<1>1. /\ w \in Seq(Requests) /\ c \in Seq(Requests) /\ Len(c) < ChanCap
      /\ chan' = [chan EXCEPT ![s] = Append(c, r)] /\ read' = read
    BY DEF TypeOK, Send
<1>2. w \o c = Line(s)
    BY DEF Line
<1> HIDE DEF w, c
<1>3. /\ Append(c, r) \in Seq(Requests) /\ Len(Append(c, r)) = Len(c) + 1
      /\ Len(c) \in Nat
    BY <1>1, AppendProperties, LenProperties
<1>4. w \o Append(c, r) = Append(Line(s), r)
    BY <1>1, <1>2, AppendLast
<1> DEFINE x == Append(c, r)
<1>5. /\ x \in Seq(Requests) /\ Len(x) <= ChanCap
      /\ chan' = [chan EXCEPT ![s] = x] /\ w \o x = Append(Line(s), r)
    BY <1>1, <1>3, <1>4, SessionsAssumption
<1> HIDE DEF x
<1>6. /\ chan' \in [SessionIds -> Seq(Requests)] /\ chan'[s] = x
      /\ \A t \in SessionIds : t # s => chan'[t] = chan[t]
    BY <1>5 DEF TypeOK
<1>7. \A t \in SessionIds : Len(chan'[t]) <= ChanCap
    BY <1>5, <1>6 DEF TypeOK
<1>8. Line(s)' = w \o x /\ \A t \in SessionIds : t # s => Line(t)' = Line(t)
    BY <1>1, <1>6 DEF Line, w
<1> QED
    BY <1>5, <1>6, <1>7, <1>8

LEMMA SendPreserves ==
    ASSUME IInv, NEW r \in Requests, Send(r)
    PROVE  IInv'
<1>1. on[r] \in SessionIds
    BY DEF IInv, Send, At, Named, Busy
<1> PICK s \in SessionIds : on[r] = s
    BY <1>1
<1>2. /\ TypeOK /\ pc[r] = "send" /\ answer[r] = "none"
      /\ at[r] \in Endpoints /\ born[s] = at[r]
    BY DEF IInv, Send, At, Pending, Named, Busy, Isolated
<1>3. /\ Reply(r, "accepted") /\ "accepted" \in Answers
      /\ UNCHANGED <<sessionVars, stream, sseChans, gone, read, written, requestVars>>
    BY DEF Send, Answers
<1>4. /\ pc' \in [Requests -> RequestSteps] /\ answer' \in [Requests -> Answers]
      /\ pc'[r] = "done" /\ answer'[r] = "accepted"
      /\ \A q \in Requests : q # r => pc'[q] = pc[q] /\ answer'[q] = answer[q]
    BY <1>2, <1>3, ReplyIs
<1>5. TypeOK'
    BY <1>2, <1>3, <1>4, SendIs DEF TypeOK, sessionVars, requestVars
<1>6. UNCHANGED <<sessions, born, read, on, at, before>>
    BY <1>3 DEF sessionVars, requestVars
<1>7. /\ Line(s)' = Append(Line(s), r)
       /\ \A t \in SessionIds : t # s => Line(t)' = Line(t)
    BY <1>2, SendIs
<1>8. \A t \in SessionIds :
            /\ Line(t) \in Seq(Requests) /\ Len(Line(t)) \in Nat
            /\ \A i \in 1 .. Len(Line(t)) :
                /\ Line(t)[i] \in Requests /\ Line(t)[i] # r
                /\ on[Line(t)[i]] = t /\ answer[Line(t)[i]] = "accepted"
    BY <1>2, LineType DEF IInv, Held
<1>9. /\ Len(Line(s)') = Len(Line(s)) + 1
       /\ Line(s)'[Len(Line(s)) + 1] = r
       /\ \A i \in 1 .. Len(Line(s)) : Line(s)'[i] = Line(s)[i]
    BY <1>2, <1>7, <1>8, AppendProperties
<1>10. Original' /\ Named' /\ Pending' /\ Isolated'
    BY <1>2, <1>4, <1>6 DEF IInv, Original, Named, Pending, Isolated, Busy
<1>11. Taken' /\ Past'
    <2>1. \A q \in Requests : answer[q] = "accepted" => answer'[q] = "accepted"
        BY <1>2, <1>4
    <2>2. \A q \in Requests : before[q] \subseteq Requests
        BY <1>2 DEF TypeOK
    <2> QED
        BY <1>2, <1>4, <1>6, <2>1, <2>2 DEF IInv, Taken, Past
<1>12. Held'
    <2> SUFFICES ASSUME NEW t \in SessionIds, NEW i \in 1 .. Len(Line(t)')
                 PROVE  on[Line(t)'[i]] = t /\ answer'[Line(t)'[i]] = "accepted"
        BY <1>6 DEF Held
    <2>1. CASE t # s \/ i \in 1 .. Len(Line(s))
        <3>1. Line(t)'[i] = Line(t)[i] /\ i \in 1 .. Len(Line(t))
            BY <1>7, <1>9, <2>1
        <3> QED
            BY <1>4, <1>8, <3>1
    <2>2. CASE t = s /\ i = Len(Line(s)) + 1
        BY <1>4, <1>6, <1>9, <2>2
    <2> QED
        BY <1>2, <1>8, <1>9, <2>1, <2>2
<1>13. InOrder'
    <2>1. ASSUME NEW q \in Requests
          PROVE  r \notin before[q]
        BY <1>2 DEF IInv, Past
    <2> SUFFICES ASSUME NEW t \in SessionIds, NEW i \in 1 .. Len(Line(t)')
                 PROVE  /\ on[Line(t)'[i]] = t
                        /\ \A j \in 1 .. (i - 1) :
                            /\ Line(t)'[j] # Line(t)'[i]
                            /\ Line(t)'[i] \notin before[Line(t)'[j]]
        BY <1>6 DEF InOrder
    <2>2. CASE t # s \/ i \in 1 .. Len(Line(s))
        <3>1. i \in 1 .. Len(Line(t)) /\ \A j \in 1 .. i : Line(t)'[j] = Line(t)[j]
            BY <1>7, <1>8, <1>9, <2>2
        <3>2. i \in 1 .. i /\ \A j \in 1 .. (i - 1) : j \in 1 .. i
            BY <3>1
        <3> QED
            BY <3>1, <3>2 DEF IInv, InOrder
    <2>3. CASE t = s /\ i = Len(Line(s)) + 1
        <3>1. \A j \in 1 .. (i - 1) :
                j \in 1 .. Len(Line(s)) /\ Line(s)'[j] = Line(s)[j]
            BY <1>2, <1>8, <1>9, <2>3
        <3> QED
            BY <1>2, <1>6, <1>8, <1>9, <2>1, <2>3, <3>1
    <2> QED
        BY <1>2, <1>8, <1>9, <2>2, <2>3
<1>14. Accounted'
    <2> SUFFICES ASSUME NEW q \in Requests, answer'[q] = "accepted"
                 PROVE  \E i \in 1 .. Len(Line(on[q])') : Line(on[q])'[i] = q
        BY DEF Accounted
    <2>1. CASE q = r
        <3>1. Len(Line(s)) + 1 \in 1 .. Len(Line(s)')
            BY <1>2, <1>8, <1>9
        <3> QED
            BY <1>6, <1>9, <2>1, <3>1
    <2>2. CASE q # r
        <3>1. answer[q] = "accepted" /\ on[q] \in SessionIds
            BY <1>4, <2>2 DEF IInv, Taken
        <3>2. PICK i \in 1 .. Len(Line(on[q])) : Line(on[q])[i] = q
            BY <3>1 DEF IInv, Accounted
        <3> PICK t \in SessionIds : on[q] = t
            BY <3>1
        <3>3. i \in 1 .. Len(Line(t)') /\ Line(t)'[i] = q
            BY <1>7, <1>8, <1>9, <3>2
        <3>4. on'[q] = t
            BY <1>6
        <3> QED
            BY <3>3, <3>4
    <2> QED
        BY <2>1, <2>2
<1> QED
    BY <1>5, <1>10, <1>11, <1>12, <1>13, <1>14 DEF IInv

-----------------------------------------------------------------------------
(* The streams                                                             *)

\* Only what was created ages or has a stream, a channel is registered while its
\* stream is open or closing, and who found one sends to a stream that was opened.
StreamInv ==
    /\ \A s \in SessionIds : s \in aged \/ stream[s] # "none" => born[s] # NoEndpoint
    /\ \A s \in sseChans : stream[s] \in Served \cup {"closing"}
    /\ \A r \in Requests : pc[r] = "send" => stream[on[r]] \in Served \cup {"closing", "closed"}

\* A handler has one answer in hand at most, and what it wrote is what it took.
Tracked == \A s \in SessionIds : Follows(s)

\* What leaves the streams alone, and sends to registered channels only.
LEMMA StreamsStand ==
    ASSUME StreamInv, UNCHANGED <<aged, stream, sseChans>>,
           \A s \in SessionIds : born[s] # NoEndpoint => born'[s] = born[s],
           \A q \in Requests : pc'[q] = "send" =>
                on'[q] = on[q] /\ (pc[q] = "send" \/ on[q] \in sseChans)
    PROVE  StreamInv'
BY SessionsAssumption DEF StreamInv

\* Every step of Sessions keeps the streams as they should be.
LEMMA StreamStep ==
    ASSUME IInv, StreamInv, [Next]_vars
    PROVE  StreamInv'
<1>1. TypeOK /\ Original
    BY DEF IInv
<1>2. CASE UNCHANGED vars
    BY <1>2 DEF StreamInv, vars, sessionVars, streamVars, requestVars
<1>3. ASSUME NEW r \in Requests, NEW s \in SessionIds, NEW e \in Endpoints, Initialize(r, s, e)
      PROVE  StreamInv'
    <2>1. \A t \in SessionIds : born[t] # NoEndpoint => born'[t] = born[t]
        BY <1>1, <1>3, PutIs DEF Initialize
    <2>2. \A q \in Requests : pc'[q] = "send" => pc[q] = "send"
        BY <1>1, <1>3 DEF Initialize, Reply, Goto, TypeOK
    <2> QED
        BY <1>3, <2>1, <2>2, StreamsStand
        DEF Initialize, Put, streamVars, requestVars
<1>4. ASSUME NEW r \in Requests, NEW k \in Kinds, NEW s \in SessionIds, NEW e \in Endpoints,
             Arrive(r, k, s, e)
      PROVE  StreamInv'
    <2>1. \A q \in Requests : pc'[q] = "send" => pc[q] = "send" /\ on'[q] = on[q]
        BY <1>1, <1>4 DEF Arrive, Goto, TypeOK
    <2> QED
        BY <1>4, <2>1, StreamsStand DEF Arrive, sessionVars, streamVars
<1>5. ASSUME NEW r \in Requests, Note(r) \/ TurnAway(r)
      PROVE  StreamInv'
    <2>1. \A q \in Requests : pc'[q] = "send" => pc[q] = "send"
        BY <1>1, <1>5 DEF Note, TurnAway, Reply, Goto, TypeOK
    <2> QED
        BY <1>5, <2>1, StreamsStand
        DEF Note, TurnAway, sessionVars, streamVars, requestVars
<1>6. ASSUME NEW r \in Requests, Handle(r)
      PROVE  StreamInv'
    <2>1. UNCHANGED <<aged, born, stream, sseChans>>
        BY <1>6 DEF Handle, Lookup, LookupFails, Delete, ServePost, ServeMessage,
            ServeNotification, ServeFails, FindStream, StreamGone, Send, Drop,
            sessionVars, streamVars
    <2>2. CASE FindStream(r)
        <3>1. \A q \in Requests : pc'[q] = "send" =>
                on'[q] = on[q] /\ (pc[q] = "send" \/ on[q] \in sseChans)
            BY <1>1, <2>2 DEF FindStream, Goto, TypeOK, requestVars
        <3> QED
            BY <2>1, <3>1, StreamsStand
    <2>3. ASSUME NEW how \in Answers, End(r, how)
          PROVE  StreamInv'
        <3>1. \A q \in Requests : pc'[q] = "send" => pc[q] = "send" /\ on'[q] = on[q]
            BY <1>1, <2>3, ReplyIs, EndIs DEF End
        <3> QED
            BY <2>1, <3>1, StreamsStand
    <2>4. CASE Lookup(r) \/ ServeMessage(r) \/ Send(r)
        <3>1. \A q \in Requests : pc'[q] = "send" => pc[q] = "send"
            BY <1>1, <2>4 DEF Lookup, ServeMessage, Send, Reply, Goto, TypeOK
        <3> QED
            BY <2>1, <2>4, <3>1, StreamsStand DEF Lookup, ServeMessage, Send, requestVars
    <2>5. "ok" \in Answers /\ "error" \in Answers
        BY DEF Answers
    <2> QED
        BY <1>6, <2>2, <2>3, <2>4, <2>5
        DEF Handle, LookupFails, Delete, ServePost, ServeNotification, ServeFails, StreamGone, Drop
<1>7. ASSUME NEW s \in SessionIds, NEW e \in Endpoints, OpenStream(s, e)
      PROVE  StreamInv'
    <2>1. /\ \A t \in SessionIds : born[t] # NoEndpoint => born'[t] = born[t]
          /\ born[s] = NoEndpoint /\ born'[s] = e
          /\ stream'[s] = "stored"
          /\ \A t \in SessionIds : t # s => stream'[t] = stream[t]
        BY <1>1, <1>7, PutIs DEF OpenStream, Put, TypeOK
    <2>2. UNCHANGED <<aged, sseChans, pc, on>>
        BY <1>7 DEF OpenStream, Put, requestVars
    <2>3. stream[s] = "none"
        BY <2>1 DEF StreamInv
    <2>4. \A t \in SessionIds : stream[t] # "none" => stream'[t] = stream[t]
        BY <2>1, <2>3
    <2>5. sseChans \subseteq SessionIds /\ \A r \in Requests : pc[r] = "send" => on[r] \in SessionIds
        BY <1>1 DEF TypeOK, IInv, Named, Busy
    <2>6. \A t \in sseChans : stream[t] # "none"
        BY DEF StreamInv, Served
    <2>7. \A r \in Requests : pc[r] = "send" => stream[on[r]] # "none"
        BY DEF StreamInv, Served
    <2> QED
        BY <2>1, <2>2, <2>4, <2>5, <2>6, <2>7, SessionsAssumption DEF StreamInv
<1>8. ASSUME NEW s \in SessionIds,
             \/ Register(s) \/ Disconnect(s) \/ Beat(s) \/ Take(s) \/ Write(s)
             \/ CloseStream(s) \/ Unregister(s) \/ Age(s)
      PROVE  StreamInv'
    <2>1. sseChans \subseteq SessionIds /\ \A r \in Requests : pc[r] = "send" => on[r] \in SessionIds
        BY <1>1 DEF TypeOK, IInv, Named, Busy
    <2>2. CASE Register(s)
        BY <1>1, <2>1, <2>2 DEF Register, StreamInv, Served, TypeOK, sessionVars, requestVars
    <2>3. CASE Beat(s) \/ Take(s) \/ Write(s)
        <3>1. /\ stream[s] \in Served /\ stream'[s] \in Served
              /\ \A t \in SessionIds : t # s => stream'[t] = stream[t]
            BY <1>1, <2>3 DEF Beat, Take, Write, Served, TypeOK
        <3>2. UNCHANGED <<aged, born, sseChans, pc, on>>
            BY <2>3 DEF Beat, Take, Write, sessionVars, requestVars
        <3>3. stream[s] # "none"
            BY <3>1 DEF Served
        <3> QED
            BY <2>1, <3>1, <3>2, <3>3 DEF StreamInv
    <2>4. CASE CloseStream(s)
        BY <1>1, <2>1, <2>4 DEF CloseStream, StreamInv, Served, TypeOK, requestVars
    <2>5. CASE Unregister(s)
        BY <1>1, <2>1, <2>5 DEF Unregister, StreamInv, Served, TypeOK, sessionVars, requestVars
    <2>6. CASE Age(s)
        BY <1>1, <2>6, SessionsAssumption
        DEF Age, StreamInv, IInv, Original, streamVars, requestVars
    <2>7. CASE Disconnect(s)
        BY <2>7 DEF Disconnect, StreamInv, sessionVars, requestVars
    <2> QED
        BY <1>8, <2>2, <2>3, <2>4, <2>5, <2>6, <2>7
<1>9. CASE Sweep
    BY <1>9 DEF Sweep, StreamInv, streamVars, requestVars
<1> QED
    BY <1>2, <1>3, <1>4, <1>5, <1>6, <1>7, <1>8, <1>9 DEF Next

\* What leaves a stream and its answers alone, or moves its handler with none in hand.
LEMMA FollowsStays ==
    ASSUME NEW s \in SessionIds, Follows(s), InHand(s)' = InHand(s),
           read'[s] = read[s], written'[s] = written[s], s \in gone => s \in gone'
    PROVE  Follows(s)'
BY DEF Follows

\* Every step of Sessions keeps account of what the handlers have in hand.
LEMMA TrackedStep ==
    ASSUME IInv, StreamInv, Tracked, [Next]_vars
    PROVE  Tracked'
<1>1. TypeOK
    BY DEF IInv
<1>2. CASE UNCHANGED <<stream, gone, read, written>>
    <2>1. \A s \in SessionIds : InHand(s)' = InHand(s)
        BY <1>2 DEF InHand
    <2> QED
        BY <1>2, <2>1, FollowsStays DEF Tracked
<1>3. ASSUME NEW t \in SessionIds,
             UNCHANGED <<read, written>>, gone \subseteq gone',
             \A s \in SessionIds : stream'[s] = "writing" <=> stream[s] = "writing"
      PROVE  Tracked'
    <2>1. \A s \in SessionIds : InHand(s)' = InHand(s)
        BY <1>3 DEF InHand
    <2> QED
        BY <1>3, <2>1, FollowsStays DEF Tracked
<1>4. ASSUME NEW t \in SessionIds, NEW e \in Endpoints, OpenStream(t, e)
      PROVE  Tracked'
    <2>1. stream[t] = "none"
        BY <1>4 DEF OpenStream, Put, StreamInv
    <2> QED
        BY <1>1, <1>3, <1>4, <2>1 DEF OpenStream, TypeOK
<1>5. ASSUME NEW t \in SessionIds,
             \/ Register(t) \/ Disconnect(t) \/ Beat(t) \/ CloseStream(t) \/ Unregister(t)
      PROVE  Tracked'
    BY <1>1, <1>3, <1>5 DEF Register, Disconnect, Beat, CloseStream, Unregister, TypeOK
<1>6. ASSUME NEW t \in SessionIds, Take(t)
      PROVE  Tracked'
    <2>1. /\ read[t] \in Seq(Requests) /\ chan[t] \in Seq(Requests) /\ chan[t] # << >>
          /\ written[t] \in Seq(Requests) /\ Len(written[t]) \in Nat /\ Len(read[t]) \in Nat
        BY <1>1, <1>6, LenProperties DEF Take, TypeOK
    <2> DEFINE h == Head(chan[t])
               w == Append(read[t], h)
    <2>2. h \in Requests
        BY <2>1, HeadTailProperties
    <2>3. /\ stream' = [stream EXCEPT ![t] = "writing"] /\ stream[t] = "open"
          /\ read' = [read EXCEPT ![t] = w] /\ UNCHANGED <<gone, written>>
        BY <1>6 DEF Take
    <2> HIDE DEF h
    <2>4. /\ Len(w) = Len(read[t]) + 1
          /\ \A i \in 1 .. Len(read[t]) : w[i] = read[t][i]
        BY <2>1, <2>2, AppendProperties
    <2> HIDE DEF w
    <2>5. read'[t] = w /\ stream'[t] = "writing"
        BY <1>1, <2>3 DEF TypeOK
    <2>6. Follows(t)'
        <3>1. /\ Len(written[t]) <= Len(read[t])
              /\ \A i \in 1 .. Len(written[t]) : written[t][i] = read[t][i]
              /\ t \notin gone => Len(read[t]) = Len(written[t])
            <4>1. InHand(t) = 0
                BY <2>3 DEF InHand
            <4>2. \A m, n \in Nat : m = n + 0 => m = n
                OBVIOUS
            <4> QED
                BY <2>1, <4>1, <4>2 DEF Tracked, Follows
        <3>2. InHand(t)' = 1
            BY <2>5 DEF InHand
        <3> QED
            BY <2>1, <2>3, <2>4, <2>5, <3>1, <3>2 DEF Follows
    <2>7. ASSUME NEW s \in SessionIds, s # t
          PROVE  Follows(s)'
        <3>1. InHand(s)' = InHand(s) /\ read'[s] = read[s]
            BY <1>1, <2>3, <2>7 DEF InHand, TypeOK
        <3> QED
            BY <2>3, <3>1, FollowsStays DEF Tracked
    <2> QED
        BY <2>6, <2>7 DEF Tracked
<1>7. ASSUME NEW t \in SessionIds, Write(t)
      PROVE  Tracked'
    <2>1. /\ Follows(t) /\ UNCHANGED <<gone, read>>
          /\ stream' = [stream EXCEPT ![t] = "open"] /\ stream[t] \in {"writing", "beating"}
        BY <1>7 DEF Write, Tracked
    <2>2. stream'[t] = "open" /\ \A s \in SessionIds : s # t => stream'[s] = stream[s]
        BY <1>1, <2>1 DEF TypeOK
    <2>3. \A s \in SessionIds : s # t => written'[s] = written[s]
        BY <1>1, <1>7, <2>1, WriteIs
    <2>4. ASSUME NEW s \in SessionIds, s # t
          PROVE  Follows(s)'
        <3>1. InHand(s)' = InHand(s)
            BY <2>2, <2>4 DEF InHand
        <3> QED
            BY <2>1, <2>3, <2>4, <3>1, FollowsStays DEF Tracked
    <2>5. InHand(t)' = 0
        BY <2>2 DEF InHand
    <2>6. ASSUME stream[t] = "writing", t \notin gone
          PROVE  Follows(t)'
        <3>1. /\ Len(read[t]) = Len(written[t]) + 1
              /\ Len(written'[t]) = Len(written[t]) + 1
              /\ \A i \in 1 .. Len(written'[t]) : written'[t][i] = read[t][i]
            BY <1>1, <1>7, <2>1, <2>6, WriteIs
        <3>2. Len(written[t]) \in Nat
            BY <1>1, LenProperties DEF TypeOK
        <3> QED
            BY <2>1, <2>5, <3>1, <3>2 DEF Follows
    <2>7. ASSUME stream[t] # "writing" \/ t \in gone
          PROVE  Follows(t)'
        <3>1. written' = written
            BY <1>1, <1>7, <2>1, <2>7, WriteIs
        <3>2. t \in gone \/ InHand(t) = 0
            BY <2>1, <2>7 DEF InHand
        <3> QED
            BY <2>1, <2>5, <3>1, <3>2 DEF Follows
    <2> QED
        BY <2>4, <2>6, <2>7 DEF Tracked
<1>8. ASSUME NEW r \in Requests, NEW s \in SessionIds, NEW e \in Endpoints,
             Initialize(r, s, e) \/ \E k \in Kinds : Arrive(r, k, s, e)
      PROVE  UNCHANGED <<stream, gone, read, written>>
    BY <1>8 DEF Initialize, Arrive, streamVars
<1>9. ASSUME NEW r \in Requests, Note(r) \/ TurnAway(r) \/ Handle(r)
      PROVE  UNCHANGED <<stream, gone, read, written>>
    BY <1>9 DEF Note, TurnAway, Handle, Lookup, LookupFails, Delete, ServePost, ServeMessage,
        ServeNotification, ServeFails, FindStream, StreamGone, Send, Drop,
        streamVars
<1>10. CASE Sweep \/ UNCHANGED vars \/ \E s \in SessionIds : Age(s)
    BY <1>2, <1>10 DEF Sweep, Age, vars, streamVars
<1> QED
    BY <1>2, <1>4, <1>5, <1>6, <1>7, <1>8, <1>9, <1>10 DEF Next

-----------------------------------------------------------------------------
(* Theorems                                                                *)

LEMMA InitInvariant == Init => IInv /\ StreamInv /\ Tracked
<1> SUFFICES ASSUME Init
             PROVE  IInv /\ StreamInv /\ Tracked
    OBVIOUS
<1>1. << >> \in Seq(Requests) /\ Len(<< >>) = 0 /\ << >> \o << >> = << >>
    OBVIOUS
<1>2. TypeOK
    BY <1>1, SessionsAssumption
    DEF Init, TypeOK, StreamSteps, Served, RequestSteps, Answers
<1>3. \A s \in SessionIds : Line(s) = << >>
    BY <1>1 DEF Init, Line
<1>4. Held /\ InOrder
    BY <1>1, <1>3 DEF Held, InOrder
<1>5. Original /\ Named /\ Pending /\ Taken /\ Isolated /\ Past /\ Accounted
    BY DEF Init, Original, Named, Pending, Taken, Isolated, Past, Accounted, Busy
<1>6. StreamInv
    BY DEF Init, StreamInv
<1>7. ASSUME NEW s \in SessionIds
      PROVE  Follows(s)
    <2>1. read[s] = << >> /\ written[s] = << >> /\ InHand(s) = 0
        BY DEF Init, InHand
    <2>2. 0 <= 0 /\ 0 = 0 + 0 /\ 1 .. 0 = {}
        OBVIOUS
    <2>3. Len(written[s]) = 0 /\ Len(read[s]) = 0
        BY <1>1, <2>1
    <2> QED
        BY <2>1, <2>2, <2>3 DEF Follows
<1> QED
    BY <1>2, <1>4, <1>5, <1>6, <1>7 DEF IInv, Tracked

LEMMA NextPreserves ==
    ASSUME IInv, Tracked, [Next]_vars
    PROVE  IInv'
<1>1. CASE UNCHANGED vars
    <2>1. TypeOK' /\ Original' /\ UNCHANGED <<born, requestVars, pc, answer, chan, read>>
        BY <1>1 DEF IInv, TypeOK, Original, vars, sessionVars, streamVars, requestVars
    <2>2. \A s \in SessionIds : Line(s)' = Line(s)
        BY <2>1 DEF Line
    <2> QED
        BY <2>1, <2>2, StandingPreserves
<1>2. CASE \E r \in Requests :
            \/ \E s \in SessionIds, e \in Endpoints : Initialize(r, s, e)
            \/ Note(r) \/ TurnAway(r)
    BY <1>2, NewPreserves
<1>3. CASE \E r \in Requests, s \in SessionIds, e \in Endpoints :
                \E k \in Kinds : Arrive(r, k, s, e)
    BY <1>3, ArrivePreserves
<1>4. CASE \E r \in Requests : Handle(r)
    BY <1>4, HandlePreserves, SendPreserves
<1>5. CASE \E s \in SessionIds :
            \/ \E e \in Endpoints : OpenStream(s, e)
            \/ Register(s) \/ Disconnect(s) \/ Beat(s) \/ Take(s) \/ Write(s)
            \/ CloseStream(s) \/ Unregister(s) \/ Age(s)
    BY <1>5, HandlerPreserves DEF Tracked
<1>6. CASE Sweep
    BY <1>6, SweepPreserves
<1> QED
    BY <1>1, <1>2, <1>3, <1>4, <1>5, <1>6 DEF Next

\* Lookups stay true of a session's birth, a stream holds what was accepted, for its
\* session, and its handler writes what it takes (server.go: SessionStore, handleSSE,
\* handleSSEMessage).
THEOREM Invariance == Spec => [](IInv /\ StreamInv /\ Tracked)
<1>1. IInv /\ StreamInv /\ Tracked /\ [Next]_vars => (IInv /\ StreamInv /\ Tracked)'
    BY NextPreserves, StreamStep, TrackedStep
<1> QED
    BY InitInvariant, <1>1, PTL DEF Spec

\* The state has its type: a channel never holds more than its capacity.
THEOREM TypeCorrect == Spec => []TypeOK
<1>1. IInv => TypeOK
    BY DEF IInv
<1> QED
    BY Invariance, <1>1, PTL

\* Whoever is served, or ends a session, is at the endpoint that the session was
\* created on (SessionStore.Get).
THEOREM IsolatedHolds == Spec => []Isolated
<1>1. IInv => Isolated
    BY DEF IInv
<1> QED
    BY Invariance, <1>1, PTL

\* The answers on a stream are its session's, come once, and in the order of the
\* messages whose clients waited (handleSSEMessage, handleSSE).
THEOREM InOrderHolds == Spec => []InOrder
<1>1. IInv => InOrder
    BY DEF IInv
<1> QED
    BY Invariance, <1>1, PTL

\* What a channel accepted is in it still or was taken from it, and what was taken is
\* written in that order as long as the client is connected (handleSSEMessage,
\* handleSSE); what a broken connection had in hand may be lost.
THEOREM NothingLostHolds == Spec => []NothingLost
<1>1. IInv /\ Tracked => NothingLost
    BY DEF IInv, Tracked, NothingLost
<1> QED
    BY Invariance, <1>1, PTL

\* A step binds no session anew that was created before.
LEMMA MapStep ==
    ASSUME IInv, [Next]_vars, NEW s \in SessionIds, born[s] # NoEndpoint
    PROVE  sessions'[s] \in {sessions[s], NoEndpoint}
<1>1. /\ sessions \in [SessionIds -> Endpoints \cup {NoEndpoint}]
      /\ \A r \in Requests : pc[r] \in Busy => on[r] \in SessionIds
    BY DEF IInv, TypeOK, Named
<1>2. CASE UNCHANGED sessions
    BY <1>2
<1>3. CASE \E t \in SessionIds, e \in Endpoints : Put(t, e)
    BY <1>1, <1>3 DEF Put
<1>4. CASE \E t \in SessionIds : sessions' = Forgotten(t)
    BY <1>1, <1>4 DEF Forgotten
<1>5. CASE Sweep
    BY <1>1, <1>5 DEF Sweep
<1>6. ASSUME NEW r \in Requests, Handle(r)
      PROVE  UNCHANGED sessions \/ \E t \in SessionIds : sessions' = Forgotten(t)
    <2>1. CASE LookupFails(r) \/ Delete(r)
        BY <1>1, <2>1 DEF LookupFails, Delete, At, Busy
    <2>2. CASE ~LookupFails(r) /\ ~Delete(r)
        BY <1>6, <2>2
        DEF Handle, Lookup, ServePost, ServeMessage, ServeNotification, ServeFails, FindStream, StreamGone, Send, Drop, sessionVars
    <2> QED
        BY <2>1, <2>2
<1>7. ASSUME NEW r \in Requests, Note(r) \/ TurnAway(r)
      PROVE  UNCHANGED sessions
    BY <1>7 DEF Note, TurnAway, sessionVars
<1>8. ASSUME NEW t \in SessionIds,
             \/ Register(t) \/ Disconnect(t) \/ Beat(t) \/ Take(t) \/ Write(t)
             \/ CloseStream(t) \/ Unregister(t) \/ Age(t)
      PROVE  UNCHANGED sessions \/ sessions' = Forgotten(t)
    BY <1>8 DEF Register, Disconnect, Beat, Take, Write, CloseStream, Unregister, Age, sessionVars
<1>9. ASSUME NEW r \in Requests, NEW t \in SessionIds, NEW e \in Endpoints
      PROVE  /\ Initialize(r, t, e) => Put(t, e)
             /\ \A k \in Kinds : Arrive(r, k, t, e) => UNCHANGED sessions
    BY DEF Initialize, Arrive, sessionVars
<1>10. CASE UNCHANGED vars
    BY <1>2, <1>10 DEF vars, sessionVars
<1>11. CASE \E t \in SessionIds, e \in Endpoints : OpenStream(t, e)
    BY <1>3, <1>11 DEF OpenStream
<1> QED
    BY <1>2, <1>3, <1>4, <1>5, <1>6, <1>7, <1>8, <1>9, <1>10, <1>11 DEF Next

\* A session is never bound to another endpoint, and does not come back
\* (handlePost, SessionStore).
THEOREM SessionsStayHolds == Spec => SessionsStay
<1>1. IInv /\ [Next]_vars =>
        [\A s \in SessionIds :
            born[s] # NoEndpoint => sessions'[s] \in {sessions[s], NoEndpoint}]_vars
    BY MapStep
<1> QED
    BY Invariance, <1>1, PTL DEF Spec, SessionsStay

-----------------------------------------------------------------------------
(* The delivery                                                            *)

\* An answer with the endpoint its message came to.
Marks == [request : Requests, endpoint : Endpoints \cup {NoEndpoint}]

\* A line with the endpoints of its requests is a sequence as long.
LEMMA MarkAll ==
    ASSUME NEW line \in Seq(Requests), NEW a \in [Requests -> Endpoints \cup {NoEndpoint}],
           NEW marked,
           marked = [i \in 1 .. Len(line) |-> [request |-> line[i], endpoint |-> a[line[i]]]]
    PROVE  /\ marked \in Seq(Marks)
           /\ Len(marked) = Len(line)
           /\ \A i \in 1 .. Len(line) :
                marked[i] = [request |-> line[i], endpoint |-> a[line[i]]]
<1>1. Len(line) \in Nat /\ \A i \in 1 .. Len(line) : line[i] \in Requests
    BY LenProperties
<1> DEFINE mark(i) == [request |-> line[i], endpoint |-> a[line[i]]]
<1>2. \A i \in 1 .. Len(line) : mark(i) \in Marks
    BY <1>1 DEF Marks
<1>3. marked = [i \in 1 .. Len(line) |-> mark(i)]
    OBVIOUS
<1> HIDE DEF mark
<1>4. marked \in Seq(Marks)
    BY <1>1, <1>2, <1>3
<1>5. Len(marked) = Len(line)
    BY <1>1, <1>3, <1>4, LenProperties
<1> QED
    BY <1>3, <1>4, <1>5 DEF mark

\* The marked line, element by element.
LEMMA MarkedIs ==
    ASSUME TypeOK, NEW s \in SessionIds
    PROVE  /\ Marked(s) \in Seq(Marks)
           /\ Len(Marked(s)) = Len(Line(s))
           /\ \A i \in 1 .. Len(Line(s)) :
                Marked(s)[i] = [request |-> Line(s)[i], endpoint |-> at[Line(s)[i]]]
<1>1. Line(s) \in Seq(Requests) /\ at \in [Requests -> Endpoints \cup {NoEndpoint}]
    BY LineType DEF TypeOK
<1> QED
    BY <1>1, MarkAll DEF Marked

\* What waits in the channel is what is accepted and not taken.
LEMMA LineLength ==
    ASSUME TypeOK, NEW s \in SessionIds
    PROVE  /\ Len(written[s]) \in Nat /\ Len(read[s]) \in Nat
           /\ Len(chan[s]) \in Nat
           /\ Len(Line(s)) = Len(read[s]) + Len(chan[s])
<1>1. /\ read[s] \in Seq(Requests) /\ chan[s] \in Seq(Requests)
      /\ written[s] \in Seq(Requests)
    BY DEF TypeOK
<1> QED
    BY <1>1, ConcatProperties, LenProperties DEF Line

\* Nobody who has got 202 changes its endpoint, so a line that stays keeps its marks.
LEMMA MarksStay ==
    ASSUME IInv, NEW s \in SessionIds, Line(s)' = Line(s),
           \A q \in Requests : answer[q] = "accepted" => at'[q] = at[q]
    PROVE  Marked(s)' = Marked(s)
<1>1. \A i \in 1 .. Len(Line(s)) : at'[Line(s)[i]] = at[Line(s)[i]]
    BY LineType DEF IInv, Held
<1> QED
    BY <1>1 DEF Marked

\* What leaves the answers of every stream as they are.
LEMMA AnswersStay ==
    ASSUME IInv, UNCHANGED <<chan, read, written>>,
           \A q \in Requests : answer[q] = "accepted" => at'[q] = at[q]
    PROVE  /\ [s \in SessionIds |-> Marked(s)]' = [s \in SessionIds |-> Marked(s)]
           /\ [s \in SessionIds |-> Len(written[s])]' = [s \in SessionIds |-> Len(written[s])]
<1>1. \A s \in SessionIds : Line(s)' = Line(s)
    BY DEF Line
<1>2. \A s \in SessionIds : Marked(s)' = Marked(s)
    BY <1>1, MarksStay
<1> QED
    BY <1>2

\* Sessions that end, one at most in a step, are forgotten.
LEMMA ForgetStep ==
    ASSUME IInv, UNCHANGED <<born, stream, chan, gone, read, written>>,
           \A q \in Requests : answer[q] = "accepted" => at'[q] = at[q],
           findable' = findable \/ \E s \in SessionIds : findable' = findable \ {s}
    PROVE  [Delivering!Next]_(Delivering!deliveryVars)
<1>1. UNCHANGED <<opened, closed>>
    BY DEF opened, closed
<1>2. CASE findable' = findable
    BY <1>1, <1>2, AnswersStay DEF Delivering!deliveryVars
<1>3. CASE \E s \in SessionIds : findable' = findable \ {s}
    <2>1. PICK s \in SessionIds : findable' = findable \ {s}
        BY <1>3
    <2>2. Delivering!Forget(s)
        BY <1>1, <2>1, AnswersStay DEF Delivering!Forget
    <2> QED
        BY <2>2 DEF Delivering!Next
<1> QED
    BY <1>2, <1>3

\* A session is created by initialize or with its stream.
LEMMA CreateStep ==
    ASSUME IInv, StreamInv, NEW s \in SessionIds, NEW e \in Endpoints, Put(s, e),
           UNCHANGED <<chan, gone, read, written, at, opened, closed>>
    PROVE  Delivering!Next
<1>1. TypeOK /\ born[s] = NoEndpoint /\ s \notin aged
    BY DEF IInv, Put, StreamInv
<1>2. findable' = findable \cup {s}
    BY <1>1, SessionsAssumption DEF findable, Put, TypeOK
<1>3. Delivering!Create(s, e)
    BY <1>1, <1>2, AnswersStay DEF Delivering!Create, Put
<1> QED
    BY <1>3 DEF Delivering!Next

\* A stream opens, writes, closes; its unregistering is nobody's business.
LEMMA StreamDelivers ==
    ASSUME IInv, IInv', StreamInv, Tracked, NEW s \in SessionIds,
           \/ Register(s) \/ Disconnect(s) \/ Beat(s) \/ Take(s) \/ Write(s)
           \/ CloseStream(s) \/ Unregister(s)
    PROVE  [Delivering!Next]_(Delivering!deliveryVars)
<1>1. TypeOK /\ TypeOK'
    BY DEF IInv
<1>2. CASE Register(s)
    <2>1. UNCHANGED <<born, findable, chan, gone, read, written, at>>
        BY <1>2 DEF Register, findable, sessionVars, requestVars
    <2>2. s \notin opened /\ opened' = opened \cup {s} /\ closed' = closed
        BY <1>1, <1>2 DEF Register, Served, opened, closed, TypeOK
    <2>3. born[s] # NoEndpoint
        BY <1>2 DEF Register, StreamInv
    <2>4. Delivering!Open(s)
        BY <2>1, <2>2, <2>3, AnswersStay DEF Delivering!Open
    <2> QED
        BY <2>4 DEF Delivering!Next
<1>3. CASE Write(s)
    <2>1. UNCHANGED <<born, findable, gone, chan, read, at>>
        BY <1>3 DEF Write, findable, sessionVars, requestVars
    <2>2. UNCHANGED <<opened, closed>> /\ s \in opened \ closed
        BY <1>1, <1>3 DEF Write, Served, opened, closed, TypeOK
    <2>3. \A t \in SessionIds : Marked(t)' = Marked(t)
        BY <2>1, MarksStay DEF Line
    <2>4. Follows(s) /\ \A t \in SessionIds : t # s => written'[t] = written[t]
        BY <1>1, <1>3, WriteIs DEF Tracked
    <2>5. CASE written' = written
        BY <2>1, <2>2, <2>3, <2>5 DEF Delivering!deliveryVars
    <2>6. CASE written' # written
        <3>1. stream[s] = "writing" /\ s \notin gone
            BY <1>1, <1>3, <2>4, <2>6, WriteIs
        <3>2. /\ Len(read[s]) = Len(written[s]) + 1
              /\ Len(written'[s]) = Len(written[s]) + 1
            BY <1>1, <1>3, <2>4, <3>1, WriteIs
        <3>3. [t \in SessionIds |-> Len(written[t])]' =
                [[t \in SessionIds |-> Len(written[t])] EXCEPT ![s] = @ + 1]
            BY <2>4, <3>2
        <3>4. Len(written[s]) < Len(Marked(s))
            <4>1. /\ Len(written[s]) \in Nat /\ Len(read[s]) \in Nat /\ Len(chan[s]) \in Nat
                  /\ Len(Marked(s)) = Len(read[s]) + Len(chan[s])
                BY <1>1, LineLength, MarkedIs
            <4>2. \A l, m, n \in Nat : m = l + 1 => l < m + n
                OBVIOUS
            <4> QED
                BY <3>2, <4>1, <4>2
        <3>5. Delivering!Deliver(s)
            BY <2>1, <2>2, <2>3, <3>1, <3>3, <3>4 DEF Delivering!Deliver
        <3> QED
            BY <3>5 DEF Delivering!Next
    <2> QED
        BY <2>5, <2>6
<1>6. CASE Disconnect(s)
    <2>1. UNCHANGED <<born, findable, chan, read, written, at>> /\ gone' = gone \cup {s}
        BY <1>6 DEF Disconnect, findable, sessionVars, requestVars
    <2>2. UNCHANGED <<opened, closed>>
        BY <1>6 DEF Disconnect, opened, closed
    <2>3. born[s] # NoEndpoint
        BY <1>6 DEF Disconnect, Served, StreamInv
    <2>4. Delivering!Break(s)
        BY <2>1, <2>2, <2>3, AnswersStay DEF Delivering!Break
    <2> QED
        BY <2>4 DEF Delivering!Next
<1>7. CASE Beat(s) \/ Take(s)
    <2>1. UNCHANGED <<born, findable, gone, written, at>>
        BY <1>7 DEF Beat, Take, findable, sessionVars, requestVars
    <2>2. UNCHANGED <<opened, closed>>
        BY <1>1, <1>7 DEF Beat, Take, Served, opened, closed, TypeOK
    <2>3. \A t \in SessionIds : Line(t)' = Line(t)
        BY <1>1, <1>7, TakeIs DEF Beat, Line
    <2>4. \A t \in SessionIds : Marked(t)' = Marked(t)
        BY <2>1, <2>3, MarksStay
    <2> QED
        BY <2>1, <2>2, <2>4 DEF Delivering!deliveryVars
<1>4. CASE CloseStream(s)
    <2>1. UNCHANGED <<born, chan, gone, read, written, at>> /\ findable' = findable \ {s}
        BY <1>1, <1>4 DEF CloseStream, Forgotten, findable, TypeOK, requestVars
    <2>2. s \in opened \ closed /\ closed' = closed \cup {s} /\ opened' = opened
        BY <1>1, <1>4 DEF CloseStream, Served, opened, closed, TypeOK
    <2>3. Delivering!Close(s)
        BY <2>1, <2>2, AnswersStay DEF Delivering!Close
    <2> QED
        BY <2>3 DEF Delivering!Next
<1>5. CASE Unregister(s)
    <2>1. UNCHANGED <<born, findable, chan, gone, read, written, at>>
        BY <1>5 DEF Unregister, findable, sessionVars, requestVars
    <2>2. UNCHANGED <<opened, closed>>
        BY <1>1, <1>5 DEF Unregister, Served, opened, closed, TypeOK
    <2> QED
        BY <2>1, <2>2, AnswersStay DEF Delivering!deliveryVars
<1> QED
    BY <1>2, <1>3, <1>4, <1>5, <1>6, <1>7

\* A 202 for a channel is the next answer of its stream.
LEMMA AcceptStep ==
    ASSUME IInv, StreamInv, Tracked, NEW r \in Requests, Send(r)
    PROVE  Delivering!Next
<1>1. TypeOK /\ pc[r] = "send" /\ answer[r] = "none" /\ on[r] \in SessionIds
    BY DEF IInv, Send, At, Pending, Named, Busy
<1> PICK s \in SessionIds : on[r] = s
    BY <1>1
<1>2. at[r] \in Endpoints /\ born[s] = at[r] /\ s \in opened
    BY <1>1 DEF IInv, Isolated, Named, Busy, StreamInv, opened
<1>3. UNCHANGED <<born, findable, opened, closed, gone, read, written, at>>
    BY DEF Send, findable, opened, closed, sessionVars, requestVars
<1>4. Line(s)' = Append(Line(s), r) /\ \A t \in SessionIds : t # s => Line(t)' = Line(t)
    BY <1>1, SendIs
<1> DEFINE mark == [request |-> r, endpoint |-> born[s]]
<1>5. Marked(s)' = Append(Marked(s), mark)
    <2>1. /\ Line(s) \in Seq(Requests) /\ Len(Line(s)) \in Nat
          /\ Marked(s) \in Seq(Marks) /\ Len(Marked(s)) = Len(Line(s))
          /\ \A i \in 1 .. Len(Line(s)) :
                Marked(s)[i] = [request |-> Line(s)[i], endpoint |-> at[Line(s)[i]]]
        BY <1>1, LineType, MarkedIs
    <2>2. Line(s)' \in Seq(Requests) /\ at \in [Requests -> Endpoints \cup {NoEndpoint}]
        BY <1>1, <1>4, <2>1, AppendProperties DEF TypeOK
    <2>3. /\ Marked(s)' \in Seq(Marks) /\ Len(Marked(s)') = Len(Line(s)')
          /\ \A i \in 1 .. Len(Line(s)') :
                Marked(s)'[i] = [request |-> Line(s)'[i], endpoint |-> at[Line(s)'[i]]]
        <3>1. Marked(s)' =
                [i \in 1 .. Len(Line(s)') |->
                    [request |-> Line(s)'[i], endpoint |-> at[Line(s)'[i]]]]
            BY <1>3 DEF Marked
        <3>2. PICK line, marked :
                line \in Seq(Requests) /\ line = Line(s)' /\ marked = Marked(s)'
            BY <2>2
        <3>3. marked = [i \in 1 .. Len(line) |-> [request |-> line[i], endpoint |-> at[line[i]]]]
            BY <3>1, <3>2
        <3>4. line \in Seq(Requests)
            BY <3>2
        <3>5. at \in [Requests -> Endpoints \cup {NoEndpoint}]
            BY <2>2
        <3>6. /\ marked \in Seq(Marks) /\ Len(marked) = Len(line)
              /\ \A i \in 1 .. Len(line) :
                    marked[i] = [request |-> line[i], endpoint |-> at[line[i]]]
            BY <3>3, <3>4, <3>5, MarkAll
        <3> QED
            BY <3>2, <3>6
    <2>4. /\ Len(Line(s)') = Len(Line(s)) + 1
          /\ Line(s)'[Len(Line(s)) + 1] = r
          /\ \A i \in 1 .. Len(Line(s)) : Line(s)'[i] = Line(s)[i]
        BY <1>4, <2>1, AppendProperties
    <2>5. mark \in Marks
        BY <1>2 DEF Marks
    <2> HIDE DEF mark
    <2>6. /\ Append(Marked(s), mark) \in Seq(Marks)
          /\ Len(Append(Marked(s), mark)) = Len(Line(s)) + 1
          /\ Append(Marked(s), mark)[Len(Line(s)) + 1] = mark
          /\ \A i \in 1 .. Len(Line(s)) : Append(Marked(s), mark)[i] = Marked(s)[i]
        BY <2>1, <2>5, AppendProperties
    <2>7. ASSUME NEW i \in 1 .. Len(Marked(s)')
          PROVE  Marked(s)'[i] = Append(Marked(s), mark)[i]
        <3>1. CASE i \in 1 .. Len(Line(s))
            BY <2>1, <2>3, <2>4, <2>6, <3>1
        <3>2. CASE i = Len(Line(s)) + 1
            BY <1>2, <2>3, <2>4, <2>6, <3>2 DEF mark
        <3> QED
            BY <2>1, <2>3, <2>4, <3>1, <3>2
    <2> QED
        BY <2>3, <2>4, <2>6, <2>7, SeqEqual
<1>6. \A t \in SessionIds : t # s => Marked(t)' = Marked(t)
    BY <1>3, <1>4, MarksStay
<1>7. [t \in SessionIds |-> Marked(t)]' =
        [[t \in SessionIds |-> Marked(t)] EXCEPT ![s] = Append(@, mark)]
    BY <1>5, <1>6
<1>8. \A t \in SessionIds : \A i \in 1 .. Len(Marked(t)) : Marked(t)[i].request # r
    <2> SUFFICES ASSUME NEW t \in SessionIds, NEW i \in 1 .. Len(Marked(t))
                 PROVE  Marked(t)[i].request # r
        OBVIOUS
    <2>1. /\ i \in 1 .. Len(Line(t))
          /\ Marked(t)[i] = [request |-> Line(t)[i], endpoint |-> at[Line(t)[i]]]
        BY <1>1, MarkedIs
    <2>2. Line(t)[i] # r
        BY <1>1, <2>1 DEF IInv, Held
    <2> QED
        BY <2>1, <2>2
<1>9. s \in gone \/ Len(Marked(s)) - Len(written[s]) < ChanCap + 1
    <2>1. Len(chan[s]) < ChanCap
        BY DEF Send
    <2>2. /\ Len(written[s]) \in Nat /\ Len(read[s]) \in Nat /\ Len(chan[s]) \in Nat
          /\ Len(Marked(s)) = Len(read[s]) + Len(chan[s])
        BY <1>1, LineLength, MarkedIs
    <2>3. s \in gone \/ Len(read[s]) <= Len(written[s]) + 1
        <3>1. InHand(s) \in 0 .. 1
            BY DEF InHand
        <3>2. s \notin gone => Len(read[s]) = Len(written[s]) + InHand(s)
            BY DEF Tracked, Follows
        <3> QED
            BY <2>2, <3>1, <3>2
    <2>4. \A l, m, n \in Nat, c \in Nat :
            m <= l + 1 /\ n < c => (m + n) - l < c + 1
        OBVIOUS
    <2> QED
        BY <2>1, <2>2, <2>3, <2>4, SessionsAssumption
<1>10. Delivering!Accept(s, r)
    BY <1>2, <1>3, <1>7, <1>8, <1>9 DEF Delivering!Accept
<1> QED
    BY <1>10 DEF Delivering!Next

\* Of the requests, only those that create a session, end one, or have their answer
\* accepted are more than a stutter of the delivery.
LEMMA RequestDelivers ==
    ASSUME IInv, StreamInv, Tracked, NEW r \in Requests,
           \/ \E s \in SessionIds, e \in Endpoints :
                Initialize(r, s, e) \/ \E k \in Kinds : Arrive(r, k, s, e)
           \/ Note(r) \/ TurnAway(r) \/ Handle(r)
    PROVE  [Delivering!Next]_(Delivering!deliveryVars)
<1>1. TypeOK
    BY DEF IInv
<1>2. ASSUME NEW how \in Answers, pc[r] \in Busy, End(r, how)
      PROVE  \A q \in Requests : answer[q] = "accepted" => at'[q] = at[q]
    BY <1>1, <1>2, EndIs DEF IInv, Pending, Busy
<1>3. "ok" \in Answers /\ "error" \in Answers
    BY DEF Answers
<1>4. CASE \E s \in SessionIds, e \in Endpoints : Initialize(r, s, e)
    <2>1. PICK s \in SessionIds, e \in Endpoints : Initialize(r, s, e)
        BY <1>4
    <2>2. UNCHANGED <<chan, gone, read, written, at, opened, closed>>
        BY <2>1 DEF Initialize, streamVars, requestVars, opened, closed
    <2> QED
        BY <2>1, <2>2, CreateStep DEF Initialize
<1>5. CASE \E s \in SessionIds, e \in Endpoints : \E k \in Kinds : Arrive(r, k, s, e)
    <2>1. \A q \in Requests : answer[q] = "accepted" => at'[q] = at[q]
        BY <1>1, <1>5 DEF Arrive, At, TypeOK, IInv, Pending
    <2>2. UNCHANGED <<born, stream, chan, gone, read, written, findable>>
        BY <1>5 DEF Arrive, sessionVars, streamVars, findable
    <2> QED
        BY <2>1, <2>2, ForgetStep
<1>6. CASE \/ Note(r) \/ TurnAway(r)
           \/ Lookup(r) \/ ServeMessage(r) \/ FindStream(r)
    <2>1. UNCHANGED <<sessionVars, streamVars, requestVars>>
        BY <1>6 DEF Note, TurnAway, Lookup, ServeMessage, FindStream
    <2>2. UNCHANGED <<born, stream, chan, gone, read, written, findable, at>>
        BY <2>1 DEF sessionVars, streamVars, requestVars, findable
    <2> QED
        BY <2>2, ForgetStep
<1>7. CASE \/ ServePost(r) \/ ServeNotification(r) \/ ServeFails(r)
           \/ StreamGone(r) \/ Drop(r)
    <2>1. UNCHANGED <<sessionVars, streamVars>>
        BY <1>7 DEF ServePost, ServeNotification, ServeFails, StreamGone, Drop
    <2>2. UNCHANGED <<born, stream, chan, gone, read, written, findable>>
        BY <2>1 DEF sessionVars, streamVars, findable
    <2>3. \E how \in Answers : pc[r] \in Busy /\ End(r, how)
        BY <1>3, <1>7
        DEF ServePost, ServeNotification, ServeFails, StreamGone, Drop, At, Busy
    <2> QED
        BY <1>2, <2>2, <2>3, ForgetStep
<1>8. CASE LookupFails(r) \/ Delete(r)
    <2>1. /\ pc[r] \in Busy /\ on[r] \in SessionIds /\ \E how \in Answers : End(r, how)
          /\ UNCHANGED <<aged, born, streamVars>>
        BY <1>3, <1>8 DEF LookupFails, Delete, At, Busy, IInv, Named
    <2>2. sessions' = sessions \/ sessions' = Forgotten(on[r])
        BY <1>8 DEF LookupFails, Delete
    <2>3. findable' = findable \/ findable' = findable \ {on[r]}
        BY <1>1, <2>1, <2>2 DEF findable, Forgotten, TypeOK
    <2> QED
        BY <1>2, <2>1, <2>3, ForgetStep DEF streamVars
<1>9. CASE Send(r)
    BY <1>9, AcceptStep
<1> QED
    BY <1>4, <1>5, <1>6, <1>7, <1>8, <1>9 DEF Handle

\* Every step of Sessions is one of Delivery, or none of its business.
LEMMA DeliveryStep ==
    ASSUME IInv, IInv', StreamInv, Tracked, [Next]_vars
    PROVE  [Delivering!Next]_(Delivering!deliveryVars)
<1>1. TypeOK
    BY DEF IInv
<1>2. CASE \E r \in Requests :
            \/ \E s \in SessionIds, e \in Endpoints :
                Initialize(r, s, e) \/ \E k \in Kinds : Arrive(r, k, s, e)
            \/ Note(r) \/ TurnAway(r) \/ Handle(r)
    BY <1>2, RequestDelivers
<1>3. CASE \E s \in SessionIds, e \in Endpoints : OpenStream(s, e)
    <2>1. PICK s \in SessionIds, e \in Endpoints : OpenStream(s, e)
        BY <1>3
    <2>2. stream[s] = "none"
        BY <2>1 DEF OpenStream, Put, StreamInv
    <2>3. UNCHANGED <<chan, gone, read, written, at, opened, closed>>
        BY <1>1, <2>1, <2>2 DEF OpenStream, requestVars, Served, opened, closed, TypeOK
    <2> QED
        BY <2>1, <2>3, CreateStep DEF OpenStream
<1>4. CASE \E s \in SessionIds :
            \/ Register(s) \/ Disconnect(s) \/ Beat(s) \/ Take(s) \/ Write(s)
            \/ CloseStream(s) \/ Unregister(s)
    BY <1>4, StreamDelivers
<1>5. CASE \E s \in SessionIds : Age(s)
    <2>1. PICK s \in SessionIds : Age(s)
        BY <1>5
    <2>2. findable' = findable \ {s}
        BY <2>1 DEF Age, findable
    <2> QED
        BY <2>1, <2>2, ForgetStep DEF Age, streamVars, requestVars
<1>6. CASE Sweep \/ UNCHANGED vars
    <2>1. UNCHANGED <<born, stream, chan, gone, read, written, at>>
        BY <1>6 DEF Sweep, vars, sessionVars, streamVars, requestVars
    <2>2. findable' = findable
        BY <1>6 DEF Sweep, vars, sessionVars, findable
    <2> QED
        BY <2>1, <2>2, ForgetStep
<1> QED
    BY <1>2, <1>3, <1>4, <1>5, <1>6 DEF Next

\* The transport implements Delivery: every step of its handlers, lookups, channels
\* and clocks creates a session, forgets one, opens, closes or feeds a stream, or is
\* none of a client's business (handlePost, handleDelete, handleSSE, handleSSEMessage).
THEOREM Delivers == Spec => DeliverySpec
<1>1. Init => Delivering!Init
    <2> SUFFICES ASSUME Init
                 PROVE  Delivering!Init
        OBVIOUS
    <2>1. \A s \in SessionIds : Len(written[s]) = 0 /\ Len(Line(s)) = 0
        <3>1. << >> \o << >> = << >> /\ Len(<< >>) = 0
            OBVIOUS
        <3> QED
            BY <3>1 DEF Init, Line
    <2>2. \A s \in SessionIds : Marked(s) = << >>
        BY <2>1, InitInvariant, MarkedIs, EmptySeq DEF IInv
    <2>3. findable = {} /\ opened = {} /\ closed = {}
        BY DEF Init, Served, findable, opened, closed
    <2> QED
        BY <2>1, <2>2, <2>3 DEF Init, Delivering!Init
<1>2. IInv /\ IInv' /\ StreamInv /\ Tracked /\ [Next]_vars => [Delivering!Next]_(Delivering!deliveryVars)
    BY DeliveryStep
<1> QED
    BY <1>1, <1>2, Invariance, PTL DEF Spec, DeliverySpec, Delivering!Spec
=============================================================================
