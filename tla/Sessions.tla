------------------------------ MODULE Sessions ------------------------------
(***************************************************************************)
(* The downstream side of the gateway (src/internal/mcp/server.go): the    *)
(* SessionStore, the streamable HTTP transport whose answers go back with  *)
(* the request, and the legacy SSE transport whose answers go through a    *)
(* bounded channel to the stream that the session was opened with.         *)
(*                                                                         *)
(* A step is one section under SessionStore.mu or sseMu, or one operation  *)
(* on a channel.  What tools/list and tools/call do is in Discovery,       *)
(* Routing and Pool; here they end with a result or without.  Pool's       *)
(* ReleaseSession, which may come at any time there, follows the end of a  *)
(* session here and changes nothing of this state.                         *)
(***************************************************************************)
EXTENDS Naturals, Sequences

CONSTANTS
    SessionIds,  \* what newUUID issues; none comes twice
    Endpoints,   \* endpoints, each of one tenant
    Requests,    \* HTTP requests, the streams of GET /sse excepted
    NoSession,   \* no session
    NoEndpoint,  \* no endpoint
    ChanCap      \* capacity of a stream's channel

ASSUME SessionsAssumption ==
    /\ NoSession \notin SessionIds
    /\ NoEndpoint \notin Endpoints
    /\ ChanCap \in Nat \ {0}

VARIABLES
    sessions,   \* SessionStore.sessions: the endpoint a session belongs to
    aged,       \* the sessions older than the TTL
    born,       \* history: the endpoint a session was created on
    stream,     \* stream[s]: where the handler of the session's stream is
    sseChans,   \* the sessions whose channel is registered
    chan,       \* chan[s]: the answers in the channel
    gone,       \* the streams whose connection is broken
    read,       \* history: the answers its handler took from the channel
    written,    \* history: those it wrote to an unbroken connection
    pc,         \* where each request is
    kind,       \* what it asks for
    on,         \* the session it names
    at,         \* the endpoint of its URL
    answer,     \* how it was answered
    before      \* history: the messages to its session answered when it came

sessionVars == <<sessions, aged, born>>
streamVars == <<stream, sseChans, chan, gone, read, written>>
requestVars == <<kind, on, at, before>>

vars == <<sessionVars, streamVars, requestVars, pc, answer>>

-----------------------------------------------------------------------------

\* What names a session.  On /mcp: requests and DELETE.  On /message: requests, and
\* notifications, of which one whose method the gateway does not have is answered with
\* an error, as notifications/initialized is.
Kinds == {"post", "delete", "message", "notify"}

RequestSteps == {"new", "lookup", "delete", "serve", "find", "send", "done"}

\* Where the handler of a stream is: at its select when "open", in the write of an
\* answer when "writing", of the endpoint event or a heartbeat when "beating".
Served == {"open", "writing", "beating"}
StreamSteps == {"none", "stored", "closing", "closed"} \cup Served

\* "accepted" is 202 for an answer that the channel has taken, "ok" any other 2xx.
Answers == {"none", "ok", "accepted", "error"}

At(r, step) == pc[r] = step
Goto(r, step) == pc' = [pc EXCEPT ![r] = step]

Reply(r, how) ==
    /\ Goto(r, "done")
    /\ answer' = [answer EXCEPT ![r] = how]

\* A request that is over leaves nothing behind.
End(r, how) ==
    /\ Reply(r, how)
    /\ kind' = [kind EXCEPT ![r] = "none"]
    /\ on' = [on EXCEPT ![r] = NoSession]
    /\ at' = [at EXCEPT ![r] = NoEndpoint]
    /\ before' = [before EXCEPT ![r] = {}]

\* The answers of a stream, in their order.
Line(s) == read[s] \o chan[s]

Init ==
    /\ sessions = [s \in SessionIds |-> NoEndpoint]
    /\ aged = {}
    /\ born = [s \in SessionIds |-> NoEndpoint]
    /\ stream = [s \in SessionIds |-> "none"]
    /\ sseChans = {}
    /\ chan = [s \in SessionIds |-> << >>]
    /\ gone = {}
    /\ read = [s \in SessionIds |-> << >>]
    /\ written = [s \in SessionIds |-> << >>]
    /\ pc = [r \in Requests |-> "new"]
    /\ kind = [r \in Requests |-> "none"]
    /\ on = [r \in Requests |-> NoSession]
    /\ at = [r \in Requests |-> NoEndpoint]
    /\ answer = [r \in Requests |-> "none"]
    /\ before = [r \in Requests |-> {}]

-----------------------------------------------------------------------------
(* Sessions                                                                *)

\* SessionStore.Put, with a new session.
Put(s, e) ==
    /\ born[s] = NoEndpoint
    /\ sessions' = [sessions EXCEPT ![s] = e]
    /\ born' = [born EXCEPT ![s] = e]
    /\ UNCHANGED aged

\* The TTL of a session passes.
Age(s) ==
    /\ sessions[s] # NoEndpoint
    /\ s \notin aged
    /\ aged' = aged \cup {s}
    /\ UNCHANGED <<sessions, born, streamVars, requestVars, pc, answer>>

\* SessionStore.Sweep, every two minutes.
Sweep ==
    /\ \E s \in aged : sessions[s] # NoEndpoint
    /\ sessions' = [s \in SessionIds |-> IF s \in aged THEN NoEndpoint ELSE sessions[s]]
    /\ UNCHANGED <<aged, born, streamVars, requestVars, pc, answer>>

\* SessionStore.Delete.
Forgotten(s) == [sessions EXCEPT ![s] = NoEndpoint]

-----------------------------------------------------------------------------
(* The stream of a legacy SSE session                                      *)

OpenStream(s, e) ==
    /\ Put(s, e)
    /\ stream' = [stream EXCEPT ![s] = "stored"]
    /\ UNCHANGED <<sseChans, chan, gone, read, written, requestVars, pc, answer>>

\* The channel is registered before the client is told the session's id.
Register(s) ==
    /\ stream[s] = "stored"
    /\ stream' = [stream EXCEPT ![s] = "beating"]
    /\ sseChans' = sseChans \cup {s}
    /\ UNCHANGED <<sessionVars, chan, gone, read, written, requestVars, pc, answer>>

\* The client disconnects, or a write to it has failed.
Disconnect(s) ==
    /\ stream[s] \in Served \cup {"stored"}
    /\ s \notin gone
    /\ gone' = gone \cup {s}
    /\ UNCHANGED <<sessionVars, stream, sseChans, chan, read, written, requestVars, pc, answer>>

Beat(s) ==
    /\ stream[s] = "open"
    /\ stream' = [stream EXCEPT ![s] = "beating"]
    /\ UNCHANGED <<sessionVars, sseChans, chan, gone, read, written, requestVars, pc, answer>>

\* The select may take an answer also when the connection is broken.
Take(s) ==
    /\ stream[s] = "open"
    /\ chan[s] # << >>
    /\ stream' = [stream EXCEPT ![s] = "writing"]
    /\ chan' = [chan EXCEPT ![s] = Tail(@)]
    /\ read' = [read EXCEPT ![s] = Append(@, Head(chan[s]))]
    /\ UNCHANGED <<sessionVars, sseChans, gone, written, requestVars, pc, answer>>

\* Variant: an answer in hand is forgotten.
WriteLosing(s) ==
    /\ stream[s] \in {"writing", "beating"}
    /\ stream' = [stream EXCEPT ![s] = "open"]
    /\ UNCHANGED <<sessionVars, sseChans, chan, gone, read, written, requestVars, pc, answer>>

\* A write returns; its error is ignored, and what it wrote to a broken connection
\* is lost.
Write(s) ==
    /\ stream[s] \in {"writing", "beating"}
    /\ stream' = [stream EXCEPT ![s] = "open"]
    /\ written' = IF stream[s] = "writing" /\ s \notin gone
                  THEN [written EXCEPT ![s] = Append(@, read[s][Len(read[s])])]
                  ELSE written
    /\ UNCHANGED <<sessionVars, sseChans, chan, gone, read, requestVars, pc, answer>>

\* Variant: the session is left to its TTL.
CloseStreamOnly(s) ==
    /\ stream[s] = "open"
    /\ stream' = [stream EXCEPT ![s] = "closing"]
    /\ UNCHANGED <<sessionVars, sseChans, chan, gone, read, written, requestVars, pc, answer>>

\* At its select the handler learns that the client has disconnected, or that
\* sseStreamCap has passed.
CloseStream(s) ==
    /\ stream[s] = "open"
    /\ stream' = [stream EXCEPT ![s] = "closing"]
    /\ sessions' = Forgotten(s)
    /\ UNCHANGED <<aged, born, sseChans, chan, gone, read, written, requestVars, pc, answer>>

\* The handler's deferred function.
Unregister(s) ==
    /\ stream[s] = "closing"
    /\ stream' = [stream EXCEPT ![s] = "closed"]
    /\ sseChans' = sseChans \ {s}
    /\ UNCHANGED <<sessionVars, chan, gone, read, written, requestVars, pc, answer>>

-----------------------------------------------------------------------------
(* Requests                                                                *)

\* The sessions a client may have heard of: those an answer or a stream named.
Told == {s \in SessionIds : born[s] # NoEndpoint /\ stream[s] # "stored"}

Messages(s) == {q \in Requests : on[q] = s /\ answer[q] = "accepted"}

\* handleMetamcp has found the endpoint, and authentication and entitlement let
\* the request pass to its handler.
Arrive(r, k, s, e) ==
    /\ At(r, "new")
    /\ s \in Told
    /\ Goto(r, "lookup")
    /\ kind' = [kind EXCEPT ![r] = k]
    /\ on' = [on EXCEPT ![r] = s]
    /\ at' = [at EXCEPT ![r] = e]
    /\ before' = [before EXCEPT ![r] = Messages(s)]
    /\ UNCHANGED <<sessionVars, streamVars, answer>>

\* On /mcp, what looks no session up: notifications, ping, unknown methods.
Note(r) ==
    /\ At(r, "new")
    /\ Reply(r, "ok")
    /\ UNCHANGED <<sessionVars, streamVars, requestVars>>

\* Without the header mcp-session-id, or turned away by handleMetamcp.
TurnAway(r) ==
    /\ At(r, "new")
    /\ Reply(r, "error")
    /\ UNCHANGED <<sessionVars, streamVars, requestVars>>

\* Variant: keeps the session id that the client sends.
InitializeGiven(r, s, e) ==
    /\ At(r, "new")
    /\ sessions' = [sessions EXCEPT ![s] = e]
    /\ born' = [born EXCEPT ![s] = e]
    /\ Reply(r, "ok")
    /\ UNCHANGED <<aged, streamVars, requestVars>>

Initialize(r, s, e) ==
    /\ At(r, "new")
    /\ Put(s, e)
    /\ Reply(r, "ok")
    /\ UNCHANGED <<streamVars, requestVars>>

\* Variant: any endpoint's session will do.
GoodAnywhere(s, e) == sessions[s] # NoEndpoint /\ s \notin aged

\* SessionStore.Get finds the session ...
Good(s, e) == sessions[s] = e /\ s \notin aged

Lookup(r) ==
    /\ At(r, "lookup")
    /\ Good(on[r], at[r])
    /\ Goto(r, IF kind[r] = "delete" THEN "delete" ELSE "serve")
    /\ UNCHANGED <<sessionVars, streamVars, requestVars, answer>>

\* ... or not; one of this endpoint that is too old it deletes.
LookupFails(r) ==
    /\ At(r, "lookup")
    /\ ~Good(on[r], at[r])
    /\ sessions' = IF sessions[on[r]] = at[r] THEN Forgotten(on[r]) ELSE sessions
    /\ End(r, "error")
    /\ UNCHANGED <<aged, born, streamVars>>

Delete(r) ==
    /\ At(r, "delete")
    /\ sessions' = Forgotten(on[r])
    /\ End(r, "ok")
    /\ UNCHANGED <<aged, born, streamVars>>

\* On /mcp the answer, an error included, is the response.
ServePost(r) ==
    /\ At(r, "serve")
    /\ kind[r] = "post"
    /\ End(r, "ok")
    /\ UNCHANGED <<sessionVars, streamVars>>

\* On /message it is for the stream, ...
ServeMessage(r) ==
    /\ At(r, "serve")
    /\ kind[r] = "message"
    /\ Goto(r, "find")
    /\ UNCHANGED <<sessionVars, streamVars, requestVars, answer>>

\* ... unless there is none, ...
ServeNotification(r) ==
    /\ At(r, "serve")
    /\ kind[r] = "notify"
    /\ End(r, "ok")
    /\ UNCHANGED <<sessionVars, streamVars>>

\* ... or it fails: the method is unknown, or the trial's daily cap is reached.
ServeFails(r) ==
    /\ At(r, "serve")
    /\ kind[r] \in {"post", "message", "notify"}
    /\ End(r, "error")
    /\ UNCHANGED <<sessionVars, streamVars>>

FindStream(r) ==
    /\ At(r, "find")
    /\ on[r] \in sseChans
    /\ Goto(r, "send")
    /\ UNCHANGED <<sessionVars, streamVars, requestVars, answer>>

StreamGone(r) ==
    /\ At(r, "find")
    /\ on[r] \notin sseChans
    /\ End(r, "ok")
    /\ UNCHANGED <<sessionVars, streamVars>>

\* Variant: the newest answer first.
SendFirst(r) ==
    /\ At(r, "send")
    /\ Len(chan[on[r]]) < ChanCap
    /\ chan' = [chan EXCEPT ![on[r]] = <<r>> \o @]
    /\ Reply(r, "accepted")
    /\ UNCHANGED <<sessionVars, stream, sseChans, gone, read, written, requestVars>>

\* The channel takes the answer also when nobody reads it any more.
Send(r) ==
    /\ At(r, "send")
    /\ Len(chan[on[r]]) < ChanCap
    /\ chan' = [chan EXCEPT ![on[r]] = Append(@, r)]
    /\ Reply(r, "accepted")
    /\ UNCHANGED <<sessionVars, stream, sseChans, gone, read, written, requestVars>>

\* Variant: waits as long as it takes.
DropNever(r) == FALSE /\ UNCHANGED vars

\* Full for five seconds.
Drop(r) ==
    /\ At(r, "send")
    /\ Len(chan[on[r]]) = ChanCap
    /\ End(r, "ok")
    /\ UNCHANGED <<sessionVars, streamVars>>

-----------------------------------------------------------------------------

Handle(r) ==
    \/ Lookup(r) \/ LookupFails(r) \/ Delete(r)
    \/ ServePost(r) \/ ServeMessage(r) \/ ServeNotification(r) \/ ServeFails(r)
    \/ FindStream(r) \/ StreamGone(r) \/ Send(r) \/ Drop(r)

Next ==
    \/ \E r \in Requests, s \in SessionIds, e \in Endpoints :
        \/ Initialize(r, s, e)
        \/ \E k \in Kinds : Arrive(r, k, s, e)
    \/ \E r \in Requests : Note(r) \/ TurnAway(r) \/ Handle(r)
    \/ \E s \in SessionIds :
        \/ \E e \in Endpoints : OpenStream(s, e)
        \/ Register(s) \/ Disconnect(s) \/ Beat(s) \/ Take(s) \/ Write(s)
        \/ CloseStream(s) \/ Unregister(s)
        \/ Age(s)
    \/ Sweep

Spec == Init /\ [][Next]_vars

\* Handlers go on, calls have deadlines, a full channel is waited for five seconds,
\* and a write to a broken connection returns.  sseStreamCap passes, and a select
\* that a handler comes to again and again takes that case some time.  Nothing makes
\* a connected client read: a write to it may block for ever.
Fairness ==
    /\ \A r \in Requests : WF_vars(Handle(r))
    /\ \A s \in SessionIds :
        /\ WF_vars(Register(s)) /\ WF_vars(Unregister(s))
        /\ WF_vars(s \in gone /\ Write(s))
        /\ SF_vars(CloseStream(s))

FairSpec == Spec /\ Fairness

-----------------------------------------------------------------------------
(* Properties                                                              *)

TypeOK ==
    /\ sessions \in [SessionIds -> Endpoints \cup {NoEndpoint}]
    /\ aged \in SUBSET SessionIds
    /\ born \in [SessionIds -> Endpoints \cup {NoEndpoint}]
    /\ stream \in [SessionIds -> StreamSteps]
    /\ sseChans \in SUBSET SessionIds
    /\ chan \in [SessionIds -> Seq(Requests)]
    /\ \A s \in SessionIds : Len(chan[s]) <= ChanCap
    /\ gone \in SUBSET SessionIds
    /\ read \in [SessionIds -> Seq(Requests)]
    /\ written \in [SessionIds -> Seq(Requests)]
    /\ pc \in [Requests -> RequestSteps]
    /\ kind \in [Requests -> Kinds \cup {"none"}]
    /\ on \in [Requests -> SessionIds \cup {NoSession}]
    /\ at \in [Requests -> Endpoints \cup {NoEndpoint}]
    /\ answer \in [Requests -> Answers]
    /\ before \in [Requests -> SUBSET Requests]

\* "Sessions are bound to the endpoint they were created on" (server.go:808-810):
\* whoever is served, or ends a session, is at the endpoint it was created on,
\* also if it was ended, or has expired, since the lookup.
Isolated ==
    \A r \in Requests :
        pc[r] \in {"serve", "delete", "find", "send"} => born[on[r]] = at[r]

\* A session is never rebound to another endpoint, and once it has ended, by
\* DELETE, by the end of its stream or by age, it does not come back
\* (server.go:437-440, "rebinding an existing session ... is a hijack vector").
SessionsStay ==
    [][\A s \in SessionIds :
        born[s] # NoEndpoint => sessions'[s] \in {sessions[s], NoEndpoint}]_vars

\* Answers on a stream are to messages of its session, come once, and in the order
\* of the messages as far as their clients waited for 202 before sending the
\* next (handleSSEMessage, handleSSE).
InOrder ==
    \A s \in SessionIds : \A i \in 1 .. Len(Line(s)) :
        /\ on[Line(s)[i]] = s
        /\ \A j \in 1 .. (i - 1) :
            Line(s)[j] # Line(s)[i] /\ Line(s)[i] \notin before[Line(s)[j]]

\* What a channel took is in it still or was taken from it.
Accounted ==
    \A r \in Requests :
        answer[r] = "accepted" => \E i \in 1 .. Len(Line(on[r])) : Line(on[r])[i] = r

\* What the handler of a stream has in hand.
InHand(s) == IF stream[s] = "writing" THEN 1 ELSE 0

\* What is written is what was taken, in that order; all of it but for the answer in
\* hand, as long as the connection is not broken.
Follows(s) ==
    /\ Len(written[s]) <= Len(read[s])
    /\ \A i \in 1 .. Len(written[s]) : written[s][i] = read[s][i]
    /\ s \notin gone => Len(read[s]) = Len(written[s]) + InHand(s)

\* An answer is lost only with its stream (server.go:632-656): the channel holds what
\* it accepted until the handler takes it, and the handler writes what it takes, as
\* long as the client is connected.
NothingLost == Accounted /\ \A s \in SessionIds : Follows(s)

\* A write blocked by a client that is connected and does not read.
Blocked(s) == stream[s] \in {"writing", "beating"} /\ s \notin gone

\* Whatever has come is answered, also when its stream has ended or does not read
\* (server.go:748-753, "drop rather than hang"), and no stream or channel stays
\* (server.go:633-634), but those of clients that stay connected and do not read.
AllEnds ==
    <>[](/\ \A r \in Requests : pc[r] \in {"new", "done"}
         /\ \A s \in sseChans : Blocked(s))

-----------------------------------------------------------------------------
(* What the transport implements                                           *)

findable == {s \in SessionIds : sessions[s] # NoEndpoint /\ s \notin aged}

opened == {s \in SessionIds : stream[s] \in Served \cup {"closing", "closed"}}
closed == {s \in SessionIds : stream[s] \in {"closing", "closed"}}

\* The answers of a stream, with the endpoints their messages came to.
Marked(s) == [i \in 1 .. Len(Line(s)) |-> [request |-> Line(s)[i], endpoint |-> at[Line(s)[i]]]]

Delivering == INSTANCE Delivery WITH
    owner <- born,
    live <- findable,
    broken <- gone,
    accepted <- [s \in SessionIds |-> Marked(s)],
    delivered <- [s \in SessionIds |-> Len(written[s])]

\* With its channels, lookups and handlers, in whatever order they come, the
\* transport does what Delivery promises: "JSON-RPC responses to POST /message are
\* delivered over this stream" (server.go:596-599), of the session's endpoint, each
\* once and in the order of 202, as long as its connection lasts, and a stream that
\* ends takes its session along.
DeliverySpec == Delivering!Spec
=============================================================================
