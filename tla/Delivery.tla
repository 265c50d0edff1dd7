------------------------------ MODULE Delivery ------------------------------
(***************************************************************************)
(* What the legacy SSE transport promises its clients, without channels,   *)
(* lookups and handlers: a session belongs to one endpoint as long as it   *)
(* can be found; its stream opens once and takes the session along when    *)
(* it closes; and the answers it accepts, each once and to a message of    *)
(* its own endpoint, are written in the order they were accepted, no more  *)
(* than ChanCap + 1 of them late, until its connection breaks.  Sessions   *)
(* implements this.                                                        *)
(***************************************************************************)
EXTENDS Naturals, Sequences

CONSTANTS SessionIds, Endpoints, Requests, NoEndpoint, ChanCap

VARIABLES
    owner,      \* owner[s]: the endpoint s was created on, NoEndpoint before
    live,       \* the sessions that can be found
    opened,     \* the sessions whose stream has opened
    closed,     \* those whose stream has closed
    broken,     \* those whose connection has broken
    accepted,   \* accepted[s]: the answers its stream accepted, with their endpoints
    delivered   \* delivered[s]: how many of them were written

deliveryVars == <<owner, live, opened, closed, broken, accepted, delivered>>

Init ==
    /\ owner = [s \in SessionIds |-> NoEndpoint]
    /\ live = {}
    /\ opened = {}
    /\ closed = {}
    /\ broken = {}
    /\ accepted = [s \in SessionIds |-> << >>]
    /\ delivered = [s \in SessionIds |-> 0]

Create(s, e) ==
    /\ owner[s] = NoEndpoint
    /\ owner' = [owner EXCEPT ![s] = e]
    /\ live' = live \cup {s}
    /\ UNCHANGED <<opened, closed, broken, accepted, delivered>>

\* Nobody finds it any more, whatever its stream does.
Forget(s) ==
    /\ live' = live \ {s}
    /\ UNCHANGED <<owner, opened, closed, broken, accepted, delivered>>

Open(s) ==
    /\ owner[s] # NoEndpoint
    /\ s \notin opened
    /\ opened' = opened \cup {s}
    /\ UNCHANGED <<owner, live, closed, broken, accepted, delivered>>

Close(s) ==
    /\ s \in opened \ closed
    /\ closed' = closed \cup {s}
    /\ live' = live \ {s}
    /\ UNCHANGED <<owner, opened, broken, accepted, delivered>>

Break(s) ==
    /\ owner[s] # NoEndpoint
    /\ broken' = broken \cup {s}
    /\ UNCHANGED <<owner, live, opened, closed, accepted, delivered>>

\* Also when the stream has closed: nobody tells who accepts.
Accept(s, r) ==
    /\ s \in opened
    /\ s \in broken \/ Len(accepted[s]) - delivered[s] < ChanCap + 1
    /\ \A t \in SessionIds : \A i \in 1 .. Len(accepted[t]) : accepted[t][i].request # r
    /\ accepted' = [accepted EXCEPT ![s] = Append(@, [request |-> r, endpoint |-> owner[s]])]
    /\ UNCHANGED <<owner, live, opened, closed, broken, delivered>>

Deliver(s) ==
    /\ s \in opened \ (closed \cup broken)
    /\ delivered[s] < Len(accepted[s])
    /\ delivered' = [delivered EXCEPT ![s] = @ + 1]
    /\ UNCHANGED <<owner, live, opened, closed, broken, accepted>>

Next == \E s \in SessionIds :
    \/ \E e \in Endpoints : Create(s, e)
    \/ Forget(s) \/ Open(s) \/ Close(s) \/ Break(s) \/ Deliver(s)
    \/ \E r \in Requests : Accept(s, r)

Spec == Init /\ [][Next]_deliveryVars
=============================================================================
