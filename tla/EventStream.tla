----------------------------- MODULE EventStream -----------------------------
(***************************************************************************)
(* One WebSocket connection of the live stream: events/bus.py (EventBus,   *)
(* Subscription) and api/v1/ws.py (stream, _forward, _receive).            *)
(*                                                                         *)
(* stream() runs two tasks.  The writer (_forward) takes events from the   *)
(* subscription's bounded queue and sends one frame at a time; the reader  *)
(* (_receive) ends when the peer is gone or misbehaves, and closes the     *)
(* subscription on its way out.  Publishing never awaits.                  *)
(*                                                                         *)
(* An event is represented by the device it is about: its frame carries    *)
(* the state the registry holds when the frame is built, here the number   *)
(* of changes the device has gone through.  WireSize is what the transport *)
(* takes before send_json suspends.                                        *)
(***************************************************************************)
EXTENDS Integers, Sequences

CONSTANTS
    Devices,    \* the registered devices
    Sentinel,   \* what close() puts in the queue (None)
    QueueSize,  \* event_queue_size
    Burst,      \* the most events one ingest publishes
    WireSize,   \* frames the transport buffers
    MaxChanges  \* bound on the state changes of a behaviour

ASSUME ConstantsOK ==
    /\ Sentinel \notin Devices
    /\ QueueSize \in Nat \ {0} /\ Burst \in Nat \ {0}
    /\ WireSize \in Nat \ {0} /\ MaxChanges \in Nat

VARIABLES
    version,    \* DeviceRegistry: the state held for each device
    handler,    \* where stream() is
    subscribed, \* the subscription is on the bus (not _closed)
    queue,      \* Subscription._queue
    lagged,     \* Subscription._lagged
    writer,     \* the _forward task
    out,        \* the frame in send_json
    pending,    \* the event to be framed after a ResyncRequired
    reader,     \* the _receive task
    peer,       \* whether the client still holds the socket
    wire,       \* frames sent and not yet read by the client
    told        \* history: the version of each device the client was told of
                \* by a frame, or is going to refetch after a ResyncRequired

bus == <<subscribed, queue, lagged>>
sending == <<writer, out, pending>>
vars == <<version, handler, subscribed, queue, lagged, writer, out, pending,
          reader, peer, wire, told>>

Nothing == [type |-> "Nothing"]
Resync == [type |-> "ResyncRequired"]
Ping == [type |-> "Ping"]
Event(d, v) == [type |-> "Event", device |-> d, version |-> v]

\* _frame: the event with the state the registry holds now.
Frame(d) == Event(d, version[d])

Frames == {Nothing, Resync, Ping} \cup
          [type : {"Event"}, device : Devices, version : Nat]

-----------------------------------------------------------------------------
Init ==
    /\ version = [d \in Devices |-> 0]
    /\ handler = "hello"
    /\ subscribed = FALSE
    /\ queue = <<>>
    /\ lagged = FALSE
    /\ writer = "off"
    /\ out = Nothing
    /\ pending = Sentinel
    /\ reader = "off"
    /\ peer = "open"
    /\ wire = <<>>
    /\ told = version

-----------------------------------------------------------------------------
(* The bus.                                                                *)

\* Slip: the overflow drops the oldest event without raising the flag.
OfferSilently(d, n) ==
    LET all == queue \o [i \in 1..n |-> d]
        excess == Len(all) - QueueSize
    IN  /\ queue' = IF excess > 0 THEN SubSeq(all, excess + 1, Len(all)) ELSE all
        /\ UNCHANGED lagged

\* Slip: nothing makes room for the new event.
OfferUnbounded(d, n) ==
    /\ queue' = queue \o [i \in 1..n |-> d]
    /\ lagged' = (lagged \/ Len(queue) + n > QueueSize)

\* n calls of Subscription.offer with an event about d: when the queue is full
\* the oldest event makes room and the subscriber is flagged.
Offer(d, n) ==
    LET all == queue \o [i \in 1..n |-> d]
        excess == Len(all) - QueueSize
    IN  /\ queue' = IF excess > 0 THEN SubSeq(all, excess + 1, Len(all)) ELSE all
        /\ lagged' = (lagged \/ excess > 0)

Publish(d, n) == IF subscribed THEN Offer(d, n) ELSE UNCHANGED <<queue, lagged>>

\* DeviceService.ingest with a state that differs: apply, then the transitions.
Ingest(d) ==
    /\ version[d] < MaxChanges
    /\ version' = [version EXCEPT ![d] = @ + 1]
    /\ \E n \in 1..Burst : Publish(d, n)
    /\ UNCHANGED <<handler, subscribed, sending, reader, peer, wire, told>>

\* An event that comes with no change: a command's or a timer's.
Announce(d) ==
    /\ Publish(d, 1)
    /\ UNCHANGED <<version, handler, subscribed, sending, reader, peer, wire, told>>

\* Subscription.close: the sentinel is dropped when the queue is full.
Close ==
    /\ subscribed' = FALSE
    /\ queue' = IF subscribed /\ Len(queue) < QueueSize THEN Append(queue, Sentinel) ELSE queue
    /\ UNCHANGED lagged

-----------------------------------------------------------------------------
(* stream()                                                                *)

\* Hello was sent: subscribe and start both tasks.  The client's snapshot is
\* taken to be no older than this moment.
Subscribe ==
    /\ handler = "hello"
    /\ peer = "open"
    /\ handler' = "streaming"
    /\ subscribed' = TRUE
    /\ writer' = "idle"
    /\ reader' = "reading"
    /\ told' = version
    /\ UNCHANGED <<version, queue, lagged, out, pending, peer, wire>>

\* Hello could not be sent.
HelloFails ==
    /\ handler = "hello"
    /\ peer = "gone"
    /\ handler' = "done"
    /\ UNCHANGED <<version, bus, sending, reader, peer, wire, told>>

\* Both tasks ended: the socket is closed and the handler returns.
Return ==
    /\ handler = "streaming"
    /\ writer = "ended" /\ reader = "ended"
    /\ handler' = "done"
    /\ peer' = "gone"
    /\ UNCHANGED <<version, bus, sending, reader, wire, told>>

-----------------------------------------------------------------------------
(* _forward                                                                *)

\* take_lagged, and the first frame to send for an event about d.
TakeLagged(d) ==
    IF lagged
    THEN out' = Resync /\ pending' = d /\ lagged' = FALSE
    ELSE out' = Frame(d) /\ UNCHANGED <<pending, lagged>>

\* __anext__ answers an event; no await until its first frame is being sent.
Take ==
    /\ writer = "idle"
    /\ queue # <<>> /\ Head(queue) # Sentinel
    /\ queue' = Tail(queue)
    /\ writer' = "sending"
    /\ TakeLagged(Head(queue))
    /\ UNCHANGED <<version, handler, subscribed, reader, peer, wire, told>>

\* HEARTBEAT_SECONDS passed without an event.
Heartbeat ==
    /\ writer = "idle"
    /\ queue = <<>>
    /\ writer' = "sending"
    /\ out' = Ping
    /\ UNCHANGED <<version, handler, bus, pending, reader, peer, wire, told>>

Told(frame) == CASE frame.type = "Event" -> [told EXCEPT ![frame.device] = frame.version]
                 [] frame.type = "ResyncRequired" -> version
                 [] OTHER -> told

\* The transport takes the frame; after a ResyncRequired the event is framed.
Sent ==
    /\ writer = "sending"
    /\ peer = "open"
    /\ Len(wire) < WireSize
    /\ wire' = Append(wire, out)
    /\ told' = Told(out)
    /\ IF pending # Sentinel
       THEN out' = Frame(pending) /\ UNCHANGED writer
       ELSE out' = Nothing /\ writer' = "idle"
    /\ pending' = Sentinel
    /\ UNCHANGED <<version, handler, bus, reader, peer>>

\* Slip: the answer of _send is ignored and the loop goes on.
SendFailsIgnored ==
    /\ writer = "sending"
    /\ peer = "gone"
    /\ writer' = "idle"
    /\ UNCHANGED <<version, handler, bus, out, pending, reader, peer, wire, told>>

\* The peer is gone: _send answers False.
SendFails ==
    /\ writer = "sending"
    /\ peer = "gone"
    /\ writer' = "ended"
    /\ UNCHANGED <<version, handler, bus, out, pending, reader, peer, wire, told>>

\* __anext__ takes the sentinel: StopAsyncIteration.
EndOfQueue ==
    /\ writer = "idle"
    /\ queue # <<>> /\ Head(queue) = Sentinel
    /\ queue' = Tail(queue)
    /\ writer' = "ended"
    /\ UNCHANGED <<version, handler, subscribed, lagged, out, pending, reader, peer, wire, told>>

-----------------------------------------------------------------------------
(* _receive                                                                *)

\* receive_text raises: the client closed the tab or the connection broke.
PeerGone ==
    /\ reader = "reading"
    /\ peer = "gone"
    /\ reader' = "ended"
    /\ Close
    /\ UNCHANGED <<version, handler, sending, peer, wire, told>>

\* An inbound message over the budget, too long, or of another kind.
PolicyViolation ==
    /\ reader = "reading"
    /\ peer = "open"
    /\ reader' = "ended"
    /\ Close
    /\ UNCHANGED <<version, handler, sending, peer, wire, told>>

-----------------------------------------------------------------------------
(* The client.                                                             *)

ClientReads ==
    /\ peer = "open"
    /\ wire # <<>>
    /\ wire' = Tail(wire)
    /\ UNCHANGED <<version, handler, bus, sending, reader, peer, told>>

ClientLeaves ==
    /\ peer = "open"
    /\ peer' = "gone"
    /\ wire' = <<>>
    /\ UNCHANGED <<version, handler, bus, sending, reader, told>>

-----------------------------------------------------------------------------
Next == \/ \E d \in Devices : Ingest(d) \/ Announce(d)
        \/ Subscribe \/ HelloFails \/ Return
        \/ Take \/ Heartbeat \/ Sent \/ SendFails \/ EndOfQueue
        \/ PeerGone \/ PolicyViolation
        \/ ClientReads \/ ClientLeaves

Spec == Init /\ [][Next]_vars

\* The event loop runs every task that can run, the heartbeat timeout expires,
\* and a client that stays reads what it is sent.
FairSpec == /\ Spec
            /\ WF_vars(Subscribe) /\ WF_vars(HelloFails) /\ WF_vars(Return)
            /\ WF_vars(Take) /\ WF_vars(Heartbeat) /\ WF_vars(Sent) /\ WF_vars(SendFails)
            /\ WF_vars(EndOfQueue) /\ WF_vars(PeerGone)
            /\ WF_vars(ClientReads)

-----------------------------------------------------------------------------
(* Properties.                                                             *)

\* Every variable stays in its set, and the queue within its bound.
TypeOK ==
    /\ version \in [Devices -> Nat]
    /\ handler \in {"hello", "streaming", "done"}
    /\ subscribed \in BOOLEAN
    /\ queue \in Seq(Devices \cup {Sentinel}) /\ Len(queue) <= QueueSize
    /\ lagged \in BOOLEAN
    /\ writer \in {"off", "idle", "sending", "ended"}
    /\ out \in Frames
    /\ pending \in Devices \cup {Sentinel}
    /\ reader \in {"off", "reading", "ended"}
    /\ peer \in {"open", "gone"}
    /\ wire \in Seq(Frames)
    /\ told \in [Devices -> Nat]

\* bus.py:5, "a client can never silently diverge": when the writer has nothing
\* left to do on a live subscription, every change since the client's snapshot
\* was shown to it, or followed by a ResyncRequired.
NoSilentLoss ==
    subscribed /\ writer = "idle" /\ queue = <<>> => told = version

\* A change is told in the end, unless the connection ends first.
ChangesAreTold ==
    \A d \in Devices : (subscribed /\ told[d] # version[d])
                           ~> (told[d] = version[d] \/ ~subscribed)

\* A handler whose peer is gone returns, even when the sentinel was dropped:
\* draining the queue or the next heartbeat fails to send.
HandlerReturns == (peer = "gone") ~> (handler = "done")
=============================================================================
