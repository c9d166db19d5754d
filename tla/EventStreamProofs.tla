-------------------------- MODULE EventStreamProofs --------------------------
(***************************************************************************)
(* Proofs about EventStream, for every number of devices and every size of *)
(* the queue, the burst and the transport's buffer: every variable stays   *)
(* in its set, the queue within its bound, and no change is lost silently. *)
(***************************************************************************)
EXTENDS EventStream, SequenceTheorems, TLAPS

Live == subscribed /\ writer # "ended"

Queued(d) == \E i \in 1..Len(queue) : queue[i] = d

\* What is on its way to the client for device d.
BeingSent(d) == writer = "sending" /\ (out = Resync \/ pending = d \/ out = Frame(d))

\* Whatever the client was not told of is queued, being sent, or flagged; and a
\* raised flag is taken with the next event, so there has to be one.
AnnounceInv ==
    /\ handler = "hello" => ~subscribed /\ ~lagged
    /\ Live /\ lagged => queue # <<>>
    /\ Live => \A d \in Devices :
                   told[d] = version[d] \/ lagged \/ Queued(d) \/ BeingSent(d)

\* Frames and the client's knowledge may lag behind the registry, but a frame
\* about a device whose state the client knows is not older than it.
FrameInv ==
    /\ \A d \in Devices : told[d] <= version[d]
    /\ out.type = "Event" =>
         /\ out.version <= version[out.device]
         /\ told[out.device] = version[out.device] => out.version = version[out.device]
    /\ handler = "hello" => out = Nothing /\ writer = "off" /\ reader = "off"

IInv == TypeOK /\ AnnounceInv /\ FrameInv

-----------------------------------------------------------------------------
\* Every frame the writer may send is a frame.
LEMMA FrameType ==
    ASSUME TypeOK, NEW d \in Devices
    PROVE  Frame(d) \in Frames /\ Frame(d).type = "Event"
           /\ Frame(d).device = d /\ Frame(d).version = version[d]
BY DEF Frame, Event, Frames, TypeOK

\* offer keeps the newest events, and nothing is lost without the flag.
LEMMA OfferStep ==
    ASSUME TypeOK, NEW d \in Devices, NEW n \in Nat \ {0}, Offer(d, n)
    PROVE  /\ queue' \in Seq(Devices \cup {Sentinel}) /\ Len(queue') <= QueueSize
           /\ lagged' \in BOOLEAN
           /\ lagged => lagged'
           /\ queue' # <<>>
           /\ \E i \in 1..Len(queue') : queue'[i] = d
           /\ ~lagged' => \A e \in Devices : Queued(e) => \E i \in 1..Len(queue') : queue'[i] = e
<1> DEFINE new == [i \in 1..n |-> d]
           all == queue \o new
           excess == Len(all) - QueueSize
<1>1. /\ new \in Seq(Devices \cup {Sentinel}) /\ Len(new) = n
      /\ queue \in Seq(Devices \cup {Sentinel})
      /\ Len(queue) \in Nat /\ QueueSize \in Nat \ {0}
  BY ConstantsOK DEF TypeOK
<1>2. /\ all \in Seq(Devices \cup {Sentinel}) /\ Len(all) = Len(queue) + n
      /\ all[Len(all)] = d
      /\ \A i \in 1..Len(queue) : all[i] = queue[i]
  BY <1>1
<1>3. /\ queue' = IF excess > 0 THEN SubSeq(all, excess + 1, Len(all)) ELSE all
      /\ lagged' = (lagged \/ excess > 0)
  BY DEF Offer
<1>4. lagged \in BOOLEAN
  BY DEF TypeOK
<1>5. CASE excess > 0
  <2> DEFINE N == Len(all)
             m == excess + 1
  <2>1. N \in Nat /\ m \in 1..(N + 1) /\ N \in m-1..N /\ N - m + 1 = QueueSize
    BY <1>1, <1>2, <1>5
  <2>2. queue' = SubSeq(all, m, N)
    BY <1>3, <1>5
  <2> HIDE DEF all, N, m
  <2>3. /\ SubSeq(all, m, N) \in Seq(Devices \cup {Sentinel})
        /\ Len(SubSeq(all, m, N)) = QueueSize
        /\ \A i \in 1..QueueSize : SubSeq(all, m, N)[i] = all[m + i - 1]
    <3>1. \A i \in m..N : all[i] \in Devices \cup {Sentinel}
      BY <1>2, <2>1 DEF N
    <3>2. /\ SubSeq(all, m, N) \in Seq(Devices \cup {Sentinel})
          /\ Len(SubSeq(all, m, N)) = IF m <= N THEN N - m + 1 ELSE 0
          /\ \A i \in 1..(N - m + 1) : SubSeq(all, m, N)[i] = all[m + i - 1]
      BY <2>1, <3>1, SubSeqProperties
    <3>3. m <= N /\ N - m + 1 = QueueSize
      BY <1>1, <2>1
    <3>4. QED
      BY <3>2, <3>3
  <2>4. QueueSize \in 1..QueueSize /\ m + QueueSize - 1 = N
    BY <1>1, <2>1
  <2>5. SubSeq(all, m, N)[QueueSize] = d
    BY <1>2, <2>3, <2>4 DEF N
  <2>6. lagged' = TRUE
    BY <1>3, <1>5 DEF all
  <2>7. queue' # <<>> /\ Len(queue') <= QueueSize
    <3>1. Len(queue') = QueueSize
      BY <2>2, <2>3
    <3>2. QueueSize \in Nat \ {0}
      BY <1>1
    <3>3. QED
      BY <3>1, <3>2
  <2>8. queue' \in Seq(Devices \cup {Sentinel}) /\ queue'[QueueSize] = d
        /\ QueueSize \in 1..Len(queue')
    BY <2>2, <2>3, <2>4, <2>5
  <2>9. \E i \in 1..Len(queue') : queue'[i] = d
    BY <2>8
  <2>10. lagged' \in BOOLEAN /\ lagged'
    BY <2>6
  <2>11. QED
    BY <2>7, <2>8, <2>9, <2>10
<1>6. CASE ~(excess > 0)
  <2>1. queue' = all
    BY <1>3, <1>6
  <2>2. Len(all) <= QueueSize /\ Len(all) \in 1..Len(all)
    BY <1>1, <1>2, <1>6
  <2>3. \A e \in Devices : Queued(e) => \E i \in 1..Len(all) : all[i] = e
    BY <1>1, <1>2 DEF Queued
  <2> HIDE DEF all
  <2>4. QED
    BY <1>2, <1>3, <1>4, <1>6, <2>1, <2>2, <2>3
<1>7. QED
  BY <1>5, <1>6

\* An event about d reaches the queue of a live subscription.
LEMMA PublishStep ==
    ASSUME IInv, NEW d \in Devices, NEW n \in Nat \ {0}, Publish(d, n),
           version' \in [Devices -> Nat],
           \A e \in Devices : e # d => version'[e] = version[e],
           version'[d] \in {version[d], version[d] + 1},
           UNCHANGED <<handler, subscribed, writer, out, pending, reader, peer, wire, told>>
    PROVE  IInv'
<1>0. FrameInv'
  <2>1. /\ \A e \in Devices : told[e] \in Nat /\ version[e] \in Nat /\ told[e] <= version[e]
        /\ out.type = "Event" => out.device \in Devices /\ out.version \in Nat
    BY DEF IInv, TypeOK, FrameInv, Frames, Nothing, Resync, Ping
  <2>2. \A e \in Devices : version'[e] \in {version[e], version[e] + 1}
    OBVIOUS
  <2>3. QED
    BY <2>1, <2>2 DEF IInv, FrameInv
<1>1. CASE ~subscribed
  <2>1. queue' = queue /\ lagged' = lagged
    BY <1>1 DEF Publish
  <2>2. TypeOK'
    BY <2>1 DEF IInv, TypeOK
  <2>3. AnnounceInv'
    BY <1>1, <2>1 DEF IInv, AnnounceInv, Live
  <2>4. QED
    BY <1>0, <2>2, <2>3 DEF IInv
<1>2. CASE subscribed
  <2>1. TypeOK /\ AnnounceInv /\ Offer(d, n)
    BY <1>2 DEF IInv, Publish
  <2>2. /\ queue' \in Seq(Devices \cup {Sentinel}) /\ Len(queue') <= QueueSize
        /\ lagged' \in BOOLEAN
        /\ lagged => lagged'
        /\ queue' # <<>>
        /\ \E i \in 1..Len(queue') : queue'[i] = d
        /\ ~lagged' => \A e \in Devices : Queued(e) => \E i \in 1..Len(queue') : queue'[i] = e
    BY <2>1, OfferStep
  <2>3. TypeOK'
    BY <2>1, <2>2 DEF TypeOK
  <2>4. ASSUME Live', NEW e \in Devices
        PROVE  told'[e] = version'[e] \/ lagged' \/ Queued(e)' \/ BeingSent(e)'
    <3>1. CASE e = d \/ lagged'
      BY <2>2, <3>1 DEF Queued
    <3>2. CASE e # d /\ ~lagged'
      <4>1. Live
        BY <2>4 DEF Live
      <4>2. told[e] = version[e] \/ Queued(e) \/ BeingSent(e)
        BY <2>1, <2>2, <3>2, <4>1 DEF AnnounceInv
      <4>3. CASE told[e] = version[e]
        BY <3>2, <4>3
      <4>4. CASE Queued(e)
        BY <2>2, <3>2, <4>4 DEF Queued
      <4>5. CASE BeingSent(e)
        BY <3>2, <4>5 DEF BeingSent, Frame
      <4>6. QED
        BY <4>2, <4>3, <4>4, <4>5
    <3>3. QED
      BY <3>1, <3>2
  <2>5. handler' # "hello"
    BY <1>2, <2>1 DEF AnnounceInv
  <2>6. QED
    BY <1>0, <2>2, <2>3, <2>4, <2>5 DEF IInv, AnnounceInv
<1>3. QED
  BY <1>1, <1>2

\* The writer takes the head of the queue.
LEMMA TakeStep ==
    ASSUME IInv, Take
    PROVE  IInv'
<1> DEFINE h == Head(queue)
<1>1. /\ queue # <<>> /\ h # Sentinel /\ queue' = Tail(queue)
      /\ writer = "idle" /\ writer' = "sending" /\ TakeLagged(h)
      /\ UNCHANGED <<version, handler, subscribed, reader, peer, wire, told>>
  BY DEF Take
<1>2. TypeOK /\ AnnounceInv /\ FrameInv
  BY DEF IInv
<1>3. /\ queue \in Seq(Devices \cup {Sentinel}) /\ h \in Devices /\ h = queue[1]
      /\ Tail(queue) \in Seq(Devices \cup {Sentinel})
      /\ Len(Tail(queue)) = Len(queue) - 1
      /\ \A i \in 1..Len(queue) : i # 1 =>
            i - 1 \in 1..Len(Tail(queue)) /\ Tail(queue)[i - 1] = queue[i]
  BY <1>1, <1>2 DEF TypeOK
<1>4. /\ lagged => out' = Resync /\ pending' = h /\ lagged' = FALSE
      /\ ~lagged => out' = Frame(h) /\ pending' = pending /\ lagged' = lagged
  BY <1>1 DEF TakeLagged
<1>5. TypeOK'
  <2>1. Frame(h) \in Frames /\ Resync \in Frames
    BY <1>2, <1>3, FrameType DEF Frames
  <2>2. out' \in Frames /\ pending' \in Devices \cup {Sentinel} /\ lagged' \in BOOLEAN
    BY <1>2, <1>3, <1>4, <2>1 DEF TypeOK
  <2>3. Len(queue') <= QueueSize /\ queue' \in Seq(Devices \cup {Sentinel})
    BY <1>1, <1>2, <1>3, ConstantsOK DEF TypeOK
  <2>4. QED
    BY <1>1, <1>2, <2>2, <2>3 DEF TypeOK
<1>6. ~lagged'
  BY <1>2, <1>4 DEF TypeOK
<1>7. ASSUME Live', NEW d \in Devices
      PROVE  told'[d] = version'[d] \/ Queued(d)' \/ BeingSent(d)'
  <2>1. CASE lagged
    BY <1>1, <1>4, <2>1 DEF BeingSent, Resync
  <2>2. CASE ~lagged
    <3>1. told[d] = version[d] \/ Queued(d)
      BY <1>1, <1>2, <1>7, <2>2 DEF AnnounceInv, Live, BeingSent
    <3>2. CASE told[d] = version[d]
      BY <1>1, <3>2
    <3>3. CASE d = h
      BY <1>1, <1>4, <2>2, <3>3 DEF BeingSent, Frame
    <3>4. CASE Queued(d) /\ d # h
      BY <1>1, <1>3, <3>4 DEF Queued
    <3>5. QED
      BY <3>1, <3>2, <3>3, <3>4
  <2>3. QED
    BY <2>1, <2>2
<1>8. FrameInv'
  <2>1. Frame(h).type = "Event" /\ Frame(h).device = h /\ Frame(h).version = version[h]
    BY <1>2, <1>3, FrameType
  <2>2. handler # "hello"
    BY <1>1, <1>2 DEF FrameInv
  <2>3. CASE lagged
    BY <1>1, <1>2, <1>4, <2>2, <2>3 DEF FrameInv, Resync
  <2>4. CASE ~lagged
    <3>1. version[h] \in Nat
      BY <1>2, <1>3 DEF TypeOK
    <3>2. QED
      BY <1>1, <1>2, <1>4, <2>1, <2>2, <2>4, <3>1 DEF FrameInv
  <2>5. QED
    BY <2>3, <2>4
<1>9. QED
  BY <1>1, <1>2, <1>5, <1>6, <1>7, <1>8 DEF IInv, AnnounceInv

\* What the client knows after a frame.
LEMMA ToldType ==
    ASSUME TypeOK, FrameInv
    PROVE  /\ Told(out) \in [Devices -> Nat]
           /\ out = Resync => Told(out) = version
           /\ \A d \in Devices : out = Frame(d) => Told(out)[d] = version[d]
           /\ \A d \in Devices : told[d] = version[d] => Told(out)[d] = version[d]
           /\ \A d \in Devices : Told(out)[d] <= version[d]
<1>1. CASE out.type = "Event"
  <2>1. out.device \in Devices /\ out.version \in Nat
    BY <1>1 DEF TypeOK, Frames, Nothing, Resync, Ping
  <2>2. Told(out) = [told EXCEPT ![out.device] = out.version]
    BY <1>1 DEF Told
  <2>3. out # Resync
    BY <1>1 DEF Resync
  <2>4. \A d \in Devices : out = Frame(d) => out.device = d /\ out.version = version[d]
    BY FrameType
  <2>5. QED
    BY <1>1, <2>1, <2>2, <2>3, <2>4 DEF TypeOK, FrameInv
<1>2. CASE out = Resync
  <2>1. Told(out) = version
    BY <1>2 DEF Told, Resync
  <2>2. \A d \in Devices : version[d] <= version[d]
    BY DEF TypeOK
  <2>3. QED
    BY <2>1, <2>2 DEF TypeOK
<1>3. CASE out \in {Nothing, Ping}
  <2>1. Told(out) = told /\ out # Resync
    BY <1>3 DEF Told, Nothing, Ping, Resync
  <2>2. \A d \in Devices : out # Frame(d)
    BY <1>3 DEF Frame, Event, Nothing, Ping
  <2>3. QED
    BY <2>1, <2>2 DEF TypeOK, FrameInv
<1>4. QED
  BY <1>1, <1>2, <1>3 DEF TypeOK, Frames

\* The transport takes a frame.
LEMMA SentStep ==
    ASSUME IInv, Sent
    PROVE  IInv'
<1>1. TypeOK /\ AnnounceInv /\ FrameInv
  BY DEF IInv
<1>2. /\ writer = "sending" /\ wire' = Append(wire, out) /\ told' = Told(out)
      /\ pending # Sentinel => out' = Frame(pending) /\ writer' = writer
      /\ pending = Sentinel => out' = Nothing /\ writer' = "idle"
      /\ pending' = Sentinel
      /\ UNCHANGED <<version, handler, subscribed, queue, lagged, reader, peer>>
  BY DEF Sent, bus
<1>3. pending # Sentinel => pending \in Devices /\ Frame(pending) \in Frames
  BY <1>1, FrameType DEF TypeOK
<1>4. TypeOK'
  <2>1. out' \in Frames /\ pending' \in Devices \cup {Sentinel}
    BY <1>2, <1>3 DEF Frames
  <2>2. wire' \in Seq(Frames) /\ told' \in [Devices -> Nat]
    BY <1>1, <1>2, ToldType DEF TypeOK
  <2>3. QED
    BY <1>1, <1>2, <2>1, <2>2 DEF TypeOK
<1>5. FrameInv'
  <2>1. \A d \in Devices : told'[d] <= version'[d]
    BY <1>1, <1>2, ToldType
  <2>2. CASE pending = Sentinel
    BY <1>1, <1>2, <2>1, <2>2 DEF FrameInv, Nothing
  <2>3. CASE pending # Sentinel
    <3>1. out'.device \in Devices /\ out'.version = version[out'.device]
      BY <1>1, <1>2, <1>3, <2>3, FrameType
    <3>2. version[out'.device] \in Nat /\ handler # "hello"
      BY <1>1, <1>2, <3>1 DEF TypeOK, FrameInv
    <3>3. QED
      BY <1>2, <2>1, <3>1, <3>2 DEF FrameInv
  <2>4. QED
    BY <2>2, <2>3
<1>6. ASSUME Live', NEW d \in Devices
      PROVE  told'[d] = version'[d] \/ lagged' \/ Queued(d)' \/ BeingSent(d)'
  <2>1. told[d] = version[d] \/ lagged \/ Queued(d) \/ BeingSent(d)
    BY <1>1, <1>2, <1>6 DEF AnnounceInv, Live
  <2>2. CASE told[d] = version[d]
    BY <1>1, <1>2, <2>2, ToldType
  <2>3. CASE lagged \/ Queued(d)
    BY <1>2, <2>3 DEF Queued
  <2>4. CASE BeingSent(d)
    <3>1. CASE out = Resync \/ out = Frame(d)
      BY <1>1, <1>2, <3>1, ToldType
    <3>2. CASE pending = d
      <4>1. pending # Sentinel
        BY <3>2, ConstantsOK
      <4>2. QED
        BY <1>2, <3>2, <4>1 DEF BeingSent, Frame
    <3>3. QED
      BY <2>4, <3>1, <3>2 DEF BeingSent
  <2>5. QED
    BY <2>1, <2>2, <2>3, <2>4
<1>7. Live' => Live
  BY <1>2 DEF Live
<1>8. QED
  BY <1>1, <1>2, <1>4, <1>5, <1>6, <1>7 DEF IInv, AnnounceInv

\* Steps after which the subscription is closed or the writer has ended, or that
\* touch neither the bus nor the writer.
LEMMA OtherStep ==
    ASSUME IInv, TypeOK',
           UNCHANGED <<version, told, out>>,
           handler' = "hello" => /\ handler = "hello"
                                 /\ UNCHANGED <<subscribed, lagged, writer, reader>>,
           ~Live' \/ UNCHANGED <<subscribed, queue, lagged, writer, pending>>
    PROVE  IInv'
<1>1. FrameInv'
  BY DEF IInv, FrameInv
<1>2. CASE ~Live'
  BY <1>1, <1>2 DEF IInv, AnnounceInv
<1>3. CASE UNCHANGED <<subscribed, queue, lagged, writer, pending>>
  BY <1>1, <1>3 DEF IInv, AnnounceInv, Live, Queued, BeingSent, Frame
<1>4. QED
  BY <1>2, <1>3

\* close() keeps the queue within its bound.
LEMMA CloseType ==
    ASSUME TypeOK, Close
    PROVE  /\ subscribed' = FALSE /\ lagged' = lagged
           /\ queue' \in Seq(Devices \cup {Sentinel}) /\ Len(queue') <= QueueSize
BY ConstantsOK DEF Close, TypeOK

\* Every step keeps the invariant.
LEMMA StreamStep == IInv /\ [Next]_vars => IInv'
<1> SUFFICES ASSUME IInv, [Next]_vars
             PROVE  IInv'
  OBVIOUS
<1> USE DEF bus, sending
<1>1. TypeOK /\ AnnounceInv /\ FrameInv
  BY DEF IInv
<1>2. ASSUME NEW d \in Devices, Ingest(d)
      PROVE  IInv'
  <2>1. PICK n \in 1..Burst : Publish(d, n)
    BY <1>2 DEF Ingest
  <2>2. n \in Nat \ {0}
    BY ConstantsOK
  <2>3. /\ version' \in [Devices -> Nat]
        /\ version'[d] = version[d] + 1
        /\ \A e \in Devices : e # d => version'[e] = version[e]
    BY <1>1, <1>2 DEF Ingest, TypeOK
  <2>4. QED
    BY <1>2, <2>1, <2>2, <2>3, PublishStep DEF Ingest
<1>3. ASSUME NEW d \in Devices, Announce(d)
      PROVE  IInv'
  <2>1. version' \in [Devices -> Nat] /\ version' = version /\ 1 \in Nat \ {0}
    BY <1>1, <1>3 DEF Announce, TypeOK
  <2>2. QED
    BY <1>3, <2>1, PublishStep DEF Announce
<1>4. CASE Subscribe
  <2>1. TypeOK'
    BY <1>1, <1>4 DEF Subscribe, TypeOK
  <2>2. ~lagged' /\ told' = version' /\ handler' # "hello" /\ out' = Nothing
    BY <1>1, <1>4 DEF Subscribe, AnnounceInv, FrameInv
  <2>3. \A d \in Devices : version[d] <= version[d]
    BY <1>1 DEF TypeOK
  <2>4. AnnounceInv' /\ FrameInv'
    BY <1>4, <2>2, <2>3 DEF Subscribe, AnnounceInv, FrameInv, Nothing
  <2>5. QED
    BY <2>1, <2>4 DEF IInv
<1>5. CASE HelloFails \/ Return \/ ClientReads \/ ClientLeaves
  <2>1. TypeOK'
    <3>1. wire' \in Seq(Frames)
      <4>1. wire \in Seq(Frames)
        BY <1>1 DEF TypeOK
      <4>2. <<>> \in Seq(Frames) /\ (wire # <<>> => Tail(wire) \in Seq(Frames))
        BY <4>1
      <4>3. QED
        BY <1>5, <4>1, <4>2 DEF HelloFails, Return, ClientReads, ClientLeaves
    <3>2. QED
      BY <1>1, <1>5, <3>1 DEF HelloFails, Return, ClientReads, ClientLeaves, TypeOK
  <2>2. QED
    BY <1>5, <2>1, OtherStep DEF HelloFails, Return, ClientReads, ClientLeaves
<1>6. CASE Take
  BY <1>6, TakeStep
<1>7. CASE Heartbeat
  <2>1. TypeOK'
    BY <1>1, <1>7 DEF Heartbeat, TypeOK, Frames
  <2>2. handler # "hello"
    BY <1>1, <1>7 DEF Heartbeat, FrameInv
  <2>3. FrameInv'
    BY <1>1, <1>7, <2>2 DEF Heartbeat, FrameInv, Ping
  <2>4. ASSUME Live', NEW d \in Devices
        PROVE  told[d] = version[d] /\ ~lagged
    BY <1>1, <1>7, <2>4 DEF Heartbeat, AnnounceInv, Live, Queued, BeingSent, TypeOK
  <2>5. AnnounceInv'
    BY <1>1, <1>7, <2>2, <2>4 DEF Heartbeat, AnnounceInv, Live
  <2>6. QED
    BY <2>1, <2>3, <2>5 DEF IInv
<1>8. CASE Sent
  BY <1>8, SentStep
<1>9. CASE SendFails \/ EndOfQueue
  <2>1. TypeOK'
    <3>1. queue' \in Seq(Devices \cup {Sentinel}) /\ Len(queue') <= QueueSize
      <4>1. queue \in Seq(Devices \cup {Sentinel}) /\ Len(queue) <= QueueSize
        BY <1>1 DEF TypeOK
      <4>2. queue # <<>> => /\ Tail(queue) \in Seq(Devices \cup {Sentinel})
                            /\ Len(Tail(queue)) <= QueueSize
        BY <4>1, ConstantsOK
      <4>3. QED
        BY <1>9, <4>1, <4>2 DEF SendFails, EndOfQueue
    <3>2. QED
      BY <1>1, <1>9, <3>1 DEF SendFails, EndOfQueue, TypeOK
  <2>2. ~Live'
    BY <1>9 DEF SendFails, EndOfQueue, Live
  <2>3. handler # "hello"
    BY <1>1, <1>9 DEF SendFails, EndOfQueue, FrameInv
  <2>4. QED
    BY <1>9, <2>1, <2>2, <2>3, OtherStep DEF SendFails, EndOfQueue
<1>10. CASE PeerGone \/ PolicyViolation
  <2>1. Close /\ reader = "reading" /\ reader' = "ended"
        /\ UNCHANGED <<version, handler, sending, peer, wire, told>>
    BY <1>10 DEF PeerGone, PolicyViolation
  <2>2. /\ subscribed' = FALSE /\ lagged' = lagged
        /\ queue' \in Seq(Devices \cup {Sentinel}) /\ Len(queue') <= QueueSize
    BY <1>1, <2>1, CloseType
  <2>3. TypeOK'
    BY <1>1, <2>1, <2>2 DEF TypeOK
  <2>4. handler # "hello" /\ ~Live'
    BY <1>1, <2>1, <2>2 DEF FrameInv, Live
  <2>5. QED
    BY <2>1, <2>3, <2>4, OtherStep
<1>11. CASE UNCHANGED vars
  <2>1. TypeOK'
    BY <1>1, <1>11 DEF vars, TypeOK
  <2>2. QED
    BY <1>11, <2>1, OtherStep DEF vars
<1>12. QED
  BY <1>2, <1>3, <1>4, <1>5, <1>6, <1>7, <1>8, <1>9, <1>10, <1>11 DEF Next

\* The initial state.
LEMMA StreamInit == Init => IInv
<1> SUFFICES ASSUME Init
             PROVE  IInv
  OBVIOUS
<1>1. TypeOK
  <2>1. /\ version \in [Devices -> Nat] /\ told \in [Devices -> Nat]
        /\ wire \in Seq(Frames) /\ out \in Frames
    BY DEF Init, Frames
  <2>2. queue \in Seq(Devices \cup {Sentinel}) /\ Len(queue) <= QueueSize
    BY ConstantsOK DEF Init
  <2>3. QED
    BY <2>1, <2>2 DEF Init, TypeOK
<1>2. AnnounceInv /\ FrameInv
  BY DEF Init, AnnounceInv, FrameInv, Live, Nothing
<1>3. QED
  BY <1>1, <1>2 DEF IInv

\* Every variable stays in its set; in particular a slow client never makes the
\* queue grow beyond event_queue_size (bus.py:3).
THEOREM TypeCorrect == Spec => []TypeOK
<1>1. IInv => TypeOK
  BY DEF IInv
<1>2. QED
  BY <1>1, StreamInit, StreamStep, PTL DEF Spec

\* Whatever was dropped, a live connection that has nothing left to send has
\* told its client of every change (bus.py:5).
THEOREM NothingLostSilently == Spec => []NoSilentLoss
<1>1. IInv => NoSilentLoss
  <2> SUFFICES ASSUME IInv, subscribed, writer = "idle", queue = <<>>
               PROVE  told = version
    BY DEF NoSilentLoss
  <2>1. ~lagged /\ \A d \in Devices : ~Queued(d) /\ ~BeingSent(d)
    BY DEF IInv, AnnounceInv, Live, Queued, BeingSent
  <2>2. \A d \in Devices : told[d] = version[d]
    BY <2>1 DEF IInv, AnnounceInv, Live
  <2>3. QED
    BY <2>2 DEF IInv, TypeOK
<1>2. QED
  BY <1>1, StreamInit, StreamStep, PTL DEF Spec
=============================================================================
