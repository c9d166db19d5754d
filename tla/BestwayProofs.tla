---------------------------- MODULE BestwayProofs ----------------------------
(***************************************************************************)
(* Proofs about Bestway: the lock keeps the exchanges of the two tasks     *)
(* apart, and a read shows a block the controller had after it asked,      *)
(* unless an exchange on its connection was cancelled; the variables stay  *)
(* in their sets, with read-backs and attempts within their limits.        *)
(***************************************************************************)
EXTENDS Bestway, FiniteSetTheorems, WellFoundedInduction, TLAPS

-----------------------------------------------------------------------------
(* The inductive invariant.                                                *)

Places == Kinds \cup Waiting \cup {"off", "attempt", "opening", "reclose", "failed"}
Messages == [kind : Kinds \cup {"control"}, block : Blocks \cup {NoBlock}]

\* The variables are functions, and the connections records.
ShapeInv ==
    /\ DOMAIN chan = Conns
    /\ \A c \in Conns : DOMAIN chan[c] = {"open", "logged", "cut", "asks", "answers"}
    /\ conn \in Conns \cup {NoConn}
    /\ pc \in [Tasks -> Places] /\ DOMAIN via = Tasks /\ DOMAIN since = Tasks
    /\ want \in Blocks \cup {NoBlock}
    /\ conn # NoConn => chan[conn].asks \in Seq(Messages)

\* A task in an exchange has the lock; nobody else reads from a connection.  The
\* block is one the controller has had since a status was asked for.
LockInv ==
    \A t \in Tasks :
        /\ pc[t] \in Kinds => holder = t /\ via[t] \in Conns
        /\ pc[t] \notin Kinds => via[t] = NoConn
        /\ pc[t] = "status" => block \in since[t]

\* Only the client's own connection is open or has answers.
LinkInv == \A c \in Conns \ {conn} : ~chan[c].open /\ chan[c].answers = <<>>

\* Nothing but control requests is under way on a connection.
Clear(ch, c) ==
    /\ \A i \in DOMAIN ch[c].asks : ch[c].asks[i].kind = "control"
    /\ ch[c].answers = <<>>

\* One request is, and no answer.
Asked(ch, c, k) ==
    /\ \E i \in DOMAIN ch[c].asks :
          /\ ch[c].asks[i].kind = k
          /\ \A j \in DOMAIN ch[c].asks \ {i} : ch[c].asks[j].kind = "control"
    /\ ch[c].answers = <<>>

\* One answer is, and no request; it shows one of the blocks in bs.
Answered(ch, c, k, bs) ==
    /\ \A i \in DOMAIN ch[c].asks : ch[c].asks[i].kind = "control"
    /\ \E b : /\ ch[c].answers = <<Message(k, b)>>
              /\ k = "status" => b \in bs

\* Where no exchange was cancelled, what is under way on the connection is the
\* one request of the task that reads from it, or its answer.
ItemInv ==
    conn # NoConn /\ ~chan[conn].cut =>
        \/ Clear(chan, conn)
        \/ \E t \in Tasks :
              /\ via[t] = conn
              /\ Asked(chan, conn, pc[t]) \/ Answered(chan, conn, pc[t], since[t])

\* A command that does not read is at rest.
PhaseInv == phase \in {"idle", "pause"} => pc["command"] = "off"

Inv == ShapeInv /\ LockInv /\ LinkInv /\ ItemInv /\ PhaseInv

-----------------------------------------------------------------------------
(* The connection.                                                         *)

\* Connections of which only one, with known requests, may be open.
Linked(ch, link) ==
    /\ DOMAIN ch = Conns
    /\ \A c \in Conns : DOMAIN ch[c] = {"open", "logged", "cut", "asks", "answers"}
    /\ link \in Conns /\ ch[link].asks \in Seq(Messages)
    /\ \A c \in Conns \ {link} : ~ch[c].open /\ ch[c].answers = <<>>

LEMMA OtherTask ==
  ASSUME NEW t \in Tasks
  PROVE  /\ Other(t) \in Tasks /\ Other(t) # t
         /\ \A u \in Tasks : u = t \/ u = Other(t)
  BY DEF Tasks, Other

\* A connection that is closed is as good as gone.
LEMMA ShutConn ==
  ASSUME ShapeInv, LinkInv
  PROVE  /\ DOMAIN Shut(conn, chan) = Conns
         /\ \A c \in Conns :
               /\ DOMAIN Shut(conn, chan)[c] = {"open", "logged", "cut", "asks", "answers"}
               /\ ~Shut(conn, chan)[c].open /\ Shut(conn, chan)[c].answers = <<>>
  <1>1. CASE conn = NoConn
    BY <1>1, ConstantsOK DEF Shut, ShapeInv, LinkInv
  <1>2. CASE conn # NoConn
    <2>1. PICK asks : Shut(conn, chan) = [chan EXCEPT ![conn] = [Gone EXCEPT !.asks = asks]]
      BY <1>2 DEF Shut
    <2> QED  BY <1>2, <2>1 DEF ShapeInv, LinkInv, Gone, Fresh
  <1> QED  BY <1>1, <1>2

\* A request that is written while nothing else is under way.
LEMMA WrittenAlone ==
  ASSUME NEW ch, NEW link, Linked(ch, link), NEW m \in Messages
  PROVE  /\ Linked(Written(link, ch, m), link)
         /\ Written(link, ch, m)[link].cut = ch[link].cut
         /\ Clear(ch, link) =>
              /\ m.kind = "control" => Clear(Written(link, ch, m), link)
              /\ \/ Clear(Written(link, ch, m), link)
                 \/ Asked(Written(link, ch, m), link, m.kind)
  <1>1. CASE ~ch[link].open
    BY <1>1 DEF Written
  <1>2. CASE ch[link].open
    <2> DEFINE to == Written(link, ch, m)
               n == Len(ch[link].asks)
    <2>1. to = [ch EXCEPT ![link] = [ch[link] EXCEPT !.asks = Append(ch[link].asks, m)]]
      BY <1>2 DEF Written
    <2>2. /\ DOMAIN to = Conns /\ \A c \in Conns \ {link} : to[c] = ch[c]
          /\ DOMAIN to[link] = DOMAIN ch[link]
          /\ to[link].asks = Append(ch[link].asks, m)
          /\ to[link].cut = ch[link].cut /\ to[link].answers = ch[link].answers
      BY <2>1 DEF Linked
    <2> HIDE DEF to
    <2>3. /\ to[link].asks \in Seq(Messages) /\ n \in Nat
          /\ DOMAIN ch[link].asks = 1 .. n /\ DOMAIN to[link].asks = 1 .. n + 1
          /\ to[link].asks[n + 1] = m
          /\ \A i \in 1 .. n : to[link].asks[i] = ch[link].asks[i]
      BY <2>2 DEF Linked
    <2>4. Linked(to, link)
      BY <2>2, <2>3 DEF Linked
    <2>5. ASSUME Clear(ch, link), m.kind = "control" PROVE Clear(to, link)
      BY <2>2, <2>3, <2>5 DEF Clear
    <2>6. ASSUME Clear(ch, link) PROVE Asked(to, link, m.kind)
      <3>1. \A j \in (1 .. n + 1) \ {n + 1} : j \in 1 .. n
        BY <2>3
      <3>2. n + 1 \in DOMAIN to[link].asks /\ to[link].asks[n + 1].kind = m.kind
        BY <2>3
      <3>3. \A j \in DOMAIN to[link].asks \ {n + 1} : to[link].asks[j].kind = "control"
        BY <2>3, <2>6, <3>1 DEF Clear
      <3> QED  BY <2>2, <2>6, <3>2, <3>3 DEF Clear, Asked
    <2> QED  BY <2>2, <2>4, <2>5, <2>6 DEF to
  <1> QED  BY <1>1, <1>2

-----------------------------------------------------------------------------
(* The exchange.                                                           *)

\* A request is sent while the other task is in no exchange.
LEMMA SendStep ==
  ASSUME ShapeInv, LockInv, NEW t \in Tasks, NEW kind \in Kinds, NEW ch, NEW link,
         Linked(ch, link), ~ch[link].cut => Clear(ch, link),
         pc[Other(t)] \notin Kinds, Send(t, kind, link, ch), UNCHANGED <<block, want>>
  PROVE  ShapeInv' /\ LockInv' /\ LinkInv' /\ ItemInv'
  <1> DEFINE m == Message(kind, NoBlock)
  <1>1. /\ m \in Messages /\ m.kind = kind
        /\ chan' = Written(link, ch, m) /\ conn' = link /\ link \in Conns /\ link # NoConn
        /\ holder' = t /\ pc' = [pc EXCEPT ![t] = kind] /\ via' = [via EXCEPT ![t] = link]
        /\ since' = [since EXCEPT ![t] = IF kind = "status" THEN {block} ELSE {}]
    BY ConstantsOK DEF Send, Messages, Message, Linked
  <1>2. /\ Linked(chan', link)
        /\ ~chan'[link].cut => Clear(chan', link) \/ Asked(chan', link, kind)
    BY <1>1, WrittenAlone
  <1>3. /\ pc'[t] = kind /\ via'[t] = link
        /\ \A u \in Tasks \ {t} : pc'[u] = pc[u] /\ via'[u] = via[u] /\ since'[u] = since[u]
        /\ kind = "status" => block \in since'[t]
    BY <1>1 DEF ShapeInv
  <1>4. ShapeInv'
    BY <1>1, <1>2 DEF ShapeInv, Linked, Places
  <1>5. LockInv'
    BY <1>1, <1>3, OtherTask DEF LockInv
  <1>6. LinkInv' /\ ItemInv'
    BY <1>1, <1>2, <1>3 DEF LinkInv, ItemInv, Linked
  <1> QED  BY <1>4, <1>5, <1>6

\* A task begins an exchange: it sends, or waits and leaves the other's as it is.
LEMMA AskStep ==
  ASSUME ShapeInv, LockInv, NEW t \in Tasks, NEW kind \in Kinds, NEW ch, NEW link,
         Linked(ch, link),
         ~ch[link].cut =>
            \/ Clear(ch, link)
            \/ /\ via[Other(t)] = link
               /\ \/ Asked(ch, link, pc[Other(t)])
                  \/ Answered(ch, link, pc[Other(t)], since[Other(t)]),
         Ask(t, kind, link, ch), UNCHANGED <<block, want>>
  PROVE  ShapeInv' /\ LockInv' /\ LinkInv' /\ ItemInv'
  <1> DEFINE u == Other(t)
  <1>1. u \in Tasks /\ u # t /\ \A v \in Tasks : v = t \/ v = u
    BY OtherTask
  <1>2. CASE holder = u \/ pc[u] \in Waiting
    <2>1. /\ chan' = ch /\ conn' = link /\ link \in Conns
          /\ holder' = u /\ pc' = [pc EXCEPT ![t] = Awaits(kind)]
          /\ via' = [via EXCEPT ![t] = NoConn] /\ since' = [since EXCEPT ![t] = {}]
      BY <1>2 DEF Ask, Linked
    <2>2. Awaits(kind) \in Waiting /\ Awaits(kind) \notin Kinds
      BY DEF Kinds, Connecting, Waiting, Awaits
    <2>3. /\ pc'[t] = Awaits(kind) /\ via'[t] = NoConn
          /\ pc'[u] = pc[u] /\ via'[u] = via[u] /\ since'[u] = since[u]
      BY <1>1, <2>1 DEF ShapeInv
    <2>4. ShapeInv'
      BY <2>1, <2>2 DEF ShapeInv, Linked, Places
    <2>5. LockInv'
      BY <1>1, <2>1, <2>2, <2>3 DEF LockInv, Kinds
    <2>6. LinkInv' /\ ItemInv'
      BY <1>1, <2>1, <2>3 DEF LinkInv, ItemInv, Linked
    <2> QED  BY <2>4, <2>5, <2>6
  <1>3. CASE ~(holder = u \/ pc[u] \in Waiting)
    <2>1. pc[u] \notin Kinds /\ via[u] = NoConn
      BY <1>1, <1>3 DEF LockInv
    <2>2. Send(t, kind, link, ch)
      BY <1>3 DEF Ask
    <2>3. ~ch[link].cut => Clear(ch, link)
      BY <2>1, ConstantsOK DEF Linked
    <2> QED  BY <2>1, <2>2, <2>3, SendStep
  <1> QED  BY <1>2, <1>3

\* The connection of the client, as the invariant describes it.
LEMMA OwnLink ==
  ASSUME ShapeInv, LinkInv, conn # NoConn
  PROVE  Linked(chan, conn)
  BY DEF ShapeInv, LinkInv, Linked

\* An answer that a task takes is the only one, of the kind it waits for, and
\* a status shows a block since it asked: unless the connection was cut.
LEMMA TakenAlone ==
  ASSUME Inv, NEW t \in Tasks, pc[t] \in Kinds, chan[via[t]].answers # <<>>
  PROVE  /\ via[t] = conn /\ conn # NoConn
         /\ Linked(Taken(t), conn) /\ Taken(t)[conn].cut = chan[conn].cut
         /\ ~chan[conn].cut => /\ Clear(Taken(t), conn)
                               /\ Arrived(t).kind = pc[t]
                               /\ pc[t] = "status" => Arrived(t).block \in since[t]
  <1>1. via[t] = conn /\ conn # NoConn /\ conn \in Conns
    BY ConstantsOK DEF Inv, LockInv, LinkInv, ShapeInv
  <1>2. Taken(t) = [chan EXCEPT ![conn] = [chan[conn] EXCEPT !.answers = Tail(chan[conn].answers)]]
    BY <1>1 DEF Taken
  <1>3. /\ DOMAIN Taken(t) = Conns /\ \A c \in Conns \ {conn} : Taken(t)[c] = chan[c]
        /\ DOMAIN Taken(t)[conn] = DOMAIN chan[conn]
        /\ Taken(t)[conn].asks = chan[conn].asks /\ Taken(t)[conn].cut = chan[conn].cut
        /\ Taken(t)[conn].answers = Tail(chan[conn].answers)
    BY <1>1, <1>2 DEF Inv, ShapeInv
  <1>4. Linked(Taken(t), conn)
    BY <1>1, <1>3, OwnLink DEF Inv, Linked
  <1>5. ASSUME ~chan[conn].cut
        PROVE  /\ Clear(Taken(t), conn) /\ Arrived(t).kind = pc[t]
               /\ pc[t] = "status" => Arrived(t).block \in since[t]
    <2>1. PICK u \in Tasks : via[u] = conn /\ Answered(chan, conn, pc[u], since[u])
      BY <1>1, <1>5 DEF Inv, ItemInv, Clear, Asked
    <2>2. u = t
      BY <1>1, <2>1, OtherTask DEF Inv, LockInv
    <2>3. PICK b : /\ chan[conn].answers = <<Message(pc[t], b)>>
                   /\ pc[t] = "status" => b \in since[t]
      BY <2>1, <2>2 DEF Answered
    <2>4. Tail(chan[conn].answers) = <<>> /\ Arrived(t) = Message(pc[t], b)
      BY <1>1, <2>3 DEF Arrived
    <2> QED  BY <1>3, <2>1, <2>3, <2>4 DEF Clear, Answered, Message
  <1> QED  BY <1>1, <1>3, <1>4, <1>5

\* An attempt fails, or a connection is closed: the client has none.
LEMMA ClosedStep ==
  ASSUME ShapeInv, LinkInv, chan' = Shut(conn, chan), conn' = NoConn,
         pc' \in [Tasks -> Places], DOMAIN via' = Tasks, DOMAIN since' = Tasks, want' = want
  PROVE  ShapeInv' /\ LinkInv' /\ ItemInv'
  BY ShutConn DEF ShapeInv, LinkInv, ItemInv

LEMMA FailStep ==
  ASSUME Inv, NEW t \in Tasks, NEW kind, NEW n, Fail(t, kind, n), UNCHANGED <<block, want>>
  PROVE  ShapeInv' /\ LockInv' /\ LinkInv' /\ ItemInv'
  <1> DEFINE place == IF kind \in Connecting THEN "reclose" ELSE Retry(n)
  <1>1. /\ chan' = Shut(conn, chan) /\ conn' = NoConn
        /\ holder' = Left(t) /\ pc' = [pc EXCEPT ![t] = place]
        /\ via' = [via EXCEPT ![t] = NoConn] /\ since' = [since EXCEPT ![t] = {}]
    BY DEF Fail
  <1>2. place \in {"reclose", "attempt", "failed"}
    BY DEF Retry
  <1>3. /\ pc'[t] = place /\ via'[t] = NoConn
        /\ \A u \in Tasks \ {t} : pc'[u] = pc[u] /\ via'[u] = via[u] /\ since'[u] = since[u]
        /\ pc' \in [Tasks -> Places] /\ DOMAIN via' = Tasks /\ DOMAIN since' = Tasks
    BY <1>1, <1>2 DEF Inv, ShapeInv, Places
  <1>4. place \notin Kinds
    BY <1>2 DEF Kinds, Connecting
  <1>5. \A u \in Tasks \ {t} : holder = u => holder' = u
    BY <1>1 DEF Left
  <1>6. LockInv'
    BY <1>3, <1>4, <1>5 DEF Inv, LockInv, Kinds
  <1> QED  BY <1>1, <1>3, <1>6, ClosedStep DEF Inv

\* A task leaves an exchange with its answer.
LEMMA ReturnStep ==
  ASSUME Inv, NEW t \in Tasks, Arrives(t, "status"), NEW place \in {"off", "attempt"},
         NEW ch \in {Taken(t), Written(conn, Taken(t), Message("control", want))},
         Returned(t, ch, place), block' = block, want' \in Blocks \cup {NoBlock}
  PROVE  ShapeInv' /\ LockInv' /\ LinkInv' /\ ItemInv'
  <1> DEFINE m == Message("control", want)
  <1>1. /\ chan' = ch /\ holder' = Left(t) /\ pc' = [pc EXCEPT ![t] = place] /\ conn' = conn
        /\ via' = [via EXCEPT ![t] = NoConn] /\ since' = [since EXCEPT ![t] = {}]
    BY DEF Returned
  <1>2. pc[t] = "status" /\ pc[t] \in Kinds /\ chan[via[t]].answers # <<>>
    BY DEF Arrives, Kinds
  <1>3. /\ conn # NoConn /\ conn \in Conns /\ Linked(Taken(t), conn)
        /\ Taken(t)[conn].cut = chan[conn].cut
        /\ ~chan[conn].cut => Clear(Taken(t), conn)
    BY <1>2, TakenAlone DEF Inv, ShapeInv
  <1>4. m \in Messages /\ m.kind = "control"
    BY DEF Messages, Message, Inv, ShapeInv
  <1>5. /\ Linked(ch, conn) /\ ch[conn].cut = chan[conn].cut
        /\ ~chan[conn].cut => Clear(ch, conn)
    <2>1. CASE ch = Taken(t)
      BY <1>3, <2>1
    <2>2. CASE ch = Written(conn, Taken(t), m)
      BY <1>3, <1>4, <2>2, WrittenAlone
    <2> QED  BY <2>1, <2>2
  <1>6. /\ pc'[t] = place /\ via'[t] = NoConn /\ place \notin Kinds
        /\ \A u \in Tasks \ {t} : pc'[u] = pc[u] /\ via'[u] = via[u] /\ since'[u] = since[u]
        /\ pc' \in [Tasks -> Places] /\ DOMAIN via' = Tasks /\ DOMAIN since' = Tasks
    BY <1>1 DEF Inv, ShapeInv, Places, Kinds, Connecting
  <1>7. \A u \in Tasks \ {t} : holder = u => holder' = u
    BY <1>1 DEF Left
  <1>8. LockInv'
    BY <1>6, <1>7 DEF Inv, LockInv
  <1>9. ShapeInv' /\ LinkInv' /\ ItemInv'
    BY <1>1, <1>3, <1>5, <1>6 DEF ShapeInv, LinkInv, ItemInv, Linked
  <1> QED  BY <1>8, <1>9

\* A task outside any exchange goes on outside any exchange.
LEMMA GoesStep ==
  ASSUME Inv, NEW t \in Tasks, pc[t] \notin Kinds, NEW place \in Places \ Kinds,
         pc' = [pc EXCEPT ![t] = place], UNCHANGED <<chan, conn, holder, via, since, block>>,
         want' \in Blocks \cup {NoBlock}
  PROVE  ShapeInv' /\ LockInv' /\ LinkInv' /\ ItemInv'
  <1>1. pc'[t] = place /\ \A u \in Tasks \ {t} : pc'[u] = pc[u]
    BY DEF Inv, ShapeInv
  <1>2. ShapeInv' /\ LinkInv'
    BY DEF Inv, ShapeInv, LinkInv
  <1>3. LockInv'
    BY <1>1 DEF Inv, LockInv, Kinds
  <1>4. ItemInv'
    <2>1. via[t] = NoConn
      BY DEF Inv, LockInv
    <2> QED  BY <1>1, <2>1 DEF Inv, ItemInv
  <1> QED  BY <1>2, <1>3, <1>4

\* Nothing of it changes.
LEMMA IdleStep ==
  ASSUME Inv, UNCHANGED <<chan, conn, holder, pc, via, since, block, want>>
  PROVE  ShapeInv' /\ LockInv' /\ LinkInv' /\ ItemInv'
  BY DEF Inv, ShapeInv, LockInv, LinkInv, ItemInv

-----------------------------------------------------------------------------
(* The controller.                                                         *)

\* Its block changes, for those who wait for it too.
LEMMA BlockStep ==
  ASSUME Inv, NEW b, BlockBecomes(b), pc' = pc
  PROVE  /\ DOMAIN since' = Tasks
         /\ \A t \in Tasks : since[t] \subseteq since'[t]
         /\ \A t \in Tasks : pc[t] = "status" => block' \in since'[t]
  BY DEF BlockBecomes

LEMMA ControllerStep ==
  ASSUME Inv, NEW c \in Conns, Controller(c)
  PROVE  ShapeInv' /\ LockInv' /\ LinkInv' /\ ItemInv'
  <1> DEFINE s == chan[c]
             h == Head(s.asks)
             answered == s.open /\ h.kind # "control" /\ (h.kind = "status" => s.logged)
  <1>1. /\ s.asks # <<>> /\ UNCHANGED <<conn, holder, pc, via, want>>
        /\ \E b : BlockBecomes(b)
        /\ h.kind # "control" => BlockBecomes(block)
        /\ chan' = [chan EXCEPT
              ![c].asks = Tail(@),
              ![c].logged = @ \/ (h.kind = "login" /\ s.open),
              ![c].answers = IF answered THEN Append(@, Message(h.kind, block)) ELSE @]
    BY DEF Controller, command
  <1>2. /\ DOMAIN chan' = Conns /\ \A d \in Conns \ {c} : chan'[d] = chan[d]
        /\ DOMAIN chan'[c] = DOMAIN s
        /\ chan'[c].open = s.open /\ chan'[c].cut = s.cut /\ chan'[c].asks = Tail(s.asks)
        /\ chan'[c].answers = IF answered THEN Append(s.answers, Message(h.kind, block))
                                           ELSE s.answers
    BY <1>1 DEF Inv, ShapeInv
  <1>3. /\ DOMAIN since' = Tasks /\ \A t \in Tasks : since[t] \subseteq since'[t]
        /\ \A t \in Tasks : pc[t] = "status" => block' \in since'[t]
    BY <1>1, BlockStep
  <1>4. LockInv'
    BY <1>1, <1>3 DEF Inv, LockInv
  <1>5. CASE c # conn
    <2>1. ~s.open /\ s.answers = <<>>
      BY <1>5 DEF Inv, LinkInv
    <2>2. ShapeInv' /\ LinkInv'
      BY <1>1, <1>2, <1>3, <1>5, <2>1 DEF Inv, ShapeInv, LinkInv
    <2>3. ASSUME conn # NoConn PROVE chan'[conn] = chan[conn]
      BY <1>2, <1>5, <2>3 DEF Inv, ShapeInv
    <2>4. ItemInv'
      <3>1. SUFFICES ASSUME conn # NoConn, ~chan[conn].cut PROVE ItemInv'
        BY <1>1, <2>3 DEF ItemInv
      <3>2. Clear(chan', conn) <=> Clear(chan, conn)
        BY <2>3, <3>1 DEF Clear
      <3>3. \A t \in Tasks : Asked(chan', conn, pc[t]) <=> Asked(chan, conn, pc[t])
        BY <2>3, <3>1 DEF Asked
      <3>4. ASSUME NEW t \in Tasks, Answered(chan, conn, pc[t], since[t])
            PROVE  Answered(chan', conn, pc[t], since'[t])
        <4>1. since[t] \subseteq since'[t]
          BY <1>3
        <4> QED  BY <2>3, <3>1, <3>4, <4>1 DEF Answered
      <3> QED  BY <1>1, <3>1, <3>2, <3>3, <3>4 DEF Inv, ItemInv
    <2> QED  BY <1>4, <2>2, <2>4
  <1>6. CASE c = conn
    <2>1. /\ conn # NoConn /\ s.asks \in Seq(Messages) /\ Len(s.asks) \in Nat /\ Len(s.asks) > 0
          /\ DOMAIN s.asks = 1 .. Len(s.asks) /\ h = s.asks[1] /\ h \in Messages
          /\ Tail(s.asks) \in Seq(Messages) /\ DOMAIN Tail(s.asks) = 1 .. (Len(s.asks) - 1)
          /\ \A i \in 1 .. (Len(s.asks) - 1) : Tail(s.asks)[i] = s.asks[i + 1]
      BY <1>1, <1>6, ConstantsOK DEF Inv, ShapeInv
    <2>2. \A i \in DOMAIN Tail(s.asks) : i + 1 \in DOMAIN s.asks /\ i + 1 # 1
      BY <2>1
    <2>3. ShapeInv' /\ LinkInv'
      BY <1>1, <1>2, <1>3, <1>6, <2>1 DEF Inv, ShapeInv, LinkInv
    <2>4. ASSUME ~s.cut, Clear(chan, conn) PROVE Clear(chan', conn)
      <3>1. h.kind = "control" /\ s.answers = <<>>
        BY <1>6, <2>1, <2>4 DEF Clear
      <3>2. chan'[conn].answers = <<>> /\ chan'[conn].asks = Tail(s.asks)
        BY <1>2, <1>6, <3>1
      <3>3. \A i \in DOMAIN Tail(s.asks) : Tail(s.asks)[i].kind = "control"
        BY <1>6, <2>1, <2>2, <2>4 DEF Clear
      <3> QED  BY <3>2, <3>3 DEF Clear
    <2>5. ASSUME NEW t \in Tasks, Answered(chan, conn, pc[t], since[t])
          PROVE  Answered(chan', conn, pc[t], since'[t])
      <3>1. /\ h.kind = "control"
            /\ \A i \in DOMAIN Tail(s.asks) : Tail(s.asks)[i].kind = "control"
        BY <1>6, <2>1, <2>2, <2>5 DEF Answered
      <3>2. chan'[conn].answers = chan[conn].answers /\ chan'[conn].asks = Tail(s.asks)
        BY <1>2, <1>6, <3>1
      <3> QED  BY <1>3, <2>5, <3>1, <3>2 DEF Answered
    <2>6. ASSUME NEW t \in Tasks, via[t] = conn, Asked(chan, conn, pc[t])
          PROVE  \/ Clear(chan', conn) \/ Asked(chan', conn, pc[t])
                 \/ Answered(chan', conn, pc[t], since'[t])
      <3>1. PICK i \in DOMAIN s.asks :
               /\ s.asks[i].kind = pc[t]
               /\ \A j \in DOMAIN s.asks \ {i} : s.asks[j].kind = "control"
        BY <1>6, <2>6 DEF Asked
      <3>2. s.answers = <<>> /\ pc[t] \in Kinds /\ "control" \notin Kinds
        BY <1>6, <2>1, <2>6 DEF Asked, Inv, LockInv, Kinds, Connecting
      <3>3. CASE i = 1
        <4>1. \A j \in DOMAIN Tail(s.asks) : Tail(s.asks)[j].kind = "control"
          BY <2>1, <2>2, <3>1, <3>3
        <4>2. h.kind = pc[t]
          BY <2>1, <3>1, <3>3
        <4>3. CASE answered
          <5>1. chan'[conn].answers = <<Message(pc[t], block)>>
            BY <1>2, <1>6, <3>2, <4>2, <4>3
          <5>2. pc[t] = "status" => block \in since'[t]
            BY <1>3 DEF Inv, LockInv
          <5> QED  BY <1>2, <1>6, <4>1, <5>1, <5>2 DEF Answered
        <4>4. CASE ~answered
          BY <1>2, <1>6, <3>2, <4>1, <4>4 DEF Clear
        <4> QED  BY <4>3, <4>4
      <3>4. CASE i # 1
        <4>1. h.kind = "control"
          BY <2>1, <3>1, <3>4
        <4>2. i - 1 \in DOMAIN Tail(s.asks) /\ Tail(s.asks)[i - 1] = s.asks[i]
          BY <2>1, <3>1, <3>4
        <4>3. \A j \in DOMAIN Tail(s.asks) \ {i - 1} : Tail(s.asks)[j].kind = "control"
          BY <2>1, <2>2, <3>1
        <4>4. chan'[conn].answers = <<>> /\ chan'[conn].asks = Tail(s.asks)
          BY <1>2, <1>6, <3>2, <4>1
        <4> QED  BY <3>1, <4>2, <4>3, <4>4 DEF Asked
      <3> QED  BY <3>3, <3>4
    <2>7. ItemInv'
      BY <1>1, <1>2, <1>6, <2>4, <2>5, <2>6 DEF Inv, ItemInv
    <2> QED  BY <1>4, <2>3, <2>7
  <1> QED  BY <1>5, <1>6

\* A connection on which nothing is asked.
LEMMA NothingAsked == <<>> \in Seq(Messages) /\ ~ \E i \in DOMAIN <<>> : TRUE
  OBVIOUS

\* It hangs up on some connections, and what was asked on them is lost.
LEMMA HangsUp ==
  ASSUME Inv, UNCHANGED <<conn, holder, pc, via, since, block, want>>,
         DOMAIN chan' = Conns,
         \A c \in Conns :
            \/ chan'[c] = chan[c]
            \/ chan'[c] = [chan[c] EXCEPT !.open = FALSE, !.asks = <<>>]
  PROVE  ShapeInv' /\ LockInv' /\ LinkInv' /\ ItemInv'
  <1>1. LockInv'
    BY DEF Inv, LockInv
  <1>2. \A c \in Conns :
           /\ DOMAIN chan'[c] = DOMAIN chan[c] /\ chan'[c].cut = chan[c].cut
           /\ chan'[c].answers = chan[c].answers /\ (chan'[c].open => chan[c].open)
           /\ chan'[c].asks = chan[c].asks \/ chan'[c].asks = <<>>
    BY DEF Inv, ShapeInv
  <1>3. ShapeInv' /\ LinkInv'
    <2>1. \A c \in Conns : DOMAIN chan'[c] = {"open", "logged", "cut", "asks", "answers"}
      BY <1>2 DEF Inv, ShapeInv
    <2>2. conn # NoConn => chan'[conn].asks \in Seq(Messages)
      BY <1>2, NothingAsked DEF Inv, ShapeInv
    <2> QED  BY <1>2, <2>1, <2>2 DEF Inv, ShapeInv, LinkInv
  <1>4. ItemInv'
    <2>1. SUFFICES ASSUME conn # NoConn, ~chan[conn].cut PROVE ItemInv'
      BY <1>2 DEF ItemInv, Inv, ShapeInv
    <2>2. conn \in Conns
      BY <2>1 DEF Inv, ShapeInv
    <2>3. /\ chan'[conn].answers = chan[conn].answers
          /\ chan'[conn].asks = chan[conn].asks \/ ~ \E i \in DOMAIN chan'[conn].asks : TRUE
      BY <1>2, <2>2, NothingAsked
    <2>4. Clear(chan, conn) => Clear(chan', conn)
      BY <2>3 DEF Clear
    <2>5. ASSUME NEW t \in Tasks, Asked(chan, conn, pc[t])
          PROVE  Asked(chan', conn, pc[t]) \/ Clear(chan', conn)
      BY <2>3, <2>5 DEF Asked, Clear
    <2>6. ASSUME NEW t \in Tasks, Answered(chan, conn, pc[t], since[t])
          PROVE  Answered(chan', conn, pc[t], since[t])
      BY <2>3, <2>6 DEF Answered
    <2> QED  BY <1>2, <2>1, <2>2, <2>4, <2>5, <2>6 DEF Inv, ItemInv
  <1> QED  BY <1>1, <1>3, <1>4

-----------------------------------------------------------------------------
(* The steps of a read.                                                    *)

LEMMA AttemptStep ==
  ASSUME Inv, NEW t \in Tasks, Attempt(t)
  PROVE  ShapeInv' /\ LockInv' /\ LinkInv' /\ ItemInv'
  <1>1. pc[t] = "attempt" /\ pc[t] \notin Kinds /\ UNCHANGED <<block, want>>
    BY DEF Attempt, others, controller, command, Kinds, Connecting
  <1>2. CASE conn # NoConn /\ Ask(t, "status", conn, chan)
    <2>1. Linked(chan, conn)
      BY <1>2, OwnLink DEF Inv
    <2>2. conn \in Conns /\ via[t] = NoConn /\ "status" \in Kinds
      BY <1>1, <1>2 DEF Inv, ShapeInv, LockInv, Kinds
    <2>3. ~chan[conn].cut =>
             \/ Clear(chan, conn)
             \/ /\ via[Other(t)] = conn
                /\ \/ Asked(chan, conn, pc[Other(t)])
                   \/ Answered(chan, conn, pc[Other(t)], since[Other(t)])
      BY <1>2, <2>2, OtherTask DEF Inv, ItemInv
    <2> QED  BY <1>1, <1>2, <2>1, <2>2, <2>3, AskStep DEF Inv
  <1>3. CASE /\ chan' = Shut(conn, chan) /\ conn' = NoConn
             /\ pc' = [pc EXCEPT ![t] = "opening"] /\ UNCHANGED <<holder, via, since>>
    <2>1. /\ pc' \in [Tasks -> Places] /\ pc'[t] = "opening" /\ "opening" \notin Kinds
          /\ \A u \in Tasks \ {t} : pc'[u] = pc[u]
      BY <1>3 DEF Inv, ShapeInv, Places, Kinds, Connecting
    <2>2. LockInv'
      BY <1>1, <1>3, <2>1 DEF Inv, LockInv, Kinds
    <2> QED  BY <1>1, <1>3, <2>1, <2>2, ClosedStep DEF Inv, ShapeInv
  <1> QED  BY <1>2, <1>3 DEF Attempt

LEMMA OpenStep ==
  ASSUME Inv, NEW t \in Tasks, OpenSucceeds(t)
  PROVE  ShapeInv' /\ LockInv' /\ LinkInv' /\ ItemInv'
  <1>1. PICK c \in Conns \ {conn} :
           Ask(t, "passcode", c, [Shut(conn, chan) EXCEPT ![c] = Fresh])
    BY DEF OpenSucceeds
  <1> DEFINE ch == [Shut(conn, chan) EXCEPT ![c] = Fresh]
  <1>2. /\ DOMAIN ch = Conns /\ ch[c] = Fresh
        /\ \A d \in Conns \ {c} : ch[d] = Shut(conn, chan)[d]
    BY ShutConn DEF Inv
  <1>3. Linked(ch, c)
    <2>1. Fresh.asks \in Seq(Messages)
      BY NothingAsked DEF Fresh
    <2>2. DOMAIN Fresh = {"open", "logged", "cut", "asks", "answers"}
      BY DEF Fresh
    <2> QED  BY <1>2, <2>1, <2>2, ShutConn DEF Linked, Inv
  <1>4. Clear(ch, c)
    BY <1>2, NothingAsked DEF Clear, Fresh
  <1>5. UNCHANGED <<block, want>> /\ "passcode" \in Kinds
    BY DEF OpenSucceeds, others, controller, command, Kinds, Connecting
  <1> HIDE DEF ch
  <1> QED  BY <1>1, <1>3, <1>4, <1>5, AskStep DEF Inv, ch

LEMMA GrantedStep ==
  ASSUME Inv, NEW t \in Tasks, Granted(t)
  PROVE  ShapeInv' /\ LockInv' /\ LinkInv' /\ ItemInv'
  <1>1. PICK kind \in Kinds :
           /\ holder = t /\ pc[t] = Awaits(kind)
           /\ \/ conn # NoConn /\ Send(t, kind, conn, chan)
              \/ Fail(t, kind, tries[t])
    BY DEF Granted
  <1>2. UNCHANGED <<block, want>> /\ pc[t] \notin Kinds
    BY <1>1 DEF Granted, others, controller, command, Awaits, Kinds, Connecting
  <1>3. CASE conn # NoConn /\ Send(t, kind, conn, chan)
    <2>1. pc[Other(t)] \notin Kinds
      BY <1>1, OtherTask DEF Inv, LockInv
    <2>2. via[t] = NoConn /\ via[Other(t)] = NoConn
      BY <1>2, <2>1, OtherTask DEF Inv, LockInv
    <2>3. ~chan[conn].cut => Clear(chan, conn)
      BY <1>3, <2>2, OtherTask DEF Inv, ItemInv
    <2> QED  BY <1>1, <1>2, <1>3, <2>1, <2>3, SendStep, OwnLink DEF Inv
  <1>4. CASE Fail(t, kind, tries[t])
    BY <1>2, <1>4, FailStep
  <1> QED  BY <1>1, <1>3, <1>4

LEMMA SkipStep ==
  ASSUME Inv, NEW t \in Tasks, Skip(t)
  PROVE  ShapeInv' /\ LockInv' /\ LinkInv' /\ ItemInv'
  <1>1. /\ pc[t] \in Kinds /\ chan[via[t]].answers # <<>> /\ Arrived(t).kind # pc[t]
        /\ chan' = Taken(t) /\ UNCHANGED <<conn, holder, pc, via, since, block, want>>
    BY DEF Skip, others, controller, command
  <1>2. /\ conn # NoConn /\ Linked(Taken(t), conn) /\ Taken(t)[conn].cut
    BY <1>1, TakenAlone DEF Inv, ShapeInv
  <1> QED  BY <1>1, <1>2 DEF Inv, ShapeInv, LockInv, LinkInv, ItemInv, Linked

LEMMA ConnectStep ==
  ASSUME Inv, NEW t \in Tasks, Connect(t)
  PROVE  ShapeInv' /\ LockInv' /\ LinkInv' /\ ItemInv'
  <1>1. /\ \E kind \in Kinds : Ask(t, kind, conn, Taken(t))
        /\ pc[t] \in Kinds /\ chan[via[t]].answers # <<>>
        /\ UNCHANGED <<block, want>>
    BY DEF Connect, Arrives, Kinds, Connecting, others, controller, command
  <1>2. Linked(Taken(t), conn) /\ (~Taken(t)[conn].cut => Clear(Taken(t), conn))
    BY <1>1, TakenAlone
  <1> QED  BY <1>1, <1>2, AskStep DEF Inv

LEMMA ReadStep ==
  ASSUME Inv, NEW t \in Tasks, Read(t)
  PROVE  Inv'
  <1>1. ShapeInv' /\ LockInv' /\ LinkInv' /\ ItemInv'
    <2>1. CASE OpenFails(t) \/ ExchangeFails(t)
      BY <2>1, FailStep DEF OpenFails, ExchangeFails, others, controller, command
    <2>2. CASE CloseAgain(t)
      <3>1. /\ chan' = Shut(conn, chan) /\ conn' = NoConn /\ pc[t] = "reclose"
            /\ pc' = [pc EXCEPT ![t] = Retry(tries[t])]
            /\ UNCHANGED <<holder, via, since, block, want>>
        BY <2>2 DEF CloseAgain, others, controller, command
      <3>2. Retry(tries[t]) \in {"attempt", "failed"}
        BY DEF Retry
      <3>3. /\ pc' \in [Tasks -> Places] /\ pc'[t] \notin Kinds /\ pc[t] \notin Kinds
            /\ \A u \in Tasks \ {t} : pc'[u] = pc[u]
        BY <3>1, <3>2 DEF Inv, ShapeInv, Places, Kinds, Connecting
      <3>4. LockInv'
        BY <3>1, <3>3 DEF Inv, LockInv, Kinds
      <3> QED  BY <3>1, <3>3, <3>4, ClosedStep DEF Inv, ShapeInv
    <2> QED
      BY <2>1, <2>2, AttemptStep, OpenStep, GrantedStep, SkipStep, ConnectStep DEF Read
  <1>2. pc[t] # "off" /\ phase' = phase
    BY DEF Read, Attempt, OpenSucceeds, OpenFails, Granted, ExchangeFails, CloseAgain, Skip,
           Connect, Arrives, others, command, Awaits, Kinds, Connecting
  <1>3. \A u \in Tasks \ {t} : pc'[u] = pc[u]
    <2>1. pc' = pc \/ \E place : pc' = [pc EXCEPT ![t] = place]
      BY DEF Read, Attempt, OpenSucceeds, OpenFails, Granted, ExchangeFails, CloseAgain, Skip,
             Connect, Ask, Send, Fail
    <2> QED  BY <2>1 DEF Inv, ShapeInv
  <1>4. PhaseInv'
    BY <1>2, <1>3 DEF Inv, PhaseInv, Tasks
  <1> QED  BY <1>1, <1>4 DEF Inv

-----------------------------------------------------------------------------
(* The steps of the poll and of the command.                               *)

LEMMA PollingStep ==
  ASSUME Inv, Polling
  PROVE  Inv'
  <1>1. /\ UNCHANGED <<block, want, phase>> /\ "poll" \in Tasks /\ "command" # "poll"
        /\ \E place : pc' = [pc EXCEPT !["poll"] = place]
    BY DEF Polling, Poll, PollReads, PollFails, Goes, Returned, others, controller, command, Tasks
  <1>2. PhaseInv'
    BY <1>1 DEF Inv, ShapeInv, PhaseInv, Tasks
  <1>3. CASE Poll \/ PollFails
    <2>1. PICK place \in {"attempt", "off"} :
             pc["poll"] \in {"off", "failed"} /\ Goes("poll", place)
      BY <1>3 DEF Poll, PollFails
    <2>2. place \in Places \ Kinds /\ pc["poll"] \notin Kinds
      BY <2>1 DEF Places, Kinds, Connecting
    <2> QED  BY <1>1, <1>2, <2>1, <2>2, GoesStep DEF Goes, Inv, ShapeInv
  <1>4. CASE PollReads
    BY <1>1, <1>2, <1>4, ReturnStep DEF PollReads, Inv, ShapeInv
  <1> QED  BY <1>3, <1>4 DEF Polling

\* A command begins, or goes on after a pause or a read that failed.
LEMMA CommandGoes ==
  ASSUME Inv, (\E w \in Blocks : Execute(w)) \/ Resume \/ CommandFails
  PROVE  Inv'
  <1>1. PICK place \in {"attempt", "off"} :
           /\ Goes("command", place) /\ pc["command"] \in {"off", "failed"}
           /\ place = "attempt" => phase' \notin {"idle", "pause"}
    BY DEF Execute, Resume, CommandFails, Inv, PhaseInv
  <1>2. /\ "command" \in Tasks /\ pc["command"] \notin Kinds /\ place \in Places \ Kinds
        /\ block' = block /\ want' \in Blocks \cup {NoBlock}
    BY <1>1 DEF Execute, Resume, CommandFails, CommandEnds, Pause, controller, Tasks, Kinds,
                Connecting, Places, Inv, ShapeInv
  <1>3. PhaseInv'
    BY <1>1, <1>2 DEF Goes, PhaseInv, Inv, ShapeInv
  <1> QED  BY <1>1, <1>2, <1>3, GoesStep DEF Goes, Inv

\* A command takes the answer of a read.
LEMMA CommandReturns ==
  ASSUME Inv, SendControl \/ ConfirmsLater \/ CommandReads
  PROVE  Inv'
  <1>1. PICK place \in {"attempt", "off"},
             ch \in {Taken("command"), Written(conn, Taken("command"), Message("control", want))} :
           /\ Arrives("command", "status") /\ Returned("command", ch, place)
           /\ place = "attempt" => phase' = "confirm"
    BY DEF SendControl, ConfirmsLater, CommandReads
  <1>2. "command" \in Tasks /\ block' = block /\ want' \in Blocks \cup {NoBlock}
    BY DEF SendControl, ConfirmsLater, CommandReads, CommandEnds, Pause, controller, Tasks,
           Inv, ShapeInv
  <1>3. PhaseInv'
    BY <1>1, <1>2 DEF Returned, PhaseInv, Inv, ShapeInv
  <1> QED  BY <1>1, <1>2, <1>3, ReturnStep DEF Inv

\* A command is cancelled: the connection it was reading from is marked.
LEMMA CutOffStep ==
  ASSUME Inv, ExecuteTimesOut \/ ReconcileTimesOut
  PROVE  Inv'
  <1>1. PICK place \in {"attempt", "off"} :
           /\ CutOff(place) /\ (place = "attempt" => phase' = "reconcile")
    BY DEF ExecuteTimesOut, ReconcileTimesOut
  <1>2. block' = block /\ want' \in Blocks \cup {NoBlock}
    BY DEF ExecuteTimesOut, ReconcileTimesOut, CommandEnds, controller, Inv, ShapeInv
  <1>3. /\ pc' \in [Tasks -> Places] /\ DOMAIN via' = Tasks /\ DOMAIN since' = Tasks
        /\ pc'["command"] = place /\ place \notin Kinds /\ via'["command"] = NoConn
        /\ pc'["poll"] = pc["poll"] /\ via'["poll"] = via["poll"] /\ since'["poll"] = since["poll"]
        /\ holder = "poll" => holder' = "poll"
        /\ conn' = conn
    BY <1>1 DEF CutOff, Left, Inv, ShapeInv, Places, Kinds, Connecting, Tasks
  <1>4. /\ DOMAIN chan' = Conns
        /\ \A c \in Conns : /\ DOMAIN chan'[c] = DOMAIN chan[c]
                            /\ chan'[c].open = chan[c].open /\ chan'[c].asks = chan[c].asks
                            /\ chan'[c].answers = chan[c].answers
                            /\ chan[c].cut \/ via["command"] = c => chan'[c].cut
    <2>1. CASE via["command"] = NoConn
      BY <1>1, <2>1, ConstantsOK DEF CutOff, Inv, ShapeInv
    <2>2. CASE via["command"] # NoConn
      <3>1. via["command"] \in Conns
        BY <2>2 DEF Inv, LockInv, Tasks
      <3>2. chan' = [chan EXCEPT ![via["command"]] = [@ EXCEPT !.cut = TRUE]]
        BY <1>1, <2>2 DEF CutOff
      <3> QED  BY <3>1, <3>2 DEF Inv, ShapeInv
    <2> QED  BY <2>1, <2>2
  <1>5. LockInv'
    BY <1>2, <1>3 DEF Inv, LockInv, Tasks, Kinds
  <1>6. ShapeInv' /\ LinkInv'
    BY <1>2, <1>3, <1>4 DEF Inv, ShapeInv, LinkInv
  <1>7. ItemInv'
    <2>1. SUFFICES ASSUME conn # NoConn, ~chan'[conn].cut PROVE ItemInv'
      BY <1>3 DEF ItemInv
    <2>2. /\ conn \in Conns /\ ~chan[conn].cut /\ via["command"] # conn
          /\ chan'[conn].asks = chan[conn].asks /\ chan'[conn].answers = chan[conn].answers
      BY <1>4, <2>1 DEF Inv, ShapeInv
    <2>3. Clear(chan, conn) => Clear(chan', conn)
      BY <2>2 DEF Clear
    <2>4. Asked(chan, conn, pc["poll"]) => Asked(chan', conn, pc["poll"])
      BY <2>2 DEF Asked
    <2>5. Answered(chan, conn, pc["poll"], since["poll"])
            => Answered(chan', conn, pc["poll"], since["poll"])
      BY <2>2 DEF Answered
    <2> QED  BY <1>3, <2>2, <2>3, <2>4, <2>5 DEF Inv, ItemInv, Tasks
  <1>8. PhaseInv'
    BY <1>1, <1>3 DEF PhaseInv
  <1> QED  BY <1>5, <1>6, <1>7, <1>8 DEF Inv

\* Hang-ups, outages, the panel and malformed frames.
LEMMA EnvironmentStep ==
  ASSUME Inv, Environment
  PROVE  Inv'
  <1>1. CASE (\E c \in Conns : HangUp(c)) \/ Outage
    <2>1. /\ UNCHANGED <<conn, holder, pc, via, since, block, want, phase>>
          /\ DOMAIN chan' = Conns
          /\ \A c \in Conns : \/ chan'[c] = chan[c]
                              \/ chan'[c] = [chan[c] EXCEPT !.open = FALSE, !.asks = <<>>]
      BY <1>1 DEF HangUp, Outage, command, Inv, ShapeInv
    <2> QED  BY <2>1, HangsUp DEF Inv, PhaseInv
  <1>2. CASE Recover
    BY <1>2, IdleStep DEF Recover, client, command, Inv, PhaseInv
  <1>3. CASE Panel
    <2>1. /\ \E b : BlockBecomes(b)
          /\ UNCHANGED <<chan, conn, holder, pc, via, want, phase>>
      BY <1>3 DEF Panel, command
    <2>2. /\ DOMAIN since' = Tasks /\ \A t \in Tasks : since[t] \subseteq since'[t]
          /\ \A t \in Tasks : pc[t] = "status" => block' \in since'[t]
      BY <2>1, BlockStep
    <2>3. ASSUME NEW t \in Tasks, Answered(chan, conn, pc[t], since[t])
          PROVE  Answered(chan, conn, pc[t], since'[t])
      BY <2>2, <2>3 DEF Answered
    <2>4. ItemInv'
      BY <2>1, <2>3 DEF Inv, ItemInv, Clear, Asked
    <2> QED  BY <2>1, <2>2, <2>4 DEF Inv, ShapeInv, LockInv, LinkInv, PhaseInv
  <1>4. ASSUME NEW t \in Tasks, MalformedFrame(t) PROVE Inv'
    <2>1. /\ Fail(t, pc[t], 2) /\ pc[t] \in Kinds /\ UNCHANGED <<block, want, phase>>
      BY <1>4 DEF MalformedFrame, command
    <2>2. pc[t] # "off" /\ \A u \in Tasks \ {t} : pc'[u] = pc[u]
      BY <2>1 DEF Fail, Kinds, Connecting, Inv, ShapeInv
    <2>3. PhaseInv'
      BY <2>1, <2>2 DEF Inv, PhaseInv, Tasks
    <2> QED  BY <2>1, <2>3, FailStep DEF Inv
  <1> QED  BY <1>1, <1>2, <1>3, <1>4 DEF Environment

-----------------------------------------------------------------------------
(* Initial states, steps, and the theorems.                                *)

LEMMA InitInv ==
  ASSUME Init
  PROVE  Inv
  <1>1. conn \in Conns /\ conn # NoConn
    <2>1. Conns # {}
      BY FS_EmptySet, ConstantsOK
    <2> QED  BY <2>1, ConstantsOK DEF Init
  <1>2. /\ DOMAIN chan = Conns
        /\ \A c \in Conns : chan[c] = IF c = conn THEN [Fresh EXCEPT !.logged = TRUE] ELSE Gone
    BY DEF Init
  <1>3. \A c \in Conns : /\ DOMAIN chan[c] = {"open", "logged", "cut", "asks", "answers"}
                         /\ chan[c].asks = <<>> /\ chan[c].answers = <<>>
                         /\ c # conn => ~chan[c].open
    BY <1>2 DEF Fresh, Gone
  <1>4. /\ pc = [t \in Tasks |-> "off"] /\ via = [t \in Tasks |-> NoConn]
        /\ since = [t \in Tasks |-> {}] /\ want = NoBlock
    BY DEF Init
  <1>5. ShapeInv
    BY <1>1, <1>2, <1>3, <1>4, NothingAsked DEF ShapeInv, Places
  <1>6. LockInv
    BY <1>4 DEF LockInv, Kinds, Connecting
  <1>7. LinkInv /\ ItemInv /\ PhaseInv
    BY <1>1, <1>3, <1>4, NothingAsked DEF LinkInv, ItemInv, Clear, PhaseInv, Tasks
  <1> QED  BY <1>5, <1>6, <1>7 DEF Inv

LEMMA StepInv ==
  ASSUME Inv, [Next]_vars
  PROVE  Inv'
  <1>1. ASSUME NEW c \in Conns, Controller(c) PROVE Inv'
    BY <1>1, ControllerStep DEF Controller, command, Inv, PhaseInv
  <1>2. CASE vars' = vars
    BY <1>2, IdleStep DEF vars, controller, client, command, Inv, PhaseInv
  <1> QED
    BY <1>1, <1>2, ReadStep, PollingStep, CommandGoes, CommandReturns, CutOffStep,
       EnvironmentStep DEF Next, Commanding

\* A task that awaits an answer of the controller holds the lock of BestwayClient,
\* so the other one does not: whatever fails, is cancelled, or closes the
\* connection under it.
THEOREM ExchangesExclude == Spec => [](\A t \in Tasks : pc[t] \in Kinds => holder = t)
  <1>1. Inv => \A t \in Tasks : pc[t] \in Kinds => holder = t
    BY DEF Inv, LockInv
  <1> QED  BY <1>1, InitInv, StepInv, PTL DEF Spec

\* The answer BestwayClient.read_status is about to take shows a block the
\* controller had after the task asked, unless an exchange was cancelled on that
\* connection: for any number of connections, commands, hang-ups and outages.
THEOREM FreshUnlessCutHolds == Spec => []FreshUnlessCut
  <1>1. ASSUME Inv PROVE FreshUnlessCut
    <2>1. SUFFICES ASSUME NEW t \in Tasks, Arrives(t, "status")
                   PROVE  Arrived(t).block \in since[t] \/ chan[via[t]].cut
      BY DEF FreshUnlessCut
    <2>2. pc[t] = "status" /\ pc[t] \in Kinds /\ chan[via[t]].answers # <<>>
      BY <2>1 DEF Arrives, Kinds
    <2> QED  BY <1>1, <2>2, TakenAlone
  <1> QED  BY <1>1, InitInv, StepInv, PTL DEF Spec

-----------------------------------------------------------------------------
(* The sets of the variables.                                              *)

Requests == {Message(k, NoBlock) : k \in Kinds} \cup {Message("control", b) : b \in Blocks}
Answers == [kind : Kinds, block : Blocks]

\* Connections that carry requests one way and answers the other.
Typed(ch) ==
    /\ DOMAIN ch = Conns
    /\ \A c \in Conns :
          /\ DOMAIN ch[c] = {"open", "logged", "cut", "asks", "answers"}
          /\ ch[c].open \in BOOLEAN /\ ch[c].logged \in BOOLEAN /\ ch[c].cut \in BOOLEAN
          /\ ch[c].asks \in Seq(Requests) /\ ch[c].answers \in Seq(Answers)

\* A task that goes on to an attempt has one left.
ReadsInv ==
    /\ holder \in Tasks \cup {"nobody"}
    /\ tries \in [Tasks -> 0..2] /\ since \in [Tasks -> SUBSET Blocks]
    /\ \A t \in Tasks : pc[t] = "attempt" => tries[t] < 2

HouseInv ==
    /\ block \in Blocks /\ up \in BOOLEAN /\ troubles \in 0..MaxTroubles
    /\ previous \in Blocks \cup {NoBlock} /\ reached \in BOOLEAN
    /\ held \in Blocks /\ online \in BOOLEAN

\* A command that pauses before a read-back has that read-back left, and one that
\* is under way knows the block it asks for.
OrderInv ==
    /\ phase \in {"idle", "base", "confirm", "pause", "reconcile"}
    /\ want \in Blocks \cup {NoBlock} /\ latest \in Blocks \cup {NoBlock}
    /\ phase # "idle" => want \in Blocks
    /\ confirms \in 0..ConfirmAttempts /\ commands \in 0..MaxCommands
    /\ phase = "pause" => confirms < ConfirmAttempts

TypeInv == Typed(chan) /\ ReadsInv /\ HouseInv /\ OrderInv

\* There is a last control request among what was written, or none.
LEMMA MatteringIsLength ==
  ASSUME NEW sent \in Seq(Requests)
  PROVE  Mattering(sent) \in 0..Len(sent)
  <1> DEFINE ends == {n \in Nat : \A i \in DOMAIN sent : sent[i].kind = "control" => i <= n}
             before == OpToRel(<, Nat)
  <1>1. Len(sent) \in Nat /\ DOMAIN sent = 1 .. Len(sent)
    OBVIOUS
  <1>2. Len(sent) \in ends
    BY <1>1
  <1>3. PICK n \in ends : \A k \in ends : ~ (<<k, n>> \in before)
    BY <1>2, NatLessThanWellFounded, WFMin
  <1>4. n \in Nat /\ \A k \in ends : ~ (k < n)
    BY <1>3 DEF OpToRel
  <1>5. \A i \in DOMAIN sent : sent[i].kind = "control" => i <= n
    BY <1>3
  <1>6. n <= Len(sent)
    BY <1>1, <1>2, <1>4
  <1>7. n > 0 => sent[n].kind = "control"
    <2>1. SUFFICES ASSUME n > 0, sent[n].kind # "control" PROVE FALSE
      OBVIOUS
    <2>2. n - 1 \in Nat /\ n - 1 \notin ends
      BY <1>4, <2>1
    <2>3. PICK i \in DOMAIN sent : sent[i].kind = "control" /\ ~ (i <= n - 1)
      BY <2>2
    <2>4. i <= n /\ i \in Nat
      BY <1>1, <1>5, <2>3
    <2>5. i = n
      BY <1>4, <2>3, <2>4
    <2> QED  BY <2>1, <2>3, <2>5
  <1>8. /\ n \in 0..Len(sent)
        /\ n > 0 => sent[n].kind = "control"
        /\ \A i \in DOMAIN sent : sent[i].kind = "control" => i <= n
    BY <1>1, <1>4, <1>6, <1>7, <1>5
  <1> QED  BY <1>8 DEF Mattering

\* What the client closes, writes and takes leaves the connections what they are.
LEMMA ShutTyped ==
  ASSUME Typed(chan), conn \in Conns \cup {NoConn}
  PROVE  Typed(Shut(conn, chan))
  <1>1. CASE conn = NoConn
    BY <1>1 DEF Shut
  <1>2. CASE conn # NoConn
    <2> DEFINE sent == chan[conn].asks
               kept == SubSeq(sent, 1, Mattering(sent))
               left == [Gone EXCEPT !.asks = kept]
    <2>1. sent \in Seq(Requests)
      BY <1>2 DEF Typed
    <2>2. kept \in Seq(Requests)
      <3>1. Mattering(sent) \in 0..Len(sent)
        BY <2>1, MatteringIsLength
      <3> HIDE DEF sent
      <3> QED  BY <2>1, <3>1
    <2>3. Shut(conn, chan) = [chan EXCEPT ![conn] = left]
      BY <1>2 DEF Shut
    <2> HIDE DEF kept
    <2>4. /\ DOMAIN left = {"open", "logged", "cut", "asks", "answers"}
          /\ left.open = FALSE /\ left.logged = FALSE /\ left.cut = FALSE
          /\ left.asks = kept /\ left.answers = <<>>
      BY DEF Gone, Fresh
    <2> HIDE DEF left
    <2>5. <<>> \in Seq(Answers)
      OBVIOUS
    <2> QED  BY <1>2, <2>2, <2>3, <2>4, <2>5 DEF Typed
  <1> QED  BY <1>1, <1>2

LEMMA WrittenTyped ==
  ASSUME NEW ch, Typed(ch), NEW link \in Conns, NEW m \in Requests
  PROVE  Typed(Written(link, ch, m))
  <1>1. CASE ~ch[link].open
    BY <1>1 DEF Written
  <1>2. CASE ch[link].open
    <2> DEFINE more == Append(ch[link].asks, m)
    <2>1. more \in Seq(Requests)
      BY DEF Typed
    <2>2. Written(link, ch, m) = [ch EXCEPT ![link] = [ch[link] EXCEPT !.asks = more]]
      BY <1>2 DEF Written
    <2> HIDE DEF more
    <2> QED  BY <2>1, <2>2 DEF Typed
  <1> QED  BY <1>1, <1>2

LEMMA TakenTyped ==
  ASSUME Typed(chan), NEW t \in Tasks, via[t] \in Conns, chan[via[t]].answers # <<>>
  PROVE  Typed(Taken(t)) /\ Arrived(t).block \in Blocks
  <1> DEFINE rest == Tail(chan[via[t]].answers)
  <1>1. PICK c \in Conns : c = via[t]
    OBVIOUS
  <1>2. /\ chan[c].answers \in Seq(Answers) /\ rest \in Seq(Answers)
        /\ Head(chan[c].answers) \in Answers
    BY <1>1 DEF Typed
  <1>3. Taken(t) = [chan EXCEPT ![c] = [chan[c] EXCEPT !.answers = rest]]
    BY <1>1 DEF Taken, Typed
  <1> HIDE DEF rest
  <1>4. Typed(Taken(t))
    BY <1>2, <1>3 DEF Typed
  <1> QED  BY <1>1, <1>2, <1>4 DEF Arrived, Answers

\* One task moves on.
LEMMA ReadsStep ==
  ASSUME Inv, ReadsInv, NEW t \in Tasks, NEW place, pc' = [pc EXCEPT ![t] = place],
         tries' \in [Tasks -> 0..2], \A u \in Tasks \ {t} : tries'[u] = tries[u],
         place = "attempt" => tries'[t] < 2,
         since' \in [Tasks -> SUBSET Blocks], holder' \in Tasks \cup {"nobody"}
  PROVE  ReadsInv'
  BY DEF ReadsInv, Inv, ShapeInv

LEMMA AskTyped ==
  ASSUME Inv, ReadsInv, block \in Blocks, NEW t \in Tasks, NEW kind \in Kinds, NEW ch, Typed(ch),
         NEW link \in Conns, Ask(t, kind, link, ch),
         tries' \in [Tasks -> 0..2], \A u \in Tasks \ {t} : tries'[u] = tries[u]
  PROVE  Typed(chan') /\ ReadsInv'
  <1>1. kind # "attempt" /\ Awaits(kind) # "attempt"
    BY DEF Kinds, Connecting, Awaits
  <1>2. /\ pc' = [pc EXCEPT ![t] = kind] \/ pc' = [pc EXCEPT ![t] = Awaits(kind)]
        /\ since' = [since EXCEPT ![t] = {}] \/ since' = [since EXCEPT ![t] = {block}]
        /\ holder' \in Tasks
    BY OtherTask DEF Ask, Send
  <1>3. ReadsInv'
    <2>1. since' \in [Tasks -> SUBSET Blocks]
      BY <1>2 DEF ReadsInv
    <2> QED  BY <1>1, <1>2, <2>1, ReadsStep
  <1>4. Message(kind, NoBlock) \in Requests
    BY DEF Requests
  <1> QED  BY <1>3, <1>4, WrittenTyped DEF Ask, Send

LEMMA FailTyped ==
  ASSUME Inv, Typed(chan), ReadsInv, NEW t \in Tasks, NEW kind, NEW n \in 0..2, Fail(t, kind, n)
  PROVE  Typed(chan') /\ ReadsInv'
  <1>1. Typed(chan')
    BY ShutTyped DEF Fail, Inv, ShapeInv
  <1>2. PICK place : pc' = [pc EXCEPT ![t] = place] /\ (place = "attempt" => n < 2)
    <2> DEFINE next == IF kind \in Connecting THEN "reclose" ELSE Retry(n)
    <2>1. pc' = [pc EXCEPT ![t] = next]
      BY DEF Fail
    <2>2. next = "attempt" => n < 2
      BY DEF Retry
    <2> QED  BY <2>1, <2>2
  <1>3. holder' \in Tasks \cup {"nobody"}
    BY OtherTask DEF Fail, Left, ReadsInv
  <1>4. /\ tries' \in [Tasks -> 0..2] /\ tries'[t] = n
        /\ \A u \in Tasks \ {t} : tries'[u] = tries[u]
        /\ since' \in [Tasks -> SUBSET Blocks]
    BY DEF Fail, ReadsInv
  <1> QED  BY <1>1, <1>2, <1>3, <1>4, ReadsStep

LEMMA ReadTyped ==
  ASSUME Inv, TypeInv, NEW t \in Tasks, Read(t)
  PROVE  TypeInv'
  <1>1. HouseInv' /\ OrderInv'
    BY DEF Read, Attempt, OpenSucceeds, OpenFails, Granted, ExchangeFails, CloseAgain, Skip,
           Connect, others, controller, command, registry, TypeInv, HouseInv, OrderInv
  <1>2. conn \in Conns \cup {NoConn} /\ tries[t] \in 0..2
    BY DEF Inv, ShapeInv, TypeInv, ReadsInv
  <1>3. CASE Attempt(t)
    <2>1. /\ tries' \in [Tasks -> 0..2] /\ \A u \in Tasks \ {t} : tries'[u] = tries[u]
      BY <1>3 DEF Attempt, TypeInv, ReadsInv
    <2>2. CASE conn # NoConn /\ Ask(t, "status", conn, chan)
      BY <1>1, <1>2, <2>1, <2>2, AskTyped DEF TypeInv, HouseInv, Kinds
    <2>3. CASE /\ chan' = Shut(conn, chan) /\ pc' = [pc EXCEPT ![t] = "opening"]
               /\ UNCHANGED <<holder, via, since>>
      <3>1. Typed(chan')
        BY <1>2, <2>3, ShutTyped DEF TypeInv
      <3>2. ReadsInv'
        BY <2>1, <2>3, ReadsStep DEF TypeInv, ReadsInv
      <3> QED  BY <1>1, <3>1, <3>2 DEF TypeInv
    <2> QED  BY <1>3, <2>2, <2>3 DEF Attempt
  <1>4. CASE OpenSucceeds(t)
    <2>1. PICK c \in Conns : Ask(t, "passcode", c, [Shut(conn, chan) EXCEPT ![c] = Fresh])
      BY <1>4 DEF OpenSucceeds
    <2>2. Typed([Shut(conn, chan) EXCEPT ![c] = Fresh])
      <3>1. Typed(Shut(conn, chan))
        BY <1>2, ShutTyped DEF TypeInv
      <3>2. /\ DOMAIN Fresh = {"open", "logged", "cut", "asks", "answers"}
            /\ Fresh.open = TRUE /\ Fresh.logged = FALSE /\ Fresh.cut = FALSE
            /\ Fresh.asks \in Seq(Requests) /\ Fresh.answers \in Seq(Answers)
        BY DEF Fresh
      <3> QED  BY <3>1, <3>2 DEF Typed
    <2>3. tries' = tries /\ "passcode" \in Kinds
      BY <1>4 DEF OpenSucceeds, Kinds, Connecting
    <2> QED  BY <1>1, <2>1, <2>2, <2>3, AskTyped DEF TypeInv, HouseInv, ReadsInv
  <1>5. CASE OpenFails(t)
    BY <1>1, <1>2, <1>5, FailTyped DEF OpenFails, TypeInv
  <1>6. CASE Granted(t)
    <2>1. PICK kind \in Kinds :
             \/ conn # NoConn /\ Send(t, kind, conn, chan) /\ tries' = tries
             \/ Fail(t, kind, tries[t])
      BY <1>6 DEF Granted
    <2>2. CASE conn # NoConn /\ Send(t, kind, conn, chan) /\ tries' = tries
      <3>1. Typed(chan')
        BY <1>2, <2>2, WrittenTyped DEF Send, TypeInv, Requests
      <3>2. kind # "attempt"
        BY DEF Kinds, Connecting
      <3>3. since' \in [Tasks -> SUBSET Blocks]
        BY <2>2 DEF Send, TypeInv, ReadsInv, HouseInv
      <3>4. ReadsInv'
        BY <2>2, <3>2, <3>3, ReadsStep DEF Send, TypeInv, ReadsInv
      <3> QED  BY <1>1, <3>1, <3>4 DEF TypeInv
    <2>3. CASE Fail(t, kind, tries[t])
      BY <1>1, <1>2, <2>3, FailTyped DEF TypeInv
    <2> QED  BY <2>1, <2>2, <2>3
  <1>7. CASE ExchangeFails(t)
    BY <1>1, <1>2, <1>7, FailTyped DEF ExchangeFails, TypeInv
  <1>8. CASE CloseAgain(t)
    <2>1. Typed(chan')
      BY <1>2, <1>8, ShutTyped DEF CloseAgain, TypeInv
    <2>2. ReadsInv'
      <3>1. pc' = [pc EXCEPT ![t] = Retry(tries[t])] /\ UNCHANGED <<holder, tries, since>>
        BY <1>8 DEF CloseAgain
      <3>2. Retry(tries[t]) = "attempt" => tries[t] < 2
        BY DEF Retry
      <3> QED  BY <3>1, <3>2, ReadsStep DEF TypeInv, ReadsInv
    <2> QED  BY <1>1, <2>1, <2>2 DEF TypeInv
  <1>9. CASE Skip(t)
    <2>1. Typed(chan')
      BY <1>9, TakenTyped DEF Skip, TypeInv, Inv, LockInv
    <2>2. ReadsInv'
      BY <1>9 DEF Skip, TypeInv, ReadsInv
    <2> QED  BY <1>1, <2>1, <2>2 DEF TypeInv
  <1>10. CASE Connect(t)
    <2>1. PICK kind \in Kinds : Ask(t, kind, conn, Taken(t))
      BY <1>10 DEF Connect, Kinds, Connecting
    <2>2. pc[t] \in Kinds /\ chan[via[t]].answers # <<>> /\ tries' = tries
      BY <1>10 DEF Connect, Arrives, Kinds, Connecting
    <2>3. conn \in Conns /\ Typed(Taken(t))
      BY <2>2, TakenAlone, TakenTyped DEF TypeInv, Inv, LockInv, ShapeInv
    <2> QED  BY <1>1, <2>1, <2>2, <2>3, AskTyped DEF TypeInv, HouseInv, ReadsInv
  <1> QED  BY <1>3, <1>4, <1>5, <1>6, <1>7, <1>8, <1>9, <1>10 DEF Read

LEMMA ControllerTyped ==
  ASSUME Inv, TypeInv, NEW c \in Conns, Controller(c)
  PROVE  TypeInv'
  <1> DEFINE s == chan[c]
             h == Head(s.asks)
             answered == s.open /\ h.kind # "control" /\ (h.kind = "status" => s.logged)
             more == IF answered THEN Append(s.answers, Message(h.kind, block)) ELSE s.answers
             logged == s.logged \/ (h.kind = "login" /\ s.open)
  <1>1. /\ s.asks \in Seq(Requests) /\ s.answers \in Seq(Answers) /\ s.asks # <<>>
        /\ block \in Blocks
    BY DEF TypeInv, Typed, HouseInv, Controller
  <1>2. h \in Requests /\ Tail(s.asks) \in Seq(Requests)
    BY <1>1
  <1>3. h.kind = "control" => h.block \in Blocks
    BY <1>2 DEF Requests, Message, Kinds, Connecting
  <1>4. h.kind # "control" => Message(h.kind, block) \in Answers
    BY <1>1, <1>2 DEF Requests, Answers, Message
  <1>5. more \in Seq(Answers) /\ logged \in BOOLEAN
    BY <1>1, <1>4 DEF TypeInv, Typed
  <1>6. chan' = [chan EXCEPT ![c] = [s EXCEPT !.asks = Tail(s.asks), !.logged = logged,
                                              !.answers = more]]
    BY DEF Controller, TypeInv, Typed
  <1>7. Typed(chan')
    <2> HIDE DEF more, logged
    <2> QED  BY <1>2, <1>5, <1>6 DEF TypeInv, Typed
  <1>8. \E b \in Blocks : BlockBecomes(b)
    BY <1>1, <1>3 DEF Controller
  <1>9. ReadsInv'
    BY <1>8 DEF BlockBecomes, Controller, TypeInv, ReadsInv
  <1>10. HouseInv' /\ OrderInv'
    BY <1>8 DEF BlockBecomes, Controller, TypeInv, HouseInv, OrderInv, command, registry
  <1> QED  BY <1>7, <1>9, <1>10 DEF TypeInv

\* A task leaves an exchange with its answer, or goes on outside any.
LEMMA ReturnedTyped ==
  ASSUME Inv, TypeInv, NEW t \in Tasks, Arrives(t, "status"), NEW place \in {"off", "attempt"},
         NEW ch, Typed(ch), Returned(t, ch, place)
  PROVE  Typed(chan') /\ ReadsInv'
  <1>1. /\ chan' = ch /\ pc' = [pc EXCEPT ![t] = place] /\ tries' = [tries EXCEPT ![t] = 0]
        /\ since' = [since EXCEPT ![t] = {}] /\ holder' = Left(t)
    BY DEF Returned
  <1>2. /\ tries' \in [Tasks -> 0..2] /\ tries'[t] = 0
        /\ \A u \in Tasks \ {t} : tries'[u] = tries[u]
        /\ since' \in [Tasks -> SUBSET Blocks] /\ holder' \in Tasks \cup {"nobody"}
    BY <1>1, OtherTask DEF TypeInv, ReadsInv, Left
  <1>3. ReadsInv'
    BY <1>1, <1>2, ReadsStep DEF TypeInv, ReadsInv
  <1> QED  BY <1>1, <1>3

LEMMA GoesTyped ==
  ASSUME Inv, TypeInv, NEW t \in Tasks, NEW place, Goes(t, place)
  PROVE  Typed(chan') /\ ReadsInv'
  <1>1. /\ tries' \in [Tasks -> 0..2] /\ tries'[t] = 0
        /\ \A u \in Tasks \ {t} : tries'[u] = tries[u]
        /\ pc' = [pc EXCEPT ![t] = place] /\ UNCHANGED <<chan, holder, since>>
    BY DEF Goes, TypeInv, ReadsInv
  <1> QED  BY <1>1, ReadsStep DEF TypeInv, ReadsInv

\* What a task that may take an answer finds.
LEMMA AnswerTyped ==
  ASSUME Inv, TypeInv, NEW t \in Tasks, Arrives(t, "status")
  PROVE  Typed(Taken(t)) /\ Arrived(t).block \in Blocks /\ conn \in Conns
  <1>1. pc[t] \in Kinds /\ chan[via[t]].answers # <<>>
    BY DEF Arrives, Kinds
  <1> QED  BY <1>1, TakenAlone, TakenTyped DEF Inv, LockInv, TypeInv

LEMMA PollingTyped ==
  ASSUME Inv, TypeInv, Polling
  PROVE  TypeInv'
  <1>1. "poll" \in Tasks
    BY DEF Tasks
  <1>2. OrderInv'
    BY DEF Polling, Poll, PollReads, PollFails, others, command, TypeInv, OrderInv
  <1>3. CASE Poll
    BY <1>1, <1>2, <1>3, GoesTyped
       DEF Poll, others, controller, registry, TypeInv, HouseInv
  <1>4. CASE PollReads
    <2>1. HouseInv'
      BY <1>1, <1>4, AnswerTyped DEF PollReads, controller, registry, TypeInv, HouseInv
    <2> QED  BY <1>1, <1>2, <1>4, <2>1, AnswerTyped, ReturnedTyped DEF PollReads, TypeInv
  <1>5. CASE PollFails
    BY <1>1, <1>2, <1>5, GoesTyped DEF PollFails, controller, TypeInv, HouseInv
  <1> QED  BY <1>3, <1>4, <1>5 DEF Polling

LEMMA CommandingTyped ==
  ASSUME Inv, TypeInv, Commanding \/ \E w \in Blocks : Execute(w)
  PROVE  TypeInv'
  <1>1. "command" \in Tasks /\ ConfirmAttempts \in Nat \ {0} /\ MaxCommands \in Nat
    BY ConstantsOK DEF Tasks
  <1>2. CASE \E w \in Blocks : Execute(w)
    <2>1. HouseInv' /\ OrderInv'
      BY <1>1, <1>2 DEF Execute, controller, registry, TypeInv, HouseInv, OrderInv
    <2> QED  BY <1>1, <1>2, <2>1, GoesTyped DEF Execute, TypeInv
  <1>3. CASE Resume
    <2>1. HouseInv' /\ OrderInv'
      BY <1>1, <1>3 DEF Resume, controller, registry, TypeInv, HouseInv, OrderInv
    <2> QED  BY <1>1, <1>3, <2>1, GoesTyped DEF Resume, TypeInv
  <1>4. CASE CommandFails
    <2>1. HouseInv'
      BY <1>4 DEF CommandFails, controller, registry, TypeInv, HouseInv, OrderInv
    <2>2. OrderInv'
      <3>1. CASE CommandEnds
        BY <1>1, <3>1 DEF CommandEnds, TypeInv, OrderInv
      <3>2. CASE phase = "confirm" /\ Pause(latest)
        BY <1>1, <3>2 DEF Pause, MayConfirm, TypeInv, OrderInv
      <3> QED  BY <1>4, <3>1, <3>2 DEF CommandFails
    <2> QED  BY <1>1, <1>4, <2>1, <2>2, GoesTyped DEF CommandFails, TypeInv
  <1>5. CASE SendControl
    <2>1. HouseInv' /\ OrderInv'
      BY <1>1, <1>5 DEF SendControl, controller, registry, TypeInv, HouseInv, OrderInv
    <2>2. Message("control", want) \in Requests
      BY <1>5 DEF SendControl, Requests, TypeInv, OrderInv
    <2>3. Typed(Written(conn, Taken("command"), Message("control", want)))
      BY <1>1, <1>5, <2>2, AnswerTyped, WrittenTyped DEF SendControl
    <2> QED  BY <1>1, <1>5, <2>1, <2>3, ReturnedTyped DEF SendControl, TypeInv
  <1>6. CASE ConfirmsLater
    <2>1. Arrived("command").block \in Blocks /\ Typed(Taken("command"))
      BY <1>1, <1>6, AnswerTyped DEF ConfirmsLater
    <2>2. HouseInv' /\ OrderInv'
      BY <1>1, <1>6, <2>1 DEF ConfirmsLater, Pause, MayConfirm, controller, registry, TypeInv,
                              HouseInv, OrderInv
    <2> QED  BY <1>1, <1>6, <2>1, <2>2, ReturnedTyped DEF ConfirmsLater, TypeInv
  <1>7. CASE CommandReads
    <2>1. Arrived("command").block \in Blocks /\ Typed(Taken("command"))
      BY <1>1, <1>7, AnswerTyped DEF CommandReads
    <2>2. HouseInv' /\ OrderInv'
      BY <1>1, <1>7, <2>1 DEF CommandReads, CommandEnds, controller, TypeInv, HouseInv, OrderInv
    <2> QED  BY <1>1, <1>7, <2>1, <2>2, ReturnedTyped DEF CommandReads, TypeInv
  <1> QED  BY <1>2, <1>3, <1>4, <1>5, <1>6, <1>7 DEF Commanding

LEMMA CutOffTyped ==
  ASSUME Inv, TypeInv, ExecuteTimesOut \/ ReconcileTimesOut
  PROVE  TypeInv'
  <1>1. PICK place : CutOff(place)
    BY DEF ExecuteTimesOut, ReconcileTimesOut
  <1>2. "command" \in Tasks
    BY DEF Tasks
  <1>3. Typed(chan')
    <2>1. CASE via["command"] = NoConn
      BY <1>1, <2>1 DEF CutOff, TypeInv
    <2>2. CASE via["command"] # NoConn
      <3>1. PICK c \in Conns : c = via["command"]
        BY <1>2, <2>2 DEF Inv, LockInv
      <3>2. chan' = [chan EXCEPT ![c] = [chan[c] EXCEPT !.cut = TRUE]]
        BY <1>1, <2>2, <3>1 DEF CutOff, TypeInv, Typed
      <3> QED  BY <3>2 DEF TypeInv, Typed
    <2> QED  BY <2>1, <2>2
  <1>4. /\ pc' = [pc EXCEPT !["command"] = place]
        /\ tries' \in [Tasks -> 0..2] /\ tries'["command"] = 0
        /\ \A u \in Tasks \ {"command"} : tries'[u] = tries[u]
        /\ since' \in [Tasks -> SUBSET Blocks] /\ holder' \in Tasks \cup {"nobody"}
    BY <1>1, <1>2, OtherTask DEF CutOff, Left, TypeInv, ReadsInv
  <1>5. ReadsInv'
    BY <1>2, <1>4, ReadsStep DEF TypeInv, ReadsInv
  <1>6. HouseInv' /\ OrderInv'
    BY ConstantsOK DEF ExecuteTimesOut, ReconcileTimesOut, CommandEnds, controller, registry,
                       TypeInv, HouseInv, OrderInv
  <1> QED  BY <1>3, <1>5, <1>6 DEF TypeInv

LEMMA EnvironmentTyped ==
  ASSUME Inv, TypeInv, Environment
  PROVE  TypeInv'
  <1>1. OrderInv'
    BY DEF Environment, HangUp, Outage, Recover, Panel, MalformedFrame, client, command, TypeInv,
           OrderInv
  <1>2. HouseInv'
    <2>1. Trouble => troubles' \in 0..MaxTroubles
      BY ConstantsOK DEF Trouble, TypeInv, HouseInv
    <2>2. /\ UNCHANGED <<previous, reached, registry>>
          /\ block' \in Blocks /\ up' \in BOOLEAN /\ (Trouble \/ troubles' = troubles)
      BY DEF Environment, HangUp, Outage, Recover, Panel, MalformedFrame, BlockBecomes, TypeInv,
             HouseInv
    <2> QED  BY <2>1, <2>2 DEF registry, TypeInv, HouseInv
  <1>3. CASE (\E c \in Conns : HangUp(c)) \/ Outage
    <2>1. /\ UNCHANGED <<holder, tries, since, pc>> /\ DOMAIN chan' = Conns
          /\ \A c \in Conns : \/ chan'[c] = chan[c]
                              \/ chan'[c] = [chan[c] EXCEPT !.open = FALSE, !.asks = <<>>]
      BY <1>3 DEF HangUp, Outage, TypeInv, Typed
    <2>2. <<>> \in Seq(Requests)
      OBVIOUS
    <2>3. Typed(chan')
      BY <2>1, <2>2 DEF TypeInv, Typed
    <2> QED  BY <1>1, <1>2, <2>1, <2>3 DEF TypeInv, ReadsInv
  <1>4. CASE Recover
    BY <1>1, <1>2, <1>4 DEF Recover, client, TypeInv, ReadsInv
  <1>5. CASE Panel
    <2>1. ReadsInv'
      BY <1>5 DEF Panel, BlockBecomes, TypeInv, ReadsInv
    <2> QED  BY <1>1, <1>2, <1>5, <2>1 DEF Panel, TypeInv
  <1>6. ASSUME NEW t \in Tasks, MalformedFrame(t) PROVE TypeInv'
    BY <1>1, <1>2, <1>6, FailTyped DEF MalformedFrame, TypeInv
  <1> QED  BY <1>3, <1>4, <1>5, <1>6 DEF Environment

LEMMA InitTyped ==
  ASSUME Init
  PROVE  TypeInv
  <1>1. block \in Blocks /\ ConfirmAttempts \in Nat \ {0} /\ MaxCommands \in Nat /\ MaxTroubles \in Nat
    BY ConstantsOK DEF Init
  <1>2. <<>> \in Seq(Requests) /\ <<>> \in Seq(Answers)
    OBVIOUS
  <1>3. Typed(chan)
    BY <1>2 DEF Init, Typed, Fresh, Gone
  <1>4. ReadsInv
    BY DEF Init, ReadsInv
  <1>5. HouseInv /\ OrderInv
    BY <1>1 DEF Init, HouseInv, OrderInv
  <1> QED  BY <1>3, <1>4, <1>5 DEF TypeInv

LEMMA StepTyped ==
  ASSUME Inv, TypeInv, [Next]_vars
  PROVE  TypeInv'
  <1>1. CASE vars' = vars
    BY <1>1 DEF vars, controller, client, command, registry, TypeInv, ReadsInv, HouseInv, OrderInv
  <1> QED
    BY <1>1, ControllerTyped, ReadTyped, PollingTyped, CommandingTyped, CutOffTyped,
       EnvironmentTyped DEF Next

\* The variables stay in their sets: BestwayProvider._confirm reads the state back
\* at most confirm_attempts times, _read_with_retry begins at most two attempts, and
\* only the task with the lock is in an exchange.
THEOREM TypeCorrect == Spec => []TypeOK
  <1>1. ASSUME Inv, TypeInv PROVE TypeOK
    <2>1. \A c \in Conns :
             /\ DOMAIN chan[c] = DOMAIN Fresh
             /\ \A i \in DOMAIN chan[c].asks : chan[c].asks[i] \in Requests
             /\ \A i \in DOMAIN chan[c].answers : chan[c].answers[i] \in Answers
      BY <1>1 DEF TypeInv, Typed, Fresh
    <2>2. \A t \in Tasks : pc[t] \in Places /\ (pc[t] \in Kinds => holder = t /\ via[t] \in Conns)
      BY <1>1 DEF Inv, ShapeInv, LockInv
    <2> QED
      BY <1>1, <2>1, <2>2 DEF TypeOK, TypeInv, Typed, ReadsInv, HouseInv, OrderInv, Requests,
                              Answers, Places, Inv, ShapeInv
  <1>2. Init => Inv /\ TypeInv
    BY InitInv, InitTyped
  <1>3. Inv /\ TypeInv /\ [Next]_vars => (Inv /\ TypeInv)'
    BY StepInv, StepTyped
  <1> QED  BY <1>1, <1>2, <1>3, PTL DEF Spec

=============================================================================
