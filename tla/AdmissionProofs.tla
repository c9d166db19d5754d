--------------------------- MODULE AdmissionProofs ---------------------------
(***************************************************************************)
(* Proofs about Admission: tickets are honoured once, for their client and *)
(* in time; no bucket refuses before it has let a burst pass.              *)
(***************************************************************************)
EXTENDS Admission, FiniteSetTheorems, WellFoundedInduction, TLAPS

-----------------------------------------------------------------------------
(* What the threads are.                                                   *)

ThreadState ==
    [pc : Places, client : Clients \cup {Nobody}, peer : Peers \cup {Nobody}, offered : Int,
     read : Int, disturbed : BOOLEAN, doomed : SUBSET Int, ticket : Int,
     limiter : {"none", "auth", "command"}, key : Clients \cup Peers \cup {Nobody},
     bucket : Nat, amount : Int]

Bucket == [tokens : Int, updated : Int, taken : Nat, refused : BOOLEAN]

\* The bucket a thread has looked up exists.
Using == {"touch", "elapse", "refill", "store"}
\* The ticket a thread has drawn is not in the store yet.
Inserting == {"evict", "insert"}

Shape ==
    /\ now \in Int /\ drawn \in Nat
    /\ thread \in [Threads -> ThreadState]
    /\ returned \subseteq Int
    /\ \A e \in tickets : e.ticket \in Int /\ e.expires \in Int
    /\ \E n \in Nat : DOMAIN buckets = 1 .. n
    /\ \A b \in DOMAIN buckets : buckets[b] \in Bucket
    /\ \A e \in table : e.bucket \in DOMAIN buckets
    /\ \A t \in Threads : thread[t].pc \in Using => thread[t].bucket \in DOMAIN buckets

\* A thread without a request is a thread.
LEMMA IdleIsState == Idle \in ThreadState
  BY DEF Idle, ThreadState, Places, NoTicket

\* The number of a new bucket is the next one.
LEMMA NextBucket ==
  ASSUME NEW n \in Nat, DOMAIN buckets = 1 .. n
  PROVE  Cardinality(DOMAIN buckets) + 1 = n + 1
  <1>1. Cardinality(1 .. n) = IF 1 > n THEN 0 ELSE n - 1 + 1
    BY FS_Interval
  <1> QED  BY <1>1

\* What a step of one thread leaves of the others.
Unmoved(u) ==
    /\ thread'[u].pc = thread[u].pc /\ thread'[u].read = thread[u].read
    /\ thread'[u].ticket = thread[u].ticket /\ thread'[u].bucket = thread[u].bucket
    /\ thread'[u].amount = thread[u].amount /\ thread'[u].limiter = thread[u].limiter

\* A step writes the state of one thread; to others it at most says that the
\* tickets have changed.
LEMMA OneMoves ==
  ASSUME thread \in [Threads -> ThreadState], NEW t \in Threads, NEW r \in ThreadState,
         Becomes(t, r) \/ BecomesDisturbing(t, r)
  PROVE  /\ thread' \in [Threads -> ThreadState] /\ thread'[t] = r
         /\ \A u \in Threads \ {t} : Unmoved(u)
  <1>1. CASE Becomes(t, r)
    BY <1>1 DEF Becomes, Unmoved
  <1>2. CASE BecomesDisturbing(t, r)
    <2>1. \A u \in Threads : [thread[u] EXCEPT !.disturbed = TRUE] \in ThreadState
      BY DEF ThreadState
    <2>2. \A u \in Threads :
             LET d == [thread[u] EXCEPT !.disturbed = TRUE]
             IN  /\ d.pc = thread[u].pc /\ d.read = thread[u].read
                 /\ d.ticket = thread[u].ticket /\ d.bucket = thread[u].bucket
                 /\ d.amount = thread[u].amount /\ d.limiter = thread[u].limiter
      BY DEF ThreadState
    <2> QED  BY <1>2, <2>1, <2>2 DEF BecomesDisturbing, Unmoved
  <1> QED  BY <1>1, <1>2

\* The records threads become.
LEMMA NextStates ==
  ASSUME now \in Int, NEW r \in ThreadState
  PROVE  /\ \A p \in Places : /\ Going(r, p) \in ThreadState
                              /\ Going(r, p).pc = p
                              /\ Going(r, p).ticket = r.ticket /\ Going(r, p).read = r.read
                              /\ Going(r, p).bucket = r.bucket /\ Going(r, p).amount = r.amount
                              /\ Going(r, p).limiter = r.limiter
         /\ \A l \in Limiters, k \in Clients \cup Peers \cup {Nobody} :
               /\ Asking(r, l, k) \in ThreadState /\ Asking(r, l, k).pc = "look"
               /\ Asking(r, l, k).read = now
         /\ Opening(r) \in ThreadState /\ Opening(r).pc = "prune" /\ Opening(r).read = now
  <1>1. "look" \in Places /\ "prune" \in Places
    BY DEF Places
  <1>2. ASSUME NEW p \in Places
        PROVE  /\ Going(r, p) \in ThreadState /\ Going(r, p).pc = p
               /\ Going(r, p).ticket = r.ticket /\ Going(r, p).read = r.read
               /\ Going(r, p).bucket = r.bucket /\ Going(r, p).amount = r.amount
               /\ Going(r, p).limiter = r.limiter
    BY DEF Going, ThreadState
  <1>3. ASSUME NEW l \in Limiters, NEW k \in Clients \cup Peers \cup {Nobody}
        PROVE  /\ Asking(r, l, k) \in ThreadState /\ Asking(r, l, k).pc = "look"
               /\ Asking(r, l, k).read = now
    <2>1. l \in {"none", "auth", "command"}
      BY DEF Limiters
    <2> DEFINE g == Going(r, "look")
    <2>2. g \in ThreadState /\ g.pc = "look"
      BY <1>1, <1>2
    <2>3. [g EXCEPT !.limiter = l, !.key = k, !.read = now] \in ThreadState
          /\ [g EXCEPT !.limiter = l, !.key = k, !.read = now].pc = g.pc
          /\ [g EXCEPT !.limiter = l, !.key = k, !.read = now].read = now
      <3> HIDE DEF g
      <3> QED  BY <2>1, <2>2 DEF ThreadState
    <2> QED  BY <2>2, <2>3 DEF Asking
  <1>4. Opening(r) \in ThreadState /\ Opening(r).pc = "prune" /\ Opening(r).read = now
    <2> DEFINE g == Going(r, "prune")
    <2>1. g \in ThreadState /\ g.pc = "prune"
      BY <1>1, <1>2
    <2>2. /\ [g EXCEPT !.read = now] \in ThreadState /\ [g EXCEPT !.read = now].pc = g.pc
          /\ [g EXCEPT !.read = now].read = now
      <3> HIDE DEF g
      <3> QED  BY <2>1 DEF ThreadState
    <2> QED  BY <2>1, <2>2 DEF Opening
  <1> QED  BY <1>2, <1>3, <1>4

\* Shape of the threads, whatever their step.
LEMMA ThreadsKeepShape ==
  ASSUME Shape, NEW t \in Threads, NEW r \in ThreadState,
         Becomes(t, r) \/ BecomesDisturbing(t, r),
         DOMAIN buckets \subseteq DOMAIN buckets',
         r.pc \in Using => r.bucket \in DOMAIN buckets'
  PROVE  /\ thread' \in [Threads -> ThreadState]
         /\ \A u \in Threads : thread'[u].pc \in Using => thread'[u].bucket \in DOMAIN buckets'
  <1>1. thread' \in [Threads -> ThreadState] /\ thread'[t] = r
        /\ \A u \in Threads \ {t} : Unmoved(u)
    BY OneMoves DEF Shape
  <1> QED  BY <1>1 DEF Shape, Unmoved

-----------------------------------------------------------------------------
(* Shape is inductive.                                                     *)

\* A gateway that starts has the shape.
LEMMA InitShape == Init => Shape
  <1> SUFFICES ASSUME Init PROVE Shape
    OBVIOUS
  <1>1. thread \in [Threads -> ThreadState] /\ \A t \in Threads : thread[t].pc = "idle"
    BY IdleIsState DEF Init, Idle
  <1>2. DOMAIN buckets = 1 .. 0
    BY DEF Init
  <1>3. now \in Int /\ drawn \in Nat /\ returned \subseteq Int /\ tickets = {} /\ table = {}
    BY DEF Init
  <1>4. \A b \in DOMAIN buckets : buckets[b] \in Bucket
    BY <1>2
  <1> QED  BY <1>1, <1>2, <1>3, <1>4 DEF Shape, Using

\* A request leaves everything but its thread as it is.
LEMMA RequestMoves ==
  ASSUME Shape, Requested
  PROVE  /\ UNCHANGED <<clock, store, limiter>>
         /\ \E t \in Threads, r \in ThreadState : Becomes(t, r) /\ r.pc \in {"prune", "look"} /\ r.read = now
  <1> USE IdleIsState
  <1>1. now \in Int /\ "auth" \in Limiters /\ "command" \in Limiters
    BY DEF Shape, Limiters
  <1>2. ASSUME NEW p \in Peers, NEW c \in Clients \cup {Nobody}
        PROVE  By(c, p) \in ThreadState
    <2> DEFINE d == [Idle EXCEPT !.client = c]
    <2>1. d \in ThreadState
      BY IdleIsState DEF ThreadState
    <2>2. By(c, p) = [d EXCEPT !.peer = p]
      BY DEF By
    <2> HIDE DEF d
    <2>3. p \in Peers \cup {Nobody}
      OBVIOUS
    <2> QED  BY <2>1, <2>2, <2>3 DEF ThreadState
  <1>3. ASSUME NEW p \in Peers, NEW t \in Threads, Unauthenticated(t, p)
        PROVE  /\ UNCHANGED <<clock, store, limiter>>
               /\ \E r \in ThreadState : Becomes(t, r) /\ r.pc \in {"prune", "look"} /\ r.read = now
    <2>1. /\ Asking(By(Nobody, p), "auth", p) \in ThreadState
          /\ Asking(By(Nobody, p), "auth", p).pc = "look"
          /\ Asking(By(Nobody, p), "auth", p).read = now
      BY <1>1, <1>2, NextStates
    <2> QED  BY <1>3, <2>1 DEF Unauthenticated, Arrives
  <1>4. ASSUME NEW p \in Peers, NEW t \in Threads, NEW c \in Clients,
               IssueTicket(t, c, p) \/ SubmitCommand(t, c, p)
        PROVE  /\ UNCHANGED <<clock, store, limiter>>
               /\ \E r \in ThreadState : Becomes(t, r) /\ r.pc \in {"prune", "look"} /\ r.read = now
    <2>1. By(c, p) \in ThreadState
      BY <1>2
    <2>2. Opening(By(c, p)) \in ThreadState /\ Opening(By(c, p)).pc = "prune"
          /\ Opening(By(c, p)).read = now
      BY <1>1, <2>1, NextStates
    <2>6. c \in Clients \cup Peers \cup {Nobody}
      OBVIOUS
    <2>3. /\ Asking(By(c, p), "command", c) \in ThreadState
          /\ Asking(By(c, p), "command", c).pc = "look"
          /\ Asking(By(c, p), "command", c).read = now
      BY <1>1, <2>1, <2>6, NextStates
    <2>4. CASE IssueTicket(t, c, p)
      BY <2>2, <2>4 DEF IssueTicket, Arrives
    <2>5. CASE SubmitCommand(t, c, p)
      BY <2>3, <2>5 DEF SubmitCommand, Arrives
    <2> QED  BY <1>4, <2>4, <2>5
  <1>5. ASSUME NEW p \in Peers, NEW k \in returned \cup {Guess}, Handshake(k, p)
        PROVE  /\ UNCHANGED <<clock, store, limiter>>
               /\ \E t \in Threads, r \in ThreadState : Becomes(t, r) /\ r.pc \in {"prune", "look"} /\ r.read = now
    <2>1. k \in Int /\ "loop" \in Threads
      BY DEF Shape, Guess, Threads
    <2> DEFINE b == [By(Nobody, p) EXCEPT !.offered = k]
    <2>2. By(Nobody, p) \in ThreadState
      BY <1>2
    <2>3. b \in ThreadState
      BY <2>1, <2>2 DEF ThreadState
    <2>4. Opening(b) \in ThreadState /\ Opening(b).pc = "prune" /\ Opening(b).read = now
      BY <1>1, <2>3, NextStates
    <2> QED  BY <2>1, <2>4, <1>5 DEF Handshake, Arrives
  <1> QED  BY <1>3, <1>4, <1>5 DEF Requested

\* A step of TicketStore leaves the limiters as they are.
LEMMA StoreMoves ==
  ASSUME Shape, SizesOK, NEW t \in Threads, Tickets(t)
  PROVE  /\ UNCHANGED <<now, limiter>> /\ drawn' \in Nat /\ returned' \subseteq Int
         /\ \A e \in tickets' : e.ticket \in Int /\ e.expires \in Int
         /\ \E r \in ThreadState : /\ Becomes(t, r) \/ BecomesDisturbing(t, r)
                                   /\ r.pc \notin Using \cup {"create"}
                                   /\ r.read \in {thread[t].read, now, 0}
                                   /\ r.pc \in Inserting =>
                                        \/ Draw(t)
                                        \/ At(t, "evict") /\ r.ticket = thread[t].ticket
  <1> USE IdleIsState
  <1> DEFINE Goal ==
         /\ UNCHANGED <<now, limiter>> /\ drawn' \in Nat /\ returned' \subseteq Int
         /\ \A e \in tickets' : e.ticket \in Int /\ e.expires \in Int
         /\ \E r \in ThreadState : /\ Becomes(t, r) \/ BecomesDisturbing(t, r)
                                   /\ r.pc \notin Using \cup {"create"}
                                   /\ r.read \in {thread[t].read, now, 0}
                                   /\ r.pc \in Inserting =>
                                        \/ Draw(t)
                                        \/ At(t, "evict") /\ r.ticket = thread[t].ticket
  <1>0. ASSUME NEW r \in ThreadState,
               Becomes(t, r) \/ BecomesDisturbing(t, r), r.pc \notin Using \cup {"create"},
               r.read \in {thread[t].read, now, 0},
               r.pc \in Inserting => Draw(t) \/ (At(t, "evict") /\ r.ticket = thread[t].ticket),
               UNCHANGED <<now, limiter>>, drawn' \in Nat, returned' \subseteq Int,
               \A e \in tickets' : e.ticket \in Int /\ e.expires \in Int
        PROVE  Goal
    BY <1>0
  <1> HIDE DEF Goal
  <1>4. Goal
    <2> DEFINE r == thread[t]
    <2>1. r \in ThreadState /\ \A p \in Places : /\ Going(r, p) \in ThreadState /\ Going(r, p).pc = p
                                              /\ Going(r, p).read = r.read
      BY NextStates DEF Shape
    <2>2. r.doomed \subseteq Int /\ r.ticket \in Int /\ r.offered \in Int /\ r.read \in Int
          /\ r.peer \in Peers \cup {Nobody}
      BY <2>1 DEF ThreadState
    <2>3. Idle.pc = "idle" /\ Idle.read = 0
      BY DEF Idle
    <2>14. now \in Int /\ "auth" \in Limiters /\ r.peer \in Clients \cup Peers \cup {Nobody}
      BY <2>2 DEF Shape, Limiters
    <2>4. /\ Asking(r, "auth", r.peer) \in ThreadState
          /\ Asking(r, "auth", r.peer).pc = "look" /\ Asking(r, "auth", r.peer).read = now
      <3> HIDE DEF r
      <3> QED  BY <2>14, <2>1, NextStates
    <2>5. CASE Prune(t)
      <3> DEFINE g == Going(r, "pruning")
                 gone == {e.ticket : e \in {x \in tickets : x.expires <= r.read}}
                 s == [g EXCEPT !.disturbed = FALSE, !.doomed = gone]
      <3>1. gone \in SUBSET Int
        BY DEF Shape
      <3>2. g \in ThreadState /\ g.pc = "pruning" /\ g.read = r.read
        BY <2>1 DEF Places
      <3>3. s \in ThreadState /\ s.pc = "pruning" /\ s.read = g.read
        <4> HIDE DEF g, gone
        <4> QED  BY <3>1, <3>2 DEF ThreadState
      <3>4. Becomes(t, s) /\ UNCHANGED <<now, limiter, drawn, returned, tickets>>
        BY <2>5 DEF Prune, clock, store
      <3>5. s.pc \notin Using \cup {"create"} /\ s.pc \notin Inserting /\ s.read = r.read
        BY <3>2, <3>3 DEF Using, Inserting
      <3> HIDE DEF s
      <3> QED  BY <3>3, <3>4, <3>5, <1>0 DEF Shape
    <2>6. CASE Pruned(t)
      <3>1. /\ Going(r, "deleting") \in ThreadState /\ Going(r, "deleting").pc = "deleting"
            /\ Going(r, "deleting").read = r.read
        BY <2>1 DEF Places
      <3>2. CASE r.disturbed
        BY <3>2, <2>3, <2>6, <1>0 DEF Pruned, Ends, Shape, clock, store, Using, Inserting
      <3>3. CASE ~ r.disturbed
        BY <3>1, <3>3, <2>6, <1>0 DEF Pruned, Shape, clock, store, Using, Inserting
      <3> QED  BY <3>2, <3>3
    <2>7. ASSUME NEW k \in r.doomed, DeleteExpired(t, k)
          PROVE  Goal
      <3> DEFINE s == [r EXCEPT !.doomed = @ \ {k}]
      <3>1. s \in ThreadState /\ s.pc = r.pc /\ s.read = r.read
        BY <2>1 DEF ThreadState
      <3>2. s.pc = "deleting"
        BY <3>1, <2>7 DEF DeleteExpired, At
      <3>3. CASE k \in Stored
        BY <3>1, <3>2, <3>3, <2>7, <1>0 DEF DeleteExpired, Shape, clock, history, Using, Inserting
      <3>4. CASE k \notin Stored
        BY <3>4, <2>3, <2>7, <1>0 DEF DeleteExpired, Ends, Shape, clock, history, Using, Inserting
      <3> QED  BY <3>3, <3>4
    <2>8. CASE Draw(t)
      <3> DEFINE place == IF Cardinality(tickets) >= MaxOutstanding THEN "evict" ELSE "insert"
                 s == [r EXCEPT !.ticket = drawn + 1, !.pc = place]
      <3>1. place \in Places /\ place \in {"evict", "insert"} /\ drawn + 1 \in Nat
        BY DEF Places, Shape
      <3>2. s \in ThreadState /\ s.pc = place /\ s.read = r.read
        <4> DEFINE k == drawn + 1
        <4>1. k \in Int /\ r \in ThreadState
          BY <2>1, <3>1
        <4> HIDE DEF place, r, k
        <4>2. [r EXCEPT !.ticket = k, !.pc = place] \in ThreadState
              /\ [r EXCEPT !.ticket = k, !.pc = place].pc = place
              /\ [r EXCEPT !.ticket = k, !.pc = place].read = r.read
          BY <3>1, <4>1 DEF ThreadState
        <4> QED  BY <4>2 DEF k
      <3>3. /\ Becomes(t, s) /\ drawn' = drawn + 1
            /\ UNCHANGED <<now, limiter, tickets, returned>>
        BY <2>8 DEF Draw, clock
      <3>4. s.pc \notin Using \cup {"create"}
        <4> HIDE DEF place, s
        <4> QED  BY <3>1, <3>2 DEF Using
      <3> HIDE DEF s
      <3> QED  BY <2>8, <3>1, <3>2, <3>3, <3>4, <1>0 DEF Shape
    <2>9. CASE Evict(t)
      <3>1. /\ Going(r, "insert") \in ThreadState /\ Going(r, "insert").pc = "insert"
            /\ Going(r, "insert").ticket = r.ticket /\ Going(r, "insert").read = r.read
        BY <2>1, NextStates DEF Places, Shape
      <3>2. CASE tickets = {}
        BY <3>2, <2>3, <2>9, <1>0 DEF Evict, Ends, Shape, clock, history, Using, Inserting
      <3>3. CASE tickets # {}
        BY <3>1, <3>3, <2>9, <1>0 DEF Evict, Shape, clock, history, Using, Inserting
      <3> QED  BY <3>2, <3>3
    <2>10. CASE Insert(t)
      <3>1. \A e \in tickets' : e.ticket \in Int /\ e.expires \in Int
        BY <2>2, <2>10, SizesOK DEF Insert, Shape, SizesOK
      <3> QED  BY <3>1, <2>2, <2>3, <2>10, <1>0 DEF Insert, Shape, clock, history, Using, Inserting
    <2>11. CASE Walk(t)
      <3> DEFINE g == Going(r, "walking")
                 k == IF r.offered \in Stored THEN r.offered ELSE NoTicket
                 s == [g EXCEPT !.disturbed = FALSE, !.ticket = k]
      <3>1. k \in Int
        BY <2>2 DEF NoTicket
      <3>2. g \in ThreadState /\ g.pc = "walking" /\ g.read = r.read
        BY <2>1 DEF Places
      <3>3. s \in ThreadState /\ s.pc = "walking" /\ s.read = g.read
        <4> HIDE DEF g, k
        <4> QED  BY <3>1, <3>2 DEF ThreadState
      <3>4. Becomes(t, s) /\ UNCHANGED <<now, limiter, drawn, returned, tickets>>
        BY <2>11 DEF Walk, clock, store
      <3>5. s.pc \notin Using \cup {"create"} /\ s.pc \notin Inserting /\ s.read = r.read
        BY <3>2, <3>3 DEF Using, Inserting
      <3> HIDE DEF s
      <3> QED  BY <3>3, <3>4, <3>5, <1>0 DEF Shape
    <2>12. CASE Walked(t)
      <3>1. /\ Going(r, "redeem") \in ThreadState /\ Going(r, "redeem").pc = "redeem"
            /\ Going(r, "redeem").read = r.read
        BY <2>1 DEF Places
      <3>2. Ends(t) \/ Becomes(t, Asking(r, "auth", r.peer)) \/ Becomes(t, Going(r, "redeem"))
        BY <2>12 DEF Walked
      <3>3. UNCHANGED <<now, limiter, drawn, returned, tickets>>
        BY <2>12 DEF Walked, clock, store
      <3> QED  BY <3>1, <3>2, <3>3, <2>3, <2>4, <1>0 DEF Ends, Shape, Using, Inserting
    <2>13. CASE Redeem(t)
      <3>1. \/ Ends(t) \/ BecomesDisturbing(t, Idle)
            \/ BecomesDisturbing(t, Asking(r, "auth", r.peer))
        BY <2>13 DEF Redeem
      <3>2. UNCHANGED <<now, limiter, drawn, returned>> /\ tickets' \subseteq tickets
        BY <2>13 DEF Redeem, clock
      <3> QED  BY <3>1, <3>2, <2>3, <2>4, <1>0 DEF Ends, Shape, Using, Inserting
    <2> QED  BY <2>5, <2>6, <2>7, <2>8, <2>9, <2>10, <2>11, <2>12, <2>13 DEF Tickets
  <1> QED  BY <1>4 DEF Goal

\* Requests, TicketStore.issue and redeem keep the shape.
LEMMA StoreKeepsShape ==
  ASSUME Shape, SizesOK, Requested \/ \E t \in Threads : Tickets(t)
  PROVE  Shape'
  <1>1. /\ UNCHANGED <<now, limiter>> /\ drawn' \in Nat /\ returned' \subseteq Int
        /\ \A e \in tickets' : e.ticket \in Int /\ e.expires \in Int
        /\ \E t \in Threads, r \in ThreadState :
              (Becomes(t, r) \/ BecomesDisturbing(t, r)) /\ r.pc \notin Using
    <2>1. CASE Requested
      <3>1. \A r \in ThreadState : r.pc \in {"prune", "look"} => r.pc \notin Using
        BY DEF Using
      <3> QED  BY <2>1, <3>1, RequestMoves DEF Shape, clock, store
    <2>2. CASE \E t \in Threads : Tickets(t)
      BY <2>2, StoreMoves
    <2> QED  BY <2>1, <2>2
  <1>2. DOMAIN buckets' = DOMAIN buckets /\ buckets' = buckets /\ table' = table
    BY <1>1 DEF limiter
  <1>3. /\ thread' \in [Threads -> ThreadState]
        /\ \A u \in Threads : thread'[u].pc \in Using => thread'[u].bucket \in DOMAIN buckets'
    BY <1>1, <1>2, ThreadsKeepShape
  <1> QED  BY <1>1, <1>2, <1>3 DEF Shape

\* A _Bucket by its fields.
LEMMA BucketIs ==
  ASSUME NEW tokens \in Int, NEW updated \in Int, NEW taken \in Nat, NEW refused \in BOOLEAN
  PROVE  [tokens |-> tokens, updated |-> updated, taken |-> taken, refused |-> refused]
           \in Bucket
  BY DEF Bucket

\* What a thread is going to refill or store.
Knowing(r, place, a) == [Going(r, place) EXCEPT !.amount = a]

\* RateLimiter.allow keeps the shape.
LEMMA AllowKeepsShape ==
  ASSUME Shape, SizesOK, NEW t \in Threads, Allow(t)
  PROVE  Shape'
  <1> USE IdleIsState
  <1> DEFINE r == thread[t]
  <1>1. r \in ThreadState /\ \A p \in Places : Going(r, p) \in ThreadState
                                                /\ Going(r, p).pc = p
                                                /\ Going(r, p).bucket = r.bucket
    BY NextStates DEF Shape
  <1>2. r.pc \in Using => r.bucket \in DOMAIN buckets
    BY DEF Shape
  <1>3. Idle.pc = "idle"
    BY DEF Idle
  <1>4. PICK n \in Nat : DOMAIN buckets = 1 .. n
    BY DEF Shape
  <1>5. /\ \A e \in table : e.bucket \in DOMAIN buckets
        /\ \A b \in DOMAIN buckets : buckets[b] \in Bucket
    BY DEF Shape
  <1>6. ASSUME NEW s \in ThreadState, Becomes(t, s),
               s.pc \in Using => s.bucket \in DOMAIN buckets',
               UNCHANGED <<clock, store>>,
               DOMAIN buckets \subseteq DOMAIN buckets',
               \E m \in Nat : DOMAIN buckets' = 1 .. m,
               \A b \in DOMAIN buckets' : buckets'[b] \in Bucket,
               \A e \in table' : e.bucket \in DOMAIN buckets'
        PROVE  Shape'
    <2>1. /\ thread' \in [Threads -> ThreadState]
          /\ \A u \in Threads : thread'[u].pc \in Using => thread'[u].bucket \in DOMAIN buckets'
      BY <1>6, ThreadsKeepShape
    <2>2. now' = now /\ drawn' = drawn /\ returned' = returned /\ tickets' = tickets
      BY <1>6 DEF clock, store
    <2> QED  BY <1>6, <2>1, <2>2 DEF Shape
  <1>7. CASE Look(t)
    <2>1. UNCHANGED <<clock, store, table, buckets>>
      BY <1>7 DEF Look, limiter
    <2>2. CASE Becomes(t, Going(r, "room"))
      <3>1. Going(r, "room") \in ThreadState /\ Going(r, "room").pc \notin Using
        BY <1>1 DEF Places, Using
      <3> QED  BY <2>1, <2>2, <3>1, <1>4, <1>5, <1>6
    <2>3. ASSUME NEW e \in Asked(t), Becomes(t, [Going(r, "touch") EXCEPT !.bucket = e.bucket])
          PROVE  Shape'
      <3> DEFINE g == Going(r, "touch")
      <3>1. g \in ThreadState
        BY <1>1 DEF Places
      <3>2. e.bucket \in DOMAIN buckets /\ e.bucket \in Nat
        BY <1>4, <1>5 DEF Asked, EntryFor
      <3>3. [g EXCEPT !.bucket = e.bucket] \in ThreadState
            /\ [g EXCEPT !.bucket = e.bucket].bucket = e.bucket
        <4> HIDE DEF g
        <4> QED  BY <3>1, <3>2 DEF ThreadState
      <3> HIDE DEF g
      <3> QED  BY <2>1, <2>3, <3>2, <3>3, <1>4, <1>5, <1>6 DEF g
    <2> QED  BY <1>7, <2>2, <2>3 DEF Look
  <1>8. CASE Room(t)
    <2> DEFINE place == IF Cardinality(Entries(r.limiter)) >= MaxKeys THEN "drop" ELSE "create"
    <2>1. place \in Places /\ place \notin Using
      BY DEF Places, Using
    <2>2. Becomes(t, Going(r, place)) /\ UNCHANGED <<clock, store, table, buckets>>
      BY <1>8 DEF Room, limiter
    <2>3. Going(r, place) \in ThreadState /\ Going(r, place).pc \notin Using
      <3> HIDE DEF place, r
      <3> QED  BY <1>1, <2>1
    <2> QED  BY <2>2, <2>3, <1>4, <1>5, <1>6
  <1>9. CASE Drop(t)
    <2>1. Going(r, "create") \in ThreadState /\ Going(r, "create").pc \notin Using
      BY <1>1 DEF Places, Using
    <2>2. UNCHANGED <<clock, store, buckets>> /\ table' \subseteq table
      BY <1>9 DEF Drop
    <2>3. Becomes(t, Idle) \/ Becomes(t, Going(r, "create"))
      BY <1>9 DEF Drop, Ends
    <2> QED  BY <2>1, <2>2, <2>3, <1>3, <1>4, <1>5, <1>6 DEF Using
  <1>10. CASE Create(t)
    <2>1. Cardinality(DOMAIN buckets) + 1 = n + 1
      BY <1>4, NextBucket
    <2>2. DOMAIN buckets' = 1 .. (n + 1)
      BY <1>10, <2>1, <1>4 DEF Create
    <2>3. \A e \in table' : e \in table \/ e.bucket = n + 1
      BY <1>10, <2>1 DEF Create, Entry
    <2>4. \A e \in table' : e.bucket \in DOMAIN buckets'
      BY <2>2, <2>3, <1>4, <1>5
    <2>5. Becomes(t, Idle) /\ UNCHANGED <<clock, store>>
      BY <1>10 DEF Create, Ends
    <2>6. Burst \in Nat /\ Cost \in Nat /\ r.read \in Int
      BY <1>1 DEF SizesOK, ThreadState
    <2>7. (Burst - 1) * Cost \in Int
      BY <2>6
    <2>8. \A b \in DOMAIN buckets' :
             buckets'[b] = IF b = n + 1 THEN [tokens |-> (Burst - 1) * Cost, updated |-> r.read,
                                              taken |-> 1, refused |-> FALSE]
                           ELSE buckets[b]
      BY <1>10, <2>1, <2>2, <1>4 DEF Create
    <2>9. ASSUME NEW b \in DOMAIN buckets' PROVE buckets'[b] \in Bucket
      <3>1. CASE b = n + 1
        <4>1. 1 \in Nat /\ FALSE \in BOOLEAN
          OBVIOUS
        <4> HIDE DEF r
        <4> DEFINE tokens == (Burst - 1) * Cost
        <4>2. tokens \in Int
          BY <2>7
        <4>3. buckets'[b] = [tokens |-> tokens, updated |-> r.read, taken |-> 1, refused |-> FALSE]
          BY <3>1, <2>8
        <4> HIDE DEF tokens
        <4> QED  BY <4>1, <4>2, <4>3, <2>6, BucketIs
      <3>2. CASE b # n + 1
        <4>1. b \in DOMAIN buckets
          BY <3>2, <2>2, <1>4
        <4> QED  BY <4>1, <3>2, <2>8, <1>5
      <3> QED  BY <3>1, <3>2
    <2> QED  BY <2>2, <2>4, <2>5, <2>9, <1>3, <1>4, <1>6 DEF Using
  <1>11. CASE Touch(t)
    <2>1. r.pc \in Using
      BY <1>11 DEF Touch, At, Using
    <2>2. Going(r, "elapse") \in ThreadState /\ Going(r, "elapse").bucket \in DOMAIN buckets
      BY <1>1, <1>2, <2>1 DEF Places
    <2>3. UNCHANGED <<clock, store, buckets>>
          /\ \A e \in table' : \E f \in table : e.bucket = f.bucket
      BY <1>11 DEF Touch, Entry, Asked, EntryFor
    <2>4. Becomes(t, Idle) \/ Becomes(t, Going(r, "elapse"))
      BY <1>11 DEF Touch, Ends
    <2>5. \A e \in table' : e.bucket \in DOMAIN buckets'
      BY <2>3, <1>5
    <2> QED  BY <2>2, <2>3, <2>4, <2>5, <1>3, <1>4, <1>5, <1>6 DEF Using
  <1>12. CASE Elapse(t) \/ Refill(t)
    <2>1. r.pc \in Using /\ UNCHANGED <<clock, store, table, buckets>>
      BY <1>12 DEF Elapse, Refill, At, Using, limiter
    <2>2. r.bucket \in DOMAIN buckets /\ r.read \in Int /\ r.amount \in Int
      BY <2>1, <1>1, <1>2 DEF ThreadState
    <2>3. buckets[r.bucket].tokens \in Int /\ buckets[r.bucket].updated \in Int
      BY <2>2, <1>5 DEF Bucket
    <2>4. Burst * Cost \in Int
      BY DEF SizesOK
    <2>5. ASSUME NEW place \in Using, NEW a \in Int, Becomes(t, Knowing(r, place, a))
          PROVE  Shape'
      <3> DEFINE g == Going(r, place)
      <3>1. g \in ThreadState /\ g.bucket = r.bucket
        BY <1>1 DEF Places, Using
      <3>2. Knowing(r, place, a) \in ThreadState /\ Knowing(r, place, a).bucket = g.bucket
        <4>1. Knowing(r, place, a) = [g EXCEPT !.amount = a]
          BY DEF Knowing
        <4> HIDE DEF g
        <4> QED  BY <3>1, <4>1 DEF ThreadState
      <3> QED  BY <2>1, <2>2, <2>5, <3>1, <3>2, <1>4, <1>5, <1>6
    <2>6. CASE Elapse(t)
      <3> DEFINE a == Largest(0, r.read - buckets[r.bucket].updated)
      <3>1. a \in Int /\ "refill" \in Using
        BY <2>2, <2>3 DEF Largest, Using
      <3>2. Becomes(t, Knowing(r, "refill", a))
        BY <2>6 DEF Elapse, Knowing
      <3> HIDE DEF a
      <3> QED  BY <3>1, <3>2, <2>5
    <2>7. CASE Refill(t)
      <3> DEFINE a == Smallest(Burst * Cost, buckets[r.bucket].tokens + r.amount)
      <3>1. a \in Int /\ "store" \in Using
        BY <2>2, <2>3, <2>4 DEF Smallest, Using
      <3>2. Going(r, "store").amount = r.amount
        BY <1>1 DEF Going, ThreadState
      <3>3. Becomes(t, Knowing(r, "store", a))
        BY <2>7, <3>2 DEF Refill, Knowing
      <3> HIDE DEF a
      <3> QED  BY <3>1, <3>3, <2>5
    <2> QED  BY <1>12, <2>6, <2>7
  <1>13. CASE Store(t)
    <2>1. DOMAIN buckets' = DOMAIN buckets /\ UNCHANGED <<clock, store, table>>
      BY <1>13 DEF Store
    <2>2. Becomes(t, Idle)
      BY <1>13 DEF Store, Ends
    <2>3. r.amount \in Int /\ r.read \in Int /\ Cost \in Int
      BY <1>1 DEF ThreadState, SizesOK
    <2>4. \A b \in DOMAIN buckets' : buckets'[b] \in Bucket
      <3> SUFFICES ASSUME NEW b \in DOMAIN buckets PROVE buckets'[b] \in Bucket
        BY <2>1
      <3>1. buckets[b].taken \in Nat /\ buckets[b].refused \in BOOLEAN /\ buckets[b] \in Bucket
        BY <1>5 DEF Bucket
      <3>2. \/ buckets'[b] = buckets[b]
            \/ buckets'[b] = [tokens |-> r.amount, updated |-> r.read,
                              taken |-> buckets[b].taken, refused |-> TRUE]
            \/ buckets'[b] = [tokens |-> r.amount - Cost, updated |-> r.read,
                              taken |-> buckets[b].taken + 1, refused |-> buckets[b].refused]
        BY <1>13 DEF Store
      <3>3. r.amount - Cost \in Int /\ buckets[b].taken + 1 \in Nat /\ TRUE \in BOOLEAN
        BY <2>3, <3>1
      <3> DEFINE left == r.amount - Cost
                 more == buckets[b].taken + 1
      <3>4. left \in Int /\ more \in Nat
        BY <3>3
      <3> HIDE DEF r, left, more
      <3>5. [tokens |-> r.amount, updated |-> r.read, taken |-> buckets[b].taken,
             refused |-> TRUE] \in Bucket
        BY <2>3, <3>1, <3>3, BucketIs
      <3>6. [tokens |-> left, updated |-> r.read, taken |-> more,
             refused |-> buckets[b].refused] \in Bucket
        BY <2>3, <3>1, <3>4, BucketIs
      <3> QED  BY <3>1, <3>2, <3>5, <3>6 DEF left, more
    <2> QED  BY <2>1, <2>2, <2>4, <1>3, <1>4, <1>5, <1>6 DEF Using
  <1> QED  BY <1>7, <1>8, <1>9, <1>10, <1>11, <1>12, <1>13 DEF Allow

\* Every step keeps the shape.
LEMMA StepShape == ASSUME Shape, SizesOK, [Next]_vars PROVE Shape'
  <1>1. CASE \E n \in 0 .. MaxTime : SetClock(n)
    <2>1. now' \in Int /\ UNCHANGED <<thread, store, limiter>>
      BY <1>1 DEF SetClock, SizesOK
    <2> QED  BY <2>1 DEF Shape, store, limiter
  <1>2. CASE UNCHANGED vars
    BY <1>2 DEF Shape, vars, clock, store, limiter
  <1> QED  BY <1>1, <1>2, StoreKeepsShape, AllowKeepsShape DEF Next

\* Threads only use buckets that exist (RateLimiter.allow keeps a reference to
\* one that another thread may drop from the mapping), and all stay what they are.
LEMMA ShapeHolds == Spec => []Shape
  <1>1. SizesOK
    BY SizesOK
  <1> QED  BY <1>1, InitShape, StepShape, PTL DEF Spec

-----------------------------------------------------------------------------
(* Nobody is refused early: a bucket holds a burst less what it let pass.  *)

BucketsInv ==
    /\ \A b \in DOMAIN buckets :
          /\ Burst * Cost <= buckets[b].tokens + buckets[b].taken * Cost
          /\ buckets[b].refused => buckets[b].taken >= Burst
    /\ \A t \in Threads :
          /\ At(t, "refill") => thread[t].amount >= 0
          /\ At(t, "store") => Burst * Cost <= thread[t].amount
                                             + buckets[thread[t].bucket].taken * Cost

\* With less than the cost of a request, at least a burst has passed.
LEMMA TooFew ==
  ASSUME NEW n \in Nat, NEW k \in Nat, NEW cost \in Nat \ {0}, NEW a \in Int,
         n * cost <= a + k * cost, a < cost
  PROVE  k >= n
  <1>1. SUFFICES ASSUME k + 1 <= n PROVE FALSE
    OBVIOUS
  <1>2. (k + 1) * cost <= n * cost
    <2>1. n * cost = (k + 1) * cost + (n - (k + 1)) * cost /\ (n - (k + 1)) * cost >= 0
      <3>1. n - (k + 1) \in Nat
        BY <1>1
      <3> QED  BY <3>1
    <2> QED  BY <2>1
  <1>3. (k + 1) * cost = k * cost + cost
    OBVIOUS
  <1> QED  BY <1>2, <1>3

\* A step that leaves the buckets as they are, of a thread that then neither
\* refills nor stores.
LEMMA BucketsUntouched ==
  ASSUME Shape, BucketsInv, NEW t \in Threads, NEW r \in ThreadState,
         Becomes(t, r) \/ BecomesDisturbing(t, r), r.pc \notin {"refill", "store"},
         buckets' = buckets
  PROVE  BucketsInv'
  <1>1. thread'[t] = r /\ \A u \in Threads \ {t} : Unmoved(u)
    BY OneMoves DEF Shape
  <1> QED  BY <1>1 DEF BucketsInv, At, Unmoved

\* RateLimiter.allow: what a thread has read of a bucket and is about to store is
\* no less than a burst without what the bucket has let pass by then.
LEMMA AllowKeepsBuckets ==
  ASSUME Shape, SizesOK, BucketsInv, NEW t \in Threads, Allow(t)
  PROVE  BucketsInv'
  <1> USE IdleIsState
  <1> DEFINE r == thread[t]
  <1>1. r \in ThreadState /\ \A p \in Places : Going(r, p) \in ThreadState
                                                /\ Going(r, p).pc = p
                                                /\ Going(r, p).bucket = r.bucket
    BY NextStates DEF Shape
  <1>2. r.pc \in Using => r.bucket \in DOMAIN buckets
    BY DEF Shape
  <1>3. Idle.pc \notin {"refill", "store"}
    BY DEF Idle
  <1>4. PICK n \in Nat : DOMAIN buckets = 1 .. n
    BY DEF Shape
  <1>5. \A b \in DOMAIN buckets : buckets[b] \in Bucket
    BY DEF Shape
  <1>6. Burst \in Nat \ {0} /\ Cost \in Nat \ {0}
    BY DEF SizesOK
  <1>7. \A u \in Threads :
           /\ thread[u].pc \in Using => thread[u].bucket \in DOMAIN buckets
           /\ thread[u].amount \in Int
    BY DEF Shape, ThreadState
  <1>8. ASSUME NEW s \in ThreadState, Becomes(t, s)
        PROVE  thread'[t] = s /\ \A u \in Threads \ {t} : Unmoved(u)
    BY <1>8, OneMoves DEF Shape
  <1>9. CASE Look(t)
    <2>1. CASE Becomes(t, Going(r, "room"))
      <3>1. Going(r, "room") \in ThreadState /\ Going(r, "room").pc = "room"
        BY <1>1 DEF Places
      <3> QED  BY <2>1, <3>1, <1>9, BucketsUntouched DEF Look, limiter
    <2>2. ASSUME NEW e \in Asked(t), Becomes(t, [Going(r, "touch") EXCEPT !.bucket = e.bucket])
          PROVE  BucketsInv'
      <3> DEFINE g == Going(r, "touch")
      <3>1. g \in ThreadState /\ g.pc = "touch"
        BY <1>1 DEF Places
      <3>2. e.bucket \in Nat
        BY <1>4 DEF Shape, Asked, EntryFor
      <3>3. [g EXCEPT !.bucket = e.bucket] \in ThreadState
            /\ [g EXCEPT !.bucket = e.bucket].pc = "touch"
        <4> HIDE DEF g
        <4> QED  BY <3>1, <3>2 DEF ThreadState
      <3> HIDE DEF g
      <3> QED  BY <1>9, <2>2, <3>3, BucketsUntouched DEF g, Look, limiter
    <2> QED  BY <1>9, <2>1, <2>2 DEF Look
  <1>10. CASE Room(t)
    <2> DEFINE place == IF Cardinality(Entries(r.limiter)) >= MaxKeys THEN "drop" ELSE "create"
    <2>1. place \in Places /\ place \notin {"refill", "store"}
      BY DEF Places
    <2>2. Becomes(t, Going(r, place)) /\ buckets' = buckets
      BY <1>10 DEF Room, limiter
    <2>3. Going(r, place) \in ThreadState /\ Going(r, place).pc \notin {"refill", "store"}
      <3> HIDE DEF place, r
      <3> QED  BY <1>1, <2>1
    <2> QED  BY <2>2, <2>3, BucketsUntouched
  <1>11. CASE Drop(t)
    <2>1. Going(r, "create") \in ThreadState /\ Going(r, "create").pc = "create"
      BY <1>1 DEF Places
    <2>2. (Becomes(t, Idle) \/ Becomes(t, Going(r, "create"))) /\ buckets' = buckets
      BY <1>11 DEF Drop, Ends
    <2> QED  BY <2>1, <2>2, <1>3, BucketsUntouched
  <1>12. CASE Touch(t)
    <2>1. Going(r, "elapse") \in ThreadState /\ Going(r, "elapse").pc = "elapse"
      BY <1>1 DEF Places
    <2>2. (Becomes(t, Idle) \/ Becomes(t, Going(r, "elapse"))) /\ buckets' = buckets
      BY <1>12 DEF Touch, Ends
    <2> QED  BY <2>1, <2>2, <1>3, BucketsUntouched
  <1>13. CASE Create(t)
    <2>1. Cardinality(DOMAIN buckets) + 1 = n + 1
      BY <1>4, NextBucket
    <2>2. /\ DOMAIN buckets' = 1 .. (n + 1)
          /\ buckets'[n + 1].tokens = (Burst - 1) * Cost /\ buckets'[n + 1].taken = 1
          /\ ~ buckets'[n + 1].refused
          /\ \A b \in 1 .. n : buckets'[b] = buckets[b]
      BY <1>13, <2>1, <1>4 DEF Create
    <2>3. Burst * Cost <= (Burst - 1) * Cost + 1 * Cost
      BY <1>6
    <2>4. thread'[t] = Idle /\ \A u \in Threads \ {t} : Unmoved(u)
      BY <1>13, <1>8 DEF Create, Ends
    <2>5. ASSUME NEW b \in DOMAIN buckets'
          PROVE  /\ Burst * Cost <= buckets'[b].tokens + buckets'[b].taken * Cost
                 /\ buckets'[b].refused => buckets'[b].taken >= Burst
      <3>1. CASE b = n + 1
        BY <3>1, <2>2, <2>3
      <3>2. CASE b # n + 1
        <4>1. b \in DOMAIN buckets /\ buckets'[b] = buckets[b]
          BY <3>2, <2>2, <1>4
        <4> QED  BY <4>1 DEF BucketsInv
      <3> QED  BY <3>1, <3>2
    <2>6. ASSUME NEW u \in Threads
          PROVE  /\ At(u, "refill")' => thread'[u].amount >= 0
                 /\ At(u, "store")' => Burst * Cost <= thread'[u].amount
                                             + buckets'[thread'[u].bucket].taken * Cost
      <3>1. CASE u = t
        BY <3>1, <2>4, <1>3 DEF At
      <3>2. CASE u # t
        <4>1. Unmoved(u)
          BY <3>2, <2>4
        <4>2. At(u, "store") => buckets'[thread[u].bucket] = buckets[thread[u].bucket]
          BY <2>2, <1>7, <1>4 DEF At, Using
        <4> QED  BY <4>1, <4>2 DEF BucketsInv, At, Unmoved
      <3> QED  BY <3>1, <3>2
    <2> QED  BY <2>5, <2>6 DEF BucketsInv
  <1>14. CASE Elapse(t) \/ Refill(t)
    <2>1. r.pc \in Using /\ buckets' = buckets
      BY <1>14 DEF Elapse, Refill, At, Using, limiter
    <2>2. r.bucket \in DOMAIN buckets /\ r.read \in Int /\ r.amount \in Int
      BY <2>1, <1>1, <1>2 DEF ThreadState
    <2>3. buckets[r.bucket].tokens \in Int /\ buckets[r.bucket].updated \in Int
          /\ buckets[r.bucket].taken \in Nat
      BY <2>2, <1>5 DEF Bucket
    <2>4. ASSUME NEW place \in {"refill", "store"}, NEW a \in Int,
                 Becomes(t, Knowing(r, place, a)),
                 place = "refill" => a >= 0,
                 place = "store" => Burst * Cost <= a + buckets[r.bucket].taken * Cost
          PROVE  BucketsInv'
      <3> DEFINE g == Going(r, place)
      <3>1. g \in ThreadState /\ g.bucket = r.bucket /\ g.pc = place
        BY <1>1 DEF Places
      <3>2. /\ Knowing(r, place, a) \in ThreadState /\ Knowing(r, place, a).bucket = g.bucket
            /\ Knowing(r, place, a).pc = g.pc /\ Knowing(r, place, a).amount = a
        <4>1. Knowing(r, place, a) = [g EXCEPT !.amount = a]
          BY DEF Knowing
        <4> HIDE DEF g
        <4> QED  BY <3>1, <4>1 DEF ThreadState
      <3>3. thread'[t] = Knowing(r, place, a) /\ \A u \in Threads \ {t} : Unmoved(u)
        BY <2>4, <3>2, <1>8
      <3> HIDE DEF r, g
      <3>4. \A u \in Threads \ {t} :
               /\ At(u, "refill")' => thread'[u].amount >= 0
               /\ At(u, "store")' => Burst * Cost <= thread'[u].amount
                                             + buckets'[thread'[u].bucket].taken * Cost
        BY <3>3, <2>1 DEF BucketsInv, At, Unmoved
      <3>5. /\ At(t, "refill")' => thread'[t].amount >= 0
            /\ At(t, "store")' => Burst * Cost <= thread'[t].amount
                                             + buckets'[thread'[t].bucket].taken * Cost
        BY <3>1, <3>2, <3>3, <2>1, <2>4 DEF At
      <3> QED  BY <3>4, <3>5, <2>1 DEF BucketsInv
    <2>5. CASE Elapse(t)
      <3> DEFINE a == Largest(0, r.read - buckets[r.bucket].updated)
      <3>1. a \in Int /\ a >= 0
        BY <2>2, <2>3 DEF Largest
      <3>2. Becomes(t, Knowing(r, "refill", a))
        BY <2>5 DEF Elapse, Knowing
      <3> HIDE DEF a, r
      <3> QED  BY <3>1, <3>2, <2>4
    <2>6. CASE Refill(t)
      <3> DEFINE a == Smallest(Burst * Cost, buckets[r.bucket].tokens + r.amount)
                 full == Burst * Cost
                 passed == buckets[r.bucket].taken * Cost
      <3>1. full \in Int /\ passed \in Int /\ passed >= 0
        BY <1>6, <2>3
      <3>2. r.amount >= 0
        BY <2>6 DEF Refill, BucketsInv
      <3>3. full <= buckets[r.bucket].tokens + passed
        BY <2>2 DEF BucketsInv
      <3>4. a \in Int /\ full <= a + passed
        <4> HIDE DEF full, passed, r
        <4>1. a = Smallest(full, buckets[r.bucket].tokens + r.amount)
          BY DEF full
        <4> HIDE DEF a
        <4> QED  BY <3>1, <3>2, <3>3, <4>1, <2>2, <2>3 DEF Smallest
      <3>5. Going(r, "store").amount = r.amount
        BY <1>1 DEF Going, ThreadState
      <3>6. Becomes(t, Knowing(r, "store", a))
        BY <2>6, <3>5 DEF Refill, Knowing
      <3> HIDE DEF a, r
      <3> QED  BY <3>4, <3>6, <2>4
    <2> QED  BY <1>14, <2>5, <2>6
  <1>15. CASE Store(t)
    <2> DEFINE b == r.bucket
               old == buckets[b]
    <2>1. At(t, "store") /\ r.pc \in Using
      BY <1>15 DEF Store, At, Using
    <2>2. b \in DOMAIN buckets /\ old \in Bucket /\ r.amount \in Int
      BY <2>1, <1>1, <1>2, <1>5 DEF ThreadState
    <2>3. old.taken \in Nat /\ old.tokens \in Int
      BY <2>2 DEF Bucket
    <2>4. Burst * Cost <= r.amount + old.taken * Cost
      BY <2>1 DEF BucketsInv
    <2>5. thread'[t] = Idle /\ \A u \in Threads \ {t} : Unmoved(u)
      BY <1>15, <1>8 DEF Store, Ends
    <2>6. /\ DOMAIN buckets' = DOMAIN buckets
          /\ \A x \in DOMAIN buckets \ {b} : buckets'[x] = buckets[x]
          /\ r.amount < Cost => /\ buckets'[b].tokens = r.amount
                                /\ buckets'[b].taken = old.taken
          /\ ~ (r.amount < Cost) => /\ buckets'[b].tokens = r.amount - Cost
                                    /\ buckets'[b].taken = old.taken + 1
                                    /\ buckets'[b].refused = old.refused
      BY <1>15, <2>2 DEF Store
    <2>7. (old.taken + 1) * Cost = old.taken * Cost + Cost
      BY <2>3, <1>6
    <2>8. old.taken * Cost \in Int /\ Burst * Cost \in Int
      BY <2>3, <1>6
    <2>9. r.amount < Cost => old.taken >= Burst
      <3> HIDE DEF r, b, old
      <3> QED  BY <2>2, <2>3, <2>4, <1>6, TooFew
    <2>10. /\ Burst * Cost <= buckets'[b].tokens + buckets'[b].taken * Cost
           /\ buckets'[b].refused => buckets'[b].taken >= Burst
           /\ buckets'[b].taken * Cost >= old.taken * Cost /\ buckets'[b].taken * Cost \in Int
      <3>1. old.refused => old.taken >= Burst
        BY <2>2 DEF BucketsInv
      <3> DEFINE passed == old.taken * Cost
                 full == Burst * Cost
      <3> HIDE DEF r, b, old, full
      <3>2. CASE r.amount < Cost
        <4>1. buckets'[b].tokens = r.amount /\ buckets'[b].taken = old.taken
          BY <3>2, <2>6
        <4> QED  BY <4>1, <3>2, <2>4, <2>8, <2>9 DEF full
      <3>3. CASE ~ (r.amount < Cost)
        <4>1. /\ buckets'[b].tokens = r.amount - Cost
              /\ buckets'[b].taken * Cost = passed + Cost
              /\ buckets'[b].taken = old.taken + 1 /\ buckets'[b].refused = old.refused
          BY <3>3, <2>6, <2>7
        <4>2. full <= r.amount + passed /\ passed \in Int /\ full \in Int
          BY <2>4, <2>8 DEF full
        <4>3. buckets'[b].refused => buckets'[b].taken >= Burst
          BY <4>1, <3>1, <2>3, <1>6
        <4> HIDE DEF passed
        <4>4. full <= buckets'[b].tokens + buckets'[b].taken * Cost
              /\ buckets'[b].taken * Cost >= passed /\ buckets'[b].taken * Cost \in Int
          BY <4>1, <4>2, <2>2, <1>6
        <4> QED  BY <4>3, <4>4 DEF passed, full
      <3> QED  BY <3>2, <3>3
    <2>11. ASSUME NEW x \in DOMAIN buckets'
           PROVE  /\ Burst * Cost <= buckets'[x].tokens + buckets'[x].taken * Cost
                  /\ buckets'[x].refused => buckets'[x].taken >= Burst
      <3>1. CASE x = b
        BY <3>1, <2>10
      <3>2. CASE x # b
        BY <3>2, <2>6 DEF BucketsInv
      <3> QED  BY <3>1, <3>2
    <2>12. ASSUME NEW u \in Threads
           PROVE  /\ At(u, "refill")' => thread'[u].amount >= 0
                  /\ At(u, "store")' => Burst * Cost <= thread'[u].amount
                                             + buckets'[thread'[u].bucket].taken * Cost
      <3>1. CASE u = t
        BY <3>1, <2>5, <1>3 DEF At
      <3>2. CASE u # t
        <4>1. Unmoved(u)
          BY <3>2, <2>5
        <4>2. At(u, "refill")' => thread'[u].amount >= 0
          BY <4>1 DEF BucketsInv, At, Unmoved
        <4>3. ASSUME At(u, "store")
              PROVE  Burst * Cost <= thread[u].amount + buckets'[thread[u].bucket].taken * Cost
          <5>1. Burst * Cost <= thread[u].amount + buckets[thread[u].bucket].taken * Cost
            BY <4>3 DEF BucketsInv
          <5>2. thread[u].bucket \in DOMAIN buckets /\ thread[u].amount \in Int
            BY <4>3, <1>7 DEF At, Using
          <5>3. CASE thread[u].bucket = b
            <6> HIDE DEF b, r
            <6> DEFINE passed == buckets[b].taken * Cost
                       more == buckets'[b].taken * Cost
                       full == Burst * Cost
            <6>1. /\ full <= thread[u].amount + passed /\ more >= passed
                  /\ passed \in Int /\ more \in Int /\ full \in Int
              BY <5>1, <5>3, <2>8, <2>10
            <6> HIDE DEF passed, more, full
            <6>2. full <= thread[u].amount + more
              BY <6>1, <5>2
            <6> QED  BY <6>2, <5>3 DEF full, more
          <5>4. CASE thread[u].bucket # b
            BY <5>1, <5>2, <5>4, <2>6
          <5> QED  BY <5>3, <5>4
        <4> QED  BY <4>1, <4>2, <4>3 DEF At, Unmoved
      <3> QED  BY <3>1, <3>2
    <2> QED  BY <2>11, <2>12 DEF BucketsInv
  <1> QED  BY <1>9, <1>10, <1>11, <1>12, <1>13, <1>14, <1>15 DEF Allow

\* Every step keeps the bucket invariant.
LEMMA StepBuckets == ASSUME Shape, SizesOK, BucketsInv, [Next]_vars PROVE BucketsInv'
  <1>1. CASE \E n \in 0 .. MaxTime : SetClock(n)
    <2>1. UNCHANGED <<thread, buckets>>
      BY <1>1 DEF SetClock, limiter
    <2> QED  BY <2>1 DEF BucketsInv, At
  <1>2. CASE UNCHANGED vars
    BY <1>2 DEF BucketsInv, At, vars, limiter
  <1>3. CASE Requested
    <2>1. PICK t \in Threads, r \in ThreadState : Becomes(t, r) /\ r.pc \in {"prune", "look"}
      BY <1>3, RequestMoves
    <2> QED  BY <1>3, <2>1, RequestMoves, BucketsUntouched DEF limiter
  <1>4. ASSUME NEW t \in Threads, Tickets(t) PROVE BucketsInv'
    <2>1. PICK r \in ThreadState : /\ Becomes(t, r) \/ BecomesDisturbing(t, r)
                                   /\ r.pc \notin Using
      BY <1>4, StoreMoves
    <2>2. r.pc \notin {"refill", "store"}
      BY <2>1 DEF Using
    <2> QED  BY <1>4, <2>1, <2>2, StoreMoves, BucketsUntouched DEF limiter
  <1> QED  BY <1>1, <1>2, <1>3, <1>4, AllowKeepsBuckets DEF Next

\* No bucket turns a request down before it has let a burst pass
\* (RateLimiter.allow), for every number of threads, clients and keys.
THEOREM NeverRefusedEarlyHolds == Spec => []NeverRefusedEarly
  <1>1. Init => BucketsInv
    BY DEF Init, BucketsInv, At, Idle
  <1>2. Shape /\ BucketsInv /\ [Next]_vars => BucketsInv'
    BY SizesOK, StepBuckets
  <1>3. BucketsInv => NeverRefusedEarly
    BY DEF BucketsInv, NeverRefusedEarly
  <1> QED  BY <1>1, <1>2, <1>3, ShapeHolds, PTL DEF Spec

-----------------------------------------------------------------------------
(* A ticket is honoured once: it is drawn by one thread, issued once, and  *)
(* not in the store any more when it has opened a connection.              *)

TicketsInv ==
    /\ DOMAIN issues \subseteq 1 .. drawn
    /\ \A e \in tickets :
          /\ e.ticket \in DOMAIN issues
          /\ e.principal = issues[e.ticket].principal
          /\ e.expires = issues[e.ticket].expires
    /\ \A e, f \in tickets : e.ticket = f.ticket => e = f
    /\ \A g \in granted :
          /\ g.ticket \in DOMAIN issues \ Stored
          /\ g.principal = issues[g.ticket].principal
          /\ g.at < issues[g.ticket].expires
    /\ \A g, h \in granted : g.ticket = h.ticket => g = h
    /\ \A t \in Threads : thread[t].pc \in Inserting =>
          thread[t].ticket \in (1 .. drawn) \ DOMAIN issues
    /\ \A t, u \in Threads :
          thread[t].pc \in Inserting /\ thread[u].pc \in Inserting /\ t # u =>
             thread[t].ticket # thread[u].ticket

\* A step that at most takes tickets out of the store, of a thread that goes on
\* with the ticket it has, if it inserts one.
LEMMA StillTickets ==
  ASSUME TicketsInv, NEW t \in Threads,
         UNCHANGED <<drawn, issues, granted>>, tickets' \subseteq tickets,
         \A u \in Threads \ {t} : Unmoved(u),
         thread'[t].pc \in Inserting =>
            thread[t].pc \in Inserting /\ thread'[t].ticket = thread[t].ticket
  PROVE  TicketsInv'
  <1>1. Stored' \subseteq Stored
    BY DEF Stored
  <1>2. \A u \in Threads : thread'[u].pc \in Inserting =>
           thread[u].pc \in Inserting /\ thread'[u].ticket = thread[u].ticket
    BY DEF Unmoved
  <1> QED  BY <1>1, <1>2 DEF TicketsInv

\* What RateLimiter.allow leaves of the tickets and of the other threads.
LEMMA AllowMoves ==
  ASSUME Shape, NEW t \in Threads, Allow(t)
  PROVE  /\ UNCHANGED store /\ thread'[t].pc \notin Inserting
         /\ \A u \in Threads \ {t} : Unmoved(u)
  <1> DEFINE r == thread[t]
  <1>1. r \in ThreadState /\ \A p \in Places : Going(r, p) \in ThreadState /\ Going(r, p).pc = p
    BY NextStates DEF Shape
  <1>2. thread \in [Threads -> ThreadState]
    BY DEF Shape
  <1>3. ASSUME NEW s, Becomes(t, s)
        PROVE  thread'[t] = s /\ \A u \in Threads \ {t} : Unmoved(u)
    BY <1>2, <1>3 DEF Becomes, Unmoved
  <1>4. Idle.pc \notin Inserting
    BY DEF Idle, Inserting
  <1>5. \A p \in Places \ Inserting : Going(r, p).pc \notin Inserting
    BY <1>1
  <1>6. {"room", "touch", "drop", "create", "elapse", "refill", "store"} \subseteq Places \ Inserting
    BY DEF Places, Inserting
  <1>7. CASE Look(t)
    <2>1. CASE Becomes(t, Going(r, "room"))
      BY <1>3, <1>5, <1>6, <1>7, <2>1 DEF Look
    <2>2. ASSUME NEW e \in Asked(t), Becomes(t, [Going(r, "touch") EXCEPT !.bucket = e.bucket])
          PROVE  thread'[t].pc \notin Inserting /\ \A u \in Threads \ {t} : Unmoved(u)
      <3> DEFINE g == Going(r, "touch")
      <3>1. g \in ThreadState /\ g.pc \notin Inserting
        BY <1>1, <1>5, <1>6
      <3>2. [g EXCEPT !.bucket = e.bucket].pc = g.pc
        <4> HIDE DEF g
        <4> QED  BY <3>1 DEF ThreadState
      <3>3. Becomes(t, [g EXCEPT !.bucket = e.bucket])
        BY <2>2
      <3> HIDE DEF g
      <3> QED  BY <3>1, <3>2, <3>3, <1>3
    <2> QED  BY <1>7, <2>1, <2>2 DEF Look
  <1>8. CASE Room(t)
    <2> DEFINE place == IF Cardinality(Entries(r.limiter)) >= MaxKeys THEN "drop" ELSE "create"
    <2>1. place \in Places \ Inserting
      BY <1>6
    <2>2. Becomes(t, Going(r, place)) /\ UNCHANGED store
      BY <1>8 DEF Room
    <2> HIDE DEF place
    <2> QED  BY <2>1, <2>2, <1>3, <1>5
  <1>9. CASE Drop(t) \/ Touch(t) \/ Create(t) \/ Store(t)
    <2>1. UNCHANGED store /\ \E s \in {Idle, Going(r, "create"), Going(r, "elapse")} : Becomes(t, s)
      BY <1>9 DEF Drop, Touch, Create, Store, Ends
    <2> QED  BY <2>1, <1>3, <1>4, <1>5, <1>6
  <1>10. CASE Elapse(t) \/ Refill(t)
    <2>1. ASSUME NEW place \in {"refill", "store"}, NEW a, Becomes(t, Knowing(r, place, a))
          PROVE  thread'[t].pc \notin Inserting /\ \A u \in Threads \ {t} : Unmoved(u)
      <3> DEFINE g == Going(r, place)
      <3>1. g \in ThreadState /\ g.pc \notin Inserting
        BY <1>1, <1>5, <1>6
      <3>2. Knowing(r, place, a).pc = g.pc
        <4>1. Knowing(r, place, a) = [g EXCEPT !.amount = a]
          BY DEF Knowing
        <4> HIDE DEF g
        <4> QED  BY <3>1, <4>1 DEF ThreadState
      <3> HIDE DEF g
      <3> QED  BY <2>1, <3>1, <3>2, <1>3
    <2>2. CASE Elapse(t)
      <3>1. Becomes(t, Knowing(r, "refill", Largest(0, r.read - buckets[r.bucket].updated)))
        BY <2>2 DEF Elapse, Knowing
      <3> QED  BY <3>1, <2>1, <2>2 DEF Elapse
    <2>3. CASE Refill(t)
      <3>1. Going(r, "store").amount = r.amount
        BY <1>1 DEF Going, ThreadState
      <3>2. Becomes(t, Knowing(r, "store",
                               Smallest(Burst * Cost, buckets[r.bucket].tokens + r.amount)))
        BY <2>3, <3>1 DEF Refill, Knowing
      <3> QED  BY <3>2, <2>1, <2>3 DEF Refill
    <2> QED  BY <1>10, <2>2, <2>3
  <1> QED  BY <1>7, <1>8, <1>9, <1>10 DEF Allow

\* TicketStore.issue and redeem keep the ticket invariant.
LEMMA StoreKeepsTickets ==
  ASSUME Shape, SizesOK, TicketsInv, NEW t \in Threads, Tickets(t)
  PROVE  TicketsInv'
  <1> DEFINE r == thread[t]
  <1>1. PICK s \in ThreadState :
           /\ Becomes(t, s) \/ BecomesDisturbing(t, s)
           /\ s.pc \in Inserting => Draw(t) \/ (At(t, "evict") /\ s.ticket = thread[t].ticket)
    BY StoreMoves
  <1>2. thread'[t] = s /\ \A u \in Threads \ {t} : Unmoved(u)
    BY <1>1, OneMoves DEF Shape
  <1>3. r \in ThreadState /\ thread \in [Threads -> ThreadState] /\ drawn \in Nat
    BY DEF Shape
  <1>4. CASE Draw(t)
    <2> DEFINE k == drawn + 1
               place == IF Cardinality(tickets) >= MaxOutstanding THEN "evict" ELSE "insert"
    <2>1. Becomes(t, [r EXCEPT !.ticket = k, !.pc = place])
      BY <1>4 DEF Draw
    <2>2. drawn' = k /\ UNCHANGED <<tickets, issues, granted>>
      BY <1>4 DEF Draw, history
    <2>3. thread'[t].ticket = k
      <3> HIDE DEF k, place
      <3>1. thread'[t] = [r EXCEPT !.ticket = k, !.pc = place]
        BY <2>1, <1>3 DEF Becomes
      <3> HIDE DEF r
      <3> QED  BY <3>1, <1>3 DEF ThreadState
    <2>4. DOMAIN issues \subseteq 1 .. drawn /\ 1 .. drawn \subseteq 1 .. k /\ k \in 1 .. k
          /\ k \notin 1 .. drawn
      BY <1>3 DEF TicketsInv
    <2>5. Stored' = Stored
      BY <2>2 DEF Stored
    <2> HIDE DEF k
    <2>6. \A u \in Threads : thread'[u].pc \in Inserting =>
             thread'[u].ticket \in (1 .. k) \ DOMAIN issues
      BY <2>3, <2>4, <1>2 DEF TicketsInv, Unmoved
    <2>7. \A u \in Threads \ {t} : thread'[u].pc \in Inserting => thread'[u].ticket # k
      BY <2>4, <1>2 DEF TicketsInv, Unmoved
    <2>8. \A u, v \in Threads :
             thread'[u].pc \in Inserting /\ thread'[v].pc \in Inserting /\ u # v =>
                thread'[u].ticket # thread'[v].ticket
      BY <2>3, <2>7, <1>2 DEF TicketsInv, Unmoved
    <2> QED  BY <2>2, <2>4, <2>5, <2>6, <2>8 DEF TicketsInv
  <1>5. CASE Insert(t)
    <2> DEFINE k == r.ticket
               issued == [principal |-> r.client, expires |-> r.read + TTL]
               entry == [ticket |-> k, principal |-> issued.principal,
                         expires |-> issued.expires, nth |-> End(tickets)]
    <2>1. /\ At(t, "insert") /\ tickets' = tickets \cup {entry}
          /\ issues' = [x \in DOMAIN issues \cup {k} |-> IF x = k THEN issued ELSE issues[x]]
          /\ UNCHANGED <<drawn, granted>>
      BY <1>5 DEF Insert
    <2>2. k \in (1 .. drawn) \ DOMAIN issues
      BY <2>1 DEF TicketsInv, At, Inserting
    <2>3. /\ entry.ticket = k /\ entry.principal = issued.principal
          /\ entry.expires = issued.expires
      OBVIOUS
    <2>4. thread'[t].pc \notin Inserting
      <3>1. BecomesDisturbing(t, Idle)
        BY <1>5 DEF Insert
      <3>2. thread'[t] = Idle
        BY <3>1 DEF BecomesDisturbing
      <3> QED  BY <3>2 DEF Idle, Inserting
    <2> HIDE DEF entry, issued
    <2>5. Stored' = Stored \cup {k}
      BY <2>1, <2>3 DEF Stored
    <2>6. \A u \in Threads : thread'[u].pc \in Inserting =>
             /\ u # t /\ thread[u].pc \in Inserting /\ thread'[u].ticket = thread[u].ticket
             /\ thread[u].ticket # k
      <3>1. r.pc \in Inserting
        BY <2>1 DEF At, Inserting
      <3> QED  BY <3>1, <2>4, <1>2 DEF TicketsInv, Unmoved
    <2> HIDE DEF k
    <2>7. DOMAIN issues' = DOMAIN issues \cup {k} /\ issues'[k] = issued
          /\ \A x \in DOMAIN issues : issues'[x] = issues[x]
      BY <2>1, <2>2
    <2>8. \A e \in tickets' :
             /\ e.ticket \in DOMAIN issues' /\ e.principal = issues'[e.ticket].principal
             /\ e.expires = issues'[e.ticket].expires
      BY <2>1, <2>3, <2>7 DEF TicketsInv
    <2>9. \A e, f \in tickets' : e.ticket = f.ticket => e = f
      BY <2>1, <2>2, <2>3 DEF TicketsInv
    <2>10. \A g \in granted : /\ g.ticket \in DOMAIN issues' \ Stored'
                              /\ g.principal = issues'[g.ticket].principal
                              /\ g.at < issues'[g.ticket].expires
      BY <2>2, <2>5, <2>7 DEF TicketsInv
    <2>11. \A u \in Threads : thread'[u].pc \in Inserting =>
              thread'[u].ticket \in (1 .. drawn) \ DOMAIN issues'
      BY <2>6, <2>7 DEF TicketsInv
    <2>12. \A u, v \in Threads :
              thread'[u].pc \in Inserting /\ thread'[v].pc \in Inserting /\ u # v =>
                 thread'[u].ticket # thread'[v].ticket
      BY <2>6 DEF TicketsInv
    <2>13. DOMAIN issues' \subseteq 1 .. drawn
      BY <2>2, <2>7 DEF TicketsInv
    <2> QED  BY <2>1, <2>8, <2>9, <2>10, <2>11, <2>12, <2>13 DEF TicketsInv
  <1>6. ASSUME UNCHANGED <<drawn, issues, granted>>, tickets' \subseteq tickets, ~ Draw(t)
        PROVE  TicketsInv'
    <2>1. thread'[t].pc \in Inserting =>
             thread[t].pc \in Inserting /\ thread'[t].ticket = thread[t].ticket
      BY <1>1, <1>2, <1>6 DEF At, Inserting
    <2> QED  BY <1>2, <1>6, <2>1, StillTickets
  <1>7. ASSUME NEW e \in tickets, tickets' = tickets \ {e}, e.ticket = r.ticket,
               ~ (e.expires <= r.read), UNCHANGED <<drawn, issues>>,
               granted' = granted \cup {[request |-> requests, ticket |-> e.ticket,
                                         principal |-> e.principal, at |-> r.read]},
               BecomesDisturbing(t, Idle)
        PROVE  TicketsInv'
    <2> DEFINE new == [request |-> requests, ticket |-> e.ticket,
                       principal |-> e.principal, at |-> r.read]
    <2>1. new.ticket = e.ticket /\ new.principal = e.principal /\ new.at = r.read
      OBVIOUS
    <2>2. e.ticket \in Stored /\ e.ticket \notin Stored' /\ Stored' \subseteq Stored
      BY <1>7 DEF TicketsInv, Stored
    <2>3. granted' = granted \cup {new}
      BY <1>7
    <2>4. r.read \in Int /\ e.expires \in Int
      BY <1>3 DEF Shape, ThreadState
    <2>5. new.at < issues[new.ticket].expires /\ new.ticket \in DOMAIN issues
          /\ new.principal = issues[new.ticket].principal
      BY <2>1, <2>4, <1>7 DEF TicketsInv
    <2>6. thread'[t].pc \notin Inserting
      <3>1. thread'[t] = Idle
        BY <1>7 DEF BecomesDisturbing
      <3> QED  BY <3>1 DEF Idle, Inserting
    <2> HIDE DEF new
    <2>7. \A g \in granted' : /\ g.ticket \in DOMAIN issues \ Stored'
                              /\ g.principal = issues[g.ticket].principal
                              /\ g.at < issues[g.ticket].expires
      BY <2>1, <2>2, <2>3, <2>5 DEF TicketsInv
    <2>8. \A g, h \in granted' : g.ticket = h.ticket => g = h
      BY <2>1, <2>2, <2>3 DEF TicketsInv
    <2>9. \A u \in Threads : thread'[u].pc \in Inserting =>
             thread[u].pc \in Inserting /\ thread'[u].ticket = thread[u].ticket
      BY <2>6, <1>2 DEF Unmoved
    <2> QED  BY <1>7, <2>7, <2>8, <2>9 DEF TicketsInv
  <1>8. CASE Redeem(t)
    <2>1. CASE r.ticket \notin Stored /\ UNCHANGED <<tickets, granted>>
      BY <1>6, <1>8, <2>1, <1>4 DEF Redeem
    <2>2. ASSUME NEW e \in tickets, e.ticket = r.ticket, tickets' = tickets \ {e},
                 IF e.expires <= r.read
                 THEN UNCHANGED granted
                 ELSE /\ BecomesDisturbing(t, Idle)
                      /\ granted' = granted \cup {[request |-> requests, ticket |-> e.ticket,
                                      principal |-> e.principal, at |-> r.read]}
          PROVE  TicketsInv'
      <3>1. UNCHANGED <<drawn, issues>>
        BY <1>8 DEF Redeem
      <3>2. CASE e.expires <= r.read
        BY <1>6, <1>4, <2>2, <3>1, <3>2
      <3>3. CASE ~ (e.expires <= r.read)
        BY <1>7, <2>2, <3>1, <3>3
      <3> QED  BY <3>2, <3>3
    <2> QED  BY <1>8, <2>1, <2>2 DEF Redeem
  <1>9. CASE Prune(t) \/ Pruned(t) \/ Walk(t) \/ Walked(t)
    BY <1>4, <1>6, <1>9 DEF Prune, Pruned, Walk, Walked, store, history
  <1>10. CASE Evict(t)
    BY <1>4, <1>6, <1>10 DEF Evict, history
  <1>11. CASE \E k \in r.doomed : DeleteExpired(t, k)
    BY <1>4, <1>6, <1>11 DEF DeleteExpired, history
  <1> QED  BY <1>4, <1>5, <1>8, <1>9, <1>10, <1>11 DEF Tickets

\* Every step keeps the ticket invariant.
LEMMA StepTickets == ASSUME Shape, SizesOK, TicketsInv, [Next]_vars PROVE TicketsInv'
  <1>1. CASE UNCHANGED <<thread, store>>
    BY <1>1 DEF TicketsInv, Stored, store, history
  <1>2. CASE Requested
    <2>1. UNCHANGED store /\ \E t \in Threads, r \in ThreadState :
             Becomes(t, r) /\ r.pc \in {"prune", "look"}
      BY <1>2, RequestMoves
    <2>2. PICK t \in Threads, r \in ThreadState : Becomes(t, r) /\ r.pc \in {"prune", "look"}
      BY <2>1
    <2>3. thread'[t] = r /\ \A u \in Threads \ {t} : Unmoved(u)
      BY <2>2, OneMoves DEF Shape
    <2>4. thread'[t].pc \notin Inserting
      BY <2>2, <2>3 DEF Inserting
    <2> QED  BY <2>1, <2>3, <2>4, StillTickets DEF store, history
  <1>3. ASSUME NEW t \in Threads, Allow(t) PROVE TicketsInv'
    BY <1>3, AllowMoves, StillTickets DEF store, history
  <1> QED  BY <1>1, <1>2, <1>3, StoreKeepsTickets DEF Next, SetClock, vars

\* A ticket opens one connection at most, for the client it was issued to and
\* in time (TicketStore.redeem), for every number of threads, clients and
\* outstanding tickets.
THEOREM TicketsHonouredHolds == Spec => []TicketsHonoured
  <1>1. Init => TicketsInv
    BY DEF Init, TicketsInv, Stored, Idle, Inserting
  <1>2. Shape /\ TicketsInv /\ [Next]_vars => TicketsInv'
    BY SizesOK, StepTickets
  <1>3. TicketsInv => TicketsHonoured
    BY DEF TicketsInv, TicketsHonoured
  <1> QED  BY <1>1, <1>2, <1>3, ShapeHolds, PTL DEF Spec

-----------------------------------------------------------------------------
(* Types, and how far the two mappings can grow: whoever found room before *)
(* the others took it is one of the threads that insert or create now.     *)

Inserters == {t \in Workers : thread[t].pc = "insert"}
Creators(l) == {t \in Threads : thread[t].pc = "create" /\ thread[t].limiter = l}

\* The entries of a mapping are in an order that can go on.
Ordered(entries) ==
    \E m \in Nat : \A e \in entries : e.nth \in Nat /\ e.nth <= m

TicketRoom ==
    /\ IsFiniteSet(tickets) /\ Ordered(tickets)
    /\ Cardinality(tickets) + Cardinality(Inserters) <= MaxOutstanding + Cardinality(Workers) - 1

KeyRoom ==
    /\ IsFiniteSet(table) /\ Ordered(table)
    /\ \A e, f \in table : e.limiter = f.limiter /\ e.key = f.key => e = f
    /\ \A l \in Limiters :
          Cardinality(Entries(l)) + Cardinality(Creators(l)) <= MaxKeys + Cardinality(Threads) - 1

ValuesInv ==
    /\ now \in 0 .. MaxTime /\ \A t \in Threads : thread[t].read \in 0 .. MaxTime
    /\ \A t \in Threads : thread[t].pc \in Inserting => t \in Workers
    /\ returned \subseteq 1 .. drawn /\ Stored \subseteq returned
    /\ \A b \in DOMAIN buckets : buckets[b].tokens \in 0 .. Burst * Cost
    /\ \A t \in Threads : At(t, "store") => thread[t].amount \in 0 .. Burst * Cost

\* The ends of a mapping are entries of it.
LEMMA EndsExist ==
  ASSUME NEW S, S # {}, Ordered(S)
  PROVE  Oldest(S) \in S /\ Newest(S) \in S
  <1>1. PICK m \in Nat : \A e \in S : e.nth \in Nat /\ e.nth <= m
    BY DEF Ordered
  <1> DEFINE before == OpToRel(<, Nat)
  <1>2. ASSUME NEW nths0 \in SUBSET Nat, nths0 # {}
        PROVE  \E n \in nths0 : \A k \in nths0 : n <= k
    <2>1. PICK n \in nths0 : \A k \in nths0 : ~ (<<k, n>> \in before)
      BY <1>2, NatLessThanWellFounded, WFMin
    <2>2. ASSUME NEW k \in nths0 PROVE n <= k
      <3>1. n \in Nat /\ k \in Nat
        BY <1>2
      <3>2. ~ (k < n)
        BY <2>1, <3>1 DEF OpToRel
      <3> QED  BY <3>1, <3>2
    <2> QED  BY <2>2
  <1>3. Oldest(S) \in S
    <2> DEFINE nths == {e.nth : e \in S}
    <2>1. nths \in SUBSET Nat /\ nths # {}
      BY <1>1
    <2>2. PICK n \in nths : \A k \in nths : n <= k
      BY <1>2, <2>1
    <2>3. \E e \in S : \A f \in S : e.nth <= f.nth
      BY <2>2
    <2> QED  BY <2>3 DEF Oldest
  <1>4. Newest(S) \in S
    <2> DEFINE gaps == {m - e.nth : e \in S}
    <2>1. gaps \in SUBSET Nat /\ gaps # {}
      BY <1>1
    <2>2. PICK n \in gaps : \A k \in gaps : n <= k
      BY <1>2, <2>1
    <2>3. PICK e \in S : n = m - e.nth
      BY <2>2
    <2>4. ASSUME NEW f \in S PROVE e.nth >= f.nth
      <3>1. m - e.nth <= m - f.nth
        BY <2>2, <2>3
      <3>2. e.nth \in Nat /\ f.nth \in Nat /\ m \in Nat
        BY <1>1
      <3> QED  BY <3>1, <3>2
    <2> QED  BY <2>4 DEF Newest
  <1> QED  BY <1>3, <1>4

\* The end of a mapping is a place of its own.
LEMMA EndIsNat ==
  ASSUME NEW S, Ordered(S)
  PROVE  End(S) \in Nat
  <1>1. CASE S = {}
    BY <1>1 DEF End
  <1>2. CASE S # {}
    <2>1. Newest(S) \in S
      BY <1>2, EndsExist
    <2>2. Newest(S).nth \in Nat
      BY <2>1 DEF Ordered
    <2> QED  BY <1>2, <2>2 DEF End
  <1> QED  BY <1>1, <1>2

\* Mappings with fewer entries, or with one more, are ordered too.
LEMMA OrderedSubset ==
  ASSUME NEW S, NEW T \in SUBSET S, Ordered(S)
  PROVE  Ordered(T)
  BY DEF Ordered

LEMMA OrderedAdd ==
  ASSUME NEW S, Ordered(S), NEW T, NEW n \in Nat,
         \A e \in T : e \in S \/ e.nth = n
  PROVE  Ordered(T)
  <1>1. PICK m \in Nat : \A e \in S : e.nth \in Nat /\ e.nth <= m
    BY DEF Ordered
  <1>2. \A e \in T : e.nth \in Nat /\ e.nth <= m + n
    BY <1>1
  <1>3. m + n \in Nat
    BY <1>1
  <1> QED  BY <1>2, <1>3 DEF Ordered

\* What a step of RateLimiter.allow makes of its thread.
LEMMA AllowBecomes ==
  ASSUME Shape, NEW t \in Threads, Allow(t)
  PROVE  /\ thread'[t].read \in {thread[t].read, 0}
         /\ thread'[t].pc = "create" => /\ Room(t) \/ Drop(t)
                                        /\ thread'[t].limiter = thread[t].limiter
         /\ At(t, "store")' =>
              /\ Refill(t)
              /\ thread'[t].amount =
                    Smallest(Burst * Cost, buckets[thread[t].bucket].tokens + thread[t].amount)
  <1> DEFINE r == thread[t]
             Goal == /\ thread'[t].read \in {thread[t].read, 0}
                     /\ thread'[t].pc = "create" => /\ Room(t) \/ Drop(t)
                                                    /\ thread'[t].limiter = thread[t].limiter
                     /\ At(t, "store")' =>
                          /\ Refill(t)
                          /\ thread'[t].amount = Smallest(Burst * Cost,
                                buckets[thread[t].bucket].tokens + thread[t].amount)
  <1> SUFFICES Goal
    OBVIOUS
  <1>1. r \in ThreadState /\ thread \in [Threads -> ThreadState] /\ now \in Int
    BY DEF Shape
  <1>2. \A p \in Places : /\ Going(r, p) \in ThreadState /\ Going(r, p).pc = p
                          /\ Going(r, p).read = r.read /\ Going(r, p).limiter = r.limiter
                          /\ Going(r, p).amount = r.amount
    BY <1>1, NextStates
  <1>3. \A s : Becomes(t, s) => thread'[t] = s
    BY <1>1 DEF Becomes
  <1>4. Idle.pc = "idle" /\ Idle.read = 0
    BY DEF Idle
  <1>5. ASSUME NEW s, Becomes(t, s), s.read \in {r.read, 0}, s.pc \notin {"create", "store"}
        PROVE  Goal
    BY <1>3, <1>5 DEF At
  <1>6. CASE Becomes(t, Idle)
    BY <1>4, <1>5, <1>6
  <1>7. ASSUME NEW p \in Places \ {"create", "store"}, Becomes(t, Going(r, p)) PROVE Goal
    BY <1>2, <1>5, <1>7
  <1>8. CASE Look(t)
    <2>1. CASE Becomes(t, Going(r, "room"))
      BY <1>7, <2>1 DEF Places
    <2>2. ASSUME NEW e \in Asked(t), Becomes(t, [Going(r, "touch") EXCEPT !.bucket = e.bucket])
          PROVE  Goal
      <3> DEFINE g == Going(r, "touch")
      <3>1. g \in ThreadState /\ g.pc = "touch" /\ g.read = r.read
        BY <1>2 DEF Places
      <3>2. /\ [g EXCEPT !.bucket = e.bucket].pc = g.pc
            /\ [g EXCEPT !.bucket = e.bucket].read = g.read
        <4> HIDE DEF g
        <4> QED  BY <3>1 DEF ThreadState
      <3>3. Becomes(t, [g EXCEPT !.bucket = e.bucket])
        BY <2>2
      <3> HIDE DEF g, Goal
      <3> QED  BY <1>5, <3>1, <3>2, <3>3
    <2> HIDE DEF Goal
    <2> QED  BY <1>8, <2>1, <2>2 DEF Look
  <1>9. CASE Room(t)
    <2> DEFINE place == IF Cardinality(Entries(r.limiter)) >= MaxKeys THEN "drop" ELSE "create"
    <2>1. place \in Places /\ place # "store" /\ Becomes(t, Going(r, place))
      BY <1>9 DEF Room, Places
    <2>2. thread'[t] = Going(r, place)
      BY <1>3, <2>1
    <2> HIDE DEF place, r
    <2>3. thread'[t].pc = place /\ thread'[t].read = r.read /\ thread'[t].limiter = r.limiter
      BY <1>2, <2>1, <2>2
    <2> QED  BY <1>9, <2>1, <2>3 DEF At, r
  <1>10. CASE Drop(t)
    <2>1. CASE Becomes(t, Going(r, "create"))
      <3>1. thread'[t] = Going(r, "create") /\ "create" \in Places
        BY <1>3, <2>1 DEF Places
      <3>2. thread'[t].pc = "create" /\ thread'[t].read = r.read /\ thread'[t].limiter = r.limiter
        BY <1>2, <3>1
      <3> QED  BY <1>10, <3>2 DEF At
    <2> QED  BY <1>6, <1>10, <2>1 DEF Drop, Ends
  <1>11. CASE Create(t) \/ Store(t)
    BY <1>6, <1>11 DEF Create, Store, Ends
  <1>12. CASE Touch(t)
    <2>1. Becomes(t, Idle) \/ Becomes(t, Going(r, "elapse"))
      BY <1>12 DEF Touch, Ends
    <2> HIDE DEF Goal
    <2> QED  BY <1>6, <1>7, <2>1 DEF Places
  <1>13. ASSUME NEW p \in {"refill", "store"}, NEW a, Becomes(t, Knowing(r, p, a))
         PROVE  /\ thread'[t].pc = p /\ thread'[t].read = r.read /\ thread'[t].amount = a
    <2> DEFINE g == Going(r, p)
    <2>1. g \in ThreadState /\ g.pc = p /\ g.read = r.read
      BY <1>2 DEF Places
    <2>2. thread'[t] = [g EXCEPT !.amount = a]
      BY <1>3, <1>13 DEF Knowing
    <2> HIDE DEF g, r
    <2> QED  BY <2>1, <2>2 DEF ThreadState
  <1>14. CASE Elapse(t)
    <2> DEFINE a == Largest(0, r.read - buckets[r.bucket].updated)
    <2>1. Becomes(t, Knowing(r, "refill", a))
      BY <1>14 DEF Elapse, Knowing
    <2> HIDE DEF a
    <2>2. thread'[t].pc = "refill" /\ thread'[t].read = r.read
      BY <1>13, <2>1
    <2> QED  BY <2>2 DEF At
  <1>15. CASE Refill(t)
    <2> DEFINE a == Smallest(Burst * Cost, buckets[r.bucket].tokens + r.amount)
    <2>1. Going(r, "store").amount = r.amount
      BY <1>2 DEF Places
    <2>2. Becomes(t, Knowing(r, "store", a))
      BY <1>15, <2>1 DEF Refill, Knowing
    <2>3. thread'[t].pc = "store" /\ thread'[t].read = r.read /\ thread'[t].amount = a
      <3> HIDE DEF a
      <3> QED  BY <1>13, <2>2
    <2> QED  BY <1>15, <2>3 DEF At
  <1> HIDE DEF Goal
  <1> QED  BY <1>8, <1>9, <1>10, <1>11, <1>12, <1>14, <1>15 DEF Allow

\* The steps of TicketStore by what they do to the mapping.
LEMMA StoreChanges ==
  ASSUME Shape, SizesOK, NEW t \in Threads, Tickets(t)
  PROVE  /\ \A u \in Threads \ {t} : Unmoved(u)
         /\ thread'[t].read \in {thread[t].read, now, 0}
         /\ thread'[t].pc \notin {"create", "store"}
         /\ thread'[t].pc \in Inserting => Draw(t) \/ At(t, "evict")
         /\ \/ Draw(t)
            \/ Insert(t) /\ thread'[t].pc = "idle"
            \/ Evict(t) /\ tickets # {} /\ UNCHANGED <<drawn, returned>>
            \/ /\ UNCHANGED <<drawn, returned>> /\ tickets' \subseteq tickets
               /\ thread'[t].pc # "insert"
  <1>1. PICK s \in ThreadState :
           /\ Becomes(t, s) \/ BecomesDisturbing(t, s)
           /\ s.pc \notin Using \cup {"create"} /\ s.read \in {thread[t].read, now, 0}
           /\ s.pc \in Inserting => Draw(t) \/ (At(t, "evict") /\ s.ticket = thread[t].ticket)
    BY StoreMoves
  <1>2. thread'[t] = s /\ \A u \in Threads \ {t} : Unmoved(u)
    BY <1>1, OneMoves DEF Shape
  <1>3. ~ Draw(t) /\ ~ At(t, "evict") => thread'[t].pc # "insert"
    BY <1>1, <1>2 DEF Inserting
  <1>4. CASE Insert(t)
    <2>1. thread'[t] = Idle
      BY <1>4 DEF Insert, BecomesDisturbing
    <2> QED  BY <1>1, <1>2, <1>4, <2>1 DEF Idle, Using
  <1>5. CASE Evict(t)
    <2>1. UNCHANGED <<drawn, returned>>
      BY <1>5 DEF Evict
    <2>2. ASSUME tickets = {} PROVE tickets' \subseteq tickets /\ thread'[t].pc # "insert"
      <3>1. Becomes(t, Idle) /\ tickets' = tickets
        BY <1>5, <2>2 DEF Evict, Ends
      <3>2. thread'[t] = Idle
        BY <3>1 DEF Becomes, Shape
      <3> QED  BY <3>1, <3>2 DEF Idle
    <2> QED  BY <1>1, <1>2, <1>5, <2>1, <2>2 DEF Using
  <1>6. CASE Draw(t)
    BY <1>1, <1>2, <1>6 DEF Using
  <1>7. ASSUME ~ Draw(t), ~ At(t, "evict"), UNCHANGED <<drawn, returned>>, tickets' \subseteq tickets
        PROVE  /\ UNCHANGED <<drawn, returned>> /\ tickets' \subseteq tickets
               /\ thread'[t].pc # "insert"
    BY <1>3, <1>7
  <1>8. CASE Prune(t) \/ Pruned(t) \/ Walk(t) \/ Walked(t)
             \/ \E k \in thread[t].doomed : DeleteExpired(t, k)
    <2>1. UNCHANGED <<drawn, returned>> /\ tickets' \subseteq tickets /\ ~ At(t, "evict")
      BY <1>8 DEF Prune, Pruned, Walk, Walked, DeleteExpired, store, At
    <2> QED  BY <1>1, <1>2, <1>6, <1>7, <2>1 DEF Using
  <1>9. CASE Redeem(t)
    <2>1. UNCHANGED <<drawn, returned>> /\ tickets' \subseteq tickets /\ ~ At(t, "evict")
      BY <1>9 DEF Redeem, At
    <2> QED  BY <1>1, <1>2, <1>6, <1>7, <2>1 DEF Using
  <1> QED  BY <1>4, <1>5, <1>6, <1>8, <1>9 DEF Tickets

\* What happens to the threads in any step but one of the clock: to one at most.
LEMMA OneThread ==
  ASSUME Shape, SizesOK, [Next]_vars
  PROVE  \/ UNCHANGED <<thread, store, limiter>> /\ now' \in 0 .. MaxTime \cup {now}
         \/ \E t \in Threads :
               /\ now' = now /\ \A u \in Threads \ {t} : Unmoved(u)
               /\ thread'[t].read \in {thread[t].read, now, 0}
               /\ \/ /\ UNCHANGED <<store, limiter>>
                     /\ thread'[t].pc \in {"prune", "look"}
                  \/ Tickets(t) /\ UNCHANGED limiter
                  \/ Allow(t) /\ UNCHANGED store /\ thread'[t].pc \notin Inserting
  <1>1. CASE Requested
    <2>1. /\ UNCHANGED <<clock, store, limiter>>
          /\ \E t \in Threads, r \in ThreadState :
                Becomes(t, r) /\ r.pc \in {"prune", "look"} /\ r.read = now
      BY <1>1, RequestMoves
    <2>2. PICK t \in Threads, r \in ThreadState :
             Becomes(t, r) /\ r.pc \in {"prune", "look"} /\ r.read = now
      BY <2>1
    <2>3. thread'[t] = r /\ \A u \in Threads \ {t} : Unmoved(u)
      BY <2>2, OneMoves DEF Shape
    <2> QED  BY <2>1, <2>2, <2>3 DEF clock
  <1>2. ASSUME NEW t \in Threads, Tickets(t)
        PROVE  /\ UNCHANGED <<now, limiter>> /\ \A u \in Threads \ {t} : Unmoved(u)
               /\ thread'[t].read \in {thread[t].read, now, 0}
    BY <1>2, StoreMoves, StoreChanges
  <1>3. ASSUME NEW t \in Threads, Allow(t)
        PROVE  /\ UNCHANGED <<now, store>> /\ \A u \in Threads \ {t} : Unmoved(u)
               /\ thread'[t].pc \notin Inserting /\ thread'[t].read \in {thread[t].read, 0}
    <2>1. now' = now
      BY <1>3 DEF Allow, Look, Room, Drop, Create, Touch, Elapse, Refill, Store, clock
    <2> QED  BY <1>3, <2>1, AllowMoves, AllowBecomes
  <1>4. CASE \E n \in 0 .. MaxTime : SetClock(n)
    BY <1>4 DEF SetClock
  <1>5. CASE UNCHANGED vars
    BY <1>5 DEF vars, clock
  <1> QED  BY <1>1, <1>2, <1>3, <1>4, <1>5 DEF Next

\* The tokens of a bucket that is made or stored.
LEMMA TokensStay ==
  ASSUME Shape, SizesOK, ValuesInv, NEW t \in Threads, Allow(t)
  PROVE  \A b \in DOMAIN buckets' : buckets'[b].tokens \in 0 .. Burst * Cost
  <1> DEFINE full == Burst * Cost
  <1>1. Burst \in Nat \ {0} /\ Cost \in Nat \ {0} /\ full \in Nat
    BY DEF SizesOK
  <1>2. \A b \in DOMAIN buckets : buckets[b].tokens \in 0 .. full /\ full \in Nat
    BY <1>1 DEF ValuesInv
  <1>3. PICK n \in Nat : DOMAIN buckets = 1 .. n
    BY DEF Shape
  <1>4. CASE Create(t)
    <2>1. Cardinality(DOMAIN buckets) + 1 = n + 1
      BY <1>3, NextBucket
    <2>2. /\ DOMAIN buckets' = 1 .. (n + 1)
          /\ buckets'[n + 1].tokens = (Burst - 1) * Cost
          /\ \A b \in 1 .. n : buckets'[b] = buckets[b]
      BY <1>4, <2>1, <1>3 DEF Create
    <2>3. (Burst - 1) * Cost \in 0 .. full
      <3>1. (Burst - 1) * Cost = full - Cost /\ (Burst - 1) * Cost \in Nat
        <4>1. Burst - 1 \in Nat
          BY <1>1
        <4> QED  BY <1>1, <4>1
      <3> HIDE DEF full
      <3> QED  BY <1>1, <3>1
    <2> HIDE DEF full
    <2>4. \A b \in DOMAIN buckets' : buckets'[b].tokens \in 0 .. full
      BY <1>2, <1>3, <2>2, <2>3
    <2> QED  BY <2>4 DEF full
  <1>5. CASE Store(t)
    <2> DEFINE b == thread[t].bucket
               tokens == thread[t].amount
    <2>1. b \in DOMAIN buckets /\ tokens \in 0 .. full
      BY <1>5 DEF Store, At, Using, Shape, ValuesInv
    <2>2. /\ DOMAIN buckets' = DOMAIN buckets
          /\ \A x \in DOMAIN buckets \ {b} : buckets'[x] = buckets[x]
          /\ buckets'[b].tokens = IF tokens < Cost THEN tokens ELSE tokens - Cost
      BY <1>5, <2>1 DEF Store
    <2> HIDE DEF full, tokens, b
    <2>3. buckets'[b].tokens \in 0 .. full
      BY <1>1, <2>1, <2>2
    <2>4. \A x \in DOMAIN buckets' : buckets'[x].tokens \in 0 .. full
      BY <1>2, <2>2, <2>3
    <2> QED  BY <2>4 DEF full
  <1>6. CASE Look(t) \/ Room(t) \/ Drop(t) \/ Touch(t) \/ Elapse(t) \/ Refill(t)
    <2>1. buckets' = buckets
      BY <1>6 DEF Look, Room, Drop, Touch, Elapse, Refill, limiter
    <2> QED  BY <1>2, <2>1
  <1> QED  BY <1>4, <1>5, <1>6 DEF Allow

\* The values stay what they are.
LEMMA StepValues ==
  ASSUME Shape, SizesOK, BucketsInv, TicketsInv, ValuesInv, [Next]_vars
  PROVE  ValuesInv'
  <1>1. MaxTime \in Nat /\ 0 \in 0 .. MaxTime /\ drawn \in Nat
    BY DEF SizesOK, Shape
  <1>2. CASE UNCHANGED <<thread, store, limiter>> /\ now' \in 0 .. MaxTime \cup {now}
    BY <1>2 DEF ValuesInv, At, Stored, store, limiter
  <1>3. ASSUME NEW t \in Threads, now' = now, \A u \in Threads \ {t} : Unmoved(u),
               thread'[t].read \in {thread[t].read, now, 0},
               thread'[t].pc \in Inserting => t \in Workers,
               At(t, "store")' => thread'[t].amount \in 0 .. Burst * Cost
        PROVE  /\ now' \in 0 .. MaxTime
               /\ \A u \in Threads : thread'[u].read \in 0 .. MaxTime
               /\ \A u \in Threads : thread'[u].pc \in Inserting => u \in Workers
               /\ \A u \in Threads : At(u, "store")' => thread'[u].amount \in 0 .. Burst * Cost
    BY <1>1, <1>3 DEF ValuesInv, Unmoved, At
  <1>4. ASSUME NEW t \in Threads, now' = now, \A u \in Threads \ {t} : Unmoved(u),
               thread'[t].read \in {thread[t].read, now, 0},
               UNCHANGED <<store, limiter>>, thread'[t].pc \in {"prune", "look"}
        PROVE  ValuesInv'
    <2>1. thread'[t].pc \notin Inserting /\ ~ At(t, "store")'
      BY <1>4 DEF Inserting, At
    <2>2. UNCHANGED <<returned, drawn, Stored, buckets>>
      BY <1>4 DEF store, limiter, Stored
    <2> QED  BY <1>3, <1>4, <2>1, <2>2 DEF ValuesInv
  <1>5. ASSUME NEW t \in Threads, now' = now, \A u \in Threads \ {t} : Unmoved(u),
               thread'[t].read \in {thread[t].read, now, 0}, Tickets(t), UNCHANGED limiter
        PROVE  ValuesInv'
    <2>1. ~ At(t, "store")' /\ (thread'[t].pc \in Inserting => Draw(t) \/ At(t, "evict"))
      BY <1>5, StoreChanges DEF At
    <2>2. thread'[t].pc \in Inserting => t \in Workers
      BY <2>1 DEF Draw, At, Inserting, ValuesInv, Threads
    <2>3. returned' \subseteq 1 .. drawn' /\ Stored' \subseteq returned'
      <3>1. CASE Draw(t)
        BY <1>1, <3>1 DEF Draw, ValuesInv, Stored
      <3>2. CASE Insert(t)
        <4> DEFINE k == thread[t].ticket
        <4>1. k \in 1 .. drawn
          BY <3>2 DEF Insert, At, Inserting, TicketsInv
        <4>2. drawn' = drawn /\ returned' = returned \cup {k} /\ Stored' = Stored \cup {k}
          <5> DEFINE entry == [ticket |-> k, principal |-> thread[t].client,
                               expires |-> thread[t].read + TTL, nth |-> End(tickets)]
          <5>1. /\ drawn' = drawn /\ returned' = returned \cup {k}
                /\ tickets' = tickets \cup {entry} /\ entry.ticket = k
            BY <3>2 DEF Insert
          <5> HIDE DEF entry, k
          <5> QED  BY <5>1 DEF Stored
        <4> QED  BY <4>1, <4>2 DEF ValuesInv
      <3>3. CASE UNCHANGED <<drawn, returned>> /\ tickets' \subseteq tickets
        BY <3>3 DEF ValuesInv, Stored
      <3>4. CASE Evict(t) /\ UNCHANGED <<drawn, returned>>
        BY <3>3, <3>4 DEF Evict
      <3> QED  BY <1>5, <3>1, <3>2, <3>3, <3>4, StoreChanges
    <2> QED  BY <1>3, <1>5, <2>1, <2>2, <2>3 DEF ValuesInv, limiter
  <1>6. ASSUME NEW t \in Threads, now' = now, \A u \in Threads \ {t} : Unmoved(u),
               thread'[t].read \in {thread[t].read, now, 0}, Allow(t), UNCHANGED store,
               thread'[t].pc \notin Inserting
        PROVE  ValuesInv'
    <2>1. At(t, "store")' => thread'[t].amount \in 0 .. Burst * Cost
      <3> SUFFICES ASSUME At(t, "store")' PROVE thread'[t].amount \in 0 .. Burst * Cost
        OBVIOUS
      <3> DEFINE full == Burst * Cost
                 had == buckets[thread[t].bucket].tokens
      <3>1. Refill(t) /\ thread'[t].amount = Smallest(full, had + thread[t].amount)
        BY <1>6, AllowBecomes
      <3>2. thread[t].bucket \in DOMAIN buckets /\ thread[t].amount >= 0
        BY <3>1 DEF Refill, At, Using, Shape, BucketsInv
      <3>3. thread[t].amount \in Int /\ full \in Nat /\ had \in 0 .. full
        <4>1. thread[t].amount \in Int
          BY DEF Shape, ThreadState
        <4>2. full \in Nat
          BY DEF SizesOK
        <4> QED  BY <3>2, <4>1, <4>2 DEF ValuesInv
      <3> HIDE DEF full, had
      <3>4. thread'[t].amount \in 0 .. full
        BY <3>1, <3>2, <3>3 DEF Smallest
      <3> QED  BY <3>4 DEF full
    <2>2. UNCHANGED <<returned, drawn, Stored>>
      BY <1>6 DEF store, Stored
    <2> QED  BY <1>3, <1>6, <2>1, <2>2, TokensStay DEF ValuesInv
  <1> QED  BY <1>2, <1>4, <1>5, <1>6, OneThread

-----------------------------------------------------------------------------
(* The bounds of the mappings.                                             *)

\* The numbers of threads that are about to insert or create.
LEMMA ThreadsCounted ==
  ASSUME SizesOK, NamesDiffer
  PROVE  /\ IsFiniteSet(Workers) /\ IsFiniteSet(Threads)
         /\ Cardinality(Workers) \in Nat /\ Cardinality(Threads) = Cardinality(Workers) + 1
  BY FS_AddElement, FS_CardinalityType DEF SizesOK, NamesDiffer, Threads

\* Cardinalities, once and for all.
LEMMA SubsetCounted ==
  ASSUME NEW S, IsFiniteSet(S), NEW T \in SUBSET S
  PROVE  /\ IsFiniteSet(T) /\ Cardinality(T) \in Nat /\ Cardinality(S) \in Nat
         /\ Cardinality(T) <= Cardinality(S)
  BY FS_Subset, FS_CardinalityType

LEMMA AddCounted ==
  ASSUME NEW S, IsFiniteSet(S), NEW x, NEW T \in SUBSET (S \cup {x})
  PROVE  /\ IsFiniteSet(T) /\ Cardinality(T) \in Nat /\ Cardinality(S) \in Nat
         /\ Cardinality(T) <= Cardinality(S) + 1
  <1>1. /\ IsFiniteSet(S \cup {x}) /\ Cardinality(S) \in Nat
        /\ Cardinality(S \cup {x}) \in {Cardinality(S), Cardinality(S) + 1}
    BY FS_AddElement, FS_CardinalityType
  <1>2. Cardinality(T) \in Nat /\ Cardinality(T) <= Cardinality(S \cup {x}) /\ IsFiniteSet(T)
    BY <1>1, SubsetCounted
  <1> QED  BY <1>1, <1>2

LEMMA RemoveCounted ==
  ASSUME NEW S, IsFiniteSet(S), NEW x \in S, NEW T \in SUBSET (S \ {x})
  PROVE  /\ IsFiniteSet(T) /\ Cardinality(T) \in Nat /\ Cardinality(S) \in Nat
         /\ Cardinality(T) <= Cardinality(S) - 1
  <1>1. /\ IsFiniteSet(S \ {x}) /\ Cardinality(S) \in Nat
        /\ Cardinality(S \ {x}) = Cardinality(S) - 1
    BY FS_RemoveElement, FS_CardinalityType
  <1>2. Cardinality(T) \in Nat /\ Cardinality(T) <= Cardinality(S \ {x}) /\ IsFiniteSet(T)
    BY <1>1, SubsetCounted
  <1> QED  BY <1>1, <1>2

\* The store of tickets: who found room, or made it, inserts one.
LEMMA StepTicketRoom ==
  ASSUME Shape, SizesOK, NamesDiffer, ValuesInv, TicketRoom, [Next]_vars
  PROVE  TicketRoom'
  <1>1. /\ IsFiniteSet(Workers) /\ Cardinality(Workers) \in Nat /\ MaxOutstanding \in Nat \ {0}
        /\ IsFiniteSet(tickets) /\ Inserters \subseteq Workers /\ Inserters' \subseteq Workers
    BY ThreadsCounted DEF SizesOK, TicketRoom, Inserters
  <1>2. IsFiniteSet(Inserters)
    BY <1>1, FS_Subset
  <1>3. /\ Cardinality(tickets) \in Nat /\ Cardinality(Inserters) \in Nat
        /\ Cardinality(tickets) + Cardinality(Inserters)
             <= MaxOutstanding + Cardinality(Workers) - 1
    BY <1>1, <1>2, FS_CardinalityType DEF TicketRoom
  <1>4. ASSUME tickets' \subseteq tickets, Inserters' \subseteq Inserters PROVE TicketRoom'
    <2>1. /\ IsFiniteSet(tickets') /\ Cardinality(tickets') \in Nat
          /\ Cardinality(tickets') <= Cardinality(tickets)
      BY <1>1, <1>4, SubsetCounted
    <2>2. Cardinality(Inserters') \in Nat /\ Cardinality(Inserters') <= Cardinality(Inserters)
      BY <1>2, <1>4, SubsetCounted
    <2>3. Ordered(tickets')
      BY <1>4, OrderedSubset DEF TicketRoom
    <2> QED  BY <1>1, <1>3, <2>1, <2>2, <2>3 DEF TicketRoom
  <1>5. ASSUME NEW t \in Threads, \A u \in Threads \ {t} : Unmoved(u)
        PROVE  /\ Inserters' \subseteq Inserters \cup {t}
               /\ thread'[t].pc # "insert" => Inserters' \subseteq Inserters \ {t}
    BY <1>5 DEF Inserters, Unmoved, Threads
  <1>6. ASSUME UNCHANGED <<thread, store>> PROVE TicketRoom'
    BY <1>4, <1>6 DEF Inserters, store
  <1>7. ASSUME NEW t \in Threads, \A u \in Threads \ {t} : Unmoved(u), UNCHANGED store,
               thread'[t].pc \notin Inserting
        PROVE  TicketRoom'
    BY <1>4, <1>5, <1>7 DEF Inserting, store
  <1>8. ASSUME NEW t \in Threads, Tickets(t) PROVE TicketRoom'
    <2>1. /\ \A u \in Threads \ {t} : Unmoved(u)
          /\ \/ Draw(t)
             \/ Insert(t) /\ thread'[t].pc = "idle"
             \/ Evict(t) /\ tickets # {}
             \/ tickets' \subseteq tickets /\ thread'[t].pc # "insert"
      BY <1>8, StoreChanges
    <2>2. CASE Draw(t)
      <3> DEFINE place == IF Cardinality(tickets) >= MaxOutstanding THEN "evict" ELSE "insert"
      <3>1. tickets' = tickets /\ thread'[t].pc = place
        <4>1. /\ tickets' = tickets
              /\ Becomes(t, [thread[t] EXCEPT !.ticket = drawn + 1, !.pc = place])
          BY <2>2 DEF Draw
        <4> DEFINE k == drawn + 1
        <4>2. thread'[t] = [thread[t] EXCEPT !.ticket = k, !.pc = place]
          BY <4>1 DEF Becomes, Shape
        <4>3. thread[t] \in ThreadState
          BY DEF Shape
        <4> HIDE DEF place, k
        <4> QED  BY <4>1, <4>2, <4>3 DEF ThreadState
      <3>2. CASE Cardinality(tickets) >= MaxOutstanding
        BY <1>4, <1>5, <2>1, <3>1, <3>2
      <3>3. CASE ~ (Cardinality(tickets) >= MaxOutstanding)
        <4>1. Cardinality(Inserters') \in Nat /\ Cardinality(Inserters') <= Cardinality(Workers)
          BY <1>1, SubsetCounted
        <4> QED  BY <1>1, <1>3, <3>1, <3>3, <4>1 DEF TicketRoom
      <3> QED  BY <3>2, <3>3
    <2>3. CASE Insert(t) /\ thread'[t].pc = "idle"
      <3>1. t \in Inserters
        BY <2>3 DEF Insert, At, Inserters, Inserting, ValuesInv
      <3>2. Inserters' \subseteq Inserters \ {t}
        BY <1>5, <2>1, <2>3
      <3>3. PICK e : tickets' = tickets \cup {e} /\ e.nth = End(tickets)
        <4> DEFINE entry == [ticket |-> thread[t].ticket, principal |-> thread[t].client,
                             expires |-> thread[t].read + TTL, nth |-> End(tickets)]
        <4>1. tickets' = tickets \cup {entry} /\ entry.nth = End(tickets)
          BY <2>3 DEF Insert
        <4> HIDE DEF entry
        <4> QED  BY <4>1
      <3>4. End(tickets) \in Nat
        BY EndIsNat DEF TicketRoom
      <3>5. Ordered(tickets')
        BY <3>3, <3>4, OrderedAdd DEF TicketRoom
      <3>6. /\ IsFiniteSet(tickets') /\ Cardinality(tickets') \in Nat
            /\ Cardinality(tickets') <= Cardinality(tickets) + 1
        BY <1>1, <3>3, AddCounted
      <3>7. Cardinality(Inserters') \in Nat /\ Cardinality(Inserters') <= Cardinality(Inserters) - 1
        BY <1>2, <3>1, <3>2, RemoveCounted
      <3> QED  BY <1>1, <1>3, <3>5, <3>6, <3>7 DEF TicketRoom
    <2>4. CASE Evict(t) /\ tickets # {}
      <3>1. tickets' = tickets \ {Oldest(tickets)} /\ Oldest(tickets) \in tickets
        BY <2>4, EndsExist DEF Evict, TicketRoom
      <3>2. /\ IsFiniteSet(tickets') /\ Cardinality(tickets') \in Nat
            /\ Cardinality(tickets') <= Cardinality(tickets) - 1
        BY <1>1, <3>1, RemoveCounted
      <3>3. Cardinality(Inserters') \in Nat /\ Cardinality(Inserters') <= Cardinality(Inserters) + 1
        <4>1. Inserters' \in SUBSET (Inserters \cup {t})
          BY <1>5, <2>1
        <4> QED  BY <1>2, <4>1, AddCounted
      <3>4. Ordered(tickets')
        BY <3>1, OrderedSubset DEF TicketRoom
      <3> QED  BY <1>1, <1>3, <3>2, <3>3, <3>4 DEF TicketRoom
    <2>5. CASE tickets' \subseteq tickets /\ thread'[t].pc # "insert"
      BY <1>4, <1>5, <2>1, <2>5
    <2> QED  BY <2>1, <2>2, <2>3, <2>4, <2>5
  <1>9. \A t \in Threads : thread'[t].pc \in {"prune", "look"} => thread'[t].pc \notin Inserting
    BY DEF Inserting
  <1> QED  BY <1>6, <1>7, <1>8, <1>9, OneThread

\* An entry takes the place of the one its key had, or is added.
LEMMA EntryReplaces ==
  ASSUME KeyRoom, NEW e, e.nth \in Nat, NEW gone, gone = EntryFor(e.limiter, e.key),
         table' = (table \ gone) \cup {e}
  PROVE  /\ IsFiniteSet(table') /\ Ordered(table')
         /\ \A f, g \in table' : f.limiter = g.limiter /\ f.key = g.key => f = g
         /\ \A l \in Limiters \ {e.limiter} : Entries(l)' = Entries(l)
         /\ Entries(e.limiter)' = (Entries(e.limiter) \ gone) \cup {e}
  <1>1. IsFiniteSet(table')
    <2>1. IsFiniteSet(table) /\ table' \in SUBSET (table \cup {e})
      BY DEF KeyRoom
    <2> QED  BY <2>1, AddCounted
  <1>2. Ordered(table')
    BY OrderedAdd DEF KeyRoom
  <1>3. \A f, g \in table' : f.limiter = g.limiter /\ f.key = g.key => f = g
    BY DEF KeyRoom, EntryFor
  <1>4. \A f \in gone : f \in table /\ f.limiter = e.limiter
    BY DEF EntryFor
  <1> QED  BY <1>1, <1>2, <1>3, <1>4 DEF Entries

\* The mapping of a limiter: who found room, or made it, creates an entry.
LEMMA StepKeyRoom ==
  ASSUME Shape, SizesOK, NamesDiffer, KeyRoom, [Next]_vars
  PROVE  KeyRoom'
  <1>1. /\ IsFiniteSet(Threads) /\ Cardinality(Threads) \in Nat /\ Cardinality(Threads) > 0
        /\ MaxKeys \in Nat \ {0} /\ IsFiniteSet(table) /\ Ordered(table)
    BY ThreadsCounted DEF SizesOK, KeyRoom
  <1>2. ASSUME NEW l
        PROVE  /\ IsFiniteSet(Entries(l)) /\ Cardinality(Entries(l)) \in Nat
               /\ IsFiniteSet(Creators(l)) /\ Cardinality(Creators(l)) \in Nat
               /\ Creators(l)' \subseteq Threads
               /\ Cardinality(Creators(l)') \in Nat
               /\ Cardinality(Creators(l)') <= Cardinality(Threads)
    <2>1. Entries(l) \subseteq table /\ Creators(l) \subseteq Threads /\ Creators(l)' \subseteq Threads
      BY DEF Entries, Creators
    <2> QED  BY <1>1, <2>1, SubsetCounted
  <1> DEFINE Fits(l) == Cardinality(Entries(l)) + Cardinality(Creators(l))
                          <= MaxKeys + Cardinality(Threads) - 1
  <1>3. \A l \in Limiters : Fits(l)
    BY DEF KeyRoom
  <1>4. ASSUME NEW l \in Limiters, Entries(l)' \subseteq Entries(l), Creators(l)' \subseteq Creators(l)
        PROVE  Fits(l)'
    <2>1. /\ Cardinality(Entries(l)') \in Nat /\ Cardinality(Entries(l)') <= Cardinality(Entries(l))
          /\ Cardinality(Creators(l)') \in Nat
          /\ Cardinality(Creators(l)') <= Cardinality(Creators(l))
      BY <1>2, <1>4, SubsetCounted
    <2>2. Fits(l) /\ Cardinality(Entries(l)) \in Nat /\ Cardinality(Creators(l)) \in Nat
      BY <1>2, <1>3
    <2> QED  BY <1>1, <2>1, <2>2
  <1>5. ASSUME NEW t \in Threads, \A u \in Threads \ {t} : Unmoved(u), NEW l,
               thread'[t].pc = "create" /\ thread'[t].limiter = l => t \in Creators(l)
        PROVE  Creators(l)' \subseteq Creators(l)
    BY <1>5 DEF Creators, Unmoved
  <1>6. ASSUME table' \subseteq table, \A l \in Limiters : Creators(l)' \subseteq Creators(l)
        PROVE  KeyRoom'
    <2>1. IsFiniteSet(table') /\ Ordered(table')
      BY <1>1, <1>6, FS_Subset, OrderedSubset
    <2>2. \A l \in Limiters : Fits(l)'
      BY <1>4, <1>6 DEF Entries
    <2> QED  BY <1>6, <2>1, <2>2 DEF KeyRoom
  <1>7. ASSUME UNCHANGED <<thread, table>> PROVE KeyRoom'
    BY <1>6, <1>7 DEF Creators
  <1>8. ASSUME NEW t \in Threads, \A u \in Threads \ {t} : Unmoved(u), thread'[t].pc # "create",
               table' \subseteq table
        PROVE  KeyRoom'
    BY <1>5, <1>6, <1>8
  <1>9. ASSUME NEW t \in Threads, Allow(t), \A u \in Threads \ {t} : Unmoved(u)
        PROVE  KeyRoom'
    <2> DEFINE r == thread[t]
    <2>0. PICK mine, key : mine = r.limiter /\ key = r.key
      OBVIOUS
    <2>1. thread'[t].pc = "create" => (Room(t) \/ Drop(t)) /\ thread'[t].limiter = mine
      BY <1>9, <2>0, AllowBecomes
    <2>2. \A l \in Limiters \ {mine} : Creators(l)' \subseteq Creators(l)
      BY <1>5, <1>9, <2>1
    <2>3. CASE Look(t) \/ Elapse(t) \/ Refill(t) \/ Store(t)
      <3>1. table' = table /\ ~ Room(t) /\ ~ Drop(t)
        BY <2>3 DEF Look, Elapse, Refill, Store, Room, Drop, At, limiter
      <3> QED  BY <1>8, <1>9, <2>1, <3>1
    <2>4. CASE Room(t)
      <3>1. table' = table
        BY <2>4 DEF Room, limiter
      <3>2. CASE Cardinality(Entries(mine)) >= MaxKeys
        <4>1. thread'[t] = Going(r, "drop")
          BY <2>0, <2>4, <3>2 DEF Room, Becomes, Shape
        <4>2. thread'[t].pc = "drop"
          <5>1. r \in ThreadState /\ now \in Int
            BY DEF Shape
          <5>2. Going(r, "drop").pc = "drop"
            BY <5>1, NextStates DEF Places
          <5> QED  BY <4>1, <5>2
        <4> QED  BY <1>8, <1>9, <3>1, <4>2
      <3>3. CASE ~ (Cardinality(Entries(mine)) >= MaxKeys)
        <4>1. \A l : Entries(l)' = Entries(l)
          BY <3>1 DEF Entries
        <4>2. Fits(mine)'
          BY <1>1, <1>2, <3>3, <4>1
        <4>3. \A l \in Limiters : Fits(l)'
          BY <1>4, <2>2, <4>1, <4>2
        <4> QED  BY <1>1, <3>1, <4>3 DEF KeyRoom
      <3> QED  BY <3>2, <3>3
    <2>5. CASE Drop(t)
      <3>1. CASE Entries(mine) = {}
        <4>1. table' = table /\ thread'[t] = Idle
          BY <2>0, <2>5, <3>1 DEF Drop, Ends, Becomes, Shape
        <4>2. thread'[t].pc # "create"
          BY <4>1 DEF Idle
        <4> QED  BY <1>8, <1>9, <4>1, <4>2
      <3>2. CASE Entries(mine) # {}
        <4>1. PICK e \in Entries(mine) : table' = table \ {e}
          <5>1. Entries(mine) \in SUBSET table
            BY DEF Entries
          <5>2. Oldest(Entries(mine)) \in Entries(mine)
            BY <1>1, <3>2, <5>1, EndsExist, OrderedSubset
          <5>3. table' = table \ {Oldest(Entries(mine))}
            BY <2>0, <2>5, <3>2 DEF Drop
          <5> QED  BY <5>2, <5>3
        <4>2. Entries(mine)' \subseteq Entries(mine) \ {e} /\ \A l : Entries(l)' \subseteq Entries(l)
          BY <4>1 DEF Entries
        <4>3. /\ Cardinality(Entries(mine)') \in Nat
              /\ Cardinality(Entries(mine)') <= Cardinality(Entries(mine)) - 1
          <5>1. e \in Entries(mine) /\ Entries(mine)' \in SUBSET (Entries(mine) \ {e})
            BY <4>1, <4>2
          <5> QED  BY <1>2, <5>1, RemoveCounted
        <4>4. Cardinality(Creators(mine)') <= Cardinality(Creators(mine)) + 1
          <5>1. Creators(mine)' \in SUBSET (Creators(mine) \cup {t})
            BY <1>9 DEF Creators, Unmoved
          <5> QED  BY <1>2, <5>1, AddCounted
        <4>5. mine \in Limiters => Fits(mine)'
          <5> SUFFICES ASSUME mine \in Limiters PROVE Fits(mine)'
            OBVIOUS
          <5>1. Fits(mine)
            BY <1>3
          <5> QED  BY <1>1, <1>2, <4>3, <4>4, <5>1
        <4>6. \A l \in Limiters : Fits(l)'
          BY <1>4, <2>2, <4>2, <4>5
        <4>7. IsFiniteSet(table') /\ Ordered(table')
          <5>1. table' \in SUBSET table
            BY <4>1
          <5> QED  BY <1>1, <5>1, FS_Subset, OrderedSubset
        <4> QED  BY <4>1, <4>6, <4>7 DEF KeyRoom
      <3> QED  BY <3>1, <3>2
    <2>6. CASE Create(t)
      <3> DEFINE nth == IF Asked(t) = {} THEN End(Entries(mine)) ELSE Oldest(Asked(t)).nth
      <3>0. thread'[t] = Idle /\ At(t, "create")
        BY <2>6 DEF Create, Ends, Becomes, Shape
      <3>1. PICK e : /\ table' = (table \ Asked(t)) \cup {e}
                     /\ e.limiter = mine /\ e.key = key /\ e.nth = nth
        <4> DEFINE new == Entry(mine, key, Cardinality(DOMAIN buckets) + 1, nth)
        <4>1. table' = (table \ Asked(t)) \cup {new}
          BY <2>0, <2>6 DEF Create
        <4>2. new.limiter = mine /\ new.key = key /\ new.nth = nth
          BY DEF Entry
        <4> HIDE DEF new, nth
        <4> QED  BY <4>1, <4>2
      <3>2. nth \in Nat
        <4>1. Entries(mine) \in SUBSET table /\ Asked(t) \in SUBSET table
          BY DEF Entries, Asked, EntryFor
        <4>2. Ordered(Entries(mine)) /\ Ordered(Asked(t))
          BY <1>1, <4>1, OrderedSubset
        <4>3. CASE Asked(t) = {}
          BY <4>2, <4>3, EndIsNat
        <4>4. CASE Asked(t) # {}
          <5>1. Oldest(Asked(t)) \in Asked(t)
            BY <4>2, <4>4, EndsExist
          <5> QED  BY <4>2, <4>4, <5>1 DEF Ordered
        <4> QED  BY <4>3, <4>4
      <3>3. Asked(t) = EntryFor(e.limiter, e.key)
        BY <2>0, <3>1 DEF Asked
      <3>4. t \in Creators(mine) /\ Creators(mine)' \subseteq Creators(mine) \ {t}
        BY <1>9, <2>0, <3>0 DEF Creators, Unmoved, At, Idle
      <3> HIDE DEF nth
      <3>5. /\ IsFiniteSet(table') /\ Ordered(table')
            /\ \A f, g \in table' : f.limiter = g.limiter /\ f.key = g.key => f = g
            /\ \A l \in Limiters \ {mine} : Entries(l)' = Entries(l)
            /\ Entries(mine)' = (Entries(mine) \ Asked(t)) \cup {e}
        BY <3>1, <3>2, <3>3, EntryReplaces
      <3>6. /\ Cardinality(Entries(mine)') \in Nat
            /\ Cardinality(Entries(mine)') <= Cardinality(Entries(mine)) + 1
        <4>1. Entries(mine)' \in SUBSET (Entries(mine) \cup {e})
          BY <3>5
        <4> QED  BY <1>2, <4>1, AddCounted
      <3>7. Cardinality(Creators(mine)') <= Cardinality(Creators(mine)) - 1
        <4>1. t \in Creators(mine) /\ Creators(mine)' \in SUBSET (Creators(mine) \ {t})
          BY <3>4
        <4> QED  BY <1>2, <4>1, RemoveCounted
      <3>8. mine \in Limiters => Fits(mine)'
        <4> SUFFICES ASSUME mine \in Limiters PROVE Fits(mine)'
          OBVIOUS
        <4>1. Fits(mine)
          BY <1>3
        <4> QED  BY <1>1, <1>2, <3>6, <3>7, <4>1
      <3>9. \A l \in Limiters : Fits(l)'
        BY <1>4, <2>2, <3>5, <3>8
      <3> QED  BY <3>5, <3>9 DEF KeyRoom
    <2>7. CASE Touch(t)
      <3>1. thread'[t].pc # "create"
        BY <2>1, <2>7 DEF Touch, Room, Drop, At
      <3>2. CASE Asked(t) = {}
        <4>1. table' = table
          BY <2>7, <3>2 DEF Touch
        <4> QED  BY <1>8, <1>9, <3>1, <4>1
      <3>3. CASE Asked(t) # {}
        <4>1. PICK a \in Asked(t) : Asked(t) = {a}
          BY <3>3 DEF Asked, EntryFor, KeyRoom
        <4>2. a \in table /\ a.limiter = mine /\ a.key = key /\ a \in Entries(mine)
          BY <2>0 DEF Asked, EntryFor, Entries
        <4> DEFINE nth == End(Entries(mine))
        <4>3. table' = (table \ {a}) \cup {Entry(a.limiter, a.key, a.bucket, nth)}
          BY <2>7, <3>3, <4>1, <4>2 DEF Touch
        <4>4. PICK e : /\ table' = (table \ {a}) \cup {e}
                       /\ e.limiter = mine /\ e.key = key /\ e.nth = nth
          <5> DEFINE new == Entry(a.limiter, a.key, a.bucket, nth)
          <5>1. new.limiter = mine /\ new.key = key /\ new.nth = nth
            BY <4>2 DEF Entry
          <5> HIDE DEF new, nth
          <5> QED  BY <4>3, <5>1 DEF new
        <4>5. nth \in Nat
          <5>1. Entries(mine) \in SUBSET table
            BY DEF Entries
          <5> QED  BY <1>1, <5>1, OrderedSubset, EndIsNat
        <4>6. {a} = EntryFor(e.limiter, e.key)
          BY <2>0, <4>1, <4>4 DEF Asked
        <4> HIDE DEF nth
        <4>7. /\ IsFiniteSet(table') /\ Ordered(table')
              /\ \A f, g \in table' : f.limiter = g.limiter /\ f.key = g.key => f = g
              /\ \A l \in Limiters \ {mine} : Entries(l)' = Entries(l)
              /\ Entries(mine)' = (Entries(mine) \ {a}) \cup {e}
          BY <4>4, <4>5, <4>6, EntryReplaces
        <4>8. /\ Cardinality(Entries(mine)') \in Nat
              /\ Cardinality(Entries(mine)') <= Cardinality(Entries(mine))
          <5>1. /\ IsFiniteSet(Entries(mine) \ {a})
                /\ Cardinality(Entries(mine) \ {a}) \in Nat
                /\ Cardinality(Entries(mine) \ {a}) <= Cardinality(Entries(mine)) - 1
            BY <1>2, <4>2, RemoveCounted
          <5>2. /\ Cardinality(Entries(mine)') \in Nat
                /\ Cardinality(Entries(mine)') <= Cardinality(Entries(mine) \ {a}) + 1
            BY <4>7, <5>1, AddCounted
          <5> QED  BY <1>2, <5>1, <5>2
        <4>9. \A l \in Limiters : Creators(l)' \subseteq Creators(l)
          BY <1>5, <1>9, <3>1
        <4>10. mine \in Limiters => Fits(mine)'
          <5> SUFFICES ASSUME mine \in Limiters PROVE Fits(mine)'
            OBVIOUS
          <5>1. Cardinality(Creators(mine)') <= Cardinality(Creators(mine))
            BY <1>2, <4>9, SubsetCounted
          <5>2. Fits(mine)
            BY <1>3
          <5> QED  BY <1>1, <1>2, <4>8, <5>1, <5>2
        <4>11. \A l \in Limiters : Fits(l)'
          BY <1>4, <4>7, <4>9, <4>10
        <4> QED  BY <4>7, <4>11 DEF KeyRoom
      <3> QED  BY <3>2, <3>3
    <2> QED  BY <1>9, <2>3, <2>4, <2>5, <2>6, <2>7 DEF Allow
  <1>10. ASSUME NEW t \in Threads, \A u \in Threads \ {t} : Unmoved(u), UNCHANGED limiter,
                thread'[t].pc \in {"prune", "look"} \/ Tickets(t)
         PROVE  KeyRoom'
    <2>1. table' = table /\ thread'[t].pc # "create"
      BY <1>10, StoreChanges DEF limiter
    <2> QED  BY <1>8, <1>10, <2>1
  <1> QED  BY <1>7, <1>9, <1>10, OneThread DEF limiter

\* A gateway that starts keeps nothing.
LEMMA InitRoom == ASSUME SizesOK, NamesDiffer, Init PROVE ValuesInv /\ TicketRoom /\ KeyRoom
  <1>1. /\ tickets = {} /\ table = {} /\ buckets = <<>> /\ now = 0 /\ returned = {} /\ drawn = 0
        /\ \A t \in Threads : thread[t].pc = "idle" /\ thread[t].read = 0
    BY DEF Init, Idle
  <1>2. MaxTime \in Nat /\ MaxOutstanding \in Nat \ {0} /\ MaxKeys \in Nat \ {0}
        /\ Cardinality(Workers) \in Nat /\ Cardinality(Threads) = Cardinality(Workers) + 1
    BY ThreadsCounted DEF SizesOK
  <1>3. Inserters = {} /\ \A l : Creators(l) = {} /\ Entries(l) = {}
    BY <1>1 DEF Inserters, Creators, Entries, Threads
  <1>4. IsFiniteSet(tickets) /\ Cardinality({}) = 0 /\ Ordered(tickets) /\ IsFiniteSet(table)
        /\ Ordered(table)
    BY <1>1, FS_EmptySet DEF Ordered
  <1>5. DOMAIN buckets = {}
    BY <1>1
  <1>6. ValuesInv
    BY <1>1, <1>2, <1>5 DEF ValuesInv, Inserting, At, Stored
  <1>7. TicketRoom
    BY <1>1, <1>2, <1>3, <1>4 DEF TicketRoom
  <1>8. KeyRoom
    <2>1. ASSUME NEW l \in Limiters
          PROVE  Cardinality(Entries(l)) + Cardinality(Creators(l)) <= MaxKeys + Cardinality(Threads) - 1
      <3>1. Cardinality(Entries(l)) = 0 /\ Cardinality(Creators(l)) = 0
        BY <1>3, <1>4
      <3> QED  BY <1>2, <3>1
    <2>2. \A e, f \in table : e.limiter = f.limiter /\ e.key = f.key => e = f
      BY <1>1
    <2> QED  BY <1>4, <2>1, <2>2 DEF KeyRoom
  <1> QED  BY <1>6, <1>7, <1>8

\* The variables stay in their sets, and the store of tickets and the mapping of a
\* limiter within their bounds and one entry per thread but the first: for every
\* number of worker threads of TicketStore.issue and RateLimiter.allow.
THEOREM TypeCorrect == Spec => []TypeOK
  <1> DEFINE Inv == Shape /\ BucketsInv /\ TicketsInv /\ ValuesInv /\ TicketRoom /\ KeyRoom
  <1>1. Init => Inv
    <2> SUFFICES ASSUME Init PROVE Inv
      OBVIOUS
    <2>1. BucketsInv
      BY DEF Init, BucketsInv, At, Idle
    <2>2. TicketsInv
      BY DEF Init, TicketsInv, Stored, Idle, Inserting
    <2> QED  BY <2>1, <2>2, InitShape, InitRoom, SizesOK, NamesDiffer
  <1>2. Inv /\ [Next]_vars => Inv'
    BY SizesOK, NamesDiffer, StepShape, StepBuckets, StepTickets, StepValues, StepTicketRoom,
       StepKeyRoom
  <1>3. Inv => TypeOK
    <2> SUFFICES ASSUME Inv PROVE TypeOK
      OBVIOUS
    <2>1. /\ DOMAIN thread = Threads /\ \A t \in Threads : thread[t].pc \in Places
          /\ \A e \in table : e.bucket \in DOMAIN buckets
      BY DEF Shape, ThreadState
    <2>2. Cardinality(tickets) <= MaxOutstanding + Cardinality(Workers) - 1
      <3>1. Inserters \subseteq Workers
        BY DEF Inserters
      <3>2. Cardinality(Inserters) \in Nat /\ Cardinality(Workers) \in Nat
            /\ Cardinality(tickets) \in Nat /\ MaxOutstanding \in Nat
        BY <3>1, SizesOK, NamesDiffer, ThreadsCounted, SubsetCounted, FS_CardinalityType
           DEF TicketRoom, SizesOK
      <3> QED  BY <3>2 DEF TicketRoom
    <2>3. ASSUME NEW l \in Limiters
          PROVE  Cardinality(Entries(l)) <= MaxKeys + Cardinality(Threads) - 1
      <3>1. Creators(l) \subseteq Threads /\ Entries(l) \subseteq table
        BY DEF Creators, Entries
      <3>2. Cardinality(Creators(l)) \in Nat /\ Cardinality(Entries(l)) \in Nat
            /\ Cardinality(Threads) \in Nat /\ MaxKeys \in Nat
        BY <3>1, SizesOK, NamesDiffer, ThreadsCounted, SubsetCounted DEF KeyRoom, SizesOK
      <3> QED  BY <3>2 DEF KeyRoom
    <2>4. \A e, f \in tickets : e.ticket = f.ticket => e = f
      BY DEF TicketsInv
    <2> QED  BY <2>1, <2>2, <2>3, <2>4 DEF TypeOK, ValuesInv, KeyRoom
  <1> QED  BY <1>1, <1>2, <1>3, PTL DEF Spec

=============================================================================
