--------------------------- MODULE CommandsProofs ---------------------------
(***************************************************************************)
(* Proofs about Commands: every variable stays in its set, an asyncio.Lock *)
(* object is held by the head of its line only, and, as long as the table  *)
(* has room for a lock per device, no two commands are ever inside the     *)
(* provider for one device.  Then what the pipeline promises its clients:  *)
(* the trail agrees, a locked door stays locked, a success was observed    *)
(* (again while the table has that room), the record that is forgotten is  *)
(* the oldest, and the pipeline implements one first-come-first-served     *)
(* line per device (DeviceQueues).                                         *)
(***************************************************************************)
EXTENDS Commands, FiniteSetTheorems, SequenceTheorems, WellFoundedInduction, TLAPS

\* Commands that hold or await a lock.
InLine == {"queued"} \cup AtProvider

\* An asyncio.Lock object, whatever the table does with it: whoever is inside
\* the provider is the head of the line of the lock it acquired, whoever waits
\* is in that line, and nobody refers to a lock that was not created yet.
LockInv ==
    /\ \A c \in Cmds : pc[c] \in InLine =>
         /\ lockOf[c] \in Cmds
         /\ \E i \in 1..Len(waiters[lockOf[c]]) : waiters[lockOf[c]][i] = c
         /\ pc[c] \in AtProvider => Head(waiters[lockOf[c]]) = c
    /\ \A c \in Cmds : pc[c] = "new" =>
         /\ waiters[c] = <<>>
         /\ \A d \in Devices : lockAt[d] # c
         /\ \A other \in Cmds : lockOf[other] # c
    /\ \A d \in Devices : lockUsed[d] # 0 => lockAt[d] \in Cmds

\* What the lock table adds: a command in line acquired the lock that is stored
\* for its device.
TableInv ==
    \A c \in Cmds : pc[c] \in InLine =>
        /\ lockUsed[req[c].device] # 0
        /\ lockAt[req[c].device] = lockOf[c]

-----------------------------------------------------------------------------
(* The OrderedDicts.                                                       *)

\* _remember only writes moments and zeros.
LEMMA RememberType ==
    ASSUME NEW t \in [Cmds -> Nat], NEW c \in Cmds, NEW now \in Nat
    PROVE  Remember(t, c, now) \in [Cmds -> Nat]
BY DEF Remember

\* _device_lock marks the key it is asked for and at most forgets others.
LEMMA LockTableType ==
    ASSUME NEW t \in [Devices -> Nat], NEW d \in Devices, NEW now \in Nat
    PROVE  /\ LockTable(t, d, now) \in [Devices -> Nat]
           /\ LockTable(t, d, now)[d] = now
           /\ \A e \in Devices : e # d => LockTable(t, d, now)[e] \in {t[e], 0}
BY DEF LockTable

\* With room for a lock per device, _device_lock never forgets a key.
LEMMA LockTableKeeps ==
    ASSUME NEW t \in [Devices -> Nat], NEW d \in Devices, NEW now \in Nat,
           Cardinality(Devices) <= MaxLocks
    PROVE  LockTable(t, d, now) = [t EXCEPT ![d] = now]
<1>1. CASE t[d] # 0
  BY <1>1 DEF LockTable
<1>2. CASE t[d] = 0
  <2>1. IsFiniteSet(Devices) /\ MaxLocks \in Nat
    BY ConstantsOK
  <2>2. /\ IsFiniteSet(Devices \ {d})
        /\ Cardinality(Devices \ {d}) = Cardinality(Devices) - 1
    BY <2>1, FS_RemoveElement
  <2>3. Keys(t) \subseteq Devices \ {d}
    BY <1>2 DEF Keys
  <2>4. /\ IsFiniteSet(Keys(t))
        /\ Cardinality(Keys(t)) <= Cardinality(Devices \ {d})
    BY <2>2, <2>3, FS_Subset
  <2>5. Cardinality(Devices) \in Nat /\ Cardinality(Keys(t)) \in Nat
    BY <2>1, <2>4, FS_CardinalityType
  <2>6. ~(Cardinality(Keys(t)) >= MaxLocks)
    BY <2>1, <2>2, <2>4, <2>5
  <2>7. QED
    BY <2>6 DEF LockTable
<1>3. QED
  BY <1>1, <1>2
-----------------------------------------------------------------------------
(* The registry.                                                           *)

\* A reading is of a state the device was in.
LEMMA ReadableType ==
    ASSUME TypeOK, NEW c \in Cmds
    PROVE  Readable(c) \subseteq [Fields -> Int]
<1>1. req[c].device \in Devices
  BY DEF TypeOK, Request
<1>2. past[req[c].device] \subseteq [Fields -> Int]
  BY <1>1 DEF TypeOK
<1>3. \A s \in since[c] : s.shows \in [Fields -> Int]
  BY DEF TypeOK
<1>4. QED
  BY <1>2, <1>3 DEF Readable

\* What the registry holds after ingesting a reading is of its type.
LEMMA IngestType ==
    ASSUME TypeOK, NEW d \in Devices, NEW states \in SUBSET [Fields -> Int],
           NEW reading \in Readings(states), Ingest(d, reading)
    PROVE  /\ held' \in [Devices -> [Fields -> Int]]
           /\ avail' \in [Devices -> Availability]
<1>1. /\ reading.availability \in Availability
      /\ reading.state \in [Fields -> Int]
  BY ConstantsOK DEF Readings, TypeOK, NotReported
<1>2. held[d] \in [Fields -> Int]
  BY DEF TypeOK
<1>3. MergedWith(held[d], reading.state) \in [Fields -> Int]
  BY <1>1, <1>2 DEF MergedWith
<1>4. QED
  BY <1>1, <1>3 DEF Ingest, TypeOK

\* What is noted of a command that begins.
LEMMA BegunType ==
    ASSUME TypeOK, NEW c \in Cmds
    PROVE  Begun(c) \in [Cmds -> SUBSET [by : Cmds, shows : [Fields -> Int]]]
<1>1. phys[req[c].device] \in [Fields -> Int]
  BY DEF TypeOK, Request
<1>2. QED
  BY <1>1 DEF TypeOK, Begun

\* What a request asks for is an integer.
LEMMA ExpectedType ==
    ASSUME NEW a, NEW p \in Int
    PROVE  Expected(a, p) \in Int
BY DEF Expected, PLAYING, PAUSED

-----------------------------------------------------------------------------
(* Lock objects.                                                           *)

\* The end of a command: its lock goes to the next in line.
LEMMA FinishStep ==
    ASSUME TypeOK, LockInv,
           NEW c \in Cmds, NEW s \in Finished, pc[c] \in AtProvider,
           Finish(c, s),
           held' \in [Devices -> [Fields -> Int]],
           avail' \in [Devices -> Availability]
    PROVE  TypeOK' /\ LockInv'
<1> DEFINE l == lockOf[c]
           w == waiters[l]
<1>1. /\ l \in Cmds /\ w \in Seq(Cmds) /\ w # <<>> /\ Head(w) = c
      /\ \E i \in 1..Len(w) : w[i] = c
  BY DEF LockInv, InLine, TypeOK
<1>2. /\ waiters' = [waiters EXCEPT ![l] = Tail(w)]
      /\ Tail(w) \in Seq(Cmds)
  BY <1>1 DEF Finish, Release
<1>3. CompletionEvent(s) \in {"SUCCEEDED", "FAILED", "TIMED_OUT"}
  BY DEF CompletionEvent, Finished
<1>4. TypeOK'
  <2>1. tracked' \in [Cmds -> Nat]
    <3>1. tracked \in [Cmds -> Nat] /\ uses + 1 \in Nat
      BY DEF TypeOK
    <3>2. tracked' = Remember(tracked, c, uses + 1)
      BY DEF Finish
    <3>3. QED
      BY <3>1, <3>2, RememberType
  <2>2. audit' \in [Cmds -> Seq({"requested"} \cup AuditedDenials \cup Finished)]
    BY DEF Finish, TypeOK
  <2>3. events' \in [Cmds -> Seq({"REQUESTED", "STARTED", "TIMED_OUT", "SUCCEEDED", "FAILED"})]
    BY <1>3 DEF Finish, TypeOK
  <2>4. waiters' \in [Cmds -> Seq(Cmds)]
    BY <1>1, <1>2 DEF TypeOK
  <2>5. /\ pc' \in [Cmds -> {"new", "refused", "queued", "executing", "reconciling", "done"}]
        /\ status' \in [Cmds -> {"NONE", "RUNNING"} \cup Finished]
        /\ uses' \in Nat
    BY DEF Finish, TypeOK
  <2>6. UNCHANGED <<req, lockUsed, lockAt, lockOf, wire, phys, past, cut>>
    BY DEF Finish
  <2>7. since' \in [Cmds -> SUBSET [by : Cmds, shows : [Fields -> Int]]]
    BY DEF Finish, TypeOK
  <2>8. QED
    BY <2>1, <2>2, <2>3, <2>4, <2>5, <2>6, <2>7 DEF TypeOK
<1>5. ASSUME NEW x \in Cmds, pc'[x] \in InLine
      PROVE  /\ lockOf'[x] \in Cmds
             /\ \E i \in 1..Len(waiters'[lockOf'[x]]) : waiters'[lockOf'[x]][i] = x
             /\ pc'[x] \in AtProvider => Head(waiters'[lockOf'[x]]) = x
  <2>1. x # c /\ pc'[x] = pc[x] /\ lockOf'[x] = lockOf[x]
    BY <1>5 DEF Finish, TypeOK, InLine, AtProvider
  <2>2. /\ lockOf[x] \in Cmds
        /\ \E i \in 1..Len(waiters[lockOf[x]]) : waiters[lockOf[x]][i] = x
        /\ pc[x] \in AtProvider => Head(waiters[lockOf[x]]) = x
    BY <1>5, <2>1 DEF LockInv
  <2>3. CASE lockOf[x] # l
    BY <1>1, <1>2, <2>1, <2>2, <2>3 DEF TypeOK
  <2>4. CASE lockOf[x] = l
    <3>1. PICK i \in 1..Len(w) : w[i] = x
      BY <2>2, <2>4
    <3>2. i # 1
      BY <1>1, <2>1, <3>1
    <3>3. /\ i - 1 \in 1..Len(Tail(w))
          /\ Tail(w)[i - 1] = x
      BY <1>1, <3>1, <3>2
    <3>4. pc[x] \notin AtProvider
      BY <1>1, <2>1, <2>2, <2>4
    <3>5. waiters'[l] = Tail(w)
      BY <1>1, <1>2 DEF TypeOK
    <3>6. QED
      BY <2>1, <2>2, <2>4, <3>3, <3>4, <3>5
  <2>5. QED
    BY <2>3, <2>4
<1>6. ASSUME NEW x \in Cmds, pc'[x] = "new"
      PROVE  /\ waiters'[x] = <<>>
             /\ \A d \in Devices : lockAt'[d] # x
             /\ \A other \in Cmds : lockOf'[other] # x
  <2>1. pc[x] = "new" /\ x # c
    BY <1>6 DEF Finish, TypeOK
  <2>2. x # l
    BY <2>1 DEF LockInv
  <2>3. waiters'[x] = waiters[x]
    BY <1>2, <2>2 DEF TypeOK
  <2>4. lockAt' = lockAt /\ lockOf' = lockOf
    BY DEF Finish
  <2>5. QED
    BY <2>1, <2>3, <2>4 DEF LockInv
<1>7. \A d \in Devices : lockUsed'[d] # 0 => lockAt'[d] \in Cmds
  BY DEF LockInv, Finish
<1>8. QED
  BY <1>4, <1>5, <1>6, <1>7 DEF LockInv

\* A command joins the line of the lock it was answered, or enters the provider
\* when nobody is in it.
LEMMA AcceptStep ==
    ASSUME TypeOK, LockInv, NEW c \in Cmds, Accept(c)
    PROVE  TypeOK' /\ LockInv'
<1> DEFINE d == req[c].device
           l == LockFor(c, d)
           w == waiters[l]
<1>1. pc[c] = "new" /\ d \in Devices /\ uses + 1 \in Nat /\ uses + 2 \in Nat /\ uses + 2 # 0
  BY DEF Accept, TypeOK, Request
<1>2. l \in Cmds /\ w \in Seq(Cmds) /\ (l # c => lockAt[d] = l)
  BY <1>1 DEF LockFor, LockInv, TypeOK
<1>3. /\ lockAt' = [lockAt EXCEPT ![d] = l]
      /\ lockUsed' = LockTable(lockUsed, d, uses + 2)
      /\ lockOf' = [lockOf EXCEPT ![c] = l]
      /\ waiters' = [waiters EXCEPT ![l] = Append(w, c)]
      /\ pc' = [pc EXCEPT ![c] = IF w = <<>> THEN "executing" ELSE "queued"]
  BY DEF Accept, Acquire
<1>4. Append(w, c) \in Seq(Cmds) /\ Append(w, c) # <<>>
  BY <1>2
<1>5. /\ lockUsed' \in [Devices -> Nat]
      /\ lockUsed'[d] # 0
      /\ \A e \in Devices : e # d => lockUsed'[e] \in {lockUsed[e], 0}
  <2>1. lockUsed \in [Devices -> Nat]
    BY DEF TypeOK
  <2>2. /\ LockTable(lockUsed, d, uses + 2) \in [Devices -> Nat]
        /\ LockTable(lockUsed, d, uses + 2)[d] = uses + 2
        /\ \A e \in Devices : e # d => LockTable(lockUsed, d, uses + 2)[e] \in {lockUsed[e], 0}
    <3> HIDE DEF d
    <3>1. QED
      BY <1>1, <2>1, LockTableType
  <2>3. QED
    BY <1>1, <1>3, <2>2
<1>6. TypeOK'
  <2>1. tracked' \in [Cmds -> Nat]
    <3>1. tracked \in [Cmds -> Nat]
      BY DEF TypeOK
    <3>2. tracked' = Remember(tracked, c, uses + 1)
      BY DEF Accept
    <3>3. QED
      BY <1>1, <3>1, <3>2, RememberType
  <2>2. /\ audit' \in [Cmds -> Seq({"requested"} \cup AuditedDenials \cup Finished)]
        /\ events' \in [Cmds -> Seq({"REQUESTED", "STARTED", "TIMED_OUT", "SUCCEEDED", "FAILED"})]
        /\ status' \in [Cmds -> {"NONE", "RUNNING"} \cup Finished]
        /\ uses' \in Nat
    BY <1>1 DEF Accept, TypeOK
  <2>3. /\ waiters' \in [Cmds -> Seq(Cmds)]
        /\ lockAt' \in [Devices -> Cmds \cup {NoLock}]
        /\ lockOf' \in [Cmds -> Cmds \cup {NoLock}]
        /\ pc' \in [Cmds -> {"new", "refused", "queued", "executing", "reconciling", "done"}]
    BY <1>2, <1>3, <1>4 DEF TypeOK
  <2>4. UNCHANGED <<req, wire, phys, held, avail, past, cut>>
    BY DEF Accept, deviceVars
  <2>5. since' \in [Cmds -> SUBSET [by : Cmds, shows : [Fields -> Int]]]
    BY BegunType DEF Accept, TypeOK
  <2>6. QED
    BY <1>5, <2>1, <2>2, <2>3, <2>4, <2>5 DEF TypeOK
<1>7. ASSUME NEW x \in Cmds, pc'[x] \in InLine
      PROVE  /\ lockOf'[x] \in Cmds
             /\ \E i \in 1..Len(waiters'[lockOf'[x]]) : waiters'[lockOf'[x]][i] = x
             /\ pc'[x] \in AtProvider => Head(waiters'[lockOf'[x]]) = x
  <2>1. waiters'[l] = Append(w, c)
    BY <1>2, <1>3 DEF TypeOK
  <2>2. CASE x = c
    <3>1. lockOf'[x] = l
      BY <1>3, <2>2 DEF TypeOK
    <3>2. /\ Len(Append(w, c)) \in 1..Len(Append(w, c))
          /\ Append(w, c)[Len(Append(w, c))] = c
      BY <1>2
    <3>3. w = <<>> => Head(Append(w, c)) = c
      BY <1>2
    <3>4. pc'[x] \in AtProvider => w = <<>>
      BY <1>3, <2>2 DEF TypeOK, AtProvider
    <3>5. QED
      BY <1>2, <2>1, <2>2, <3>1, <3>2, <3>3, <3>4
  <2>3. CASE x # c
    <3>1. pc[x] = pc'[x] /\ lockOf'[x] = lockOf[x]
      BY <1>3, <2>3 DEF TypeOK
    <3>2. /\ lockOf[x] \in Cmds
          /\ \E i \in 1..Len(waiters[lockOf[x]]) : waiters[lockOf[x]][i] = x
          /\ pc[x] \in AtProvider => Head(waiters[lockOf[x]]) = x
      BY <1>7, <3>1 DEF LockInv
    <3>3. CASE lockOf[x] = l
      <4>1. PICK i \in 1..Len(w) : w[i] = x
        BY <3>2, <3>3
      <4>2. /\ i \in 1..Len(Append(w, c))
            /\ Append(w, c)[i] = x
            /\ Head(Append(w, c)) = Head(w)
        BY <1>2, <4>1
      <4>3. QED
        BY <1>2, <2>1, <3>1, <3>2, <3>3, <4>2
    <3>4. CASE lockOf[x] # l
      <4>1. waiters'[lockOf[x]] = waiters[lockOf[x]]
        BY <1>3, <3>2, <3>4 DEF TypeOK
      <4>2. QED
        BY <3>1, <3>2, <4>1
    <3>5. QED
      BY <3>3, <3>4
  <2>4. QED
    BY <2>2, <2>3
<1>8. ASSUME NEW x \in Cmds, pc'[x] = "new"
      PROVE  /\ waiters'[x] = <<>>
             /\ \A e \in Devices : lockAt'[e] # x
             /\ \A other \in Cmds : lockOf'[other] # x
  <2>1. pc[x] = "new" /\ x # c
    BY <1>3, <1>8 DEF TypeOK
  <2>2. /\ waiters[x] = <<>>
        /\ \A e \in Devices : lockAt[e] # x
        /\ \A other \in Cmds : lockOf[other] # x
    BY <2>1 DEF LockInv
  <2>3. x # l
    BY <1>1, <1>2, <2>1, <2>2
  <2>4. waiters'[x] = waiters[x]
    BY <1>3, <2>3 DEF TypeOK
  <2>5. QED
    BY <1>3, <2>2, <2>3, <2>4 DEF TypeOK
<1>9. \A e \in Devices : lockUsed'[e] # 0 => lockAt'[e] \in Cmds
  BY <1>1, <1>2, <1>3, <1>5 DEF LockInv, TypeOK
<1>10. QED
  BY <1>6, <1>7, <1>8, <1>9 DEF LockInv

\* Steps that leave locks, lines and places alone.
LEMMA QuietStep ==
    ASSUME TypeOK, LockInv, TypeOK',
           UNCHANGED <<lockVars>>,
           \A x \in Cmds : pc'[x] \in InLine => pc[x] \in InLine /\ (pc'[x] \in AtProvider
               => pc[x] \in AtProvider \/ Head(waiters[lockOf[x]]) = x),
           \A x \in Cmds : pc'[x] = "new" => pc[x] = "new"
    PROVE  LockInv'
<1>1. /\ lockUsed' = lockUsed /\ lockAt' = lockAt
      /\ lockOf' = lockOf /\ waiters' = waiters
  BY DEF lockVars
<1>2. QED
  BY <1>1 DEF LockInv

\* Every step keeps every variable in its set and every lock consistent.
LEMMA LockStep == TypeOK /\ LockInv /\ [Next]_vars => TypeOK' /\ LockInv'
<1> SUFFICES ASSUME TypeOK, LockInv, [Next]_vars
             PROVE  TypeOK' /\ LockInv'
  OBVIOUS
<1>1. ASSUME NEW c \in Cmds, Refuse(c)
      PROVE  TypeOK' /\ LockInv'
  <2>1. TypeOK'
    <3>1. audit' \in [Cmds -> Seq({"requested"} \cup AuditedDenials \cup Finished)]
      BY <1>1 DEF Refuse, TypeOK
    <3>2. QED
      BY <1>1, <3>1 DEF Refuse, TypeOK, lockVars, deviceVars, seenVars
  <2>2. QED
    BY <1>1, <2>1, QuietStep DEF Refuse, TypeOK, InLine, AtProvider
<1>2. ASSUME NEW c \in Cmds, Accept(c)
      PROVE  TypeOK' /\ LockInv'
  BY <1>2, AcceptStep
<1>3. ASSUME NEW c \in Cmds, Begin(c)
      PROVE  TypeOK' /\ LockInv'
  <2>1. TypeOK'
    BY <1>3, BegunType DEF Begin, TypeOK, lockVars, deviceVars
  <2>2. QED
    BY <1>3, <2>1, QuietStep DEF Begin, TypeOK, InLine, AtProvider
<1>4. ASSUME NEW c \in Cmds, NEW s \in Finished, pc[c] \in AtProvider, Finish(c, s),
             UNCHANGED <<held, avail>>
      PROVE  TypeOK' /\ LockInv'
  <2>1. /\ held' \in [Devices -> [Fields -> Int]]
        /\ avail' \in [Devices -> Availability]
    BY <1>4 DEF TypeOK
  <2>2. QED
    BY <1>4, <2>1, FinishStep
<1>5. ASSUME NEW c \in Cmds, NEW s \in Finished, pc[c] \in AtProvider, Finish(c, s),
             NEW reading \in Readings(Readable(c)), Ingest(req[c].device, reading)
      PROVE  TypeOK' /\ LockInv'
  <2>1. req[c].device \in Devices
    BY DEF TypeOK, Request
  <2>2. /\ held' \in [Devices -> [Fields -> Int]]
        /\ avail' \in [Devices -> Availability]
    BY <1>5, <2>1, ReadableType, IngestType
  <2>3. QED
    BY <1>5, <2>2, FinishStep
<1>6. ASSUME NEW c \in Cmds, ExecuteReturnsBlind(c)
      PROVE  TypeOK' /\ LockInv'
  BY <1>4, <1>6 DEF ExecuteReturnsBlind, AtProvider, Finished
<1>7. ASSUME NEW c \in Cmds, ExecuteReturns(c)
      PROVE  TypeOK' /\ LockInv'
  <2>1. PICK reading \in Readings(Readable(c)) :
          /\ Ingest(req[c].device, reading)
          /\ \E s \in Finished : Finish(c, s)
    BY <1>7 DEF ExecuteReturns, Finished
  <2>2. pc[c] \in AtProvider
    BY <1>7 DEF ExecuteReturns, AtProvider
  <2>3. QED
    BY <1>5, <2>1, <2>2
<1>8. ASSUME NEW c \in Cmds, ExecuteRejected(c)
      PROVE  TypeOK' /\ LockInv'
  BY <1>4, <1>8 DEF ExecuteRejected, AtProvider, Finished
<1>9. ASSUME NEW c \in Cmds, ExecuteRaises(c)
      PROVE  TypeOK' /\ LockInv'
  BY <1>4, <1>9 DEF ExecuteRaises, AtProvider, Finished
<1>10. ASSUME NEW c \in Cmds, ExecuteTimesOut(c)
       PROVE  TypeOK' /\ LockInv'
  <2>1. TypeOK'
    <3>1. events' \in [Cmds -> Seq({"REQUESTED", "STARTED", "TIMED_OUT", "SUCCEEDED", "FAILED"})]
      BY <1>10 DEF ExecuteTimesOut, TypeOK
    <3>2. QED
      BY <1>10, <3>1 DEF ExecuteTimesOut, TypeOK, lockVars, deviceVars
  <2>2. QED
    BY <1>10, <2>1, QuietStep DEF ExecuteTimesOut, TypeOK, InLine, AtProvider
<1>11. ASSUME NEW c \in Cmds, ReconcileReturns(c)
       PROVE  TypeOK' /\ LockInv'
  <2>1. PICK reading \in Readings(Readable(c)) :
          /\ Ingest(req[c].device, reading)
          /\ Finish(c, ReconcileOutcome(c, reading))
    BY <1>11 DEF ReconcileReturns
  <2>2. ReconcileOutcome(c, reading) \in Finished
    BY DEF ReconcileOutcome, Finished
  <2>3. pc[c] \in AtProvider
    BY <1>11 DEF ReconcileReturns, AtProvider
  <2>4. QED
    BY <1>5, <2>1, <2>2, <2>3
<1>12. ASSUME NEW c \in Cmds, ReconcileFails(c)
       PROVE  TypeOK' /\ LockInv'
  BY <1>4, <1>12 DEF ReconcileFails, AtProvider, Finished
<1>13. ASSUME NEW c \in Cmds, AdapterWrites(c) \/ WriteIsLost(c)
       PROVE  TypeOK' /\ LockInv'
  <2>1. TypeOK'
    BY <1>13 DEF AdapterWrites, WriteIsLost, TypeOK, lockVars, deviceVars, seenVars
  <2>2. QED
    BY <1>13, <2>1, QuietStep DEF AdapterWrites, WriteIsLost
<1>14. ASSUME NEW c \in Cmds, WriteLands(c)
       PROVE  TypeOK' /\ LockInv'
  <2> DEFINE d == req[c].device
             now == [phys[d] EXCEPT ![req[c].action] = Expected(req[c].action, req[c].param)]
  <2>1. /\ phys' \in [Devices -> [Fields -> Int]]
        /\ past' \in [Devices -> SUBSET [Fields -> Int]]
        /\ since' \in [Cmds -> SUBSET [by : Cmds, shows : [Fields -> Int]]]
    <3>1. Expected(req[c].action, req[c].param) \in Int
      BY ExpectedType DEF TypeOK, Request
    <3>2. d \in Devices /\ now \in [Fields -> Int]
      BY <3>1 DEF TypeOK, Request
    <3>3. /\ phys' = [phys EXCEPT ![d] = now]
          /\ past' = [past EXCEPT ![d] = @ \cup {now}]
          /\ since' = [x \in Cmds |-> IF pc[x] \in AtProvider /\ req[x].device = d
                                       THEN since[x] \cup {[by |-> c, shows |-> now]}
                                       ELSE since[x]]
      BY <1>14 DEF WriteLands
    <3>4. QED
      <4> HIDE DEF d, now
      <4>1. QED
        BY <3>2, <3>3 DEF TypeOK
  <2>2. TypeOK'
    BY <1>14, <2>1 DEF WriteLands, TypeOK, lockVars
  <2>3. QED
    BY <1>14, <2>2, QuietStep DEF WriteLands
<1>15. ASSUME NEW d \in Devices, Observe(d)
       PROVE  TypeOK' /\ LockInv'
  <2>1. /\ held' \in [Devices -> [Fields -> Int]]
        /\ avail' \in [Devices -> Availability]
    <3>1. past[d] \in SUBSET [Fields -> Int]
      BY DEF TypeOK
    <3>2. QED
      BY <1>15, <3>1, IngestType DEF Observe
  <2>2. TypeOK'
    BY <1>15, <2>1 DEF Observe, TypeOK, lockVars, seenVars
  <2>3. QED
    BY <1>15, <2>2, QuietStep DEF Observe
<1>16. CASE UNCHANGED vars
  BY <1>16 DEF vars, TypeOK, LockInv
<1>17. QED
  BY <1>1, <1>2, <1>3, <1>6, <1>7, <1>8, <1>9, <1>10, <1>11, <1>12, <1>13, <1>14,
     <1>15, <1>16 DEF Next

\* The initial state.
LEMMA LockInit == Init => TypeOK /\ LockInv
<1> SUFFICES ASSUME Init
             PROVE  TypeOK /\ LockInv
  OBVIOUS
<1>1. TypeOK
  <2>1. /\ req \in [Cmds -> Request]
        /\ phys \in [Devices -> [Fields -> Int]] /\ held \in [Devices -> [Fields -> Int]]
    BY ConstantsOK DEF Init
  <2>2. /\ past \in [Devices -> SUBSET [Fields -> Int]]
        /\ since \in [Cmds -> SUBSET [by : Cmds, shows : [Fields -> Int]]]
        /\ cut \subseteq Cmds
    BY <2>1 DEF Init
  <2>3. QED
    BY <2>1, <2>2 DEF Init, TypeOK, Availability
<1>2. LockInv
  BY ConstantsOK DEF Init, LockInv, InLine, AtProvider
<1>3. QED
  BY <1>1, <1>2

\* Every variable of the pipeline stays in its set, whatever the requests, the
\* bounds and the adapters do.
THEOREM TypeCorrect == Spec => []TypeOK
<1>1. Spec => [](TypeOK /\ LockInv)
  BY LockInit, LockStep, PTL DEF Spec
<1>2. QED
  BY <1>1, PTL

\* An asyncio.Lock object is held by one command at a time, also when the table
\* that maps devices to locks overflows.
THEOREM LocksExclude == Spec => []LockInv
<1>1. Spec => [](TypeOK /\ LockInv)
  BY LockInit, LockStep, PTL DEF Spec
<1>2. QED
  BY <1>1, PTL

-----------------------------------------------------------------------------
(* The lock table.                                                         *)

\* Steps that leave the table alone and let nobody join a line.
LEMMA TableQuiet ==
    ASSUME TableInv,
           UNCHANGED <<req, lockUsed, lockAt, lockOf>>,
           \A x \in Cmds : pc'[x] \in InLine => pc[x] \in InLine
    PROVE  TableInv'
BY DEF TableInv

\* A new command in line keeps every other entry of a table that has room.
LEMMA TableAccept ==
    ASSUME Cardinality(Devices) <= MaxLocks,
           TypeOK, TableInv, NEW c \in Cmds, Accept(c)
    PROVE  TableInv'
<1> DEFINE d == req[c].device
           l == LockFor(c, d)
<1>1. d \in Devices /\ uses + 2 \in Nat /\ uses + 2 # 0 /\ lockUsed \in [Devices -> Nat]
  BY DEF TypeOK, Request
<1>2. /\ lockAt' = [lockAt EXCEPT ![d] = l]
      /\ lockUsed' = LockTable(lockUsed, d, uses + 2)
      /\ lockOf' = [lockOf EXCEPT ![c] = l]
      /\ \E p \in {"executing", "queued"} : pc' = [pc EXCEPT ![c] = p]
      /\ req' = req
  BY DEF Accept, Acquire
<1>3. lockUsed' = [lockUsed EXCEPT ![d] = uses + 2]
  <2>1. LockTable(lockUsed, d, uses + 2) = [lockUsed EXCEPT ![d] = uses + 2]
    <3> HIDE DEF d
    <3>1. QED
      BY <1>1, LockTableKeeps
  <2>2. QED
    BY <1>2, <2>1
<1>4. lockUsed[d] # 0 => l = lockAt[d]
  BY DEF LockFor
<1>5. SUFFICES ASSUME NEW x \in Cmds, pc'[x] \in InLine
               PROVE  /\ lockUsed'[req[x].device] # 0
                      /\ lockAt'[req[x].device] = lockOf'[x]
  BY <1>2 DEF TableInv
<1>6. req[x].device \in Devices
  BY DEF TypeOK, Request
<1>7. CASE x = c
  <2>1. lockOf'[x] = l /\ lockAt'[d] = l /\ lockUsed'[d] # 0
    BY <1>1, <1>2, <1>3, <1>7 DEF TypeOK
  <2>2. QED
    BY <1>7, <2>1
<1>8. CASE x # c
  <2>1. /\ pc[x] \in InLine /\ lockOf'[x] = lockOf[x]
    BY <1>2, <1>5, <1>8 DEF TypeOK
  <2>2. lockUsed[req[x].device] # 0 /\ lockAt[req[x].device] = lockOf[x]
    BY <2>1 DEF TableInv
  <2>3. CASE req[x].device = d
    <3>1. lockAt'[d] = l /\ lockUsed'[d] # 0
      BY <1>1, <1>2, <1>3 DEF TypeOK
    <3>2. QED
      BY <1>4, <2>1, <2>2, <2>3, <3>1
  <2>4. CASE req[x].device # d
    <3>1. /\ lockAt'[req[x].device] = lockAt[req[x].device]
          /\ lockUsed'[req[x].device] = lockUsed[req[x].device]
      BY <1>1, <1>2, <1>3, <1>6, <2>4 DEF TypeOK
    <3>2. QED
      BY <2>1, <2>2, <3>1
  <2>5. QED
    BY <2>3, <2>4
<1>9. QED
  BY <1>7, <1>8

\* The table keeps pointing at the locks in use.
LEMMA TableStep ==
    ASSUME Cardinality(Devices) <= MaxLocks,
           TypeOK, TableInv, [Next]_vars
    PROVE  TableInv'
<1>1. ASSUME NEW c \in Cmds, Accept(c)
      PROVE  TableInv'
  BY <1>1, TableAccept
<1>2. ASSUME NEW c \in Cmds, Refuse(c)
      PROVE  TableInv'
  <2>1. /\ \A x \in Cmds : pc'[x] \in InLine => pc[x] \in InLine
        /\ UNCHANGED <<req, lockUsed, lockAt, lockOf>>
    BY <1>2 DEF Refuse, TypeOK, InLine, AtProvider, lockVars
  <2>2. QED
    BY <2>1, TableQuiet
<1>3. ASSUME NEW c \in Cmds, Begin(c) \/ ExecuteTimesOut(c)
      PROVE  TableInv'
  <2>1. /\ \A x \in Cmds : pc'[x] \in InLine => pc[x] \in InLine
        /\ UNCHANGED <<req, lockUsed, lockAt, lockOf>>
    BY <1>3 DEF Begin, ExecuteTimesOut, TypeOK, InLine, AtProvider, lockVars
  <2>2. QED
    BY <2>1, TableQuiet
<1>4. ASSUME NEW c \in Cmds, NEW s, Finish(c, s)
      PROVE  TableInv'
  <2>1. /\ \A x \in Cmds : pc'[x] \in InLine => pc[x] \in InLine
        /\ UNCHANGED <<req, lockUsed, lockAt, lockOf>>
    BY <1>4 DEF Finish, TypeOK, InLine, AtProvider
  <2>2. QED
    BY <2>1, TableQuiet
<1>5. ASSUME NEW c \in Cmds,
             \/ ExecuteReturnsBlind(c) \/ ExecuteReturns(c) \/ ExecuteRejected(c)
             \/ ExecuteRaises(c) \/ ReconcileReturns(c) \/ ReconcileFails(c)
      PROVE  TableInv'
  <2>1. \E s : Finish(c, s)
    BY <1>5 DEF ExecuteReturnsBlind, ExecuteReturns, ExecuteRejected, ExecuteRaises,
                ReconcileReturns, ReconcileFails
  <2>2. QED
    BY <1>4, <2>1
<1>6. ASSUME NEW c \in Cmds, AdapterWrites(c) \/ WriteLands(c) \/ WriteIsLost(c)
      PROVE  TableInv'
  BY <1>6, TableQuiet DEF AdapterWrites, WriteLands, WriteIsLost, lockVars
<1>7. ASSUME NEW d \in Devices, Observe(d)
      PROVE  TableInv'
  BY <1>7, TableQuiet DEF Observe, lockVars
<1>8. CASE UNCHANGED vars
  BY <1>8, TableQuiet DEF vars
<1>9. QED
  BY <1>1, <1>2, <1>3, <1>5, <1>6, <1>7, <1>8 DEF Next

\* While the table has room for a lock per device, two commands for one device
\* are never inside the provider at the same time (service.py:217).
THEOREM MutualExclusion ==
    ASSUME Cardinality(Devices) <= MaxLocks
    PROVE  Spec => []NoOverlappingWrites
<1>1. Init => TableInv
  BY DEF Init, TableInv, InLine, AtProvider
<1>2. TypeOK /\ LockInv /\ TableInv /\ [Next]_vars => TableInv'
  BY TableStep
<1>3. LockInv /\ TableInv => NoOverlappingWrites
  <2> SUFFICES ASSUME LockInv, TableInv,
                      NEW c1 \in Cmds, NEW c2 \in Cmds,
                      pc[c1] \in AtProvider, pc[c2] \in AtProvider,
                      req[c1].device = req[c2].device
               PROVE  c1 = c2
    BY DEF NoOverlappingWrites
  <2>1. lockOf[c1] = lockOf[c2]
    BY DEF TableInv, InLine
  <2>2. c1 = Head(waiters[lockOf[c1]]) /\ c2 = Head(waiters[lockOf[c2]])
    BY DEF LockInv, InLine
  <2>3. QED
    BY <2>1, <2>2
<1>4. QED
  BY <1>1, <1>2, <1>3, LockInit, LockStep, PTL DEF Spec

-----------------------------------------------------------------------------
(* Steps.                                                                  *)

\* What a step can be for the promises: most ends of a command are the same.
LEMMA Steps ==
  ASSUME [Next]_vars
  PROVE  \/ \E c \in Cmds : Refuse(c) \/ Accept(c) \/ Begin(c) \/ ExecuteTimesOut(c)
         \/ \E c \in Cmds : AdapterWrites(c) \/ WriteLands(c) \/ WriteIsLost(c)
         \/ \E c \in Cmds : pc[c] \in AtProvider /\ \E s \in Finished : Finish(c, s)
         \/ UNCHANGED <<pc, req, status, tracked, uses, lockVars, wire, phys, audit, events, seenVars>>
  <1>1. ASSUME NEW c \in Cmds, ExecuteReturnsBlind(c) \/ ExecuteRejected(c) \/ ExecuteRaises(c)
                                 \/ ReconcileFails(c)
        PROVE  pc[c] \in AtProvider /\ \E s \in Finished : Finish(c, s)
    BY <1>1 DEF ExecuteReturnsBlind, ExecuteRejected, ExecuteRaises, ReconcileFails,
                AtProvider, Finished
  <1>2. ASSUME NEW c \in Cmds, ExecuteReturns(c)
        PROVE  pc[c] \in AtProvider /\ \E s \in Finished : Finish(c, s)
    BY <1>2 DEF ExecuteReturns, AtProvider, Finished
  <1>3. ASSUME NEW c \in Cmds, ReconcileReturns(c)
        PROVE  pc[c] \in AtProvider /\ \E s \in Finished : Finish(c, s)
    BY <1>3 DEF ReconcileReturns, ReconcileOutcome, AtProvider, Finished
  <1>4. ASSUME NEW d \in Devices, Observe(d)
        PROVE  UNCHANGED <<pc, req, status, tracked, uses, lockVars, wire, phys, audit, events, seenVars>>
    BY <1>4 DEF Observe
  <1>5. CASE UNCHANGED vars
    BY <1>5 DEF vars, lockVars, seenVars
  <1> QED  BY <1>1, <1>2, <1>3, <1>4, <1>5 DEF Next

\* A request is one of those the clients make, from its submission on.
Asked == req \in [Cmds -> Requests]

-----------------------------------------------------------------------------
(* The audit trail.                                                        *)

\* A command is audited as requested before it stands in line, and as settled
\* in the step in which it settles; nothing is written for one that is not in
\* line or settled.
TrailInv ==
    \A c \in Cmds :
       /\ pc[c] \in {"new", "refused"} => wire[c] = "idle"
       /\ pc[c] \in InLine => audit[c] = <<"requested">>
       /\ pc[c] = "done" => /\ audit[c] = <<"requested", status[c]>>
                            /\ events[c][Len(events[c])] = CompletionEvent(status[c])

\* The audit entries of a command that settles.
LEMMA AppendPair ==
  ASSUME NEW S, NEW a \in S, NEW b \in S
  PROVE  Append(<<a>>, b) = <<a, b>>
  <1> DEFINE s == Append(<<a>>, b)
             t == <<a, b>>
  <1>1. Len(s) = 2 /\ s[1] = a /\ s[2] = b
    OBVIOUS
  <1>2. s \in Seq(S) /\ t \in Seq(S) /\ Len(t) = 2 /\ t[1] = a /\ t[2] = b
    OBVIOUS
  <1> HIDE DEF s, t
  <1>3. \A i \in 1 .. Len(s) : s[i] = t[i]
    BY <1>1, <1>2
  <1>4. s = t
    BY <1>1, <1>2, <1>3, SeqEqual
  <1> QED  BY <1>4 DEF s, t

\* Every step keeps what is known of the trail.
LEMMA TrailStep == TypeOK /\ TrailInv /\ [Next]_vars => TrailInv'
  <1> SUFFICES ASSUME TypeOK, TrailInv, [Next]_vars PROVE TrailInv'
    OBVIOUS
  <1>1. ASSUME NEW c \in Cmds, Refuse(c) PROVE TrailInv'
    BY <1>1 DEF Refuse, TrailInv, TypeOK, InLine, AtProvider
  <1>2. ASSUME NEW c \in Cmds, Accept(c) PROVE TrailInv'
    BY <1>2 DEF Accept, Acquire, TrailInv, TypeOK, InLine, AtProvider
  <1>3. ASSUME NEW c \in Cmds, Begin(c) PROVE TrailInv'
    BY <1>3 DEF Begin, TrailInv, TypeOK, InLine, AtProvider
  <1>4. ASSUME NEW c \in Cmds, ExecuteTimesOut(c) PROVE TrailInv'
    BY <1>4 DEF ExecuteTimesOut, TrailInv, TypeOK, InLine, AtProvider
  <1>5. ASSUME NEW c \in Cmds, AdapterWrites(c) \/ WriteLands(c) \/ WriteIsLost(c) PROVE TrailInv'
    <2>1. pc' = pc /\ status' = status /\ audit' = audit /\ events' = events
      BY <1>5 DEF AdapterWrites, WriteLands, WriteIsLost
    <2>2. pc[c] = "executing" \/ wire[c] = "sent"
      BY <1>5 DEF AdapterWrites, WriteLands, WriteIsLost
    <2>3. \A x \in Cmds \ {c} : wire'[x] = wire[x]
      BY <1>5 DEF AdapterWrites, WriteLands, WriteIsLost, TypeOK
    <2>4. pc[c] \notin {"new", "refused"}
      BY <2>2 DEF TrailInv
    <2> QED  BY <2>1, <2>3, <2>4 DEF TrailInv
  <1>6. ASSUME NEW c \in Cmds, pc[c] \in AtProvider, NEW s \in Finished, Finish(c, s)
        PROVE  TrailInv'
    <2>1. audit[c] = <<"requested">>
      BY <1>6 DEF TrailInv, InLine
    <2>2. \A e \in Seq({"REQUESTED", "STARTED", "TIMED_OUT", "SUCCEEDED", "FAILED"}) : \A x :
             Append(e, x)[Len(Append(e, x))] = x
      OBVIOUS
    <2>3. /\ audit'[c] = <<"requested", s>> /\ status'[c] = s /\ pc'[c] = "done"
          /\ events'[c] = Append(events[c], CompletionEvent(s))
      <3>1. /\ audit'[c] = Append(audit[c], s) /\ status'[c] = s /\ pc'[c] = "done"
            /\ events'[c] = Append(events[c], CompletionEvent(s))
        BY <1>6 DEF Finish, TypeOK
      <3>2. Append(<<"requested">>, s) = <<"requested", s>>
        BY AppendPair, "requested" \in {"requested"} \cup Finished, s \in {"requested"} \cup Finished
      <3> QED  BY <2>1, <3>1, <3>2
    <2>4. events'[c][Len(events'[c])] = CompletionEvent(s)
      BY <2>2, <2>3 DEF TypeOK
    <2>5. \A x \in Cmds \ {c} : /\ pc'[x] = pc[x] /\ audit'[x] = audit[x]
                                /\ status'[x] = status[x] /\ events'[x] = events[x]
      BY <1>6 DEF Finish, TypeOK
    <2>6. wire' = wire
      BY <1>6 DEF Finish
    <2> QED  BY <2>3, <2>4, <2>5, <2>6 DEF TrailInv, InLine, AtProvider
  <1>7. CASE UNCHANGED <<pc, req, status, tracked, uses, lockVars, wire, phys, audit, events, seenVars>>
    BY <1>7 DEF TrailInv
  <1> QED  BY <1>1, <1>2, <1>3, <1>4, <1>5, <1>6, <1>7, Steps

\* The audit trail, the bus and the record agree on every command, and no write
\* leaves for a device before its request is audited (TrailAgrees).
THEOREM TrailAgreesHolds == Spec => []TrailAgrees
  <1>1. Init => TrailInv
    BY DEF Init, TrailInv, InLine, AtProvider
  <1>2. TypeOK /\ TrailInv => TrailAgrees
    <2> SUFFICES ASSUME TypeOK, TrailInv, NEW c \in Cmds
                 PROVE  /\ wire[c] # "idle" => audit[c] # <<>> /\ audit[c][1] = "requested"
                        /\ pc[c] \notin {"done", "refused", "new"} => audit[c] = <<"requested">>
      BY DEF TrailAgrees, TrailInv
    <2>1. pc[c] \in {"new", "refused", "done"} \/ pc[c] \in InLine
      BY DEF TypeOK, InLine, AtProvider
    <2> QED  BY <2>1 DEF TrailInv
  <1> QED  BY <1>1, <1>2, TrailStep, TypeCorrect, PTL DEF Spec

-----------------------------------------------------------------------------
(* The door.                                                               *)

\* What was accepted does not ask for an open lock, so what is written does not.
DoorInv ==
    /\ \A c \in Cmds :
          /\ pc[c] \notin {"new", "refused"} /\ req[c].action = "SET_LOCK_STATE" => req[c].param = LOCKED
          /\ wire[c] # "idle" => pc[c] \notin {"new", "refused"}
    /\ DoorStaysLocked

\* The checks of submit refuse to unlock.
LEMMA NoUnlocking ==
  ASSUME NEW r \in Request, Verdict(r) = "accepted", r.action = "SET_LOCK_STATE"
  PROVE  r.param = LOCKED
  BY DEF Verdict, ParamsModel, classify, OnOffActions, LOCKED, UNLOCKED

\* Every step keeps the door as it is.
LEMMA DoorStep == TypeOK /\ DoorInv /\ [Next]_vars => DoorInv'
  <1> SUFFICES ASSUME TypeOK, DoorInv, [Next]_vars PROVE DoorInv'
    OBVIOUS
  <1>1. ASSUME NEW c \in Cmds, Refuse(c) PROVE DoorInv'
    BY <1>1 DEF Refuse, DoorInv, DoorStaysLocked, TypeOK, deviceVars
  <1>2. ASSUME NEW c \in Cmds, Accept(c) PROVE DoorInv'
    BY <1>2, NoUnlocking DEF Accept, Acquire, DoorInv, DoorStaysLocked, TypeOK, deviceVars
  <1>3. ASSUME NEW c \in Cmds, Begin(c) \/ ExecuteTimesOut(c) PROVE DoorInv'
    BY <1>3 DEF Begin, ExecuteTimesOut, DoorInv, DoorStaysLocked, TypeOK, deviceVars
  <1>4. ASSUME NEW c \in Cmds, AdapterWrites(c) \/ WriteIsLost(c) PROVE DoorInv'
    BY <1>4 DEF AdapterWrites, WriteIsLost, DoorInv, DoorStaysLocked, TypeOK, deviceVars
  <1>5. ASSUME NEW c \in Cmds, WriteLands(c) PROVE DoorInv'
    <2>1. /\ wire[c] = "sent" /\ wire' = [wire EXCEPT ![c] = "landed"]
          /\ pc' = pc /\ req' = req
          /\ phys' = [phys EXCEPT ![req[c].device][req[c].action] =
                          Expected(req[c].action, req[c].param)]
      BY <1>5 DEF WriteLands
    <2>2. req[c].action = "SET_LOCK_STATE" => Expected(req[c].action, req[c].param) = LOCKED
      BY <2>1 DEF DoorInv, Expected
    <2>3. DoorStaysLocked'
      BY <2>1, <2>2 DEF DoorInv, DoorStaysLocked, TypeOK
    <2> QED  BY <2>1, <2>3 DEF DoorInv, TypeOK
  <1>6. ASSUME NEW c \in Cmds, pc[c] \in AtProvider, NEW s \in Finished, Finish(c, s)
        PROVE  DoorInv'
    BY <1>6 DEF Finish, DoorInv, DoorStaysLocked, TypeOK, AtProvider
  <1>7. CASE UNCHANGED <<pc, req, status, tracked, uses, lockVars, wire, phys, audit, events, seenVars>>
    BY <1>7 DEF DoorInv, DoorStaysLocked
  <1> QED  BY <1>1, <1>2, <1>3, <1>4, <1>5, <1>6, <1>7, Steps

\* No command ever unlocks a door that was locked, late writes included, for any
\* requests and capabilities (DoorStaysLocked).
THEOREM DoorStaysLockedHolds == Spec => []DoorStaysLocked
  <1>1. Init => DoorInv
    BY DEF Init, DoorInv, DoorStaysLocked
  <1>2. DoorInv => DoorStaysLocked
    BY DEF DoorInv
  <1> QED  BY <1>1, <1>2, DoorStep, TypeCorrect, PTL DEF Spec

-----------------------------------------------------------------------------
(* What a success means.                                                   *)

\* The state a reading shows of a field is that of a moment it may be of, or none.
LEMMA ReadingShows ==
  ASSUME NEW states, NEW reading \in Readings(states), NEW f \in Fields,
         reading.state[f] # NotReported
  PROVE  \E s \in states : s[f] = reading.state[f]
  BY DEF Readings

\* What the comparison confirms was there at a moment the reading may be of, and
\* the registry takes it over.
LEMMA Confirmed ==
  ASSUME TypeOK, Asked, NEW c \in Cmds, NEW reading \in Readings(Readable(c)),
         req[c].action \notin LooselyConfirmed,
         desired_matches(req[c].action, req[c].param, reading.state[req[c].action]) = "TRUE",
         Ingest(req[c].device, reading)
  PROVE  LET r == req[c]
         IN  /\ \E s \in Readable(c) : s[r.action] = Expected(r.action, r.param)
             /\ held'[r.device][r.action] = Expected(r.action, r.param)
  <1> DEFINE d == req[c].device
             a == req[c].action
  <1>1. d \in Devices /\ a \in Fields
    BY DEF Asked, TypeOK, Request, Fields
  <1>2. reading.state[a] = Expected(a, req[c].param) /\ reading.state[a] # NotReported
    BY DEF desired_matches, LooselyConfirmed
  <1>3. \E s \in Readable(c) : s[a] = reading.state[a]
    BY <1>1, <1>2, ReadingShows
  <1>4. held'[d] = MergedWith(held[d], reading.state)
    BY <1>1 DEF Ingest, TypeOK
  <1>5. held'[d][a] = reading.state[a]
    BY <1>1, <1>2, <1>4 DEF MergedWith
  <1> QED  BY <1>2, <1>3, <1>5

\* The step of a success is one that confirms.
LEMMA SuccessStep ==
  ASSUME TypeOK, Asked, [Next]_vars, NEW c \in Cmds,
         status[c] = "RUNNING", status'[c] = "SUCCEEDED",
         req[c].action \notin LooselyConfirmed
  PROVE  /\ pc[c] \in AtProvider
         /\ \E reading \in Readings(Readable(c)) :
              /\ desired_matches(req[c].action, req[c].param, reading.state[req[c].action]) = "TRUE"
              /\ Ingest(req[c].device, reading)
  <1>1. ASSUME NEW x \in Cmds, NEW s, Finish(x, s), s # "SUCCEEDED" PROVE FALSE
    BY <1>1 DEF Finish, TypeOK
  <1>2. ASSUME NEW x \in Cmds, NEW s, Finish(x, s), x # c PROVE FALSE
    BY <1>2 DEF Finish, TypeOK
  <1>3. ASSUME NEW x \in Cmds, ExecuteReturnsBlind(x) \/ ExecuteRejected(x) \/ ExecuteRaises(x)
                                 \/ ReconcileFails(x)
        PROVE  FALSE
    BY <1>1, <1>3 DEF ExecuteReturnsBlind, ExecuteRejected, ExecuteRaises, ReconcileFails
  <1>4. CASE \E x \in Cmds : ExecuteReturns(x)
    <2>0. PICK x \in Cmds : ExecuteReturns(x)
      BY <1>4
    <2>1. PICK reading \in Readings(Readable(x)) : \E applied \in Applied(req[x], reading) :
             /\ Ingest(req[x].device, reading)
             /\ Finish(x, IF applied THEN "SUCCEEDED" ELSE "UNKNOWN")
      BY <2>0 DEF ExecuteReturns
    <2>2. x = c
      BY <1>2, <2>1
    <2>3. \E applied \in Applied(req[x], reading) : applied
      BY <1>1, <2>1
    <2>4. desired_matches(req[c].action, req[c].param, reading.state[req[c].action]) = "TRUE"
      BY <2>2, <2>3 DEF Applied
    <2> QED  BY <2>0, <2>1, <2>2, <2>4 DEF ExecuteReturns, AtProvider
  <1>5. CASE \E x \in Cmds : ReconcileReturns(x)
    <2>0. PICK x \in Cmds : ReconcileReturns(x)
      BY <1>5
    <2>1. PICK reading \in Readings(Readable(x)) :
             Ingest(req[x].device, reading) /\ Finish(x, ReconcileOutcome(x, reading))
      BY <2>0 DEF ReconcileReturns
    <2>2. x = c
      BY <1>2, <2>1
    <2>3. ReconcileOutcome(x, reading) = "SUCCEEDED"
      BY <1>1, <2>1
    <2> QED  BY <2>0, <2>1, <2>2, <2>3 DEF ReconcileOutcome, ReconcileReturns, AtProvider
  <1>6. ASSUME NEW x \in Cmds, Accept(x) PROVE FALSE
    BY <1>6 DEF Accept, TypeOK
  <1>7. ASSUME \/ \E x \in Cmds : \/ Refuse(x) \/ Begin(x) \/ ExecuteTimesOut(x)
                                  \/ AdapterWrites(x) \/ WriteLands(x) \/ WriteIsLost(x)
               \/ \E d \in Devices : Observe(d)
               \/ UNCHANGED vars
        PROVE  FALSE
    BY <1>7 DEF Refuse, Begin, ExecuteTimesOut, AdapterWrites, WriteLands, WriteIsLost,
                Observe, vars
  <1> QED  BY <1>3, <1>4, <1>5, <1>6, <1>7 DEF Next

\* Requests do not change.
LEMMA AskedStep == Asked /\ [Next]_vars => Asked'
  <1> SUFFICES ASSUME [Next]_vars PROVE req' = req
    BY DEF Asked
  <1>1. ASSUME NEW c \in Cmds, Refuse(c) \/ Accept(c) \/ Begin(c) \/ ExecuteTimesOut(c)
        PROVE  req' = req
    BY <1>1 DEF Refuse, Accept, Begin, ExecuteTimesOut
  <1>2. ASSUME NEW c \in Cmds, AdapterWrites(c) \/ WriteLands(c) \/ WriteIsLost(c)
        PROVE  req' = req
    BY <1>2 DEF AdapterWrites, WriteLands, WriteIsLost
  <1>3. ASSUME NEW c \in Cmds, NEW s, Finish(c, s) PROVE req' = req
    BY <1>3 DEF Finish
  <1> QED  BY <1>1, <1>2, <1>3, Steps

\* A write is handed to the network while its command is inside the provider.  As
\* long as nobody else is inside for that device, what the device showed since a
\* command began stays there, unless a write that was left behind is about the
\* same field.
SeenInv ==
    \A c \in Cmds :
       LET r == req[c] IN
       /\ wire[c] # "idle" => pc[c] \in AtProvider \cup {"done"}
       /\ pc[c] \in AtProvider
          /\ (\E s \in since[c] : s.shows[r.action] = Expected(r.action, r.param))
            => phys[r.device][r.action] = Expected(r.action, r.param) \/ Overtaken(c)

\* A write that lands is the command's own, of another field, or left behind.
LEMMA SeenWrite ==
  ASSUME TypeOK, Asked, NoOverlappingWrites, SeenInv, NEW x \in Cmds, WriteLands(x)
  PROVE  SeenInv'
  <1> DEFINE d == req[x].device
             a == req[x].action
             now == [phys[d] EXCEPT ![a] = Expected(a, req[x].param)]
  <1>1. /\ wire[x] = "sent" /\ wire' = [wire EXCEPT ![x] = "landed"]
        /\ phys' = [phys EXCEPT ![d] = now] /\ pc' = pc /\ req' = req
        /\ since' = [c \in Cmds |-> IF pc[c] \in AtProvider /\ req[c].device = d
                                     THEN since[c] \cup {[by |-> x, shows |-> now]}
                                     ELSE since[c]]
    BY DEF WriteLands
  <1>2. /\ d \in Devices /\ a \in Fields /\ phys[d] \in [Fields -> Int]
        /\ now[a] = Expected(a, req[x].param) /\ \A f \in Fields \ {a} : now[f] = phys[d][f]
    <2>1. d \in Devices /\ a \in Fields
      BY DEF Asked, TypeOK, Request, Fields
    <2>2. phys[d] \in [Fields -> Int]
      BY <2>1 DEF TypeOK
    <2> HIDE DEF d, a
    <2> QED  BY <2>1, <2>2
  <1>3. pc[x] \in AtProvider \cup {"done"}
    BY <1>1 DEF SeenInv
  <1> SUFFICES ASSUME NEW c \in Cmds
               PROVE  LET r == req[c] IN
                      /\ wire'[c] # "idle" => pc[c] \in AtProvider \cup {"done"}
                      /\ pc[c] \in AtProvider
                         /\ (\E s \in since'[c] : s.shows[r.action] = Expected(r.action, r.param))
                           => phys'[r.device][r.action] = Expected(r.action, r.param)
                              \/ Overtaken(c)'
    BY <1>1 DEF SeenInv
  <1>4. wire'[c] # "idle" => pc[c] \in AtProvider \cup {"done"}
    BY <1>1, <1>3 DEF SeenInv, TypeOK
  <1>5. SUFFICES ASSUME pc[c] \in AtProvider, NEW s \in since'[c],
                        s.shows[req[c].action] = Expected(req[c].action, req[c].param)
                 PROVE  phys'[req[c].device][req[c].action] = Expected(req[c].action, req[c].param)
                        \/ Overtaken(c)'
    BY <1>4
  <1>6. Overtaken(c) => Overtaken(c)'
    BY <1>1 DEF Overtaken
  <1>7. CASE req[c].device # d
    <2>1. since'[c] = since[c] /\ phys'[req[c].device] = phys[req[c].device]
      BY <1>1, <1>2, <1>7 DEF TypeOK
    <2> QED  BY <1>5, <1>6, <2>1 DEF SeenInv
  <1>8. CASE req[c].device = d /\ c = x
    BY <1>1, <1>2, <1>8 DEF TypeOK
  <1>9. CASE req[c].device = d /\ c # x /\ req[c].action = a
    <2>1. pc[x] = "done"
      BY <1>3, <1>5, <1>9 DEF NoOverlappingWrites
    <2>2. [by |-> x, shows |-> now] \in since'[c]
      BY <1>1, <1>5, <1>9
    <2> HIDE DEF now
    <2>3. Overtaken(c)'
      BY <1>1, <1>9, <2>1, <2>2 DEF Overtaken
    <2> QED  BY <2>3
  <1>10. CASE req[c].device = d /\ req[c].action # a
    <2>1. req[c].action \in Fields /\ phys'[d] = now
      BY <1>1, <1>2 DEF Asked, Fields, TypeOK
    <2>2. now[req[c].action] = phys[d][req[c].action]
      BY <1>2, <1>10, <2>1
    <2>3. s \in since[c] \/ s.shows = now
      <3> HIDE DEF now
      <3> QED  BY <1>1, <1>5, <1>10
    <2> QED  BY <1>5, <1>6, <1>10, <2>1, <2>2, <2>3 DEF SeenInv
  <1> QED  BY <1>7, <1>8, <1>9, <1>10

\* What was left behind once stays so.
LEMMA StaysOvertaken ==
  ASSUME NEW c \in Cmds, since'[c] = since[c], req' = req, Overtaken(c),
         \A x \in Cmds : pc[x] = "done" => pc'[x] = "done", TypeOK
  PROVE  Overtaken(c)'
  <1>1. PICK s \in since[c] :
           s.by # c /\ pc[s.by] = "done" /\ req[s.by].action = req[c].action
    BY DEF Overtaken
  <1>2. s.by \in Cmds
    BY DEF TypeOK
  <1>3. pc'[s.by] = "done" /\ s \in since'[c]
    BY <1>1, <1>2
  <1> QED  BY <1>1, <1>3 DEF Overtaken

\* A step that moves one command and neither ends it nor writes to a device.
LEMMA SeenQuiet ==
  ASSUME TypeOK, SeenInv, NEW x \in Cmds, pc[x] # "done", req' = req, phys' = phys, NEW p,
         pc' = [pc EXCEPT ![x] = p],
         /\ \A c \in Cmds \ {x} : since'[c] = since[c] /\ wire'[c] = wire[c]
         /\ wire'[x] # "idle" => p \in AtProvider \cup {"done"}
         /\ \/ p \notin AtProvider
            \/ pc[x] \in AtProvider /\ since'[x] = since[x]
            \/ \A s \in since'[x] : s.shows = phys[req[x].device]
  PROVE  SeenInv'
  <1>1. \A y \in Cmds : pc[y] = "done" => pc'[y] = "done"
    BY DEF TypeOK
  <1> SUFFICES ASSUME NEW c \in Cmds
               PROVE  LET r == req[c] IN
                      /\ wire'[c] # "idle" => pc'[c] \in AtProvider \cup {"done"}
                      /\ pc'[c] \in AtProvider
                         /\ (\E s \in since'[c] : s.shows[r.action] = Expected(r.action, r.param))
                           => phys[r.device][r.action] = Expected(r.action, r.param)
                              \/ Overtaken(c)'
    BY DEF SeenInv
  <1>2. CASE c # x
    <2>1. pc'[c] = pc[c] /\ since'[c] = since[c] /\ wire'[c] = wire[c]
      BY <1>2 DEF TypeOK
    <2> QED  BY <1>1, <2>1, StaysOvertaken DEF SeenInv
  <1>3. CASE c = x
    <2>1. pc'[c] = p
      BY <1>3 DEF TypeOK
    <2> QED  BY <1>1, <1>3, <2>1, StaysOvertaken DEF SeenInv
  <1> QED  BY <1>2, <1>3

\* Every step keeps what is known of what the devices showed.
LEMMA SeenStep == TypeOK /\ Asked /\ NoOverlappingWrites /\ SeenInv /\ [Next]_vars => SeenInv'
  <1> SUFFICES ASSUME TypeOK, Asked, NoOverlappingWrites, SeenInv, [Next]_vars PROVE SeenInv'
    OBVIOUS
  <1>1. ASSUME NEW c \in Cmds, Refuse(c) PROVE SeenInv'
    <2>1. /\ pc[c] # "done" /\ pc' = [pc EXCEPT ![c] = "refused"] /\ wire[c] = "idle"
          /\ UNCHANGED <<req, phys, since, wire>>
      BY <1>1 DEF Refuse, deviceVars, seenVars, SeenInv, AtProvider
    <2> QED  BY <2>1, SeenQuiet DEF AtProvider
  <1>2. ASSUME NEW c \in Cmds, Accept(c) PROVE SeenInv'
    <2>1. /\ pc[c] # "done" /\ wire[c] = "idle" /\ UNCHANGED <<req, phys, wire>>
      BY <1>2 DEF Accept, deviceVars, SeenInv, AtProvider
    <2>3. PICK p \in {"executing", "queued"} :
             /\ pc' = [pc EXCEPT ![c] = p]
             /\ since' = IF p = "executing" THEN Begun(c) ELSE since
      BY <1>2 DEF Accept, Acquire, TypeOK
    <2>2. /\ \A s \in Begun(c)[c] : s.shows = phys[req[c].device]
          /\ \A x \in Cmds \ {c} : Begun(c)[x] = since[x]
      BY DEF Begun, TypeOK
    <2>4. /\ \A x \in Cmds \ {c} : since'[x] = since[x] /\ wire'[x] = wire[x]
          /\ wire'[c] = "idle"
          /\ p \notin AtProvider \/ \A s \in since'[c] : s.shows = phys[req[c].device]
      BY <2>1, <2>2, <2>3 DEF AtProvider
    <2> QED  BY <2>1, <2>3, <2>4, SeenQuiet
  <1>3. ASSUME NEW c \in Cmds, Begin(c) PROVE SeenInv'
    <2>1. /\ pc[c] # "done" /\ wire[c] = "idle" /\ UNCHANGED <<req, phys, wire>>
          /\ pc' = [pc EXCEPT ![c] = "executing"] /\ since' = Begun(c)
      BY <1>3 DEF Begin, deviceVars, SeenInv, AtProvider
    <2>2. /\ \A s \in Begun(c)[c] : s.shows = phys[req[c].device]
          /\ \A x \in Cmds \ {c} : Begun(c)[x] = since[x]
      BY DEF Begun, TypeOK
    <2> QED  BY <2>1, <2>2, SeenQuiet DEF AtProvider
  <1>4. ASSUME NEW c \in Cmds, ExecuteTimesOut(c) PROVE SeenInv'
    <2>1. /\ pc[c] # "done" /\ pc[c] \in AtProvider /\ UNCHANGED <<req, phys, wire, since>>
          /\ pc' = [pc EXCEPT ![c] = "reconciling"]
      BY <1>4 DEF ExecuteTimesOut, deviceVars, AtProvider
    <2> QED  BY <2>1, SeenQuiet DEF AtProvider
  <1>5. ASSUME NEW c \in Cmds, AdapterWrites(c) PROVE SeenInv'
    <2>1. /\ pc[c] \in AtProvider /\ wire' = [wire EXCEPT ![c] = "sent"]
          /\ UNCHANGED <<pc, req, phys, since>>
      BY <1>5 DEF AdapterWrites, deviceVars, seenVars, AtProvider
    <2> QED  BY <2>1 DEF SeenInv, Overtaken, TypeOK
  <1>6. ASSUME NEW c \in Cmds, WriteIsLost(c) PROVE SeenInv'
    <2>1. /\ wire[c] = "sent" /\ wire' = [wire EXCEPT ![c] = "lost"]
          /\ UNCHANGED <<pc, req, phys, since>>
      BY <1>6 DEF WriteIsLost, deviceVars, seenVars
    <2> QED  BY <2>1 DEF SeenInv, Overtaken, TypeOK
  <1>7. ASSUME NEW c \in Cmds, pc[c] \in AtProvider, NEW s \in Finished, Finish(c, s)
        PROVE  SeenInv'
    <2>1. /\ pc[c] # "done" /\ UNCHANGED <<req, phys, wire>>
          /\ pc' = [pc EXCEPT ![c] = "done"]
          /\ \A x \in Cmds \ {c} : since'[x] = since[x]
      BY <1>7 DEF Finish, AtProvider, TypeOK
    <2> QED  BY <2>1, SeenQuiet DEF AtProvider
  <1>8. CASE UNCHANGED <<pc, req, status, tracked, uses, lockVars, wire, phys, audit, events, seenVars>>
    BY <1>8 DEF SeenInv, Overtaken, seenVars
  <1> QED  BY <1>1, <1>2, <1>3, <1>4, <1>5, <1>6, <1>7, <1>8, SeenWrite, Steps

\* A command reported SUCCEEDED is one whose device did show what was asked for
\* since the command began, and shows it still unless a write that was left
\* behind came in between; the registry holds it.  A device with a cancelled
\* exchange is the exception (SuccessIsObserved).
THEOREM SuccessIsObservedHolds ==
  ASSUME Cardinality(Devices) <= MaxLocks
  PROVE  Spec => SuccessIsObserved
  <1>1. Init => Asked /\ SeenInv
    BY DEF Init, Asked, SeenInv, AtProvider
  <1>2. ASSUME TypeOK, Asked, SeenInv, [Next]_vars, NEW c \in Cmds,
               status[c] = "RUNNING", status'[c] = "SUCCEEDED",
               req[c].action \notin LooselyConfirmed
        PROVE  LET r == req[c]
                   asked == Expected(r.action, r.param)
               IN  /\ held'[r.device][r.action] = asked
                   /\ CutBefore(c) \/
                        /\ \E s \in since[c] : s.shows[r.action] = asked
                        /\ phys[r.device][r.action] = asked \/ Overtaken(c)
    <2>1. /\ pc[c] \in AtProvider
          /\ \E reading \in Readings(Readable(c)) :
               /\ desired_matches(req[c].action, req[c].param, reading.state[req[c].action]) = "TRUE"
               /\ Ingest(req[c].device, reading)
      BY <1>2, SuccessStep
    <2>2. LET r == req[c]
          IN  /\ \E s \in Readable(c) : s[r.action] = Expected(r.action, r.param)
              /\ held'[r.device][r.action] = Expected(r.action, r.param)
      BY <1>2, <2>1, Confirmed
    <2>3. ~ CutBefore(c) => \E s \in since[c] :
                              s.shows[req[c].action] = Expected(req[c].action, req[c].param)
      BY <2>2 DEF Readable
    <2>4. (\E s \in since[c] : s.shows[req[c].action] = Expected(req[c].action, req[c].param))
            => \/ phys[req[c].device][req[c].action] = Expected(req[c].action, req[c].param)
               \/ Overtaken(c)
      BY <1>2, <2>1 DEF SeenInv
    <2> QED  BY <2>2, <2>3, <2>4
  <1>3. TypeOK /\ Asked /\ SeenInv /\ [Next]_vars =>
          [\A c \in Cmds :
             LET r == req[c]
                 asked == Expected(r.action, r.param)
             IN  /\ status[c] = "RUNNING" /\ status'[c] = "SUCCEEDED"
                 /\ r.action \notin LooselyConfirmed
                 => /\ held'[r.device][r.action] = asked
                    /\ CutBefore(c) \/
                         /\ \E s \in since[c] : s.shows[r.action] = asked
                         /\ phys[r.device][r.action] = asked \/ Overtaken(c)]_vars
    BY <1>2
  <1> QED  BY <1>1, <1>3, AskedStep, SeenStep, MutualExclusion, TypeCorrect, PTL
           DEF Spec, SuccessIsObserved

-----------------------------------------------------------------------------
(* Forgotten records.                                                      *)

\* The oldest key of a table is one of its keys, and no key is older.
LEMMA OldestIsKey ==
  ASSUME NEW S, NEW t \in [S -> Nat], Keys(t) # {}
  PROVE  Oldest(t) \in Keys(t) /\ \A k \in Keys(t) : t[Oldest(t)] <= t[k]
  <1> DEFINE moments == {t[k] : k \in Keys(t)}
             before == OpToRel(<, Nat)
  <1>1. moments \subseteq Nat /\ moments # {}
    BY DEF Keys
  <1>2. PICK m \in moments : \A n \in moments : ~ (<<n, m>> \in before)
    BY <1>1, NatLessThanWellFounded, WFMin
  <1>3. \A n \in moments : m <= n
    <2> SUFFICES ASSUME NEW n \in moments, ~ (m <= n) PROVE FALSE
      OBVIOUS
    <2>1. n \in Nat /\ m \in Nat
      BY <1>1
    <2>2. n < m
      <3> HIDE DEF moments
      <3> QED  BY <2>1
    <2>3. <<n, m>> \in before
      BY <2>1, <2>2 DEF OpToRel
    <2> QED  BY <1>2, <2>3
  <1>4. \E k \in Keys(t) : \A j \in Keys(t) : t[k] <= t[j]
    BY <1>2, <1>3
  <1> HIDE DEF moments
  <1> QED  BY <1>4 DEF Oldest

\* _remember keeps MaxTracked records at most, and forgets one only if it then
\* keeps just as many, none of them older.
LEMMA RememberKeeps ==
  ASSUME NEW t \in [Cmds -> Nat], NEW c \in Cmds, NEW now \in Nat \ {0},
         Cardinality(Keys(t)) <= MaxTracked
  PROVE  LET kept == Remember(t, c, now)
         IN  /\ Cardinality(Keys(kept)) <= MaxTracked
             /\ \A x \in Cmds : t[x] # 0 /\ kept[x] = 0
                  => /\ Cardinality(Keys(kept)) = MaxTracked
                     /\ \A k \in Keys(kept) : t[x] <= kept[k]
  <1> DEFINE moved == [t EXCEPT ![c] = now]
  <1>1. moved \in [Cmds -> Nat] /\ Keys(moved) = Keys(t) \cup {c}
    BY DEF Keys
  <1>2. IsFiniteSet(Keys(t)) /\ MaxTracked \in Nat
    <2>1. Keys(t) \subseteq Cmds
      BY DEF Keys
    <2> QED  BY <2>1, ConstantsOK, FS_Subset
  <1>3. /\ IsFiniteSet(Keys(moved)) /\ Cardinality(Keys(moved)) <= MaxTracked + 1
        /\ Cardinality(Keys(moved)) \in Nat
    <2> DEFINE keys == Keys(t) \cup {c}
    <2>1. IsFiniteSet(keys) /\ Cardinality(keys) <= Cardinality(Keys(t)) + 1
      <3>1. /\ IsFiniteSet(keys)
            /\ Cardinality(keys) = IF c \in Keys(t) THEN Cardinality(Keys(t))
                                   ELSE Cardinality(Keys(t)) + 1
        BY <1>2, FS_AddElement
      <3>2. Cardinality(Keys(t)) \in Nat
        BY <1>2, FS_CardinalityType
      <3> QED  BY <3>1, <3>2
    <2>2. Cardinality(keys) \in Nat /\ Cardinality(Keys(t)) \in Nat
      BY <1>2, <2>1, FS_CardinalityType
    <2>3. Keys(moved) = keys
      BY <1>1
    <2> HIDE DEF keys, moved
    <2> QED  BY <1>2, <2>1, <2>2, <2>3
  <1>4. CASE Cardinality(Keys(moved)) <= MaxTracked
    <2>1. Remember(t, c, now) = moved
      BY <1>2, <1>3, <1>4 DEF Remember
    <2> QED  BY <1>4, <2>1
  <1>5. CASE ~ (Cardinality(Keys(moved)) <= MaxTracked)
    <2> DEFINE o == Oldest(moved)
               kept == [moved EXCEPT ![o] = 0]
    <2>1. Remember(t, c, now) = kept
      BY <1>2, <1>3, <1>5 DEF Remember
    <2>2. o \in Keys(moved) /\ \A k \in Keys(moved) : moved[o] <= moved[k]
      <3>1. Keys(moved) # {}
        BY <1>1
      <3> HIDE DEF moved
      <3> QED  BY <1>1, <3>1, OldestIsKey
    <2>3. Keys(kept) = Keys(moved) \ {o}
      <3> HIDE DEF moved, o
      <3> QED  BY <1>1, <2>2 DEF Keys
    <2>4. Cardinality(Keys(kept)) = Cardinality(Keys(moved)) - 1
      <3> HIDE DEF moved, o, kept
      <3> QED  BY <1>3, <2>2, <2>3, FS_RemoveElement
    <2>5. Cardinality(Keys(kept)) = MaxTracked
      <3> HIDE DEF moved, kept
      <3> QED  BY <1>2, <1>3, <1>5, <2>4
    <2>6. ASSUME NEW x \in Cmds, t[x] # 0, kept[x] = 0, NEW k \in Keys(kept)
          PROVE  t[x] <= kept[k]
      <3>1. t[c] = 0
        BY <1>1, <1>5 DEF Keys
      <3>2. x # c /\ moved[x] = t[x]
        BY <2>6, <3>1
      <3>3. x = o /\ k \in Keys(moved) /\ k # o
        BY <2>2, <2>3, <2>6, <3>2 DEF Keys
      <3>4. kept[k] = moved[k]
        BY <1>1, <3>3 DEF Keys
      <3> QED  BY <2>2, <3>2, <3>3, <3>4
    <2>7. MaxTracked <= MaxTracked
      BY <1>2
    <2> HIDE DEF kept
    <2> QED  BY <2>1, <2>5, <2>6, <2>7
  <1> QED  BY <1>4, <1>5

\* There are never too many records.
ForgetInv == Cardinality(Keys(tracked)) <= MaxTracked

\* Every step keeps the table of records small, and what it forgets is the oldest.
LEMMA ForgetStep ==
  ASSUME TypeOK, ForgetInv, [Next]_vars
  PROVE  /\ ForgetInv'
         /\ \A c \in Cmds :
              tracked[c] # 0 /\ tracked'[c] = 0
                => /\ Cardinality(Keys(tracked')) = MaxTracked
                   /\ \A k \in Keys(tracked') : tracked[c] <= tracked'[k]
  <1>1. ASSUME NEW x \in Cmds, tracked' = Remember(tracked, x, uses + 1)
        PROVE  /\ ForgetInv'
               /\ \A c \in Cmds :
                    tracked[c] # 0 /\ tracked'[c] = 0
                      => /\ Cardinality(Keys(tracked')) = MaxTracked
                         /\ \A k \in Keys(tracked') : tracked[c] <= tracked'[k]
    <2>1. /\ tracked \in [Cmds -> Nat] /\ uses + 1 \in Nat \ {0}
          /\ Cardinality(Keys(tracked)) <= MaxTracked
      BY DEF TypeOK, ForgetInv
    <2> DEFINE kept == Remember(tracked, x, uses + 1)
    <2>2. /\ Cardinality(Keys(kept)) <= MaxTracked
          /\ \A c \in Cmds : tracked[c] # 0 /\ kept[c] = 0
               => /\ Cardinality(Keys(kept)) = MaxTracked
                  /\ \A k \in Keys(kept) : tracked[c] <= kept[k]
      BY <2>1, RememberKeeps
    <2>3. tracked' = kept
      BY <1>1
    <2> HIDE DEF kept
    <2> QED  BY <2>2, <2>3 DEF ForgetInv
  <1>2. \/ tracked' = tracked
        \/ \E x \in Cmds : tracked' = Remember(tracked, x, uses + 1)
    <2>1. ASSUME NEW c \in Cmds, Refuse(c) \/ Begin(c) \/ ExecuteTimesOut(c)
          PROVE  tracked' = tracked
      BY <2>1 DEF Refuse, Begin, ExecuteTimesOut
    <2>2. ASSUME NEW c \in Cmds, AdapterWrites(c) \/ WriteLands(c) \/ WriteIsLost(c)
          PROVE  tracked' = tracked
      BY <2>2 DEF AdapterWrites, WriteLands, WriteIsLost
    <2>3. ASSUME NEW c \in Cmds, Accept(c) PROVE tracked' = Remember(tracked, c, uses + 1)
      BY <2>3 DEF Accept
    <2>4. ASSUME NEW c \in Cmds, NEW s, Finish(c, s)
          PROVE  tracked' = Remember(tracked, c, uses + 1)
      BY <2>4 DEF Finish
    <2> QED  BY <2>1, <2>2, <2>3, <2>4, Steps
  <1>3. CASE tracked' = tracked
    BY <1>3 DEF ForgetInv
  <1> QED  BY <1>1, <1>2, <1>3

\* _remember forgets a record only while it keeps as many others as the table
\* has room for, and then the one that was touched longest ago
\* (ForgottenOnlyWhenFull).
THEOREM ForgottenOnlyWhenFullHolds == Spec => ForgottenOnlyWhenFull
  <1>1. Init => ForgetInv
    <2> SUFFICES ASSUME Init PROVE ForgetInv
      OBVIOUS
    <2>1. Keys(tracked) = {}
      BY DEF Init, Keys
    <2>2. Cardinality(Keys(tracked)) = 0 /\ MaxTracked \in Nat
      BY <2>1, ConstantsOK, FS_EmptySet
    <2> QED  BY <2>2 DEF ForgetInv
  <1>2. TypeOK /\ ForgetInv /\ [Next]_vars =>
          /\ ForgetInv'
          /\ [\A c \in Cmds :
                tracked[c] # 0 /\ tracked'[c] = 0
                  => /\ Cardinality(Keys(tracked')) = MaxTracked
                     /\ \A k \in Keys(tracked') : tracked[c] <= tracked'[k]]_vars
    BY ForgetStep
  <1> QED  BY <1>1, <1>2, TypeCorrect, PTL DEF Spec, ForgottenOnlyWhenFull

-----------------------------------------------------------------------------
(* The lines of DeviceQueues.                                              *)

\* The line and the outcome of the refinement mapping.
Line == [d \in Devices |-> IF lockAt[d] = NoLock THEN <<>> ELSE waiters[lockAt[d]]]
Outcome == [c \in Cmds |-> CASE pc[c] = "new" -> "none"
                             [] pc[c] = "refused" -> "refused"
                             [] pc[c] = "done" -> status[c]
                             [] OTHER -> "accepted"]

\* While nothing is evicted, a device has a lock from its first command on, and
\* never the lock of another device.
LineInv ==
    /\ \A d \in Devices : lockUsed[d] = 0 => lockAt[d] = NoLock
    /\ \A d, e \in Devices : lockAt[d] = lockAt[e] /\ lockAt[d] # NoLock => d = e

\* A new command joins the line of its device and no other.
LEMMA LineAccept ==
  ASSUME Cardinality(Devices) <= MaxLocks, TypeOK, LockInv, LineInv,
         NEW c \in Cmds, Accept(c)
  PROVE  /\ LineInv'
         /\ Line' = [Line EXCEPT ![req[c].device] = Append(@, c)]
  <1> DEFINE d == req[c].device
             l == LockFor(c, d)
  <1>1. d \in Devices /\ uses + 2 \in Nat \ {0} /\ lockUsed \in [Devices -> Nat]
    BY DEF TypeOK, Request
  <1>2. /\ lockAt' = [lockAt EXCEPT ![d] = l]
        /\ lockUsed' = LockTable(lockUsed, d, uses + 2)
        /\ waiters' = [waiters EXCEPT ![l] = Append(waiters[l], c)]
    BY DEF Accept, Acquire
  <1>3. lockUsed' = [lockUsed EXCEPT ![d] = uses + 2]
    <2>1. LockTable(lockUsed, d, uses + 2) = [lockUsed EXCEPT ![d] = uses + 2]
      <3> HIDE DEF d
      <3> QED  BY <1>1, LockTableKeeps
    <2> QED  BY <1>2, <2>1
  <1>4. pc[c] = "new" /\ NoLock \notin Cmds
    BY ConstantsOK DEF Accept
  <1>5. waiters[c] = <<>> /\ \A e \in Devices : lockAt[e] # c
    BY <1>4 DEF LockInv
  <1>6. CASE lockUsed[d] = 0
    <2>1. l = c /\ lockAt[d] = NoLock
      BY <1>1, <1>6 DEF LockFor, LineInv
    <2>2. Line[d] = <<>> /\ Line'[d] = Append(<<>>, c)
      BY <1>1, <1>2, <1>4, <1>5, <2>1 DEF Line, TypeOK
    <2>3. \A e \in Devices \ {d} : Line'[e] = Line[e]
      BY <1>1, <1>2, <1>5, <2>1 DEF Line, TypeOK
    <2>4. LineInv'
      BY <1>1, <1>2, <1>3, <1>5, <2>1 DEF LineInv, TypeOK
    <2> QED  BY <1>1, <2>2, <2>3, <2>4 DEF Line
  <1>7. CASE lockUsed[d] # 0
    <2>1. l = lockAt[d] /\ l \in Cmds
      BY <1>1, <1>7 DEF LockFor, LockInv
    <2>2. lockAt' = lockAt
      BY <1>1, <1>2, <2>1 DEF TypeOK
    <2>3. Line'[d] = Append(Line[d], c)
      BY <1>1, <1>2, <1>4, <2>1, <2>2 DEF Line, TypeOK
    <2>4. \A e \in Devices \ {d} : lockAt[e] # l
      BY <1>1, <1>4, <2>1 DEF LineInv
    <2>5. \A e \in Devices \ {d} : Line'[e] = Line[e]
      BY <1>2, <2>1, <2>2, <2>4 DEF Line, TypeOK
    <2>6. LineInv'
      BY <1>1, <1>3, <2>2, <1>7 DEF LineInv, TypeOK
    <2> QED  BY <1>1, <2>3, <2>5, <2>6 DEF Line
  <1> QED  BY <1>6, <1>7

\* A command that ends is the first of the line of its device, and leaves it.
LEMMA LineFinish ==
  ASSUME TypeOK, LockInv, TableInv, LineInv,
         NEW c \in Cmds, NEW s \in Finished, pc[c] \in AtProvider, Finish(c, s)
  PROVE  LET d == req[c].device
         IN  /\ LineInv'
             /\ Line[d] # <<>> /\ c = Head(Line[d])
             /\ Line' = [Line EXCEPT ![d] = Tail(@)]
  <1> DEFINE d == req[c].device
             l == lockOf[c]
  <1>1. d \in Devices /\ lockAt[d] = l /\ l \in Cmds /\ NoLock \notin Cmds
    BY ConstantsOK DEF TypeOK, Request, TableInv, LockInv, InLine
  <1>2. /\ waiters' = [waiters EXCEPT ![l] = Tail(waiters[l])]
        /\ lockAt' = lockAt /\ lockUsed' = lockUsed
    BY DEF Finish, Release
  <1>3. Line[d] = waiters[l] /\ Line'[d] = Tail(waiters[l])
    BY <1>1, <1>2 DEF Line, TypeOK
  <1>4. waiters[l] # <<>> /\ Head(waiters[l]) = c
    BY <1>1 DEF LockInv, InLine, TypeOK
  <1>5. \A e \in Devices \ {d} : lockAt[e] # l
    BY <1>1 DEF LineInv
  <1>6. \A e \in Devices \ {d} : Line'[e] = Line[e]
    BY <1>1, <1>2, <1>5 DEF Line, TypeOK
  <1>7. LineInv'
    BY <1>2 DEF LineInv
  <1> QED  BY <1>1, <1>3, <1>4, <1>6, <1>7 DEF Line

\* Every step of the pipeline is one of the lines, or none.
LEMMA LineStep ==
  ASSUME Cardinality(Devices) <= MaxLocks, TypeOK, LockInv, TableInv, LineInv, [Next]_vars
  PROVE  LineInv' /\ [Abstract!Next]_(Abstract!vars)
  <1>1. ASSUME NEW c \in Cmds, Refuse(c)
        PROVE  LineInv' /\ Abstract!Refuse(c)
    <2>1. LineInv' /\ Line' = Line
      BY <1>1 DEF Refuse, lockVars, LineInv, Line
    <2>2. Outcome[c] = "none" /\ Outcome' = [Outcome EXCEPT ![c] = "refused"]
      BY <1>1 DEF Refuse, Outcome, TypeOK
    <2> QED  BY <2>1, <2>2 DEF Abstract!Refuse, Line, Outcome
  <1>2. ASSUME NEW c \in Cmds, Accept(c)
        PROVE  LineInv' /\ \E d \in Devices : Abstract!Accept(c, d)
    <2>1. LineInv' /\ Line' = [Line EXCEPT ![req[c].device] = Append(@, c)]
      BY <1>2, LineAccept
    <2>2. Outcome[c] = "none" /\ Outcome' = [Outcome EXCEPT ![c] = "accepted"]
      BY <1>2 DEF Accept, Acquire, Outcome, TypeOK
    <2>3. req[c].device \in Devices
      BY DEF TypeOK, Request
    <2> QED  BY <2>1, <2>2, <2>3 DEF Abstract!Accept, Line, Outcome
  <1>3. ASSUME NEW c \in Cmds, NEW s \in Finished, pc[c] \in AtProvider, Finish(c, s)
        PROVE  LineInv' /\ \E d \in Devices : Abstract!Settle(c, d)
    <2> DEFINE d == req[c].device
    <2>1. /\ LineInv' /\ Line[d] # <<>> /\ c = Head(Line[d])
          /\ Line' = [Line EXCEPT ![d] = Tail(@)]
      BY <1>3, LineFinish
    <2>2. Outcome' = [Outcome EXCEPT ![c] = s]
      BY <1>3 DEF Finish, Outcome, TypeOK
    <2>3. d \in Devices /\ s \in Abstract!Outcomes
      BY DEF TypeOK, Request, Finished, Abstract!Outcomes
    <2> QED  BY <2>1, <2>2, <2>3 DEF Abstract!Settle, Line, Outcome
  <1>4. ASSUME NEW c \in Cmds, Begin(c) \/ ExecuteTimesOut(c)
        PROVE  LineInv' /\ UNCHANGED Abstract!vars
    <2>1. LineInv' /\ Line' = Line
      BY <1>4 DEF Begin, ExecuteTimesOut, lockVars, LineInv, Line
    <2>2. Outcome' = Outcome
      BY <1>4 DEF Begin, ExecuteTimesOut, Outcome, TypeOK
    <2> QED  BY <2>1, <2>2 DEF Abstract!vars, Line, Outcome
  <1>5. ASSUME UNCHANGED <<pc, status, lockVars>>
        PROVE  LineInv' /\ UNCHANGED Abstract!vars
    BY <1>5 DEF lockVars, LineInv, Abstract!vars
  <1>6. ASSUME NEW c \in Cmds, AdapterWrites(c) \/ WriteLands(c) \/ WriteIsLost(c)
        PROVE  UNCHANGED <<pc, status, lockVars>>
    BY <1>6 DEF AdapterWrites, WriteLands, WriteIsLost
  <1> QED  BY <1>1, <1>2, <1>3, <1>4, <1>5, <1>6, Steps DEF Abstract!Next

\* While the lock table has room for a lock per device, the pipeline implements
\* one first-come-first-served line per device, in which only the first command
\* settles, and settles once (service.py:217).
THEOREM Implements ==
  ASSUME Cardinality(Devices) <= MaxLocks
  PROVE  Spec => ServesInOrder
  <1>1. Init => TableInv /\ LineInv
    BY ConstantsOK DEF Init, TableInv, LineInv, InLine, AtProvider
  <1>2. Init => Abstract!Init
    BY DEF Init, Abstract!Init
  <1>3. TypeOK /\ LockInv /\ TableInv /\ LineInv /\ [Next]_vars =>
            TableInv' /\ LineInv' /\ [Abstract!Next]_(Abstract!vars)
    BY TableStep, LineStep
  <1> QED  BY <1>1, <1>2, <1>3, LockInit, LockStep, PTL DEF Spec, ServesInOrder, Abstract!Spec

=============================================================================
