--------------------------- MODULE SchedulesProofs ---------------------------
(***************************************************************************)
(* Proofs about Schedules, for every number of timers, switches and hours: *)
(* every variable stays in its set, no switch ever has two armed timers,   *)
(* the loop submits a timer at most once, no armed timer leaves the table  *)
(* without a settlement, and none is submitted later than LatenessBound.   *)
(***************************************************************************)
EXTENDS Schedules, FiniteSetTheorems, TLAPS

\* What ties a timer's firing to the loop's list.  A timer that create() has
\* not finished is unknown to everybody else; the list has no duplicates, and
\* only its head was submitted; whatever was submitted is the head or settled.
FireInv ==
    /\ \A t \in Timers : create[t] # "made" =>
         rec[t] = "NONE" /\ fires[t] = 0
    /\ \A i \in 1..Len(batch) :
         /\ create[batch[i]] = "made"
         /\ fires[batch[i]] = IF i = 1 THEN 1 ELSE 0
    /\ \A i, j \in 1..Len(batch) : batch[i] = batch[j] => i = j
    /\ \A t \in Timers :
         /\ fires[t] <= 1
         /\ rec[t] = "ARMED" /\ fires[t] # 0 => batch # <<>> /\ t = Head(batch)

\* The parts of the invariant, together.
IInv == TypeOK /\ OneArmedPerSwitch /\ FireInv

\* An armed timer that stops being armed is settled, and says so.
SettledInTrail ==
    \A t \in Timers :
        rec[t] = "ARMED" /\ rec'[t] # "ARMED"
            => \E s \in SETTLED : trail'[t] = Append(trail[t], s)

-----------------------------------------------------------------------------
(* The operations of the table.                                            *)

\* _settle with a terminal status.
LEMMA SettleStep ==
    ASSUME TypeOK, NEW t \in Timers, NEW s \in SETTLED, Settle(t, s)
    PROVE  /\ rec' \in [Timers -> {"NONE", "ARMED"} \cup SETTLED]
           /\ placed' \in [Timers -> Nat]
           /\ inserts' \in Nat
           /\ trail' \in [Timers -> Seq({"ARMED"} \cup SETTLED \cup AuditedDenials)]
           /\ rec'[t] = s /\ rec'[t] # "ARMED" /\ rec'[t] # "NONE"
           /\ \A u \in Timers : u # t => rec'[u] = rec[u]
           /\ SettledInTrail
<1>1. rec' = [rec EXCEPT ![t] = s] /\ trail' = [trail EXCEPT ![t] = Append(@, s)]
  BY DEF Settle
<1>2. s \notin {"ARMED", "NONE"}
  BY DEF SETTLED
<1>3. trail' \in [Timers -> Seq({"ARMED"} \cup SETTLED \cup AuditedDenials)]
  BY <1>1 DEF TypeOK
<1>4. placed' \in [Timers -> Nat] /\ inserts' \in Nat
  BY DEF Settle, TypeOK
<1>5. SettledInTrail
  BY <1>1 DEF SettledInTrail, TypeOK
<1>6. QED
  BY <1>1, <1>2, <1>3, <1>4, <1>5 DEF TypeOK

\* The statuses fire() settles a timer with are terminal.
LEMMA FireStatusType ==
    ASSUME NEW result \in SubmitResults
    PROVE  FireStatus(result) \in SETTLED
BY DEF FireStatus, SETTLED, SubmitResults

\* A new timer: who was armed for its switch is not any more.
LEMMA ArmStep ==
    ASSUME IInv, NEW t \in Timers, create[t] # "made", Arm(t)
    PROVE  IInv' /\ SettledInTrail
<1> DEFINE order == [placed EXCEPT ![t] = inserts + 1]
           inserted == [u \in Timers |-> IF u = t THEN "ARMED"
                                         ELSE IF u \in Replaced(t) THEN "SUPERSEDED"
                                         ELSE rec[u]]
<1>1. PICK gone \in Evicted(inserted, order) :
        rec' = [u \in Timers |-> IF u \in gone THEN "NONE" ELSE inserted[u]]
  BY DEF Arm
<1>2. /\ create' = [create EXCEPT ![t] = "made"]
      /\ left' = [left EXCEPT ![t] = want[t].hours]
      /\ UNCHANGED <<want, batch, wakeIn, elapsed, fires>>
      /\ placed' = order /\ inserts' = inserts + 1
  BY DEF Arm, loop
<1>3. trail' = [u \in Timers |-> IF u = t THEN <<"ARMED">>
                                 ELSE IF u \in Replaced(t) THEN Append(trail[u], "SUPERSEDED")
                                 ELSE trail[u]]
  BY DEF Arm
<1>4. \A u \in gone : inserted[u] # "ARMED"
  BY <1>1 DEF Evicted
<1>5. /\ rec[t] = "NONE" /\ fires[t] = 0
      /\ \A i \in 1..Len(batch) : batch[i] # t
  BY DEF IInv, FireInv
<1>6. rec'[t] = "ARMED"
  BY <1>1, <1>4
<1>7. ASSUME NEW u \in Timers, u # t, rec'[u] = "ARMED"
      PROVE  rec[u] = "ARMED" /\ want[u].switch # want[t].switch
  BY <1>1, <1>7 DEF Replaced, Armed
<1>8. TypeOK'
  <2>1. rec' \in [Timers -> {"NONE", "ARMED"} \cup SETTLED]
    BY <1>1 DEF IInv, TypeOK, SETTLED
  <2>2. trail' \in [Timers -> Seq({"ARMED"} \cup SETTLED \cup AuditedDenials)]
    <3>1. \A u \in Timers :
            Append(trail[u], "SUPERSEDED") \in Seq({"ARMED"} \cup SETTLED \cup AuditedDenials)
      BY DEF IInv, TypeOK, SETTLED
    <3>2. <<"ARMED">> \in Seq({"ARMED"} \cup SETTLED \cup AuditedDenials)
      OBVIOUS
    <3>3. QED
      BY <1>3, <3>1, <3>2 DEF IInv, TypeOK
  <2>3. left' \in [Timers -> Int]
    <3>1. want[t].hours \in Hours
      BY DEF IInv, TypeOK, Request
    <3>2. \A h \in Hours : h \in Int
      BY ConstantsOK
    <3>3. want[t].hours \in Int
      BY <3>1, <3>2
    <3>4. QED
      BY <1>2, <3>3 DEF IInv, TypeOK
  <2>4. create' \in [Timers -> {"new", "starting", "refused", "made"}]
    BY <1>2 DEF IInv, TypeOK
  <2>5. placed' \in [Timers -> Nat] /\ inserts' \in Nat
    BY <1>2 DEF IInv, TypeOK
  <2>6. QED
    BY <1>2, <2>1, <2>2, <2>3, <2>4, <2>5 DEF IInv, TypeOK
<1>9. OneArmedPerSwitch'
  BY <1>2, <1>7 DEF IInv, OneArmedPerSwitch, Armed
<1>10. FireInv'
  <2>1. \A u \in Timers : create'[u] # "made" => rec'[u] = "NONE" /\ fires'[u] = 0
    <3>1. SUFFICES ASSUME NEW u \in Timers, create'[u] # "made"
                   PROVE  rec'[u] = "NONE" /\ fires'[u] = 0
      OBVIOUS
    <3>2. u # t /\ create[u] # "made"
      BY <1>2, <3>1 DEF IInv, TypeOK
    <3>3. rec[u] = "NONE" /\ fires[u] = 0
      BY <3>2 DEF IInv, FireInv
    <3>4. u \notin Replaced(t)
      BY <3>3 DEF Replaced, Armed
    <3>5. QED
      BY <1>1, <1>2, <3>2, <3>3, <3>4
  <2>2. \A i \in 1..Len(batch) : create'[batch[i]] = "made"
    <3>1. \A i \in 1..Len(batch) : batch[i] \in Timers /\ create[batch[i]] = "made"
      <4>1. batch \in Seq(Timers)
        BY DEF IInv, TypeOK
      <4>2. QED
        BY <4>1 DEF IInv, FireInv
    <3>2. \A u \in Timers : create[u] = "made" => create'[u] = "made"
      BY <1>2 DEF IInv, TypeOK
    <3>3. QED
      BY <3>1, <3>2
  <2>3. \A u \in Timers : rec'[u] = "ARMED" /\ fires'[u] # 0 => batch # <<>> /\ u = Head(batch)
    BY <1>2, <1>5, <1>7 DEF IInv, FireInv
  <2>4. QED
    BY <1>2, <2>1, <2>2, <2>3 DEF IInv, FireInv
<1>11. SettledInTrail
  <2>1. SUFFICES ASSUME NEW u \in Timers, rec[u] = "ARMED", rec'[u] # "ARMED"
                 PROVE  trail'[u] = Append(trail[u], "SUPERSEDED")
    BY DEF SettledInTrail, SETTLED
  <2>2. u # t /\ u \in Replaced(t)
    BY <1>1, <1>4, <1>5, <2>1
  <2>3. QED
    BY <1>3, <2>2
<1>12. QED
  BY <1>8, <1>9, <1>10, <1>11 DEF IInv

-----------------------------------------------------------------------------
(* The loop.                                                               *)

\* The loop goes on with a list of timers that were never submitted.
LEMMA ProceedStep ==
    ASSUME NEW b \in Seq(Timers), fires \in [Timers -> Nat],
           \A i \in 1..Len(b) : fires[b[i]] = 0,
           \A i, j \in 1..Len(b) : b[i] = b[j] => i = j,
           Proceed(b)
    PROVE  /\ batch' = b
           /\ wakeIn' \in Nat /\ elapsed' \in Nat /\ fires' \in [Timers -> Nat]
           /\ \A i \in 1..Len(b) : fires'[b[i]] = IF i = 1 THEN 1 ELSE 0
           /\ \A t \in Timers : fires'[t] = IF b # <<>> /\ t = Head(b) THEN 1 ELSE fires[t]
<1>1. /\ batch' = b /\ elapsed' = 0
      /\ wakeIn' = IF b = <<>> THEN TickLength ELSE 0
      /\ fires' = IF b = <<>> THEN fires ELSE [fires EXCEPT ![Head(b)] = @ + 1]
  BY DEF Proceed
<1>2. CASE b = <<>>
  BY <1>1, <1>2, ConstantsOK
<1>3. CASE b # <<>>
  <2>1. Head(b) = b[1] /\ 1 \in 1..Len(b) /\ b[1] \in Timers
    BY <1>3
  <2>2. fires[Head(b)] = 0
    BY <2>1
  <2>3. fires' = [fires EXCEPT ![Head(b)] = 1]
    BY <1>1, <1>3, <2>2
  <2>4. QED
    BY <1>1, <1>3, <2>1, <2>3
<1>4. QED
  BY <1>2, <1>3

\* The list the loop takes holds every timer that is due, once.
LEMMA DueList ==
    ASSUME TypeOK, FireInv, batch = <<>>, NEW b \in Due
    PROVE  /\ b \in Seq(Timers)
           /\ \A i \in 1..Len(b) : b[i] \in Armed /\ left[b[i]] <= 0 /\ fires[b[i]] = 0
           /\ \A i, j \in 1..Len(b) : b[i] = b[j] => i = j
           /\ \A t \in Armed : left[t] <= 0 => \E i \in 1..Len(b) : b[i] = t
<1> DEFINE due == {t \in Armed : left[t] <= 0}
           n == Cardinality(due)
<1>1. n \in Nat /\ IsFiniteSet(due)
  <2>1. IsFiniteSet(due)
    BY ConstantsOK, FS_Subset DEF Armed
  <2>2. QED
    BY <2>1, FS_CardinalityType
<1>2. /\ b \in [1..n -> due]
      /\ \A i, j \in 1..n : i < j => placed[b[i]] < placed[b[j]]
  BY DEF Due, InTableOrder
<1>3. b \in Seq(Timers) /\ Len(b) = n
  <2>1. due \subseteq Timers
    BY DEF Armed
  <2>2. b \in [1..n -> Timers]
    BY <1>2, <2>1
  <2>3. n \in Nat
    BY <1>1
  <2> HIDE DEF n, due
  <2>4. QED
    BY <2>2, <2>3
<1>4. \A i \in 1..n : b[i] \in Armed /\ left[b[i]] <= 0 /\ b[i] \in Timers
  BY <1>2 DEF Armed
<1>5. \A i \in 1..n : fires[b[i]] = 0
  BY <1>4 DEF FireInv, Armed
<1>6. \A i, j \in 1..n : b[i] = b[j] => i = j
  <2>1. SUFFICES ASSUME NEW i \in 1..n, NEW j \in 1..n, b[i] = b[j], i < j
                 PROVE  FALSE
    BY <1>1
  <2>2. placed[b[i]] \in Nat
    BY <1>4 DEF TypeOK
  <2>3. QED
    BY <1>2, <2>1, <2>2
<1>7. \A t \in due : \E i \in 1..n : b[i] = t
  <2>1. b \in Injection(1..n, due)
    BY <1>2, <1>6 DEF Injection, IsInjective
  <2>2. Cardinality(1..n) = n
    BY <1>1, FS_Interval
  <2>3. b \in Surjection(1..n, due)
    BY <1>1, <2>1, <2>2, FS_Injection
  <2>4. QED
    BY <2>3 DEF Surjection
<1>8. QED
  BY <1>3, <1>4, <1>5, <1>6, <1>7

\* The sleep is over.
LEMMA WakeStep ==
    ASSUME IInv, Wake
    PROVE  IInv'
<1>1. PICK b \in Due : Proceed(b)
  BY DEF Wake
<1>2. /\ batch = <<>>
      /\ UNCHANGED <<want, create, rec, placed, inserts, left, trail>>
  BY DEF Wake, table
<1>3. TypeOK /\ OneArmedPerSwitch /\ FireInv
  BY DEF IInv
<1>4. /\ b \in Seq(Timers)
      /\ \A i \in 1..Len(b) : b[i] \in Timers /\ fires[b[i]] = 0 /\ create[b[i]] = "made"
      /\ \A i, j \in 1..Len(b) : b[i] = b[j] => i = j
  BY <1>2, <1>3, DueList DEF Armed, FireInv
<1>5. /\ batch' = b
      /\ wakeIn' \in Nat /\ elapsed' \in Nat /\ fires' \in [Timers -> Nat]
      /\ \A i \in 1..Len(b) : fires'[b[i]] = IF i = 1 THEN 1 ELSE 0
      /\ \A t \in Timers : fires'[t] = IF b # <<>> /\ t = Head(b) THEN 1 ELSE fires[t]
  BY <1>1, <1>3, <1>4, ProceedStep DEF TypeOK
<1>6. TypeOK'
  BY <1>2, <1>3, <1>4, <1>5 DEF TypeOK
<1>7. OneArmedPerSwitch'
  BY <1>2, <1>3 DEF OneArmedPerSwitch, Armed
<1>8. FireInv'
  <2>1. \A t \in Timers : create[t] # "made" => rec[t] = "NONE" /\ fires'[t] = 0
    BY <1>3, <1>4, <1>5 DEF FireInv
  <2>2. \A t \in Timers : fires'[t] <= 1
    BY <1>3, <1>5 DEF FireInv
  <2>3. \A t \in Timers : rec[t] = "ARMED" /\ fires'[t] # 0 => b # <<>> /\ t = Head(b)
    BY <1>2, <1>3, <1>5 DEF FireInv
  <2>4. QED
    BY <1>2, <1>4, <1>5, <2>1, <2>2, <2>3 DEF FireInv
<1>9. QED
  BY <1>6, <1>7, <1>8 DEF IInv

\* The submission of the head ended: it is settled, the next one is submitted.
LEMMA FireReturnsStep ==
    ASSUME IInv, NEW result \in SubmitResults, FireReturns(result)
    PROVE  IInv' /\ SettledInTrail
<1> DEFINE h == Head(batch)
           b == Tail(batch)
           s == FireStatus(result)
<1>1. TypeOK /\ OneArmedPerSwitch /\ FireInv /\ s \in SETTLED
  BY FireStatusType DEF IInv
<1>2. /\ batch # <<>> /\ Settle(h, s) /\ Proceed(b)
      /\ UNCHANGED <<want, create, left>>
  BY DEF FireReturns
<1>3. /\ batch \in Seq(Timers) /\ h = batch[1] /\ h \in Timers /\ b \in Seq(Timers)
      /\ Len(b) = Len(batch) - 1
      /\ \A i \in 1..Len(b) : b[i] = batch[i + 1] /\ i + 1 \in 1..Len(batch) /\ i + 1 # 1
  BY <1>1, <1>2 DEF TypeOK
<1>4. /\ rec' \in [Timers -> {"NONE", "ARMED"} \cup SETTLED]
      /\ placed' \in [Timers -> Nat]
      /\ inserts' \in Nat
      /\ trail' \in [Timers -> Seq({"ARMED"} \cup SETTLED \cup AuditedDenials)]
      /\ rec'[h] # "ARMED"
      /\ \A u \in Timers : u # h => rec'[u] = rec[u]
      /\ SettledInTrail
  <2> HIDE DEF h, s
  <2>1. QED
    BY <1>1, <1>2, <1>3, SettleStep
<1>5. \A i \in 1..Len(b) : fires[b[i]] = 0 /\ create[b[i]] = "made" /\ b[i] # h
  BY <1>1, <1>2, <1>3 DEF FireInv
<1>6. \A i, j \in 1..Len(b) : b[i] = b[j] => i = j
  BY <1>1, <1>3 DEF FireInv
<1>7. /\ batch' = b
      /\ wakeIn' \in Nat /\ elapsed' \in Nat /\ fires' \in [Timers -> Nat]
      /\ \A i \in 1..Len(b) : fires'[b[i]] = IF i = 1 THEN 1 ELSE 0
      /\ \A t \in Timers : fires'[t] = IF b # <<>> /\ t = Head(b) THEN 1 ELSE fires[t]
  <2> HIDE DEF b
  <2>1. QED
    BY <1>1, <1>2, <1>3, <1>5, <1>6, ProceedStep DEF TypeOK
<1>8. TypeOK'
  BY <1>1, <1>2, <1>3, <1>4, <1>7 DEF TypeOK
<1>9. \A u \in Timers : rec'[u] = "ARMED" => u # h /\ rec[u] = "ARMED"
  BY <1>4
<1>10. OneArmedPerSwitch'
  BY <1>1, <1>2, <1>9 DEF OneArmedPerSwitch, Armed
<1>11. FireInv'
  <2>1. create[h] = "made"
    BY <1>1, <1>2, <1>3 DEF FireInv
  <2>2. \A t \in Timers : create[t] # "made" => rec'[t] = "NONE" /\ fires'[t] = 0
    <3>1. b # <<>> => create[Head(b)] = "made"
      BY <1>3, <1>5
    <3>2. QED
      BY <1>1, <1>4, <1>7, <2>1, <3>1 DEF FireInv
  <2>3. \A t \in Timers : fires'[t] <= 1
    BY <1>1, <1>7 DEF FireInv
  <2>4. \A t \in Timers : rec'[t] = "ARMED" /\ fires'[t] # 0 => b # <<>> /\ t = Head(b)
    BY <1>1, <1>7, <1>9 DEF FireInv
  <2>5. QED
    BY <1>2, <1>5, <1>6, <1>7, <2>2, <2>3, <2>4 DEF FireInv
<1>12. QED
  BY <1>4, <1>8, <1>10, <1>11 DEF IInv

-----------------------------------------------------------------------------
\* Every step keeps the invariant and drops no armed timer silently.
LEMMA ScheduleStep ==
    ASSUME IInv, [Next]_vars
    PROVE  IInv' /\ SettledInTrail
<1>1. TypeOK /\ OneArmedPerSwitch /\ FireInv
  BY DEF IInv
<1>2. ASSUME UNCHANGED table, UNCHANGED <<want, batch, fires>>, TypeOK',
             \A t \in Timers : create[t] = "made" => create'[t] = "made",
             \A t \in Timers : create'[t] = "made" => create[t] = "made"
      PROVE  IInv' /\ SettledInTrail
  <2>1. rec' = rec
    BY <1>2 DEF table
  <2>2. OneArmedPerSwitch'
    BY <1>1, <1>2, <2>1 DEF OneArmedPerSwitch, Armed
  <2>3. FireInv'
    <3>1. \A i \in 1..Len(batch) : batch[i] \in Timers /\ create[batch[i]] = "made"
      BY <1>1 DEF FireInv, TypeOK
    <3>2. QED
      BY <1>1, <1>2, <2>1, <3>1 DEF FireInv
  <2>4. SettledInTrail
    BY <2>1 DEF SettledInTrail
  <2>5. QED
    BY <1>2, <2>2, <2>3, <2>4 DEF IInv
<1>3. ASSUME NEW t \in Timers, Deny(t)
      PROVE  IInv' /\ SettledInTrail
  <2>1. trail' \in [Timers -> Seq({"ARMED"} \cup SETTLED \cup AuditedDenials)]
    BY <1>1, <1>3 DEF Deny, TypeOK
  <2>2. TypeOK'
    BY <1>1, <1>3, <2>1 DEF Deny, TypeOK, table, loop
  <2>3. QED
    BY <1>1, <1>2, <1>3, <2>2 DEF Deny, TypeOK, loop
<1>4. ASSUME NEW t \in Timers, SwitchOn(t) \/ SwitchOnFails(t)
      PROVE  IInv' /\ SettledInTrail
  <2>1. TypeOK'
    BY <1>1, <1>4 DEF SwitchOn, SwitchOnFails, TypeOK, table, loop
  <2>2. QED
    BY <1>1, <1>2, <1>4, <2>1 DEF SwitchOn, SwitchOnFails, TypeOK, loop
<1>5. ASSUME NEW t \in Timers, SwitchOnSucceeds(t) \/ CreateDelayedStart(t)
      PROVE  IInv' /\ SettledInTrail
  BY <1>5, ArmStep DEF SwitchOnSucceeds, CreateDelayedStart
<1>6. ASSUME NEW t \in Timers, Cancel(t)
      PROVE  IInv' /\ SettledInTrail
  <2>1. "CANCELLED" \in SETTLED
    BY DEF SETTLED
  <2>2. /\ rec[t] = "ARMED" /\ Settle(t, "CANCELLED")
        /\ UNCHANGED <<want, create, left, batch, wakeIn, elapsed, fires>>
    BY <1>6 DEF Cancel, loop
  <2>3. /\ rec' \in [Timers -> {"NONE", "ARMED"} \cup SETTLED]
        /\ placed' \in [Timers -> Nat]
        /\ inserts' \in Nat
        /\ trail' \in [Timers -> Seq({"ARMED"} \cup SETTLED \cup AuditedDenials)]
        /\ rec'[t] # "ARMED"
        /\ \A u \in Timers : u # t => rec'[u] = rec[u]
        /\ SettledInTrail
    BY <1>1, <2>1, <2>2, SettleStep
  <2>4. TypeOK'
    BY <1>1, <2>2, <2>3 DEF TypeOK
  <2>5. OneArmedPerSwitch'
    BY <1>1, <2>2, <2>3 DEF OneArmedPerSwitch, Armed
  <2>6. FireInv'
    <3>1. create[t] = "made"
      BY <1>1, <2>2 DEF FireInv
    <3>2. QED
      BY <1>1, <2>2, <2>3, <3>1 DEF FireInv
  <2>7. QED
    BY <2>3, <2>4, <2>5, <2>6 DEF IInv
<1>7. ASSUME NEW result \in SubmitResults, FireReturns(result)
      PROVE  IInv' /\ SettledInTrail
  BY <1>7, FireReturnsStep
<1>8. CASE Wake
  <2>1. rec' = rec
    BY <1>8 DEF Wake, table
  <2>2. SettledInTrail
    BY <2>1 DEF SettledInTrail
  <2>3. QED
    BY <1>8, <2>2, WakeStep
<1>9. CASE Advance
  <2>1. /\ left' \in [Timers -> Int] /\ wakeIn' \in Nat /\ elapsed' \in Nat
    BY <1>1, <1>9 DEF Advance, TypeOK
  <2>2. TypeOK'
    BY <1>1, <1>9, <2>1 DEF Advance, TypeOK, table
  <2>3. QED
    BY <1>2, <1>9, <2>2 DEF Advance
<1>10. CASE UNCHANGED vars
  <2>1. TypeOK'
    BY <1>1, <1>10 DEF vars, TypeOK
  <2>2. QED
    BY <1>2, <1>10, <2>1 DEF vars, table
<1>11. QED
  BY <1>3, <1>4, <1>5, <1>6, <1>7, <1>8, <1>9, <1>10 DEF Next

\* The initial state.
LEMMA ScheduleInit == Init => IInv
<1> SUFFICES ASSUME Init
             PROVE  IInv
  OBVIOUS
<1>1. TypeOK
  BY ConstantsOK DEF Init, TypeOK
<1>2. OneArmedPerSwitch
  BY DEF Init, OneArmedPerSwitch, Armed
<1>3. FireInv
  BY DEF Init, FireInv
<1>4. QED
  BY <1>1, <1>2, <1>3 DEF IInv

\* Every variable of the timer service stays in its set.
THEOREM TypeCorrect == Spec => []TypeOK
<1>1. IInv => TypeOK
  BY DEF IInv
<1>2. QED
  BY <1>1, ScheduleInit, ScheduleStep, PTL DEF Spec

\* "One timer per function" (service.py:188), for every interleaving of
\* creations, cancellations and firings.
THEOREM NeverTwoArmed == Spec => []OneArmedPerSwitch
<1>1. IInv => OneArmedPerSwitch
  BY DEF IInv
<1>2. QED
  BY <1>1, ScheduleInit, ScheduleStep, PTL DEF Spec

\* "An unattended physical write gets exactly one attempt" (service.py:263).
THEOREM NeverFiredTwice == Spec => []FiredAtMostOnce
<1>1. IInv => FiredAtMostOnce
  BY DEF IInv, FireInv, FiredAtMostOnce
<1>2. QED
  BY <1>1, ScheduleInit, ScheduleStep, PTL DEF Spec

\* An armed timer only stops being armed by a settlement that is audited and
\* published (service.py:302).
THEOREM NeverForgotten == Spec => ArmedNeverForgotten
<1>1. IInv /\ [Next]_vars => [SettledInTrail]_vars
  BY ScheduleStep
<1>2. Spec => [][SettledInTrail]_vars
  BY <1>1, ScheduleInit, ScheduleStep, PTL DEF Spec
<1>3. QED
  BY <1>2 DEF ArmedNeverForgotten, SettledInTrail

-----------------------------------------------------------------------------
(* How late a timer fires.  A timer that is due is submitted at the latest *)
(* after what is left of the submission under way, the sleep, and one      *)
(* submission of each timer not submitted yet: a timer is submitted once,  *)
(* so that none can get ahead of it twice.                                 *)

Late(t) == IF left[t] < 0 THEN -left[t] ELSE 0

\* The time n submissions take at most.
Cost(n) == n * SubmitMax

\* The timers besides t that were not submitted, and may get ahead of it.
Unfired(f, t) == {u \in Timers \ {t} : f[u] = 0}

\* The time until the loop takes the next list, but for who is still to fire.
Pending == IF batch = <<>> THEN wakeIn ELSE (SubmitMax - elapsed) + TickLength

LateInv ==
    /\ elapsed \in 0..SubmitMax /\ wakeIn \in 0..TickLength
    /\ \A t \in Armed : fires[t] = 0 =>
          /\ \A i \in 2..Len(batch) : batch[i] = t =>
                Late(t) + (SubmitMax - elapsed) + Cost(i - 2) <= LatenessBound
          /\ (\A i \in 1..Len(batch) : batch[i] # t) =>
                Late(t) + Pending + Cost(Cardinality(Unfired(fires, t))) <= LatenessBound

LEMMA CostFacts ==
    ASSUME NEW m \in Nat, NEW n \in Nat
    PROVE  /\ Cost(n) \in Nat /\ Cost(n + 1) = Cost(n) + SubmitMax
           /\ m <= n => Cost(m) <= Cost(n)
<1>1. SubmitMax \in Nat
  BY ConstantsOK
<1>2. \A k \in Nat : k * SubmitMax \in Nat
  BY <1>1
<1>3. (n + 1) * SubmitMax = n * SubmitMax + SubmitMax
  BY <1>1
<1>4. ASSUME m <= n PROVE m * SubmitMax <= n * SubmitMax
  <2>1. n - m \in Nat
    BY <1>4
  <2>2. (n - m) * SubmitMax \in Nat
    BY <1>2, <2>1
  <2>3. n * SubmitMax = m * SubmitMax + (n - m) * SubmitMax
    BY <1>1
  <2>4. QED
    BY <1>2, <2>2, <2>3
<1>5. QED
  BY <1>2, <1>3, <1>4 DEF Cost

\* The bound has room for every other timer, and for the submission under way in
\* place of one of them.
LEMMA RoomForAll ==
    ASSUME NEW f, NEW t \in Timers
    PROVE  /\ IsFiniteSet(Unfired(f, t)) /\ Cardinality(Unfired(f, t)) \in Nat
           /\ TickLength + Cost(Cardinality(Unfired(f, t))) <= LatenessBound
           /\ \A h \in Timers \ {t} : f[h] # 0 =>
                SubmitMax + TickLength + Cost(Cardinality(Unfired(f, t))) <= LatenessBound
           /\ \A n \in Nat : n <= Cardinality(Unfired(f, t)) =>
                Cost(n) <= Cost(Cardinality(Unfired(f, t)))
<1> DEFINE others == Timers \ {t}
           n == Cardinality(Timers)
           k == Cardinality(Unfired(f, t))
<1>1. /\ IsFiniteSet(Timers) /\ IsFiniteSet(others) /\ n \in Nat /\ Cardinality(others) = n - 1
      /\ n - 1 \in Nat /\ SubmitMax \in Nat /\ TickLength \in Nat
  <2>1. IsFiniteSet(Timers) /\ SubmitMax \in Nat /\ TickLength \in Nat
    BY ConstantsOK
  <2>2. n \in Nat /\ IsFiniteSet(others) /\ Cardinality(others) = n - 1
    BY <2>1, FS_RemoveElement, FS_CardinalityType
  <2>3. n - 1 \in Nat
    <3>1. Cardinality(others) \in Nat
      BY <2>2, FS_CardinalityType
    <3>2. QED
      BY <2>2, <3>1
  <2>4. QED
    BY <2>1, <2>2, <2>3
<1>2. /\ IsFiniteSet(Unfired(f, t)) /\ k \in Nat /\ k <= n - 1
  BY <1>1, FS_Subset, FS_CardinalityType DEF Unfired
<1>3. LatenessBound = TickLength + Cost(n - 1)
  BY DEF LatenessBound, Cost
<1>4. ASSUME NEW h \in Timers \ {t}, f[h] # 0
      PROVE  k + 1 <= n - 1
  <2>1. Unfired(f, t) \in SUBSET (others \ {h})
    BY <1>4 DEF Unfired
  <2>2. IsFiniteSet(others \ {h}) /\ Cardinality(others \ {h}) = n - 2
    <3>1. /\ IsFiniteSet(others \ {h})
          /\ Cardinality(others \ {h}) = IF h \in others THEN Cardinality(others) - 1
                                                       ELSE Cardinality(others)
      BY <1>1, FS_RemoveElement
    <3>2. QED
      BY <1>1, <1>4, <3>1
  <2>3. QED
    BY <1>1, <1>2, <2>1, <2>2, FS_Subset
<1>5. Cost(k) \in Nat /\ Cost(k) <= Cost(n - 1) /\ Cost(n - 1) \in Nat
  BY <1>1, <1>2, CostFacts
<1>6. ASSUME NEW h \in Timers \ {t}, f[h] # 0
      PROVE  SubmitMax + Cost(k) <= Cost(n - 1)
  <2>1. k + 1 \in Nat /\ k + 1 <= n - 1
    BY <1>2, <1>4, <1>6
  <2>2. Cost(k + 1) <= Cost(n - 1) /\ Cost(k + 1) = Cost(k) + SubmitMax
    BY <1>1, <1>2, <2>1, CostFacts
  <2>3. QED
    BY <1>1, <1>5, <2>2
<1>7. \A m \in Nat : m <= k => Cost(m) <= Cost(k)
  BY <1>2, CostFacts
<1> HIDE DEF k, n
<1>8. QED
  BY <1>1, <1>2, <1>3, <1>5, <1>6, <1>7 DEF k

\* A timer that was armed without having fired stays where it is in line.
LEMMA LateStill ==
    ASSUME LateInv, UNCHANGED <<batch, wakeIn, elapsed, fires, left>>,
           \A t \in Timers : rec'[t] = "ARMED" => rec[t] = "ARMED"
    PROVE  LateInv'
BY DEF LateInv, Late, Pending, Armed

\* A new timer finds room behind everybody else.
LEMMA LateArm ==
    ASSUME IInv, IInv', LateInv, NEW t \in Timers, create[t] # "made", Arm(t)
    PROVE  LateInv'
<1>1. /\ UNCHANGED <<batch, wakeIn, elapsed, fires>>
      /\ left' = [left EXCEPT ![t] = want[t].hours]
  BY DEF Arm, loop
<1>2. ASSUME NEW u \in Timers, u # t, rec'[u] = "ARMED"
      PROVE  rec[u] = "ARMED"
  BY <1>2 DEF Arm, Replaced, Armed
<1>3. /\ fires[t] = 0 /\ \A i \in 1..Len(batch) : batch[i] # t
      /\ batch # <<>> => Head(batch) \in Timers \ {t} /\ fires[Head(batch)] # 0
  <2>1. fires[t] = 0 /\ \A i \in 1..Len(batch) : batch[i] # t
    BY DEF IInv, FireInv
  <2>2. ASSUME batch # <<>>
        PROVE  Head(batch) \in Timers \ {t} /\ fires[Head(batch)] # 0
    <3>1. Head(batch) = batch[1] /\ 1 \in 1..Len(batch) /\ batch[1] \in Timers
      <4>1. batch \in Seq(Timers)
        BY DEF IInv, TypeOK
      <4>2. QED
        BY <2>2, <4>1
    <3>2. QED
      BY <2>1, <3>1 DEF IInv, FireInv
  <2>3. QED
    BY <2>1, <2>2
<1>4. left'[t] \in Nat
  <2>1. want[t].hours \in Hours
    BY DEF IInv, TypeOK, Request
  <2>2. want[t].hours \in Nat
    BY <2>1, ConstantsOK
  <2>3. QED
    BY <1>1, <2>2 DEF IInv, TypeOK
<1>5. Late(t)' = 0
  BY <1>4 DEF Late
<1>6. Late(t)' + Pending' + Cost(Cardinality(Unfired(fires', t))) <= LatenessBound
  <2>1. /\ Cardinality(Unfired(fires, t)) \in Nat
        /\ TickLength + Cost(Cardinality(Unfired(fires, t))) <= LatenessBound
        /\ batch # <<>> =>
             SubmitMax + TickLength + Cost(Cardinality(Unfired(fires, t))) <= LatenessBound
    BY <1>3, RoomForAll
  <2>2. Cost(Cardinality(Unfired(fires, t))) \in Nat
    BY <2>1, CostFacts
  <2>3. LatenessBound \in Int
    <3>1. Cardinality(Timers) \in Nat
      BY ConstantsOK, FS_CardinalityType
    <3>2. QED
      BY <3>1, ConstantsOK DEF LatenessBound
  <2>4. Pending' = Pending
    BY <1>1 DEF Pending
  <2>5. Pending <= TickLength \/ (batch # <<>> /\ Pending <= SubmitMax + TickLength)
    BY ConstantsOK DEF Pending, LateInv
  <2>6. Pending \in Int
    BY ConstantsOK DEF Pending, LateInv
  <2> DEFINE cost == Cost(Cardinality(Unfired(fires, t)))
  <2> HIDE DEF cost
  <2>7. cost \in Nat /\ TickLength + cost <= LatenessBound
        /\ (batch # <<>> => SubmitMax + TickLength + cost <= LatenessBound)
    BY <2>1, <2>2 DEF cost
  <2>8. Pending + cost <= LatenessBound
    BY <2>3, <2>5, <2>6, <2>7, ConstantsOK
  <2>9. QED
    BY <1>1, <1>5, <2>4, <2>6, <2>7, <2>8 DEF cost
<1>7. \A u \in Timers \ {t} : Late(u)' = Late(u)
  BY <1>1 DEF Late, IInv, TypeOK
<1>8. QED
  BY <1>1, <1>2, <1>3, <1>6, <1>7 DEF LateInv, Pending, Armed

\* Time that passes is taken from what is left.
LEMMA LateAdvance ==
    ASSUME IInv, LateInv, Advance
    PROVE  LateInv'
<1>1. /\ UNCHANGED <<rec, batch, fires>>
      /\ SubmitMax \in Nat /\ TickLength \in Nat
      /\ elapsed \in Int /\ wakeIn \in Int
  BY ConstantsOK DEF Advance, table, LateInv
<1>2. /\ elapsed' \in 0..SubmitMax /\ wakeIn' \in 0..TickLength
      /\ Pending' = Pending - 1 /\ Pending \in Int
      /\ batch # <<>> => elapsed' = elapsed + 1
  BY <1>1 DEF Advance, LateInv, Pending
<1>3. ASSUME NEW t \in Timers
      PROVE  Late(t) \in Nat /\ Late(t)' \in Nat /\ Late(t)' <= Late(t) + 1
  <2>1. left[t] \in Int /\ (left'[t] = left[t] - 1 \/ left'[t] = left[t])
    BY DEF Advance, IInv, TypeOK
  <2>2. Late(t)' = IF left'[t] < 0 THEN -left'[t] ELSE 0
    BY DEF Late
  <2>3. QED
    BY <2>1, <2>2 DEF Late
<1>4. LatenessBound \in Int
  <2>1. Cardinality(Timers) \in Nat
    BY ConstantsOK, FS_CardinalityType
  <2>2. QED
    BY <2>1, ConstantsOK DEF LatenessBound
<1>5. ASSUME NEW t \in Armed, fires[t] = 0
      PROVE  /\ \A i \in 2..Len(batch) : batch[i] = t =>
                   Late(t)' + (SubmitMax - elapsed') + Cost(i - 2) <= LatenessBound
             /\ (\A i \in 1..Len(batch) : batch[i] # t) =>
                   Late(t)' + Pending' + Cost(Cardinality(Unfired(fires, t))) <= LatenessBound
  <2>1. t \in Timers
    BY DEF Armed
  <2>2. ASSUME NEW i \in 2..Len(batch), batch[i] = t
        PROVE  Late(t)' + (SubmitMax - elapsed') + Cost(i - 2) <= LatenessBound
    <3>1. Late(t) + (SubmitMax - elapsed) + Cost(i - 2) <= LatenessBound
      BY <1>5, <2>2 DEF LateInv
    <3>2. i - 2 \in Nat /\ batch # <<>>
      BY <2>2 DEF IInv, TypeOK
    <3>3. Cost(i - 2) \in Nat
      BY <3>2, CostFacts
    <3>4. QED
      BY <1>1, <1>2, <1>3, <1>4, <2>1, <3>1, <3>2, <3>3
  <2>3. ASSUME \A i \in 1..Len(batch) : batch[i] # t
        PROVE  Late(t)' + Pending' + Cost(Cardinality(Unfired(fires, t))) <= LatenessBound
    <3>1. Late(t) + Pending + Cost(Cardinality(Unfired(fires, t))) <= LatenessBound
      BY <1>5, <2>3 DEF LateInv
    <3>2. Cost(Cardinality(Unfired(fires, t))) \in Nat
      BY <2>1, RoomForAll, CostFacts
    <3>3. QED
      BY <1>2, <1>3, <1>4, <2>1, <3>1, <3>2
  <2>4. QED
    BY <2>2, <2>3
<1>6. QED
  BY <1>1, <1>2, <1>5 DEF LateInv, Armed

\* The loop takes a new list: who is due waits for those before it in the list,
\* none of which was submitted yet.
LEMMA LateWake ==
    ASSUME IInv, LateInv, Wake
    PROVE  LateInv'
<1>1. PICK b \in Due : Proceed(b)
  BY DEF Wake
<1>2. /\ batch = <<>> /\ wakeIn = 0 /\ UNCHANGED <<rec, left>>
      /\ batch' = b /\ elapsed' = 0 /\ wakeIn' = IF b = <<>> THEN TickLength ELSE 0
      /\ fires' = IF b = <<>> THEN fires ELSE [fires EXCEPT ![Head(b)] = @ + 1]
      /\ TypeOK /\ FireInv
      /\ SubmitMax \in Nat /\ TickLength \in Nat /\ LatenessBound \in Int
  <2>1. Cardinality(Timers) \in Nat
    BY ConstantsOK, FS_CardinalityType
  <2>2. QED
    BY <1>1, <2>1, ConstantsOK DEF Wake, Proceed, table, IInv, LatenessBound
<1>3. /\ b \in Seq(Timers)
      /\ \A i \in 1..Len(b) : b[i] \in Timers /\ fires[b[i]] = 0
      /\ \A i, j \in 1..Len(b) : b[i] = b[j] => i = j
      /\ \A t \in Armed : left[t] <= 0 => \E i \in 1..Len(b) : b[i] = t
  BY <1>2, DueList DEF Armed
<1>4. b # <<>> => 1 \in 1..Len(b) /\ Head(b) = b[1] /\ fires'[Head(b)] = 1
  BY <1>2, <1>3 DEF TypeOK
<1>5. \A t \in Timers : fires'[t] = 0 => fires[t] = 0
  BY <1>2, <1>3 DEF TypeOK
<1>6. ASSUME NEW t \in Armed, fires[t] = 0
      PROVE  /\ \A i \in 2..Len(b) : b[i] = t =>
                   Late(t)' + (SubmitMax - elapsed') + Cost(i - 2) <= LatenessBound
             /\ (\A i \in 1..Len(b) : b[i] # t) =>
                   Late(t)' + Pending' + Cost(Cardinality(Unfired(fires', t))) <= LatenessBound
  <2>1. t \in Timers /\ left[t] \in Int /\ Late(t)' = Late(t) /\ Late(t) \in Nat
    BY <1>2 DEF Armed, Late, TypeOK
  <2>2. ASSUME NEW i \in 2..Len(b), b[i] = t
        PROVE  Late(t)' + (SubmitMax - elapsed') + Cost(i - 2) <= LatenessBound
    <3>1. Late(t) + Cost(Cardinality(Unfired(fires, t))) <= LatenessBound
      <4>1. Late(t) + 0 + Cost(Cardinality(Unfired(fires, t))) <= LatenessBound
        BY <1>2, <1>6 DEF LateInv, Pending
      <4>2. QED
        BY <2>1, <4>1
    <3>2. i - 1 \in Nat /\ i - 2 \in Nat /\ (i - 2) + 1 = i - 1 /\ Len(b) \in Nat
      BY <1>3, <2>2
    <3>3. i - 1 <= Cardinality(Unfired(fires, t))
      <4> DEFINE before == [j \in 1..(i - 1) |-> b[j]]
      <4>1. \A j \in 1..(i - 1) : j \in 1..Len(b) /\ j # i
        BY <2>2, <3>2
      <4>2. \A j \in 1..(i - 1) : b[j] \in Unfired(fires, t)
        <5>1. i \in 1..Len(b)
          BY <2>2, <3>2
        <5>2. QED
          BY <1>3, <2>2, <4>1, <5>1 DEF Unfired
      <4>3. before \in Injection(1..(i - 1), Unfired(fires, t))
        BY <1>3, <4>1, <4>2 DEF Injection, IsInjective
      <4>4. Cardinality(1..(i - 1)) = i - 1
        BY <3>2, FS_Interval
      <4>5. IsFiniteSet(Unfired(fires, t))
        BY <2>1, RoomForAll
      <4>6. QED
        BY <4>3, <4>4, <4>5, FS_Injection
    <3>4. Cost(i - 1) <= Cost(Cardinality(Unfired(fires, t)))
      BY <2>1, <3>2, <3>3, RoomForAll
    <3>5. Cost(i - 1) = Cost(i - 2) + SubmitMax /\ Cost(i - 2) \in Nat
      BY <3>2, CostFacts
    <3>6. Cost(Cardinality(Unfired(fires, t))) \in Nat
      BY <2>1, RoomForAll, CostFacts
    <3>7. QED
      BY <1>2, <2>1, <3>1, <3>4, <3>5, <3>6
  <2>3. ASSUME \A i \in 1..Len(b) : b[i] # t
        PROVE  Late(t)' + Pending' + Cost(Cardinality(Unfired(fires', t))) <= LatenessBound
    <3>1. Late(t)' = 0
      BY <1>3, <2>1, <2>3 DEF Late
    <3>2. /\ Cardinality(Unfired(fires', t)) \in Nat
          /\ TickLength + Cost(Cardinality(Unfired(fires', t))) <= LatenessBound
      BY <2>1, RoomForAll
    <3>3. Cost(Cardinality(Unfired(fires', t))) \in Nat
      BY <3>2, CostFacts
    <3>4. CASE b = <<>>
      <4>1. Pending' = TickLength
        BY <1>2, <3>4 DEF Pending
      <4>2. QED
        BY <1>2, <3>1, <3>2, <3>3, <4>1
    <3>5. CASE b # <<>>
      <4>1. Pending' = SubmitMax + TickLength
        BY <1>2, <3>5 DEF Pending
      <4>2. Head(b) \in Timers \ {t} /\ fires'[Head(b)] # 0
        BY <1>3, <1>4, <2>3, <3>5
      <4>3. SubmitMax + TickLength + Cost(Cardinality(Unfired(fires', t))) <= LatenessBound
        BY <2>1, <4>2, RoomForAll
      <4>4. QED
        BY <1>2, <3>1, <3>3, <4>1, <4>3
    <3>6. QED
      BY <3>4, <3>5
  <2>4. QED
    BY <2>2, <2>3
<1>7. elapsed' \in 0..SubmitMax /\ wakeIn' \in 0..TickLength
  BY <1>2
<1>8. QED
  BY <1>2, <1>5, <1>6, <1>7 DEF LateInv, Armed

\* A submission ends: everybody behind it moves up by one.
LEMMA LateReturns ==
    ASSUME IInv, LateInv, NEW result \in SubmitResults, FireReturns(result)
    PROVE  LateInv'
<1> DEFINE h == Head(batch)
           b == Tail(batch)
<1>1. /\ batch # <<>> /\ UNCHANGED left
      /\ rec' = [rec EXCEPT ![h] = FireStatus(result)] /\ FireStatus(result) # "ARMED"
      /\ batch' = b /\ elapsed' = 0 /\ wakeIn' = IF b = <<>> THEN TickLength ELSE 0
      /\ fires' = IF b = <<>> THEN fires ELSE [fires EXCEPT ![Head(b)] = @ + 1]
      /\ TypeOK /\ FireInv
  BY FireStatusType DEF FireReturns, Settle, Proceed, IInv, SETTLED
<1>2. SubmitMax \in Nat /\ TickLength \in Nat /\ LatenessBound \in Int
      /\ elapsed \in 0..SubmitMax
  <2>1. Cardinality(Timers) \in Nat
    BY ConstantsOK, FS_CardinalityType
  <2>2. QED
    BY <2>1, ConstantsOK DEF LatenessBound, LateInv
<1>3. /\ batch \in Seq(Timers) /\ h = batch[1] /\ h \in Timers /\ b \in Seq(Timers)
      /\ Len(b) = Len(batch) - 1 /\ Len(b) \in Nat
      /\ \A i \in 1..Len(b) : b[i] = batch[i + 1] /\ i + 1 \in 2..Len(batch)
      /\ \A i \in 2..Len(batch) : i - 1 \in 1..Len(b)
      /\ b # <<>> => 1 \in 1..Len(b) /\ Head(b) = b[1]
  BY <1>1 DEF TypeOK
<1>4. \A i \in 1..Len(b) : fires[b[i]] = 0 /\ b[i] \in Timers
  BY <1>1, <1>3 DEF FireInv
<1>5. ASSUME NEW t \in Timers, rec'[t] = "ARMED", fires'[t] = 0
      PROVE  t \in Armed /\ fires[t] = 0 /\ t # h
  <2>1. t # h /\ rec[t] = "ARMED"
    BY <1>1, <1>3, <1>5 DEF TypeOK
  <2>2. fires[t] = 0
    <3>1. CASE b = <<>>
      BY <1>1, <1>5, <3>1
    <3>2. CASE b # <<>>
      <4>1. fires' = [fires EXCEPT ![b[1]] = @ + 1] /\ fires[b[1]] = 0 /\ b[1] \in Timers
        BY <1>1, <1>3, <1>4, <3>2
      <4> HIDE DEF b
      <4>2. t = b[1] \/ fires'[t] = fires[t]
        BY <1>1, <4>1 DEF TypeOK
      <4>3. QED
        BY <1>5, <4>1, <4>2
    <3>3. QED
      BY <3>1, <3>2
  <2>3. QED
    BY <2>1, <2>2 DEF Armed
<1>6. ASSUME NEW t \in Timers, rec'[t] = "ARMED", fires'[t] = 0
      PROVE  /\ \A i \in 2..Len(b) : b[i] = t =>
                   Late(t)' + (SubmitMax - elapsed') + Cost(i - 2) <= LatenessBound
             /\ (\A i \in 1..Len(b) : b[i] # t) =>
                   Late(t)' + Pending' + Cost(Cardinality(Unfired(fires', t))) <= LatenessBound
  <2>1. t \in Armed /\ fires[t] = 0 /\ t # h
    BY <1>5, <1>6
  <2>2. Late(t)' = Late(t) /\ Late(t) \in Nat
    BY <1>1 DEF Late, TypeOK
  <2>3. ASSUME NEW i \in 2..Len(b), b[i] = t
        PROVE  Late(t)' + (SubmitMax - elapsed') + Cost(i - 2) <= LatenessBound
    <3>1. /\ i + 1 \in 2..Len(batch) /\ batch[i + 1] = t
          /\ i - 2 \in Nat /\ (i + 1) - 2 = i - 1 /\ (i - 2) + 1 = i - 1
      BY <1>3, <2>3
    <3>2. Late(t) + (SubmitMax - elapsed) + Cost(i - 1) <= LatenessBound
      BY <2>1, <3>1 DEF LateInv
    <3>3. Cost(i - 1) = Cost(i - 2) + SubmitMax /\ Cost(i - 2) \in Nat
      BY <3>1, CostFacts
    <3>4. QED
      BY <1>1, <1>2, <2>2, <3>2, <3>3
  <2>4. ASSUME \A i \in 1..Len(b) : b[i] # t
        PROVE  Late(t)' + Pending' + Cost(Cardinality(Unfired(fires', t))) <= LatenessBound
    <3> DEFINE k == Cardinality(Unfired(fires, t))
    <3>1. \A i \in 1..Len(batch) : batch[i] # t
      <4>1. SUFFICES ASSUME NEW i \in 1..Len(batch), batch[i] = t, i # 1 PROVE FALSE
        BY <1>3, <2>1
      <4>2. i - 1 \in 1..Len(b) /\ (i - 1) + 1 = i
        BY <1>3, <4>1
      <4>3. QED
        BY <1>3, <2>4, <4>1, <4>2
    <3>2. Late(t) + (SubmitMax - elapsed) + TickLength + Cost(k) <= LatenessBound
      <4>1. Late(t) + Pending + Cost(k) <= LatenessBound
        BY <2>1, <3>1 DEF LateInv
      <4>2. Pending = (SubmitMax - elapsed) + TickLength
        BY <1>1 DEF Pending
      <4>3. Cost(k) \in Nat
        BY RoomForAll, CostFacts
      <4>4. QED
        BY <1>2, <2>2, <4>1, <4>2, <4>3
    <3>3. k \in Nat /\ Cost(k) \in Nat
      BY RoomForAll, CostFacts
    <3>4. CASE b = <<>>
      <4>1. Pending' = TickLength /\ fires' = fires
        BY <1>1, <3>4 DEF Pending
      <4> HIDE DEF k
      <4>2. Late(t) + TickLength + Cost(k) <= LatenessBound
        BY <1>2, <2>2, <3>2, <3>3
      <4>3. QED
        BY <2>2, <4>1, <4>2 DEF k
    <3>5. CASE b # <<>>
      <4>1. Pending' = SubmitMax + TickLength
        BY <1>1, <1>2, <3>5 DEF Pending
      <4>2. Head(b) \in Timers \ {t} /\ fires[Head(b)] = 0
        BY <1>3, <1>4, <2>4, <3>5
      <4>3. Unfired(fires', t) = Unfired(fires, t) \ {Head(b)} /\ Head(b) \in Unfired(fires, t)
        <5>1. fires \in [Timers -> Nat] /\ fires' = [fires EXCEPT ![Head(b)] = @ + 1]
          BY <1>1, <3>5 DEF TypeOK
        <5> HIDE DEF b
        <5>2. fires'[Head(b)] # 0 /\ \A u \in Timers \ {Head(b)} : fires'[u] = fires[u]
          BY <4>2, <5>1
        <5>3. QED
          BY <4>2, <5>2 DEF Unfired
      <4>4. Cardinality(Unfired(fires', t)) = k - 1
        BY <4>3, RoomForAll, FS_RemoveElement
      <4>5. k - 1 \in Nat
        BY <4>4, RoomForAll
      <4>6. Cost(k) = Cost(k - 1) + SubmitMax /\ Cost(k - 1) \in Nat
        <5> HIDE DEF k
        <5>1. (k - 1) + 1 = k
          BY <3>3
        <5>2. QED
          BY <4>5, <5>1, CostFacts
      <4> HIDE DEF k
      <4>7. Late(t) + (SubmitMax + TickLength) + Cost(k - 1) <= LatenessBound
        BY <1>2, <2>2, <3>2, <3>3, <4>6
      <4>8. QED
        BY <2>2, <4>1, <4>4, <4>7
    <3>6. QED
      BY <3>4, <3>5
  <2>5. QED
    BY <2>3, <2>4
<1>7. elapsed' \in 0..SubmitMax /\ wakeIn' \in 0..TickLength
  BY <1>1, <1>2
<1>8. QED
  BY <1>1, <1>6, <1>7 DEF LateInv, Armed

LEMMA LateInit ==
    ASSUME Init
    PROVE  LateInv
<1>1. SubmitMax \in Nat /\ TickLength \in Nat
  BY ConstantsOK
<1>2. elapsed \in 0..SubmitMax /\ wakeIn \in 0..TickLength
  BY <1>1 DEF Init
<1>3. Armed = {}
  BY DEF Init, Armed
<1>4. QED
  BY <1>2, <1>3 DEF LateInv

LEMMA LateStep ==
    ASSUME IInv, LateInv, [Next]_vars
    PROVE  LateInv'
<1>1. IInv'
  BY ScheduleStep
<1>2. ASSUME NEW t \in Timers, Deny(t) \/ SwitchOn(t) \/ SwitchOnFails(t)
      PROVE  LateInv'
  BY <1>2, LateStill DEF Deny, SwitchOn, SwitchOnFails, table, loop
<1>3. ASSUME NEW t \in Timers, SwitchOnSucceeds(t) \/ CreateDelayedStart(t)
      PROVE  LateInv'
  BY <1>1, <1>3, LateArm DEF SwitchOnSucceeds, CreateDelayedStart
<1>4. ASSUME NEW t \in Timers, Cancel(t)
      PROVE  LateInv'
  <2>1. \A u \in Timers : rec'[u] = "ARMED" => rec[u] = "ARMED"
    BY <1>4 DEF Cancel, Settle, IInv, TypeOK
  <2>2. QED
    BY <1>4, <2>1, LateStill DEF Cancel, loop
<1>5. CASE UNCHANGED vars
  BY <1>5, LateStill DEF vars
<1>6. QED
  BY <1>2, <1>3, <1>4, <1>5, LateReturns, LateWake, LateAdvance DEF Next

\* A timer that nobody touched is submitted at most one tick and the submissions of
\* all other timers after its due_at (service.py:219-235): for any number of timers,
\* however creations, cancellations and slow submissions interleave.
THEOREM FiresInTimeHolds == Spec => FiresInTime
<1> DEFINE InTime == \A t \in Timers : fires'[t] > fires[t] /\ rec[t] = "ARMED"
                                          => -left[t] <= LatenessBound
<1>1. ASSUME IInv, IInv', LateInv
      PROVE  InTime
  <2>1. SUFFICES ASSUME NEW t \in Timers, fires'[t] > fires[t], rec[t] = "ARMED"
                 PROVE  -left[t] <= LatenessBound
    OBVIOUS
  <2>2. t \in Armed /\ fires[t] = 0
    <3>1. fires[t] \in Nat /\ fires'[t] \in Nat /\ fires'[t] <= 1
      BY <1>1 DEF IInv, TypeOK, FireInv
    <3>2. QED
      BY <2>1, <3>1 DEF Armed
  <2>3. /\ Late(t) \in Nat /\ -left[t] <= Late(t) /\ left[t] \in Int
        /\ SubmitMax - elapsed \in Nat /\ Pending \in Nat /\ LatenessBound \in Int
    <3>1. Cardinality(Timers) \in Nat
      BY ConstantsOK, FS_CardinalityType
    <3>2. left[t] \in Int
      BY <1>1 DEF IInv, TypeOK
    <3>3. SubmitMax - elapsed \in Nat /\ Pending \in Nat /\ LatenessBound \in Int
      BY <1>1, <3>1, ConstantsOK DEF LateInv, Pending, LatenessBound
    <3>4. QED
      BY <3>2, <3>3 DEF Late
  <2>4. CASE \E i \in 1..Len(batch) : batch[i] = t
    <3>1. PICK i \in 1..Len(batch) : batch[i] = t
      BY <2>4
    <3>2. i \in 2..Len(batch) /\ i - 2 \in Nat
      <4>1. i # 1
        BY <1>1, <2>2, <3>1 DEF IInv, FireInv
      <4>2. Len(batch) \in Nat
        BY <1>1 DEF IInv, TypeOK
      <4>3. QED
        BY <3>1, <4>1, <4>2
    <3>3. Late(t) + (SubmitMax - elapsed) + Cost(i - 2) <= LatenessBound
      BY <1>1, <2>2, <3>1, <3>2 DEF LateInv
    <3>4. Cost(i - 2) \in Nat
      BY <3>2, CostFacts
    <3>5. QED
      BY <2>3, <3>3, <3>4
  <2>5. CASE \A i \in 1..Len(batch) : batch[i] # t
    <3>1. Late(t) + Pending + Cost(Cardinality(Unfired(fires, t))) <= LatenessBound
      BY <1>1, <2>2, <2>5 DEF LateInv
    <3>2. Cost(Cardinality(Unfired(fires, t))) \in Nat
      BY RoomForAll, CostFacts
    <3>3. QED
      BY <2>3, <3>1, <3>2
  <2>6. QED
    BY <2>4, <2>5
<1>2. Init => IInv /\ LateInv
  BY ScheduleInit, LateInit
<1>3. IInv /\ LateInv /\ [Next]_vars => IInv' /\ LateInv'
  BY ScheduleStep, LateStep
<1>4. IInv /\ LateInv /\ [Next]_vars => [InTime]_vars
  BY <1>1, <1>3
<1>5. Spec => [][InTime]_vars
  BY <1>2, <1>3, <1>4, PTL DEF Spec
<1>6. QED
  BY <1>5 DEF FiresInTime
=============================================================================
