------------------------------ MODULE Schedules ------------------------------
(***************************************************************************)
(* schedules/service.py: ScheduleService, the one-shot timers and the loop *)
(* that fires them, on the same event loop as everything else: the code    *)
(* between two awaits is one step.  create awaits commands.submit once     *)
(* (RUN_FOR only); the loop awaits asyncio.sleep and, for every due timer, *)
(* commands.submit.  cancel never awaits.                                  *)
(*                                                                         *)
(* The command pipeline is seen through the CommandSubmitter protocol: a   *)
(* call ends, after some time, with one of SubmitResults.                  *)
(*                                                                         *)
(* Time is relative: each timer counts down to its due_at, the loop to the *)
(* end of its sleep.  A "switch" is a pair of a device and a function of   *)
(* it (an action), which is what "one timer per function" is about.        *)
(***************************************************************************)
EXTENDS Integers, Sequences, FiniteSets

CONSTANTS
    Timers,       \* identities of the timers asked for in a behaviour
    Switches,     \* (device, action) pairs
    TimedActions, \* those whose action is in TIMED_ACTIONS
    Supported,    \* those whose device has the capability
    Hours,        \* the delays clients ask for, in quarter hours
    MaxHours,     \* schedule_max_hours, in quarter hours
    TickLength,   \* schedule_tick_seconds
    SubmitMax,    \* the longest a call of commands.submit takes
    MaxTracked    \* _MAX_TRACKED

ASSUME ConstantsOK ==
    /\ IsFiniteSet(Timers)
    /\ TimedActions \subseteq Switches /\ Supported \subseteq Switches
    /\ Hours \subseteq Nat /\ MaxHours \in Nat
    /\ TickLength \in Nat \ {0} /\ SubmitMax \in Nat
    /\ MaxTracked \in Nat \ {0}

SETTLED == {"COMPLETED", "CANCELLED", "SUPERSEDED", "FAILED", "UNKNOWN"}
ScheduleKind == {"DELAYED_START", "RUN_FOR"}
Request == [switch : Switches, kind : ScheduleKind, hours : Hours]

\* How commands.submit ends: with a command in one of its final states, or raised.
SubmitResults == {"SUCCEEDED", "FAILED", "UNKNOWN", "raised"}

VARIABLES
    want,     \* what the request that would make a timer asks for
    create,   \* how far create() got for it
    rec,      \* _schedules: the status stored for a timer, "NONE" if not a key
    placed,   \* _schedules: when the key was inserted
    inserts,  \* number of insertions so far
    left,     \* time until due_at, negative once it has passed
    batch,    \* the rest of the list _due() returned; its head is being fired
    wakeIn,   \* time left of asyncio.sleep, when batch is empty
    elapsed,  \* how long the submit call of the head has been running
    fires,    \* how many times the loop submitted a timer's command
    trail     \* what was audited and published for a timer

table == <<rec, placed, inserts>>
loop == <<batch, wakeIn, elapsed, fires>>
vars == <<want, create, rec, placed, inserts, left, batch, wakeIn, elapsed, fires, trail>>

Armed == {t \in Timers : rec[t] = "ARMED"}

\* _validate_hours: half-hour steps, at least half an hour, at most the maximum.
ValidHours(h) == h % 2 = 0 /\ h >= 2 /\ h <= MaxHours

\* The refusals of create, in the order the code makes them.
Verdict(r) == IF r.switch \notin TimedActions THEN "not_schedulable"
              ELSE IF ~ValidHours(r.hours) THEN "parameter_out_of_range"
              ELSE IF r.switch \notin Supported THEN "capability_not_supported"
              ELSE "accepted"

AuditedDenials == {"not_schedulable", "capability_not_supported"}

\* How late a timer may really fire: one tick, and the firing of all others.
\* Countdowns stop just beyond it, which bounds the model.
LatenessBound == TickLength + (Cardinality(Timers) - 1) * SubmitMax

-----------------------------------------------------------------------------
Init ==
    /\ want \in [Timers -> Request]
    /\ create = [t \in Timers |-> "new"]
    /\ rec = [t \in Timers |-> "NONE"]
    /\ placed = [t \in Timers |-> 0]
    /\ inserts = 0
    /\ left = [t \in Timers |-> 0]
    /\ batch = <<>>
    /\ wakeIn = TickLength
    /\ elapsed = 0
    /\ fires = [t \in Timers |-> 0]
    /\ trail = [t \in Timers |-> <<>>]

-----------------------------------------------------------------------------
(* create *)

Deny(t) ==
    /\ create[t] = "new"
    /\ Verdict(want[t]) # "accepted"
    /\ create' = [create EXCEPT ![t] = "refused"]
    /\ trail' = IF Verdict(want[t]) \in AuditedDenials
                THEN [trail EXCEPT ![t] = <<Verdict(want[t])>>]
                ELSE trail
    /\ UNCHANGED <<want, table, left, loop>>

\* RUN_FOR switches the function on first and awaits the outcome.
SwitchOn(t) ==
    /\ create[t] = "new"
    /\ Verdict(want[t]) = "accepted"
    /\ want[t].kind = "RUN_FOR"
    /\ create' = [create EXCEPT ![t] = "starting"]
    /\ UNCHANGED <<want, table, left, loop, trail>>

\* The function could not be started: nothing is armed.
SwitchOnFails(t) ==
    /\ create[t] = "starting"
    /\ create' = [create EXCEPT ![t] = "refused"]
    /\ UNCHANGED <<want, table, left, loop, trail>>

\* Slip: a timer that is due already is not counted as armed any more.
ReplacedIfPending(t) == {u \in Armed : want[u].switch = want[t].switch /\ left[u] > 0}

\* The timers a new timer t replaces: those armed for the same switch.
Replaced(t) == {u \in Armed : want[u].switch = want[t].switch}

\* Slip: the oldest timer goes, whatever its status.
EvictedAny(r, p) ==
    LET stored == {u \in Timers : r[u] # "NONE"}
        excess == Cardinality(stored) - MaxTracked
    IN  {E \in SUBSET stored :
            /\ Cardinality(E) = IF excess <= 0 THEN 0 ELSE excess
            /\ \A u \in E, v \in stored \ E : p[u] < p[v]}

\* _remember, for the table r with insertion moments p: while it is over its
\* bound, the oldest settled timer is dropped, if there is one.  The set of the
\* timers to drop, as a set with that one element.
Evicted(r, p) ==
    LET stored  == {u \in Timers : r[u] # "NONE"}
        settled == {u \in stored : r[u] # "ARMED"}
        excess  == Cardinality(stored) - MaxTracked
    IN  {E \in SUBSET settled :
            /\ Cardinality(E) = IF excess <= 0 THEN 0
                                ELSE IF excess <= Cardinality(settled) THEN excess
                                ELSE Cardinality(settled)
            /\ \A u \in E, v \in settled \ E : p[u] < p[v]}

\* The record is built, older timers of the switch are superseded, the new one
\* is remembered, audited and published, all without an await.
Arm(t) ==
    LET order == [placed EXCEPT ![t] = inserts + 1]
        inserted == [u \in Timers |-> IF u = t THEN "ARMED"
                                      ELSE IF u \in Replaced(t) THEN "SUPERSEDED"
                                      ELSE rec[u]]
    IN  /\ \E gone \in Evicted(inserted, order) :
             rec' = [u \in Timers |-> IF u \in gone THEN "NONE" ELSE inserted[u]]
        /\ placed' = order
        /\ inserts' = inserts + 1
        /\ left' = [left EXCEPT ![t] = want[t].hours]
        /\ create' = [create EXCEPT ![t] = "made"]
        /\ trail' = [u \in Timers |-> IF u = t THEN <<"ARMED">>
                                      ELSE IF u \in Replaced(t)
                                           THEN Append(trail[u], "SUPERSEDED")
                                      ELSE trail[u]]
        /\ UNCHANGED <<want, loop>>

CreateDelayedStart(t) ==
    /\ create[t] = "new"
    /\ Verdict(want[t]) = "accepted"
    /\ want[t].kind = "DELAYED_START"
    /\ Arm(t)

\* The switch-on SUCCEEDED or is UNKNOWN: arm the switch-off.
SwitchOnSucceeds(t) ==
    /\ create[t] = "starting"
    /\ Arm(t)

-----------------------------------------------------------------------------
(* _settle stores whatever it is given: it neither looks at the stored     *)
(* status nor whether the timer is still a key.                            *)

Settle(t, s) ==
    /\ rec' = [rec EXCEPT ![t] = s]
    /\ placed' = IF rec[t] = "NONE" THEN [placed EXCEPT ![t] = inserts + 1] ELSE placed
    /\ inserts' = IF rec[t] = "NONE" THEN inserts + 1 ELSE inserts
    /\ trail' = [trail EXCEPT ![t] = Append(@, s)]

\* cancel answers the stored timer as it is unless it is armed.
Cancel(t) ==
    /\ rec[t] = "ARMED"
    /\ Settle(t, "CANCELLED")
    /\ UNCHANGED <<want, create, left, loop>>

-----------------------------------------------------------------------------
(* run and fire *)

\* The lists of the members of a set of timers in the order of the table (one).
InTableOrder(due) ==
    {b \in [1..Cardinality(due) -> due] :
        \A i, j \in 1..Cardinality(due) : i < j => placed[b[i]] < placed[b[j]]}

\* Slip: a timer is picked up only at the very moment it comes due.
DueExactly == InTableOrder({t \in Armed : left[t] = 0})

\* _due: the armed timers whose due_at has come.
Due == InTableOrder({t \in Armed : left[t] <= 0})

\* Slip: only one timer is fired per tick.
ProceedOneByOne(b) ==
    /\ batch' = IF batch = <<>> /\ b # <<>> THEN <<Head(b)>> ELSE <<>>
    /\ elapsed' = 0
    /\ wakeIn' = IF batch = <<>> /\ b # <<>> THEN 0 ELSE TickLength
    /\ fires' = IF batch = <<>> /\ b # <<>> THEN [fires EXCEPT ![Head(b)] = @ + 1] ELSE fires

\* The loop goes on with list b: its head is submitted, or it sleeps again.
Proceed(b) ==
    /\ batch' = b
    /\ elapsed' = 0
    /\ wakeIn' = IF b = <<>> THEN TickLength ELSE 0
    /\ fires' = IF b = <<>> THEN fires ELSE [fires EXCEPT ![Head(b)] = @ + 1]

\* The sleep is over: take the list of due timers and fire the first.
Wake ==
    /\ batch = <<>>
    /\ wakeIn = 0
    /\ \E b \in Due : Proceed(b)
    /\ UNCHANGED <<want, create, table, left, trail>>

\* Slip: the command's status is stored as it is.
FireStatusRaw(result) == result

FireStatus(result) == CASE result = "SUCCEEDED" -> "COMPLETED"
                        [] result = "UNKNOWN" -> "UNKNOWN"
                        [] OTHER -> "FAILED"

\* Slip: a refused submission leaves the timer armed, to be tried again.
FireReturnsRetrying(result) ==
    /\ batch # <<>>
    /\ IF result = "raised" THEN UNCHANGED <<table, trail>>
                            ELSE Settle(Head(batch), FireStatus(result))
    /\ Proceed(Tail(batch))
    /\ UNCHANGED <<want, create, left>>

\* The submit call of the head ends; the timer is settled from the record the
\* list holds, and the loop starts the next one at once.
FireReturns(result) ==
    /\ batch # <<>>
    /\ Settle(Head(batch), FireStatus(result))
    /\ Proceed(Tail(batch))
    /\ UNCHANGED <<want, create, left>>

\* Time passes.  A sleep that is over ends at once, and a submit call takes at
\* most SubmitMax.
Advance ==
    /\ IF batch = <<>> THEN wakeIn > 0 ELSE elapsed < SubmitMax
    /\ wakeIn' = IF batch = <<>> THEN wakeIn - 1 ELSE wakeIn
    /\ elapsed' = IF batch = <<>> THEN elapsed ELSE elapsed + 1
    /\ left' = [t \in Timers |->
                    IF t \in Armed /\ fires[t] = 0 /\ left[t] >= -LatenessBound
                    THEN left[t] - 1 ELSE left[t]]
    /\ UNCHANGED <<want, create, table, batch, fires, trail>>

-----------------------------------------------------------------------------
Next == \/ \E t \in Timers : \/ Deny(t) \/ SwitchOn(t) \/ SwitchOnFails(t)
                             \/ SwitchOnSucceeds(t) \/ CreateDelayedStart(t)
                             \/ Cancel(t)
        \/ \E result \in SubmitResults : FireReturns(result)
        \/ Wake \/ Advance

Spec == Init /\ [][Next]_vars

\* The loop task is never starved, its submit calls end, and time passes.
FairSpec == /\ Spec
            /\ WF_vars(Wake)
            /\ WF_vars(\E result \in SubmitResults : FireReturns(result))
            /\ WF_vars(Advance)

-----------------------------------------------------------------------------
(* Properties.                                                             *)

\* Every variable stays in its set.
TypeOK ==
    /\ want \in [Timers -> Request]
    /\ create \in [Timers -> {"new", "starting", "refused", "made"}]
    /\ rec \in [Timers -> {"NONE", "ARMED"} \cup SETTLED]
    /\ placed \in [Timers -> Nat]
    /\ inserts \in Nat
    /\ left \in [Timers -> Int]
    /\ batch \in Seq(Timers)
    /\ wakeIn \in Nat
    /\ elapsed \in Nat
    /\ fires \in [Timers -> Nat]
    /\ trail \in [Timers -> Seq({"ARMED"} \cup SETTLED \cup AuditedDenials)]

\* service.py:188, "One timer per function": however creations, cancellations
\* and firings interleave, no switch ever has two armed timers.
OneArmedPerSwitch ==
    \A t, u \in Armed : want[t].switch = want[u].switch => t = u

\* service.py:263, "An unattended physical write gets exactly one attempt".
FiredAtMostOnce == \A t \in Timers : fires[t] <= 1

\* service.py:302, an armed timer "cannot be forgotten while it still owes the
\* household an action": it only stops being armed by a settlement that is
\* audited and published.
ArmedNeverForgotten ==
    [][\A t \in Timers :
         rec[t] = "ARMED" /\ rec'[t] # "ARMED"
            => \E s \in SETTLED : trail'[t] = Append(trail[t], s)]_vars

\* A timer that nobody touched is submitted within LatenessBound of due_at.
FiresInTime ==
    [][\A t \in Timers : fires'[t] > fires[t] /\ rec[t] = "ARMED"
                            => -left[t] <= LatenessBound]_vars

\* Every armed timer is settled in the end, by the loop if by nobody else.
ArmedSettles == \A t \in Timers : (rec[t] = "ARMED") ~> (rec[t] # "ARMED")

\* schedules/models.py:45, "Terminal states. A timer in any of these never fires
\* again": the loop never submits a timer whose stored status is settled.
SettledNeverFires ==
    [][\A t \in Timers : fires'[t] > fires[t] => rec[t] \notin SETTLED]_vars
=============================================================================
