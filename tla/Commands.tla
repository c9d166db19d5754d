------------------------------ MODULE Commands ------------------------------
(***************************************************************************)
(* commands/service.py: CommandService, the only path to a physical        *)
(* device.  Everything runs on one asyncio event loop, so the code between *)
(* two awaits is one step here.  A command awaits in three places: the     *)
(* device's asyncio.Lock, provider.execute under command_timeout_seconds,  *)
(* and provider.get_state under reconcile_timeout_seconds.                 *)
(*                                                                         *)
(* The two OrderedDicts (_locks and _commands) are kept as functions from  *)
(* the key to the moment of its last move_to_end; 0 means "not a key", and *)
(* popitem(last=False) takes the key with the smallest moment.  An         *)
(* asyncio.Lock object is named after the command that created it; its     *)
(* state is the line of commands that called acquire and have not          *)
(* released, holder first (asyncio.Lock is fair: nobody overtakes a woken  *)
(* waiter).                                                                *)
(*                                                                         *)
(* The adapters and the physical devices are external to this module: a    *)
(* write that was handed to the network may land late, even after the      *)
(* gateway stopped waiting, or never; an adapter may raise at any moment,  *)
(* also after the write left (HTTP error or malformed answer after the     *)
(* service call, a drain that fails after the bytes were written).  What   *)
(* an adapter reads was composed at some moment while it was waited for,   *)
(* and arrives later.  Where an earlier call was cancelled, it may be the  *)
(* answer to that one (Bestway!CutOff), of any moment.                     *)
(***************************************************************************)
EXTENDS CommandPolicy, Sequences, FiniteSets

CONSTANTS
    Cmds,          \* identities of the submissions made in a behaviour
    Devices,       \* the registered devices
    NoLock,        \* no lock object (None)
    Requests,      \* what clients ask for: records [device, action, param]
    Capabilities,  \* Device.capabilities, as a function
    Ranges,        \* DeviceConstraints: a function to the accepted setpoints
    Reachability,  \* the availabilities adapters report in this instance
    Boot,          \* the state fields bootstrap finds on every device
    MaxLocks,      \* _MAX_DEVICE_LOCKS
    MaxTracked     \* _MAX_TRACKED_COMMANDS

Request == [device : Devices, action : Action, param : Int]

\* The state fields clients of this instance touch; a field is named by its action.
Fields == {r.action : r \in Requests}

Availability == {"ONLINE", "OFFLINE", "UNKNOWN"}

ASSUME ConstantsOK ==
    /\ IsFiniteSet(Cmds) /\ IsFiniteSet(Devices)
    /\ NoLock \notin Cmds
    /\ Requests \subseteq Request
    /\ Reachability \subseteq Availability
    /\ Boot \in [Fields -> Int]
    /\ MaxLocks \in Nat \ {0} /\ MaxTracked \in Nat \ {0}

VARIABLES
    pc,        \* where each submission is
    req,       \* what it asked for (its Command's immutable part)
    status,    \* the status of the last record made by with_status
    tracked,   \* _commands: last move_to_end of every key, 0 if not a key
    lockUsed,  \* _locks: last move_to_end of every key, 0 if not a key
    lockAt,    \* _locks: the lock object stored under the key
    uses,      \* number of move_to_end calls made so far
    lockOf,    \* the lock object a command called acquire on
    waiters,   \* per lock object: holder, then waiting commands
    wire,      \* what became of the physical write of a command
    phys,      \* the physical state of each device
    held,      \* DeviceRegistry: the state held for each device
    avail,     \* DeviceRegistry: the availability held for each device
    audit,     \* outcomes in the audit trail, per command
    events,    \* command events published on the bus, per command
    past,      \* every state each device has been in
    since,     \* the states of a command's device since the command began, and
               \* whose write made them
    cut        \* the commands whose call of the adapter was cancelled

lockVars == <<lockUsed, lockAt, lockOf, waiters>>
deviceVars == <<phys, held, avail>>
seenVars == <<past, since, cut>>
vars == <<pc, req, status, tracked, lockUsed, lockAt, uses, lockOf, waiters,
          wire, phys, held, avail, audit, events, past, since, cut>>

Finished == {"SUCCEEDED", "FAILED", "UNKNOWN"}
AtProvider == {"executing", "reconciling"}

\* The checks of submit, in the order they are made.
Verdict(r) ==
    IF r.param \notin ParamsModel(r.action) THEN "invalid_parameters"
    ELSE IF required_capability_for(r.action, r.param) \notin Capabilities[r.device]
         THEN "capability_not_supported"
    ELSE IF r.action = "SET_TARGET_TEMPERATURE" /\ r.param \notin Ranges[r.device]
         THEN "parameter_out_of_range"
    ELSE IF classify(r.action, r.param) = "HIGH" THEN "action_authorization_required"
    ELSE IF avail[r.device] = "OFFLINE" THEN "device_unavailable"
    ELSE "accepted"

\* The refusals that reach _audit_denied.
AuditedDenials == {"capability_not_supported", "action_authorization_required",
                   "device_unavailable"}

-----------------------------------------------------------------------------
(* OrderedDict, as used by _remember and _device_lock.                     *)

Keys(t) == {k \in DOMAIN t : t[k] # 0}

Oldest(t) == CHOOSE k \in Keys(t) : \A j \in Keys(t) : t[k] <= t[j]

\* Slip: the bound is tested before the new key is in.
RememberEarly(t, c, now) ==
    LET kept == IF Cardinality(Keys(t)) >= MaxTracked THEN [t EXCEPT ![Oldest(t)] = 0]
                                                       ELSE t
    IN  [kept EXCEPT ![c] = now]

Remember(t, c, now) ==
    LET moved == [t EXCEPT ![c] = now]
    IN  IF Cardinality(Keys(moved)) > MaxTracked
        THEN [moved EXCEPT ![Oldest(moved)] = 0]
        ELSE moved

\* The lock object _device_lock answers for command c on device d.
LockFor(c, d) == IF lockUsed[d] = 0 THEN c ELSE lockAt[d]

\* The table after _device_lock(d).
LockTable(t, d, now) ==
    LET room == IF t[d] = 0 /\ Cardinality(Keys(t)) >= MaxLocks
                THEN [t EXCEPT ![Oldest(t)] = 0]
                ELSE t
    IN  [room EXCEPT ![d] = now]

-----------------------------------------------------------------------------
(* The registry.  A reading is a ProviderState.                            *)

Unreported == [f \in Fields |-> NotReported]

\* What an adapter may read of a device that was in these states: any of its
\* fields may be absent.
Readings(states) ==
    {[availability |-> a,
      state |-> [f \in Fields |-> IF f \in shown THEN s[f] ELSE NotReported]] :
        a \in Reachability, shown \in SUBSET Fields, s \in states}

\* An exchange of another command with c's device was cancelled, and may have
\* left its answer on the connection.
CutBefore(c) == \E e \in cut \ {c} : req[e].device = req[c].device

\* The states a reading of command c can be of; its own first call may have been
\* cancelled, too, but was not made before the command began.
Readable(c) ==
    IF CutBefore(c) THEN past[req[c].device] ELSE {s.shows : s \in since[c]}

\* DeviceState.merged_with: absent fields keep their held value.
MergedWith(current, reported) ==
    [f \in Fields |-> IF reported[f] = NotReported THEN current[f] ELSE reported[f]]

\* DeviceService.ingest through DeviceRegistry.apply.
Ingest(d, reading) ==
    /\ held' = [held EXCEPT ![d] = MergedWith(@, reading.state)]
    /\ avail' = [avail EXCEPT ![d] = reading.availability]

-----------------------------------------------------------------------------
Init ==
    /\ pc = [c \in Cmds |-> "new"]
    /\ req \in [Cmds -> Requests]
    /\ status = [c \in Cmds |-> "NONE"]
    /\ tracked = [c \in Cmds |-> 0]
    /\ lockUsed = [d \in Devices |-> 0]
    /\ lockAt = [d \in Devices |-> NoLock]
    /\ uses = 0
    /\ lockOf = [c \in Cmds |-> NoLock]
    /\ waiters = [c \in Cmds |-> <<>>]
    /\ wire = [c \in Cmds |-> "idle"]
    /\ phys = [d \in Devices |-> Boot]
    /\ held = phys
    /\ avail = [d \in Devices |-> "ONLINE"]
    /\ audit = [c \in Cmds |-> <<>>]
    /\ events = [c \in Cmds |-> <<>>]
    /\ past = [d \in Devices |-> {phys[d]}]
    /\ since = [c \in Cmds |-> {}] /\ cut = {}

-----------------------------------------------------------------------------
(* submit *)

\* A check fails: some refusals are audited, none creates a command.
Refuse(c) ==
    /\ pc[c] = "new"
    /\ Verdict(req[c]) # "accepted"
    /\ pc' = [pc EXCEPT ![c] = "refused"]
    /\ audit' = IF Verdict(req[c]) \in AuditedDenials
                THEN [audit EXCEPT ![c] = <<Verdict(req[c])>>]
                ELSE audit
    /\ UNCHANGED <<req, status, tracked, uses, lockVars, wire, deviceVars, events, seenVars>>

\* Slip: a lock object is made on every call instead of being looked up.
AcquireFresh(c, d) ==
    /\ lockAt' = [lockAt EXCEPT ![d] = c]
    /\ lockUsed' = LockTable(lockUsed, d, uses + 2)
    /\ lockOf' = [lockOf EXCEPT ![c] = c]
    /\ waiters' = [waiters EXCEPT ![c] = Append(@, c)]
    /\ pc' = [pc EXCEPT ![c] = IF waiters[c] = <<>> THEN "executing" ELSE "queued"]

\* _device_lock and acquire: a free lock is taken without suspending.
Acquire(c, d) ==
    LET l == LockFor(c, d) IN
    /\ lockAt' = [lockAt EXCEPT ![d] = l]
    /\ lockUsed' = LockTable(lockUsed, d, uses + 2)
    /\ lockOf' = [lockOf EXCEPT ![c] = l]
    /\ waiters' = [waiters EXCEPT ![l] = Append(@, c)]
    /\ pc' = [pc EXCEPT ![c] = IF waiters[l] = <<>> THEN "executing" ELSE "queued"]

\* A command begins: it has its lock and calls the adapter.
Begun(c) == [since EXCEPT ![c] = {[by |-> c, shows |-> phys[req[c].device]]}]

\* _create (PENDING) and _execute up to its first suspension, with no await
\* in between: the record is RUNNING by the time anybody else runs.
Accept(c) ==
    /\ pc[c] = "new"
    /\ Verdict(req[c]) = "accepted"
    /\ status' = [status EXCEPT ![c] = "RUNNING"]
    /\ tracked' = Remember(tracked, c, uses + 1)
    /\ uses' = uses + 2
    /\ audit' = [audit EXCEPT ![c] = <<"requested">>]
    /\ events' = [events EXCEPT ![c] = <<"REQUESTED", "STARTED">>]
    /\ Acquire(c, req[c].device)
    /\ since' = IF pc'[c] = "executing" THEN Begun(c) ELSE since
    /\ UNCHANGED <<req, wire, deviceVars, past, cut>>

\* A woken waiter takes the lock and calls provider.execute.
Begin(c) ==
    /\ pc[c] = "queued"
    /\ Head(waiters[lockOf[c]]) = c
    /\ pc' = [pc EXCEPT ![c] = "executing"]
    /\ since' = Begun(c)
    /\ UNCHANGED <<req, status, tracked, uses, lockVars, wire, deviceVars, audit, events, past, cut>>

-----------------------------------------------------------------------------
(* The end of a command: the lock is released, and _finish records,        *)
(* audits and publishes the outcome.                                       *)

CompletionEvent(s) == CASE s = "SUCCEEDED" -> "SUCCEEDED"
                        [] s = "FAILED"    -> "FAILED"
                        [] s = "UNKNOWN"   -> "TIMED_OUT"

\* Slip: a path out of the critical section that does not release.
ReleaseForgotten(c) == UNCHANGED waiters

Release(c) == waiters' = [waiters EXCEPT ![lockOf[c]] = Tail(@)]

\* Slip: the audit entry is written from the record before with_status.
FinishStaleAudit(c, s) ==
    /\ pc' = [pc EXCEPT ![c] = "done"]
    /\ status' = [status EXCEPT ![c] = s]
    /\ tracked' = Remember(tracked, c, uses + 1)
    /\ uses' = uses + 1
    /\ audit' = [audit EXCEPT ![c] = Append(@, status[c])]
    /\ events' = [events EXCEPT ![c] = Append(@, CompletionEvent(s))]
    /\ Release(c)
    /\ since' = [since EXCEPT ![c] = {}]
    /\ UNCHANGED <<req, lockUsed, lockAt, lockOf, wire, phys, past, cut>>

Finish(c, s) ==
    /\ pc' = [pc EXCEPT ![c] = "done"]
    /\ status' = [status EXCEPT ![c] = s]
    /\ tracked' = Remember(tracked, c, uses + 1)
    /\ uses' = uses + 1
    /\ audit' = [audit EXCEPT ![c] = Append(@, s)]
    /\ events' = [events EXCEPT ![c] = Append(@, CompletionEvent(s))]
    /\ Release(c)
    /\ since' = [since EXCEPT ![c] = {}]
    /\ UNCHANGED <<req, lockUsed, lockAt, lockOf, wire, phys, past, cut>>

\* provider.execute returns a result without a state.
ExecuteReturnsBlind(c) ==
    /\ pc[c] = "executing"
    /\ wire[c] # "idle"
    /\ Finish(c, "UNKNOWN")
    /\ UNCHANGED <<held, avail>>

\* Adapters answer APPLIED only if the state they read back matches.  Their
\* comparison is looser than desired_matches for these actions: playback is not
\* compared, brightness and setpoints have a tolerance (home_assistant _matches).
LooselyConfirmed == {"SET_PLAYBACK", "SET_BRIGHTNESS", "SET_TARGET_TEMPERATURE"}

Applied(r, reading) ==
    LET exact == desired_matches(r.action, r.param, reading.state[r.action]) = "TRUE"
    IN  IF r.action \in LooselyConfirmed THEN BOOLEAN ELSE {exact}

\* provider.execute returns APPLIED or UNKNOWN with the state it read back.
ExecuteReturns(c) ==
    /\ pc[c] = "executing"
    /\ wire[c] # "idle"
    /\ \E reading \in Readings(Readable(c)) : \E applied \in Applied(req[c], reading) :
         /\ Ingest(req[c].device, reading)
         /\ Finish(c, IF applied THEN "SUCCEEDED" ELSE "UNKNOWN")

\* provider.execute returns REJECTED: understood and refused, nothing written.
ExecuteRejected(c) ==
    /\ pc[c] = "executing"
    /\ wire[c] = "idle"
    /\ Finish(c, "FAILED")
    /\ UNCHANGED <<held, avail>>

\* provider.execute raises: a ProviderError or anything else.
ExecuteRaises(c) ==
    /\ pc[c] = "executing"
    /\ Finish(c, "FAILED")
    /\ UNCHANGED <<held, avail>>

\* command_timeout_seconds passed: the call is cancelled, the lock is kept,
\* and _reconcile starts with the TIMED_OUT event.  (A read-back that is
\* cancelled leaves no other mark.)
ExecuteTimesOut(c) ==
    /\ pc[c] = "executing"
    /\ pc' = [pc EXCEPT ![c] = "reconciling"]
    /\ events' = [events EXCEPT ![c] = Append(@, "TIMED_OUT")]
    /\ cut' = cut \cup {c}
    /\ UNCHANGED <<req, status, tracked, uses, lockVars, wire, deviceVars, audit, past, since>>

\* Slip: "not False" instead of "is True", so an unreported field is a success.
OutcomeUnlessFalse(c, reading) ==
    IF desired_matches(req[c].action, req[c].param, reading.state[req[c].action]) # "FALSE"
    THEN "SUCCEEDED" ELSE "UNKNOWN"

\* What _reconcile decides from one reading.
ReconcileOutcome(c, reading) ==
    IF desired_matches(req[c].action, req[c].param, reading.state[req[c].action]) = "TRUE"
    THEN "SUCCEEDED" ELSE "UNKNOWN"

\* _reconcile reads the state back.
ReconcileReturns(c) ==
    /\ pc[c] = "reconciling"
    /\ \E reading \in Readings(Readable(c)) :
         /\ Ingest(req[c].device, reading)
         /\ Finish(c, ReconcileOutcome(c, reading))

\* The read-back times out or raises.
ReconcileFails(c) ==
    /\ pc[c] = "reconciling"
    /\ Finish(c, "UNKNOWN")
    /\ UNCHANGED <<held, avail>>

-----------------------------------------------------------------------------
(* Outside the gateway.                                                    *)

\* The adapter, inside execute, hands the write to the network.
AdapterWrites(c) ==
    /\ pc[c] = "executing"
    /\ wire[c] = "idle"
    /\ wire' = [wire EXCEPT ![c] = "sent"]
    /\ UNCHANGED <<pc, req, status, tracked, uses, lockVars, deviceVars, audit, events, seenVars>>

\* The write reaches the device, whether or not anybody still waits for it.
WriteLands(c) ==
    LET d == req[c].device
        now == [phys[d] EXCEPT ![req[c].action] = Expected(req[c].action, req[c].param)]
    IN  /\ wire[c] = "sent"
        /\ wire' = [wire EXCEPT ![c] = "landed"]
        /\ phys' = [phys EXCEPT ![d] = now]
        /\ past' = [past EXCEPT ![d] = @ \cup {now}]
        /\ since' = [x \in Cmds |-> IF pc[x] \in AtProvider /\ req[x].device = d
                                     THEN since[x] \cup {[by |-> c, shows |-> now]}
                                     ELSE since[x]]
        /\ UNCHANGED <<pc, req, status, tracked, uses, lockVars, held, avail, audit, events, cut>>

\* The write is lost on the way, or ignored by the device.
WriteIsLost(c) ==
    /\ wire[c] = "sent"
    /\ wire' = [wire EXCEPT ![c] = "lost"]
    /\ UNCHANGED <<pc, req, status, tracked, uses, lockVars, deviceVars, audit, events, seenVars>>

\* run_provider_stream ingests what an adapter reports on its own, however old.
Observe(d) ==
    /\ \E reading \in Readings(past[d]) : Ingest(d, reading)
    /\ UNCHANGED <<pc, req, status, tracked, uses, lockVars, wire, phys, audit, events, seenVars>>

-----------------------------------------------------------------------------
Service(c) == \/ Begin(c)
              \/ ExecuteReturnsBlind(c) \/ ExecuteReturns(c) \/ ExecuteRejected(c)
              \/ ExecuteRaises(c) \/ ExecuteTimesOut(c)
              \/ ReconcileReturns(c) \/ ReconcileFails(c)

Next == \/ \E c \in Cmds : \/ Refuse(c) \/ Accept(c)
                           \/ Begin(c)
                           \/ ExecuteReturnsBlind(c) \/ ExecuteReturns(c) \/ ExecuteRejected(c)
                           \/ ExecuteRaises(c) \/ ExecuteTimesOut(c)
                           \/ ReconcileReturns(c) \/ ReconcileFails(c)
                           \/ AdapterWrites(c) \/ WriteLands(c) \/ WriteIsLost(c)
        \/ \E d \in Devices : Observe(d)

Spec == Init /\ [][Next]_vars

\* Every await of a command ends: the lock is fair and the two provider calls
\* run under asyncio.timeout, whose timers the event loop always serves.
FairSpec == Spec /\ \A c \in Cmds : WF_vars(Service(c))

-----------------------------------------------------------------------------
(* Properties.                                                             *)

\* Every variable stays in its set.
TypeOK ==
    /\ pc \in [Cmds -> {"new", "refused", "queued", "executing", "reconciling", "done"}]
    /\ req \in [Cmds -> Request]
    /\ status \in [Cmds -> {"NONE", "RUNNING"} \cup Finished]
    /\ tracked \in [Cmds -> Nat]
    /\ lockUsed \in [Devices -> Nat]
    /\ lockAt \in [Devices -> Cmds \cup {NoLock}]
    /\ uses \in Nat
    /\ lockOf \in [Cmds -> Cmds \cup {NoLock}]
    /\ waiters \in [Cmds -> Seq(Cmds)]
    /\ wire \in [Cmds -> {"idle", "sent", "landed", "lost"}]
    /\ phys \in [Devices -> [Fields -> Int]]
    /\ held \in [Devices -> [Fields -> Int]]
    /\ avail \in [Devices -> Availability]
    /\ audit \in [Cmds -> Seq({"requested"} \cup AuditedDenials \cup Finished)]
    /\ events \in [Cmds -> Seq({"REQUESTED", "STARTED", "TIMED_OUT", "SUCCEEDED", "FAILED"})]
    /\ past \in [Devices -> SUBSET [Fields -> Int]]
    /\ since \in [Cmds -> SUBSET [by : Cmds, shows : [Fields -> Int]]]
    /\ cut \subseteq Cmds

\* service.py:217, "Serialise per device so a physical device never sees
\* overlapping writes": no two commands are inside the provider for one device.
NoOverlappingWrites ==
    \A c1, c2 \in Cmds :
        /\ pc[c1] \in AtProvider /\ pc[c2] \in AtProvider
        /\ req[c1].device = req[c2].device
        => c1 = c2

\* The lock table implements one first-come-first-served line per device: the
\* pipeline is an implementation of DeviceQueues.
Abstract ==
    INSTANCE DeviceQueues WITH
        line <- [d \in Devices |-> IF lockAt[d] = NoLock THEN <<>> ELSE waiters[lockAt[d]]],
        outcome <- [c \in Cmds |-> CASE pc[c] = "new" -> "none"
                                     [] pc[c] = "refused" -> "refused"
                                     [] pc[c] = "done" -> status[c]
                                     [] OTHER -> "accepted"]

ServesInOrder == Abstract!Spec

\* The audit trail, the bus and the record never disagree on a command: an
\* outcome is audited once, after the request, and is the one that is published
\* and recorded; nothing leaves for a device before the request is audited.
TrailAgrees ==
    \A c \in Cmds :
        /\ wire[c] # "idle" => audit[c] # <<>> /\ audit[c][1] = "requested"
        /\ pc[c] = "done" =>
             /\ audit[c] = <<"requested", status[c]>>
             /\ events[c][Len(events[c])] = CompletionEvent(status[c])
        /\ pc[c] \notin {"done", "refused", "new"} => audit[c] = <<"requested">>

\* _remember forgets a record only when it is left with _MAX_TRACKED_COMMANDS
\* others, all of them touched no earlier.
ForgottenOnlyWhenFull ==
    [][\A c \in Cmds :
         tracked[c] # 0 /\ tracked'[c] = 0
           => /\ Cardinality(Keys(tracked')) = MaxTracked
              /\ \A k \in Keys(tracked') : tracked[c] <= tracked'[k]]_vars

\* A write of a command that had already ended came in after command c began, and
\* it was about the same field.
Overtaken(c) ==
    \E s \in since[c] :
        s.by # c /\ pc[s.by] = "done" /\ req[s.by].action = req[c].action

\* SUCCEEDED is not said of what was not there ("decide the real outcome",
\* service.py:271): the device did read as asked for at some time since the
\* command began and still does, although the answer it is judged by is older,
\* unless a late write of a command that was given up came in between; and the
\* registry takes it over.  The exception is a device with an exchange of an
\* earlier command that was cancelled: there the answer may be older than that.
SuccessIsObserved ==
    [][\A c \in Cmds :
         LET r == req[c]
             asked == Expected(r.action, r.param)
         IN  /\ status[c] = "RUNNING" /\ status'[c] = "SUCCEEDED"
             /\ r.action \notin LooselyConfirmed
             => /\ held'[r.device][r.action] = asked
                /\ CutBefore(c) \/
                     /\ \E s \in since[c] : s.shows[r.action] = asked
                     /\ phys[r.device][r.action] = asked \/ Overtaken(c)]_vars

\* policy.py:57 and service.py:126: no command, late writes included, ever
\* unlocks a door that was locked.
DoorStaysLocked ==
    "SET_LOCK_STATE" \in Fields /\ Boot["SET_LOCK_STATE"] = LOCKED
        => \A d \in Devices : phys[d]["SET_LOCK_STATE"] = LOCKED

\* Every command that was accepted ends with an outcome.
EveryCommandSettles ==
    \A c \in Cmds : (status[c] = "RUNNING") ~> (status[c] \in Finished)
=============================================================================
