# HomeFlow in TLA+

A verification project for the HomeFlow gateway (`backend/src/homeflow`) and
the parts of its web client and devices it depends on.  HomeFlow is a home
gateway: one asyncio process that takes commands from clients over HTTP, drives
physical devices through adapters, keeps the last known state of each device,
runs one-shot timers, and tells connected clients about changes over a
WebSocket.

The services, the adapters and the WebSocket handlers run on one event loop, so
**the code between two awaits is one step** of a model.  Concurrency comes from
the awaits: locks, timeouts that cancel what they wrap, polling loops, the firing
loop, and two tasks per WebSocket.  The handlers and dependencies of `api/` that
are plain functions are the exception: FastAPI runs them in worker threads.
Where such a thread works on state of its own kind, the ticket store and the rate
limiters, `Admission` models the threads, a step being the code between two
places a thread may be preempted.  Where it reaches into the services
(`cancel_schedule`, the listings), the other modules take it to run between two
awaits of the loop.  Nothing is persisted; a restart loses commands and timers,
and no module models one.

Paths below are relative to `backend/src/homeflow/` unless they say otherwise.

## 1. Inventory

| Component | State | Operations | Talks to | What is hard |
|---|---|---|---|---|
| Command pipeline (`commands/service.py`) | table of commands, table of per-device locks, both bounded OrderedDicts | `submit` (checks, create, execute, reconcile, finish) | adapters, registry, audit, bus | queueing per device, timeouts with late writes, eviction of locks and records, partial failure |
| Command policy (`commands/policy.py`, `reconcile.py`) | none | classify, required capability, `desired_matches` | pipeline | three-valued comparison, risk raised by a parameter |
| Timers (`schedules/service.py`) | bounded table of schedules | `create`, `cancel`, `run`/`fire` | pipeline (`CommandSubmitter`) | creation awaits a switch-on, the loop works from a list it took earlier |
| Event bus (`events/bus.py`) | subscriptions with bounded queues and a lagged flag | `publish`, `offer`, `take_lagged`, `close`, iteration | stream handler | overflow, the sentinel on a full queue |
| Stream handler (`api/v1/ws.py`) | two tasks per socket | `stream`, `_forward`, `_receive` | bus, registry, client | slow clients, the two tasks ending each other |
| Registry and ingest (`devices/`) | state, availability, freshness of each device | `bootstrap`, `ingest`, `apply` | adapters, bus | merging partial reports, old reports after new ones |
| Bestway adapter (`integrations/bestway/`) | one TCP client with a lock, the payload yielded last, availability | poll, `execute`, `get_state`, reconnect | controller, registry | one connection for two tasks, cancellation in an exchange, frames cut anywhere, read-modify-write of a block |
| Home Assistant adapter (`integrations/home_assistant/`) | HTTP and WebSocket sessions, entity map | snapshot, subscribe, `execute`, `normalise`, `describe` | Home Assistant | gap between snapshot and subscription, answers lost after the write, two roundings |
| Demo and weather adapters | simulated devices; cached forecast | tick, poll | registry | nothing fails by itself |
| Tickets (`auth/tickets.py`) | outstanding single-use tickets | `issue`, `redeem` | stream handler | single use, expiry and bound under threads |
| Rate limiter (`ratelimit.py`) | token buckets | `allow` | HTTP API, timers | refill and eviction under threads, a clock that is set back |
| Audit log (`audit/log.py`) | bounded deque | `record`, queries | all services | only that the entries are right |
| Web client (`apps/web/js`) | view, held controls, socket state | snapshot, live frames, command coalescing | HTTP API, stream | replies overtaken by frames, two sockets |
| HTTP API, settings, container, `main.py` | none of their own | translation, wiring, stream supervision | everything | deadlines |

`PROJECT.json` lists each part with what is modelled of it, and the hazards of
the code at their lines with the properties that cover them.

What makes the parts correct, in short: a device never sees overlapping writes
and serves requests in order; no outcome is claimed that was not observed; what
is refused by policy never reaches a device, not even late; record, audit and
events agree; a timer is submitted at most once, in time, and never forgotten
while it is armed; a client is told of every change or told to fetch everything;
the pool's client recovers from every failure and never takes one answer for
another; a write changes the one field it is about; the page differs from the
gateway for known reasons only, and the last press wins; a ticket
opens one connection.

## 2. Modules

| Module | Models | |
|---|---|---|
| `CommandPolicy` | the action table, risk, capabilities, `desired_matches` | pure operators |
| `DeviceQueues` | abstract: one first-come-first-served line per device | what the pipeline promises |
| `Commands` | `CommandService` with registry merge, adapters and devices around it | implements `DeviceQueues` |
| `Schedules` | `ScheduleService`, with relative time | |
| `EventStream` | one `Subscription` and the handler of its socket | |
| `LiveView` | the page: sessions, sockets, snapshots, one control | summarises `EventStream` |
| `Bestway` | poll loop, command, shared client, controller, the pool's registry entry | |
| `BestwayFrames` | varints, frames, prefixed fields, control payloads | pure operators |
| `BestwayStream` | the bytes of one connection, `FrameReader` and the client's pending frames | over `BestwayFrames` |
| `BestwayDatapoints` | layouts, `decode`, `encode_control`, temperatures | over `BestwayFrames`, `CommandPolicy` |
| `HaEntities` | `describe`, `normalise`, service calls and their comparison | over `CommandPolicy` |
| `HomeAssistant` | one entity behind the adapter, its stream and its registry entry | over `HaEntities` |
| `Conversions` | one input through the conversions of either adapter, and the passcode | over `BestwayDatapoints`, `HaEntities` |
| `Admission` | tickets, token buckets, the requests and threads that use them | |
| `MC*` | instances for TLC | |
| `*Proofs` | theorems, see section 4 | |

An operator whose comment begins with *Slip* is a plausible mistake in the code
below it.  No specification uses one: each stands for the code that was nearly
written, and `PROJECT.json` names the property that notices it.

### Commands

`Accept` is `submit` through `_create` and `_execute` to the first await;
`Begin` is a woken waiter of the lock; `Execute*` are the ways
`provider.execute` can end (a result, a blind result, a rejection, an
exception, the timeout) and `Reconcile*` those of the read-back.  `Finish` is
`_finish` with its record, audit entry and event, and the release of the lock.
An OrderedDict is a function from key to the moment of its last `move_to_end`;
an `asyncio.Lock` object is named after the command that created it, so that an
evicted lock that is still held and its replacement are two objects.  The
environment is `AdapterWrites` (the write leaves during `execute`),
`WriteLands`, `WriteIsLost` (at any later time) and `Observe` (an event of the
adapter's stream, however old).  Adapters that answer APPLIED have compared a
read-back; the Home Assistant adapter's comparison is looser than
`desired_matches` for three actions (`LooselyConfirmed`).

A reading is made by the device some time before the command that awaits it goes
on, and writes may land in between.  So it shows *some* state the device was in
since the command began (`since`, which also remembers whose write made the
state), and may leave out any field.  Where another command's exchange with the
device was cancelled (`cut`, `CutBefore`), it may be older than that: the Bestway
client then takes the answer that was left behind, and the reading may show
anything the device ever was in (`past`).  `SuccessIsObserved` is stated over
this: SUCCEEDED means that the device did read as asked for at some time since
the command began and still does, unless the late write of a command that had
been given up came in (`Overtaken`); only behind a cancelled exchange neither is
promised.

Left out: the branch for a provider that is not wired (marked unreachable in the
code), unknown devices (404), `filter_last_started_at` and the `DEVICE_*` events
of ingest, cancellation at shutdown, the read-only `get`, and `expires_at`, which
the code sets and never reads (section 5).

### Schedules

`Arm` is the stretch of `create` without an await: build, supersede, remember
with its eviction, audit, publish.  `SwitchOn` and `SwitchOnSucceeds/Fails`
enclose the await of a RUN_FOR.  `batch` is the list `_due()` returned, its head
being fired; `FireReturns` settles the head from the record *the list* holds,
without looking at the stored one, as the code does.  Time is relative: `left`
counts down to `due_at`, `wakeIn` to the end of the sleep, `elapsed` up to
`SubmitMax`.  The units are abstract (a "quarter hour" of the request and a tick
are whole numbers on one clock); what matters is their order.  A submission's
length is bounded by the constant `SubmitMax`, an assumption: the pipeline's own
timeouts bound each command, but not its wait for the lock.

### EventStream

`Offer`, `Close`, `TakeLagged` are the `Subscription`; `Take`, `Heartbeat`,
`Sent`, `SendFails`, `EndOfQueue` the writer; `PeerGone`, `PolicyViolation` the
reader.  A device's state is the number of its changes.  `told` is history: the
version each device was last shown at, or is going to be refetched at after a
ResyncRequired.  The client's snapshot is taken to be no older than the
subscription; `LiveView` models where it is older.  Subscriptions do not
influence each other, so one stands for all.

### LiveView

One device and one control of its card, in the order of `apps/web/js/app.js`:
`StartSession`, `SignOut` and `Cleared` are a session's ends; `Snapshot` and
`FetchReturns` the two moments of `refreshDevices`; `Press`, `CommandReturns` and
`CommandUnauthenticated` are `execute` before and after its await; `Drag` and
`HoldExpires` hold the card.  Of `live.js`, `dialing` counts the `#connect` calls
that await a ticket, per `LiveConnection`, as more than one may; `TicketArrives`
looks at `#stopped` again and makes a socket also where there is one; `Closes` is
`onclose`, `Wake` is `wake`.  The gateway's end of a socket is `EventStream` in
brief: it subscribes after its Hello, composes a frame from the state when it
sends it, and raises a flag on overflow.  Changes are numbered; what a press asks
for is the number of the press.

`excuses` is history and names the ways the code has for the card to differ from
the device once everything has arrived: *overtaken* (a snapshot answered before a
frame was sent and received after it), *gap* (a change between Hello and
subscription), *held* (an update withheld from a held card, which is not rendered
when the hold expires), *failed* (a failed fetch the user saw as a toast).  They
are forgotten when the card and the view are both current again.
A fetch is told apart by who asked for it: the sign-in, the connection, or the end
of a command.  The last one, `await refreshDevices()` in `app.js:156`, is not
caught by anybody, so its failure is no excuse: `DivergesOnlyWithExcuse` says that
the device's *state* on the card never differs because of it, as every frame still
arrives on its own.  What it does leave is the look of the control: `worn` says that
the card was last rendered with a desired value, `Stale` that this value belongs to
a command that was answered.  Whoever looks at a quiet page sees a stale desired value
only if that fetch failed without a word (`untold`) or the rendering was withheld.

Left out: the schedules panel, the activity list, a sign-out while the sign-in's
snapshot is under way, and presentation.

### HomeAssistant, HaEntities

A reading of the entity carries the number of the change it shows, which the code
has not: it serves the properties.  The stream is in one of four phases:
*waiting* (`run_provider_stream` sleeps off an error), *asking* (the snapshot),
*connecting* (authentication and subscription), *live*.  `Ingest` applies a
reading whatever is held, as `DeviceRegistry.apply` does; `MergedWith` is
`DeviceState.merged_with`.  `Execute` to `GivesUp` are `execute` and `_confirm`;
a call may be carried out at any time, late or never (`Lands`, `CallIsLost`), and
what Home Assistant answers to it, or to a read-back, is the entity of that moment,
not of the moment the answer arrives (`CallAnswered`, `ReadBack`).
`excuses` is history as in `LiveView`: *missed* (a change between the snapshot
and the subscription) and *overtaken* (an older reading applied after a newer
one).  The parsing of JSON, the login and the length of the backoff are reduced
to success or failure; the pipeline's timeouts are in `Commands`.

`HaEntities` has every domain the code knows.  Temperatures are hundredths of a
degree, volumes thousandths, brightness a byte; an attribute of the wrong type,
NaN or infinite is `Junk`.

### Bestway

`Attempt` tests `is_connected`; `Ask` enters `_exchange` (first-come lock, then
`Send`); `Connect` goes from passcode to login to status, giving the lock up in
between, as `connect` does; `Fail` is the `except` of `_read_with_retry`, which
closes the client's *current* connection, whoever opened it; `CloseAgain` is the
second close after a failure inside `connect`.  `via` is the connection whose
reader a task is awaiting.  `CutOff` is the cancellation of a command by one of
the pipeline's timeouts: `async with` releases the lock, but the connection is
left open, with an answer under way or not logged in (`except Exception` does
not see a `CancelledError`).  A replaced connection is closed with its
`StreamWriter`.  The controller (`Controller`, `HangUp`, `Outage`, `Recover`,
`Panel`) is external.  A block is reduced to the datapoint commands set.
What a client wrote before it closed a connection still arrives; `Mattering` keeps
it as far as the last control request, as nobody reads an answer to the rest.

### BestwayStream

The bytes of one connection.  `Transmit` and `Babble` are the controller: frames
that fit the receiver, and then perhaps bytes no frame begins with.  `ReadChunk`
is the `read` of `_next_frame` with the first half of `feed`; `TakeFrame` is one
iteration of the loop of `feed`, `ReturnFrames` and `Refuse` its two ends, and
`HandOut` is `popleft`.  The loop does not await: between `ReadChunk` and
`ReturnFrames` or `Refuse` only the controller can take a step.  A refused
connection is closed and the next begins from `StreamInit` with a new
`FrameReader`, so one connection is all there is to look at; who reads from it,
and when it is closed for other reasons, is `Bestway`.  `stream`, `transmitted`,
`ends` and `noise` are what the controller did, for the properties to compare
with.

`SendableAssumption` says what a frame is and that it fits the receiver;
`GarbageAssumption` that garbage is what `decode_frame` refuses once it is all
there; `BoundsAssumption` that a read returns at most `_READ_CHUNK` bytes.

### BestwayFrames, BestwayDatapoints, Conversions

Bytes, lengths and limits are the program's own; what raises in the code is a
result with another status than "ok".  `BestwayDatapoints` has
both shipped layouts, their validation, `decode` with its range checks,
`encode_control` with flag bits and the read-modify-write of the value block, and
both temperature conversions in hundredths of a degree.  `Conversions` takes one
input and converts it, so that a property can compare an input with its outcome:
its state is an input and an output, and it has one action per kind of input.
The loops over the bytes of a varint and of a number are written out, with the
program's four groups of seven bits and its two-byte fields, so that they can be
reasoned about.

What the inputs may be is said by assumptions.  `OffersAssumption`: an entity is in
any state, its attributes are any numbers or values that are none, and the
parameter model accepted the value.  `WritesAssumption`: layouts are
`SoundLayout`s.  `AnswersAssumption`: a passcode response is the payload of a frame
that was received.  The validators of the code let pass more: a layout file can give
two datapoints the same bit or the same flag, or a range that does not end at a
multiple of five degrees, where the nearest degree of the controller may be
outside of it.  Both shipped layouts are sound (`ShippedLayouts`, proved), and
trusting or releasing them does not change that.  `ErrorsAreNoValues` and
`JunkIsNoNumber` tell the markers of the models from values.

Left out: loading a layout from a file and the answer to a heartbeat.

### Admission

`thread[t]` is a program counter with the locals of the request a thread serves.
`Prune`, `DeleteExpired`, `Draw`, `Evict`, `Insert` are `TicketStore.issue`;
`Walk`, `Walked`, `Redeem` its `redeem`, the constant-time walk over all tickets
being one iteration that a concurrent change of the dictionary ends with an
exception (`disturbed`).  `Look` to `Store` are `RateLimiter.allow`, whose bucket
may leave the table between any two of them.  Time is counted in refills of a
bucket, and the clock may be set to anything (`SetClock`).  A failed
authentication is charged to the peer's address, a command and a ticket to the
client.

## 3. Runs

A run of kind *pass* has TLC finish without an error; *violation* runs check one
property that a text of the repository states and the code breaks.

| Run | Shows |
|---|---|
| `commands_serial` | three commands, two devices, room for a lock each, two records: `TypeOK`, `NoOverlappingWrites`, `ServesInOrder` (refinement of `DeviceQueues`), `ForgottenOnlyWhenFull` |
| `commands_house` | a door lock and a pool, two commands from requests on both sides of every check: `DoorStaysLocked`, `TrailAgrees`, `SuccessIsObserved`, `EveryCommandSettles` |
| `timers` | two timers on four switches (one unsupported, one untimeable), valid and invalid delays: `TypeOK`, `OneArmedPerSwitch`, `FiredAtMostOnce`, `ArmedNeverForgotten`, `FiresInTime`, `ArmedSettles` |
| `connection` | two devices, a queue of two, bursts of two: `TypeOK`, `NoSilentLoss`, `ChangesAreTold`, `HandlerReturns` |
| `pool` | the poll and one command through one trouble of any kind: `TypeOK`, `FreshUnlessCut`, `EveryReadEnds`, `PollCatchesUp` |
| `live_page` | two sign-ins, two sockets, two presses, two troubles (a sign-out is one): `TypeOK`, `DivergesOnlyWithExcuse`, `LastPressWins`, `OneCommandInFlight`, `StoppedStaysStopped`, `Reconnects`, `ControlSettles` |
| `thermostat` | a thermostat with changes by hand, a command, two troubles: `TypeOK`, `HeldIsCurrent`, `AppliedWasSeen`, `CatchesUp` |
| `edges` | passcodes, every setpoint into every layout, every domain with every command: `WriteArrivesAsMeant`, `SetpointStaysInRange`, `OfferedIsAnswered`; up to three short frames, then perhaps garbage, cut into reads of 1 to 10, 20 and 30 bytes, and the longest frames in the largest reads: `WireIsExact` |
| `threads` | two worker threads and the loop, tables of one, a clock that may be set back: `TypeOK`, `TicketsHonoured`, `NeverRefusedEarly` |
| `schedules_settled_fires` | finding: a cancelled timer is submitted (`SettledNeverFires`) |
| `pool_offline` | finding: a pool that stays OFFLINE for ever after it is back (`RegistryCatchesUp`) |
| `thermostat_off` | finding: a thermostat that is switched off stays "heating" (`OffIsNotHeating`) |

### Bounds, and why they are enough

* *Commands*: with three commands one is inside the provider, one waits, and a
  third arrives; a record table of two then has to evict a running command.  A
  lock table as large as the number of devices is what the code has in practice
  (256).  Two commands on one field are enough for outcomes, as every comparison
  involves one command and whatever came before it.
* *Timers*: two on one switch for superseding, two due together for the stale
  list (three for `schedules_settled_fires`, where the settled one waits behind
  another); a table of one forces an eviction at the second insertion.  The
  countdown stops one unit beyond `LatenessBound`, which keeps the model finite
  and lets an overrun show.
* *Event stream*: a queue of two with bursts of two overflows from empty in two
  ingests, also between a ResyncRequired and its event.  The code's queue has at
  least eight places (`config/settings.py:74`); its size only matters by being
  full or not.  The transport holds one frame, so that sends block.
* *Page*: two sockets and two `#connect` calls, which `wake()` needs for its
  second socket; two sessions, so that what is left of the first meets the
  second; a queue of one with bursts of two, so that one change overflows; one
  snapshot request at a time and one change, which a frame and a snapshot can
  then show in either order.  Two troubles, a sign-out counting as one, allow a
  loss during the recovery from another.
* *Pool*: three connections, so that each of two tasks can still read from an
  old one while a third is opened.  One trouble (hang-up, outage, panel
  operation, bad frame) per behaviour and one command with two read-backs; the
  command can be cancelled at each of its awaits in addition, and the read-back
  after it again.  Which block and connection come first makes no difference,
  so `Init` fixes them.
* *Thermostat*: heating or off at either of two temperatures, or unavailable; two
  changes besides those of commands and two troubles, so that a change and a
  failure fall into every phase; one command with two read-backs.
* *Streams* (`edges`): real widths.  The short frames are a heartbeat, an unknown command and a
  payload that begins like a frame itself; reads of almost every size cut them at
  every byte, three of them put several frames into one read and the end of one
  with the beginning of the next.  Garbage has each byte of a magic damaged, with
  a whole frame behind it, and lengths too small, too large or without an end.
  For the room in the buffer, up to five of the longest frames, more than it holds,
  come in reads of 4096 bytes and of 1021, which meet the frames at many distances.
  Inputs and streams have nothing in common and are looked at one at a time
  (`MCSpec`).
* *Edges*: real widths.  Payloads with a matching length, another and none, and
  too short for one; both layouts in every state of release, with blocks
  of all zeros, all ones, in Celsius and Fahrenheit and too short, and every
  setpoint of a tenth of a degree in the range and outside it.  Entities in states
  Home Assistant knows, in "unknown" and in "unavailable", with attributes that are
  missing, null, in range, and out of range on both sides.
* *Threads*: two workers, the event loop and four requests; a table of one, a
  burst of two and a lifetime of one tick make every bound bind.  One client, two
  addresses.

Symmetry is used in `commands_serial` (commands and devices) and `threads`
(workers), which check no liveness.

### Fairness, and why the code justifies it

* `Commands!FairSpec`: a woken waiter runs (the event loop is fair and
  `asyncio.Lock` is FIFO) and every command inside the provider comes back,
  because `asyncio.timeout` ends it.
* `Schedules!FairSpec`: time passes and the loop runs; `run()` catches what
  `submit` raises, so the loop survives every firing.
* `EventStream!FairSpec`: both tasks run, heartbeats are due when nothing else
  is, and a client that stays reads.  It does not assume that clients leave.
* `LiveView!FairSpec`: requests are answered or fail, which browsers ensure;
  timers fire, tickets arrive and open sockets deliver, taken together as one
  action because a page with a second socket in place needs no third; a command
  request returns.  Users, changes and failures do as they like.
* `HomeAssistant!FairSpec`: the stream's task and the command's go on, and Home
  Assistant answers what is not lost.  Service calls need not be carried out.
* `Bestway!FairSpec`: both tasks run and a controller that is up answers inside
  `request_timeout`.  Troubles, commands and timeouts need not happen.

`Admission`, `Conversions` and `BestwayStream` have no liveness: nothing in them
waits, and what the network delivers next is up to the network.

## 4. Proofs

Each holds for every value of the constants that satisfies the module's
assumptions, in particular for any number of commands, devices, timers, events,
threads, sockets and connections.

* `CommandsProofs`: `TypeCorrect`; `LocksExclude`; and `MutualExclusion`, that
  `NoOverlappingWrites` holds **if there are at most `MaxLocks` devices**; section
  5 says what happens with more.  `NoOverlappingWrites` is not inductive: it says
  nothing of lock objects.  `LockInv` adds, per lock object, that who is inside
  the provider heads the line of the lock it acquired, who waits is in that line,
  and nobody refers to a lock that does not exist yet.  It holds with evictions.
  `TableInv` adds that a command in line acquired the lock now stored for its
  device, which needs that nothing is evicted; both together give mutual
  exclusion, as two commands for one device are then in the same line, which has
  one head.
* `CommandsProofs`, the second half: `TrailAgreesHolds`, `DoorStaysLockedHolds`,
  `SuccessIsObservedHolds`, `ForgottenOnlyWhenFullHolds` and `Implements`.
  `TrailInv` follows audit, events and record through every exit.  `DoorInv` says
  that what was accepted does not ask for an open lock, and that only what was
  accepted is ever written, which covers late writes.  `SuccessIsObservedHolds` is
  an action property over readings that may be old: `SeenInv` says that
  only a command that is or was inside the provider has a write under way, and that
  what the device showed as asked for since a command began is still there, unless
  a write that was left behind is about the same field.  A write that lands is the
  command's own or left behind only because nobody else is inside, which is mutual
  exclusion; so this theorem, too, is for at most `MaxLocks` devices.
  `ForgottenOnlyWhenFullHolds`: a record leaves only with `MaxTracked` others left,
  all of them touched no earlier.  `ForgetInv` is that the table never holds more
  than that.
  `Implements` is the refinement of `DeviceQueues`, again with at most `MaxLocks`
  devices: `LineInv` adds to `LockInv` and `TableInv` that a device whose entry was
  never used has no lock and that two devices never share one.  The abstract line
  of a device is then the line of its lock, and each step maps to a step of that
  line or a stutter.
* `SchedulesProofs`: `TypeCorrect`, `NeverTwoArmed`, `NeverFiredTwice`,
  `NeverForgotten` and `FiresInTimeHolds` (action properties).  The invariant joins `OneArmedPerSwitch` with `FireInv`:
  the list of due timers has no duplicates, who is in it has not been submitted
  unless at its head, and who has been submitted is not armed any more unless at
  the head.  `LateInv` is the measure behind `FiresInTime`: how late an armed
  timer is, the time until the loop looks again (the rest of the sleep, or the
  submission under way and a tick) and a submission for every other timer that
  may come first never add up to more than `LatenessBound`.  For a timer already
  in the list, only those in front of it count.
* `EventStreamProofs`: `TypeCorrect` and `NothingLostSilently`.  `NoSilentLoss`
  only speaks of an idle writer with an empty queue; `AnnounceInv` states where a
  change that was not told yet can be: in the queue, in the frame being sent or
  waiting behind it, or covered by the raised flag.  `FrameInv` says that a frame
  in flight, and what the client was told, is never ahead of the registry, and
  that a frame about a device whose state the client knows is not an older one.
* `LiveViewProofs`: `TypeCorrect`, `LastPressWinsHolds`, `OneCommandHolds`,
  `DivergesOnlyWithExcuseHolds` and `StoppedHolds` (an action property).  `ControlInv` ties the control together:
  the press that waits, or without one the press submitted, is the last one, and,
  unless a session began with a command of another one under way, the control is
  busy exactly while its one command is.  `StartingInv` says that at most one
  snapshot request belongs to a sign-in, that a session which is starting has not
  dialed yet, and that a retry is set only while signed in.
  `DivergesOnlyWithExcuse` speaks of a page with nothing under way; `DeliveryInv`
  says how it gets there.  `WornInv`: a card wears a desired value only in a session,
  and only while its control has one, or while the refresh that takes it off is under
  way, or because that refresh failed untold or was withheld.  `PastInv`: whatever is under way is of the past.
  `OwnerInv`: no socket belongs to a later session, or to one still starting.
  `ArrivalInv`: without an excuse the card shows what the page holds, and for each
  open socket of the session the page is current, or a snapshot is asked for, or
  the socket still brings the change or a demand to resync.
* `HomeAssistantProofs`: `TypeCorrect`, `HeldIsCurrentHolds` and
  `AppliedWasSeenHolds`.  `BudgetInv`, for the types: the service calls still to be
  carried out are no more than the commands, so the history stays within
  `MaxChanges + MaxCommands`.
  `VersionInv`: readings that are under way are of the past, two of one version
  are the same, and a registry at the entity's version agrees with it.
  `CurrentInv`: the last event under way is the entity as it is; without an
  excuse, the registry is at its version while connecting and when no event is
  under way, and the answer to a snapshot request is either current or older than
  what is held.  `CommandInv`: what a command has read is in the history since it
  began.
* `BestwayProofs`: `TypeCorrect`, `FreshUnlessCutHolds` and `ExchangesExclude`.
  `TypeInv` adds to the types that attempts and read-backs are left where a task
  is about to use one, and that what is written to a closed connection ends with
  a control request.  `LockInv`: a
  task in an exchange has the lock, also after it was cancelled, failed or had
  its connection closed by the other.  `LinkInv`: only the client's own
  connection is open or has answers.  `ItemInv`: on that connection, unless an
  exchange on it was cancelled, there is under way the one request of the task
  that reads from it, or its answer with a block since it asked, and nothing
  else.
* `ConversionsProofs`: `OfferedIsAnsweredHolds`, `WriteArrivesAsMeantHolds` and
  `SetpointStaysInRangeHolds`, for any set of inputs within the assumptions.  The
  invariant is small: the output is what the adapter makes of the input.  The
  work is in the operators.  *Offers*: one lemma per action, that the entity after
  its call reads as expected through both roundings, over all 101 percentages and
  256 brightnesses at once and every temperature, and is confirmed exactly if its
  state is one Home Assistant knows; for any entity, with the registry refusing only
  attributes outside their ranges.  *Writes*: `FrameSurvives`, a
  frame that was encoded is decoded as it was, with exactly its own bytes taken
  whatever follows, and as long as a byte of it is missing the reader waits;
  `RequestCarries`, flags and values come out of a control request as they went
  in; `FlagName`, one flag names one datapoint; `WriteChangesOneDatapoint`, taking
  over the values changes the commanded datapoint and no other bit of the block,
  which for bits rests on `OtherBits`, bit by bit; and `EncodesIff`, a write is
  refused exactly when it is not released or the block cannot hold it.
  *Setpoints*: `SetpointSurvives`, from two inequalities per rounding.
  *Passcodes*, the other half of `WriteArrivesAsMeant`: `PasscodeReturns`, from
  `AnswerHolds` and `PrefixedReturns`: a response holds a field or is too short,
  and any short field is found again behind its own length.
* `ConversionsProofs`, the last part, about `BestwayStream`: `StreamTypeHolds`
  and `WireIsExactHolds`, for any frames, garbage and cuts.
  `WireIsExact` only speaks of what was received; `StreamInv` says where every
  byte is.  `Laid`: the stream is the frames one after the other, then the noise.
  `Ordered`: what was taken off, be it handed out, pending or still in the list of
  `feed`, is what was transmitted.  `Buffered`: the buffer is what has arrived
  behind it.  `Settled`: between two reads nothing whole is left in the buffer.
  Three lemmas about `decode_frame` carry the steps: `FrameAtHead`, a buffer that
  begins with a frame yields it once its last byte is there and not before;
  `DecisionIsFinal`, what was decoded or refused does not change with what
  follows, so that noise is never taken for a frame on the way; and
  `IncompleteIsShort`, what waits is shorter than the longest frame, so that a
  chunk always fits.  Each iteration of the loop being a step, the induction over
  the stream is the one over behaviours.
* `AdmissionProofs`: `TypeCorrect`, `ShapeHolds`, `NeverRefusedEarlyHolds`,
  `TicketsHonouredHolds`.  The two mappings can exceed their bounds by one entry
  per thread but the first: `TicketRoom` and `KeyRoom` count the entries together
  with the threads that have found room and are about to insert.  `BucketsInv`: what a bucket has and what it let pass
  add up to a burst at least, also counting the amount a thread is about to
  store.  `TicketsInv`: a ticket is drawn by one thread, issued once, and not in
  the store any more once it opened a connection.

Only model-checked: all liveness, which rests on fairness and `ENABLED`.  Every
invariant and every action property that a passing run checks is a theorem.

## 5. Findings

1. **Settled timers fire** (`schedules/service.py:230`): `fire` trusts the list
   taken before its awaits; the outcome then also replaces CANCELLED or
   SUPERSEDED in the record.
2. **A pool that stays OFFLINE** (`integrations/bestway/provider.py:178`): one
   poll that fails, also after a single malformed frame, and an unchanged block
   afterwards; commands are refused until the block changes by itself.
3. **A thermostat that heats while it is off**
   (`integrations/home_assistant/entities.py:253`): the comment says an "off"
   thermostat is not heating; `normalise` leaves the field out, and
   `DeviceState.merged_with` then keeps the old value.

Other differences seen while modelling, with no run of their own:

* *Lock eviction* (`commands/service.py:367` against `:217`): with more than 256
  devices a lock that is held can be evicted, and the next command for its device
  gets a fresh one.  The proofs of mutual exclusion and of the refinement assume
  that there are no more.
* *Expired commands* (`commands/service.py:53` against `:184`): "A command stops
  being executable this long after submission", but nothing reads `expires_at`, so a
  command that waited longer than that for its device's lock is executed all the
  same.  No run can show more than that nothing reads the field.
* *Commands nobody can confirm* (`commands/service.py:133`,
  `integrations/home_assistant/provider.py:291-303`): only an OFFLINE device is
  refused.  A climate or media player in state "unknown" is offered and commanded,
  but `normalise` leaves its fields out (`entities.py:224`), so the read-back never
  matches and the command ends UNKNOWN, unless its state becomes known.  A brightness
  or a volume that rounds to less than 0 or more than 100 percent, against which `entities.py:80-81` validates nothing
  but that it is a number, makes `normalise` raise (`devices/models.py:52-77`): a
  command that does not correct it ends FAILED although it was carried out
  (`commands/service.py:240`).  `OfferedIsAnswered` states both.
* *FAILED commands that act* (`commands/service.py:239` against
  `commands/models.py:33`): every `ProviderError` is a failure, also one raised
  after the write has left.
* *Lateness* (`schedules/service.py:232` against `config/settings.py:99`): a tick
  is not the worst case, the submissions of other timers add to it; `FiresInTime`
  states the true bound.
* *The lost sentinel* (`events/bus.py:58` against `api/v1/ws.py:180`): `close` on
  a full queue; the writer then only ends when its client leaves.
  `HandlerReturns` shows that it does end then.
* *Stale answers* (`integrations/bestway/client.py:180` against `:150`): a
  cancelled exchange leaves its answer for the next read on that connection, and
  shifts all later ones until the connection closes.  `FreshUnlessCut` shows, and
  `BestwayProofs` proves, that cancellation is the only way to it.
* *A page that is behind* (`apps/web/js/app.js:270`, `:86`, `api/v1/ws.py:89`
  against `apps/web/js/live.js:7-8`): the excuses of `LiveView`, the first three
  of which the user is not told of.
* *A control that keeps what was hoped for* (`apps/web/js/app.js:156` against
  `apps/web/js/live.js:7-8` and `docs/architecture/overview.md:105`, "Silent
  divergence is not an option"): the refresh that shows the confirmed state after a
  command is not caught.  If it fails, no toast appears and the card goes on showing
  the desired value, although the command was answered, until a frame or snapshot
  renders it again.  It is `untold` in `DivergesOnlyWithExcuse`, which shows that the
  damage ends there.
* *A change that is missed* (`integrations/home_assistant/provider.py:207`): the
  excuses of `HomeAssistant`.
* A released layout without a value block is offered as writable, and every
  write to it is rejected.  `WriteArrivesAsMeant` asks for the block.
* `redeem` and `allow` may raise in a worker thread when another thread changes
  the dictionary under them: the request fails with a server error, and no
  property is broken by it.
* The sender of the pool's protocol accepts payloads of 2046 to 2048 bytes, which
  the receiver would refuse (`protocol.py:192`).  The gateway sends none.
* The error for an overrun of the buffer (`protocol.py:228`) is never raised:
  with reads of 4096 bytes what is left over always leaves room
  (`WireIsExactHolds`).
* Frames found before a malformed one in the same chunk are lost with it
  (`protocol.py:230`), an answer among them too; the connection is closed then, and
  `WireIsExact` allows it after `noise` only.
* The diagram in `docs/architecture/overview.md:54-63` has no arrow from RUNNING
  to UNKNOWN, which `_execute` takes when an adapter answers UNKNOWN in time; and
  `BestwayClient` is documented as "Not safe to share across tasks"
  (`client.py:49`) while the poll and commands share it, behind its lock.

## 6. Plan

Done: all modules of section 2 and the proofs of section 4.

### Not modelled

* The demo and weather adapters: no failure of their own, within the contract
  that `Commands` assumes of an adapter.
* The deque of the audit log and its queries, the registry's freshness in hours
  and `filter_last_started_at`: bookkeeping of one assignment each.
* The login of the Home Assistant WebSocket, the parsing of JSON, and loading a
  layout from a file: they succeed or fail.
* Presentation (`render.js`, `dial.js`, `strings.js`), operator scripts, logging,
  and the translation between HTTP and the services.
* Restarts: nothing is persisted, so a restart is `Init`.

### What could follow

1. Worker threads that reach into `Schedules` and `EventStream`, as in
   `Admission`: which of the dictionary and queue operations they interrupt.
2. `LiveView` over `EventStream` by refinement, in place of the summary.
