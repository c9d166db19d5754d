---------------------------- MODULE HomeAssistant ----------------------------
(***************************************************************************)
(* One entity behind the Home Assistant adapter: the adapter's stream as   *)
(* main.run_provider_stream consumes it, one command at a time, and the    *)
(* entity's device in the DeviceRegistry.                                  *)
(*                                                                         *)
(* Home Assistant is reached in two ways that are not ordered with each    *)
(* other: its WebSocket, which sends every change from the subscription    *)
(* on, and HTTP requests, which answer with the state at some moment       *)
(* before the answer arrives.  A reading carries the number of the change  *)
(* it shows, which the code has not; it serves the properties only.        *)
(*                                                                         *)
(* Left out: discovery (before any of this), entities that are no devices  *)
(* here, the length of the backoff, and the pipeline's timeouts, which     *)
(* Commands models.                                                        *)
(***************************************************************************)
EXTENDS HaEntities, Sequences

CONSTANTS
    Entities,        \* what the entity may read as
    Requests,        \* commands: [action, param]
    NoRequest,       \* no command yet
    ConfirmAttempts, \* confirm_attempts
    MaxChanges,      \* bound: changes of the entity
    MaxTroubles,     \* bound: failed requests and lost sockets
    MaxCommands      \* bound: commands

\* All readings are of one entity, and none is refused by DeviceState: such a
\* reading would end the stream.
ASSUME EntitiesOK ==
    \A e, f \in Entities :
       /\ e.domain = f.domain /\ describe(e) # NoMapping
       /\ InBounds(normalise(e, describe(e).kind))
ASSUME BoundsOK == {ConfirmAttempts, MaxChanges, MaxTroubles, MaxCommands} \subseteq Nat

VARIABLES
    entity,   \* what the entity reads as now: [e, version]
    troubles, \* number of troubles so far
    phase,    \* the stream: "waiting", "asking", "connecting", "live"
    answer,   \* the answer to GET /api/states under way, or NoReading
    events,   \* state_changed events under way on the socket
    request,  \* the command under way, or the last one
    step,     \* execute: "idle", "calling", "called", "answered", "reading", "read"
    landing,  \* service calls received and not carried out yet
    reply,    \* the answer to the command's request under way, or NoReading
    attempts, \* read-backs begun
    latest,   \* _confirm: the reading read last
    commands, \* number of commands so far
    outcome,  \* of the last command: "APPLIED", "UNKNOWN", "raised", "none"
    since,    \* history: the states of the entity since the command began
    held,     \* the registry: state, availability, and the version applied last
    excuses   \* history: why held may be older than what Home Assistant holds

stream == <<phase, answer, events>>
command == <<request, step, landing, reply, attempts, latest, commands, outcome>>
vars == <<entity, troubles, stream, command, since, held, excuses>>

Reading(e, n) == [e |-> e, version |-> n]
NoReading == Reading(NoMapping, 0)

\* The kind discovery recorded for the entity.
Kind == (CHOOSE m \in {describe(e) : e \in Entities} : TRUE).kind

\* DeviceState.merged_with
MergedWith(state, other) ==
    [f \in DOMAIN state \cup DOMAIN other |-> IF f \in DOMAIN other THEN other[f] ELSE state[f]]

Trouble == troubles < MaxTroubles /\ troubles' = troubles + 1

\* ingest: apply the reading, whatever is held.
Ingest(r) ==
    /\ held' = [state |-> MergedWith(held.state, normalise(r.e, Kind)),
                availability |-> availability(r.e), version |-> r.version]
    /\ excuses' = IF r.version = entity.version THEN {}
                  ELSE excuses \cup (IF r.version < held.version THEN {"overtaken"} ELSE {})

Readings == [e : Entities, version : 0 .. MaxChanges + MaxCommands]

TypeOK ==
    /\ entity \in Readings /\ troubles \in 0 .. MaxTroubles
    /\ phase \in {"waiting", "asking", "connecting", "live"}
    /\ answer \in Readings \cup {NoReading} /\ events \in Seq(Readings)
    /\ phase # "live" => events = <<>>
    /\ request \in Requests \cup {NoRequest} /\ landing \subseteq Requests
    /\ step \in {"idle", "calling", "called", "answered", "reading", "read"}
    /\ {reply, latest} \subseteq Readings \cup {NoReading}
    /\ attempts \in 0 .. ConfirmAttempts /\ commands \in 0 .. MaxCommands
    /\ outcome \in {"APPLIED", "UNKNOWN", "raised", "none"}
    /\ since \subseteq Entities /\ excuses \subseteq {"overtaken", "missed"}
    /\ held.availability \in {"ONLINE", "OFFLINE", "UNKNOWN"}
    /\ held.version \in 0 .. entity.version

\* After bootstrap, which registers the device with a first reading.
Init ==
    /\ \E e \in Entities :
          /\ entity = Reading(e, 0)
          /\ held = [state |-> normalise(e, Kind), availability |-> availability(e), version |-> 0]
    /\ troubles = 0
    /\ phase = "asking" /\ answer = NoReading /\ events = <<>>
    /\ request = NoRequest /\ step = "idle" /\ landing = {} /\ reply = NoReading
    /\ attempts = 0 /\ latest = NoReading /\ commands = 0 /\ outcome = "none"
    /\ since = {} /\ excuses = {}

-----------------------------------------------------------------------------
(* Home Assistant.                                                         *)

\* The entity reads as e from now on; a subscription is told.
Becomes(e) ==
    /\ entity' = Reading(e, entity.version + 1)
    /\ events' = IF phase = "live" THEN Append(events, entity') ELSE events
    /\ since' = IF step = "idle" THEN since ELSE since \cup {e}
    /\ excuses' = IF phase = "connecting" \/ (phase = "asking" /\ answer # NoReading)
                  THEN excuses \cup {"missed"} ELSE excuses

\* By somebody in the house, or by itself.
Change(e) ==
    /\ entity.version < MaxChanges
    /\ e # entity.e
    /\ Becomes(e)
    /\ UNCHANGED <<troubles, phase, answer, command, held>>

\* A service call is carried out; calls do not count against MaxChanges.
Lands(r) ==
    /\ r \in landing /\ landing' = landing \ {r}
    /\ entity.e.state # "unavailable"
    /\ \E e \in Entities :
          /\ e.state = entity.e.state
          /\ Matches(e, Kind, CallFor(r.action, r.param).expected)
          /\ IF e = entity.e THEN UNCHANGED <<entity, events, since, excuses>> ELSE Becomes(e)
    /\ UNCHANGED <<troubles, phase, answer, request, step, reply, attempts, latest, commands,
                   outcome, held>>

\* An integration behind it may refuse or lose the call.
CallIsLost(r) ==
    /\ Trouble
    /\ r \in landing /\ landing' = landing \ {r}
    /\ UNCHANGED <<entity, stream, request, step, reply, attempts, latest, commands, outcome,
                   since, held, excuses>>

-----------------------------------------------------------------------------
(* The stream.                                                             *)

\* Slips: the stream goes on with the socket, without a snapshot; it is not
\* restarted.
SlipRestart ==
    /\ phase = "waiting" /\ phase' = "connecting"
    /\ UNCHANGED <<entity, troubles, answer, events, command, since, held, excuses>>

SlipNoRestart ==
    /\ phase = "waiting" /\ FALSE
    /\ UNCHANGED vars

\* run_provider_stream subscribes again after its backoff; _stream begins with
\* the snapshot.
Restart ==
    /\ phase = "waiting" /\ phase' = "asking"
    /\ UNCHANGED <<entity, troubles, answer, events, command, since, held, excuses>>

\* The request for the states is answered.
SnapshotRead ==
    /\ phase = "asking" /\ answer = NoReading
    /\ answer' = entity
    /\ UNCHANGED <<entity, troubles, phase, events, command, since, held, excuses>>

\* The snapshot is ingested; then the socket is opened.
SnapshotArrives ==
    /\ phase = "asking" /\ answer # NoReading
    /\ Ingest(answer)
    /\ phase' = "connecting" /\ answer' = NoReading
    /\ UNCHANGED <<entity, troubles, events, command, since>>

\* Authentication is over and the subscription acknowledged.
Subscribed ==
    /\ phase = "connecting" /\ phase' = "live"
    /\ UNCHANGED <<entity, troubles, answer, events, command, since, held, excuses>>

EventArrives ==
    /\ phase = "live" /\ events # <<>>
    /\ Ingest(Head(events))
    /\ events' = Tail(events)
    /\ UNCHANGED <<entity, troubles, phase, answer, command, since>>

\* Slip: what the lost socket had under way is kept for the next.
SlipStreamFails ==
    /\ Trouble
    /\ phase # "waiting" /\ phase' = "waiting"
    /\ UNCHANGED <<entity, answer, events, command, since, held, excuses>>

\* Any error of the snapshot, the handshake or the socket.  Held state stays.
StreamFails ==
    /\ Trouble
    /\ phase # "waiting" /\ phase' = "waiting"
    /\ answer' = NoReading /\ events' = <<>>
    /\ UNCHANGED <<entity, command, since, held, excuses>>

-----------------------------------------------------------------------------
(* HomeAssistantProvider.execute, for a released domain.                   *)

Execute(r) ==
    /\ step = "idle" /\ commands < MaxCommands
    /\ r.action \in {a \in Action : required_capability_for(a, r.param)
                                       \in Advertised(entity.e, RELEASABLE_DOMAINS)}
    /\ commands' = commands + 1 /\ request' = r /\ outcome' = "none"
    /\ step' = "calling" /\ attempts' = 0 /\ latest' = NoReading /\ reply' = NoReading
    /\ since' = {entity.e}
    /\ UNCHANGED <<entity, troubles, stream, landing, held, excuses>>

\* Home Assistant receives the call, and carries it out at some time.
CallReceived ==
    /\ step = "calling" /\ step' = "called"
    /\ landing' = landing \cup {request}
    /\ UNCHANGED <<entity, troubles, stream, request, reply, attempts, latest, commands,
                   outcome, since, held, excuses>>

\* The command ends with an outcome; a state that comes with it is ingested.
Ends(how, r) ==
    /\ step' = "idle" /\ outcome' = how
    /\ reply' = NoReading /\ latest' = NoReading /\ attempts' = 0
    /\ IF r = NoReading THEN UNCHANGED <<held, excuses>> ELSE Ingest(r)
    /\ UNCHANGED <<entity, troubles, stream, request, landing, commands, since>>

Wanted == CallFor(request.action, request.param).expected

\* Home Assistant answers the call with what it changed, our entity among it.
CallAnswered ==
    /\ step = "called" /\ request \notin landing
    /\ step' = "answered" /\ reply' = entity
    /\ UNCHANGED <<entity, troubles, stream, request, landing, attempts, latest, commands,
                   outcome, since, held, excuses>>

\* The answer arrives, and our entity reads there as asked for.
CallReturnsChanged ==
    /\ step = "answered"
    /\ Matches(reply.e, Kind, Wanted)
    /\ Ends("APPLIED", reply)

\* Slip: the call was accepted, so it is taken to have worked.
SlipCallReturns == step = "called" /\ Ends("APPLIED", entity)

\* Without our entity in the answer, or not as asked for, the adapter reads it back.
CallReturns ==
    /\ step = "called" \/ (step = "answered" /\ ~Matches(reply.e, Kind, Wanted))
    /\ step' = "reading" /\ reply' = NoReading
    /\ UNCHANGED <<entity, troubles, stream, request, landing, attempts, latest,
                   commands, outcome, since, held, excuses>>

\* The answer to the call is lost: the adapter raises, although it was sent.
CallFails ==
    /\ Trouble
    /\ step \in {"calling", "called", "answered"}
    /\ step' = "idle" /\ outcome' = "raised" /\ reply' = NoReading
    /\ UNCHANGED <<entity, stream, request, landing, attempts, latest, commands, since, held,
                   excuses>>

\* _confirm: a read-back is answered, and its answer arrives.
ReadBack ==
    /\ step = "reading" /\ attempts < ConfirmAttempts
    /\ step' = "read" /\ attempts' = attempts + 1
    /\ reply' = entity
    /\ UNCHANGED <<entity, troubles, stream, request, landing, latest, commands, outcome,
                   since, held, excuses>>

ReadBackConfirms ==
    /\ step = "read"
    /\ Matches(reply.e, Kind, Wanted)
    /\ Ends("APPLIED", reply)

ReadBackDiffers ==
    /\ step = "read"
    /\ ~Matches(reply.e, Kind, Wanted)
    /\ step' = "reading" /\ latest' = reply /\ reply' = NoReading
    /\ UNCHANGED <<entity, troubles, stream, request, landing, attempts, commands, outcome,
                   since, held, excuses>>

ReadBackFails ==
    /\ Trouble
    /\ step = "read"
    /\ step' = "reading" /\ reply' = NoReading
    /\ UNCHANGED <<entity, stream, request, landing, attempts, latest, commands, outcome,
                   since, held, excuses>>

\* Out of attempts: UNKNOWN, with the reading read last if there is one.
GivesUp ==
    /\ step = "reading" /\ attempts = ConfirmAttempts
    /\ Ends("UNKNOWN", latest)

-----------------------------------------------------------------------------
Stream == Restart \/ SnapshotRead \/ SnapshotArrives \/ Subscribed \/ EventArrives

Confirm == CallAnswered \/ CallReturnsChanged \/ CallReturns \/ ReadBack
             \/ ReadBackConfirms \/ ReadBackDiffers \/ GivesUp

Next ==
    \/ \E e \in Entities : Change(e)
    \/ \E r \in landing : Lands(r) \/ CallIsLost(r)
    \/ Stream \/ StreamFails
    \/ \E r \in Requests : Execute(r)
    \/ CallReceived \/ CallFails \/ Confirm \/ ReadBackFails

Spec == Init /\ [][Next]_vars

\* The tasks of the gateway go on, Home Assistant answers what is not lost, and
\* open sockets deliver.
FairSpec == Spec /\ WF_vars(Stream) /\ WF_vars(CallReceived \/ Confirm)

-----------------------------------------------------------------------------
(* Properties.                                                             *)

\* The registry has what the entity reports, field by field.
Agrees ==
    LET now == normalise(entity.e, Kind)
    IN  /\ held.availability = availability(entity.e)
        /\ \A f \in DOMAIN now : f \in DOMAIN held.state /\ held.state[f] = now[f]

Quiet == phase = "live" /\ events = <<>> /\ step = "idle"

\* "The stream opens with a full snapshot rather than letting held state quietly
\* drift" (provider.py:195): once it has caught up, the registry agrees with the
\* entity, whatever was lost before, unless a change fell between the snapshot
\* and the subscription or an older answer was applied after a newer one.
HeldIsCurrent == Quiet /\ excuses = {} => Agrees

\* A command judged on "what actually happened rather than on a 200"
\* (client.py:121): APPLIED means the entity did read as asked for, at some time
\* since the command began.
AppliedWasSeen ==
    outcome = "APPLIED" => \E e \in since : Matches(e, Kind, Wanted)

\* A failing adapter is restarted (main.py:34): after the last change and the
\* last failure the registry agrees, with the exceptions of HeldIsCurrent.
CatchesUp == <>[](Agrees \/ excuses # {})

\* "An 'off' thermostat is not heating" (entities.py:253).
OffIsNotHeating ==
    Quiet /\ excuses = {} /\ entity.e.state = "off" /\ "heater" \in DOMAIN held.state
      => held.state["heater"] # On

=============================================================================
