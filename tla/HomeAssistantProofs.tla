------------------------- MODULE HomeAssistantProofs -------------------------
(***************************************************************************)
(* Proofs about HomeAssistant: a command that is reported APPLIED was seen *)
(* to be, and the registry agrees with the entity once the stream has      *)
(* caught up.                                                              *)
(***************************************************************************)
EXTENDS HomeAssistant, FiniteSetTheorems, TLAPS

-----------------------------------------------------------------------------
(* The inductive invariant.                                                *)

\* A reading of the entity as it is or was; the versions tell them apart.
Past(r) ==
    /\ r.version \in Nat /\ r.version <= entity.version
    /\ r.version = entity.version => r = entity

VersionInv ==
    /\ Past(entity)
    /\ events \in Seq([e : Entities, version : Nat])
    /\ \A i \in 1 .. Len(events) : Past(events[i])
    /\ \A r \in {answer, reply, latest} : r # NoReading => Past(r)
    /\ held.version \in Nat /\ held.version <= entity.version
    /\ held.version = entity.version => Agrees

\* What is on its way to the registry, when nothing excuses a difference.
CurrentInv ==
    /\ phase \in {"waiting", "asking", "connecting", "live"}
    /\ entity \in [e : Entities, version : Nat]
    /\ events # <<>> => phase = "live" /\ events[Len(events)] = entity
    /\ answer # NoReading => phase = "asking"
    /\ excuses = {} =>
         /\ phase = "live" /\ events = <<>> => held.version = entity.version
         /\ phase = "connecting" => held.version = entity.version
         /\ answer # NoReading =>
               answer.version = entity.version \/ held.version > answer.version

\* What a running command has read is a state the entity had since it began.
CommandInv ==
    /\ step # "idle" => entity.e \in since
    /\ step \in {"answered", "read"} => reply.e \in since
    /\ outcome = "APPLIED" => step = "idle"
    /\ AppliedWasSeen

Inv == VersionInv /\ CurrentInv /\ CommandInv

-----------------------------------------------------------------------------
(* The two things that happen to the registry and the entity.              *)

\* Applying a reading: the newest one makes the registry agree, and an older one
\* than the registry holds is an excuse.
LEMMA IngestStep ==
  ASSUME VersionInv, entity' = entity, NEW r, Past(r), Ingest(r)
  PROVE  /\ held'.version = r.version
         /\ r.version = entity.version => Agrees'
         /\ excuses' = {} => r.version = entity.version
                             \/ (excuses = {} /\ r.version >= held.version)
  <1>1. held'.version = r.version
    BY DEF Ingest
  <1>2. ASSUME r.version = entity.version PROVE Agrees'
    <2>1. r = entity
      BY <1>2 DEF Past
    <2>2. /\ held'.availability = availability(entity.e)
          /\ held'.state = MergedWith(held.state, normalise(entity.e, Kind))
      BY <2>1 DEF Ingest
    <2> QED  BY <2>2 DEF Agrees, MergedWith
  <1>3. held.version \in Nat /\ r.version \in Nat
    BY DEF VersionInv, Past
  <1> QED  BY <1>1, <1>2, <1>3 DEF Ingest

\* The entity changes.
LEMMA ChangeStep ==
  ASSUME Inv, NEW e \in Entities, Becomes(e),
         UNCHANGED <<phase, answer, request, step, reply, latest, outcome, held>>
  PROVE  Inv'
  <1>1. /\ entity' = Reading(e, entity.version + 1) /\ entity.version \in Nat
        /\ entity'.version = entity.version + 1 /\ entity'.e = e
        /\ entity' \in [e : Entities, version : Nat]
    BY DEF Inv, VersionInv, Past, Becomes, Reading
  <1>2. \A r : Past(r) => Past(r)'
    BY <1>1 DEF Past
  <1>3. /\ events' \in Seq([e : Entities, version : Nat])
        /\ \A i \in 1 .. Len(events') :
              events'[i] = entity' \/ \E j \in 1 .. Len(events) : events'[i] = events[j]
        /\ events' # <<>> => phase = "live" /\ events'[Len(events')] = entity'
        /\ phase = "live" => events' # <<>>
    <2>1. events \in Seq([e : Entities, version : Nat])
      BY DEF Inv, VersionInv
    <2>2. CASE phase = "live"
      <3>1. events' = Append(events, entity')
        BY <2>2 DEF Becomes
      <3>2. /\ events' \in Seq([e : Entities, version : Nat]) /\ Len(events) \in Nat
            /\ Len(events') = Len(events) + 1 /\ events'[Len(events) + 1] = entity'
            /\ \A i \in 1 .. Len(events) : events'[i] = events[i]
        BY <1>1, <2>1, <3>1
      <3>3. events' # <<>>
        BY <3>2
      <3> QED  BY <2>2, <3>2, <3>3
    <2>3. CASE phase # "live"
      BY <2>1, <2>3 DEF Inv, CurrentInv, Becomes
    <2> QED  BY <2>2, <2>3
  <1>4. VersionInv'
    <2>1. Past(entity)'
      BY <1>1 DEF Past
    <2>2. \A i \in 1 .. Len(events') : Past(events[i])'
      BY <1>2, <1>3, <2>1 DEF Inv, VersionInv
    <2> QED  BY <1>1, <1>2, <1>3, <2>1, <2>2 DEF Inv, VersionInv
  <1>5. excuses' = {} => excuses = {} /\ phase # "connecting" /\ answer = NoReading
    BY DEF Becomes, Inv, CurrentInv
  <1>6. CurrentInv'
    BY <1>1, <1>3, <1>5 DEF Inv, CurrentInv
  <1>7. since' = (IF step = "idle" THEN since ELSE since \cup {e})
    BY DEF Becomes
  <1>8. CommandInv'
    <2>1. Wanted' = Wanted
      BY DEF Wanted
    <2>2. AppliedWasSeen'
      BY <1>7, <2>1 DEF Inv, CommandInv, AppliedWasSeen
    <2> QED  BY <1>1, <1>7, <2>2 DEF Inv, CommandInv
  <1> QED  BY <1>4, <1>6, <1>8 DEF Inv

\* A reading is applied while the entity stays as it is.
LEMMA AppliedReading ==
  ASSUME VersionInv, CurrentInv, entity' = entity, NEW r, Past(r), Ingest(r)
  PROVE  /\ held'.version \in Nat /\ held'.version <= entity.version
         /\ held'.version = entity.version => Agrees'
         /\ excuses' = {} => held'.version = entity.version
                             \/ (excuses = {} /\ held'.version >= held.version)
  BY IngestStep DEF Past

\* What was read of the past stays so while the entity stays.
LEMMA PastStays ==
  ASSUME entity' = entity, NEW r, Past(r)
  PROVE  Past(r)'
  BY DEF Past

-----------------------------------------------------------------------------
(* The stream.                                                             *)

stays == <<entity, request, step, reply, latest, outcome, since>>

\* The stream leaves the commands alone.
LEMMA CommandStays ==
  ASSUME CommandInv, UNCHANGED stays
  PROVE  CommandInv'
  <1>1. Wanted' = Wanted
    BY DEF stays, Wanted
  <1>2. AppliedWasSeen'
    BY <1>1 DEF stays, CommandInv, AppliedWasSeen
  <1> QED  BY <1>2 DEF stays, CommandInv

\* Steps of the stream that apply nothing.
LEMMA StreamQuiet ==
  ASSUME Inv, Restart \/ SnapshotRead \/ Subscribed \/ StreamFails
  PROVE  Inv'
  <1>1. /\ UNCHANGED stays /\ held' = held /\ excuses' = excuses
        /\ events' = events \/ events' = <<>>
        /\ answer' \in {answer, entity, NoReading}
    BY DEF Restart, SnapshotRead, Subscribed, StreamFails, stays, command
  <1>2. Agrees' = Agrees
    BY <1>1 DEF stays, Agrees
  <1>3. VersionInv'
    <2>1. entity' = entity /\ reply' = reply /\ latest' = latest
      BY <1>1 DEF stays
    <2>2. \A r : Past(r) => Past(r)'
      BY <2>1 DEF Past
    <2>3. /\ events' \in Seq([e : Entities, version : Nat])
          /\ \A i \in 1 .. Len(events') : Past(events[i])'
      <3>1. CASE events' = events
        BY <2>2, <3>1 DEF Inv, VersionInv
      <3>2. CASE events' = <<>>
        BY <3>2
      <3> QED  BY <1>1, <3>1, <3>2
    <2>4. \A r \in {answer', reply', latest'} : r # NoReading => Past(r)'
      BY <1>1, <2>1, <2>2 DEF Inv, VersionInv
    <2> QED  BY <1>1, <1>2, <2>1, <2>2, <2>3, <2>4 DEF Inv, VersionInv, NoReading
  <1>4. ASSUME Restart PROVE CurrentInv'
    BY <1>1, <1>4 DEF Restart, Inv, CurrentInv, stays
  <1>5. ASSUME SnapshotRead PROVE CurrentInv'
    BY <1>1, <1>5 DEF SnapshotRead, Inv, CurrentInv, stays
  <1>6. ASSUME Subscribed PROVE CurrentInv'
    BY <1>1, <1>6 DEF Subscribed, Inv, CurrentInv, stays
  <1>7. ASSUME StreamFails PROVE CurrentInv'
    BY <1>1, <1>7 DEF StreamFails, Inv, CurrentInv, stays, NoReading
  <1>8. CommandInv'
    BY <1>1, CommandStays DEF Inv
  <1> QED  BY <1>3, <1>4, <1>5, <1>6, <1>7, <1>8 DEF Inv

\* The snapshot is applied, and the socket opened.
LEMMA SnapshotStep ==
  ASSUME Inv, SnapshotArrives
  PROVE  Inv'
  <1>1. /\ UNCHANGED stays /\ events' = events /\ phase = "asking" /\ phase' = "connecting"
        /\ answer # NoReading /\ answer' = NoReading /\ Ingest(answer)
    BY DEF SnapshotArrives, stays, command
  <1>2. Past(answer) /\ entity' = entity
    BY <1>1 DEF Inv, VersionInv, stays
  <1>3. /\ held'.version = answer.version
        /\ held'.version \in Nat /\ held'.version <= entity.version
        /\ held'.version = entity.version => Agrees'
        /\ excuses' = {} => held'.version = entity.version
                            \/ (excuses = {} /\ held'.version >= held.version)
    BY <1>1, <1>2, AppliedReading, IngestStep DEF Inv
  <1>4. VersionInv'
    BY <1>1, <1>2, <1>3, PastStays DEF Inv, VersionInv, stays
  <1>5. CurrentInv'
    <2>1. excuses' = {} => held'.version = entity.version
      BY <1>1, <1>2, <1>3 DEF Inv, CurrentInv, VersionInv, Past
    <2>2. events' = <<>>
      BY <1>1 DEF Inv, CurrentInv
    <2> QED  BY <1>1, <1>2, <2>1, <2>2 DEF Inv, CurrentInv
  <1>6. CommandInv'
    BY <1>1, CommandStays DEF Inv
  <1> QED  BY <1>4, <1>5, <1>6 DEF Inv

\* An event is applied; the last one is the newest reading.
LEMMA EventStep ==
  ASSUME Inv, EventArrives
  PROVE  Inv'
  <1>1. /\ UNCHANGED stays /\ phase = "live" /\ phase' = phase /\ answer' = answer
        /\ events # <<>> /\ events' = Tail(events) /\ Ingest(Head(events))
    BY DEF EventArrives, stays, command
  <1>2. /\ events \in Seq([e : Entities, version : Nat])
        /\ Head(events) = events[1] /\ 1 \in 1 .. Len(events)
        /\ events[Len(events)] = entity /\ entity' = entity
    BY <1>1 DEF Inv, VersionInv, CurrentInv, stays
  <1>3. Past(Head(events))
    BY <1>2 DEF Inv, VersionInv
  <1>4. /\ held'.version = Head(events).version
        /\ held'.version \in Nat /\ held'.version <= entity.version
        /\ held'.version = entity.version => Agrees'
    BY <1>2, <1>3, <1>1, AppliedReading, IngestStep DEF Inv
  <1>5. /\ events' \in Seq([e : Entities, version : Nat])
        /\ \A i \in 1 .. Len(events') : \E j \in 1 .. Len(events) : events'[i] = events[j]
        /\ events' # <<>> => events'[Len(events')] = events[Len(events)]
        /\ events' = <<>> => Head(events) = entity
    <2>1. /\ Len(events) \in Nat /\ Len(events) > 0
          /\ events' \in Seq([e : Entities, version : Nat])
          /\ Len(events') = Len(events) - 1
          /\ \A i \in 1 .. Len(events') : events'[i] = events[i + 1]
      BY <1>1, <1>2
    <2>2. \A i \in 1 .. Len(events') : i + 1 \in 1 .. Len(events)
      BY <2>1
    <2>3. events' # <<>> => Len(events') \in 1 .. Len(events')
      BY <2>1
    <2>4. events' = <<>> => Len(events) = 1
      BY <2>1
    <2> QED  BY <1>2, <2>1, <2>2, <2>3, <2>4
  <1>6. VersionInv'
    <2>1. \A i \in 1 .. Len(events') : Past(events[i])'
      BY <1>2, <1>5, PastStays DEF Inv, VersionInv
    <2> QED  BY <1>1, <1>2, <1>4, <1>5, <2>1, PastStays DEF Inv, VersionInv, stays
  <1>7. CurrentInv'
    BY <1>1, <1>2, <1>4, <1>5 DEF Inv, CurrentInv
  <1>8. CommandInv'
    BY <1>1, CommandStays DEF Inv
  <1> QED  BY <1>6, <1>7, <1>8 DEF Inv

-----------------------------------------------------------------------------
(* The commands.                                                           *)

still == <<entity, phase, answer, events>>

\* A step that applies nothing and reads nothing but the entity as it is.
LEMMA NothingApplied ==
  ASSUME VersionInv, CurrentInv, UNCHANGED <<still, held, excuses>>,
         {reply', latest'} \subseteq {reply, latest, entity, NoReading}
  PROVE  VersionInv' /\ CurrentInv'
  <1>1. Agrees' = Agrees /\ \A r : Past(r) => Past(r)'
    BY DEF still, Agrees, Past
  <1>2. \A r \in {answer', reply', latest'} : r # NoReading => Past(r)'
    BY <1>1 DEF still, VersionInv
  <1>3. Past(entity)' /\ \A i \in 1 .. Len(events') : Past(events[i])'
    BY <1>1 DEF still, VersionInv
  <1>4. VersionInv'
    BY <1>1, <1>2, <1>3 DEF still, VersionInv, NoReading
  <1>5. CurrentInv'
    BY DEF still, CurrentInv
  <1> QED  BY <1>4, <1>5

\* The end of a command applies what it read last, unless it read nothing.
LEMMA EndApplies ==
  ASSUME Inv, NEW how, NEW r, r # NoReading => Past(r), Ends(how, r)
  PROVE  VersionInv' /\ CurrentInv'
  <1>1. UNCHANGED still /\ reply' = NoReading /\ latest' = NoReading
    BY DEF Ends, still, stream
  <1>2. CASE r = NoReading
    <2>1. UNCHANGED <<held, excuses>>
      BY <1>2 DEF Ends
    <2> QED  BY <1>1, <2>1, NothingApplied DEF Inv
  <1>3. CASE r # NoReading
    <2>1. Ingest(r) /\ Past(r) /\ entity' = entity
      BY <1>1, <1>3 DEF Ends, still
    <2>2. /\ held'.version \in Nat /\ held'.version <= entity.version
          /\ held'.version = entity.version => Agrees'
          /\ excuses' = {} => held'.version = entity.version
                              \/ (excuses = {} /\ held'.version >= held.version)
      BY <2>1, AppliedReading DEF Inv
    <2>3. \A x : Past(x) => Past(x)'
      BY <2>1 DEF Past
    <2>4. VersionInv'
      <3>1. Past(entity)' /\ \A i \in 1 .. Len(events') : Past(events[i])'
        BY <1>1, <2>3 DEF Inv, VersionInv, still
      <3>2. \A x \in {answer', reply', latest'} : x # NoReading => Past(x)'
        BY <1>1, <2>3 DEF Inv, VersionInv, still
      <3> QED  BY <1>1, <2>2, <3>1, <3>2 DEF Inv, VersionInv, still, NoReading
    <2>5. CurrentInv'
      <3>1. answer # NoReading => Past(answer)
        BY DEF Inv, VersionInv
      <3>2. ASSUME excuses' = {}, answer # NoReading
            PROVE  answer.version = entity.version \/ held'.version > answer.version
        BY <2>2, <3>1, <3>2 DEF Inv, CurrentInv, VersionInv, Past
      <3>3. ASSUME excuses' = {}, (phase = "live" /\ events = <<>>) \/ phase = "connecting"
            PROVE  held'.version = entity.version
        BY <2>2, <3>3 DEF Inv, CurrentInv, VersionInv
      <3> QED  BY <1>1, <3>2, <3>3 DEF Inv, CurrentInv, still
    <2> QED  BY <2>4, <2>5
  <1> QED  BY <1>2, <1>3

\* A command begins, is received, and its reads begin and differ.
LEMMA CommandQuiet ==
  ASSUME Inv,
         \/ \E r \in Requests : Execute(r)
         \/ CallReceived \/ CallAnswered \/ CallReturns \/ CallFails
         \/ ReadBack \/ ReadBackDiffers \/ ReadBackFails
  PROVE  Inv'
  <1>1. /\ UNCHANGED <<still, held, excuses>>
        /\ {reply', latest'} \subseteq {reply, latest, entity, NoReading}
    BY DEF Execute, CallReceived, CallAnswered, CallReturns, CallFails, ReadBack,
           ReadBackDiffers, ReadBackFails, still, stream
  <1>2. VersionInv' /\ CurrentInv'
    BY <1>1, NothingApplied DEF Inv
  <1>3. CommandInv'
    <2>1. ASSUME NEW r \in Requests, Execute(r) PROVE CommandInv'
      BY <2>1 DEF Execute, CommandInv, AppliedWasSeen
    <2>2. CASE CallReceived
      BY <2>2 DEF CallReceived, Inv, CommandInv, AppliedWasSeen
    <2>3. CASE CallReturns
      BY <2>3 DEF CallReturns, Inv, CommandInv, AppliedWasSeen
    <2>4. CASE CallFails
      BY <2>4 DEF CallFails, Inv, CommandInv, AppliedWasSeen
    <2>5. CASE ReadBack
      BY <2>5 DEF ReadBack, Inv, CommandInv, AppliedWasSeen
    <2>6. CASE ReadBackDiffers
      BY <2>6 DEF ReadBackDiffers, Inv, CommandInv, AppliedWasSeen
    <2>7. CASE ReadBackFails
      BY <2>7 DEF ReadBackFails, Inv, CommandInv, AppliedWasSeen
    <2>8. CASE CallAnswered
      BY <2>8 DEF CallAnswered, Inv, CommandInv, AppliedWasSeen
    <2> QED  BY <2>1, <2>2, <2>3, <2>4, <2>5, <2>6, <2>7, <2>8
  <1> QED  BY <1>2, <1>3 DEF Inv

\* A command ends: APPLIED only with a reading, of the time it ran, that shows it.
LEMMA CommandEnds ==
  ASSUME Inv, CallReturnsChanged \/ ReadBackConfirms \/ GivesUp
  PROVE  Inv'
  <1>1. CASE CallReturnsChanged
    <2>1. Ends("APPLIED", reply) /\ (reply # NoReading => Past(reply))
      BY <1>1 DEF CallReturnsChanged, Inv, VersionInv
    <2>2. VersionInv' /\ CurrentInv'
      BY <2>1, EndApplies
    <2>3. Wanted' = Wanted
      BY <2>1 DEF Ends, Wanted
    <2>4. CommandInv'
      BY <1>1, <2>1, <2>3 DEF CallReturnsChanged, Ends, Inv, CommandInv, AppliedWasSeen
    <2> QED  BY <2>2, <2>4 DEF Inv
  <1>2. CASE ReadBackConfirms
    <2>1. Ends("APPLIED", reply) /\ (reply # NoReading => Past(reply))
      BY <1>2 DEF ReadBackConfirms, Inv, VersionInv
    <2>2. VersionInv' /\ CurrentInv'
      BY <2>1, EndApplies
    <2>3. Wanted' = Wanted
      BY <2>1 DEF Ends, Wanted
    <2>4. CommandInv'
      BY <1>2, <2>1, <2>3 DEF ReadBackConfirms, Ends, Inv, CommandInv, AppliedWasSeen
    <2> QED  BY <2>2, <2>4 DEF Inv
  <1>3. CASE GivesUp
    <2>1. Ends("UNKNOWN", latest) /\ (latest # NoReading => Past(latest))
      BY <1>3 DEF GivesUp, Inv, VersionInv
    <2>2. VersionInv' /\ CurrentInv'
      BY <2>1, EndApplies
    <2>3. CommandInv'
      BY <2>1 DEF Ends, CommandInv, AppliedWasSeen
    <2> QED  BY <2>2, <2>3 DEF Inv
  <1> QED  BY <1>1, <1>2, <1>3

\* A service call is carried out or lost.
LEMMA CallStep ==
  ASSUME Inv, NEW r \in landing, Lands(r) \/ CallIsLost(r)
  PROVE  Inv'
  <1>1. UNCHANGED <<phase, answer, request, step, reply, latest, outcome, held>>
    BY DEF Lands, CallIsLost, stream
  <1>2. ASSUME NEW e \in Entities, Becomes(e) PROVE Inv'
    BY <1>1, <1>2, ChangeStep
  <1>3. ASSUME UNCHANGED <<entity, events, since, excuses>> PROVE Inv'
    <2>1. VersionInv' /\ CurrentInv'
      BY <1>1, <1>3, NothingApplied DEF Inv, still
    <2>2. CommandInv'
      BY <1>1, <1>3, CommandStays DEF Inv, stays
    <2> QED  BY <2>1, <2>2 DEF Inv
  <1> QED  BY <1>2, <1>3 DEF Lands, CallIsLost, stream

-----------------------------------------------------------------------------
(* Initial states, steps, and the theorems.                                *)

LEMMA InitInv ==
  ASSUME Init
  PROVE  Inv
  <1>1. PICK e \in Entities :
           /\ entity = Reading(e, 0)
           /\ held = [state |-> normalise(e, Kind), availability |-> availability(e), version |-> 0]
    BY DEF Init
  <1>2. entity.version = 0 /\ entity.e = e /\ entity \in [e : Entities, version : Nat]
    BY <1>1 DEF Reading
  <1>3. Agrees /\ held.version = 0
    BY <1>1, <1>2 DEF Agrees
  <1> QED  BY <1>2, <1>3 DEF Init, Inv, VersionInv, CurrentInv, CommandInv, AppliedWasSeen, Past

LEMMA StepInv ==
  ASSUME Inv, [Next]_vars
  PROVE  Inv'
  <1>1. ASSUME NEW e \in Entities, Change(e) PROVE Inv'
    BY <1>1, ChangeStep DEF Change, command
  <1>2. CASE vars' = vars
    <2>1. VersionInv' /\ CurrentInv'
      BY <1>2, NothingApplied DEF Inv, vars, still, stream, command
    <2>2. CommandInv'
      BY <1>2, CommandStays DEF Inv, vars, stays, command
    <2> QED  BY <2>1, <2>2 DEF Inv
  <1> QED
    BY <1>1, <1>2, StreamQuiet, SnapshotStep, EventStep, CommandQuiet, CommandEnds, CallStep
       DEF Next, Stream, Confirm

\* Once the stream has caught up and no command is under way, the registry agrees
\* with the entity, unless a change fell into the gap before the subscription or
\* an older answer was applied after a newer one: HomeAssistantProvider._stream
\* and DeviceRegistry.apply, for any number of changes, failures and commands.
THEOREM HeldIsCurrentHolds == Spec => []HeldIsCurrent
  <1>1. Inv => HeldIsCurrent
    BY DEF Inv, VersionInv, CurrentInv, HeldIsCurrent, Quiet
  <1> QED  BY <1>1, InitInv, StepInv, PTL DEF Spec

\* A command that HomeAssistantProvider.execute reports APPLIED did show, at some
\* time since it began, whatever the calls of earlier commands still do.
THEOREM AppliedWasSeenHolds == Spec => []AppliedWasSeen
  <1>1. Inv => AppliedWasSeen
    BY DEF Inv, CommandInv
  <1> QED  BY <1>1, InitInv, StepInv, PTL DEF Spec

-----------------------------------------------------------------------------
(* Types.  The versions are bounded because each change beyond MaxChanges  *)
(* takes a service call, and each service call a command.                  *)

PastReadings == [e : Entities, version : Nat]

\* The service calls that can still change the entity.
Due == Cardinality(landing) + (IF step = "calling" THEN 1 ELSE 0)

BudgetInv ==
    /\ IsFiniteSet(landing) /\ commands \in Nat
    /\ Due <= commands
    /\ entity.version + Due <= MaxChanges + commands

StepNames == {"idle", "calling", "called", "answered", "reading", "read"}

CommandOK ==
    /\ request \in Requests \cup {NoRequest} /\ landing \subseteq Requests
    /\ step \in StepNames /\ (step # "idle" => request \in Requests)
    /\ {reply, latest} \subseteq PastReadings \cup {NoReading}
    /\ attempts \in 0 .. ConfirmAttempts /\ commands \in 0 .. MaxCommands
    /\ outcome \in {"APPLIED", "UNKNOWN", "raised", "none"}

StreamOK ==
    /\ troubles \in 0 .. MaxTroubles
    /\ answer \in PastReadings \cup {NoReading}
    /\ since \subseteq Entities /\ excuses \subseteq {"overtaken", "missed"}
    /\ held.availability \in {"ONLINE", "OFFLINE", "UNKNOWN"}

TypeInv == BudgetInv /\ CommandOK /\ StreamOK

\* A sequence is over any set that has its elements.
LEMMA NarrowSeq ==
  ASSUME NEW S, NEW T, NEW s \in Seq(S), \A i \in 1 .. Len(s) : s[i] \in T
  PROVE  s \in Seq(T)
  <1>1. s \in [1 .. Len(s) -> T] /\ Len(s) \in Nat
    OBVIOUS
  <1> QED  BY <1>1

\* The parts together are the types.
LEMMA TypeParts ==
  ASSUME Inv, TypeInv, BoundsOK
  PROVE  TypeOK
  <1>1. /\ {MaxChanges, MaxCommands, commands, entity.version, Cardinality(landing)} \subseteq Nat
        /\ commands <= MaxCommands
    BY FS_CardinalityType DEF TypeInv, BudgetInv, CommandOK, Inv, VersionInv, Past, BoundsOK
  <1>2. entity.version <= MaxChanges + MaxCommands
    <2>1. CASE step = "calling"
      BY <1>1, <2>1 DEF TypeInv, BudgetInv, Due
    <2>2. CASE step # "calling"
      BY <1>1, <2>2 DEF TypeInv, BudgetInv, Due
    <2> QED  BY <2>1, <2>2
  <1>3. \A r \in PastReadings : Past(r) => r \in Readings
    BY <1>1, <1>2 DEF Past, PastReadings, Readings
  <1>4. events \in Seq(Readings)
    <2>1. events \in Seq(PastReadings)
      BY DEF Inv, VersionInv, PastReadings
    <2>2. \A i \in 1 .. Len(events) : events[i] \in Readings
      BY <1>3, <2>1 DEF Inv, VersionInv
    <2> QED  BY <2>1, <2>2, NarrowSeq
  <1>5. entity \in Readings /\ {answer, reply, latest} \subseteq Readings \cup {NoReading}
    BY <1>3 DEF Inv, VersionInv, CurrentInv, TypeInv, CommandOK, StreamOK, PastReadings
  <1>6. held.version \in 0 .. entity.version /\ (phase # "live" => events = <<>>)
    BY <1>1 DEF Inv, VersionInv, CurrentInv
  <1> QED
    BY <1>4, <1>5, <1>6 DEF TypeOK, TypeInv, CommandOK, StreamOK, StepNames, Inv, CurrentInv

\* What a reading that is applied leaves in the registry.
LEMMA IngestType ==
  ASSUME NEW r, Ingest(r), StreamOK
  PROVE  /\ held'.availability \in {"ONLINE", "OFFLINE", "UNKNOWN"}
         /\ excuses' \subseteq {"overtaken", "missed"}
  <1>1. held'.availability = availability(r.e)
    BY DEF Ingest
  <1>2. excuses' \subseteq excuses \cup {"overtaken"}
    BY DEF Ingest
  <1> QED  BY <1>1, <1>2 DEF availability, StreamOK

\* Service calls are made by commands only, and consumed by what they change.
LEMMA BudgetStep ==
  ASSUME Inv, TypeInv, [Next]_vars, BoundsOK
  PROVE  BudgetInv'
  <1>1. /\ entity.version \in Nat /\ commands \in Nat /\ Cardinality(landing) \in Nat
        /\ MaxChanges \in Nat /\ IsFiniteSet(landing)
    BY FS_CardinalityType DEF TypeInv, BudgetInv, Inv, VersionInv, Past, BoundsOK
  <1>2. ASSUME entity' = entity, landing' = landing, commands' = commands,
               step' # "calling" \/ step = "calling"
        PROVE  BudgetInv'
    BY <1>1, <1>2 DEF TypeInv, BudgetInv, Due
  <1>3. ASSUME NEW e \in Entities, Change(e) PROVE BudgetInv'
    <2>1. /\ entity'.version = entity.version + 1 /\ entity.version < MaxChanges
          /\ UNCHANGED <<landing, step, commands>>
      BY <1>3 DEF Change, Becomes, Reading, command
    <2> QED  BY <1>1, <2>1 DEF TypeInv, BudgetInv, Due
  <1>4. ASSUME NEW r \in landing, Lands(r) \/ CallIsLost(r) PROVE BudgetInv'
    <2>1. /\ landing' = landing \ {r} /\ UNCHANGED <<step, commands>>
          /\ entity'.version \in {entity.version, entity.version + 1}
      BY <1>4 DEF Lands, CallIsLost, Becomes, Reading
    <2>2. IsFiniteSet(landing') /\ Cardinality(landing') = Cardinality(landing) - 1
      BY <1>1, <2>1, FS_RemoveElement
    <2> QED  BY <1>1, <2>1, <2>2 DEF TypeInv, BudgetInv, Due
  <1>5. ASSUME NEW r \in Requests, Execute(r) PROVE BudgetInv'
    <2>1. /\ UNCHANGED <<entity, landing>> /\ commands' = commands + 1
          /\ step = "idle" /\ step' = "calling"
      BY <1>5 DEF Execute
    <2> QED  BY <1>1, <2>1 DEF TypeInv, BudgetInv, Due
  <1>6. CASE CallReceived
    <2>1. /\ landing' = landing \cup {request} /\ UNCHANGED <<entity, commands>>
          /\ step = "calling" /\ step' = "called"
      BY <1>6 DEF CallReceived
    <2>2. /\ IsFiniteSet(landing') /\ Cardinality(landing') \in Nat
          /\ Cardinality(landing') <= Cardinality(landing) + 1
      BY <1>1, <2>1, FS_AddElement
    <2> QED  BY <1>1, <2>1, <2>2 DEF TypeInv, BudgetInv, Due
  <1>7. CASE Stream \/ StreamFails \/ vars' = vars
    <2>1. UNCHANGED <<entity, landing, commands, step>>
      BY <1>7 DEF Stream, Restart, SnapshotRead, SnapshotArrives, Subscribed, EventArrives,
                  StreamFails, vars, command
    <2> QED  BY <1>2, <2>1
  <1>8. CASE CallFails \/ Confirm \/ ReadBackFails
    <2>1. UNCHANGED <<entity, landing, commands>> /\ step' # "calling"
      BY <1>8 DEF CallFails, Confirm, ReadBackFails,
                  CallAnswered, CallReturnsChanged, CallReturns, ReadBack,
                  ReadBackConfirms, ReadBackDiffers, GivesUp, Ends
    <2> QED  BY <1>2, <2>1
  <1> QED  BY <1>3, <1>4, <1>5, <1>6, <1>7, <1>8 DEF Next

\* The variables of a command keep their types.
LEMMA CommandTypes ==
  ASSUME Inv, TypeInv, [Next]_vars, BoundsOK
  PROVE  CommandOK'
  <1> USE DEF TypeInv, CommandOK, StepNames
  <1>1. /\ entity \in PastReadings /\ {ConfirmAttempts, MaxCommands} \subseteq Nat
        /\ commands \in Nat /\ attempts \in Nat
    BY DEF Inv, CurrentInv, PastReadings, BoundsOK
  <1>2. CASE UNCHANGED <<request, step, reply, latest, attempts, commands, outcome>>
             /\ landing' \subseteq landing
    BY <1>2
  <1>3. ASSUME NEW r \in Requests, Execute(r) PROVE CommandOK'
    BY <1>1, <1>3 DEF Execute
  <1>4. CASE CallReceived
    BY <1>4 DEF CallReceived
  <1>5. CASE CallAnswered \/ CallReturns
    BY <1>1, <1>5 DEF CallAnswered, CallReturns
  <1>6. CASE CallFails
    BY <1>6 DEF CallFails
  <1>7. CASE ReadBack
    BY <1>1, <1>7 DEF ReadBack
  <1>8. CASE ReadBackDiffers
    BY <1>8 DEF ReadBackDiffers
  <1>9. CASE ReadBackFails
    BY <1>9 DEF ReadBackFails
  <1>10. CASE CallReturnsChanged \/ ReadBackConfirms \/ GivesUp
    <2>1. PICK how \in {"APPLIED", "UNKNOWN"} : \E r : Ends(how, r)
      BY <1>10 DEF CallReturnsChanged, ReadBackConfirms, GivesUp
    <2> QED  BY <1>1, <2>1 DEF Ends
  <1>11. CASE Stream \/ StreamFails \/ vars' = vars
    BY <1>2, <1>11 DEF Stream, Restart, SnapshotRead, SnapshotArrives, Subscribed, EventArrives,
                       StreamFails, vars, command
  <1>12. ASSUME NEW e \in Entities, Change(e) PROVE CommandOK'
    BY <1>2, <1>12 DEF Change, command
  <1>13. ASSUME NEW r \in landing, Lands(r) \/ CallIsLost(r) PROVE CommandOK'
    BY <1>2, <1>13 DEF Lands, CallIsLost
  <1> QED  BY <1>3, <1>4, <1>5, <1>6, <1>7, <1>8, <1>9, <1>10, <1>11, <1>12, <1>13
           DEF Next, Confirm

\* And so do those of the stream and the registry.
LEMMA StreamTypes ==
  ASSUME Inv, TypeInv, [Next]_vars, BoundsOK
  PROVE  StreamOK'
  <1> USE DEF TypeInv, StreamOK
  <1>1. entity \in PastReadings /\ troubles \in Nat /\ MaxTroubles \in Nat
    BY DEF Inv, CurrentInv, PastReadings, BoundsOK
  <1>2. troubles' \in 0 .. MaxTroubles
    <2>1. troubles' = troubles \/ Trouble
      BY DEF Next, Change, Lands, CallIsLost, Stream, Restart, SnapshotRead, SnapshotArrives,
             Subscribed, EventArrives, StreamFails, Execute, CallReceived, CallFails, Confirm,
             CallAnswered, CallReturnsChanged, CallReturns,
             ReadBack, ReadBackConfirms, ReadBackDiffers,
             GivesUp, ReadBackFails, Ends, vars
    <2> QED  BY <1>1, <2>1 DEF Trouble
  <1>3. answer' \in {answer, entity, NoReading}
    BY DEF Next, Change, Lands, CallIsLost, Stream, Restart, SnapshotRead, SnapshotArrives,
           Subscribed, EventArrives, StreamFails, Execute, CallReceived, CallFails, Confirm,
           CallAnswered, CallReturnsChanged, CallReturns,
           ReadBack, ReadBackConfirms, ReadBackDiffers,
           GivesUp, ReadBackFails, Ends, vars, stream
  <1>4. since' \subseteq Entities
    <2>1. ASSUME NEW e \in Entities, Becomes(e) PROVE since' \subseteq Entities
      BY <2>1 DEF Becomes
    <2>2. ASSUME NEW r \in Requests, Execute(r) PROVE since' \subseteq Entities
      BY <1>1, <2>2 DEF Execute, PastReadings
    <2> QED
      BY <2>1, <2>2
         DEF Next, Change, Lands, CallIsLost, Stream, Restart, SnapshotRead, SnapshotArrives,
             Subscribed, EventArrives, StreamFails, CallReceived, CallFails, Confirm,
             CallAnswered, CallReturnsChanged, CallReturns,
             ReadBack, ReadBackConfirms, ReadBackDiffers,
             GivesUp, ReadBackFails, Ends, vars
  <1>5. /\ held'.availability \in {"ONLINE", "OFFLINE", "UNKNOWN"}
        /\ excuses' \subseteq {"overtaken", "missed"}
    <2> DEFINE Goal == /\ held'.availability \in {"ONLINE", "OFFLINE", "UNKNOWN"}
                       /\ excuses' \subseteq {"overtaken", "missed"}
    <2>1. ASSUME NEW r, Ingest(r) PROVE Goal
      BY <2>1, IngestType
    <2>2. ASSUME held' = held, excuses' \subseteq excuses \cup {"missed"} PROVE Goal
      BY <2>2
    <2>3. \/ \E r : Ingest(r)
          \/ held' = held /\ excuses' \subseteq excuses \cup {"missed"}
      <3>1. ASSUME NEW e, Becomes(e) PROVE excuses' \subseteq excuses \cup {"missed"}
        BY <3>1 DEF Becomes
      <3>2. ASSUME NEW how, NEW r, Ends(how, r)
            PROVE  Ingest(r) \/ UNCHANGED <<held, excuses>>
        BY <3>2 DEF Ends
      <3> QED
        BY <3>1, <3>2
           DEF Next, Change, Lands, CallIsLost, Stream, Restart, SnapshotRead, SnapshotArrives,
               Subscribed, EventArrives, StreamFails, Execute, CallReceived, CallFails, Confirm,
               CallAnswered, CallReturnsChanged, CallReturns,
               ReadBack, ReadBackConfirms, ReadBackDiffers,
               GivesUp, ReadBackFails, vars
    <2> HIDE DEF Goal
    <2>4. Goal
      BY <2>1, <2>2, <2>3
    <2> QED  BY <2>4 DEF Goal
  <1> QED  BY <1>1, <1>2, <1>3, <1>4, <1>5

\* The first reading is of a known kind, and nothing was called yet.
LEMMA InitTypes ==
  ASSUME Init, BoundsOK
  PROVE  TypeInv
  <1>1. PICK e \in Entities :
           /\ entity = Reading(e, 0)
           /\ held = [state |-> normalise(e, Kind), availability |-> availability(e), version |-> 0]
    BY DEF Init
  <1>2. entity.version = 0 /\ held.availability \in {"ONLINE", "OFFLINE", "UNKNOWN"}
    BY <1>1 DEF Reading, availability
  <1>3. Cardinality(landing) = 0 /\ IsFiniteSet(landing)
    BY FS_EmptySet DEF Init
  <1> QED  BY <1>2, <1>3 DEF Init, BoundsOK, TypeInv, BudgetInv, Due, CommandOK, StreamOK, StepNames

\* Every variable of the adapter and its device stays in its set, with the bound on
\* the versions that the numbers of changes and of execute calls give.
THEOREM TypeCorrect == Spec => []TypeOK
  <1>1. Init => Inv /\ TypeInv
    BY InitInv, InitTypes, BoundsOK
  <1>2. Inv /\ TypeInv /\ [Next]_vars => Inv' /\ TypeInv'
    BY StepInv, BudgetStep, CommandTypes, StreamTypes, BoundsOK DEF TypeInv
  <1>3. Inv /\ TypeInv => TypeOK
    BY TypeParts, BoundsOK
  <1> QED  BY <1>1, <1>2, <1>3, PTL DEF Spec

=============================================================================
