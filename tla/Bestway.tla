------------------------------- MODULE Bestway -------------------------------
(***************************************************************************)
(* The pool: integrations/bestway (BestwayProvider over BestwayClient), the *)
(* controller at the other end of the TCP connection, and the pool's entry *)
(* in the DeviceRegistry.                                                  *)
(*                                                                         *)
(* Two tasks use the one client: the poll loop (subscribe, consumed by     *)
(* run_provider_stream) and the command that holds the pool's lock         *)
(* (execute, and get_state after its timeout).  Both read the status block *)
(* through _read_with_retry.  The command's timeouts cancel it at whatever *)
(* it awaits; the poll is never cancelled.                                 *)
(*                                                                         *)
(* A status block is reduced to the value of the datapoint a command sets. *)
(* Left out: unsolicited frames, blocks that do not fit the layout, and    *)
(* the outcome of a command, which Commands models.  Awaiting the closing  *)
(* of a connection is one suspension, also when there is none to close.    *)
(***************************************************************************)
EXTENDS Integers, Sequences, FiniteSets

CONSTANTS
    Blocks,          \* status blocks
    NoBlock,         \* no status block (None)
    Conns,           \* identities of TCP connections, reused
    NoConn,          \* no connection (None)
    ConfirmAttempts, \* confirm_attempts
    MaxCommands,     \* bound: commands of a behaviour
    MaxTroubles      \* bound: times the controller hangs up, garbles a frame,
                     \* goes away or is operated at its panel

ASSUME ConstantsOK ==
    /\ Blocks # {} /\ NoBlock \notin Blocks /\ NoConn \notin Conns
    /\ IsFiniteSet(Conns) /\ Cardinality(Conns) >= 3
    /\ ConfirmAttempts \in Nat \ {0}
    /\ MaxCommands \in Nat /\ MaxTroubles \in Nat

Tasks == {"poll", "command"}
Other(t) == IF t = "poll" THEN "command" ELSE "poll"

VARIABLES
    block,     \* the controller's status block
    up,        \* the controller answers
    troubles,  \* number of hang-ups, outages, panel operations, bad frames
    chan,      \* the connections: [open, logged, cut, asks, answers], where
               \* cut is history: an exchange on it was cancelled
    conn,      \* BestwayClient._writer and _stream_reader
    holder,    \* BestwayClient._lock: the task that has it or gets it next
    pc,        \* where each task is in _read_with_retry
    tries,     \* the attempts it has begun
    via,       \* the connection a task in an exchange reads from
    since,     \* history: the blocks of the controller since a task asked
    phase,     \* where the command is
    want,      \* the block the command asks for
    confirms,  \* attempts of _confirm so far
    latest,    \* _confirm: the block read last
    commands,  \* number of commands so far
    previous,  \* subscribe: the payload yielded last
    reached,   \* BestwayProvider._availability is not OFFLINE
    held,      \* DeviceRegistry: the state of the pool
    online     \* DeviceRegistry: the pool is not OFFLINE

controller == <<block, up, troubles>>
client == <<chan, conn, holder, pc, tries, via, since>>
command == <<phase, want, confirms, latest, commands>>
registry == <<held, online>>
vars == <<controller, client, command, previous, reached, registry>>

\* The exchanges of a connection, in the order they have to happen.
Connecting == {"passcode", "login"}
Kinds == Connecting \cup {"status"}
Waiting == {"awaits passcode", "awaits login", "awaits status"}
Awaits(k) == CASE k = "passcode" -> "awaits passcode"
               [] k = "login" -> "awaits login"
               [] k = "status" -> "awaits status"

Message(k, b) == [kind |-> k, block |-> b]
Fresh == [open |-> TRUE, logged |-> FALSE, cut |-> FALSE, asks |-> <<>>, answers |-> <<>>]
Gone == [Fresh EXCEPT !.open = FALSE]

\* After bootstrap, which read the block over its first connection.  Which
\* block and which connection these are makes no difference.
Init ==
    /\ block = (CHOOSE b \in Blocks : TRUE) /\ up = TRUE /\ troubles = 0
    /\ conn = CHOOSE c \in Conns : TRUE
    /\ chan = [c \in Conns |-> IF c = conn THEN [Fresh EXCEPT !.logged = TRUE] ELSE Gone]
    /\ holder = "nobody"
    /\ pc = [t \in Tasks |-> "off"]
    /\ tries = [t \in Tasks |-> 0]
    /\ via = [t \in Tasks |-> NoConn]
    /\ since = [t \in Tasks |-> {}]
    /\ phase = "idle" /\ want = NoBlock /\ confirms = 0 /\ latest = NoBlock
    /\ commands = 0
    /\ previous = NoBlock /\ reached = TRUE
    /\ held = block /\ online = TRUE

-----------------------------------------------------------------------------
(* The controller, and what happens to it.                                 *)

\* The block becomes b, for the tasks that are waiting for it too.
BlockBecomes(b) ==
    /\ block' = b
    /\ since' = [t \in Tasks |-> IF pc[t] = "status" THEN since[t] \cup {b} ELSE since[t]]

\* It takes the next frame of a connection, and answers unless nobody is
\* logged in or left.  It may ignore a control request, which has no answer.
Controller(c) ==
    LET s == chan[c]
        m == Head(s.asks)
        answered == s.open /\ m.kind # "control" /\ (m.kind = "status" => s.logged)
    IN  /\ up /\ s.asks # <<>>
        /\ \E b \in IF m.kind = "control" THEN {block, m.block} ELSE {block} : BlockBecomes(b)
        /\ chan' = [chan EXCEPT
              ![c].asks = Tail(@),
              ![c].logged = @ \/ (m.kind = "login" /\ s.open),
              ![c].answers = IF answered THEN Append(@, Message(m.kind, block)) ELSE @]
        /\ UNCHANGED <<up, troubles, conn, holder, pc, tries, via, command,
                       previous, reached, registry>>

Trouble == troubles < MaxTroubles /\ troubles' = troubles + 1

\* "Controllers in the field close the connection after an exchange."
HangUp(c) ==
    /\ Trouble
    /\ chan[c].open
    /\ chan' = [chan EXCEPT ![c].open = FALSE, ![c].asks = <<>>]
    /\ UNCHANGED <<block, up, conn, holder, pc, tries, via, since, command,
                   previous, reached, registry>>

\* It loses its power or its network, and what was under way is lost.
Outage ==
    /\ Trouble
    /\ up /\ up' = FALSE
    /\ chan' = [c \in Conns |-> [chan[c] EXCEPT !.open = FALSE, !.asks = <<>>]]
    /\ UNCHANGED <<block, conn, holder, pc, tries, via, since, command,
                   previous, reached, registry>>

Recover ==
    /\ ~up /\ up' = TRUE
    /\ UNCHANGED <<block, troubles, client, command, previous, reached, registry>>

Panel ==
    /\ Trouble
    /\ up
    /\ \E b \in Blocks \ {block} : BlockBecomes(b)
    /\ UNCHANGED <<up, chan, conn, holder, pc, tries, via, command, previous,
                   reached, registry>>

-----------------------------------------------------------------------------
(* BestwayClient: the lock, the connection and the exchange.               *)

\* The lock when t gives it up: the other task is next if it waits for it.
Left(t) ==
    IF holder # t THEN holder
    ELSE IF pc[Other(t)] \in Waiting THEN Other(t) ELSE "nobody"

\* How much of what was written to a connection makes a difference once the
\* client has closed it: as far as the last control request.
Mattering(sent) ==
    CHOOSE n \in 0..Len(sent) :
        /\ n > 0 => sent[n].kind = "control"
        /\ \A i \in DOMAIN sent : sent[i].kind = "control" => i <= n

\* The client closes a connection.  What it has written still arrives.
Shut(c, ch) ==
    IF c = NoConn THEN ch
    ELSE [ch EXCEPT ![c] = [Gone EXCEPT !.asks = SubSeq(ch[c].asks, 1, Mattering(ch[c].asks))]]

Written(c, ch, m) ==
    IF ch[c].open THEN [ch EXCEPT ![c].asks = Append(@, m)] ELSE ch

\* _exchange inside the lock: the request is written to the connection, from
\* which the answer will be read.
Send(t, kind, link, ch) ==
    /\ chan' = Written(link, ch, Message(kind, NoBlock))
    /\ conn' = link
    /\ holder' = t
    /\ pc' = [pc EXCEPT ![t] = kind]
    /\ via' = [via EXCEPT ![t] = link]
    /\ since' = [since EXCEPT ![t] = IF kind = "status" THEN {block} ELSE {}]

\* Slip: the exchange without the lock.
AskAtOnce(t, kind, link, ch) == Send(t, kind, link, ch)

\* _exchange from its beginning, by a task that may hold the lock of the
\* exchange before: the other task goes first if it has the lock or waits.
Ask(t, kind, link, ch) ==
    IF holder = Other(t) \/ pc[Other(t)] \in Waiting
    THEN /\ chan' = ch /\ conn' = link
         /\ holder' = Other(t)
         /\ pc' = [pc EXCEPT ![t] = Awaits(kind)]
         /\ via' = [via EXCEPT ![t] = NoConn]
         /\ since' = [since EXCEPT ![t] = {}]
    ELSE Send(t, kind, link, ch)

Retry(n) == IF n < 2 THEN "attempt" ELSE "failed"

\* Slip: the connection that failed is kept.
FailKept(t, kind, n) ==
    /\ UNCHANGED <<chan, conn>>
    /\ holder' = Left(t)
    /\ pc' = [pc EXCEPT ![t] = IF kind \in Connecting THEN "reclose" ELSE Retry(n)]
    /\ tries' = [tries EXCEPT ![t] = n]
    /\ via' = [via EXCEPT ![t] = NoConn]
    /\ since' = [since EXCEPT ![t] = {}]

\* An attempt fails: the client's connection is closed, whichever it is now.
\* What fails inside connect is closed there and in _read_with_retry again.
Fail(t, kind, n) ==
    /\ chan' = Shut(conn, chan) /\ conn' = NoConn
    /\ holder' = Left(t)
    /\ pc' = [pc EXCEPT ![t] = IF kind \in Connecting THEN "reclose" ELSE Retry(n)]
    /\ tries' = [tries EXCEPT ![t] = n]
    /\ via' = [via EXCEPT ![t] = NoConn]
    /\ since' = [since EXCEPT ![t] = {}]

others == <<controller, command, previous, reached, registry>>

\* is_connected, then connect or read_status.  A connection that the peer has
\* ended counts as connected unless the transport was told (a reset).
Attempt(t) ==
    /\ pc[t] = "attempt"
    /\ tries' = [tries EXCEPT ![t] = @ + 1]
    /\ \/ /\ conn # NoConn
          /\ Ask(t, "status", conn, chan)
       \/ /\ conn # NoConn => ~chan[conn].open
          /\ chan' = Shut(conn, chan) /\ conn' = NoConn
          /\ pc' = [pc EXCEPT ![t] = "opening"]
          /\ UNCHANGED <<holder, via, since>>
    /\ UNCHANGED others

\* A connection of another task that this one replaces is closed with its
\* StreamWriter.
OpenSucceeds(t) ==
    LET free == {c \in Conns \ {conn} : /\ ~chan[c].open /\ chan[c].asks = <<>>
                                         /\ \A u \in Tasks : via[u] # c}
        c == CHOOSE x \in free : TRUE
    IN  /\ pc[t] = "opening"
        /\ up /\ free # {}
        /\ Ask(t, "passcode", c, [Shut(conn, chan) EXCEPT ![c] = Fresh])
        /\ UNCHANGED <<tries, others>>

OpenFails(t) ==
    /\ pc[t] = "opening"
    /\ ~up
    /\ Fail(t, "status", tries[t])
    /\ UNCHANGED others

\* The lock is there; meanwhile the other task may have closed the connection.
Granted(t) ==
    /\ holder = t
    /\ \E kind \in Kinds :
          /\ pc[t] = Awaits(kind)
          /\ \/ conn # NoConn /\ Send(t, kind, conn, chan) /\ UNCHANGED tries
             \/ conn = NoConn /\ Fail(t, kind, tries[t])
    /\ UNCHANGED others

\* An answer of this kind will come on the connection, or frames are there.
Coming(t) ==
    LET s == chan[via[t]]
    IN  \/ s.answers # <<>>
        \/ /\ s.open
           /\ \E i \in DOMAIN s.asks :
                 /\ s.asks[i].kind = pc[t]
                 /\ pc[t] = "status" =>
                       s.logged \/ \E j \in 1..(i - 1) : s.asks[j].kind = "login"

\* End of file, a broken connection, or no answer within request_timeout.
ExchangeFails(t) ==
    /\ pc[t] \in Kinds
    /\ ~Coming(t)
    /\ Fail(t, pc[t], tries[t])
    /\ UNCHANGED others

\* ControllerMisbehaved is not tried again.
MalformedFrame(t) ==
    /\ pc[t] \in Kinds
    /\ chan[via[t]].open
    /\ Trouble
    /\ Fail(t, pc[t], 2)
    /\ UNCHANGED <<block, up, command, previous, reached, registry>>

CloseAgain(t) ==
    /\ pc[t] = "reclose"
    /\ chan' = Shut(conn, chan) /\ conn' = NoConn
    /\ pc' = [pc EXCEPT ![t] = Retry(tries[t])]
    /\ UNCHANGED <<holder, tries, via, since, others>>

\* The next frame for t, and the connections once it has been taken.
Arrived(t) == Head(chan[via[t]].answers)
Taken(t) == [chan EXCEPT ![via[t]].answers = Tail(@)]
Arrives(t, kind) ==
    /\ pc[t] = kind
    /\ chan[via[t]].answers # <<>>
    /\ Arrived(t).kind = kind

\* A frame that is not the one wanted is dropped.
Skip(t) ==
    /\ pc[t] \in Kinds
    /\ chan[via[t]].answers # <<>> /\ Arrived(t).kind # pc[t]
    /\ chan' = Taken(t)
    /\ UNCHANGED <<conn, holder, pc, tries, via, since, others>>

\* connect goes on to the login, and _read_with_retry to read_status.
Connect(t) ==
    /\ \/ Arrives(t, "passcode") /\ Ask(t, "login", conn, Taken(t))
       \/ Arrives(t, "login") /\ Ask(t, "status", conn, Taken(t))
    /\ UNCHANGED <<tries, others>>

\* read_status returns: t leaves the exchange and goes on at place.
Returned(t, ch, place) ==
    /\ chan' = ch
    /\ holder' = Left(t)
    /\ pc' = [pc EXCEPT ![t] = place]
    /\ tries' = [tries EXCEPT ![t] = 0]
    /\ via' = [via EXCEPT ![t] = NoConn]
    /\ since' = [since EXCEPT ![t] = {}]
    /\ UNCHANGED conn

\* t is about to read, or done with it, outside any exchange.
Goes(t, place) ==
    /\ pc' = [pc EXCEPT ![t] = place]
    /\ tries' = [tries EXCEPT ![t] = 0]
    /\ UNCHANGED <<chan, conn, holder, via, since>>

-----------------------------------------------------------------------------
(* subscribe, and ingest of what it yields.                                *)

Poll ==
    /\ pc["poll"] = "off"
    /\ Goes("poll", "attempt")
    /\ UNCHANGED others

PollReads ==
    /\ Arrives("poll", "status")
    /\ Returned("poll", Taken("poll"), "off")
    /\ reached' = TRUE
    /\ LET payload == Arrived("poll").block
       IN  IF payload # previous
           THEN previous' = payload /\ held' = payload /\ online' = TRUE
           ELSE UNCHANGED <<previous, registry>>
    /\ UNCHANGED <<controller, command>>

PollFails ==
    /\ pc["poll"] = "failed"
    /\ Goes("poll", "off")
    /\ reached' = FALSE
    /\ online' = (online /\ ~reached)
    /\ UNCHANGED <<controller, command, previous, held>>

-----------------------------------------------------------------------------
(* execute and get_state, called by the command pipeline.                  *)

\* The pipeline refuses commands for a device that is OFFLINE.
Execute(w) ==
    /\ phase = "idle" /\ online /\ commands < MaxCommands
    /\ phase' = "base" /\ want' = w /\ confirms' = 0 /\ latest' = NoBlock
    /\ commands' = commands + 1
    /\ Goes("command", "attempt")
    /\ UNCHANGED <<controller, previous, reached, registry>>

CommandEnds ==
    /\ phase' = "idle" /\ want' = NoBlock /\ confirms' = 0 /\ latest' = NoBlock
    /\ UNCHANGED commands

\* The base was read: send_control, outside the lock, and the first read-back.
SendControl ==
    /\ phase = "base"
    /\ Arrives("command", "status")
    /\ Returned("command", Written(conn, Taken("command"), Message("control", want)), "attempt")
    /\ phase' = "confirm" /\ confirms' = 1
    /\ reached' = TRUE
    /\ UNCHANGED <<controller, want, latest, commands, previous, registry>>

\* Slip: one attempt more.
MayConfirmOnce == confirms <= ConfirmAttempts

MayConfirm == confirms < ConfirmAttempts

Pause(b) ==
    /\ MayConfirm
    /\ phase' = "pause" /\ latest' = b
    /\ UNCHANGED <<want, confirms, commands>>

\* A read-back that does not show the change yet.
ConfirmsLater ==
    /\ phase = "confirm"
    /\ Arrives("command", "status") /\ Arrived("command").block # want
    /\ Returned("command", Taken("command"), "off")
    /\ Pause(Arrived("command").block)
    /\ reached' = TRUE
    /\ UNCHANGED <<controller, previous, registry>>

Resume ==
    /\ phase = "pause"
    /\ phase' = "confirm" /\ confirms' = confirms + 1
    /\ Goes("command", "attempt")
    /\ UNCHANGED <<controller, want, latest, commands, previous, reached, registry>>

\* The read-back that decides, or the answer of get_state, is ingested.
CommandReads ==
    /\ Arrives("command", "status")
    /\ \/ phase = "reconcile"
       \/ phase = "confirm" /\ (Arrived("command").block = want \/ ~MayConfirm)
    /\ Returned("command", Taken("command"), "off")
    /\ CommandEnds
    /\ reached' = TRUE
    /\ held' = Arrived("command").block /\ online' = TRUE
    /\ UNCHANGED <<controller, previous>>

\* A read that failed: of the base (FAILED), of a read-back that is repeated
\* or the last one (UNKNOWN, with the latest block if there is one), or of
\* get_state (UNKNOWN).
CommandFails ==
    /\ pc["command"] = "failed"
    /\ Goes("command", "off")
    /\ \/ phase \in {"base", "reconcile"} /\ CommandEnds /\ UNCHANGED registry
       \/ phase = "confirm" /\ Pause(latest) /\ UNCHANGED registry
       \/ /\ phase = "confirm" /\ ~MayConfirm
          /\ CommandEnds
          /\ IF latest = NoBlock THEN UNCHANGED registry
                                 ELSE held' = latest /\ online' = TRUE
    /\ UNCHANGED <<controller, previous, reached>>

\* Slip: the lock is only given up by an exchange that ends by itself.
CutOffKeepingLock(place) ==
    /\ pc' = [pc EXCEPT !["command"] = place]
    /\ tries' = [tries EXCEPT !["command"] = 0]
    /\ chan' = IF via["command"] = NoConn THEN chan
               ELSE [chan EXCEPT ![via["command"]].cut = TRUE]
    /\ via' = [via EXCEPT !["command"] = NoConn]
    /\ since' = [since EXCEPT !["command"] = {}]
    /\ UNCHANGED <<conn, holder>>

\* The command's task is cancelled where it is: the lock is released, and the
\* connection stays as it is, also when it is not logged in yet or an answer
\* is under way on it.
CutOff(place) ==
    /\ pc' = [pc EXCEPT !["command"] = place]
    /\ tries' = [tries EXCEPT !["command"] = 0]
    /\ chan' = IF via["command"] = NoConn THEN chan
               ELSE [chan EXCEPT ![via["command"]].cut = TRUE]
    /\ via' = [via EXCEPT !["command"] = NoConn]
    /\ since' = [since EXCEPT !["command"] = {}]
    /\ holder' = Left("command")
    /\ UNCHANGED conn

\* command_timeout: execute is cancelled, and get_state is called.
ExecuteTimesOut ==
    /\ phase \in {"base", "confirm", "pause"}
    /\ CutOff("attempt")
    /\ phase' = "reconcile"
    /\ UNCHANGED <<controller, want, confirms, latest, commands, previous, reached, registry>>

\* reconcile_timeout: the outcome is UNKNOWN.
ReconcileTimesOut ==
    /\ phase = "reconcile"
    /\ CutOff("off")
    /\ CommandEnds
    /\ UNCHANGED <<controller, previous, reached, registry>>

-----------------------------------------------------------------------------
Read(t) ==
    \/ Attempt(t) \/ OpenSucceeds(t) \/ OpenFails(t) \/ Granted(t)
    \/ ExchangeFails(t) \/ CloseAgain(t) \/ Skip(t) \/ Connect(t)

Polling == Poll \/ PollReads \/ PollFails
Commanding ==
    \/ SendControl \/ ConfirmsLater \/ Resume \/ CommandReads \/ CommandFails
Environment ==
    \/ \E c \in Conns : HangUp(c)
    \/ Outage \/ Recover \/ Panel
    \/ \E t \in Tasks : MalformedFrame(t)

Next ==
    \/ \E c \in Conns : Controller(c)
    \/ \E t \in Tasks : Read(t)
    \/ Polling \/ Commanding
    \/ \E w \in Blocks : Execute(w)
    \/ ExecuteTimesOut \/ ReconcileTimesOut
    \/ Environment

Spec == Init /\ [][Next]_vars

\* The event loop runs both tasks, and a controller that is up answers before
\* request_timeout.  Nothing bad has to happen, and no command has to come.
FairSpec ==
    /\ Spec
    /\ WF_vars(\E c \in Conns : Controller(c))
    /\ \A t \in Tasks : WF_vars(Read(t))
    /\ WF_vars(Polling) /\ WF_vars(Commanding)

-----------------------------------------------------------------------------
\* The type invariant; read-backs stay within confirm_attempts, and only the
\* task that holds the lock is in an exchange.
TypeOK ==
    /\ block \in Blocks /\ up \in BOOLEAN /\ troubles \in 0..MaxTroubles
    /\ \A c \in Conns :
          /\ DOMAIN chan[c] = DOMAIN Fresh
          /\ chan[c].open \in BOOLEAN /\ chan[c].logged \in BOOLEAN /\ chan[c].cut \in BOOLEAN
          /\ \A i \in DOMAIN chan[c].asks :
                chan[c].asks[i] \in {Message(k, NoBlock) : k \in Kinds}
                                    \cup {Message("control", b) : b \in Blocks}
          /\ \A i \in DOMAIN chan[c].answers :
                chan[c].answers[i] \in [kind : Kinds, block : Blocks]
    /\ conn \in Conns \cup {NoConn}
    /\ holder \in Tasks \cup {"nobody"}
    /\ \A t \in Tasks : pc[t] \in Kinds => holder = t /\ via[t] \in Conns
    /\ \A t \in Tasks : pc[t] \in Kinds \cup Waiting \cup
                          {"off", "attempt", "opening", "reclose", "failed"}
    /\ tries \in [Tasks -> 0..2]
    /\ since \in [Tasks -> SUBSET Blocks]
    /\ phase \in {"idle", "base", "confirm", "pause", "reconcile"}
    /\ want \in Blocks \cup {NoBlock} /\ latest \in Blocks \cup {NoBlock}
    /\ confirms \in 0..ConfirmAttempts /\ commands \in 0..MaxCommands
    /\ previous \in Blocks \cup {NoBlock} /\ reached \in BOOLEAN
    /\ held \in Blocks /\ online \in BOOLEAN

\* The answer a task is about to take from a connection shows a block the
\* controller had after the task asked, except on a connection on which an
\* exchange was cancelled (client.py:166-186, the lock around the exchange).
FreshUnlessCut ==
    \A t \in Tasks : Arrives(t, "status") =>
        Arrived(t).block \in since[t] \/ chan[via[t]].cut

\* No read waits for ever, for the lock or for an answer, whatever the other
\* task does to the connection (provider.py:300-321).
EveryReadEnds == \A t \in Tasks : []<>(pc[t] = "off")

\* The poll reads the block of a controller that is up again and again: no
\* failure leaves the client with a connection that it goes on to use in vain
\* (provider.py:159-180, 300-321).
PollCatchesUp == []<>(up => previous = block)

\* "it doubles as the liveness check" (provider.py:163-164): the registry comes
\* to show a controller that is up, online and with its block.  A block that is
\* the same as before the OFFLINE report yields no event.
RegistryCatchesUp == []<>(up => online /\ held = block)
=============================================================================
