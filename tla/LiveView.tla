------------------------------ MODULE LiveView ------------------------------
(***************************************************************************)
(* The web client, apps/web/js: the live connection (live.js) and what the *)
(* page makes of it (app.js), for one device and one control of its card.  *)
(*                                                                         *)
(* The device's state in the gateway is the number of its changes.  The    *)
(* client learns of it in two ways that are not ordered with each other:   *)
(* frames of the WebSocket, and answers to the snapshot requests it makes  *)
(* whenever a socket opens or the gateway says ResyncRequired.  What a     *)
(* press of the control asks for is the number of the press.               *)
(*                                                                         *)
(* Left out: the schedules panel, the activity list, texts, the link       *)
(* indicator and the length of the backoff.  The gateway's end of a socket *)
(* is a summary of api/v1/ws.py, which EventStream models.                 *)
(***************************************************************************)
EXTENDS Naturals, Sequences

CONSTANTS
    Nothing,      \* null, in whatever place
    ResyncRequired, \* the frame that stands for lost events
    Sockets,      \* identities of WebSocket objects, reused
    MaxSessions,  \* bound: sign-ins
    MaxChanges,   \* bound: changes of the device
    MaxBurst,     \* bound: events of a change
    MaxTroubles,  \* bound: failed requests, lost sockets, wake-ups, drags, sign-outs
    MaxPresses,   \* bound: operations of the control
    MaxDials,     \* bound: #connect calls awaiting their ticket
    MaxFetches,   \* bound: snapshot requests at a time
    QueueSize,    \* events the gateway keeps for a socket
    WireSize      \* frames under way on a socket

ASSUME ConstantsOK ==
    /\ Nothing \notin Nat \cup BOOLEAN /\ ResyncRequired \notin Nat
    /\ {MaxSessions, MaxChanges, MaxBurst, MaxTroubles, MaxPresses, MaxDials, MaxFetches,
     QueueSize, WireSize} \subseteq Nat \ {0}

Versions == 0 .. MaxChanges
Sessions == 1 .. MaxSessions
Fetches == 1 .. MaxFetches

VARIABLES
    real,      \* the device's state in the gateway
    troubles,  \* number of troubles so far
    session,   \* "out", "starting" (awaiting the first snapshot) or "in"
    sid,       \* number of the session; names its LiveConnection
    dialing,   \* of each LiveConnection: its #connect calls awaiting a ticket
    retry,     \* #retryTimer is set, in the current LiveConnection
    sock,      \* the WebSocket objects and the gateway's end of each
    current,   \* #socket of the current LiveConnection
    fetch,     \* refreshDevices calls: who asked, and the answer under way
    view,      \* state.devices
    shown,     \* the state the card was rendered from
    worn,      \* the card was rendered with a desired value of the control
    untold,    \* history: it was left like that by a failed refresh after a command
    held,      \* state.held
    desired,   \* state.desired of the control
    busy,      \* state.busy has the control
    queued,    \* state.queued of the control
    flights,   \* execute calls awaiting submitCommand: what each asked for
    presses,   \* number of presses so far
    lastSent,  \* history: the press submitted last; a new session owes none
    crossed,   \* history: a session began with a command of another under way
    excuses    \* history: why the card may differ from the device

card == <<view, shown, worn, untold>>
page == <<card, held, excuses>>
control == <<desired, busy, queued, flights, presses, lastSent>>
link == <<dialing, retry, sock, current>>
vars == <<real, troubles, session, sid, link, fetch, page, control, crossed>>

NoFetch == [by |-> "nobody", answer |-> Nothing]
NoSocket == [owner |-> 0, phase |-> "none", subscribed |-> FALSE,
             pending |-> 0, lagged |-> FALSE, wire |-> <<>>]
Frames == Versions \cup {ResyncRequired}

TypeOK ==
    /\ real \in Versions /\ troubles \in 0 .. MaxTroubles
    /\ session \in {"out", "starting", "in"} /\ sid \in 0 .. MaxSessions
    /\ dialing \in [Sessions -> 0 .. MaxDials] /\ retry \in BOOLEAN
    /\ current \in Sockets \cup {Nothing}
    /\ sock \in [Sockets -> [owner : 0 .. MaxSessions,
                            phase : {"none", "dialed", "accepted", "open"}, subscribed : BOOLEAN,
                            pending : 0 .. QueueSize, lagged : BOOLEAN, wire : Seq(Frames)]]
    /\ \A s \in Sockets : Len(sock[s].wire) <= WireSize + 1
    /\ fetch \in [Fetches -> [by : {"nobody", "session", "page", "command"}, answer : Versions \cup {Nothing}]]
    /\ view \in Versions \cup {Nothing} /\ shown \in Versions \cup {Nothing}
    /\ {worn, untold, held, busy, crossed} \subseteq BOOLEAN
    /\ presses \in 0 .. MaxPresses /\ lastSent \in 0 .. presses
    /\ {desired, queued} \subseteq (1 .. presses) \cup {Nothing}
    /\ flights \subseteq 1 .. presses
    /\ excuses \subseteq {"overtaken", "gap", "held", "failed"}

Init ==
    /\ real = 0 /\ troubles = 0
    /\ session = "out" /\ sid = 0
    /\ dialing = [n \in Sessions |-> 0] /\ retry = FALSE
    /\ sock = [s \in Sockets |-> NoSocket] /\ current = Nothing
    /\ fetch = [f \in Fetches |-> NoFetch]
    /\ view = Nothing /\ shown = Nothing /\ worn = FALSE /\ untold = FALSE
    /\ held = FALSE /\ excuses = {}
    /\ desired = Nothing /\ busy = FALSE /\ queued = Nothing /\ flights = {}
    /\ presses = 0 /\ lastSent = 0
    /\ crossed = FALSE

Trouble == troubles < MaxTroubles /\ troubles' = troubles + 1

\* #stopped of the LiveConnection of session n.
Stopped(n) == n # sid \/ session # "in"

-----------------------------------------------------------------------------
(* The page.                                                               *)

\* patchDevice, with a desired value on the control or without.
Patch(force, pending) ==
    IF held /\ ~force THEN UNCHANGED <<shown, worn, untold>>
    ELSE shown' = view' /\ worn' = pending /\ untold' = FALSE

\* The card still has the desired value of a command that was answered.
Stale == worn /\ desired = Nothing

\* The device's state on the page becomes v, with whatever excuse that takes.
Receive(v, force) ==
    /\ view' = v /\ Patch(force, desired # Nothing)
    /\ LET stale == worn' /\ desired = Nothing
       IN  excuses' = IF {view', shown'} = {real} /\ ~stale THEN {}
                      ELSE excuses \cup (IF view # Nothing /\ v < view THEN {"overtaken"} ELSE {})
                                   \cup (IF shown' # v \/ stale THEN {"held"} ELSE {})
    /\ UNCHANGED held

\* refreshDevices up to its await; without a session there is no api to ask.
Ask(by) ==
    IF session = "out" THEN UNCHANGED fetch
    ELSE \E f \in Fetches :
            /\ fetch[f] = NoFetch
            /\ \A g \in 1 .. f - 1 : fetch[g] # NoFetch
            /\ fetch' = [fetch EXCEPT ![f].by = by]

\* The gateway answers a snapshot request with the state it has.
Snapshot(f) ==
    /\ fetch[f].by # "nobody" /\ fetch[f].answer = Nothing
    /\ fetch' = [fetch EXCEPT ![f].answer = real]
    /\ UNCHANGED <<real, troubles, session, sid, link, page, control, crossed>>

\* The rest of refreshDevices, which renders everything when a device appears;
\* the first one of a session goes on with start.
FetchReturns(f) ==
    /\ fetch[f].answer # Nothing
    /\ Receive(fetch[f].answer, view = Nothing)
    /\ fetch' = [fetch EXCEPT ![f] = NoFetch]
    /\ IF fetch[f].by = "session"
       THEN session' = "in" /\ dialing' = [dialing EXCEPT ![sid] = @ + 1]
       ELSE UNCHANGED <<session, dialing>>
    /\ UNCHANGED <<real, troubles, sid, retry, sock, current, control, crossed>>

\* A snapshot request fails: a toast, or back to the sign-in form.  After a
\* command nobody catches it (app.js:156), and the user is told nothing.
FetchFails(f) ==
    /\ Trouble
    /\ fetch[f].by # "nobody"
    /\ fetch' = [fetch EXCEPT ![f] = NoFetch]
    /\ session' = IF fetch[f].by = "session" THEN "out" ELSE session
    /\ untold' = (untold \/ (fetch[f].by = "command" /\ Stale))
    /\ excuses' = excuses \cup
          (IF session = "in" /\ fetch[f].by = "page" THEN {"failed"} ELSE {})
    /\ UNCHANGED <<real, sid, link, view, shown, worn, held, control, crossed>>

-----------------------------------------------------------------------------
(* Signing in and out.                                                     *)

\* startSession up to its snapshot.
StartSession ==
    /\ session = "out" /\ sid < MaxSessions
    /\ session' = "starting" /\ sid' = sid + 1
    /\ \E f \in Fetches : fetch[f] = NoFetch /\ fetch' = [fetch EXCEPT ![f].by = "session"]
    /\ retry' = FALSE /\ current' = Nothing
    /\ lastSent' = presses
    /\ crossed' = (crossed \/ flights # {})
    /\ UNCHANGED <<real, troubles, dialing, sock, page, desired, busy, queued, flights, presses>>

\* LiveConnection.stop and the clearing of the page.  The timers of state.held
\* and the calls that await something are left as they are.
Cleared ==
    /\ session' = "out"
    /\ retry' = FALSE
    /\ sock' = [s \in Sockets |-> IF s = current THEN NoSocket ELSE sock[s]]
    /\ current' = Nothing
    /\ view' = Nothing /\ shown' = Nothing /\ worn' = FALSE /\ untold' = FALSE /\ excuses' = {}
    /\ desired' = Nothing /\ busy' = FALSE /\ queued' = Nothing
    /\ UNCHANGED <<real, sid, dialing, fetch, held, presses, lastSent, crossed>>

\* The button, or the answer to any request but the control's own.
SignOut == Trouble /\ session = "in" /\ Cleared /\ UNCHANGED flights

-----------------------------------------------------------------------------
(* The live connection.                                                    *)

\* Another call of #connect, up to its await.
Dials == dialing[sid] < MaxDials /\ dialing' = [dialing EXCEPT ![sid] = @ + 1]

FreeSockets == {s \in Sockets : sock[s].phase = "none"}

\* Slip: #stopped is not looked at again after the await.
SlipTicketArrives(n) ==
    /\ dialing[n] > 0 /\ FreeSockets # {}
    /\ dialing' = [dialing EXCEPT ![n] = @ - 1]
    /\ LET s == CHOOSE s \in FreeSockets : TRUE IN
       /\ sock' = [sock EXCEPT ![s] = [NoSocket EXCEPT !.owner = n, !.phase = "dialed"]]
       /\ current' = s
    /\ UNCHANGED <<real, troubles, session, sid, retry, fetch, page, control, crossed>>

\* The rest of #connect: it looks at #stopped again and makes a WebSocket, also
\* when there is one already.
TicketArrives(n) ==
    /\ dialing[n] > 0
    /\ dialing' = [dialing EXCEPT ![n] = @ - 1]
    /\ IF Stopped(n) THEN UNCHANGED <<sock, current>>
       ELSE /\ FreeSockets # {}
            /\ LET s == CHOOSE s \in FreeSockets : TRUE IN
               /\ sock' = [sock EXCEPT ![s] = [NoSocket EXCEPT !.owner = n, !.phase = "dialed"]]
               /\ current' = s
    /\ UNCHANGED <<real, troubles, session, sid, retry, fetch, page, control, crossed>>

\* #scheduleRetry
ScheduleRetry(n) == retry' = (retry \/ ~Stopped(n))

TicketFails(n) ==
    /\ Trouble
    /\ dialing[n] > 0
    /\ dialing' = [dialing EXCEPT ![n] = @ - 1]
    /\ ScheduleRetry(n)
    /\ UNCHANGED <<real, session, sid, sock, current, fetch, page, control, crossed>>

RetryFires ==
    /\ retry /\ retry' = FALSE
    /\ Dials
    /\ UNCHANGED <<real, troubles, session, sid, sock, current, fetch, page, control, crossed>>

\* wake: the page comes to the foreground, or the network is back.
Wake ==
    /\ Trouble
    /\ session = "in"
    /\ IF current # Nothing /\ sock[current].phase = "open"
       THEN Ask("page") /\ UNCHANGED <<dialing, retry>>
       ELSE Dials /\ retry' = FALSE /\ UNCHANGED fetch
    /\ UNCHANGED <<real, session, sid, sock, current, page, control, crossed>>

\* The gateway accepts the handshake; it subscribes after its Hello.
Accept(s) ==
    /\ sock[s].phase = "dialed"
    /\ sock' = [sock EXCEPT ![s].phase = "accepted"]
    /\ UNCHANGED <<real, troubles, session, sid, dialing, retry, current, fetch, page,
                   control, crossed>>

Subscribe(s) ==
    /\ sock[s].phase \in {"accepted", "open"} /\ ~sock[s].subscribed
    /\ sock' = [sock EXCEPT ![s].subscribed = TRUE]
    /\ UNCHANGED <<real, troubles, session, sid, dialing, retry, current, fetch, page,
                   control, crossed>>

\* Slip: the snapshot is only fetched at the sign-in.
SlipOpens(s) ==
    /\ sock[s].phase = "accepted"
    /\ sock' = [sock EXCEPT ![s].phase = "open"]
    /\ UNCHANGED <<real, troubles, session, sid, dialing, retry, current, fetch, page,
                   control, crossed>>

\* onopen
Opens(s) ==
    /\ sock[s].phase = "accepted"
    /\ sock' = [sock EXCEPT ![s].phase = "open"]
    /\ Ask("page")
    /\ UNCHANGED <<real, troubles, session, sid, dialing, retry, current, page, control, crossed>>

\* Slip: onclose does not schedule a retry.
SlipCloses(s) ==
    /\ Trouble
    /\ sock[s].phase # "none"
    /\ sock' = [sock EXCEPT ![s] = NoSocket]
    /\ current' = IF Stopped(sock[s].owner) THEN current ELSE Nothing
    /\ UNCHANGED <<real, session, sid, dialing, retry, fetch, page, control, crossed>>

\* onclose: for whatever reason, also a refused handshake.
Closes(s) ==
    /\ Trouble
    /\ sock[s].phase # "none"
    /\ sock' = [sock EXCEPT ![s] = NoSocket]
    /\ current' = IF Stopped(sock[s].owner) THEN current ELSE Nothing
    /\ ScheduleRetry(sock[s].owner)
    /\ UNCHANGED <<real, session, sid, dialing, fetch, page, control, crossed>>

\* Slip: the queue of a subscription has no bound.
SlipOffered(k, n) == IF k.subscribed THEN [k EXCEPT !.pending = @ + n] ELSE k

\* A socket's subscription is offered n events.
Offered(k, n) ==
    IF ~k.subscribed THEN k
    ELSE [k EXCEPT !.pending = IF @ + n > QueueSize THEN QueueSize ELSE @ + n,
                   !.lagged = @ \/ k.pending + n > QueueSize]

\* The device changes, and a burst of events about it goes to each subscription.
Change ==
    /\ real < MaxChanges
    /\ real' = real + 1
    /\ \E n \in 1 .. MaxBurst : sock' = [s \in Sockets |-> Offered(sock[s], n)]
    /\ excuses' = excuses \cup
          (IF \E s \in Sockets : /\ session = "in" /\ sock[s].owner = sid
                                 /\ sock[s].phase \in {"accepted", "open"} /\ ~sock[s].subscribed
           THEN {"gap"} ELSE {})
    /\ UNCHANGED <<troubles, session, sid, dialing, retry, current, fetch, card, held, control,
                   crossed>>

\* _forward: a frame is composed from the state at the time it is sent.
Forward(s) ==
    /\ sock[s].pending > 0 /\ Len(sock[s].wire) < WireSize
    /\ LET k == sock[s]
           due == IF k.lagged THEN <<ResyncRequired, real>> ELSE <<real>>
       IN  sock' = [sock EXCEPT ![s] = [k EXCEPT !.pending = k.pending - 1,
                                                 !.lagged = FALSE, !.wire = k.wire \o due]]
    /\ UNCHANGED <<real, troubles, session, sid, dialing, retry, current, fetch, page,
                   control, crossed>>

\* onmessage and #dispatch
Message(s) ==
    /\ sock[s].phase = "open" /\ sock[s].wire # <<>>
    /\ sock' = [sock EXCEPT ![s].wire = Tail(@)]
    /\ LET frame == Head(sock[s].wire)
       IN  IF frame = ResyncRequired THEN Ask("page") /\ UNCHANGED page
           ELSE Receive(frame, FALSE) /\ UNCHANGED fetch
    /\ UNCHANGED <<real, troubles, session, sid, dialing, retry, current, control, crossed>>

-----------------------------------------------------------------------------
(* The control.                                                            *)

Rendered ==
    /\ UNCHANGED <<view, held>>
    /\ Patch(TRUE, TRUE)
    /\ excuses' = IF {view', shown'} = {real} THEN {} ELSE excuses

\* execute, up to the await of submitCommand, when the control is not busy.
Submit(p) ==
    /\ busy' = TRUE /\ desired' = p /\ lastSent' = p
    /\ Rendered

\* Slip: a press while a command is pending is submitted too.
SlipPress ==
    /\ session = "in" /\ presses < MaxPresses
    /\ presses' = presses + 1
    /\ Submit(presses') /\ flights' = flights \cup {presses'} /\ UNCHANGED queued
    /\ UNCHANGED <<real, troubles, session, sid, link, fetch, crossed>>

Press ==
    /\ session = "in" /\ presses < MaxPresses
    /\ presses' = presses + 1
    /\ IF busy
       THEN /\ desired' = presses' /\ queued' = presses' /\ Rendered
            /\ UNCHANGED <<busy, flights, lastSent>>
       ELSE Submit(presses') /\ flights' = flights \cup {presses'} /\ UNCHANGED queued
    /\ UNCHANGED <<real, troubles, session, sid, link, fetch, crossed>>

\* onDrag of a dial or slider; the hold ends by itself without a rendering.
Drag ==
    /\ Trouble
    /\ session = "in" /\ ~held /\ held' = TRUE
    /\ UNCHANGED <<real, session, sid, link, fetch, card, excuses, control, crossed>>

HoldExpires ==
    /\ held /\ held' = FALSE
    /\ UNCHANGED <<real, troubles, session, sid, link, fetch, card, excuses, control, crossed>>

\* Slips: what waits is dropped; what waits goes out, but the control is not
\* released when nothing does.
SlipDropQueued(p) ==
    /\ p \in flights
    /\ busy' = FALSE /\ desired' = Nothing /\ queued' = Nothing /\ held' = FALSE
    /\ flights' = flights \ {p}
    /\ Ask("command")
    /\ UNCHANGED <<real, troubles, session, sid, link, card, excuses, lastSent, presses, crossed>>

SlipKeepDesired(p) ==
    /\ p \in flights /\ queued = Nothing
    /\ busy' = FALSE /\ held' = FALSE /\ flights' = flights \ {p}
    /\ Ask("command")
    /\ UNCHANGED <<real, troubles, session, sid, link, card, excuses, desired, queued,
                   lastSent, presses, crossed>>

\* The rest of execute after an answer or an error: the request that waits
\* goes out, or the control is released and the snapshot fetched.
CommandReturns(p) ==
    /\ p \in flights
    /\ IF queued # Nothing
       THEN /\ queued' = Nothing /\ Submit(queued)
            /\ flights' = (flights \ {p}) \cup {queued}
            /\ UNCHANGED fetch
       ELSE /\ busy' = FALSE /\ desired' = Nothing /\ held' = FALSE
            /\ flights' = flights \ {p}
            /\ Ask("command")
            /\ UNCHANGED <<queued, lastSent, card, excuses>>
    /\ UNCHANGED <<real, troubles, session, sid, link, presses, crossed>>

\* The gateway does not know the credential: execute signs out and returns.
\* Left out: a sign-out in the middle of a sign-in.
CommandUnauthenticated(p) ==
    /\ Trouble
    /\ session # "starting"
    /\ p \in flights
    /\ Cleared
    /\ flights' = flights \ {p}

-----------------------------------------------------------------------------
Next ==
    \/ \E f \in Fetches : Snapshot(f) \/ FetchReturns(f) \/ FetchFails(f)
    \/ StartSession \/ SignOut
    \/ \E n \in Sessions : TicketArrives(n) \/ TicketFails(n)
    \/ RetryFires \/ Wake \/ Change
    \/ \E s \in Sockets : \/ Accept(s) \/ Subscribe(s) \/ Opens(s)
                          \/ Closes(s) \/ Forward(s) \/ Message(s)
    \/ Press \/ Drag \/ HoldExpires
    \/ \E p \in flights : CommandReturns(p) \/ CommandUnauthenticated(p)

Spec == Init /\ [][Next]_vars

\* Requests are answered in the end, the retry timer fires, open sockets deliver.
\* Users, devices and failures do as they like.
FairSpec ==
    /\ Spec
    /\ WF_vars(\E f \in Fetches : Snapshot(f) \/ FetchReturns(f))
    /\ WF_vars(\/ RetryFires
               \/ \E n \in Sessions : TicketArrives(n)
               \/ \E s \in Sockets :
                     Accept(s) \/ Subscribe(s) \/ Opens(s) \/ Forward(s) \/ Message(s))
    /\ WF_vars(\E p \in flights : CommandReturns(p))

-----------------------------------------------------------------------------
(* Properties.                                                             *)

Connected == \E s \in Sockets : sock[s].owner = sid /\ sock[s].phase = "open"

\* The link is live and nothing is under way that could still change the card.
Quiet ==
    /\ session = "in" /\ ~held
    /\ fetch = [f \in Fetches |-> NoFetch]
    /\ \E s \in Sockets : sock[s].owner = sid /\ sock[s].phase = "open" /\ sock[s].subscribed
    /\ \A s \in Sockets : sock[s].pending = 0 /\ sock[s].wire = <<>>

\* "A client must never quietly diverge from real device state" (live.js:7-8):
\* when everything has arrived, the state of the card is not the device's only
\* after an older answer overtook a newer one, a change between the gateway's
\* Hello and its subscription, an update withheld from a held card, or a failed
\* request the user was told of.  Reconnects, lost events, second sockets and a
\* refresh that failed silently after a command (app.js:156) are no reason.  What
\* such a refresh does leave behind, unlike anything else but a withheld update,
\* is the desired value of the answered command on the card.
DivergesOnlyWithExcuse ==
    Quiet => /\ shown # real => excuses # {}
             /\ Stale => untold \/ "held" \in excuses

\* Commands are desired state (app.js:105): when a control is free again, what
\* was submitted last is what was pressed last, however presses, answers and
\* sign-outs interleave.
LastPressWins == session = "in" /\ ~busy => lastSent = presses

\* At most one command of a control is under way (state.busy, app.js:103), and
\* one that waits has one to wait for, except where a command of an earlier
\* session is still unanswered.
OneCommandInFlight ==
    crossed \/ ((\A p, q \in flights : p = q) /\ (session = "in" => (busy <=> flights # {})))

\* "A second session must not leave the first socket reconnecting forever"
\* (app.js:320): a stopped LiveConnection opens no socket, and no retry is set
\* without a session.
StoppedStaysStopped ==
    [][/\ retry' => session' = "in"
       /\ \A s \in Sockets :
             sock'[s].owner # 0 /\ sock[s].owner = 0 => session = "in" /\ sock'[s].owner = sid]_vars

\* A session gets its socket (back), whatever the order of lost sockets, failed
\* tickets, timers and wake-ups.
Reconnects == (session = "in") ~> (Connected \/ session # "in")

\* A control that shows a desired value as pending stops doing so (app.js:59).
ControlSettles == (desired # Nothing) ~> (desired = Nothing)

=============================================================================
