---------------------------- MODULE LiveViewProofs ----------------------------
(***************************************************************************)
(* Proofs about LiveView: the last press of a control wins, one command of *)
(* it is under way at a time, a stopped connection stays stopped, and the  *)
(* card differs from the device only for reasons that are named.           *)
(***************************************************************************)
EXTENDS LiveView, TLAPS

-----------------------------------------------------------------------------
(* The inductive invariant.                                                *)

SockState == [owner : 0 .. MaxSessions, phase : {"none", "dialed", "accepted", "open"},
              subscribed : BOOLEAN, pending : 0 .. QueueSize, lagged : BOOLEAN,
              wire : Seq(Frames)]
FetchState == [by : {"nobody", "session", "page", "command"}, answer : Versions \cup {Nothing}]

SessionOK ==
    /\ real \in Versions /\ troubles \in 0 .. MaxTroubles
    /\ session \in {"out", "starting", "in"} /\ sid \in 0 .. MaxSessions
    /\ fetch \in [Fetches -> FetchState] /\ crossed \in BOOLEAN
LinkOK ==
    /\ dialing \in [Sessions -> 0 .. MaxDials] /\ retry \in BOOLEAN
    /\ current \in Sockets \cup {Nothing}
    /\ sock \in [Sockets -> SockState]
    /\ \A s \in Sockets : Len(sock[s].wire) <= WireSize + 1
PageOK ==
    /\ view \in Versions \cup {Nothing} /\ shown \in Versions \cup {Nothing}
    /\ {worn, untold, held} \subseteq BOOLEAN /\ excuses \subseteq {"overtaken", "gap", "held", "failed"}
ControlOK ==
    /\ presses \in 0 .. MaxPresses /\ lastSent \in 0 .. presses /\ busy \in BOOLEAN
    /\ desired \in (1 .. presses) \cup {Nothing} /\ queued \in (1 .. presses) \cup {Nothing}
    /\ flights \subseteq 1 .. presses

\* A session is starting while its snapshot request is under way; it has not
\* dialed yet then, and only a session that is on has a retry.
StartingInv ==
    /\ \A f \in Fetches : fetch[f].by = "session" => session = "starting"
    /\ \A f, g \in Fetches : fetch[f].by = "session" /\ fetch[g].by = "session" => f = g
    /\ session # "out" => sid \in Sessions
    /\ \A n \in Sessions : n > sid \/ (n = sid /\ session = "starting") => dialing[n] = 0
    /\ retry => session = "in"

\* What waits is the last press, and without it the last press was submitted.
ControlInv ==
    /\ session # "in" => ~ busy
    /\ ~ busy => queued = Nothing /\ desired = Nothing
    /\ queued # Nothing => queued = presses
    /\ session # "out" /\ queued = Nothing => lastSent = presses
    /\ ~ crossed => /\ \A p, q \in flights : p = q
                    /\ session = "in" => (busy <=> flights # {})
                    /\ session = "starting" => flights = {}

Inv == SessionOK /\ LinkOK /\ PageOK /\ ControlOK /\ StartingInv /\ ControlInv

\* The parts are what TypeOK says.
LEMMA TypeParts == SessionOK /\ LinkOK /\ PageOK /\ ControlOK <=> TypeOK
  BY DEF SessionOK, LinkOK, PageOK, ControlOK, TypeOK, SockState, FetchState

-----------------------------------------------------------------------------
(* The control.                                                            *)

\* A press, an answer, a sign-in and a sign-out move the control; otherwise only
\* the end of a snapshot request moves the session.
LEMMA ControlMoves ==
  ASSUME [Next]_vars
  PROVE  \/ UNCHANGED <<control, crossed, session>>
         \/ \E f \in Fetches : FetchReturns(f) \/ FetchFails(f)
         \/ StartSession \/ SignOut \/ Press
         \/ \E p \in flights : CommandReturns(p) \/ CommandUnauthenticated(p)
  <1>1. CASE UNCHANGED vars
    BY <1>1 DEF vars
  <1>2. ASSUME NEW f \in Fetches, Snapshot(f) PROVE UNCHANGED <<control, crossed, session>>
    BY <1>2 DEF Snapshot
  <1>3. ASSUME NEW n \in Sessions, TicketArrives(n) \/ TicketFails(n)
        PROVE  UNCHANGED <<control, crossed, session>>
    BY <1>3 DEF TicketArrives, TicketFails
  <1>4. ASSUME RetryFires \/ Wake \/ Change \/ Drag \/ HoldExpires
        PROVE  UNCHANGED <<control, crossed, session>>
    BY <1>4 DEF RetryFires, Wake, Change, Drag, HoldExpires
  <1>5. ASSUME NEW s \in Sockets,
               Accept(s) \/ Subscribe(s) \/ Opens(s) \/ Closes(s) \/ Forward(s) \/ Message(s)
        PROVE  UNCHANGED <<control, crossed, session>>
    BY <1>5 DEF Accept, Subscribe, Opens, Closes, Forward, Message
  <1> QED  BY <1>1, <1>2, <1>3, <1>4, <1>5 DEF Next

\* The type of the control and what is known of its presses survive every step.
LEMMA StepControl ==
  ASSUME Inv, ConstantsOK, [Next]_vars
  PROVE  ControlOK' /\ ControlInv'
  <1>1. /\ presses \in Nat /\ Nothing \notin Nat /\ MaxPresses \in Nat
        /\ lastSent \in 0 .. presses /\ flights \subseteq 1 .. presses
        /\ desired \in (1 .. presses) \cup {Nothing} /\ queued \in (1 .. presses) \cup {Nothing}
        /\ busy \in BOOLEAN /\ presses <= MaxPresses
    BY DEF Inv, ControlOK, ConstantsOK
  <1>2. CASE UNCHANGED <<control, crossed, session>>
    BY <1>2 DEF Inv, ControlOK, ControlInv, control
  <1>3. ASSUME NEW f \in Fetches, FetchReturns(f) \/ FetchFails(f)
        PROVE  ControlOK' /\ ControlInv'
    <2>1. UNCHANGED <<control, crossed>>
      BY <1>3 DEF FetchReturns, FetchFails
    <2>2. \/ session' = session
          \/ session = "starting" /\ session' \in {"in", "out"}
      BY <1>3 DEF FetchReturns, FetchFails, Inv, StartingInv
    <2> QED  BY <2>1, <2>2 DEF Inv, ControlOK, ControlInv, control
  <1>4. CASE StartSession
    <2>1. /\ session = "out" /\ session' = "starting" /\ lastSent' = presses
          /\ UNCHANGED <<desired, busy, queued, flights, presses>>
      BY <1>4 DEF StartSession
    <2>2. ~ crossed' => flights = {}
      BY <1>4 DEF StartSession
    <2>3. ControlOK'
      BY <1>1, <2>1 DEF ControlOK
    <2>4. ControlInv'
      BY <1>1, <2>1, <2>2 DEF Inv, ControlInv
    <2> QED  BY <2>3, <2>4
  <1>5. CASE SignOut
    BY <1>1, <1>5 DEF SignOut, Cleared, Inv, ControlOK, ControlInv
  <1>6. CASE Press
    <2>1. presses' = presses + 1 /\ presses < MaxPresses /\ UNCHANGED <<session, crossed>>
          /\ session = "in"
      BY <1>6 DEF Press
    <2>2. CASE busy
      <3>1. desired' = presses' /\ queued' = presses' /\ UNCHANGED <<busy, flights, lastSent>>
        BY <1>6, <2>2 DEF Press
      <3> QED  BY <1>1, <2>1, <2>2, <3>1 DEF Inv, ControlOK, ControlInv
    <2>3. CASE ~ busy
      <3>1. /\ busy' = TRUE /\ desired' = presses' /\ lastSent' = presses'
            /\ flights' = flights \cup {presses'} /\ UNCHANGED queued
        BY <1>6, <2>3 DEF Press, Submit
      <3> QED  BY <1>1, <2>1, <2>3, <3>1 DEF Inv, ControlOK, ControlInv
    <2> QED  BY <2>2, <2>3
  <1>7. ASSUME NEW p \in flights, CommandReturns(p)
        PROVE  ControlOK' /\ ControlInv'
    <2>1. UNCHANGED <<presses, session, crossed>>
      BY <1>7 DEF CommandReturns
    <2>2. CASE queued # Nothing
      <3>1. /\ queued' = Nothing /\ busy' = TRUE /\ desired' = queued /\ lastSent' = queued
            /\ flights' = (flights \ {p}) \cup {queued}
        BY <1>7, <2>2 DEF CommandReturns, Submit
      <3> QED  BY <1>1, <1>7, <2>1, <2>2, <3>1 DEF Inv, ControlOK, ControlInv
    <2>3. CASE queued = Nothing
      <3>1. /\ busy' = FALSE /\ desired' = Nothing /\ flights' = flights \ {p}
            /\ UNCHANGED <<queued, lastSent>>
        BY <1>7, <2>3 DEF CommandReturns
      <3> QED  BY <1>1, <1>7, <2>1, <2>3, <3>1 DEF Inv, ControlOK, ControlInv
    <2> QED  BY <2>2, <2>3
  <1>8. ASSUME NEW p \in flights, CommandUnauthenticated(p)
        PROVE  ControlOK' /\ ControlInv'
    BY <1>1, <1>8 DEF CommandUnauthenticated, Cleared, Inv, ControlOK, ControlInv
  <1> QED  BY <1>2, <1>3, <1>4, <1>5, <1>6, <1>7, <1>8, ControlMoves

-----------------------------------------------------------------------------
(* The page.                                                               *)

\* What the parts of handlers make of the page.
LEMMA PagePieces ==
  ASSUME PageOK
  PROVE  /\ \A v \in Versions, force \in BOOLEAN : Receive(v, force) => PageOK'
         /\ Rendered => PageOK'
         /\ Cleared => PageOK'
  <1>1. ASSUME NEW force \in BOOLEAN, NEW pending \in BOOLEAN,
               view' \in Versions \cup {Nothing}, Patch(force, pending)
        PROVE  shown' \in Versions \cup {Nothing} /\ {worn', untold'} \subseteq BOOLEAN
    BY <1>1 DEF PageOK, Patch
  <1>2. ASSUME NEW v \in Versions, NEW force \in BOOLEAN, Receive(v, force)
        PROVE  PageOK'
    <2>1. view' = v /\ Patch(force, desired # Nothing) /\ UNCHANGED held
      BY <1>2 DEF Receive
    <2>3. (desired # Nothing) \in BOOLEAN
      OBVIOUS
    <2>2. excuses' \subseteq excuses \cup {"overtaken", "held"}
      BY <1>2 DEF Receive
    <2> QED  BY <1>1, <2>1, <2>2, <2>3 DEF PageOK
  <1>3. ASSUME Rendered PROVE PageOK'
    <2>1. UNCHANGED <<view, held>> /\ Patch(TRUE, TRUE) /\ excuses' \subseteq excuses
      BY <1>3 DEF Rendered
    <2>2. view' \in Versions \cup {Nothing}
      BY <2>1 DEF PageOK
    <2> QED  BY <1>1, <2>1, <2>2 DEF PageOK
  <1>4. ASSUME Cleared PROVE PageOK'
    BY <1>4 DEF Cleared, PageOK
  <1> QED  BY <1>2, <1>3, <1>4

\* Every step leaves the page on versions that exist.
LEMMA StepPage ==
  ASSUME Inv, ConstantsOK, [Next]_vars
  PROVE  PageOK'
  <1> USE DEF Inv
  <1>1. CASE UNCHANGED page
    BY <1>1 DEF PageOK, page, card
  <1>2. ASSUME NEW f \in Fetches, FetchReturns(f) PROVE PageOK'
    <2>1. fetch[f].answer \in Versions
      BY <1>2 DEF FetchReturns, SessionOK, FetchState
    <2>2. (view = Nothing) \in BOOLEAN
      OBVIOUS
    <2> QED  BY <1>2, <2>1, <2>2, PagePieces DEF FetchReturns
  <1>3. ASSUME NEW f \in Fetches, FetchFails(f) PROVE PageOK'
    <2>1. /\ UNCHANGED <<view, shown, worn, held>> /\ excuses' \subseteq excuses \cup {"failed"}
          /\ untold' = (untold \/ (fetch[f].by = "command" /\ Stale))
      BY <1>3 DEF FetchFails
    <2> QED  BY <2>1 DEF PageOK
  <1>4. ASSUME NEW s \in Sockets, Message(s) PROVE PageOK'
    <2>1. sock[s].wire \in Seq(Frames) /\ sock[s].wire # <<>>
      BY <1>4 DEF Message, LinkOK, SockState
    <2>2. Head(sock[s].wire) \in Frames
      BY <2>1
    <2>3. CASE Head(sock[s].wire) = ResyncRequired
      BY <1>4, <2>3 DEF Message, PageOK, page, card
    <2>4. CASE Head(sock[s].wire) # ResyncRequired
      <3>1. Head(sock[s].wire) \in Versions /\ FALSE \in BOOLEAN
        BY <2>2, <2>4 DEF Frames
      <3> QED  BY <1>4, <2>4, <3>1, PagePieces DEF Message
    <2> QED  BY <2>3, <2>4
  <1>5. CASE Press \/ Drag \/ HoldExpires \/ Change
    BY <1>5, PagePieces DEF Press, Submit, Drag, HoldExpires, Change, PageOK, page, card
  <1>6. ASSUME NEW p \in flights, CommandReturns(p) PROVE PageOK'
    BY <1>6, PagePieces DEF CommandReturns, Submit, PageOK, card
  <1>7. ASSUME SignOut \/ \E p \in flights : CommandUnauthenticated(p) PROVE PageOK'
    BY <1>7, PagePieces DEF SignOut, CommandUnauthenticated
  <1>8. ASSUME \/ UNCHANGED vars \/ StartSession \/ RetryFires \/ Wake
               \/ \E f \in Fetches : Snapshot(f)
               \/ \E n \in Sessions : TicketArrives(n) \/ TicketFails(n)
               \/ \E s \in Sockets :
                     Accept(s) \/ Subscribe(s) \/ Opens(s) \/ Closes(s) \/ Forward(s)
        PROVE  UNCHANGED page
    BY <1>8 DEF vars, StartSession, RetryFires, Wake, Snapshot, TicketArrives, TicketFails,
                Accept, Subscribe, Opens, Closes, Forward
  <1> QED  BY <1>1, <1>2, <1>3, <1>4, <1>5, <1>6, <1>7, <1>8 DEF Next

-----------------------------------------------------------------------------
(* The session, its requests and its connection.                           *)

FetchesOK ==
    /\ fetch \in [Fetches -> FetchState]
    /\ \A f \in Fetches : fetch[f].by = "session" => session = "starting"
    /\ \A f, g \in Fetches : fetch[f].by = "session" /\ fetch[g].by = "session" => f = g
DialsOK ==
    /\ session # "out" => sid \in Sessions
    /\ \A n \in Sessions : n > sid \/ (n = sid /\ session = "starting") => dialing[n] = 0
    /\ retry => session = "in"

\* What is known of a session that starts, by requests and by dials.
LEMMA StartingParts ==
  SessionOK /\ StartingInv <=>
     /\ FetchesOK /\ DialsOK /\ real \in Versions /\ troubles \in 0 .. MaxTroubles
     /\ session \in {"out", "starting", "in"} /\ sid \in 0 .. MaxSessions /\ crossed \in BOOLEAN
  BY DEF SessionOK, StartingInv, FetchesOK, DialsOK

\* A request of the page, or after a command, is none of the session.
LEMMA AskKeeps ==
  ASSUME FetchesOK, ConstantsOK, session' = session, NEW by \in {"page", "command"}, Ask(by)
  PROVE  FetchesOK'
  <1>1. CASE UNCHANGED fetch
    BY <1>1 DEF FetchesOK
  <1>2. ASSUME NEW f \in Fetches, fetch' = [fetch EXCEPT ![f].by = by]
        PROVE  FetchesOK'
    <2>1. [fetch[f] EXCEPT !.by = by] \in FetchState
          /\ [fetch[f] EXCEPT !.by = by].by = by
      BY DEF FetchesOK, FetchState
    <2>2. /\ fetch' \in [Fetches -> FetchState] /\ fetch'[f].by = by
          /\ \A g \in Fetches \ {f} : fetch'[g] = fetch[g]
      BY <1>2, <2>1 DEF FetchesOK
    <2> QED  BY <2>2 DEF FetchesOK
  <1> QED  BY <1>1, <1>2 DEF Ask

\* At most one snapshot request is the session's own, and only while it starts.
LEMMA StepFetches ==
  ASSUME Inv, ConstantsOK, [Next]_vars
  PROVE  FetchesOK'
  <1>1. FetchesOK /\ session \in {"out", "starting", "in"}
    BY StartingParts DEF Inv, SessionOK
  <1>2. NoFetch \in FetchState /\ NoFetch.by = "nobody"
    BY DEF NoFetch, FetchState
  <1>3. CASE UNCHANGED <<fetch, session>>
    BY <1>1, <1>3 DEF FetchesOK
  <1>4. ASSUME NEW f \in Fetches, Snapshot(f) PROVE FetchesOK'
    <2>1. real \in Versions \cup {Nothing}
      BY DEF Inv, SessionOK
    <2>2. [fetch[f] EXCEPT !.answer = real] \in FetchState
          /\ [fetch[f] EXCEPT !.answer = real].by = fetch[f].by
      BY <1>1, <2>1 DEF FetchesOK, FetchState
    <2>3. fetch' = [fetch EXCEPT ![f] = [fetch[f] EXCEPT !.answer = real]] /\ session' = session
      BY <1>4 DEF Snapshot
    <2>4. /\ fetch' \in [Fetches -> FetchState]
          /\ \A g \in Fetches : fetch'[g].by = fetch[g].by
      BY <1>1, <2>2, <2>3 DEF FetchesOK
    <2> QED  BY <1>1, <2>3, <2>4 DEF FetchesOK
  <1>5. ASSUME NEW f \in Fetches, FetchReturns(f) \/ FetchFails(f) PROVE FetchesOK'
    <2>1. fetch' = [fetch EXCEPT ![f] = NoFetch]
          /\ (fetch[f].by # "session" => session' = session)
      BY <1>5 DEF FetchReturns, FetchFails
    <2>2. /\ fetch' \in [Fetches -> FetchState] /\ fetch'[f].by = "nobody"
          /\ \A g \in Fetches \ {f} : fetch'[g] = fetch[g]
      BY <1>1, <1>2, <2>1 DEF FetchesOK
    <2> QED  BY <1>1, <2>1, <2>2 DEF FetchesOK
  <1>6. CASE StartSession
    <2>1. PICK f \in Fetches : fetch' = [fetch EXCEPT ![f].by = "session"]
      BY <1>6 DEF StartSession
    <2>2. [fetch[f] EXCEPT !.by = "session"] \in FetchState
      BY <1>1 DEF FetchesOK, FetchState
    <2>3. /\ fetch' \in [Fetches -> FetchState]
          /\ \A g \in Fetches \ {f} : fetch'[g] = fetch[g]
      BY <1>1, <2>1, <2>2 DEF FetchesOK
    <2>4. session = "out" /\ session' = "starting"
      BY <1>6 DEF StartSession
    <2> QED  BY <1>1, <2>3, <2>4 DEF FetchesOK
  <1>7. ASSUME Ask("page") \/ Ask("command") \/ UNCHANGED fetch, session' = session
        PROVE  FetchesOK'
    BY <1>1, <1>7, AskKeeps DEF FetchesOK
  <1>8. CASE SignOut
    BY <1>1, <1>8 DEF SignOut, Cleared, FetchesOK
  <1>9. ASSUME NEW p \in flights, CommandUnauthenticated(p) PROVE FetchesOK'
    BY <1>1, <1>9 DEF CommandUnauthenticated, Cleared, FetchesOK
  <1>10. ASSUME NEW p \in flights, CommandReturns(p) PROVE FetchesOK'
    BY <1>7, <1>10 DEF CommandReturns
  <1>11. CASE RetryFires \/ Wake \/ Change \/ Press \/ Drag \/ HoldExpires
    BY <1>7, <1>11 DEF RetryFires, Wake, Change, Press, Drag, HoldExpires
  <1>12. ASSUME NEW n \in Sessions, TicketArrives(n) \/ TicketFails(n) PROVE FetchesOK'
    BY <1>7, <1>12 DEF TicketArrives, TicketFails
  <1>13. ASSUME NEW s \in Sockets,
                Accept(s) \/ Subscribe(s) \/ Opens(s) \/ Closes(s) \/ Forward(s) \/ Message(s)
         PROVE  FetchesOK'
    BY <1>7, <1>13 DEF Accept, Subscribe, Opens, Closes, Forward, Message
  <1>14. CASE UNCHANGED vars
    BY <1>3, <1>14 DEF vars
  <1> QED  BY <1>4, <1>5, <1>6, <1>8, <1>9, <1>10, <1>11, <1>12, <1>13, <1>14 DEF Next

\* The session's number and phase stay in their sets.
LEMMA StepSession ==
  ASSUME Inv, ConstantsOK, [Next]_vars
  PROVE  /\ real' \in Versions /\ troubles' \in 0 .. MaxTroubles
         /\ session' \in {"out", "starting", "in"} /\ sid' \in 0 .. MaxSessions
         /\ crossed' \in BOOLEAN
  <1> DEFINE Goal == /\ real' \in Versions /\ troubles' \in 0 .. MaxTroubles
                     /\ session' \in {"out", "starting", "in"} /\ sid' \in 0 .. MaxSessions
                     /\ crossed' \in BOOLEAN
  <1>1. /\ real \in Versions /\ troubles \in 0 .. MaxTroubles
        /\ session \in {"out", "starting", "in"} /\ sid \in 0 .. MaxSessions
        /\ crossed \in BOOLEAN
        /\ MaxTroubles \in Nat /\ MaxChanges \in Nat /\ MaxSessions \in Nat
    BY DEF Inv, SessionOK, ConstantsOK
  <1>2. ASSUME UNCHANGED <<real, session, sid, crossed>>, troubles' = troubles \/ Trouble
        PROVE  Goal
    BY <1>1, <1>2 DEF Trouble
  <1>3. ASSUME NEW f \in Fetches, Snapshot(f) \/ FetchReturns(f) \/ FetchFails(f) PROVE Goal
    BY <1>1, <1>3 DEF Snapshot, FetchReturns, FetchFails, Trouble
  <1>4. CASE StartSession
    <2>1. crossed' \in BOOLEAN
      BY <1>4 DEF StartSession
    <2>2. UNCHANGED <<real, troubles>> /\ sid' = sid + 1 /\ sid < MaxSessions
          /\ session' = "starting"
      BY <1>4 DEF StartSession
    <2> QED  BY <1>1, <2>1, <2>2
  <1>5. ASSUME SignOut \/ \E p \in flights : CommandUnauthenticated(p) PROVE Goal
    BY <1>1, <1>5 DEF SignOut, CommandUnauthenticated, Cleared, Trouble
  <1>6. CASE Change
    BY <1>1, <1>6 DEF Change, Versions
  <1>7. CASE RetryFires \/ Wake \/ Press \/ Drag \/ HoldExpires
    BY <1>2, <1>7 DEF RetryFires, Wake, Press, Drag, HoldExpires
  <1>8. ASSUME NEW n \in Sessions, TicketArrives(n) \/ TicketFails(n) PROVE Goal
    BY <1>2, <1>8 DEF TicketArrives, TicketFails
  <1>9. ASSUME NEW s \in Sockets,
               Accept(s) \/ Subscribe(s) \/ Opens(s) \/ Closes(s) \/ Forward(s) \/ Message(s)
        PROVE  Goal
    BY <1>2, <1>9 DEF Accept, Subscribe, Opens, Closes, Forward, Message
  <1>10. ASSUME NEW p \in flights, CommandReturns(p) PROVE Goal
    BY <1>2, <1>10 DEF CommandReturns
  <1>11. CASE UNCHANGED vars
    BY <1>1, <1>11 DEF vars
  <1> QED  BY <1>3, <1>4, <1>5, <1>6, <1>7, <1>8, <1>9, <1>10, <1>11 DEF Next

\* #connect and its timer.
LEMMA StepDials ==
  ASSUME Inv, ConstantsOK, [Next]_vars
  PROVE  DialsOK' /\ dialing' \in [Sessions -> 0 .. MaxDials] /\ retry' \in BOOLEAN
  <1> DEFINE Goal == DialsOK' /\ dialing' \in [Sessions -> 0 .. MaxDials] /\ retry' \in BOOLEAN
  <1>1. /\ DialsOK /\ dialing \in [Sessions -> 0 .. MaxDials] /\ retry \in BOOLEAN
        /\ session \in {"out", "starting", "in"} /\ sid \in Nat
        /\ MaxDials \in Nat \ {0} /\ MaxSessions \in Nat
    BY StartingParts DEF Inv, LinkOK, SessionOK, ConstantsOK
  <1>2. ASSUME retry' = retry \/ retry' = FALSE, session' = session
         PROVE  retry' \in BOOLEAN /\ (retry' => session' = "in")
    <2>1. retry => session = "in"
      BY <1>1 DEF DialsOK
    <2>2. CASE retry' = retry
      BY <1>1, <1>2, <2>1, <2>2
    <2>3. CASE retry' = FALSE
      BY <2>3
    <2> QED  BY <1>2, <2>2, <2>3
  <1>3. ASSUME NEW n, ScheduleRetry(n), session' = session
         PROVE  retry' \in BOOLEAN /\ (retry' => session' = "in")
    <2>1. retry => session = "in"
      BY <1>1 DEF DialsOK
    <2>2. Stopped(n) \in BOOLEAN /\ (~ Stopped(n) => session = "in")
      BY DEF Stopped
    <2> QED  BY <1>1, <1>3, <2>1, <2>2, Zenon DEF ScheduleRetry
  <1>4. ASSUME UNCHANGED <<session, sid, dialing>>, retry' = retry \/ retry' = FALSE
        PROVE  Goal
    BY <1>1, <1>4, <1>2 DEF DialsOK
  <1>5. ASSUME UNCHANGED <<session, sid>>, retry' = retry \/ retry' = FALSE, session = "in", Dials
        PROVE  Goal
    <2>1. retry' \in BOOLEAN /\ (retry' => session' = "in")
      BY <1>5, <1>2
    <2>2. sid \in Sessions /\ dialing[sid] < MaxDials
          /\ dialing' = [dialing EXCEPT ![sid] = dialing[sid] + 1]
      BY <1>1, <1>5 DEF Dials, DialsOK
    <2>3. dialing' \in [Sessions -> 0 .. MaxDials]
          /\ \A m \in Sessions : m > sid => dialing'[m] = dialing[m]
      BY <1>1, <2>2 DEF Sessions
    <2> QED  BY <1>1, <1>5, <2>1, <2>2, <2>3 DEF DialsOK
  <1>6. ASSUME NEW n \in Sessions, dialing[n] > 0, dialing' = [dialing EXCEPT ![n] = @ - 1],
               UNCHANGED <<session, sid>>, retry' = retry \/ ScheduleRetry(n)
        PROVE  Goal
    <2>1. retry' \in BOOLEAN /\ (retry' => session' = "in")
      BY <1>6, <1>2, <1>3
    <2>2. dialing' \in [Sessions -> 0 .. MaxDials]
          /\ \A m \in Sessions : dialing[m] = 0 => dialing'[m] = 0
      BY <1>1, <1>6
    <2> QED  BY <1>1, <1>6, <2>1, <2>2 DEF DialsOK
  <1>7. ASSUME NEW f \in Fetches, FetchReturns(f) \/ FetchFails(f) PROVE Goal
    <2>1. UNCHANGED <<sid, retry>> /\ (fetch[f].by = "session" => session = "starting")
      BY <1>7 DEF FetchReturns, FetchFails, Inv, StartingInv, link
    <2>2. CASE UNCHANGED <<session, dialing>>
      BY <2>1, <2>2, <1>4
    <2>3. CASE /\ session = "starting" /\ session' = "in"
               /\ dialing' = [dialing EXCEPT ![sid] = @ + 1]
      BY <1>1, <2>1, <2>3 DEF DialsOK
    <2>4. CASE session = "starting" /\ session' = "out" /\ UNCHANGED dialing
      BY <1>1, <2>1, <2>4 DEF DialsOK
    <2> QED  BY <1>7, <2>1, <2>2, <2>3, <2>4 DEF FetchReturns, FetchFails, link
  <1>8. CASE StartSession
    <2>1. /\ session = "out" /\ sid < MaxSessions /\ session' = "starting" /\ sid' = sid + 1
          /\ retry' = FALSE /\ UNCHANGED dialing
      BY <1>8 DEF StartSession
    <2>2. retry' \in BOOLEAN /\ ~ retry'
      BY <2>1
    <2> QED  BY <1>1, <2>1, <2>2 DEF DialsOK, Sessions
  <1>9. ASSUME Cleared PROVE Goal
    BY <1>1, <1>9 DEF Cleared, DialsOK
  <1>10. CASE RetryFires
    BY <1>1, <1>5, <1>10 DEF RetryFires, DialsOK
  <1>11. CASE Wake
    BY <1>4, <1>5, <1>11 DEF Wake
  <1>12. ASSUME NEW n \in Sessions, TicketArrives(n) \/ TicketFails(n) PROVE Goal
    BY <1>6, <1>12 DEF TicketArrives, TicketFails
  <1>13. ASSUME NEW s \in Sockets, Closes(s) PROVE Goal
    <2>1. UNCHANGED <<session, sid, dialing>> /\ ScheduleRetry(sock[s].owner)
      BY <1>13 DEF Closes
    <2>2. retry' \in BOOLEAN /\ (retry' => session' = "in")
      BY <1>1, <2>1 DEF ScheduleRetry, Stopped, DialsOK
    <2> QED  BY <1>1, <2>1, <2>2 DEF DialsOK
  <1>14. ASSUME NEW s \in Sockets,
                Accept(s) \/ Subscribe(s) \/ Opens(s) \/ Forward(s) \/ Message(s)
         PROVE  Goal
    BY <1>4, <1>14 DEF Accept, Subscribe, Opens, Forward, Message
  <1>15. ASSUME Change \/ Press \/ Drag \/ HoldExpires \/ UNCHANGED vars PROVE Goal
    BY <1>4, <1>15 DEF Change, Press, Drag, HoldExpires, vars, link
  <1>16. ASSUME NEW p \in flights, CommandReturns(p) PROVE Goal
    BY <1>4, <1>16 DEF CommandReturns, link
  <1>17. ASSUME NEW f \in Fetches, Snapshot(f) PROVE Goal
    BY <1>4, <1>17 DEF Snapshot, link
  <1> QED  BY <1>7, <1>8, <1>9, <1>10, <1>11, <1>12, <1>13, <1>14, <1>15, <1>16, <1>17
           DEF Next, SignOut, CommandUnauthenticated

-----------------------------------------------------------------------------
(* The sockets.                                                            *)

SocksOK ==
    /\ current \in Sockets \cup {Nothing}
    /\ sock \in [Sockets -> SockState]
    /\ \A s \in Sockets : Len(sock[s].wire) <= WireSize + 1

\* A socket keeps its owner or loses it, or is a new one of the session that is on.
OwnedBySession ==
    \A s \in Sockets : \/ sock'[s].owner \in {sock[s].owner, 0}
                       \/ session = "in" /\ sock'[s].owner = sid

\* One socket changes, and has the owner it had.
LEMMA OneSocket ==
  ASSUME SocksOK, NEW s \in Sockets, NEW k \in SockState,
         k.owner \in {sock[s].owner, 0}, Len(k.wire) <= WireSize + 1,
         sock' = [sock EXCEPT ![s] = k], current' \in {current, Nothing}
  PROVE  SocksOK' /\ OwnedBySession
  BY DEF SocksOK, OwnedBySession

\* Every change a handler makes to a socket gives a socket again.
LEMMA SocketStates ==
  ASSUME ConstantsOK, NEW k \in SockState
  PROVE  /\ NoSocket \in SockState /\ NoSocket.owner = 0 /\ NoSocket.wire = <<>>
         /\ \A p \in {"none", "dialed", "accepted", "open"} :
               LET n == [k EXCEPT !.phase = p]
               IN  n \in SockState /\ n.owner = k.owner /\ n.wire = k.wire
         /\ LET n == [k EXCEPT !.subscribed = TRUE]
            IN  n \in SockState /\ n.owner = k.owner /\ n.wire = k.wire
         /\ \A n \in Nat : LET o == Offered(k, n)
                           IN  o \in SockState /\ o.owner = k.owner /\ o.wire = k.wire
  <1>1. QueueSize \in Nat \ {0} /\ MaxSessions \in Nat
    BY DEF ConstantsOK
  <1>2. NoSocket \in SockState /\ NoSocket.owner = 0 /\ NoSocket.wire = <<>>
    <2>1. <<>> \in Seq(Frames)
      OBVIOUS
    <2> QED  BY <1>1, <2>1 DEF NoSocket, SockState
  <1>3. ASSUME NEW p \in {"none", "dialed", "accepted", "open"}
        PROVE  LET n == [k EXCEPT !.phase = p]
               IN  n \in SockState /\ n.owner = k.owner /\ n.wire = k.wire
    BY DEF SockState
  <1>4. LET n == [k EXCEPT !.subscribed = TRUE]
        IN  n \in SockState /\ n.owner = k.owner /\ n.wire = k.wire
    BY DEF SockState
  <1>5. ASSUME NEW n \in Nat
        PROVE  LET o == Offered(k, n)
               IN  o \in SockState /\ o.owner = k.owner /\ o.wire = k.wire
    <2>1. CASE ~ k.subscribed
      BY <2>1 DEF Offered
    <2>2. CASE k.subscribed
      <3> DEFINE held2 == IF k.pending + n > QueueSize THEN QueueSize ELSE k.pending + n
                 late == k.lagged \/ k.pending + n > QueueSize
      <3>1. k.pending \in 0 .. QueueSize /\ k.lagged \in BOOLEAN
        BY DEF SockState
      <3>2. held2 \in 0 .. QueueSize /\ late \in BOOLEAN
        BY <1>1, <3>1
      <3>3. Offered(k, n) = [k EXCEPT !.pending = held2, !.lagged = late]
        BY <2>2 DEF Offered
      <3> HIDE DEF held2, late
      <3> QED  BY <3>2, <3>3 DEF SockState
    <2> QED  BY <2>1, <2>2
  <1> QED  BY <1>2, <1>3, <1>4, <1>5

\* The sockets stay sockets, and a new one belongs to the session that is on.
LEMMA StepSocks ==
  ASSUME Inv, ConstantsOK, [Next]_vars
  PROVE  SocksOK' /\ OwnedBySession
  <1>1. SocksOK /\ MaxSessions \in Nat /\ WireSize \in Nat \ {0} /\ MaxBurst \in Nat
        /\ sid \in 0 .. MaxSessions /\ real \in Versions
    BY DEF Inv, SessionOK, LinkOK, SocksOK, ConstantsOK
  <1>2. \A s \in Sockets : sock[s] \in SockState /\ Len(sock[s].wire) <= WireSize + 1
    BY <1>1 DEF SocksOK
  <1>3. Len(<<>>) <= WireSize + 1
    BY <1>1
  <1>4. ASSUME UNCHANGED sock, current' \in {current, Nothing}
        PROVE  SocksOK' /\ OwnedBySession
    BY <1>1, <1>4 DEF SocksOK, OwnedBySession
  <1>5. ASSUME NEW s \in Sockets, Accept(s) \/ Opens(s)
        PROVE  SocksOK' /\ OwnedBySession
    <2>1. PICK p \in {"none", "dialed", "accepted", "open"} :
             sock' = [sock EXCEPT ![s] = [sock[s] EXCEPT !.phase = p]]
      BY <1>5 DEF Accept, Opens
    <2>2. current' = current
      BY <1>5 DEF Accept, Opens
    <2> DEFINE k == [sock[s] EXCEPT !.phase = p]
    <2>3. k \in SockState /\ k.owner = sock[s].owner /\ k.wire = sock[s].wire
      BY <1>2, SocketStates
    <2>4. sock' = [sock EXCEPT ![s] = k]
      BY <2>1
    <2> HIDE DEF k
    <2> QED  BY <1>1, <1>2, <2>2, <2>3, <2>4, OneSocket
  <1>6. ASSUME NEW s \in Sockets, Subscribe(s)
        PROVE  SocksOK' /\ OwnedBySession
    BY <1>1, <1>2, <1>6, SocketStates, OneSocket DEF Subscribe
  <1>7. ASSUME NEW s \in Sockets, Closes(s)
        PROVE  SocksOK' /\ OwnedBySession
    BY <1>1, <1>2, <1>3, <1>7, SocketStates, OneSocket DEF Closes
  <1>8. ASSUME NEW s \in Sockets, Forward(s)
        PROVE  SocksOK' /\ OwnedBySession
    <2> DEFINE k == sock[s]
               due == IF k.lagged THEN <<ResyncRequired, real>> ELSE <<real>>
               wire == k.wire \o due
               left == k.pending - 1
               n == [k EXCEPT !.pending = left, !.lagged = FALSE, !.wire = wire]
    <2>1. k.pending > 0 /\ Len(k.wire) < WireSize /\ current' = current
      BY <1>8 DEF Forward
    <2>2. real \in Frames /\ ResyncRequired \in Frames
      BY <1>1 DEF Frames
    <2>3. due \in Seq(Frames) /\ Len(due) <= 2
      BY <2>2
    <2>4. k \in SockState /\ k.wire \in Seq(Frames) /\ k.pending \in 0 .. QueueSize
      BY <1>2 DEF SockState
    <2>5. wire \in Seq(Frames) /\ Len(wire) <= WireSize + 1
      <3> HIDE DEF due, k
      <3>1. Len(k.wire \o due) = Len(k.wire) + Len(due) /\ k.wire \o due \in Seq(Frames)
        BY <2>3, <2>4
      <3>2. Len(k.wire) \in Nat /\ Len(due) \in Nat
        BY <2>3, <2>4
      <3> QED  BY <1>1, <2>1, <2>3, <3>1, <3>2
    <2>6. left \in 0 .. QueueSize
      <3> HIDE DEF k
      <3> QED  BY <1>1, <2>1, <2>4
    <2>7. sock' = [sock EXCEPT ![s] = n]
      BY <1>8 DEF Forward
    <2>8. n \in SockState /\ n.owner = k.owner /\ n.wire = wire
      <3> HIDE DEF wire, k, left
      <3> QED  BY <2>4, <2>5, <2>6 DEF SockState
    <2> QED  BY <1>1, <2>1, <2>5, <2>7, <2>8, OneSocket
  <1>9. ASSUME NEW s \in Sockets, Message(s)
        PROVE  SocksOK' /\ OwnedBySession
    <2> DEFINE k == sock[s]
               wire == Tail(k.wire)
    <2>1. k.wire # <<>> /\ current' = current /\ sock' = [sock EXCEPT ![s] = [k EXCEPT !.wire = wire]]
      BY <1>9 DEF Message
    <2>2. k \in SockState /\ k.wire \in Seq(Frames) /\ Len(k.wire) <= WireSize + 1
      BY <1>2 DEF SockState
    <2>3. wire \in Seq(Frames) /\ Len(wire) <= WireSize + 1
      <3> HIDE DEF k
      <3> QED  BY <1>1, <2>1, <2>2
    <2>4. [k EXCEPT !.wire = wire] \in SockState /\ [k EXCEPT !.wire = wire].owner = k.owner
          /\ [k EXCEPT !.wire = wire].wire = wire
      <3> HIDE DEF wire, k
      <3> QED  BY <2>2, <2>3 DEF SockState
    <2> QED  BY <1>1, <2>1, <2>3, <2>4, OneSocket
  <1>10. CASE Change
    <2>1. PICK n \in 1 .. MaxBurst : sock' = [s \in Sockets |-> Offered(sock[s], n)]
      BY <1>10 DEF Change
    <2>2. n \in Nat /\ current' = current
      BY <1>1, <1>10 DEF Change
    <2>3. \A s \in Sockets : /\ Offered(sock[s], n) \in SockState
                             /\ Offered(sock[s], n).owner = sock[s].owner
                             /\ Offered(sock[s], n).wire = sock[s].wire
      BY <1>2, <2>2, SocketStates
    <2> QED  BY <1>1, <2>1, <2>2, <2>3 DEF SocksOK, OwnedBySession
  <1>11. ASSUME NEW n \in Sessions, TicketArrives(n)
         PROVE  SocksOK' /\ OwnedBySession
    <2>1. CASE Stopped(n)
      BY <1>4, <1>11, <2>1 DEF TicketArrives
    <2>2. CASE ~ Stopped(n)
      <3>1. PICK s \in Sockets :
               /\ sock' = [sock EXCEPT ![s] = [NoSocket EXCEPT !.owner = n, !.phase = "dialed"]]
               /\ current' = s
        BY <1>11, <2>2 DEF TicketArrives, FreeSockets
      <3>2. n = sid /\ session = "in" /\ n \in 0 .. MaxSessions
        BY <1>1, <2>2 DEF Stopped
      <3> DEFINE k == [NoSocket EXCEPT !.owner = n, !.phase = "dialed"]
      <3>3. k \in SockState /\ k.owner = n /\ k.wire = <<>>
        BY <1>1, <1>2, <3>1, <3>2, SocketStates DEF SockState
      <3> HIDE DEF k
      <3>4. sock' = [sock EXCEPT ![s] = k]
        BY <3>1 DEF k
      <3> QED  BY <1>1, <1>3, <3>1, <3>2, <3>3, <3>4 DEF SocksOK, OwnedBySession
    <2> QED  BY <2>1, <2>2
  <1>12. ASSUME Cleared PROVE SocksOK' /\ OwnedBySession
    <2>1. /\ sock' = [s \in Sockets |-> IF s = current THEN NoSocket ELSE sock[s]]
          /\ current' = Nothing
      BY <1>12 DEF Cleared
    <2>2. \A s \in Sockets : NoSocket \in SockState /\ NoSocket.owner = 0 /\ NoSocket.wire = <<>>
      BY <1>2, SocketStates
    <2> QED  BY <1>1, <1>3, <2>1, <2>2 DEF SocksOK, OwnedBySession
  <1>13. ASSUME \/ RetryFires \/ Wake \/ Press \/ Drag \/ HoldExpires \/ StartSession
                \/ UNCHANGED vars
         PROVE  UNCHANGED sock /\ current' \in {current, Nothing}
    BY <1>13 DEF RetryFires, Wake, Press, Drag, HoldExpires, StartSession, vars, link
  <1>14. ASSUME NEW n \in Sessions, TicketFails(n)
         PROVE  UNCHANGED sock /\ current' \in {current, Nothing}
    BY <1>14 DEF TicketFails
  <1>15. ASSUME NEW f \in Fetches, Snapshot(f) \/ FetchReturns(f) \/ FetchFails(f)
         PROVE  UNCHANGED sock /\ current' \in {current, Nothing}
    BY <1>15 DEF Snapshot, FetchReturns, FetchFails, link
  <1>16. ASSUME NEW p \in flights, CommandReturns(p)
         PROVE  UNCHANGED sock /\ current' \in {current, Nothing}
    BY <1>16 DEF CommandReturns, link
  <1> QED  BY <1>4, <1>5, <1>6, <1>7, <1>8, <1>9, <1>10, <1>11, <1>12, <1>13, <1>14, <1>15,
              <1>16 DEF Next, SignOut, CommandUnauthenticated

-----------------------------------------------------------------------------
(* What is on its way to the page.                                         *)

\* Nothing the page has or gets is newer than the device.
PastInv ==
    /\ view # Nothing => view <= real
    /\ \A f \in Fetches : fetch[f].answer # Nothing => fetch[f].answer <= real
    /\ \A s \in Sockets : \A i \in 1 .. Len(sock[s].wire) :
          sock[s].wire[i] # ResyncRequired => sock[s].wire[i] <= real

\* The sockets of the session that is on are its own; while it starts it has none.
OwnerInv ==
    \A s \in Sockets : sock[s].owner <= sid /\ (session = "starting" => sock[s].owner < sid)

\* A snapshot request whose failure the user would be told of will be answered,
\* or is, with the device as it is.
Asked == \E f \in Fetches : /\ fetch[f].by \in {"session", "page"}
                            /\ fetch[f].answer \in {Nothing, real}
\* A socket will bring it, in a frame under way or one that is due.
Brings(s) ==
    /\ sock[s].subscribed
    /\ sock[s].pending > 0 \/ (sock[s].wire # <<>> /\ sock[s].wire[Len(sock[s].wire)] = real)

\* Without an excuse the card shows what the page has, and what the page does not
\* have yet comes by every open socket of the session or by a snapshot.
ArrivalInv ==
    excuses = {} =>
       /\ shown = view
       /\ session = "in" =>
            \A s \in Sockets : sock[s].owner = sid /\ sock[s].phase = "open" =>
                                  view = real \/ Asked \/ Brings(s)

\* A snapshot request after a command is under way.
Refreshing == \E f \in Fetches : fetch[f].by = "command"
\* Only a session that is on has a desired value on its card.  When the command of
\* that value was answered, the snapshot asked for after it will render the card
\* again, unless that failed or met a held card.
WornInv ==
    /\ worn => session = "in"
    /\ Stale => untold \/ "held" \in excuses \/ Refreshing

DeliveryInv == PastInv /\ OwnerInv /\ ArrivalInv

\* The session goes on, begins or ends; the device's changes are counted.
LEMMA SessionMoves ==
  ASSUME [Next]_vars
  PROVE  /\ \/ UNCHANGED <<session, sid>>
            \/ session' \in {"in", "out"} /\ sid' = sid
            \/ session' = "starting" /\ sid' = sid + 1
         /\ real' \in {real, real + 1}
  <1> DEFINE Goal == /\ \/ UNCHANGED <<session, sid>>
                        \/ session' \in {"in", "out"} /\ sid' = sid
                        \/ session' = "starting" /\ sid' = sid + 1
                     /\ real' \in {real, real + 1}
  <1>1. ASSUME NEW f \in Fetches, Snapshot(f) \/ FetchReturns(f) \/ FetchFails(f) PROVE Goal
    BY <1>1 DEF Snapshot, FetchReturns, FetchFails
  <1>2. ASSUME NEW n \in Sessions, TicketArrives(n) \/ TicketFails(n) PROVE Goal
    BY <1>2 DEF TicketArrives, TicketFails
  <1>3. ASSUME NEW s \in Sockets,
               Accept(s) \/ Subscribe(s) \/ Opens(s) \/ Closes(s) \/ Forward(s) \/ Message(s)
        PROVE  Goal
    BY <1>3 DEF Accept, Subscribe, Opens, Closes, Forward, Message
  <1>4. ASSUME NEW p \in flights, CommandReturns(p) \/ CommandUnauthenticated(p) PROVE Goal
    BY <1>4 DEF CommandReturns, CommandUnauthenticated, Cleared
  <1>5. CASE StartSession \/ SignOut \/ RetryFires \/ Wake
    BY <1>5 DEF StartSession, SignOut, Cleared, RetryFires, Wake
  <1>6. CASE Change \/ Press \/ Drag \/ HoldExpires \/ UNCHANGED vars
    BY <1>6 DEF Change, Press, Drag, HoldExpires, vars
  <1> QED  BY <1>1, <1>2, <1>3, <1>4, <1>5, <1>6 DEF Next

\* A session has its sockets from itself.
LEMMA StepOwner ==
  ASSUME Inv, OwnerInv, ConstantsOK, [Next]_vars
  PROVE  OwnerInv'
  <1>1. /\ SocksOK' /\ OwnedBySession
        /\ sid \in Nat /\ \A s \in Sockets : sock[s].owner \in Nat /\ sock'[s].owner \in Nat
    <2>1. SocksOK' /\ OwnedBySession
      BY StepSocks
    <2>2. MaxSessions \in Nat /\ sid \in 0 .. MaxSessions /\ sock \in [Sockets -> SockState]
      BY DEF Inv, SessionOK, LinkOK, ConstantsOK
    <2>3. \A k \in SockState : k.owner \in Nat
      BY <2>2 DEF SockState
    <2>4. \A s \in Sockets : sock[s] \in SockState /\ sock'[s] \in SockState
      BY <2>1, <2>2 DEF SocksOK
    <2> QED  BY <2>1, <2>2, <2>3, <2>4
  <1>3. session # "out" => sid > 0
    BY <1>1 DEF Inv, StartingInv, Sessions
  <1>4. CASE UNCHANGED <<session, sid>>
    BY <1>1, <1>3, <1>4 DEF OwnerInv, OwnedBySession
  <1>5. CASE session' \in {"in", "out"} /\ sid' = sid
    BY <1>1, <1>5 DEF OwnerInv, OwnedBySession
  <1>6. CASE session' = "starting" /\ sid' = sid + 1
    BY <1>1, <1>6 DEF OwnerInv, OwnedBySession
  <1> QED  BY <1>4, <1>5, <1>6, SessionMoves

\* What is known of the values the past is about.
LEMMA PastTypes ==
  ASSUME Inv, ConstantsOK, [Next]_vars
  PROVE  /\ real \in Nat /\ real' \in Nat /\ real <= real' /\ Nothing \notin Nat
         /\ ResyncRequired \notin Nat
         /\ view \in Nat \cup {Nothing} /\ view' \in Nat \cup {Nothing}
         /\ \A f \in Fetches : fetch[f].answer \in Nat \cup {Nothing}
         /\ \A s \in Sockets : sock[s].wire \in Seq(Frames)
         /\ Frames \subseteq Nat \cup {ResyncRequired} /\ real \in Frames
  <1>1. /\ Versions \subseteq Nat /\ Nothing \notin Nat /\ ResyncRequired \notin Nat
    BY DEF Versions, ConstantsOK
  <1>2. real \in Nat /\ view \in Nat \cup {Nothing} /\ view' \in Nat \cup {Nothing}
    BY <1>1, StepPage DEF Inv, SessionOK, PageOK
  <1>3. \A f \in Fetches : fetch[f].answer \in Nat \cup {Nothing}
    BY <1>1 DEF Inv, SessionOK, FetchState
  <1>4. \A s \in Sockets : sock[s].wire \in Seq(Frames)
    BY DEF Inv, LinkOK, SockState
  <1>6. Frames \subseteq Nat \cup {ResyncRequired}
    BY <1>1 DEF Frames
  <1>7. real \in Frames
    BY DEF Inv, SessionOK, Frames
  <1>5. real' \in Nat /\ real <= real'
    BY <1>2, SessionMoves
  <1> QED  BY <1>1, <1>2, <1>3, <1>4, <1>5, <1>6, <1>7

\* A frame under way that is one of the registry's past.
PastWire(w, v) == \A i \in 1 .. Len(w) : w[i] # ResyncRequired => w[i] <= v

\* Nothing from the future reaches the page.
LEMMA StepPast ==
  ASSUME Inv, PastInv, ConstantsOK, [Next]_vars
  PROVE  PastInv'
  <1>1. /\ real \in Nat /\ real' \in Nat /\ real <= real' /\ Nothing \notin Nat
        /\ ResyncRequired \notin Nat
        /\ view \in Nat \cup {Nothing} /\ view' \in Nat \cup {Nothing}
        /\ \A f \in Fetches : fetch[f].answer \in Nat \cup {Nothing}
    BY PastTypes
  <1>w. /\ \A s \in Sockets : sock[s].wire \in Seq(Frames)
        /\ Frames \subseteq Nat \cup {ResyncRequired} /\ real \in Frames
        /\ ResyncRequired \in Frames
    BY PastTypes DEF Frames
  <1>2. /\ fetch \in [Fetches -> FetchState] /\ sock \in [Sockets -> SockState]
        /\ sock' \in [Sockets -> SockState]
    BY StepSocks DEF Inv, SessionOK, LinkOK, SocksOK
  <1> DEFINE PView == view # Nothing => view <= real
             PFetch == \A f \in Fetches : fetch[f].answer # Nothing => fetch[f].answer <= real
             PSock == \A s \in Sockets : PastWire(sock[s].wire, real)
  <1>3. PView /\ PFetch /\ PSock
    BY DEF PastInv, PastWire
  <1>4. PView' /\ PFetch' /\ PSock' => PastInv'
    BY DEF PastInv, PastWire
  <1>5. UNCHANGED view => PView'
    BY <1>1, <1>3
  <1>6. ASSUME UNCHANGED fetch PROVE PFetch'
    BY <1>1, <1>3, <1>6
  <1>7. ASSUME NEW s \in Sockets, sock'[s].wire = sock[s].wire
        PROVE  PastWire(sock'[s].wire, real')
    <2> DEFINE w == sock[s].wire
    <2>1. w \in Seq(Frames) /\ PastWire(w, real)
      BY <1>w, <1>3
    <2>2. PastWire(w, real')
      <3> HIDE DEF w
      <3>1. \A i \in 1 .. Len(w) : w[i] \in Frames
        BY <2>1
      <3>2. ASSUME NEW i \in 1 .. Len(w), w[i] # ResyncRequired PROVE w[i] <= real'
        <4>1. w[i] \in Nat /\ w[i] <= real
          BY <1>w, <2>1, <3>1, <3>2 DEF PastWire
        <4> QED  BY <1>1, <4>1
      <3> QED  BY <3>2 DEF PastWire
    <2> QED  BY <1>7, <2>2
  <1>8. UNCHANGED sock => PSock'
    BY <1>7
  <1>9. ASSUME NEW by \in {"page", "session", "command"}, NEW f \in Fetches,
               fetch' = [fetch EXCEPT ![f].by = by]
        PROVE  PFetch'
    <2>1. \A g \in Fetches : fetch'[g].answer = fetch[g].answer
      BY <1>2, <1>9 DEF FetchState
    <2>2. ASSUME NEW g \in Fetches, fetch'[g].answer # Nothing PROVE fetch'[g].answer <= real'
      BY <1>1, <1>3, <2>1, <2>2
    <2> QED  BY <2>2
  <1>10. ASSUME Ask("page") \/ Ask("command") PROVE PFetch'
    BY <1>6, <1>9, <1>10 DEF Ask
  <1>11. ASSUME NEW f \in Fetches, fetch' = [fetch EXCEPT ![f] = NoFetch] PROVE PFetch'
    BY <1>1, <1>2, <1>3, <1>11 DEF NoFetch
  <1>12. ASSUME NEW s \in Sockets, NEW k \in SockState, sock' = [sock EXCEPT ![s] = k],
                PastWire(k.wire, real')
         PROVE  PSock'
    <2>1. \A t \in Sockets \ {s} : sock'[t] = sock[t]
      BY <1>2, <1>12
    <2>2. sock'[s] = k
      BY <1>2, <1>12
    <2> QED  BY <1>7, <1>12, <2>1, <2>2
  <1>13. PastWire(<<>>, real')
    BY DEF PastWire
  <1> HIDE DEF PView, PFetch, PSock
  <1>14. ASSUME NEW f \in Fetches, Snapshot(f) PROVE PView' /\ PFetch' /\ PSock'
    <2>1. \A g \in Fetches : fetch'[g].answer = (IF g = f THEN real ELSE fetch[g].answer)
      BY <1>2, <1>14 DEF Snapshot, FetchState
    <2>2. real' = real
      BY <1>14 DEF Snapshot
    <2>3. PFetch'
      BY <1>1, <1>3, <2>1, <2>2 DEF PFetch
    <2> QED  BY <1>5, <1>8, <1>14, <2>3 DEF Snapshot, page, card, link
  <1>15. ASSUME NEW f \in Fetches, FetchReturns(f) PROVE PView' /\ PFetch' /\ PSock'
    <2>1. view' = fetch[f].answer /\ real' = real /\ fetch[f].answer # Nothing
          /\ fetch' = [fetch EXCEPT ![f] = NoFetch] /\ UNCHANGED sock
      BY <1>15 DEF FetchReturns, Receive
    <2>2. PView'
      BY <1>1, <1>3, <2>1 DEF PView, PFetch
    <2> QED  BY <1>8, <1>11, <2>1, <2>2
  <1>16. ASSUME NEW f \in Fetches, FetchFails(f) PROVE PView' /\ PFetch' /\ PSock'
    BY <1>5, <1>8, <1>11, <1>16 DEF FetchFails, link
  <1>17. CASE StartSession
    <2>1. PICK f \in Fetches : fetch' = [fetch EXCEPT ![f].by = "session"]
      BY <1>17 DEF StartSession
    <2>2. PFetch'
      BY <1>9, <2>1
    <2>3. UNCHANGED <<view, sock>>
      BY <1>17 DEF StartSession, page, card
    <2> QED  BY <1>4, <1>5, <1>8, <2>2, <2>3
  <1>18. ASSUME Cleared PROVE PView' /\ PFetch' /\ PSock'
    <2>1. \A s \in Sockets : sock'[s] = NoSocket \/ sock'[s] = sock[s]
      BY <1>18 DEF Cleared
    <2>2. PSock'
      BY <1>7, <1>13, <2>1 DEF NoSocket, PSock
    <2>3. view' = Nothing /\ UNCHANGED fetch
      BY <1>18 DEF Cleared
    <2> QED  BY <1>6, <2>2, <2>3 DEF PView
  <1>19. ASSUME NEW n \in Sessions, TicketArrives(n) PROVE PView' /\ PFetch' /\ PSock'
    <2>1. \/ UNCHANGED sock
          \/ \E s \in Sockets :
                sock' = [sock EXCEPT ![s] = [NoSocket EXCEPT !.owner = n, !.phase = "dialed"]]
      BY <1>19 DEF TicketArrives, FreeSockets
    <2>2. ASSUME NEW s \in Sockets,
                 sock' = [sock EXCEPT ![s] = [NoSocket EXCEPT !.owner = n, !.phase = "dialed"]]
          PROVE  PSock'
      <3>1. \A t \in Sockets : sock'[t].wire = sock[t].wire \/ sock'[t].wire = <<>>
        BY <1>2, <2>2 DEF NoSocket
      <3> QED  BY <1>7, <1>13, <3>1 DEF PSock
    <2> QED  BY <1>5, <1>6, <1>8, <1>19, <2>1, <2>2 DEF TicketArrives, page, card
  <1>20. ASSUME NEW n \in Sessions, TicketFails(n) PROVE PView' /\ PFetch' /\ PSock'
    BY <1>5, <1>6, <1>8, <1>20 DEF TicketFails, page, card
  <1>21. CASE RetryFires \/ Wake
    <2>1. UNCHANGED <<view, sock>> /\ (UNCHANGED fetch \/ Ask("page"))
      BY <1>21 DEF RetryFires, Wake, page, card
    <2> QED  BY <1>4, <1>5, <1>6, <1>8, <1>10, <2>1
  <1>22. ASSUME NEW s \in Sockets, Accept(s) \/ Subscribe(s) \/ Opens(s) \/ Closes(s)
         PROVE  PView' /\ PFetch' /\ PSock'
    <2>1. \A t \in Sockets : sock'[t].wire = sock[t].wire \/ sock'[t].wire = <<>>
      <3>1. CASE Accept(s)
        BY <1>2, <3>1 DEF Accept, SockState
      <3>4. CASE Opens(s)
        BY <1>2, <3>4 DEF Opens, SockState
      <3>2. CASE Subscribe(s)
        BY <1>2, <3>2 DEF Subscribe, SockState
      <3>3. CASE Closes(s)
        BY <1>2, <3>3 DEF Closes, NoSocket
      <3> QED  BY <1>22, <3>1, <3>2, <3>3, <3>4
    <2>2. PSock'
      BY <1>7, <1>13, <2>1 DEF PSock
    <2> QED  BY <1>5, <1>6, <1>10, <1>22, <2>2 DEF Accept, Subscribe, Opens, Closes, page, card
  <1>23. ASSUME NEW s \in Sockets, Forward(s) PROVE PView' /\ PFetch' /\ PSock'
    <2> DEFINE w == sock[s].wire
               due == IF sock[s].lagged THEN <<ResyncRequired, real>> ELSE <<real>>
    <2>1. real' = real /\ UNCHANGED <<fetch, view>>
      BY <1>23 DEF Forward, page, card
    <2>2. sock'[s].wire = w \o due /\ \A t \in Sockets \ {s} : sock'[t] = sock[t]
      BY <1>2, <1>23 DEF Forward, SockState
    <2>3. due \in Seq(Frames) /\ PastWire(due, real)
      <3>1. <<ResyncRequired, real>> \in Seq(Frames) /\ PastWire(<<ResyncRequired, real>>, real)
        BY <1>1, <1>w DEF PastWire
      <3>2. <<real>> \in Seq(Frames) /\ PastWire(<<real>>, real)
        BY <1>1, <1>w DEF PastWire
      <3> QED  BY <3>1, <3>2
    <2>4. PastWire(w \o due, real)
      <3>1. w \in Seq(Frames) /\ PastWire(w, real)
        BY <1>w, <1>3 DEF PSock
      <3> HIDE DEF w, due
      <3> QED  BY <2>3, <3>1 DEF PastWire
    <2>5. PastWire(sock'[s].wire, real')
      BY <2>1, <2>2, <2>4
    <2>6. PSock'
      BY <1>7, <2>2, <2>5 DEF PSock
    <2> QED  BY <1>5, <1>6, <2>1, <2>6
  <1>24. ASSUME NEW s \in Sockets, Message(s) PROVE PView' /\ PFetch' /\ PSock'
    <2> DEFINE w == sock[s].wire
    <2>1. real' = real /\ w # <<>> /\ w \in Seq(Frames) /\ PastWire(w, real)
      BY <1>w, <1>3, <1>24 DEF Message, PSock
    <2>2. sock'[s].wire = Tail(w) /\ \A t \in Sockets \ {s} : sock'[t] = sock[t]
      BY <1>2, <1>24 DEF Message, SockState
    <2>3. PastWire(Tail(w), real) /\ (Head(w) # ResyncRequired => Head(w) \in Nat /\ Head(w) <= real)
      <3> HIDE DEF w
      <3>1. /\ Head(w) = w[1] /\ 1 \in 1 .. Len(w) /\ Head(w) \in Frames
            /\ \A i \in 1 .. Len(Tail(w)) : Tail(w)[i] = w[i + 1] /\ i + 1 \in 1 .. Len(w)
        BY <2>1
      <3> QED  BY <1>w, <2>1, <3>1 DEF PastWire
    <2>4. PSock'
      <3>1. PastWire(sock'[s].wire, real')
        BY <2>1, <2>2, <2>3
      <3> QED  BY <1>7, <2>2, <3>1 DEF PSock
    <2>5. CASE Head(w) = ResyncRequired
      BY <1>5, <1>10, <1>24, <2>4, <2>5 DEF Message, page, card
    <2>6. CASE Head(w) # ResyncRequired
      <3>1. view' = Head(w) /\ UNCHANGED fetch
        BY <1>24, <2>6 DEF Message, Receive
      <3> QED  BY <1>6, <2>1, <2>3, <2>4, <2>6, <3>1 DEF PView
    <2> QED  BY <2>5, <2>6
  <1>25. CASE Change
    <2>1. PICK n \in 1 .. MaxBurst : sock' = [s \in Sockets |-> Offered(sock[s], n)]
      BY <1>25 DEF Change
    <2>2. n \in Nat /\ UNCHANGED <<view, fetch>>
      BY <1>25 DEF Change, ConstantsOK, card
    <2>3. \A s \in Sockets : sock'[s].wire = sock[s].wire
      BY <1>2, <2>1, <2>2, SocketStates
    <2>4. PSock'
      BY <1>7, <2>3 DEF PSock
    <2> QED  BY <1>4, <1>5, <1>6, <2>2, <2>4
  <1>26. CASE Press \/ Drag \/ HoldExpires
    <2>1. UNCHANGED <<view, fetch, sock>>
      BY <1>26 DEF Press, Drag, HoldExpires, Submit, Rendered, card, link
    <2> QED  BY <1>4, <1>5, <1>6, <1>8, <2>1
  <1>27. ASSUME NEW p \in flights, CommandReturns(p) PROVE PView' /\ PFetch' /\ PSock'
    BY <1>5, <1>6, <1>8, <1>10, <1>27 DEF CommandReturns, Submit, Rendered, card, link
  <1>28. CASE UNCHANGED vars
    <2>1. UNCHANGED <<view, fetch, sock>>
      BY <1>28 DEF vars, page, card, link
    <2> QED  BY <1>4, <1>5, <1>6, <1>8, <2>1
  <1> QED  BY <1>4, <1>14, <1>15, <1>16, <1>17, <1>18, <1>19, <1>20, <1>21, <1>22, <1>23,
              <1>24, <1>25, <1>26, <1>27, <1>28 DEF Next, SignOut, CommandUnauthenticated

\* When no excuse is left after a step, the page has just met the device, or it
\* had no excuse before and differed from the device already.
LEMMA PageStep ==
  ASSUME Inv, DeliveryInv, ConstantsOK, [Next]_vars, excuses' = {}
  PROVE  /\ shown' = view'
         /\ view' = real' \/ real' # real \/ session' # "in" \/ (excuses = {} /\ view # real)
  <1> DEFINE Goal == /\ shown' = view'
                     /\ \/ view' = real' \/ real' # real \/ session' # "in"
                        \/ excuses = {} /\ view # real
  <1>1. /\ real \in Nat /\ Nothing \notin Nat /\ view \in Nat \cup {Nothing}
        /\ \A f \in Fetches : fetch[f].answer \in Nat \cup {Nothing}
        /\ view # Nothing => view <= real
        /\ \A f \in Fetches : fetch[f].answer # Nothing => fetch[f].answer <= real
        /\ excuses = {} => shown = view
    BY PastTypes DEF DeliveryInv, PastInv, ArrivalInv
  <1>2. ASSUME UNCHANGED <<view, shown, excuses>> PROVE Goal
    BY <1>1, <1>2
  <1>3. ASSUME Rendered, real' = real PROVE Goal
    <2>1. view' = view /\ shown' = view'
      BY <1>3 DEF Rendered, Patch
    <2>2. view' = real \/ excuses = {}
      BY <1>3 DEF Rendered
    <2> QED  BY <1>3, <2>1, <2>2
  <1>4. ASSUME NEW v \in Nat, NEW force, Receive(v, force), v <= real, real' = real PROVE Goal
    <2>1. view' = v
      BY <1>4 DEF Receive
    <2> DEFINE stale == worn' /\ desired = Nothing
    <2>4. excuses' = IF {view', shown'} = {real} /\ ~stale THEN {}
                     ELSE excuses \cup (IF view # Nothing /\ v < view THEN {"overtaken"} ELSE {})
                                  \cup (IF shown' # v \/ stale THEN {"held"} ELSE {})
      BY <1>4 DEF Receive
    <2>2. CASE {view', shown'} = {real}
      BY <1>4, <2>2
    <2>3. CASE {view', shown'} # {real}
      <3>1. excuses = {} /\ ~ (view # Nothing /\ v < view) /\ shown' = v
        BY <2>3, <2>4
      <3> QED  BY <1>1, <1>4, <2>1, <3>1
    <2> QED  BY <2>2, <2>3
  <1>5. ASSUME Cleared PROVE Goal
    BY <1>5 DEF Cleared
  <1>6. ASSUME NEW f \in Fetches, FetchReturns(f) PROVE Goal
    <2>1. fetch[f].answer \in Nat /\ fetch[f].answer <= real /\ real' = real
          /\ Receive(fetch[f].answer, view = Nothing)
      BY <1>1, <1>6 DEF FetchReturns
    <2> QED  BY <1>4, <2>1
  <1>7. ASSUME NEW f \in Fetches, FetchFails(f) PROVE Goal
    <2>1. /\ UNCHANGED <<view, shown>> /\ excuses = {}
          /\ real' = real
      BY <1>7 DEF FetchFails
    <2> QED  BY <1>1, <2>1
  <1>8. ASSUME NEW s \in Sockets, Message(s) PROVE Goal
    <2> DEFINE w == sock[s].wire
    <2>1. real' = real /\ w # <<>> /\ w \in Seq(Frames) /\ Frames \subseteq Nat \cup {ResyncRequired}
      BY <1>8, PastTypes DEF Message
    <2>2. CASE Head(w) = ResyncRequired
      BY <1>2, <1>8, <2>2 DEF Message, page, card
    <2>3. CASE Head(w) # ResyncRequired
      <3>1. Head(w) = w[1] /\ 1 \in 1 .. Len(w) /\ Head(w) \in Frames
        <4> HIDE DEF w
        <4> QED  BY <2>1
      <3>2. Head(w) \in Nat /\ Head(w) <= real
        BY <2>1, <2>3, <3>1 DEF DeliveryInv, PastInv
      <3>3. Receive(Head(w), FALSE)
        BY <1>8, <2>3 DEF Message
      <3> HIDE DEF w
      <3> QED  BY <1>4, <2>1, <3>2, <3>3
    <2> QED  BY <2>2, <2>3
  <1>9. ASSUME Change PROVE Goal
    <2>1. UNCHANGED <<view, shown>> /\ real' = real + 1 /\ excuses = {}
      BY <1>9 DEF Change, card
    <2> QED  BY <1>1, <2>1
  <1>10. ASSUME Press PROVE Goal
    <2>1. Rendered /\ real' = real
      BY <1>10 DEF Press, Submit
    <2> QED  BY <1>3, <2>1
  <1>11. ASSUME NEW p \in flights, CommandReturns(p) PROVE Goal
    <2>1. real' = real /\ (Rendered \/ UNCHANGED <<view, shown, excuses>>)
      BY <1>11 DEF CommandReturns, Submit, card
    <2> QED  BY <1>2, <1>3, <2>1
  <1>12. ASSUME NEW f \in Fetches, Snapshot(f) PROVE Goal
    BY <1>2, <1>12 DEF Snapshot, page, card
  <1>13. ASSUME NEW n \in Sessions, TicketArrives(n) \/ TicketFails(n) PROVE Goal
    BY <1>2, <1>13 DEF TicketArrives, TicketFails, page, card
  <1>14. ASSUME NEW s \in Sockets,
                Accept(s) \/ Subscribe(s) \/ Opens(s) \/ Closes(s) \/ Forward(s)
         PROVE  Goal
    BY <1>2, <1>14 DEF Accept, Subscribe, Opens, Closes, Forward, page, card
  <1>15. ASSUME StartSession \/ RetryFires \/ Wake \/ Drag \/ HoldExpires \/ UNCHANGED vars
         PROVE  Goal
    BY <1>2, <1>15 DEF StartSession, RetryFires, Wake, Drag, HoldExpires, vars, page, card
  <1> HIDE DEF Goal
  <1>16. Goal
    BY <1>5, <1>6, <1>7, <1>8, <1>9, <1>10, <1>11, <1>12, <1>13, <1>14, <1>15
       DEF Next, SignOut, CommandUnauthenticated
  <1> QED  BY <1>16 DEF Goal

\* The end of a sequence: of one to which one or two elements are appended, and of
\* one whose head is taken.
LEMMA LastOfConcat ==
  ASSUME NEW S, NEW w \in Seq(S), NEW d \in Seq(S), Len(d) \in {1, 2}
  PROVE  w \o d # <<>> /\ (w \o d)[Len(w \o d)] = d[Len(d)]
  <1>1. w \o d \in Seq(S) /\ Len(w \o d) = Len(w) + Len(d) /\ Len(w) \in Nat
    OBVIOUS
  <1>2. (w \o d)[Len(w) + Len(d)] = d[Len(d)]
    <2>1. CASE Len(d) = 1
      BY <1>1, <2>1
    <2>2. CASE Len(d) = 2
      BY <1>1, <2>2
    <2> QED  BY <2>1, <2>2
  <1> QED  BY <1>1, <1>2

LEMMA LastOfTail ==
  ASSUME NEW S, NEW w \in Seq(S), Len(w) > 1
  PROVE  Tail(w) # <<>> /\ Tail(w)[Len(Tail(w))] = w[Len(w)]
  <1>1. Len(w) \in Nat /\ w # <<>>
    OBVIOUS
  <1>2. Len(Tail(w)) = Len(w) - 1 /\ \A i \in 1 .. Len(w) - 1 : Tail(w)[i] = w[i + 1]
    BY <1>1
  <1>3. Len(w) - 1 \in 1 .. Len(w) - 1 /\ (Len(w) - 1) + 1 = Len(w)
    BY <1>1
  <1>4. Tail(w)[Len(w) - 1] = w[Len(w)]
    <2>1. Tail(w)[Len(w) - 1] = w[(Len(w) - 1) + 1]
      BY <1>2, <1>3
    <2> QED  BY <1>3, <2>1
  <1>5. Tail(w) \in Seq(S) /\ Len(Tail(w)) # 0
    BY <1>1, <1>2
  <1>6. Tail(w) # <<>>
    <2> DEFINE t == Tail(w)
    <2>1. t \in Seq(S) /\ Len(t) # 0
      BY <1>5
    <2> HIDE DEF t
    <2>2. t # <<>>
      BY <2>1
    <2> QED  BY <2>2 DEF t
  <1> QED  BY <1>2, <1>4, <1>6

\* What an open socket of the session owed the page it still owes, or the page has
\* it.
LEMMA StepArrival ==
  ASSUME Inv, DeliveryInv, ConstantsOK, [Next]_vars
  PROVE  ArrivalInv'
  <1>1. SUFFICES ASSUME excuses' = {}, session' = "in",
                        NEW s \in Sockets, sock'[s].owner = sid', sock'[s].phase = "open",
                        view' # real'
                 PROVE  Asked' \/ Brings(s)'
    BY PageStep DEF ArrivalInv
  <1> DEFINE Goal == Asked' \/ Brings(s)'
  <1>2. real' # real \/ (excuses = {} /\ view # real)
    BY <1>1, PageStep
  <1>3. /\ fetch \in [Fetches -> FetchState] /\ sock \in [Sockets -> SockState]
        /\ \A t \in Sockets : sock[t].pending \in Nat /\ sock[t].wire \in Seq(Frames)
        /\ real \in Nat /\ sid \in Nat
    <2>1. \A k \in SockState : k.pending \in Nat /\ k.wire \in Seq(Frames)
      BY DEF SockState, ConstantsOK
    <2>2. MaxSessions \in Nat
      BY DEF ConstantsOK
    <2> QED  BY <2>1, <2>2, PastTypes DEF Inv, SessionOK, LinkOK
  <1>4. ASSUME real' = real, session = "in", sock[s].owner = sid, sock[s].phase = "open"
        PROVE  Asked \/ Brings(s)
    BY <1>2, <1>4 DEF DeliveryInv, ArrivalInv
  <1>5. ASSUME real' = real, UNCHANGED fetch, Asked PROVE Asked'
    BY <1>5 DEF Asked
  <1>6. ASSUME real' = real, sock'[s] = sock[s], Brings(s) PROVE Brings(s)'
    BY <1>6 DEF Brings
  <1>7. ASSUME Ask("page"), session = "in" PROVE Asked'
    <2>1. PICK f \in Fetches : fetch[f] = NoFetch /\ fetch' = [fetch EXCEPT ![f].by = "page"]
      BY <1>7 DEF Ask
    <2>2. fetch'[f].by = "page" /\ fetch'[f].answer = Nothing
      BY <1>3, <2>1 DEF FetchState, NoFetch
    <2> QED  BY <2>2 DEF Asked
  <1>26. ASSUME real' = real, Ask("command"), Asked PROVE Asked'
    <2>1. PICK g \in Fetches : /\ fetch[g].by \in {"session", "page"}
                               /\ fetch[g].answer \in {Nothing, real}
      BY <1>26 DEF Asked
    <2>2. fetch'[g] = fetch[g]
      BY <1>3, <1>26, <2>1 DEF Ask, NoFetch
    <2> QED  BY <1>26, <2>1, <2>2 DEF Asked
  <1>8. ASSUME real' = real, UNCHANGED <<session, sid>>, sock'[s] = sock[s],
               UNCHANGED fetch \/ Ask("page") \/ Ask("command")
        PROVE  Goal
    <2>1. session = "in" /\ sock[s].owner = sid /\ sock[s].phase = "open"
      BY <1>1, <1>8
    <2> QED  BY <1>4, <1>5, <1>6, <1>7, <1>8, <1>26, <2>1
  <1>9. ASSUME NEW f \in Fetches, Snapshot(f) PROVE Goal
    <2>1. /\ fetch'[f].by = fetch[f].by /\ fetch'[f].answer = real /\ real' = real
          /\ \A g \in Fetches \ {f} : fetch'[g] = fetch[g]
          /\ UNCHANGED <<session, sid, sock>>
      BY <1>3, <1>9 DEF Snapshot, FetchState, link
    <2>2. Asked => Asked'
      BY <2>1 DEF Asked
    <2> QED  BY <1>1, <1>4, <1>6, <2>1, <2>2
  <1>10. ASSUME NEW f \in Fetches, FetchReturns(f) PROVE Goal
    <2>1. /\ real' = real /\ sid' = sid /\ sock' = sock /\ view' = fetch[f].answer
          /\ fetch[f].answer # Nothing /\ fetch' = [fetch EXCEPT ![f] = NoFetch]
      BY <1>10 DEF FetchReturns, Receive
    <2>2. session = "in"
      <3>1. session # "starting"
        BY <1>1, <1>3, <2>1 DEF DeliveryInv, OwnerInv
      <3>2. fetch[f].by # "session"
        BY <3>1 DEF Inv, StartingInv
      <3> QED  BY <1>1, <1>10, <3>2 DEF FetchReturns
    <2>3. Asked => Asked'
      <3>1. ASSUME NEW g \in Fetches, fetch[g].by \in {"session", "page"},
                   fetch[g].answer \in {Nothing, real}
            PROVE  Asked'
        <4>1. g # f
          BY <1>1, <2>1, <3>1
        <4>2. fetch'[g] = fetch[g]
          BY <1>3, <2>1, <4>1
        <4> QED  BY <2>1, <3>1, <4>2 DEF Asked
      <3> QED  BY <3>1 DEF Asked
    <2> QED  BY <1>1, <1>4, <1>6, <2>1, <2>2, <2>3
  <1>11. ASSUME NEW f \in Fetches, FetchFails(f) PROVE Goal
    <2>1. /\ real' = real /\ UNCHANGED <<sid, sock>> /\ fetch' = [fetch EXCEPT ![f] = NoFetch]
          /\ fetch[f].by # "session" /\ session = "in"
      BY <1>1, <1>11 DEF FetchFails, link
    <2>2. fetch[f].by # "page"
      BY <1>1, <1>11, <2>1 DEF FetchFails
    <2>3. \A g \in Fetches \ {f} : fetch'[g] = fetch[g]
      BY <1>3, <2>1
    <2>4. Asked => Asked'
      BY <2>1, <2>2, <2>3 DEF Asked
    <2> QED  BY <1>1, <1>4, <1>6, <2>1, <2>4
  <1>12. ASSUME NEW n \in Sessions, TicketArrives(n) PROVE Goal
    <2>1. real' = real /\ UNCHANGED <<session, sid, fetch>>
      BY <1>12 DEF TicketArrives
    <2>2. ASSUME NEW t \in Sockets,
                 sock' = [sock EXCEPT ![t] = [NoSocket EXCEPT !.owner = n, !.phase = "dialed"]]
          PROVE  sock'[s] = sock[s] \/ sock'[s].phase = "dialed"
      BY <1>3, <2>2 DEF NoSocket
    <2>3. sock'[s] = sock[s] \/ sock'[s].phase = "dialed"
      BY <1>12, <2>2 DEF TicketArrives, FreeSockets
    <2> QED  BY <1>1, <1>8, <2>1, <2>3
  <1>13. ASSUME NEW n \in Sessions, TicketFails(n) PROVE Goal
    BY <1>8, <1>13 DEF TicketFails
  <1>14. ASSUME RetryFires \/ Wake PROVE Goal
    <2>1. real' = real /\ UNCHANGED <<session, sid>> /\ sock' = sock
          /\ (UNCHANGED fetch \/ Ask("page"))
      BY <1>14 DEF RetryFires, Wake
    <2> QED  BY <1>8, <2>1
  <1>15. ASSUME NEW t \in Sockets, Accept(t) PROVE Goal
    <2>1. real' = real /\ UNCHANGED <<session, sid, fetch>> /\ sock'[t].phase = "accepted"
          /\ (s # t => sock'[s] = sock[s])
      BY <1>3, <1>15 DEF Accept, SockState
    <2> QED  BY <1>1, <1>8, <2>1
  <1>16. ASSUME NEW t \in Sockets, Subscribe(t) PROVE Goal
    <2>1. real' = real /\ UNCHANGED <<session, sid, fetch>> /\ ~ sock[t].subscribed
          /\ (s # t => sock'[s] = sock[s])
          /\ sock'[t].phase = sock[t].phase /\ sock'[t].owner = sock[t].owner
      BY <1>3, <1>16 DEF Subscribe, SockState
    <2>2. CASE s # t
      BY <1>8, <2>1, <2>2
    <2>3. CASE s = t
      <3>1. ~ Brings(s)
        BY <2>1, <2>3 DEF Brings
      <3>2. session = "in" /\ sock[s].owner = sid /\ sock[s].phase = "open"
        BY <1>1, <2>1, <2>3
      <3> QED  BY <1>4, <1>5, <2>1, <3>1, <3>2
    <2> QED  BY <2>2, <2>3
  <1>17. ASSUME NEW t \in Sockets, Opens(t) PROVE Goal
    <2>1. Ask("page") /\ session' = session
      BY <1>17 DEF Opens
    <2> QED  BY <1>1, <1>7, <2>1
  <1>18. ASSUME NEW t \in Sockets, Closes(t) PROVE Goal
    <2>1. real' = real /\ UNCHANGED <<session, sid, fetch>> /\ sock'[t].phase = "none"
          /\ (s # t => sock'[s] = sock[s])
      BY <1>3, <1>18 DEF Closes, NoSocket
    <2> QED  BY <1>1, <1>8, <2>1
  <1>19. ASSUME NEW t \in Sockets, Forward(t) PROVE Goal
    <2> DEFINE w == sock[t].wire
               due == IF sock[t].lagged THEN <<ResyncRequired, real>> ELSE <<real>>
    <2>1. /\ real' = real /\ UNCHANGED <<session, sid, fetch>>
          /\ s # t => sock'[s] = sock[s]
          /\ sock'[t].phase = sock[t].phase /\ sock'[t].owner = sock[t].owner
          /\ sock'[t].subscribed = sock[t].subscribed /\ sock'[t].wire = w \o due
      BY <1>3, <1>19 DEF Forward, SockState
    <2>2. CASE s # t
      BY <1>8, <2>1, <2>2
    <2>3. CASE s = t
      <3>1. session = "in" /\ sock[s].owner = sid /\ sock[s].phase = "open"
        BY <1>1, <2>1, <2>3
      <3>2. w \o due # <<>> /\ (w \o due)[Len(w \o due)] = real
        <4>1. w \in Seq(Frames) /\ real \in Frames /\ ResyncRequired \in Frames
          BY <1>3, PastTypes DEF Frames
        <4>2. due \in Seq(Frames) /\ Len(due) \in {1, 2} /\ due[Len(due)] = real
          <5>1. CASE sock[t].lagged
            BY <4>1, <5>1
          <5>2. CASE ~ sock[t].lagged
            BY <4>1, <5>2
          <5> QED  BY <5>1, <5>2
        <4> HIDE DEF w, due
        <4> QED  BY <4>1, <4>2, LastOfConcat
      <3>3. Brings(s) => Brings(s)'
        BY <2>1, <2>3, <3>2 DEF Brings
      <3> QED  BY <1>4, <1>5, <2>1, <3>1, <3>3
    <2> QED  BY <2>2, <2>3
  <1>20. ASSUME NEW t \in Sockets, Message(t) PROVE Goal
    <2> DEFINE w == sock[t].wire
    <2>1. /\ real' = real /\ UNCHANGED <<session, sid>> /\ w # <<>>
          /\ s # t => sock'[s] = sock[s]
          /\ sock'[t].phase = sock[t].phase /\ sock'[t].owner = sock[t].owner
          /\ sock'[t].subscribed = sock[t].subscribed /\ sock'[t].wire = Tail(w)
          /\ sock'[t].pending = sock[t].pending
      BY <1>3, <1>20 DEF Message, SockState
    <2>2. CASE Head(w) = ResyncRequired
      BY <1>1, <1>7, <1>20, <2>1, <2>2 DEF Message
    <2>3. CASE Head(w) # ResyncRequired
      <3>1. view' = Head(w) /\ UNCHANGED fetch
        BY <1>20, <2>3 DEF Message, Receive
      <3>2. CASE s # t
        BY <1>8, <2>1, <3>1, <3>2
      <3>3. CASE s = t
        <4>1. session = "in" /\ sock[s].owner = sid /\ sock[s].phase = "open"
          BY <1>1, <2>1, <3>3
        <4>2. ASSUME w[Len(w)] = real PROVE Tail(w) # <<>> /\ Tail(w)[Len(Tail(w))] = real
          <5>1. Head(w) # real /\ w \in Seq(Frames)
            BY <1>1, <1>3, <2>1, <3>1
          <5> HIDE DEF w
          <5>2. Len(w) \in Nat /\ Len(w) > 1
            BY <2>1, <4>2, <5>1
          <5> QED  BY <4>2, <5>1, <5>2, LastOfTail
        <4>3. Brings(s) => Brings(s)'
          BY <2>1, <3>3, <4>2 DEF Brings
        <4> QED  BY <1>4, <1>5, <2>1, <3>1, <4>1, <4>3
      <3> QED  BY <3>2, <3>3
    <2> QED  BY <2>2, <2>3
  <1>21. ASSUME Change PROVE Goal
    <2>1. PICK n \in 1 .. MaxBurst : sock' = [t \in Sockets |-> Offered(sock[t], n)]
      BY <1>21 DEF Change
    <2>2. n \in Nat /\ n > 0 /\ QueueSize \in Nat /\ QueueSize > 0
      BY DEF ConstantsOK
    <2>3. sock'[s] = Offered(sock[s], n)
      BY <2>1
    <2>4. CASE sock[s].subscribed
      <3>1. sock'[s].subscribed /\ sock'[s].pending > 0
        <4> DEFINE p == IF sock[s].pending + n > QueueSize THEN QueueSize ELSE sock[s].pending + n
        <4>1. p > 0
          BY <1>3, <2>2
        <4>2. sock'[s].subscribed = sock[s].subscribed /\ sock'[s].pending = p
          <5> DEFINE late == sock[s].lagged \/ sock[s].pending + n > QueueSize
          <5>1. sock'[s] = [sock[s] EXCEPT !.pending = p, !.lagged = late]
            BY <2>3, <2>4 DEF Offered
          <5> HIDE DEF p, late
          <5> QED  BY <1>3, <5>1 DEF SockState
        <4> QED  BY <2>4, <4>1, <4>2
      <3> QED  BY <3>1 DEF Brings
    <2>5. CASE ~ sock[s].subscribed
      <3>1. sock[s].phase = "open"
        BY <1>1, <2>3, <2>5 DEF Offered
      <3>3. session = "in" /\ sock[s].owner = sid
        BY <1>1, <1>21, <2>3, <2>5 DEF Change, Offered
      <3>2. "gap" \in excuses'
        BY <1>21, <2>5, <3>1, <3>3 DEF Change
      <3> QED  BY <1>1, <3>2
    <2> QED  BY <2>4, <2>5
  <1>22. ASSUME Press \/ Drag \/ HoldExpires \/ UNCHANGED vars PROVE Goal
    <2>1. real' = real /\ UNCHANGED <<session, sid>> /\ sock' = sock /\ UNCHANGED fetch
      BY <1>22 DEF Press, Drag, HoldExpires, vars, link
    <2> QED  BY <1>8, <2>1
  <1>23. ASSUME NEW p \in flights, CommandReturns(p) PROVE Goal
    <2>1. real' = real /\ UNCHANGED <<session, sid>> /\ sock' = sock
          /\ (UNCHANGED fetch \/ Ask("command"))
      BY <1>23 DEF CommandReturns, link
    <2> QED  BY <1>8, <2>1
  <1>24. ASSUME StartSession \/ SignOut \/ \E p \in flights : CommandUnauthenticated(p) PROVE Goal
    BY <1>1, <1>24 DEF StartSession, SignOut, CommandUnauthenticated, Cleared
  <1> HIDE DEF Goal
  <1>25. Goal
    BY <1>9, <1>10, <1>11, <1>12, <1>13, <1>14, <1>15, <1>16, <1>17, <1>18, <1>19, <1>20,
       <1>21, <1>22, <1>23, <1>24 DEF Next
  <1> QED  BY <1>25 DEF Goal

-----------------------------------------------------------------------------
(* The desired value on the card.                                          *)

\* Where the card is not touched, what excuses its desired value stays.
WornStays ==
    /\ UNCHANGED <<worn, untold, desired, session>>
    /\ excuses \subseteq excuses'
    /\ Refreshing => Refreshing'

\* A snapshot request more takes none away, and one after a command is one.
LEMMA AskRefreshes ==
  ASSUME Inv, NEW by \in {"page", "command"}, Ask(by)
  PROVE  /\ Refreshing => Refreshing'
         /\ by = "command" /\ session = "in" => Refreshing'
  <1>1. fetch \in [Fetches -> FetchState]
    BY DEF Inv, SessionOK
  <1>2. CASE session = "out"
    BY <1>2 DEF Ask, Refreshing
  <1>3. CASE session # "out"
    <2>1. PICK f \in Fetches : fetch[f] = NoFetch /\ fetch' = [fetch EXCEPT ![f].by = by]
      BY <1>3 DEF Ask
    <2>2. fetch'[f].by = by /\ \A g \in Fetches \ {f} : fetch'[g] = fetch[g]
      BY <1>1, <2>1 DEF FetchState
    <2>3. fetch[f].by # "command"
      BY <2>1 DEF NoFetch
    <2> QED  BY <2>2, <2>3 DEF Refreshing
  <1> QED  BY <1>2, <1>3

\* A rendering, or its being withheld, leaves no unexcused desired value.
LEMMA ReceiveWorn ==
  ASSUME Inv, WornInv, NEW v, NEW force, Receive(v, force), UNCHANGED desired,
         session' = "in" \/ UNCHANGED session
  PROVE  WornInv'
  <1>1. worn' = worn \/ worn' = (desired # Nothing)
    BY DEF Receive, Patch
  <1>2. desired # Nothing => session = "in"
    BY DEF Inv, ControlOK, ControlInv
  <1>3. worn' => session' = "in"
    BY <1>1, <1>2 DEF WornInv
  <1>4. Stale' => "held" \in excuses'
    BY DEF Receive, Stale
  <1> QED  BY <1>3, <1>4 DEF WornInv

\* The desired value of an answered command does not stay unexcused.
LEMMA StepWorn ==
  ASSUME Inv, WornInv, ConstantsOK, [Next]_vars
  PROVE  WornInv'
  <1>1. fetch \in [Fetches -> FetchState]
    BY DEF Inv, SessionOK
  <1>2. ASSUME WornStays PROVE WornInv'
    BY <1>2 DEF WornStays, WornInv, Stale
  <1>3. CASE UNCHANGED <<card, excuses, desired, session, fetch>>
    BY <1>2, <1>3 DEF WornStays, card, Refreshing
  <1>4. ASSUME NEW f \in Fetches, Snapshot(f) PROVE WornInv'
    <2>1. \A g \in Fetches : fetch'[g].by = fetch[g].by
      BY <1>1, <1>4 DEF Snapshot, FetchState
    <2>2. UNCHANGED <<card, excuses, desired, session>>
      BY <1>4 DEF Snapshot, page, control
    <2> QED  BY <1>2, <2>1, <2>2 DEF WornStays, card, Refreshing
  <1>5. ASSUME NEW f \in Fetches, FetchReturns(f) PROVE WornInv'
    <2>1. Receive(fetch[f].answer, view = Nothing) /\ UNCHANGED desired
          /\ (session' = "in" \/ UNCHANGED session)
      BY <1>5 DEF FetchReturns, control
    <2> QED  BY <2>1, ReceiveWorn
  <1>6. ASSUME NEW f \in Fetches, FetchFails(f) PROVE WornInv'
    <2>1. /\ UNCHANGED <<worn, desired>> /\ excuses \subseteq excuses'
          /\ fetch' = [fetch EXCEPT ![f] = NoFetch]
          /\ untold' = (untold \/ (fetch[f].by = "command" /\ Stale))
          /\ session' = IF fetch[f].by = "session" THEN "out" ELSE session
      BY <1>6 DEF FetchFails, control
    <2>2. fetch[f].by = "session" => ~ worn
      BY DEF Inv, StartingInv, WornInv
    <2>3. worn' => session' = "in"
      BY <2>1, <2>2 DEF WornInv
    <2>4. fetch[f].by # "command" /\ Refreshing => Refreshing'
      <3>1. \A g \in Fetches \ {f} : fetch'[g] = fetch[g]
        BY <1>1, <2>1
      <3> QED  BY <3>1 DEF Refreshing
    <2>5. Stale' => Stale
      BY <2>1 DEF Stale
    <2>6. CASE fetch[f].by = "command"
      BY <2>1, <2>3, <2>5, <2>6 DEF WornInv
    <2>7. CASE fetch[f].by # "command"
      BY <2>1, <2>3, <2>4, <2>5, <2>7 DEF WornInv
    <2> QED  BY <2>6, <2>7
  <1>7. ASSUME NEW s \in Sockets, Message(s) PROVE WornInv'
    <2>1. UNCHANGED <<session, desired>>
      BY <1>7 DEF Message, control
    <2>2. CASE Head(sock[s].wire) = ResyncRequired
      <3>1. Ask("page") /\ UNCHANGED <<card, excuses>>
        BY <1>7, <2>2 DEF Message, page
      <3> QED  BY <1>2, <2>1, <3>1, AskRefreshes DEF WornStays, card
    <2>3. CASE Head(sock[s].wire) # ResyncRequired
      <3>1. Receive(Head(sock[s].wire), FALSE)
        BY <1>7, <2>3 DEF Message
      <3> QED  BY <2>1, <3>1, ReceiveWorn
    <2> QED  BY <2>2, <2>3
  <1>8. ASSUME Wake \/ \E s \in Sockets : Opens(s) PROVE WornInv'
    <2>1. /\ UNCHANGED <<session, desired, card, excuses>>
          /\ (UNCHANGED fetch \/ Ask("page"))
      BY <1>8 DEF Wake, Opens, page, control
    <2>2. Refreshing => Refreshing'
      BY <2>1, AskRefreshes DEF Refreshing
    <2> QED  BY <1>2, <2>1, <2>2 DEF WornStays, card
  <1>9. CASE Change
    BY <1>2, <1>9 DEF Change, WornStays, card, control, Refreshing
  <1>10. CASE Press
    <2>1. desired' = presses' /\ presses' # Nothing /\ UNCHANGED session /\ session = "in"
      <3>1. presses' \in Nat /\ Nothing \notin Nat
        BY <1>10 DEF Press, Inv, ControlOK, ConstantsOK
      <3> QED  BY <1>10, <3>1 DEF Press, Submit
    <2> QED  BY <2>1 DEF WornInv, Stale
  <1>11. ASSUME NEW p \in flights, CommandReturns(p) PROVE WornInv'
    <2>1. UNCHANGED session /\ session \in {"out", "starting", "in"}
      BY <1>11 DEF CommandReturns, Inv, SessionOK
    <2>2. CASE queued # Nothing
      <3>1. desired' = queued /\ worn' = TRUE
        BY <1>11, <2>2 DEF CommandReturns, Submit, Rendered, Patch
      <3>2. session = "in"
        BY <2>2 DEF Inv, ControlOK, ControlInv
      <3> QED  BY <2>1, <2>2, <3>1, <3>2 DEF WornInv, Stale
    <2>3. CASE queued = Nothing
      <3>1. Ask("command") /\ UNCHANGED card
        BY <1>11, <2>3 DEF CommandReturns
      <3>2. worn' => session = "in"
        BY <3>1 DEF WornInv, card
      <3>3. session = "in" => Refreshing'
        BY <3>1, AskRefreshes
      <3>4. Stale' => worn'
        BY DEF Stale
      <3> QED  BY <2>1, <3>2, <3>3, <3>4 DEF WornInv
    <2> QED  BY <2>2, <2>3
  <1>12. ASSUME Cleared PROVE WornInv'
    BY <1>12 DEF Cleared, WornInv, Stale
  <1>13. CASE StartSession
    <2>1. /\ UNCHANGED <<card, excuses, desired>> /\ session = "out"
      BY <1>13 DEF StartSession, page
    <2>2. ~ worn'
      BY <2>1 DEF WornInv, card
    <2> QED  BY <2>2 DEF WornInv, Stale
  <1>14. ASSUME NEW n \in Sessions, TicketArrives(n) \/ TicketFails(n) PROVE WornInv'
    BY <1>3, <1>14 DEF TicketArrives, TicketFails, page, control
  <1>15. ASSUME NEW s \in Sockets, Accept(s) \/ Subscribe(s) \/ Closes(s) \/ Forward(s)
         PROVE  WornInv'
    BY <1>3, <1>15 DEF Accept, Subscribe, Closes, Forward, page, control
  <1>16. CASE RetryFires \/ Drag \/ HoldExpires \/ UNCHANGED vars
    BY <1>3, <1>16 DEF RetryFires, Drag, HoldExpires, vars, page, control
  <1> QED  BY <1>4, <1>5, <1>6, <1>7, <1>8, <1>9, <1>10, <1>11, <1>12, <1>13, <1>14, <1>15,
              <1>16 DEF Next, SignOut, CommandUnauthenticated

-----------------------------------------------------------------------------
(* The theorems.                                                           *)

\* The page starts with nothing under way.
LEMMA InitInv == ConstantsOK /\ Init => Inv
  <1> SUFFICES ASSUME ConstantsOK, Init PROVE Inv
    OBVIOUS
  <1>1. NoFetch \in FetchState /\ NoFetch.by = "nobody" /\ NoFetch.answer = Nothing
    BY DEF NoFetch, FetchState
  <1>2. NoSocket \in SockState /\ NoSocket.owner = 0 /\ NoSocket.wire = <<>>
    BY DEF NoSocket, SockState, ConstantsOK
  <1>3. 0 \in Versions /\ WireSize \in Nat /\ MaxDials \in Nat /\ MaxSessions \in Nat
        /\ MaxTroubles \in Nat /\ MaxPresses \in Nat
    BY DEF Versions, ConstantsOK
  <1>4. /\ crossed \in BOOLEAN /\ retry \in BOOLEAN /\ held \in BOOLEAN /\ busy \in BOOLEAN
        /\ worn \in BOOLEAN /\ untold \in BOOLEAN
        /\ ~ crossed /\ ~ retry /\ ~ held /\ ~ busy
    BY DEF Init
  <1>5. /\ real = 0 /\ troubles = 0 /\ session = "out" /\ sid = 0
        /\ dialing = [n \in Sessions |-> 0] /\ sock = [s \in Sockets |-> NoSocket]
        /\ current = Nothing /\ fetch = [f \in Fetches |-> NoFetch]
        /\ view = Nothing /\ shown = Nothing /\ excuses = {}
        /\ desired = Nothing /\ queued = Nothing /\ flights = {} /\ presses = 0 /\ lastSent = 0
    BY DEF Init
  <1>6. SessionOK /\ StartingInv
    BY <1>1, <1>3, <1>4, <1>5 DEF SessionOK, StartingInv
  <1>7. LinkOK
    <2>1. sock \in [Sockets -> SockState] /\ \A s \in Sockets : Len(sock[s].wire) <= WireSize + 1
      <3>1. Len(<<>>) <= WireSize + 1
        BY <1>3
      <3> QED  BY <1>2, <1>5, <3>1
    <2> QED  BY <1>3, <1>4, <1>5, <2>1 DEF LinkOK
  <1>8. PageOK /\ ControlOK /\ ControlInv
    BY <1>3, <1>4, <1>5 DEF PageOK, ControlOK, ControlInv
  <1> QED  BY <1>6, <1>7, <1>8 DEF Inv

\* Every step preserves the invariant.
LEMMA StepInv == Inv /\ ConstantsOK /\ [Next]_vars => Inv'
  <1> SUFFICES ASSUME Inv, ConstantsOK, [Next]_vars PROVE Inv'
    OBVIOUS
  <1>1. SessionOK' /\ StartingInv'
    BY StepFetches, StepDials, StepSession
       DEF SessionOK, StartingInv, FetchesOK, DialsOK
  <1>2. LinkOK'
    BY StepDials, StepSocks DEF LinkOK, SocksOK
  <1> QED  BY <1>1, <1>2, StepPage, StepControl DEF Inv

\* The invariant holds of every behaviour.
LEMMA InvHolds == Spec => []Inv
  BY ConstantsOK, InitInv, StepInv, PTL DEF Spec

\* Every variable of the page and of its connections stays in its set.
THEOREM TypeCorrect == Spec => []TypeOK
  <1>1. Inv => TypeOK
    BY TypeParts DEF Inv
  <1> QED  BY <1>1, InvHolds, PTL

\* What was submitted last, when a control is free, is what was pressed last
\* (execute in app.js), for any number of presses, sessions and failures.
THEOREM LastPressWinsHolds == Spec => []LastPressWins
  <1>1. Inv => LastPressWins
    BY DEF Inv, ControlInv, LastPressWins
  <1> QED  BY <1>1, InvHolds, PTL

\* A control has one command under way at most, and is busy just as long
\* (execute in app.js), unless a session began with a command of an earlier one.
THEOREM OneCommandHolds == Spec => []OneCommandInFlight
  <1>1. Inv => OneCommandInFlight
    BY DEF Inv, SessionOK, ControlInv, OneCommandInFlight
  <1> QED  BY <1>1, InvHolds, PTL

\* With everything arrived, the card shows the device, or there is one of the
\* reasons of which the user is told or that DivergesOnlyWithExcuse names; and it
\* has the desired value of an answered command only where the refresh after that
\* command failed, silently (app.js:156), or an update was withheld (live.js,
\* refreshDevices, patchDevice and execute in app.js): for any number of sockets,
\* sessions, bursts and lost events.
THEOREM DivergesOnlyWithExcuseHolds == Spec => []DivergesOnlyWithExcuse
  <1>1. Init => DeliveryInv /\ WornInv
    <2> SUFFICES ASSUME Init PROVE DeliveryInv /\ WornInv
      OBVIOUS
    <2>1. /\ view = Nothing /\ shown = Nothing /\ session = "out" /\ sid = 0 /\ ~ worn
          /\ \A f \in Fetches : fetch[f].answer = Nothing
          /\ \A s \in Sockets : sock[s].wire = <<>> /\ sock[s].owner = 0
      BY DEF Init, NoFetch, NoSocket
    <2> QED  BY <2>1 DEF DeliveryInv, PastInv, OwnerInv, ArrivalInv, WornInv, Stale
  <1>2. Inv /\ DeliveryInv /\ WornInv /\ ConstantsOK /\ [Next]_vars => DeliveryInv' /\ WornInv'
    BY StepPast, StepOwner, StepArrival, StepWorn DEF DeliveryInv
  <1>3. Inv /\ DeliveryInv /\ WornInv => DivergesOnlyWithExcuse
    <2> SUFFICES ASSUME Inv, DeliveryInv, WornInv, Quiet
                 PROVE  /\ shown # real => excuses # {}
                        /\ Stale => untold \/ "held" \in excuses
      BY DEF DivergesOnlyWithExcuse
    <2>1. PICK s \in Sockets : sock[s].owner = sid /\ sock[s].phase = "open"
                               /\ sock[s].pending = 0 /\ sock[s].wire = <<>>
      BY DEF Quiet
    <2>2. ~ Brings(s) /\ session = "in"
      BY <2>1 DEF Quiet, Brings
    <2>3. ~ Asked /\ ~ Refreshing
      BY DEF Quiet, Asked, Refreshing, NoFetch
    <2>4. ASSUME shown # real PROVE excuses # {}
      BY <2>1, <2>2, <2>3, <2>4 DEF DeliveryInv, ArrivalInv
    <2>5. ASSUME Stale PROVE untold \/ "held" \in excuses
      BY <2>3, <2>5 DEF WornInv
    <2> QED  BY <2>4, <2>5
  <1> QED  BY <1>1, <1>2, <1>3, ConstantsOK, InvHolds, PTL DEF Spec

\* A stopped LiveConnection opens no socket and has no retry (live.js), in
\* whatever order tickets, sign-outs, lost sockets and wake-ups come.
THEOREM StoppedHolds == Spec => StoppedStaysStopped
  <1>1. Inv /\ ConstantsOK /\ [Next]_vars =>
           [/\ retry' => session' = "in"
            /\ \A s \in Sockets : sock'[s].owner # 0 /\ sock[s].owner = 0 =>
                                     session = "in" /\ sock'[s].owner = sid]_vars
    <2>1. Inv /\ ConstantsOK /\ [Next]_vars => Inv'
      BY StepInv
    <2> QED  BY <2>1, StepSocks DEF Inv, StartingInv, OwnedBySession
  <1> QED  BY <1>1, ConstantsOK, InvHolds, PTL DEF Spec, StoppedStaysStopped

=============================================================================
