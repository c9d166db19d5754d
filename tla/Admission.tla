------------------------------ MODULE Admission ------------------------------
(***************************************************************************)
(* Who may use the gateway, and how often: the WebSocket tickets           *)
(* (auth/tickets.py), the token buckets (ratelimit.py) and the requests    *)
(* that use them (api/deps.py, api/v1/auth.py, the handshake of ws.py).    *)
(*                                                                         *)
(* The HTTP handlers and dependencies are plain functions, which FastAPI   *)
(* runs in worker threads; the handshake runs on the event loop.  Both     *)
(* structures are used without a lock.  A thread may be preempted at a     *)
(* call or a loop iteration, so a step here is the code between two of     *)
(* those.  A mapping that changes under an iteration raises.               *)
(*                                                                         *)
(* Time is counted in ticks of the refill of a bucket: a bucket gains one  *)
(* unit per tick and a request costs Cost units.  The wall clock may be    *)
(* set to anything.  A ticket is its serial number.                        *)
(***************************************************************************)
EXTENDS Integers, FiniteSets

CONSTANTS
    Workers,        \* worker threads
    Clients,        \* registered clients that are not revoked
    Nobody,         \* what an unknown or missing credential stands for
    Peers,          \* addresses requests come from
    MaxOutstanding, \* _MAX_OUTSTANDING
    TTL,            \* TICKET_TTL_SECONDS
    Burst,          \* burst of the limiters, in requests
    Cost,           \* units of a request
    MaxKeys,        \* max_keys
    MaxTime,        \* bound: readings of the clock
    MaxClockSteps,  \* bound: times the clock changes
    MaxRequests     \* bound: requests

\* The ones for clients are in a table of their own, as are those for peers.
Limiters == {"auth", "command"}

ASSUME NamesDiffer == Nobody \notin Clients /\ "loop" \notin Workers
ASSUME SizesOK ==
    /\ IsFiniteSet(Workers)
    /\ {MaxOutstanding, TTL, Cost, MaxKeys} \subseteq Nat \ {0}
    /\ Burst \in Nat \ {0} /\ MaxTime \in Nat /\ MaxClockSteps \in Nat /\ MaxRequests \in Nat

VARIABLES
    now,       \* what Clock.now() says
    clocks,    \* number of changes of the clock
    requests,  \* number of requests so far
    thread,    \* what each thread is doing: [pc, client, peer, offered, read,
               \* disturbed, doomed, ticket, limiter, key, bucket, amount]
    tickets,   \* TicketStore._tickets: [ticket, principal, expires, nth]
    drawn,     \* number of tickets drawn
    returned,  \* tickets that clients know
    issues,    \* history: [principal, expires] of each of them
    granted,   \* history: handshakes by ticket: [request, ticket, principal, at]
    table,     \* RateLimiter._buckets: [limiter, key, bucket, nth]
    buckets    \* the _Bucket objects: [tokens, updated], and as history the
               \* number of requests it let pass and whether it refused one

clock == <<now, clocks>>
history == <<issues, granted>>
store == <<tickets, drawn, returned, history>>
limiter == <<table, buckets>>
vars == <<clock, requests, thread, store, limiter>>

Threads == Workers \cup {"loop"}
NoTicket == -1
\* A ticket nobody was ever given.
Guess == 0
Smallest(a, b) == IF a < b THEN a ELSE b
Largest(a, b) == IF a < b THEN b ELSE a

\* Mappings keep their entries in the order of nth.
Oldest(entries) == CHOOSE e \in entries : \A f \in entries : e.nth <= f.nth
Newest(entries) == CHOOSE e \in entries : \A f \in entries : e.nth >= f.nth
End(entries) == IF entries = {} THEN 1 ELSE Newest(entries).nth + 1

Stored == {e.ticket : e \in tickets}
Entry(l, k, b, nth) == [limiter |-> l, key |-> k, bucket |-> b, nth |-> nth]
Entries(l) == {e \in table : e.limiter = l}
EntryFor(l, k) == {e \in table : e.limiter = l /\ e.key = k}

\* A thread without a request; the locals of a call end with it.
Idle == [pc |-> "idle", client |-> Nobody, peer |-> Nobody, offered |-> NoTicket, read |-> 0,
         disturbed |-> FALSE, doomed |-> {}, ticket |-> NoTicket,
         limiter |-> "none", key |-> Nobody, bucket |-> 0, amount |-> 0]

Init ==
    /\ now = 0 /\ clocks = 0 /\ requests = 0
    /\ thread = [t \in Threads |-> Idle]
    /\ tickets = {} /\ drawn = 0 /\ returned = {} /\ issues = <<>> /\ granted = {}
    /\ table = {} /\ buckets = <<>>

SetClock(n) ==
    /\ clocks < MaxClockSteps /\ clocks' = clocks + 1
    /\ n # now /\ now' = n
    /\ UNCHANGED <<requests, thread, store, limiter>>

At(t, place) == thread[t].pc = place

-----------------------------------------------------------------------------
(* What a thread does next, as the record it becomes.                      *)

Going(r, place) == [r EXCEPT !.pc = place]
\* RateLimiter.allow begins: it reads the clock.
Asking(r, l, k) == [Going(r, "look") EXCEPT !.limiter = l, !.key = k, !.read = now]
\* TicketStore.issue or redeem begins: it reads the clock.
Opening(r) == [Going(r, "prune") EXCEPT !.read = now]

Becomes(t, r) == thread' = [thread EXCEPT ![t] = r]
\* The request ends, with its answer or with an exception nothing handles.
Ends(t) == Becomes(t, Idle)

\* The thread goes on and the tickets change, which the others notice if they
\* are iterating over them.
BecomesDisturbing(t, r) ==
    thread' = [u \in Threads |-> IF u = t THEN r
                                 ELSE IF At(u, "pruning") \/ At(u, "walking")
                                 THEN [thread[u] EXCEPT !.disturbed = TRUE] ELSE thread[u]]

-----------------------------------------------------------------------------
(* Requests.                                                               *)

Arrives(t) ==
    /\ At(t, "idle") /\ requests < MaxRequests /\ requests' = requests + 1
    /\ UNCHANGED <<clock, store, limiter>>

By(client, peer) == [Idle EXCEPT !.client = client, !.peer = peer]

\* HTTP requests of a registered client.  The registry of clients never changes.
IssueTicket(t, c, peer) ==
    /\ Arrives(t) /\ t # "loop"
    /\ Becomes(t, Opening(By(c, peer)))

SubmitCommand(t, c, peer) ==
    /\ Arrives(t) /\ t # "loop"
    /\ Becomes(t, Asking(By(c, peer), "command", c))

\* A request or handshake with a credential that is not known.  Only failures
\* count against the limit of the peer.
Unauthenticated(t, peer) ==
    /\ Arrives(t)
    /\ Becomes(t, Asking(By(Nobody, peer), "auth", peer))

\* A handshake by ticket; with a known bearer token it leaves nothing behind.
Handshake(k, peer) ==
    /\ Arrives("loop")
    /\ Becomes("loop", Opening([By(Nobody, peer) EXCEPT !.offered = k]))

-----------------------------------------------------------------------------
(* TicketStore.                                                            *)

\* _prune collects what has expired while it iterates.
Prune(t) ==
    /\ At(t, "prune")
    /\ Becomes(t, [Going(thread[t], "pruning") EXCEPT
            !.disturbed = FALSE,
            !.doomed = {e.ticket : e \in {x \in tickets : x.expires <= thread[t].read}}])
    /\ UNCHANGED <<clock, requests, store, limiter>>

Pruned(t) ==
    /\ At(t, "pruning")
    /\ IF thread[t].disturbed THEN Ends(t) ELSE Becomes(t, Going(thread[t], "deleting"))
    /\ UNCHANGED <<clock, requests, store, limiter>>

\* A ticket another thread has deleted meanwhile raises KeyError.
DeleteExpired(t, k) ==
    /\ At(t, "deleting") /\ k \in thread[t].doomed
    /\ IF k \in Stored
       THEN /\ tickets' = {e \in tickets : e.ticket # k}
            /\ BecomesDisturbing(t, [thread[t] EXCEPT !.doomed = @ \ {k}])
       ELSE Ends(t) /\ UNCHANGED tickets
    /\ UNCHANGED <<clock, requests, drawn, returned, history, limiter>>

\* Slip: the room is looked for too late by one.
SlipDraw(t) ==
    /\ At(t, "deleting") /\ thread[t].doomed = {} /\ t # "loop"
    /\ drawn' = drawn + 1
    /\ Becomes(t, [thread[t] EXCEPT
            !.ticket = drawn + 1,
            !.pc = IF Cardinality(tickets) > MaxOutstanding THEN "evict" ELSE "insert"])
    /\ UNCHANGED <<clock, requests, tickets, returned, history, limiter>>

\* issue draws a ticket and looks whether there is room for it.
Draw(t) ==
    /\ At(t, "deleting") /\ thread[t].doomed = {} /\ t # "loop"
    /\ drawn' = drawn + 1
    /\ Becomes(t, [thread[t] EXCEPT
            !.ticket = drawn + 1,
            !.pc = IF Cardinality(tickets) >= MaxOutstanding THEN "evict" ELSE "insert"])
    /\ UNCHANGED <<clock, requests, tickets, returned, history, limiter>>

\* popitem raises when the mapping has become empty.
Evict(t) ==
    /\ At(t, "evict")
    /\ IF tickets = {} THEN Ends(t) /\ UNCHANGED tickets
       ELSE /\ tickets' = tickets \ {Oldest(tickets)}
            /\ BecomesDisturbing(t, Going(thread[t], "insert"))
    /\ UNCHANGED <<clock, requests, drawn, returned, history, limiter>>

Insert(t) ==
    /\ At(t, "insert")
    /\ LET k == thread[t].ticket
           issued == [principal |-> thread[t].client, expires |-> thread[t].read + TTL]
       IN  /\ tickets' = tickets \cup {[ticket |-> k, principal |-> issued.principal,
                                        expires |-> issued.expires, nth |-> End(tickets)]}
           /\ issues' = [x \in DOMAIN issues \cup {k} |-> IF x = k THEN issued ELSE issues[x]]
           /\ returned' = returned \cup {k}
    /\ BecomesDisturbing(t, Idle)
    /\ UNCHANGED <<clock, requests, drawn, granted, limiter>>

\* redeem compares the ticket with every candidate.
Walk(t) ==
    /\ At(t, "deleting") /\ thread[t].doomed = {} /\ t = "loop"
    /\ Becomes(t, [Going(thread[t], "walking") EXCEPT
            !.disturbed = FALSE,
            !.ticket = IF thread[t].offered \in Stored THEN thread[t].offered ELSE NoTicket])
    /\ UNCHANGED <<clock, requests, store, limiter>>

Walked(t) ==
    /\ At(t, "walking")
    /\ IF thread[t].disturbed THEN Ends(t)
       ELSE IF thread[t].ticket = NoTicket
            THEN Becomes(t, Asking(thread[t], "auth", thread[t].peer))
            ELSE Becomes(t, Going(thread[t], "redeem"))
    /\ UNCHANGED <<clock, requests, store, limiter>>

\* Slip: the accepted ticket stays in the store.
SlipRedeem(t) ==
    /\ At(t, "redeem") /\ Ends(t)
    /\ \E e \in tickets :
          /\ e.ticket = thread[t].ticket
          /\ granted' = granted \cup {[request |-> requests, ticket |-> e.ticket,
                                       principal |-> e.principal, at |-> thread[t].read]}
    /\ UNCHANGED <<clock, requests, tickets, drawn, returned, issues, limiter>>

\* It is deleted, which raises if it is gone, and accepted unless it has
\* expired.
Redeem(t) ==
    /\ At(t, "redeem")
    /\ \/ /\ thread[t].ticket \notin Stored
          /\ Ends(t) /\ UNCHANGED <<tickets, granted>>
       \/ \E e \in tickets :
             /\ e.ticket = thread[t].ticket /\ tickets' = tickets \ {e}
             /\ IF e.expires <= thread[t].read
                THEN /\ BecomesDisturbing(t, Asking(thread[t], "auth", thread[t].peer))
                     /\ UNCHANGED granted
                ELSE /\ BecomesDisturbing(t, Idle)
                     /\ granted' = granted \cup {[request |-> requests, ticket |-> e.ticket,
                                     principal |-> e.principal, at |-> thread[t].read]}
    /\ UNCHANGED <<clock, requests, drawn, returned, issues, limiter>>

-----------------------------------------------------------------------------
(* RateLimiter.allow.                                                      *)

Asked(t) == EntryFor(thread[t].limiter, thread[t].key)

Look(t) ==
    /\ At(t, "look")
    /\ \/ Asked(t) = {} /\ Becomes(t, Going(thread[t], "room"))
       \/ \E e \in Asked(t) :
             Becomes(t, [Going(thread[t], "touch") EXCEPT !.bucket = e.bucket])
    /\ UNCHANGED <<clock, requests, store, limiter>>

Room(t) ==
    /\ At(t, "room")
    /\ Becomes(t, Going(thread[t], IF Cardinality(Entries(thread[t].limiter)) >= MaxKeys
                                   THEN "drop" ELSE "create"))
    /\ UNCHANGED <<clock, requests, store, limiter>>

\* The mapping loses its least recently used key.
Drop(t) ==
    /\ At(t, "drop")
    /\ LET entries == Entries(thread[t].limiter)
       IN  IF entries = {} THEN Ends(t) /\ UNCHANGED table
           ELSE /\ table' = table \ {Oldest(entries)}
                /\ Becomes(t, Going(thread[t], "create"))
    /\ UNCHANGED <<clock, requests, store, buckets>>

\* A new bucket is full, and this request is taken from it.  A bucket another
\* thread has put there meanwhile is replaced, in its place.
Create(t) ==
    /\ At(t, "create") /\ Ends(t)
    /\ LET r == thread[t]
           b == Cardinality(DOMAIN buckets) + 1
           nth == IF Asked(t) = {} THEN End(Entries(r.limiter)) ELSE Oldest(Asked(t)).nth
       IN  /\ buckets' = [x \in DOMAIN buckets \cup {b} |->
                IF x = b THEN [tokens |-> (Burst - 1) * Cost, updated |-> r.read,
                               taken |-> 1, refused |-> FALSE]
                ELSE buckets[x]]
           /\ table' = (table \ Asked(t)) \cup
                {Entry(r.limiter, r.key, b, nth)}
    /\ UNCHANGED <<clock, requests, store>>

\* move_to_end raises when another thread has evicted the key.
Touch(t) ==
    /\ At(t, "touch")
    /\ IF Asked(t) = {} THEN Ends(t) /\ UNCHANGED table
       ELSE /\ table' = (table \ Asked(t)) \cup
                  {Entry(e.limiter, e.key, e.bucket, End(Entries(e.limiter))) : e \in Asked(t)}
            /\ Becomes(t, Going(thread[t], "elapse"))
    /\ UNCHANGED <<clock, requests, store, buckets>>

Elapse(t) ==
    /\ At(t, "elapse")
    /\ Becomes(t, [Going(thread[t], "refill") EXCEPT
            !.amount = Largest(0, thread[t].read - buckets[thread[t].bucket].updated)])
    /\ UNCHANGED <<clock, requests, store, limiter>>

\* Slip: the refill replaces what was there.
SlipRefill(t) ==
    /\ At(t, "refill")
    /\ Becomes(t, [Going(thread[t], "store") EXCEPT !.amount = Smallest(Burst * Cost, @)])
    /\ UNCHANGED <<clock, requests, store, limiter>>

Refill(t) ==
    /\ At(t, "refill")
    /\ Becomes(t, [Going(thread[t], "store") EXCEPT
            !.amount = Smallest(Burst * Cost, buckets[thread[t].bucket].tokens + @)])
    /\ UNCHANGED <<clock, requests, store, limiter>>

\* The tokens are stored; the request takes Cost of them or is refused.
Store(t) ==
    /\ At(t, "store") /\ Ends(t)
    /\ LET b == thread[t].bucket
           tokens == thread[t].amount
       IN  buckets' = [buckets EXCEPT ![b] =
              IF tokens < Cost
              THEN [tokens |-> tokens, updated |-> thread[t].read,
                    taken |-> @.taken, refused |-> TRUE]
              ELSE [tokens |-> tokens - Cost, updated |-> thread[t].read,
                    taken |-> @.taken + 1, refused |-> @.refused]]
    /\ UNCHANGED <<clock, requests, store, table>>

-----------------------------------------------------------------------------

Requested ==
    \E p \in Peers :
       \/ \E t \in Threads : Unauthenticated(t, p)
       \/ \E t \in Threads, c \in Clients : IssueTicket(t, c, p) \/ SubmitCommand(t, c, p)
       \/ \E k \in returned \cup {Guess} : Handshake(k, p)

Tickets(t) ==
    \/ Prune(t) \/ Pruned(t) \/ Draw(t) \/ Evict(t) \/ Insert(t)
    \/ \E k \in thread[t].doomed : DeleteExpired(t, k)
    \/ Walk(t) \/ Walked(t) \/ Redeem(t)

Allow(t) ==
    \/ Look(t) \/ Room(t) \/ Drop(t) \/ Create(t)
    \/ Touch(t) \/ Elapse(t) \/ Refill(t) \/ Store(t)

Next ==
    \/ \E n \in 0 .. MaxTime : SetClock(n)
    \/ Requested
    \/ \E t \in Threads : Tickets(t) \/ Allow(t)

Spec == Init /\ [][Next]_vars

-----------------------------------------------------------------------------
(* Properties.                                                             *)

Places == {"idle", "prune", "pruning", "deleting", "evict", "insert", "walking", "redeem",
           "look", "room", "drop", "create", "touch", "elapse", "refill", "store"}

\* The variables stay in their sets and the two mappings within their bounds,
\* which threads that look for room at the same time (TicketStore.issue,
\* RateLimiter.allow) can exceed, by one per thread but the first.
TypeOK ==
    /\ now \in 0 .. MaxTime /\ DOMAIN thread = Threads
    /\ \A t \in Threads : thread[t].pc \in Places /\ thread[t].read \in 0 .. MaxTime
    /\ returned \subseteq 1 .. drawn /\ Stored \subseteq returned
    /\ \A e, f \in tickets : e.ticket = f.ticket => e = f
    /\ \A e, f \in table : e.limiter = f.limiter /\ e.key = f.key => e = f
    /\ \A e \in table : e.bucket \in DOMAIN buckets
    /\ \A b \in DOMAIN buckets : buckets[b].tokens \in 0 .. Burst * Cost
    /\ Cardinality(tickets) <= MaxOutstanding + Cardinality(Workers) - 1
    /\ \A l \in Limiters : Cardinality(Entries(l)) <= MaxKeys + Cardinality(Threads) - 1

\* A ticket opens one connection at most, for the client it was issued to and
\* before its time is over by the clock, whichever threads issue, prune and
\* evict while TicketStore.redeem is at work.
TicketsHonoured ==
    /\ \A g, h \in granted : g.ticket = h.ticket => g = h
    /\ \A g \in granted :
          /\ g.ticket \in DOMAIN issues
          /\ g.principal = issues[g.ticket].principal
          /\ g.at < issues[g.ticket].expires

\* A bucket turns down nobody before it has let a whole burst pass: not when
\* two threads refill it at once, when its key was evicted or when the clock is
\* set back in between (RateLimiter.allow).  Threads that overlap may get more
\* than a burst, never less.
NeverRefusedEarly ==
    \A b \in DOMAIN buckets : buckets[b].refused => buckets[b].taken >= Burst

=============================================================================
