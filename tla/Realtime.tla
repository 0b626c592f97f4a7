------------------------------ MODULE Realtime ------------------------------
(***************************************************************************)
(* The in-app inbox of one subscriber, live: the workers that deliver      *)
(* in-app, the feed in MongoDB, Redis Pub/Sub, the hub of the WebSocket    *)
(* server with a reading and a writing goroutine per connection, and       *)
(* presence.                                                               *)
(*                                                                         *)
(* Every line that touches the database, Redis or a channel is a step. The *)
(* send channel holds Buffer messages (64 in the code): the hub drops what *)
(* does not fit, the reader waits. A peer may close its connection or fall *)
(* silent; a silent peer is noticed by a write or a ping that times out,   *)
(* and the library then closes the connection. Read marks a notification   *)
(* as seen too, so the two are one mark; the feed fits on one page. A      *)
(* workflow has at most one in-app step here: a second one would share the *)
(* row and the text of the first. The text of a notification is the same   *)
(* whenever it is rendered. That a ping nobody answers in time closes the  *)
(* connection is what is assumed of the WebSocket library.                 *)
(***************************************************************************)
EXTENDS Integers, Sequences, FiniteSets

CONSTANTS
  Conns,       \* connections, numbered 1..N in the order they are accepted
  Notifs,      \* notifications, each with one in-app step
  Buffer,      \* capacity of a send channel
  MaxAsks,     \* bound: messages and requests of the clients
  MaxFaults    \* bound: failed calls, crashes and restarts

\* The id in a message about no single notification.
None == "none"

ASSUME BufferAssumption == Buffer \in Nat \ {0}
ASSUME ConnsAssumption == Conns = 1..Cardinality(Conns)
ASSUME NotifsAssumption == None \notin Notifs
ASSUME BoundsAssumption == MaxAsks \in Nat /\ MaxFaults \in Nat

VARIABLES
  feed,       \* per notification, what the feed says of it
  job, tally, \* per notification, where its worker is, and the count it holds
  wire,       \* messages between Redis and the hub
  conn,       \* the connections
  online,     \* isOnline of the subscriber
  asks, faults,   \* events so far
  \* history, read by no action
  known,      \* per open connection, the notifications its client has been told of
  fetched,    \* open connections whose client has read a feed
  gap,        \* open connections that a push or a feed was lost to
  missed,     \* notifications with a write of their delivery that failed
  withdrawn   \* notifications whose 'sent' was overwritten by a later run of their task

vars == <<feed, job, tally, wire, conn, online, asks, faults,
          known, fetched, gap, missed, withdrawn>>

Message == [what: {"new", "count", "feed"}, n: Notifs \cup {None}, of: SUBSET Notifs]
NoMessage == [what |-> "none", n |-> None, of |-> {}]
Ask == [what: {"seen", "archive"}, n: Notifs] \cup [what: {"fetch"}, n: {None}]
NoAsk == [what |-> "none", n |-> None]
Entry == [text: BOOLEAN, sent: BOOLEAN, seen: BOOLEAN, archived: BOOLEAN]

Conn == [at: {"off", "acked", "registered", "run", "gone"}, peer: {"open", "silent", "closed"},
         read: {"read", "handle", "count", "reply"}, ask: Ask \cup {NoAsk},
         reply: Message \cup {NoMessage}, queue: Seq(Message), writing: BOOLEAN, timer: BOOLEAN]
NoConn == [at |-> "off", peer |-> "open", read |-> "read", ask |-> NoAsk, reply |-> NoMessage,
           queue |-> << >>, writing |-> FALSE, timer |-> FALSE]
Gone(timer) == [NoConn EXCEPT !.at = "gone", !.timer = timer]

TypeOK ==
  /\ feed \in [Notifs -> Entry]
  /\ job \in [Notifs -> {"todo", "status", "publish", "count", "send", "done"}]
  /\ tally \in [Notifs -> SUBSET Notifs]
  /\ wire \in Seq(Message)
  /\ conn \in [Conns -> Conn] /\ \A c \in Conns : Len(conn[c].queue) <= Buffer
  /\ online \in BOOLEAN /\ asks \in 0..MaxAsks /\ faults \in 0..MaxFaults
  /\ known \in [Conns -> SUBSET Notifs] /\ fetched \subseteq Conns /\ gap \subseteq Conns
  /\ missed \subseteq Notifs /\ withdrawn \subseteq Notifs

Init ==
  /\ feed = [n \in Notifs |-> [text |-> FALSE, sent |-> FALSE, seen |-> FALSE, archived |-> FALSE]]
  /\ job = [n \in Notifs |-> "todo"] /\ tally = [n \in Notifs |-> {}]
  /\ wire = << >> /\ conn = [c \in Conns |-> NoConn] /\ online = FALSE
  /\ asks = 0 /\ faults = 0
  /\ known = [c \in Conns |-> {}] /\ fetched = {} /\ gap = {} /\ missed = {} /\ withdrawn = {}

told == <<known, fetched>>
Works == UNCHANGED faults
Breaks == faults < MaxFaults /\ faults' = faults + 1

-----------------------------------------------------------------------------
\* Mutant: the badge counts what was never delivered in-app.
InFeed_All(n) == ~feed[n].archived

\* deliveredInApp, and not archived: what FindFeed and UnseenCount agree on.
InFeed(n) == feed[n].sent /\ ~feed[n].archived

Feed == {n \in Notifs : InFeed(n)}
UnseenCount == {n \in Feed : ~feed[n].seen}

\* The hub's clients of the room.
Room == {c \in Conns : conn[c].at \in {"registered", "run"}}

-----------------------------------------------------------------------------
(* deliverInApp *)

Now(n, at) == job' = [job EXCEPT ![n] = at]

\* Mutant: the push goes out before the status is stored.
After_PushFirst(at) == CASE at = "todo" -> "publish" [] at = "publish" -> "status" [] at = "status" -> "count"

\* The text and the status are stored before the push.
After(at) == CASE at = "todo" -> "status" [] at = "status" -> "publish" [] at = "publish" -> "count"

\* The rate limiter or the preferences, which a redelivered task meets again: 'skipped'
\* is written whatever the row says.
Skip(n) ==
  /\ job[n] = "todo" /\ Now(n, "done")
  /\ \/ Works /\ feed' = [feed EXCEPT ![n].sent = FALSE] /\ UNCHANGED missed
        /\ withdrawn' = withdrawn \cup {m \in {n} : feed[m].sent}
     \/ Breaks /\ missed' = missed \cup {n} /\ UNCHANGED <<feed, withdrawn>>
  /\ UNCHANGED <<tally, wire, conn, online, asks, told, gap>>

SetRenderedContent(n) ==
  /\ job[n] = "todo" /\ Now(n, After("todo"))
  /\ \/ Works /\ feed' = [feed EXCEPT ![n].text = TRUE] /\ UNCHANGED missed
     \/ Breaks /\ missed' = missed \cup {n} /\ UNCHANGED feed
  /\ UNCHANGED <<tally, wire, conn, online, asks, told, gap, withdrawn>>

UpdateChannelStatus(n) ==
  /\ job[n] = "status" /\ Now(n, After("status"))
  /\ \/ Works /\ feed' = [feed EXCEPT ![n].sent = TRUE] /\ UNCHANGED missed
     \/ Breaks /\ missed' = missed \cup {n} /\ UNCHANGED feed
  /\ UNCHANGED <<tally, wire, conn, online, asks, told, gap, withdrawn>>

\* Publish, whose error nobody reads.
Publish(n) ==
  /\ job[n] = "publish" /\ Now(n, After("publish"))
  /\ \/ Works /\ wire' = Append(wire, [what |-> "new", n |-> n, of |-> {}]) /\ UNCHANGED gap
     \/ Breaks /\ gap' = gap \cup Room /\ UNCHANGED wire
  /\ UNCHANGED <<feed, tally, conn, online, asks, told, missed, withdrawn>>

\* The count is read ...
Tally(n) ==
  /\ job[n] = "count"
  /\ \/ Works /\ tally' = [tally EXCEPT ![n] = UnseenCount] /\ Now(n, "send")
     \/ Breaks /\ Now(n, "done") /\ UNCHANGED tally
  /\ UNCHANGED <<feed, wire, conn, online, asks, told, gap, missed, withdrawn>>

\* ... and published.
PublishCount(n) ==
  /\ job[n] = "send" /\ Now(n, "done") /\ tally' = [tally EXCEPT ![n] = {}]
  /\ \/ Works /\ wire' = Append(wire, [what |-> "count", n |-> None, of |-> tally[n]])
     \/ Breaks /\ UNCHANGED wire
  /\ UNCHANGED <<feed, conn, online, asks, told, gap, missed, withdrawn>>

\* The worker dies, with its work done or not; asynq hands its task to another, which
\* begins with the checks.
WorkerCrash(n) ==
  /\ job[n] # "todo" /\ Breaks
  /\ Now(n, "todo") /\ tally' = [tally EXCEPT ![n] = {}]
  /\ UNCHANGED <<feed, wire, conn, online, asks, told, gap, missed, withdrawn>>

-----------------------------------------------------------------------------
(* The hub *)

\* Mutant: off by one.
Fits_OneMore(c) == Len(conn[c].queue) <= Buffer

\* There is room in the send channel.
Fits(c) == Len(conn[c].queue) < Buffer

\* SubscribeRedis and Send: the next message, to every client with room for it.
Send ==
  /\ wire # << >> /\ wire' = Tail(wire)
  /\ LET fits == {c \in Room : Fits(c)} IN
       /\ conn' = [c \in Conns |-> IF c \in fits
                                   THEN [conn[c] EXCEPT !.queue = Append(@, Head(wire))]
                                   ELSE conn[c]]
       /\ gap' = IF Head(wire).what = "new" THEN gap \cup (Room \ fits) ELSE gap
  /\ UNCHANGED <<feed, job, tally, online, asks, faults, told, missed, withdrawn>>

-----------------------------------------------------------------------------
(* A connection *)

Only(c, d) == conn' = [conn EXCEPT ![c] = d]
quiet == <<feed, job, tally, wire, asks, told, gap, missed, withdrawn>>

\* The handshake, up to the answer "authenticated"; a refused one leaves no trace.
Accept(c) ==
  /\ conn[c].at = "off" /\ \A d \in 1..c - 1 : conn[d].at # "off"
  /\ Only(c, [conn[c] EXCEPT !.at = "acked"])
  /\ UNCHANGED <<online, faults, quiet>>

Register(c) ==
  /\ conn[c].at = "acked" /\ Only(c, [conn[c] EXCEPT !.at = "registered"])
  /\ UNCHANGED <<online, faults, quiet>>

\* SetOnline, whose error nobody reads, and the start of both goroutines.
SetOnline(c) ==
  /\ conn[c].at = "registered" /\ Only(c, [conn[c] EXCEPT !.at = "run", !.writing = TRUE])
  /\ \/ Works /\ online' = TRUE
     \/ Breaks /\ UNCHANGED online
  /\ UNCHANGED quiet

\* The peer closes the connection, or falls silent: it may still have sent something,
\* but reads and acknowledges nothing. Nobody notices before both goroutines run.
Leave(c) ==
  /\ conn[c].at = "run" /\ conn[c].peer = "open"
  /\ \E peer \in {"silent", "closed"} : Only(c, [conn[c] EXCEPT !.peer = peer])
  /\ UNCHANGED <<online, faults, quiet>>

Reader(c, at) == conn[c].at = "run" /\ conn[c].read = at

ReadMessage(c) ==
  /\ Reader(c, "read") /\ conn[c].peer # "closed"
  /\ asks < MaxAsks /\ asks' = asks + 1
  /\ \E a \in Ask : Only(c, [conn[c] EXCEPT !.read = "handle", !.ask = a])
  /\ UNCHANGED <<feed, job, tally, wire, online, faults, told, gap, missed, withdrawn>>

Mark(ns, field) ==
  feed' = [n \in Notifs |-> IF n \notin ns THEN feed[n]
                            ELSE IF field = "seen" THEN [feed[n] EXCEPT !.seen = TRUE]
                            ELSE [feed[n] EXCEPT !.archived = TRUE]]

Waiting(c) == [conn[c] EXCEPT !.read = "read", !.ask = NoAsk]

\* The call of handleMessage. A feed that cannot be read is answered as an empty one.
Handle(c) ==
  LET a == conn[c].ask
      Answer(ns) == Only(c, [conn[c] EXCEPT !.read = "reply", !.ask = NoAsk,
                               !.reply = [what |-> "feed", n |-> None, of |-> ns]])
  IN
  /\ Reader(c, "handle")
  /\ \/ a.what = "seen" /\ Works /\ Mark({a.n}, "seen") /\ UNCHANGED gap
        /\ Only(c, [conn[c] EXCEPT !.read = "count"])
     \/ a.what = "archive" /\ Works /\ Mark({a.n}, "archived") /\ UNCHANGED gap
        /\ Only(c, Waiting(c))
     \/ a.what # "fetch" /\ Breaks /\ Only(c, Waiting(c)) /\ UNCHANGED <<feed, gap>>
     \/ a.what = "fetch" /\ Works /\ Answer(Feed) /\ UNCHANGED <<feed, gap>>
     \/ a.what = "fetch" /\ Breaks /\ Answer({}) /\ gap' = gap \cup {c} /\ UNCHANGED feed
  /\ UNCHANGED <<job, tally, wire, online, asks, told, missed, withdrawn>>

\* sendUnseenCount: the count, after the mark ...
Count(c) ==
  /\ Reader(c, "count")
  /\ \/ Works /\ Only(c, [conn[c] EXCEPT !.read = "reply", !.ask = NoAsk,
              !.reply = [what |-> "count", n |-> conn[c].ask.n, of |-> UnseenCount]])
     \/ Breaks /\ Only(c, Waiting(c))
  /\ UNCHANGED <<online, quiet>>

\* ... and c.send <- data, which waits for room.
Reply(c) ==
  /\ Reader(c, "reply") /\ Fits(c)
  /\ Only(c, [conn[c] EXCEPT !.read = "read", !.reply = NoMessage,
                              !.queue = Append(conn[c].queue, conn[c].reply)])
  /\ UNCHANGED <<online, faults, quiet>>

Forget(cs) == /\ known' = [c \in Conns |-> IF c \in cs THEN {} ELSE known[c]]
              /\ fetched' = fetched \ cs /\ gap' = gap \ cs

\* Mutant: the timer is left to the connections that were closed in order.
Grace_Clean(c) == conn[c].writing

\* Every connection that ends arms the timer.
Grace(c) == TRUE

\* Read fails: Unregister, Close, AfterFunc.
End(c) ==
  /\ Reader(c, "read") /\ conn[c].peer = "closed"
  /\ Only(c, Gone(Grace(c))) /\ Forget({c})
  /\ UNCHANGED <<feed, job, tally, wire, online, asks, faults, missed, withdrawn>>

\* A write, which a peer that does not read lets expire.
Write(c) ==
  LET m == Head(conn[c].queue) rest == Tail(conn[c].queue) IN
  /\ conn[c].at = "run" /\ conn[c].writing /\ conn[c].queue # << >>
  /\ IF conn[c].peer = "open"
     THEN /\ Only(c, [conn[c] EXCEPT !.queue = rest])
          /\ known' = [known EXCEPT ![c] = @ \cup (IF m.what = "new" THEN {m.n} ELSE
                                                   IF m.what = "feed" THEN m.of ELSE {})]
          /\ fetched' = IF m.what = "feed" THEN fetched \cup {c} ELSE fetched
     ELSE /\ Only(c, [conn[c] EXCEPT !.queue = rest, !.writing = FALSE, !.peer = "closed"])
          /\ UNCHANGED told
  /\ UNCHANGED <<feed, job, tally, wire, online, asks, faults, gap, missed, withdrawn>>

\* Mutant: no ping, so a silent peer is noticed only when there is something to write.
Pinged_Never(c) == FALSE

\* The ticker fires, and no pong comes in time: the peer is gone or silent, or the reader,
\* which has to take the pong, is busy with a message.
Pinged(c) == conn[c].writing /\ (conn[c].peer # "open" \/ conn[c].read # "read")

Ping(c) ==
  /\ conn[c].at = "run" /\ Pinged(c)
  /\ Only(c, [conn[c] EXCEPT !.writing = FALSE, !.peer = "closed"])
  /\ UNCHANGED <<online, faults, quiet>>

\* 30 seconds later, whoever is connected by then.
Offline(c) ==
  /\ conn[c].timer /\ Only(c, [conn[c] EXCEPT !.timer = FALSE])
  /\ \/ Works /\ online' = FALSE
     \/ Breaks /\ UNCHANGED online
  /\ UNCHANGED quiet

-----------------------------------------------------------------------------
\* The feed API: one notification, or several in a bulk action.
MarkByRequest ==
  /\ asks < MaxAsks /\ asks' = asks + 1
  /\ \/ \E ns \in SUBSET Notifs \ {{}} : Mark(ns, "seen")
     \/ \E n \in Notifs : Mark({n}, "archived")
  /\ UNCHANGED <<job, tally, wire, conn, online, faults, told, gap, missed, withdrawn>>

\* The WebSocket server ends, with its connections, its timers and what it had not read.
Restart ==
  /\ Breaks /\ wire' = << >>
  /\ conn' = [c \in Conns |-> IF conn[c].at = "off" THEN conn[c] ELSE Gone(FALSE)]
  /\ Forget(Conns)
  /\ UNCHANGED <<feed, job, tally, online, asks, missed, withdrawn>>

Deliver(n) == \/ Skip(n) \/ SetRenderedContent(n) \/ UpdateChannelStatus(n) \/ Publish(n)
              \/ Tally(n) \/ PublishCount(n)
Opening(c) == Register(c) \/ SetOnline(c)
ReadPump(c) == Handle(c) \/ Count(c) \/ Reply(c) \/ End(c)
WritePump(c) == Write(c) \/ Ping(c)

Next == \/ \E n \in Notifs : Deliver(n) \/ WorkerCrash(n)
        \/ Send \/ MarkByRequest \/ Restart
        \/ \E c \in Conns : \/ Accept(c) \/ Leave(c) \/ ReadMessage(c)
                            \/ Opening(c) \/ ReadPump(c) \/ WritePump(c) \/ Offline(c)

\* Goroutines run; the peers and the workers may stop at any point.
Fairness == \A c \in Conns : WF_vars(Opening(c)) /\ WF_vars(ReadPump(c)) /\ WF_vars(WritePump(c))

Spec == Init /\ [][Next]_vars /\ Fairness

-----------------------------------------------------------------------------
\* Whatever is on its way to a client, or was the last thing it was told.
OnItsWay(c) == {conn[c].reply} \cup {conn[c].queue[i] : i \in 1..Len(conn[c].queue)}
InTransit == {wire[i] : i \in 1..Len(wire)} \cup UNION {OnItsWay(c) : c \in Conns}

\* A client that reloads right after a push finds the notification in the feed, with
\* the text it was pushed, unless a write of that delivery failed or a later run of the
\* same task was stopped by the limiter or a preference and wrote 'skipped' over 'sent'.
PushedIsStored ==
  \A m \in InTransit : m.what = "new" =>
    m.n \in missed \cup withdrawn \/ (feed[m.n].sent /\ feed[m.n].text)

\* A badge counts what can be opened, but for what was taken back in that way, and the
\* answer to a mark no longer counts what was marked.
CountsCanBeCleared ==
  \A m \in InTransit : m.what = "count" =>
    m.n \notin m.of /\ \A n \in m.of : feed[n].sent \/ n \in withdrawn

\* A client that fetched the feed over its connection, at any moment, has been told by
\* the feed or by a push of everything delivered before or since: nothing falls
\* between the two, unless a push to it was lost.
FetchClosesGap ==
  \A c \in fetched \ gap, n \in Notifs :
    /\ conn[c].at = "run" /\ conn[c].peer = "open" /\ InFeed(n) /\ n \notin missed
    /\ job[n] \in {"count", "send", "done"}
    /\ \A m \in {wire[i] : i \in 1..Len(wire)} \cup OnItsWay(c) : m.what = "new" => m.n # n
    => n \in known[c]

PushAgreesWithFeed == PushedIsStored /\ CountsCanBeCleared /\ FetchClosesGap

\* With nobody connected and no timer armed, the subscriber is offline, unless a call
\* failed or the server was restarted.
PresenceSettles ==
  /\ faults = 0
  /\ \A c \in Conns : conn[c].at \in {"off", "acked", "gone"} /\ ~conn[c].timer
  => ~online

\* The reader waits for room in a channel that nobody empties any more.
Stuck(c) == Reader(c, "reply") /\ Len(conn[c].queue) = Buffer /\ ~conn[c].writing

\* A connection whose peer is gone or silent is reaped: it leaves the hub, or its
\* reader waits forever behind a writer that has ended.
Reaped == \A c \in Conns : conn[c].peer # "open" ~> (conn[c].at = "gone" \/ Stuck(c))
=============================================================================
