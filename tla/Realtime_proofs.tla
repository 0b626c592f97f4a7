-------------------------- MODULE Realtime_proofs ---------------------------
(***************************************************************************)
(* Proofs about the live inbox.                                            *)
(*                                                                         *)
(* The argument: a worker publishes a notification only behind its two     *)
(* writes, unless one of them failed. Marks in the feed are never taken    *)
(* back, and 'sent' only by a later run of the task, which is noted, so    *)
(* that what holds of a message when it is sent holds while it travels. Of *)
(* a connection that runs, each notification that was published has        *)
(* reached the client, or is in every feed on its way to it, or its push   *)
(* is on its way, or is noted as lost. Who is online has a connection that *)
(* runs or a timer.                                                        *)
(***************************************************************************)
EXTENDS Realtime, TLAPS

Elems(s) == {s[i] : i \in 1..Len(s)}

\* The messages a connection holds.
On(d) == {d.reply} \cup Elems(d.queue)

\* What each state of a reader holds, and what a connection holds before it runs.
ConnOK(d) ==
  /\ d \in Conn /\ Len(d.queue) <= Buffer
  /\ d.read = "handle" => d.ask \in Ask
  /\ d.read = "count" => d.ask.n \in Notifs
  /\ IF d.read = "reply" THEN d.reply \in Message ELSE d.reply = NoMessage
  /\ d.at # "run" => \A m \in On(d) : m.what # "feed"

\* A message is true of the feed f, but for the deliveries in lost and those taken back.
Correct(m, f, lost, back) ==
  /\ m.what = "new" => m.n \in Notifs /\ (m.n \in lost \cup back \/ (f[m.n].sent /\ f[m.n].text))
  /\ m.what = "count" => m.n \notin m.of /\ \A n \in m.of : n \in Notifs /\ (f[n].sent \/ n \in back)

\* What a worker has counted is in the feed f, unless it was taken back.
Counts(ns, f, back) == \A x \in ns : f[x].sent \/ x \in back

\* What a worker has behind it when it is at a write.
Behind(at, n, f, lost) ==
  /\ at = "status" => n \in lost \/ f[n].text
  /\ at = "publish" => n \in lost \/ (f[n].sent /\ f[n].text)

Published(at) == at \in {"count", "send", "done"}

\* The client of c is told of n, or will be by each feed on its way, unless a push is.
Told(c, n) ==
  /\ conn[c].at = "run" /\ conn[c].peer = "open" /\ c \notin gap
  /\ InFeed(n) /\ n \notin missed /\ Published(job[n])
  /\ \A m \in Elems(wire) \cup On(conn[c]) : m.what = "new" => m.n # n
  => \/ n \in known[c]
     \/ c \notin fetched /\ \A m \in On(conn[c]) : m.what = "feed" => n \in m.of

Inv ==
  /\ TypeOK
  /\ \A c \in Conns : ConnOK(conn[c]) /\ (conn[c].at # "run" => c \notin fetched)
  /\ \A n \in Notifs : /\ Behind(job[n], n, feed, missed)
                       /\ Counts(tally[n], feed, withdrawn)
  /\ \A c \in Conns : conn[c].read = "count" => feed[conn[c].ask.n].seen
  /\ \A m \in Elems(wire) : m.what # "feed" /\ Correct(m, feed, missed, withdrawn)
  /\ \A c \in Conns : \A m \in On(conn[c]) : Correct(m, feed, missed, withdrawn)
  /\ \A c \in Conns, n \in Notifs : Told(c, n)
  /\ faults = 0 /\ online => \E c \in Conns : conn[c].at = "run" \/ conn[c].timer

-----------------------------------------------------------------------------
(* Sequences, messages and records.                                        *)

LEMMA ElemsAppend ==
  ASSUME NEW S, NEW s \in Seq(S), NEW x \in S
  PROVE  Elems(Append(s, x)) = Elems(s) \cup {x}
<1>1. Len(Append(s, x)) = Len(s) + 1 /\ Len(s) \in Nat
  OBVIOUS
<1>2. \A i \in 1..Len(s) : Append(s, x)[i] = s[i]
  OBVIOUS
<1>3. Append(s, x)[Len(s) + 1] = x
  OBVIOUS
<1> QED
  BY <1>1, <1>2, <1>3 DEF Elems

LEMMA ElemsTail ==
  ASSUME NEW S, NEW s \in Seq(S), s # << >>
  PROVE  /\ Elems(Tail(s)) \subseteq Elems(s) /\ Head(s) \in Elems(s) /\ Head(s) \in S
         /\ Elems(s) = Elems(Tail(s)) \cup {Head(s)}
         /\ Tail(s) \in Seq(S) /\ Len(Tail(s)) = Len(s) - 1 /\ Len(s) \in Nat
<1>1. Len(s) \in Nat /\ Len(s) >= 1 /\ Len(Tail(s)) = Len(s) - 1 /\ Tail(s) \in Seq(S)
      /\ Head(s) = s[1] /\ Head(s) \in S
  OBVIOUS
<1>2. \A i \in 1..(Len(s) - 1) : Tail(s)[i] = s[i + 1]
  OBVIOUS
<1>3. ASSUME NEW y \in Elems(s), y # s[1]
      PROVE  y \in Elems(Tail(s))
  <2>1. PICK i \in 1..Len(s) : y = s[i]
    BY <1>3 DEF Elems
  <2>2. i - 1 \in 1..(Len(s) - 1) /\ s[(i - 1) + 1] = y
    BY <1>1, <1>3, <2>1
  <2>3. Tail(s)[i - 1] = y
    BY <1>2, <2>2
  <2> QED
    BY <1>1, <2>2, <2>3 DEF Elems
<1>4. ASSUME NEW y \in Elems(Tail(s))
      PROVE  y \in Elems(s)
  <2>1. PICK i \in 1..(Len(s) - 1) : y = s[i + 1]
    BY <1>1, <1>2, <1>4 DEF Elems
  <2>2. i + 1 \in 1..Len(s)
    BY <1>1
  <2> QED
    BY <2>1, <2>2 DEF Elems
<1>5. s[1] \in Elems(s)
  BY <1>1 DEF Elems
<1> QED
  BY <1>1, <1>3, <1>4, <1>5

LEMMA ElemsEmpty == Elems(<< >>) = {}
  BY DEF Elems

LEMMA ElemsType ==
  ASSUME NEW S, NEW s \in Seq(S)
  PROVE  Elems(s) \subseteq S
  BY DEF Elems

\* A message stays true while marks are added to the feed, and losses to the lost and what
\* is taken back is noted.
LEMMA CorrectGrows ==
  ASSUME NEW f, NEW g, NEW lost, NEW more, NEW back, NEW later, NEW m, Correct(m, f, lost, back),
         \A n \in Notifs : /\ (f[n].sent => g[n].sent \/ n \in later)
                           /\ (f[n].text => g[n].text),
         lost \subseteq more, back \subseteq later
  PROVE  Correct(m, g, more, later)
  BY DEF Correct

LEMMA EmptyFacts ==
  /\ NoMessage.what = "none" /\ NoMessage \notin Message
  /\ NoAsk.what = "none"
  /\ \A f, lost, back : Correct(NoMessage, f, lost, back)
  /\ NoConn.reply = NoMessage /\ NoConn.queue = << >> /\ NoConn.read = "read"
  /\ NoConn.at = "off" /\ NoConn.timer = FALSE
  BY DEF NoMessage, NoAsk, NoConn, Correct, Message

LEMMA ConnFacts ==
  ASSUME NEW d \in Conn
  PROVE  /\ d.at \in {"off", "acked", "registered", "run", "gone"}
         /\ d.peer \in {"open", "silent", "closed"} /\ d.read \in {"read", "handle", "count", "reply"}
         /\ d.ask \in Ask \cup {NoAsk} /\ d.reply \in Message \cup {NoMessage}
         /\ d.queue \in Seq(Message) /\ d.writing \in BOOLEAN /\ d.timer \in BOOLEAN
  BY DEF Conn

LEMMA OnFacts ==
  ASSUME NEW d \in Conn
  PROVE  On(d) \subseteq Message \cup {NoMessage}
  BY ConnFacts, ElemsType DEF On

\* A connection that has not been made yet, or is over.
LEMMA GoneFacts ==
  ASSUME NEW t \in BOOLEAN
  PROVE  /\ ConnOK(Gone(t)) /\ Gone(t).at = "gone" /\ Gone(t).read = "read" /\ Gone(t).timer = t
         /\ On(Gone(t)) = {NoMessage}
         /\ ConnOK(NoConn) /\ On(NoConn) = {NoMessage}
<1>1. << >> \in Seq(Message) /\ Len(<< >>) = 0
  OBVIOUS
<1>2. /\ Gone(t).at = "gone" /\ Gone(t).peer = "open" /\ Gone(t).read = "read" /\ Gone(t).ask = NoAsk
      /\ Gone(t).reply = NoMessage /\ Gone(t).queue = << >> /\ Gone(t).writing = FALSE
      /\ Gone(t).timer = t
  BY DEF Gone, NoConn
<1>3. Gone(t) \in Conn /\ NoConn \in Conn
  <2>1. NoConn \in Conn
    <3>1. << >> \in Seq(Message)
      OBVIOUS
    <3>2. NoAsk \in Ask \cup {NoAsk} /\ NoMessage \in Message \cup {NoMessage}
      OBVIOUS
    <3> HIDE DEF NoAsk, NoMessage
    <3> QED
      BY <3>1, <3>2 DEF NoConn, Conn
  <2> QED
    BY <2>1 DEF Gone, Conn
<1>4. On(Gone(t)) = {NoMessage} /\ On(NoConn) = {NoMessage}
  BY <1>2, ElemsEmpty, EmptyFacts DEF On
<1> QED
  BY <1>1, <1>2, <1>3, <1>4, EmptyFacts, BufferAssumption DEF ConnOK

-----------------------------------------------------------------------------
(* Steps of one connection.                                                *)

\* A connection goes from one good state to another; the rest of the world stays,
\* or gains marks. K names what has to be said of the client of c.
LEMMA ConnStep ==
  ASSUME Inv, NEW c \in Conns, NEW d, ConnOK(d), Only(c, d),
         d.at # "run" => c \notin fetched',
         UNCHANGED <<job, tally, wire, missed, withdrawn>>, feed' \in [Notifs -> Entry],
         \A n \in Notifs : /\ feed[n].sent = feed'[n].sent /\ feed[n].text = feed'[n].text
                           /\ (feed[n].seen => feed'[n].seen)
                           /\ (feed[n].archived => feed'[n].archived),
         \A m \in On(d) : m \in On(conn[c]) \/ Correct(m, feed', missed, withdrawn),
         d.read = "count" => feed'[d.ask.n].seen,
         online' \in BOOLEAN, asks' \in 0..MaxAsks, faults' \in 0..MaxFaults,
         known' \in [Conns -> SUBSET Notifs], fetched' \subseteq Conns, gap \ {c} \subseteq gap',
         gap' \subseteq Conns,
         \A x \in Conns \ {c} : known'[x] = known[x] /\ (x \in fetched <=> x \in fetched'),
         \A n \in Notifs : Told(c, n)',
         faults' = 0 => faults = 0,
         online' => (online /\ (conn[c].at = "run" \/ conn[c].timer => d.at = "run" \/ d.timer))
                    \/ d.at = "run" \/ faults' # 0
  PROVE  Inv'
<1>1. /\ conn \in [Conns -> Conn] /\ d \in Conn /\ Len(d.queue) <= Buffer
      /\ \A x \in Conns : Len(conn[x].queue) <= Buffer
      /\ conn' = [conn EXCEPT ![c] = d]
  BY DEF Inv, TypeOK, ConnOK, Only
<1>2. conn'[c] = d /\ \A x \in Conns \ {c} : conn'[x] = conn[x]
  BY <1>1
<1>3. TypeOK'
  BY <1>1, <1>2 DEF Inv, TypeOK
<1>4. \A x \in Conns : ConnOK(conn[x])' /\ (conn'[x].at # "run" => x \notin fetched')
  BY <1>2 DEF Inv
<1>5. \A n \in Notifs : /\ Behind(job[n], n, feed, missed)'
                        /\ Counts(tally'[n], feed', withdrawn')
  <2> SUFFICES ASSUME NEW n \in Notifs
               PROVE  /\ Behind(job[n], n, feed', missed)
                      /\ Counts(tally[n], feed', withdrawn')
    OBVIOUS
  <2>1. Behind(job[n], n, feed, missed) /\ tally[n] \subseteq Notifs
        /\ Counts(tally[n], feed, withdrawn)
    BY DEF Inv, TypeOK
  <2> QED
    BY <2>1 DEF Behind, Counts
<1>6. \A x \in Conns : conn'[x].read = "count" => feed'[conn'[x].ask.n].seen
  BY <1>2 DEF Inv, ConnOK
<1>7. \A m \in Elems(wire)' : m.what # "feed" /\ Correct(m, feed', missed', withdrawn')
  BY CorrectGrows DEF Inv
<1>8. \A x \in Conns : \A m \in On(conn[x])' : Correct(m, feed', missed', withdrawn')
  <2> SUFFICES ASSUME NEW x \in Conns, NEW m \in On(conn'[x])
               PROVE  Correct(m, feed', missed, withdrawn)
    OBVIOUS
  <2>1. m \in On(conn[x]) \/ Correct(m, feed', missed, withdrawn)
    BY <1>2
  <2>2. m \in On(conn[x]) => Correct(m, feed, missed, withdrawn)
    BY DEF Inv
  <2> QED
    BY <2>1, <2>2, CorrectGrows
<1>9. \A x \in Conns, n \in Notifs : Told(x, n)'
  <2> SUFFICES ASSUME NEW x \in Conns \ {c}, NEW n \in Notifs
               PROVE  Told(x, n)'
    OBVIOUS
  <2>1. Told(x, n)
    BY DEF Inv
  <2>2. InFeed(n)' => InFeed(n)
    BY DEF InFeed, Inv, TypeOK
  <2> QED
    BY <1>2, <2>1, <2>2 DEF Told
<1>10. faults' = 0 /\ online' => \E x \in Conns : conn'[x].at = "run" \/ conn'[x].timer
  BY <1>2 DEF Inv
<1> QED
  BY <1>3, <1>4, <1>5, <1>6, <1>7, <1>8, <1>9, <1>10 DEF Inv

\* What every step may use.
LEMMA InvFacts ==
  ASSUME Inv
  PROVE  /\ conn \in [Conns -> Conn] /\ \A c \in Conns : ConnOK(conn[c]) /\ conn[c] \in Conn
         /\ \A c \in Conns : conn[c].at # "run" => c \notin fetched
         /\ feed \in [Notifs -> Entry] /\ wire \in Seq(Message)
         /\ job \in [Notifs -> {"todo", "status", "publish", "count", "send", "done"}]
         /\ tally \in [Notifs -> SUBSET Notifs]
         /\ online \in BOOLEAN /\ asks \in 0..MaxAsks /\ faults \in 0..MaxFaults
         /\ known \in [Conns -> SUBSET Notifs] /\ fetched \subseteq Conns /\ gap \subseteq Conns
         /\ missed \subseteq Notifs /\ withdrawn \subseteq Notifs
         /\ \A c \in Conns, n \in Notifs : Told(c, n)
         /\ \A c \in Conns : conn[c].read = "count" => feed[conn[c].ask.n].seen
         /\ \A c \in Conns : \A m \in On(conn[c]) : Correct(m, feed, missed, withdrawn)
  BY DEF Inv, TypeOK, ConnOK

\* A call works or fails, and the count of the failed ones stays within its bound.
LEMMA Counted ==
  ASSUME Inv, Works \/ Breaks
  PROVE  faults' \in 0..MaxFaults /\ (faults' = 0 => faults = 0 /\ ~Breaks)
  BY BoundsAssumption DEF Inv, TypeOK, Works, Breaks

\* A step that keeps the messages of a connection, its question and the place of its
\* reader.
LEMMA QuietStep ==
  ASSUME Inv, NEW c \in Conns, NEW d \in Conn, Only(c, d), UNCHANGED quiet,
         d.queue = conn[c].queue, d.reply = conn[c].reply, d.read = conn[c].read,
         d.ask = conn[c].ask,
         conn[c].at = "run" => d.at = "run",
         d.at = "run" /\ d.peer = "open" =>
            /\ conn[c].at # "run" => conn[c].at = "registered"
            /\ conn[c].at = "run" => conn[c].peer = "open",
         online' \in BOOLEAN, Works \/ Breaks,
         online' => (online /\ (conn[c].timer => d.timer)) \/ d.at = "run" \/ Breaks
  PROVE  Inv'
<1>1. ConnOK(conn[c]) /\ conn[c] \in Conn
  BY InvFacts
<1>2. On(d) = On(conn[c])
  BY DEF On
<1>3. ConnOK(d)
  BY <1>1, <1>2 DEF ConnOK
<1>4. UNCHANGED <<feed, job, tally, wire, asks, known, fetched, gap, missed, withdrawn>>
  BY DEF quiet, told
<1>5. conn' = [conn EXCEPT ![c] = d] /\ conn'[c] = d
  BY InvFacts DEF Only
<1>6. ASSUME NEW n \in Notifs
      PROVE  Told(c, n)'
  <2>1. Told(c, n) /\ (conn[c].at # "run" => c \notin fetched)
    BY InvFacts
  <2>2. InFeed(n)' = InFeed(n)
    BY <1>4 DEF InFeed
  <2>3. CASE conn[c].at = "run"
    BY <1>2, <1>4, <1>5, <2>1, <2>2, <2>3 DEF Told
  <2>4. CASE conn[c].at # "run"
    BY <1>1, <1>2, <1>4, <1>5, <2>1, <2>4 DEF Told, ConnOK
  <2> QED
    BY <2>3, <2>4
<1>7. d.at # "run" => c \notin fetched'
  BY <1>4, InvFacts
<1>8. d.read = "count" => feed'[d.ask.n].seen
  BY <1>4, InvFacts
<1>9. /\ feed' \in [Notifs -> Entry] /\ asks' \in 0..MaxAsks /\ known' \in [Conns -> SUBSET Notifs]
      /\ fetched' \subseteq Conns /\ gap' \subseteq Conns
  BY <1>4, InvFacts
<1>10. faults' \in 0..MaxFaults /\ (faults' = 0 => faults = 0 /\ ~Breaks)
  BY Counted
<1> QED
  BY <1>2, <1>3, <1>4, <1>6, <1>7, <1>8, <1>9, <1>10, ConnStep

LEMMA AcceptStep ==
  ASSUME Inv, NEW c \in Conns, Accept(c)
  PROVE  Inv'
<1> DEFINE d == [conn[c] EXCEPT !.at = "acked"]
<1>1. conn[c] \in Conn /\ online \in BOOLEAN
  BY InvFacts
<1>2. /\ d \in Conn /\ d.queue = conn[c].queue /\ d.reply = conn[c].reply /\ d.read = conn[c].read
      /\ d.ask = conn[c].ask /\ d.at = "acked" /\ d.timer = conn[c].timer
  BY <1>1 DEF Conn
<1>3. conn[c].at = "off" /\ Only(c, d) /\ UNCHANGED <<online, faults, quiet>>
  BY DEF Accept
<1> HIDE DEF d
<1> QED
  BY <1>1, <1>2, <1>3, QuietStep DEF Works

LEMMA RegisterStep ==
  ASSUME Inv, NEW c \in Conns, Register(c)
  PROVE  Inv'
<1> DEFINE d == [conn[c] EXCEPT !.at = "registered"]
<1>1. conn[c] \in Conn /\ online \in BOOLEAN
  BY InvFacts
<1>2. /\ d \in Conn /\ d.queue = conn[c].queue /\ d.reply = conn[c].reply /\ d.read = conn[c].read
      /\ d.ask = conn[c].ask /\ d.at = "registered" /\ d.timer = conn[c].timer
  BY <1>1 DEF Conn
<1>3. conn[c].at = "acked" /\ Only(c, d) /\ UNCHANGED <<online, faults, quiet>>
  BY DEF Register
<1> HIDE DEF d
<1> QED
  BY <1>1, <1>2, <1>3, QuietStep DEF Works

LEMMA SetOnlineStep ==
  ASSUME Inv, NEW c \in Conns, SetOnline(c)
  PROVE  Inv'
<1> DEFINE d == [conn[c] EXCEPT !.at = "run", !.writing = TRUE]
<1>1. conn[c] \in Conn /\ online \in BOOLEAN
  BY InvFacts
<1>2. /\ d \in Conn /\ d.queue = conn[c].queue /\ d.reply = conn[c].reply /\ d.read = conn[c].read
      /\ d.ask = conn[c].ask /\ d.at = "run" /\ d.peer = conn[c].peer
  BY <1>1 DEF Conn
<1>3. /\ conn[c].at = "registered" /\ Only(c, d) /\ UNCHANGED quiet
      /\ (Works /\ online' = TRUE) \/ (Breaks /\ online' = online)
  BY DEF SetOnline
<1> HIDE DEF d
<1> QED
  BY <1>1, <1>2, <1>3, QuietStep

LEMMA LeaveStep ==
  ASSUME Inv, NEW c \in Conns, Leave(c)
  PROVE  Inv'
<1>1. PICK p \in {"silent", "closed"} : Only(c, [conn[c] EXCEPT !.peer = p])
  BY DEF Leave
<1> DEFINE d == [conn[c] EXCEPT !.peer = p]
<1>2. conn[c] \in Conn /\ online \in BOOLEAN
  BY InvFacts
<1>3. /\ d \in Conn /\ d.queue = conn[c].queue /\ d.reply = conn[c].reply /\ d.read = conn[c].read
      /\ d.ask = conn[c].ask /\ d.at = conn[c].at /\ d.timer = conn[c].timer /\ d.peer # "open"
  BY <1>2 DEF Conn
<1>4. conn[c].at = "run" /\ Only(c, d) /\ UNCHANGED <<online, faults, quiet>>
  BY <1>1 DEF Leave
<1> HIDE DEF d
<1> QED
  BY <1>2, <1>3, <1>4, QuietStep DEF Works

LEMMA PingStep ==
  ASSUME Inv, NEW c \in Conns, Ping(c)
  PROVE  Inv'
<1> DEFINE d == [conn[c] EXCEPT !.writing = FALSE, !.peer = "closed"]
<1>1. conn[c] \in Conn /\ online \in BOOLEAN
  BY InvFacts
<1>2. /\ d \in Conn /\ d.queue = conn[c].queue /\ d.reply = conn[c].reply /\ d.read = conn[c].read
      /\ d.ask = conn[c].ask /\ d.at = conn[c].at /\ d.timer = conn[c].timer /\ d.peer = "closed"
  BY <1>1 DEF Conn
<1>3. conn[c].at = "run" /\ Only(c, d) /\ UNCHANGED <<online, faults, quiet>>
  BY DEF Ping
<1> HIDE DEF d
<1> QED
  BY <1>1, <1>2, <1>3, QuietStep DEF Works

LEMMA OfflineStep ==
  ASSUME Inv, NEW c \in Conns, Offline(c)
  PROVE  Inv'
<1> DEFINE d == [conn[c] EXCEPT !.timer = FALSE]
<1>1. conn[c] \in Conn /\ online \in BOOLEAN
  BY InvFacts
<1>2. /\ d \in Conn /\ d.queue = conn[c].queue /\ d.reply = conn[c].reply /\ d.read = conn[c].read
      /\ d.ask = conn[c].ask /\ d.at = conn[c].at /\ d.peer = conn[c].peer
  BY <1>1 DEF Conn
<1>3. /\ Only(c, d) /\ UNCHANGED quiet
      /\ (Works /\ online' = FALSE) \/ (Breaks /\ online' = online)
  BY DEF Offline
<1> HIDE DEF d
<1> QED
  BY <1>1, <1>2, <1>3, QuietStep

-----------------------------------------------------------------------------
(* The reader.                                                             *)

\* A connection that keeps its messages keeps its word.
LEMMA StillTold ==
  ASSUME Inv, NEW c \in Conns, NEW n \in Notifs, NEW d, Only(c, d), On(d) = On(conn[c]),
         d.at = conn[c].at, d.peer = conn[c].peer, UNCHANGED <<job, wire, missed, known, fetched>>,
         InFeed(n)' => InFeed(n), gap \subseteq gap'
  PROVE  Told(c, n)'
<1>1. Told(c, n) /\ conn'[c] = d
  BY InvFacts DEF Only
<1> QED
  BY <1>1 DEF Told

LEMMA ReadMessageStep ==
  ASSUME Inv, NEW c \in Conns, ReadMessage(c)
  PROVE  Inv'
<1>1. PICK a \in Ask : Only(c, [conn[c] EXCEPT !.read = "handle", !.ask = a])
  BY DEF ReadMessage
<1> DEFINE d == [conn[c] EXCEPT !.read = "handle", !.ask = a]
<1>2. conn[c] \in Conn /\ ConnOK(conn[c])
  BY InvFacts
<1>3. /\ d \in Conn /\ d.queue = conn[c].queue /\ d.reply = conn[c].reply /\ d.read = "handle"
      /\ d.ask = a /\ d.at = conn[c].at /\ d.peer = conn[c].peer /\ d.timer = conn[c].timer
  BY <1>2 DEF Conn
<1>4. /\ conn[c].at = "run" /\ conn[c].read = "read" /\ Only(c, d) /\ asks < MaxAsks /\ asks' = asks + 1
      /\ UNCHANGED <<feed, job, tally, wire, online, faults, known, fetched, gap, missed, withdrawn>>
  BY <1>1 DEF ReadMessage, Reader, told
<1> HIDE DEF d
<1>5. On(d) = On(conn[c])
  BY <1>3 DEF On
<1>6. ConnOK(d)
  BY <1>2, <1>3, <1>4, <1>5 DEF ConnOK
<1>7. \A n \in Notifs : Told(c, n)'
  BY <1>3, <1>4, <1>5, StillTold DEF InFeed
<1>8. asks' \in 0..MaxAsks /\ faults \in 0..MaxFaults
  BY <1>4, InvFacts, BoundsAssumption
<1> QED
  BY <1>3, <1>4, <1>5, <1>6, <1>7, <1>8, InvFacts, ConnStep

LEMMA EntryFacts ==
  ASSUME NEW e \in Entry
  PROVE  /\ [e EXCEPT !.seen = TRUE] \in Entry /\ [e EXCEPT !.archived = TRUE] \in Entry
         /\ [e EXCEPT !.sent = TRUE] \in Entry /\ [e EXCEPT !.text = TRUE] \in Entry
         /\ [e EXCEPT !.seen = TRUE].seen = TRUE /\ [e EXCEPT !.archived = TRUE].archived = TRUE
         /\ [e EXCEPT !.seen = TRUE].sent = e.sent /\ [e EXCEPT !.seen = TRUE].text = e.text
         /\ [e EXCEPT !.seen = TRUE].archived = e.archived
         /\ [e EXCEPT !.archived = TRUE].sent = e.sent /\ [e EXCEPT !.archived = TRUE].text = e.text
         /\ [e EXCEPT !.archived = TRUE].seen = e.seen
         /\ [e EXCEPT !.sent = TRUE].sent = TRUE /\ [e EXCEPT !.sent = TRUE].text = e.text
         /\ [e EXCEPT !.sent = TRUE].seen = e.seen /\ [e EXCEPT !.sent = TRUE].archived = e.archived
         /\ [e EXCEPT !.text = TRUE].text = TRUE /\ [e EXCEPT !.text = TRUE].sent = e.sent
         /\ [e EXCEPT !.text = TRUE].seen = e.seen /\ [e EXCEPT !.text = TRUE].archived = e.archived
  BY Zenon DEF Entry

\* What marking does to the feed.
LEMMA MarkFacts ==
  ASSUME Inv, NEW ns \in SUBSET Notifs, NEW field \in {"seen", "archived"}, Mark(ns, field)
  PROVE  /\ feed' \in [Notifs -> Entry]
         /\ \A n \in Notifs : /\ feed[n].sent = feed'[n].sent /\ feed[n].text = feed'[n].text
                              /\ (feed[n].seen => feed'[n].seen)
                              /\ (feed[n].archived => feed'[n].archived)
         /\ \A n \in Notifs : InFeed(n)' => InFeed(n)
         /\ field = "seen" => \A n \in ns : feed'[n].seen
<1>1. ASSUME NEW n \in Notifs
      PROVE  /\ [feed[n] EXCEPT !.seen = TRUE] \in Entry /\ [feed[n] EXCEPT !.archived = TRUE] \in Entry
             /\ [feed[n] EXCEPT !.seen = TRUE].seen /\ [feed[n] EXCEPT !.archived = TRUE].archived
             /\ [feed[n] EXCEPT !.seen = TRUE].sent = feed[n].sent
             /\ [feed[n] EXCEPT !.seen = TRUE].text = feed[n].text
             /\ [feed[n] EXCEPT !.seen = TRUE].archived = feed[n].archived
             /\ [feed[n] EXCEPT !.archived = TRUE].sent = feed[n].sent
             /\ [feed[n] EXCEPT !.archived = TRUE].text = feed[n].text
             /\ [feed[n] EXCEPT !.archived = TRUE].seen = feed[n].seen
             /\ feed[n] \in Entry
  <2>1. feed[n] \in Entry
    BY InvFacts
  <2> QED
    BY <2>1, EntryFacts, Zenon
<1>2. \A n \in Notifs : feed'[n] = IF n \notin ns THEN feed[n]
                                   ELSE IF field = "seen" THEN [feed[n] EXCEPT !.seen = TRUE]
                                   ELSE [feed[n] EXCEPT !.archived = TRUE]
  BY DEF Mark
<1>3. feed' \in [Notifs -> Entry]
  BY <1>1 DEF Mark
<1>4. \A n \in Notifs : /\ feed[n].sent = feed'[n].sent /\ feed[n].text = feed'[n].text
                        /\ (feed[n].seen => feed'[n].seen)
                        /\ (feed[n].archived => feed'[n].archived)
  BY <1>1, <1>2
<1> QED
  BY <1>1, <1>2, <1>3, <1>4 DEF InFeed

\* The reader of c is done with its question, or has an answer of its own to it.
LEMMA ReaderStep ==
  ASSUME Inv, NEW c \in Conns, NEW d \in Conn, Only(c, d), conn[c].at = "run",
         d.at = conn[c].at, d.peer = conn[c].peer, d.timer = conn[c].timer, d.queue = conn[c].queue,
         d.reply = conn[c].reply \/ (d.reply \in Message /\ Correct(d.reply, feed', missed, withdrawn)
                                     /\ conn[c].reply = NoMessage),
         d.reply # conn[c].reply /\ d.reply.what = "feed" => c \in gap' \/ d.reply.of = Feed,
         d.reply.what # "new",
         d.read = "handle" => d.ask \in Ask,
         d.read = "count" => d.ask.n \in Notifs /\ feed'[d.ask.n].seen,
         IF d.read = "reply" THEN d.reply \in Message ELSE d.reply = NoMessage,
         feed' \in [Notifs -> Entry],
         \A n \in Notifs : /\ feed[n].sent = feed'[n].sent /\ feed[n].text = feed'[n].text
                           /\ (feed[n].seen => feed'[n].seen)
                           /\ (feed[n].archived => feed'[n].archived),
         UNCHANGED <<job, tally, wire, online, asks, known, fetched, missed, withdrawn>>,
         Works \/ Breaks, gap' \in {gap, gap \cup {c}}
  PROVE  Inv'
<1>1. conn[c] \in Conn /\ ConnOK(conn[c])
  BY InvFacts
<1>2. ConnOK(d)
  BY <1>1 DEF ConnOK
<1>3. conn'[c] = d
  BY InvFacts DEF Only
<1>4. \A m \in On(d) : m \in On(conn[c]) \/ Correct(m, feed', missed, withdrawn)
  BY DEF On
<1>5. ASSUME NEW n \in Notifs
      PROVE  Told(c, n)'
  <2>1. Told(c, n)
    BY InvFacts
  <2>2. InFeed(n)' => InFeed(n) /\ n \in Feed
    BY InvFacts DEF InFeed, Feed
  <2>3. \A m \in On(conn[c]) : m \in On(d) \/ m.what # "new"
    BY EmptyFacts DEF On
  <2>4. \A m \in On(d) : m \in On(conn[c]) \/ c \in gap' \/ m.what # "feed" \/ m.of = Feed
    BY DEF On
  <2>5. gap \subseteq gap'
    OBVIOUS
  <2> QED
    BY <1>3, <2>1, <2>2, <2>3, <2>4, <2>5 DEF Told
<1>6. faults' \in 0..MaxFaults /\ (faults' = 0 => faults = 0)
  BY Counted
<1>7. /\ asks' \in 0..MaxAsks /\ known' \in [Conns -> SUBSET Notifs] /\ fetched' \subseteq Conns
      /\ gap' \subseteq Conns /\ gap \ {c} \subseteq gap' /\ online' \in BOOLEAN
  BY InvFacts
<1> QED
  BY <1>2, <1>4, <1>5, <1>6, <1>7, InvFacts, ConnStep

LEMMA AskFacts ==
  /\ \A a \in Ask : /\ a.what \in {"seen", "archive", "fetch"} /\ (a.what # "fetch" => a.n \in Notifs)
  /\ \A k \in {"new", "count", "feed"}, n \in Notifs \cup {None}, ns \in SUBSET Notifs :
       /\ [what |-> k, n |-> n, of |-> ns] \in Message
       /\ [what |-> k, n |-> n, of |-> ns].what = k /\ [what |-> k, n |-> n, of |-> ns].n = n
       /\ [what |-> k, n |-> n, of |-> ns].of = ns
  BY DEF Ask, Message

LEMMA WaitingFacts ==
  ASSUME NEW c \in Conns, conn[c] \in Conn
  PROVE  /\ Waiting(c) \in Conn /\ Waiting(c).read = "read" /\ Waiting(c).at = conn[c].at
         /\ Waiting(c).peer = conn[c].peer /\ Waiting(c).timer = conn[c].timer
         /\ Waiting(c).queue = conn[c].queue /\ Waiting(c).reply = conn[c].reply
  BY DEF Waiting, Conn

LEMMA HandleStep ==
  ASSUME Inv, NEW c \in Conns, Handle(c)
  PROVE  Inv'
<1> DEFINE a == conn[c].ask
           said(ns) == [what |-> "feed", n |-> None, of |-> ns]
           reply(ns) == [conn[c] EXCEPT !.read = "reply", !.ask = NoAsk, !.reply = said(ns)]
           counting == [conn[c] EXCEPT !.read = "count"]
<1>1. conn[c] \in Conn /\ ConnOK(conn[c]) /\ feed \in [Notifs -> Entry] /\ Feed \subseteq Notifs
  BY InvFacts DEF Feed
<1>2. conn[c].at = "run" /\ conn[c].read = "handle" /\ a \in Ask /\ conn[c].reply = NoMessage
  BY <1>1 DEF Handle, Reader, ConnOK
<1>3. UNCHANGED <<job, tally, wire, online, asks, known, fetched, missed, withdrawn>>
  BY DEF Handle, told
<1>4. a.what \in {"seen", "archive", "fetch"} /\ (a.what # "fetch" => a.n \in Notifs)
  BY <1>2, AskFacts
<1>5. \/ a.what = "seen" /\ Works /\ Mark({a.n}, "seen") /\ UNCHANGED gap /\ Only(c, counting)
      \/ a.what = "archive" /\ Works /\ Mark({a.n}, "archived") /\ UNCHANGED gap /\ Only(c, Waiting(c))
      \/ a.what # "fetch" /\ Breaks /\ Only(c, Waiting(c)) /\ UNCHANGED <<feed, gap>>
      \/ a.what = "fetch" /\ Works /\ Only(c, reply(Feed)) /\ UNCHANGED <<feed, gap>>
      \/ a.what = "fetch" /\ Breaks /\ Only(c, reply({})) /\ gap' = gap \cup {c} /\ UNCHANGED feed
  BY DEF Handle
<1>6. ASSUME NEW ns \in SUBSET Notifs
      PROVE  /\ reply(ns) \in Conn /\ reply(ns).read = "reply" /\ reply(ns).reply = said(ns)
             /\ reply(ns).at = conn[c].at /\ reply(ns).peer = conn[c].peer
             /\ reply(ns).timer = conn[c].timer /\ reply(ns).queue = conn[c].queue
             /\ said(ns) \in Message /\ said(ns).what = "feed" /\ said(ns).of = ns
             /\ \A f : Correct(said(ns), f, missed, withdrawn)
  <2>1. said(ns) \in Message /\ said(ns).what = "feed" /\ said(ns).of = ns
    BY AskFacts
  <2>2. \A f : Correct(said(ns), f, missed, withdrawn)
    BY <2>1 DEF Correct
  <2> HIDE DEF said
  <2> QED
    BY <1>1, <2>1, <2>2 DEF Conn
<1>7. /\ counting \in Conn /\ counting.read = "count" /\ counting.ask = a /\ counting.at = conn[c].at
      /\ counting.peer = conn[c].peer /\ counting.timer = conn[c].timer
      /\ counting.queue = conn[c].queue /\ counting.reply = conn[c].reply
  BY <1>1 DEF Conn
<1>8. Waiting(c) \in Conn /\ Waiting(c).read = "read" /\ Waiting(c).at = conn[c].at
      /\ Waiting(c).peer = conn[c].peer /\ Waiting(c).timer = conn[c].timer
      /\ Waiting(c).queue = conn[c].queue /\ Waiting(c).reply = conn[c].reply
  BY <1>1, WaitingFacts
<1> HIDE DEF a, said, reply, counting
<1>9. ASSUME a.what = "seen", Works, Mark({a.n}, "seen"), UNCHANGED gap, Only(c, counting)
      PROVE  Inv'
  <2>1. /\ feed' \in [Notifs -> Entry] /\ feed'[a.n].seen
        /\ \A n \in Notifs : /\ feed[n].sent = feed'[n].sent /\ feed[n].text = feed'[n].text
                             /\ (feed[n].seen => feed'[n].seen)
                             /\ (feed[n].archived => feed'[n].archived)
    BY <1>4, <1>9, MarkFacts
  <2> QED
    BY <1>2, <1>3, <1>4, <1>7, <1>9, <2>1, EmptyFacts, ReaderStep
<1>10. ASSUME a.what = "archive", Works, Mark({a.n}, "archived"), UNCHANGED gap, Only(c, Waiting(c))
       PROVE  Inv'
  <2>1. /\ feed' \in [Notifs -> Entry]
        /\ \A n \in Notifs : /\ feed[n].sent = feed'[n].sent /\ feed[n].text = feed'[n].text
                             /\ (feed[n].seen => feed'[n].seen)
                             /\ (feed[n].archived => feed'[n].archived)
    BY <1>4, <1>10, MarkFacts
  <2> QED
    BY <1>2, <1>3, <1>8, <1>10, <2>1, EmptyFacts, ReaderStep
<1>11. ASSUME Breaks, Only(c, Waiting(c)), UNCHANGED <<feed, gap>>
       PROVE  Inv'
  BY <1>1, <1>2, <1>3, <1>8, <1>11, EmptyFacts, ReaderStep
<1>12. ASSUME Works, Only(c, reply(Feed)), UNCHANGED <<feed, gap>>
       PROVE  Inv'
  BY <1>1, <1>2, <1>3, <1>6, <1>12, ReaderStep
<1>13. ASSUME Breaks, Only(c, reply({})), gap' = gap \cup {c}, UNCHANGED feed
       PROVE  Inv'
  BY <1>1, <1>2, <1>3, <1>6, <1>13, ReaderStep
<1> QED
  BY <1>5, <1>9, <1>10, <1>11, <1>12, <1>13

LEMMA CountStep ==
  ASSUME Inv, NEW c \in Conns, Count(c)
  PROVE  Inv'
<1> DEFINE said == [what |-> "count", n |-> conn[c].ask.n, of |-> UnseenCount]
           d == [conn[c] EXCEPT !.read = "reply", !.ask = NoAsk, !.reply = said]
<1>1. conn[c] \in Conn /\ ConnOK(conn[c]) /\ feed \in [Notifs -> Entry]
  BY InvFacts
<1>2. conn[c].at = "run" /\ conn[c].read = "count" /\ conn[c].ask.n \in Notifs
      /\ conn[c].reply = NoMessage /\ feed[conn[c].ask.n].seen
  BY <1>1, InvFacts DEF Count, Reader, ConnOK
<1>3. UNCHANGED <<feed, job, tally, wire, online, asks, known, fetched, gap, missed, withdrawn>>
  BY DEF Count, quiet, told
<1>4. (Works /\ Only(c, d)) \/ (Breaks /\ Only(c, Waiting(c)))
  BY DEF Count
<1>5. UnseenCount \subseteq Notifs /\ conn[c].ask.n \notin UnseenCount
      /\ \A n \in UnseenCount : feed[n].sent
  BY <1>2 DEF UnseenCount, Feed, InFeed
<1>6. said \in Message /\ said.what = "count" /\ said.n = conn[c].ask.n /\ said.of = UnseenCount
  BY <1>2, <1>5, AskFacts
<1>7. Correct(said, feed, missed, withdrawn)
  BY <1>5, <1>6 DEF Correct
<1> HIDE DEF said
<1>8. /\ d \in Conn /\ d.read = "reply" /\ d.reply = said /\ d.at = conn[c].at
      /\ d.peer = conn[c].peer /\ d.timer = conn[c].timer /\ d.queue = conn[c].queue
  BY <1>1, <1>6 DEF Conn
<1>9. Waiting(c) \in Conn /\ Waiting(c).read = "read" /\ Waiting(c).at = conn[c].at
      /\ Waiting(c).peer = conn[c].peer /\ Waiting(c).timer = conn[c].timer
      /\ Waiting(c).queue = conn[c].queue /\ Waiting(c).reply = conn[c].reply
  BY <1>1, WaitingFacts
<1> HIDE DEF d
<1>10. CASE Works /\ Only(c, d)
  BY <1>1, <1>2, <1>3, <1>6, <1>7, <1>8, <1>10, ReaderStep
<1>11. CASE Breaks /\ Only(c, Waiting(c))
  BY <1>1, <1>2, <1>3, <1>9, <1>11, EmptyFacts, ReaderStep
<1> QED
  BY <1>4, <1>10, <1>11

LEMMA ReplyStep ==
  ASSUME Inv, NEW c \in Conns, Reply(c)
  PROVE  Inv'
<1> DEFINE q == Append(conn[c].queue, conn[c].reply)
           d == [conn[c] EXCEPT !.read = "read", !.reply = NoMessage, !.queue = q]
<1>1. conn[c] \in Conn /\ ConnOK(conn[c]) /\ conn[c].queue \in Seq(Message)
  BY InvFacts, ConnFacts
<1>2. /\ conn[c].at = "run" /\ conn[c].read = "reply" /\ conn[c].reply \in Message /\ Only(c, d)
      /\ Len(conn[c].queue) < Buffer
      /\ UNCHANGED <<online, faults, feed, job, tally, wire, asks, known, fetched, gap, missed, withdrawn>>
  BY <1>1 DEF Reply, Reader, ConnOK, Fits, quiet, told
<1>3. /\ q \in Seq(Message) /\ Len(q) = Len(conn[c].queue) + 1
      /\ Elems(q) = Elems(conn[c].queue) \cup {conn[c].reply}
  BY <1>1, <1>2, ElemsAppend
<1> HIDE DEF q
<1>4. /\ d \in Conn /\ d.read = "read" /\ d.reply = NoMessage /\ d.queue = q /\ d.at = "run"
      /\ d.peer = conn[c].peer
  BY <1>1, <1>2, <1>3 DEF Conn
<1> HIDE DEF d
<1>5. On(d) = On(conn[c]) \cup {NoMessage}
  BY <1>3, <1>4 DEF On
<1>6. ConnOK(d)
  BY <1>1, <1>2, <1>3, <1>4, BufferAssumption DEF ConnOK
<1>7. conn'[c] = d
  BY <1>2, InvFacts DEF Only
<1>8. ASSUME NEW n \in Notifs
      PROVE  Told(c, n)'
  <2>1. Told(c, n)
    BY InvFacts
  <2>2. InFeed(n)' = InFeed(n)
    BY <1>2 DEF InFeed
  <2> QED
    BY <1>2, <1>4, <1>5, <1>7, <2>1, <2>2, EmptyFacts DEF Told
<1>9. \A m \in On(d) : m \in On(conn[c]) \/ Correct(m, feed', missed, withdrawn)
  BY <1>5, EmptyFacts
<1>10. UNCHANGED <<feed, job, tally, wire, missed, withdrawn>>
  BY <1>2
<1> QED
  BY <1>2, <1>4, <1>6, <1>8, <1>9, InvFacts, ConnStep

LEMMA EndStep ==
  ASSUME Inv, NEW c \in Conns, End(c)
  PROVE  Inv'
<1>1. /\ Only(c, Gone(TRUE)) /\ conn[c].at = "run"
      /\ UNCHANGED <<feed, job, tally, wire, online, asks, faults, missed, withdrawn>>
  BY DEF End, Grace, Reader
<1>2. /\ known' = [x \in Conns |-> IF x \in {c} THEN {} ELSE known[x]]
      /\ fetched' = fetched \ {c} /\ gap' = gap \ {c}
  BY DEF End, Forget
<1>3. /\ ConnOK(Gone(TRUE)) /\ On(Gone(TRUE)) = {NoMessage} /\ Gone(TRUE).at = "gone"
      /\ Gone(TRUE).read = "read" /\ Gone(TRUE).timer
  BY GoneFacts
<1>4. conn'[c] = Gone(TRUE)
  BY <1>1, InvFacts DEF Only
<1>5. \A n \in Notifs : Told(c, n)'
  BY <1>3, <1>4 DEF Told
<1>6. /\ known' \in [Conns -> SUBSET Notifs] /\ fetched' \subseteq Conns /\ gap' \subseteq Conns
      /\ gap \ {c} \subseteq gap' /\ c \notin fetched'
      /\ \A x \in Conns \ {c} : known'[x] = known[x] /\ (x \in fetched <=> x \in fetched')
  BY <1>2, InvFacts
<1>7. \A m \in On(Gone(TRUE)) : m \in On(conn[c]) \/ Correct(m, feed', missed, withdrawn)
  BY <1>3, EmptyFacts
<1> QED
  BY <1>1, <1>3, <1>5, <1>6, <1>7, InvFacts, ConnStep

-----------------------------------------------------------------------------
(* The writer.                                                             *)

LEMMA WriteStep ==
  ASSUME Inv, NEW c \in Conns, Write(c)
  PROVE  Inv'
<1> DEFINE m == Head(conn[c].queue)
           rest == Tail(conn[c].queue)
           d == [conn[c] EXCEPT !.queue = rest]
           e == [conn[c] EXCEPT !.queue = rest, !.writing = FALSE, !.peer = "closed"]
<1>1. conn[c] \in Conn /\ ConnOK(conn[c]) /\ conn[c].queue \in Seq(Message)
  BY InvFacts, ConnFacts
<1>2. /\ conn[c].at = "run" /\ conn[c].queue # << >>
      /\ UNCHANGED <<feed, job, tally, wire, online, asks, faults, gap, missed, withdrawn>>
  BY DEF Write
<1>3. \/ /\ conn[c].peer = "open" /\ Only(c, d)
         /\ known' = [known EXCEPT ![c] = known[c] \cup
                        (IF m.what = "new" THEN {m.n} ELSE IF m.what = "feed" THEN m.of ELSE {})]
         /\ fetched' = IF m.what = "feed" THEN fetched \cup {c} ELSE fetched
      \/ Only(c, e) /\ UNCHANGED <<known, fetched>>
  BY DEF Write, told
<1>4. /\ rest \in Seq(Message) /\ Len(rest) <= Buffer /\ m \in Message
      /\ Elems(conn[c].queue) = Elems(rest) \cup {m}
  BY <1>1, <1>2, ElemsTail, BufferAssumption DEF ConnOK
<1>5. m \in On(conn[c]) /\ Correct(m, feed, missed, withdrawn)
  <2>1. m \in On(conn[c])
    BY <1>4 DEF On
  <2> QED
    BY <2>1, InvFacts
<1> HIDE DEF m, rest
<1>6. /\ d \in Conn /\ d.queue = rest /\ d.reply = conn[c].reply /\ d.read = conn[c].read
      /\ d.ask = conn[c].ask /\ d.at = "run" /\ d.peer = conn[c].peer
  BY <1>1, <1>2, <1>4 DEF Conn
<1>7. /\ e \in Conn /\ e.queue = rest /\ e.reply = conn[c].reply /\ e.read = conn[c].read
      /\ e.ask = conn[c].ask /\ e.at = "run" /\ e.peer = "closed"
  BY <1>1, <1>2, <1>4 DEF Conn
<1> HIDE DEF d, e
<1>8. On(conn[c]) = On(d) \cup {m} /\ On(e) = On(d)
  BY <1>4, <1>6, <1>7 DEF On
<1>9. ConnOK(d) /\ ConnOK(e)
  BY <1>1, <1>4, <1>6, <1>7 DEF ConnOK
<1>10. ASSUME conn[c].peer = "open", Only(c, d),
              known' = [known EXCEPT ![c] = known[c] \cup
                         (IF m.what = "new" THEN {m.n} ELSE IF m.what = "feed" THEN m.of ELSE {})],
              fetched' = IF m.what = "feed" THEN fetched \cup {c} ELSE fetched
       PROVE  Inv'
  <2> DEFINE more == IF m.what = "new" THEN {m.n} ELSE IF m.what = "feed" THEN m.of ELSE {}
  <2>1. more \subseteq Notifs
    BY <1>4, <1>5 DEF Message, Correct
  <2>2. known' \in [Conns -> SUBSET Notifs] /\ known'[c] = known[c] \cup more
        /\ \A x \in Conns \ {c} : known'[x] = known[x]
    BY <1>10, <2>1, InvFacts
  <2>3. more = IF m.what = "new" THEN {m.n} ELSE IF m.what = "feed" THEN m.of ELSE {}
    OBVIOUS
  <2> HIDE DEF more
  <2>4. conn'[c] = d
    BY <1>10, InvFacts DEF Only
  <2>5. ASSUME NEW n \in Notifs
        PROVE  Told(c, n)'
    <3>1. Told(c, n)
      BY InvFacts
    <3>2. InFeed(n)' = InFeed(n)
      BY <1>2 DEF InFeed
    <3>3. CASE m.what = "new" /\ m.n = n
      BY <2>2, <2>3, <3>3 DEF Told
    <3>4. CASE m.what = "feed"
      BY <1>2, <1>6, <1>8, <1>10, <2>2, <2>3, <2>4, <3>1, <3>2, <3>4 DEF Told
    <3>5. CASE m.what # "feed" /\ ~(m.what = "new" /\ m.n = n)
      BY <1>2, <1>6, <1>8, <1>10, <2>2, <2>3, <2>4, <3>1, <3>2, <3>5 DEF Told
    <3> QED
      BY <3>3, <3>4, <3>5
  <2>6. fetched' \subseteq Conns /\ \A x \in Conns \ {c} : x \in fetched <=> x \in fetched'
    BY <1>10, InvFacts
  <2>7. UNCHANGED <<feed, job, tally, wire, missed, withdrawn>>
    BY <1>2
  <2>8. \A x \in On(d) : x \in On(conn[c])
    BY <1>8
  <2> QED
    BY <1>2, <1>6, <1>9, <1>10, <2>2, <2>5, <2>6, <2>7, <2>8, InvFacts, ConnStep
<1>11. ASSUME Only(c, e), UNCHANGED <<known, fetched>>
       PROVE  Inv'
  <2>1. conn'[c] = e
    BY <1>11, InvFacts DEF Only
  <2>2. \A n \in Notifs : Told(c, n)'
    BY <1>7, <2>1 DEF Told
  <2>3. UNCHANGED <<feed, job, tally, wire, missed, withdrawn>>
    BY <1>2
  <2>4. \A x \in On(e) : x \in On(conn[c])
    BY <1>8
  <2> QED
    BY <1>2, <1>7, <1>9, <1>11, <2>2, <2>3, <2>4, InvFacts, ConnStep
<1> QED
  BY <1>3, <1>10, <1>11

-----------------------------------------------------------------------------
(* The workers, the hub, the feed API and restarts.                        *)

\* A step that leaves the connections alone.
LEMMA WorldStep ==
  ASSUME Inv, UNCHANGED <<conn, online, known, fetched>>,
         feed' \in [Notifs -> Entry],
         job' \in [Notifs -> {"todo", "status", "publish", "count", "send", "done"}],
         tally' \in [Notifs -> SUBSET Notifs], wire' \in Seq(Message), asks' \in 0..MaxAsks,
         Works \/ Breaks, missed \subseteq missed', missed' \subseteq Notifs,
         withdrawn \subseteq withdrawn', withdrawn' \subseteq Notifs,
         gap \subseteq gap', gap' \subseteq Conns,
         \A n \in Notifs : /\ (feed[n].sent => feed'[n].sent \/ n \in withdrawn')
                           /\ (feed[n].text => feed'[n].text)
                           /\ (feed[n].seen => feed'[n].seen)
                           /\ (feed[n].archived => feed'[n].archived)
                           /\ (Published(job'[n]) /\ feed'[n].sent => feed[n].sent),
         \A n \in Notifs : /\ Behind(job'[n], n, feed', missed')
                           /\ Counts(tally'[n], feed', withdrawn'),
         \A n \in Notifs : Published(job'[n]) => \/ Published(job[n])
                                                 \/ \E m \in Elems(wire') : m.what = "new" /\ m.n = n
                                                 \/ Room \subseteq gap'
                                                 \/ ~feed'[n].sent \/ n \in missed',
         \A m \in Elems(wire') : \/ m \in Elems(wire)
                                 \/ (m.what # "feed" /\ Correct(m, feed', missed', withdrawn')),
         Elems(wire) \subseteq Elems(wire')
  PROVE  Inv'
<1>1. faults' \in 0..MaxFaults /\ (faults' = 0 => faults = 0)
  BY Counted
<1>2. TypeOK'
  BY <1>1 DEF Inv, TypeOK
<1>3. \A c \in Conns : ConnOK(conn[c])' /\ (conn'[c].at # "run" => c \notin fetched')
  BY InvFacts
<1>4. \A c \in Conns : conn'[c].read = "count" => feed'[conn'[c].ask.n].seen
  BY InvFacts DEF ConnOK
<1>5. \A m \in Elems(wire)' : m.what # "feed" /\ Correct(m, feed', missed', withdrawn')
  BY CorrectGrows DEF Inv
<1>6. \A c \in Conns : \A m \in On(conn[c])' : Correct(m, feed', missed', withdrawn')
  BY CorrectGrows, InvFacts
<1>7. ASSUME NEW c \in Conns, NEW n \in Notifs
      PROVE  Told(c, n)'
  <2>1. Told(c, n)
    BY InvFacts
  <2>2. Published(job'[n]) /\ InFeed(n)' => InFeed(n)
    BY InvFacts DEF InFeed
  <2>3. conn[c].at = "run" => c \in Room
    BY DEF Room
  <2>4. InFeed(n)' => feed'[n].sent
    BY DEF InFeed
  <2> QED
    BY <2>1, <2>2, <2>3, <2>4 DEF Told
<1>8. faults' = 0 /\ online' => \E c \in Conns : conn'[c].at = "run" \/ conn'[c].timer
  BY <1>1 DEF Inv
<1> QED
  BY <1>2, <1>3, <1>4, <1>5, <1>6, <1>7, <1>8 DEF Inv

\* The writes of a delivery change one entry.
LEMMA EntryWrite ==
  ASSUME Inv, NEW n \in Notifs, NEW e \in Entry, feed' = [feed EXCEPT ![n] = e],
         e.archived = feed[n].archived, e.seen = feed[n].seen,
         feed[n].sent => e.sent, feed[n].text => e.text
  PROVE  /\ feed' \in [Notifs -> Entry] /\ feed'[n] = e
         /\ \A x \in Notifs \ {n} : feed'[x] = feed[x]
         /\ \A x \in Notifs : /\ (feed[x].sent => feed'[x].sent) /\ (feed[x].text => feed'[x].text)
                              /\ (feed[x].seen => feed'[x].seen)
                              /\ (feed[x].archived => feed'[x].archived)
<1>1. feed \in [Notifs -> Entry]
  BY InvFacts
<1> QED
  BY <1>1

LEMMA NowFacts ==
  ASSUME Inv, NEW n \in Notifs, NEW at \in {"todo", "status", "publish", "count", "send", "done"},
         Now(n, at)
  PROVE  /\ job' \in [Notifs -> {"todo", "status", "publish", "count", "send", "done"}]
         /\ job'[n] = at /\ \A x \in Notifs \ {n} : job'[x] = job[x]
  BY InvFacts DEF Now

\* The workers of the other notifications hold what they held.
LEMMA OthersBehind ==
  ASSUME Inv, NEW n \in Notifs,
         \A x \in Notifs \ {n} : job'[x] = job[x] /\ tally'[x] = tally[x],
         \A x \in Notifs \ {n} : (feed[x].sent => feed'[x].sent) /\ (feed[x].text => feed'[x].text),
         feed[n].sent => feed'[n].sent \/ n \in withdrawn',
         missed \subseteq missed', withdrawn \subseteq withdrawn'
  PROVE  \A x \in Notifs \ {n} : /\ Behind(job'[x], x, feed', missed')
                                 /\ Counts(tally'[x], feed', withdrawn')
<1> SUFFICES ASSUME NEW x \in Notifs \ {n}
             PROVE  /\ Behind(job[x], x, feed', missed')
                    /\ Counts(tally[x], feed', withdrawn')
  OBVIOUS
<1>1. Behind(job[x], x, feed, missed) /\ Counts(tally[x], feed, withdrawn) /\ tally[x] \subseteq Notifs
  BY DEF Inv, TypeOK
<1> QED
  BY <1>1 DEF Behind, Counts

LEMMA RenderStep ==
  ASSUME Inv, NEW n \in Notifs, SetRenderedContent(n)
  PROVE  Inv'
<1>1. /\ job[n] = "todo" /\ Now(n, "status")
      /\ UNCHANGED <<tally, wire, conn, online, asks, known, fetched, gap, withdrawn>>
      /\ \/ Works /\ feed' = [feed EXCEPT ![n].text = TRUE] /\ missed' = missed
         \/ Breaks /\ missed' = missed \cup {n} /\ feed' = feed
  BY DEF SetRenderedContent, After, told
<1>2. feed[n] \in Entry /\ tally[n] \subseteq Notifs /\ Counts(tally[n], feed, withdrawn)
  BY DEF Inv, TypeOK
<1>3. /\ feed' \in [Notifs -> Entry] /\ (n \in missed' \/ feed'[n].text)
      /\ \A x \in Notifs : /\ (feed[x].sent => feed'[x].sent) /\ (feed[x].text => feed'[x].text)
                           /\ (feed[x].seen => feed'[x].seen)
                           /\ (feed[x].archived => feed'[x].archived)
      /\ \A x \in Notifs : feed'[x].sent = feed[x].sent
  <2>1. CASE Works /\ feed' = [feed EXCEPT ![n].text = TRUE] /\ missed' = missed
    <3> DEFINE e == [feed[n] EXCEPT !.text = TRUE]
    <3>1. e \in Entry /\ e.text = TRUE /\ e.sent = feed[n].sent /\ e.seen = feed[n].seen
          /\ e.archived = feed[n].archived
      BY <1>2, EntryFacts, Zenon
    <3>2. feed' = [feed EXCEPT ![n] = e]
      BY <2>1
    <3> HIDE DEF e
    <3> QED
      BY <3>1, <3>2, EntryWrite
  <2>2. CASE Breaks /\ missed' = missed \cup {n} /\ feed' = feed
    BY <2>2, InvFacts
  <2> QED
    BY <1>1, <2>1, <2>2
<1>4. /\ job' \in [Notifs -> {"todo", "status", "publish", "count", "send", "done"}]
      /\ job'[n] = "status" /\ \A x \in Notifs \ {n} : job'[x] = job[x]
  BY <1>1, NowFacts
<1>5. missed \subseteq missed' /\ missed' \subseteq Notifs
  BY <1>1, InvFacts
<1>6. \A x \in Notifs : /\ Behind(job'[x], x, feed', missed')
                        /\ Counts(tally'[x], feed', withdrawn')
  <2>1. Behind("status", n, feed', missed')
    BY <1>3 DEF Behind
  <2>2. Counts(tally'[n], feed', withdrawn')
    BY <1>1, <1>2, <1>3 DEF Counts
  <2> QED
    BY <1>1, <1>2, <1>3, <1>4, <1>5, <2>1, <2>2, OthersBehind
<1>7. \A x \in Notifs : Published(job'[x]) => Published(job[x])
  BY <1>4 DEF Published
<1> QED
  BY <1>1, <1>3, <1>4, <1>5, <1>6, <1>7, InvFacts, WorldStep

LEMMA StatusStep ==
  ASSUME Inv, NEW n \in Notifs, UpdateChannelStatus(n)
  PROVE  Inv'
<1>1. /\ job[n] = "status" /\ Now(n, "publish")
      /\ UNCHANGED <<tally, wire, conn, online, asks, known, fetched, gap, withdrawn>>
      /\ \/ Works /\ feed' = [feed EXCEPT ![n].sent = TRUE] /\ missed' = missed
         \/ Breaks /\ missed' = missed \cup {n} /\ feed' = feed
  BY DEF UpdateChannelStatus, After, told
<1>2. /\ feed[n] \in Entry /\ tally[n] \subseteq Notifs /\ Counts(tally[n], feed, withdrawn)
      /\ Behind("status", n, feed, missed)
  BY <1>1 DEF Inv, TypeOK
<1>3. /\ feed' \in [Notifs -> Entry] /\ (n \in missed' \/ (feed'[n].sent /\ feed'[n].text))
      /\ \A x \in Notifs : /\ (feed[x].sent => feed'[x].sent) /\ (feed[x].text => feed'[x].text)
                           /\ (feed[x].seen => feed'[x].seen)
                           /\ (feed[x].archived => feed'[x].archived)
      /\ \A x \in Notifs \ {n} : feed'[x].sent = feed[x].sent
  <2>1. CASE Works /\ feed' = [feed EXCEPT ![n].sent = TRUE] /\ missed' = missed
    <3> DEFINE e == [feed[n] EXCEPT !.sent = TRUE]
    <3>1. e \in Entry /\ e.sent = TRUE /\ e.text = feed[n].text /\ e.seen = feed[n].seen
          /\ e.archived = feed[n].archived
      BY <1>2, EntryFacts, Zenon
    <3>2. feed' = [feed EXCEPT ![n] = e]
      BY <2>1
    <3> HIDE DEF e
    <3> QED
      BY <1>2, <2>1, <3>1, <3>2, EntryWrite DEF Behind
  <2>2. CASE Breaks /\ missed' = missed \cup {n} /\ feed' = feed
    BY <2>2, InvFacts
  <2> QED
    BY <1>1, <2>1, <2>2
<1>4. /\ job' \in [Notifs -> {"todo", "status", "publish", "count", "send", "done"}]
      /\ job'[n] = "publish" /\ \A x \in Notifs \ {n} : job'[x] = job[x]
  BY <1>1, NowFacts
<1>5. missed \subseteq missed' /\ missed' \subseteq Notifs
  BY <1>1, InvFacts
<1>6. \A x \in Notifs : /\ Behind(job'[x], x, feed', missed')
                        /\ Counts(tally'[x], feed', withdrawn')
  <2>1. Behind("publish", n, feed', missed')
    BY <1>3 DEF Behind
  <2>2. Counts(tally'[n], feed', withdrawn')
    BY <1>1, <1>2, <1>3 DEF Counts
  <2> QED
    BY <1>1, <1>2, <1>3, <1>4, <1>5, <2>1, <2>2, OthersBehind
<1>7. \A x \in Notifs : /\ Published(job'[x]) => Published(job[x])
                        /\ Published(job'[x]) => feed'[x].sent = feed[x].sent
  BY <1>3, <1>4 DEF Published
<1> QED
  BY <1>1, <1>3, <1>4, <1>5, <1>6, <1>7, InvFacts, WorldStep

\* A worker's step that leaves the feed alone.
LEMMA WorkerStep ==
  ASSUME Inv, NEW n \in Notifs, NEW at \in {"todo", "count", "send", "done"}, Now(n, at),
         UNCHANGED <<feed, conn, online, asks, known, fetched, missed, withdrawn>>, Works \/ Breaks,
         at # "todo" => job[n] \in {"publish", "count", "send"},
         tally' \in [Notifs -> SUBSET Notifs], \A x \in Notifs \ {n} : tally'[x] = tally[x],
         Counts(tally'[n], feed, withdrawn),
         gap \subseteq gap', gap' \subseteq Conns,
         wire' = wire \/ \E m \in Message : /\ wire' = Append(wire, m) /\ m.what # "feed"
                                            /\ Correct(m, feed, missed, withdrawn),
         job[n] = "publish" => Room \subseteq gap' \/ \E m \in Message : /\ wire' = Append(wire, m)
                                                                        /\ m.what = "new" /\ m.n = n
  PROVE  Inv'
<1>1. /\ job' \in [Notifs -> {"todo", "status", "publish", "count", "send", "done"}]
      /\ job'[n] = at /\ \A x \in Notifs \ {n} : job'[x] = job[x]
  BY NowFacts
<1>2. wire \in Seq(Message) /\ feed \in [Notifs -> Entry]
      /\ Behind(job[n], n, feed, missed)
  BY InvFacts DEF Inv
<1>3. \A m \in Message : Append(wire, m) \in Seq(Message) /\ Elems(Append(wire, m)) = Elems(wire) \cup {m}
  BY <1>2, ElemsAppend
<1>4. /\ wire' \in Seq(Message) /\ Elems(wire) \subseteq Elems(wire')
      /\ \A m \in Elems(wire') : \/ m \in Elems(wire)
                                \/ (m.what # "feed" /\ Correct(m, feed', missed', withdrawn'))
      /\ job[n] = "publish" => \/ Room \subseteq gap'
                               \/ \E m \in Elems(wire') : m.what = "new" /\ m.n = n
  BY <1>2, <1>3
<1>5. \A x \in Notifs : /\ Behind(job'[x], x, feed', missed')
                        /\ Counts(tally'[x], feed', withdrawn')
  <2>1. Behind(job'[n], n, feed', missed')
    BY <1>1, <1>2 DEF Behind
  <2>2. missed \subseteq missed' /\ \A x \in Notifs \ {n} : job'[x] = job[x] /\ tally'[x] = tally[x]
    BY <1>1
  <2>3. \A x \in Notifs \ {n} : /\ Behind(job'[x], x, feed', missed')
                                /\ Counts(tally'[x], feed', withdrawn')
    BY <2>2, OthersBehind
  <2> QED
    BY <2>1, <2>3
<1>6. ASSUME NEW x \in Notifs, Published(job'[x])
      PROVE  \/ Published(job[x])
             \/ \E m \in Elems(wire') : m.what = "new" /\ m.n = x
             \/ Room \subseteq gap'
  BY <1>1, <1>4, <1>6 DEF Published
<1> QED
  BY <1>1, <1>2, <1>4, <1>5, <1>6, InvFacts, WorldStep

LEMMA PublishStep ==
  ASSUME Inv, NEW n \in Notifs, Publish(n)
  PROVE  Inv'
<1> DEFINE m == [what |-> "new", n |-> n, of |-> {}]
<1>1. /\ job[n] = "publish" /\ Now(n, "count")
      /\ UNCHANGED <<feed, tally, conn, online, asks, known, fetched, missed, withdrawn>>
      /\ \/ Works /\ wire' = Append(wire, m) /\ gap' = gap
         \/ Breaks /\ gap' = gap \cup Room /\ wire' = wire
  BY DEF Publish, After, told
<1>2. m \in Message /\ m.what = "new" /\ m.n = n
  BY AskFacts
<1>3. Correct(m, feed, missed, withdrawn)
  BY <1>1, <1>2 DEF Inv, Behind, Correct
<1> HIDE DEF m
<1>4. gap \subseteq gap' /\ gap' \subseteq Conns
  BY <1>1, InvFacts DEF Room
<1>5. tally' \in [Notifs -> SUBSET Notifs] /\ Counts(tally'[n], feed, withdrawn)
  BY <1>1, InvFacts DEF Inv
<1>6. wire' = wire \/ \E x \in Message : /\ wire' = Append(wire, x) /\ x.what # "feed"
                                         /\ Correct(x, feed, missed, withdrawn)
  BY <1>1, <1>2, <1>3
<1>7. Room \subseteq gap' \/ \E x \in Message : /\ wire' = Append(wire, x)
                                                /\ x.what = "new" /\ x.n = n
  BY <1>1, <1>2
<1> QED
  BY <1>1, <1>4, <1>5, <1>6, <1>7, WorkerStep

LEMMA TallyStep ==
  ASSUME Inv, NEW n \in Notifs, Tally(n)
  PROVE  Inv'
<1>1. /\ job[n] = "count" /\ UNCHANGED <<feed, wire, conn, online, asks, known, fetched, gap, missed, withdrawn>>
      /\ \/ Works /\ tally' = [tally EXCEPT ![n] = UnseenCount] /\ Now(n, "send")
         \/ Breaks /\ Now(n, "done") /\ tally' = tally
  BY DEF Tally, told
<1>2. UnseenCount \subseteq Notifs /\ Counts(UnseenCount, feed, withdrawn)
  BY DEF UnseenCount, Feed, InFeed, Counts
<1>3. /\ tally \in [Notifs -> SUBSET Notifs] /\ Counts(tally[n], feed, withdrawn)
      /\ gap \subseteq Conns
  BY InvFacts DEF Inv
<1>4. /\ tally' \in [Notifs -> SUBSET Notifs] /\ Counts(tally'[n], feed, withdrawn)
      /\ \A x \in Notifs \ {n} : tally'[x] = tally[x]
  BY <1>1, <1>2, <1>3
<1>5. CASE Now(n, "send") /\ Works
  BY <1>1, <1>3, <1>4, <1>5, WorkerStep
<1>6. CASE Now(n, "done") /\ Breaks
  BY <1>1, <1>3, <1>4, <1>6, WorkerStep
<1> QED
  BY <1>1, <1>5, <1>6

LEMMA PublishCountStep ==
  ASSUME Inv, NEW n \in Notifs, PublishCount(n)
  PROVE  Inv'
<1> DEFINE m == [what |-> "count", n |-> None, of |-> tally[n]]
<1>1. /\ job[n] = "send" /\ Now(n, "done") /\ tally' = [tally EXCEPT ![n] = {}]
      /\ UNCHANGED <<feed, conn, online, asks, known, fetched, gap, missed, withdrawn>>
      /\ (Works /\ wire' = Append(wire, m)) \/ (Breaks /\ wire' = wire)
  BY DEF PublishCount, told
<1>2. tally \in [Notifs -> SUBSET Notifs] /\ Counts(tally[n], feed, withdrawn) /\ gap \subseteq Conns
  BY InvFacts DEF Inv
<1>3. m \in Message /\ m.what = "count" /\ m.n = None /\ m.of = tally[n]
  BY <1>2, AskFacts
<1>4. Correct(m, feed, missed, withdrawn)
  BY <1>2, <1>3, NotifsAssumption, InvFacts DEF Correct, Counts
<1> HIDE DEF m
<1>5. /\ tally' \in [Notifs -> SUBSET Notifs] /\ Counts(tally'[n], feed, withdrawn)
      /\ \A x \in Notifs \ {n} : tally'[x] = tally[x]
  BY <1>1, <1>2 DEF Counts
<1>6. wire' = wire \/ \E x \in Message : /\ wire' = Append(wire, x) /\ x.what # "feed"
                                         /\ Correct(x, feed, missed, withdrawn)
  BY <1>1, <1>3, <1>4
<1> QED
  BY <1>1, <1>2, <1>5, <1>6, WorkerStep

\* The task ends at the limiter or a preference: the row may lose its 'sent'.
LEMMA SkipStep ==
  ASSUME Inv, NEW n \in Notifs, Skip(n)
  PROVE  Inv'
<1> DEFINE e == [feed[n] EXCEPT !.sent = FALSE]
<1>1. /\ job[n] = "todo" /\ Now(n, "done")
      /\ UNCHANGED <<tally, wire, conn, online, asks, known, fetched, gap>>
      /\ \/ /\ Works /\ feed' = [feed EXCEPT ![n] = e] /\ missed' = missed
            /\ withdrawn' = withdrawn \cup {m \in {n} : feed[m].sent}
         \/ Breaks /\ missed' = missed \cup {n} /\ feed' = feed /\ withdrawn' = withdrawn
  BY DEF Skip, told
<1>2. /\ feed \in [Notifs -> Entry] /\ feed[n] \in Entry /\ gap \subseteq Conns
      /\ tally \in [Notifs -> SUBSET Notifs] /\ Counts(tally[n], feed, withdrawn)
  BY InvFacts DEF Inv
<1>3. /\ e \in Entry /\ e.sent = FALSE /\ e.text = feed[n].text /\ e.seen = feed[n].seen
      /\ e.archived = feed[n].archived
  BY <1>2, Zenon DEF Entry
<1> HIDE DEF e
<1>4. /\ feed' \in [Notifs -> Entry]
      /\ \A x \in Notifs \ {n} : feed'[x] = feed[x]
      /\ feed'[n].text = feed[n].text /\ feed'[n].seen = feed[n].seen
      /\ feed'[n].archived = feed[n].archived
      /\ feed[n].sent => feed'[n].sent \/ n \in withdrawn'
      /\ feed'[n].sent => feed[n].sent /\ n \in missed'
  BY <1>1, <1>2, <1>3
<1>5. /\ missed \subseteq missed' /\ missed' \subseteq Notifs
      /\ withdrawn \subseteq withdrawn' /\ withdrawn' \subseteq Notifs
  BY <1>1, InvFacts
<1>6. /\ job' \in [Notifs -> {"todo", "status", "publish", "count", "send", "done"}]
      /\ job'[n] = "done" /\ \A x \in Notifs \ {n} : job'[x] = job[x]
  BY <1>1, NowFacts
<1>7. \A x \in Notifs : /\ Behind(job'[x], x, feed', missed')
                        /\ Counts(tally'[x], feed', withdrawn')
  <2>1. Behind(job'[n], n, feed', missed')
    BY <1>6 DEF Behind
  <2>2. \A y \in tally[n] : y \in Notifs
    BY <1>2
  <2>3. Counts(tally'[n], feed', withdrawn')
    BY <1>1, <1>2, <1>4, <1>5, <2>2 DEF Counts
  <2> QED
    BY <1>1, <1>4, <1>5, <1>6, <2>1, <2>3, OthersBehind
<1>8. \A x \in Notifs : Published(job'[x]) => Published(job[x]) \/ ~feed'[x].sent \/ x \in missed'
  BY <1>4, <1>6 DEF Published
<1>9. \A x \in Notifs : /\ (feed[x].sent => feed'[x].sent \/ x \in withdrawn')
                        /\ (feed[x].text => feed'[x].text)
                        /\ (feed[x].seen => feed'[x].seen)
                        /\ (feed[x].archived => feed'[x].archived)
                        /\ (Published(job'[x]) /\ feed'[x].sent => feed[x].sent)
  BY <1>4
<1> QED
  BY <1>1, <1>2, <1>4, <1>5, <1>6, <1>7, <1>8, <1>9, InvFacts, WorldStep

LEMMA WorkerCrashStep ==
  ASSUME Inv, NEW n \in Notifs, WorkerCrash(n)
  PROVE  Inv'
<1>1. /\ job[n] # "todo" /\ Breaks /\ Now(n, "todo")
      /\ tally' = [tally EXCEPT ![n] = {}]
      /\ UNCHANGED <<feed, wire, conn, online, asks, known, fetched, gap, missed, withdrawn>>
  BY DEF WorkerCrash, told
<1>2. /\ tally' \in [Notifs -> SUBSET Notifs] /\ tally'[n] = {}
      /\ (\A x \in Notifs \ {n} : tally'[x] = tally[x]) /\ gap \subseteq Conns
  BY <1>1, InvFacts
<1>3. /\ job' \in [Notifs -> {"todo", "status", "publish", "count", "send", "done"}]
      /\ job'[n] = "todo" /\ \A x \in Notifs \ {n} : job'[x] = job[x]
  BY <1>1, NowFacts
<1>4. \A x \in Notifs : /\ Behind(job'[x], x, feed', missed')
                        /\ Counts(tally'[x], feed', withdrawn')
  <2>1. Behind(job'[n], n, feed', missed')
    BY <1>3 DEF Behind
  <2>2. missed \subseteq missed' /\ \A x \in Notifs \ {n} : job'[x] = job[x] /\ tally'[x] = tally[x]
    BY <1>1, <1>2, <1>3
  <2>3. \A x \in Notifs \ {n} : /\ Behind(job'[x], x, feed', missed')
                                /\ Counts(tally'[x], feed', withdrawn')
    BY <1>1, <2>2, OthersBehind
  <2>4. Counts(tally'[n], feed', withdrawn')
    BY <1>2 DEF Counts
  <2> QED
    BY <2>1, <2>3, <2>4
<1>5. \A x \in Notifs : Published(job'[x]) => Published(job[x])
  BY <1>3 DEF Published
<1> QED
  BY <1>1, <1>2, <1>3, <1>4, <1>5, InvFacts, WorldStep

LEMMA MarkByRequestStep ==
  ASSUME Inv, MarkByRequest
  PROVE  Inv'
<1>1. /\ asks < MaxAsks /\ asks' = asks + 1
      /\ UNCHANGED <<job, tally, wire, conn, online, faults, known, fetched, gap, missed, withdrawn>>
      /\ \E ns \in SUBSET Notifs, field \in {"seen", "archived"} : Mark(ns, field)
  BY DEF MarkByRequest, told
<1>2. /\ feed' \in [Notifs -> Entry]
      /\ \A n \in Notifs : /\ feed[n].sent = feed'[n].sent /\ feed[n].text = feed'[n].text
                           /\ (feed[n].seen => feed'[n].seen)
                           /\ (feed[n].archived => feed'[n].archived)
  BY <1>1, MarkFacts
<1>3. asks' \in 0..MaxAsks /\ gap \subseteq Conns /\ Works
  BY <1>1, InvFacts, BoundsAssumption DEF Works
<1>4. ASSUME NEW n \in Notifs
      PROVE  /\ Behind(job'[n], n, feed', missed')
             /\ Counts(tally'[n], feed', withdrawn')
  <2>1. Behind(job[n], n, feed, missed) /\ tally[n] \subseteq Notifs /\ Counts(tally[n], feed, withdrawn)
    BY DEF Inv, TypeOK
  <2> QED
    BY <1>1, <1>2, <2>1 DEF Behind, Counts
<1> QED
  BY <1>1, <1>2, <1>3, <1>4, InvFacts, WorldStep

LEMMA SendStep ==
  ASSUME Inv, Send
  PROVE  Inv'
<1> DEFINE m == Head(wire)
           fits == {c \in Room : Fits(c)}
           d(c) == [conn[c] EXCEPT !.queue = Append(conn[c].queue, m)]
<1>1. /\ wire # << >> /\ wire' = Tail(wire)
      /\ conn' = [c \in Conns |-> IF c \in fits THEN d(c) ELSE conn[c]]
      /\ gap' = IF m.what = "new" THEN gap \cup (Room \ fits) ELSE gap
      /\ UNCHANGED <<feed, job, tally, online, asks, faults, known, fetched, missed, withdrawn>>
  BY DEF Send, told
<1>2. /\ wire' \in Seq(Message) /\ m \in Message /\ Elems(wire) = Elems(wire') \cup {m}
  BY <1>1, InvFacts, ElemsTail
<1>3. m.what # "feed" /\ Correct(m, feed, missed, withdrawn)
  BY <1>2 DEF Inv
<1>4. /\ fits \subseteq Conns /\ Room \subseteq Conns
      /\ \A c \in fits : Len(conn[c].queue) < Buffer
      /\ \A c \in Conns : conn[c].at = "run" => c \in Room
  BY DEF Room, Fits
<1> HIDE DEF m, fits
<1>5. ASSUME NEW c \in Conns
      PROVE  /\ d(c) \in Conn /\ Len(d(c).queue) = Len(conn[c].queue) + 1
             /\ Len(conn[c].queue) \in Nat
             /\ On(d(c)) = On(conn[c]) \cup {m}
             /\ d(c).at = conn[c].at /\ d(c).peer = conn[c].peer /\ d(c).read = conn[c].read
             /\ d(c).ask = conn[c].ask /\ d(c).reply = conn[c].reply /\ d(c).timer = conn[c].timer
  <2> DEFINE q == Append(conn[c].queue, m)
  <2>1. conn[c] \in Conn /\ conn[c].queue \in Seq(Message)
    BY InvFacts, ConnFacts
  <2>2. /\ q \in Seq(Message) /\ Len(q) = Len(conn[c].queue) + 1
        /\ Len(conn[c].queue) \in Nat
        /\ Elems(q) = Elems(conn[c].queue) \cup {m}
    BY <1>2, <2>1, ElemsAppend
  <2> HIDE DEF q
  <2>3. /\ [conn[c] EXCEPT !.queue = q] \in Conn
        /\ [conn[c] EXCEPT !.queue = q].queue = q
        /\ [conn[c] EXCEPT !.queue = q].at = conn[c].at
        /\ [conn[c] EXCEPT !.queue = q].peer = conn[c].peer
        /\ [conn[c] EXCEPT !.queue = q].read = conn[c].read
        /\ [conn[c] EXCEPT !.queue = q].ask = conn[c].ask
        /\ [conn[c] EXCEPT !.queue = q].reply = conn[c].reply
        /\ [conn[c] EXCEPT !.queue = q].timer = conn[c].timer
    BY <2>1, <2>2 DEF Conn
  <2>4. d(c) = [conn[c] EXCEPT !.queue = q]
    BY DEF q
  <2> HIDE DEF d
  <2> QED
    BY <2>2, <2>3, <2>4 DEF On
<1> HIDE DEF d
<1>6. \A c \in Conns : conn'[c] = IF c \in fits THEN d(c) ELSE conn[c]
  BY <1>1
<1>7. \A c \in Conns : ConnOK(conn[c]) /\ conn[c] \in Conn
  BY InvFacts
<1>8. ASSUME NEW c \in Conns
      PROVE  /\ ConnOK(conn'[c]) /\ conn'[c] \in Conn
             /\ conn'[c].at = conn[c].at /\ conn'[c].peer = conn[c].peer
             /\ conn'[c].read = conn[c].read /\ conn'[c].ask = conn[c].ask
             /\ conn'[c].timer = conn[c].timer
             /\ On(conn[c]) \subseteq On(conn'[c]) /\ On(conn'[c]) \subseteq On(conn[c]) \cup {m}
             /\ c \in fits => m \in On(conn'[c])
  <2>1. CASE c \in fits
    <3>1. ConnOK(d(c))
      BY <1>3, <1>4, <1>5, <1>7, <2>1, BufferAssumption DEF ConnOK
    <3> QED
      BY <1>5, <1>6, <2>1, <3>1
  <2>2. CASE c \notin fits
    BY <1>6, <1>7, <2>2
  <2> QED
    BY <2>1, <2>2
<1>9. conn' \in [Conns -> Conn] /\ \A c \in Conns : Len(conn'[c].queue) <= Buffer
  <2>1. conn' \in [Conns -> Conn]
    BY <1>1, <1>6, <1>8
  <2> QED
    BY <1>8, <2>1 DEF ConnOK
<1>10. gap \subseteq gap' /\ gap' \subseteq Conns
  BY <1>1, <1>4, InvFacts
<1>11. TypeOK'
  BY <1>1, <1>2, <1>9, <1>10 DEF Inv, TypeOK
<1>12. \A c \in Conns : ConnOK(conn[c])' /\ (conn'[c].at # "run" => c \notin fetched')
  BY <1>1, <1>8, InvFacts
<1>13. \A n \in Notifs : /\ Behind(job[n], n, feed, missed)'
                         /\ Counts(tally'[n], feed', withdrawn')
  BY <1>1 DEF Inv, Behind
<1>14. \A c \in Conns : conn'[c].read = "count" => feed'[conn'[c].ask.n].seen
  BY <1>1, <1>8, InvFacts
<1>15. \A x \in Elems(wire)' : x.what # "feed" /\ Correct(x, feed', missed', withdrawn')
  BY <1>1, <1>2 DEF Inv, Elems
<1>16. \A c \in Conns : \A x \in On(conn[c])' : Correct(x, feed', missed', withdrawn')
  BY <1>1, <1>3, <1>8, InvFacts
<1>17. ASSUME NEW c \in Conns, NEW n \in Notifs
       PROVE  Told(c, n)'
  <2>1. Told(c, n) /\ InFeed(n)' = InFeed(n)
    BY <1>1, InvFacts DEF InFeed
  <2>2. CASE c \in fits \/ m.what # "new" \/ m.n # n
    <3>1. \A x \in Elems(wire) \cup On(conn[c]) :
            x \in Elems(wire') \cup On(conn'[c]) \/ x.what # "new" \/ x.n # n
      BY <1>2, <1>8, <2>2
    <3>2. \A x \in On(conn'[c]) : x \in On(conn[c]) \/ x.what # "feed"
      BY <1>3, <1>8
    <3>3. conn'[c].at = conn[c].at /\ conn'[c].peer = conn[c].peer
      BY <1>8
    <3>4. UNCHANGED <<job, missed, known, fetched>> /\ gap \subseteq gap'
      BY <1>1, <1>10
    <3> HIDE DEF m
    <3> QED
      BY <2>1, <3>1, <3>2, <3>3, <3>4 DEF Told
  <2>3. CASE c \notin fits /\ m.what = "new"
    BY <1>1, <1>4, <1>8, <2>3 DEF Told
  <2> QED
    BY <2>2, <2>3
<1>18. faults' = 0 /\ online' => \E c \in Conns : conn'[c].at = "run" \/ conn'[c].timer
  BY <1>1, <1>8 DEF Inv
<1> QED
  BY <1>11, <1>12, <1>13, <1>14, <1>15, <1>16, <1>17, <1>18 DEF Inv

LEMMA RestartStep ==
  ASSUME Inv, Restart
  PROVE  Inv'
<1>1. /\ Breaks /\ wire' = << >>
      /\ conn' = [c \in Conns |-> IF conn[c].at = "off" THEN conn[c] ELSE Gone(FALSE)]
      /\ known' = [c \in Conns |-> IF c \in Conns THEN {} ELSE known[c]]
      /\ fetched' = fetched \ Conns /\ gap' = gap \ Conns
      /\ UNCHANGED <<feed, job, tally, online, asks, missed, withdrawn>>
  BY DEF Restart, Forget
<1>2. /\ ConnOK(Gone(FALSE)) /\ Gone(FALSE).at = "gone" /\ Gone(FALSE).read = "read"
      /\ On(Gone(FALSE)) = {NoMessage}
  BY GoneFacts
<1>3. ASSUME NEW c \in Conns
      PROVE  /\ ConnOK(conn'[c]) /\ conn'[c] \in Conn /\ conn'[c].at # "run"
             /\ conn'[c] = conn[c] \/ conn'[c] = Gone(FALSE)
  BY <1>1, <1>2, InvFacts DEF ConnOK
<1>4. conn' \in [Conns -> Conn] /\ \A c \in Conns : Len(conn'[c].queue) <= Buffer
  <2>1. conn' \in [Conns -> Conn]
    BY <1>1, <1>3
  <2> QED
    BY <1>3, <2>1 DEF ConnOK
<1>5. faults' \in 0..MaxFaults /\ faults' # 0
  BY <1>1, Counted, InvFacts DEF Breaks
<1>6. wire' \in Seq(Message) /\ Elems(wire') = {} /\ fetched' = {} /\ gap' = {}
      /\ known' \in [Conns -> SUBSET Notifs]
  BY <1>1, ElemsEmpty, InvFacts
<1>7. TypeOK'
  BY <1>1, <1>4, <1>5, <1>6 DEF Inv, TypeOK
<1>8. \A c \in Conns : ConnOK(conn[c])' /\ (conn'[c].at # "run" => c \notin fetched')
  BY <1>3, <1>6
<1>9. \A n \in Notifs : /\ Behind(job[n], n, feed, missed)'
                        /\ Counts(tally'[n], feed', withdrawn')
  BY <1>1 DEF Inv, Behind
<1>10. \A c \in Conns : conn'[c].read = "count" => feed'[conn'[c].ask.n].seen
  BY <1>1, <1>2, <1>3, InvFacts
<1>11. \A x \in Elems(wire)' : x.what # "feed" /\ Correct(x, feed', missed', withdrawn')
  BY <1>6 DEF Elems
<1>12. ASSUME NEW c \in Conns, NEW x \in On(conn'[c])
       PROVE  Correct(x, feed', missed', withdrawn')
  <2>1. CASE conn'[c] = conn[c]
    <3>1. x \in On(conn[c])
      BY <2>1
    <3> QED
      BY <1>1, <3>1, InvFacts
  <2>2. CASE conn'[c] = Gone(FALSE)
    BY <1>2, <2>2, EmptyFacts
  <2> QED
    BY <1>3, <2>1, <2>2
<1>13. \A c \in Conns, n \in Notifs : Told(c, n)'
  BY <1>3 DEF Told
<1> QED
  BY <1>5, <1>7, <1>8, <1>9, <1>10, <1>11, <1>12, <1>13 DEF Inv

-----------------------------------------------------------------------------
(* The invariant and its consequences.                                     *)

LEMMA InitInv ==
  ASSUME Init
  PROVE  Inv
<1>1. /\ \A n \in Notifs : /\ job[n] = "todo" /\ tally[n] = {} /\ ~feed[n].sent
                           /\ feed[n] \in Entry
      /\ feed \in [Notifs -> Entry]
  BY DEF Init, Entry
<1>2. \A c \in Conns : conn[c] = NoConn
  BY DEF Init
<1>3. ConnOK(NoConn) /\ NoConn \in Conn /\ On(NoConn) = {NoMessage} /\ NoConn.at = "off"
      /\ NoConn.read = "read"
  BY GoneFacts, EmptyFacts DEF ConnOK
<1>4. wire \in Seq(Message) /\ Elems(wire) = {}
  BY ElemsEmpty DEF Init
<1>5. conn \in [Conns -> Conn] /\ \A c \in Conns : Len(conn[c].queue) <= Buffer
  BY <1>2, <1>3 DEF Init, ConnOK
<1>6. /\ job \in [Notifs -> {"todo", "status", "publish", "count", "send", "done"}]
      /\ tally \in [Notifs -> SUBSET Notifs]
      /\ known \in [Conns -> SUBSET Notifs] /\ fetched = {} /\ gap = {} /\ missed = {}
      /\ withdrawn = {} /\ online = FALSE
  BY DEF Init
<1>7. asks \in 0..MaxAsks /\ faults \in 0..MaxFaults
  BY BoundsAssumption DEF Init
<1>8. TypeOK
  BY <1>1, <1>4, <1>5, <1>6, <1>7 DEF TypeOK
<1>9. \A n \in Notifs : Behind(job[n], n, feed, missed) /\ Counts(tally[n], feed, withdrawn)
  BY <1>1 DEF Behind, Counts
<1>10. \A c \in Conns, n \in Notifs : Told(c, n)
  BY <1>2, <1>3 DEF Told
<1> QED
  BY <1>1, <1>2, <1>3, <1>4, <1>6, <1>8, <1>9, <1>10, EmptyFacts DEF Inv

LEMMA NextInv ==
  ASSUME Inv, [Next]_vars
  PROVE  Inv'
<1>1. CASE UNCHANGED vars
  BY <1>1 DEF vars, Inv, TypeOK, Told, InFeed, Counts
<1>2. ASSUME NEW n \in Notifs, Deliver(n) \/ WorkerCrash(n)
      PROVE  Inv'
  BY <1>2, RenderStep, StatusStep, PublishStep, TallyStep, PublishCountStep, SkipStep,
     WorkerCrashStep
     DEF Deliver
<1>3. ASSUME Send \/ MarkByRequest \/ Restart
      PROVE  Inv'
  BY <1>3, SendStep, MarkByRequestStep, RestartStep
<1>4. ASSUME NEW c \in Conns, \/ Accept(c) \/ Leave(c) \/ ReadMessage(c)
                              \/ Opening(c) \/ ReadPump(c) \/ WritePump(c) \/ Offline(c)
      PROVE  Inv'
  BY <1>4, AcceptStep, LeaveStep, ReadMessageStep, RegisterStep, SetOnlineStep, HandleStep,
     CountStep, ReplyStep, EndStep, WriteStep, PingStep, OfflineStep
     DEF Opening, ReadPump, WritePump
<1> QED
  BY <1>1, <1>2, <1>3, <1>4 DEF Next

\* The connections, the feed, the workers and what travels between them stay of
\* their types: no send channel holds more than its capacity (ws/client.go, ws/hub.go).
THEOREM TypeCorrect == Spec => []TypeOK
<1>1. Inv => TypeOK
  BY DEF Inv
<1> QED
  BY <1>1, InitInv, NextInv, PTL DEF Spec

\* Whatever fails and whoever leaves, a push is in the feed with its text and a badge
\* counts what can be opened, but for a delivery with a failed write and one whose 'sent'
\* a later run of its task overwrote; and nothing falls between a feed and the pushes
\* after it (ProcessTask, deliverInApp, hub.go, client.go).
THEOREM Agrees == Spec => []PushAgreesWithFeed
<1>1. ASSUME Inv
      PROVE  PushAgreesWithFeed
  <2>1. \A m \in InTransit : Correct(m, feed, missed, withdrawn)
    BY <1>1 DEF InTransit, OnItsWay, Inv, Elems, On
  <2>2. PushedIsStored /\ CountsCanBeCleared
    BY <2>1 DEF PushedIsStored, CountsCanBeCleared, Correct
  <2>3. FetchClosesGap
    <3> SUFFICES ASSUME NEW c \in fetched \ gap, NEW n \in Notifs,
                        conn[c].at = "run", conn[c].peer = "open", InFeed(n), n \notin missed,
                        job[n] \in {"count", "send", "done"},
                        \A m \in {wire[i] : i \in 1..Len(wire)} \cup OnItsWay(c) :
                          m.what = "new" => m.n # n
                 PROVE  n \in known[c]
      BY DEF FetchClosesGap
    <3>1. c \in Conns /\ Told(c, n)
      BY <1>1, InvFacts
    <3> QED
      BY <3>1 DEF Told, OnItsWay, Elems, On, Published
  <2> QED
    BY <2>2, <2>3 DEF PushAgreesWithFeed
<1> QED
  BY <1>1, InitInv, NextInv, PTL DEF Spec

\* Presence ends offline when everyone has left and no call has failed: whoever is
\* online has a connection that runs or a timer to come (ws/client.go:54-66).
THEOREM Settles == Spec => []PresenceSettles
<1>1. Inv => PresenceSettles
  BY DEF Inv, PresenceSettles
<1> QED
  BY <1>1, InitInv, NextInv, PTL DEF Spec
=============================================================================
