------------------------- MODULE Membership_proofs --------------------------
(***************************************************************************)
(* Proofs about topics, subscribers and their rows.                        *)
(*                                                                         *)
(* The argument: while no deletion has run beside an addition or another   *)
(* deletion, what an addition or a deletion looked up is still what is     *)
(* stored, a deletion that has removed the rows of an _id finds none of    *)
(* them again, and every row is of a topic and a subscriber that exist.    *)
(***************************************************************************)
EXTENDS Membership, FiniteSetTheorems, TLAPS

\* The calls each kind of request makes, and what it holds then.
WellFormed(j) ==
  /\ j.at = "idle" <=> j.kind = "none"
  /\ j.at \in {"create", "again"} => j.kind = "add"
  /\ j.at = "topic" => j.kind \in {"add", "remove", "drop topic"}
  /\ j.at = "collect" => j.kind \in {"add", "remove", "drop subscriber"}
  /\ j.at = "rows" => j.kind \in {"add", "remove"}
  /\ j.at = "row" => j.kind = "add" /\ j.row \in j.ids
  /\ j.at \in {"cascade", "document"} => j.kind \in Deleting
  /\ j.at \in {"match", "insert"} => j.kind = "post"
  /\ j.kind \in {"add", "remove", "drop topic"} => j.key \in Keys
  /\ j.kind = "drop subscriber" => \E s \in Subs : j.todo = {s}
  /\ j.at = "insert" => j.new \in j.todo /\ j.new \in Subs
  /\ j.at \in {"topic", "create", "again", "match", "insert"} => j.ids = {}

\* The _ids a job holds were given.
Given(j, ti, si) ==
  /\ j.ids \subseteq 1..si
  /\ j.at \in {"rows", "row", "cascade", "document"} /\ j.kind # "drop subscriber" => j.topic \in 1..ti
  /\ j.at = "collect" /\ j.kind # "drop subscriber" => j.topic \in 1..ti

\* The store is well typed, and an _id is 0 where there is nothing.
StoreOK(t, s, ti, si, m) ==
  /\ ti \in Nat /\ si \in Nat
  /\ t \in [Keys -> Nat] /\ \A k \in Keys : t[k] <= ti
  /\ s \in [Subs -> Document]
  /\ \A x \in Subs : s[x].id <= si /\ (s[x].id = 0 => s[x] = NoDocument)
  /\ m \subseteq (1..ti) \X (1..si)

\* What an addition or a deletion looked up is what is stored.
Current(j, t, s, m) ==
  /\ j.kind = "add" /\ j.at \in {"collect", "rows", "row"} =>
       /\ j.topic = t[j.key]
       /\ \A i \in j.ids : \E x \in Subs : s[x].id = i
  /\ j.at = "again" => t[j.key] # 0
  /\ j.kind = "drop topic" /\ j.at \in {"cascade", "document"} => j.topic = t[j.key]
  /\ j.kind = "drop subscriber" /\ j.at \in {"cascade", "document"} =>
       \A x \in j.todo : j.ids = {s[x].id}
  /\ j.at = "document" => \A p \in m : IF j.kind = "drop topic" THEN p[1] # j.topic
                                       ELSE p[2] \notin j.ids

\* Every row is of a topic and a subscriber that exist.
LiveRows(t, s, m) ==
  \A p \in m : (\E k \in Keys : t[k] = p[1]) /\ (\E x \in Subs : s[x].id = p[2])

\* No deletion beside an addition or a deletion; no two inserts of the same document.
Apart(jobs) ==
  \A g, h \in Handlers : g # h => ~(jobs[g].kind \in Deleting /\ jobs[h].kind \in Deleting \cup {"add"})
NoTwins(jobs) == \A g, h \in Handlers : g # h => ~SameInsert(jobs[g], jobs[h])

\* An insert finds what it found absent still absent, while nothing failed and no two
\* inserts met.
Room(j, s, m) ==
  /\ j.at = "insert" => s[j.new] = NoDocument
  /\ j.at = "row" => <<j.topic, j.row>> \notin m
Clean == ~twins /\ faults = 0

Inv ==
  /\ StoreOK(topic, sub, topicIds, subIds, members)
  /\ job \in [Handlers -> Job] /\ answer \in [Handlers -> Answers]
  /\ requests \in 0..MaxRequests /\ faults \in 0..MaxFaults
  /\ crossed \in BOOLEAN /\ twins \in BOOLEAN
  /\ \A h \in Handlers : WellFormed(job[h]) /\ Given(job[h], topicIds, subIds)
  /\ ~crossed => /\ Apart(job) /\ LiveRows(topic, sub, members)
                 /\ \A h \in Handlers : Current(job[h], topic, sub, members)
  /\ ~twins => NoTwins(job)
  /\ Clean => \A h \in Handlers : Room(job[h], sub, members)
  /\ ErrorsHaveCause

-----------------------------------------------------------------------------
(* The invariant implies the properties.                                   *)

LEMMA InvType ==
  ASSUME Inv
  PROVE  TypeOK
<1>1. TopicIdsLive \subseteq 1..topicIds
  <2>1. \A k \in Keys : topic[k] \in Nat /\ topic[k] <= topicIds /\ topicIds \in Nat
    BY DEF Inv, StoreOK
  <2> QED
    BY <2>1 DEF TopicIdsLive
<1>2. SubIdsLive \subseteq 1..subIds
  <2>1. \A x \in Subs : sub[x].id \in Nat /\ sub[x].id <= subIds /\ subIds \in Nat
    BY DEF Inv, StoreOK, Document
  <2> QED
    BY <2>1 DEF SubIdsLive
<1> QED
  BY <1>1, <1>2 DEF Inv, StoreOK, TypeOK

LEMMA InvOrphan ==
  ASSUME Inv
  PROVE  OrphanNeedsOverlap
<1> SUFFICES ASSUME ~crossed, NEW m \in members
             PROVE  m[1] \in TopicIdsLive /\ m[2] \in SubIdsLive
  BY DEF OrphanNeedsOverlap
<1>1. m[1] \in 1..topicIds /\ m[2] \in 1..subIds /\ topicIds \in Nat /\ subIds \in Nat
  BY DEF Inv, StoreOK
<1>2. (\E k \in Keys : topic[k] = m[1]) /\ (\E x \in Subs : sub[x].id = m[2])
  BY DEF Inv, LiveRows
<1>3. m[1] # 0 /\ m[2] # 0
  BY <1>1
<1> QED
  BY <1>2, <1>3 DEF TopicIdsLive, SubIdsLive

-----------------------------------------------------------------------------
(* The two shapes of a step.                                               *)


LEMMA CurrentStays ==
  ASSUME Inv, ~crossed, NEW g \in Handlers, NEW t1, NEW s1, NEW m1,
         job[g].kind \in Deleting \cup {"add"} =>
           /\ \A k \in Keys : topic[k] # 0 => t1[k] = topic[k]
           /\ \A x \in Subs : sub[x].id # 0 => s1[x].id = sub[x].id,
         job[g].kind \in Deleting => m1 \subseteq members
  PROVE  Current(job[g], t1, s1, m1)
<1> DEFINE j == job[g]
<1> SUFFICES Current(j, t1, s1, m1)
  OBVIOUS
<1>1. Current(j, topic, sub, members) /\ WellFormed(j) /\ Given(j, topicIds, subIds) /\ j \in Job
  BY DEF Inv
<1>2. topicIds \in Nat /\ subIds \in Nat /\ \A x \in Subs : sub[x].id \in Nat
  BY DEF Inv, StoreOK, Document
<1>3. /\ j.kind \in Deleting \cup {"add"} =>
           /\ \A k \in Keys : topic[k] # 0 => t1[k] = topic[k]
           /\ \A x \in Subs : sub[x].id # 0 => s1[x].id = sub[x].id
      /\ j.kind \in Deleting => m1 \subseteq members
  OBVIOUS
<1> HIDE DEF j
<1>4. CASE j.kind \notin Deleting \cup {"add"}
  BY <1>1, <1>4 DEF Current, WellFormed, Deleting
<1>5. CASE j.kind \in Deleting \cup {"add"}
  <2>1. /\ \A k \in Keys : topic[k] # 0 => t1[k] = topic[k]
        /\ \A x \in Subs : sub[x].id # 0 => s1[x].id = sub[x].id
    BY <1>5, <1>3
  <2>2. \A i \in j.ids : i # 0
    <3>1. j.ids \subseteq 1..subIds
      BY <1>1 DEF Given
    <3>2. \A i \in 1..subIds : i # 0
      BY <1>2
    <3> QED
      BY <3>1, <3>2
  <2>3. ASSUME j.kind = "add", j.at \in {"collect", "rows", "row"}
        PROVE  j.topic = t1[j.key] /\ \A i \in j.ids : \E x \in Subs : s1[x].id = i
    <3>1. j.topic \in 1..topicIds
      BY <1>1, <2>3 DEF Given
    <3>2. j.topic = topic[j.key] /\ j.topic # 0 /\ j.key \in Keys
      BY <1>1, <1>2, <2>3, <3>1 DEF Current, WellFormed
    <3>3. \A i \in j.ids : \E x \in Subs : sub[x].id = i
      BY <1>1, <2>3 DEF Current
    <3> QED
      BY <2>1, <2>2, <3>2, <3>3
  <2>4. ASSUME j.at = "again"
        PROVE  t1[j.key] # 0
    BY <1>1, <2>1, <2>4 DEF Current, WellFormed
  <2>5. ASSUME j.kind = "drop topic", j.at \in {"cascade", "document"}
        PROVE  j.topic = t1[j.key]
    <3>1. j.topic \in 1..topicIds
      BY <1>1, <2>5 DEF Given
    <3>2. j.topic = topic[j.key]
      BY <1>1, <2>5 DEF Current
    <3>3. j.key \in Keys
      BY <1>1, <2>5 DEF WellFormed
    <3>4. j.topic # 0
      BY <1>2, <3>1
    <3> QED
      BY <2>1, <3>2, <3>3, <3>4
  <2>6. ASSUME j.kind = "drop subscriber", j.at \in {"cascade", "document"}, NEW x \in j.todo
        PROVE  j.ids = {s1[x].id}
    <3>1. j.ids = {sub[x].id} /\ x \in Subs
      BY <1>1, <2>6 DEF Current, WellFormed
    <3> QED
      BY <2>1, <2>2, <3>1
  <2>7. ASSUME j.at = "document", NEW p \in m1
        PROVE  IF j.kind = "drop topic" THEN p[1] # j.topic ELSE p[2] \notin j.ids
    <3>1. p \in members
      BY <1>1, <1>3, <2>7 DEF WellFormed
    <3> QED
      BY <1>1, <2>7, <3>1 DEF Current
  <2> QED
    BY <2>3, <2>4, <2>5, <2>6, <2>7 DEF Current
<1> QED
  BY <1>4, <1>5

LEMMA GivenStays ==
  ASSUME NEW j, NEW ti \in Nat, NEW si \in Nat, NEW ti1 \in Nat, NEW si1 \in Nat,
         ti <= ti1, si <= si1, Given(j, ti, si)
  PROVE  Given(j, ti1, si1)
<1>1. 1..ti \subseteq 1..ti1 /\ 1..si \subseteq 1..si1
  OBVIOUS
<1> QED
  BY <1>1 DEF Given

-----------------------------------------------------------------------------
(* Every step of a handler has this shape.                                 *)

\* What a step of h must leave the other handlers.
Leaves(h) ==
  \A g \in Handlers \ {h} :
    /\ job[g].kind \in Deleting \cup {"add"} =>
         /\ \A k \in Keys : topic[k] # 0 => topic'[k] = topic[k]
         /\ \A x \in Subs : sub[x].id # 0 => sub'[x].id = sub[x].id
    /\ job[g].kind \in Deleting => members' \subseteq members

LEMMA HandlerStep ==
  ASSUME Inv, Overlap, NEW h \in Handlers, NEW j \in Job, job' = [job EXCEPT ![h] = j],
         WellFormed(j), Given(j, topicIds', subIds'),
         StoreOK(topic', sub', topicIds', subIds', members'),
         topicIds <= topicIds', subIds <= subIds',
         requests' \in 0..MaxRequests, faults' \in 0..MaxFaults, faults <= faults',
         answer' \in [Handlers -> Answers],
         \A g \in Handlers : answer'[g] = "error" =>
           answer[g] = "error" \/ faults' > 0 \/ crossed' \/ twins',
         ~crossed => Leaves(h),
         ~crossed' => Current(j, topic', sub', members') /\ LiveRows(topic', sub', members'),
         Clean' => \A g \in Handlers \ {h} : Room(job[g], sub', members'),
         Clean' => (j.at = "insert" => sub'[j.new] = NoDocument),
         Clean' => (j.at = "row" => <<j.topic, j.row>> \notin members')
  PROVE  Inv'
<1>1. job \in [Handlers -> Job] /\ faults \in Nat /\ faults' \in Nat
  BY BoundsAssumption DEF Inv
<1>2. job'[h] = j /\ \A g \in Handlers \ {h} : job'[g] = job[g]
  BY <1>1
<1>3. job' \in [Handlers -> Job]
  BY <1>1
<1>4. /\ crossed' \in BOOLEAN /\ twins' \in BOOLEAN
      /\ crossed => crossed'
      /\ twins => twins'
      /\ ~crossed' => Apart(job')
      /\ ~twins' => NoTwins(job')
  BY DEF Overlap, Apart, NoTwins, Inv
<1>5. ASSUME NEW g \in Handlers
      PROVE  WellFormed(job'[g]) /\ Given(job'[g], topicIds', subIds')
  <2>1. CASE g = h
    BY <1>2, <2>1
  <2>2. CASE g # h
    <3>1. WellFormed(job[g]) /\ Given(job[g], topicIds, subIds)
      BY DEF Inv
    <3>2. topicIds \in Nat /\ subIds \in Nat /\ topicIds' \in Nat /\ subIds' \in Nat
      BY DEF Inv, StoreOK
    <3> QED
      BY <1>2, <2>2, <3>1, <3>2, GivenStays
  <2> QED
    BY <2>1, <2>2
<1>6. ASSUME ~crossed', NEW g \in Handlers
      PROVE  Current(job'[g], topic', sub', members')
  <2>1. CASE g = h
    BY <1>2, <1>6, <2>1
  <2>2. CASE g # h
    <3>1. ~crossed
      BY <1>4, <1>6
    <3>2. Leaves(h)
      BY <3>1
    <3>3. Current(job[g], topic', sub', members')
      BY <2>2, <3>1, <3>2, CurrentStays DEF Leaves
    <3> QED
      BY <1>2, <2>2, <3>3
  <2> QED
    BY <2>1, <2>2
<1>7. ASSUME Clean', NEW g \in Handlers
      PROVE  Room(job'[g], sub', members')
  <2>1. CASE g = h
    BY <1>2, <1>7, <2>1 DEF Room
  <2>2. CASE g # h
    BY <1>2, <1>7, <2>2
  <2> QED
    BY <2>1, <2>2
<1>8. ErrorsHaveCause'
  <2> SUFFICES ASSUME NEW g \in Handlers, answer'[g] = "error"
               PROVE  faults' > 0 \/ crossed' \/ twins'
    BY DEF ErrorsHaveCause
  <2>1. answer[g] = "error" => faults > 0 \/ crossed \/ twins
    BY DEF Inv, ErrorsHaveCause
  <2>2. faults > 0 => faults' > 0
    BY <1>1
  <2> QED
    BY <1>4, <2>1, <2>2
<1> QED
  BY <1>3, <1>4, <1>5, <1>6, <1>7, <1>8 DEF Inv

-----------------------------------------------------------------------------
(* Jobs, answers and bounds.                                               *)

LEMMA ProfileFacts ==
  /\ Blank \in Profile /\ Fresh \in Profile
  /\ NoDocument \in Document /\ NoDocument.id = 0
  /\ \A p \in Posts : p \in Profile
<1>1. Blank \in Profile
  BY DEF Blank, Profile
<1>2. Fresh \in Profile
  BY DEF Fresh, Blank, Profile
<1>3. NoDocument \in Document /\ NoDocument.id = 0
  BY <1>1 DEF NoDocument, Document
<1> QED
  BY <1>1, <1>2, <1>3, PostsAssumption

LEMMA IdleFacts ==
  /\ Idle \in Job /\ WellFormed(Idle) /\ Idle.at = "idle" /\ Idle.kind = "none"
  /\ \A ti, si : Given(Idle, ti, si)
  /\ \A t, s, m : Current(Idle, t, s, m)
<1>1. Idle \in Job
  BY ProfileFacts DEF Idle, Job, Kind, At
<1>2. Idle.at = "idle" /\ Idle.kind = "none" /\ Idle.ids = {}
  BY DEF Idle
<1>3. WellFormed(Idle)
  BY <1>2 DEF WellFormed, Deleting
<1>4. \A ti, si : Given(Idle, ti, si)
  BY <1>2 DEF Given
<1>5. \A t, s, m : Current(Idle, t, s, m)
  BY <1>2 DEF Current
<1> QED
  BY <1>1, <1>2, <1>3, <1>4, <1>5

\* The bounds, and how a step counts.
Counted == requests' \in 0..MaxRequests /\ faults' \in 0..MaxFaults /\ faults <= faults'

LEMMA Answered ==
  ASSUME Inv, NEW h \in Handlers, NEW a \in Answers, answer' = [answer EXCEPT ![h] = a],
         a = "error" => faults' > 0 \/ crossed' \/ twins'
  PROVE  /\ answer' \in [Handlers -> Answers]
         /\ \A g \in Handlers : answer'[g] = "error" =>
              answer[g] = "error" \/ faults' > 0 \/ crossed' \/ twins'
  BY DEF Inv

LEMMA NotAnswered ==
  ASSUME Inv, UNCHANGED answer
  PROVE  /\ answer' \in [Handlers -> Answers]
         /\ \A g \in Handlers : answer'[g] = "error" =>
              answer[g] = "error" \/ faults' > 0 \/ crossed' \/ twins'
  BY DEF Inv

LEMMA CleanBefore ==
  ASSUME Inv, Overlap, Counted
  PROVE  Clean' => Clean
<1>1. faults \in Nat /\ faults' \in Nat /\ faults <= faults'
  BY BoundsAssumption DEF Inv, Counted
<1>2. faults' = 0 => faults = 0
  BY <1>1
<1>3. ~twins' => ~twins
  BY DEF Overlap, Inv
<1>4. ~crossed' => ~crossed
  BY DEF Overlap, Inv
<1> QED
  BY <1>2, <1>3, <1>4 DEF Clean

\* A step that adds no row and no subscriber leaves the inserts room.
LEMMA RoomStays ==
  ASSUME Inv, Overlap, Counted, members' \subseteq members,
         \A x \in Subs : sub[x] = NoDocument => sub'[x] = NoDocument
  PROVE  Clean' => \A g \in Handlers : Room(job[g], sub', members')
<1> SUFFICES ASSUME Clean', NEW g \in Handlers
             PROVE  Room(job[g], sub', members')
  OBVIOUS
<1>1. Room(job[g], sub, members) /\ WellFormed(job[g])
  BY CleanBefore DEF Inv
<1> QED
  BY <1>1 DEF Room, WellFormed

LEMMA Numbers ==
  ASSUME Inv
  PROVE  /\ topicIds \in Nat /\ subIds \in Nat /\ topicIds <= topicIds /\ subIds <= subIds
         /\ \A k \in Keys : topic[k] \in Nat /\ (topic[k] # 0 => topic[k] \in 1..topicIds)
         /\ \A x \in Subs : sub[x] \in Document /\ sub[x].id \in Nat
                            /\ (sub[x] # NoDocument => sub[x].id \in 1..subIds /\ sub[x].id # 0)
<1>1. topicIds \in Nat /\ subIds \in Nat
  BY DEF Inv, StoreOK
<1>2. \A k \in Keys : topic[k] \in Nat /\ topic[k] <= topicIds
  BY DEF Inv, StoreOK
<1>3. \A x \in Subs : /\ sub[x] \in Document /\ sub[x].id <= subIds
                      /\ sub[x].id = 0 => sub[x] = NoDocument
  BY DEF Inv, StoreOK
<1>4. \A x \in Subs : sub[x].id \in Nat
  BY <1>3 DEF Document
<1> QED
  BY <1>1, <1>2, <1>3, <1>4

\* A step that leaves the store alone.
LEMMA StoreStays ==
  ASSUME Inv, Overlap, Counted, UNCHANGED store, NEW h \in Handlers, NEW j \in Job,
         job' = [job EXCEPT ![h] = j], WellFormed(j), Given(j, topicIds, subIds),
         answer' \in [Handlers -> Answers],
         \A g \in Handlers : answer'[g] = "error" =>
           answer[g] = "error" \/ faults' > 0 \/ crossed' \/ twins',
         ~crossed => Current(j, topic, sub, members),
         j.at = "insert" => sub[j.new] = NoDocument,
         j.at = "row" => <<j.topic, j.row>> \notin members
  PROVE  Inv'
<1>1. /\ topic' = topic /\ sub' = sub /\ topicIds' = topicIds /\ subIds' = subIds
      /\ members' = members
  BY DEF store
<1>2. StoreOK(topic', sub', topicIds', subIds', members')
  BY <1>1 DEF Inv
<1>3. crossed => crossed'
  BY DEF Overlap
<1>4. ~crossed' => Current(j, topic', sub', members') /\ LiveRows(topic', sub', members')
  BY <1>1, <1>3 DEF Inv
<1>5. Leaves(h)
  BY <1>1 DEF Leaves
<1>6. Clean' => \A g \in Handlers \ {h} : Room(job[g], sub', members')
  BY <1>1, RoomStays
<1> QED
  BY <1>1, <1>2, <1>4, <1>5, <1>6, Numbers, HandlerStep DEF Counted

\* A handler that ends and leaves the store alone.
LEMMA EndQuietly ==
  ASSUME Inv, Overlap, Counted, UNCHANGED store, NEW h \in Handlers, NEW a \in Answers, End(h, a),
         a = "error" => faults' > 0 \/ crossed' \/ twins'
  PROVE  Inv'
<1>1. job' = [job EXCEPT ![h] = Idle] /\ answer' = [answer EXCEPT ![h] = a]
  BY DEF End
<1>2. Idle.at \notin {"insert", "row"}
  BY IdleFacts
<1>3. /\ answer' \in [Handlers -> Answers]
      /\ \A g \in Handlers : answer'[g] = "error" =>
           answer[g] = "error" \/ faults' > 0 \/ crossed' \/ twins'
  BY <1>1, Answered
<1> QED
  BY <1>1, <1>2, <1>3, IdleFacts, StoreStays

-----------------------------------------------------------------------------
(* Requests, and lookups.                                                  *)

\* A job that starts.
LEMMA StartStep ==
  ASSUME Inv, Overlap, Counted, UNCHANGED store, NEW h \in Handlers, NEW j \in Job, Start(h, j),
         j.ids = {}, j.at \in {"topic", "collect", "match"},
         j.at = "collect" => j.kind = "drop subscriber", WellFormed(j)
  PROVE  Inv'
<1>1. job' = [job EXCEPT ![h] = j] /\ answer' = [answer EXCEPT ![h] = "none"]
  BY DEF Start
<1>2. /\ answer' \in [Handlers -> Answers]
      /\ \A g \in Handlers : answer'[g] = "error" =>
           answer[g] = "error" \/ faults' > 0 \/ crossed' \/ twins'
  <2>1. "none" \in Answers /\ "none" # "error"
    BY DEF Answers
  <2> QED
    BY <1>1, <2>1, Answered
<1>3. Given(j, topicIds, subIds) /\ Current(j, topic, sub, members) /\ j.at \notin {"insert", "row"}
  BY DEF Given, Current
<1> QED
  BY <1>1, <1>2, <1>3, StoreStays

LEMMA BeginStep ==
  ASSUME Inv, Overlap, Counted, NEW h \in Handlers, Begin(h)
  PROVE  Inv'
<1>1. ASSUME NEW k \in Keys, NEW kind \in {"add", "remove"}, NEW names \in SUBSET Subs,
             Start(h, [Idle EXCEPT !.kind = kind, !.at = "topic", !.key = k, !.todo = names])
      PROVE  Inv'
  <2> DEFINE j == [Idle EXCEPT !.kind = kind, !.at = "topic", !.key = k, !.todo = names]
  <2>1. j \in Job /\ j.kind = kind /\ j.at = "topic" /\ j.key = k /\ j.ids = {}
    BY ProfileFacts DEF Idle, Job, Kind, At
  <2> HIDE DEF j
  <2>2. WellFormed(j)
    BY <2>1 DEF WellFormed, Deleting
  <2> QED
    BY <1>1, <2>1, <2>2, StartStep DEF Begin, j
<1>2. ASSUME NEW k \in Keys,
             Start(h, [Idle EXCEPT !.kind = "drop topic", !.at = "topic", !.key = k])
      PROVE  Inv'
  <2> DEFINE j == [Idle EXCEPT !.kind = "drop topic", !.at = "topic", !.key = k]
  <2>1. j \in Job /\ j.kind = "drop topic" /\ j.at = "topic" /\ j.key = k /\ j.ids = {}
    BY ProfileFacts DEF Idle, Job, Kind, At, Deleting
  <2> HIDE DEF j
  <2>2. WellFormed(j)
    BY <2>1 DEF WellFormed, Deleting
  <2> QED
    BY <1>2, <2>1, <2>2, StartStep DEF Begin, j
<1>3. ASSUME NEW s \in Subs,
             Start(h, [Idle EXCEPT !.kind = "drop subscriber", !.at = "collect", !.todo = {s}])
      PROVE  Inv'
  <2> DEFINE j == [Idle EXCEPT !.kind = "drop subscriber", !.at = "collect", !.todo = {s}]
  <2>1. j \in Job /\ j.kind = "drop subscriber" /\ j.at = "collect" /\ j.todo = {s} /\ j.ids = {}
    BY ProfileFacts DEF Idle, Job, Kind, At, Deleting
  <2> HIDE DEF j
  <2>2. WellFormed(j)
    BY <2>1 DEF WellFormed, Deleting
  <2> QED
    BY <1>3, <2>1, <2>2, StartStep DEF Begin, j
<1>4. ASSUME NEW names \in SUBSET Subs, NEW p \in Posts,
             Start(h, [Idle EXCEPT !.kind = "post", !.at = "match", !.todo = names, !.post = p])
      PROVE  Inv'
  <2> DEFINE j == [Idle EXCEPT !.kind = "post", !.at = "match", !.todo = names, !.post = p]
  <2>1. j \in Job /\ j.kind = "post" /\ j.at = "match" /\ j.ids = {}
    BY ProfileFacts DEF Idle, Job, Kind, At
  <2> HIDE DEF j
  <2>2. WellFormed(j)
    BY <2>1 DEF WellFormed, Deleting
  <2> QED
    BY <1>4, <2>1, <2>2, StartStep DEF Begin, j
<1> QED
  BY <1>1, <1>2, <1>3, <1>4 DEF Begin

LEMMA FindTopicStep ==
  ASSUME Inv, Overlap, Counted, NEW h \in Handlers, FindTopic(h)
  PROVE  Inv'
<1> DEFINE j == job[h]
<1>1. j \in Job /\ WellFormed(j) /\ Given(j, topicIds, subIds) /\ j.at = "topic" /\ j.key \in Keys
      /\ j.ids = {} /\ j.kind \in {"add", "remove", "drop topic"}
  BY DEF Inv, FindTopic, WellFormed
<1>2. UNCHANGED store
  BY DEF FindTopic
<1>3. CASE topic[j.key] # 0
  <2> DEFINE n == [j EXCEPT !.topic = topic[j.key],
                            !.at = IF j.kind = "drop topic" THEN "cascade" ELSE "collect"]
  <2>1. topic[j.key] \in 1..topicIds /\ topic[j.key] \in Nat
    BY <1>1, <1>3, Numbers
  <2>2. job' = [job EXCEPT ![h] = n] /\ UNCHANGED answer
    BY <1>3 DEF FindTopic
  <2> HIDE DEF j
  <2>3. /\ n \in Job /\ n.kind = j.kind /\ n.key = j.key /\ n.ids = {} /\ n.topic = topic[j.key]
        /\ n.at = IF j.kind = "drop topic" THEN "cascade" ELSE "collect"
    BY <1>1, <2>1 DEF Job, At
  <2> HIDE DEF n
  <2>4. WellFormed(n) /\ Given(n, topicIds, subIds) /\ Current(n, topic, sub, members)
    <3>1. n.kind \in {"add", "remove", "drop topic"} /\ n.key \in Keys
          /\ n.at \in {"cascade", "collect"} /\ n.topic \in 1..topicIds
          /\ (n.at = "cascade" <=> n.kind = "drop topic")
      BY <1>1, <2>1, <2>3
    <3>2. WellFormed(n)
      BY <3>1 DEF WellFormed, Deleting
    <3>3. Given(n, topicIds, subIds)
      BY <2>3, <3>1 DEF Given
    <3>4. Current(n, topic, sub, members)
      BY <2>3, <3>1 DEF Current
    <3> QED
      BY <3>2, <3>3, <3>4
  <2>5. n.at \notin {"insert", "row"}
    BY <2>3
  <2> QED
    BY <1>2, <2>2, <2>3, <2>4, <2>5, NotAnswered, StoreStays
<1>4. CASE topic[j.key] = 0 /\ j.kind = "add"
  <2> DEFINE n == [j EXCEPT !.at = "create"]
  <2>1. job' = [job EXCEPT ![h] = n] /\ UNCHANGED answer
    BY <1>4 DEF FindTopic, Goto
  <2> HIDE DEF j
  <2>2. n \in Job /\ n.kind = "add" /\ n.key = j.key /\ n.ids = {} /\ n.at = "create"
    BY <1>1, <1>4 DEF Job, At
  <2> HIDE DEF n
  <2>3. WellFormed(n) /\ Given(n, topicIds, subIds) /\ Current(n, topic, sub, members)
    BY <1>1, <2>2 DEF WellFormed, Given, Current, Deleting
  <2>4. n.at \notin {"insert", "row"}
    BY <2>2
  <2> QED
    BY <1>2, <2>1, <2>2, <2>3, <2>4, NotAnswered, StoreStays
<1>5. CASE topic[j.key] = 0 /\ j.kind # "add"
  <2>1. End(h, "not found") /\ "not found" \in Answers
    BY <1>5 DEF FindTopic, Answers
  <2> QED
    BY <1>2, <2>1, EndQuietly
<1> QED
  BY <1>3, <1>4, <1>5

LEMMA FindAgainStep ==
  ASSUME Inv, Overlap, Counted, NEW h \in Handlers, FindAgain(h)
  PROVE  Inv'
<1> DEFINE j == job[h] k == j.key
<1>1. j \in Job /\ WellFormed(j) /\ Given(j, topicIds, subIds) /\ j.at = "again" /\ k \in Keys
      /\ j.ids = {} /\ j.kind = "add"
  BY DEF Inv, FindAgain, WellFormed
<1>2. UNCHANGED store
  BY DEF FindAgain
<1>3. CASE topic[k] # 0
  <2> DEFINE n == [j EXCEPT !.at = "collect", !.topic = topic[k]]
  <2>1. job' = [job EXCEPT ![h] = n] /\ UNCHANGED answer
    BY <1>3 DEF FindAgain
  <2>2. topic[k] \in 1..topicIds /\ topic[k] \in Nat
    BY <1>1, <1>3, Numbers
  <2> HIDE DEF j
  <2>3. n \in Job /\ n.kind = "add" /\ n.key = k /\ n.ids = {} /\ n.at = "collect"
        /\ n.topic = topic[k]
    BY <1>1, <2>2 DEF Job, At
  <2> HIDE DEF n
  <2>4. WellFormed(n) /\ Given(n, topicIds, subIds) /\ Current(n, topic, sub, members)
    BY <1>1, <2>2, <2>3 DEF WellFormed, Given, Current, Deleting
  <2>5. n.at \notin {"insert", "row"}
    BY <2>3
  <2> QED
    BY <1>2, <2>1, <2>3, <2>4, <2>5, NotAnswered, StoreStays
<1>4. CASE topic[k] = 0
  <2>1. End(h, "error") /\ "error" \in Answers
    BY <1>4 DEF FindAgain, Answers
  <2>2. crossed
    BY <1>1, <1>4 DEF Inv, Current
  <2>3. crossed'
    BY <2>2 DEF Overlap
  <2> QED
    BY <1>2, <2>1, <2>3, EndQuietly
<1> QED
  BY <1>3, <1>4

LEMMA CollectStep ==
  ASSUME Inv, Overlap, Counted, NEW h \in Handlers, Collect(h)
  PROVE  Inv'
<1> DEFINE j == job[h]
<1>1. j \in Job /\ WellFormed(j) /\ Given(j, topicIds, subIds) /\ j.at = "collect"
      /\ (~crossed => Current(j, topic, sub, members))
  BY DEF Inv, Collect
<1>2. UNCHANGED store
  BY DEF Collect
<1>3. j.kind \in {"add", "remove", "drop subscriber"} /\ j.todo \subseteq Subs
  BY <1>1 DEF WellFormed, Job
<1>4. ASSUME j.kind = "drop subscriber", NEW s \in j.todo, sub[s] = NoDocument, End(h, "not found")
      PROVE  Inv'
  <2>1. "not found" \in Answers
    BY DEF Answers
  <2> QED
    BY <1>2, <1>4, <2>1, EndQuietly
<1>5. ASSUME j.kind = "drop subscriber", NEW s \in j.todo, sub[s] # NoDocument,
             job' = [job EXCEPT ![h] = [j EXCEPT !.at = "cascade", !.ids = {sub[s].id}]],
             UNCHANGED answer
      PROVE  Inv'
  <2> DEFINE n == [j EXCEPT !.at = "cascade", !.ids = {sub[s].id}]
  <2>1. sub[s].id \in 1..subIds /\ sub[s].id \in Nat
    BY <1>3, <1>5, Numbers
  <2>2. job' = [job EXCEPT ![h] = n]
    BY <1>5
  <2>3. \A x \in j.todo : x = s
    <3>1. PICK x \in Subs : j.todo = {x}
      BY <1>1, <1>5 DEF WellFormed
    <3> QED
      BY <1>5, <3>1
  <2> HIDE DEF j
  <2>4. /\ n \in Job /\ n.kind = "drop subscriber" /\ n.ids = {sub[s].id} /\ n.at = "cascade"
        /\ n.todo = j.todo
    BY <1>1, <1>5, <2>1 DEF Job, At
  <2> HIDE DEF n
  <2>5. WellFormed(n)
    BY <1>1, <1>5, <2>4 DEF WellFormed, Deleting
  <2>6. Given(n, topicIds, subIds)
    BY <2>1, <2>4 DEF Given
  <2>7. Current(n, topic, sub, members)
    BY <2>3, <2>4 DEF Current
  <2>8. n.at \notin {"insert", "row"}
    BY <2>4
  <2> QED
    BY <1>2, <1>5, <2>2, <2>4, <2>5, <2>6, <2>7, <2>8, NotAnswered, StoreStays
<1>6. ASSUME j.kind # "drop subscriber", Goto(h, "rows")
      PROVE  Inv'
  <2> DEFINE n == [j EXCEPT !.at = "rows"]
  <2>1. job' = [job EXCEPT ![h] = n] /\ UNCHANGED answer
    BY <1>6 DEF Goto
  <2> HIDE DEF j
  <2>2. n \in Job /\ n.kind = j.kind /\ n.key = j.key /\ n.ids = j.ids /\ n.topic = j.topic
        /\ n.at = "rows"
    BY <1>1 DEF Job, At
  <2> HIDE DEF n
  <2>3. WellFormed(n)
    BY <1>1, <1>3, <1>6, <2>2 DEF WellFormed, Deleting
  <2>4. Given(n, topicIds, subIds)
    BY <1>1, <1>6, <2>2 DEF Given
  <2>5. ~crossed => Current(n, topic, sub, members)
    BY <1>1, <1>3, <1>6, <2>2 DEF Current
  <2>6. n.at \notin {"insert", "row"}
    BY <2>2
  <2> QED
    BY <1>2, <2>1, <2>2, <2>3, <2>4, <2>5, <2>6, NotAnswered, StoreStays
<1>7. ASSUME j.kind # "drop subscriber", NEW s \in j.todo, UNCHANGED answer,
             job' = [job EXCEPT ![h] = [j EXCEPT !.todo = j.todo \ {s},
                       !.ids = IF sub[s] = NoDocument THEN j.ids ELSE j.ids \cup {sub[s].id}]]
      PROVE  Inv'
  <2> DEFINE ids == IF sub[s] = NoDocument THEN j.ids ELSE j.ids \cup {sub[s].id}
             n == [j EXCEPT !.todo = j.todo \ {s}, !.ids = ids]
  <2>1. job' = [job EXCEPT ![h] = n]
    BY <1>7
  <2>2. ids \subseteq 1..subIds /\ ids \subseteq Nat
    <3>1. sub[s] # NoDocument => sub[s].id \in 1..subIds
      BY <1>3, <1>7, Numbers
    <3>2. j.ids \subseteq 1..subIds
      BY <1>1 DEF Given
    <3>3. 1..subIds \subseteq Nat
      BY Numbers
    <3> QED
      BY <3>1, <3>2, <3>3
  <2>3. \A i \in ids : i \in j.ids \/ sub[s].id = i
    OBVIOUS
  <2> HIDE DEF ids, j
  <2>4. n \in Job /\ n.kind = j.kind /\ n.key = j.key /\ n.ids = ids /\ n.topic = j.topic
        /\ n.at = "collect"
    BY <1>1, <1>3, <2>2 DEF Job, At
  <2> HIDE DEF n
  <2>5. WellFormed(n)
    BY <1>1, <1>3, <1>7, <2>4 DEF WellFormed, Deleting
  <2>6. Given(n, topicIds, subIds)
    BY <1>1, <1>7, <2>2, <2>4 DEF Given
  <2>7. ~crossed => Current(n, topic, sub, members)
    <3>1. s \in Subs
      BY <1>3, <1>7
    <3> QED
      BY <1>1, <1>3, <1>7, <2>3, <2>4, <3>1 DEF Current
  <2>8. n.at \notin {"insert", "row"}
    BY <2>4
  <2> QED
    BY <1>2, <1>7, <2>1, <2>4, <2>5, <2>6, <2>7, <2>8, NotAnswered, StoreStays
<1>8. CASE j.kind = "drop subscriber"
  <2>1. PICK s \in j.todo :
          IF sub[s] = NoDocument THEN End(h, "not found")
          ELSE /\ job' = [job EXCEPT ![h] = [j EXCEPT !.at = "cascade", !.ids = {sub[s].id}]]
               /\ UNCHANGED answer
    BY <1>8 DEF Collect
  <2> QED
    BY <1>4, <1>5, <1>8, <2>1
<1>9. CASE j.kind # "drop subscriber" /\ j.todo # {}
  <2>1. PICK s \in j.todo :
          /\ job' = [job EXCEPT ![h] = [j EXCEPT !.todo = j.todo \ {s},
                       !.ids = IF sub[s] = NoDocument THEN j.ids ELSE j.ids \cup {sub[s].id}]]
          /\ UNCHANGED answer
    BY <1>9 DEF Collect
  <2> QED
    BY <1>7, <1>9, <2>1
<1>10. CASE j.kind # "drop subscriber" /\ j.todo = {}
  BY <1>6, <1>10 DEF Collect
<1> QED
  BY <1>8, <1>9, <1>10

-----------------------------------------------------------------------------
(* Steps that create a topic, change rows, or delete.                      *)

LEMMA TopicBorn ==
  ASSUME Inv, NEW k \in Keys, topic[k] = 0, Insert(k), UNCHANGED <<people, members>>
  PROVE  /\ StoreOK(topic', sub', topicIds', subIds', members')
         /\ topicIds <= topicIds' /\ subIds <= subIds' /\ sub' = sub /\ subIds' = subIds
         /\ topic'[k] \in 1..topicIds' /\ topic'[k] = topicIds' /\ topicIds' \in Nat
         /\ \A h \in Handlers : Leaves(h)
         /\ ~crossed => LiveRows(topic', sub', members')
<1>1. topicIds \in Nat /\ subIds \in Nat /\ topic \in [Keys -> Nat]
      /\ \A q \in Keys : topic[q] <= topicIds
  BY DEF Inv, StoreOK
<1>2. /\ topicIds' = topicIds + 1 /\ topic' = [topic EXCEPT ![k] = topicIds + 1]
      /\ sub' = sub /\ subIds' = subIds /\ members' = members
  BY DEF Insert, people
<1>3. topic' \in [Keys -> Nat] /\ topic'[k] = topicIds + 1
      /\ \A q \in Keys \ {k} : topic'[q] = topic[q]
  BY <1>1, <1>2
<1>4. \A q \in Keys : topic'[q] <= topicIds'
  BY <1>1, <1>2, <1>3
<1>5. members \subseteq (1..topicIds') \X (1..subIds)
  <2>1. members \subseteq (1..topicIds) \X (1..subIds)
    BY DEF Inv, StoreOK
  <2>2. 1..topicIds \subseteq 1..topicIds'
    BY <1>1, <1>2
  <2> QED
    BY <2>1, <2>2
<1>6. StoreOK(topic', sub', topicIds', subIds', members')
  BY <1>1, <1>2, <1>3, <1>4, <1>5 DEF Inv, StoreOK
<1>7. \A q \in Keys : topic[q] # 0 => topic'[q] = topic[q]
  BY <1>3
<1>8. \A h \in Handlers : Leaves(h)
  BY <1>2, <1>7 DEF Leaves
<1>9. ASSUME ~crossed
      PROVE  LiveRows(topic', sub', members')
  <2> SUFFICES ASSUME NEW p \in members
               PROVE  (\E q \in Keys : topic'[q] = p[1]) /\ (\E x \in Subs : sub[x].id = p[2])
    BY <1>2 DEF LiveRows
  <2>1. (\E q \in Keys : topic[q] = p[1]) /\ (\E x \in Subs : sub[x].id = p[2])
    BY <1>9 DEF Inv, LiveRows
  <2>2. p[1] # 0
    <3>1. p[1] \in 1..topicIds
      BY DEF Inv, StoreOK
    <3> QED
      BY <1>1, <3>1
  <2> QED
    BY <1>7, <2>1, <2>2
<1>10. topic'[k] \in 1..topicIds' /\ topicIds <= topicIds' /\ subIds <= subIds'
  BY <1>1, <1>2, <1>3
<1> QED
  BY <1>1, <1>2, <1>3, <1>6, <1>8, <1>9, <1>10

LEMMA NewTopicStep ==
  ASSUME Inv, Overlap, Counted, NEW h \in Handlers, NEW k \in Keys, NewTopic(h, k)
  PROVE  Inv'
<1>1. CASE topic[k] = 0
  <2>1. Insert(k) /\ End(h, "ok") /\ UNCHANGED <<people, members>>
    BY <1>1 DEF NewTopic, AtOnce
  <2>2. job' = [job EXCEPT ![h] = Idle] /\ answer' = [answer EXCEPT ![h] = "ok"]
        /\ "ok" \in Answers /\ Idle.at \notin {"insert", "row"}
    BY <2>1, IdleFacts DEF End, Answers
  <2>3. crossed => crossed'
    BY DEF Overlap
  <2>4. Clean' => \A g \in Handlers \ {h} : Room(job[g], sub', members')
    BY <2>1, RoomStays DEF people
  <2>5. /\ answer' \in [Handlers -> Answers]
        /\ \A g \in Handlers : answer'[g] = "error" =>
             answer[g] = "error" \/ faults' > 0 \/ crossed' \/ twins'
    BY <2>2, Answered
  <2>6. /\ StoreOK(topic', sub', topicIds', subIds', members')
        /\ topicIds <= topicIds' /\ subIds <= subIds' /\ Leaves(h)
        /\ ~crossed => LiveRows(topic', sub', members')
    BY <1>1, <2>1, TopicBorn
  <2> QED
    BY <2>2, <2>3, <2>4, <2>5, <2>6, IdleFacts, HandlerStep DEF Counted
<1>2. CASE topic[k] # 0
  <2>1. End(h, "conflict") /\ "conflict" \in Answers /\ UNCHANGED store
    BY <1>2 DEF NewTopic, AtOnce, Answers, store, topics, people
  <2> QED
    BY <2>1, EndQuietly
<1> QED
  BY <1>1, <1>2

LEMMA CreateTopicStep ==
  ASSUME Inv, Overlap, Counted, NEW h \in Handlers, CreateTopic(h)
  PROVE  Inv'
<1> DEFINE j == job[h] k == j.key
<1>1. j \in Job /\ WellFormed(j) /\ j.at = "create" /\ k \in Keys /\ j.ids = {} /\ j.kind = "add"
  BY DEF Inv, CreateTopic, WellFormed
<1>2. CASE topic[k] = 0
  <2> DEFINE n == [j EXCEPT !.at = "collect", !.topic = topicIds']
  <2>1. Insert(k) /\ UNCHANGED <<people, members>> /\ UNCHANGED answer
        /\ job' = [job EXCEPT ![h] = n]
    BY <1>2 DEF CreateTopic
  <2>2. /\ StoreOK(topic', sub', topicIds', subIds', members')
        /\ topicIds <= topicIds' /\ subIds <= subIds' /\ Leaves(h) /\ sub' = sub
        /\ topicIds' \in Nat /\ topic'[k] = topicIds' /\ topic'[k] \in 1..topicIds'
        /\ ~crossed => LiveRows(topic', sub', members')
    BY <1>1, <1>2, <2>1, TopicBorn
  <2> HIDE DEF j
  <2>3. n \in Job /\ n.kind = "add" /\ n.key = k /\ n.ids = {} /\ n.at = "collect"
        /\ n.topic = topicIds'
    BY <1>1, <2>2 DEF Job, At
  <2> HIDE DEF n, k
  <2>4. WellFormed(n) /\ Given(n, topicIds', subIds') /\ Current(n, topic', sub', members')
    BY <1>1, <2>2, <2>3 DEF WellFormed, Given, Current, Deleting
  <2>5. crossed => crossed'
    BY DEF Overlap
  <2>6. Clean' => \A g \in Handlers \ {h} : Room(job[g], sub', members')
    BY <2>1, RoomStays DEF people
  <2>7. n.at \notin {"insert", "row"}
    BY <2>3
  <2> QED
    BY <2>1, <2>2, <2>3, <2>4, <2>5, <2>6, <2>7, NotAnswered, HandlerStep DEF Counted
<1>3. CASE topic[k] # 0
  <2> DEFINE n == [j EXCEPT !.at = "again"]
  <2>1. job' = [job EXCEPT ![h] = n] /\ UNCHANGED answer /\ UNCHANGED store
    BY <1>3 DEF CreateTopic, Refused, Goto, store, topics, people
  <2> HIDE DEF j
  <2>2. n \in Job /\ n.kind = "add" /\ n.key = k /\ n.ids = {} /\ n.at = "again"
    BY <1>1 DEF Job, At
  <2> HIDE DEF n
  <2>3. WellFormed(n) /\ Given(n, topicIds, subIds) /\ Current(n, topic, sub, members)
    BY <1>1, <1>3, <2>2 DEF WellFormed, Given, Current, Deleting
  <2>4. n.at \notin {"insert", "row"}
    BY <2>2
  <2> QED
    BY <2>1, <2>2, <2>3, <2>4, NotAnswered, StoreStays
<1> QED
  BY <1>2, <1>3

\* Only rows changed: rows of the handler's own topic and ids were added, or rows were
\* removed.
LEMMA RowsStep ==
  ASSUME Inv, Overlap, Counted, NEW h \in Handlers, job[h].at \in {"rows", "row"},
         UNCHANGED <<topics, people>>, NEW n \in Job, job' = [job EXCEPT ![h] = n],
         WellFormed(n), Given(n, topicIds, subIds), ~crossed => Current(n, topic, sub, members),
         n.at \in {"idle", "rows"}, answer' \in [Handlers -> Answers],
         \A g \in Handlers : answer'[g] = "error" =>
           answer[g] = "error" \/ faults' > 0 \/ crossed' \/ twins',
         Clean' => \A g \in Handlers \ {h} : Room(job[g], sub', members'),
         \/ members' \subseteq members
         \/ job[h].kind = "add" /\ members' \subseteq members \cup ({job[h].topic} \X job[h].ids)
  PROVE  Inv'
<1> DEFINE j == job[h] named == {j.topic} \X j.ids
<1>1. n.at \notin {"insert", "row", "document"}
  OBVIOUS
<1>2. /\ j \in Job /\ WellFormed(j) /\ j.kind \in {"add", "remove"} /\ j.ids \subseteq 1..subIds
      /\ j.topic \in 1..topicIds
  BY DEF Inv, WellFormed, Given
<1>3. topic' = topic /\ topicIds' = topicIds /\ sub' = sub /\ subIds' = subIds
  BY DEF topics, people
<1>4. members' \subseteq members \cup named
  OBVIOUS
<1>5. StoreOK(topic', sub', topicIds', subIds', members')
  <2>1. named \subseteq (1..topicIds) \X (1..subIds)
    BY <1>2
  <2> QED
    BY <1>3, <1>4, <2>1 DEF Inv, StoreOK
<1>6. ~crossed => Leaves(h)
  <2> SUFFICES ASSUME ~crossed, NEW g \in Handlers \ {h}, job[g].kind \in Deleting
               PROVE  members' \subseteq members
    BY <1>3 DEF Leaves
  <2>1. j.kind # "add"
    BY DEF Inv, Apart
  <2> QED
    BY <2>1
<1>7. ~crossed => LiveRows(topic', sub', members')
  <2> SUFFICES ASSUME ~crossed, NEW p \in members'
               PROVE  (\E k \in Keys : topic[k] = p[1]) /\ (\E x \in Subs : sub[x].id = p[2])
    BY <1>3 DEF LiveRows
  <2>1. CASE p \in members
    BY <2>1 DEF Inv, LiveRows
  <2>2. CASE p \notin members
    <3>1. j.kind = "add" /\ p \in named
      BY <1>4, <2>2
    <3>2. j.topic = topic[j.key] /\ \A i \in j.ids : \E x \in Subs : sub[x].id = i
      BY <3>1 DEF Inv, Current
    <3>3. p[1] = j.topic /\ p[2] \in j.ids /\ j.key \in Keys
      BY <1>2, <3>1 DEF WellFormed
    <3> QED
      BY <3>2, <3>3
  <2> QED
    BY <2>1, <2>2
<1>8. crossed => crossed'
  BY DEF Overlap
<1>9. ~crossed => Current(n, topic', sub', members')
  BY <1>1, <1>3 DEF Current
<1>10. Given(n, topicIds', subIds') /\ topicIds <= topicIds' /\ subIds <= subIds'
  BY <1>3, Numbers
<1> HIDE DEF j, named
<1> QED
  BY <1>1, <1>5, <1>6, <1>7, <1>8, <1>9, <1>10, HandlerStep DEF Counted

\* The same, for a handler that ends there.
LEMMA RowsEnd ==
  ASSUME Inv, Overlap, Counted, NEW h \in Handlers, job[h].at \in {"rows", "row"},
         UNCHANGED <<topics, people>>, NEW a \in Answers, End(h, a), a = "error" => faults' > 0,
         Clean' => \A g \in Handlers \ {h} : Room(job[g], sub', members'),
         \/ members' \subseteq members
         \/ job[h].kind = "add" /\ members' \subseteq members \cup ({job[h].topic} \X job[h].ids)
  PROVE  Inv'
<1>1. job' = [job EXCEPT ![h] = Idle] /\ answer' = [answer EXCEPT ![h] = a]
  BY DEF End
<1>2. /\ answer' \in [Handlers -> Answers]
      /\ \A g \in Handlers : answer'[g] = "error" =>
           answer[g] = "error" \/ faults' > 0 \/ crossed' \/ twins'
  BY <1>1, Answered
<1> QED
  BY <1>1, <1>2, IdleFacts, RowsStep

LEMMA RemoveRowsStep ==
  ASSUME Inv, Overlap, Counted, NEW h \in Handlers, RemoveRows(h)
  PROVE  Inv'
<1>1. /\ End(h, "ok") /\ "ok" \in Answers /\ job[h].at = "rows" /\ members' \subseteq members
      /\ UNCHANGED <<topics, people>>
  BY DEF RemoveRows, Answers
<1>2. Clean' => \A g \in Handlers \ {h} : Room(job[g], sub', members')
  BY <1>1, RoomStays DEF people
<1> QED
  BY <1>1, <1>2, RowsEnd

\* The jobs an addition goes through keep what it looked up.
LEMMA AddingFacts ==
  ASSUME Inv, NEW h \in Handlers, job[h].at \in {"rows", "row"}, job[h].kind = "add",
         NEW n \in Job, n.kind = "add", n.key = job[h].key, n.topic = job[h].topic,
         n.ids \subseteq job[h].ids, n.at \in {"rows", "row"}, n.at = "row" => n.row \in n.ids
  PROVE  /\ WellFormed(n) /\ Given(n, topicIds, subIds)
         /\ ~crossed => Current(n, topic, sub, members)
<1> DEFINE j == job[h]
<1>1. /\ j \in Job /\ WellFormed(j) /\ Given(j, topicIds, subIds)
      /\ ~crossed => Current(j, topic, sub, members)
  BY DEF Inv
<1>2. /\ j.kind = "add" /\ j.at \in {"rows", "row"} /\ n.key = j.key /\ n.topic = j.topic
      /\ n.ids \subseteq j.ids
  OBVIOUS
<1> HIDE DEF j
<1>3. WellFormed(n)
  BY <1>1, <1>2 DEF WellFormed, Deleting
<1>4. Given(n, topicIds, subIds)
  BY <1>1, <1>2 DEF Given
<1>5. ~crossed => Current(n, topic, sub, members)
  BY <1>1, <1>2 DEF Current
<1> QED
  BY <1>3, <1>4, <1>5

LEMMA MatchRowStep ==
  ASSUME Inv, Overlap, Counted, NEW h \in Handlers, MatchRow(h)
  PROVE  Inv'
<1> DEFINE j == job[h]
<1>1. j \in Job /\ j.at = "rows" /\ j.kind = "add" /\ UNCHANGED store /\ j.ids \subseteq Nat
  BY DEF MatchRow, Inv, Job
<1>2. CASE j.ids = {}
  <2>1. End(h, "ok") /\ "ok" \in Answers
    BY <1>2 DEF MatchRow, Answers
  <2> QED
    BY <1>1, <2>1, EndQuietly
<1>3. CASE j.ids # {}
  <2>1. PICK i \in j.ids :
          /\ job' = [job EXCEPT ![h] = IF <<j.topic, i>> \in members THEN [j EXCEPT !.ids = j.ids \ {i}]
                                       ELSE [j EXCEPT !.at = "row", !.row = i]]
          /\ UNCHANGED answer
    BY <1>3 DEF MatchRow
  <2>2. CASE <<j.topic, i>> \in members
    <3> DEFINE n == [j EXCEPT !.ids = j.ids \ {i}]
    <3>1. job' = [job EXCEPT ![h] = n] /\ UNCHANGED answer
      BY <2>1, <2>2
    <3>2. n \in Job /\ n.kind = "add" /\ n.key = j.key /\ n.topic = j.topic /\ n.at = "rows"
          /\ n.ids \subseteq j.ids
      BY <1>1 DEF Job
    <3> HIDE DEF n
    <3>3. WellFormed(n) /\ Given(n, topicIds, subIds) /\ (~crossed => Current(n, topic, sub, members))
      BY <1>1, <3>2, AddingFacts
    <3> QED
      BY <1>1, <3>1, <3>2, <3>3, NotAnswered, StoreStays
  <2>3. CASE <<j.topic, i>> \notin members
    <3> DEFINE n == [j EXCEPT !.at = "row", !.row = i]
    <3>1. job' = [job EXCEPT ![h] = n] /\ UNCHANGED answer
      BY <2>1, <2>3
    <3>2. n \in Job /\ n.kind = "add" /\ n.key = j.key /\ n.topic = j.topic /\ n.at = "row"
          /\ n.ids = j.ids /\ n.row = i
      BY <1>1 DEF Job, At
    <3> HIDE DEF n
    <3>3. WellFormed(n) /\ Given(n, topicIds, subIds) /\ (~crossed => Current(n, topic, sub, members))
      BY <1>1, <2>1, <3>2, AddingFacts
    <3> QED
      BY <1>1, <2>3, <3>1, <3>2, <3>3, NotAnswered, StoreStays
  <2> QED
    BY <2>2, <2>3
<1> QED
  BY <1>2, <1>3

LEMMA InsertRowStep ==
  ASSUME Inv, Overlap, Counted, NEW h \in Handlers, InsertRow(h)
  PROVE  Inv'
<1> DEFINE j == job[h]
<1>1. /\ j \in Job /\ j.at = "row" /\ j.kind = "add" /\ j.row \in j.ids
      /\ j.ids \subseteq Nat /\ UNCHANGED <<topics, people>>
  BY DEF InsertRow, Inv, WellFormed, Job
<1>2. CASE <<j.topic, j.row>> \notin members
  <2> DEFINE n == NextRow(j)
  <2>1. /\ members' = members \cup {<<j.topic, j.row>>}
        /\ job' = [job EXCEPT ![h] = n] /\ UNCHANGED answer
    BY <1>2 DEF InsertRow
  <2>2. n \in Job /\ n.kind = "add" /\ n.key = j.key /\ n.topic = j.topic /\ n.at = "rows"
        /\ n.ids \subseteq j.ids
    BY <1>1 DEF Job, At, NextRow
  <2> HIDE DEF n
  <2>3. WellFormed(n) /\ Given(n, topicIds, subIds) /\ (~crossed => Current(n, topic, sub, members))
    BY <1>1, <2>2, AddingFacts
  <2>4. ASSUME Clean', NEW g \in Handlers \ {h}
        PROVE  Room(job[g], sub', members')
    <3>1. Room(job[g], sub, members) /\ ~SameInsert(job[g], job[h])
      BY <2>4, CleanBefore DEF Inv, Clean, NoTwins
    <3>2. sub' = sub
      BY <1>1 DEF people
    <3>3. ASSUME job[g].at = "row"
          PROVE  <<job[g].topic, job[g].row>> \notin members'
      BY <1>1, <2>1, <3>1, <3>3 DEF SameInsert, Room
    <3> QED
      BY <3>1, <3>2, <3>3 DEF Room
  <2>5. members' \subseteq members \cup ({j.topic} \X j.ids)
    BY <1>1, <2>1
  <2> QED
    BY <1>1, <2>1, <2>2, <2>3, <2>4, <2>5, NotAnswered, RowsStep
<1>3. CASE <<j.topic, j.row>> \in members
  <2>1. UNCHANGED store
    BY <1>1, <1>3 DEF InsertRow, store, topics, people
  <2>2. twins' \/ faults' > 0
    <3>1. ~Clean
      BY <1>1, <1>3 DEF Inv, Room
    <3>2. ~Clean'
      BY <3>1, CleanBefore
    <3> QED
      BY <3>2, BoundsAssumption DEF Clean, Counted
  <2>3. CASE End(h, "error")
    <3>1. "error" \in Answers
      BY DEF Answers
    <3> QED
      BY <2>1, <2>2, <2>3, <3>1, EndQuietly
  <2>4. CASE job' = [job EXCEPT ![h] = [j EXCEPT !.at = "rows", !.row = 0]] /\ UNCHANGED answer
    <3> DEFINE n == [j EXCEPT !.at = "rows", !.row = 0]
    <3>1. n \in Job /\ n.kind = "add" /\ n.key = j.key /\ n.topic = j.topic /\ n.at = "rows"
          /\ n.ids \subseteq j.ids
      BY <1>1 DEF Job, At
    <3>2. job' = [job EXCEPT ![h] = n]
      BY <2>4
    <3> HIDE DEF n
    <3>3. WellFormed(n) /\ Given(n, topicIds, subIds) /\ (~crossed => Current(n, topic, sub, members))
      BY <1>1, <3>1, AddingFacts
    <3> QED
      BY <2>1, <2>4, <3>1, <3>2, <3>3, NotAnswered, StoreStays
  <2> QED
    BY <1>3, <2>3, <2>4 DEF InsertRow
<1> QED
  BY <1>2, <1>3

LEMMA FailStep ==
  ASSUME Inv, Overlap, Counted, NEW h \in Handlers, Fail(h)
  PROVE  Inv'
<1>1. End(h, "error") /\ "error" \in Answers
  BY DEF Fail, Answers
<1>2. faults' > 0 /\ ~Clean'
  <2>1. faults \in Nat
    BY BoundsAssumption DEF Inv
  <2> QED
    BY <2>1 DEF Fail, Clean
<1>3. CASE job[h].at \in {"rows", "row"}
  <2>1. PICK part \in SUBSET job[h].ids :
          members' = IF job[h].kind = "add" THEN members \cup ({job[h].topic} \X part)
                     ELSE members \ ({job[h].topic} \X part)
    BY <1>3 DEF Fail
  <2>2. \/ members' \subseteq members
        \/ job[h].kind = "add" /\ members' \subseteq members \cup ({job[h].topic} \X job[h].ids)
    BY <2>1
  <2> QED
    BY <1>1, <1>2, <1>3, <2>2, RowsEnd DEF Fail
<1>4. CASE job[h].at \notin {"rows", "row"}
  <2>1. UNCHANGED store
    BY <1>4 DEF Fail, store, topics, people
  <2> QED
    BY <1>1, <1>2, <2>1, EndQuietly
<1> QED
  BY <1>3, <1>4

\* A name that is skipped.
LEMMA OverlookStep ==
  ASSUME Inv, Overlap, Counted, NEW h \in Handlers, Overlook(h)
  PROVE  Inv'
<1> DEFINE j == job[h]
<1>1. /\ j \in Job /\ WellFormed(j) /\ Given(j, topicIds, subIds) /\ j.at = "collect"
      /\ j.kind \in {"add", "remove"} /\ (~crossed => Current(j, topic, sub, members))
      /\ UNCHANGED <<answer, store>>
  BY DEF Inv, Overlook
<1>2. PICK s \in j.todo : job' = [job EXCEPT ![h].todo = @ \ {s}]
  BY DEF Overlook
<1> DEFINE n == [j EXCEPT !.todo = j.todo \ {s}]
<1>3. job' = [job EXCEPT ![h] = n]
  BY <1>2
<1> HIDE DEF j
<1>4. n \in Job /\ n.kind = j.kind /\ n.key = j.key /\ n.ids = j.ids /\ n.topic = j.topic
      /\ n.at = "collect"
  BY <1>1 DEF Job
<1> HIDE DEF n
<1>5. WellFormed(n) /\ Given(n, topicIds, subIds) /\ (~crossed => Current(n, topic, sub, members))
  BY <1>1, <1>4 DEF WellFormed, Given, Current, Deleting
<1> QED
  BY <1>1, <1>3, <1>4, <1>5, NotAnswered, StoreStays

LEMMA CascadeStep ==
  ASSUME Inv, Overlap, Counted, NEW h \in Handlers, Cascade(h)
  PROVE  Inv'
<1> DEFINE j == job[h] n == [j EXCEPT !.at = "document"]
<1>1. /\ j \in Job /\ WellFormed(j) /\ Given(j, topicIds, subIds) /\ j.kind \in Deleting
      /\ j.at = "cascade" /\ (~crossed => Current(j, topic, sub, members))
  BY DEF Inv, Cascade, WellFormed
<1>2. /\ job' = [job EXCEPT ![h] = n] /\ UNCHANGED answer
      /\ members' = {m \in members : IF j.kind = "drop topic" THEN m[1] # j.topic ELSE m[2] \notin j.ids}
      /\ topic' = topic /\ topicIds' = topicIds /\ sub' = sub /\ subIds' = subIds
  BY DEF Cascade, Goto, Remaining, topics, people
<1> HIDE DEF j
<1>3. /\ n \in Job /\ n.kind = j.kind /\ n.key = j.key /\ n.ids = j.ids /\ n.topic = j.topic
      /\ n.todo = j.todo /\ n.at = "document"
  BY <1>1 DEF Job, At
<1> HIDE DEF n
<1>4. WellFormed(n)
  BY <1>1, <1>3 DEF WellFormed, Deleting
<1>5. Given(n, topicIds, subIds)
  BY <1>1, <1>3 DEF Given
<1>6. members' \subseteq members
  BY <1>2
<1>7. StoreOK(topic', sub', topicIds', subIds', members')
  BY <1>2, <1>6 DEF Inv, StoreOK
<1>8. crossed => crossed'
  BY DEF Overlap
<1>9. ~crossed => LiveRows(topic', sub', members')
  BY <1>2, <1>6 DEF Inv, LiveRows
<1>10. ~crossed => Current(n, topic', sub', members')
  <2> SUFFICES ASSUME ~crossed
               PROVE  Current(n, topic, sub, members')
    BY <1>2
  <2>1. n.kind = "drop topic" => n.topic = topic[n.key]
    BY <1>1, <1>3 DEF Current
  <2>2. n.kind = "drop subscriber" => \A x \in n.todo : n.ids = {sub[x].id}
    BY <1>1, <1>3 DEF Current
  <2>3. \A p \in members' : IF n.kind = "drop topic" THEN p[1] # n.topic ELSE p[2] \notin n.ids
    BY <1>2, <1>3
  <2> QED
    BY <1>3, <2>1, <2>2, <2>3 DEF Current
<1>11. Leaves(h)
  BY <1>2, <1>6 DEF Leaves
<1>12. Clean' => \A g \in Handlers \ {h} : Room(job[g], sub', members')
  BY <1>2, <1>6, RoomStays
<1>13. n.at \notin {"insert", "row"} /\ topicIds <= topicIds' /\ subIds <= subIds'
  BY <1>2, <1>3, Numbers
<1> QED
  BY <1>2, <1>3, <1>4, <1>5, <1>7, <1>8, <1>9, <1>10, <1>11, <1>12, <1>13, NotAnswered, HandlerStep
     DEF Counted

LEMMA DropDocumentStep ==
  ASSUME Inv, Overlap, Counted, NEW h \in Handlers, DropDocument(h)
  PROVE  Inv'
<1> DEFINE j == job[h]
<1>1. /\ j \in Job /\ WellFormed(j) /\ j.kind \in Deleting /\ j.at = "document"
      /\ (~crossed => Current(j, topic, sub, members))
  BY DEF Inv, DropDocument, WellFormed
<1>2. /\ job' = [job EXCEPT ![h] = Idle] /\ answer' = [answer EXCEPT ![h] = "ok"]
      /\ topicIds' = topicIds /\ subIds' = subIds /\ members' = members
      /\ "ok" \in Answers /\ Idle.at \notin {"insert", "row"}
  BY IdleFacts DEF DropDocument, End, Answers
<1>3. /\ topic \in [Keys -> Nat] /\ sub \in [Subs -> Document] /\ topicIds \in Nat /\ subIds \in Nat
      /\ \A k \in Keys : topic[k] <= topicIds
      /\ \A x \in Subs : sub[x].id <= subIds /\ (sub[x].id = 0 => sub[x] = NoDocument)
  BY DEF Inv, StoreOK
<1>4. ASSUME j.kind = "drop topic"
      PROVE  /\ StoreOK(topic', sub', topicIds', subIds', members')
             /\ ~crossed => LiveRows(topic', sub', members')
             /\ \A x \in Subs : sub[x] = NoDocument => sub'[x] = NoDocument
  <2>1. topic' = [topic EXCEPT ![j.key] = 0] /\ sub' = sub /\ j.key \in Keys
    BY <1>1, <1>4 DEF DropDocument, WellFormed
  <2>2. topic' \in [Keys -> Nat] /\ \A k \in Keys : topic'[k] = IF k = j.key THEN 0 ELSE topic[k]
    BY <1>3, <2>1
  <2>3. \A k \in Keys : topic'[k] <= topicIds
    BY <1>3, <2>2
  <2>4. ASSUME ~crossed
        PROVE  LiveRows(topic', sub', members')
    <3> SUFFICES ASSUME NEW p \in members
                 PROVE  (\E k \in Keys : topic'[k] = p[1]) /\ (\E x \in Subs : sub[x].id = p[2])
      BY <1>2, <2>1 DEF LiveRows
    <3>1. PICK k \in Keys : topic[k] = p[1]
      BY <2>4 DEF Inv, LiveRows
    <3>2. p[1] # topic[j.key]
      BY <1>1, <1>4, <2>4 DEF Current
    <3>3. topic'[k] = p[1]
      BY <2>2, <3>1, <3>2
    <3>4. \E x \in Subs : sub[x].id = p[2]
      BY <2>4 DEF Inv, LiveRows
    <3> QED
      BY <3>3, <3>4
  <2>5. StoreOK(topic', sub', topicIds', subIds', members')
    BY <1>2, <2>1, <2>2, <2>3 DEF Inv, StoreOK
  <2> QED
    BY <2>1, <2>4, <2>5
<1>5. ASSUME j.kind # "drop topic"
      PROVE  /\ StoreOK(topic', sub', topicIds', subIds', members')
             /\ ~crossed => LiveRows(topic', sub', members')
             /\ \A x \in Subs : sub[x] = NoDocument => sub'[x] = NoDocument
  <2>1. /\ sub' = [s \in Subs |-> IF s \in j.todo THEN NoDocument ELSE sub[s]] /\ topic' = topic
        /\ j.kind = "drop subscriber"
    BY <1>1, <1>5 DEF DropDocument, Deleting
  <2>2. \A x \in Subs : sub'[x] = IF x \in j.todo THEN NoDocument ELSE sub[x]
    BY <2>1
  <2>3. sub' \in [Subs -> Document]
    BY <1>3, <2>1, ProfileFacts
  <2>4. \A x \in Subs : sub'[x].id <= subIds /\ (sub'[x].id = 0 => sub'[x] = NoDocument)
    BY <1>3, <2>2, ProfileFacts
  <2>5. ASSUME ~crossed
        PROVE  LiveRows(topic', sub', members')
    <3> SUFFICES ASSUME NEW p \in members
                 PROVE  (\E k \in Keys : topic[k] = p[1]) /\ (\E x \in Subs : sub'[x].id = p[2])
      BY <1>2, <2>1 DEF LiveRows
    <3>1. PICK x \in Subs : sub[x].id = p[2]
      BY <2>5 DEF Inv, LiveRows
    <3>2. p[2] \notin j.ids
      BY <1>1, <1>5, <2>5 DEF Current
    <3>3. x \notin j.todo
      BY <1>1, <2>1, <2>5, <3>1, <3>2 DEF Current
    <3>4. sub'[x].id = p[2]
      BY <2>2, <3>1, <3>3
    <3>5. \E k \in Keys : topic[k] = p[1]
      BY <2>5 DEF Inv, LiveRows
    <3> QED
      BY <3>4, <3>5
  <2>6. StoreOK(topic', sub', topicIds', subIds', members')
    BY <1>2, <2>1, <2>3, <2>4 DEF Inv, StoreOK
  <2> QED
    BY <2>2, <2>5, <2>6
<1>6. ~crossed => Leaves(h)
  <2> SUFFICES ASSUME ~crossed, NEW g \in Handlers \ {h}
               PROVE  job[g].kind \notin Deleting \cup {"add"}
    BY DEF Leaves
  <2> QED
    BY <1>1 DEF Inv, Apart
<1>7. crossed => crossed'
  BY DEF Overlap
<1>8. /\ answer' \in [Handlers -> Answers]
      /\ \A g \in Handlers : answer'[g] = "error" =>
           answer[g] = "error" \/ faults' > 0 \/ crossed' \/ twins'
  BY <1>2, Answered
<1>9. topicIds <= topicIds' /\ subIds <= subIds'
  BY <1>2, <1>3
<1>10. /\ StoreOK(topic', sub', topicIds', subIds', members')
       /\ ~crossed => LiveRows(topic', sub', members')
       /\ Clean' => \A g \in Handlers : Room(job[g], sub', members')
  <2>1. members' \subseteq members
    BY <1>2
  <2> QED
    BY <1>4, <1>5, <2>1, RoomStays
<1> QED
  BY <1>2, <1>6, <1>7, <1>8, <1>9, <1>10, IdleFacts, HandlerStep DEF Counted

-----------------------------------------------------------------------------
(* Posts, devices and presence.                                            *)

LEMMA MergedFacts ==
  ASSUME NEW d \in Profile, NEW p \in Profile
  PROVE  /\ Merged(d, p) \in Profile
         /\ d.tokens \cup p.tokens = Merged(d, p).tokens /\ Merged(d, p).online = d.online
         /\ Merged(d, p).chat = IF p.chat = None THEN d.chat ELSE p.chat
         /\ Merged(d, p).locale = IF p.locale = None THEN d.locale ELSE p.locale
  BY DEF Merged, Profile

\* A document changes in its profile only, or is created.
LEMMA SubChanges ==
  ASSUME Inv, NEW s \in Subs, NEW x \in Document, sub' = [sub EXCEPT ![s] = x],
         UNCHANGED <<topics, members>>, subIds' \in Nat, subIds <= subIds', x.id \in 1..subIds',
         sub[s] # NoDocument => x.id = sub[s].id
  PROVE  /\ StoreOK(topic', sub', topicIds', subIds', members')
         /\ ~crossed => LiveRows(topic', sub', members')
         /\ \A h \in Handlers : Leaves(h)
         /\ \A q \in Subs \ {s} : sub'[q] = sub[q]
         /\ sub'[s] = x /\ x # NoDocument
         /\ \A q \in Subs : sub[q].id # 0 => sub'[q].id = sub[q].id
<1>1. /\ topic' = topic /\ topicIds' = topicIds /\ members' = members
  BY DEF topics
<1>2. /\ sub \in [Subs -> Document] /\ subIds \in Nat
      /\ \A q \in Subs : sub[q].id <= subIds /\ (sub[q].id = 0 => sub[q] = NoDocument)
  BY DEF Inv, StoreOK
<1>3. sub' \in [Subs -> Document] /\ sub'[s] = x /\ \A q \in Subs \ {s} : sub'[q] = sub[q]
  BY <1>2
<1>4. x.id # 0 /\ x.id <= subIds' /\ x # NoDocument
  BY ProfileFacts
<1>5. ASSUME NEW q \in Subs
      PROVE  /\ sub'[q].id <= subIds' /\ (sub'[q].id = 0 => sub'[q] = NoDocument)
             /\ sub[q].id # 0 => sub'[q].id = sub[q].id
  <2>1. CASE q = s
    BY <1>3, <1>4, <2>1, ProfileFacts
  <2>2. CASE q # s
    <3>1. sub[q].id \in Nat
      BY Numbers
    <3> QED
      BY <1>2, <1>3, <2>2, <3>1
  <2> QED
    BY <2>1, <2>2
<1>6. members \subseteq (1..topicIds) \X (1..subIds')
  <2>1. members \subseteq (1..topicIds) \X (1..subIds)
    BY DEF Inv, StoreOK
  <2>2. 1..subIds \subseteq 1..subIds'
    BY <1>2
  <2> QED
    BY <2>1, <2>2
<1>7. StoreOK(topic', sub', topicIds', subIds', members')
  BY <1>1, <1>3, <1>5, <1>6 DEF Inv, StoreOK
<1>8. ASSUME ~crossed
      PROVE  LiveRows(topic', sub', members')
  <2> SUFFICES ASSUME NEW p \in members
               PROVE  (\E k \in Keys : topic[k] = p[1]) /\ (\E q \in Subs : sub'[q].id = p[2])
    BY <1>1 DEF LiveRows
  <2>1. (\E k \in Keys : topic[k] = p[1]) /\ (\E q \in Subs : sub[q].id = p[2])
    BY <1>8 DEF Inv, LiveRows
  <2>2. p[2] # 0
    <3>1. p[2] \in 1..subIds
      BY DEF Inv, StoreOK
    <3> QED
      BY <1>2, <3>1
  <2> QED
    BY <1>5, <2>1, <2>2
<1>9. \A h \in Handlers : Leaves(h)
  BY <1>1, <1>5 DEF Leaves
<1> QED
  BY <1>3, <1>4, <1>5, <1>7, <1>8, <1>9

\* What Posted makes of the job of a post.
LEMMA PostedFacts ==
  ASSUME Inv, NEW h \in Handlers, job[h].at \in {"match", "insert"}, NEW s \in job[h].todo,
         Posted(h, s)
  PROVE  \E j \in Job : /\ job' = [job EXCEPT ![h] = j] /\ WellFormed(j) /\ j.at \notin {"insert", "row"}
                        /\ Given(j, topicIds', subIds')
                        /\ Current(j, topic', sub', members')
                        /\ j.todo = job[h].todo \ {s}
                        /\ answer' \in [Handlers -> Answers]
                        /\ answer'[h] # "error" \/ answer[h] = "error"
                        /\ \A g \in Handlers \ {h} : answer'[g] = answer[g]
<1> DEFINE n == [job[h] EXCEPT !.at = "match", !.todo = job[h].todo \ {s}, !.new = 0]
<1>1. job[h] \in Job /\ job[h].kind = "post" /\ job[h].todo \subseteq Subs
  BY DEF Inv, WellFormed, Job
<1>2. CASE job[h].todo = {s}
  <2>1. job' = [job EXCEPT ![h] = Idle] /\ answer' = [answer EXCEPT ![h] = "ok"] /\ "ok" \in Answers
    BY <1>2 DEF Posted, End, Answers
  <2>2. Idle.todo = {} /\ Idle.at \notin {"insert", "row"}
    BY DEF Idle
  <2>3. /\ answer' \in [Handlers -> Answers] /\ answer'[h] = "ok"
        /\ \A g \in Handlers \ {h} : answer'[g] = answer[g]
    BY <2>1 DEF Inv
  <2> QED
    BY <1>2, <2>1, <2>2, <2>3, IdleFacts
<1>3. CASE job[h].todo # {s}
  <2>1. job' = [job EXCEPT ![h] = n] /\ answer' = answer
    BY <1>3 DEF Posted
  <2>2. n \in Job /\ n.kind = "post" /\ n.at = "match" /\ n.ids = job[h].ids
        /\ n.todo = job[h].todo \ {s}
    BY <1>1 DEF Job, At
  <2> HIDE DEF n
  <2>3. job[h].ids = {}
    BY DEF Inv, WellFormed
  <2>4. WellFormed(n) /\ Current(n, topic', sub', members')
    BY <2>2, <2>3 DEF WellFormed, Current, Deleting
  <2>5. Given(n, topicIds', subIds')
    BY <2>2, <2>3 DEF Given
  <2> QED
    BY <2>1, <2>2, <2>4, <2>5 DEF Inv
<1> QED
  BY <1>2, <1>3

\* A name of a post is written, and the handler goes on.
LEMMA PostStep ==
  ASSUME Inv, Overlap, Counted, NEW h \in Handlers, job[h].at \in {"match", "insert"},
         NEW s \in job[h].todo, Posted(h, s), NEW x \in Document, sub' = [sub EXCEPT ![s] = x],
         UNCHANGED <<topics, members>>, subIds' \in Nat, subIds <= subIds', x.id \in 1..subIds',
         sub[s] # NoDocument => x.id = sub[s].id,
         Clean => \A g \in Handlers \ {h} : job[g].at = "insert" => job[g].new # s
  PROVE  Inv'
<1>1. s \in Subs
  BY DEF Inv, Job
<1>2. PICK j \in Job : /\ job' = [job EXCEPT ![h] = j] /\ WellFormed(j) /\ j.at \notin {"insert", "row"}
                       /\ Given(j, topicIds', subIds')
                       /\ Current(j, topic', sub', members')
                       /\ answer' \in [Handlers -> Answers]
                       /\ answer'[h] # "error" \/ answer[h] = "error"
                       /\ \A g \in Handlers \ {h} : answer'[g] = answer[g]
  BY PostedFacts
<1>3. /\ StoreOK(topic', sub', topicIds', subIds', members')
      /\ ~crossed => LiveRows(topic', sub', members')
      /\ Leaves(h)
      /\ \A q \in Subs \ {s} : sub'[q] = sub[q]
  BY <1>1, SubChanges
<1>4. crossed => crossed'
  BY DEF Overlap
<1>5. ASSUME Clean', NEW g \in Handlers \ {h}
      PROVE  Room(job[g], sub', members')
  <2>1. Clean /\ Room(job[g], sub, members) /\ WellFormed(job[g])
    BY <1>5, CleanBefore DEF Inv
  <2>2. job[g].at = "insert" => job[g].new # s
    BY <1>5, <2>1
  <2> QED
    BY <1>3, <2>1, <2>2 DEF Room, WellFormed
<1>6. topicIds <= topicIds'
  BY Numbers DEF topics
<1> QED
  BY <1>2, <1>3, <1>4, <1>5, <1>6, HandlerStep DEF Counted

LEMMA MatchStep ==
  ASSUME Inv, Overlap, Counted, NEW h \in Handlers, Match(h)
  PROVE  Inv'
<1> DEFINE j == job[h]
<1>1. j \in Job /\ WellFormed(j) /\ j.at = "match" /\ j.kind = "post" /\ j.ids = {}
      /\ j.todo \subseteq Subs /\ j.post \in Profile
  BY DEF Inv, Match, WellFormed, Job
<1>2. ASSUME NEW s \in j.todo, sub[s] # NoDocument, Posted(h, s),
             sub' = [sub EXCEPT ![s] = [sub[s] EXCEPT !.is = Merged(sub[s].is, j.post)]]
      PROVE  Inv'
  <2> DEFINE x == [sub[s] EXCEPT !.is = Merged(sub[s].is, j.post)]
  <2>1. s \in Subs /\ sub[s] \in Document /\ sub[s].id \in 1..subIds /\ subIds \in Nat
    BY <1>1, <1>2, Numbers
  <2>2. Merged(sub[s].is, j.post) \in Profile
    BY <1>1, <2>1, MergedFacts DEF Document
  <2>3. x \in Document /\ x.id = sub[s].id
    BY <2>1, <2>2 DEF Document
  <2>4. sub' = [sub EXCEPT ![s] = x]
    BY <1>2
  <2>5. Clean => \A g \in Handlers \ {h} : job[g].at = "insert" => job[g].new # s
    BY <1>2 DEF Inv, Room
  <2>6. UNCHANGED <<topics, members>> /\ subIds' = subIds
    BY DEF Match
  <2> HIDE DEF x
  <2>7. subIds' \in Nat /\ subIds <= subIds' /\ x.id \in 1..subIds'
    BY <2>1, <2>3, <2>6
  <2>8. job[h].at \in {"match", "insert"} /\ s \in job[h].todo /\ Posted(h, s)
    BY <1>1, <1>2
  <2> HIDE DEF j
  <2> QED
    BY <2>3, <2>4, <2>5, <2>6, <2>7, <2>8, PostStep
<1>3. ASSUME NEW s \in j.todo, sub[s] = NoDocument, UNCHANGED <<sub, answer>>,
             job' = [job EXCEPT ![h] = [j EXCEPT !.at = "insert", !.new = s]]
      PROVE  Inv'
  <2> DEFINE n == [j EXCEPT !.at = "insert", !.new = s]
  <2>1. job' = [job EXCEPT ![h] = n]
    BY <1>3
  <2>2. UNCHANGED store
    BY <1>3 DEF Match, store, topics
  <2> HIDE DEF j
  <2>3. n \in Job /\ n.kind = "post" /\ n.at = "insert" /\ n.new = s /\ n.todo = j.todo /\ n.ids = {}
    BY <1>1, <1>3 DEF Job, At
  <2> HIDE DEF n
  <2>4. WellFormed(n) /\ Given(n, topicIds, subIds) /\ Current(n, topic, sub, members)
    BY <1>1, <1>3, <2>3 DEF WellFormed, Given, Current, Deleting
  <2> QED
    BY <1>3, <2>1, <2>2, <2>3, <2>4, NotAnswered, StoreStays
<1>4. PICK s \in j.todo :
        IF sub[s] # NoDocument
        THEN sub' = [sub EXCEPT ![s] = [sub[s] EXCEPT !.is = Merged(sub[s].is, j.post)]] /\ Posted(h, s)
        ELSE job' = [job EXCEPT ![h] = [j EXCEPT !.at = "insert", !.new = s]]
             /\ UNCHANGED <<sub, answer>>
  BY DEF Match
<1> QED
  BY <1>2, <1>3, <1>4

LEMMA InsertSubStep ==
  ASSUME Inv, Overlap, Counted, NEW h \in Handlers, InsertSub(h)
  PROVE  Inv'
<1> DEFINE j == job[h] s == j.new
<1>1. j \in Job /\ WellFormed(j) /\ j.at = "insert" /\ j.kind = "post" /\ j.ids = {}
      /\ s \in j.todo /\ s \in Subs /\ j.post \in Profile
  BY DEF Inv, InsertSub, WellFormed, Job
<1>2. CASE sub[s] = NoDocument
  <2> DEFINE x == [id |-> subIds', is |-> Merged(Fresh, j.post)]
  <2>1. sub' = [sub EXCEPT ![s] = x] /\ subIds' = subIds + 1 /\ Posted(h, s)
        /\ UNCHANGED <<topics, members>>
    BY <1>2 DEF InsertSub
  <2>2. subIds \in Nat
    BY Numbers
  <2>3. subIds' \in Nat /\ subIds <= subIds' /\ subIds' \in 1..subIds'
    BY <2>1, <2>2
  <2>4. Merged(Fresh, j.post) \in Profile
    BY <1>1, ProfileFacts, MergedFacts
  <2>5. x \in Document /\ x.id = subIds'
    BY <2>3, <2>4 DEF Document
  <2>6. Clean => \A g \in Handlers \ {h} : job[g].at = "insert" => job[g].new # s
    BY <1>1 DEF Inv, NoTwins, SameInsert, Clean
  <2> HIDE DEF x
  <2>7. x.id \in 1..subIds' /\ s \in job[h].todo /\ job[h].at \in {"match", "insert"}
    BY <1>1, <2>3, <2>5
  <2> HIDE DEF s, j
  <2> QED
    BY <1>2, <2>1, <2>3, <2>5, <2>6, <2>7, PostStep
<1>3. CASE sub[s] # NoDocument
  <2>1. UNCHANGED store
    BY <1>3 DEF InsertSub, store, topics, people
  <2>2. ~Clean
    BY <1>1, <1>3 DEF Inv, Room
  <2>3. twins' \/ faults' > 0
    BY <2>2, CleanBefore, BoundsAssumption DEF Clean, Counted
  <2>4. CASE End(h, "error")
    <3>1. "error" \in Answers
      BY DEF Answers
    <3> QED
      BY <2>1, <2>3, <2>4, <3>1, EndQuietly
  <2>5. CASE job' = [job EXCEPT ![h] = [j EXCEPT !.at = "match", !.new = 0]] /\ UNCHANGED answer
    <3> DEFINE n == [j EXCEPT !.at = "match", !.new = 0]
    <3>1. job' = [job EXCEPT ![h] = n] /\ UNCHANGED answer
      BY <2>5
    <3> HIDE DEF j
    <3>2. n \in Job /\ n.kind = "post" /\ n.at = "match" /\ n.ids = {}
      BY <1>1 DEF Job, At
    <3> HIDE DEF n
    <3>3. WellFormed(n) /\ Given(n, topicIds, subIds) /\ Current(n, topic, sub, members)
      BY <3>2 DEF WellFormed, Given, Current, Deleting
    <3>4. n.at \notin {"insert", "row"}
      BY <3>2
    <3> QED
      BY <2>1, <3>1, <3>2, <3>3, <3>4, NotAnswered, StoreStays
  <2> QED
    BY <1>3, <2>4, <2>5 DEF InsertSub
<1> QED
  BY <1>2, <1>3

LEMMA RewriteStep ==
  ASSUME Inv, Overlap, Counted, NEW h \in Handlers, NEW s \in Subs,
         NEW d, sub[s] # NoDocument => d \in Profile, Rewrite(h, s, d)
  PROVE  Inv'
<1>1. CASE sub[s] = NoDocument
  <2>1. End(h, "not found") /\ "not found" \in Answers /\ UNCHANGED store
    BY <1>1 DEF Rewrite, AtOnce, Answers, store, topics
  <2> QED
    BY <2>1, EndQuietly
<1>2. CASE sub[s] # NoDocument
  <2> DEFINE x == [sub[s] EXCEPT !.is = d]
  <2>1. sub' = [sub EXCEPT ![s] = x] /\ End(h, "ok") /\ UNCHANGED <<topics, members>>
        /\ subIds' = subIds
    BY <1>2 DEF Rewrite, AtOnce
  <2>2. sub[s] \in Document /\ sub[s].id \in 1..subIds /\ subIds \in Nat /\ subIds <= subIds
    BY <1>2, Numbers
  <2>3. x \in Document /\ x.id = sub[s].id
    BY <1>2, <2>2 DEF Document
  <2> HIDE DEF x
  <2>4. /\ StoreOK(topic', sub', topicIds', subIds', members')
        /\ ~crossed => LiveRows(topic', sub', members')
        /\ Leaves(h)
        /\ \A q \in Subs \ {s} : sub'[q] = sub[q]
    BY <2>1, <2>2, <2>3, SubChanges
  <2>5. job' = [job EXCEPT ![h] = Idle] /\ answer' = [answer EXCEPT ![h] = "ok"]
        /\ "ok" \in Answers /\ Idle.at \notin {"insert", "row"}
    BY <2>1, IdleFacts DEF End, Answers
  <2>6. crossed => crossed'
    BY DEF Overlap
  <2>7. Clean' => \A g \in Handlers \ {h} : Room(job[g], sub', members')
    BY <1>2, <2>1, <2>4, RoomStays
  <2>8. /\ answer' \in [Handlers -> Answers]
        /\ \A g \in Handlers : answer'[g] = "error" =>
             answer[g] = "error" \/ faults' > 0 \/ crossed' \/ twins'
    BY <2>5, Answered
  <2>9. topicIds <= topicIds' /\ subIds <= subIds'
    BY <2>1, Numbers DEF topics
  <2> QED
    BY <2>4, <2>5, <2>6, <2>7, <2>8, <2>9, IdleFacts, HandlerStep DEF Counted
<1> QED
  BY <1>1, <1>2

LEMMA SimpleStep ==
  ASSUME Inv, Overlap, Counted, NEW h \in Handlers, NEW s \in Subs,
         \/ \E gone \in SUBSET Tokens : RemovePushTokens(h, s, gone)
         \/ \E l \in Locales : Update(h, s, l)
  PROVE  Inv'
<1>1. sub[s] \in Document /\ sub[s].is \in Profile
  BY Numbers DEF Document
<1>2. \A gone \in SUBSET Tokens : [sub[s].is EXCEPT !.tokens = sub[s].is.tokens \ gone] \in Profile
  BY <1>1 DEF Profile
<1>3. \A l \in Locales : [sub[s].is EXCEPT !.locale = l] \in Profile
  BY <1>1 DEF Profile
<1> QED
  BY <1>2, <1>3, RewriteStep DEF RemovePushTokens, Update

LEMMA SetOnlineStatusStep ==
  ASSUME Inv, Overlap, Counted, NEW s \in Subs, NEW on \in BOOLEAN, SetOnlineStatus(s, on)
  PROVE  Inv'
<1> DEFINE d == [sub[s].is EXCEPT !.online = on] x == [sub[s] EXCEPT !.is = d]
<1>1. sub[s] \in Document /\ sub[s].id \in 1..subIds /\ subIds \in Nat /\ subIds <= subIds
  BY Numbers DEF SetOnlineStatus
<1>2. d \in Profile
  BY <1>1 DEF Document, Profile
<1>3. sub' = [sub EXCEPT ![s] = x]
  BY DEF SetOnlineStatus
<1> HIDE DEF d
<1>4. x \in Document /\ x.id = sub[s].id
  BY <1>1, <1>2 DEF Document
<1> HIDE DEF x
<1>5. /\ UNCHANGED <<topics, members>> /\ topic' = topic /\ topicIds' = topicIds
      /\ subIds' = subIds /\ members' = members /\ job' = job /\ answer' = answer
  BY DEF SetOnlineStatus, topics
<1>6. /\ StoreOK(topic', sub', topicIds', subIds', members')
      /\ ~crossed => LiveRows(topic', sub', members')
      /\ \A q \in Subs \ {s} : sub'[q] = sub[q]
      /\ \A q \in Subs : sub[q].id # 0 => sub'[q].id = sub[q].id
  BY <1>1, <1>3, <1>4, <1>5, SubChanges
<1>7. /\ crossed' \in BOOLEAN /\ twins' \in BOOLEAN
      /\ crossed => crossed'
      /\ twins => twins'
      /\ ~crossed' => Apart(job)
      /\ ~twins' => NoTwins(job)
  BY <1>5 DEF Overlap, Apart, NoTwins, Inv
<1>8. ASSUME ~crossed, NEW g \in Handlers
      PROVE  Current(job[g], topic', sub', members')
  BY <1>5, <1>6, <1>8, CurrentStays
<1>9. Clean' => \A g \in Handlers : Room(job[g], sub', members')
  BY <1>5, <1>6, RoomStays DEF SetOnlineStatus
<1>10. ErrorsHaveCause'
  <2> SUFFICES ASSUME NEW g \in Handlers, answer[g] = "error"
               PROVE  faults' > 0 \/ crossed' \/ twins'
    BY <1>5 DEF ErrorsHaveCause
  <2>1. faults > 0 \/ crossed \/ twins
    BY DEF Inv, ErrorsHaveCause
  <2>2. faults > 0 => faults' > 0
    BY BoundsAssumption DEF Inv, Counted
  <2> QED
    BY <1>7, <2>1, <2>2
<1> QED
  BY <1>5, <1>6, <1>7, <1>8, <1>9, <1>10 DEF Inv, Counted

-----------------------------------------------------------------------------
(* The whole of a step.                                                    *)

LEMMA InitInv ==
  ASSUME Init
  PROVE  Inv
<1>1. Cardinality(Subs) \in Nat
  BY SubsAssumption, FS_CardinalityType
<1>2. \A x \in Subs : x \in Nat /\ x # 0 /\ x <= subIds /\ subIds \in Nat
  BY <1>1, SubsAssumption DEF Init
<1>3. \A x \in Subs : sub[x] = IF x \in Founders THEN [id |-> x, is |-> Fresh] ELSE NoDocument
  BY DEF Init
<1>4. \A x \in Subs : sub[x] \in Document /\ sub[x].id <= subIds /\ (sub[x].id = 0 => sub[x] = NoDocument)
  <2> SUFFICES ASSUME NEW x \in Subs
               PROVE  sub[x] \in Document /\ sub[x].id <= subIds /\ (sub[x].id = 0 => sub[x] = NoDocument)
    OBVIOUS
  <2>1. CASE x \in Founders
    <3>1. sub[x] = [id |-> x, is |-> Fresh]
      BY <1>3, <2>1
    <3>2. sub[x] \in Document /\ sub[x].id = x
      BY <1>2, <3>1, ProfileFacts DEF Document
    <3> QED
      BY <1>2, <3>2
  <2>2. CASE x \notin Founders
    <3>1. sub[x] = NoDocument
      BY <1>3, <2>2
    <3> QED
      BY <1>2, <3>1, ProfileFacts
  <2> QED
    BY <2>1, <2>2
<1>5. sub \in [Subs -> Document]
  BY <1>4 DEF Init
<1>6. StoreOK(topic, sub, topicIds, subIds, members)
  <2>1. topicIds \in Nat /\ subIds \in Nat /\ members = {}
    BY <1>1 DEF Init
  <2>2. topic \in [Keys -> Nat] /\ \A k \in Keys : topic[k] <= topicIds
    BY DEF Init
  <2> QED
    BY <1>4, <1>5, <2>1, <2>2 DEF StoreOK
<1>7. \A h \in Handlers : job[h] = Idle /\ answer[h] = "none"
  BY DEF Init
<1>8. job \in [Handlers -> Job] /\ answer \in [Handlers -> Answers]
  BY IdleFacts DEF Init, Answers
<1>9. \A h \in Handlers : /\ WellFormed(job[h]) /\ Given(job[h], topicIds, subIds)
                          /\ Current(job[h], topic, sub, members)
                          /\ job[h].at = "idle" /\ job[h].kind = "none"
  BY <1>7, IdleFacts
<1>10. Apart(job) /\ NoTwins(job)
  BY <1>9 DEF Apart, NoTwins, SameInsert, Deleting
<1>11. LiveRows(topic, sub, members) /\ ErrorsHaveCause
  BY <1>7 DEF LiveRows, ErrorsHaveCause, Init
<1>12. requests \in 0..MaxRequests /\ faults \in 0..MaxFaults
  BY BoundsAssumption DEF Init
<1>13. crossed \in BOOLEAN /\ twins \in BOOLEAN
  BY DEF Init
<1>14. \A h \in Handlers : Room(job[h], sub, members)
  BY <1>9 DEF Room
<1> QED
  BY <1>6, <1>8, <1>9, <1>10, <1>11, <1>12, <1>14, <1>13 DEF Inv

LEMMA NextInv ==
  ASSUME Inv, [Next]_vars
  PROVE  Inv'
<1>1. requests \in 0..MaxRequests /\ faults \in 0..MaxFaults /\ faults \in Nat
      /\ MaxRequests \in Nat /\ MaxFaults \in Nat
  BY BoundsAssumption DEF Inv
<1>2. ASSUME Next
      PROVE  Overlap /\ Counted
  BY <1>1, <1>2 DEF Next, Counted, Fail, Overlook
<1>3. ASSUME Next, NEW h \in Handlers, Request(h)
      PROVE  Inv'
  BY <1>2, <1>3, BeginStep, NewTopicStep, SimpleStep DEF Request
<1>4. ASSUME Next, NEW h \in Handlers, Proceed(h)
      PROVE  Inv'
  BY <1>2, <1>4, FindTopicStep, CreateTopicStep, FindAgainStep, CollectStep, RemoveRowsStep,
     MatchRowStep, InsertRowStep, CascadeStep, DropDocumentStep, MatchStep, InsertSubStep DEF Proceed
<1>5. ASSUME Next, NEW h \in Handlers, Fail(h) \/ Overlook(h)
      PROVE  Inv'
  BY <1>2, <1>5, FailStep, OverlookStep
<1>6. ASSUME Next, NEW s \in Subs, NEW on \in BOOLEAN, SetOnlineStatus(s, on)
      PROVE  Inv'
  BY <1>2, <1>6, SetOnlineStatusStep
<1>7. CASE UNCHANGED vars
  BY <1>7 DEF vars, Inv, Clean, ErrorsHaveCause
<1> QED
  BY <1>3, <1>4, <1>5, <1>6, <1>7 DEF Next

-----------------------------------------------------------------------------
(* The theorems.                                                           *)

\* The store is well typed: a row holds _ids that were given.
THEOREM TypeCorrect == Spec => []TypeOK
<1>1. Inv => TypeOK
  BY InvType
<1> QED
  BY <1>1, InitInv, NextInv, PTL DEF Spec

\* The two calls of a deletion, in their order, leave no row behind them.
THEOREM Orphans == Spec => []OrphanNeedsOverlap
<1>1. Inv => OrphanNeedsOverlap
  BY InvOrphan
<1> QED
  BY <1>1, InitInv, NextInv, PTL DEF Spec

\* An internal error has one of four causes: a failed call, a deletion beside an
\* addition or another deletion, two first posts of one subscriber, or two additions of
\* one row, that met in the insert. Additions that race to create a topic all succeed.
THEOREM Causes == Spec => []ErrorsHaveCause
<1>1. Inv => ErrorsHaveCause
  BY DEF Inv
<1> QED
  BY <1>1, InitInv, NextInv, PTL DEF Spec

-----------------------------------------------------------------------------
(* What a post does to the document of a subscriber.                       *)

\* The stored profile is the one before, with what the post supplies.
Kept(was, p, is) ==
  /\ was.tokens \cup p.tokens = is.tokens /\ is.online = was.online
  /\ is.chat = IF p.chat = None THEN was.chat ELSE p.chat
  /\ is.locale = IF p.locale = None THEN was.locale ELSE p.locale

Was(s) == IF sub[s] = NoDocument THEN Fresh ELSE sub[s].is

PostStepKeeps ==
  \A h \in Handlers, s \in Subs :
    /\ job[h].kind = "post" /\ s \in job[h].todo /\ job'[h] # job[h] /\ s \notin job'[h].todo
    /\ answer'[h] # "error"
    => /\ sub[s] # NoDocument => sub'[s].id = sub[s].id
       /\ Kept(Was(s), job[h].post, sub'[s].is)

\* Only the step of its own handler takes a name off a post.
LEMMA OwnStep ==
  ASSUME Inv, Next, NEW h \in Handlers, job[h].kind = "post", job'[h] # job[h], answer'[h] # "error"
  PROVE  Match(h) \/ InsertSub(h)
<1>1. WellFormed(job[h]) /\ job[h] # Idle /\ job[h].at \in {"match", "insert"}
  <2>1. job[h] \in Job /\ WellFormed(job[h])
    BY DEF Inv
  <2>2. job[h].at \in At
    BY <2>1 DEF Job
  <2>3. job[h].at \in {"match", "insert"}
    BY <2>1, <2>2 DEF WellFormed, At, Deleting
  <2> QED
    BY <2>1, <2>3, IdleFacts
<1>2. job \in [Handlers -> Job]
  BY DEF Inv
<1>3. ASSUME NEW g \in Handlers, g # h, Request(g) \/ Proceed(g) \/ Fail(g) \/ Overlook(g)
      PROVE  job'[h] = job[h]
  BY <1>2, <1>3 DEF Request, Proceed, Fail, Begin, Start, NewTopic, AtOnce, RemovePushTokens, Update,
     Rewrite, End, Goto, FindTopic, CreateTopic, Refused, FindAgain, Collect, RemoveRows, MatchRow,
     InsertRow, Cascade, DropDocument, Match, InsertSub, Posted, Overlook
<1>4. ~Request(h)
  BY <1>1 DEF Request, Begin, Start, NewTopic, AtOnce, RemovePushTokens, Update, Rewrite
<1>5. ~Fail(h) /\ ~Overlook(h)
  BY <1>1 DEF Fail, Overlook, End, Inv
<1>6. Proceed(h) => Match(h) \/ InsertSub(h)
  BY <1>1 DEF Proceed, FindTopic, CreateTopic, FindAgain, Collect, RemoveRows, MatchRow,
     InsertRow, Cascade, DropDocument
<1>7. ASSUME NEW s \in Subs, NEW on \in BOOLEAN, SetOnlineStatus(s, on)
      PROVE  FALSE
  BY <1>7 DEF SetOnlineStatus
<1> QED
  BY <1>3, <1>4, <1>5, <1>6, <1>7 DEF Next

LEMMA NextKeeps ==
  ASSUME Inv, [Next]_vars
  PROVE  PostStepKeeps
<1> SUFFICES ASSUME NEW h \in Handlers, NEW s \in Subs, job[h].kind = "post", s \in job[h].todo,
                    job'[h] # job[h], s \notin job'[h].todo, answer'[h] # "error"
             PROVE  /\ sub[s] # NoDocument => sub'[s].id = sub[s].id
                    /\ Kept(Was(s), job[h].post, sub'[s].is)
  BY DEF PostStepKeeps
<1>1. Match(h) \/ InsertSub(h)
  BY OwnStep DEF vars
<1>2. job[h].post \in Profile /\ sub \in [Subs -> Document] /\ job \in [Handlers -> Job]
      /\ job[h] \in Job /\ answer \in [Handlers -> Answers]
  BY DEF Inv, StoreOK, Job
<1>3. CASE Match(h)
  <2>1. PICK x \in job[h].todo :
          IF sub[x] # NoDocument
          THEN /\ sub' = [sub EXCEPT ![x] = [sub[x] EXCEPT !.is = Merged(sub[x].is, job[h].post)]]
               /\ Posted(h, x)
          ELSE job' = [job EXCEPT ![h] = [job[h] EXCEPT !.at = "insert", !.new = x]]
    BY <1>3 DEF Match
  <2>2. sub[x] # NoDocument
    <3>1. [job[h] EXCEPT !.at = "insert", !.new = x].todo = job[h].todo
      BY <1>2 DEF Job
    <3> QED
      BY <1>2, <2>1, <3>1
  <2>3. job'[h].todo = job[h].todo \ {x}
    <3>1. job[h].at \in {"match", "insert"} /\ Posted(h, x)
      BY <1>3, <2>1, <2>2 DEF Match
    <3>2. PICK j \in Job : job' = [job EXCEPT ![h] = j] /\ j.todo = job[h].todo \ {x}
      BY <3>1, PostedFacts
    <3> QED
      BY <1>2, <3>2
  <2>4. x = s
    BY <2>3
  <2>5. sub[s] \in Document /\ sub[s].is \in Profile
    BY <1>2 DEF Document
  <2>6. sub'[s] = [sub[s] EXCEPT !.is = Merged(sub[s].is, job[h].post)]
    BY <1>2, <2>1, <2>2, <2>4
  <2>7. sub'[s].id = sub[s].id /\ sub'[s].is = Merged(sub[s].is, job[h].post)
    BY <2>5, <2>6 DEF Document
  <2> QED
    BY <1>2, <2>2, <2>4, <2>5, <2>7, MergedFacts DEF Kept, Was
<1>4. CASE InsertSub(h)
  <2> DEFINE x == job[h].new
  <2>1. job[h].at = "insert" /\ x \in job[h].todo /\ x \in Subs
    BY <1>4 DEF InsertSub, Inv, WellFormed
  <2>2. sub[x] = NoDocument
    <3> SUFFICES ASSUME sub[x] # NoDocument
                 PROVE  FALSE
      OBVIOUS
    <3>1. \/ answer' = [answer EXCEPT ![h] = "error"]
          \/ job' = [job EXCEPT ![h] = [job[h] EXCEPT !.at = "match", !.new = 0]]
      BY <1>4 DEF InsertSub, End
    <3>2. [job[h] EXCEPT !.at = "match", !.new = 0].todo = job[h].todo
      BY <1>2 DEF Job
    <3> QED
      BY <1>2, <3>1, <3>2
  <2>3. /\ sub' = [sub EXCEPT ![x] = [id |-> subIds', is |-> Merged(Fresh, job[h].post)]]
        /\ Posted(h, x)
    BY <1>4, <2>2 DEF InsertSub
  <2>4. job'[h].todo = job[h].todo \ {x}
    <3>1. PICK j \in Job : job' = [job EXCEPT ![h] = j] /\ j.todo = job[h].todo \ {x}
      BY <2>1, <2>3, PostedFacts
    <3> QED
      BY <1>2, <3>1
  <2>5. x = s
    BY <2>4
  <2>6. sub'[s].is = Merged(Fresh, job[h].post)
    BY <1>2, <2>3, <2>5
  <2> QED
    BY <1>2, <2>2, <2>5, <2>6, ProfileFacts, MergedFacts DEF Kept, Was
<1> QED
  BY <1>1, <1>3, <1>4

\* The same, as the property writes it.
StepKeepsRest ==
  \A h \in Handlers, s \in Subs :
       /\ job[h].kind = "post" /\ s \in job[h].todo /\ job'[h] # job[h] /\ s \notin job'[h].todo
       /\ answer'[h] # "error"
       => LET was == IF sub[s] = NoDocument THEN Fresh ELSE sub[s].is
              is == sub'[s].is
              p == job[h].post
          IN /\ sub[s] # NoDocument => sub'[s].id = sub[s].id
             /\ was.tokens \cup p.tokens = is.tokens /\ is.online = was.online
             /\ is.chat = IF p.chat = None THEN was.chat ELSE p.chat
             /\ is.locale = IF p.locale = None THEN was.locale ELSE p.locale

\* A post keeps the id, the presence, the tokens and the fields it does not
\* supply, whoever wrote the document last (buildSubscriberUpdate, BulkUpsert).
THEOREM PostsKeep == Spec => PostKeepsRest
<1>1. Inv /\ [Next]_vars => StepKeepsRest
  <2> SUFFICES ASSUME Inv, [Next]_vars
               PROVE  StepKeepsRest
    OBVIOUS
  <2>1. PostStepKeeps
    BY NextKeeps
  <2> QED
    BY <2>1, Zenon DEF PostStepKeeps, StepKeepsRest, Kept, Was
<1> QED
  BY <1>1, InitInv, NextInv, PTL DEF Spec, PostKeepsRest, StepKeepsRest
=============================================================================
