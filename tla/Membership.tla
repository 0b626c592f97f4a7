----------------------------- MODULE Membership -----------------------------
(***************************************************************************)
(* Subscribers, topics and who is in which topic.                          *)
(*                                                                         *)
(* Topics are named by their key and subscribers by the caller's id; the   *)
(* rows of topic_subscribers hold the _ids, which a topic or subscriber    *)
(* that is deleted and created again does not keep. No call spans two      *)
(* collections: a request looks its ids up, one call each, and uses them   *)
(* later, and a deletion removes the rows of an _id first and then the     *)
(* document of that name.                                                  *)
(*                                                                         *)
(* A subscriber's document is also written by everyone who re-posts it,    *)
(* by their devices and by presence, each through one atomic update that   *)
(* should leave the others' fields alone. One environment is modelled. The *)
(* deletion of several rows of topic_subscribers is one step, unless it    *)
(* fails half-way; their addition is an upsert for each, and an upsert     *)
(* that finds nothing inserts later, under a unique index.                 *)
(***************************************************************************)
EXTENDS Integers, FiniteSets

CONSTANTS
  Handlers,      \* goroutines that serve requests
  Keys,          \* topic keys
  Subs,          \* the callers' subscriber ids: 1..N
  Founders,      \* subscribers that exist at the start
  Tokens,        \* device tokens
  Chats,         \* channel addresses: webhook URLs, chat ids
  Locales,       \* locales a caller may supply
  Posts,         \* what a caller may post of a subscriber
  MaxRequests,   \* bound: requests
  MaxFaults      \* bound: failed calls and lost handlers

ASSUME SubsAssumption ==
  IsFiniteSet(Subs) /\ Subs = 1..Cardinality(Subs) /\ Founders \subseteq Subs
ASSUME BoundsAssumption == MaxRequests \in Nat /\ MaxFaults \in Nat

VARIABLES
  topic,      \* per key, the _id of its topic, 0 for none
  sub,        \* per subscriber id, the document
  topicIds, subIds,   \* the _ids given so far
  members,    \* the rows of topic_subscribers: <<topic _id, subscriber _id>>
  job,        \* the handlers
  answer,     \* per handler, how its last request was answered
  requests, faults,   \* events so far
  \* history, read by no action
  crossed,    \* a deletion ran beside an addition or another deletion
  twins       \* two first posts of one subscriber, or two additions of one
              \* row, ran side by side

store == <<topic, sub, topicIds, subIds, members>>
vars == <<topic, sub, topicIds, subIds, members, job, answer, requests, faults,
          crossed, twins>>

None == "none"
DefaultLocale == "en"
Profile == [tokens: SUBSET Tokens, chat: Chats \cup {None},
            locale: Locales \cup {DefaultLocale, None}, online: BOOLEAN]
Blank == [tokens |-> {}, chat |-> None, locale |-> None, online |-> FALSE]
Fresh == [Blank EXCEPT !.locale = DefaultLocale]
Document == [id: Nat, is: Profile]
NoDocument == [id |-> 0, is |-> Blank]

ASSUME PostsAssumption == \A p \in Posts : p \in Profile /\ ~p.online /\ p.locale # DefaultLocale

Deleting == {"drop topic", "drop subscriber"}
Kind == {"none", "add", "remove", "post"} \cup Deleting
At == {"idle", "topic", "create", "again", "collect", "rows", "row", "cascade", "document",
       "match", "insert"}
Job == [kind: Kind, at: At, key: Keys \cup {None}, todo: SUBSET Subs,
        topic: Nat, ids: SUBSET Nat, row: Nat, post: Profile, new: Subs \cup {0}]
Idle == [kind |-> "none", at |-> "idle", key |-> None, todo |-> {}, topic |-> 0,
         ids |-> {}, row |-> 0, post |-> Blank, new |-> 0]
Answers == {"none", "ok", "conflict", "not found", "error"}

TopicIdsLive == {topic[k] : k \in Keys} \ {0}
SubIdsLive == {sub[s].id : s \in Subs} \ {0}

TypeOK ==
  /\ topic \in [Keys -> Nat] /\ sub \in [Subs -> Document]
  /\ topicIds \in Nat /\ subIds \in Nat
  /\ members \subseteq (1..topicIds) \X (1..subIds)
  /\ TopicIdsLive \subseteq 1..topicIds /\ SubIdsLive \subseteq 1..subIds
  /\ job \in [Handlers -> Job] /\ answer \in [Handlers -> Answers]
  /\ requests \in 0..MaxRequests /\ faults \in 0..MaxFaults
  /\ crossed \in BOOLEAN /\ twins \in BOOLEAN

\* The first _id of a founder is its number.
Init ==
  /\ topic = [k \in Keys |-> 0] /\ topicIds = 0 /\ members = {}
  /\ sub = [s \in Subs |-> IF s \in Founders THEN [id |-> s, is |-> Fresh] ELSE NoDocument]
  /\ subIds = Cardinality(Subs)
  /\ job = [h \in Handlers |-> Idle] /\ answer = [h \in Handlers |-> "none"]
  /\ requests = 0 /\ faults = 0
  /\ crossed = FALSE /\ twins = FALSE

-----------------------------------------------------------------------------
topics == <<topic, topicIds>>
people == <<sub, subIds>>

Goto(h, at) == job' = [job EXCEPT ![h].at = at] /\ UNCHANGED answer
End(h, what) == job' = [job EXCEPT ![h] = Idle] /\ answer' = [answer EXCEPT ![h] = what]
Start(h, j) == /\ job[h] = Idle /\ job' = [job EXCEPT ![h] = j]
               /\ answer' = [answer EXCEPT ![h] = "none"]
AtOnce(h, what) == job[h] = Idle /\ End(h, what)

\* Requests that take several calls.
Begin(h) ==
  /\ \/ \E k \in Keys, kind \in {"add", "remove"}, names \in SUBSET Subs \ {{}} :
          Start(h, [Idle EXCEPT !.kind = kind, !.at = "topic", !.key = k, !.todo = names])
     \/ \E k \in Keys : Start(h, [Idle EXCEPT !.kind = "drop topic", !.at = "topic", !.key = k])
     \/ \E s \in Subs :
          Start(h, [Idle EXCEPT !.kind = "drop subscriber", !.at = "collect", !.todo = {s}])
     \/ \E names \in SUBSET Subs \ {{}}, p \in Posts :
          /\ Cardinality(names) > 1 => p.tokens = {} /\ p.chat = None
          /\ Start(h, [Idle EXCEPT !.kind = "post", !.at = "match", !.todo = names, !.post = p])
  /\ UNCHANGED store

\* Mutant: the handler keeps the _id of the topic before.
Insert_Late(k) == topicIds' = topicIds /\ topic' = [topic EXCEPT ![k] = topicIds + 1]

\* The document of a new topic; the unique index refuses a second one of its key.
Insert(k) == topicIds' = topicIds + 1 /\ topic' = [topic EXCEPT ![k] = topicIds']

NewTopic(h, k) ==
  /\ \/ topic[k] = 0 /\ Insert(k) /\ AtOnce(h, "ok")
     \/ topic[k] # 0 /\ UNCHANGED topics /\ AtOnce(h, "conflict")
  /\ UNCHANGED <<people, members>>

\* FindByKey, and what each handler makes of a topic that is not there.
FindTopic(h) ==
  LET j == job[h] IN
  /\ j.at = "topic"
  /\ IF topic[j.key] # 0
     THEN /\ job' = [job EXCEPT ![h] = [j EXCEPT !.topic = topic[j.key],
                       !.at = IF j.kind = "drop topic" THEN "cascade" ELSE "collect"]]
          /\ UNCHANGED answer
     ELSE IF j.kind = "add" THEN Goto(h, "create") ELSE End(h, "not found")
  /\ UNCHANGED store

\* Mutant: the loser of a race for the key fails.
Refused_Fails(h) == End(h, "error")

\* FindOrCreate reads the topic of whoever was faster.
Refused(h) == Goto(h, "again")

CreateTopic(h) ==
  LET k == job[h].key IN
  /\ job[h].at = "create"
  /\ IF topic[k] = 0
     THEN /\ Insert(k) /\ UNCHANGED answer
          /\ job' = [job EXCEPT ![h] = [@ EXCEPT !.at = "collect", !.topic = topicIds']]
     ELSE Refused(h) /\ UNCHANGED topics
  /\ UNCHANGED <<people, members>>

FindAgain(h) ==
  LET k == job[h].key IN
  /\ job[h].at = "again"
  /\ IF topic[k] # 0
     THEN job' = [job EXCEPT ![h] = [@ EXCEPT !.at = "collect", !.topic = topic[k]]]
          /\ UNCHANGED answer
     ELSE End(h, "error")
  /\ UNCHANGED store

\* FindBySubscriberID, one name at a time. AddSubscribers and RemoveSubscribers skip
\* a stranger; a deletion ends there.
Collect(h) ==
  LET j == job[h] IN
  /\ j.at = "collect"
  /\ IF j.kind = "drop subscriber"
     THEN \E s \in j.todo :
            IF sub[s] = NoDocument THEN End(h, "not found")
            ELSE /\ job' = [job EXCEPT ![h] = [@ EXCEPT !.at = "cascade", !.ids = {sub[s].id}]]
                 /\ UNCHANGED answer
     ELSE IF j.todo = {} THEN Goto(h, "rows")
     ELSE \E s \in j.todo :
            /\ job' = [job EXCEPT ![h] = [j EXCEPT !.todo = j.todo \ {s},
                         !.ids = IF sub[s] = NoDocument THEN j.ids ELSE j.ids \cup {sub[s].id}]]
            /\ UNCHANGED answer
  /\ UNCHANGED store

\* A lookup that fails is taken for a stranger: the name is skipped, the request
\* goes on to its end.
Overlook(h) ==
  LET j == job[h] IN
  /\ j.at = "collect" /\ j.kind \in {"add", "remove"}
  /\ faults < MaxFaults /\ faults' = faults + 1
  /\ \E s \in j.todo : job' = [job EXCEPT ![h].todo = @ \ {s}]
  /\ UNCHANGED <<answer, store>>

\* BulkRemove, by the _ids found: one call.
RemoveRows(h) ==
  LET j == job[h] IN
  /\ j.at = "rows" /\ j.kind = "remove"
  /\ members' = members \ ({j.topic} \X j.ids)
  /\ End(h, "ok")
  /\ UNCHANGED <<topics, people>>

\* The next upsert of BulkAdd.
NextRow(j) == [j EXCEPT !.at = "rows", !.ids = j.ids \ {j.row}, !.row = 0]

\* BulkAdd: the filter of an upsert, which leaves a row that is there as it is.
MatchRow(h) ==
  LET j == job[h] IN
  /\ j.at = "rows" /\ j.kind = "add"
  /\ IF j.ids = {} THEN End(h, "ok")
     ELSE \E s \in j.ids :
            /\ job' = [job EXCEPT ![h] = IF <<j.topic, s>> \in members THEN [j EXCEPT !.ids = @ \ {s}]
                                         ELSE [j EXCEPT !.at = "row", !.row = s]]
            /\ UNCHANGED answer
  /\ UNCHANGED store

\* ... and its insert. The unique index refuses a second row of the pair: the bulk
\* ends there with an error, unless MongoDB runs the upsert again by itself.
InsertRow(h) ==
  LET j == job[h] IN
  /\ j.at = "row"
  /\ IF <<j.topic, j.row>> \notin members
     THEN /\ members' = members \cup {<<j.topic, j.row>>}
          /\ job' = [job EXCEPT ![h] = NextRow(j)] /\ UNCHANGED answer
     ELSE /\ UNCHANGED members
          /\ \/ End(h, "error")
             \/ job' = [job EXCEPT ![h] = [j EXCEPT !.at = "rows", !.row = 0]] /\ UNCHANGED answer
  /\ UNCHANGED <<topics, people>>

\* Mutant: the rows of the name, not of the _id, so none, are removed.
Remaining_All(j) == members

\* DeleteByTopic, DeleteBySubscriber.
Remaining(j) == {m \in members : IF j.kind = "drop topic" THEN m[1] # j.topic ELSE m[2] \notin j.ids}

\* A deletion: the rows of the _id ...
Cascade(h) ==
  /\ job[h].at = "cascade"
  /\ members' = Remaining(job[h])
  /\ Goto(h, "document")
  /\ UNCHANGED <<topics, people>>

\* ... and then the document, by its name.
DropDocument(h) ==
  LET j == job[h] IN
  /\ j.at = "document"
  /\ IF j.kind = "drop topic"
     THEN topic' = [topic EXCEPT ![j.key] = 0] /\ UNCHANGED sub
     ELSE /\ sub' = [s \in Subs |-> IF s \in j.todo THEN NoDocument ELSE sub[s]]
          /\ UNCHANGED topic
  /\ End(h, "ok")
  /\ UNCHANGED <<topicIds, subIds, members>>

-----------------------------------------------------------------------------
\* Mutant: the device that posts last evicts the others.
Merged_Replaced(d, p) == [d EXCEPT !.tokens = IF p.tokens = {} THEN @ ELSE p.tokens,
                                   !.chat = IF p.chat = None THEN @ ELSE p.chat,
                                   !.locale = IF p.locale = None THEN @ ELSE p.locale]

\* buildSubscriberUpdate: a post adds its tokens, sets what it supplies and leaves
\* the rest, presence above all.
Merged(d, p) == [d EXCEPT !.tokens = d.tokens \cup p.tokens,
                          !.chat = IF p.chat = None THEN d.chat ELSE p.chat,
                          !.locale = IF p.locale = None THEN d.locale ELSE p.locale]

\* The next name of BulkUpsert, or the end of the call.
Posted(h, s) ==
  IF job[h].todo = {s} THEN End(h, "ok")
  ELSE /\ job' = [job EXCEPT ![h] = [job[h] EXCEPT !.at = "match",
                                                   !.todo = job[h].todo \ {s}, !.new = 0]]
       /\ UNCHANGED answer

\* The filter of the upsert: one atomic update when it finds the document.
Match(h) ==
  /\ job[h].at = "match"
  /\ \E s \in job[h].todo :
       IF sub[s] # NoDocument
       THEN sub' = [sub EXCEPT ![s].is = Merged(@, job[h].post)] /\ Posted(h, s)
       ELSE /\ job' = [job EXCEPT ![h] = [@ EXCEPT !.at = "insert", !.new = s]]
            /\ UNCHANGED <<sub, answer>>
  /\ UNCHANGED <<topics, subIds, members>>

\* ... and the insert when it did not. A duplicate is returned to the caller, unless
\* MongoDB runs the upsert again by itself.
InsertSub(h) ==
  LET s == job[h].new IN
  /\ job[h].at = "insert"
  /\ IF sub[s] = NoDocument
     THEN /\ subIds' = subIds + 1
          /\ sub' = [sub EXCEPT ![s] = [id |-> subIds', is |-> Merged(Fresh, job[h].post)]]
          /\ Posted(h, s)
     ELSE /\ UNCHANGED people
          /\ \/ End(h, "error")
             \/ job' = [job EXCEPT ![h] = [@ EXCEPT !.at = "match", !.new = 0]] /\ UNCHANGED answer
  /\ UNCHANGED <<topics, members>>

\* The requests that are one atomic call on one document.
Rewrite(h, s, d) ==
  /\ IF sub[s] = NoDocument THEN UNCHANGED sub /\ AtOnce(h, "not found")
     ELSE sub' = [sub EXCEPT ![s].is = d] /\ AtOnce(h, "ok")
  /\ UNCHANGED <<topics, subIds, members>>

RemovePushTokens(h, s, gone) == Rewrite(h, s, [sub[s].is EXCEPT !.tokens = @ \ gone])
Update(h, s, l) == Rewrite(h, s, [sub[s].is EXCEPT !.locale = l])

\* The WebSocket server, by _id.
SetOnlineStatus(s, on) ==
  /\ sub[s] # NoDocument /\ sub[s].is.online # on
  /\ sub' = [sub EXCEPT ![s].is.online = on]
  /\ UNCHANGED <<topics, subIds, members, job, answer>>

\* A call fails, or the handler's process ends; a bulk write may have written a part.
Fail(h) ==
  LET j == job[h] IN
  /\ j # Idle /\ faults < MaxFaults /\ faults' = faults + 1
  /\ End(h, "error")
  /\ IF j.at \in {"rows", "row"}
     THEN \E part \in SUBSET j.ids :
            members' = IF j.kind = "add" THEN members \cup ({j.topic} \X part)
                       ELSE members \ ({j.topic} \X part)
     ELSE UNCHANGED members
  /\ UNCHANGED <<topics, people>>

-----------------------------------------------------------------------------
Request(h) ==
  \/ Begin(h)
  \/ \E k \in Keys : NewTopic(h, k)
  \/ \E s \in Subs : \/ \E gone \in SUBSET Tokens \ {{}} : RemovePushTokens(h, s, gone)
                     \/ \E l \in Locales : Update(h, s, l)

Proceed(h) == \/ FindTopic(h) \/ CreateTopic(h) \/ FindAgain(h) \/ Collect(h)
              \/ RemoveRows(h) \/ MatchRow(h) \/ InsertRow(h) \/ Cascade(h) \/ DropDocument(h) \/ Match(h) \/ InsertSub(h)

SameInsert(i, j) ==
  \/ i.at = "insert" /\ j.at = "insert" /\ i.new = j.new
  \/ i.at = "row" /\ j.at = "row" /\ i.topic = j.topic /\ i.row = j.row

\* What ran beside what.
Overlap ==
  /\ crossed' = (crossed \/ \E g, h \in Handlers :
       g # h /\ job'[g].kind \in Deleting /\ job'[h].kind \in Deleting \cup {"add"})
  /\ twins' = (twins \/ \E g, h \in Handlers : g # h /\ SameInsert(job'[g], job'[h]))

Next ==
  /\ \/ \E h \in Handlers : /\ Request(h) /\ UNCHANGED faults
                            /\ requests < MaxRequests /\ requests' = requests + 1
     \/ (\E h \in Handlers : Proceed(h)) /\ UNCHANGED <<requests, faults>>
     \/ (\E h \in Handlers : Fail(h) \/ Overlook(h)) /\ UNCHANGED requests
     \/ (\E s \in Subs, on \in BOOLEAN : SetOnlineStatus(s, on)) /\ UNCHANGED <<requests, faults>>
  /\ Overlap

Spec == Init /\ [][Next]_vars

-----------------------------------------------------------------------------
\* Rows of a topic or a subscriber that is gone are left only where a deletion ran
\* beside an addition or another deletion: the order of the two calls of Delete, and
\* a failure between them, never leave one.
OrphanNeedsOverlap ==
  \A m \in members : m[1] \notin TopicIdsLive \/ m[2] \notin SubIdsLive => crossed

\* A caller is told of an internal error only after a failed call, a deletion at the
\* same time, or two first posts of one subscriber or two additions of one row that
\* met in the insert: two additions that race to create a topic both succeed, and so
\* do two that add the same rows one after the other.
ErrorsHaveCause == \A h \in Handlers : answer[h] = "error" => faults > 0 \/ crossed \/ twins

\* A post leaves a device registered by someone else, presence and what it does not
\* supply as it finds them, and what it supplies is stored when it is answered.
PostKeepsRest ==
  [][\A h \in Handlers, s \in Subs :
       /\ job[h].kind = "post" /\ s \in job[h].todo /\ job'[h] # job[h] /\ s \notin job'[h].todo
       /\ answer'[h] # "error"
       => LET was == IF sub[s] = NoDocument THEN Fresh ELSE sub[s].is
              is == sub'[s].is
              p == job[h].post
          IN /\ sub[s] # NoDocument => sub'[s].id = sub[s].id
             /\ was.tokens \cup p.tokens = is.tokens /\ is.online = was.online
             /\ is.chat = IF p.chat = None THEN was.chat ELSE p.chat
             /\ is.locale = IF p.locale = None THEN was.locale ELSE p.locale]_vars
=============================================================================
