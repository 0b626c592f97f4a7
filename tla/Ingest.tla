------------------------------- MODULE Ingest -------------------------------
(***************************************************************************)
(* From a request to the trigger tasks the worker pipeline starts from.    *)
(*                                                                         *)
(* A trigger request (TriggerService.Trigger, in the API binary) inserts   *)
(* one notification per recipient and then enqueues one trigger task for   *)
(* all of them. A broadcast (BroadcastHandler, a task of the worker        *)
(* binary) walks the environment's subscribers in _id order, page by page, *)
(* and does the same for each page. Requests and broadcasts of the same    *)
(* transaction meet in one place only: the unique index of notifications   *)
(* on {environmentId, transactionId, subscriberId}.                        *)
(*                                                                         *)
(* Every insert, page read and enqueue is a step of its own. A call may    *)
(* fail, and a failed insert or enqueue may have taken effect all the      *)
(* same. An API process that crashes loses its request; a broadcast task   *)
(* whose worker crashes or returns an error runs again from the beginning. *)
(*                                                                         *)
(* One environment is modelled. Subscribers are numbered in _id order.     *)
(***************************************************************************)
EXTENDS Integers, FiniteSets, SequencesExt

CONSTANTS
  Requests,       \* trigger requests, each sent once (a retry is another one)
  Workers,        \* asynq handlers that run broadcast tasks
  Txs,            \* transaction ids
  Subs,           \* subscribers: 1..N
  Founders,       \* those that exist at the start
  Topics,         \* topics
  Members,        \* [Topics -> Seq(Subs)]: the rows of topic_subscribers
  Tos,            \* the "to" lists requests carry: sequences of targets
  BatchSize,      \* broadcastBatchSize (100 in the code)
  MaxBroadcasts,  \* bound: broadcast requests
  MaxChanges,     \* bound: subscribers joining or leaving, workflow switches
  MaxFaults       \* bound: failed calls and crashes

ASSUME SubsAssumption == Subs \subseteq Nat \ {0} /\ Founders \subseteq Subs
ASSUME BatchAssumption == BatchSize \in Nat \ {0}
ASSUME BoundsAssumption == {MaxBroadcasts, MaxChanges, MaxFaults} \subseteq Nat
ASSUME TargetsAssumption == Members \in [Topics -> Seq(Subs)] /\ Tos \subseteq Seq(Topics \cup Nat)

VARIABLES
  exists,      \* the subscribers that exist
  active,      \* the workflow's isActive flag
  notifs,      \* notifications: <<tx, subscriber>>, kept unique by the index
  planned,     \* per <<tx, subscriber>>, the trigger tasks that carry it
  req,         \* the requests' handlers
  todo,        \* per request, the recipients it has not inserted yet
  queue,       \* per transaction, the broadcast tasks waiting in asynq
  job,         \* the workers
  broadcasts, changes, faults,  \* events so far
  \* history, read by no action
  recipients,  \* per request, whom it resolved to
  reached      \* <<tx, s>>: a broadcast of tx ended at the end of the audience
               \* and s was in the audience all along

world == <<exists, active>>
api == <<req, todo, recipients>>
workers == <<queue, job, reached>>
vars == <<exists, active, notifs, planned, req, todo, queue, job,
          broadcasts, changes, faults, recipients, reached>>

Pairs == Txs \X Subs
NoTx == "none"
Outcome == {"accepted", "duplicate", "error"}
Request == [at: {"new", "running"} \cup Outcome, tx: Txs \cup {NoTx}, map: SUBSET Subs]
Job == [at: {"idle", "page", "batch"}, tx: Txs \cup {NoTx}, last: Subs \cup {0},
        batch: SUBSET Subs, map: SUBSET Subs, audience: SUBSET Subs]
Idle == [at |-> "idle", tx |-> NoTx, last |-> 0, batch |-> {}, map |-> {}, audience |-> {}]

TypeOK ==
  /\ exists \subseteq Subs /\ active \in BOOLEAN
  /\ notifs \subseteq Pairs /\ planned \in [Pairs -> Nat]
  /\ req \in [Requests -> Request] /\ job \in [Workers -> Job]
  /\ queue \in [Txs -> Nat]
  /\ broadcasts \in 0..MaxBroadcasts /\ changes \in 0..MaxChanges /\ faults \in 0..MaxFaults
  /\ recipients \in [Requests -> SUBSET Subs] /\ reached \subseteq Pairs

Init ==
  /\ exists = Founders /\ active = TRUE
  /\ notifs = {} /\ planned = [p \in Pairs |-> 0]
  /\ req = [r \in Requests |-> [at |-> "new", tx |-> NoTx, map |-> {}]]
  /\ todo = [r \in Requests |-> << >>]
  /\ queue = [tx \in Txs |-> 0] /\ job = [w \in Workers |-> Idle]
  /\ broadcasts = 0 /\ changes = 0 /\ faults = 0
  /\ recipients = [r \in Requests |-> {}] /\ reached = {}

Fault == faults < MaxFaults /\ faults' = faults + 1
Change == changes < MaxChanges /\ changes' = changes + 1

\* A call takes effect, or fails; failing, it may still have taken effect.
MayFail(effect, none) == Fault /\ (effect \/ none)

\* A trigger task is enqueued for the subscribers S of a transaction.
Plan(tx, S) ==
  planned' = [p \in Pairs |-> IF p[1] = tx /\ p[2] \in S THEN planned[p] + 1 ELSE planned[p]]

-----------------------------------------------------------------------------
(* Trigger requests.                                                       *)

\* Mutant: a subscriber id is taken as it comes.
Named_Unchecked(target) == IF target \in Topics THEN Members[target] ELSE <<target>>

\* The subscribers a target names: a topic's members as their rows are stored,
\* or the subscriber itself if there is one.
Named(target) ==
  IF target \in Topics THEN Members[target]
  ELSE IF target \in exists THEN <<target>> ELSE << >>

\* Mutant: a subscriber named twice is kept twice.
Resolve_Repeats(to) == FlattenSeq([i \in DOMAIN to |-> Named(to[i])])

\* resolveRecipients: every subscriber once, in the order first named.
Resolve(to) ==
  LET named == FlattenSeq([i \in DOMAIN to |-> Named(to[i])])
      found[i \in 0..Len(named)] ==
        IF i = 0 THEN << >>
        ELSE IF Contains(found[i - 1], named[i]) THEN found[i - 1]
             ELSE Append(found[i - 1], named[i])
  IN found[Len(named)]

\* The handler ends; what it held is lost.
Answer(r, outcome) ==
  /\ req' = [req EXCEPT ![r].at = outcome, ![r].map = {}]
  /\ todo' = [todo EXCEPT ![r] = << >>]

Advance(r) == todo' = [todo EXCEPT ![r] = Tail(@)]

StartTrigger(r, tx, to) ==
  /\ req[r].at = "new"
  /\ req' = [req EXCEPT ![r] = [at |-> "running", tx |-> tx, map |-> {}]]
  /\ todo' = [todo EXCEPT ![r] = Resolve(to)]
  /\ recipients' = [recipients EXCEPT ![r] = ToSet(Resolve(to))]
  /\ UNCHANGED <<world, notifs, planned, workers, broadcasts, changes, faults>>

\* Mutant: a duplicate is skipped, as a broadcast does, and the request goes on.
InsertNext_SkipDuplicate(r) ==
  /\ req[r].at = "running" /\ todo[r] # << >>
  /\ LET p == <<req[r].tx, Head(todo[r])>>
     IN \/ /\ notifs' = notifs \cup {p}
           /\ req' = [req EXCEPT ![r].map = IF p \in notifs THEN @ ELSE @ \cup {p[2]}]
           /\ Advance(r) /\ UNCHANGED faults
        \/ /\ MayFail(notifs' = notifs \cup {p}, UNCHANGED notifs)
           /\ Answer(r, "error")
  /\ UNCHANGED <<world, planned, workers, broadcasts, changes, recipients>>

\* The next recipient's notification is inserted, unless the index has it.
InsertNext(r) ==
  /\ req[r].at = "running" /\ todo[r] # << >>
  /\ LET p == <<req[r].tx, Head(todo[r])>>
     IN \/ /\ p \notin notifs /\ notifs' = notifs \cup {p}
           /\ req' = [req EXCEPT ![r].map = @ \cup {p[2]}]
           /\ Advance(r) /\ UNCHANGED faults
        \/ p \in notifs /\ Answer(r, "duplicate") /\ UNCHANGED <<notifs, faults>>
        \/ /\ MayFail(notifs' = notifs \cup {p}, UNCHANGED notifs)
           /\ Answer(r, "error")
  /\ UNCHANGED <<world, planned, workers, broadcasts, changes, recipients>>

EnqueueTrigger(r) ==
  /\ req[r].at = "running" /\ todo[r] = << >>
  /\ \/ Plan(req[r].tx, req[r].map) /\ Answer(r, "accepted") /\ UNCHANGED faults
     \/ MayFail(Plan(req[r].tx, req[r].map), UNCHANGED planned) /\ Answer(r, "error")
  /\ UNCHANGED <<world, notifs, workers, broadcasts, changes, recipients>>

\* The API process dies: the caller gets no answer.
ApiCrash(r) ==
  /\ req[r].at = "running" /\ Fault
  /\ Answer(r, "error")
  /\ UNCHANGED <<world, notifs, planned, workers, broadcasts, changes, recipients>>

-----------------------------------------------------------------------------
(* Broadcasts.                                                             *)

Broadcast(tx) ==
  /\ broadcasts < MaxBroadcasts /\ broadcasts' = broadcasts + 1
  /\ queue' = [queue EXCEPT ![tx] = @ + 1]
  /\ UNCHANGED <<world, notifs, planned, api, job, changes, faults, reached>>

\* A worker takes the task. An inactive workflow ends it.
BeginBroadcast(w, tx) ==
  /\ job[w].at = "idle" /\ queue[tx] > 0
  /\ queue' = [queue EXCEPT ![tx] = @ - 1]
  /\ job' = IF active
            THEN [job EXCEPT ![w] = [Idle EXCEPT !.at = "page", !.tx = tx, !.audience = exists]]
            ELSE job
  /\ UNCHANGED <<world, notifs, planned, api, broadcasts, changes, faults, reached>>

\* Mutant: pages by offset, which miss a subscriber when an earlier one has left.
Page_BySkip(last) ==
  {s \in exists : LET rank == Cardinality({r \in exists : r <= s})
                  IN last < rank /\ rank <= last + BatchSize}

\* FindPageAfter: the first BatchSize subscribers whose ids are greater.
Page(last) ==
  LET after == {s \in exists : s > last}
  IN {s \in after : Cardinality({r \in after : r <= s}) <= BatchSize}

\* The end of the audience ends the task.
ReadPage(w) ==
  /\ job[w].at = "page"
  /\ LET page == Page(job[w].last)
     IN \/ /\ page = {}
           /\ job' = [job EXCEPT ![w] = Idle]
           /\ reached' = reached \cup {<<job[w].tx, s>> : s \in job[w].audience}
        \/ \E last \in page :
             /\ \A s \in page : s <= last
             /\ job' = [job EXCEPT ![w].at = "batch", ![w].batch = page,
                                   ![w].map = {}, ![w].last = last]
             /\ UNCHANGED reached
  /\ UNCHANGED <<world, notifs, planned, api, queue, broadcasts, changes, faults>>

\* Mutant: a subscriber that has a notification is put in the batch again.
InsertForNext_KeepDuplicate(w) ==
  /\ job[w].at = "batch"
  /\ \E s \in job[w].batch :
       LET p == <<job[w].tx, s>>
       IN /\ \A r \in job[w].batch : s <= r
          /\ \/ /\ notifs' = notifs \cup {p}
                /\ job' = [job EXCEPT ![w].batch = @ \ {s}, ![w].map = @ \cup {s}]
                /\ UNCHANGED faults
             \/ /\ MayFail(notifs' = notifs \cup {p}, UNCHANGED notifs)
                /\ job' = [job EXCEPT ![w].batch = @ \ {s}]
  /\ UNCHANGED <<world, planned, api, queue, broadcasts, changes, reached>>

\* The next subscriber of the page: whatever the insert's error, go on without it.
InsertForNext(w) ==
  /\ job[w].at = "batch"
  /\ \E s \in job[w].batch :
       LET p == <<job[w].tx, s>>
       IN /\ \A r \in job[w].batch : s <= r
          /\ \/ /\ p \notin notifs /\ notifs' = notifs \cup {p}
                /\ job' = [job EXCEPT ![w].batch = @ \ {s}, ![w].map = @ \cup {s}]
                /\ UNCHANGED faults
             \/ /\ p \in notifs /\ job' = [job EXCEPT ![w].batch = @ \ {s}]
                /\ UNCHANGED <<notifs, faults>>
             \/ /\ MayFail(notifs' = notifs \cup {p}, UNCHANGED notifs)
                /\ job' = [job EXCEPT ![w].batch = @ \ {s}]
  /\ UNCHANGED <<world, planned, api, queue, broadcasts, changes, reached>>

\* Mutant: a page without new subscribers is read again.
EndBatch_SamePage(w) ==
  /\ job[w].at = "batch" /\ job[w].batch = {}
  /\ \/ /\ Plan(job[w].tx, job[w].map)
        /\ job' = [job EXCEPT ![w].at = "page",
                              ![w].last = IF job[w].map = {} THEN 0 ELSE @, ![w].map = {}]
        /\ UNCHANGED <<queue, faults>>
     \/ /\ job[w].map # {}
        /\ MayFail(Plan(job[w].tx, job[w].map), UNCHANGED planned)
        /\ job' = [job EXCEPT ![w] = Idle]
        /\ queue' = [queue EXCEPT ![job[w].tx] = @ + 1]
  /\ UNCHANGED <<world, notifs, api, broadcasts, changes, reached>>

\* One trigger task for the page's new notifications, if any; an error ends the
\* handler, and asynq runs the broadcast again.
EndBatch(w) ==
  /\ job[w].at = "batch" /\ job[w].batch = {}
  /\ \/ /\ Plan(job[w].tx, job[w].map)
        /\ job' = [job EXCEPT ![w].at = "page", ![w].map = {}]
        /\ UNCHANGED <<queue, faults>>
     \/ /\ job[w].map # {}
        /\ MayFail(Plan(job[w].tx, job[w].map), UNCHANGED planned)
        /\ job' = [job EXCEPT ![w] = Idle]
        /\ queue' = [queue EXCEPT ![job[w].tx] = @ + 1]
  /\ UNCHANGED <<world, notifs, api, broadcasts, changes, reached>>

\* The worker crashes, or a page cannot be read.
Rerun(w) ==
  /\ job[w].at # "idle" /\ Fault
  /\ job' = [job EXCEPT ![w] = Idle]
  /\ queue' = [queue EXCEPT ![job[w].tx] = @ + 1]
  /\ UNCHANGED <<world, notifs, planned, api, broadcasts, changes, reached>>

-----------------------------------------------------------------------------
(* Around them.                                                            *)

Join(s) ==
  /\ s \notin exists /\ Change
  /\ exists' = exists \cup {s}
  /\ UNCHANGED <<active, notifs, planned, api, workers, broadcasts, faults>>

\* A subscriber is deleted: it is in no running broadcast's audience any more.
Leave(s) ==
  /\ s \in exists /\ Change
  /\ exists' = exists \ {s}
  /\ job' = [w \in Workers |-> [job[w] EXCEPT !.audience = @ \ {s}]]
  /\ UNCHANGED <<active, notifs, planned, api, queue, reached, broadcasts, faults>>

SetActive ==
  /\ Change
  /\ active' = ~active
  /\ UNCHANGED <<exists, notifs, planned, api, workers, broadcasts, faults>>

HandleTrigger(r) == InsertNext(r) \/ EnqueueTrigger(r)
HandleBroadcast(w) ==
  (\E tx \in Txs : BeginBroadcast(w, tx)) \/ ReadPage(w) \/ InsertForNext(w) \/ EndBatch(w)

Next ==
  \/ \E r \in Requests : \/ \E tx \in Txs, to \in Tos : StartTrigger(r, tx, to)
                         \/ HandleTrigger(r)
                         \/ ApiCrash(r)
  \/ \E tx \in Txs : Broadcast(tx)
  \/ \E w \in Workers : HandleBroadcast(w) \/ Rerun(w)
  \/ \E s \in Subs : Join(s) \/ Leave(s)
  \/ SetActive

Spec == Init /\ [][Next]_vars

(* asynq keeps handing out tasks and its handlers go on. Nothing is        *)
(* assumed of the requests, the callers or the faults.                     *)
Fairness == WF_vars(\E w \in Workers : HandleBroadcast(w))

FairSpec == Spec /\ Fairness

-----------------------------------------------------------------------------
(* Properties.                                                             *)

\* No subscriber is in two trigger tasks of one transaction, whatever requests
\* and broadcasts share it, fail or run again (CHANGELOG.md, "Double-delivery
\* window": the unique index alone enforces it).
DispatchedOnce == \A p \in Pairs : planned[p] <= 1

\* The abstract specification of the same promise: each enqueued batch is a batch
\* of subscribers none of which was dispatched before.
D == INSTANCE Dispatch WITH Txs <- Txs, Subs <- Subs, planned <- planned
ImplementsDispatch == D!Spec

\* A caller that was told 201 has every recipient of its request in a trigger task
\* (trigger_service.go: the answer lists their notification ids).
AcceptedIsDispatched ==
  \A r \in Requests : req[r].at = "accepted" =>
    \A s \in recipients[r] : planned[<<req[r].tx, s>>] = 1

\* A request is refused as a duplicate only because another request or a broadcast
\* used its transaction id, never because it names a subscriber twice (once itself
\* and once through a topic).
DuplicateHasRival ==
  \A r \in Requests : req[r].at = "duplicate" =>
    \/ \E q \in Requests \ {r} : req[q].tx = req[r].tx
    \/ broadcasts > 0

\* Who holds a notification of this pair that is not in a trigger task yet.
Held(p) == \E w \in Workers : job[w].tx = p[1] /\ p[2] \in job[w].map

\* Without faults and without trigger requests of the same transaction, a broadcast
\* that ends has reached everyone who was a subscriber all along: they are in a
\* trigger task, or about to be by a second broadcast of that transaction.
BroadcastReachesAll ==
  \A p \in reached :
    faults = 0 /\ (\A r \in Requests : req[r].tx # p[1]) => planned[p] = 1 \/ Held(p)

\* Broadcasts come to an end: they neither read the same page forever nor feed
\* themselves through asynq.
BroadcastsEnd ==
  <>[]((\A tx \in Txs : queue[tx] = 0) /\ (\A w \in Workers : job[w].at = "idle"))

\* "Already processed -- skip this subscriber (idempotent re-run)": a broadcast
\* passes over a subscriber whose notification exists only if that notification is
\* in a trigger task, or another handler is about to put it there
\* (broadcast_handler.go, on a duplicate key).
RerunIsIdempotent ==
  [][\A w \in Workers : \A s \in job[w].batch :
       LET p == <<job[w].tx, s>>
           passed == job'[w].batch = job[w].batch \ {s} /\ s \notin job'[w].map
       IN passed /\ faults' = faults => planned[p] = 1 \/ Held(p)]_vars

=============================================================================
