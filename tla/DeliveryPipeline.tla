-------------------------- MODULE DeliveryPipeline --------------------------
(***************************************************************************)
(* The worker binary's pipeline: a trigger task is planned into delivery,  *)
(* delay and digest work for each notification of its batch, and every     *)
(* delivery task goes through the rate limiter, the preference check, the  *)
(* channel's integration and the provider, and ends by recording a status  *)
(* on the notification document.                                           *)
(*                                                                         *)
(* One workflow of one environment is modelled. Several workers run tasks  *)
(* at the same time; each database or provider call of the delivery        *)
(* handler is a step of its own, so that preference changes, workflow      *)
(* edits and worker crashes fall between any two of them.                  *)
(*                                                                         *)
(* asynq is external. It is modelled by what the code relies on: a task    *)
(* handed to a worker leaves the queue, a handler that returns nil ends    *)
(* it, one that returns SkipRetry archives it, and a worker that crashes   *)
(* or returns an error gives it back to run again from its beginning.      *)
(* Delayed tasks (ProcessIn) are ordinary tasks: any amount of time may    *)
(* pass before a worker takes them.                                        *)
(*                                                                         *)
(* Steps are numbered from 1 here and from 0 in the code.                  *)
(***************************************************************************)
EXTENDS Integers, Sequences, FiniteSets

CONSTANTS
  Notifs,        \* notification documents triggers may create
  Directs,       \* transactional sends of TemplateService.Send
  Subs,          \* subscribers
  SubOf,         \* [Notifs \cup Directs -> Subs]
  Channels,      \* delivery-side channel names
  Limited,       \* the channels RATE_LIMIT_CONFIG names
  MaxPerWindow,  \* their maxPerWindow
  DefaultOn,     \* the channels the workflow's preferenceDefaults enable
  Conds,         \* step conditions
  Workflows,     \* versions of the workflow's steps
  MaxSteps,      \* bound on their length
  MaxRetries,    \* worker.MaxRetries (3 in the code)
  Workers,       \* concurrent asynq handlers
  MaxEvents,     \* bound: faults (crashes, failed calls), changes around the
                 \* pipeline (limiter windows, conditions, integrations) and
                 \* workflow edits, together
  MaxWrites      \* bound: preference requests

Idx == 1..MaxSteps
Control == {"delay", "digest"}
Step == [type: Channels \cup Control, enabled: BOOLEAN,
         conds: SUBSET Conds, configured: BOOLEAN]

ASSUME SubOfAssumption == SubOf \in [Notifs \cup Directs -> Subs]
ASSUME ChannelsAssumption ==
  /\ Channels \cap Control = {} /\ "none" \notin Channels
  /\ Limited \subseteq Channels /\ DefaultOn \subseteq Channels
ASSUME BoundsAssumption ==
  /\ MaxSteps \in Nat /\ MaxRetries \in Nat /\ MaxPerWindow \in Nat
  /\ MaxEvents \in Nat /\ MaxWrites \in Nat
ASSUME WorkflowsAssumption ==
  \A s \in Workflows : s \in Seq(Step) /\ Len(s) <= MaxSteps
ASSUME DisjointAssumption == Notifs \cap Directs = {}

VARIABLES
  \* documents
  steps,         \* the workflow's current steps
  active,        \* its isActive flag
  created,       \* the notifications and transactional sends accepted so far
  rows,          \* per notification, the "channels" array: one row per step
  holds,         \* per notification, the conditions that are true right now
  wfPref,        \* per subscriber and channel, the workflow preference row
  globalPref,    \* per subscriber and channel, the global opt-out mask
  writes,        \* the number of preference requests so far
  upserts,       \* the requests between their read of the rows and their write
  integrations,  \* the channels with a usable integration
  count,         \* rateLimits: per subscriber and channel, current window
  \* Redis
  queue,         \* per task, the number of copies waiting in asynq
  archived,      \* the tasks asynq dead-lettered
  window,        \* <<notification, digest step>> pairs waiting in a digest
  \* workers
  run,           \* per worker, the task it runs and how far it got
  \* history, read by no action
  fired,         \* <<notification, control step>> pairs whose wait is over
  accepted,      \* <<notification, channel>> pairs a provider took
  sends,         \* per notification and step, provider calls
  launched,      \* per notification and step, tasks enqueued or redelivered
  used,          \* per subscriber and channel, provider calls this window
  failOpen,      \* per subscriber and channel, limiter errors this window
  \* events so far, by kind
  faults, changes, edits

preferences == <<wfPref, globalPref, writes, upserts>>
documents == <<steps, active, created, rows, holds, preferences, integrations>>
limiter == <<count, used, failOpen>>
history == <<fired, accepted, sends, launched>>
events == <<faults, changes, edits>>
vars == <<steps, active, created, rows, holds, wfPref, globalPref, writes,
          upserts, integrations, count, queue, archived, window, run, fired, accepted, sends, launched,
          used, failOpen, faults, changes, edits>>

-----------------------------------------------------------------------------
(* Types.                                                                  *)

Targets == (Notifs \X Idx) \cup (Directs \X {0})
Key == Subs \X Channels
Status == {"pending", "sent", "failed", "skipped"}
NoRow == [channel |-> "none", status |-> "pending"]
Row == [channel: Channels, status: Status] \cup {NoRow}

TriggerTask == [kind: {"trigger"}, batch: SUBSET Notifs]
DelayTask == [kind: {"delay"}, n: Notifs, i: Idx]
DeliveryTask == [kind: {"delivery"}, target: Targets, channel: Channels,
                 attempt: 0..MaxRetries]
Task == TriggerTask \cup DelayTask \cup DeliveryTask
NoTask == [kind |-> "none"]

(* A request to change a workflow row: the channel it names, and the rows  *)
(* of its subscriber as the handler read them, per channel.                *)
Upsert == [id: Nat, key: Key, on: BOOLEAN,
           row: [Channels -> {"none", "on", "off"}], mask: [Channels -> BOOLEAN]]

(* Where a worker is: it has loaded its task ("begun"), passed the rate    *)
(* limiter ("limited"), found no workflow preference ("inheriting"),       *)
(* passed the preferences ("checked"), has a status to write ("record") or *)
(* a retry to enqueue ("retry"), or only has to return nil ("ack").        *)
Phase == {"idle", "begun", "limited", "inheriting", "checked", "record", "retry", "ack"}
Job == [at: Phase, task: Task \cup {NoTask}, steps: Workflows \cup {<< >>},
        result: Status, consent: BOOLEAN, fresh: BOOLEAN]
Idle == [at |-> "idle", task |-> NoTask, steps |-> << >>,
         result |-> "pending", consent |-> FALSE, fresh |-> FALSE]

TypeOK ==
  /\ steps \in Workflows /\ active \in BOOLEAN
  /\ created \subseteq Notifs \cup Directs
  /\ rows \in [Notifs -> [Idx -> Row]]
  /\ holds \in [Notifs -> SUBSET Conds]
  /\ wfPref \in [Key -> {"none", "on", "off"}]
  /\ globalPref \in [Key -> BOOLEAN] /\ writes \in Nat /\ upserts \subseteq Upsert
  /\ integrations \subseteq Channels
  /\ count \in [Key -> Nat] /\ used \in [Key -> Nat] /\ failOpen \in [Key -> Nat]
  /\ queue \in [Task -> Nat] /\ archived \subseteq Task
  /\ window \subseteq Notifs \X Idx
  /\ run \in [Workers -> Job]
  /\ fired \subseteq Notifs \X Idx
  /\ accepted \subseteq (Notifs \cup Directs) \X Channels
  /\ sends \in [Targets -> Nat] /\ launched \in [Targets -> Nat]
  /\ faults \in Nat /\ changes \in Nat /\ edits \in Nat


-----------------------------------------------------------------------------
(* Planning.                                                               *)

IsControl(step) == step.type \in Control

\* The steps EvaluateWorkflow does not mark as skipped.
Planned(n, ss) == {i \in DOMAIN ss : ss[i].enabled /\ ss[i].conds \subseteq holds[n]}

\* The planned control steps that can wait: the first one ends the planning.
Barriers(n, ss) == {i \in Planned(n, ss) : IsControl(ss[i]) /\ ss[i].configured}

\* Mutant: without the break out of stepLoop, later steps are planned as well.
Reached_NoBreak(n, ss) == {i \in Planned(n, ss) : IsControl(ss[i]) => ss[i].configured}

\* The steps the trigger handler acts on: the planned channel steps before the
\* first barrier, and that barrier. An unconfigured control step is ignored.
Reached(n, ss) ==
  {i \in Planned(n, ss) : /\ IsControl(ss[i]) => ss[i].configured
                          /\ \A j \in Barriers(n, ss) : j >= i}

\* enqueueFollowingDeliveries: the channel steps after a control step that
\* fired, up to the next control step. Neither the conditions nor the
\* defaultEnabled flag of those steps are read.
Following(ss, from) ==
  {i \in DOMAIN ss : i > from /\ \A j \in DOMAIN ss : from < j /\ j <= i => ~IsControl(ss[j])}

Delivery(p, c, a) == [kind |-> "delivery", target |-> p, channel |-> c, attempt |-> a]
Delay(p) == [kind |-> "delay", n |-> p[1], i |-> p[2]]
Trigger(batch) == [kind |-> "trigger", batch |-> batch]

\* The tasks that stand for a set of <<notification, step>> pairs in asynq; a
\* digest step joins its window instead.
TasksOf(done, ss) ==
  {IF ss[p[2]].type = "delay" THEN Delay(p) ELSE Delivery(p, ss[p[2]].type, 0) :
     p \in {q \in done : ss[q[2]].type # "digest"}}

Enqueue(tasks) == queue' = [t \in Task |-> IF t \in tasks THEN queue[t] + 1 ELSE queue[t]]
Launch(targets) ==
  launched' = [p \in Targets |-> IF p \in targets THEN launched[p] + 1 ELSE launched[p]]

\* Within the bound, one more event of a kind.
MayHappen == faults + changes + edits < MaxEvents
Fault == MayHappen /\ faults' = faults + 1
Change == MayHappen /\ changes' = changes + 1
Write == writes < MaxWrites /\ writes' = writes + 1

\* Of a set of independent calls whose errors are only logged, those that succeed.
Succeed(all, done) ==
  \/ done = all /\ UNCHANGED faults
  \/ done # all /\ Fault

-----------------------------------------------------------------------------
(* The delivery handler's view of its task.                                *)

IsDirect(t) == t.target[1] \in Directs
KeyOf(t) == <<SubOf[t.target[1]], t.channel>>
Delivering(w, phase) == run[w].at = phase /\ run[w].task.kind = "delivery"

Goto(w, phase) == run' = [run EXCEPT ![w].at = phase]

\* Mutant: a skipped delivery is logged, its row is not written.
Settle_LogOnly(w, status) ==
  run' = [run EXCEPT ![w].at = IF status = "skipped" THEN "ack" ELSE "record", ![w].result = status]

\* An outcome to write to the notification document.
Settle(w, status) == run' = [run EXCEPT ![w].at = "record", ![w].result = status]
Finish(w) == run' = [run EXCEPT ![w] = Idle]

\* asynq.SkipRetry: the task is dead-lettered.
Archive(w) == archived' = archived \cup {run[w].task} /\ Finish(w)

\* Mutant: the filter does not name the channel, and the first row is updated.
WithStatus_FirstRow(r, c, s) ==
  [k \in Idx |-> IF r[k] # NoRow /\ \A j \in 1..(k - 1) : r[j] = NoRow
                 THEN [r[k] EXCEPT !.status = s] ELSE r[k]]

\* UpdateChannelStatus: "channels.$" is the first row of the channel.
WithStatus(r, c, s) ==
  [k \in Idx |-> IF r[k].channel = c /\ \A j \in 1..(k - 1) : r[j].channel # c
                 THEN [channel |-> c, status |-> s] ELSE r[k]]

\* Mutant: control steps get a row as well.
PendingRows_AllSteps(ss) ==
  [k \in Idx |-> IF k \in DOMAIN ss THEN [channel |-> ss[k].type, status |-> "pending"] ELSE NoRow]

\* BuildChannelDeliveries: a pending row per channel step, enabled or not.
PendingRows(ss) ==
  [k \in Idx |-> IF k \in DOMAIN ss /\ ~IsControl(ss[k])
                 THEN [channel |-> ss[k].type, status |-> "pending"] ELSE NoRow]

\* ResolveChannelPrefs: a workflow row wins outright; without one the global
\* mask filters the workflow's defaults.
Resolve(row, mask, c) ==
  CASE row = "on" -> TRUE
    [] row = "off" -> FALSE
    [] OTHER -> c \in DefaultOn /\ mask

Effective(k) == Resolve(wfPref[k], globalPref[k], k[2])

-----------------------------------------------------------------------------
Init ==
  /\ steps \in Workflows /\ active = TRUE
  /\ created = {} /\ rows = [n \in Notifs |-> [k \in Idx |-> NoRow]]
  /\ holds \in [Notifs -> SUBSET Conds]
  /\ wfPref = [k \in Key |-> "none"] /\ globalPref = [k \in Key |-> TRUE]
  /\ writes = 0 /\ upserts = {}
  /\ integrations = Channels
  /\ count = [k \in Key |-> 0]
  /\ queue = [t \in Task |-> 0] /\ archived = {} /\ window = {}
  /\ run = [w \in Workers |-> Idle]
  /\ fired = {} /\ accepted = {}
  /\ sends = [p \in Targets |-> 0] /\ launched = [p \in Targets |-> 0]
  /\ used = [k \in Key |-> 0] /\ failOpen = [k \in Key |-> 0]
  /\ faults = 0 /\ changes = 0 /\ edits = 0

-----------------------------------------------------------------------------
(* The API binary.                                                         *)

\* TriggerService.Trigger, when every call of it succeeds.
AcceptTrigger(batch) ==
  /\ batch # {} /\ batch \cap created = {}
  /\ created' = created \cup batch
  /\ rows' = [n \in Notifs |-> IF n \in batch THEN PendingRows(steps) ELSE rows[n]]
  /\ Enqueue({Trigger(batch)})
  /\ UNCHANGED <<steps, active, holds, preferences, integrations, limiter, archived,
                 window, run, history, events>>

\* TemplateService.Send.
AcceptDirect(d, c) ==
  /\ d \notin created
  /\ created' = created \cup {d}
  /\ Enqueue({Delivery(<<d, 0>>, c, 0)})
  /\ Launch({<<d, 0>>})
  /\ UNCHANGED <<steps, active, rows, holds, preferences, integrations, limiter,
                 archived, window, run, fired, accepted, sends, events>>

-----------------------------------------------------------------------------
(* The trigger, delay and digest handlers.                                 *)

\* A worker takes a task and loads the documents it needs. An inactive workflow
\* ends a trigger task; the other handlers do not read the flag. A transactional
\* send skips the limiter and the preferences.
Begin(w, t) ==
  /\ run[w].at = "idle" /\ queue[t] > 0
  /\ queue' = [queue EXCEPT ![t] = @ - 1]
  /\ run' = [run EXCEPT ![w] =
       [at |-> CASE t.kind = "trigger" /\ ~active -> "ack"
                 [] t.kind = "delivery" /\ t.target[1] \in Directs -> "checked"
                 [] OTHER -> "begun",
        task |-> t, steps |-> steps, result |-> "pending",
        consent |-> t.kind = "delivery" /\ Effective(KeyOf(t)), fresh |-> FALSE]]
  /\ UNCHANGED <<documents, limiter, archived, window, history, events>>

RunTrigger(w) ==
  /\ run[w].at = "begun" /\ run[w].task.kind = "trigger"
  /\ LET ss == run[w].steps
         all == {p \in run[w].task.batch \X Idx : p[2] \in Reached(p[1], ss)}
     IN \E done \in SUBSET all :
          /\ Succeed(all, done)
          /\ Enqueue(TasksOf(done, ss))
          /\ Launch({p \in done : ~IsControl(ss[p[2]])})
          /\ window' = window \cup {p \in done : ss[p[2]].type = "digest"}
  /\ Goto(w, "ack")
  /\ UNCHANGED <<documents, limiter, archived, fired, accepted, sends, changes, edits>>

\* The deliveries that resume notification n after control step i.
Resume(n, i, ss) ==
  LET all == {<<n, j>> : j \in Following(ss, i)}
  IN \E done \in SUBSET all :
       /\ Succeed(all, done)
       /\ Enqueue(TasksOf(done, ss))
       /\ Launch(done)

RunDelay(w) ==
  /\ run[w].at = "begun" /\ run[w].task.kind = "delay"
  /\ LET n == run[w].task.n
         i == run[w].task.i
     IN Resume(n, i, run[w].steps) /\ fired' = fired \cup {<<n, i>>}
  /\ Goto(w, "ack")
  /\ UNCHANGED <<documents, limiter, archived, window, accepted, sends, changes, edits>>

\* A digest window closes (as in Digest): every notification waiting for subscriber
\* s at step i is taken out, and one of those that were read goes on as the
\* representative. Those pushed between the handler's LRANGE and its DEL are not read.
RunDigest(s, i) ==
  LET waiting == {p \in window : p[2] = i /\ SubOf[p[1]] = s}
  IN \E read \in SUBSET waiting :
     /\ window' = window \ waiting
     /\ fired' = fired \cup read
     /\ \E p \in read : Resume(p[1], i, steps)
     /\ UNCHANGED <<documents, limiter, archived, run, accepted, sends, changes, edits>>

-----------------------------------------------------------------------------
(* The delivery handler.                                                   *)

\* Mutant: the counter is compared as it was before the increment.
Exceeded_Before(k) == count[k] > MaxPerWindow

\* IncrementAndCheck returns whether the incremented counter is over the limit.
Exceeded(k) == count[k] + 1 > MaxPerWindow

CheckRate(w) ==
  /\ Delivering(w, "begun")
  /\ LET k == KeyOf(run[w].task)
     IN \/ /\ k[2] \notin Limited
           /\ Goto(w, "limited")
           /\ UNCHANGED <<limiter, faults>>
        \/ /\ k[2] \in Limited
           /\ count' = [count EXCEPT ![k] = @ + 1]
           /\ IF Exceeded(k) THEN Settle(w, "skipped")
              ELSE run' = [run EXCEPT ![w].at = "limited", ![w].fresh = TRUE]
           /\ UNCHANGED <<used, failOpen, faults>>
        \/ /\ k[2] \in Limited /\ Fault
           /\ failOpen' = [failOpen EXCEPT ![k] = @ + 1]
           /\ run' = [run EXCEPT ![w].at = "limited", ![w].fresh = TRUE]
           /\ UNCHANGED <<count, used>>
  /\ UNCHANGED <<documents, queue, archived, window, history, changes, edits>>

\* The outcome of the preference check.
Decide(w, on) == IF on THEN Goto(w, "checked") ELSE Settle(w, "skipped")

\* The workflow's row is read first. An error reading it is ignored and counts as
\* not having it; the job notes that it may now pass without consent.
ReadWorkflowPref(w) ==
  /\ Delivering(w, "limited")
  /\ LET row == wfPref[KeyOf(run[w].task)]
     IN \/ /\ IF row = "none" THEN Goto(w, "inheriting") ELSE Decide(w, row = "on")
           /\ UNCHANGED faults
        \/ Fault /\ run' = [run EXCEPT ![w].at = "inheriting", ![w].consent = TRUE]
  /\ UNCHANGED <<documents, limiter, queue, archived, window, history, changes, edits>>

\* The global row is read next, and only matters without a workflow row. Not
\* having it, or an error reading it, leaves the workflow's defaults.
ReadGlobalPref(w) ==
  /\ Delivering(w, "inheriting")
  /\ LET k == KeyOf(run[w].task)
     IN \/ Decide(w, Resolve("none", globalPref[k], k[2])) /\ UNCHANGED faults
        \/ /\ Fault
           /\ IF Resolve("none", TRUE, k[2])
              THEN run' = [run EXCEPT ![w].at = "checked", ![w].consent = TRUE]
              ELSE Settle(w, "skipped")
  /\ UNCHANGED <<documents, limiter, queue, archived, window, history, changes, edits>>

\* recipientForChannel fails: no address, or a channel that has none.
NoRecipient(w) ==
  /\ Delivering(w, "checked") /\ IsDirect(run[w].task)
  /\ Archive(w)
  /\ UNCHANGED <<documents, limiter, queue, window, history, events>>

NoIntegration(w) ==
  /\ Delivering(w, "checked")
  /\ LET t == run[w].task
     IN /\ t.channel # "in_app" /\ t.channel \notin integrations
        /\ IF IsDirect(t) THEN Archive(w) ELSE Settle(w, "failed") /\ UNCHANGED archived
  /\ UNCHANGED <<documents, limiter, queue, window, history, events>>

\* The handler can go as far as the provider: in_app needs no integration, and
\* a transactional send needs a channel with a recipient.
Sendable(w) ==
  LET t == run[w].task
  IN /\ Delivering(w, "checked")
     /\ t.channel \in integrations \/ t.channel = "in_app"
     /\ IsDirect(t) => t.channel \notin {"in_app", "push"}

\* stepAt: the workflow was edited and has no such step any more.
StepGone(w) ==
  /\ Sendable(w) /\ ~IsDirect(run[w].task)
  /\ run[w].task.target[2] \notin DOMAIN run[w].steps
  /\ Archive(w)
  /\ UNCHANGED <<documents, limiter, queue, window, history, events>>

\* The provider is called. A push call stands for the calls to all the tokens of
\* the subscriber: it is accepted if one of them is.
Call(w) ==
  LET t == run[w].task
  IN /\ Sendable(w)
     /\ IsDirect(t) \/ t.target[2] \in DOMAIN run[w].steps
     /\ sends' = [sends EXCEPT ![t.target] = @ + 1]
     /\ used' = IF run[w].fresh THEN [used EXCEPT ![KeyOf(t)] = @ + 1] ELSE used
     /\ UNCHANGED <<documents, count, failOpen, queue, window, fired, launched, changes, edits>>

\* It takes the message; for in_app that is the rendered content reaching the
\* notification document, whose failure is only logged.
Accepted(w) ==
  LET t == run[w].task
  IN /\ Call(w)
     /\ \/ accepted' = accepted \cup {<<t.target[1], t.channel>>} /\ UNCHANGED faults
        \/ t.channel = "in_app" /\ Fault /\ UNCHANGED accepted
     /\ IF IsDirect(t) THEN Goto(w, "ack") ELSE Settle(w, "sent")
     /\ UNCHANGED archived

\* It refuses: a retry while attempts remain, except for push.
Rejected(w) ==
  LET t == run[w].task
  IN /\ Call(w) /\ t.channel # "in_app"
     /\ IF t.channel # "push" /\ t.attempt < MaxRetries
        THEN Goto(w, "retry") /\ UNCHANGED archived
        ELSE IF IsDirect(t) THEN Archive(w) ELSE Settle(w, "failed") /\ UNCHANGED archived
     /\ UNCHANGED <<accepted, faults>>

\* Mutant: the incremented attempt is not carried into the retry.
NextAttempt_Same(a) == a

\* nextRetryDelay.
NextAttempt(a) == a + 1

\* scheduleRetry ignores the error of Enqueue.
ScheduleRetry(w) ==
  /\ run[w].at = "retry"
  /\ LET t == run[w].task
     IN \/ Enqueue({Delivery(t.target, t.channel, NextAttempt(t.attempt))}) /\ UNCHANGED faults
        \/ Fault /\ UNCHANGED queue
  /\ Goto(w, "ack")
  /\ UNCHANGED <<documents, limiter, archived, window, history, changes, edits>>

\* The status write, whose error is ignored.
Record(w) ==
  /\ run[w].at = "record"
  /\ LET t == run[w].task
         n == t.target[1]
     IN \/ /\ rows' = [rows EXCEPT ![n] = WithStatus(@, t.channel, run[w].result)]
           /\ UNCHANGED faults
        \/ Fault /\ UNCHANGED rows
  /\ Goto(w, "ack")
  /\ UNCHANGED <<steps, active, created, holds, preferences, integrations, limiter, queue,
                 archived, window, history, changes, edits>>

\* Mutant: an inactive workflow is an error, and asynq runs the task again.
Ack_InactiveIsError(w) ==
  /\ run[w].at = "ack"
  /\ LET t == run[w].task
     IN queue' = IF t.kind = "trigger" /\ ~active THEN [queue EXCEPT ![t] = @ + 1] ELSE queue
  /\ Finish(w)
  /\ UNCHANGED <<documents, limiter, archived, window, history, events>>

\* The handler returns nil.
Ack(w) ==
  /\ run[w].at = "ack"
  /\ Finish(w)
  /\ UNCHANGED <<documents, limiter, queue, archived, window, history, events>>

\* The worker crashes, or the handler returns an error: the task runs again.
Redeliver(w) ==
  /\ run[w].at # "idle" /\ Fault
  /\ LET t == run[w].task
     IN /\ queue' = [queue EXCEPT ![t] = @ + 1]
        /\ IF t.kind = "delivery" THEN Launch({t.target}) ELSE UNCHANGED launched
  /\ Finish(w)
  /\ UNCHANGED <<documents, limiter, archived, window, fired, accepted, sends, changes, edits>>

-----------------------------------------------------------------------------
(* What changes around the pipeline.                                       *)

\* The limiter's next window: a counter document of its own.
NextWindow ==
  /\ Change
  /\ count' = [k \in Key |-> 0] /\ used' = [k \in Key |-> 0] /\ failOpen' = [k \in Key |-> 0]
  /\ run' = [w \in Workers |-> [run[w] EXCEPT !.fresh = FALSE]]
  /\ UNCHANGED <<documents, queue, archived, window, history, faults, edits>>

\* The workers that run a delivery on one of the keys note that it was switched on.
Ask(keys) ==
  run' = [w \in Workers |->
    [run[w] EXCEPT !.consent =
       @ \/ (run[w].task.kind = "delivery" /\ KeyOf(run[w].task) \in keys)]]

OnOff(on) == IF on THEN "on" ELSE "off"

\* UpdateWorkflow, naming one channel: both rows of the subscriber are read.
ReadForWorkflow(k, on) ==
  /\ Write
  /\ upserts' = upserts \cup
       {[id |-> writes', key |-> k, on |-> on, row |-> [c \in Channels |-> wfPref[<<k[1], c>>]],
         mask |-> [c \in Channels |-> globalPref[<<k[1], c>>]]]}
  /\ UNCHANGED <<steps, active, created, rows, holds, wfPref, globalPref, integrations, limiter,
                 queue, archived, window, run, history, events>>

\* Mutant: the channels that are not named are seeded as enabled.
Seed_AllOn(u, c) == TRUE

\* What a new row gets for a channel that is not named: what the rows that were
\* read resolve to.
Seed(u, c) == Resolve(u.row[c], u.mask[c], c)

\* The keys of an upsert's subscriber that it inserts with the seed.
Seeded(u) == {k \in Key : k # u.key /\ k[1] = u.key[1] /\ wfPref[k] = "none"}

\* The rows changed since the request read them.
Stale(u) == \E c \in Channels : \/ u.row[c] # wfPref[<<u.key[1], c>>]
                                \/ u.mask[c] # globalPref[<<u.key[1], c>>]

\* Its upsert: the named channel is written and the others only if there is no row
\* yet. A seed that was overtaken may switch on what nobody asked for; the jobs
\* note it.
WriteWorkflowPref(u) ==
  /\ upserts' = upserts \ {u}
  /\ wfPref' = [k \in Key |-> CASE k = u.key -> OnOff(u.on)
                                [] k \in Seeded(u) -> OnOff(Seed(u, k[2]))
                                [] OTHER -> wfPref[k]]
  /\ Ask({k \in Key : \/ k = u.key /\ u.on
                      \/ k \in Seeded(u) /\ Stale(u) /\ Seed(u, k[2])})
  /\ UNCHANGED <<steps, active, created, rows, holds, globalPref, writes, integrations, limiter,
                 queue, archived, window, history, events>>

\* UpdateGlobal, naming one channel: the seed is the mask that allows everything,
\* and so is a mask that is not stored. A write that changes nothing is left out.
SetGlobalPref(k, on) ==
  /\ globalPref[k] # on /\ Write
  /\ globalPref' = [globalPref EXCEPT ![k] = on]
  /\ Ask(IF on THEN {k} ELSE {})
  /\ UNCHANGED <<steps, active, created, rows, holds, wfPref, upserts, integrations, limiter,
                 queue, archived, window, history, events>>

\* The subscriber's data, or a seen or read mark, changes a condition's outcome.
ConditionChanges(n, c) ==
  /\ Change
  /\ holds' = [holds EXCEPT ![n] = IF c \in @ THEN @ \ {c} ELSE @ \cup {c}]
  /\ UNCHANGED <<steps, active, created, rows, preferences, integrations, limiter, queue,
                 archived, window, run, history, faults, edits>>

SetIntegration(c) ==
  /\ Change
  /\ integrations' = IF c \in integrations THEN integrations \ {c} ELSE integrations \cup {c}
  /\ UNCHANGED <<steps, active, created, rows, holds, preferences, limiter, queue, archived,
                 window, run, history, faults, edits>>

EditWorkflow(ss, a) ==
  /\ MayHappen /\ edits' = edits + 1
  /\ steps' = ss /\ active' = a
  /\ UNCHANGED <<created, rows, holds, preferences, integrations, limiter, queue, archived,
                 window, run, history, faults, changes>>

-----------------------------------------------------------------------------
Api ==
  \/ \E batch \in SUBSET Notifs : AcceptTrigger(batch)
  \/ \E d \in Directs, c \in Channels : AcceptDirect(d, c)

Handle(w) ==
  \/ RunTrigger(w) \/ RunDelay(w)
  \/ CheckRate(w) \/ ReadWorkflowPref(w) \/ ReadGlobalPref(w)
  \/ NoRecipient(w) \/ NoIntegration(w) \/ StepGone(w)
  \/ Accepted(w) \/ Rejected(w)
  \/ ScheduleRetry(w) \/ Record(w) \/ Ack(w)

Environment ==
  \/ NextWindow
  \/ \E k \in Key, on \in BOOLEAN : ReadForWorkflow(k, on) \/ SetGlobalPref(k, on)
  \/ \E u \in upserts : WriteWorkflowPref(u)
  \/ \E n \in Notifs, c \in Conds : ConditionChanges(n, c)
  \/ \E c \in Channels \ {"in_app"} : SetIntegration(c)
  \/ \E ss \in Workflows, a \in BOOLEAN : EditWorkflow(ss, a)

Next ==
  \/ Api
  \/ \E w \in Workers : \/ \E t \in Task : Begin(w, t)
                        \/ Handle(w)
                        \/ Redeliver(w)
  \/ \E s \in Subs, i \in Idx : RunDigest(s, i)
  \/ Environment

Spec == Init /\ [][Next]_vars

(* asynq keeps handing out tasks, handlers run to their end and digest     *)
(* windows close. Nothing makes a user, an administrator or a fault act.   *)
Fairness ==
  /\ \A w \in Workers : WF_vars(\E t \in Task : Begin(w, t)) /\ WF_vars(Handle(w))
  /\ \A s \in Subs, i \in Idx : WF_vars(RunDigest(s, i))

FairSpec == Spec /\ Fairness

-----------------------------------------------------------------------------
(* Properties.                                                             *)

\* An opt-out that a worker could have seen is respected: a worker about to send
\* a notification on a channel (delivery_handler.go after its preference check)
\* runs a task during which the channel was on at some moment or the subscriber
\* asked for it, in the workflow's row or globally, however long ago the
\* notification was triggered and however often it was retried. The two rows are
\* read one after the other, so what they show together may never have been in
\* force; without a word of the subscriber in between it was. There are two ways
\* around it, which the job notes: an error reading a row, which the handler passes
\* over, and the first write of a workflow row that names another channel and whose
\* seed was resolved before the opt-out (preference_handler.go), which stores the
\* channel as on although nobody asked for it.
OptOutRespected ==
  \A w \in Workers :
    Delivering(w, "checked") /\ ~IsDirect(run[w].task) => run[w].consent

\* A control step that every notification waits for: enabled, unconditional and
\* configured.
Gate(i) == i \in DOMAIN steps /\ IsControl(steps[i]) /\ steps[i].configured
           /\ steps[i].enabled /\ steps[i].conds = {}

\* No step behind a delay or a digest is handed to a worker before that wait is
\* over (trigger_handler.go: "enqueueing later steps here as well would deliver
\* them immediately"), for a workflow that has not been edited.
DelayRespected ==
  edits = 0 => \A n \in Notifs, i, j \in Idx :
    Gate(j) /\ j < i /\ launched[<<n, i>>] > 0 => <<n, j>> \in fired

\* A row says "sent" only if the provider took a message of that notification on
\* that channel, or, for in_app, if persisting its content failed on the way.
StatusTruthful ==
  \A n \in Notifs, k \in Idx :
    rows[n][k].status = "sent" =>
      \/ <<n, rows[n][k].channel>> \in accepted
      \/ rows[n][k].channel = "in_app" /\ faults > 0

\* In one limiter window a subscriber gets no more provider calls on a limited
\* channel than maxPerWindow, plus one per limiter error (the limiter fails
\* open): over all notifications, first attempts, retries and redeliveries.
WithinRateLimit == \A k \in Key : used[k] <= MaxPerWindow + failOpen[k]

\* A step of a notification calls the provider at most MaxRetries + 1 times for
\* each time its delivery was enqueued or redelivered.
AttemptsBounded == \A p \in Targets : sends[p] <= (MaxRetries + 1) * launched[p]

Quiet == (\A t \in Task : queue[t] = 0) /\ (\A w \in Workers : run[w].at = "idle")

\* No two channel steps share a channel, and so a row.
DistinctChannels ==
  \A i, j \in DOMAIN steps : steps[i].type = steps[j].type /\ ~IsControl(steps[i]) => i = j

\* When nothing failed and no task is left, every delivery that was started has
\* an outcome: a final status on its row or, for a transactional send, an
\* acceptance or a dead letter.
SettledWhenQuiet ==
  Quiet /\ faults = 0 /\ edits = 0 /\ DistinctChannels =>
    \A p \in Targets : launched[p] > 0 =>
      IF p[1] \in Notifs THEN rows[p[1]][p[2]].status # "pending"
      ELSE \/ \E c \in Channels : <<p[1], c>> \in accepted
           \/ \E t \in archived : t.kind = "delivery" /\ t.target = p

\* Without redelivery, an edit or a shared row, a status other than "pending" is
\* final: no late task overwrites it (an overwritten "sent" in_app row would
\* leave the feed).
StatusFinal ==
  [][faults' = 0 /\ edits' = 0 /\ DistinctChannels =>
       \A n \in Notifs, k \in Idx :
         rows[n][k].status # "pending" => rows'[n][k] = rows[n][k]]_vars

\* The pipeline drains: handlers and retries do not feed each other forever.
QueueDrains == <>[]Quiet

\* The documentation's "waits 30 minutes, then sends an SMS only if the subscriber
\* has a phone number": a delivery is started only for a step that is enabled and
\* whose conditions hold (DEPLOYMENT.md, the order-confirmation workflow).
ConditionsHonoured ==
  edits = 0 /\ changes = 0 =>
    \A n \in Notifs, i \in Idx : launched[<<n, i>>] > 0 => i \in Planned(n, steps)

=============================================================================
