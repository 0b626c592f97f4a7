---------------------- MODULE DeliveryPipeline_proofs ----------------------
(***************************************************************************)
(* Proofs about the delivery pipeline, for every set of notifications,     *)
(* workflows, channels and workers and any number of retries and events.   *)
(*                                                                         *)
(* TypeOK is not inductive: that a status is written to a row of a         *)
(* notification follows from how far the worker is in which task. PhaseOK  *)
(* says that, and the two are proved together. The other invariants are    *)
(* then proved relative to them, each with the strengthening it needs.     *)
(***************************************************************************)
EXTENDS DeliveryPipeline, FiniteSetTheorems, TLAPS

NotifDelivery == [kind: {"delivery"}, target: Notifs \X Idx, channel: Channels,
                  attempt: 0..MaxRetries]

\* What a job's phase says of its task.
PhaseOf(j) ==
  /\ j.at # "idle" => j.task \in Task
  /\ j.at \in {"checked", "retry"} => j.task \in DeliveryTask
  /\ j.at \in {"limited", "inheriting", "record"} => j.task \in NotifDelivery
  /\ j.at = "begun" /\ j.task.kind = "delivery" => j.task \in NotifDelivery

PhaseOK == \A w \in Workers : PhaseOf(run[w])

-----------------------------------------------------------------------------
(* Tasks.                                                                  *)

LEMMA KindOfTask ==
  ASSUME NEW t \in Task
  PROVE  /\ t.kind \in {"trigger", "delay", "delivery"}
         /\ t.kind = "trigger" => t \in TriggerTask
         /\ t.kind = "delay" => t \in DelayTask
         /\ t.kind = "delivery" => t \in DeliveryTask
  BY DEF Task, TriggerTask, DelayTask, DeliveryTask

LEMMA DeliveryFields ==
  ASSUME NEW t \in DeliveryTask
  PROVE  /\ t \in Task /\ t.kind = "delivery" /\ t.target \in Targets /\ t.channel \in Channels
         /\ t.attempt \in 0..MaxRetries
         /\ t.target[1] \in Notifs \cup Directs
         /\ KeyOf(t) \in Key
  BY SubOfAssumption DEF Task, DeliveryTask, KeyOf, Key, Targets

LEMMA NotifDeliveryFields ==
  ASSUME NEW t \in NotifDelivery
  PROVE  t \in DeliveryTask /\ t.target \in Notifs \X Idx /\ t.target[1] \in Notifs
         /\ ~IsDirect(t)
  BY DisjointAssumption DEF NotifDelivery, DeliveryTask, Targets, IsDirect

\* A delivery of a notification, not of a transactional send.
LEMMA NotDirect ==
  ASSUME NEW t \in DeliveryTask, ~IsDirect(t)
  PROVE  t \in NotifDelivery
  BY DEF NotifDelivery, DeliveryTask, Targets, IsDirect

-----------------------------------------------------------------------------
(* How an action moves its worker.                                         *)

LEMMA JobFields ==
  ASSUME NEW j \in Job
  PROVE  /\ j.at \in Phase /\ j.task \in Task \cup {NoTask} /\ j.steps \in Workflows \cup {<< >>}
         /\ j.result \in Status /\ j.consent \in BOOLEAN /\ j.fresh \in BOOLEAN
  BY DEF Job

LEMMA GotoRun ==
  ASSUME TypeOK, NEW w \in Workers, NEW p \in Phase, Goto(w, p)
  PROVE  /\ run' \in [Workers -> Job]
         /\ \A v \in Workers \ {w} : run'[v] = run[v]
         /\ run'[w].at = p /\ run'[w].task = run[w].task /\ run'[w].steps = run[w].steps
         /\ run'[w].result = run[w].result
         /\ run'[w].consent = run[w].consent /\ run'[w].fresh = run[w].fresh
<1> DEFINE j == [run[w] EXCEPT !.at = p]
<1>1. run \in [Workers -> Job] /\ run[w] \in Job
  BY DEF TypeOK
<1>2. run' = [run EXCEPT ![w] = j]
  BY DEF Goto
<1>3. /\ j \in Job /\ j.at = p /\ j.task = run[w].task /\ j.steps = run[w].steps
      /\ j.result = run[w].result /\ j.consent = run[w].consent /\ j.fresh = run[w].fresh
  BY <1>1 DEF Job
<1> HIDE DEF j
<1> QED
  BY <1>1, <1>2, <1>3

LEMMA SettleRun ==
  ASSUME TypeOK, NEW w \in Workers, NEW s \in Status, Settle(w, s)
  PROVE  /\ run' \in [Workers -> Job]
         /\ \A v \in Workers \ {w} : run'[v] = run[v]
         /\ run'[w].at = "record" /\ run'[w].task = run[w].task /\ run'[w].steps = run[w].steps
         /\ run'[w].result = s
         /\ run'[w].consent = run[w].consent /\ run'[w].fresh = run[w].fresh
<1> DEFINE j == [run[w] EXCEPT !.at = "record", !.result = s]
<1>1. run \in [Workers -> Job] /\ run[w] \in Job
  BY DEF TypeOK
<1>2. run' = [run EXCEPT ![w] = j]
  BY DEF Settle
<1>3. /\ j \in Job /\ j.at = "record" /\ j.task = run[w].task /\ j.steps = run[w].steps
      /\ j.result = s /\ j.consent = run[w].consent /\ j.fresh = run[w].fresh
  BY <1>1 DEF Job, Phase
<1> HIDE DEF j
<1> QED
  BY <1>1, <1>2, <1>3

LEMMA LimitedRun ==
  ASSUME TypeOK, NEW w \in Workers, NEW p \in Phase,
         run' = [run EXCEPT ![w].at = p, ![w].fresh = TRUE]
  PROVE  /\ run' \in [Workers -> Job]
         /\ \A v \in Workers \ {w} : run'[v] = run[v]
         /\ run'[w].at = p /\ run'[w].task = run[w].task /\ run'[w].steps = run[w].steps
         /\ run'[w].result = run[w].result
         /\ run'[w].fresh = TRUE /\ run'[w].consent = run[w].consent
<1> DEFINE j == [run[w] EXCEPT !.at = p, !.fresh = TRUE]
<1>1. run \in [Workers -> Job] /\ run[w] \in Job
  BY DEF TypeOK
<1>2. run' = [run EXCEPT ![w] = j]
  OBVIOUS
<1>3. /\ j \in Job /\ j.at = p /\ j.task = run[w].task /\ j.steps = run[w].steps
      /\ j.result = run[w].result /\ j.fresh = TRUE /\ j.consent = run[w].consent
  BY <1>1 DEF Job
<1> HIDE DEF j
<1> QED
  BY <1>1, <1>2, <1>3

LEMMA AskedRun ==
  ASSUME TypeOK, NEW w \in Workers, NEW p \in Phase,
         run' = [run EXCEPT ![w].at = p, ![w].consent = TRUE]
  PROVE  /\ run' \in [Workers -> Job]
         /\ \A v \in Workers \ {w} : run'[v] = run[v]
         /\ run'[w].at = p /\ run'[w].task = run[w].task /\ run'[w].steps = run[w].steps
         /\ run'[w].result = run[w].result
         /\ run'[w].consent = TRUE /\ run'[w].fresh = run[w].fresh
<1> DEFINE j == [run[w] EXCEPT !.at = p, !.consent = TRUE]
<1>1. run \in [Workers -> Job] /\ run[w] \in Job
  BY DEF TypeOK
<1>2. run' = [run EXCEPT ![w] = j]
  OBVIOUS
<1>3. /\ j \in Job /\ j.at = p /\ j.task = run[w].task /\ j.steps = run[w].steps
      /\ j.result = run[w].result /\ j.consent = TRUE /\ j.fresh = run[w].fresh
  BY <1>1 DEF Job
<1> HIDE DEF j
<1> QED
  BY <1>1, <1>2, <1>3

LEMMA FinishRun ==
  ASSUME TypeOK, NEW w \in Workers, Finish(w)
  PROVE  /\ run' \in [Workers -> Job]
         /\ \A v \in Workers \ {w} : run'[v] = run[v]
         /\ run'[w] = Idle
  BY DEF TypeOK, Finish, Job, Phase, Idle, Status

-----------------------------------------------------------------------------
(* Typing of what the actions write.                                       *)

LEMMA EnqueueType ==
  ASSUME queue \in [Task -> Nat], NEW ts, Enqueue(ts)
  PROVE  queue' \in [Task -> Nat]
  BY DEF Enqueue

LEMMA LaunchType ==
  ASSUME launched \in [Targets -> Nat], NEW ts, Launch(ts)
  PROVE  launched' \in [Targets -> Nat]
  BY DEF Launch

LEMMA FaultType ==
  ASSUME faults \in Nat, faults' = faults \/ Fault
  PROVE  faults' \in Nat
  BY DEF Fault

LEMMA StepType ==
  ASSUME NEW ss \in Workflows, NEW k \in DOMAIN ss
  PROVE  ss[k] \in Step /\ k \in Idx
<1>1. ss \in Seq(Step) /\ Len(ss) <= MaxSteps
  BY WorkflowsAssumption
<1> QED
  BY <1>1, BoundsAssumption DEF Idx

LEMMA PendingRowsType ==
  ASSUME NEW ss \in Workflows
  PROVE  PendingRows(ss) \in [Idx -> Row]
<1> SUFFICES ASSUME NEW k \in Idx
             PROVE  (IF k \in DOMAIN ss /\ ~IsControl(ss[k])
                     THEN [channel |-> ss[k].type, status |-> "pending"] ELSE NoRow) \in Row
  BY DEF PendingRows
<1>1. CASE k \in DOMAIN ss /\ ~IsControl(ss[k])
  <2>1. ss[k].type \in Channels
    BY <1>1, StepType DEF Step, IsControl
  <2> QED
    BY <1>1, <2>1 DEF Row, Status
<1>2. CASE ~(k \in DOMAIN ss /\ ~IsControl(ss[k]))
  BY <1>2 DEF Row
<1> QED
  BY <1>1, <1>2

LEMMA WithStatusType ==
  ASSUME NEW r \in [Idx -> Row], NEW c \in Channels, NEW s \in Status
  PROVE  WithStatus(r, c, s) \in [Idx -> Row]
  BY DEF WithStatus, Row

-----------------------------------------------------------------------------
(* Type correctness.                                                       *)

\* A step that moves one worker to a job its phase allows keeps PhaseOK.
LEMMA PhaseStep ==
  ASSUME PhaseOK, NEW w \in Workers, PhaseOf(run'[w]),
         \A v \in Workers \ {w} : run'[v] = run[v]
  PROVE  PhaseOK'
<1> SUFFICES ASSUME NEW v \in Workers PROVE PhaseOf(run'[v])
  BY DEF PhaseOK
<1>1. CASE v = w
  BY <1>1
<1>2. CASE v # w
  BY <1>2 DEF PhaseOK
<1> QED
  BY <1>1, <1>2

LEMMA IdlePhase == PhaseOf(Idle)
  BY DEF PhaseOf, Idle, NoTask

\* Going on with the same task to a phase the task allows.
LEMMA AckPhase ==
  ASSUME NEW j, j.at = "ack", j.task \in Task
  PROVE  PhaseOf(j)
  BY DEF PhaseOf

LEMMA TypeInit == Init => TypeOK /\ PhaseOK
<1> SUFFICES ASSUME Init PROVE TypeOK /\ PhaseOK
  OBVIOUS
<1>1. rows \in [Notifs -> [Idx -> Row]]
  BY DEF Init, Row
<1>2. run \in [Workers -> Job]
  BY DEF Init, Idle, Job, Phase, Status
<1>3. TypeOK
  BY <1>1, <1>2 DEF Init, TypeOK, Key
<1>4. PhaseOK
  BY IdlePhase DEF Init, PhaseOK
<1> QED
  BY <1>3, <1>4

LEMMA ApiType ==
  ASSUME TypeOK, PhaseOK, Api
  PROVE  TypeOK' /\ PhaseOK'
<1>1. ASSUME NEW batch \in SUBSET Notifs, AcceptTrigger(batch)
      PROVE  TypeOK' /\ PhaseOK'
  <2>1. rows' \in [Notifs -> [Idx -> Row]]
    BY <1>1, PendingRowsType DEF AcceptTrigger, TypeOK
  <2>2. queue' \in [Task -> Nat]
    BY <1>1, EnqueueType DEF AcceptTrigger, TypeOK
  <2>3. created' \subseteq Notifs \cup Directs
    BY <1>1 DEF AcceptTrigger, TypeOK
  <2> QED
    BY <1>1, <2>1, <2>2, <2>3 DEF AcceptTrigger, TypeOK, PhaseOK, preferences, limiter, history, events
<1>2. ASSUME NEW d \in Directs, NEW c \in Channels, AcceptDirect(d, c)
      PROVE  TypeOK' /\ PhaseOK'
  <2>1. queue' \in [Task -> Nat]
    BY <1>2, EnqueueType DEF AcceptDirect, TypeOK
  <2>2. launched' \in [Targets -> Nat]
    BY <1>2, LaunchType DEF AcceptDirect, TypeOK
  <2>3. created' \subseteq Notifs \cup Directs
    BY <1>2 DEF AcceptDirect, TypeOK
  <2> QED
    BY <1>2, <2>1, <2>2, <2>3 DEF AcceptDirect, TypeOK, PhaseOK, preferences, limiter, events
<1> QED
  BY <1>1, <1>2 DEF Api

LEMMA BeginType ==
  ASSUME TypeOK, PhaseOK, NEW w \in Workers, NEW t \in Task, Begin(w, t)
  PROVE  TypeOK' /\ PhaseOK'
<1> DEFINE at == CASE t.kind = "trigger" /\ ~active -> "ack"
                   [] t.kind = "delivery" /\ t.target[1] \in Directs -> "checked"
                   [] OTHER -> "begun"
           consent == t.kind = "delivery" /\ Effective(KeyOf(t))
           j == [at |-> at, task |-> t, steps |-> steps, result |-> "pending",
                 consent |-> consent, fresh |-> FALSE]
<1>1. run' = [run EXCEPT ![w] = j]
  BY DEF Begin
<1>2. at \in Phase
  BY DEF Phase
<1>3. consent \in BOOLEAN
  OBVIOUS
<1>4. j \in Job
  <2> HIDE DEF at, consent
  <2> QED
    BY <1>2, <1>3 DEF Job, Status, TypeOK
<1>5. PhaseOf(j)
  <2>1. CASE t.kind = "trigger"
    BY <2>1, KindOfTask DEF PhaseOf
  <2>2. CASE t.kind = "delivery" /\ t.target[1] \in Directs
    BY <2>2, KindOfTask DEF PhaseOf
  <2>3. CASE t.kind = "delivery" /\ t.target[1] \notin Directs
    <3>1. t \in NotifDelivery
      BY <2>3, KindOfTask, NotDirect DEF IsDirect
    <3> QED
      BY <2>3, <3>1 DEF PhaseOf
  <2>4. CASE t.kind = "delay"
    BY <2>4 DEF PhaseOf
  <2> QED
    BY <2>1, <2>2, <2>3, <2>4, KindOfTask
<1> HIDE DEF j
<1>6. run' \in [Workers -> Job] /\ PhaseOK'
  BY <1>1, <1>4, <1>5 DEF TypeOK, PhaseOK
<1>7. queue' \in [Task -> Nat]
  BY DEF Begin, TypeOK
<1> QED
  BY <1>6, <1>7 DEF Begin, TypeOK, documents, preferences, limiter, history, events

LEMMA TriggerType ==
  ASSUME TypeOK, PhaseOK, NEW w \in Workers, RunTrigger(w)
  PROVE  TypeOK' /\ PhaseOK'
<1> DEFINE t == run[w].task
           ss == run[w].steps
           all == {p \in t.batch \X Idx : p[2] \in Reached(p[1], ss)}
<1>1. t \in TriggerTask
  BY KindOfTask DEF RunTrigger, PhaseOK, PhaseOf
<1>2. all \subseteq Notifs \X Idx
  BY <1>1 DEF TriggerTask
<1>3. PICK done \in SUBSET all :
        /\ Succeed(all, done) /\ Enqueue(TasksOf(done, ss))
        /\ Launch({p \in done : ~IsControl(ss[p[2]])})
        /\ window' = window \cup {p \in done : ss[p[2]].type = "digest"}
  BY DEF RunTrigger
<1>4. queue' \in [Task -> Nat] /\ launched' \in [Targets -> Nat]
  BY <1>3, EnqueueType, LaunchType DEF TypeOK
<1>5. window' \subseteq Notifs \X Idx
  BY <1>2, <1>3 DEF TypeOK
<1>6. faults' \in Nat
  BY <1>3, FaultType DEF Succeed, TypeOK
<1>7. run' \in [Workers -> Job] /\ PhaseOK'
  BY <1>1, GotoRun, PhaseStep, AckPhase DEF RunTrigger, Phase, Task
<1> QED
  BY <1>4, <1>5, <1>6, <1>7 DEF RunTrigger, TypeOK, documents, preferences, limiter

LEMMA ResumeType ==
  ASSUME TypeOK, NEW n \in Notifs, NEW i \in Idx, NEW ss, Resume(n, i, ss)
  PROVE  /\ queue' \in [Task -> Nat] /\ launched' \in [Targets -> Nat]
         /\ faults' \in Nat
<1> DEFINE all == {<<n, j>> : j \in Following(ss, i)}
<1>1. PICK done \in SUBSET all :
        Succeed(all, done) /\ Enqueue(TasksOf(done, ss)) /\ Launch(done)
  BY DEF Resume
<1> QED
  BY <1>1, EnqueueType, LaunchType, FaultType DEF Succeed, TypeOK

LEMMA DelayType ==
  ASSUME TypeOK, PhaseOK, NEW w \in Workers, RunDelay(w)
  PROVE  TypeOK' /\ PhaseOK'
<1> DEFINE t == run[w].task
<1>1. t \in DelayTask
  BY KindOfTask DEF RunDelay, PhaseOK, PhaseOf
<1>2. t.n \in Notifs /\ t.i \in Idx
  BY <1>1 DEF DelayTask
<1>3. queue' \in [Task -> Nat] /\ launched' \in [Targets -> Nat] /\ faults' \in Nat
  BY <1>2, ResumeType DEF RunDelay
<1>4. run' \in [Workers -> Job] /\ PhaseOK'
  BY <1>1, GotoRun, PhaseStep, AckPhase DEF RunDelay, Phase, Task
<1>5. fired' \subseteq Notifs \X Idx
  BY <1>2 DEF RunDelay, TypeOK
<1> QED
  BY <1>3, <1>4, <1>5 DEF RunDelay, TypeOK, documents, preferences, limiter

LEMMA DigestType ==
  ASSUME TypeOK, PhaseOK, NEW s \in Subs, NEW i \in Idx, RunDigest(s, i)
  PROVE  TypeOK' /\ PhaseOK'
<1> DEFINE waiting == {p \in window : p[2] = i /\ SubOf[p[1]] = s}
<1>1. waiting \subseteq Notifs \X Idx
  BY DEF TypeOK
<1>2. PICK p \in waiting : Resume(p[1], i, steps)
  BY DEF RunDigest
<1>3. queue' \in [Task -> Nat] /\ launched' \in [Targets -> Nat] /\ faults' \in Nat
  BY <1>1, <1>2, ResumeType
<1>4. window' \subseteq Notifs \X Idx /\ fired' \subseteq Notifs \X Idx
  BY <1>1 DEF RunDigest, TypeOK
<1> QED
  BY <1>3, <1>4 DEF RunDigest, TypeOK, PhaseOK, documents, preferences, limiter

\* A worker in a phase of the delivery handler runs a delivery.
LEMMA DeliveringTask ==
  ASSUME PhaseOK, NEW w \in Workers, NEW p \in Phase \ {"idle"}, Delivering(w, p)
  PROVE  run[w].task \in DeliveryTask
  BY KindOfTask DEF PhaseOK, PhaseOf, Delivering

LEMMA CheckRateType ==
  ASSUME TypeOK, PhaseOK, NEW w \in Workers, CheckRate(w)
  PROVE  TypeOK' /\ PhaseOK'
<1> DEFINE t == run[w].task
           k == KeyOf(t)
<1>1. t \in NotifDelivery
  BY DEF CheckRate, Delivering, PhaseOK, PhaseOf
<1>2. t.channel \in Channels /\ k \in Key
  BY <1>1, NotifDeliveryFields, DeliveryFields
<1>3. /\ run' \in [Workers -> Job] /\ \A v \in Workers \ {w} : run'[v] = run[v]
      /\ run'[w].at \in {"limited", "record"} /\ run'[w].task = t
  <2>1. CASE Goto(w, "limited")
    BY <2>1, GotoRun DEF Phase
  <2>2. CASE Settle(w, "skipped")
    BY <2>2, SettleRun DEF Status
  <2>3. CASE run' = [run EXCEPT ![w].at = "limited", ![w].fresh = TRUE]
    BY <2>3, LimitedRun DEF Phase
  <2> QED
    BY <2>1, <2>2, <2>3 DEF CheckRate
<1>4. PhaseOK'
  BY <1>1, <1>3, NotifDeliveryFields, DeliveryFields, PhaseStep DEF PhaseOf
<1>5. count' \in [Key -> Nat] /\ failOpen' \in [Key -> Nat] /\ used' \in [Key -> Nat]
  <2>1. /\ count' = count \/ count' = [count EXCEPT ![k] = @ + 1]
        /\ failOpen' = failOpen \/ failOpen' = [failOpen EXCEPT ![k] = @ + 1]
        /\ used' = used
    BY DEF CheckRate, limiter
  <2> QED
    BY <1>2, <2>1 DEF TypeOK
<1>6. faults' \in Nat
  BY FaultType DEF CheckRate, TypeOK
<1> QED
  BY <1>3, <1>4, <1>5, <1>6 DEF CheckRate, TypeOK, documents, preferences, history

LEMMA PrefsType ==
  ASSUME TypeOK, PhaseOK, NEW w \in Workers, ReadWorkflowPref(w) \/ ReadGlobalPref(w)
  PROVE  TypeOK' /\ PhaseOK'
<1> DEFINE t == run[w].task
<1>1. t \in NotifDelivery
  BY DEF ReadWorkflowPref, ReadGlobalPref, Delivering, PhaseOK, PhaseOf
<1>2. /\ run' \in [Workers -> Job] /\ \A v \in Workers \ {w} : run'[v] = run[v]
      /\ run'[w].at \in {"inheriting", "checked", "record"} /\ run'[w].task = t
  <2>1. CASE Goto(w, "checked") \/ Goto(w, "inheriting")
    BY <2>1, GotoRun DEF Phase
  <2>2. CASE Settle(w, "skipped")
    BY <2>2, SettleRun DEF Status
  <2>3. CASE \E p \in {"inheriting", "checked"} : run' = [run EXCEPT ![w].at = p, ![w].consent = TRUE]
    BY <2>3, AskedRun DEF Phase
  <2> QED
    BY <2>1, <2>2, <2>3 DEF ReadWorkflowPref, ReadGlobalPref, Decide
<1>3. PhaseOK'
  BY <1>1, <1>2, NotifDeliveryFields, DeliveryFields, PhaseStep DEF PhaseOf
<1>4. faults' \in Nat
  BY FaultType DEF ReadWorkflowPref, ReadGlobalPref, TypeOK
<1> QED
  BY <1>2, <1>3, <1>4 DEF ReadWorkflowPref, ReadGlobalPref, TypeOK, documents, preferences, limiter, history

\* The ways a delivery that passed both checks ends: dead-lettered, or with an
\* outcome to write, or with nothing left to do.
LEMMA ArchiveRun ==
  ASSUME TypeOK, PhaseOK, NEW w \in Workers, run[w].at # "idle", Archive(w)
  PROVE  archived' \subseteq Task /\ run' \in [Workers -> Job] /\ PhaseOK'
<1>1. run[w].task \in Task
  BY DEF PhaseOK, PhaseOf
<1> QED
  BY <1>1, FinishRun, PhaseStep, IdlePhase DEF Archive, TypeOK

LEMMA SettlePhase ==
  ASSUME TypeOK, PhaseOK, NEW w \in Workers, NEW s \in Status, Settle(w, s),
         run[w].task \in DeliveryTask, ~IsDirect(run[w].task)
  PROVE  run' \in [Workers -> Job] /\ PhaseOK'
<1>1. run[w].task \in NotifDelivery
  BY NotDirect
<1> QED
  BY <1>1, SettleRun, PhaseStep, NotifDeliveryFields, DeliveryFields DEF PhaseOf

LEMMA GiveUpType ==
  ASSUME TypeOK, PhaseOK, NEW w \in Workers,
         NoRecipient(w) \/ NoIntegration(w) \/ StepGone(w)
  PROVE  TypeOK' /\ PhaseOK'
<1>1. run[w].at # "idle" /\ run[w].task \in DeliveryTask
  BY DeliveringTask DEF NoRecipient, NoIntegration, StepGone, Sendable, Delivering, Phase
<1>2. archived' \subseteq Task /\ run' \in [Workers -> Job] /\ PhaseOK'
  <2>1. CASE Archive(w)
    BY <1>1, <2>1, ArchiveRun
  <2>2. CASE ~IsDirect(run[w].task) /\ Settle(w, "failed") /\ UNCHANGED archived
    BY <1>1, <2>2, SettlePhase DEF Status, TypeOK
  <2> QED
    BY <2>1, <2>2 DEF NoRecipient, NoIntegration, StepGone
<1> QED
  BY <1>2 DEF NoRecipient, NoIntegration, StepGone, TypeOK, documents, preferences, limiter, history, events

LEMMA CallType ==
  ASSUME TypeOK, PhaseOK, NEW w \in Workers, Call(w)
  PROVE  /\ run[w].at # "idle" /\ run[w].task \in DeliveryTask
         /\ sends' \in [Targets -> Nat] /\ used' \in [Key -> Nat]
<1>1. run[w].at # "idle" /\ run[w].task \in DeliveryTask
  BY DeliveringTask DEF Call, Sendable, Delivering, Phase
<1>2. run[w].task.target \in Targets /\ KeyOf(run[w].task) \in Key
  BY <1>1, DeliveryFields
<1> QED
  BY <1>1, <1>2 DEF Call, TypeOK

LEMMA AcceptedType ==
  ASSUME TypeOK, PhaseOK, NEW w \in Workers, Accepted(w)
  PROVE  TypeOK' /\ PhaseOK'
<1> DEFINE t == run[w].task
<1>1. /\ run[w].at # "idle" /\ t \in DeliveryTask
      /\ sends' \in [Targets -> Nat] /\ used' \in [Key -> Nat]
  BY CallType DEF Accepted
<1>2. run' \in [Workers -> Job] /\ PhaseOK'
  <2>1. CASE Goto(w, "ack")
    BY <1>1, <2>1, GotoRun, PhaseStep, AckPhase, DeliveryFields DEF Phase
  <2>2. CASE ~IsDirect(t) /\ Settle(w, "sent")
    BY <1>1, <2>2, SettlePhase DEF Status
  <2> QED
    BY <2>1, <2>2 DEF Accepted
<1>3. accepted' \subseteq (Notifs \cup Directs) \X Channels
  BY <1>1, DeliveryFields DEF Accepted, TypeOK
<1>4. faults' \in Nat
  BY FaultType DEF Accepted, TypeOK
<1> QED
  BY <1>1, <1>2, <1>3, <1>4 DEF Accepted, Call, TypeOK, documents, preferences

LEMMA RejectedType ==
  ASSUME TypeOK, PhaseOK, NEW w \in Workers, Rejected(w)
  PROVE  TypeOK' /\ PhaseOK'
<1> DEFINE t == run[w].task
<1>1. /\ run[w].at # "idle" /\ t \in DeliveryTask
      /\ sends' \in [Targets -> Nat] /\ used' \in [Key -> Nat]
  BY CallType DEF Rejected
<1>2. archived' \subseteq Task /\ run' \in [Workers -> Job] /\ PhaseOK'
  <2>1. CASE Goto(w, "retry") /\ UNCHANGED archived
    <3>1. run' \in [Workers -> Job] /\ PhaseOf(run'[w])
      BY <1>1, <2>1, GotoRun, DeliveryFields DEF Phase, PhaseOf
    <3> QED
      BY <2>1, <3>1, GotoRun, PhaseStep DEF Phase, TypeOK
  <2>2. CASE Archive(w)
    BY <1>1, <2>2, ArchiveRun
  <2>3. CASE ~IsDirect(t) /\ Settle(w, "failed") /\ UNCHANGED archived
    BY <1>1, <2>3, SettlePhase DEF Status, TypeOK
  <2> QED
    BY <2>1, <2>2, <2>3 DEF Rejected
<1> QED
  BY <1>1, <1>2 DEF Rejected, Call, TypeOK, documents, preferences

LEMMA ReturnType ==
  ASSUME TypeOK, PhaseOK, NEW w \in Workers,
         ScheduleRetry(w) \/ Record(w) \/ Ack(w) \/ Redeliver(w)
  PROVE  TypeOK' /\ PhaseOK'
<1>1. run[w].at # "idle" /\ run[w].task \in Task
  BY DEF ScheduleRetry, Record, Ack, Redeliver, PhaseOK, PhaseOf
<1>2. run' \in [Workers -> Job] /\ PhaseOK'
  <2>1. CASE Goto(w, "ack")
    BY <1>1, <2>1, GotoRun, PhaseStep, AckPhase DEF Phase
  <2>2. CASE Finish(w)
    BY <2>2, FinishRun, PhaseStep, IdlePhase
  <2> QED
    BY <2>1, <2>2 DEF ScheduleRetry, Record, Ack, Redeliver
<1>3. queue' \in [Task -> Nat]
  BY <1>1, EnqueueType DEF ScheduleRetry, Record, Ack, Redeliver, TypeOK
<1>4. faults' \in Nat
  BY FaultType DEF ScheduleRetry, Record, Ack, Redeliver, TypeOK, events
<1>5. launched' \in [Targets -> Nat]
  BY LaunchType DEF ScheduleRetry, Record, Ack, Redeliver, TypeOK, history
<1>6. rows' \in [Notifs -> [Idx -> Row]]
  <2>1. CASE Record(w)
    <3>1. run[w].task \in NotifDelivery /\ run[w].result \in Status
      BY <2>1, JobFields DEF Record, PhaseOK, PhaseOf, TypeOK
    <3>2. run[w].task.target[1] \in Notifs /\ run[w].task.channel \in Channels
      BY <3>1, NotifDeliveryFields, DeliveryFields
    <3> QED
      BY <2>1, <3>1, <3>2, WithStatusType DEF Record, TypeOK
  <2>2. CASE UNCHANGED rows
    BY <2>2 DEF TypeOK
  <2> QED
    BY <2>1, <2>2 DEF ScheduleRetry, Ack, Redeliver, documents, preferences
<1> QED
  BY <1>2, <1>3, <1>4, <1>5, <1>6
     DEF ScheduleRetry, Record, Ack, Redeliver, TypeOK, documents, preferences, limiter, history, events

LEMMA WindowType ==
  ASSUME TypeOK, PhaseOK, NextWindow
  PROVE  TypeOK' /\ PhaseOK'
<1>1. ASSUME NEW w \in Workers
      PROVE  run'[w] \in Job /\ run'[w].at = run[w].at /\ run'[w].task = run[w].task
  <2>1. run[w] \in Job /\ run'[w] = [run[w] EXCEPT !.fresh = FALSE]
    BY <1>1 DEF NextWindow, TypeOK
  <2> QED
    BY <2>1 DEF Job
<1>2. run' \in [Workers -> Job] /\ PhaseOK'
  BY <1>1 DEF PhaseOK, PhaseOf, NextWindow
<1> QED
  BY <1>2 DEF NextWindow, Change, TypeOK, documents, preferences, history

\* A preference write only sets consent flags of the workers.
LEMMA AskRun ==
  ASSUME TypeOK, NEW keys, Ask(keys), NEW w \in Workers
  PROVE  /\ run'[w] \in Job /\ run'[w].at = run[w].at /\ run'[w].task = run[w].task
         /\ run'[w].steps = run[w].steps /\ run'[w].result = run[w].result
         /\ run'[w].fresh = run[w].fresh
         /\ run'[w].consent =
              (run[w].consent \/ (run[w].task.kind = "delivery" /\ KeyOf(run[w].task) \in keys))
<1> DEFINE told == run[w].consent \/ (run[w].task.kind = "delivery" /\ KeyOf(run[w].task) \in keys)
<1>1. run[w] \in Job /\ run'[w] = [run[w] EXCEPT !.consent = told]
  BY DEF Ask, TypeOK
<1>2. told \in BOOLEAN
  OBVIOUS
<1> HIDE DEF told
<1>3. /\ run'[w] \in Job /\ run'[w].at = run[w].at /\ run'[w].task = run[w].task
      /\ run'[w].steps = run[w].steps /\ run'[w].result = run[w].result
      /\ run'[w].fresh = run[w].fresh /\ run'[w].consent = told
  BY <1>1, <1>2 DEF Job
<1> QED
  BY <1>3 DEF told

PreferenceWrite ==
  \/ \E k \in Key, on \in BOOLEAN : ReadForWorkflow(k, on) \/ SetGlobalPref(k, on)
  \/ \E u \in upserts : WriteWorkflowPref(u)

\* What a preference request leaves alone.
LEMMA WriteFrame ==
  ASSUME TypeOK, PreferenceWrite
  PROVE  /\ UNCHANGED <<steps, active, created, rows, holds, integrations, limiter, queue,
                        archived, window, history, events>>
         /\ run' \in [Workers -> Job]
         /\ \A w \in Workers : /\ run'[w].at = run[w].at /\ run'[w].task = run[w].task
                               /\ run'[w].steps = run[w].steps /\ run'[w].result = run[w].result
                               /\ run'[w].fresh = run[w].fresh
<1>1. UNCHANGED <<steps, active, created, rows, holds, integrations, limiter, queue, archived,
                  window, history, events>>
  BY DEF PreferenceWrite, ReadForWorkflow, SetGlobalPref, WriteWorkflowPref
<1>2. ASSUME NEW keys, Ask(keys)
      PROVE  /\ run' \in [Workers -> Job]
             /\ \A w \in Workers : /\ run'[w].at = run[w].at /\ run'[w].task = run[w].task
                                   /\ run'[w].steps = run[w].steps /\ run'[w].result = run[w].result
                                   /\ run'[w].fresh = run[w].fresh
  <2>1. run' = [w \in Workers |-> run'[w]]
    BY <1>2 DEF Ask
  <2> QED
    BY <1>2, <2>1, AskRun
<1>3. CASE UNCHANGED run
  BY <1>1, <1>3 DEF TypeOK
<1>4. UNCHANGED run \/ \E keys : Ask(keys)
  BY DEF PreferenceWrite, ReadForWorkflow, SetGlobalPref, WriteWorkflowPref
<1> QED
  BY <1>1, <1>2, <1>3, <1>4

LEMMA UpsertType ==
  ASSUME TypeOK, NEW k \in Key, NEW on \in BOOLEAN, ReadForWorkflow(k, on)
  PROVE  upserts' \subseteq Upsert
<1> DEFINE row == [c \in Channels |-> wfPref[<<k[1], c>>]]
           mask == [c \in Channels |-> globalPref[<<k[1], c>>]]
<1>1. \A c \in Channels : <<k[1], c>> \in Key
  BY DEF Key
<1>2. row \in [Channels -> {"none", "on", "off"}] /\ mask \in [Channels -> BOOLEAN]
  BY <1>1 DEF TypeOK
<1>3. writes' \in Nat
  BY DEF ReadForWorkflow, Write, TypeOK
<1>4. upserts' = upserts \cup {[id |-> writes', key |-> k, on |-> on, row |-> row, mask |-> mask]}
  BY DEF ReadForWorkflow
<1> HIDE DEF row, mask
<1> QED
  BY <1>2, <1>3, <1>4 DEF Upsert, TypeOK

LEMMA PreferenceType ==
  ASSUME TypeOK, PhaseOK, PreferenceWrite
  PROVE  TypeOK' /\ PhaseOK'
<1>1. UNCHANGED <<steps, active, created, rows, holds, integrations, limiter, queue, archived,
                  window, history, events>>
  BY WriteFrame
<1>2. run' \in [Workers -> Job] /\ PhaseOK'
  BY WriteFrame DEF PhaseOK, PhaseOf
<1>3. /\ wfPref' \in [Key -> {"none", "on", "off"}] /\ globalPref' \in [Key -> BOOLEAN]
      /\ writes' \in Nat /\ upserts' \subseteq Upsert
  <2>1. ASSUME NEW k \in Key, NEW on \in BOOLEAN, ReadForWorkflow(k, on)
        PROVE  /\ wfPref' \in [Key -> {"none", "on", "off"}] /\ globalPref' \in [Key -> BOOLEAN]
               /\ writes' \in Nat /\ upserts' \subseteq Upsert
    <3>1. upserts' \subseteq Upsert
      BY <2>1, UpsertType
    <3>2. UNCHANGED <<wfPref, globalPref>> /\ writes' = writes + 1
      BY <2>1 DEF ReadForWorkflow, Write
    <3> QED
      BY <3>1, <3>2 DEF TypeOK
  <2>2. ASSUME NEW k \in Key, NEW on \in BOOLEAN, SetGlobalPref(k, on)
        PROVE  /\ wfPref' \in [Key -> {"none", "on", "off"}] /\ globalPref' \in [Key -> BOOLEAN]
               /\ writes' \in Nat /\ upserts' \subseteq Upsert
    BY <2>2 DEF SetGlobalPref, Write, TypeOK
  <2>3. ASSUME NEW u \in upserts, WriteWorkflowPref(u)
        PROVE  /\ wfPref' \in [Key -> {"none", "on", "off"}] /\ globalPref' \in [Key -> BOOLEAN]
               /\ writes' \in Nat /\ upserts' \subseteq Upsert
    BY <2>3 DEF WriteWorkflowPref, OnOff, TypeOK
  <2> QED
    BY <2>1, <2>2, <2>3 DEF PreferenceWrite
<1> QED
  BY <1>1, <1>2, <1>3 DEF TypeOK, limiter, history, events

LEMMA EnvironmentType ==
  ASSUME TypeOK, PhaseOK, Environment
  PROVE  TypeOK' /\ PhaseOK'
<1>1. ASSUME NEW n \in Notifs, NEW c \in Conds, ConditionChanges(n, c)
      PROVE  TypeOK' /\ PhaseOK'
  BY <1>1 DEF ConditionChanges, Change, TypeOK, PhaseOK, preferences, limiter, history
<1>2. ASSUME NEW c \in Channels \ {"in_app"}, SetIntegration(c)
      PROVE  TypeOK' /\ PhaseOK'
  BY <1>2 DEF SetIntegration, Change, TypeOK, PhaseOK, preferences, limiter, history
<1>3. ASSUME NEW ss \in Workflows, NEW a \in BOOLEAN, EditWorkflow(ss, a)
      PROVE  TypeOK' /\ PhaseOK'
  BY <1>3 DEF EditWorkflow, TypeOK, PhaseOK, preferences, limiter, history
<1> QED
  BY <1>1, <1>2, <1>3, WindowType, PreferenceType DEF Environment, PreferenceWrite

LEMMA TypeStep ==
  ASSUME TypeOK, PhaseOK, [Next]_vars
  PROVE  TypeOK' /\ PhaseOK'
<1>1. ASSUME NEW w \in Workers, Handle(w)
      PROVE  TypeOK' /\ PhaseOK'
  BY <1>1, TriggerType, DelayType, CheckRateType, PrefsType, GiveUpType, AcceptedType,
     RejectedType, ReturnType DEF Handle
<1>2. CASE UNCHANGED vars
  BY <1>2 DEF vars, TypeOK, PhaseOK
<1> QED
  BY <1>1, <1>2, ApiType, BeginType, ReturnType, DigestType, EnvironmentType DEF Next

LEMMA Typed == Spec => [](TypeOK /\ PhaseOK)
<1>1. Init => TypeOK /\ PhaseOK
  BY TypeInit
<1>2. TypeOK /\ PhaseOK /\ [Next]_vars => (TypeOK /\ PhaseOK)'
  BY TypeStep
<1> QED
  BY <1>1, <1>2, PTL DEF Spec

\* Every variable keeps its type: no handler, fault or concurrent change writes a
\* malformed row, job, task or counter.
THEOREM TypeCorrect == Spec => []TypeOK
  BY Typed, PTL

-----------------------------------------------------------------------------
(* Opt-outs. A worker that passed the preference check has consent because *)
(* every worker running a delivery whose channel is on has it: it is noted *)
(* when the task is taken and when the subscriber opts in.                 *)

\* What governs key k when the workflow has no row for it.
Inherited(k) == Resolve("none", globalPref[k], k[2])

ConsentOf(j) ==
  j.at # "idle" /\ j.task.kind = "delivery" =>
    /\ Effective(KeyOf(j.task)) => j.consent
    /\ j.at = "inheriting" /\ Inherited(KeyOf(j.task)) => j.consent
    /\ j.at = "checked" /\ ~IsDirect(j.task) => j.consent

ConsentNoted == \A w \in Workers : ConsentOf(run[w])

LEMMA ConsentStep ==
  ASSUME ConsentNoted, NEW w \in Workers, UNCHANGED <<wfPref, globalPref>>, ConsentOf(run[w])',
         \A v \in Workers \ {w} : run'[v] = run[v]
  PROVE  ConsentNoted'
<1> SUFFICES ASSUME NEW v \in Workers PROVE ConsentOf(run[v])'
  BY DEF ConsentNoted
<1>1. CASE v = w
  BY <1>1
<1>2. CASE v # w
  BY <1>2 DEF ConsentNoted, ConsentOf, Effective, Inherited
<1> QED
  BY <1>1, <1>2

\* Keeping the task and the consent, anywhere but in or past the preference check.
LEMMA ConsentKept ==
  ASSUME TypeOK, ConsentNoted, NEW w \in Workers, UNCHANGED <<wfPref, globalPref>>,
         \A v \in Workers \ {w} : run'[v] = run[v],
         run[w].at # "idle", run'[w].task = run[w].task, run'[w].consent = run[w].consent,
         run'[w].at \notin {"inheriting", "checked"}
  PROVE  ConsentNoted'
<1>1. ConsentOf(run[w])'
  BY DEF ConsentNoted, ConsentOf, Effective, Inherited
<1> QED
  BY <1>1, ConsentStep

LEMMA ConsentGoto ==
  ASSUME TypeOK, ConsentNoted, NEW w \in Workers, UNCHANGED <<wfPref, globalPref>>, run[w].at # "idle",
         NEW p \in Phase \ {"inheriting", "checked"}, NEW s \in Status, Goto(w, p) \/ Settle(w, s)
  PROVE  ConsentNoted'
<1>1. CASE Goto(w, p)
  BY <1>1, GotoRun, ConsentKept
<1>2. CASE Settle(w, s)
  BY <1>2, SettleRun, ConsentKept
<1> QED
  BY <1>1, <1>2

LEMMA ConsentFinish ==
  ASSUME TypeOK, ConsentNoted, NEW w \in Workers, UNCHANGED <<wfPref, globalPref>>, Finish(w)
  PROVE  ConsentNoted'
<1>1. ConsentOf(run[w])'
  BY FinishRun DEF ConsentOf, Idle
<1> QED
  BY <1>1, ConsentStep, FinishRun

LEMMA ConsentBegin ==
  ASSUME TypeOK, ConsentNoted, NEW w \in Workers, NEW t \in Task, Begin(w, t)
  PROVE  ConsentNoted'
<1> DEFINE consent == t.kind = "delivery" /\ Effective(KeyOf(t))
<1>1. /\ run'[w].task = t /\ run'[w].consent = consent
      /\ t.kind = "delivery" /\ run'[w].at = "checked" => IsDirect(t)
      /\ run'[w].at # "inheriting"
      /\ \A v \in Workers \ {w} : run'[v] = run[v]
  BY DEF Begin, TypeOK, IsDirect
<1>2. UNCHANGED <<wfPref, globalPref>>
  BY DEF Begin, documents, preferences
<1>3. ConsentOf(run[w])'
  BY <1>1, <1>2 DEF ConsentOf, Effective
<1> QED
  BY <1>1, <1>2, <1>3, ConsentStep

\* Deciding with the consent the outcome needs.
LEMMA ConsentDecide ==
  ASSUME TypeOK, ConsentNoted, NEW w \in Workers, UNCHANGED <<wfPref, globalPref>>,
         run[w].at # "idle", NEW on \in BOOLEAN, on => run[w].consent, Decide(w, on)
  PROVE  ConsentNoted'
<1>1. CASE Settle(w, "skipped")
  BY <1>1, ConsentGoto DEF Status, Phase
<1>2. CASE on /\ Goto(w, "checked")
  <2>1. /\ run'[w].at = "checked" /\ run'[w].consent = run[w].consent
        /\ \A v \in Workers \ {w} : run'[v] = run[v]
    BY <1>2, GotoRun DEF Phase
  <2>2. ConsentOf(run[w])'
    BY <1>2, <2>1 DEF ConsentOf
  <2> QED
    BY <2>1, <2>2, ConsentStep
<1> QED
  BY <1>1, <1>2 DEF Decide

\* An error on the way excuses the job from then on.
LEMMA ConsentExcused ==
  ASSUME TypeOK, ConsentNoted, NEW w \in Workers, UNCHANGED <<wfPref, globalPref>>,
         NEW p \in Phase, run' = [run EXCEPT ![w].at = p, ![w].consent = TRUE]
  PROVE  ConsentNoted'
<1>1. ConsentOf(run[w])'
  BY AskedRun DEF ConsentOf
<1> QED
  BY <1>1, AskedRun, ConsentStep

LEMMA ConsentRate ==
  ASSUME TypeOK, PhaseOK, ConsentNoted, NEW w \in Workers, CheckRate(w)
  PROVE  ConsentNoted'
<1>1. UNCHANGED <<wfPref, globalPref>> /\ run[w].at # "idle"
  BY DEF CheckRate, Delivering, documents, preferences
<1>2. CASE Settle(w, "skipped")
  BY <1>1, <1>2, ConsentGoto DEF Status, Phase
<1>3. CASE Goto(w, "limited")
  BY <1>1, <1>3, ConsentGoto DEF Phase, Status
<1>4. CASE run' = [run EXCEPT ![w].at = "limited", ![w].fresh = TRUE]
  BY <1>1, <1>4, LimitedRun, ConsentKept DEF Phase
<1> QED
  BY <1>2, <1>3, <1>4 DEF CheckRate

LEMMA ConsentReads ==
  ASSUME TypeOK, PhaseOK, ConsentNoted, NEW w \in Workers, ReadWorkflowPref(w) \/ ReadGlobalPref(w)
  PROVE  ConsentNoted'
<1> DEFINE t == run[w].task
           k == KeyOf(t)
<1>1. UNCHANGED <<wfPref, globalPref>> /\ run[w].at # "idle" /\ t.kind = "delivery"
  BY DEF ReadWorkflowPref, ReadGlobalPref, Delivering, documents, preferences
<1>2. k \in Key
  BY <1>1, KindOfTask, DeliveryFields DEF PhaseOK, PhaseOf
<1>3. Effective(k) => run[w].consent
  BY <1>1 DEF ConsentNoted, ConsentOf
<1>4. CASE Goto(w, "inheriting") /\ wfPref[k] = "none"
  <2>1. Inherited(k) => Effective(k)
    BY <1>4 DEF Inherited, Effective, Resolve
  <2>2. /\ run'[w].at = "inheriting" /\ run'[w].consent = run[w].consent /\ run'[w].task = t
        /\ \A v \in Workers \ {w} : run'[v] = run[v]
    BY <1>4, GotoRun DEF Phase
  <2>3. ConsentOf(run[w])'
    BY <1>1, <1>3, <2>1, <2>2 DEF ConsentOf, Effective, Inherited
  <2> QED
    BY <1>1, <2>2, <2>3, ConsentStep
<1>5. CASE Decide(w, wfPref[k] = "on")
  <2>1. wfPref[k] = "on" => Effective(k)
    BY DEF Effective, Resolve
  <2> QED
    BY <1>1, <1>3, <1>5, <2>1, ConsentDecide
<1>6. CASE run[w].at = "inheriting" /\ Decide(w, Inherited(k))
  <2>1. Inherited(k) => run[w].consent
    BY <1>1, <1>6 DEF ConsentNoted, ConsentOf
  <2>2. Inherited(k) \in BOOLEAN
    BY <1>2 DEF Inherited, Resolve, TypeOK
  <2> QED
    BY <1>1, <1>6, <2>1, <2>2, ConsentDecide
<1>7. CASE \E p \in {"inheriting", "checked"} : run' = [run EXCEPT ![w].at = p, ![w].consent = TRUE]
  BY <1>1, <1>7, ConsentExcused DEF Phase
<1>8. CASE Settle(w, "skipped")
  BY <1>1, <1>8, ConsentGoto DEF Status, Phase
<1>9. CASE ReadWorkflowPref(w)
  BY <1>4, <1>5, <1>7, <1>9 DEF ReadWorkflowPref
<1>10. CASE ReadGlobalPref(w)
  BY <1>6, <1>7, <1>8, <1>10 DEF ReadGlobalPref, Inherited, Delivering
<1> QED
  BY <1>9, <1>10

LEMMA ConsentHandle ==
  ASSUME TypeOK, PhaseOK, ConsentNoted, NEW w \in Workers, Handle(w) \/ Redeliver(w)
  PROVE  ConsentNoted'
<1>1. UNCHANGED <<wfPref, globalPref>> /\ run[w].at # "idle"
  BY DEF Handle, Redeliver, RunTrigger, RunDelay, CheckRate, ReadWorkflowPref, ReadGlobalPref, Decide, NoRecipient, NoIntegration,
         StepGone, Accepted, Rejected, Call, Sendable, ScheduleRetry, Record, Ack, Delivering, documents, preferences
<1>2. CASE CheckRate(w) \/ ReadWorkflowPref(w) \/ ReadGlobalPref(w)
  BY <1>2, ConsentRate, ConsentReads
<1>3. CASE Goto(w, "ack") \/ Goto(w, "retry")
  BY <1>1, <1>3, ConsentGoto DEF Phase, Status
<1>4. CASE Settle(w, "sent") \/ Settle(w, "failed")
  BY <1>1, <1>4, ConsentGoto DEF Phase, Status
<1>5. CASE Finish(w)
  BY <1>1, <1>5, ConsentFinish
<1> QED
  BY <1>2, <1>3, <1>4, <1>5
     DEF Handle, Redeliver, RunTrigger, RunDelay, NoRecipient, NoIntegration, StepGone, Archive,
         Accepted, Rejected, ScheduleRetry, Record, Ack

\* A channel is turned on only by a write that names it, or by a seed that was
\* overtaken: otherwise the other channels of a new row keep what governed them.
LEMMA OnlyWhenAsked ==
  ASSUME TypeOK, PreferenceWrite
  PROVE  \/ UNCHANGED <<run, wfPref, globalPref>>
         \/ \E keys : /\ Ask(keys)
                      /\ \A k \in Key : /\ Effective(k)' => Effective(k) \/ k \in keys
                                        /\ Inherited(k)' => Inherited(k) \/ k \in keys
<1>1. ASSUME NEW k \in Key, NEW on \in BOOLEAN, ReadForWorkflow(k, on)
      PROVE  UNCHANGED <<run, wfPref, globalPref>>
  BY <1>1 DEF ReadForWorkflow
<1>2. ASSUME NEW k \in Key, NEW on \in BOOLEAN, SetGlobalPref(k, on)
      PROVE  /\ Ask(IF on THEN {k} ELSE {})
             /\ \A j \in Key : /\ Effective(j)' => Effective(j) \/ j \in IF on THEN {k} ELSE {}
                               /\ Inherited(j)' => Inherited(j) \/ j \in IF on THEN {k} ELSE {}
  <2>1. wfPref' = wfPref /\ globalPref' = [globalPref EXCEPT ![k] = on]
    BY <1>2 DEF SetGlobalPref
  <2>2. ASSUME NEW j \in Key
        PROVE  globalPref'[j] => globalPref[j] \/ j \in IF on THEN {k} ELSE {}
    BY <2>1 DEF TypeOK
  <2>3. Ask(IF on THEN {k} ELSE {})
    BY <1>2 DEF SetGlobalPref
  <2> QED
    BY <2>1, <2>2, <2>3 DEF Effective, Inherited, Resolve
<1>3. ASSUME NEW u \in upserts, WriteWorkflowPref(u)
      PROVE  \E keys : /\ Ask(keys)
                       /\ \A k \in Key : /\ Effective(k)' => Effective(k) \/ k \in keys
                                         /\ Inherited(k)' => Inherited(k) \/ k \in keys
  <2> DEFINE keys == {k \in Key : \/ k = u.key /\ u.on
                                  \/ k \in Seeded(u) /\ Stale(u) /\ Seed(u, k[2])}
  <2>1. Ask(keys) /\ globalPref' = globalPref
    BY <1>3 DEF WriteWorkflowPref
  <2>2. ASSUME NEW k \in Key
        PROVE  Effective(k)' => Effective(k) \/ k \in keys
    <3>1. wfPref'[k] = CASE k = u.key -> OnOff(u.on)
                         [] k \in Seeded(u) -> OnOff(Seed(u, k[2]))
                         [] OTHER -> wfPref[k]
      BY <1>3 DEF WriteWorkflowPref
    <3>2. CASE k = u.key
      <4>1. wfPref'[k] = OnOff(u.on)
        BY <3>1, <3>2 DEF Seeded
      <4> QED
        BY <3>2, <4>1 DEF Effective, Resolve, OnOff
    <3>3. CASE k # u.key /\ k \in Seeded(u)
      <4>1. Effective(k)' <=> Seed(u, k[2])
        BY <3>1, <3>3 DEF Effective, Resolve, OnOff
      <4>2. CASE Stale(u)
        BY <3>3, <4>1, <4>2
      <4>3. CASE ~Stale(u)
        <5>1. k = <<u.key[1], k[2]>> /\ k[2] \in Channels
          BY <3>3 DEF Seeded, Key
        <5>2. u.row[k[2]] = wfPref[k] /\ u.mask[k[2]] = globalPref[k]
          BY <4>3, <5>1 DEF Stale
        <5> QED
          BY <4>1, <5>2 DEF Seed, Effective
      <4> QED
        BY <4>2, <4>3
    <3>4. CASE k # u.key /\ k \notin Seeded(u)
      BY <2>1, <3>1, <3>4 DEF Effective
    <3> QED
      BY <3>2, <3>3, <3>4
  <2>3. \A k \in Key : Inherited(k)' => Inherited(k)
    BY <2>1 DEF Inherited
  <2> QED
    BY <2>1, <2>2, <2>3
<1> QED
  BY <1>1, <1>2, <1>3 DEF PreferenceWrite

LEMMA ConsentEnvironment ==
  ASSUME TypeOK, PhaseOK, ConsentNoted, Environment
  PROVE  ConsentNoted'
<1>1. CASE NextWindow
  <2>1. UNCHANGED <<wfPref, globalPref>>
    BY <1>1 DEF NextWindow, documents, preferences
  <2>2. ASSUME NEW w \in Workers
        PROVE  ConsentOf(run[w])'
    <3>1. run[w] \in Job /\ run'[w] = [run[w] EXCEPT !.fresh = FALSE]
      BY <1>1 DEF NextWindow, TypeOK
    <3>2. run'[w].at = run[w].at /\ run'[w].task = run[w].task /\ run'[w].consent = run[w].consent
      BY <3>1 DEF Job
    <3> QED
      BY <2>1, <3>2 DEF ConsentNoted, ConsentOf, Effective, Inherited
  <2> QED
    BY <2>2 DEF ConsentNoted
<1>2. CASE PreferenceWrite /\ ~UNCHANGED <<run, wfPref, globalPref>>
  <2>1. PICK keys : /\ Ask(keys)
                    /\ \A k \in Key : /\ Effective(k)' => Effective(k) \/ k \in keys
                                      /\ Inherited(k)' => Inherited(k) \/ k \in keys
    BY <1>2, OnlyWhenAsked
  <2>2. ASSUME NEW w \in Workers
        PROVE  ConsentOf(run[w])'
    <3> DEFINE t == run[w].task
    <3>1. /\ run'[w].at = run[w].at /\ run'[w].task = t
          /\ run'[w].consent = (run[w].consent \/ (t.kind = "delivery" /\ KeyOf(t) \in keys))
      BY <2>1, AskRun
    <3>2. ASSUME run[w].at # "idle", t.kind = "delivery"
          PROVE  /\ Effective(KeyOf(t))' => Effective(KeyOf(t)) \/ KeyOf(t) \in keys
                 /\ Inherited(KeyOf(t))' => Inherited(KeyOf(t)) \/ KeyOf(t) \in keys
                 /\ KeyOf(run'[w].task) = KeyOf(t)
      <4>1. KeyOf(t) \in Key
        BY <3>2, KindOfTask, DeliveryFields DEF PhaseOK, PhaseOf
      <4> QED
        BY <2>1, <3>1, <4>1 DEF KeyOf
    <3> QED
      BY <3>1, <3>2 DEF ConsentNoted, ConsentOf
  <2> QED
    BY <2>2 DEF ConsentNoted
<1>3. CASE UNCHANGED <<run, wfPref, globalPref>>
  BY <1>3 DEF ConsentNoted, ConsentOf, Effective, Inherited
<1> QED
  BY <1>1, <1>2, <1>3
     DEF Environment, PreferenceWrite, ConditionChanges, SetIntegration, EditWorkflow, preferences

LEMMA ConsentNext ==
  ASSUME TypeOK, PhaseOK, ConsentNoted, [Next]_vars
  PROVE  ConsentNoted'
<1>1. CASE UNCHANGED <<run, wfPref, globalPref>>
  BY <1>1 DEF ConsentNoted, ConsentOf, Effective, Inherited
<1>2. CASE UNCHANGED vars
  BY <1>1, <1>2 DEF vars
<1> QED
  BY <1>1, <1>2, ConsentBegin, ConsentHandle, ConsentEnvironment
     DEF Next, Api, AcceptTrigger, AcceptDirect, RunDigest, documents, preferences

\* An opt-out that a worker could have seen is respected, whatever crashes, retries
\* and concurrent preference requests there were, but for a row that could not be
\* read and for a first workflow row that named another channel and whose seed was
\* resolved before the opt-out.
THEOREM OptOut == Spec => []OptOutRespected
<1>1. Init => ConsentNoted
  BY DEF Init, ConsentNoted, ConsentOf, Idle
<1>2. TypeOK /\ PhaseOK /\ ConsentNoted /\ [Next]_vars => ConsentNoted'
  BY ConsentNext
<1>3. ConsentNoted => OptOutRespected
  BY DEF ConsentNoted, ConsentOf, OptOutRespected, Delivering
<1> QED
  BY <1>1, <1>2, <1>3, Typed, PTL DEF Spec

-----------------------------------------------------------------------------
(* Statuses. A worker about to write "sent" has an accepted message behind *)
(* it, and so has every row it was written to.                             *)

Backed(n, c) == <<n, c>> \in accepted \/ (c = "in_app" /\ faults > 0)

SentOf(j) ==
  j.at = "record" /\ j.result = "sent" => Backed(j.task.target[1], j.task.channel)

SentBacked == \A w \in Workers : SentOf(run[w])

LEMMA ResumeFaults ==
  ASSUME NEW n, NEW i, NEW ss, Resume(n, i, ss)
  PROVE  UNCHANGED faults \/ Fault
  BY DEF Resume, Succeed

LEMMA BackedMonotone ==
  ASSUME TypeOK, PhaseOK, [Next]_vars
  PROVE  \A n, c : Backed(n, c) => Backed(n, c)'
<1>1. CASE UNCHANGED <<accepted, faults>>
  BY <1>1 DEF Backed
<1>2. CASE UNCHANGED accepted /\ Fault
  BY <1>2 DEF Backed, Fault, TypeOK
<1>3. CASE UNCHANGED faults /\ accepted \subseteq accepted'
  BY <1>3 DEF Backed
<1>4. ASSUME NEW w \in Workers, Handle(w)
      PROVE  \/ UNCHANGED <<accepted, faults>>
             \/ UNCHANGED accepted /\ Fault
             \/ UNCHANGED faults /\ accepted \subseteq accepted'
  BY <1>4 DEF Handle, RunTrigger, RunDelay, Resume, Succeed, CheckRate, ReadWorkflowPref, ReadGlobalPref, Decide, NoRecipient,
         NoIntegration, StepGone, Accepted, Rejected, Call, ScheduleRetry, Record, Ack, events, history
<1>5. ASSUME Api \/ Environment
      PROVE  UNCHANGED <<accepted, faults>>
  BY <1>5 DEF Api, AcceptTrigger, AcceptDirect, Environment, NextWindow, PreferenceWrite, ReadForWorkflow, WriteWorkflowPref, SetGlobalPref,
         ConditionChanges, SetIntegration, EditWorkflow, Change, events, history
<1>6. ASSUME \/ \E w \in Workers, t \in Task : Begin(w, t)
             \/ \E w \in Workers : Redeliver(w)
             \/ \E s \in Subs, i \in Idx : RunDigest(s, i)
      PROVE  UNCHANGED <<accepted, faults>> \/ (UNCHANGED accepted /\ Fault)
  <2>1. ASSUME NEW w \in Workers, NEW t \in Task, Begin(w, t)
        PROVE  UNCHANGED <<accepted, faults>>
    BY <2>1 DEF Begin, events, history
  <2>2. ASSUME NEW w \in Workers, Redeliver(w)
        PROVE  UNCHANGED accepted /\ Fault
    BY <2>2 DEF Redeliver
  <2>3. ASSUME NEW s \in Subs, NEW i \in Idx, RunDigest(s, i)
        PROVE  UNCHANGED <<accepted, faults>> \/ (UNCHANGED accepted /\ Fault)
    <3> DEFINE waiting == {p \in window : p[2] = i /\ SubOf[p[1]] = s}
    <3>1. PICK p \in waiting : Resume(p[1], i, steps)
      BY <2>3 DEF RunDigest
    <3>2. UNCHANGED faults \/ Fault
      BY <3>1, ResumeFaults
    <3>3. accepted' = accepted
      BY <2>3 DEF RunDigest
    <3> QED
      BY <3>2, <3>3
  <2> QED
    BY <1>6, <2>1, <2>2, <2>3
<1>7. CASE Next
  BY <1>1, <1>2, <1>3, <1>4, <1>5, <1>6, <1>7 DEF Next
<1>8. CASE UNCHANGED vars
  BY <1>1, <1>8 DEF vars
<1> QED
  BY <1>7, <1>8

\* The other workers' jobs stay backed, and so do the rows that are not written.
LEMMA SentStep ==
  ASSUME SentBacked, \A n, c : Backed(n, c) => Backed(n, c)', NEW w \in Workers,
         SentOf(run[w])', \A v \in Workers \ {w} : run'[v] = run[v]
  PROVE  SentBacked'
<1> SUFFICES ASSUME NEW v \in Workers PROVE SentOf(run[v])'
  BY DEF SentBacked
<1>1. CASE v = w
  BY <1>1
<1>2. CASE v # w
  BY <1>2 DEF SentBacked, SentOf
<1> QED
  BY <1>1, <1>2

LEMMA TruthKept ==
  ASSUME StatusTruthful, \A n, c : Backed(n, c) => Backed(n, c)', UNCHANGED rows
  PROVE  StatusTruthful'
  BY DEF StatusTruthful, Backed

LEMMA SentBegin ==
  ASSUME TypeOK, SentBacked, \A n, c : Backed(n, c) => Backed(n, c)',
         NEW w \in Workers, NEW t \in Task, Begin(w, t)
  PROVE  SentBacked'
<1>1. run'[w].at # "record" /\ \A v \in Workers \ {w} : run'[v] = run[v]
  BY DEF Begin, TypeOK
<1> QED
  BY <1>1, SentStep DEF SentOf

LEMMA SentHandle ==
  ASSUME TypeOK, PhaseOK, SentBacked, \A n, c : Backed(n, c) => Backed(n, c)',
         NEW w \in Workers, Handle(w) \/ Redeliver(w)
  PROVE  SentBacked'
<1>1. CASE Finish(w)
  BY <1>1, FinishRun, SentStep DEF SentOf, Idle
<1>2. CASE \E p \in {"limited", "inheriting", "checked", "retry", "ack"} : Goto(w, p)
  <2>1. PICK p \in {"limited", "inheriting", "checked", "retry", "ack"} : Goto(w, p)
    BY <1>2
  <2>2. p \in Phase /\ p # "record"
    BY DEF Phase
  <2> QED
    BY <2>1, <2>2, GotoRun, SentStep DEF SentOf
<1>3. CASE \E s \in {"skipped", "failed"} : Settle(w, s)
  <2>1. PICK s \in {"skipped", "failed"} : Settle(w, s)
    BY <1>3
  <2>2. s \in Status /\ s # "sent"
    BY DEF Status
  <2> QED
    BY <2>1, <2>2, SettleRun, SentStep DEF SentOf
<1>4. CASE run' = [run EXCEPT ![w].at = "limited", ![w].fresh = TRUE]
  BY <1>4, LimitedRun, SentStep DEF SentOf, Phase
<1>5. CASE \E p \in {"inheriting", "checked"} : run' = [run EXCEPT ![w].at = p, ![w].consent = TRUE]
  <2>1. PICK p \in {"inheriting", "checked"} : run' = [run EXCEPT ![w].at = p, ![w].consent = TRUE]
    BY <1>5
  <2>2. p \in Phase /\ p # "record"
    BY DEF Phase
  <2>3. run'[w].at = p /\ \A v \in Workers \ {w} : run'[v] = run[v]
    BY <2>1, <2>2, AskedRun
  <2> QED
    BY <2>2, <2>3, SentStep DEF SentOf
<1>6. CASE Accepted(w) /\ Settle(w, "sent")
  <2> DEFINE t == run[w].task
  <2>1. <<t.target[1], t.channel>> \in accepted' \/ (t.channel = "in_app" /\ faults' > 0)
    BY <1>6 DEF Accepted, Fault, TypeOK
  <2>2. /\ run'[w].task = t /\ \A v \in Workers \ {w} : run'[v] = run[v]
    BY <1>6, SettleRun DEF Status
  <2>3. SentOf(run[w])'
    BY <2>1, <2>2 DEF SentOf, Backed
  <2> QED
    BY <2>2, <2>3, SentStep
<1> QED
  BY <1>1, <1>2, <1>3, <1>4, <1>5, <1>6
     DEF Handle, Redeliver, RunTrigger, RunDelay, CheckRate, ReadWorkflowPref, ReadGlobalPref, Decide, NoRecipient, NoIntegration,
         StepGone, Archive, Accepted, Rejected, ScheduleRetry, Record, Ack

LEMMA SentFlags ==
  ASSUME TypeOK, SentBacked, \A n, c : Backed(n, c) => Backed(n, c)',
         NextWindow \/ PreferenceWrite
  PROVE  SentBacked'
<1>1. ASSUME NEW w \in Workers
      PROVE  /\ run'[w].at = run[w].at /\ run'[w].task = run[w].task
             /\ run'[w].result = run[w].result
  <2>1. CASE NextWindow
    BY <1>1, <2>1 DEF NextWindow, TypeOK, Job
  <2>2. CASE PreferenceWrite
    BY <1>1, <2>2, WriteFrame
  <2> QED
    BY <2>1, <2>2
<1> QED
  BY <1>1 DEF SentBacked, SentOf

LEMMA SentNext ==
  ASSUME TypeOK, PhaseOK, SentBacked, [Next]_vars
  PROVE  SentBacked'
<1>1. \A n, c : Backed(n, c) => Backed(n, c)'
  BY BackedMonotone
<1>2. CASE UNCHANGED run
  BY <1>1, <1>2 DEF SentBacked, SentOf
<1>3. CASE \E w \in Workers, t \in Task : Begin(w, t)
  BY <1>1, <1>3, SentBegin
<1>4. CASE \E w \in Workers : Handle(w) \/ Redeliver(w)
  BY <1>1, <1>4, SentHandle
<1>5. CASE NextWindow \/ PreferenceWrite
  BY <1>1, <1>5, SentFlags
<1> QED
  BY <1>2, <1>3, <1>4, <1>5
     DEF Next, Api, AcceptTrigger, AcceptDirect, RunDigest, Environment, PreferenceWrite,
         ConditionChanges, SetIntegration, EditWorkflow, vars

LEMMA TruthTrigger ==
  ASSUME TypeOK, StatusTruthful, \A n, c : Backed(n, c) => Backed(n, c)',
         NEW batch \in SUBSET Notifs, AcceptTrigger(batch)
  PROVE  StatusTruthful'
<1>1. \A n \in Notifs : rows'[n] = IF n \in batch THEN PendingRows(steps) ELSE rows[n]
  BY DEF AcceptTrigger
<1>2. \A k \in Idx : PendingRows(steps)[k].status = "pending"
  BY DEF PendingRows, NoRow
<1> QED
  BY <1>1, <1>2 DEF StatusTruthful, Backed

LEMMA TruthRecord ==
  ASSUME TypeOK, PhaseOK, SentBacked, StatusTruthful, \A n, c : Backed(n, c) => Backed(n, c)',
         NEW w \in Workers, Record(w), ~UNCHANGED rows
  PROVE  StatusTruthful'
<1> DEFINE t == run[w].task
           m == t.target[1]
<1>1. rows' = [rows EXCEPT ![m] = WithStatus(@, t.channel, run[w].result)]
  BY DEF Record
<1>2. SentOf(run[w]) /\ run[w].at = "record"
  BY DEF SentBacked, Record
<1>3. ASSUME NEW n \in Notifs, NEW k \in Idx, rows'[n][k].status = "sent"
      PROVE  \/ <<n, rows'[n][k].channel>> \in accepted'
             \/ rows'[n][k].channel = "in_app" /\ faults' > 0
  <2>1. CASE rows'[n][k] = rows[n][k]
    BY <1>3, <2>1 DEF StatusTruthful, Backed
  <2>2. CASE rows'[n][k] # rows[n][k]
    <3>1. n = m /\ rows'[n][k] = [channel |-> t.channel, status |-> run[w].result]
      BY <1>1, <2>2 DEF WithStatus, TypeOK
    <3> QED
      BY <1>2, <1>3, <3>1 DEF SentOf, Backed
  <2> QED
    BY <2>1, <2>2
<1> QED
  BY <1>3 DEF StatusTruthful

LEMMA TruthNext ==
  ASSUME TypeOK, PhaseOK, SentBacked, StatusTruthful, [Next]_vars
  PROVE  StatusTruthful'
<1>1. \A n, c : Backed(n, c) => Backed(n, c)'
  BY BackedMonotone
<1>2. CASE UNCHANGED rows
  BY <1>1, <1>2, TruthKept
<1>3. CASE \E batch \in SUBSET Notifs : AcceptTrigger(batch)
  BY <1>1, <1>3, TruthTrigger
<1>4. CASE ~UNCHANGED rows /\ \E w \in Workers : Record(w)
  BY <1>1, <1>4, TruthRecord
<1> QED
  BY <1>2, <1>3, <1>4
     DEF Next, Api, AcceptDirect, Begin, RunDigest, Handle, RunTrigger, RunDelay, CheckRate, ReadWorkflowPref, ReadGlobalPref, Decide,
         NoRecipient, NoIntegration, StepGone, Accepted, Rejected, Call, ScheduleRetry, Ack,
         Redeliver, Environment, NextWindow, PreferenceWrite, ReadForWorkflow, WriteWorkflowPref, SetGlobalPref, ConditionChanges, SetIntegration,
         EditWorkflow, documents, preferences, vars

\* No row says "sent" unless the provider took a message for it (or, for in_app,
\* a call failed), whichever worker wrote it and after whatever crash.
THEOREM Truthful == Spec => []StatusTruthful
<1>1. Init => SentBacked /\ StatusTruthful
  BY DEF Init, SentBacked, SentOf, StatusTruthful, Idle, NoRow
<1>2. TypeOK /\ PhaseOK /\ SentBacked /\ StatusTruthful /\ [Next]_vars
        => SentBacked' /\ StatusTruthful'
  BY SentNext, TruthNext
<1> QED
  BY <1>1, <1>2, Typed, PTL DEF Spec

-----------------------------------------------------------------------------
(* Waits. A gate is a control step every notification waits for. Nothing   *)
(* that could start a step behind a gate exists before the gate has fired: *)
(* the delay tasks and digest windows there are stand for steps with no    *)
(* gate before them, and delivery tasks, retried or redelivered, for steps *)
(* that were launched already.                                             *)

Ungated(i) == \A j \in Idx : Gate(j) => j >= i

Cleared(n, i) == \A j \in Idx : Gate(j) /\ j < i => <<n, j>> \in fired

\* A task that waits in asynq or that a worker runs.
Held(t) == queue[t] > 0 \/ \E w \in Workers : run[w].at # "idle" /\ run[w].task = t

DelayInv ==
  edits = 0 =>
    /\ \A w \in Workers : run[w].at # "idle" => run[w].steps = steps
    /\ \A t \in DelayTask : Held(t) => Ungated(t.i)
    /\ \A t \in DeliveryTask : Held(t) => launched[t.target] > 0
    /\ \A p \in window : Ungated(p[2])
    /\ \A n \in Notifs, i \in Idx : launched[<<n, i>>] > 0 => Cleared(n, i)

\* What a step may add: tasks, windows and launches that the gates allow.
LEMMA DelayFrame ==
  ASSUME TypeOK, DelayInv, UNCHANGED <<steps, edits>>, fired \subseteq fired', NEW new,
         \A w \in Workers : run'[w].at # "idle" =>
            run'[w].steps = steps \/ (run[w].at # "idle" /\ run'[w].steps = run[w].steps),
         \A t \in Task : Held(t)' => Held(t) \/ t \in new,
         edits = 0 => \A t \in new : /\ t \in DelayTask => Ungated(t.i)
                                     /\ t \in DeliveryTask => launched'[t.target] > 0,
         \A p \in Targets : launched[p] > 0 => launched'[p] > 0,
         edits = 0 => \A n \in Notifs, i \in Idx :
            launched'[<<n, i>>] > 0 => launched[<<n, i>>] > 0 \/ Cleared(n, i)',
         edits = 0 => \A p \in window' : p \in window \/ Ungated(p[2])
  PROVE  DelayInv'
<1> SUFFICES ASSUME edits = 0 PROVE DelayInv'
  BY DEF DelayInv
<1>1. \A i : Ungated(i)' <=> Ungated(i)
  BY DEF Ungated, Gate
<1>2. \A n, i : Cleared(n, i) => Cleared(n, i)'
  BY DEF Cleared, Gate
<1>3. \A w \in Workers : run'[w].at # "idle" => run'[w].steps = steps'
  BY DEF DelayInv
<1>4. ASSUME NEW t \in DelayTask, Held(t)'
      PROVE  Ungated(t.i)'
  BY <1>1, <1>4 DEF DelayInv, Task
<1>5. ASSUME NEW t \in DeliveryTask, Held(t)'
      PROVE  launched'[t.target] > 0
  BY <1>5, DeliveryFields DEF DelayInv
<1>6. \A p \in window' : Ungated(p[2])'
  BY <1>1 DEF DelayInv
<1>7. \A n \in Notifs, i \in Idx : launched'[<<n, i>>] > 0 => Cleared(n, i)'
  BY <1>2 DEF DelayInv
<1> QED
  BY <1>3, <1>4, <1>5, <1>6, <1>7 DEF DelayInv

\* A worker that goes on with its task, or returns, holds nothing new.
LEMMA HeldKept ==
  ASSUME TypeOK, NEW w \in Workers, NEW new, NEW p \in Phase, NEW s \in Status, run[w].at # "idle",
         \/ Goto(w, p) \/ Settle(w, s) \/ Finish(w)
         \/ run' = [run EXCEPT ![w].at = p, ![w].fresh = TRUE]
         \/ run' = [run EXCEPT ![w].at = p, ![w].consent = TRUE],
         \A t \in Task : queue'[t] > 0 => queue[t] > 0 \/ t \in new
  PROVE  /\ \A t \in Task : Held(t)' => Held(t) \/ t \in new
         /\ \A v \in Workers : run'[v].at # "idle" =>
              run'[v].steps = steps \/ (run[v].at # "idle" /\ run'[v].steps = run[v].steps)
<1>1. \A v \in Workers : run'[v].at # "idle" =>
        run[v].at # "idle" /\ run'[v].steps = run[v].steps /\ run'[v].task = run[v].task
  <2>1. CASE Goto(w, p)
    BY <2>1, GotoRun
  <2>2. CASE Settle(w, s)
    BY <2>2, SettleRun
  <2>3. CASE Finish(w)
    BY <2>3, FinishRun DEF Idle
  <2>4. CASE run' = [run EXCEPT ![w].at = p, ![w].fresh = TRUE]
    BY <2>4, LimitedRun
  <2>5. CASE run' = [run EXCEPT ![w].at = p, ![w].consent = TRUE]
    BY <2>5, AskedRun
  <2> QED
    BY <2>1, <2>2, <2>3, <2>4, <2>5
<1> QED
  BY <1>1 DEF Held

\* A step that adds nothing at all.
LEMMA DelaySame ==
  ASSUME TypeOK, DelayInv, UNCHANGED <<steps, edits, window, fired, launched>>,
         \A w \in Workers : run'[w].at # "idle" =>
            run'[w].steps = steps \/ (run[w].at # "idle" /\ run'[w].steps = run[w].steps),
         \A t \in Task : Held(t)' => Held(t)
  PROVE  DelayInv'
<1>1. PICK new : new = {}
  OBVIOUS
<1>2. /\ \A t \in Task : Held(t)' => Held(t) \/ t \in new
      /\ \A t \in new : FALSE
  BY <1>1
<1>3. fired \subseteq fired' /\ launched' = launched /\ window' = window
  OBVIOUS
<1> QED
  BY <1>2, <1>3, DelayFrame

LEMMA EnqueueHeld ==
  ASSUME TypeOK, NEW ts, Enqueue(ts)
  PROVE  \A t \in Task : queue'[t] > 0 => queue[t] > 0 \/ t \in ts
  BY DEF Enqueue, TypeOK

LEMMA LaunchGrows ==
  ASSUME TypeOK, NEW ts, Launch(ts)
  PROVE  \A p \in Targets : /\ launched[p] > 0 => launched'[p] > 0
                            /\ p \in ts => launched'[p] > 0
                            /\ launched'[p] > 0 => launched[p] > 0 \/ p \in ts
  BY DEF Launch, TypeOK

\* Nothing the trigger handler reaches is behind a gate.
LEMMA ReachedUngated ==
  ASSUME NEW n, NEW i \in Reached(n, steps)
  PROVE  Ungated(i)
  BY DEF Reached, Barriers, Planned, Ungated, Gate

\* A step that resumes after control step i has no gate before it but i.
LEMMA FollowingGates ==
  ASSUME TypeOK, NEW i \in Idx, Ungated(i), NEW k \in Following(steps, i), NEW j \in Idx, Gate(j), j < k
  PROVE  j = i
<1>1. j >= i /\ j \in DOMAIN steps /\ IsControl(steps[j])
  BY DEF Ungated, Gate
<1>2. ~(i < j /\ j <= k)
  BY <1>1 DEF Following
<1>3. k \in Idx
  BY StepType DEF Following, TypeOK
<1> QED
  BY <1>1, <1>2, <1>3, BoundsAssumption DEF Idx

LEMMA TasksOfShape ==
  ASSUME NEW done, NEW ss, NEW t \in TasksOf(done, ss)
  PROVE  \E p \in done :
           \/ ss[p[2]].type = "delay" /\ t = Delay(p)
           \/ ss[p[2]].type \notin Control /\ t = Delivery(p, ss[p[2]].type, 0)
  BY DEF TasksOf, Control

LEMMA TaskShapes ==
  ASSUME NEW p, NEW c, NEW a
  PROVE  /\ Delay(p).i = p[2] /\ Delay(p) \notin DeliveryTask
         /\ Delivery(p, c, a).target = p /\ Delivery(p, c, a) \notin DelayTask
  BY DEF Delay, Delivery, DeliveryTask, DelayTask

LEMMA DelayTrigger ==
  ASSUME TypeOK, PhaseOK, DelayInv, NEW w \in Workers, RunTrigger(w)
  PROVE  DelayInv'
<1> DEFINE t == run[w].task
           ss == run[w].steps
           all == {p \in t.batch \X Idx : p[2] \in Reached(p[1], ss)}
<1>1. t \in TriggerTask /\ run[w].at # "idle"
  BY KindOfTask DEF RunTrigger, PhaseOK, PhaseOf
<1>2. PICK done \in SUBSET all :
        /\ Enqueue(TasksOf(done, ss)) /\ Launch({p \in done : ~IsControl(ss[p[2]])})
        /\ window' = window \cup {p \in done : ss[p[2]].type = "digest"}
  BY DEF RunTrigger
<1>3. /\ UNCHANGED <<steps, edits>> /\ fired \subseteq fired' /\ Goto(w, "ack")
  BY DEF RunTrigger, documents, preferences
<1>4. edits = 0 => ss = steps
  BY <1>1 DEF DelayInv
<1>5. \A p \in done : p \in Notifs \X Idx /\ p \in Targets /\ (edits = 0 => Ungated(p[2]))
  BY <1>1, <1>4, ReachedUngated DEF TriggerTask, Targets
<1>6. edits = 0 => \A u \in TasksOf(done, ss) : /\ u \in DelayTask => Ungated(u.i)
                                                /\ u \in DeliveryTask => launched'[u.target] > 0
  <2> SUFFICES ASSUME edits = 0, NEW u \in TasksOf(done, ss)
               PROVE  /\ u \in DelayTask => Ungated(u.i)
                      /\ u \in DeliveryTask => launched'[u.target] > 0
    OBVIOUS
  <2>1. PICK p \in done : \/ u = Delay(p)
                          \/ ~IsControl(ss[p[2]]) /\ u = Delivery(p, ss[p[2]].type, 0)
    BY TasksOfShape DEF IsControl
  <2>2. CASE u = Delay(p)
    BY <1>5, <2>2, TaskShapes
  <2>3. CASE ~IsControl(ss[p[2]]) /\ u = Delivery(p, ss[p[2]].type, 0)
    BY <1>2, <1>5, <2>3, TaskShapes, LaunchGrows
  <2> QED
    BY <2>1, <2>2, <2>3
<1>7. edits = 0 => \A n \in Notifs, i \in Idx :
        launched'[<<n, i>>] > 0 => launched[<<n, i>>] > 0 \/ Cleared(n, i)'
  <2> SUFFICES ASSUME edits = 0, NEW n \in Notifs, NEW i \in Idx,
                      launched'[<<n, i>>] > 0, ~(launched[<<n, i>>] > 0)
               PROVE  Cleared(n, i)'
    OBVIOUS
  <2>1. <<n, i>> \in done
    BY <1>2, LaunchGrows DEF Targets
  <2>2. Ungated(i)'
    BY <1>3, <1>5, <2>1 DEF Ungated, Gate
  <2> QED
    BY <2>2, BoundsAssumption DEF Ungated, Cleared, Idx
<1>8. /\ \A u \in Task : Held(u)' => Held(u) \/ u \in TasksOf(done, ss)
      /\ \A v \in Workers : run'[v].at # "idle" =>
           run'[v].steps = steps \/ (run[v].at # "idle" /\ run'[v].steps = run[v].steps)
  BY <1>1, <1>2, <1>3, HeldKept, EnqueueHeld DEF Phase, Status
<1>9. edits = 0 => \A p \in window' : p \in window \/ Ungated(p[2])
  BY <1>2, <1>5
<1>10. \A p \in Targets : launched[p] > 0 => launched'[p] > 0
  BY <1>2, LaunchGrows
<1> QED
  BY <1>3, <1>6, <1>7, <1>8, <1>9, <1>10, DelayFrame

\* What resuming after control step i adds, once i has fired.
LEMMA ResumeAdds ==
  ASSUME TypeOK, UNCHANGED steps, NEW n \in Notifs, NEW i \in Idx, NEW ss, Resume(n, i, ss),
         <<n, i>> \in fired', edits = 0 => ss = steps /\ Ungated(i)
  PROVE  \E new :
           /\ \A t \in Task : queue'[t] > 0 => queue[t] > 0 \/ t \in new
           /\ edits = 0 => \A t \in new : /\ t \in DelayTask => Ungated(t.i)
                                          /\ t \in DeliveryTask => launched'[t.target] > 0
           /\ \A p \in Targets : launched[p] > 0 => launched'[p] > 0
           /\ edits = 0 => \A m \in Notifs, k \in Idx :
                launched'[<<m, k>>] > 0 => launched[<<m, k>>] > 0 \/ Cleared(m, k)'
<1> DEFINE all == {<<n, j>> : j \in Following(ss, i)}
<1>1. PICK done \in SUBSET all : Enqueue(TasksOf(done, ss)) /\ Launch(done)
  BY DEF Resume
<1>2. edits = 0 => \A t \in TasksOf(done, ss) : /\ t \in DelayTask => Ungated(t.i)
                                                /\ t \in DeliveryTask => launched'[t.target] > 0
  <2> SUFFICES ASSUME edits = 0, NEW t \in TasksOf(done, ss)
               PROVE  /\ t \in DelayTask => Ungated(t.i)
                      /\ t \in DeliveryTask => launched'[t.target] > 0
    OBVIOUS
  <2>1. PICK p \in done : \/ ss[p[2]].type = "delay" /\ t = Delay(p)
                          \/ t = Delivery(p, ss[p[2]].type, 0)
    BY TasksOfShape
  <2>2. PICK j \in Following(steps, i) : p = <<n, j>>
    BY <2>1
  <2>3. j \in Idx /\ j \in DOMAIN steps /\ ~IsControl(steps[j])
    <3>1. j \in DOMAIN steps /\ j > i
      BY <2>2 DEF Following
    <3>2. j \in Idx
      BY <3>1, StepType DEF TypeOK
    <3>3. i < j /\ j <= j
      BY <3>1, <3>2, BoundsAssumption DEF Idx
    <3> QED
      BY <2>2, <3>1, <3>2, <3>3 DEF Following
  <2>4. t = Delivery(p, ss[p[2]].type, 0)
    BY <2>1, <2>2, <2>3 DEF IsControl, Control
  <2>5. p \in Targets
    BY <2>2, <2>3 DEF Targets
  <2> QED
    BY <1>1, <2>4, <2>5, TaskShapes, LaunchGrows
<1>3. edits = 0 => \A m \in Notifs, k \in Idx :
        launched'[<<m, k>>] > 0 => launched[<<m, k>>] > 0 \/ Cleared(m, k)'
  <2> SUFFICES ASSUME edits = 0, NEW m \in Notifs, NEW k \in Idx,
                      launched'[<<m, k>>] > 0, ~(launched[<<m, k>>] > 0)
               PROVE  Cleared(m, k)'
    OBVIOUS
  <2>1. <<m, k>> \in done
    BY <1>1, LaunchGrows DEF Targets
  <2>2. m = n /\ k \in Following(steps, i)
    BY <2>1
  <2>3. \A j \in Idx : Gate(j)' /\ j < k => j = i
    BY <2>2, FollowingGates DEF Gate
  <2> QED
    BY <2>2, <2>3 DEF Cleared
<1> QED
  <2>1. \A t \in Task : queue'[t] > 0 => queue[t] > 0 \/ t \in TasksOf(done, ss)
    BY <1>1, EnqueueHeld
  <2>2. \A p \in Targets : launched[p] > 0 => launched'[p] > 0
    BY <1>1, LaunchGrows
  <2> QED
    BY <1>2, <1>3, <2>1, <2>2

LEMMA DelayRun ==
  ASSUME TypeOK, PhaseOK, DelayInv, NEW w \in Workers, RunDelay(w)
  PROVE  DelayInv'
<1> DEFINE t == run[w].task
<1>1. t \in DelayTask /\ run[w].at # "idle"
  BY KindOfTask DEF RunDelay, PhaseOK, PhaseOf
<1>2. t.n \in Notifs /\ t.i \in Idx /\ t \in Task
  BY <1>1 DEF DelayTask, Task
<1>3. /\ UNCHANGED <<steps, edits, window>> /\ fired' = fired \cup {<<t.n, t.i>>} /\ Goto(w, "ack")
      /\ Resume(t.n, t.i, run[w].steps)
  BY DEF RunDelay, documents, preferences
<1>4. edits = 0 => run[w].steps = steps /\ Ungated(t.i)
  BY <1>1 DEF DelayInv, Held
<1>5. PICK new :
        /\ \A u \in Task : queue'[u] > 0 => queue[u] > 0 \/ u \in new
        /\ edits = 0 => \A u \in new : /\ u \in DelayTask => Ungated(u.i)
                                       /\ u \in DeliveryTask => launched'[u.target] > 0
        /\ \A p \in Targets : launched[p] > 0 => launched'[p] > 0
        /\ edits = 0 => \A m \in Notifs, k \in Idx :
             launched'[<<m, k>>] > 0 => launched[<<m, k>>] > 0 \/ Cleared(m, k)'
  BY <1>2, <1>3, <1>4, ResumeAdds
<1>6. /\ \A u \in Task : Held(u)' => Held(u) \/ u \in new
      /\ \A v \in Workers : run'[v].at # "idle" =>
           run'[v].steps = steps \/ (run[v].at # "idle" /\ run'[v].steps = run[v].steps)
  BY <1>1, <1>3, <1>5, HeldKept DEF Phase, Status
<1> QED
  BY <1>3, <1>5, <1>6, DelayFrame

LEMMA DelayDigest ==
  ASSUME TypeOK, DelayInv, NEW s \in Subs, NEW i \in Idx, RunDigest(s, i)
  PROVE  DelayInv'
<1> DEFINE waiting == {p \in window : p[2] = i /\ SubOf[p[1]] = s}
<1>1. PICK read \in SUBSET waiting :
        /\ window' = window \ waiting /\ fired' = fired \cup read
        /\ \E p \in read : Resume(p[1], i, steps)
  BY DEF RunDigest
<1>2. PICK p \in read : Resume(p[1], i, steps)
  BY <1>1
<1>3. /\ UNCHANGED <<steps, edits, run>> /\ fired' = fired \cup read /\ window' = window \ waiting
  BY <1>1 DEF RunDigest, documents, preferences
<1>4. p[1] \in Notifs /\ <<p[1], i>> \in fired'
  <2>1. p \in Notifs \X Idx /\ p[2] = i
    BY DEF TypeOK
  <2>2. p = <<p[1], i>> /\ p \in fired'
    BY <1>3, <2>1
  <2> QED
    BY <2>1, <2>2
<1>5. edits = 0 => Ungated(i)
  BY DEF DelayInv
<1>6. PICK new :
        /\ \A u \in Task : queue'[u] > 0 => queue[u] > 0 \/ u \in new
        /\ edits = 0 => \A u \in new : /\ u \in DelayTask => Ungated(u.i)
                                       /\ u \in DeliveryTask => launched'[u.target] > 0
        /\ \A q \in Targets : launched[q] > 0 => launched'[q] > 0
        /\ edits = 0 => \A m \in Notifs, k \in Idx :
             launched'[<<m, k>>] > 0 => launched[<<m, k>>] > 0 \/ Cleared(m, k)'
  BY <1>2, <1>3, <1>4, <1>5, ResumeAdds
<1>7. \A u \in Task : Held(u)' => Held(u) \/ u \in new
  BY <1>3, <1>6 DEF Held
<1> QED
  BY <1>3, <1>6, <1>7, DelayFrame

LEMMA DelayBegin ==
  ASSUME TypeOK, DelayInv, NEW w \in Workers, NEW t \in Task, Begin(w, t)
  PROVE  DelayInv'
<1>1. /\ \A v \in Workers \ {w} : run'[v] = run[v]
      /\ run'[w].task = t /\ run'[w].steps = steps
  BY DEF Begin, TypeOK
<1>2. queue[t] > 0 /\ \A u \in Task : queue'[u] > 0 => queue[u] > 0
  BY DEF Begin, TypeOK
<1>3. UNCHANGED <<steps, edits, window, fired, launched>>
  BY DEF Begin, documents, preferences, history, events
<1>4. \A u \in Task : Held(u)' => Held(u)
  BY <1>1, <1>2 DEF Held
<1> QED
  BY <1>1, <1>3, <1>4, DelaySame

\* The steps of the delivery handler that enqueue nothing.
Delivers(w) ==
  \/ CheckRate(w) \/ ReadWorkflowPref(w) \/ ReadGlobalPref(w)
  \/ NoRecipient(w) \/ NoIntegration(w) \/ StepGone(w)
  \/ Accepted(w) \/ Rejected(w) \/ Record(w) \/ Ack(w)

LEMMA DeliversHeld ==
  ASSUME TypeOK, NEW w \in Workers, Delivers(w)
  PROVE  /\ run[w].at # "idle" /\ UNCHANGED <<steps, edits, created, window, fired, launched, queue>>
         /\ \A t \in Task : Held(t)' => Held(t)
         /\ \A v \in Workers : run'[v].at # "idle" =>
              run'[v].steps = steps \/ (run[v].at # "idle" /\ run'[v].steps = run[v].steps)
<1>1. run[w].at # "idle" /\ UNCHANGED <<steps, edits, created, window, fired, launched, queue>>
  BY DEF Delivers, CheckRate, ReadWorkflowPref, ReadGlobalPref, Decide, NoRecipient, NoIntegration,
         StepGone, Accepted, Rejected, Call, Sendable, Delivering, Record, Ack, documents, preferences,
         history, events
<1>2. \E p \in Phase, s \in Status :
        \/ Goto(w, p) \/ Settle(w, s) \/ Finish(w)
        \/ run' = [run EXCEPT ![w].at = p, ![w].fresh = TRUE]
        \/ run' = [run EXCEPT ![w].at = p, ![w].consent = TRUE]
  <2>1. {"limited", "inheriting", "checked", "retry", "ack"} \subseteq Phase /\ {"skipped", "failed", "sent"} \subseteq Status
    BY DEF Phase, Status
  <2>2. CASE CheckRate(w) \/ ReadWorkflowPref(w) \/ ReadGlobalPref(w)
    BY <2>1, <2>2 DEF CheckRate, ReadWorkflowPref, ReadGlobalPref, Decide
  <2>3. CASE NoRecipient(w) \/ NoIntegration(w) \/ StepGone(w) \/ Ack(w) \/ Record(w)
    BY <2>1, <2>3 DEF NoRecipient, NoIntegration, StepGone, Archive, Ack, Record
  <2>4. CASE Accepted(w) \/ Rejected(w)
    BY <2>1, <2>4 DEF Accepted, Rejected, Archive
  <2> QED
    BY <2>2, <2>3, <2>4 DEF Delivers
<1>3. PICK new : new = {}
  OBVIOUS
<1>4. \A u \in Task : queue'[u] > 0 => queue[u] > 0 \/ u \in new
  BY <1>1
<1>5. /\ \A u \in Task : Held(u)' => Held(u) \/ u \in new
      /\ \A v \in Workers : run'[v].at # "idle" =>
           run'[v].steps = steps \/ (run[v].at # "idle" /\ run'[v].steps = run[v].steps)
  BY <1>1, <1>2, <1>4, HeldKept
<1> QED
  BY <1>1, <1>3, <1>5

LEMMA DelayDelivery ==
  ASSUME TypeOK, DelayInv, NEW w \in Workers, Delivers(w)
  PROVE  DelayInv'
  BY DeliversHeld, DelaySame

\* A retry or a redelivery repeats a delivery that was launched, or holds the
\* same delay or trigger task as before.
LEMMA DelayRepeat ==
  ASSUME TypeOK, PhaseOK, DelayInv, NEW w \in Workers, ScheduleRetry(w) \/ Redeliver(w)
  PROVE  DelayInv'
<1> DEFINE t == run[w].task
           retry == Delivery(t.target, t.channel, NextAttempt(t.attempt))
           new == {t} \cup (IF t \in DeliveryTask THEN {retry} ELSE {})
<1>1. run[w].at # "idle" /\ t \in Task /\ Held(t)
  BY DEF ScheduleRetry, Redeliver, PhaseOK, PhaseOf, Held
<1>2. UNCHANGED <<steps, edits, window, fired>>
  BY DEF ScheduleRetry, Redeliver, documents, preferences, history
<1>3. /\ \A u \in Task : queue'[u] > 0 => queue[u] > 0 \/ u \in new
      /\ Goto(w, "ack") \/ Finish(w)
  <2>1. CASE ScheduleRetry(w)
    <3>1. t \in DeliveryTask
      BY <2>1 DEF ScheduleRetry, PhaseOK, PhaseOf
    <3> QED
      BY <2>1, <3>1, EnqueueHeld DEF ScheduleRetry
  <2>2. CASE Redeliver(w)
    BY <1>1, <2>2 DEF Redeliver, TypeOK
  <2> QED
    BY <2>1, <2>2
<1>4. /\ \A p \in Targets : launched[p] > 0 => launched'[p] > 0
      /\ \A p \in Targets : launched'[p] > 0 => launched[p] > 0 \/ (t \in DeliveryTask /\ p = t.target)
  BY <1>1, LaunchGrows, KindOfTask DEF ScheduleRetry, Redeliver, history
<1>5. edits = 0 => /\ t \in DelayTask => Ungated(t.i)
                   /\ t \in DeliveryTask => launched[t.target] > 0
  BY <1>1 DEF DelayInv
<1>6. edits = 0 => \A u \in new : /\ u \in DelayTask => Ungated(u.i)
                                  /\ u \in DeliveryTask => launched'[u.target] > 0
  BY <1>4, <1>5, TaskShapes, DeliveryFields
<1>7. edits = 0 => \A n \in Notifs, i \in Idx :
        launched'[<<n, i>>] > 0 => launched[<<n, i>>] > 0 \/ Cleared(n, i)'
  BY <1>4, <1>5 DEF Targets
<1>8. /\ \A u \in Task : Held(u)' => Held(u) \/ u \in new
      /\ \A v \in Workers : run'[v].at # "idle" =>
           run'[v].steps = steps \/ (run[v].at # "idle" /\ run'[v].steps = run[v].steps)
  <2> HIDE DEF new
  <2> QED
    BY <1>1, <1>3, HeldKept DEF Phase, Status
<1> HIDE DEF new
<1> QED
  BY <1>2, <1>4, <1>6, <1>7, <1>8, DelayFrame

LEMMA DelayApi ==
  ASSUME TypeOK, DelayInv, Api
  PROVE  DelayInv'
<1>1. ASSUME NEW batch \in SUBSET Notifs, AcceptTrigger(batch)
      PROVE  DelayInv'
  <2>1. PICK new : new = {Trigger(batch)}
    OBVIOUS
  <2>2. \A t \in Task : queue'[t] > 0 => queue[t] > 0 \/ t \in new
    BY <1>1, <2>1, EnqueueHeld DEF AcceptTrigger
  <2>3. Trigger(batch) \notin DelayTask /\ Trigger(batch) \notin DeliveryTask
    BY DEF Trigger, DelayTask, DeliveryTask
  <2>4. UNCHANGED <<steps, edits, window, run>> /\ fired' = fired /\ launched' = launched
    BY <1>1 DEF AcceptTrigger, history, events
  <2>5. \A t \in Task : Held(t)' => Held(t) \/ t \in new
    BY <2>2, <2>4 DEF Held
  <2> QED
    BY <2>1, <2>3, <2>4, <2>5, DelayFrame
<1>2. ASSUME NEW d \in Directs, NEW c \in Channels, AcceptDirect(d, c)
      PROVE  DelayInv'
  <2> DEFINE t == Delivery(<<d, 0>>, c, 0)
  <2>1. PICK new : new = {t}
    OBVIOUS
  <2>2. \A u \in Task : queue'[u] > 0 => queue[u] > 0 \/ u \in new
    BY <1>2, <2>1, EnqueueHeld DEF AcceptDirect
  <2>3. /\ \A p \in Targets : launched[p] > 0 => launched'[p] > 0
        /\ \A p \in Targets : launched'[p] > 0 => launched[p] > 0 \/ p = <<d, 0>>
        /\ launched'[<<d, 0>>] > 0
    BY <1>2, LaunchGrows DEF AcceptDirect, Targets
  <2>4. t \notin DelayTask /\ t.target = <<d, 0>>
    BY TaskShapes
  <2>5. UNCHANGED <<steps, edits, window, run>> /\ fired' = fired
    BY <1>2 DEF AcceptDirect, events
  <2>6. \A u \in Task : Held(u)' => Held(u) \/ u \in new
    BY <2>2, <2>5 DEF Held
  <2>7. \A n \in Notifs, i \in Idx : launched'[<<n, i>>] > 0 => launched[<<n, i>>] > 0
    BY <2>3, DisjointAssumption DEF Targets
  <2> HIDE DEF t
  <2> QED
    BY <2>1, <2>3, <2>4, <2>5, <2>6, <2>7, DelayFrame
<1> QED
  BY <1>1, <1>2 DEF Api

LEMMA DelayEnvironment ==
  ASSUME TypeOK, DelayInv, Environment
  PROVE  DelayInv'
<1>1. CASE \E ss \in Workflows, a \in BOOLEAN : EditWorkflow(ss, a)
  BY <1>1 DEF EditWorkflow, DelayInv, TypeOK
<1>2. CASE NextWindow \/ PreferenceWrite
  <2>1. ASSUME NEW w \in Workers
        PROVE  run'[w].at = run[w].at /\ run'[w].task = run[w].task /\ run'[w].steps = run[w].steps
    <3>1. CASE NextWindow
      BY <2>1, <3>1 DEF NextWindow, TypeOK, Job
    <3>2. CASE PreferenceWrite
      BY <2>1, <3>2, WriteFrame
    <3> QED
      BY <1>2, <3>1, <3>2
  <2>2. UNCHANGED <<steps, edits, window, fired, launched, queue>>
    BY <1>2, WriteFrame DEF NextWindow, documents, history, events
  <2>3. \A t \in Task : Held(t)' => Held(t)
    BY <2>1, <2>2 DEF Held
  <2> QED
    BY <2>1, <2>2, <2>3, DelaySame
<1>3. CASE UNCHANGED <<steps, edits, window, fired, launched, queue, run>>
  BY <1>3, DelaySame DEF Held
<1> QED
  BY <1>1, <1>2, <1>3 DEF Environment, PreferenceWrite, ConditionChanges, SetIntegration, history

LEMMA DelayNext ==
  ASSUME TypeOK, PhaseOK, DelayInv, [Next]_vars
  PROVE  DelayInv'
<1>1. ASSUME NEW w \in Workers, Handle(w) \/ Redeliver(w)
      PROVE  DelayInv'
  BY <1>1, DelayTrigger, DelayRun, DelayDelivery, DelayRepeat DEF Handle, Delivers
<1>2. CASE UNCHANGED vars
  BY <1>2, DelaySame DEF vars, Held
<1> QED
  BY <1>1, <1>2, DelayApi, DelayBegin, DelayDigest, DelayEnvironment DEF Next

\* No step behind an unconditional delay or digest is handed to a worker before
\* that wait is over, for any workflow that is not edited meanwhile.
THEOREM Waits == Spec => []DelayRespected
<1>1. Init => DelayInv
  <2> SUFFICES ASSUME Init PROVE DelayInv
    OBVIOUS
  <2>1. \A w \in Workers : run[w].at = "idle"
    BY DEF Init, Idle
  <2>2. \A t \in Task : ~Held(t)
    BY <2>1 DEF Init, Held
  <2>3. \A p \in Targets : ~(launched[p] > 0)
    BY DEF Init
  <2> QED
    BY <2>1, <2>2, <2>3 DEF Init, DelayInv, Task, Targets
<1>2. TypeOK /\ PhaseOK /\ DelayInv /\ [Next]_vars => DelayInv'
  BY DelayNext
<1>3. DelayInv => DelayRespected
  BY DEF DelayInv, Cleared, DelayRespected
<1> QED
  BY <1>1, <1>2, <1>3, Typed, PTL DEF Spec


-----------------------------------------------------------------------------
(* The rate limit. The limiter admits before the provider is called, so    *)
(* what is bounded is the calls made together with the workers that were   *)
(* admitted in this window and have not called yet.                        *)

\* A job that was admitted in this window and may still call the provider.
InFlight(j, k) ==
  /\ j.at \in {"limited", "inheriting", "checked"} /\ j.fresh
  /\ j.task.kind = "delivery" /\ KeyOf(j.task) = k

Flight(k) == {w \in Workers : InFlight(run[w], k)}

\* How many the counter let pass: it goes on counting those it refuses.
Admitted(k) == IF count[k] <= MaxPerWindow THEN count[k] ELSE MaxPerWindow

RateOf(k) ==
  /\ IsFiniteSet(Flight(k))
  /\ used[k] + Cardinality(Flight(k)) <= Admitted(k) + failOpen[k]

\* A worker that has not asked the limiter yet was admitted by nothing.
FreshOf(j) == j.at = "begun" => ~j.fresh

RateInv == (\A w \in Workers : FreshOf(run[w])) /\ \A k \in Key : RateOf(k)

LEMMA AdmittedType ==
  ASSUME TypeOK, NEW k \in Key
  PROVE  Admitted(k) \in Nat /\ Admitted(k) <= MaxPerWindow
  BY BoundsAssumption DEF Admitted, TypeOK

\* Nobody is admitted: the workers in flight can only become fewer.
LEMMA RateShrinks ==
  ASSUME TypeOK, TypeOK', NEW k \in Key, RateOf(k), Flight(k)' \subseteq Flight(k),
         used'[k] = used[k], count'[k] = count[k], failOpen'[k] = failOpen[k]
  PROVE  RateOf(k)'
<1> DEFINE F == Flight(k)
           G == Flight(k)'
<1>1. IsFiniteSet(F) /\ used[k] + Cardinality(F) <= Admitted(k) + failOpen[k]
  BY DEF RateOf
<1>2. IsFiniteSet(G) /\ Cardinality(G) <= Cardinality(F)
  BY <1>1, FS_Subset
<1>3. Cardinality(F) \in Nat /\ Cardinality(G) \in Nat
  BY <1>1, <1>2, FS_CardinalityType
<1>4. Admitted(k)' = Admitted(k) /\ Admitted(k) \in Nat
  BY AdmittedType DEF Admitted
<1>5. used[k] \in Nat /\ failOpen[k] \in Nat
  BY DEF TypeOK
<1> HIDE DEF F, G
<1>6. used'[k] + Cardinality(G) <= Admitted(k)' + failOpen'[k]
  BY <1>1, <1>2, <1>3, <1>4, <1>5
<1> QED
  BY <1>2, <1>6 DEF RateOf, G

\* One worker moves, and nobody else is looked at.
LEMMA FlightStep ==
  ASSUME NEW w \in Workers, \A v \in Workers \ {w} : run'[v] = run[v], NEW k,
         InFlight(run[w], k)' => InFlight(run[w], k)
  PROVE  Flight(k)' \subseteq Flight(k)
  BY DEF Flight, InFlight, KeyOf

LEMMA RateMove ==
  ASSUME TypeOK, TypeOK', RateInv, UNCHANGED limiter,
         NEW w \in Workers, \A v \in Workers \ {w} : run'[v] = run[v],
         FreshOf(run[w])', \A k \in Key : InFlight(run[w], k)' => InFlight(run[w], k)
  PROVE  RateInv'
<1>1. ASSUME NEW k \in Key
      PROVE  RateOf(k)'
  <2>1. Flight(k)' \subseteq Flight(k)
    BY FlightStep
  <2> QED
    BY <2>1, RateShrinks DEF RateInv, limiter
<1>2. ASSUME NEW v \in Workers
      PROVE  FreshOf(run[v])'
  <2>1. CASE v = w
    BY <2>1
  <2>2. CASE v # w
    BY <2>2 DEF RateInv, FreshOf
  <2> QED
    BY <2>1, <2>2
<1> QED
  BY <1>1, <1>2 DEF RateInv

\* Out of the phases between the limiter and the provider.
LEMMA RateLeave ==
  ASSUME TypeOK, TypeOK', RateInv, UNCHANGED limiter,
         NEW w \in Workers, \A v \in Workers \ {w} : run'[v] = run[v],
         run'[w].at \notin {"begun", "limited", "inheriting", "checked"}
  PROVE  RateInv'
<1>1. FreshOf(run[w])' /\ \A k \in Key : ~InFlight(run[w], k)'
  BY DEF FreshOf, InFlight
<1> QED
  BY <1>1, RateMove

LEMMA RateBegin ==
  ASSUME TypeOK, TypeOK', RateInv, NEW w \in Workers, NEW t \in Task, Begin(w, t)
  PROVE  RateInv'
<1>1. ~run'[w].fresh /\ \A v \in Workers \ {w} : run'[v] = run[v]
  BY DEF Begin, TypeOK
<1>2. UNCHANGED limiter
  BY DEF Begin
<1>3. FreshOf(run[w])' /\ \A k \in Key : ~InFlight(run[w], k)'
  BY <1>1 DEF FreshOf, InFlight
<1> QED
  BY <1>1, <1>2, <1>3, RateMove

\* The limiter is asked: refused, it counts one more and admits nobody; admitted,
\* or in error, one more worker is in flight and one more is accounted for.
LEMMA RateCheck ==
  ASSUME TypeOK, PhaseOK, TypeOK', RateInv, NEW w \in Workers, CheckRate(w)
  PROVE  RateInv'
<1> DEFINE t == run[w].task
           k == KeyOf(t)
<1>1. run[w].at = "begun" /\ t.kind = "delivery" /\ ~run[w].fresh /\ k \in Key
  BY KindOfTask, DeliveryFields DEF CheckRate, Delivering, RateInv, FreshOf, PhaseOK, PhaseOf
<1>2. \A j \in Key : w \notin Flight(j)
  BY <1>1 DEF Flight, InFlight
<1>3. used' = used /\ used \in [Key -> Nat] /\ count \in [Key -> Nat] /\ failOpen \in [Key -> Nat]
  BY DEF CheckRate, limiter, TypeOK
<1>4. CASE Goto(w, "limited") /\ UNCHANGED limiter
  <2>1. /\ \A v \in Workers \ {w} : run'[v] = run[v]
        /\ run'[w].at = "limited" /\ run'[w].fresh = run[w].fresh
    BY <1>4, GotoRun DEF Phase
  <2>2. FreshOf(run[w])' /\ \A j \in Key : ~InFlight(run[w], j)'
    BY <1>1, <2>1 DEF FreshOf, InFlight
  <2> QED
    BY <1>4, <2>1, <2>2, RateMove
<1>5. CASE Settle(w, "skipped") /\ Exceeded(k) /\ count' = [count EXCEPT ![k] = @ + 1]
           /\ failOpen' = failOpen
  <2>1. /\ \A v \in Workers \ {w} : run'[v] = run[v]
        /\ run'[w].at = "record"
    BY <1>5, SettleRun DEF Status
  <2>2. ASSUME NEW j \in Key
        PROVE  RateOf(j)'
    <3>1. Flight(j)' \subseteq Flight(j)
      BY <2>1, FlightStep DEF InFlight
    <3>2. CASE j # k
      <4>1. count'[j] = count[j]
        BY <1>3, <1>5, <3>2
      <4> QED
        BY <1>3, <1>5, <3>1, <4>1, RateShrinks DEF RateInv
    <3>3. CASE j = k
      <4>1. Admitted(j) <= Admitted(j)' /\ Admitted(j) \in Nat /\ Admitted(j)' \in Nat
        BY <1>3, <1>5, <3>3, BoundsAssumption DEF Admitted
      <4>2. IsFiniteSet(Flight(j)) /\ used[j] + Cardinality(Flight(j)) <= Admitted(j) + failOpen[j]
        BY DEF RateInv, RateOf
      <4>3. IsFiniteSet(Flight(j)') /\ Cardinality(Flight(j)') <= Cardinality(Flight(j))
        BY <3>1, <4>2, FS_Subset
      <4>4. Cardinality(Flight(j)) \in Nat /\ Cardinality(Flight(j)') \in Nat
        BY <4>2, <4>3, FS_CardinalityType
      <4>5. used[j] \in Nat /\ failOpen[j] \in Nat
        BY <1>3
      <4>6. used'[j] + Cardinality(Flight(j)') <= Admitted(j)' + failOpen'[j]
        BY <1>3, <1>5, <4>1, <4>2, <4>3, <4>4, <4>5
      <4> QED
        BY <4>3, <4>6 DEF RateOf
    <3> QED
      BY <3>2, <3>3
  <2>3. ASSUME NEW v \in Workers
        PROVE  FreshOf(run[v])'
    BY <2>1 DEF RateInv, FreshOf
  <2> QED
    BY <2>2, <2>3 DEF RateInv
<1>6. CASE /\ run' = [run EXCEPT ![w].at = "limited", ![w].fresh = TRUE]
           /\ \/ ~Exceeded(k) /\ count' = [count EXCEPT ![k] = @ + 1] /\ failOpen' = failOpen
              \/ failOpen' = [failOpen EXCEPT ![k] = @ + 1] /\ count' = count
  <2>1. /\ \A v \in Workers \ {w} : run'[v] = run[v]
        /\ run'[w].at = "limited" /\ run'[w].fresh /\ run'[w].task = t
    BY <1>6, LimitedRun DEF Phase
  <2>2. ASSUME NEW j \in Key
        PROVE  RateOf(j)'
    <3>1. CASE j # k
      <4>1. Flight(j)' \subseteq Flight(j)
        BY <2>1, <3>1, FlightStep DEF InFlight, KeyOf
      <4>2. count'[j] = count[j] /\ failOpen'[j] = failOpen[j]
        BY <1>3, <1>6, <3>1
      <4> QED
        BY <1>3, <4>1, <4>2, RateShrinks DEF RateInv
    <3>2. CASE j = k
      <4>1. Flight(j)' = Flight(j) \cup {w}
        BY <1>1, <2>1, <3>2 DEF Flight, InFlight, KeyOf
      <4>2. IsFiniteSet(Flight(j)) /\ used[j] + Cardinality(Flight(j)) <= Admitted(j) + failOpen[j]
        BY DEF RateInv, RateOf
      <4>3. IsFiniteSet(Flight(j)') /\ Cardinality(Flight(j)') = Cardinality(Flight(j)) + 1
        BY <1>2, <4>1, <4>2, FS_AddElement
      <4>4. Cardinality(Flight(j)) \in Nat
        BY <4>2, FS_CardinalityType
      <4>5. /\ Admitted(j)' + failOpen'[j] = Admitted(j) + failOpen[j] + 1
            /\ Admitted(j) \in Nat /\ used[j] \in Nat /\ failOpen[j] \in Nat
        BY <1>3, <1>6, <3>2, BoundsAssumption DEF Admitted, Exceeded
      <4>6. used'[j] + Cardinality(Flight(j)') <= Admitted(j)' + failOpen'[j]
        BY <1>3, <4>2, <4>3, <4>4, <4>5
      <4> QED
        BY <4>3, <4>6 DEF RateOf
    <3> QED
      BY <3>1, <3>2
  <2>3. ASSUME NEW v \in Workers
        PROVE  FreshOf(run[v])'
    BY <2>1 DEF RateInv, FreshOf
  <2> QED
    BY <2>2, <2>3 DEF RateInv
<1> QED
  BY <1>4, <1>5, <1>6 DEF CheckRate, limiter

\* The provider is called: a worker leaves the flight and is counted as used.
LEMMA RateCall ==
  ASSUME TypeOK, PhaseOK, TypeOK', RateInv, NEW w \in Workers, Call(w),
         \A v \in Workers \ {w} : run'[v] = run[v],
         run'[w].at \notin {"begun", "limited", "inheriting", "checked"}
  PROVE  RateInv'
<1> DEFINE t == run[w].task
           k == KeyOf(t)
<1>1. run[w].at = "checked" /\ t.kind = "delivery" /\ k \in Key
  BY DeliveringTask, DeliveryFields DEF Call, Sendable, Delivering, Phase
<1>2. /\ used' = IF run[w].fresh THEN [used EXCEPT ![k] = @ + 1] ELSE used
      /\ count' = count /\ failOpen' = failOpen
      /\ used \in [Key -> Nat] /\ count \in [Key -> Nat] /\ failOpen \in [Key -> Nat]
  BY DEF Call, TypeOK
<1>3. ASSUME NEW j \in Key
      PROVE  RateOf(j)'
  <2>1. Flight(j)' \subseteq Flight(j) /\ w \notin Flight(j)'
    BY FlightStep DEF InFlight, Flight
  <2>2. CASE j # k \/ ~run[w].fresh
    BY <1>2, <2>1, <2>2, RateShrinks DEF RateInv
  <2>3. CASE j = k /\ run[w].fresh
    <3>1. w \in Flight(j)
      BY <1>1, <2>3 DEF Flight, InFlight
    <3>2. IsFiniteSet(Flight(j)) /\ used[j] + Cardinality(Flight(j)) <= Admitted(j) + failOpen[j]
      BY DEF RateInv, RateOf
    <3>3. IsFiniteSet(Flight(j) \ {w}) /\ Cardinality(Flight(j) \ {w}) = Cardinality(Flight(j)) - 1
      BY <3>1, <3>2, FS_RemoveElement
    <3>4. Flight(j)' \subseteq Flight(j) \ {w}
      BY <2>1
    <3>5. IsFiniteSet(Flight(j)') /\ Cardinality(Flight(j)') <= Cardinality(Flight(j)) - 1
      BY <3>3, <3>4, FS_Subset
    <3>6. Cardinality(Flight(j)) \in Nat /\ Cardinality(Flight(j)') \in Nat
      BY <3>2, <3>5, FS_CardinalityType
    <3>7. used'[j] = used[j] + 1 /\ used[j] \in Nat /\ failOpen'[j] = failOpen[j] /\ failOpen[j] \in Nat
      BY <1>2, <2>3
    <3>8. Admitted(j)' = Admitted(j) /\ Admitted(j) \in Nat
      BY <1>2, AdmittedType DEF Admitted
    <3>9. used'[j] + Cardinality(Flight(j)') <= Admitted(j)' + failOpen'[j]
      BY <3>2, <3>5, <3>6, <3>7, <3>8
    <3> QED
      BY <3>5, <3>9 DEF RateOf
  <2> QED
    BY <2>2, <2>3
<1>4. ASSUME NEW v \in Workers
      PROVE  FreshOf(run[v])'
  BY DEF RateInv, FreshOf
<1> QED
  BY <1>3, <1>4 DEF RateInv

\* The preference check keeps the worker in flight or lets it go.
LEMMA RateReads ==
  ASSUME TypeOK, TypeOK', RateInv, NEW w \in Workers, ReadWorkflowPref(w) \/ ReadGlobalPref(w)
  PROVE  RateInv'
<1>1. UNCHANGED limiter /\ run[w].at \in {"limited", "inheriting"}
  BY DEF ReadWorkflowPref, ReadGlobalPref, Delivering
<1>2. CASE Settle(w, "skipped")
  <2>1. run'[w].at = "record" /\ \A v \in Workers \ {w} : run'[v] = run[v]
    BY <1>2, SettleRun DEF Status
  <2> QED
    BY <1>1, <2>1, RateLeave
<1>3. ASSUME NEW p \in {"inheriting", "checked"},
             Goto(w, p) \/ run' = [run EXCEPT ![w].at = p, ![w].consent = TRUE]
      PROVE  RateInv'
  <2>1. /\ run'[w].at = p /\ run'[w].fresh = run[w].fresh /\ run'[w].task = run[w].task
        /\ \A v \in Workers \ {w} : run'[v] = run[v]
    BY <1>3, GotoRun, AskedRun DEF Phase
  <2>2. FreshOf(run[w])' /\ \A k \in Key : InFlight(run[w], k)' => InFlight(run[w], k)
    BY <1>1, <2>1 DEF FreshOf, InFlight, KeyOf
  <2> QED
    BY <1>1, <2>1, <2>2, RateMove
<1> QED
  BY <1>2, <1>3 DEF ReadWorkflowPref, ReadGlobalPref, Decide

LEMMA RateHandle ==
  ASSUME TypeOK, PhaseOK, TypeOK', RateInv, NEW w \in Workers, Handle(w) \/ Redeliver(w)
  PROVE  RateInv'
<1>1. CASE CheckRate(w) \/ ReadWorkflowPref(w) \/ ReadGlobalPref(w)
  BY <1>1, RateCheck, RateReads
<1>2. ASSUME \/ Goto(w, "ack") \/ Goto(w, "retry") \/ Finish(w)
             \/ Settle(w, "sent") \/ Settle(w, "failed")
      PROVE  /\ run'[w].at \notin {"begun", "limited", "inheriting", "checked"}
             /\ \A v \in Workers \ {w} : run'[v] = run[v]
  BY <1>2, GotoRun, SettleRun, FinishRun DEF Phase, Status, Idle
<1>3. CASE Accepted(w) \/ Rejected(w)
  BY <1>2, <1>3, RateCall DEF Accepted, Rejected, Archive
<1>4. CASE \/ RunTrigger(w) \/ RunDelay(w) \/ NoRecipient(w) \/ NoIntegration(w) \/ StepGone(w)
           \/ ScheduleRetry(w) \/ Record(w) \/ Ack(w) \/ Redeliver(w)
  <2>1. UNCHANGED limiter
    BY <1>4 DEF RunTrigger, RunDelay, NoRecipient, NoIntegration, StepGone, ScheduleRetry, Record, Ack, Redeliver
  <2>2. /\ run'[w].at \notin {"begun", "limited", "inheriting", "checked"}
        /\ \A v \in Workers \ {w} : run'[v] = run[v]
    BY <1>2, <1>4 DEF RunTrigger, RunDelay, NoRecipient, NoIntegration, StepGone, ScheduleRetry, Record, Ack, Redeliver, Archive
  <2> QED
    BY <2>1, <2>2, RateLeave
<1> QED
  BY <1>1, <1>3, <1>4 DEF Handle

\* A new window: no calls yet, and nobody in flight counts against it.
LEMMA RateWindow ==
  ASSUME TypeOK, TypeOK', NextWindow
  PROVE  RateInv'
<1>1. ASSUME NEW w \in Workers
      PROVE  ~run'[w].fresh
  BY DEF NextWindow, TypeOK, Job
<1>2. ASSUME NEW k \in Key
      PROVE  RateOf(k)'
  <2>1. Flight(k)' = {}
    BY <1>1 DEF Flight, InFlight
  <2>2. used'[k] = 0 /\ failOpen'[k] = 0 /\ Admitted(k)' = 0
    BY BoundsAssumption DEF NextWindow, Admitted
  <2> QED
    BY <2>1, <2>2, FS_EmptySet DEF RateOf
<1> QED
  BY <1>1, <1>2 DEF RateInv, FreshOf

\* Preference writes leave the jobs where they are.
LEMMA RateWrite ==
  ASSUME TypeOK, TypeOK', RateInv, PreferenceWrite
  PROVE  RateInv'
<1>1. /\ UNCHANGED limiter
      /\ \A w \in Workers : run'[w].at = run[w].at /\ run'[w].task = run[w].task /\ run'[w].fresh = run[w].fresh
  BY WriteFrame
<1>2. ASSUME NEW j \in Key
      PROVE  RateOf(j)'
  <2>1. Flight(j)' \subseteq Flight(j)
    BY <1>1 DEF Flight, InFlight, KeyOf
  <2> QED
    BY <1>1, <2>1, RateShrinks DEF RateInv, limiter
<1> QED
  BY <1>1, <1>2 DEF RateInv, FreshOf

LEMMA RateNext ==
  ASSUME TypeOK, PhaseOK, TypeOK', RateInv, [Next]_vars
  PROVE  RateInv'
<1>1. CASE UNCHANGED <<run, limiter>>
  <2>1. ASSUME NEW k \in Key
        PROVE  RateOf(k)'
    BY <1>1, RateShrinks DEF RateInv, limiter, Flight, InFlight, KeyOf
  <2> QED
    BY <1>1, <2>1 DEF RateInv, FreshOf
<1>2. CASE UNCHANGED vars
  BY <1>1, <1>2 DEF vars, limiter
<1>3. CASE \E s \in Subs, i \in Idx : RunDigest(s, i)
  BY <1>1, <1>3 DEF RunDigest
<1>4. CASE Environment
  BY <1>1, <1>4, RateWindow, RateWrite
     DEF Environment, PreferenceWrite, ConditionChanges, SetIntegration, EditWorkflow
<1>5. CASE Api
  BY <1>1, <1>5 DEF Api, AcceptTrigger, AcceptDirect
<1> QED
  BY <1>2, <1>3, <1>4, <1>5, RateBegin, RateHandle DEF Next

\* In one window a subscriber gets no more provider calls on a limited channel than
\* the limiter allows, and one for each of its errors, however many workers asked at
\* the same time, whatever was retried or redelivered, and whoever was refused.
THEOREM RateLimited == Spec => []WithinRateLimit
<1>1. Init => RateInv
  <2> SUFFICES ASSUME Init PROVE RateInv
    OBVIOUS
  <2>1. \A w \in Workers : run[w] = Idle /\ ~run[w].fresh
    BY DEF Init, Idle
  <2>2. ASSUME NEW k \in Key
        PROVE  RateOf(k)
    <3>1. Flight(k) = {} /\ used[k] = 0 /\ failOpen[k] = 0 /\ Admitted(k) = 0
      BY <2>1, BoundsAssumption DEF Init, Flight, InFlight, Admitted
    <3> QED
      BY <3>1, FS_EmptySet DEF RateOf
  <2> QED
    BY <2>1, <2>2 DEF RateInv, FreshOf
<1>2. TypeOK /\ PhaseOK /\ (TypeOK /\ PhaseOK)' /\ RateInv /\ [Next]_vars => RateInv'
  BY RateNext
<1>3. TypeOK /\ RateInv => WithinRateLimit
  <2> SUFFICES ASSUME TypeOK, RateInv, NEW k \in Key
               PROVE  used[k] <= MaxPerWindow + failOpen[k]
    BY DEF WithinRateLimit
  <2>1. IsFiniteSet(Flight(k)) /\ used[k] + Cardinality(Flight(k)) <= Admitted(k) + failOpen[k]
    BY DEF RateInv, RateOf
  <2>2. Cardinality(Flight(k)) \in Nat
    BY <2>1, FS_CardinalityType
  <2>3. used[k] \in Nat /\ failOpen[k] \in Nat /\ MaxPerWindow \in Nat
    BY BoundsAssumption DEF TypeOK
  <2> QED
    BY <2>1, <2>2, <2>3, AdmittedType
<1> QED
  BY <1>1, <1>2, <1>3, Typed, PTL DEF Spec
-----------------------------------------------------------------------------
(* Rows. While the workflow is not edited, a delivery of a notification is *)
(* for a channel step, on that step's channel, and the row it will be      *)
(* written to is the step's.                                               *)

Fits(t) ==
  LET i == t.target[2]
  IN i \in DOMAIN steps /\ ~IsControl(steps[i]) /\ t.channel = steps[i].type

WellPlaced(t) ==
  /\ t \in TriggerTask => t.batch \subseteq created
  /\ t \in DelayTask => t.n \in created
  /\ t \in NotifDelivery => t.target[1] \in created /\ Fits(t)

Placed ==
  edits = 0 =>
    /\ \A t \in Task : Held(t) => WellPlaced(t)
    /\ \A p \in window : p[1] \in created
    /\ \A n \in Notifs \cap created, k \in Idx : rows[n][k].channel = PendingRows(steps)[k].channel
    /\ \A n \in Notifs, i \in Idx : launched[<<n, i>>] > 0 => n \in created

PlacedFrame(new) ==
  /\ steps' = steps /\ edits' = edits /\ created \subseteq created'
  /\ \A t \in Task : Held(t)' => Held(t) \/ t \in new
  /\ edits = 0 =>
       /\ \A t \in Task : t \in new => WellPlaced(t)'
       /\ \A p \in window' : p \in window \/ p[1] \in created
       /\ \A n \in Notifs \cap created', k \in Idx :
            \/ n \in created /\ rows'[n][k].channel = rows[n][k].channel
            \/ rows'[n][k].channel = PendingRows(steps)[k].channel
       /\ \A n \in Notifs, i \in Idx :
            launched'[<<n, i>>] > 0 => launched[<<n, i>>] > 0 \/ n \in created'

LEMMA PlacedStep ==
  ASSUME Placed, NEW new, PlacedFrame(new)
  PROVE  Placed'
<1> SUFFICES ASSUME edits = 0 PROVE Placed'
  BY DEF Placed, PlacedFrame
<1>1. \A t \in Task : WellPlaced(t) => WellPlaced(t)'
  BY DEF PlacedFrame, WellPlaced, Fits
<1>2. PendingRows(steps)' = PendingRows(steps)
  BY DEF PlacedFrame, PendingRows
<1>3. \A t \in Task : Held(t)' => WellPlaced(t)'
  BY <1>1 DEF PlacedFrame, Placed
<1>4. \A n \in Notifs \cap created', k \in Idx :
        rows'[n][k].channel = PendingRows(steps)'[k].channel
  BY <1>2 DEF PlacedFrame, Placed
<1>5. /\ \A p \in window' : p[1] \in created'
      /\ \A n \in Notifs, i \in Idx : launched'[<<n, i>>] > 0 => n \in created'
  BY DEF PlacedFrame, Placed
<1> QED
  BY <1>3, <1>4, <1>5 DEF Placed

\* A step that adds no task and leaves documents and history alone.
LEMMA PlacedSame ==
  ASSUME Placed, UNCHANGED <<steps, edits, created, window, launched>>,
         \A t \in Task : Held(t)' => Held(t),
         \A n \in Notifs, k \in Idx : rows'[n][k].channel = rows[n][k].channel
  PROVE  Placed'
<1>1. PlacedFrame({})
  BY DEF PlacedFrame
<1> QED
  BY <1>1, PlacedStep

\* The deliveries a trigger, a delay or a digest starts.
LEMMA StartedFit ==
  ASSUME NEW done, NEW ss, ss = steps,
         \A p \in done : p \in Notifs \X Idx /\ p[1] \in created /\ p[2] \in DOMAIN ss,
         NEW t \in TasksOf(done, ss)
  PROVE  WellPlaced(t)
<1>1. PICK p \in done : \/ ss[p[2]].type = "delay" /\ t = Delay(p)
                        \/ ss[p[2]].type \notin Control /\ t = Delivery(p, ss[p[2]].type, 0)
  BY TasksOfShape
<1>2. CASE t = Delay(p)
  BY <1>1, <1>2 DEF WellPlaced, Delay, TriggerTask, NotifDelivery
<1>3. CASE ss[p[2]].type \notin Control /\ t = Delivery(p, ss[p[2]].type, 0)
  BY <1>1, <1>3 DEF WellPlaced, Fits, Delivery, TriggerTask, DelayTask, IsControl
<1> QED
  BY <1>1, <1>2, <1>3

LEMMA PlacedTrigger ==
  ASSUME TypeOK, PhaseOK, DelayInv, Placed, NEW w \in Workers, RunTrigger(w)
  PROVE  Placed'
<1> DEFINE t == run[w].task
           ss == run[w].steps
           all == {p \in t.batch \X Idx : p[2] \in Reached(p[1], ss)}
<1>1. t \in TriggerTask /\ run[w].at # "idle" /\ t \in Task
  BY KindOfTask DEF RunTrigger, PhaseOK, PhaseOf
<1>2. PICK done \in SUBSET all :
        /\ Enqueue(TasksOf(done, ss)) /\ Launch({p \in done : ~IsControl(ss[p[2]])})
        /\ window' = window \cup {p \in done : ss[p[2]].type = "digest"}
  BY DEF RunTrigger
<1>3. UNCHANGED <<steps, edits, created, rows>> /\ Goto(w, "ack")
  BY DEF RunTrigger, documents, preferences
<1>4. edits = 0 => ss = steps /\ t.batch \subseteq created
  BY <1>1 DEF DelayInv, Placed, Held, WellPlaced
<1>5. \A p \in done : p \in Notifs \X Idx /\ p[1] \in t.batch /\ p[2] \in DOMAIN ss
  BY <1>1 DEF TriggerTask, Reached, Planned
<1>6. edits = 0 => \A u \in TasksOf(done, ss) : WellPlaced(u)
  BY <1>4, <1>5, StartedFit
<1>7. \A u \in Task : Held(u)' => Held(u) \/ u \in TasksOf(done, ss)
  BY <1>1, <1>2, <1>3, HeldKept, EnqueueHeld DEF Phase, Status
<1>8. \A n \in Notifs, i \in Idx :
        launched'[<<n, i>>] > 0 => launched[<<n, i>>] > 0 \/ <<n, i>> \in done
  BY <1>2, LaunchGrows DEF Targets
<1>9. \A u : WellPlaced(u) => WellPlaced(u)'
  BY <1>3 DEF WellPlaced, Fits
<1>10. PlacedFrame(TasksOf(done, ss))
  <2>1. edits = 0 => \A p \in window' : p \in window \/ p[1] \in created
    BY <1>2, <1>4, <1>5
  <2>2. edits = 0 => \A n \in Notifs, i \in Idx :
          launched'[<<n, i>>] > 0 => launched[<<n, i>>] > 0 \/ n \in created'
    BY <1>3, <1>4, <1>5, <1>8
  <2> QED
    BY <1>3, <1>6, <1>7, <1>9, <2>1, <2>2 DEF PlacedFrame
<1> QED
  BY <1>10, PlacedStep

LEMMA PlacedResume ==
  ASSUME TypeOK, NEW n \in Notifs, NEW i \in Idx, NEW ss, Resume(n, i, ss),
         edits = 0 => ss = steps /\ n \in created,
         UNCHANGED <<steps, edits, created, rows>>,
         \A p \in window' : p \in window,
         \A new : (\A t \in Task : queue'[t] > 0 => queue[t] > 0 \/ t \in new)
                    => (\A t \in Task : Held(t)' => Held(t) \/ t \in new),
         Placed
  PROVE  Placed'
<1> DEFINE all == {<<n, j>> : j \in Following(ss, i)}
<1>1. PICK done \in SUBSET all : Enqueue(TasksOf(done, ss)) /\ Launch(done)
  BY DEF Resume
<1>2. edits = 0 => \A p \in done : p \in Notifs \X Idx /\ p[1] \in created /\ p[2] \in DOMAIN ss
  <2> SUFFICES ASSUME edits = 0, NEW p \in done
               PROVE  p \in Notifs \X Idx /\ p[1] \in created /\ p[2] \in DOMAIN ss
    OBVIOUS
  <2>1. PICK j \in Following(ss, i) : p = <<n, j>>
    OBVIOUS
  <2>2. j \in DOMAIN ss /\ ss \in Workflows
    BY <2>1 DEF Following, TypeOK
  <2> QED
    BY <2>1, <2>2, StepType
<1>3. edits = 0 => \A u \in TasksOf(done, ss) : WellPlaced(u)
  BY <1>2, StartedFit
<1>4. \A u \in Task : Held(u)' => Held(u) \/ u \in TasksOf(done, ss)
  BY <1>1, EnqueueHeld
<1>5. \A m \in Notifs, k \in Idx :
        launched'[<<m, k>>] > 0 => launched[<<m, k>>] > 0 \/ <<m, k>> \in done
  BY <1>1, LaunchGrows DEF Targets
<1>6. \A u : WellPlaced(u) => WellPlaced(u)'
  BY DEF WellPlaced, Fits
<1>7. PlacedFrame(TasksOf(done, ss))
  <2>1. edits = 0 => \A m \in Notifs, k \in Idx :
          launched'[<<m, k>>] > 0 => launched[<<m, k>>] > 0 \/ m \in created'
    BY <1>2, <1>5
  <2> QED
    BY <1>3, <1>4, <1>6, <2>1 DEF PlacedFrame
<1> QED
  BY <1>7, PlacedStep

LEMMA PlacedDelay ==
  ASSUME TypeOK, PhaseOK, DelayInv, Placed, NEW w \in Workers, RunDelay(w)
  PROVE  Placed'
<1> DEFINE t == run[w].task
<1>1. t \in DelayTask /\ run[w].at # "idle" /\ t \in Task
  BY KindOfTask DEF RunDelay, PhaseOK, PhaseOf
<1>2. t.n \in Notifs /\ t.i \in Idx
  BY <1>1 DEF DelayTask
<1>3. /\ UNCHANGED <<steps, edits, created, rows, window>> /\ Goto(w, "ack")
      /\ Resume(t.n, t.i, run[w].steps)
  BY DEF RunDelay, documents, preferences
<1>4. edits = 0 => run[w].steps = steps /\ t.n \in created
  BY <1>1 DEF DelayInv, Placed, Held, WellPlaced
<1>5. \A new : (\A u \in Task : queue'[u] > 0 => queue[u] > 0 \/ u \in new)
                 => (\A u \in Task : Held(u)' => Held(u) \/ u \in new)
  BY <1>1, <1>3, HeldKept DEF Phase, Status
<1> QED
  BY <1>2, <1>3, <1>4, <1>5, PlacedResume

LEMMA PlacedDigest ==
  ASSUME TypeOK, Placed, NEW s \in Subs, NEW i \in Idx, RunDigest(s, i)
  PROVE  Placed'
<1> DEFINE waiting == {p \in window : p[2] = i /\ SubOf[p[1]] = s}
<1>1. PICK p \in waiting : Resume(p[1], i, steps)
  BY DEF RunDigest
<1>2. /\ UNCHANGED <<steps, edits, created, rows, run>> /\ window' = window \ waiting
  BY DEF RunDigest, documents, preferences
<1>3. p[1] \in Notifs /\ (edits = 0 => p[1] \in created)
  BY DEF TypeOK, Placed
<1>4. \A new : (\A t \in Task : queue'[t] > 0 => queue[t] > 0 \/ t \in new)
                 => (\A t \in Task : Held(t)' => Held(t) \/ t \in new)
  BY <1>2 DEF Held
<1>5. \A q \in window' : q \in window
  BY <1>2
<1> QED
  BY <1>1, <1>2, <1>3, <1>4, <1>5, PlacedResume
-----------------------------------------------------------------------------
LEMMA DeliversRows ==
  ASSUME TypeOK, PhaseOK, NEW w \in Workers, Delivers(w)
  PROVE  \A n \in Notifs, k \in Idx : rows'[n][k].channel = rows[n][k].channel
<1>1. CASE Record(w)
  <2> DEFINE t == run[w].task
             r == rows[t.target[1]]
  <2>1. t.target[1] \in Notifs
    BY <1>1, NotifDeliveryFields DEF Record, PhaseOK, PhaseOf
  <2>2. rows' = rows \/ rows' = [rows EXCEPT ![t.target[1]] = WithStatus(r, t.channel, run[w].result)]
    BY <1>1 DEF Record
  <2>3. \A k \in Idx : WithStatus(r, t.channel, run[w].result)[k].channel = r[k].channel
    BY DEF WithStatus
  <2> QED
    BY <2>1, <2>2, <2>3 DEF TypeOK
<1>2. CASE UNCHANGED rows
  BY <1>2
<1> QED
  BY <1>1, <1>2 DEF Delivers, CheckRate, ReadWorkflowPref, ReadGlobalPref, NoRecipient, NoIntegration,
         StepGone, Accepted, Rejected, Call, Ack, documents

LEMMA PlacedDelivery ==
  ASSUME TypeOK, PhaseOK, Placed, NEW w \in Workers, Delivers(w)
  PROVE  Placed'
  BY DeliversHeld, DeliversRows, PlacedSame

LEMMA PlacedBegin ==
  ASSUME TypeOK, Placed, NEW w \in Workers, NEW t \in Task, Begin(w, t)
  PROVE  Placed'
<1>1. /\ \A v \in Workers \ {w} : run'[v] = run[v]
      /\ run'[w].task = t
  BY DEF Begin, TypeOK
<1>2. queue[t] > 0 /\ \A u \in Task : queue'[u] > 0 => queue[u] > 0
  BY DEF Begin, TypeOK
<1>3. UNCHANGED <<steps, edits, created, window, launched, rows>>
  BY DEF Begin, documents, preferences, history, events
<1>4. \A u \in Task : Held(u)' => Held(u)
  BY <1>1, <1>2 DEF Held
<1> QED
  BY <1>3, <1>4, PlacedSame

LEMMA PlacedRepeat ==
  ASSUME TypeOK, PhaseOK, Placed, NEW w \in Workers, ScheduleRetry(w) \/ Redeliver(w)
  PROVE  Placed'
<1> DEFINE t == run[w].task
           retry == Delivery(t.target, t.channel, NextAttempt(t.attempt))
           new == {t} \cup (IF t \in DeliveryTask THEN {retry} ELSE {})
<1>1. run[w].at # "idle" /\ t \in Task /\ Held(t)
  BY DEF ScheduleRetry, Redeliver, PhaseOK, PhaseOf, Held
<1>2. UNCHANGED <<steps, edits, created, window, rows>>
  BY DEF ScheduleRetry, Redeliver, documents, preferences, history
<1>3. /\ \A u \in Task : queue'[u] > 0 => queue[u] > 0 \/ u \in new
      /\ Goto(w, "ack") \/ Finish(w)
  <2>1. CASE ScheduleRetry(w)
    <3>1. t \in DeliveryTask
      BY <2>1 DEF ScheduleRetry, PhaseOK, PhaseOf
    <3> QED
      BY <2>1, <3>1, EnqueueHeld DEF ScheduleRetry
  <2>2. CASE Redeliver(w)
    BY <1>1, <2>2 DEF Redeliver, TypeOK
  <2> QED
    BY <2>1, <2>2
<1>4. \A p \in Targets : launched'[p] > 0 => launched[p] > 0 \/ (t \in DeliveryTask /\ p = t.target)
  BY <1>1, LaunchGrows, KindOfTask DEF ScheduleRetry, Redeliver, history
<1>5. edits = 0 => WellPlaced(t)
  BY <1>1 DEF Placed
<1>6. edits = 0 => \A u \in new : u \in Task => WellPlaced(u)'
  <2> SUFFICES ASSUME edits = 0, NEW u \in new, u \in Task PROVE WellPlaced(u)'
    OBVIOUS
  <2>1. CASE u = t
    BY <1>2, <1>5, <2>1 DEF WellPlaced, Fits
  <2>2. CASE t \in DeliveryTask /\ u = retry
    <3>1. /\ u.kind = "delivery" /\ u.target = t.target /\ u.channel = t.channel
          /\ u \notin TriggerTask /\ u \notin DelayTask
      BY <2>2 DEF Delivery, TriggerTask, DelayTask
    <3>2. u \in NotifDelivery => t \in NotifDelivery
      BY <2>2, <3>1 DEF NotifDelivery, DeliveryTask
    <3> QED
      BY <1>2, <1>5, <3>1, <3>2 DEF WellPlaced, Fits
  <2> QED
    BY <2>1, <2>2
<1>7. edits = 0 => \A n \in Notifs, i \in Idx :
        launched'[<<n, i>>] > 0 => launched[<<n, i>>] > 0 \/ n \in created
  <2> SUFFICES ASSUME edits = 0, NEW n \in Notifs, NEW i \in Idx, t \in DeliveryTask, t.target = <<n, i>>
               PROVE  n \in created
    BY <1>4 DEF Targets
  <2>1. t \in NotifDelivery
    BY DEF NotifDelivery, DeliveryTask
  <2> QED
    BY <1>5, <2>1 DEF WellPlaced
<1>8. \A u \in Task : Held(u)' => Held(u) \/ u \in new
  <2> HIDE DEF new
  <2> QED
    BY <1>1, <1>3, HeldKept DEF Phase, Status
<1> HIDE DEF new
<1>9. PlacedFrame(new)
  BY <1>2, <1>6, <1>7, <1>8 DEF PlacedFrame
<1> QED
  BY <1>9, PlacedStep

LEMMA PlacedApi ==
  ASSUME TypeOK, Placed, Api
  PROVE  Placed'
<1>1. ASSUME NEW batch \in SUBSET Notifs, AcceptTrigger(batch)
      PROVE  Placed'
  <2> DEFINE new == {Trigger(batch)}
  <2>1. \A t \in Task : queue'[t] > 0 => queue[t] > 0 \/ t \in new
    BY <1>1, EnqueueHeld DEF AcceptTrigger
  <2>2. /\ UNCHANGED <<steps, edits, window, run, launched>>
        /\ created' = created \cup batch
        /\ rows' = [n \in Notifs |-> IF n \in batch THEN PendingRows(steps) ELSE rows[n]]
    BY <1>1 DEF AcceptTrigger, history, events
  <2>3. \A t \in Task : Held(t)' => Held(t) \/ t \in new
    BY <2>1, <2>2 DEF Held
  <2>4. \A t \in Task : t \in new => WellPlaced(t)'
    BY <2>2 DEF WellPlaced, Trigger, DelayTask, NotifDelivery
  <2>5. \A n \in Notifs \cap created', k \in Idx :
            \/ n \in created /\ rows'[n][k].channel = rows[n][k].channel
            \/ rows'[n][k].channel = PendingRows(steps)[k].channel
    BY <2>2
  <2>6. PlacedFrame(new)
    BY <2>2, <2>3, <2>4, <2>5 DEF PlacedFrame
  <2> QED
    BY <2>6, PlacedStep
<1>2. ASSUME NEW d \in Directs, NEW c \in Channels, AcceptDirect(d, c)
      PROVE  Placed'
  <2> DEFINE new == {Delivery(<<d, 0>>, c, 0)}
  <2>1. \A u \in Task : queue'[u] > 0 => queue[u] > 0 \/ u \in new
    BY <1>2, EnqueueHeld DEF AcceptDirect
  <2>2. \A p \in Targets : launched'[p] > 0 => launched[p] > 0 \/ p = <<d, 0>>
    BY <1>2, LaunchGrows DEF AcceptDirect, Targets
  <2>3. UNCHANGED <<steps, edits, window, run, rows>> /\ created \subseteq created'
        /\ created' = created \cup {d}
    BY <1>2 DEF AcceptDirect, events
  <2>4. \A u \in Task : Held(u)' => Held(u) \/ u \in new
    BY <2>1, <2>3 DEF Held
  <2>5. \A n \in Notifs, i \in Idx : launched'[<<n, i>>] > 0 => launched[<<n, i>>] > 0
    BY <2>2, DisjointAssumption DEF Targets
  <2>6. \A t \in Task : t \in new => WellPlaced(t)'
    BY DisjointAssumption DEF WellPlaced, Delivery, DelayTask, NotifDelivery, TriggerTask
  <2>7. Notifs \cap created' = Notifs \cap created
    BY <2>3, DisjointAssumption
  <2>8. PlacedFrame(new)
    BY <2>3, <2>4, <2>5, <2>6, <2>7 DEF PlacedFrame
  <2> QED
    BY <2>8, PlacedStep
<1> QED
  BY <1>1, <1>2 DEF Api

\* What changes around the pipeline leaves the tasks as they are.
LEMMA AroundHeld ==
  ASSUME TypeOK, Environment
  PROVE  /\ UNCHANGED <<created, rows, window, fired, launched, accepted, archived, sends, queue, faults>>
         /\ \A w \in Workers : run'[w].at = run[w].at /\ run'[w].task = run[w].task
                               /\ run'[w].steps = run[w].steps /\ run'[w].result = run[w].result
         /\ \A t \in Task : Held(t)' <=> Held(t)
         /\ UNCHANGED <<steps, edits>> \/ (edits' > edits /\ edits' # 0)
<1>1. ASSUME NEW w \in Workers
      PROVE  run'[w].at = run[w].at /\ run'[w].task = run[w].task /\ run'[w].steps = run[w].steps
             /\ run'[w].result = run[w].result
  <2>1. CASE NextWindow
    BY <1>1, <2>1 DEF NextWindow, TypeOK, Job
  <2>2. CASE PreferenceWrite
    BY <1>1, <2>2, WriteFrame
  <2>3. CASE UNCHANGED run
    BY <2>3
  <2> QED
    BY <2>1, <2>2, <2>3 DEF Environment, PreferenceWrite, ConditionChanges, SetIntegration, EditWorkflow
<1>2. UNCHANGED <<created, rows, window, fired, launched, accepted, archived, sends, queue, faults>>
  BY DEF Environment, NextWindow, ReadForWorkflow, WriteWorkflowPref, SetGlobalPref, ConditionChanges, SetIntegration, EditWorkflow,
         documents, history, events
<1>3. \A t \in Task : Held(t)' <=> Held(t)
  BY <1>1, <1>2 DEF Held
<1>4. UNCHANGED <<steps, edits>> \/ (edits' > edits /\ edits' # 0)
  <2>1. CASE \E ss \in Workflows, a \in BOOLEAN : EditWorkflow(ss, a)
    BY <2>1 DEF EditWorkflow, TypeOK
  <2>2. CASE ~\E ss \in Workflows, a \in BOOLEAN : EditWorkflow(ss, a)
    BY <2>2 DEF Environment, NextWindow, ReadForWorkflow, WriteWorkflowPref, SetGlobalPref, ConditionChanges, SetIntegration,
         documents, history, events
  <2> QED
    BY <2>1, <2>2
<1> QED
  BY <1>1, <1>2, <1>3, <1>4

LEMMA PlacedEnvironment ==
  ASSUME TypeOK, Placed, Environment
  PROVE  Placed'
<1>1. CASE UNCHANGED <<steps, edits>>
  BY <1>1, AroundHeld, PlacedSame
<1>2. CASE edits' # 0
  BY <1>2 DEF Placed
<1> QED
  BY <1>1, <1>2, AroundHeld

LEMMA PlacedInit == Init => Placed
  BY DEF Init, Placed, Held, Targets, Idle

LEMMA PlacedNext ==
  ASSUME TypeOK, PhaseOK, DelayInv, Placed, [Next]_vars
  PROVE  Placed'
<1>1. ASSUME NEW w \in Workers, Handle(w) \/ Redeliver(w)
      PROVE  Placed'
  BY <1>1, PlacedTrigger, PlacedDelay, PlacedDelivery, PlacedRepeat DEF Handle, Delivers
<1>2. CASE UNCHANGED vars
  BY <1>2, PlacedSame DEF vars, Held
<1> QED
  BY <1>1, <1>2, PlacedApi, PlacedBegin, PlacedDigest, PlacedEnvironment DEF Next
-----------------------------------------------------------------------------
(* Settling. Without a fault or an edit a delivery that was started is     *)
(* live, in asynq or with a worker that has yet to decide it, until it has *)
(* an outcome; so when nothing is live, everything has one.                *)

Carrying(w, p) ==
  run[w].at \notin {"idle", "ack"} /\ run[w].task \in DeliveryTask /\ run[w].task.target = p

Live(p) ==
  \/ \E t \in DeliveryTask : t.target = p /\ queue[t] > 0
  \/ \E w \in Workers : Carrying(w, p)

Resolved(p) ==
  IF p[1] \in Notifs THEN rows[p[1]][p[2]].status # "pending"
  ELSE \/ \E c \in Channels : <<p[1], c>> \in accepted
       \/ \E t \in archived : t.kind = "delivery" /\ t.target = p

Smooth == faults = 0 /\ edits = 0 /\ DistinctChannels

Settled == Smooth => \A p \in Targets : launched[p] > 0 => Live(p) \/ Resolved(p)

\* A status to write is an outcome, and a retry has an attempt left.
DecidedOf(j) ==
  /\ j.at = "record" => j.result # "pending"
  /\ j.at = "retry" => j.task.attempt < MaxRetries

Decided == \A w \in Workers : DecidedOf(run[w])

\* What a step has to keep.
LEMMA SettledFrame ==
  ASSUME Settled, Smooth' => Smooth,
         \A p \in Targets : launched'[p] > 0 => launched[p] > 0 \/ Live(p)',
         Smooth' => \A p \in Targets : launched[p] > 0 =>
           /\ Resolved(p) => Resolved(p)'
           /\ Live(p) => Live(p)' \/ Resolved(p)'
  PROVE  Settled'
  BY DEF Settled

\* A step of one worker: what it alone carried has to be accounted for.
LEMMA LiveKept ==
  ASSUME NEW w \in Workers, \A v \in Workers \ {w} : run'[v] = run[v],
         \A t \in DeliveryTask : queue[t] > 0 => queue'[t] > 0 \/ Carrying(w, t.target)',
         NEW p, Live(p), ~Carrying(w, p)
  PROVE  Live(p)'
<1>1. CASE \E t \in DeliveryTask : t.target = p /\ queue[t] > 0
  BY <1>1 DEF Live
<1>2. CASE \E v \in Workers : Carrying(v, p)
  BY <1>2 DEF Live, Carrying
<1> QED
  BY <1>1, <1>2 DEF Live

LEMMA EnqueueLive ==
  ASSUME TypeOK, NEW ts, Enqueue(ts), NEW t \in DeliveryTask, t \in ts \/ queue[t] > 0
  PROVE  queue'[t] > 0
<1>1. t \in Task /\ queue[t] \in Nat
  BY DEF TypeOK, Task
<1> QED
  BY <1>1 DEF Enqueue

\* A delivery that is started is live.
LEMMA StartedLive ==
  ASSUME TypeOK, NEW ss \in Workflows, NEW done, Enqueue(TasksOf(done, ss)), NEW p \in done,
         p \in Notifs \X Idx, p[2] \in DOMAIN ss, ~IsControl(ss[p[2]])
  PROVE  Live(p)'
<1> DEFINE t == Delivery(p, ss[p[2]].type, 0)
<1>1. ss[p[2]].type \in Channels
  BY StepType DEF Step, IsControl
<1>2. t \in DeliveryTask /\ t.target = p
  BY <1>1, BoundsAssumption DEF Delivery, DeliveryTask, Targets
<1>3. t \in TasksOf(done, ss)
  BY DEF TasksOf, IsControl, Control
<1>4. queue'[t] > 0
  BY <1>2, <1>3, EnqueueLive
<1> QED
  BY <1>2, <1>4 DEF Live

LEMMA SmoothBefore ==
  ASSUME TypeOK, UNCHANGED <<steps, edits>>, faults' = faults \/ Fault
  PROVE  Smooth' => Smooth /\ faults' = faults
  BY DEF Smooth, DistinctChannels, Fault, TypeOK

LEMMA SettledTrigger ==
  ASSUME TypeOK, PhaseOK, Settled, NEW w \in Workers, RunTrigger(w)
  PROVE  Settled'
<1> DEFINE t == run[w].task
           ss == run[w].steps
           all == {p \in t.batch \X Idx : p[2] \in Reached(p[1], ss)}
<1>1. t \in TriggerTask /\ t.kind = "trigger" /\ ss \in Workflows \cup {<< >>}
  BY KindOfTask, JobFields DEF RunTrigger, PhaseOK, PhaseOf, TypeOK
<1>2. PICK done \in SUBSET all :
        Enqueue(TasksOf(done, ss)) /\ Launch({p \in done : ~IsControl(ss[p[2]])})
  BY DEF RunTrigger
<1>3. /\ UNCHANGED <<steps, edits, rows, accepted, archived>> /\ Goto(w, "ack")
      /\ faults' = faults \/ Fault
  BY DEF RunTrigger, documents, preferences, Succeed
<1>4. \A v \in Workers \ {w} : run'[v] = run[v]
  BY <1>3, GotoRun DEF Phase
<1>5. \A p \in done : p \in Notifs \X Idx /\ p[2] \in DOMAIN ss
  BY <1>1 DEF TriggerTask, Reached, Planned
<1>6. \A p \in Targets : launched'[p] > 0 => launched[p] > 0 \/ Live(p)'
  <2> SUFFICES ASSUME NEW p \in Targets, launched'[p] > 0, ~(launched[p] > 0) PROVE Live(p)'
    OBVIOUS
  <2>1. p \in done /\ ~IsControl(ss[p[2]])
    BY <1>2, LaunchGrows
  <2>2. ss \in Workflows
    BY <1>1, <1>5, <2>1
  <2> QED
    BY <1>2, <1>5, <2>1, <2>2, StartedLive
<1>7. \A u \in DeliveryTask : queue[u] > 0 => queue'[u] > 0
  BY <1>2, EnqueueLive
<1>8. \A p : ~Carrying(w, p)
  BY <1>1 DEF Carrying, DeliveryTask
<1>9. \A p : /\ Resolved(p) => Resolved(p)'
             /\ Live(p) => Live(p)'
  BY <1>3, <1>4, <1>7, <1>8, LiveKept DEF Resolved
<1> QED
  BY <1>3, <1>6, <1>9, SmoothBefore, SettledFrame

LEMMA ResumeLive ==
  ASSUME TypeOK, NEW n \in Notifs, NEW i \in Idx, NEW ss, ss \in Workflows \cup {<< >>}, Resume(n, i, ss)
  PROVE  /\ \A p \in Targets : launched'[p] > 0 => launched[p] > 0 \/ Live(p)'
         /\ \A u \in DeliveryTask : queue[u] > 0 => queue'[u] > 0
<1> DEFINE all == {<<n, j>> : j \in Following(ss, i)}
<1>1. PICK done \in SUBSET all : Enqueue(TasksOf(done, ss)) /\ Launch(done)
  BY DEF Resume
<1>2. \A p \in done : p \in Notifs \X Idx /\ p[2] \in DOMAIN ss /\ ss \in Workflows /\ ~IsControl(ss[p[2]])
  <2> SUFFICES ASSUME NEW p \in done
               PROVE  p \in Notifs \X Idx /\ p[2] \in DOMAIN ss /\ ss \in Workflows /\ ~IsControl(ss[p[2]])
    OBVIOUS
  <2>1. PICK j \in Following(ss, i) : p = <<n, j>>
    OBVIOUS
  <2>2. j \in DOMAIN ss /\ ss \in Workflows /\ j > i
    BY <2>1 DEF Following
  <2>3. j \in Idx /\ j \in Nat /\ i \in Nat
    BY <2>2, StepType, BoundsAssumption DEF Idx
  <2>4. ~IsControl(ss[j])
    BY <2>1, <2>2, <2>3 DEF Following
  <2> QED
    BY <2>1, <2>2, <2>3, <2>4
<1>3. ASSUME NEW p \in Targets, launched'[p] > 0, ~(launched[p] > 0) PROVE Live(p)'
  <2>1. p \in done
    BY <1>1, <1>3, LaunchGrows
  <2> QED
    BY <1>1, <1>2, <2>1, StartedLive
<1> QED
  BY <1>1, <1>3, EnqueueLive

LEMMA SettledDelay ==
  ASSUME TypeOK, PhaseOK, Settled, NEW w \in Workers, RunDelay(w)
  PROVE  Settled'
<1> DEFINE t == run[w].task
<1>1. t \in DelayTask /\ t.kind = "delay" /\ t.n \in Notifs /\ t.i \in Idx
      /\ run[w].steps \in Workflows \cup {<< >>}
  BY KindOfTask, JobFields DEF RunDelay, PhaseOK, PhaseOf, TypeOK, DelayTask
<1>2. /\ UNCHANGED <<steps, edits, rows, accepted, archived>> /\ Goto(w, "ack")
      /\ Resume(t.n, t.i, run[w].steps) /\ (faults' = faults \/ Fault)
  BY DEF RunDelay, documents, preferences, Resume, Succeed
<1>3. \A v \in Workers \ {w} : run'[v] = run[v]
  BY <1>2, GotoRun DEF Phase
<1>4. /\ \A p \in Targets : launched'[p] > 0 => launched[p] > 0 \/ Live(p)'
      /\ \A u \in DeliveryTask : queue[u] > 0 => queue'[u] > 0
  BY <1>1, <1>2, ResumeLive
<1>5. \A p : ~Carrying(w, p)
  BY <1>1 DEF Carrying, DeliveryTask
<1>6. \A p : /\ Resolved(p) => Resolved(p)'
             /\ Live(p) => Live(p)'
  BY <1>2, <1>3, <1>4, <1>5, LiveKept DEF Resolved
<1> QED
  BY <1>2, <1>4, <1>6, SmoothBefore, SettledFrame

LEMMA SettledDigest ==
  ASSUME TypeOK, Settled, NEW s \in Subs, NEW i \in Idx, RunDigest(s, i)
  PROVE  Settled'
<1>1. PICK p \in window : Resume(p[1], i, steps)
  BY DEF RunDigest
<1>2. /\ UNCHANGED <<steps, edits, rows, accepted, archived, run>> /\ (faults' = faults \/ Fault)
  BY DEF RunDigest, documents, preferences, Resume, Succeed
<1>3. p[1] \in Notifs /\ steps \in Workflows
  BY DEF TypeOK
<1>4. /\ \A q \in Targets : launched'[q] > 0 => launched[q] > 0 \/ Live(q)'
      /\ \A u \in DeliveryTask : queue[u] > 0 => queue'[u] > 0
  BY <1>1, <1>3, ResumeLive
<1>5. \A q : /\ Resolved(q) => Resolved(q)'
             /\ Live(q) => Live(q)'
  BY <1>2, <1>4 DEF Resolved, Live, Carrying
<1> QED
  BY <1>2, <1>4, <1>5, SmoothBefore, SettledFrame

LEMMA SettledBegin ==
  ASSUME TypeOK, Settled, NEW w \in Workers, NEW t \in Task, Begin(w, t)
  PROVE  Settled'
<1>1. /\ \A v \in Workers \ {w} : run'[v] = run[v]
      /\ run'[w].task = t
      /\ t \in DeliveryTask => run'[w].at \in {"checked", "begun"}
  BY DEF Begin, TypeOK, DeliveryTask
<1>2. UNCHANGED <<steps, edits, rows, accepted, archived, launched, faults>>
  BY DEF Begin, documents, preferences, history, events
<1>3. \A u \in DeliveryTask : queue[u] > 0 => queue'[u] > 0 \/ Carrying(w, u.target)'
  BY <1>1 DEF Begin, TypeOK, Carrying, Task
<1>4. \A p : ~Carrying(w, p)
  BY DEF Begin, Carrying
<1>5. \A p : /\ Resolved(p) => Resolved(p)'
             /\ Live(p) => Live(p)'
  BY <1>1, <1>2, <1>3, <1>4, LiveKept DEF Resolved
<1> QED
  BY <1>2, <1>5, SmoothBefore, SettledFrame

LEMMA SettledApi ==
  ASSUME TypeOK, Placed, Settled, Api
  PROVE  Settled'
<1>1. ASSUME NEW batch \in SUBSET Notifs, AcceptTrigger(batch)
      PROVE  Settled'
  <2>1. /\ UNCHANGED <<steps, edits, run, launched, accepted, archived, faults>>
        /\ batch \cap created = {} /\ Enqueue({Trigger(batch)})
        /\ rows' = [n \in Notifs |-> IF n \in batch THEN PendingRows(steps) ELSE rows[n]]
    BY <1>1 DEF AcceptTrigger, history, events
  <2>2. \A u \in DeliveryTask : queue[u] > 0 => queue'[u] > 0
    BY <2>1, EnqueueLive
  <2>3. \A p : Live(p) => Live(p)'
    BY <2>1, <2>2 DEF Live, Carrying
  <2>4. Smooth' => \A p \in Targets : launched[p] > 0 /\ Resolved(p) => Resolved(p)'
    <3> SUFFICES ASSUME edits = 0, NEW p \in Targets, launched[p] > 0, Resolved(p) PROVE Resolved(p)'
      BY <2>1 DEF Smooth
    <3>1. CASE p \in Notifs \X Idx
      <4>1. p = <<p[1], p[2]>> /\ p[1] \in Notifs /\ p[2] \in Idx
        BY <3>1
      <4>2. p[1] \in created
        BY <4>1 DEF Placed
      <4> QED
        BY <2>1, <4>1, <4>2 DEF Resolved
    <3>2. CASE p[1] \notin Notifs
      BY <2>1, <3>2 DEF Resolved
    <3> QED
      BY <3>1, <3>2, DisjointAssumption DEF Targets
  <2> QED
    BY <2>1, <2>3, <2>4, SmoothBefore, SettledFrame
<1>2. ASSUME NEW d \in Directs, NEW c \in Channels, AcceptDirect(d, c)
      PROVE  Settled'
  <2> DEFINE t == Delivery(<<d, 0>>, c, 0)
  <2>1. /\ UNCHANGED <<steps, edits, run, rows, accepted, archived, faults>>
        /\ Enqueue({t}) /\ Launch({<<d, 0>>})
    BY <1>2 DEF AcceptDirect, events
  <2>2. t \in DeliveryTask /\ t.target = <<d, 0>>
    BY BoundsAssumption DEF Delivery, DeliveryTask, Targets
  <2>3. \A u \in DeliveryTask : u = t \/ queue[u] > 0 => queue'[u] > 0
    BY <2>1, EnqueueLive
  <2>4. \A p : /\ Live(p) => Live(p)'
               /\ Resolved(p) => Resolved(p)'
    BY <2>1, <2>3 DEF Live, Carrying, Resolved
  <2>5. Live(<<d, 0>>)'
    BY <2>2, <2>3 DEF Live
  <2>6. \A p \in Targets : launched'[p] > 0 => launched[p] > 0 \/ Live(p)'
    BY <2>1, <2>5, LaunchGrows
  <2> QED
    BY <2>1, <2>4, <2>6, SmoothBefore, SettledFrame
<1> QED
  BY <1>1, <1>2 DEF Api

LEMMA SettledEnvironment ==
  ASSUME TypeOK, Settled, Environment
  PROVE  Settled'
<1>1. CASE UNCHANGED <<steps, edits>>
  <2>1. \A p : /\ Live(p) => Live(p)'
               /\ Resolved(p) => Resolved(p)'
    BY AroundHeld DEF Live, Carrying, Resolved
  <2> QED
    BY <1>1, <2>1, AroundHeld, SmoothBefore, SettledFrame
<1>2. CASE edits' # 0
  BY <1>2 DEF Settled, Smooth
<1> QED
  BY <1>1, <1>2, AroundHeld

\* A step of the delivery handler decides what its worker carried, or goes on.
LEMMA SettledWorker ==
  ASSUME TypeOK, Settled, NEW w \in Workers, UNCHANGED <<steps, edits>>,
         faults' = faults \/ Fault,
         \A v \in Workers \ {w} : run'[v] = run[v],
         \A u \in DeliveryTask : queue[u] > 0 => queue'[u] > 0,
         UNCHANGED launched,
         Smooth' => \A p \in Targets : Resolved(p) => Resolved(p)',
         NEW t, t = run[w].task,
         Smooth' /\ run[w].at # "ack" /\ t \in DeliveryTask => Live(t.target)' \/ Resolved(t.target)'
  PROVE  Settled'
<1>1. Smooth' => \A p \in Targets : Live(p) => Live(p)' \/ Resolved(p)'
  <2> SUFFICES ASSUME Smooth', NEW p \in Targets, Live(p), ~Live(p)' PROVE Resolved(p)'
    OBVIOUS
  <2>1. Carrying(w, p)
    BY LiveKept
  <2> QED
    BY <2>1 DEF Carrying
<1> QED
  BY <1>1, SmoothBefore, SettledFrame

\* The steps that go on with the delivery.
LEMMA CarriedOn ==
  ASSUME NEW w \in Workers, NEW t \in DeliveryTask, run'[w].task = t, run'[w].at \notin {"idle", "ack"}
  PROVE  Live(t.target)'
  BY DEF Live, Carrying

LEMMA SettledReads ==
  ASSUME TypeOK, PhaseOK, Settled, NEW w \in Workers,
         CheckRate(w) \/ ReadWorkflowPref(w) \/ ReadGlobalPref(w)
  PROVE  Settled'
<1>0. PICK t : t = run[w].task
  OBVIOUS
<1>1. /\ run'[w].task = run[w].task /\ run'[w].at \notin {"idle", "ack"}
      /\ \A v \in Workers \ {w} : run'[v] = run[v]
  <2>1. CASE \E p \in {"limited", "inheriting", "checked"} : Goto(w, p)
    BY <2>1, GotoRun DEF Phase
  <2>2. CASE Settle(w, "skipped")
    BY <2>2, SettleRun DEF Status
  <2>3. CASE run' = [run EXCEPT ![w].at = "limited", ![w].fresh = TRUE]
    BY <2>3, LimitedRun DEF Phase
  <2>4. CASE \E p \in {"inheriting", "checked"} : run' = [run EXCEPT ![w].at = p, ![w].consent = TRUE]
    BY <2>4, AskedRun DEF Phase
  <2> QED
    BY <2>1, <2>2, <2>3, <2>4 DEF CheckRate, ReadWorkflowPref, ReadGlobalPref, Decide
<1>2. UNCHANGED <<steps, edits, rows, accepted, archived, launched, queue>>
      /\ (faults' = faults \/ Fault)
  BY DEF CheckRate, ReadWorkflowPref, ReadGlobalPref, documents, preferences, history
<1>3. \A p : Resolved(p) => Resolved(p)'
  BY <1>2 DEF Resolved
<1>4. t \in DeliveryTask => Live(t.target)'
  BY <1>0, <1>1, CarriedOn
<1>5. \A u \in DeliveryTask : queue[u] > 0 => queue'[u] > 0
  BY <1>2
<1>6. \A v \in Workers \ {w} : run'[v] = run[v]
  BY <1>1
<1> HIDE DEF Settled
<1> QED
  BY <1>0, <1>2, <1>3, <1>4, <1>5, <1>6, SettledWorker

\* A dead letter is the outcome of a transactional send.
LEMMA ArchivedSend ==
  ASSUME NEW w \in Workers, Archive(w), NEW t \in DeliveryTask, t = run[w].task, IsDirect(t)
  PROVE  Resolved(t.target)'
<1>1. t \in archived' /\ t.kind = "delivery" /\ t.target[1] \notin Notifs
  BY DisjointAssumption DEF Archive, DeliveryTask, IsDirect
<1> QED
  BY <1>1 DEF Resolved

\* The ways out of "checked".
LEMMA SettledOutcome ==
  ASSUME TypeOK, PhaseOK, DelayInv, Placed, Settled, NEW w \in Workers,
         NoRecipient(w) \/ NoIntegration(w) \/ StepGone(w) \/ Accepted(w) \/ Rejected(w)
  PROVE  Settled'
<1>0. PICK t : t = run[w].task
  OBVIOUS
<1>1. t \in DeliveryTask /\ run[w].at = "checked"
  BY <1>0, DeliveringTask DEF NoRecipient, NoIntegration, StepGone, Accepted, Rejected, Call, Sendable, Delivering, Phase
<1>2. UNCHANGED <<steps, edits, rows, launched, queue>> /\ (faults' = faults \/ Fault)
      /\ accepted \subseteq accepted' /\ archived \subseteq archived'
  BY DEF NoRecipient, NoIntegration, StepGone, Accepted, Rejected, Call, Archive, documents, preferences, history, events
<1>3. \A p : Resolved(p) => Resolved(p)'
  BY <1>2 DEF Resolved
<1>4. /\ \A v \in Workers \ {w} : run'[v] = run[v]
      /\ Archive(w) \/ Goto(w, "ack") \/ (run'[w].task = t /\ run'[w].at \notin {"idle", "ack"})
  <2>1. ASSUME Goto(w, "retry") \/ Settle(w, "sent") \/ Settle(w, "failed")
        PROVE  /\ \A v \in Workers \ {w} : run'[v] = run[v]
               /\ run'[w].task = t /\ run'[w].at \notin {"idle", "ack"}
    BY <1>0, <2>1, GotoRun, SettleRun DEF Phase, Status
  <2>2. ASSUME Archive(w) \/ Goto(w, "ack")
        PROVE  \A v \in Workers \ {w} : run'[v] = run[v]
    BY <2>2, GotoRun, FinishRun DEF Phase, Archive
  <2> QED
    BY <2>1, <2>2 DEF NoRecipient, NoIntegration, StepGone, Accepted, Rejected
<1>5. Smooth' => Live(t.target)' \/ Resolved(t.target)'
  <2> SUFFICES ASSUME Smooth' PROVE Live(t.target)' \/ Resolved(t.target)'
    OBVIOUS
  <2>0. edits = 0 /\ faults' = 0
    BY <1>2 DEF Smooth
  <2>1. CASE run'[w].task = t /\ run'[w].at \notin {"idle", "ack"}
    BY <1>1, <2>1, CarriedOn
  <2>2. CASE Archive(w) /\ IsDirect(t)
    BY <1>0, <1>1, <2>2, ArchivedSend
  <2>3. CASE Archive(w) /\ ~IsDirect(t)
    <3>1. t \in NotifDelivery /\ Held(t) /\ run[w].steps = steps
      BY <1>0, <1>1, <2>0, <2>3, NotDirect DEF DelayInv, Held
    <3>2. Fits(t)
      BY <1>1, <2>0, <3>1, DeliveryFields DEF Placed, WellPlaced
    <3>3. t.target[2] \in DOMAIN run[w].steps /\ run'[w] = Idle
      BY <2>3, <3>1, <3>2, FinishRun DEF Fits, Archive
    <3>4. FALSE
      <4>1. run'[w].at = "idle"
        BY <3>3 DEF Idle
      <4>2. \A s \in {"sent", "failed"} : ~Settle(w, s)
        BY <4>1, SettleRun DEF Status
      <4>3. \A p \in {"ack", "retry"} : ~Goto(w, p)
        BY <4>1, GotoRun DEF Phase
      <4> QED
        BY <1>0, <2>3, <3>3, <4>2, <4>3 DEF NoRecipient, NoIntegration, StepGone, Accepted, Rejected
    <3> QED
      BY <3>4
  <2>4. CASE Goto(w, "ack")
    <3>1. run'[w].at = "ack"
      BY <2>4, GotoRun DEF Phase
    <3>2. ~Archive(w) /\ ~Goto(w, "retry") /\ \A s \in {"sent", "failed"} : ~Settle(w, s)
      BY <3>1, FinishRun, SettleRun, GotoRun DEF Archive, Idle, Status, Phase
    <3>3. Accepted(w) /\ IsDirect(t)
      BY <1>0, <3>2 DEF NoRecipient, NoIntegration, StepGone, Accepted, Rejected
    <3>4. accepted' = accepted \cup {<<t.target[1], t.channel>>}
      BY <1>0, <2>0, <3>3 DEF Accepted, Fault, TypeOK
    <3>5. t.target[1] \notin Notifs /\ t.channel \in Channels
      BY <1>1, <3>3, DisjointAssumption, DeliveryFields DEF IsDirect
    <3> QED
      BY <3>4, <3>5 DEF Resolved
  <2> QED
    BY <1>4, <2>1, <2>2, <2>3, <2>4
<1>6. \A u \in DeliveryTask : queue[u] > 0 => queue'[u] > 0
  BY <1>2
<1>7. \A v \in Workers \ {w} : run'[v] = run[v]
  BY <1>4
<1> QED
  BY <1>0, <1>2, <1>3, <1>5, <1>6, <1>7, SettledWorker

\* With a row of its own, a delivery's row is the one the status is written to.
LEMMA OwnRow ==
  ASSUME TypeOK, Placed, edits = 0, DistinctChannels, NEW t \in NotifDelivery, Held(t),
         NEW s
  PROVE  /\ t.target \in Notifs \X Idx
         /\ \A k \in Idx : WithStatus(rows[t.target[1]], t.channel, s)[k] =
              IF k = t.target[2] THEN [channel |-> t.channel, status |-> s]
                                 ELSE rows[t.target[1]][k]
<1> DEFINE n == t.target[1]
           i == t.target[2]
           c == t.channel
<1>1. t \in Task /\ t.target \in Notifs \X Idx /\ n \in Notifs /\ i \in Idx /\ c \in Channels
  BY NotifDeliveryFields, DeliveryFields
<1>2. n \in created /\ i \in DOMAIN steps /\ ~IsControl(steps[i]) /\ c = steps[i].type
  BY <1>1 DEF Placed, WellPlaced, Fits
<1>3. \A k \in Idx : rows[n][k].channel = c <=> k = i
  <2> TAKE k \in Idx
  <2>1. rows[n][k].channel = PendingRows(steps)[k].channel
    BY <1>1, <1>2 DEF Placed
  <2>2. CASE k \in DOMAIN steps /\ ~IsControl(steps[k])
    BY <1>2, <2>1, <2>2 DEF PendingRows, DistinctChannels
  <2>3. CASE ~(k \in DOMAIN steps /\ ~IsControl(steps[k]))
    BY <1>1, <1>2, <2>1, <2>3, ChannelsAssumption DEF PendingRows, NoRow
  <2> QED
    BY <2>2, <2>3
<1>4. \A j \in Idx : j \in Nat /\ \A k \in 1..(j - 1) : k \in Idx /\ k # j
  BY BoundsAssumption DEF Idx
<1> QED
  BY <1>1, <1>3, <1>4 DEF WithStatus

LEMMA SettledRecord ==
  ASSUME TypeOK, PhaseOK, Decided, Placed, Settled, NEW w \in Workers, Record(w)
  PROVE  Settled'
<1>0. PICK t : t = run[w].task
  OBVIOUS
<1> DEFINE n == t.target[1]
           r == WithStatus(rows[n], t.channel, run[w].result)
<1>1. t \in NotifDelivery /\ t \in Task /\ n \in Notifs /\ Held(t) /\ run[w].result # "pending"
  BY <1>0, NotifDeliveryFields, DeliveryFields DEF Record, PhaseOK, PhaseOf, Held, Decided, DecidedOf
<1>2. UNCHANGED <<steps, edits, launched, queue, accepted, archived>> /\ (faults' = faults \/ Fault)
      /\ Goto(w, "ack")
  BY DEF Record, history, events
<1>3. \A v \in Workers \ {w} : run'[v] = run[v]
  BY <1>2, GotoRun DEF Phase
<1>4. rows' = [rows EXCEPT ![n] = r] \/ (Fault /\ rows' = rows)
  BY <1>0 DEF Record
<1>5. Smooth' => /\ \A p \in Targets : Resolved(p) => Resolved(p)'
                 /\ Resolved(t.target)'
  <2> SUFFICES ASSUME Smooth'
               PROVE  /\ \A p \in Targets : Resolved(p) => Resolved(p)'
                      /\ Resolved(t.target)'
    OBVIOUS
  <2>1. edits = 0 /\ DistinctChannels /\ rows' = [rows EXCEPT ![n] = r]
    BY <1>2, <1>4 DEF Smooth, DistinctChannels, Fault, TypeOK
  <2>2. /\ t.target \in Notifs \X Idx
        /\ \A k \in Idx : r[k] = IF k = t.target[2] THEN [channel |-> t.channel, status |-> run[w].result]
                                                    ELSE rows[n][k]
    BY <1>1, <2>1, OwnRow
  <2> HIDE DEF r
  <2>3. \A m \in Notifs, k \in Idx : rows'[m][k].status =
          IF m = n /\ k = t.target[2] THEN run[w].result ELSE rows[m][k].status
    BY <1>1, <2>1, <2>2 DEF TypeOK
  <2>4. \A p \in Targets : p[1] \in Notifs => p[2] \in Idx
    BY DisjointAssumption DEF Targets
  <2>5. t.target \in Targets
    BY <2>2 DEF Targets
  <2> QED
    BY <1>1, <1>2, <2>3, <2>4, <2>5 DEF Resolved
<1>6. \A u \in DeliveryTask : queue[u] > 0 => queue'[u] > 0
  BY <1>2
<1> QED
  BY <1>0, <1>2, <1>3, <1>5, <1>6, SettledWorker

LEMMA SettledReturn ==
  ASSUME TypeOK, PhaseOK, Decided, Settled, NEW w \in Workers,
         ScheduleRetry(w) \/ Ack(w) \/ Redeliver(w)
  PROVE  Settled'
<1>0. PICK t : t = run[w].task
  OBVIOUS
<1>1. /\ UNCHANGED <<steps, edits, rows, accepted, archived>>
      /\ faults' = faults \/ Fault
  BY DEF ScheduleRetry, Ack, Redeliver, documents, preferences, history, events
<1>2. \A p : Resolved(p) => Resolved(p)'
  BY <1>1 DEF Resolved
<1>3. \A v \in Workers \ {w} : run'[v] = run[v]
  BY GotoRun, FinishRun DEF ScheduleRetry, Ack, Redeliver, Phase
<1>4. CASE ScheduleRetry(w)
  <2> DEFINE retry == Delivery(t.target, t.channel, NextAttempt(t.attempt))
  <2>1. t \in DeliveryTask /\ t.attempt < MaxRetries
    BY <1>0, <1>4 DEF ScheduleRetry, PhaseOK, PhaseOf, Decided, DecidedOf
  <2>2. retry \in DeliveryTask /\ retry.target = t.target
    BY <2>1, DeliveryFields, BoundsAssumption DEF Delivery, DeliveryTask, NextAttempt
  <2>3. Enqueue({retry}) \/ (Fault /\ queue' = queue)
    BY <1>0, <1>4 DEF ScheduleRetry
  <2>4. \A u \in DeliveryTask : queue[u] > 0 => queue'[u] > 0
    BY <2>3, EnqueueLive
  <2>5. Smooth' => Live(t.target)'
    <3> SUFFICES ASSUME Smooth' PROVE Live(t.target)'
      OBVIOUS
    <3>1. ~Fault
      BY DEF Smooth, Fault, TypeOK
    <3>2. queue'[retry] > 0
      BY <2>2, <2>3, <3>1, EnqueueLive
    <3> QED
      BY <2>2, <3>2 DEF Live
  <2>6. UNCHANGED launched
    BY <1>4 DEF ScheduleRetry, history
  <2> QED
    BY <1>0, <1>1, <1>2, <1>3, <2>4, <2>5, <2>6, SettledWorker
<1>5. CASE Ack(w)
  <2>1. UNCHANGED <<launched, queue>> /\ run[w].at = "ack"
    BY <1>5 DEF Ack, history
  <2> QED
    BY <1>0, <1>1, <1>2, <1>3, <2>1, SettledWorker
<1>6. CASE Redeliver(w)
  <2>1. faults' # 0
    BY <1>6 DEF Redeliver, Fault, TypeOK
  <2> QED
    BY <2>1 DEF Settled, Smooth
<1> QED
  BY <1>4, <1>5, <1>6

LEMMA DecidedStep ==
  ASSUME Decided, NEW w \in Workers, DecidedOf(run'[w]), \A v \in Workers \ {w} : run'[v] = run[v]
  PROVE  Decided'
<1> SUFFICES ASSUME NEW v \in Workers PROVE DecidedOf(run'[v])
  BY DEF Decided
<1>1. CASE v = w
  BY <1>1
<1>2. CASE v # w
  BY <1>2 DEF Decided
<1> QED
  BY <1>1, <1>2

\* A worker that goes to any phase but "record" and "retry", or settles on a
\* final status.
LEMMA DecidedMove ==
  ASSUME TypeOK, Decided, NEW w \in Workers,
         NEW p \in {"limited", "inheriting", "checked", "ack"}, NEW s \in {"skipped", "failed", "sent"},
         \/ Goto(w, p) \/ Settle(w, s) \/ Finish(w)
         \/ run' = [run EXCEPT ![w].at = p, ![w].fresh = TRUE]
         \/ run' = [run EXCEPT ![w].at = p, ![w].consent = TRUE]
  PROVE  Decided'
<1>1. p \in Phase /\ s \in Status /\ p \notin {"record", "retry"} /\ s # "pending"
  BY DEF Phase, Status
<1>2. /\ run'[w].at \in {p, "idle"} \/ (run'[w].at = "record" /\ run'[w].result = s)
      /\ \A v \in Workers \ {w} : run'[v] = run[v]
  <2>1. CASE Goto(w, p)
    BY <1>1, <2>1, GotoRun
  <2>2. CASE Settle(w, s)
    BY <1>1, <2>2, SettleRun
  <2>3. CASE Finish(w)
    BY <2>3, FinishRun DEF Idle
  <2>4. CASE run' = [run EXCEPT ![w].at = p, ![w].fresh = TRUE]
    BY <1>1, <2>4, LimitedRun
  <2>5. CASE run' = [run EXCEPT ![w].at = p, ![w].consent = TRUE]
    BY <1>1, <2>5, AskedRun
  <2> QED
    BY <2>1, <2>2, <2>3, <2>4, <2>5
<1>3. DecidedOf(run'[w])
  BY <1>1, <1>2 DEF DecidedOf
<1> QED
  BY <1>2, <1>3, DecidedStep

LEMMA DecidedHandle ==
  ASSUME TypeOK, Decided, NEW w \in Workers, Handle(w) \/ Redeliver(w)
  PROVE  Decided'
<1>1. CASE CheckRate(w) \/ ReadWorkflowPref(w) \/ ReadGlobalPref(w)
  BY <1>1, DecidedMove DEF CheckRate, ReadWorkflowPref, ReadGlobalPref, Decide
<1>2. CASE \/ RunTrigger(w) \/ RunDelay(w) \/ ScheduleRetry(w) \/ Record(w) \/ Ack(w) \/ Redeliver(w)
  BY <1>2, DecidedMove DEF RunTrigger, RunDelay, ScheduleRetry, Record, Ack, Redeliver
<1>3. CASE NoRecipient(w) \/ NoIntegration(w) \/ StepGone(w) \/ Accepted(w)
  BY <1>3, DecidedMove DEF NoRecipient, NoIntegration, StepGone, Archive, Accepted
<1>4. CASE Rejected(w)
  <2>1. CASE Goto(w, "retry") /\ run[w].task.attempt < MaxRetries
    <3>1. /\ run'[w].at = "retry" /\ run'[w].task = run[w].task
          /\ \A v \in Workers \ {w} : run'[v] = run[v]
      BY <2>1, GotoRun DEF Phase
    <3>2. DecidedOf(run'[w])
      BY <2>1, <3>1 DEF DecidedOf
    <3> QED
      BY <3>1, <3>2, DecidedStep
  <2>2. CASE Archive(w) \/ Settle(w, "failed")
    BY <2>2, DecidedMove DEF Archive
  <2> QED
    BY <1>4, <2>1, <2>2 DEF Rejected
<1> QED
  BY <1>1, <1>2, <1>3, <1>4 DEF Handle

LEMMA DecidedNext ==
  ASSUME TypeOK, Decided, [Next]_vars
  PROVE  Decided'
<1>1. ASSUME NEW w \in Workers, NEW t \in Task, Begin(w, t)
      PROVE  Decided'
  <2>1. /\ run'[w].at \in {"ack", "checked", "begun"}
        /\ \A v \in Workers \ {w} : run'[v] = run[v]
    BY <1>1 DEF Begin, TypeOK
  <2>2. DecidedOf(run'[w])
    BY <2>1 DEF DecidedOf
  <2> QED
    BY <2>1, <2>2, DecidedStep
<1>2. CASE Environment
  BY <1>2, AroundHeld DEF Decided, DecidedOf
<1>3. CASE UNCHANGED run
  BY <1>3 DEF Decided
<1>4. CASE Api \/ (\E s \in Subs, i \in Idx : RunDigest(s, i)) \/ UNCHANGED vars
  BY <1>3, <1>4 DEF Api, AcceptTrigger, AcceptDirect, RunDigest, vars
<1> QED
  BY <1>1, <1>2, <1>4, DecidedHandle DEF Next

LEMMA SettledNext ==
  ASSUME TypeOK, PhaseOK, DelayInv, Placed, Decided, Settled, [Next]_vars
  PROVE  Settled'
<1>1. ASSUME NEW w \in Workers, Handle(w) \/ Redeliver(w)
      PROVE  Settled'
  <2>1. CASE RunTrigger(w) \/ RunDelay(w)
    BY <2>1, SettledTrigger, SettledDelay
  <2>2. CASE CheckRate(w) \/ ReadWorkflowPref(w) \/ ReadGlobalPref(w)
    BY <2>2, SettledReads
  <2>3. CASE NoRecipient(w) \/ NoIntegration(w) \/ StepGone(w) \/ Accepted(w) \/ Rejected(w)
    BY <2>3, SettledOutcome
  <2>4. CASE Record(w)
    BY <2>4, SettledRecord
  <2>5. CASE ScheduleRetry(w) \/ Ack(w) \/ Redeliver(w)
    BY <2>5, SettledReturn
  <2> QED
    BY <1>1, <2>1, <2>2, <2>3, <2>4, <2>5 DEF Handle
<1>2. CASE UNCHANGED vars
  BY <1>2 DEF vars, Settled, Smooth, DistinctChannels, Live, Carrying, Resolved
<1> QED
  BY <1>1, <1>2, SettledApi, SettledBegin, SettledDigest, SettledEnvironment DEF Next

\* Nothing live and everything launched settled: the property itself.
LEMMA SettledQuiet ==
  ASSUME TypeOK, Settled
  PROVE  SettledWhenQuiet
<1> SUFFICES ASSUME Quiet, Smooth, NEW p \in Targets, launched[p] > 0 PROVE Resolved(p)
  BY DEF SettledWhenQuiet, Resolved, Smooth
<1>1. ~Live(p)
  BY DEF Live, Carrying, Quiet, TypeOK, Task
<1> QED
  BY <1>1 DEF Settled

\* Without faults and edits, every delivery started has an outcome by the time
\* nothing is left to do: a final status on its row or, for a transactional send,
\* an acceptance or a dead letter. Workers may interleave in any way, preferences,
\* integrations and rate-limit windows may change in between.
THEOREM Settles == Spec => []SettledWhenQuiet
<1>1. Init => DelayInv /\ Placed /\ Decided /\ Settled
  <2> SUFFICES ASSUME Init PROVE DelayInv /\ Placed /\ Decided /\ Settled
    OBVIOUS
  <2>1. DelayInv
    BY DEF Init, DelayInv, Held, DeliveryTask, DelayTask, Task, Idle, Targets
  <2>2. Decided /\ Settled
    BY DEF Init, Decided, DecidedOf, Idle, Settled
  <2> QED
    BY <2>1, <2>2, PlacedInit
<1>2. TypeOK /\ PhaseOK /\ DelayInv /\ Placed /\ Decided /\ Settled /\ [Next]_vars
        => DelayInv' /\ Placed' /\ Decided' /\ Settled'
  BY DelayNext, PlacedNext, DecidedNext, SettledNext
<1>3. TypeOK /\ Settled => SettledWhenQuiet
  BY SettledQuiet
<1> QED
  BY <1>1, <1>2, <1>3, Typed, PTL DEF Spec
-----------------------------------------------------------------------------
(* Attempts. Every copy of a delivery in asynq, and every worker that has  *)
(* yet to call the provider, may still make the calls from its attempt to  *)
(* the last. Counted with the calls already made, they never exceed what   *)
(* the launches of that delivery paid for.                                 *)

\* Calls that copies in asynq may still make: <<<<task, copy>>, attempt>>.
Waiting(p) ==
  {c \in (DeliveryTask \X Nat) \X (0..MaxRetries) :
     /\ c[1][1].target = p /\ c[1][2] \in 1..queue[c[1][1]]
     /\ c[1][1].attempt <= c[2]}

Trying == {"begun", "limited", "inheriting", "checked"}

LeftOf(j, p, m) ==
  /\ j.task \in DeliveryTask /\ j.task.target = p
  /\ \/ j.at \in Trying /\ j.task.attempt <= m
     \/ j.at = "retry" /\ j.task.attempt < m

\* Calls that workers may still make or hand on: <<worker, attempt>>.
Working(p) == {c \in Workers \X (0..MaxRetries) : LeftOf(run[c[1]], p, c[2])}

PaidFor(p) ==
  /\ IsFiniteSet(Waiting(p)) /\ IsFiniteSet(Working(p))
  /\ sends[p] + Cardinality(Waiting(p)) + Cardinality(Working(p)) <= (MaxRetries + 1) * launched[p]

AllPaid == \A p \in Targets : PaidFor(p)

\* The attempts from a on, of one copy or one worker.
From(x, a) == {x} \X (a..MaxRetries)

LEMMA FromCard ==
  ASSUME NEW x, NEW a \in Nat, a <= MaxRetries + 1
  PROVE  IsFiniteSet(From(x, a)) /\ Cardinality(From(x, a)) = MaxRetries + 1 - a
<1>1. a \in Int /\ MaxRetries \in Int
  BY BoundsAssumption
<1>2. /\ IsFiniteSet(a..MaxRetries)
      /\ Cardinality(a..MaxRetries) = IF a > MaxRetries THEN 0 ELSE MaxRetries - a + 1
  BY <1>1, FS_Interval
<1>3. IsFiniteSet({x}) /\ Cardinality({x}) = 1
  BY FS_Singleton
<1>4. IsFiniteSet(From(x, a)) /\ Cardinality(From(x, a)) = 1 * Cardinality(a..MaxRetries)
  BY <1>2, <1>3, FS_Product DEF From
<1> QED
  BY <1>1, <1>2, <1>4

\* Taking a part out of a finite set and putting another in.
LEMMA Exchange ==
  ASSUME NEW S, IsFiniteSet(S), NEW A, A \subseteq S, NEW B, IsFiniteSet(B),
         NEW T, T \subseteq (S \ A) \cup B
  PROVE  IsFiniteSet(T) /\ Cardinality(T) <= Cardinality(S) - Cardinality(A) + Cardinality(B)
<1>1. IsFiniteSet(S \ A) /\ Cardinality(S \ A) = Cardinality(S) - Cardinality(A)
  <2>1. S \cap A = A
    OBVIOUS
  <2> QED
    BY <2>1, FS_Difference
<1>2. /\ IsFiniteSet((S \ A) \cup B)
      /\ Cardinality((S \ A) \cup B) = Cardinality(S \ A) + Cardinality(B) - Cardinality((S \ A) \cap B)
  BY <1>1, FS_Union
<1>3. IsFiniteSet((S \ A) \cap B)
  BY <1>1, FS_Subset
<1>4. Cardinality((S \ A) \cap B) \in Nat /\ Cardinality(S) \in Nat /\ Cardinality(B) \in Nat
  BY <1>3, FS_CardinalityType
<1>5. IsFiniteSet(A) /\ Cardinality(A) \in Nat
  BY FS_Subset, FS_CardinalityType
<1>6. IsFiniteSet(T) /\ Cardinality(T) <= Cardinality((S \ A) \cup B)
  BY <1>2, FS_Subset
<1>7. Cardinality(T) \in Nat /\ Cardinality((S \ A) \cup B) \in Nat
  BY <1>2, <1>6, FS_CardinalityType
<1> QED
  BY <1>1, <1>2, <1>4, <1>5, <1>6, <1>7

LEMMA Spend ==
  ASSUME TypeOK, NEW p \in Targets, PaidFor(p),
         NEW A, A \subseteq Waiting(p), NEW B, IsFiniteSet(B), Waiting(p)' \subseteq (Waiting(p) \ A) \cup B,
         NEW E, E \subseteq Working(p), NEW F, IsFiniteSet(F), Working(p)' \subseteq (Working(p) \ E) \cup F,
         NEW s \in Nat, sends'[p] = sends[p] + s, NEW n \in {0, 1}, launched'[p] = launched[p] + n,
         s + Cardinality(B) + Cardinality(F) <= Cardinality(A) + Cardinality(E) + n * (MaxRetries + 1)
  PROVE  PaidFor(p)'
<1>1. /\ IsFiniteSet(Waiting(p)')
      /\ Cardinality(Waiting(p)') <= Cardinality(Waiting(p)) - Cardinality(A) + Cardinality(B)
  BY Exchange DEF PaidFor
<1>2. /\ IsFiniteSet(Working(p)')
      /\ Cardinality(Working(p)') <= Cardinality(Working(p)) - Cardinality(E) + Cardinality(F)
  BY Exchange DEF PaidFor
<1>3. IsFiniteSet(A) /\ IsFiniteSet(E)
  BY FS_Subset DEF PaidFor
<1>4. /\ Cardinality(A) \in Nat /\ Cardinality(B) \in Nat /\ Cardinality(E) \in Nat /\ Cardinality(F) \in Nat
      /\ Cardinality(Waiting(p)') \in Nat /\ Cardinality(Working(p)') \in Nat
  BY <1>1, <1>2, <1>3, FS_CardinalityType
<1>5. Cardinality(Waiting(p)) \in Nat /\ Cardinality(Working(p)) \in Nat
  BY FS_CardinalityType DEF PaidFor
<1>6. sends[p] \in Nat /\ launched[p] \in Nat /\ MaxRetries + 1 \in Nat
  BY BoundsAssumption DEF TypeOK
<1>7. sends[p] + Cardinality(Waiting(p)) + Cardinality(Working(p)) <= (MaxRetries + 1) * launched[p]
  BY DEF PaidFor
<1>8. (MaxRetries + 1) * launched'[p] = (MaxRetries + 1) * launched[p] + n * (MaxRetries + 1)
  <2>1. CASE n = 0
    BY <1>6, <2>1
  <2>2. CASE n = 1
    BY <1>6, <2>2
  <2> QED
    BY <2>1, <2>2
<1>9. n * (MaxRetries + 1) \in Nat /\ (MaxRetries + 1) * launched[p] \in Nat
  BY <1>6
<1>10. sends'[p] + Cardinality(Waiting(p)') + Cardinality(Working(p)') <= (MaxRetries + 1) * launched'[p]
  BY <1>1, <1>2, <1>4, <1>5, <1>6, <1>7, <1>8, <1>9
<1> QED
  BY <1>1, <1>2, <1>10 DEF PaidFor

\* Nothing new for p.
LEMMA SpendNothing ==
  ASSUME TypeOK, NEW p \in Targets, PaidFor(p),
         Waiting(p)' \subseteq Waiting(p), Working(p)' \subseteq Working(p),
         sends'[p] = sends[p], launched'[p] = launched[p]
  PROVE  PaidFor(p)'
<1> DEFINE none == {}
<1>1. IsFiniteSet(none) /\ Cardinality(none) = 0
  BY FS_EmptySet
<1>2. /\ none \subseteq Waiting(p) /\ Waiting(p)' \subseteq (Waiting(p) \ none) \cup none
      /\ none \subseteq Working(p) /\ Working(p)' \subseteq (Working(p) \ none) \cup none
  OBVIOUS
<1>3. /\ 0 \in Nat /\ 0 \in {0, 1} /\ sends'[p] = sends[p] + 0 /\ launched'[p] = launched[p] + 0
      /\ 0 + Cardinality(none) + Cardinality(none) <= Cardinality(none) + Cardinality(none) + 0 * (MaxRetries + 1)
  BY <1>1, BoundsAssumption DEF TypeOK
<1> HIDE DEF none
<1> QED
  BY <1>1, <1>2, <1>3, Spend

\* What one more copy of a task adds.
LEMMA WaitingMore ==
  ASSUME TypeOK, queue' \in [Task -> Nat], NEW p \in Targets, NEW t \in DeliveryTask,
         \A u \in DeliveryTask : u.target = p /\ u # t => queue'[u] <= queue[u],
         queue'[t] <= queue[t] + 1
  PROVE  Waiting(p)' \subseteq Waiting(p) \cup From(<<t, queue[t] + 1>>, t.attempt)
<1> SUFFICES ASSUME NEW c \in Waiting(p)', c \notin Waiting(p)
             PROVE  c \in From(<<t, queue[t] + 1>>, t.attempt)
  OBVIOUS
<1>1. PICK u \in DeliveryTask, k \in Nat, m \in 0..MaxRetries : c = <<<<u, k>>, m>>
  BY DEF Waiting
<1>2. u.target = p /\ k \in 1..queue'[u] /\ u.attempt <= m /\ k \notin 1..queue[u]
  BY <1>1 DEF Waiting
<1>3. queue[u] \in Nat /\ queue[t] \in Nat /\ queue'[u] \in Nat
  BY DEF TypeOK, Task
<1>4. u = t
  BY <1>2, <1>3
<1>5. k = queue[t] + 1
  BY <1>1, <1>2, <1>3, <1>4
<1> QED
  BY <1>1, <1>2, <1>4, <1>5, DeliveryFields, BoundsAssumption DEF From

LEMMA WaitingSame ==
  ASSUME TypeOK, NEW p, \A u \in DeliveryTask : u.target = p => queue'[u] <= queue[u],
         queue' \in [Task -> Nat]
  PROVE  Waiting(p)' \subseteq Waiting(p)
<1> SUFFICES ASSUME NEW c \in Waiting(p)' PROVE c \in Waiting(p)
  OBVIOUS
<1>1. PICK u \in DeliveryTask, k \in Nat, m \in 0..MaxRetries : c = <<<<u, k>>, m>>
  BY DEF Waiting
<1>2. u.target = p /\ k \in 1..queue'[u] /\ u.attempt <= m
  BY <1>1 DEF Waiting
<1>3. queue[u] \in Nat /\ queue'[u] \in Nat
  BY DEF TypeOK, Task
<1>4. k \in 1..queue[u]
  BY <1>2, <1>3
<1> QED
  BY <1>1, <1>2, <1>4 DEF Waiting

LEMMA WorkingSame ==
  ASSUME NEW p, \A w \in Workers, m \in 0..MaxRetries : LeftOf(run'[w], p, m) => LeftOf(run[w], p, m)
  PROVE  Working(p)' \subseteq Working(p)
  BY DEF Working

\* A worker that goes on, or stops, without calling the provider.
LEMMA WorkingMove ==
  ASSUME NEW p, NEW w \in Workers, \A v \in Workers \ {w} : run'[v] = run[v],
         \/ run'[w].at \notin Trying \cup {"retry"}
         \/ run'[w].at \in Trying /\ run[w].at \in Trying /\ run'[w].task = run[w].task
  PROVE  Working(p)' \subseteq Working(p)
<1> SUFFICES ASSUME NEW v \in Workers, NEW m, LeftOf(run'[v], p, m) PROVE LeftOf(run[v], p, m)
  BY WorkingSame
<1>1. CASE v # w
  BY <1>1
<1>2. CASE v = w
  BY <1>2 DEF LeftOf, Trying
<1> QED
  BY <1>1, <1>2

\* One launch pays for one more copy.
LEMMA Launched1 ==
  ASSUME TypeOK, NEW p \in Targets, PaidFor(p), NEW t \in DeliveryTask,
         Waiting(p)' \subseteq Waiting(p) \cup From(<<t, queue[t] + 1>>, t.attempt),
         Working(p)' \subseteq Working(p),
         sends'[p] = sends[p], launched'[p] = launched[p] + 1
  PROVE  PaidFor(p)'
<1> DEFINE none == {}
           more == From(<<t, queue[t] + 1>>, t.attempt)
<1>0. t.attempt \in Nat /\ t.attempt <= MaxRetries + 1 /\ MaxRetries \in Nat
  BY DeliveryFields, BoundsAssumption
<1>1. IsFiniteSet(none) /\ Cardinality(none) = 0
  BY FS_EmptySet
<1>2. IsFiniteSet(more) /\ Cardinality(more) = MaxRetries + 1 - t.attempt
  BY <1>0, FromCard
<1>3. /\ none \subseteq Waiting(p) /\ Waiting(p)' \subseteq (Waiting(p) \ none) \cup more
      /\ none \subseteq Working(p) /\ Working(p)' \subseteq (Working(p) \ none) \cup none
  OBVIOUS
<1>4. /\ 0 \in Nat /\ 1 \in {0, 1} /\ sends'[p] = sends[p] + 0
      /\ 0 + Cardinality(more) + Cardinality(none) <= Cardinality(none) + Cardinality(none) + 1 * (MaxRetries + 1)
  BY <1>0, <1>1, <1>2 DEF TypeOK
<1> HIDE DEF none, more
<1> QED
  BY <1>1, <1>2, <1>3, <1>4, Spend

LEMMA EnqueueCount ==
  ASSUME TypeOK, NEW ts, Enqueue(ts)
  PROVE  /\ queue' \in [Task -> Nat]
         /\ \A t \in Task : queue'[t] = IF t \in ts THEN queue[t] + 1 ELSE queue[t]
  BY EnqueueType DEF Enqueue, TypeOK

LEMMA LaunchCount ==
  ASSUME TypeOK, NEW ts, Launch(ts), NEW p \in Targets
  PROVE  launched'[p] = IF p \in ts THEN launched[p] + 1 ELSE launched[p]
  BY DEF Launch

\* What a trigger, a delay or a digest starts, its launches pay for.
LEMMA PaidStart ==
  ASSUME TypeOK, AllPaid, NEW ss, NEW done, Enqueue(TasksOf(done, ss)),
         \A p \in done : p \in Notifs \X Idx,
         Launch({p \in done : ~IsControl(ss[p[2]])}),
         \A p \in Targets : Working(p)' \subseteq Working(p), UNCHANGED sends
  PROVE  AllPaid'
<1> SUFFICES ASSUME NEW p \in Targets PROVE PaidFor(p)'
  BY DEF AllPaid
<1>1. PaidFor(p) /\ Working(p)' \subseteq Working(p) /\ sends'[p] = sends[p]
  BY DEF AllPaid
<1>2. queue' \in [Task -> Nat]
      /\ \A t \in Task : queue'[t] = IF t \in TasksOf(done, ss) THEN queue[t] + 1 ELSE queue[t]
  BY EnqueueCount
<1>3. launched'[p] = IF p \in {q \in done : ~IsControl(ss[q[2]])} THEN launched[p] + 1 ELSE launched[p]
  BY LaunchCount
<1>4. ASSUME NEW t \in DeliveryTask, t.target = p, t \in TasksOf(done, ss)
      PROVE  p \in done /\ ~IsControl(ss[p[2]]) /\ t = Delivery(p, ss[p[2]].type, 0)
  <2>1. PICK q \in done : \/ ss[q[2]].type = "delay" /\ t = Delay(q)
                          \/ ss[q[2]].type \notin Control /\ t = Delivery(q, ss[q[2]].type, 0)
    BY <1>4, TasksOfShape
  <2>2. t # Delay(q)
    BY DEF DeliveryTask, Delay
  <2> QED
    BY <1>4, <2>1, <2>2 DEF Delivery, IsControl
<1>5. CASE \E t \in DeliveryTask : t.target = p /\ t \in TasksOf(done, ss)
  <2>1. PICK t \in DeliveryTask : t.target = p /\ t \in TasksOf(done, ss)
    BY <1>5
  <2>2. launched'[p] = launched[p] + 1
    BY <1>3, <1>4, <2>1
  <2>3. \A u \in DeliveryTask : u.target = p /\ u # t => queue'[u] <= queue[u]
    BY <1>2, <1>4, <2>1 DEF TypeOK, Task
  <2>4. queue'[t] <= queue[t] + 1
    BY <1>2 DEF TypeOK, Task
  <2>5. Waiting(p)' \subseteq Waiting(p) \cup From(<<t, queue[t] + 1>>, t.attempt)
    BY <1>2, <2>3, <2>4, WaitingMore
  <2> QED
    BY <1>1, <2>2, <2>5, Launched1
<1>6. CASE ~\E t \in DeliveryTask : t.target = p /\ t \in TasksOf(done, ss)
  <2>1. \A u \in DeliveryTask : u.target = p => queue'[u] <= queue[u]
    BY <1>2, <1>6 DEF TypeOK, Task
  <2>2. Waiting(p)' \subseteq Waiting(p)
    BY <1>2, <2>1, WaitingSame
  <2>3. CASE launched'[p] = launched[p]
    BY <1>1, <2>2, <2>3, SpendNothing
  <2>4. CASE launched'[p] = launched[p] + 1
    <3> DEFINE none == {}
    <3>1. IsFiniteSet(none) /\ Cardinality(none) = 0
      BY FS_EmptySet
    <3>2. /\ none \subseteq Waiting(p) /\ Waiting(p)' \subseteq (Waiting(p) \ none) \cup none
          /\ none \subseteq Working(p) /\ Working(p)' \subseteq (Working(p) \ none) \cup none
      BY <1>1, <2>2
    <3>3. /\ 0 \in Nat /\ 1 \in {0, 1} /\ sends'[p] = sends[p] + 0
          /\ 0 + Cardinality(none) + Cardinality(none) <= Cardinality(none) + Cardinality(none) + 1 * (MaxRetries + 1)
      BY <1>1, <3>1, BoundsAssumption DEF TypeOK
    <3> HIDE DEF none
    <3> QED
      BY <1>1, <2>4, <3>1, <3>2, <3>3, Spend
  <2> QED
    BY <1>3, <2>3, <2>4
<1> QED
  BY <1>5, <1>6

LEMMA PaidResume ==
  ASSUME TypeOK, AllPaid, NEW n \in Notifs, NEW i \in Idx, NEW ss, ss \in Workflows \cup {<< >>}, Resume(n, i, ss),
         \A p \in Targets : Working(p)' \subseteq Working(p), UNCHANGED sends
  PROVE  AllPaid'
<1> DEFINE all == {<<n, j>> : j \in Following(ss, i)}
<1>1. PICK done \in SUBSET all : Enqueue(TasksOf(done, ss)) /\ Launch(done)
  BY DEF Resume
<1>2. \A p \in done : p \in Notifs \X Idx /\ ~IsControl(ss[p[2]])
  <2> SUFFICES ASSUME NEW p \in done
               PROVE  p \in Notifs \X Idx /\ ~IsControl(ss[p[2]])
    OBVIOUS
  <2>1. PICK j \in Following(ss, i) : p = <<n, j>>
    OBVIOUS
  <2>2. j \in DOMAIN ss /\ ss \in Workflows /\ j > i
    BY <2>1 DEF Following
  <2>3. j \in Idx /\ j \in Nat /\ i \in Nat
    BY <2>2, StepType, BoundsAssumption DEF Idx
  <2>4. ~IsControl(ss[j])
    BY <2>1, <2>2, <2>3 DEF Following
  <2> QED
    BY <2>1, <2>3, <2>4
<1>3. {p \in done : ~IsControl(ss[p[2]])} = done
  BY <1>2
<1> QED
  BY <1>1, <1>2, <1>3, PaidStart

LEMMA PaidTrigger ==
  ASSUME TypeOK, PhaseOK, AllPaid, NEW w \in Workers, RunTrigger(w)
  PROVE  AllPaid'
<1> DEFINE t == run[w].task
           ss == run[w].steps
           all == {p \in t.batch \X Idx : p[2] \in Reached(p[1], ss)}
<1>1. t \in TriggerTask /\ Goto(w, "ack") /\ UNCHANGED sends
  BY KindOfTask DEF RunTrigger, PhaseOK, PhaseOf
<1>2. PICK done \in SUBSET all :
        Enqueue(TasksOf(done, ss)) /\ Launch({p \in done : ~IsControl(ss[p[2]])})
  BY DEF RunTrigger
<1>3. \A p \in done : p \in Notifs \X Idx
  BY <1>1 DEF TriggerTask
<1>4. run'[w].at = "ack" /\ \A v \in Workers \ {w} : run'[v] = run[v]
  BY <1>1, GotoRun DEF Phase
<1>5. \A p \in Targets : Working(p)' \subseteq Working(p)
  BY <1>4, WorkingMove DEF Trying
<1> QED
  BY <1>1, <1>2, <1>3, <1>5, PaidStart

LEMMA PaidDelay ==
  ASSUME TypeOK, PhaseOK, AllPaid, NEW w \in Workers, RunDelay(w)
  PROVE  AllPaid'
<1> DEFINE t == run[w].task
<1>1. t.n \in Notifs /\ t.i \in Idx /\ run[w].steps \in Workflows \cup {<< >>}
  BY KindOfTask, JobFields DEF RunDelay, PhaseOK, PhaseOf, TypeOK, DelayTask
<1>2. UNCHANGED sends /\ Goto(w, "ack") /\ Resume(t.n, t.i, run[w].steps)
  BY DEF RunDelay
<1>3. run'[w].at = "ack" /\ \A v \in Workers \ {w} : run'[v] = run[v]
  BY <1>2, GotoRun DEF Phase
<1>4. \A p \in Targets : Working(p)' \subseteq Working(p)
  BY <1>3, WorkingMove DEF Trying
<1> QED
  BY <1>1, <1>2, <1>4, PaidResume

LEMMA PaidDigest ==
  ASSUME TypeOK, AllPaid, NEW s \in Subs, NEW i \in Idx, RunDigest(s, i)
  PROVE  AllPaid'
<1>1. PICK p \in window : Resume(p[1], i, steps)
  BY DEF RunDigest
<1>2. UNCHANGED <<sends, run>>
  BY DEF RunDigest
<1>3. p[1] \in Notifs /\ steps \in Workflows
  BY DEF TypeOK
<1>4. \A q \in Targets : Working(q)' \subseteq Working(q)
  BY <1>2, WorkingSame
<1> QED
  BY <1>1, <1>2, <1>3, <1>4, PaidResume

LEMMA PaidApi ==
  ASSUME TypeOK, AllPaid, Api
  PROVE  AllPaid'
<1>1. ASSUME NEW batch \in SUBSET Notifs, AcceptTrigger(batch)
      PROVE  AllPaid'
  <2>1. UNCHANGED <<run, launched, sends>> /\ Enqueue({Trigger(batch)})
    BY <1>1 DEF AcceptTrigger, history
  <2>2. \A t \in DeliveryTask : t # Trigger(batch)
    BY DEF DeliveryTask, Trigger
  <2>3. queue' \in [Task -> Nat] /\ \A t \in DeliveryTask : queue'[t] <= queue[t]
    BY <2>1, <2>2, EnqueueCount DEF TypeOK, Task
  <2>4. ASSUME NEW p \in Targets PROVE PaidFor(p)'
    <3>1. Waiting(p)' \subseteq Waiting(p) /\ Working(p)' \subseteq Working(p)
      BY <2>1, <2>3, WaitingSame, WorkingSame
    <3> QED
      BY <2>1, <3>1, SpendNothing DEF AllPaid
  <2> QED
    BY <2>4 DEF AllPaid
<1>2. ASSUME NEW d \in Directs, NEW c \in Channels, AcceptDirect(d, c)
      PROVE  AllPaid'
  <2>1. PICK t : t = Delivery(<<d, 0>>, c, 0)
    OBVIOUS
  <2>2. UNCHANGED <<run, sends>> /\ Enqueue({t}) /\ Launch({<<d, 0>>})
    BY <1>2, <2>1 DEF AcceptDirect
  <2>3. t \in DeliveryTask /\ t.target = <<d, 0>>
    BY <2>1, BoundsAssumption DEF Delivery, DeliveryTask, Targets
  <2>4. queue' \in [Task -> Nat]
        /\ \A u \in DeliveryTask : queue'[u] = IF u = t THEN queue[u] + 1 ELSE queue[u]
    BY <2>2, EnqueueCount DEF Task
  <2>5. ASSUME NEW p \in Targets PROVE PaidFor(p)'
    <3>1. Working(p)' \subseteq Working(p) /\ sends'[p] = sends[p] /\ PaidFor(p)
      BY <2>2, WorkingSame DEF AllPaid
    <3>2. CASE p = <<d, 0>>
      <4>1. /\ \A u \in DeliveryTask : u.target = p /\ u # t => queue'[u] <= queue[u]
            /\ queue'[t] <= queue[t] + 1
        BY <2>3, <2>4 DEF TypeOK, Task
      <4>2. Waiting(p)' \subseteq Waiting(p) \cup From(<<t, queue[t] + 1>>, t.attempt)
        BY <2>3, <2>4, <4>1, WaitingMore
      <4>3. launched'[p] = launched[p] + 1
        BY <2>2, <3>2, LaunchCount
      <4> QED
        BY <2>3, <3>1, <4>2, <4>3, Launched1
    <3>3. CASE p # <<d, 0>>
      <4>1. \A u \in DeliveryTask : u.target = p => queue'[u] <= queue[u]
        <5> SUFFICES ASSUME NEW u \in DeliveryTask, u.target = p PROVE queue'[u] <= queue[u]
          OBVIOUS
        <5>1. u # t /\ queue[u] \in Nat
          BY <2>3, <3>3 DEF TypeOK, Task
        <5>2. queue'[u] = queue[u]
          BY <2>4, <5>1
        <5> QED
          BY <5>1, <5>2
      <4>2. Waiting(p)' \subseteq Waiting(p)
        BY <2>4, <4>1, WaitingSame
      <4>3. launched'[p] = launched[p]
        BY <2>2, <3>3, LaunchCount
      <4> QED
        BY <3>1, <4>2, <4>3, SpendNothing
    <3> QED
      BY <3>2, <3>3
  <2> QED
    BY <2>5 DEF AllPaid
<1> QED
  BY <1>1, <1>2 DEF Api

LEMMA PaidEnvironment ==
  ASSUME TypeOK, AllPaid, Environment
  PROVE  AllPaid'
<1>1. /\ UNCHANGED <<launched, sends, queue>>
      /\ \A w \in Workers : run'[w].at = run[w].at /\ run'[w].task = run[w].task
  BY AroundHeld
<1>2. ASSUME NEW p \in Targets PROVE PaidFor(p)'
  <2>1. Waiting(p)' \subseteq Waiting(p)
    BY <1>1 DEF Waiting
  <2>2. Working(p)' \subseteq Working(p)
    BY <1>1, WorkingSame DEF LeftOf
  <2> QED
    BY <1>1, <2>1, <2>2, SpendNothing DEF AllPaid
<1> QED
  BY <1>2 DEF AllPaid

LEMMA PaidBegin ==
  ASSUME TypeOK, AllPaid, NEW w \in Workers, NEW t \in Task, Begin(w, t)
  PROVE  AllPaid'
<1>1. /\ \A v \in Workers \ {w} : run'[v] = run[v]
      /\ run'[w].task = t /\ run[w].at = "idle"
      /\ t \in DeliveryTask => run'[w].at \in {"checked", "begun"}
  BY DEF Begin, TypeOK, DeliveryTask
<1>2. /\ queue[t] > 0 /\ queue' = [queue EXCEPT ![t] = @ - 1]
      /\ UNCHANGED <<launched, sends>>
  BY DEF Begin, history
<1>3. queue' \in [Task -> Nat] /\ \A u \in Task : queue'[u] = IF u = t THEN queue[u] - 1 ELSE queue[u]
  BY <1>2 DEF TypeOK
<1>4. \A u \in DeliveryTask : u \in Task /\ queue[u] \in Nat /\ queue'[u] <= queue[u]
  BY <1>3 DEF TypeOK, Task
<1>5. ASSUME NEW p \in Targets PROVE PaidFor(p)'
  <2>1. PaidFor(p)
    BY DEF AllPaid
  <2>2. CASE t \in DeliveryTask /\ t.target = p
    <3> DEFINE out == From(<<t, queue[t]>>, t.attempt)
               in == From(w, t.attempt)
    <3>1. t.attempt \in Nat /\ t.attempt <= MaxRetries + 1 /\ MaxRetries \in Nat /\ queue[t] \in Nat
      BY <1>4, <2>2, DeliveryFields, BoundsAssumption
    <3>2. /\ IsFiniteSet(in) /\ Cardinality(in) = Cardinality(out)
          /\ Cardinality(out) \in Nat
      BY <3>1, FromCard
    <3>3. out \subseteq Waiting(p)
      BY <1>2, <2>2, <3>1 DEF From, Waiting
    <3>4. Waiting(p)' \subseteq (Waiting(p) \ out) \cup {}
      <4> SUFFICES ASSUME NEW c \in Waiting(p)' PROVE c \in Waiting(p) \ out
        OBVIOUS
      <4>1. c \in Waiting(p)
        BY <1>3, <1>4, WaitingSame
      <4>2. c[1] # <<t, queue[t]>>
        BY <1>3, <2>2, <3>1 DEF Waiting
      <4> QED
        BY <4>1, <4>2 DEF From
    <3>5. Working(p)' \subseteq (Working(p) \ {}) \cup in
      <4> SUFFICES ASSUME NEW c \in Working(p)', c \notin Working(p) PROVE c \in in
        OBVIOUS
      <4>1. PICK v \in Workers, m \in 0..MaxRetries : c = <<v, m>> /\ LeftOf(run'[v], p, m) /\ ~LeftOf(run[v], p, m)
        BY DEF Working
      <4>2. v = w
        BY <1>1, <4>1
      <4>3. t.attempt <= m
        BY <1>1, <2>2, <4>1, <4>2 DEF LeftOf
      <4> QED
        BY <3>1, <4>1, <4>2, <4>3 DEF From
    <3>6. IsFiniteSet({}) /\ Cardinality({}) = 0
      BY FS_EmptySet
    <3>7. /\ 0 \in Nat /\ 0 \in {0, 1} /\ sends'[p] = sends[p] + 0 /\ launched'[p] = launched[p] + 0
          /\ 0 + Cardinality({}) + Cardinality(in) <= Cardinality(out) + Cardinality({}) + 0 * (MaxRetries + 1)
      BY <1>2, <3>1, <3>2, <3>6 DEF TypeOK
    <3> HIDE DEF in, out
    <3> QED
      BY <2>1, <3>2, <3>3, <3>4, <3>5, <3>6, <3>7, Spend
  <2>3. CASE ~(t \in DeliveryTask /\ t.target = p)
    <3>1. Waiting(p)' \subseteq Waiting(p)
      BY <1>3, <1>4, WaitingSame
    <3>2. Working(p)' \subseteq Working(p)
      <4> SUFFICES ASSUME NEW v \in Workers, NEW m, LeftOf(run'[v], p, m) PROVE LeftOf(run[v], p, m)
        BY WorkingSame
      <4> QED
        BY <1>1, <2>3 DEF LeftOf
    <3> QED
      BY <1>2, <2>1, <3>1, <3>2, SpendNothing
  <2> QED
    BY <2>2, <2>3
<1> QED
  BY <1>5 DEF AllPaid

\* The steps of a worker that neither call, nor enqueue.
LEMMA PaidMove ==
  ASSUME TypeOK, AllPaid, NEW w \in Workers,
         \/ CheckRate(w) \/ ReadWorkflowPref(w) \/ ReadGlobalPref(w)
         \/ NoRecipient(w) \/ NoIntegration(w) \/ StepGone(w) \/ Record(w) \/ Ack(w)
  PROVE  AllPaid'
<1>1. /\ \A v \in Workers \ {w} : run'[v] = run[v]
      /\ \/ run'[w].at \notin Trying \cup {"retry"}
         \/ run'[w].at \in Trying /\ run[w].at \in Trying /\ run'[w].task = run[w].task
  <2>1. CASE run[w].at \in Trying /\ \E p \in {"limited", "inheriting", "checked"} : Goto(w, p)
    BY <2>1, GotoRun DEF Phase, Trying
  <2>2. CASE Settle(w, "skipped") \/ Settle(w, "failed")
    BY <2>2, SettleRun DEF Status, Trying
  <2>3. CASE run[w].at \in Trying /\ run' = [run EXCEPT ![w].at = "limited", ![w].fresh = TRUE]
    BY <2>3, LimitedRun DEF Phase, Trying
  <2>4. CASE run[w].at \in Trying /\ \E p \in {"inheriting", "checked"} : run' = [run EXCEPT ![w].at = p, ![w].consent = TRUE]
    BY <2>4, AskedRun DEF Phase, Trying
  <2>5. CASE Goto(w, "ack")
    BY <2>5, GotoRun DEF Phase, Trying
  <2>6. CASE Finish(w)
    BY <2>6, FinishRun DEF Trying, Idle
  <2>7. CASE CheckRate(w) \/ ReadWorkflowPref(w) \/ ReadGlobalPref(w)
    <3>1. run[w].at \in Trying
      BY <2>7 DEF CheckRate, ReadWorkflowPref, ReadGlobalPref, Delivering, Trying
    <3> QED
      BY <2>1, <2>2, <2>3, <2>4, <2>7, <3>1 DEF CheckRate, ReadWorkflowPref, ReadGlobalPref, Decide
  <2> QED
    BY <2>2, <2>5, <2>6, <2>7 DEF NoRecipient, NoIntegration, StepGone, Archive, Record, Ack
<1>2. UNCHANGED <<launched, sends, queue>>
  BY DEF CheckRate, ReadWorkflowPref, ReadGlobalPref, NoRecipient, NoIntegration, StepGone, Record, Ack, history
<1>3. ASSUME NEW p \in Targets PROVE PaidFor(p)'
  <2>1. Waiting(p)' \subseteq Waiting(p)
    BY <1>2 DEF Waiting
  <2>2. Working(p)' \subseteq Working(p)
    BY <1>1, WorkingMove
  <2> QED
    BY <1>2, <2>1, <2>2, SpendNothing DEF AllPaid
<1> QED
  BY <1>3 DEF AllPaid

\* A call spends the attempt it is.
LEMMA PaidCall ==
  ASSUME TypeOK, PhaseOK, AllPaid, NEW w \in Workers, Accepted(w) \/ Rejected(w)
  PROVE  AllPaid'
<1> DEFINE t == run[w].task
<1>1. t \in DeliveryTask /\ run[w].at = "checked" /\ Call(w)
  BY DeliveringTask DEF Accepted, Rejected, Call, Sendable, Delivering, Phase
<1>2. /\ \A v \in Workers \ {w} : run'[v] = run[v]
      /\ run'[w].at \notin Trying
      /\ run'[w].at = "retry" => run'[w].task = t
  <2>1. CASE Goto(w, "ack") \/ Goto(w, "retry")
    BY <2>1, GotoRun DEF Phase, Trying
  <2>2. CASE Settle(w, "sent") \/ Settle(w, "failed")
    BY <2>2, SettleRun DEF Status, Trying
  <2>3. CASE Archive(w)
    BY <2>3, FinishRun DEF Archive, Idle, Trying
  <2> QED
    BY <2>1, <2>2, <2>3 DEF Accepted, Rejected
<1>3. /\ UNCHANGED <<launched, queue>> /\ sends' = [sends EXCEPT ![t.target] = @ + 1]
      /\ t.target \in Targets /\ t.attempt \in 0..MaxRetries
  BY <1>1, DeliveryFields DEF Call
<1>4. ASSUME NEW p \in Targets PROVE PaidFor(p)'
  <2>1. PaidFor(p) /\ Waiting(p)' \subseteq Waiting(p)
    BY <1>3 DEF AllPaid, Waiting
  <2>2. CASE p = t.target
    <3> DEFINE none == {}
               spent == {<<w, t.attempt>>}
    <3>1. /\ IsFiniteSet(none) /\ Cardinality(none) = 0
          /\ IsFiniteSet(spent) /\ Cardinality(spent) = 1
      BY FS_EmptySet, FS_Singleton
    <3>2. spent \subseteq Working(p)
      BY <1>1, <1>3, <2>2, BoundsAssumption DEF Working, LeftOf, Trying
    <3>3. Working(p)' \subseteq (Working(p) \ spent) \cup none
      <4> SUFFICES ASSUME NEW c \in Working(p)' PROVE c \in Working(p) /\ c # <<w, t.attempt>>
        OBVIOUS
      <4>1. PICK v \in Workers, m \in 0..MaxRetries : c = <<v, m>> /\ LeftOf(run'[v], p, m)
        BY DEF Working
      <4>2. CASE v # w
        BY <1>2, <4>1, <4>2 DEF Working
      <4>3. CASE v = w
        <5>1. t.attempt < m
          BY <1>2, <4>1, <4>3 DEF LeftOf
        <5>2. LeftOf(run[w], p, m) /\ m # t.attempt
          BY <1>1, <1>3, <2>2, <5>1 DEF LeftOf, Trying
        <5> QED
          BY <4>1, <4>3, <5>2 DEF Working
      <4> QED
        BY <4>2, <4>3
    <3>4. none \subseteq Waiting(p) /\ Waiting(p)' \subseteq (Waiting(p) \ none) \cup none
      BY <2>1
    <3>5. /\ 1 \in Nat /\ 0 \in {0, 1} /\ sends'[p] = sends[p] + 1 /\ launched'[p] = launched[p] + 0
          /\ 1 + Cardinality(none) + Cardinality(none) <= Cardinality(none) + Cardinality(spent) + 0 * (MaxRetries + 1)
      BY <1>3, <2>2, <3>1, BoundsAssumption DEF TypeOK
    <3> HIDE DEF none, spent
    <3> QED
      BY <2>1, <3>1, <3>2, <3>3, <3>4, <3>5, Spend
  <2>3. CASE p # t.target
    <3>1. sends'[p] = sends[p] /\ launched'[p] = launched[p]
      BY <1>3, <2>3 DEF TypeOK
    <3>2. Working(p)' \subseteq Working(p)
      <4> SUFFICES ASSUME NEW v \in Workers, NEW m, LeftOf(run'[v], p, m) PROVE LeftOf(run[v], p, m)
        BY WorkingSame
      <4> QED
        BY <1>2, <2>3 DEF LeftOf
    <3> QED
      BY <2>1, <3>1, <3>2, SpendNothing
  <2> QED
    BY <2>2, <2>3
<1> QED
  BY <1>4 DEF AllPaid

\* A retry carries what its worker has left.
LEMMA PaidRetry ==
  ASSUME TypeOK, PhaseOK, AllPaid, NEW w \in Workers, ScheduleRetry(w)
  PROVE  AllPaid'
<1>0. PICK t : t = run[w].task
  OBVIOUS
<1>1. t \in DeliveryTask /\ run[w].at = "retry"
  BY <1>0 DEF ScheduleRetry, PhaseOK, PhaseOf
<1>2. PICK retry : retry = Delivery(t.target, t.channel, NextAttempt(t.attempt))
  OBVIOUS
<1>3. /\ Enqueue({retry}) \/ queue' = queue
      /\ UNCHANGED <<launched, sends>> /\ Goto(w, "ack")
  BY <1>0, <1>2 DEF ScheduleRetry, history
<1>4. /\ queue' \in [Task -> Nat]
      /\ \A u \in DeliveryTask : /\ u # retry => queue'[u] <= queue[u]
                                 /\ queue'[u] <= queue[u] + 1
  <2>1. \A u \in DeliveryTask : u \in Task /\ queue[u] \in Nat
    BY DEF TypeOK, Task
  <2>2. CASE Enqueue({retry})
    BY <2>1, <2>2, EnqueueCount
  <2>3. CASE queue' = queue
    BY <2>1, <2>3 DEF TypeOK
  <2> QED
    BY <1>3, <2>2, <2>3
<1>5. /\ retry.target = t.target /\ retry.attempt = t.attempt + 1
      /\ t.attempt \in 0..MaxRetries /\ t.target \in Targets /\ MaxRetries \in Nat
  BY <1>1, <1>2, DeliveryFields, BoundsAssumption DEF Delivery, NextAttempt
<1>6. run'[w].at = "ack" /\ \A v \in Workers \ {w} : run'[v] = run[v]
  BY <1>3, GotoRun DEF Phase
<1>7. ASSUME NEW p \in Targets PROVE PaidFor(p)'
  <2>1. PaidFor(p) /\ Working(p)' \subseteq Working(p)
    BY <1>6, WorkingMove DEF AllPaid, Trying
  <2>2. CASE p = t.target /\ retry \in DeliveryTask
    <3> DEFINE out == From(w, retry.attempt)
               in == From(<<retry, queue[retry] + 1>>, retry.attempt)
               none == {}
    <3>1. retry.attempt \in Nat /\ retry.attempt <= MaxRetries + 1
      BY <1>5
    <3>2. /\ IsFiniteSet(in) /\ Cardinality(in) = Cardinality(out)
          /\ Cardinality(out) \in Nat
      BY <1>5, <3>1, FromCard
    <3>3. out \subseteq Working(p)
      BY <1>0, <1>1, <1>5, <2>2 DEF From, Working, LeftOf, Trying
    <3>4. Working(p)' \subseteq (Working(p) \ out) \cup none
      <4> SUFFICES ASSUME NEW c \in Working(p)' PROVE c \in Working(p) /\ c[1] # w
        BY DEF From
      <4>1. PICK v \in Workers, m \in 0..MaxRetries : c = <<v, m>> /\ LeftOf(run'[v], p, m)
        BY DEF Working
      <4> QED
        BY <1>6, <2>1, <4>1 DEF LeftOf, Trying
    <3>5. none \subseteq Waiting(p) /\ Waiting(p)' \subseteq (Waiting(p) \ none) \cup in
      <4>1. \A u \in DeliveryTask : u.target = p /\ u # retry => queue'[u] <= queue[u]
        BY <1>4
      <4>2. queue'[retry] <= queue[retry] + 1
        BY <1>4, <2>2
      <4> QED
        BY <1>4, <2>2, <4>1, <4>2, WaitingMore
    <3>6. IsFiniteSet(none) /\ Cardinality(none) = 0
      BY FS_EmptySet
    <3>7. /\ 0 \in Nat /\ 0 \in {0, 1} /\ sends'[p] = sends[p] + 0 /\ launched'[p] = launched[p] + 0
          /\ 0 + Cardinality(in) + Cardinality(none) <= Cardinality(none) + Cardinality(out) + 0 * (MaxRetries + 1)
      BY <1>3, <1>5, <3>2, <3>6 DEF TypeOK
    <3> HIDE DEF in, out, none
    <3> QED
      BY <2>1, <3>2, <3>3, <3>4, <3>5, <3>6, <3>7, Spend
  <2>3. CASE ~(p = t.target /\ retry \in DeliveryTask)
    <3>1. \A u \in DeliveryTask : u.target = p => queue'[u] <= queue[u]
      BY <1>4, <1>5, <2>3
    <3>2. Waiting(p)' \subseteq Waiting(p)
      BY <1>4, <3>1, WaitingSame
    <3> QED
      BY <1>3, <2>1, <3>2, SpendNothing
  <2> QED
    BY <2>2, <2>3
<1> QED
  BY <1>7 DEF AllPaid

\* A redelivery counts as a launch.
LEMMA PaidAgain ==
  ASSUME TypeOK, PhaseOK, AllPaid, NEW w \in Workers, Redeliver(w)
  PROVE  AllPaid'
<1>0. PICK t : t = run[w].task
  OBVIOUS
<1>1. t \in Task /\ queue' = [queue EXCEPT ![t] = @ + 1] /\ UNCHANGED sends /\ Finish(w)
      /\ IF t.kind = "delivery" THEN Launch({t.target}) ELSE UNCHANGED launched
  BY <1>0 DEF Redeliver, PhaseOK, PhaseOf
<1>2. /\ queue' \in [Task -> Nat]
      /\ \A u \in DeliveryTask : /\ u # t => queue'[u] <= queue[u]
                                 /\ queue'[u] <= queue[u] + 1
  BY <1>1 DEF TypeOK, Task
<1>3. run'[w].at = "idle" /\ \A v \in Workers \ {w} : run'[v] = run[v]
  BY <1>1, FinishRun DEF Idle
<1>4. ASSUME NEW p \in Targets PROVE PaidFor(p)'
  <2>1. PaidFor(p) /\ Working(p)' \subseteq Working(p) /\ sends'[p] = sends[p]
    BY <1>1, <1>3, WorkingMove DEF AllPaid, Trying
  <2>2. CASE t \in DeliveryTask /\ t.target = p
    <3>1. launched'[p] = launched[p] + 1
      BY <1>1, <2>2, DeliveryFields, LaunchCount
    <3>2. Waiting(p)' \subseteq Waiting(p) \cup From(<<t, queue[t] + 1>>, t.attempt)
      <4>1. /\ \A u \in DeliveryTask : u.target = p /\ u # t => queue'[u] <= queue[u]
            /\ queue'[t] <= queue[t] + 1
        BY <1>2, <2>2
      <4> QED
        BY <1>2, <2>2, <4>1, WaitingMore
    <3> QED
      BY <2>1, <2>2, <3>1, <3>2, Launched1
  <2>3. CASE ~(t \in DeliveryTask /\ t.target = p)
    <3>1. launched'[p] = launched[p]
      BY <1>1, <2>3, KindOfTask, LaunchCount
    <3>2. Waiting(p)' \subseteq Waiting(p)
      BY <1>2, <2>3, WaitingSame
    <3> QED
      BY <2>1, <3>1, <3>2, SpendNothing
  <2> QED
    BY <2>2, <2>3
<1> QED
  BY <1>4 DEF AllPaid

LEMMA PaidNext ==
  ASSUME TypeOK, PhaseOK, AllPaid, [Next]_vars
  PROVE  AllPaid'
<1>1. ASSUME NEW w \in Workers, Handle(w) \/ Redeliver(w)
      PROVE  AllPaid'
  <2>1. CASE Accepted(w) \/ Rejected(w)
    BY <2>1, PaidCall
  <2>2. CASE RunTrigger(w) \/ RunDelay(w)
    BY <2>2, PaidTrigger, PaidDelay
  <2>3. CASE ScheduleRetry(w) \/ Redeliver(w)
    BY <2>3, PaidRetry, PaidAgain
  <2> QED
    BY <1>1, <2>1, <2>2, <2>3, PaidMove DEF Handle
<1>2. CASE UNCHANGED vars
  BY <1>2 DEF vars, AllPaid, PaidFor, Waiting, Working, LeftOf
<1> QED
  BY <1>1, <1>2, PaidApi, PaidBegin, PaidDigest, PaidEnvironment DEF Next

LEMMA PaidInit == Init => AllPaid
<1> SUFFICES ASSUME Init, NEW p \in Targets PROVE PaidFor(p)
  BY DEF AllPaid
<1>1. Waiting(p) = {}
  <2> SUFFICES ASSUME NEW c \in Waiting(p) PROVE FALSE
    OBVIOUS
  <2>1. PICK u \in DeliveryTask : queue[u] # 0
    BY DEF Waiting
  <2> QED
    BY <2>1 DEF Init, Task
<1>2. Working(p) = {}
  BY DEF Working, LeftOf, Init, Idle, Trying
<1>3. IsFiniteSet({}) /\ Cardinality({}) = 0
  BY FS_EmptySet
<1>4. sends[p] = 0 /\ launched[p] = 0
  BY DEF Init
<1> QED
  BY <1>1, <1>2, <1>3, <1>4, BoundsAssumption DEF PaidFor

\* A step of a notification calls the provider at most MaxRetries + 1 times per
\* enqueueing or redelivery, over all the copies of its task there may be at once.
THEOREM Attempts == Spec => []AttemptsBounded
<1>1. TypeOK /\ PhaseOK /\ AllPaid /\ [Next]_vars => AllPaid'
  BY PaidNext
<1>2. TypeOK /\ AllPaid => AttemptsBounded
  <2> SUFFICES ASSUME TypeOK, NEW p \in Targets, PaidFor(p)
               PROVE  sends[p] <= (MaxRetries + 1) * launched[p]
    BY DEF AllPaid, AttemptsBounded
  <2>1. Cardinality(Waiting(p)) \in Nat /\ Cardinality(Working(p)) \in Nat
    BY FS_CardinalityType DEF PaidFor
  <2>2. sends[p] \in Nat /\ (MaxRetries + 1) * launched[p] \in Nat
    BY BoundsAssumption DEF TypeOK
  <2> QED
    BY <2>1, <2>2 DEF PaidFor
<1> QED
  BY <1>1, <1>2, PaidInit, Typed, PTL DEF Spec
-----------------------------------------------------------------------------
(* Final statuses. A notification is where one trigger task, delay task or *)
(* digest window holds it, with nothing launched beyond that point; so no  *)
(* step is started twice, a delivery is in one place at a time, and its    *)
(* row is pending until that one worker writes it.                         *)

HoldsIn(r, w, t) == r[w].at \notin {"idle", "ack"} /\ r[w].task = t
Holds(w, t) == HoldsIn(run, w, t)

\* Where the tasks of a set are, by a queue and the workers' jobs:
\* <<task, "queue", copy>> or <<task, "worker", worker>>.
TokensIn(q, r, S) ==
  {x \in S \X {"queue", "worker"} \X (Nat \cup Workers) :
     \/ x[2] = "queue" /\ x[3] \in 1..q[x[1]]
     \/ x[2] = "worker" /\ x[3] \in Workers /\ HoldsIn(r, x[3], x[1])}
Tokens(S) == TokensIn(queue, run, S)

DeliveriesOf(p) == {t \in DeliveryTask : t.target = p}
SourceTasks(n) == {t \in TriggerTask : n \in t.batch} \cup {t \in DelayTask : t.n = n}

\* What may still start steps of n. A digest window holds it like a delay does.
Sources(n) ==
  Tokens(SourceTasks(n)) \cup {<<Delay(<<n, i>>), "window", 0>> : i \in {j \in Idx : <<n, j>> \in window}}

\* The control step a source stands at, 0 for a trigger.
Position(t) == IF t.kind = "trigger" THEN 0 ELSE t.i

SourceOf(n, x) ==
  /\ \A y \in Sources(n) : y = x
  /\ \A i \in Idx : i > Position(x[1]) => launched[<<n, i>>] = 0

Sourced == Smooth => \A n \in Notifs : \A x \in Sources(n) : SourceOf(n, x)

PendingRow(p) == rows[p[1]][p[2]].status = "pending"

SingleOf(p) ==
  /\ \A x, y \in Tokens(DeliveriesOf(p)) : x = y
  /\ Tokens(DeliveriesOf(p)) # {} \/ launched[p] = 0 => PendingRow(p)

Single == Smooth => \A p \in Notifs \X Idx : SingleOf(p)

-----------------------------------------------------------------------------
(* Tokens.                                                                 *)

LEMMA QueueNat ==
  ASSUME TypeOK, NEW t \in Task
  PROVE  queue[t] \in Nat
  BY DEF TypeOK

Queued(q, S, x) == \E t \in S, k \in Nat : x = <<t, "queue", k>> /\ k \in 1..q[t]
InHand(r, S, x) == \E t \in S, w \in Workers : x = <<t, "worker", w>> /\ HoldsIn(r, w, t)

LEMMA TokenForms ==
  ASSUME NEW q, NEW r, NEW S, NEW x
  PROVE  x \in TokensIn(q, r, S) <=> Queued(q, S, x) \/ InHand(r, S, x)
<1>1. ASSUME x \in TokensIn(q, r, S)
      PROVE  Queued(q, S, x) \/ InHand(r, S, x)
  <2>0. x \in S \X {"queue", "worker"} \X (Nat \cup Workers)
    BY <1>1 DEF TokensIn
  <2> DEFINE places == {"queue", "worker"}
             whose == Nat \cup Workers
  <2>1. PICK t \in S, a \in places, b \in whose : x = <<t, a, b>>
    <3>1. x \in S \X places \X whose
      BY <2>0
    <3> HIDE DEF places, whose
    <3> QED
      BY <3>1
  <2>2. CASE a = "queue"
    <3>1. b \in 1..q[t] /\ b \in Nat
      BY <1>1, <2>1, <2>2 DEF TokensIn
    <3> QED
      BY <2>1, <2>2, <3>1 DEF Queued
  <2>3. CASE a = "worker"
    <3>1. b \in Workers /\ HoldsIn(r, b, t)
      BY <1>1, <2>1, <2>3 DEF TokensIn
    <3> QED
      BY <2>1, <2>3, <3>1 DEF InHand
  <2> QED
    BY <2>1, <2>2, <2>3
<1>2. ASSUME Queued(q, S, x) PROVE x \in TokensIn(q, r, S)
  BY <1>2 DEF Queued, TokensIn
<1>3. ASSUME InHand(r, S, x) PROVE x \in TokensIn(q, r, S)
  BY <1>3 DEF InHand, TokensIn
<1> QED
  BY <1>1, <1>2, <1>3

LEMMA TokensShrink ==
  ASSUME TypeOK, queue' \in [Task -> Nat], NEW S, S \subseteq Task,
         \A t \in S : queue'[t] <= queue[t],
         \A v \in Workers, t \in S : Holds(v, t)' => Holds(v, t)
  PROVE  Tokens(S)' \subseteq Tokens(S)
<1> SUFFICES ASSUME NEW x \in TokensIn(queue', run', S) PROVE x \in TokensIn(queue, run, S)
  BY DEF Tokens
<1>1. \A t \in S : queue[t] \in Nat /\ queue'[t] \in Nat
  BY DEF TypeOK
<1>2. CASE Queued(queue', S, x)
  <2>1. Queued(queue, S, x)
    BY <1>1, <1>2 DEF Queued
  <2> QED
    BY <2>1, TokenForms
<1>3. CASE InHand(run', S, x)
  <2>1. InHand(run, S, x)
    BY <1>3 DEF InHand, Holds
  <2> QED
    BY <2>1, TokenForms
<1> QED
  BY <1>2, <1>3, TokenForms

\* The first copy of a task none was there of.
LEMMA TokensNew ==
  ASSUME TypeOK, queue' \in [Task -> Nat], NEW S, S \subseteq Task, NEW t,
         \A u \in S : queue'[u] <= (IF u = t THEN 1 ELSE 0),
         \A v \in Workers, u \in S : ~Holds(v, u)'
  PROVE  Tokens(S)' \subseteq {<<t, "queue", 1>>}
<1> SUFFICES ASSUME NEW x \in TokensIn(queue', run', S) PROVE x = <<t, "queue", 1>>
  BY DEF Tokens
<1>1. ~InHand(run', S, x)
  BY DEF InHand, Holds
<1>2. PICK u \in S, k \in Nat : x = <<u, "queue", k>> /\ k \in 1..queue'[u]
  BY <1>1, TokenForms DEF Queued
<1>3. u = t /\ k = 1
  BY <1>2
<1> QED
  BY <1>2, <1>3

\* What a token says is there.
LEMMA TokenHere ==
  ASSUME TypeOK, NEW S, S \subseteq Task, NEW t \in S
  PROVE  /\ queue[t] > 0 => <<t, "queue", 1>> \in Tokens(S) /\ <<t, "queue", queue[t]>> \in Tokens(S)
         /\ \A w \in Workers : Holds(w, t) => <<t, "worker", w>> \in Tokens(S)
<1>1. queue[t] \in Nat
  BY DEF TypeOK
<1>2. queue[t] > 0 => Queued(queue, S, <<t, "queue", 1>>) /\ Queued(queue, S, <<t, "queue", queue[t]>>)
  BY <1>1 DEF Queued
<1>3. \A w \in Workers : Holds(w, t) => InHand(run, S, <<t, "worker", w>>)
  BY DEF InHand, Holds
<1> QED
  BY <1>2, <1>3, TokenForms DEF Tokens

\* The only token of a set, at a worker: no copy waits, nobody else runs one.
LEMMA OnlyHolder ==
  ASSUME TypeOK, NEW S, S \subseteq Task, NEW t \in S, NEW w \in Workers, Holds(w, t),
         \A x \in Tokens(S) : x = <<t, "worker", w>>
  PROVE  /\ \A u \in S : queue[u] = 0
         /\ \A v \in Workers, u \in S : Holds(v, u) => v = w
<1>1. ASSUME NEW u \in S, queue[u] # 0 PROVE FALSE
  <2>1. queue[u] > 0
    BY <1>1 DEF TypeOK
  <2>2. <<u, "queue", 1>> \in Tokens(S)
    BY <2>1, TokenHere
  <2> QED
    BY <2>2
<1>2. ASSUME NEW v \in Workers, NEW u \in S, Holds(v, u) PROVE v = w
  <2>1. <<u, "worker", v>> \in Tokens(S)
    BY <1>2, TokenHere
  <2> QED
    BY <2>1
<1> QED
  BY <1>1, <1>2

\* The only token of a set, waiting: the worker that takes it has it alone.
LEMMA TokensBegin ==
  ASSUME TypeOK, NEW S, S \subseteq Task, NEW t \in S, NEW w \in Workers, Begin(w, t),
         \A x, y \in Tokens(S) : x = y
  PROVE  Tokens(S)' \subseteq {<<t, "worker", w>>}
<1>1. queue[t] \in Nat /\ queue[t] > 0
  BY DEF Begin, TypeOK
<1>2. <<t, "queue", 1>> \in Tokens(S) /\ <<t, "queue", queue[t]>> \in Tokens(S)
  BY <1>1, TokenHere
<1>3. queue[t] = 1
  BY <1>2
<1>4. \A u \in S : u # t => queue[u] = 0
  <2> SUFFICES ASSUME NEW u \in S, u # t, queue[u] # 0 PROVE FALSE
    OBVIOUS
  <2>1. queue[u] > 0
    BY DEF TypeOK
  <2>2. <<u, "queue", 1>> \in Tokens(S)
    BY <2>1, TokenHere
  <2> QED
    BY <1>2, <2>2
<1>5. \A v \in Workers, u \in S : ~Holds(v, u)
  <2> SUFFICES ASSUME NEW v \in Workers, NEW u \in S, Holds(v, u) PROVE FALSE
    OBVIOUS
  <2>1. <<u, "worker", v>> \in Tokens(S)
    BY TokenHere
  <2> QED
    BY <1>2, <2>1
<1>6. \A u \in S : queue'[u] = 0
  BY <1>1, <1>3, <1>4 DEF Begin, TypeOK
<1>7. \A v \in Workers : v # w => run'[v] = run[v]
  BY DEF Begin, TypeOK
<1>8. run'[w].task = t
  BY DEF Begin, TypeOK
<1> SUFFICES ASSUME NEW x \in TokensIn(queue', run', S) PROVE x = <<t, "worker", w>>
  BY DEF Tokens
<1>9. ~Queued(queue', S, x)
  BY <1>6 DEF Queued
<1>10. PICK u \in S, v \in Workers : x = <<u, "worker", v>> /\ HoldsIn(run', v, u)
  BY <1>9, TokenForms DEF InHand
<1>11. v = w
  BY <1>5, <1>7, <1>10 DEF Holds, HoldsIn
<1> QED
  BY <1>8, <1>10, <1>11 DEF HoldsIn

-----------------------------------------------------------------------------
(* Sources.                                                                *)

LEMMA SourceTypes ==
  ASSUME NEW n
  PROVE  SourceTasks(n) \subseteq Task /\ SourceTasks(n) \cap DeliveryTask = {}
  BY DEF SourceTasks, Task, TriggerTask, DelayTask, DeliveryTask

LEMMA SourcesShrink ==
  ASSUME TypeOK, queue' \in [Task -> Nat], NEW n,
         \A t \in SourceTasks(n) : queue'[t] <= queue[t],
         \A v \in Workers, t \in SourceTasks(n) : Holds(v, t)' => Holds(v, t),
         \A i \in Idx : <<n, i>> \in window' => <<n, i>> \in window
  PROVE  Sources(n)' \subseteq Sources(n)
<1>1. Tokens(SourceTasks(n))' \subseteq Tokens(SourceTasks(n))
  BY SourceTypes, TokensShrink
<1> QED
  BY <1>1 DEF Sources

LEMMA SourceKept ==
  ASSUME NEW n, \A x \in Sources(n) : SourceOf(n, x), Sources(n)' \subseteq Sources(n),
         \A i \in Idx : launched'[<<n, i>>] = launched[<<n, i>>]
  PROVE  \A x \in Sources(n)' : SourceOf(n, x)'
  BY DEF SourceOf

\* The one source of a notification, at a worker.
LEMMA OnlySource ==
  ASSUME TypeOK, NEW n, NEW t \in SourceTasks(n), NEW w \in Workers, Holds(w, t),
         \A x \in Sources(n) : SourceOf(n, x)
  PROVE  /\ \A u \in SourceTasks(n) : queue[u] = 0
         /\ \A v \in Workers, u \in SourceTasks(n) : Holds(v, u) => v = w
         /\ \A i \in Idx : <<n, i>> \notin window
         /\ \A i \in Idx : i > Position(t) => launched[<<n, i>>] = 0
<1>1. <<t, "worker", w>> \in Tokens(SourceTasks(n))
  BY SourceTypes, TokenHere
<1>2. SourceOf(n, <<t, "worker", w>>)
  BY <1>1 DEF Sources
<1>3. \A x \in Sources(n) : x = <<t, "worker", w>>
  BY <1>2 DEF SourceOf
<1>4. \A x \in Tokens(SourceTasks(n)) : x = <<t, "worker", w>>
  BY <1>3 DEF Sources
<1>5. ASSUME NEW i \in Idx, <<n, i>> \in window PROVE FALSE
  <2>1. <<Delay(<<n, i>>), "window", 0>> \in Sources(n)
    BY <1>5 DEF Sources
  <2> QED
    BY <1>3, <2>1
<1>6. \A i \in Idx : i > Position(t) => launched[<<n, i>>] = 0
  BY <1>2 DEF SourceOf
<1> QED
  BY <1>4, <1>5, <1>6, SourceTypes, OnlyHolder

\* The one source of a notification, in a digest window.
LEMMA OnlyWindow ==
  ASSUME TypeOK, NEW n, NEW i \in Idx, <<n, i>> \in window,
         \A x \in Sources(n) : SourceOf(n, x)
  PROVE  /\ \A u \in SourceTasks(n) : queue[u] = 0
         /\ \A v \in Workers, u \in SourceTasks(n) : ~Holds(v, u)
         /\ \A j \in Idx : <<n, j>> \in window => j = i
         /\ \A j \in Idx : j > i => launched[<<n, j>>] = 0
<1> DEFINE x == <<Delay(<<n, i>>), "window", 0>>
<1>1. x \in Sources(n) /\ Position(x[1]) = i
  BY DEF Sources, Position, Delay
<1>2. SourceOf(n, x)
  BY <1>1
<1>3. \A y \in Sources(n) : y = x
  BY <1>2 DEF SourceOf
<1>4. \A y \in Tokens(SourceTasks(n)) : y[2] = "window"
  BY <1>3 DEF Sources
<1>5. ASSUME NEW u \in SourceTasks(n), queue[u] # 0 PROVE FALSE
  <2>1. queue[u] > 0
    BY <1>5, SourceTypes DEF TypeOK
  <2>2. <<u, "queue", 1>> \in Tokens(SourceTasks(n))
    BY <2>1, SourceTypes, TokenHere
  <2> QED
    BY <1>4, <2>2
<1>6. ASSUME NEW v \in Workers, NEW u \in SourceTasks(n), Holds(v, u) PROVE FALSE
  <2>1. <<u, "worker", v>> \in Tokens(SourceTasks(n))
    BY <1>6, SourceTypes, TokenHere
  <2> QED
    BY <1>4, <2>1
<1>7. ASSUME NEW j \in Idx, <<n, j>> \in window PROVE j = i
  <2>1. <<Delay(<<n, j>>), "window", 0>> \in Sources(n)
    BY <1>7 DEF Sources
  <2>2. Delay(<<n, j>>) = Delay(<<n, i>>)
    BY <1>3, <2>1
  <2>3. Delay(<<n, j>>).i = Delay(<<n, i>>).i
    BY <2>2
  <2> QED
    BY <2>3 DEF Delay
<1>8. \A j \in Idx : j > i => launched[<<n, j>>] = 0
  BY <1>1, <1>2 DEF SourceOf
<1> QED
  BY <1>5, <1>6, <1>7, <1>8

\* A step that brings no source and launches nothing of a notification.
LEMMA SourcedCalm ==
  ASSUME TypeOK, queue' \in [Task -> Nat], Sourced, Smooth' => Smooth,
         \A t \in TriggerTask \cup DelayTask : queue'[t] <= queue[t],
         \A v \in Workers, t \in TriggerTask \cup DelayTask : Holds(v, t)' => Holds(v, t),
         window' \subseteq window,
         \A n \in Notifs, i \in Idx : launched'[<<n, i>>] = launched[<<n, i>>]
  PROVE  Sourced'
<1> SUFFICES ASSUME Smooth', NEW n \in Notifs PROVE \A x \in Sources(n)' : SourceOf(n, x)'
  BY DEF Sourced
<1>1. SourceTasks(n) \subseteq TriggerTask \cup DelayTask
  BY DEF SourceTasks
<1>2. Sources(n)' \subseteq Sources(n)
  BY <1>1, SourcesShrink
<1>3. \A x \in Sources(n) : SourceOf(n, x)
  BY DEF Sourced
<1> QED
  BY <1>2, <1>3, SourceKept

\* A worker that goes on with its task, or stops.
LEMMA HoldsMove ==
  ASSUME NEW w \in Workers, \A v \in Workers \ {w} : run'[v] = run[v],
         run'[w].at \in {"idle", "ack"} \/ (run[w].at \notin {"idle", "ack"} /\ run'[w].task = run[w].task)
  PROVE  \A v \in Workers : \A t : Holds(v, t)' => Holds(v, t)
  BY DEF Holds, HoldsIn

LEMMA SourcedBegin ==
  ASSUME TypeOK, Sourced, NEW w \in Workers, NEW t \in Task, Begin(w, t)
  PROVE  Sourced'
<1>1. /\ \A v \in Workers \ {w} : run'[v] = run[v]
      /\ run'[w].task = t /\ run[w].at = "idle"
      /\ UNCHANGED <<steps, edits, faults, window, launched>>
  BY DEF Begin, TypeOK, documents, preferences, history, events
<1>2. queue' \in [Task -> Nat] /\ \A u \in Task : queue'[u] <= queue[u]
  BY DEF Begin, TypeOK
<1> SUFFICES ASSUME Smooth', NEW n \in Notifs PROVE \A x \in Sources(n)' : SourceOf(n, x)'
  BY DEF Sourced
<1>3. \A x \in Sources(n) : SourceOf(n, x)
  BY <1>1, SmoothBefore DEF Sourced
<1>4. CASE t \notin SourceTasks(n)
  <2>1. \A v \in Workers, u \in SourceTasks(n) : Holds(v, u)' => Holds(v, u)
    BY <1>1, <1>4 DEF Holds, HoldsIn
  <2>2. Sources(n)' \subseteq Sources(n)
    BY <1>1, <1>2, <2>1, SourceTypes, SourcesShrink
  <2> QED
    BY <1>1, <1>3, <2>2, SourceKept
<1>5. CASE t \in SourceTasks(n)
  <2>1. \A x, y \in Tokens(SourceTasks(n)) : x = y
    BY <1>3 DEF SourceOf, Sources
  <2>2. Tokens(SourceTasks(n))' \subseteq {<<t, "worker", w>>}
    BY <1>5, <2>1, SourceTypes, TokensBegin
  <2>3. <<t, "queue", 1>> \in Sources(n)
    BY <1>5, SourceTypes, TokenHere DEF Begin, Sources
  <2>4. SourceOf(n, <<t, "queue", 1>>)
    BY <1>3, <2>3
  <2>5. \A i \in Idx : <<n, i>> \notin window
    <3> SUFFICES ASSUME NEW i \in Idx, <<n, i>> \in window PROVE FALSE
      OBVIOUS
    <3>1. <<Delay(<<n, i>>), "window", 0>> \in Sources(n)
      BY DEF Sources
    <3> QED
      BY <2>4, <3>1 DEF SourceOf
  <2>6. Sources(n)' \subseteq {<<t, "worker", w>>}
    BY <1>1, <2>2, <2>5 DEF Sources
  <2>7. \A i \in Idx : i > Position(t) => launched'[<<n, i>>] = 0
    BY <1>1, <2>4 DEF SourceOf
  <2> QED
    BY <2>6, <2>7 DEF SourceOf
<1> QED
  BY <1>4, <1>5

\* What the resuming of a notification enqueues starts nothing else.
LEMMA ResumeSources ==
  ASSUME TypeOK, NEW n \in Notifs, NEW i \in Idx, NEW ss, ss \in Workflows \cup {<< >>}, Resume(n, i, ss)
  PROVE  /\ queue' \in [Task -> Nat]
         /\ \A t \in TriggerTask \cup DelayTask : queue'[t] = queue[t]
         /\ \A m \in Notifs, k \in Idx : m # n => launched'[<<m, k>>] = launched[<<m, k>>]
<1> DEFINE all == {<<n, j>> : j \in Following(ss, i)}
<1>1. PICK done \in SUBSET all : Enqueue(TasksOf(done, ss)) /\ Launch(done)
  BY DEF Resume
<1>2. \A p \in done : ~IsControl(ss[p[2]])
  <2> SUFFICES ASSUME NEW p \in done PROVE ~IsControl(ss[p[2]])
    OBVIOUS
  <2>1. PICK j \in Following(ss, i) : p = <<n, j>>
    OBVIOUS
  <2>2. j \in DOMAIN ss /\ ss \in Workflows /\ j > i
    BY <2>1 DEF Following
  <2>3. j \in Idx /\ j \in Nat /\ i \in Nat
    BY <2>2, StepType, BoundsAssumption DEF Idx
  <2> QED
    BY <2>1, <2>2, <2>3 DEF Following
<1>3. \A t \in TasksOf(done, ss) : t \notin TriggerTask /\ t \notin DelayTask
  <2> SUFFICES ASSUME NEW t \in TasksOf(done, ss) PROVE t \notin TriggerTask /\ t \notin DelayTask
    OBVIOUS
  <2>1. PICK p \in done : \/ ss[p[2]].type = "delay" /\ t = Delay(p)
                          \/ t = Delivery(p, ss[p[2]].type, 0)
    BY TasksOfShape
  <2>2. ss[p[2]].type # "delay"
    BY <1>2 DEF IsControl, Control
  <2> QED
    BY <2>1, <2>2 DEF Delivery, TriggerTask, DelayTask
<1>4. \A m \in Notifs, k \in Idx : m # n => launched'[<<m, k>>] = launched[<<m, k>>]
  <2> SUFFICES ASSUME NEW m \in Notifs, NEW k \in Idx, m # n PROVE launched'[<<m, k>>] = launched[<<m, k>>]
    OBVIOUS
  <2>1. <<m, k>> \in Targets /\ <<m, k>> \notin done
    BY DEF Targets
  <2> QED
    BY <1>1, <2>1, LaunchCount
<1> QED
  BY <1>1, <1>3, <1>4, EnqueueCount DEF Task

LEMMA SourcedResume ==
  ASSUME TypeOK, Sourced, Smooth' => Smooth,
         NEW n \in Notifs, NEW i \in Idx, NEW ss, ss \in Workflows \cup {<< >>}, Resume(n, i, ss),
         \A v \in Workers : \A t : Holds(v, t)' => Holds(v, t), window' \subseteq window,
         Smooth' => /\ \A u \in SourceTasks(n) : queue[u] = 0
                    /\ \A v \in Workers, u \in SourceTasks(n) : ~Holds(v, u)'
                    /\ \A k \in Idx : <<n, k>> \notin window'
  PROVE  Sourced'
<1>1. /\ queue' \in [Task -> Nat]
      /\ \A t \in TriggerTask \cup DelayTask : queue'[t] = queue[t]
      /\ \A m \in Notifs, k \in Idx : m # n => launched'[<<m, k>>] = launched[<<m, k>>]
  BY ResumeSources
<1> SUFFICES ASSUME Smooth', NEW m \in Notifs PROVE \A x \in Sources(m)' : SourceOf(m, x)'
  BY DEF Sourced
<1>2. SourceTasks(m) \subseteq TriggerTask \cup DelayTask /\ SourceTasks(m) \subseteq Task
  BY SourceTypes DEF SourceTasks
<1>3. CASE m # n
  <2>0. \A t \in SourceTasks(m) : queue[t] \in Nat /\ queue'[t] = queue[t]
    BY <1>1, <1>2 DEF TypeOK
  <2>1. \A t \in SourceTasks(m) : queue'[t] <= queue[t]
    BY <2>0
  <2>2. Sources(m)' \subseteq Sources(m)
    BY <1>1, <2>1, SourcesShrink
  <2>3. \A x \in Sources(m) : SourceOf(m, x)
    BY DEF Sourced
  <2>4. \A k \in Idx : launched'[<<m, k>>] = launched[<<m, k>>]
    BY <1>1, <1>3
  <2> QED
    BY <2>2, <2>3, <2>4, SourceKept
<1>4. CASE m = n
  <2>1. \A u \in SourceTasks(n) : queue'[u] = 0
    BY <1>1, <1>2, <1>4
  <2>2. Sources(n)' = {}
    <3> SUFFICES ASSUME NEW x \in TokensIn(queue', run', SourceTasks(n)) PROVE FALSE
      BY DEF Sources, Tokens
    <3>1. ~Queued(queue', SourceTasks(n), x) /\ ~InHand(run', SourceTasks(n), x)
      BY <2>1 DEF Queued, InHand, Holds
    <3> QED
      BY <3>1, TokenForms
  <2> QED
    BY <1>4, <2>2
<1> QED
  BY <1>3, <1>4

LEMMA SourcedDelay ==
  ASSUME TypeOK, PhaseOK, Sourced, NEW w \in Workers, RunDelay(w)
  PROVE  Sourced'
<1>0. PICK t : t = run[w].task
  OBVIOUS
<1>1. t \in DelayTask /\ t.n \in Notifs /\ t.i \in Idx /\ run[w].steps \in Workflows \cup {<< >>}
  BY <1>0, KindOfTask, JobFields DEF RunDelay, PhaseOK, PhaseOf, TypeOK, DelayTask
<1>2. /\ UNCHANGED <<steps, edits, window>> /\ Goto(w, "ack")
      /\ Resume(t.n, t.i, run[w].steps) /\ (faults' = faults \/ Fault)
  BY <1>0 DEF RunDelay, documents, preferences, Resume, Succeed
<1>3. run'[w].at = "ack" /\ \A v \in Workers \ {w} : run'[v] = run[v]
  BY <1>2, GotoRun DEF Phase
<1>4. \A v \in Workers : \A u : Holds(v, u)' => Holds(v, u)
  BY <1>3, HoldsMove
<1>5. Smooth' => /\ \A u \in SourceTasks(t.n) : queue[u] = 0
                 /\ \A v \in Workers, u \in SourceTasks(t.n) : ~Holds(v, u)'
                 /\ \A k \in Idx : <<t.n, k>> \notin window'
  <2> SUFFICES ASSUME Smooth'
               PROVE  /\ \A u \in SourceTasks(t.n) : queue[u] = 0
                      /\ \A v \in Workers, u \in SourceTasks(t.n) : ~Holds(v, u)'
                      /\ \A k \in Idx : <<t.n, k>> \notin window'
    OBVIOUS
  <2>1. \A x \in Sources(t.n) : SourceOf(t.n, x)
    BY <1>1, <1>2, SmoothBefore DEF Sourced
  <2>2. t \in SourceTasks(t.n) /\ Holds(w, t)
    BY <1>0, <1>1 DEF SourceTasks, Holds, HoldsIn, RunDelay
  <2>3. /\ \A u \in SourceTasks(t.n) : queue[u] = 0
        /\ \A v \in Workers, u \in SourceTasks(t.n) : Holds(v, u) => v = w
        /\ \A i \in Idx : <<t.n, i>> \notin window
    BY <2>1, <2>2, OnlySource
  <2>4. \A u : ~Holds(w, u)'
    BY <1>3 DEF Holds, HoldsIn
  <2> QED
    BY <1>2, <1>4, <2>3, <2>4
<1> QED
  BY <1>1, <1>2, <1>4, <1>5, SmoothBefore, SourcedResume

LEMMA SourcedDigest ==
  ASSUME TypeOK, Sourced, NEW s \in Subs, NEW i \in Idx, RunDigest(s, i)
  PROVE  Sourced'
<1> DEFINE waiting == {p \in window : p[2] = i /\ SubOf[p[1]] = s}
<1>1. PICK p \in waiting : Resume(p[1], i, steps)
  BY DEF RunDigest
<1>2. /\ UNCHANGED <<steps, edits, run>> /\ (faults' = faults \/ Fault)
      /\ window' = window \ waiting
  BY DEF RunDigest, documents, preferences, Resume, Succeed
<1>3. PICK n \in Notifs : p = <<n, i>>
  BY DEF TypeOK
<1>4. \A v \in Workers : \A u : Holds(v, u)' <=> Holds(v, u)
  BY <1>2 DEF Holds
<1>5. Smooth' => /\ \A u \in SourceTasks(n) : queue[u] = 0
                 /\ \A v \in Workers, u \in SourceTasks(n) : ~Holds(v, u)'
                 /\ \A k \in Idx : <<n, k>> \notin window'
  <2> SUFFICES ASSUME Smooth'
               PROVE  /\ \A u \in SourceTasks(n) : queue[u] = 0
                      /\ \A v \in Workers, u \in SourceTasks(n) : ~Holds(v, u)'
                      /\ \A k \in Idx : <<n, k>> \notin window'
    OBVIOUS
  <2>1. \A x \in Sources(n) : SourceOf(n, x)
    BY <1>2, SmoothBefore DEF Sourced
  <2>2. /\ \A u \in SourceTasks(n) : queue[u] = 0
        /\ \A v \in Workers, u \in SourceTasks(n) : ~Holds(v, u)
        /\ \A j \in Idx : <<n, j>> \in window => j = i
    BY <1>3, <2>1, OnlyWindow
  <2>3. <<n, i>> \notin window'
    BY <1>2, <1>3
  <2> QED
    BY <1>2, <1>4, <2>2, <2>3
<1>6. steps \in Workflows \cup {<< >>} /\ Resume(n, i, steps) /\ window' \subseteq window
  BY <1>1, <1>2, <1>3 DEF TypeOK
<1> QED
  BY <1>2, <1>4, <1>5, <1>6, SmoothBefore, SourcedResume

\* A trigger starts the steps up to its first barrier; only that barrier remains
\* a source.
LEMMA ReachedBarrier ==
  ASSUME TypeOK, NEW n, NEW b \in Reached(n, steps), IsControl(steps[b]), NEW k \in Reached(n, steps)
  PROVE  k <= b /\ (IsControl(steps[k]) => k = b) /\ k \in Idx /\ b \in Idx
<1>1. b \in Barriers(n, steps) /\ (IsControl(steps[k]) => k \in Barriers(n, steps))
  BY DEF Reached, Barriers
<1>2. k \in Idx /\ b \in Idx
  BY StepType DEF Reached, Planned, TypeOK
<1> QED
  BY <1>1, <1>2, BoundsAssumption DEF Reached, Idx

LEMMA SourcedTrigger ==
  ASSUME TypeOK, PhaseOK, DelayInv, Sourced, NEW w \in Workers, RunTrigger(w)
  PROVE  Sourced'
<1>0. PICK t : t = run[w].task
  OBVIOUS
<1>1. t \in TriggerTask /\ t.kind = "trigger" /\ run[w].at = "begun"
  BY <1>0, KindOfTask DEF RunTrigger, PhaseOK, PhaseOf
<1>2. /\ UNCHANGED <<steps, edits>> /\ Goto(w, "ack") /\ (faults' = faults \/ Fault)
  BY DEF RunTrigger, documents, preferences, Succeed
<1>3. run'[w].at = "ack" /\ \A v \in Workers \ {w} : run'[v] = run[v]
  BY <1>2, GotoRun DEF Phase
<1>4. \A v \in Workers : \A u : Holds(v, u)' => Holds(v, u)
  BY <1>3, HoldsMove
<1> SUFFICES ASSUME Smooth', NEW n \in Notifs PROVE \A x \in Sources(n)' : SourceOf(n, x)'
  BY DEF Sourced
<1>5. Smooth /\ \A x \in Sources(n) : SourceOf(n, x)
  BY <1>2, SmoothBefore DEF Sourced
<1>6. run[w].steps = steps
  BY <1>1, <1>5 DEF DelayInv, Smooth
<1> DEFINE all == {p \in t.batch \X Idx : p[2] \in Reached(p[1], steps)}
<1>7. PICK done \in SUBSET all :
        /\ Enqueue(TasksOf(done, steps)) /\ Launch({p \in done : ~IsControl(steps[p[2]])})
        /\ window' = window \cup {p \in done : steps[p[2]].type = "digest"}
  BY <1>0, <1>6 DEF RunTrigger
<1>8. /\ queue' \in [Task -> Nat]
      /\ \A u \in Task : queue'[u] = IF u \in TasksOf(done, steps) THEN queue[u] + 1 ELSE queue[u]
  BY <1>7, EnqueueCount
<1>9. ASSUME NEW u \in SourceTasks(n), u \in TasksOf(done, steps)
      PROVE  \E b \in Idx : <<n, b>> \in done /\ steps[b].type = "delay" /\ u = Delay(<<n, b>>)
  <2>1. PICK p \in done : \/ steps[p[2]].type = "delay" /\ u = Delay(p)
                          \/ u = Delivery(p, steps[p[2]].type, 0)
    BY <1>9, TasksOfShape
  <2>2. u = Delay(p) /\ steps[p[2]].type = "delay"
    BY <2>1 DEF Delivery, SourceTasks, TriggerTask, DelayTask
  <2>3. u.n = n
    BY <2>2 DEF SourceTasks, TriggerTask, Delay
  <2>4. p = <<n, p[2]>> /\ p[2] \in Idx
    BY <2>2, <2>3 DEF Delay
  <2> QED
    BY <2>2, <2>4
<1>10. \A i \in Idx : launched'[<<n, i>>] =
         IF <<n, i>> \in done /\ ~IsControl(steps[i]) THEN launched[<<n, i>>] + 1 ELSE launched[<<n, i>>]
  <2> TAKE i \in Idx
  <2>1. <<n, i>> \in Targets
    BY DEF Targets
  <2> QED
    BY <1>7, <2>1, LaunchCount
<1>11. CASE n \notin t.batch
  <2>1. \A u \in SourceTasks(n) : u \in Task /\ queue[u] \in Nat /\ queue'[u] = queue[u]
    BY <1>8, <1>9, <1>11, SourceTypes DEF TypeOK
  <2>2. Sources(n)' \subseteq Sources(n)
    <3>1. \A u \in SourceTasks(n) : queue'[u] <= queue[u]
      BY <2>1
    <3>2. \A i \in Idx : <<n, i>> \in window' => <<n, i>> \in window
      BY <1>7, <1>11
    <3> QED
      BY <1>4, <1>8, <3>1, <3>2, SourcesShrink
  <2>3. \A i \in Idx : launched'[<<n, i>>] = launched[<<n, i>>]
    BY <1>10, <1>11
  <2> QED
    BY <1>5, <2>2, <2>3, SourceKept
<1>12. CASE n \in t.batch
  <2>1. t \in SourceTasks(n) /\ Holds(w, t) /\ Position(t) = 0
    BY <1>0, <1>1, <1>12 DEF SourceTasks, Holds, HoldsIn, Position
  <2>2. /\ \A u \in SourceTasks(n) : queue[u] = 0
        /\ \A v \in Workers, u \in SourceTasks(n) : Holds(v, u) => v = w
        /\ \A i \in Idx : <<n, i>> \notin window
        /\ \A i \in Idx : i > 0 => launched[<<n, i>>] = 0
    BY <1>5, <2>1, OnlySource
  <2>3. \A v \in Workers, u \in SourceTasks(n) : ~Holds(v, u)'
    BY <1>3, <1>4, <2>2 DEF Holds, HoldsIn
  <2>4. ASSUME NEW x \in Sources(n)'
        PROVE  \E b \in Idx : /\ <<n, b>> \in done /\ IsControl(steps[b])
                              /\ \/ steps[b].type = "delay" /\ x = <<Delay(<<n, b>>), "queue", 1>>
                                 \/ steps[b].type = "digest" /\ x = <<Delay(<<n, b>>), "window", 0>>
    <3>1. CASE x \in TokensIn(queue', run', SourceTasks(n))
      <4>1. ~InHand(run', SourceTasks(n), x)
        BY <2>3 DEF InHand, Holds
      <4>2. PICK u \in SourceTasks(n), k \in Nat : x = <<u, "queue", k>> /\ k \in 1..queue'[u]
        BY <3>1, <4>1, TokenForms DEF Queued
      <4>3. u \in Task /\ queue[u] = 0
        BY <2>2, SourceTypes
      <4>4. u \in TasksOf(done, steps) /\ k = 1
        BY <1>8, <4>2, <4>3
      <4> QED
        BY <1>9, <4>2, <4>4 DEF IsControl, Control
    <3>2. CASE \E i \in Idx : <<n, i>> \in window' /\ x = <<Delay(<<n, i>>), "window", 0>>
      BY <1>7, <2>2, <3>2 DEF IsControl, Control
    <3> QED
      BY <2>4, <3>1, <3>2 DEF Sources, Tokens
  <2>5. ASSUME NEW x \in Sources(n)' PROVE SourceOf(n, x)'
    <3>1. PICK b \in Idx : /\ <<n, b>> \in done /\ IsControl(steps[b])
                           /\ \/ steps[b].type = "delay" /\ x = <<Delay(<<n, b>>), "queue", 1>>
                              \/ steps[b].type = "digest" /\ x = <<Delay(<<n, b>>), "window", 0>>
      BY <2>4, <2>5
    <3>2. \A k \in Idx : <<n, k>> \in done => k <= b /\ (IsControl(steps[k]) => k = b)
      BY <3>1, ReachedBarrier
    <3>3. ASSUME NEW y \in Sources(n)' PROVE y = x
      <4>1. PICK c \in Idx : /\ <<n, c>> \in done /\ IsControl(steps[c])
                             /\ \/ steps[c].type = "delay" /\ y = <<Delay(<<n, c>>), "queue", 1>>
                                \/ steps[c].type = "digest" /\ y = <<Delay(<<n, c>>), "window", 0>>
        BY <2>4, <3>3
      <4>2. c = b
        BY <3>2, <4>1
      <4> QED
        BY <3>1, <4>1, <4>2
    <3>4. Position(x[1]) = b
      BY <3>1 DEF Position, Delay
    <3>5. \A i \in Idx : i > b => launched'[<<n, i>>] = 0
      <4> SUFFICES ASSUME NEW i \in Idx, i > b PROVE launched'[<<n, i>>] = 0
        OBVIOUS
      <4>1. i \in Nat /\ i > 0 /\ b \in Nat
        BY BoundsAssumption DEF Idx
      <4>2. <<n, i>> \notin done
        BY <3>2, <4>1
      <4> QED
        BY <1>10, <2>2, <4>1, <4>2
    <3> QED
      BY <3>3, <3>4, <3>5 DEF SourceOf
  <2> QED
    BY <2>5
<1> QED
  BY <1>11, <1>12

\* No step of the delivery handler takes up another task.
LEMMA HandleHolds ==
  ASSUME TypeOK, NEW w \in Workers, Delivers(w) \/ ScheduleRetry(w)
  PROVE  \A v \in Workers : \A u : Holds(v, u)' => Holds(v, u)
<1>1. CASE CheckRate(w) \/ ReadWorkflowPref(w) \/ ReadGlobalPref(w)
  <2>1. run[w].at \notin {"idle", "ack"}
    BY <1>1 DEF CheckRate, ReadWorkflowPref, ReadGlobalPref, Delivering
  <2>2. run'[w].task = run[w].task /\ \A v \in Workers \ {w} : run'[v] = run[v]
    <3>1. CASE \E p \in {"limited", "inheriting", "checked"} : Goto(w, p)
      BY <3>1, GotoRun DEF Phase
    <3>2. CASE Settle(w, "skipped")
      BY <3>2, SettleRun DEF Status
    <3>3. CASE run' = [run EXCEPT ![w].at = "limited", ![w].fresh = TRUE]
      BY <3>3, LimitedRun DEF Phase
    <3>4. CASE \E p \in {"inheriting", "checked"} : run' = [run EXCEPT ![w].at = p, ![w].consent = TRUE]
      BY <3>4, AskedRun DEF Phase
    <3> QED
      BY <1>1, <3>1, <3>2, <3>3, <3>4 DEF CheckRate, ReadWorkflowPref, ReadGlobalPref, Decide
  <2> QED
    BY <2>1, <2>2, HoldsMove
<1>2. CASE NoRecipient(w) \/ NoIntegration(w) \/ StepGone(w) \/ Accepted(w) \/ Rejected(w)
  <2>1. run[w].at \notin {"idle", "ack"}
    BY <1>2 DEF NoRecipient, NoIntegration, StepGone, Accepted, Rejected, Call, Sendable, Delivering
  <2>2. /\ run'[w].task = run[w].task \/ run'[w].at \in {"idle", "ack"}
        /\ \A v \in Workers \ {w} : run'[v] = run[v]
    <3>1. CASE Goto(w, "retry") \/ Goto(w, "ack")
      BY <3>1, GotoRun DEF Phase
    <3>2. CASE Settle(w, "sent") \/ Settle(w, "failed")
      BY <3>2, SettleRun DEF Status
    <3>3. CASE Finish(w)
      BY <3>3, FinishRun DEF Idle
    <3> QED
      BY <1>2, <3>1, <3>2, <3>3 DEF NoRecipient, NoIntegration, StepGone, Accepted, Rejected, Archive
  <2> QED
    BY <2>1, <2>2, HoldsMove
<1>3. CASE ScheduleRetry(w) \/ Record(w)
  <2>1. run'[w].at = "ack" /\ \A v \in Workers \ {w} : run'[v] = run[v]
    BY <1>3, GotoRun DEF ScheduleRetry, Record, Phase
  <2> QED
    BY <2>1, HoldsMove
<1>4. CASE Ack(w)
  <2>1. run'[w].at = "idle" /\ \A v \in Workers \ {w} : run'[v] = run[v]
    BY <1>4, FinishRun DEF Ack, Idle
  <2> QED
    BY <2>1, HoldsMove
<1> QED
  BY <1>1, <1>2, <1>3, <1>4 DEF Delivers

LEMMA DeliversSmooth ==
  ASSUME TypeOK, NEW w \in Workers, Delivers(w)
  PROVE  Smooth' => Smooth
<1>1. faults' = faults \/ Fault
  BY DEF Delivers, CheckRate, ReadWorkflowPref, ReadGlobalPref, NoRecipient, NoIntegration,
     StepGone, Accepted, Rejected, Record, Ack, events
<1> QED
  BY <1>1, DeliversHeld, SmoothBefore

\* The steps of the delivery handler and its retries leave sources alone.
LEMMA SourcedHandle ==
  ASSUME TypeOK, Sourced, NEW w \in Workers, Delivers(w) \/ ScheduleRetry(w)
  PROVE  Sourced'
<1>1. UNCHANGED <<steps, edits, window, launched>> /\ (Smooth' => Smooth)
  <2>1. CASE Delivers(w)
    BY <2>1, DeliversHeld, DeliversSmooth
  <2>2. CASE ScheduleRetry(w)
    BY <2>2, SmoothBefore DEF ScheduleRetry, documents, preferences, history
  <2> QED
    BY <2>1, <2>2
<1>2. \A v \in Workers : \A u : Holds(v, u)' => Holds(v, u)
  BY HandleHolds
<1>3. /\ queue' \in [Task -> Nat]
      /\ \A t \in TriggerTask \cup DelayTask : queue'[t] <= queue[t]
  <2>1. \A t \in TriggerTask \cup DelayTask : t \in Task /\ queue[t] \in Nat
    BY DEF TypeOK, Task
  <2>2. CASE Delivers(w)
    BY <2>1, <2>2, DeliversHeld DEF TypeOK
  <2>3. CASE ScheduleRetry(w)
    <3> DEFINE retry == Delivery(run[w].task.target, run[w].task.channel, NextAttempt(run[w].task.attempt))
    <3>1. Enqueue({retry}) \/ queue' = queue
      BY <2>3 DEF ScheduleRetry
    <3>2. retry \notin TriggerTask /\ retry \notin DelayTask
      BY DEF Delivery, TriggerTask, DelayTask
    <3> HIDE DEF retry
    <3> QED
      BY <2>1, <3>1, <3>2, EnqueueCount DEF TypeOK
  <2> QED
    BY <2>2, <2>3
<1> QED
  BY <1>1, <1>2, <1>3, SourcedCalm

LEMMA SourcedApi ==
  ASSUME TypeOK, Placed, Sourced, Api
  PROVE  Sourced'
<1>1. ASSUME NEW batch \in SUBSET Notifs, AcceptTrigger(batch)
      PROVE  Sourced'
  <2>1. /\ UNCHANGED <<steps, edits, run, launched, window, faults>>
        /\ batch \cap created = {} /\ Enqueue({Trigger(batch)})
    BY <1>1 DEF AcceptTrigger, history, events
  <2>2. /\ queue' \in [Task -> Nat]
        /\ \A u \in Task : queue'[u] = IF u = Trigger(batch) THEN queue[u] + 1 ELSE queue[u]
    BY <2>1, EnqueueCount
  <2> SUFFICES ASSUME Smooth', NEW n \in Notifs PROVE \A x \in Sources(n)' : SourceOf(n, x)'
    BY DEF Sourced
  <2>3. Smooth /\ \A x \in Sources(n) : SourceOf(n, x)
    BY <2>1, SmoothBefore DEF Sourced
  <2>4. \A v \in Workers : \A u : Holds(v, u)' <=> Holds(v, u)
    BY <2>1 DEF Holds
  <2>5. CASE n \notin batch
    <3>1. Trigger(batch) \notin SourceTasks(n)
      BY <2>5 DEF SourceTasks, Trigger, DelayTask
    <3>2. \A u \in SourceTasks(n) : u \in Task /\ queue[u] \in Nat /\ queue'[u] = queue[u]
      BY <2>2, <3>1, SourceTypes DEF TypeOK
    <3>3. \A u \in SourceTasks(n) : queue'[u] <= queue[u]
      BY <3>2
    <3>4. Sources(n)' \subseteq Sources(n)
      BY <2>1, <2>2, <2>4, <3>3, SourcesShrink
    <3> QED
      BY <2>1, <2>3, <3>4, SourceKept
  <2>6. CASE n \in batch
    <3>1. n \notin created /\ edits = 0
      BY <2>1, <2>3, <2>6 DEF Smooth
    <3>2. \A u \in SourceTasks(n) : ~Held(u)
      BY <3>1, SourceTypes DEF Placed, WellPlaced, SourceTasks
    <3>3. /\ \A u \in SourceTasks(n) : queue[u] = 0
          /\ \A v \in Workers, u \in SourceTasks(n) : ~Holds(v, u)
      BY <3>2, SourceTypes DEF Held, Holds, HoldsIn, TypeOK
    <3>4. \A i \in Idx : <<n, i>> \notin window' /\ launched'[<<n, i>>] = 0
      <4> TAKE i \in Idx
      <4>1. <<n, i>> \notin window /\ ~(launched[<<n, i>>] > 0)
        BY <3>1 DEF Placed
      <4>2. launched[<<n, i>>] \in Nat
        BY DEF TypeOK, Targets
      <4> QED
        BY <2>1, <4>1, <4>2
    <3>5. Tokens(SourceTasks(n))' \subseteq {<<Trigger(batch), "queue", 1>>}
      <4>1. \A u \in SourceTasks(n) : queue'[u] <= (IF u = Trigger(batch) THEN 1 ELSE 0)
        BY <2>2, <3>3, SourceTypes
      <4> QED
        BY <2>2, <2>4, <3>3, <4>1, SourceTypes, TokensNew
    <3>6. \A x \in Sources(n)' : x = <<Trigger(batch), "queue", 1>>
      BY <3>4, <3>5 DEF Sources
    <3> QED
      BY <3>4, <3>6 DEF SourceOf
  <2> QED
    BY <2>5, <2>6
<1>2. ASSUME NEW d \in Directs, NEW c \in Channels, AcceptDirect(d, c)
      PROVE  Sourced'
  <2>1. PICK t : t = Delivery(<<d, 0>>, c, 0)
    OBVIOUS
  <2>2. /\ UNCHANGED <<steps, edits, run, window, faults>>
        /\ Enqueue({t}) /\ Launch({<<d, 0>>})
    BY <1>2, <2>1 DEF AcceptDirect, events
  <2>3. t \notin TriggerTask /\ t \notin DelayTask
    BY <2>1 DEF Delivery, TriggerTask, DelayTask
  <2>4. queue' \in [Task -> Nat] /\ \A u \in TriggerTask \cup DelayTask : queue'[u] <= queue[u]
    <3>1. \A u \in TriggerTask \cup DelayTask : u \in Task /\ queue[u] \in Nat
      BY DEF TypeOK, Task
    <3> QED
      BY <2>2, <2>3, <3>1, EnqueueCount
  <2>5. \A n \in Notifs, i \in Idx : launched'[<<n, i>>] = launched[<<n, i>>]
    <3> TAKE n \in Notifs, i \in Idx
    <3>1. <<n, i>> \in Targets /\ <<n, i>> # <<d, 0>>
      BY DisjointAssumption DEF Targets
    <3> QED
      BY <2>2, <3>1, LaunchCount
  <2>6. \A v \in Workers : \A u : Holds(v, u)' => Holds(v, u)
    BY <2>2 DEF Holds
  <2> QED
    BY <2>2, <2>4, <2>5, <2>6, SmoothBefore, SourcedCalm
<1> QED
  BY <1>1, <1>2 DEF Api

LEMMA SourcedEnvironment ==
  ASSUME TypeOK, Sourced, Environment
  PROVE  Sourced'
<1>1. CASE UNCHANGED <<steps, edits>>
  <2>1. \A v \in Workers : \A u : Holds(v, u)' => Holds(v, u)
    BY AroundHeld DEF Holds, HoldsIn
  <2>2. \A t \in TriggerTask \cup DelayTask : queue'[t] <= queue[t]
    BY AroundHeld DEF TypeOK, Task
  <2> QED
    BY <1>1, <2>1, <2>2, AroundHeld, SmoothBefore, SourcedCalm DEF TypeOK
<1>2. CASE edits' # 0
  BY <1>2 DEF Sourced, Smooth
<1> QED
  BY <1>1, <1>2, AroundHeld

LEMMA SourcedNext ==
  ASSUME TypeOK, PhaseOK, DelayInv, Placed, Sourced, [Next]_vars
  PROVE  Sourced'
<1>1. ASSUME NEW w \in Workers, Handle(w) \/ Redeliver(w)
      PROVE  Sourced'
  <2>1. CASE RunTrigger(w) \/ RunDelay(w)
    BY <2>1, SourcedTrigger, SourcedDelay
  <2>2. CASE Delivers(w) \/ ScheduleRetry(w)
    BY <2>2, SourcedHandle
  <2>3. CASE Redeliver(w)
    <3>1. faults' # 0
      BY <2>3 DEF Redeliver, Fault, TypeOK
    <3> QED
      BY <3>1 DEF Sourced, Smooth
  <2> QED
    BY <1>1, <2>1, <2>2, <2>3 DEF Handle, Delivers
<1>2. CASE UNCHANGED vars
  BY <1>2 DEF vars, Sourced, Smooth, DistinctChannels, Sources, Tokens, SourceOf
<1> QED
  BY <1>1, <1>2, SourcedApi, SourcedBegin, SourcedDigest, SourcedEnvironment DEF Next

-----------------------------------------------------------------------------
(* Deliveries.                                                             *)

LEMMA DeliveriesTyped ==
  ASSUME NEW p
  PROVE  DeliveriesOf(p) \subseteq DeliveryTask /\ DeliveriesOf(p) \subseteq Task
  BY DEF DeliveriesOf, Task

LEMMA SingleKept ==
  ASSUME TypeOK, NEW p \in Notifs \X Idx, SingleOf(p),
         Tokens(DeliveriesOf(p))' \subseteq Tokens(DeliveriesOf(p)),
         launched'[p] = 0 => launched[p] = 0,
         PendingRow(p) => PendingRow(p)'
  PROVE  SingleOf(p)'
  BY DEF SingleOf

\* A step that starts no delivery of a notification and writes no row of it.
LEMMA SingleCalm ==
  ASSUME TypeOK, queue' \in [Task -> Nat], Single, Smooth' => Smooth,
         \A t \in NotifDelivery : queue'[t] <= queue[t],
         \A v \in Workers : \A t : Holds(v, t)' => Holds(v, t),
         \A p \in Notifs \X Idx : launched'[p] = 0 => launched[p] = 0,
         \A p \in Notifs \X Idx : PendingRow(p) => PendingRow(p)'
  PROVE  Single'
<1> SUFFICES ASSUME Smooth', NEW p \in Notifs \X Idx PROVE SingleOf(p)'
  BY DEF Single
<1>1. DeliveriesOf(p) \subseteq NotifDelivery
  BY DEF DeliveriesOf, DeliveryTask, NotifDelivery
<1>2. Tokens(DeliveriesOf(p))' \subseteq Tokens(DeliveriesOf(p))
  BY <1>1, DeliveriesTyped, TokensShrink
<1> QED
  BY <1>2, SingleKept DEF Single

LEMMA StartedRows ==
  ASSUME NEW ss, NEW done, NEW p, NEW t \in DeliveriesOf(p), t \in TasksOf(done, ss)
  PROVE  p \in done /\ ~IsControl(ss[p[2]]) /\ t = Delivery(p, ss[p[2]].type, 0)
<1>1. PICK q \in done : \/ ss[q[2]].type = "delay" /\ t = Delay(q)
                        \/ ss[q[2]].type \notin Control /\ t = Delivery(q, ss[q[2]].type, 0)
  BY TasksOfShape
<1>2. t # Delay(q)
  BY DEF DeliveriesOf, DeliveryTask, Delay
<1> QED
  BY <1>1, <1>2 DEF DeliveriesOf, Delivery, IsControl

\* What was never launched is started once.
LEMMA SingleStart ==
  ASSUME TypeOK, DelayInv, Single, Smooth' => Smooth, UNCHANGED rows, NEW ss, NEW done,
         Enqueue(TasksOf(done, ss)), Launch({p \in done : ~IsControl(ss[p[2]])}),
         \A v \in Workers : \A t : Holds(v, t)' => Holds(v, t),
         Smooth' => \A p \in done : ~IsControl(ss[p[2]]) => launched[p] = 0
  PROVE  Single'
<1> SUFFICES ASSUME Smooth', NEW p \in Notifs \X Idx PROVE SingleOf(p)'
  BY DEF Single
<1>1. SingleOf(p) /\ p \in Targets /\ Smooth /\ edits = 0
  BY DEF Single, Targets, Smooth
<1>2. /\ queue' \in [Task -> Nat]
      /\ \A t \in Task : queue'[t] = IF t \in TasksOf(done, ss) THEN queue[t] + 1 ELSE queue[t]
  BY EnqueueCount
<1>3. launched'[p] = IF p \in {q \in done : ~IsControl(ss[q[2]])} THEN launched[p] + 1 ELSE launched[p]
  BY <1>1, LaunchCount
<1>4. \A t \in DeliveriesOf(p) : t \in Task /\ queue[t] \in Nat
  BY DeliveriesTyped DEF TypeOK
<1>5. PendingRow(p) => PendingRow(p)'
  BY DEF PendingRow
<1>6. CASE p \in done /\ ~IsControl(ss[p[2]])
  <2> DEFINE t == Delivery(p, ss[p[2]].type, 0)
  <2>1. launched[p] = 0
    BY <1>6
  <2>2. \A u \in DeliveriesOf(p) : ~Held(u)
    BY <1>1, <2>1 DEF DelayInv, DeliveriesOf
  <2>3. /\ \A u \in DeliveriesOf(p) : queue[u] = 0
        /\ \A v \in Workers, u \in DeliveriesOf(p) : ~Holds(v, u)
    BY <1>4, <2>2 DEF Held, Holds, HoldsIn
  <2>4. \A u \in DeliveriesOf(p) : u # t => u \notin TasksOf(done, ss)
    BY StartedRows
  <2>5. \A u \in DeliveriesOf(p) : queue'[u] <= (IF u = t THEN 1 ELSE 0)
    BY <1>2, <1>4, <2>3, <2>4
  <2>6. Tokens(DeliveriesOf(p))' \subseteq {<<t, "queue", 1>>}
    <3> HIDE DEF t
    <3> QED
      BY <1>2, <2>3, <2>5, DeliveriesTyped, TokensNew
  <2>7. PendingRow(p)'
    BY <1>1, <1>5, <2>1 DEF SingleOf
  <2> QED
    BY <2>6, <2>7 DEF SingleOf
<1>7. CASE ~(p \in done /\ ~IsControl(ss[p[2]]))
  <2>1. \A t \in DeliveriesOf(p) : t \notin TasksOf(done, ss)
    BY <1>7, StartedRows
  <2>2. \A t \in DeliveriesOf(p) : queue'[t] <= queue[t]
    BY <1>2, <1>4, <2>1
  <2>3. Tokens(DeliveriesOf(p))' \subseteq Tokens(DeliveriesOf(p))
    BY <1>2, <2>2, DeliveriesTyped, TokensShrink
  <2>4. launched'[p] = launched[p]
    BY <1>3, <1>7
  <2> QED
    BY <1>1, <1>5, <2>3, <2>4, SingleKept
<1> QED
  BY <1>6, <1>7

LEMMA SingleTrigger ==
  ASSUME TypeOK, PhaseOK, DelayInv, Sourced, Single, NEW w \in Workers, RunTrigger(w)
  PROVE  Single'
<1>0. PICK t : t = run[w].task
  OBVIOUS
<1>1. t \in TriggerTask /\ t.kind = "trigger" /\ run[w].at = "begun"
  BY <1>0, KindOfTask DEF RunTrigger, PhaseOK, PhaseOf
<1>2. /\ UNCHANGED <<steps, edits, rows>> /\ Goto(w, "ack") /\ (faults' = faults \/ Fault)
  BY DEF RunTrigger, documents, preferences, Succeed
<1>3. run'[w].at = "ack" /\ \A v \in Workers \ {w} : run'[v] = run[v]
  BY <1>2, GotoRun DEF Phase
<1>4. \A v \in Workers : \A u : Holds(v, u)' => Holds(v, u)
  BY <1>3, HoldsMove
<1> DEFINE ss == run[w].steps
           all == {p \in t.batch \X Idx : p[2] \in Reached(p[1], ss)}
<1>5. PICK done \in SUBSET all :
        Enqueue(TasksOf(done, ss)) /\ Launch({p \in done : ~IsControl(ss[p[2]])})
  BY <1>0 DEF RunTrigger
<1>6. ASSUME Smooth, NEW p \in done PROVE launched[p] = 0
  <2>1. p[1] \in t.batch /\ p[1] \in Notifs /\ p[2] \in Idx /\ p = <<p[1], p[2]>>
    BY <1>1 DEF TriggerTask
  <2>2. t \in SourceTasks(p[1]) /\ Holds(w, t) /\ Position(t) = 0
    BY <1>0, <1>1, <2>1 DEF SourceTasks, Holds, HoldsIn, Position
  <2>3. \A x \in Sources(p[1]) : SourceOf(p[1], x)
    BY <1>6, <2>1 DEF Sourced
  <2>4. \A i \in Idx : i > 0 => launched[<<p[1], i>>] = 0
    BY <2>2, <2>3, OnlySource
  <2>5. p[2] > 0
    BY <2>1, BoundsAssumption DEF Idx
  <2> QED
    BY <2>1, <2>4, <2>5
<1>7. Smooth' => Smooth
  BY <1>2, SmoothBefore
<1> HIDE DEF ss, all
<1> QED
  BY <1>2, <1>4, <1>5, <1>6, <1>7, SingleStart

LEMMA SingleResume ==
  ASSUME TypeOK, DelayInv, Single, Smooth' => Smooth, UNCHANGED rows,
         NEW n \in Notifs, NEW i \in Idx, NEW ss, ss \in Workflows \cup {<< >>}, Resume(n, i, ss),
         \A v \in Workers : \A t : Holds(v, t)' => Holds(v, t),
         Smooth' => \A k \in Idx : k > i => launched[<<n, k>>] = 0
  PROVE  Single'
<1> DEFINE all == {<<n, j>> : j \in Following(ss, i)}
<1>1. PICK done \in SUBSET all : Enqueue(TasksOf(done, ss)) /\ Launch(done)
  BY DEF Resume
<1>2. ASSUME NEW p \in done
      PROVE  ~IsControl(ss[p[2]]) /\ (Smooth' => launched[p] = 0)
  <2>1. PICK j \in Following(ss, i) : p = <<n, j>>
    BY <1>2
  <2>2. j \in DOMAIN ss /\ ss \in Workflows /\ j > i
    BY <2>1 DEF Following
  <2>3. j \in Idx /\ j \in Nat /\ i \in Nat
    BY <2>2, StepType, BoundsAssumption DEF Idx
  <2>4. ~IsControl(ss[j])
    BY <2>1, <2>2, <2>3 DEF Following
  <2> QED
    BY <2>1, <2>2, <2>3, <2>4
<1>3. {p \in done : ~IsControl(ss[p[2]])} = done
  BY <1>2
<1>4. Smooth' => \A p \in done : ~IsControl(ss[p[2]]) => launched[p] = 0
  BY <1>2
<1> HIDE DEF all
<1> QED
  BY <1>1, <1>3, <1>4, SingleStart

LEMMA SingleDelay ==
  ASSUME TypeOK, PhaseOK, DelayInv, Sourced, Single, NEW w \in Workers, RunDelay(w)
  PROVE  Single'
<1>0. PICK t : t = run[w].task
  OBVIOUS
<1>1. t \in DelayTask /\ t.kind = "delay" /\ t.n \in Notifs /\ t.i \in Idx /\ run[w].steps \in Workflows \cup {<< >>}
  BY <1>0, KindOfTask, JobFields DEF RunDelay, PhaseOK, PhaseOf, TypeOK, DelayTask
<1>2. /\ UNCHANGED <<steps, edits, rows>> /\ Goto(w, "ack")
      /\ Resume(t.n, t.i, run[w].steps) /\ (faults' = faults \/ Fault)
  BY <1>0 DEF RunDelay, documents, preferences, Resume, Succeed
<1>3. run'[w].at = "ack" /\ \A v \in Workers \ {w} : run'[v] = run[v]
  BY <1>2, GotoRun DEF Phase
<1>4. \A v \in Workers : \A u : Holds(v, u)' => Holds(v, u)
  BY <1>3, HoldsMove
<1>5. Smooth' => Smooth
  BY <1>2, SmoothBefore
<1>6. Smooth' => \A k \in Idx : k > t.i => launched[<<t.n, k>>] = 0
  <2> SUFFICES ASSUME Smooth PROVE \A k \in Idx : k > t.i => launched[<<t.n, k>>] = 0
    BY <1>5
  <2>1. \A x \in Sources(t.n) : SourceOf(t.n, x)
    BY <1>1 DEF Sourced
  <2>2. t \in SourceTasks(t.n) /\ Holds(w, t) /\ Position(t) = t.i
    BY <1>0, <1>1 DEF SourceTasks, Holds, HoldsIn, RunDelay, Position
  <2> QED
    BY <2>1, <2>2, OnlySource
<1> QED
  BY <1>1, <1>2, <1>4, <1>5, <1>6, SingleResume

LEMMA SingleDigest ==
  ASSUME TypeOK, DelayInv, Sourced, Single, NEW s \in Subs, NEW i \in Idx, RunDigest(s, i)
  PROVE  Single'
<1> DEFINE waiting == {p \in window : p[2] = i /\ SubOf[p[1]] = s}
<1>1. PICK p \in waiting : Resume(p[1], i, steps)
  BY DEF RunDigest
<1>2. /\ UNCHANGED <<steps, edits, run, rows>> /\ (faults' = faults \/ Fault)
  BY DEF RunDigest, documents, preferences, Resume, Succeed
<1>3. PICK n \in Notifs : p = <<n, i>>
  BY DEF TypeOK
<1>4. \A v \in Workers : \A u : Holds(v, u)' => Holds(v, u)
  BY <1>2 DEF Holds
<1>5. Smooth' => Smooth
  BY <1>2, SmoothBefore
<1>6. Smooth' => \A k \in Idx : k > i => launched[<<n, k>>] = 0
  <2> SUFFICES ASSUME Smooth PROVE \A k \in Idx : k > i => launched[<<n, k>>] = 0
    BY <1>5
  <2>1. \A x \in Sources(n) : SourceOf(n, x)
    BY DEF Sourced
  <2> QED
    BY <1>3, <2>1, OnlyWindow
<1>7. steps \in Workflows \cup {<< >>} /\ Resume(n, i, steps)
  BY <1>1, <1>3 DEF TypeOK
<1> QED
  BY <1>2, <1>4, <1>5, <1>6, <1>7, SingleResume

LEMMA SingleBegin ==
  ASSUME TypeOK, Single, NEW w \in Workers, NEW t \in Task, Begin(w, t)
  PROVE  Single'
<1>1. /\ \A v \in Workers \ {w} : run'[v] = run[v]
      /\ run'[w].task = t /\ run[w].at = "idle"
      /\ UNCHANGED <<steps, edits, faults, rows, launched>>
  BY DEF Begin, TypeOK, documents, preferences, history, events
<1>2. queue' \in [Task -> Nat] /\ \A u \in Task : queue'[u] <= queue[u]
  BY DEF Begin, TypeOK
<1> SUFFICES ASSUME Smooth', NEW p \in Notifs \X Idx PROVE SingleOf(p)'
  BY DEF Single
<1>3. SingleOf(p) /\ (PendingRow(p) => PendingRow(p)')
  BY <1>1, SmoothBefore DEF Single, PendingRow
<1>4. CASE t \notin DeliveriesOf(p)
  <2>1. \A v \in Workers, u \in DeliveriesOf(p) : Holds(v, u)' => Holds(v, u)
    BY <1>1, <1>4 DEF Holds, HoldsIn
  <2>2. Tokens(DeliveriesOf(p))' \subseteq Tokens(DeliveriesOf(p))
    BY <1>2, <2>1, DeliveriesTyped, TokensShrink
  <2> QED
    BY <1>1, <1>3, <2>2, SingleKept
<1>5. CASE t \in DeliveriesOf(p)
  <2>1. \A x, y \in Tokens(DeliveriesOf(p)) : x = y
    BY <1>3 DEF SingleOf
  <2>2. Tokens(DeliveriesOf(p))' \subseteq {<<t, "worker", w>>}
    BY <1>5, <2>1, DeliveriesTyped, TokensBegin
  <2>3. <<t, "queue", 1>> \in Tokens(DeliveriesOf(p))
    BY <1>5, DeliveriesTyped, TokenHere DEF Begin
  <2>4. PendingRow(p)'
    BY <1>3, <2>3 DEF SingleOf
  <2> QED
    BY <2>2, <2>4 DEF SingleOf
<1> QED
  BY <1>4, <1>5

\* A retry takes the place of the attempt it repeats.
LEMMA SingleRetry ==
  ASSUME TypeOK, PhaseOK, Single, NEW w \in Workers, ScheduleRetry(w)
  PROVE  Single'
<1>0. PICK t : t = run[w].task
  OBVIOUS
<1>1. t \in DeliveryTask /\ run[w].at = "retry" /\ Holds(w, t)
  BY <1>0 DEF ScheduleRetry, PhaseOK, PhaseOf, Holds, HoldsIn
<1>2. PICK retry : retry = Delivery(t.target, t.channel, NextAttempt(t.attempt))
  OBVIOUS
<1>3. /\ Enqueue({retry}) \/ queue' = queue
      /\ UNCHANGED <<steps, edits, rows, launched>> /\ Goto(w, "ack") /\ (faults' = faults \/ Fault)
  BY <1>0, <1>2 DEF ScheduleRetry, history, documents, preferences
<1>4. /\ queue' \in [Task -> Nat]
      /\ \A u \in Task : queue[u] \in Nat /\ queue'[u] <= (IF u = retry THEN queue[u] + 1 ELSE queue[u])
  <2>1. CASE Enqueue({retry})
    BY <2>1, EnqueueCount DEF TypeOK
  <2>2. CASE queue' = queue
    BY <2>2 DEF TypeOK
  <2> QED
    BY <1>3, <2>1, <2>2
<1>5. run'[w].at = "ack" /\ \A v \in Workers \ {w} : run'[v] = run[v]
  BY <1>3, GotoRun DEF Phase
<1>6. \A v \in Workers : \A u : Holds(v, u)' => Holds(v, u) /\ v # w
  BY <1>5 DEF Holds, HoldsIn
<1> SUFFICES ASSUME Smooth', NEW p \in Notifs \X Idx PROVE SingleOf(p)'
  BY DEF Single
<1>7. SingleOf(p) /\ (PendingRow(p) => PendingRow(p)')
  BY <1>3, SmoothBefore DEF Single, PendingRow
<1>8. CASE p # t.target
  <2>1. retry \notin DeliveriesOf(p)
    BY <1>2, <1>8 DEF DeliveriesOf, Delivery
  <2>2. \A u \in DeliveriesOf(p) : queue'[u] <= queue[u]
    BY <1>4, <2>1, DeliveriesTyped
  <2>3. Tokens(DeliveriesOf(p))' \subseteq Tokens(DeliveriesOf(p))
    BY <1>4, <1>6, <2>2, DeliveriesTyped, TokensShrink
  <2> QED
    BY <1>3, <1>7, <2>3, SingleKept
<1>9. CASE p = t.target
  <2>1. t \in DeliveriesOf(p)
    BY <1>1, <1>9 DEF DeliveriesOf
  <2>2. <<t, "worker", w>> \in Tokens(DeliveriesOf(p))
    BY <1>1, <2>1, DeliveriesTyped, TokenHere
  <2>3. \A x \in Tokens(DeliveriesOf(p)) : x = <<t, "worker", w>>
    BY <1>7, <2>2 DEF SingleOf
  <2>4. /\ \A u \in DeliveriesOf(p) : queue[u] = 0
        /\ \A v \in Workers, u \in DeliveriesOf(p) : Holds(v, u) => v = w
    BY <1>1, <2>1, <2>3, DeliveriesTyped, OnlyHolder
  <2>5. /\ \A u \in DeliveriesOf(p) : queue'[u] <= (IF u = retry THEN 1 ELSE 0)
        /\ \A v \in Workers, u \in DeliveriesOf(p) : ~Holds(v, u)'
    BY <1>4, <1>6, <2>4, DeliveriesTyped
  <2>6. Tokens(DeliveriesOf(p))' \subseteq {<<retry, "queue", 1>>}
    BY <1>4, <2>5, DeliveriesTyped, TokensNew
  <2>7. PendingRow(p)'
    BY <1>7, <2>2 DEF SingleOf
  <2> QED
    BY <2>6, <2>7 DEF SingleOf
<1> QED
  BY <1>8, <1>9

\* The worker that writes a row has its delivery alone, and the row is pending.
LEMMA RowPending ==
  ASSUME TypeOK, PhaseOK, Placed, Single, Smooth, NEW w \in Workers, NEW t, t = run[w].task,
         run[w].at = "record"
  PROVE  /\ t \in NotifDelivery /\ t.target \in Notifs \X Idx /\ Held(t)
         /\ PendingRow(t.target)
         /\ \A u \in DeliveriesOf(t.target) : queue[u] = 0
         /\ \A v \in Workers, u \in DeliveriesOf(t.target) : Holds(v, u) => v = w
<1>1. t \in NotifDelivery /\ t \in DeliveryTask /\ t.target \in Notifs \X Idx /\ Held(t) /\ Holds(w, t)
  BY NotifDeliveryFields DEF PhaseOK, PhaseOf, Held, Holds, HoldsIn
<1>2. t \in DeliveriesOf(t.target) /\ SingleOf(t.target)
  BY <1>1 DEF DeliveriesOf, Single
<1>3. <<t, "worker", w>> \in Tokens(DeliveriesOf(t.target))
  BY <1>1, <1>2, DeliveriesTyped, TokenHere
<1>4. \A x \in Tokens(DeliveriesOf(t.target)) : x = <<t, "worker", w>>
  BY <1>2, <1>3 DEF SingleOf
<1>5. PendingRow(t.target)
  BY <1>2, <1>3 DEF SingleOf
<1> QED
  BY <1>1, <1>2, <1>4, <1>5, DeliveriesTyped, OnlyHolder

\* The only row it writes is that one.
LEMMA RowWritten ==
  ASSUME TypeOK, PhaseOK, Placed, Single, Smooth, NEW w \in Workers, NEW t, t = run[w].task, Record(w)
  PROVE  \A n \in Notifs, k \in Idx : rows'[n][k] = rows[n][k] \/ <<n, k>> = t.target
<1> DEFINE n == t.target[1]
           r == WithStatus(rows[n], t.channel, run[w].result)
<1>1. t \in NotifDelivery /\ t.target \in Notifs \X Idx /\ Held(t)
  BY RowPending DEF Record
<1>2. \A k \in Idx : r[k] = IF k = t.target[2] THEN [channel |-> t.channel, status |-> run[w].result]
                                                ELSE rows[n][k]
  BY <1>1, OwnRow DEF Smooth
<1>3. rows' = rows \/ rows' = [rows EXCEPT ![n] = r]
  BY DEF Record
<1> HIDE DEF r
<1> QED
  BY <1>1, <1>2, <1>3 DEF TypeOK

LEMMA SingleRecord ==
  ASSUME TypeOK, PhaseOK, DelayInv, Placed, Single, NEW w \in Workers, Record(w)
  PROVE  Single'
<1>0. PICK t : t = run[w].task
  OBVIOUS
<1>1. /\ UNCHANGED <<steps, edits, launched, queue>> /\ (faults' = faults \/ Fault)
      /\ Goto(w, "ack") /\ run[w].at = "record"
  BY DEF Record, history
<1>2. run'[w].at = "ack" /\ \A v \in Workers \ {w} : run'[v] = run[v]
  BY <1>1, GotoRun DEF Phase
<1>3. \A v \in Workers : \A u : Holds(v, u)' => Holds(v, u) /\ v # w
  BY <1>2 DEF Holds, HoldsIn
<1>4. queue' \in [Task -> Nat] /\ \A u \in Task : queue'[u] <= queue[u]
  BY <1>1 DEF TypeOK
<1> SUFFICES ASSUME Smooth', NEW p \in Notifs \X Idx PROVE SingleOf(p)'
  BY DEF Single
<1>5. Smooth /\ SingleOf(p) /\ edits = 0
  BY <1>1, SmoothBefore DEF Single, Smooth
<1>6. CASE p # t.target
  <2>1. Tokens(DeliveriesOf(p))' \subseteq Tokens(DeliveriesOf(p))
    BY <1>3, <1>4, DeliveriesTyped, TokensShrink
  <2>2. PendingRow(p) => PendingRow(p)'
    <3>1. p = <<p[1], p[2]>> /\ p[1] \in Notifs /\ p[2] \in Idx
      OBVIOUS
    <3>2. rows'[p[1]][p[2]] = rows[p[1]][p[2]]
      BY <1>0, <1>5, <1>6, <3>1, RowWritten
    <3> QED
      BY <3>2 DEF PendingRow
  <2> QED
    BY <1>1, <1>5, <2>1, <2>2, SingleKept
<1>7. CASE p = t.target
  <2>1. /\ \A u \in DeliveriesOf(p) : queue'[u] = 0
        /\ \A v \in Workers, u \in DeliveriesOf(p) : ~Holds(v, u)'
        /\ t \in NotifDelivery /\ Held(t)
    BY <1>0, <1>1, <1>3, <1>5, <1>7, RowPending
  <2>2. Tokens(DeliveriesOf(p))' = {}
    <3> SUFFICES ASSUME NEW x \in TokensIn(queue', run', DeliveriesOf(p)) PROVE FALSE
      BY DEF Tokens
    <3>1. ~Queued(queue', DeliveriesOf(p), x) /\ ~InHand(run', DeliveriesOf(p), x)
      BY <2>1 DEF Queued, InHand, Holds
    <3> QED
      BY <3>1, TokenForms
  <2>3. launched'[p] > 0
    BY <1>1, <1>5, <1>7, <2>1, NotifDeliveryFields DEF DelayInv
  <2> QED
    BY <2>2, <2>3 DEF SingleOf
<1> QED
  BY <1>6, <1>7

LEMMA NotifQueued ==
  ASSUME TypeOK, NEW t \in NotifDelivery
  PROVE  t \in Task /\ t \in DeliveryTask /\ queue[t] \in Nat
  BY NotifDeliveryFields DEF TypeOK, Task

LEMMA SingleHandle ==
  ASSUME TypeOK, PhaseOK, DelayInv, Placed, Single, NEW w \in Workers, Delivers(w)
  PROVE  Single'
<1>1. CASE Record(w)
  BY <1>1, SingleRecord
<1>2. CASE UNCHANGED rows
  <2>1. queue' = queue /\ launched' = launched
    BY DeliversHeld
  <2>2. queue' \in [Task -> Nat] /\ \A t \in NotifDelivery : queue'[t] <= queue[t]
    BY <2>1, NotifQueued DEF TypeOK
  <2>3. \A p \in Notifs \X Idx : (launched'[p] = 0 => launched[p] = 0) /\ (PendingRow(p) => PendingRow(p)')
    BY <1>2, <2>1 DEF PendingRow
  <2> QED
    BY <2>2, <2>3, HandleHolds, DeliversSmooth, SingleCalm
<1> QED
  BY <1>1, <1>2 DEF Delivers, CheckRate, ReadWorkflowPref, ReadGlobalPref, NoRecipient, NoIntegration,
         StepGone, Accepted, Rejected, Call, Ack, documents

LEMMA SingleApi ==
  ASSUME TypeOK, Single, Api
  PROVE  Single'
<1>1. ASSUME NEW batch \in SUBSET Notifs, AcceptTrigger(batch)
      PROVE  Single'
  <2>1. PICK t : t = Trigger(batch)
    OBVIOUS
  <2>2. /\ UNCHANGED <<steps, edits, faults, run, launched>> /\ Enqueue({t})
        /\ rows' = [n \in Notifs |-> IF n \in batch THEN PendingRows(steps) ELSE rows[n]]
    BY <1>1, <2>1 DEF AcceptTrigger, history, events
  <2>3. \A u \in NotifDelivery : u \in Task /\ queue[u] \in Nat /\ u # t
    BY <2>1, NotifQueued DEF DeliveryTask, Trigger
  <2>4. queue' \in [Task -> Nat] /\ \A u \in NotifDelivery : queue'[u] <= queue[u]
    BY <2>2, <2>3, EnqueueCount
  <2>5. \A p \in Notifs \X Idx : PendingRow(p) => PendingRow(p)'
    BY <2>2 DEF PendingRow, PendingRows, NoRow
  <2>6. \A v \in Workers : \A u : Holds(v, u)' => Holds(v, u)
    BY <2>2 DEF Holds
  <2> QED
    BY <2>2, <2>4, <2>5, <2>6, SmoothBefore, SingleCalm
<1>2. ASSUME NEW d \in Directs, NEW c \in Channels, AcceptDirect(d, c)
      PROVE  Single'
  <2>1. PICK t : t = Delivery(<<d, 0>>, c, 0)
    OBVIOUS
  <2>2. /\ UNCHANGED <<steps, edits, faults, run, rows>>
        /\ Enqueue({t}) /\ Launch({<<d, 0>>})
    BY <1>2, <2>1 DEF AcceptDirect, events
  <2>3. \A u \in NotifDelivery : u \in Task /\ queue[u] \in Nat /\ u # t
    <3> TAKE u \in NotifDelivery
    <3>1. u \in Task /\ u.target[1] \in Notifs
      BY NotifQueued, NotifDeliveryFields
    <3>2. t.target[1] \notin Notifs
      BY <2>1, DisjointAssumption DEF Delivery
    <3> QED
      BY <3>1, <3>2, NotifQueued
  <2>4. queue' \in [Task -> Nat] /\ \A u \in NotifDelivery : queue'[u] <= queue[u]
    BY <2>2, <2>3, EnqueueCount
  <2>5. \A p \in Notifs \X Idx : launched'[p] = launched[p]
    <3> TAKE p \in Notifs \X Idx
    <3>1. p \in Targets /\ p # <<d, 0>>
      BY DisjointAssumption DEF Targets
    <3> QED
      BY <2>2, <3>1, LaunchCount
  <2>6. /\ \A v \in Workers : \A u : Holds(v, u)' => Holds(v, u)
        /\ \A p \in Notifs \X Idx : PendingRow(p) => PendingRow(p)'
    BY <2>2 DEF Holds, PendingRow
  <2> QED
    BY <2>2, <2>4, <2>5, <2>6, SmoothBefore, SingleCalm
<1> QED
  BY <1>1, <1>2 DEF Api

LEMMA SingleEnvironment ==
  ASSUME TypeOK, Single, Environment
  PROVE  Single'
<1>1. CASE UNCHANGED <<steps, edits>>
  <2>1. \A v \in Workers : \A u : Holds(v, u)' => Holds(v, u)
    BY AroundHeld DEF Holds, HoldsIn
  <2>2. queue' \in [Task -> Nat] /\ \A t \in NotifDelivery : queue'[t] <= queue[t]
    BY AroundHeld, NotifQueued DEF TypeOK
  <2>3. \A p \in Notifs \X Idx : (launched'[p] = 0 => launched[p] = 0) /\ (PendingRow(p) => PendingRow(p)')
    BY AroundHeld DEF PendingRow
  <2> QED
    BY <1>1, <2>1, <2>2, <2>3, AroundHeld, SmoothBefore, SingleCalm
<1>2. CASE edits' # 0
  BY <1>2 DEF Single, Smooth
<1> QED
  BY <1>1, <1>2, AroundHeld

LEMMA SingleNext ==
  ASSUME TypeOK, PhaseOK, DelayInv, Placed, Sourced, Single, [Next]_vars
  PROVE  Single'
<1>1. ASSUME NEW w \in Workers, Handle(w) \/ Redeliver(w)
      PROVE  Single'
  <2>1. CASE RunTrigger(w) \/ RunDelay(w)
    BY <2>1, SingleTrigger, SingleDelay
  <2>2. CASE Delivers(w) \/ ScheduleRetry(w)
    BY <2>2, SingleHandle, SingleRetry
  <2>3. CASE Redeliver(w)
    <3>1. faults' # 0
      BY <2>3 DEF Redeliver, Fault, TypeOK
    <3> QED
      BY <3>1 DEF Single, Smooth
  <2> QED
    BY <1>1, <2>1, <2>2, <2>3 DEF Handle, Delivers
<1>2. CASE UNCHANGED vars
  BY <1>2 DEF vars, Single, Smooth, DistinctChannels, Tokens, SingleOf, PendingRow
<1> QED
  BY <1>1, <1>2, SingleApi, SingleBegin, SingleDigest, SingleEnvironment DEF Next

LEMMA SingleInit == Init => Sourced /\ Single
<1> SUFFICES ASSUME Init PROVE Sourced /\ Single
  OBVIOUS
<1>1. ASSUME NEW S, S \subseteq Task PROVE Tokens(S) = {}
  <2> SUFFICES ASSUME NEW x \in TokensIn(queue, run, S) PROVE FALSE
    BY DEF Tokens
  <2>1. ~Queued(queue, S, x)
    BY <1>1 DEF Queued, Init
  <2>2. ~InHand(run, S, x)
    BY DEF InHand, HoldsIn, Init, Idle
  <2> QED
    BY <2>1, <2>2, TokenForms
<1>2. Sourced
  BY <1>1, SourceTypes DEF Sourced, Sources, Init
<1>3. Single
  <2> SUFFICES ASSUME NEW p \in Notifs \X Idx PROVE SingleOf(p)
    BY DEF Single
  <2>1. Tokens(DeliveriesOf(p)) = {}
    BY <1>1, DeliveriesTyped
  <2>2. PendingRow(p)
    BY DEF PendingRow, Init, NoRow
  <2> QED
    BY <2>1, <2>2 DEF SingleOf
<1> QED
  BY <1>2, <1>3

\* Only the status write and a new notification touch rows.
LEMMA RowsHeld ==
  ASSUME TypeOK, [Next]_vars
  PROVE  \/ UNCHANGED rows
         \/ \E w \in Workers : Record(w)
         \/ \E batch \in SUBSET Notifs : AcceptTrigger(batch)
<1>1. ASSUME NEW w \in Workers, Handle(w), ~Record(w)
      PROVE  UNCHANGED rows
  BY <1>1 DEF Handle, RunTrigger, RunDelay, CheckRate, ReadWorkflowPref, ReadGlobalPref, NoRecipient,
     NoIntegration, StepGone, Accepted, Rejected, Call, ScheduleRetry, Ack, documents
<1>2. ASSUME NEW w \in Workers, NEW t \in Task, Begin(w, t)
      PROVE  UNCHANGED rows
  BY <1>2 DEF Begin, documents
<1>3. ASSUME NEW w \in Workers, Redeliver(w)
      PROVE  UNCHANGED rows
  BY <1>3 DEF Redeliver, documents
<1>4. ASSUME NEW s \in Subs, NEW i \in Idx, RunDigest(s, i)
      PROVE  UNCHANGED rows
  BY <1>4 DEF RunDigest, documents
<1>5. CASE Environment
  BY <1>5, AroundHeld
<1>6. ASSUME NEW d \in Directs, NEW c \in Channels, AcceptDirect(d, c)
      PROVE  UNCHANGED rows
  BY <1>6 DEF AcceptDirect
<1>7. CASE UNCHANGED vars
  BY <1>7 DEF vars
<1> QED
  BY <1>1, <1>2, <1>3, <1>4, <1>5, <1>6, <1>7 DEF Next, Api

LEMMA FinalStep ==
  ASSUME TypeOK, PhaseOK, DelayInv, Placed, Single, [Next]_vars, faults' = 0, edits' = 0, DistinctChannels,
         NEW n \in Notifs, NEW k \in Idx, rows[n][k].status # "pending"
  PROVE  rows'[n][k] = rows[n][k]
<1>1. ASSUME NEW w \in Workers, Record(w) PROVE rows'[n][k] = rows[n][k]
  <2>0. PICK t : t = run[w].task
    OBVIOUS
  <2>1. edits = 0 /\ faults = 0
    BY <1>1 DEF Record, Fault, TypeOK
  <2>2. Smooth /\ run[w].at = "record"
    BY <1>1, <2>1 DEF Smooth, Record
  <2>3. PendingRow(t.target)
    BY <2>0, <2>2, RowPending
  <2>4. t.target # <<n, k>>
    BY <2>3 DEF PendingRow
  <2> QED
    BY <1>1, <2>0, <2>2, <2>4, RowWritten
<1>2. ASSUME NEW batch \in SUBSET Notifs, AcceptTrigger(batch) PROVE rows'[n][k] = rows[n][k]
  <2>1. /\ edits = 0 /\ faults = 0 /\ batch \cap created = {}
        /\ rows' = [m \in Notifs |-> IF m \in batch THEN PendingRows(steps) ELSE rows[m]]
    BY <1>2 DEF AcceptTrigger, events
  <2>2. SingleOf(<<n, k>>)
    BY <2>1 DEF Single, Smooth
  <2>3. launched[<<n, k>>] # 0
    BY <2>2 DEF SingleOf, PendingRow
  <2>4. launched[<<n, k>>] > 0
    BY <2>3 DEF TypeOK, Targets
  <2>5. n \in created
    BY <2>1, <2>4 DEF Placed
  <2> QED
    BY <2>1, <2>5
<1> QED
  BY <1>1, <1>2, RowsHeld

\* A status a worker wrote stays: without a redelivery, an edit or two steps that
\* share a row, no other delivery, retry or late trigger of the notification
\* overwrites it.
THEOREM Final == Spec => StatusFinal
<1>1. Init => DelayInv /\ Placed /\ Sourced /\ Single
  <2>1. Init => DelayInv
    BY DEF Init, DelayInv, Held, DeliveryTask, DelayTask, Task, Idle, Targets
  <2> QED
    BY <2>1, PlacedInit, SingleInit
<1>2. TypeOK /\ PhaseOK /\ DelayInv /\ Placed /\ Sourced /\ Single /\ [Next]_vars
        => DelayInv' /\ Placed' /\ Sourced' /\ Single'
  BY DelayNext, PlacedNext, SourcedNext, SingleNext
<1>3. TypeOK /\ PhaseOK /\ DelayInv /\ Placed /\ Single /\ [Next]_vars =>
        [faults' = 0 /\ edits' = 0 /\ DistinctChannels =>
           \A n \in Notifs, k \in Idx :
             rows[n][k].status # "pending" => rows'[n][k] = rows[n][k]]_vars
  BY FinalStep
<1> QED
  BY <1>1, <1>2, <1>3, Typed, PTL DEF Spec, StatusFinal
=============================================================================
