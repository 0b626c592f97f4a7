------------------------ MODULE DigestWindow_proofs ------------------------
(* Proofs about a digest window, for any number of notifications, workers  *)
(* and faults.                                                             *)
EXTENDS DigestWindow, FiniteSetTheorems, TLAPS

Job == TriggerJob \cup DigestJob \cup ResumeJob \cup {Idle}

-----------------------------------------------------------------------------
(* The workers' jobs, moved or ended.                                      *)

LEMMA IdleOK == Idle \in Job
BY DEF Job

LEMMA TriggerJobOK ==
  ASSUME NEW n \in Notifs, NEW at \in {"push", "expire", "schedule"}
  PROVE  [at |-> at, n |-> n, got |-> << >>] \in Job
BY DEF Job, TriggerJob

LEMMA DigestJobOK ==
  ASSUME NEW s \in Seq(Notifs), NEW at \in {"collect", "clear"}
  PROVE  [at |-> at, n |-> None, got |-> s] \in Job
BY DEF Job, DigestJob

LEMMA ResumeJobOK ==
  ASSUME NEW s \in Seq(Notifs), s # << >>
  PROVE  [at |-> "resume", n |-> None, got |-> s] \in Job
BY DEF Job, ResumeJob

\* What a job tells of its worker's step.
LEMMA JobFields ==
  ASSUME NEW j \in Job
  PROVE  /\ j = [at |-> j.at, n |-> j.n, got |-> j.got]
         /\ j.got \in Seq(Notifs)
         /\ j.at \in {"push", "expire", "schedule"} => j.n \in Notifs /\ j.got = << >>
         /\ j.at \in {"collect", "clear", "resume"} => j.n = None
         /\ j.at \in {"push", "expire", "schedule", "collect", "clear", "resume", "idle"}
         /\ j.n \in Notifs \cup {None}
<1>0. << >> \in Seq(Notifs) OBVIOUS
<1>1. CASE j \in TriggerJob
  <2>1. j.at \in {"push", "expire", "schedule"} /\ j.n \in Notifs /\ j.got = << >>
    BY <1>1 DEF TriggerJob
  <2>2. j = [at |-> j.at, n |-> j.n, got |-> j.got] BY <1>1 DEF TriggerJob
  <2> QED BY <1>0, <2>1, <2>2
<1>2. CASE j \in DigestJob BY <1>2 DEF DigestJob
<1>3. CASE j \in ResumeJob BY <1>3 DEF ResumeJob
<1>4. CASE j = Idle BY <1>0, <1>4 DEF Idle
<1> QED BY <1>1, <1>2, <1>3, <1>4 DEF Job

LEMMA JobKept ==
  ASSUME job \in [Workers -> Job], NEW w \in Workers, NEW j \in Job, job' = [job EXCEPT ![w] = j]
  PROVE  job' \in [Workers -> Job]
OBVIOUS

LEMMA Ended ==
  ASSUME job \in [Workers -> Job], NEW w \in Workers, Return(w)
  PROVE  job' \in [Workers -> Job]
BY IdleOK DEF Return

LEMMA Moved ==
  ASSUME job \in [Workers -> Job], NEW w \in Workers, NEW at, Goto(w, at),
         [at |-> at, n |-> job[w].n, got |-> job[w].got] \in Job
  PROVE  job' \in [Workers -> Job]
<1>1. job[w] \in Job OBVIOUS
<1>2. job[w] = [at |-> job[w].at, n |-> job[w].n, got |-> job[w].got] BY <1>1, JobFields
<1>3. [job[w] EXCEPT !.at = at] = [at |-> at, n |-> job[w].n, got |-> job[w].got] BY <1>2
<1>4. job' = [job EXCEPT ![w] = [job[w] EXCEPT !.at = at]] BY DEF Goto
<1> QED BY <1>3, <1>4

-----------------------------------------------------------------------------
(* Type correctness.                                                       *)

LEMMA InitType == Init => TypeOK
<1> SUFFICES ASSUME Init PROVE TypeOK OBVIOUS
<1>1. job \in [Workers -> Job] BY IdleOK DEF Init
<1>2. list \in Seq(Notifs)
  <2>1. << >> \in Seq(Notifs) OBVIOUS
  <2> QED BY <2>1 DEF Init
<1>3. triggers \in [Notifs -> Nat] /\ done \in [Notifs -> Nat]
  <2>1. [n \in Notifs |-> 0] \in [Notifs -> Nat] OBVIOUS
  <2> QED BY <2>1 DEF Init
<1>4. faults \in 0..MaxFaults BY MaxFaultsAssumption DEF Init
<1>5. triggered \subseteq Notifs /\ slipped \subseteq Notifs /\ digests \in Nat /\ ttl \in BOOLEAN
  BY DEF Init
<1> QED BY <1>1, <1>2, <1>3, <1>4, <1>5 DEF TypeOK, Job

LEMMA NextType ==
  ASSUME TypeOK, [Next]_vars PROVE TypeOK'
<1>job. job \in [Workers -> Job] BY DEF TypeOK, Job
<1>seq. list \in Seq(Notifs) BY DEF TypeOK
<1>qed. SUFFICES /\ triggered' \subseteq Notifs /\ triggers' \in [Notifs -> Nat]
                 /\ digests' \in Nat /\ list' \in Seq(Notifs) /\ ttl' \in BOOLEAN
                 /\ job' \in [Workers -> Job]
                 /\ faults' \in 0..MaxFaults
                 /\ done' \in [Notifs -> Nat] /\ slipped' \subseteq Notifs
  BY DEF TypeOK, Job
<1> DEFINE Typed == <1>qed!1
<1>f. Fault => faults' \in 0..MaxFaults BY MaxFaultsAssumption DEF Fault, TypeOK
<1>0. \A w \in Workers : job[w] \in Job BY <1>job
<1>1. ASSUME NEW n \in Notifs, Trigger(n) PROVE Typed
  BY <1>1, <1>job DEF Trigger, TypeOK
<1>2. ASSUME NEW w \in Workers, NEW n \in Notifs, BeginTrigger(w, n) PROVE Typed
  <2>1. job' \in [Workers -> Job] BY <1>2, <1>job, TriggerJobOK, JobKept DEF BeginTrigger
  <2> QED BY <1>2, <2>1 DEF BeginTrigger, TypeOK
<1>3. ASSUME NEW w \in Workers, Push(w) PROVE Typed
  <2>1. job[w].n \in Notifs /\ job[w].got = << >> BY <1>3, <1>0, JobFields DEF Push
  <2>2. Append(list, job[w].n) \in Seq(Notifs) BY <2>1, <1>seq
  <2>3. list' \in Seq(Notifs) BY <1>3, <2>2, <1>seq DEF Push
  <2>4. Goto(w, "expire") => job' \in [Workers -> Job] BY <2>1, <1>job, TriggerJobOK, Moved
  <2>5. Return(w) => job' \in [Workers -> Job] BY <1>job, Ended
  <2>6. job' \in [Workers -> Job] BY <1>3, <2>4, <2>5 DEF Push
  <2>7. faults' \in 0..MaxFaults BY <1>3, <1>f DEF Push, TypeOK
  <2> QED BY <1>3, <2>3, <2>6, <2>7 DEF Push, TypeOK
<1>4. ASSUME NEW w \in Workers, SetExpiry(w) PROVE Typed
  <2>1. job[w].n \in Notifs /\ job[w].got = << >> BY <1>4, <1>0, JobFields DEF SetExpiry
  <2>2. job' \in [Workers -> Job] BY <1>4, <2>1, <1>job, TriggerJobOK, Moved DEF SetExpiry
  <2>3. faults' \in 0..MaxFaults BY <1>4, <1>f DEF SetExpiry, TypeOK
  <2>4. ttl' \in BOOLEAN BY <1>4 DEF SetExpiry, TypeOK
  <2> QED BY <1>4, <2>2, <2>3, <2>4 DEF SetExpiry, TypeOK
<1>5. ASSUME NEW w \in Workers, Schedule(w) PROVE Typed
  <2>1. job' \in [Workers -> Job] BY <1>5, <1>job, Ended DEF Schedule
  <2>2. digests' \in Nat BY <1>5 DEF Schedule, TypeOK
  <2> QED BY <1>5, <1>f, <2>1, <2>2 DEF Schedule, TypeOK
<1>6. ASSUME NEW w \in Workers, BeginDigest(w) PROVE Typed
  <2>1. << >> \in Seq(Notifs) OBVIOUS
  <2>2. job' \in [Workers -> Job] BY <1>6, <2>1, <1>job, DigestJobOK, JobKept DEF BeginDigest
  <2>3. digests' \in Nat BY <1>6 DEF BeginDigest, TypeOK
  <2> QED BY <1>6, <2>2, <2>3 DEF BeginDigest, TypeOK
<1>7. ASSUME NEW w \in Workers, Collect(w) PROVE Typed
  <2>1. job[w] = [at |-> job[w].at, n |-> None, got |-> job[w].got]
    BY <1>7, <1>0, JobFields DEF Collect
  <2>2. job'[w] = [at |-> "clear", n |-> None, got |-> list]
    <3>1. PICK a, s : job[w] = [at |-> a, n |-> None, got |-> s] BY <2>1
    <3>2. job'[w] = [[at |-> a, n |-> None, got |-> s] EXCEPT !.at = "clear", !.got = list]
      BY <1>7, <1>job, <3>1 DEF Collect
    <3> QED BY <3>2
  <2>3. job' = [job EXCEPT ![w] = job'[w]]
    BY <1>7, <1>job DEF Collect
  <2>4. job' \in [Workers -> Job] BY <2>2, <2>3, <1>job, <1>seq, DigestJobOK, JobKept
  <2> QED BY <1>7, <2>4 DEF Collect, TypeOK
<1>8. ASSUME NEW w \in Workers, Clear(w) PROVE Typed
  <2>1. job[w].n = None /\ job[w].got \in Seq(Notifs) BY <1>8, <1>0, JobFields DEF Clear
  <2>2. job[w].got = << >> => job' \in [Workers -> Job]
    BY <1>8, <1>job, Ended DEF Clear
  <2>3. ASSUME job[w].got # << >> PROVE job' \in [Workers -> Job]
    <3>1. [at |-> "resume", n |-> job[w].n, got |-> job[w].got] \in Job
      BY <2>1, <2>3, ResumeJobOK
    <3>2. Goto(w, "resume") BY <1>8, <2>3 DEF Clear
    <3> QED BY <3>1, <3>2, <1>job, Moved
  <2>4. job' \in [Workers -> Job] BY <2>2, <2>3
  <2>5. slipped' \subseteq Notifs
    <3>1. Range(list) \subseteq Notifs BY <1>seq DEF Range
    <3> QED BY <1>8, <3>1 DEF Clear, TypeOK
  <2>6. list' \in Seq(Notifs)
    <3>1. << >> \in Seq(Notifs) OBVIOUS
    <3> QED BY <1>8, <3>1, <1>seq DEF Clear
  <2>7. ttl' \in BOOLEAN BY <1>8 DEF Clear, TypeOK
  <2>8. faults' \in 0..MaxFaults BY <1>8, <1>f DEF Clear, TypeOK
  <2> QED BY <1>8, <2>4, <2>5, <2>6, <2>8, <2>7 DEF Clear, TypeOK
<1>9. ASSUME NEW w \in Workers, Resume(w) PROVE Typed
  <2>1. job' \in [Workers -> Job] BY <1>9, <1>job, Ended DEF Resume
  <2>2. done' \in [Notifs -> Nat]
    <3>1. done \in [Notifs -> Nat] BY DEF TypeOK
    <3>2. \A n \in Notifs : done[n] \in Nat /\ done[n] + 1 \in Nat BY <3>1
    <3> DEFINE more == [n \in Notifs |-> IF n \in Range(job[w].got) THEN done[n] + 1 ELSE done[n]]
    <3>3. more \in [Notifs -> Nat] BY <3>2
    <3> QED BY <1>9, <3>1, <3>3 DEF Resume
  <2> QED BY <1>9, <1>f, <2>1, <2>2 DEF Resume, TypeOK
<1>10. ASSUME NEW w \in Workers, Redeliver(w) PROVE Typed
  <2>1. job' \in [Workers -> Job] BY <1>10, <1>job, Ended DEF Redeliver
  <2>2. job[w].n \in Notifs \cup {None} BY <1>0, JobFields
  <2>3. triggers' \in [Notifs -> Nat]
    <3>1. triggers \in [Notifs -> Nat] BY DEF TypeOK
    <3>2. job[w].n # None => triggers[job[w].n] + 1 \in Nat BY <2>2, <3>1
    <3>3. job[w].n # None => triggers' = [triggers EXCEPT ![job[w].n] = triggers[job[w].n] + 1]
      BY <1>10 DEF Redeliver
    <3>4. job[w].n = None => triggers' = triggers BY <1>10 DEF Redeliver
    <3> QED BY <3>1, <3>2, <3>3, <3>4
  <2>4. digests' \in Nat BY <1>10 DEF Redeliver, TypeOK
  <2> QED BY <1>10, <1>f, <2>1, <2>3, <2>4 DEF Redeliver, TypeOK
<1>11. CASE KeyExpires
  <2>1. << >> \in Seq(Notifs) OBVIOUS
  <2>2. list' \in Seq(Notifs) BY <1>11, <2>1 DEF KeyExpires
  <2>3. faults' \in 0..MaxFaults BY <1>11, <1>f DEF KeyExpires, TypeOK
  <2> QED BY <1>11, <2>2, <2>3, <1>job DEF KeyExpires, TypeOK
<1>12. CASE UNCHANGED vars
  BY <1>12, <1>job DEF vars, TypeOK
<1> QED
  BY <1>1, <1>2, <1>3, <1>4, <1>5, <1>6, <1>7, <1>8, <1>9, <1>10, <1>11, <1>12
  DEF Next, Handle

\* Every reachable state of a window is well typed; a digest that is sent has a
\* first notification (digest_handler.go, notifIDs[0]).
THEOREM TypeCorrect == Spec => []TypeOK
<1>1. Init => TypeOK BY InitType
<1>2. TypeOK /\ [Next]_vars => TypeOK' BY NextType
<1> QED BY <1>1, <1>2, PTL DEF Spec

-----------------------------------------------------------------------------
(* One collector. With the types, the property is inductive as it stands.  *)

LEMMA InitCollector == Init => OneCollector
BY DEF Init, OneCollector, Due, Collector, Idle

\* A step that leaves the list and the digest tasks alone and every worker as
\* much a collector as it was.
LEMMA SameCollectors ==
  ASSUME OneCollector, faults' = faults, digests' = digests, (list' # << >>) <=> (list # << >>),
         \A w \in Workers : Collector(w)' <=> Collector(w)
  PROVE  OneCollector'
BY DEF OneCollector, Due

LEMMA FaultCollector == ASSUME TypeOK, Fault PROVE OneCollector'
<1>1. faults \in Nat /\ faults' = faults + 1 BY DEF TypeOK, Fault
<1> QED BY <1>1 DEF OneCollector

LEMMA NextCollector ==
  ASSUME TypeOK, OneCollector, [Next]_vars PROVE OneCollector'
<1>job. \A w \in Workers : job[w] \in Job BY DEF TypeOK, Job
<1>dom. DOMAIN job = Workers BY DEF TypeOK
<1>nat. digests \in Nat BY DEF TypeOK
<1>rec. \A w \in Workers : job[w] = [at |-> job[w].at, n |-> job[w].n, got |-> job[w].got]
  BY <1>job, JobFields
<1>ret. ASSUME NEW w \in Workers, Return(w)
        PROVE  job'[w].at = "idle" /\ \A v \in Workers \ {w} : job'[v] = job[v]
  BY <1>ret, <1>dom DEF Return, Idle
<1>go. ASSUME NEW w \in Workers, NEW at, Goto(w, at)
       PROVE  job'[w].at = at /\ \A v \in Workers \ {w} : job'[v] = job[v]
  BY <1>go, <1>dom, <1>rec DEF Goto
<1>1. ASSUME NEW n \in Notifs, Trigger(n) PROVE OneCollector'
  BY <1>1, SameCollectors DEF Trigger, Collector
<1>2. ASSUME NEW w \in Workers, NEW n \in Notifs, BeginTrigger(w, n) PROVE OneCollector'
  <2>1. \A v \in Workers : Collector(v)' <=> Collector(v)
    BY <1>2, <1>dom DEF BeginTrigger, Collector
  <2> QED BY <1>2, <2>1, SameCollectors DEF BeginTrigger
<1>3. ASSUME NEW w \in Workers, Push(w) PROVE OneCollector'
  <2>1. CASE Fault BY <2>1, FaultCollector
  <2>2. ASSUME list' = Append(list, job[w].n), UNCHANGED faults,
               IF OpensWindow(Len(list')) THEN Goto(w, "expire") ELSE Return(w)
        PROVE  OneCollector'
    <3>1. job[w].n \in Notifs BY <1>3, <1>job, JobFields DEF Push
    <3>2. list \in Seq(Notifs) BY DEF TypeOK
    <3>3. list' # << >> /\ (Len(list') = 1 <=> list = << >>) BY <2>2, <3>1, <3>2
    <3>4. ~Collector(w) BY <1>3 DEF Push, Collector
    <3>5. digests' = digests BY <1>3 DEF Push
    <3>6. CASE Len(list') = 1
      <4>1. Goto(w, "expire") BY <2>2, <3>6 DEF OpensWindow
      <4>2. Collector(w)' BY <4>1, <1>go DEF Collector
      <4>3. \A v \in Workers \ {w} : Collector(v)' <=> Collector(v)
        BY <4>1, <1>go DEF Collector
      <4>4. faults = 0 => digests = 0 /\ \A v \in Workers : ~Collector(v)
        BY <3>3, <3>6, <1>nat DEF OneCollector, Due
      <4> QED BY <2>2, <3>3, <3>5, <4>2, <4>3, <4>4 DEF OneCollector, Due
    <3>7. CASE Len(list') # 1
      <4>1. Return(w) BY <2>2, <3>7 DEF OpensWindow
      <4>2. \A v \in Workers : Collector(v)' <=> Collector(v)
        BY <4>1, <3>4, <1>ret DEF Collector
      <4> QED BY <2>2, <3>3, <3>5, <3>7, <4>2, SameCollectors
    <3> QED BY <3>6, <3>7
  <2> QED BY <1>3, <2>1, <2>2 DEF Push
<1>4. ASSUME NEW w \in Workers, SetExpiry(w) PROVE OneCollector'
  <2>1. CASE Fault BY <2>1, FaultCollector
  <2>2. CASE UNCHANGED faults
    <3>1. \A v \in Workers : Collector(v)' <=> Collector(v)
      BY <1>4, <1>go DEF SetExpiry, Collector
    <3> QED BY <1>4, <2>2, <3>1, SameCollectors DEF SetExpiry
  <2> QED BY <1>4, <2>1, <2>2 DEF SetExpiry
<1>5. ASSUME NEW w \in Workers, Schedule(w) PROVE OneCollector'
  <2>1. CASE Fault BY <2>1, FaultCollector
  <2>2. ASSUME digests' = digests + 1, UNCHANGED faults PROVE OneCollector'
    <3>1. Collector(w) BY <1>5 DEF Schedule, Collector
    <3>2. ~Collector(w)' /\ \A v \in Workers \ {w} : Collector(v)' <=> Collector(v)
      BY <1>5, <1>ret DEF Schedule, Collector
    <3>3. list' = list BY <1>5 DEF Schedule
    <3>4. faults = 0 => digests = 0 /\ list # << >> /\ \A v \in Workers \ {w} : ~Collector(v)
      BY <3>1 DEF OneCollector, Due
    <3> QED BY <2>2, <3>2, <3>3, <3>4 DEF OneCollector, Due
  <2> QED BY <1>5, <2>1, <2>2 DEF Schedule
<1>6. ASSUME NEW w \in Workers, BeginDigest(w) PROVE OneCollector'
  <2>1. faults = 0 => digests = 1 /\ list # << >> /\ \A v \in Workers : ~Collector(v)
    BY <1>6, <1>nat DEF BeginDigest, OneCollector, Due
  <2>2. Collector(w)' /\ \A v \in Workers \ {w} : Collector(v)' <=> Collector(v)
    BY <1>6, <1>dom DEF BeginDigest, Collector
  <2>3. digests' = digests - 1 /\ list' = list /\ faults' = faults BY <1>6 DEF BeginDigest
  <2> QED BY <2>1, <2>2, <2>3 DEF OneCollector, Due
<1>7. ASSUME NEW w \in Workers, Collect(w) PROVE OneCollector'
  <2>1. \A v \in Workers : Collector(v)' <=> Collector(v)
    BY <1>7, <1>dom, <1>rec DEF Collect, Collector
  <2> QED BY <1>7, <2>1, SameCollectors DEF Collect
<1>8. ASSUME NEW w \in Workers, Clear(w) PROVE OneCollector'
  <2>1. CASE Fault BY <2>1, FaultCollector
  <2>2. ASSUME list' = << >>, UNCHANGED faults PROVE OneCollector'
    <3>1. Collector(w) BY <1>8 DEF Clear, Collector
    <3>2. ~Collector(w)' /\ \A v \in Workers \ {w} : Collector(v)' <=> Collector(v)
      BY <1>8, <1>ret, <1>go DEF Clear, Collector
    <3>3. digests' = digests BY <1>8 DEF Clear
    <3>4. faults = 0 => digests = 0 /\ \A v \in Workers \ {w} : ~Collector(v)
      BY <3>1 DEF OneCollector
    <3> QED BY <2>2, <3>2, <3>3, <3>4 DEF OneCollector, Due
  <2> QED BY <1>8, <2>1, <2>2 DEF Clear
<1>9. ASSUME NEW w \in Workers, Resume(w) PROVE OneCollector'
  <2>1. CASE Fault BY <2>1, FaultCollector
  <2>2. CASE UNCHANGED faults
    <3>1. \A v \in Workers : Collector(v)' <=> Collector(v)
      BY <1>9, <1>ret DEF Resume, Collector
    <3> QED BY <1>9, <2>2, <3>1, SameCollectors DEF Resume
  <2> QED BY <1>9, <2>1, <2>2 DEF Resume
<1>10. ASSUME NEW w \in Workers, Redeliver(w) PROVE OneCollector'
  BY <1>10, FaultCollector DEF Redeliver
<1>11. CASE KeyExpires
  <2>1. CASE Due BY <1>11, <2>1, FaultCollector DEF KeyExpires
  <2>2. ASSUME ~Due, faults' = faults PROVE OneCollector'
    <3>1. faults # 0 BY <1>11, <2>2 DEF KeyExpires, OneCollector
    <3> QED BY <2>2, <3>1 DEF OneCollector
  <2> QED BY <1>11, <2>1, <2>2 DEF KeyExpires
<1>12. CASE UNCHANGED vars
  <2>1. \A w \in Workers : Collector(w)' <=> Collector(w) BY <1>12 DEF vars, Collector
  <2> QED BY <1>12, <2>1, SameCollectors DEF vars
<1> QED
  BY <1>1, <1>2, <1>3, <1>4, <1>5, <1>6, <1>7, <1>8, <1>9, <1>10, <1>11, <1>12
  DEF Next, Handle

\* Without faults an open window has exactly one digest task or handler to close it
\* (trigger_handler.go, enqueueDigest), however triggers and digests interleave.
THEOREM Collects == Spec => []OneCollector
<1>1. Init => TypeOK /\ OneCollector BY InitType, InitCollector
<1>2. TypeOK /\ OneCollector /\ [Next]_vars => (TypeOK /\ OneCollector)'
  BY NextType, NextCollector
<1> QED BY <1>1, <1>2, PTL DEF Spec


-----------------------------------------------------------------------------
(* Custody. Without faults a notification is in one place: its trigger     *)
(* task, the handler that pushes it, the list (and the hands of the        *)
(* handler about to delete it), the handler about to send it, or a digest; *)
(* or it has slipped between a read and a deletion of the list.            *)

Pushing(w, n) == job[w].at = "push" /\ job[w].n = n
Holding(w, n) == job[w].at \in {"clear", "resume"} /\ n \in Range(job[w].got)
Listed(n) == n \in Range(list)

InOnePlace(n) ==
  /\ triggers[n] <= 1 /\ done[n] <= 1 /\ (n \notin triggered => triggers[n] = 0)
  /\ n \notin triggered \/ triggers[n] = 1 =>
       ~Listed(n) /\ done[n] = 0 /\ \A v \in Workers : ~Pushing(v, n) /\ ~Holding(v, n)
  /\ \A w \in Workers : Pushing(w, n) =>
       ~Listed(n) /\ done[n] = 0 /\ \A v \in Workers : ~Holding(v, n) /\ (Pushing(v, n) => v = w)
  /\ Listed(n) => done[n] = 0 /\ \A v \in Workers : Holding(v, n) => job[v].at = "clear"
  /\ \A w \in Workers : Holding(w, n) =>
       done[n] = 0 /\ \A v \in Workers : Holding(v, n) => v = w
  /\ n \in triggered /\ triggers[n] = 0 /\ (\A v \in Workers : ~Pushing(v, n)) =>
       Listed(n) \/ done[n] = 1 \/ (\E v \in Workers : Holding(v, n)) \/ n \in slipped

Custody == faults = 0 => \A n \in Notifs : InOnePlace(n)

LEMMA RangeAppend ==
  ASSUME NEW S, NEW s \in Seq(S), NEW x \in S
  PROVE  Range(Append(s, x)) = Range(s) \cup {x} /\ Append(s, x) \in Seq(S)
<1>1. /\ Append(s, x) \in Seq(S) /\ Len(Append(s, x)) = Len(s) + 1 /\ Len(s) \in Nat
      /\ \A i \in 1..Len(s) : Append(s, x)[i] = s[i]
      /\ Append(s, x)[Len(s) + 1] = x
  OBVIOUS
<1>2. DOMAIN s = 1..Len(s) /\ DOMAIN Append(s, x) = 1..(Len(s) + 1)
  BY <1>1
<1> QED
  BY <1>1, <1>2 DEF Range

LEMMA RangeEmpty == Range(<< >>) = {}
  BY DEF Range

LEMMA RangeType == ASSUME NEW S, NEW s \in Seq(S) PROVE Range(s) \subseteq S
  BY DEF Range

LEMMA FaultCustody == ASSUME TypeOK, Fault PROVE Custody'
<1>1. faults \in Nat /\ faults' = faults + 1 BY DEF TypeOK, Fault
<1> QED BY <1>1 DEF Custody

\* A step that moves nothing.
LEMMA SameCustody ==
  ASSUME Custody, UNCHANGED <<triggered, triggers, list, done, slipped, faults>>,
         \A v \in Workers, n \in Notifs :
           /\ Pushing(v, n)' <=> Pushing(v, n)
           /\ Holding(v, n)' <=> Holding(v, n)
           /\ Holding(v, n) /\ job[v].at = "clear" => job'[v].at = "clear"
  PROVE  Custody'
<1> SUFFICES ASSUME faults = 0, NEW n \in Notifs PROVE InOnePlace(n)' BY DEF Custody
<1>1. InOnePlace(n) BY DEF Custody
<1>2. Listed(n)' = Listed(n) BY DEF Listed
<1> QED BY <1>1, <1>2 DEF InOnePlace

LEMMA InitCustody == Init => Custody
<1> SUFFICES ASSUME Init, NEW n \in Notifs PROVE InOnePlace(n) BY DEF Custody
<1>1. \A v \in Workers : ~Pushing(v, n) /\ ~Holding(v, n) BY DEF Init, Idle, Pushing, Holding
<1>2. ~Listed(n) BY RangeEmpty DEF Init, Listed
<1> QED BY <1>1, <1>2 DEF Init, InOnePlace

\* What a worker's step does to its own place and to the others'.
LEMMA Places ==
  ASSUME TypeOK, NEW w \in Workers, NEW j \in Job, job' = [job EXCEPT ![w] = j]
  PROVE  /\ job'[w] = j
         /\ \A v \in Workers \ {w}, n \in Notifs :
              /\ Pushing(v, n)' <=> Pushing(v, n)
              /\ Holding(v, n)' <=> Holding(v, n)
              /\ job'[v] = job[v]
<1>1. job'[w] = j /\ \A v \in Workers \ {w} : job'[v] = job[v] BY DEF TypeOK
<1> QED BY <1>1 DEF Pushing, Holding

LEMMA MovedJob ==
  ASSUME TypeOK, NEW w \in Workers, NEW at, Goto(w, at)
  PROVE  /\ job' = [job EXCEPT ![w] = [at |-> at, n |-> job[w].n, got |-> job[w].got]]
         /\ job'[w].at = at /\ job'[w].n = job[w].n /\ job'[w].got = job[w].got
         /\ \A v \in Workers \ {w}, n \in Notifs :
              /\ Pushing(v, n)' <=> Pushing(v, n)
              /\ Holding(v, n)' <=> Holding(v, n)
              /\ job'[v] = job[v]
<1>1. job[w] \in Job /\ DOMAIN job = Workers BY DEF TypeOK, Job
<1>2. job[w] = [at |-> job[w].at, n |-> job[w].n, got |-> job[w].got] BY <1>1, JobFields
<1>3. [job[w] EXCEPT !.at = at] = [at |-> at, n |-> job[w].n, got |-> job[w].got] BY <1>2
<1>4. job' = [job EXCEPT ![w] = [at |-> at, n |-> job[w].n, got |-> job[w].got]]
  BY <1>3 DEF Goto
<1>5. job'[w] = [at |-> at, n |-> job[w].n, got |-> job[w].got]
      /\ \A v \in Workers \ {w} : job'[v] = job[v]
  BY <1>1, <1>4
<1> QED BY <1>4, <1>5 DEF Pushing, Holding

LEMMA ReturnedJob ==
  ASSUME TypeOK, NEW w \in Workers, Return(w)
  PROVE  /\ job'[w] = Idle /\ \A n \in Notifs : ~Pushing(w, n)' /\ ~Holding(w, n)'
         /\ \A v \in Workers \ {w}, n \in Notifs :
              /\ Pushing(v, n)' <=> Pushing(v, n)
              /\ Holding(v, n)' <=> Holding(v, n)
              /\ job'[v] = job[v]
<1>1. job'[w] = Idle /\ \A v \in Workers \ {w} : job'[v] = job[v] BY DEF TypeOK, Return
<1> QED BY <1>1 DEF Pushing, Holding, Idle

LEMMA PushCustody ==
  ASSUME TypeOK, Custody, NEW w \in Workers, Push(w)
  PROVE  Custody'
<1>1. CASE Fault BY <1>1, FaultCustody
<1>2. ASSUME list' = Append(list, job[w].n), UNCHANGED faults, Goto(w, "expire") \/ Return(w)
      PROVE  Custody'
  <2> SUFFICES ASSUME faults = 0, NEW n \in Notifs PROVE InOnePlace(n)' BY <1>2 DEF Custody
  <2>1. InOnePlace(n) BY DEF Custody
  <2>2. UNCHANGED <<triggered, triggers, done, slipped>> /\ job[w].at = "push" BY DEF Push
  <2>3. /\ ~Pushing(w, n)' /\ ~Holding(w, n)' /\ ~Holding(w, n)
        /\ \A v \in Workers \ {w} : /\ Pushing(v, n)' <=> Pushing(v, n)
                                    /\ Holding(v, n)' <=> Holding(v, n)
                                    /\ job'[v] = job[v]
    <3>1. ~Holding(w, n) BY <2>2 DEF Holding
    <3>2. CASE Return(w) BY <3>1, <3>2, ReturnedJob
    <3>3. CASE Goto(w, "expire")
      <4>1. job'[w].at = "expire" BY <3>3, MovedJob
      <4> QED BY <3>1, <3>3, <4>1, MovedJob DEF Pushing, Holding
    <3> QED BY <1>2, <3>2, <3>3
  <2>4. job[w].n \in Notifs BY <2>2, JobFields DEF TypeOK, Job
  <2>5. Listed(n)' <=> Listed(n) \/ job[w].n = n BY <1>2, <2>4, RangeAppend DEF Listed, TypeOK
  <2>6. Pushing(w, n) <=> job[w].n = n BY <2>2 DEF Pushing
  <2>7. CASE job[w].n = n BY <2>1, <2>2, <2>3, <2>5, <2>6, <2>7 DEF InOnePlace
  <2>8. CASE job[w].n # n BY <2>1, <2>2, <2>3, <2>5, <2>6, <2>8 DEF InOnePlace
  <2> QED BY <2>7, <2>8
<1> QED BY <1>1, <1>2 DEF Push

LEMMA CollectCustody ==
  ASSUME TypeOK, OneCollector, Custody, NEW w \in Workers, Collect(w)
  PROVE  Custody'
<1> SUFFICES ASSUME faults = 0, NEW n \in Notifs PROVE InOnePlace(n)' BY DEF Custody, Collect
<1>1. InOnePlace(n) BY DEF Custody
<1>2. /\ UNCHANGED <<triggered, triggers, list, done, slipped>> /\ job[w].at = "collect"
  BY DEF Collect
<1>3. /\ job'[w].at = "clear" /\ job'[w].got = list
      /\ \A v \in Workers \ {w} : job'[v] = job[v]
  <2>1. job[w] \in Job /\ DOMAIN job = Workers BY DEF TypeOK, Job
  <2>2. job[w] = [at |-> job[w].at, n |-> job[w].n, got |-> job[w].got] BY <2>1, JobFields
  <2>3. DOMAIN job[w] = {"at", "n", "got"} BY <2>2
  <2> QED BY <2>1, <2>3 DEF Collect
<1>4. /\ ~Pushing(w, n) /\ ~Pushing(w, n)' /\ ~Holding(w, n) /\ (Holding(w, n)' <=> Listed(n))
      /\ \A v \in Workers \ {w} : /\ Pushing(v, n)' <=> Pushing(v, n)
                                  /\ Holding(v, n)' <=> Holding(v, n)
  BY <1>2, <1>3 DEF Pushing, Holding, Listed
<1>5. \A v \in Workers \ {w} : job[v].at # "clear"
  BY <1>2 DEF OneCollector, Collector
<1>6. Listed(n)' = Listed(n) BY <1>2 DEF Listed
<1>7. Listed(n) => \A v \in Workers : ~Holding(v, n) BY <1>1, <1>4, <1>5 DEF InOnePlace
<1>8. CASE Listed(n) BY <1>1, <1>2, <1>3, <1>4, <1>6, <1>7, <1>8 DEF InOnePlace
<1>9. CASE ~Listed(n) BY <1>1, <1>2, <1>3, <1>4, <1>6, <1>9 DEF InOnePlace
<1> QED BY <1>8, <1>9

LEMMA ClearCustody ==
  ASSUME TypeOK, OneCollector, Custody, NEW w \in Workers, Clear(w)
  PROVE  Custody'
<1>1. CASE Fault BY <1>1, FaultCustody
<1>2. ASSUME list' = << >>, slipped' = slipped \cup (Range(list) \ Range(job[w].got)),
             UNCHANGED faults
      PROVE  Custody'
  <2> SUFFICES ASSUME faults = 0, NEW n \in Notifs PROVE InOnePlace(n)' BY <1>2 DEF Custody
  <2>1. InOnePlace(n) BY DEF Custody
  <2>2. UNCHANGED <<triggered, triggers, done>> /\ job[w].at = "clear" BY DEF Clear
  <2>3. /\ ~Pushing(w, n)' /\ (Holding(w, n)' <=> Holding(w, n)) /\ ~Pushing(w, n)
        /\ \A v \in Workers \ {w} : /\ Pushing(v, n)' <=> Pushing(v, n)
                                    /\ Holding(v, n)' <=> Holding(v, n)
    <3>1. CASE job[w].got = << >>
      <4>1. Return(w) BY <3>1 DEF Clear
      <4>2. ~Holding(w, n) BY <3>1, RangeEmpty DEF Holding
      <4> QED BY <2>2, <4>1, <4>2, ReturnedJob DEF Pushing
    <3>2. CASE job[w].got # << >>
      <4>1. Goto(w, "resume") BY <3>2 DEF Clear
      <4>2. job'[w].at = "resume" /\ job'[w].got = job[w].got BY <4>1, MovedJob
      <4> QED BY <2>2, <4>1, <4>2, MovedJob DEF Pushing, Holding
    <3> QED BY <3>1, <3>2
  <2>4. ~Listed(n)' BY <1>2, RangeEmpty DEF Listed
  <2>5. Listed(n) => Holding(w, n) \/ n \in slipped' BY <1>2, <2>2 DEF Listed, Holding
  <2>6. n \in slipped => n \in slipped' BY <1>2
  <2> QED BY <2>1, <2>2, <2>3, <2>4, <2>5, <2>6 DEF InOnePlace
<1> QED BY <1>1, <1>2 DEF Clear

LEMMA ResumeCustody ==
  ASSUME TypeOK, Custody, NEW w \in Workers, Resume(w)
  PROVE  Custody'
<1>1. CASE Fault BY <1>1, FaultCustody
<1>2. ASSUME done' = [n \in Notifs |-> IF n \in Range(job[w].got) THEN done[n] + 1 ELSE done[n]],
             UNCHANGED faults
      PROVE  Custody'
  <2> SUFFICES ASSUME faults = 0, NEW n \in Notifs PROVE InOnePlace(n)' BY <1>2 DEF Custody
  <2>1. InOnePlace(n) BY DEF Custody
  <2>2. UNCHANGED <<triggered, triggers, list, slipped>> /\ job[w].at = "resume" /\ Return(w)
    BY DEF Resume
  <2>3. /\ ~Pushing(w, n)' /\ ~Holding(w, n)' /\ ~Pushing(w, n)
        /\ \A v \in Workers \ {w} : /\ Pushing(v, n)' <=> Pushing(v, n)
                                    /\ Holding(v, n)' <=> Holding(v, n)
                                    /\ job'[v] = job[v]
    BY <2>2, ReturnedJob DEF Pushing
  <2>4. Listed(n)' = Listed(n) BY <2>2 DEF Listed
  <2>5. Holding(w, n) <=> n \in Range(job[w].got) BY <2>2 DEF Holding
  <2>6. done'[n] = IF Holding(w, n) THEN done[n] + 1 ELSE done[n] BY <1>2, <2>5
  <2>7. CASE Holding(w, n)
    <3>1. done[n] = 0 /\ ~Listed(n) /\ \A v \in Workers \ {w} : ~Holding(v, n)
      BY <2>1, <2>2, <2>7 DEF InOnePlace
    <3>2. triggers[n] # 1 /\ n \in triggered /\ \A v \in Workers : ~Pushing(v, n)
      BY <2>1, <2>7 DEF InOnePlace
    <3> QED BY <2>1, <2>2, <2>3, <2>4, <2>6, <2>7, <3>1, <3>2 DEF InOnePlace
  <2>8. CASE ~Holding(w, n) BY <2>1, <2>2, <2>3, <2>4, <2>6, <2>8 DEF InOnePlace
  <2> QED BY <2>7, <2>8
<1> QED BY <1>1, <1>2 DEF Resume

LEMMA TriggerCustody ==
  ASSUME TypeOK, Custody, NEW m \in Notifs, Trigger(m)
  PROVE  Custody'
<1> SUFFICES ASSUME faults = 0, NEW n \in Notifs PROVE InOnePlace(n)' BY DEF Custody, Trigger
<1>1. InOnePlace(n) BY DEF Custody
<1>2. /\ UNCHANGED <<list, job, done, slipped>> /\ m \notin triggered
      /\ triggered' = triggered \cup {m} /\ triggers \in [Notifs -> Nat]
      /\ triggers' = [triggers EXCEPT ![m] = triggers[m] + 1]
  BY DEF Trigger, TypeOK
<1>3. Listed(n)' = Listed(n) /\ \A v \in Workers : /\ Pushing(v, n)' <=> Pushing(v, n)
                                                   /\ Holding(v, n)' <=> Holding(v, n)
  BY <1>2 DEF Listed, Pushing, Holding
<1>4. CASE n = m BY <1>1, <1>2, <1>3, <1>4 DEF InOnePlace
<1>5. CASE n # m BY <1>1, <1>2, <1>3, <1>5 DEF InOnePlace
<1> QED BY <1>4, <1>5

LEMMA BeginTriggerCustody ==
  ASSUME TypeOK, Custody, NEW w \in Workers, NEW m \in Notifs, BeginTrigger(w, m)
  PROVE  Custody'
<1> SUFFICES ASSUME faults = 0, NEW n \in Notifs PROVE InOnePlace(n)'
  BY DEF Custody, BeginTrigger
<1>1. InOnePlace(n) BY DEF Custody
<1> DEFINE j == [at |-> "push", n |-> m, got |-> << >>]
<1>2. /\ UNCHANGED <<list, triggered, done, slipped>> /\ job[w].at = "idle" /\ triggers[m] > 0
      /\ triggers \in [Notifs -> Nat] /\ triggers' = [triggers EXCEPT ![m] = triggers[m] - 1]
      /\ job' = [job EXCEPT ![w] = j]
  BY DEF BeginTrigger, TypeOK
<1>3. j \in Job /\ j.at = "push" /\ j.n = m BY TriggerJobOK
<1> HIDE DEF j
<1>4. job'[w] = j /\ \A v \in Workers \ {w} : /\ Pushing(v, n)' <=> Pushing(v, n)
                                              /\ Holding(v, n)' <=> Holding(v, n)
                                              /\ job'[v] = job[v]
  BY <1>2, <1>3, Places
<1>5. /\ ~Pushing(w, n) /\ ~Holding(w, n) /\ ~Holding(w, n)' /\ (Pushing(w, n)' <=> n = m)
  BY <1>2, <1>3, <1>4 DEF Pushing, Holding
<1>6. Listed(n)' = Listed(n) BY <1>2 DEF Listed
<1>7. CASE n = m
  <2>1. triggers[n] = 1 /\ triggers'[n] = 0 BY <1>1, <1>2, <1>7 DEF InOnePlace
  <2> QED BY <1>1, <1>2, <1>4, <1>5, <1>6, <1>7, <2>1 DEF InOnePlace
<1>8. CASE n # m
  <2>1. triggers'[n] = triggers[n] BY <1>2, <1>8
  <2> QED BY <1>1, <1>2, <1>4, <1>5, <1>6, <1>8, <2>1 DEF InOnePlace
<1> QED BY <1>7, <1>8

LEMMA OtherCustody ==
  ASSUME TypeOK, Custody, NEW w \in Workers, SetExpiry(w) \/ Schedule(w) \/ BeginDigest(w)
  PROVE  Custody'
<1>1. CASE Fault BY <1>1, FaultCustody
<1>2. ASSUME ~Fault PROVE Custody'
  <2>1. UNCHANGED <<triggered, triggers, list, done, slipped, faults>>
        /\ job[w].at \in {"expire", "schedule", "idle"}
    BY <1>2 DEF SetExpiry, Schedule, BeginDigest
  <2>2. \A n \in Notifs : ~Pushing(w, n) /\ ~Holding(w, n) BY <2>1 DEF Pushing, Holding
  <2>3. /\ \A n \in Notifs : ~Pushing(w, n)' /\ ~Holding(w, n)'
        /\ \A v \in Workers \ {w}, n \in Notifs : /\ Pushing(v, n)' <=> Pushing(v, n)
                                                  /\ Holding(v, n)' <=> Holding(v, n)
                                                  /\ job'[v] = job[v]
    <3>1. CASE SetExpiry(w)
      <4>1. Goto(w, "schedule") BY <3>1 DEF SetExpiry
      <4>2. job'[w].at = "schedule" BY <4>1, MovedJob
      <4> QED BY <4>1, <4>2, MovedJob DEF Pushing, Holding
    <3>2. CASE Schedule(w)
      <4>1. Return(w) BY <3>2 DEF Schedule
      <4> QED BY <4>1, ReturnedJob
    <3>3. CASE BeginDigest(w)
      <4> DEFINE j == [at |-> "collect", n |-> None, got |-> << >>]
      <4>1. job' = [job EXCEPT ![w] = j] BY <3>3 DEF BeginDigest
      <4>2. << >> \in Seq(Notifs) OBVIOUS
      <4>3. j \in Job /\ j.at = "collect" BY <4>2, DigestJobOK
      <4> HIDE DEF j
      <4>4. /\ job'[w] = j
            /\ \A v \in Workers \ {w}, n \in Notifs :
                 /\ Pushing(v, n)' <=> Pushing(v, n)
                 /\ Holding(v, n)' <=> Holding(v, n)
                 /\ job'[v] = job[v]
        BY <4>1, <4>3, Places
      <4>5. \A n \in Notifs : ~Pushing(w, n)' /\ ~Holding(w, n)'
        <5>1. job'[w].at = "collect" BY <4>3, <4>4
        <5> QED BY <5>1 DEF Pushing, Holding
      <4> QED BY <4>4, <4>5
    <3> QED BY <3>1, <3>2, <3>3
  <2> QED BY <2>1, <2>2, <2>3, SameCustody
<1> QED BY <1>1, <1>2

LEMMA NextCustody ==
  ASSUME TypeOK, OneCollector, Custody, [Next]_vars
  PROVE  Custody'
<1>1. CASE UNCHANGED vars
  BY <1>1, SameCustody DEF vars, Pushing, Holding
<1>2. ASSUME NEW w \in Workers, Redeliver(w) PROVE Custody'
  BY <1>2, FaultCustody DEF Redeliver
<1>3. CASE KeyExpires
  <2>1. CASE Due BY <1>3, <2>1, FaultCustody DEF KeyExpires
  <2>2. CASE ~Due BY <1>3, <2>2 DEF KeyExpires, OneCollector, Custody
  <2> QED BY <2>1, <2>2
<1> QED
  BY <1>1, <1>2, <1>3, TriggerCustody, BeginTriggerCustody, PushCustody, OtherCustody,
     CollectCustody, ClearCustody, ResumeCustody
  DEF Next, Handle

LEMMA CustodyKept == Spec => [](TypeOK /\ OneCollector /\ Custody)
<1>1. Init => TypeOK /\ OneCollector /\ Custody BY InitType, InitCollector, InitCustody
<1>2. TypeOK /\ OneCollector /\ Custody /\ [Next]_vars => (TypeOK /\ OneCollector /\ Custody)'
  BY NextType, NextCollector, NextCustody
<1> QED BY <1>1, <1>2, PTL DEF Spec

\* A notification in one place is in one digest.
LEMMA Once == TypeOK /\ Custody => DigestedOnce
<1> SUFFICES ASSUME TypeOK, Custody, faults = 0, NEW n \in Notifs
             PROVE  done[n] + Cardinality(Holders(n)) <= 1
  BY DEF DigestedOnce
<1>1. InOnePlace(n) /\ done[n] \in Nat BY DEF Custody, TypeOK
<1>2. Holders(n) = {w \in Workers : Holding(w, n)} BY DEF Holders, Holding
<1>3. CASE Holders(n) = {} BY <1>1, <1>3, FS_EmptySet DEF InOnePlace
<1>4. ASSUME NEW w \in Holders(n) PROVE done[n] + Cardinality(Holders(n)) <= 1
  <2>1. Holders(n) = {w} /\ done[n] = 0 BY <1>1, <1>2, <1>4 DEF InOnePlace
  <2>2. Cardinality({w}) = 1 BY FS_Singleton
  <2> QED BY <2>1, <2>2
<1> QED BY <1>3, <1>4

\* What is nowhere else has slipped.
LEMMA Accounted == TypeOK /\ Custody => AccountedFor
<1> SUFFICES ASSUME TypeOK, Custody, faults = 0, NEW n \in Notifs, Pushed(n)
             PROVE  n \in Range(list) \/ done[n] = 1 \/ Holders(n) # {} \/ n \in slipped
  BY DEF AccountedFor
<1>1. InOnePlace(n) BY DEF Custody
<1>2. \A v \in Workers : ~Pushing(v, n) BY DEF Pushed, Pushing
<1> QED BY <1>1, <1>2 DEF InOnePlace, Pushed, Listed, Holders, Holding

\* Without faults no notification is in two digests, and only the gap between the
\* handler's read and its deletion of the list loses one (digest_handler.go:45-49),
\* however pushes, reads and deletions interleave.
THEOREM EachOnce == Spec => []EachDigestedOnce
<1>1. TypeOK /\ Custody => EachDigestedOnce BY Once, Accounted DEF EachDigestedOnce
<1> QED BY <1>1, CustodyKept, PTL
-----------------------------------------------------------------------------
(* Digest. Without faults the handler about to delete the list has read    *)
(* some of it and no more than it, and what slipped does not come back: so *)
(* the deletion is the close of the window, a push a join, and nothing     *)
(* else is seen.                                                           *)

Reads(w) == job[w].at = "clear" => job[w].got # << >> /\ Range(job[w].got) \subseteq Range(list)

Gone(n) ==
  /\ n \in triggered /\ triggers[n] = 0 /\ ~Listed(n)
  /\ \A w \in Workers : ~Pushing(w, n)

Slips == faults = 0 => (\A w \in Workers : Reads(w)) /\ (\A n \in slipped : Gone(n))

LEMMA RangeSome ==
  ASSUME NEW S, NEW s \in Seq(S)
  PROVE  s = << >> <=> Range(s) = {}
<1>1. Len(s) \in Nat /\ DOMAIN s = 1..Len(s) OBVIOUS
<1>2. CASE Len(s) = 0
  <2>1. s = << >> BY <1>2
  <2> QED BY <2>1, RangeEmpty
<1>3. CASE Len(s) > 0
  <2>1. s # << >> /\ 1 \in DOMAIN s BY <1>1, <1>3
  <2>2. s[1] \in Range(s) BY <2>1 DEF Range
  <2> QED BY <2>1, <2>2
<1> QED BY <1>1, <1>2, <1>3

LEMMA InitSlips == Init => Slips
BY DEF Init, Slips, Reads, Idle

\* A step that leaves the list, the pushes and what slipped alone.
LEMMA SameSlips ==
  ASSUME TypeOK, Slips, UNCHANGED <<triggered, triggers, list, slipped, faults>>,
         \A v \in Workers, n \in Notifs : Pushing(v, n)' => Pushing(v, n),
         \A v \in Workers : Reads(v) => Reads(v)'
  PROVE  Slips'
BY DEF Slips, Gone, Listed, TypeOK

LEMMA FaultSlips == ASSUME TypeOK, Fault PROVE Slips'
<1>1. faults \in Nat /\ faults' = faults + 1 BY DEF TypeOK, Fault
<1> QED BY <1>1 DEF Slips

LEMMA TriggerSlips ==
  ASSUME TypeOK, Slips, NEW m \in Notifs, Trigger(m) \/ \E w \in Workers : BeginTrigger(w, m)
  PROVE  Slips'
<1> SUFFICES ASSUME faults = 0 PROVE (\A w \in Workers : Reads(w)') /\ (\A n \in slipped : Gone(n)')
  BY DEF Slips, Trigger, BeginTrigger
<1>1. (\A w \in Workers : Reads(w)) /\ (\A n \in slipped : Gone(n) /\ n \in Notifs)
  BY DEF Slips, TypeOK
<1>2. CASE Trigger(m)
  <2>1. UNCHANGED <<list, job>> /\ m \notin triggered /\ triggered \subseteq triggered'
        /\ triggers' = [triggers EXCEPT ![m] = triggers[m] + 1] /\ triggers \in [Notifs -> Nat]
    BY <1>2 DEF Trigger, TypeOK
  <2> QED BY <1>1, <2>1 DEF Gone, Reads, Listed, Pushing
<1>3. ASSUME NEW w \in Workers, BeginTrigger(w, m)
      PROVE  (\A v \in Workers : Reads(v)') /\ (\A n \in slipped : Gone(n)')
  <2>1. /\ UNCHANGED <<list, triggered>> /\ triggers[m] > 0 /\ triggers \in [Notifs -> Nat]
        /\ triggers' = [triggers EXCEPT ![m] = triggers[m] - 1]
        /\ job'[w].at = "push" /\ job'[w].n = m /\ \A v \in Workers \ {w} : job'[v] = job[v]
    BY <1>3 DEF BeginTrigger, TypeOK
  <2> QED BY <1>1, <2>1 DEF Gone, Reads, Listed, Pushing
<1> QED BY <1>2, <1>3

LEMMA PushSlips ==
  ASSUME TypeOK, Slips, NEW w \in Workers, Push(w)
  PROVE  Slips'
<1>1. CASE Fault BY <1>1, FaultSlips
<1>2. ASSUME list' = Append(list, job[w].n), UNCHANGED faults, Goto(w, "expire") \/ Return(w)
      PROVE  Slips'
  <2> SUFFICES ASSUME faults = 0 PROVE (\A v \in Workers : Reads(v)') /\ (\A n \in slipped : Gone(n)')
    BY <1>2 DEF Slips, Push
  <2>1. (\A v \in Workers : Reads(v)) /\ (\A n \in slipped : Gone(n) /\ n \in Notifs)
    BY DEF Slips, TypeOK
  <2>2. UNCHANGED <<triggered, triggers>> /\ job[w].at = "push" BY DEF Push
  <2>3. job'[w].at # "clear" /\ job'[w].at # "push" /\ \A v \in Workers \ {w} : job'[v] = job[v]
    <3>1. CASE Return(w) BY <3>1, ReturnedJob DEF Idle, TypeOK, Return
    <3>2. CASE Goto(w, "expire") BY <3>2, MovedJob DEF Goto, TypeOK
    <3> QED BY <1>2, <3>1, <3>2
  <2>4. job[w].n \in Notifs BY <2>2, JobFields DEF TypeOK, Job
  <2>5. Range(list') = Range(list) \cup {job[w].n} BY <1>2, <2>4, RangeAppend DEF TypeOK
  <2>6. Pushing(w, job[w].n) BY <2>2 DEF Pushing
  <2> QED BY <2>1, <2>2, <2>3, <2>4, <2>5, <2>6 DEF Reads, Gone, Listed, Pushing
<1> QED BY <1>1, <1>2 DEF Push

LEMMA CollectSlips ==
  ASSUME TypeOK, OneCollector, Slips, NEW w \in Workers, Collect(w)
  PROVE  Slips'
<1> SUFFICES ASSUME faults = 0 PROVE (\A v \in Workers : Reads(v)') /\ (\A n \in slipped : Gone(n)')
  BY DEF Slips, Collect
<1>1. (\A v \in Workers : Reads(v)) /\ (\A n \in slipped : Gone(n)) BY DEF Slips
<1>2. UNCHANGED <<triggered, triggers, list, slipped>> /\ job[w].at = "collect" BY DEF Collect
<1>3. list # << >> BY <1>2 DEF OneCollector, Due, Collector
<1>4. job'[w].at = "clear" /\ job'[w].got = list /\ \A v \in Workers \ {w} : job'[v] = job[v]
  <2>1. job[w] \in Job /\ DOMAIN job = Workers BY DEF TypeOK, Job
  <2>2. job[w] = [at |-> job[w].at, n |-> job[w].n, got |-> job[w].got] BY <2>1, JobFields
  <2>3. DOMAIN job[w] = {"at", "n", "got"} BY <2>2
  <2> QED BY <2>1, <2>3 DEF Collect
<1> QED BY <1>1, <1>2, <1>3, <1>4 DEF Reads, Gone, Listed, Pushing

LEMMA ClearSlips ==
  ASSUME TypeOK, OneCollector, Custody, Slips, NEW w \in Workers, Clear(w)
  PROVE  Slips'
<1>1. CASE Fault BY <1>1, FaultSlips
<1>2. ASSUME list' = << >>, slipped' = slipped \cup (Range(list) \ Range(job[w].got)), UNCHANGED faults
      PROVE  Slips'
  <2> SUFFICES ASSUME faults = 0 PROVE (\A v \in Workers : Reads(v)') /\ (\A n \in slipped' : Gone(n)')
    BY <1>2 DEF Slips
  <2>1. (\A v \in Workers : Reads(v)) /\ (\A n \in slipped : Gone(n)) BY DEF Slips
  <2>2. UNCHANGED <<triggered, triggers>> /\ job[w].at = "clear" BY DEF Clear
  <2>3. \A v \in Workers : job[v].at = "clear" => v = w BY <2>2 DEF OneCollector, Collector
  <2>4. /\ job'[w].at \notin {"clear", "push"}
        /\ \A v \in Workers \ {w} : job'[v] = job[v]
    <3>1. CASE Return(w) BY <3>1, ReturnedJob DEF Idle, TypeOK, Return
    <3>2. CASE Goto(w, "resume") BY <3>2, MovedJob DEF Goto, TypeOK
    <3> QED BY <3>1, <3>2 DEF Clear
  <2>5. Range(list) \subseteq Notifs BY RangeType DEF TypeOK
  <2>6. ASSUME NEW n \in Range(list) PROVE n \in triggered /\ triggers[n] = 0 /\ \A v \in Workers : ~Pushing(v, n)
    <3>1. InOnePlace(n) /\ Listed(n) /\ triggers[n] \in Nat BY <2>5 DEF Custody, Listed, TypeOK
    <3> QED BY <3>1 DEF InOnePlace
  <2>7. Range(list') = {} BY <1>2, RangeEmpty
  <2>8. \A v \in Workers : Reads(v)' BY <2>3, <2>4 DEF Reads
  <2>9. \A n \in slipped' : n \in triggered /\ triggers[n] = 0 /\ \A v \in Workers : ~Pushing(v, n)
    BY <1>2, <2>1, <2>6 DEF Gone
  <2> QED BY <2>2, <2>4, <2>7, <2>8, <2>9 DEF Gone, Listed, Pushing
<1> QED BY <1>1, <1>2 DEF Clear

LEMMA OtherSlips ==
  ASSUME TypeOK, Slips, NEW w \in Workers, SetExpiry(w) \/ Schedule(w) \/ BeginDigest(w) \/ Resume(w)
  PROVE  Slips'
<1>1. CASE Fault BY <1>1, FaultSlips
<1>2. ASSUME ~Fault PROVE Slips'
  <2>1. UNCHANGED <<triggered, triggers, list, slipped, faults>>
    BY <1>2 DEF SetExpiry, Schedule, BeginDigest, Resume
  <2>2. job'[w].at \notin {"clear", "push"} /\ \A v \in Workers \ {w} : job'[v] = job[v]
    <3>1. CASE SetExpiry(w) BY <3>1, MovedJob DEF SetExpiry, Goto, TypeOK
    <3>2. CASE Schedule(w) \/ Resume(w) BY <3>2, ReturnedJob DEF Schedule, Resume, Idle, TypeOK, Return
    <3>3. CASE BeginDigest(w) BY <3>3 DEF BeginDigest, TypeOK
    <3> QED BY <3>1, <3>2, <3>3
  <2> QED BY <2>1, <2>2, SameSlips DEF Pushing, Reads
<1> QED BY <1>1, <1>2

LEMMA NextSlips ==
  ASSUME TypeOK, OneCollector, Custody, Slips, [Next]_vars
  PROVE  Slips'
<1>1. CASE UNCHANGED vars BY <1>1, SameSlips DEF vars, Pushing, Reads
<1>2. ASSUME NEW w \in Workers, Redeliver(w) PROVE Slips' BY <1>2, FaultSlips DEF Redeliver
<1>3. CASE KeyExpires
  <2>1. CASE Due BY <1>3, <2>1, FaultSlips DEF KeyExpires
  <2>2. CASE ~Due BY <1>3, <2>2 DEF KeyExpires, OneCollector, Slips
  <2> QED BY <2>1, <2>2
<1> QED
  BY <1>1, <1>2, <1>3, TriggerSlips, PushSlips, CollectSlips, ClearSlips, OtherSlips DEF Next, Handle

-----------------------------------------------------------------------------
(* The steps of the abstract window.                                       *)

Sending(w, n) == job[w].at = "resume" /\ n \in Range(job[w].got)

LEMMA DigestedSame ==
  ASSUME UNCHANGED done, \A w \in Workers, n \in Notifs : Sending(w, n)' <=> Sending(w, n)
  PROVE  Digested' = Digested
<1>1. \A n \in Notifs : n \in Digested' <=> n \in Digested BY DEF Digested, Sending
<1> QED BY <1>1 DEF Digested

LEMMA DigestInit == Init => D!Init
<1> SUFFICES ASSUME Init PROVE D!Init OBVIOUS
<1>1. Range(list) = {} /\ slipped = {} BY RangeEmpty DEF Init
<1>2. Digested = {} BY DEF Init, Digested, Idle
<1> QED BY <1>1, <1>2 DEF D!Init

LEMMA PushJoins ==
  ASSUME TypeOK, Custody, Slips, faults' = 0, NEW w \in Workers, Push(w)
  PROVE  D!Next
<1>1. ~Fault /\ faults = 0 BY DEF Push, Fault, TypeOK
<1>2. /\ list' = Append(list, job[w].n) /\ (Goto(w, "expire") \/ Return(w))
      /\ job[w].at = "push" /\ UNCHANGED <<done, slipped>>
  BY <1>1 DEF Push
<1> DEFINE n == job[w].n
<1>3. n \in Notifs /\ Pushing(w, n) BY <1>2, JobFields DEF TypeOK, Job, Pushing
<1>4. InOnePlace(n) /\ triggers[n] \in Nat BY <1>1, <1>3 DEF Custody, TypeOK
<1>5. n \notin Range(list)
  BY <1>3, <1>4 DEF InOnePlace, Listed
<1>6. n \notin Digested
  <2>1. done[n] = 0 /\ \A v \in Workers : ~Holding(v, n) BY <1>3, <1>4 DEF InOnePlace
  <2> QED BY <2>1 DEF Digested, Holding
<1>7. n \notin slipped BY <1>1, <1>3 DEF Slips, Gone
<1>8. Range(list') = Range(list) \cup {n} BY <1>2, <1>3, RangeAppend DEF TypeOK
<1>9. Digested' = Digested
  <2>1. job'[w].at # "resume" /\ \A v \in Workers \ {w} : job'[v] = job[v]
    <3>1. CASE Return(w) BY <3>1, ReturnedJob DEF Idle, TypeOK, Return
    <3>2. CASE Goto(w, "expire") BY <3>2, MovedJob DEF Goto, TypeOK
    <3> QED BY <1>2, <3>1, <3>2
  <2> QED BY <1>2, <2>1, DigestedSame DEF Sending
<1>10. D!Join(n) BY <1>2, <1>5, <1>6, <1>7, <1>8, <1>9 DEF D!Join
<1> QED BY <1>3, <1>10 DEF D!Next

LEMMA ClearCloses ==
  ASSUME TypeOK, OneCollector, Slips, faults' = 0, NEW w \in Workers, Clear(w)
  PROVE  D!Next
<1>1. ~Fault /\ faults = 0 BY DEF Clear, Fault, TypeOK
<1> DEFINE read == Range(job[w].got)
<1>2. /\ list' = << >> /\ slipped' = slipped \cup (Range(list) \ read)
      /\ job[w].at = "clear" /\ UNCHANGED done
  BY <1>1 DEF Clear
<1>3. job[w].got # << >> /\ read \subseteq Range(list) BY <1>1, <1>2 DEF Slips, Reads
<1>4. job[w].got \in Seq(Notifs) BY JobFields DEF TypeOK, Job
<1>5. read # {} /\ read \subseteq Notifs BY <1>3, <1>4, RangeSome, RangeType
<1>6. Goto(w, "resume") BY <1>3 DEF Clear
<1>7. /\ job'[w].at = "resume" /\ job'[w].got = job[w].got
      /\ \A v \in Workers \ {w} : job'[v] = job[v]
  BY <1>6, MovedJob DEF Goto, TypeOK
<1>8. Digested' = Digested \cup read
  <2>1. \A n \in Notifs : n \in Digested' <=> n \in Digested \/ n \in read
    BY <1>2, <1>7 DEF Digested
  <2> QED BY <1>5, <2>1 DEF Digested
<1>9. Range(list') = {} BY <1>2, RangeEmpty
<1> HIDE DEF read
<1>10. D!Close(read) BY <1>2, <1>3, <1>5, <1>8, <1>9 DEF D!Close
<1> QED BY <1>5, <1>10 DEF D!Next

LEMMA ResumeStutters ==
  ASSUME TypeOK, faults' = 0, NEW w \in Workers, Resume(w)
  PROVE  UNCHANGED D!vars
<1>1. ~Fault BY DEF Resume, Fault, TypeOK
<1>2. /\ done' = [n \in Notifs |-> IF n \in Range(job[w].got) THEN done[n] + 1 ELSE done[n]]
      /\ job[w].at = "resume" /\ Return(w) /\ UNCHANGED <<list, slipped>>
  BY <1>1 DEF Resume
<1>3. job'[w].at = "idle" /\ \A v \in Workers \ {w} : job'[v] = job[v]
  BY <1>2 DEF Return, Idle, TypeOK
<1>4. \A n \in Notifs : done[n] \in Nat BY DEF TypeOK
<1>5. ASSUME NEW n \in Notifs PROVE n \in Digested' <=> n \in Digested
  <2>1. CASE n \in Range(job[w].got) BY <1>2, <1>4, <2>1 DEF Digested
  <2>2. CASE n \notin Range(job[w].got) BY <1>2, <1>3, <2>2 DEF Digested
  <2> QED BY <2>1, <2>2
<1>6. Digested' = Digested BY <1>5 DEF Digested
<1> QED BY <1>2, <1>6 DEF D!vars

LEMMA OthersStutter ==
  ASSUME TypeOK, OneCollector, faults' = 0,
         \/ UNCHANGED vars \/ KeyExpires
         \/ \E n \in Notifs : Trigger(n) \/ \E w \in Workers : BeginTrigger(w, n)
         \/ \E w \in Workers : SetExpiry(w) \/ Schedule(w) \/ BeginDigest(w) \/ Collect(w) \/ Redeliver(w)
  PROVE  UNCHANGED D!vars
<1>1. ~Fault BY DEF Fault, TypeOK
<1>2. ~KeyExpires /\ \A w \in Workers : ~Redeliver(w)
  BY <1>1 DEF KeyExpires, OneCollector, Redeliver
<1>3. UNCHANGED <<list, slipped, done>>
  BY <1>2 DEF vars, Trigger, BeginTrigger, SetExpiry, Schedule, BeginDigest, Collect
<1>4. \A v \in Workers : job'[v] = job[v] \/ (job[v].at # "resume" /\ job'[v].at # "resume")
  <2>1. CASE UNCHANGED job BY <2>1
  <2>2. ASSUME NEW w \in Workers, SetExpiry(w) \/ Schedule(w)
        PROVE  \A v \in Workers : job'[v] = job[v] \/ (job[v].at # "resume" /\ job'[v].at # "resume")
    <3>1. job[w].at # "resume" BY <2>2 DEF SetExpiry, Schedule
    <3>2. CASE Goto(w, "schedule") BY <3>1, <3>2, MovedJob DEF Goto, TypeOK
    <3>3. CASE Return(w) BY <3>1, <3>3 DEF Return, Idle, TypeOK
    <3> QED BY <2>2, <3>2, <3>3 DEF SetExpiry, Schedule
  <2>3. ASSUME NEW w \in Workers, (\E n \in Notifs : BeginTrigger(w, n)) \/ BeginDigest(w)
        PROVE  \A v \in Workers : job'[v] = job[v] \/ (job[v].at # "resume" /\ job'[v].at # "resume")
    BY <2>3 DEF BeginTrigger, BeginDigest, TypeOK
  <2>4. ASSUME NEW w \in Workers, Collect(w)
        PROVE  \A v \in Workers : job'[v] = job[v] \/ (job[v].at # "resume" /\ job'[v].at # "resume")
    <3>1. job[w] \in Job /\ DOMAIN job = Workers BY DEF TypeOK, Job
    <3>2. job[w] = [at |-> job[w].at, n |-> job[w].n, got |-> job[w].got] BY <3>1, JobFields
    <3>3. DOMAIN job[w] = {"at", "n", "got"} BY <3>2
    <3> QED BY <2>4, <3>1, <3>3 DEF Collect
  <2> QED BY <1>2, <2>1, <2>2, <2>3, <2>4 DEF vars, Trigger
<1>5. \A v \in Workers, n \in Notifs : Sending(v, n)' <=> Sending(v, n) BY <1>4 DEF Sending
<1>6. Digested' = Digested BY <1>3, <1>5, DigestedSame
<1> QED BY <1>3, <1>6 DEF D!vars

\* Until something fails, the list, its time to live and the digest tasks together are
\* one window that closes at once: the handlers' pushes, reads and deletions implement
\* Digest, whatever they interleave with.
THEOREM Implements == Spec => ImplementsDigest
<1>1. Init => Slips /\ D!Init BY InitSlips, DigestInit
<1>2. TypeOK /\ OneCollector /\ Custody /\ Slips /\ [Next]_vars => Slips' BY NextSlips
<1>3. TypeOK /\ OneCollector /\ Custody /\ Slips /\ [Next]_vars =>
        [faults' = 0 => [D!Next]_(D!vars)]_vars
  BY PushJoins, ClearCloses, ResumeStutters, OthersStutter DEF Next, Handle
<1> QED BY <1>1, <1>2, <1>3, CustodyKept, PTL DEF Spec, ImplementsDigest
=============================================================================
