---------------------------- MODULE DigestWindow ----------------------------
(***************************************************************************)
(* One digest window: the Redis list under one digest key (one subscriber, *)
(* one digest step of one workflow), the trigger handlers that push        *)
(* notifications onto it and the digest tasks that empty it.               *)
(*                                                                         *)
(* The push that finds the list empty opens the window: it sets the key's  *)
(* time to live and schedules the digest task that closes it. Each Redis   *)
(* call and each Enqueue is a step of its own, so two handlers may         *)
(* interleave between any two of them, calls may fail and workers crash.   *)
(* A failed push or Enqueue may have taken effect all the same.            *)
(*                                                                         *)
(* The digest task is scheduled for the end of the window and the key      *)
(* lives five minutes longer, so a key that expires under a task that is   *)
(* still due is counted as a fault (workers down or far behind); a key     *)
(* nobody will collect may expire at any time.                             *)
(***************************************************************************)
EXTENDS Integers, Sequences, FiniteSets, Functions

CONSTANTS
  Notifs,     \* notifications that reach the digest step
  Workers,    \* concurrent asynq handlers
  MaxFaults   \* bound: failed calls, crashes and early expirations

ASSUME MaxFaultsAssumption == MaxFaults \in Nat

VARIABLES
  triggered,  \* the notifications that were triggered
  triggers,   \* per notification, trigger tasks waiting in asynq
  digests,    \* digest tasks waiting in asynq, scheduled or due
  list,       \* the Redis list
  ttl,        \* whether the key has a time to live
  job,        \* the workers
  faults,
  \* history, read by no action
  done,       \* per notification, the digests sent that include it
  slipped     \* notifications deleted that no digest task had read

vars == <<triggered, triggers, digests, list, ttl, job, faults, done, slipped>>

None == "none"

(* A trigger handler is about to push, to set the time to live ("expire")  *)
(* or to schedule the digest task; a digest handler to read the list       *)
(* ("collect"), to delete it ("clear") or to send the digest ("resume").   *)
TriggerJob == [at: {"push", "expire", "schedule"}, n: Notifs, got: {<< >>}]
DigestJob == [at: {"collect", "clear"}, n: {None}, got: Seq(Notifs)]
ResumeJob == [at: {"resume"}, n: {None}, got: Seq(Notifs) \ {<< >>}]
Idle == [at |-> "idle", n |-> None, got |-> << >>]

\* Among others, that a digest about to be sent has a first notification, which
\* stands for it.
TypeOK ==
  /\ triggered \subseteq Notifs /\ triggers \in [Notifs -> Nat]
  /\ digests \in Nat /\ list \in Seq(Notifs) /\ ttl \in BOOLEAN
  /\ job \in [Workers -> TriggerJob \cup DigestJob \cup ResumeJob \cup {Idle}]
  /\ faults \in 0..MaxFaults
  /\ done \in [Notifs -> Nat] /\ slipped \subseteq Notifs

Init ==
  /\ triggered = {} /\ triggers = [n \in Notifs |-> 0]
  /\ digests = 0 /\ list = << >> /\ ttl = FALSE
  /\ job = [w \in Workers |-> Idle]
  /\ faults = 0
  /\ done = [n \in Notifs |-> 0] /\ slipped = {}

Fault == faults < MaxFaults /\ faults' = faults + 1

Goto(w, at) == job' = [job EXCEPT ![w].at = at]
Return(w) == job' = [job EXCEPT ![w] = Idle]

-----------------------------------------------------------------------------
(* The trigger handler's part: enqueueDigest.                              *)

Trigger(n) ==
  /\ n \notin triggered
  /\ triggered' = triggered \cup {n}
  /\ triggers' = [triggers EXCEPT ![n] = @ + 1]
  /\ UNCHANGED <<digests, list, ttl, job, faults, done, slipped>>

BeginTrigger(w, n) ==
  /\ job[w].at = "idle" /\ triggers[n] > 0
  /\ triggers' = [triggers EXCEPT ![n] = @ - 1]
  /\ job' = [job EXCEPT ![w] = [at |-> "push", n |-> n, got |-> << >>]]
  /\ UNCHANGED <<triggered, digests, list, ttl, faults, done, slipped>>

\* Mutant: every push opens a window.
OpensWindow_Always(count) == count >= 1

\* Mutant: the count is taken to be the length before the push.
OpensWindow_Before(count) == count = 0

\* The first notification of the list opens the window.
OpensWindow(count) == count = 1

\* RPUSH. An error is logged and the trigger task goes on.
Push(w) ==
  /\ job[w].at = "push"
  /\ \/ /\ list' = Append(list, job[w].n)
        /\ IF OpensWindow(Len(list')) THEN Goto(w, "expire") ELSE Return(w)
        /\ UNCHANGED faults
     \/ /\ Fault /\ list' \in {list, Append(list, job[w].n)}
        /\ Return(w)
  /\ UNCHANGED <<triggered, triggers, digests, ttl, done, slipped>>

\* EXPIRE, which does nothing for a key that is gone. Its error is ignored.
SetExpiry(w) ==
  /\ job[w].at = "expire"
  /\ \/ ttl' = (list # << >>) /\ UNCHANGED faults
     \/ Fault /\ UNCHANGED ttl
  /\ Goto(w, "schedule")
  /\ UNCHANGED <<triggered, triggers, digests, list, done, slipped>>

Schedule(w) ==
  /\ job[w].at = "schedule"
  /\ \/ digests' = digests + 1 /\ UNCHANGED faults
     \/ Fault /\ digests' \in {digests, digests + 1}
  /\ Return(w)
  /\ UNCHANGED <<triggered, triggers, list, ttl, done, slipped>>

-----------------------------------------------------------------------------
(* The digest handler.                                                     *)

BeginDigest(w) ==
  /\ job[w].at = "idle" /\ digests > 0
  /\ digests' = digests - 1
  /\ job' = [job EXCEPT ![w] = [at |-> "collect", n |-> None, got |-> << >>]]
  /\ UNCHANGED <<triggered, triggers, list, ttl, faults, done, slipped>>

\* LRANGE.
Collect(w) ==
  /\ job[w].at = "collect"
  /\ job' = [job EXCEPT ![w].at = "clear", ![w].got = list]
  /\ UNCHANGED <<triggered, triggers, digests, list, ttl, faults, done, slipped>>

\* Mutant: an empty digest goes on.
Clear_EmptyToo(w) ==
  /\ job[w].at = "clear"
  /\ \/ /\ list' = << >> /\ ttl' = FALSE
        /\ slipped' = slipped \cup (Range(list) \ Range(job[w].got))
        /\ UNCHANGED faults
     \/ Fault /\ UNCHANGED <<list, ttl, slipped>>
  /\ Goto(w, "resume")
  /\ UNCHANGED <<triggered, triggers, digests, done>>

\* DEL, whose error is ignored. Without notifications there is nothing to send.
Clear(w) ==
  /\ job[w].at = "clear"
  /\ \/ /\ list' = << >> /\ ttl' = FALSE
        /\ slipped' = slipped \cup (Range(list) \ Range(job[w].got))
        /\ UNCHANGED faults
     \/ Fault /\ UNCHANGED <<list, ttl, slipped>>
  /\ IF job[w].got = << >> THEN Return(w) ELSE Goto(w, "resume")
  /\ UNCHANGED <<triggered, triggers, digests, done>>

\* Mutant: only the notification that stands for the digest is in it.
Resume_First(w) ==
  /\ job[w].at = "resume"
  /\ \/ /\ done' = [n \in Notifs |-> IF n = Head(job[w].got) THEN done[n] + 1 ELSE done[n]]
        /\ UNCHANGED faults
     \/ Fault /\ UNCHANGED done
  /\ Return(w)
  /\ UNCHANGED <<triggered, triggers, digests, list, ttl, slipped>>

\* The deliveries after the digest step, for all that was read. An Enqueue error
\* is logged.
Resume(w) ==
  /\ job[w].at = "resume"
  /\ \/ /\ done' = [n \in Notifs |-> IF n \in Range(job[w].got) THEN done[n] + 1 ELSE done[n]]
        /\ UNCHANGED faults
     \/ Fault /\ UNCHANGED done
  /\ Return(w)
  /\ UNCHANGED <<triggered, triggers, digests, list, ttl, slipped>>

-----------------------------------------------------------------------------
(* What goes wrong.                                                        *)

\* The worker crashes or its handler returns an error: the task runs again.
Redeliver(w) ==
  /\ job[w].at # "idle" /\ Fault
  /\ IF job[w].n # None
     THEN triggers' = [triggers EXCEPT ![job[w].n] = @ + 1] /\ UNCHANGED digests
     ELSE digests' = digests + 1 /\ UNCHANGED triggers
  /\ Return(w)
  /\ UNCHANGED <<triggered, list, ttl, done, slipped>>

\* Who opened the window, is scheduled to close it or is closing it.
Collector(w) == job[w].at \in {"expire", "schedule", "collect", "clear"}
Due == digests > 0 \/ \E w \in Workers : Collector(w)

KeyExpires ==
  /\ ttl /\ list # << >>
  /\ list' = << >> /\ ttl' = FALSE
  /\ IF Due THEN Fault ELSE UNCHANGED faults
  /\ UNCHANGED <<triggered, triggers, digests, job, done, slipped>>

Handle(w) ==
  \/ \E n \in Notifs : BeginTrigger(w, n)
  \/ Push(w) \/ SetExpiry(w) \/ Schedule(w)
  \/ BeginDigest(w) \/ Collect(w) \/ Clear(w) \/ Resume(w)

Next ==
  \/ \E n \in Notifs : Trigger(n)
  \/ \E w \in Workers : Handle(w) \/ Redeliver(w)
  \/ KeyExpires

Spec == Init /\ [][Next]_vars

(* Handlers go on and asynq keeps handing out tasks.                       *)
FairSpec == Spec /\ \A w \in Workers : WF_vars(Handle(w))

-----------------------------------------------------------------------------
(* Properties.                                                             *)

\* Without faults a window has exactly one collector as long as its list is not
\* empty, and none otherwise: one task, or one handler that opened or closes it
\* (trigger_handler.go: only the push that returns 1 schedules a digest task).
OneCollector ==
  faults = 0 =>
    /\ (list # << >>) <=> Due
    /\ digests <= 1
    /\ \A w \in Workers : Collector(w) => digests = 0
    /\ \A v, w \in Workers : Collector(v) /\ Collector(w) => v = w

\* The handlers that have read notification n and not sent their digest yet.
Holders(n) == {w \in Workers : job[w].at \in {"clear", "resume"} /\ n \in Range(job[w].got)}

\* No notification is in two digests, sent or about to be.
DigestedOnce ==
  faults = 0 => \A n \in Notifs : done[n] + Cardinality(Holders(n)) <= 1

Pushed(n) ==
  n \in triggered /\ triggers[n] = 0 /\ \A w \in Workers : job[w].n = n => job[w].at # "push"

\* What was pushed is on the list, in a digest, or slipped.
AccountedFor ==
  faults = 0 => \A n \in Notifs :
    Pushed(n) => n \in Range(list) \/ done[n] = 1 \/ Holders(n) # {} \/ n \in slipped

\* Without faults a notification that was pushed is on the list or in one digest and no
\* second, unless it was pushed between the digest handler's LRANGE and its DEL: nothing
\* else is lost or sent twice ("a digest task is already scheduled for this window",
\* trigger_handler.go:248, is wrong of that gap alone).
EachDigestedOnce == DigestedOnce /\ AccountedFor

\* The notifications whose digest is sent or about to be: nothing but a fault keeps a
\* handler that has deleted the list from sending what it read.
Digested ==
  {n \in Notifs : \/ done[n] > 0
                  \/ \E w \in Workers : job[w].at = "resume" /\ n \in Range(job[w].got)}

D == INSTANCE Digest WITH waiting <- Range(list), digested <- Digested, missed <- slipped

\* Until a call fails or a worker crashes, all these Redis calls and tasks are one
\* window that closes at once (Digest), which is how the handlers behind the digest
\* step see it and how DeliveryPipeline models it: trigger_handler.go and
\* digest_handler.go share nothing but the list and the count that RPUSH returns.
ImplementsDigest == D!Init /\ [][faults' = 0 => [D!Next]_(D!vars)]_vars

\* Without faults an open window closes.
WindowCloses == (faults = 0 /\ list # << >>) ~> (list = << >> \/ faults > 0)

=============================================================================
