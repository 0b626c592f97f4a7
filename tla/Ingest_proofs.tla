---------------------------- MODULE Ingest_proofs ----------------------------
(***************************************************************************)
(* Proofs about Ingest: no subscriber is dispatched twice in a             *)
(* transaction, ingestion implements Dispatch, an accepted request is      *)
(* dispatched whole, a refused one has a rival, and a broadcast leaves     *)
(* nobody out.                                                             *)
(*                                                                         *)
(* The argument of the first two: a <<transaction, subscriber>> pair has   *)
(* at most one custodian. It is the handler, request or broadcast, that    *)
(* inserted its notification and has not enqueued it yet; once it is in a  *)
(* trigger task it has none. A handler becomes custodian only by inserting *)
(* a notification that did not exist, notifications never disappear, and a *)
(* handler enqueues exactly the pairs it is custodian of.                  *)
(*                                                                         *)
(* The others need types as well, hence what resolveRecipients computes:   *)
(* a recursive function, shown to exist and to list each subscriber once   *)
(* by induction along an interval. Each then has its own invariant: where  *)
(* a request's recipients are (Accounts), whose a notification is          *)
(* (Origin), and who lies behind a broadcast's page (Walk, Kept).          *)
(***************************************************************************)
EXTENDS Ingest, FiniteSetTheorems, TLAPS

\* The handlers' records have their fields. What the fields hold is not needed.
Shape ==
  /\ DOMAIN req = Requests /\ DOMAIN job = Workers
  /\ \A r \in Requests : DOMAIN req[r] = {"at", "tx", "map"}
  /\ \A w \in Workers : DOMAIN job[w] = {"at", "tx", "last", "batch", "map", "audience"}
  /\ planned \in [Pairs -> Nat]

ByRequest(r, p) == req[r].tx = p[1] /\ p[2] \in req[r].map
ByWorker(w, p) == job[w].tx = p[1] /\ p[2] \in job[w].map

\* The custodians, and what they say of the index and of the trigger tasks.
Custody ==
  /\ \A p \in Pairs : planned[p] \in {0, 1} /\ (planned[p] = 1 => p \in notifs)
  /\ \A r \in Requests, p \in Pairs : ByRequest(r, p) => p \in notifs /\ planned[p] = 0
  /\ \A w \in Workers, p \in Pairs : ByWorker(w, p) => p \in notifs /\ planned[p] = 0
  /\ \A r, q \in Requests, p \in Pairs : ByRequest(r, p) /\ ByRequest(q, p) => r = q
  /\ \A v, w \in Workers, p \in Pairs : ByWorker(v, p) /\ ByWorker(w, p) => v = w
  /\ \A r \in Requests, w \in Workers, p \in Pairs : ~(ByRequest(r, p) /\ ByWorker(w, p))

Inv == Shape /\ Custody

-----------------------------------------------------------------------------
(* The four things a step can do to custody.                               *)

\* Handlers give up custody, or nothing happens to it.
LEMMA Release ==
  ASSUME Custody, planned' = planned, notifs \subseteq notifs',
         \A r \in Requests, p \in Pairs : ByRequest(r, p)' => ByRequest(r, p),
         \A w \in Workers, p \in Pairs : ByWorker(w, p)' => ByWorker(w, p)
  PROVE  Custody'
  BY DEF Custody

\* A request inserts a notification that did not exist.
LEMMA TakeByRequest ==
  ASSUME Custody, planned' = planned, NEW r \in Requests, NEW n, n \notin notifs,
         notifs' = notifs \cup {n},
         \A q \in Requests, p \in Pairs : ByRequest(q, p)' => ByRequest(q, p) \/ (q = r /\ p = n),
         \A w \in Workers, p \in Pairs : ByWorker(w, p)' => ByWorker(w, p)
  PROVE  Custody'
  BY DEF Custody

\* A broadcast does.
LEMMA TakeByWorker ==
  ASSUME Custody, planned' = planned, NEW w \in Workers, NEW n, n \notin notifs,
         notifs' = notifs \cup {n},
         \A r \in Requests, p \in Pairs : ByRequest(r, p)' => ByRequest(r, p),
         \A v \in Workers, p \in Pairs : ByWorker(v, p)' => ByWorker(v, p) \/ (v = w /\ p = n)
  PROVE  Custody'
  BY DEF Custody

\* The pairs a Plan adds a trigger task to.
LEMMA PlanEffect ==
  ASSUME planned \in [Pairs -> Nat], NEW tx, NEW S, Plan(tx, S)
  PROVE  /\ planned' \in [Pairs -> Nat]
         /\ \A p \in Pairs : planned'[p] = IF p[1] = tx /\ p[2] \in S THEN planned[p] + 1
                                           ELSE planned[p]
  BY DEF Plan

\* A request enqueues what it is custodian of and gives it up.
LEMMA PlanByRequest ==
  ASSUME Shape, Custody, NEW r \in Requests, Plan(req[r].tx, req[r].map), notifs' = notifs,
         \A p \in Pairs : ~ByRequest(r, p)',
         \A q \in Requests, p \in Pairs : ByRequest(q, p)' => ByRequest(q, p),
         \A w \in Workers, p \in Pairs : ByWorker(w, p)' => ByWorker(w, p)
  PROVE  Custody'
<1>1. \A p \in Pairs : planned'[p] = IF ByRequest(r, p) THEN planned[p] + 1 ELSE planned[p]
  BY PlanEffect DEF Shape, ByRequest
<1>2. \A p \in Pairs : ByRequest(r, p) => planned[p] = 0 /\ p \in notifs
  BY DEF Custody
<1>3. \A p \in Pairs : planned'[p] \in {0, 1} /\ (planned'[p] = 1 => p \in notifs')
  BY <1>1, <1>2 DEF Custody
<1>4. \A q \in Requests, p \in Pairs :
        ByRequest(q, p)' => p \in notifs' /\ planned'[p] = 0
  BY <1>1 DEF Custody
<1>5. \A w \in Workers, p \in Pairs : ByWorker(w, p)' => p \in notifs' /\ planned'[p] = 0
  BY <1>1 DEF Custody
<1> QED
  BY <1>3, <1>4, <1>5 DEF Custody

\* A broadcast does.
LEMMA PlanByWorker ==
  ASSUME Shape, Custody, NEW w \in Workers, Plan(job[w].tx, job[w].map), notifs' = notifs,
         \A p \in Pairs : ~ByWorker(w, p)',
         \A r \in Requests, p \in Pairs : ByRequest(r, p)' => ByRequest(r, p),
         \A v \in Workers, p \in Pairs : ByWorker(v, p)' => ByWorker(v, p)
  PROVE  Custody'
<1>1. \A p \in Pairs : planned'[p] = IF ByWorker(w, p) THEN planned[p] + 1 ELSE planned[p]
  BY PlanEffect DEF Shape, ByWorker
<1>2. \A p \in Pairs : ByWorker(w, p) => planned[p] = 0 /\ p \in notifs
  BY DEF Custody
<1>3. \A p \in Pairs : planned'[p] \in {0, 1} /\ (planned'[p] = 1 => p \in notifs')
  BY <1>1, <1>2 DEF Custody
<1>4. \A r \in Requests, p \in Pairs : ByRequest(r, p)' => p \in notifs' /\ planned'[p] = 0
  BY <1>1 DEF Custody
<1>5. \A v \in Workers, p \in Pairs : ByWorker(v, p)' => p \in notifs' /\ planned'[p] = 0
  BY <1>1 DEF Custody
<1> QED
  BY <1>3, <1>4, <1>5 DEF Custody

-----------------------------------------------------------------------------
(* How handlers change.                                                    *)

LEMMA AnswerShape ==
  ASSUME Shape, NEW r \in Requests, NEW o, Answer(r, o)
  PROVE  /\ DOMAIN req' = Requests
         /\ \A q \in Requests : DOMAIN req'[q] = {"at", "tx", "map"}
         /\ req'[r].map = {} /\ req'[r].tx = req[r].tx
         /\ \A q \in Requests \ {r} : req'[q] = req[q]
  BY DEF Shape, Answer

LEMMA AnswerReleases ==
  ASSUME Shape, NEW r \in Requests, NEW o, Answer(r, o)
  PROVE  \A q \in Requests, p \in Pairs : ByRequest(q, p)' => ByRequest(q, p) /\ q # r
  BY AnswerShape DEF ByRequest

LEMMA IdleWorker ==
  ASSUME Shape, NEW w \in Workers, job' = [job EXCEPT ![w] = Idle]
  PROVE  /\ DOMAIN job' = Workers
         /\ \A v \in Workers :
              DOMAIN job'[v] = {"at", "tx", "last", "batch", "map", "audience"}
         /\ job'[w].map = {}
         /\ \A v \in Workers \ {w} : job'[v] = job[v]
         /\ \A v \in Workers, p \in Pairs : ByWorker(v, p)' => ByWorker(v, p) /\ v # w
<1>1. /\ DOMAIN job' = Workers /\ job'[w] = Idle
      /\ \A v \in Workers \ {w} : job'[v] = job[v]
  BY DEF Shape
<1>2. Idle.map = {} /\ DOMAIN Idle = {"at", "tx", "last", "batch", "map", "audience"}
  BY DEF Idle
<1> QED
  BY <1>1, <1>2 DEF Shape, ByWorker

-----------------------------------------------------------------------------
(* The invariant.                                                          *)

LEMMA InvInit == Init => Inv
  BY DEF Init, Inv, Shape, Custody, ByRequest, ByWorker, Idle, NoTx

LEMMA StartTriggerInv ==
  ASSUME Inv, NEW r \in Requests, NEW tx \in Txs, NEW to \in Tos, StartTrigger(r, tx, to)
  PROVE  Inv'
<1>1. /\ DOMAIN req' = Requests
      /\ req'[r] = [at |-> "running", tx |-> tx, map |-> {}]
      /\ \A q \in Requests \ {r} : req'[q] = req[q]
      /\ UNCHANGED <<notifs, planned, job>>
  BY DEF Inv, Shape, StartTrigger, workers
<1>2. Shape'
  BY <1>1 DEF Inv, Shape
<1>3. Custody'
  BY <1>1, Release DEF Inv, ByRequest, ByWorker
<1> QED
  BY <1>2, <1>3 DEF Inv

LEMMA InsertNextInv ==
  ASSUME Inv, NEW r \in Requests, InsertNext(r)
  PROVE  Inv'
<1> DEFINE n == <<req[r].tx, Head(todo[r])>>
<1>0. UNCHANGED <<planned, job>>
  BY DEF InsertNext, workers
<1>1. CASE /\ n \notin notifs /\ notifs' = notifs \cup {n}
           /\ req' = [req EXCEPT ![r].map = @ \cup {n[2]}]
  <2>1. /\ DOMAIN req' = Requests
        /\ \A q \in Requests : DOMAIN req'[q] = {"at", "tx", "map"}
        /\ req'[r].map = req[r].map \cup {n[2]} /\ req'[r].tx = req[r].tx
        /\ \A q \in Requests \ {r} : req'[q] = req[q]
    BY <1>1 DEF Inv, Shape
  <2>2. Shape'
    BY <1>0, <2>1 DEF Inv, Shape
  <2>3. \A q \in Requests, p \in Pairs :
          ByRequest(q, p)' => ByRequest(q, p) \/ (q = r /\ p = n)
    BY <2>1 DEF ByRequest, Pairs
  <2>4. \A w \in Workers, p \in Pairs : ByWorker(w, p)' => ByWorker(w, p)
    BY <1>0 DEF ByWorker
  <2> HIDE DEF n
  <2>5. Custody'
    BY <1>0, <1>1, <2>3, <2>4, TakeByRequest DEF Inv
  <2> QED
    BY <2>2, <2>5 DEF Inv
<1>2. CASE (\E o : Answer(r, o)) /\ notifs \subseteq notifs'
  <2>1. PICK o : Answer(r, o)
    BY <1>2
  <2>2. Shape'
    BY <1>0, <2>1, AnswerShape DEF Inv, Shape
  <2>3. Custody'
    BY <1>0, <1>2, <2>1, AnswerReleases, Release DEF Inv, ByWorker
  <2> QED
    BY <2>2, <2>3 DEF Inv
<1> QED
  BY <1>1, <1>2 DEF InsertNext, MayFail

LEMMA EnqueueTriggerInv ==
  ASSUME Inv, NEW r \in Requests, EnqueueTrigger(r)
  PROVE  Inv'
<1>1. UNCHANGED <<notifs, job>>
  BY DEF EnqueueTrigger, workers
<1>2. PICK o : Answer(r, o)
  BY DEF EnqueueTrigger
<1>3. Plan(req[r].tx, req[r].map) \/ planned' = planned
  BY DEF EnqueueTrigger, MayFail
<1>4. Shape'
  BY <1>1, <1>2, <1>3, AnswerShape, PlanEffect DEF Inv, Shape
<1>5. \A q \in Requests, p \in Pairs : ByRequest(q, p)' => ByRequest(q, p) /\ q # r
  BY <1>2, AnswerReleases DEF Inv
<1>6. \A w \in Workers, p \in Pairs : ByWorker(w, p)' => ByWorker(w, p)
  BY <1>1 DEF ByWorker
<1>7. CASE Plan(req[r].tx, req[r].map)
  <2>1. \A p \in Pairs : ~ByRequest(r, p)'
    BY <1>5
  <2> QED
    BY <1>1, <1>4, <1>5, <1>6, <1>7, <2>1, PlanByRequest DEF Inv
<1>8. CASE planned' = planned
  BY <1>1, <1>4, <1>5, <1>6, <1>8, Release DEF Inv
<1> QED
  BY <1>3, <1>7, <1>8

LEMMA ApiCrashInv ==
  ASSUME Inv, NEW r \in Requests, ApiCrash(r)
  PROVE  Inv'
<1>1. UNCHANGED <<planned, notifs, job>> /\ Answer(r, "error")
  BY DEF ApiCrash, workers
<1>2. Shape'
  BY <1>1, AnswerShape DEF Inv, Shape
<1>3. Custody'
  BY <1>1, AnswerReleases, Release DEF Inv, ByWorker
<1> QED
  BY <1>2, <1>3 DEF Inv

\* A step that leaves requests, index and trigger tasks alone and at most empties
\* what workers hold.
LEMMA WorkerReleases ==
  ASSUME Inv, UNCHANGED <<planned, notifs, req>>,
         DOMAIN job' = Workers,
         \A w \in Workers : DOMAIN job'[w] = {"at", "tx", "last", "batch", "map", "audience"},
         \A w \in Workers, p \in Pairs : ByWorker(w, p)' => ByWorker(w, p)
  PROVE  Inv'
<1>1. Shape'
  BY DEF Inv, Shape
<1>2. Custody'
  BY Release DEF Inv, ByRequest
<1> QED
  BY <1>1, <1>2 DEF Inv

LEMMA BeginBroadcastInv ==
  ASSUME Inv, NEW w \in Workers, NEW tx \in Txs, BeginBroadcast(w, tx)
  PROVE  Inv'
<1> DEFINE begun == [Idle EXCEPT !.at = "page", !.tx = tx, !.audience = exists]
<1>0. UNCHANGED <<planned, notifs, req>>
  BY DEF BeginBroadcast, api
<1>1. begun.map = {} /\ DOMAIN begun = {"at", "tx", "last", "batch", "map", "audience"}
  BY DEF Idle
<1> HIDE DEF begun
<1>2. CASE job' = job
  BY <1>0, <1>2, WorkerReleases DEF Inv, Shape, ByWorker
<1>3. CASE job' = [job EXCEPT ![w] = begun]
  <2>1. /\ DOMAIN job' = Workers /\ job'[w] = begun
        /\ \A v \in Workers \ {w} : job'[v] = job[v]
    BY <1>3 DEF Inv, Shape
  <2>2. \A v \in Workers : DOMAIN job'[v] = {"at", "tx", "last", "batch", "map", "audience"}
    BY <1>1, <2>1 DEF Inv, Shape
  <2>3. \A v \in Workers, p \in Pairs : ByWorker(v, p)' => ByWorker(v, p)
    BY <1>1, <2>1 DEF ByWorker
  <2> QED
    BY <1>0, <2>1, <2>2, <2>3, WorkerReleases
<1> QED
  BY <1>2, <1>3 DEF BeginBroadcast, begun

LEMMA ReadPageInv ==
  ASSUME Inv, NEW w \in Workers, ReadPage(w)
  PROVE  Inv'
<1>0. UNCHANGED <<planned, notifs, req>>
  BY DEF ReadPage, api
<1>1. CASE job' = [job EXCEPT ![w] = Idle]
  BY <1>0, <1>1, IdleWorker, WorkerReleases DEF Inv
<1>2. CASE \E page, last : job' = [job EXCEPT ![w].at = "batch", ![w].batch = page,
                                            ![w].map = {}, ![w].last = last]
  <2>1. /\ DOMAIN job' = Workers /\ job'[w].map = {}
        /\ \A v \in Workers \ {w} : job'[v] = job[v]
        /\ DOMAIN job'[w] = DOMAIN job[w]
    BY <1>2 DEF Inv, Shape
  <2>2. \A v \in Workers : DOMAIN job'[v] = {"at", "tx", "last", "batch", "map", "audience"}
    BY <2>1 DEF Inv, Shape
  <2>3. \A v \in Workers, p \in Pairs : ByWorker(v, p)' => ByWorker(v, p)
    BY <2>1 DEF ByWorker
  <2> QED
    BY <1>0, <2>1, <2>2, <2>3, WorkerReleases
<1> QED
  BY <1>1, <1>2 DEF ReadPage

LEMMA InsertForNextInv ==
  ASSUME Inv, NEW w \in Workers, InsertForNext(w)
  PROVE  Inv'
<1>0. UNCHANGED <<planned, req>>
  BY DEF InsertForNext, api
<1>1. PICK s \in job[w].batch :
        \/ /\ <<job[w].tx, s>> \notin notifs /\ notifs' = notifs \cup {<<job[w].tx, s>>}
           /\ job' = [job EXCEPT ![w].batch = @ \ {s}, ![w].map = @ \cup {s}]
        \/ notifs \subseteq notifs' /\ job' = [job EXCEPT ![w].batch = @ \ {s}]
  BY DEF InsertForNext, MayFail
<1> DEFINE n == <<job[w].tx, s>>
<1>2. CASE /\ n \notin notifs /\ notifs' = notifs \cup {n}
           /\ job' = [job EXCEPT ![w].batch = @ \ {s}, ![w].map = @ \cup {s}]
  <2>1. /\ DOMAIN job' = Workers
        /\ \A v \in Workers : DOMAIN job'[v] = DOMAIN job[v]
        /\ job'[w].map = job[w].map \cup {s} /\ job'[w].tx = job[w].tx
        /\ \A v \in Workers \ {w} : job'[v] = job[v]
    BY <1>2 DEF Inv, Shape
  <2>2. Shape'
    BY <1>0, <2>1 DEF Inv, Shape
  <2>3. \A v \in Workers, p \in Pairs : ByWorker(v, p)' => ByWorker(v, p) \/ (v = w /\ p = n)
    BY <2>1 DEF ByWorker, Pairs
  <2>4. \A r \in Requests, p \in Pairs : ByRequest(r, p)' => ByRequest(r, p)
    BY <1>0 DEF ByRequest
  <2> HIDE DEF n
  <2>5. Custody'
    BY <1>0, <1>2, <2>3, <2>4, TakeByWorker DEF Inv
  <2> QED
    BY <2>2, <2>5 DEF Inv
<1>3. CASE notifs \subseteq notifs' /\ job' = [job EXCEPT ![w].batch = @ \ {s}]
  <2>1. /\ DOMAIN job' = Workers
        /\ \A v \in Workers : DOMAIN job'[v] = DOMAIN job[v]
        /\ \A v \in Workers : job'[v].map = job[v].map /\ job'[v].tx = job[v].tx
    BY <1>3 DEF Inv, Shape
  <2>2. Shape'
    BY <1>0, <2>1 DEF Inv, Shape
  <2>3. Custody'
    BY <1>0, <1>3, <2>1, Release DEF Inv, ByRequest, ByWorker
  <2> QED
    BY <2>2, <2>3 DEF Inv
<1> QED
  BY <1>1, <1>2, <1>3

LEMMA EndBatchInv ==
  ASSUME Inv, NEW w \in Workers, EndBatch(w)
  PROVE  Inv'
<1>0. UNCHANGED <<notifs, req>>
  BY DEF EndBatch, api
<1>1. Plan(job[w].tx, job[w].map) \/ planned' = planned
  BY DEF EndBatch, MayFail
<1>2. /\ DOMAIN job' = Workers
      /\ \A v \in Workers : DOMAIN job'[v] = {"at", "tx", "last", "batch", "map", "audience"}
      /\ \A v \in Workers, p \in Pairs : ByWorker(v, p)' => ByWorker(v, p) /\ v # w
  <2>1. CASE job' = [job EXCEPT ![w] = Idle]
    BY <2>1, IdleWorker DEF Inv
  <2>2. CASE job' = [job EXCEPT ![w].at = "page", ![w].map = {}]
    <3>1. /\ DOMAIN job' = Workers /\ job'[w].map = {}
          /\ \A v \in Workers \ {w} : job'[v] = job[v]
          /\ DOMAIN job'[w] = DOMAIN job[w]
      BY <2>2 DEF Inv, Shape
    <3> QED
      BY <3>1 DEF Inv, Shape, ByWorker
  <2> QED
    BY <2>1, <2>2 DEF EndBatch
<1>3. Shape'
  BY <1>0, <1>1, <1>2, PlanEffect DEF Inv, Shape
<1>4. \A r \in Requests, p \in Pairs : ByRequest(r, p)' => ByRequest(r, p)
  BY <1>0 DEF ByRequest
<1>5. CASE Plan(job[w].tx, job[w].map)
  <2>1. \A p \in Pairs : ~ByWorker(w, p)'
    BY <1>2
  <2> QED
    BY <1>0, <1>2, <1>3, <1>4, <1>5, <2>1, PlanByWorker DEF Inv
<1>6. CASE planned' = planned
  BY <1>0, <1>2, <1>3, <1>4, <1>6, Release DEF Inv
<1> QED
  BY <1>1, <1>5, <1>6

LEMMA LeaveInv ==
  ASSUME Inv, NEW s \in Subs, Leave(s)
  PROVE  Inv'
<1>0. UNCHANGED <<planned, notifs, req>>
  BY DEF Leave, api
<1>1. /\ DOMAIN job' = Workers
      /\ \A w \in Workers : /\ DOMAIN job'[w] = DOMAIN job[w]
                            /\ job'[w].map = job[w].map /\ job'[w].tx = job[w].tx
  BY DEF Inv, Shape, Leave
<1> QED
  BY <1>0, <1>1, WorkerReleases DEF Inv, Shape, ByWorker

LEMMA InvNext == Inv /\ [Next]_vars => Inv'
<1> SUFFICES ASSUME Inv, [Next]_vars PROVE Inv'
  OBVIOUS
<1>1. CASE \E r \in Requests : \/ \E tx \in Txs, to \in Tos : StartTrigger(r, tx, to)
                               \/ HandleTrigger(r) \/ ApiCrash(r)
  BY <1>1, StartTriggerInv, InsertNextInv, EnqueueTriggerInv, ApiCrashInv DEF HandleTrigger
<1>2. CASE \E w \in Workers : HandleBroadcast(w) \/ Rerun(w)
  <2>1. ASSUME NEW w \in Workers, Rerun(w) PROVE Inv'
    <3>1. UNCHANGED <<planned, notifs, req>> /\ job' = [job EXCEPT ![w] = Idle]
      BY <2>1 DEF Rerun, api
    <3> QED
      BY <3>1, IdleWorker, WorkerReleases DEF Inv
  <2> QED
    BY <1>2, <2>1, BeginBroadcastInv, ReadPageInv, InsertForNextInv, EndBatchInv
    DEF HandleBroadcast
<1>3. CASE \/ \E tx \in Txs : Broadcast(tx)
           \/ \E s \in Subs : Join(s)
           \/ SetActive \/ UNCHANGED vars
  <2>1. UNCHANGED <<planned, notifs, req, job>>
    BY <1>3 DEF Broadcast, Join, SetActive, vars, api, workers
  <2> QED
    BY <2>1, WorkerReleases DEF Inv, Shape, ByWorker
<1>4. CASE \E s \in Subs : Leave(s)
  BY <1>4, LeaveInv
<1> QED
  BY <1>1, <1>2, <1>3, <1>4 DEF Next

LEMMA Invariant == Spec => []Inv
  BY InvInit, InvNext, PTL DEF Spec

-----------------------------------------------------------------------------
(* Results.                                                                *)

\* No subscriber is put in two trigger tasks of one transaction, for any number of
\* requests, broadcasts, subscribers and faults (trigger_service.go and
\* broadcast_handler.go rely on the unique index alone).
THEOREM Once == Spec => []DispatchedOnce
<1>1. Inv => DispatchedOnce
  BY DEF Inv, Custody, DispatchedOnce
<1> QED
  BY <1>1, Invariant, PTL

\* A Plan by a custodian is a batch of Dispatch, or plans nothing.
LEMMA PlanIsBatch ==
  ASSUME Shape, NEW tx, NEW S, Plan(tx, S),
         \A p \in Pairs : p[1] = tx /\ p[2] \in S => planned[p] = 0
  PROVE  D!Next \/ planned' = planned
<1>1. CASE tx \in Txs
  <2> DEFINE T == S \cap Subs
  <2>1. \A s \in T : planned[<<tx, s>>] = 0
    BY <1>1 DEF Pairs
  <2>2. \A p \in Pairs : (p[1] = tx /\ p[2] \in S) <=> (p[1] = tx /\ p[2] \in T)
    BY DEF Pairs
  <2>3. planned' = [p \in Pairs |-> IF p[1] = tx /\ p[2] \in T THEN 1 ELSE planned[p]]
    BY <2>2 DEF Plan
  <2>4. D!Batch(tx, T)
    BY <2>1, <2>3 DEF D!Batch, D!Pairs, Pairs
  <2> QED
    BY <1>1, <2>4 DEF D!Next
<1>2. CASE tx \notin Txs
  <2>1. \A p \in Pairs : p[1] # tx
    BY <1>2 DEF Pairs
  <2>2. \A p \in Pairs : planned'[p] = planned[p]
    BY <2>1 DEF Plan
  <2> QED
    BY <2>2, PlanEffect DEF Shape
<1> QED
  BY <1>1, <1>2

LEMMA StepImplements ==
  ASSUME Inv, [Next]_vars
  PROVE  [D!Next]_planned
<1>1. CASE \E r \in Requests : EnqueueTrigger(r)
  <2>1. PICK r \in Requests : EnqueueTrigger(r)
    BY <1>1
  <2>2. Plan(req[r].tx, req[r].map) \/ planned' = planned
    BY <2>1 DEF EnqueueTrigger, MayFail
  <2>3. \A p \in Pairs : p[1] = req[r].tx /\ p[2] \in req[r].map => planned[p] = 0
    BY DEF Inv, Custody, ByRequest
  <2> QED
    BY <2>2, <2>3, PlanIsBatch DEF Inv
<1>2. CASE \E w \in Workers : EndBatch(w)
  <2>1. PICK w \in Workers : EndBatch(w)
    BY <1>2
  <2>2. Plan(job[w].tx, job[w].map) \/ planned' = planned
    BY <2>1 DEF EndBatch, MayFail
  <2>3. \A p \in Pairs : p[1] = job[w].tx /\ p[2] \in job[w].map => planned[p] = 0
    BY DEF Inv, Custody, ByWorker
  <2> QED
    BY <2>2, <2>3, PlanIsBatch DEF Inv
<1>3. CASE ~(\E r \in Requests : EnqueueTrigger(r)) /\ ~(\E w \in Workers : EndBatch(w))
  <2>1. planned' = planned
    BY <1>3 DEF Next, HandleTrigger, HandleBroadcast, StartTrigger, InsertNext, ApiCrash,
       Broadcast, BeginBroadcast, ReadPage, InsertForNext, Rerun, Join, Leave, SetActive, vars
  <2> QED
    BY <2>1
<1> QED
  BY <1>1, <1>2, <1>3

\* Ingestion implements Dispatch: every trigger task it enqueues is a batch of
\* subscribers none of which had one, and nothing else touches them.
THEOREM Implements == Spec => ImplementsDispatch
<1>1. Init => D!Init
  BY DEF Init, D!Init, D!Pairs, Pairs
<1>2. Inv /\ [Next]_vars => [D!Next]_planned
  BY StepImplements
<1> QED
  BY <1>1, <1>2, Invariant, PTL DEF Spec, ImplementsDispatch, D!Spec


-----------------------------------------------------------------------------
(* Recursive functions on an interval: they exist, and what each step      *)
(* keeps holds all along.                                                  *)

\* Induction as a minimal counterexample.
LEMMA LeastNat ==
  ASSUME NEW T \in SUBSET Nat, T # {}
  PROVE  \E m \in T : \A n \in T : m <= n
<1> DEFINE R == OpToRel(<, Nat)
<1>1. IsWellFoundedOn(R, Nat)
  BY NatLessThanWellFounded
<1>2. \A m, n \in Nat : n < m => <<n, m>> \in R
  BY DEF OpToRel
<1> HIDE DEF R
<1>3. \E m \in T : \A n \in T : ~(<<n, m>> \in R)
  BY <1>1, WFMin
<1>4. PICK m \in T : \A n \in T : ~(<<n, m>> \in R)
  BY <1>3
<1>5. ASSUME NEW n \in T
      PROVE  m <= n
  <2>1. ~(n < m)
    BY <1>2, <1>4
  <2> QED
    BY <2>1
<1> QED
  BY <1>5

\* What holds at the start of an interval and goes from each place to the next holds
\* everywhere in it.
LEMMA AlongInterval ==
  ASSUME NEW a \in Int, NEW b \in Int, NEW S, NEW g,
         a <= b => g[a] \in S,
         \A i \in (a + 1)..b : g[i - 1] \in S => g[i] \in S
  PROVE  \A i \in a..b : g[i] \in S
<1> DEFINE T == {k \in Nat : a + k <= b /\ g[a + k] \notin S}
<1>1. SUFFICES T = {}
  <2>1. SUFFICES ASSUME NEW i \in a..b
                 PROVE  g[i] \in S
    OBVIOUS
  <2>2. i - a \in Nat /\ a + (i - a) = i /\ i <= b
    OBVIOUS
  <2>3. (i - a) \notin T
    BY <1>1
  <2> QED
    BY <2>2, <2>3
<1>2. SUFFICES ASSUME T # {} PROVE FALSE
  OBVIOUS
<1>3. PICK k \in T : \A n \in T : k <= n
  <2> HIDE DEF T
  <2>1. T \in SUBSET Nat
    BY DEF T
  <2> QED
    BY <1>2, <2>1, LeastNat
<1>4. k \in Nat /\ a + k <= b /\ g[a + k] \notin S
  OBVIOUS
<1>5. k # 0
  BY <1>4
<1>6. k - 1 \in Nat /\ k - 1 \notin T
  BY <1>3, <1>4, <1>5
<1>7. g[a + (k - 1)] \in S
  BY <1>4, <1>6
<1>8. a + k \in (a + 1)..b /\ (a + k) - 1 = a + (k - 1)
  BY <1>4, <1>5
<1> QED
  BY <1>4, <1>7, <1>8

Keeps(step, a, b, S) == \A i \in a..b, x \in S : step[<<i, x>>] \in S

\* There is a recursive function on a..b: first, and then a step from each place.
IsDefined(a, b, S, first, step) ==
  \E f \in [a..b -> S] :
    \A i \in a..b : f[i] = IF i = a THEN first ELSE step[<<i, f[i - 1]>>]

LEMMA RecursionExists ==
  ASSUME NEW a \in Int, NEW b \in Int, NEW S, NEW first \in S, NEW step, Keeps(step, a, b, S)
  PROVE  IsDefined(a, b, S, first, step)
<1> DEFINE Good(f, c) == \A i \in a..c : f[i] = IF i = a THEN first ELSE step[<<i, f[i - 1]>>]
           upto == [c \in (a - 1)..b |-> \E f \in [a..c -> S] : Good(f, c)]
<1>1. ASSUME a - 1 <= b
      PROVE  upto[a - 1] \in {TRUE}
  <2>1. a..(a - 1) = {}
    OBVIOUS
  <2>2. [i \in a..(a - 1) |-> first] \in [a..(a - 1) -> S]
    OBVIOUS
  <2>3. Good([i \in a..(a - 1) |-> first], a - 1)
    BY <2>1
  <2> QED
    BY <1>1, <2>2, <2>3
<1>2. ASSUME NEW c \in ((a - 1) + 1)..b, upto[c - 1] \in {TRUE}
      PROVE  upto[c] \in {TRUE}
  <2>1. c - 1 \in (a - 1)..b /\ c \in a..b
    OBVIOUS
  <2>2. PICK f \in [a..(c - 1) -> S] : Good(f, c - 1)
    BY <1>2, <2>1
  <2> DEFINE last == IF c = a THEN first ELSE step[<<c, f[c - 1]>>]
             g == [i \in a..c |-> IF i = c THEN last ELSE f[i]]
  <2>3. last \in S
    <3>1. CASE c = a
      BY <3>1
    <3>2. CASE c # a
      <4>1. c - 1 \in a..(c - 1)
        BY <2>1, <3>2
      <4> QED
        BY <2>1, <3>2, <4>1 DEF Keeps
    <3> QED
      BY <3>1, <3>2
  <2>4. g \in [a..c -> S]
    <3> HIDE DEF last
    <3>1. \A i \in a..c : i # c => i \in a..(c - 1)
      OBVIOUS
    <3> QED
      BY <2>3, <3>1
  <2>5. ASSUME NEW i \in a..c
        PROVE  g[i] = IF i = a THEN first ELSE step[<<i, g[i - 1]>>]
    <3>1. i # a => i - 1 \in a..c /\ i - 1 # c /\ g[i - 1] = f[i - 1]
      OBVIOUS
    <3>2. CASE i = c
      BY <3>1, <3>2
    <3>3. CASE i # c
      <4>1. i \in a..(c - 1) /\ g[i] = f[i]
        BY <3>3
      <4>2. f[i] = IF i = a THEN first ELSE step[<<i, f[i - 1]>>]
        BY <2>2, <4>1
      <4> QED
        BY <3>1, <4>1, <4>2
    <3> QED
      BY <3>2, <3>3
  <2> HIDE DEF g
  <2>6. Good(g, c)
    BY <2>5
  <2>7. c \in (a - 1)..b
    OBVIOUS
  <2> QED
    BY <2>4, <2>6, <2>7
<1>3. CASE a - 1 <= b
  <2> HIDE DEF upto
  <2> DEFINE start == a - 1
  <2>0. start \in Int /\ b \in start..b
    BY <1>3
  <2>1. /\ start <= b => upto[start] \in {TRUE}
        /\ \A c \in (start + 1)..b : upto[c - 1] \in {TRUE} => upto[c] \in {TRUE}
    BY <1>1, <1>2
  <2> HIDE DEF start
  <2>2. \A c \in start..b : upto[c] \in {TRUE}
    BY <2>0, <2>1, AlongInterval
  <2>3. upto[b] = TRUE /\ b \in (a - 1)..b
    BY <2>0, <2>2 DEF start
  <2>4. \E f \in [a..b -> S] : Good(f, b)
    BY <2>3 DEF upto
  <2> QED
    BY <2>4 DEF IsDefined
<1>4. CASE ~(a - 1 <= b)
  <2>1. a..b = {}
    BY <1>4
  <2>2. [i \in a..b |-> first] \in [a..b -> S]
    OBVIOUS
  <2> QED
    BY <2>1, <2>2 DEF IsDefined
<1> QED
  BY <1>3, <1>4 DEF IsDefined

-----------------------------------------------------------------------------
(* Whom a request resolves to.                                             *)

LEMMA FlattenSeqType ==
  ASSUME NEW A, NEW seqs \in Seq(Seq(A))
  PROVE  FlattenSeq(seqs) \in Seq(A)
<1> DEFINE n == Len(seqs)
           Places == 1..n
           Body(f) == [i \in Places |-> IF i = 1 THEN seqs[i] ELSE f[i - 1] \o seqs[i]]
           flatten == CHOOSE f : f = Body(f)
<1>1. CASE n = 0
  <2>1. seqs = << >>
    BY <1>1
  <2>2. FlattenSeq(seqs) = seqs
    BY <1>1 DEF FlattenSeq
  <2>3. << >> \in Seq(A)
    OBVIOUS
  <2> QED
    BY <2>1, <2>2, <2>3
<1>2. CASE n # 0
  <2> DEFINE first == seqs[1]
             step == [c \in Places \X Seq(A) |-> c[2] \o seqs[c[1]]]
  <2>1. n \in Nat \ {0} /\ 1 \in Places /\ n \in Places /\ \A i \in Places : seqs[i] \in Seq(A)
    BY <1>2
  <2>2. first \in Seq(A) /\ step \in [Places \X Seq(A) -> Seq(A)]
    <3>1. \A c \in Places \X Seq(A) : c[2] \in Seq(A) /\ c[1] \in Places
      OBVIOUS
    <3> HIDE DEF Places
    <3> QED
      BY <2>1, <3>1
  <2>3. \A i \in Places, x \in Seq(A) : step[<<i, x>>] = x \o seqs[i]
    OBVIOUS
  <2> HIDE DEF first, step, n
  <2> DEFINE P == Seq(A)
  <2>4. 1 \in Int /\ n \in Int /\ first \in P /\ Keeps(step, 1, n, P)
    BY <2>1, <2>2, <2>3 DEF Keeps
  <2> HIDE DEF P
  <2>5. IsDefined(1, n, P, first, step)
    BY <2>4, RecursionExists
  <2>6. PICK f \in [Places -> Seq(A)] :
          \A i \in Places : f[i] = IF i = 1 THEN first ELSE step[<<i, f[i - 1]>>]
    BY <2>5 DEF P, IsDefined
  <2>7. \A i \in Places : i # 1 => i - 1 \in Places
    BY <2>1
  <2>8. \A i \in Places : f[i] = IF i = 1 THEN seqs[i] ELSE f[i - 1] \o seqs[i]
    BY <2>3, <2>6, <2>7 DEF first
  <2>9. f = Body(f)
    BY <2>8
  <2> HIDE DEF Body
  <2>10. flatten = Body(flatten)
    BY <2>9
  <2>11. \A i \in Places : flatten[i] = IF i = 1 THEN seqs[i] ELSE flatten[i - 1] \o seqs[i]
    <3> HIDE DEF flatten
    <3> QED
      BY <2>10 DEF Body
  <2>12. FlattenSeq(seqs) = flatten[n]
    BY <1>2 DEF FlattenSeq, n, Body
  <2> HIDE DEF flatten
  <2>13. \A i \in (1 + 1)..n : i \in Places /\ i # 1
    BY <2>1
  <2> HIDE DEF Places
  <2>14. /\ 1 \in Int /\ n \in Int
         /\ 1 <= n => flatten[1] \in Seq(A)
         /\ \A i \in (1 + 1)..n : flatten[i - 1] \in Seq(A) => flatten[i] \in Seq(A)
    <3>1. 1 \in Int /\ n \in Int /\ flatten[1] \in Seq(A)
      <4>1. flatten[1] = seqs[1]
        BY <2>1, <2>11
      <4> QED
        BY <2>1, <4>1
    <3>2. ASSUME NEW i \in (1 + 1)..n, flatten[i - 1] \in Seq(A)
          PROVE  flatten[i] \in Seq(A)
      <4>1. i \in Places /\ i # 1
        BY <2>13
      <4>2. flatten[i] = flatten[i - 1] \o seqs[i] /\ seqs[i] \in Seq(A)
        BY <2>1, <2>11, <4>1
      <4> QED
        BY <3>2, <4>2
    <3> QED
      BY <3>1, <3>2
  <2> USE DEF Places
  <2>15. \A i \in 1..n : flatten[i] \in Seq(A)
    BY <2>14, AlongInterval
  <2> QED
    BY <2>1, <2>12, <2>15
<1> QED
  BY <1>1, <1>2

\* Lists that name each subscriber at most once.
Lists == {s \in Seq(Subs) : IsInjective(s)}

LEMMA AppendNew ==
  ASSUME NEW s \in Lists, NEW x \in Subs, ~Contains(s, x)
  PROVE  Append(s, x) \in Lists
<1>1. Append(s, x) \in Seq(Subs) /\ Len(Append(s, x)) = Len(s) + 1
  BY DEF Lists
<1>2. /\ \A i \in 1..Len(s) : Append(s, x)[i] = s[i]
      /\ Append(s, x)[Len(s) + 1] = x
  BY DEF Lists
<1>3. ASSUME NEW i \in 1..Len(Append(s, x)), NEW j \in 1..Len(Append(s, x)),
             Append(s, x)[i] = Append(s, x)[j]
      PROVE  i = j
  <2>1. Len(s) \in Nat /\ \A k \in 1..Len(s) : s[k] # x
    BY DEF Contains, Lists
  <2>2. \A k, l \in 1..Len(s) : s[k] = s[l] => k = l
    BY DEF Lists, IsInjective
  <2>3. i \in 1..Len(s) \/ i = Len(s) + 1
    BY <1>1, <2>1
  <2>4. j \in 1..Len(s) \/ j = Len(s) + 1
    BY <1>1, <2>1
  <2> QED
    BY <1>2, <1>3, <2>1, <2>2, <2>3, <2>4
<1>4. DOMAIN Append(s, x) = 1..Len(Append(s, x))
  BY <1>1
<1>5. IsInjective(Append(s, x))
  BY <1>3, <1>4 DEF IsInjective
<1> QED
  BY <1>1, <1>5 DEF Lists

\* A request's recipients are subscribers, each listed once, whatever it named.
LEMMA ResolveLists ==
  ASSUME NEW to \in Tos, exists \subseteq Subs
  PROVE  Resolve(to) \in Lists
<1> DEFINE seqs == [i \in DOMAIN to |-> Named(to[i])]
           named == FlattenSeq(seqs)
           n == Len(named)
           Places == 0..n
           Add(s, x) == IF Contains(s, x) THEN s ELSE Append(s, x)
           Body(f) == [i \in Places |-> IF i = 0 THEN << >>
                                   ELSE IF Contains(f[i - 1], named[i]) THEN f[i - 1]
                                        ELSE Append(f[i - 1], named[i])]
           found == CHOOSE f : f = Body(f)
<1>1. seqs \in Seq(Seq(Subs))
  <2>1. to \in Seq(Topics \cup Nat)
    BY TargetsAssumption
  <2>2. DOMAIN to = 1..Len(to) /\ Len(to) \in Nat
    BY <2>1
  <2>3. \A t : Named(t) \in Seq(Subs)
    BY TargetsAssumption DEF Named
  <2> QED
    BY <2>2, <2>3
<1> HIDE DEF seqs
<1>2. named \in Seq(Subs)
  BY <1>1, FlattenSeqType
<1> HIDE DEF named
<1>3. n \in Nat /\ 0 \in Places /\ n \in Places /\ \A i \in 1..n : named[i] \in Subs
  BY <1>2
<1> DEFINE step == [c \in Places \X Seq(Subs) |-> IF c[1] \in 1..n THEN Add(c[2], named[c[1]]) ELSE << >>]
<1>4. \A s \in Seq(Subs), x \in Subs : Add(s, x) \in Seq(Subs)
  OBVIOUS
<1>5. << >> \in Seq(Subs) /\ step \in [Places \X Seq(Subs) -> Seq(Subs)]
  <2>1. \A c \in Places \X Seq(Subs) : c[2] \in Seq(Subs)
    OBVIOUS
  <2> HIDE DEF Add, Places, n
  <2> QED
    BY <1>3, <1>4, <2>1
<1>6. \A i \in 1..n, x \in Seq(Subs) : step[<<i, x>>] = Add(x, named[i])
  BY <1>3
<1> HIDE DEF step, n
<1> DEFINE P == Seq(Subs)
           none == << >>
<1>7. 0 \in Int /\ n \in Int /\ none \in P /\ Keeps(step, 0, n, P)
  BY <1>3, <1>5 DEF Keeps
<1> HIDE DEF P, none
<1>8. IsDefined(0, n, P, none, step)
  BY <1>7, RecursionExists
<1>9. PICK f \in [Places -> Seq(Subs)] :
        \A i \in Places : f[i] = IF i = 0 THEN << >> ELSE step[<<i, f[i - 1]>>]
  BY <1>8 DEF P, none, IsDefined
<1>10. \A i \in Places : i # 0 => i - 1 \in Places /\ i \in 1..n
  BY <1>3
<1>11. \A i \in Places : f[i] = IF i = 0 THEN << >> ELSE Add(f[i - 1], named[i])
  <2> HIDE DEF Add, Places
  <2> QED
    BY <1>6, <1>9, <1>10
<1>12. f = Body(f)
  BY <1>11
<1> HIDE DEF Body
<1>13. found = Body(found)
  BY <1>12
<1> HIDE DEF found
<1>14. \A i \in Places : found[i] = IF i = 0 THEN << >> ELSE Add(found[i - 1], named[i])
  BY <1>13 DEF Body
<1>15. Resolve(to) = found[n]
  BY DEF Resolve, found, n, Body, named, seqs
<1>16. << >> \in Lists
  BY DEF Lists, IsInjective
<1>17. \A s \in Lists, x \in Subs : Add(s, x) \in Lists
  BY AppendNew
<1> HIDE DEF Add
<1>18. \A i \in (0 + 1)..n : i \in Places /\ i # 0 /\ i \in 1..n
  BY <1>3
<1> HIDE DEF Places
<1>19. /\ 0 \in Int /\ n \in Int
       /\ 0 <= n => found[0] \in Lists
       /\ \A i \in (0 + 1)..n : found[i - 1] \in Lists => found[i] \in Lists
  <2>1. 0 \in Int /\ n \in Int /\ found[0] \in Lists
    BY <1>3, <1>14, <1>16
  <2>2. ASSUME NEW i \in (0 + 1)..n, found[i - 1] \in Lists
        PROVE  found[i] \in Lists
    <3>1. i \in Places /\ i # 0 /\ i \in 1..n
      BY <1>18
    <3>2. found[i] = Add(found[i - 1], named[i]) /\ named[i] \in Subs
      BY <1>3, <1>14, <3>1
    <3> QED
      BY <1>17, <2>2, <3>2
  <2> QED
    BY <2>1, <2>2
<1> USE DEF Places
<1>20. \A i \in 0..n : found[i] \in Lists
  BY <1>19, AlongInterval
<1> QED
  BY <1>3, <1>15, <1>20
-----------------------------------------------------------------------------
(* Types.                                                                  *)

Started(q) == req[q].at # "new"

Typed ==
  /\ TypeOK /\ todo \in [Requests -> Lists]
  /\ \A r \in Requests : Started(r) => req[r].tx \in Txs
  /\ \A w \in Workers : job[w].at # "idle" => job[w].tx \in Txs

LEMMA TypedInit == Init => Typed
<1> SUFFICES ASSUME Init PROVE Typed
  OBVIOUS
<1>1. << >> \in Lists
  BY DEF Lists, IsInjective
<1>2. [at |-> "new", tx |-> NoTx, map |-> {}] \in Request /\ Idle \in Job
  BY DEF Request, Idle, Job
<1> QED
  BY <1>1, <1>2, SubsAssumption, BoundsAssumption DEF Init, Typed, TypeOK, Pairs, Started, Idle

\* Taking the first of a list of distinct subscribers.
LEMMA TakeFirst ==
  ASSUME NEW s \in Lists, s # << >>
  PROVE  /\ Head(s) \in Subs /\ Tail(s) \in Lists
         /\ Head(s) \notin ToSet(Tail(s))
         /\ ToSet(s) = {Head(s)} \cup ToSet(Tail(s))
<1>1. s \in Seq(Subs) /\ Len(s) \in Nat \ {0} /\ DOMAIN s = 1..Len(s)
  BY DEF Lists
<1>2. \A i, j \in DOMAIN s : s[i] = s[j] => i = j
  BY DEF Lists, IsInjective
<1>3. /\ Head(s) = s[1] /\ Tail(s) \in Seq(Subs) /\ DOMAIN Tail(s) = 1..(Len(s) - 1)
      /\ \A i \in 1..(Len(s) - 1) : Tail(s)[i] = s[i + 1]
  BY <1>1
<1>4. \A i \in DOMAIN s : i = 1 \/ i - 1 \in DOMAIN Tail(s)
  BY <1>1, <1>3
<1>5. \A i \in DOMAIN Tail(s) : i + 1 \in DOMAIN s /\ i + 1 # 1 /\ Tail(s)[i] = s[i + 1]
  BY <1>1, <1>3
<1>6. IsInjective(Tail(s))
  <2>1. \A i, j \in DOMAIN Tail(s) : i + 1 = j + 1 => i = j
    BY <1>3
  <2> QED
    BY <1>2, <1>5, <2>1 DEF IsInjective
<1>7. Head(s) \notin ToSet(Tail(s))
  BY <1>1, <1>2, <1>3, <1>5 DEF ToSet
<1>8. ASSUME NEW x \in ToSet(s)
      PROVE  x \in {Head(s)} \cup ToSet(Tail(s))
  <2>1. PICK i \in DOMAIN s : x = s[i]
    BY DEF ToSet
  <2>2. CASE i = 1
    BY <1>3, <2>1, <2>2
  <2>3. CASE i # 1
    <3>1. i - 1 \in DOMAIN Tail(s) /\ (i - 1) + 1 = i
      BY <1>1, <1>4, <2>3
    <3> QED
      BY <1>5, <2>1, <3>1 DEF ToSet
  <2> QED
    BY <2>2, <2>3
<1>9. Head(s) \in ToSet(s) /\ ToSet(Tail(s)) \subseteq ToSet(s)
  BY <1>1, <1>3, <1>5 DEF ToSet
<1> QED
  BY <1>1, <1>3, <1>6, <1>7, <1>8, <1>9 DEF Lists

LEMMA AnswerTyped ==
  ASSUME Typed, NEW r \in Requests, Started(r), NEW o \in Outcome, Answer(r, o)
  PROVE  /\ req' \in [Requests -> Request] /\ todo' \in [Requests -> Lists]
         /\ \A q \in Requests : Started(q)' => req'[q].tx \in Txs
<1>1. << >> \in Lists
  BY DEF Lists, IsInjective
<1> QED
  BY <1>1 DEF Typed, TypeOK, Request, Answer, Started

LEMMA PlanTyped ==
  ASSUME planned \in [Pairs -> Nat], NEW tx, NEW S, Plan(tx, S)
  PROVE  planned' \in [Pairs -> Nat]
  BY DEF Plan

LEMMA FaultTyped ==
  ASSUME Typed, Fault \/ faults' = faults
  PROVE  faults' \in 0..MaxFaults
  BY BoundsAssumption DEF Typed, TypeOK, Fault

LEMMA ChangeTyped ==
  ASSUME Typed, Change
  PROVE  changes' \in 0..MaxChanges
  BY BoundsAssumption DEF Typed, TypeOK, Change

LEMMA StartTriggerTyped ==
  ASSUME Typed, NEW r \in Requests, NEW tx \in Txs, NEW to \in Tos, StartTrigger(r, tx, to)
  PROVE  Typed'
<1>1. Resolve(to) \in Lists /\ ToSet(Resolve(to)) \subseteq Subs
  BY ResolveLists DEF TypeOK, ToSet, Lists, Typed
<1>2. [at |-> "running", tx |-> tx, map |-> {}] \in Request
  BY DEF Request
<1>3. req' \in [Requests -> Request] /\ \A q \in Requests : Started(q)' => req'[q].tx \in Txs
  BY <1>2 DEF Typed, TypeOK, StartTrigger, Started
<1> QED
  BY <1>1, <1>3 DEF Typed, TypeOK, StartTrigger, workers, world

LEMMA InsertNextTyped ==
  ASSUME Typed, NEW r \in Requests, InsertNext(r)
  PROVE  Typed'
<1> DEFINE p == <<req[r].tx, Head(todo[r])>>
<1>1. Started(r) /\ req[r].tx \in Txs /\ Head(todo[r]) \in Subs /\ Tail(todo[r]) \in Lists
  BY TakeFirst DEF Typed, TypeOK, InsertNext, Started
<1>2. p \in Pairs /\ p[2] \in Subs
  BY <1>1 DEF Pairs
<1>3. faults' \in 0..MaxFaults
  BY FaultTyped DEF InsertNext, MayFail
<1>4. notifs' \subseteq Pairs
  BY <1>2 DEF InsertNext, MayFail, Typed, TypeOK
<1>5. /\ req' \in [Requests -> Request] /\ todo' \in [Requests -> Lists]
      /\ \A q \in Requests : Started(q)' => req'[q].tx \in Txs
  <2>1. CASE (\E o \in Outcome : Answer(r, o))
    BY <1>1, <2>1, AnswerTyped
  <2>2. CASE req' = [req EXCEPT ![r].map = @ \cup {p[2]}] /\ Advance(r)
    <3> HIDE DEF p
    <3> QED
      BY <1>1, <1>2, <2>2 DEF Typed, TypeOK, Request, Advance, Started
  <2> QED
    BY <2>1, <2>2 DEF InsertNext, Outcome
<1> QED
  BY <1>3, <1>4, <1>5 DEF InsertNext, Typed, TypeOK, workers, world

LEMMA EnqueueTriggerTyped ==
  ASSUME Typed, NEW r \in Requests, EnqueueTrigger(r)
  PROVE  Typed'
<1>1. Started(r)
  BY DEF EnqueueTrigger, Started
<1>2. PICK o \in Outcome : Answer(r, o)
  BY DEF EnqueueTrigger, Outcome
<1>3. planned' \in [Pairs -> Nat]
  BY PlanTyped DEF EnqueueTrigger, MayFail, Typed, TypeOK
<1>4. faults' \in 0..MaxFaults
  BY FaultTyped DEF EnqueueTrigger, MayFail
<1> QED
  BY <1>1, <1>2, <1>3, <1>4, AnswerTyped DEF EnqueueTrigger, Typed, TypeOK, workers, world

LEMMA ApiCrashTyped ==
  ASSUME Typed, NEW r \in Requests, ApiCrash(r)
  PROVE  Typed'
<1>1. Started(r) /\ Answer(r, "error") /\ "error" \in Outcome
  BY DEF ApiCrash, Started, Outcome
<1>2. faults' \in 0..MaxFaults
  BY FaultTyped DEF ApiCrash
<1> QED
  BY <1>1, <1>2, AnswerTyped DEF ApiCrash, Typed, TypeOK, workers, world

\* A worker's task ends.
LEMMA IdleTyped ==
  ASSUME Typed, NEW w \in Workers, job' = [job EXCEPT ![w] = Idle]
  PROVE  /\ job' \in [Workers -> Job]
         /\ \A v \in Workers : job'[v].at # "idle" => job'[v].tx \in Txs
<1>1. Idle \in Job /\ Idle.at = "idle"
  BY DEF Idle, Job
<1> QED
  BY <1>1 DEF Typed, TypeOK

LEMMA QueueTyped ==
  ASSUME Typed, NEW tx \in Txs, queue' = [queue EXCEPT ![tx] = @ + 1]
  PROVE  queue' \in [Txs -> Nat]
  BY DEF Typed, TypeOK

LEMMA BroadcastTyped ==
  ASSUME Typed, NEW tx \in Txs, Broadcast(tx)
  PROVE  Typed'
<1>1. queue' \in [Txs -> Nat]
  BY QueueTyped DEF Broadcast
<1>2. broadcasts' \in 0..MaxBroadcasts
  BY BoundsAssumption DEF Broadcast, Typed, TypeOK
<1> QED
  BY <1>1, <1>2 DEF Broadcast, Typed, TypeOK, world, api, Started

LEMMA BeginBroadcastTyped ==
  ASSUME Typed, NEW w \in Workers, NEW tx \in Txs, BeginBroadcast(w, tx)
  PROVE  Typed'
<1> DEFINE begun == [Idle EXCEPT !.at = "page", !.tx = tx, !.audience = exists]
<1>1. begun \in Job /\ begun.tx = tx
  BY DEF Idle, Job, Typed, TypeOK
<1>2. job' = job \/ job' = [job EXCEPT ![w] = begun]
  BY DEF BeginBroadcast
<1> HIDE DEF begun
<1>3. /\ job' \in [Workers -> Job]
      /\ \A v \in Workers : job'[v].at # "idle" => job'[v].tx \in Txs
  BY <1>1, <1>2 DEF Typed, TypeOK
<1>4. queue' \in [Txs -> Nat]
  BY DEF BeginBroadcast, Typed, TypeOK
<1> QED
  BY <1>3, <1>4 DEF BeginBroadcast, Typed, TypeOK, world, api, Started

LEMMA ReadPageTyped ==
  ASSUME Typed, NEW w \in Workers, ReadPage(w)
  PROVE  Typed'
<1> DEFINE page == Page(job[w].last)
<1>1. page \subseteq exists /\ exists \subseteq Subs /\ job[w].tx \in Txs
  BY DEF Page, Typed, TypeOK, ReadPage
<1> HIDE DEF page
<1>2. /\ job' \in [Workers -> Job]
      /\ \A v \in Workers : job'[v].at # "idle" => job'[v].tx \in Txs
      /\ reached' \subseteq Pairs
  <2>1. CASE /\ job' = [job EXCEPT ![w] = Idle]
             /\ reached' = reached \cup {<<job[w].tx, s>> : s \in job[w].audience}
    <3>1. {<<job[w].tx, s>> : s \in job[w].audience} \subseteq Pairs
      BY <1>1 DEF Typed, TypeOK, Job, Pairs
    <3> QED
      BY <2>1, <3>1, IdleTyped DEF Typed, TypeOK
  <2>2. CASE /\ \E last \in page :
                  job' = [job EXCEPT ![w].at = "batch", ![w].batch = page,
                                     ![w].map = {}, ![w].last = last]
             /\ reached' = reached
    <3>1. PICK last \in page :
            job' = [job EXCEPT ![w].at = "batch", ![w].batch = page,
                               ![w].map = {}, ![w].last = last]
      BY <2>2
    <3> DEFINE next == [job[w] EXCEPT !.at = "batch", !.batch = page, !.map = {}, !.last = last]
    <3>2. next \in Job /\ next.tx = job[w].tx
      BY <1>1 DEF Typed, TypeOK, Job
    <3>3. job' = [job EXCEPT ![w] = next]
      BY <3>1
    <3> HIDE DEF next
    <3> QED
      BY <1>1, <2>2, <3>2, <3>3 DEF Typed, TypeOK
  <2> QED
    BY <2>1, <2>2 DEF ReadPage, page
<1> QED
  BY <1>2 DEF ReadPage, Typed, TypeOK, world, api, Started

LEMMA InsertForNextTyped ==
  ASSUME Typed, NEW w \in Workers, InsertForNext(w)
  PROVE  Typed'
<1>1. PICK s \in job[w].batch :
        /\ notifs' = notifs \/ notifs' = notifs \cup {<<job[w].tx, s>>}
        /\ \/ job' = [job EXCEPT ![w].batch = @ \ {s}, ![w].map = @ \cup {s}]
           \/ job' = [job EXCEPT ![w].batch = @ \ {s}]
  BY DEF InsertForNext, MayFail
<1>2. s \in Subs /\ job[w].tx \in Txs
  BY DEF InsertForNext, Typed, TypeOK, Job
<1>3. notifs' \subseteq Pairs
  BY <1>1, <1>2 DEF Typed, TypeOK, Pairs
<1>4. /\ job' \in [Workers -> Job]
      /\ \A v \in Workers : job'[v].at # "idle" => job'[v].tx \in Txs
  <2>1. CASE job' = [job EXCEPT ![w].batch = @ \ {s}, ![w].map = @ \cup {s}]
    <3> DEFINE next == [job[w] EXCEPT !.batch = @ \ {s}, !.map = @ \cup {s}]
    <3>1. next \in Job /\ next.tx = job[w].tx
      BY <1>2 DEF Typed, TypeOK, Job
    <3>2. job' = [job EXCEPT ![w] = next]
      BY <2>1
    <3> HIDE DEF next
    <3> QED
      BY <1>2, <3>1, <3>2 DEF Typed, TypeOK
  <2>2. CASE job' = [job EXCEPT ![w].batch = @ \ {s}]
    BY <1>2, <2>2 DEF Typed, TypeOK, Job
  <2> QED
    BY <1>1, <2>1, <2>2
<1>5. faults' \in 0..MaxFaults
  BY FaultTyped DEF InsertForNext, MayFail
<1> QED
  BY <1>3, <1>4, <1>5 DEF InsertForNext, Typed, TypeOK, world, api, Started

LEMMA EndBatchTyped ==
  ASSUME Typed, NEW w \in Workers, EndBatch(w)
  PROVE  Typed'
<1>1. planned' \in [Pairs -> Nat]
  BY PlanTyped DEF EndBatch, MayFail, Typed, TypeOK
<1>2. faults' \in 0..MaxFaults
  BY FaultTyped DEF EndBatch, MayFail
<1>3. queue' \in [Txs -> Nat]
  BY QueueTyped DEF EndBatch, Typed, TypeOK
<1>4. /\ job' \in [Workers -> Job]
      /\ \A v \in Workers : job'[v].at # "idle" => job'[v].tx \in Txs
  <2>1. CASE job' = [job EXCEPT ![w] = Idle]
    BY <2>1, IdleTyped
  <2>2. CASE job' = [job EXCEPT ![w].at = "page", ![w].map = {}]
    BY <2>2 DEF EndBatch, Typed, TypeOK, Job
  <2> QED
    BY <2>1, <2>2 DEF EndBatch
<1> QED
  BY <1>1, <1>2, <1>3, <1>4 DEF EndBatch, Typed, TypeOK, world, api, Started

LEMMA RerunTyped ==
  ASSUME Typed, NEW w \in Workers, Rerun(w)
  PROVE  Typed'
<1>1. faults' \in 0..MaxFaults
  BY FaultTyped DEF Rerun
<1>2. queue' \in [Txs -> Nat]
  BY QueueTyped DEF Rerun, Typed
<1> QED
  BY <1>1, <1>2, IdleTyped DEF Rerun, Typed, TypeOK, world, api, Started

LEMMA LeaveTyped ==
  ASSUME Typed, NEW s \in Subs, Leave(s)
  PROVE  Typed'
<1>1. /\ job' \in [Workers -> Job]
      /\ \A v \in Workers : job'[v].at # "idle" => job'[v].tx \in Txs
  BY DEF Leave, Typed, TypeOK, Job
<1>2. changes' \in 0..MaxChanges /\ exists' \subseteq Subs
  BY ChangeTyped DEF Leave, Typed, TypeOK
<1> QED
  BY <1>1, <1>2 DEF Leave, Typed, TypeOK, api, Started

LEMMA TypedNext == Typed /\ [Next]_vars => Typed'
<1> SUFFICES ASSUME Typed, [Next]_vars PROVE Typed'
  OBVIOUS
<1>1. CASE \E r \in Requests : \/ \E tx \in Txs, to \in Tos : StartTrigger(r, tx, to)
                               \/ HandleTrigger(r) \/ ApiCrash(r)
  BY <1>1, StartTriggerTyped, InsertNextTyped, EnqueueTriggerTyped, ApiCrashTyped DEF HandleTrigger
<1>2. CASE \E w \in Workers : HandleBroadcast(w) \/ Rerun(w)
  BY <1>2, BeginBroadcastTyped, ReadPageTyped, InsertForNextTyped, EndBatchTyped, RerunTyped
     DEF HandleBroadcast
<1>3. CASE (\E tx \in Txs : Broadcast(tx)) \/ (\E s \in Subs : Leave(s))
  BY <1>3, BroadcastTyped, LeaveTyped
<1>4. ASSUME NEW s \in Subs, Join(s)
      PROVE  Typed'
  <2>1. changes' \in 0..MaxChanges /\ exists' \subseteq Subs
    BY <1>4, ChangeTyped DEF Join, Typed, TypeOK
  <2> QED
    BY <1>4, <2>1 DEF Join, Typed, TypeOK, api, workers, Started
<1>5. CASE SetActive
  <2>1. changes' \in 0..MaxChanges /\ active' \in BOOLEAN
    BY <1>5, ChangeTyped DEF SetActive, Typed, TypeOK
  <2> QED
    BY <1>5, <2>1 DEF SetActive, Typed, TypeOK, api, workers, Started
<1>6. CASE UNCHANGED vars
  BY <1>6 DEF vars, Typed, TypeOK, Started
<1> QED
  BY <1>1, <1>2, <1>3, <1>4, <1>5, <1>6 DEF Next

\* Whatever runs, every part of the state has its type (Ingest's invariant
\* TypeOK); a request's list of recipients names each subscriber once
\* (resolveRecipients).
THEOREM TypeCorrect == Spec => []TypeOK
<1>1. Spec => []Typed
  BY TypedInit, TypedNext, PTL DEF Spec
<1>2. Typed => TypeOK
  BY DEF Typed
<1> QED
  BY <1>1, <1>2, PTL
-----------------------------------------------------------------------------
(* What an accepted request, and a refused one, was.                       *)

\* A request's recipients are listed until they are inserted, and then in its map.
Accounts ==
  /\ \A r \in Requests : req[r].at = "running" => recipients[r] = ToSet(todo[r]) \cup req[r].map
  /\ AcceptedIsDispatched

\* A trigger task is never taken back.
LEMMA PlannedStays ==
  ASSUME Inv, Typed, [Next]_vars, NEW p \in Pairs, planned[p] = 1
  PROVE  planned'[p] = 1
<1>1. planned'[p] \in {0, 1}
  BY InvNext DEF Inv, Custody
<1>2. planned'[p] >= planned[p]
  <2>1. planned' = planned \/ \E tx, S : Plan(tx, S)
    BY DEF Next, vars, StartTrigger, HandleTrigger, InsertNext, EnqueueTrigger, ApiCrash, MayFail,
           Broadcast, HandleBroadcast, BeginBroadcast, ReadPage, InsertForNext, EndBatch, Rerun,
           Join, Leave, SetActive
  <2>2. planned \in [Pairs -> Nat]
    BY DEF Inv, Shape
  <2> QED
    BY <2>1, <2>2, PlanEffect
<1> QED
  BY <1>1, <1>2

RequestStep(r) ==
  (\E tx \in Txs, to \in Tos : StartTrigger(r, tx, to)) \/ HandleTrigger(r) \/ ApiCrash(r)

\* A step is a request's, or leaves all requests alone.
LEMMA RequestsMove ==
  ASSUME [Next]_vars
  PROVE  (\E r \in Requests : RequestStep(r)) \/ UNCHANGED api
  BY DEF Next, vars, api, RequestStep, Broadcast, HandleBroadcast, BeginBroadcast, ReadPage,
         InsertForNext, EndBatch, Rerun, Join, Leave, SetActive

\* What a step does to the requests, one by one.
LEMMA RequestMoves ==
  ASSUME Typed, NEW r \in Requests, RequestStep(r)
  PROVE  /\ \A q \in Requests \ {r} : /\ req'[q] = req[q] /\ todo'[q] = todo[q]
                                      /\ recipients'[q] = recipients[q]
         /\ Started(r)' /\ (Started(r) => req'[r].tx = req[r].tx)
         /\ \/ \E tx \in Txs, to \in Tos : StartTrigger(r, tx, to)
            \/ Started(r) /\ recipients' = recipients
<1>1. CASE \E tx \in Txs, to \in Tos : StartTrigger(r, tx, to)
  <2>1. PICK tx \in Txs, to \in Tos : StartTrigger(r, tx, to)
    BY <1>1
  <2>2. req'[r].at = "running" /\ ~Started(r)
    BY <2>1 DEF Typed, TypeOK, StartTrigger, Started
  <2>3. \A q \in Requests \ {r} : /\ req'[q] = req[q] /\ todo'[q] = todo[q]
                                  /\ recipients'[q] = recipients[q]
    BY <2>1 DEF Typed, TypeOK, StartTrigger
  <2> QED
    BY <2>1, <2>2, <2>3 DEF Started
<1>2. ASSUME NEW o \in Outcome, Answer(r, o), Started(r)
      PROVE  /\ \A q \in Requests \ {r} : req'[q] = req[q] /\ todo'[q] = todo[q]
             /\ Started(r)' /\ req'[r].tx = req[r].tx
  BY <1>2 DEF Typed, TypeOK, Request, Answer, Started, Outcome
<1>3. CASE InsertNext(r)
  <2>1. Started(r) /\ recipients' = recipients
    BY <1>3 DEF InsertNext, Started
  <2>2. \/ \E o \in Outcome : Answer(r, o)
        \/ \E x : req' = [req EXCEPT ![r].map = x] /\ Advance(r)
    BY <1>3 DEF InsertNext, Outcome
  <2>3. CASE \E x : req' = [req EXCEPT ![r].map = x] /\ Advance(r)
    <3>1. /\ \A q \in Requests \ {r} : req'[q] = req[q] /\ todo'[q] = todo[q]
          /\ req'[r].tx = req[r].tx /\ req'[r].at = req[r].at
      BY <2>3 DEF Typed, TypeOK, Request, Advance
    <3> QED
      BY <2>1, <3>1 DEF Started
  <2> QED
    BY <1>2, <2>1, <2>2, <2>3
<1>4. CASE EnqueueTrigger(r) \/ ApiCrash(r)
  <2>1. Started(r) /\ recipients' = recipients /\ \E o \in Outcome : Answer(r, o)
    BY <1>4 DEF EnqueueTrigger, ApiCrash, Started, Outcome
  <2> QED
    BY <1>2, <2>1
<1> QED
  BY <1>1, <1>3, <1>4 DEF RequestStep, HandleTrigger

LEMMA AccountsInit == Init => Accounts
  BY DEF Init, Accounts, AcceptedIsDispatched

\* What was told stays true.
LEMMA ToldStays ==
  ASSUME Inv, Typed, [Next]_vars, Accounts, NEW q \in Requests,
         req'[q] = req[q], recipients'[q] = recipients[q], req'[q].at = "accepted",
         NEW s \in recipients'[q]
  PROVE  planned'[<<req'[q].tx, s>>] = 1
<1>1. <<req[q].tx, s>> \in Pairs
  BY DEF Typed, TypeOK, Started, Pairs
<1>2. planned[<<req[q].tx, s>>] = 1
  BY DEF Accounts, AcceptedIsDispatched
<1> QED
  BY <1>1, <1>2, PlannedStays

LEMMA AccountsNext ==
  ASSUME Inv, Typed, Accounts, [Next]_vars
  PROVE  Accounts'
<1>1. CASE UNCHANGED api
  <2>1. \A q \in Requests : req'[q] = req[q] /\ recipients'[q] = recipients[q] /\ todo'[q] = todo[q]
    BY <1>1 DEF api
  <2> QED
    BY <2>1, ToldStays DEF Accounts, AcceptedIsDispatched
<1>2. ASSUME NEW r \in Requests, RequestStep(r)
      PROVE  Accounts'
  <2>1. \A q \in Requests \ {r} : /\ req'[q] = req[q] /\ todo'[q] = todo[q]
                                  /\ recipients'[q] = recipients[q]
    BY <1>2, RequestMoves
  <2>2. SUFFICES
          /\ req'[r].at = "running" => recipients'[r] = ToSet(todo'[r]) \cup req'[r].map
          /\ req'[r].at = "accepted" => \A s \in recipients'[r] : planned'[<<req'[r].tx, s>>] = 1
    BY <2>1, ToldStays DEF Accounts, AcceptedIsDispatched
  <2>3. CASE \E tx \in Txs, to \in Tos : StartTrigger(r, tx, to)
    BY <2>3 DEF StartTrigger, Typed, TypeOK
  <2>4. CASE InsertNext(r)
    <3>1. todo[r] \in Lists /\ todo[r] # << >> /\ req[r].at = "running"
      BY <2>4 DEF InsertNext, Typed
    <3>2. recipients[r] = ToSet(todo[r]) \cup req[r].map /\ recipients' = recipients
      BY <2>4, <3>1 DEF Accounts, InsertNext
    <3>3. \/ req'[r].at \in {"duplicate", "error"}
          \/ /\ req'[r] = [req[r] EXCEPT !.map = @ \cup {Head(todo[r])}]
             /\ todo'[r] = Tail(todo[r])
      BY <2>4 DEF InsertNext, Typed, TypeOK, Answer, Advance, Request
    <3>4. CASE req'[r].at \in {"duplicate", "error"}
      BY <3>4
    <3>5. CASE /\ req'[r] = [req[r] EXCEPT !.map = @ \cup {Head(todo[r])}]
               /\ todo'[r] = Tail(todo[r])
      <4>1. req'[r].at = "running" /\ req'[r].map = req[r].map \cup {Head(todo[r])}
        BY <3>1, <3>5 DEF Typed, TypeOK, Request
      <4>2. ToSet(todo[r]) = {Head(todo[r])} \cup ToSet(Tail(todo[r]))
        BY <3>1, TakeFirst
      <4> QED
        BY <3>2, <3>5, <4>1, <4>2
    <3> QED
      BY <3>3, <3>4, <3>5
  <2>5. CASE EnqueueTrigger(r)
    <3>1. req[r].at = "running" /\ todo[r] = << >> /\ recipients' = recipients
      BY <2>5 DEF EnqueueTrigger
    <3>2. recipients[r] = req[r].map
      <4>1. ToSet(<< >>) = {}
      BY DEF ToSet
    <4> QED
      BY <3>1, <4>1 DEF Accounts
    <3>3. req'[r].at # "running" /\ req'[r].tx = req[r].tx
      BY <2>5 DEF EnqueueTrigger, Answer, Typed, TypeOK, Request
    <3>4. req'[r].at = "accepted" => Plan(req[r].tx, req[r].map)
      BY <2>5 DEF EnqueueTrigger, Answer, Typed, TypeOK, Request
    <3>5. ASSUME req'[r].at = "accepted", NEW s \in req[r].map
          PROVE  planned'[<<req[r].tx, s>>] = 1
      <4> DEFINE p == <<req[r].tx, s>>
      <4>1. p \in Pairs /\ p[1] = req[r].tx /\ p[2] = s
        BY <3>1 DEF Typed, TypeOK, Request, Started, Pairs
      <4>2. planned[p] = 0
        BY <4>1 DEF Inv, Custody, ByRequest
      <4> HIDE DEF p
      <4>3. planned'[p] = planned[p] + 1
        BY <3>4, <3>5, <4>1, PlanEffect DEF Inv, Shape
      <4> QED
        BY <4>2, <4>3 DEF p
    <3> QED
      BY <3>1, <3>2, <3>3, <3>5
  <2>6. CASE ApiCrash(r)
    BY <2>6 DEF ApiCrash, Answer, Typed, TypeOK, Request
  <2> QED
    BY <1>2, <2>3, <2>4, <2>5, <2>6 DEF RequestStep, HandleTrigger
<1> QED
  BY <1>1, <1>2, RequestsMove

\* A caller that was told 201 has every recipient in a trigger task, and in one only
\* (TriggerService.Trigger answers after its enqueue).
THEOREM Accepted == Spec => []AcceptedIsDispatched
<1>1. Inv /\ Typed /\ Accounts /\ [Next]_vars => (Inv /\ Typed /\ Accounts)'
  BY InvNext, TypedNext, AccountsNext
<1>2. Init => Inv /\ Typed /\ Accounts
  BY InvInit, TypedInit, AccountsInit
<1>3. Accounts => AcceptedIsDispatched
  BY DEF Accounts
<1>4. Spec => [](Inv /\ Typed /\ Accounts)
  BY <1>1, <1>2, PTL DEF Spec
<1> QED
  BY <1>3, <1>4, PTL
-----------------------------------------------------------------------------
(* Where a duplicate comes from.                                           *)

\* Before the first broadcast no worker runs, a notification is there because a
\* request has passed it, and who was refused met such a notification.
Origin ==
  broadcasts = 0 =>
    /\ \A w \in Workers : job[w].at = "idle"
    /\ \A tx \in Txs : queue[tx] = 0
    /\ \A p \in notifs : \E q \in Requests :
         Started(q) /\ req[q].tx = p[1] /\ p[2] \notin ToSet(todo[q])
    /\ \A r \in Requests : req[r].at = "duplicate" =>
         \E q \in Requests \ {r} : Started(q) /\ req[q].tx = req[r].tx

LEMMA OriginInit == Init => Origin
  BY DEF Init, Origin, Idle

\* Without broadcasts only requests and the audience move.
LEMMA NoBroadcastStep ==
  ASSUME Typed, Origin, [Next]_vars, broadcasts' = 0
  PROVE  /\ broadcasts = 0
         /\ \A w \in Workers : job'[w].at = "idle"
         /\ \A tx \in Txs : queue'[tx] = 0
         /\ (\E r \in Requests : RequestStep(r)) \/ (UNCHANGED api /\ notifs' = notifs)
<1>1. broadcasts = 0
  <2>1. broadcasts' = broadcasts \/ broadcasts' = broadcasts + 1
    BY DEF Next, vars, StartTrigger, HandleTrigger, InsertNext, EnqueueTrigger, ApiCrash,
           Broadcast, HandleBroadcast, BeginBroadcast, ReadPage, InsertForNext, EndBatch, Rerun,
           Join, Leave, SetActive
  <2> QED
    BY <2>1 DEF Typed, TypeOK
<1>2. /\ \A w \in Workers : job[w].at = "idle"
      /\ \A tx \in Txs : queue[tx] = 0
  BY <1>1 DEF Origin
<1>3. ~ \E w \in Workers : HandleBroadcast(w) \/ Rerun(w)
  <2>1. ASSUME NEW w \in Workers
        PROVE  ~(ReadPage(w) \/ InsertForNext(w) \/ EndBatch(w) \/ Rerun(w))
    BY <1>2 DEF ReadPage, InsertForNext, EndBatch, Rerun
  <2>2. ASSUME NEW w \in Workers, NEW tx \in Txs
        PROVE  ~BeginBroadcast(w, tx)
    <3>1. ~(queue[tx] > 0)
      BY <1>2
    <3> QED
      BY <3>1 DEF BeginBroadcast
  <2> QED
    BY <2>1, <2>2 DEF HandleBroadcast
<1>4. ~ \E tx \in Txs : Broadcast(tx)
  BY <1>1 DEF Broadcast
<1>5. CASE \E r \in Requests : RequestStep(r)
  <2>1. UNCHANGED <<queue, job>>
    BY <1>5 DEF RequestStep, StartTrigger, HandleTrigger, InsertNext, EnqueueTrigger, ApiCrash, workers
  <2> QED
    BY <1>1, <1>2, <1>5, <2>1
<1>6. ASSUME NEW s \in Subs, Leave(s)
      PROVE  /\ \A w \in Workers : job'[w].at = "idle"
             /\ UNCHANGED <<queue, api, notifs>>
  BY <1>2, <1>6 DEF Leave, Typed, TypeOK, Job
<1>7. CASE (\E s \in Subs : Join(s)) \/ SetActive \/ UNCHANGED vars
  <2>1. UNCHANGED <<queue, job, api, notifs>>
    BY <1>7 DEF Join, SetActive, vars, workers, api
  <2> QED
    BY <1>1, <1>2, <2>1
<1> QED
  BY <1>1, <1>2, <1>3, <1>4, <1>5, <1>6, <1>7 DEF Next, RequestStep

LEMMA OriginNext ==
  ASSUME Typed, Origin, [Next]_vars
  PROVE  Origin'
<1> SUFFICES ASSUME broadcasts' = 0
             PROVE  /\ \A p \in notifs' : \E q \in Requests :
                         Started(q)' /\ req'[q].tx = p[1] /\ p[2] \notin ToSet(todo'[q])
                    /\ \A r \in Requests : req'[r].at = "duplicate" =>
                         \E q \in Requests \ {r} : Started(q)' /\ req'[q].tx = req'[r].tx
  BY NoBroadcastStep DEF Origin
<1>1. /\ \A p \in notifs : \E q \in Requests :
           Started(q) /\ req[q].tx = p[1] /\ p[2] \notin ToSet(todo[q])
      /\ \A r \in Requests : req[r].at = "duplicate" =>
           \E q \in Requests \ {r} : Started(q) /\ req[q].tx = req[r].tx
  BY NoBroadcastStep DEF Origin
<1>2. CASE UNCHANGED api /\ notifs' = notifs
  BY <1>1, <1>2 DEF api, Started
<1>3. ASSUME NEW r \in Requests, RequestStep(r)
      PROVE  /\ \A p \in notifs' : \E q \in Requests :
                  Started(q)' /\ req'[q].tx = p[1] /\ p[2] \notin ToSet(todo'[q])
             /\ \A t \in Requests : req'[t].at = "duplicate" =>
                  \E q \in Requests \ {t} : Started(q)' /\ req'[q].tx = req'[t].tx
  <2>1. /\ \A q \in Requests \ {r} : req'[q] = req[q] /\ todo'[q] = todo[q]
        /\ Started(r)' /\ (Started(r) => req'[r].tx = req[r].tx)
    BY <1>3, RequestMoves
  <2>2. \A q \in Requests : Started(q) => Started(q)' /\ req'[q].tx = req[q].tx
    BY <2>1 DEF Started
  <2>3. /\ Started(r) => ToSet(todo'[r]) \subseteq ToSet(todo[r])
        /\ \/ notifs' = notifs
           \/ /\ InsertNext(r) /\ notifs' = notifs \cup {<<req[r].tx, Head(todo[r])>>}
              /\ Head(todo[r]) \notin ToSet(todo'[r])
        /\ req'[r].at = "duplicate" =>
             InsertNext(r) /\ <<req[r].tx, Head(todo[r])>> \in notifs
    <3>1. CASE \E tx \in Txs, to \in Tos : StartTrigger(r, tx, to)
      BY <3>1 DEF StartTrigger, Started, Typed, TypeOK, Request
    <3>2. ToSet(<< >>) = {}
      BY DEF ToSet
    <3>3. CASE InsertNext(r)
      <4>1. todo[r] \in Lists /\ todo[r] # << >> /\ req[r].at = "running"
        BY <3>3 DEF InsertNext, Typed
      <4>2. /\ Head(todo[r]) \notin ToSet(Tail(todo[r]))
            /\ ToSet(Tail(todo[r])) \subseteq ToSet(todo[r])
        BY <4>1, TakeFirst
      <4>3. todo'[r] = Tail(todo[r]) \/ todo'[r] = << >>
        BY <3>3 DEF InsertNext, Answer, Advance, Typed
      <4>4. notifs' = notifs \/ notifs' = notifs \cup {<<req[r].tx, Head(todo[r])>>}
        BY <3>3 DEF InsertNext, MayFail
      <4>5. req'[r].at = "duplicate" => <<req[r].tx, Head(todo[r])>> \in notifs
        BY <3>3, <4>1 DEF InsertNext, Answer, Typed, TypeOK, Request
      <4> QED
        BY <3>2, <3>3, <4>2, <4>3, <4>4, <4>5
    <3>4. CASE EnqueueTrigger(r) \/ ApiCrash(r)
      <4>1. /\ notifs' = notifs /\ todo'[r] = << >>
            /\ req'[r].at # "duplicate"
        BY <3>4 DEF EnqueueTrigger, ApiCrash, Answer, Typed, TypeOK, Request
      <4> QED
        BY <3>2, <4>1
    <3> QED
      BY <1>3, <3>1, <3>3, <3>4 DEF RequestStep, HandleTrigger
  <2>4. ASSUME NEW p \in notifs'
        PROVE  \E q \in Requests : Started(q)' /\ req'[q].tx = p[1] /\ p[2] \notin ToSet(todo'[q])
    <3>1. CASE p \in notifs
      <4>1. PICK q \in Requests : Started(q) /\ req[q].tx = p[1] /\ p[2] \notin ToSet(todo[q])
        BY <1>1, <3>1
      <4>2. p[2] \notin ToSet(todo'[q])
        BY <2>1, <2>3, <4>1
      <4> QED
        BY <2>2, <4>1, <4>2
    <3>2. CASE p \notin notifs
      <4>1. InsertNext(r) /\ p = <<req[r].tx, Head(todo[r])>> /\ Head(todo[r]) \notin ToSet(todo'[r])
        BY <2>3, <3>2
      <4>2. Started(r) /\ p[1] = req[r].tx /\ p[2] = Head(todo[r])
        BY <4>1 DEF InsertNext, Started
      <4> QED
        BY <2>2, <4>1, <4>2
    <3> QED
      BY <3>1, <3>2
  <2>5. ASSUME NEW t \in Requests, req'[t].at = "duplicate"
        PROVE  \E q \in Requests \ {t} : Started(q)' /\ req'[q].tx = req'[t].tx
    <3>1. CASE req[t].at = "duplicate"
      <4>1. PICK q \in Requests \ {t} : Started(q) /\ req[q].tx = req[t].tx
        BY <1>1, <3>1
      <4>2. Started(t)
        BY <3>1 DEF Started
      <4> QED
        BY <2>2, <4>1, <4>2
    <3>2. CASE req[t].at # "duplicate"
      <4>1. t = r /\ InsertNext(r) /\ <<req[r].tx, Head(todo[r])>> \in notifs
        BY <2>1, <2>3, <2>5, <3>2
      <4>2. PICK q \in Requests :
              Started(q) /\ req[q].tx = req[r].tx /\ Head(todo[r]) \notin ToSet(todo[q])
        BY <1>1, <4>1
      <4>3. Started(r) /\ Head(todo[r]) \in ToSet(todo[r])
        BY <4>1, TakeFirst DEF InsertNext, Started, Typed
      <4> QED
        BY <2>2, <4>1, <4>2, <4>3
    <3> QED
      BY <3>1, <3>2
  <2> QED
    BY <2>4, <2>5
<1> QED
  BY <1>2, <1>3, NoBroadcastStep

\* Nobody is refused for naming a subscriber twice: behind every refusal as a
\* duplicate is another request of that transaction, or a broadcast
\* (resolveRecipients lists each once, and the index is per transaction).
THEOREM Rival == Spec => []DuplicateHasRival
<1>1. Typed /\ Origin /\ [Next]_vars => (Typed /\ Origin)'
  BY TypedNext, OriginNext
<1>2. Init => Typed /\ Origin
  BY TypedInit, OriginInit
<1>3. Typed /\ Origin => DuplicateHasRival
  BY DEF Typed, TypeOK, Origin, DuplicateHasRival
<1>4. Spec => [](Typed /\ Origin)
  BY <1>1, <1>2, PTL DEF Spec
<1> QED
  BY <1>3, <1>4, PTL
-----------------------------------------------------------------------------
(* The walk over the audience.                                             *)

\* A page leaves no one out between its ends, and is empty only at the end.
LEMMA PageFacts ==
  ASSUME exists \subseteq Subs, NEW last \in Nat
  PROVE  /\ Page(last) \subseteq exists
         /\ Page(last) = {} => \A s \in exists : s <= last
         /\ \A s \in exists, m \in Page(last) : s > last /\ s <= m => s \in Page(last)
<1> DEFINE after == {s \in exists : s > last}
           upTo(s) == {r \in after : r <= s}
<1>1. after \subseteq Nat
  BY SubsAssumption
<1>2. Page(last) = {s \in after : Cardinality(upTo(s)) <= BatchSize}
  BY DEF Page
<1>3. ASSUME NEW s \in exists, ~(s <= last)
      PROVE  Page(last) # {}
  <2>1. s \in after
    BY <1>3, SubsAssumption
  <2> HIDE DEF after
  <2>2. PICK m \in after : \A n \in after : m <= n
    BY <1>1, <2>1, LeastNat
  <2>3. upTo(m) = {m}
    <3>1. m \in Nat /\ \A r \in after : r \in Nat /\ m <= r
      BY <1>1, <2>2
    <3>2. \A r \in after : r <= m <=> r = m
      BY <3>1
    <3> QED
      BY <2>2, <3>2
  <2>4. Cardinality(upTo(m)) = 1
    BY <2>3, FS_Singleton
  <2>5. 1 <= BatchSize
    BY BatchAssumption
  <2> QED
    BY <1>2, <2>2, <2>4, <2>5
<1>4. ASSUME NEW s \in exists, NEW m \in Page(last), s > last, s <= m
      PROVE  s \in Page(last)
  <2>1. s \in after /\ m \in after /\ Cardinality(upTo(m)) <= BatchSize
    BY <1>2, <1>4
  <2>2. upTo(s) \subseteq upTo(m)
    <3>1. s \in Nat /\ m \in Nat /\ \A r \in after : r \in Nat
      BY <1>1, <2>1
    <3>2. \A r \in after : r <= s => r <= m
      BY <1>4, <3>1
    <3> QED
      BY <3>2
  <2>3. IsFiniteSet(upTo(m))
    <3>1. upTo(m) \subseteq 0..m
      <4>1. m \in Nat /\ \A r \in after : r \in Nat
        BY <1>1, <2>1
      <4>2. \A r \in after : r <= m => r \in 0..m
        BY <4>1
      <4> QED
        BY <4>2
    <3>2. IsFiniteSet(0..m)
      BY <1>1, <2>1, FS_Interval
    <3> HIDE DEF upTo
    <3> QED
      BY <3>1, <3>2, FS_Subset
  <2> HIDE DEF upTo, after
  <2>4. /\ Cardinality(upTo(s)) \in Nat /\ Cardinality(upTo(m)) \in Nat
        /\ Cardinality(upTo(s)) <= Cardinality(upTo(m))
    BY <2>2, <2>3, FS_Subset, FS_CardinalityType
  <2>5. Cardinality(upTo(s)) <= BatchSize
    BY <2>1, <2>4, BatchAssumption
  <2> QED
    BY <1>2, <2>1, <2>5
<1> QED
  BY <1>2, <1>3, <1>4

\* What a handler has seen of its audience: without faults everyone up to its last
\* page has a notification, or is in the rest of the page.
WalkOf(j) ==
  /\ j.at # "batch" => j.map = {} /\ j.batch = {}
  /\ j.at # "idle" => j.audience \subseteq exists
  /\ faults = 0 /\ j.at # "idle" =>
       \A s \in j.audience : s <= j.last => s \in j.batch \/ <<j.tx, s>> \in notifs

Walk ==
  /\ \A w \in Workers : WalkOf(job[w])
  /\ faults = 0 => reached \subseteq notifs

LEMMA WalkInit == Init => Walk
  BY DEF Init, Walk, WalkOf, Idle

LEMMA NotifsStay ==
  ASSUME [Next]_vars
  PROVE  notifs \subseteq notifs'
  BY DEF Next, vars, StartTrigger, HandleTrigger, InsertNext, EnqueueTrigger, ApiCrash, MayFail,
         Broadcast, HandleBroadcast, BeginBroadcast, ReadPage, InsertForNext, EndBatch, Rerun,
         Join, Leave, SetActive

LEMMA FaultsStay ==
  ASSUME Typed, [Next]_vars, faults' = 0
  PROVE  faults = 0
<1>1. faults' = faults \/ faults' = faults + 1
  BY DEF Next, vars, StartTrigger, HandleTrigger, InsertNext, EnqueueTrigger, ApiCrash, MayFail,
         Fault, Broadcast, HandleBroadcast, BeginBroadcast, ReadPage, InsertForNext, EndBatch,
         Rerun, Join, Leave, SetActive
<1> QED
  BY <1>1 DEF Typed, TypeOK

LEMMA FaultCounts ==
  ASSUME Typed, Fault
  PROVE  faults' # 0
  BY DEF Typed, TypeOK, Fault

\* A handler that has not moved has still seen what it had.
LEMMA WalkStays ==
  ASSUME Typed, Walk, [Next]_vars, NEW w \in Workers, job'[w] = job[w], exists \subseteq exists'
  PROVE  WalkOf(job[w])'
  BY NotifsStay, FaultsStay DEF Walk, WalkOf

LEMMA ReachedStays ==
  ASSUME Typed, Walk, [Next]_vars, reached' = reached
  PROVE  (faults = 0 => reached \subseteq notifs)'
  BY NotifsStay, FaultsStay DEF Walk

\* One handler moves, and nothing else that the walk depends on.
LEMMA WalkOfOne ==
  ASSUME Typed, Walk, [Next]_vars, NEW w \in Workers, exists' = exists,
         \A v \in Workers \ {w} : job'[v] = job[v], WalkOf(job[w])',
         (faults = 0 => reached \subseteq notifs)'
  PROVE  Walk'
  BY WalkStays DEF Walk

LEMMA IdleWalks ==
  ASSUME NEW w \in Workers, job'[w] = Idle
  PROVE  WalkOf(job[w])'
  BY DEF WalkOf, Idle

LEMMA ReadPageWalk ==
  ASSUME Typed, Walk, [Next]_vars, NEW w \in Workers, ReadPage(w)
  PROVE  Walk'
<1> DEFINE page == Page(job[w].last)
<1>1. /\ job[w].at = "page" /\ exists' = exists /\ notifs' = notifs /\ faults' = faults
      /\ exists \subseteq Subs /\ job[w].last \in Nat
  BY SubsAssumption DEF ReadPage, world, Typed, TypeOK, Job
<1>2. /\ page \subseteq exists
      /\ page = {} => \A s \in exists : s <= job[w].last
      /\ \A s \in exists, m \in page : s > job[w].last /\ s <= m => s \in page
  BY <1>1, PageFacts
<1>3. /\ job[w].batch = {} /\ job[w].audience \subseteq exists
      /\ faults = 0 => \A s \in job[w].audience : s <= job[w].last => <<job[w].tx, s>> \in notifs
  BY <1>1 DEF Walk, WalkOf
<1> HIDE DEF page
<1>4. CASE /\ page = {} /\ job' = [job EXCEPT ![w] = Idle]
           /\ reached' = reached \cup {<<job[w].tx, s>> : s \in job[w].audience}
  <2>1. job'[w] = Idle /\ \A v \in Workers \ {w} : job'[v] = job[v]
    BY <1>4 DEF Typed, TypeOK
  <2>2. (faults = 0 => reached \subseteq notifs)'
    BY <1>1, <1>2, <1>3, <1>4 DEF Walk
  <2> QED
    BY <1>1, <2>1, <2>2, IdleWalks, WalkOfOne
<1>5. CASE /\ \E last \in page :
                /\ \A s \in page : s <= last
                /\ job' = [job EXCEPT ![w].at = "batch", ![w].batch = page,
                                      ![w].map = {}, ![w].last = last]
           /\ reached' = reached
  <2>1. PICK last \in page :
          job' = [job EXCEPT ![w].at = "batch", ![w].batch = page,
                             ![w].map = {}, ![w].last = last]
    BY <1>5
  <2>2. /\ job'[w].at = "batch" /\ job'[w].batch = page /\ job'[w].last = last
        /\ job'[w].audience = job[w].audience /\ job'[w].tx = job[w].tx
        /\ \A v \in Workers \ {w} : job'[v] = job[v]
    BY <2>1 DEF Typed, TypeOK, Job
  <2>3. ASSUME faults = 0, NEW s \in job[w].audience, s <= last
        PROVE  s \in page \/ <<job[w].tx, s>> \in notifs
    <3>1. s \in exists /\ s \in Nat /\ job[w].last \in Nat
      BY <1>1, <1>3, <2>3, SubsAssumption
    <3>2. s <= job[w].last \/ s > job[w].last
      BY <3>1
    <3> QED
      BY <1>2, <1>3, <2>1, <2>3, <3>1, <3>2
  <2>4. WalkOf(job[w])'
    BY <1>1, <1>3, <2>2, <2>3 DEF WalkOf
  <2> QED
    BY <1>1, <1>5, <2>2, <2>4, ReachedStays, WalkOfOne
<1> QED
  BY <1>4, <1>5 DEF ReadPage, page

LEMMA InsertForNextWalk ==
  ASSUME Typed, Walk, [Next]_vars, NEW w \in Workers, InsertForNext(w)
  PROVE  Walk'
<1>1. job[w].at = "batch" /\ exists' = exists /\ reached' = reached
  BY DEF InsertForNext, world
<1>2. PICK s \in job[w].batch :
        /\ \/ job' = [job EXCEPT ![w].batch = @ \ {s}, ![w].map = @ \cup {s}]
           \/ job' = [job EXCEPT ![w].batch = @ \ {s}]
        /\ <<job[w].tx, s>> \in notifs' \/ Fault
  BY DEF InsertForNext, MayFail
<1>3. /\ job'[w].at = "batch" /\ job'[w].batch = job[w].batch \ {s}
      /\ job'[w].last = job[w].last /\ job'[w].tx = job[w].tx
      /\ job'[w].audience = job[w].audience
      /\ \A v \in Workers \ {w} : job'[v] = job[v]
  BY <1>1, <1>2 DEF Typed, TypeOK, Job
<1>4. job[w].audience \subseteq exists
  BY <1>1 DEF Walk, WalkOf
<1>5. ASSUME faults' = 0, NEW t \in job[w].audience, t <= job[w].last
      PROVE  t \in job[w].batch \ {s} \/ <<job[w].tx, t>> \in notifs'
  <2>1. faults = 0 /\ <<job[w].tx, s>> \in notifs'
    BY <1>2, <1>5, FaultsStay, FaultCounts
  <2>2. t \in job[w].batch \/ <<job[w].tx, t>> \in notifs
    BY <1>1, <1>5, <2>1 DEF Walk, WalkOf
  <2> QED
    BY <2>1, <2>2, NotifsStay
<1>6. WalkOf(job[w])'
  BY <1>1, <1>3, <1>4, <1>5 DEF WalkOf
<1> QED
  BY <1>1, <1>3, <1>6, ReachedStays, WalkOfOne

LEMMA EndBatchWalk ==
  ASSUME Typed, Walk, [Next]_vars, NEW w \in Workers, EndBatch(w)
  PROVE  Walk'
<1>1. /\ job[w].at = "batch" /\ job[w].batch = {} /\ exists' = exists /\ reached' = reached
      /\ notifs' = notifs
  BY DEF EndBatch, world
<1>2. CASE job' = [job EXCEPT ![w] = Idle]
  <2>1. job'[w] = Idle /\ \A v \in Workers \ {w} : job'[v] = job[v]
    BY <1>2 DEF Typed, TypeOK
  <2> QED
    BY <1>1, <2>1, IdleWalks, ReachedStays, WalkOfOne
<1>3. CASE job' = [job EXCEPT ![w].at = "page", ![w].map = {}]
  <2>1. /\ job'[w].at = "page" /\ job'[w].batch = {} /\ job'[w].map = {}
        /\ job'[w].last = job[w].last /\ job'[w].tx = job[w].tx
        /\ job'[w].audience = job[w].audience
        /\ \A v \in Workers \ {w} : job'[v] = job[v]
    BY <1>1, <1>3 DEF Typed, TypeOK, Job
  <2>2. WalkOf(job[w])'
    BY <1>1, <2>1, FaultsStay DEF Walk, WalkOf
  <2> QED
    BY <1>1, <2>1, <2>2, ReachedStays, WalkOfOne
<1> QED
  BY <1>2, <1>3 DEF EndBatch

LEMMA BeginBroadcastWalk ==
  ASSUME Typed, Walk, [Next]_vars, NEW w \in Workers, NEW tx \in Txs, BeginBroadcast(w, tx)
  PROVE  Walk'
<1> DEFINE begun == [Idle EXCEPT !.at = "page", !.tx = tx, !.audience = exists]
<1>1. exists' = exists /\ reached' = reached /\ exists \subseteq Subs
  BY DEF BeginBroadcast, world, Typed, TypeOK
<1>2. CASE job' = job
  BY <1>1, <1>2, WalkStays, ReachedStays DEF Walk
<1>3. CASE job' = [job EXCEPT ![w] = begun]
  <2>1. /\ begun.at = "page" /\ begun.map = {} /\ begun.batch = {} /\ begun.audience = exists
        /\ begun.last = 0
    BY DEF Idle
  <2> HIDE DEF begun
  <2>2. job'[w] = begun /\ \A v \in Workers \ {w} : job'[v] = job[v]
    BY <1>3 DEF Typed, TypeOK
  <2>3. \A s \in exists : ~(s <= 0)
    BY <1>1, SubsAssumption
  <2>4. WalkOf(job[w])'
    BY <1>1, <2>1, <2>2, <2>3 DEF WalkOf
  <2> QED
    BY <1>1, <2>2, <2>4, ReachedStays, WalkOfOne
<1> QED
  BY <1>2, <1>3 DEF BeginBroadcast, begun

LEMMA WalkNext ==
  ASSUME Typed, Walk, [Next]_vars
  PROVE  Walk'
<1>1. CASE \E w \in Workers : HandleBroadcast(w)
  BY <1>1, BeginBroadcastWalk, ReadPageWalk, InsertForNextWalk, EndBatchWalk DEF HandleBroadcast
<1>2. ASSUME NEW w \in Workers, Rerun(w)
      PROVE  Walk'
  <2>1. exists' = exists /\ reached' = reached /\ job'[w] = Idle
        /\ \A v \in Workers \ {w} : job'[v] = job[v]
    BY <1>2 DEF Rerun, world, Typed, TypeOK
  <2> QED
    BY <2>1, IdleWalks, ReachedStays, WalkOfOne
<1>3. ASSUME NEW s \in Subs, Leave(s)
      PROVE  Walk'
  <2>1. /\ exists' = exists \ {s} /\ notifs' = notifs /\ reached' = reached /\ faults' = faults
        /\ \A w \in Workers :
             /\ job'[w].at = job[w].at /\ job'[w].tx = job[w].tx /\ job'[w].last = job[w].last
             /\ job'[w].map = job[w].map /\ job'[w].batch = job[w].batch
             /\ job'[w].audience = job[w].audience \ {s}
    BY <1>3 DEF Leave, Typed, TypeOK, Job
  <2> QED
    BY <2>1 DEF Walk, WalkOf
<1>4. CASE job' = job /\ exists \subseteq exists' /\ reached' = reached
  BY <1>4, WalkStays, ReachedStays DEF Walk
<1>5. \/ \E w \in Workers : HandleBroadcast(w) \/ Rerun(w)
      \/ \E s \in Subs : Leave(s)
      \/ job' = job /\ exists \subseteq exists' /\ reached' = reached
  BY DEF Next, vars, StartTrigger, HandleTrigger, InsertNext, EnqueueTrigger, ApiCrash,
         Broadcast, Join, SetActive, workers, world
<1> QED
  BY <1>1, <1>2, <1>3, <1>4, <1>5
-----------------------------------------------------------------------------
(* Without faults a broadcast reaches everyone.                            *)

\* No request of this transaction has started and nothing has failed.
Alone(tx) == faults = 0 /\ \A r \in Requests : Started(r) => req[r].tx # tx

Cared(p) == planned[p] = 1 \/ Held(p)

\* No notification of such a transaction is without a task and without a custodian.
Kept == \A p \in notifs : Alone(p[1]) => Cared(p)

LEMMA KeptInit == Init => Kept
  BY DEF Init, Kept

LEMMA AloneBefore ==
  ASSUME Typed, [Next]_vars, NEW tx, Alone(tx)'
  PROVE  Alone(tx)
<1>1. faults = 0
  BY FaultsStay DEF Alone
<1>2. \A q \in Requests : Started(q) => Started(q)' /\ req'[q].tx = req[q].tx
  <2>1. CASE UNCHANGED api
    BY <2>1 DEF api, Started
  <2>2. CASE \E r \in Requests : RequestStep(r)
    BY <2>2, RequestMoves DEF Started
  <2> QED
    BY <2>1, <2>2, RequestsMove
<1> QED
  BY <1>1, <1>2 DEF Alone

\* Whoever is custodian of a pair stays so, or puts it in a task, or a call fails.
LEMMA HolderActs ==
  ASSUME Inv, Typed, Walk, [Next]_vars, NEW w \in Workers, NEW p \in Pairs, ByWorker(w, p),
         faults' = 0
  PROVE  ByWorker(w, p)' \/ planned'[p] = 1
<1>1. job[w].at = "batch"
  BY DEF Walk, WalkOf, ByWorker
<1>2. planned[p] = 0
  BY DEF Inv, Custody
<1>3. \A v \in Workers : ~(Rerun(v))
  BY FaultCounts DEF Rerun
<1>4. ASSUME NEW v \in Workers, HandleBroadcast(v)
      PROVE  ByWorker(w, p)' \/ planned'[p] = 1
  <2>1. CASE v # w
    <3>1. job'[w] = job[w]
      BY <1>4, <2>1 DEF HandleBroadcast, BeginBroadcast, ReadPage, InsertForNext, EndBatch,
                        Typed, TypeOK
    <3> QED
      BY <3>1 DEF ByWorker
  <2>2. CASE v = w /\ InsertForNext(w)
    <3>1. /\ job'[w].tx = job[w].tx /\ job[w].map \subseteq job'[w].map
      BY <2>2 DEF InsertForNext, Typed, TypeOK, Job
    <3> QED
      BY <3>1 DEF ByWorker
  <2>3. CASE v = w /\ EndBatch(w)
    <3>1. Plan(job[w].tx, job[w].map)
      BY <2>3, FaultCounts DEF EndBatch, MayFail
    <3>2. planned'[p] = planned[p] + 1
      BY <3>1, PlanEffect DEF Inv, Shape, ByWorker
    <3> QED
      BY <1>2, <3>2
  <2> QED
    BY <1>1, <1>4, <2>1, <2>2, <2>3 DEF HandleBroadcast, BeginBroadcast, ReadPage
<1>5. ASSUME NEW s \in Subs, Leave(s)
      PROVE  ByWorker(w, p)'
  <2>1. job'[w].tx = job[w].tx /\ job'[w].map = job[w].map
    BY <1>5 DEF Leave, Typed, TypeOK, Job
  <2> QED
    BY <2>1 DEF ByWorker
<1>6. CASE job' = job
  BY <1>6 DEF ByWorker
<1>7. \/ \E v \in Workers : HandleBroadcast(v) \/ Rerun(v)
      \/ \E s \in Subs : Leave(s)
      \/ job' = job
  BY DEF Next, vars, StartTrigger, HandleTrigger, InsertNext, EnqueueTrigger, ApiCrash,
         Broadcast, Join, SetActive, workers
<1> QED
  BY <1>3, <1>4, <1>5, <1>6, <1>7

\* Whoever inserts a notification is a request of its transaction, or becomes its
\* custodian, or has failed.
LEMMA NewcomerHeld ==
  ASSUME Typed, [Next]_vars, NEW p, p \in notifs', p \notin notifs, Alone(p[1])'
  PROVE  \E w \in Workers : ByWorker(w, p)'
<1>1. faults' = 0
  BY DEF Alone
<1>2. (\E r \in Requests : InsertNext(r)) \/ (\E w \in Workers : InsertForNext(w))
  BY DEF Next, vars, StartTrigger, HandleTrigger, EnqueueTrigger, ApiCrash, Broadcast,
         HandleBroadcast, BeginBroadcast, ReadPage, EndBatch, Rerun, Join, Leave, SetActive
<1>3. ASSUME NEW r \in Requests, InsertNext(r)
      PROVE  FALSE
  <2>1. p = <<req[r].tx, Head(todo[r])>> /\ Started(r)
    BY <1>3 DEF InsertNext, MayFail, Started
  <2>2. Started(r)' /\ req'[r].tx = req[r].tx
    BY <1>3, <2>1, RequestMoves DEF RequestStep, HandleTrigger
  <2> QED
    BY <2>1, <2>2 DEF Alone
<1>4. ASSUME NEW w \in Workers, InsertForNext(w)
      PROVE  ByWorker(w, p)'
  <2>1. PICK s \in job[w].batch :
          /\ p = <<job[w].tx, s>>
          /\ job' = [job EXCEPT ![w].batch = @ \ {s}, ![w].map = @ \cup {s}]
    BY <1>1, <1>4, FaultCounts DEF InsertForNext, MayFail
  <2>2. job'[w].tx = job[w].tx /\ s \in job'[w].map
    BY <2>1 DEF Typed, TypeOK, Job
  <2> QED
    BY <2>1, <2>2 DEF ByWorker
<1> QED
  BY <1>2, <1>3, <1>4

LEMMA KeptNext ==
  ASSUME Inv, Typed, Walk, Kept, [Next]_vars
  PROVE  Kept'
<1> SUFFICES ASSUME NEW p \in notifs', Alone(p[1])'
             PROVE  Cared(p)'
  BY DEF Kept
<1>1. faults' = 0 /\ Alone(p[1])
  BY AloneBefore DEF Alone
<1>2. CASE p \notin notifs
  BY <1>2, NewcomerHeld DEF Cared, Held, ByWorker
<1>3. CASE p \in notifs
  <2>1. p \in Pairs /\ Cared(p)
    BY <1>1, <1>3 DEF Kept, Typed, TypeOK
  <2>2. CASE planned[p] = 1
    BY <2>1, <2>2, PlannedStays DEF Cared
  <2>3. CASE Held(p)
    <3>1. PICK w \in Workers : ByWorker(w, p)
      BY <2>3 DEF Held, ByWorker
    <3>2. ByWorker(w, p)' \/ planned'[p] = 1
      BY <1>1, <2>1, <3>1, HolderActs
    <3> QED
      BY <3>2 DEF Cared, Held, ByWorker
  <2> QED
    BY <2>1, <2>2, <2>3 DEF Cared
<1> QED
  BY <1>2, <1>3

\* A broadcast that comes to its end without faults, and without requests of its
\* transaction, has left no one out who was in the audience all along, whoever joins
\* or leaves between two pages and however many broadcasts share the transaction
\* (FindPageAfter pages by the last id, not by an offset).
THEOREM ReachesAll == Spec => []BroadcastReachesAll
<1>1. Inv /\ Typed /\ Walk /\ Kept /\ [Next]_vars => (Inv /\ Typed /\ Walk /\ Kept)'
  BY InvNext, TypedNext, WalkNext, KeptNext
<1>2. Init => Inv /\ Typed /\ Walk /\ Kept
  BY InvInit, TypedInit, WalkInit, KeptInit
<1>3. Walk /\ Kept => BroadcastReachesAll
  <2> SUFFICES ASSUME Walk, Kept, NEW p \in reached, faults = 0,
                      \A r \in Requests : req[r].tx # p[1]
               PROVE  Cared(p)
    BY DEF BroadcastReachesAll, Cared
  <2> QED
    BY DEF Walk, Kept, Alone
<1>4. Spec => [](Inv /\ Typed /\ Walk /\ Kept)
  BY <1>1, <1>2, PTL DEF Spec
<1> QED
  BY <1>3, <1>4, PTL
=============================================================================
