------------------------------ MODULE Dispatch ------------------------------
(***************************************************************************)
(* What the ingestion side promises the worker pipeline: the notifications *)
(* of a transaction reach it in batches, each a trigger task of its own,   *)
(* and no subscriber is in two batches of the same transaction.            *)
(***************************************************************************)
EXTENDS Naturals

CONSTANTS Txs,    \* transaction ids
          Subs    \* subscribers

Pairs == Txs \X Subs

VARIABLE planned  \* per <<tx, subscriber>>, the trigger tasks enqueued for it

Init == planned = [p \in Pairs |-> 0]

\* One trigger task, for subscribers none of which had one in this transaction.
Batch(tx, S) ==
  /\ \A s \in S : planned[<<tx, s>>] = 0
  /\ planned' = [p \in Pairs |-> IF p[1] = tx /\ p[2] \in S THEN 1 ELSE planned[p]]

Next == \E tx \in Txs, S \in SUBSET Subs : Batch(tx, S)

Spec == Init /\ [][Next]_planned

=============================================================================
