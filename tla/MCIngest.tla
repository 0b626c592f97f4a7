------------------------------ MODULE MCIngest ------------------------------
(* Instances of ingestion for TLC.                                         *)
EXTENDS Ingest

CONSTANTS r1, r2, w1, w2, t1, team

MCMembers == [t \in Topics |-> <<2, 1>>]

\* The same recipients in both orders, one of them named twice, and a stranger.
MCTos == {<<1, 2>>, <<team, 1, 9>>}
=============================================================================
