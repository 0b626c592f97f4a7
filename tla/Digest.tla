------------------------------- MODULE Digest -------------------------------
(***************************************************************************)
(* What a digest step promises the rest of the pipeline: notifications     *)
(* wait in its window until it closes, all at once; then they go on in one *)
(* digest, and nobody goes on twice. The one way to be left out of it is   *)
(* to join while the window closes.                                        *)
(***************************************************************************)
CONSTANT Notifs   \* notifications that reach the digest step

VARIABLES
  waiting,   \* those in the open window; {} if none is open
  digested,  \* those that went on in a digest
  missed     \* those left out of the digest of their window

vars == <<waiting, digested, missed>>

Init == waiting = {} /\ digested = {} /\ missed = {}

\* A notification waits once.
Join(n) ==
  /\ n \notin waiting \cup digested \cup missed
  /\ waiting' = waiting \cup {n}
  /\ UNCHANGED <<digested, missed>>

\* A window closes, and sends the digest of those it has read, not nobody's.
Close(read) ==
  /\ read # {} /\ read \subseteq waiting
  /\ waiting' = {}
  /\ digested' = digested \cup read
  /\ missed' = missed \cup (waiting \ read)

Next == (\E n \in Notifs : Join(n)) \/ (\E read \in SUBSET Notifs : Close(read))

Spec == Init /\ [][Next]_vars

=============================================================================
