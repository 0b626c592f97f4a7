-------------------------- MODULE MCAdministration --------------------------
(* Instances of the admin API for TLC.                                     *)
EXTENDS Administration, TLC

CONSTANTS h1, h2, m1, m2, p1, p2, wf, tpl, a1

\* Two e-mail integrations, and two of push, one of them of another
\* provider than fcm and apns.
MCChannelOf == (m1 :> "email") @@ (m2 :> "email") @@ (p1 :> "push") @@ (p2 :> "push")

MCSymmetry == Permutations({h1, h2}) \cup Permutations({m1, m2})
=============================================================================
