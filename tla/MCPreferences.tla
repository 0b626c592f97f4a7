---------------------------- MODULE MCPreferences ---------------------------
(* Instances of the preference store for TLC.                              *)
EXTENDS Preferences, TLC

CONSTANTS w1, email, telegram, r1, r2, r3, b1

Legacy == [on |-> {}, off |-> Channels \ {telegram}]

\* Nothing stored; a global row older than the telegram channel.
MCInitial == {NoRows, [NoRows EXCEPT ![Global] = Legacy]}

\* Nothing, one channel on, and one of each.
MCPayloads == {NoRow, [on |-> {email}, off |-> {}], [on |-> {telegram}, off |-> {email}]}

MCSymmetry == Permutations(Requests)

\* Everything on; nothing on.
MCDeclared == {Channels, {}}
=============================================================================
