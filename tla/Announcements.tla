--------------------------- MODULE Announcements ----------------------------
(***************************************************************************)
(* Announcements: keys of Redis that end by themselves.                    *)
(*                                                                         *)
(* Create and Update check expiresAt against the clock, then compute the   *)
(* time to live from the clock again and SET the key with it; Update has   *)
(* read the key before and sets it whatever became of it. Nobody looks at  *)
(* expiresAt afterwards: an announcement ends when Redis ends its key.     *)
(* Time is discrete; a call takes less than a unit, the work between two   *)
(* calls of a handler as long as it likes.                                 *)
(***************************************************************************)
EXTENDS Integers

CONSTANTS
  Writers,   \* goroutines that serve announcement requests
  Names,     \* announcements (uuids)
  Starts,    \* the values of startsAt
  MaxTime    \* bound: the clock

ASSUME TimeAssumption == MaxTime \in Nat /\ Starts \subseteq 0..MaxTime

VARIABLES
  now,       \* the clock
  kv,        \* the keys
  hand,      \* the handlers
  gone       \* the names whose key was deleted or ended: no uuid is given twice

announcements == <<now, kv, hand, gone>>

Time == 0..MaxTime
Never == MaxTime + 1
\* starts and expires are in the value, end is the key's, wrote is when it was set.
Key == [present: BOOLEAN, starts: Time, expires: Time, end: Time \cup {Never}, wrote: Time]
NoKey == [present |-> FALSE, starts |-> 0, expires |-> 0, end |-> 0, wrote |-> 0]
NoName == "none"
Hand == [at: {"idle", "edit", "write"}, name: Names \cup {NoName}, value: Key]
Free == [at |-> "idle", name |-> NoName, value |-> NoKey]

AnnouncementsTypeOK ==
  /\ now \in Time /\ kv \in [Names -> Key] /\ hand \in [Writers -> Hand]
  /\ gone \subseteq Names

AnnouncementsInit ==
  /\ now = 0 /\ kv = [a \in Names |-> NoKey] /\ hand = [h \in Writers |-> Free]
  /\ gone = {}

-----------------------------------------------------------------------------
\* A value passes when it does not expire before now.
Checked(h, a, value) ==
  hand' = [hand EXCEPT ![h] =
    IF value.expires < now THEN Free
    ELSE [at |-> "write", name |-> a, value |-> [value EXCEPT !.present = TRUE]]]

\* Create, under a new uuid.
Announce(h, a, starts, expires) ==
  /\ hand[h] = Free
  /\ ~kv[a].present /\ a \notin gone
  /\ \A g \in Writers : hand[g].name # a
  /\ Checked(h, a, [NoKey EXCEPT !.starts = starts, !.expires = expires])
  /\ UNCHANGED <<now, kv, gone>>

\* Update answers 404 to a key GET does not find.
Found(a) == kv[a].present

BeginAmend(h, a) ==
  /\ hand[h] = Free /\ Found(a)
  /\ hand' = [hand EXCEPT ![h] = [at |-> "edit", name |-> a, value |-> kv[a]]]
  /\ UNCHANGED <<now, kv, gone>>

\* The payload is read after the key; it may set a start and an end, or neither.
Amend(h, starts, expires) ==
  LET v == hand[h].value IN
  /\ hand[h].at = "edit"
  /\ Checked(h, hand[h].name, [v EXCEPT !.starts = starts, !.expires = expires])
  /\ UNCHANGED <<now, kv, gone>>

\* Mutant: SET keeps the time to live the key has.
Ends_Keep(v, a) == IF kv[a].present THEN kv[a].end
                   ELSE IF v.expires > now THEN v.expires ELSE Never

\* Mutant: expiresAt is taken for a duration.
Ends_AsDuration(v, a) == IF v.expires > now THEN now + v.expires ELSE Never

\* go-redis sends no expiry at all for a time to live that is not positive.
Ends(v, a) == IF v.expires > now THEN v.expires ELSE Never

WriteKey(h) ==
  LET v == hand[h].value a == hand[h].name IN
  /\ hand[h].at = "write"
  /\ kv' = [kv EXCEPT ![a] = [v EXCEPT !.end = Ends(v, a), !.wrote = now]]
  /\ hand' = [hand EXCEPT ![h] = Free]
  /\ UNCHANGED <<now, gone>>

Remove(a) ==
  /\ kv[a].present
  /\ kv' = [kv EXCEPT ![a] = NoKey] /\ gone' = gone \cup {a}
  /\ UNCHANGED <<now, hand>>

\* A call fails, or the handler never sees its answer.
FailWriter(h) ==
  /\ hand[h] # Free
  /\ hand' = [hand EXCEPT ![h] = Free]
  /\ UNCHANGED <<now, kv, gone>>

\* Time passes, and Redis ends the keys whose time has come.
Ended == {a \in Names : kv[a].present /\ kv[a].end = now + 1}
Tick ==
  /\ now < MaxTime /\ now' = now + 1
  /\ kv' = [a \in Names |-> IF a \in Ended THEN NoKey ELSE kv[a]]
  /\ gone' = gone \cup Ended
  /\ UNCHANGED hand

AnnouncementRequest(h) ==
  \E a \in Names :
    \/ \E starts \in Starts, expires \in Time : Announce(h, a, starts, expires)
    \/ BeginAmend(h, a)
    \/ Remove(a)

AnnouncementStep(h) ==
  \/ \E starts \in Starts, expires \in Time : Amend(h, starts, expires)
  \/ WriteKey(h)

\* GET /announcements/active: every key that is there and has started.
Shown == {a \in Names : kv[a].present /\ kv[a].starts <= now}

-----------------------------------------------------------------------------
(* Properties.                                                             *)

\* What is shown has not expired (nobody compares expiresAt when it is read,
\* announcement_handler.go:85-92), except for a value that was checked in time and
\* written late: its key has no end at all.
ExpiryHonoured ==
  \A a \in Shown : kv[a].expires <= now => kv[a].wrote >= kv[a].expires /\ kv[a].end = Never
=============================================================================
