------------------------- MODULE Preferences_proofs -------------------------
(***************************************************************************)
(* Proofs about the preference store.                                      *)
(*                                                                         *)
(* The argument: a row is never removed, what was said of a scope is in    *)
(* its row, and a write changes both in the same way. A request that tries *)
(* a second time has seen a row, so it never comes to insert again; a new  *)
(* row holds every channel, so that it never reopens what a backfill has   *)
(* closed.                                                                 *)
(***************************************************************************)
EXTENDS Preferences, TLAPS

\* The requests that have been accepted as a write and not yet answered.
Writing == {"lookup", "read", "match", "insert"}

\* What a handler's record says.
Handlers ==
  \A r \in Requests :
    /\ req[r].at \in Writing => req[r].names # NoRow
    /\ req[r].at \in {"new", "list", "answer"} => req[r].names = NoRow
    /\ req[r].retried => req[r].at = "match" /\ rows[req[r].scope] # NoRow
    /\ req[r].at = "error" => faults > 0

\* What was said is in the rows, and was said by whoever was answered 200.
Said ==
  /\ \A s \in Scopes : said[s].on \subseteq rows[s].on /\ said[s].off \subseteq rows[s].off
  /\ \A r \in Requests : req[r].at = "ok" =>
       Holds(req[r].names) \subseteq Holds(said[req[r].scope])

\* The global row holds what a start that never failed has gone through.
Filling ==
  \A b \in Starts : seen[b] =>
    rows[Global] = NoRow \/ Channels \ start[b] \subseteq Holds(rows[Global])

Inv == TypeOK /\ Handlers /\ Said /\ Filling

-----------------------------------------------------------------------------
(* Rows and payloads.                                                      *)

LEMMA SettingFacts ==
  /\ NoRow \in Setting
  /\ \A x \in Setting : x.on \in SUBSET Channels /\ x.off \in SUBSET Channels /\ x.on \cap x.off = {}
                        /\ x = [on |-> x.on, off |-> x.off]
  /\ \A a, b \in SUBSET Channels : a \cap b = {} => [on |-> a, off |-> b] \in Setting
  BY DEF Setting, NoRow

LEMMA EmptySetting ==
  ASSUME NEW x \in Setting
  PROVE  x = NoRow <=> Holds(x) = {}
<1>1. x = [on |-> x.on, off |-> x.off]
  BY SettingFacts
<1>2. Holds(x) = {} => x.on = {} /\ x.off = {}
  BY DEF Holds
<1> QED
  BY <1>1, <1>2 DEF Holds, NoRow

LEMMA OverFacts ==
  ASSUME NEW n \in Setting, NEW x \in Setting
  PROVE  /\ Over(n, x) \in Setting
         /\ Holds(Over(n, x)) = Holds(n) \cup Holds(x)
         /\ n.on \subseteq Over(n, x).on /\ n.off \subseteq Over(n, x).off
         /\ n # NoRow => Over(n, x) # NoRow
<1>1. Over(n, x).on = n.on \cup (x.on \ n.off) /\ Over(n, x).off = n.off \cup (x.off \ n.on)
  BY DEF Over
<1>2. n.on \in SUBSET Channels /\ n.off \in SUBSET Channels /\ n.on \cap n.off = {}
      /\ x.on \in SUBSET Channels /\ x.off \in SUBSET Channels /\ x.on \cap x.off = {}
  BY SettingFacts
<1>3. Over(n, x) \in Setting
  <2>1. Over(n, x).on \in SUBSET Channels /\ Over(n, x).off \in SUBSET Channels
        /\ Over(n, x).on \cap Over(n, x).off = {}
    BY <1>1, <1>2
  <2>2. Over(n, x) = [on |-> Over(n, x).on, off |-> Over(n, x).off]
    BY DEF Over
  <2> QED
    BY <2>1, <2>2, SettingFacts
<1>4. Holds(Over(n, x)) = Holds(n) \cup Holds(x)
  BY <1>1 DEF Holds
<1>5. n # NoRow => Over(n, x) # NoRow
  BY <1>3, <1>4, EmptySetting
<1> QED
  BY <1>1, <1>3, <1>4, <1>5

\* A write says over what was said, and stores over the row.
LEMMA OverMonotone ==
  ASSUME NEW n \in Setting, NEW x \in Setting, NEW y \in Setting,
         x.on \subseteq y.on, x.off \subseteq y.off
  PROVE  Over(n, x).on \subseteq Over(n, y).on /\ Over(n, x).off \subseteq Over(n, y).off
  BY DEF Over

LEMMA FilledFacts ==
  ASSUME NEW x \in Setting, NEW c \in Channels
  PROVE  /\ Filled(x, c) \in Setting
         /\ x.on \subseteq Filled(x, c).on /\ x.off = Filled(x, c).off
         /\ x = NoRow => Filled(x, c) = NoRow
         /\ x # NoRow => Filled(x, c) # NoRow /\ Holds(Filled(x, c)) = Holds(x) \cup {c}
<1>1. CASE x = NoRow \/ c \in Holds(x)
  BY <1>1 DEF Filled
<1>2. CASE ~(x = NoRow \/ c \in Holds(x))
  <2>1. x = [on |-> x.on, off |-> x.off] /\ x.on \in SUBSET Channels /\ x.off \in SUBSET Channels
        /\ x.on \cap x.off = {}
    BY SettingFacts
  <2>2. Filled(x, c) = [on |-> x.on \cup {c}, off |-> x.off]
    BY <1>2, <2>1 DEF Filled
  <2>3. c \notin x.off
    BY <1>2 DEF Holds
  <2>4. Filled(x, c) \in Setting
    BY <2>1, <2>2, <2>3, SettingFacts
  <2>5. Filled(x, c) # NoRow
    BY <2>2 DEF NoRow
  <2> QED
    BY <1>2, <2>2, <2>4, <2>5 DEF Holds
<1> QED
  BY <1>1, <1>2

-----------------------------------------------------------------------------
(* What a write does to the rows.                                          *)

LEMMA StoredFacts ==
  ASSUME TypeOK, NEW r \in Requests, NEW row \in Setting
  PROVE  /\ Stored(r, row) \in Setting
         /\ req[r].names.on \subseteq Stored(r, row).on
         /\ req[r].names.off \subseteq Stored(r, row).off
         /\ Holds(req[r].names) \subseteq Holds(Stored(r, row))
         /\ Holds(row) \subseteq Holds(Stored(r, row))
         /\ req[r].names # NoRow => Stored(r, row) # NoRow
         /\ row = NoRow => Holds(Stored(r, row)) = Channels
         /\ row # NoRow => Stored(r, row) = Over(req[r].names, row)
<1> DEFINE n == req[r].names
           seed == [on |-> req[r].seed, off |-> Channels \ req[r].seed]
           base == IF row = NoRow THEN seed ELSE row
<1>1. n \in Setting /\ req[r].seed \in SUBSET Channels
  BY DEF TypeOK, Handler
<1>2. seed \in Setting /\ Holds(seed) = Channels
  <2>1. seed \in Setting
    BY <1>1, SettingFacts
  <2> QED
    BY <1>1, <2>1 DEF Holds
<1>3. base \in Setting
  BY <1>2
<1>4. Stored(r, row) = Over(n, base)
  BY DEF Stored
<1>5. Holds(n) \subseteq Channels
  BY <1>1, SettingFacts DEF Holds
<1>6. Holds(NoRow) = {}
  BY DEF Holds, NoRow
<1> HIDE DEF n, seed, base
<1>7. /\ Over(n, base) \in Setting /\ Holds(Over(n, base)) = Holds(n) \cup Holds(base)
      /\ n.on \subseteq Over(n, base).on /\ n.off \subseteq Over(n, base).off
      /\ n # NoRow => Over(n, base) # NoRow
  BY <1>1, <1>3, OverFacts
<1>8. Holds(row) \subseteq Holds(base) /\ (row = NoRow => Holds(base) = Channels)
      /\ (row # NoRow => base = row)
  BY <1>2, <1>6 DEF base
<1>9. n = req[r].names
  BY DEF n
<1> QED
  BY <1>4, <1>5, <1>7, <1>8, <1>9

LEMMA WriteFacts ==
  ASSUME TypeOK, Said, NEW r \in Requests, req[r].names # NoRow, Write(r)
  PROVE  /\ rows' \in [Scopes -> Setting] /\ said' \in [Scopes -> Setting]
         /\ moved' \subseteq Requests
         /\ \A s \in Scopes : /\ said'[s].on \subseteq rows'[s].on
                              /\ said'[s].off \subseteq rows'[s].off
                              /\ rows[s] # NoRow => rows'[s] # NoRow
                              /\ Holds(said[s]) \subseteq Holds(said'[s])
                              /\ Holds(rows[s]) \subseteq Holds(rows'[s])
                              /\ rows[s] = NoRow => rows'[s] = NoRow \/ Holds(rows'[s]) = Channels
         /\ rows'[req[r].scope] # NoRow
         /\ Holds(req[r].names) \subseteq Holds(said'[req[r].scope])
<1> DEFINE s == req[r].scope n == req[r].names
<1>1. s \in Scopes /\ n \in Setting /\ rows[s] \in Setting /\ said[s] \in Setting
  BY DEF TypeOK, Handler
<1>2. /\ rows' = [rows EXCEPT ![s] = Stored(r, rows[s])]
      /\ said' = [said EXCEPT ![s] = Over(n, said[s])]
  BY DEF Write
<1>3. moved' \subseteq Requests
  BY DEF Write, TypeOK, SeededFrom, Listing
<1>4. rows \in [Scopes -> Setting] /\ said \in [Scopes -> Setting]
  BY DEF TypeOK
<1>5. /\ rows'[s] = Stored(r, rows[s]) /\ said'[s] = Over(n, said[s])
      /\ \A t \in Scopes \ {s} : rows'[t] = rows[t] /\ said'[t] = said[t]
  BY <1>1, <1>2, <1>4
<1>6. /\ Over(n, said[s]) \in Setting /\ Holds(Over(n, said[s])) = Holds(n) \cup Holds(said[s])
  BY <1>1, OverFacts
<1>7. /\ Stored(r, rows[s]) \in Setting /\ Stored(r, rows[s]) # NoRow
      /\ n.on \subseteq Stored(r, rows[s]).on /\ n.off \subseteq Stored(r, rows[s]).off
      /\ Holds(rows[s]) \subseteq Holds(Stored(r, rows[s]))
      /\ rows[s] = NoRow => Holds(Stored(r, rows[s])) = Channels
      /\ rows[s] # NoRow => Stored(r, rows[s]) = Over(n, rows[s])
  BY <1>1, StoredFacts
<1>8. rows' \in [Scopes -> Setting] /\ said' \in [Scopes -> Setting]
  BY <1>1, <1>2, <1>4, <1>6, <1>7
<1>9. /\ Over(n, said[s]).on \subseteq Stored(r, rows[s]).on
      /\ Over(n, said[s]).off \subseteq Stored(r, rows[s]).off
  <2>1. said[s].on \subseteq rows[s].on /\ said[s].off \subseteq rows[s].off
    BY <1>1 DEF Said
  <2>2. CASE rows[s] = NoRow
    <3>1. said[s].on = {} /\ said[s].off = {}
      BY <2>1, <2>2 DEF NoRow
    <3>2. Over(n, said[s]).on = n.on /\ Over(n, said[s]).off = n.off
      BY <3>1 DEF Over
    <3> QED
      BY <1>7, <3>2
  <2>3. CASE rows[s] # NoRow
    BY <1>1, <1>7, <2>1, <2>3, OverMonotone
  <2> QED
    BY <2>2, <2>3
<1> HIDE DEF s, n
<1>10. \A t \in Scopes : said[t].on \subseteq rows[t].on /\ said[t].off \subseteq rows[t].off
  BY DEF Said
<1>11. \A t \in Scopes : /\ said'[t].on \subseteq rows'[t].on
                         /\ said'[t].off \subseteq rows'[t].off
                         /\ rows[t] # NoRow => rows'[t] # NoRow
                         /\ Holds(said[t]) \subseteq Holds(said'[t])
                         /\ Holds(rows[t]) \subseteq Holds(rows'[t])
                         /\ rows[t] = NoRow => rows'[t] = NoRow \/ Holds(rows'[t]) = Channels
  <2> TAKE t \in Scopes
  <2>1. CASE t = s
    BY <1>5, <1>6, <1>7, <1>9, <2>1
  <2>2. CASE t # s
    BY <1>5, <1>10, <2>2
  <2> QED
    BY <2>1, <2>2
<1>12. rows'[s] # NoRow /\ Holds(n) \subseteq Holds(said'[s])
  BY <1>5, <1>6, <1>7
<1>13. s = req[r].scope /\ n = req[r].names
  BY DEF s, n
<1> QED
  BY <1>3, <1>8, <1>11, <1>12, <1>13

-----------------------------------------------------------------------------
(* The two shapes of a handler's step.                                     *)

\* What a handler's record may say, given the rows and the faults.
Sound(h, stored, failed) ==
  /\ h.at \in Writing => h.names # NoRow
  /\ h.at \in {"new", "list", "answer"} => h.names = NoRow
  /\ h.retried => h.at = "match" /\ stored[h.scope] # NoRow
  /\ h.at = "error" => failed > 0

\* The variables a handler does not write.
Rest ==
  /\ default \in [Workflows -> SUBSET Channels] /\ active \subseteq Workflows /\ found \in BOOLEAN
  /\ copy \in [Requests -> [Scopes -> Setting]]
  /\ answer \in [Requests -> [Scopes -> SUBSET Channels]]
  /\ start \in [Starts -> SUBSET Channels]
  /\ edits \in 0..MaxEdits /\ faults \in 0..MaxFaults
  /\ seen \in [Starts -> BOOLEAN]

LEMMA HandlersStep ==
  ASSUME TypeOK, Handlers, NEW r \in Requests, NEW h \in Handler, req' = [req EXCEPT ![r] = h],
         faults' \in 0..MaxFaults, faults <= faults', Sound(h, rows', faults'),
         \A s \in Scopes : rows[s] # NoRow => rows'[s] # NoRow
  PROVE  req' \in [Requests -> Handler] /\ Handlers'
<1>1. req \in [Requests -> Handler] /\ faults \in Nat /\ faults' \in Nat
  BY BoundsAssumption DEF TypeOK
<1>2. req' \in [Requests -> Handler]
  BY <1>1
<1>3. req'[r] = h /\ \A q \in Requests \ {r} : req'[q] = req[q]
  BY <1>1
<1>4. Handlers'
  <2> SUFFICES ASSUME NEW q \in Requests
               PROVE  Sound(req'[q], rows', faults')
    BY DEF Handlers, Sound
  <2>1. CASE q = r
    BY <1>3, <2>1
  <2>2. CASE q # r
    <3>1. Sound(req[q], rows, faults)
      BY DEF Handlers, Sound
    <3>2. req[q].scope \in Scopes
      BY <1>1 DEF Handler
    <3> QED
      BY <1>1, <1>3, <2>2, <3>1, <3>2 DEF Sound
  <2> QED
    BY <2>1, <2>2
<1> QED
  BY <1>2, <1>4

LEMMA SaidStep ==
  ASSUME TypeOK, Said, NEW r \in Requests, NEW h \in Handler, req' = [req EXCEPT ![r] = h],
         \A s \in Scopes : /\ said'[s].on \subseteq rows'[s].on /\ said'[s].off \subseteq rows'[s].off
                           /\ Holds(said[s]) \subseteq Holds(said'[s]),
         h.at = "ok" => Holds(h.names) \subseteq Holds(said'[h.scope])
  PROVE  Said'
<1>1. req \in [Requests -> Handler]
  BY DEF TypeOK
<1>2. req'[r] = h /\ \A q \in Requests \ {r} : req'[q] = req[q]
  BY <1>1
<1>3. \A q \in Requests : req'[q].at = "ok" => Holds(req'[q].names) \subseteq Holds(said'[req'[q].scope])
  <2> SUFFICES ASSUME NEW q \in Requests, q # r, req[q].at = "ok"
               PROVE  Holds(req[q].names) \subseteq Holds(said'[req[q].scope])
    BY <1>2
  <2>1. req[q].scope \in Scopes
    BY <1>1 DEF Handler
  <2> QED
    BY <2>1 DEF Said
<1> QED
  BY <1>3 DEF Said, Holds

LEMMA FillingStep ==
  ASSUME Filling, start' = start, seen' = seen,
         Holds(rows[Global]) \subseteq Holds(rows'[Global]),
         rows[Global] = NoRow => rows'[Global] = NoRow \/ Holds(rows'[Global]) = Channels
  PROVE  Filling'
  BY DEF Filling, Holds

\* A step of a handler that writes no row.
LEMMA QuietStep ==
  ASSUME Inv, NEW r \in Requests, NEW h \in Handler, req' = [req EXCEPT ![r] = h],
         rows' = rows, said' = said, moved' = moved, start' = start, seen' = seen, Rest',
         faults <= faults', Sound(h, rows, faults'),
         h.at = "ok" => Holds(h.names) \subseteq Holds(said[h.scope])
  PROVE  Inv'
<1>1. req' \in [Requests -> Handler] /\ Handlers'
  BY HandlersStep DEF Inv, Rest
<1>2. Said'
  BY SaidStep DEF Inv, Said
<1>3. Filling'
  BY FillingStep DEF Inv
<1>4. TypeOK'
  BY <1>1 DEF Inv, TypeOK, Rest
<1> QED
  BY <1>1, <1>2, <1>3, <1>4 DEF Inv

\* A step that writes one.
LEMMA WriteStep ==
  ASSUME Inv, NEW r \in Requests, NEW h \in Handler, req' = [req EXCEPT ![r] = h],
         req[r].names # NoRow, Write(r), start' = start, seen' = seen, Rest',
         faults <= faults', Sound(h, rows', faults'),
         h.at = "ok" => h.names = req[r].names /\ h.scope = req[r].scope
  PROVE  Inv'
<1>1. /\ rows' \in [Scopes -> Setting] /\ said' \in [Scopes -> Setting]
      /\ moved' \subseteq Requests
      /\ \A s \in Scopes : /\ said'[s].on \subseteq rows'[s].on
                           /\ said'[s].off \subseteq rows'[s].off
                           /\ rows[s] # NoRow => rows'[s] # NoRow
                           /\ Holds(said[s]) \subseteq Holds(said'[s])
                           /\ Holds(rows[s]) \subseteq Holds(rows'[s])
                           /\ rows[s] = NoRow => rows'[s] = NoRow \/ Holds(rows'[s]) = Channels
      /\ Holds(req[r].names) \subseteq Holds(said'[req[r].scope])
  BY WriteFacts DEF Inv
<1>2. req' \in [Requests -> Handler] /\ Handlers'
  BY <1>1, HandlersStep DEF Inv, Rest
<1>3. Said'
  BY <1>1, SaidStep DEF Inv
<1>4. Filling'
  <2>1. Global \in Scopes
    BY DEF Scopes
  <2> QED
    BY <1>1, <2>1, FillingStep DEF Inv
<1>5. TypeOK'
  BY <1>1, <1>2 DEF TypeOK, Rest
<1> QED
  BY <1>2, <1>3, <1>4, <1>5 DEF Inv

-----------------------------------------------------------------------------
(* The handlers' own operators.                                            *)

Ats == {"new", "lookup", "read", "match", "insert", "list", "answer"} \cup Outcome

LEMMA HandlerFacts ==
  /\ \A h \in Handler : /\ h.at \in Ats /\ h.scope \in Scopes /\ h.names \in Setting
                        /\ h.seed \in SUBSET Channels /\ h.retried \in BOOLEAN
  /\ New \in Handler /\ New.names = NoRow /\ New.retried = FALSE
<1>1. New \in Handler
  <2>1. Global \in Scopes /\ NoRow \in Setting /\ {} \in SUBSET Channels
    BY SettingFacts DEF Scopes
  <2> QED
    BY <2>1 DEF New, Handler
<1> QED
  BY <1>1 DEF Handler, Ats, New

LEMMA GotoFacts ==
  ASSUME TypeOK, NEW r \in Requests, NEW at \in Ats, Goto(r, at)
  PROVE  \E h \in Handler : /\ req' = [req EXCEPT ![r] = h] /\ h.at = at
                            /\ h.names = req[r].names /\ h.retried = req[r].retried
<1> DEFINE h == [req[r] EXCEPT !.at = at]
<1>1. req[r] \in Handler
  BY DEF TypeOK
<1>2. h \in Handler /\ h.at = at /\ h.names = req[r].names /\ h.retried = req[r].retried
  BY <1>1 DEF Handler, Ats
<1>3. req' = [req EXCEPT ![r] = h]
  BY DEF Goto
<1> HIDE DEF h
<1> QED
  BY <1>2, <1>3

LEMMA DoneFacts ==
  ASSUME TypeOK, NEW r \in Requests, Done(r)
  PROVE  \E h \in Handler : /\ req' = [req EXCEPT ![r] = h] /\ h.at = "ok"
                            /\ h.names = req[r].names /\ h.scope = req[r].scope
                            /\ h.retried = FALSE
<1> DEFINE h == [req[r] EXCEPT !.at = "ok", !.seed = {}, !.retried = FALSE]
<1>1. req[r] \in Handler
  BY DEF TypeOK
<1>2. h \in Handler /\ h.at = "ok" /\ h.names = req[r].names /\ h.scope = req[r].scope
      /\ h.retried = FALSE
  BY <1>1 DEF Handler, Outcome
<1>3. req' = [req EXCEPT ![r] = h]
  BY DEF Done
<1> HIDE DEF h
<1> QED
  BY <1>2, <1>3

LEMMA LostFacts ==
  ASSUME TypeOK, NEW r \in Requests, NEW why \in Outcome, Lost(r, why)
  PROVE  \E h \in Handler : /\ req' = [req EXCEPT ![r] = h] /\ h.at = why
                            /\ h.names = NoRow /\ h.retried = FALSE
<1> DEFINE h == [New EXCEPT !.at = why]
<1>1. h \in Handler /\ h.at = why /\ h.names = NoRow /\ h.retried = FALSE
  BY HandlerFacts DEF Handler, New
<1>2. req' = [req EXCEPT ![r] = h]
  BY DEF Lost
<1> HIDE DEF h
<1> QED
  BY <1>1, <1>2

LEMMA Resolved1 ==
  ASSUME NEW wf \in Setting, NEW g \in Setting, NEW d \in SUBSET Channels
  PROVE  Resolve(wf, g, d) \in SUBSET Channels /\ Mask(g) \in SUBSET Channels
  BY SettingFacts DEF Resolve, Mask

-----------------------------------------------------------------------------
(* Every action keeps the invariant.                                       *)

\* A handler that ends without an effect.
LEMMA LostStep ==
  ASSUME Inv, NEW r \in Requests, NEW why \in Outcome \ {"ok"}, Lost(r, why),
         rows' = rows, said' = said, moved' = moved, start' = start, seen' = seen, Rest',
         faults <= faults', why = "error" => faults' > 0
  PROVE  Inv'
<1>1. PICK h \in Handler : /\ req' = [req EXCEPT ![r] = h] /\ h.at = why
                           /\ h.names = NoRow /\ h.retried = FALSE
  BY LostFacts DEF Inv
<1>2. why \notin Writing
  BY DEF Writing, Outcome
<1>3. Sound(h, rows, faults')
  BY <1>1, <1>2 DEF Sound
<1> QED
  BY <1>1, <1>3, QuietStep

\* A handler that goes on.
LEMMA GotoStep ==
  ASSUME Inv, NEW r \in Requests, NEW at \in Ats, Goto(r, at), ~req[r].retried,
         rows' = rows, said' = said, moved' = moved, start' = start, seen' = seen, Rest',
         faults' = faults,
         (req[r].at \in Writing /\ at \in Writing)
         \/ (req[r].at \in {"new", "list", "answer"} /\ at \in {"list", "answer", "ok"})
  PROVE  Inv'
<1>1. PICK h \in Handler : /\ req' = [req EXCEPT ![r] = h] /\ h.at = at
                           /\ h.names = req[r].names /\ h.retried = req[r].retried
  BY GotoFacts DEF Inv
<1>2. faults \in Nat
  BY BoundsAssumption DEF Inv, TypeOK
<1>3. Sound(h, rows, faults')
  BY <1>1, <1>2 DEF Sound, Inv, Handlers, Writing
<1>4. h.at = "ok" => Holds(h.names) \subseteq Holds(said[h.scope])
  BY <1>1 DEF Inv, Handlers, Writing, Holds, NoRow
<1>5. faults <= faults'
  BY <1>2
<1> QED
  BY <1>1, <1>3, <1>4, <1>5, QuietStep

LEMMA RestSame ==
  ASSUME Inv, UNCHANGED env, copy' \in [Requests -> [Scopes -> Setting]],
         answer' \in [Requests -> [Scopes -> SUBSET Channels]], start' = start, seen' = seen,
         faults' \in 0..MaxFaults
  PROVE  Rest'
  BY DEF Rest, Inv, TypeOK, env

\* Before an upsert a handler has not tried twice.
LEMMA FirstTry ==
  ASSUME Inv, NEW r \in Requests, req[r].at # "match"
  PROVE  ~req[r].retried
  BY DEF Inv, Handlers, TypeOK, Handler

LEMMA FaultsNat ==
  ASSUME Inv
  PROVE  faults \in Nat /\ faults <= faults /\ faults \in 0..MaxFaults
  BY BoundsAssumption DEF Inv, TypeOK

LEMMA AcceptStep ==
  ASSUME Inv, NEW r \in Requests, NEW s \in Scopes, NEW names \in Payloads, Accept(r, s, names)
  PROVE  Inv'
<1>1. Rest'
  BY FaultsNat, RestSame DEF Accept, lists, Inv, TypeOK
<1>2. CASE names = NoRow
  BY <1>1, <1>2, FaultsNat, LostStep DEF Accept, Outcome
<1>3. CASE names # NoRow
  <2> DEFINE h == [req[r] EXCEPT !.at = "lookup", !.scope = s, !.names = names]
  <2>1. req[r] \in Handler /\ names \in Setting
    BY InputsAssumption DEF Inv, TypeOK
  <2>2. h \in Handler /\ h.at = "lookup" /\ h.names = names /\ h.retried = req[r].retried
    BY <2>1 DEF Handler
  <2>3. req' = [req EXCEPT ![r] = h]
    BY <1>3 DEF Accept
  <2> HIDE DEF h
  <2>4. Sound(h, rows, faults')
    BY <1>3, <2>2, FirstTry DEF Sound, Accept
  <2> QED
    BY <1>1, <2>2, <2>3, <2>4, FaultsNat, QuietStep DEF Accept
<1> QED
  BY <1>2, <1>3

LEMMA LookupGlobalStep ==
  ASSUME Inv, NEW r \in Requests, LookupGlobal(r)
  PROVE  Inv'
<1>1. Rest'
  BY FaultsNat, RestSame DEF LookupGlobal, lists, Inv, TypeOK
<1>2. CASE ~found
  BY <1>1, <1>2, FaultsNat, LostStep DEF LookupGlobal, Outcome
<1>3. CASE found
  <2> DEFINE h == [req[r] EXCEPT !.at = "match", !.seed = Channels]
  <2>1. req[r] \in Handler
    BY DEF Inv, TypeOK
  <2>2. h \in Handler /\ h.at = "match" /\ h.names = req[r].names /\ h.retried = req[r].retried
    BY <2>1 DEF Handler
  <2>3. req' = [req EXCEPT ![r] = h]
    BY <1>3 DEF LookupGlobal
  <2> HIDE DEF h
  <2>4. Sound(h, rows, faults')
    BY <2>2, FirstTry DEF Sound, LookupGlobal, Inv, Handlers, Writing
  <2> QED
    BY <1>1, <2>2, <2>3, <2>4, FaultsNat, QuietStep DEF LookupGlobal
<1> QED
  BY <1>2, <1>3

LEMMA LookupWorkflowStep ==
  ASSUME Inv, NEW r \in Requests, LookupWorkflow(r)
  PROVE  Inv'
<1> DEFINE s == req[r].scope
<1>1. Rest'
  BY FaultsNat, RestSame DEF LookupWorkflow, lists, Inv, TypeOK
<1>2. CASE ~(s \in active /\ found)
  BY <1>1, <1>2, FaultsNat, LostStep DEF LookupWorkflow, Outcome
<1>3. CASE s \in active /\ found
  <2> DEFINE h == [req[r] EXCEPT !.at = "read", !.seed = default[s]]
  <2>1. req[r] \in Handler /\ default[s] \in SUBSET Channels
    BY <1>3 DEF Inv, TypeOK
  <2>2. h \in Handler /\ h.at = "read" /\ h.names = req[r].names /\ h.retried = req[r].retried
    BY <2>1 DEF Handler
  <2>3. req' = [req EXCEPT ![r] = h]
    BY <1>3 DEF LookupWorkflow
  <2> HIDE DEF h
  <2>4. Sound(h, rows, faults')
    BY <2>2, FirstTry DEF Sound, LookupWorkflow, Inv, Handlers, Writing
  <2> QED
    BY <1>1, <2>2, <2>3, <2>4, FaultsNat, QuietStep DEF LookupWorkflow
<1> QED
  BY <1>2, <1>3

LEMMA ReadRowsStep ==
  ASSUME Inv, NEW r \in Requests, ReadRows(r)
  PROVE  Inv'
<1> DEFINE seed == Resolve(rows[req[r].scope], rows[Global], req[r].seed)
           h == [req[r] EXCEPT !.at = "match", !.seed = seed]
<1>1. Rest'
  BY FaultsNat, RestSame DEF ReadRows, lists, Inv, TypeOK
<1>2. req[r] \in Handler /\ seed \in SUBSET Channels
  <2>1. req[r] \in Handler /\ rows \in [Scopes -> Setting]
    BY DEF Inv, TypeOK
  <2>2. rows[req[r].scope] \in Setting /\ rows[Global] \in Setting /\ req[r].seed \in SUBSET Channels
    BY <2>1 DEF Handler, Scopes
  <2> QED
    BY <2>1, <2>2, Resolved1
<1>3. req' = [req EXCEPT ![r] = h]
  BY DEF ReadRows
<1> HIDE DEF seed
<1>4. h \in Handler /\ h.at = "match" /\ h.names = req[r].names /\ h.retried = req[r].retried
  BY <1>2 DEF Handler
<1> HIDE DEF h
<1>5. Sound(h, rows, faults')
  BY <1>4, FirstTry DEF Sound, ReadRows, Inv, Handlers, Writing
<1> QED
  BY <1>1, <1>3, <1>4, <1>5, FaultsNat, QuietStep DEF ReadRows

\* Done and Write, with the row there or not.
LEMMA DoneStep ==
  ASSUME Inv, NEW r \in Requests, req[r].at \in {"match", "insert"}, Write(r), Done(r),
         UNCHANGED <<env, lists, start, faults, seen>>
  PROVE  Inv'
<1>1. Rest'
  BY FaultsNat, RestSame DEF lists, Inv, TypeOK
<1>2. PICK h \in Handler : /\ req' = [req EXCEPT ![r] = h] /\ h.at = "ok"
                           /\ h.names = req[r].names /\ h.scope = req[r].scope
                           /\ h.retried = FALSE
  BY DoneFacts DEF Inv
<1>3. Sound(h, rows', faults')
  BY <1>2 DEF Sound, Writing
<1>4. req[r].names # NoRow
  BY DEF Inv, Handlers, Writing
<1> QED
  BY <1>1, <1>2, <1>3, <1>4, FaultsNat, WriteStep

LEMMA MatchStep ==
  ASSUME Inv, NEW r \in Requests, Match(r)
  PROVE  Inv'
<1>1. CASE rows[req[r].scope] # NoRow
  BY <1>1, DoneStep DEF Match
<1>2. CASE rows[req[r].scope] = NoRow
  <2>1. Rest'
    BY FaultsNat, RestSame DEF Match, lists, Inv, TypeOK
  <2>2. ~req[r].retried
    BY <1>2 DEF Inv, Handlers
  <2>3. Goto(r, "insert") /\ "insert" \in Ats /\ "insert" \in Writing /\ req[r].at \in Writing
    BY <1>2 DEF Match, Ats, Writing
  <2> QED
    BY <1>2, <2>1, <2>2, <2>3, GotoStep DEF Match
<1> QED
  BY <1>1, <1>2

LEMMA InsertRowStep ==
  ASSUME Inv, NEW r \in Requests, InsertRow(r)
  PROVE  Inv'
<1>1. CASE rows[req[r].scope] = NoRow
  BY <1>1, DoneStep DEF InsertRow
<1>2. CASE rows[req[r].scope] # NoRow
  <2> DEFINE h == [req[r] EXCEPT !.at = "match", !.retried = TRUE]
  <2>1. Rest'
    BY FaultsNat, RestSame DEF InsertRow, lists, Inv, TypeOK
  <2>2. ~req[r].retried
    BY FirstTry DEF InsertRow
  <2>3. req' = [req EXCEPT ![r] = h]
    BY <1>2, <2>2 DEF InsertRow, AfterDuplicate
  <2>4. req[r] \in Handler
    BY DEF Inv, TypeOK
  <2>5. h \in Handler /\ h.at = "match" /\ h.names = req[r].names /\ h.scope = req[r].scope
    BY <2>4 DEF Handler
  <2> HIDE DEF h
  <2>6. Sound(h, rows, faults')
    BY <1>2, <2>5 DEF Sound, InsertRow, Inv, Handlers, Writing
  <2> QED
    BY <1>2, <2>1, <2>3, <2>5, <2>6, FaultsNat, QuietStep DEF InsertRow
<1> QED
  BY <1>1, <1>2

LEMMA FailStep ==
  ASSUME Inv, NEW r \in Requests, Fail(r)
  PROVE  Inv'
<1>1. Rest'
  <2>1. faults' \in 0..MaxFaults
    BY FaultsNat, BoundsAssumption DEF Fail
  <2>2. copy' \in [Requests -> [Scopes -> Setting]]
    <3>1. NoRows \in [Scopes -> Setting]
      BY SettingFacts DEF NoRows
    <3> QED
      BY <3>1 DEF Fail, Inv, TypeOK
  <2> QED
    BY <2>1, <2>2, RestSame DEF Fail, Inv, TypeOK
<1>2. faults <= faults' /\ faults' > 0
  BY FaultsNat DEF Fail
<1>3. CASE UNCHANGED <<rows, said, moved>>
  BY <1>1, <1>2, <1>3, LostStep DEF Fail, Outcome
<1>4. CASE req[r].at \in {"match", "insert"} /\ Write(r)
  <2>1. PICK h \in Handler : /\ req' = [req EXCEPT ![r] = h] /\ h.at = "error"
                             /\ h.names = NoRow /\ h.retried = FALSE
    BY LostFacts DEF Inv, Outcome, Fail
  <2>2. Sound(h, rows', faults')
    BY <1>2, <2>1 DEF Sound, Writing
  <2>3. req[r].names # NoRow
    BY <1>4 DEF Inv, Handlers, Writing
  <2> QED
    BY <1>1, <1>2, <1>4, <2>1, <2>2, <2>3, WriteStep DEF Fail
<1> QED
  BY <1>3, <1>4 DEF Fail

LEMMA BeginListStep ==
  ASSUME Inv, NEW r \in Requests, BeginList(r)
  PROVE  Inv'
<1>1. Rest'
  BY FaultsNat, RestSame DEF BeginList, lists, Inv, TypeOK
<1>2. CASE found
  <2>1. Goto(r, "list") /\ "list" \in Ats /\ ~req[r].retried
    BY <1>2, FirstTry DEF BeginList, Ats
  <2> QED
    BY <1>1, <2>1, GotoStep DEF BeginList
<1>3. CASE ~found
  BY <1>1, <1>3, FaultsNat, LostStep DEF BeginList, Outcome
<1> QED
  BY <1>2, <1>3

LEMMA ListRowsStep ==
  ASSUME Inv, NEW r \in Requests, ListRows(r)
  PROVE  Inv'
<1>1. Rest'
  BY FaultsNat, RestSame DEF ListRows, Inv, TypeOK
<1>2. Goto(r, "answer") /\ "answer" \in Ats /\ ~req[r].retried
  BY FirstTry DEF ListRows, Ats
<1> QED
  BY <1>1, <1>2, GotoStep DEF ListRows

LEMMA AnswerStep ==
  ASSUME Inv, NEW r \in Requests, Answer(r)
  PROVE  Inv'
<1>1. Resolved(copy[r]) \in [Scopes -> SUBSET Channels]
  <2>1. copy[r] \in [Scopes -> Setting] /\ default \in [Workflows -> SUBSET Channels]
    BY DEF Inv, TypeOK
  <2>2. Global \in Scopes /\ active \subseteq Workflows
    BY DEF Scopes, Inv, TypeOK
  <2>3. \A s \in Scopes : Mask(copy[r][s]) \in SUBSET Channels
    BY <2>1, Resolved1
  <2>4. \A s \in active : Resolve(copy[r][s], copy[r][Global], default[s]) \in SUBSET Channels
    BY <2>1, <2>2, Resolved1 DEF Scopes
  <2> QED
    BY <2>2, <2>3, <2>4 DEF Resolved
<1>2. NoRows \in [Scopes -> Setting]
  BY SettingFacts DEF NoRows
<1>3. Rest'
  BY <1>1, <1>2, FaultsNat, RestSame DEF Answer, Inv, TypeOK
<1>4. Goto(r, "ok") /\ "ok" \in Ats /\ ~req[r].retried
  BY FirstTry DEF Answer, Ats, Outcome
<1> QED
  BY <1>3, <1>4, GotoStep DEF Answer

\* A step of a starting binary: the handlers stay, a row only gains channels.
LEMMA StartStep ==
  ASSUME Inv, req' = req, said' = said, Rest', faults <= faults', moved' \subseteq Requests,
         rows' \in [Scopes -> Setting], Filling',
         \A s \in Scopes : /\ rows[s] # NoRow => rows'[s] # NoRow
                           /\ rows[s].on \subseteq rows'[s].on /\ rows[s].off \subseteq rows'[s].off
  PROVE  Inv'
<1>1. TypeOK'
  BY DEF Inv, TypeOK, Rest
<1>2. Handlers'
  <2> SUFFICES ASSUME NEW r \in Requests
               PROVE  Sound(req[r], rows', faults')
    BY DEF Handlers, Sound
  <2>1. Sound(req[r], rows, faults) /\ req[r].scope \in Scopes
    BY DEF Inv, Handlers, Sound, TypeOK, Handler
  <2>2. faults > 0 => faults' > 0
    BY BoundsAssumption DEF Inv, TypeOK, Rest
  <2> QED
    BY <2>1, <2>2 DEF Sound
<1>3. Said'
  BY DEF Inv, Said, Holds
<1> QED
  BY <1>1, <1>2, <1>3 DEF Inv

LEMMA BackfillRows ==
  ASSUME Inv, NEW b \in Starts, NEW c \in Channels, Backfill(b, c)
  PROVE  /\ rows' \in [Scopes -> Setting] /\ rows'[Global] = Filled(rows[Global], c)
         /\ \A s \in Scopes \ {Global} : rows'[s] = rows[s]
<1>1. Global \in Scopes /\ rows \in [Scopes -> Setting]
  BY DEF Scopes, Inv, TypeOK
<1>2. Filled(rows[Global], c) \in Setting
  BY <1>1, FilledFacts
<1> QED
  BY <1>1, <1>2 DEF Backfill

LEMMA BackfillStep ==
  ASSUME Inv, NEW b \in Starts, NEW c \in Channels, Backfill(b, c)
  PROVE  Inv'
<1>1. Global \in Scopes /\ rows[Global] \in Setting
  BY DEF Scopes, Inv, TypeOK
<1>2. /\ rows' \in [Scopes -> Setting] /\ rows'[Global] = Filled(rows[Global], c)
      /\ \A s \in Scopes \ {Global} : rows'[s] = rows[s]
  BY BackfillRows
<1>3. /\ rows[Global].on \subseteq rows'[Global].on /\ rows[Global].off \subseteq rows'[Global].off
      /\ rows[Global] = NoRow => rows'[Global] = NoRow
      /\ rows[Global] # NoRow => rows'[Global] # NoRow
                                 /\ Holds(rows'[Global]) = Holds(rows[Global]) \cup {c}
  BY <1>1, <1>2, FilledFacts
<1>4. start \in [Starts -> SUBSET Channels] /\ start' = [start EXCEPT ![b] = start[b] \ {c}]
  BY DEF Inv, TypeOK, Backfill
<1>5. start' \in [Starts -> SUBSET Channels]
  BY <1>4
<1>6. Rest'
  BY <1>5 DEF Rest, Inv, TypeOK, Backfill, env, lists
<1>7. moved' \subseteq Requests
  BY DEF Backfill, Inv, TypeOK, SeededFrom, Listing
<1>8. Filling'
  <2> SUFFICES ASSUME NEW d \in Starts, seen[d], rows'[Global] # NoRow
               PROVE  Channels \ start'[d] \subseteq Holds(rows'[Global])
    BY DEF Filling, Backfill, Holds
  <2>1. Channels \ start[d] \subseteq Holds(rows[Global])
    BY <1>3 DEF Inv, Filling
  <2>2. Channels \ start'[d] \subseteq (Channels \ start[d]) \cup {c}
    BY <1>4
  <2> QED
    BY <1>3, <2>1, <2>2
<1>9. \A s \in Scopes : /\ rows[s] # NoRow => rows'[s] # NoRow
                        /\ rows[s].on \subseteq rows'[s].on /\ rows[s].off \subseteq rows'[s].off
  BY <1>2, <1>3
<1> QED
  BY <1>2, <1>6, <1>7, <1>8, <1>9, FaultsNat, StartStep DEF Backfill

LEMMA BackfillFailsStep ==
  ASSUME Inv, NEW b \in Starts, BackfillFails(b)
  PROVE  Inv'
<1>1. faults' \in 0..MaxFaults /\ faults <= faults'
  BY FaultsNat, BoundsAssumption DEF BackfillFails
<1>2. /\ start \in [Starts -> SUBSET Channels] /\ start' = [start EXCEPT ![b] = {}]
      /\ seen \in [Starts -> BOOLEAN] /\ seen' = [seen EXCEPT ![b] = FALSE]
  BY DEF Inv, TypeOK, BackfillFails
<1>3. start' \in [Starts -> SUBSET Channels] /\ seen' \in [Starts -> BOOLEAN]
  BY <1>2
<1>4. Rest'
  BY <1>1, <1>3 DEF Rest, Inv, TypeOK, BackfillFails, env, lists
<1>5. \A d \in Starts : seen'[d] => seen[d] /\ start'[d] = start[d]
  BY <1>2
<1>6. Filling'
  BY <1>5 DEF Filling, Inv, BackfillFails, Holds
<1> QED
  BY <1>1, <1>4, <1>6, StartStep DEF BackfillFails, Inv, TypeOK

LEMMA EditStep ==
  ASSUME Inv, NEW w \in Workflows, Edit(w)
  PROVE  Inv'
<1>1. edits' \in 0..MaxEdits
  BY BoundsAssumption DEF Edit, Inv, TypeOK
<1>2. default' \in [Workflows -> SUBSET Channels]
  BY InputsAssumption DEF Edit, Inv, TypeOK
<1>3. active' \subseteq Workflows /\ found' \in BOOLEAN
  BY DEF Edit, Inv, TypeOK
<1>4. moved' \subseteq Requests
  BY DEF Edit, Inv, TypeOK, KeepsDefaults, Listing
<1>5. Rest'
  BY <1>1, <1>2, <1>3 DEF Rest, Inv, TypeOK, Edit, lists
<1>6. Filling'
  BY DEF Filling, Inv, Edit, Holds
<1> QED
  BY <1>4, <1>5, <1>6, FaultsNat, StartStep DEF Edit, Inv, TypeOK

LEMMA InitInv ==
  ASSUME Init
  PROVE  Inv
<1>1. rows \in [Scopes -> Setting] /\ default \in [Workflows -> SUBSET Channels]
  BY InputsAssumption DEF Init
<1>2. req \in [Requests -> Handler] /\ \A r \in Requests : req[r] = New
  BY HandlerFacts DEF Init
<1>3. NoRows \in [Scopes -> Setting] /\ \A s \in Scopes : said[s] = NoRow
  BY SettingFacts DEF NoRows, Init
<1>4. TypeOK
  BY <1>1, <1>2, <1>3, BoundsAssumption DEF Init, TypeOK
<1>5. Handlers
  <2>0. New.at = "new" /\ New.names = NoRow /\ New.retried = FALSE
    BY DEF New
  <2>1. \A r \in Requests : req[r].at = "new" /\ req[r].names = NoRow /\ req[r].retried = FALSE
    BY <1>2, <2>0
  <2>2. "new" \notin Writing /\ "new" # "error"
    BY DEF Writing
  <2> QED
    BY <2>1, <2>2 DEF Handlers
<1>6. Said
  BY <1>2, <1>3 DEF Said, New, NoRow
<1>7. Filling
  BY DEF Filling, Init
<1> QED
  BY <1>4, <1>5, <1>6, <1>7 DEF Inv

LEMMA StutterInv ==
  ASSUME Inv, UNCHANGED vars
  PROVE  Inv'
  BY DEF Inv, TypeOK, Handlers, Said, Filling, Holds, vars

LEMMA NextInv ==
  ASSUME Inv, [Next]_vars
  PROVE  Inv'
<1>1. ASSUME NEW r \in Requests, NEW s \in Scopes, NEW names \in Payloads, Accept(r, s, names)
      PROVE  Inv'
  BY <1>1, AcceptStep
<1>2. ASSUME NEW r \in Requests, BeginList(r) \/ Handle(r) \/ Fail(r)
      PROVE  Inv'
  BY <1>2, BeginListStep, LookupGlobalStep, LookupWorkflowStep, ReadRowsStep, MatchStep,
     InsertRowStep, ListRowsStep, AnswerStep, FailStep DEF Handle
<1>3. ASSUME NEW b \in Starts, BackfillFails(b) \/ \E c \in Channels : Backfill(b, c)
      PROVE  Inv'
  BY <1>3, BackfillFailsStep, BackfillStep
<1>4. ASSUME NEW w \in Workflows, Edit(w)
      PROVE  Inv'
  BY <1>4, EditStep
<1> QED
  BY <1>1, <1>2, <1>3, <1>4, StutterInv DEF Next

\* The store is well typed: a row never holds a channel as both on and off.
THEOREM TypeCorrect == Spec => []TypeOK
<1>1. Inv => TypeOK
  BY DEF Inv
<1> QED
  BY <1>1, InitInv, NextInv, PTL DEF Spec

\* No concurrent request, first write or backfill loses a channel someone named.
THEOREM NamedStand == Spec => []NamedWritesStand
<1>1. Inv => NamedWritesStand
  BY DEF Inv, Said, NamedWritesStand
<1> QED
  BY <1>1, InitInv, NextInv, PTL DEF Spec

\* Requests that race for the unique index all succeed.
THEOREM OnlyFaults == Spec => []OnlyFaultsFail
<1>1. Inv => OnlyFaultsFail
  BY DEF Inv, Handlers, OnlyFaultsFail
<1> QED
  BY <1>1, InitInv, NextInv, PTL DEF Spec

\* A start that has gone through the channels leaves no hole in the mask, and no later
\* insert makes one.
THEOREM Complete == Spec => []MaskComplete
<1>1. Inv => MaskComplete
  <2> SUFFICES ASSUME Inv, NEW b \in Starts, start[b] = {}, seen[b], rows[Global] # NoRow
               PROVE  Holds(rows[Global]) = Channels
    BY DEF MaskComplete
  <2>1. Channels \subseteq Holds(rows[Global])
    BY DEF Inv, Filling
  <2>2. rows[Global] \in Setting
    BY DEF Inv, TypeOK, Scopes
  <2> QED
    BY <2>1, <2>2, SettingFacts DEF Holds
<1> QED
  BY <1>1, InitInv, NextInv, PTL DEF Spec

-----------------------------------------------------------------------------
(* Seeds and copies: what a handler read is what is stored, until a step that  *)
(* changes it moves the handler.                                               *)

Fresh(h, c, stored, defaults) ==
  /\ h.at = "read" => h.scope # Global /\ h.seed = defaults[h.scope]
  /\ h.at \in {"match", "insert"} /\ h.scope # Global =>
       h.seed = Resolve(stored[h.scope], stored[Global], defaults[h.scope])
  /\ h.at = "answer" => c = stored

Seeds == \A r \in Requests \ moved : Fresh(req[r], copy[r], rows, default)

\* A step of a handler that writes no row.
LEMMA QuietSeeds ==
  ASSUME Inv, Seeds, NEW r \in Requests, rows' = rows, default' = default, moved' = moved,
         \A q \in Requests \ {r} : req'[q] = req[q] /\ copy'[q] = copy[q],
         r \notin moved => Fresh(req'[r], copy'[r], rows, default)
  PROVE  Seeds'
<1> SUFFICES ASSUME NEW q \in Requests, q \notin moved
             PROVE  Fresh(req'[q], copy'[q], rows, default)
  BY DEF Seeds, Fresh
<1>1. CASE q = r
  BY <1>1
<1>2. CASE q # r
  BY <1>2 DEF Seeds
<1> QED
  BY <1>1, <1>2

\* What a write stores and says.
LEMMA WriteIs ==
  ASSUME Inv, NEW r \in Requests, Write(r)
  PROVE  /\ rows'[req[r].scope] = Stored(r, rows[req[r].scope])
         /\ said'[req[r].scope] = Over(req[r].names, said[req[r].scope])
         /\ \A s \in Scopes \ {req[r].scope} : rows'[s] = rows[s]
         /\ req[r].scope \in Scopes /\ req[r].names \in Setting /\ req[r].seed \in SUBSET Channels
<1>1. req[r] \in Handler /\ rows \in [Scopes -> Setting] /\ said \in [Scopes -> Setting]
  BY DEF Inv, TypeOK
<1>2. req[r].scope \in Scopes /\ req[r].names \in Setting /\ req[r].seed \in SUBSET Channels
  BY <1>1 DEF Handler
<1> QED
  BY <1>1, <1>2 DEF Write

LEMMA WriteSeeds ==
  ASSUME Inv, Seeds, NEW r \in Requests, Write(r), default' = default,
         \A q \in Requests \ {r} : req'[q] = req[q] /\ copy'[q] = copy[q],
         req'[r].at \in Outcome
  PROVE  Seeds'
<1> DEFINE s == req[r].scope
<1> SUFFICES ASSUME NEW q \in Requests, q \notin moved'
             PROVE  Fresh(req'[q], copy'[q], rows', default)
  BY DEF Seeds, Fresh
<1>1. CASE q = r
  BY <1>1 DEF Fresh, Outcome
<1>2. CASE q # r
  <2>1. q \notin moved /\ q \notin SeededFrom(s) /\ q \notin Listing
    BY <1>2 DEF Write
  <2>2. Fresh(req[q], copy[q], rows, default)
    BY <2>1 DEF Seeds
  <2>3. req[q].at # "answer"
    BY <2>1 DEF Listing
  <2>4. ASSUME req[q].at \in {"match", "insert"}, req[q].scope # Global
        PROVE  rows'[req[q].scope] = rows[req[q].scope] /\ rows'[Global] = rows[Global]
    <3>1. s \notin {req[q].scope, Global}
      BY <2>1, <2>4 DEF SeededFrom
    <3>2. req[q].scope \in Scopes /\ Global \in Scopes
      BY DEF Inv, TypeOK, Handler, Scopes
    <3> QED
      BY <3>1, <3>2, WriteIs
  <2> QED
    BY <1>2, <2>2, <2>3, <2>4 DEF Fresh
<1> QED
  BY <1>1, <1>2

\* The handlers but one are as they were.
LEMMA OthersStay ==
  ASSUME Inv, NEW r \in Requests, NEW h, req' = [req EXCEPT ![r] = h]
  PROVE  req'[r] = h /\ \A q \in Requests \ {r} : req'[q] = req[q]
  BY DEF Inv, TypeOK

LEMMA GotoOthers ==
  ASSUME Inv, NEW r \in Requests, NEW at, Goto(r, at)
  PROVE  /\ req'[r].at = at /\ req'[r].scope = req[r].scope /\ req'[r].seed = req[r].seed
         /\ \A q \in Requests \ {r} : req'[q] = req[q]
<1>1. req \in [Requests -> Handler] /\ req[r] \in Handler
  BY DEF Inv, TypeOK
<1>2. req' = [req EXCEPT ![r] = [req[r] EXCEPT !.at = at]]
  BY DEF Goto
<1>3. [req[r] EXCEPT !.at = at].at = at /\ [req[r] EXCEPT !.at = at].scope = req[r].scope
      /\ [req[r] EXCEPT !.at = at].seed = req[r].seed
  BY <1>1 DEF Handler
<1> QED
  BY <1>2, <1>3, OthersStay

LEMMA LostOthers ==
  ASSUME Inv, NEW r \in Requests, NEW why, Lost(r, why)
  PROVE  req'[r].at = why /\ \A q \in Requests \ {r} : req'[q] = req[q]
<1>1. req' = [req EXCEPT ![r] = [New EXCEPT !.at = why]] /\ [New EXCEPT !.at = why].at = why
  BY DEF Lost, New
<1> QED
  BY <1>1, OthersStay

LEMMA DoneOthers ==
  ASSUME Inv, NEW r \in Requests, Done(r)
  PROVE  req'[r].at = "ok" /\ \A q \in Requests \ {r} : req'[q] = req[q]
<1> DEFINE h == [req[r] EXCEPT !.at = "ok", !.seed = {}, !.retried = FALSE]
<1>1. req' = [req EXCEPT ![r] = h]
  BY DEF Done
<1>2. req[r] \in Handler
  BY DEF Inv, TypeOK
<1>3. h.at = "ok"
  BY <1>2 DEF Handler
<1> HIDE DEF h
<1> QED
  BY <1>1, <1>3, OthersStay

\* A handler that is nowhere near a seed or a copy has nothing to compare.
LEMMA NothingRead ==
  ASSUME NEW h, NEW c, h.at \notin {"read", "match", "insert", "answer"}
  PROVE  Fresh(h, c, rows, default)
  BY DEF Fresh

LEMMA AcceptSeeds ==
  ASSUME Inv, Seeds, NEW r \in Requests, NEW s \in Scopes, NEW names \in Payloads,
         Accept(r, s, names)
  PROVE  Seeds'
<1>1. req'[r].at \in {"rejected", "lookup"} /\ \A q \in Requests \ {r} : req'[q] = req[q]
  <2>1. CASE names = NoRow
    BY <2>1, LostOthers DEF Accept
  <2>2. CASE names # NoRow
    <3> DEFINE h == [req[r] EXCEPT !.at = "lookup", !.scope = s, !.names = names]
    <3>1. req' = [req EXCEPT ![r] = h]
      BY <2>2 DEF Accept
    <3>2. h.at = "lookup"
      BY DEF Inv, TypeOK, Handler
    <3> HIDE DEF h
    <3> QED
      BY <3>1, <3>2, OthersStay
  <2> QED
    BY <2>1, <2>2
<1>2. Fresh(req'[r], copy'[r], rows, default)
  BY <1>1, NothingRead
<1> QED
  BY <1>1, <1>2, QuietSeeds DEF Accept, env, lists

LEMMA LookupSeeds ==
  ASSUME Inv, Seeds, NEW r \in Requests, LookupGlobal(r) \/ LookupWorkflow(r)
  PROVE  Seeds'
<1> DEFINE s == req[r].scope
           g == [req[r] EXCEPT !.at = "match", !.seed = Channels]
           w == [req[r] EXCEPT !.at = "read", !.seed = default[s]]
<1>1. req[r] \in Handler
  BY DEF Inv, TypeOK
<1>2. /\ rows' = rows /\ default' = default /\ moved' = moved /\ copy' = copy
      /\ \/ Lost(r, "not found")
         \/ s = Global /\ req' = [req EXCEPT ![r] = g]
         \/ s # Global /\ req' = [req EXCEPT ![r] = w]
  BY DEF LookupGlobal, LookupWorkflow, env, lists
<1>3. /\ g.at = "match" /\ g.scope = s
      /\ w.at = "read" /\ w.scope = s /\ w.seed = default[s]
  BY <1>1 DEF Handler
<1> HIDE DEF s, g, w
<1>4. CASE Lost(r, "not found")
  <2>1. req'[r].at = "not found" /\ \A q \in Requests \ {r} : req'[q] = req[q]
    BY <1>4, LostOthers
  <2>2. Fresh(req'[r], copy'[r], rows, default)
    BY <2>1, NothingRead
  <2> QED
    BY <1>2, <2>1, <2>2, QuietSeeds
<1>5. CASE s = Global /\ req' = [req EXCEPT ![r] = g]
  <2>1. req'[r] = g /\ \A q \in Requests \ {r} : req'[q] = req[q]
    BY <1>5, OthersStay
  <2>2. Fresh(req'[r], copy'[r], rows, default)
    BY <1>3, <1>5, <2>1 DEF Fresh
  <2> QED
    BY <1>2, <2>1, <2>2, QuietSeeds
<1>6. CASE s # Global /\ req' = [req EXCEPT ![r] = w]
  <2>1. req'[r] = w /\ \A q \in Requests \ {r} : req'[q] = req[q]
    BY <1>6, OthersStay
  <2>2. Fresh(req'[r], copy'[r], rows, default)
    BY <1>3, <1>6, <2>1 DEF Fresh
  <2> QED
    BY <1>2, <2>1, <2>2, QuietSeeds
<1> QED
  BY <1>2, <1>4, <1>5, <1>6

LEMMA ReadRowsSeeds ==
  ASSUME Inv, Seeds, NEW r \in Requests, ReadRows(r)
  PROVE  Seeds'
<1> DEFINE seed == Resolve(rows[req[r].scope], rows[Global], req[r].seed)
           h == [req[r] EXCEPT !.at = "match", !.seed = seed]
<1>1. req' = [req EXCEPT ![r] = h]
  BY DEF ReadRows
<1>2. req[r] \in Handler
  BY DEF Inv, TypeOK
<1> HIDE DEF seed
<1>3. h.at = "match" /\ h.scope = req[r].scope /\ h.seed = seed
  BY <1>2 DEF Handler
<1> HIDE DEF h
<1>4. req'[r] = h /\ \A q \in Requests \ {r} : req'[q] = req[q]
  BY <1>1, OthersStay
<1>5. r \notin moved => Fresh(req'[r], copy'[r], rows, default)
  <2> SUFFICES ASSUME r \notin moved
               PROVE  h.seed = Resolve(rows[h.scope], rows[Global], default[h.scope])
    BY <1>3, <1>4 DEF Fresh
  <2>1. req[r].seed = default[req[r].scope]
    BY DEF Seeds, Fresh, ReadRows
  <2> QED
    BY <1>3, <2>1 DEF seed
<1> QED
  BY <1>4, <1>5, QuietSeeds DEF ReadRows, env, lists

LEMMA DoneSeeds ==
  ASSUME Inv, Seeds, NEW r \in Requests, Write(r), Done(r), UNCHANGED <<env, lists>>
  PROVE  Seeds'
<1>1. req'[r].at = "ok" /\ \A q \in Requests \ {r} : req'[q] = req[q]
  BY DoneOthers
<1> QED
  BY <1>1, WriteSeeds DEF env, lists, Outcome

LEMMA MatchSeeds ==
  ASSUME Inv, Seeds, NEW r \in Requests, Match(r)
  PROVE  Seeds'
<1>1. CASE rows[req[r].scope] # NoRow
  BY <1>1, DoneSeeds DEF Match
<1>2. CASE rows[req[r].scope] = NoRow
  <2>1. /\ req'[r].at = "insert" /\ req'[r].scope = req[r].scope /\ req'[r].seed = req[r].seed
        /\ \A q \in Requests \ {r} : req'[q] = req[q]
    BY <1>2, GotoOthers DEF Match
  <2>2. r \notin moved => Fresh(req'[r], copy'[r], rows, default)
    BY <2>1 DEF Seeds, Fresh, Match
  <2> QED
    BY <1>2, <2>1, <2>2, QuietSeeds DEF Match, env, lists
<1> QED
  BY <1>1, <1>2

LEMMA InsertRowSeeds ==
  ASSUME Inv, Seeds, NEW r \in Requests, InsertRow(r)
  PROVE  Seeds'
<1>1. CASE rows[req[r].scope] = NoRow
  BY <1>1, DoneSeeds DEF InsertRow
<1>2. CASE rows[req[r].scope] # NoRow
  <2> DEFINE h == [req[r] EXCEPT !.at = "match", !.retried = TRUE]
  <2>1. req[r] \in Handler /\ ~req[r].retried
    BY FirstTry DEF InsertRow, Inv, TypeOK
  <2>2. req' = [req EXCEPT ![r] = h]
    BY <1>2, <2>1 DEF InsertRow, AfterDuplicate
  <2>3. h.at = "match" /\ h.scope = req[r].scope /\ h.seed = req[r].seed
    BY <2>1 DEF Handler
  <2> HIDE DEF h
  <2>4. req'[r] = h /\ \A q \in Requests \ {r} : req'[q] = req[q]
    BY <2>2, OthersStay
  <2>5. r \notin moved => Fresh(req'[r], copy'[r], rows, default)
    BY <2>3, <2>4 DEF Seeds, Fresh, InsertRow
  <2> QED
    BY <1>2, <2>4, <2>5, QuietSeeds DEF InsertRow, env, lists
<1> QED
  BY <1>1, <1>2

LEMMA FailSeeds ==
  ASSUME Inv, Seeds, NEW r \in Requests, Fail(r)
  PROVE  Seeds'
<1>1. req'[r].at = "error" /\ \A q \in Requests \ {r} : req'[q] = req[q]
  BY LostOthers DEF Fail
<1>2. \A q \in Requests \ {r} : copy'[q] = copy[q]
  BY DEF Fail, Inv, TypeOK
<1>3. CASE UNCHANGED <<rows, said, moved>>
  <2>1. Fresh(req'[r], copy'[r], rows, default)
    BY <1>1, NothingRead
  <2> QED
    BY <1>1, <1>2, <1>3, <2>1, QuietSeeds DEF Fail, env
<1>4. CASE Write(r)
  BY <1>1, <1>2, <1>4, WriteSeeds DEF Fail, env, Outcome
<1> QED
  BY <1>3, <1>4 DEF Fail

LEMMA ListSeeds ==
  ASSUME Inv, Seeds, NEW r \in Requests, BeginList(r) \/ ListRows(r) \/ Answer(r)
  PROVE  Seeds'
<1>1. rows' = rows /\ default' = default /\ moved' = moved
  BY DEF BeginList, ListRows, Answer, env
<1>2. \A q \in Requests \ {r} : copy'[q] = copy[q]
  BY DEF BeginList, ListRows, Answer, lists, Inv, TypeOK
<1>3. \A q \in Requests \ {r} : req'[q] = req[q]
  BY GotoOthers, LostOthers DEF BeginList, ListRows, Answer
<1>4. Fresh(req'[r], copy'[r], rows, default)
  <2>1. CASE ListRows(r)
    <3>1. req'[r].at = "answer"
      BY <2>1, GotoOthers DEF ListRows
    <3>2. copy'[r] = rows
      BY <2>1 DEF ListRows, Inv, TypeOK
    <3> QED
      BY <3>1, <3>2 DEF Fresh
  <2>2. CASE BeginList(r) \/ Answer(r)
    <3>1. req'[r].at \in {"list", "not found", "ok"}
      BY <2>2, GotoOthers, LostOthers DEF BeginList, Answer
    <3> QED
      BY <3>1, NothingRead
  <2> QED
    BY <2>1, <2>2
<1> QED
  BY <1>1, <1>2, <1>3, <1>4, QuietSeeds

LEMMA BackfillSeeds ==
  ASSUME Inv, Seeds, NEW b \in Starts, NEW c \in Channels, Backfill(b, c)
  PROVE  Seeds'
<1>1. req' = req /\ copy' = copy /\ default' = default
  BY DEF Backfill, env, lists
<1>2. CASE rows' = rows
  BY <1>1, <1>2 DEF Backfill, Seeds, Fresh
<1>3. CASE rows' # rows
  <2> SUFFICES ASSUME NEW q \in Requests, q \notin moved'
               PROVE  Fresh(req[q], copy[q], rows', default)
    BY <1>1 DEF Seeds, Fresh
  <2>1. q \notin moved /\ q \notin SeededFrom(Global) /\ q \notin Listing
    BY <1>3 DEF Backfill
  <2>2. Fresh(req[q], copy[q], rows, default)
    BY <2>1 DEF Seeds
  <2>3. req[q].at # "answer" /\ ~(req[q].at \in {"match", "insert"} /\ req[q].scope # Global)
    BY <2>1 DEF SeededFrom, Listing
  <2> QED
    BY <2>2, <2>3 DEF Fresh
<1> QED
  BY <1>2, <1>3

LEMMA EditSeeds ==
  ASSUME Inv, Seeds, NEW w \in Workflows, Edit(w)
  PROVE  Seeds'
<1>1. req' = req /\ copy' = copy /\ rows' = rows
  BY DEF Edit, lists
<1>2. CASE default' = default
  BY <1>1, <1>2 DEF Edit, Seeds, Fresh
<1>3. CASE default' # default
  <2> SUFFICES ASSUME NEW q \in Requests, q \notin moved'
               PROVE  Fresh(req[q], copy[q], rows, default')
    BY <1>1 DEF Seeds, Fresh
  <2>1. q \notin moved /\ q \notin KeepsDefaults(w)
    BY <1>3 DEF Edit
  <2>2. Fresh(req[q], copy[q], rows, default)
    BY <2>1 DEF Seeds
  <2>3. \A v \in Workflows \ {w} : default'[v] = default[v]
    BY <1>3 DEF Edit, Inv, TypeOK
  <2>4. req[q].at \in {"read", "match", "insert"} => req[q].scope # w
    BY <2>1 DEF KeepsDefaults
  <2>5. req[q].scope \in Workflows \cup {Global}
    BY DEF Inv, TypeOK, Handler, Scopes
  <2> QED
    BY <2>2, <2>3, <2>4, <2>5 DEF Fresh
<1> QED
  BY <1>2, <1>3

LEMMA NextSeeds ==
  ASSUME Inv, Seeds, [Next]_vars
  PROVE  Seeds'
<1>1. ASSUME NEW r \in Requests, NEW s \in Scopes, NEW names \in Payloads, Accept(r, s, names)
      PROVE  Seeds'
  BY <1>1, AcceptSeeds
<1>2. ASSUME NEW r \in Requests, BeginList(r) \/ Handle(r) \/ Fail(r)
      PROVE  Seeds'
  BY <1>2, LookupSeeds, ReadRowsSeeds, MatchSeeds, InsertRowSeeds, ListSeeds, FailSeeds DEF Handle
<1>3. ASSUME NEW b \in Starts, BackfillFails(b) \/ \E c \in Channels : Backfill(b, c)
      PROVE  Seeds'
  BY <1>3, BackfillSeeds DEF BackfillFails, Seeds, Fresh, env, lists
<1>4. ASSUME NEW w \in Workflows, Edit(w)
      PROVE  Seeds'
  BY <1>4, EditSeeds
<1>5. CASE UNCHANGED vars
  BY <1>5 DEF Seeds, Fresh, vars, env, lists
<1> QED
  BY <1>1, <1>2, <1>3, <1>4, <1>5 DEF Next

LEMMA InitSeeds ==
  ASSUME Init
  PROVE  Seeds
<1>1. \A r \in Requests : req[r].at = "new"
  BY DEF Init, New
<1> QED
  BY <1>1, NothingRead DEF Seeds

-----------------------------------------------------------------------------
(* What switches a channel on, and what a settings page shows.             *)

SilencedStep ==
  \A w \in Workflows : \A c \in Effective(w)' \ Effective(w) :
    \/ default'[w] # default[w]
    \/ \E s \in {w, Global} : c \in said'[s].on \ said[s].on
    \/ rows[Global] # NoRow /\ c \notin Holds(rows[Global])
    \/ \E r \in moved : Wrote(r) /\ req[r].scope = w

\* A row of its own governs, and a row that exists only gains what is named.
LEMMA NamedOnly ==
  ASSUME Inv, NEW r \in Requests, Write(r), NEW c \in rows'[req[r].scope].on,
         c \notin rows[req[r].scope].on, rows[req[r].scope] # NoRow
  PROVE  c \in said'[req[r].scope].on \ said[req[r].scope].on
<1> DEFINE s == req[r].scope n == req[r].names
<1>1. /\ rows'[s] = Stored(r, rows[s]) /\ said'[s] = Over(n, said[s])
      /\ s \in Scopes
  BY WriteIs
<1>2. rows'[s] = Over(n, rows[s])
  BY <1>1 DEF Stored
<1>3. said[s].on \subseteq rows[s].on
  BY <1>1 DEF Inv, Said
<1> QED
  BY <1>1, <1>2, <1>3 DEF Over

LEMMA WriteSilenced ==
  ASSUME Inv, Seeds, NEW r \in Requests, Write(r), req[r].at \in {"match", "insert"},
         req'[r] # req[r], default' = default
  PROVE  SilencedStep
<1> DEFINE s == req[r].scope n == req[r].names
<1> SUFFICES ASSUME NEW w \in Workflows, NEW c \in Effective(w)', c \notin Effective(w),
                    \A t \in {w, Global} : c \notin said'[t].on \ said[t].on
             PROVE  r \in moved /\ s = w
  BY DEF SilencedStep, Wrote
<1>1. /\ rows'[s] = Stored(r, rows[s]) /\ said'[s] = Over(n, said[s]) /\ s \in Scopes
      /\ n \in Setting /\ req[r].seed \in SUBSET Channels
      /\ \A t \in Scopes \ {s} : rows'[t] = rows[t]
  BY WriteIs
<1>2. w \in Scopes /\ Global \in Scopes /\ w # Global
  BY ScopesAssumption DEF Scopes
<1>3. rows'[s] # NoRow
  <2>1. n # NoRow /\ rows[s] \in Setting
    BY <1>1 DEF Inv, Handlers, Writing, TypeOK
  <2> QED
    BY <1>1, <2>1, StoredFacts DEF Inv
<1>4. /\ c \in Resolve(rows'[w], rows'[Global], default[w])
      /\ c \notin Resolve(rows[w], rows[Global], default[w])
  BY DEF Effective
<1>5. CASE s = w
  <2>1. c \in rows'[w].on
    BY <1>3, <1>4, <1>5 DEF Resolve
  <2>2. CASE rows[w] # NoRow
    <3>1. c \notin rows[w].on
      BY <1>4, <2>2 DEF Resolve
    <3> QED
      BY <1>5, <2>1, <2>2, <3>1, NamedOnly
  <2>3. CASE rows[w] = NoRow
    <3>1. c \in n.on \cup req[r].seed
      BY <1>1, <1>5, <2>1, <2>3 DEF Stored, Over
    <3>2. c \notin said[w].on
      BY <1>2, <2>3 DEF Inv, Said, NoRow
    <3>3. c \notin n.on
      BY <1>1, <1>5, <3>2 DEF Over
    <3>4. r \notin moved => req[r].seed = Effective(w)
      BY <1>2, <1>5 DEF Seeds, Fresh, Effective
    <3> QED
      BY <1>5, <3>1, <3>3, <3>4
  <2> QED
    BY <2>2, <2>3
<1>6. CASE s # w
  <2>1. rows'[w] = rows[w]
    BY <1>1, <1>2, <1>6
  <2>2. rows[w] = NoRow
    BY <1>4, <2>1 DEF Resolve
  <2>3. s = Global
    BY <1>1, <1>2, <1>4, <2>1, <2>2 DEF Resolve
  <2>4. rows[Global] # NoRow
    BY <1>3, <1>4, <2>1, <2>2, <2>3 DEF Resolve
  <2>5. c \in rows'[Global].on /\ c \notin rows[Global].on
    BY <1>3, <1>4, <2>1, <2>2, <2>3, <2>4 DEF Resolve
  <2> QED
    BY <2>3, <2>4, <2>5, NamedOnly
<1> QED
  BY <1>5, <1>6

LEMMA QuietSilenced ==
  ASSUME rows' = rows, default' = default
  PROVE  SilencedStep
  BY DEF SilencedStep, Effective

LEMMA BackfillSilenced ==
  ASSUME Inv, NEW b \in Starts, NEW d \in Channels, Backfill(b, d)
  PROVE  SilencedStep
<1> SUFFICES ASSUME NEW w \in Workflows, NEW c \in Effective(w)', c \notin Effective(w)
             PROVE  rows[Global] # NoRow /\ c \notin Holds(rows[Global])
  BY DEF SilencedStep
<1>1. /\ rows'[Global] = Filled(rows[Global], d) /\ rows'[w] = rows[w] /\ default' = default
  BY BackfillRows, ScopesAssumption DEF Scopes, Backfill, env
<1>2. rows[w] = NoRow
  BY <1>1 DEF Effective, Resolve
<1>3. rows[Global] # NoRow /\ d \notin Holds(rows[Global])
  BY <1>1 DEF Effective, Filled
<1>4. rows'[Global].on = rows[Global].on \cup {d}
  <2>1. rows[Global] \in Setting
    BY DEF Inv, TypeOK, Scopes
  <2>2. rows[Global] = [on |-> rows[Global].on, off |-> rows[Global].off]
    BY <2>1, SettingFacts
  <2> QED
    BY <1>1, <1>3, <2>2 DEF Filled
<1>5. rows'[Global] # NoRow
  BY <1>4 DEF NoRow
<1>6. c = d
  BY <1>1, <1>2, <1>3, <1>4, <1>5 DEF Effective, Resolve
<1> QED
  BY <1>3, <1>6

LEMMA EditSilenced ==
  ASSUME Inv, NEW v \in Workflows, Edit(v)
  PROVE  SilencedStep
<1> SUFFICES ASSUME NEW w \in Workflows, default'[w] = default[w]
             PROVE  Effective(w)' = Effective(w)
  BY DEF SilencedStep
<1> QED
  BY DEF Edit, Effective

LEMMA NextSilenced ==
  ASSUME Inv, Seeds, [Next]_vars
  PROVE  SilencedStep
<1>1. ASSUME NEW r \in Requests,
             (\E s \in Scopes, names \in Payloads : Accept(r, s, names)) \/ BeginList(r) \/ Handle(r)
             \/ Fail(r)
      PROVE  SilencedStep
  <2>1. CASE rows' = rows
    <3>1. default' = default
      BY <1>1 DEF Accept, BeginList, Handle, LookupGlobal, LookupWorkflow, ReadRows, Match,
         InsertRow, ListRows, Answer, Fail, env
    <3> QED
      BY <2>1, <3>1, QuietSilenced
  <2>2. CASE rows' # rows
    <3>1. /\ Match(r) \/ InsertRow(r) \/ Fail(r)
      BY <1>1, <2>2 DEF Accept, BeginList, Handle, LookupGlobal, LookupWorkflow, ReadRows,
         ListRows, Answer
    <3>2. Write(r) /\ req[r].at \in {"match", "insert"} /\ default' = default
      BY <2>2, <3>1 DEF Match, InsertRow, Fail, env
    <3>3. req'[r].at \in {"ok", "error"}
      BY <2>2, <3>1, DoneOthers, LostOthers DEF Match, InsertRow, Fail
    <3> QED
      BY <3>2, <3>3, WriteSilenced
  <2> QED
    BY <2>1, <2>2
<1>2. ASSUME NEW b \in Starts, BackfillFails(b) \/ \E c \in Channels : Backfill(b, c)
      PROVE  SilencedStep
  BY <1>2, BackfillSilenced, QuietSilenced DEF BackfillFails, env
<1>3. ASSUME NEW w \in Workflows, Edit(w)
      PROVE  SilencedStep
  BY <1>3, EditSilenced
<1>4. CASE UNCHANGED vars
  BY <1>4, QuietSilenced DEF vars, env
<1> QED
  BY <1>1, <1>2, <1>3, <1>4 DEF Next

\* No write, edit or backfill switches a silenced channel on unasked: a first write is
\* seeded with what governs the workflow, as long as what it read still holds.
THEOREM Silenced == Spec => SilencedStays
<1>1. Inv /\ Seeds /\ [Next]_vars => SilencedStep
  BY NextSilenced
<1> QED
  BY <1>1, InitInv, NextInv, InitSeeds, NextSeeds, PTL DEF Spec, SilencedStays, SilencedStep

ListStep ==
  \A r \in Requests \ moved : answer'[r] # answer[r] =>
    /\ answer'[r][Global] = Mask(rows[Global])
    /\ \A w \in active : answer'[r][w] = Effective(w)

LEMMA NextList ==
  ASSUME Inv, Seeds, [Next]_vars
  PROVE  ListStep
<1>1. ASSUME NEW r \in Requests, Answer(r), r \notin moved
      PROVE  /\ answer'[r][Global] = Mask(rows[Global])
             /\ \A w \in active : answer'[r][w] = Effective(w)
  <2>1. copy[r] = rows
    BY <1>1 DEF Seeds, Fresh, Answer
  <2>2. answer'[r] = Resolved(rows)
    BY <1>1, <2>1 DEF Answer, Inv, TypeOK
  <2>3. Global \in Scopes /\ active \subseteq Scopes /\ Global \notin active
    BY ScopesAssumption DEF Scopes, Inv, TypeOK
  <2> QED
    BY <2>2, <2>3 DEF Resolved, Effective
<1>2. ASSUME NEW r \in Requests, Answer(r), NEW q \in Requests, q # r
      PROVE  answer'[q] = answer[q]
  BY <1>2 DEF Answer, Inv, TypeOK
<1>3. CASE \E r \in Requests : Answer(r)
  BY <1>1, <1>2, <1>3 DEF ListStep
<1>4. CASE ~\E r \in Requests : Answer(r)
  <2>1. answer' = answer
    BY <1>4 DEF Next, Handle, Accept, BeginList, LookupGlobal, LookupWorkflow, ReadRows, Match,
       InsertRow, ListRows, Fail, Backfill, BackfillFails, Edit, lists, vars
  <2> QED
    BY <2>1 DEF ListStep
<1> QED
  BY <1>3, <1>4

\* The settings page, put together from three reads, shows what delivery would do.
THEOREM Listed == Spec => ListIsTruth
<1>1. Inv /\ Seeds /\ [Next]_vars => ListStep
  BY NextList
<1> QED
  BY <1>1, InitInv, NextInv, InitSeeds, NextSeeds, PTL DEF Spec, ListIsTruth, ListStep
=============================================================================
