---------------------------- MODULE Preferences -----------------------------
(***************************************************************************)
(* The preference store and the API that writes it.                        *)
(*                                                                         *)
(* A subscriber has one row per workflow they chose something for, and one *)
(* global row, an opt-out mask ANDed into the defaults of the workflows    *)
(* without a row (engine.ResolveChannelPrefs). A request names the         *)
(* channels it changes; the repository writes those with $set and the      *)
(* others, only if it inserts the row, with a seed resolved from rows and  *)
(* defaults read earlier. Binaries that start fill in the channels a       *)
(* global row lacks.                                                       *)
(*                                                                         *)
(* One subscriber of one environment is modelled: rows of different        *)
(* subscribers never meet. An upsert is atomic on a row that exists; on    *)
(* one that does not, MongoDB finds nothing and inserts later, and of two  *)
(* inserts the unique index refuses one.                                   *)
(***************************************************************************)
EXTENDS Integers

CONSTANTS
  Requests,      \* API requests, each sent once
  Starts,        \* starts of an API or worker binary
  Workflows,     \* workflows of the environment
  Channels,      \* model.ChannelNames()
  Initial,       \* the rows at the start, of older releases too: a set of states
  Payloads,      \* the channels a request may name
  Declared,      \* the preferenceDefaults an admin may give a workflow
  MaxEdits,      \* bound: edits of a workflow's defaults or status
  MaxFaults      \* bound: failed calls

ASSUME ChannelsAssumption == Channels # {}
ASSUME BoundsAssumption == MaxEdits \in Nat /\ MaxFaults \in Nat

VARIABLES
  rows,      \* per scope, the stored row or NoRow
  default,   \* per workflow, its preferenceDefaults
  active,    \* the active workflows
  found,     \* whether the subscriber exists
  req,       \* the requests' handlers
  copy,      \* per request, the rows GetAll read
  answer,    \* per request, what GetAll answered
  start,     \* per start of a binary, the channels BackfillGlobalChannels has left
  edits, faults,   \* events so far
  \* history, read by no action
  said,      \* per scope and channel, the value of the latest write that named it
  moved,     \* requests that hold a row or a default that changed since they read it
  seen       \* per start, whether it went through all channels without an error

env == <<default, active, found, edits>>
lists == <<copy, answer>>
vars == <<rows, default, active, found, req, copy, answer, start, edits, faults, said, moved, seen>>

Global == "global"
Scopes == Workflows \cup {Global}

\* Which channels a document or a payload sets on and which off. A row holds every
\* channel of the release that inserted it; a scope without a row holds none.
Setting == {x \in [on: SUBSET Channels, off: SUBSET Channels] : x.on \cap x.off = {}}
NoRow == [on |-> {}, off |-> {}]
Holds(x) == x.on \cup x.off
NoRows == [s \in Scopes |-> NoRow]

ASSUME ScopesAssumption == Global \notin Workflows
ASSUME InputsAssumption ==
  /\ Initial \subseteq [Scopes -> Setting] /\ Payloads \subseteq Setting
  /\ Declared \subseteq SUBSET Channels

Outcome == {"ok", "rejected", "not found", "error"}
Handler == [at: {"new", "lookup", "read", "match", "insert", "list", "answer"} \cup Outcome,
            scope: Scopes, names: Setting, seed: SUBSET Channels, retried: BOOLEAN]

TypeOK ==
  /\ rows \in [Scopes -> Setting]
  /\ default \in [Workflows -> SUBSET Channels] /\ active \subseteq Workflows /\ found \in BOOLEAN
  /\ req \in [Requests -> Handler]
  /\ copy \in [Requests -> [Scopes -> Setting]]
  /\ answer \in [Requests -> [Scopes -> SUBSET Channels]]
  /\ start \in [Starts -> SUBSET Channels]
  /\ edits \in 0..MaxEdits /\ faults \in 0..MaxFaults
  /\ said \in [Scopes -> Setting] /\ moved \subseteq Requests /\ seen \in [Starts -> BOOLEAN]

New == [at |-> "new", scope |-> Global, names |-> NoRow, seed |-> {}, retried |-> FALSE]

Init ==
  /\ rows \in Initial /\ default \in [Workflows -> Declared]
  /\ active = Workflows /\ found = TRUE
  /\ req = [r \in Requests |-> New]
  /\ copy = [r \in Requests |-> NoRows] /\ answer = [r \in Requests |-> [s \in Scopes |-> {}]]
  /\ start = [b \in Starts |-> Channels]
  /\ edits = 0 /\ faults = 0
  /\ said = NoRows /\ moved = {} /\ seen = [b \in Starts |-> TRUE]

-----------------------------------------------------------------------------
(* Resolution.                                                             *)

\* ResolveChannelPrefs, the channels that are on: a workflow row wins outright, the
\* global row masks the defaults, and a channel a document lacks decodes as off.
Resolve(wf, global, defaults) ==
  IF wf # NoRow THEN wf.on
  ELSE IF global # NoRow THEN defaults \cap global.on ELSE defaults

\* A global scope without a row lets all channels through.
Mask(row) == IF row = NoRow THEN Channels ELSE row.on

\* What governs a workflow at this moment.
Effective(w) == Resolve(rows[w], rows[Global], default[w])

-----------------------------------------------------------------------------
(* The handlers of preference_handler.go.                                  *)

Goto(r, at) == req' = [req EXCEPT ![r].at = at]
Done(r) == req' = [req EXCEPT ![r] = [@ EXCEPT !.at = "ok", !.seed = {}, !.retried = FALSE]]
Lost(r, why) == req' = [req EXCEPT ![r] = [New EXCEPT !.at = why]]

\* A payload that names no channel is refused (so is one that names an unknown one).
Accept(r, s, names) ==
  /\ req[r].at = "new"
  /\ IF names = NoRow THEN Lost(r, "rejected")
     ELSE req' = [req EXCEPT ![r] = [@ EXCEPT !.at = "lookup", !.scope = s, !.names = names]]
  /\ UNCHANGED <<rows, env, lists, start, faults, said, moved, seen>>

\* UpdateGlobal: the subscriber is looked up; the seed is the mask that silences nothing.
LookupGlobal(r) ==
  /\ req[r].at = "lookup" /\ req[r].scope = Global
  /\ IF found THEN req' = [req EXCEPT ![r] = [@ EXCEPT !.at = "match", !.seed = Channels]]
     ELSE Lost(r, "not found")
  /\ UNCHANGED <<rows, env, lists, start, faults, said, moved, seen>>

\* UpdateWorkflow: the workflow is looked up first, and its defaults are kept. An
\* inactive one is treated as absent.
LookupWorkflow(r) ==
  LET s == req[r].scope IN
  /\ req[r].at = "lookup" /\ s # Global
  /\ IF s \in active /\ found
     THEN req' = [req EXCEPT ![r] = [@ EXCEPT !.at = "read", !.seed = default[s]]]
     ELSE Lost(r, "not found")
  /\ UNCHANGED <<rows, env, lists, start, faults, said, moved, seen>>

\* FindForWorkflow reads both rows in one query, and the seed is resolved.
ReadRows(r) ==
  /\ req[r].at = "read"
  /\ req' = [req EXCEPT ![r] = [@ EXCEPT !.at = "match",
        !.seed = Resolve(rows[req[r].scope], rows[Global], req[r].seed)]]
  /\ UNCHANGED <<rows, env, lists, start, faults, said, moved, seen>>

\* Mutant: a channel that is switched keeps its other value too.
Over_Both(names, base) == [on |-> names.on \cup base.on, off |-> names.off \cup base.off]

\* The channels a payload names, each as its own path, and the others as they were.
Over(names, base) == [on |-> names.on \cup (base.on \ names.off),
                      off |-> names.off \cup (base.off \ names.on)]

\* Mutant: the request merged over its seed, written whole.
Stored_Merged(r, row) ==
  Over(req[r].names, [on |-> req[r].seed, off |-> Channels \ req[r].seed])

\* Mutant: a new row is seeded with everything on.
Stored_AllOn(r, row) ==
  Over(req[r].names, IF row = NoRow THEN [on |-> Channels, off |-> {}] ELSE row)

\* The document an upsert leaves: $set of the named channels over a row that exists,
\* $set with $setOnInsert of the seed where there is none.
Stored(r, row) ==
  LET seed == [on |-> req[r].seed, off |-> Channels \ req[r].seed] IN
  Over(req[r].names, IF row = NoRow THEN seed ELSE row)

\* Requests that resolved their seed, or are about to, from what a step changes.
SeededFrom(s) == {r \in Requests : req[r].at \in {"match", "insert"} /\ req[r].scope # Global
                                   /\ s \in {req[r].scope, Global}}
KeepsDefaults(w) == {r \in Requests : req[r].at \in {"read", "match", "insert"}
                                      /\ req[r].scope = w}
Listing == {r \in Requests : req[r].at = "answer"}

Write(r) ==
  LET s == req[r].scope IN
  /\ rows' = [rows EXCEPT ![s] = Stored(r, @)]
  /\ said' = [said EXCEPT ![s] = Over(req[r].names, @)]
  /\ moved' = moved \cup ((SeededFrom(s) \cup Listing) \ {r})

\* updateChannelsOnce. A row that exists is updated at once; otherwise the insert
\* follows as a step of its own.
Match(r) ==
  LET s == req[r].scope IN
  /\ req[r].at = "match"
  /\ IF rows[s] # NoRow THEN Write(r) /\ Done(r)
     ELSE Goto(r, "insert") /\ UNCHANGED <<rows, said, moved>>
  /\ UNCHANGED <<env, lists, start, faults, seen>>

\* Mutant: no second try.
AfterDuplicate_Fails(r) == [New EXCEPT !.at = "error"]

\* The unique index refuses a second row; UpdateChannels runs the update once more.
AfterDuplicate(r) ==
  IF req[r].retried THEN [New EXCEPT !.at = "error"]
  ELSE [req[r] EXCEPT !.at = "match", !.retried = TRUE]

InsertRow(r) ==
  LET s == req[r].scope IN
  /\ req[r].at = "insert"
  /\ IF rows[s] = NoRow THEN Write(r) /\ Done(r)
     ELSE req' = [req EXCEPT ![r] = AfterDuplicate(r)] /\ UNCHANGED <<rows, said, moved>>
  /\ UNCHANGED <<env, lists, start, faults, seen>>

\* A call of a handler fails, and the request with it; a failed write may have
\* taken effect.
Fail(r) ==
  /\ faults < MaxFaults /\ faults' = faults + 1
  /\ req[r].at \notin {"new"} \cup Outcome
  /\ Lost(r, "error") /\ copy' = [copy EXCEPT ![r] = NoRows]
  /\ \/ UNCHANGED <<rows, said, moved>>
     \/ req[r].at \in {"match", "insert"}
        /\ (req[r].at = "insert" => rows[req[r].scope] = NoRow) /\ Write(r)
  /\ UNCHANGED <<env, answer, start, seen>>

\* GetAll: the subscriber, their rows, and then the active workflows.
BeginList(r) ==
  /\ req[r].at = "new"
  /\ IF found THEN Goto(r, "list") ELSE Lost(r, "not found")
  /\ UNCHANGED <<rows, env, lists, start, faults, said, moved, seen>>

ListRows(r) ==
  /\ req[r].at = "list"
  /\ Goto(r, "answer") /\ copy' = [copy EXCEPT ![r] = rows]
  /\ UNCHANGED <<rows, env, answer, start, faults, said, moved, seen>>

\* Mutant: the stored rows only, as if nothing stored meant everything on.
Resolved_RowsOnly(stored) ==
  [s \in Scopes |-> IF s = Global \/ s \in active THEN Mask(stored[s]) ELSE {}]

\* The channels that are on for each active workflow, and in the global row.
Resolved(stored) ==
  [s \in Scopes |->
     IF s = Global THEN Mask(stored[Global])
     ELSE IF s \in active THEN Resolve(stored[s], stored[Global], default[s]) ELSE {}]

Answer(r) ==
  /\ req[r].at = "answer"
  /\ Goto(r, "ok") /\ answer' = [answer EXCEPT ![r] = Resolved(copy[r])]
  /\ copy' = [copy EXCEPT ![r] = NoRows]
  /\ UNCHANGED <<rows, env, start, faults, said, moved, seen>>

-----------------------------------------------------------------------------
(* The start of a binary, and the rest of the world.                       *)

\* Mutant: $exists the wrong way round.
Filled_Present(row, c) ==
  IF row # NoRow /\ c \in Holds(row) THEN [row EXCEPT !.on = @ \cup {c}] ELSE row

\* BackfillGlobalChannels, one UpdateMany per channel. Only the global row, and
\* only a channel it does not hold.
Filled(row, c) ==
  IF row = NoRow \/ c \in Holds(row) THEN row ELSE [row EXCEPT !.on = @ \cup {c}]

Backfill(b, c) ==
  /\ c \in start[b]
  /\ start' = [start EXCEPT ![b] = @ \ {c}]
  /\ rows' = [rows EXCEPT ![Global] = Filled(@, c)]
  /\ moved' = IF rows' = rows THEN moved ELSE moved \cup SeededFrom(Global) \cup Listing
  /\ UNCHANGED <<env, req, lists, faults, said, seen>>

\* An UpdateMany fails: the rest is left out, and the binary goes on.
BackfillFails(b) ==
  /\ faults < MaxFaults /\ faults' = faults + 1
  /\ start[b] # {}
  /\ start' = [start EXCEPT ![b] = {}] /\ seen' = [seen EXCEPT ![b] = FALSE]
  /\ UNCHANGED <<rows, env, req, lists, said, moved>>

\* An admin edits the defaults of a workflow or its status; the subscriber is deleted.
Edit(w) ==
  /\ edits < MaxEdits /\ edits' = edits + 1
  /\ \/ /\ \E d \in Declared \ {default[w]} : default' = [default EXCEPT ![w] = d]
        /\ moved' = moved \cup KeepsDefaults(w) \cup Listing
        /\ UNCHANGED <<active, found>>
     \/ /\ active' = IF w \in active THEN active \ {w} ELSE active \cup {w}
        /\ moved' = moved \cup Listing
        /\ UNCHANGED <<default, found>>
     \/ found /\ found' = FALSE /\ UNCHANGED <<default, active, moved>>
  /\ UNCHANGED <<rows, req, lists, start, faults, said, seen>>

-----------------------------------------------------------------------------
Handle(r) ==
  \/ LookupGlobal(r) \/ LookupWorkflow(r) \/ ReadRows(r) \/ Match(r) \/ InsertRow(r)
  \/ ListRows(r) \/ Answer(r)

Next ==
  \/ \E r \in Requests :
       \/ \E s \in Scopes, names \in Payloads : Accept(r, s, names)
       \/ BeginList(r) \/ Handle(r) \/ Fail(r)
  \/ \E b \in Starts : BackfillFails(b) \/ \E c \in Channels : Backfill(b, c)
  \/ \E w \in Workflows : Edit(w)

Spec == Init /\ [][Next]_vars

-----------------------------------------------------------------------------
(* Properties.                                                             *)

\* A channel someone named keeps the value of the latest request that named it,
\* whichever requests for other channels, first writes or backfills run beside it,
\* and a request that was answered 200 did write the channels it named
\* (preference_repo.go:23-28: a lost update "the client never sees").
NamedWritesStand ==
  /\ \A s \in Scopes : said[s].on \subseteq rows[s].on /\ said[s].off \subseteq rows[s].off
  /\ \A r \in Requests : req[r].at = "ok" =>
       Holds(req[r].names) \subseteq Holds(said[req[r].scope])

\* Two first writes that race for the unique index both succeed: a request is
\* answered 500 only when a call failed (preference_repo.go:37-43).
OnlyFaultsFail == (\E r \in Requests : req[r].at = "error") => faults > 0

\* The handler whose upsert a step is.
Wrote(r) == req[r].at \in {"match", "insert"} /\ req'[r] # req[r]

\* A channel silenced for a workflow is switched on only by a write that names it,
\* by an edit of the workflow's defaults, by the backfill of a channel the mask never
\* held, or by a first write whose seed was read before something it rests on changed
\* (preference_handler.go:197-203: anything else "would silently discard their
\* global opt-out").
SilencedStays ==
  [][\A w \in Workflows : \A c \in Effective(w)' \ Effective(w) :
       \/ default'[w] # default[w]
       \/ \E s \in {w, Global} : c \in said'[s].on \ said[s].on
       \/ rows[Global] # NoRow /\ c \notin Holds(rows[Global])
       \/ \E r \in moved : Wrote(r) /\ req[r].scope = w]_vars

\* Once a binary has gone through the channels, the mask opts the subscriber out of
\* none they never saw, although requests insert and update the row meanwhile.
MaskComplete ==
  (\E b \in Starts : start[b] = {} /\ seen[b]) =>
    rows[Global] = NoRow \/ Holds(rows[Global]) = Channels

\* A settings page shows what governs delivery, unless a row, the defaults or a
\* status changed while it was put together (preference_handler.go:73-78).
ListIsTruth ==
  [][\A r \in Requests \ moved : answer'[r] # answer[r] =>
       /\ answer'[r][Global] = Mask(rows[Global])
       /\ \A w \in active : answer'[r][w] = Effective(w)]_vars
=============================================================================
