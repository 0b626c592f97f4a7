----------------------------- MODULE Documents ------------------------------
(***************************************************************************)
(* The documents an admin keeps in MongoDB through the API: integrations,  *)
(* workflows and transactional templates.                                  *)
(*                                                                         *)
(* Their handlers share one shape. An edit reads the document, changes it  *)
(* in memory and replaces the whole of it; nothing tells the replacement   *)
(* that the document changed meanwhile. A status of a workflow and a       *)
(* deletion are one write. The promotion of an integration to primary of   *)
(* its channel is a read, an unset of every primary and a set.             *)
(*                                                                         *)
(* Each call to MongoDB is a step. A document is named by its place (the   *)
(* channel and provider of an integration, the identifier of a workflow or *)
(* template) and carries the _id of its creation; what it says is left     *)
(* out, but for the two flags others depend on.                            *)
(***************************************************************************)
EXTENDS Integers

CONSTANTS
  Handlers,      \* goroutines that serve admin requests
  Integrations, Workflows, Templates,   \* places for documents
  ChannelOf,     \* the channel of each integration
  PushProvider,  \* the integrations whose provider is fcm or apns
  Founded        \* the documents at the start

ASSUME PlacesAssumption ==
  /\ Integrations \cap Workflows = {} /\ Integrations \cap Templates = {}
  /\ Workflows \cap Templates = {}
  /\ PushProvider \subseteq Integrations /\ Founded \subseteq Integrations \cup Workflows \cup Templates

VARIABLES
  docs,     \* the documents
  made,     \* per place, the _id given last
  job,      \* the handlers of edits and promotions
  \* history, read by no action
  moved     \* handlers that hold a document, or a channel's, that changed since

documents == <<docs, made, job, moved>>

Places == Integrations \cup Workflows \cup Templates
Channels == {ChannelOf[i] : i \in Integrations} \cup {"in_app"}
Doc == [id: Nat, active: BOOLEAN, primary: BOOLEAN]
NoDoc == [id |-> 0, active |-> FALSE, primary |-> FALSE]
Present(n) == docs[n] # NoDoc

Nowhere == "nowhere"

\* What an edit asks of the flag isActive.
Flag == {"keep", "on", "off"}
Job == [at: {"idle", "replace", "unset", "set"}, on: Places \cup {Nowhere}, copy: Doc, flag: Flag]
Idle == [at |-> "idle", on |-> Nowhere, copy |-> NoDoc, flag |-> "keep"]

DocumentsTypeOK ==
  /\ docs \in [Places -> Doc] /\ made \in [Places -> Nat] /\ job \in [Handlers -> Job]
  /\ \A n \in Places : docs[n].id <= made[n]
  /\ moved \subseteq Handlers

DocumentsInit ==
  /\ made = [n \in Places |-> IF n \in Founded THEN 1 ELSE 0]
  /\ docs = [n \in Places |-> IF n \in Founded THEN [NoDoc EXCEPT !.id = 1, !.active = TRUE]
                              ELSE NoDoc]
  /\ job = [h \in Handlers |-> Idle]
  /\ moved = {}

-----------------------------------------------------------------------------
SameChannel(n) ==
  IF n \in Integrations THEN {i \in Integrations : ChannelOf[i] = ChannelOf[n]} ELSE {n}

\* The documents a handler relies on: the one it read, or those of the channel.
Relied(h) ==
  CASE job[h].at = "idle" -> {}
    [] job[h].at = "replace" -> {job[h].on}
    [] OTHER -> SameChannel(job[h].on)

\* A write of h goes stale in the hands of the others.
Track(h) ==
  LET stale == {g \in Handlers \ {h} : \E n \in Relied(g) : docs'[n] # docs[n]}
  IN moved' = {g \in moved \cup stale : job'[g].at # "idle"}

Goto(h, at) == job' = [job EXCEPT ![h].at = at]
End(h) == job' = [job EXCEPT ![h] = Idle]

\* Create: active, with the flag isPrimary as the request has it; nothing is unset.
\* A second workflow or template of the identifier is refused.
Create(h, n, primary) ==
  /\ ~Present(n)
  /\ primary => n \in Integrations
  /\ made' = [made EXCEPT ![n] = @ + 1]
  /\ docs' = [docs EXCEPT ![n] = [id |-> made'[n], active |-> TRUE, primary |-> primary]]
  /\ UNCHANGED job /\ Track(h)

Delete(h, n) ==
  /\ Present(n)
  /\ docs' = [docs EXCEPT ![n] = NoDoc]
  /\ UNCHANGED <<made, job>> /\ Track(h)

\* SetStatus of a workflow, one $set.
SetStatus(h, w, active) ==
  /\ Present(w)
  /\ docs' = [docs EXCEPT ![w].active = active]
  /\ UNCHANGED <<made, job>> /\ Track(h)

\* Update reads the document; the flag of a workflow has an endpoint of its own.
BeginEdit(h, n, flag) ==
  /\ job[h] = Idle /\ Present(n)
  /\ n \in Workflows => flag = "keep"
  /\ job' = [job EXCEPT ![h] = [at |-> "replace", on |-> n, copy |-> docs[n], flag |-> flag]]
  /\ UNCHANGED <<docs, made>> /\ Track(h)

\* Mutant: an edit switches the document on again.
Edited_Active(j) == [j.copy EXCEPT !.active = TRUE]

\* The document an edit leaves: what the request does not set is as it was read.
Edited(j) == [j.copy EXCEPT !.active = IF j.flag = "keep" THEN @ ELSE j.flag = "on"]

\* ReplaceOne finds a document with the _id of the one that was read. (A template is
\* found by its identifier, but MongoDB refuses to change an _id.)
Hit(j) == docs[j.on].id = j.copy.id

Replace(h) ==
  LET j == job[h] IN
  /\ j.at = "replace"
  /\ docs' = IF Hit(j) THEN [docs EXCEPT ![j.on] = Edited(j)] ELSE docs
  /\ End(h)
  /\ UNCHANGED made /\ Track(h)

\* SetPrimary reads the integration for its channel ...
BeginPromote(h, i) ==
  /\ job[h] = Idle /\ Present(i)
  /\ job' = [job EXCEPT ![h] = [Idle EXCEPT !.at = "unset", !.on = i, !.copy = docs[i]]]
  /\ UNCHANGED <<docs, made>> /\ Track(h)

\* Mutant: the unset stops at the integration itself.
Demoted_Self(i) == {i}

\* ... unsets the primaries of the channel ...
Demoted(i) == SameChannel(i)

Unset(h) ==
  /\ job[h].at = "unset"
  /\ docs' = [n \in Places |->
       IF n \in Demoted(job[h].on) THEN [docs[n] EXCEPT !.primary = FALSE] ELSE docs[n]]
  /\ Goto(h, "set")
  /\ UNCHANGED made /\ Track(h)

\* ... and sets the new one, if it is still there; the answer is the same if not.
SetNew(h) ==
  /\ job[h].at = "set"
  /\ docs' = IF Hit(job[h]) THEN [docs EXCEPT ![job[h].on].primary = TRUE] ELSE docs
  /\ End(h)
  /\ UNCHANGED made /\ Track(h)

\* A call fails without effect, or the handler never sees its answer.
FailDocument(h) ==
  /\ job[h] # Idle
  /\ End(h)
  /\ UNCHANGED <<docs, made>> /\ Track(h)

DocumentRequest(h) ==
  \/ \E n \in Places :
       \/ \E primary \in BOOLEAN : Create(h, n, primary)
       \/ Delete(h, n)
       \/ \E flag \in Flag : BeginEdit(h, n, flag)
  \/ \E w \in Workflows, active \in BOOLEAN : SetStatus(h, w, active)
  \/ \E i \in Integrations : BeginPromote(h, i)

DocumentStep(h) == Replace(h) \/ Unset(h) \/ SetNew(h)

-----------------------------------------------------------------------------
(* What reads the integrations.                                            *)

Active(c) == {i \in Integrations : ChannelOf[i] = c /\ docs[i].active}

\* DeliveryHandler: in_app needs none, push one of a push provider, every other
\* channel an active primary (FindPrimaryByChannel).
Deliverable(c) ==
  \/ c = "in_app"
  \/ (c = "push" /\ Active(c) \cap PushProvider # {})
  \/ c # "push" /\ \E i \in Active(c) : docs[i].primary

\* Mutant: inactive integrations count.
AvailableChannels_Inactive ==
  {"in_app"} \cup {c \in Channels : \E i \in Integrations :
                     ChannelOf[i] = c /\ (docs[i].primary \/ (c = "push" /\ Present(i)))}

\* GET /channels: what a client is told it can deliver on.
AvailableChannels ==
  {"in_app"} \cup {c \in Channels : \E i \in Active(c) : c = "push" \/ docs[i].primary}

-----------------------------------------------------------------------------
(* Properties.                                                             *)

\* An edit changes what its request names and nothing else, unless the document
\* changed between its read and its write (workflow_handler.go:111-114: isActive
\* "must not be flipped back on by an edit").
EditKeepsRest ==
  [][\A h \in Handlers \ moved : job[h].at = "replace" /\ job'[h] # job[h] =>
       LET n == job[h].on IN
       /\ docs'[n].primary = docs[n].primary
       /\ job[h].flag = "keep" => docs'[n].active = docs[n].active]_documents

\* A promotion nothing of its channel interfered with ends with the integration as
\* the only primary of the channel (DEPLOYMENT.md:770), whatever was primary before.
PromotionIsWhole ==
  [][\A h \in Handlers \ moved : job[h].at = "set" /\ job'[h] # job[h] /\ docs' # docs =>
       {i \in SameChannel(job[h].on) : docs'[i].primary} = {job[h].on}]_documents

\* A client is told of exactly the channels the worker finds an integration for
\* (integration_repo.go:99-112), but for push integrations of another provider.
AvailableMirrorsDelivery ==
  \A c \in Channels :
    /\ Deliverable(c) => c \in AvailableChannels
    /\ c \in AvailableChannels => Deliverable(c) \/ (c = "push" /\ Active(c) # {})
=============================================================================
