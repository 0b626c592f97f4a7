----------------------- MODULE Administration_proofs ------------------------
(***************************************************************************)
(* Proofs about the admin's documents and announcements.                   *)
(*                                                                         *)
(* The argument: as long as nothing it relies on changed, a handler about  *)
(* to replace holds the document that is stored, and one about to set a    *)
(* primary sees a channel without one. A key of Redis either ends when its *)
(* value expires, or has no end because it was written too late.           *)
(***************************************************************************)
EXTENDS Administration, TLAPS

\* What a handler's job says of the documents d, unless they changed meanwhile.
Kept(j, changed, d) ==
  /\ j.at # "idle" => j.on \in Places
  /\ j.at \in {"unset", "set"} => j.on \in Integrations
  /\ ~changed /\ j.at = "replace" => d[j.on] = j.copy
  /\ ~changed /\ j.at = "set" => \A i \in SameChannel(j.on) : d[i].primary = FALSE

Held == \A h \in Handlers : Kept(job[h], h \in moved, docs)

\* A key that is there ends when its value expires, or was written no earlier.
Expiries ==
  \A a \in Names : kv[a].present =>
    \/ kv[a].end = kv[a].expires /\ kv[a].end > now
    \/ kv[a].end = Never /\ kv[a].wrote >= kv[a].expires

Inv == TypeOK /\ Held /\ Expiries

-----------------------------------------------------------------------------
(* Documents and jobs.                                                     *)

Ats == {"idle", "replace", "unset", "set"}

LEMMA DocFacts ==
  /\ NoDoc \in Doc /\ NoDoc.id = 0 /\ NoDoc.primary = FALSE
  /\ \A d \in Doc : d.id \in Nat /\ d.active \in BOOLEAN /\ d.primary \in BOOLEAN
  /\ \A d \in Doc, p \in BOOLEAN : /\ [d EXCEPT !.primary = p] \in Doc
                                   /\ [d EXCEPT !.primary = p].id = d.id
                                   /\ [d EXCEPT !.primary = p].primary = p
  /\ \A d \in Doc, x \in BOOLEAN : /\ [d EXCEPT !.active = x] \in Doc
                                   /\ [d EXCEPT !.active = x].id = d.id
                                   /\ [d EXCEPT !.active = x].active = x
                                   /\ [d EXCEPT !.active = x].primary = d.primary
  BY DEF Doc, NoDoc

LEMMA JobFacts ==
  /\ Idle \in Job /\ Idle.at = "idle"
  /\ \A j \in Job : j.at \in Ats /\ j.on \in Places \cup {Nowhere} /\ j.copy \in Doc /\ j.flag \in Flag
  BY DocFacts DEF Job, Idle, Ats, Flag

LEMMA ChannelFacts ==
  ASSUME NEW n \in Places
  PROVE  SameChannel(n) \subseteq Places /\ n \in SameChannel(n)
  BY DEF SameChannel, Places

\* A step of a handler: the others' jobs stay.
LEMMA Others ==
  ASSUME TypeOK, NEW h \in Handlers, NEW j \in Job, job' = [job EXCEPT ![h] = j]
  PROVE  job'[h] = j /\ \A g \in Handlers \ {h} : job'[g] = job[g]
  BY DEF TypeOK, DocumentsTypeOK

\* What Track leaves with a handler: nothing it relies on changed.
LEMMA TrackFacts ==
  ASSUME TypeOK, Held, NEW h \in Handlers, Track(h), NEW g \in Handlers \ {h}, job'[g] = job[g]
  PROVE  Kept(job[g], g \in moved', docs')
<1>1. job[g] \in Job
  BY DEF TypeOK, DocumentsTypeOK
<1>2. Kept(job[g], g \in moved, docs)
  BY DEF Held
<1>3. CASE job[g].at = "idle"
  BY <1>3 DEF Kept
<1>4. CASE job[g].at # "idle" /\ g \in moved'
  BY <1>2, <1>4 DEF Kept
<1>5. CASE job[g].at # "idle" /\ g \notin moved'
  <2>1. g \notin moved /\ \A n \in Relied(g) : docs'[n] = docs[n]
    BY <1>5 DEF Track
  <2>2. job[g].at = "replace" => docs'[job[g].on] = docs[job[g].on]
    BY <2>1 DEF Relied
  <2>3. job[g].at = "set" => \A i \in SameChannel(job[g].on) : docs'[i] = docs[i]
    BY <2>1 DEF Relied
  <2> QED
    BY <1>2, <2>1, <2>2, <2>3 DEF Kept
<1> QED
  BY <1>3, <1>4, <1>5

\* Every step on the documents has this shape.
LEMMA DocumentsStep ==
  ASSUME Inv, NEW h \in Handlers, NEW j \in Job, job' = [job EXCEPT ![h] = j],
         docs' \in [Places -> Doc], made' \in [Places -> Nat],
         \A n \in Places : docs'[n].id <= made'[n],
         Track(h), Kept(j, h \in moved', docs')
  PROVE  DocumentsTypeOK' /\ Held'
<1>1. job'[h] = j /\ \A g \in Handlers \ {h} : job'[g] = job[g]
  BY Others DEF Inv
<1>2. Held'
  <2> SUFFICES ASSUME NEW g \in Handlers
               PROVE  Kept(job'[g], g \in moved', docs')
    BY DEF Held, Kept
  <2>1. CASE g = h
    BY <1>1, <2>1
  <2>2. CASE g # h
    BY <1>1, <2>2, TrackFacts DEF Inv
  <2> QED
    BY <2>1, <2>2
<1>3. moved' \subseteq Handlers
  BY DEF Track, Inv, TypeOK, DocumentsTypeOK
<1>4. job' \in [Handlers -> Job]
  BY DEF Inv, TypeOK, DocumentsTypeOK
<1> QED
  BY <1>2, <1>3, <1>4 DEF DocumentsTypeOK

\* The handler whose request is one write keeps no job.
LEMMA IdleStep ==
  ASSUME Inv, NEW h \in Handlers, job[h] = Idle, UNCHANGED job,
         docs' \in [Places -> Doc], made' \in [Places -> Nat],
         \A n \in Places : docs'[n].id <= made'[n], Track(h)
  PROVE  DocumentsTypeOK' /\ Held'
<1>1. job' = [job EXCEPT ![h] = Idle]
  BY DEF Inv, TypeOK, DocumentsTypeOK
<1>2. Kept(Idle, h \in moved', docs')
  BY JobFacts DEF Kept
<1> QED
  BY <1>1, <1>2, JobFacts, DocumentsStep

\* A handler that ends.
LEMMA EndStep ==
  ASSUME Inv, NEW h \in Handlers, End(h), UNCHANGED made,
         docs' \in [Places -> Doc], \A n \in Places : docs'[n].id = docs[n].id, Track(h)
  PROVE  DocumentsTypeOK' /\ Held'
<1>1. Kept(Idle, h \in moved', docs')
  BY JobFacts DEF Kept
<1>2. made' \in [Places -> Nat] /\ \A n \in Places : docs'[n].id <= made'[n]
  BY DEF Inv, TypeOK, DocumentsTypeOK
<1> QED
  BY <1>1, <1>2, JobFacts, DocumentsStep DEF End

-----------------------------------------------------------------------------
(* The actions of Documents.                                               *)

LEMMA CreateStep ==
  ASSUME Inv, NEW h \in Handlers, job[h] = Idle, NEW n \in Places, NEW primary \in BOOLEAN,
         Create(h, n, primary)
  PROVE  DocumentsTypeOK' /\ Held'
<1> DEFINE d == [id |-> made'[n], active |-> TRUE, primary |-> primary]
<1>1. /\ made \in [Places -> Nat] /\ docs \in [Places -> Doc]
      /\ \A m \in Places : docs[m].id <= made[m]
  BY DEF Inv, TypeOK, DocumentsTypeOK
<1>2. made' = [made EXCEPT ![n] = made[n] + 1] /\ docs' = [docs EXCEPT ![n] = d]
  BY DEF Create
<1>3. made' \in [Places -> Nat] /\ made'[n] = made[n] + 1
  BY <1>1, <1>2
<1>4. d \in Doc /\ d.id = made'[n]
  BY <1>3 DEF Doc
<1> HIDE DEF d
<1>5. docs' \in [Places -> Doc] /\ docs'[n] = d /\ \A m \in Places \ {n} : docs'[m] = docs[m]
  BY <1>1, <1>2, <1>4
<1>6. ASSUME NEW m \in Places
      PROVE  docs'[m].id <= made'[m]
  BY <1>1, <1>2, <1>3, <1>4, <1>5
<1> QED
  BY <1>3, <1>5, <1>6, IdleStep DEF Create

LEMMA DeleteStep ==
  ASSUME Inv, NEW h \in Handlers, job[h] = Idle, NEW n \in Places, Delete(h, n)
  PROVE  DocumentsTypeOK' /\ Held'
<1>1. /\ made \in [Places -> Nat] /\ docs \in [Places -> Doc]
      /\ \A m \in Places : docs[m].id <= made[m]
  BY DEF Inv, TypeOK, DocumentsTypeOK
<1>2. docs' \in [Places -> Doc] /\ docs'[n] = NoDoc /\ \A m \in Places \ {n} : docs'[m] = docs[m]
  BY <1>1, DocFacts DEF Delete
<1>3. ASSUME NEW m \in Places
      PROVE  docs'[m].id <= made'[m]
  BY <1>1, <1>2, DocFacts DEF Delete
<1> QED
  BY <1>1, <1>2, <1>3, IdleStep DEF Delete

LEMMA SetStatusStep ==
  ASSUME Inv, NEW h \in Handlers, job[h] = Idle, NEW w \in Workflows, NEW active \in BOOLEAN,
         SetStatus(h, w, active)
  PROVE  DocumentsTypeOK' /\ Held'
<1> DEFINE d == [docs[w] EXCEPT !.active = active]
<1>1. /\ made \in [Places -> Nat] /\ docs \in [Places -> Doc] /\ w \in Places
      /\ \A m \in Places : docs[m].id <= made[m]
  BY DEF Inv, TypeOK, DocumentsTypeOK, Places
<1>2. docs' = [docs EXCEPT ![w] = d] /\ d \in Doc /\ d.id = docs[w].id
  BY <1>1, DocFacts DEF SetStatus
<1> HIDE DEF d
<1>3. docs' \in [Places -> Doc] /\ docs'[w] = d /\ \A m \in Places \ {w} : docs'[m] = docs[m]
  BY <1>1, <1>2
<1>4. ASSUME NEW m \in Places
      PROVE  docs'[m].id <= made'[m]
  BY <1>1, <1>2, <1>3 DEF SetStatus
<1> QED
  BY <1>1, <1>3, <1>4, IdleStep DEF SetStatus

LEMMA BeginEditStep ==
  ASSUME Inv, NEW h \in Handlers, NEW n \in Places, NEW flag \in Flag, BeginEdit(h, n, flag)
  PROVE  DocumentsTypeOK' /\ Held'
<1> DEFINE j == [at |-> "replace", on |-> n, copy |-> docs[n], flag |-> flag]
<1>1. docs[n] \in Doc
  BY DEF Inv, TypeOK, DocumentsTypeOK
<1>2. j \in Job /\ job' = [job EXCEPT ![h] = j]
  BY <1>1 DEF BeginEdit, Job
<1>3. Kept(j, h \in moved', docs')
  BY DEF Kept, BeginEdit
<1> HIDE DEF j
<1> QED
  BY <1>2, <1>3, DocumentsStep DEF BeginEdit, Inv, TypeOK, DocumentsTypeOK

LEMMA BeginPromoteStep ==
  ASSUME Inv, NEW h \in Handlers, NEW i \in Integrations, BeginPromote(h, i)
  PROVE  DocumentsTypeOK' /\ Held'
<1> DEFINE j == [Idle EXCEPT !.at = "unset", !.on = i, !.copy = docs[i]]
<1>1. docs[i] \in Doc /\ i \in Places
  BY DEF Inv, TypeOK, DocumentsTypeOK, Places
<1>2. j \in Job /\ j.at = "unset" /\ j.on = i
  BY <1>1 DEF Job, Idle, Flag
<1>3. job' = [job EXCEPT ![h] = j]
  BY DEF BeginPromote
<1> HIDE DEF j
<1>4. Kept(j, h \in moved', docs')
  BY <1>1, <1>2 DEF Kept
<1> QED
  BY <1>2, <1>3, <1>4, DocumentsStep DEF BeginPromote, Inv, TypeOK, DocumentsTypeOK

LEMMA ReplaceStep ==
  ASSUME Inv, NEW h \in Handlers, Replace(h)
  PROVE  DocumentsTypeOK' /\ Held'
<1> DEFINE j == job[h]
<1>1. docs \in [Places -> Doc] /\ j \in Job /\ j.on \in Places
  BY DEF Inv, TypeOK, DocumentsTypeOK, Held, Kept, Replace
<1>2. Edited(j) \in Doc /\ Edited(j).id = j.copy.id
  <2> DEFINE x == IF j.flag = "keep" THEN j.copy.active ELSE j.flag = "on"
  <2>1. j.copy \in Doc
    BY <1>1, JobFacts
  <2>2. x \in BOOLEAN
    BY <2>1, DocFacts
  <2>3. Edited(j) = [j.copy EXCEPT !.active = x]
    BY DEF Edited
  <2> HIDE DEF x
  <2> QED
    BY <2>1, <2>2, <2>3, DocFacts
<1> HIDE DEF j
<1>3. (docs' = [docs EXCEPT ![j.on] = Edited(j)] /\ docs[j.on].id = j.copy.id) \/ docs' = docs
  BY DEF Replace, Hit, j
<1>4. docs' \in [Places -> Doc] /\ \A n \in Places : docs'[n].id = docs[n].id
  BY <1>1, <1>2, <1>3
<1> QED
  BY <1>4, EndStep DEF Replace

LEMMA UnsetStep ==
  ASSUME Inv, NEW h \in Handlers, Unset(h)
  PROVE  DocumentsTypeOK' /\ Held'
<1> DEFINE j == [job[h] EXCEPT !.at = "set"]
           i == job[h].on
<1>1. job[h] \in Job /\ i \in Integrations /\ i \in Places /\ docs \in [Places -> Doc]
  BY DEF Inv, TypeOK, DocumentsTypeOK, Held, Kept, Unset
<1>2. j \in Job /\ j.at = "set" /\ j.on = i
  BY <1>1 DEF Job
<1>3. job' = [job EXCEPT ![h] = j]
  BY DEF Unset, Goto
<1> HIDE DEF j
<1>4. \A n \in Places : /\ docs'[n] = IF n \in SameChannel(i) THEN [docs[n] EXCEPT !.primary = FALSE]
                                      ELSE docs[n]
                        /\ docs'[n] \in Doc /\ docs'[n].id = docs[n].id
                        /\ n \in SameChannel(i) => docs'[n].primary = FALSE
  BY <1>1, DocFacts DEF Unset, Demoted
<1>5. docs' \in [Places -> Doc]
  <2>1. docs' = [n \in Places |-> IF n \in SameChannel(i) THEN [docs[n] EXCEPT !.primary = FALSE]
                                  ELSE docs[n]]
    BY DEF Unset, Demoted
  <2> QED
    BY <1>4, <2>1
<1>6. Kept(j, h \in moved', docs')
  BY <1>1, <1>2, <1>4, ChannelFacts DEF Kept
<1>7. made' \in [Places -> Nat] /\ \A n \in Places : docs'[n].id <= made'[n]
  BY <1>4 DEF Unset, Inv, TypeOK, DocumentsTypeOK
<1> QED
  BY <1>2, <1>3, <1>5, <1>6, <1>7, DocumentsStep DEF Unset

LEMMA SetNewStep ==
  ASSUME Inv, NEW h \in Handlers, SetNew(h)
  PROVE  DocumentsTypeOK' /\ Held'
<1> DEFINE n == job[h].on d == [docs[n] EXCEPT !.primary = TRUE]
<1>1. docs \in [Places -> Doc] /\ n \in Places
  BY DEF Inv, TypeOK, DocumentsTypeOK, Held, Kept, SetNew
<1>2. d \in Doc /\ d.id = docs[n].id
  BY <1>1, DocFacts
<1>3. docs' = [docs EXCEPT ![n] = d] \/ docs' = docs
  BY DEF SetNew
<1> HIDE DEF n, d
<1>4. docs' \in [Places -> Doc] /\ \A m \in Places : docs'[m].id = docs[m].id
  BY <1>1, <1>2, <1>3
<1> QED
  BY <1>4, EndStep DEF SetNew

LEMMA FailDocumentStep ==
  ASSUME Inv, NEW h \in Handlers, FailDocument(h)
  PROVE  DocumentsTypeOK' /\ Held'
  BY EndStep DEF FailDocument, Inv, TypeOK, DocumentsTypeOK

LEMMA DocumentStepStep ==
  ASSUME Inv, NEW h \in Handlers,
         (job[h] = Idle /\ DocumentRequest(h)) \/ DocumentStep(h) \/ FailDocument(h)
  PROVE  DocumentsTypeOK' /\ Held'
  BY CreateStep, DeleteStep, SetStatusStep, BeginEditStep, BeginPromoteStep, ReplaceStep, UnsetStep,
     SetNewStep, FailDocumentStep DEF DocumentRequest, DocumentStep

-----------------------------------------------------------------------------
(* The actions of Announcements.                                           *)

LEMMA TimeFacts ==
  /\ Time \subseteq Nat /\ 0 \in Time /\ Never \in Nat /\ Never \notin Time
  /\ \A t \in Time : t < Never
  /\ Starts \subseteq Time
  BY TimeAssumption DEF Time, Never

LEMMA KeyFacts ==
  /\ NoKey \in Key /\ NoKey.present = FALSE /\ Free \in Hand
  /\ \A v \in Key : /\ v.present \in BOOLEAN /\ v.starts \in Time /\ v.expires \in Time
                    /\ v.end \in Time \cup {Never} /\ v.wrote \in Time
  /\ \A v \in Key, s, e \in Time : [v EXCEPT !.starts = s, !.expires = e] \in Key
  /\ \A v \in Key : [v EXCEPT !.present = TRUE] \in Key
  BY TimeFacts DEF NoKey, Key, Free, Hand

LEMMA CheckedStep ==
  ASSUME AnnouncementsTypeOK, NEW h \in Writers, NEW a \in Names \cup {NoName}, NEW v \in Key,
         Checked(h, a, v)
  PROVE  hand' \in [Writers -> Hand] /\ \A g \in Writers \ {h} : hand'[g] = hand[g]
<1> DEFINE x == [at |-> "write", name |-> a, value |-> [v EXCEPT !.present = TRUE]]
<1>1. x \in Hand /\ Free \in Hand
  BY KeyFacts DEF Hand
<1>2. hand' = [hand EXCEPT ![h] = IF v.expires < now THEN Free ELSE x]
  BY DEF Checked
<1> HIDE DEF x
<1> QED
  BY <1>1, <1>2 DEF AnnouncementsTypeOK


\* The expiries while the clock and the keys stand still.
LEMMA KeysStay ==
  ASSUME Inv, kv' = kv, now' = now, gone' = gone, hand' \in [Writers -> Hand]
  PROVE  AnnouncementsTypeOK' /\ Expiries'
  BY DEF Inv, TypeOK, AnnouncementsTypeOK, Expiries

LEMMA AnnounceStep ==
  ASSUME Inv, NEW h \in Handlers, NEW a \in Names, NEW starts \in Starts, NEW expires \in Time,
         Announce(h, a, starts, expires)
  PROVE  AnnouncementsTypeOK' /\ Expiries' /\ \A g \in Handlers \ {h} : hand'[g] = hand[g]
<1> DEFINE v == [NoKey EXCEPT !.starts = starts, !.expires = expires]
<1>1. v \in Key
  BY KeyFacts, TimeFacts
<1>2. Checked(h, a, v) /\ AnnouncementsTypeOK /\ h \in Writers
  BY HandlersAssumption DEF Announce, Inv, TypeOK
<1> HIDE DEF v
<1>3. hand' \in [Writers -> Hand] /\ \A g \in Writers \ {h} : hand'[g] = hand[g]
  BY <1>1, <1>2, CheckedStep
<1> QED
  BY <1>3, KeysStay, HandlersAssumption DEF Announce

LEMMA BeginAmendStep ==
  ASSUME Inv, NEW h \in Handlers, NEW a \in Names, BeginAmend(h, a)
  PROVE  AnnouncementsTypeOK' /\ Expiries' /\ \A g \in Handlers \ {h} : hand'[g] = hand[g]
<1> DEFINE x == [at |-> "edit", name |-> a, value |-> kv[a]]
<1>1. x \in Hand /\ hand \in [Writers -> Hand] /\ h \in Writers
  BY HandlersAssumption DEF Inv, TypeOK, AnnouncementsTypeOK, Hand
<1>2. hand' = [hand EXCEPT ![h] = x]
  BY DEF BeginAmend
<1> HIDE DEF x
<1>3. hand' \in [Writers -> Hand] /\ \A g \in Writers \ {h} : hand'[g] = hand[g]
  BY <1>1, <1>2
<1> QED
  BY <1>3, KeysStay, HandlersAssumption DEF BeginAmend

LEMMA AmendStep ==
  ASSUME Inv, NEW h \in Handlers, NEW starts \in Starts, NEW expires \in Time,
         Amend(h, starts, expires)
  PROVE  AnnouncementsTypeOK' /\ Expiries' /\ \A g \in Handlers \ {h} : hand'[g] = hand[g]
<1> DEFINE v == [hand[h].value EXCEPT !.starts = starts, !.expires = expires]
<1>1. AnnouncementsTypeOK /\ h \in Writers
  BY HandlersAssumption DEF Inv, TypeOK
<1>2. hand[h].value \in Key /\ hand[h].name \in Names \cup {NoName}
  BY <1>1 DEF AnnouncementsTypeOK, Hand
<1>3. v \in Key
  BY <1>2, KeyFacts, TimeFacts
<1>4. Checked(h, hand[h].name, v)
  BY DEF Amend
<1> HIDE DEF v
<1>5. hand' \in [Writers -> Hand] /\ \A g \in Writers \ {h} : hand'[g] = hand[g]
  BY <1>1, <1>2, <1>3, <1>4, CheckedStep
<1> QED
  BY <1>5, KeysStay, HandlersAssumption DEF Amend

LEMMA WriteKeyStep ==
  ASSUME Inv, NEW h \in Handlers, WriteKey(h)
  PROVE  AnnouncementsTypeOK' /\ Expiries' /\ \A g \in Handlers \ {h} : hand'[g] = hand[g]
<1> DEFINE v == hand[h].value a == hand[h].name
           x == [v EXCEPT !.end = Ends(v, a), !.wrote = now]
<1>1. /\ AnnouncementsTypeOK /\ h \in Writers /\ v \in Key /\ now \in Time
      /\ kv \in [Names -> Key] /\ hand \in [Writers -> Hand]
  BY HandlersAssumption DEF Inv, TypeOK, AnnouncementsTypeOK, Hand
<1>2. v.expires \in Time
  BY <1>1, KeyFacts
<1>3. Ends(v, a) \in Time \cup {Never}
  BY <1>2 DEF Ends
<1>4. x \in Key /\ x.expires = v.expires /\ x.end = Ends(v, a) /\ x.wrote = now
  BY <1>1, <1>3 DEF Key
<1>5. kv' = [kv EXCEPT ![a] = x] /\ hand' = [hand EXCEPT ![h] = Free] /\ now' = now /\ gone' = gone
  BY DEF WriteKey
<1> HIDE DEF x, v, a
<1>6. v.expires > now \/ now >= v.expires
  <2>1. v.expires \in Nat /\ now \in Nat
    BY <1>1, <1>2, TimeFacts
  <2> QED
    BY <2>1
<1>7. \/ x.end = x.expires /\ x.end > now
      \/ x.end = Never /\ x.wrote >= x.expires
  BY <1>4, <1>6 DEF Ends
<1>8. kv' \in [Names -> Key] /\ hand' \in [Writers -> Hand]
  BY <1>1, <1>4, <1>5, KeyFacts
<1>9. Expiries'
  <2> SUFFICES ASSUME NEW b \in Names, kv'[b].present
               PROVE  \/ kv'[b].end = kv'[b].expires /\ kv'[b].end > now
                      \/ kv'[b].end = Never /\ kv'[b].wrote >= kv'[b].expires
    BY <1>5 DEF Expiries
  <2>1. CASE b = a
    BY <1>1, <1>5, <1>7, <2>1
  <2>2. CASE b # a
    BY <1>1, <1>5, <2>2 DEF Inv, Expiries
  <2> QED
    BY <2>1, <2>2
<1> QED
  BY <1>1, <1>5, <1>8, <1>9, HandlersAssumption DEF AnnouncementsTypeOK

LEMMA RemoveStep ==
  ASSUME Inv, NEW a \in Names, Remove(a)
  PROVE  AnnouncementsTypeOK' /\ Expiries' /\ hand' = hand
<1>1. kv \in [Names -> Key] /\ kv' = [kv EXCEPT ![a] = NoKey] /\ now' = now /\ hand' = hand
  BY DEF Remove, Inv, TypeOK, AnnouncementsTypeOK
<1>2. kv' \in [Names -> Key] /\ \A b \in Names : kv'[b] = kv[b] \/ ~kv'[b].present
  BY <1>1, KeyFacts
<1>3. gone' \subseteq Names
  BY DEF Remove, Inv, TypeOK, AnnouncementsTypeOK
<1>4. Expiries'
  BY <1>1, <1>2 DEF Inv, Expiries
<1> QED
  BY <1>1, <1>2, <1>3, <1>4 DEF Inv, TypeOK, AnnouncementsTypeOK

LEMMA FailWriterStep ==
  ASSUME Inv, NEW h \in Handlers, FailWriter(h)
  PROVE  AnnouncementsTypeOK' /\ Expiries' /\ \A g \in Handlers \ {h} : hand'[g] = hand[g]
<1>1. hand \in [Writers -> Hand] /\ h \in Writers
  BY HandlersAssumption DEF Inv, TypeOK, AnnouncementsTypeOK
<1>2. hand' \in [Writers -> Hand] /\ \A g \in Writers \ {h} : hand'[g] = hand[g]
  BY <1>1, KeyFacts DEF FailWriter
<1> QED
  BY <1>2, KeysStay, HandlersAssumption DEF FailWriter

LEMMA TickStep ==
  ASSUME Inv, Tick
  PROVE  AnnouncementsTypeOK' /\ Expiries' /\ hand' = hand
<1>1. /\ now \in Time /\ kv \in [Names -> Key] /\ hand \in [Writers -> Hand] /\ now < MaxTime /\ now' = now + 1
      /\ kv' = [a \in Names |-> IF a \in Ended THEN NoKey ELSE kv[a]] /\ hand' = hand
  BY DEF Tick, Inv, TypeOK, AnnouncementsTypeOK
<1>2. now' \in Time
  BY <1>1, TimeAssumption DEF Time
<1>3. kv' \in [Names -> Key]
  BY <1>1, KeyFacts
<1>4. gone' \subseteq Names
  BY DEF Tick, Inv, TypeOK, AnnouncementsTypeOK, Ended
<1>5. Expiries'
  <2> SUFFICES ASSUME NEW a \in Names, kv'[a].present
               PROVE  \/ kv'[a].end = kv'[a].expires /\ kv'[a].end > now'
                      \/ kv'[a].end = Never /\ kv'[a].wrote >= kv'[a].expires
    BY DEF Expiries
  <2>1. kv'[a] = kv[a] /\ a \notin Ended
    BY <1>1, KeyFacts
  <2>2. kv[a].end # now + 1
    BY <2>1 DEF Ended
  <2>3. kv[a].end \in Nat /\ kv[a].expires \in Nat /\ kv[a].wrote \in Nat /\ now \in Nat
    BY <1>1, KeyFacts, TimeFacts
  <2>4. \/ kv[a].end = kv[a].expires /\ kv[a].end > now
        \/ kv[a].end = Never /\ kv[a].wrote >= kv[a].expires
    BY <2>1 DEF Inv, Expiries
  <2> QED
    BY <1>1, <2>1, <2>2, <2>3, <2>4
<1> QED
  BY <1>1, <1>2, <1>3, <1>4, <1>5 DEF AnnouncementsTypeOK

-----------------------------------------------------------------------------
(* The whole of a step.                                                    *)

LEMMA InitInv ==
  ASSUME Init
  PROVE  Inv
<1>1. DocumentsTypeOK
  <2>1. \A n \in Places : docs[n] \in Doc /\ docs[n].id <= made[n]
    <3>1. ASSUME NEW n \in Places
          PROVE  docs[n] \in Doc /\ docs[n].id <= made[n]
      <4>1. [NoDoc EXCEPT !.id = 1, !.active = TRUE] \in Doc
            /\ [NoDoc EXCEPT !.id = 1, !.active = TRUE].id = 1
        BY DEF Doc, NoDoc
      <4> QED
        BY <4>1, DocFacts DEF Init, DocumentsInit
    <3> QED
      BY <3>1
  <2>2. docs \in [Places -> Doc] /\ made \in [Places -> Nat] /\ job \in [Handlers -> Job]
    <3>1. docs = [n \in Places |-> docs[n]]
      BY DEF Init, DocumentsInit
    <3>2. docs \in [Places -> Doc]
      BY <2>1, <3>1
    <3> QED
      BY <3>2, JobFacts DEF Init, DocumentsInit
  <2> QED
    BY <2>1, <2>2 DEF Init, DocumentsInit, DocumentsTypeOK
<1>2. AnnouncementsTypeOK
  BY KeyFacts, TimeFacts DEF Init, AnnouncementsInit, AnnouncementsTypeOK
<1>3. TypeOK
  BY <1>1, <1>2, RequestsAssumption DEF TypeOK, Init, DocumentsInit
<1>4. Held
  BY JobFacts DEF Held, Kept, Init, DocumentsInit
<1>5. Expiries
  BY KeyFacts DEF Expiries, Init, AnnouncementsInit
<1> QED
  BY <1>3, <1>4, <1>5 DEF Inv

\* A step on one half leaves the other.
LEMMA Halves ==
  ASSUME Inv, requests' \in 0..MaxRequests, faults' \in 0..MaxFaults,
         DocumentsTypeOK', Held', AnnouncementsTypeOK', Expiries',
         \A h \in Handlers : job'[h] = Idle \/ hand'[h] = Free
  PROVE  Inv'
  BY DEF Inv, TypeOK

LEMMA DocumentsStay ==
  ASSUME Inv, UNCHANGED documents
  PROVE  DocumentsTypeOK' /\ Held' /\ job' = job
  BY DEF Inv, TypeOK, DocumentsTypeOK, Held, Kept, documents

LEMMA AnnouncementsStay ==
  ASSUME Inv, UNCHANGED announcements
  PROVE  AnnouncementsTypeOK' /\ Expiries' /\ hand' = hand
  BY DEF Inv, TypeOK, AnnouncementsTypeOK, Expiries, announcements

LEMMA BoundsStay ==
  ASSUME Inv
  PROVE  /\ requests \in Nat /\ faults \in Nat
         /\ requests < MaxRequests => requests + 1 \in 0..MaxRequests
         /\ faults < MaxFaults => faults + 1 \in 0..MaxFaults
         /\ requests \in 0..MaxRequests /\ faults \in 0..MaxFaults
  BY RequestsAssumption DEF Inv, TypeOK

\* A handler's step on documents.
LEMMA JobStep ==
  ASSUME Inv, NEW h \in Handlers, UNCHANGED announcements, hand[h] = Free,
         (job[h] = Idle /\ DocumentRequest(h)) \/ DocumentStep(h) \/ FailDocument(h),
         requests' \in 0..MaxRequests, faults' \in 0..MaxFaults
  PROVE  Inv'
<1>1. \A g \in Handlers \ {h} : job'[g] = job[g]
  BY DEF DocumentRequest, DocumentStep, FailDocument, Create, Delete, SetStatus, BeginEdit,
     BeginPromote, Replace, Unset, SetNew, Goto, End, Inv, TypeOK, DocumentsTypeOK
<1>2. \A g \in Handlers : job'[g] = Idle \/ hand'[g] = Free
  BY <1>1, AnnouncementsStay DEF Inv, TypeOK
<1> QED
  BY <1>2, AnnouncementsStay, DocumentStepStep, Halves

\* A handler's step on announcements.
LEMMA HandStep ==
  ASSUME Inv, NEW h \in Handlers, UNCHANGED documents, job[h] = Idle,
         AnnouncementRequest(h) \/ AnnouncementStep(h) \/ FailWriter(h),
         requests' \in 0..MaxRequests, faults' \in 0..MaxFaults
  PROVE  Inv'
<1>1. AnnouncementsTypeOK' /\ Expiries' /\ \A g \in Handlers \ {h} : hand'[g] = hand[g]
  BY AnnounceStep, BeginAmendStep, RemoveStep, AmendStep, WriteKeyStep, FailWriterStep
     DEF AnnouncementRequest, AnnouncementStep
<1>2. \A g \in Handlers : job'[g] = Idle \/ hand'[g] = Free
  BY <1>1, DocumentsStay DEF Inv, TypeOK
<1> QED
  BY <1>1, <1>2, DocumentsStay, Halves

\* A handler on its way with a document has no announcement in hand, and the other way.
LEMMA OneAtATime ==
  ASSUME Inv, NEW h \in Handlers
  PROVE  /\ DocumentStep(h) \/ FailDocument(h) => hand[h] = Free
         /\ AnnouncementStep(h) \/ FailWriter(h) => job[h] = Idle
<1>1. job[h] = Idle \/ hand[h] = Free
  BY DEF Inv, TypeOK
<1>2. Idle.at = "idle" /\ Free.at = "idle"
  BY DEF Idle, Free
<1> QED
  BY <1>1, <1>2 DEF DocumentStep, FailDocument, AnnouncementStep, FailWriter, Replace, Unset, SetNew,
     Amend, WriteKey

LEMMA NextInv ==
  ASSUME Inv, [Next]_vars
  PROVE  Inv'
<1>1. ASSUME NEW h \in Handlers, Request(h)
      PROVE  Inv'
  <2>1. requests' \in 0..MaxRequests /\ faults' \in 0..MaxFaults
    BY <1>1, BoundsStay DEF Request
  <2> QED
    BY <1>1, <2>1, JobStep, HandStep DEF Request
<1>2. ASSUME NEW h \in Handlers, Step(h)
      PROVE  Inv'
  <2>1. requests' \in 0..MaxRequests /\ faults' \in 0..MaxFaults
    BY <1>2, BoundsStay DEF Step
  <2> QED
    BY <1>2, <2>1, OneAtATime, JobStep, HandStep DEF Step
<1>3. ASSUME NEW h \in Handlers, Fail(h)
      PROVE  Inv'
  <2>1. requests' \in 0..MaxRequests /\ faults' \in 0..MaxFaults
    BY <1>3, BoundsStay DEF Fail
  <2> QED
    BY <1>3, <2>1, OneAtATime, JobStep, HandStep DEF Fail
<1>4. CASE Tick /\ UNCHANGED <<documents, requests, faults>>
  <2>1. requests' \in 0..MaxRequests /\ faults' \in 0..MaxFaults
    BY <1>4, BoundsStay
  <2>2. \A g \in Handlers : job'[g] = Idle \/ hand'[g] = Free
    BY <1>4, TickStep, DocumentsStay DEF Inv, TypeOK
  <2> QED
    BY <1>4, <2>1, <2>2, TickStep, DocumentsStay, Halves
<1>5. CASE UNCHANGED vars
  <2>1. requests' \in 0..MaxRequests /\ faults' \in 0..MaxFaults
        /\ UNCHANGED documents /\ UNCHANGED announcements
    BY <1>5, BoundsStay DEF vars
  <2>2. \A g \in Handlers : job'[g] = Idle \/ hand'[g] = Free
    BY <2>1, DocumentsStay, AnnouncementsStay DEF Inv, TypeOK
  <2> QED
    BY <2>1, <2>2, DocumentsStay, AnnouncementsStay, Halves
<1> QED
  BY <1>1, <1>2, <1>3, <1>4, <1>5 DEF Next

-----------------------------------------------------------------------------
(* The theorems.                                                           *)

\* The store of documents and the keys of Redis are well typed; no document carries an
\* _id that was not given yet.
THEOREM TypeCorrect == Spec => []TypeOK
<1>1. Inv => TypeOK
  BY DEF Inv
<1> QED
  BY <1>1, InitInv, NextInv, PTL DEF Spec

\* An announcement that was written before its expiry is not shown after it; what was
\* checked in time and written late has no end (announcement_handler.go:153-166).
THEOREM Expired == Spec => []ExpiryHonoured
<1>1. Inv => ExpiryHonoured
  <2> SUFFICES ASSUME Inv, NEW a \in Shown, kv[a].expires <= now
               PROVE  kv[a].wrote >= kv[a].expires /\ kv[a].end = Never
    BY DEF ExpiryHonoured
  <2>1. a \in Names /\ kv[a].present
    BY DEF Shown
  <2>2. kv[a] \in Key /\ now \in Time
    BY <2>1 DEF Inv, TypeOK, AnnouncementsTypeOK
  <2>3. kv[a].expires \in Nat /\ now \in Nat
    BY <2>2, KeyFacts, TimeFacts
  <2>4. ~(kv[a].end = kv[a].expires /\ kv[a].end > now)
    BY <2>3
  <2> QED
    BY <2>1, <2>4 DEF Inv, Expiries
<1> QED
  BY <1>1, InitInv, NextInv, PTL DEF Spec

\* What a client is told and what the worker looks for agree in every state.
THEOREM Mirrored == Spec => []AvailableMirrorsDelivery
<1>1. AvailableMirrorsDelivery
  BY DEF AvailableMirrorsDelivery, Deliverable, AvailableChannels, Active
<1> QED
  BY <1>1, PTL

EditStep ==
  \A h \in Handlers \ moved : job[h].at = "replace" /\ job'[h] # job[h] =>
    LET n == job[h].on IN
    /\ docs'[n].primary = docs[n].primary
    /\ job[h].flag = "keep" => docs'[n].active = docs[n].active

\* The step in which a handler leaves the job it has.
LEMMA OwnStep ==
  ASSUME Inv, [Next]_vars, NEW h \in Handlers, job[h] # Idle, job'[h] # job[h]
  PROVE  DocumentStep(h) \/ FailDocument(h)
<1>1. ASSUME NEW g \in Handlers, g # h, DocumentRequest(g) \/ DocumentStep(g) \/ FailDocument(g)
      PROVE  FALSE
  BY <1>1 DEF DocumentRequest, DocumentStep, FailDocument, Create, Delete, SetStatus, BeginEdit,
     BeginPromote, Replace, Unset, SetNew, Goto, End, Inv, TypeOK, DocumentsTypeOK
<1> QED
  BY <1>1 DEF Next, Request, Step, Fail, vars, documents

LEMMA NextEdit ==
  ASSUME Inv, [Next]_vars
  PROVE  EditStep
<1> SUFFICES ASSUME NEW h \in Handlers, h \notin moved, job[h].at = "replace", job'[h] # job[h]
             PROVE  /\ docs'[job[h].on].primary = docs[job[h].on].primary
                    /\ job[h].flag = "keep" => docs'[job[h].on].active = docs[job[h].on].active
  BY DEF EditStep
<1> DEFINE j == job[h] n == job[h].on
           x == IF j.flag = "keep" THEN j.copy.active ELSE j.flag = "on"
<1>1. Replace(h) \/ FailDocument(h)
  <2>1. job[h] # Idle
    BY JobFacts
  <2> QED
    BY <2>1, OwnStep DEF DocumentStep, Unset, SetNew
<1>2. CASE docs' = docs
  BY <1>2
<1>3. CASE docs' # docs
  <2>1. docs' = [docs EXCEPT ![n] = Edited(j)]
    BY <1>1, <1>3 DEF Replace, FailDocument
  <2>2. docs[n] = j.copy /\ n \in Places
    BY DEF Inv, Held, Kept
  <2>3. docs \in [Places -> Doc] /\ docs[n] \in Doc
    BY <2>2 DEF Inv, TypeOK, DocumentsTypeOK
  <2>4. docs'[n] = Edited(j)
    BY <2>1, <2>2, <2>3
  <2>5. Edited(j) = [docs[n] EXCEPT !.active = x]
    BY <2>2 DEF Edited
  <2>6. x \in BOOLEAN
    BY <2>2, <2>3, DocFacts
  <2>7. j.flag = "keep" => x = docs[n].active
    BY <2>2
  <2> HIDE DEF x, n, j
  <2>8. Edited(j).primary = docs[n].primary /\ Edited(j).active = x
    BY <2>3, <2>5, <2>6, DocFacts
  <2>9. docs'[n].primary = docs[n].primary /\ (j.flag = "keep" => docs'[n].active = docs[n].active)
    BY <2>4, <2>7, <2>8
  <2> QED
    BY <2>9 DEF n, j
<1> QED
  BY <1>2, <1>3

\* An edit of a document nobody else touched keeps what it does not name.
THEOREM EditKept == Spec => EditKeepsRest
<1>1. Inv /\ [Next]_vars => EditStep
  BY NextEdit
<1> QED
  BY <1>1, InitInv, NextInv, PTL DEF Spec, EditKeepsRest, EditStep

PromotionStep ==
  \A h \in Handlers \ moved : job[h].at = "set" /\ job'[h] # job[h] /\ docs' # docs =>
    {i \in SameChannel(job[h].on) : docs'[i].primary} = {job[h].on}

LEMMA NextPromotion ==
  ASSUME Inv, [Next]_vars
  PROVE  PromotionStep
<1> SUFFICES ASSUME NEW h \in Handlers, h \notin moved, job[h].at = "set", job'[h] # job[h],
                    docs' # docs
             PROVE  {i \in SameChannel(job[h].on) : docs'[i].primary} = {job[h].on}
  BY DEF PromotionStep
<1> DEFINE n == job[h].on d == [docs[n] EXCEPT !.primary = TRUE]
<1>1. SetNew(h)
  <2>1. job[h] # Idle
    BY JobFacts
  <2>2. ~FailDocument(h)
    BY DEF FailDocument
  <2> QED
    BY <2>1, <2>2, OwnStep DEF DocumentStep, Replace, Unset
<1>2. docs' = [docs EXCEPT ![n] = d]
  BY <1>1 DEF SetNew
<1>3. n \in Places /\ \A i \in SameChannel(n) : docs[i].primary = FALSE
  BY DEF Inv, Held, Kept
<1>4. docs \in [Places -> Doc]
  BY DEF Inv, TypeOK, DocumentsTypeOK
<1>5. d.primary = TRUE
  BY <1>3, <1>4, DocFacts
<1> HIDE DEF n, d
<1>6. docs'[n] = d /\ \A i \in Places \ {n} : docs'[i] = docs[i]
  BY <1>2, <1>3, <1>4
<1>7. SameChannel(n) \subseteq Places /\ n \in SameChannel(n)
  BY <1>3, ChannelFacts
<1>8. \A i \in SameChannel(n) : docs'[i].primary <=> i = n
  BY <1>3, <1>5, <1>6, <1>7
<1>9. {i \in SameChannel(n) : docs'[i].primary} = {n}
  BY <1>7, <1>8
<1> QED
  BY <1>9 DEF n

\* A promotion leaves the channel with one primary.
THEOREM Promoted == Spec => PromotionIsWhole
<1>1. Inv /\ [Next]_vars => PromotionStep
  BY NextPromotion
<1> QED
  BY <1>1, InitInv, NextInv, PTL DEF Spec, PromotionIsWhole, PromotionStep
=============================================================================
