--------------------------- MODULE Administration ---------------------------
(***************************************************************************)
(* The admin's side of the API: the same handlers serve requests for       *)
(* documents in MongoDB and for announcements in Redis, one at a time      *)
(* each, and time passes meanwhile.                                        *)
(***************************************************************************)
EXTENDS Documents, Announcements

CONSTANTS
  MaxRequests,   \* bound: requests
  MaxFaults      \* bound: failed calls and lost handlers

ASSUME HandlersAssumption == Writers = Handlers
ASSUME RequestsAssumption == MaxRequests \in Nat /\ MaxFaults \in Nat

VARIABLES requests, faults   \* events so far

vars == <<documents, announcements, requests, faults>>

TypeOK ==
  /\ DocumentsTypeOK /\ AnnouncementsTypeOK
  /\ requests \in 0..MaxRequests /\ faults \in 0..MaxFaults
  /\ \A h \in Handlers : job[h] = Idle \/ hand[h] = Free

Init == DocumentsInit /\ AnnouncementsInit /\ requests = 0 /\ faults = 0

\* A handler without a request takes one.
Request(h) ==
  /\ job[h] = Idle /\ hand[h] = Free
  /\ requests < MaxRequests /\ requests' = requests + 1
  /\ \/ DocumentRequest(h) /\ UNCHANGED announcements
     \/ AnnouncementRequest(h) /\ UNCHANGED documents
  /\ UNCHANGED faults

Step(h) ==
  /\ \/ DocumentStep(h) /\ UNCHANGED announcements
     \/ AnnouncementStep(h) /\ UNCHANGED documents
  /\ UNCHANGED <<requests, faults>>

Fail(h) ==
  /\ faults < MaxFaults /\ faults' = faults + 1
  /\ \/ FailDocument(h) /\ UNCHANGED announcements
     \/ FailWriter(h) /\ UNCHANGED documents
  /\ UNCHANGED requests

Next ==
  \/ \E h \in Handlers : Request(h) \/ Step(h) \/ Fail(h)
  \/ Tick /\ UNCHANGED <<documents, requests, faults>>

Spec == Init /\ [][Next]_vars
=============================================================================
