------------------------- MODULE MCDeliveryPipeline -------------------------
(* Instances of the pipeline for TLC.                                      *)
EXTENDS DeliveryPipeline, TLC

CONSTANTS n1, n2, d1, s1, c1, w1, w2

MCSubOf == [x \in Notifs \cup Directs |-> s1]

Plain(type) == [type |-> type, enabled |-> TRUE, conds |-> {}, configured |-> TRUE]
Conditional(type) == [Plain(type) EXCEPT !.conds = {c1}]
Disabled(type) == [Plain(type) EXCEPT !.enabled = FALSE]
Unconfigured(type) == [Plain(type) EXCEPT !.configured = FALSE]

\* The order-confirmation example: a channel step, a wait, a conditional step.
OrderConfirmation == <<Plain("email"), Plain("delay"), Conditional("in_app")>>
\* A digest, then an SMS to the representative, then a second control step.
ActivityDigest == <<Plain("digest"), Plain("sms"), Plain("delay")>>
\* A control step without configuration is ignored; push does not retry.
PushOnly == <<Unconfigured("delay"), Plain("push")>>
\* Planning skips a disabled step, and a wait whose condition is false.
MaybeWait == <<Disabled("email"), Conditional("delay"), Plain("in_app")>>
\* A push, which is off by default, and a wait whose condition may be false, before an e-mail.
MaybeDigest == <<Plain("push"), Conditional("digest"), Plain("email")>>
\* Two deliveries on one limited channel, which two workers may check at once.
TwoEmails == <<Disabled("push"), Plain("email"), Plain("email")>>

\* The workers are interchangeable (used where no liveness is checked).
WorkerSymmetry == Permutations(Workers)

WaitingWorkflows == {OrderConfirmation, ActivityDigest}
DeliveringWorkflows == {OrderConfirmation, PushOnly}
RacingWorkflows == {OrderConfirmation, MaybeDigest, TwoEmails}
AllWorkflows == WaitingWorkflows \cup {PushOnly, MaybeWait}
=============================================================================
