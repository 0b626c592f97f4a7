----------------------------- MODULE Conditions -----------------------------
(***************************************************************************)
(* The condition evaluator of a workflow (engine/workflow_engine.go). A    *)
(* condition is posted as JSON, stored in MongoDB, read back by the        *)
(* trigger handler and compared with a field of the subscriber, of the     *)
(* event's payload or of the notification. BSON gives other Go types back  *)
(* than JSON gave, and numbers are looked for in texts: what is decided    *)
(* stands against what the condition, as it was posted, means.             *)
(***************************************************************************)
EXTENDS Integers, Sequences, SequencesExt

CONSTANTS
  Texts,          \* texts, those included that other values print as
  Numbers,
  None,           \* no number
  NotANumber,     \* the NaN of floating-point numbers
  Scan,           \* the number that fmt.Sscanf("%f") finds at the start of a text
  Whole,          \* the texts that are a number from end to end
  NumberText, BoolText, NilText,   \* what the other scalars print as
  Within,         \* <<a, b>> : the text a holds the text b
  Shows(_, _),    \* Shows(v, t): what "%v" makes of the list or object v holds the text t
  Workflows,      \* the steps of workflows, as an admin posts them
  Subscribers,    \* subscribers, as a backend posts them
  Events          \* payloads of events, as a backend sends them

ASSUME PrintAssumption ==
  /\ Numbers \subseteq Int /\ NotANumber \notin Numbers
  /\ None \notin Numbers \cup {NotANumber}
  /\ Scan \in [Texts -> Numbers \cup {NotANumber, None}]
  /\ Whole \subseteq {t \in Texts : Scan[t] \in Numbers}
  /\ NumberText \in [Numbers -> Whole] /\ \A x \in Numbers : Scan[NumberText[x]] = x
  /\ BoolText \in [BOOLEAN -> Texts] /\ NilText \in Texts

VARIABLES
  workflow,       \* the steps, as posted
  subscriber,     \* the subscriber, as posted
  run,            \* what the trigger handler has read, or NoRun
  planned         \* what became of the steps so far

vars == <<workflow, subscriber, run, planned>>

NoRun == [at |-> "none"]

-----------------------------------------------------------------------------
(* Go's values. A JSON object is a map and a JSON array a list; MongoDB    *)
(* gives a nested one back as a document (bson.D) or an array (bson.A).    *)

Nil == [kind |-> "nil"]
Bool(b) == [kind |-> "bool", bool |-> b]
Number(x) == [kind |-> "number", num |-> x]
Text(t) == [kind |-> "text", text |-> t]
Map(f) == [kind |-> "map", of |-> f]
List(s) == [kind |-> "list", items |-> s]

Stored(v) ==
  CASE v.kind = "map" -> [v EXCEPT !.kind = "document"]
    [] v.kind = "list" -> [v EXCEPT !.kind = "array"]
    [] OTHER -> v

StoredSteps(steps) ==
  [i \in DOMAIN steps |->
    [steps[i] EXCEPT !.conds =
       [j \in DOMAIN steps[i].conds |-> [steps[i].conds[j] EXCEPT !.value = Stored(@)]]]]

\* The data of a subscriber is declared a map, what it holds is not.
StoredSubscriber(s) ==
  [s EXCEPT !.data = Map([k \in DOMAIN @.of |-> Stored(@.of[k])])]

\* What "%v" prints of a scalar; brackets and keys keep what it prints of the rest apart
\* from every text here.
Prints(v) ==
  CASE v.kind = "text" -> {v.text}
    [] v.kind = "number" -> {NumberText[v.num]}
    [] v.kind = "bool" -> {BoolText[v.bool]}
    [] v.kind = "nil" -> {NilText}
    [] OTHER -> {}

\* strings.Contains, of what "%v" prints. It finds in a list or an object what the parts
\* print, a key, or a piece that spans several parts.
PrintHolds(v, w) ==
  IF v.kind \in {"map", "document", "list", "array"}
  THEN \E b \in Prints(w) : Shows(v, b)
  ELSE \E a \in Prints(v), b \in Prints(w) : <<a, b>> \in Within

toFloatVal(v) ==
  CASE v.kind = "number" -> v.num
    [] v.kind = "text" -> Scan[v.text]
    [] OTHER -> None

-----------------------------------------------------------------------------
(* A field is a path: its root, then keys.                                 *)

resolveMapField(path, map) ==
  FoldLeft(LAMBDA at, key : IF at.kind = "map" /\ key \in DOMAIN at.of THEN at.of[key] ELSE Nil,
           map, path)

resolveSubscriberField(path, s) ==
  CASE Head(path) = "data" -> resolveMapField(Tail(path), s.data)
    [] Head(path) \in {"locale", "email", "phone"} -> Text(s[Head(path)])
    [] OTHER -> Nil

\* The index of the step is not looked at: the marks are the notification's.
resolveStepField(path, marks) ==
  IF Len(path) = 2 /\ path[2] \in {"seen", "read"} THEN Bool(path[2] \in marks) ELSE Nil

resolveField(path, r) ==
  CASE Len(path) < 2 -> Nil
    [] Len(path) >= 2 /\ path[1] = "subscriber" -> resolveSubscriberField(Tail(path), r.subscriber)
    [] Len(path) >= 2 /\ path[1] = "payload" -> resolveMapField(Tail(path), r.payload)
    [] Len(path) >= 2 /\ path[1] = "steps" -> resolveStepField(Tail(path), r.marks)
    [] OTHER -> Nil

\* A condition is posted with a scalar or a list of scalars. What its field leads to
\* is anything if it is compared with a scalar. A list is not compared with a list nor
\* looked for in an object: what "%v" makes of two lists is not modelled.
Scalar ==
  {Nil, Bool(TRUE), Bool(FALSE)} \cup {Number(x) : x \in Numbers} \cup {Text(t) : t \in Texts}

Condition == [field: Seq(STRING), operator: STRING,
              value: Scalar \cup [kind: {"list"}, items: Seq(Scalar)]]

Marks == {{}, {"seen"}, {"seen", "read"}}

Comparable(v, operator, w) ==
  \/ v \in Scalar
  \/ v.kind \in {"map", "list"} /\ w.kind # "list"
  \/ v.kind = "map" /\ operator # "contains"

ASSUME WorkflowsAssumption == Workflows \subseteq Seq([enabled: BOOLEAN, conds: Seq(Condition)])
ASSUME FieldsAssumption ==
  \A steps \in Workflows, s \in Subscribers, e \in Events, m \in Marks :
    \A i \in DOMAIN steps : \A j \in DOMAIN steps[i].conds :
      LET c == steps[i].conds[j]
          v == resolveField(c.field, [subscriber |-> s, payload |-> e, marks |-> m])
      IN  Comparable(v, c.operator, c.value)

\* What a list prints holds what its items print.
ASSUME ShowsAssumption ==
  \A steps \in Workflows, s \in Subscribers, e \in Events, m \in Marks :
    \A i \in DOMAIN steps : \A j \in DOMAIN steps[i].conds :
      LET v == resolveField(steps[i].conds[j].field, [subscriber |-> s, payload |-> e, marks |-> m])
      IN  v.kind = "list" => \A k \in DOMAIN v.items : \A t \in Prints(v.items[k]) : Shows(v, t)

-----------------------------------------------------------------------------
(* Comparison.                                                             *)

\* Mutant: booleans are compared by what they print as.
compareEqual_Print(v, w) ==
  IF "nil" \in {v.kind, w.kind} THEN v = w
  ELSE IF None \notin {toFloatVal(v), toFloatVal(w)}
       THEN toFloatVal(v) = toFloatVal(w) /\ toFloatVal(v) # NotANumber
       ELSE Prints(v) \cap Prints(w) # {}

compareEqual(v, w) ==
  CASE {"nil", "bool"} \cap {v.kind, w.kind} # {} -> v = w
    [] OTHER -> IF None \notin {toFloatVal(v), toFloatVal(w)}
                THEN toFloatVal(v) = toFloatVal(w) /\ toFloatVal(v) # NotANumber
                ELSE Prints(v) \cap Prints(w) # {}

Listed(v, w) == w.kind = "list" /\ \E i \in DOMAIN w.items : Prints(v) \cap Prints(w.items[i]) # {}

\* Nothing is above or below NaN.
Numeric(v, w) == {toFloatVal(v), toFloatVal(w)} \subseteq Numbers

compareValues(v, operator, w) ==
  \/ operator = "eq" /\ compareEqual(v, w)
  \/ operator = "ne" /\ ~compareEqual(v, w)
  \/ operator = "contains" /\ PrintHolds(v, w)
  \/ operator = "in" /\ Listed(v, w)
  \/ operator = "nin" /\ ~Listed(v, w)
  \/ operator = "gt" /\ Numeric(v, w) /\ toFloatVal(v) > toFloatVal(w)
  \/ operator = "gte" /\ Numeric(v, w) /\ toFloatVal(v) >= toFloatVal(w)
  \/ operator = "lt" /\ Numeric(v, w) /\ toFloatVal(v) < toFloatVal(w)
  \/ operator = "lte" /\ Numeric(v, w) /\ toFloatVal(v) <= toFloatVal(w)

Met(c, r) == compareValues(resolveField(c.field, r), c.operator, c.value)

-----------------------------------------------------------------------------
(* A trigger handler reads the workflow, the subscriber and the            *)
(* notification with the marks set on it, and plans step by step.          *)

Init ==
  /\ workflow \in Workflows /\ subscriber \in Subscribers
  /\ run = NoRun /\ planned = << >>

Trigger(payload, marks) ==
  /\ run = NoRun
  /\ run' = [at |-> "plan", steps |-> StoredSteps(workflow),
             subscriber |-> StoredSubscriber(subscriber), payload |-> payload, marks |-> marks]
  /\ UNCHANGED <<workflow, subscriber, planned>>

Outcome(step, r) ==
  CASE ~step.enabled -> "disabled"
    [] step.enabled /\ (\E j \in DOMAIN step.conds : ~Met(step.conds[j], r)) -> "unmet"
    [] OTHER -> "planned"

PlanStep ==
  /\ run # NoRun /\ Len(planned) < Len(run.steps)
  /\ planned' = Append(planned, Outcome(run.steps[Len(planned) + 1], run))
  /\ UNCHANGED <<workflow, subscriber, run>>

Next == (\E p \in Events, m \in Marks : Trigger(p, m)) \/ PlanStep

Spec == Init /\ [][Next]_vars

-----------------------------------------------------------------------------
(* What a condition means, of the values as they were posted.              *)

\* A number, a text that is one from end to end, a truth value, or a text.
Norm(v) == IF v.kind = "text" /\ v.text \in Whole THEN Number(Scan[v.text]) ELSE v

Below(v, w) ==
  Norm(v).kind = "number" /\ Norm(w).kind = "number" /\ Norm(v).num < Norm(w).num

\* w is an item of the list v. Printed values are compared, not numbers.
Item(v, w) == \E i \in DOMAIN v.items : Prints(v.items[i]) \cap Prints(w) # {}

\* A list contains its items, and a text or another scalar what is within its print; of an
\* object nothing is said. A field is empty if it is not there or is the empty text
\* (DEPLOYMENT.md:951-958: "only if the subscriber has a phone number").
Means(v, operator, w) ==
  LET same == Norm(v) = Norm(w)
      in == w.kind = "list" /\ Item(w, v)
  IN  CASE operator = "eq" -> same
        [] operator = "ne" -> ~same
        [] operator = "contains" ->
             IF v.kind = "list" THEN Item(v, w)
             ELSE Within \cap (Prints(v) \X Prints(w)) # {}
        [] operator = "isNotEmpty" -> v \notin {Nil, Text("")}
        [] operator = "in" -> in
        [] operator = "nin" -> ~in
        [] operator = "gt" -> Below(w, v)
        [] operator = "gte" -> Below(w, v) \/ (same /\ Norm(v).kind = "number")
        [] operator = "lt" -> Below(v, w)
        [] operator = "lte" -> Below(v, w) \/ (same /\ Norm(v).kind = "number")
        [] OTHER -> FALSE

AsPosted == [subscriber |-> subscriber, payload |-> run.payload, marks |-> run.marks]

MetAsPosted(c) == Means(resolveField(c.field, AsPosted), c.operator, c.value)

\* A list of values comes back from MongoDB as something "in" does not take for one.
LosesList(c) == c.operator \in {"in", "nin"} /\ c.value.kind = "list"

\* Objects inside the subscriber's data come back as something a path does not enter.
LosesData(c) ==
  resolveField(c.field, AsPosted) # resolveField(c.field, run)

\* Both sides begin with what reads as a number, and a side is more than that:
\* "5 Main St" and "5 Oak St" are the same, and "Nancy" is not the same as "Nancy".
Misreads(c) ==
  LET v == resolveField(c.field, AsPosted)
  IN  /\ c.operator \in {"eq", "ne", "gt", "gte", "lt", "lte"}
      /\ None \notin {toFloatVal(v), toFloatVal(c.value)}
      /\ {Norm(v).kind, Norm(c.value).kind} # {"number"}

\* "contains" finds in what Go prints of a list or an object something that is no item:
\* a piece of one, a key, a bracket.
FindsInPrint(c) ==
  /\ c.operator = "contains" /\ ~MetAsPosted(c)
  /\ resolveField(c.field, AsPosted).kind \in {"list", "map"}

\* DEPLOYMENT.md:951 uses "isNotEmpty", and the evaluator answers an operator it has not
\* with false.
Unknown(c) == c.operator = "isNotEmpty" /\ MetAsPosted(c)

-----------------------------------------------------------------------------
(* Properties.                                                             *)

\* A step is planned exactly if it is on by default and its conditions, as they were
\* posted, hold of the subscriber and the payload as they were posted, save where
\* storing changes a type, a text is misread as a number, "contains" is asked of a list or
\* an object and finds what is no item, or "isNotEmpty" should hold (README.md:45: "skip
\* steps based on subscriber data or payload fields"; workflow_engine.go:124-193).
PlanIsMeant ==
  \A i \in DOMAIN planned :
    LET conds == workflow[i].conds
    IN  \/ \E j \in DOMAIN conds : \/ LosesList(conds[j]) \/ LosesData(conds[j]) \/ Misreads(conds[j])
                                  \/ FindsInPrint(conds[j]) \/ Unknown(conds[j])
        \/ planned[i] = "planned" <=>
             workflow[i].enabled /\ \A j \in DOMAIN conds : MetAsPosted(conds[j])

=============================================================================
