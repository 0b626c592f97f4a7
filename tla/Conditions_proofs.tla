-------------------------- MODULE Conditions_proofs --------------------------
(***************************************************************************)
(* Proofs about the condition evaluator: away from the five ways in which  *)
(* a condition loses its meaning, what is planned is what was posted.      *)
(***************************************************************************)
EXTENDS Conditions, TLAPS

-----------------------------------------------------------------------------
(* Comparing a value with the value of a condition, after MongoDB gave it  *)
(* back.                                                                   *)

\* What a condition is posted with.
Posted == Scalar \cup [kind: {"list"}, items: Seq(Scalar)]

\* The kinds of scalars, and what belongs to each.
LEMMA ScalarKinds ==
  ASSUME NEW v \in Scalar
  PROVE  \/ v.kind = "nil" /\ v = Nil
         \/ v.kind = "bool" /\ v = Bool(v.bool) /\ v.bool \in BOOLEAN
         \/ v.kind = "number" /\ v = Number(v.num) /\ v.num \in Numbers
         \/ v.kind = "text" /\ v = Text(v.text) /\ v.text \in Texts
  <1>1. CASE v = Nil
    BY <1>1 DEF Nil
  <1>2. CASE \E b \in BOOLEAN : v = Bool(b)
    BY <1>2 DEF Bool
  <1>3. CASE \E x \in Numbers : v = Number(x)
    BY <1>3 DEF Number
  <1>4. CASE \E t \in Texts : v = Text(t)
    BY <1>4 DEF Text
  <1>5. QED
    BY <1>1, <1>2, <1>3, <1>4 DEF Scalar

\* Storing leaves a scalar alone, and makes of a list something that prints like
\* no scalar, holds no number and is no list.
LEMMA StoredScalar ==
  ASSUME NEW w \in Scalar
  PROVE  Stored(w) = w
  BY ScalarKinds DEF Stored

LEMMA StoredList ==
  ASSUME NEW w \in [kind: {"list"}, items: Seq(Scalar)]
  PROVE  /\ Stored(w).kind = "array" /\ Prints(Stored(w)) = {} /\ Prints(w) = {}
         /\ toFloatVal(Stored(w)) = None /\ Norm(w) = w
  BY DEF Stored, Prints, toFloatVal, Norm

\* Two scalars that are normalised to the same value.
LEMMA NormNumber ==
  ASSUME NEW v, v \in Scalar \/ v.kind \in {"map", "list"}, Norm(v).kind = "number"
  PROVE  toFloatVal(v) = Norm(v).num /\ Norm(v).num \in Numbers /\ Norm(v) = Number(Norm(v).num)
  <1>1. v \in Scalar
    BY DEF Norm
  <1>2. QED
    BY <1>1, ScalarKinds, PrintAssumption DEF Norm, toFloatVal, Number, Text

\* What the values compared are: a field leads to v, w was posted.
Pair(v, w) ==
  /\ w \in Posted
  /\ v \in Scalar \/ v.kind = "map" \/ (v.kind = "list" /\ w.kind # "list")

LEMMA ComparablePair ==
  ASSUME NEW v, NEW w \in Posted, NEW operator, Comparable(v, operator, w)
  PROVE  Pair(v, w)
  BY DEF Comparable, Pair

\* Both sides begin with what reads as a number, and a side is more than that.
Blurred(v, w) ==
  /\ None \notin {toFloatVal(v), toFloatVal(w)}
  /\ {Norm(v).kind, Norm(w).kind} # {"number"}

\* A text that is no number from end to end prints like nothing that is one, and a
\* number, or a text that is one, has a number of its own.
LEMMA PrintsApart ==
  ASSUME NEW v \in Scalar, NEW w \in Scalar,
         v.kind \in {"number", "text"}, w.kind \in {"number", "text"}, toFloatVal(v) = None
  PROVE  /\ v.kind = "text" /\ Norm(v) = v
         /\ Prints(v) \cap Prints(w) # {} <=> v = w
         /\ Norm(w) = v <=> v = w
  <1>1. v.kind = "text" /\ v = Text(v.text) /\ v.text \in Texts /\ Scan[v.text] = None
    BY ScalarKinds, PrintAssumption DEF toFloatVal
  <1>2. v.text \notin Whole
    BY <1>1, PrintAssumption
  <1>3. Norm(v) = v /\ Prints(v) = {v.text}
    BY <1>1, <1>2 DEF Norm, Prints
  <1>4. CASE w.kind = "number"
    <2>1. w.num \in Numbers /\ Prints(w) = {NumberText[w.num]} /\ Norm(w) = w
      BY <1>4, ScalarKinds DEF Prints, Norm
    <2>2. NumberText[w.num] # v.text
      BY <2>1, <1>2, PrintAssumption
    <2>3. v # w
      BY <1>1, <1>4
    <2>4. QED
      BY <1>1, <1>3, <2>1, <2>2, <2>3
  <1>5. CASE w.kind = "text"
    <2>1. w = Text(w.text) /\ Prints(w) = {w.text}
      BY <1>5, ScalarKinds DEF Prints
    <2>2. v.text = w.text <=> v = w
      BY <1>1, <2>1 DEF Text
    <2>3. Norm(w) = v => v = w
      BY <1>1, <1>5 DEF Norm, Number
    <2>4. QED
      BY <1>1, <1>3, <2>1, <2>2, <2>3
  <1>6. QED
    BY <1>4, <1>5

\* Equality, as it is evaluated, is equality of what was posted.
LEMMA EqualIsSame ==
  ASSUME NEW v, NEW w, Pair(v, w), ~Blurred(v, w)
  PROVE  compareEqual(v, Stored(w)) <=> Norm(v) = Norm(w)
  <1>1. CASE w \in [kind: {"list"}, items: Seq(Scalar)]
    <2>1. Stored(w).kind = "array" /\ Prints(Stored(w)) = {} /\ toFloatVal(Stored(w)) = None
          /\ Norm(w) = w /\ w.kind = "list"
      BY <1>1, StoredList
    <2>2. v.kind # "array" /\ v.kind # "list" /\ Norm(v).kind # "list"
      BY <2>1, ScalarKinds DEF Pair, Norm, Number
    <2>3. ~compareEqual(v, Stored(w))
      BY <2>1, <2>2 DEF compareEqual
    <2>4. QED
      BY <2>1, <2>2, <2>3
  <1>2. ASSUME w \in Scalar, v \notin Scalar
        PROVE  compareEqual(v, Stored(w)) <=> Norm(v) = Norm(w)
    <2>1. Stored(w) = w /\ v.kind \in {"map", "list"} /\ v # w
      BY <1>2, StoredScalar DEF Pair
    <2>2. Norm(v) = v /\ toFloatVal(v) = None /\ Prints(v) = {}
      BY <2>1 DEF Norm, toFloatVal, Prints
    <2>3. ~compareEqual(v, w)
      BY <2>1, <2>2 DEF compareEqual
    <2>4. Norm(w).kind \notin {"map", "list"}
      BY <1>2, ScalarKinds DEF Norm, Number
    <2>5. QED
      BY <2>1, <2>2, <2>3, <2>4
  <1>3. ASSUME w \in Scalar, v \in Scalar
        PROVE  compareEqual(v, Stored(w)) <=> Norm(v) = Norm(w)
    <2>1. Stored(w) = w
      BY <1>3, StoredScalar
    <2>2. CASE {"nil", "bool"} \cap {v.kind, w.kind} # {}
      <3>1. compareEqual(v, w) <=> v = w
        BY <2>2 DEF compareEqual
      <3>2. CASE v.kind \in {"nil", "bool"}
        <4>1. Norm(v) = v /\ (Norm(w) = w \/ Norm(w).kind = "number")
          BY <3>2 DEF Norm, Number
        <4>2. w.kind = "text" /\ Norm(w) # w => Norm(w) # v /\ w # v
          BY <4>1, <3>2
        <4>3. QED
          BY <2>1, <3>1, <3>2, <4>1, <4>2 DEF Norm
      <3>3. CASE w.kind \in {"nil", "bool"}
        <4>1. Norm(w) = w /\ (Norm(v) = v \/ Norm(v).kind = "number")
          BY <3>3 DEF Norm, Number
        <4>2. v.kind = "text" /\ Norm(v) # v => Norm(v) # w /\ w # v
          BY <4>1, <3>3
        <4>3. QED
          BY <2>1, <3>1, <3>3, <4>1, <4>2 DEF Norm
      <3>4. QED
        BY <2>2, <3>2, <3>3
    <2>3. CASE {"nil", "bool"} \cap {v.kind, w.kind} = {}
      <3>1. v.kind \in {"number", "text"} /\ w.kind \in {"number", "text"}
        BY <1>3, <2>3, ScalarKinds
      <3>2. compareEqual(v, w) <=>
              IF None \notin {toFloatVal(v), toFloatVal(w)}
              THEN toFloatVal(v) = toFloatVal(w) /\ toFloatVal(v) # NotANumber
              ELSE Prints(v) \cap Prints(w) # {}
        BY <2>3 DEF compareEqual
      <3>3. CASE None \notin {toFloatVal(v), toFloatVal(w)}
        <4>1. Norm(v).kind = "number" /\ Norm(w).kind = "number"
          BY <3>3 DEF Blurred
        <4>2. /\ toFloatVal(v) = Norm(v).num /\ Norm(v).num \in Numbers /\ Norm(v) = Number(Norm(v).num)
              /\ toFloatVal(w) = Norm(w).num /\ Norm(w) = Number(Norm(w).num)
          BY <1>3, <4>1, NormNumber
        <4>3. toFloatVal(v) # NotANumber
          BY <4>2, PrintAssumption
        <4>4. QED
          BY <2>1, <3>2, <3>3, <4>2, <4>3
      <3>4. CASE toFloatVal(v) = None
        BY <1>3, <2>1, <3>1, <3>2, <3>4, PrintsApart
      <3>5. CASE toFloatVal(w) = None
        <4>1. /\ Norm(w) = w /\ (Norm(v) = w <=> w = v)
              /\ Prints(w) \cap Prints(v) # {} <=> w = v
          BY <1>3, <3>1, <3>5, PrintsApart
        <4>2. Prints(w) \cap Prints(v) = Prints(v) \cap Prints(w)
          OBVIOUS
        <4>3. QED
          BY <2>1, <3>2, <3>5, <4>1, <4>2
      <3>6. QED
        BY <3>3, <3>4, <3>5
    <2>4. QED
      BY <2>2, <2>3
  <1>4. QED
    BY <1>1, <1>2, <1>3 DEF Pair, Posted

\* Order, as it is evaluated, is the order of the numbers that were posted.
LEMMA OrderIsMeant ==
  ASSUME NEW v, NEW w, Pair(v, w), ~Blurred(v, w)
  PROVE  LET u == Stored(w)
         IN  /\ Numeric(v, u) <=> Norm(v).kind = "number" /\ Norm(w).kind = "number"
             /\ Numeric(v, u) => /\ toFloatVal(v) = Norm(v).num /\ toFloatVal(u) = Norm(w).num
                                 /\ Norm(v).num \in Int /\ Norm(w).num \in Int
                                 /\ Norm(v) = Norm(w) <=> Norm(v).num = Norm(w).num
  <1> DEFINE u == Stored(w)
  <1>1. toFloatVal(u) = toFloatVal(w)
    BY StoredScalar, StoredList DEF Pair, Posted, toFloatVal
  <1>2. v \in Scalar \/ v.kind \in {"map", "list"}
    BY DEF Pair
  <1>3. w \in Scalar \/ w.kind \in {"map", "list"}
    BY DEF Pair, Posted
  <1>4. ASSUME Norm(v).kind = "number", Norm(w).kind = "number"
        PROVE  /\ Numeric(v, u) /\ toFloatVal(v) = Norm(v).num /\ toFloatVal(u) = Norm(w).num
               /\ Norm(v).num \in Int /\ Norm(w).num \in Int
               /\ Norm(v) = Norm(w) <=> Norm(v).num = Norm(w).num
    <2>1. /\ toFloatVal(v) = Norm(v).num /\ Norm(v).num \in Numbers /\ Norm(v) = Number(Norm(v).num)
          /\ toFloatVal(w) = Norm(w).num /\ Norm(w).num \in Numbers /\ Norm(w) = Number(Norm(w).num)
      BY <1>2, <1>3, <1>4, NormNumber
    <2>2. Norm(v).num \in Int /\ Norm(w).num \in Int
      BY <2>1, PrintAssumption
    <2>3. Norm(v) = Norm(w) <=> Norm(v).num = Norm(w).num
      BY <2>1
    <2>4. {toFloatVal(v), toFloatVal(u)} \subseteq Numbers
      BY <1>1, <2>1
    <2>5. QED
      BY <1>1, <2>1, <2>2, <2>3, <2>4 DEF Numeric
  <1>5. ASSUME Numeric(v, u)
        PROVE  Norm(v).kind = "number" /\ Norm(w).kind = "number"
    <2>1. None \notin {toFloatVal(v), toFloatVal(w)}
      BY <1>1, <1>5, PrintAssumption DEF Numeric
    <2>2. QED
      BY <2>1 DEF Blurred
  <1>6. QED
    BY <1>4, <1>5

\* A comparison, as it is evaluated, is what the condition means.
LEMMA ComparisonIsMeant ==
  ASSUME NEW v, NEW w \in Posted, NEW operator, Comparable(v, operator, w),
         operator = "contains" /\ v.kind \in {"list", "map"} => Means(v, operator, w),
         operator = "isNotEmpty" => ~Means(v, operator, w),
         v.kind = "list" => \A k \in DOMAIN v.items : \A t \in Prints(v.items[k]) : Shows(v, t),
         operator \in {"eq", "ne", "gt", "gte", "lt", "lte"} => ~Blurred(v, w),
         ~(operator \in {"in", "nin"} /\ w.kind = "list")
  PROVE  compareValues(v, operator, Stored(w)) <=> Means(v, operator, w)
  <1> DEFINE u == Stored(w)
  <1>0. Pair(v, w)
    BY ComparablePair
  <1>1. CASE operator \in {"eq", "ne"}
    BY <1>0, <1>1, EqualIsSame DEF compareValues, Means
  <1>2. CASE operator \in {"gt", "gte", "lt", "lte"}
    <2> HIDE DEF u
    <2>1. /\ Numeric(v, u) <=> Norm(v).kind = "number" /\ Norm(w).kind = "number"
          /\ Numeric(v, u) => /\ toFloatVal(v) = Norm(v).num /\ toFloatVal(u) = Norm(w).num
                              /\ Norm(v).num \in Int /\ Norm(w).num \in Int
                              /\ Norm(v) = Norm(w) <=> Norm(v).num = Norm(w).num
      BY <1>0, <1>2, OrderIsMeant DEF u
    <2>2. Norm(v) = Norm(w) => Norm(v).kind = Norm(w).kind
      OBVIOUS
    <2>3. CASE operator = "gt"
      BY <2>1, <2>3 DEF compareValues, Means, Below, u
    <2>4. CASE operator = "gte"
      BY <2>1, <2>2, <2>4 DEF compareValues, Means, Below, u
    <2>5. CASE operator = "lt"
      BY <2>1, <2>5 DEF compareValues, Means, Below, u
    <2>6. CASE operator = "lte"
      BY <2>1, <2>2, <2>6 DEF compareValues, Means, Below, u
    <2>7. QED
      BY <1>2, <2>3, <2>4, <2>5, <2>6
  <1>3. CASE operator = "contains"
    <2>1. compareValues(v, operator, u) <=> PrintHolds(v, u)
      BY <1>3 DEF compareValues
    <2>2. Means(v, operator, w) <=>
            IF v.kind = "list" THEN Item(v, w) ELSE Within \cap (Prints(v) \X Prints(w)) # {}
      BY <1>3 DEF Means
    <2> HIDE DEF u
    <2>3. CASE v.kind = "list"
      <3>1. Item(v, w)
        BY <1>3, <2>2, <2>3
      <3>2. PICK k \in DOMAIN v.items : Prints(v.items[k]) \cap Prints(w) # {}
        BY <3>1 DEF Item
      <3>3. Prints(u) = Prints(w)
        BY StoredScalar, StoredList DEF Posted, u
      <3>4. \E t \in Prints(u) : Shows(v, t)
        BY <2>3, <3>2, <3>3
      <3>5. QED
        BY <2>1, <2>2, <2>3, <3>1, <3>4 DEF PrintHolds, u
    <2>4. CASE v.kind = "map"
      <3>1. Prints(v) = {}
        BY <2>4 DEF Prints
      <3>2. ~Means(v, operator, w)
        BY <2>2, <2>4, <3>1
      <3>3. QED
        BY <1>3, <2>4, <3>2
    <2>5. CASE v.kind \notin {"list", "map"}
      <3>1. v \in Scalar
        BY <2>5 DEF Comparable
      <3>2. v.kind \notin {"map", "document", "list", "array"}
        BY <3>1, ScalarKinds
      <3>3. PrintHolds(v, u) <=> \E a \in Prints(v), b \in Prints(u) : <<a, b>> \in Within
        BY <3>2 DEF PrintHolds
      <3>4. Prints(u) = Prints(w)
        BY StoredScalar, StoredList DEF Posted, u
      <3>5. \A P, Q : (\E a \in P, b \in Q : <<a, b>> \in Within) <=> Within \cap (P \X Q) # {}
        <4>1. TAKE P, Q
        <4>2. ASSUME NEW z \in Within \cap (P \X Q)
              PROVE  \E a \in P, b \in Q : <<a, b>> \in Within
          BY <4>2
        <4>3. ASSUME NEW a \in P, NEW b \in Q, <<a, b>> \in Within
              PROVE  <<a, b>> \in Within \cap (P \X Q)
          BY <4>3
        <4>4. QED
          BY <4>2, <4>3
      <3>6. QED
        BY <2>1, <2>2, <2>5, <3>3, <3>4, <3>5 DEF u
    <2>6. QED
      BY <2>3, <2>4, <2>5 DEF u
  <1>4. CASE operator \in {"in", "nin"}
    <2>1. w \in Scalar /\ u = w
      BY <1>4, StoredScalar DEF Posted
    <2>2. w.kind # "list"
      BY <2>1, ScalarKinds
    <2>3. QED
      BY <1>4, <2>1, <2>2 DEF compareValues, Means, Listed
  <1>5. CASE operator = "isNotEmpty"
    BY <1>5 DEF compareValues
  <1>6. CASE operator \notin {"eq", "ne", "gt", "gte", "lt", "lte", "contains", "in", "nin", "isNotEmpty"}
    BY <1>6 DEF compareValues, Means
  <1>7. QED
    BY <1>1, <1>2, <1>3, <1>4, <1>5, <1>6

-----------------------------------------------------------------------------
(* What the trigger handler reads back.                                    *)

LEMMA SeqShape ==
  ASSUME NEW T, NEW s \in Seq(T)
  PROVE  DOMAIN s = 1..Len(s) /\ Len(s) \in Nat /\ \A i \in DOMAIN s : s[i] \in T
  OBVIOUS

LEMMA WorkflowShape ==
  ASSUME NEW ss \in Workflows
  PROVE  /\ DOMAIN ss = 1..Len(ss) /\ Len(ss) \in Nat
         /\ \A i \in DOMAIN ss :
              /\ ss[i] \in [enabled: BOOLEAN, conds: Seq(Condition)]
              /\ \A j \in DOMAIN ss[i].conds : ss[i].conds[j] \in Condition
  <1> DEFINE StepRecord == [enabled: BOOLEAN, conds: Seq(Condition)]
  <1>1. ss \in Seq(StepRecord)
    BY WorkflowsAssumption
  <1>2. \A r \in StepRecord : r.conds \in Seq(Condition)
    OBVIOUS
  <1> HIDE DEF StepRecord
  <1>3. DOMAIN ss = 1..Len(ss) /\ Len(ss) \in Nat /\ \A i \in DOMAIN ss : ss[i] \in StepRecord
    BY <1>1, SeqShape
  <1>4. \A i \in DOMAIN ss : \A j \in DOMAIN ss[i].conds : ss[i].conds[j] \in Condition
    BY <1>2, <1>3, SeqShape
  <1>5. QED
    BY <1>3, <1>4 DEF StepRecord

\* Every step and every condition of it is still there; only values changed.
LEMMA StoredShape ==
  ASSUME NEW ss \in Workflows
  PROVE  /\ DOMAIN StoredSteps(ss) = 1..Len(ss) /\ Len(StoredSteps(ss)) = Len(ss)
         /\ \A i \in DOMAIN ss :
              LET stored == StoredSteps(ss)[i]
              IN  /\ stored.enabled = ss[i].enabled /\ DOMAIN stored.conds = DOMAIN ss[i].conds
                  /\ \A j \in DOMAIN ss[i].conds :
                       /\ stored.conds[j].field = ss[i].conds[j].field
                       /\ stored.conds[j].operator = ss[i].conds[j].operator
                       /\ stored.conds[j].value = Stored(ss[i].conds[j].value)
  <1>1. DOMAIN ss = 1..Len(ss) /\ Len(ss) \in Nat
    BY WorkflowShape
  <1>2. DOMAIN StoredSteps(ss) = 1..Len(ss)
    BY <1>1 DEF StoredSteps
  <1>3. Len(StoredSteps(ss)) = Len(ss)
    BY <1>1, <1>2
  <1>4. ASSUME NEW i \in DOMAIN ss
        PROVE  LET stored == StoredSteps(ss)[i]
               IN  /\ stored.enabled = ss[i].enabled /\ DOMAIN stored.conds = DOMAIN ss[i].conds
                   /\ \A j \in DOMAIN ss[i].conds :
                        /\ stored.conds[j].field = ss[i].conds[j].field
                        /\ stored.conds[j].operator = ss[i].conds[j].operator
                        /\ stored.conds[j].value = Stored(ss[i].conds[j].value)
    <2> DEFINE kept == [j \in DOMAIN ss[i].conds |->
                          [ss[i].conds[j] EXCEPT !.value = Stored(ss[i].conds[j].value)]]
    <2>1. ss[i] \in [enabled: BOOLEAN, conds: Seq(Condition)]
      BY WorkflowShape
    <2>2. StoredSteps(ss)[i] = [ss[i] EXCEPT !.conds = kept]
      BY DEF StoredSteps
    <2>3. ASSUME NEW j \in DOMAIN ss[i].conds
          PROVE  /\ kept[j].field = ss[i].conds[j].field
                 /\ kept[j].operator = ss[i].conds[j].operator
                 /\ kept[j].value = Stored(ss[i].conds[j].value)
      <3>1. ss[i].conds[j] \in Condition
        BY WorkflowShape
      <3>2. QED
        BY <3>1 DEF Condition
    <2>4. DOMAIN kept = DOMAIN ss[i].conds
      OBVIOUS
    <2> HIDE DEF kept
    <2>5. StoredSteps(ss)[i].enabled = ss[i].enabled /\ StoredSteps(ss)[i].conds = kept
      BY <2>1, <2>2
    <2>6. QED
      BY <2>3, <2>4, <2>5
  <1>5. QED
    BY <1>2, <1>3, <1>4

-----------------------------------------------------------------------------
(* The plan.                                                               *)

Outcomes == {"disabled", "unmet", "planned"}

\* What the handler holds when it has read everything.
ReadBack(payload, marks) ==
  [at |-> "plan", steps |-> StoredSteps(workflow), subscriber |-> StoredSubscriber(subscriber),
   payload |-> payload, marks |-> marks]

\* Every step decided so far was decided on what was read back.
Inv ==
  /\ workflow \in Workflows /\ subscriber \in Subscribers
  /\ planned \in Seq(Outcomes) /\ Len(planned) <= Len(workflow)
  /\ run = NoRun => planned = << >>
  /\ run # NoRun => \E payload \in Events, marks \in Marks : run = ReadBack(payload, marks)
  /\ \A i \in DOMAIN planned : planned[i] = Outcome(run.steps[i], run)

\* Every reachable state satisfies it.
LEMMA Reading == Spec => []Inv
  <1>1. Init => Inv
    <2> SUFFICES ASSUME Init PROVE Inv
      OBVIOUS
    <2>1. planned = << >> /\ run = NoRun /\ workflow \in Workflows /\ subscriber \in Subscribers
      BY DEF Init
    <2>2. Len(workflow) \in Nat
      BY <2>1, WorkflowShape
    <2>3. QED
      BY <2>1, <2>2 DEF Inv
  <1>2. Inv /\ [Next]_vars => Inv'
    <2> SUFFICES ASSUME Inv, [Next]_vars PROVE Inv'
      OBVIOUS
    <2>1. ASSUME NEW payload \in Events, NEW marks \in Marks, Trigger(payload, marks)
          PROVE  Inv'
      <3>1. planned = << >> /\ planned' = << >> /\ run' = ReadBack(payload, marks)'
            /\ workflow' = workflow /\ subscriber' = subscriber
        BY <2>1 DEF Trigger, Inv, ReadBack
      <3>2. run' # NoRun
        BY <3>1 DEF ReadBack, NoRun
      <3>3. QED
        BY <3>1, <3>2 DEF Inv
    <2>2. CASE PlanStep
      <3> DEFINE i == Len(planned) + 1
      <3>1. /\ run # NoRun /\ Len(planned) < Len(run.steps)
            /\ planned' = Append(planned, Outcome(run.steps[i], run))
            /\ workflow' = workflow /\ subscriber' = subscriber /\ run' = run
        BY <2>2 DEF PlanStep
      <3>2. run.steps = StoredSteps(workflow)
        BY <3>1 DEF Inv, ReadBack
      <3>3. Len(planned) < Len(workflow) /\ Len(workflow) \in Nat /\ Len(planned) \in Nat
        BY <3>1, <3>2, StoredShape, WorkflowShape DEF Inv
      <3>4. Outcome(run.steps[i], run) \in Outcomes
        BY DEF Outcome, Outcomes
      <3>5. planned \in Seq(Outcomes)
        BY DEF Inv
      <3> HIDE DEF i
      <3>6. /\ planned' \in Seq(Outcomes) /\ Len(planned') = i
            /\ \A j \in DOMAIN planned' : planned'[j] = IF j = i THEN Outcome(run.steps[i], run) ELSE planned[j]
            /\ DOMAIN planned' = DOMAIN planned \cup {i}
        BY <3>1, <3>4, <3>5 DEF i
      <3>7. \A j \in DOMAIN planned' : planned'[j] = Outcome(run'.steps[j], run')
        BY <3>1, <3>6 DEF Inv
      <3>8. run' # NoRun /\ \E payload \in Events, marks \in Marks : run' = ReadBack(payload, marks)'
        BY <3>1 DEF Inv, ReadBack
      <3>9. QED
        BY <3>1, <3>3, <3>6, <3>7, <3>8 DEF Inv, i
    <2>3. CASE UNCHANGED vars
      BY <2>3 DEF vars, Inv, ReadBack
    <2>4. QED
      BY <2>1, <2>2, <2>3 DEF Next
  <1>3. QED
    BY <1>1, <1>2, PTL DEF Spec

\* PlanIsMeant, for every workflow, subscriber and payload: what a step becomes is
\* what its conditions mean of the values as they were posted, unless one of them
\* loses a list, loses an object of the subscriber's, has a text misread, finds what is
\* no item in the print of a list or an object, or asks with "isNotEmpty" for what is there.
THEOREM Meant == Spec => []PlanIsMeant
  <1>1. Inv => PlanIsMeant
    <2> SUFFICES ASSUME Inv, NEW i \in DOMAIN planned,
                        \A j \in DOMAIN workflow[i].conds :
                          /\ ~LosesList(workflow[i].conds[j])
                          /\ ~LosesData(workflow[i].conds[j])
                          /\ ~Misreads(workflow[i].conds[j])
                          /\ ~FindsInPrint(workflow[i].conds[j])
                          /\ ~Unknown(workflow[i].conds[j])
                 PROVE  planned[i] = "planned" <=>
                          workflow[i].enabled
                            /\ \A j \in DOMAIN workflow[i].conds : MetAsPosted(workflow[i].conds[j])
      BY DEF PlanIsMeant
    <2> DEFINE step == run.steps[i]
    <2>1. run # NoRun
      BY DEF Inv
    <2>2. PICK payload \in Events, marks \in Marks : run = ReadBack(payload, marks)
      BY <2>1 DEF Inv
    <2>3. i \in DOMAIN workflow /\ workflow \in Workflows /\ subscriber \in Subscribers
      BY WorkflowShape DEF Inv
    <2>4. /\ step.enabled = workflow[i].enabled /\ DOMAIN step.conds = DOMAIN workflow[i].conds
          /\ \A j \in DOMAIN workflow[i].conds :
               /\ step.conds[j].field = workflow[i].conds[j].field
               /\ step.conds[j].operator = workflow[i].conds[j].operator
               /\ step.conds[j].value = Stored(workflow[i].conds[j].value)
      BY <2>2, <2>3, StoredShape DEF ReadBack
    <2>5. AsPosted = [subscriber |-> subscriber, payload |-> payload, marks |-> marks]
      BY <2>2 DEF AsPosted, ReadBack
    <2>6. ASSUME NEW j \in DOMAIN workflow[i].conds
          PROVE  Met(step.conds[j], run) <=> MetAsPosted(workflow[i].conds[j])
      <3> DEFINE c == workflow[i].conds[j]
                 v == resolveField(c.field, AsPosted)
      <3>1. c \in Condition /\ c.value \in Posted
        BY <2>3, WorkflowShape DEF Condition, Posted
      <3>2. Comparable(v, c.operator, c.value)
        BY <2>3, <2>5, FieldsAssumption
      <3>3. /\ ~LosesList(c) /\ ~LosesData(c) /\ ~Misreads(c)
            /\ ~FindsInPrint(c) /\ ~Unknown(c)
        OBVIOUS
      <3>4. resolveField(c.field, run) = v
        BY <3>3 DEF LosesData
      <3>5. ~(c.operator \in {"in", "nin"} /\ c.value.kind = "list")
        BY <3>3 DEF LosesList
      <3>6. c.operator \in {"eq", "ne", "gt", "gte", "lt", "lte"} => ~Blurred(v, c.value)
        BY <3>3 DEF Misreads, Blurred
      <3>7. Met(step.conds[j], run) <=> compareValues(v, c.operator, Stored(c.value))
        BY <2>4, <3>4 DEF Met
      <3>8. MetAsPosted(c) <=> Means(v, c.operator, c.value)
        BY DEF MetAsPosted
      <3>9. c.operator = "contains" /\ v.kind \in {"list", "map"} => Means(v, c.operator, c.value)
        BY <3>3, <3>8 DEF FindsInPrint
      <3>10. c.operator = "isNotEmpty" => ~Means(v, c.operator, c.value)
        BY <3>3, <3>8 DEF Unknown
      <3>11. v.kind = "list" => \A k \in DOMAIN v.items : \A t \in Prints(v.items[k]) : Shows(v, t)
        BY <2>3, <2>5, ShowsAssumption
      <3> HIDE DEF v, c, step
      <3>12. compareValues(v, c.operator, Stored(c.value)) <=> Means(v, c.operator, c.value)
        BY <3>1, <3>2, <3>5, <3>6, <3>9, <3>10, <3>11, ComparisonIsMeant
      <3>13. QED
        BY <3>7, <3>8, <3>12 DEF c
    <2>7. planned[i] = Outcome(step, run)
      BY DEF Inv
    <2>8. planned[i] = "planned" <=> step.enabled /\ \A j \in DOMAIN step.conds : Met(step.conds[j], run)
      <3> HIDE DEF step
      <3>1. step.enabled \in BOOLEAN
        BY <2>3, <2>4, WorkflowShape
      <3>2. QED
        BY <2>7, <3>1 DEF Outcome
    <2>9. QED
      BY <2>4, <2>6, <2>8
  <1>2. QED
    BY <1>1, Reading, PTL
=============================================================================
