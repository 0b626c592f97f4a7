---------------------------- MODULE MCConditions ----------------------------
(* Instances of the condition evaluator for TLC.                           *)
EXTENDS Conditions, TLC, FiniteSets

\* A word, a number written twice, a number with more behind it, a name that
\* begins like NaN, and what the other scalars print as.
MCTexts == {"", "pro", "5", "05", "7", "5 Main", "5 Oak", "Nancy", "true", "false", "<nil>"}
MCNumbers == {5, 7}
MCWhole == {"5", "05", "7"}

MCScan ==
  [t \in MCTexts |-> CASE t \in {"5", "05", "5 Main", "5 Oak"} -> 5
                       [] t = "7" -> 7
                       [] t = "Nancy" -> NotANumber
                       [] OTHER -> None]

MCNumberText == (5 :> "5") @@ (7 :> "7")
MCBoolText == (TRUE :> "true") @@ (FALSE :> "false")

MCWithin ==
  {<<t, t>> : t \in MCTexts} \cup {<<t, "">> : t \in MCTexts}
    \cup ({"05", "5 Main", "5 Oak"} \X {"5"})

\* What is within a part of a list or an object is within what it prints, and so are
\* keys; of pieces that span several parts there is none here.
RECURSIVE MCShows(_, _)
MCShows(v, t) ==
  \/ t = ""
  \/ v.kind \in {"list", "array"} /\ \E i \in DOMAIN v.items : MCShows(v.items[i], t)
  \/ v.kind \in {"map", "document"} /\ \E k \in DOMAIN v.of : k = t \/ MCShows(v.of[k], t)
  \/ \E a \in Prints(v) : <<a, t>> \in Within

Scalars ==
  {Number(5), Number(7), Bool(TRUE)} \cup {Text(t) : t \in MCTexts \ {"7", "false", "<nil>"}}

\* The same value of a key, inside an object and in a list, or nothing.
Object(v) == Map([plan |-> v, org |-> Map([plan |-> v]), tags |-> List(<<v, Text("true")>>)])
Objects == {Map(<< >>)} \cup {Object(v) : v \in Scalars}

MCEvents == Objects
MCSubscribers ==
  {[data |-> d, locale |-> "pro", email |-> "", phone |-> "5"] :
     d \in {Map(<< >>)} \cup {Object(v) : v \in {Number(5), Text("5 Main")}}}

Fields ==
  { <<"payload", "plan">>, <<"payload", "org", "plan">>, <<"subscriber", "data", "plan">>,
    <<"subscriber", "data", "org", "plan">>, <<"subscriber", "phone">>, <<"subscriber", "email">>,
    <<"steps", "0", "seen">>, <<"steps", "seen">>, <<"payload">> }

\* Fields that lead to an object or a list.
Compounds ==
  {<<"payload", "org">>, <<"payload", "tags">>, <<"subscriber", "data", "tags">>}

\* "isNotEmpty" is an operator of DEPLOYMENT.md:951 that the evaluator has not.
Operators == {"eq", "ne", "contains", "in", "nin", "gt", "gte", "lt", "lte", "isNotEmpty"}

Cond(f, o, v) == [field |-> f, operator |-> o, value |-> v]
Conds(fields, values) ==
  {Cond(f, o, v) : f \in fields, o \in Operators, v \in values \cup {List(<<Number(5), Text("pro")>>)}}
Step(enabled, conds) == [enabled |-> enabled, conds |-> conds]

\* One condition of any kind; and three steps, of two conditions, of none, and off.
MCWorkflows ==
  {<<Step(TRUE, <<c>>)>> :
     c \in Conds(Fields, Scalars) \cup {d \in Conds(Compounds, Scalars) : d.value.kind # "list"}}
    \cup {<<Step(TRUE, <<c, d>>), Step(TRUE, << >>), Step(FALSE, <<c>>)>> :
            c \in {Cond(<<"payload", "plan">>, o, Number(5)) : o \in {"eq", "gt"}},
            d \in {Cond(<<"subscriber", "phone">>, o, Text("")) : o \in {"eq", "ne"}}}
=============================================================================
