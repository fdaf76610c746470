------------------------------- MODULE RuleLogic -------------------------------
(***************************************************************************)
(* What the rule tooling computes about one rule and one fixture           *)
(* (detection-rules/scripts/rulelib.py): the KQL subset, parsed by         *)
(* recursive descent and evaluated on an event, and the three kinds of     *)
(* detection logic evaluated on the events of a fixture.                   *)
(*                                                                         *)
(* An event is a function from fields to the set of values it has there,   *)
(* which is empty where the field is absent; "time" is its timestamp.  A   *)
(* query is a sequence of tokens [kind, value]; quoting, letter case and   *)
(* partial wildcards are left out: "*" matches whatever is present.        *)
(***************************************************************************)
EXTENDS Sequences, FiniteSets, Naturals

\* The result of a parsing function: a node and the position after it, 0
\* where the code raises.
Fail == [node |-> <<"fail">>, at |-> 0]

Peek(ts, i, kind) == i \in DOMAIN ts /\ ts[i].kind = kind

RECURSIVE ScalarsFrom(_, _)
\* scalar { "or" scalar } ")"
ScalarsFrom(ts, i) ==
  IF ~Peek(ts, i, "bare") THEN [node |-> {}, at |-> 0]
  ELSE IF Peek(ts, i + 1, "or")
       THEN LET rest == ScalarsFrom(ts, i + 2)
            IN  [node |-> {ts[i].value} \cup rest.node, at |-> rest.at]
       ELSE [node |-> {ts[i].value}, at |-> IF Peek(ts, i + 1, ")") THEN i + 2 ELSE 0]

ParseValues(ts, i) ==
  IF Peek(ts, i, "(") THEN ScalarsFrom(ts, i + 1)
  ELSE IF Peek(ts, i, "bare") THEN [node |-> {ts[i].value}, at |-> i + 1]
  ELSE Fail

ParseCondition(ts, i) ==
  LET values == ParseValues(ts, i + 2)
  IN  IF Peek(ts, i, "bare") /\ Peek(ts, i + 1, ":") /\ values.at # 0
      THEN [node |-> <<"condition", ts[i].value, values.node>>, at |-> values.at]
      ELSE Fail

RECURSIVE ParseOr(_, _), ParseAnd(_, _), ParseUnary(_, _), OrRest(_, _), AndRest(_, _)

ParseUnary(ts, i) ==
  IF Peek(ts, i, "not")
  THEN LET arg == ParseUnary(ts, i + 1)
       IN  IF arg.at = 0 THEN Fail ELSE [node |-> <<"not", arg.node>>, at |-> arg.at]
  ELSE IF Peek(ts, i, "(")
  THEN LET inner == ParseOr(ts, i + 1)
       IN  IF inner.at # 0 /\ Peek(ts, inner.at, ")") THEN [inner EXCEPT !.at = @ + 1] ELSE Fail
  ELSE ParseCondition(ts, i)

\* What follows a node is joined to it from the left.
AndRest(ts, left) ==
  IF left.at # 0 /\ Peek(ts, left.at, "and")
  THEN LET right == ParseUnary(ts, left.at + 1)
       IN  IF right.at = 0 THEN Fail
           ELSE AndRest(ts, [node |-> <<"and", left.node, right.node>>, at |-> right.at])
  ELSE left

OrRest(ts, left) ==
  IF left.at # 0 /\ Peek(ts, left.at, "or")
  THEN LET right == ParseAnd(ts, left.at + 1)
       IN  IF right.at = 0 THEN Fail
           ELSE OrRest(ts, [node |-> <<"or", left.node, right.node>>, at |-> right.at])
  ELSE left

ParseAnd(ts, i) == AndRest(ts, ParseUnary(ts, i))
ParseOr(ts, i) == OrRest(ts, ParseAnd(ts, i))

\* parse_kql; a query that does not parse raises.
Parses(ts) == ParseOr(ts, 1).at = Len(ts) + 1
Parse(ts) == ParseOr(ts, 1).node

-----------------------------------------------------------------------------
RECURSIVE FieldsOf(_)
FieldsOf(node) ==
  CASE node[1] = "condition" -> {node[2]}
    [] node[1] = "not"       -> FieldsOf(node[2])
    [] OTHER                 -> FieldsOf(node[2]) \cup FieldsOf(node[3])

MatchValue(actual, expected) == IF expected = "*" THEN actual # {} ELSE expected \in actual

RECURSIVE EvaluateKql(_, _)
EvaluateKql(node, event) ==
  CASE node[1] = "and" -> EvaluateKql(node[2], event) /\ EvaluateKql(node[3], event)
    [] node[1] = "or"  -> EvaluateKql(node[2], event) \/ EvaluateKql(node[3], event)
    [] node[1] = "not" -> ~EvaluateKql(node[2], event)
    [] OTHER           -> \E v \in node[3] : MatchValue(event[node[2]], v)

\* Threshold logic: enough selected events that agree on the fields.
ThresholdMet(events, node, fields, minimum) ==
  LET selected == { i \in DOMAIN events : EvaluateKql(node, events[i]) }
      like(i)  == { j \in selected : \A f \in fields : events[i][f] = events[j][f] }
  IN  \E i \in selected : Cardinality(like(i)) >= minimum

\* Sequence logic, over events in time order: the search for a stage stops at
\* the first event that matches it, or that is later than maxspan; the event
\* it stopped at is taken if it matches, late or not.
RECURSIVE StagesFollow(_, _, _, _, _, _)
StagesFollow(events, stages, k, cursor, start, logic) ==
  IF k > Len(stages) THEN TRUE
  ELSE LET matches(j) == /\ events[j][logic.join] = events[start][logic.join]
                         /\ EvaluateKql(stages[k], events[j])
           late(j)    == events[j].time - events[start].time > logic.maxspan
           stops      == { j \in cursor..Len(events) : matches(j) \/ late(j) }
       IN  IF stops = {} THEN FALSE
           ELSE LET j == CHOOSE j \in stops : \A m \in stops : j <= m
                IN  matches(j) /\ StagesFollow(events, stages, k + 1, j + 1, start, logic)

SequenceMet(events, logic) ==
  \E start \in DOMAIN events :
    /\ EvaluateKql(logic.stages[1], events[start])
    /\ StagesFollow(events, logic.stages, 2, start + 1, start, logic)

\* evaluate_fixture.
FixtureMatches(logic, events) ==
  CASE logic.kind = "query"     -> \E i \in DOMAIN events : EvaluateKql(Parse(logic.query), events[i])
    [] logic.kind = "threshold" -> ThresholdMet(events, Parse(logic.query), logic.fields, logic.minimum)
    [] logic.kind = "eql"       -> SequenceMet(events, logic)
=============================================================================
