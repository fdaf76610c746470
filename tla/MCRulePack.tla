------------------------------ MODULE MCRulePack ------------------------------
(***************************************************************************)
(* One rule that counts native file events, one that looks at commands and *)
(* one that counts violations, one retired identifier, and the texts an    *)
(* author may try.                                                         *)
(***************************************************************************)
EXTENDS RulePack, RuleLogic

MCFieldsAsked(query) == FieldsOf(Parse(query))

T(v) == [kind |-> "bare", value |-> v]
K(k) == [kind |-> k, value |-> k]

Fields == {"action", "cmd", "entity"}

\* action : tool and ( cmd : sudo or cmd : doas )
SudoQuery == <<T("action"), K(":"), T("tool"), K("and"), K("("), T("cmd"), K(":"), T("sudo"),
               K("or"), T("cmd"), K(":"), T("doas"), K(")")>>
FileQuery == <<T("action"), K(":"), T("change"), K("and"), T("entity"), K(":"), T("*")>>

N == [name |-> "N", query |-> FileQuery, threshold |-> 2, tags |-> "canonical", lacks |-> "nothing"]
Q == [name |-> "Q", query |-> SudoQuery, threshold |-> 0, tags |-> "canonical", lacks |-> "nothing"]
V == [name |-> "V", query |-> <<T("action"), K(":"), T("violation")>>, threshold |-> 3,
      tags |-> "canonical", lacks |-> "nothing"]

MCSupported == <<"n1", "q1", "v1">>
MCBaseText == [n1 |-> N, q1 |-> Q, v1 |-> V]
\* A new count or none, the name of another rule, a query that misses the fixture
\* or matches everything, one that does not parse, other tags, a bad note, tags
\* without a category, a count that the fixtures of the rule do not follow.
MCOtherTexts ==
  [n1 |-> { [N EXCEPT !.threshold = 3], [N EXCEPT !.threshold = 0], [N EXCEPT !.name = "Q"] },
   v1 |-> { [V EXCEPT !.threshold = 4], [V EXCEPT !.lacks = "field"] },
   q1 |-> { [Q EXCEPT !.query = <<T("cmd"), K(":"), T("doas")>>],
            [Q EXCEPT !.query = <<T("action"), K(":"), T("tool")>>],
            [Q EXCEPT !.query = Tail(SudoQuery)],
            [Q EXCEPT !.tags = "other"],
            [Q EXCEPT !.lacks = "note"],
            [Q EXCEPT !.lacks = "tag"] }]

Alert(r, text, updated) == [rule |-> r, claims |-> r, text |-> text, updated |-> updated]
MCExports ==
  { << Alert("q1", [Q EXCEPT !.name = "Q2"], 2), Alert("n1", N, 1), Alert("q1", Q, 1),
       Alert("v1", V, 1) >>,
    << Alert("n1", N, 1) >>,
    << Alert("n1", N, 1), [Alert("q1", Q, 1) EXCEPT !.claims = "n1"], Alert("v1", V, 1) >> }

Event(a, c, e) == [action |-> a, cmd |-> c, entity |-> e]
MCBaseEvent == Event({"tool"}, {"echo"}, {"p"})
Violation == Event({"violation"}, {}, {"p"})
MCTriggerEvent == [n1 |-> Event({"change"}, {}, {"p"})]
MCFixedFixtures ==
  [q1 |-> [malicious |-> <<Event({"tool"}, {"sudo"}, {"p"})>>, benign |-> <<MCBaseEvent>>],
   v1 |-> [malicious |-> <<Violation, Violation, Violation>>, benign |-> <<Violation, Violation>>]]
MCCustomTypes == [cmd |-> "keyword"]
MCRequiredClasses == [q1 |-> {"sudo", "doas"}]
MCBaseCorpora == [n1 |-> <<"loop", "batch">>, q1 |-> <<"sudo", "doas">>, v1 |-> <<"spread", "burst", "burst">>]

-----------------------------------------------------------------------------
(* The algorithms of RuleLogic against what they should mean. *)

Cond(f, v) == <<"condition", f, v>>
Leaves == {Cond("action", {"tool"}), Cond("cmd", {"*"}), Cond("cmd", {"sudo", "doas"})}
Grown(S) == S \cup {<<"not", a>> : a \in S}
              \cup {<<op, a, b>> : op \in {"and", "or"}, a \in S, b \in S}
Queries == Grown(Grown(Leaves))

ValueTokens(v) ==
  IF Cardinality(v) = 1 THEN <<T(CHOOSE x \in v : TRUE)>>
  ELSE <<K("("), T("sudo"), K("or"), T("doas"), K(")")>>

RECURSIVE Write(_)
\* A query written out, every operand in parentheses.
Write(q) ==
  LET arg(a) == <<K("(")>> \o Write(a) \o <<K(")")>>
  IN  CASE q[1] = "condition" -> <<T(q[2]), K(":")>> \o ValueTokens(q[3])
        [] q[1] = "not"       -> <<K("not")>> \o arg(q[2])
        [] OTHER              -> arg(q[2]) \o <<K(q[1])>> \o arg(q[3])

RECURSIVE Terse(_)
\* The same with the parentheses that precedence asks for only.
Terse(q) ==
  LET tight(a, ops) == IF a[1] \in ops THEN <<K("(")>> \o Terse(a) \o <<K(")")>> ELSE Terse(a)
  IN  CASE q[1] = "condition" -> <<T(q[2]), K(":")>> \o ValueTokens(q[3])
        [] q[1] = "not"       -> <<K("not")>> \o tight(q[2], {"and", "or"})
        [] q[1] = "and"       -> tight(q[2], {"or"}) \o <<K("and")>> \o tight(q[3], {"and", "or"})
        [] q[1] = "or"        -> Terse(q[2]) \o <<K("or")>> \o tight(q[3], {"or"})

\* Parsing inverts writing, so precedence and association are the usual ones;
\* what is left over, or missing, does not parse.
ASSUME ParserIsRight ==
  \A q \in Queries :
    /\ Parses(Write(q)) /\ Parse(Write(q)) = q
    /\ Parses(Terse(q)) /\ Parse(Terse(q)) = q
    /\ ~Parses(Front(Terse(q)))
    /\ ~Parses(Append(Terse(q), K(")")))

\* A sequence rule: within maxspan it means what it says.
Sequence(span) == [kind |-> "eql", join |-> "entity", maxspan |-> span,
                   stages |-> <<Cond("action", {"tool"}), Cond("cmd", {"*"}), Cond("cmd", {"sudo"})>>]
Timed(a, c, e, t) == [action |-> a, cmd |-> c, entity |-> e, time |-> t]
Moments == {Timed(a, c, e, 0) : a \in {{}, {"tool"}}, c \in {{}, {"sudo"}}, e \in {{"p"}, {"q"}}}
Histories == [1..4 -> Moments]
Means(events, logic) ==
  \E i, j, k \in DOMAIN events :
    /\ i < j /\ j < k
    /\ EvaluateKql(logic.stages[1], events[i])
    /\ EvaluateKql(logic.stages[2], events[j]) /\ EvaluateKql(logic.stages[3], events[k])
    /\ events[i].entity = events[j].entity /\ events[j].entity = events[k].entity

ASSUME SequencesAreRight ==
  \A h \in Histories : FixtureMatches(Sequence(1), h) = Means(h, Sequence(1))

\* An event that is later than maxspan still ends a sequence, when it is the
\* first to follow.
ASSUME LateEventsCount ==
  LET at(a, c, t) == Timed(a, c, {"p"}, t)
  IN  FixtureMatches(Sequence(1), <<at({"tool"}, {}, 0), at({}, {"sudo"}, 5), at({}, {"sudo"}, 6)>>)
===============================================================================
