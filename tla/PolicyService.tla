---------------------------- MODULE PolicyService ----------------------------
(***************************************************************************)
(* A long-running service around one policy decision point: it registers   *)
(* adapter capabilities, activates bundles, upwards or by a verified       *)
(* rollback, classifies and decides requests, and keeps what it decided    *)
(* (policy/evaluator.py, capability/service.py, runtime.py).               *)
(***************************************************************************)
EXTENDS PolicyDecision, FiniteSets

CONSTANTS
  Offered,       \* capabilities that are registered
  None,
  MaxGeneration, \* bound: registrations that change something
  MaxHeard       \* bound: different requests under one version and sequence

ASSUME ServiceAssumption ==
  /\ Offered \subseteq Capabilities
  /\ None \notin Bundles /\ None \notin Requests
  /\ MaxGeneration \in Nat /\ MaxHeard \in Nat

VARIABLES
  bundle,      \* runtime.bundle: what requests are classified by
  pdp,         \* pdp.bundle: what they are decided by
  registry,    \* per adapter: its capability, or None
  generation,
  seen,        \* the generation the cache was made under
  cache,       \* decisions by [payload, version, capability]
  asked,       \* the request that was just answered, or None
  answer,      \* what was said of it, or None
  heard        \* history: what was asked while this version and sequence is active

vars == <<bundle, pdp, registry, generation, seen, cache, asked, answer, heard>>

\* A request, how it was classified, and the bundle that was active.
Hearings == [request : Requests, marked : BOOLEAN, by : Bundles]

Decisions ==
  [ effect : Effects, bundle : {b.id : b \in Bundles}, seq : Nat \ {0},
    effective : SUBSET Obligations,
    guarantee : {"unavailable", "degraded", "deterministic_pre_execution", "cooperative"} ]

KeysOf == [payload : Payloads, version : Nat, capability : Capabilities]

TypeOK ==
  /\ bundle \in Bundles /\ pdp \in Bundles
  /\ registry \in [Adapters -> Capabilities \cup {None}]
  /\ \A a \in Adapters : registry[a] # None => registry[a].adapter = a
  /\ generation \in 0..MaxGeneration
  /\ seen \in 0..generation
  /\ \A k \in DOMAIN cache : k \in KeysOf /\ cache[k] \in Decisions
  /\ asked \in Requests \cup {None}
  /\ IF asked = None THEN answer = None ELSE answer \in Decisions
  /\ heard \subseteq Hearings

Empty == [k \in {} |-> None]

Init ==
  /\ bundle \in Bundles
  /\ pdp = bundle
  /\ registry = [a \in Adapters |-> None]
  /\ generation = 0 /\ seen = 0
  /\ cache = Empty
  /\ asked = None /\ answer = None
  /\ heard = {}

NothingAsked == asked' = None /\ answer' = None

Changes(c) == registry[c.adapter] # c

Register(c) ==
  /\ Changes(c) => generation < MaxGeneration
  /\ registry' = [registry EXCEPT ![c.adapter] = c]
  /\ generation' = IF Changes(c) THEN generation + 1 ELSE generation
  /\ NothingAsked
  /\ UNCHANGED <<bundle, pdp, seen, cache, heard>>

\* Fault: only the version of a bundle tells whether it is another one.
KeptBySameVersion(b) == IF b.version = pdp.version THEN cache ELSE Empty

Kept(b) == IF b.version = pdp.version /\ b.seq = pdp.seq THEN cache ELSE Empty

StillHeard(b) == IF <<b.version, b.seq>> = <<pdp.version, pdp.seq>> THEN heard ELSE {}

\* runtime.activate: upwards, in the decision point and in the runtime.
Activate(b) ==
  /\ b.seq >= pdp.seq
  /\ cache' = Kept(b)
  /\ heard' = StillHeard(b)
  /\ pdp' = b
  /\ bundle' = b
  /\ NothingAsked
  /\ UNCHANGED <<registry, generation, seen>>

\* pdp.activate, as the activation callback of a distribution client calls it.
ActivateDecisionPoint(b, rollback) ==
  /\ b.seq < pdp.seq => rollback
  /\ cache' = Kept(b)
  /\ heard' = StillHeard(b)
  /\ pdp' = b
  /\ NothingAsked
  /\ UNCHANGED <<bundle, registry, generation, seen>>

Marked(r) == r.payload \in bundle.restricts

KeyOf(r) ==
  [payload |-> r.payload, version |-> pdp.version, capability |-> registry[r.adapter]]

\* What is still valid of the cache when a request comes.
ValidCache == IF seen # generation THEN Empty ELSE cache

Evaluate(r) ==
  /\ registry[r.adapter] # None
  /\ heard' = heard \cup {[request |-> r, marked |-> Marked(r), by |-> pdp]}
  /\ Cardinality(heard') <= MaxHeard
  /\ seen' = generation
  /\ asked' = r
  /\ LET key == KeyOf(r) IN
     \/ /\ key \in DOMAIN ValidCache
        /\ answer' = ValidCache[key]
        /\ cache' = ValidCache
     \/ /\ key \notin DOMAIN ValidCache
        /\ answer' = Decision(pdp, registry[r.adapter], r, Marked(r))
        /\ cache' = [k \in DOMAIN ValidCache \cup {key} |->
                       IF k = key THEN answer' ELSE ValidCache[k]]
  /\ UNCHANGED <<bundle, pdp, registry, generation>>

\* An adapter that never registered has no capability: KeyError.
EvaluateUnknown(r) ==
  /\ registry[r.adapter] = None
  /\ seen' = generation
  /\ cache' = ValidCache
  /\ NothingAsked
  /\ UNCHANGED <<bundle, pdp, registry, generation, heard>>

Next ==
  \/ \E c \in Offered : Register(c)
  \/ \E b \in Bundles :
       \/ Activate(b)
       \/ \E rollback \in BOOLEAN : ActivateDecisionPoint(b, rollback)
  \/ \E r \in Requests : Evaluate(r) \/ EvaluateUnknown(r)

Spec == Init /\ [][Next]_vars

(***************************************************************************)
(* Properties                                                              *)
(***************************************************************************)
Answered == asked # None

Capability == registry[asked.adapter]

MarkedNow == asked.payload \in pdp.restricts

\* What has been asked of this payload through this adapter, by whichever
\* agents, under the active version and sequence: this request, and perhaps
\* others before it.
HeardOf(r) == {h \in heard : h.request.payload = r.payload /\ h.request.adapter = r.adapter}

\* They all came from this agent, and were classified and decided by the bundle
\* that is active now.
Undisputed(r) ==
  \A h \in HeardOf(r) :
    h.request.agent = r.agent /\ h.marked = MarkedNow /\ h.by = pdp

\* "Capability generation or policy activation invalidates the cache"
\* (ARCHITECTURE.md): what is answered is what the bundle that is active now
\* says of this request, by its own classification, to the adapter as it is
\* registered now, whatever was activated and registered since it was cached.
\* The cache's key has the version, the payload and the capability: where another
\* agent has asked the same, or another bundle's metadata classified it or
\* another bundle of this version and sequence decided it, the answer may be theirs.
AnswersAreCurrent ==
  Answered /\ Undisputed(asked) => answer = Decision(pdp, Capability, asked, MarkedNow)

\* What a rule denies to everybody who asked it is denied: no rule of another
\* effect, however high its priority, and no decision made under another version
\* or sequence hides the rule.
DenialsHold ==
  Answered /\ (\A h \in HeardOf(asked) :
                 \E rule \in Matching(h.by, h.request, h.marked) : rule.effect = "DENY")
    => answer.effect = "DENY"

\* "deny-first conflict resolution" (evaluator.py:1) for every request: a rule of
\* the active bundle that denies this agent is answered by nothing but a denial.
DenyWins ==
  Answered /\ (\E rule \in Matching(pdp, asked, MarkedNow) : rule.effect = "DENY")
    => answer.effect = "DENY"

\* What is not denied is what its adapter can do, as the rule asks that won when
\* it was decided: "never released on ... unavailable required obligation"
\* (ARCHITECTURE.md). An adapter that does not mediate the tool releases nothing
\* where the deployment restricts; where it only observes, nothing is allowed,
\* though it may be monitored (LIMITATIONS.md: "stays in monitor/observe mode or
\* fails closed").
AnswersAreEnforceable ==
  Answered =>
    /\ answer.effect = "REQUIRE_APPROVAL" => "approval" \in Capability.supports
    /\ ~Mediated(Capability, asked) => answer.effect # "ALLOW"
    /\ \E h \in HeardOf(asked) :
         /\ answer.effect # "DENY" =>
              \A o \in Proposed(h.by, h.request, h.marked).obligations \ Optional :
                Needs[o] \in Capability.supports
         /\ ~Mediated(Capability, asked) /\ h.by.mode \in {"restrict", "strict"} =>
              answer.effect = "DENY"
=============================================================================
