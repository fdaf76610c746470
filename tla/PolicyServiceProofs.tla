-------------------------- MODULE PolicyServiceProofs --------------------------
(***************************************************************************)
(* What the answers of the decision point are, for any bundles, adapters   *)
(* and requests.                                                           *)
(*                                                                         *)
(* Nothing is assumed of them.  Behind whatever is cached or answered there *)
(* is one hearing of this payload through this adapter, under the active   *)
(* version and sequence: what was decided then, by the bundle that was     *)
(* active and of the agent that asked, is what is said now.                *)
(***************************************************************************)
EXTENDS PolicyService, TLAPS

-----------------------------------------------------------------------------
(* One decision. *)

LEMMA WinnerIsFirst ==
  ASSUME NEW b \in Bundles, NEW some \in SUBSET b.rules, some # {}
  PROVE  Winner(some) \in some /\ \A y \in some : Before(Winner(some), y)
<1>1. \E x \in some : \A y \in some : Before(x, y)
  BY BundlesAssumption
<1> QED
  BY <1>1 DEF Winner

LEMMA ProposedType ==
  ASSUME NEW b \in Bundles, NEW r \in Requests, NEW marked \in BOOLEAN
  PROVE  /\ Proposed(b, r, marked).effect \in Effects
         /\ Proposed(b, r, marked).obligations \subseteq Obligations
<1> DEFINE matching == Matching(b, r, marked)
<1>1. matching \in SUBSET b.rules /\ b.rules \subseteq Rules /\ b.default \in Effects
  BY BundlesAssumption DEF Matching
<1>2. CASE matching = {}
  BY <1>1, <1>2 DEF Proposed, Effects
<1>3. CASE matching # {}
  <2>1. Winner(matching) \in Rules
    BY <1>1, <1>3, WinnerIsFirst
  <2> QED
    BY <1>3, <2>1 DEF Proposed, Rules
<1> QED
  BY <1>2, <1>3

\* A rule that matches and denies wins over every rule that does not.
LEMMA DenyIsProposed ==
  ASSUME NEW b \in Bundles, NEW r \in Requests, NEW marked \in BOOLEAN,
         NEW rule \in Matching(b, r, marked), rule.effect = "DENY"
  PROVE  Proposed(b, r, marked).effect = "DENY"
<1> DEFINE matching == Matching(b, r, marked)
<1>1. matching \in SUBSET b.rules /\ matching # {} /\ matching \subseteq Rules
  BY BundlesAssumption DEF Matching
<1>2. Winner(matching) \in matching /\ Before(Winner(matching), rule)
  BY <1>1, WinnerIsFirst
<1>3. Winner(matching).effect = "DENY"
  BY <1>1, <1>2 DEF Before, Rank, Rules, Effects
<1> QED
  BY <1>1, <1>3 DEF Proposed

LEMMA EffectOfDecision ==
  ASSUME NEW b \in Bundles, NEW c \in Capabilities, NEW r \in Requests,
         NEW marked \in BOOLEAN
  PROVE  LET proposed == Proposed(b, r, marked)
             effect   == Decision(b, c, r, marked).effect
         IN  /\ effect \in Effects
             /\ proposed.effect = "DENY" => effect = "DENY"
             /\ effect # "DENY" => Unavailable(c, proposed.obligations) = {}
             /\ effect = "REQUIRE_APPROVAL" => "approval" \in c.supports
             /\ ~Mediated(c, r) =>
                  IF b.mode \in {"restrict", "strict"}
                  THEN effect = "DENY"
                  ELSE effect # "ALLOW"
<1>1. Proposed(b, r, marked).effect \in Effects
  BY ProposedType
<1> QED
  BY <1>1 DEF Decision, WithGap, Effects

LEMMA DecisionType ==
  ASSUME NEW b \in Bundles, NEW c \in Capabilities, NEW r \in Requests,
         NEW marked \in BOOLEAN
  PROVE  Decision(b, c, r, marked) \in Decisions
<1>1. Decision(b, c, r, marked).effect \in Effects
  BY EffectOfDecision
<1>2. Decision(b, c, r, marked).effective \in SUBSET Obligations
  BY ProposedType DEF Decision, Effective
<1>3. /\ Decision(b, c, r, marked).guarantee \in
           {"unavailable", "degraded", "deterministic_pre_execution", "cooperative"}
      /\ Decision(b, c, r, marked).bundle \in {d.id : d \in Bundles}
      /\ Decision(b, c, r, marked).seq \in Nat \ {0}
  BY BundlesAssumption DEF Decision, Guarantee
<1> QED
  BY <1>1, <1>2, <1>3 DEF Decision, Decisions

-----------------------------------------------------------------------------
(* The invariant. *)

\* Somebody was heard of what k stands for, and v is what was decided.
Backed(p, hearings, k, v) ==
  /\ k.version = p.version
  /\ \E h \in hearings :
       /\ h.request.payload = k.payload /\ h.request.adapter = k.capability.adapter
       /\ v = Decision(h.by, k.capability, h.request, h.marked)

PInv ==
  /\ TypeOK
  /\ \A k \in DOMAIN cache : Backed(pdp, heard, k, cache[k])
  /\ Answered =>
       /\ registry[asked.adapter] # None
       /\ Backed(pdp, heard, KeyOf(asked), answer)

LEMMA InitInv == Init => PInv
<1> SUFFICES ASSUME Init PROVE PInv
  OBVIOUS
<1>1. TypeOK
  BY ServiceAssumption DEF Init, TypeOK, Empty
<1>2. \A k \in DOMAIN cache : Backed(pdp, heard, k, cache[k])
  BY DEF Init, Empty
<1> QED
  BY <1>1, <1>2 DEF PInv, Init, Answered

LEMMA RegisterInv ==
  ASSUME PInv, NEW c \in Offered, Register(c)
  PROVE  PInv'
<1>1. c \in Capabilities /\ c.adapter \in Adapters
  BY ServiceAssumption DEF Capabilities
<1>2. TypeOK'
  BY <1>1, ServiceAssumption DEF PInv, TypeOK, Register, NothingAsked
<1> QED
  BY <1>2 DEF PInv, Register, NothingAsked, Answered, Backed

\* Only a bundle of the same version and sequence finds the cache as it was, and
\* then it also finds who was heard.
LEMMA ActivateInv ==
  ASSUME PInv, NEW b \in Bundles, cache' = Kept(b), heard' = StillHeard(b), pdp' = b,
         NothingAsked, bundle' \in Bundles, UNCHANGED <<registry, generation, seen>>
  PROVE  PInv'
<1>1. \A k \in DOMAIN cache' :
        /\ k \in DOMAIN cache /\ cache'[k] = cache[k]
        /\ b.version = pdp.version /\ heard' = heard
  BY DEF Kept, StillHeard, Empty
<1>2. TypeOK'
  BY <1>1 DEF PInv, TypeOK, NothingAsked, StillHeard
<1>3. \A k \in DOMAIN cache' : Backed(pdp', heard', k, cache'[k])
  BY <1>1 DEF PInv, Backed
<1> QED
  BY <1>2, <1>3 DEF PInv, NothingAsked, Answered

LEMMA StillValid ==
  ASSUME PInv, NEW k \in DOMAIN ValidCache
  PROVE  k \in KeysOf /\ ValidCache[k] \in Decisions /\ Backed(pdp, heard, k, ValidCache[k])
  BY DEF PInv, TypeOK, ValidCache, Empty

LEMMA EvaluateInv ==
  ASSUME PInv, NEW r \in Requests, Evaluate(r)
  PROVE  PInv'
<1> DEFINE key  == KeyOf(r)
           c    == registry[r.adapter]
           said == Decision(pdp, c, r, Marked(r))
           h    == [request |-> r, marked |-> Marked(r), by |-> pdp]
<1>1. r.adapter \in Adapters /\ r.agent \in Agents /\ r.payload \in Payloads
  BY DEF Requests
<1>2. /\ c # None /\ c \in Capabilities /\ c.adapter = r.adapter
      /\ pdp \in Bundles /\ bundle \in Bundles /\ Marked(r) \in BOOLEAN
  BY <1>1 DEF Evaluate, PInv, TypeOK, Marked
<1>3. key \in KeysOf
  BY <1>1, <1>2, BundlesAssumption DEF KeyOf, KeysOf
<1>4. heard' = heard \cup {h} /\ h \in Hearings /\ pdp' = pdp
  BY <1>2 DEF Evaluate, Hearings
<1>5. said \in Decisions
  BY <1>2, DecisionType
<1>6. key.version = pdp.version /\ key.payload = r.payload /\ key.capability = c
  BY DEF KeyOf
<1>7. \A k, v : Backed(pdp, heard, k, v) => Backed(pdp', heard', k, v)
  BY <1>4 DEF Backed
<1>8. Backed(pdp', heard', key, said)
  <2>1. /\ h \in heard' /\ h.request = r /\ h.marked = Marked(r) /\ h.by = pdp
    BY <1>4
  <2>2. said = Decision(h.by, key.capability, h.request, h.marked)
    BY <1>6
  <2>3. h.request.payload = key.payload /\ h.request.adapter = key.capability.adapter
    BY <1>2, <1>6
  <2> HIDE DEF h, said, key
  <2> QED
    BY <1>4, <1>6, <2>1, <2>2, <2>3 DEF Backed
<1>9. /\ answer' \in Decisions /\ Backed(pdp', heard', key, answer')
      /\ \A k \in DOMAIN cache' : \/ k = key /\ cache'[k] = answer'
                                  \/ k \in DOMAIN ValidCache /\ cache'[k] = ValidCache[k]
  <2>1. CASE key \in DOMAIN ValidCache
    <3>1. answer' = ValidCache[key] /\ cache' = ValidCache
      BY <2>1 DEF Evaluate
    <3>2. ValidCache[key] \in Decisions /\ Backed(pdp', heard', key, ValidCache[key])
      BY <1>7, <2>1, StillValid
    <3> QED
      BY <3>1, <3>2 DEF Backed
  <2>2. CASE key \notin DOMAIN ValidCache
    <3>1. /\ answer' = said
          /\ cache' = [k \in DOMAIN ValidCache \cup {key} |->
                         IF k = key THEN answer' ELSE ValidCache[k]]
      BY <2>2 DEF Evaluate
    <3> QED
      BY <1>5, <1>8, <3>1 DEF Backed
  <2> QED
    BY <2>1, <2>2
<1>10. /\ asked' = r /\ seen' = generation
       /\ UNCHANGED <<bundle, pdp, registry, generation>>
  BY DEF Evaluate
<1>11. \A k \in DOMAIN cache' :
         k \in KeysOf /\ cache'[k] \in Decisions /\ Backed(pdp', heard', k, cache'[k])
  BY <1>3, <1>7, <1>9, StillValid DEF Backed
<1>12. TypeOK'
  <2>1. asked' \in Requests \cup {None} /\ asked' # None
    BY <1>10, ServiceAssumption
  <2> QED
    BY <1>4, <1>9, <1>10, <1>11, <2>1 DEF PInv, TypeOK
<1>13. KeyOf(asked)' = key
  BY <1>10 DEF KeyOf
<1> QED
  BY <1>2, <1>9, <1>10, <1>11, <1>12, <1>13 DEF PInv, Backed

LEMMA EvaluateUnknownInv ==
  ASSUME PInv, NEW r \in Requests, EvaluateUnknown(r)
  PROVE  PInv'
<1>1. cache' = ValidCache /\ NothingAsked /\ seen' = generation
      /\ UNCHANGED <<bundle, pdp, registry, generation, heard>>
  BY DEF EvaluateUnknown
<1>2. TypeOK'
  BY <1>1, StillValid DEF PInv, TypeOK, NothingAsked
<1>3. \A k \in DOMAIN cache' : Backed(pdp', heard', k, cache'[k])
  BY <1>1, StillValid DEF Backed, EvaluateUnknown
<1> QED
  BY <1>1, <1>2, <1>3 DEF PInv, NothingAsked, Answered

\* Whatever is cached or answered was decided of somebody who was heard.
THEOREM Invariance == Spec => []PInv
<1>1. Init => PInv
  BY InitInv
<1>2. PInv /\ [Next]_vars => PInv'
  <2> SUFFICES ASSUME PInv, [Next]_vars PROVE PInv'
    OBVIOUS
  <2>1. CASE \E c \in Offered : Register(c)
    BY <2>1, RegisterInv
  <2>2. CASE \E b \in Bundles : Activate(b)
    BY <2>2, ActivateInv DEF Activate
  <2>3. CASE \E b \in Bundles, rollback \in BOOLEAN : ActivateDecisionPoint(b, rollback)
    <3>1. bundle \in Bundles
      BY DEF PInv, TypeOK
    <3> QED
      BY <2>3, <3>1, ActivateInv DEF ActivateDecisionPoint
  <2>4. CASE \E r \in Requests : Evaluate(r) \/ EvaluateUnknown(r)
    BY <2>4, EvaluateInv, EvaluateUnknownInv
  <2>5. CASE UNCHANGED vars
    BY <2>5 DEF vars, PInv, TypeOK, Answered, Backed, KeyOf
  <2> QED
    BY <2>1, <2>2, <2>3, <2>4, <2>5 DEF Next
<1> QED
  BY <1>1, <1>2, PTL DEF Spec

\* The state is as it is declared.
THEOREM TypeCorrect == Spec => []TypeOK
<1>1. PInv => TypeOK
  BY DEF PInv
<1> QED
  BY <1>1, Invariance, PTL

-----------------------------------------------------------------------------
(* The answers. *)

\* Behind an answer there is one hearing of the same payload and adapter.
LEMMA AnswerWasHeard ==
  ASSUME PInv, Answered
  PROVE  /\ Capability \in Capabilities /\ asked \in Requests
         /\ \E h \in HeardOf(asked) :
              /\ h.by \in Bundles /\ h.request \in Requests /\ h.marked \in BOOLEAN
              /\ h.request.payload = asked.payload /\ h.request.adapter = asked.adapter
              /\ answer = Decision(h.by, Capability, h.request, h.marked)
              /\ Mediated(Capability, h.request) <=> Mediated(Capability, asked)
<1>1. asked \in Requests /\ asked.adapter \in Adapters
  BY DEF PInv, TypeOK, Answered, Requests
<1>2. Capability \in Capabilities /\ Capability.adapter = asked.adapter
  BY <1>1 DEF PInv, TypeOK, Capability
<1>3. PICK h \in heard :
        /\ h.request.payload = asked.payload /\ h.request.adapter = Capability.adapter
        /\ answer = Decision(h.by, Capability, h.request, h.marked)
  BY DEF PInv, Backed, KeyOf, Capability
<1>4. h.by \in Bundles /\ h.request \in Requests /\ h.marked \in BOOLEAN
  BY DEF PInv, TypeOK, Hearings
<1>5. Mediated(Capability, h.request) <=> Mediated(Capability, asked)
  BY <1>3 DEF Mediated, Covered
<1> QED
  BY <1>1, <1>2, <1>3, <1>4, <1>5 DEF HeardOf

\* Where nobody else was heard of it, the answer is what the active bundle says
\* now, whatever was registered, activated, rolled back and cached before.
THEOREM CacheIsTransparent == Spec => []AnswersAreCurrent
<1>1. ASSUME PInv PROVE AnswersAreCurrent
  <2> SUFFICES ASSUME Answered, Undisputed(asked)
               PROVE  answer = Decision(pdp, Capability, asked, MarkedNow)
    BY DEF AnswersAreCurrent
  <2>1. PICK h \in HeardOf(asked) :
          /\ h.request \in Requests /\ asked \in Requests
          /\ h.request.payload = asked.payload /\ h.request.adapter = asked.adapter
          /\ answer = Decision(h.by, Capability, h.request, h.marked)
    BY <1>1, AnswerWasHeard
  <2>2. h.request.agent = asked.agent /\ h.marked = MarkedNow /\ h.by = pdp
    BY DEF Undisputed
  <2>3. h.request = asked
    BY <2>1, <2>2 DEF Requests
  <2> QED
    BY <2>1, <2>2, <2>3
<1> QED
  BY <1>1, Invariance, PTL

\* What is denied to everybody who asked it is denied, by the cache as well.
THEOREM DenialsWin == Spec => []DenialsHold
<1>1. ASSUME PInv PROVE DenialsHold
  <2> SUFFICES ASSUME Answered,
                      \A h \in HeardOf(asked) :
                        \E rule \in Matching(h.by, h.request, h.marked) : rule.effect = "DENY"
               PROVE  answer.effect = "DENY"
    BY DEF DenialsHold
  <2>1. PICK h \in HeardOf(asked) :
          /\ h.by \in Bundles /\ h.request \in Requests /\ h.marked \in BOOLEAN
          /\ answer = Decision(h.by, Capability, h.request, h.marked)
    BY <1>1, AnswerWasHeard
  <2>2. Proposed(h.by, h.request, h.marked).effect = "DENY"
    BY <2>1, DenyIsProposed
  <2> QED
    BY <1>1, <2>1, <2>2, AnswerWasHeard, EffectOfDecision
<1> QED
  BY <1>1, Invariance, PTL

\* What is not denied, the adapter can do as the rule asks that won.
THEOREM OnlyTheEnforceable == Spec => []AnswersAreEnforceable
<1>1. ASSUME PInv PROVE AnswersAreEnforceable
  <2> SUFFICES ASSUME Answered PROVE AnswersAreEnforceable
    BY DEF AnswersAreEnforceable
  <2>1. Capability \in Capabilities
    BY <1>1, AnswerWasHeard
  <2>2. PICK h \in HeardOf(asked) :
          /\ h.by \in Bundles /\ h.request \in Requests /\ h.marked \in BOOLEAN
          /\ answer = Decision(h.by, Capability, h.request, h.marked)
          /\ Mediated(Capability, h.request) <=> Mediated(Capability, asked)
    BY <1>1, AnswerWasHeard
  <2> DEFINE obligations == Proposed(h.by, h.request, h.marked).obligations
         said == Decision(h.by, Capability, h.request, h.marked).effect
  <2>3. /\ said # "DENY" => Unavailable(Capability, obligations) = {}
        /\ said = "REQUIRE_APPROVAL" => "approval" \in Capability.supports
        /\ ~Mediated(Capability, h.request) =>
             IF h.by.mode \in {"restrict", "strict"} THEN said = "DENY" ELSE said # "ALLOW"
    <3>1. h.by \in Bundles /\ h.request \in Requests /\ h.marked \in BOOLEAN
      BY <2>2
    <3> QED
      BY <2>1, <3>1, EffectOfDecision
  <2>4. answer.effect = said
    BY <2>2
  <2> HIDE DEF said
  <2>5. ~Mediated(Capability, asked) => answer.effect # "ALLOW"
    BY <2>2, <2>3, <2>4
  <2>6. answer.effect # "DENY" =>
          \A o \in obligations \ Optional : Needs[o] \in Capability.supports
    BY <2>3, <2>4 DEF Unavailable
  <2>7. ~Mediated(Capability, asked) /\ h.by.mode \in {"restrict", "strict"} =>
          answer.effect = "DENY"
    BY <2>2, <2>3, <2>4
  <2>8. \E g \in HeardOf(asked) :
          /\ answer.effect # "DENY" =>
               \A o \in Proposed(g.by, g.request, g.marked).obligations \ Optional :
                 Needs[o] \in Capability.supports
          /\ ~Mediated(Capability, asked) /\ g.by.mode \in {"restrict", "strict"} =>
               answer.effect = "DENY"
    <3> HIDE DEF obligations
    <3>1. \A o \in Proposed(h.by, h.request, h.marked).obligations \ Optional :
            answer.effect # "DENY" => Needs[o] \in Capability.supports
      BY <2>6 DEF obligations
    <3> QED
      BY <2>7, <3>1
  <2> QED
    BY <2>3, <2>4, <2>5, <2>8 DEF AnswersAreEnforceable
<1> QED
  BY <1>1, Invariance, PTL

=============================================================================
