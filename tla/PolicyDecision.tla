---------------------------- MODULE PolicyDecision ----------------------------
(***************************************************************************)
(* What a policy bundle says of a tool request, given the capability of    *)
(* the adapter that asks (policy/evaluator.py, capability/service.py), as  *)
(* values: matching, deny-first conflict resolution, obligations and the   *)
(* capability gap.                                                         *)
(*                                                                         *)
(* A payload is what payload_hash covers, the class of the tool with it.   *)
(* The classification of a request by a bundle's metadata is whether it    *)
(* restricts the payload's path; a rule may ask for that.                  *)
(***************************************************************************)
EXTENDS Integers

CONSTANTS
  Payloads,
  ToolClass,    \* [Payloads -> ToolClasses]
  ToolClasses,
  Agents,
  Adapters,
  Bundles

Effects == {"DENY", "REQUIRE_APPROVAL", "MONITOR", "ALLOW"}

Modes == {"observe", "monitor", "restrict", "strict"}

\* The obligations a policy may ask for, and what an adapter must support.
Needs ==
  [ AUDIT_FULL                   |-> "telemetry_export",
    AUDIT_METADATA_ONLY          |-> "telemetry_export",
    REDACT_ARGUMENTS             |-> "argument_redaction",
    REDACT_RESULT                |-> "result_redaction",
    CAPTURE_ARGUMENT_HASH        |-> "hashing",
    REQUIRE_EXECUTION_RECEIPT    |-> "post_execution",
    REQUIRE_APPROVAL_RECEIPT     |-> "approval",
    REQUIRE_JUSTIFICATION        |-> "justification",
    TERMINATE_SESSION_ON_FAILURE |-> "session_termination",
    EMIT_HIGH_SEVERITY_ALERT     |-> "telemetry_export",
    NOTIFY_SECURITY              |-> "notification" ]

Obligations == DOMAIN Needs

\* IGNORE_OPTIONAL_OBLIGATION, and not mandatory.
Optional == {"CAPTURE_ARGUMENT_HASH"}

Fields == {Needs[o] : o \in Obligations} \cup {"pre_execution", "blocking"}

Capabilities == [adapter : Adapters, covers : SUBSET ToolClasses, supports : SUBSET Fields]

Requests == [adapter : Adapters, agent : Agents, payload : Payloads]

\* An adapter's capability fingerprint is a hash of all of it: the record.
Rules ==
  [ id : Nat, effect : Effects, priority : Int,
    agents : SUBSET Agents, classes : SUBSET ToolClasses, restricted : BOOLEAN,
    obligations : SUBSET Obligations ]

\* x is sorted before y: by effect, by priority downwards, by identity.
Rank == [DENY |-> 0, REQUIRE_APPROVAL |-> 1, MONITOR |-> 2, ALLOW |-> 3]

\* Fault: the priority goes before the effect.
PriorityBefore(x, y) ==
  \/ x.priority > y.priority
  \/ x.priority = y.priority /\ Rank[x.effect] < Rank[y.effect]
  \/ x.priority = y.priority /\ x.effect = y.effect /\ x.id <= y.id

Before(x, y) ==
  \/ Rank[x.effect] < Rank[y.effect]
  \/ x.effect = y.effect /\ x.priority > y.priority
  \/ x.effect = y.effect /\ x.priority = y.priority /\ x.id <= y.id

ASSUME BundlesAssumption ==
  /\ ToolClass \in [Payloads -> ToolClasses]
  /\ \A b \in Bundles :
       /\ b.version \in Nat /\ b.seq \in Nat \ {0}
       /\ b.mode \in Modes /\ b.default \in Effects
       /\ b.mode = "strict" => b.default = "DENY"
       /\ b.restricts \subseteq Payloads
       /\ b.rules \subseteq Rules
       \* A bundle has finitely many rules, and two have two identities: every
       \* selection of them has a first.
       /\ \A some \in SUBSET b.rules :
            some # {} => \E x \in some : \A y \in some : Before(x, y)

(***************************************************************************)
(* Matching                                                                *)
(***************************************************************************)
Applies(rule, r, marked) ==
  /\ r.agent \in rule.agents
  /\ ToolClass[r.payload] \in rule.classes
  /\ rule.restricted => marked

Matching(b, r, marked) == {rule \in b.rules : Applies(rule, r, marked)}

Winner(matching) == CHOOSE x \in matching : \A y \in matching : Before(x, y)

\* Without a match, the default of the bundle (which strict fixes to DENY).
Proposed(b, r, marked) ==
  LET matching == Matching(b, r, marked) IN
  IF matching # {}
  THEN [effect |-> Winner(matching).effect, obligations |-> Winner(matching).obligations]
  ELSE [effect |-> IF b.mode = "strict" THEN "DENY" ELSE b.default, obligations |-> {}]

(***************************************************************************)
(* Capability                                                              *)
(***************************************************************************)
Covered(c, r) == ToolClass[r.payload] \in c.covers

Effective(c, obligations) == {o \in obligations : Needs[o] \in c.supports}

Unavailable(c, obligations) == {o \in obligations \ Optional : Needs[o] \notin c.supports}

\* Covered, and asked before the tool runs.
Mediated(c, r) == Covered(c, r) /\ "pre_execution" \in c.supports

Guarantee(c, r, obligations) ==
  IF ~Mediated(c, r) THEN "unavailable"
  ELSE IF Unavailable(c, obligations) # {} THEN "degraded"
  ELSE IF "blocking" \in c.supports THEN "deterministic_pre_execution"
  ELSE "cooperative"

\* Fault: a gap is only ever a reason to monitor.
GapMonitors(b, c, r, effect) ==
  IF ~Mediated(c, r) /\ effect = "ALLOW" THEN "MONITOR" ELSE effect

WithGap(b, c, r, effect) ==
  IF Mediated(c, r) THEN effect
  ELSE IF b.mode \in {"restrict", "strict"} THEN "DENY"
  ELSE IF effect = "ALLOW" THEN "MONITOR"
  ELSE effect

\* evaluate, of an empty cache.
Decision(b, c, r, marked) ==
  LET proposed == Proposed(b, r, marked)
      bounded  == WithGap(b, c, r, proposed.effect)
      granted  == IF Unavailable(c, proposed.obligations) # {} THEN "DENY" ELSE bounded
      effect   == IF granted = "REQUIRE_APPROVAL" /\ "approval" \notin c.supports
                  THEN "DENY" ELSE granted
  IN [ effect    |-> effect,
       bundle    |-> b.id,
       seq       |-> b.seq,
       effective |-> Effective(c, proposed.obligations),
       guarantee |-> Guarantee(c, r, proposed.obligations) ]
=============================================================================
