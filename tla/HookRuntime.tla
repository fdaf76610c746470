----------------------------- MODULE HookRuntime -----------------------------
(***************************************************************************)
(* WatchMyAIRuntime.process as hook processes run it (cli/main.py          *)
(* cmd_hook, runtime.py, enforcement/pep.py), over the shared approval     *)
(* file, with an operator who grants, rejects and sweeps, policies that    *)
(* are activated while hooks run, and evidence that may become unusable.   *)
(*                                                                         *)
(* One call is one PreToolUse hook process: it loads the ACTIVE bundle,    *)
(* looks for an approval to resume, records, decides, records, holds or    *)
(* consumes, records, and answers its agent. Every record is a step, and   *)
(* so is every transaction of the approval file; calls interleave freely.  *)
(***************************************************************************)
EXTENDS ApprovalStore, Sequences

CONSTANTS
  Calls,            \* PreToolUse invocations: one process each
  ToolActions,      \* [scope, payload, target]: what the calls want to do
  PolicySequences,  \* the policy sequences ACTIVE moves through
  Verdict,          \* Verdict[s][a]: what the bundle of sequence s says of a
  EarlierHolds,     \* bindings of approvals an earlier hook may have left held
  Unknown           \* an approval_id that is nobody's

Effects == {"DENY", "REQUIRE_APPROVAL", "MONITOR", "ALLOW"}

Alerts == {"policy_violation", "obligation.high_severity_alert"}

\* An effect, whether the obligations ask for a justification, and what else
\* the runtime records of the decision.
Verdicts ==
  [ effect  : Effects,
    justify : BOOLEAN,
    alerts  : {<<>>} \cup {<<k>> : k \in Alerts} \cup
              {<<"policy_violation", "obligation.high_severity_alert">>} ]

ASSUME RuntimeAssumption ==
  /\ \A a \in ToolActions :
       a = [scope |-> a.scope, payload |-> a.payload, target |-> a.target]
  /\ PolicySequences \subseteq Nat \ {0}
  /\ Verdict \in [PolicySequences -> [ToolActions -> Verdicts]]
  /\ EarlierHolds \subseteq Bindings
  /\ Unset \notin Calls /\ Unknown \notin ApprovalIds \cup {Unset}
  /\ Unset \notin {"released", "blocked", "awaiting_approval", "allow", "deny"}

\* target_hash is taken from fields payload_hash covers (core/models.py).
ASSUME TargetAssumption ==
  \A a, b \in ToolActions : a.payload = b.payload => a.target = b.target

VARIABLES
  active,     \* sequence of the ACTIVE bundle, 0 while there is none
  stage,      \* per call: where in process() it is
  action,     \* per call: what it asks for
  seq,        \* per call: sequence of the bundle it has loaded
  resumed,    \* per call: approval_id, given or found, or Unset
  todo,       \* per call: events to record before the next stage
  pep,        \* per call: the enforcement outcome
  answer,     \* per call: what the agent is told
  error,      \* per call: the exception cmd_hook caught
  chain       \* evidence recorded: [call, kind]

callVars == <<stage, action, seq, resumed, todo, pep, answer, error>>
vars == <<approvals, clock, active, callVars, chain, refused>>

Stages == {"idle", "lookup", "decide", "hold", "enforce", "respond", "done", "dead"}

Kinds == {"tool_request", "capability.checked", "decision.created",
          "approval.requested", "approval.consumed", "approval.failed",
          "pep.enforced"} \cup Alerts

Errors == {"no_active_policy", "ambiguous_approval", "key_reused", "fault"}

TypeOK ==
  /\ IsStore(approvals)
  /\ clock \in Times
  /\ active \in PolicySequences \cup {0}
  /\ stage \in [Calls -> Stages]
  /\ action \in [Calls -> ToolActions \cup {Unset}]
  /\ seq \in [Calls -> PolicySequences \cup {0}]
  /\ resumed \in [Calls -> ApprovalIds \cup {Unset, Unknown}]
  /\ todo \in [Calls -> Seq(Kinds)]
  /\ pep \in [Calls -> {"released", "blocked", "awaiting_approval", Unset}]
  /\ answer \in [Calls -> {"allow", "deny", Unset}]
  /\ error \in [Calls -> Errors \cup {Unset}]
  /\ chain \subseteq [call : Calls, kind : Kinds]
  /\ refused \subseteq ApprovalIds

\* The idempotency key hashes the action and the policy sequence, not the
\* identifiers: retries of one action have one key. (It leaves the agent out of
\* the scope; the hooks of one session all come from one agent.)
KeyFor(a, s) == <<a, s>>

ActionIn(b) == [scope |-> b.scope, payload |-> b.payload, target |-> b.target]

\* The identifiers of a call of its own, the decision identifier being drawn
\* afresh, and those it takes over from the approval it resumes: the request,
\* action and decision it was held with; the bundle is the one it loaded.
OwnIds(c) == [f \in OptionalFields |-> IF f = "policy_bundle_id" THEN "bundle" ELSE c]

AdoptedIds(b) == [b.ids EXCEPT !["policy_bundle_id"] = "bundle"]

BindingFor(a, ids, s) ==
  [ scope |-> a.scope, payload |-> a.payload, target |-> a.target, ids |-> ids, seq |-> s ]

\* The actions an earlier hook held are tool actions under policies that were
\* active, and what hooks bind approvals to are bindings.
ASSUME BindingsAreClosed ==
  /\ \A b \in EarlierHolds : ActionIn(b) \in ToolActions /\ b.seq \in PolicySequences
  /\ \A a \in ToolActions, s \in PolicySequences :
       /\ KeyFor(a, s) \in Keys
       /\ \A c \in Calls : BindingFor(a, OwnIds(c), s) \in Bindings
       /\ \A b \in Bindings : BindingFor(a, AdoptedIds(b), s) \in Bindings

\* The file is empty, or holds what one earlier hook requested.
EarlierStores ==
  {EmptyStore} \cup
  {Put(EmptyStore, id,
       NewApproval(b, KeyFor(ActionIn(b), b.seq), Verdict[b.seq][ActionIn(b)].justify, 0)) :
     id \in ApprovalIds, b \in EarlierHolds}

Init ==
  /\ approvals \in EarlierStores
  /\ clock = 0
  /\ active \in PolicySequences \cup {0}
  /\ stage = [c \in Calls |-> "idle"]
  /\ action = [c \in Calls |-> Unset]
  /\ seq = [c \in Calls |-> 0]
  /\ resumed = [c \in Calls |-> Unset]
  /\ todo = [c \in Calls |-> <<>>]
  /\ pep = [c \in Calls |-> Unset]
  /\ answer = [c \in Calls |-> Unset]
  /\ error = [c \in Calls |-> Unset]
  /\ chain = {}
  /\ refused = {}

VerdictOn(c) == Verdict[seq[c]][action[c]]

EffectOf(c) == VerdictOn(c).effect

IdsOf(c) ==
  IF resumed[c] \in DOMAIN approvals THEN AdoptedIds(approvals[resumed[c]].bind)
  ELSE OwnIds(c)

BindingOf(c) == BindingFor(action[c], IdsOf(c), seq[c])

KeyOf(c) == KeyFor(action[c], seq[c])

At(c, s) == stage[c] = s /\ todo[c] = <<>>

Goto(c, s) == stage' = [stage EXCEPT ![c] = s]

WillRecord(c, kinds) == todo' = [todo EXCEPT ![c] = kinds]

\* cmd_hook catches every exception and denies.
Deny(c, why) ==
  /\ Goto(c, "done")
  /\ error' = [error EXCEPT ![c] = why]
  /\ answer' = [answer EXCEPT ![c] = "deny"]
  /\ todo' = [todo EXCEPT ![c] = <<>>]

(***************************************************************************)
(* One call                                                                *)
(***************************************************************************)
\* Each hook builds its runtime from the ACTIVE bundle of that moment.
Start(c, a) ==
  /\ stage[c] = "idle"
  /\ action' = [action EXCEPT ![c] = a]
  /\ \/ /\ active # 0
        /\ seq' = [seq EXCEPT ![c] = active]
        /\ Goto(c, "lookup")
        /\ UNCHANGED <<todo, answer, error>>
     \/ /\ active = 0
        /\ Deny(c, "no_active_policy")
        /\ UNCHANGED seq
  /\ UNCHANGED <<approvals, clock, active, resumed, pep, chain, refused>>

Intake == <<"tool_request", "capability.checked">>

\* WATCHMYAI_APPROVAL_ID names any approval, or none that exists; without it
\* the one approved approval of the same action is resumed, and two are an error.
Lookup(c, given) ==
  /\ At(c, "lookup")
  /\ LET found == ApprovedFor(approvals, BindingOf(c), clock) IN
     \/ /\ given # Unset \/ found = {}
        /\ resumed' = [resumed EXCEPT ![c] = given]
        /\ Goto(c, "decide") /\ WillRecord(c, Intake)
        /\ UNCHANGED <<answer, error>>
     \/ /\ given = Unset
        /\ \E id \in found : /\ found = {id}
                             /\ resumed' = [resumed EXCEPT ![c] = id]
        /\ Goto(c, "decide") /\ WillRecord(c, Intake)
        /\ UNCHANGED <<answer, error>>
     \/ /\ given = Unset
        /\ \E i, j \in found : i # j
        /\ Deny(c, "ambiguous_approval")
        /\ UNCHANGED resumed
  /\ UNCHANGED <<approvals, clock, active, action, seq, pep, chain, refused>>

\* Fault: an event is dropped when the chain does not take it.
RecordLossy(c) ==
  /\ todo[c] # <<>>
  /\ chain' \in {chain, chain \cup {[call |-> c, kind |-> Head(todo[c])]}}
  /\ todo' = [todo EXCEPT ![c] = Tail(@)]
  /\ UNCHANGED <<approvals, clock, active, stage, action, seq, resumed, pep,
                 answer, error, refused>>

\* Evidence first: nothing else happens in a call that has events to record.
\* The approval service's events go through gateway.emit, which puts an invalid
\* one into the dead-letter file and lets the call go on. A failure tells of the
\* approval that was named, whatever it was requested with, and may be invalid;
\* what is requested or consumed has the fields of the decision before it.
Record(c) ==
  /\ todo[c] # <<>>
  /\ \/ chain' = chain \cup {[call |-> c, kind |-> Head(todo[c])]}
     \/ Head(todo[c]) = "approval.failed" /\ UNCHANGED chain
  /\ todo' = [todo EXCEPT ![c] = Tail(@)]
  /\ UNCHANGED <<approvals, clock, active, stage, action, seq, resumed, pep,
                 answer, error, refused>>

Decide(c) ==
  /\ At(c, "decide")
  /\ WillRecord(c, <<"decision.created">> \o VerdictOn(c).alerts)
  /\ Goto(c, IF EffectOf(c) = "REQUIRE_APPROVAL" /\ resumed[c] = Unset
             THEN "hold" ELSE "enforce")
  /\ UNCHANGED <<approvals, clock, active, action, seq, resumed, pep, answer,
                 error, chain, refused>>

\* approvals.request: a fresh approval, the same one again, or ValueError when
\* the key is held by an approval with another binding.
Hold(c) ==
  /\ At(c, "hold")
  /\ LET known == WithKey(approvals, KeyOf(c))
         justify == VerdictOn(c).justify
         same(id) == SameRequest(approvals[id], BindingOf(c), justify) IN
     \/ /\ known = {}
        /\ \E id \in ApprovalIds \ DOMAIN approvals :
             approvals' = Put(approvals, id,
                              NewApproval(BindingOf(c), KeyOf(c), justify, clock))
        /\ Goto(c, "enforce") /\ WillRecord(c, <<"approval.requested">>)
        /\ UNCHANGED <<answer, error>>
     \/ /\ \E id \in known : same(id)
        /\ Goto(c, "enforce")
        /\ UNCHANGED <<approvals, todo, answer, error>>
     \/ /\ \E id \in known : ~same(id)
        /\ Deny(c, "key_reused")
        /\ UNCHANGED approvals
  /\ UNCHANGED <<clock, active, action, seq, resumed, pep, chain, refused>>

(***************************************************************************)
(* The enforcement point: what it says of a call, and what it consumes.    *)
(***************************************************************************)
Enforced(c, outcome, kinds) ==
  /\ pep' = [pep EXCEPT ![c] = outcome]
  /\ WillRecord(c, kinds)

EnforceWithoutApproval(c) ==
  /\ \/ /\ EffectOf(c) = "DENY"
        /\ Enforced(c, "blocked", <<"pep.enforced">>)
     \/ /\ EffectOf(c) \in {"ALLOW", "MONITOR"}
        /\ Enforced(c, "released", <<"pep.enforced">>)
     \/ /\ EffectOf(c) = "REQUIRE_APPROVAL"
        /\ resumed[c] = Unset
        /\ Enforced(c, "awaiting_approval", <<"pep.enforced">>)
  /\ UNCHANGED approvals

\* Fault: the enforcement point takes a found approval for a consumed one.
EnforceUnconsumed(c) ==
  /\ EffectOf(c) = "REQUIRE_APPROVAL"
  /\ resumed[c] \in DOMAIN approvals
  /\ UNCHANGED approvals
  /\ IF ConsumeOutcome(approvals[resumed[c]], BindingOf(c), clock) = "ok"
     THEN Enforced(c, "released", <<"approval.consumed", "pep.enforced">>)
     ELSE Enforced(c, "blocked", <<"approval.failed", "pep.enforced">>)

\* consume looks at the approval again: since the lookup it may have been
\* consumed by another call, rejected, expired or superseded by a policy. The
\* failure of an approval that does not exist has no session, so that it is
\* exported without a row in the chain.
EnforceWithApproval(c) ==
  /\ EffectOf(c) = "REQUIRE_APPROVAL"
  /\ resumed[c] # Unset
  /\ IF resumed[c] \in DOMAIN approvals
     THEN LET a == approvals[resumed[c]]
              outcome == ConsumeOutcome(a, BindingOf(c), clock) IN
          /\ approvals' = Consumed(approvals, resumed[c], outcome)
          /\ IF outcome = "ok"
             THEN Enforced(c, "released", <<"approval.consumed", "pep.enforced">>)
             ELSE Enforced(c, "blocked", <<"approval.failed", "pep.enforced">>)
     ELSE /\ Enforced(c, "blocked", <<"pep.enforced">>)
          /\ UNCHANGED approvals

Enforce(c) ==
  /\ At(c, "enforce")
  /\ EnforceWithoutApproval(c) \/ EnforceWithApproval(c)
  /\ Goto(c, "respond")
  /\ UNCHANGED <<clock, active, action, seq, resumed, answer, error, chain, refused>>

Respond(c) ==
  /\ At(c, "respond")
  /\ answer' = [answer EXCEPT ![c] = IF pep[c] = "released" THEN "allow" ELSE "deny"]
  /\ Goto(c, "done")
  /\ UNCHANGED <<approvals, clock, active, action, seq, resumed, todo, pep, error,
                 chain, refused>>

Running(c) == stage[c] \notin {"idle", "done", "dead"}

\* Any step of a running call may raise: evidence that cannot be appended, a
\* file that cannot be read, a full disk.
Raise(c) ==
  /\ Running(c)
  /\ Deny(c, "fault")
  /\ UNCHANGED <<approvals, clock, active, action, seq, resumed, pep, chain, refused>>

\* The hook process is killed: its agent gets no answer.
Kill(c) ==
  /\ Running(c)
  /\ Goto(c, "dead")
  /\ todo' = [todo EXCEPT ![c] = <<>>]
  /\ UNCHANGED <<approvals, clock, active, action, seq, resumed, pep, answer,
                 error, chain, refused>>

(***************************************************************************)
(* The operator, the policy and the clock                                  *)
(***************************************************************************)
OperatorGrants(id, justified) ==
  /\ Grantable(approvals, id)
  /\ approvals' = Granted(approvals, id, GrantOutcome(approvals[id], justified, clock))
  /\ UNCHANGED <<clock, active, callVars, chain, refused>>

OperatorRejects(id) ==
  /\ Rejectable(approvals, id)
  /\ approvals' = Rejected(approvals, id)
  /\ refused' = refused \cup {id}
  /\ UNCHANGED <<clock, active, callVars, chain>>

Sweep ==
  /\ Sweepable(approvals, clock) # {}
  /\ approvals' = Swept(approvals, clock)
  /\ UNCHANGED <<clock, active, callVars, chain, refused>>

\* Up, or down by a signed rollback.
Activate(s) ==
  /\ s # active
  /\ active' = s
  /\ UNCHANGED <<approvals, clock, callVars, chain, refused>>

ClockMoves ==
  /\ clock < MaxTime
  /\ clock' = clock + 1
  /\ UNCHANGED <<approvals, active, callVars, chain, refused>>

Step(c) ==
  \/ \E given \in DOMAIN approvals \cup {Unset, Unknown} : Lookup(c, given)
  \/ Record(c)
  \/ Decide(c)
  \/ Hold(c)
  \/ Enforce(c)
  \/ Respond(c)

Next ==
  \/ \E c \in Calls :
       \/ \E a \in ToolActions : Start(c, a)
       \/ Step(c)
       \/ Raise(c)
       \/ Kill(c)
  \/ \E id \in ApprovalIds : OperatorRejects(id) \/ \E justified \in BOOLEAN : OperatorGrants(id, justified)
  \/ Sweep
  \/ \E s \in PolicySequences : Activate(s)
  \/ ClockMoves

Spec == Init /\ [][Next]_vars

(***************************************************************************)
(* Properties                                                              *)
(***************************************************************************)
Allowed(c) == answer[c] = "allow"

AllowedByApproval(c) == Allowed(c) /\ EffectOf(c) = "REQUIRE_APPROVAL"

\* One approval releases one tool call, however many hooks resume it at once
\* and whichever of them die.
OneReleasePerApproval ==
  \A c, d \in Calls :
    AllowedByApproval(c) /\ AllowedByApproval(d) /\ resumed[c] = resumed[d] => c = d

\* What is released under REQUIRE_APPROVAL was approved for that very action,
\* under the policy sequence the hook decides by, although ACTIVE may have
\* moved between the hold, the grant and the retry; and not if it was rejected.
ReleaseIsApproved ==
  \A c \in Calls : AllowedByApproval(c) =>
    /\ resumed[c] \in DOMAIN approvals \ refused
    /\ LET a == approvals[resumed[c]] IN
       /\ a.status = "consumed"
       /\ SameAction(a.bind, action[c])
       /\ a.bind.seq = seq[c]

\* No agent is told to go on before the request, the decision and its alerts,
\* the consumption and the enforcement are in evidence (ARCHITECTURE.md: "never released on
\* ... unusable evidence path").
ReleaseIsInEvidence ==
  \A c \in Calls : Allowed(c) =>
    LET needed == {"tool_request", "capability.checked", "decision.created", "pep.enforced"}
                  \cup (IF EffectOf(c) = "REQUIRE_APPROVAL"
                        THEN {"approval.consumed"} ELSE {})
                  \cup {VerdictOn(c).alerts[i] : i \in DOMAIN VerdictOn(c).alerts} IN
    \A k \in needed : [call |-> c, kind |-> k] \in chain

\* ARCHITECTURE.md: "If required, create/find and atomically consume a strongly
\* bound approval", and the enforcement point then releases, blocks or holds:
\* a call that needs approval ends with an outcome of the enforcement point
\* unless something under it breaks.
HeldCallsAreHeld ==
  \A c \in Calls :
    stage[c] = "done" /\ seq[c] # 0 /\ error[c] # "fault" => pep[c] # Unset
=============================================================================
