---------------------------- MODULE MCHookRuntime ----------------------------
(* One action that needs approval under every policy and one whose effect    *)
(* changes with the policy.                                                  *)
EXTENDS HookRuntime, TLC

Push == [scope |-> "shell", payload |-> "push", target |-> Unset]
Read == [scope |-> "file", payload |-> "read", target |-> "path"]

PushOnly == {Push}
PushAndRead == {Push, Read}

\* Push is held under both policies, with a justification under the first
\* only; Read is released under the first and denied with an alert under the
\* second.
MCVerdict ==
  [s \in PolicySequences |->
     [a \in ToolActions |->
        IF a = Push
        THEN [effect |-> "REQUIRE_APPROVAL", justify |-> s = 1, alerts |-> <<>>]
        ELSE IF s = 1 THEN [effect |-> "MONITOR", justify |-> FALSE, alerts |-> <<>>]
        ELSE [effect |-> "DENY", justify |-> FALSE,
              alerts |-> <<"obligation.high_severity_alert">>]]]

\* A call's own identifiers, and those of the call it resumes.
MCBindings ==
  { [scope |-> a.scope, payload |-> a.payload, target |-> a.target, seq |-> s,
     ids |-> [f \in OptionalFields |-> IF f = "policy_bundle_id" THEN "bundle" ELSE c]] :
    a \in ToolActions, s \in PolicySequences, c \in Calls \cup {"earlier"} }

MCEarlierHolds == {b \in MCBindings : b.payload = "push" /\ b.seq = 1 /\ b.ids["request_id"] = "earlier"}

MCKeys == ToolActions \X PolicySequences

Symmetry == Permutations(Calls) \cup Permutations(ApprovalIds)
=============================================================================
