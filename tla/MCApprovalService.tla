-------------------------- MODULE MCApprovalService --------------------------
(* Bindings that differ from the one an approval is requested with in each   *)
(* kind of field, and the sets of requests of the runs.                      *)
EXTENDS ApprovalService, TLC

NoIds == [f \in OptionalFields |-> Unset]

Held ==
  [scope |-> "hook", payload |-> "write", target |-> "file",
   ids |-> [NoIds EXCEPT !["decision_id"] = "dec1"], seq |-> 1]

MCBindings ==
  { Held, [Held EXCEPT !.target = "elsewhere"], [Held EXCEPT !.seq = 2],
    [Held EXCEPT !.ids["decision_id"] = "dec2"] }

KeyedRequest == [bind |-> Held, key |-> "k1", justify |-> TRUE]

\* The same key for two decisions.
RivalRequests ==
  { KeyedRequest, [KeyedRequest EXCEPT !.bind.ids["decision_id"] = "dec2"] }

Symmetry == Permutations(ApprovalIds) \cup Permutations(Processes)
=============================================================================
