\* Two hooks, for one action or for two, under two policies.
CONSTANTS
  Calls = {c1, c2}
  ApprovalIds = {a1, a2}
  ToolActions <- PushAndRead
  PolicySequences = {1, 2}
  Verdict <- MCVerdict
  EarlierHolds <- MCEarlierHolds
  Bindings <- MCBindings
  Keys <- MCKeys
  Unset = Unset
  Unknown = Unknown
  TTL = 1
  MaxTime = 1
SPECIFICATION Spec
SYMMETRY Symmetry
INVARIANTS
  OneReleasePerApproval
  ReleaseIsApproved
  ReleaseIsInEvidence
CHECK_DEADLOCK FALSE
