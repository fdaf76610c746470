\* A hook that repeats an action an earlier hook has held.
CONSTANTS
  Calls = {c1}
  ApprovalIds = {a1, a2}
  ToolActions <- PushOnly
  PolicySequences = {1, 2}
  Verdict <- MCVerdict
  EarlierHolds <- MCEarlierHolds
  Bindings <- MCBindings
  Keys <- MCKeys
  Unset = Unset
  Unknown = Unknown
  TTL = 1
  MaxTime = 1
SPECIFICATION Spec
INVARIANT HeldCallsAreHeld
CHECK_DEADLOCK FALSE
