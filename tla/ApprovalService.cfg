\* Two processes request under one key, then grant, reject, sweep and consume
\* what they got, the clock moving both ways across its expiry.
CONSTANTS
  ApprovalIds = {a1, a2}
  Processes = {p1, p2}
  Bindings <- MCBindings
  Requests <- RivalRequests
  Keys = {"k1"}
  Unset = Unset
  TTL = 1
  MaxTime = 2
  MaxAttempts = 2
  MaxInvalid = 1
SPECIFICATION ServiceSpec
SYMMETRY Symmetry
INVARIANTS
  ServiceTypeOK
  OneSuccess
  EvidenceAgrees
  RejectionIsFinal
  ReleaseWasGranted
  OneApprovalPerKey
PROPERTY ImplementsOneTime
CHECK_DEADLOCK FALSE
