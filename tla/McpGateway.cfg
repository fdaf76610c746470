\* Two lines of the client, one request of the server, one fault, pipes of one line.
CONSTANTS
  i1 = i1
  i2 = i2
  Ids = {i1, i2}
  NoId = NoId
  MaxLines = 2
  MaxRequests = 1
  MaxFaults = 1
  PipeSize = 1
SPECIFICATION FairSpec
INVARIANTS
  EvidenceComesFirst
  AnswersAreObserved
  VerifyIsRight
PROPERTIES
  ProxyEnds
CHECK_DEADLOCK FALSE
