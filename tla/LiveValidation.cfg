CONSTANTS
  Supported <- MCSupported
  Native = {"n1"}
  Threshold = 2
  MaxRuns = 1
  MaxTime = 1
  MaxNoise = 2
  Other = Other
  None = None
SPECIFICATION FairLiveSpec
INVARIANT ReportIsEarned
INVARIANT ExitIsHonest
PROPERTY RunsEnd
CHECK_DEADLOCK FALSE
