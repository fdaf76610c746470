\* Two streams, reads of two units from pipes of two, two descendants.
CONSTANTS
  Streams <- MCStreams
  Children = {"c1", "c2"}
  PidOf <- MCPidOf
  MaxOutput = 3
  MaxNoise = 1
  PipeSize = 2
  Chunk = 2
  None = None
SPECIFICATION FairSpec
INVARIANT EndTellsTheSession
PROPERTY RunEnds
CHECK_DEADLOCK FALSE
