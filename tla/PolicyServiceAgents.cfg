\* Two agents that ask through one adapter, and a rule that denies one of them.
CONSTANTS
  Payloads = {"rm", "write"}
  ToolClass <- MCToolClass
  ToolClasses = {"shell", "file"}
  Agents = {"agent", "guest"}
  Adapters = {"hook", "mcp"}
  Bundles <- GuestBundles
  Offered <- MCOffered
  None = None
  MaxGeneration = 2
  MaxHeard = 2
SPECIFICATION Spec
INVARIANT DenyWins
