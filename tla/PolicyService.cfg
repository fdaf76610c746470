\* Activations, rollbacks and registrations between the requests of two agents,
\* under bundles that restrict different paths.
CONSTANTS
  Payloads = {"rm", "write"}
  ToolClass <- MCToolClass
  ToolClasses = {"shell", "file"}
  Agents = {"agent", "guest"}
  Adapters = {"hook", "mcp"}
  Bundles <- MCBundles
  Offered <- MCOffered
  None = None
  MaxGeneration = 3
  MaxHeard = 2
SPECIFICATION Spec
INVARIANTS
  AnswersAreCurrent
  DenialsHold
  AnswersAreEnforceable
