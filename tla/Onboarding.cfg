\* Three commands over the hooks of an earlier installation, one change by somebody else, one poll before the deadline.
CONSTANTS
  Rules <- MCRules
  Unsupported <- MCUnsupported
  Exported = "unset"
  Events = {"PreToolUse"}
  Homes <- MCHomes
  Others = {"linter"}
  SetupHomes <- MCSetupHomes
  CheckHomes <- MCCheckHomes
  DefaultHome = "home"
  OldHome = "old"
  OldHooks = {"codex"}
  HookChoices <- MCHookChoices
  AlertRule = "WMAI-001"
  MaxCommands = 3
  MaxPolls = 1
  MaxChanges = 1
SPECIFICATION Spec
INVARIANTS
  ImportIsExact
  SetupIsComplete
  UninstallIsComplete
  OneEndpoint
PROPERTIES
  TheirsAreKept
  CommandEnds
CHECK_DEADLOCK FALSE
