CONSTANTS
  Supported <- MCSupported
  Retired = {"x1"}
  Native = {"n1"}
  BaseText <- MCBaseText
  OtherTexts <- MCOtherTexts
  Exports <- MCExports
  BaseEvent <- MCBaseEvent
  TriggerEvent <- MCTriggerEvent
  ThresholdFields = {"entity"}
  FixedFixtures <- MCFixedFixtures
  T3 = {"q1"}
  RequiredClasses <- MCRequiredClasses
  MinVariants = 2
  BaseCorpora <- MCBaseCorpora
  CustomTypes <- MCCustomTypes
  WellFormed <- Parses
  FieldsAsked <- MCFieldsAsked
  Fires <- FixtureMatches
  MaxChanges = 2
  None = None
  Torn = Torn
  Odd = Odd
SPECIFICATION Spec
INVARIANT PassIsExact
INVARIANT ValidatedIsComplete
INVARIANT SyncRepairs
INVARIANT VerifiedPackageIsWhole
