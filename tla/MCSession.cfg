SPECIFICATION SessionSpec
CONSTANTS
  None = None
  ProfileFiles <- MCProfileFiles
  Scans <- MCScans
  BulkClass = "engine.bulk.pcm"
  HandleSpace = 8
  Offers <- MCOffers
  IntSpace = 8
  HandleFields <- MCHandleFields
  MaxHandle = 3
CHECK_DEADLOCK FALSE
INVARIANTS
  SwitchInv
  ClaimsProved
  EngineCalledAsDeclared
  HandlesAgree
PROPERTIES
  AnswersStable
  ErrorsHaveNoEffect
  ImplementsHostView
