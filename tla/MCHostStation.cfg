SPECIFICATION HostStationSpec
CONSTANTS
  None = None
  MaxRequests = 5
  MaxOutstanding = 1
  MaxChunk = 2
  Kinds = {"hello", "open", "post", "close", "bye"}
  Garbage = {}
  ProfileFiles <- MCProfileFiles
  Scans <- MCScans
  BulkClass = "engine.bulk.pcm"
  HandleSpace = 8
  Offers <- MCOffers
  IntSpace = 8
  HandleFields <- MCHandleFields
  MaxHandle = 5
CHECK_DEADLOCK FALSE
INVARIANTS
  HandlesAreReal
  HostKnows
PROPERTIES
  ServesAsExpected
