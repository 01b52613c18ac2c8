SPECIFICATION ClientSpec
CONSTANTS
  MaxRequests = 3
  MaxOutstanding = 2
  MaxChunk = 3
  Kinds = {"caps", "bye"}
  Garbage = {"type", "text"}
\* A session that is over has nothing to do.
CHECK_DEADLOCK FALSE
INVARIANTS
  ClientInv
  RepliesOnceInOrder
  PairedUntilTimeout
PROPERTIES
  NothingAfterFailure
  CallsEnd
  ShutdownEnds
