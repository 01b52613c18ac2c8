SPECIFICATION ClientSpec
CONSTANTS
  MaxRequests = 3
  MaxOutstanding = 1
  MaxChunk = 3
  Kinds = {"caps", "post", "bye"}
  Garbage = {"type"}
CHECK_DEADLOCK FALSE
INVARIANT RepliesPaired
