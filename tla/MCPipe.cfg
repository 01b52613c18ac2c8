SPECIFICATION PipeSpec
CONSTANTS
  None = None
  MaxRequests = 3
  Ahead = 1
  RequestSize = 4
  ReplySize = 3
  Capacity = 2
\* When both ends have gone there is nothing left to do.
CHECK_DEADLOCK FALSE
INVARIANTS
  HeardInOrder
PROPERTIES
  DepartureNoticed
  SendEnds
