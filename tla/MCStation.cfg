SPECIFICATION StationSpec
CONSTANTS
  None = None
  Paths = {p1, p2}
  Clients = {host, stranger}
  MaxFrames = 2
  MaxChunk = 3
\* A station that has exited does nothing more.
CHECK_DEADLOCK FALSE
INVARIANTS
  StationInv
  HandledInOrder
  CleanEndIsComplete
PROPERTIES
  NeverClobbers
  ServiceEnds
