SPECIFICATION StationSpec
CONSTANTS
  None = None
  Paths = {p1, p2}
  Clients = {host, stranger}
  MaxFrames = 2
  MaxChunk = 3
CHECK_DEADLOCK FALSE
PROPERTY DecliningHostEnds
