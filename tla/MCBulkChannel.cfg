SPECIFICATION BulkSpec
CONSTANTS
  Capacity = 2
  OfferSizes <- MCOfferSizes
  ReadSizes <- MCReadSizes
  MaxBytes = 6
  DrainBytes = 2
  MaxOffered = 7
INVARIANTS
  BulkTypeOK
  HostHearsInOrder
  Ledger
  FreedAfterWorker
PROPERTIES
  UsesRing
  StopEnds
  AudioFlows
  SinkReturns
\* A station that has stopped, or an engine at its bound, has nothing to do.
CHECK_DEADLOCK FALSE
