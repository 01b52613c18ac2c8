SPECIFICATION RingSpec
CONSTANTS
  Capacity = 3
  OfferSizes <- MCOfferSizes
  ReadSizes <- MCReadSizes
  MaxBytes = 14
INVARIANTS
  RingInv
  NoRace
PROPERTY
  ImplementsQueue
\* The run ends when the bound on accepted bytes is reached.
CHECK_DEADLOCK FALSE
