SPECIFICATION Spec
CONSTANTS
  Writers = {w1, w2}
  Strand = strand
  Concurrent = FALSE
  KeepsMessages = FALSE
  Room = 3
  MaxMessages = 4
  MaxDelivered = 6
INVARIANTS OneWriteAtATime UsedAsSent
PROPERTIES ImplementsChannel QueuedIsDelivered
CHECK_DEADLOCK FALSE
