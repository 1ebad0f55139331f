SPECIFICATION Spec
CONSTANTS
  Callers = {t1}
  Workers = {w1}
  Strand = strand
  Calls <- TwoWayCalls
  NestedCalls <- AcquireOnly
  MayServe = TRUE
  MayDisconnect = FALSE
  FirstCookie = 2
  MaxCookies = 5
  MaxIncoming = 2
  MaxUnasked = 0
INVARIANTS ReaderKeepsReading
PROPERTIES EveryCallReturns PendingCallsDrain IncomingIsAnswered
CHECK_DEADLOCK FALSE
