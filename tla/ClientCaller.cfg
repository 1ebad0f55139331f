SPECIFICATION Spec
CONSTANTS
  Callers = {t1, t2}
  Workers = {w1}
  Strand = strand
  Calls <- AllCalls
  NestedCalls <- NoCalls
  MayServe = TRUE
  MayDisconnect = TRUE
  FirstCookie = 1
  MaxCookies = 4
  MaxIncoming = 1
  MaxUnasked = 1
INVARIANTS TypeOK AnswerIsForTheCall WaitingCallIsPending ServedOnce
CHECK_DEADLOCK FALSE
