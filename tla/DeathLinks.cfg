SPECIFICATION Spec
CONSTANTS
  Proxies = {p1, p2}
  Handles = {1, 2}
  Recipients = {r1}
  Threads = {t1, t2}
  Workers = {w1}
  Nobody = nobody
  MayReuse = FALSE
  MaxLinks = 4
INVARIANTS TypeOK RegisteredHasRecipient ReportedOnce NoFalseObituary
PROPERTIES OwedIsReported
CHECK_DEADLOCK FALSE
