SPECIFICATION Spec
CONSTANTS
  Proxies = {p1, p2}
  Handles = {1}
  Recipients = {r1, r2}
  Threads = {t1, t2}
  Workers = {w1, w2}
  Nobody = nobody
  MayReuse = FALSE
  MaxLinks = 3
INVARIANT ReportedOnce
CHECK_DEADLOCK FALSE
