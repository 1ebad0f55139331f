SPECIFICATION Spec
CONSTANTS
  Servers = {v1, v2}
  Workers = {w1, w2}
  Clients = {c1, c2}
  Exclusive = TRUE
  NoFile = none
  OtherFile = other
  NoServer = nobody
  MaxStarts = 3
  MaxErrors = 2
INVARIANTS StaleIsTold
PROPERTIES ConnectionIsServed
CHECK_DEADLOCK FALSE
