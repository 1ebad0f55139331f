SPECIFICATION Spec
CONSTANTS
  a = a
  b = b
  a1 = a1
  a2 = a2
  b1 = b1
  Clients = {a, b, manager}
  Manager = manager
  Objects = {a1, b1, m1}
  OwnerOf <- MCOwnerOf
  ContextObject = context
  Null = null
  CountMod = 4
  MaxCalls = 3
  MaxHandles = 2
  MaxCounts = 0
INVARIANT RightAddress
CHECK_DEADLOCK FALSE
