SPECIFICATION Spec
CONSTANTS
  Sessions = {s1, s2, s3}
  NoSession = NoSession
  MaxHandle = 2
  MaxReferences = 2
  MaxTransactions = 1
  ClientMessages <- ReferenceMessages
SYMMETRY SessionSymmetry
INVARIANTS TypeOK RolesAreLive ReferencesAreKnown
PROPERTIES HoldersLearnOfDeath RoleIsKept
CHECK_DEADLOCK FALSE
