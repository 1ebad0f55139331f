SPECIFICATION Spec
CONSTANTS
  Sessions = {s1, s2, s3}
  NoSession = NoSession
  MaxHandle = 3
  MaxReferences = 1
  MaxTransactions = 2
  ClientMessages <- TransactionMessages
SYMMETRY SessionSymmetry
INVARIANTS RegistryInSync RequestIsAnswered OkMeansDelivered ExportLeadsBack
PROPERTIES PendingIsSettled HandleKeepsItsMeaning
CHECK_DEADLOCK FALSE
