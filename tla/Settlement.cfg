SPECIFICATION Spec
CONSTANTS
  Obligations = {"o1", "o2"}
  Owed <- MCOwed
  DueAt <- MCDueAt
  Attempts = {"k1", "k2"}
  ObligationOf <- MCObligationOf
  SentAt <- MCSentAt
  Deliveries = {"push", "failed", "pull", "transfer"}
  Report <- MCReport
  OtherEnds = {"OPTED_OUT"}
  Nothing = "nothing"
  MaxSetbacks = 1
INVARIANTS
  RecoveredIsPaidUnderOneKey
  LastPartCloses
  CapturedIsCounted
PROPERTIES
  CoveredIsClosed
  MoneyStaysWhereItWasMatched
CHECK_DEADLOCK FALSE
