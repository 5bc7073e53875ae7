SPECIFICATION Spec
CONSTANTS
  Rows <- MCRows
  Cases = {"A", "B"}
  CaseOf <- MCCaseOf
  FireAt <- MCFireAt
  Workers = {"v", "w"}
  Limit = 2
  LeaseTime = 1
  MaxTime = 2
  MaxLeases = 3
  NoOne = NoOne
INVARIANTS
  WorkersSplitTheDueRows
  OnlyLateRowsOutliveTheirCase
PROPERTIES
  ImplementsAgenda
  EveryRowSettles
CHECK_DEADLOCK FALSE
