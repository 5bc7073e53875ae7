SPECIFICATION Spec
CONSTANTS
  c1 = c1
  c2 = c2
  w1 = w1
  w2 = w2
  ob = ob
  NoOne = NoOne
  Actions = {"a1"}
  MaxEvents = 5
  Cases <- MCCases
  Obligations <- MCObligations
  ObligationOf <- MCObligationOf
  Writers <- MCWriters
  Events <- MCEvents
SYMMETRY Symmetric
INVARIANTS
  OneOpenCasePerObligation
  SeqNeverCollides
  ReplayReproducesRow
  OnlyLateActionsOnClosedCases
PROPERTIES
  ImplementsRegistry
