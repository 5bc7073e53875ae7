SPECIFICATION Spec
CONSTANTS
  Requests <- MCRequests
  Cases = {"A", "B"}
  Obligations = {"ob"}
  Keys <- MCKeys
  Tokens <- MCTokens
  CaseOf <- MCCaseOf
  ObligationOf <- MCObligationOf
  KeyOf <- MCKeyOf
  TokenOf <- MCTokenOf
  NotAfter <- MCNotAfter
  TTL = 1
  MaxTime = 1
  NoOne = NoOne
INVARIANTS
  NeverChargedTwice
  TokenDrivesOneCall
  EveryCallOnRecord
  OverlapNeedsSibling
PROPERTY ImplementsConnectorCalls
CHECK_DEADLOCK FALSE
