SPECIFICATION Spec
CONSTANTS
  Taxonomy <- MCTaxonomy
  Library <- MCLibrary
  Forbidden = {"charge_retry"}
  Playbooks <- MCPlaybooks
  Allowed <- MCAllowed
  MandateRails = {"enach"}
  MinConfidence = 75
  Fatigue = 1500
  NumCases = 2
  Pool = 2
  Inputs <- MCInputs
  Diagnoses <- MCDiagnoses
  Causes <- MCCauses
  Arms = {"full", "offline", "tier0_only"}
  Batches = 3
  None = None
INVARIANTS
  SecondAnswerNeedsLateCall
  OutageMakesNoPlan
  NoticeBeforeAction
  ContextIsCurrent
PROPERTIES
  EveryCaseIsDecided
CHECK_DEADLOCK FALSE
