SPECIFICATION Spec
CONSTANTS
  Requests = {"r1", "r2", "r3"}
  Variants <- MCVariants
  Contact = {"message"}
  Capped = {"link"}
  Allowed <- MCAllowed
  MaxAttempts = 2
  ApprovalAbove = 10
  Caps <- MCCaps
  Day = 4
  QuietStart = 3
  QuietEnd = 1
  Lifetime = 1
  MaxTime = 4
  Endings = {"opted_out"}
INVARIANT
  OptedOutIsLeftAlone
CHECK_DEADLOCK FALSE
