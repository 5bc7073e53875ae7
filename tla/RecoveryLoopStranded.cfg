SPECIFICATION Spec
CONSTANTS
  Actions <- MCActions
  Waits = {"wait"}
  Delay <- MCDelay
  Plans <- MCPlans
  StartDelays = {0, 1}
  Contact = {"message", "voice"}
  Capped = {"link"}
  Permitted = {"link", "message"}
  Alternative = "message"
  Fallback = "link"
  MaxAttempts = 2
  Quiet = {1}
  Grace = 2
  TicksPerWindow = 2
  Incidents = {"i"}
  Horizon = 5
  MaxReplies = 1
  NoPlan = NoPlan
INVARIANTS
  NotStranded
CHECK_DEADLOCK FALSE
