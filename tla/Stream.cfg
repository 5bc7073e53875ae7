SPECIFICATION StreamSpec
CONSTANTS
  Views = {"console", "terminal"}
  Limit = 2
  MaxId = 4
INVARIANTS
  SkippedWereOvertaken
PROPERTIES
  FollowsInOrder
  EveryLineIsShown
CHECK_DEADLOCK FALSE
