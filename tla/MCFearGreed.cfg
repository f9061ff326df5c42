\* A boot in any hour of a day, one failure, four days.
CONSTANTS
  Horizon = 21
  MaxFailures = 1
SPECIFICATION FeedsSpec
INVARIANTS MoodIsKept
CHECK_DEADLOCK FALSE
