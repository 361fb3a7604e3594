SPECIFICATION TaskFairSpec
CONSTANTS
  PauseCap = 2
  MaxTries = 0
  MaxRows = 2
  MaxArms = 0
  MaxTaskFaults = 1
CHECK_DEADLOCK FALSE
INVARIANTS ScheduleInvariant SeriesStaysSingle
PROPERTIES CancelledStaysCancelled SweepCatchesUp
