SPECIFICATION FairSpec
CONSTANTS
  MaxWakes = 2
  Calls = {c1}
  MaxBoxes = 2
  MaxFaults = 1
  MaxStops = 1
CHECK_DEADLOCK FALSE
INVARIANTS SupervisionInvariant CrashIsReportedAsFailure
PROPERTIES EndsAreToldRight NoRuntimeOutlivesItsContainer WakesAndStopsSettle
