CONSTANTS
  Rows = {r1, r2}
  Chains = {active, sweep}
  MaxAttempts = 3
  MaxFaults = 2
SPECIFICATION FairSpec
INVARIANTS DeliveryInvariant RecordTellsTheTruth FirstAtMostOnce
PROPERTY RowsAreRecordedForGood
