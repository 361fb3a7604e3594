SPECIFICATION FairSpec
CONSTANTS
  Request = {r1}
  Click = {c1, c2}
  None = None
  Default = {r1}
  DbFaults = {"undo", "locate", "claim", "settle", "drop", "expire", "sweep"}
  MaxRestarts = 2
CHECK_DEADLOCK FALSE
INVARIANTS ApprovedByTheOneDecision TimedOutCardNeverApproved
PROPERTY EveryHoldIsAnswered
