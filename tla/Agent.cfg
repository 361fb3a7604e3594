SPECIFICATION FairSpec
CONSTANTS
  Approval = {a1, a2}
  Click = {c1, c2}
  Reply = {m1}
  Sweeper = Sweeper
  None = None
  MaxFaults = 2
CHECK_DEADLOCK FALSE
INVARIANT DecidedOnceForGood
PROPERTIES EachRequestKeepsItsContract DecisionReachesAgent
