CONSTANTS
  Messages = {1, 2}
  Trigger = {1, 2}
  OnWake = {2}
  System = {}
  Commands = {}
  BuiltIn = {}
  Scripted = {1}
  Poison = {}
  Limit = 2
  MaxTries = 1
  MaxFaults = 1
SPECIFICATION FairSpec
CHECK_DEADLOCK FALSE
PROPERTIES EachRowKeepsItsContract WakeRowsSettle
