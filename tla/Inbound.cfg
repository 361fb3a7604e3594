CONSTANTS
  Messages = {1, 2, 3, 4, 5}
  Trigger = {2, 3, 4, 5}
  OnWake = {}
  System = {4}
  Commands = {3, 5}
  BuiltIn = {5}
  Scripted = {}
  Poison = {2}
  Limit = 2
  MaxTries = 0
  MaxFaults = 2
SPECIFICATION Spec
CHECK_DEADLOCK FALSE
INVARIANTS SettledForAReason HandedOnce AckedIsAccountedFor
PROPERTY SettledStaysSettled
