SPECIFICATION Spec
CONSTANTS
  x = x
  y = y
  g1 = g1
  g2 = g2
  None = None
  Messages = {1, 2}
  Senders = {x, y}
  Owners = {}
  Agents = {g1, g2}
  From <- MCFrom
  Setups <- UnheardSetups
  Slots = {t1}
  MaxFaults = 0
CHECK_DEADLOCK FALSE
INVARIANT ApprovedIsHeard
