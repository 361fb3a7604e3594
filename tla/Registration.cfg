SPECIFICATION Spec
CONSTANTS
  x = x
  y = y
  g1 = g1
  g2 = g2
  None = None
  Messages = {1, 2}
  Senders = {x, y}
  Owners = {}
  Agents = {g1, g2}
  From <- MCFrom
  Setups <- MCSetups
  Slots = {t1, t2}
  MaxFaults = 1
SYMMETRY Symmetric
CHECK_DEADLOCK FALSE
INVARIANTS StrangersAreNotStored HeldIsAnswered UnheardOnlyBehindADuplicate
