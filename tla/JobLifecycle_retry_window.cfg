CONSTANTS
  None = None
  Posters = {p1}
  Getters = {g1}
  Workers = {w1}
  RetryOnLost = 1
  MaxGen = 1
  MaxVersion = 1
  MaxFaults = 1
SPECIFICATION Spec
PROPERTY NoFalseLoss
CHECK_DEADLOCK FALSE
