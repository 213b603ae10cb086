CONSTANTS
  None = None
  Posters = {p1}
  Getters = {}
  Workers = {w1}
  RetryOnLost = 1
  MaxGen = 3
  MaxVersion = 2
  MaxFaults = 0
SPECIFICATION Spec
PROPERTY LaunchAfterStop
CHECK_DEADLOCK FALSE
