CONSTANTS
  None = None
  Posters = {p1, p2}
  Getters = {}
  Workers = {w1}
  RetryOnLost = 1
  MaxGen = 2
  MaxVersion = 1
  MaxFaults = 0
SPECIFICATION Spec
PROPERTY LaunchWhenIdle
CHECK_DEADLOCK FALSE
