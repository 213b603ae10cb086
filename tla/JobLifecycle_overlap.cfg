CONSTANTS
  None = None
  Posters = {p1}
  Getters = {g1}
  Workers = {w1, w2}
  RetryOnLost = 1
  MaxGen = 2
  MaxVersion = 2
  MaxFaults = 2
SPECIFICATION Spec
SYMMETRY Symmetry
CONSTRAINTS NoRace FewEvents
INVARIANTS TypeOK NoStaleRun
PROPERTIES LaunchWhenIdle MarkLostOnlyIfDead SucceededStays ShowsStatus
CHECK_DEADLOCK FALSE
