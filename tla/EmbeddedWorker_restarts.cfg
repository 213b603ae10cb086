CONSTANT MaxCrashes = 3
SPECIFICATION FairSpec
INVARIANTS TypeOK OnePool StoppedClean
PROPERTIES Restarts NothingLeft
CHECK_DEADLOCK FALSE
