SPECIFICATION Spec
CONSTANTS
    Sessions = {a}
    None = None
    MaxHash = 2
    MaxPosts = 2
    MaxDeploys = 2
    MaxCrashes = 0
INVARIANT HonestAfterQueue
CHECK_DEADLOCK FALSE
