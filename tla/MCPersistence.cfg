SPECIFICATION Spec
CONSTANTS
    Msg = {m1}
    Worker = {w1}
    QueueSize = 1
    MaxBuffer = 1
    SaveMayFail = TRUE
    MaxLog = 3
    MaxCrashes = 1
INVARIANTS
    
    RecallSticks
PROPERTY ShutdownCompletes
CHECK_DEADLOCK FALSE
