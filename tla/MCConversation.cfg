SPECIFICATION Spec
CONSTANTS
    Unassigned = 0
    Written = 2
    Kinds <- MCKinds
    Buffer = 2
    MaxEvents = 4
INVARIANTS
    ShownOnce
    SentIsPlaced
    
    CountsUnreadOnly
CHECK_DEADLOCK FALSE
