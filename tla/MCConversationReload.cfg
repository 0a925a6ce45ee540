SPECIFICATION Spec
CONSTANTS
    Unassigned = 0
    Written = 2
    Kinds <- MCKinds
    Buffer = 2
    MaxEvents = 3
INVARIANT AckIsOwn
CHECK_DEADLOCK FALSE
