SPECIFICATION Spec
CONSTANTS
    a = a
    NoConn = 0
    Uid = {a}
    Conn = {1, 2}
    Owner <- MCOwner
    Fd = {7, 8}
    Loop <- MCLoop
    Worker = {1}
    QueueSize = 1
    MaxFrames = 1
INVARIANTS
    PoolOutlivesLoops
    TablesAgree
PROPERTIES
    SilentIsUnregistered
    QueuedIsRouted
CHECK_DEADLOCK FALSE
