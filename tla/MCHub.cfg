SPECIFICATION ImplSpec
CONSTANTS
    a = a
    b = b
    a1 = a1
    a2 = a2
    b1 = b1
    NoConn = NoConn
    Uid = {a, b}
    Conn = {a1, a2, b1}
    Owner <- MCOwner
    SendBufSize = 1
    MaxConnections = 1
    MaxDials = 2
    Chat <- MCChat
    MaxFrames = 1
INVARIANTS
    ServingIsRegistered
    ClosedIsUnregistered
    CapacityRespected
PROPERTIES
    ImplementsConnections
    DeadIsUnregistered
CHECK_DEADLOCK FALSE
