SPECIFICATION Spec
CONSTANTS
    a = a
    b = b
    c = c
    a1 = a1
    b1 = b1
    k1 = k1
    k2 = k2
    NoConn = NoConn
    Uid = {a, b, c}
    Conn = {a1, b1}
    Owner <- MCOwner
    Chat = {}
    MayRefuse = TRUE
    Handler = {h1, h2}
    Key = {k1, k2}
    From <- MCFrom
    To <- MCTo
    Group <- MCGroup
    OfflineMaxSize = 1
    Pooled = {b1}
    Expires = TRUE
    GroupLookupFails = TRUE
    MaxId = 2
INVARIANTS
    ExactlyOnePlace
    SettledBeforeMark
    RetryHasReason
SYMMETRY AnyHandler
CHECK_DEADLOCK FALSE
