SPECIFICATION FriendsSpec
CONSTANTS
    a = a
    b = b
    User = {a, b}
    Pages <- MCPages
    MaxClicks = 5
    MaxLoads = 2
INVARIANTS
    FriendsConsented
    ShownIsReal
    
CHECK_DEADLOCK FALSE
