SPECIFICATION Spec
CONSTANTS
    m1 = m1
    m2 = m2
    alice = alice
    Caller = {m1, m2, m3}
    NoCaller = NoCaller
    Workers = 2
    WorkerID = 1
    MaxSeq = 1
    MaxBackoff = 1
    StartClock = 3
    MaxClock = 5
    Uid = {alice, root}
    Token = 2
    Rate = 3
    Burst = 1
    Interval = 1
    MaxTime = 2
    NoBucket = NoBucket
    From <- MCFrom
    ToGroup = {m3}
    Account = {alice, root}
    AdminUIDs = {root}
    Person = {p, q}
    DevMode = TRUE
    NoRow = NoRow
    NoToken = NoToken
    NoChange = NoChange
    Matches = {m1, m2, m3}
    AskedLimits = {0, 1, 3}
    DefaultLimit = 1
    MaxLimit = 2
    MaxLate = 1
    Budgets <- MCBudgets
    NoListing = NoListing
INVARIANTS
    RateIsBounded
    SavedIsKept
    PasswordIsOwners
    
    SearchComplete
    UsersListed
PROPERTY IdsIncrease
SYMMETRY Symmetry
CHECK_DEADLOCK FALSE
