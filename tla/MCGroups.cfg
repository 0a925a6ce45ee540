SPECIFICATION GroupsSpec
CONSTANTS
    ann = ann
    bob = bob
    cat = cat
    h1 = h1
    h2 = h2
    None = None
    User <- MCUser
    Handler <- MCHandler
SYMMETRY MCSymmetry
INVARIANTS
    GroupHasMembers
    
    JoinIsAnnounced
PROPERTIES
    OwnershipMoves
