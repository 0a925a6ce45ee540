SPECIFICATION FwdSpec
CONSTANTS
    gw1 = gw1
    gw2 = gw2
    msg1 = msg1
    msg2 = msg2
    Gateway <- MCGateway
    Msg <- MCMsg
    From <- MCFrom
    OfflineMaxSize = 1
    MaxFaults = 1
INVARIANTS
    LossHasReason
    CopyHasReason

    
