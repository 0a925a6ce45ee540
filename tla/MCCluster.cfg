SPECIFICATION FairSpec
CONSTANTS
    gw1 = gw1
    addr1 = addr1
    addr2 = addr2
    Peer = {gw1}
    Addr = {addr1, addr2}
    None = None
    PeerConfig <- MCConfig
    MaxChanges = 3
INVARIANTS
    
    StaticHealthIsRing
PROPERTIES
    RingFollowsPeers
    PeersFollowRedis
CHECK_DEADLOCK FALSE
