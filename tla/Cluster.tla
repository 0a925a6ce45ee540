------------------------------ MODULE Cluster ------------------------------
(***************************************************************************)
(* One gateway's view of its peers: ClusterManager (cluster.go) with its   *)
(* discovery loop and its health-check loop, the membership of the hash    *)
(* ring (hashring.go), and the address and connection tables of the        *)
(* GrpcForwarder (grpc_forwarder.go).                                      *)
(*                                                                         *)
(* Every table has a lock of its own, so every step below is one critical  *)
(* section and the two loops and the forwarding handlers interleave        *)
(* between them.                                                           *)
(***************************************************************************)
EXTENDS Naturals, FiniteSets

CONSTANTS
    Peer,        \* node ids of the other gateways
    Addr,        \* gRPC addresses
    None,        \* no address
    PeerConfig,  \* peer_addrs of the configuration: Peer -> Addr or None
    MaxChanges   \* bound: changes of the environment and Redis failures

ASSUME ClusterAssumption ==
    /\ None \notin Addr
    /\ PeerConfig \in [Peer -> Addr \cup {None}]
    /\ MaxChanges \in Nat

VARIABLES
    redis,      \* the node keys in Redis: Peer -> Addr or None
    alive,      \* addresses at which a gateway answers
    changes,    \* changes of the environment so far
    ring,       \* nodes that have replicas on the hash ring
    peerAddrs,  \* GrpcForwarder.peerAddrs
    conns,      \* GrpcForwarder.conns and clients: the address dialled
    health,     \* ClusterManager.peerHealth: absent, good or bad
    disc,       \* the discovery loop
    check,      \* the health-check loop
    fwd         \* a Forward call between getOrDial and the end of the RPC

vars == <<redis, alive, changes, ring, peerAddrs, conns, health, disc, check, fwd>>

NoNode == [p \in Peer |-> None]
Known(m) == {p \in Peer : m[p] # None}

DiscIdle == [at |-> "idle", found |-> NoNode, add |-> {}, remove |-> {},
             node |-> None]
CheckIdle == [at |-> "idle", peers |-> NoNode, todo |-> {}, node |-> None,
              probed |-> "bad"]
FwdIdle == [at |-> "idle", node |-> None, addr |-> None]

\* discoveryLoop runs only in discovery mode "redis".
Discovery == disc.at # "off"

\* NewApp puts every configured peer on the ring; Start marks them healthy.
Init ==
    /\ redis = PeerConfig
    /\ alive = Addr
    /\ changes = 0
    /\ ring = Known(PeerConfig)
    /\ peerAddrs = PeerConfig
    /\ conns = NoNode
    /\ health = [p \in Peer |-> IF PeerConfig[p] # None THEN "good" ELSE "absent"]
    /\ disc \in {DiscIdle, [DiscIdle EXCEPT !.at = "off"]}
    /\ check = CheckIdle
    /\ fwd = FwdIdle

-----------------------------------------------------------------------------
(* The environment: peers register, move, expire, stop and start           *)

Change == changes < MaxChanges /\ changes' = changes + 1

PeerRegisters(p, x) ==
    /\ Discovery
    /\ Change
    /\ redis[p] # x
    /\ redis' = [redis EXCEPT ![p] = x]
    /\ UNCHANGED <<alive, ring, peerAddrs, conns, health, disc, check, fwd>>

PeerStopsOrStarts(x) ==
    /\ Change
    /\ alive' = IF x \in alive THEN alive \ {x} ELSE alive \cup {x}
    /\ UNCHANGED <<redis, ring, peerAddrs, conns, health, disc, check, fwd>>

-----------------------------------------------------------------------------
(* discoverPeers and reconcilePeers                                        *)

\* KEYS, then a GET per key; a key whose GET fails is skipped.
Scan ==
    /\ disc.at = "idle"
    /\ \E skipped \in SUBSET Known(redis) :
          /\ IF skipped = {} THEN UNCHANGED changes ELSE Change
          /\ disc' = [disc EXCEPT !.at = "peers",
                         !.found = [p \in Peer |-> IF p \in skipped THEN None
                                                   ELSE redis[p]]]
    /\ UNCHANGED <<redis, alive, ring, peerAddrs, conns, health, check, fwd>>

\* Mutant: a peer that is known already keeps its old address.
ReconcileNewOnly ==
    /\ disc.at = "peers"
    /\ disc' = [disc EXCEPT !.at = "work",
                   !.add = Known(disc.found) \ Known(peerAddrs),
                   !.remove = Known(peerAddrs) \ Known(disc.found)]
    /\ UNCHANGED <<redis, alive, changes, ring, peerAddrs, conns, health, check, fwd>>

\* currentPeers := forwarder.PeerAddrs(), and what there is to do.
Reconcile ==
    /\ disc.at = "peers"
    /\ disc' = [disc EXCEPT !.at = "work",
                   !.add = {p \in Known(disc.found) : disc.found[p] # peerAddrs[p]},
                   !.remove = Known(peerAddrs) \ Known(disc.found)]
    /\ UNCHANGED <<redis, alive, changes, ring, peerAddrs, conns, health, check, fwd>>

ReconcileDone ==
    /\ disc.at = "work"
    /\ disc.add \cup disc.remove = {}
    /\ disc' = DiscIdle
    /\ UNCHANGED <<redis, alive, changes, ring, peerAddrs, conns, health, check, fwd>>

\* addPeer: forwarder.AddPeer leaves an open connection alone.
AddPeer(p) ==
    /\ disc.at = "work"
    /\ p \in disc.add
    /\ peerAddrs' = [peerAddrs EXCEPT ![p] = disc.found[p]]
    /\ disc' = [disc EXCEPT !.at = "addRing", !.add = @ \ {p}, !.node = p]
    /\ UNCHANGED <<redis, alive, changes, ring, conns, health, check, fwd>>

AddPeerRing ==
    /\ disc.at = "addRing"
    /\ ring' = ring \cup {disc.node}
    /\ disc' = [disc EXCEPT !.at = "addHealth"]
    /\ UNCHANGED <<redis, alive, changes, peerAddrs, conns, health, check, fwd>>

AddPeerHealth ==
    /\ disc.at = "addHealth"
    /\ health' = [health EXCEPT ![disc.node] = "good"]
    /\ disc' = [disc EXCEPT !.at = "work", !.node = None]
    /\ UNCHANGED <<redis, alive, changes, ring, peerAddrs, conns, check, fwd>>

\* removePeer, after all additions.
RemovePeerRing(p) ==
    /\ disc.at = "work"
    /\ disc.add = {}
    /\ p \in disc.remove
    /\ ring' = ring \ {p}
    /\ disc' = [disc EXCEPT !.at = "remAddr", !.remove = @ \ {p}, !.node = p]
    /\ UNCHANGED <<redis, alive, changes, peerAddrs, conns, health, check, fwd>>

\* Mutant: RemovePeer forgets the open connection.
RemovePeerKeepsConn ==
    /\ disc.at = "remAddr"
    /\ peerAddrs' = [peerAddrs EXCEPT ![disc.node] = None]
    /\ disc' = [disc EXCEPT !.at = "remHealth"]
    /\ UNCHANGED <<redis, alive, changes, ring, conns, health, check, fwd>>

RemovePeer ==
    /\ disc.at = "remAddr"
    /\ peerAddrs' = [peerAddrs EXCEPT ![disc.node] = None]
    /\ conns' = [conns EXCEPT ![disc.node] = None]
    /\ disc' = [disc EXCEPT !.at = "remHealth"]
    /\ UNCHANGED <<redis, alive, changes, ring, health, check, fwd>>

RemovePeerHealth ==
    /\ disc.at = "remHealth"
    /\ health' = [health EXCEPT ![disc.node] = "absent"]
    /\ disc' = [disc EXCEPT !.at = "work", !.node = None]
    /\ UNCHANGED <<redis, alive, changes, ring, peerAddrs, conns, check, fwd>>

-----------------------------------------------------------------------------
(* runHealthCheck                                                          *)

\* currentPeers := forwarder.PeerAddrs().
CheckStarts ==
    /\ check.at = "idle"
    /\ Known(peerAddrs) # {}
    /\ check' = [check EXCEPT !.at = "probe", !.peers = peerAddrs,
                              !.todo = Known(peerAddrs)]
    /\ UNCHANGED <<redis, alive, changes, ring, peerAddrs, conns, health, disc, fwd>>

\* The next round of the loop over currentPeers, or its end.
Checked(c) ==
    IF c.todo = {} THEN CheckIdle ELSE [c EXCEPT !.at = "probe", !.node = None]

\* probePeer(addr) of the next peer, at the address in the copy.
Probe(p) ==
    /\ check.at = "probe"
    /\ p \in check.todo
    /\ check' = [check EXCEPT !.at = "compare", !.todo = @ \ {p}, !.node = p,
                 !.probed = IF check.peers[p] \in alive THEN "good" ELSE "bad"]
    /\ UNCHANGED <<redis, alive, changes, ring, peerAddrs, conns, health, disc, fwd>>

\* Mutant: only a recovery changes anything.
CompareRecoveryOnly ==
    LET was == health[check.node] = "good" IN
    /\ check.at = "compare"
    /\ check' = IF check.probed = "bad" \/ was THEN Checked(check)
                ELSE [check EXCEPT !.at = "ring"]
    /\ UNCHANGED <<redis, alive, changes, ring, peerAddrs, conns, health, disc, fwd>>

\* wasHealthy := peerHealth[nodeID]; a missing entry reads as false.
Compare ==
    LET was == health[check.node] = "good" IN
    /\ check.at = "compare"
    /\ check' = IF (check.probed = "good") = was THEN Checked(check)
                ELSE [check EXCEPT !.at = "ring"]
    /\ UNCHANGED <<redis, alive, changes, ring, peerAddrs, conns, health, disc, fwd>>

\* Mutant: a peer that recovered is only marked healthy.
ChangeRingForgets ==
    /\ check.at = "ring"
    /\ ring' = IF check.probed = "good" THEN ring ELSE ring \ {check.node}
    /\ check' = [check EXCEPT !.at = "health"]
    /\ UNCHANGED <<redis, alive, changes, peerAddrs, conns, health, disc, fwd>>

\* hr.Add or hr.Remove.
ChangeRing ==
    /\ check.at = "ring"
    /\ ring' = IF check.probed = "good" THEN ring \cup {check.node}
               ELSE ring \ {check.node}
    /\ check' = [check EXCEPT !.at = "health"]
    /\ UNCHANGED <<redis, alive, changes, peerAddrs, conns, health, disc, fwd>>

ChangeHealth ==
    /\ check.at = "health"
    /\ health' = [health EXCEPT ![check.node] = check.probed]
    /\ check' = Checked(check)
    /\ UNCHANGED <<redis, alive, changes, ring, peerAddrs, conns, disc, fwd>>

-----------------------------------------------------------------------------
(* GrpcForwarder.Forward for a user that the ring assigns to p             *)

\* getOrDial under the lock: the client of an earlier dial, or a dial of the
\* known address.  The call fails when the address is unknown or the dial does.
GetOrDial(p) ==
    LET x == IF conns[p] # None THEN conns[p] ELSE peerAddrs[p] IN
    /\ fwd.at = "idle"
    /\ p \in ring
    /\ x # None
    /\ conns[p] # None \/ x \in alive
    /\ conns' = [conns EXCEPT ![p] = x]
    /\ fwd' = [at |-> "rpc", node |-> p, addr |-> x]
    /\ UNCHANGED <<redis, alive, changes, ring, peerAddrs, health, disc, check>>

\* The RPC succeeds, or it fails and the connection of the node is evicted,
\* whichever connection that is by now.
Rpc ==
    /\ fwd.at = "rpc"
    /\ \/ fwd.addr \in alive /\ UNCHANGED conns
       \/ conns' = [conns EXCEPT ![fwd.node] = None]
    /\ fwd' = FwdIdle
    /\ UNCHANGED <<redis, alive, changes, ring, peerAddrs, health, disc, check>>

-----------------------------------------------------------------------------
DiscoveryStep ==
    \/ Reconcile
    \/ ReconcileDone
    \/ \E p \in Peer : AddPeer(p)
    \/ AddPeerRing
    \/ AddPeerHealth
    \/ \E p \in Peer : RemovePeerRing(p)
    \/ RemovePeer
    \/ RemovePeerHealth

CheckStep ==
    \/ CheckStarts
    \/ \E p \in Peer : Probe(p)
    \/ Compare
    \/ ChangeRing
    \/ ChangeHealth

Next ==
    \/ \E p \in Peer, x \in Addr \cup {None} : PeerRegisters(p, x)
    \/ \E x \in Addr : PeerStopsOrStarts(x)
    \/ Scan
    \/ DiscoveryStep
    \/ CheckStep
    \/ \E p \in Peer : GetOrDial(p)
    \/ Rpc

Spec == Init /\ [][Next]_vars

\* The tickers fire for ever and every loop body ends.
FairSpec == Spec /\ WF_vars(Scan \/ DiscoveryStep) /\ WF_vars(CheckStep)

-----------------------------------------------------------------------------
(* Properties                                                              *)

MaybeAddr == Addr \cup {None}

TypeOK ==
    /\ redis \in [Peer -> MaybeAddr]
    /\ alive \subseteq Addr
    /\ changes \in 0..MaxChanges
    /\ ring \subseteq Peer
    /\ peerAddrs \in [Peer -> MaybeAddr]
    /\ conns \in [Peer -> MaybeAddr]
    /\ health \in [Peer -> {"absent", "good", "bad"}]
    /\ disc \in [at : {"off", "idle", "peers", "work", "addRing", "addHealth",
                       "remAddr", "remHealth"},
                 found : [Peer -> MaybeAddr], add : SUBSET Peer,
                 remove : SUBSET Peer, node : Peer \cup {None}]
    /\ check \in [at : {"idle", "probe", "compare", "ring", "health"},
                  peers : [Peer -> MaybeAddr], todo : SUBSET Peer,
                  node : Peer \cup {None}, probed : {"good", "bad"}]
    /\ fwd \in [at : {"idle", "rpc"}, node : Peer \cup {None}, addr : MaybeAddr]

\* A gRPC connection exists only for a peer whose address is known: a Forward
\* that dials while the peer is removed, or evicts after it was added again,
\* leaves no connection behind that nobody would close.
NoOrphanConn == \A p \in Peer : conns[p] # None => peerAddrs[p] # None

\* cluster.go:44-46: with static peers, peerHealth says whether a peer is on the
\* hash ring, whenever runHealthCheck is not in the middle of a change.
StaticHealthIsRing ==
    ~Discovery /\ check.at = "idle"
        => \A p \in Peer : health[p] = "good" <=> p \in ring

\* cluster.go:277: a peer that answers, at the address everyone agrees on, is
\* brought back into the ring and stays there; one that does not answer is taken
\* out and stays out.  With Redis discovery a peer may stay on the wrong side for
\* ever, but only with a health that says otherwise: addPeer and runHealthCheck
\* write ring and peerHealth in critical sections of their own, and neither writes
\* again while the health agrees with the probes.
RingFollowsPeers ==
    \A p \in Peer :
        /\ <>[](peerAddrs[p] \in alive /\ (Discovery => redis[p] = peerAddrs[p]))
               => \/ <>[](p \in ring)
                  \/ Discovery /\ <>[](p \notin ring /\ health[p] = "good")
        /\ <>[](peerAddrs[p] \in Addr \ alive)
               => \/ <>[](p \notin ring)
                  \/ Discovery /\ <>[](p \in ring /\ health[p] = "bad")

\* The forwarder's addresses follow Redis once Redis is stable.
PeersFollowRedis ==
    \A p \in Peer : \A x \in MaybeAddr :
        Discovery /\ <>[](redis[p] = x) => <>[](peerAddrs[p] = x)
=============================================================================
