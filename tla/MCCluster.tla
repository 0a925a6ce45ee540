----------------------------- MODULE MCCluster -----------------------------
(* Instance of Cluster: one peer that may move between two addresses.      *)
EXTENDS Cluster

CONSTANTS gw1, addr1, addr2

MCConfig == [n \in Peer |-> addr1]
=============================================================================
