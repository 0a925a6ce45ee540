---------------------------- MODULE MCTcpGateway ----------------------------
(* Instance of TcpGateway: user a connects twice, on two event loops.       *)
EXTENDS TcpGateway

CONSTANT a

MCOwner == [c \in Conn |-> a]
MCLoop == [c \in Conn |-> c]
=============================================================================
