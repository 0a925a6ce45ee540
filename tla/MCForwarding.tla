---------------------------- MODULE MCForwarding ----------------------------
(* A small instance of Forwarding: two gateways and two messages.          *)
EXTENDS Forwarding, TLC

CONSTANTS gw1, gw2, msg1, msg2

MCGateway == {gw1, gw2}
MCMsg == {msg1, msg2}
MCFrom == (msg1 :> gw1) @@ (msg2 :> gw2)
=============================================================================
