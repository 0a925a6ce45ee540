------------------------------- MODULE MCHub -------------------------------
(* Instance of Hub and HubImpl: user a has two devices and user b one; two *)
(* of the three dial.                                                      *)
EXTENDS HubImpl

CONSTANTS a, b, a1, a2, b1

MCOwner == [c \in Conn |-> IF c = b1 THEN b ELSE a]
MCChat == {[cmd |-> "chat"]}
=============================================================================
