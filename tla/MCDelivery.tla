---------------------------- MODULE MCDelivery ----------------------------
(* Instance of Delivery: a writes to b over a WebSocket connection, and b,   *)
(* over TCP, to a group with a and c; c is never connected.                  *)
EXTENDS Delivery, TLC

CONSTANTS a, b, c, a1, b1, k1, k2

MCOwner == [x \in Conn |-> IF x = a1 THEN a ELSE b]
MCFrom == [k \in Key |-> IF k = k2 THEN b ELSE a]
MCTo == [k \in Key |-> IF k = k2 THEN {a, c} ELSE {b}]
MCGroup == [k \in Key |-> k = k2]
AnyHandler == Permutations(Handler)
=============================================================================
