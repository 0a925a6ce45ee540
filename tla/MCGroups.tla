------------------------------ MODULE MCGroups ------------------------------
(* A small instance of Groups: three users and two requests at a time.     *)
EXTENDS Groups, TLC

CONSTANTS ann, bob, cat, h1, h2

MCUser == {ann, bob, cat}
MCHandler == {h1, h2}
MCSymmetry == Permutations(MCUser) \cup Permutations(MCHandler)
=============================================================================
