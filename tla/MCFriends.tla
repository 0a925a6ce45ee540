----------------------------- MODULE MCFriends -----------------------------
(* Instance of Friends: two users, both or one of them with a web page.      *)
EXTENDS Friends

CONSTANTS a, b

MCPages == {{a, b}, {a}}
=============================================================================
