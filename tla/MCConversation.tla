--------------------------- MODULE MCConversation ---------------------------
(* Two texts, or a file and a forwarded message.                           *)
EXTENDS Conversation

MCKinds == {<<"chat", "chat">>, <<"file", "forward">>}
=============================================================================
