-------------------------- MODULE MCPersistence --------------------------
(* Instance of Persistence: one or two messages, with room in the topic    *)
(* for duplicates and malformed records.                                   *)
EXTENDS Persistence
=============================================================================
