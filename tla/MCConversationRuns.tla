--------------------------- MODULE MCConversationRuns ---------------------------
(* Small conversations; their constants are in the configurations.         *)
EXTENDS ConversationRuns
=============================================================================
