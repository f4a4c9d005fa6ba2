----------------------------- MODULE MCChatTurn -----------------------------
(* Two turns of a session, one side-effect call and one plain one; two       *)
(* queries over two lists of tools, of which the cache holds one.            *)
EXTENDS ChatTurn
=============================================================================
