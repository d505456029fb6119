--------------------------- MODULE MCChatStream ---------------------------
(* Three blocks: reasoning, an answer and a call, or two calls.            *)
EXTENDS ChatStream
MCBlocks == 0 .. 2
=============================================================================
