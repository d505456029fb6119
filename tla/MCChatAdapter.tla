--------------------------- MODULE MCChatAdapter ---------------------------
(* Three items: reasoning, an answer and a call in any order, or two calls *)
(* that share one reasoning item.                                          *)
EXTENDS ChatAdapter
MCStyles == {"deltas", "done", "item"}
=============================================================================
