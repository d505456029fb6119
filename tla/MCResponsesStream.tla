------------------------- MODULE MCResponsesStream -------------------------
(* ResponsesStream for TLC: the values the .cfg files give the constants.  *)
EXTENDS ResponsesStream
=============================================================================
