----------------------------- MODULE MCSseLane -----------------------------
(* Two frames in every layout: an event and the terminal one, in any order. *)
(* A long line exceeds MaxLine by one; only a long line with an event line  *)
(* and CRLF exceeds MaxFrame.                                               *)
EXTENDS SseLane
=============================================================================
