--------------------------- MODULE MCResponseWriter ---------------------------
(* ResponseWriter with headers and bodies on both sides of the send buffer:  *)
(* the longest response does not fit, and half of the longest header is two  *)
(* of the smallest pieces.                                                   *)
EXTENDS ResponseWriter

MCHeaders == {1, 2, 3, 4}
MCBodies  == {0, 1, 3}
===============================================================================
