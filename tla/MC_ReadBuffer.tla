--------------------------- MODULE MC_ReadBuffer ---------------------------
(* TLC instances of ReadBuffer. *)
EXTENDS ReadBuffer
=============================================================================
