--------------------------- MODULE MCTableHistory ---------------------------
(***************************************************************************)
(* TLC instances of TableHistory: the host h with one or two others.       *)
(***************************************************************************)
EXTENDS TableHistory

CONSTANTS h, a, b
=============================================================================
