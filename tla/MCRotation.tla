---------------------------- MODULE MCRotation -----------------------------
(***************************************************************************)
(* TLC instances of Rotation: the host h and a player a, with two pieces.  *)
(***************************************************************************)
EXTENDS Rotation

CONSTANTS h, a, x, y
=============================================================================
