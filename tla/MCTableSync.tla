---------------------------- MODULE MCTableSync -----------------------------
(***************************************************************************)
(* TLC instances of TableSync: the host h with one or two other players.   *)
(***************************************************************************)
EXTENDS TableSync, TLC

CONSTANTS h, a, b

\* The players other than the host play the same part.
Others == Permutations(Client \ {Host})
=============================================================================
