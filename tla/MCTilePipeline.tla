--------------------------- MODULE MCTilePipeline ---------------------------
(***************************************************************************)
(* TLC instances of TilePipeline: a processor with two cores, and so with  *)
(* two compression threads, and both buffers.                              *)
(***************************************************************************)
EXTENDS TilePipeline

CONSTANTS w1, w2

TwoBuffers == {"tile", "texture"}
=============================================================================
