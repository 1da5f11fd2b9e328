---------------------------- MODULE MCTableHaste ----------------------------
(* The small games of MCTablePlay, in a program at rest and in another.    *)
EXTENDS MCTablePlay, TableHaste
=============================================================================
