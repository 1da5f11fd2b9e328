------------------------------ MODULE MCRoster ------------------------------
(* Two instances of one player's program, and the host.                    *)
EXTENDS Roster

CONSTANTS h, a, b

MCGuidOf == [c \in Client |-> IF c = h THEN "guid h" ELSE "guid a"]

MCColors == <<"yellow", "blue", "green">>

\* Of what follows once somebody has hurried, only the types of the lists are
\* claimed: TLC looks one step past it.
Unhurried == ~hurried

\* a and b differ in nothing.
Instances == Permutations({a, b})
=============================================================================
