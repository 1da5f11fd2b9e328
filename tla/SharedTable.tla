---------------------------- MODULE SharedTable -----------------------------
(***************************************************************************)
(* What the players of a session are promised: there is one table.  It has *)
(* a past, the sequence of its successive states, which is decided once    *)
(* and only grows.  Every player who follows the game sees one of these    *)
(* states and moves through them in order, none skipped, until he sees the *)
(* last one.  A player who joins begins at some state of the past.         *)
(***************************************************************************)
EXTENDS Naturals, Sequences

CONSTANTS
  Player,  \* those who may follow the game
  Empty    \* the table at the start

VARIABLES
  past,  \* the states of the table so far
  at,    \* at[p]: which of them player p sees; 0 when he does not follow
  view   \* view[p]: what he sees

sharedVars == <<past, at, view>>

SharedInit ==
  /\ past = <<Empty>>
  /\ at \in [Player -> {0, 1}]
  /\ view = [p \in Player |-> Empty]

\* The next state of the table is decided.
Decide ==
  /\ Len(past') = Len(past) + 1
  /\ SubSeq(past', 1, Len(past)) = past
  /\ UNCHANGED <<at, view>>

\* Player p now sees state i of the past.
See(p, i) ==
  /\ at' = [at EXCEPT ![p] = i]
  /\ view' = [view EXCEPT ![p] = past[i]]
  /\ past' = past

Follow(p) == at[p] \in 1 .. Len(past) - 1 /\ See(p, at[p] + 1)

Join(p) == at[p] = 0 /\ \E i \in 1 .. Len(past) : See(p, i)

Quit(p) ==
  /\ at[p] # 0
  /\ at' = [at EXCEPT ![p] = 0]
  /\ view' = [view EXCEPT ![p] = Empty]
  /\ past' = past

SharedNext == Decide \/ \E p \in Player : Follow(p) \/ Join(p) \/ Quit(p)

SharedSafety == SharedInit /\ [][SharedNext]_sharedVars

SharedSpec == SharedSafety /\ \A p \in Player : WF_sharedVars(Follow(p))
=============================================================================
