---------------------------- MODULE TableHistory ----------------------------
(***************************************************************************)
(* TableSync with a history variable, and the refinement it is there for:  *)
(* the programs of the players implement one shared table.                 *)
(*                                                                         *)
(* Whenever the server broadcasts a packet, decided grows by the state in  *)
(* which a program that was in the state before ends by handling it.       *)
(***************************************************************************)
EXTENDS TableSync

VARIABLE decided

historyVars == <<vars, decided>>

\* The state of a program after a broadcast.
After(h, body) ==
  CASE body.type = "ChangeAccepted" -> Applied(h, body.req)
    [] body.type = "ShuffleResult" -> Done(h, body.change, FALSE)
    [] body.type \in {"GameLoaded", "GameBoxHasChanged"} -> Cleared(<<body.change>>)
    [] body.type = "PlayerHasJoined" -> ClearUndo(h)
    [] OTHER -> h

HistoryInit == Init /\ decided = <<Cleared(<<>>)>>

HistoryNext ==
  \/ \E c \in Client :
       /\ Relaying(c)
       /\ decided' = IF relayed' > relayed
                     THEN Append(decided, After(Last(decided), Head(up[c]).body))
                     ELSE decided
  \/ ProgramStep /\ decided' = decided

HistorySpec == HistoryInit /\ [][HistoryNext]_historyVars /\ Fairness

\* Those who follow the game: not the host while a game of his is on its way, nor
\* a program whose table went through a race.
Follows(c) == Following(c) /\ (c = Host => ~Loading)

\* What they see of the table, and which of its states that is.
Past == [i \in DOMAIN decided |-> decided[i].table]
At(c) == IF Follows(c) THEN pos[c] + 1 ELSE 0
View(c) == IF Follows(c) THEN history[c].table ELSE <<>>

Shared == INSTANCE SharedTable WITH
  Player <- Client,
  Empty <- <<>>,
  past <- Past,
  at <- [c \in Client |-> At(c)],
  view <- [c \in Client |-> View(c)]

\* The players' programs implement one shared table, and each of them sees its
\* last state in the end.
ImplementsSharedTable == Shared!SharedSpec
=============================================================================
