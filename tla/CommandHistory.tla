--------------------------- MODULE CommandHistory ---------------------------
(***************************************************************************)
(* CommandManager: what a program has executed, and can undo and redo.     *)
(*                                                                         *)
(* A change is a number, a table the sequence of the changes that made it. *)
(* An entry of the undo stack is a command sequence of the code; a         *)
(* rotation joins the entry of the rotation that came just before it (all  *)
(* rotations here turn the same piece).  Stacks have their top last.       *)
(*                                                                         *)
(* Commands also start animations and restore the board that was visible;  *)
(* the table here is the one that all animations lead to.                  *)
(***************************************************************************)
EXTENDS Naturals, SequencesExt

CONSTANT
  UndoLimit  \* how many entries the undo stack keeps; 100 in the code

ASSUME UndoLimitAssumption == UndoLimit \in Nat \ {0}

\* A table whose undo stack is empty: after a game was loaded, or when a player joins.
Cleared(t) == [table |-> t, undo |-> <<>>, redo |-> <<>>]

\* Fault: what was undone can still be redone.
ClearedUndo(h) == [h EXCEPT !.undo = <<>>]
ClearUndo(h) == Cleared(h.table)

\* May this change join the last entry?
Aggregates(h, rotation) == rotation /\ h.undo # <<>> /\ Last(h.undo).rotation

\* ExecuteCommandSequence.
\* Fault: a change that joins the last entry is undone as its first.
DoneBackwards(h, change, rotation) ==
  [table |-> Append(h.table, change),
   undo |-> IF Aggregates(h, rotation)
            THEN Append(Front(h.undo), [Last(h.undo) EXCEPT !.changes = <<change>> \o @])
            ELSE Append(IF Len(h.undo) >= UndoLimit THEN Tail(h.undo) ELSE h.undo,
                        [changes |-> <<change>>, rotation |-> rotation]),
   redo |-> <<>>]
Done(h, change, rotation) ==
  [table |-> Append(h.table, change),
   undo |-> IF Aggregates(h, rotation)
            THEN Append(Front(h.undo), [Last(h.undo) EXCEPT !.changes = Append(@, change)])
            ELSE Append(IF Len(h.undo) >= UndoLimit THEN Tail(h.undo) ELSE h.undo,
                        [changes |-> <<change>>, rotation |-> rotation]),
   redo |-> <<>>]

\* Undo: nothing happens when there is nothing to undo.
Undone(h) ==
  IF h.undo = <<>> THEN h
  ELSE [table |-> SubSeq(h.table, 1, Len(h.table) - Len(Last(h.undo).changes)),
        undo |-> Front(h.undo),
        redo |-> Append(h.redo, Last(h.undo))]

\* Redo
Redone(h) ==
  IF h.redo = <<>> THEN h
  ELSE [table |-> h.table \o Last(h.redo).changes,
        undo |-> Append(h.undo, Last(h.redo)),
        redo |-> Front(h.redo)]

\* The table ends with the changes of these entries, one after another: ends[i] is
\* where those of the i-th end.
CutAt(t, entries, ends) ==
  /\ ends[Len(entries)] = Len(t)
  /\ \A i, j \in DOMAIN ends : i <= j => ends[i] <= ends[j]
  /\ \A i \in DOMAIN entries : SubSeq(t, ends[i - 1] + 1, ends[i]) = entries[i].changes
EndsWith(t, entries) == \E ends \in [0 .. Len(entries) -> 0 .. Len(t)] : CutAt(t, entries, ends)

\* What can be undone is what was done last, in this order.
UndoesTheLatest(h) == EndsWith(h.table, h.undo)
=============================================================================
