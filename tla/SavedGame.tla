------------------------------ MODULE SavedGame ------------------------------
(***************************************************************************)
(* Saving a game and loading it (Modelization/Game), in the format that    *)
(* the program writes.  A saved game is what a file holds, and what a      *)
(* newcomer gets in ConnectionAccepted.                                    *)
(*                                                                         *)
(* A clone is written with its prototype's id and read as a new clone of   *)
(* it, which has the same name here.  Places, of which the file has two    *)
(* decimals, are abstract.  The XML, the visible area, tabs, owners, mode  *)
(* and stacking are left out, and so is the older format.                  *)
(***************************************************************************)
EXTENDS Commands

Loose(t, b) == SelectSeq(t.stacks[b], LAMBDA s : ~t.attached[s])

SavedPieces(t, s) ==
  IF s = NoStack THEN <<>>
  ELSE [i \in DOMAIN t.pieces[s] |->
          LET p == t.pieces[s][i] IN [piece |-> p, side |-> SideOf(t, p), angle |-> t.angle[p]]]

\* The stacks of a board that are not attached, back to front.
Layout(t, b) ==
  [i \in DOMAIN Loose(t, b) |->
     LET s == Loose(t, b)[i] IN [place |-> Position(t, s), pieces |-> SavedPieces(t, s)]]

Save(t) == [
  layout |-> [b \in Board |-> Layout(t, b)],
  face |-> t.face, visible |-> t.visible,
  hands |-> [q \in {q \in Player : t.hand[q].open} |-> SavedPieces(t, t.hand[q].stack)]]

-----------------------------------------------------------------------------
(* Loading starts from a table with every piece attached.                  *)

BlankTable(face, visible) ==
  LET printed == Counter \cup Prototype
  IN  [pieces |-> [s \in Stack |-> IF s \in Piece THEN <<s>> ELSE <<>>],
       stack |-> [p \in Piece |-> p],
       board |-> [s \in Stack |-> IF s \in printed THEN Sheet ELSE NoBoard],
       pos |-> [s \in Stack |-> Off],
       attached |-> [s \in Stack |-> s \in printed],
       stacks |-> [b \in Board |-> IF b = Sheet THEN SetToSeq(printed) ELSE <<>>],
       side |-> [p \in Piece |-> 0], angle |-> [p \in Piece |-> 0],
       face |-> face, visible |-> visible,
       hand |-> [q \in Player |-> [open |-> FALSE, stack |-> NoStack]],
       fault |-> FALSE]

\* Fault: pieces keep the angle of a new game.
TurnedUpright(t, saved) == SetSide(t, saved.piece, saved.side)

Turned(t, saved) == SetSide([t EXCEPT !.angle[saved.piece] = saved.angle], saved.piece, saved.side)

PunchOut(t, s) == [t EXCEPT !.attached[s] = FALSE]

PutOnTop(t, s, other) == MergeToPosition(t, s, other, Len(t.pieces[s]))

LoadStack(t, b, saved) ==
  LET s == t.stack[saved.pieces[1].piece]
      alone == Relocate(MoveStackToFront(PunchOut(t, s), s, b), s, saved.place)
      Next(u, p) == LET other == u.stack[p.piece] IN Turned(PutOnTop(RemoveStack(u, other), s, other), p)
  IN  OnEach(Next, Tail(saved.pieces), Turned(alone, saved.pieces[1]))

\* Single pieces come first, whatever was behind or in front of them.
Singles(layout) == SelectSeq(layout, LAMBDA saved : Len(saved.pieces) = 1)
Piles(layout) == SelectSeq(layout, LAMBDA saved : Len(saved.pieces) > 1)

LoadBoard(t, b, layout) ==
  OnEach(LAMBDA u, saved : LoadStack(u, b, saved), Singles(layout) \o Piles(layout), t)

TakeOff(t, s) == IF t.board[s] = NoBoard THEN t ELSE RemoveStack(t, s)

LoadHand(t, q, pieces) ==
  LET s == t.stack[pieces[1].piece]
      first == Turned(PunchOut(TakeOff(t, s), s), pieces[1])
      Next(u, p) == LET other == u.stack[p.piece] IN Turned(PutOnTop(TakeOff(u, other), s, other), p)
      open == AddPlayerHand(t, q)
  IN  IF pieces = <<>> THEN open
      ELSE [OnEach(Next, Tail(pieces), first) EXCEPT !.hand[q] = [open |-> TRUE, stack |-> s]]

LoadGame(file) ==
  LET boards == LoadBoard(LoadBoard(BlankTable(file.face, file.visible), Map, file.layout[Map]),
                          Sheet, file.layout[Sheet])
  IN  OnEach(LAMBDA u, q : LoadHand(u, q, file.hands[q]), SetToSeq(DOMAIN file.hands), boards)

=============================================================================
