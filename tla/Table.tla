------------------------------- MODULE Table -------------------------------
(***************************************************************************)
(* The table of a game: boards with stacks of pieces on them, from back to *)
(* front, and the players' hands.  Commands do not change it, they queue   *)
(* animations (Modelization/Animations), which do when they end.           *)
(*                                                                         *)
(* A table is a record, so that one model can hold several of them.  There *)
(* is a map and a counter sheet, on which all pieces are printed.  A piece *)
(* and its first stack have the same name.  Positions are abstract: the    *)
(* places a piece is moved to, its home (where it is printed), and Off,    *)
(* just outside what the player sees.  The stack inspector, bounding boxes *)
(* and what an animation shows before its end are left out.                *)
(***************************************************************************)
EXTENDS Integers, FiniteSets, SequencesExt

CONSTANTS
  Counter,      \* the pieces that lie on the table or in a hand once
  Card,         \* those of them that are cards
  Prototype,    \* terrain prototypes: they stay on the sheet and are cloned
  Clone,        \* terrain clones, the ones not made yet included
  PrototypeOf,  \* the prototype of every clone
  NewStack,     \* the stacks that commands make
  Player,
  Place,        \* where players put stacks
  HomeOf        \* where a piece is printed on its sheet

Piece == Counter \cup Prototype \cup Clone
Stack == Piece \cup NewStack
NoStack == 0

Map == "map"
Sheet == "sheet"
Board == {Map, Sheet}
NoBoard == "no board"
Off == 0

Turn == 4            \* the detents of a full turn (24 in the code)

ASSUME TableAssumption ==
  /\ Card \subseteq Counter
  /\ PrototypeOf \in [Clone -> Prototype]
  /\ NoStack \notin Stack
  /\ Off \notin Place
  /\ \A p \in Piece : HomeOf[p] \notin Place \cup {Off}

Tables == [
  pieces : [Stack -> Seq(Piece)],        \* bottom to top
  stack : [Piece -> Stack],
  board : [Stack -> Board \cup {NoBoard}],
  pos : [Stack -> Int],
  attached : [Stack -> BOOLEAN],         \* not punched yet
  stacks : [Board -> Seq(Stack)],        \* back to front
  side : [Piece -> {0, 1}],
  angle : [Piece -> 0 .. Turn - 1],
  face : {0, 1},                         \* the visible side of the sheet
  visible : Board,                       \* the board that the players see
  hand : [Player -> [open : BOOLEAN, stack : Stack \cup {NoStack}]],
  fault : BOOLEAN]                       \* has the program thrown?

Throws(t) == [t EXCEPT !.fault = TRUE]

-----------------------------------------------------------------------------
(* Reading the table.                                                      *)

\* Sides of attached pieces are those of the sheet, or the face of a card.
SideOf(t, p) ==
  IF p \in Clone \/ ~t.attached[t.stack[p]] THEN t.side[p]
  ELSE IF p \in Card THEN 0 ELSE t.face

Position(t, s) == IF t.attached[s] THEN HomeOf[t.pieces[s][1]] ELSE t.pos[s]

\* Stacks and pieces are counted from 0; -1 when absent.
IndexIn(seq, e) ==
  IF Contains(seq, e) THEN (CHOOSE i \in DOMAIN seq : seq[i] = e) - 1 ELSE -1

ZOrder(t, s) == IndexIn(t.stacks[t.board[s]], s)

IndexInStack(t, p) == IndexIn(t.pieces[t.stack[p]], p)

HandCount(t, q) ==
  IF t.hand[q].stack = NoStack THEN 0 ELSE Len(t.pieces[t.hand[q].stack])

-----------------------------------------------------------------------------
(* Boards and stacks.                                                      *)

RemoveStack(t, s) ==
  IF t.board[s] = NoBoard THEN Throws(t)
  ELSE [t EXCEPT !.stacks[t.board[s]] = Remove(@, s), !.board[s] = NoBoard]

MoveStackToZOrder(t, s, b, z) ==
  IF t.board[s] = b /\ ZOrder(t, s) = z THEN t
  ELSE LET u == IF t.board[s] = NoBoard THEN t ELSE RemoveStack(t, s)
       IN  IF z \in 0 .. Len(u.stacks[b])
           THEN [u EXCEPT !.stacks[b] = InsertAt(@, z + 1, s), !.board[s] = b]
           ELSE Throws(u)

MoveStackToFront(t, s, b) ==
  MoveStackToZOrder(t, s, b, Len(t.stacks[b]) - (IF t.board[s] = b THEN 1 ELSE 0))

MoveStackToBack(t, s, b) == MoveStackToZOrder(t, s, b, 0)

\* An array of no pieces is asserted not to happen.
Split(t, s, ps, new) ==
  IF ps = <<>> \/ ~(ToSet(ps) \subseteq ToSet(t.pieces[s])) THEN Throws(t)
  ELSE [t EXCEPT !.pieces = [@ EXCEPT ![s] = SelectSeq(@, LAMBDA p : ~Contains(ps, p)),
                                      ![new] = ps],
                 !.stack = [p \in Piece |-> IF Contains(ps, p) THEN new ELSE @[p]]]

MergeToPosition(t, s, other, i) ==
  LET ps == t.pieces[other] IN
  IF i > Len(t.pieces[s]) THEN Throws(t)
  ELSE [t EXCEPT !.pieces[s] = SubSeq(@, 1, i) \o ps \o SubSeq(@, i + 1, Len(@)),
                 !.stack = [p \in Piece |-> IF Contains(ps, p) THEN s ELSE @[p]]]

\* Fault: a piece is attached with the angle it had.
SetAttachedAskew(t, s) == [t EXCEPT !.attached[s] = TRUE]

\* A stack that is attached again stands upright.
SetAttached(t, s) ==
  IF t.attached[s] THEN t
  ELSE [t EXCEPT !.attached[s] = TRUE,
                 !.angle = [p \in Piece |-> IF Contains(t.pieces[s], p) THEN 0 ELSE @[p]]]

RearrangePieces(t, s, ps) == [t EXCEPT !.pieces[s] = ps]

\* Setting the side of an attached piece does nothing.
SetSide(t, p, side) ==
  IF p \notin Clone /\ t.attached[t.stack[p]] THEN t ELSE [t EXCEPT !.side[p] = side]

AddPlayerHand(t, q) ==
  IF t.hand[q].open THEN Throws(t) ELSE [t EXCEPT !.hand[q].open = TRUE]

RemovePlayerHand(t, q) ==
  IF t.hand[q].stack # NoStack THEN Throws(t) ELSE [t EXCEPT !.hand[q].open = FALSE]

=============================================================================
