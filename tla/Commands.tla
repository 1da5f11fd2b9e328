------------------------------ MODULE Commands ------------------------------
(***************************************************************************)
(* The commands that can be undone (Modelization/Commands), one operator   *)
(* for each class.  A command                                              *)
(*   x  has the arguments of its constructor and the stacks it made there: *)
(*      src and dst, the stack that it takes pieces from and the one that  *)
(*      gets them; mid, the stack on the way; ps, the pieces; bot and at,  *)
(*      indices in src and dst; b and pos, a board and a place; q, a hand; *)
(*   d  memorizes the table in Do, and again in most cases in Redo;        *)
(*   t  meets a table when it is done or undone;                           *)
(*   f  is done for the first time, or done again.                         *)
(* Given these, it has the stacks whose animations it has ended first      *)
(* (uses) and launches the animations of go when it is done, and of back   *)
(* when it is undone.                                                      *)
(***************************************************************************)
EXTENDS Animations

Command(uses, go, back) == [uses |-> uses, go |-> go, back |-> back]

\* The clones in some pieces that have the same prototype as a piece.
Terrain(p) == IF p \in Clone THEN PrototypeOf[p] ELSE p
Twins(ps, p) == {j \in DOMAIN ps : ps[j] \in Clone /\ PrototypeOf[ps[j]] = Terrain(p)}

\* What commands memorize of the table.
Memorized(x, t) == [
  board |-> t.board[x.src], pos |-> Position(t, x.src), pieces |-> t.pieces[x.src],
  z |-> IF t.board[x.src] = NoBoard THEN -1 ELSE ZOrder(t, x.src),
  side |-> [p \in Piece |-> SideOf(t, p)], angle |-> t.angle,
  place |-> Position(t, x.dst), sideAfter |-> IF t.pieces[x.dst] = <<>> THEN 0 ELSE SideOf(t, t.pieces[x.dst][1]),
  twin |-> x.ps # <<>> /\ Twins(t.pieces[x.dst], x.ps[1]) # {}]

\* A stack appears on a board: at once when its player drops it, and else
\* from where it was, or from the edge of the screen.
Drop(s, b, place, f, same) ==
  <<MoveToFrontOfBoard(<<s>>, b),
    IF f THEN MoveStackInstantly(s, place)
    ELSE IF same THEN MoveStack(s, place) ELSE MoveStackFromEdgeOfScreen(s, place)>>

-----------------------------------------------------------------------------
(* Whole stacks, to a place on a board.                                    *)

\* Fault: a stack comes back in front of the others.
GoBackInFront(x, d, same) ==
  IF same THEN <<MoveStack(x.src, d.pos)>> ELSE Drop(x.src, d.board, d.pos, FALSE, FALSE)

GoBack(x, d, same) ==
  Append(IF same THEN <<MoveStack(x.src, d.pos)>> ELSE Drop(x.src, d.board, d.pos, FALSE, FALSE),
         SetZOrder(x.src, d.z))

MoveStackCommand(x, d, t, f) ==
  Command({x.src}, Drop(x.src, t.board[x.src], x.pos, FALSE, TRUE), GoBack(x, d, TRUE))
MoveStackFromOtherBoardCommand(x, d, t, f) ==
  Command({x.src}, Drop(x.src, x.b, x.pos, FALSE, FALSE), GoBack(x, d, FALSE))
DragDropStackCommand(x, d, t, f) ==
  Command({x.src}, Drop(x.src, t.board[x.src], x.pos, f, TRUE), GoBack(x, d, TRUE))
DragDropStackFromOtherBoardCommand(x, d, t, f) ==
  Command({x.src}, Drop(x.src, x.b, x.pos, f, FALSE), GoBack(x, d, FALSE))

-----------------------------------------------------------------------------
(* Attached pieces are punched out, and returned when that is undone.  A   *)
(* terrain prototype stays where it is: a new clone of it is dropped.      *)

Punch(x, d) == DetachStacks(<<x.src>>, <<d.side[x.ps[1]]>>, <<>>)
Return(ss) == <<ReturnStacks(ss), AttachStacks(ss)>>
ToEdge(s) == <<MoveStackToEdgeOfScreen(s), AttachStacks(<<s>>)>>

MoveAttachedStackCommand(x, d, t, f) ==
  Command({x.src}, <<Punch(x, d)>> \o Drop(x.src, t.board[x.src], x.pos, FALSE, TRUE), Return(<<x.src>>))
MoveAttachedStackFromOtherBoardCommand(x, d, t, f) ==
  Command({x.src}, <<Punch(x, d)>> \o Drop(x.src, x.b, x.pos, FALSE, FALSE), ToEdge(x.src))

DragDropAttachedStackCommand(x, d, t, f) ==
  IF x.src \in Prototype
  THEN Command({IF f THEN x.src ELSE x.mid}, Drop(x.mid, t.board[x.src], x.pos, f, TRUE),
               <<ReturnStacks(<<x.mid>>), RemoveTerrain(x.mid)>>)
  ELSE Command({x.src}, <<Punch(x, d)>> \o Drop(x.src, t.board[x.src], x.pos, f, TRUE),
               Return(<<x.src>>))
DragDropAttachedStackFromOtherBoardCommand(x, d, t, f) ==
  IF x.src \in Prototype
  THEN Command({IF f THEN x.src ELSE x.mid}, Drop(x.mid, x.b, x.pos, f, FALSE),
               <<MoveStackToEdgeOfScreen(x.mid), RemoveTerrain(x.mid)>>)
  ELSE Command({x.src}, <<Punch(x, d)>> \o Drop(x.src, x.b, x.pos, f, FALSE), ToEdge(x.src))

-----------------------------------------------------------------------------
(* Part of a stack: some selected pieces, the top of it, or one piece.     *)

TopOfStack(x, d) == SubSeq(d.pieces, x.bot + 1, Len(d.pieces))
Take(x, ps) == <<SplitStack(x.src, ps, x.mid)>>
PutBack(x, t, i, same) ==
  Append(Drop(x.mid, t.board[x.src], Position(t, x.src), FALSE, same), MergeStacks(x.src, <<x.mid>>, i))
Deselect(x, d, t, same) ==
  Append(IF same THEN <<MoveStack(x.mid, Position(t, x.src)), MergeStacks(x.src, <<x.mid>>, 0)>>
         ELSE PutBack(x, t, 0, FALSE),
         RearrangeStack(x.src, d.pieces))

MoveSubSelectionCommand(x, d, t, f) ==
  Command({x.src, x.mid}, Take(x, x.ps) \o Drop(x.mid, t.board[x.src], x.pos, FALSE, TRUE),
          Deselect(x, d, t, TRUE))
MoveSubSelectionFromOtherBoardCommand(x, d, t, f) ==
  Command({x.src, x.mid}, Take(x, x.ps) \o Drop(x.mid, x.b, x.pos, FALSE, FALSE),
          Deselect(x, d, t, FALSE))
DragDropTopOfStackCommand(x, d, t, f) ==
  Command({x.src, x.mid}, Take(x, TopOfStack(x, d)) \o Drop(x.mid, t.board[x.src], x.pos, f, TRUE),
          <<MoveStack(x.mid, Position(t, x.src)), MergeStacks(x.src, <<x.mid>>, x.bot)>>)
DragDropTopOfStackFromOtherBoardCommand(x, d, t, f) ==
  Command({x.src, x.mid}, Take(x, TopOfStack(x, d)) \o Drop(x.mid, x.b, x.pos, f, FALSE),
          PutBack(x, t, x.bot, FALSE))
DragDropPieceCommand(x, d, t, f) ==
  LET same == t.board[x.src] = x.b IN
  Command({x.src, x.mid}, Take(x, x.ps) \o Drop(x.mid, x.b, x.pos, f, same),
          PutBack(x, t, IndexIn(d.pieces, x.ps[1]), same))

\* The index is the one after the piece has been taken out.
DragDropPieceIntoSameStackCommand(x, d, t, f) ==
  LET was == IndexIn(d.pieces, x.ps[1]) IN
  Command({x.src}, <<RearrangeStack(x.src, Reinsert(d.pieces, was, x.at))>>,
          <<RearrangeStack(x.src, Reinsert(t.pieces[x.src], x.at, was))>>)

-----------------------------------------------------------------------------
(* Into other stacks.  An attached one is punched out before it gets the   *)
(* pieces, and attached again when it has lost them.                       *)

SameBoard(x, t) == t.board[x.src] = t.board[x.dst]
Onto(x, s, t, f, same) == Drop(s, t.board[x.dst], Position(t, x.dst), f, same)
Into(x, s, i) == <<MergeStacks(x.dst, <<s>>, i)>>
Height(x, t) == Len(t.pieces[x.dst])
PunchTarget(x, d, t) ==
  <<DetachStacks(<<x.dst>>, <<d.sideAfter>>, <<>>), MoveToFrontOfBoard(<<x.dst>>, t.board[x.dst]),
    MoveStackInstantly(x.dst, d.place)>>
AttachTarget(x) == <<AttachStacks(<<x.dst>>)>>
OutOf(x, ps, s) == <<SplitStack(x.dst, ps, s)>>
\* A stack that was merged reappears where it was.
Reappear(x, d, same) == Append(Drop(x.src, d.board, d.pos, FALSE, same), SetZOrder(x.src, d.z))

DragDropStackIntoOtherStackCommand(x, d, t, f) ==
  LET same == d.board = t.board[x.dst] IN
  Command({x.src, x.dst}, Onto(x, x.src, t, f, same) \o Into(x, x.src, x.at),
          OutOf(x, d.pieces, x.src) \o Reappear(x, d, same))
DragDropStackOnTopOfOtherStackCommand(x, d, t, f) ==
  Command({x.src, x.dst}, Onto(x, x.src, t, f, TRUE) \o Into(x, x.src, Height(x, t)),
          OutOf(x, d.pieces, x.src) \o Reappear(x, [d EXCEPT !.board = t.board[x.dst]], TRUE))
DragDropStackOnTopOfOtherStackFromOtherBoardCommand(x, d, t, f) ==
  Command({x.src, x.dst}, Onto(x, x.src, t, f, FALSE) \o Into(x, x.src, Height(x, t)),
          OutOf(x, d.pieces, x.src) \o Reappear(x, d, FALSE))
DragDropStackIntoOtherAttachedStackCommand(x, d, t, f) ==
  LET same == d.board = t.board[x.dst] IN
  Command({x.src, x.dst},
          Drop(x.src, t.board[x.dst], d.place, f, same) \o PunchTarget(x, d, t) \o Into(x, x.src, x.at),
          OutOf(x, d.pieces, x.src) \o AttachTarget(x) \o Reappear(x, d, same))

DragDropTopOfStackIntoOtherStackCommand(x, d, t, f) ==
  Command({x.src, x.dst, x.mid},
          Take(x, TopOfStack(x, d)) \o Onto(x, x.mid, t, f, SameBoard(x, t)) \o Into(x, x.mid, x.at),
          OutOf(x, TopOfStack(x, d), x.mid) \o PutBack(x, t, x.bot, SameBoard(x, t)))
DragDropTopOfStackOnTopOfOtherStackCommand(x, d, t, f) ==
  LET bottom == IndexIn(d.pieces, x.ps[1])
      top == SubSeq(d.pieces, bottom + 1, Len(d.pieces))
  IN  Command({x.src, x.dst, x.mid},
              Take(x, top) \o Onto(x, x.mid, t, f, SameBoard(x, t)) \o Into(x, x.mid, Height(x, t)),
              OutOf(x, top, x.mid) \o PutBack(x, t, bottom, SameBoard(x, t)))
DragDropTopOfStackIntoOtherAttachedStackCommand(x, d, t, f) ==
  Command({x.src, x.dst, x.mid},
          Take(x, TopOfStack(x, d)) \o Onto(x, x.mid, t, f, SameBoard(x, t))
            \o PunchTarget(x, [d EXCEPT !.place = Position(t, x.dst)], t) \o Into(x, x.mid, x.at),
          OutOf(x, TopOfStack(x, d), x.mid) \o AttachTarget(x) \o PutBack(x, t, x.bot, SameBoard(x, t)))
DragDropPieceOnTopOfOtherStackCommand(x, d, t, f) ==
  Command({x.src, x.dst, x.mid},
          Take(x, x.ps) \o Onto(x, x.mid, t, f, SameBoard(x, t)) \o Into(x, x.mid, Height(x, t)),
          OutOf(x, x.ps, x.mid) \o PutBack(x, t, IndexIn(d.pieces, x.ps[1]), SameBoard(x, t)))

PunchOnto(x, d, t, f, same, i) == <<Punch(x, d)>> \o Onto(x, x.src, t, f, same) \o Into(x, x.src, i)
ReturnFrom(x, t) ==
  OutOf(x, x.ps, x.src) \o <<MoveToFrontOfBoard(<<x.src>>, t.board[x.dst])>> \o Return(<<x.src>>)

DragDropAttachedStackIntoOtherStackCommand(x, d, t, f) ==
  Command({x.src, x.dst}, PunchOnto(x, d, t, f, TRUE, x.at), ReturnFrom(x, t))
DragDropAttachedStackOnTopOfOtherStackCommand(x, d, t, f) ==
  Command({x.src, x.dst}, PunchOnto(x, d, t, f, TRUE, Height(x, t)), ReturnFrom(x, t))
DragDropAttachedStackOnTopOfOtherStackFromOtherBoardCommand(x, d, t, f) ==
  Command({x.src, x.dst}, PunchOnto(x, d, t, f, FALSE, Height(x, t)), ReturnFrom(x, t))
DragDropAttachedStackIntoOtherAttachedStackCommand(x, d, t, f) ==
  LET both == <<x.src, x.dst>> IN
  Command({x.src, x.dst},
          <<DetachStacks(both, <<d.side[x.ps[1]], d.sideAfter>>, <<>>), MoveToFrontOfBoard(both, t.board[x.dst]),
            IF f THEN MoveStackInstantly(x.src, d.place) ELSE UndoReturnStacks(both, d.place)>>
            \o Into(x, x.src, x.at),
          OutOf(x, x.ps, x.src) \o <<MoveToFrontOfBoard(both, t.board[x.dst])>> \o Return(both))

-----------------------------------------------------------------------------
(* From a hand.  The last piece of a hand keeps the hand's stack.  A piece *)
(* that was turned in the hand since is turned back when this is redone.   *)

LastInHand(x) == x.mid = x.src
Draw(x) == IF LastInHand(x) THEN <<EmptyPlayerHand(x.q, x.src)>> ELSE Take(x, x.ps)
HandUses(x) == {x.src, x.mid}
BackToHand(x, d, b) ==
  <<MoveToFrontOfBoard(<<x.mid>>, b), MoveStackToHand(x.mid),
    IF LastInHand(x) THEN FillPlayerHand(x.q, x.src)
    ELSE MergeStacks(x.src, <<x.mid>>, IndexIn(d.pieces, x.ps[1]))>>

\* Back to the angle and the side that some pieces had.
TurnBack(t, ps, d) ==
  LET turns(p) == IF t.angle[p] = d.angle[p] THEN <<>>
                  ELSE <<InstantRotatePieces(<<p>>, d.angle[p] - t.angle[p])>>
      flips(p) == IF SideOf(t, p) = d.side[p] THEN <<>> ELSE <<InstantFlipPieces(t, <<p>>)>>
  IN  FlattenSeq([i \in DOMAIN ps |-> turns(ps[i])]) \o FlattenSeq([i \in DOMAIN ps |-> flips(ps[i])])

Play(x, d, t, f, b, place) ==
  Draw(x) \o <<MoveToFrontOfBoard(<<x.mid>>, b)>>
    \o (IF f THEN <<MoveStackInstantly(x.mid, place)>>
        ELSE Append(TurnBack(t, x.ps, d), MoveStackFromHand(x.mid, place)))

DragDropHandPieceCommand(x, d, t, f) ==
  Command(HandUses(x), Play(x, d, t, f, x.b, x.pos), BackToHand(x, d, x.b))
DragDropHandPieceIntoOtherStackCommand(x, d, t, f) ==
  Command(HandUses(x) \cup {x.dst},
          Play(x, d, t, f, t.board[x.dst], Position(t, x.dst)) \o Into(x, x.mid, x.at),
          OutOf(x, x.ps, x.mid) \o BackToHand(x, d, t.board[x.dst]))
DragDropHandPieceOnTopOfOtherStackCommand(x, d, t, f) ==
  Command(HandUses(x) \cup {x.dst},
          Play(x, d, t, f, t.board[x.dst], Position(t, x.dst)) \o Into(x, x.mid, Height(x, t)),
          OutOf(x, x.ps, x.mid) \o BackToHand(x, d, t.board[x.dst]))
DragDropHandPieceIntoOtherAttachedStackCommand(x, d, t, f) ==
  Command(HandUses(x) \cup {x.dst},
          Play(x, d, t, f, t.board[x.dst], Position(t, x.dst))
            \o PunchTarget(x, [d EXCEPT !.place = Position(t, x.dst)], t) \o Into(x, x.mid, x.at),
          OutOf(x, x.ps, x.mid) \o AttachTarget(x) \o BackToHand(x, d, t.board[x.dst]))

-----------------------------------------------------------------------------
(* Into a hand.  If the hand was empty when the command was made, dst is   *)
(* the stack that becomes the hand.  The board stacks fly to the hand only *)
(* where another player did it, which makes no difference in the end.      *)

Fills(x, s) == x.dst = s
ToHand(x, s, i) == <<IF Fills(x, s) THEN FillPlayerHand(x.q, s) ELSE MergeStacks(x.dst, <<s>>, i)>>
FlyToHand(s, b) == <<MoveToFrontOfBoard(<<s>>, b), MoveStackToHand(s)>>
\* Fault: the hand is opened again.
OpenHandAlways(x, t) == <<AddPlayerHandAnimation(x.q)>>
OpenHand(x, t) == IF t.hand[x.q].open THEN <<>> ELSE <<AddPlayerHandAnimation(x.q)>>
FromHand(x, ps, s) == IF Fills(x, s) THEN <<EmptyPlayerHand(x.q, s)>> ELSE <<SplitStack(x.dst, ps, s)>>

StackIntoHand(x, d, t, i) ==
  Command({x.src, x.dst}, FlyToHand(x.src, d.board) \o ToHand(x, x.src, i),
          (IF Fills(x, x.src) THEN <<EmptyPlayerHand(x.q, x.src), RearrangeStack(x.src, d.pieces)>>
           ELSE FromHand(x, d.pieces, x.src))
            \o <<MoveToFrontOfBoard(<<x.src>>, d.board)>> \o TurnBack(t, d.pieces, d)
            \o <<MoveStackFromHand(x.src, d.pos), SetZOrder(x.src, d.z)>>)

PartIntoHand(x, d, t, ps, at, i) ==
  Command({x.src, x.dst, x.mid},
          Take(x, ps) \o <<MoveToFrontOfBoard(<<x.mid>>, t.board[x.src]),
            MoveStackInstantly(x.mid, Position(t, x.src)), MoveStackToHand(x.mid)>> \o ToHand(x, x.mid, i),
          FromHand(x, ps, x.mid) \o (IF Fills(x, x.mid) /\ Len(ps) > 1 THEN <<RearrangeStack(x.mid, ps)>> ELSE <<>>)
            \o <<MoveToFrontOfBoard(<<x.mid>>, t.board[x.src])>> \o TurnBack(t, ps, d)
            \o <<MoveStackFromHand(x.mid, Position(t, x.src)), MergeStacks(x.src, <<x.mid>>, at)>>)

\* The piece is turned to the side it had, and goes back to its place.
AttachedIntoHand(x, d, t, i) ==
  LET flip == IF SideOf(t, x.ps[1]) = d.side[x.ps[1]] THEN <<>> ELSE <<InstantFlipPieces(t, x.ps)>> IN
  Command({x.src, x.dst},
          <<Punch(x, d)>> \o FlyToHand(x.src, Sheet) \o ToHand(x, x.src, i),
          FromHand(x, x.ps, x.src) \o <<MoveToFrontOfBoard(<<x.src>>, Sheet)>> \o flip
            \o <<ReturnStackFromHand(x.src), AttachStacks(<<x.src>>)>>)

\* A piece with a twin in the hand is not added: the twin is moved there, and
\* its place in the hand is neither undone nor redone.
MoveTwin(x, t, i, f) ==
  IF f THEN <<RearrangePlayerHand(x.q, Min(Twins(t.pieces[x.dst], x.ps[1])) - 1, i)>> ELSE <<>>

\* For a prototype, Do makes a clone, mid, unless it has a twin.  It leaves
\* the hand upright, with the side that the sheet showed.
PrototypeIntoHand(x, d, t, i, f) ==
  LET sheetSide == [angle |-> [p \in {x.mid} |-> 0], side |-> [p \in {x.mid} |-> d.side[x.src]]] IN
  IF d.twin /\ ~Fills(x, x.mid)
  THEN Command(IF f THEN {x.dst} ELSE {}, MoveTwin(x, t, i, f), <<>>)
  ELSE Command(IF ~f THEN {x.mid, x.dst} ELSE IF Fills(x, x.mid) THEN {} ELSE {x.dst},
               FlyToHand(x.mid, Sheet) \o ToHand(x, x.mid, i),
               FromHand(x, <<x.mid>>, x.mid) \o <<MoveToFrontOfBoard(<<x.mid>>, Sheet)>>
                 \o TurnBack(t, <<x.mid>>, sheetSide)
                 \o <<ReturnStackFromHand(x.mid), RemoveTerrain(x.mid)>>)

TerrainIntoHand(x, d, t, i, f) ==
  LET twin == HandCount(t, x.q) > 0 /\ Twins(t.pieces[x.dst], x.ps[1]) # {}
      added == t.stack[x.ps[1]] = x.dst
  IN  Command({x.src, x.dst},
              FlyToHand(x.src, d.board) \o (IF twin THEN <<RemoveTerrain(x.src)>> \o MoveTwin(x, t, i, f)
                                            ELSE ToHand(x, x.src, i)),
              (IF added THEN FromHand(x, x.ps, x.src) ELSE <<>>)
                \o <<MoveToFrontOfBoard(<<x.src>>, d.board)>> \o (IF added THEN TurnBack(t, x.ps, d) ELSE <<>>)
                \o <<MoveStackFromHand(x.src, d.pos), SetZOrder(x.src, d.z)>>)

DragDropStackIntoHandCommand(x, d, t, f) == StackIntoHand(x, d, t, x.at)
DragDropTopOfStackIntoHandCommand(x, d, t, f) == PartIntoHand(x, d, t, TopOfStack(x, d), x.bot, x.at)
DragDropPieceIntoHandCommand(x, d, t, f) == PartIntoHand(x, d, t, x.ps, IndexIn(d.pieces, x.ps[1]), x.at)
DragDropAttachedStackIntoHandCommand(x, d, t, f) ==
  IF x.src \in Prototype THEN PrototypeIntoHand(x, d, t, x.at, f) ELSE AttachedIntoHand(x, d, t, x.at)
DragDropTerrainIntoHandCommand(x, d, t, f) == TerrainIntoHand(x, d, t, x.at, f)

\* To grab is to put on the end of the player's hand, which may have to be
\* opened for it.
Grab(x, t, c) == [c EXCEPT !.go = OpenHand(x, t) \o @]

GrabStackCommand(x, d, t, f) == Grab(x, t, StackIntoHand(x, d, t, HandCount(t, x.q)))
GrabTopOfStackCommand(x, d, t, f) ==
  Grab(x, t, PartIntoHand(x, d, t, TopOfStack(x, d), x.bot, HandCount(t, x.q)))
GrabPieceCommand(x, d, t, f) ==
  Grab(x, t, PartIntoHand(x, d, t, x.ps, IndexIn(d.pieces, x.ps[1]), HandCount(t, x.q)))
GrabAttachedStackCommand(x, d, t, f) ==
  Grab(x, t, IF x.src \in Prototype THEN PrototypeIntoHand(x, d, t, HandCount(t, x.q), f)
             ELSE AttachedIntoHand(x, d, t, HandCount(t, x.q)))
GrabTerrainCommand(x, d, t, f) == Grab(x, t, TerrainIntoHand(x, d, t, HandCount(t, x.q), f))

-----------------------------------------------------------------------------
(* Terrain that is thrown away, and copies of terrain in a hand.           *)

RemoveTerrainCommand(x, d, t, f) ==
  LET front == <<MoveToFrontOfBoard(<<x.src>>, d.board)>> IN
  Command({x.src}, front \o <<ReturnStacks(<<x.src>>), RemoveTerrain(x.src)>>,
          front \o <<UndoReturnStacks(<<x.src>>, d.pos), SetZOrder(x.src, d.z)>>)

RemoveTerrainFromHandCommand(x, d, t, f) ==
  Command(HandUses(x),
          Draw(x) \o <<MoveToFrontOfBoard(<<x.mid>>, Sheet), ReturnStackFromHand(x.mid), RemoveTerrain(x.mid)>>,
          BackToHand(x, d, Sheet))

\* The new clone, mid, has the angle and side of the one in the hand.
CloneTerrainFromHandCommand(x, d, t, f) ==
  LET likeness == [angle |-> [p \in {x.mid} |-> d.angle[x.ps[1]]], side |-> [p \in {x.mid} |-> d.side[x.ps[1]]]] IN
  Command(IF f THEN {} ELSE {x.mid},
          (IF f THEN TurnBack(t, <<x.mid>>, likeness) ELSE <<>>) \o
            <<MoveToFrontOfBoard(<<x.mid>>, x.b),
              IF f THEN MoveStackInstantly(x.mid, x.pos) ELSE MoveStackFromHand(x.mid, x.pos)>>,
          <<MoveToFrontOfBoard(<<x.mid>>, x.b), MoveStackToHand(x.mid), RemoveTerrain(x.mid)>>)

-----------------------------------------------------------------------------
(* Back to the counter sheet: every piece in a stack of its own (news).    *)

SplitEach(x, ps, ns) == [i \in DOMAIN ps |-> SplitStack(x.src, <<ps[i]>>, ns[i])]
DetachAgain(d, ps, ns) ==
  DetachStacks(ns, [i \in DOMAIN ps |-> d.side[ps[i]]], [i \in DOMAIN ps |-> d.angle[ps[i]]])

UnpunchSelectionCommand(x, d, t, f) ==
  LET front == <<MoveToFrontOfBoard(x.news, d.board)>> IN
  Command(ToSet(x.news),
          SplitEach(x, Tail(d.pieces), Tail(x.news)) \o front \o Return(x.news),
          <<DetachAgain(d, d.pieces, x.news)>> \o front
            \o <<UndoReturnStacks(x.news, d.pos), MergeStacks(x.src, Tail(x.news), 1), SetZOrder(x.src, d.z)>>)

UnpunchSubSelectionCommand(x, d, t, f) ==
  LET front == <<MoveToFrontOfBoard(x.news, t.board[x.src])>> IN
  Command({x.src} \cup ToSet(x.news),
          SplitEach(x, x.ps, x.news) \o front \o Return(x.news),
          <<DetachAgain(d, x.ps, x.news)>> \o front
            \o <<UndoReturnStacks(x.news, Position(t, x.src)), MergeStacks(x.src, x.news, 0),
                 RearrangeStack(x.src, d.pieces)>>)

UnpunchHandPieceCommand(x, d, t, f) ==
  LET flip == IF f \/ SideOf(t, x.ps[1]) = d.side[x.ps[1]] THEN <<>> ELSE <<InstantFlipPieces(t, x.ps)>> IN
  Command(HandUses(x),
          Draw(x) \o <<MoveToFrontOfBoard(<<x.mid>>, Sheet), MoveStackInstantly(x.mid, Off)>> \o flip
            \o <<ReturnStackFromHand(x.mid), AttachStacks(<<x.mid>>)>>,
          <<DetachAgain(d, x.ps, <<x.mid>>)>> \o BackToHand(x, d, Sheet))

-----------------------------------------------------------------------------
(* In place.                                                               *)

FlipSelectionCommand(x, d, t, f) == Command({x.src}, <<FlipPieces(t, x.ps)>>, <<FlipPieces(t, x.ps)>>)
InvertCommand(x, d, t, f) == Command({x.src}, <<Invert(x.src)>>, <<Invert(x.src)>>)
ShuffleCommand(x, d, t, f) ==
  Command({x.src}, <<Shuffle(t, x.src, x.by)>>,
          <<Shuffle(t, x.src, [i \in DOMAIN x.by |-> IndexIn(x.by, i) + 1])>>)

\* The pieces are those of the command's making, the stack is where they are.
Rotation(x, t, f) ==
  Command({t.stack[x.ps[1]]},
          <<IF f THEN InstantRotatePieces(x.ps, x.by) ELSE RotatePieces(x.ps, x.by)>>, <<RotatePieces(x.ps, -x.by)>>)
RotatePieceCommand(x, d, t, f) == Rotation(x, t, f)
RotateTopOfStackCommand(x, d, t, f) == Rotation(x, t, f)

=============================================================================
