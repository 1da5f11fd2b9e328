------------------------------ MODULE TablePlay ------------------------------
(***************************************************************************)
(* A game played on the table of one program, calm, in which the           *)
(* animations of a message end before the next one comes (TableHaste is    *)
(* about a program in which they do not).  Players send what the           *)
(* interaction states (Control/States) allow on this table, where no stack *)
(* is being animated.                                                      *)
(*                                                                         *)
(* There is one player, since what a player does is done by the sender's   *)
(* hand in every program.  MaxMessages bounds the messages that are not    *)
(* Undo or Redo.                                                           *)
(***************************************************************************)
EXTENDS TableMessages, SavedGame

CONSTANTS
  Setups,        \* the tables a game can start from
  Turns,         \* the rotations that players make, in detents
  Messages,      \* the classes of the messages that players send
  MaxMessages

VARIABLES
  calm,          \* the program
  looks          \* ghost: how its table looked after each command that
                 \* can be undone or redone, and before the first

vars == <<calm, looks>>

-----------------------------------------------------------------------------
(* Tables as players see them.                                             *)

LookOfStack(t, s) ==
  [i \in DOMAIN t.pieces[s] |-> LET p == t.pieces[s][i] IN <<p, t.side[p], t.angle[p], t.pos[s]>>]
Looks(t, ss) == [i \in DOMAIN ss |-> LookOfStack(t, ss[i])]
InHandOf(t, q) == IF HandCount(t, q) = 0 THEN {} ELSE ToSet(t.pieces[t.hand[q].stack])

\* The loose stacks of each board, back to front, the attached pieces, and
\* what is in the hands.
Look(t) == [
  loose |-> [b \in Board |-> Looks(t, Loose(t, b))],
  attached |-> {t.pieces[s] : s \in {s \in ToSet(t.stacks[Sheet]) : t.attached[s]}},
  hands |-> [q \in Player |-> InHandOf(t, q)]]

-----------------------------------------------------------------------------
(* The program.                                                            *)

Program(t) == [t |-> t, queue |-> <<>>, todo |-> <<>>, undo |-> <<>>, redo |-> <<>>, n |-> 1]

Settled(g) == [g EXCEPT !.t = EndAllAnimations(@, g.queue), !.queue = <<>>]

-----------------------------------------------------------------------------
(* What players can do to the calm table: the messages of each class.      *)

T == calm.t
OnBoard == {p \in Piece : BoardOf(T, p) # NoBoard}
Attached(p) == T.attached[T.stack[p]]
Dragged == OnBoard \ Clone              \* what stack messages name
LooseCounters == {p \in OnBoard \cap Counter : ~Attached(p)}
Held(q) == InHandOf(T, q)
Alone(p) == Len(T.pieces[T.stack[p]]) = 1
Bottom(p) == T.pieces[T.stack[p]][1] = p
InStack == {p \in LooseCounters : ~Alone(p)}
Owned(q) == LooseCounters \cup Held(q)
SameKind(p, o) == (p \in Card) = (o \in Card)
Targets(p) ==                           \* bottoms of stacks that may get p
  {o \in OnBoard \cap Counter : Bottom(o) /\ T.stack[o] # T.stack[p] /\ SameKind(p, o)}
TargetsInView(p) == {o \in Targets(p) : BoardOf(T, o) = T.visible /\ ~Attached(o)}
Index == 0 .. Cardinality(Piece)
Indices(o) == 0 .. Len(T.pieces[T.stack[o]])
HandIndices(q) == IF T.hand[q].open THEN 0 .. HandCount(T, q) ELSE {}
Selections ==                           \* some pieces of a stack
  {ps \in UNION {{SelectSeq(T.pieces[T.stack[o]], LAMBDA p : p \in chosen) :
                    chosen \in SUBSET ToSet(T.pieces[T.stack[o]])} :
                  o \in {o \in OnBoard \cap Counter : Bottom(o)}} : ps # <<>>}
TerrainAt(m) == IsTerrain(T, StackFromZOrder(T, m.b, m.z))
TerrainInHandAt(m) == m.z < HandCount(T, m.q) /\ TerrainInHand(calm, m.q, m.z) \in Clone

DragDropStackMessage == [class : {"DragDropStack"}, p : Dragged, place : Place]
DragDropStackIntoOtherStackMessage ==
  {m \in [class : {"DragDropStackIntoOtherStack"}, p : Dragged \cap Counter, o : Counter, i : Index] :
     m.o \in Targets(m.p) /\ m.i \in Indices(m.o)}
DragDropStackOnTopOfOtherStackMessage ==
  {m \in [class : {"DragDropStackOnTopOfOtherStack"}, p : Dragged \cap Counter, o : Counter] :
     m.o \in TargetsInView(m.p)}
DragDropPieceMessage ==
  {m \in [class : {"DragDropPiece"}, q : Player, p : Counter, place : Place] : m.p \in InStack \cup Held(m.q)}
DragDropPieceOnTopOfOtherStackMessage ==
  {m \in [class : {"DragDropPieceOnTopOfOtherStack"}, q : Player, p : Counter, o : Counter] :
     m.p \in InStack \cup Held(m.q) /\ m.o \in TargetsInView(m.p)}
DragDropPieceIntoOtherStackMessage ==
  {m \in [class : {"DragDropPieceIntoOtherStack"}, q : Player, p : Counter, o : Counter, i : Index] :
     m.p \in Held(m.q) /\ m.o \in Targets(m.p) /\ m.i \in Indices(m.o)}
DragDropPieceIntoSameStackMessage ==
  {m \in [class : {"DragDropPieceIntoSameStack"}, p : LooseCounters, i : Index] :
     m.i \in Indices(m.p) /\ m.i - IndexInStack(T, m.p) \notin {0, 1}}
MoveSelectionMessage == [class : {"MoveSelection"}, ps : Selections, place : Place]

DragDropStackIntoHandMessage ==
  {m \in [class : {"DragDropStackIntoHand"}, q : Player, p : Dragged, i : Index] : m.i \in HandIndices(m.q)}
DragDropPieceIntoHandMessage ==
  {m \in [class : {"DragDropPieceIntoHand"}, q : Player, p : InStack, i : Index] : m.i \in HandIndices(m.q)}
GrabStackMessage == [class : {"GrabStack"}, q : Player, p : Dragged]
GrabPieceMessage == [class : {"GrabPiece"}, q : Player, p : InStack]
RearrangePlayerHandMessage ==
  {m \in [class : {"RearrangePlayerHand"}, q : Player, from : Index, i : Index] :
     m.from < HandCount(T, m.q) /\ m.i \in HandIndices(m.q) /\ m.i - m.from \notin {0, 1}}
AddPlayerHandMessage == [class : {"AddPlayerHand"}, q : {q \in Player : ~T.hand[q].open}]
RemovePlayerHandMessage ==
  [class : {"RemovePlayerHand"}, q : {q \in Player : T.hand[q].open /\ HandCount(T, q) = 0}]

DragDropTerrainMessage ==
  {m \in [class : {"DragDropTerrain"}, q : Player, b : Board, z : Index, place : Place] : TerrainAt(m)}
DropHandTerrainMessage ==
  {m \in [class : {"DragDropTerrain"}, q : Player, b : {NoBoard}, z : Index, place : Place] : TerrainInHandAt(m)}
DragDropTerrainIntoHandMessage ==
  {m \in [class : {"DragDropTerrainIntoHand"}, q : Player, b : Board, z : Index, i : Index] :
     m.i \in HandIndices(m.q) /\ TerrainAt(m)}
GrabTerrainMessage == {m \in [class : {"GrabTerrain"}, q : Player, b : Board, z : Index] : TerrainAt(m)}
RemoveTerrainMessage == {m \in [class : {"RemoveTerrain"}, q : Player, b : Board, z : Index] : TerrainAt(m)}
RemoveHandTerrainMessage ==
  {m \in [class : {"RemoveTerrain"}, q : Player, b : {NoBoard}, z : Index] : TerrainInHandAt(m)}
FlipTerrainMessage == {m \in [class : {"FlipTerrain"}, b : Board, z : Index] : TerrainAt(m)}
RotateTerrainMessage == {m \in [class : {"RotateTerrain"}, b : Board, z : Index, by : Turns] : TerrainAt(m)}

UnpunchPieceMessage ==
  {m \in [class : {"UnpunchPiece"}, q : Player, p : Counter] : m.p \in Owned(m.q)}
UnpunchStackMessage == [class : {"UnpunchStack"}, p : LooseCounters]
UnpunchSelectionMessage == {m \in [class : {"UnpunchSelection"}, ps : Selections] : ~Attached(m.ps[1])}
FlipPieceMessage ==
  {m \in [class : {"FlipPiece"}, q : Player, p : Piece] : m.p \in (OnBoard \cap Counter) \cup Held(m.q)}
FlipStackMessage == [class : {"FlipStack"}, p : LooseCounters]
RotatePieceMessage ==
  {m \in [class : {"RotatePiece"}, q : Player, p : Piece, by : Turns] : m.p \in Owned(m.q)}
RotateStackMessage ==
  {m \in [class : {"RotateStack"}, p : LooseCounters, by : Turns] : Len(From(T, m.p)) > 1}
InvertMessage == [class : {"Invert"}, p : {p \in InStack : Bottom(p)}]
ShuffleResultMessage ==
  UNION {[class : {"ShuffleResult"}, p : {p},
          permutation : {f \in [Indices(p) \ {0} -> Indices(p) \ {0}] : IsInjective(f)}] :
         p \in {p \in InStack : Bottom(p)}}
FlipCounterSheetMessage == [class : IF T.visible = Sheet THEN {"FlipCounterSheet"} ELSE {}]
VisibleBoardChangedMessage == [class : {"VisibleBoardChanged"}, b : Board]

Change == UNION {
  DragDropStackMessage, DragDropStackIntoOtherStackMessage, DragDropStackOnTopOfOtherStackMessage,
  DragDropPieceMessage, DragDropPieceOnTopOfOtherStackMessage, DragDropPieceIntoOtherStackMessage,
  DragDropPieceIntoSameStackMessage, MoveSelectionMessage,
  DragDropStackIntoHandMessage, DragDropPieceIntoHandMessage, GrabStackMessage, GrabPieceMessage,
  RearrangePlayerHandMessage, AddPlayerHandMessage, RemovePlayerHandMessage,
  DragDropTerrainMessage, DropHandTerrainMessage, DragDropTerrainIntoHandMessage, GrabTerrainMessage,
  RemoveTerrainMessage, RemoveHandTerrainMessage, FlipTerrainMessage, RotateTerrainMessage,
  UnpunchPieceMessage, UnpunchStackMessage, UnpunchSelectionMessage,
  FlipPieceMessage, FlipStackMessage, RotatePieceMessage, RotateStackMessage,
  InvertMessage, ShuffleResultMessage, FlipCounterSheetMessage, VisibleBoardChangedMessage}

-----------------------------------------------------------------------------
(* The program handles a message.                                          *)

Handled(g, m) == [HandleAccept(g, m) EXCEPT !.n = @ + 1]

ReceiveChange(m) ==
  /\ ~calm.t.fault /\ calm.n <= MaxMessages
  /\ m.class \in Messages
  /\ calm' = Settled(Handled(calm, m))
  /\ looks' = IF calm'.undo = calm.undo THEN looks
              ELSE Append(SubSeq(looks, 1, Len(calm'.undo)), Look(calm'.t))

ReceiveUndo ==
  /\ ~calm.t.fault /\ calm.undo # <<>>
  /\ calm' = Settled(Undo(calm))
  /\ UNCHANGED looks
ReceiveRedo ==
  /\ ~calm.t.fault /\ calm.redo # <<>>
  /\ calm' = Settled(Redo(calm))
  /\ UNCHANGED looks

Init ==
  \E t \in Setups :
    /\ calm = Program(t)
    /\ looks = <<Look(t)>>

Next == (\E m \in Change : ReceiveChange(m)) \/ ReceiveUndo \/ ReceiveRedo

Spec == Init /\ [][Next]_vars

-----------------------------------------------------------------------------
(* Properties.                                                             *)

\* The table has its type.
TypeOK == calm.t \in Tables

\* Every piece is in the one stack it says it is in; a stack is on the board
\* it says it is on, once, or is the stack of a hand; neither is ever empty.
\* Only clones can be nowhere.
Accounted(t) ==
  LET placed == {s \in Stack : t.board[s] # NoBoard}
      held == {t.hand[q].stack : q \in Player} \ {NoStack}
  IN  /\ \A b \in Board : /\ IsInjective(t.stacks[b])
                          /\ ToSet(t.stacks[b]) = {s \in Stack : t.board[s] = b}
      /\ placed \cap held = {}
      /\ \A s \in placed \cup held : t.pieces[s] # <<>> /\ IsInjective(t.pieces[s])
      /\ \A s \in placed \cup held : \A p \in ToSet(t.pieces[s]) : t.stack[p] = s
      /\ \A p \in Piece \ Clone : t.stack[p] \in placed \cup held
PiecesAccounted == T.fault \/ Accounted(T)

\* Attached pieces are alone, upright and behind all others, on the sheet.
AttachedAreFlat ==
  T.fault \/ \A s \in Stack : T.attached[s] /\ T.board[s] # NoBoard =>
    /\ T.board[s] = Sheet /\ Len(T.pieces[s]) = 1 /\ T.angle[T.pieces[s][1]] = 0
    /\ \A i, j \in DOMAIN T.stacks[Sheet] :
         T.attached[T.stacks[Sheet][j]] /\ i < j => T.attached[T.stacks[Sheet][i]]

\* Undo and Redo, any number of them, bring back the table that there was
\* after each command, and nothing else that can happen in between changes it.
UndoRestores == T.fault \/ Look(T) = looks[Len(calm.undo) + 1]

\* "yes -> simply move the piece to the new insertion index": nothing that a
\* player does to a table at rest makes the program throw.
NeverThrows == ~T.fault

\* It does throw where terrain is added in front of its twin, the first piece
\* of a hand, but nowhere else.
ThrowsOnlyForTwins ==
  T.fault =>
    /\ calm.undo # <<>>
    /\ LET x == Last(calm.undo).x IN x.ps # <<>> /\ x.at = 0 /\ 1 \in Twins(T.pieces[x.dst], x.ps[1])

-----------------------------------------------------------------------------
(* A game that is saved while the table is at rest, and loaded again.      *)

\* Pieces in a hand, left to right, as its player sees them.
LookOfHand(t, q) == SavedPieces(t, t.hand[q].stack)

\* Whatever was done before, saving does not lose, double or turn a piece, nor
\* mix up a stack or a hand, and what is not on the file is attached again.
\* Of the stacks of a board, those of one piece end behind the others; apart
\* from that they keep their order (Game.cs:476, 494).
SavedGameKept ==
  T.fault \/
  LET u == LoadGame(Save(T))
      One(s) == Len(T.pieces[s]) = 1
      Several(s) == ~One(s)
  IN  /\ ~u.fault /\ Accounted(u)
      /\ u.visible = T.visible /\ u.face = T.face
      /\ \A b \in Board :
           Looks(u, Loose(u, b)) = Looks(T, SelectSeq(Loose(T, b), One) \o SelectSeq(Loose(T, b), Several))
      /\ Look(u).attached = Look(T).attached
      /\ \A q \in Player : LookOfHand(u, q) = LookOfHand(T, q) /\ u.hand[q].open = T.hand[q].open

\* "Z-order of the terrain on the board": the number that names terrain in a
\* message names the same terrain on the table that a newcomer has loaded.
SameTerrain ==
  T.fault \/
  LET u == LoadGame(Save(T)) IN
  \A p \in OnBoard \cap Clone : ZOrder(u, u.stack[p]) = ZOrder(T, T.stack[p])

=============================================================================
