---------------------------- MODULE TableMessages ----------------------------
(***************************************************************************)
(* What a program does with a message that changes the table (HandleAccept *)
(* of the classes in Control/Messages): it chooses a command and executes  *)
(* it, or queues animations that cannot be undone.                         *)
(*                                                                         *)
(* A program is a record: its table t, the queue of its animations, the    *)
(* command that it is about to execute (todo), its undo and redo stacks    *)
(* (top last), and how many messages it has handled, which numbers the     *)
(* stacks and clones that its commands make.                               *)
(*                                                                         *)
(* A selection is made (SelectionChanged) just before it is used.  All     *)
(* pieces have two sides.  The limit of the undo stack is in               *)
(* CommandHistory, and the player who turns pieces in Rotation: here he is *)
(* another one.                                                            *)
(***************************************************************************)
EXTENDS Commands

Fresh(g, k) == 10 * g.n + k             \* the kth stack a message makes
FreshClone(g, p) == 100 * p + g.n       \* the clone it makes of prototype p

-----------------------------------------------------------------------------
(* Executing commands.                                                     *)

Behaviour(x, d, t, f) ==
  CASE x.cls = "MoveStack" -> MoveStackCommand(x, d, t, f)
    [] x.cls = "MoveStackFromOtherBoard" -> MoveStackFromOtherBoardCommand(x, d, t, f)
    [] x.cls = "MoveAttachedStack" -> MoveAttachedStackCommand(x, d, t, f)
    [] x.cls = "MoveAttachedStackFromOtherBoard" -> MoveAttachedStackFromOtherBoardCommand(x, d, t, f)
    [] x.cls = "MoveSubSelection" -> MoveSubSelectionCommand(x, d, t, f)
    [] x.cls = "MoveSubSelectionFromOtherBoard" -> MoveSubSelectionFromOtherBoardCommand(x, d, t, f)
    [] x.cls = "DragDropStack" -> DragDropStackCommand(x, d, t, f)
    [] x.cls = "DragDropStackFromOtherBoard" -> DragDropStackFromOtherBoardCommand(x, d, t, f)
    [] x.cls = "DragDropAttachedStack" -> DragDropAttachedStackCommand(x, d, t, f)
    [] x.cls = "DragDropAttachedStackFromOtherBoard" -> DragDropAttachedStackFromOtherBoardCommand(x, d, t, f)
    [] x.cls = "DragDropTopOfStack" -> DragDropTopOfStackCommand(x, d, t, f)
    [] x.cls = "DragDropTopOfStackFromOtherBoard" -> DragDropTopOfStackFromOtherBoardCommand(x, d, t, f)
    [] x.cls = "DragDropPiece" -> DragDropPieceCommand(x, d, t, f)
    [] x.cls = "DragDropPieceIntoSameStack" -> DragDropPieceIntoSameStackCommand(x, d, t, f)
    [] x.cls = "DragDropStackIntoOtherStack" -> DragDropStackIntoOtherStackCommand(x, d, t, f)
    [] x.cls = "DragDropStackIntoOtherAttachedStack" -> DragDropStackIntoOtherAttachedStackCommand(x, d, t, f)
    [] x.cls = "DragDropTopOfStackIntoOtherStack" -> DragDropTopOfStackIntoOtherStackCommand(x, d, t, f)
    [] x.cls = "DragDropTopOfStackIntoOtherAttachedStack" -> DragDropTopOfStackIntoOtherAttachedStackCommand(x, d, t, f)
    [] x.cls = "DragDropAttachedStackIntoOtherStack" -> DragDropAttachedStackIntoOtherStackCommand(x, d, t, f)
    [] x.cls = "DragDropAttachedStackIntoOtherAttachedStack" -> DragDropAttachedStackIntoOtherAttachedStackCommand(x, d, t, f)
    [] x.cls = "DragDropStackOnTopOfOtherStack" -> DragDropStackOnTopOfOtherStackCommand(x, d, t, f)
    [] x.cls = "DragDropStackOnTopOfOtherStackFromOtherBoard" -> DragDropStackOnTopOfOtherStackFromOtherBoardCommand(x, d, t, f)
    [] x.cls = "DragDropTopOfStackOnTopOfOtherStack" -> DragDropTopOfStackOnTopOfOtherStackCommand(x, d, t, f)
    [] x.cls = "DragDropAttachedStackOnTopOfOtherStack" -> DragDropAttachedStackOnTopOfOtherStackCommand(x, d, t, f)
    [] x.cls = "DragDropAttachedStackOnTopOfOtherStackFromOtherBoard" -> DragDropAttachedStackOnTopOfOtherStackFromOtherBoardCommand(x, d, t, f)
    [] x.cls = "DragDropPieceOnTopOfOtherStack" -> DragDropPieceOnTopOfOtherStackCommand(x, d, t, f)
    [] x.cls = "DragDropHandPiece" -> DragDropHandPieceCommand(x, d, t, f)
    [] x.cls = "DragDropHandPieceIntoOtherStack" -> DragDropHandPieceIntoOtherStackCommand(x, d, t, f)
    [] x.cls = "DragDropHandPieceIntoOtherAttachedStack" -> DragDropHandPieceIntoOtherAttachedStackCommand(x, d, t, f)
    [] x.cls = "DragDropHandPieceOnTopOfOtherStack" -> DragDropHandPieceOnTopOfOtherStackCommand(x, d, t, f)
    [] x.cls = "DragDropStackIntoHand" -> DragDropStackIntoHandCommand(x, d, t, f)
    [] x.cls = "DragDropTopOfStackIntoHand" -> DragDropTopOfStackIntoHandCommand(x, d, t, f)
    [] x.cls = "DragDropAttachedStackIntoHand" -> DragDropAttachedStackIntoHandCommand(x, d, t, f)
    [] x.cls = "DragDropPieceIntoHand" -> DragDropPieceIntoHandCommand(x, d, t, f)
    [] x.cls = "DragDropTerrainIntoHand" -> DragDropTerrainIntoHandCommand(x, d, t, f)
    [] x.cls = "GrabStack" -> GrabStackCommand(x, d, t, f)
    [] x.cls = "GrabTopOfStack" -> GrabTopOfStackCommand(x, d, t, f)
    [] x.cls = "GrabAttachedStack" -> GrabAttachedStackCommand(x, d, t, f)
    [] x.cls = "GrabPiece" -> GrabPieceCommand(x, d, t, f)
    [] x.cls = "GrabTerrain" -> GrabTerrainCommand(x, d, t, f)
    [] x.cls = "RemoveTerrain" -> RemoveTerrainCommand(x, d, t, f)
    [] x.cls = "RemoveTerrainFromHand" -> RemoveTerrainFromHandCommand(x, d, t, f)
    [] x.cls = "CloneTerrainFromHand" -> CloneTerrainFromHandCommand(x, d, t, f)
    [] x.cls = "UnpunchSelection" -> UnpunchSelectionCommand(x, d, t, f)
    [] x.cls = "UnpunchSubSelection" -> UnpunchSubSelectionCommand(x, d, t, f)
    [] x.cls = "UnpunchHandPiece" -> UnpunchHandPieceCommand(x, d, t, f)
    [] x.cls = "FlipSelection" -> FlipSelectionCommand(x, d, t, f)
    [] x.cls = "Invert" -> InvertCommand(x, d, t, f)
    [] x.cls = "Shuffle" -> ShuffleCommand(x, d, t, f)
    [] x.cls = "RotatePiece" -> RotatePieceCommand(x, d, t, f)
    [] x.cls = "RotateTopOfStack" -> RotateTopOfStackCommand(x, d, t, f)

\* These keep what they memorized first when they are redone.
Remembers(x) ==
  x.cls \in {"MoveAttachedStack", "MoveAttachedStackFromOtherBoard", "DragDropStackIntoOtherAttachedStack",
             "DragDropTopOfStackIntoOtherStack", "DragDropTopOfStackOnTopOfOtherStack", "RemoveTerrain",
             "UnpunchSelection", "UnpunchSubSelection", "DragDropStackIntoHand", "DragDropTopOfStackIntoHand",
             "DragDropAttachedStackIntoHand", "DragDropPieceIntoHand", "DragDropTerrainIntoHand", "GrabStack",
             "GrabTopOfStack", "GrabAttachedStack", "GrabPiece", "GrabTerrain"}
MemorizedAgain(x, d, t) ==
  IF Remembers(x) THEN d
  ELSE LET new == Memorized(x, t)
       IN  [d EXCEPT !.board = new.board, !.pos = new.pos, !.z = new.z, !.pieces = new.pieces]

Launch(g, animations) == [g EXCEPT !.queue = @ \o animations]

\* preventConflict: all animations end when there is one of these stacks.
PreventConflict(g, stacks) ==
  IF \E s \in stacks : IsBeingAnimated(g.t, g.queue, s)
  THEN [g EXCEPT !.t = EndAllAnimations(@, g.queue), !.queue = <<>>]
  ELSE g

\* A rotation joins the command of the rotation of the same pieces before it.
Aggregates(g, x) ==
  /\ x.cls \in {"RotatePiece", "RotateTopOfStack"} /\ g.undo # <<>>
  /\ Last(g.undo).x.cls = x.cls /\ Last(g.undo).x.ps = x.ps

\* ExecuteCommandSequence is the last thing that a handler calls; before and
\* after are the boards to show with the results of Undo and of Redo.
ExecuteCommandSequence(g, before, after, x) ==
  [g EXCEPT !.todo = <<[x |-> x, before |-> before, after |-> after]>>]

Execute(g) ==
  LET e == g.todo[1]
      Done(ready, d) ==
        [Launch(ready, Behaviour(e.x, d, ready.t, TRUE).go) EXCEPT
           !.todo = <<>>,
           !.redo = <<>>,
           !.undo = IF Aggregates(g, e.x) THEN Append(Front(@), [Last(@) EXCEPT !.x.by = @ + e.x.by])
                    ELSE Append(@, [x |-> e.x, d |-> d, before |-> e.before, after |-> e.after])]
      DoneWhen(ready) == Done(ready, Memorized(e.x, ready.t))
  IN  DoneWhen(PreventConflict(g, Behaviour(e.x, Memorized(e.x, g.t), g.t, TRUE).uses))

Undo(g) ==
  LET e == Last(g.undo)
      Undone(ready) ==
        [Launch(ready, Behaviour(e.x, e.d, ready.t, FALSE).back) EXCEPT
           !.undo = Front(@), !.redo = Append(@, e)]
  IN  IF g.undo = <<>> THEN g
      ELSE Undone(PreventConflict(Launch(g, <<RestoreContext(e.before)>>),
                                  Behaviour(e.x, e.d, g.t, FALSE).uses))

Redo(g) ==
  LET e == Last(g.redo)
      Redone(ready, d) ==
        [Launch(ready, Behaviour(e.x, d, ready.t, FALSE).go) EXCEPT
           !.redo = Front(@), !.undo = Append(@, [e EXCEPT !.d = d])]
      RedoneWhen(ready) == Redone(ready, MemorizedAgain(e.x, e.d, ready.t))
  IN  IF g.redo = <<>> THEN g
      ELSE RedoneWhen(PreventConflict(Launch(g, <<RestoreContext(e.after)>>),
                                      Behaviour(e.x, e.d, g.t, FALSE).uses))

-----------------------------------------------------------------------------
(* The arguments of commands.                                              *)

Args(cls, s) ==
  [cls |-> cls, src |-> s, dst |-> s, mid |-> s, ps |-> <<>>, bot |-> 0, at |-> 0,
   b |-> NoBoard, pos |-> Off, q |-> CHOOSE q \in Player : TRUE, news |-> <<>>, by |-> 0]

\* What goes with a piece: all of its stack, or the top of it from there.
Part(t, p) ==
  LET s == t.stack[p] IN
  IF t.attached[s] THEN "AttachedStack" ELSE IF t.pieces[s][1] = p THEN "Stack" ELSE "TopOfStack"

Taking(g, cls, p) ==
  LET s == g.t.stack[p] IN
  [Args(cls, s) EXCEPT !.ps = <<p>>, !.bot = IndexInStack(g.t, p), !.b = g.t.visible,
     !.mid = IF p \in Prototype THEN FreshClone(g, p)
             ELSE IF Part(g.t, p) = "TopOfStack" THEN Fresh(g, 1) ELSE s]

\* One piece alone.
TakingPiece(g, cls, p) ==
  LET s == g.t.stack[p] IN
  [Taking(g, cls, p) EXCEPT !.mid = IF Len(g.t.pieces[s]) = 1 THEN s ELSE Fresh(g, 1)]

\* A hand that is empty gets the stack itself.
IntoHand(t, q, x) == [x EXCEPT !.q = q, !.dst = IF HandCount(t, q) = 0 THEN x.mid ELSE t.hand[q].stack]

BoardOf(t, p) == t.board[t.stack[p]]
Across(same) == IF same THEN "" ELSE "FromOtherBoard"

-----------------------------------------------------------------------------
(* Stacks and pieces that are dropped on a board.                          *)

DragDropStack(g, p, place) ==
  LET b == BoardOf(g.t, p)  v == g.t.visible IN
  ExecuteCommandSequence(g, IF g.t.attached[g.t.stack[p]] THEN v ELSE b, v,
    [Taking(g, "DragDrop" \o Part(g.t, p) \o Across(b = v), p) EXCEPT !.pos = place])

\* The stack that is selected, o's, is the target; i is an index in it.
DragDropStackIntoOtherStack(g, p, o, i) ==
  LET other == g.t.stack[o]  part == Part(g.t, p)  b == g.t.board[other]
      kind == IF g.t.attached[other] THEN "IntoOtherAttachedStack" ELSE "IntoOtherStack"
  IN  ExecuteCommandSequence(g, IF part = "AttachedStack" THEN b ELSE BoardOf(g.t, p), b,
        [Taking(g, "DragDrop" \o part \o kind, p) EXCEPT !.dst = other, !.at = i])

DragDropStackOnTopOfOtherStack(g, p, o) ==
  LET part == Part(g.t, p)  b == BoardOf(g.t, p)  v == g.t.visible
      from == IF part = "TopOfStack" THEN "" ELSE Across(b = v)
  IN  ExecuteCommandSequence(g, IF part = "AttachedStack" THEN v ELSE b, v,
        [Taking(g, "DragDrop" \o part \o "OnTopOfOtherStack" \o from, p) EXCEPT !.dst = g.t.stack[o]])

DragDropPiece(g, q, p, place) ==
  IF BoardOf(g.t, p) = NoBoard
  THEN ExecuteCommandSequence(g, g.t.visible, g.t.visible, [TakingPiece(g, "DragDropHandPiece", p) EXCEPT !.q = q, !.pos = place])
  ELSE ExecuteCommandSequence(g, BoardOf(g.t, p), g.t.visible, [TakingPiece(g, "DragDropPiece", p) EXCEPT !.pos = place])

DragDropPieceOnTopOfOtherStack(g, q, p, o) ==
  LET other == g.t.stack[o] IN
  IF BoardOf(g.t, p) = NoBoard
  THEN ExecuteCommandSequence(g, g.t.visible, g.t.visible,
         [TakingPiece(g, "DragDropHandPieceOnTopOfOtherStack", p) EXCEPT !.q = q, !.dst = other])
  ELSE ExecuteCommandSequence(g, BoardOf(g.t, p), g.t.board[other],
         [TakingPiece(g, "DragDropPieceOnTopOfOtherStack", p) EXCEPT !.dst = other])

\* From a hand.
DragDropPieceIntoOtherStack(g, q, p, o, i) ==
  LET other == g.t.stack[o]  b == g.t.board[other]
      kind == IF g.t.attached[other] THEN "IntoOtherAttachedStack" ELSE "IntoOtherStack"
  IN  ExecuteCommandSequence(g, b, b, [TakingPiece(g, "DragDropHandPiece" \o kind, p) EXCEPT !.q = q, !.dst = other, !.at = i])

\* i is the index before the piece is taken out.
DragDropPieceIntoSameStack(g, p, i) ==
  LET b == BoardOf(g.t, p) IN
  ExecuteCommandSequence(g, b, b, [Taking(g, "DragDropPieceIntoSameStack", p) EXCEPT
                      !.at = IF i > IndexInStack(g.t, p) THEN i - 1 ELSE i])

\* ps are the selected pieces of a stack, bottom to top.
MoveSelection(g, ps, place) ==
  LET s == g.t.stack[ps[1]]  b == g.t.board[s]  v == g.t.visible
      cls == IF g.t.attached[s] THEN "MoveAttachedStack"
             ELSE IF Len(ps) = Len(g.t.pieces[s]) THEN "MoveStack" ELSE "MoveSubSelection"
  IN  ExecuteCommandSequence(g, IF g.t.attached[s] THEN v ELSE b, v,
        [Args(cls \o Across(b = v), s) EXCEPT !.ps = ps, !.b = v, !.pos = place, !.mid = Fresh(g, 1)])

-----------------------------------------------------------------------------
(* Into the sender's hand, and in it.                                      *)

ToHandCommand(g, q, x, i) ==
  LET b == g.t.board[x.src] IN ExecuteCommandSequence(g, b, b, [IntoHand(g.t, q, x) EXCEPT !.at = i])

DragDropStackIntoHand(g, q, p, i) ==
  ToHandCommand(g, q, Taking(g, "DragDrop" \o Part(g.t, p) \o "IntoHand", p), i)
DragDropPieceIntoHand(g, q, p, i) == ToHandCommand(g, q, TakingPiece(g, "DragDropPieceIntoHand", p), i)
GrabStack(g, q, p) == ToHandCommand(g, q, Taking(g, "Grab" \o Part(g.t, p), p), 0)
GrabPiece(g, q, p) == ToHandCommand(g, q, TakingPiece(g, "GrabPiece", p), 0)

\* What is done in a hand cannot be undone.
InHand(g, p, animation) == Launch(PreventConflict(g, {g.t.stack[p]}), <<animation>>)

RearrangeHandPiece(g, q, from, before) ==
  IF HandCount(g.t, q) = 0 THEN g
  ELSE InHand(g, g.t.pieces[g.t.hand[q].stack][1], RearrangePlayerHand(q, from, before))

AddHand(g, q) == Launch(g, <<AddPlayerHandAnimation(q)>>)
RemoveHand(g, q) == Launch(g, <<RemovePlayerHandAnimation(q)>>)

-----------------------------------------------------------------------------
(* Terrain is named by a board and a z-order, or by an index in the hand   *)
(* of the sender.                                                          *)

StackFromZOrder(t, b, z) == IF z + 1 \in DOMAIN t.stacks[b] THEN t.stacks[b][z + 1] ELSE NoStack
IsTerrain(t, s) == s # NoStack /\ t.pieces[s] # <<>> /\ t.pieces[s][1] \in Clone
Refused(g) == [g EXCEPT !.t = Throws(@)]

DragDropTerrain(g, b, z, place) ==
  LET s == StackFromZOrder(g.t, b, z)  v == g.t.visible IN
  IF s = NoStack THEN Refused(g)
  ELSE ExecuteCommandSequence(g, b, v, [Args("DragDropStack" \o Across(b = v), s) EXCEPT !.b = v, !.pos = place])

ToHandTerrain(g, q, cls, b, z, i) ==
  LET s == StackFromZOrder(g.t, b, z) IN
  IF ~IsTerrain(g.t, s) THEN Refused(g)
  ELSE ToHandCommand(g, q, Taking(g, cls, g.t.pieces[s][1]), i)
DragDropTerrainIntoHand(g, q, b, z, i) == ToHandTerrain(g, q, "DragDropTerrainIntoHand", b, z, i)
GrabTerrain(g, q, b, z) == ToHandTerrain(g, q, "GrabTerrain", b, z, 0)

RemoveTerrainFromBoard(g, b, z) ==
  LET s == StackFromZOrder(g.t, b, z) IN
  IF s = NoStack THEN Refused(g) ELSE ExecuteCommandSequence(g, b, b, Args("RemoveTerrain", s))

FlipTerrain(g, b, z) ==
  LET s == StackFromZOrder(g.t, b, z) IN
  IF s = NoStack THEN Refused(g)
  ELSE ExecuteCommandSequence(g, g.t.visible, g.t.visible, [Args("FlipSelection", s) EXCEPT !.ps = <<g.t.pieces[s][1]>>])

RotateTerrain(g, b, z, increments) ==
  LET s == StackFromZOrder(g.t, b, z) IN
  IF s = NoStack THEN Refused(g)
  ELSE ExecuteCommandSequence(g, g.t.visible, g.t.visible,
         [Args("RotatePiece", s) EXCEPT !.ps = <<g.t.pieces[s][1]>>, !.by = increments])

\* Out of a hand: thrown away, or copied to the visible board.  The hand may
\* have fewer pieces here than where the message was sent.
TerrainInHand(g, q, i) == g.t.pieces[g.t.hand[q].stack][i + 1]
DropHandTerrain(g, q, i, place) ==
  IF i >= HandCount(g.t, q) THEN g
  ELSE LET p == TerrainInHand(g, q, i)  v == g.t.visible IN
       IF p \notin Clone THEN Refused(g)
       ELSE ExecuteCommandSequence(g, v, v, [Taking(g, "CloneTerrainFromHand", p) EXCEPT
                                !.q = q, !.pos = place, !.mid = FreshClone(g, PrototypeOf[p])])
RemoveHandTerrain(g, q, i) ==
  IF i >= HandCount(g.t, q) THEN g
  ELSE LET p == TerrainInHand(g, q, i)  v == g.t.visible IN
       IF p \notin Clone THEN Refused(g)
       ELSE ExecuteCommandSequence(g, v, v, [TakingPiece(g, "RemoveTerrainFromHand", p) EXCEPT !.q = q])

-----------------------------------------------------------------------------
(* Back to the counter sheet, and in place.                                *)

\* The selected pieces of a stack go back; all of them, or some.
Unpunch(g, ps) ==
  LET s == g.t.stack[ps[1]]
      all == Len(ps) = Len(g.t.pieces[s])
  IN  ExecuteCommandSequence(g, g.t.board[s], g.t.board[s],
        [Args(IF all THEN "UnpunchSelection" ELSE "UnpunchSubSelection", s) EXCEPT
           !.ps = ps, !.news = [i \in DOMAIN ps |-> IF all /\ i = 1 THEN s ELSE Fresh(g, i)]])

UnpunchPiece(g, q, p) ==
  IF BoardOf(g.t, p) = NoBoard
  THEN ExecuteCommandSequence(g, Sheet, Sheet, [TakingPiece(g, "UnpunchHandPiece", p) EXCEPT !.q = q])
  ELSE Unpunch(g, <<p>>)
UnpunchSelection(g, ps) == Unpunch(g, ps)

\* The pieces of a stack from one of them up.
From(t, p) == LET s == t.stack[p] IN SubSeq(t.pieces[s], IndexInStack(t, p) + 1, Len(t.pieces[s]))
UnpunchStack(g, p) == Unpunch(g, From(g.t, p))

InPlace(g, cls, ps, by) ==
  ExecuteCommandSequence(g, g.t.visible, g.t.visible, [Args(cls, g.t.stack[ps[1]]) EXCEPT !.ps = ps, !.by = by])

FlipPiece(g, p) ==
  IF BoardOf(g.t, p) # NoBoard THEN InPlace(g, "FlipSelection", <<p>>, 0)
  ELSE LET h == PreventConflict(g, {g.t.stack[p]}) IN Launch(h, <<InstantFlipPieces(h.t, <<p>>)>>)
FlipStack(g, p) == InPlace(g, "FlipSelection", From(g.t, p), 0)
RotatePiece(g, p, increments) ==
  IF BoardOf(g.t, p) # NoBoard THEN InPlace(g, "RotatePiece", <<p>>, increments)
  ELSE InHand(g, p, InstantRotatePieces(<<p>>, increments))
RotateStack(g, p, increments) == InPlace(g, "RotateTopOfStack", From(g.t, p), increments)

\* The selected stack.
InvertStack(g, o) == InPlace(g, "Invert", g.t.pieces[g.t.stack[o]], 0)
ShuffleStack(g, o, permutation) ==
  InPlace(g, "Shuffle", g.t.pieces[g.t.stack[o]], permutation)

\* These are done at once.
FlipCounterSheet(g) == IF g.t.visible = Sheet THEN [g EXCEPT !.t.face = 1 - @] ELSE Refused(g)
VisibleBoardChanged(g, b) == [g EXCEPT !.t.visible = b]

-----------------------------------------------------------------------------
(* Handling messages.  The board of terrain in a hand is NoBoard.          *)

\* SelectionChanged: the stack that the message is about is selected first.
SelectedPieces(m) ==
  CASE m.class \in {"MoveSelection", "UnpunchSelection"} -> {m.ps[1]}
    [] m.class \in {"DragDropStackIntoOtherStack", "DragDropPieceIntoOtherStack"} -> {m.o}
    [] m.class \in {"Invert", "ShuffleResult"} -> {m.p}
    [] OTHER -> {}
Select(g, ps) == PreventConflict(g, {g.t.stack[p] : p \in ps})

Chosen(g, m) ==
  CASE m.class = "DragDropStack" -> DragDropStack(g, m.p, m.place)
    [] m.class = "DragDropStackIntoOtherStack" -> DragDropStackIntoOtherStack(g, m.p, m.o, m.i)
    [] m.class = "DragDropStackOnTopOfOtherStack" -> DragDropStackOnTopOfOtherStack(g, m.p, m.o)
    [] m.class = "DragDropPiece" -> DragDropPiece(g, m.q, m.p, m.place)
    [] m.class = "DragDropPieceOnTopOfOtherStack" -> DragDropPieceOnTopOfOtherStack(g, m.q, m.p, m.o)
    [] m.class = "DragDropPieceIntoOtherStack" -> DragDropPieceIntoOtherStack(g, m.q, m.p, m.o, m.i)
    [] m.class = "DragDropPieceIntoSameStack" -> DragDropPieceIntoSameStack(g, m.p, m.i)
    [] m.class = "MoveSelection" -> MoveSelection(g, m.ps, m.place)
    [] m.class = "DragDropStackIntoHand" -> DragDropStackIntoHand(g, m.q, m.p, m.i)
    [] m.class = "DragDropPieceIntoHand" -> DragDropPieceIntoHand(g, m.q, m.p, m.i)
    [] m.class = "GrabStack" -> GrabStack(g, m.q, m.p)
    [] m.class = "GrabPiece" -> GrabPiece(g, m.q, m.p)
    [] m.class = "RearrangePlayerHand" -> RearrangeHandPiece(g, m.q, m.from, m.i)
    [] m.class = "AddPlayerHand" -> AddHand(g, m.q)
    [] m.class = "RemovePlayerHand" -> RemoveHand(g, m.q)
    [] m.class = "DragDropTerrain" -> IF m.b = NoBoard THEN DropHandTerrain(g, m.q, m.z, m.place)
                                      ELSE DragDropTerrain(g, m.b, m.z, m.place)
    [] m.class = "DragDropTerrainIntoHand" -> DragDropTerrainIntoHand(g, m.q, m.b, m.z, m.i)
    [] m.class = "GrabTerrain" -> GrabTerrain(g, m.q, m.b, m.z)
    [] m.class = "RemoveTerrain" -> IF m.b = NoBoard THEN RemoveHandTerrain(g, m.q, m.z)
                                    ELSE RemoveTerrainFromBoard(g, m.b, m.z)
    [] m.class = "FlipTerrain" -> FlipTerrain(g, m.b, m.z)
    [] m.class = "RotateTerrain" -> RotateTerrain(g, m.b, m.z, m.by)
    [] m.class = "UnpunchPiece" -> UnpunchPiece(g, m.q, m.p)
    [] m.class = "UnpunchStack" -> UnpunchStack(g, m.p)
    [] m.class = "UnpunchSelection" -> UnpunchSelection(g, m.ps)
    [] m.class = "FlipPiece" -> FlipPiece(g, m.p)
    [] m.class = "FlipStack" -> FlipStack(g, m.p)
    [] m.class = "RotatePiece" -> RotatePiece(g, m.p, m.by)
    [] m.class = "RotateStack" -> RotateStack(g, m.p, m.by)
    [] m.class = "Invert" -> InvertStack(g, m.p)
    [] m.class = "ShuffleResult" -> ShuffleStack(g, m.p, m.permutation)
    [] m.class = "FlipCounterSheet" -> FlipCounterSheet(g)
    [] m.class = "VisibleBoardChanged" -> VisibleBoardChanged(g, m.b)

Finish(g) == IF g.todo = <<>> THEN g ELSE Execute(g)

HandleAccept(g, m) == Finish(Chosen(Select(g, SelectedPieces(m)), m))

=============================================================================
