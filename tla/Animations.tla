----------------------------- MODULE Animations -----------------------------
(***************************************************************************)
(* The animations that commands queue, and the animation manager.          *)
(*                                                                         *)
(* An animation is a record: what it does (op), the stacks and pieces it   *)
(* does it to, its parameter, and whether it takes time.  The table is     *)
(* changed when it ends (SetFinalState).  Animations that change the table *)
(* run one after the other, so a queue is one sequence: the sequences that *)
(* commands launched, end to end.                                          *)
(***************************************************************************)
EXTENDS Table

Anim(op, stacks, pieces, to, timed) ==
  [op |-> op, stacks |-> stacks, pieces |-> pieces, to |-> to, timed |-> timed]

-----------------------------------------------------------------------------
(* Animations of stacks.                                                   *)

MoveToFrontOfBoard(ss, b) == Anim("front", ss, <<>>, b, FALSE)
SetZOrder(s, z) == Anim("z order", <<s>>, <<>>, z, FALSE)

MoveStack(s, place) == Anim("place", <<s>>, <<>>, place, TRUE)
MoveStackInstantly(s, place) == Anim("place", <<s>>, <<>>, place, FALSE)
MoveStackFromEdgeOfScreen(s, place) == Anim("place", <<s>>, <<>>, place, TRUE)
MoveStackFromHand(s, place) == Anim("place", <<s>>, <<>>, place, TRUE)
MoveStackToEdgeOfScreen(s) == Anim("place", <<s>>, <<>>, Off, TRUE)
MoveStackToHand(s) == Anim("place", <<s>>, <<>>, Off, TRUE)
UndoReturnStacks(ss, place) == Anim("place", ss, <<>>, place, TRUE)
ReturnStacks(ss) == Anim("return", ss, <<>>, Sheet, TRUE)
ReturnStackFromHand(s) == Anim("return", <<s>>, <<>>, Sheet, TRUE)

\* The new sides and, where they matter, angles of the detached pieces.
DetachStacks(ss, sides, angles) == Anim("detach", ss, <<>>, [side |-> sides, angle |-> angles], FALSE)
AttachStacks(ss) == Anim("attach", ss, <<>>, 0, FALSE)

SplitStack(s, ps, new) == Anim("split", <<s, new>>, ps, 0, FALSE)
MergeStacks(s, others, i) == Anim("merge", <<s>> \o others, <<>>, i, FALSE)
RearrangeStack(s, ps) == Anim("rearrange", <<s>>, ps, 0, FALSE)
Shuffle(t, s, permutation) ==
  RearrangeStack(s, [i \in DOMAIN t.pieces[s] |-> t.pieces[s][permutation[i]]])
Invert(s) == Anim("invert", <<s>>, <<>>, 0, FALSE)
RemoveTerrain(s) == Anim("remove", <<s>>, <<>>, 0, FALSE)

-----------------------------------------------------------------------------
(* Animations of pieces, hands and the visible board.  The sides after a   *)
(* flip are fixed when it is queued.                                       *)

FlippedSides(t, ps) == [i \in DOMAIN ps |-> 1 - SideOf(t, ps[i])]
FlipPieces(t, ps) == Anim("flip", <<>>, ps, FlippedSides(t, ps), TRUE)
InstantFlipPieces(t, ps) == Anim("flip", <<>>, ps, FlippedSides(t, ps), FALSE)
RotatePieces(ps, increments) == Anim("rotate", <<>>, ps, increments, TRUE)
InstantRotatePieces(ps, increments) == Anim("rotate", <<>>, ps, increments, FALSE)

FillPlayerHand(q, s) == Anim("fill", <<s>>, <<>>, q, FALSE)
EmptyPlayerHand(q, s) == Anim("empty", <<s>>, <<>>, q, FALSE)
AddPlayerHandAnimation(q) == Anim("add hand", <<>>, <<>>, q, FALSE)
RemovePlayerHandAnimation(q) == Anim("remove hand", <<>>, <<>>, q, FALSE)
RearrangePlayerHand(q, from, before) ==
  Anim("rearrange hand", <<>>, <<>>,
       [hand |-> q, from |-> from, to |-> IF before < from THEN before ELSE before - 1], FALSE)
RestoreContext(b) == Anim("context", <<>>, <<>>, b, FALSE)

-----------------------------------------------------------------------------
(* What they do in the end.                                                *)

\* Apply Op(t, s) to the stacks, one after the other.
OnEach(Op(_, _), ss, t) ==
  LET done[i \in 0 .. Len(ss)] == IF i = 0 THEN t ELSE Op(done[i - 1], ss[i])
  IN  done[Len(ss)]

Relocate(t, s, place) == [t EXCEPT !.pos[s] = place]

\* Off the visible area, unless the piece is on its sheet.
ReturnHome(t, s) ==
  Relocate(t, s, IF t.board[s] = Sheet THEN HomeOf[t.pieces[s][1]] ELSE Off)

Attach(t, s) == SetAttached(MoveStackToBack(t, s, Sheet), s)

Detach(t, s, side, angle) ==
  LET p == t.pieces[s][1]
      u == [t EXCEPT !.attached[s] = FALSE, !.pos[s] = Position(t, s)]
  IN  [u EXCEPT !.side[p] = side, !.angle[p] = angle]

\* The contained stacks are merged last to first, each at the same index.
Merge(t, s, others, i) ==
  OnEach(LAMBDA u, other : RemoveStack(MergeToPosition(u, s, other, i), other),
         Reverse(others), t)

\* Fault: angles are not brought back into a full turn.
RotatedOn(t, ps, increments) ==
  [t EXCEPT !.angle = [p \in Piece |-> IF Contains(ps, p) THEN @[p] + increments ELSE @[p]]]

\* A piece turned by some detents, counted from the angle it had before.
Rotated(t, ps, increments) ==
  [t EXCEPT !.angle = [p \in Piece |->
     IF Contains(ps, p) THEN (@[p] + increments) % Turn ELSE @[p]]]

\* Fault: a stack that becomes a hand stays on its board.
FillFromAfar(t, q, s) == [t EXCEPT !.hand[q] = [open |-> TRUE, stack |-> s]]

\* The hand that is filled is added if it is not there; what it held before
\* is not looked at.
Fill(t, q, s) ==
  LET u == IF t.board[s] = NoBoard THEN t ELSE RemoveStack(t, s)
  IN  [u EXCEPT !.hand[q] = [open |-> TRUE, stack |-> s]]

Empty(t, q) == [t EXCEPT !.hand[q].stack = NoStack]

\* The piece at one index is taken out and put back at another, if there
\* still is a hand to rearrange.
Reinsert(ps, from, to) == InsertAt(RemoveAt(ps, from + 1), to + 1, ps[from + 1])

RearrangeHand(t, q, from, to) ==
  LET s == t.hand[q].stack IN
  IF s = NoStack THEN t
  ELSE IF from \notin 0 .. HandCount(t, q) - 1 \/ to \notin 0 .. HandCount(t, q) - 1 THEN Throws(t)
  ELSE RearrangePieces(t, s, Reinsert(t.pieces[s], from, to))

SetFinalState(a, t) ==
  LET s == a.stacks[1]  q == a.to IN
  CASE a.op = "front" -> IF a.to = NoBoard THEN Throws(t) ELSE OnEach(LAMBDA u, x : MoveStackToFront(u, x, a.to), a.stacks, t)
    [] a.op = "z order" -> IF t.board[s] = NoBoard THEN Throws(t)
                           ELSE MoveStackToZOrder(t, s, t.board[s], a.to)
    [] a.op = "place" -> OnEach(LAMBDA u, x : Relocate(u, x, a.to), a.stacks, t)
    [] a.op = "return" -> OnEach(ReturnHome, a.stacks, t)
    [] a.op = "attach" -> OnEach(Attach, a.stacks, t)
    [] a.op = "detach" -> OnEach(LAMBDA u, x : LET i == CHOOSE i \in DOMAIN a.stacks : a.stacks[i] = x
                                               IN  Detach(u, x, a.to.side[i],
                                                     IF a.to.angle = <<>> THEN u.angle[u.pieces[x][1]]
                                                     ELSE a.to.angle[i]), a.stacks, t)
    [] a.op = "split" -> LET u == Split(t, s, a.pieces, a.stacks[2])
                         IN  IF u.attached[s] /\ u.pieces[s] = <<>> THEN Throws(u)
                             ELSE Relocate(u, a.stacks[2], Position(u, s))
    [] a.op = "merge" -> Merge(t, s, Tail(a.stacks), a.to)
    [] a.op = "rearrange" -> RearrangePieces(t, s, a.pieces)
    [] a.op = "invert" -> RearrangePieces(t, s, Reverse(t.pieces[s]))
    [] a.op = "remove" -> RemoveStack(t, s)
    [] a.op = "flip" -> OnEach(LAMBDA u, i : SetSide(u, a.pieces[i], a.to[i]), [i \in DOMAIN a.pieces |-> i], t)
    [] a.op = "rotate" -> Rotated(t, a.pieces, a.to)
    [] a.op = "fill" -> Fill(t, q, s)
    [] a.op = "empty" -> Empty(t, q)
    [] a.op = "add hand" -> AddPlayerHand(t, q)
    [] a.op = "remove hand" -> RemovePlayerHand(t, q)
    [] a.op = "rearrange hand" -> RearrangeHand(t, q.hand, q.from, q.to)
    [] a.op = "context" -> [t EXCEPT !.visible = a.to]

-----------------------------------------------------------------------------
(* The animation manager.                                                  *)

\* Fault: animations of pieces are not looked for in the pieces' stacks.
AnimatesStack(a, t, s) == Contains(a.stacks, s)

\* Does the animation involve the stack?  Pieces are looked for in the stack
\* they are in now, and a hand's stack is the one it has now.
Animates(a, t, s) ==
  CASE a.op \in {"flip", "rotate"} -> \E p \in ToSet(a.pieces) : t.stack[p] = s
    [] a.op = "rearrange hand" -> t.hand[a.to.hand].stack = s
    [] OTHER -> Contains(a.stacks, s)

IsBeingAnimated(t, queue, s) == \E a \in ToSet(queue) : Animates(a, t, s)

\* A program that has thrown does no more.
Step(t, a) == IF t.fault THEN t ELSE SetFinalState(a, t)

EndAllAnimations(t, queue) == OnEach(Step, queue, t)

\* How far one call of Animate gets: what takes no time is done up to the
\* next animation that does, and the first of those may be at its end.
Ready(queue) ==
  LET waits == {i \in 2 .. Len(queue) : queue[i].timed}
  IN  IF waits = {} THEN Len(queue) ELSE Min(waits) - 1

=============================================================================
