------------------------------ MODULE Rotation ------------------------------
(***************************************************************************)
(* How a piece or the top of a stack is rotated with the mouse wheel.      *)
(*                                                                         *)
(* A turn of the wheel is shown at once.  What the user has turned since   *)
(* is only requested when the host answers a BeginRotation with a          *)
(* ContinueRotation, so that there is one request per round trip at most.  *)
(* When the request is accepted its author has nothing left to do; the     *)
(* others turn the pieces above the one it names.  When it is rejected the *)
(* author takes the rotation back.  (The chart in IdleState.cs calls       *)
(* increments A, inProgress B and waiting C.)                              *)
(*                                                                         *)
(* All programs are in the session and stay.  The other changes of the     *)
(* table are those that matter here: a piece is dropped on top of the      *)
(* stack or beside it, and the host loads a game, whose pieces are new     *)
(* ones.  Animations end before the next event.                            *)
(***************************************************************************)
EXTENDS Relay, Integers, SequencesExt

CONSTANTS
  Piece,
  Turn,       \* increments in a full turn; 24 in the code
  MaxEvents   \* bound: how often a wheel is turned, a piece moved or a game loaded

ASSUME RotationAssumption ==
  /\ IsFiniteSet(Piece)
  /\ Turn \in Nat \ {0}
  /\ MaxEvents \in Nat

VARIABLES
  seq,        \* Model.StateChangeSequenceNumber
  game,       \* which game each program shows
  stack,      \* stack[c]: the pieces that are stacked, bottom first; others lie alone
  angle,      \* angle[c][p]: Piece.RotationAngle
  rotating,   \* IdleState.PiecesBeingRotated: pieces of a game
  increments, \* IdleState.RotationIncrements
  inProgress, \* IdleState.RotationInProgress
  waiting,    \* IdleState.WaitingForContinueRotationMessage
  failed,     \* programs that ended with an exception
  events,     \* how many such events there have been
  torn        \* observer: pieces whose rotation went through a race (see below)

tableVars == <<seq, game, stack, angle>>
idleStateVars == <<rotating, increments, inProgress, waiting>>
vars == <<relayVars, tableVars, idleStateVars, failed, events, torn>>

RelayOpen ==
  /\ members = Client
  /\ up = [c \in Client |-> <<>>] /\ down = up /\ loopback = up
  /\ relayed = 0

Nothing == [game |-> 0, pieces |-> <<>>]

Init ==
  /\ RelayOpen
  /\ seq = [c \in Client |-> 0]
  /\ game = [c \in Client |-> 1]
  /\ stack = [c \in Client |-> SetToSeq(Piece)]
  /\ angle = [c \in Client |-> [p \in Piece |-> 0]]
  /\ rotating = [c \in Client |-> Nothing]
  /\ increments = [c \in Client |-> 0]
  /\ inProgress = [c \in Client |-> FALSE]
  /\ waiting = [c \in Client |-> FALSE]
  /\ failed = {}
  /\ events = 0
  /\ torn = {}

-----------------------------------------------------------------------------

Height(s, p) == CHOOSE i \in DOMAIN s : s[i] = p

\* The piece and those above it.
Above(s, p) == IF Contains(s, p) THEN SubSeq(s, Height(s, p), Len(s)) ELSE <<p>>
Without(s, p) == IF Contains(s, p) THEN RemoveAt(s, Height(s, p)) ELSE s

\* What a wheel can turn: the top of a stack on the board, a piece in the inspector.
Group(c) == {Above(stack[c], p) : p \in Piece} \cup {<<p>> : p \in Piece}

\* InstantRotatePiecesAnimation; pieces of another game are on no table.
Rotate(c, g, d) ==
  angle' = IF g.game # game[c] THEN angle
           ELSE [angle EXCEPT ![c] = [p \in Piece |->
                   IF Contains(g.pieces, p) THEN (@[p] + d) % Turn ELSE @[p]]]

Moves == {"on_top", "beside"}

\* Is a change that the host has accepted still on its way back to him?
ChangesOnTheirWay ==
  \/ \E i \in DOMAIN up[Host] : up[Host][i].body.type = "ChangeAccepted"
  \/ \E i \in DOMAIN down[Host] : down[Host][i].body.type = "ChangeAccepted"

Ask(c, req) == up' = Upload(c, "ClientToHost", Host, [type |-> "Request", req |-> req])
AskToBegin(c) == up' = Upload(c, "ClientToHost", Host, [type |-> "BeginRotation"])

-----------------------------------------------------------------------------
(* What players do.                                                        *)

\* Is another rotation in progress?  Then the new one is ignored.
\* Fault: it replaces the other.
BusyNever(c, g) == FALSE
Busy(c, g) == rotating[c] \notin {Nothing, g}

\* A BeginRotation is sent unless the program waits for the answer to one already.
\* Fault: one is sent each time.
BeginAlways(c) == inProgress' = [inProgress EXCEPT ![c] = FALSE] /\ AskToBegin(c)
Begin(c) ==
  /\ inProgress' = [inProgress EXCEPT ![c] = waiting[c]]
  /\ IF waiting[c] THEN up' = up ELSE AskToBegin(c)

HandleMouseWheel(c, g, d) ==
  /\ events < MaxEvents
  /\ ~Busy(c, g)
  /\ events' = events + 1
  /\ rotating' = [rotating EXCEPT ![c] = g]
  /\ increments' = [increments EXCEPT ![c] = @ + d]
  /\ Rotate(c, g, d)
  /\ waiting' = [waiting EXCEPT ![c] = TRUE]
  /\ Begin(c)
  /\ UNCHANGED <<members, down, loopback, relayed, seq, game, stack, failed, torn>>

\* A player drops a piece on top of the stack, or beside it.
AskToMove(c, p, kind) ==
  /\ events < MaxEvents
  /\ events' = events + 1
  /\ Ask(c, [kind |-> kind, sender |-> c, seq |-> seq[c], piece |-> p])
  /\ UNCHANGED <<members, down, loopback, relayed, tableVars, idleStateVars, failed, torn>>

\* Another game, with no stack yet.
NewGame(c, n, g) ==
  /\ seq' = [seq EXCEPT ![c] = n]
  /\ game' = [game EXCEPT ![c] = g]
  /\ stack' = [stack EXCEPT ![c] = <<>>]
  /\ angle' = [angle EXCEPT ![c] = [p \in Piece |-> 0]]

LoadGame ==
  /\ events < MaxEvents
  /\ events' = events + 1
  /\ NewGame(Host, seq[Host] + 1, game[Host] + 1)
  /\ up' = Upload(Host, "ClientToAll", Host,
             [type |-> "GameLoaded", seq |-> seq[Host] + 1, game |-> game[Host] + 1])
  /\ torn' = IF ChangesOnTheirWay THEN Piece ELSE torn
  /\ UNCHANGED <<members, down, loopback, relayed, idleStateVars, failed>>

-----------------------------------------------------------------------------
(* What programs do with the packets they receive.                         *)

\* The next packet of c, from the server or from itself, says this.
Handling(c, body) ==
  \/ /\ down[c] # <<>> /\ Head(down[c]).body = body
     /\ down' = [down EXCEPT ![c] = Tail(@)]
     /\ loopback' = loopback
  \/ /\ loopback[c] # <<>> /\ Head(loopback[c]).body = body
     /\ loopback' = [loopback EXCEPT ![c] = Tail(@)]
     /\ down' = down
Incoming(c) == {Head(q).body : q \in {down[c], loopback[c]} \ {<<>>}}

\* BeginRotationMessage.Handle and StateChangeRequestMessage.Handle, at the host.
HandleAtHost ==
  /\ down[Host] # <<>>
  /\ down' = [down EXCEPT ![Host] = Tail(@)]
  /\ LET packet == Head(down[Host])
         body == packet.body
     IN  \/ /\ body.type = "BeginRotation"
            /\ SendToOne(Host, packet.from, [type |-> "ContinueRotation"])
            /\ seq' = seq
         \/ /\ body.type = "Request"
            /\ body.req.seq < seq[Host]
            /\ SendToOne(Host, packet.from, [type |-> "ChangeRejected", req |-> body.req])
            /\ seq' = seq
         \/ /\ body.type = "Request"
            /\ body.req.seq >= seq[Host]
            /\ seq' = [seq EXCEPT ![Host] = @ + 1]
            /\ up' = Upload(Host, "ClientToAll", Host,
                       [type |-> "ChangeAccepted", seq |-> seq[Host] + 1, req |-> body.req])
            /\ loopback' = loopback
  /\ UNCHANGED <<members, relayed, game, stack, angle, idleStateVars, failed, events, torn>>

\* IdleState.ContinueRotation.  The request names the lowest piece; shown says what
\* its author has turned, and serves the properties.
ContinueRotation(c) ==
  /\ Handling(c, [type |-> "ContinueRotation"])
  /\ waiting' = [waiting EXCEPT ![c] = inProgress[c]]
  /\ inProgress' = [inProgress EXCEPT ![c] = FALSE]
  /\ \/ /\ inProgress[c]
        /\ AskToBegin(c)
        /\ UNCHANGED <<rotating, increments>>
     \/ /\ ~inProgress[c] /\ increments[c] # 0
        /\ Ask(c, [kind |-> IF Len(rotating[c].pieces) = 1 THEN "RotatePiece" ELSE "RotateStack",
                   sender |-> c, seq |-> seq[c], piece |-> Head(rotating[c].pieces),
                   by |-> increments[c], shown |-> rotating[c]])
        /\ increments' = [increments EXCEPT ![c] = 0]
        /\ rotating' = rotating
     \/ /\ ~inProgress[c] /\ increments[c] = 0
        /\ rotating' = [rotating EXCEPT ![c] = Nothing]
        /\ UNCHANGED <<up, increments>>
  /\ UNCHANGED <<members, relayed, tableVars, failed, events, torn>>

\* What a rotation that was accepted turns: the piece, or what is above it by now.
Target(c, req) ==
  [game |-> game[c],
   pieces |-> IF req.kind = "RotateStack" THEN Above(stack[c], req.piece) ELSE <<req.piece>>]

\* The rotation is over, unless the wheel has been turned again.
\* Fault: it never is.
RotationGoesOn(c) == rotating' = rotating
RotationOver(c) ==
  rotating' = [rotating EXCEPT ![c] = IF inProgress[c] \/ waiting[c] THEN @ ELSE Nothing]

\* RotatePieceMessage.HandleAccept and RotateStackMessage.HandleAccept.
HandleRotation(c) ==
  \E body \in Incoming(c) :
    /\ body.type = "ChangeAccepted" /\ body.req.kind \notin Moves
    /\ Handling(c, body)
    /\ seq' = [seq EXCEPT ![c] = IF c = Host THEN @ ELSE body.seq]
    /\ LET target == Target(c, body.req)
       IN  IF body.req.sender = c
           THEN /\ RotationOver(c)
                /\ angle' = angle
                /\ torn' = IF target = body.req.shown THEN torn
                           ELSE torn \cup ToSet(target.pieces) \cup ToSet(body.req.shown.pieces)
           ELSE Rotate(c, target, body.req.by) /\ UNCHANGED <<rotating, torn>>
    /\ UNCHANGED <<members, up, relayed, game, stack, increments, inProgress, waiting, failed, events>>

\* DragDropPieceMessage and DragDropPieceOnTopOfOtherStackMessage, once accepted.
HandleMove(c) ==
  \E body \in Incoming(c) :
    /\ body.type = "ChangeAccepted" /\ body.req.kind \in Moves
    /\ Handling(c, body)
    /\ seq' = [seq EXCEPT ![c] = IF c = Host THEN @ ELSE body.seq]
    /\ LET rest == Without(stack[c], body.req.piece)
       IN  stack' = [stack EXCEPT ![c] =
                       IF body.req.kind = "beside" THEN rest ELSE Append(rest, body.req.piece)]
    /\ UNCHANGED <<members, up, relayed, game, angle, idleStateVars, failed, events, torn>>

\* IdleState.RejectRotation takes back what is being rotated; when nothing is, the
\* program ends with an exception.
\* Fault: nothing is taken back.
RejectRotationSilently(c, by) == RotationOver(c) /\ UNCHANGED <<angle, failed>>
RejectRotation(c, by) ==
  /\ Rotate(c, rotating[c], -by)
  /\ RotationOver(c)
  /\ failed' = IF rotating[c] = Nothing THEN failed \cup {c} ELSE failed

HandleChangeRejected(c) ==
  \E body \in Incoming(c) :
    /\ body.type = "ChangeRejected"
    /\ Handling(c, body)
    /\ IF body.req.kind \in Moves
       THEN UNCHANGED <<angle, rotating, failed, torn>>
       ELSE /\ RejectRotation(c, body.req.by)
            /\ torn' = IF c # Host \/ rotating[c] = body.req.shown THEN torn
                       ELSE torn \cup ToSet(rotating[c].pieces) \cup ToSet(body.req.shown.pieces)
    /\ UNCHANGED <<members, up, relayed, seq, game, stack, increments, inProgress, waiting, events>>

\* GameLoadedMessage.Handle
HandleGameLoaded(c) ==
  \E body \in Incoming(c) :
    /\ body.type = "GameLoaded"
    /\ Handling(c, body)
    /\ IF c = Host THEN UNCHANGED tableVars ELSE NewGame(c, body.seq, body.game)
    /\ UNCHANGED <<members, up, relayed, idleStateVars, failed, events, torn>>

Handle(c) ==
  \/ ContinueRotation(c) \/ HandleRotation(c) \/ HandleMove(c)
  \/ HandleChangeRejected(c) \/ HandleGameLoaded(c)

Relaying(c) ==
  /\ ServerStep(c)
  /\ UNCHANGED <<tableVars, idleStateVars, failed, events, torn>>

\* A program that has ended with an exception does nothing any more.
ProgramStep(c) ==
  \/ \E pieces \in Group(c), d \in {1, -1} :
       HandleMouseWheel(c, [game |-> game[c], pieces |-> pieces], d)
  \/ \E p \in Piece, kind \in Moves : AskToMove(c, p, kind)
  \/ Handle(c)

Next ==
  \/ \E c \in Client : Relaying(c)
  \/ \E c \in Client \ failed : ProgramStep(c)
  \/ Host \notin failed /\ (LoadGame \/ HandleAtHost)

Spec == Init /\ [][Next]_vars

-----------------------------------------------------------------------------
(* Properties.                                                             *)

Groups == [game : Nat, pieces : Seq(Piece)]

\* The type invariant: what the programs keep about the table and the wheel.
TypeOK ==
  /\ seq \in [Client -> Nat] /\ game \in [Client -> Nat]
  /\ stack \in [Client -> Seq(Piece)]
  /\ angle \in [Client -> [Piece -> 0 .. Turn - 1]]
  /\ rotating \in [Client -> Groups] /\ increments \in [Client -> Int]
  /\ inProgress \in [Client -> BOOLEAN] /\ waiting \in [Client -> BOOLEAN]
  /\ failed \subseteq Client /\ torn \subseteq Piece
  /\ events \in 0 .. MaxEvents

\* Nothing is on its way, and no program has ended.
Settled == failed = {} /\ \A c \in Client : up[c] = <<>> /\ down[c] = <<>> /\ loopback[c] = <<>>

\* A turn of the wheel is shown before it is requested, and never again when it is
\* confirmed; all the same everybody sees a piece turned by the same angle in the end,
\* except where a race has torn it: its author's rotation was confirmed for other pieces
\* than he had turned, or the host's was taken back on other pieces, or the host
\* loaded a game while changes were under way.  (IdleState)
SettledAngles ==
  Settled => \A c, d \in Client, p \in Piece \ torn : angle[c][p] = angle[d][p]

\* What is taken back, at a player who joined, is what he had turned.
\* (IdleState.RejectRotation)
TakesBackOwn ==
  \A c \in Client \ {Host} :
    (/\ down[c] # <<>> /\ Head(down[c]).body.type = "ChangeRejected"
     /\ Head(down[c]).body.req.kind \notin Moves)
      => rotating[c] = Head(down[c]).body.req.shown

\* All queues of packets, and where in them a BeginRotation of c is, or the answer to one.
Queues == {"up", "down", "loopback"} \X Client
Queue(q) == CASE q[1] = "up" -> up[q[2]] [] q[1] = "down" -> down[q[2]] [] OTHER -> loopback[q[2]]
OfRoundTrip(c, q, m) ==
  \/ m.body.type = "BeginRotation" /\ (IF q[1] = "up" THEN q[2] = c ELSE m.from = c)
  \/ m.body.type = "ContinueRotation" /\ (IF q[1] = "up" THEN m.to = c ELSE q[2] = c)
RoundTrips(c) ==
  UNION {{<<q, i>> : i \in {j \in DOMAIN Queue(q) : OfRoundTrip(c, q, Queue(q)[j])}} : q \in Queues}

\* The wheel costs one request per round trip, however fast it is turned: the program
\* waits for a ContinueRotation exactly while there is one under way.
\* (WaitingForContinueRotationMessage)
OneRoundTrip ==
  \A c \in Client : /\ Cardinality(RoundTrips(c)) = IF waiting[c] THEN 1 ELSE 0
                    /\ (increments[c] # 0 \/ inProgress[c]) => waiting[c]

\* The wheel is free again in the end: once every packet has been handled nobody
\* still has pieces in rotation, which would make his program ignore the wheel over any
\* others, nor waits for a ContinueRotation that never comes.  (AcceptRotation)
WheelIsFree == Settled => \A c \in Client : rotating[c] = Nothing /\ ~waiting[c]

\* Agreement without the exception: a comment in ContinueRotation says that a
\* rotation that collides with other actions "will get rejected anyway".
SameAngles == Settled => \A c, d \in Client, p \in Piece : angle[c][p] = angle[d][p]
=============================================================================
