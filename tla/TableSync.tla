----------------------------- MODULE TableSync ------------------------------
(***************************************************************************)
(* How the players' copies of the table are kept the same.                 *)
(*                                                                         *)
(* A player who wants to change the table sends a StateChangeRequest to    *)
(* the host, with the sequence number his program last saw.  The host      *)
(* rejects it when its own number is greater; otherwise it increments its  *)
(* number and broadcasts a ChangeAccepted, and every program, the host's   *)
(* included, executes the change when that message reaches it.  Undo and   *)
(* Redo are such requests; Shuffle is one whose outcome the host draws     *)
(* when it executes it, and broadcasts as a second state change.  The host *)
(* may also load a game (at once, then broadcast) or change the game box   *)
(* (when its broadcast comes back).  A newcomer receives a snapshot of the *)
(* host's table in ConnectionAccepted, and everybody clears his undo stack *)
(* when the newcomer's PlayerHasJoined arrives.                            *)
(*                                                                         *)
(* Commands are deterministic: two programs that executed the same changes *)
(* on the same game show the same table.  shown is the part of the host's  *)
(* table whose animations have ended, which is what Game.Save writes.      *)
(*                                                                         *)
(* The last four variables belong to the observer, not to the program: see *)
(* their comments.                                                         *)
(***************************************************************************)
EXTENDS Relay, CommandHistory

CONSTANTS
  Kinds,         \* the requests that players make, a subset of AllKinds
  MaxRequests,   \* bound: how many changes are asked for, loads included
  MaxLoads,      \* bound: how many of them are games loaded, boxes opened
  MaxJoins,      \* bound: how many connections are made after the host's
  MaxLeaves,     \* bound: how many clients leave
  OldSeq         \* the sequence number a newcomer kept from an earlier game

AllKinds == {"do", "rotate", "undo", "redo", "shuffle"}

ASSUME BoundsAssumption ==
  /\ Kinds \subseteq AllKinds
  /\ MaxRequests \in Nat /\ MaxLoads \in Nat /\ MaxJoins \in Nat
  /\ MaxLeaves \in Nat /\ OldSeq \in Nat

VARIABLES
  status,    \* "out", "joining" (connected), "welcomed" (has the snapshot), "in"
  seq,       \* Model.StateChangeSequenceNumber
  history,   \* Model.CommandManager, and the table
  shown,     \* the host's table without the animations still running
  issued,    \* changes asked for so far: each has its own number
  counts,    \* how many loads, joins and leaves there have been
  rest,      \* rest[c]: messages that c still handles after it has disconnected
  waiting,   \* observer: waiting[c], requests of c that are not answered
  pos,       \* observer: the last broadcast that c handled
  suspect,   \* observer: programs whose table went through a race (see below)
  renumbered \* observer: the host's number was set back by a ShuffleResult

observers == <<waiting, pos, suspect, renumbered>>
vars == <<relayVars, status, seq, history, shown, issued, counts, rest, observers>>

Connected == {"joining", "welcomed", "in"}

Init ==
  /\ RelayInit
  /\ status = [c \in Client |-> IF c = Host THEN "in" ELSE "out"]
  /\ seq = [c \in Client |-> IF c = Host THEN 0 ELSE OldSeq]
  /\ history = [c \in Client |-> Cleared(<<>>)]
  /\ shown = <<>>
  /\ issued = 0
  /\ counts = [loads |-> 0, joins |-> 0, leaves |-> 0]
  /\ rest = [c \in Client |-> <<>>]
  /\ waiting = [c \in Client |-> {}]
  /\ pos = [c \in Client |-> 0]
  /\ suspect = {}
  /\ renumbered = FALSE

-----------------------------------------------------------------------------

SetHistory(c, h) == history' = [history EXCEPT ![c] = h]

\* A whole new game: ClearTransientState, then OpenGame.
NewGame(c, t) == SetHistory(c, Cleared(t))

\* Is a state change that the host has sent still on its way back to him?
StateChanges == {"ChangeAccepted", "ShuffleResult", "GameLoaded", "GameBoxHasChanged"}
ChangesOnTheirWay ==
  \/ \E i \in DOMAIN up[Host] : up[Host][i].body.type \in StateChanges
  \/ \E i \in DOMAIN down[Host] : down[Host][i].body.type \in StateChanges

-----------------------------------------------------------------------------
(* What players do.                                                        *)

\* The user of a connected program asks for a change.  Undo and Redo are only
\* offered when the program's own stack is not empty.  The request carries the
\* sequence number; the table its user saw (base), whether it came from the host of
\* this session (synced) and was free of races (faithful) serve the properties.
Ask(c, kind) ==
  /\ status[c] \in Connected
  /\ issued < MaxRequests
  /\ kind = "undo" => history[c].undo # <<>>
  /\ kind = "redo" => history[c].redo # <<>>
  /\ issued' = issued + 1
  /\ waiting' = [waiting EXCEPT ![c] = @ \cup {issued + 1}]
  /\ up' = Upload(c, "ClientToHost", Host,
             [type |-> "Request",
              req |-> [kind |-> kind, id |-> issued + 1, sender |-> c, seq |-> seq[c],
                       base |-> history[c].table, synced |-> status[c] # "joining",
                       faithful |-> c \notin suspect]])
  /\ UNCHANGED <<members, down, loopback, relayed, status, seq, history, shown,
                 counts, rest, pos, suspect, renumbered>>

\* The host's user opens a game or a scenario (the commands open, openscenario
\* and restoreautosave): it is loaded at once, then sent to everybody.  If
\* state changes are still on their way back to the host, it will execute them
\* on the new game and the others on the old one.
LoadGame ==
  /\ status[Host] = "in"
  /\ issued < MaxRequests /\ counts.loads < MaxLoads
  /\ issued' = issued + 1
  /\ counts' = [counts EXCEPT !.loads = @ + 1]
  /\ NewGame(Host, <<issued + 1>>)
  /\ shown' = <<issued + 1>>
  /\ seq' = [seq EXCEPT ![Host] = @ + 1]
  /\ up' = Upload(Host, "ClientToAll", Host,
             [type |-> "GameLoaded", seq |-> seq[Host] + 1, change |-> issued + 1])
  /\ suspect' = IF ChangesOnTheirWay THEN suspect \cup {Host} ELSE suspect
  /\ UNCHANGED <<members, down, loopback, relayed, status, rest, waiting, pos, renumbered>>

\* The host's user opens another game box: announced, not yet opened.
OpenBox ==
  /\ status[Host] = "in"
  /\ issued < MaxRequests /\ counts.loads < MaxLoads
  /\ issued' = issued + 1
  /\ counts' = [counts EXCEPT !.loads = @ + 1]
  /\ seq' = [seq EXCEPT ![Host] = @ + 1]
  /\ up' = Upload(Host, "ClientToAll", Host,
             [type |-> "GameBoxHasChanged", seq |-> seq[Host] + 1, change |-> issued + 1])
  /\ UNCHANGED <<members, down, loopback, relayed, status, history, shown, rest,
                 waiting, pos, suspect, renumbered>>

\* The host's animations end.
Animate ==
  /\ status[Host] = "in"
  /\ shown # history[Host].table
  /\ shown' = history[Host].table
  /\ UNCHANGED <<relayVars, status, seq, history, issued, counts, rest, observers>>

\* A program connects; it is not hosting any more, and keeps its old number.  That
\* takes longer than the frames in which the rest of its last stay is handled.
Connect(c) ==
  /\ status[c] = "out" /\ c \notin members /\ up[c] = <<>> /\ rest[c] = <<>>
  /\ Host \in members
  /\ counts.joins < MaxJoins
  /\ OnPlayerConnected(c)
  /\ status' = [status EXCEPT ![c] = "joining"]
  /\ counts' = [counts EXCEPT !.joins = @ + 1]
  /\ pos' = [pos EXCEPT ![c] = relayed]
  /\ suspect' = suspect \ {c}
  /\ UNCHANGED <<up, loopback, relayed, seq, history, shown, issued, rest,
                 waiting, renumbered>>

\* A program disconnects at the command of its user, who gives it when all that was
\* retrieved is handled (Application.DoEvents).
Leave(c) ==
  /\ status[c] \in Connected
  /\ counts.leaves < MaxLeaves
  /\ Hangup(c)
  /\ status' = [status EXCEPT ![c] = "out"]
  /\ counts' = [counts EXCEPT !.leaves = @ + 1]
  /\ waiting' = [waiting EXCEPT ![c] = {}]
  /\ UNCHANGED <<seq, history, shown, issued, rest, pos, suspect, renumbered>>

-----------------------------------------------------------------------------
(* What programs do with the packets they receive.                         *)

\* Client c handles its next packet from the server, which is of this type.
Handling(c, type) ==
  /\ down[c] # <<>>
  /\ Head(down[c]).body.type = type
  /\ down' = [down EXCEPT ![c] = Tail(@)]
  /\ pos' = [pos EXCEPT ![c] = IF Head(down[c]).n > 0 THEN Head(down[c]).n ELSE @]
  /\ UNCHANGED <<members, relayed, issued, counts, rest>>

Body(c) == Head(down[c]).body

\* The request was made before the last change that the host accepted.
\* Faults: nothing is outdated; what is outdated by a single change is not.
NeverOutdated(req) == FALSE
OutdatedByTwo(req) == req.seq + 1 < seq[Host]
Outdated(req) == req.seq < seq[Host]

\* Faults: the author is not told; the answer does not say which request it is about.
RejectSilently(req) == UNCHANGED <<up, loopback, seq>>
RejectNameless(req) ==
  SendToOne(Host, req.sender, [type |-> "ChangeRejected"]) /\ seq' = seq
Reject(req) ==
  SendToOne(Host, req.sender, [type |-> "ChangeRejected", req |-> req]) /\ seq' = seq

\* Fault: the number is announced and not taken.
AcceptUncounted(req) ==
  /\ up' = Upload(Host, "ClientToAll", Host,
             [type |-> "ChangeAccepted", seq |-> seq[Host] + 1, req |-> req])
  /\ UNCHANGED <<seq, loopback>>
Accept(req) ==
  /\ seq' = [seq EXCEPT ![Host] = @ + 1]
  /\ up' = Upload(Host, "ClientToAll", Host,
             [type |-> "ChangeAccepted", seq |-> seq[Host] + 1, req |-> req])
  /\ loopback' = loopback

\* StateChangeRequestMessage.Handle, at the host.
HandleRequest ==
  /\ Handling(Host, "Request")
  /\ LET req == Body(Host).req
     IN  IF Outdated(req) THEN Reject(req) ELSE Accept(req)
  /\ UNCHANGED <<status, history, shown, waiting, suspect, renumbered>>

\* A program takes the number of a change, unless it gave the number itself.
\* Faults: it never does; the host does it too.
TakeNumberNever(c) == seq' = seq
TakeNumberAlways(c) == seq' = [seq EXCEPT ![c] = Body(c).seq]
TakeNumber(c) == seq' = IF c = Host THEN seq ELSE [seq EXCEPT ![c] = Body(c).seq]

\* What a program executes when a request is accepted (HandleAccept).
Applied(h, req) ==
  CASE req.kind \in {"do", "rotate"} -> Done(h, req.id, req.kind = "rotate")
    [] req.kind = "undo" -> Undone(h)
    [] req.kind = "redo" -> Redone(h)
    [] req.kind = "shuffle" -> h

\* Between the snapshot and his PlayerHasJoined, a newcomer's stacks are not the
\* others': an Undo or Redo finds nothing there, or less than one entry of theirs.
Differs(c, req) ==
  /\ status[c] = "welcomed"
  /\ \/ req.kind = "undo" /\ history[c].undo = <<>>
     \/ req.kind = "undo" /\ Len(history[c].undo) = 1 /\ history[c].undo[1].rotation
     \/ req.kind = "redo" /\ history[c].redo = <<>>

\* ChangeAcceptedMessage.Handle.  The host answers a Shuffle with a result, unless no
\* stack of several pieces is selected when the message reaches it.
HandleChangeAccepted(c) ==
  /\ Handling(c, "ChangeAccepted")
  /\ LET req == Body(c).req
     IN  /\ SetHistory(c, Applied(history[c], req))
         /\ waiting' = [waiting EXCEPT ![c] = @ \ {req.id}]
         /\ suspect' = IF Differs(c, req) THEN suspect \cup {c} ELSE suspect
         /\ \/ /\ c = Host /\ req.kind = "shuffle"  \* it draws a permutation
               /\ seq' = [seq EXCEPT ![Host] = @ + 1]
               /\ up' = Upload(Host, "ClientToAll", Host,
                          [type |-> "ShuffleResult", seq |-> seq[Host] + 1, change |-> req.id])
            \/ TakeNumber(c) /\ up' = up
  /\ UNCHANGED <<loopback, status, shown, renumbered>>

\* ShuffleResultMessage.Handle: every program, the host's too, takes the number.
HandleShuffleResult(c) ==
  /\ Handling(c, "ShuffleResult")
  /\ seq' = [seq EXCEPT ![c] = Body(c).seq]
  /\ SetHistory(c, Done(history[c], Body(c).change, FALSE))
  /\ renumbered' = (renumbered \/ (c = Host /\ Body(c).seq # seq[c]))
  /\ UNCHANGED <<up, loopback, status, shown, waiting, suspect>>

\* ChangeRejectedMessage.Handle, for a request of this client.
HandleChangeRejected(c) ==
  /\ Handling(c, "ChangeRejected")
  /\ waiting' = [waiting EXCEPT ![c] = @ \ {Body(c).req.id}]
  /\ UNCHANGED <<up, loopback, status, seq, history, shown, suspect, renumbered>>

\* The same, for a request of the host itself.
HandleOwnRejection(c) ==
  /\ loopback[c] # <<>>
  /\ loopback' = [loopback EXCEPT ![c] = Tail(@)]
  /\ waiting' = [waiting EXCEPT ![c] = @ \ {Head(loopback[c]).body.req.id}]
  /\ UNCHANGED <<members, up, down, relayed, status, seq, history, shown, issued,
                 counts, rest, pos, suspect, renumbered>>

\* GameLoadedMessage.Handle: the host has already loaded the game.
HandleGameLoaded(c) ==
  /\ Handling(c, "GameLoaded")
  /\ IF c = Host
     THEN UNCHANGED <<seq, history, suspect>>
     ELSE /\ seq' = [seq EXCEPT ![c] = Body(c).seq]
          /\ NewGame(c, <<Body(c).change>>)
          /\ suspect' = suspect \ {c}
  /\ UNCHANGED <<up, loopback, status, shown, waiting, renumbered>>

\* GameBoxHasChangedMessage.Handle
HandleGameBoxHasChanged(c) ==
  /\ Handling(c, "GameBoxHasChanged")
  /\ NewGame(c, <<Body(c).change>>)
  /\ IF c = Host
     THEN /\ shown' = <<Body(c).change>>
          /\ UNCHANGED <<seq, suspect>>
     ELSE /\ seq' = [seq EXCEPT ![c] = Body(c).seq]
          /\ suspect' = suspect \ {c}
          /\ shown' = shown
  /\ UNCHANGED <<up, loopback, status, waiting, renumbered>>

\* Any of the messages with a game, at a player who does not own its game box or
\* cannot open it: he disconnects, in the second case with the default game.  What
\* was retrieved with it, he handles all the same.
HandleGameWithoutBox(c) ==
  /\ down[c] # <<>>
  /\ Body(c).type \in {"ConnectionAccepted", "GameLoaded", "GameBoxHasChanged"}
  /\ c = Host => Body(c).type = "GameBoxHasChanged"
  /\ counts.leaves < MaxLeaves
  /\ Hangup(c)
  /\ \E n \in 1 .. Len(down[c]) :
       rest' = [rest EXCEPT ![c] = [i \in 1 .. n - 1 |-> down[c][i + 1].body]]
  /\ \/ /\ SetHistory(c, ClearUndo(history[c]))
        /\ IF Body(c).type = "GameBoxHasChanged" THEN TakeNumber(c) ELSE seq' = seq
     \/ NewGame(c, <<>>) /\ TakeNumber(c)
  /\ status' = [status EXCEPT ![c] = "out"]
  /\ counts' = [counts EXCEPT !.leaves = @ + 1]
  /\ waiting' = [waiting EXCEPT ![c] = {}]
  /\ UNCHANGED <<shown, issued, pos, suspect, renumbered>>

\* PlayerWantsToJoinMessage.Handle, at the host: the game as Game.Save writes it,
\* with the number of the last change that the host has accepted.  clean says
\* that the two agree: no accepted change is still on its way back to the host
\* or being animated, and the host's own table is free of races.
HandlePlayerWantsToJoin ==
  /\ Handling(Host, "PlayerWantsToJoin")
  /\ SendToOne(Host, Head(down[Host]).from,
       [type |-> "ConnectionAccepted", seq |-> seq[Host], table |-> shown,
        clean |-> ~ChangesOnTheirWay /\ shown = history[Host].table /\ Host \notin suspect])
  /\ UNCHANGED <<status, seq, history, shown, waiting, suspect, renumbered>>

\* ConnectionAcceptedMessage.Handle, at the newcomer.  (When the connection is lost by
\* then he greets himself only, which clears an empty stack.)
HandleConnectionAccepted(c) ==
  /\ Handling(c, "ConnectionAccepted")
  /\ NewGame(c, Body(c).table)
  /\ seq' = [seq EXCEPT ![c] = Body(c).seq]
  /\ status' = [status EXCEPT ![c] = "welcomed"]
  /\ suspect' = IF Body(c).clean THEN suspect \ {c} ELSE suspect \cup {c}
  /\ up' = Upload(c, "ClientToAll", c, [type |-> "PlayerHasJoined"])
  /\ UNCHANGED <<loopback, shown, waiting, renumbered>>

\* Fault: only the newcomer clears his undo stack.
HandlePlayerHasJoinedAlone(c) ==
  /\ Handling(c, "PlayerHasJoined")
  /\ IF Head(down[c]).from = c
     THEN SetHistory(c, ClearUndo(history[c])) /\ status' = [status EXCEPT ![c] = "in"]
     ELSE UNCHANGED <<history, status>>
  /\ UNCHANGED <<up, loopback, seq, shown, waiting, suspect, renumbered>>

\* PlayerHasJoinedMessage.Handle: nobody can undo what came before.
HandlePlayerHasJoined(c) ==
  /\ Handling(c, "PlayerHasJoined")
  /\ SetHistory(c, ClearUndo(history[c]))
  /\ status' = [status EXCEPT ![c] = IF Head(down[c]).from = c THEN "in" ELSE @]
  /\ UNCHANGED <<up, loopback, seq, shown, waiting, suspect, renumbered>>

\* PlayerHasLeftMessage.Handle: nothing changes on the table.
HandlePlayerHasLeft(c) ==
  /\ Handling(c, "PlayerHasLeft")
  /\ UNCHANGED <<up, loopback, status, seq, history, shown, waiting,
                 suspect, renumbered>>

\* HostDisconnectedMessage.Handle: the player is alone with his table.
HandleHostDisconnected(c) ==
  /\ Handling(c, "HostDisconnected")
  /\ SetHistory(c, ClearUndo(history[c]))
  /\ status' = [status EXCEPT ![c] = "out"]
  /\ up' = [up EXCEPT ![c] = <<>>]
  /\ waiting' = [waiting EXCEPT ![c] = {}]
  /\ UNCHANGED <<loopback, seq, shown, suspect, renumbered>>

-----------------------------------------------------------------------------
(* A program that has disconnected hosts a game of its own (IsHosting), and *)
(* so handles what is left of the list that Controller.DoEvents goes        *)
(* through.                                                                 *)

\* RakClient.Send: who is not connected hears himself what he sends, to everybody or to
\* himself.  Fault: the connection is not looked at.
SendToServer(c, said) ==
  /\ rest' = [rest EXCEPT ![c] = Tail(@)]
  /\ up' = IF said = <<>> THEN up ELSE Upload(c, "ClientToAll", c, said[1])
SendToOneself(c, said) ==
  /\ rest' = [rest EXCEPT ![c] = Tail(@) \o said]
  /\ up' = up

\* The message makes this number and history of his, and he says this.
Alone(c, n, h, said) ==
  /\ seq' = [seq EXCEPT ![c] = n]
  /\ SetHistory(c, h)
  /\ SendToOneself(c, said)

\* As his own host: he decides, executes and numbers, and opens a game, which he may not
\* be able to.  What he would tell others goes nowhere, and the rest says nothing to him.
HandleAlone(c, m) ==
  LET number == seq[c]
      mine == history[c]
  IN  CASE m.type = "Request" ->
             IF m.req.seq < number
             THEN Alone(c, number, mine,
                        IF m.req.sender = c
                        THEN <<[type |-> "ChangeRejected", req |-> m.req]>> ELSE <<>>)
             ELSE Alone(c, number + 1, mine,
                        <<[type |-> "ChangeAccepted", seq |-> number + 1, req |-> m.req]>>)
        [] m.type = "ChangeAccepted" ->
             \/ Alone(c, number, Applied(mine, m.req), <<>>)
             \/ /\ m.req.kind = "shuffle"
                /\ Alone(c, number + 1, mine,
                         <<[type |-> "ShuffleResult", seq |-> number + 1, change |-> m.req.id]>>)
        [] m.type = "ShuffleResult" -> Alone(c, m.seq, Done(mine, m.change, FALSE), <<>>)
        [] m.type = "GameBoxHasChanged" ->
             \E t \in {<<m.change>>, <<>>, mine.table} : Alone(c, number, Cleared(t), <<>>)
        [] m.type = "ConnectionAccepted" ->
             \/ Alone(c, number, ClearUndo(mine), <<>>)
             \/ Alone(c, m.seq, Cleared(<<>>), <<>>)
             \/ Alone(c, m.seq, Cleared(m.table), <<[type |-> "PlayerHasJoined"]>>)
        [] m.type \in {"PlayerHasJoined", "HostDisconnected"} -> Alone(c, number, ClearUndo(mine), <<>>)
        [] OTHER -> Alone(c, number, mine, <<>>)

HandleRest(c) ==
  /\ status[c] = "out" /\ rest[c] # <<>>
  /\ HandleAlone(c, Head(rest[c]))
  /\ renumbered' = (renumbered \/ (c = Host /\ seq'[c] < seq[c]))
  /\ UNCHANGED <<members, down, loopback, relayed, status, shown, issued, counts,
                 waiting, pos, suspect>>

-----------------------------------------------------------------------------

Handle(c) ==
  \/ HandleChangeAccepted(c)
  \/ HandleShuffleResult(c)
  \/ HandleChangeRejected(c)
  \/ HandleOwnRejection(c)
  \/ HandleGameLoaded(c)
  \/ HandleGameBoxHasChanged(c)
  \/ HandleGameWithoutBox(c)
  \/ HandleConnectionAccepted(c)
  \/ HandlePlayerHasJoined(c)
  \/ HandlePlayerHasLeft(c)
  \/ HandleHostDisconnected(c)
  \/ HandleRest(c)

HandleAtHost == HandleRequest \/ HandlePlayerWantsToJoin

Relaying(c) ==
  /\ ServerStep(c)
  /\ UNCHANGED <<status, seq, history, shown, issued, counts, rest, observers>>

ProgramStep ==
  \/ \E c \in Client, kind \in Kinds : Ask(c, kind)
  \/ LoadGame
  \/ OpenBox
  \/ Animate
  \/ \E c \in Client : Connect(c)
  \/ \E c \in Client : Leave(c)
  \/ \E c \in Client : Handle(c)
  \/ HandleAtHost

Next == ProgramStep \/ \E c \in Client : Relaying(c)

Spec == Init /\ [][Next]_vars

\* Both processes poll their connection forever and RakNet's ordered reliable
\* channel loses nothing, so that every packet is read sooner or later.
Fairness ==
  /\ \A c \in Client : WF_vars(Relaying(c)) /\ WF_vars(Handle(c))
  /\ WF_vars(HandleAtHost)

FairSpec == Spec /\ Fairness

-----------------------------------------------------------------------------
(* Properties.                                                             *)

Requests == [kind : AllKinds, id : 1 .. MaxRequests, sender : Client, seq : Nat,
             base : Seq(1 .. MaxRequests), synced : BOOLEAN, faithful : BOOLEAN]

\* What packets carry.
Bodies ==
  [type : {"Request", "ChangeRejected"}, req : Requests]
  \cup [type : {"ChangeAccepted"}, seq : Nat, req : Requests]
  \cup [type : {"ShuffleResult", "GameLoaded", "GameBoxHasChanged"}, seq : Nat,
        change : 1 .. MaxRequests]
  \cup [type : {"ConnectionAccepted"}, seq : Nat, table : Seq(1 .. MaxRequests),
        clean : BOOLEAN]
  \cup [type : {"PlayerWantsToJoin", "PlayerHasJoined", "PlayerHasLeft",
                "HostDisconnected", "Disconnect"}]

Routes == {"ClientToHost", "ClientToAll", "HostToSingleClient", "Disconnect"}
Changes == Seq(1 .. MaxRequests)

UpPackets == [route : Routes, to : Client, body : Bodies]
DownPackets == [from : Client, n : Nat, body : Bodies]

ChannelsOK ==
  /\ members \subseteq Client
  /\ up \in [Client -> Seq(UpPackets)]
  /\ down \in [Client -> Seq(DownPackets)]
  /\ loopback \in [Client -> Seq(DownPackets)]
  /\ relayed \in Nat

Entries == [changes : Changes, rotation : BOOLEAN]
Histories == [table : Changes, undo : Seq(Entries), redo : Seq(Entries)]

TablesOK == history \in [Client -> Histories] /\ shown \in Changes

NumbersOK ==
  /\ status \in [Client -> Connected \cup {"out"}]
  /\ seq \in [Client -> Nat]
  /\ issued \in 0 .. MaxRequests
  /\ counts \in [loads : 0 .. MaxLoads, joins : 0 .. MaxJoins, leaves : 0 .. MaxLeaves]

RestOK == rest \in [Client -> Seq(Bodies)]

ObserversOK ==
  /\ waiting \in [Client -> SUBSET (1 .. MaxRequests)]
  /\ pos \in [Client -> Nat]
  /\ suspect \subseteq Client
  /\ renumbered \in BOOLEAN

\* The type invariant: what the variables of the programs, the packets between them
\* and the observer hold. 
TypeOK == ChannelsOK /\ TablesOK /\ NumbersOK /\ RestOK /\ ObserversOK

\* What is on its way between the programs.
Carried(channel) == UNION {{channel[c][i].body : i \in DOMAIN channel[c]} : c \in Client}
InTransit == Carried(up) \cup Carried(down)

\* A player who joined, not the host's own user, made this request.
MadeInSession(req) == req.sender # Host /\ req.synced

\* Optimistic concurrency control: a request that the host accepts was made by a
\* player whose program had seen every change accepted before.  Excepted are requests
\* of the host's own user (see NoCollision), of players who wait for a snapshot, with
\* the number of their last game, and those that follow a ShuffleResult which set the
\* host's number back.  (StateChangeRequestMessage.Handle)
AcceptedIsCurrent ==
  ~renumbered => \A m \in InTransit :
     (m.type = "ChangeAccepted" /\ MadeInSession(m.req)) => m.seq = m.req.seq + 1

\* Why it is so: as long as the host's number is not set back, he is ahead of everything
\* and of everybody.  No packet carries a greater number than his, no program that
\* has his game has a greater one, and no request was made with one.
HasNumber == StateChanges \cup {"ConnectionAccepted"}
Behind(m, n) ==
  /\ m.type \in HasNumber => m.seq <= n
  /\ (m.type = "Request" /\ MadeInSession(m.req)) => m.req.seq <= n
HostLeads ==
  ~renumbered =>
    /\ \A m \in InTransit : Behind(m, seq[Host])
    /\ \A c \in Client : status[c] \in {"welcomed", "in"} => seq[c] <= seq[Host]

\* The host receives no snapshot, which would set his number: only a newcomer does.
FromClient(packet) ==
  /\ packet.body.type \notin {"PlayerWantsToJoin", "PlayerHasLeft", "HostDisconnected"}
  /\ packet.body.type = "ConnectionAccepted"
       => packet.route = "HostToSingleClient" /\ packet.to # Host
ToHost(packet) ==
  /\ packet.body.type # "ConnectionAccepted"
  /\ packet.body.type = "PlayerWantsToJoin" => packet.from # Host
HostNeverJoins ==
  /\ \A c \in Client : \A i \in DOMAIN up[c] : FromClient(up[c][i])
  /\ \A i \in DOMAIN down[Host] : ToHost(down[Host][i])

\* Hence, when his change comes back to him, a player's table is the one he was
\* looking at when he asked for it, even if he left and joined again in between.  While
\* he waits for his snapshot his table is any, and will be replaced.
\* (ChangeAcceptedMessage.Handle)
ChangeAppliesToBase(c) ==
  (/\ status[c] \in {"welcomed", "in"} /\ down[c] # <<>> /\ Body(c).type = "ChangeAccepted"
   /\ Body(c).req.sender = c /\ Body(c).req.synced /\ Body(c).req.faithful)
    => history[c].table = Body(c).req.base
OwnChangeAppliesToBase ==
  ~renumbered => \A c \in Client \ (suspect \cup {Host}) : ChangeAppliesToBase(c)

\* Programs that handled the same broadcasts show the same table, and those that
\* completely joined would undo and redo the same change.  While a game that the
\* host has loaded is on its way, the host is ahead of the broadcasts.
Following(c) == status[c] \in {"welcomed", "in"} /\ c \notin suspect
Loading ==
  \/ \E i \in DOMAIN up[Host] : up[Host][i].body.type = "GameLoaded"
  \/ \E i \in DOMAIN down[Host] : down[Host][i].body.type = "GameLoaded"
Agreement ==
  \A c, d \in Client :
     (/\ Following(c) /\ Following(d) /\ pos[c] = pos[d]
      /\ Host \in {c, d} => ~Loading)
       => /\ history[c].table = history[d].table
          /\ (status[c] = "in" /\ status[d] = "in") => history[c] = history[d]

\* What a player can undo are the last changes of his table, in this order, whatever was
\* aggregated, forgotten, undone and redone.  (CommandManager)
UndoIsLatest == \A c \in Client : UndoesTheLatest(history[c])

\* Once nothing is on its way, nobody is behind the host: a program left
\* behind would have every later request rejected.  Excepted are sessions in which a
\* shuffle's result set the host's number back: a second result, sent later, may then
\* set it ahead of the last number that the others receive.
NobodyLockedOut ==
  (/\ ~renumbered /\ Host \in members
   /\ \A c \in Client : up[c] = <<>> /\ down[c] = <<>> /\ loopback[c] = <<>>)
    => \A c \in Client : status[c] \in {"welcomed", "in"} => seq[Host] <= seq[c]

\* Sessions do not mix, although a player may leave and come back as often as he
\* wants: a program that is out tells the session nothing more, though it still handles
\* what it has retrieved and answers it; one that waits for its snapshot has not been
\* announced, not even in packets of its last stay; and what the host's departure ends
\* is over.  (RakServer.onPlayerDisconnected, RakClient.Disconnect and Send)
OutIsOut ==
  \A c \in Client : status[c] = "out" => HungUp(c) \/ c \notin members
Unannounced ==
  \A c \in Client : status[c] = "joining" =>
    /\ \A i \in DOMAIN up[c] : up[c][i].body.type # "PlayerHasJoined"
    /\ \A i \in DOMAIN down[c] :
         ~(down[c][i].from = c /\ down[c][i].body.type = "PlayerHasJoined")
HostEndsSession ==
  /\ Host \notin members => members = {}
  /\ \A c \in Client : \A i \in DOMAIN down[c] :
       down[c][i].body.type = "HostDisconnected" => i = Len(down[c]) /\ members = {}
SessionsApart == OutIsOut /\ Unannounced /\ HostEndsSession

\* The number a program has seen never goes back, unless the host's has.
NumbersGrow ==
  [][\A c \in Client :
       (status[c] = "in" /\ status'[c] = "in" /\ ~renumbered') => seq[c] <= seq'[c]]_vars

\* Every request is accepted or rejected in the end, or its author disconnects.
RequestsAnswered ==
  \A c \in Client, id \in 1 .. MaxRequests : id \in waiting[c] ~> id \notin waiting[c]

(* Without exceptions, as the comment on stateChangeSequenceNumber says    *)
(* it: it "indicates the game state at the time this message was sent" and *)
(* is "used to prevent collisions of two conflicting state changes".       *)

\* Of two moves that different players made on the same table, only one is accepted.
\* (StateChangeRequestMessage.Handle increments the host's number long before the
\* accepted change is executed at the host)
NoCollision ==
  \A m1, m2 \in Carried(down) :
     (/\ m1.type = "ChangeAccepted" /\ m2.type = "ChangeAccepted"
      /\ m1.req.kind = "do" /\ m2.req.kind = "do" /\ m1.req.sender # m2.req.sender
      /\ m1.req.synced /\ m2.req.synced)
       => m1.req.base # m2.req.base
=============================================================================
