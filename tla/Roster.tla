------------------------------- MODULE Roster -------------------------------
(***************************************************************************)
(* Who plays: each program's list of players (Model.Players), the colours  *)
(* that the host gives them, and whose hand a change is about.             *)
(*                                                                         *)
(* The host tells a newcomer who plays (ConnectionAccepted); the newcomer  *)
(* tells everybody that he does (PlayerHasJoined), the server that         *)
(* somebody does not any more (PlayerHasLeft).  A change that a player     *)
(* makes in his hand is executed by the programs that have him in their    *)
(* list (HandleAccept of AddPlayerHandMessage, GrabStackMessage and the    *)
(* like), in the hand of his Guid.  All requests are accepted here, and    *)
(* tables consist of the hands: TableSync has the rest.                    *)
(*                                                                         *)
(* Each list begins with the program's own player.                         *)
(***************************************************************************)
EXTENDS Relay, SequencesExt

CONSTANTS
  GuidOf,       \* the Guid in the settings of each program
  playerColors, \* 23 in the code; the host's is the first one
  MaxJoins, MaxLeaves, MaxAsks    \* bounds

NoOne == 0      \* the network id of a program that has not been connected
NoGuid == "no guid"
White == "white"

ASSUME PlayersAssumption ==
  /\ NoOne \notin Client
  /\ NoGuid \notin {GuidOf[c] : c \in Client}
  /\ playerColors \in Seq(STRING)
  /\ \A i, j \in DOMAIN playerColors : playerColors[i] = playerColors[j] => i = j

VARIABLES
  status,     \* "out", "connecting", "welcomed" (has the list), "in"
  players,    \* Model.Players
  hands,      \* what each program has done, and in whose hand
  counts,     \* joins, leaves and changes so far
  crossed,    \* observer: somebody came or went while somebody else was coming or
              \* had not been missed yet, or was answered while a change was on its
              \* way back to the host (TableSync has that case)
  hurried     \* observer: somebody came back before the answer to his last
              \* PlayerWantsToJoin was back at the server, or made a change when he
              \* had come back and the others did not list him yet

vars == <<relayVars, status, players, hands, counts, crossed, hurried>>

Init ==
  /\ RelayInit
  /\ status = [c \in Client |-> IF c = Host THEN "connecting" ELSE "out"]
  /\ players = [c \in Client |-> <<[id |-> NoOne, guid |-> GuidOf[c], color |-> playerColors[1]]>>]
  /\ hands = [c \in Client |-> {}]
  /\ counts = [joins |-> 0, leaves |-> 0, asks |-> 0]
  /\ crossed = FALSE
  /\ hurried = FALSE

-----------------------------------------------------------------------------
(* Model.                                                                  *)

Position(list, id) == SelectInSeq(list, LAMBDA p : p.id = id)
GetPlayer(list, id) == list[Position(list, id)]
HasPlayer(list, id) == Position(list, id) # 0

\* Fault: a player who plays already is added again.
AddPlayerAgain(c, list, p) == Append(list, p)

\* Adding the program's own player changes his id and colour.
AddPlayer(c, list, p) ==
  IF p.id = c THEN [list EXCEPT ![1].id = c, ![1].color = p.color] ELSE Append(list, p)

RemovePlayer(list, id) == IF HasPlayer(list, id) THEN RemoveAt(list, Position(list, id)) ELSE list

RemoveAllPlayers(list) == <<Head(list)>>

SetPlayers(c, list) == players' = [players EXCEPT ![c] = list]

-----------------------------------------------------------------------------
(* What players do.                                                        *)

Crossing(c, missing) ==
  crossed' = (crossed \/ \E d \in members \ {c} : status[d] \in {"connecting", "welcomed"} \cup missing)

\* An earlier PlayerWantsToJoin of c, or the answer, is not back at the server.
AnswerPending(c) ==
  \/ \E i \in DOMAIN up[Host] : up[Host][i].to = c
  \/ \E i \in DOMAIN down[Host] : down[Host][i].body.type = "PlayerWantsToJoin" /\ down[Host][i].from = c

\* Nobody comes before the host's own greeting is back.
Connect(c) ==
  /\ status[c] = "out" /\ c \notin members /\ up[c] = <<>>
  /\ Host \in members /\ status[Host] = "in"
  /\ counts.joins < MaxJoins
  /\ OnPlayerConnected(c)
  /\ status' = [status EXCEPT ![c] = "connecting"]
  /\ counts' = [counts EXCEPT !.joins = @ + 1]
  /\ Crossing(c, {"out"})
  /\ hurried' = (hurried \/ AnswerPending(c))
  /\ UNCHANGED <<up, loopback, relayed, players, hands>>

\* The command disconnect.
Leave(c) ==
  /\ status[c] # "out"
  /\ counts.leaves < MaxLeaves
  /\ Hangup(c)
  /\ SetPlayers(c, RemoveAllPlayers(players[c]))
  /\ status' = [status EXCEPT ![c] = "out"]
  /\ counts' = [counts EXCEPT !.leaves = @ + 1]
  /\ Crossing(c, {})
  /\ UNCHANGED <<hands, hurried>>

\* A change in the player's own hand, if he has one.
Ask(c) ==
  /\ status[c] # "out" /\ Head(players[c]).guid # NoGuid
  /\ counts.asks < MaxAsks
  /\ up' = Upload(c, "ClientToHost", Host, [type |-> "Request", change |-> counts.asks + 1])
  /\ counts' = [counts EXCEPT !.asks = @ + 1]
  /\ hurried' = (hurried \/ (status[c] # "in" /\ Head(players[c]).id = c))
  /\ UNCHANGED <<members, down, loopback, relayed, status, players, hands, crossed>>

-----------------------------------------------------------------------------
(* What programs do with the packets they receive.                         *)

Handling(c, type) ==
  /\ down[c] # <<>>
  /\ Head(down[c]).body.type = type
  /\ down' = [down EXCEPT ![c] = Tail(@)]
  /\ UNCHANGED <<members, relayed, counts, hurried>>
Sender(c) == Head(down[c]).from
Body(c) == Head(down[c]).body

Greeting(c, guid) == Upload(c, "ClientToAll", c, [type |-> "PlayerHasJoined", guid |-> guid])

\* At the host, once: he greets himself.
HandleConnectionEstablished ==
  /\ status[Host] = "connecting"
  /\ status' = [status EXCEPT ![Host] = "welcomed"]
  /\ up' = Greeting(Host, Head(players[Host]).guid)
  /\ UNCHANGED <<members, down, loopback, relayed, players, hands, counts, crossed, hurried>>

ChangesOnTheirWay ==
  \/ \E i \in DOMAIN up[Host] : up[Host][i].body.type = "ChangeAccepted"
  \/ \E j \in DOMAIN down[Host] : down[Host][j].body.type = "ChangeAccepted"

HandlePlayerWantsToJoin ==
  /\ Handling(Host, "PlayerWantsToJoin")
  /\ SendToOne(Host, Sender(Host),
       [type |-> "ConnectionAccepted", players |-> players[Host], hands |-> hands[Host]])
  /\ crossed' = (crossed \/ ChangesOnTheirWay)
  /\ UNCHANGED <<status, players, hands>>

\* Fault: a program keeps its Guid though another instance of it plays.
KeepGuid(list, self) == self

\* "This is to prevent the sharing of a hand."
GiveUpSharedGuid(list, self) ==
  IF \E p \in ToSet(list) : p.guid = self.guid THEN [self EXCEPT !.guid = NoGuid] ELSE self

HandleConnectionAccepted(c) ==
  /\ Handling(c, "ConnectionAccepted")
  /\ LET self == GiveUpSharedGuid(Body(c).players, Head(players[c]))
         Add(list, p) == AddPlayer(c, list, p)
     IN  /\ SetPlayers(c, FoldLeft(Add, <<self>>, Body(c).players))
         /\ up' = Greeting(c, self.guid)
  /\ hands' = [hands EXCEPT ![c] = Body(c).hands]
  /\ status' = [status EXCEPT ![c] = "welcomed"]
  /\ UNCHANGED <<loopback, crossed>>

\* Fault: the next colour, by how many play.
NextColor(list) == playerColors[Len(list) + 1]

\* The first colour that nobody has.
FirstAvailableColor(list) ==
  playerColors[SelectInSeq(playerColors, LAMBDA x : \A p \in ToSet(list) : p.color # x)]

\* The loop that looks for one ends.  If it does not the host's program does
\* nothing any more; the model does not follow it further.
ColorIsLeft(list) == \E x \in ToSet(playerColors) : \A p \in ToSet(list) : p.color # x

\* The host gives newcomers a colour; they are white until everybody hears.
HandlePlayerHasJoined(c) ==
  /\ Handling(c, "PlayerHasJoined")
  /\ c = Host /\ Sender(c) # Host => ColorIsLeft(players[c])
  /\ LET id == Sender(c)
         color == IF c # Host THEN White
                  ELSE IF id = Host THEN Head(players[c]).color ELSE FirstAvailableColor(players[c])
     IN  /\ SetPlayers(c, AddPlayer(c, players[c], [id |-> id, guid |-> Body(c).guid, color |-> color]))
         /\ up' = IF c = Host /\ id # Host
                  THEN Upload(c, "ClientToAll", c, [type |-> "PlayerColorChanged", player |-> id, color |-> color])
                  ELSE up
         /\ status' = [status EXCEPT ![c] = IF id = c THEN "in" ELSE @]
  /\ UNCHANGED <<loopback, hands, crossed>>

HandlePlayerColorChanged(c) ==
  /\ Handling(c, "PlayerColorChanged")
  /\ LET id == Body(c).player IN
     SetPlayers(c, IF HasPlayer(players[c], id)
                   THEN [players[c] EXCEPT ![Position(players[c], id)].color = Body(c).color]
                   ELSE players[c])
  /\ UNCHANGED <<up, loopback, status, hands, crossed>>

\* Fault: who leaves stays in the list.
HandlePlayerHasLeftIgnored(c) ==
  /\ Handling(c, "PlayerHasLeft")
  /\ UNCHANGED <<up, loopback, status, players, hands, crossed>>

HandlePlayerHasLeft(c) ==
  /\ Handling(c, "PlayerHasLeft")
  /\ SetPlayers(c, RemovePlayer(players[c], Sender(c)))
  /\ UNCHANGED <<up, loopback, status, hands, crossed>>

HandleHostDisconnected(c) ==
  /\ Handling(c, "HostDisconnected")
  /\ SetPlayers(c, RemoveAllPlayers(players[c]))
  /\ status' = [status EXCEPT ![c] = "out"]
  /\ up' = [up EXCEPT ![c] = <<>>]
  /\ UNCHANGED <<loopback, hands, crossed>>

\* The host accepts all requests.
HandleRequest ==
  /\ Handling(Host, "Request")
  /\ up' = Upload(Host, "ClientToAll", Host,
             [type |-> "ChangeAccepted", player |-> Sender(Host), change |-> Body(Host).change])
  /\ UNCHANGED <<loopback, status, players, hands, crossed>>

\* Fault: the change is made in the hand of the program's own player.
ExecuteHere(list, id, change) == {<<Head(list).guid, change>>}

\* Who is not in the list, or has no hand, changes nothing.
Execute(list, id, change) ==
  IF HasPlayer(list, id) /\ GetPlayer(list, id).guid # NoGuid
  THEN {<<GetPlayer(list, id).guid, change>>} ELSE {}

HandleChangeAccepted(c) ==
  /\ Handling(c, "ChangeAccepted")
  /\ hands' = [hands EXCEPT ![c] = @ \cup Execute(players[c], Body(c).player, Body(c).change)]
  /\ UNCHANGED <<up, loopback, status, players, crossed>>

Relaying(c) == ServerStep(c) /\ UNCHANGED <<status, players, hands, counts, crossed, hurried>>

Next ==
  \/ HandleConnectionEstablished \/ HandlePlayerWantsToJoin \/ HandleRequest
  \/ \E c \in Client :
       \/ c # Host /\ Connect(c)
       \/ Leave(c) \/ Ask(c)
       \/ HandleConnectionAccepted(c) \/ HandlePlayerHasJoined(c) \/ HandlePlayerColorChanged(c)
       \/ HandlePlayerHasLeft(c) \/ HandleHostDisconnected(c) \/ HandleChangeAccepted(c)
       \/ Relaying(c)

Spec == Init /\ [][Next]_vars

-----------------------------------------------------------------------------
(* Properties.                                                             *)

\* Nothing is on its way.
Quiet == \A c \in Client : up[c] = <<>> /\ down[c] = <<>> /\ loopback[c] = <<>>
InTurn == ~crossed /\ ~hurried
Playing == {c \in members : status[c] = "in"}

\* No list has a player twice, though AddPlayer looks for nobody but the
\* program's own player.
PlayersDiffer ==
  InTurn => \A c \in Client \ {Host} : \A i, j \in DOMAIN players[c] :
    players[c][i].id = players[c][j].id => i = j

\* At the host it is so whoever comes and goes, and all players there have
\* different colours, though a colour is given again as soon as its player has
\* left, and the news of it comes later.
HostPlayersDiffer ==
  ~hurried => \A i, j \in DOMAIN players[Host] :
    \/ players[Host][i].id = players[Host][j].id
    \/ players[Host][i].color = players[Host][j].color
    => i = j

\* For whoever greets the host there is a colour that nobody has, where there are
\* as many colours as programs that may come: those who left wear none.
HostFindsColor ==
  /\ ~hurried
  /\ down[Host] # <<>> /\ Body(Host).type = "PlayerHasJoined" /\ Sender(Host) # Host
  => ColorIsLeft(players[Host])

\* When all messages have arrived, everybody lists those who play, in their
\* colours, unless somebody came or went while somebody else was coming.
ListsAgree ==
  Quiet /\ InTurn => \A c \in Playing :
    {<<p.id, p.guid, p.color>> : p \in ToSet(players[c])}
      = {<<p.id, p.guid, p.color>> : p \in {Head(players[d]) : d \in members}}

\* ... and all hands hold the same in all programs.
HandsAgree == Quiet /\ InTurn => \A c, d \in Playing : hands[c] = hands[d]

\* "This is to prevent the sharing of a hand": no two players of a session
\* have the same Guid.
OwnHands ==
  \A c, d \in Playing : c # d =>
    \/ Head(players[c]).guid # Head(players[d]).guid
    \/ Head(players[c]).guid = NoGuid
\* It does where they do not come at the same time.
OwnHandsInTurn == InTurn => OwnHands

=============================================================================
