-------------------------- MODULE TableOrderProofs --------------------------
(***************************************************************************)
(* Theorems about the order of packets in TableSync: what the steps do to  *)
(* the channels, and that numbers never go back.                           *)
(***************************************************************************)
EXTENDS TableSyncProofs

-----------------------------------------------------------------------------
(* Who sends what, and on which route.                                     *)

Here(c) == status[c] \in Connected

\* State changes are broadcast by the host, a snapshot goes to one newcomer.
Sendable(c, p) ==
  /\ p.route = "Disconnect" <=> p.body.type = "Disconnect"
  /\ p.body.type \in StateChanges => c = Host /\ p.route = "ClientToAll"
  /\ p.body.type = "PlayerHasJoined" => p.route = "ClientToAll"
  /\ p.body.type = "ConnectionAccepted" => c = Host /\ p.route = "HostToSingleClient"
  /\ p.body.type \notin {"PlayerWantsToJoin", "PlayerHasLeft", "HostDisconnected"}
Sent(c) == {p \in UpPackets : Sendable(c, p)}
Staying(c) == {p \in Sent(c) : p.route # "Disconnect"}

\* The host is in or out.  A player who is here has not said goodbye, and is a member
\* as long as the server runs.
Present ==
  /\ status[Host] \in {"in", "out"}
  /\ \A c \in Client : up[c] \in Seq(Sent(c))
  /\ \A c \in Client : Here(c) =>
       up[c] \in Seq(Staying(c)) /\ (Host \in members => c \in members)

-----------------------------------------------------------------------------
(* The shapes of steps, as far as the channels and the numbers go.         *)

Takes(c) ==
  /\ down[c] # <<>>
  /\ down' = [down EXCEPT ![c] = Tail(@)]
  /\ pos' = [pos EXCEPT ![c] = IF Head(down[c]).n > 0 THEN Head(down[c]).n ELSE @]
\* A clean snapshot shows the host's own table, with no change on its way.
Saves(body) ==
  /\ body.table = shown
  /\ body.clean => ~ChangesOnTheirWay /\ shown = history[Host].table /\ Host \notin suspect
Sends(c) ==
  \E p \in Staying(c) : /\ up' = [up EXCEPT ![c] = Append(@, p)]
                        /\ p.body.type \in HasNumber => p.body.seq = seq'[Host]
                        /\ p.body.type = "ConnectionAccepted" => Saves(p.body)
                        /\ p.body.type = "GameLoaded" => LoadGame

\* A player's number changes when he handles a packet that has one, and that is
\* how he comes to follow the game; the host's grows.
Counts(c) ==
  /\ \A d \in Client \ {c} : seq'[d] = seq[d]
  /\ (c = Host /\ ~renumbered') => seq[Host] <= seq'[Host]
  /\ c # Host => \/ /\ seq'[c] = seq[c]
                    /\ status'[c] = status[c] \/ status[c] \in {"welcomed", "in"}
                 \/ Takes(c) /\ Body(c).type \in HasNumber /\ seq'[c] = Body(c).seq

Moves(c) ==
  /\ Here(c) /\ status'[c] \in Connected /\ (c = Host => status'[c] = "in")
  /\ \A d \in Client \ {c} : status'[d] = status[d]
  /\ members' = members /\ relayed' = relayed /\ (renumbered => renumbered')
  /\ Takes(c) \/ (down' = down /\ pos' = pos)
  /\ up' = up \/ Sends(c)
  /\ Counts(c)

Quits(c) ==
  /\ status' = [status EXCEPT ![c] = "out"]
  /\ members' = members /\ relayed' = relayed /\ renumbered' = renumbered
  /\ down' = [down EXCEPT ![c] = <<>>]
  /\ \/ up' = [up EXCEPT ![c] = <<>>]
     \/ \E k \in 0 .. Len(up[c]) :
          up' = [up EXCEPT ![c] = Append(SubSeq(@, 1, k),
                    [route |-> "Disconnect", to |-> c, body |-> [type |-> "Disconnect"]])]
  /\ \A d \in Client \ {c} : pos'[d] = pos[d] /\ seq'[d] = seq[d] /\ history'[d] = history[d]
  /\ suspect' = suspect
  /\ c = Host => seq'[c] = seq[c]

\* The session is not concerned: at most, somebody who is out handles what he retrieved.
Idles ==
  /\ UNCHANGED <<members, up, down, relayed, status, pos, suspect>>
  /\ \A c \in Client : Here(c) => seq'[c] = seq[c] /\ history'[c] = history[c]
  /\ (renumbered => renumbered') /\ (~renumbered' => seq[Host] <= seq'[Host])

LEMMA Stutters ==
  ASSUME TypeOK, UNCHANGED vars
  PROVE  Idles
<1>1. seq[Host] \in Nat
  BY HostAssumption DEF TypeOK, NumbersOK
<1> QED
  BY <1>1 DEF vars, relayVars, observers, Idles

\* What player c does without leaving.
Plays(c) ==
  \/ \E kind \in Kinds : Ask(c, kind)
  \/ c = Host /\ (LoadGame \/ OpenBox \/ HandleAtHost)
  \/ HandleChangeAccepted(c) \/ HandleShuffleResult(c) \/ HandleChangeRejected(c)
  \/ HandleGameLoaded(c) \/ HandleGameBoxHasChanged(c) \/ HandleConnectionAccepted(c)
  \/ HandlePlayerHasJoined(c) \/ HandlePlayerHasLeft(c)

\* A packet that a player sends, by the type of its body.
LEMMA StayingMade ==
  ASSUME ChannelsOK, up' \in [Client -> Seq(UpPackets)],
         NEW c \in Client, NEW route, NEW to, NEW body, up' = Upload(c, route, to, body),
         \/ route = "ClientToHost" /\ body.type = "Request"
         \/ route = "ClientToAll" /\ body.type = "PlayerHasJoined"
         \/ route = "HostToSingleClient" /\ body.type = "ChangeRejected"
         \/ c = Host /\ route = "ClientToAll" /\ body.type \in StateChanges
         \/ c = Host /\ route = "HostToSingleClient" /\ body.type = "ConnectionAccepted"
  PROVE  [route |-> route, to |-> to, body |-> body] \in Staying(c)
<1>1. [route |-> route, to |-> to, body |-> body] \in UpPackets
  BY UploadedPacket
<1> QED
  BY <1>1 DEF Staying, Sent, Sendable, StateChanges

\* Such a step sends, when the number in the packet is the host's new one, and when only
\* the steps meant for it make a snapshot or load a game.
LEMMA SendsMade ==
  ASSUME ChannelsOK, up' \in [Client -> Seq(UpPackets)],
         NEW c \in Client, NEW route, NEW to, NEW body, up' = Upload(c, route, to, body),
         \/ route = "ClientToHost" /\ body.type = "Request"
         \/ route = "ClientToAll" /\ body.type = "PlayerHasJoined"
         \/ route = "HostToSingleClient" /\ body.type = "ChangeRejected"
         \/ c = Host /\ route = "ClientToAll" /\ body.type \in StateChanges
         \/ c = Host /\ route = "HostToSingleClient" /\ body.type = "ConnectionAccepted",
         body.type \in HasNumber => body.seq = seq'[Host],
         body.type = "ConnectionAccepted" => Saves(body),
         body.type = "GameLoaded" => LoadGame
  PROVE  Sends(c)
<1> DEFINE p == [route |-> route, to |-> to, body |-> body]
<1>1. p \in Staying(c)
  BY StayingMade
<1>2. up' = [up EXCEPT ![c] = Append(@, p)]
  BY DEF Upload
<1>3. p.body = body
  OBVIOUS
<1> HIDE DEF p
<1> QED
  BY <1>1, <1>2, <1>3 DEF Sends

\* Who handles a packet takes it from his channel, and is here.
LEMMA HandlingTakes ==
  ASSUME TypeOK, Apart, NEW c \in Client, NEW t, Handling(c, t)
  PROVE  /\ Takes(c) /\ Here(c) /\ Body(c).type = t
         /\ members' = members /\ relayed' = relayed
<1>1. status[c] # "out"
  BY DEF Handling, Apart, Gone
<1> QED
  BY <1>1 DEF Handling, Takes, Here, Body, TypeOK, NumbersOK

\* What players do.
LEMMA PlayingMoves ==
  ASSUME TypeOK, TypeOK', Present,
         \/ \E c \in Client, kind \in Kinds : Ask(c, kind)
         \/ LoadGame \/ OpenBox
  PROVE  \E c \in Client : Moves(c) /\ Plays(c)
<1> USE HostAssumption
<1>0. /\ ChannelsOK /\ up' \in [Client -> Seq(UpPackets)]
      /\ status \in [Client -> Connected \cup {"out"}] /\ seq \in [Client -> Nat]
  BY DEF TypeOK, ChannelsOK, NumbersOK
<1>1. ASSUME NEW c \in Client, NEW kind \in Kinds, Ask(c, kind)
      PROVE  Moves(c)
  <2> DEFINE req == [kind |-> kind, id |-> issued + 1, sender |-> c, seq |-> seq[c],
                     base |-> history[c].table, synced |-> status[c] # "joining",
                     faithful |-> c \notin suspect]
             body == [type |-> "Request", req |-> req]
  <2>1. up' = Upload(c, "ClientToHost", Host, body)
    BY <1>1 DEF Ask
  <2>2. body.type = "Request"
    OBVIOUS
  <2> HIDE DEF body
  <2>3. Sends(c)
    BY <1>0, <2>1, <2>2, SendsMade DEF HasNumber, StateChanges
  <2>4. /\ Here(c) /\ status' = status /\ UNCHANGED <<members, relayed, renumbered, down, pos, seq>>
    BY <1>1 DEF Ask, Here
  <2>5. c = Host => status'[c] = "in"
    BY <2>4 DEF Here, Present, Connected
  <2> QED
    BY <1>0, <2>3, <2>4, <2>5 DEF Moves, Counts, Here
<1>2. ASSUME LoadGame \/ OpenBox
      PROVE  Moves(Host)
  <2>1. PICK t \in {"GameLoaded", "GameBoxHasChanged"} :
          /\ up' = Upload(Host, "ClientToAll", Host, [type |-> t, seq |-> seq[Host] + 1, change |-> issued + 1])
          /\ t = "GameLoaded" => LoadGame
    BY <1>2 DEF LoadGame, OpenBox
  <2> DEFINE body == [type |-> t, seq |-> seq[Host] + 1, change |-> issued + 1]
  <2>2. body.type \in StateChanges /\ body.seq = seq[Host] + 1 /\ (body.type = "GameLoaded" => LoadGame)
    BY <2>1 DEF StateChanges
  <2> HIDE DEF body
  <2>3. /\ status[Host] = "in" /\ status' = status /\ seq' = [seq EXCEPT ![Host] = @ + 1]
        /\ UNCHANGED <<members, relayed, renumbered, down, pos>>
    BY <1>2 DEF LoadGame, OpenBox
  <2>4. seq'[Host] = seq[Host] + 1 /\ \A d \in Client \ {Host} : seq'[d] = seq[d]
    BY <1>0, <2>3
  <2>5. Sends(Host)
    <3>1. up' = Upload(Host, "ClientToAll", Host, body)
      BY <2>1 DEF body
    <3> QED
      BY <1>0, <2>2, <2>4, <3>1, SendsMade DEF StateChanges
  <2>6. Counts(Host)
    BY <1>0, <2>4 DEF Counts
  <2> QED
    BY <2>3, <2>5, <2>6 DEF Moves, Here, Connected
<1> QED
  BY <1>1, <1>2 DEF Plays

\* What the host does with what is only for him.
LEMMA AnsweringMoves ==
  ASSUME TypeOK, TypeOK', HostAside, Apart, Present, HandleRequest \/ HandlePlayerWantsToJoin
  PROVE  Moves(Host)
<1> USE HostAssumption
<1>0. /\ ChannelsOK /\ up' \in [Client -> Seq(UpPackets)]
      /\ status \in [Client -> Connected \cup {"out"}] /\ seq \in [Client -> Nat]
  BY DEF TypeOK, ChannelsOK, NumbersOK
<1>1. /\ Takes(Host) /\ Here(Host) /\ members' = members /\ relayed' = relayed
      /\ status' = status /\ renumbered' = renumbered
  <2>1. Handling(Host, "Request") \/ Handling(Host, "PlayerWantsToJoin")
    BY DEF HandleRequest, HandlePlayerWantsToJoin
  <2>2. status' = status /\ renumbered' = renumbered
    BY DEF HandleRequest, HandlePlayerWantsToJoin
  <2> QED
    BY <2>1, <2>2, HandlingTakes
<1>2. status'[Host] = "in"
  BY <1>1 DEF Here, Present, Connected
<1>3. CASE HandleRequest
  <2> DEFINE req == Body(Host).req
             rejected == [type |-> "ChangeRejected", req |-> req]
             accepted == [type |-> "ChangeAccepted", seq |-> seq[Host] + 1, req |-> req]
  <2>1. rejected.type = "ChangeRejected" /\ accepted.type = "ChangeAccepted" /\ accepted.seq = seq[Host] + 1
    OBVIOUS
  <2>2. \/ SendToOne(Host, req.sender, rejected) /\ seq' = seq
        \/ /\ up' = Upload(Host, "ClientToAll", Host, accepted)
           /\ seq' = [seq EXCEPT ![Host] = @ + 1]
    BY <1>3 DEF HandleRequest, Outdated, Reject, Accept
  <2> HIDE DEF rejected, accepted
  <2>3. CASE SendToOne(Host, req.sender, rejected) /\ seq' = seq
    <3>1. up' = up \/ up' = Upload(Host, "HostToSingleClient", req.sender, rejected)
      BY <2>3 DEF SendToOne
    <3>2. up' = up \/ Sends(Host)
      BY <1>0, <2>1, <3>1, SendsMade DEF HasNumber, StateChanges
    <3>3. Counts(Host)
      BY <1>0, <2>3 DEF Counts
    <3> QED
      BY <1>1, <1>2, <3>2, <3>3 DEF Moves, Connected
  <2>4. CASE /\ up' = Upload(Host, "ClientToAll", Host, accepted)
             /\ seq' = [seq EXCEPT ![Host] = @ + 1]
    <3>1. seq'[Host] = seq[Host] + 1 /\ \A d \in Client \ {Host} : seq'[d] = seq[d]
      BY <1>0, <2>4
    <3>2. Sends(Host)
      BY <1>0, <2>1, <2>4, <3>1, SendsMade DEF StateChanges
    <3>3. Counts(Host)
      BY <1>0, <3>1 DEF Counts
    <3> QED
      BY <1>1, <1>2, <3>2, <3>3 DEF Moves, Connected
  <2> QED
    BY <2>2, <2>3, <2>4
<1>4. CASE HandlePlayerWantsToJoin
  <2> DEFINE to == Head(down[Host]).from
             body == [type |-> "ConnectionAccepted", seq |-> seq[Host], table |-> shown,
                      clean |-> ~ChangesOnTheirWay /\ shown = history[Host].table /\ Host \notin suspect]
  <2>1. SendToOne(Host, to, body) /\ seq' = seq
    BY <1>4 DEF HandlePlayerWantsToJoin
  <2>2. body.type = "ConnectionAccepted" /\ body.seq = seq[Host] /\ Saves(body)
    BY DEF Saves
  <2> HIDE DEF body, to
  <2>3. up' = up \/ up' = Upload(Host, "HostToSingleClient", to, body)
    BY <2>1 DEF SendToOne
  <2>4. up' = up \/ Sends(Host)
    BY <1>0, <2>1, <2>2, <2>3, SendsMade
  <2>5. Counts(Host)
    BY <1>0, <2>1 DEF Counts
  <2> QED
    BY <1>1, <1>2, <2>4, <2>5 DEF Moves, Connected
<1> QED
  BY <1>3, <1>4

\* What a program does with its packets, if it stays.
LEMMA HandlingMoves ==
  ASSUME TypeOK, TypeOK', HostAside, Apart, Present, NEW c \in Client,
         \/ HandleChangeAccepted(c) \/ HandleShuffleResult(c) \/ HandleChangeRejected(c)
         \/ HandleGameLoaded(c) \/ HandleGameBoxHasChanged(c) \/ HandleConnectionAccepted(c)
         \/ HandlePlayerHasJoined(c) \/ HandlePlayerHasLeft(c)
  PROVE  Moves(c)
<1> USE HostAssumption
<1>0. /\ ChannelsOK /\ up' \in [Client -> Seq(UpPackets)] /\ down[Host] \in Seq(ToHosts)
      /\ status \in [Client -> Connected \cup {"out"}] /\ seq \in [Client -> Nat]
      /\ seq' \in [Client -> Nat]
  BY DEF TypeOK, ChannelsOK, NumbersOK, HostAside
<1>1. ASSUME NEW t, Handling(c, t)
      PROVE  /\ Takes(c) /\ Here(c) /\ Body(c).type = t
             /\ members' = members /\ relayed' = relayed
             /\ Body(c) \in Bodies
             /\ c = Host => status[c] = "in" /\ t # "ConnectionAccepted"
  <2>1. Takes(c) /\ Here(c) /\ Body(c).type = t /\ members' = members /\ relayed' = relayed
    BY <1>1, HandlingTakes
  <2>2. Body(c) \in Bodies
    BY <1>1, HandlingType DEF TypeOK
  <2>3. c = Host => status[c] = "in"
    BY <2>1 DEF Here, Present, Connected
  <2>4. c = Host => t # "ConnectionAccepted"
    <3>1. c = Host => Head(down[c]) \in ToHosts
      BY <1>0, <2>1, HeadTailProperties DEF Takes
    <3> QED
      BY <2>1, <3>1 DEF ToHosts, ToHost, Body
  <2> QED
    BY <2>1, <2>2, <2>3, <2>4
\* A handler that sends nothing.
<1>2. ASSUME NEW t, Handling(c, t), up' = up, status' = status, seq' = seq, renumbered' = renumbered
      PROVE  Moves(c)
  <2>1. Counts(c)
    BY <1>0, <1>2 DEF Counts
  <2> QED
    BY <1>0, <1>1, <1>2, <2>1 DEF Moves, Here
<1>3. ASSUME NEW t \in StateChanges, Handling(c, t), up' = up, status' = status, renumbered => renumbered',
             \A d \in Client \ {c} : seq'[d] = seq[d],
             c = Host => seq'[c] = seq[c] \/ renumbered',
             c # Host => seq'[c] = Body(c).seq
      PROVE  Moves(c)
  <2>1. Takes(c) /\ Body(c).type \in HasNumber
    BY <1>1, <1>3 DEF HasNumber
  <2>2. Counts(c)
    BY <1>0, <1>3, <2>1 DEF Counts
  <2> QED
    BY <1>0, <1>1, <1>3, <2>2 DEF Moves, Here
<1>4. CASE HandleChangeAccepted(c)
  <2>1. /\ Handling(c, "ChangeAccepted") /\ status' = status /\ renumbered' = renumbered
        /\ \/ /\ c = Host /\ seq' = [seq EXCEPT ![Host] = @ + 1]
              /\ up' = Upload(Host, "ClientToAll", Host,
                         [type |-> "ShuffleResult", seq |-> seq[Host] + 1, change |-> Body(c).req.id])
           \/ up' = up /\ TakeNumber(c)
    BY <1>4 DEF HandleChangeAccepted
  <2>2. CASE /\ c = Host /\ seq' = [seq EXCEPT ![Host] = @ + 1]
             /\ up' = Upload(Host, "ClientToAll", Host,
                        [type |-> "ShuffleResult", seq |-> seq[Host] + 1, change |-> Body(c).req.id])
    <3> DEFINE body == [type |-> "ShuffleResult", seq |-> seq[Host] + 1, change |-> Body(c).req.id]
    <3>1. body.type = "ShuffleResult" /\ body.seq = seq[Host] + 1
      OBVIOUS
    <3> HIDE DEF body
    <3>2. up' = Upload(Host, "ClientToAll", Host, body)
      BY <2>2 DEF body
    <3>3. seq'[Host] = seq[Host] + 1 /\ \A d \in Client \ {Host} : seq'[d] = seq[d]
      BY <1>0, <2>2
    <3>4. Sends(Host)
      BY <1>0, <3>1, <3>2, <3>3, SendsMade DEF StateChanges
    <3>5. Counts(Host)
      BY <1>0, <3>3 DEF Counts
    <3> QED
      BY <1>0, <1>1, <2>1, <2>2, <3>4, <3>5 DEF Moves, Here
  <2>3. CASE up' = up /\ TakeNumber(c)
    <3>1. /\ \A d \in Client \ {c} : seq'[d] = seq[d]
          /\ c = Host => seq'[c] = seq[c]
          /\ c # Host => seq'[c] = Body(c).seq
      BY <1>0, <2>3 DEF TakeNumber
    <3> QED
      BY <1>3, <2>1, <2>3, <3>1 DEF StateChanges
  <2> QED
    BY <2>1, <2>2, <2>3
<1>5. CASE HandleShuffleResult(c)
  <2>1. /\ \A d \in Client \ {c} : seq'[d] = seq[d]
        /\ seq'[c] = Body(c).seq
    BY <1>0, <1>5 DEF HandleShuffleResult
  <2>2. /\ Handling(c, "ShuffleResult") /\ up' = up /\ status' = status
        /\ renumbered => renumbered'
        /\ c = Host => seq'[c] = seq[c] \/ renumbered'
    BY <1>5, <2>1 DEF HandleShuffleResult
  <2> QED
    BY <1>3, <2>1, <2>2 DEF StateChanges
<1>6. CASE HandleChangeRejected(c)
  BY <1>2, <1>6 DEF HandleChangeRejected
<1>7. CASE HandleGameLoaded(c)
  <2>1. /\ Handling(c, "GameLoaded") /\ up' = up /\ status' = status /\ renumbered' = renumbered
        /\ \A d \in Client \ {c} : seq'[d] = seq[d]
        /\ c = Host => seq'[c] = seq[c]
        /\ c # Host => seq'[c] = Body(c).seq
    BY <1>0, <1>7 DEF HandleGameLoaded
  <2> QED
    BY <1>3, <2>1 DEF StateChanges
<1>8. CASE HandleGameBoxHasChanged(c)
  <2>1. /\ Handling(c, "GameBoxHasChanged") /\ up' = up /\ status' = status /\ renumbered' = renumbered
        /\ \A d \in Client \ {c} : seq'[d] = seq[d]
        /\ c = Host => seq'[c] = seq[c]
        /\ c # Host => seq'[c] = Body(c).seq
    BY <1>0, <1>8 DEF HandleGameBoxHasChanged
  <2> QED
    BY <1>3, <2>1 DEF StateChanges
<1>9. CASE HandleConnectionAccepted(c)
  <2>1. /\ Handling(c, "ConnectionAccepted") /\ renumbered' = renumbered
        /\ status' = [status EXCEPT ![c] = "welcomed"]
        /\ seq' = [seq EXCEPT ![c] = Body(c).seq]
        /\ up' = Upload(c, "ClientToAll", c, [type |-> "PlayerHasJoined"])
    BY <1>9 DEF HandleConnectionAccepted
  <2>2. c # Host /\ Takes(c) /\ Body(c).type \in HasNumber
    BY <1>1, <2>1 DEF HasNumber
  <2>3. Sends(c)
    <3> DEFINE body == [type |-> "PlayerHasJoined"]
    <3>1. body.type = "PlayerHasJoined"
      OBVIOUS
    <3>2. up' = Upload(c, "ClientToAll", c, body)
      BY <2>1
    <3> HIDE DEF body
    <3> QED
      BY <1>0, <3>1, <3>2, SendsMade DEF HasNumber, StateChanges
  <2>4. Counts(c)
    BY <1>0, <2>1, <2>2 DEF Counts
  <2>5. status'[c] \in Connected /\ \A d \in Client \ {c} : status'[d] = status[d]
    BY <1>0, <2>1 DEF Connected
  <2> QED
    BY <1>0, <1>1, <2>1, <2>2, <2>3, <2>4, <2>5 DEF Moves
<1>10. CASE HandlePlayerHasJoined(c)
  <2>1. /\ Handling(c, "PlayerHasJoined") /\ renumbered' = renumbered /\ up' = up /\ seq' = seq
        /\ status' = [status EXCEPT ![c] = IF Head(down[c]).from = c THEN "in" ELSE @]
    BY <1>10 DEF HandlePlayerHasJoined
  <2>2. status'[c] = status[c] \/ (status'[c] = "in" /\ Head(down[c]).from = c)
    BY <1>0, <2>1
  <2>3. \A d \in Client \ {c} : status'[d] = status[d]
    BY <1>0, <2>1
  <2>4. Head(down[c]).from = c => status[c] \in {"welcomed", "in"}
    <3>1. 1 \in DOMAIN down[c] /\ down[c][1] = Head(down[c])
      BY <1>0, <1>1, <2>1, TailIndex DEF ChannelsOK, Takes
    <3>2. Head(down[c]).from = c => status[c] # "joining"
      BY <1>1, <2>1, <3>1 DEF Apart, Unannounced, Body
    <3> QED
      BY <1>1, <2>1, <3>2 DEF Here, Connected
  <2>5. Counts(c)
    BY <1>0, <2>1, <2>2, <2>4 DEF Counts
  <2> QED
    BY <1>0, <1>1, <2>1, <2>2, <2>3, <2>5 DEF Moves, Here, Connected
<1>11. CASE HandlePlayerHasLeft(c)
  BY <1>2, <1>11 DEF HandlePlayerHasLeft
<1> QED
  BY <1>4, <1>5, <1>6, <1>7, <1>8, <1>9, <1>10, <1>11

\* Ways to leave.
LEMMA QuittingQuits ==
  ASSUME TypeOK, HostAside, Apart, NEW c \in Client,
         Leave(c) \/ HandleGameWithoutBox(c) \/ HandleHostDisconnected(c)
  PROVE  Quits(c) /\ Here(c)
<1> USE HostAssumption
<1>0. /\ down \in [Client -> Seq(DownPackets)]
      /\ status \in [Client -> Connected \cup {"out"}] /\ seq \in [Client -> Nat]
      /\ pos \in [Client -> Nat] /\ history \in [Client -> Histories]
  BY DEF TypeOK, ChannelsOK, NumbersOK, ObserversOK, TablesOK
<1>1. CASE Leave(c)
  BY <1>1 DEF Leave, Hangup, Quits, Here, TypeOK, TablesOK
<1>2. CASE HandleGameWithoutBox(c)
  <2>1. Hangup(c) /\ status' = [status EXCEPT ![c] = "out"] /\ UNCHANGED <<pos, renumbered>> /\ down[c] # <<>>
    BY <1>2 DEF HandleGameWithoutBox
  <2>2. /\ \A d \in Client \ {c} : seq'[d] = seq[d] /\ history'[d] = history[d]
        /\ c = Host => seq'[c] = seq[c]
        /\ suspect' = suspect
    BY <1>0, <1>2 DEF HandleGameWithoutBox, TakeNumber, NewGame, SetHistory
  <2>3. Here(c)
    BY <1>0, <2>1 DEF Apart, Gone, Here
  <2> QED
    BY <2>1, <2>2, <2>3 DEF Hangup, Quits
<1>3. CASE HandleHostDisconnected(c)
  <2> DEFINE s == down[c]
  <2>1. /\ s # <<>> /\ s \in Seq(DownPackets) /\ Head(s).body.type = "HostDisconnected"
        /\ down' = [down EXCEPT ![c] = Tail(s)]
        /\ UNCHANGED <<members, relayed, seq, renumbered>>
        /\ status' = [status EXCEPT ![c] = "out"]
        /\ up' = [up EXCEPT ![c] = <<>>]
        /\ \A d \in Client \ {c} : pos'[d] = pos[d] /\ history'[d] = history[d]
        /\ suspect' = suspect
    BY <1>0, <1>3 DEF HandleHostDisconnected, Handling, SetHistory
  <2>2. 1 = Len(s)
    <3>1. 1 \in DOMAIN s /\ s[1] = Head(s)
      BY <2>1, TailIndex
    <3> QED
      BY <2>1, <3>1 DEF Apart, HostEndsSession
  <2>3. Here(c)
    BY <1>0, <2>1 DEF Apart, Gone, Here
  <2> HIDE DEF s
  <2>4. Tail(s) = <<>>
    BY <2>1, <2>2, TailIndex
  <2> QED
    BY <2>1, <2>3, <2>4 DEF Quits
<1> QED
  BY <1>1, <1>2, <1>3

\* What the programs do has one of these shapes...
LEMMA ProgramShapes ==
  ASSUME TypeOK, TypeOK', HostAside, Apart, Present, ProgramStep
  PROVE  \/ Idles
         \/ \E c \in Client : (Moves(c) /\ Plays(c)) \/ Quits(c) \/ Connect(c)
<1> USE HostAssumption
<1>0. seq[Host] \in Nat
  BY DEF TypeOK, NumbersOK
<1>1. CASE Animate
  BY <1>0, <1>1 DEF Animate, relayVars, observers, Idles
<1>2. ASSUME NEW c \in Client, HandleOwnRejection(c) \/ HandleRest(c)
      PROVE  Idles
  <2>1. CASE HandleOwnRejection(c)
    BY <1>0, <2>1 DEF HandleOwnRejection, Idles
  <2>2. CASE HandleRest(c)
    <3>1. ~Here(c)
      BY <2>2, RestApart DEF Here, Connected
    <3> QED
      BY <2>2, <3>1, RestApart DEF relayVars, Idles
  <2> QED
    BY <1>2, <2>1, <2>2
<1>3. ASSUME NEW c \in Client, Handle(c)
      PROVE  Idles \/ (Moves(c) /\ Plays(c)) \/ Quits(c)
  BY <1>2, <1>3, HandlingMoves, QuittingQuits DEF Handle, Plays
<1>4. ASSUME NEW c \in Client, Leave(c)
      PROVE  Quits(c)
  BY <1>4, QuittingQuits
<1>5. CASE HandleAtHost
  BY <1>5, AnsweringMoves DEF HandleAtHost, Plays
<1>6. CASE (\E c \in Client, kind \in Kinds : Ask(c, kind)) \/ LoadGame \/ OpenBox
  BY <1>6, PlayingMoves
<1> QED
  BY <1>1, <1>3, <1>4, <1>5, <1>6 DEF ProgramStep

\* ... and the only other steps are those of the server.
LEMMA Shapes ==
  ASSUME TypeOK, TypeOK', HostAside, Apart, Present, [Next]_vars
  PROVE  \/ Idles
         \/ \E c \in Client : Moves(c) \/ Quits(c) \/ Connect(c) \/ Relaying(c)
<1>1. CASE UNCHANGED vars
  BY <1>1, Stutters
<1>2. CASE ProgramStep
  BY <1>2, ProgramShapes
<1> QED
  BY <1>1, <1>2 DEF Next

-----------------------------------------------------------------------------
(* What the server does to a channel.                                      *)

\* A packet for one, or for some, that is not numbered.
PassesOn(c, d) ==
  /\ relayed' = relayed
  /\ Here(c) => Head(up[c]).body.type \notin StateChanges
  /\ \/ down'[d] = down[d]
     \/ \E from \in Client, body \in Bodies :
          /\ down'[d] = Append(down[d], [from |-> from, n |-> 0, body |-> body])
          /\ body = Head(up[c]).body \/ body.type = "HostDisconnected"
          /\ body.type \notin StateChanges \cup {"PlayerHasJoined"}

\* A broadcast reaches all who are here.
Broadcasts(c, d) ==
  /\ relayed' = relayed + 1
  /\ Head(up[c]).body.type # "ConnectionAccepted"
  /\ Here(d) => \E from \in Client, body \in Bodies :
       /\ down'[d] = Append(down[d], [from |-> from, n |-> relayed + 1, body |-> body])
       /\ \/ body = Head(up[c]).body
          \/ body.type = "PlayerHasLeft" /\ Head(up[c]).body.type = "Disconnect"
  /\ ~Here(d) => down'[d] = down[d]

\* The server's packets reach whoever is here...
LEMMA HereHears ==
  ASSUME Present, NEW d \in Client, Here(d)
  PROVE  ~HungUp(d)
<1>1. up[d] \in Seq(Staying(d))
  BY DEF Present
<1>2. up[d] # <<>> => Len(up[d]) \in DOMAIN up[d]
  BY <1>1
<1>3. up[d] # <<>> => up[d][Len(up[d])] \in Staying(d)
  BY <1>1, <1>2, ElementOfSeq, LenProperties
<1> QED
  BY <1>3 DEF HungUp, Staying

\* ... and nobody who is out.
LEMMA OutHearsNothing ==
  ASSUME TypeOK, Apart, NEW d \in Client, ~Here(d)
  PROVE  HungUp(d) \/ d \notin members
BY DEF TypeOK, NumbersOK, Apart, Gone, Here

\* The next packet of a client, which is taken from its channel.
LEMMA RelayedHead ==
  ASSUME TypeOK, Present, NEW c \in Client, Relaying(c)
  PROVE  /\ Host \in members /\ up[c] # <<>> /\ up' = [up EXCEPT ![c] = Tail(@)]
         /\ Head(up[c]) \in Sent(c) /\ Head(up[c]).body \in Bodies
         /\ Here(c) => Head(up[c]) \in Staying(c)
<1>1. Host \in members /\ up[c] # <<>> /\ up' = [up EXCEPT ![c] = Tail(@)]
  BY RelayedFrom
<1>2. up[c] \in Seq(Sent(c)) /\ (Here(c) => up[c] \in Seq(Staying(c)))
  BY DEF Present
<1>3. Head(up[c]) \in Sent(c) /\ (Here(c) => Head(up[c]) \in Staying(c))
  BY <1>1, <1>2, HeadTailProperties
<1>4. Head(up[c]).body \in Bodies
  BY <1>3 DEF Sent, UpPackets
<1> QED
  BY <1>1, <1>3, <1>4

\* A step of the server either passes a packet on to one player or broadcasts one.
LEMMA Relayed ==
  ASSUME TypeOK, Apart, Present, NEW c \in Client, Relaying(c), NEW d \in Client
  PROVE  PassesOn(c, d) \/ Broadcasts(c, d)
<1> USE HostAssumption
<1> DEFINE m == Head(up[c]).body
           packet(from, n, body) == [from |-> from, n |-> n, body |-> body]
<1>0. down \in [Client -> Seq(DownPackets)] /\ relayed \in Nat
  BY DEF TypeOK, ChannelsOK
<1>1. /\ Head(up[c]) \in Sent(c) /\ m \in Bodies /\ Host \in members
      /\ Here(c) => Head(up[c]).route # "Disconnect"
  BY RelayedHead DEF Staying
<1>2. ASSUME NEW S, NEW from \in Client, NEW n \in Nat, NEW body \in Bodies, down' = Deliver(S, from, n, body)
      PROVE  down'[d] = IF d \in S /\ ~HungUp(d) THEN Append(down[d], packet(from, n, body)) ELSE down[d]
  BY <1>2 DEF Deliver
<1> HIDE DEF packet
<1>3. ASSUME NEW S, NEW from \in Client, NEW body \in Bodies, down' = Deliver(S, from, 0, body),
             relayed' = relayed, body = m \/ body.type = "HostDisconnected",
             body.type \notin StateChanges \cup {"PlayerHasJoined"},
             Here(c) => m.type \notin StateChanges
      PROVE  PassesOn(c, d)
  <2>1. down'[d] = down[d] \/ down'[d] = Append(down[d], packet(from, 0, body))
    BY <1>2, <1>3
  <2> QED
    BY <1>3, <2>1 DEF PassesOn, packet, m
<1>4. ASSUME NEW S, S \subseteq members, NEW body \in Bodies, down' = Deliver(S, c, relayed + 1, body),
             relayed' = relayed + 1, m.type # "ConnectionAccepted",
             Here(d) => d \in S,
             body = m \/ (body.type = "PlayerHasLeft" /\ m.type = "Disconnect")
      PROVE  Broadcasts(c, d)
  <2>1. Here(d) => down'[d] = Append(down[d], packet(c, relayed + 1, body))
    <3>1. relayed + 1 \in Nat
      BY <1>0
    <3> QED
      BY <1>2, <1>4, <3>1, HereHears
  <2>2. ~Here(d) => down'[d] = down[d]
    <3>1. relayed + 1 \in Nat
      BY <1>0
    <3>2. ~Here(d) => ~(d \in S /\ ~HungUp(d))
      BY <1>4, OutHearsNothing
    <3> QED
      BY <1>2, <1>4, <3>1, <3>2
  <2>3. Here(d) => \E from \in Client, b \in Bodies :
          /\ down'[d] = Append(down[d], [from |-> from, n |-> relayed + 1, body |-> b])
          /\ b = Head(up[c]).body \/ (b.type = "PlayerHasLeft" /\ Head(up[c]).body.type = "Disconnect")
    BY <1>4, <2>1 DEF packet
  <2> QED
    BY <1>4, <2>2, <2>3 DEF Broadcasts
<1>5. /\ Head(up[c]).route # "ClientToAll" => m.type \notin StateChanges \cup {"PlayerHasJoined"}
      /\ Head(up[c]).route # "HostToSingleClient" => m.type # "ConnectionAccepted"
      /\ Head(up[c]).route = "Disconnect" => m.type = "Disconnect"
  BY <1>1 DEF Sent, Sendable
<1> HIDE DEF m
<1>6. ASSUME OnReliableMessageFromClientToHost(c)
      PROVE  PassesOn(c, d)
  <2>1. /\ down' = Deliver({Host}, c, 0, m) \/ down' = down
        /\ relayed' = relayed /\ Head(up[c]).route = "ClientToHost"
    BY <1>6 DEF OnReliableMessageFromClientToHost, Receive, m
  <2>2. CASE down' = down
    BY <1>5, <2>1, <2>2 DEF PassesOn, m
  <2> QED
    BY <1>1, <1>3, <1>5, <2>1, <2>2
<1>7. ASSUME OnReliableMessageFromClientToAll(c)
      PROVE  PassesOn(c, d) \/ Broadcasts(c, d)
  <2>1. /\ Head(up[c]).route = "ClientToAll"
        /\ \/ c \in members /\ relayed' = relayed + 1 /\ down' = Deliver(members, c, relayed + 1, m)
           \/ c \notin members /\ relayed' = relayed /\ down' = down
    BY <1>7 DEF OnReliableMessageFromClientToAll, Receive, m
  <2>2. CASE c \notin members /\ relayed' = relayed /\ down' = down
    <3>1. ~Here(c)
      BY <1>1, <2>2 DEF Present
    <3> QED
      BY <2>2, <3>1 DEF PassesOn
  <2>3. Here(d) => d \in members
    BY <1>1 DEF Present
  <2> QED
    BY <1>1, <1>4, <1>5, <2>1, <2>2, <2>3
<1>8. ASSUME OnReliableMessageFromHostToSingleClient(c)
      PROVE  PassesOn(c, d)
  <2>1. /\ down' = Deliver(members \cap {Head(up[c]).to}, c, 0, m)
        /\ relayed' = relayed /\ Head(up[c]).route = "HostToSingleClient"
    BY <1>8 DEF OnReliableMessageFromHostToSingleClient, Receive, m
  <2> QED
    BY <1>1, <1>3, <1>5, <2>1
<1>9. ASSUME OnPlayerDisconnected(c)
      PROVE  PassesOn(c, d) \/ Broadcasts(c, d)
  <2>1. /\ Head(up[c]).route = "Disconnect"
        /\ \/ /\ down' = Deliver(members \ {Host}, Host, 0, [type |-> "HostDisconnected"])
              /\ relayed' = relayed
           \/ /\ down' = Deliver(members \ {c}, c, relayed + 1, [type |-> "PlayerHasLeft"])
              /\ relayed' = relayed + 1
    BY <1>9 DEF OnPlayerDisconnected, Receive
  <2>2. [type |-> "HostDisconnected"] \in Bodies /\ [type |-> "PlayerHasLeft"] \in Bodies
    BY BodyMade
  <2>3. Here(d) => d \in members \ {c}
    BY <1>1, <2>1 DEF Present
  <2>4. CASE /\ down' = Deliver(members \ {Host}, Host, 0, [type |-> "HostDisconnected"])
             /\ relayed' = relayed
    <3> DEFINE body == [type |-> "HostDisconnected"]
    <3>1. body.type = "HostDisconnected" /\ body \in Bodies
          /\ down' = Deliver(members \ {Host}, Host, 0, body)
      BY <2>2, <2>4
    <3> HIDE DEF body
    <3>2. body.type \notin StateChanges \cup {"PlayerHasJoined"}
      BY <3>1 DEF StateChanges
    <3> QED
      BY <1>1, <1>3, <2>1, <2>4, <3>1, <3>2
  <2>5. CASE /\ down' = Deliver(members \ {c}, c, relayed + 1, [type |-> "PlayerHasLeft"])
             /\ relayed' = relayed + 1
    <3> DEFINE body == [type |-> "PlayerHasLeft"]
    <3>1. body.type = "PlayerHasLeft" /\ body \in Bodies
          /\ down' = Deliver(members \ {c}, c, relayed + 1, body)
      BY <2>2, <2>5
    <3> HIDE DEF body
    <3>2. members \ {c} \subseteq members
      OBVIOUS
    <3> QED
      BY <1>4, <1>5, <2>1, <2>3, <2>5, <3>1, <3>2
  <2> QED
    BY <2>1, <2>4, <2>5
<1> QED
  BY <1>6, <1>7, <1>8, <1>9 DEF Relaying, ServerStep

-----------------------------------------------------------------------------
(* Present is inductive.                                                   *)

\* Who disconnects changes no channel to the server but his own.
LEMMA QuitsLeaves ==
  ASSUME TypeOK, Present, NEW c \in Client, Quits(c)
  PROVE  \A d \in Client : up'[d] \in Seq(Sent(d)) /\ (d # c => up'[d] = up[d])
<1> DEFINE goodbye == [route |-> "Disconnect", to |-> c, body |-> [type |-> "Disconnect"]]
<1>1. goodbye \in Sent(c)
  BY BodyMade DEF Sent, Sendable, UpPackets, Routes, StateChanges
<1>2. up[c] \in Seq(Sent(c))
  BY DEF Present
<1> HIDE DEF goodbye
<1>3. \A k \in 0 .. Len(up[c]) : Append(SubSeq(up[c], 1, k), goodbye) \in Seq(Sent(c))
  <2>1. \A k \in 0 .. Len(up[c]) : SubSeq(up[c], 1, k) \in Seq(Sent(c))
    BY <1>2, SubSeqProperties
  <2> QED
    BY <1>1, <2>1, AppendProperties
<1>4. up \in [Client -> Seq(UpPackets)]
  BY DEF TypeOK, ChannelsOK
<1>5. \/ up' = [up EXCEPT ![c] = <<>>]
      \/ \E k \in 0 .. Len(up[c]) : up' = [up EXCEPT ![c] = Append(SubSeq(@, 1, k), goodbye)]
  BY DEF Quits, goodbye
<1>6. up'[c] \in Seq(Sent(c))
  <2>1. <<>> \in Seq(Sent(c))
    OBVIOUS
  <2>2. CASE up' = [up EXCEPT ![c] = <<>>]
    BY <1>4, <2>1, <2>2
  <2>3. ASSUME NEW k \in 0 .. Len(up[c]), up' = [up EXCEPT ![c] = Append(SubSeq(@, 1, k), goodbye)]
        PROVE  up'[c] \in Seq(Sent(c))
    BY <1>3, <1>4, <2>3
  <2> QED
    BY <1>5, <2>2, <2>3
<1>7. \A d \in Client \ {c} : up'[d] = up[d]
  BY <1>4, <1>5
<1> QED
  BY <1>6, <1>7 DEF Present

\* The routes and the members stay as Present says, step by step, from the start and always.
LEMMA PresentStep ==
  TypeOK /\ TypeOK' /\ HostAside /\ Apart /\ Present /\ [Next]_vars => Present'
<1> SUFFICES ASSUME TypeOK, TypeOK', HostAside, Apart, Present, [Next]_vars
             PROVE  Present'
  OBVIOUS
<1> USE HostAssumption
<1>0. /\ up \in [Client -> Seq(UpPackets)] /\ status \in [Client -> Connected \cup {"out"}]
      /\ members \subseteq Client
  BY DEF TypeOK, ChannelsOK, NumbersOK
<1>1. CASE Idles
  BY <1>1 DEF Idles, Present, Here
<1>2. ASSUME NEW c \in Client, Moves(c)
      PROVE  Present'
  <2>1. /\ Here(c) /\ (c = Host => status'[c] = "in") /\ \A d \in Client \ {c} : status'[d] = status[d]
        /\ members' = members
        /\ up' = up \/ \E p \in Staying(c) : up' = [up EXCEPT ![c] = Append(@, p)]
    BY <1>2 DEF Moves, Sends
  <2>2. up'[c] \in Seq(Staying(c)) /\ up'[c] \in Seq(Sent(c))
    <3>1. \A p \in Staying(c) : Append(up[c], p) \in Seq(Staying(c)) /\ Append(up[c], p) \in Seq(Sent(c))
      <4>1. \A p \in Staying(c) : p \in Sent(c)
        BY DEF Staying
      <4>2. up[c] \in Seq(Staying(c)) /\ up[c] \in Seq(Sent(c))
        BY <2>1 DEF Present
      <4> QED
        BY <4>1, <4>2, AppendProperties
    <3>2. up[c] \in Seq(Staying(c)) /\ up[c] \in Seq(Sent(c))
      BY <2>1 DEF Present
    <3> QED
      BY <1>0, <2>1, <3>1, <3>2
  <2>3. \A d \in Client \ {c} : up'[d] = up[d]
    BY <1>0, <2>1
  <2>4. status'[Host] \in {"in", "out"}
    BY <2>1 DEF Present
  <2>5. ASSUME NEW d \in Client
        PROVE  /\ up'[d] \in Seq(Sent(d))
               /\ Here(d)' => up'[d] \in Seq(Staying(d)) /\ (Host \in members' => d \in members')
    <3>1. CASE d = c
      BY <2>1, <2>2, <3>1 DEF Present
    <3>2. CASE d # c
      BY <2>1, <2>3, <3>2 DEF Present, Here
    <3> QED
      BY <3>1, <3>2
  <2> QED
    BY <2>4, <2>5 DEF Present
<1>3. ASSUME NEW c \in Client, Quits(c)
      PROVE  Present'
  <2>1. status' = [status EXCEPT ![c] = "out"] /\ members' = members
    BY <1>3 DEF Quits
  <2>2. \A d \in Client : up'[d] \in Seq(Sent(d)) /\ (d # c => up'[d] = up[d])
    BY <1>3, QuitsLeaves
  <2>3. \A d \in Client : Here(d)' => d # c /\ Here(d)
    BY <1>0, <2>1 DEF Here, Connected
  <2>4. status'[Host] \in {"in", "out"}
    BY <1>0, <2>1 DEF Present
  <2> QED
    BY <2>1, <2>2, <2>3, <2>4 DEF Present
<1>4. ASSUME NEW c \in Client, Connect(c)
      PROVE  Present'
  <2>1. /\ up' = up /\ up[c] = <<>> /\ members' = members \cup {c} /\ c # Host
        /\ status' = [status EXCEPT ![c] = "joining"] /\ Host \in members
    BY <1>4 DEF Connect, OnPlayerConnected
  <2>2. <<>> \in Seq(Staying(c))
    OBVIOUS
  <2>3. \A d \in Client : Here(d)' => d = c \/ Here(d)
    BY <1>0, <2>1 DEF Here, Connected
  <2>4. status'[Host] \in {"in", "out"}
    BY <1>0, <2>1 DEF Present
  <2> QED
    BY <2>1, <2>2, <2>3, <2>4 DEF Present
<1>5. ASSUME NEW c \in Client, Relaying(c)
      PROVE  Present'
  <2>1. /\ Host \in members /\ up[c] # <<>> /\ up' = [up EXCEPT ![c] = Tail(@)]
        /\ Here(c) => Head(up[c]) \in Staying(c)
    BY <1>5, RelayedHead
  <2>2. status' = status
    BY <1>5 DEF Relaying
  <2>3. members' = members \/ members' = {} \/ (members' = members \ {c} /\ ~Here(c))
    <3>1. CASE OnPlayerDisconnected(c)
      <4>1. Head(up[c]).route = "Disconnect"
        BY <3>1 DEF OnPlayerDisconnected, Receive
      <4>2. ~Here(c)
        BY <2>1, <4>1 DEF Staying
      <4> QED
        BY <3>1, <4>2 DEF OnPlayerDisconnected
    <3>2. CASE ~OnPlayerDisconnected(c)
      BY <1>5, <3>2 DEF Relaying, ServerStep, OnReliableMessageFromClientToHost,
         OnReliableMessageFromClientToAll, OnReliableMessageFromHostToSingleClient
    <3> QED
      BY <3>1, <3>2
  <2>4. /\ up'[c] \in Seq(Sent(c)) /\ (Here(c) => up'[c] \in Seq(Staying(c)))
        /\ \A d \in Client \ {c} : up'[d] = up[d]
    <3>1. Tail(up[c]) \in Seq(Sent(c)) /\ (Here(c) => Tail(up[c]) \in Seq(Staying(c)))
      BY <2>1, HeadTailProperties DEF Present
    <3> QED
      BY <1>0, <2>1, <3>1
  <2>5. \A d \in Client : Here(d)' <=> Here(d)
    BY <2>2 DEF Here
  <2>6. \A d \in Client : Here(d) => (Host \in members' => d \in members')
    BY <2>1, <2>3 DEF Present
  <2> QED
    BY <2>2, <2>4, <2>5, <2>6 DEF Present
<1> QED
  BY <1>1, <1>2, <1>3, <1>4, <1>5, Shapes

\* See PresentStep.
LEMMA PresentInit == Init => Present
<1> SUFFICES ASSUME Init PROVE Present
  OBVIOUS
<1>1. \A c \in Client : up[c] = <<>>
  BY DEF Init, RelayInit
<1>2. status[Host] = "in" /\ members = {Host} /\ \A c \in Client : Here(c) => c = Host
  BY HostAssumption DEF Init, RelayInit, Here, Connected
<1>3. \A c \in Client : <<>> \in Seq(Sent(c)) /\ <<>> \in Seq(Staying(c))
  OBVIOUS
<1> QED
  BY <1>1, <1>2, <1>3 DEF Present

\* See PresentStep; with the invariants that the steps of the server rest on.
LEMMA PresentAlways == Spec => [](TypeOK /\ HostAside /\ Apart /\ Present)
BY PresentInit, PresentStep, HostAsideAlways, ApartAlways, PTL DEF Spec

-----------------------------------------------------------------------------
(* Numbers never go back.                                                  *)

\* The numbers in a channel grow; they are at least n; those of s come before those of t.
Rising(s) ==
  \A i, j \in DOMAIN s :
    (i < j /\ s[i].body.type \in HasNumber /\ s[j].body.type \in HasNumber) => s[i].body.seq <= s[j].body.seq
AtLeast(s, n) == \A i \in DOMAIN s : s[i].body.type \in HasNumber => n <= s[i].body.seq
AtMost(s, n) == \A i \in DOMAIN s : s[i].body.type \in HasNumber => s[i].body.seq <= n
Precede(s, t) == \A i \in DOMAIN s : s[i].body.type \in HasNumber => AtLeast(t, s[i].body.seq)

\* The inductive invariant.  What a player will see is first what is in his channel, then
\* what is in the host's; until he has a snapshot his own number does not count.
Ordered ==
  /\ Rising(up[Host])
  /\ \A c \in Client : Rising(down[c]) /\ Precede(down[c], up[Host])
  /\ \A c \in Client \ {Host} : status[c] \in {"welcomed", "in"} =>
       AtLeast(down[c], seq[c]) /\ AtLeast(up[Host], seq[c])
OrderInv == ~renumbered => Ordered

\* Numbers that grow still do when the first packet is taken.
LEMMA NumbersTail ==
  ASSUME NEW S, NEW s \in Seq(S), s # <<>>
  PROVE  /\ \A i \in DOMAIN Tail(s) : \E j \in DOMAIN s : Tail(s)[i] = s[j]
         /\ Rising(s) => /\ Rising(Tail(s))
                         /\ Head(s).body.type \in HasNumber => AtLeast(Tail(s), Head(s).body.seq)
         /\ \A n : AtLeast(s, n) => /\ AtLeast(Tail(s), n)
                                    /\ Head(s).body.type \in HasNumber => n <= Head(s).body.seq
<1> DEFINE t == Tail(s)
           k == Len(s)
<1>1. /\ k \in Nat /\ k > 0 /\ DOMAIN s = 1 .. k /\ Head(s) = s[1] /\ DOMAIN t = 1 .. k - 1
      /\ \A i \in DOMAIN t : i + 1 \in DOMAIN s /\ t[i] = s[i + 1]
  BY TailIndex
<1> HIDE DEF t, k
<1>2. \A i \in DOMAIN t : \E j \in DOMAIN s : t[i] = s[j]
  BY <1>1
<1>3. ASSUME Rising(s)
      PROVE  Rising(t) /\ (Head(s).body.type \in HasNumber => AtLeast(t, Head(s).body.seq))
  <2>1. ASSUME NEW i \in DOMAIN t, NEW j \in DOMAIN t, i < j
        PROVE  i + 1 \in DOMAIN s /\ j + 1 \in DOMAIN s /\ i + 1 < j + 1 /\ t[i] = s[i + 1] /\ t[j] = s[j + 1]
    BY <1>1, <2>1
  <2>2. Rising(t)
    BY <1>3, <2>1 DEF Rising
  <2>3. \A i \in DOMAIN t : 1 \in DOMAIN s /\ i + 1 \in DOMAIN s /\ 1 < i + 1 /\ t[i] = s[i + 1]
    BY <1>1
  <2>4. Head(s).body.type \in HasNumber => AtLeast(t, Head(s).body.seq)
    BY <1>1, <1>3, <2>3 DEF Rising, AtLeast
  <2> QED
    BY <2>2, <2>4
<1>4. ASSUME NEW n, AtLeast(s, n)
      PROVE  AtLeast(t, n) /\ (Head(s).body.type \in HasNumber => n <= Head(s).body.seq)
  <2>1. 1 \in DOMAIN s
    BY <1>1
  <2> QED
    BY <1>1, <1>4, <2>1 DEF AtLeast
<1> QED
  BY <1>2, <1>3, <1>4 DEF t

\* Numbers that grow still do when a packet with a greater number, or with none, is added.
LEMMA NumbersAppend ==
  ASSUME NEW S, NEW s \in Seq(S), NEW e \in S
  PROVE  /\ (Rising(s) /\ (e.body.type \in HasNumber => AtMost(s, e.body.seq))) => Rising(Append(s, e))
         /\ \A n : (AtLeast(s, n) /\ (e.body.type \in HasNumber => n <= e.body.seq)) => AtLeast(Append(s, e), n)
<1> DEFINE t == Append(s, e)
           k == Len(s)
<1>1. /\ k \in Nat /\ DOMAIN s = 1 .. k /\ DOMAIN t = 1 .. k + 1 /\ t[k + 1] = e
      /\ \A i \in 1 .. k : t[i] = s[i]
  BY AppendProperties, LenProperties
<1> HIDE DEF t, k
<1>2. \A i \in DOMAIN t : (i \in DOMAIN s /\ t[i] = s[i]) \/ (i = k + 1 /\ t[i] = e)
  BY <1>1
<1>3. ASSUME Rising(s), e.body.type \in HasNumber => AtMost(s, e.body.seq)
      PROVE  Rising(t)
  <2>1. ASSUME NEW i \in DOMAIN t, NEW j \in DOMAIN t, i < j
        PROVE  i \in DOMAIN s /\ t[i] = s[i] /\ ((j \in DOMAIN s /\ t[j] = s[j]) \/ t[j] = e)
    BY <1>1, <2>1
  <2> QED
    BY <1>3, <2>1 DEF Rising, AtMost
<1>4. ASSUME NEW n, AtLeast(s, n), e.body.type \in HasNumber => n <= e.body.seq
      PROVE  AtLeast(t, n)
  BY <1>2, <1>4 DEF AtLeast
<1> QED
  BY <1>3, <1>4 DEF t

\* No number in a channel is ahead of the host's.
LEMMA LeadsChannels ==
  ASSUME TypeOK, HostLeads, ~renumbered
  PROVE  /\ seq[Host] \in Nat
         /\ \A c \in Client : AtMost(up[c], seq[Host]) /\ AtMost(down[c], seq[Host])
         /\ \A c \in Client : \A i \in DOMAIN down[c] :
              down[c][i].body.type \in HasNumber => down[c][i].body.seq \in Nat
         /\ \A c \in Client : \A i \in DOMAIN up[c] :
              up[c][i].body.type \in HasNumber => up[c][i].body.seq \in Nat
<1>1. \A m \in InTransit : m.type \in HasNumber => m.seq <= seq[Host]
  BY DEF HostLeads, Behind
<1>2. \A c \in Client : /\ \A i \in DOMAIN up[c] : up[c][i].body \in InTransit
                        /\ \A i \in DOMAIN down[c] : down[c][i].body \in InTransit
  BY DEF InTransit, Carried
<1>3. /\ \A c \in Client : \A i \in DOMAIN down[c] : down[c][i].body \in Bodies
      /\ \A c \in Client : \A i \in DOMAIN up[c] : up[c][i].body \in Bodies
  <2>1. \A c \in Client : down[c] \in Seq(DownPackets) /\ up[c] \in Seq(UpPackets)
    BY DEF TypeOK, ChannelsOK
  <2>2. /\ \A c \in Client : \A i \in DOMAIN down[c] : down[c][i] \in DownPackets
        /\ \A c \in Client : \A i \in DOMAIN up[c] : up[c][i] \in UpPackets
    BY <2>1, SeqFilter
  <2> QED
    BY <2>2 DEF DownPackets, UpPackets
<1>4. \A b \in Bodies : b.type \in HasNumber => b.seq \in Nat
  BY BodyFields DEF HasNumber, StateChanges
<1>5. seq[Host] \in Nat
  BY HostAssumption DEF TypeOK, NumbersOK
<1> QED
  BY <1>1, <1>2, <1>3, <1>4, <1>5 DEF AtMost

\* A program takes a packet, or sends one.
LEMMA MovesOrdered ==
  ASSUME TypeOK, TypeOK', Present, HostLeads, ~renumbered, ~renumbered', Ordered, NEW c \in Client, Moves(c)
  PROVE  Ordered'
<1> USE HostAssumption
<1>0. /\ down \in [Client -> Seq(DownPackets)] /\ up \in [Client -> Seq(UpPackets)]
      /\ status \in [Client -> Connected \cup {"out"}] /\ seq \in [Client -> Nat] /\ seq' \in [Client -> Nat]
  BY DEF TypeOK, ChannelsOK, NumbersOK
<1>1. ASSUME NEW d \in Client
      PROVE  /\ Rising(down'[d]) /\ \A n : AtLeast(down[d], n) => AtLeast(down'[d], n)
             /\ \A i \in DOMAIN down'[d] : \E j \in DOMAIN down[d] : down'[d][i] = down[d][j]
  <2>1. Rising(down[d]) /\ down[d] \in Seq(DownPackets)
    BY <1>0 DEF Ordered
  <2>2. down'[d] = down[d] \/ (down[d] # <<>> /\ down'[d] = Tail(down[d]))
    BY <1>0 DEF Moves, Takes
  <2>3. CASE down'[d] = down[d]
    BY <2>1, <2>3
  <2>4. ASSUME down[d] # <<>>
        PROVE  /\ Rising(Tail(down[d])) /\ \A n : AtLeast(down[d], n) => AtLeast(Tail(down[d]), n)
               /\ \A i \in DOMAIN Tail(down[d]) : \E j \in DOMAIN down[d] : Tail(down[d])[i] = down[d][j]
    BY <2>1, <2>4, NumbersTail
  <2> QED
    BY <2>2, <2>3, <2>4
<1>2. seq[Host] <= seq'[Host]
  BY <1>0 DEF Moves, Counts
<1>3. up'[Host] = up[Host] \/ \E p \in UpPackets : /\ up'[Host] = Append(up[Host], p)
                                                   /\ p.body.type \in HasNumber => p.body.seq = seq'[Host]
  <2>1. up' = up \/ Sends(c)
    BY DEF Moves
  <2>2. \A p \in Staying(c) : p \in UpPackets
    BY DEF Staying, Sent
  <2> QED
    BY <1>0, <2>1, <2>2 DEF Sends
<1>4. Rising(up'[Host]) /\ \A n \in Nat : (n <= seq[Host] /\ AtLeast(up[Host], n)) => AtLeast(up'[Host], n)
  <2>1. CASE up'[Host] = up[Host]
    BY <2>1 DEF Ordered
  <2>2. ASSUME NEW p \in UpPackets, up'[Host] = Append(up[Host], p),
               p.body.type \in HasNumber => p.body.seq = seq'[Host]
        PROVE  Rising(up'[Host]) /\ \A n \in Nat : (n <= seq[Host] /\ AtLeast(up[Host], n)) => AtLeast(up'[Host], n)
    <3>1. p.body.type \in HasNumber => AtMost(up[Host], p.body.seq)
      <4>1. AtMost(up[Host], seq'[Host])
        BY <1>0, <1>2, LeadsChannels DEF AtMost
      <4> QED
        BY <2>2, <4>1
    <3>2. \A n \in Nat : n <= seq[Host] => n <= seq'[Host]
      BY <1>0, <1>2
    <3> QED
      BY <1>0, <2>2, <3>1, <3>2, NumbersAppend DEF Ordered
  <2> QED
    BY <1>3, <2>1, <2>2
<1>5. ASSUME NEW d \in Client
      PROVE  Precede(down'[d], up'[Host])
  <2>1. ASSUME NEW j \in DOMAIN down[d], down[d][j].body.type \in HasNumber
        PROVE  AtLeast(up'[Host], down[d][j].body.seq)
    <3>1. AtLeast(up[Host], down[d][j].body.seq)
      BY <2>1 DEF Ordered, Precede
    <3>2. down[d][j].body.seq \in Nat /\ down[d][j].body.seq <= seq[Host]
      BY <2>1, LeadsChannels DEF AtMost
    <3> QED
      BY <1>4, <3>1, <3>2
  <2> QED
    BY <1>1, <2>1 DEF Precede
<1>6. ASSUME NEW d \in Client \ {Host}, status'[d] \in {"welcomed", "in"}
      PROVE  AtLeast(down'[d], seq'[d]) /\ AtLeast(up'[Host], seq'[d])
  <2>1. CASE seq'[d] = seq[d] /\ status[d] \in {"welcomed", "in"}
    <3>1. AtLeast(down[d], seq[d]) /\ AtLeast(up[Host], seq[d])
      BY <1>6, <2>1 DEF Ordered
    <3>2. seq[d] \in Nat /\ seq[d] <= seq[Host]
      BY <1>0, <1>6, <2>1 DEF HostLeads
    <3> QED
      BY <1>1, <1>4, <1>6, <2>1, <3>1, <3>2
  <2>2. CASE d = c /\ Takes(c) /\ Body(c).type \in HasNumber /\ seq'[c] = Body(c).seq
    <3>1. down[d] # <<>> /\ down'[d] = Tail(down[d]) /\ Head(down[d]).body.type \in HasNumber
          /\ seq'[d] = Head(down[d]).body.seq
      BY <1>0, <2>2 DEF Takes, Body
    <3>2. AtLeast(down'[d], seq'[d])
      <4>1. Rising(down[d]) /\ down[d] \in Seq(DownPackets)
        BY <1>0 DEF Ordered
      <4>2. AtLeast(Tail(down[d]), Head(down[d]).body.seq)
        BY <3>1, <4>1, NumbersTail
      <4> QED
        BY <3>1, <4>2
    <3>3. 1 \in DOMAIN down[d] /\ down[d][1] = Head(down[d])
      BY <1>0, <3>1, TailIndex
    <3>4. AtLeast(up[Host], seq'[d]) /\ seq'[d] <= seq[Host]
      BY <1>6, <3>1, <3>3, LeadsChannels DEF Ordered, Precede, AtMost
    <3> QED
      BY <1>0, <1>4, <3>2, <3>4
  <2> QED
    <3>1. CASE d # c
      BY <1>6, <2>1, <3>1 DEF Moves, Counts
    <3>2. CASE d = c
      <4>1. \/ /\ seq'[c] = seq[c]
               /\ status'[c] = status[c] \/ status[c] \in {"welcomed", "in"}
            \/ Takes(c) /\ Body(c).type \in HasNumber /\ seq'[c] = Body(c).seq
        BY <1>6, <3>2 DEF Moves, Counts
      <4> QED
        BY <1>6, <2>1, <2>2, <3>2, <4>1
    <3> QED
      BY <3>1, <3>2
<1> QED
  BY <1>1, <1>4, <1>5, <1>6 DEF Ordered

\* What is left of a channel when its client hangs up has the same order.
LEMMA QuitsOrdered ==
  ASSUME TypeOK, TypeOK', Present, Ordered, NEW c \in Client, Quits(c)
  PROVE  Ordered'
<1> USE HostAssumption
<1>0. /\ down \in [Client -> Seq(DownPackets)] /\ up \in [Client -> Seq(UpPackets)]
      /\ status \in [Client -> Connected \cup {"out"}]
  BY DEF TypeOK, ChannelsOK, NumbersOK
<1>1. \A d \in Client : down'[d] = down[d] \/ down'[d] = <<>>
  BY <1>0 DEF Quits
<1>2. \A s : Rising(<<>>) /\ AtLeast(<<>>, s) /\ Precede(<<>>, s)
  BY DEF Rising, AtLeast, Precede
<1>3. \A i \in DOMAIN up'[Host] :
        \/ i \in DOMAIN up[Host] /\ up'[Host][i] = up[Host][i]
        \/ up'[Host][i].body.type = "Disconnect"
  <2> DEFINE goodbye == [route |-> "Disconnect", to |-> c, body |-> [type |-> "Disconnect"]]
  <2>1. goodbye \in UpPackets /\ goodbye.body.type = "Disconnect"
    BY BodyMade DEF UpPackets, Routes
  <2>2. \/ up' = [up EXCEPT ![c] = <<>>]
        \/ \E k \in 0 .. Len(up[c]) : up' = [up EXCEPT ![c] = Append(SubSeq(@, 1, k), goodbye)]
    BY DEF Quits
  <2> HIDE DEF goodbye
  <2>3. CASE up' = [up EXCEPT ![c] = <<>>] \/ c # Host
    BY <1>0, <2>2, <2>3
  <2>4. ASSUME NEW k \in 0 .. Len(up[Host]), up'[Host] = Append(SubSeq(up[Host], 1, k), goodbye),
               NEW i \in DOMAIN up'[Host]
        PROVE  \/ i \in DOMAIN up[Host] /\ up'[Host][i] = up[Host][i]
               \/ up'[Host][i].body.type = "Disconnect"
    <3> DEFINE s == SubSeq(up[Host], 1, k)
    <3>1. /\ s \in Seq(UpPackets) /\ Len(s) = k
          /\ \A j \in 1 .. k : s[j] = up[Host][j]
      BY <1>0, SubSeqProperties
    <3>2. Len(up[Host]) \in Nat /\ DOMAIN up[Host] = 1 .. Len(up[Host])
      BY <1>0, LenProperties
    <3> HIDE DEF s
    <3>3. Append(s, goodbye)[i] = goodbye \/ (i \in 1 .. k /\ Append(s, goodbye)[i] = s[i])
      <4>1. up'[Host] = Append(s, goodbye)
        BY <2>4 DEF s
      <4> QED
        BY <2>1, <2>4, <3>1, <4>1, AppendProperties
    <3> QED
      BY <2>1, <2>4, <3>1, <3>2, <3>3 DEF s
  <2> QED
    BY <1>0, <2>2, <2>3, <2>4
<1>4. Rising(up'[Host]) /\ \A n : AtLeast(up[Host], n) => AtLeast(up'[Host], n)
  <2>1. \A i \in DOMAIN up'[Host] : up'[Host][i].body.type \in HasNumber =>
          i \in DOMAIN up[Host] /\ up'[Host][i] = up[Host][i]
    BY <1>3 DEF HasNumber, StateChanges
  <2> QED
    BY <2>1 DEF Ordered, Rising, AtLeast
<1>5. \A d \in Client : Rising(down'[d]) /\ Precede(down'[d], up'[Host])
  BY <1>1, <1>2, <1>4 DEF Ordered, Precede
<1>6. ASSUME NEW d \in Client \ {Host}, status'[d] \in {"welcomed", "in"}
      PROVE  AtLeast(down'[d], seq'[d]) /\ AtLeast(up'[Host], seq'[d])
  <2>1. d # c /\ status[d] = status'[d] /\ seq'[d] = seq[d]
    BY <1>0, <1>6 DEF Quits
  <2>2. AtLeast(down[d], seq[d]) /\ AtLeast(up[Host], seq[d])
    BY <1>6, <2>1 DEF Ordered
  <2> QED
    BY <1>1, <1>2, <1>4, <2>1, <2>2
<1> QED
  BY <1>4, <1>5, <1>6 DEF Ordered

\* A packet without number, at the end of any channel.
LEMMA PlainAppend ==
  ASSUME NEW s \in Seq(DownPackets), NEW e \in DownPackets, e.body.type \notin HasNumber
  PROVE  /\ Rising(s) => Rising(Append(s, e))
         /\ \A n : AtLeast(s, n) => AtLeast(Append(s, e), n)
         /\ \A t : Precede(s, t) => Precede(Append(s, e), t)
<1>1. \A t : Precede(s, t) => Precede(Append(s, e), t)
  <2>1. \A i \in DOMAIN Append(s, e) :
          \/ i \in DOMAIN s /\ Append(s, e)[i] = s[i]
          \/ Append(s, e)[i] = e
    BY AppendIndex
  <2> QED
    BY <2>1 DEF Precede
<1> QED
  BY <1>1, NumbersAppend

\* A new connection adds a packet without number to the host's channel.
LEMMA ConnectOrdered ==
  ASSUME TypeOK, TypeOK', Ordered, NEW c \in Client, Connect(c)
  PROVE  Ordered'
<1> USE HostAssumption
<1> DEFINE packet == [from |-> c, n |-> 0, body |-> [type |-> "PlayerWantsToJoin"]]
<1>0. /\ down \in [Client -> Seq(DownPackets)] /\ status \in [Client -> Connected \cup {"out"}]
  BY DEF TypeOK, ChannelsOK, NumbersOK
<1>1. packet \in DownPackets /\ packet.body.type \notin HasNumber
  BY BodyMade DEF DownPackets, HasNumber, StateChanges
<1>2. /\ down' = Deliver({Host}, c, 0, [type |-> "PlayerWantsToJoin"]) /\ up' = up /\ seq' = seq
      /\ status' = [status EXCEPT ![c] = "joining"]
  BY DEF Connect, OnPlayerConnected
<1>3. \A d \in Client : down'[d] = down[d] \/ down'[d] = Append(down[d], packet)
  BY <1>2 DEF Deliver
<1> HIDE DEF packet
<1>4. \A d \in Client : down[d] \in Seq(DownPackets)
  BY <1>0
<1>5. \A d \in Client : /\ Rising(down'[d]) /\ Precede(down'[d], up[Host])
                        /\ \A n : AtLeast(down[d], n) => AtLeast(down'[d], n)
  BY <1>1, <1>3, <1>4, PlainAppend DEF Ordered
<1>6. \A d \in Client : status'[d] \in {"welcomed", "in"} => status[d] = status'[d]
  BY <1>0, <1>2
<1> QED
  BY <1>2, <1>5, <1>6 DEF Ordered

\* A packet goes from the channel of the host to the end of the others.
LEMMA RelayingOrdered ==
  ASSUME TypeOK, TypeOK', Apart, Present, HostLeads, ~renumbered, Ordered, NEW c \in Client, Relaying(c)
  PROVE  Ordered'
<1> USE HostAssumption
<1> DEFINE m == Head(up[c]).body
<1>0. /\ down \in [Client -> Seq(DownPackets)] /\ up \in [Client -> Seq(UpPackets)] /\ relayed \in Nat
      /\ seq \in [Client -> Nat]
  BY DEF TypeOK, ChannelsOK, NumbersOK
<1>1. /\ up[c] # <<>> /\ up' = [up EXCEPT ![c] = Tail(@)] /\ m \in Bodies
      /\ c # Host => m.type \notin HasNumber
  BY RelayedHead DEF Sent, Sendable, HasNumber
<1>2. seq' = seq /\ status' = status
  BY DEF Relaying
<1>3. Rising(up'[Host]) /\ \A n : AtLeast(up[Host], n) => AtLeast(up'[Host], n)
  <2>1. up'[Host] = up[Host] \/ (up[Host] # <<>> /\ up'[Host] = Tail(up[Host]))
    BY <1>0, <1>1
  <2> QED
    BY <1>0, <2>1, NumbersTail DEF Ordered
<1>4. m.type \in HasNumber =>
        /\ m.seq \in Nat /\ AtLeast(up'[Host], m.seq)
        /\ \A d \in Client : AtMost(down[d], m.seq)
        /\ \A d \in Client \ {Host} : status[d] \in {"welcomed", "in"} => seq[d] <= m.seq
  <2> SUFFICES ASSUME m.type \in HasNumber
               PROVE  /\ m.seq \in Nat /\ AtLeast(up'[Host], m.seq)
                      /\ \A d \in Client : AtMost(down[d], m.seq)
                      /\ \A d \in Client \ {Host} : status[d] \in {"welcomed", "in"} => seq[d] <= m.seq
    OBVIOUS
  <2>1. /\ c = Host /\ up'[Host] = Tail(up[Host]) /\ 1 \in DOMAIN up[Host] /\ up[Host][1] = Head(up[Host])
    BY <1>0, <1>1, TailIndex
  <2>2. AtLeast(up'[Host], m.seq)
    BY <1>0, <1>1, <2>1, NumbersTail DEF Ordered
  <2>3. m.seq \in Nat
    BY <2>1, LeadsChannels
  <2>4. \A d \in Client : AtMost(down[d], m.seq)
    BY <2>1 DEF Ordered, Precede, AtLeast, AtMost
  <2>5. \A d \in Client \ {Host} : status[d] \in {"welcomed", "in"} => seq[d] <= m.seq
    BY <2>1 DEF Ordered, AtLeast
  <2> QED
    BY <2>2, <2>3, <2>4, <2>5
<1> HIDE DEF m
<1>5. ASSUME NEW d \in Client
      PROVE  \/ down'[d] = down[d]
             \/ \E e \in DownPackets : /\ down'[d] = Append(down[d], e)
                                       /\ e.body = m \/ e.body.type \notin HasNumber
  <2>0. ASSUME NEW from \in Client, NEW n \in Nat, NEW body \in Bodies,
               body = m \/ body.type \in {"HostDisconnected", "PlayerHasLeft"}
        PROVE  LET e == [from |-> from, n |-> n, body |-> body]
               IN  e \in DownPackets /\ (e.body = m \/ e.body.type \notin HasNumber)
    BY <2>0 DEF DownPackets, HasNumber, StateChanges
  <2>1. CASE PassesOn(c, d)
    BY <2>0, <2>1 DEF PassesOn, m
  <2>2. CASE Broadcasts(c, d)
    <3>1. relayed + 1 \in Nat
      BY <1>0
    <3> QED
      BY <2>0, <2>2, <3>1 DEF Broadcasts, m
  <2> QED
    BY <2>1, <2>2, Relayed
<1>6. ASSUME NEW d \in Client
      PROVE  /\ Rising(down'[d]) /\ Precede(down'[d], up'[Host])
             /\ (d # Host /\ status[d] \in {"welcomed", "in"}) => AtLeast(down'[d], seq[d])
  <2>1. /\ Rising(down[d]) /\ Precede(down[d], up'[Host])
        /\ (d # Host /\ status[d] \in {"welcomed", "in"}) => AtLeast(down[d], seq[d])
    BY <1>3 DEF Ordered, Precede
  <2>2. ASSUME NEW e \in DownPackets, down'[d] = Append(down[d], e), e.body = m, m.type \in HasNumber
        PROVE  /\ Rising(down'[d]) /\ Precede(down'[d], up'[Host])
               /\ (d # Host /\ status[d] \in {"welcomed", "in"}) => AtLeast(down'[d], seq[d])
    <3>1. \A i \in DOMAIN down'[d] :
            \/ i \in DOMAIN down[d] /\ down'[d][i] = down[d][i]
            \/ down'[d][i] = e
      BY <1>0, <2>2, AppendIndex
    <3>2. Precede(down'[d], up'[Host])
      BY <1>4, <2>1, <2>2, <3>1 DEF Precede
    <3> QED
      BY <1>0, <1>4, <2>1, <2>2, <3>2, NumbersAppend
  <2>3. ASSUME NEW e \in DownPackets, down'[d] = Append(down[d], e), e.body.type \notin HasNumber
        PROVE  /\ Rising(down'[d]) /\ Precede(down'[d], up'[Host])
               /\ (d # Host /\ status[d] \in {"welcomed", "in"}) => AtLeast(down'[d], seq[d])
    BY <1>0, <2>1, <2>3, PlainAppend
  <2> QED
    BY <1>5, <2>1, <2>2, <2>3
<1> QED
  BY <1>2, <1>3, <1>6 DEF Ordered

\* The order is kept by every step, and holds at the start (next lemma).
LEMMA OrderStep ==
  /\ TypeOK /\ TypeOK' /\ HostAside /\ Apart /\ Present /\ HostLeads /\ OrderInv /\ [Next]_vars
  => OrderInv'
<1> SUFFICES ASSUME TypeOK, TypeOK', HostAside, Apart, Present, HostLeads, OrderInv, [Next]_vars,
                    ~renumbered'
             PROVE  Ordered'
  BY DEF OrderInv
<1>1. CASE Idles
  <2>1. /\ ~renumbered /\ up' = up /\ down' = down /\ status' = status
        /\ \A c \in Client : status[c] \in {"welcomed", "in"} => seq'[c] = seq[c]
    BY <1>1 DEF Idles, Here, Connected
  <2> QED
    BY <2>1 DEF OrderInv, Ordered
<1>2. ASSUME NEW c \in Client, Moves(c)
      PROVE  Ordered'
  <2>1. ~renumbered
    BY <1>2 DEF Moves
  <2> QED
    BY <1>2, <2>1, MovesOrdered DEF OrderInv
<1>3. ASSUME NEW c \in Client, Quits(c)
      PROVE  Ordered'
  <2>1. ~renumbered
    BY <1>3 DEF Quits
  <2> QED
    BY <1>3, <2>1, QuitsOrdered DEF OrderInv
<1>4. ASSUME NEW c \in Client, Connect(c)
      PROVE  Ordered'
  <2>1. ~renumbered
    BY <1>4 DEF Connect
  <2> QED
    BY <1>4, <2>1, ConnectOrdered DEF OrderInv
<1>5. ASSUME NEW c \in Client, Relaying(c)
      PROVE  Ordered'
  <2>1. ~renumbered
    BY <1>5 DEF Relaying, observers
  <2> QED
    BY <1>5, <2>1, RelayingOrdered DEF OrderInv
<1> QED
  BY <1>1, <1>2, <1>3, <1>4, <1>5, Shapes

\* See OrderStep.
LEMMA OrderInit == Init => OrderInv
<1> SUFFICES ASSUME Init PROVE Ordered
  BY DEF OrderInv
<1>1. \A c \in Client : up[c] = <<>> /\ down[c] = <<>>
  BY DEF Init, RelayInit
<1> QED
  BY <1>1, HostAssumption DEF Ordered, Rising, Precede, AtLeast

\* The number that a player's program has seen never goes back, whatever is on its way,
\* as long as the host's own number has not been set back.
THEOREM NumbersAlwaysGrow == Spec => NumbersGrow
<1> DEFINE Grow == \A c \in Client :
             (status[c] = "in" /\ status'[c] = "in" /\ ~renumbered') => seq[c] <= seq'[c]
<1>1. ASSUME TypeOK, TypeOK', HostAside, Apart, Present, OrderInv, [Next]_vars
      PROVE  Grow
  <2> SUFFICES ASSUME NEW c \in Client, status[c] = "in", status'[c] = "in", ~renumbered'
               PROVE  seq[c] <= seq'[c]
    OBVIOUS
  <2>0. /\ down \in [Client -> Seq(DownPackets)] /\ seq \in [Client -> Nat] /\ seq' \in [Client -> Nat]
        /\ status \in [Client -> Connected \cup {"out"}]
    BY <1>1 DEF TypeOK, ChannelsOK, NumbersOK
  <2>1. ASSUME NEW d \in Client, Moves(d)
        PROVE  seq[c] <= seq'[c]
    <3>1. CASE c # d \/ c = Host
      BY <2>0, <2>1, <3>1 DEF Moves, Counts
    <3>2. CASE c = d /\ c # Host
      <4>1. seq'[c] = seq[c] \/ (Takes(c) /\ Body(c).type \in HasNumber /\ seq'[c] = Body(c).seq)
        BY <2>1, <3>2 DEF Moves, Counts
      <4>2. ASSUME Takes(c), Body(c).type \in HasNumber
            PROVE  seq[c] <= Body(c).seq
        <5>1. ~renumbered
          BY <2>1 DEF Moves
        <5>2. AtLeast(down[c], seq[c])
          BY <1>1, <3>2, <5>1 DEF OrderInv, Ordered
        <5> QED
          BY <2>0, <4>2, <5>2, NumbersTail DEF Takes, Body
      <4> QED
        BY <2>0, <4>1, <4>2
    <3> QED
      BY <3>1, <3>2
  <2>2. ASSUME NEW d \in Client, Quits(d)
        PROVE  seq[c] <= seq'[c]
    <3>1. c # d
      BY <2>0, <2>2 DEF Quits
    <3> QED
      BY <2>0, <2>2, <3>1 DEF Quits
  <2>3. CASE Idles
    <3>1. seq'[c] = seq[c]
      BY <2>3 DEF Idles, Here, Connected
    <3> QED
      BY <2>0, <3>1
  <2>4. ASSUME NEW d \in Client, Connect(d) \/ Relaying(d)
        PROVE  seq[c] <= seq'[c]
    BY <2>0, <2>4 DEF Connect, Relaying
  <2> QED
    BY <1>1, <2>1, <2>2, <2>3, <2>4, Shapes
<1>2. Spec => [](TypeOK /\ HostAside /\ Apart /\ Present /\ OrderInv)
  BY OrderInit, OrderStep, PresentAlways, HostAlwaysLeads, PTL DEF Spec
<1> QED
  BY <1>1, <1>2, PTL DEF Spec, NumbersGrow
=============================================================================
