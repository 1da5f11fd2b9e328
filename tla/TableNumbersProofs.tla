------------------------ MODULE TableNumbersProofs -------------------------
(***************************************************************************)
(* Theorems about TableSync that relate numbers to tables: as long as the  *)
(* host's number is not set back, a number stands for one table, nobody    *)
(* stays behind the host, and a player's own change comes back to the      *)
(* table he was looking at.                                                *)
(***************************************************************************)
EXTENDS TableHistoryProofs

-----------------------------------------------------------------------------
(* What a player sends, and the number it carries.                         *)

\* A request carries what its author sees.
Asks(c, req) ==
  /\ req.sender = c /\ req.seq = seq[c] /\ req.base = history[c].table
  /\ req.synced = (status[c] # "joining") /\ req.faithful = (c \notin suspect)

\* Only the host counts, and with each number he announces a state change.
Announces(c, p) ==
  /\ p \in Staying(c) /\ up' = [up EXCEPT ![c] = Append(@, p)]
  /\ p.body.type \in StateChanges => c = Host /\ seq'[Host] = seq[Host] + 1 /\ p.body.seq = seq[Host] + 1
  /\ p.body.type \notin StateChanges => seq'[Host] = seq[Host]
  /\ p.body.type = "ConnectionAccepted" => p.body.seq = seq[Host] /\ Saves(p.body)
  /\ p.body.type = "Request" => Asks(c, p.body.req)
  /\ p.body.type = "ChangeAccepted" =>
       Takes(Host) /\ Body(Host).type = "Request" /\ p.body.req = Body(Host).req
Silent == up' = up /\ (~renumbered' => seq'[Host] = seq[Host])
Speaks(c) == Silent \/ \E p \in UpPackets : Announces(c, p)

\* Others take the number of every packet that has one.
Learns(c) ==
  /\ \A d \in Client \ {c, Host} : seq'[d] = seq[d]
  /\ c # Host => \/ Takes(c) /\ Body(c).type \in HasNumber /\ seq'[c] = Body(c).seq
                 \/ /\ seq'[c] = seq[c] /\ (down' = down \/ (Takes(c) /\ Body(c).type \notin HasNumber))

\* A packet that is no state change, sent without counting.
LEMMA AnnouncesPlain ==
  ASSUME ChannelsOK, up' \in [Client -> Seq(UpPackets)],
         NEW c \in Client, NEW route, NEW to, NEW body, up' = Upload(c, route, to, body),
         \/ route = "ClientToHost" /\ body.type = "Request"
         \/ route = "ClientToAll" /\ body.type = "PlayerHasJoined"
         \/ route = "HostToSingleClient" /\ body.type = "ChangeRejected"
         \/ c = Host /\ route = "HostToSingleClient" /\ body.type = "ConnectionAccepted",
         seq'[Host] = seq[Host],
         body.type = "ConnectionAccepted" => body.seq = seq[Host] /\ Saves(body),
         body.type = "Request" => Asks(c, body.req)
  PROVE  Speaks(c)
<1> DEFINE p == [route |-> route, to |-> to, body |-> body]
<1>1. p \in Staying(c)
  BY StayingMade
<1>2. up' = [up EXCEPT ![c] = Append(@, p)]
  BY DEF Upload
<1>3. p.body = body /\ p \in UpPackets
  BY <1>1 DEF Staying, Sent
<1>4. body.type \notin StateChanges
  BY DEF StateChanges
<1> HIDE DEF p
<1>5. Announces(c, p)
  BY <1>1, <1>2, <1>3, <1>4 DEF Announces, StateChanges
<1> QED
  BY <1>3, <1>5 DEF Speaks

\* A state change, with the next number.
LEMMA AnnouncesChange ==
  ASSUME ChannelsOK, up' \in [Client -> Seq(UpPackets)],
         NEW body, up' = Upload(Host, "ClientToAll", Host, body),
         body.type \in StateChanges, body.seq = seq[Host] + 1, seq'[Host] = seq[Host] + 1,
         body.type = "ChangeAccepted" => Takes(Host) /\ Body(Host).type = "Request" /\ body.req = Body(Host).req
  PROVE  Speaks(Host)
<1> DEFINE p == [route |-> "ClientToAll", to |-> Host, body |-> body]
<1>1. p \in Staying(Host)
  BY StayingMade, HostAssumption
<1>2. up' = [up EXCEPT ![Host] = Append(@, p)]
  BY DEF Upload
<1>3. p.body = body /\ p \in UpPackets
  BY <1>1 DEF Staying, Sent
<1>4. body.type # "ConnectionAccepted" /\ body.type # "Request"
  BY DEF StateChanges
<1> HIDE DEF p
<1>5. Announces(Host, p)
  BY <1>1, <1>2, <1>3, <1>4 DEF Announces
<1> QED
  BY <1>3, <1>5 DEF Speaks

\* It is so for whatever a player does.
LEMMA PlaysSpeaks ==
  ASSUME TypeOK, TypeOK', HostAside, Apart, Present, NEW c \in Client, Plays(c)
  PROVE  Speaks(c) /\ Learns(c)
<1> USE HostAssumption
<1>0. /\ ChannelsOK /\ up' \in [Client -> Seq(UpPackets)] /\ down[Host] \in Seq(ToHosts)
      /\ seq \in [Client -> Nat] /\ seq[Host] \in Nat
  BY DEF TypeOK, ChannelsOK, NumbersOK, HostAside
<1>1. ASSUME NEW t, Handling(c, t)
      PROVE  /\ Takes(c) /\ Here(c) /\ Body(c).type = t
             /\ c = Host => t # "ConnectionAccepted"
  <2>1. Takes(c) /\ Here(c) /\ Body(c).type = t
    BY <1>1, HandlingTakes
  <2>2. c = Host => Head(down[c]) \in ToHosts
    BY <1>0, <2>1, HeadTailProperties DEF Takes
  <2>3. c = Host => t # "ConnectionAccepted"
    BY <2>1, <2>2 DEF ToHosts, ToHost, Body
  <2> QED
    BY <2>1, <2>3
\* A handler that takes no number and sends nothing.
<1>2. ASSUME NEW t, Handling(c, t), t \notin HasNumber, up' = up, seq' = seq
      PROVE  Speaks(c) /\ Learns(c)
  BY <1>1, <1>2 DEF Speaks, Silent, Learns
\* One that takes a number.
<1>3. ASSUME NEW t \in HasNumber, Handling(c, t), \A d \in Client \ {c} : seq'[d] = seq[d],
             c # Host => seq'[c] = Body(c).seq
      PROVE  Learns(c)
  BY <1>1, <1>3 DEF Learns
<1>4. ASSUME up' = up, \A d \in Client \ {c} : seq'[d] = seq[d],
             c = Host => seq'[c] = seq[c] \/ renumbered'
      PROVE  Speaks(c)
  BY <1>4 DEF Speaks, Silent
<1>5. ASSUME NEW kind \in Kinds, Ask(c, kind)
      PROVE  Speaks(c) /\ Learns(c)
  <2> DEFINE req == [kind |-> kind, id |-> issued + 1, sender |-> c, seq |-> seq[c],
                     base |-> history[c].table, synced |-> status[c] # "joining",
                     faithful |-> c \notin suspect]
             body == [type |-> "Request", req |-> req]
  <2>1. up' = Upload(c, "ClientToHost", Host, body) /\ seq' = seq /\ down' = down
    BY <1>5 DEF Ask
  <2>2. body.type = "Request" /\ body.req = req
    OBVIOUS
  <2>3. Asks(c, req)
    BY DEF Asks
  <2> HIDE DEF body, req
  <2>4. Speaks(c)
    BY <1>0, <2>1, <2>2, <2>3, AnnouncesPlain
  <2> QED
    BY <2>1, <2>4 DEF Learns
<1>6. ASSUME c = Host, LoadGame \/ OpenBox
      PROVE  Speaks(c) /\ Learns(c)
  <2>1. PICK t \in {"GameLoaded", "GameBoxHasChanged"} :
          up' = Upload(Host, "ClientToAll", Host, [type |-> t, seq |-> seq[Host] + 1, change |-> issued + 1])
    BY <1>6 DEF LoadGame, OpenBox
  <2> DEFINE body == [type |-> t, seq |-> seq[Host] + 1, change |-> issued + 1]
  <2>2. body.type = t /\ body.seq = seq[Host] + 1
    OBVIOUS
  <2>3. up' = Upload(Host, "ClientToAll", Host, body)
    BY <2>1
  <2> HIDE DEF body
  <2>4. seq' = [seq EXCEPT ![Host] = @ + 1]
    BY <1>6 DEF LoadGame, OpenBox
  <2>5. seq'[Host] = seq[Host] + 1 /\ \A d \in Client \ {Host} : seq'[d] = seq[d]
    BY <1>0, <2>4
  <2>6. body.type \in StateChanges /\ body.type # "ChangeAccepted"
    BY <2>1, <2>2 DEF StateChanges
  <2>7. Speaks(Host)
    BY <1>0, <2>2, <2>3, <2>5, <2>6, AnnouncesChange
  <2> QED
    BY <1>6, <2>5, <2>7 DEF Learns
<1>7. ASSUME c = Host, HandleRequest
      PROVE  Speaks(c) /\ Learns(c)
  <2> DEFINE req == Body(Host).req
             rejected == [type |-> "ChangeRejected", req |-> req]
             accepted == [type |-> "ChangeAccepted", seq |-> seq[Host] + 1, req |-> req]
  <2>1. /\ rejected.type = "ChangeRejected" /\ accepted.type = "ChangeAccepted" /\ accepted.seq = seq[Host] + 1
        /\ accepted.req = Body(Host).req
    OBVIOUS
  <2>2. \/ SendToOne(Host, req.sender, rejected) /\ seq' = seq
        \/ /\ up' = Upload(Host, "ClientToAll", Host, accepted)
           /\ seq' = [seq EXCEPT ![Host] = @ + 1]
    BY <1>7 DEF HandleRequest, Outdated, Reject, Accept
  <2>3. Takes(Host) /\ Body(Host).type = "Request"
    BY <1>1, <1>7 DEF HandleRequest
  <2> HIDE DEF rejected, accepted
  <2>4. CASE SendToOne(Host, req.sender, rejected) /\ seq' = seq
    <3>1. up' = up \/ up' = Upload(Host, "HostToSingleClient", req.sender, rejected)
      BY <2>4 DEF SendToOne
    <3>2. CASE up' = up
      BY <1>7, <2>4, <3>2 DEF Speaks, Silent, Learns
    <3>3. CASE up' = Upload(Host, "HostToSingleClient", req.sender, rejected)
      <4>1. Speaks(Host)
        BY <1>0, <2>1, <2>4, <3>3, AnnouncesPlain
      <4> QED
        BY <1>7, <2>4, <4>1 DEF Learns
    <3> QED
      BY <3>1, <3>2, <3>3
  <2>5. CASE /\ up' = Upload(Host, "ClientToAll", Host, accepted)
             /\ seq' = [seq EXCEPT ![Host] = @ + 1]
    <3>1. seq'[Host] = seq[Host] + 1 /\ \A d \in Client \ {Host} : seq'[d] = seq[d]
      BY <1>0, <2>5
    <3>2. Speaks(Host)
      BY <1>0, <2>1, <2>3, <2>5, <3>1, AnnouncesChange DEF StateChanges
    <3> QED
      BY <1>7, <3>1, <3>2 DEF Learns
  <2> QED
    BY <2>2, <2>4, <2>5
<1>8. ASSUME c = Host, HandlePlayerWantsToJoin
      PROVE  Speaks(c) /\ Learns(c)
  <2> DEFINE to == Head(down[Host]).from
             body == [type |-> "ConnectionAccepted", seq |-> seq[Host], table |-> shown,
                      clean |-> ~ChangesOnTheirWay /\ shown = history[Host].table /\ Host \notin suspect]
  <2>1. SendToOne(Host, to, body) /\ seq' = seq
    BY <1>8 DEF HandlePlayerWantsToJoin
  <2>2. body.type = "ConnectionAccepted" /\ body.seq = seq[Host] /\ Saves(body)
    BY DEF Saves
  <2> HIDE DEF body, to
  <2>3. up' = up \/ up' = Upload(Host, "HostToSingleClient", to, body)
    BY <2>1 DEF SendToOne
  <2>4. CASE up' = up
    BY <1>8, <2>1, <2>4 DEF Speaks, Silent, Learns
  <2>5. CASE up' = Upload(Host, "HostToSingleClient", to, body)
    <3>1. Speaks(Host)
      BY <1>0, <2>1, <2>2, <2>5, AnnouncesPlain
    <3> QED
      BY <1>8, <2>1, <3>1 DEF Learns
  <2> QED
    BY <2>3, <2>4, <2>5
<1>9. CASE HandleChangeAccepted(c)
  <2>1. /\ Handling(c, "ChangeAccepted")
        /\ \/ /\ c = Host /\ seq' = [seq EXCEPT ![Host] = @ + 1]
              /\ up' = Upload(Host, "ClientToAll", Host,
                         [type |-> "ShuffleResult", seq |-> seq[Host] + 1, change |-> Body(c).req.id])
           \/ up' = up /\ TakeNumber(c)
    BY <1>9 DEF HandleChangeAccepted
  <2>2. CASE /\ c = Host /\ seq' = [seq EXCEPT ![Host] = @ + 1]
             /\ up' = Upload(Host, "ClientToAll", Host,
                        [type |-> "ShuffleResult", seq |-> seq[Host] + 1, change |-> Body(c).req.id])
    <3> DEFINE body == [type |-> "ShuffleResult", seq |-> seq[Host] + 1, change |-> Body(c).req.id]
    <3>1. body.type = "ShuffleResult" /\ body.seq = seq[Host] + 1
      OBVIOUS
    <3> HIDE DEF body
    <3>2. up' = Upload(Host, "ClientToAll", Host, body)
      BY <2>2 DEF body
    <3>3. seq'[Host] = seq[Host] + 1 /\ \A d \in Client \ {Host} : seq'[d] = seq[d]
      BY <1>0, <2>2
    <3>4. Speaks(Host)
      BY <1>0, <3>1, <3>2, <3>3, AnnouncesChange DEF StateChanges
    <3> QED
      BY <2>2, <3>3, <3>4 DEF Learns
  <2>3. CASE up' = up /\ TakeNumber(c)
    <3>1. /\ \A d \in Client \ {c} : seq'[d] = seq[d]
          /\ c = Host => seq'[c] = seq[c]
          /\ c # Host => seq'[c] = Body(c).seq
      BY <1>0, <2>3 DEF TakeNumber
    <3> QED
      BY <1>3, <1>4, <2>1, <2>3, <3>1 DEF HasNumber, StateChanges
  <2> QED
    BY <2>1, <2>2, <2>3
<1>10. CASE HandleShuffleResult(c)
  <2>1. /\ \A d \in Client \ {c} : seq'[d] = seq[d]
        /\ seq'[c] = Body(c).seq
    BY <1>0, <1>10 DEF HandleShuffleResult
  <2>2. /\ Handling(c, "ShuffleResult") /\ up' = up
        /\ c = Host => seq'[c] = seq[c] \/ renumbered'
    BY <1>10, <2>1 DEF HandleShuffleResult
  <2> QED
    BY <1>3, <1>4, <2>1, <2>2 DEF HasNumber, StateChanges
<1>11. CASE HandleGameLoaded(c) \/ HandleGameBoxHasChanged(c)
  <2>1. /\ Handling(c, "GameLoaded") \/ Handling(c, "GameBoxHasChanged")
        /\ up' = up
        /\ \A d \in Client \ {c} : seq'[d] = seq[d]
        /\ c = Host => seq'[c] = seq[c]
        /\ c # Host => seq'[c] = Body(c).seq
    BY <1>0, <1>11 DEF HandleGameLoaded, HandleGameBoxHasChanged
  <2> QED
    BY <1>3, <1>4, <2>1 DEF HasNumber, StateChanges
<1>12. CASE HandleConnectionAccepted(c)
  <2>1. /\ Handling(c, "ConnectionAccepted")
        /\ seq' = [seq EXCEPT ![c] = Body(c).seq]
        /\ up' = Upload(c, "ClientToAll", c, [type |-> "PlayerHasJoined"])
    BY <1>12 DEF HandleConnectionAccepted
  <2>2. c # Host
    BY <1>1, <2>1
  <2>3. /\ \A d \in Client \ {c} : seq'[d] = seq[d]
        /\ seq'[c] = Body(c).seq /\ seq'[Host] = seq[Host]
    BY <1>0, <2>1, <2>2
  <2>4. Speaks(c)
    <3> DEFINE body == [type |-> "PlayerHasJoined"]
    <3>1. body.type = "PlayerHasJoined"
      OBVIOUS
    <3>2. up' = Upload(c, "ClientToAll", c, body)
      BY <2>1
    <3> HIDE DEF body
    <3> QED
      BY <1>0, <2>3, <3>1, <3>2, AnnouncesPlain
  <2> QED
    BY <1>3, <2>1, <2>3, <2>4 DEF HasNumber
<1>13. CASE HandleChangeRejected(c) \/ HandlePlayerHasJoined(c) \/ HandlePlayerHasLeft(c)
  <2>1. /\ \E t \in {"ChangeRejected", "PlayerHasJoined", "PlayerHasLeft"} : Handling(c, t)
        /\ up' = up /\ seq' = seq
    BY <1>13 DEF HandleChangeRejected, HandlePlayerHasJoined, HandlePlayerHasLeft
  <2> QED
    BY <1>2, <2>1 DEF HasNumber, StateChanges
<1> QED
  BY <1>5, <1>6, <1>7, <1>8, <1>9, <1>10, <1>11, <1>12, <1>13 DEF Plays, HandleAtHost

-----------------------------------------------------------------------------
(* State changes have numbers of their own.                                *)

\* The state changes of a channel are numbered after n; after all that comes before them in
\* the channel; those of t after all of s.
Ahead(s, n) == \A i \in DOMAIN s : s[i].body.type \in StateChanges => n < s[i].body.seq
Climbing(s) ==
  \A i, j \in DOMAIN s :
    (i < j /\ s[i].body.type \in HasNumber /\ s[j].body.type \in StateChanges) => s[i].body.seq < s[j].body.seq
Before(s, t) == \A i \in DOMAIN s : s[i].body.type \in HasNumber => Ahead(t, s[i].body.seq)

\* What a player will see: each state change has a number that he has not seen before.
Strict ==
  /\ Climbing(up[Host])
  /\ \A c \in Client : Climbing(down[c]) /\ Before(down[c], up[Host])
  /\ \A c \in Client \ {Host} : status[c] \in {"welcomed", "in"} =>
       Ahead(down[c], seq[c]) /\ Ahead(up[Host], seq[c])
StrictInv == ~renumbered => Strict

\* It is so of what is left when the first packet is taken...
LEMMA ClimbTail ==
  ASSUME NEW S, NEW s \in Seq(S), s # <<>>
  PROVE  /\ Climbing(s) => /\ Climbing(Tail(s))
                           /\ Head(s).body.type \in HasNumber => Ahead(Tail(s), Head(s).body.seq)
         /\ \A n : Ahead(s, n) => /\ Ahead(Tail(s), n)
                                  /\ Head(s).body.type \in StateChanges => n < Head(s).body.seq
         /\ \A t : Before(s, t) => /\ Before(Tail(s), t)
                                   /\ Head(s).body.type \in HasNumber => Ahead(t, Head(s).body.seq)
<1> DEFINE u == Tail(s)
           k == Len(s)
<1>1. /\ k \in Nat /\ k > 0 /\ DOMAIN s = 1 .. k /\ Head(s) = s[1] /\ DOMAIN u = 1 .. k - 1
      /\ \A i \in DOMAIN u : i + 1 \in DOMAIN s /\ u[i] = s[i + 1]
  BY TailIndex
<1> HIDE DEF u, k
<1>2. 1 \in DOMAIN s /\ \A i \in DOMAIN u : \E j \in DOMAIN s : 1 < j /\ u[i] = s[j]
  BY <1>1
<1>3. ASSUME Climbing(s)
      PROVE  Climbing(u) /\ (Head(s).body.type \in HasNumber => Ahead(u, Head(s).body.seq))
  <2>1. ASSUME NEW i \in DOMAIN u, NEW j \in DOMAIN u, i < j
        PROVE  i + 1 \in DOMAIN s /\ j + 1 \in DOMAIN s /\ i + 1 < j + 1 /\ u[i] = s[i + 1] /\ u[j] = s[j + 1]
    BY <1>1, <2>1
  <2>2. Climbing(u)
    BY <1>3, <2>1 DEF Climbing
  <2>3. Head(s).body.type \in HasNumber => Ahead(u, Head(s).body.seq)
    BY <1>1, <1>2, <1>3 DEF Climbing, Ahead
  <2> QED
    BY <2>2, <2>3
<1>4. ASSUME NEW n, Ahead(s, n)
      PROVE  Ahead(u, n) /\ (Head(s).body.type \in StateChanges => n < Head(s).body.seq)
  BY <1>1, <1>2, <1>4 DEF Ahead
<1>5. ASSUME NEW t, Before(s, t)
      PROVE  Before(u, t) /\ (Head(s).body.type \in HasNumber => Ahead(t, Head(s).body.seq))
  BY <1>1, <1>2, <1>5 DEF Before
<1> QED
  BY <1>3, <1>4, <1>5 DEF u

\* ... and when a packet is added that is no state change, or has a greater number.
LEMMA ClimbAppend ==
  ASSUME NEW S, NEW s \in Seq(S), NEW e \in S
  PROVE  /\ (/\ Climbing(s)
             /\ e.body.type \in StateChanges =>
                  \A i \in DOMAIN s : s[i].body.type \in HasNumber => s[i].body.seq < e.body.seq)
            => Climbing(Append(s, e))
         /\ \A n : (Ahead(s, n) /\ (e.body.type \in StateChanges => n < e.body.seq)) => Ahead(Append(s, e), n)
         /\ \A t : (Before(s, t) /\ (e.body.type \in HasNumber => Ahead(t, e.body.seq))) => Before(Append(s, e), t)
<1> DEFINE u == Append(s, e)
           k == Len(s)
<1>1. /\ k \in Nat /\ DOMAIN s = 1 .. k /\ DOMAIN u = 1 .. k + 1 /\ u[k + 1] = e
      /\ \A i \in 1 .. k : u[i] = s[i]
  BY AppendProperties, LenProperties
<1> HIDE DEF u, k
<1>2. \A i \in DOMAIN u : (i \in DOMAIN s /\ u[i] = s[i]) \/ (i = k + 1 /\ u[i] = e)
  BY <1>1
<1>3. ASSUME Climbing(s),
             e.body.type \in StateChanges =>
               \A i \in DOMAIN s : s[i].body.type \in HasNumber => s[i].body.seq < e.body.seq
      PROVE  Climbing(u)
  <2>1. ASSUME NEW i \in DOMAIN u, NEW j \in DOMAIN u, i < j
        PROVE  i \in DOMAIN s /\ u[i] = s[i] /\ ((j \in DOMAIN s /\ u[j] = s[j]) \/ u[j] = e)
    BY <1>1, <2>1
  <2> QED
    BY <1>3, <2>1 DEF Climbing
<1>4. ASSUME NEW n, Ahead(s, n), e.body.type \in StateChanges => n < e.body.seq
      PROVE  Ahead(u, n)
  BY <1>2, <1>4 DEF Ahead
<1>5. ASSUME NEW t, Before(s, t), e.body.type \in HasNumber => Ahead(t, e.body.seq)
      PROVE  Before(u, t)
  BY <1>2, <1>5 DEF Before
<1> QED
  BY <1>3, <1>4, <1>5 DEF u

\* What a player's step does to the channel of the host: nothing, or it adds a packet,
\* and a state change has the number after the host's.
LEMMA HostSends ==
  ASSUME TypeOK, NEW c \in Client, Speaks(c)
  PROVE  \/ up'[Host] = up[Host] /\ (~renumbered' => seq'[Host] = seq[Host])
         \/ \E p \in UpPackets : /\ up'[Host] = Append(up[Host], p) /\ p \in Staying(Host)
                                 /\ p.body.type \in StateChanges =>
                                      p.body.seq = seq[Host] + 1 /\ seq'[Host] = seq[Host] + 1
                                 /\ p.body.type \notin StateChanges => seq'[Host] = seq[Host]
                                 /\ p.body.type = "ConnectionAccepted" => p.body.seq = seq[Host]
<1>1. up \in [Client -> Seq(UpPackets)] /\ Host \in Client
  BY HostAssumption DEF TypeOK, ChannelsOK
<1>2. CASE c # Host \/ Silent
  BY <1>1, <1>2 DEF Speaks, Announces, Silent
<1>3. CASE c = Host /\ ~Silent
  <2>1. PICK p \in UpPackets : Announces(Host, p)
    BY <1>3 DEF Speaks
  <2>2. up'[Host] = Append(up[Host], p)
    BY <1>1, <2>1 DEF Announces
  <2> QED
    BY <2>1, <2>2 DEF Announces
<1> QED
  BY <1>2, <1>3

\* A program takes a packet, or sends one.
LEMMA MovesStrict ==
  ASSUME TypeOK, TypeOK', Present, HostLeads, ~renumbered, ~renumbered', Strict,
         NEW c \in Client, Moves(c), Speaks(c), Learns(c)
  PROVE  Strict'
<1> USE HostAssumption
<1>0. /\ down \in [Client -> Seq(DownPackets)] /\ up \in [Client -> Seq(UpPackets)]
      /\ status \in [Client -> Connected \cup {"out"}] /\ seq \in [Client -> Nat] /\ seq' \in [Client -> Nat]
  BY DEF TypeOK, ChannelsOK, NumbersOK
<1>1. ASSUME NEW d \in Client
      PROVE  /\ Climbing(down'[d]) /\ \A n : Ahead(down[d], n) => Ahead(down'[d], n)
             /\ \A t : Before(down[d], t) => Before(down'[d], t)
  <2>1. Climbing(down[d]) /\ down[d] \in Seq(DownPackets)
    BY <1>0 DEF Strict
  <2>2. down'[d] = down[d] \/ (down[d] # <<>> /\ down'[d] = Tail(down[d]))
    BY <1>0 DEF Moves, Takes
  <2>3. CASE down'[d] = down[d]
    BY <2>1, <2>3
  <2>4. ASSUME down[d] # <<>>
        PROVE  /\ Climbing(Tail(down[d])) /\ \A n : Ahead(down[d], n) => Ahead(Tail(down[d]), n)
               /\ \A t : Before(down[d], t) => Before(Tail(down[d]), t)
    BY <2>1, <2>4, ClimbTail
  <2> QED
    BY <2>2, <2>3, <2>4
<1>2. Climbing(up'[Host]) /\ \A n \in Nat : (n <= seq[Host] /\ Ahead(up[Host], n)) => Ahead(up'[Host], n)
  <2>1. CASE up'[Host] = up[Host]
    BY <2>1 DEF Strict
  <2>2. ASSUME NEW p \in UpPackets, up'[Host] = Append(up[Host], p),
               p.body.type \in StateChanges => p.body.seq = seq[Host] + 1
        PROVE  Climbing(up'[Host]) /\ \A n \in Nat : (n <= seq[Host] /\ Ahead(up[Host], n)) => Ahead(up'[Host], n)
    <3>1. \A i \in DOMAIN up[Host] : up[Host][i].body.type \in HasNumber =>
            up[Host][i].body.seq \in Nat /\ up[Host][i].body.seq <= seq[Host]
      BY LeadsChannels DEF AtMost
    <3>2. \A n \in Nat : n <= seq[Host] => n < seq[Host] + 1
      BY <1>0
    <3>3. Climbing(up[Host]) /\ up[Host] \in Seq(UpPackets)
      BY <1>0 DEF Strict
    <3>4. p.body.type \in StateChanges =>
            \A i \in DOMAIN up[Host] : up[Host][i].body.type \in HasNumber => up[Host][i].body.seq < p.body.seq
      BY <1>0, <2>2, <3>1
    <3>5. Climbing(Append(up[Host], p))
      BY <3>3, <3>4, ClimbAppend
    <3>6. \A n : (Ahead(up[Host], n) /\ (p.body.type \in StateChanges => n < p.body.seq))
                  => Ahead(Append(up[Host], p), n)
      BY <3>3, ClimbAppend
    <3> QED
      BY <2>2, <3>2, <3>5, <3>6
  <2> QED
    BY <2>1, <2>2, HostSends
<1>3. ASSUME NEW d \in Client
      PROVE  Before(down'[d], up'[Host])
  <2>1. ASSUME NEW j \in DOMAIN down[d], down[d][j].body.type \in HasNumber
        PROVE  Ahead(up'[Host], down[d][j].body.seq)
    <3>1. Ahead(up[Host], down[d][j].body.seq)
      BY <2>1 DEF Strict, Before
    <3>2. down[d][j].body.seq \in Nat /\ down[d][j].body.seq <= seq[Host]
      BY <2>1, LeadsChannels DEF AtMost
    <3> QED
      BY <1>2, <3>1, <3>2
  <2>2. Before(down[d], up'[Host])
    BY <2>1 DEF Before
  <2> QED
    BY <1>1, <2>2
<1>4. ASSUME NEW d \in Client \ {Host}, status'[d] \in {"welcomed", "in"}
      PROVE  Ahead(down'[d], seq'[d]) /\ Ahead(up'[Host], seq'[d])
  <2>1. CASE seq'[d] = seq[d] /\ status[d] \in {"welcomed", "in"}
    <3>1. Ahead(down[d], seq[d]) /\ Ahead(up[Host], seq[d])
      BY <1>4, <2>1 DEF Strict
    <3>2. seq[d] \in Nat /\ seq[d] <= seq[Host]
      BY <1>0, <1>4, <2>1 DEF HostLeads
    <3> QED
      BY <1>1, <1>2, <1>4, <2>1, <3>1, <3>2
  <2>2. CASE d = c /\ Takes(c) /\ Body(c).type \in HasNumber /\ seq'[c] = Body(c).seq
    <3>1. down[d] # <<>> /\ down'[d] = Tail(down[d]) /\ Head(down[d]).body.type \in HasNumber
          /\ seq'[d] = Head(down[d]).body.seq
      BY <1>0, <2>2 DEF Takes, Body
    <3>2. Climbing(down[d]) /\ down[d] \in Seq(DownPackets) /\ Before(down[d], up[Host])
      BY <1>0 DEF Strict
    <3>3. Ahead(down'[d], seq'[d]) /\ Ahead(up[Host], seq'[d])
      BY <3>1, <3>2, ClimbTail
    <3>4. 1 \in DOMAIN down[d] /\ down[d][1] = Head(down[d])
      BY <1>0, <3>1, TailIndex
    <3>5. seq'[d] <= seq[Host]
      BY <1>4, <3>1, <3>4, LeadsChannels DEF AtMost
    <3> QED
      BY <1>0, <1>2, <3>3, <3>5
  <2> QED
    <3>1. CASE d # c
      BY <1>4, <2>1, <3>1 DEF Moves, Counts
    <3>2. CASE d = c
      <4>1. \/ /\ seq'[c] = seq[c]
               /\ status'[c] = status[c] \/ status[c] \in {"welcomed", "in"}
            \/ Takes(c) /\ Body(c).type \in HasNumber /\ seq'[c] = Body(c).seq
        BY <1>4, <3>2 DEF Moves, Counts
      <4> QED
        BY <1>4, <2>1, <2>2, <3>2, <4>1
    <3> QED
      BY <3>1, <3>2
<1> QED
  BY <1>1, <1>2, <1>3, <1>4 DEF Strict

\* Who hangs up cuts his channel to the server, and says goodbye.
LEMMA QuitsCuts ==
  ASSUME TypeOK, NEW c \in Client, Quits(c)
  PROVE  /\ \A d \in Client : down'[d] = IF d = c THEN <<>> ELSE down[d]
         /\ \A d \in Client : \A i \in DOMAIN up'[d] :
              \/ i \in DOMAIN up[d] /\ up'[d][i] = up[d][i]
              \/ up'[d][i].body.type = "Disconnect"
         /\ \A d \in Client \ {c} : up'[d] = up[d]
<1> DEFINE goodbye == [route |-> "Disconnect", to |-> c, body |-> [type |-> "Disconnect"]]
<1>0. up \in [Client -> Seq(UpPackets)] /\ down \in [Client -> Seq(DownPackets)]
  BY DEF TypeOK, ChannelsOK
<1>1. goodbye \in UpPackets /\ goodbye.body.type = "Disconnect"
  BY BodyMade DEF UpPackets, Routes
<1>2. \/ up' = [up EXCEPT ![c] = <<>>]
      \/ \E k \in 0 .. Len(up[c]) : up' = [up EXCEPT ![c] = Append(SubSeq(@, 1, k), goodbye)]
  BY DEF Quits
<1> HIDE DEF goodbye
<1>3. \A d \in Client \ {c} : up'[d] = up[d]
  BY <1>0, <1>2
<1>4. ASSUME NEW k \in 0 .. Len(up[c]), up'[c] = Append(SubSeq(up[c], 1, k), goodbye), NEW i \in DOMAIN up'[c]
      PROVE  \/ i \in DOMAIN up[c] /\ up'[c][i] = up[c][i]
             \/ up'[c][i].body.type = "Disconnect"
  <2> DEFINE s == SubSeq(up[c], 1, k)
  <2>1. /\ s \in Seq(UpPackets) /\ Len(s) = k
        /\ \A j \in 1 .. k : s[j] = up[c][j]
    BY <1>0, SubSeqProperties
  <2>2. Len(up[c]) \in Nat /\ DOMAIN up[c] = 1 .. Len(up[c])
    BY <1>0, LenProperties
  <2> HIDE DEF s
  <2>3. Append(s, goodbye)[i] = goodbye \/ (i \in 1 .. k /\ Append(s, goodbye)[i] = s[i])
    <3>1. up'[c] = Append(s, goodbye)
      BY <1>4 DEF s
    <3> QED
      BY <1>1, <1>4, <2>1, <3>1, AppendProperties
  <2> QED
    BY <1>1, <1>4, <2>1, <2>2, <2>3 DEF s
<1>5. \A i \in DOMAIN up'[c] :
        \/ i \in DOMAIN up[c] /\ up'[c][i] = up[c][i]
        \/ up'[c][i].body.type = "Disconnect"
  <2>1. CASE up' = [up EXCEPT ![c] = <<>>]
    BY <1>0, <2>1
  <2>2. ASSUME NEW k \in 0 .. Len(up[c]), up' = [up EXCEPT ![c] = Append(SubSeq(@, 1, k), goodbye)]
        PROVE  up'[c] = Append(SubSeq(up[c], 1, k), goodbye)
    BY <1>0, <2>2
  <2> QED
    BY <1>2, <1>4, <2>1, <2>2
<1>6. \A d \in Client : down'[d] = IF d = c THEN <<>> ELSE down[d]
  BY <1>0 DEF Quits
<1> QED
  BY <1>3, <1>5, <1>6

\* What is left has the same order.
LEMMA QuitsStrict ==
  ASSUME TypeOK, TypeOK', Present, Strict, NEW c \in Client, Quits(c)
  PROVE  Strict'
<1> USE HostAssumption
<1>0. status \in [Client -> Connected \cup {"out"}]
  BY DEF TypeOK, NumbersOK
<1>1. \A d \in Client : down'[d] = down[d] \/ down'[d] = <<>>
  BY QuitsCuts
<1>2. \A s : Climbing(<<>>) /\ Ahead(<<>>, s) /\ Before(<<>>, s)
  BY DEF Climbing, Ahead, Before
<1>3. \A i \in DOMAIN up'[Host] : up'[Host][i].body.type \in HasNumber =>
        i \in DOMAIN up[Host] /\ up'[Host][i] = up[Host][i]
  BY QuitsCuts DEF HasNumber, StateChanges
<1>4. Climbing(up'[Host]) /\ \A n : Ahead(up[Host], n) => Ahead(up'[Host], n)
  BY <1>3 DEF Strict, Climbing, Ahead, HasNumber
<1>5. \A d \in Client : Climbing(down'[d]) /\ Before(down'[d], up'[Host])
  BY <1>1, <1>2, <1>4 DEF Strict, Before
<1>6. ASSUME NEW d \in Client \ {Host}, status'[d] \in {"welcomed", "in"}
      PROVE  Ahead(down'[d], seq'[d]) /\ Ahead(up'[Host], seq'[d])
  <2>1. d # c /\ status[d] = status'[d] /\ seq'[d] = seq[d]
    BY <1>0, <1>6 DEF Quits
  <2>2. Ahead(down[d], seq[d]) /\ Ahead(up[Host], seq[d])
    BY <1>6, <2>1 DEF Strict
  <2> QED
    BY <1>1, <1>2, <1>4, <2>1, <2>2
<1> QED
  BY <1>4, <1>5, <1>6 DEF Strict

\* A new connection adds a packet without number to the host's channel.
LEMMA ConnectAdds ==
  ASSUME TypeOK, NEW c \in Client, Connect(c)
  PROVE  /\ up' = up /\ seq' = seq /\ renumbered' = renumbered
         /\ \A d \in Client : \/ down'[d] = down[d]
                              \/ \E e \in DownPackets : /\ down'[d] = Append(down[d], e)
                                                        /\ e.body.type = "PlayerWantsToJoin" /\ e.n = 0
         /\ \A d \in Client : status'[d] = IF d = c THEN "joining" ELSE status[d]
         /\ c # Host
<1> DEFINE packet == [from |-> c, n |-> 0, body |-> [type |-> "PlayerWantsToJoin"]]
<1>0. status \in [Client -> Connected \cup {"out"}]
  BY DEF TypeOK, NumbersOK
<1>1. packet \in DownPackets /\ packet.body.type = "PlayerWantsToJoin" /\ packet.n = 0
  BY BodyMade DEF DownPackets
<1>2. /\ down' = Deliver({Host}, c, 0, [type |-> "PlayerWantsToJoin"]) /\ up' = up /\ seq' = seq
      /\ status' = [status EXCEPT ![c] = "joining"] /\ renumbered' = renumbered
      /\ c \notin members /\ Host \in members
  BY DEF Connect, OnPlayerConnected
<1>3. \A d \in Client : down'[d] = down[d] \/ down'[d] = Append(down[d], packet)
  BY <1>2 DEF Deliver
<1> HIDE DEF packet
<1> QED
  BY <1>0, <1>1, <1>2, <1>3

\* Hence the order stays.
LEMMA ConnectStrict ==
  ASSUME TypeOK, TypeOK', Strict, NEW c \in Client, Connect(c)
  PROVE  Strict'
<1> USE HostAssumption
<1>0. down \in [Client -> Seq(DownPackets)]
  BY DEF TypeOK, ChannelsOK
<1>1. ASSUME NEW d \in Client
      PROVE  /\ Climbing(down'[d]) /\ Before(down'[d], up[Host])
             /\ \A n : Ahead(down[d], n) => Ahead(down'[d], n)
  <2>1. Climbing(down[d]) /\ Before(down[d], up[Host]) /\ down[d] \in Seq(DownPackets)
    BY <1>0 DEF Strict
  <2>2. ASSUME NEW e \in DownPackets, down'[d] = Append(down[d], e), e.body.type = "PlayerWantsToJoin"
        PROVE  /\ Climbing(down'[d]) /\ Before(down'[d], up[Host])
               /\ \A n : Ahead(down[d], n) => Ahead(down'[d], n)
    <3>1. e.body.type \notin StateChanges /\ e.body.type \notin HasNumber
      BY <2>2 DEF HasNumber, StateChanges
    <3> QED
      BY <2>1, <2>2, <3>1, ClimbAppend
  <2> QED
    BY <2>1, <2>2, ConnectAdds
<1>2. \A d \in Client : status'[d] \in {"welcomed", "in"} => status[d] = status'[d]
  BY ConnectAdds
<1>3. up' = up /\ seq' = seq
  BY ConnectAdds
<1> QED
  BY <1>1, <1>2, <1>3 DEF Strict

\* What the server adds to a channel: nothing, the packet it relays, or a notice of its own.
LEMMA RelayingAdds ==
  ASSUME TypeOK, Apart, Present, NEW c \in Client, Relaying(c)
  PROVE  /\ up[c] # <<>> /\ up' = [up EXCEPT ![c] = Tail(@)] /\ Head(up[c]).body \in Bodies
         /\ c # Host => Head(up[c]).body.type \notin HasNumber
         /\ \A d \in Client :
              \/ down'[d] = down[d]
              \/ \E e \in DownPackets : /\ down'[d] = Append(down[d], e)
                                        /\ e.body = Head(up[c]).body
                                             \/ e.body.type \in {"HostDisconnected", "PlayerHasLeft"}
<1> DEFINE m == Head(up[c]).body
<1>0. relayed \in Nat
  BY DEF TypeOK, ChannelsOK
<1>1. /\ up[c] # <<>> /\ up' = [up EXCEPT ![c] = Tail(@)] /\ m \in Bodies
      /\ c # Host => m.type \notin HasNumber
  BY RelayedHead DEF Sent, Sendable, HasNumber
<1> HIDE DEF m
<1> DEFINE packet(from, n, body) == [from |-> from, n |-> n, body |-> body]
<1>2. \A from \in Client, n \in Nat, body \in Bodies :
        packet(from, n, body) \in DownPackets /\ packet(from, n, body).body = body
  BY DEF DownPackets
<1> HIDE DEF packet
<1>3. ASSUME NEW d \in Client
      PROVE  \/ down'[d] = down[d]
             \/ \E e \in DownPackets : /\ down'[d] = Append(down[d], e)
                                       /\ e.body = m \/ e.body.type \in {"HostDisconnected", "PlayerHasLeft"}
  <2>1. \/ down'[d] = down[d]
        \/ \E from \in Client, n \in Nat, body \in Bodies :
             /\ down'[d] = Append(down[d], packet(from, n, body))
             /\ body = m \/ body.type \in {"HostDisconnected", "PlayerHasLeft"}
    <3>1. CASE PassesOn(c, d)
      BY <3>1 DEF PassesOn, m, packet
    <3>2. CASE Broadcasts(c, d)
      <4>1. relayed + 1 \in Nat
        BY <1>0
      <4> QED
        BY <3>2, <4>1 DEF Broadcasts, m, packet
    <3> QED
      BY <3>1, <3>2, Relayed
  <2> QED
    BY <1>2, <2>1
<1> QED
  BY <1>1, <1>3 DEF m

\* A packet goes from the channel of the host to the end of the others.
LEMMA RelayingStrict ==
  ASSUME TypeOK, TypeOK', Apart, Present, HostLeads, ~renumbered, Strict, NEW c \in Client, Relaying(c)
  PROVE  Strict'
<1> USE HostAssumption
<1> DEFINE m == Head(up[c]).body
<1>0. /\ down \in [Client -> Seq(DownPackets)] /\ up \in [Client -> Seq(UpPackets)]
  BY DEF TypeOK, ChannelsOK
<1>1. /\ up[c] # <<>> /\ up' = [up EXCEPT ![c] = Tail(@)] /\ m \in Bodies
      /\ c # Host => m.type \notin HasNumber
  BY RelayingAdds
<1>2. seq' = seq /\ status' = status
  BY DEF Relaying
<1>3. Climbing(up'[Host]) /\ \A n : Ahead(up[Host], n) => Ahead(up'[Host], n)
  <2>1. up'[Host] = up[Host] \/ (up[Host] # <<>> /\ up'[Host] = Tail(up[Host]))
    BY <1>0, <1>1
  <2>2. Climbing(up[Host]) /\ up[Host] \in Seq(UpPackets)
    BY <1>0 DEF Strict
  <2> QED
    BY <2>1, <2>2, ClimbTail
<1>4. /\ m.type \in HasNumber => Ahead(up'[Host], m.seq)
      /\ m.type \in StateChanges =>
           /\ \A d \in Client : \A i \in DOMAIN down[d] :
                down[d][i].body.type \in HasNumber => down[d][i].body.seq < m.seq
           /\ \A d \in Client \ {Host} : status[d] \in {"welcomed", "in"} => seq[d] < m.seq
  <2> SUFFICES ASSUME m.type \in HasNumber
               PROVE  /\ Ahead(up'[Host], m.seq)
                      /\ m.type \in StateChanges =>
                           /\ \A d \in Client : \A i \in DOMAIN down[d] :
                                down[d][i].body.type \in HasNumber => down[d][i].body.seq < m.seq
                           /\ \A d \in Client \ {Host} : status[d] \in {"welcomed", "in"} => seq[d] < m.seq
    BY DEF HasNumber
  <2>1. /\ c = Host /\ up'[Host] = Tail(up[Host]) /\ up[Host] \in Seq(UpPackets) /\ up[Host] # <<>>
    BY <1>0, <1>1
  <2>2. Climbing(up[Host])
    BY DEF Strict
  <2>3. Ahead(up'[Host], m.seq)
    BY <2>1, <2>2, ClimbTail
  <2>4. \A n : Ahead(up[Host], n) => (m.type \in StateChanges => n < m.seq)
    BY <2>1, ClimbTail
  <2>5. m.type \in StateChanges =>
          \A d \in Client : \A i \in DOMAIN down[d] :
             down[d][i].body.type \in HasNumber => down[d][i].body.seq < m.seq
    BY <2>4 DEF Strict, Before
  <2>6. m.type \in StateChanges =>
          \A d \in Client \ {Host} : status[d] \in {"welcomed", "in"} => seq[d] < m.seq
    BY <2>4 DEF Strict
  <2> QED
    BY <2>3, <2>5, <2>6
<1>5. \A d \in Client : \/ down'[d] = down[d]
                        \/ \E e \in DownPackets : /\ down'[d] = Append(down[d], e)
                                                  /\ e.body = m \/ e.body.type \notin HasNumber
  BY RelayingAdds DEF HasNumber, StateChanges
<1> HIDE DEF m
<1>6. ASSUME NEW d \in Client
      PROVE  /\ Climbing(down'[d]) /\ Before(down'[d], up'[Host])
             /\ (d # Host /\ status[d] \in {"welcomed", "in"}) => Ahead(down'[d], seq[d])
  <2>1. /\ Climbing(down[d]) /\ Before(down[d], up'[Host]) /\ down[d] \in Seq(DownPackets)
        /\ (d # Host /\ status[d] \in {"welcomed", "in"}) => Ahead(down[d], seq[d])
    BY <1>0, <1>3 DEF Strict, Before
  <2>2. ASSUME NEW e \in DownPackets, down'[d] = Append(down[d], e), e.body = m \/ e.body.type \notin HasNumber
        PROVE  /\ Climbing(down'[d]) /\ Before(down'[d], up'[Host])
               /\ (d # Host /\ status[d] \in {"welcomed", "in"}) => Ahead(down'[d], seq[d])
    <3>1. e.body.type \in StateChanges => e.body = m /\ m.type \in StateChanges
      BY <2>2 DEF HasNumber
    <3>2. e.body.type \in HasNumber => Ahead(up'[Host], e.body.seq)
      BY <1>4, <2>2
    <3>3. Climbing(down'[d])
      BY <1>4, <2>1, <2>2, <3>1, ClimbAppend
    <3>4. Before(down'[d], up'[Host])
      BY <2>1, <2>2, <3>2, ClimbAppend
    <3>5. (d # Host /\ status[d] \in {"welcomed", "in"}) => Ahead(down'[d], seq[d])
      BY <1>4, <2>1, <2>2, <3>1, ClimbAppend
    <3> QED
      BY <3>3, <3>4, <3>5
  <2> QED
    BY <1>5, <2>1, <2>2
<1> QED
  BY <1>2, <1>3, <1>6 DEF Strict

\* The order is kept by every step, and holds at the start and always (next lemmas).
LEMMA StrictStep ==
  TypeOK /\ TypeOK' /\ HostAside /\ Apart /\ Present /\ HostLeads /\ StrictInv /\ [Next]_vars => StrictInv'
<1> SUFFICES ASSUME TypeOK, TypeOK', HostAside, Apart, Present, HostLeads, StrictInv, [Next]_vars,
                    ~renumbered'
             PROVE  Strict'
  BY DEF StrictInv
<1>1. CASE Idles
  <2>1. /\ ~renumbered /\ up' = up /\ down' = down /\ status' = status
        /\ \A c \in Client : status[c] \in {"welcomed", "in"} => seq'[c] = seq[c]
    BY <1>1 DEF Idles, Here, Connected
  <2> QED
    BY <2>1 DEF StrictInv, Strict
<1>2. ASSUME NEW c \in Client, Moves(c), Plays(c)
      PROVE  Strict'
  <2>1. ~renumbered
    BY <1>2 DEF Moves
  <2> QED
    BY <1>2, <2>1, PlaysSpeaks, MovesStrict DEF StrictInv
<1>3. ASSUME NEW c \in Client, Quits(c) \/ Connect(c) \/ Relaying(c)
      PROVE  Strict'
  <2>1. ~renumbered
    BY <1>3 DEF Quits, Connect, Relaying, observers
  <2> QED
    BY <1>3, <2>1, QuitsStrict, ConnectStrict, RelayingStrict DEF StrictInv
<1>4. CASE UNCHANGED vars
  BY <1>1, <1>4, Stutters DEF Base
<1>5. CASE ProgramStep
  BY <1>1, <1>2, <1>3, <1>5, ProgramShapes
<1> QED
  BY <1>3, <1>4, <1>5 DEF Next

\* See StrictStep.
LEMMA StrictInit == Init => StrictInv
<1> SUFFICES ASSUME Init PROVE Strict
  BY DEF StrictInv
<1>1. \A c \in Client : up[c] = <<>> /\ down[c] = <<>>
  BY DEF Init, RelayInit
<1> QED
  BY <1>1, HostAssumption DEF Strict, Climbing, Before, Ahead

\* See StrictStep; with everything that is known of the numbers.
Counted == HostLeads /\ AcceptedIsCurrent /\ OrderInv /\ StrictInv

\* It always holds.
LEMMA StrictAlways == Spec => [](Base /\ Counted)
BY StrictInit, StrictStep, OrderInit, OrderStep, PresentAlways, NumbersAlways, PTL DEF Spec, Base, Counted

-----------------------------------------------------------------------------
(* Nobody is locked out.                                                   *)

\* A state change with this number, or a later one, is in the channel.
Has(s, n) == \E i \in DOMAIN s : s[i].body.type \in StateChanges /\ n <= s[i].body.seq
Changing(s) == \E i \in DOMAIN s : s[i].body.type \in StateChanges
SnapshotsFrom(s, n) == \A i \in DOMAIN s : s[i].body.type = "ConnectionAccepted" => n <= s[i].body.seq

\* The host's number reaches everybody: what he sends ends with it, if anything, and a
\* player or a snapshot that is behind it will be followed by a packet that has it.
Reaches(n) ==
  /\ Has(up[Host], n) \/ (~Changing(up[Host]) /\ SnapshotsFrom(up[Host], n))
  /\ \A c \in Client \ {Host} : Here(c) =>
       \/ Has(down[c], n) \/ Has(up[Host], n)
       \/ SnapshotsFrom(down[c], n) /\ (status[c] \in {"welcomed", "in"} => n <= seq[c])
ReachInv == (~renumbered /\ status[Host] = "in") => Reaches(seq[Host])

\* What this means for what is left of a channel...
LEMMA HasTail ==
  ASSUME NEW S, NEW s \in Seq(S), s # <<>>, NEW n
  PROVE  /\ Has(s, n) => Has(Tail(s), n) \/ (Head(s).body.type \in StateChanges /\ n <= Head(s).body.seq)
         /\ Changing(s) <=> Changing(Tail(s)) \/ Head(s).body.type \in StateChanges
         /\ SnapshotsFrom(s, n) => /\ SnapshotsFrom(Tail(s), n)
                                   /\ Head(s).body.type = "ConnectionAccepted" => n <= Head(s).body.seq
<1> DEFINE t == Tail(s)
           k == Len(s)
<1>1. /\ k \in Nat /\ k > 0 /\ DOMAIN s = 1 .. k /\ Head(s) = s[1] /\ DOMAIN t = 1 .. k - 1
      /\ \A i \in DOMAIN t : i + 1 \in DOMAIN s /\ t[i] = s[i + 1]
  BY TailIndex
<1> HIDE DEF t, k
<1>2. 1 \in DOMAIN s /\ \A i \in DOMAIN t : \E j \in DOMAIN s : t[i] = s[j]
  BY <1>1
<1>3. \A i \in DOMAIN s : s[i] = Head(s) \/ \E j \in DOMAIN t : t[j] = s[i]
  <2> SUFFICES ASSUME NEW i \in DOMAIN s, i # 1
               PROVE  \E j \in DOMAIN t : t[j] = s[i]
    BY <1>1
  <2>1. i - 1 \in DOMAIN t /\ t[i - 1] = s[(i - 1) + 1] /\ (i - 1) + 1 = i
    BY <1>1
  <2> QED
    BY <2>1
<1>4. Has(s, n) => Has(t, n) \/ (Head(s).body.type \in StateChanges /\ n <= Head(s).body.seq)
  BY <1>3 DEF Has
<1>5. Changing(s) <=> Changing(t) \/ Head(s).body.type \in StateChanges
  BY <1>1, <1>2, <1>3 DEF Changing
<1>6. SnapshotsFrom(s, n) => /\ SnapshotsFrom(t, n)
                             /\ Head(s).body.type = "ConnectionAccepted" => n <= Head(s).body.seq
  BY <1>1, <1>2 DEF SnapshotsFrom
<1> QED
  BY <1>4, <1>5, <1>6 DEF t

\* ... and for what is added to it.
LEMMA HasAppend ==
  ASSUME NEW S, NEW s \in Seq(S), NEW e \in S, NEW n
  PROVE  /\ Has(s, n) => Has(Append(s, e), n)
         /\ (e.body.type \in StateChanges /\ n <= e.body.seq) => Has(Append(s, e), n)
         /\ Changing(Append(s, e)) <=> Changing(s) \/ e.body.type \in StateChanges
         /\ (SnapshotsFrom(s, n) /\ (e.body.type = "ConnectionAccepted" => n <= e.body.seq))
              => SnapshotsFrom(Append(s, e), n)
<1> DEFINE u == Append(s, e)
           k == Len(s)
<1>1. /\ k \in Nat /\ DOMAIN s = 1 .. k /\ DOMAIN u = 1 .. k + 1 /\ u[k + 1] = e
      /\ \A i \in 1 .. k : u[i] = s[i]
  BY AppendProperties, LenProperties
<1> HIDE DEF u, k
<1>2. /\ \A i \in DOMAIN u : (i \in DOMAIN s /\ u[i] = s[i]) \/ u[i] = e
      /\ \A i \in DOMAIN s : i \in DOMAIN u /\ u[i] = s[i]
      /\ k + 1 \in DOMAIN u
  BY <1>1
<1> QED
  BY <1>1, <1>2 DEF Has, Changing, SnapshotsFrom, u

\* Where numbers grow, what follows a number is not below it.
LEMMA RisingFrom ==
  ASSUME NEW s, NEW n \in Nat, NEW m \in Nat, n <= m, AtLeast(s, m),
         \A i \in DOMAIN s : s[i].body.type \in HasNumber => s[i].body.seq \in Nat
  PROVE  SnapshotsFrom(s, n) /\ (Changing(s) => Has(s, n))
BY DEF AtLeast, HasNumber, SnapshotsFrom, Changing, Has

\* Who takes a packet takes it from his own channel.
LEMMA TakesShorter ==
  ASSUME TypeOK, NEW c \in Client, Takes(c)
  PROVE  /\ down[c] # <<>> /\ down'[c] = Tail(down[c]) /\ down' # down
         /\ \A d \in Client \ {c} : down'[d] = down[d]
<1>1. down \in [Client -> Seq(DownPackets)]
  BY DEF TypeOK, ChannelsOK
<1>2. down[c] # <<>> /\ down' = [down EXCEPT ![c] = Tail(@)]
  BY DEF Takes
<1>3. Len(Tail(down[c])) # Len(down[c])
  BY <1>1, <1>2, TailIndex
<1> QED
  BY <1>1, <1>2, <1>3

\* The others notice nothing.
LEMMA MovesAlone ==
  ASSUME TypeOK, NEW c \in Client, Moves(c), NEW d \in Client, d # c
  PROVE  down'[d] = down[d] /\ status'[d] = status[d] /\ seq'[d] = seq[d]
BY TakesShorter DEF Moves, Counts

\* A program takes a packet, or sends one.
LEMMA MovesReach ==
  ASSUME TypeOK, TypeOK', Apart, Present, HostLeads, ~renumbered, ~renumbered', Ordered, ReachInv,
         NEW c \in Client, Moves(c), Speaks(c), Learns(c), Sees(c)
  PROVE  ReachInv'
<1> USE HostAssumption
<1>0. /\ down \in [Client -> Seq(DownPackets)] /\ up \in [Client -> Seq(UpPackets)]
      /\ status \in [Client -> Connected \cup {"out"}] /\ seq \in [Client -> Nat] /\ seq' \in [Client -> Nat]
  BY DEF TypeOK, ChannelsOK, NumbersOK
<1> SUFFICES ASSUME status'[Host] = "in"
             PROVE  Reaches(seq[Host])'
  BY DEF ReachInv
<1>1. Reaches(seq[Host])
  <2>1. status[Host] = "in"
    BY <1>0 DEF Moves, Here, Present, Connected
  <2> QED
    BY <2>1 DEF ReachInv
<1> DEFINE n == seq[Host]
\* He sends a number, and everybody will get it...
<1>2. CASE Has(up'[Host], seq'[Host])
  BY <1>2 DEF Reaches
\* ... or his number stays, and with it what was on its way.
<1>3. CASE ~Has(up'[Host], seq'[Host])
  <2>1. /\ seq'[Host] = n
        /\ Has(up[Host], n) => Has(up'[Host], n)
        /\ (~Changing(up[Host]) /\ SnapshotsFrom(up[Host], n)) => (~Changing(up'[Host]) /\ SnapshotsFrom(up'[Host], n))
    <3>1. CASE up'[Host] = up[Host] /\ seq'[Host] = n
      BY <3>1
    <3>2. ASSUME NEW p \in UpPackets, up'[Host] = Append(up[Host], p),
                 p.body.type \in StateChanges => p.body.seq = n + 1 /\ seq'[Host] = n + 1,
                 p.body.type \notin StateChanges => seq'[Host] = n,
                 p.body.type = "ConnectionAccepted" => p.body.seq = n
          PROVE  /\ seq'[Host] = n
                 /\ Has(up[Host], n) => Has(up'[Host], n)
                 /\ (~Changing(up[Host]) /\ SnapshotsFrom(up[Host], n))
                      => (~Changing(up'[Host]) /\ SnapshotsFrom(up'[Host], n))
      <4>1. p.body.type \notin StateChanges
        <5> SUFFICES ASSUME p.body.type \in StateChanges
                     PROVE  FALSE
          OBVIOUS
        <5>1. seq'[Host] <= p.body.seq
          BY <1>0, <3>2
        <5>2. Has(Append(up[Host], p), seq'[Host])
          BY <1>0, <5>1, HasAppend
        <5> QED
          BY <1>3, <3>2, <5>2
      <4>2. n <= n
        BY <1>0
      <4> QED
        BY <1>0, <3>2, <4>1, <4>2, HasAppend
    <3> QED
      BY <3>1, <3>2, HostSends
  <2>2. ASSUME NEW d \in Client \ {Host}, Here(d)'
        PROVE  \/ Has(down'[d], n) \/ Has(up'[Host], n)
               \/ SnapshotsFrom(down'[d], n) /\ (status'[d] \in {"welcomed", "in"} => n <= seq'[d])
    <3>1. /\ Here(d)
          /\ \/ Has(down[d], n) \/ Has(up[Host], n)
             \/ SnapshotsFrom(down[d], n) /\ (status[d] \in {"welcomed", "in"} => n <= seq[d])
      BY <1>1, <2>2 DEF Reaches, Moves, Here
    <3>2. CASE Has(up[Host], n)
      BY <2>1, <3>2
    <3>3. CASE d # c
      BY <2>1, <3>1, <3>3, MovesAlone
    <3>4. CASE d = c /\ ~Has(up[Host], n) /\ down' = down
      <4>1. seq'[d] = seq[d] /\ status'[d] = status[d]
        BY <1>0, <3>4, TakesShorter DEF Learns, Sees, Rests, Hears, Begins
      <4> QED
        BY <3>1, <3>4, <4>1
    <3>5. CASE d = c /\ ~Has(up[Host], n) /\ Takes(c)
      <4> DEFINE b == Head(down[d]).body
      <4>1. down[d] # <<>> /\ down'[d] = Tail(down[d]) /\ down[d] \in Seq(DownPackets) /\ b = Body(c)
        BY <1>0, <3>5 DEF Takes, Body
      <4>2. b.type \in HasNumber => seq'[d] = b.seq /\ b.seq \in Nat /\ AtLeast(Tail(down[d]), b.seq)
        <5>1. down' # down
          BY <3>5, TakesShorter DEF Takes
        <5>2. b.type \in HasNumber => seq'[d] = b.seq
          BY <2>2, <3>5, <4>1, <5>1 DEF Learns
        <5>3. b.type \in HasNumber => AtLeast(Tail(down[d]), b.seq)
          BY <4>1, NumbersTail DEF Ordered
        <5> QED
          BY <1>0, <5>2, <5>3
      <4>3. b.type \notin HasNumber => seq'[d] = seq[d] /\ b.type \notin StateChanges
        BY <2>2, <3>5, <4>1 DEF Learns, HasNumber
      <4>4. b.type # "ConnectionAccepted" =>
              (status'[d] \in {"welcomed", "in"} => status[d] \in {"welcomed", "in"})
        BY <2>2, <3>5, <4>1 DEF Sees, Rests, Hears, Begins
      <4>5. \A i \in DOMAIN Tail(down[d]) : Tail(down[d])[i].body.type \in HasNumber => Tail(down[d])[i].body.seq \in Nat
        <5>1. \A i \in DOMAIN down[d] : down[d][i].body.type \in HasNumber => down[d][i].body.seq \in Nat
          BY LeadsChannels
        <5> QED
          BY <4>1, <5>1, NumbersTail
      <4>6. n \in Nat
        BY <1>0
      <4> HIDE DEF b
      <4>7. CASE Has(Tail(down[d]), n)
        BY <4>1, <4>7
      <4>8. CASE b.type \in HasNumber /\ n <= b.seq
        <5>1. SnapshotsFrom(Tail(down[d]), n)
          BY <4>2, <4>5, <4>6, <4>8, RisingFrom
        <5> QED
          BY <4>1, <4>2, <4>8, <5>1
      <4>9. CASE ~Has(Tail(down[d]), n) /\ ~(b.type \in HasNumber /\ n <= b.seq)
        <5>1. /\ Has(down[d], n) => b.type \in StateChanges /\ n <= b.seq
              /\ SnapshotsFrom(down[d], n) => /\ SnapshotsFrom(Tail(down[d]), n)
                                              /\ b.type = "ConnectionAccepted" => n <= b.seq
          BY <4>1, <4>9, HasTail DEF b
        <5>2. SnapshotsFrom(down[d], n) /\ (status[d] \in {"welcomed", "in"} => n <= seq[d])
          BY <3>1, <3>5, <4>9, <5>1 DEF HasNumber
        <5>3. b.type # "ConnectionAccepted"
          BY <4>9, <5>1, <5>2 DEF HasNumber
        <5>4. CASE b.type \notin HasNumber
          BY <4>1, <4>3, <4>4, <5>1, <5>2, <5>3, <5>4
        <5>5. CASE b.type \in StateChanges
          <6>1. status'[d] \in {"welcomed", "in"} => seq[d] <= b.seq
            BY <2>2, <4>1, <4>4, <5>3, <5>5, NumbersTail DEF Ordered, HasNumber, b
          <6>2. status'[d] \in {"welcomed", "in"} => n <= b.seq
            BY <1>0, <2>2, <4>2, <4>4, <5>2, <5>3, <5>5, <6>1 DEF HasNumber
          <6>3. ~(status'[d] \in {"welcomed", "in"})
            BY <4>9, <5>5, <6>2 DEF HasNumber
          <6> QED
            BY <4>1, <5>1, <5>2, <6>3
        <5> QED
          BY <5>3, <5>4, <5>5 DEF HasNumber
      <4> QED
        BY <4>7, <4>8, <4>9
    <3> QED
      BY <3>2, <3>3, <3>4, <3>5 DEF Moves
  <2>3. Has(up'[Host], n) \/ (~Changing(up'[Host]) /\ SnapshotsFrom(up'[Host], n))
    BY <1>1, <2>1 DEF Reaches
  <2> QED
    BY <2>1, <2>2, <2>3 DEF Reaches
<1> QED
  BY <1>2, <1>3

\* Who leaves or comes owes nobody anything.
LEMMA ComesReach ==
  ASSUME TypeOK, TypeOK', Apart, Present, ReachInv, ~renumbered,
         NEW c \in Client, Quits(c) \/ Connect(c)
  PROVE  ReachInv'
<1> USE HostAssumption
<1>0. /\ down \in [Client -> Seq(DownPackets)] /\ status \in [Client -> Connected \cup {"out"}]
  BY DEF TypeOK, ChannelsOK, NumbersOK
<1> SUFFICES ASSUME status'[Host] = "in"
             PROVE  Reaches(seq[Host])'
  BY DEF ReachInv
<1>1. CASE Quits(c)
  <2>1. /\ c # Host /\ status[Host] = "in" /\ seq'[Host] = seq[Host]
        /\ \A d \in Client : Here(d)' => d # c /\ Here(d) /\ status'[d] = status[d] /\ seq'[d] = seq[d]
    BY <1>0, <1>1 DEF Quits, Here, Connected
  <2>2. up'[Host] = up[Host] /\ \A d \in Client \ {c} : down'[d] = down[d]
    BY <1>1, <2>1, QuitsCuts
  <2>3. Reaches(seq[Host])
    BY <2>1 DEF ReachInv
  <2> QED
    BY <2>1, <2>2, <2>3 DEF Reaches
<1>2. CASE Connect(c)
  <2>1. /\ up' = up /\ seq' = seq /\ c # Host
        /\ \A d \in Client : status'[d] = IF d = c THEN "joining" ELSE status[d]
        /\ \A d \in Client : \/ down'[d] = down[d]
                             \/ \E e \in DownPackets : /\ down'[d] = Append(down[d], e)
                                                       /\ e.body.type = "PlayerWantsToJoin" /\ e.n = 0
    BY <1>2, ConnectAdds
  <2>2. status[Host] = "in" /\ Reaches(seq[Host])
    BY <2>1 DEF ReachInv
  <2>3. down[c] = <<>>
    BY <1>2 DEF Connect, Apart, Gone
  <2>4. ASSUME NEW d \in Client
        PROVE  \A n : /\ SnapshotsFrom(down[d], n) => SnapshotsFrom(down'[d], n)
                      /\ Has(down[d], n) => Has(down'[d], n)
    <3>1. down[d] \in Seq(DownPackets)
      BY <1>0
    <3>2. ASSUME NEW e \in DownPackets, down'[d] = Append(down[d], e), e.body.type = "PlayerWantsToJoin", NEW n
          PROVE  /\ SnapshotsFrom(down[d], n) => SnapshotsFrom(down'[d], n)
                 /\ Has(down[d], n) => Has(down'[d], n)
      BY <3>1, <3>2, HasAppend
    <3> QED
      BY <2>1, <3>2
  <2>5. SnapshotsFrom(down'[c], seq[Host])
    <3>1. SnapshotsFrom(<<>>, seq[Host])
      BY DEF SnapshotsFrom
    <3> QED
      BY <2>3, <2>4, <3>1
  <2>6. ASSUME NEW d \in Client \ {Host}, Here(d)'
        PROVE  \/ Has(down'[d], seq[Host]) \/ Has(up[Host], seq[Host])
               \/ SnapshotsFrom(down'[d], seq[Host]) /\ (status'[d] \in {"welcomed", "in"} => seq[Host] <= seq[d])
    <3>1. CASE d = c
      BY <2>1, <2>5, <3>1
    <3>2. CASE d # c
      <4>1. Here(d) /\ status'[d] = status[d]
        BY <2>1, <2>6, <3>2 DEF Here
      <4> QED
        BY <2>2, <2>4, <4>1 DEF Reaches
    <3> QED
      BY <3>1, <3>2
  <2> QED
    BY <2>1, <2>2, <2>6 DEF Reaches
<1> QED
  BY <1>1, <1>2

\* The server passes a number on to all who are here.
LEMMA RelayingReach ==
  ASSUME TypeOK, TypeOK', Apart, Present, HostLeads, Ordered, ReachInv, ~renumbered,
         NEW c \in Client, Relaying(c)
  PROVE  ReachInv'
<1> USE HostAssumption
<1> DEFINE n == seq[Host]
           m == Head(up[c]).body
<1>0. /\ down \in [Client -> Seq(DownPackets)] /\ up \in [Client -> Seq(UpPackets)] /\ n \in Nat
  BY DEF TypeOK, ChannelsOK, NumbersOK
<1>1. /\ up[c] # <<>> /\ up' = [up EXCEPT ![c] = Tail(@)]
      /\ c # Host => m.type \notin HasNumber
  BY RelayingAdds
<1>2. seq' = seq /\ status' = status
  BY DEF Relaying
<1> SUFFICES ASSUME status[Host] = "in"
             PROVE  Reaches(n)'
  BY <1>2 DEF ReachInv
<1>3. Reaches(n)
  BY DEF ReachInv
<1>4. (Here(c) /\ m.type \in StateChanges) => \A d \in Client : Broadcasts(c, d)
  BY Relayed DEF PassesOn
<1>5. ASSUME NEW d \in Client
      PROVE  /\ Has(down[d], n) => Has(down'[d], n)
             /\ (SnapshotsFrom(down[d], n) /\ (m.type = "ConnectionAccepted" => n <= m.seq)) => SnapshotsFrom(down'[d], n)
  <2>1. down[d] \in Seq(DownPackets)
    BY <1>0
  <2>2. ASSUME NEW e \in DownPackets, down'[d] = Append(down[d], e),
               e.body = m \/ e.body.type \in {"HostDisconnected", "PlayerHasLeft"}
        PROVE  /\ Has(down[d], n) => Has(down'[d], n)
               /\ (SnapshotsFrom(down[d], n) /\ (m.type = "ConnectionAccepted" => n <= m.seq))
                    => SnapshotsFrom(down'[d], n)
    BY <2>1, <2>2, HasAppend
  <2> QED
    BY <2>2, RelayingAdds
<1>6. CASE c # Host
  <2>1. up'[Host] = up[Host] /\ m.type # "ConnectionAccepted"
    BY <1>0, <1>1, <1>6 DEF HasNumber
  <2> QED
    BY <1>2, <1>3, <1>5, <2>1 DEF Reaches, Here
<1>7. CASE c = Host
  <2>1. up'[Host] = Tail(up[Host]) /\ up[Host] \in Seq(UpPackets) /\ up[Host] # <<>> /\ Here(Host)
    BY <1>0, <1>1, <1>7 DEF Here, Connected
  <2>2. m.type \in HasNumber => m.seq \in Nat /\ AtLeast(up'[Host], m.seq)
    <3>1. 1 \in DOMAIN up[Host] /\ up[Host][1] = Head(up[Host])
      BY <2>1, TailIndex
    <3>2. m.type \in HasNumber => m.seq \in Nat
      BY <1>7, <3>1, LeadsChannels
    <3> QED
      BY <1>7, <2>1, <3>2, NumbersTail DEF Ordered
  <2>3. \A i \in DOMAIN up'[Host] : up'[Host][i].body.type \in HasNumber => up'[Host][i].body.seq \in Nat
    <3>1. \A i \in DOMAIN up[Host] : up[Host][i].body.type \in HasNumber => up[Host][i].body.seq \in Nat
      BY LeadsChannels
    <3> QED
      BY <2>1, <3>1, NumbersTail
  <2> HIDE DEF m, n
  \* The number itself goes to all...
  <2>4. CASE m.type \in StateChanges /\ n <= m.seq
    <3>1. SnapshotsFrom(up'[Host], n) /\ (Changing(up'[Host]) => Has(up'[Host], n))
      BY <1>0, <2>2, <2>3, <2>4, RisingFrom DEF HasNumber
    <3>2. ASSUME NEW d \in Client \ {Host}, Here(d)
          PROVE  Has(down'[d], n)
      <4>1. down[d] \in Seq(DownPackets) /\ Broadcasts(Host, d) /\ m.type # "Disconnect"
        BY <1>0, <1>4, <1>7, <2>1, <2>4 DEF StateChanges
      <4>2. \E e \in DownPackets : down'[d] = Append(down[d], e) /\ e.body = m
        <5> DEFINE packet(from, k, body) == [from |-> from, n |-> k, body |-> body]
        <5>1. \A from \in Client, k \in Nat, body \in Bodies :
                packet(from, k, body) \in DownPackets /\ packet(from, k, body).body = body
          BY DEF DownPackets
        <5>2. relayed + 1 \in Nat
          BY DEF TypeOK, ChannelsOK
        <5>3. \E from \in Client, body \in Bodies :
                down'[d] = Append(down[d], packet(from, relayed + 1, body)) /\ body = m
          BY <1>7, <3>2, <4>1 DEF Broadcasts, m
        <5> HIDE DEF packet
        <5> QED
          BY <5>1, <5>2, <5>3
      <4> QED
        BY <2>4, <4>1, <4>2, HasAppend
    <3> QED
      BY <1>2, <3>1, <3>2 DEF Reaches, Here, n
  \* ... anything else leaves it on its way.
  <2>5. CASE ~(m.type \in StateChanges /\ n <= m.seq)
    <3>1. /\ Has(up[Host], n) => Has(up'[Host], n)
          /\ (~Changing(up[Host]) /\ SnapshotsFrom(up[Host], n)) =>
               /\ ~Changing(up'[Host]) /\ SnapshotsFrom(up'[Host], n)
               /\ m.type = "ConnectionAccepted" => n <= m.seq
      BY <1>7, <2>1, <2>5, HasTail DEF m
    <3>2. ASSUME NEW d \in Client \ {Host}, Here(d)
          PROVE  \/ Has(down'[d], n) \/ Has(up'[Host], n)
                 \/ SnapshotsFrom(down'[d], n) /\ (status[d] \in {"welcomed", "in"} => n <= seq[d])
      BY <1>3, <1>5, <3>1, <3>2 DEF Reaches
    <3>3. Has(up'[Host], n) \/ (~Changing(up'[Host]) /\ SnapshotsFrom(up'[Host], n))
      BY <1>3, <3>1 DEF Reaches
    <3> QED
      BY <1>2, <3>2, <3>3 DEF Reaches, Here, n
  <2> QED
    BY <2>4, <2>5
<1> QED
  BY <1>6, <1>7

\* Every step keeps it.
LEMMA ReachStep == Base /\ Base' /\ Counted /\ ReachInv /\ [Next]_vars => ReachInv'
<1> SUFFICES ASSUME Base, Base', Counted, ReachInv, [Next]_vars, ~renumbered'
             PROVE  ReachInv'
  BY DEF ReachInv
<1>1. CASE Idles
  <2>1. /\ ~renumbered /\ up' = up /\ down' = down /\ status' = status
        /\ \A c \in Client : status[c] \in {"welcomed", "in"} => seq'[c] = seq[c]
    BY <1>1 DEF Idles, Here, Connected
  <2>2. status[Host] = "in" => seq'[Host] = seq[Host]
    BY <2>1, HostAssumption
  <2> QED
    BY <2>1, <2>2 DEF ReachInv, Reaches, Here
<1>2. ASSUME NEW c \in Client, Moves(c), Plays(c)
      PROVE  ReachInv'
  <2>1. ~renumbered
    BY <1>2 DEF Moves
  <2>2. Speaks(c) /\ Learns(c) /\ Sees(c)
    BY <1>2, PlaysSpeaks, PlaysSees DEF Base
  <2> QED
    BY <1>2, <2>1, <2>2, MovesReach DEF Base, Counted, OrderInv
<1>3. ASSUME NEW c \in Client, Quits(c) \/ Connect(c) \/ Relaying(c)
      PROVE  ReachInv'
  <2>1. ~renumbered
    BY <1>3 DEF Quits, Connect, Relaying, observers
  <2> QED
    BY <1>3, <2>1, ComesReach, RelayingReach DEF Base, Counted, OrderInv
<1>4. CASE UNCHANGED vars
  BY <1>1, <1>4, Stutters DEF Base
<1>5. CASE ProgramStep
  BY <1>1, <1>2, <1>3, <1>5, ProgramShapes DEF Base
<1> QED
  BY <1>3, <1>4, <1>5 DEF Next

\* It holds at the start.
LEMMA ReachInit == Init => ReachInv
<1> SUFFICES ASSUME Init PROVE Reaches(seq[Host])
  BY DEF ReachInv
<1>1. \A c \in Client : up[c] = <<>> /\ down[c] = <<>>
  BY DEF Init, RelayInit
<1>2. \A c \in Client \ {Host} : ~Here(c)
  BY DEF Init, Here, Connected
<1> QED
  BY <1>1, <1>2, HostAssumption DEF Reaches, Changing, SnapshotsFrom

\* It always holds.
LEMMA ReachAlways == Spec => []ReachInv
BY ReachInit, ReachStep, StrictAlways, PTL DEF Spec

\* Once nothing is on its way, no player is behind the host, so that nobody has all his
\* requests rejected from then on; whoever joined, left, asked or was asked
\* (StateChangeRequestMessage.Handle rejects what is older than the host's number).
THEOREM NobodyIsLockedOut == Spec => []NobodyLockedOut
<1>1. Base /\ ReachInv => NobodyLockedOut
  <2> SUFFICES ASSUME Base, ReachInv, ~renumbered, Host \in members,
                      \A c \in Client : up[c] = <<>> /\ down[c] = <<>> /\ loopback[c] = <<>>,
                      NEW c \in Client, status[c] \in {"welcomed", "in"}
               PROVE  seq[Host] <= seq[c]
    BY DEF NobodyLockedOut
  <2> USE HostAssumption
  <2>1. status[Host] = "in"
    <3>1. status[Host] # "out"
      BY DEF Base, Apart, Gone, HungUp
    <3> QED
      BY <3>1 DEF Base, Present
  <2>2. ~Has(down[c], seq[Host]) /\ ~Has(up[Host], seq[Host])
    BY DEF Has
  <2>3. CASE c # Host
    BY <2>1, <2>2, <2>3 DEF ReachInv, Reaches, Here, Connected
  <2>4. CASE c = Host
    BY <2>4 DEF Base, TypeOK, NumbersOK
  <2> QED
    BY <2>3, <2>4
<1> QED
  BY <1>1, ReachAlways, StrictAlways, PTL

-----------------------------------------------------------------------------
(* Requests on their way were made with numbers that nothing will undercut. *)

\* Where bodies in transit are.
LEMMA TransitMeaning ==
  /\ \A c \in Client : \A i \in DOMAIN up[c] : up[c][i].body \in InTransit
  /\ \A c \in Client : \A i \in DOMAIN down[c] : down[c][i].body \in InTransit
BY DEF InTransit, Carried

\* What a player puts on its way is what he announces.
LEMMA MovesTransit ==
  ASSUME TypeOK, NEW c \in Client, Moves(c), Speaks(c), NEW m, m \in InTransit'
  PROVE  m \in InTransit \/ \E p \in UpPackets : Announces(c, p) /\ m = p.body
<1>0. /\ down \in [Client -> Seq(DownPackets)] /\ up \in [Client -> Seq(UpPackets)]
  BY DEF TypeOK, ChannelsOK
<1>1. PICK d \in Client : \/ \E i \in DOMAIN up'[d] : m = up'[d][i].body
                          \/ \E i \in DOMAIN down'[d] : m = down'[d][i].body
  BY DEF InTransit, Carried
<1>2. ASSUME NEW i \in DOMAIN down'[d]
      PROVE  \E j \in DOMAIN down[d] : down'[d][i] = down[d][j]
  <2>1. down'[d] = down[d] \/ (down[d] # <<>> /\ down'[d] = Tail(down[d]))
    BY <1>0 DEF Moves, Takes
  <2>2. down[d] \in Seq(DownPackets)
    BY <1>0
  <2>3. down[d] # <<>> => \A k \in DOMAIN Tail(down[d]) : \E j \in DOMAIN down[d] : Tail(down[d])[k] = down[d][j]
    BY <2>2, NumbersTail
  <2>4. CASE down'[d] = down[d]
    BY <1>2, <2>4
  <2>5. CASE down[d] # <<>> /\ down'[d] = Tail(down[d])
    BY <1>2, <2>3, <2>5
  <2> QED
    BY <2>1, <2>4, <2>5
<1>3. CASE up'[d] = up[d]
  BY <1>1, <1>2, <1>3, TransitMeaning
<1>4. ASSUME NEW p \in UpPackets, Announces(c, p), d = c
      PROVE  m \in InTransit \/ m = p.body
  <2>1. up'[d] = Append(up[d], p)
    BY <1>0, <1>4 DEF Announces
  <2>2. \A i \in DOMAIN up'[d] : (i \in DOMAIN up[d] /\ up'[d][i] = up[d][i]) \/ up'[d][i] = p
    BY <1>0, <2>1, AppendIndex
  <2> QED
    BY <1>1, <1>2, <2>2, TransitMeaning
<1>5. up'[d] = up[d] \/ (d = c /\ \E p \in UpPackets : Announces(c, p))
  BY <1>0 DEF Speaks, Silent, Announces
<1> QED
  BY <1>3, <1>4, <1>5

\* What is said by or about those who come and go.
Notices == {"Disconnect", "PlayerWantsToJoin", "HostDisconnected", "PlayerHasLeft"}

\* The other steps put notices on their way, and nothing else.
LEMMA OthersTransit ==
  ASSUME TypeOK, Apart, Present, NEW c \in Client, Quits(c) \/ Connect(c) \/ Relaying(c),
         NEW m, m \in InTransit'
  PROVE  m \in InTransit \/ m.type \in Notices
<1>0. /\ down \in [Client -> Seq(DownPackets)] /\ up \in [Client -> Seq(UpPackets)]
  BY DEF TypeOK, ChannelsOK
<1>1. PICK d \in Client : \/ \E i \in DOMAIN up'[d] : m = up'[d][i].body
                          \/ \E i \in DOMAIN down'[d] : m = down'[d][i].body
  BY DEF InTransit, Carried
<1>2. ASSUME NEW e \in DownPackets, down'[d] = Append(down[d], e),
             e.body \in InTransit \/ e.body.type \in Notices, NEW i \in DOMAIN down'[d]
      PROVE  down'[d][i].body \in InTransit \/ down'[d][i].body.type \in Notices
  <2>1. (i \in DOMAIN down[d] /\ down'[d][i] = down[d][i]) \/ down'[d][i] = e
    BY <1>0, <1>2, AppendIndex
  <2> QED
    BY <1>2, <2>1, TransitMeaning
<1>3. CASE Quits(c)
  <2>1. /\ down'[d] = <<>> \/ down'[d] = down[d]
        /\ \A i \in DOMAIN up'[d] :
             \/ i \in DOMAIN up[d] /\ up'[d][i] = up[d][i]
             \/ up'[d][i].body.type = "Disconnect"
    BY <1>3, QuitsCuts
  <2> QED
    BY <1>1, <2>1, TransitMeaning DEF Notices
<1>4. CASE Connect(c)
  <2>1. up' = up /\ (down'[d] = down[d] \/ \E e \in DownPackets : /\ down'[d] = Append(down[d], e)
                                                                 /\ e.body.type = "PlayerWantsToJoin")
    BY <1>4, ConnectAdds
  <2> QED
    BY <1>1, <1>2, <2>1, TransitMeaning DEF Notices
<1>5. CASE Relaying(c)
  <2>1. /\ up[c] # <<>> /\ up' = [up EXCEPT ![c] = Tail(@)]
        /\ \/ down'[d] = down[d]
           \/ \E e \in DownPackets : /\ down'[d] = Append(down[d], e)
                                     /\ e.body = Head(up[c]).body \/ e.body.type \in {"HostDisconnected", "PlayerHasLeft"}
    BY <1>5, RelayingAdds
  <2>2. Head(up[c]).body \in InTransit
    <3>1. 1 \in DOMAIN up[c] /\ Head(up[c]) = up[c][1]
      BY <1>0, <2>1, TailIndex
    <3> QED
      BY <3>1, TransitMeaning
  <2>3. \A i \in DOMAIN up'[d] : \E j \in DOMAIN up[d] : up'[d][i] = up[d][j]
    <3>1. up'[d] = up[d] \/ (d = c /\ up'[d] = Tail(up[c]))
      BY <1>0, <2>1
    <3>2. \A k \in DOMAIN Tail(up[c]) : \E j \in DOMAIN up[c] : Tail(up[c])[k] = up[c][j]
      BY <1>0, <2>1, NumbersTail
    <3>3. CASE up'[d] = up[d]
      BY <3>3
    <3>4. CASE d = c /\ up'[d] = Tail(up[c])
      BY <3>2, <3>4
    <3> QED
      BY <3>1, <3>3, <3>4
  <2>4. \A i \in DOMAIN down'[d] : down'[d][i].body \in InTransit \/ down'[d][i].body.type \in Notices
    BY <1>2, <2>1, <2>2, TransitMeaning DEF Notices
  <2> QED
    BY <1>1, <2>3, <2>4, TransitMeaning
<1> QED
  BY <1>3, <1>4, <1>5

\* A request that a player made in this session, not answered, or accepted and on its way
\* to the players: what comes after it has its number or a greater one, a state change
\* that the server has not relayed a greater one, and its author has seen its number, if
\* he is still here.
Pending(r) ==
  MadeInSession(r) /\ \E m \in InTransit : m.type \in {"Request", "ChangeAccepted"} /\ m.req = r
Recent(r) ==
  /\ r.seq \in Nat /\ r.sender \in Client \ {Host} /\ r.seq <= seq[Host]
  /\ Ahead(up[Host], r.seq) /\ AtLeast(up[Host], r.seq) /\ AtLeast(down[r.sender], r.seq)
  /\ status[r.sender] \in {"welcomed", "in"} => r.seq <= seq[r.sender]
RecentInv == ~renumbered => \A r : Pending(r) => Recent(r)

\* New requests come from players who follow the numbers.
LEMMA PendingMoves ==
  ASSUME TypeOK, HostLeads, Strict, Ordered, ~renumbered, NEW c \in Client, Moves(c), Speaks(c),
         NEW r, Pending(r)', ~Pending(r)
  PROVE  /\ Asks(c, r) /\ MadeInSession(r) /\ c # Host /\ status[c] \in {"welcomed", "in"}
         /\ Recent(r)
<1>0. /\ down \in [Client -> Seq(DownPackets)] /\ seq \in [Client -> Nat]
      /\ status \in [Client -> Connected \cup {"out"}]
  BY DEF TypeOK, ChannelsOK, NumbersOK
<1>1. PICK m \in InTransit' : m.type \in {"Request", "ChangeAccepted"} /\ m.req = r
  BY DEF Pending
<1>2. MadeInSession(r)
  BY DEF Pending, MadeInSession
<1>3. m \notin InTransit
  BY <1>1, <1>2 DEF Pending
<1>4. PICK p \in UpPackets : Announces(c, p) /\ m = p.body
  BY <1>3, MovesTransit
<1>5. m.type # "ChangeAccepted"
  <2> SUFFICES ASSUME m.type = "ChangeAccepted"
               PROVE  FALSE
    OBVIOUS
  <2>1. Takes(Host) /\ Body(Host).type = "Request" /\ r = Body(Host).req
    BY <1>1, <1>4 DEF Announces
  <2>2. Body(Host) \in InTransit
    <3>1. 1 \in DOMAIN down[Host] /\ Head(down[Host]) = down[Host][1]
      BY <1>0, <2>1, TailIndex, HostAssumption DEF Takes
    <3> QED
      BY <3>1, TransitMeaning, HostAssumption DEF Body
  <2> QED
    BY <1>2, <2>1, <2>2 DEF Pending
<1>6. Asks(c, r)
  BY <1>1, <1>4, <1>5 DEF Announces
<1>7. c # Host /\ status[c] \in {"welcomed", "in"}
  BY <1>0, <1>2, <1>6 DEF Asks, MadeInSession, Moves, Here, Connected
<1>8. r.seq = seq[c] /\ r.sender = c
  BY <1>6 DEF Asks
<1>9. Recent(r)
  BY <1>0, <1>7, <1>8 DEF Recent, Strict, Ordered, HostLeads
<1> QED
  BY <1>2, <1>6, <1>7, <1>9

\* What players send and take keeps it so...
LEMMA MovesRecent ==
  ASSUME TypeOK, TypeOK', Present, ~renumbered', NEW c \in Client, Moves(c), Speaks(c), Learns(c), NEW r, Recent(r)
  PROVE  Recent(r)'
<1> USE HostAssumption
<1>0. /\ down \in [Client -> Seq(DownPackets)] /\ up \in [Client -> Seq(UpPackets)]
      /\ seq \in [Client -> Nat] /\ seq' \in [Client -> Nat]
  BY DEF TypeOK, ChannelsOK, NumbersOK
<1> DEFINE n == r.seq
           d == r.sender
<1>1. /\ n \in Nat /\ d \in Client \ {Host} /\ n <= seq[Host]
      /\ Ahead(up[Host], n) /\ AtLeast(up[Host], n) /\ AtLeast(down[d], n)
      /\ status[d] \in {"welcomed", "in"} => n <= seq[d]
  BY DEF Recent
<1> HIDE DEF n, d
<1>2. seq[Host] <= seq'[Host]
  BY <1>0 DEF Moves, Counts
<1>3. n <= seq'[Host]
  BY <1>0, <1>1, <1>2
<1>4. Ahead(up'[Host], n) /\ AtLeast(up'[Host], n)
  <2>1. CASE up'[Host] = up[Host]
    BY <1>1, <2>1
  <2>2. ASSUME NEW p \in UpPackets, up'[Host] = Append(up[Host], p),
               p.body.type \in StateChanges => p.body.seq = seq[Host] + 1,
               p.body.type = "ConnectionAccepted" => p.body.seq = seq[Host]
        PROVE  Ahead(up'[Host], n) /\ AtLeast(up'[Host], n)
    <3>1. p.body.type \in StateChanges => n < p.body.seq
      BY <1>0, <1>1, <2>2
    <3>2. p.body.type \in HasNumber => n <= p.body.seq
      BY <1>0, <1>1, <2>2 DEF HasNumber
    <3> QED
      BY <1>0, <1>1, <2>2, <3>1, <3>2, ClimbAppend, NumbersAppend
  <2> QED
    BY <2>1, <2>2, HostSends
<1>5. AtLeast(down'[d], n)
  <2>1. down'[d] = down[d] \/ (down[d] # <<>> /\ down'[d] = Tail(down[d]))
    BY <1>0, <1>1 DEF Moves, Takes
  <2>2. down[d] # <<>> => AtLeast(Tail(down[d]), n)
    BY <1>0, <1>1, NumbersTail
  <2> QED
    BY <1>1, <2>1, <2>2
<1>6. status'[d] \in {"welcomed", "in"} => n <= seq'[d]
  <2>1. CASE d # c
    BY <1>1, <2>1, MovesAlone
  <2>2. CASE d = c
    <3>1. \/ /\ seq'[c] = seq[c]
             /\ status'[c] = status[c] \/ status[c] \in {"welcomed", "in"}
          \/ Takes(c) /\ Body(c).type \in HasNumber /\ seq'[c] = Body(c).seq
      BY <1>1, <2>2 DEF Moves, Counts
    <3>2. ASSUME Takes(c), Body(c).type \in HasNumber
          PROVE  n <= Body(c).seq
      BY <1>0, <1>1, <2>2, <3>2, NumbersTail DEF Takes, Body
    <3> QED
      BY <1>1, <2>2, <3>1, <3>2
  <2> QED
    BY <2>1, <2>2
<1> QED
  BY <1>1, <1>3, <1>4, <1>5, <1>6 DEF Recent, n, d

\* ... and so do the other steps.
LEMMA OthersRecent ==
  ASSUME TypeOK, TypeOK', Apart, Present, NEW c \in Client, Quits(c) \/ Connect(c) \/ Relaying(c),
         NEW r, Recent(r)
  PROVE  Recent(r)'
<1> USE HostAssumption
<1>0. /\ down \in [Client -> Seq(DownPackets)] /\ up \in [Client -> Seq(UpPackets)]
      /\ status \in [Client -> Connected \cup {"out"}]
  BY DEF TypeOK, ChannelsOK, NumbersOK
<1> DEFINE n == r.seq
           d == r.sender
<1>1. /\ n \in Nat /\ d \in Client \ {Host} /\ n <= seq[Host]
      /\ Ahead(up[Host], n) /\ AtLeast(up[Host], n) /\ AtLeast(down[d], n)
      /\ status[d] \in {"welcomed", "in"} => n <= seq[d]
  BY DEF Recent
<1> HIDE DEF n, d
<1>2. CASE Quits(c)
  <2>1. \A i \in DOMAIN up'[Host] :
          \/ i \in DOMAIN up[Host] /\ up'[Host][i] = up[Host][i]
          \/ up'[Host][i].body.type = "Disconnect"
    BY <1>2, QuitsCuts
  <2>2. Ahead(up'[Host], n) /\ AtLeast(up'[Host], n)
    BY <1>1, <2>1 DEF Ahead, AtLeast, HasNumber, StateChanges
  <2>3. AtLeast(down'[d], n)
    <3>1. AtLeast(<<>>, n)
      BY DEF AtLeast
    <3> QED
      BY <1>1, <1>2, <3>1, QuitsCuts
  <2>4. seq'[Host] = seq[Host] /\ (status'[d] \in {"welcomed", "in"} => n <= seq'[d])
    BY <1>0, <1>1, <1>2 DEF Quits
  <2> QED
    BY <1>1, <2>2, <2>3, <2>4 DEF Recent, n, d
<1>3. CASE Connect(c)
  <2>1. /\ up' = up /\ seq' = seq
        /\ status'[d] = IF d = c THEN "joining" ELSE status[d]
        /\ \/ down'[d] = down[d]
           \/ \E e \in DownPackets : /\ down'[d] = Append(down[d], e)
                                     /\ e.body.type = "PlayerWantsToJoin" /\ e.n = 0
    BY <1>1, <1>3, ConnectAdds
  <2>2. AtLeast(down'[d], n)
    <3>1. ASSUME NEW e \in DownPackets, down'[d] = Append(down[d], e), e.body.type = "PlayerWantsToJoin"
          PROVE  AtLeast(down'[d], n)
      <4>1. e.body.type \notin HasNumber
        BY <3>1 DEF HasNumber, StateChanges
      <4> QED
        BY <1>0, <1>1, <3>1, <4>1, PlainAppend
    <3> QED
      BY <1>1, <2>1, <3>1
  <2> QED
    BY <1>1, <2>1, <2>2 DEF Recent, n, d
<1>4. CASE Relaying(c)
  <2>1. /\ up[c] # <<>> /\ up' = [up EXCEPT ![c] = Tail(@)]
        /\ c # Host => Head(up[c]).body.type \notin HasNumber
        /\ \/ down'[d] = down[d]
           \/ \E e \in DownPackets : /\ down'[d] = Append(down[d], e)
                                     /\ e.body = Head(up[c]).body \/ e.body.type \in {"HostDisconnected", "PlayerHasLeft"}
    BY <1>1, <1>4, RelayingAdds
  <2>2. seq' = seq /\ status' = status
    BY <1>4 DEF Relaying
  <2>3. Ahead(up'[Host], n) /\ AtLeast(up'[Host], n)
    <3>1. up'[Host] = up[Host] \/ (up[Host] # <<>> /\ up'[Host] = Tail(up[Host]))
      BY <1>0, <2>1
    <3>2. up[Host] # <<>> => Ahead(Tail(up[Host]), n)
      BY <1>0, <1>1, ClimbTail
    <3>3. up[Host] # <<>> => AtLeast(Tail(up[Host]), n)
      BY <1>0, <1>1, NumbersTail
    <3> QED
      BY <1>1, <3>1, <3>2, <3>3
  <2>4. Head(up[c]).body.type \in HasNumber => n <= Head(up[c]).body.seq
    BY <1>0, <1>1, <2>1, NumbersTail
  <2>5. ASSUME NEW e \in DownPackets, down'[d] = Append(down[d], e),
               e.body = Head(up[c]).body \/ e.body.type \in {"HostDisconnected", "PlayerHasLeft"}
        PROVE  AtLeast(down'[d], n)
    <3>1. e.body.type \in HasNumber => n <= e.body.seq
      BY <2>4, <2>5 DEF HasNumber, StateChanges
    <3> QED
      BY <1>0, <1>1, <2>5, <3>1, NumbersAppend
  <2>6. AtLeast(down'[d], n)
    BY <1>1, <2>1, <2>5
  <2> QED
    BY <1>1, <2>2, <2>3, <2>6 DEF Recent, n, d
<1> QED
  BY <1>2, <1>3, <1>4

\* Hence every step.
LEMMA RecentStep == Base /\ Base' /\ Counted /\ RecentInv /\ [Next]_vars => RecentInv'
<1> SUFFICES ASSUME Base, Base', Counted, RecentInv, [Next]_vars, ~renumbered', NEW r, Pending(r)'
             PROVE  Recent(r)'
  BY DEF RecentInv
<1>1. CASE Idles
  <2>1. Pending(r) /\ ~renumbered
    BY <1>1 DEF Idles, Pending, InTransit, Carried, MadeInSession
  <2>2. Recent(r)
    BY <2>1 DEF RecentInv
  <2>3. /\ up' = up /\ down' = down /\ status' = status /\ seq[Host] <= seq'[Host]
        /\ \A c \in Client : status[c] \in {"welcomed", "in"} => seq'[c] = seq[c]
    BY <1>1 DEF Idles, Here, Connected
  <2>4. seq[Host] \in Nat /\ seq'[Host] \in Nat
    BY HostAssumption DEF Base, TypeOK, NumbersOK
  <2>5. r.seq <= seq'[Host]
    BY <2>2, <2>3, <2>4 DEF Recent
  <2> QED
    BY <2>2, <2>3, <2>5 DEF Recent
<1>2. ASSUME NEW c \in Client, Moves(c), Plays(c)
      PROVE  Recent(r)'
  <2>1. ~renumbered
    BY <1>2 DEF Moves
  <2>2. Speaks(c) /\ Learns(c)
    BY <1>2, PlaysSpeaks DEF Base
  <2>3. Recent(r)
    <3>1. CASE Pending(r)
      BY <2>1, <3>1 DEF RecentInv
    <3>2. CASE ~Pending(r)
      BY <1>2, <2>1, <2>2, <3>2, PendingMoves DEF Base, Counted, OrderInv, StrictInv
    <3> QED
      BY <3>1, <3>2
  <2> QED
    BY <1>2, <2>2, <2>3, MovesRecent DEF Base
<1>3. ASSUME NEW c \in Client, Quits(c) \/ Connect(c) \/ Relaying(c)
      PROVE  Recent(r)'
  <2>1. ~renumbered
    BY <1>3 DEF Quits, Connect, Relaying, observers
  <2>2. Pending(r)
    <3>1. PICK m \in InTransit' : m.type \in {"Request", "ChangeAccepted"} /\ m.req = r
      BY DEF Pending
    <3>2. m \in InTransit
      BY <1>3, <3>1, OthersTransit DEF Base, Notices
    <3> QED
      BY <3>1, <3>2 DEF Pending, MadeInSession
  <2>3. Recent(r)
    BY <2>1, <2>2 DEF RecentInv
  <2> QED
    BY <1>3, <2>3, OthersRecent DEF Base
<1>4. CASE UNCHANGED vars
  BY <1>1, <1>4, Stutters DEF Base
<1>5. CASE ProgramStep
  BY <1>1, <1>2, <1>3, <1>5, ProgramShapes DEF Base
<1> QED
  BY <1>3, <1>4, <1>5 DEF Next

\* It holds at the start, and always.
LEMMA RecentAlways == Spec => []RecentInv
<1>1. Init => RecentInv
  <2> SUFFICES ASSUME Init PROVE \A m \in InTransit : FALSE
    BY DEF RecentInv, Pending
  <2>1. \A c \in Client : up[c] = <<>> /\ down[c] = <<>>
    BY DEF Init, RelayInit
  <2> QED
    BY <2>1 DEF InTransit, Carried
<1> QED
  BY <1>1, RecentStep, StrictAlways, PTL DEF Spec

-----------------------------------------------------------------------------
(* A number stands for one table.                                          *)

\* T is the table that each number stands for: who follows the game shows it, ...
Showing(T) == \A c \in Client \ {Host} : Follows(c) => T[seq[c]] = history[c].table
\* ... clean snapshots carry it, ...
Offering(T) == \A m \in InTransit : Snapshot(m) => T[m.seq] = m.table
\* ... requests were made on it, ...
Grounding(T) == \A r : (Pending(r) /\ r.faithful) => T[r.seq] = r.base
\* ... state changes lead to it, ...
Bringing(T) ==
  \A c \in Client : Here(c) => \A i \in DOMAIN down[c] :
    down[c][i].body.type \in StateChanges => T[down[c][i].body.seq] = decided[down[c][i].n + 1].table
\* ... and the last table has the host's number when he has no state change to send.
Ending(T) == (status[Host] = "in" /\ ~Changing(up[Host])) => T[seq[Host]] = decided[Len(decided)].table

Tells(T) == Showing(T) /\ Offering(T) /\ Grounding(T) /\ Bringing(T) /\ Ending(T)
TaleInv == ~renumbered => \E T \in [Nat -> Changes] : Tells(T)

\* Everything known of players, channels and numbers.
Known == Base /\ HistInv /\ HostLeads /\ Ordered /\ Strict /\ ReachInv /\ (\A r : Pending(r) => Recent(r))

\* Who takes a number comes to the table that it stands for.
LEMMA MovesShowing ==
  ASSUME Known, TypeOK', InStep', decided' = decided, NEW c \in Client, Moves(c), Learns(c), Sees(c),
         NEW T, Tells(T)
  PROVE  Showing(T)'
<1> USE HostAssumption
<1>0. /\ down \in [Client -> Seq(DownPackets)] /\ history \in [Client -> Histories]
      /\ status \in [Client -> Connected \cup {"out"}] /\ pos \in [Client -> Nat]
  BY DEF Known, Base, TypeOK, ChannelsOK, NumbersOK, TablesOK, ObserversOK
<1> SUFFICES ASSUME NEW d \in Client \ {Host}, Follows(d)'
             PROVE  T[seq'[d]] = history'[d].table
  BY DEF Showing
<1>1. status'[d] \in {"welcomed", "in"} /\ d \notin suspect'
  BY DEF Follows, Following
<1>2. ASSUME status[d] \in {"welcomed", "in"}, d \notin suspect
      PROVE  T[seq[d]] = history[d].table
  BY <1>2 DEF Tells, Showing, Follows, Following
<1>3. CASE d # c
  <2>1. seq'[d] = seq[d] /\ status'[d] = status[d] /\ history'[d] = history[d] /\ d \notin suspect
    BY <1>1, <1>3, MovesAlone DEF Known, Base, Sees
  <2> QED
    BY <1>1, <1>2, <2>1
<1>4. CASE d = c /\ Rests
  <2>1. seq'[c] = seq[c]
    BY <1>4, TakesShorter DEF Known, Base, Learns, Rests
  <2> QED
    BY <1>1, <1>2, <1>4, <2>1 DEF Rests
<1>5. CASE d = c /\ (Hears(c) \/ Begins(c))
  <2>1. /\ Takes(c) /\ Here(c) /\ down[c] # <<>> /\ down' # down
        /\ 1 \in DOMAIN down[c] /\ down[c][1] = Head(down[c]) /\ down[c][1].body = Body(c)
    <3>1. Takes(c) /\ Here(c)
      BY <1>5 DEF Hears, Begins, Moves
    <3>2. down[c] # <<>> /\ down' # down
      BY <3>1, TakesShorter DEF Known, Base
    <3> QED
      BY <1>0, <3>1, <3>2, TailIndex DEF Body
  <2>2. /\ Body(c).type \in HasNumber => seq'[c] = Body(c).seq
        /\ Body(c).type \notin HasNumber => seq'[c] = seq[c]
    BY <1>5, <2>1 DEF Learns
  <2>3. CASE Begins(c)
    <3>1. Body(c) \in InTransit /\ Snapshot(Body(c))
      BY <1>1, <1>5, <2>1, <2>3, TransitMeaning DEF Begins, Snapshot
    <3>2. T[Body(c).seq] = Body(c).table
      BY <3>1 DEF Tells, Offering
    <3>3. history'[c].table = Body(c).table
      BY <2>3 DEF Begins, Cleared
    <3> QED
      BY <1>5, <2>2, <3>1, <3>2, <3>3 DEF Snapshot, HasNumber
  <2>4. CASE Hears(c) /\ Body(c).type \in StateChanges
    <3>1. T[Body(c).seq] = decided[down[c][1].n + 1].table
      BY <2>1, <2>4 DEF Tells, Bringing
    <3>2. down[c][1].n # 0 /\ down[c][1].n \in Nat
      <4>1. Told(down[c], decided)
        BY <2>1 DEF Known, HistInv, Streams, Stream
      <4>2. down[c][1] \in DownPackets
        BY <1>0, <2>1, ElementOfSeq
      <4> QED
        BY <2>1, <2>4, <4>1, <4>2 DEF Told, DownPackets
    <3>3. pos'[c] = down[c][1].n
      BY <1>0, <2>1, <3>2 DEF Takes
    <3>4. InStepWith(c, decided[pos[c] + 1])'
      BY <1>5 DEF InStep
    <3>5. history'[c].table = decided'[pos'[c] + 1].table
      BY <3>4 DEF InStepWith, Echoes
    <3> QED
      BY <1>5, <2>2, <2>4, <3>1, <3>3, <3>5 DEF HasNumber
  <2>5. CASE Hears(c) /\ Body(c).type \notin StateChanges
    <3>1. Body(c).type \notin HasNumber
      BY <2>5 DEF Hears, HasNumber
    <3>2. history'[c] = After(history[c], Body(c)) /\ After(history[c], Body(c)).table = history[c].table
      BY <1>0, <1>5, <2>5, AfterPlain DEF Hears
    <3>3. status[c] \in {"welcomed", "in"} /\ c \notin suspect
      BY <1>1, <1>5, <2>5 DEF Hears, StateChanges
    <3> QED
      BY <1>2, <1>5, <2>2, <3>1, <3>2, <3>3
  <2> QED
    BY <1>5, <2>3, <2>4, <2>5
<1> QED
  BY <1>3, <1>4, <1>5 DEF Sees

\* Snapshots and requests say what the sender has on the table.
LEMMA MovesOffering ==
  ASSUME Known, ~renumbered, NEW c \in Client, Moves(c), Speaks(c), NEW T, Tells(T)
  PROVE  Offering(T)' /\ Grounding(T)'
<1> USE HostAssumption
<1>1. ASSUME NEW m \in InTransit', Snapshot(m)
      PROVE  T[m.seq] = m.table
  <2>1. CASE m \in InTransit
    BY <1>1, <2>1 DEF Tells, Offering
  <2>2. CASE m \notin InTransit
    <3>1. PICK p \in UpPackets : Announces(c, p) /\ m = p.body
      BY <2>2, MovesTransit DEF Known, Base
    <3>2. c = Host /\ m.seq = seq[Host] /\ Saves(m)
      BY <1>1, <3>1 DEF Announces, Staying, Sent, Sendable, Snapshot
    <3>3. ~ChangesOnTheirWay /\ m.table = history[Host].table /\ Host \notin suspect
      BY <1>1, <3>2 DEF Saves, Snapshot
    <3>4. status[Host] = "in"
      BY <3>2 DEF Moves, Here, Connected, Known, Base, Present
    <3>5. history[Host].table = decided[Len(decided)].table
      BY <3>3, <3>4, HostHasLatest DEF Known, Base, HistInv
    <3>6. ~Changing(up[Host])
      BY <3>3 DEF ChangesOnTheirWay, Changing
    <3> QED
      BY <3>2, <3>3, <3>4, <3>5, <3>6 DEF Tells, Ending
  <2> QED
    BY <2>1, <2>2
<1>2. ASSUME NEW r, Pending(r)', r.faithful
      PROVE  T[r.seq] = r.base
  <2>1. CASE Pending(r)
    BY <1>2, <2>1 DEF Tells, Grounding
  <2>2. CASE ~Pending(r)
    <3>1. Asks(c, r) /\ c # Host /\ status[c] \in {"welcomed", "in"}
      BY <1>2, <2>2, PendingMoves DEF Known, Base
    <3>2. Follows(c)
      BY <1>2, <3>1 DEF Asks, Follows, Following
    <3> QED
      BY <3>1, <3>2 DEF Asks, Tells, Showing
  <2> QED
    BY <2>1, <2>2
<1>3. Offering(T)'
  BY <1>1 DEF Offering
<1>4. Grounding(T)'
  BY <1>2 DEF Grounding
<1> QED
  BY <1>3, <1>4

\* What is on its way to the players stays, and the last table keeps its number.
LEMMA MovesEnding ==
  ASSUME Known, ~renumbered', decided' = decided, NEW c \in Client, Moves(c), Speaks(c), NEW T, Tells(T)
  PROVE  Bringing(T)' /\ Ending(T)'
<1> USE HostAssumption
<1>0. /\ down \in [Client -> Seq(DownPackets)] /\ up \in [Client -> Seq(UpPackets)]
  BY DEF Known, Base, TypeOK, ChannelsOK
<1>1. ASSUME NEW d \in Client, Here(d)', NEW i \in DOMAIN down'[d], down'[d][i].body.type \in StateChanges
      PROVE  T[down'[d][i].body.seq] = decided[down'[d][i].n + 1].table
  <2>1. Here(d)
    BY <1>1 DEF Moves, Here
  <2>2. \E j \in DOMAIN down[d] : down'[d][i] = down[d][j]
    <3>1. down'[d] = down[d] \/ (down[d] # <<>> /\ down'[d] = Tail(down[d]))
      BY <1>0 DEF Moves, Takes
    <3>2. down[d] \in Seq(DownPackets)
      BY <1>0
    <3>3. down[d] # <<>> => \A k \in DOMAIN Tail(down[d]) : \E j \in DOMAIN down[d] : Tail(down[d])[k] = down[d][j]
      BY <3>2, NumbersTail
    <3>4. CASE down'[d] = down[d]
      BY <1>1, <3>4
    <3>5. CASE down[d] # <<>> /\ down'[d] = Tail(down[d])
      BY <1>1, <3>3, <3>5
    <3> QED
      BY <3>1, <3>4, <3>5
  <2> QED
    BY <1>1, <2>1, <2>2 DEF Tells, Bringing
<1>2. Bringing(T)'
  BY <1>1 DEF Bringing
<1>3. ASSUME status'[Host] = "in", ~Changing(up'[Host])
      PROVE  T[seq'[Host]] = decided[Len(decided)].table
  <2>1. status[Host] = "in"
    BY <1>3 DEF Moves, Here, Connected, Known, Base, Present
  <2>2. ~Changing(up[Host]) /\ seq'[Host] = seq[Host]
    <3>1. CASE up'[Host] = up[Host] /\ (~renumbered' => seq'[Host] = seq[Host])
      BY <1>3, <3>1
    <3>2. ASSUME NEW p \in UpPackets, up'[Host] = Append(up[Host], p),
                 p.body.type \notin StateChanges => seq'[Host] = seq[Host]
          PROVE  ~Changing(up[Host]) /\ seq'[Host] = seq[Host]
      <4>1. Changing(up'[Host]) <=> Changing(up[Host]) \/ p.body.type \in StateChanges
        <5>1. up[Host] \in Seq(UpPackets)
          BY <1>0
        <5>2. /\ Has(up[Host], 0) => Has(Append(up[Host], p), 0)
              /\ Changing(Append(up[Host], p)) <=> Changing(up[Host]) \/ p.body.type \in StateChanges
          BY <5>1, HasAppend
        <5> QED
          BY <3>2, <5>2
      <4> QED
        BY <1>3, <3>2, <4>1
    <3> QED
      BY <3>1, <3>2, HostSends DEF Known, Base
  <2> QED
    BY <2>1, <2>2 DEF Tells, Ending
<1>4. Ending(T)'
  BY <1>3 DEF Ending
<1> QED
  BY <1>2, <1>4

\* Who leaves or comes changes nothing of it.
LEMMA ComesTale ==
  ASSUME Known, decided' = decided, NEW c \in Client, Quits(c) \/ Connect(c), NEW T, Tells(T)
  PROVE  Tells(T)'
<1> USE HostAssumption
<1>0. /\ status \in [Client -> Connected \cup {"out"}] /\ suspect \subseteq Client
      /\ down \in [Client -> Seq(DownPackets)]
  BY DEF Known, Base, TypeOK, ChannelsOK, NumbersOK, ObserversOK
<1>1. ASSUME NEW m \in InTransit', m.type \notin Notices
      PROVE  m \in InTransit
  BY <1>1, OthersTransit DEF Known, Base
<1>2. Offering(T)'
  BY <1>1 DEF Tells, Offering, Snapshot, Notices
<1>3. Grounding(T)'
  <2> SUFFICES ASSUME NEW r, Pending(r)', r.faithful
               PROVE  T[r.seq] = r.base
    BY DEF Grounding
  <2>1. PICK m \in InTransit' : m.type \in {"Request", "ChangeAccepted"} /\ m.req = r
    BY DEF Pending
  <2>2. Pending(r)
    BY <1>1, <2>1 DEF Pending, MadeInSession, Notices
  <2> QED
    BY <2>2 DEF Tells, Grounding
<1>4. CASE Quits(c)
  <2>1. \A d \in Client : status'[d] # "out" =>
          /\ d # c /\ status'[d] = status[d] /\ seq'[d] = seq[d] /\ history'[d] = history[d] /\ suspect' = suspect
          /\ down'[d] = down[d] /\ up'[d] = up[d]
    BY <1>0, <1>4, QuitsCuts DEF Quits, Known, Base
  <2>2. Showing(T)'
    BY <2>1 DEF Tells, Showing, Follows, Following
  <2>3. Bringing(T)'
    BY <2>1 DEF Tells, Bringing, Here, Connected
  <2>4. Ending(T)'
    BY <2>1 DEF Tells, Ending
  <2> QED
    BY <1>2, <1>3, <2>2, <2>3, <2>4 DEF Tells
<1>5. CASE Connect(c)
  <2>1. /\ up' = up /\ seq' = seq /\ c # Host
        /\ \A d \in Client : status'[d] = IF d = c THEN "joining" ELSE status[d]
        /\ \A d \in Client : \/ down'[d] = down[d]
                             \/ \E e \in DownPackets : /\ down'[d] = Append(down[d], e)
                                                       /\ e.body.type = "PlayerWantsToJoin" /\ e.n = 0
    BY <1>5, ConnectAdds DEF Known, Base
  <2>2. history' = history /\ \A d \in Client \ {c} : d \in suspect' <=> d \in suspect
    BY <1>5 DEF Connect
  <2>3. down[c] = <<>>
    BY <1>5 DEF Connect, Known, Base, Apart, Gone
  <2>4. Showing(T)'
    BY <2>1, <2>2 DEF Tells, Showing, Follows, Following
  <2>5. Bringing(T)'
    <3> SUFFICES ASSUME NEW d \in Client, Here(d)', NEW i \in DOMAIN down'[d], down'[d][i].body.type \in StateChanges
                 PROVE  T[down'[d][i].body.seq] = decided[down'[d][i].n + 1].table
      BY DEF Bringing
    <3>1. i \in DOMAIN down[d] /\ down'[d][i] = down[d][i]
      <4>1. ASSUME NEW e \in DownPackets, down'[d] = Append(down[d], e), e.body.type = "PlayerWantsToJoin"
            PROVE  i \in DOMAIN down[d] /\ down'[d][i] = down[d][i]
        <5>1. (i \in DOMAIN down[d] /\ down'[d][i] = down[d][i]) \/ down'[d][i] = e
          BY <1>0, <4>1, AppendIndex
        <5> QED
          BY <4>1, <5>1 DEF StateChanges
      <4> QED
        BY <2>1, <4>1
    <3>2. d # c
      BY <2>3, <3>1
    <3>3. Here(d)
      BY <2>1, <3>2 DEF Here
    <3> QED
      BY <3>1, <3>3 DEF Tells, Bringing
  <2>6. Ending(T)'
    BY <2>1 DEF Tells, Ending
  <2> QED
    BY <1>2, <1>3, <2>4, <2>5, <2>6 DEF Tells
<1> QED
  BY <1>4, <1>5


\* What is in a player's channel after a step of the server: what was there, with its
\* number and the state decided for it, or the new packet, with the next number.
LEMMA RelayingAdded ==
  ASSUME Base, Decided, Streams, NEW c \in Client, Relaying(c), Decides(c),
         NEW d \in Client, Here(d), NEW i \in DOMAIN down'[d], down'[d][i].body.type \in StateChanges
  PROVE  \/ /\ i \in DOMAIN down[d] /\ down'[d][i] = down[d][i]
            /\ decided'[down[d][i].n + 1] = decided[down[d][i].n + 1]
         \/ /\ \A x \in Client : Broadcasts(c, x)
            /\ down'[d][i].n = relayed + 1 /\ down'[d][i].body = Head(up[c]).body
<1>0. /\ down[d] \in Seq(DownPackets) /\ relayed \in Nat
      /\ decided \in Seq(Histories) /\ Len(decided) = relayed + 1
  BY DEF Base, TypeOK, ChannelsOK, Decided
<1>1. ASSUME i \in DOMAIN down[d], down'[d][i] = down[d][i]
      PROVE  decided'[down[d][i].n + 1] = decided[down[d][i].n + 1]
  <2>1. Told(down[d], decided) /\ Numbered(down[d], pos[d], relayed)
    BY DEF Streams, Stream
  <2>2. down[d][i] \in DownPackets
    BY <1>0, <1>1, ElementOfSeq
  <2>3. down[d][i].n \in Nat /\ down[d][i].n # 0 /\ down[d][i].n <= relayed
    BY <1>1, <2>1, <2>2 DEF Told, Numbered, DownPackets
  <2> DEFINE k == down[d][i].n + 1
  <2>4. k \in 1 .. Len(decided)
    BY <1>0, <2>3
  <2> HIDE DEF k
  <2>5. decided' = decided \/ \E h \in Histories : decided' = Append(decided, h)
    BY Deciding DEF Base
  <2>6. \A h \in Histories : Append(decided, h)[k] = decided[k]
    BY <1>0, <2>4, AppendProperties
  <2>7. decided'[k] = decided[k]
    <3>1. CASE decided' = decided
      BY <3>1
    <3>2. ASSUME NEW h \in Histories, decided' = Append(decided, h)
          PROVE  decided'[k] = decided[k]
      BY <2>6, <3>2
    <3> QED
      BY <2>5, <3>1, <3>2
  <2> QED
    BY <2>7 DEF k
<1> DEFINE packet(from, n, body) == [from |-> from, n |-> n, body |-> body]
<1>2. \A from \in Client, n \in Nat, body \in Bodies :
        packet(from, n, body) \in DownPackets /\ packet(from, n, body).body = body /\ packet(from, n, body).n = n
  BY DEF DownPackets
<1>3. \A x : PassesOn(c, x) =>
        \/ down'[x] = down[x]
        \/ \E from \in Client, body \in Bodies :
             down'[x] = Append(down[x], packet(from, 0, body)) /\ body.type \notin StateChanges
  BY DEF PassesOn
<1>4. \A x : (Broadcasts(c, x) /\ Here(x)) =>
        \E from \in Client, body \in Bodies :
          /\ down'[x] = Append(down[x], packet(from, relayed + 1, body))
          /\ body = Head(up[c]).body \/ body.type = "PlayerHasLeft"
  BY DEF Broadcasts
<1> HIDE DEF packet
<1>5. ASSUME NEW e \in DownPackets, down'[d] = Append(down[d], e)
      PROVE  (i \in DOMAIN down[d] /\ down'[d][i] = down[d][i]) \/ down'[d][i] = e
  BY <1>0, <1>5, AppendIndex
<1>6. CASE \A x \in Client : PassesOn(c, x)
  <2>1. PassesOn(c, d)
    BY <1>6
  <2>2. CASE down'[d] = down[d]
    BY <1>1, <2>2
  <2>3. ASSUME NEW from \in Client, NEW body \in Bodies,
               down'[d] = Append(down[d], packet(from, 0, body)), body.type \notin StateChanges
        PROVE  i \in DOMAIN down[d] /\ down'[d][i] = down[d][i]
    <3>1. packet(from, 0, body) \in DownPackets /\ packet(from, 0, body).body = body
      BY <1>2
    <3> QED
      BY <1>5, <2>3, <3>1
  <2> QED
    BY <1>1, <1>3, <2>1, <2>2, <2>3
<1>7. CASE \A x \in Client : Broadcasts(c, x)
  <2>1. PICK from \in Client, body \in Bodies :
          /\ down'[d] = Append(down[d], packet(from, relayed + 1, body))
          /\ body = Head(up[c]).body \/ body.type = "PlayerHasLeft"
    BY <1>4, <1>7
  <2> DEFINE e == packet(from, relayed + 1, body)
  <2>2. e \in DownPackets /\ e.body = body /\ e.n = relayed + 1
    <3>1. relayed + 1 \in Nat
      BY <1>0
    <3> QED
      BY <1>2, <3>1
  <2>3. down'[d] = Append(down[d], e)
    BY <2>1
  <2> HIDE DEF e
  <2>4. (i \in DOMAIN down[d] /\ down'[d][i] = down[d][i]) \/ down'[d][i] = e
    BY <1>5, <2>2, <2>3
  <2>5. body.type = "PlayerHasLeft" => body.type \notin StateChanges
    BY DEF StateChanges
  <2> QED
    BY <1>1, <1>7, <2>1, <2>2, <2>4, <2>5
<1>8. (\A x \in Client : PassesOn(c, x)) \/ (\A x \in Client : Broadcasts(c, x))
  BY Deciding DEF Base
<1> QED
  BY <1>6, <1>7, <1>8

\* The server broadcasts a state change of the host: its number is new to everybody...
LEMMA ChangeIsNew ==
  ASSUME Known, ~renumbered, Relaying(Host), Head(up[Host]).body.type \in StateChanges,
         NEW n, n = Head(up[Host]).body.seq
  PROVE  /\ n \in Nat
         /\ \A d \in Client \ {Host} : status[d] \in {"welcomed", "in"} => seq[d] < n
         /\ \A d \in Client : \A i \in DOMAIN down[d] :
              down[d][i].body.type \in HasNumber => down[d][i].body.seq < n
         /\ \A r : Pending(r) => r.seq < n
         /\ \A b \in InTransit' : Snapshot(b) => b.seq < n
         /\ (status[Host] = "in" /\ ~Changing(up'[Host])) => n = seq[Host]
<1> USE HostAssumption
<1> DEFINE s == up[Host]
<1>0. /\ up \in [Client -> Seq(UpPackets)] /\ down \in [Client -> Seq(DownPackets)] /\ seq[Host] \in Nat
      /\ s \in Seq(UpPackets)
  BY DEF Known, Base, TypeOK, ChannelsOK, NumbersOK
<1>1. s # <<>> /\ up' = [up EXCEPT ![Host] = Tail(@)] /\ Head(s).body \in Bodies
  BY RelayingAdds DEF Known, Base
<1>2. n \in Nat
  BY <1>1, BodyFields DEF StateChanges
<1>3. \A k : Ahead(s, k) => k < n
  BY <1>0, <1>1, ClimbTail
<1>4. \A d \in Client \ {Host} : status[d] \in {"welcomed", "in"} => seq[d] < n
  BY <1>3 DEF Known, Strict
<1>5. \A d \in Client : \A i \in DOMAIN down[d] :
        down[d][i].body.type \in HasNumber => down[d][i].body.seq < n
  BY <1>3 DEF Known, Strict, Before
<1>6. \A r : Pending(r) => r.seq < n
  BY <1>3 DEF Known, Recent
<1>7. ASSUME NEW b \in InTransit', Snapshot(b)
      PROVE  b.seq < n
  <2>1. b \in InTransit /\ b.type = "ConnectionAccepted"
    BY <1>7, OthersTransit DEF Known, Base, Snapshot, Notices
  <2>2. ASSUME NEW d \in Client, NEW i \in DOMAIN down[d], b = down[d][i].body
        PROVE  b.seq < n
    BY <1>5, <2>1, <2>2 DEF HasNumber
  <2>3. ASSUME NEW d \in Client, NEW i \in DOMAIN up[d], b = up[d][i].body
        PROVE  FALSE
    <3>1. up[d][i] \in Sent(d)
      <4>1. up[d] \in Seq(Sent(d))
        BY DEF Known, Base, Present
      <4> QED
        BY <2>3, <4>1, ElementOfSeq
    <3>2. d = Host
      BY <2>1, <2>3, <3>1 DEF Sent, Sendable
    <3>3. NoChange(s, i) /\ i \in DOMAIN s
      BY <1>7, <2>3, <3>2 DEF Known, HistInv, Sending
    <3>4. DOMAIN s = 1 .. Len(s) /\ Len(s) \in Nat /\ Head(s) = s[1] /\ 1 \in DOMAIN s
      BY <1>0, <1>1, TailIndex
    <3>5. s[1].body.type \in StateChanges
      BY <3>4
    <3>6. i # 1
      BY <2>1, <2>3, <3>2, <3>5 DEF StateChanges
    <3>7. 1 < i
      BY <3>3, <3>4, <3>6
    <3> HIDE DEF s
    <3> QED
      BY <3>3, <3>4, <3>5, <3>7 DEF NoChange
  <2>4. \/ \E d \in Client : \E i \in DOMAIN up[d] : b = up[d][i].body
        \/ \E d \in Client : \E i \in DOMAIN down[d] : b = down[d][i].body
    BY <2>1 DEF InTransit, Carried
  <2> QED
    BY <2>2, <2>3, <2>4
<1>8. ASSUME status[Host] = "in", ~Changing(up'[Host])
      PROVE  n = seq[Host]
  <2>1. Reaches(seq[Host])
    BY <1>8 DEF Known, ReachInv
  <2>2. up'[Host] = Tail(s)
    BY <1>0, <1>1
  <2>3. /\ Has(s, seq[Host]) => Has(Tail(s), seq[Host]) \/ seq[Host] <= n
        /\ Changing(s)
    <3>1. /\ Has(s, seq[Host]) => Has(Tail(s), seq[Host])
                                    \/ (Head(s).body.type \in StateChanges /\ seq[Host] <= Head(s).body.seq)
          /\ Changing(s) <=> Changing(Tail(s)) \/ Head(s).body.type \in StateChanges
      BY <1>0, <1>1, HasTail
    <3> QED
      BY <3>1
  <2>4. ~Has(Tail(s), seq[Host])
    BY <1>8, <2>2 DEF Has, Changing
  <2>5. seq[Host] <= n
    BY <2>1, <2>3, <2>4 DEF Reaches
  <2>6. n <= seq[Host]
    <3>1. s[1] = Head(s) /\ 1 \in DOMAIN s
      BY <1>0, <1>1, TailIndex
    <3>2. Head(s).body \in InTransit
      BY <3>1, TransitMeaning
    <3> QED
      BY <3>2 DEF Known, HostLeads, Behind, HasNumber
  <2> QED
    BY <1>0, <1>2, <2>5, <2>6
<1> QED
  BY <1>2, <1>4, <1>5, <1>6, <1>7, <1>8

\* ... so that it can stand for the new table; whatever else the server relays, what the
\* numbers stand for stays.
LEMMA RelayingTale ==
  ASSUME Known, ~renumbered, NEW c \in Client, Relaying(c), Decides(c), NEW T \in [Nat -> Changes], Tells(T)
  PROVE  \E U \in [Nat -> Changes] : Tells(U)'
<1> USE HostAssumption
<1> DEFINE m == Head(up[c]).body
<1>0. /\ up \in [Client -> Seq(UpPackets)] /\ relayed \in Nat /\ seq \in [Client -> Nat]
      /\ decided \in Seq(Histories) /\ Len(decided) = relayed + 1
  BY DEF Known, Base, TypeOK, ChannelsOK, NumbersOK, HistInv, Decided
<1>1. seq' = seq /\ status' = status /\ history' = history /\ suspect' = suspect
  BY DEF Relaying, observers
<1>2. ASSUME NEW b \in InTransit', b.type \notin Notices
      PROVE  b \in InTransit
  BY <1>2, OthersTransit DEF Known, Base
<1>3. \A r : Pending(r)' => Pending(r)
  <2> SUFFICES ASSUME NEW r, Pending(r)'
               PROVE  Pending(r)
    OBVIOUS
  <2>1. PICK b \in InTransit' : b.type \in {"Request", "ChangeAccepted"} /\ b.req = r
    BY DEF Pending
  <2> QED
    BY <1>2, <2>1 DEF Pending, MadeInSession, Notices
<1>4. \A b \in InTransit' : Snapshot(b) => b \in InTransit
  BY <1>2 DEF Snapshot, Notices
<1>5. /\ up[c] # <<>> /\ up' = [up EXCEPT ![c] = Tail(@)]
      /\ m.type \in StateChanges => c = Host
  BY RelayingAdds DEF Known, Base, HasNumber
<1>6. ASSUME NEW d \in Client, Here(d)', NEW i \in DOMAIN down'[d], down'[d][i].body.type \in StateChanges
      PROVE  \/ /\ i \in DOMAIN down[d] /\ down'[d][i] = down[d][i]
                /\ decided'[down[d][i].n + 1] = decided[down[d][i].n + 1]
             \/ /\ \A x \in Client : Broadcasts(c, x)
                /\ down'[d][i].n = relayed + 1 /\ down'[d][i].body = m
  <2>1. Here(d)
    BY <1>1, <1>6 DEF Here
  <2> QED
    BY <1>6, <2>1, RelayingAdded DEF Known, HistInv
\* Nothing new is told to the players.
<1>7. CASE \/ m.type \notin StateChanges
           \/ decided' = decided /\ \A x \in Client : PassesOn(c, x)
  <2> HIDE DEF m
  <2>1. Showing(T)'
    BY <1>1 DEF Tells, Showing, Follows, Following
  <2>2. Offering(T)'
    BY <1>4 DEF Tells, Offering
  <2>3. Grounding(T)'
    BY <1>3 DEF Tells, Grounding
  <2>4. Bringing(T)'
    <3> SUFFICES ASSUME NEW d \in Client, Here(d)', NEW i \in DOMAIN down'[d], down'[d][i].body.type \in StateChanges
                 PROVE  T[down'[d][i].body.seq] = decided'[down'[d][i].n + 1].table
      BY DEF Bringing
    <3>1. ASSUME \A x \in Client : Broadcasts(c, x), down'[d][i].body = m
          PROVE  FALSE
      <4>1. Broadcasts(c, c) /\ m.type \in StateChanges
        BY <3>1
      <4>2. PassesOn(c, c)
        BY <1>7, <4>1
      <4> QED
        BY <1>0, <4>1, <4>2 DEF Broadcasts, PassesOn
    <3>2. /\ i \in DOMAIN down[d] /\ down'[d][i] = down[d][i]
          /\ decided'[down[d][i].n + 1] = decided[down[d][i].n + 1]
      BY <1>6, <3>1
    <3>3. Here(d)
      BY <1>1 DEF Here
    <3> QED
      BY <3>2, <3>3 DEF Tells, Bringing
  <2>5. Ending(T)'
    <3> SUFFICES ASSUME status'[Host] = "in", ~Changing(up'[Host])
                 PROVE  T[seq'[Host]] = decided'[Len(decided')].table
      BY DEF Ending
    <3>1. ~Changing(up[Host])
      <4>1. CASE c # Host
        BY <1>0, <1>5, <4>1
      <4>2. CASE c = Host
        <5>1. m.type \notin StateChanges
          <6>1. Here(c)
            BY <1>1, <4>2 DEF Here, Connected
          <6> QED
            BY <1>7, <6>1 DEF PassesOn, m
        <5>2. up'[Host] = Tail(up[Host]) /\ up[Host] \in Seq(UpPackets)
          BY <1>0, <1>5, <4>2
        <5>3. /\ Has(up[Host], 0) => \/ Has(Tail(up[Host]), 0)
                                     \/ Head(up[Host]).body.type \in StateChanges /\ 0 <= Head(up[Host]).body.seq
              /\ Changing(up[Host]) <=> Changing(Tail(up[Host])) \/ Head(up[Host]).body.type \in StateChanges
          BY <1>5, <4>2, <5>2, HasTail
        <5> QED
          BY <4>2, <5>1, <5>2, <5>3 DEF m
      <4> QED
        BY <4>1, <4>2
    <3>2. T[seq[Host]] = decided[Len(decided)].table
      BY <1>1, <3>1 DEF Tells, Ending
    <3>3. decided'[Len(decided')].table = decided[Len(decided)].table
      <4>1. CASE decided' = decided
        BY <4>1
      <4>2. ASSUME NEW h \in Histories, h = After(Last(decided), m), decided' = Append(decided, h),
                   m.type \notin StateChanges
            PROVE  decided'[Len(decided')].table = decided[Len(decided)].table
        <5>1. Last(decided) \in Histories /\ Last(decided) = decided[relayed + 1]
          BY Deciding DEF Known, Base, HistInv
        <5>2. h.table = Last(decided).table
          BY <4>2, <5>1, AfterPlain
        <5>3. Append(decided, h)[Len(Append(decided, h))] = h
          BY <1>0, AppendIndex
        <5> QED
          BY <1>0, <4>2, <5>1, <5>2, <5>3
      <4>3. decided' = decided \/ \E h \in Histories : /\ h = After(Last(decided), m) /\ decided' = Append(decided, h)
        BY Deciding DEF Known, Base, HistInv, m
      <4> QED
        BY <1>7, <4>1, <4>2, <4>3
    <3> QED
      BY <1>1, <3>2, <3>3
  <2> QED
    BY <2>1, <2>2, <2>3, <2>4, <2>5 DEF Tells
\* A new number for a new table.
<1>8. ASSUME m.type \in StateChanges, NEW h \in Histories, decided' = Append(decided, h)
      PROVE  \E U \in [Nat -> Changes] : Tells(U)'
  <2> DEFINE n == m.seq
  <2>1. c = Host
    BY <1>5, <1>8
  <2>2. /\ n \in Nat
        /\ \A d \in Client \ {Host} : status[d] \in {"welcomed", "in"} => seq[d] < n
        /\ \A d \in Client : \A i \in DOMAIN down[d] :
             down[d][i].body.type \in HasNumber => down[d][i].body.seq < n
        /\ \A r : Pending(r) => r.seq < n
        /\ \A b \in InTransit' : Snapshot(b) => b.seq < n
        /\ (status[Host] = "in" /\ ~Changing(up'[Host])) => n = seq[Host]
    BY <1>8, <2>1, ChangeIsNew
  <2> HIDE DEF n, m
  <2>3. h.table \in Changes
    BY HistoryFields DEF Histories
  <2>4. PICK U \in [Nat -> Changes] : \A k \in Nat : U[k] = IF k = n THEN h.table ELSE T[k]
    <3> DEFINE V == [k \in Nat |-> IF k = n THEN h.table ELSE T[k]]
    <3>1. V \in [Nat -> Changes] /\ \A k \in Nat : V[k] = IF k = n THEN h.table ELSE T[k]
      BY <2>3
    <3> QED
      BY <3>1
  <2>5. \A k \in Nat : k < n => U[k] = T[k]
    BY <2>2, <2>4
  <2>6. U[n] = h.table
    BY <2>2, <2>4
  <2>7. \A b \in InTransit : b \in Bodies
    <3>1. ASSUME NEW d \in Client
          PROVE  /\ \A i \in DOMAIN up[d] : up[d][i] \in UpPackets
                 /\ \A i \in DOMAIN down[d] : down[d][i] \in DownPackets
      <4>1. up[d] \in Seq(UpPackets) /\ down[d] \in Seq(DownPackets)
        BY DEF Known, Base, TypeOK, ChannelsOK
      <4> QED
        BY <4>1, ElementOfSeq
    <3> QED
      BY <3>1 DEF InTransit, Carried, UpPackets, DownPackets
  <2>8. Append(decided, h)[relayed + 2] = h /\ Len(Append(decided, h)) = relayed + 2
    BY <1>0, AppendProperties
  <2>9. Showing(U)'
    <3> SUFFICES ASSUME NEW d \in Client \ {Host}, Follows(d)'
                 PROVE  U[seq'[d]] = history'[d].table
      BY DEF Showing
    <3>1. Follows(d) /\ status[d] \in {"welcomed", "in"}
      BY <1>1 DEF Follows, Following
    <3>2. seq[d] \in Nat /\ seq[d] < n
      BY <1>0, <2>2, <3>1
    <3>3. T[seq[d]] = history[d].table
      BY <3>1 DEF Tells, Showing
    <3> QED
      BY <1>1, <2>5, <3>2, <3>3
  <2>10. Offering(U)'
    <3> SUFFICES ASSUME NEW b \in InTransit', Snapshot(b)
                 PROVE  U[b.seq] = b.table
      BY DEF Offering
    <3>1. b \in InTransit /\ b.seq < n
      BY <1>4, <2>2
    <3>2. b.seq \in Nat
      BY <2>7, <3>1, BodyFields DEF Snapshot
    <3>3. T[b.seq] = b.table
      BY <3>1 DEF Tells, Offering
    <3> QED
      BY <2>5, <3>1, <3>2, <3>3
  <2>11. Grounding(U)'
    <3> SUFFICES ASSUME NEW r, Pending(r)', r.faithful
                 PROVE  U[r.seq] = r.base
      BY DEF Grounding
    <3>1. Pending(r) /\ r.seq < n
      BY <1>3, <2>2
    <3>2. r.seq \in Nat
      BY <3>1 DEF Known, Recent
    <3>3. T[r.seq] = r.base
      BY <3>1 DEF Tells, Grounding
    <3> QED
      BY <2>5, <3>1, <3>2, <3>3
  <2>12. Bringing(U)'
    <3> SUFFICES ASSUME NEW d \in Client, Here(d)', NEW i \in DOMAIN down'[d], down'[d][i].body.type \in StateChanges
                 PROVE  U[down'[d][i].body.seq] = decided'[down'[d][i].n + 1].table
      BY DEF Bringing
    <3>1. CASE /\ i \in DOMAIN down[d] /\ down'[d][i] = down[d][i]
               /\ decided'[down[d][i].n + 1] = decided[down[d][i].n + 1]
      <4>1. Here(d)
        BY <1>1 DEF Here
      <4>2. T[down[d][i].body.seq] = decided[down[d][i].n + 1].table
        BY <3>1, <4>1 DEF Tells, Bringing
      <4>3. down[d][i].body.seq < n
        BY <2>2, <3>1 DEF HasNumber
      <4>4. down[d][i].body.seq \in Nat
        BY <2>7, <3>1, TransitMeaning, BodyFields DEF StateChanges
      <4> QED
        BY <2>5, <3>1, <4>2, <4>3, <4>4
    <3>2. CASE down'[d][i].n = relayed + 1 /\ down'[d][i].body = m
      <4>1. down'[d][i].body.seq = n /\ down'[d][i].n + 1 = relayed + 2
        BY <1>0, <3>2 DEF n
      <4> QED
        BY <1>8, <2>6, <2>8, <4>1
    <3> QED
      BY <1>6, <3>1, <3>2
  <2>13. Ending(U)'
    <3> SUFFICES ASSUME status'[Host] = "in", ~Changing(up'[Host])
                 PROVE  U[seq'[Host]] = decided'[Len(decided')].table
      BY DEF Ending
    <3>1. n = seq[Host]
      BY <1>1, <2>2
    <3>2. decided'[Len(decided')] = h
      BY <1>8, <2>8
    <3> QED
      BY <1>1, <2>6, <3>1, <3>2
  <2>14. Tells(U)'
    BY <2>9, <2>10, <2>11, <2>12, <2>13 DEF Tells
  <2> QED
    BY <2>14
<1>9. \/ decided' = decided /\ \A x \in Client : PassesOn(c, x)
      \/ \E h \in Histories : decided' = Append(decided, h)
  BY Deciding DEF Known, Base, HistInv
<1> QED
  BY <1>7, <1>8, <1>9

\* All that always holds, and the part of it that counts while the host's number grows.
Knowing == Base /\ Counted /\ HistInv /\ ReachInv /\ RecentInv

\* The second follows from the first.
LEMMA KnownMeaning == Knowing /\ ~renumbered => Known
BY DEF Knowing, Counted, OrderInv, StrictInv, RecentInv, Known

\* With every step there is a table for every number.
LEMMA TaleStep == Knowing /\ Knowing' /\ TaleInv /\ [HistoryNext]_historyVars => TaleInv'
<1> SUFFICES ASSUME Knowing, Knowing', TaleInv, [HistoryNext]_historyVars, ~renumbered'
             PROVE  \E T \in [Nat -> Changes] : Tells(T)'
  BY DEF TaleInv
<1> USE HostAssumption
<1>0. Base /\ Base' /\ TypeOK' /\ InStep'
  BY DEF Knowing, Base, HistInv
<1>1. CASE Idles /\ decided' = decided
  <2>1. ~renumbered
    BY <1>1 DEF Idles
  <2>2. PICK T \in [Nat -> Changes] : Tells(T)
    BY <2>1 DEF TaleInv
  <2>3. Showing(T)' /\ Offering(T)' /\ Grounding(T)' /\ Bringing(T)' /\ Ending(T)'
    <3>1. /\ up' = up /\ down' = down /\ status' = status /\ pos' = pos /\ suspect' = suspect
          /\ \A c \in Client : status[c] \in {"welcomed", "in"} => seq'[c] = seq[c] /\ history'[c] = history[c]
      BY <1>1 DEF Idles, Here, Connected
    <3>2. Showing(T)'
      BY <2>2, <3>1 DEF Tells, Showing, Follows, Following, Loading
    <3>3. Offering(T)' /\ Grounding(T)' /\ Bringing(T)'
      BY <1>1, <2>2, <3>1 DEF Tells, Offering, Grounding, Pending, InTransit, Carried, Bringing, Here
    <3>4. Ending(T)'
      BY <1>1, <2>2, <3>1 DEF Tells, Ending
    <3> QED
      BY <3>2, <3>3, <3>4
  <2>4. Tells(T)'
    BY <2>3 DEF Tells
  <2> QED
    BY <2>4
<1>2. ASSUME NEW c \in Client, Moves(c), Plays(c), decided' = decided
      PROVE  \E T \in [Nat -> Changes] : Tells(T)'
  <2>1. ~renumbered
    BY <1>2 DEF Moves
  <2>2. PICK T \in [Nat -> Changes] : Tells(T)
    BY <2>1 DEF TaleInv
  <2>3. Known
    BY <2>1, KnownMeaning
  <2>4. Speaks(c) /\ Learns(c) /\ Sees(c)
    BY <1>0, <1>2, PlaysSpeaks, PlaysSees DEF Base
  <2>5. Showing(T)'
    BY <1>0, <1>2, <2>2, <2>3, <2>4, MovesShowing
  <2>6. Offering(T)' /\ Grounding(T)'
    BY <1>2, <2>1, <2>2, <2>3, <2>4, MovesOffering
  <2>7. Bringing(T)' /\ Ending(T)'
    BY <1>2, <2>2, <2>3, <2>4, MovesEnding
  <2>8. Tells(T)'
    BY <2>5, <2>6, <2>7 DEF Tells
  <2> QED
    BY <2>8
<1>3. ASSUME NEW c \in Client, Quits(c) \/ Connect(c), decided' = decided
      PROVE  \E T \in [Nat -> Changes] : Tells(T)'
  <2>1. ~renumbered
    BY <1>3 DEF Quits, Connect
  <2>2. PICK T \in [Nat -> Changes] : Tells(T)
    BY <2>1 DEF TaleInv
  <2>3. Tells(T)'
    BY <1>3, <2>1, <2>2, KnownMeaning, ComesTale
  <2> QED
    BY <2>3
<1>4. ASSUME NEW c \in Client, Relaying(c), Decides(c)
      PROVE  \E T \in [Nat -> Changes] : Tells(T)'
  <2>1. ~renumbered
    BY <1>4 DEF Relaying, observers
  <2>2. PICK T \in [Nat -> Changes] : Tells(T)
    BY <2>1 DEF TaleInv
  <2> QED
    BY <1>4, <2>1, <2>2, KnownMeaning, RelayingTale
<1>5. CASE ProgramStep /\ decided' = decided
  BY <1>0, <1>1, <1>2, <1>3, <1>5, ProgramShapes DEF Base
<1>6. CASE UNCHANGED historyVars
  <2>1. UNCHANGED vars /\ decided' = decided
    BY <1>6 DEF historyVars
  <2> QED
    BY <1>0, <1>1, <2>1, Stutters DEF Base
<1> QED
  BY <1>4, <1>5, <1>6 DEF HistoryNext, Decides

\* At the start there is one table.
LEMMA TaleInit == HistoryInit => TaleInv
<1> SUFFICES ASSUME HistoryInit
             PROVE  \E T \in [Nat -> Changes] : Tells(T)
  BY DEF TaleInv
<1> USE HostAssumption
<1>1. PICK T \in [Nat -> Changes] : \A k \in Nat : T[k] = <<>>
  <2> DEFINE V == [k \in Nat |-> <<>>]
  <2>1. V \in [Nat -> Changes] /\ \A k \in Nat : V[k] = <<>>
    BY DEF Changes
  <2> QED
    BY <2>1
<1>2. \A c \in Client : up[c] = <<>> /\ down[c] = <<>>
  BY DEF HistoryInit, Init, RelayInit
<1>3. InTransit = {}
  BY <1>2 DEF InTransit, Carried
<1>4. seq[Host] = 0 /\ decided[Len(decided)].table = <<>>
  BY DEF HistoryInit, Init, Cleared
<1>5. Showing(T)
  BY DEF HistoryInit, Init, Showing, Follows, Following
<1>6. Offering(T) /\ Grounding(T)
  BY <1>3 DEF Offering, Grounding, Pending
<1>7. Bringing(T)
  BY <1>2 DEF Bringing
<1>8. Ending(T)
  BY <1>1, <1>4 DEF Ending
<1> QED
  BY <1>5, <1>6, <1>7, <1>8 DEF Tells

\* All of it always holds.
LEMMA TaleAlways == HistorySpec => [](Knowing /\ TaleInv)
<1>1. HistorySpec => []Knowing
  BY HistoryHides, HistAlways, StrictAlways, ReachAlways, RecentAlways, PTL DEF Knowing
<1> QED
  BY <1>1, TaleInit, TaleStep, PTL DEF HistorySpec

\* When an accepted change comes back to the player who asked for it, his table is the one
\* he was looking at when he did, even if he left and joined again in between
\* (ChangeAcceptedMessage.Handle executes the command without looking at the table).
THEOREM OwnChangesApplyToBase == HistorySpec => []OwnChangeAppliesToBase
<1>1. Knowing /\ TaleInv => OwnChangeAppliesToBase
  <2> SUFFICES ASSUME Knowing, TaleInv, ~renumbered, NEW c \in Client \ (suspect \cup {Host}),
                      status[c] \in {"welcomed", "in"}, down[c] # <<>>, Body(c).type = "ChangeAccepted",
                      Body(c).req.sender = c, Body(c).req.synced, Body(c).req.faithful
               PROVE  history[c].table = Body(c).req.base
    BY DEF OwnChangeAppliesToBase, ChangeAppliesToBase
  <2> DEFINE b == Body(c)
             r == b.req
  <2>1. PICK T \in [Nat -> Changes] : Tells(T)
    BY DEF TaleInv
  <2>2. Known /\ AcceptedIsCurrent
    BY KnownMeaning DEF Knowing, Counted
  <2>3. down[c] \in Seq(DownPackets) /\ seq[c] \in Nat
    BY DEF Knowing, Base, TypeOK, ChannelsOK, NumbersOK
  <2>4. 1 \in DOMAIN down[c] /\ down[c][1].body = b /\ b \in InTransit
    BY <2>3, TailIndex, TransitMeaning DEF Body
  <2>5. b.type = "ChangeAccepted" /\ MadeInSession(r) /\ Pending(r) /\ r.faithful
    BY <2>4 DEF MadeInSession, Pending
  <2>6. r.seq \in Nat /\ r.sender = c /\ r.seq <= seq[c]
    BY <2>2, <2>5 DEF Known, Recent
  <2>7. b.seq = r.seq + 1
    BY <2>2, <2>4, <2>5 DEF AcceptedIsCurrent
  <2>8. seq[c] < b.seq
    BY <2>2, <2>4, <2>5 DEF Known, Strict, Ahead, StateChanges
  <2>9. seq[c] = r.seq
    BY <2>3, <2>6, <2>7, <2>8
  <2>10. T[seq[c]] = history[c].table
    BY <2>1 DEF Tells, Showing, Follows, Following
  <2>11. T[r.seq] = r.base
    BY <2>1, <2>5 DEF Tells, Grounding
  <2> QED
    BY <2>9, <2>10, <2>11
<1> QED
  BY <1>1, TaleAlways, PTL

=============================================================================
