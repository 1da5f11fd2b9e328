------------------------------- MODULE Relay --------------------------------
(***************************************************************************)
(* The relay server (RakServer) and the sending half of a client           *)
(* (RakClient).                                                            *)
(*                                                                         *)
(* Every player's program talks only to the server process, over one       *)
(* reliable ordered RakNet channel in each direction: up[c] is what client *)
(* c has sent and the server has not yet read, down[c] what the server has *)
(* sent and c has not yet handled.  loopback[c] is RakClient's             *)
(* _networkMessages queue, used for what a client sends to itself.  The    *)
(* first client to connect to the server is the host; the session modelled *)
(* here starts right after that.                                           *)
(*                                                                         *)
(* Packet ids select a route: to the host, to all members (the sender      *)
(* included), or from the host to one client.  "Disconnect" stands for     *)
(* RakNet's disconnection notification.  relayed numbers the broadcasts in *)
(* the order in which the server sends them; it is an observer's counter,  *)
(* not a variable of the program.                                          *)
(***************************************************************************)
EXTENDS Naturals, Sequences

CONSTANTS
  Client,   \* the programs that may take part in the session
  Host      \* the first one to connect

ASSUME HostAssumption == Host \in Client

VARIABLES
  members,   \* RakServer._playersById
  up,        \* up[c]: reliable packets from client c to the server
  down,      \* down[c]: reliable packets from the server to client c
  loopback,  \* loopback[c]: RakClient._networkMessages
  relayed    \* how many packets the server has broadcast so far

relayVars == <<members, up, down, loopback, relayed>>

RelayInit ==
  /\ members = {Host}
  /\ up = [c \in Client |-> <<>>]
  /\ down = [c \in Client |-> <<>>]
  /\ loopback = [c \in Client |-> <<>>]
  /\ relayed = 0

-----------------------------------------------------------------------------
(* Sending.  Each operator is the new value of a channel.                  *)

\* RakClient.Send(message), while connected: the packet goes to the server.
Upload(c, route, to, body) ==
  [up EXCEPT ![c] = Append(@, [route |-> route, to |-> to, body |-> body])]

\* RakClient.Send(recipientId, message): a message to oneself is queued
\* locally, any other goes through the server.
SendToOne(c, r, body) ==
  IF r = c
  THEN /\ loopback' = [loopback EXCEPT ![c] =
                         Append(@, [from |-> c, n |-> 0, body |-> body])]
       /\ up' = up
  ELSE /\ up' = Upload(c, "HostToSingleClient", r, body)
       /\ loopback' = loopback

\* Client c has disconnected, and the server has not found out.
HungUp(c) == up[c] # <<>> /\ up[c][Len(up[c])].route = "Disconnect"

\* The server sends a packet to the clients in S; those who hung up miss it.
Deliver(S, from, n, body) ==
  [c \in Client |-> IF c \in S /\ ~HungUp(c)
                    THEN Append(down[c], [from |-> from, n |-> n, body |-> body])
                    ELSE down[c]]

-----------------------------------------------------------------------------
(* RakServer.processPacket: one action per kind of packet.                 *)

\* The server process, which runs until the host leaves, reads the next packet
\* of client c, which has this route.
Receive(c, route) ==
  /\ Host \in members
  /\ up[c] # <<>>
  /\ Head(up[c]).route = route
  /\ up' = [up EXCEPT ![c] = Tail(@)]

OnReliableMessageFromClientToHost(c) ==
  /\ Receive(c, "ClientToHost")
  /\ down' = IF c \in members THEN Deliver({Host}, c, 0, Head(up[c]).body) ELSE down
  /\ UNCHANGED <<members, loopback, relayed>>

OnReliableMessageFromClientToAll(c) ==
  /\ Receive(c, "ClientToAll")
  /\ IF c \in members
     THEN /\ relayed' = relayed + 1
          /\ down' = Deliver(members, c, relayed + 1, Head(up[c]).body)
     ELSE UNCHANGED <<relayed, down>>
  /\ UNCHANGED <<members, loopback>>

OnReliableMessageFromHostToSingleClient(c) ==
  /\ Receive(c, "HostToSingleClient")
  /\ down' = Deliver(members \cap {Head(up[c]).to}, c, 0, Head(up[c]).body)
  /\ UNCHANGED <<members, loopback, relayed>>

\* A new connection: the server remembers the player and asks the host to
\* let him in.
OnPlayerConnected(c) ==
  /\ members' = members \cup {c}
  /\ down' = Deliver({Host}, c, 0, [type |-> "PlayerWantsToJoin"])

\* A lost connection.  When the host has left the server shuts down, and every
\* other client finds its connection lost after what was already sent to it.
OnPlayerDisconnected(c) ==
  /\ Receive(c, "Disconnect")
  /\ IF c = Host
     THEN /\ members' = {}
          /\ down' = Deliver(members \ {Host}, Host, 0, [type |-> "HostDisconnected"])
          /\ relayed' = relayed
     ELSE /\ members' = members \ {c}
          /\ relayed' = relayed + 1
          /\ down' = Deliver(members \ {c}, c, relayed + 1, [type |-> "PlayerHasLeft"])
  /\ UNCHANGED loopback

ServerStep(c) ==
  \/ OnReliableMessageFromClientToHost(c)
  \/ OnReliableMessageFromClientToAll(c)
  \/ OnReliableMessageFromHostToSingleClient(c)
  \/ OnPlayerDisconnected(c)

\* RakClient.Disconnect: RakNet shuts down; of the packets still to be sent any
\* suffix may be lost, what was received and not retrieved is dropped.  What has
\* been retrieved is not: see TableSync's rest.
Hangup(c) ==
  /\ \E k \in 0 .. Len(up[c]) :
       up' = [up EXCEPT ![c] = Append(SubSeq(@, 1, k),
                 [route |-> "Disconnect", to |-> c, body |-> [type |-> "Disconnect"]])]
  /\ down' = [down EXCEPT ![c] = <<>>]
  /\ UNCHANGED <<members, loopback, relayed>>
=============================================================================
