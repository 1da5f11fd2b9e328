-------------------------- MODULE TableSyncProofs ---------------------------
(***************************************************************************)
(* Theorems about TableSync, for any number of players and any bounds.     *)
(***************************************************************************)
EXTENDS TableSync, TLAPS, SequenceTheorems

-----------------------------------------------------------------------------
(* What is in a packet, by its type.                                       *)

\* A request that travels, alone or within an answer, is a whole request; a state
\* change has a number; a snapshot is a table.
LEMMA BodyFields ==
  ASSUME NEW b \in Bodies
  PROVE  /\ b.type \in {"Request", "ChangeRejected", "ChangeAccepted"} => b.req \in Requests
         /\ b.type \in {"ChangeAccepted", "ShuffleResult", "GameLoaded", "GameBoxHasChanged",
                        "ConnectionAccepted"} => b.seq \in Nat
         /\ b.type \in {"ShuffleResult", "GameLoaded", "GameBoxHasChanged"}
              => b.change \in 1 .. MaxRequests
         /\ b.type = "ConnectionAccepted" => b.table \in Changes /\ b.clean \in BOOLEAN
BY DEF Bodies, Changes

\* What programs and server put into packets are bodies.
LEMMA BodyMade ==
  /\ \A r \in Requests : /\ [type |-> "Request", req |-> r] \in Bodies
                         /\ [type |-> "ChangeRejected", req |-> r] \in Bodies
  /\ \A r \in Requests, n \in Nat : [type |-> "ChangeAccepted", seq |-> n, req |-> r] \in Bodies
  /\ \A n \in Nat, k \in 1 .. MaxRequests :
       \A t \in {"ShuffleResult", "GameLoaded", "GameBoxHasChanged"} :
         [type |-> t, seq |-> n, change |-> k] \in Bodies
  /\ \A n \in Nat, t \in Changes, k \in BOOLEAN :
       [type |-> "ConnectionAccepted", seq |-> n, table |-> t, clean |-> k] \in Bodies
  /\ \A t \in {"PlayerWantsToJoin", "PlayerHasJoined", "PlayerHasLeft",
               "HostDisconnected", "Disconnect"} : [type |-> t] \in Bodies
BY DEF Bodies, Changes

-----------------------------------------------------------------------------
(* Channels.                                                               *)

\* The first packet of a channel, and what remains.
LEMMA ConsumeType ==
  ASSUME NEW S, NEW f \in [Client -> Seq(S)], NEW c \in Client, f[c] # <<>>
  PROVE  /\ Head(f[c]) \in S
         /\ [f EXCEPT ![c] = Tail(@)] \in [Client -> Seq(S)]
<1>1. f[c] \in Seq(S)
  OBVIOUS
<1>2. Head(f[c]) \in S /\ Tail(f[c]) \in Seq(S)
  BY <1>1, HeadTailProperties
<1> QED
  BY <1>2

LEMMA AppendType ==
  ASSUME NEW S, NEW f \in [Client -> Seq(S)], NEW c \in Client, NEW e \in S
  PROVE  [f EXCEPT ![c] = Append(@, e)] \in [Client -> Seq(S)]
<1>1. Append(f[c], e) \in Seq(S)
  BY AppendProperties
<1> QED
  BY <1>1

LEMMA UploadType ==
  ASSUME ChannelsOK, NEW c \in Client, NEW route \in Routes, NEW to \in Client,
         NEW body \in Bodies
  PROVE  Upload(c, route, to, body) \in [Client -> Seq(UpPackets)]
<1>1. [route |-> route, to |-> to, body |-> body] \in UpPackets
  BY DEF UpPackets
<1> QED
  BY <1>1, AppendType DEF Upload, ChannelsOK

LEMMA DeliverType ==
  ASSUME ChannelsOK, NEW S, NEW from \in Client, NEW n \in Nat, NEW body \in Bodies
  PROVE  Deliver(S, from, n, body) \in [Client -> Seq(DownPackets)]
<1>1. [from |-> from, n |-> n, body |-> body] \in DownPackets
  BY DEF DownPackets
<1>2. \A c \in Client :
        Append(down[c], [from |-> from, n |-> n, body |-> body]) \in Seq(DownPackets)
  BY <1>1, AppendProperties DEF ChannelsOK
<1> QED
  BY <1>2 DEF Deliver, ChannelsOK

\* The last element of a sequence, and those before it.
LEMMA FrontType ==
  ASSUME NEW S, NEW s \in Seq(S)
  PROVE  Front(s) \in Seq(S) /\ (s # <<>> => Last(s) \in S)
<1>1. Len(s) - 1 \in Int /\ \A i \in 1 .. Len(s) - 1 : s[i] \in S
  OBVIOUS
<1> QED
  BY <1>1, SubSeqProperties DEF Front, Last

-----------------------------------------------------------------------------
(* Types.                                                                  *)

LEMMA SetHistoryType ==
  ASSUME TablesOK, shown' \in Changes, NEW c \in Client, NEW h \in Histories, SetHistory(c, h)
  PROVE  TablesOK'
BY DEF TablesOK, SetHistory

\* What the stacks and the table of a history hold, and when a record is one.
LEMMA HistoryFields ==
  ASSUME NEW h \in Histories
  PROVE  /\ h.table \in Changes /\ h.undo \in Seq(Entries) /\ h.redo \in Seq(Entries)
         /\ \A e \in Entries : e.changes \in Changes /\ e.rotation \in BOOLEAN
BY DEF Histories, Entries

LEMMA HistoryMade ==
  /\ \A t \in Changes, u \in Seq(Entries), r \in Seq(Entries) :
       [table |-> t, undo |-> u, redo |-> r] \in Histories
  /\ \A t \in Changes, r \in BOOLEAN : [changes |-> t, rotation |-> r] \in Entries
BY DEF Histories, Entries

LEMMA ClearedType ==
  /\ \A t \in Changes : Cleared(t) \in Histories
  /\ \A h \in Histories : ClearUndo(h) \in Histories
<1>1. <<>> \in Seq(Entries)
  OBVIOUS
<1>2. \A t \in Changes : Cleared(t) \in Histories
  BY <1>1, HistoryMade DEF Cleared
<1> QED
  BY <1>2, HistoryFields DEF ClearUndo

\* Appending a change to a table, or an entry to a stack.
LEMMA DoneType ==
  ASSUME NEW h \in Histories, NEW k \in 1 .. MaxRequests, NEW r \in BOOLEAN
  PROVE  Done(h, k, r) \in Histories
<1>1. /\ h.table \in Changes /\ h.undo \in Seq(Entries)
      /\ \A e \in Entries : e.changes \in Changes /\ e.rotation \in BOOLEAN
  BY HistoryFields
<1>2. Append(h.table, k) \in Changes /\ <<k>> \in Changes /\ <<>> \in Seq(Entries)
  BY <1>1, AppendProperties DEF Changes
<1> DEFINE grown == [Last(h.undo) EXCEPT !.changes = Append(@, k)]
           fresh == [changes |-> <<k>>, rotation |-> r]
           joined == Append(Front(h.undo), grown)
           kept == IF Len(h.undo) >= UndoLimit THEN Tail(h.undo) ELSE h.undo
<1>3. ASSUME Aggregates(h, r)
      PROVE  joined \in Seq(Entries)
  <2>1. h.undo # <<>>
    BY <1>3 DEF Aggregates
  <2>2. Front(h.undo) \in Seq(Entries) /\ Last(h.undo) \in Entries
    BY <1>1, <2>1, FrontType
  <2>3. Append(Last(h.undo).changes, k) \in Changes
    BY <1>1, <2>2, AppendProperties DEF Changes
  <2>4. grown \in Entries
    BY <2>2, <2>3 DEF Entries
  <2> QED
    BY <2>2, <2>4, AppendProperties
<1>4. Append(kept, fresh) \in Seq(Entries)
  <2>1. fresh \in Entries
    BY <1>2, HistoryMade
  <2>2. kept \in Seq(Entries)
    <3>1. CASE Len(h.undo) >= UndoLimit
      <4>1. h.undo # <<>>
        BY <1>1, <3>1, UndoLimitAssumption, EmptySeq
      <4> QED
        BY <1>1, <3>1, <4>1, HeadTailProperties
    <3>2. CASE ~(Len(h.undo) >= UndoLimit)
      BY <1>1, <3>2
    <3> QED
      BY <3>1, <3>2
  <2> QED
    BY <2>1, <2>2, AppendProperties
<1>5. Done(h, k, r) = [table |-> Append(h.table, k),
                       undo |-> IF Aggregates(h, r) THEN joined ELSE Append(kept, fresh),
                       redo |-> <<>>]
  BY DEF Done
<1> HIDE DEF joined, kept, fresh
<1> QED
  BY <1>2, <1>3, <1>4, <1>5, HistoryMade

\* The entries that are undone and redone come from the stacks.  The table is
\* shorter than the entry that is undone in no reachable state, but its type does
\* not depend on that.
LEMMA UndoneType ==
  ASSUME NEW h \in Histories
  PROVE  Undone(h) \in Histories
<1>1. CASE h.undo = <<>>
  BY <1>1 DEF Undone
<1>2. CASE h.undo # <<>>
  <2>1. h.table \in Changes /\ h.undo \in Seq(Entries) /\ h.redo \in Seq(Entries)
    BY HistoryFields
  <2>2. Front(h.undo) \in Seq(Entries) /\ Last(h.undo) \in Entries
    BY <1>2, <2>1, FrontType
  <2>3. Append(h.redo, Last(h.undo)) \in Seq(Entries)
    BY <2>1, <2>2, AppendProperties
  <2>4. SubSeq(h.table, 1, Len(h.table) - Len(Last(h.undo).changes)) \in Changes
    <3> DEFINE n == Len(h.table) - Len(Last(h.undo).changes)
    <3>1. Last(h.undo).changes \in Seq(1 .. MaxRequests) /\ h.table \in Seq(1 .. MaxRequests)
      BY <2>1, <2>2, HistoryFields DEF Changes
    <3>2. Len(Last(h.undo).changes) \in Nat /\ Len(h.table) \in Nat
      BY <3>1, LenProperties
    <3>3. n \in Int /\ \A i \in 1 .. n : i \in 1 .. Len(h.table)
      BY <3>2
    <3>4. \A i \in 1 .. n : h.table[i] \in 1 .. MaxRequests
      BY <3>1, <3>3, ElementOfSeq
    <3> QED
      BY <3>3, <3>4, SubSeqProperties DEF Changes
  <2> QED
    BY <1>2, <2>2, <2>3, <2>4, HistoryMade DEF Undone
<1> QED
  BY <1>1, <1>2

LEMMA RedoneType ==
  ASSUME NEW h \in Histories
  PROVE  Redone(h) \in Histories
<1>1. CASE h.redo = <<>>
  BY <1>1 DEF Redone
<1>2. CASE h.redo # <<>>
  <2>1. h.table \in Changes /\ h.undo \in Seq(Entries) /\ h.redo \in Seq(Entries)
    BY HistoryFields
  <2>2. Front(h.redo) \in Seq(Entries) /\ Last(h.redo) \in Entries
    BY <1>2, <2>1, FrontType
  <2>3. Append(h.undo, Last(h.redo)) \in Seq(Entries)
    BY <2>1, <2>2, AppendProperties
  <2>4. h.table \o Last(h.redo).changes \in Changes
    BY <2>1, <2>2, HistoryFields, ConcatProperties DEF Changes
  <2> QED
    BY <1>2, <2>2, <2>3, <2>4, HistoryMade DEF Redone
<1> QED
  BY <1>1, <1>2

LEMMA AppliedType ==
  ASSUME NEW h \in Histories, NEW req \in Requests
  PROVE  Applied(h, req) \in Histories
<1>1. req.kind \in AllKinds /\ req.id \in 1 .. MaxRequests /\ (req.kind = "rotate") \in BOOLEAN
  BY DEF Requests
<1>2. Done(h, req.id, req.kind = "rotate") \in Histories
  BY <1>1, DoneType
<1> QED
  BY <1>1, <1>2, UndoneType, RedoneType DEF Applied, AllKinds

LEMMA HangupType ==
  ASSUME ChannelsOK, NEW c \in Client, Hangup(c)
  PROVE  ChannelsOK'
<1>1. PICK k \in 0 .. Len(up[c]) :
        up' = [up EXCEPT ![c] = Append(SubSeq(@, 1, k),
                 [route |-> "Disconnect", to |-> c, body |-> [type |-> "Disconnect"]])]
  BY DEF Hangup
<1>2. SubSeq(up[c], 1, k) \in Seq(UpPackets)
  BY SubSeqProperties DEF ChannelsOK
<1>3. [route |-> "Disconnect", to |-> c, body |-> [type |-> "Disconnect"]] \in UpPackets
  BY BodyMade DEF UpPackets, Routes
<1>4. Append(SubSeq(up[c], 1, k),
         [route |-> "Disconnect", to |-> c, body |-> [type |-> "Disconnect"]]) \in Seq(UpPackets)
  BY <1>2, <1>3, AppendProperties
<1>5. up' \in [Client -> Seq(UpPackets)]
  BY <1>1, <1>4 DEF ChannelsOK
<1>6. <<>> \in Seq(DownPackets)
  OBVIOUS
<1> QED
  BY <1>5, <1>6 DEF Hangup, ChannelsOK

LEMMA SendToOneType ==
  ASSUME ChannelsOK, NEW c \in Client, NEW r \in Client, NEW body \in Bodies,
         SendToOne(c, r, body)
  PROVE  up' \in [Client -> Seq(UpPackets)] /\ loopback' \in [Client -> Seq(DownPackets)]
<1>1. [from |-> c, n |-> 0, body |-> body] \in DownPackets
  BY DEF DownPackets
<1>2. up \in [Client -> Seq(UpPackets)] /\ loopback \in [Client -> Seq(DownPackets)]
  BY DEF ChannelsOK
<1>3. CASE r = c
  <2>1. [loopback EXCEPT ![c] = Append(@, [from |-> c, n |-> 0, body |-> body])]
          \in [Client -> Seq(DownPackets)]
    BY <1>1, <1>2, AppendType
  <2> QED
    BY <1>2, <1>3, <2>1 DEF SendToOne
<1>4. CASE r # c
  <2>1. Upload(c, "HostToSingleClient", r, body) \in [Client -> Seq(UpPackets)]
    BY UploadType DEF Routes
  <2> QED
    BY <1>2, <1>4, <2>1 DEF SendToOne
<1> QED
  BY <1>3, <1>4

\* A packet has the type its handler expects of it, and is consumed.
LEMMA HandlingType ==
  ASSUME ChannelsOK, ObserversOK, NEW c \in Client, NEW t, Handling(c, t)
  PROVE  /\ Body(c) \in Bodies
         /\ Body(c).type = t
         /\ Head(down[c]).from \in Client
         /\ down' \in [Client -> Seq(DownPackets)]
         /\ pos' \in [Client -> Nat]
         /\ UNCHANGED <<members, relayed, issued, counts, rest>>
<1>1. Head(down[c]) \in DownPackets /\ [down EXCEPT ![c] = Tail(@)] \in [Client -> Seq(DownPackets)]
  BY ConsumeType DEF Handling, ChannelsOK
<1>2. Head(down[c]).n \in Nat /\ Head(down[c]).from \in Client /\ Body(c) \in Bodies
  BY <1>1 DEF DownPackets, Body
<1>3. pos' \in [Client -> Nat]
  BY <1>2 DEF Handling, ObserversOK
<1> QED
  BY <1>1, <1>2, <1>3 DEF Handling, Body

\* The server moves packets.
LEMMA RelayingType ==
  ASSUME TypeOK, NEW c \in Client, Relaying(c)
  PROVE  TypeOK'
<1>1. TablesOK' /\ NumbersOK' /\ RestOK' /\ ObserversOK'
  BY DEF TypeOK, TablesOK, NumbersOK, RestOK, ObserversOK, Relaying, observers
<1>2. ASSUME NEW route, Receive(c, route)
      PROVE  /\ Head(up[c]) \in UpPackets
             /\ Head(up[c]).body \in Bodies
             /\ up' \in [Client -> Seq(UpPackets)]
  <2>1. up \in [Client -> Seq(UpPackets)] /\ up[c] # <<>>
    BY <1>2 DEF Receive, TypeOK, ChannelsOK
  <2>2. Head(up[c]) \in UpPackets /\ [up EXCEPT ![c] = Tail(@)] \in [Client -> Seq(UpPackets)]
    BY <2>1, ConsumeType
  <2> QED
    BY <1>2, <2>2 DEF Receive, UpPackets
<1> DEFINE Body0 == Head(up[c]).body
<1>3. CASE OnReliableMessageFromClientToHost(c)
  <2>1. Body0 \in Bodies /\ up' \in [Client -> Seq(UpPackets)]
    BY <1>2, <1>3 DEF OnReliableMessageFromClientToHost
  <2>2. Deliver({Host}, c, 0, Body0) \in [Client -> Seq(DownPackets)]
    BY <2>1, DeliverType DEF TypeOK
  <2> QED
    BY <1>1, <1>3, <2>1, <2>2 DEF OnReliableMessageFromClientToHost, TypeOK, ChannelsOK
<1>4. CASE OnReliableMessageFromClientToAll(c)
  <2>1. Body0 \in Bodies /\ up' \in [Client -> Seq(UpPackets)]
    BY <1>2, <1>4 DEF OnReliableMessageFromClientToAll
  <2>2. relayed + 1 \in Nat
    BY DEF TypeOK, ChannelsOK
  <2>3. Deliver(members, c, relayed + 1, Body0) \in [Client -> Seq(DownPackets)]
    BY <2>1, <2>2, DeliverType DEF TypeOK
  <2> QED
    BY <1>1, <1>4, <2>1, <2>2, <2>3 DEF OnReliableMessageFromClientToAll, TypeOK, ChannelsOK
<1>5. CASE OnReliableMessageFromHostToSingleClient(c)
  <2>1. Body0 \in Bodies /\ up' \in [Client -> Seq(UpPackets)]
    BY <1>2, <1>5 DEF OnReliableMessageFromHostToSingleClient
  <2>2. Deliver(members \cap {Head(up[c]).to}, c, 0, Body0) \in [Client -> Seq(DownPackets)]
    BY <2>1, DeliverType DEF TypeOK
  <2> QED
    BY <1>1, <1>5, <2>1, <2>2 DEF OnReliableMessageFromHostToSingleClient, TypeOK, ChannelsOK
<1>6. CASE OnPlayerDisconnected(c)
  <2>1. up' \in [Client -> Seq(UpPackets)]
    BY <1>2, <1>6 DEF OnPlayerDisconnected
  <2>2. relayed + 1 \in Nat
    BY DEF TypeOK, ChannelsOK
  <2>3. Deliver(members \ {Host}, Host, 0, [type |-> "HostDisconnected"])
          \in [Client -> Seq(DownPackets)]
    BY BodyMade, HostAssumption, DeliverType DEF TypeOK
  <2>4. Deliver(members \ {c}, c, relayed + 1, [type |-> "PlayerHasLeft"])
          \in [Client -> Seq(DownPackets)]
    BY <2>2, BodyMade, DeliverType DEF TypeOK
  <2> QED
    BY <1>1, <1>6, <2>1, <2>2, <2>3, <2>4 DEF OnPlayerDisconnected, TypeOK, ChannelsOK
<1> QED
  BY <1>3, <1>4, <1>5, <1>6 DEF Relaying, ServerStep

\* What players do.
LEMMA PlayingType ==
  ASSUME TypeOK,
         \/ \E c \in Client, kind \in Kinds : Ask(c, kind)
         \/ LoadGame \/ OpenBox \/ Animate
         \/ \E c \in Client : Connect(c) \/ Leave(c)
  PROVE  TypeOK'
<1> USE BoundsAssumption, HostAssumption
<1>1. ASSUME NEW c \in Client, NEW kind \in Kinds, Ask(c, kind)
      PROVE  TypeOK'
  <2> DEFINE req == [kind |-> kind, id |-> issued + 1, sender |-> c, seq |-> seq[c],
                     base |-> history[c].table, synced |-> status[c] # "joining",
                     faithful |-> c \notin suspect]
  <2>1. issued + 1 \in 1 .. MaxRequests
    BY <1>1 DEF Ask, TypeOK, NumbersOK
  <2>2. req \in Requests
    <3>1. history[c].table \in Changes
      BY HistoryFields DEF TypeOK, TablesOK
    <3> QED
      BY <2>1, <3>1 DEF Requests, TypeOK, NumbersOK, Changes
  <2>3. Upload(c, "ClientToHost", Host, [type |-> "Request", req |-> req])
          \in [Client -> Seq(UpPackets)]
    BY <2>2, BodyMade, UploadType DEF Routes, TypeOK
  <2>4. ChannelsOK'
    BY <1>1, <2>3 DEF Ask, TypeOK, ChannelsOK
  <2>5. TablesOK' /\ NumbersOK' /\ ObserversOK'
    <3> HIDE DEF req
    <3>1. TablesOK'
      BY <1>1 DEF Ask, TypeOK, TablesOK
    <3>2. NumbersOK'
      BY <1>1, <2>1 DEF Ask, TypeOK, NumbersOK
    <3>3. ObserversOK'
      BY <1>1, <2>1 DEF Ask, TypeOK, ObserversOK
    <3> QED
      BY <3>1, <3>2, <3>3
  <2>6. RestOK'
    BY <1>1 DEF Ask, TypeOK, RestOK
  <2> QED
    BY <2>4, <2>5, <2>6 DEF TypeOK
<1>2. CASE LoadGame
  <2>1. issued + 1 \in 1 .. MaxRequests /\ seq[Host] + 1 \in Nat
    BY <1>2 DEF LoadGame, TypeOK, NumbersOK
  <2>2. Upload(Host, "ClientToAll", Host,
          [type |-> "GameLoaded", seq |-> seq[Host] + 1, change |-> issued + 1])
          \in [Client -> Seq(UpPackets)]
    BY <2>1, BodyMade, UploadType DEF Routes, TypeOK
  <2>3. ChannelsOK'
    BY <1>2, <2>2 DEF LoadGame, TypeOK, ChannelsOK
  <2>4. TablesOK'
    <3>1. <<issued + 1>> \in Changes
      BY <2>1 DEF Changes
    <3> QED
      BY <1>2, <3>1, ClearedType, SetHistoryType DEF LoadGame, NewGame, TypeOK
  <2>5. NumbersOK' /\ ObserversOK'
    BY <1>2, <2>1 DEF LoadGame, TypeOK, NumbersOK, ObserversOK
  <2>6. RestOK'
    BY <1>2 DEF LoadGame, TypeOK, RestOK
  <2> QED
    BY <2>3, <2>4, <2>5, <2>6 DEF TypeOK
<1>3. CASE OpenBox
  <2>1. issued + 1 \in 1 .. MaxRequests /\ seq[Host] + 1 \in Nat
    BY <1>3 DEF OpenBox, TypeOK, NumbersOK
  <2>2. Upload(Host, "ClientToAll", Host,
          [type |-> "GameBoxHasChanged", seq |-> seq[Host] + 1, change |-> issued + 1])
          \in [Client -> Seq(UpPackets)]
    BY <2>1, BodyMade, UploadType DEF Routes, TypeOK
  <2>3. ChannelsOK'
    BY <1>3, <2>2 DEF OpenBox, TypeOK, ChannelsOK
  <2>4. TablesOK'
    BY <1>3 DEF OpenBox, TypeOK, TablesOK
  <2>5. NumbersOK' /\ ObserversOK'
    BY <1>3, <2>1 DEF OpenBox, TypeOK, NumbersOK, ObserversOK
  <2>6. RestOK'
    BY <1>3 DEF OpenBox, TypeOK, RestOK
  <2> QED
    BY <2>3, <2>4, <2>5, <2>6 DEF TypeOK
<1>4. CASE Animate
  <2>1. history[Host].table \in Changes
    BY HistoryFields DEF TypeOK, TablesOK
  <2> QED
    BY <1>4, <2>1 DEF Animate, TypeOK, ChannelsOK, TablesOK, NumbersOK, RestOK, ObserversOK, relayVars,
                      observers
<1>5. ASSUME NEW c \in Client, Connect(c)
      PROVE  TypeOK'
  <2>1. Deliver({Host}, c, 0, [type |-> "PlayerWantsToJoin"]) \in [Client -> Seq(DownPackets)]
    BY BodyMade, DeliverType DEF TypeOK
  <2>2. ChannelsOK'
    BY <1>5, <2>1 DEF Connect, OnPlayerConnected, TypeOK, ChannelsOK
  <2>3. TablesOK'
    BY <1>5 DEF Connect, TypeOK, TablesOK
  <2>4. NumbersOK'
    <3>1. status' \in [Client -> Connected \cup {"out"}]
      BY <1>5 DEF Connect, TypeOK, NumbersOK, Connected
    <3>2. counts' \in [loads : 0 .. MaxLoads, joins : 0 .. MaxJoins, leaves : 0 .. MaxLeaves]
      <4>1. counts.joins < MaxJoins /\ counts' = [counts EXCEPT !.joins = @ + 1]
        BY <1>5 DEF Connect
      <4> QED
        BY <4>1 DEF TypeOK, NumbersOK
    <3> QED
      BY <1>5, <3>1, <3>2 DEF Connect, TypeOK, NumbersOK
  <2>5. relayed \in Nat /\ RestOK /\ ObserversOK
    BY DEF TypeOK, ChannelsOK
  <2>6. RestOK' /\ ObserversOK'
    BY <1>5, <2>5 DEF Connect, RestOK, ObserversOK
  <2> QED
    BY <2>2, <2>3, <2>4, <2>6 DEF TypeOK
<1>6. ASSUME NEW c \in Client, Leave(c)
      PROVE  TypeOK'
  <2>1. ChannelsOK'
    BY <1>6, HangupType DEF Leave, TypeOK
  <2>2. TablesOK' /\ NumbersOK' /\ ObserversOK'
    BY <1>6 DEF Leave, TypeOK, TablesOK, NumbersOK, ObserversOK
  <2>3. RestOK'
    BY <1>6 DEF Leave, TypeOK, RestOK
  <2> QED
    BY <2>1, <2>2, <2>3 DEF TypeOK
<1> QED
  BY <1>1, <1>2, <1>3, <1>4, <1>5, <1>6

\* Disconnecting, of one's own will or not.
LEMMA LeavingType ==
  ASSUME TypeOK, NEW c \in Client, HandleGameWithoutBox(c) \/ HandleHostDisconnected(c)
  PROVE  TypeOK'
<1> USE BoundsAssumption, HostAssumption
<1>1. ASSUME HandleGameWithoutBox(c)
      PROVE  TypeOK'
  <2>1. Body(c) \in Bodies
    <3>1. Head(down[c]) \in DownPackets
      BY <1>1, ConsumeType DEF HandleGameWithoutBox, TypeOK, ChannelsOK
    <3> QED
      BY <3>1 DEF Body, DownPackets
  <2>2. Body(c).seq \in Nat
    BY <1>1, <2>1, BodyFields DEF HandleGameWithoutBox
  <2>3. ChannelsOK'
    BY <1>1, HangupType DEF HandleGameWithoutBox, TypeOK
  <2>4. TablesOK'
    <3>1. ClearUndo(history[c]) \in Histories /\ Cleared(<<>>) \in Histories
      <4>1. history[c] \in Histories
        BY DEF TypeOK, TablesOK
      <4>2. <<>> \in Changes
        BY DEF Changes
      <4> QED
        BY <4>1, <4>2, ClearedType
    <3>2. shown' \in Changes
      BY <1>1 DEF HandleGameWithoutBox, TypeOK, TablesOK
    <3> QED
      BY <1>1, <3>1, <3>2, SetHistoryType DEF HandleGameWithoutBox, NewGame, TypeOK
  <2>5. seq' \in [Client -> Nat] /\ status' \in [Client -> Connected \cup {"out"}]
    BY <1>1, <2>2 DEF HandleGameWithoutBox, TakeNumber, TypeOK, NumbersOK
  <2>6. counts' \in [loads : 0 .. MaxLoads, joins : 0 .. MaxJoins, leaves : 0 .. MaxLeaves]
    <3>1. counts.leaves < MaxLeaves /\ counts' = [counts EXCEPT !.leaves = @ + 1]
      BY <1>1 DEF HandleGameWithoutBox
    <3> QED
      BY <3>1 DEF TypeOK, NumbersOK
  <2>7. NumbersOK' /\ ObserversOK'
    BY <1>1, <2>5, <2>6 DEF HandleGameWithoutBox, TypeOK, NumbersOK, ObserversOK
  <2>8. RestOK'
    <3>1. PICK n \in 1 .. Len(down[c]) :
            rest' = [rest EXCEPT ![c] = [i \in 1 .. n - 1 |-> down[c][i + 1].body]]
      BY <1>1 DEF HandleGameWithoutBox
    <3>2. down[c] \in Seq(DownPackets) /\ Len(down[c]) \in Nat
      BY LenProperties DEF TypeOK, ChannelsOK
    <3>3. n - 1 \in Nat /\ \A i \in 1 .. n - 1 : i + 1 \in 1 .. Len(down[c])
      BY <3>2
    <3>4. \A i \in 1 .. n - 1 : down[c][i + 1].body \in Bodies
      <4>1. \A i \in 1 .. Len(down[c]) : down[c][i] \in DownPackets
        BY <3>2, ElementOfSeq
      <4>2. \A d \in DownPackets : d.body \in Bodies
        BY DEF DownPackets
      <4> QED
        BY <3>3, <4>1, <4>2
    <3>5. [i \in 1 .. n - 1 |-> down[c][i + 1].body] \in Seq(Bodies)
      BY <3>3, <3>4, SeqDef
    <3> QED
      BY <3>1, <3>5 DEF TypeOK, RestOK
  <2> QED
    BY <2>3, <2>4, <2>7, <2>8 DEF TypeOK
<1>2. ASSUME HandleHostDisconnected(c)
      PROVE  TypeOK'
  <2>1. /\ down' \in [Client -> Seq(DownPackets)]
        /\ pos' \in [Client -> Nat]
        /\ UNCHANGED <<members, relayed, issued, counts, rest>>
    BY <1>2, HandlingType DEF HandleHostDisconnected, TypeOK
  <2>2. <<>> \in Seq(UpPackets)
    OBVIOUS
  <2>3. ChannelsOK'
    BY <1>2, <2>1, <2>2 DEF HandleHostDisconnected, TypeOK, ChannelsOK
  <2>4. TablesOK'
    <3>1. ClearUndo(history[c]) \in Histories /\ shown' \in Changes
      BY <1>2, ClearedType DEF HandleHostDisconnected, TypeOK, TablesOK
    <3> QED
      BY <1>2, <3>1, SetHistoryType DEF HandleHostDisconnected, TypeOK
  <2>5. NumbersOK'
    BY <1>2, <2>1 DEF HandleHostDisconnected, TypeOK, NumbersOK
  <2>6. RestOK' /\ ObserversOK'
    BY <1>2, <2>1 DEF HandleHostDisconnected, TypeOK, RestOK, ObserversOK
  <2> QED
    BY <2>3, <2>4, <2>5, <2>6 DEF TypeOK
<1> QED
  BY <1>1, <1>2

\* The host's answers.
LEMMA AnsweringType ==
  ASSUME TypeOK, HandleRequest \/ HandlePlayerWantsToJoin
  PROVE  TypeOK'
<1> USE HostAssumption
<1>1. ASSUME HandleRequest
      PROVE  TypeOK'
  <2>1. /\ Body(Host) \in Bodies /\ Body(Host).type = "Request"
        /\ down' \in [Client -> Seq(DownPackets)] /\ pos' \in [Client -> Nat]
        /\ UNCHANGED <<members, relayed, issued, counts, rest>>
    BY <1>1, HandlingType DEF HandleRequest, Outdated, Reject, Accept, TypeOK
  <2> DEFINE req == Body(Host).req
  <2>2. req \in Requests /\ req.sender \in Client
    BY <2>1, BodyFields DEF Requests
  <2>3. seq[Host] \in Nat /\ seq[Host] + 1 \in Nat
    BY DEF TypeOK, NumbersOK
  <2>4. /\ up' \in [Client -> Seq(UpPackets)] /\ loopback' \in [Client -> Seq(DownPackets)]
        /\ seq' \in [Client -> Nat]
    <3>1. CASE req.seq < seq[Host]
      <4>1. SendToOne(Host, req.sender, [type |-> "ChangeRejected", req |-> req]) /\ seq' = seq
        BY <1>1, <3>1 DEF HandleRequest, Outdated, Reject, Accept
      <4>2. [type |-> "ChangeRejected", req |-> req] \in Bodies
        BY <2>2, BodyMade
      <4> QED
        BY <2>2, <4>1, <4>2, SendToOneType DEF TypeOK, NumbersOK
    <3>2. CASE ~(req.seq < seq[Host])
      <4>1. /\ seq' = [seq EXCEPT ![Host] = @ + 1]
            /\ up' = Upload(Host, "ClientToAll", Host,
                       [type |-> "ChangeAccepted", seq |-> seq[Host] + 1, req |-> req])
            /\ loopback' = loopback
        BY <1>1, <3>2 DEF HandleRequest, Outdated, Reject, Accept
      <4>2. [type |-> "ChangeAccepted", seq |-> seq[Host] + 1, req |-> req] \in Bodies
        BY <2>2, <2>3, BodyMade
      <4>3. up' \in [Client -> Seq(UpPackets)]
        BY <4>1, <4>2, UploadType DEF TypeOK, Routes
      <4> QED
        BY <2>3, <4>1, <4>3 DEF TypeOK, ChannelsOK, NumbersOK
    <3> QED
      BY <3>1, <3>2
  <2>5. ChannelsOK'
    BY <2>1, <2>4 DEF TypeOK, ChannelsOK
  <2>6. TablesOK'
    BY <1>1 DEF HandleRequest, Outdated, Reject, Accept, TypeOK, TablesOK
  <2>7. NumbersOK' /\ RestOK' /\ ObserversOK'
    BY <1>1, <2>1, <2>4 DEF HandleRequest, Outdated, Reject, Accept, TypeOK, NumbersOK, RestOK, ObserversOK
  <2> QED
    BY <2>5, <2>6, <2>7 DEF TypeOK
<1>2. ASSUME HandlePlayerWantsToJoin
      PROVE  TypeOK'
  <2>1. /\ Head(down[Host]).from \in Client
        /\ down' \in [Client -> Seq(DownPackets)] /\ pos' \in [Client -> Nat]
        /\ UNCHANGED <<members, relayed, issued, counts, rest>>
    BY <1>2, HandlingType DEF HandlePlayerWantsToJoin, TypeOK
  <2> DEFINE clean == ~ChangesOnTheirWay /\ shown = history[Host].table /\ Host \notin suspect
             body == [type |-> "ConnectionAccepted", seq |-> seq[Host], table |-> shown,
                      clean |-> clean]
  <2>2. clean \in BOOLEAN
    OBVIOUS
  <2>3. seq[Host] \in Nat /\ shown \in Changes
    BY DEF TypeOK, NumbersOK, TablesOK
  <2> HIDE DEF clean
  <2>4. body \in Bodies
    BY <2>2, <2>3, BodyMade
  <2>5. SendToOne(Host, Head(down[Host]).from, body)
    BY <1>2 DEF HandlePlayerWantsToJoin, clean
  <2>6. up' \in [Client -> Seq(UpPackets)] /\ loopback' \in [Client -> Seq(DownPackets)]
    BY <2>1, <2>4, <2>5, SendToOneType DEF TypeOK
  <2>7. ChannelsOK'
    BY <2>1, <2>6 DEF TypeOK, ChannelsOK
  <2>8. TablesOK'
    BY <1>2 DEF HandlePlayerWantsToJoin, TypeOK, TablesOK
  <2>9. NumbersOK' /\ RestOK' /\ ObserversOK'
    BY <1>2, <2>1 DEF HandlePlayerWantsToJoin, TypeOK, NumbersOK, RestOK, ObserversOK
  <2> QED
    BY <2>7, <2>8, <2>9 DEF TypeOK
<1> QED
  BY <1>1, <1>2

\* The answers that reach the one who asked, and who comes and goes.
LEMMA AnsweredType ==
  ASSUME TypeOK, NEW c \in Client,
         \/ HandleChangeRejected(c) \/ HandleOwnRejection(c)
         \/ HandleConnectionAccepted(c) \/ HandlePlayerHasJoined(c) \/ HandlePlayerHasLeft(c)
  PROVE  TypeOK'
<1>1. ASSUME HandleChangeRejected(c)
      PROVE  TypeOK'
  <2>1. /\ down' \in [Client -> Seq(DownPackets)] /\ pos' \in [Client -> Nat]
        /\ UNCHANGED <<members, relayed, issued, counts, rest>>
    BY <1>1, HandlingType DEF HandleChangeRejected, TypeOK
  <2>2. ChannelsOK' /\ TablesOK'
    BY <1>1, <2>1 DEF HandleChangeRejected, TypeOK, ChannelsOK, TablesOK
  <2>3. NumbersOK' /\ RestOK' /\ ObserversOK'
    BY <1>1, <2>1 DEF HandleChangeRejected, TypeOK, NumbersOK, RestOK, ObserversOK
  <2> QED
    BY <2>2, <2>3 DEF TypeOK
<1>2. ASSUME HandleOwnRejection(c)
      PROVE  TypeOK'
  <2>1. loopback' \in [Client -> Seq(DownPackets)]
    BY <1>2, ConsumeType DEF HandleOwnRejection, TypeOK, ChannelsOK
  <2>2. ChannelsOK' /\ TablesOK'
    BY <1>2, <2>1 DEF HandleOwnRejection, TypeOK, ChannelsOK, TablesOK
  <2>3. NumbersOK' /\ RestOK' /\ ObserversOK'
    BY <1>2 DEF HandleOwnRejection, TypeOK, NumbersOK, RestOK, ObserversOK
  <2> QED
    BY <2>2, <2>3 DEF TypeOK
<1>3. ASSUME HandleConnectionAccepted(c)
      PROVE  TypeOK'
  <2>1. /\ Body(c) \in Bodies /\ Body(c).type = "ConnectionAccepted"
        /\ down' \in [Client -> Seq(DownPackets)] /\ pos' \in [Client -> Nat]
        /\ UNCHANGED <<members, relayed, issued, counts, rest>>
    BY <1>3, HandlingType DEF HandleConnectionAccepted, TypeOK
  <2>2. Body(c).seq \in Nat /\ Body(c).table \in Changes
    BY <2>1, BodyFields
  <2>3. Upload(c, "ClientToAll", c, [type |-> "PlayerHasJoined"]) \in [Client -> Seq(UpPackets)]
    BY BodyMade, UploadType DEF TypeOK, Routes
  <2>4. ChannelsOK'
    BY <1>3, <2>1, <2>3 DEF HandleConnectionAccepted, TypeOK, ChannelsOK
  <2>5. TablesOK'
    <3>1. shown' \in Changes
      BY <1>3 DEF HandleConnectionAccepted, TypeOK, TablesOK
    <3> QED
      BY <1>3, <2>2, <3>1, ClearedType, SetHistoryType
         DEF HandleConnectionAccepted, NewGame, TypeOK
  <2>6. NumbersOK'
    BY <1>3, <2>1, <2>2 DEF HandleConnectionAccepted, TypeOK, NumbersOK, Connected
  <2>7. RestOK' /\ ObserversOK'
    BY <1>3, <2>1 DEF HandleConnectionAccepted, TypeOK, RestOK, ObserversOK
  <2> QED
    BY <2>4, <2>5, <2>6, <2>7 DEF TypeOK
<1>4. ASSUME HandlePlayerHasJoined(c)
      PROVE  TypeOK'
  <2>1. /\ down' \in [Client -> Seq(DownPackets)] /\ pos' \in [Client -> Nat]
        /\ UNCHANGED <<members, relayed, issued, counts, rest>>
    BY <1>4, HandlingType DEF HandlePlayerHasJoined, TypeOK
  <2>2. ChannelsOK'
    BY <1>4, <2>1 DEF HandlePlayerHasJoined, TypeOK, ChannelsOK
  <2>3. TablesOK'
    <3>1. ClearUndo(history[c]) \in Histories /\ shown' \in Changes
      BY <1>4, ClearedType DEF HandlePlayerHasJoined, TypeOK, TablesOK
    <3> QED
      BY <1>4, <3>1, SetHistoryType DEF HandlePlayerHasJoined, TypeOK
  <2>4. NumbersOK'
    BY <1>4, <2>1 DEF HandlePlayerHasJoined, TypeOK, NumbersOK, Connected
  <2>5. RestOK' /\ ObserversOK'
    BY <1>4, <2>1 DEF HandlePlayerHasJoined, TypeOK, RestOK, ObserversOK
  <2> QED
    BY <2>2, <2>3, <2>4, <2>5 DEF TypeOK
<1>5. ASSUME HandlePlayerHasLeft(c)
      PROVE  TypeOK'
  <2>1. /\ down' \in [Client -> Seq(DownPackets)] /\ pos' \in [Client -> Nat]
        /\ UNCHANGED <<members, relayed, issued, counts, rest>>
    BY <1>5, HandlingType DEF HandlePlayerHasLeft, TypeOK
  <2>2. ChannelsOK' /\ TablesOK'
    BY <1>5, <2>1 DEF HandlePlayerHasLeft, TypeOK, ChannelsOK, TablesOK
  <2>3. NumbersOK' /\ RestOK' /\ ObserversOK'
    BY <1>5, <2>1 DEF HandlePlayerHasLeft, TypeOK, NumbersOK, RestOK, ObserversOK
  <2> QED
    BY <2>2, <2>3 DEF TypeOK
<1> QED
  BY <1>1, <1>2, <1>3, <1>4, <1>5

\* State changes.
LEMMA ChangingType ==
  ASSUME TypeOK, NEW c \in Client,
         \/ HandleChangeAccepted(c) \/ HandleShuffleResult(c)
         \/ HandleGameLoaded(c) \/ HandleGameBoxHasChanged(c)
  PROVE  TypeOK'
<1> USE HostAssumption
<1>1. ASSUME HandleChangeAccepted(c)
      PROVE  TypeOK'
  <2>1. /\ Body(c) \in Bodies /\ Body(c).type = "ChangeAccepted"
        /\ down' \in [Client -> Seq(DownPackets)] /\ pos' \in [Client -> Nat]
        /\ UNCHANGED <<members, relayed, issued, counts, rest>>
    BY <1>1, HandlingType DEF HandleChangeAccepted, TakeNumber, TypeOK
  <2> DEFINE req == Body(c).req
  <2>2. /\ Body(c).seq \in Nat /\ req \in Requests
        /\ req.id \in 1 .. MaxRequests
    BY <2>1, BodyFields DEF Requests
  <2>3. shown' = shown /\ UNCHANGED <<loopback, status, renumbered>>
    BY <1>1 DEF HandleChangeAccepted, TakeNumber
  <2>4. SetHistory(c, Applied(history[c], req))
    BY <1>1 DEF HandleChangeAccepted
  <2>5. TablesOK'
    <3>1. Applied(history[c], req) \in Histories /\ shown' \in Changes
      BY <2>2, <2>3, AppliedType DEF TypeOK, TablesOK
    <3> QED
      BY <2>4, <3>1, SetHistoryType DEF TypeOK
  <2>6. seq' \in [Client -> Nat] /\ up' \in [Client -> Seq(UpPackets)]
    <3>1. CASE /\ seq' = [seq EXCEPT ![Host] = @ + 1]
               /\ up' = Upload(Host, "ClientToAll", Host,
                          [type |-> "ShuffleResult", seq |-> seq[Host] + 1, change |-> req.id])
      <4>1. seq \in [Client -> Nat] /\ seq[Host] + 1 \in Nat
        BY DEF TypeOK, NumbersOK
      <4>2. [type |-> "ShuffleResult", seq |-> seq[Host] + 1, change |-> req.id] \in Bodies
        BY <2>2, <4>1, BodyMade
      <4>3. up' \in [Client -> Seq(UpPackets)]
        BY <3>1, <4>2, UploadType DEF TypeOK, Routes
      <4> QED
        BY <3>1, <4>1, <4>3
    <3>2. CASE /\ seq' = IF c = Host THEN seq ELSE [seq EXCEPT ![c] = Body(c).seq]
               /\ up' = up
      BY <2>2, <3>2 DEF TypeOK, NumbersOK, ChannelsOK
    <3> QED
      BY <1>1, <3>1, <3>2 DEF HandleChangeAccepted, TakeNumber
  <2>7. ChannelsOK'
    BY <2>1, <2>3, <2>6 DEF TypeOK, ChannelsOK
  <2>8. NumbersOK'
    BY <2>1, <2>3, <2>6 DEF TypeOK, NumbersOK
  <2>9. RestOK' /\ ObserversOK'
    <3>1. waiting' \in [Client -> SUBSET (1 .. MaxRequests)]
      BY <1>1 DEF HandleChangeAccepted, TakeNumber, TypeOK, RestOK, ObserversOK
    <3>2. suspect' \subseteq Client
      BY <1>1 DEF HandleChangeAccepted, TakeNumber, TypeOK, RestOK, ObserversOK
    <3> QED
      BY <2>1, <2>3, <3>1, <3>2 DEF TypeOK, RestOK, ObserversOK
  <2> QED
    BY <2>5, <2>7, <2>8, <2>9 DEF TypeOK
<1>2. ASSUME HandleShuffleResult(c)
      PROVE  TypeOK'
  <2>1. /\ Body(c) \in Bodies /\ Body(c).type = "ShuffleResult"
        /\ down' \in [Client -> Seq(DownPackets)] /\ pos' \in [Client -> Nat]
        /\ UNCHANGED <<members, relayed, issued, counts, rest>>
    BY <1>2, HandlingType DEF HandleShuffleResult, TypeOK
  <2>2. Body(c).seq \in Nat /\ Body(c).change \in 1 .. MaxRequests
    BY <2>1, BodyFields
  <2>3. ChannelsOK'
    BY <1>2, <2>1 DEF HandleShuffleResult, TypeOK, ChannelsOK
  <2>4. TablesOK'
    <3>1. Done(history[c], Body(c).change, FALSE) \in Histories /\ shown' \in Changes
      BY <1>2, <2>2, DoneType DEF HandleShuffleResult, TypeOK, TablesOK
    <3> QED
      BY <1>2, <3>1, SetHistoryType DEF HandleShuffleResult, TypeOK
  <2>5. NumbersOK'
    BY <1>2, <2>1, <2>2 DEF HandleShuffleResult, TypeOK, NumbersOK
  <2>6. renumbered' \in BOOLEAN
    BY <1>2 DEF HandleShuffleResult, TypeOK, RestOK, ObserversOK
  <2>7. RestOK' /\ ObserversOK'
    BY <1>2, <2>1, <2>6 DEF HandleShuffleResult, TypeOK, RestOK, ObserversOK
  <2> QED
    BY <2>3, <2>4, <2>5, <2>7 DEF TypeOK
<1>3. ASSUME HandleGameLoaded(c)
      PROVE  TypeOK'
  <2>1. /\ Body(c) \in Bodies /\ Body(c).type = "GameLoaded"
        /\ down' \in [Client -> Seq(DownPackets)] /\ pos' \in [Client -> Nat]
        /\ UNCHANGED <<members, relayed, issued, counts, rest>>
    BY <1>3, HandlingType DEF HandleGameLoaded, TypeOK
  <2>2. Body(c).seq \in Nat /\ Body(c).change \in 1 .. MaxRequests
    BY <2>1, BodyFields
  <2>3. ChannelsOK'
    BY <1>3, <2>1 DEF HandleGameLoaded, TypeOK, ChannelsOK
  <2>4. TablesOK'
    <3>1. CASE c = Host
      BY <1>3, <3>1 DEF HandleGameLoaded, TypeOK, TablesOK
    <3>2. CASE c # Host
      <4>1. <<Body(c).change>> \in Changes /\ shown' \in Changes
        BY <1>3, <2>2 DEF HandleGameLoaded, TypeOK, TablesOK, Changes
      <4> QED
        BY <1>3, <3>2, <4>1, ClearedType, SetHistoryType DEF HandleGameLoaded, NewGame, TypeOK
    <3> QED
      BY <3>1, <3>2
  <2>5. NumbersOK' /\ RestOK' /\ ObserversOK'
    BY <1>3, <2>1, <2>2 DEF HandleGameLoaded, TypeOK, NumbersOK, RestOK, ObserversOK
  <2> QED
    BY <2>3, <2>4, <2>5 DEF TypeOK
<1>4. ASSUME HandleGameBoxHasChanged(c)
      PROVE  TypeOK'
  <2>1. /\ Body(c) \in Bodies /\ Body(c).type = "GameBoxHasChanged"
        /\ down' \in [Client -> Seq(DownPackets)] /\ pos' \in [Client -> Nat]
        /\ UNCHANGED <<members, relayed, issued, counts, rest>>
    BY <1>4, HandlingType DEF HandleGameBoxHasChanged, TypeOK
  <2>2. Body(c).seq \in Nat /\ Body(c).change \in 1 .. MaxRequests
    BY <2>1, BodyFields
  <2>3. ChannelsOK'
    BY <1>4, <2>1 DEF HandleGameBoxHasChanged, TypeOK, ChannelsOK
  <2>4. shown' \in Changes
    <3>1. shown \in Changes /\ <<Body(c).change>> \in Changes
      BY <2>2 DEF TypeOK, TablesOK, Changes
    <3>2. shown' = shown \/ shown' = <<Body(c).change>>
      BY <1>4 DEF HandleGameBoxHasChanged
    <3> QED
      BY <3>1, <3>2
  <2>5. TablesOK'
    <3>1. <<Body(c).change>> \in Changes
      BY <2>2 DEF Changes
    <3> QED
      BY <1>4, <2>4, <3>1, ClearedType, SetHistoryType
         DEF HandleGameBoxHasChanged, NewGame, TypeOK
  <2>6. NumbersOK'
    BY <1>4, <2>1, <2>2 DEF HandleGameBoxHasChanged, TypeOK, NumbersOK
  <2>7. RestOK' /\ ObserversOK'
    BY <1>4, <2>1 DEF HandleGameBoxHasChanged, TypeOK, RestOK, ObserversOK
  <2> QED
    BY <2>3, <2>5, <2>6, <2>7 DEF TypeOK
<1> QED
  BY <1>1, <1>2, <1>3, <1>4

\* Whatever a message of the rest makes a program do, it changes its own number and
\* history, and says something to itself.
LEMMA RestAlone ==
  ASSUME TypeOK, NEW c \in Client, HandleRest(c)
  PROVE  \E n \in Nat, h \in Histories, said \in Seq(Bodies) : Alone(c, n, h, said)
<1> DEFINE m == Head(rest[c])
           Goal == \E n \in Nat, h \in Histories, said \in Seq(Bodies) : Alone(c, n, h, said)
<1>1. m \in Bodies /\ HandleAlone(c, m)
  <2>1. rest[c] \in Seq(Bodies) /\ rest[c] # <<>>
    BY DEF HandleRest, TypeOK, RestOK
  <2> QED
    BY <2>1, HeadTailProperties DEF HandleRest
<1>2. seq[c] \in Nat /\ seq[c] + 1 \in Nat /\ history[c] \in Histories
  BY DEF TypeOK, NumbersOK, TablesOK
<1>3. <<>> \in Seq(Bodies) /\ \A b \in Bodies : <<b>> \in Seq(Bodies)
  OBVIOUS
<1>4. /\ ClearUndo(history[c]) \in Histories
      /\ \A t \in Changes : Cleared(t) \in Histories
      /\ <<>> \in Changes /\ history[c].table \in Changes
  BY <1>2, ClearedType, HistoryFields DEF Changes
<1>5. ASSUME NEW n \in Nat, NEW h \in Histories, NEW said \in Seq(Bodies), Alone(c, n, h, said)
      PROVE  Goal
  BY <1>5
<1> SUFFICES Goal
  OBVIOUS
<1> HIDE DEF m, Goal
<1>6. CASE m.type = "Request"
  <2>1. m.req \in Requests
    BY <1>1, <1>6, BodyFields
  <2> DEFINE no == [type |-> "ChangeRejected", req |-> m.req]
             yes == [type |-> "ChangeAccepted", seq |-> seq[c] + 1, req |-> m.req]
  <2>2. no \in Bodies /\ yes \in Bodies
    BY <1>2, <2>1, BodyMade
  <2>3. \/ Alone(c, seq[c], history[c], <<no>>) \/ Alone(c, seq[c], history[c], <<>>)
        \/ Alone(c, seq[c] + 1, history[c], <<yes>>)
    BY <1>1, <1>6 DEF HandleAlone
  <2> HIDE DEF no, yes
  <2> QED
    BY <1>2, <1>3, <1>5, <2>2, <2>3
<1>7. CASE m.type = "ChangeAccepted"
  <2>1. m.req \in Requests /\ m.req.id \in 1 .. MaxRequests
    BY <1>1, <1>7, BodyFields DEF Requests
  <2> DEFINE result == [type |-> "ShuffleResult", seq |-> seq[c] + 1, change |-> m.req.id]
  <2>2. result \in Bodies
    BY <1>2, <2>1, BodyMade
  <2>3. \/ Alone(c, seq[c], Applied(history[c], m.req), <<>>)
        \/ Alone(c, seq[c] + 1, history[c], <<result>>)
    BY <1>1, <1>7 DEF HandleAlone
  <2> HIDE DEF result
  <2>4. Applied(history[c], m.req) \in Histories
    BY <1>2, <2>1, AppliedType
  <2> QED
    BY <1>2, <1>3, <1>5, <2>2, <2>3, <2>4
<1>8. CASE m.type = "ShuffleResult"
  <2>1. m.seq \in Nat /\ m.change \in 1 .. MaxRequests
    BY <1>1, <1>8, BodyFields
  <2>2. Alone(c, m.seq, Done(history[c], m.change, FALSE), <<>>)
    BY <1>1, <1>8 DEF HandleAlone
  <2>3. Done(history[c], m.change, FALSE) \in Histories
    BY <1>2, <2>1, DoneType
  <2> QED
    BY <1>3, <1>5, <2>1, <2>2, <2>3
<1>9. CASE m.type = "GameBoxHasChanged"
  <2>1. m.change \in 1 .. MaxRequests
    BY <1>1, <1>9, BodyFields
  <2>2. PICK t \in {<<m.change>>, <<>>, history[c].table} : Alone(c, seq[c], Cleared(t), <<>>)
    BY <1>1, <1>9 DEF HandleAlone
  <2>3. t \in Changes
    <3>1. <<m.change>> \in Changes
      BY <2>1 DEF Changes
    <3> QED
      BY <1>4, <2>2, <3>1
  <2> QED
    BY <1>2, <1>3, <1>4, <1>5, <2>2, <2>3
<1>10. CASE m.type = "ConnectionAccepted"
  <2>1. m.seq \in Nat /\ m.table \in Changes
    BY <1>1, <1>10, BodyFields
  <2>2. \/ Alone(c, seq[c], ClearUndo(history[c]), <<>>)
        \/ Alone(c, m.seq, Cleared(<<>>), <<>>)
        \/ Alone(c, m.seq, Cleared(m.table), <<[type |-> "PlayerHasJoined"]>>)
    BY <1>1, <1>10 DEF HandleAlone
  <2>3. <<[type |-> "PlayerHasJoined"]>> \in Seq(Bodies)
    BY <1>3, BodyMade
  <2> QED
    BY <1>2, <1>3, <1>4, <1>5, <2>1, <2>2, <2>3
<1>11. CASE m.type \notin {"Request", "ChangeAccepted", "ShuffleResult", "GameBoxHasChanged",
                           "ConnectionAccepted"}
  <2>1. Alone(c, seq[c], ClearUndo(history[c]), <<>>) \/ Alone(c, seq[c], history[c], <<>>)
    BY <1>1, <1>11 DEF HandleAlone
  <2> QED
    BY <1>2, <1>3, <1>4, <1>5, <2>1
<1> QED
  BY <1>6, <1>7, <1>8, <1>9, <1>10, <1>11

\* Nobody else is concerned, and the host's number only grows, or was set back.
LEMMA RestApart ==
  ASSUME TypeOK, NEW c \in Client, HandleRest(c)
  PROVE  /\ status[c] = "out"
         /\ UNCHANGED <<relayVars, status, shown, issued, counts, waiting, pos, suspect>>
         /\ \A d \in Client \ {c} : seq'[d] = seq[d] /\ history'[d] = history[d]
         /\ renumbered => renumbered'
         /\ ~renumbered' => seq[Host] <= seq'[Host]
<1>1. PICK n \in Nat, h \in Histories, said \in Seq(Bodies) : Alone(c, n, h, said)
  BY RestAlone
<1>2. seq' = [seq EXCEPT ![c] = n] /\ history' = [history EXCEPT ![c] = h] /\ up' = up
  BY <1>1 DEF Alone, SetHistory, SendToOneself
<1>3. seq \in [Client -> Nat]
  BY DEF TypeOK, NumbersOK
<1>4. history \in [Client -> Histories]
  BY DEF TypeOK, TablesOK
<1>5. ~renumbered' => seq[Host] <= seq'[Host]
  <2>1. ~renumbered' => ~(c = Host /\ seq'[c] < seq[c])
    BY DEF HandleRest
  <2>2. seq[Host] \in Nat /\ seq'[Host] = IF c = Host THEN n ELSE seq[Host]
    BY <1>2, <1>3, HostAssumption
  <2> QED
    BY <2>1, <2>2
<1> QED
  BY <1>2, <1>3, <1>4, <1>5 DEF HandleRest, relayVars

LEMMA RestType ==
  ASSUME TypeOK, NEW c \in Client, HandleRest(c)
  PROVE  TypeOK'
<1>1. PICK n \in Nat, h \in Histories, said \in Seq(Bodies) : Alone(c, n, h, said)
  BY RestAlone
<1>2. /\ seq' = [seq EXCEPT ![c] = n] /\ SetHistory(c, h)
      /\ rest' = [rest EXCEPT ![c] = Tail(@) \o said]
  BY <1>1 DEF Alone, SendToOneself
<1>3. /\ UNCHANGED <<relayVars, status, shown, issued, counts, waiting, pos, suspect>>
      /\ rest[c] # <<>>
  BY RestApart DEF HandleRest
<1>4. ChannelsOK'
  BY <1>3 DEF TypeOK, ChannelsOK, relayVars
<1>5. TablesOK'
  <2>1. shown' \in Changes
    BY <1>3 DEF TypeOK, TablesOK
  <2> QED
    BY <1>2, <2>1, SetHistoryType DEF TypeOK
<1>6. NumbersOK'
  BY <1>2, <1>3 DEF TypeOK, NumbersOK
<1>7. RestOK'
  <2>1. rest \in [Client -> Seq(Bodies)]
    BY DEF TypeOK, RestOK
  <2>2. Tail(rest[c]) \in Seq(Bodies)
    BY <1>3, <2>1, HeadTailProperties
  <2>3. Tail(rest[c]) \o said \in Seq(Bodies)
    BY <2>2, ConcatProperties
  <2> QED
    BY <1>2, <2>1, <2>3 DEF RestOK
<1>8. ObserversOK'
  <2>1. renumbered' \in BOOLEAN
    BY DEF HandleRest, TypeOK, ObserversOK
  <2> QED
    BY <1>3, <2>1 DEF TypeOK, ObserversOK
<1> QED
  BY <1>4, <1>5, <1>6, <1>7, <1>8 DEF TypeOK

\* Every step preserves the types.
LEMMA TypeStep == TypeOK /\ [Next]_vars => TypeOK'
<1> SUFFICES ASSUME TypeOK, [Next]_vars
             PROVE  TypeOK'
  OBVIOUS
<1>1. CASE UNCHANGED vars
  BY <1>1 DEF vars, relayVars, observers, TypeOK, ChannelsOK, TablesOK, NumbersOK,
              RestOK, ObserversOK
<1>2. CASE Next
  <2>1. ASSUME NEW c \in Client, Handle(c)
        PROVE  TypeOK'
    BY <2>1, AnsweredType, ChangingType, LeavingType, RestType DEF Handle
  <2> QED
    BY <1>2, <2>1, PlayingType, AnsweringType, RelayingType DEF Next, ProgramStep, HandleAtHost
<1> QED
  BY <1>1, <1>2

LEMMA TypeInit == Init => TypeOK
<1> SUFFICES ASSUME Init
             PROVE  TypeOK
  OBVIOUS
<1> USE HostAssumption, BoundsAssumption
<1>1. ChannelsOK
  BY DEF Init, RelayInit, ChannelsOK
<1>2. TablesOK
  <2>1. <<>> \in Changes
    BY DEF Changes
  <2>2. Cleared(<<>>) \in Histories
    BY <2>1, ClearedType
  <2> QED
    BY <2>1, <2>2 DEF Init, TablesOK
<1>3. NumbersOK
  BY DEF Init, NumbersOK, Connected
<1>4. ObserversOK
  BY DEF Init, ObserversOK
<1>5. RestOK
  <2>1. <<>> \in Seq(Bodies)
    OBVIOUS
  <2> QED
    BY <2>1 DEF Init, RestOK
<1> QED
  BY <1>1, <1>2, <1>3, <1>4, <1>5 DEF TypeOK

\* The types of all variables, packets in transit included, hold for every number of
\* players and every bound.
THEOREM TypeCorrect == Spec => []TypeOK
BY TypeInit, TypeStep, PTL DEF Spec

-----------------------------------------------------------------------------
(* Channels whose packets all belong to a set: each of the invariants that *)
(* follow says that they do.                                               *)

LEMMA ChannelsMonotonic ==
  ASSUME NEW S, NEW T, S \subseteq T
  PROVE  [Client -> Seq(S)] \subseteq [Client -> Seq(T)]
<1>1. Seq(S) \subseteq Seq(T)
  BY SeqMonotonic
<1> QED
  BY <1>1

\* All packets belong to S exactly when each of them does.
LEMMA SeqFilter ==
  ASSUME NEW S, NEW T, S \subseteq T, NEW s \in Seq(T)
  PROVE  s \in Seq(S) <=> \A i \in DOMAIN s : s[i] \in S
<1>1. ASSUME \A i \in DOMAIN s : s[i] \in S
      PROVE  s \in Seq(S)
  <2>1. Len(s) \in Nat /\ s \in [1 .. Len(s) -> T]
    BY LenProperties
  <2>2. s \in [1 .. Len(s) -> S]
    BY <1>1, <2>1
  <2> QED
    BY <2>1, <2>2, SeqDef
<1>2. s \in Seq(S) => \A i \in DOMAIN s : s[i] \in S
  BY ElementOfSeq, LenProperties
<1> QED
  BY <1>1, <1>2

LEMMA UploadIn ==
  ASSUME NEW U, up \in [Client -> Seq(U)], NEW c \in Client, NEW route, NEW to, NEW body,
         [route |-> route, to |-> to, body |-> body] \in U
  PROVE  Upload(c, route, to, body) \in [Client -> Seq(U)]
BY AppendType DEF Upload

LEMMA DeliverIn ==
  ASSUME NEW D, down \in [Client -> Seq(D)], NEW S, NEW from, NEW n, NEW body,
         [from |-> from, n |-> n, body |-> body] \in D
  PROVE  Deliver(S, from, n, body) \in [Client -> Seq(D)]
<1>1. \A c \in Client : Append(down[c], [from |-> from, n |-> n, body |-> body]) \in Seq(D)
  BY AppendProperties
<1> QED
  BY <1>1 DEF Deliver

LEMMA SendToOneIn ==
  ASSUME NEW U, up \in [Client -> Seq(U)], NEW c \in Client, NEW r, NEW body,
         r # c => [route |-> "HostToSingleClient", to |-> r, body |-> body] \in U,
         SendToOne(c, r, body)
  PROVE  up' \in [Client -> Seq(U)]
<1>1. CASE r = c
  BY <1>1 DEF SendToOne
<1>2. CASE r # c
  BY <1>2, UploadIn DEF SendToOne
<1> QED
  BY <1>1, <1>2

LEMMA HandlingIn ==
  ASSUME NEW D, down \in [Client -> Seq(D)], NEW c \in Client, NEW t, Handling(c, t)
  PROVE  Head(down[c]) \in D /\ down' \in [Client -> Seq(D)]
BY ConsumeType DEF Handling

LEMMA HangupIn ==
  ASSUME NEW U, NEW D, up \in [Client -> Seq(U)], down \in [Client -> Seq(D)],
         NEW c \in Client, Hangup(c),
         [route |-> "Disconnect", to |-> c, body |-> [type |-> "Disconnect"]] \in U
  PROVE  up' \in [Client -> Seq(U)] /\ down' \in [Client -> Seq(D)]
<1>1. PICK k \in 0 .. Len(up[c]) :
        up' = [up EXCEPT ![c] = Append(SubSeq(@, 1, k),
                 [route |-> "Disconnect", to |-> c, body |-> [type |-> "Disconnect"]])]
  BY DEF Hangup
<1>2. SubSeq(up[c], 1, k) \in Seq(U)
  BY SubSeqProperties
<1>3. Append(SubSeq(up[c], 1, k),
         [route |-> "Disconnect", to |-> c, body |-> [type |-> "Disconnect"]]) \in Seq(U)
  BY <1>2, AppendProperties
<1>4. <<>> \in Seq(D)
  OBVIOUS
<1> QED
  BY <1>1, <1>3, <1>4 DEF Hangup

\* The server passes bodies on as they are and adds three kinds of its own.
LEMMA RelayingIn ==
  ASSUME NEW U, NEW D, up \in [Client -> Seq(U)], down \in [Client -> Seq(D)],
         relayed \in Nat, NEW c \in Client, Relaying(c),
         \A p \in U, n \in Nat : [from |-> c, n |-> n, body |-> p.body] \in D,
         \A n \in Nat : /\ [from |-> c, n |-> n, body |-> [type |-> "PlayerHasLeft"]] \in D
                        /\ [from |-> Host, n |-> n, body |-> [type |-> "HostDisconnected"]] \in D
  PROVE  up' \in [Client -> Seq(U)] /\ down' \in [Client -> Seq(D)]
<1>1. ASSUME NEW route, Receive(c, route)
      PROVE  Head(up[c]) \in U /\ up' \in [Client -> Seq(U)]
  BY <1>1, ConsumeType DEF Receive
<1>2. CASE OnReliableMessageFromClientToHost(c)
  <2>1. Head(up[c]) \in U /\ up' \in [Client -> Seq(U)]
    BY <1>1, <1>2 DEF OnReliableMessageFromClientToHost
  <2>2. Deliver({Host}, c, 0, Head(up[c]).body) \in [Client -> Seq(D)]
    BY <2>1, DeliverIn
  <2> QED
    BY <1>2, <2>1, <2>2 DEF OnReliableMessageFromClientToHost
<1>3. CASE OnReliableMessageFromClientToAll(c)
  <2>1. Head(up[c]) \in U /\ up' \in [Client -> Seq(U)]
    BY <1>1, <1>3 DEF OnReliableMessageFromClientToAll
  <2>2. [from |-> c, n |-> relayed + 1, body |-> Head(up[c]).body] \in D
    <3>1. relayed + 1 \in Nat
      OBVIOUS
    <3> QED
      BY <2>1, <3>1
  <2>3. Deliver(members, c, relayed + 1, Head(up[c]).body) \in [Client -> Seq(D)]
    BY <2>2, DeliverIn
  <2> QED
    BY <1>3, <2>1, <2>3 DEF OnReliableMessageFromClientToAll
<1>4. CASE OnReliableMessageFromHostToSingleClient(c)
  <2>1. Head(up[c]) \in U /\ up' \in [Client -> Seq(U)]
    BY <1>1, <1>4 DEF OnReliableMessageFromHostToSingleClient
  <2>2. Deliver(members \cap {Head(up[c]).to}, c, 0, Head(up[c]).body) \in [Client -> Seq(D)]
    BY <2>1, DeliverIn
  <2> QED
    BY <1>4, <2>1, <2>2 DEF OnReliableMessageFromHostToSingleClient
<1>5. CASE OnPlayerDisconnected(c)
  <2>1. up' \in [Client -> Seq(U)]
    BY <1>1, <1>5 DEF OnPlayerDisconnected
  <2>2. Deliver(members \ {Host}, Host, 0, [type |-> "HostDisconnected"]) \in [Client -> Seq(D)]
    BY DeliverIn
  <2>3. Deliver(members \ {c}, c, relayed + 1, [type |-> "PlayerHasLeft"]) \in [Client -> Seq(D)]
    <3>1. relayed + 1 \in Nat
      OBVIOUS
    <3> QED
      BY <3>1, DeliverIn
  <2> QED
    BY <1>5, <2>1, <2>2, <2>3 DEF OnPlayerDisconnected
<1> QED
  BY <1>2, <1>3, <1>4, <1>5 DEF Relaying, ServerStep

\* A packet that was sent has the type that the channel has afterwards.
LEMMA UploadedPacket ==
  ASSUME ChannelsOK, up' \in [Client -> Seq(UpPackets)],
         NEW c \in Client, NEW route, NEW to, NEW body, up' = Upload(c, route, to, body)
  PROVE  [route |-> route, to |-> to, body |-> body] \in UpPackets
<1>1. up \in [Client -> Seq(UpPackets)]
  BY DEF ChannelsOK
<1> DEFINE packet == [route |-> route, to |-> to, body |-> body]
<1>2. up'[c] = Append(up[c], packet)
  BY <1>1 DEF Upload
<1>3. up'[c] \in Seq(UpPackets) /\ up[c] \in Seq(UpPackets)
  BY <1>1
<1> HIDE DEF packet
<1>4. Len(up'[c]) = Len(up[c]) + 1 /\ up'[c][Len(up[c]) + 1] = packet
  BY <1>2, <1>3
<1>5. packet \in UpPackets
  BY <1>3, <1>4, ElementOfSeq
<1> QED
  BY <1>5 DEF packet

-----------------------------------------------------------------------------
(* The host receives no snapshot.                                          *)

FromClients == {p \in UpPackets : FromClient(p)}
ToHosts == {p \in DownPackets : ToHost(p)}
HostAside == up \in [Client -> Seq(FromClients)] /\ down[Host] \in Seq(ToHosts)

LEMMA HostAsideMeaning == ChannelsOK => (HostAside <=> HostNeverJoins)
<1> SUFFICES ASSUME ChannelsOK
             PROVE  HostAside <=> HostNeverJoins
  OBVIOUS
<1> USE HostAssumption
<1>1. FromClients \subseteq UpPackets /\ ToHosts \subseteq DownPackets
  BY DEF FromClients, ToHosts
<1>2. up \in [Client -> Seq(UpPackets)] /\ down \in [Client -> Seq(DownPackets)]
  BY DEF ChannelsOK
<1>3. \A c \in Client : up[c] \in Seq(FromClients)
                          <=> \A i \in DOMAIN up[c] : FromClient(up[c][i])
  <2>1. \A c \in Client : up[c] \in Seq(FromClients) <=> \A i \in DOMAIN up[c] : up[c][i] \in FromClients
    BY <1>1, <1>2, SeqFilter
  <2>2. \A c \in Client : \A i \in DOMAIN up[c] : up[c][i] \in UpPackets
    BY <1>2, SeqFilter
  <2> QED
    BY <2>1, <2>2 DEF FromClients
<1>4. down[Host] \in Seq(ToHosts) <=> \A i \in DOMAIN down[Host] : ToHost(down[Host][i])
  <2>1. down[Host] \in Seq(ToHosts) <=> \A i \in DOMAIN down[Host] : down[Host][i] \in ToHosts
    BY <1>1, <1>2, SeqFilter
  <2>2. \A i \in DOMAIN down[Host] : down[Host][i] \in DownPackets
    BY <1>2, SeqFilter
  <2> QED
    BY <2>1, <2>2 DEF ToHosts
<1>5. (up \in [Client -> Seq(FromClients)]) <=> \A c \in Client : up[c] \in Seq(FromClients)
  BY <1>2
<1> QED
  BY <1>3, <1>4, <1>5 DEF HostAside, HostNeverJoins

\* Handling a packet takes at most the first one from the host's channel.
LEMMA HandlingAside ==
  ASSUME ChannelsOK, HostAside, NEW c \in Client, NEW t, Handling(c, t)
  PROVE  down'[Host] \in Seq(ToHosts)
<1>1. CASE c = Host
  <2>1. Tail(down[Host]) \in Seq(ToHosts)
    BY <1>1, HeadTailProperties DEF Handling, HostAside
  <2> QED
    BY <1>1, <2>1, HostAssumption DEF Handling, ChannelsOK
<1>2. CASE c # Host
  BY <1>2, HostAssumption DEF Handling, ChannelsOK, HostAside
<1> QED
  BY <1>1, <1>2

LEMMA RelayingAside ==
  ASSUME TypeOK, HostAside, NEW c \in Client, Relaying(c)
  PROVE  HostAside'
<1> USE HostAssumption
<1>1. /\ up \in [Client -> Seq(FromClients)] /\ down \in [Client -> Seq(DownPackets)]
      /\ down[Host] \in Seq(ToHosts) /\ relayed \in Nat /\ relayed + 1 \in Nat
  BY DEF TypeOK, ChannelsOK, HostAside
<1>2. up' \in [Client -> Seq(FromClients)]
  <2>1. \A p \in FromClients, n \in Nat : [from |-> c, n |-> n, body |-> p.body] \in DownPackets
    BY DEF FromClients, UpPackets, DownPackets
  <2>2. \A n \in Nat :
          /\ [from |-> c, n |-> n, body |-> [type |-> "PlayerHasLeft"]] \in DownPackets
          /\ [from |-> Host, n |-> n, body |-> [type |-> "HostDisconnected"]] \in DownPackets
    BY BodyMade DEF DownPackets
  <2> QED
    BY <1>1, <2>1, <2>2, RelayingIn
<1>3. ASSUME NEW S, NEW from \in Client, NEW n \in Nat, NEW body \in Bodies,
             ToHost([from |-> from, n |-> n, body |-> body]),
             down' = Deliver(S, from, n, body)
      PROVE  down'[Host] \in Seq(ToHosts)
  <2>1. [from |-> from, n |-> n, body |-> body] \in ToHosts
    BY <1>3 DEF ToHosts, DownPackets
  <2>2. Append(down[Host], [from |-> from, n |-> n, body |-> body]) \in Seq(ToHosts)
    BY <1>1, <2>1, AppendProperties
  <2> QED
    BY <1>1, <1>3, <2>2 DEF Deliver
<1>4. ASSUME NEW route, Receive(c, route)
      PROVE  /\ Head(up[c]).route = route
             /\ Head(up[c]) \in FromClients
             /\ Head(up[c]).body \in Bodies
             /\ Head(up[c]).body.type # "PlayerWantsToJoin"
             /\ Head(up[c]).body.type = "ConnectionAccepted"
                  => route = "HostToSingleClient" /\ Head(up[c]).to # Host
  <2>1. Head(up[c]) \in FromClients
    BY <1>1, <1>4, ConsumeType DEF Receive
  <2> QED
    BY <1>4, <2>1 DEF Receive, FromClients, FromClient, UpPackets
<1>5. CASE OnReliableMessageFromClientToHost(c)
  <2>1. Receive(c, "ClientToHost")
        /\ (down' = Deliver({Host}, c, 0, Head(up[c]).body) \/ down' = down)
    BY <1>5 DEF OnReliableMessageFromClientToHost
  <2>2. ToHost([from |-> c, n |-> 0, body |-> Head(up[c]).body])
    BY <1>4, <2>1 DEF ToHost
  <2> QED
    BY <1>1, <1>2, <1>3, <1>4, <2>1, <2>2 DEF HostAside
<1>6. CASE OnReliableMessageFromClientToAll(c)
  <2>1. Receive(c, "ClientToAll")
        /\ (down' = Deliver(members, c, relayed + 1, Head(up[c]).body) \/ down' = down)
    BY <1>6 DEF OnReliableMessageFromClientToAll
  <2>2. ToHost([from |-> c, n |-> relayed + 1, body |-> Head(up[c]).body])
    BY <1>4, <2>1 DEF ToHost
  <2> QED
    BY <1>1, <1>2, <1>3, <1>4, <2>1, <2>2 DEF HostAside
<1>7. CASE OnReliableMessageFromHostToSingleClient(c)
  <2>1. Receive(c, "HostToSingleClient")
        /\ down' = Deliver(members \cap {Head(up[c]).to}, c, 0, Head(up[c]).body)
    BY <1>7 DEF OnReliableMessageFromHostToSingleClient
  <2>2. CASE Head(up[c]).to = Host
    <3>1. ToHost([from |-> c, n |-> 0, body |-> Head(up[c]).body])
      BY <1>4, <2>1, <2>2 DEF ToHost
    <3> QED
      BY <1>2, <1>3, <1>4, <2>1, <3>1 DEF HostAside
  <2>3. CASE Head(up[c]).to # Host
    <3>1. down'[Host] = down[Host]
      BY <2>1, <2>3 DEF Deliver
    <3> QED
      BY <1>1, <1>2, <3>1 DEF HostAside
  <2> QED
    BY <2>2, <2>3
<1>8. CASE OnPlayerDisconnected(c)
  <2>1. \/ down' = Deliver(members \ {Host}, Host, 0, [type |-> "HostDisconnected"])
        \/ down' = Deliver(members \ {c}, c, relayed + 1, [type |-> "PlayerHasLeft"])
    BY <1>8 DEF OnPlayerDisconnected
  <2>2. /\ ToHost([from |-> Host, n |-> 0, body |-> [type |-> "HostDisconnected"]])
        /\ ToHost([from |-> c, n |-> relayed + 1, body |-> [type |-> "PlayerHasLeft"]])
    BY DEF ToHost
  <2>3. [type |-> "HostDisconnected"] \in Bodies /\ [type |-> "PlayerHasLeft"] \in Bodies
    BY BodyMade
  <2> QED
    BY <1>1, <1>2, <1>3, <2>1, <2>2, <2>3 DEF HostAside
<1> QED
  BY <1>5, <1>6, <1>7, <1>8 DEF Relaying, ServerStep

LEMMA HostAsideStep == TypeOK /\ TypeOK' /\ HostAside /\ [Next]_vars => HostAside'
<1> SUFFICES ASSUME TypeOK, TypeOK', HostAside, [Next]_vars
             PROVE  HostAside'
  OBVIOUS
<1> USE HostAssumption
<1>1. /\ up \in [Client -> Seq(FromClients)] /\ down[Host] \in Seq(ToHosts)
      /\ down \in [Client -> Seq(DownPackets)]
      /\ up' \in [Client -> Seq(UpPackets)] /\ down' \in [Client -> Seq(DownPackets)]
  BY DEF TypeOK, ChannelsOK, HostAside
<1>2. ASSUME NEW c \in Client, NEW route, NEW to, NEW body, up' = Upload(c, route, to, body),
             body.type \notin {"PlayerWantsToJoin", "PlayerHasLeft", "HostDisconnected",
                             "ConnectionAccepted"}
      PROVE  up' \in [Client -> Seq(FromClients)]
  <2>1. [route |-> route, to |-> to, body |-> body] \in UpPackets
    BY <1>1, <1>2, UploadedPacket DEF TypeOK
  <2>2. [route |-> route, to |-> to, body |-> body] \in FromClients
    BY <1>2, <2>1 DEF FromClients, FromClient
  <2> QED
    BY <1>1, <1>2, <2>2, UploadIn
<1>3. ASSUME NEW c \in Client, NEW t, Handling(c, t), up' \in [Client -> Seq(FromClients)]
      PROVE  HostAside'
  BY <1>3, HandlingAside DEF HostAside, TypeOK
<1>4. ASSUME NEW c \in Client, Hangup(c)
      PROVE  HostAside'
  <2>1. [route |-> "Disconnect", to |-> c, body |-> [type |-> "Disconnect"]] \in FromClients
    BY BodyMade DEF FromClients, FromClient, UpPackets, Routes
  <2>2. up' \in [Client -> Seq(FromClients)]
    BY <1>1, <1>4, <2>1, HangupIn
  <2>3. down'[Host] = down[Host] \/ down'[Host] = <<>>
    BY <1>1, <1>4 DEF Hangup
  <2>4. <<>> \in Seq(ToHosts)
    OBVIOUS
  <2> QED
    BY <1>1, <2>2, <2>3, <2>4 DEF HostAside
<1>5. ASSUME NEW c \in Client, NEW kind \in Kinds, Ask(c, kind)
      PROVE  HostAside'
  BY <1>1, <1>2, <1>5 DEF Ask, HostAside
<1>6. ASSUME LoadGame
      PROVE  HostAside'
  BY <1>1, <1>2, <1>6 DEF LoadGame, HostAside
<1>7. ASSUME OpenBox
      PROVE  HostAside'
  BY <1>1, <1>2, <1>7 DEF OpenBox, HostAside
<1>8. ASSUME Animate
      PROVE  HostAside'
  BY <1>8 DEF Animate, HostAside, relayVars
<1>9. ASSUME NEW c \in Client, Connect(c)
      PROVE  HostAside'
  <2>1. c # Host /\ up' = up /\ down' = Deliver({Host}, c, 0, [type |-> "PlayerWantsToJoin"])
    BY <1>9 DEF Connect, OnPlayerConnected
  <2> DEFINE packet == [from |-> c, n |-> 0, body |-> [type |-> "PlayerWantsToJoin"]]
  <2>2. packet \in ToHosts
    BY <2>1, BodyMade DEF ToHosts, ToHost, DownPackets
  <2>3. down'[Host] = down[Host] \/ down'[Host] = Append(down[Host], packet)
    BY <2>1 DEF Deliver
  <2> HIDE DEF packet
  <2>4. Append(down[Host], packet) \in Seq(ToHosts)
    BY <1>1, <2>2, AppendProperties
  <2> QED
    BY <1>1, <2>1, <2>3, <2>4 DEF HostAside
<1>10. ASSUME NEW c \in Client, Handle(c)
       PROVE  HostAside'
  <2>1. CASE HandleChangeAccepted(c)
    <3>1. up' = up \/ up' = Upload(Host, "ClientToAll", Host,
                    [type |-> "ShuffleResult", seq |-> seq[Host] + 1, change |-> Body(c).req.id])
      BY <2>1 DEF HandleChangeAccepted, TakeNumber
    <3>2. up' \in [Client -> Seq(FromClients)]
      BY <1>1, <1>2, <3>1
    <3> QED
      BY <1>3, <2>1, <3>2 DEF HandleChangeAccepted, TakeNumber
  <2>2. CASE HandleShuffleResult(c)
    BY <1>1, <1>3, <2>2 DEF HandleShuffleResult
  <2>3. CASE HandleChangeRejected(c)
    BY <1>1, <1>3, <2>3 DEF HandleChangeRejected
  <2>4. CASE HandleOwnRejection(c)
    BY <2>4 DEF HandleOwnRejection, HostAside
  <2>5. CASE HandleGameLoaded(c)
    BY <1>1, <1>3, <2>5 DEF HandleGameLoaded
  <2>6. CASE HandleGameBoxHasChanged(c)
    BY <1>1, <1>3, <2>6 DEF HandleGameBoxHasChanged
  <2>7. CASE HandleGameWithoutBox(c)
    BY <1>4, <2>7 DEF HandleGameWithoutBox
  <2>8. CASE HandleConnectionAccepted(c)
    <3>1. up' = Upload(c, "ClientToAll", c, [type |-> "PlayerHasJoined"])
      BY <2>8 DEF HandleConnectionAccepted
    <3>2. up' \in [Client -> Seq(FromClients)]
      BY <1>2, <3>1
    <3> QED
      BY <1>3, <2>8, <3>2 DEF HandleConnectionAccepted
  <2>9. CASE HandlePlayerHasJoined(c)
    BY <1>1, <1>3, <2>9 DEF HandlePlayerHasJoined
  <2>10. CASE HandlePlayerHasLeft(c)
    BY <1>1, <1>3, <2>10 DEF HandlePlayerHasLeft
  <2>11. CASE HandleHostDisconnected(c)
    <3>1. <<>> \in Seq(FromClients)
      OBVIOUS
    <3>2. up' \in [Client -> Seq(FromClients)]
      BY <1>1, <2>11, <3>1 DEF HandleHostDisconnected
    <3> QED
      BY <1>3, <2>11, <3>2 DEF HandleHostDisconnected
  <2>12. CASE HandleRest(c)
    BY <2>12, RestApart DEF relayVars, HostAside
  <2> QED
    BY <1>10, <2>1, <2>2, <2>3, <2>4, <2>5, <2>6, <2>7, <2>8, <2>9, <2>10, <2>11, <2>12 DEF Handle
<1>11. ASSUME HandleRequest
       PROVE  HostAside'
  <2> DEFINE req == Body(Host).req
  <2>1. \/ SendToOne(Host, req.sender, [type |-> "ChangeRejected", req |-> req])
        \/ up' = Upload(Host, "ClientToAll", Host,
                   [type |-> "ChangeAccepted", seq |-> seq[Host] + 1, req |-> req])
    BY <1>11 DEF HandleRequest, Outdated, Reject, Accept
  <2>2. up' \in [Client -> Seq(FromClients)]
    <3>1. up' = up \/ \E body : /\ body.type \in {"ChangeRejected", "ChangeAccepted"}
                               /\ \E route, to : up' = Upload(Host, route, to, body)
      BY <2>1 DEF SendToOne
    <3> QED
      BY <1>1, <1>2, <3>1
  <2> QED
    BY <1>3, <1>11, <2>2 DEF HandleRequest, Outdated, Reject, Accept
<1>12. ASSUME HandlePlayerWantsToJoin
       PROVE  HostAside'
  <2> DEFINE to == Head(down[Host]).from
             body == [type |-> "ConnectionAccepted", seq |-> seq[Host], table |-> shown,
                      clean |-> ~ChangesOnTheirWay /\ shown = history[Host].table /\ Host \notin suspect]
  <2>1. Handling(Host, "PlayerWantsToJoin") /\ SendToOne(Host, to, body)
    BY <1>12 DEF HandlePlayerWantsToJoin
  <2>2. to # Host
    <3>1. Head(down[Host]) \in ToHosts
      BY <1>1, <2>1, HeadTailProperties DEF Handling
    <3> QED
      BY <2>1, <3>1 DEF Handling, ToHosts, ToHost
  <2>3. body.type = "ConnectionAccepted"
    OBVIOUS
  <2> HIDE DEF body, to
  <2>4. up' = Upload(Host, "HostToSingleClient", to, body)
    BY <2>1, <2>2 DEF SendToOne
  <2>5. [route |-> "HostToSingleClient", to |-> to, body |-> body] \in UpPackets
    BY <1>1, <2>4, UploadedPacket DEF TypeOK
  <2>6. [route |-> "HostToSingleClient", to |-> to, body |-> body] \in FromClients
    BY <2>2, <2>3, <2>5 DEF FromClients, FromClient
  <2>7. up' \in [Client -> Seq(FromClients)]
    BY <1>1, <2>4, <2>6, UploadIn
  <2> QED
    BY <1>3, <2>1, <2>7
<1>13. CASE UNCHANGED vars
  BY <1>13 DEF vars, relayVars, HostAside
<1> QED
  <2>1. CASE \E c \in Client : Relaying(c)
    BY <2>1, RelayingAside
  <2>2. ASSUME NEW c \in Client, Leave(c)
        PROVE  HostAside'
    BY <1>4, <2>2 DEF Leave
  <2> QED
    BY <1>5, <1>6, <1>7, <1>8, <1>9, <1>10, <1>11, <1>12, <1>13, <2>1, <2>2
       DEF Next, ProgramStep, HandleAtHost

-----------------------------------------------------------------------------
(* Sessions do not mix.                                                    *)

\* The inductive part: who is out is not sent anything either.
Gone ==
  \A c \in Client : status[c] = "out" => down[c] = <<>> /\ (HungUp(c) \/ c \notin members)
Apart == Gone /\ Unannounced /\ HostEndsSession

LEMMA TailIndex ==
  ASSUME NEW S, NEW s \in Seq(S), s # <<>>
  PROVE  /\ Tail(s) \in Seq(S) /\ Len(s) \in Nat /\ Len(s) > 0
         /\ DOMAIN s = 1 .. Len(s) /\ Head(s) = s[1]
         /\ Len(Tail(s)) = Len(s) - 1 /\ DOMAIN Tail(s) = 1 .. Len(s) - 1
         /\ \A i \in DOMAIN Tail(s) : i + 1 \in DOMAIN s /\ Tail(s)[i] = s[i + 1]
BY HeadTailProperties, LenProperties

LEMMA AppendIndex ==
  ASSUME NEW S, NEW s \in Seq(S), NEW e \in S
  PROVE  /\ Append(s, e) \in Seq(S) /\ Append(s, e) # <<>>
         /\ Append(s, e)[Len(Append(s, e))] = e
         /\ \A i \in DOMAIN Append(s, e) :
              \/ i \in DOMAIN s /\ Append(s, e)[i] = s[i]
              \/ i = Len(Append(s, e)) /\ Append(s, e)[i] = e
BY AppendProperties, LenProperties

\* What a step of the server does to the channel to client d: it sends nothing to those
\* who are not members or have hung up.
LEMMA RelayedTo ==
  ASSUME TypeOK, HostAside, NEW c \in Client, Relaying(c), NEW d \in Client
  PROVE  \/ down'[d] = down[d]
         \/ /\ d \in members /\ ~HungUp(d)
            /\ \E from \in Client, n \in Nat, body \in Bodies :
                 /\ down'[d] = Append(down[d], [from |-> from, n |-> n, body |-> body])
                 /\ \/ from = c /\ body = Head(up[c]).body /\ body.type # "HostDisconnected"
                    \/ body.type = "PlayerHasLeft"
                    \/ body.type = "HostDisconnected" /\ members' = {}
<1> USE HostAssumption
<1> DEFINE Passed(from, body) ==
             \/ from = c /\ body = Head(up[c]).body /\ body.type # "HostDisconnected"
             \/ body.type = "PlayerHasLeft"
             \/ body.type = "HostDisconnected" /\ members' = {}
           Sent(from, n, body) ==
             /\ down'[d] = Append(down[d], [from |-> from, n |-> n, body |-> body])
             /\ Passed(from, body)
           Goal ==
             \/ down'[d] = down[d]
             \/ /\ d \in members /\ ~HungUp(d)
                /\ \E from \in Client, n \in Nat, body \in Bodies : Sent(from, n, body)
<1> SUFFICES Goal
  OBVIOUS
<1>1. ASSUME NEW S, NEW from \in Client, NEW n \in Nat, NEW body \in Bodies, S \subseteq members,
             down' = Deliver(S, from, n, body), Passed(from, body)
      PROVE  Goal
  <2>1. CASE d \in S /\ ~HungUp(d)
    <3>1. down'[d] = Append(down[d], [from |-> from, n |-> n, body |-> body])
      BY <1>1, <2>1 DEF Deliver
    <3>2. Sent(from, n, body)
      BY <1>1, <3>1
    <3> HIDE DEF Sent
    <3> QED
      BY <1>1, <2>1, <3>2
  <2>2. CASE ~(d \in S /\ ~HungUp(d))
    <3>1. down'[d] = down[d]
      BY <1>1, <2>2 DEF Deliver
    <3> HIDE DEF Sent
    <3> QED
      BY <3>1
  <2> QED
    BY <2>1, <2>2
<1>2. /\ Head(up[c]) \in FromClients /\ Head(up[c]).body \in Bodies
      /\ Passed(c, Head(up[c]).body) /\ Host \in members
  <2>1. up[c] # <<>> /\ Host \in members
    BY DEF Relaying, ServerStep, OnReliableMessageFromClientToHost,
           OnReliableMessageFromClientToAll, OnReliableMessageFromHostToSingleClient,
           OnPlayerDisconnected, Receive
  <2>2. Head(up[c]) \in FromClients
    BY <2>1, ConsumeType DEF HostAside
  <2> QED
    BY <2>1, <2>2 DEF FromClients, FromClient, UpPackets
<1>3. relayed + 1 \in Nat /\ 0 \in Nat
  BY DEF TypeOK, ChannelsOK
<1>4. [type |-> "HostDisconnected"] \in Bodies /\ [type |-> "PlayerHasLeft"] \in Bodies
  BY BodyMade
<1>5. Passed(c, [type |-> "PlayerHasLeft"])
      /\ (members' = {} => Passed(Host, [type |-> "HostDisconnected"]))
  OBVIOUS
<1>6. down' = down => Goal
  OBVIOUS
<1> HIDE DEF Goal, Passed
<1>7. CASE OnReliableMessageFromClientToHost(c)
  <2>1. down' = Deliver({Host}, c, 0, Head(up[c]).body) \/ down' = down
    BY <1>7 DEF OnReliableMessageFromClientToHost
  <2>2. {Host} \subseteq members
    BY <1>2
  <2> QED
    BY <1>1, <1>2, <1>3, <1>6, <2>1, <2>2
<1>8. CASE OnReliableMessageFromClientToAll(c)
  <2>1. down' = Deliver(members, c, relayed + 1, Head(up[c]).body) \/ down' = down
    BY <1>8 DEF OnReliableMessageFromClientToAll
  <2> QED
    BY <1>1, <1>2, <1>3, <1>6, <2>1
<1>9. CASE OnReliableMessageFromHostToSingleClient(c)
  <2>1. down' = Deliver(members \cap {Head(up[c]).to}, c, 0, Head(up[c]).body)
    BY <1>9 DEF OnReliableMessageFromHostToSingleClient
  <2> QED
    BY <1>1, <1>2, <1>3, <2>1
<1>10. CASE OnPlayerDisconnected(c)
  <2>1. \/ /\ down' = Deliver(members \ {Host}, Host, 0, [type |-> "HostDisconnected"])
           /\ members' = {}
        \/ down' = Deliver(members \ {c}, c, relayed + 1, [type |-> "PlayerHasLeft"])
    BY <1>10 DEF OnPlayerDisconnected
  <2>2. members \ {Host} \subseteq members /\ members \ {c} \subseteq members
    OBVIOUS
  <2> QED
    BY <1>1, <1>3, <1>4, <1>5, <2>1, <2>2
<1> QED
  BY <1>7, <1>8, <1>9, <1>10 DEF Relaying, ServerStep

\* What it does to the others.
LEMMA RelayedFrom ==
  ASSUME NEW c \in Client, Relaying(c)
  PROVE  /\ Host \in members /\ up[c] # <<>> /\ up' = [up EXCEPT ![c] = Tail(@)]
         /\ UNCHANGED status
         /\ members' = members \/ members' = {} \/ (c # Host /\ members' = members \ {c})
         /\ Head(up[c]).route = "Disconnect" => c \notin members'
<1>1. UNCHANGED status
  BY DEF Relaying
<1>2. CASE OnPlayerDisconnected(c)
  BY <1>1, <1>2 DEF OnPlayerDisconnected, Receive
<1>3. CASE ~OnPlayerDisconnected(c)
  BY <1>1, <1>3 DEF Relaying, ServerStep, OnReliableMessageFromClientToHost,
     OnReliableMessageFromClientToAll, OnReliableMessageFromHostToSingleClient, Receive
<1> QED
  BY <1>2, <1>3

LEMMA RelayingApart ==
  ASSUME TypeOK, HostAside, Apart, NEW c \in Client, Relaying(c)
  PROVE  Apart'
<1> USE HostAssumption
<1>1. up \in [Client -> Seq(UpPackets)] /\ down \in [Client -> Seq(DownPackets)]
      /\ members \subseteq Client
  BY DEF TypeOK, ChannelsOK
<1>2. Gone'
  <2> SUFFICES ASSUME NEW d \in Client, status[d] = "out"
               PROVE  down'[d] = <<>> /\ (HungUp(d)' \/ d \notin members')
    BY RelayedFrom DEF Gone
  <2>1. down[d] = <<>> /\ (HungUp(d) \/ d \notin members)
    BY DEF Apart, Gone
  <2>2. down'[d] = <<>>
    BY <2>1, RelayedTo
  <2>3. CASE d \notin members
    BY <2>2, <2>3, RelayedFrom
  <2>4. CASE HungUp(d) /\ d # c
    BY <1>1, <2>2, <2>4, RelayedFrom DEF HungUp
  <2>5. CASE HungUp(d) /\ d = c /\ Len(up[c]) = 1
    <3>1. Head(up[c]).route = "Disconnect"
      BY <1>1, <2>5, TailIndex DEF HungUp
    <3> QED
      BY <2>2, <2>5, <3>1, RelayedFrom
  <2>6. CASE HungUp(d) /\ d = c /\ Len(up[c]) # 1
    <3>1. up'[c] = Tail(up[c]) /\ up[c] # <<>>
      BY <1>1, RelayedFrom
    <3> DEFINE s == up[c]
    <3>2. /\ Len(s) \in Nat /\ Len(s) > 0 /\ Len(Tail(s)) = Len(s) - 1
          /\ DOMAIN Tail(s) = 1 .. Len(s) - 1
          /\ \A i \in DOMAIN Tail(s) : Tail(s)[i] = s[i + 1]
      <4>1. s \in Seq(UpPackets) /\ s # <<>>
        BY <1>1, <3>1
      <4> HIDE DEF s
      <4> QED
        BY <4>1, TailIndex
    <3> HIDE DEF s
    <3>3. Len(s) - 1 \in 1 .. Len(s) - 1 /\ Len(s) - 1 + 1 = Len(s)
      <4>1. Len(s) # 1 /\ Len(s) \in Nat /\ Len(s) > 0
        BY <2>6, <3>2 DEF s
      <4>2. \A n \in Nat : n > 0 /\ n # 1 => n - 1 \in 1 .. n - 1 /\ n - 1 + 1 = n
        OBVIOUS
      <4> QED
        BY <4>1, <4>2
    <3>4. Tail(s)[Len(Tail(s))] = s[Len(s)]
      BY <3>2, <3>3
    <3>5. Tail(s) # <<>>
      <4>1. Len(Tail(s)) # Len(<<>>)
        BY <3>2, <3>3
      <4> QED
        BY <4>1
    <3> QED
      BY <2>2, <2>6, <3>1, <3>4, <3>5 DEF HungUp, s
  <2> QED
    BY <2>1, <2>3, <2>4, <2>5, <2>6
<1>3. Unannounced'
  <2> SUFFICES ASSUME NEW d \in Client, status[d] = "joining"
               PROVE  /\ \A i \in DOMAIN up'[d] : up'[d][i].body.type # "PlayerHasJoined"
                      /\ \A i \in DOMAIN down'[d] :
                           ~(down'[d][i].from = d /\ down'[d][i].body.type = "PlayerHasJoined")
    BY RelayedFrom DEF Unannounced
  <2>1. /\ \A i \in DOMAIN up[d] : up[d][i].body.type # "PlayerHasJoined"
        /\ \A i \in DOMAIN down[d] :
             ~(down[d][i].from = d /\ down[d][i].body.type = "PlayerHasJoined")
    BY DEF Apart, Unannounced
  <2>2. \A i \in DOMAIN up'[d] : up'[d][i].body.type # "PlayerHasJoined"
    <3>1. CASE d = c
      <4>1. up'[c] = Tail(up[c]) /\ up[c] # <<>> /\ up[c] \in Seq(UpPackets)
        BY <1>1, RelayedFrom
      <4>2. \A i \in DOMAIN Tail(up[c]) : i + 1 \in DOMAIN up[c] /\ Tail(up[c])[i] = up[c][i + 1]
        BY <4>1, TailIndex
      <4> QED
        BY <2>1, <3>1, <4>1, <4>2
    <3>2. CASE d # c
      BY <1>1, <2>1, <3>2, RelayedFrom
    <3> QED
      BY <3>1, <3>2
  <2>3. ASSUME NEW from \in Client, NEW n \in Nat, NEW body \in Bodies,
               down'[d] = Append(down[d], [from |-> from, n |-> n, body |-> body]),
               \/ from = c /\ body = Head(up[c]).body
               \/ body.type \in {"PlayerHasLeft", "HostDisconnected"},
               NEW i \in DOMAIN down'[d]
        PROVE  ~(down'[d][i].from = d /\ down'[d][i].body.type = "PlayerHasJoined")
    <3> DEFINE packet == [from |-> from, n |-> n, body |-> body]
    <3>1. packet \in DownPackets
      BY DEF DownPackets
    <3>2. ~(packet.from = d /\ packet.body.type = "PlayerHasJoined")
      <4>1. d = c => Head(up[c]).body.type # "PlayerHasJoined"
        BY <1>1, <2>1, RelayedFrom, TailIndex
      <4> QED
        BY <2>3, <4>1
    <3> HIDE DEF packet
    <3>3. \/ i \in DOMAIN down[d] /\ down'[d][i] = down[d][i]
          \/ down'[d][i] = packet
      BY <1>1, <2>3, <3>1, AppendIndex DEF packet
    <3> QED
      BY <2>1, <3>2, <3>3
  <2>4. \A i \in DOMAIN down'[d] :
          ~(down'[d][i].from = d /\ down'[d][i].body.type = "PlayerHasJoined")
    <3>1. CASE down'[d] = down[d]
      BY <2>1, <3>1
    <3>2. CASE down'[d] # down[d]
      <4>1. PICK from \in Client, n \in Nat, body \in Bodies :
              /\ down'[d] = Append(down[d], [from |-> from, n |-> n, body |-> body])
              /\ \/ from = c /\ body = Head(up[c]).body /\ body.type # "HostDisconnected"
                 \/ body.type = "PlayerHasLeft"
                 \/ body.type = "HostDisconnected" /\ members' = {}
        BY <3>2, RelayedTo
      <4> QED
        BY <2>3, <4>1
    <3> QED
      BY <3>1, <3>2
  <2> QED
    BY <2>2, <2>4
<1>4. HostEndsSession'
  <2>1. Host \notin members' => members' = {}
    BY RelayedFrom DEF Apart, HostEndsSession
  <2>2. ASSUME NEW d \in Client, NEW i \in DOMAIN down'[d],
               down'[d][i].body.type = "HostDisconnected"
        PROVE  i = Len(down'[d]) /\ members' = {}
    <3>1. \A j \in DOMAIN down[d] : down[d][j].body.type # "HostDisconnected"
      BY RelayedFrom DEF Apart, HostEndsSession
    <3>2. down'[d] # down[d]
      BY <2>2, <3>1
    <3>3. PICK from \in Client, n \in Nat, body \in Bodies :
            /\ down'[d] = Append(down[d], [from |-> from, n |-> n, body |-> body])
            /\ \/ from = c /\ body = Head(up[c]).body /\ body.type # "HostDisconnected"
               \/ body.type = "PlayerHasLeft"
               \/ body.type = "HostDisconnected" /\ members' = {}
      BY <3>2, RelayedTo
    <3> DEFINE packet == [from |-> from, n |-> n, body |-> body]
    <3>4. packet \in DownPackets /\ packet.body = body
      BY DEF DownPackets
    <3> HIDE DEF packet
    <3>5. \/ i \in DOMAIN down[d] /\ down'[d][i] = down[d][i]
          \/ i = Len(down'[d]) /\ down'[d][i] = packet
      <4>1. down[d] \in Seq(DownPackets) /\ down'[d] = Append(down[d], packet)
        BY <1>1, <3>3 DEF packet
      <4>2. \A j \in DOMAIN Append(down[d], packet) :
              \/ j \in DOMAIN down[d] /\ Append(down[d], packet)[j] = down[d][j]
              \/ j = Len(Append(down[d], packet)) /\ Append(down[d], packet)[j] = packet
        BY <3>4, <4>1, AppendIndex
      <4> QED
        BY <2>2, <4>1, <4>2
    <3> QED
      BY <2>2, <3>1, <3>3, <3>4, <3>5
  <2> QED
    BY <2>1, <2>2 DEF HostEndsSession
<1> QED
  BY <1>2, <1>3, <1>4 DEF Apart

\* A program that takes part sends a packet or none, and perhaps handles one.
LEMMA SendingApart ==
  ASSUME TypeOK, Apart, TypeOK', NEW c \in Client, status[c] # "out",
         status' = status \/ \E s \in {"welcomed", "in"} : status' = [status EXCEPT ![c] = s],
         \/ up' = up
         \/ \E route, to, body : /\ up' = Upload(c, route, to, body)
                                 /\ body.type = "PlayerHasJoined" => status'[c] # "joining",
         down' = down \/ (down[c] # <<>> /\ down' = [down EXCEPT ![c] = Tail(@)]),
         members' = members
  PROVE  Apart'
<1>1. /\ up \in [Client -> Seq(UpPackets)] /\ down \in [Client -> Seq(DownPackets)]
      /\ up' \in [Client -> Seq(UpPackets)]
      /\ status \in [Client -> Connected \cup {"out"}]
  BY DEF TypeOK, ChannelsOK, NumbersOK
<1>2. \A d \in Client : /\ d # c => status'[d] = status[d] /\ up'[d] = up[d] /\ down'[d] = down[d]
                        /\ status'[c] # "out"
                        /\ status'[c] = "joining" => status[c] = "joining"
  BY <1>1 DEF Upload
<1>3. Gone'
  <2> SUFFICES ASSUME NEW d \in Client, status'[d] = "out"
               PROVE  down'[d] = <<>> /\ (HungUp(d)' \/ d \notin members')
    BY DEF Gone
  <2>1. d # c
    BY <1>2
  <2> QED
    BY <1>2, <2>1 DEF Apart, Gone, HungUp
<1>4. ASSUME NEW d \in Client, NEW i \in DOMAIN down'[d]
      PROVE  \E j \in DOMAIN down[d] : /\ down'[d][i] = down[d][j]
                                       /\ j = Len(down[d]) => i = Len(down'[d])
  <2>1. CASE down'[d] = down[d]
    BY <1>4, <2>1
  <2>2. CASE down'[d] # down[d]
    <3> DEFINE s == down[d]
    <3>1. s # <<>> /\ down'[d] = Tail(s) /\ s \in Seq(DownPackets)
      BY <1>1, <2>2
    <3> HIDE DEF s
    <3>2. /\ i \in DOMAIN Tail(s) /\ i + 1 \in DOMAIN s /\ Tail(s)[i] = s[i + 1]
          /\ Len(Tail(s)) = Len(s) - 1 /\ Len(s) \in Nat
          /\ DOMAIN Tail(s) = 1 .. Len(s) - 1
      BY <1>4, <3>1, TailIndex
    <3>3. i + 1 = Len(s) => i = Len(Tail(s))
      BY <3>2
    <3> QED
      BY <3>1, <3>2, <3>3 DEF s
  <2> QED
    BY <2>1, <2>2
<1>5. Unannounced'
  <2> SUFFICES ASSUME NEW d \in Client, status'[d] = "joining"
               PROVE  /\ \A i \in DOMAIN up'[d] : up'[d][i].body.type # "PlayerHasJoined"
                      /\ \A i \in DOMAIN down'[d] :
                           ~(down'[d][i].from = d /\ down'[d][i].body.type = "PlayerHasJoined")
    BY DEF Unannounced
  <2>1. /\ \A i \in DOMAIN up[d] : up[d][i].body.type # "PlayerHasJoined"
        /\ \A i \in DOMAIN down[d] :
             ~(down[d][i].from = d /\ down[d][i].body.type = "PlayerHasJoined")
    BY <1>2 DEF Apart, Unannounced
  <2>2. \A i \in DOMAIN down'[d] :
          ~(down'[d][i].from = d /\ down'[d][i].body.type = "PlayerHasJoined")
    BY <1>4, <2>1
  <2>3. \A i \in DOMAIN up'[d] : up'[d][i].body.type # "PlayerHasJoined"
    <3>1. CASE up'[d] = up[d]
      BY <2>1, <3>1
    <3>2. CASE up'[d] # up[d]
      <4>1. d = c /\ up' # up
        BY <1>2, <3>2
      <4>2. PICK route, to, body :
              /\ up' = Upload(c, route, to, body)
              /\ body.type = "PlayerHasJoined" => status'[c] # "joining"
        BY <4>1
      <4> DEFINE packet == [route |-> route, to |-> to, body |-> body]
      <4>3. packet \in UpPackets
        BY <1>1, <4>2, UploadedPacket DEF TypeOK
      <4>4. up'[c] = Append(up[c], packet)
        BY <1>1, <4>2 DEF Upload
      <4>5. packet.body.type # "PlayerHasJoined"
        BY <4>1, <4>2
      <4> HIDE DEF packet
      <4>6. \A j \in DOMAIN Append(up[c], packet) :
              \/ j \in DOMAIN up[c] /\ Append(up[c], packet)[j] = up[c][j]
              \/ Append(up[c], packet)[j] = packet
        BY <1>1, <4>3, AppendIndex
      <4> QED
        BY <2>1, <4>1, <4>4, <4>5, <4>6
    <3> QED
      BY <3>1, <3>2
  <2> QED
    BY <2>2, <2>3
<1>6. HostEndsSession'
  BY <1>4 DEF Apart, HostEndsSession
<1> QED
  BY <1>3, <1>5, <1>6 DEF Apart

LEMMA HangupApart ==
  ASSUME TypeOK, Apart, NEW c \in Client, Hangup(c),
         status' = [status EXCEPT ![c] = "out"]
  PROVE  Apart'
<1>1. /\ up \in [Client -> Seq(UpPackets)] /\ down \in [Client -> Seq(DownPackets)]
      /\ status \in [Client -> Connected \cup {"out"}]
  BY DEF TypeOK, ChannelsOK, NumbersOK
<1>2. /\ members' = members
      /\ \A d \in Client \ {c} : status'[d] = status[d] /\ up'[d] = up[d] /\ down'[d] = down[d]
      /\ status'[c] = "out" /\ down'[c] = <<>>
  BY <1>1 DEF Hangup
<1>3. HungUp(c)'
  <2> DEFINE packet == [route |-> "Disconnect", to |-> c, body |-> [type |-> "Disconnect"]]
  <2>1. PICK k \in 0 .. Len(up[c]) : up'[c] = Append(SubSeq(up[c], 1, k), packet)
    BY <1>1 DEF Hangup
  <2>2. packet \in UpPackets
    BY BodyMade DEF UpPackets, Routes
  <2>3. packet.route = "Disconnect"
    OBVIOUS
  <2> DEFINE s == SubSeq(up[c], 1, k)
  <2>4. s \in Seq(UpPackets)
    BY <1>1, SubSeqProperties
  <2> HIDE DEF packet, s
  <2>5. Append(s, packet) # <<>> /\ Append(s, packet)[Len(Append(s, packet))] = packet
    BY <2>2, <2>4, AppendIndex
  <2>6. up'[c] # <<>> /\ up'[c][Len(up'[c])] = packet
    BY <2>1, <2>5 DEF s
  <2> QED
    BY <2>3, <2>6 DEF HungUp
<1>4. Gone'
  BY <1>2, <1>3 DEF Apart, Gone, HungUp
<1>5. Unannounced'
  BY <1>2 DEF Apart, Unannounced
<1>6. HostEndsSession'
  BY <1>2 DEF Apart, HostEndsSession
<1> QED
  BY <1>4, <1>5, <1>6 DEF Apart

LEMMA ConnectApart ==
  ASSUME TypeOK, Apart, NEW c \in Client, Connect(c)
  PROVE  Apart'
<1> USE HostAssumption
<1> DEFINE packet == [from |-> c, n |-> 0, body |-> [type |-> "PlayerWantsToJoin"]]
<1>1. /\ up \in [Client -> Seq(UpPackets)] /\ down \in [Client -> Seq(DownPackets)]
      /\ status \in [Client -> Connected \cup {"out"}]
  BY DEF TypeOK, ChannelsOK, NumbersOK
<1>2. /\ c # Host /\ status[c] = "out" /\ up' = up /\ up[c] = <<>> /\ Host \in members
      /\ members' = members \cup {c}
      /\ status' = [status EXCEPT ![c] = "joining"]
      /\ down' = Deliver({Host}, c, 0, [type |-> "PlayerWantsToJoin"])
  BY DEF Connect, OnPlayerConnected
<1>3. /\ \A d \in Client \ {Host} : down'[d] = down[d]
      /\ HungUp(Host) => down'[Host] = down[Host]
      /\ ~HungUp(Host) => down'[Host] = Append(down[Host], packet)
  BY <1>1, <1>2 DEF Deliver
<1>4. packet \in DownPackets /\ packet.body.type = "PlayerWantsToJoin"
  BY BodyMade DEF DownPackets
<1>5. Gone'
  <2> SUFFICES ASSUME NEW d \in Client, status'[d] = "out"
               PROVE  down'[d] = <<>> /\ (HungUp(d)' \/ d \notin members')
    BY DEF Gone
  <2>1. d # c /\ status[d] = "out"
    BY <1>1, <1>2
  <2>2. down[d] = <<>> /\ (HungUp(d) \/ d \notin members)
    BY <2>1 DEF Apart, Gone
  <2>3. down'[d] = <<>>
    BY <1>2, <1>3, <2>2
  <2>4. HungUp(d)' \/ d \notin members'
    BY <1>2, <2>1, <2>2 DEF HungUp
  <2> QED
    BY <2>3, <2>4
<1> HIDE DEF packet
<1>6. \A i \in DOMAIN down'[Host] :
        \/ i \in DOMAIN down[Host] /\ down'[Host][i] = down[Host][i]
        \/ down'[Host][i] = packet
  <2>1. \A i \in DOMAIN Append(down[Host], packet) :
          \/ i \in DOMAIN down[Host] /\ Append(down[Host], packet)[i] = down[Host][i]
          \/ Append(down[Host], packet)[i] = packet
    BY <1>1, <1>4, AppendIndex
  <2> QED
    BY <1>3, <2>1
<1>7. Unannounced'
  <2> SUFFICES ASSUME NEW d \in Client, status'[d] = "joining"
               PROVE  /\ \A i \in DOMAIN up'[d] : up'[d][i].body.type # "PlayerHasJoined"
                      /\ \A i \in DOMAIN down'[d] :
                           ~(down'[d][i].from = d /\ down'[d][i].body.type = "PlayerHasJoined")
    BY DEF Unannounced
  <2>1. CASE d = c
    <3>1. down[c] = <<>>
      BY <1>2 DEF Apart, Gone
    <3>2. up'[d] = <<>> /\ down'[d] = <<>>
      BY <1>2, <1>3, <2>1, <3>1
    <3> QED
      BY <3>2
  <2>2. CASE d # c
    <3>1. status[d] = "joining"
      BY <1>1, <1>2, <2>2
    <3>2. /\ \A i \in DOMAIN up[d] : up[d][i].body.type # "PlayerHasJoined"
          /\ \A i \in DOMAIN down[d] :
               ~(down[d][i].from = d /\ down[d][i].body.type = "PlayerHasJoined")
      BY <3>1 DEF Apart, Unannounced
    <3>3. CASE d = Host
      BY <1>2, <1>4, <1>6, <3>2, <3>3
    <3>4. CASE d # Host
      BY <1>2, <1>3, <3>2, <3>4
    <3> QED
      BY <3>3, <3>4
  <2> QED
    BY <2>1, <2>2
<1>8. HostEndsSession'
  <2>1. \A d \in Client : \A i \in DOMAIN down[d] : down[d][i].body.type # "HostDisconnected"
    BY <1>2 DEF Apart, HostEndsSession
  <2>2. \A d \in Client : \A i \in DOMAIN down'[d] : down'[d][i].body.type # "HostDisconnected"
    BY <1>3, <1>4, <1>6, <2>1
  <2> QED
    BY <1>2, <2>2 DEF HostEndsSession
<1> QED
  BY <1>5, <1>7, <1>8 DEF Apart

LEMMA SessionsStep == TypeOK /\ TypeOK' /\ HostAside /\ Apart /\ [Next]_vars => Apart'
<1> SUFFICES ASSUME TypeOK, TypeOK', HostAside, Apart, [Next]_vars
             PROVE  Apart'
  OBVIOUS
<1> USE HostAssumption
\* One who handles a packet is not out.
<1>1. ASSUME NEW c \in Client, NEW t, Handling(c, t)
      PROVE  /\ status[c] # "out" /\ members' = members
             /\ down[c] # <<>> /\ down' = [down EXCEPT ![c] = Tail(@)]
  BY <1>1 DEF Handling, Apart, Gone
<1>2. ASSUME NEW c \in Client, NEW t, Handling(c, t), up' = up,
             status' = status \/ \E s \in {"welcomed", "in"} : status' = [status EXCEPT ![c] = s]
      PROVE  Apart'
  BY <1>1, <1>2, SendingApart
<1>3. ASSUME NEW c \in Client, NEW kind \in Kinds, Ask(c, kind)
      PROVE  Apart'
  <2>1. /\ status[c] # "out" /\ status' = status /\ down' = down /\ members' = members
        /\ \E route, to, body : /\ up' = Upload(c, route, to, body)
                                /\ body.type = "PlayerHasJoined" => status'[c] # "joining"
    BY <1>3 DEF Ask, Connected
  <2> QED
    BY <2>1, SendingApart
<1>4. ASSUME LoadGame \/ OpenBox
      PROVE  Apart'
  <2>1. /\ status[Host] # "out" /\ status' = status /\ down' = down /\ members' = members
        /\ \E route, to, body : /\ up' = Upload(Host, route, to, body)
                                /\ body.type = "PlayerHasJoined" => status'[Host] # "joining"
    BY <1>4 DEF LoadGame, OpenBox
  <2> QED
    BY <2>1, SendingApart
<1>5. ASSUME Animate
      PROVE  Apart'
  BY <1>5 DEF Animate, relayVars, Apart, Gone, HungUp, Unannounced, HostEndsSession
<1>6. ASSUME NEW c \in Client, Leave(c)
      PROVE  Apart'
  BY <1>6, HangupApart DEF Leave
<1>7. ASSUME HandleRequest
      PROVE  Apart'
  <2>1. Handling(Host, "Request") /\ status' = status
    BY <1>7 DEF HandleRequest, Outdated, Reject, Accept
  <2>2. \/ up' = up
        \/ \E route, to, body : /\ up' = Upload(Host, route, to, body)
                                /\ body.type = "PlayerHasJoined" => status'[Host] # "joining"
    <3> DEFINE rejected == [type |-> "ChangeRejected", req |-> Body(Host).req]
               accepted == [type |-> "ChangeAccepted", seq |-> seq[Host] + 1, req |-> Body(Host).req]
    <3>1. \/ SendToOne(Host, Body(Host).req.sender, rejected)
          \/ up' = Upload(Host, "ClientToAll", Host, accepted)
      BY <1>7 DEF HandleRequest, Outdated, Reject, Accept
    <3>2. rejected.type # "PlayerHasJoined" /\ accepted.type # "PlayerHasJoined"
      OBVIOUS
    <3> HIDE DEF rejected, accepted
    <3> QED
      BY <3>1, <3>2 DEF SendToOne
  <2> QED
    BY <1>1, <2>1, <2>2, SendingApart
<1>8. ASSUME HandlePlayerWantsToJoin
      PROVE  Apart'
  <2>1. Handling(Host, "PlayerWantsToJoin") /\ status' = status
    BY <1>8 DEF HandlePlayerWantsToJoin
  <2>2. \/ up' = up
        \/ \E route, to, body : /\ up' = Upload(Host, route, to, body)
                                /\ body.type = "PlayerHasJoined" => status'[Host] # "joining"
    <3> DEFINE body == [type |-> "ConnectionAccepted", seq |-> seq[Host], table |-> shown,
                 clean |-> ~ChangesOnTheirWay /\ shown = history[Host].table /\ Host \notin suspect]
    <3>1. SendToOne(Host, Head(down[Host]).from, body)
      BY <1>8 DEF HandlePlayerWantsToJoin
    <3>2. body.type # "PlayerHasJoined"
      OBVIOUS
    <3> HIDE DEF body
    <3> QED
      BY <3>1, <3>2 DEF SendToOne
  <2> QED
    BY <1>1, <2>1, <2>2, SendingApart
<1>9. ASSUME NEW c \in Client, Handle(c)
      PROVE  Apart'
  <2>1. CASE HandleChangeAccepted(c)
    <3>1. Handling(c, "ChangeAccepted") /\ status' = status
      BY <2>1 DEF HandleChangeAccepted, TakeNumber
    <3>2. \/ up' = up
          \/ \E route, to, body : /\ up' = Upload(c, route, to, body)
                                  /\ body.type = "PlayerHasJoined" => status'[c] # "joining"
      BY <2>1 DEF HandleChangeAccepted, TakeNumber
    <3> QED
      BY <1>1, <3>1, <3>2, SendingApart
  <2>2. CASE HandleShuffleResult(c)
    BY <1>2, <2>2 DEF HandleShuffleResult
  <2>3. CASE HandleChangeRejected(c)
    BY <1>2, <2>3 DEF HandleChangeRejected
  <2>4. CASE HandleOwnRejection(c)
    BY <2>4 DEF HandleOwnRejection, Apart, Gone, HungUp, Unannounced, HostEndsSession
  <2>5. CASE HandleGameLoaded(c)
    BY <1>2, <2>5 DEF HandleGameLoaded
  <2>6. CASE HandleGameBoxHasChanged(c)
    BY <1>2, <2>6 DEF HandleGameBoxHasChanged
  <2>7. CASE HandleGameWithoutBox(c)
    BY <2>7, HangupApart DEF HandleGameWithoutBox
  <2>8. CASE HandleConnectionAccepted(c)
    <3>1. /\ Handling(c, "ConnectionAccepted")
          /\ status' = [status EXCEPT ![c] = "welcomed"]
          /\ up' = Upload(c, "ClientToAll", c, [type |-> "PlayerHasJoined"])
      BY <2>8 DEF HandleConnectionAccepted
    <3>2. status'[c] # "joining"
      BY <3>1 DEF TypeOK, NumbersOK
    <3> QED
      BY <1>1, <3>1, <3>2, SendingApart
  <2>9. CASE HandlePlayerHasJoined(c)
    <3>1. /\ Handling(c, "PlayerHasJoined") /\ up' = up
          /\ status' = [status EXCEPT ![c] = IF Head(down[c]).from = c THEN "in" ELSE @]
      BY <2>9 DEF HandlePlayerHasJoined
    <3>2. status' = status \/ status' = [status EXCEPT ![c] = "in"]
      BY <3>1 DEF TypeOK, NumbersOK
    <3> QED
      BY <1>2, <3>1, <3>2
  <2>10. CASE HandlePlayerHasLeft(c)
    BY <1>2, <2>10 DEF HandlePlayerHasLeft
  <2>11. CASE HandleHostDisconnected(c)
    <3> DEFINE s == down[c]
    <3>1. /\ s # <<>> /\ s \in Seq(DownPackets) /\ Head(s).body.type = "HostDisconnected"
          /\ down' = [down EXCEPT ![c] = Tail(s)]
          /\ down \in [Client -> Seq(DownPackets)] /\ up \in [Client -> Seq(UpPackets)]
          /\ status \in [Client -> Connected \cup {"out"}]
          /\ members' = members
          /\ status' = [status EXCEPT ![c] = "out"]
          /\ up' = [up EXCEPT ![c] = <<>>]
      BY <2>11 DEF HandleHostDisconnected, Handling, TypeOK, ChannelsOK, NumbersOK
    <3>2. 1 = Len(s) /\ members = {}
      <4>1. 1 \in DOMAIN s /\ s[1] = Head(s)
        BY <3>1, TailIndex
      <4> QED
        BY <3>1, <4>1 DEF Apart, HostEndsSession
    <3>3. Tail(s) = <<>>
      BY <3>1, <3>2, TailIndex
    <3> HIDE DEF s
    <3>4. \A d \in Client : down'[d] = IF d = c THEN <<>> ELSE down[d]
      BY <3>1, <3>3
    <3>5. Gone'
      <4>1. members' = {}
        BY <3>1, <3>2
      <4>2. \A d \in Client : status'[d] = "out" => down'[d] = <<>>
        BY <3>1, <3>4 DEF Apart, Gone
      <4> QED
        BY <4>1, <4>2 DEF Gone
    <3>6. Unannounced'
      BY <3>1, <3>4 DEF Apart, Unannounced
    <3>7. HostEndsSession'
      <4>1. members' = {}
        BY <3>1, <3>2
      <4>2. \A d \in Client : \A i \in DOMAIN down'[d] :
              down'[d][i].body.type = "HostDisconnected" => i = Len(down'[d])
        BY <3>4 DEF Apart, HostEndsSession
      <4> QED
        BY <4>1, <4>2 DEF HostEndsSession
    <3> QED
      BY <3>5, <3>6, <3>7 DEF Apart
  <2>12. CASE HandleRest(c)
    BY <2>12, RestApart DEF relayVars, Apart, Gone, HungUp, Unannounced, HostEndsSession
  <2> QED
    BY <1>9, <2>1, <2>2, <2>3, <2>4, <2>5, <2>6, <2>7, <2>8, <2>9, <2>10, <2>11, <2>12 DEF Handle
<1>10. CASE UNCHANGED vars
  BY <1>10 DEF vars, relayVars, Apart, Gone, HungUp, Unannounced, HostEndsSession
<1> QED
  <2>1. CASE \E c \in Client : Relaying(c)
    BY <2>1, RelayingApart
  <2>2. CASE \E c \in Client : Connect(c)
    BY <2>2, ConnectApart
  <2> QED
    BY <1>3, <1>4, <1>5, <1>6, <1>7, <1>8, <1>9, <1>10, <2>1, <2>2 DEF Next, ProgramStep, HandleAtHost

LEMMA SessionsInit == Init => Apart
BY HostAssumption DEF Init, RelayInit, Apart, Gone, Unannounced, HostEndsSession

LEMMA HostAsideAlways == Spec => [](TypeOK /\ HostAside)
<1>1. Init => HostAside
  BY HostAssumption DEF Init, RelayInit, HostAside
<1> QED
  BY <1>1, HostAsideStep, TypeCorrect, PTL DEF Spec

\* The host's own number is never overwritten by a snapshot.
THEOREM HostNeverGetsSnapshot == Spec => []HostNeverJoins
<1>1. TypeOK /\ HostAside => HostNeverJoins
  BY HostAsideMeaning DEF TypeOK
<1> QED
  BY <1>1, HostAsideAlways, PTL

LEMMA ApartAlways == Spec => []Apart
BY SessionsInit, SessionsStep, HostAsideAlways, PTL DEF Spec

\* Whoever leaves tells the session nothing more, though he handles and answers what he
\* has retrieved; and whoever comes back is not taken for the player he was, however many
\* players come and go.
THEOREM SessionsStayApart == Spec => []SessionsApart
<1>1. Apart => SessionsApart
  BY DEF Apart, Gone, SessionsApart, OutIsOut
<1> QED
  BY <1>1, ApartAlways, PTL

-----------------------------------------------------------------------------
(* The host leads, and accepts only what is current.                       *)

AcceptedAtOnce(m) ==
  (m.type = "ChangeAccepted" /\ MadeInSession(m.req)) => m.seq = m.req.seq + 1
Sound(m, n) == Behind(m, n) /\ AcceptedAtOnce(m)
UpBehind(n) == {p \in UpPackets : Sound(p.body, n)}
DownBehind(n) == {p \in DownPackets : Sound(p.body, n)}

\* The inductive invariant.  AcceptedIsCurrent alone is not inductive: the host
\* compares a request's number with his own, and that the request's is not greater
\* follows from where the player's number came from.
Leading(n) ==
  /\ up \in [Client -> Seq(UpBehind(n))]
  /\ down \in [Client -> Seq(DownBehind(n))]
  /\ \A c \in Client : status[c] \in {"welcomed", "in"} => seq[c] <= n
NumbersInv == ~renumbered => Leading(seq[Host])

LEMMA NumbersMeaning == TypeOK /\ NumbersInv => HostLeads /\ AcceptedIsCurrent
<1> SUFFICES ASSUME TypeOK, NumbersInv, ~renumbered
             PROVE  /\ \A m \in InTransit : Sound(m, seq[Host])
                    /\ \A c \in Client : status[c] \in {"welcomed", "in"} => seq[c] <= seq[Host]
  BY DEF HostLeads, AcceptedIsCurrent, Sound, AcceptedAtOnce
<1>1. Leading(seq[Host])
  BY DEF NumbersInv
<1>2. \A c \in Client : \A i \in DOMAIN up[c] : Sound(up[c][i].body, seq[Host])
  <2>1. \A c \in Client : \A i \in DOMAIN up[c] : up[c][i] \in UpBehind(seq[Host])
    BY <1>1, SeqFilter DEF Leading
  <2> QED
    BY <2>1 DEF UpBehind
<1>3. \A c \in Client : \A i \in DOMAIN down[c] : Sound(down[c][i].body, seq[Host])
  <2>1. \A c \in Client : \A i \in DOMAIN down[c] : down[c][i] \in DownBehind(seq[Host])
    BY <1>1, SeqFilter DEF Leading
  <2> QED
    BY <2>1 DEF DownBehind
<1> QED
  BY <1>1, <1>2, <1>3 DEF Leading, InTransit, Carried

LEMMA LeadingMonotonic ==
  ASSUME NEW n \in Nat, NEW k \in Nat, n <= k, TypeOK, Leading(n)
  PROVE  Leading(k)
<1>1. \A m \in Bodies : Sound(m, n) => Sound(m, k)
  <2> SUFFICES ASSUME NEW m \in Bodies, Sound(m, n)
               PROVE  Behind(m, k)
    BY DEF Sound
  <2>1. m.type \in HasNumber => m.seq \in Nat
    BY BodyFields DEF HasNumber, StateChanges
  <2>2. m.type = "Request" => m.req.seq \in Nat
    BY BodyFields DEF Requests
  <2> QED
    BY <2>1, <2>2 DEF Sound, Behind
<1>2. UpBehind(n) \subseteq UpBehind(k) /\ DownBehind(n) \subseteq DownBehind(k)
  BY <1>1 DEF UpBehind, DownBehind, UpPackets, DownPackets
<1>3. \A c \in Client : seq[c] \in Nat
  BY DEF TypeOK, NumbersOK
<1>4. \A c \in Client : status[c] \in {"welcomed", "in"} => seq[c] <= k
  BY <1>3 DEF Leading
<1>5. /\ up \in [Client -> Seq(UpBehind(k))]
      /\ down \in [Client -> Seq(DownBehind(k))]
  BY <1>2, ChannelsMonotonic DEF Leading
<1> QED
  BY <1>4, <1>5 DEF Leading

LEMMA SoundUpload ==
  ASSUME NEW n, TypeOK, TypeOK', Leading(n), NEW c \in Client, NEW route, NEW to, NEW body,
         up' = Upload(c, route, to, body), Sound(body, n)
  PROVE  up' \in [Client -> Seq(UpBehind(n))]
<1>1. [route |-> route, to |-> to, body |-> body] \in UpPackets
  BY UploadedPacket DEF TypeOK, ChannelsOK
<1>2. [route |-> route, to |-> to, body |-> body] \in UpBehind(n)
  BY <1>1 DEF UpBehind
<1> QED
  BY <1>2, UploadIn DEF Leading

LEMMA SoundHandling ==
  ASSUME NEW n, Leading(n), NEW c \in Client, NEW t, Handling(c, t)
  PROVE  /\ Sound(Body(c), n) /\ Body(c).type = t
         /\ Body(c) \in Bodies
         /\ down' \in [Client -> Seq(DownBehind(n))]
<1>1. Head(down[c]) \in DownBehind(n) /\ down' \in [Client -> Seq(DownBehind(n))]
  BY HandlingIn DEF Leading
<1> QED
  BY <1>1 DEF DownBehind, DownPackets, Body, Handling

\* Bodies without numbers are sound.
LEMMA SoundPlain ==
  ASSUME NEW m, NEW n,
         m.type \in {"PlayerWantsToJoin", "PlayerHasJoined", "PlayerHasLeft",
                     "HostDisconnected", "Disconnect", "ChangeRejected"}
  PROVE  Sound(m, n)
BY DEF Sound, Behind, AcceptedAtOnce, HasNumber, StateChanges

LEMMA SoundHangup ==
  ASSUME NEW n, Leading(n), NEW c \in Client, Hangup(c)
  PROVE  up' \in [Client -> Seq(UpBehind(n))] /\ down' \in [Client -> Seq(DownBehind(n))]
<1>1. [route |-> "Disconnect", to |-> c, body |-> [type |-> "Disconnect"]] \in UpBehind(n)
  BY BodyMade, SoundPlain DEF UpBehind, UpPackets, Routes
<1> QED
  BY <1>1, HangupIn DEF Leading

LEMMA SoundRelaying ==
  ASSUME NEW n, TypeOK, Leading(n), NEW c \in Client, Relaying(c)
  PROVE  up' \in [Client -> Seq(UpBehind(n))] /\ down' \in [Client -> Seq(DownBehind(n))]
<1> USE HostAssumption
<1>1. \A p \in UpBehind(n), k \in Nat : [from |-> c, n |-> k, body |-> p.body] \in DownBehind(n)
  BY DEF UpBehind, DownBehind, UpPackets, DownPackets
<1>2. \A k \in Nat :
        /\ [from |-> c, n |-> k, body |-> [type |-> "PlayerHasLeft"]] \in DownBehind(n)
        /\ [from |-> Host, n |-> k, body |-> [type |-> "HostDisconnected"]] \in DownBehind(n)
  BY BodyMade, SoundPlain DEF DownBehind, DownPackets
<1>3. relayed \in Nat
  BY DEF TypeOK, ChannelsOK
<1> QED
  BY <1>1, <1>2, <1>3, RelayingIn DEF Leading

\* What players do, while the number of the host is not set back.
LEMMA PlayingLeads ==
  ASSUME TypeOK, TypeOK', Leading(seq[Host]),
         \/ \E c \in Client, kind \in Kinds : Ask(c, kind)
         \/ LoadGame \/ OpenBox \/ Animate
         \/ \E c \in Client : Connect(c) \/ Leave(c)
  PROVE  Leading(seq[Host])'
<1> USE HostAssumption
<1>1. /\ \A c \in Client : seq[c] \in Nat /\ seq'[c] \in Nat
      /\ seq \in [Client -> Nat]
      /\ status \in [Client -> Connected \cup {"out"}]
  BY DEF TypeOK, NumbersOK
<1>2. ASSUME NEW c \in Client, NEW kind \in Kinds, Ask(c, kind)
      PROVE  Leading(seq[Host])'
  <2> DEFINE req == [kind |-> kind, id |-> issued + 1, sender |-> c, seq |-> seq[c],
                     base |-> history[c].table, synced |-> status[c] # "joining",
                     faithful |-> c \notin suspect]
             body == [type |-> "Request", req |-> req]
  <2>1. MadeInSession(req) => seq[c] <= seq[Host]
    BY <1>1, <1>2 DEF MadeInSession, Ask, Connected, Leading
  <2>2. Sound(body, seq[Host])
    BY <2>1 DEF Sound, Behind, AcceptedAtOnce, HasNumber, StateChanges
  <2>3. up' = Upload(c, "ClientToHost", Host, body)
    BY <1>2 DEF Ask
  <2> HIDE DEF body
  <2>4. up' \in [Client -> Seq(UpBehind(seq[Host]))]
    BY <2>2, <2>3, SoundUpload
  <2> QED
    BY <1>2, <2>4 DEF Ask, Leading
<1>3. ASSUME NEW type \in {"GameLoaded", "GameBoxHasChanged"},
             seq' = [seq EXCEPT ![Host] = @ + 1],
             up' = Upload(Host, "ClientToAll", Host,
                     [type |-> type, seq |-> seq[Host] + 1, change |-> issued + 1]),
             UNCHANGED <<down, status>>
      PROVE  Leading(seq[Host])'
  <2> DEFINE body == [type |-> type, seq |-> seq[Host] + 1, change |-> issued + 1]
  <2>1. seq'[Host] = seq[Host] + 1 /\ seq[Host] <= seq[Host] + 1
    BY <1>1, <1>3
  <2>2. Leading(seq[Host] + 1)
    BY <1>1, <2>1, LeadingMonotonic
  <2>3. Sound(body, seq[Host] + 1)
    BY <1>1 DEF Sound, Behind, AcceptedAtOnce
  <2> HIDE DEF body
  <2>4. up' \in [Client -> Seq(UpBehind(seq[Host] + 1))]
    BY <1>3, <2>2, <2>3, SoundUpload DEF body
  <2>5. \A c \in Client : status'[c] \in {"welcomed", "in"} => seq'[c] <= seq[Host] + 1
    BY <1>1, <1>3, <2>2 DEF Leading
  <2> QED
    BY <1>3, <2>1, <2>2, <2>4, <2>5 DEF Leading
<1>4. CASE LoadGame
  <2>1. /\ seq' = [seq EXCEPT ![Host] = @ + 1]
        /\ up' = Upload(Host, "ClientToAll", Host,
                   [type |-> "GameLoaded", seq |-> seq[Host] + 1, change |-> issued + 1])
        /\ UNCHANGED <<down, status>>
    BY <1>4 DEF LoadGame
  <2> QED
    BY <1>3, <2>1
<1>5. CASE OpenBox
  <2>1. /\ seq' = [seq EXCEPT ![Host] = @ + 1]
        /\ up' = Upload(Host, "ClientToAll", Host,
                   [type |-> "GameBoxHasChanged", seq |-> seq[Host] + 1, change |-> issued + 1])
        /\ UNCHANGED <<down, status>>
    BY <1>5 DEF OpenBox
  <2> QED
    BY <1>3, <2>1
<1>6. CASE Animate
  BY <1>6 DEF Animate, Leading, relayVars
<1>7. ASSUME NEW c \in Client, Connect(c)
      PROVE  Leading(seq[Host])'
  <2>1. /\ up' = up /\ seq' = seq
        /\ down' = Deliver({Host}, c, 0, [type |-> "PlayerWantsToJoin"])
        /\ status' = [status EXCEPT ![c] = "joining"]
    BY <1>7 DEF Connect, OnPlayerConnected
  <2>2. [from |-> c, n |-> 0, body |-> [type |-> "PlayerWantsToJoin"]] \in DownBehind(seq[Host])
    BY BodyMade, SoundPlain DEF DownBehind, DownPackets
  <2>3. down' \in [Client -> Seq(DownBehind(seq[Host]))]
    BY <2>1, <2>2, DeliverIn DEF Leading
  <2> QED
    BY <1>1, <2>1, <2>3 DEF Leading
<1>8. ASSUME NEW c \in Client, Leave(c)
      PROVE  Leading(seq[Host])'
  <2>1. up' \in [Client -> Seq(UpBehind(seq[Host]))] /\ down' \in [Client -> Seq(DownBehind(seq[Host]))]
    BY <1>8, SoundHangup DEF Leave
  <2> QED
    BY <1>1, <1>8, <2>1 DEF Leave, Leading
<1> QED
  BY <1>1, <1>2, <1>4, <1>5, <1>6, <1>7, <1>8

\* The host's answers: here the number is compared.
LEMMA AnsweringLeads ==
  ASSUME TypeOK, TypeOK', Leading(seq[Host]), HandleRequest \/ HandlePlayerWantsToJoin
  PROVE  Leading(seq[Host])'
<1> USE HostAssumption
<1>1. /\ \A c \in Client : seq[c] \in Nat /\ seq'[c] \in Nat
      /\ seq \in [Client -> Nat]
  BY DEF TypeOK, NumbersOK
<1>2. ASSUME HandleRequest
      PROVE  Leading(seq[Host])'
  <2> DEFINE req == Body(Host).req
  <2>1. /\ Sound(Body(Host), seq[Host]) /\ Body(Host).type = "Request"
        /\ Body(Host) \in Bodies
        /\ down' \in [Client -> Seq(DownBehind(seq[Host]))]
        /\ status' = status
    BY <1>2, SoundHandling DEF HandleRequest, Outdated, Reject, Accept
  <2>2. req.seq \in Nat /\ (MadeInSession(req) => req.seq <= seq[Host])
    BY <2>1, BodyFields DEF Sound, Behind, Requests
  <2>3. CASE req.seq < seq[Host]
    <3> DEFINE body == [type |-> "ChangeRejected", req |-> req]
    <3>1. SendToOne(Host, req.sender, body) /\ seq' = seq
      BY <1>2, <2>3 DEF HandleRequest, Outdated, Reject, Accept
    <3>2. Sound(body, seq[Host])
      BY SoundPlain
    <3> HIDE DEF body
    <3>3. up' = up \/ up' = Upload(Host, "HostToSingleClient", req.sender, body)
      BY <3>1 DEF SendToOne
    <3>4. up' \in [Client -> Seq(UpBehind(seq[Host]))]
      BY <3>2, <3>3, SoundUpload DEF Leading
    <3> QED
      BY <2>1, <3>1, <3>4 DEF Leading
  <2>4. CASE ~(req.seq < seq[Host])
    <3> DEFINE body == [type |-> "ChangeAccepted", seq |-> seq[Host] + 1, req |-> req]
    <3>1. /\ seq' = [seq EXCEPT ![Host] = @ + 1]
          /\ up' = Upload(Host, "ClientToAll", Host, body)
      BY <1>2, <2>4 DEF HandleRequest, Outdated, Reject, Accept
    <3>2. MadeInSession(req) => seq[Host] + 1 = req.seq + 1
      BY <1>1, <2>2, <2>4
    <3>3. Sound(body, seq[Host] + 1)
      BY <1>1, <3>2 DEF Sound, Behind, AcceptedAtOnce
    <3>4. Leading(seq[Host] + 1)
      BY <1>1, LeadingMonotonic
    <3> HIDE DEF body
    <3>5. up' \in [Client -> Seq(UpBehind(seq[Host] + 1))]
      BY <3>1, <3>3, <3>4, SoundUpload
    <3>6. down' \in [Client -> Seq(DownBehind(seq[Host] + 1))]
      BY <1>2, <3>4, SoundHandling DEF HandleRequest, Outdated, Reject, Accept
    <3>7. \A c \in Client : status'[c] \in {"welcomed", "in"} => seq'[c] <= seq[Host] + 1
      BY <1>1, <2>1, <3>1, <3>4 DEF Leading
    <3>8. seq'[Host] = seq[Host] + 1
      BY <1>1, <3>1
    <3> QED
      BY <3>5, <3>6, <3>7, <3>8 DEF Leading
  <2> QED
    BY <2>3, <2>4
<1>3. ASSUME HandlePlayerWantsToJoin
      PROVE  Leading(seq[Host])'
  <2> DEFINE to == Head(down[Host]).from
             body == [type |-> "ConnectionAccepted", seq |-> seq[Host], table |-> shown,
                      clean |-> ~ChangesOnTheirWay /\ shown = history[Host].table /\ Host \notin suspect]
  <2>1. /\ down' \in [Client -> Seq(DownBehind(seq[Host]))]
        /\ status' = status /\ seq' = seq
        /\ SendToOne(Host, to, body)
    BY <1>3, SoundHandling DEF HandlePlayerWantsToJoin
  <2>2. Sound(body, seq[Host])
    BY <1>1 DEF Sound, Behind, AcceptedAtOnce
  <2> HIDE DEF body, to
  <2>3. up' = up \/ up' = Upload(Host, "HostToSingleClient", to, body)
    BY <2>1 DEF SendToOne
  <2>4. up' \in [Client -> Seq(UpBehind(seq[Host]))]
    BY <2>2, <2>3, SoundUpload DEF Leading
  <2> QED
    BY <2>1, <2>4 DEF Leading
<1> QED
  BY <1>2, <1>3

\* What a program handles: it never gets ahead of the host, whose own number changes
\* only when he draws a permutation.
LEMMA HandlingLeads ==
  ASSUME TypeOK, TypeOK', HostAside, Apart, Leading(seq[Host]), NEW c \in Client,
         Handle(c), ~renumbered'
  PROVE  Leading(seq[Host])'
<1> USE HostAssumption
<1>1. /\ \A d \in Client : seq[d] \in Nat /\ seq'[d] \in Nat
      /\ seq \in [Client -> Nat]
      /\ status \in [Client -> Connected \cup {"out"}]
  BY DEF TypeOK, NumbersOK
<1>2. ASSUME NEW t, Handling(c, t), up' \in [Client -> Seq(UpBehind(seq[Host]))],
             seq'[Host] = seq[Host],
             \A d \in Client : status'[d] \in {"welcomed", "in"} => seq'[d] <= seq[Host]
      PROVE  Leading(seq[Host])'
  <2>1. down' \in [Client -> Seq(DownBehind(seq[Host]))]
    BY <1>2, SoundHandling
  <2> QED
    BY <1>2, <2>1 DEF Leading
\* The program takes the number of the packet.
<1>3. ASSUME NEW t \in HasNumber, Handling(c, t), up' = up, status' = status,
             seq' = seq \/ (c # Host /\ seq' = [seq EXCEPT ![c] = Body(c).seq])
      PROVE  Leading(seq[Host])'
  <2>1. Body(c).seq <= seq[Host]
    BY <1>3, SoundHandling DEF Sound, Behind
  <2>2. \A d \in Client : status'[d] \in {"welcomed", "in"} => seq'[d] <= seq[Host]
    BY <1>1, <1>3, <2>1 DEF Leading
  <2>3. seq'[Host] = seq[Host]
    BY <1>1, <1>3
  <2>4. up' \in [Client -> Seq(UpBehind(seq[Host]))]
    BY <1>3 DEF Leading
  <2> QED
    BY <1>2, <1>3, <2>2, <2>3, <2>4
<1>4. CASE HandleChangeAccepted(c)
  <2> DEFINE body == [type |-> "ShuffleResult", seq |-> seq[Host] + 1, change |-> Body(c).req.id]
  <2>1. Handling(c, "ChangeAccepted") /\ status' = status
    BY <1>4 DEF HandleChangeAccepted, TakeNumber
  <2>2. CASE /\ seq' = IF c = Host THEN seq ELSE [seq EXCEPT ![c] = Body(c).seq]
             /\ up' = up
    BY <1>3, <2>1, <2>2 DEF HasNumber, StateChanges
  <2>3. CASE /\ c = Host
             /\ seq' = [seq EXCEPT ![Host] = @ + 1]
             /\ up' = Upload(Host, "ClientToAll", Host, body)
    <3>1. Sound(body, seq[Host] + 1)
      BY <1>1 DEF Sound, Behind, AcceptedAtOnce
    <3>2. Leading(seq[Host] + 1)
      BY <1>1, LeadingMonotonic
    <3> HIDE DEF body
    <3>3. up' \in [Client -> Seq(UpBehind(seq[Host] + 1))]
      BY <2>3, <3>1, <3>2, SoundUpload
    <3>4. down' \in [Client -> Seq(DownBehind(seq[Host] + 1))]
      BY <2>1, <3>2, SoundHandling
    <3>5. \A d \in Client : status'[d] \in {"welcomed", "in"} => seq'[d] <= seq[Host] + 1
      BY <1>1, <2>1, <2>3, <3>2 DEF Leading
    <3>6. seq'[Host] = seq[Host] + 1
      BY <1>1, <2>3
    <3> QED
      BY <3>3, <3>4, <3>5, <3>6 DEF Leading
  <2> QED
    BY <1>4, <2>2, <2>3 DEF HandleChangeAccepted, TakeNumber
<1>5. CASE HandleShuffleResult(c)
  <2>1. Handling(c, "ShuffleResult") /\ status' = status /\ up' = up
        /\ seq' = [seq EXCEPT ![c] = Body(c).seq]
        /\ (c = Host => Body(c).seq = seq[c])
    BY <1>5 DEF HandleShuffleResult
  <2>2. seq' = seq \/ (c # Host /\ seq' = [seq EXCEPT ![c] = Body(c).seq])
    BY <1>1, <2>1
  <2> QED
    BY <1>3, <2>1, <2>2 DEF HasNumber, StateChanges
<1>6. CASE HandleGameLoaded(c)
  BY <1>3, <1>6 DEF HandleGameLoaded, HasNumber, StateChanges
<1>7. CASE HandleGameBoxHasChanged(c)
  BY <1>3, <1>7 DEF HandleGameBoxHasChanged, HasNumber, StateChanges
<1>8. CASE HandleChangeRejected(c) \/ HandlePlayerHasLeft(c)
  <2>1. /\ Handling(c, "ChangeRejected") \/ Handling(c, "PlayerHasLeft")
        /\ up' = up /\ status' = status /\ seq' = seq
    BY <1>8 DEF HandleChangeRejected, HandlePlayerHasLeft
  <2> QED
    BY <1>2, <2>1 DEF Leading
<1>9. CASE HandleOwnRejection(c)
  BY <1>9 DEF HandleOwnRejection, Leading
<1>10. CASE HandleGameWithoutBox(c)
  <2>1. /\ Hangup(c)
        /\ status' = [status EXCEPT ![c] = "out"]
        /\ seq' = seq \/ (c # Host /\ seq' = [seq EXCEPT ![c] = Body(c).seq])
    BY <1>10 DEF HandleGameWithoutBox, TakeNumber
  <2>2. up' \in [Client -> Seq(UpBehind(seq[Host]))] /\ down' \in [Client -> Seq(DownBehind(seq[Host]))]
    BY <2>1, SoundHangup
  <2>3. seq'[Host] = seq[Host]
    BY <1>1, <2>1
  <2>4. \A d \in Client : status'[d] \in {"welcomed", "in"} => seq'[d] <= seq[Host]
    BY <1>1, <2>1 DEF Leading
  <2> QED
    BY <2>2, <2>3, <2>4 DEF Leading
<1>11. CASE HandleConnectionAccepted(c)
  <2> DEFINE body == [type |-> "PlayerHasJoined"]
  <2>1. /\ Handling(c, "ConnectionAccepted")
        /\ seq' = [seq EXCEPT ![c] = Body(c).seq]
        /\ status' = [status EXCEPT ![c] = "welcomed"]
        /\ up' = Upload(c, "ClientToAll", c, body)
    BY <1>11 DEF HandleConnectionAccepted
  <2>2. Body(c).seq <= seq[Host]
    BY <2>1, SoundHandling DEF Sound, Behind, HasNumber
  <2>3. c # Host
    <3>1. c = Host => Head(down[Host]) \in ToHosts
      BY <2>1, HeadTailProperties DEF HostAside, Handling
    <3> QED
      BY <2>1, <3>1 DEF Handling, ToHosts, ToHost
  <2>4. Sound(body, seq[Host])
    BY SoundPlain
  <2> HIDE DEF body
  <2>5. up' \in [Client -> Seq(UpBehind(seq[Host]))]
    BY <2>1, <2>4, SoundUpload
  <2>6. \A d \in Client : status'[d] \in {"welcomed", "in"} => seq'[d] <= seq[Host]
    BY <1>1, <2>1, <2>2 DEF Leading
  <2>7. seq'[Host] = seq[Host]
    BY <1>1, <2>1, <2>3
  <2> QED
    BY <1>2, <2>1, <2>5, <2>6, <2>7
<1>12. CASE HandlePlayerHasJoined(c)
  <2>1. /\ Handling(c, "PlayerHasJoined") /\ up' = up /\ seq' = seq
        /\ status' = [status EXCEPT ![c] = IF Head(down[c]).from = c THEN "in" ELSE @]
    BY <1>12 DEF HandlePlayerHasJoined
  <2>2. Head(down[c]).from = c => status[c] \in {"welcomed", "in"}
    <3>1. down[c] # <<>> /\ down[c] \in Seq(DownPackets) /\ Head(down[c]).body.type = "PlayerHasJoined"
      BY <2>1 DEF Handling, TypeOK, ChannelsOK
    <3>2. 1 \in DOMAIN down[c] /\ Head(down[c]) = down[c][1]
      BY <3>1, TailIndex
    <3> QED
      BY <1>1, <3>1, <3>2 DEF Apart, Gone, Unannounced, Connected
  <2>3. \A d \in Client : status'[d] \in {"welcomed", "in"} => status[d] \in {"welcomed", "in"}
    BY <1>1, <2>1, <2>2
  <2> QED
    BY <1>2, <2>1, <2>3 DEF Leading
<1>13. CASE HandleHostDisconnected(c)
  <2>1. /\ Handling(c, "HostDisconnected") /\ seq' = seq
        /\ status' = [status EXCEPT ![c] = "out"]
        /\ up' = [up EXCEPT ![c] = <<>>]
    BY <1>13 DEF HandleHostDisconnected
  <2>2. <<>> \in Seq(UpBehind(seq[Host]))
    OBVIOUS
  <2>3. up' \in [Client -> Seq(UpBehind(seq[Host]))]
    BY <2>1, <2>2 DEF Leading
  <2>4. \A d \in Client : status'[d] \in {"welcomed", "in"} => seq'[d] <= seq[Host]
    BY <1>1, <2>1 DEF Leading
  <2> QED
    BY <1>2, <2>1, <2>3, <2>4
<1>14. CASE HandleRest(c)
  <2>1. /\ up' = up /\ down' = down /\ status' = status
        /\ seq[Host] <= seq'[Host] /\ status[c] = "out"
        /\ \A d \in Client \ {c} : seq'[d] = seq[d]
    BY <1>14, RestApart DEF relayVars
  <2>2. Leading(seq'[Host])
    BY <1>1, <2>1, LeadingMonotonic
  <2> QED
    BY <2>1, <2>2 DEF Leading
<1> QED
  BY <1>4, <1>5, <1>6, <1>7, <1>8, <1>9, <1>10, <1>11, <1>12, <1>13, <1>14 DEF Handle

LEMMA NumbersStep ==
  TypeOK /\ TypeOK' /\ HostAside /\ Apart /\ NumbersInv /\ [Next]_vars => NumbersInv'
<1> SUFFICES ASSUME TypeOK, TypeOK', HostAside, Apart, NumbersInv, [Next]_vars, ~renumbered'
             PROVE  Leading(seq[Host])'
  BY DEF NumbersInv
<1>1. CASE UNCHANGED vars
  BY <1>1 DEF vars, relayVars, observers, NumbersInv, Leading
<1>2. CASE Next
  <2>1. ~renumbered
    BY <1>2 DEF Next, ProgramStep, Ask, LoadGame, OpenBox, Animate, Connect, Leave, Relaying,
       HandleAtHost, HandleRequest, HandlePlayerWantsToJoin, Handle, HandleChangeAccepted,
       HandleShuffleResult, HandleChangeRejected, HandleOwnRejection, HandleGameLoaded,
       HandleGameBoxHasChanged, HandleGameWithoutBox, HandleConnectionAccepted,
       HandlePlayerHasJoined, HandlePlayerHasLeft, HandleHostDisconnected, HandleRest, observers
  <2>2. Leading(seq[Host])
    BY <2>1 DEF NumbersInv
  <2>3. ASSUME NEW c \in Client, Relaying(c)
        PROVE  Leading(seq[Host])'
    <3>1. up' \in [Client -> Seq(UpBehind(seq[Host]))]
          /\ down' \in [Client -> Seq(DownBehind(seq[Host]))]
      BY <2>2, <2>3, SoundRelaying
    <3>2. seq' = seq /\ status' = status
      BY <2>3 DEF Relaying
    <3> QED
      BY <2>2, <3>1, <3>2 DEF Leading
  <2> QED
    BY <1>2, <2>2, <2>3, PlayingLeads, AnsweringLeads, HandlingLeads
       DEF Next, ProgramStep, HandleAtHost
<1> QED
  BY <1>1, <1>2

LEMMA NumbersInit == Init => NumbersInv
BY HostAssumption DEF Init, RelayInit, NumbersInv, Leading, Connected

\* Both consequences, for any number of players, of requests and of games loaded.
LEMMA NumbersAlways == Spec => [](HostLeads /\ AcceptedIsCurrent)
<1>1. Spec => []NumbersInv
  BY NumbersInit, NumbersStep, HostAsideAlways, ApartAlways, PTL DEF Spec
<1> QED
  BY <1>1, NumbersMeaning, TypeCorrect, PTL

\* Neither a packet nor a player who has the host's game is ever ahead of the host,
\* until a ShuffleResult sets the host's own number back.
THEOREM HostAlwaysLeads == Spec => []HostLeads
BY NumbersAlways, PTL

\* The host accepts the request of another player only if that player's program had seen
\* every change accepted before it: the concurrency control of the game.
THEOREM AcceptedAlwaysCurrent == Spec => []AcceptedIsCurrent
BY NumbersAlways, PTL

-----------------------------------------------------------------------------
(***************************************************************************)
(* The undo stacks: what can be undone is what was done last, and redoing  *)
(* takes an undo back.                                                     *)
(***************************************************************************)

-----------------------------------------------------------------------------
(* Tables that end with the changes of some entries.                       *)

\* A part of a table, change by change.
LEMMA PartIs ==
  ASSUME NEW t \in Changes, NEW a \in 0 .. Len(t), NEW b \in a .. Len(t)
  PROVE  /\ SubSeq(t, a + 1, b) \in Changes /\ Len(SubSeq(t, a + 1, b)) = b - a
         /\ \A j \in 1 .. b - a : SubSeq(t, a + 1, b)[j] = t[a + j]
<1>1. t \in Seq(1 .. MaxRequests) /\ Len(t) \in Nat /\ a \in Nat /\ b \in Nat /\ a <= b /\ b <= Len(t)
  BY LenProperties DEF Changes
<1>2. a + 1 \in Int /\ b \in Int /\ \A i \in a + 1 .. b : t[i] \in 1 .. MaxRequests
  <2> SUFFICES ASSUME NEW i \in a + 1 .. b
               PROVE  t[i] \in 1 .. MaxRequests
    BY <1>1
  <2>1. i \in 1 .. Len(t)
    BY <1>1
  <2> QED
    BY <1>1, <2>1, ElementOfSeq
<1> DEFINE m == a + 1
           s == SubSeq(t, m, b)
<1>3. m \in Int /\ b \in Int /\ \A i \in m .. b : t[i] \in 1 .. MaxRequests
  BY <1>2
<1>4. b - m + 1 = b - a /\ (m <= b \/ b - a = 0) /\ \A j \in 1 .. b - a : m + j - 1 = a + j
  BY <1>1
<1> HIDE DEF m
<1>5. /\ s \in Seq(1 .. MaxRequests)
      /\ Len(s) = IF m <= b THEN b - m + 1 ELSE 0
      /\ \A i \in 1 .. b - m + 1 : s[i] = t[m + i - 1]
  BY <1>3, SubSeqProperties
<1> HIDE DEF s
<1>6. s \in Changes /\ Len(s) = b - a
  BY <1>4, <1>5 DEF Changes
<1>7. \A j \in 1 .. b - a : s[j] = t[a + j]
  BY <1>4, <1>5
<1> QED
  BY <1>6, <1>7 DEF s, m

\* Parts of two tables that hold the same changes are the same.
LEMMA SamePart ==
  ASSUME NEW t \in Changes, NEW s \in Changes,
         NEW a \in 0 .. Len(t), NEW b \in a .. Len(t), b <= Len(s),
         \A i \in 1 .. b : s[i] = t[i]
  PROVE  SubSeq(s, a + 1, b) = SubSeq(t, a + 1, b)
<1>1. Len(t) \in Nat /\ Len(s) \in Nat /\ a \in Nat /\ b \in Nat /\ a <= b
  BY LenProperties DEF Changes
<1>2. a \in 0 .. Len(s) /\ b \in a .. Len(s) /\ \A j \in 1 .. b - a : a + j \in 1 .. b
  BY <1>1
<1> DEFINE x == SubSeq(s, a + 1, b)
           y == SubSeq(t, a + 1, b)
<1>3. x \in Changes /\ Len(x) = b - a /\ \A j \in 1 .. b - a : x[j] = s[a + j]
  BY <1>2, PartIs
<1>4. y \in Changes /\ Len(y) = b - a /\ \A j \in 1 .. b - a : y[j] = t[a + j]
  BY PartIs
<1> HIDE DEF x, y
<1>5. \A j \in 1 .. Len(x) : x[j] = y[j]
  BY <1>2, <1>3, <1>4
<1>6. x = y
  BY <1>3, <1>4, <1>5, SeqEqual DEF Changes
<1> QED
  BY <1>6 DEF x, y

\* The cuts of a table, without the quantifier over functions.
LEMMA CutMade ==
  ASSUME NEW t \in Changes, NEW u \in Seq(Entries),
         NEW ends \in [0 .. Len(u) -> 0 .. Len(t)], CutAt(t, u, ends)
  PROVE  EndsWith(t, u)
BY DEF EndsWith

LEMMA CutFields ==
  ASSUME NEW t \in Changes, NEW u \in Seq(Entries),
         NEW ends \in [0 .. Len(u) -> 0 .. Len(t)], CutAt(t, u, ends)
  PROVE  /\ Len(t) \in Nat /\ Len(u) \in Nat /\ DOMAIN u = 1 .. Len(u) /\ DOMAIN ends = 0 .. Len(u)
         /\ ends[Len(u)] = Len(t)
         /\ \A i \in 0 .. Len(u) : ends[i] \in Nat /\ ends[i] <= Len(t)
         /\ \A i, j \in 0 .. Len(u) : i <= j => ends[i] <= ends[j]
         /\ \A i \in 1 .. Len(u) : SubSeq(t, ends[i - 1] + 1, ends[i]) = u[i].changes
<1>1. Len(t) \in Nat /\ Len(u) \in Nat /\ DOMAIN u = 1 .. Len(u) /\ DOMAIN ends = 0 .. Len(u)
  BY LenProperties DEF Changes
<1>2. \A i \in 0 .. Len(u) : ends[i] \in 0 .. Len(t)
  OBVIOUS
<1>3. \A i \in 0 .. Len(u) : ends[i] \in Nat /\ ends[i] <= Len(t)
  BY <1>1, <1>2
<1>4. \A i \in 1 .. Len(u) : SubSeq(t, ends[i - 1] + 1, ends[i]) = u[i].changes
  BY <1>1, Zenon DEF CutAt
<1>5. \A i, j \in 0 .. Len(u) : i <= j => ends[i] <= ends[j]
  BY <1>1, Zenon DEF CutAt
<1>6. ends[Len(u)] = Len(t)
  BY Zenon DEF CutAt
<1> QED
  BY <1>1, <1>3, <1>4, <1>5, <1>6

\* Every table ends with nothing.
LEMMA EndsWithNothing ==
  ASSUME NEW t \in Changes
  PROVE  EndsWith(t, <<>>)
<1>1. <<>> \in Seq(Entries) /\ Len(<<>>) = 0 /\ Len(t) \in Nat
  BY LenProperties DEF Changes
<1> DEFINE ends == [i \in 0 .. 0 |-> Len(t)]
<1>2. ends \in [0 .. Len(<<>>) -> 0 .. Len(t)] /\ ends[0] = Len(t) /\ DOMAIN ends = 0 .. 0
  BY <1>1
<1>3. \A i, j \in DOMAIN ends : ends[i] <= ends[j]
  BY <1>1
<1> HIDE DEF ends
<1>4. CutAt(t, <<>>, ends)
  BY <1>1, <1>2, <1>3 DEF CutAt
<1> QED
  BY <1>1, <1>2, <1>4, CutMade

\* A new entry comes with its changes.
LEMMA EndsWithMore ==
  ASSUME NEW t \in Changes, NEW u \in Seq(Entries), EndsWith(t, u), NEW e \in Entries
  PROVE  EndsWith(t \o e.changes, Append(u, e))
<1>1. PICK ends \in [0 .. Len(u) -> 0 .. Len(t)] : CutAt(t, u, ends)
  BY DEF EndsWith
<1> DEFINE T == t \o e.changes
           U == Append(u, e)
           n == Len(u)
           k == Len(e.changes)
           f == [i \in 0 .. n + 1 |-> IF i = n + 1 THEN Len(t) + k ELSE ends[i]]
<1>2. /\ Len(t) \in Nat /\ n \in Nat
      /\ ends[n] = Len(t)
      /\ \A i \in 0 .. n : ends[i] \in Nat /\ ends[i] <= Len(t)
      /\ \A i, j \in 0 .. n : i <= j => ends[i] <= ends[j]
      /\ \A i \in 1 .. n : SubSeq(t, ends[i - 1] + 1, ends[i]) = u[i].changes
  BY <1>1, CutFields
<1>3. /\ U \in Seq(Entries) /\ Len(U) = n + 1 /\ U[n + 1] = e /\ \A i \in 1 .. n : U[i] = u[i]
      /\ DOMAIN U = 1 .. n + 1
  BY AppendProperties, LenProperties
<1>4. e.changes \in Changes /\ k \in Nat
  BY LenProperties DEF Entries, Changes
<1>5. /\ T \in Changes /\ Len(T) = Len(t) + k
      /\ \A i \in 1 .. Len(t) + k : T[i] = IF i <= Len(t) THEN t[i] ELSE e.changes[i - Len(t)]
  BY <1>4, ConcatProperties DEF Changes
<1>6. /\ f \in [0 .. n + 1 -> 0 .. Len(t) + k] /\ DOMAIN f = 0 .. n + 1 /\ f[n + 1] = Len(t) + k
      /\ \A i \in 0 .. n : f[i] = ends[i]
  <2>1. \A i \in 0 .. n + 1 : i = n + 1 \/ i \in 0 .. n
    BY <1>2
  <2>2. \A i \in 0 .. n + 1 : (IF i = n + 1 THEN Len(t) + k ELSE ends[i]) \in 0 .. Len(t) + k
    BY <1>2, <1>4, <2>1
  <2>3. \A i \in 0 .. n : i \in 0 .. n + 1 /\ i # n + 1
    BY <1>2
  <2>4. n + 1 \in 0 .. n + 1
    BY <1>2
  <2> QED
    BY <2>2, <2>3, <2>4
<1> HIDE DEF f, n, k, T, U
<1>7. \A i \in 0 .. n + 1 : i = n + 1 \/ i \in 0 .. n
  BY <1>2
<1>8. \A i, j \in DOMAIN f : i <= j => f[i] <= f[j]
  <2> SUFFICES ASSUME NEW i \in 0 .. n + 1, NEW j \in 0 .. n + 1, i <= j
               PROVE  f[i] <= f[j]
    BY <1>6
  <2>1. CASE j \in 0 .. n
    <3>1. i \in 0 .. n
      BY <1>2, <2>1
    <3> QED
      BY <1>2, <1>6, <2>1, <3>1
  <2>2. CASE j = n + 1 /\ i \in 0 .. n
    <3>1. f[i] = ends[i] /\ f[j] = Len(t) + k
      BY <1>6, <2>2
    <3> QED
      BY <1>2, <1>4, <2>2, <3>1
  <2>3. CASE j = n + 1 /\ i = n + 1
    BY <1>2, <1>4, <1>6, <2>3
  <2> QED
    BY <1>7, <2>1, <2>2, <2>3
<1>9. ASSUME NEW i \in 1 .. n + 1
      PROVE  SubSeq(T, f[i - 1] + 1, f[i]) = U[i].changes
  <2>1. CASE i \in 1 .. n
    <3>1. i \in 0 .. n /\ i - 1 \in 0 .. n /\ i - 1 <= i
      BY <1>2, <2>1
    <3>2. f[i] = ends[i] /\ f[i - 1] = ends[i - 1] /\ U[i] = u[i]
      BY <1>3, <1>6, <2>1, <3>1
    <3>3. ends[i - 1] \in 0 .. Len(t) /\ ends[i] \in ends[i - 1] .. Len(t)
      BY <1>2, <3>1
    <3>4. ends[i] <= Len(T) /\ \A j \in 1 .. ends[i] : T[j] = t[j]
      BY <1>2, <1>4, <1>5, <3>3
    <3>5. SubSeq(T, ends[i - 1] + 1, ends[i]) = SubSeq(t, ends[i - 1] + 1, ends[i])
      BY <1>5, <3>3, <3>4, SamePart
    <3> QED
      BY <1>2, <2>1, <3>2, <3>5
  <2>2. CASE i = n + 1
    <3>1. i - 1 = n /\ n \in 0 .. n
      BY <1>2, <2>2
    <3>2. f[i] = Len(t) + k /\ f[i - 1] = Len(t) /\ U[i] = e
      BY <1>2, <1>3, <1>6, <2>2, <3>1
    <3> DEFINE l == Len(t)
               m == Len(t) + k
               s == SubSeq(T, l + 1, m)
    <3>3. l \in 0 .. Len(T) /\ m \in l .. Len(T) /\ m - l = k
      BY <1>2, <1>4, <1>5
    <3>4. \A j \in 1 .. k : T[l + j] = e.changes[j]
      <4>1. \A j \in 1 .. k : l + j \in 1 .. Len(t) + k /\ ~(l + j <= Len(t)) /\ l + j - Len(t) = j
        BY <1>2, <1>4
      <4> QED
        BY <1>5, <4>1
    <3> HIDE DEF l, m
    <3>5. s \in Changes /\ Len(s) = m - l /\ \A j \in 1 .. m - l : s[j] = T[l + j]
      BY <1>5, <3>3, PartIs
    <3> HIDE DEF s
    <3>6. Len(s) = Len(e.changes) /\ \A j \in 1 .. Len(s) : s[j] = e.changes[j]
      BY <3>3, <3>4, <3>5 DEF k
    <3>7. s = e.changes
      BY <1>4, <3>5, <3>6, SeqEqual DEF Changes
    <3> QED
      BY <3>2, <3>7 DEF s, l, m
  <2> QED
    BY <1>2, <2>1, <2>2
<1>10. CutAt(T, U, f)
  BY <1>3, <1>5, <1>6, <1>8, <1>9 DEF CutAt
<1>11. EndsWith(T, U)
  BY <1>3, <1>5, <1>6, <1>10, CutMade
<1> QED
  BY <1>11 DEF T, U

\* The last entry's changes are the last of the table, and what is before them ends
\* with the other entries.
LEMMA EndsWithLess ==
  ASSUME NEW t \in Changes, NEW u \in Seq(Entries), EndsWith(t, u), u # <<>>
  PROVE  /\ Len(t) - Len(Last(u).changes) \in 0 .. Len(t)
         /\ SubSeq(t, 1, Len(t) - Len(Last(u).changes)) \in Changes
         /\ EndsWith(SubSeq(t, 1, Len(t) - Len(Last(u).changes)), Front(u))
         /\ t = SubSeq(t, 1, Len(t) - Len(Last(u).changes)) \o Last(u).changes
<1>1. PICK ends \in [0 .. Len(u) -> 0 .. Len(t)] : CutAt(t, u, ends)
  BY DEF EndsWith
<1> DEFINE n == Len(u) - 1
           m == Len(t) - Len(Last(u).changes)
           T == SubSeq(t, 1, m)
           U == Front(u)
           f == [i \in 0 .. n |-> ends[i]]
<1>2. /\ Len(t) \in Nat /\ n \in Nat /\ Len(u) = n + 1
      /\ ends[n + 1] = Len(t)
      /\ \A i \in 0 .. n + 1 : ends[i] \in Nat /\ ends[i] <= Len(t)
      /\ \A i, j \in 0 .. n + 1 : i <= j => ends[i] <= ends[j]
      /\ \A i \in 1 .. n + 1 : SubSeq(t, ends[i - 1] + 1, ends[i]) = u[i].changes
  <2>1. Len(u) \in Nat /\ n \in Nat /\ Len(u) = n + 1
    BY EmptySeq
  <2> HIDE DEF n
  <2> QED
    BY <1>1, <2>1, CutFields
<1>3. /\ U \in Seq(Entries) /\ Len(U) = n /\ \A i \in 1 .. n : U[i] = u[i]
      /\ DOMAIN U = 1 .. n
      /\ Last(u) = u[n + 1] /\ Last(u) \in Entries
  <2>1. n + 1 = Len(u) /\ Len(u) \in Nat /\ Len(u) > 0
    BY <1>2
  <2>2. U \in Seq(Entries) /\ Last(u) \in Entries
    BY FrontType
  <2>3. Last(u) = u[n + 1]
    BY <2>1 DEF Last
  <2>4. 1 \in Int /\ n \in Int /\ \A i \in 1 .. n : u[i] \in Entries
    <3> SUFFICES ASSUME NEW i \in 1 .. n
                 PROVE  u[i] \in Entries
      BY <2>1
    <3>1. i \in 1 .. Len(u)
      BY <2>1
    <3> QED
      BY <3>1, ElementOfSeq
  <2>5. U = SubSeq(u, 1, n)
    BY DEF Front
  <2> HIDE DEF U, n
  <2>6. Len(U) = (IF 1 <= n THEN n - 1 + 1 ELSE 0) /\ \A i \in 1 .. n - 1 + 1 : U[i] = u[1 + i - 1]
    BY <2>4, <2>5, SubSeqProperties
  <2>7. n - 1 + 1 = n /\ (1 <= n \/ n = 0) /\ \A i \in 1 .. n : 1 + i - 1 = i
    BY <1>2
  <2>8. Len(U) = n /\ \A i \in 1 .. n : U[i] = u[i]
    BY <2>6, <2>7
  <2> QED
    BY <2>2, <2>3, <2>8, LenProperties
<1> HIDE DEF f, n, U
<1>4. \A i \in 0 .. n : i \in 0 .. n + 1
  BY <1>2
<1>5. n \in 0 .. n + 1 /\ n + 1 \in 0 .. n + 1 /\ n + 1 \in 1 .. n + 1 /\ n + 1 - 1 = n
  BY <1>2
<1>6. ends[n] \in 0 .. Len(t) /\ Len(t) \in ends[n] .. Len(t)
  BY <1>2, <1>5
<1>7. SubSeq(t, ends[n] + 1, Len(t)) = Last(u).changes
  BY <1>2, <1>3, <1>5
<1>8. Last(u).changes \in Changes /\ Len(Last(u).changes) = Len(t) - ends[n]
  <2> DEFINE a == ends[n]
             b == Len(t)
  <2>1. a \in 0 .. Len(t) /\ b \in a .. Len(t)
    BY <1>6
  <2> HIDE DEF a, b
  <2>2. SubSeq(t, a + 1, b) \in Changes /\ Len(SubSeq(t, a + 1, b)) = b - a
    BY <2>1, PartIs
  <2> QED
    BY <1>7, <2>2 DEF a, b
<1>9. m = ends[n]
  BY <1>2, <1>5, <1>8
<1> HIDE DEF m
<1>10. T \in Changes /\ Len(T) = m /\ \A j \in 1 .. m : T[j] = t[j]
  <2>1. 0 \in 0 .. Len(t) /\ m \in 0 .. Len(t) /\ m - 0 = m /\ 0 + 1 = 1 /\ \A j \in 1 .. m : 0 + j = j
    BY <1>2, <1>6, <1>9
  <2>2. /\ SubSeq(t, 0 + 1, m) \in Changes /\ Len(SubSeq(t, 0 + 1, m)) = m - 0
        /\ \A j \in 1 .. m - 0 : SubSeq(t, 0 + 1, m)[j] = t[0 + j]
    BY <2>1, PartIs
  <2> QED
    BY <2>1, <2>2
<1>11. t = T \o Last(u).changes
  <2>1. 1 \in 1 .. Len(t) + 1 /\ m \in 1 - 1 .. Len(t) /\ Len(t) \in m .. Len(t)
    BY <1>2, <1>6, <1>9
  <2>2. t \in Seq(1 .. MaxRequests)
    BY DEF Changes
  <2>3. SubSeq(t, 1, m) \o SubSeq(t, m + 1, Len(t)) = SubSeq(t, 1, Len(t))
    BY <2>1, <2>2, ConcatAdjacentSubSeq
  <2>4. SubSeq(t, 1, Len(t)) = t
    BY <2>2, SubSeqFull
  <2> QED
    BY <1>7, <1>9, <2>3, <2>4
<1> HIDE DEF T
<1>12. \A i \in 0 .. n : ends[i] \in 0 .. m
  BY <1>2, <1>4, <1>5, <1>9
<1>13. f \in [0 .. n -> 0 .. m] /\ DOMAIN f = 0 .. n /\ \A i \in 0 .. n : f[i] = ends[i]
  BY <1>12 DEF f
<1>14. \A i, j \in DOMAIN f : i <= j => f[i] <= f[j]
  BY <1>2, <1>4, <1>13
<1>15. f[n] = m
  BY <1>2, <1>9, <1>13
<1>16. ASSUME NEW i \in 1 .. n
       PROVE  SubSeq(T, f[i - 1] + 1, f[i]) = U[i].changes
  <2>1. i \in 0 .. n /\ i - 1 \in 0 .. n /\ i - 1 \in 0 .. n + 1 /\ i \in 0 .. n + 1 /\ i \in 1 .. n + 1 /\ i - 1 <= i
    BY <1>2
  <2>2. f[i] = ends[i] /\ f[i - 1] = ends[i - 1] /\ U[i] = u[i]
    BY <1>3, <1>13, <2>1
  <2>3. ends[i - 1] \in 0 .. Len(t) /\ ends[i] \in ends[i - 1] .. Len(t)
    <3>1. /\ ends[i - 1] \in Nat /\ ends[i - 1] <= Len(t)
          /\ ends[i] \in Nat /\ ends[i] <= Len(t) /\ ends[i - 1] <= ends[i]
      BY <1>2, <2>1
    <3> QED
      BY <1>2, <3>1
  <2>4. ends[i] <= Len(T) /\ \A j \in 1 .. ends[i] : T[j] = t[j]
    <3>1. ends[i] \in 0 .. m /\ m \in Nat
      BY <1>6, <1>9, <1>12, <2>1
    <3> QED
      BY <1>10, <3>1
  <2>5. SubSeq(T, ends[i - 1] + 1, ends[i]) = SubSeq(t, ends[i - 1] + 1, ends[i])
    BY <1>10, <2>3, <2>4, SamePart
  <2> QED
    BY <1>2, <2>1, <2>2, <2>5
<1>17. CutAt(T, U, f)
  BY <1>3, <1>10, <1>14, <1>15, <1>16 DEF CutAt
<1>18. EndsWith(T, U)
  BY <1>3, <1>10, <1>13, <1>17, CutMade
<1>19. m \in 0 .. Len(t)
  BY <1>6, <1>9
<1> QED
  BY <1>10, <1>11, <1>18, <1>19 DEF T, U, m

\* The oldest entry may be forgotten.
LEMMA EndsWithYounger ==
  ASSUME NEW t \in Changes, NEW u \in Seq(Entries), EndsWith(t, u), u # <<>>
  PROVE  EndsWith(t, Tail(u))
<1>1. PICK ends \in [0 .. Len(u) -> 0 .. Len(t)] : CutAt(t, u, ends)
  BY DEF EndsWith
<1> DEFINE n == Len(u) - 1
           U == Tail(u)
           f == [i \in 0 .. n |-> ends[i + 1]]
<1>2. /\ Len(t) \in Nat /\ n \in Nat /\ Len(u) = n + 1
      /\ ends[n + 1] = Len(t)
      /\ \A i \in 0 .. n + 1 : ends[i] \in 0 .. Len(t)
      /\ \A i, j \in 0 .. n + 1 : i <= j => ends[i] <= ends[j]
      /\ \A i \in 1 .. n + 1 : SubSeq(t, ends[i - 1] + 1, ends[i]) = u[i].changes
  <2>1. Len(u) \in Nat /\ n \in Nat /\ Len(u) = n + 1
    BY EmptySeq
  <2>2. \A i \in 0 .. Len(u) : ends[i] \in 0 .. Len(t)
    OBVIOUS
  <2> HIDE DEF n
  <2>3. /\ Len(t) \in Nat
        /\ ends[Len(u)] = Len(t)
        /\ \A i, j \in 0 .. Len(u) : i <= j => ends[i] <= ends[j]
        /\ \A i \in 1 .. Len(u) : SubSeq(t, ends[i - 1] + 1, ends[i]) = u[i].changes
    BY <1>1, CutFields
  <2> QED
    BY <2>1, <2>2, <2>3
<1>3. /\ U \in Seq(Entries) /\ Len(U) = n /\ DOMAIN U = 1 .. n
      /\ \A i \in 1 .. n : U[i] = u[i + 1]
  BY TailIndex
<1>4. \A i \in 0 .. n : i + 1 \in 0 .. n + 1 /\ i + 1 \in 1 .. n + 1
  BY <1>2
<1>5. f \in [0 .. n -> 0 .. Len(t)] /\ DOMAIN f = 0 .. n /\ \A i \in 0 .. n : f[i] = ends[i + 1]
  BY <1>2, <1>4
<1> HIDE DEF f, n, U
<1>6. \A i, j \in DOMAIN f : i <= j => f[i] <= f[j]
  <2> SUFFICES ASSUME NEW i \in 0 .. n, NEW j \in 0 .. n, i <= j
               PROVE  f[i] <= f[j]
    BY <1>5
  <2>1. i + 1 <= j + 1
    BY <1>2
  <2> QED
    BY <1>2, <1>4, <1>5, <2>1
<1>7. f[n] = Len(t)
  BY <1>2, <1>5
<1>8. ASSUME NEW i \in 1 .. n
      PROVE  SubSeq(t, f[i - 1] + 1, f[i]) = U[i].changes
  <2>1. i \in 0 .. n /\ i - 1 \in 0 .. n /\ (i - 1) + 1 = i /\ i + 1 \in 1 .. n + 1 /\ (i + 1) - 1 = i
    BY <1>2
  <2>2. f[i] = ends[i + 1] /\ f[i - 1] = ends[i] /\ U[i] = u[i + 1]
    BY <1>3, <1>5, <2>1
  <2>3. SubSeq(t, ends[(i + 1) - 1] + 1, ends[i + 1]) = u[i + 1].changes
    BY <1>2, <2>1
  <2> QED
    BY <2>1, <2>2, <2>3
<1>9. CutAt(t, U, f)
  BY <1>3, <1>6, <1>7, <1>5, <1>8 DEF CutAt
<1>10. EndsWith(t, U)
  BY <1>3, <1>5, <1>9, CutMade
<1> QED
  BY <1>10 DEF U

-----------------------------------------------------------------------------
(* What programs do with their stacks.                                     *)

LEMMA ClearedLatest ==
  ASSUME NEW t \in Changes
  PROVE  UndoesTheLatest(Cleared(t))
BY EndsWithNothing DEF UndoesTheLatest, Cleared

\* A change becomes an entry of its own, or joins the last.
LEMMA DoneLatest ==
  ASSUME NEW h \in Histories, UndoesTheLatest(h), NEW k \in 1 .. MaxRequests, NEW r \in BOOLEAN
  PROVE  UndoesTheLatest(Done(h, k, r))
<1>1. h.table \in Changes /\ h.undo \in Seq(Entries) /\ \A e \in Entries : e.changes \in Changes /\ e.rotation \in BOOLEAN
  BY HistoryFields
<1>2. EndsWith(h.table, h.undo)
  BY DEF UndoesTheLatest
<1>3. /\ \A s \in Changes : Append(s, k) = s \o <<k>> /\ Append(s, k) \in Changes
      /\ <<k>> \in Changes
  <2>1. \A s \in Seq(1 .. MaxRequests) : Append(s, k) = s \o <<k>> /\ Append(s, k) \in Seq(1 .. MaxRequests)
    BY AppendIsConcat, AppendProperties
  <2> QED
    BY <2>1 DEF Changes
<1> DEFINE grown == [Last(h.undo) EXCEPT !.changes = Append(@, k)]
           fresh == [changes |-> <<k>>, rotation |-> r]
           kept == IF Len(h.undo) >= UndoLimit THEN Tail(h.undo) ELSE h.undo
           T == Append(h.table, k)
<1>4. ASSUME Aggregates(h, r)
      PROVE  EndsWith(T, Append(Front(h.undo), grown))
  <2>1. h.undo # <<>>
    BY <1>4 DEF Aggregates
  <2> DEFINE last == Last(h.undo).changes
             front == SubSeq(h.table, 1, Len(h.table) - Len(last))
  <2>2. front \in Changes /\ EndsWith(front, Front(h.undo)) /\ h.table = front \o last
    BY <1>1, <1>2, <2>1, EndsWithLess
  <2>3. Front(h.undo) \in Seq(Entries) /\ Last(h.undo) \in Entries
    BY <1>1, <2>1, FrontType
  <2>4. last \in Changes
    BY <1>1, <2>3
  <2>5. grown \in Entries /\ grown.changes = Append(last, k)
    BY <1>3, <2>3, <2>4 DEF Entries
  <2> HIDE DEF front, last, grown
  <2>6. EndsWith(front \o grown.changes, Append(Front(h.undo), grown))
    BY <2>2, <2>3, <2>5, EndsWithMore
  <2>7. front \o grown.changes = T
    <3>1. front \o (last \o <<k>>) = (front \o last) \o <<k>>
      BY <1>3, <2>2, <2>4, ConcatAssociative DEF Changes
    <3> QED
      BY <1>1, <1>3, <2>2, <2>4, <2>5, <3>1
  <2> QED
    BY <2>6, <2>7
<1>5. EndsWith(T, Append(kept, fresh))
  <2>1. kept \in Seq(Entries) /\ EndsWith(h.table, kept)
    <3>1. CASE Len(h.undo) >= UndoLimit
      <4>1. h.undo # <<>>
        BY <1>1, <3>1, UndoLimitAssumption, EmptySeq
      <4>2. Tail(h.undo) \in Seq(Entries) /\ EndsWith(h.table, Tail(h.undo))
        BY <1>1, <1>2, <4>1, EndsWithYounger, HeadTailProperties
      <4> QED
        BY <3>1, <4>2
    <3>2. CASE ~(Len(h.undo) >= UndoLimit)
      BY <1>1, <1>2, <3>2
    <3> QED
      BY <3>1, <3>2
  <2>2. fresh \in Entries /\ fresh.changes = <<k>>
    BY <1>3, HistoryMade
  <2> HIDE DEF kept, fresh
  <2>3. EndsWith(h.table \o fresh.changes, Append(kept, fresh))
    BY <1>1, <2>1, <2>2, EndsWithMore
  <2> QED
    BY <1>1, <1>3, <2>2, <2>3
<1>6. Done(h, k, r) = [table |-> T,
                       undo |-> IF Aggregates(h, r) THEN Append(Front(h.undo), grown) ELSE Append(kept, fresh),
                       redo |-> <<>>]
  BY DEF Done
<1> HIDE DEF grown, fresh, kept, T
<1> QED
  BY <1>4, <1>5, <1>6 DEF UndoesTheLatest

LEMMA UndoneLatest ==
  ASSUME NEW h \in Histories, UndoesTheLatest(h)
  PROVE  UndoesTheLatest(Undone(h))
<1>1. CASE h.undo = <<>>
  BY <1>1 DEF Undone
<1>2. CASE h.undo # <<>>
  <2>1. h.table \in Changes /\ h.undo \in Seq(Entries) /\ EndsWith(h.table, h.undo)
    BY HistoryFields DEF UndoesTheLatest
  <2>2. EndsWith(SubSeq(h.table, 1, Len(h.table) - Len(Last(h.undo).changes)), Front(h.undo))
    BY <1>2, <2>1, EndsWithLess
  <2> QED
    BY <1>2, <2>2 DEF UndoesTheLatest, Undone
<1> QED
  BY <1>1, <1>2

LEMMA RedoneLatest ==
  ASSUME NEW h \in Histories, UndoesTheLatest(h)
  PROVE  UndoesTheLatest(Redone(h))
<1>1. CASE h.redo = <<>>
  BY <1>1 DEF Redone
<1>2. CASE h.redo # <<>>
  <2>1. h.table \in Changes /\ h.undo \in Seq(Entries) /\ h.redo \in Seq(Entries) /\ EndsWith(h.table, h.undo)
    BY HistoryFields DEF UndoesTheLatest
  <2>2. Last(h.redo) \in Entries
    BY <1>2, <2>1, FrontType
  <2>3. EndsWith(h.table \o Last(h.redo).changes, Append(h.undo, Last(h.redo)))
    BY <2>1, <2>2, EndsWithMore
  <2> QED
    BY <1>2, <2>3 DEF UndoesTheLatest, Redone
<1> QED
  BY <1>1, <1>2

LEMMA AppliedLatest ==
  ASSUME NEW h \in Histories, UndoesTheLatest(h), NEW req \in Requests
  PROVE  UndoesTheLatest(Applied(h, req))
<1>1. req.kind \in AllKinds /\ req.id \in 1 .. MaxRequests /\ (req.kind = "rotate") \in BOOLEAN
  BY DEF Requests
<1>2. UndoesTheLatest(Done(h, req.id, req.kind = "rotate"))
  BY <1>1, DoneLatest
<1> QED
  BY <1>1, <1>2, UndoneLatest, RedoneLatest DEF Applied, AllKinds

\* Redo takes an undo back.
LEMMA RedoTakesBack ==
  ASSUME NEW h \in Histories, UndoesTheLatest(h), h.undo # <<>>
  PROVE  Redone(Undone(h)) = h
<1>1. h.table \in Changes /\ h.undo \in Seq(Entries) /\ h.redo \in Seq(Entries) /\ EndsWith(h.table, h.undo)
  BY HistoryFields DEF UndoesTheLatest
<1> DEFINE last == Last(h.undo)
           front == SubSeq(h.table, 1, Len(h.table) - Len(last.changes))
           g == [table |-> front, undo |-> Front(h.undo), redo |-> Append(h.redo, last)]
<1>2. Undone(h) = g
  BY DEF Undone
<1>3. h.table = front \o last.changes
  BY <1>1, EndsWithLess
<1>4. last \in Entries /\ Front(h.undo) \in Seq(Entries)
  BY <1>1, FrontType
<1>5. Append(Front(h.undo), last) = h.undo
  BY <1>1 DEF Front, Last
<1>6. g.redo # <<>> /\ Last(g.redo) = last /\ Front(g.redo) = h.redo
  <2> DEFINE r == Append(h.redo, last)
  <2>1. /\ r \in Seq(Entries) /\ r # <<>> /\ Len(r) = Len(h.redo) + 1 /\ r[Len(h.redo) + 1] = last
    BY <1>1, <1>4, AppendProperties
  <2>2. Last(r) = last
    BY <2>1 DEF Last
  <2>3. Front(r) = h.redo
    BY <1>1, <1>4 DEF Front
  <2>4. g.redo = r
    OBVIOUS
  <2> QED
    BY <2>1, <2>2, <2>3, <2>4
<1>7. Redone(g) = [table |-> front \o last.changes, undo |-> Append(Front(h.undo), last), redo |-> h.redo]
  BY <1>6 DEF Redone
<1>8. h = [table |-> h.table, undo |-> h.undo, redo |-> h.redo]
  BY DEF Histories
<1> HIDE DEF g, front, last
<1> QED
  BY <1>2, <1>3, <1>5, <1>7, <1>8

-----------------------------------------------------------------------------
(* What a step does to a program's stacks.                                 *)

\* The table and the stacks of c before and after a step.
Manages(c) ==
  \/ history'[c] = history[c]
  \/ \E req \in Requests : history'[c] = Applied(history[c], req)
  \/ \E k \in 1 .. MaxRequests : history'[c] = Done(history[c], k, FALSE)
  \/ \E t \in Changes : history'[c] = Cleared(t)

LEMMA SetManages ==
  ASSUME TablesOK, NEW d \in Client, NEW h, SetHistory(d, h),
         \/ \E req \in Requests : h = Applied(history[d], req)
         \/ \E k \in 1 .. MaxRequests : h = Done(history[d], k, FALSE)
         \/ \E t \in Changes : h = Cleared(t)
  PROVE  \A c \in Client : Manages(c)
<1> SUFFICES ASSUME NEW c \in Client
             PROVE  Manages(c)
  OBVIOUS
<1>1. history'[c] = IF c = d THEN h ELSE history[c]
  BY DEF SetHistory, TablesOK
<1>2. CASE c = d
  BY <1>1, <1>2 DEF Manages
<1>3. CASE c # d
  BY <1>1, <1>3 DEF Manages
<1> QED
  BY <1>2, <1>3

LEMMA SetClears ==
  ASSUME TablesOK, NEW d \in Client,
         SetHistory(d, ClearUndo(history[d])) \/ \E t \in Changes : NewGame(d, t)
  PROVE  \A c \in Client : Manages(c)
<1>1. history[d].table \in Changes
  BY HistoryFields DEF TablesOK
<1> QED
  BY <1>1, SetManages DEF ClearUndo, NewGame

\* A program that is out and handles the rest of its list.
LEMMA RestManages ==
  ASSUME TypeOK, NEW d \in Client, HandleRest(d)
  PROVE  \/ history'[d] = history[d]
         \/ \E req \in Requests : history'[d] = Applied(history[d], req)
         \/ \E k \in 1 .. MaxRequests : history'[d] = Done(history[d], k, FALSE)
         \/ \E t \in Changes : history'[d] = Cleared(t)
<1> DEFINE m == Head(rest[d])
           Goal == \/ history'[d] = history[d]
                   \/ \E req \in Requests : history'[d] = Applied(history[d], req)
                   \/ \E k \in 1 .. MaxRequests : history'[d] = Done(history[d], k, FALSE)
                   \/ \E t \in Changes : history'[d] = Cleared(t)
<1>1. m \in Bodies /\ HandleAlone(d, m)
  <2>1. rest[d] \in Seq(Bodies) /\ rest[d] # <<>>
    BY DEF HandleRest, TypeOK, RestOK
  <2> QED
    BY <2>1, HeadTailProperties DEF HandleRest
<1>2. history[d] \in Histories /\ history \in [Client -> Histories]
  BY DEF TypeOK, TablesOK
<1>3. ASSUME NEW n, NEW h, NEW said, Alone(d, n, h, said)
      PROVE  history'[d] = h
  BY <1>2, <1>3 DEF Alone, SetHistory
<1>4. ASSUME \E n, said : Alone(d, n, history[d], said)
      PROVE  Goal
  BY <1>3, <1>4
<1>5. ASSUME NEW t \in Changes, \E n, said : Alone(d, n, Cleared(t), said)
      PROVE  Goal
  BY <1>3, <1>5
<1>6. /\ ClearUndo(history[d]) = Cleared(history[d].table)
      /\ <<>> \in Changes /\ history[d].table \in Changes
  BY <1>2, HistoryFields DEF Changes, ClearUndo
<1> SUFFICES Goal
  OBVIOUS
<1> HIDE DEF m, Goal
<1>7. CASE m.type = "Request"
  <2>1. \E n, said : Alone(d, n, history[d], said)
    BY <1>1, <1>7 DEF HandleAlone
  <2> QED
    BY <1>4, <2>1
<1>8. CASE m.type = "ChangeAccepted"
  <2>1. m.req \in Requests
    BY <1>1, <1>8, BodyFields
  <2>2. \E n, said : Alone(d, n, Applied(history[d], m.req), said) \/ Alone(d, n, history[d], said)
    BY <1>1, <1>8 DEF HandleAlone
  <2> QED
    BY <1>3, <1>4, <2>1, <2>2 DEF Goal
<1>9. CASE m.type = "ShuffleResult"
  <2>1. m.change \in 1 .. MaxRequests
    BY <1>1, <1>9, BodyFields
  <2>2. \E n, said : Alone(d, n, Done(history[d], m.change, FALSE), said)
    BY <1>1, <1>9 DEF HandleAlone
  <2> QED
    BY <1>3, <2>1, <2>2 DEF Goal
<1>10. CASE m.type = "GameBoxHasChanged"
  <2>1. <<m.change>> \in Changes
    BY <1>1, <1>10, BodyFields DEF Changes
  <2>2. \E t \in {<<m.change>>, <<>>, history[d].table} : Alone(d, seq[d], Cleared(t), <<>>)
    BY <1>1, <1>10 DEF HandleAlone
  <2> QED
    BY <1>5, <1>6, <2>1, <2>2
<1>11. CASE m.type = "ConnectionAccepted"
  <2>1. m.table \in Changes
    BY <1>1, <1>11, BodyFields
  <2>2. \E n, said : \/ Alone(d, n, Cleared(history[d].table), said)
                    \/ Alone(d, n, Cleared(<<>>), said)
                    \/ Alone(d, n, Cleared(m.table), said)
    BY <1>1, <1>6, <1>11 DEF HandleAlone
  <2> QED
    BY <1>5, <1>6, <2>1, <2>2
<1>12. CASE m.type \notin {"Request", "ChangeAccepted", "ShuffleResult", "GameBoxHasChanged",
                           "ConnectionAccepted"}
  <2>1. Alone(d, seq[d], Cleared(history[d].table), <<>>) \/ Alone(d, seq[d], history[d], <<>>)
    BY <1>1, <1>6, <1>12 DEF HandleAlone
  <2> QED
    BY <1>4, <1>5, <1>6, <2>1
<1> QED
  BY <1>7, <1>8, <1>9, <1>10, <1>11, <1>12

\* A program that handles a packet.
LEMMA HandlingManages ==
  ASSUME TypeOK, NEW d \in Client, Handle(d)
  PROVE  \A c \in Client : Manages(c)
<1>1. TablesOK /\ ChannelsOK /\ ObserversOK
  BY DEF TypeOK
<1>2. ASSUME UNCHANGED history
      PROVE  \A c \in Client : Manages(c)
  BY <1>2 DEF Manages
<1>3. ASSUME HandleChangeAccepted(d)
      PROVE  \A c \in Client : Manages(c)
  <2>1. Body(d) \in Bodies /\ Body(d).type = "ChangeAccepted"
    BY <1>1, <1>3, HandlingType DEF HandleChangeAccepted
  <2>2. Body(d).req \in Requests
    BY <2>1, BodyFields
  <2>3. SetHistory(d, Applied(history[d], Body(d).req))
    BY <1>3 DEF HandleChangeAccepted
  <2> QED
    BY <1>1, <2>2, <2>3, SetManages
<1>4. ASSUME HandleShuffleResult(d)
      PROVE  \A c \in Client : Manages(c)
  <2>1. Body(d) \in Bodies /\ Body(d).type = "ShuffleResult"
    BY <1>1, <1>4, HandlingType DEF HandleShuffleResult
  <2>2. Body(d).change \in 1 .. MaxRequests
    BY <2>1, BodyFields
  <2>3. SetHistory(d, Done(history[d], Body(d).change, FALSE))
    BY <1>4 DEF HandleShuffleResult
  <2> QED
    BY <1>1, <2>2, <2>3, SetManages
<1>5. ASSUME HandleGameLoaded(d)
      PROVE  \A c \in Client : Manages(c)
  <2>1. Body(d) \in Bodies /\ Body(d).type = "GameLoaded"
    BY <1>1, <1>5, HandlingType DEF HandleGameLoaded
  <2>2. <<Body(d).change>> \in Changes
    BY <2>1, BodyFields DEF Changes
  <2>3. UNCHANGED history \/ NewGame(d, <<Body(d).change>>)
    BY <1>5 DEF HandleGameLoaded
  <2> QED
    BY <1>1, <1>2, <2>2, <2>3, SetClears
<1>6. ASSUME HandleGameBoxHasChanged(d)
      PROVE  \A c \in Client : Manages(c)
  <2>1. Body(d) \in Bodies /\ Body(d).type = "GameBoxHasChanged"
    BY <1>1, <1>6, HandlingType DEF HandleGameBoxHasChanged
  <2>2. <<Body(d).change>> \in Changes
    BY <2>1, BodyFields DEF Changes
  <2>3. NewGame(d, <<Body(d).change>>)
    BY <1>6 DEF HandleGameBoxHasChanged
  <2> QED
    BY <1>1, <2>2, <2>3, SetClears
<1>7. ASSUME HandleGameWithoutBox(d)
      PROVE  \A c \in Client : Manages(c)
  <2>1. <<>> \in Changes
    BY DEF Changes
  <2>2. SetHistory(d, ClearUndo(history[d])) \/ NewGame(d, <<>>)
    BY <1>7 DEF HandleGameWithoutBox
  <2> QED
    BY <1>1, <2>1, <2>2, SetClears
<1>8. ASSUME HandleConnectionAccepted(d)
      PROVE  \A c \in Client : Manages(c)
  <2>1. Body(d) \in Bodies /\ Body(d).type = "ConnectionAccepted"
    BY <1>1, <1>8, HandlingType DEF HandleConnectionAccepted
  <2>2. Body(d).table \in Changes
    BY <2>1, BodyFields
  <2>3. NewGame(d, Body(d).table)
    BY <1>8 DEF HandleConnectionAccepted
  <2> QED
    BY <1>1, <2>2, <2>3, SetClears
<1>9. ASSUME HandlePlayerHasJoined(d) \/ HandleHostDisconnected(d)
      PROVE  \A c \in Client : Manages(c)
  <2>1. SetHistory(d, ClearUndo(history[d]))
    BY <1>9 DEF HandlePlayerHasJoined, HandleHostDisconnected
  <2> QED
    BY <1>1, <2>1, SetClears
<1>10. ASSUME HandleChangeRejected(d) \/ HandleOwnRejection(d) \/ HandlePlayerHasLeft(d)
       PROVE  \A c \in Client : Manages(c)
  <2>1. UNCHANGED history
    BY <1>10 DEF HandleChangeRejected, HandleOwnRejection, HandlePlayerHasLeft
  <2> QED
    BY <1>2, <2>1
<1>11. ASSUME HandleRest(d)
       PROVE  \A c \in Client : Manages(c)
  <2>1. \A c \in Client \ {d} : Manages(c)
    BY <1>11, RestApart DEF Manages
  <2>2. Manages(d)
    BY <1>11, RestManages DEF Manages
  <2> QED
    BY <2>1, <2>2
<1> QED
  BY <1>3, <1>4, <1>5, <1>6, <1>7, <1>8, <1>9, <1>10, <1>11 DEF Handle

LEMMA StepManages ==
  ASSUME TypeOK, [Next]_vars
  PROVE  \A c \in Client : Manages(c)
<1>1. TablesOK
  BY DEF TypeOK
<1>2. ASSUME UNCHANGED history
      PROVE  \A c \in Client : Manages(c)
  BY <1>2 DEF Manages
<1>3. CASE UNCHANGED vars
  BY <1>2, <1>3 DEF vars
<1>4. ASSUME NEW c \in Client, NEW kind \in Kinds, Ask(c, kind)
      PROVE  UNCHANGED history
  BY <1>4 DEF Ask
<1>5. CASE LoadGame
  <2>1. <<issued + 1>> \in Changes
    <3>1. issued + 1 \in 1 .. MaxRequests
      BY <1>5, BoundsAssumption DEF LoadGame, TypeOK, NumbersOK
    <3> QED
      BY <3>1 DEF Changes
  <2>2. NewGame(Host, <<issued + 1>>)
    BY <1>5 DEF LoadGame
  <2> QED
    BY <1>1, <2>1, <2>2, SetClears, HostAssumption
<1>6. CASE OpenBox \/ Animate
  <2>1. UNCHANGED history
    BY <1>6 DEF OpenBox, Animate
  <2> QED
    BY <1>2, <2>1
<1>7. ASSUME NEW c \in Client, Connect(c) \/ Leave(c)
      PROVE  UNCHANGED history
  BY <1>7 DEF Connect, Leave
<1>8. CASE HandleAtHost
  <2>1. UNCHANGED history
    BY <1>8 DEF HandleAtHost, HandleRequest, HandlePlayerWantsToJoin
  <2> QED
    BY <1>2, <2>1
<1>9. ASSUME NEW c \in Client, Relaying(c)
      PROVE  UNCHANGED history
  BY <1>9 DEF Relaying
<1>10. ASSUME NEW d \in Client, Handle(d)
       PROVE  \A c \in Client : Manages(c)
  BY <1>10, HandlingManages
<1>11. CASE Next
  BY <1>2, <1>4, <1>5, <1>6, <1>7, <1>8, <1>9, <1>10, <1>11 DEF Next, ProgramStep
<1> QED
  BY <1>3, <1>11

-----------------------------------------------------------------------------
(* The theorems.                                                           *)

LEMMA UndoStep == TypeOK /\ UndoIsLatest /\ [Next]_vars => UndoIsLatest'
<1> SUFFICES ASSUME TypeOK, UndoIsLatest, [Next]_vars, NEW c \in Client
             PROVE  UndoesTheLatest(history'[c])
  BY DEF UndoIsLatest
<1>1. Manages(c)
  BY StepManages
<1>2. history[c] \in Histories /\ UndoesTheLatest(history[c])
  BY DEF TypeOK, TablesOK, UndoIsLatest
<1>3. ASSUME NEW req \in Requests, history'[c] = Applied(history[c], req)
      PROVE  UndoesTheLatest(history'[c])
  BY <1>2, <1>3, AppliedLatest
<1>4. ASSUME NEW k \in 1 .. MaxRequests, history'[c] = Done(history[c], k, FALSE)
      PROVE  UndoesTheLatest(history'[c])
  BY <1>2, <1>4, DoneLatest
<1>5. ASSUME NEW t \in Changes, history'[c] = Cleared(t)
      PROVE  UndoesTheLatest(history'[c])
  BY <1>5, ClearedLatest
<1> QED
  BY <1>1, <1>2, <1>3, <1>4, <1>5 DEF Manages

LEMMA UndoInit == Init => UndoIsLatest
<1> SUFFICES ASSUME Init, NEW c \in Client
             PROVE  UndoesTheLatest(history[c])
  BY DEF UndoIsLatest
<1>1. <<>> \in Changes /\ history[c] = Cleared(<<>>)
  BY DEF Init, Changes
<1> QED
  BY <1>1, ClearedLatest

LEMMA UndoAlways == Spec => [](TypeOK /\ UndoIsLatest)
<1>1. Init => TypeOK /\ UndoIsLatest
  BY TypeInit, UndoInit
<1>2. TypeOK /\ UndoIsLatest /\ [Next]_vars => (TypeOK /\ UndoIsLatest)'
  BY TypeStep, UndoStep
<1> QED
  BY <1>1, <1>2, PTL DEF Spec

\* Whatever the players do, load and lose, and however long the stacks: what a program
\* can undo are the last changes of its table.
THEOREM UndoIsAlwaysLatest == Spec => []UndoIsLatest
BY UndoAlways, PTL

\* Whenever a program undoes something, redoing it restores the table and both stacks.
\* (CommandManager.Undo and Redo)
RedoRestores ==
  \A c \in Client : history[c].undo # <<>> => Redone(Undone(history[c])) = history[c]

THEOREM RedoAlwaysRestores == Spec => []RedoRestores
<1>1. TypeOK /\ UndoIsLatest => RedoRestores
  BY RedoTakesBack DEF TypeOK, TablesOK, UndoIsLatest, RedoRestores
<1> QED
  BY <1>1, UndoAlways, PTL
=============================================================================
