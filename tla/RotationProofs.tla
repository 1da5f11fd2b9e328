--------------------------- MODULE RotationProofs ---------------------------
(***************************************************************************)
(* Theorems about Rotation, for any number of players, pieces and events.  *)
(*                                                                         *)
(* The way of a question is that of a round trip: from its author's queue  *)
(* to the host's, and the answer back.  All queues are first in, first     *)
(* out, so that what is on that way stays in order.  The invariant says    *)
(* what may be on it at a time.                                            *)
(***************************************************************************)
EXTENDS Rotation, TLAPS, SequenceTheorems, FiniteSetTheorems

-----------------------------------------------------------------------------
(* What travels.                                                           *)

RotationKinds == {"RotatePiece", "RotateStack"}

\* Pieces that somebody turns are some pieces of a game.
Turned == [game : Nat \ {0}, pieces : Seq(Piece) \ {<<>>}]

Requests ==
  [kind : Moves, sender : Client, seq : Nat, piece : Piece]
    \cup [kind : RotationKinds, sender : Client, seq : Nat, piece : Piece, by : Int, shown : Turned]

Bodies ==
  [type : {"Request", "ChangeRejected"}, req : Requests]
    \cup [type : {"ChangeAccepted"}, seq : Nat, req : Requests]
    \cup [type : {"GameLoaded"}, seq : Nat, game : Nat \ {0}]
    \cup [type : {"BeginRotation", "ContinueRotation"}]

UpPackets == [route : {"ClientToHost", "ClientToAll", "HostToSingleClient"},
              to : Client, body : Bodies]
DownPackets == [from : Client, n : Nat, body : Bodies]
Packets == UpPackets \cup DownPackets

\* What client c sends to the server: everybody asks the host, who alone answers.
FromClient(c) ==
  {m \in UpPackets :
     /\ m.route = "ClientToHost" =>
          /\ m.body.type \in {"Request", "BeginRotation"}
          /\ m.body.type = "Request" => m.body.req.sender = c
     /\ m.route = "ClientToAll" => c = Host /\ m.body.type \in {"GameLoaded", "ChangeAccepted"}
     /\ m.route = "HostToSingleClient" =>
          /\ c = Host /\ m.to # Host
          /\ m.body.type \in {"ContinueRotation", "ChangeRejected"}
          /\ m.body.type = "ChangeRejected" => m.body.req.sender = m.to}

\* What the server sends to client c: the host gets what is asked, the others get answers.
ToClient(c) ==
  {m \in DownPackets :
     /\ m.body.type \in {"Request", "BeginRotation"} => c = Host
     /\ m.body.type = "Request" => m.body.req.sender = m.from
     /\ m.body.type \in {"ContinueRotation", "ChangeRejected"} => c # Host
     /\ m.body.type = "ChangeRejected" => m.body.req.sender = c}

\* What the host answers himself.
ToItself(c) ==
  {m \in DownPackets :
     /\ c = Host /\ m.body.type \in {"ContinueRotation", "ChangeRejected"}
     /\ m.body.type = "ChangeRejected" => m.body.req.sender = Host}

UpOK(u) == u \in [Client -> Seq(UpPackets)] /\ \A c \in Client : u[c] \in Seq(FromClient(c))
DownOK(d) == d \in [Client -> Seq(DownPackets)] /\ \A c \in Client : d[c] \in Seq(ToClient(c))
LoopOK(l) == l \in [Client -> Seq(DownPackets)] /\ \A c \in Client : l[c] \in Seq(ToItself(c))

\* Nobody leaves.
ChannelsOK == members = Client /\ relayed \in Nat /\ UpOK(up) /\ DownOK(down) /\ LoopOK(loopback)

\* What is counted while the wheel is turned is counted for some pieces, and a game has a number.
WheelOK ==
  /\ game \in [Client -> Nat \ {0}]
  /\ rotating \in [Client -> Turned \cup {Nothing}]
  /\ \A c \in Client : /\ (increments[c] # 0 \/ inProgress[c]) => waiting[c]
                       /\ waiting[c] => rotating[c] # Nothing

-----------------------------------------------------------------------------
(* Marks: packets that matter to one client, wherever they are.            *)

lines == [q \in Queues |-> Queue(q)]

\* The round trip of c: its BeginRotation and what the host answers.
Tokens(c) == {t \in Queues \X Packets : OfRoundTrip(c, t[1], t[2])}

\* A rotation that c has requested, and the answer on its way to c.
Rotations(c) ==
  {t \in Queues \X Packets :
     LET body == t[2].body IN
     /\ body.type \in {"Request", "ChangeRejected", "ChangeAccepted"}
     /\ body.req.kind \notin Moves /\ body.req.sender = c
     /\ (body.type = "ChangeAccepted" /\ t[1][1] = "down") => t[1][2] = c}

At(F, T, q, i) == i \in DOMAIN F[q] /\ <<q, F[q][i]>> \in T
Some(F, T) == \E q \in Queues, i \in Nat : At(F, T, q, i)
Sole(F, T) == \A q, r \in Queues, i, j \in Nat : At(F, T, q, i) /\ At(F, T, r, j) => q = r /\ i = j

\* The way of a player's questions to the host and of the answers back, from its end.
Rank(c, q) ==
  CASE q = <<"down", c>> -> 1 [] q = <<"up", Host>> -> 2
    [] q = <<"down", Host>> -> 3 [] q = <<"up", c>> -> 4 [] OTHER -> 0
Older(c, q, i, r, j) == Rank(c, q) < Rank(c, r) \/ (q = r /\ i < j)

\* A rotation that was requested, or its answer, is ahead of the round trip that began later.
InOrder(F, c) ==
  \A q, r \in Queues, i, j \in Nat :
    At(F, Rotations(c), q, i) /\ At(F, Tokens(c), r, j) => Older(c, q, i, r, j)

\* What was requested is what is still being rotated.
ShownIs(F, c, v) ==
  \A q \in Queues, i \in Nat : At(F, Rotations(c), q, i) => F[q][i].body.req.shown = v

\* At a player who joined.
PathOK(F, c, v) == Sole(F, Rotations(c)) /\ InOrder(F, c) /\ ShownIs(F, c, v)

\* For a client that waits (w) and rotates these pieces (v).
ClientOK(F, c, w, v) ==
  /\ Sole(F, Tokens(c)) /\ (w <=> Some(F, Tokens(c)))
  /\ v # Nothing => w \/ Some(F, Rotations(c))
  /\ c # Host => PathOK(F, c, v)

\* The inductive invariant.
RotationInv == \A c \in Client : ClientOK(lines, c, waiting[c], rotating[c])

-----------------------------------------------------------------------------
(* Queues, in general.                                                     *)

Lines == [Queues -> Seq(Packets)]

\* From F to G the queues in X lose their first packet, the others may get one more.
Flow(F, G, X) ==
  \A q \in Queues :
    IF q \in X THEN F[q] # <<>> /\ G[q] = Tail(F[q])
    ELSE G[q] = F[q] \/ \E m \in Packets : G[q] = Append(F[q], m)

\* One that is marked.
Lands(F, G, T, q) == \E m \in Packets : G[q] = Append(F[q], m) /\ <<q, m>> \in T

LEMMA TailIndex ==
  ASSUME NEW S, NEW s \in Seq(S), s # <<>>
  PROVE  /\ Head(s) \in S /\ Tail(s) \in Seq(S) /\ Len(s) \in Nat /\ Len(s) > 0
         /\ DOMAIN s = 1 .. Len(s) /\ Head(s) = s[1]
         /\ Len(Tail(s)) = Len(s) - 1 /\ DOMAIN Tail(s) = 1 .. Len(s) - 1
         /\ \A i \in DOMAIN Tail(s) : i + 1 \in DOMAIN s /\ Tail(s)[i] = s[i + 1]
BY HeadTailProperties, LenProperties

LEMMA AppendIndex ==
  ASSUME NEW S, NEW s \in Seq(S), NEW e \in S
  PROVE  /\ Append(s, e) \in Seq(S) /\ Append(s, e) # <<>> /\ Len(s) \in Nat
         /\ DOMAIN s = 1 .. Len(s) /\ DOMAIN Append(s, e) = 1 .. Len(s) + 1
         /\ Append(s, e)[Len(s) + 1] = e
         /\ \A i \in DOMAIN s : Append(s, e)[i] = s[i]
BY AppendProperties, LenProperties

\* The marks that nobody handles now.
Stay(F, X, T, q, i) == At(F, T, q, i) /\ ~(q \in X /\ i = 1)

\* Every mark was there before, or lands now.
LEMMA Origin ==
  ASSUME NEW F \in Lines, NEW G, NEW X, Flow(F, G, X), NEW T,
         NEW q \in Queues, NEW i \in Nat, At(G, T, q, i)
  PROVE  \/ q \in X /\ Stay(F, X, T, q, i + 1) /\ G[q][i] = F[q][i + 1]
         \/ q \notin X /\ Stay(F, X, T, q, i) /\ G[q][i] = F[q][i] /\ i <= Len(F[q])
         \/ q \notin X /\ Lands(F, G, T, q) /\ i = Len(F[q]) + 1
<1>1. F[q] \in Seq(Packets) /\ Len(F[q]) \in Nat /\ DOMAIN F[q] = 1 .. Len(F[q])
  BY LenProperties DEF Lines
<1>2. CASE q \in X
  <2>1. F[q] # <<>> /\ G[q] = Tail(F[q])
    BY <1>2 DEF Flow
  <2>2. i \in DOMAIN G[q] /\ DOMAIN G[q] = 1 .. Len(F[q]) - 1
    BY <1>1, <2>1, TailIndex DEF At
  <2>3. i + 1 \in DOMAIN F[q] /\ G[q][i] = F[q][i + 1]
    BY <1>1, <2>1, <2>2, TailIndex
  <2>4. i + 1 # 1
    BY <2>2
  <2>5. At(F, T, q, i + 1)
    BY <2>3 DEF At
  <2> QED
    BY <1>2, <2>3, <2>4, <2>5 DEF Stay
<1>3. CASE q \notin X /\ G[q] = F[q]
  <2>1. At(F, T, q, i) /\ G[q][i] = F[q][i]
    BY <1>3 DEF At
  <2>2. i <= Len(F[q])
    BY <1>1, <2>1 DEF At
  <2> QED
    BY <1>3, <2>1, <2>2 DEF Stay
<1>4. CASE q \notin X /\ \E m \in Packets : G[q] = Append(F[q], m)
  <2>1. PICK m \in Packets : G[q] = Append(F[q], m)
    BY <1>4
  <2>2. /\ DOMAIN G[q] = 1 .. Len(F[q]) + 1
        /\ G[q][Len(F[q]) + 1] = m /\ \A k \in DOMAIN F[q] : G[q][k] = F[q][k]
    BY <1>1, <2>1, AppendIndex
  <2>3. CASE i \in DOMAIN F[q]
    <3>1. At(F, T, q, i) /\ G[q][i] = F[q][i]
      BY <2>2, <2>3 DEF At
    <3>2. i <= Len(F[q])
      BY <1>1, <2>3
    <3> QED
      BY <1>4, <3>1, <3>2 DEF Stay
  <2>4. CASE i \notin DOMAIN F[q]
    <3>1. i = Len(F[q]) + 1
      BY <1>1, <2>2, <2>4 DEF At
    <3>2. <<q, m>> \in T
      BY <2>2, <3>1 DEF At
    <3> QED
      BY <1>4, <2>1, <3>1, <3>2 DEF Lands
  <2> QED
    BY <2>3, <2>4
<1> QED
  BY <1>2, <1>3, <1>4 DEF Flow

\* Where it is then.
LEMMA FlowOn ==
  ASSUME NEW F \in Lines, NEW G, NEW X, Flow(F, G, X), NEW T,
         NEW q \in Queues, NEW i \in Nat, At(F, T, q, i)
  PROVE  /\ i - 1 \in Int /\ (q \in X /\ i # 1 => At(G, T, q, i - 1))
         /\ q \notin X => At(G, T, q, i)
<1>1. F[q] \in Seq(Packets)
  BY DEF Lines
<1>2. CASE q \in X
  <2>1. F[q] # <<>> /\ G[q] = Tail(F[q])
    BY <1>2 DEF Flow
  <2>2. i # 1 => i - 1 \in DOMAIN G[q]
    BY <1>1, <2>1, TailIndex DEF At
  <2>3. i # 1 => G[q][i - 1] = F[q][(i - 1) + 1] /\ (i - 1) + 1 = i
    BY <1>1, <2>1, <2>2, TailIndex
  <2> QED
    BY <1>2, <2>2, <2>3 DEF At
<1>3. CASE q \notin X /\ G[q] = F[q]
  BY <1>3 DEF At
<1>4. CASE q \notin X /\ \E m \in Packets : G[q] = Append(F[q], m)
  <2>1. PICK m \in Packets : G[q] = Append(F[q], m)
    BY <1>4
  <2>2. /\ Len(F[q]) \in Nat /\ DOMAIN F[q] = 1 .. Len(F[q]) /\ DOMAIN G[q] = 1 .. Len(F[q]) + 1
        /\ \A k \in DOMAIN F[q] : G[q][k] = F[q][k]
    BY <1>1, <2>1, AppendIndex
  <2> QED
    BY <1>4, <2>2 DEF At
<1> QED
  BY <1>2, <1>3, <1>4 DEF Flow

\* A packet that lands is the last one.
LEMMA Landed ==
  ASSUME NEW F \in Lines, NEW G, NEW T, NEW q \in Queues, Lands(F, G, T, q)
  PROVE  Some(G, T)
<1>1. PICK m \in Packets : G[q] = Append(F[q], m) /\ <<q, m>> \in T
  BY DEF Lands
<1>2. F[q] \in Seq(Packets)
  BY DEF Lines
<1>3. /\ Len(F[q]) \in Nat /\ DOMAIN G[q] = 1 .. Len(F[q]) + 1 /\ G[q][Len(F[q]) + 1] = m
  BY <1>1, <1>2, AppendIndex
<1>4. Len(F[q]) + 1 \in DOMAIN G[q] /\ Len(F[q]) + 1 \in Nat
  BY <1>3
<1>5. At(G, T, q, Len(F[q]) + 1)
  BY <1>1, <1>3, <1>4 DEF At
<1> QED
  BY <1>4, <1>5 DEF Some

LEMMA SomeKept ==
  ASSUME NEW F \in Lines, NEW G, NEW X, Flow(F, G, X), NEW T,
         NEW q \in Queues, NEW i \in Nat, Stay(F, X, T, q, i)
  PROVE  Some(G, T)
<1>1. At(F, T, q, i)
  BY DEF Stay
<1>2. F[q] \in Seq(Packets) /\ i \in DOMAIN F[q]
  BY <1>1 DEF Lines, At
<1>3. i >= 1
  BY <1>2, LenProperties
<1>4. q \in X => At(G, T, q, i - 1) /\ i - 1 \in Nat
  BY <1>1, <1>3, FlowOn DEF Stay
<1>5. q \notin X => At(G, T, q, i)
  BY <1>1, FlowOn
<1> QED
  BY <1>4, <1>5 DEF Some

LEMMA SomeBefore ==
  ASSUME NEW F \in Lines, NEW G, NEW X, Flow(F, G, X), NEW T, Some(G, T),
         \A q \in Queues : ~Lands(F, G, T, q)
  PROVE  \E q \in Queues, i \in Nat : Stay(F, X, T, q, i)
<1>1. PICK q \in Queues, i \in Nat : At(G, T, q, i)
  BY DEF Some
<1>2. i + 1 \in Nat
  OBVIOUS
<1> QED
  BY <1>1, <1>2, Origin

\* One mark remains one.
LEMMA SoleKept ==
  ASSUME NEW F \in Lines, NEW G, NEW X, Flow(F, G, X), NEW T, Sole(F, T),
         \A q \in Queues : ~Lands(F, G, T, q)
  PROVE  Sole(G, T)
<1> SUFFICES ASSUME NEW q \in Queues, NEW r \in Queues, NEW i \in Nat, NEW j \in Nat,
                    At(G, T, q, i), At(G, T, r, j)
             PROVE  q = r /\ i = j
  BY DEF Sole
<1>1. i + 1 \in Nat /\ j + 1 \in Nat
  OBVIOUS
<1>2. \/ q \in X /\ At(F, T, q, i + 1)
      \/ q \notin X /\ At(F, T, q, i)
  BY Origin DEF Stay
<1>3. \/ r \in X /\ At(F, T, r, j + 1)
      \/ r \notin X /\ At(F, T, r, j)
  BY Origin DEF Stay
<1>4. q = r
  BY <1>1, <1>2, <1>3 DEF Sole
<1>5. i = j \/ i + 1 = j + 1
  BY <1>1, <1>2, <1>3, <1>4 DEF Sole
<1> QED
  BY <1>4, <1>5

\* One lands when none was left.
LEMMA SoleNew ==
  ASSUME NEW F \in Lines, NEW G, NEW X, Flow(F, G, X), NEW T, NEW y \in Queues,
         \A q \in Queues : Lands(F, G, T, q) => q = y,
         \A q \in Queues, i \in Nat : ~Stay(F, X, T, q, i)
  PROVE  Sole(G, T)
<1> SUFFICES ASSUME NEW q \in Queues, NEW r \in Queues, NEW i \in Nat, NEW j \in Nat,
                    At(G, T, q, i), At(G, T, r, j)
             PROVE  q = r /\ i = j
  BY DEF Sole
<1>1. i + 1 \in Nat /\ j + 1 \in Nat
  OBVIOUS
<1>2. q = y /\ i = Len(F[y]) + 1
  BY <1>1, Origin
<1>3. r = y /\ j = Len(F[y]) + 1
  BY <1>1, Origin
<1> QED
  BY <1>2, <1>3

LEMMA RankType ==
  ASSUME NEW c \in Client, NEW q \in Queues
  PROVE  /\ Rank(c, q) \in Nat /\ Rank(c, q) <= 4
         /\ c # Host => (Rank(c, q) = 4 <=> q = <<"up", c>>)
         /\ c # Host => Rank(c, <<"down", c>>) = 1 /\ Rank(c, <<"up", Host>>) = 2
                        /\ Rank(c, <<"down", Host>>) = 3 /\ Rank(c, <<"up", c>>) = 4
BY DEF Rank, Queues

\* The ranks of a way are those of its queues.
LEMMA RankSame ==
  ASSUME NEW c \in Client, NEW q \in Queues, NEW r \in Queues, Rank(c, q) = Rank(c, r), Rank(c, q) >= 1
  PROVE  q = r
BY DEF Rank, Queues

\* What stays is in the order that it was.
LEMMA OrderKept ==
  ASSUME NEW F \in Lines, NEW G, NEW X, Flow(F, G, X), NEW c \in Client, InOrder(F, c),
         \A q \in Queues : ~Lands(F, G, Tokens(c), q) /\ ~Lands(F, G, Rotations(c), q)
  PROVE  InOrder(G, c)
<1> SUFFICES ASSUME NEW q \in Queues, NEW r \in Queues, NEW i \in Nat, NEW j \in Nat,
                    At(G, Rotations(c), q, i), At(G, Tokens(c), r, j)
             PROVE  Older(c, q, i, r, j)
  BY DEF InOrder
<1>1. i + 1 \in Nat /\ j + 1 \in Nat
  OBVIOUS
<1>2. \/ q \in X /\ At(F, Rotations(c), q, i + 1)
      \/ q \notin X /\ At(F, Rotations(c), q, i)
  BY Origin DEF Stay
<1>3. \/ r \in X /\ At(F, Tokens(c), r, j + 1)
      \/ r \notin X /\ At(F, Tokens(c), r, j)
  BY Origin DEF Stay
<1>4. Rank(c, q) < Rank(c, r) \/ (q = r /\ (i < j \/ i + 1 < j + 1))
  BY <1>1, <1>2, <1>3 DEF InOrder, Older
<1> QED
  BY <1>4 DEF Older

\* A round trip lands behind the rotation that was requested before.
LEMMA OrderBehind ==
  ASSUME NEW F \in Lines, NEW G, NEW X, Flow(F, G, X), NEW c \in Client, NEW y \in Queues,
         \A q \in Queues : Lands(F, G, Tokens(c), q) => q = y,
         \A q \in Queues : ~Lands(F, G, Rotations(c), q),
         \A q \in Queues, i \in Nat : ~Stay(F, X, Tokens(c), q, i),
         \A q \in Queues, i \in Nat :
           Stay(F, X, Rotations(c), q, i) => Rank(c, q) < Rank(c, y) \/ q = y
  PROVE  InOrder(G, c)
<1> SUFFICES ASSUME NEW q \in Queues, NEW r \in Queues, NEW i \in Nat, NEW j \in Nat,
                    At(G, Rotations(c), q, i), At(G, Tokens(c), r, j)
             PROVE  Older(c, q, i, r, j)
  BY DEF InOrder
<1>1. i + 1 \in Nat /\ j + 1 \in Nat
  OBVIOUS
<1>2. r = y /\ r \notin X /\ j = Len(F[y]) + 1
  BY <1>1, Origin
<1>3. \/ q \in X /\ Stay(F, X, Rotations(c), q, i + 1)
      \/ q \notin X /\ Stay(F, X, Rotations(c), q, i) /\ i <= Len(F[q])
  BY Origin
<1>4. Rank(c, q) < Rank(c, y) \/ q = y
  BY <1>1, <1>3
<1>5. F[y] \in Seq(Packets) /\ Len(F[y]) \in Nat
  BY LenProperties DEF Lines
<1>6. q = y => i < j
  BY <1>2, <1>3, <1>5
<1> QED
  BY <1>2, <1>4, <1>6 DEF Older

\* A rotation lands ahead of the round trip that is behind it.
LEMMA OrderAhead ==
  ASSUME NEW F \in Lines, NEW G, NEW X, Flow(F, G, X), NEW c \in Client, NEW y \in Queues,
         \A q \in Queues : Lands(F, G, Rotations(c), q) => q = y,
         \A q \in Queues : ~Lands(F, G, Tokens(c), q),
         \A q \in Queues, i \in Nat : ~Stay(F, X, Rotations(c), q, i),
         \A q \in Queues, i \in Nat : Stay(F, X, Tokens(c), q, i) => Rank(c, y) < Rank(c, q)
  PROVE  InOrder(G, c)
<1> SUFFICES ASSUME NEW q \in Queues, NEW r \in Queues, NEW i \in Nat, NEW j \in Nat,
                    At(G, Rotations(c), q, i), At(G, Tokens(c), r, j)
             PROVE  Older(c, q, i, r, j)
  BY DEF InOrder
<1>1. i + 1 \in Nat /\ j + 1 \in Nat
  OBVIOUS
<1>2. q = y
  BY <1>1, Origin
<1>3. Stay(F, X, Tokens(c), r, j + 1) \/ Stay(F, X, Tokens(c), r, j)
  BY Origin
<1> QED
  BY <1>1, <1>2, <1>3 DEF Older

\* All rotations under way show v when those that stay and those that land do.
LEMMA ShownFrom ==
  ASSUME NEW F \in Lines, NEW G, NEW X, Flow(F, G, X), NEW c \in Client, NEW v,
         \A q \in Queues, i \in Nat :
           Stay(F, X, Rotations(c), q, i) => F[q][i].body.req.shown = v,
         \A q \in Queues, m \in Packets :
           G[q] = Append(F[q], m) /\ <<q, m>> \in Rotations(c) => m.body.req.shown = v
  PROVE  ShownIs(G, c, v)
<1> SUFFICES ASSUME NEW q \in Queues, NEW i \in Nat, At(G, Rotations(c), q, i)
             PROVE  G[q][i].body.req.shown = v
  BY DEF ShownIs
<1>1. i + 1 \in Nat
  OBVIOUS
<1>2. CASE Lands(F, G, Rotations(c), q) /\ i = Len(F[q]) + 1
  <2>1. PICK m \in Packets : G[q] = Append(F[q], m) /\ <<q, m>> \in Rotations(c)
    BY <1>2 DEF Lands
  <2>2. F[q] \in Seq(Packets)
    BY DEF Lines
  <2>3. G[q][i] = m
    BY <1>2, <2>1, <2>2, AppendIndex
  <2> QED
    BY <2>1, <2>3
<1>3. \/ Stay(F, X, Rotations(c), q, i + 1) /\ G[q][i] = F[q][i + 1]
      \/ Stay(F, X, Rotations(c), q, i) /\ G[q][i] = F[q][i]
      \/ Lands(F, G, Rotations(c), q) /\ i = Len(F[q]) + 1
  BY Origin
<1> QED
  BY <1>1, <1>2, <1>3

-----------------------------------------------------------------------------
(* What a step can do to the way of one client.                            *)

\* The packets at the head of X are not marked for c.
NotHandled(F, X, c) ==
  \A q \in X : <<q, Head(F[q])>> \notin Tokens(c) /\ <<q, Head(F[q])>> \notin Rotations(c)

\* Nothing that lands is.
Quiet(F, G, c) ==
  \A q \in Queues : ~Lands(F, G, Tokens(c), q) /\ ~Lands(F, G, Rotations(c), q)

\* A mark that is there stays unless it is handled.
LEMMA StaysUnless ==
  ASSUME NEW F \in Lines, NEW G, NEW X \in SUBSET Queues, Flow(F, G, X), NEW T, Some(F, T),
         \A q \in X : <<q, Head(F[q])>> \notin T
  PROVE  Some(G, T)
<1>1. PICK q \in Queues, i \in Nat : At(F, T, q, i)
  BY DEF Some
<1>2. ~(q \in X /\ i = 1)
  <2>1. SUFFICES ASSUME q \in X, i = 1 PROVE FALSE
    OBVIOUS
  <2>2. F[q] \in Seq(Packets) /\ F[q] # <<>>
    BY <2>1 DEF Lines, Flow
  <2>3. Head(F[q]) = F[q][1]
    BY <2>2, TailIndex
  <2>4. <<q, F[q][1]>> \in T
    BY <1>1, <2>1 DEF At
  <2> QED
    BY <2>1, <2>3, <2>4
<1>3. Stay(F, X, T, q, i)
  BY <1>1, <1>2 DEF Stay
<1> QED
  BY <1>3, SomeKept

\* The only mark there is handled: none stays.
LEMMA NoneStays ==
  ASSUME NEW F \in Lines, NEW G, NEW x \in Queues, Flow(F, G, {x}), NEW T, Sole(F, T),
         <<x, Head(F[x])>> \in T
  PROVE  /\ At(F, T, x, 1)
         /\ \A q \in Queues, i \in Nat : ~Stay(F, {x}, T, q, i)
<1>1. F[x] \in Seq(Packets) /\ F[x] # <<>>
  BY DEF Lines, Flow
<1>2. Head(F[x]) = F[x][1] /\ 1 \in DOMAIN F[x] /\ 1 \in Nat
  BY <1>1, TailIndex
<1>3. At(F, T, x, 1)
  BY <1>2 DEF At
<1> QED
  BY <1>2, <1>3 DEF Sole, Stay

LEMMA ShownKept ==
  ASSUME NEW F \in Lines, NEW G, NEW X, Flow(F, G, X), NEW c \in Client, NEW v,
         ShownIs(F, c, v), \A q \in Queues : ~Lands(F, G, Rotations(c), q)
  PROVE  ShownIs(G, c, v)
<1>1. \A q \in Queues, i \in Nat :
        Stay(F, X, Rotations(c), q, i) => F[q][i].body.req.shown = v
  BY DEF ShownIs, Stay
<1>2. \A q \in Queues, m \in Packets :
        G[q] = Append(F[q], m) /\ <<q, m>> \in Rotations(c) => m.body.req.shown = v
  BY DEF Lands
<1> QED
  BY <1>1, <1>2, ShownFrom

\* Other clients' packets.
LEMMA ClientQuiet ==
  ASSUME NEW F \in Lines, NEW G, NEW X \in SUBSET Queues, Flow(F, G, X), NEW c \in Client,
         NEW w, NEW v, ClientOK(F, c, w, v), Quiet(F, G, c), NotHandled(F, X, c)
  PROVE  ClientOK(G, c, w, v)
<1>1. /\ \A q \in Queues : ~Lands(F, G, Tokens(c), q)
      /\ \A q \in Queues : ~Lands(F, G, Rotations(c), q)
      /\ \A q \in X : <<q, Head(F[q])>> \notin Tokens(c)
      /\ \A q \in X : <<q, Head(F[q])>> \notin Rotations(c)
  BY DEF Quiet, NotHandled
<1>2. /\ Sole(F, Tokens(c)) /\ (w <=> Some(F, Tokens(c)))
      /\ v # Nothing => w \/ Some(F, Rotations(c))
      /\ c # Host => PathOK(F, c, v)
  BY DEF ClientOK
<1>3. Sole(G, Tokens(c))
  BY <1>1, <1>2, SoleKept
<1>4. Some(F, Tokens(c)) => Some(G, Tokens(c))
  BY <1>1, StaysUnless
<1>5. Some(F, Rotations(c)) => Some(G, Rotations(c))
  BY <1>1, StaysUnless
<1>6. Some(G, Tokens(c)) => Some(F, Tokens(c))
  <2>1. Some(G, Tokens(c)) => \E q \in Queues, i \in Nat : Stay(F, X, Tokens(c), q, i)
    BY <1>1, SomeBefore
  <2> QED
    BY <2>1 DEF Some, Stay
<1>7. ASSUME c # Host PROVE PathOK(G, c, v)
  <2>1. Sole(F, Rotations(c)) /\ InOrder(F, c) /\ ShownIs(F, c, v)
    BY <1>2, <1>7 DEF PathOK
  <2>2. Sole(G, Rotations(c))
    BY <1>1, <2>1, SoleKept
  <2>3. InOrder(G, c)
    BY <1>1, <2>1, OrderKept
  <2>4. ShownIs(G, c, v)
    BY <1>1, <2>1, ShownKept
  <2> QED
    BY <2>2, <2>3, <2>4 DEF PathOK
<1> QED
  BY <1>2, <1>3, <1>4, <1>5, <1>6, <1>7 DEF ClientOK

\* The packet at the head of x goes on to y, with its mark and what it shows.
Moves1(F, G, x, y, T) ==
  /\ <<x, Head(F[x])>> \in T => Lands(F, G, T, y)
  /\ \A q \in Queues : Lands(F, G, T, q) => q = y /\ <<x, Head(F[x])>> \in T

LEMMA SoleMoved ==
  ASSUME NEW F \in Lines, NEW G, NEW x \in Queues, NEW y \in Queues, Flow(F, G, {x}), NEW T,
         Sole(F, T), Moves1(F, G, x, y, T)
  PROVE  Sole(G, T)
<1>1. CASE <<x, Head(F[x])>> \in T
  <2>1. \A q \in Queues, i \in Nat : ~Stay(F, {x}, T, q, i)
    BY <1>1, NoneStays
  <2>2. \A q \in Queues : Lands(F, G, T, q) => q = y
    BY DEF Moves1
  <2> QED
    BY <2>1, <2>2, SoleNew
<1>2. CASE <<x, Head(F[x])>> \notin T
  <2>1. \A q \in Queues : ~Lands(F, G, T, q)
    BY <1>2 DEF Moves1
  <2> QED
    BY <2>1, SoleKept
<1> QED
  BY <1>1, <1>2

LEMMA SomeMoved ==
  ASSUME NEW F \in Lines, NEW G, NEW x \in Queues, NEW y \in Queues, Flow(F, G, {x}), NEW T,
         Moves1(F, G, x, y, T)
  PROVE  Some(F, T) <=> Some(G, T)
<1>1. CASE <<x, Head(F[x])>> \in T
  <2>1. Lands(F, G, T, y)
    BY <1>1 DEF Moves1
  <2>2. Some(G, T)
    BY <2>1, Landed
  <2>3. F[x] \in Seq(Packets) /\ F[x] # <<>>
    BY DEF Lines, Flow
  <2>4. Head(F[x]) = F[x][1] /\ 1 \in DOMAIN F[x] /\ 1 \in Nat
    BY <2>3, TailIndex
  <2>5. Some(F, T)
    BY <1>1, <2>4 DEF At, Some
  <2> QED
    BY <2>2, <2>5
<1>2. CASE <<x, Head(F[x])>> \notin T
  <2>1. \A q \in Queues : ~Lands(F, G, T, q)
    BY <1>2 DEF Moves1
  <2>2. Some(F, T) => Some(G, T)
    BY <1>2, StaysUnless
  <2>3. Some(G, T) => \E q \in Queues, i \in Nat : Stay(F, {x}, T, q, i)
    BY <2>1, SomeBefore
  <2> QED
    BY <2>2, <2>3 DEF Some, Stay
<1> QED
  BY <1>1, <1>2

\* The next queue of the way.
LEMMA OrderMoved ==
  ASSUME NEW F \in Lines, NEW G, NEW x \in Queues, NEW y \in Queues, Flow(F, G, {x}),
         NEW c \in Client, x # y,
         Sole(F, Tokens(c)), Sole(F, Rotations(c)), InOrder(F, c),
         Moves1(F, G, x, y, Tokens(c)), Moves1(F, G, x, y, Rotations(c)),
         ~(<<x, Head(F[x])>> \in Tokens(c) /\ <<x, Head(F[x])>> \in Rotations(c)),
         <<x, Head(F[x])>> \in Tokens(c) \cup Rotations(c) =>
           Rank(c, y) >= 1 /\ Rank(c, x) = Rank(c, y) + 1
  PROVE  InOrder(G, c)
<1> DEFINE m == Head(F[x])
<1>0. 1 \in Nat
  OBVIOUS
<1>1. CASE <<x, m>> \in Tokens(c)
  <2>1. At(F, Tokens(c), x, 1) /\ \A q \in Queues, i \in Nat : ~Stay(F, {x}, Tokens(c), q, i)
    BY <1>1, NoneStays
  <2>2. \A q \in Queues : Lands(F, G, Tokens(c), q) => q = y
    BY DEF Moves1
  <2>3. \A q \in Queues : ~Lands(F, G, Rotations(c), q)
    BY <1>1 DEF Moves1
  <2>4. ASSUME NEW q \in Queues, NEW i \in Nat, Stay(F, {x}, Rotations(c), q, i)
        PROVE  Rank(c, q) < Rank(c, y) \/ q = y
    <3>1. Older(c, q, i, x, 1)
      BY <1>0, <2>1, <2>4 DEF InOrder, Stay
    <3>2. i >= 1
      <4>1. i \in DOMAIN F[q] /\ F[q] \in Seq(Packets)
        BY <2>4 DEF Stay, At, Lines
      <4> QED
        BY <4>1, LenProperties
    <3>3. Rank(c, q) < Rank(c, x)
      BY <3>1, <3>2 DEF Older
    <3>4. Rank(c, q) \in Nat /\ Rank(c, y) \in Nat /\ Rank(c, y) >= 1 /\ Rank(c, x) = Rank(c, y) + 1
      BY <1>1, RankType
    <3>5. Rank(c, q) < Rank(c, y) \/ Rank(c, q) = Rank(c, y)
      BY <3>3, <3>4
    <3> QED
      BY <3>4, <3>5, RankSame
  <2> QED
    BY <2>1, <2>2, <2>3, <2>4, OrderBehind
<1>2. CASE <<x, m>> \in Rotations(c)
  <2>1. At(F, Rotations(c), x, 1)
        /\ \A q \in Queues, i \in Nat : ~Stay(F, {x}, Rotations(c), q, i)
    BY <1>2, NoneStays
  <2>2. \A q \in Queues : Lands(F, G, Rotations(c), q) => q = y
    BY DEF Moves1
  <2>3. \A q \in Queues : ~Lands(F, G, Tokens(c), q)
    BY <1>2 DEF Moves1
  <2>4. ASSUME NEW q \in Queues, NEW i \in Nat, Stay(F, {x}, Tokens(c), q, i)
        PROVE  Rank(c, y) < Rank(c, q)
    <3>1. Older(c, x, 1, q, i)
      BY <1>0, <2>1, <2>4 DEF InOrder, Stay
    <3>2. Rank(c, q) \in Nat /\ Rank(c, y) \in Nat /\ Rank(c, x) = Rank(c, y) + 1
      BY <1>2, RankType
    <3>3. Rank(c, x) < Rank(c, q) \/ Rank(c, x) = Rank(c, q)
      BY <3>1 DEF Older
    <3> QED
      BY <3>2, <3>3
  <2> QED
    BY <2>1, <2>2, <2>3, <2>4, OrderAhead
<1>3. CASE <<x, m>> \notin Tokens(c) /\ <<x, m>> \notin Rotations(c)
  <2>1. \A q \in Queues : ~Lands(F, G, Tokens(c), q) /\ ~Lands(F, G, Rotations(c), q)
    BY <1>3 DEF Moves1
  <2> QED
    BY <2>1, OrderKept
<1> QED
  BY <1>1, <1>2, <1>3

\* The way of c takes the packet from x on to y.
Passes(F, G, c, x, y) ==
  LET m == Head(F[x]) IN
  /\ Moves1(F, G, x, y, Tokens(c)) /\ Moves1(F, G, x, y, Rotations(c))
  /\ \A n \in Packets : G[y] = Append(F[y], n) /\ <<y, n>> \in Rotations(c)
                          => n.body.req.shown = m.body.req.shown
  /\ c # Host /\ <<x, m>> \in Tokens(c) \cup Rotations(c) =>
       Rank(c, y) >= 1 /\ Rank(c, x) = Rank(c, y) + 1

\* No packet is a question of both kinds.
LEMMA MarksDiffer ==
  ASSUME NEW c \in Client, NEW t
  PROVE  ~(t \in Tokens(c) /\ t \in Rotations(c))
BY DEF Tokens, Rotations, OfRoundTrip

LEMMA ClientMoves ==
  ASSUME NEW F \in Lines, NEW G, NEW x \in Queues, NEW y \in Queues, Flow(F, G, {x}),
         NEW c \in Client, x # y, NEW w, NEW v, ClientOK(F, c, w, v), Passes(F, G, c, x, y)
  PROVE  ClientOK(G, c, w, v)
<1>1. /\ Sole(F, Tokens(c)) /\ (w <=> Some(F, Tokens(c)))
      /\ v # Nothing => w \/ Some(F, Rotations(c))
      /\ c # Host => PathOK(F, c, v)
  BY DEF ClientOK
<1>2. Moves1(F, G, x, y, Tokens(c)) /\ Moves1(F, G, x, y, Rotations(c))
  BY DEF Passes
<1>3. Sole(G, Tokens(c))
  BY <1>1, <1>2, SoleMoved
<1>4. (Some(F, Tokens(c)) <=> Some(G, Tokens(c))) /\ (Some(F, Rotations(c)) <=> Some(G, Rotations(c)))
  BY <1>2, SomeMoved
<1>5. ASSUME c # Host PROVE PathOK(G, c, v)
  <2>1. Sole(F, Rotations(c)) /\ InOrder(F, c) /\ ShownIs(F, c, v)
    BY <1>1, <1>5 DEF PathOK
  <2>2. Sole(G, Rotations(c))
    BY <1>2, <2>1, SoleMoved
  <2>3. <<x, Head(F[x])>> \in Tokens(c) \cup Rotations(c) =>
          Rank(c, y) >= 1 /\ Rank(c, x) = Rank(c, y) + 1
    BY <1>5 DEF Passes
  <2>4. ~(<<x, Head(F[x])>> \in Tokens(c) /\ <<x, Head(F[x])>> \in Rotations(c))
    BY MarksDiffer
  <2>5. InOrder(G, c)
    BY <1>1, <1>2, <2>1, <2>3, <2>4, OrderMoved
  <2>6. \A q \in Queues, i \in Nat :
          Stay(F, {x}, Rotations(c), q, i) => F[q][i].body.req.shown = v
    BY <2>1 DEF ShownIs, Stay
  <2>7. ASSUME NEW q \in Queues, NEW n \in Packets,
               G[q] = Append(F[q], n), <<q, n>> \in Rotations(c)
        PROVE  n.body.req.shown = v
    <3>1. Lands(F, G, Rotations(c), q)
      BY <2>7 DEF Lands
    <3>2. q = y /\ <<x, Head(F[x])>> \in Rotations(c)
      BY <1>2, <3>1 DEF Moves1
    <3>3. n.body.req.shown = Head(F[x]).body.req.shown
      BY <2>7, <3>2 DEF Passes
    <3>4. F[x] \in Seq(Packets) /\ F[x] # <<>>
      BY DEF Lines, Flow
    <3>5. Head(F[x]) = F[x][1] /\ 1 \in Nat
      BY <3>4, TailIndex
    <3>6. At(F, Rotations(c), x, 1)
      BY <2>1, <3>2, NoneStays
    <3> QED
      BY <2>1, <3>3, <3>5, <3>6 DEF ShownIs
  <2>8. \A q \in Queues, m \in Packets :
          G[q] = Append(F[q], m) /\ <<q, m>> \in Rotations(c) => m.body.req.shown = v
    BY <2>7
  <2>9. ShownIs(G, c, v)
    <3> DEFINE X == {x}
    <3>1. Flow(F, G, X)
      OBVIOUS
    <3>2. \A q \in Queues, i \in Nat :
            Stay(F, X, Rotations(c), q, i) => F[q][i].body.req.shown = v
      BY <2>6
    <3> HIDE DEF X
    <3> QED
      BY <2>8, <3>1, <3>2, ShownFrom
  <2> QED
    BY <2>2, <2>5, <2>9 DEF PathOK
<1> QED
  BY <1>1, <1>3, <1>4, <1>5 DEF ClientOK

\* The answer to a rotation is handled: it is over unless the wheel has been turned again.
LEMMA ClientHears ==
  ASSUME NEW F \in Lines, NEW G, NEW x \in Queues, Flow(F, G, {x}), NEW c \in Client,
         NEW w, NEW v, NEW u, ClientOK(F, c, w, v), Quiet(F, G, c),
         <<x, Head(F[x])>> \in Rotations(c), u = IF w THEN v ELSE Nothing
  PROVE  ClientOK(G, c, w, u)
<1>1. /\ \A q \in Queues : ~Lands(F, G, Tokens(c), q)
      /\ \A q \in Queues : ~Lands(F, G, Rotations(c), q)
      /\ <<x, Head(F[x])>> \notin Tokens(c)
  BY MarksDiffer DEF Quiet
<1>2. /\ Sole(F, Tokens(c)) /\ (w <=> Some(F, Tokens(c)))
      /\ c # Host => PathOK(F, c, v)
  BY DEF ClientOK
<1>3. Sole(G, Tokens(c))
  BY <1>1, <1>2, SoleKept
<1>4. Some(F, Tokens(c)) => Some(G, Tokens(c))
  BY <1>1, StaysUnless
<1>5. Some(G, Tokens(c)) => Some(F, Tokens(c))
  <2>1. Some(G, Tokens(c)) => \E q \in Queues, i \in Nat : Stay(F, {x}, Tokens(c), q, i)
    BY <1>1, SomeBefore
  <2> QED
    BY <2>1 DEF Some, Stay
<1>6. ASSUME c # Host PROVE PathOK(G, c, u)
  <2>1. Sole(F, Rotations(c)) /\ InOrder(F, c)
    BY <1>2, <1>6 DEF PathOK
  <2>2. Sole(G, Rotations(c))
    BY <1>1, <2>1, SoleKept
  <2>3. InOrder(G, c)
    BY <1>1, <2>1, OrderKept
  <2>4. \A q \in Queues, i \in Nat : ~Stay(F, {x}, Rotations(c), q, i)
    BY <2>1, NoneStays
  <2>5. ~Some(G, Rotations(c))
    BY <1>1, <2>4, SomeBefore
  <2>6. ShownIs(G, c, u)
    BY <2>5 DEF ShownIs, Some
  <2> QED
    BY <2>2, <2>3, <2>6 DEF PathOK
<1> QED
  BY <1>2, <1>3, <1>4, <1>5, <1>6 DEF ClientOK

\* A round trip begins when none is under way.
LEMMA ClientBegins ==
  ASSUME NEW F \in Lines, NEW G, NEW X \in SUBSET Queues, Flow(F, G, X), NEW c \in Client,
         NEW w, NEW v, NEW u, ClientOK(F, c, w, v),
         Lands(F, G, Tokens(c), <<"up", c>>),
         \A q \in Queues : Lands(F, G, Tokens(c), q) => q = <<"up", c>>,
         \A q \in Queues : ~Lands(F, G, Rotations(c), q),
         \A q \in Queues, i \in Nat : ~Stay(F, X, Tokens(c), q, i),
         c # Host => ShownIs(F, c, u)
  PROVE  ClientOK(G, c, TRUE, u)
<1>0. <<"up", c>> \in Queues
  BY DEF Queues
<1>1. Some(G, Tokens(c))
  BY <1>0, Landed
<1>2. Sole(G, Tokens(c))
  BY <1>0, SoleNew
<1>3. ASSUME c # Host PROVE PathOK(G, c, u)
  <2>1. Sole(F, Rotations(c)) /\ InOrder(F, c) /\ ShownIs(F, c, u)
    BY <1>3 DEF ClientOK, PathOK
  <2>2. Sole(G, Rotations(c))
    BY <2>1, SoleKept
  <2>3. \A q \in Queues : Rank(c, q) < Rank(c, <<"up", c>>) \/ q = <<"up", c>>
    <3> SUFFICES ASSUME NEW q \in Queues PROVE Rank(c, q) < Rank(c, <<"up", c>>) \/ q = <<"up", c>>
      OBVIOUS
    <3>1. Rank(c, q) \in Nat /\ Rank(c, q) <= 4 /\ (Rank(c, q) = 4 <=> q = <<"up", c>>)
          /\ Rank(c, <<"up", c>>) = 4
      BY <1>3, RankType
    <3> QED
      BY <3>1
  <2>4. InOrder(G, c)
    BY <1>0, <2>3, OrderBehind
  <2>5. ShownIs(G, c, u)
    BY <2>1, ShownKept
  <2> QED
    BY <2>2, <2>4, <2>5 DEF PathOK
<1> QED
  BY <1>1, <1>2, <1>3 DEF ClientOK

\* The answer to the round trip is handled, and what has been turned since is requested (of
\* these pieces) or the rotation is over.  No rotation of c is under way by then: it would
\* be ahead of that answer.
LEMMA ClientContinues ==
  ASSUME NEW F \in Lines, NEW G, NEW x \in Queues, Flow(F, G, {x}), NEW c \in Client,
         NEW w, NEW v, NEW u, ClientOK(F, c, w, v),
         <<x, Head(F[x])>> \in Tokens(c), c # Host => x = <<"down", c>>,
         \A q \in Queues, i \in Nat : c # Host /\ At(F, Rotations(c), q, i) => Rank(c, q) >= 1,
         \A q \in Queues : ~Lands(F, G, Tokens(c), q),
         \A q \in Queues : Lands(F, G, Rotations(c), q) => q = <<"up", c>>,
         \A q \in Queues, m \in Packets :
           G[q] = Append(F[q], m) /\ <<q, m>> \in Rotations(c) => m.body.req.shown = u,
         u = Nothing \/ Lands(F, G, Rotations(c), <<"up", c>>)
  PROVE  ClientOK(G, c, FALSE, u)
<1>0. <<"up", c>> \in Queues
  BY DEF Queues
<1>1. Sole(F, Tokens(c)) /\ (c # Host => PathOK(F, c, v))
  BY DEF ClientOK
<1>2. At(F, Tokens(c), x, 1) /\ \A q \in Queues, i \in Nat : ~Stay(F, {x}, Tokens(c), q, i)
  BY <1>1, NoneStays
<1>3. Sole(G, Tokens(c))
  BY <1>1, SoleKept
<1>4. ~Some(G, Tokens(c))
  BY <1>2, SomeBefore
<1>5. u # Nothing => Some(G, Rotations(c))
  BY <1>0, Landed
<1>6. ASSUME c # Host PROVE PathOK(G, c, u)
  <2>1. Sole(F, Rotations(c)) /\ InOrder(F, c)
    BY <1>1, <1>6 DEF PathOK
  <2>2. ASSUME NEW q \in Queues, NEW i \in Nat, Stay(F, {x}, Rotations(c), q, i)
        PROVE  FALSE
    <3>1. At(F, Rotations(c), q, i) /\ 1 \in Nat
      BY <2>2 DEF Stay
    <3>2. Older(c, q, i, x, 1)
      BY <1>2, <2>1, <3>1 DEF InOrder
    <3>3. i >= 1
      <4>1. i \in DOMAIN F[q] /\ F[q] \in Seq(Packets)
        BY <3>1 DEF At, Lines
      <4> QED
        BY <4>1, LenProperties
    <3>4. Rank(c, q) < Rank(c, x)
      BY <3>2, <3>3 DEF Older
    <3>5. Rank(c, x) = 1 /\ Rank(c, q) >= 1 /\ Rank(c, q) \in Nat
      BY <1>6, <3>1, RankType
    <3> QED
      BY <3>4, <3>5
  <2>3. Sole(G, Rotations(c))
    BY <1>0, <2>2, SoleNew
  <2>4. InOrder(G, c)
    BY <1>4 DEF InOrder, Some
  <2>5. ShownIs(G, c, u)
    BY <2>2, ShownFrom
  <2> QED
    BY <2>3, <2>4, <2>5 DEF PathOK
<1> QED
  BY <1>3, <1>4, <1>5, <1>6 DEF ClientOK

-----------------------------------------------------------------------------
(* Types.                                                                  *)

LEMMA RequestFields ==
  ASSUME NEW r \in Requests
  PROVE  /\ r.kind \in Moves \cup RotationKinds
         /\ r.sender \in Client /\ r.seq \in Nat /\ r.piece \in Piece
         /\ r.kind \notin Moves => r.by \in Int /\ r.shown \in Turned
BY DEF Requests

LEMMA BodyFields ==
  ASSUME NEW b \in Bodies
  PROVE  /\ b.type \in {"Request", "ChangeRejected", "ChangeAccepted", "GameLoaded",
                        "BeginRotation", "ContinueRotation"}
         /\ b.type \in {"Request", "ChangeRejected", "ChangeAccepted"} => b.req \in Requests
         /\ b.type \in {"ChangeAccepted", "GameLoaded"} => b.seq \in Nat
         /\ b.type = "GameLoaded" => b.game \in Nat \ {0}
BY DEF Bodies

LEMMA BodyMade ==
  /\ \A r \in Requests : [type |-> "Request", req |-> r] \in Bodies
                         /\ [type |-> "ChangeRejected", req |-> r] \in Bodies
  /\ \A r \in Requests, n \in Nat : [type |-> "ChangeAccepted", seq |-> n, req |-> r] \in Bodies
  /\ \A n \in Nat, g \in Nat \ {0} : [type |-> "GameLoaded", seq |-> n, game |-> g] \in Bodies
  /\ [type |-> "BeginRotation"] \in Bodies /\ [type |-> "ContinueRotation"] \in Bodies
BY DEF Bodies

\* Packets that may be sent.
LEMMA MadeForHost ==
  ASSUME NEW c \in Client, NEW b \in Bodies, b.type \in {"Request", "BeginRotation"},
         b.type = "Request" => b.req.sender = c
  PROVE  [route |-> "ClientToHost", to |-> Host, body |-> b] \in FromClient(c)
BY HostAssumption DEF FromClient, UpPackets

LEMMA MadeForAll ==
  ASSUME NEW b \in Bodies, b.type \in {"GameLoaded", "ChangeAccepted"}
  PROVE  [route |-> "ClientToAll", to |-> Host, body |-> b] \in FromClient(Host)
BY HostAssumption DEF FromClient, UpPackets

LEMMA MadeForOne ==
  ASSUME NEW b \in Bodies, b.type \in {"ContinueRotation", "ChangeRejected"},
         NEW c \in Client, b.type = "ChangeRejected" => b.req.sender = c
  PROVE  /\ c # Host =>
              [route |-> "HostToSingleClient", to |-> c, body |-> b] \in FromClient(Host)
         /\ c = Host => [from |-> Host, n |-> 0, body |-> b] \in ToItself(Host)
BY HostAssumption DEF FromClient, UpPackets, ToItself, DownPackets

\* Appending to, and taking from, one of the channels.
LEMMA UploadType ==
  ASSUME ChannelsOK, NEW c \in Client, NEW route, NEW to, NEW b,
         [route |-> route, to |-> to, body |-> b] \in FromClient(c)
  PROVE  UpOK(Upload(c, route, to, b))
<1> DEFINE packet == [route |-> route, to |-> to, body |-> b]
<1>1. packet \in FromClient(c) /\ packet \in UpPackets
  BY DEF FromClient
<1>2. Upload(c, route, to, b) = [up EXCEPT ![c] = Append(@, packet)]
  BY DEF Upload
<1> HIDE DEF packet
<1>3. up \in [Client -> Seq(UpPackets)] /\ \A d \in Client : up[d] \in Seq(FromClient(d))
  BY DEF ChannelsOK, UpOK
<1>4. Append(up[c], packet) \in Seq(UpPackets) /\ Append(up[c], packet) \in Seq(FromClient(c))
  BY <1>1, <1>3, AppendProperties
<1> DEFINE u == [up EXCEPT ![c] = Append(@, packet)]
<1>5. u \in [Client -> Seq(UpPackets)]
  BY <1>3, <1>4
<1>6. \A d \in Client : u[d] \in Seq(FromClient(d))
  BY <1>3, <1>4
<1> QED
  BY <1>2, <1>5, <1>6 DEF UpOK

LEMMA TakenType ==
  ASSUME ChannelsOK, NEW c \in Client
  PROVE  /\ up[c] # <<>> => Head(up[c]) \in FromClient(c) /\ UpOK([up EXCEPT ![c] = Tail(@)])
         /\ down[c] # <<>> => Head(down[c]) \in ToClient(c) /\ DownOK([down EXCEPT ![c] = Tail(@)])
         /\ loopback[c] # <<>> => /\ Head(loopback[c]) \in ToItself(c)
                                  /\ LoopOK([loopback EXCEPT ![c] = Tail(@)])
<1>1. ASSUME up[c] # <<>>
      PROVE  Head(up[c]) \in FromClient(c) /\ UpOK([up EXCEPT ![c] = Tail(@)])
  <2>1. up \in [Client -> Seq(UpPackets)] /\ \A d \in Client : up[d] \in Seq(FromClient(d))
    BY DEF ChannelsOK, UpOK
  <2>2. Head(up[c]) \in FromClient(c) /\ Tail(up[c]) \in Seq(FromClient(c))
        /\ Tail(up[c]) \in Seq(UpPackets)
    BY <1>1, <2>1, HeadTailProperties
  <2> QED
    BY <2>1, <2>2 DEF UpOK
<1>2. ASSUME down[c] # <<>>
      PROVE  Head(down[c]) \in ToClient(c) /\ DownOK([down EXCEPT ![c] = Tail(@)])
  <2>1. down \in [Client -> Seq(DownPackets)] /\ \A d \in Client : down[d] \in Seq(ToClient(d))
    BY DEF ChannelsOK, DownOK
  <2>2. Head(down[c]) \in ToClient(c) /\ Tail(down[c]) \in Seq(ToClient(c))
        /\ Tail(down[c]) \in Seq(DownPackets)
    BY <1>2, <2>1, HeadTailProperties
  <2> QED
    BY <2>1, <2>2 DEF DownOK
<1>3. ASSUME loopback[c] # <<>>
      PROVE  Head(loopback[c]) \in ToItself(c) /\ LoopOK([loopback EXCEPT ![c] = Tail(@)])
  <2>1. loopback \in [Client -> Seq(DownPackets)]
        /\ \A d \in Client : loopback[d] \in Seq(ToItself(d))
    BY DEF ChannelsOK, LoopOK
  <2>2. Head(loopback[c]) \in ToItself(c) /\ Tail(loopback[c]) \in Seq(ToItself(c))
        /\ Tail(loopback[c]) \in Seq(DownPackets)
    BY <1>3, <2>1, HeadTailProperties
  <2> QED
    BY <2>1, <2>2 DEF LoopOK
<1> QED
  BY <1>1, <1>2, <1>3

\* Nobody has hung up.
LEMMA NobodyHungUp ==
  ASSUME ChannelsOK, NEW c \in Client
  PROVE  ~HungUp(c)
<1>1. up[c] \in Seq(FromClient(c))
  BY DEF ChannelsOK, UpOK
<1>2. SUFFICES ASSUME up[c] # <<>> PROVE up[c][Len(up[c])].route # "Disconnect"
  BY DEF HungUp
<1>3. Len(up[c]) \in 1 .. Len(up[c])
  BY <1>1, <1>2, EmptySeq
<1>4. up[c][Len(up[c])] \in FromClient(c)
  BY <1>1, <1>3, ElementOfSeq
<1> QED
  BY <1>4 DEF FromClient, UpPackets

LEMMA DeliverType ==
  ASSUME ChannelsOK, NEW S \in SUBSET Client, NEW from, NEW n, NEW b,
         \A c \in S : [from |-> from, n |-> n, body |-> b] \in ToClient(c)
  PROVE  DownOK(Deliver(S, from, n, b))
<1> DEFINE packet == [from |-> from, n |-> n, body |-> b]
           d == [c \in Client |-> IF c \in S THEN Append(down[c], packet) ELSE down[c]]
<1>1. Deliver(S, from, n, b) = d
  BY NobodyHungUp DEF Deliver
<1>2. \A c \in S : packet \in ToClient(c) /\ packet \in DownPackets
  BY DEF ToClient
<1> HIDE DEF packet
<1>3. down \in [Client -> Seq(DownPackets)] /\ \A c \in Client : down[c] \in Seq(ToClient(c))
  BY DEF ChannelsOK, DownOK
<1>4. \A c \in S : /\ Append(down[c], packet) \in Seq(DownPackets)
                   /\ Append(down[c], packet) \in Seq(ToClient(c))
  BY <1>2, <1>3, AppendProperties
<1>5. d \in [Client -> Seq(DownPackets)]
  BY <1>3, <1>4
<1>6. \A c \in Client : d[c] \in Seq(ToClient(c))
  BY <1>3, <1>4
<1> QED
  BY <1>1, <1>5, <1>6 DEF DownOK

\* What the host answers to one client.
LEMMA SendToOneType ==
  ASSUME ChannelsOK, NEW b \in Bodies, b.type \in {"ContinueRotation", "ChangeRejected"},
         NEW c \in Client, b.type = "ChangeRejected" => b.req.sender = c, SendToOne(Host, c, b)
  PROVE  UpOK(up') /\ LoopOK(loopback')
<1>1. CASE c = Host
  <2> DEFINE packet == [from |-> Host, n |-> 0, body |-> b]
  <2>1. packet \in ToItself(Host) /\ packet \in DownPackets
    BY <1>1, MadeForOne DEF ToItself
  <2>2. loopback' = [loopback EXCEPT ![Host] = Append(@, packet)] /\ up' = up
    BY <1>1 DEF SendToOne
  <2> HIDE DEF packet
  <2>3. loopback \in [Client -> Seq(DownPackets)]
        /\ \A d \in Client : loopback[d] \in Seq(ToItself(d))
    BY DEF ChannelsOK, LoopOK
  <2>4. Append(loopback[Host], packet) \in Seq(DownPackets)
        /\ Append(loopback[Host], packet) \in Seq(ToItself(Host))
    BY <2>1, <2>3, HostAssumption, AppendProperties
  <2>5. loopback' \in [Client -> Seq(DownPackets)]
    BY <2>2, <2>3, <2>4
  <2>6. \A d \in Client : loopback'[d] \in Seq(ToItself(d))
    BY <2>2, <2>3, <2>4
  <2> QED
    BY <2>2, <2>5, <2>6 DEF LoopOK, ChannelsOK
<1>2. CASE c # Host
  <2>1. [route |-> "HostToSingleClient", to |-> c, body |-> b] \in FromClient(Host)
    BY <1>2, MadeForOne
  <2>2. UpOK(Upload(Host, "HostToSingleClient", c, b))
    BY <2>1, HostAssumption, UploadType
  <2> QED
    BY <1>2, <2>2 DEF SendToOne, ChannelsOK
<1> QED
  BY <1>1, <1>2

\* The server moves packets.
LEMMA RelayingType ==
  ASSUME ChannelsOK, NEW c \in Client, Relaying(c)
  PROVE  ChannelsOK'
<1>1. ASSUME NEW route, Receive(c, route)
      PROVE  /\ Head(up[c]) \in FromClient(c) /\ Head(up[c]).route = route /\ UpOK(up')
             /\ Head(up[c]).body \in Bodies /\ Head(up[c]).to \in Client
  <2>1. up[c] # <<>> /\ Head(up[c]).route = route /\ up' = [up EXCEPT ![c] = Tail(@)]
    BY <1>1 DEF Receive
  <2>2. Head(up[c]) \in FromClient(c) /\ UpOK(up')
    BY <2>1, TakenType
  <2> QED
    BY <2>1, <2>2 DEF FromClient, UpPackets
<1> DEFINE m == Head(up[c])
<1>2. CASE OnReliableMessageFromClientToHost(c)
  <2>1. /\ m \in FromClient(c) /\ m.route = "ClientToHost" /\ UpOK(up') /\ m.body \in Bodies
        /\ down' = Deliver({Host}, c, 0, m.body) /\ UNCHANGED <<members, loopback, relayed>>
    BY <1>1, <1>2 DEF OnReliableMessageFromClientToHost, ChannelsOK
  <2>2. [from |-> c, n |-> 0, body |-> m.body] \in ToClient(Host)
    BY <2>1 DEF FromClient, ToClient, DownPackets
  <2>3. DownOK(down')
    BY <2>1, <2>2, DeliverType, HostAssumption
  <2> QED
    BY <2>1, <2>3 DEF ChannelsOK
<1>3. CASE OnReliableMessageFromClientToAll(c)
  <2>1. /\ m \in FromClient(c) /\ m.route = "ClientToAll" /\ UpOK(up') /\ m.body \in Bodies
        /\ down' = Deliver(Client, c, relayed + 1, m.body) /\ UNCHANGED <<members, loopback>>
        /\ relayed + 1 \in Nat /\ relayed' = relayed + 1
    BY <1>1, <1>3 DEF OnReliableMessageFromClientToAll, ChannelsOK
  <2>2. \A d \in Client : [from |-> c, n |-> relayed + 1, body |-> m.body] \in ToClient(d)
    BY <2>1 DEF FromClient, ToClient, DownPackets
  <2>3. DownOK(down')
    BY <2>1, <2>2, DeliverType
  <2> QED
    BY <2>1, <2>3 DEF ChannelsOK
<1>4. CASE OnReliableMessageFromHostToSingleClient(c)
  <2>1. /\ m \in FromClient(c) /\ m.route = "HostToSingleClient" /\ UpOK(up')
        /\ m.body \in Bodies /\ m.to \in Client
        /\ down' = Deliver(Client \cap {m.to}, c, 0, m.body)
        /\ UNCHANGED <<members, loopback, relayed>>
    BY <1>1, <1>4 DEF OnReliableMessageFromHostToSingleClient, ChannelsOK
  <2>2. [from |-> c, n |-> 0, body |-> m.body] \in ToClient(m.to)
    BY <2>1 DEF FromClient, ToClient, DownPackets
  <2>3. DownOK(down')
    BY <2>1, <2>2, DeliverType
  <2> QED
    BY <2>1, <2>3 DEF ChannelsOK
<1>5. CASE OnPlayerDisconnected(c)
  <2>1. Head(up[c]) \in FromClient(c) /\ Head(up[c]).route = "Disconnect"
    BY <1>1, <1>5 DEF OnPlayerDisconnected
  <2> QED
    BY <2>1 DEF FromClient, UpPackets
<1> QED
  BY <1>2, <1>3, <1>4, <1>5 DEF Relaying, ServerStep

LEMMA HandlingType ==
  ASSUME ChannelsOK, NEW c \in Client, NEW body, Handling(c, body)
  PROVE  /\ DownOK(down') /\ LoopOK(loopback')
         /\ body \in Bodies
         /\ body.type = "ChangeRejected" => body.req.sender = c
<1>1. CASE /\ down[c] # <<>> /\ Head(down[c]).body = body
           /\ down' = [down EXCEPT ![c] = Tail(@)] /\ loopback' = loopback
  <2>1. Head(down[c]) \in ToClient(c) /\ DownOK(down')
    BY <1>1, TakenType
  <2>2. LoopOK(loopback')
    BY <1>1 DEF ChannelsOK
  <2> QED
    BY <1>1, <2>1, <2>2 DEF ToClient, DownPackets
<1>2. CASE /\ loopback[c] # <<>> /\ Head(loopback[c]).body = body
           /\ loopback' = [loopback EXCEPT ![c] = Tail(@)] /\ down' = down
  <2>1. Head(loopback[c]) \in ToItself(c) /\ LoopOK(loopback')
    BY <1>2, TakenType
  <2>2. DownOK(down')
    BY <1>2 DEF ChannelsOK
  <2> QED
    BY <1>2, <2>1, <2>2 DEF ToItself, DownPackets
<1> QED
  BY <1>1, <1>2 DEF Handling

\* A piece that is in a stack has a height.
LEMMA HeightType ==
  ASSUME NEW s \in Seq(Piece), NEW p, Contains(s, p)
  PROVE  Height(s, p) \in 1 .. Len(s) /\ s[Height(s, p)] = p /\ Len(s) \in Nat
<1>1. DOMAIN s = 1 .. Len(s) /\ Len(s) \in Nat
  BY LenProperties
<1>2. \E i \in DOMAIN s : s[i] = p
  BY <1>1 DEF Contains
<1> QED
  BY <1>1, <1>2 DEF Height

LEMMA AboveType ==
  ASSUME NEW s \in Seq(Piece), NEW p \in Piece
  PROVE  Above(s, p) \in Seq(Piece) \ {<<>>}
<1>1. CASE Contains(s, p)
  <2> DEFINE i == Height(s, p)
  <2>1. i \in 1 .. Len(s) /\ Len(s) \in Nat
    BY <1>1, HeightType
  <2>2. \A k \in i .. Len(s) : s[k] \in Piece
    BY <2>1, ElementOfSeq
  <2> HIDE DEF i
  <2>3. SubSeq(s, i, Len(s)) \in Seq(Piece) /\ Len(SubSeq(s, i, Len(s))) = Len(s) - i + 1
    BY <2>1, <2>2, SubSeqProperties
  <2>4. Len(SubSeq(s, i, Len(s))) # 0
    BY <2>1, <2>3
  <2>5. SubSeq(s, i, Len(s)) # <<>>
    BY <2>4, EmptySeq
  <2> QED
    BY <1>1, <2>3, <2>5 DEF Above, i
<1>2. CASE ~Contains(s, p)
  <2>1. <<p>> \in Seq(Piece) \ {<<>>}
    OBVIOUS
  <2> QED
    BY <1>2, <2>1 DEF Above
<1> QED
  BY <1>1, <1>2

LEMMA WithoutType ==
  ASSUME NEW s \in Seq(Piece), NEW p \in Piece
  PROVE  Without(s, p) \in Seq(Piece)
<1>1. CASE Contains(s, p)
  <2> DEFINE i == Height(s, p)
  <2>1. i \in 1 .. Len(s) /\ Len(s) \in Nat
    BY <1>1, HeightType
  <2>2. \A k \in 1 .. Len(s) : s[k] \in Piece
    BY ElementOfSeq
  <2> HIDE DEF i
  <2>3. SubSeq(s, 1, i - 1) \in Seq(Piece)
    <3>1. i - 1 \in Int /\ \A k \in 1 .. i - 1 : s[k] \in Piece
      BY <2>1, <2>2
    <3> QED
      BY <3>1, SubSeqProperties
  <2>4. SubSeq(s, i + 1, Len(s)) \in Seq(Piece)
    <3>1. i + 1 \in Int /\ Len(s) \in Int /\ \A k \in i + 1 .. Len(s) : s[k] \in Piece
      BY <2>1, <2>2
    <3> QED
      BY <3>1, SubSeqProperties
  <2>5. SubSeq(s, 1, i - 1) \o SubSeq(s, i + 1, Len(s)) \in Seq(Piece)
    BY <2>3, <2>4, ConcatProperties
  <2> QED
    BY <1>1, <2>5 DEF Without, RemoveAt, i
<1>2. CASE ~Contains(s, p)
  BY <1>2 DEF Without
<1> QED
  BY <1>1, <1>2

LEMMA GroupType ==
  ASSUME TypeOK, NEW c \in Client, NEW g \in Group(c)
  PROVE  g \in Seq(Piece) \ {<<>>}
<1>1. stack[c] \in Seq(Piece)
  BY DEF TypeOK
<1>2. \A p \in Piece : Above(stack[c], p) \in Seq(Piece) \ {<<>>} /\ <<p>> \in Seq(Piece) \ {<<>>}
  <2>1. \A p \in Piece : <<p>> \in Seq(Piece) \ {<<>>}
    OBVIOUS
  <2> QED
    BY <1>1, <2>1, AboveType
<1> QED
  BY <1>2 DEF Group

LEMMA ElementsType ==
  ASSUME NEW s \in Seq(Piece)
  PROVE  ToSet(s) \subseteq Piece
BY LenProperties DEF ToSet

\* A piece turns within a full turn.
LEMMA RotateType ==
  ASSUME TypeOK, NEW c \in Client, NEW g, NEW d \in Int, Rotate(c, g, d)
  PROVE  angle' \in [Client -> [Piece -> 0 .. Turn - 1]]
<1>1. CASE g.game # game[c]
  BY <1>1 DEF Rotate, TypeOK
<1>2. CASE g.game = game[c]
  <2> DEFINE turned == [p \in Piece |-> IF Contains(g.pieces, p) THEN (angle[c][p] + d) % Turn
                                        ELSE angle[c][p]]
  <2>1. Turn \in Nat /\ Turn > 0
    BY RotationAssumption
  <2>2. \A p \in Piece : angle[c][p] \in 0 .. Turn - 1
    BY DEF TypeOK
  <2>3. \A p \in Piece : (angle[c][p] + d) % Turn \in 0 .. Turn - 1
    BY <2>1, <2>2
  <2>4. turned \in [Piece -> 0 .. Turn - 1]
    BY <2>2, <2>3
  <2>5. angle' = [angle EXCEPT ![c] = turned]
    BY <1>2 DEF Rotate
  <2> HIDE DEF turned
  <2> QED
    BY <2>4, <2>5 DEF TypeOK
<1> QED
  BY <1>1, <1>2

\* The part of the invariant that is about types.
TypeInv == TypeOK /\ ChannelsOK /\ WheelOK

LEMMA NothingApart == Nothing \notin Turned
BY DEF Nothing, Turned

\* What is being rotated is some pieces.
LEMMA RotatingType ==
  ASSUME WheelOK, NEW c \in Client
  PROVE  /\ rotating[c] \in Turned \/ rotating[c] = Nothing
         /\ rotating[c].pieces \in Seq(Piece)
         /\ waiting[c] => rotating[c] \in Turned
<1>1. rotating[c] \in Turned \/ rotating[c] = Nothing
  BY DEF WheelOK
<1>2. Nothing.pieces \in Seq(Piece)
  BY DEF Nothing
<1>3. \A g \in Turned : g.pieces \in Seq(Piece)
  BY DEF Turned
<1> QED
  BY <1>1, <1>2, <1>3 DEF WheelOK

LEMMA WheelType ==
  ASSUME TypeInv, NEW c \in Client, NEW pieces \in Group(c), NEW d \in {1, -1},
         HandleMouseWheel(c, [game |-> game[c], pieces |-> pieces], d)
  PROVE  TypeInv'
<1> DEFINE g == [game |-> game[c], pieces |-> pieces]
<1>1. g \in Turned /\ g \in Groups
  <2>1. pieces \in Seq(Piece) \ {<<>>}
    BY GroupType DEF TypeInv
  <2>2. game[c] \in Nat \ {0}
    BY DEF TypeInv, WheelOK
  <2> QED
    BY <2>1, <2>2 DEF Turned, Groups
<1>2. HandleMouseWheel(c, g, d)
  OBVIOUS
<1> HIDE DEF g
<1>3. d \in Int
  OBVIOUS
<1>4. angle' \in [Client -> [Piece -> 0 .. Turn - 1]]
  BY <1>2, <1>3, RotateType DEF HandleMouseWheel, TypeInv
<1>5. UpOK(up')
  <2>1. [route |-> "ClientToHost", to |-> Host, body |-> [type |-> "BeginRotation"]] \in FromClient(c)
    BY BodyMade, MadeForHost
  <2>3. UpOK(Upload(c, "ClientToHost", Host, [type |-> "BeginRotation"])) /\ UpOK(up)
    BY <2>1, UploadType DEF TypeInv, ChannelsOK
  <2> QED
    BY <1>2, <2>3 DEF HandleMouseWheel, Begin, AskToBegin
<1>6. ChannelsOK'
  BY <1>2, <1>5 DEF HandleMouseWheel, TypeInv, ChannelsOK
<1>7. /\ rotating' = [rotating EXCEPT ![c] = g] /\ waiting' = [waiting EXCEPT ![c] = TRUE]
      /\ increments' = [increments EXCEPT ![c] = @ + d]
      /\ inProgress' = [inProgress EXCEPT ![c] = waiting[c]]
      /\ events < MaxEvents /\ events' = events + 1
      /\ UNCHANGED <<seq, game, stack, failed, torn>>
  BY <1>2 DEF HandleMouseWheel, Begin
<1>8. TypeOK'
  <2>1. events' \in 0 .. MaxEvents
    BY <1>7, RotationAssumption DEF TypeInv, TypeOK
  <2> QED
    BY <1>1, <1>3, <1>4, <1>7, <2>1 DEF TypeInv, TypeOK
<1>9. WheelOK'
  <2>1. /\ rotating \in [Client -> Turned \cup {Nothing}] /\ waiting \in [Client -> BOOLEAN]
        /\ inProgress \in [Client -> BOOLEAN] /\ increments \in [Client -> Int]
    BY DEF TypeInv, WheelOK, TypeOK
  <2> QED
    BY <1>1, <1>7, <2>1, NothingApart DEF TypeInv, WheelOK
<1> QED
  BY <1>6, <1>8, <1>9 DEF TypeInv

LEMMA MoveAskedType ==
  ASSUME TypeInv, NEW c \in Client, NEW p \in Piece, NEW kind \in Moves, AskToMove(c, p, kind)
  PROVE  TypeInv'
<1> DEFINE r == [kind |-> kind, sender |-> c, seq |-> seq[c], piece |-> p]
<1>1. r \in Requests /\ r.sender = c
  <2>1. seq[c] \in Nat
    BY DEF TypeInv, TypeOK
  <2> QED
    BY <2>1 DEF Requests
<1>2. up' = Upload(c, "ClientToHost", Host, [type |-> "Request", req |-> r])
  BY DEF AskToMove, Ask
<1> HIDE DEF r
<1>3. [type |-> "Request", req |-> r] \in Bodies
  BY <1>1, BodyMade
<1>4. [route |-> "ClientToHost", to |-> Host, body |-> [type |-> "Request", req |-> r]] \in FromClient(c)
  BY <1>1, <1>3, MadeForHost
<1>5. UpOK(up')
  BY <1>2, <1>4, UploadType DEF TypeInv
<1>6. events' \in 0 .. MaxEvents
  BY RotationAssumption DEF TypeInv, TypeOK, AskToMove
<1> QED
  BY <1>5, <1>6 DEF AskToMove, tableVars, idleStateVars, TypeInv, TypeOK, ChannelsOK, WheelOK

LEMMA NewGameType ==
  ASSUME TypeInv, NEW c \in Client, NEW n \in Nat, NEW g \in Nat \ {0}, NewGame(c, n, g)
  PROVE  /\ seq' \in [Client -> Nat] /\ game' \in [Client -> Nat \ {0}] /\ game' \in [Client -> Nat]
         /\ stack' \in [Client -> Seq(Piece)] /\ angle' \in [Client -> [Piece -> 0 .. Turn - 1]]
<1>1. <<>> \in Seq(Piece) /\ [p \in Piece |-> 0] \in [Piece -> 0 .. Turn - 1]
  BY RotationAssumption
<1>2. /\ seq \in [Client -> Nat] /\ game \in [Client -> Nat \ {0}] /\ stack \in [Client -> Seq(Piece)]
      /\ angle \in [Client -> [Piece -> 0 .. Turn - 1]]
  BY DEF TypeInv, TypeOK, WheelOK
<1>3. seq' \in [Client -> Nat] /\ game' \in [Client -> Nat \ {0}] /\ game' \in [Client -> Nat]
  BY <1>2 DEF NewGame
<1>4. stack' \in [Client -> Seq(Piece)]
  BY <1>1, <1>2 DEF NewGame
<1>5. angle' \in [Client -> [Piece -> 0 .. Turn - 1]]
  BY <1>1, <1>2 DEF NewGame
<1> QED
  BY <1>3, <1>4, <1>5

LEMMA LoadType ==
  ASSUME TypeInv, LoadGame
  PROVE  TypeInv'
<1>1. seq[Host] + 1 \in Nat /\ game[Host] + 1 \in Nat \ {0}
  BY HostAssumption DEF TypeInv, TypeOK, WheelOK
<1> DEFINE b == [type |-> "GameLoaded", seq |-> seq[Host] + 1, game |-> game[Host] + 1]
<1>2. b \in Bodies /\ b.type = "GameLoaded"
  BY <1>1, BodyMade
<1>3. up' = Upload(Host, "ClientToAll", Host, b) /\ NewGame(Host, seq[Host] + 1, game[Host] + 1)
  BY DEF LoadGame
<1> HIDE DEF b
<1>4. [route |-> "ClientToAll", to |-> Host, body |-> b] \in FromClient(Host)
  BY <1>2, MadeForAll
<1>5. UpOK(up')
  BY <1>3, <1>4, UploadType, HostAssumption DEF TypeInv
<1>6. /\ seq' \in [Client -> Nat] /\ game' \in [Client -> Nat \ {0}] /\ game' \in [Client -> Nat]
      /\ stack' \in [Client -> Seq(Piece)] /\ angle' \in [Client -> [Piece -> 0 .. Turn - 1]]
  BY <1>1, <1>3, HostAssumption, NewGameType
<1>7. events' \in 0 .. MaxEvents /\ torn' \subseteq Piece
  BY RotationAssumption DEF TypeInv, TypeOK, LoadGame
<1> QED
  BY <1>5, <1>6, <1>7 DEF LoadGame, idleStateVars, TypeInv, TypeOK, ChannelsOK, WheelOK

\* The packet that the host handles.
LEMMA HostPacket ==
  ASSUME ChannelsOK, HandleAtHost
  PROVE  LET m == Head(down[Host]) IN
         /\ down[Host] # <<>> /\ down' = [down EXCEPT ![Host] = Tail(@)] /\ DownOK(down')
         /\ m \in ToClient(Host) /\ m.from \in Client /\ m.body \in Bodies
         /\ m.body.type = "Request" => m.body.req \in Requests /\ m.body.req.sender = m.from
<1>1. down[Host] # <<>> /\ down' = [down EXCEPT ![Host] = Tail(@)]
  BY DEF HandleAtHost
<1>2. Head(down[Host]) \in ToClient(Host) /\ DownOK(down')
  BY <1>1, TakenType, HostAssumption
<1>3. Head(down[Host]).from \in Client /\ Head(down[Host]).body \in Bodies
      /\ (Head(down[Host]).body.type = "Request" => Head(down[Host]).body.req.sender = Head(down[Host]).from)
  BY <1>2 DEF ToClient, DownPackets
<1> QED
  BY <1>1, <1>2, <1>3, BodyFields

\* What he does with it.
HostContinues(m) ==
  m.body.type = "BeginRotation" /\ SendToOne(Host, m.from, [type |-> "ContinueRotation"]) /\ seq' = seq
HostRejects(m) ==
  /\ m.body.type = "Request"
  /\ SendToOne(Host, m.from, [type |-> "ChangeRejected", req |-> m.body.req]) /\ seq' = seq
HostAccepts(m) ==
  /\ m.body.type = "Request"
  /\ seq' = [seq EXCEPT ![Host] = @ + 1] /\ loopback' = loopback
  /\ up' = Upload(Host, "ClientToAll", Host,
             [type |-> "ChangeAccepted", seq |-> seq[Host] + 1, req |-> m.body.req])

LEMMA HostCases ==
  ASSUME HandleAtHost
  PROVE  LET m == Head(down[Host]) IN HostContinues(m) \/ HostRejects(m) \/ HostAccepts(m)
BY DEF HandleAtHost, HostContinues, HostRejects, HostAccepts

LEMMA HostType ==
  ASSUME TypeInv, HandleAtHost
  PROVE  TypeInv'
<1> DEFINE m == Head(down[Host])
<1>0. ChannelsOK
  BY DEF TypeInv
<1>1. /\ DownOK(down') /\ m.from \in Client /\ m.body \in Bodies
      /\ m.body.type = "Request" => m.body.req \in Requests /\ m.body.req.sender = m.from
  BY <1>0, HostPacket
<1>2. HostContinues(m) \/ HostRejects(m) \/ HostAccepts(m)
  BY HostCases
<1> HIDE DEF m
<1>3. UpOK(up') /\ LoopOK(loopback') /\ seq' \in [Client -> Nat]
  <2>1. CASE HostContinues(m)
    <3>1. [type |-> "ContinueRotation"] \in Bodies
      BY BodyMade
    <3>2. UpOK(up') /\ LoopOK(loopback')
      BY <1>0, <1>1, <2>1, <3>1, SendToOneType DEF HostContinues
    <3> QED
      BY <2>1, <3>2 DEF HostContinues, TypeInv, TypeOK
  <2>2. CASE HostRejects(m)
    <3> DEFINE b == [type |-> "ChangeRejected", req |-> m.body.req]
    <3>1. b \in Bodies /\ b.type = "ChangeRejected" /\ b.req.sender = m.from
      BY <1>1, <2>2, BodyMade DEF HostRejects
    <3>2. SendToOne(Host, m.from, b) /\ seq' = seq
      BY <2>2 DEF HostRejects
    <3> HIDE DEF b
    <3>3. UpOK(up') /\ LoopOK(loopback')
      BY <1>0, <1>1, <3>1, <3>2, SendToOneType
    <3> QED
      BY <3>2, <3>3 DEF TypeInv, TypeOK
  <2>3. CASE HostAccepts(m)
    <3> DEFINE b == [type |-> "ChangeAccepted", seq |-> seq[Host] + 1, req |-> m.body.req]
    <3>1. seq[Host] + 1 \in Nat
      BY HostAssumption DEF TypeInv, TypeOK
    <3>2. b \in Bodies /\ b.type = "ChangeAccepted"
      BY <1>1, <2>3, <3>1, BodyMade DEF HostAccepts
    <3>3. up' = Upload(Host, "ClientToAll", Host, b) /\ loopback' = loopback
          /\ seq' = [seq EXCEPT ![Host] = @ + 1]
      BY <2>3 DEF HostAccepts
    <3> HIDE DEF b
    <3>4. [route |-> "ClientToAll", to |-> Host, body |-> b] \in FromClient(Host)
      BY <3>2, MadeForAll
    <3>5. UpOK(up')
      BY <1>0, <3>3, <3>4, HostAssumption, UploadType
    <3> QED
      BY <3>1, <3>3, <3>5 DEF TypeInv, TypeOK, ChannelsOK
  <2> QED
    BY <1>2, <2>1, <2>2, <2>3
<1> QED
  BY <1>1, <1>3 DEF HandleAtHost, idleStateVars, TypeInv, TypeOK, ChannelsOK, WheelOK

\* The request for what has been turned since.
Wanted(c) ==
  [kind |-> IF Len(rotating[c].pieces) = 1 THEN "RotatePiece" ELSE "RotateStack",
   sender |-> c, seq |-> seq[c], piece |-> Head(rotating[c].pieces),
   by |-> increments[c], shown |-> rotating[c]]

LEMMA WantedType ==
  ASSUME TypeInv, NEW c \in Client, increments[c] # 0
  PROVE  /\ Wanted(c) \in Requests /\ Wanted(c).sender = c /\ Wanted(c).shown = rotating[c]
         /\ Wanted(c).kind \notin Moves
<1>1. waiting[c] /\ seq[c] \in Nat /\ increments[c] \in Int
  BY DEF TypeInv, TypeOK, WheelOK
<1>2. rotating[c] \in Turned
  BY <1>1, RotatingType DEF TypeInv
<1>3. Head(rotating[c].pieces) \in Piece
  <2>1. rotating[c].pieces \in Seq(Piece) /\ rotating[c].pieces # <<>>
    BY <1>2 DEF Turned
  <2> QED
    BY <2>1, HeadTailProperties
<1> DEFINE kind == IF Len(rotating[c].pieces) = 1 THEN "RotatePiece" ELSE "RotateStack"
           p == Head(rotating[c].pieces)
<1>4. kind \in RotationKinds /\ kind \notin Moves
  BY DEF RotationKinds, Moves
<1>5. Wanted(c) = [kind |-> kind, sender |-> c, seq |-> seq[c], piece |-> p,
                   by |-> increments[c], shown |-> rotating[c]]
  BY DEF Wanted
<1> HIDE DEF kind, p
<1> QED
  BY <1>1, <1>2, <1>3, <1>4, <1>5 DEF Requests, p

\* How a program goes on when the round trip is over.
BeginsAgain(c) == inProgress[c] /\ AskToBegin(c) /\ UNCHANGED <<rotating, increments>>
AsksForIt(c) ==
  /\ ~inProgress[c] /\ increments[c] # 0
  /\ Ask(c, Wanted(c))
  /\ increments' = [increments EXCEPT ![c] = 0] /\ rotating' = rotating
Rests(c) ==
  /\ ~inProgress[c] /\ increments[c] = 0
  /\ rotating' = [rotating EXCEPT ![c] = Nothing] /\ UNCHANGED <<up, increments>>

LEMMA ContinueCases ==
  ASSUME NEW c \in Client, ContinueRotation(c)
  PROVE  /\ Handling(c, [type |-> "ContinueRotation"])
         /\ waiting' = [waiting EXCEPT ![c] = inProgress[c]]
         /\ inProgress' = [inProgress EXCEPT ![c] = FALSE]
         /\ UNCHANGED <<members, relayed, tableVars, failed, events, torn>>
         /\ BeginsAgain(c) \/ AsksForIt(c) \/ Rests(c)
BY DEF ContinueRotation, BeginsAgain, AsksForIt, Wanted, Rests

LEMMA BeginUpload ==
  ASSUME ChannelsOK, NEW c \in Client, AskToBegin(c)
  PROVE  UpOK(up')
<1>1. [route |-> "ClientToHost", to |-> Host, body |-> [type |-> "BeginRotation"]] \in FromClient(c)
  BY BodyMade, MadeForHost
<1> QED
  BY <1>1, UploadType DEF AskToBegin

LEMMA WantedUpload ==
  ASSUME TypeInv, NEW c \in Client, increments[c] # 0, Ask(c, Wanted(c))
  PROVE  UpOK(up')
<1> DEFINE r == Wanted(c)
<1>1. r \in Requests /\ r.sender = c
  BY WantedType
<1>2. up' = Upload(c, "ClientToHost", Host, [type |-> "Request", req |-> r])
  BY DEF Ask
<1> HIDE DEF r
<1>3. [type |-> "Request", req |-> r] \in Bodies
  BY <1>1, BodyMade
<1>4. [route |-> "ClientToHost", to |-> Host, body |-> [type |-> "Request", req |-> r]] \in FromClient(c)
  BY <1>1, <1>3, MadeForHost
<1> QED
  BY <1>2, <1>4, UploadType DEF TypeInv

LEMMA ContinueType ==
  ASSUME TypeInv, NEW c \in Client, ContinueRotation(c)
  PROVE  TypeInv'
<1>1. DownOK(down') /\ LoopOK(loopback')
  BY ContinueCases, HandlingType DEF TypeInv
<1>2. UpOK(up')
  <2>1. BeginsAgain(c) => UpOK(up')
    BY BeginUpload DEF BeginsAgain, TypeInv
  <2>2. AsksForIt(c) => UpOK(up')
    BY WantedUpload DEF AsksForIt
  <2>3. Rests(c) => UpOK(up')
    BY DEF Rests, TypeInv, ChannelsOK
  <2> QED
    BY <2>1, <2>2, <2>3, ContinueCases
<1>3. /\ waiting' = [waiting EXCEPT ![c] = inProgress[c]]
      /\ inProgress' = [inProgress EXCEPT ![c] = FALSE]
      /\ UNCHANGED <<members, relayed, tableVars, failed, events, torn>>
      /\ BeginsAgain(c) \/ AsksForIt(c) \/ Rests(c)
  BY ContinueCases
<1>4. ChannelsOK'
  BY <1>1, <1>2, <1>3 DEF TypeInv, ChannelsOK
<1>5. /\ rotating \in [Client -> Turned \cup {Nothing}] /\ rotating \in [Client -> Groups]
      /\ waiting \in [Client -> BOOLEAN]
      /\ inProgress \in [Client -> BOOLEAN] /\ increments \in [Client -> Int]
  BY DEF TypeInv, TypeOK, WheelOK
<1>6. Nothing \in Groups
  BY DEF Nothing, Groups
<1>7. /\ rotating' \in [Client -> Turned \cup {Nothing}] /\ rotating' \in [Client -> Groups]
      /\ waiting' \in [Client -> BOOLEAN]
      /\ inProgress' \in [Client -> BOOLEAN] /\ increments' \in [Client -> Int]
  <2>1. /\ rotating' = rotating \/ rotating' = [rotating EXCEPT ![c] = Nothing]
        /\ increments' = increments \/ increments' = [increments EXCEPT ![c] = 0]
    BY <1>3 DEF BeginsAgain, AsksForIt, Rests
  <2>2. rotating' \in [Client -> Turned \cup {Nothing}] /\ rotating' \in [Client -> Groups]
    BY <1>5, <1>6, <2>1
  <2>3. increments' \in [Client -> Int]
    BY <1>5, <2>1
  <2> QED
    BY <1>3, <1>5, <2>2, <2>3
<1>8. TypeOK'
  BY <1>3, <1>7 DEF tableVars, TypeInv, TypeOK
<1>9. ASSUME NEW e \in Client
      PROVE  /\ (increments[e]' # 0 \/ inProgress[e]') => waiting[e]'
             /\ waiting[e]' => rotating[e]' # Nothing
  <2>1. /\ (increments[e] # 0 \/ inProgress[e]) => waiting[e]
        /\ waiting[e] => rotating[e] # Nothing
    BY DEF TypeInv, WheelOK
  <2>2. waiting'[e] = IF e = c THEN inProgress[c] ELSE waiting[e]
    BY <1>3, <1>5
  <2>3. inProgress'[e] = IF e = c THEN FALSE ELSE inProgress[e]
    BY <1>3, <1>5
  <2>4. CASE BeginsAgain(c)
    BY <2>1, <2>2, <2>3, <2>4 DEF BeginsAgain
  <2>5. CASE AsksForIt(c)
    <3>1. increments'[e] = IF e = c THEN 0 ELSE increments[e]
      BY <1>5, <2>5 DEF AsksForIt
    <3> QED
      BY <2>1, <2>2, <2>3, <2>5, <3>1 DEF AsksForIt
  <2>6. CASE Rests(c)
    <3>1. rotating'[e] = IF e = c THEN Nothing ELSE rotating[e]
      BY <1>5, <2>6 DEF Rests
    <3> QED
      BY <2>1, <2>2, <2>3, <2>6, <3>1 DEF Rests
  <2> QED
    BY <1>3, <2>4, <2>5, <2>6
<1>10. WheelOK'
  BY <1>3, <1>7, <1>9 DEF tableVars, TypeInv, WheelOK
<1> QED
  BY <1>4, <1>8, <1>10 DEF TypeInv

\* A rotation is over.
LEMMA OverType ==
  ASSUME TypeInv, NEW c \in Client, RotationOver(c), UNCHANGED <<increments, inProgress, waiting>>
  PROVE  /\ rotating' \in [Client -> Turned \cup {Nothing}] /\ rotating' \in [Client -> Groups]
         /\ \A e \in Client : /\ (increments'[e] # 0 \/ inProgress'[e]) => waiting'[e]
                              /\ waiting'[e] => rotating'[e] # Nothing
<1>1. /\ rotating \in [Client -> Turned \cup {Nothing}] /\ rotating \in [Client -> Groups]
      /\ \A e \in Client : /\ (increments[e] # 0 \/ inProgress[e]) => waiting[e]
                           /\ waiting[e] => rotating[e] # Nothing
  BY DEF TypeInv, TypeOK, WheelOK
<1>2. Nothing \in Groups
  BY DEF Nothing, Groups
<1>3. rotating' = [rotating EXCEPT ![c] = IF inProgress[c] \/ waiting[c] THEN @ ELSE Nothing]
  BY DEF RotationOver
<1>4. rotating' \in [Client -> Turned \cup {Nothing}] /\ rotating' \in [Client -> Groups]
  BY <1>1, <1>2, <1>3
<1>5. \A e \in Client : rotating'[e] = IF e = c /\ ~(inProgress[c] \/ waiting[c]) THEN Nothing
                                       ELSE rotating[e]
  BY <1>1, <1>3
<1> QED
  BY <1>1, <1>4, <1>5

\* The numbers that programs take over.
LEMMA SeqTaken ==
  ASSUME TypeInv, NEW c \in Client, NEW n \in Nat,
         seq' = [seq EXCEPT ![c] = IF c = Host THEN @ ELSE n]
  PROVE  seq' \in [Client -> Nat]
BY DEF TypeInv, TypeOK

LEMMA RotationType ==
  ASSUME TypeInv, NEW c \in Client, HandleRotation(c)
  PROVE  TypeInv'
<1>1. PICK body \in Incoming(c) :
        /\ body.type = "ChangeAccepted" /\ body.req.kind \notin Moves
        /\ Handling(c, body)
        /\ seq' = [seq EXCEPT ![c] = IF c = Host THEN @ ELSE body.seq]
        /\ IF body.req.sender = c
           THEN /\ RotationOver(c)
                /\ angle' = angle
                /\ torn' = IF Target(c, body.req) = body.req.shown THEN torn
                           ELSE torn \cup ToSet(Target(c, body.req).pieces)
                                     \cup ToSet(body.req.shown.pieces)
           ELSE Rotate(c, Target(c, body.req), body.req.by) /\ UNCHANGED <<rotating, torn>>
        /\ UNCHANGED <<members, up, relayed, game, stack, increments, inProgress, waiting, failed, events>>
  BY DEF HandleRotation
<1>2. DownOK(down') /\ LoopOK(loopback') /\ body \in Bodies
  BY <1>1, HandlingType DEF TypeInv
<1>3. body.req \in Requests /\ body.seq \in Nat
  BY <1>1, <1>2, BodyFields
<1>4. body.req.piece \in Piece /\ body.req.by \in Int /\ body.req.shown \in Turned
  BY <1>1, <1>3, RequestFields
<1>5. ChannelsOK'
  BY <1>1, <1>2 DEF TypeInv, ChannelsOK
<1>6. seq' \in [Client -> Nat]
  BY <1>1, <1>3, SeqTaken
<1>7. angle' \in [Client -> [Piece -> 0 .. Turn - 1]]
  <2>1. CASE body.req.sender = c
    BY <1>1, <2>1 DEF TypeInv, TypeOK
  <2>2. CASE body.req.sender # c
    BY <1>1, <1>4, <2>2, RotateType DEF TypeInv
  <2> QED
    BY <2>1, <2>2
<1>8. torn' \subseteq Piece
  <2>1. Target(c, body.req).pieces \in Seq(Piece)
    <3>1. stack[c] \in Seq(Piece)
      BY DEF TypeInv, TypeOK
    <3>2. Above(stack[c], body.req.piece) \in Seq(Piece)
      BY <1>4, <3>1, AboveType
    <3>3. <<body.req.piece>> \in Seq(Piece)
      BY <1>4
    <3> QED
      BY <3>2, <3>3 DEF Target
  <2>2. body.req.shown.pieces \in Seq(Piece)
    BY <1>4 DEF Turned
  <2>3. ToSet(Target(c, body.req).pieces) \subseteq Piece /\ ToSet(body.req.shown.pieces) \subseteq Piece
    BY <2>1, <2>2, ElementsType
  <2> QED
    BY <1>1, <2>3 DEF TypeInv, TypeOK
<1>9. /\ rotating' \in [Client -> Turned \cup {Nothing}] /\ rotating' \in [Client -> Groups]
      /\ \A e \in Client : /\ (increments'[e] # 0 \/ inProgress'[e]) => waiting'[e]
                           /\ waiting'[e] => rotating'[e] # Nothing
  <2>1. CASE body.req.sender = c
    BY <1>1, <2>1, OverType
  <2>2. CASE body.req.sender # c
    BY <1>1, <2>2 DEF TypeInv, TypeOK, WheelOK
  <2> QED
    BY <2>1, <2>2
<1>10. TypeOK'
  BY <1>1, <1>6, <1>7, <1>8, <1>9 DEF TypeInv, TypeOK
<1>11. WheelOK'
  BY <1>1, <1>9 DEF TypeInv, WheelOK
<1> QED
  BY <1>5, <1>10, <1>11 DEF TypeInv

LEMMA MoveType ==
  ASSUME TypeInv, NEW c \in Client, HandleMove(c)
  PROVE  TypeInv'
<1>1. PICK body \in Incoming(c) :
        /\ body.type = "ChangeAccepted" /\ body.req.kind \in Moves
        /\ Handling(c, body)
        /\ seq' = [seq EXCEPT ![c] = IF c = Host THEN @ ELSE body.seq]
        /\ LET rest == Without(stack[c], body.req.piece)
           IN  stack' = [stack EXCEPT ![c] =
                 IF body.req.kind = "beside" THEN rest ELSE Append(rest, body.req.piece)]
        /\ UNCHANGED <<members, up, relayed, game, angle, idleStateVars, failed, events, torn>>
  BY DEF HandleMove
<1>2. DownOK(down') /\ LoopOK(loopback') /\ body \in Bodies
  BY <1>1, HandlingType DEF TypeInv
<1>3. body.req \in Requests /\ body.seq \in Nat
  BY <1>1, <1>2, BodyFields
<1>4. body.req.piece \in Piece
  BY <1>3, RequestFields
<1>5. seq' \in [Client -> Nat]
  BY <1>1, <1>3, SeqTaken
<1>6. stack' \in [Client -> Seq(Piece)]
  <2>1. stack \in [Client -> Seq(Piece)]
    BY DEF TypeInv, TypeOK
  <2>2. Without(stack[c], body.req.piece) \in Seq(Piece)
    BY <1>4, <2>1, WithoutType
  <2>3. Append(Without(stack[c], body.req.piece), body.req.piece) \in Seq(Piece)
    BY <1>4, <2>2, AppendProperties
  <2> QED
    BY <1>1, <2>1, <2>2, <2>3
<1> QED
  BY <1>1, <1>2, <1>5, <1>6 DEF idleStateVars, TypeInv, TypeOK, ChannelsOK, WheelOK

LEMMA RejectedType ==
  ASSUME TypeInv, NEW c \in Client, HandleChangeRejected(c)
  PROVE  TypeInv'
<1>1. PICK body \in Incoming(c) :
        /\ body.type = "ChangeRejected"
        /\ Handling(c, body)
        /\ IF body.req.kind \in Moves
           THEN UNCHANGED <<angle, rotating, failed, torn>>
           ELSE /\ RejectRotation(c, body.req.by)
                /\ torn' = IF c # Host \/ rotating[c] = body.req.shown THEN torn
                           ELSE torn \cup ToSet(rotating[c].pieces) \cup ToSet(body.req.shown.pieces)
        /\ UNCHANGED <<members, up, relayed, seq, game, stack, increments, inProgress, waiting, events>>
  BY DEF HandleChangeRejected
<1>2. DownOK(down') /\ LoopOK(loopback') /\ body \in Bodies
  BY <1>1, HandlingType DEF TypeInv
<1>3. body.req \in Requests
  BY <1>1, <1>2, BodyFields
<1>4. ChannelsOK'
  BY <1>1, <1>2 DEF TypeInv, ChannelsOK
<1>5. CASE body.req.kind \in Moves
  BY <1>1, <1>4, <1>5 DEF TypeInv, TypeOK, WheelOK
<1>6. CASE body.req.kind \notin Moves
  <2>1. /\ Rotate(c, rotating[c], -body.req.by) /\ RotationOver(c)
        /\ failed' = IF rotating[c] = Nothing THEN failed \cup {c} ELSE failed
        /\ torn' = IF c # Host \/ rotating[c] = body.req.shown THEN torn
                   ELSE torn \cup ToSet(rotating[c].pieces) \cup ToSet(body.req.shown.pieces)
    BY <1>1, <1>6 DEF RejectRotation
  <2>2. body.req.by \in Int /\ -body.req.by \in Int /\ body.req.shown \in Turned
    BY <1>3, <1>6, RequestFields
  <2>3. angle' \in [Client -> [Piece -> 0 .. Turn - 1]]
    BY <2>1, <2>2, RotateType DEF TypeInv
  <2>4. body.req.shown.pieces \in Seq(Piece) /\ rotating[c].pieces \in Seq(Piece)
    BY <2>2, RotatingType DEF Turned, TypeInv
  <2>5. ToSet(rotating[c].pieces) \subseteq Piece /\ ToSet(body.req.shown.pieces) \subseteq Piece
    BY <2>4, ElementsType
  <2>6. torn' \subseteq Piece /\ failed' \subseteq Client
    BY <2>1, <2>5 DEF TypeInv, TypeOK
  <2>7. /\ rotating' \in [Client -> Turned \cup {Nothing}] /\ rotating' \in [Client -> Groups]
        /\ \A e \in Client : /\ (increments'[e] # 0 \/ inProgress'[e]) => waiting'[e]
                             /\ waiting'[e] => rotating'[e] # Nothing
    BY <1>1, <2>1, OverType
  <2>8. TypeOK'
    BY <1>1, <2>3, <2>6, <2>7 DEF TypeInv, TypeOK
  <2>9. WheelOK'
    BY <1>1, <2>7 DEF TypeInv, WheelOK
  <2> QED
    BY <1>4, <2>8, <2>9 DEF TypeInv
<1> QED
  BY <1>5, <1>6

LEMMA LoadedType ==
  ASSUME TypeInv, NEW c \in Client, HandleGameLoaded(c)
  PROVE  TypeInv'
<1>1. PICK body \in Incoming(c) :
        /\ body.type = "GameLoaded"
        /\ Handling(c, body)
        /\ IF c = Host THEN UNCHANGED tableVars ELSE NewGame(c, body.seq, body.game)
        /\ UNCHANGED <<members, up, relayed, idleStateVars, failed, events, torn>>
  BY DEF HandleGameLoaded
<1>2. DownOK(down') /\ LoopOK(loopback') /\ body \in Bodies
  BY <1>1, HandlingType DEF TypeInv
<1>3. body.seq \in Nat /\ body.game \in Nat \ {0}
  BY <1>1, <1>2, BodyFields
<1>4. /\ seq' \in [Client -> Nat] /\ game' \in [Client -> Nat \ {0}] /\ game' \in [Client -> Nat]
      /\ stack' \in [Client -> Seq(Piece)] /\ angle' \in [Client -> [Piece -> 0 .. Turn - 1]]
  <2>1. CASE c = Host
    BY <1>1, <2>1 DEF tableVars, TypeInv, TypeOK, WheelOK
  <2>2. CASE c # Host
    BY <1>1, <1>3, <2>2, NewGameType
  <2> QED
    BY <2>1, <2>2
<1> QED
  BY <1>1, <1>2, <1>4 DEF idleStateVars, TypeInv, TypeOK, ChannelsOK, WheelOK

LEMMA TypeStep == TypeInv /\ [Next]_vars => TypeInv'
<1> SUFFICES ASSUME TypeInv, [Next]_vars PROVE TypeInv'
  OBVIOUS
<1>1. ASSUME NEW c \in Client, Relaying(c) PROVE TypeInv'
  <2>1. ChannelsOK'
    BY <1>1, RelayingType DEF TypeInv
  <2> QED
    BY <1>1, <2>1 DEF Relaying, tableVars, idleStateVars, TypeInv, TypeOK, WheelOK
<1>2. ASSUME NEW c \in Client, ProgramStep(c) PROVE TypeInv'
  <2>1. ASSUME NEW pieces \in Group(c), NEW d \in {1, -1},
               HandleMouseWheel(c, [game |-> game[c], pieces |-> pieces], d)
        PROVE  TypeInv'
    BY <2>1, WheelType
  <2>2. ASSUME NEW p \in Piece, NEW kind \in Moves, AskToMove(c, p, kind) PROVE TypeInv'
    BY <2>2, MoveAskedType
  <2>3. ASSUME Handle(c) PROVE TypeInv'
    BY <2>3, ContinueType, RotationType, MoveType, RejectedType, LoadedType DEF Handle
  <2> QED
    BY <1>2, <2>1, <2>2, <2>3 DEF ProgramStep
<1>3. ASSUME LoadGame \/ HandleAtHost PROVE TypeInv'
  BY <1>3, LoadType, HostType
<1>4. ASSUME UNCHANGED vars PROVE TypeInv'
  BY <1>4 DEF vars, relayVars, tableVars, idleStateVars, TypeInv, TypeOK, ChannelsOK, WheelOK
<1> QED
  BY <1>1, <1>2, <1>3, <1>4 DEF Next

\* The stack begins with all pieces, in some order.
LEMMA StackBegins == SetToSeq(Piece) \in Seq(Piece)
<1> DEFINE n == Cardinality(Piece)
<1>1. n \in Nat /\ ExistsBijection(1 .. n, Piece)
  BY RotationAssumption, FS_CardinalityType
<1>2. \E f \in [1 .. n -> Piece] : IsInjective(f)
  BY <1>1 DEF ExistsBijection, Bijection, Injection, Surjection, IsInjective
<1>3. SetToSeq(Piece) \in [1 .. n -> Piece]
  BY <1>2 DEF SetToSeq
<1> HIDE DEF n
<1> QED
  BY <1>1, <1>3

LEMMA TypeInit == Init => TypeInv
<1> SUFFICES ASSUME Init PROVE TypeInv
  OBVIOUS
<1>1. \A S : <<>> \in Seq(S)
  OBVIOUS
<1>2. ChannelsOK
  BY <1>1 DEF Init, RelayOpen, ChannelsOK, UpOK, DownOK, LoopOK
<1>3. Nothing \in Groups
  BY DEF Nothing, Groups
<1>4. WheelOK
  BY DEF Init, WheelOK
<1>5. TypeOK
  BY <1>3, StackBegins, RotationAssumption DEF Init, TypeOK
<1> QED
  BY <1>2, <1>4, <1>5 DEF TypeInv

\* Every variable always has its type: what is in a queue is what its sender may send to its
\* receiver, and increments are counted of some pieces only.
THEOREM TypeCorrect == Spec => []TypeOK
<1>1. TypeInv => TypeOK
  BY DEF TypeInv
<1> QED
  BY <1>1, TypeInit, TypeStep, PTL DEF Spec

-----------------------------------------------------------------------------
(* What the steps of the system do to the queues.                          *)

\* Packets are taken from the queues in X, those of P are added, nothing else happens.
Carry(s, t, q, X, P) ==
  /\ q \in X => s # <<>> /\ t = Tail(s)
  /\ q \notin X => \/ t = s /\ \A m \in Packets : <<q, m>> \notin P
                   \/ \E m \in Packets : <<q, m>> \in P /\ t = Append(s, m)
Carries(F, G, X, P) == \A q \in Queues : Carry(F[q], G[q], q, X, P)

LEMMA CarriesFlow ==
  ASSUME NEW F, NEW G, NEW X, NEW P, Carries(F, G, X, P)
  PROVE  Flow(F, G, X)
BY DEF Carries, Carry, Flow

\* What lands has been sent.
LEMMA CarriesSent ==
  ASSUME NEW F \in Lines, NEW G, NEW X, NEW P, Carries(F, G, X, P),
         NEW q \in Queues, NEW m \in Packets, G[q] = Append(F[q], m)
  PROVE  <<q, m>> \in P
<1>1. F[q] \in Seq(Packets)
  BY DEF Lines
<1>2. Carry(F[q], G[q], q, X, P)
  BY DEF Carries
<1>3. Append(F[q], m) # F[q] /\ Append(F[q], m)[Len(F[q]) + 1] = m
      /\ Len(Append(F[q], m)) = Len(F[q]) + 1 /\ Len(F[q]) \in Nat
  BY <1>1, AppendProperties, LenProperties
<1>4. q \notin X
  <2>1. SUFFICES ASSUME q \in X PROVE FALSE
    OBVIOUS
  <2>2. F[q] # <<>> /\ G[q] = Tail(F[q])
    BY <1>2, <2>1 DEF Carry
  <2>3. Len(G[q]) = Len(F[q]) - 1
    BY <1>1, <2>2, TailIndex
  <2> QED
    BY <1>3, <2>3
<1>5. PICK n \in Packets : <<q, n>> \in P /\ G[q] = Append(F[q], n)
  BY <1>2, <1>3, <1>4 DEF Carry
<1>6. Append(F[q], n)[Len(F[q]) + 1] = n
  BY <1>1, AppendIndex
<1> QED
  BY <1>3, <1>5, <1>6

LEMMA CarriesLands ==
  ASSUME NEW F \in Lines, NEW G, NEW X, NEW P, Carries(F, G, X, P),
         NEW T, NEW q \in Queues, Lands(F, G, T, q)
  PROVE  \E m \in Packets : <<q, m>> \in P /\ <<q, m>> \in T
BY CarriesSent DEF Lands

\* The only packet that is sent to a queue lands there.
LEMMA CarriesOne ==
  ASSUME NEW F, NEW G, NEW X, NEW P, Carries(F, G, X, P),
         NEW T, NEW q \in Queues, q \notin X, NEW m \in Packets,
         <<q, m>> \in P, \A n \in Packets : <<q, n>> \in P => n = m, <<q, m>> \in T
  PROVE  Lands(F, G, T, q)
BY DEF Carries, Carry, Lands

\* The queues are the channels.
LEMMA LinesMeaning ==
  ASSUME NEW c \in Client
  PROVE  /\ <<"up", c>> \in Queues /\ <<"down", c>> \in Queues /\ <<"loopback", c>> \in Queues
         /\ lines[<<"up", c>>] = up[c] /\ lines[<<"down", c>>] = down[c]
         /\ lines[<<"loopback", c>>] = loopback[c]
         /\ lines'[<<"up", c>>] = up'[c] /\ lines'[<<"down", c>>] = down'[c]
         /\ lines'[<<"loopback", c>>] = loopback'[c]
BY DEF lines, Queues, Queue

LEMMA LinesType ==
  ASSUME ChannelsOK
  PROVE  lines \in Lines
<1> SUFFICES ASSUME NEW q \in Queues PROVE Queue(q) \in Seq(Packets)
  BY DEF lines, Lines
<1>1. /\ \A c \in Client : up[c] \in Seq(UpPackets)
      /\ \A c \in Client : down[c] \in Seq(DownPackets) /\ loopback[c] \in Seq(DownPackets)
  BY DEF ChannelsOK, UpOK, DownOK, LoopOK
<1>2. UpPackets \subseteq Packets /\ DownPackets \subseteq Packets
  BY DEF Packets
<1>3. /\ \A c \in Client : up[c] \in Seq(Packets)
      /\ \A c \in Client : down[c] \in Seq(Packets) /\ loopback[c] \in Seq(Packets)
  BY <1>1, <1>2, SeqMonotonic
<1>4. q[2] \in Client /\ q[1] \in {"up", "down", "loopback"}
  BY DEF Queues
<1> QED
  BY <1>3, <1>4 DEF Queue

LEMMA Carrying ==
  ASSUME NEW X, NEW P,
         \A c \in Client : /\ Carry(up[c], up'[c], <<"up", c>>, X, P)
                           /\ Carry(down[c], down'[c], <<"down", c>>, X, P)
                           /\ Carry(loopback[c], loopback'[c], <<"loopback", c>>, X, P)
  PROVE  Carries(lines, lines', X, P)
<1> SUFFICES ASSUME NEW q \in Queues PROVE Carry(lines[q], lines'[q], q, X, P)
  BY DEF Carries
<1>1. PICK c \in Client : q = <<"up", c>> \/ q = <<"down", c>> \/ q = <<"loopback", c>>
  BY DEF Queues
<1> QED
  BY <1>1, LinesMeaning

\* Packets of the channels.
LEMMA FromClientFields ==
  ASSUME NEW c \in Client, NEW m \in FromClient(c)
  PROVE  /\ m \in Packets /\ m.body \in Bodies /\ m.to \in Client
         /\ m.body.type \in {"Request", "BeginRotation"} => m.route = "ClientToHost"
         /\ m.body.type \in {"GameLoaded", "ChangeAccepted"} => m.route = "ClientToAll"
         /\ m.body.type \in {"ContinueRotation", "ChangeRejected"} => m.route = "HostToSingleClient"
         /\ m.body.type = "Request" => m.body.req.sender = c
         /\ m.body.type = "ChangeRejected" => m.body.req.sender = m.to
         /\ m.route # "ClientToHost" => c = Host
         /\ m.route \in {"ClientToHost", "ClientToAll", "HostToSingleClient"}
<1>1. m \in UpPackets /\ m.body \in Bodies /\ m.to \in Client
  BY DEF FromClient, UpPackets
<1>2. m.body.type \in {"Request", "ChangeRejected", "ChangeAccepted", "GameLoaded",
                       "BeginRotation", "ContinueRotation"}
  BY <1>1, BodyFields
<1> QED
  BY <1>1, <1>2 DEF FromClient, Packets, UpPackets

\* Marks of c: what they are on the way up, and down.
LEMMA MarksUp ==
  ASSUME NEW c \in Client, NEW d \in Client, NEW m \in FromClient(d)
  PROVE  /\ <<<<"up", d>>, m>> \in Tokens(c) <=>
              \/ m.body.type = "BeginRotation" /\ d = c
              \/ m.body.type = "ContinueRotation" /\ m.to = c
         /\ <<<<"up", d>>, m>> \in Rotations(c) <=>
              /\ m.body.type \in {"Request", "ChangeRejected", "ChangeAccepted"}
              /\ m.body.req.kind \notin Moves /\ m.body.req.sender = c
<1>1. m \in Packets /\ <<"up", d>> \in Queues
  BY FromClientFields, LinesMeaning
<1> QED
  BY <1>1 DEF Tokens, Rotations, OfRoundTrip

LEMMA MarksDown ==
  ASSUME NEW c \in Client, NEW d \in Client, NEW m \in ToClient(d)
  PROVE  /\ m \in Packets
         /\ <<<<"down", d>>, m>> \in Tokens(c) <=>
              \/ m.body.type = "BeginRotation" /\ m.from = c
              \/ m.body.type = "ContinueRotation" /\ d = c
         /\ <<<<"down", d>>, m>> \in Rotations(c) <=>
              /\ m.body.type \in {"Request", "ChangeRejected", "ChangeAccepted"}
              /\ m.body.req.kind \notin Moves /\ m.body.req.sender = c
              /\ m.body.type = "ChangeAccepted" => d = c
<1>1. m \in Packets /\ <<"down", d>> \in Queues
  BY LinesMeaning DEF ToClient, Packets
<1> QED
  BY <1>1 DEF Tokens, Rotations, OfRoundTrip

LEMMA MarksLoop ==
  ASSUME NEW c \in Client, NEW d \in Client, NEW m \in ToItself(d)
  PROVE  /\ m \in Packets /\ d = Host
         /\ <<<<"loopback", d>>, m>> \in Tokens(c) <=> m.body.type = "ContinueRotation" /\ d = c
         /\ <<<<"loopback", d>>, m>> \in Rotations(c) <=>
              /\ m.body.type = "ChangeRejected"
              /\ m.body.req.kind \notin Moves /\ m.body.req.sender = c
<1>1. m \in Packets /\ <<"loopback", d>> \in Queues
      /\ m.body.type \in {"ContinueRotation", "ChangeRejected"} /\ d = Host
  BY LinesMeaning DEF ToItself, Packets
<1> QED
  BY <1>1 DEF Tokens, Rotations, OfRoundTrip

-----------------------------------------------------------------------------
(* The server.                                                             *)

LEMMA DeliverCarries ==
  ASSUME ChannelsOK, NEW d \in Client, NEW n, NEW S \in SUBSET Client, NEW b,
         \A e \in S : [from |-> d, n |-> n, body |-> b] \in ToClient(e),
         up[d] # <<>>, up' = [up EXCEPT ![d] = Tail(@)],
         down' = Deliver(S, d, n, b), loopback' = loopback
  PROVE  Carries(lines, lines', {<<"up", d>>},
                 {<<<<"down", e>>, [from |-> d, n |-> n, body |-> b]>> : e \in S})
<1> DEFINE packet == [from |-> d, n |-> n, body |-> b]
           P == {<<<<"down", e>>, packet>> : e \in S}
           X == {<<"up", d>>}
<1>1. \A e \in S : packet \in Packets
  BY DEF ToClient, Packets
<1>2. \A e \in Client : down'[e] = IF e \in S THEN Append(down[e], packet) ELSE down[e]
  BY NobodyHungUp DEF Deliver
<1> HIDE DEF packet
<1>3. ASSUME NEW e \in Client
      PROVE  /\ Carry(up[e], up'[e], <<"up", e>>, X, P)
             /\ Carry(down[e], down'[e], <<"down", e>>, X, P)
             /\ Carry(loopback[e], loopback'[e], <<"loopback", e>>, X, P)
  <2>1. up \in [Client -> Seq(UpPackets)]
    BY DEF ChannelsOK, UpOK
  <2>2. Carry(up[e], up'[e], <<"up", e>>, X, P)
    BY <2>1 DEF Carry
  <2>3. Carry(loopback[e], loopback'[e], <<"loopback", e>>, X, P)
    BY DEF Carry
  <2>4. Carry(down[e], down'[e], <<"down", e>>, X, P)
    <3>1. <<"down", e>> \notin X /\ \A p : <<<<"down", e>>, p>> \in P <=> e \in S /\ p = packet
      OBVIOUS
    <3> HIDE DEF P, X
    <3> QED
      BY <1>1, <1>2, <3>1 DEF Carry
  <2> QED
    BY <2>2, <2>3, <2>4
<1>4. Carries(lines, lines', X, P)
  BY <1>3, Carrying
<1> QED
  BY <1>4 DEF packet

LEMMA RelayingCarries ==
  ASSUME ChannelsOK, NEW d \in Client, Relaying(d)
  PROVE  LET m == Head(up[d]) IN
         /\ up[d] # <<>> /\ m \in FromClient(d)
         /\ \E n \in Nat, S \in SUBSET Client :
              /\ \A e \in S : [from |-> d, n |-> n, body |-> m.body] \in ToClient(e)
              /\ Carries(lines, lines', {<<"up", d>>},
                         {<<<<"down", e>>, [from |-> d, n |-> n, body |-> m.body]>> : e \in S})
              /\ m.route = "ClientToHost" => S = {Host}
              /\ m.route = "ClientToAll" => S = Client
              /\ m.route = "HostToSingleClient" => S = {m.to}
<1> DEFINE m == Head(up[d])
<1>1. ASSUME NEW route, Receive(d, route)
      PROVE  /\ up[d] # <<>> /\ m.route = route /\ up' = [up EXCEPT ![d] = Tail(@)]
             /\ m \in FromClient(d) /\ m.to \in Client /\ m.body \in Bodies
  <2>1. up[d] # <<>> /\ m.route = route /\ up' = [up EXCEPT ![d] = Tail(@)]
    BY <1>1 DEF Receive
  <2>2. m \in FromClient(d)
    BY <2>1, TakenType
  <2> QED
    BY <2>1, <2>2, FromClientFields
<1>2. CASE OnReliableMessageFromClientToHost(d)
  <2>1. /\ up[d] # <<>> /\ m.route = "ClientToHost" /\ up' = [up EXCEPT ![d] = Tail(@)]
        /\ m \in FromClient(d) /\ m.body \in Bodies
        /\ down' = Deliver({Host}, d, 0, m.body) /\ loopback' = loopback
    BY <1>1, <1>2 DEF OnReliableMessageFromClientToHost, ChannelsOK
  <2>2. \A e \in {Host} : [from |-> d, n |-> 0, body |-> m.body] \in ToClient(e)
    BY <2>1 DEF FromClient, ToClient, DownPackets
  <2> DEFINE S == {Host}
  <2>3. S \in SUBSET Client /\ 0 \in Nat /\ down' = Deliver(S, d, 0, m.body)
        /\ \A e \in S : [from |-> d, n |-> 0, body |-> m.body] \in ToClient(e)
    BY <2>1, <2>2, HostAssumption
  <2> HIDE DEF S
  <2>4. Carries(lines, lines', {<<"up", d>>},
                {<<<<"down", e>>, [from |-> d, n |-> 0, body |-> m.body]>> : e \in S})
    BY <2>1, <2>3, DeliverCarries
  <2> QED
    BY <2>1, <2>3, <2>4 DEF S
<1>3. CASE OnReliableMessageFromClientToAll(d)
  <2>1. /\ up[d] # <<>> /\ m.route = "ClientToAll" /\ up' = [up EXCEPT ![d] = Tail(@)]
        /\ m \in FromClient(d) /\ m.body \in Bodies
        /\ down' = Deliver(Client, d, relayed + 1, m.body) /\ loopback' = loopback
        /\ relayed + 1 \in Nat
    BY <1>1, <1>3 DEF OnReliableMessageFromClientToAll, ChannelsOK
  <2>2. \A e \in Client : [from |-> d, n |-> relayed + 1, body |-> m.body] \in ToClient(e)
    BY <2>1 DEF FromClient, ToClient, DownPackets
  <2>3. Carries(lines, lines', {<<"up", d>>},
                {<<<<"down", e>>, [from |-> d, n |-> relayed + 1, body |-> m.body]>> : e \in Client})
    BY <2>1, <2>2, DeliverCarries
  <2> QED
    BY <2>1, <2>2, <2>3
<1>4. CASE OnReliableMessageFromHostToSingleClient(d)
  <2>1. /\ up[d] # <<>> /\ m.route = "HostToSingleClient" /\ up' = [up EXCEPT ![d] = Tail(@)]
        /\ m \in FromClient(d) /\ m.body \in Bodies /\ m.to \in Client
        /\ down' = Deliver(Client \cap {m.to}, d, 0, m.body) /\ loopback' = loopback
    BY <1>1, <1>4 DEF OnReliableMessageFromHostToSingleClient, ChannelsOK
  <2>2. Client \cap {m.to} = {m.to}
    BY <2>1
  <2>3. \A e \in {m.to} : [from |-> d, n |-> 0, body |-> m.body] \in ToClient(e)
    BY <2>1 DEF FromClient, ToClient, DownPackets
  <2> DEFINE S == {m.to}
             b == m.body
  <2>4. /\ S \in SUBSET Client /\ 0 \in Nat /\ down' = Deliver(S, d, 0, b)
        /\ \A e \in S : [from |-> d, n |-> 0, body |-> b] \in ToClient(e)
        /\ up[d] # <<>> /\ up' = [up EXCEPT ![d] = Tail(@)] /\ loopback' = loopback
    BY <2>1, <2>2, <2>3
  <2> HIDE DEF S, b
  <2>5. Carries(lines, lines', {<<"up", d>>},
                {<<<<"down", e>>, [from |-> d, n |-> 0, body |-> b]>> : e \in S})
    BY <2>4, DeliverCarries
  <2>6. S = {m.to} /\ b = m.body /\ m.route # "ClientToHost" /\ m.route # "ClientToAll"
    BY <2>1 DEF S, b
  <2> QED
    BY <2>1, <2>4, <2>5, <2>6
<1>5. CASE OnPlayerDisconnected(d)
  <2>1. m \in FromClient(d) /\ m.route = "Disconnect"
    BY <1>1, <1>5 DEF OnPlayerDisconnected
  <2> QED
    BY <2>1 DEF FromClient, UpPackets
<1> QED
  BY <1>2, <1>3, <1>4, <1>5 DEF Relaying, ServerStep

\* What concerns c goes one queue further on the way of c.
LEMMA RelayingPasses ==
  ASSUME ChannelsOK, NEW d \in Client, Relaying(d), NEW c \in Client
  PROVE  /\ Flow(lines, lines', {<<"up", d>>})
         /\ \E y \in Queues : y # <<"up", d>> /\ Passes(lines, lines', c, <<"up", d>>, y)
<1> DEFINE m == Head(up[d])
           x == <<"up", d>>
<1>1. PICK n \in Nat, S \in SUBSET Client :
        /\ \A e \in S : [from |-> d, n |-> n, body |-> m.body] \in ToClient(e)
        /\ Carries(lines, lines', {x},
                   {<<<<"down", e>>, [from |-> d, n |-> n, body |-> m.body]>> : e \in S})
        /\ m.route = "ClientToHost" => S = {Host}
        /\ m.route = "ClientToAll" => S = Client
        /\ m.route = "HostToSingleClient" => S = {m.to}
  BY RelayingCarries
<1> DEFINE packet == [from |-> d, n |-> n, body |-> m.body]
           P == {<<<<"down", e>>, packet>> : e \in S}
           z == IF m.route = "ClientToHost" THEN Host ELSE c
           y == <<"down", z>>
<1>2. m \in FromClient(d) /\ up[d] # <<>>
  BY RelayingCarries
<1>3. packet.from = d /\ packet.body = m.body /\ \A e \in S : packet \in ToClient(e)
  BY <1>1
<1>4. /\ m.body \in Bodies /\ m.to \in Client
      /\ m.body.type \in {"Request", "BeginRotation"} => m.route = "ClientToHost"
      /\ m.body.type \in {"GameLoaded", "ChangeAccepted"} => m.route = "ClientToAll"
      /\ m.body.type \in {"ContinueRotation", "ChangeRejected"} => m.route = "HostToSingleClient"
      /\ m.body.type = "Request" => m.body.req.sender = d
      /\ m.body.type = "ChangeRejected" => m.body.req.sender = m.to
      /\ m.route # "ClientToHost" => d = Host
      /\ m.route \in {"ClientToHost", "ClientToAll", "HostToSingleClient"}
  BY <1>2, FromClientFields
<1>5. /\ \A e \in S : /\ <<<<"down", e>>, packet>> \in Tokens(c) <=>
                              \/ m.body.type = "BeginRotation" /\ d = c
                              \/ m.body.type = "ContinueRotation" /\ e = c
                      /\ <<<<"down", e>>, packet>> \in Rotations(c) <=>
                              /\ m.body.type \in {"Request", "ChangeRejected", "ChangeAccepted"}
                              /\ m.body.req.kind \notin Moves /\ m.body.req.sender = c
                              /\ m.body.type = "ChangeAccepted" => e = c
                      /\ packet \in Packets
  BY <1>3, MarksDown
<1>6. /\ <<x, m>> \in Tokens(c) <=> \/ m.body.type = "BeginRotation" /\ d = c
                                    \/ m.body.type = "ContinueRotation" /\ m.to = c
      /\ <<x, m>> \in Rotations(c) <=>
           /\ m.body.type \in {"Request", "ChangeRejected", "ChangeAccepted"}
           /\ m.body.req.kind \notin Moves /\ m.body.req.sender = c
  BY <1>2, MarksUp
<1>7. Head(lines[x]) = m /\ x \in Queues /\ y \in Queues /\ x # y /\ z \in Client
  BY LinesMeaning, HostAssumption
<1>8. lines \in Lines
  BY LinesType
<1>9. Carries(lines, lines', {x}, P)
  BY <1>1
<1>10. \A q, p : <<q, p>> \in P <=> p = packet /\ \E e \in S : q = <<"down", e>>
  OBVIOUS
<1>11. \A e \in S : <<"down", e>> \in Queues
  BY LinesMeaning
<1> HIDE DEF packet, P
<1>12. ASSUME NEW T, T = Tokens(c) \/ T = Rotations(c) PROVE Moves1(lines, lines', x, y, T)
  <2>1. ASSUME <<x, m>> \in T PROVE z \in S /\ <<y, packet>> \in T
    <3>1. z \in S
      BY <1>1, <1>4, <1>6, <1>12, <2>1
    <3> QED
      BY <1>4, <1>5, <1>6, <1>12, <2>1, <3>1
  <2>2. ASSUME <<x, m>> \in T PROVE Lands(lines, lines', T, y)
    <3>1. z \in S /\ <<y, packet>> \in T
      BY <2>1, <2>2
    <3>2. <<y, packet>> \in P /\ packet \in Packets /\ y \notin {x}
      BY <1>5, <1>7, <1>10, <3>1
    <3>3. \A p \in Packets : <<y, p>> \in P => p = packet
      BY <1>10
    <3> QED
      BY <1>7, <1>9, <3>1, <3>2, <3>3, CarriesOne
  <2>3. ASSUME NEW q \in Queues, Lands(lines, lines', T, q)
        PROVE  q = y /\ <<x, m>> \in T
    <3>1. PICK p \in Packets : <<q, p>> \in P /\ <<q, p>> \in T
      BY <1>8, <1>9, <2>3, CarriesLands
    <3>2. PICK e \in S : q = <<"down", e>> /\ p = packet
      BY <1>10, <3>1
    <3>3. <<x, m>> \in T /\ e = z
      BY <1>1, <1>4, <1>5, <1>6, <1>12, <3>1, <3>2
    <3> QED
      BY <3>2, <3>3
  <2> QED
    BY <1>7, <2>2, <2>3 DEF Moves1
<1>13. Moves1(lines, lines', x, y, Tokens(c)) /\ Moves1(lines, lines', x, y, Rotations(c))
  BY <1>12
<1>14. \A p \in Packets : lines'[y] = Append(lines[y], p) => p.body = m.body
  <2> SUFFICES ASSUME NEW p \in Packets, lines'[y] = Append(lines[y], p) PROVE p.body = m.body
    OBVIOUS
  <2>1. <<y, p>> \in P
    BY <1>7, <1>8, <1>9, CarriesSent
  <2> QED
    BY <1>3, <1>10, <2>1
<1>15. ASSUME c # Host, <<x, m>> \in Tokens(c) \cup Rotations(c)
       PROVE  Rank(c, y) >= 1 /\ Rank(c, x) = Rank(c, y) + 1
  <2>1. /\ Rank(c, <<"down", c>>) = 1 /\ Rank(c, <<"up", Host>>) = 2
        /\ Rank(c, <<"down", Host>>) = 3 /\ Rank(c, <<"up", c>>) = 4
    BY <1>7, <1>15, RankType
  <2>2. CASE m.route = "ClientToHost"
    <3>1. d = c
      BY <1>4, <1>6, <1>15, <2>2
    <3> QED
      BY <2>1, <2>2, <3>1
  <2>3. CASE m.route # "ClientToHost"
    BY <1>4, <2>1, <2>3
  <2> QED
    BY <2>2, <2>3
<1>16. Passes(lines, lines', c, x, y)
  BY <1>7, <1>13, <1>14, <1>15 DEF Passes
<1>17. Flow(lines, lines', {x})
  BY <1>9, CarriesFlow
<1> QED
  BY <1>7, <1>16, <1>17

-----------------------------------------------------------------------------
(* The host.                                                               *)

\* One packet is sent to the server; of what arrives for this client some is taken.
LEMMA UploadCarries ==
  ASSUME ChannelsOK, NEW d \in Client, NEW packet \in Packets,
         up' = [up EXCEPT ![d] = Append(@, packet)], NEW X \in SUBSET Queues,
         \A e \in Client : <<"up", e>> \notin X,
         \A e \in Client : <<"down", e>> \in X => down[e] # <<>> /\ down'[e] = Tail(down[e]),
         \A e \in Client : <<"down", e>> \notin X => down'[e] = down[e],
         \A e \in Client : <<"loopback", e>> \in X =>
                             loopback[e] # <<>> /\ loopback'[e] = Tail(loopback[e]),
         \A e \in Client : <<"loopback", e>> \notin X => loopback'[e] = loopback[e]
  PROVE  Carries(lines, lines', X, {<<<<"up", d>>, packet>>})
<1> DEFINE P == {<<<<"up", d>>, packet>>}
<1>1. \A e \in Client : up'[e] = IF e = d THEN Append(up[e], packet) ELSE up[e]
  BY DEF ChannelsOK, UpOK
<1>2. ASSUME NEW e \in Client
      PROVE  /\ Carry(up[e], up'[e], <<"up", e>>, X, P)
             /\ Carry(down[e], down'[e], <<"down", e>>, X, P)
             /\ Carry(loopback[e], loopback'[e], <<"loopback", e>>, X, P)
  <2>1. /\ \A p : <<<<"up", e>>, p>> \in P <=> e = d /\ p = packet
        /\ \A p : <<<<"down", e>>, p>> \notin P /\ <<<<"loopback", e>>, p>> \notin P
    OBVIOUS
  <2> HIDE DEF P
  <2>2. Carry(up[e], up'[e], <<"up", e>>, X, P)
    BY <1>1, <2>1 DEF Carry
  <2>3. Carry(down[e], down'[e], <<"down", e>>, X, P)
    BY <2>1 DEF Carry
  <2>4. Carry(loopback[e], loopback'[e], <<"loopback", e>>, X, P)
    BY <2>1 DEF Carry
  <2> QED
    BY <2>2, <2>3, <2>4
<1>3. Carries(lines, lines', X, P)
  BY <1>2, Carrying
<1> QED
  BY <1>3

\* The host sends one packet to himself.
LEMMA LoopCarries ==
  ASSUME ChannelsOK, NEW packet \in Packets,
         loopback' = [loopback EXCEPT ![Host] = Append(@, packet)], up' = up,
         down[Host] # <<>>, down' = [down EXCEPT ![Host] = Tail(@)]
  PROVE  Carries(lines, lines', {<<"down", Host>>}, {<<<<"loopback", Host>>, packet>>})
<1> DEFINE P == {<<<<"loopback", Host>>, packet>>}
           X == {<<"down", Host>>}
<1>1. /\ \A e \in Client : loopback'[e] = IF e = Host THEN Append(loopback[e], packet)
                                          ELSE loopback[e]
      /\ \A e \in Client : down'[e] = IF e = Host THEN Tail(down[e]) ELSE down[e]
  BY DEF ChannelsOK, LoopOK, DownOK
<1>2. ASSUME NEW e \in Client
      PROVE  /\ Carry(up[e], up'[e], <<"up", e>>, X, P)
             /\ Carry(down[e], down'[e], <<"down", e>>, X, P)
             /\ Carry(loopback[e], loopback'[e], <<"loopback", e>>, X, P)
  <2>1. /\ \A p : <<<<"loopback", e>>, p>> \in P <=> e = Host /\ p = packet
        /\ \A p : <<<<"down", e>>, p>> \notin P /\ <<<<"up", e>>, p>> \notin P
        /\ <<"down", e>> \in X <=> e = Host
        /\ <<"up", e>> \notin X /\ <<"loopback", e>> \notin X
    OBVIOUS
  <2> HIDE DEF P, X
  <2>2. Carry(up[e], up'[e], <<"up", e>>, X, P)
    BY <2>1 DEF Carry
  <2>3. Carry(down[e], down'[e], <<"down", e>>, X, P)
    BY <1>1, <2>1 DEF Carry
  <2>4. Carry(loopback[e], loopback'[e], <<"loopback", e>>, X, P)
    BY <1>1, <2>1 DEF Carry
  <2> QED
    BY <2>2, <2>3, <2>4
<1>3. Carries(lines, lines', X, P)
  BY <1>2, Carrying
<1> QED
  BY <1>3

\* The answer goes up, or into the host's own queue.
Answers(m, y, packet) ==
  /\ \/ y = <<"up", Host>> /\ packet \in FromClient(Host)
     \/ y = <<"loopback", Host>> /\ packet \in ToItself(Host) /\ m.from = Host
  /\ m.body.type = "BeginRotation" =>
       /\ packet.body.type = "ContinueRotation"
       /\ y = <<"up", Host>> => packet.to = m.from
  /\ m.body.type = "Request" =>
       /\ packet.body.type \in {"ChangeRejected", "ChangeAccepted"}
       /\ packet.body.req = m.body.req
       /\ y = <<"loopback", Host>> => packet.body.type = "ChangeRejected"

\* The host has answered player p.
Answered(p, b) ==
  \E y \in Queues, packet \in Packets :
    /\ \/ y = <<"up", Host>> /\ packet \in FromClient(Host) /\ packet.to = p
       \/ y = <<"loopback", Host>> /\ packet \in ToItself(Host) /\ p = Host
    /\ packet.body = b
    /\ Carries(lines, lines', {<<"down", Host>>}, {<<y, packet>>})

LEMMA AnswerCarries ==
  ASSUME ChannelsOK, NEW p \in Client, NEW b \in Bodies,
         b.type \in {"ContinueRotation", "ChangeRejected"},
         b.type = "ChangeRejected" => b.req.sender = p,
         SendToOne(Host, p, b), down[Host] # <<>>, down' = [down EXCEPT ![Host] = Tail(@)]
  PROVE  Answered(p, b)
<1>1. CASE p = Host
  <2> DEFINE packet == [from |-> Host, n |-> 0, body |-> b]
             y == <<"loopback", Host>>
  <2>1. packet \in ToItself(Host) /\ packet \in Packets /\ packet.body = b
    BY <1>1, MadeForOne DEF ToItself, Packets
  <2>2. loopback' = [loopback EXCEPT ![Host] = Append(@, packet)] /\ up' = up
    BY <1>1 DEF SendToOne
  <2> HIDE DEF packet
  <2>3. Carries(lines, lines', {<<"down", Host>>}, {<<y, packet>>})
    BY <2>1, <2>2, LoopCarries
  <2>4. y \in Queues
    BY HostAssumption, LinesMeaning
  <2> QED
    BY <1>1, <2>1, <2>3, <2>4 DEF Answered
<1>2. CASE p # Host
  <2> DEFINE packet == [route |-> "HostToSingleClient", to |-> p, body |-> b]
             y == <<"up", Host>>
             X == {<<"down", Host>>}
  <2>1. packet \in FromClient(Host) /\ packet \in Packets /\ packet.body = b /\ packet.to = p
    BY <1>2, MadeForOne DEF FromClient, Packets
  <2>2. up' = [up EXCEPT ![Host] = Append(@, packet)] /\ loopback' = loopback
    BY <1>2 DEF SendToOne, Upload
  <2> HIDE DEF packet
  <2>3. /\ X \in SUBSET Queues
        /\ \A e \in Client : <<"up", e>> \notin X /\ <<"loopback", e>> \notin X
        /\ \A e \in Client : <<"down", e>> \in X => down[e] # <<>> /\ down'[e] = Tail(down[e])
        /\ \A e \in Client : <<"down", e>> \notin X => down'[e] = down[e]
    BY HostAssumption, LinesMeaning DEF ChannelsOK, DownOK
  <2> HIDE DEF X
  <2>4. Carries(lines, lines', X, {<<y, packet>>})
    BY <2>1, <2>2, <2>3, HostAssumption, UploadCarries
  <2>5. y \in Queues
    BY HostAssumption, LinesMeaning
  <2> QED
    BY <2>1, <2>4, <2>5 DEF X, Answered
<1> QED
  BY <1>1, <1>2

LEMMA HostCarries ==
  ASSUME TypeInv, HandleAtHost
  PROVE  \E y \in Queues, packet \in Packets :
           /\ Answers(Head(down[Host]), y, packet)
           /\ Carries(lines, lines', {<<"down", Host>>}, {<<y, packet>>})
<1> DEFINE m == Head(down[Host])
<1>0. ChannelsOK
  BY DEF TypeInv
<1>1. /\ down[Host] # <<>> /\ down' = [down EXCEPT ![Host] = Tail(@)]
      /\ m.from \in Client /\ m.body \in Bodies
      /\ m.body.type = "Request" => m.body.req \in Requests /\ m.body.req.sender = m.from
  BY <1>0, HostPacket
<1>2. HostContinues(m) \/ HostRejects(m) \/ HostAccepts(m)
  BY HostCases
<1> HIDE DEF m
<1>3. CASE HostContinues(m)
  <2> DEFINE b == [type |-> "ContinueRotation"]
  <2>1. b \in Bodies /\ b.type = "ContinueRotation"
    BY BodyMade
  <2>2. SendToOne(Host, m.from, b) /\ m.body.type = "BeginRotation"
    BY <1>3 DEF HostContinues
  <2> HIDE DEF b
  <2>3. PICK y \in Queues, packet \in Packets :
          /\ \/ y = <<"up", Host>> /\ packet \in FromClient(Host) /\ packet.to = m.from
             \/ y = <<"loopback", Host>> /\ packet \in ToItself(Host) /\ m.from = Host
          /\ packet.body = b
          /\ Carries(lines, lines', {<<"down", Host>>}, {<<y, packet>>})
    <3> DEFINE p == m.from
    <3>1. p \in Client /\ SendToOne(Host, p, b) /\ (b.type = "ChangeRejected" => b.req.sender = p)
      BY <1>1, <2>1, <2>2
    <3>2. b \in Bodies /\ b.type \in {"ContinueRotation", "ChangeRejected"}
      BY <2>1
    <3> HIDE DEF p
    <3>3. Answered(p, b)
      BY <1>0, <1>1, <3>1, <3>2, AnswerCarries
    <3> QED
      BY <3>3 DEF Answered, p
  <2>4. Answers(m, y, packet)
    BY <2>1, <2>2, <2>3 DEF Answers
  <2> QED
    BY <2>3, <2>4 DEF m
<1>4. CASE HostRejects(m)
  <2> DEFINE b == [type |-> "ChangeRejected", req |-> m.body.req]
  <2>1. b \in Bodies /\ b.type = "ChangeRejected" /\ b.req = m.body.req /\ b.req.sender = m.from
    BY <1>1, <1>4, BodyMade DEF HostRejects
  <2>2. SendToOne(Host, m.from, b) /\ m.body.type = "Request"
    BY <1>4 DEF HostRejects
  <2> HIDE DEF b
  <2>3. PICK y \in Queues, packet \in Packets :
          /\ \/ y = <<"up", Host>> /\ packet \in FromClient(Host) /\ packet.to = m.from
             \/ y = <<"loopback", Host>> /\ packet \in ToItself(Host) /\ m.from = Host
          /\ packet.body = b
          /\ Carries(lines, lines', {<<"down", Host>>}, {<<y, packet>>})
    <3> DEFINE p == m.from
    <3>1. p \in Client /\ SendToOne(Host, p, b) /\ (b.type = "ChangeRejected" => b.req.sender = p)
      BY <1>1, <2>1, <2>2
    <3>2. b \in Bodies /\ b.type \in {"ContinueRotation", "ChangeRejected"}
      BY <2>1
    <3> HIDE DEF p
    <3>3. Answered(p, b)
      BY <1>0, <1>1, <3>1, <3>2, AnswerCarries
    <3> QED
      BY <3>3 DEF Answered, p
  <2>4. Answers(m, y, packet)
    BY <2>1, <2>2, <2>3 DEF Answers
  <2> QED
    BY <2>3, <2>4 DEF m
<1>5. CASE HostAccepts(m)
  <2> DEFINE b == [type |-> "ChangeAccepted", seq |-> seq[Host] + 1, req |-> m.body.req]
             packet == [route |-> "ClientToAll", to |-> Host, body |-> b]
             y == <<"up", Host>>
             X == {<<"down", Host>>}
  <2>1. seq[Host] + 1 \in Nat
    BY HostAssumption DEF TypeInv, TypeOK
  <2>2. b \in Bodies /\ b.type = "ChangeAccepted" /\ b.req = m.body.req /\ m.body.type = "Request"
    BY <1>1, <1>5, <2>1, BodyMade DEF HostAccepts
  <2>3. up' = [up EXCEPT ![Host] = Append(@, packet)] /\ loopback' = loopback
    BY <1>5 DEF HostAccepts, Upload
  <2> HIDE DEF b
  <2>4. packet \in FromClient(Host) /\ packet \in Packets /\ packet.body = b
    BY <2>2, MadeForAll DEF FromClient, Packets
  <2> HIDE DEF packet
  <2>5. /\ X \in SUBSET Queues
        /\ \A e \in Client : <<"up", e>> \notin X /\ <<"loopback", e>> \notin X
        /\ \A e \in Client : <<"down", e>> \in X => down[e] # <<>> /\ down'[e] = Tail(down[e])
        /\ \A e \in Client : <<"down", e>> \notin X => down'[e] = down[e]
    BY <1>0, <1>1, HostAssumption, LinesMeaning DEF ChannelsOK, DownOK
  <2> HIDE DEF X
  <2>6. Carries(lines, lines', X, {<<y, packet>>})
    BY <1>0, <2>3, <2>4, <2>5, HostAssumption, UploadCarries
  <2>7. Answers(m, y, packet)
    BY <2>2, <2>4 DEF Answers
  <2>8. y \in Queues
    BY HostAssumption, LinesMeaning
  <2> QED
    BY <2>4, <2>6, <2>7, <2>8 DEF X, m
<1> QED
  BY <1>2, <1>3, <1>4, <1>5

\* What c asks is answered on the way of c.
LEMMA HostPasses ==
  ASSUME TypeInv, HandleAtHost, NEW c \in Client
  PROVE  /\ Flow(lines, lines', {<<"down", Host>>})
         /\ \E y \in Queues : y # <<"down", Host>> /\ Passes(lines, lines', c, <<"down", Host>>, y)
<1> DEFINE m == Head(down[Host])
           x == <<"down", Host>>
<1>0. ChannelsOK
  BY DEF TypeInv
<1>1. PICK y \in Queues, packet \in Packets :
        Answers(m, y, packet) /\ Carries(lines, lines', {x}, {<<y, packet>>})
  BY HostCarries
<1>2. /\ m \in ToClient(Host) /\ m.from \in Client /\ m.body \in Bodies
      /\ m.body.type = "Request" => m.body.req \in Requests /\ m.body.req.sender = m.from
  BY <1>0, HostPacket
<1>3. m.body.type = "Request" \/ m.body.type = "BeginRotation"
  BY HostCases DEF HostContinues, HostRejects, HostAccepts
<1>4. lines \in Lines /\ x \in Queues /\ Head(lines[x]) = m
  BY <1>0, LinesType, LinesMeaning, HostAssumption
<1>5. /\ <<x, m>> \in Tokens(c) <=> m.body.type = "BeginRotation" /\ m.from = c
      /\ <<x, m>> \in Rotations(c) <=>
           m.body.type = "Request" /\ m.body.req.kind \notin Moves /\ m.from = c
  BY <1>2, <1>3, MarksDown, HostAssumption
<1>6. /\ <<y, packet>> \in Tokens(c) <=> <<x, m>> \in Tokens(c)
      /\ <<y, packet>> \in Rotations(c) <=> <<x, m>> \in Rotations(c)
      /\ <<x, m>> \in Rotations(c) => packet.body.req = m.body.req
  <2>1. CASE y = <<"up", Host>> /\ packet \in FromClient(Host)
    <3>1. /\ <<y, packet>> \in Tokens(c) <=>
               \/ packet.body.type = "BeginRotation" /\ Host = c
               \/ packet.body.type = "ContinueRotation" /\ packet.to = c
          /\ <<y, packet>> \in Rotations(c) <=>
               /\ packet.body.type \in {"Request", "ChangeRejected", "ChangeAccepted"}
               /\ packet.body.req.kind \notin Moves /\ packet.body.req.sender = c
      BY <2>1, MarksUp, HostAssumption
    <3>2. /\ <<y, packet>> \in Tokens(c) <=> <<x, m>> \in Tokens(c)
          /\ <<y, packet>> \in Rotations(c) <=> <<x, m>> \in Rotations(c)
          /\ <<x, m>> \in Rotations(c) => packet.body.req = m.body.req
      <4>1. CASE m.body.type = "BeginRotation"
        BY <1>1, <1>5, <2>1, <3>1, <4>1 DEF Answers
      <4>2. CASE m.body.type = "Request"
        BY <1>1, <1>2, <1>5, <2>1, <3>1, <4>2 DEF Answers
      <4> QED
        BY <1>3, <4>1, <4>2
    <3> QED
      BY <2>1, <3>2
  <2>2. CASE y = <<"loopback", Host>> /\ packet \in ToItself(Host) /\ m.from = Host
    <3>1. /\ <<y, packet>> \in Tokens(c) <=> packet.body.type = "ContinueRotation" /\ Host = c
          /\ <<y, packet>> \in Rotations(c) <=>
               /\ packet.body.type = "ChangeRejected"
               /\ packet.body.req.kind \notin Moves /\ packet.body.req.sender = c
      BY <2>2, MarksLoop, HostAssumption
    <3>2. /\ <<y, packet>> \in Tokens(c) <=> <<x, m>> \in Tokens(c)
          /\ <<y, packet>> \in Rotations(c) <=> <<x, m>> \in Rotations(c)
          /\ <<x, m>> \in Rotations(c) => packet.body.req = m.body.req
      <4>1. CASE m.body.type = "BeginRotation"
        BY <1>1, <1>5, <2>2, <3>1, <4>1 DEF Answers
      <4>2. CASE m.body.type = "Request"
        BY <1>1, <1>2, <1>5, <2>2, <3>1, <4>2 DEF Answers
      <4> QED
        BY <1>3, <4>1, <4>2
    <3> QED
      BY <2>2, <3>2
  <2> QED
    BY <1>1, <2>1, <2>2 DEF Answers
<1>7. x # y
  BY <1>1 DEF Answers
<1> DEFINE P == {<<y, packet>>}
<1>8. (\A q, p : <<q, p>> \in P <=> q = y /\ p = packet) /\ Carries(lines, lines', {x}, P)
  BY <1>1
<1> HIDE DEF P
<1>9. ASSUME NEW T, T = Tokens(c) \/ T = Rotations(c) PROVE Moves1(lines, lines', x, y, T)
  <2>1. <<y, packet>> \in T <=> <<x, m>> \in T
    BY <1>6, <1>9
  <2>2. ASSUME <<x, m>> \in T PROVE Lands(lines, lines', T, y)
    <3>1. <<y, packet>> \in T /\ <<y, packet>> \in P /\ y \notin {x}
          /\ \A p \in Packets : <<y, p>> \in P => p = packet
      BY <1>7, <1>8, <2>1, <2>2
    <3> QED
      BY <1>8, <3>1, CarriesOne
  <2>3. ASSUME NEW q \in Queues, Lands(lines, lines', T, q)
        PROVE  q = y /\ <<x, m>> \in T
    <3>1. PICK p \in Packets : <<q, p>> \in P /\ <<q, p>> \in T
      BY <1>4, <1>8, <2>3, CarriesLands
    <3> QED
      BY <1>8, <2>1, <3>1
  <2> QED
    BY <1>4, <2>2, <2>3 DEF Moves1
<1>10. Moves1(lines, lines', x, y, Tokens(c)) /\ Moves1(lines, lines', x, y, Rotations(c))
  BY <1>9
<1>11. ASSUME NEW n \in Packets, lines'[y] = Append(lines[y], n), <<y, n>> \in Rotations(c)
       PROVE  n.body.req.shown = m.body.req.shown
  <2>1. <<y, n>> \in P
    BY <1>4, <1>8, <1>11, CarriesSent
  <2>2. n = packet
    BY <1>8, <2>1
  <2>3. packet.body.req = m.body.req
    BY <1>6, <1>11, <2>2
  <2> QED
    BY <2>2, <2>3
<1>12. ASSUME c # Host, <<x, m>> \in Tokens(c) \cup Rotations(c)
       PROVE  Rank(c, y) >= 1 /\ Rank(c, x) = Rank(c, y) + 1
  <2>1. Rank(c, <<"up", Host>>) = 2 /\ Rank(c, <<"down", Host>>) = 3
    BY <1>4, <1>12, RankType
  <2>2. m.from = c
    BY <1>5, <1>12
  <2>3. y = <<"up", Host>>
    BY <1>1, <1>12, <2>2 DEF Answers
  <2> QED
    BY <2>1, <2>3
<1>13. Passes(lines, lines', c, x, y)
  BY <1>4, <1>10, <1>11, <1>12 DEF Passes
<1>14. Flow(lines, lines', {x})
  BY <1>8, CarriesFlow
<1> QED
  BY <1>7, <1>13, <1>14

-----------------------------------------------------------------------------
(* The other steps.                                                        *)

\* A program takes the first packet of x.
Taken(d, body, x) ==
  /\ x \in Queues /\ lines[x] # <<>> /\ Head(lines[x]).body = body
  /\ \/ x = <<"down", d>> /\ Head(lines[x]) \in ToClient(d)
     \/ x = <<"loopback", d>> /\ Head(lines[x]) \in ToItself(d)
  /\ \A e \in Client :
       /\ <<"up", e>> # x
       /\ <<"down", e>> = x => down[e] # <<>> /\ down'[e] = Tail(down[e])
       /\ <<"down", e>> # x => down'[e] = down[e]
       /\ <<"loopback", e>> = x => loopback[e] # <<>> /\ loopback'[e] = Tail(loopback[e])
       /\ <<"loopback", e>> # x => loopback'[e] = loopback[e]

LEMMA HandlingTakes ==
  ASSUME ChannelsOK, NEW d \in Client, NEW body, Handling(d, body)
  PROVE  \E x \in Queues : Taken(d, body, x)
<1>1. down \in [Client -> Seq(DownPackets)] /\ loopback \in [Client -> Seq(DownPackets)]
  BY DEF ChannelsOK, DownOK, LoopOK
<1>2. CASE /\ down[d] # <<>> /\ Head(down[d]).body = body
           /\ down' = [down EXCEPT ![d] = Tail(@)] /\ loopback' = loopback
  <2> DEFINE x == <<"down", d>>
  <2>1. x \in Queues /\ lines[x] = down[d]
    BY LinesMeaning
  <2>2. Head(down[d]) \in ToClient(d)
    BY <1>2, TakenType
  <2>3. \A e \in Client : /\ <<"up", e>> # x /\ <<"loopback", e>> # x
                          /\ <<"down", e>> = x <=> e = d
                          /\ down'[e] = IF e = d THEN Tail(down[e]) ELSE down[e]
    BY <1>1, <1>2
  <2>4. x = <<"down", d>>
    OBVIOUS
  <2> HIDE DEF x
  <2>5. Taken(d, body, x)
    BY <1>2, <2>1, <2>2, <2>3, <2>4 DEF Taken
  <2> QED
    BY <2>1, <2>5
<1>3. CASE /\ loopback[d] # <<>> /\ Head(loopback[d]).body = body
           /\ loopback' = [loopback EXCEPT ![d] = Tail(@)] /\ down' = down
  <2> DEFINE x == <<"loopback", d>>
  <2>1. x \in Queues /\ lines[x] = loopback[d]
    BY LinesMeaning
  <2>2. Head(loopback[d]) \in ToItself(d)
    BY <1>3, TakenType
  <2>3. \A e \in Client : /\ <<"up", e>> # x /\ <<"down", e>> # x
                          /\ <<"loopback", e>> = x <=> e = d
                          /\ loopback'[e] = IF e = d THEN Tail(loopback[e]) ELSE loopback[e]
    BY <1>1, <1>3
  <2>4. x = <<"loopback", d>>
    OBVIOUS
  <2> HIDE DEF x
  <2>5. Taken(d, body, x)
    BY <1>3, <2>1, <2>2, <2>3, <2>4 DEF Taken
  <2> QED
    BY <2>1, <2>5
<1> QED
  BY <1>2, <1>3 DEF Handling

\* What the packet that is taken means to c.
LEMMA TakenMarks ==
  ASSUME NEW d \in Client, NEW body, NEW x, Taken(d, body, x), NEW c \in Client,
         body.type \in {"ContinueRotation", "ChangeRejected", "ChangeAccepted", "GameLoaded"}
  PROVE  /\ <<x, Head(lines[x])>> \in Tokens(c) <=> body.type = "ContinueRotation" /\ c = d
         /\ <<x, Head(lines[x])>> \in Rotations(c) <=>
              /\ body.type \in {"ChangeRejected", "ChangeAccepted"}
              /\ body.req.kind \notin Moves /\ body.req.sender = d /\ c = d
         /\ body.type = "ContinueRotation" /\ d # Host => x = <<"down", d>>
<1> DEFINE m == Head(lines[x])
<1>1. m.body = body
  BY DEF Taken
<1>2. CASE x = <<"down", d>> /\ m \in ToClient(d)
  <2>1. /\ <<x, m>> \in Tokens(c) <=>
              \/ m.body.type = "BeginRotation" /\ m.from = c
              \/ m.body.type = "ContinueRotation" /\ d = c
        /\ <<x, m>> \in Rotations(c) <=>
              /\ m.body.type \in {"Request", "ChangeRejected", "ChangeAccepted"}
              /\ m.body.req.kind \notin Moves /\ m.body.req.sender = c
              /\ m.body.type = "ChangeAccepted" => d = c
    BY <1>2, MarksDown
  <2>2. m.body.type = "ChangeRejected" => m.body.req.sender = d
    BY <1>2 DEF ToClient
  <2> HIDE DEF m
  <2>3. /\ <<x, m>> \in Tokens(c) <=> body.type = "ContinueRotation" /\ c = d
        /\ <<x, m>> \in Rotations(c) <=>
              /\ body.type \in {"ChangeRejected", "ChangeAccepted"}
              /\ body.req.kind \notin Moves /\ body.req.sender = d /\ c = d
    BY <1>1, <2>1, <2>2
  <2> QED
    BY <1>2, <2>3 DEF m
<1>3. CASE x = <<"loopback", d>> /\ m \in ToItself(d)
  <2>1. /\ <<x, m>> \in Tokens(c) <=> m.body.type = "ContinueRotation" /\ d = c
        /\ <<x, m>> \in Rotations(c) <=>
              /\ m.body.type = "ChangeRejected"
              /\ m.body.req.kind \notin Moves /\ m.body.req.sender = c
        /\ d = Host
    BY <1>3, MarksLoop
  <2>2. /\ m.body.type = "ChangeRejected" => m.body.req.sender = d
        /\ m.body.type \in {"ContinueRotation", "ChangeRejected"}
    BY <1>3, <2>1 DEF ToItself
  <2> HIDE DEF m
  <2>3. /\ <<x, m>> \in Tokens(c) <=> body.type = "ContinueRotation" /\ c = d
        /\ <<x, m>> \in Rotations(c) <=>
              /\ body.type \in {"ChangeRejected", "ChangeAccepted"}
              /\ body.req.kind \notin Moves /\ body.req.sender = d /\ c = d
    BY <1>1, <2>1, <2>2
  <2> QED
    BY <1>3, <2>1, <2>3 DEF m
<1> QED
  BY <1>2, <1>3 DEF Taken

\* It is taken, and nothing is sent.
LEMMA TakenCarries ==
  ASSUME NEW d \in Client, NEW body, NEW x, Taken(d, body, x), up' = up
  PROVE  Carries(lines, lines', {x}, {})
<1> DEFINE X == {x}
           P == {}
<1>1. \A q : (q \in X <=> q = x) /\ \A p : <<q, p>> \notin P
  OBVIOUS
<1> HIDE DEF X, P
<1>2. ASSUME NEW e \in Client
      PROVE  /\ Carry(up[e], up'[e], <<"up", e>>, X, P)
             /\ Carry(down[e], down'[e], <<"down", e>>, X, P)
             /\ Carry(loopback[e], loopback'[e], <<"loopback", e>>, X, P)
  BY <1>1 DEF Taken, Carry
<1>3. Carries(lines, lines', X, P)
  BY <1>2, Carrying
<1> QED
  BY <1>3 DEF X, P

\* Nothing is sent, so that nothing lands.
LEMMA NothingLands ==
  ASSUME NEW F \in Lines, NEW G, NEW X, Carries(F, G, X, {})
  PROVE  \A T, q : q \in Queues => ~Lands(F, G, T, q)
<1> SUFFICES ASSUME NEW T, NEW q \in Queues, Lands(F, G, T, q) PROVE FALSE
  OBVIOUS
<1> DEFINE P == {}
<1>1. Carries(F, G, X, P) /\ \A p : p \notin P
  OBVIOUS
<1> HIDE DEF P
<1>2. \E m \in Packets : <<q, m>> \in P /\ <<q, m>> \in T
  BY <1>1, CarriesLands
<1> QED
  BY <1>1, <1>2

\* It is taken, and an answer is sent to the server.
LEMMA TakenAnswered ==
  ASSUME ChannelsOK, NEW d \in Client, NEW body, NEW x, Taken(d, body, x),
         NEW packet \in Packets, up' = [up EXCEPT ![d] = Append(@, packet)]
  PROVE  Carries(lines, lines', {x}, {<<<<"up", d>>, packet>>})
<1> DEFINE X == {x}
<1>1. /\ X \in SUBSET Queues
      /\ \A e \in Client : <<"up", e>> \notin X
      /\ \A e \in Client : <<"down", e>> \in X => down[e] # <<>> /\ down'[e] = Tail(down[e])
      /\ \A e \in Client : <<"down", e>> \notin X => down'[e] = down[e]
      /\ \A e \in Client : <<"loopback", e>> \in X =>
                             loopback[e] # <<>> /\ loopback'[e] = Tail(loopback[e])
      /\ \A e \in Client : <<"loopback", e>> \notin X => loopback'[e] = loopback[e]
  BY DEF Taken
<1> HIDE DEF X
<1>2. Carries(lines, lines', X, {<<<<"up", d>>, packet>>})
  BY <1>1, UploadCarries
<1> QED
  BY <1>2 DEF X

\* An answer that asks nobody anything.
LEMMA HeardKeeps ==
  ASSUME TypeInv, RotationInv, NEW d \in Client, NEW body, Handling(d, body),
         body.type \in {"ChangeRejected", "ChangeAccepted", "GameLoaded"},
         UNCHANGED <<up, inProgress, waiting>>,
         IF /\ body.type # "GameLoaded" /\ body.req.kind \notin Moves /\ body.req.sender = d
         THEN RotationOver(d) ELSE rotating' = rotating
  PROVE  RotationInv'
<1>0. ChannelsOK /\ lines \in Lines
  BY LinesType DEF TypeInv
<1>1. PICK x \in Queues : Taken(d, body, x)
  BY <1>0, HandlingTakes
<1>2. Carries(lines, lines', {x}, {})
  BY <1>1, TakenCarries
<1>3. Flow(lines, lines', {x})
  BY <1>2, CarriesFlow
<1> DEFINE X == {x}
<1>4. X \in SUBSET Queues /\ Flow(lines, lines', X) /\ \A q \in X : q = x
  BY <1>3
<1> HIDE DEF X
<1>5. ASSUME NEW c \in Client PROVE ClientOK(lines', c, waiting'[c], rotating'[c])
  <2>1. ClientOK(lines, c, waiting[c], rotating[c])
    BY DEF RotationInv
  <2>2. Quiet(lines, lines', c)
    BY <1>0, <1>2, NothingLands DEF Quiet
  <2>3. /\ <<x, Head(lines[x])>> \notin Tokens(c)
        /\ <<x, Head(lines[x])>> \in Rotations(c) <=>
              /\ body.type \in {"ChangeRejected", "ChangeAccepted"}
              /\ body.req.kind \notin Moves /\ body.req.sender = d /\ c = d
    BY <1>1, TakenMarks
  <2>4. CASE <<x, Head(lines[x])>> \notin Rotations(c)
    <3>1. rotating'[c] = rotating[c]
      BY <2>3, <2>4 DEF RotationOver, TypeInv, TypeOK
    <3>2. NotHandled(lines, X, c)
      BY <1>4, <2>3, <2>4 DEF NotHandled
    <3>3. ClientOK(lines', c, waiting[c], rotating[c])
      BY <1>0, <1>4, <2>1, <2>2, <3>2, ClientQuiet
    <3> QED
      BY <3>1, <3>3
  <2>5. CASE <<x, Head(lines[x])>> \in Rotations(c)
    <3>1. RotationOver(c)
      BY <2>3, <2>5
    <3>2. inProgress[c] => waiting[c]
      BY DEF TypeInv, WheelOK
    <3>3. rotating'[c] = IF waiting[c] THEN rotating[c] ELSE Nothing
      BY <3>1, <3>2 DEF RotationOver, TypeInv, TypeOK
    <3>4. ClientOK(lines', c, waiting[c], rotating'[c])
      BY <1>0, <1>3, <2>1, <2>2, <2>5, <3>3, ClientHears
    <3> QED
      BY <3>4
  <2> QED
    BY <2>4, <2>5
<1> QED
  BY <1>5 DEF RotationInv

\* Only the packet that is sent lands.
LEMMA OneLands ==
  ASSUME NEW F \in Lines, NEW G, NEW X, NEW y, NEW packet, Carries(F, G, X, {<<y, packet>>})
  PROVE  /\ \A T, q : q \in Queues /\ Lands(F, G, T, q) => q = y /\ <<y, packet>> \in T
         /\ \A q \in Queues, m \in Packets : G[q] = Append(F[q], m) => m = packet
         /\ \A T : y \in Queues /\ y \notin X /\ packet \in Packets /\ <<y, packet>> \in T
                     => Lands(F, G, T, y)
<1> DEFINE P == {<<y, packet>>}
<1>1. Carries(F, G, X, P) /\ \A q, m : <<q, m>> \in P <=> q = y /\ m = packet
  OBVIOUS
<1> HIDE DEF P
<1>2. ASSUME NEW T, NEW q \in Queues, Lands(F, G, T, q) PROVE q = y /\ <<y, packet>> \in T
  <2>1. PICK m \in Packets : <<q, m>> \in P /\ <<q, m>> \in T
    BY <1>1, <1>2, CarriesLands
  <2> QED
    BY <1>1, <2>1
<1>3. ASSUME NEW q \in Queues, NEW m \in Packets, G[q] = Append(F[q], m) PROVE m = packet
  <2>1. <<q, m>> \in P
    BY <1>1, <1>3, CarriesSent
  <2> QED
    BY <1>1, <2>1
<1>4. ASSUME NEW T, y \in Queues, y \notin X, packet \in Packets, <<y, packet>> \in T
      PROVE  Lands(F, G, T, y)
  <2>1. <<y, packet>> \in P /\ \A m \in Packets : <<y, m>> \in P => m = packet
    BY <1>1
  <2> QED
    BY <1>1, <1>4, <2>1, CarriesOne
<1> QED
  BY <1>2, <1>3, <1>4

\* One packet is sent to the server, nothing is taken.
LEMMA SentCarries ==
  ASSUME ChannelsOK, NEW d \in Client, NEW packet \in Packets,
         up' = [up EXCEPT ![d] = Append(@, packet)], UNCHANGED <<down, loopback>>
  PROVE  Carries(lines, lines', {}, {<<<<"up", d>>, packet>>})
<1> DEFINE X == {}
<1>1. /\ X \in SUBSET Queues
      /\ \A e \in Client : <<"up", e>> \notin X
      /\ \A e \in Client : <<"down", e>> \in X => down[e] # <<>> /\ down'[e] = Tail(down[e])
      /\ \A e \in Client : <<"down", e>> \notin X => down'[e] = down[e]
      /\ \A e \in Client : <<"loopback", e>> \in X =>
                             loopback[e] # <<>> /\ loopback'[e] = Tail(loopback[e])
      /\ \A e \in Client : <<"loopback", e>> \notin X => loopback'[e] = loopback[e]
  OBVIOUS
<1> HIDE DEF X
<1>2. Carries(lines, lines', X, {<<<<"up", d>>, packet>>})
  BY <1>1, UploadCarries
<1> QED
  BY <1>2 DEF X

\* A packet that is about no wheel.
LEMMA PlainKeeps ==
  ASSUME TypeInv, RotationInv, NEW d \in Client, NEW packet \in FromClient(d),
         up' = [up EXCEPT ![d] = Append(@, packet)], UNCHANGED <<down, loopback>>,
         packet.body.type \in {"Request", "GameLoaded"},
         packet.body.type = "Request" => packet.body.req.kind \in Moves,
         UNCHANGED <<waiting, rotating>>
  PROVE  RotationInv'
<1>0. ChannelsOK /\ lines \in Lines /\ packet \in Packets
  BY LinesType, FromClientFields DEF TypeInv
<1>1. Carries(lines, lines', {}, {<<<<"up", d>>, packet>>})
  BY <1>0, SentCarries
<1> DEFINE X == {}
           y == <<"up", d>>
<1>2. X \in SUBSET Queues /\ Flow(lines, lines', X) /\ \A q : q \notin X
  BY <1>1, CarriesFlow
<1>3. ASSUME NEW c \in Client PROVE ClientOK(lines', c, waiting'[c], rotating'[c])
  <2>1. ClientOK(lines, c, waiting[c], rotating[c])
    BY DEF RotationInv
  <2>2. <<<<"up", d>>, packet>> \notin Tokens(c) /\ <<<<"up", d>>, packet>> \notin Rotations(c)
    BY MarksUp
  <2>3. Quiet(lines, lines', c)
    <3>1. Carries(lines, lines', X, {<<y, packet>>})
          /\ <<y, packet>> \notin Tokens(c) /\ <<y, packet>> \notin Rotations(c)
      BY <1>1, <2>2
    <3> HIDE DEF X, y
    <3>2. \A T, q : q \in Queues /\ Lands(lines, lines', T, q) => q = y /\ <<y, packet>> \in T
      BY <1>0, <3>1, OneLands
    <3> QED
      BY <3>1, <3>2 DEF Quiet
  <2> HIDE DEF X
  <2>4. NotHandled(lines, X, c)
    BY <1>2 DEF NotHandled
  <2>5. ClientOK(lines', c, waiting[c], rotating[c])
    BY <1>0, <1>2, <2>1, <2>3, <2>4, ClientQuiet
  <2> QED
    BY <2>5
<1> QED
  BY <1>3 DEF RotationInv

LEMMA MoveAskedKeeps ==
  ASSUME TypeInv, RotationInv, NEW c \in Client, NEW p \in Piece, NEW kind \in Moves,
         AskToMove(c, p, kind)
  PROVE  RotationInv'
<1> DEFINE r == [kind |-> kind, sender |-> c, seq |-> seq[c], piece |-> p]
           b == [type |-> "Request", req |-> r]
           packet == [route |-> "ClientToHost", to |-> Host, body |-> b]
<1>1. r \in Requests /\ r.sender = c /\ r.kind \in Moves
  BY DEF TypeInv, TypeOK, Requests
<1>2. up' = [up EXCEPT ![c] = Append(@, packet)] /\ UNCHANGED <<down, loopback, waiting, rotating>>
  BY DEF AskToMove, Ask, Upload, idleStateVars
<1> HIDE DEF r
<1>3. b \in Bodies /\ b.type = "Request" /\ b.req = r
  BY <1>1, BodyMade
<1> HIDE DEF b
<1>4. packet \in FromClient(c) /\ packet.body = b
  BY <1>1, <1>3, MadeForHost
<1> HIDE DEF packet
<1> QED
  BY <1>1, <1>2, <1>3, <1>4, PlainKeeps

LEMMA LoadKeeps ==
  ASSUME TypeInv, RotationInv, LoadGame
  PROVE  RotationInv'
<1> DEFINE b == [type |-> "GameLoaded", seq |-> seq[Host] + 1, game |-> game[Host] + 1]
           packet == [route |-> "ClientToAll", to |-> Host, body |-> b]
<1>1. seq[Host] + 1 \in Nat /\ game[Host] + 1 \in Nat \ {0}
  BY HostAssumption DEF TypeInv, TypeOK
<1>2. up' = [up EXCEPT ![Host] = Append(@, packet)] /\ UNCHANGED <<down, loopback, waiting, rotating>>
  BY DEF LoadGame, Upload, idleStateVars
<1>3. b \in Bodies /\ b.type = "GameLoaded"
  BY <1>1, BodyMade
<1> HIDE DEF b
<1>4. packet \in FromClient(Host) /\ packet.body = b
  BY <1>3, MadeForAll
<1> HIDE DEF packet
<1> QED
  BY <1>2, <1>3, <1>4, PlainKeeps, HostAssumption

\* The server, and the host, pass on what there is.
LEMMA PassesKeeps ==
  ASSUME TypeInv, RotationInv, UNCHANGED <<waiting, rotating>>, NEW x \in Queues,
         \A c \in Client : /\ Flow(lines, lines', {x})
                           /\ \E y \in Queues : y # x /\ Passes(lines, lines', c, x, y)
  PROVE  RotationInv'
<1>1. lines \in Lines
  BY LinesType DEF TypeInv
<1>2. ASSUME NEW c \in Client PROVE ClientOK(lines', c, waiting'[c], rotating'[c])
  <2>1. ClientOK(lines, c, waiting[c], rotating[c])
    BY DEF RotationInv
  <2>2. PICK y \in Queues : y # x /\ Passes(lines, lines', c, x, y)
    OBVIOUS
  <2>3. ClientOK(lines', c, waiting[c], rotating[c])
    BY <1>1, <2>1, <2>2, ClientMoves
  <2> QED
    BY <2>3
<1> QED
  BY <1>2 DEF RotationInv

LEMMA RelayingKeeps ==
  ASSUME TypeInv, RotationInv, NEW d \in Client, Relaying(d)
  PROVE  RotationInv'
<1> DEFINE x == <<"up", d>>
<1>1. /\ x \in Queues
      /\ \A c \in Client : /\ Flow(lines, lines', {x})
                           /\ \E y \in Queues : y # x /\ Passes(lines, lines', c, x, y)
  BY RelayingPasses, LinesMeaning DEF TypeInv
<1> HIDE DEF x
<1>2. UNCHANGED <<waiting, rotating>>
  BY DEF Relaying, idleStateVars
<1> QED
  BY <1>1, <1>2, PassesKeeps

LEMMA HostKeeps ==
  ASSUME TypeInv, RotationInv, HandleAtHost
  PROVE  RotationInv'
<1> DEFINE x == <<"down", Host>>
<1>1. /\ x \in Queues
      /\ \A c \in Client : /\ Flow(lines, lines', {x})
                           /\ \E y \in Queues : y # x /\ Passes(lines, lines', c, x, y)
  BY HostPasses, LinesMeaning, HostAssumption
<1> HIDE DEF x
<1>2. UNCHANGED <<waiting, rotating>>
  BY DEF HandleAtHost, idleStateVars
<1> QED
  BY <1>1, <1>2, PassesKeeps

LEMMA RotationKeeps ==
  ASSUME TypeInv, RotationInv, NEW c \in Client, HandleRotation(c)
  PROVE  RotationInv'
<1>1. PICK body \in Incoming(c) :
        /\ body.type = "ChangeAccepted" /\ body.req.kind \notin Moves
        /\ Handling(c, body)
        /\ IF body.req.sender = c THEN RotationOver(c) ELSE rotating' = rotating
        /\ UNCHANGED <<up, inProgress, waiting>>
  BY DEF HandleRotation
<1> QED
  BY <1>1, HeardKeeps

LEMMA MoveKeeps ==
  ASSUME TypeInv, RotationInv, NEW c \in Client, HandleMove(c)
  PROVE  RotationInv'
<1>1. PICK body \in Incoming(c) :
        /\ body.type = "ChangeAccepted" /\ body.req.kind \in Moves
        /\ Handling(c, body)
        /\ UNCHANGED <<up, inProgress, waiting, rotating>>
  BY DEF HandleMove, idleStateVars
<1> QED
  BY <1>1, HeardKeeps

LEMMA RejectedKeeps ==
  ASSUME TypeInv, RotationInv, NEW c \in Client, HandleChangeRejected(c)
  PROVE  RotationInv'
<1>1. PICK body \in Incoming(c) :
        /\ body.type = "ChangeRejected"
        /\ Handling(c, body)
        /\ IF body.req.kind \in Moves THEN rotating' = rotating ELSE RotationOver(c)
        /\ UNCHANGED <<up, inProgress, waiting>>
  BY DEF HandleChangeRejected, RejectRotation
<1>2. body.req.sender = c
  BY <1>1, HandlingType DEF TypeInv
<1> QED
  BY <1>1, <1>2, HeardKeeps

LEMMA LoadedKeeps ==
  ASSUME TypeInv, RotationInv, NEW c \in Client, HandleGameLoaded(c)
  PROVE  RotationInv'
<1>1. PICK body \in Incoming(c) :
        /\ body.type = "GameLoaded"
        /\ Handling(c, body)
        /\ UNCHANGED <<up, inProgress, waiting, rotating>>
  BY DEF HandleGameLoaded, idleStateVars
<1> QED
  BY <1>1, HeardKeeps

\* A rotation that is under way is one of some pieces.
LEMMA MarkedTurned ==
  ASSUME NEW c \in Client, NEW q, NEW m, <<q, m>> \in Rotations(c)
  PROVE  m.body.req.shown \in Turned
<1>1. /\ m \in Packets /\ m.body.type \in {"Request", "ChangeRejected", "ChangeAccepted"}
      /\ m.body.req.kind \notin Moves
  BY DEF Rotations
<1>2. m.body \in Bodies
  BY <1>1 DEF Packets, UpPackets, DownPackets
<1>3. m.body.req \in Requests
  BY <1>1, <1>2, BodyFields
<1> QED
  BY <1>1, <1>3, RequestFields

\* A rotation of a player who joined is on his way to the host or back.
LEMMA MarkedOnWay ==
  ASSUME ChannelsOK, NEW c \in Client, c # Host, NEW q \in Queues, NEW i \in Nat,
         At(lines, Rotations(c), q, i)
  PROVE  Rank(c, q) >= 1
<1>1. PICK d \in Client : q = <<"up", d>> \/ q = <<"down", d>> \/ q = <<"loopback", d>>
  BY DEF Queues
<1>2. i \in DOMAIN lines[q] /\ <<q, lines[q][i]>> \in Rotations(c)
  BY DEF At
<1>3. /\ up[d] \in Seq(FromClient(d)) /\ down[d] \in Seq(ToClient(d))
      /\ loopback[d] \in Seq(ToItself(d))
  BY DEF ChannelsOK, UpOK, DownOK, LoopOK
<1>4. /\ Rank(c, <<"down", c>>) = 1 /\ Rank(c, <<"up", Host>>) = 2
      /\ Rank(c, <<"down", Host>>) = 3 /\ Rank(c, <<"up", c>>) = 4
  BY RankType
<1>5. CASE q = <<"up", d>>
  <2> DEFINE m == up[d][i]
  <2>1. <<<<"up", d>>, m>> \in Rotations(c) /\ i \in DOMAIN up[d]
    BY <1>2, <1>5, LinesMeaning
  <2>2. m \in FromClient(d)
    BY <1>3, <2>1, LenProperties
  <2> HIDE DEF m
  <2>3. /\ m.body.type \in {"Request", "ChangeRejected", "ChangeAccepted"}
        /\ m.body.req.sender = c
    BY <2>1, <2>2, MarksUp
  <2>4. d = c \/ d = Host
    BY <2>2, <2>3, FromClientFields
  <2> QED
    BY <1>4, <1>5, <2>4
<1>6. CASE q = <<"down", d>>
  <2> DEFINE m == down[d][i]
  <2>1. <<<<"down", d>>, m>> \in Rotations(c) /\ i \in DOMAIN down[d]
    BY <1>2, <1>6, LinesMeaning
  <2>2. m \in ToClient(d)
    BY <1>3, <2>1, LenProperties
  <2> HIDE DEF m
  <2>3. /\ m.body.type \in {"Request", "ChangeRejected", "ChangeAccepted"}
        /\ m.body.req.sender = c
        /\ m.body.type = "ChangeAccepted" => d = c
    BY <2>1, <2>2, MarksDown
  <2>4. d = c \/ d = Host
    BY <2>2, <2>3 DEF ToClient
  <2> QED
    BY <1>4, <1>6, <2>4
<1>7. CASE q = <<"loopback", d>>
  <2> DEFINE m == loopback[d][i]
  <2>1. <<<<"loopback", d>>, m>> \in Rotations(c) /\ i \in DOMAIN loopback[d]
    BY <1>2, <1>7, LinesMeaning
  <2>2. m \in ToItself(d)
    BY <1>3, <2>1, LenProperties
  <2> HIDE DEF m
  <2>3. m.body.type = "ChangeRejected" /\ m.body.req.sender = c
    BY <2>1, <2>2, MarksLoop
  <2>4. FALSE
    BY <2>2, <2>3 DEF ToItself
  <2> QED
    BY <2>4
<1> QED
  BY <1>1, <1>5, <1>6, <1>7

\* What one program asks does not concern the others.
LEMMA OthersKeep ==
  ASSUME ChannelsOK, NEW d \in Client, NEW packet \in FromClient(d),
         packet.body.type \in {"Request", "BeginRotation"}, NEW X \in SUBSET Queues,
         Carries(lines, lines', X, {<<<<"up", d>>, packet>>}), NEW c \in Client, c # d,
         NotHandled(lines, X, c), NEW w, NEW v, ClientOK(lines, c, w, v)
  PROVE  ClientOK(lines', c, w, v)
<1> DEFINE y == <<"up", d>>
<1>1. <<y, packet>> \notin Tokens(c) /\ <<y, packet>> \notin Rotations(c)
  BY MarksUp, FromClientFields
<1>2. Carries(lines, lines', X, {<<y, packet>>}) /\ lines \in Lines
  BY LinesType
<1> HIDE DEF y
<1>3. \A T, q : q \in Queues /\ Lands(lines, lines', T, q) => q = y /\ <<y, packet>> \in T
  BY <1>2, OneLands
<1>4. Quiet(lines, lines', c)
  BY <1>1, <1>3 DEF Quiet
<1>5. Flow(lines, lines', X)
  BY <1>2, CarriesFlow
<1> QED
  BY <1>2, <1>4, <1>5, ClientQuiet

\* A round trip of d begins.
LEMMA BeginsKeeps ==
  ASSUME ChannelsOK, NEW d \in Client, NEW packet \in FromClient(d),
         packet.body.type = "BeginRotation", NEW X \in SUBSET Queues, <<"up", d>> \notin X,
         Carries(lines, lines', X, {<<<<"up", d>>, packet>>}),
         \A q \in Queues, i \in Nat : ~Stay(lines, X, Tokens(d), q, i),
         NEW w, NEW v, NEW u, ClientOK(lines, d, w, v), d # Host => ShownIs(lines, d, u)
  PROVE  ClientOK(lines', d, TRUE, u)
<1> DEFINE y == <<"up", d>>
<1>1. <<y, packet>> \in Tokens(d) /\ <<y, packet>> \notin Rotations(d)
  BY MarksUp
<1>2. /\ Carries(lines, lines', X, {<<y, packet>>}) /\ lines \in Lines
      /\ y \in Queues /\ y \notin X /\ packet \in Packets
  BY LinesType, LinesMeaning, FromClientFields
<1>3. y = <<"up", d>>
  OBVIOUS
<1> HIDE DEF y
<1>4. /\ \A T, q : q \in Queues /\ Lands(lines, lines', T, q) => q = y /\ <<y, packet>> \in T
      /\ \A T : y \in Queues /\ y \notin X /\ packet \in Packets /\ <<y, packet>> \in T
                  => Lands(lines, lines', T, y)
  BY <1>2, OneLands
<1>5. /\ Lands(lines, lines', Tokens(d), y)
      /\ \A q \in Queues : Lands(lines, lines', Tokens(d), q) => q = y
      /\ \A q \in Queues : ~Lands(lines, lines', Rotations(d), q)
  BY <1>1, <1>2, <1>4
<1>6. Flow(lines, lines', X)
  BY <1>2, CarriesFlow
<1>7. /\ Lands(lines, lines', Tokens(d), <<"up", d>>)
      /\ \A q \in Queues : Lands(lines, lines', Tokens(d), q) => q = <<"up", d>>
  BY <1>3, <1>5
<1> QED
  BY <1>2, <1>5, <1>6, <1>7, ClientBegins

LEMMA BeginPacket ==
  ASSUME ChannelsOK, NEW d \in Client, AskToBegin(d)
  PROVE  \E packet \in FromClient(d) : /\ packet.body.type = "BeginRotation"
                                       /\ up' = [up EXCEPT ![d] = Append(@, packet)]
<1> DEFINE b == [type |-> "BeginRotation"]
           packet == [route |-> "ClientToHost", to |-> Host, body |-> b]
<1>1. b \in Bodies /\ b.type = "BeginRotation"
  BY BodyMade
<1>2. up' = [up EXCEPT ![d] = Append(@, packet)]
  BY DEF AskToBegin, Upload
<1> HIDE DEF b
<1>3. packet \in FromClient(d) /\ packet.body = b
  BY <1>1, MadeForHost
<1> QED
  BY <1>1, <1>2, <1>3

\* The pieces that a wheel turns are some pieces.
LEMMA GroupTurned ==
  ASSUME TypeInv, NEW c \in Client, NEW pieces \in Group(c)
  PROVE  [game |-> game[c], pieces |-> pieces] \in Turned
<1>1. pieces \in Seq(Piece) \ {<<>>}
  BY GroupType DEF TypeInv
<1>2. game[c] \in Nat \ {0}
  BY DEF TypeInv, WheelOK
<1> QED
  BY <1>1, <1>2 DEF Turned

LEMMA WheelKeeps ==
  ASSUME TypeInv, RotationInv, NEW d \in Client, NEW g \in Turned, NEW by,
         HandleMouseWheel(d, g, by)
  PROVE  RotationInv'
<1>0. ChannelsOK /\ lines \in Lines
  BY LinesType DEF TypeInv
<1>1. /\ rotating[d] = Nothing \/ rotating[d] = g
      /\ \A c \in Client : rotating'[c] = IF c = d THEN g ELSE rotating[c]
      /\ \A c \in Client : waiting'[c] = IF c = d THEN TRUE ELSE waiting[c]
      /\ UNCHANGED <<down, loopback>>
  BY DEF HandleMouseWheel, Busy, TypeInv, TypeOK
<1>2. CASE waiting[d]
  <2>1. up' = up
    BY <1>2 DEF HandleMouseWheel, Begin
  <2>2. lines' = lines
    BY <1>1, <2>1 DEF lines, Queue
  <2>3. rotating[d] = g
    BY <1>1, <1>2 DEF TypeInv, WheelOK
  <2>4. waiting[d] = TRUE
    BY <1>2 DEF TypeInv, TypeOK
  <2>5. \A c \in Client : rotating'[c] = rotating[c] /\ waiting'[c] = waiting[c]
    BY <1>1, <2>3, <2>4
  <2> QED
    BY <2>2, <2>5 DEF RotationInv
<1>3. CASE ~waiting[d]
  <2>1. AskToBegin(d)
    BY <1>3 DEF HandleMouseWheel, Begin
  <2>2. PICK packet \in FromClient(d) : /\ packet.body.type = "BeginRotation"
                                        /\ up' = [up EXCEPT ![d] = Append(@, packet)]
    BY <1>0, <2>1, BeginPacket
  <2>3. packet \in Packets
    BY <2>2, FromClientFields
  <2> DEFINE X == {}
  <2>4. Carries(lines, lines', X, {<<<<"up", d>>, packet>>})
    BY <1>0, <1>1, <2>2, <2>3, SentCarries
  <2>5. X \in SUBSET Queues /\ \A q : q \notin X
    OBVIOUS
  <2> HIDE DEF X
  <2>6. ASSUME NEW c \in Client, c # d PROVE ClientOK(lines', c, waiting[c], rotating[c])
    <3>1. ClientOK(lines, c, waiting[c], rotating[c]) /\ NotHandled(lines, X, c)
      BY <2>5 DEF RotationInv, NotHandled
    <3> QED
      BY <1>0, <2>2, <2>4, <2>5, <2>6, <3>1, OthersKeep
  <2>7. ClientOK(lines', d, TRUE, g)
    <3>1. ClientOK(lines, d, waiting[d], rotating[d])
      BY DEF RotationInv
    <3>2. \A q \in Queues, i \in Nat : ~Stay(lines, X, Tokens(d), q, i)
      BY <1>3, <3>1 DEF ClientOK, Some, Stay
    <3>3. ASSUME d # Host PROVE ShownIs(lines, d, g)
      <4>1. ShownIs(lines, d, rotating[d])
        BY <3>1, <3>3 DEF ClientOK, PathOK
      <4>2. ASSUME NEW q \in Queues, NEW i \in Nat, At(lines, Rotations(d), q, i)
            PROVE  lines[q][i].body.req.shown = g
        <5>1. lines[q][i].body.req.shown = rotating[d]
          BY <4>1, <4>2 DEF ShownIs
        <5>2. lines[q][i].body.req.shown \in Turned
          BY <4>2, MarkedTurned DEF At
        <5> QED
          BY <1>1, <5>1, <5>2, NothingApart
      <4> QED
        BY <4>2 DEF ShownIs
    <3> QED
      BY <1>0, <2>2, <2>4, <2>5, <3>1, <3>2, <3>3, BeginsKeeps
  <2>8. ASSUME NEW c \in Client PROVE ClientOK(lines', c, waiting'[c], rotating'[c])
    <3>1. CASE c = d
      BY <1>1, <2>7, <3>1
    <3>2. CASE c # d
      BY <1>1, <2>6, <3>2
    <3> QED
      BY <3>1, <3>2
  <2> QED
    BY <2>8 DEF RotationInv
<1> QED
  BY <1>2, <1>3

\* The first packet is there.
LEMMA HeadAt ==
  ASSUME NEW F \in Lines, NEW q \in Queues, F[q] # <<>>, NEW T, <<q, Head(F[q])>> \in T
  PROVE  At(F, T, q, 1) /\ F[q][1] = Head(F[q])
<1>1. F[q] \in Seq(Packets)
  BY DEF Lines
<1>2. Head(F[q]) = F[q][1] /\ 1 \in DOMAIN F[q]
  BY <1>1, TailIndex
<1> QED
  BY <1>2 DEF At

\* d asks for what has been turned since, and its round trip is over.
LEMMA RequestKeeps ==
  ASSUME TypeInv, NEW d \in Client, increments[d] # 0, Ask(d, Wanted(d)), NEW x \in Queues,
         NEW body, Taken(d, body, x), body.type = "ContinueRotation",
         ClientOK(lines, d, waiting[d], rotating[d])
  PROVE  \E packet \in FromClient(d) :
           /\ packet.body.type = "Request"
           /\ Carries(lines, lines', {x}, {<<<<"up", d>>, packet>>})
           /\ ClientOK(lines', d, FALSE, rotating[d])
<1> DEFINE r == Wanted(d)
           b == [type |-> "Request", req |-> r]
           packet == [route |-> "ClientToHost", to |-> Host, body |-> b]
           y == <<"up", d>>
<1>0. ChannelsOK /\ lines \in Lines /\ y \in Queues
  BY LinesType, LinesMeaning DEF TypeInv
<1>1. r \in Requests /\ r.sender = d /\ r.shown = rotating[d] /\ r.kind \notin Moves
  BY WantedType
<1>2. up' = [up EXCEPT ![d] = Append(@, packet)]
  BY DEF Ask, Upload
<1> HIDE DEF r
<1>3. b \in Bodies /\ b.type = "Request" /\ b.req = r
  BY <1>1, BodyMade
<1> HIDE DEF b
<1>4. packet \in FromClient(d) /\ packet.body = b
  BY <1>1, <1>3, MadeForHost
<1> HIDE DEF packet
<1>5. packet \in Packets
  BY <1>4, FromClientFields
<1>6. Carries(lines, lines', {x}, {<<y, packet>>})
  BY <1>0, <1>2, <1>5, TakenAnswered
<1>7. <<y, packet>> \in Rotations(d) /\ <<y, packet>> \notin Tokens(d)
  BY <1>1, <1>3, <1>4, MarksUp
<1>8. y = <<"up", d>> /\ y \notin {x}
  BY DEF Taken
<1>9. /\ <<x, Head(lines[x])>> \in Tokens(d)
      /\ d # Host => x = <<"down", d>>
  BY TakenMarks
<1>10. \A q \in Queues, i \in Nat : d # Host /\ At(lines, Rotations(d), q, i) => Rank(d, q) >= 1
  BY <1>0, MarkedOnWay
<1> HIDE DEF y
<1>11. /\ \A T, q : q \in Queues /\ Lands(lines, lines', T, q) => q = y /\ <<y, packet>> \in T
       /\ \A q \in Queues, m \in Packets : lines'[q] = Append(lines[q], m) => m = packet
       /\ \A T : y \in Queues /\ y \notin {x} /\ packet \in Packets /\ <<y, packet>> \in T
                   => Lands(lines, lines', T, y)
  BY <1>0, <1>6, OneLands
<1>12. /\ \A q \in Queues : ~Lands(lines, lines', Tokens(d), q)
       /\ \A q \in Queues : Lands(lines, lines', Rotations(d), q) => q = y
       /\ Lands(lines, lines', Rotations(d), y)
  BY <1>0, <1>5, <1>7, <1>8, <1>11
<1>13. \A q \in Queues, m \in Packets :
         lines'[q] = Append(lines[q], m) /\ <<q, m>> \in Rotations(d)
           => m.body.req.shown = rotating[d]
  BY <1>1, <1>3, <1>4, <1>11
<1>14. Flow(lines, lines', {x})
  BY <1>6, CarriesFlow
<1>15. /\ \A q \in Queues : Lands(lines, lines', Rotations(d), q) => q = <<"up", d>>
       /\ Lands(lines, lines', Rotations(d), <<"up", d>>)
  BY <1>8, <1>12
<1>16. ClientOK(lines', d, FALSE, rotating[d])
  BY <1>0, <1>9, <1>10, <1>12, <1>13, <1>14, <1>15, ClientContinues
<1> QED
  BY <1>3, <1>4, <1>6, <1>8, <1>16

LEMMA ContinueKeeps ==
  ASSUME TypeInv, RotationInv, NEW d \in Client, ContinueRotation(d)
  PROVE  RotationInv'
<1> DEFINE body == [type |-> "ContinueRotation"]
<1>0. ChannelsOK /\ lines \in Lines
  BY LinesType DEF TypeInv
<1>1. /\ Handling(d, body) /\ body.type = "ContinueRotation"
      /\ \A c \in Client : waiting'[c] = IF c = d THEN inProgress[d] ELSE waiting[c]
      /\ BeginsAgain(d) \/ AsksForIt(d) \/ Rests(d)
  BY ContinueCases DEF TypeInv, TypeOK
<1> HIDE DEF body
<1>2. PICK x \in Queues : Taken(d, body, x)
  BY <1>0, <1>1, HandlingTakes
<1>3. /\ <<x, Head(lines[x])>> \in Tokens(d)
      /\ d # Host => x = <<"down", d>>
      /\ x # <<"up", d>>
  BY <1>1, <1>2, TakenMarks DEF Taken
<1>4. \A c \in Client : c # d => NotHandled(lines, {x}, c)
  BY <1>1, <1>2, TakenMarks DEF NotHandled
<1>5. \A c \in Client : ClientOK(lines, c, waiting[c], rotating[c])
  BY DEF RotationInv
<1> DEFINE X == {x}
<1>6. X \in SUBSET Queues /\ <<"up", d>> \notin X
  BY <1>3
<1>7. CASE BeginsAgain(d)
  <2>1. PICK packet \in FromClient(d) : /\ packet.body.type = "BeginRotation"
                                        /\ up' = [up EXCEPT ![d] = Append(@, packet)]
    BY <1>0, <1>7, BeginPacket DEF BeginsAgain
  <2>2. packet \in Packets
    BY <2>1, FromClientFields
  <2>3. Carries(lines, lines', X, {<<<<"up", d>>, packet>>})
    BY <1>0, <1>2, <2>1, <2>2, TakenAnswered
  <2>4. \A q \in Queues, i \in Nat : ~Stay(lines, X, Tokens(d), q, i)
    <3>1. Flow(lines, lines', X)
      BY <2>3, CarriesFlow
    <3>2. Sole(lines, Tokens(d))
      BY <1>5 DEF ClientOK
    <3> QED
      BY <1>0, <1>3, <3>1, <3>2, NoneStays
  <2>5. \A c \in Client : c # d => NotHandled(lines, X, c)
    BY <1>4
  <2> HIDE DEF X
  <2>6. ClientOK(lines', d, TRUE, rotating[d])
    <3>1. ClientOK(lines, d, waiting[d], rotating[d])
      BY <1>5
    <3>2. d # Host => ShownIs(lines, d, rotating[d])
      BY <3>1 DEF ClientOK, PathOK
    <3> QED
      BY <1>0, <1>6, <2>1, <2>3, <2>4, <3>1, <3>2, BeginsKeeps
  <2>7. \A c \in Client : c # d => ClientOK(lines', c, waiting[c], rotating[c])
    BY <1>0, <1>5, <1>6, <2>1, <2>3, <2>5, OthersKeep
  <2>8. inProgress[d] = TRUE /\ rotating' = rotating
    BY <1>7 DEF BeginsAgain, TypeInv, TypeOK
  <2>9. \A c \in Client : ClientOK(lines', c, waiting'[c], rotating'[c])
    BY <1>1, <2>6, <2>7, <2>8
  <2> QED
    BY <2>9 DEF RotationInv
<1>8. CASE AsksForIt(d)
  <2>1. PICK packet \in FromClient(d) :
          /\ packet.body.type = "Request"
          /\ Carries(lines, lines', X, {<<<<"up", d>>, packet>>})
          /\ ClientOK(lines', d, FALSE, rotating[d])
    BY <1>1, <1>2, <1>5, <1>8, RequestKeeps DEF AsksForIt
  <2>2. \A c \in Client : c # d => NotHandled(lines, X, c)
    BY <1>4
  <2> HIDE DEF X
  <2>3. \A c \in Client : c # d => ClientOK(lines', c, waiting[c], rotating[c])
    BY <1>0, <1>5, <1>6, <2>1, <2>2, OthersKeep
  <2>4. inProgress[d] = FALSE /\ rotating' = rotating
    BY <1>8 DEF AsksForIt, TypeInv, TypeOK
  <2>5. \A c \in Client : ClientOK(lines', c, waiting'[c], rotating'[c])
    BY <1>1, <2>1, <2>3, <2>4
  <2> QED
    BY <2>5 DEF RotationInv
<1>9. CASE Rests(d)
  <2>1. up' = up /\ inProgress[d] = FALSE
        /\ \A c \in Client : rotating'[c] = IF c = d THEN Nothing ELSE rotating[c]
    BY <1>9 DEF Rests, TypeInv, TypeOK
  <2>2. Carries(lines, lines', {x}, {})
    BY <1>2, <2>1, TakenCarries
  <2>3. Flow(lines, lines', X) /\ \A T, q : q \in Queues => ~Lands(lines, lines', T, q)
    BY <1>0, <2>2, CarriesFlow, NothingLands
  <2>4. ClientOK(lines', d, FALSE, Nothing)
    <3>1. ClientOK(lines, d, waiting[d], rotating[d])
      BY <1>5
    <3>2. \A q \in Queues, i \in Nat :
            d # Host /\ At(lines, Rotations(d), q, i) => Rank(d, q) >= 1
      BY <1>0, MarkedOnWay
    <3>3. /\ \A q \in Queues : ~Lands(lines, lines', Tokens(d), q)
          /\ \A q \in Queues : Lands(lines, lines', Rotations(d), q) => q = <<"up", d>>
      BY <2>3
    <3>4. \A q \in Queues, m \in Packets :
            lines'[q] = Append(lines[q], m) /\ <<q, m>> \in Rotations(d)
              => m.body.req.shown = Nothing
      BY <2>3 DEF Lands
    <3> QED
      BY <1>0, <1>3, <2>3, <3>1, <3>2, <3>3, <3>4, ClientContinues
  <2>5. \A c \in Client : c # d => NotHandled(lines, X, c)
    BY <1>4
  <2> HIDE DEF X
  <2>6. ASSUME NEW c \in Client, c # d PROVE ClientOK(lines', c, waiting[c], rotating[c])
    <3>1. Quiet(lines, lines', c)
      BY <2>3 DEF Quiet
    <3>2. NotHandled(lines, X, c) /\ ClientOK(lines, c, waiting[c], rotating[c])
      BY <1>5, <2>5, <2>6
    <3> QED
      BY <1>0, <1>6, <2>3, <3>1, <3>2, ClientQuiet
  <2>7. \A c \in Client : ClientOK(lines', c, waiting'[c], rotating'[c])
    BY <1>1, <2>1, <2>4, <2>6
  <2> QED
    BY <2>7 DEF RotationInv
<1> QED
  BY <1>1, <1>7, <1>8, <1>9

LEMMA RotationStep == TypeInv /\ RotationInv /\ [Next]_vars => RotationInv'
<1> SUFFICES ASSUME TypeInv, RotationInv, [Next]_vars PROVE RotationInv'
  OBVIOUS
<1>1. ASSUME NEW c \in Client, ProgramStep(c) PROVE RotationInv'
  <2>1. ASSUME NEW pieces \in Group(c), NEW d \in {1, -1},
               HandleMouseWheel(c, [game |-> game[c], pieces |-> pieces], d)
        PROVE  RotationInv'
    <3> DEFINE g == [game |-> game[c], pieces |-> pieces]
    <3>1. g \in Turned /\ HandleMouseWheel(c, g, d)
      BY <2>1, GroupTurned
    <3> HIDE DEF g
    <3> QED
      BY <3>1, WheelKeeps
  <2>2. ASSUME NEW p \in Piece, NEW kind \in Moves, AskToMove(c, p, kind) PROVE RotationInv'
    BY <2>2, MoveAskedKeeps
  <2>3. ASSUME Handle(c) PROVE RotationInv'
    BY <2>3, ContinueKeeps, RotationKeeps, MoveKeeps, RejectedKeeps, LoadedKeeps DEF Handle
  <2> QED
    BY <1>1, <2>1, <2>2, <2>3 DEF ProgramStep
<1>2. ASSUME LoadGame \/ HandleAtHost PROVE RotationInv'
  BY <1>2, LoadKeeps, HostKeeps
<1>3. ASSUME NEW c \in Client, Relaying(c) PROVE RotationInv'
  BY <1>3, RelayingKeeps
<1>4. ASSUME UNCHANGED vars PROVE RotationInv'
  <2>1. lines' = lines /\ UNCHANGED <<waiting, rotating>>
    BY <1>4 DEF vars, relayVars, idleStateVars, lines, Queue
  <2> QED
    BY <2>1 DEF RotationInv
<1> QED
  BY <1>1, <1>2, <1>3, <1>4 DEF Next

\* Nothing is marked while nothing is on its way.
LEMMA NothingMarked ==
  ASSUME \A c \in Client : up[c] = <<>> /\ down[c] = <<>> /\ loopback[c] = <<>>
  PROVE  \A T : ~Some(lines, T)
<1>1. \A q \in Queues : lines[q] = <<>>
  BY DEF lines, Queue, Queues
<1>2. \A i : i \notin DOMAIN <<>>
  OBVIOUS
<1> QED
  BY <1>1, <1>2 DEF Some, At

LEMMA RotationInit == Init => RotationInv
<1> SUFFICES ASSUME Init PROVE RotationInv
  OBVIOUS
<1>1. \A T : ~Some(lines, T)
  BY NothingMarked DEF Init, RelayOpen
<1>2. ASSUME NEW c \in Client PROVE ClientOK(lines, c, waiting[c], rotating[c])
  <2>1. waiting[c] = FALSE /\ rotating[c] = Nothing
    BY DEF Init
  <2>2. ~Some(lines, Tokens(c)) /\ ~Some(lines, Rotations(c))
    BY <1>1
  <2>3. Sole(lines, Tokens(c)) /\ PathOK(lines, c, Nothing)
    BY <2>2 DEF Sole, Some, PathOK, InOrder, ShownIs
  <2> QED
    BY <2>1, <2>2, <2>3 DEF ClientOK
<1> QED
  BY <1>2 DEF RotationInv

LEMMA RotationAlways == Spec => [](TypeInv /\ RotationInv)
<1>1. Init => TypeInv /\ RotationInv
  BY TypeInit, RotationInit
<1>2. TypeInv /\ RotationInv /\ [Next]_vars => (TypeInv /\ RotationInv)'
  BY TypeStep, RotationStep
<1> QED
  BY <1>1, <1>2, PTL DEF Spec

\* Once every packet has been handled nobody has pieces in rotation, nor waits for the host
\* to answer: the wheel is free for everybody.  (WheelIsFree)
THEOREM WheelIsAlwaysFree == Spec => []WheelIsFree
<1>1. ASSUME RotationInv, Settled, NEW c \in Client PROVE rotating[c] = Nothing /\ ~waiting[c]
  <2>1. ~Some(lines, Tokens(c)) /\ ~Some(lines, Rotations(c))
    BY <1>1, NothingMarked DEF Settled
  <2> QED
    BY <1>1, <2>1 DEF RotationInv, ClientOK
<1>2. TypeInv /\ RotationInv => WheelIsFree
  BY <1>1 DEF WheelIsFree
<1> QED
  BY <1>2, RotationAlways, PTL

\* The rotation that a player who joined takes back is the one that he had turned, whatever
\* he and the others have done since.  (TakesBackOwn)
THEOREM PlayersTakeBackOwn == Spec => []TakesBackOwn
<1>1. ASSUME TypeInv, RotationInv, NEW c \in Client \ {Host}, down[c] # <<>>,
             Head(down[c]).body.type = "ChangeRejected", Head(down[c]).body.req.kind \notin Moves
      PROVE  rotating[c] = Head(down[c]).body.req.shown
  <2> DEFINE m == Head(down[c])
             q == <<"down", c>>
  <2>1. q \in Queues /\ lines[q] = down[c] /\ lines \in Lines
    BY <1>1, LinesMeaning, LinesType DEF TypeInv
  <2>2. m \in ToClient(c)
    <3>1. down[c] \in Seq(ToClient(c))
      BY <1>1 DEF TypeInv, ChannelsOK, DownOK
    <3> QED
      BY <1>1, <3>1, HeadTailProperties
  <2>3. m.body.req.sender = c
    BY <1>1, <2>2 DEF ToClient
  <2>4. <<q, m>> \in Rotations(c)
    BY <1>1, <2>2, <2>3, MarksDown
  <2> HIDE DEF q
  <2>5. At(lines, Rotations(c), q, 1) /\ lines[q][1] = m
    BY <1>1, <2>1, <2>4, HeadAt
  <2>6. ShownIs(lines, c, rotating[c])
    BY <1>1 DEF RotationInv, ClientOK, PathOK
  <2> QED
    BY <2>1, <2>5, <2>6 DEF ShownIs
<1>2. TypeInv /\ RotationInv => TakesBackOwn
  BY <1>1 DEF TakesBackOwn
<1> QED
  BY <1>2, RotationAlways, PTL

\* The places of the round trip of c are those of its marks.
LEMMA RoundTripsMarked ==
  ASSUME ChannelsOK, NEW c \in Client, NEW t
  PROVE  t \in RoundTrips(c) <=>
           \E q \in Queues, i \in Nat : t = <<q, i>> /\ At(lines, Tokens(c), q, i)
<1>1. t \in RoundTrips(c) <=>
        \E q \in Queues : \E i \in DOMAIN Queue(q) : OfRoundTrip(c, q, Queue(q)[i]) /\ t = <<q, i>>
  BY DEF RoundTrips
<1>2. ASSUME NEW q \in Queues, NEW i
      PROVE  i \in DOMAIN Queue(q) /\ OfRoundTrip(c, q, Queue(q)[i])
               <=> i \in Nat /\ At(lines, Tokens(c), q, i)
  <2>1. lines[q] \in Seq(Packets) /\ lines[q] = Queue(q)
    BY LinesType DEF Lines, lines
  <2>2. i \in DOMAIN Queue(q) => i \in Nat /\ Queue(q)[i] \in Packets
    BY <2>1, LenProperties
  <2> QED
    BY <2>1, <2>2 DEF At, Tokens
<1> QED
  BY <1>1, <1>2

\* A program waits exactly while one round trip of its own is under way, never while there are
\* two, and what it has not requested yet waits with it.  (OneRoundTrip)
THEOREM OneRoundTripAlways == Spec => []OneRoundTrip
<1>1. ASSUME TypeInv, RotationInv, NEW c \in Client
      PROVE  Cardinality(RoundTrips(c)) = IF waiting[c] THEN 1 ELSE 0
  <2>1. ChannelsOK /\ Sole(lines, Tokens(c)) /\ (waiting[c] <=> Some(lines, Tokens(c)))
    BY <1>1 DEF RotationInv, ClientOK, TypeInv
  <2>2. \A t : t \in RoundTrips(c) <=>
          \E q \in Queues, i \in Nat : t = <<q, i>> /\ At(lines, Tokens(c), q, i)
    BY <2>1, RoundTripsMarked
  <2>3. CASE waiting[c]
    <3>1. PICK q \in Queues, i \in Nat : At(lines, Tokens(c), q, i)
      BY <2>1, <2>3 DEF Some
    <3>2. \A r \in Queues, j \in Nat : At(lines, Tokens(c), r, j) => r = q /\ j = i
      BY <2>1, <3>1 DEF Sole
    <3>3. RoundTrips(c) = {<<q, i>>}
      BY <2>2, <3>1, <3>2
    <3> QED
      BY <2>3, <3>3, FS_Singleton
  <2>4. CASE ~waiting[c]
    <3>1. RoundTrips(c) = {}
      BY <2>1, <2>2, <2>4 DEF Some
    <3> QED
      BY <2>4, <3>1, FS_EmptySet
  <2> QED
    BY <2>3, <2>4
<1>2. TypeInv /\ RotationInv => OneRoundTrip
  BY <1>1 DEF OneRoundTrip, TypeInv, WheelOK
<1> QED
  BY <1>2, RotationAlways, PTL
=============================================================================
