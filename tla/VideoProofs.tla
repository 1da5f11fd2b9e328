---------------------------- MODULE VideoProofs -----------------------------
(***************************************************************************)
(* Proofs about Video: whatever is lost, a picture is decoded with the     *)
(* one it was encoded with, for all sizes of numbers and histories, if     *)
(* the sender hears in time (Timely) and stays (SenderStays).              *)
(***************************************************************************)
EXTENDS Video, TLAPS

\* Acknowledgements arrive within a third of a lap of the numbers.
Timely == 3 * MaxUnacked <= Ids + 1

\* The sender never leaves, which Video does not survive (see the README).
SenderStays == MaxReturns["sender"] = 0

Frame == [id : Nat, picture : Nat]
Packet == [id : Nat, ref : Nat, picture : Nat, base : Nat]
History == [pictures : Seq(Frame), acked : BOOLEAN]

TypeOK ==
  /\ playersById \in SUBSET Players /\ returns \in [Players -> Nat]
  /\ taken \in Nat /\ shown \in Nat
  /\ outbound \in [Links -> History] /\ inbound \in [Links -> Seq(Frame)]
  /\ frames \in [Links -> Seq(Packet)] /\ acks \in [Links -> Seq(Nat)]
  /\ uncompressJobs \in Seq(Packet) /\ compressJobs \in Seq(Nat)

-----------------------------------------------------------------------------
(* The invariant of one link: its two histories, the set W of the packets  *)
(* and the sequence A of the acknowledgements on their way.  Pictures tell *)
(* which frame came first; c is the picture that begins the lap the sender *)
(* is in, and a frame is of this lap if its picture is not before c.       *)

Ascending(s) == \A i, j \in DOMAIN s : i < j => s[i].picture < s[j].picture

Refers(w) == w.ref # w.id

\* The sender's history: consecutive numbers of this lap.
HistoryOK(out, c) ==
  LET P == out.pictures IN
  /\ P = <<>> => ~out.acked
  /\ Ascending(P)
  /\ Len(P) <= MaxUnacked
  /\ \A i \in DOMAIN P : /\ P[i].id = P[1].id + i - 1 /\ P[i].id < Ids
                         /\ P[i].picture >= c /\ P[i].picture > 0
  /\ ~out.acked => \A i \in DOMAIN P : P[i].id = i - 1

\* A frame of this lap is in the history or before it.
Known(P, g) ==
  /\ P # <<>>
  /\ \/ g.picture < P[1].picture /\ g.id < P[1].id
     \/ \E i \in DOMAIN P : P[i].id = g.id /\ P[i].picture = g.picture

\* The frames received or on their way: those of the lap before are of its end.
FramesOK(out, S, c) ==
  /\ \A g \in S : /\ g.id < Ids /\ g.picture > 0 /\ g.picture <= MaxPictures
                  /\ out.pictures # <<>>
                  /\ g.picture >= c => Known(out.pictures, g)
                  /\ g.picture < c => g.id + 2 * MaxUnacked > Ids
  /\ \A g, h \in S : g.picture < h.picture /\ (h.picture < c \/ g.picture >= c) => g.id < h.id

\* The receiver's history: short, or with frames of the lap before and then
\* only the first ones of this lap.
ReceivedOK(in, c) ==
  /\ Ascending(in)
  /\ \A i \in DOMAIN in :
       /\ in[1].picture < c /\ in[i].picture >= c => in[i].id < MaxUnacked
       /\ in[1].picture >= c => in[i].id < in[1].id + MaxUnacked

\* What a packet refers to, the receiver has, and its sender has heard so.
HasReference(in, A, w) ==
  \E k \in 1 .. Len(in) - Len(A) : in[k].id = w.ref /\ in[k].picture = w.base

WayOK(out, in, W, A, c) ==
  /\ \A w \in W :
       /\ \A i \in DOMAIN in : in[i].picture < w.picture
       /\ ~Refers(w) => w.base = NoPicture /\ (w.picture >= c => w.id < MaxUnacked)
       /\ Refers(w) => /\ w.base <= out.pictures[1].picture
                       /\ w.base < w.picture /\ w.id < w.ref + MaxUnacked
                       /\ w.picture >= c => w.base >= c
                       /\ HasReference(in, A, w)
  /\ \A v, w \in W : Refers(v) /\ Refers(w) /\ v.picture < w.picture => v.base <= w.base

\* The acknowledgements on their way are of the last frames received, in order;
\* what the sender refers to is before them.
AcksOK(out, in, A) ==
  /\ Len(A) <= Len(in)
  /\ \A i \in DOMAIN A : A[i] = in[Len(in) - Len(A) + i].id
  /\ out.acked => \E k \in 1 .. Len(in) - Len(A) : in[k] = out.pictures[1]

LinkOK(out, in, W, A, c) ==
  /\ HistoryOK(out, c)
  /\ FramesOK(out, ToSet(in) \cup W, c)
  /\ ReceivedOK(in, c)
  /\ WayOK(out, in, W, A, c)
  /\ AcksOK(out, in, A)

-----------------------------------------------------------------------------
(* The operators of VideoFrameHistory.cs.                                  *)

\* The first frame with a number is the one that is found.
LEMMA FindsFirst ==
  ASSUME NEW h \in Seq(Frame), NEW k \in 1 .. Len(h),
         \A j \in 1 .. k - 1 : h[j].id # h[k].id
  PROVE  Find(h, h[k].id) = k
<1> DEFINE I == {i \in 1 .. Len(h) : h[i].id = h[k].id}
<1>1. k \in I /\ \A y \in I : k =< y
  OBVIOUS
<1>2. \A x \in I : (\A y \in I : x =< y) => x = k
  BY <1>1
<1>3. Find(h, h[k].id) = IF I # {} THEN CHOOSE x \in I : \A y \in I : x =< y ELSE 0
  BY DEF Find, SelectInSeq, Min
<1> QED BY <1>1, <1>2, <1>3

\* An acknowledgement of a frame in the history makes it the first one.
LEMMA AckFindsFrame ==
  ASSUME NEW out \in History, NEW k \in 1 .. Len(out.pictures),
         \A i \in 1 .. Len(out.pictures) : out.pictures[i].id = out.pictures[1].id + i - 1
  PROVE  AckFrame(out, out.pictures[k].id) =
           [pictures |-> SubSeq(out.pictures, k, Len(out.pictures)), acked |-> TRUE]
<1> DEFINE P == out.pictures
           I == {i \in 1 .. Len(P) : P[i].id >= P[k].id}
<1>0. P \in Seq(Frame) /\ \A i \in 1 .. Len(P) : P[i].id \in Nat
  <2>1. P \in Seq(Frame)
    BY DEF History
  <2>2. \A i \in 1 .. Len(P) : P[i] \in Frame
    BY <2>1
  <2> QED BY <2>1, <2>2 DEF Frame
<1>1. k \in I /\ \A y \in I : k =< y
  <2>1. \A y \in 1 .. Len(P) : P[y].id = P[1].id + y - 1
    OBVIOUS
  <2>2. 1 \in 1 .. Len(P) /\ P[1].id \in Nat
    BY <1>0
  <2>3. k \in I
    BY <1>0
  <2>4. \A y \in I : P[1].id + y - 1 >= P[1].id + k - 1
    BY <2>1
  <2> HIDE DEF P
  <2> QED BY <2>2, <2>3, <2>4
<1>2. \A x \in I : (\A y \in I : x =< y) => x = k
  BY <1>1
<1>3. SelectInSeq(P, LAMBDA f : f.id >= P[k].id) =
        IF I # {} THEN CHOOSE x \in I : \A y \in I : x =< y ELSE 0
  BY DEF SelectInSeq, Min
<1>4. SelectInSeq(P, LAMBDA f : f.id >= P[k].id) = k
  BY <1>1, <1>2, <1>3
<1>5. P # <<>> /\ Last(P).id >= P[k].id
  <2>1. Len(P) \in 1 .. Len(P) /\ 1 \in 1 .. Len(P) /\ k <= Len(P) /\ P # <<>>
    BY <1>0
  <2>2. P[Len(P)].id = P[1].id + Len(P) - 1 /\ P[k].id = P[1].id + k - 1 /\ P[1].id \in Nat
    BY <1>0, <2>1
  <2> QED BY <2>1, <2>2 DEF Last
<1> QED BY <1>4, <1>5 DEF AckFrame

\* A number after the last of a lap is 0, and the next one otherwise.
LEMMA Wraps ==
  ASSUME NEW n \in Nat, n < Ids
  PROVE  (n + 1) % Ids = IF n + 1 = Ids THEN 0 ELSE n + 1
BY VideoAssumption

\* AddFrame in the two cases.
LEMMA AddsFrame ==
  ASSUME NEW out \in History, NEW c \in Nat, HistoryOK(out, c), NEW picture \in Nat
  PROVE  LET P == out.pictures
             f == [id |-> 0, picture |-> picture]
             g == [id |-> P[Len(P)].id + 1, picture |-> picture]
         IN  \/ /\ P = <<>> \/ P[Len(P)].id + 1 = Ids
                /\ AddFrame(out, picture) = [pictures |-> <<f>>, acked |-> FALSE]
             \/ /\ P # <<>> /\ P[Len(P)].id + 1 < Ids
                /\ AddFrame(out, picture) = [pictures |-> Append(P, g), acked |-> out.acked]
<1> DEFINE P == out.pictures
<1>0. P \in Seq(Frame) /\ out = [pictures |-> P, acked |-> out.acked]
  BY DEF History
<1>1. CASE P = <<>>
  BY <1>0, <1>1 DEF AddFrame, NextId
<1>2. CASE P # <<>>
  <2>1. P[Len(P)].id \in Nat /\ P[Len(P)].id < Ids
    <3>1. Len(P) \in DOMAIN P
      BY <1>0, <1>2
    <3>2. P[Len(P)] \in Frame
      BY <1>0, <3>1
    <3>3. P[Len(P)].id < Ids
      BY <3>1 DEF HistoryOK
    <3> QED BY <3>2, <3>3 DEF Frame
  <2>2. NextId(out) = IF P[Len(P)].id + 1 = Ids THEN 0 ELSE P[Len(P)].id + 1
    BY <1>2, <2>1, Wraps DEF NextId, Last
  <2>3. CASE P[Len(P)].id + 1 = Ids
    BY <1>2, <2>2, <2>3 DEF AddFrame
  <2>4. CASE P[Len(P)].id + 1 # Ids
    <3>1. P[Len(P)].id + 1 < Ids /\ NextId(out) # 0
      BY <2>1, <2>2, <2>4, VideoAssumption
    <3>2. AddFrame(out, picture) =
            [out EXCEPT !.pictures = Append(P, [id |-> P[Len(P)].id + 1, picture |-> picture])]
      BY <2>2, <2>4, <3>1 DEF AddFrame
    <3> QED BY <1>0, <1>2, <3>1, <3>2
  <2> QED BY <2>3, <2>4
<1> QED BY <1>1, <1>2

-----------------------------------------------------------------------------
(* A link's steps.                                                         *)

\* What the provers do not see in larger obligations.
LEMMA Orders ==
  /\ \A x, y, z \in Nat : x < y /\ y <= z => x < z
  /\ \A x, y, z \in Nat : x <= y /\ y <= z => x <= z
OBVIOUS

\* A bound that moves on remains one.
LEMMA FurtherOn ==
  ASSUME NEW x \in Nat, NEW y \in Nat, NEW z \in Nat, NEW m \in Nat, x < y + m, y <= z
  PROVE  x < z + m
OBVIOUS

\* A bound plus a number is one.
LEMMA Widens ==
  ASSUME NEW x \in Nat, NEW y \in Nat, NEW m \in Nat, x < m
  PROVE  x < y + m
OBVIOUS

\* Positions counted from another frame.
LEMMA Shifts == \A a, q, x \in Nat : a + (x + q - 1) - 1 = (a + q - 1) + x - 1
OBVIOUS

\* A frame is its number and its picture.
LEMMA SameFrame ==
  ASSUME NEW f \in Frame, NEW g \in Frame, f.id = g.id, f.picture = g.picture
  PROVE  f = g
BY DEF Frame

\* What remains of a channel when its i-th element has arrived.
LEMMA Remaining ==
  ASSUME NEW T, NEW A \in Seq(T), NEW i \in 1 .. Len(A)
  PROVE  LET B == SubSeq(A, i + 1, Len(A)) IN
         /\ B \in Seq(T) /\ Len(B) = Len(A) - i /\ DOMAIN B = 1 .. Len(A) - i
         /\ \A x \in 1 .. Len(A) - i : B[x] = A[x + i] /\ x + i \in 1 .. Len(A)
<1>1. i + 1 \in Nat /\ i + 1 <= Len(A) + 1 /\ Len(A) \in Nat /\ i \in Nat
  OBVIOUS
<1>2. \A x \in i + 1 .. Len(A) : A[x] \in T
  BY <1>1
<1>3. SubSeq(A, i + 1, Len(A)) \in Seq(T)
  BY <1>1, <1>2
<1>4. Len(SubSeq(A, i + 1, Len(A))) = Len(A) - i
  BY <1>1
<1>5. \A x \in 1 .. Len(A) - i : SubSeq(A, i + 1, Len(A))[x] = A[x + i]
  BY <1>1
<1>6. \A x \in 1 .. Len(A) - i : x + i \in 1 .. Len(A)
  BY <1>1
<1> QED BY <1>3, <1>4, <1>5, <1>6

\* What holds of frames holds of fewer.
LEMMA FewerFrames ==
  ASSUME NEW out, NEW S, NEW T, NEW c, FramesOK(out, S, c),
         \A g \in T : \E h \in S : h.id = g.id /\ h.picture = g.picture
  PROVE  FramesOK(out, T, c)
<1>1. ASSUME NEW g \in T
      PROVE  /\ g.id < Ids /\ g.picture > 0 /\ g.picture <= MaxPictures
             /\ out.pictures # <<>>
             /\ g.picture >= c => Known(out.pictures, g)
             /\ g.picture < c => g.id + 2 * MaxUnacked > Ids
  <2>1. PICK h \in S : h.id = g.id /\ h.picture = g.picture
    OBVIOUS
  <2>2. /\ h.id < Ids /\ h.picture > 0 /\ h.picture <= MaxPictures
        /\ out.pictures # <<>>
        /\ h.picture >= c => Known(out.pictures, h)
        /\ h.picture < c => h.id + 2 * MaxUnacked > Ids
    BY DEF FramesOK
  <2>3. Known(out.pictures, h) => Known(out.pictures, g)
    BY <2>1 DEF Known
  <2> QED BY <2>1, <2>2, <2>3
<1>2. ASSUME NEW g \in T, NEW h \in T, g.picture < h.picture, h.picture < c \/ g.picture >= c
      PROVE  g.id < h.id
  <2>1. PICK x \in S : x.id = g.id /\ x.picture = g.picture
    OBVIOUS
  <2>2. PICK y \in S : y.id = h.id /\ y.picture = h.picture
    OBVIOUS
  <2>3. x.picture < y.picture /\ (y.picture < c \/ x.picture >= c)
    BY <1>2, <2>1, <2>2
  <2>4. x.id < y.id
    BY <2>3 DEF FramesOK
  <2> QED BY <2>1, <2>2, <2>4
<1> QED BY <1>1, <1>2 DEF FramesOK

\* Fewer packets are on their way.
LEMMA FewerPackets ==
  ASSUME NEW out, NEW in, NEW W, NEW A, NEW c, LinkOK(out, in, W, A, c), NEW V \in SUBSET W
  PROVE  LinkOK(out, in, V, A, c)
<1>1. FramesOK(out, ToSet(in) \cup V, c)
  BY FewerFrames DEF LinkOK
<1>2. WayOK(out, in, V, A, c)
  BY DEF LinkOK, WayOK
<1> QED BY <1>1, <1>2 DEF LinkOK

\* The values of what a link keeps.
LEMMA FrameTypes ==
  ASSUME NEW in \in Seq(Frame), NEW W \in SUBSET Packet
  PROVE  /\ \A i \in 1 .. Len(in) : /\ in[i] \in Frame /\ in[i].id \in Nat /\ in[i].picture \in Nat
                                    /\ in[i] \in ToSet(in) \cup W
         /\ \A w \in W : w.id \in Nat /\ w.ref \in Nat /\ w.picture \in Nat /\ w.base \in Nat
         /\ \A g \in ToSet(in) \cup W : g.id \in Nat /\ g.picture \in Nat
<1>1. \A i \in 1 .. Len(in) : in[i] \in Frame
  OBVIOUS
<1>2. \A g \in ToSet(in) : \E i \in 1 .. Len(in) : g = in[i]
  BY DEF ToSet
<1> QED BY <1>1, <1>2 DEF Frame, Packet, ToSet

\* No number stands for two frames that the receiver has, as he has the end of
\* the lap before and the beginning of this one at most.
LEMMA NumbersDiffer ==
  ASSUME Timely, NEW out, NEW in \in Seq(Frame), NEW W \in SUBSET Packet, NEW c \in Nat,
         FramesOK(out, ToSet(in) \cup W, c), ReceivedOK(in, c),
         NEW k \in 1 .. Len(in), NEW j \in 1 .. k - 1
  PROVE  in[j].id # in[k].id
<1> DEFINE S == ToSet(in) \cup W
<1>1. j \in 1 .. Len(in) /\ 1 \in 1 .. Len(in) /\ k \in Nat /\ j < k /\ 1 <= j
  OBVIOUS
<1>2. /\ in[j] \in S /\ in[k] \in S
      /\ in[j].id \in Nat /\ in[k].id \in Nat /\ in[1].picture \in Nat
      /\ in[j].picture \in Nat /\ in[k].picture \in Nat
  BY <1>1, FrameTypes
<1>3. in[j].picture < in[k].picture /\ (j = 1 \/ in[1].picture < in[j].picture)
  BY <1>1 DEF ReceivedOK, Ascending
<1>4. CASE in[k].picture < c \/ in[j].picture >= c
  <2>1. in[j].id < in[k].id
    BY <1>2, <1>3, <1>4 DEF FramesOK
  <2> QED BY <1>2, <2>1
<1>5. CASE in[k].picture >= c /\ in[j].picture < c
  <2>1. in[1].picture < c
    BY <1>2, <1>3, <1>5
  <2>2. in[k].id < MaxUnacked
    BY <1>1, <1>5, <2>1 DEF ReceivedOK
  <2>3. in[j].id + 2 * MaxUnacked > Ids
    BY <1>2, <1>5 DEF FramesOK
  <2> QED BY <1>2, <2>2, <2>3, VideoAssumption DEF Timely
<1> QED BY <1>2, <1>4, <1>5

\* The receiver's history from the k-th frame on, with a new one.
LEMMA FromOn ==
  ASSUME NEW in \in Seq(Frame), NEW k \in 1 .. Len(in) + 1, NEW f \in Frame
  PROVE  LET new == Append(SubSeq(in, k, Len(in)), f) IN
         /\ new \in Seq(Frame) /\ Len(new) = Len(in) - k + 2
         /\ DOMAIN new = 1 .. Len(in) - k + 2
         /\ \A i \in 1 .. Len(in) - k + 1 : new[i] = in[i + k - 1]
         /\ new[Len(in) - k + 2] = f
<1> DEFINE s == SubSeq(in, k, Len(in))
<1>1. Len(in) \in Nat /\ k \in Nat /\ k >= 1 /\ k <= Len(in) + 1
  OBVIOUS
<1>2. s \in Seq(Frame)
  <2>1. \A i \in k .. Len(in) : in[i] \in Frame
    BY <1>1
  <2> QED BY <1>1, <2>1
<1>3. Len(s) = Len(in) - k + 1 /\ \A i \in 1 .. Len(in) - k + 1 : s[i] = in[i + k - 1]
  BY <1>1
<1> HIDE DEF s
<1>4. Append(s, f) \in Seq(Frame) /\ Len(Append(s, f)) = Len(s) + 1
  BY <1>2
<1>5. \A i \in 1 .. Len(s) : Append(s, f)[i] = s[i]
  BY <1>2
<1>6. Append(s, f)[Len(s) + 1] = f
  BY <1>2
<1>7. DOMAIN Append(s, f) = 1 .. Len(s) + 1
  BY <1>4
<1> QED BY <1>1, <1>3, <1>4, <1>5, <1>6, <1>7 DEF s

\* The receiver's history begins with what the packet refers to, or as it did.
BeginsAt(in, A, p, k) ==
  \/ ~Refers(p) /\ k = 1
  \/ Refers(p) /\ k \in 1 .. Len(in) - Len(A) /\ in[k].id = p.ref /\ in[k].picture = p.base

TakesFrom(in, A, p) ==
  \E k \in 1 .. Len(in) + 1 :
    /\ BeginsAt(in, A, p, k)
    /\ Received(in, p) = Append(SubSeq(in, k, Len(in)), [id |-> p.id, picture |-> p.picture])

\* What a packet gives, if the receiver has what it refers to.
LEMMA DecodesRight ==
  ASSUME Timely, NEW out, NEW in \in Seq(Frame), NEW W \in SUBSET Packet, NEW A \in Seq(Nat),
         NEW c \in Nat, LinkOK(out, in, W, A, c), NEW p \in W
  PROVE  TakesFrom(in, A, p)
<1>0. Len(A) \in Nat /\ Len(in) \in Nat
  OBVIOUS
<1>1. CASE ~Refers(p)
  <2>1. p.base = NoPicture
    BY <1>1 DEF LinkOK, WayOK
  <2>2. Decoded(in, p) = p.picture
    BY <1>1, <2>1, VideoAssumption DEF Decoded, Refers, NoPicture, Missing
  <2>3. SubSeq(in, 1, Len(in)) = in
    OBVIOUS
  <2>4. Received(in, p) = Append(SubSeq(in, 1, Len(in)), [id |-> p.id, picture |-> p.picture])
    BY <1>1, <2>2, <2>3 DEF Received, Refers
  <2>5. 1 \in 1 .. Len(in) + 1
    BY <1>0
  <2> QED BY <1>1, <2>4, <2>5 DEF TakesFrom, BeginsAt
<1>2. CASE Refers(p)
  <2>1. HasReference(in, A, p)
    BY <1>2 DEF LinkOK, WayOK
  <2>2. PICK k \in 1 .. Len(in) - Len(A) : in[k].id = p.ref /\ in[k].picture = p.base
    BY <2>1 DEF HasReference
  <2>3. k \in 1 .. Len(in)
    BY <1>0
  <2>4. FramesOK(out, ToSet(in) \cup W, c) /\ ReceivedOK(in, c)
    BY DEF LinkOK
  <2>5. \A j \in 1 .. k - 1 : in[j].id # in[k].id
    BY <2>3, <2>4, NumbersDiffer
  <2>6. Find(in, in[k].id) = k
    BY <2>3, <2>5, FindsFirst
  <2>7. in[k] \in ToSet(in) \cup W
    BY <2>3, FrameTypes
  <2>8. in[k].picture <= MaxPictures /\ in[k].picture \in Nat
    BY <2>3, <2>4, <2>7, FrameTypes DEF FramesOK
  <2>9. Find(in, p.ref) = k /\ k # 0
    BY <2>2, <2>3, <2>6
  <2>10. Decoded(in, p) = p.picture
    BY <1>2, <2>2, <2>8, <2>9, VideoAssumption DEF Decoded, Refers, Missing
  <2>11. ClearHistoryUntilThisFrame(in, p.ref) = SubSeq(in, k, Len(in))
    BY <2>9 DEF ClearHistoryUntilThisFrame
  <2>12. Received(in, p) = Append(SubSeq(in, k, Len(in)), [id |-> p.id, picture |-> p.picture])
    BY <1>2, <2>10, <2>11 DEF Received, Refers
  <2>13. k \in 1 .. Len(in) + 1
    BY <1>0
  <2> QED BY <1>2, <2>2, <2>12, <2>13 DEF TakesFrom, BeginsAt
<1> QED BY <1>1, <1>2

\* A packet arrives, and those before it never will: the receiver keeps his
\* history from the reference on, or all of it if there is none.
LEMMA ReceivesAfter ==
  ASSUME NEW out \in History, NEW in \in Seq(Frame), NEW W \in SUBSET Packet, NEW A \in Seq(Nat),
         NEW c \in Nat, LinkOK(out, in, W, A, c), NEW p \in W, NEW V \in SUBSET W,
         \A w \in V : w.picture > p.picture,
         NEW k \in 1 .. Len(in) + 1, BeginsAt(in, A, p, k)
  PROVE  LinkOK(out, Append(SubSeq(in, k, Len(in)), [id |-> p.id, picture |-> p.picture]),
                V, Append(A, p.id), c)
<1> DEFINE f == [id |-> p.id, picture |-> p.picture]
           new == Append(SubSeq(in, k, Len(in)), f)
           B == Append(A, p.id)
           n == Len(in) - k + 2
           S == ToSet(in) \cup W
<1>0. /\ Len(A) \in Nat /\ Len(in) \in Nat /\ k \in Nat /\ k >= 1 /\ k <= Len(in) + 1
      /\ Len(A) <= Len(in)
      /\ \A i \in DOMAIN A : A[i] = in[Len(in) - Len(A) + i].id
      /\ \A i \in 1 .. Len(in) - k + 1 : i + k - 1 \in 1 .. Len(in)
      /\ n \in Nat /\ n >= 1
  BY DEF LinkOK, AcksOK
<1>1. p.id \in Nat /\ p.ref \in Nat /\ p.picture \in Nat /\ p.base \in Nat /\ p \in S
  BY FrameTypes
<1>2. f \in Frame
  BY <1>1 DEF Frame
<1>3. /\ new \in Seq(Frame) /\ Len(new) = n
      /\ DOMAIN new = 1 .. n
      /\ \A i \in 1 .. n - 1 : new[i] = in[i + k - 1]
      /\ new[n] = f
  <2>1. n - 1 = Len(in) - k + 1
    BY <1>0
  <2> QED BY <1>2, <2>1, FromOn
<1>4. /\ Len(B) = Len(A) + 1 /\ DOMAIN B = 1 .. Len(A) + 1
      /\ \A i \in 1 .. Len(A) : B[i] = A[i]
      /\ B[Len(A) + 1] = p.id
  BY <1>1
<1>5. /\ \A i \in 1 .. Len(in) : in[i] \in S /\ in[i].id \in Nat /\ in[i].picture \in Nat
      /\ \A w \in W : w.id \in Nat /\ w.ref \in Nat /\ w.picture \in Nat /\ w.base \in Nat
  BY FrameTypes
<1>6. /\ HistoryOK(out, c) /\ FramesOK(out, S, c) /\ ReceivedOK(in, c)
      /\ WayOK(out, in, W, A, c) /\ AcksOK(out, in, A)
  BY DEF LinkOK
<1>7. /\ Refers(p) => k \in 1 .. Len(in) /\ k <= Len(in) - Len(A)
                      /\ in[k].id = p.ref /\ in[k].picture = p.base
      /\ ~Refers(p) => k = 1
  BY <1>0 DEF BeginsAt
<1>8. f.id = p.id /\ f.picture = p.picture
  OBVIOUS
<1>9. \A i \in 1 .. n : i = n \/ i \in 1 .. n - 1
  <2>1. n \in Nat
    BY <1>0
  <2> HIDE DEF n
  <2> QED BY <2>1
<1> HIDE DEF f, new, B, n, S
\* A frame but the last one was there before.
<1>10. \A i \in 1 .. n - 1 : \E x \in 1 .. Len(in) : x >= k /\ x = i + k - 1 /\ new[i] = in[x]
  <2>1. ASSUME NEW i \in 1 .. n - 1
        PROVE  i + k - 1 \in 1 .. Len(in) /\ i + k - 1 >= k /\ new[i] = in[i + k - 1]
    BY <1>0, <1>3 DEF n
  <2> QED BY <2>1
<1>20. /\ \A i, j \in 1 .. Len(in) : i < j => in[i].picture < in[j].picture
       /\ \A i \in 1 .. Len(in) : in[1].picture < c /\ in[i].picture >= c => in[i].id < MaxUnacked
       /\ \A i \in 1 .. Len(in) : in[1].picture >= c => in[i].id < in[1].id + MaxUnacked
  BY <1>6 DEF ReceivedOK, Ascending
<1>21. MaxUnacked \in Nat
  BY VideoAssumption
<1>11. FramesOK(out, ToSet(new) \cup V, c)
  <2>1. ASSUME NEW g \in ToSet(new) \cup V
        PROVE  \E h \in S : h.id = g.id /\ h.picture = g.picture
    <3>1. CASE g \in V
      BY <3>1 DEF S
    <3>2. CASE g \in ToSet(new)
      <4>1. PICK i \in 1 .. n : g = new[i]
        BY <1>3, <3>2 DEF ToSet
      <4>2. CASE i = n
        BY <1>1, <1>3, <1>8, <4>1, <4>2
      <4>3. CASE i \in 1 .. n - 1
        <5>1. PICK x \in 1 .. Len(in) : new[i] = in[x]
          BY <1>10, <4>3
        <5> QED BY <1>5, <4>1, <5>1
      <4> QED BY <1>9, <4>2, <4>3
    <3> QED BY <3>1, <3>2
  <2>2. \A g \in ToSet(new) \cup V : \E h \in S : h.id = g.id /\ h.picture = g.picture
    BY <2>1
  <2> QED BY <1>6, <2>2, FewerFrames
<1>12. \A i \in 1 .. Len(in) : in[i].picture < p.picture
  BY <1>6 DEF WayOK
<1>13. Ascending(new)
  <2>1. ASSUME NEW i \in 1 .. n, NEW j \in 1 .. n, i < j
        PROVE  new[i].picture < new[j].picture
    <3>1. i \in 1 .. n - 1
      BY <1>0, <2>1
    <3>4. PICK x \in 1 .. Len(in) : x = i + k - 1 /\ new[i] = in[x]
      BY <1>10, <3>1
    <3>2. CASE j = n
      BY <1>3, <1>8, <1>12, <3>2, <3>4
    <3>3. CASE j \in 1 .. n - 1
      <4>1. PICK y \in 1 .. Len(in) : y = j + k - 1 /\ new[j] = in[y]
        BY <1>10, <3>3
      <4>2. x < y
        BY <1>0, <2>1, <3>4, <4>1
      <4> QED BY <1>20, <3>4, <4>1, <4>2
    <3> QED BY <1>9, <3>2, <3>3
  <2> QED BY <1>3, <2>1 DEF Ascending
<1>14. ReceivedOK(new, c)
  <2>1. CASE Len(in) = 0
    <3>1. k = 1 /\ n = 1 /\ ~Refers(p)
      BY <1>0, <1>7, <2>1 DEF n
    <3>2. MaxUnacked > 0
      <4>1. out.pictures # <<>> /\ Len(out.pictures) <= MaxUnacked /\ out.pictures \in Seq(Frame)
        BY <1>1, <1>6 DEF FramesOK, HistoryOK, History
      <4> QED BY <4>1, VideoAssumption
    <3>3. DOMAIN new = {1} /\ new[1] = f
      BY <1>3, <3>1
    <3>4. f.id < f.id + MaxUnacked /\ ~(f.picture < c /\ f.picture >= c)
      BY <1>1, <1>8, <3>2, VideoAssumption
    <3> QED BY <1>13, <3>3, <3>4 DEF ReceivedOK
  <2>2. CASE Len(in) > 0
    <3>1. k \in 1 .. Len(in) /\ 1 \in 1 .. Len(in) /\ 1 \in 1 .. n - 1
      BY <1>0, <1>7, <2>2 DEF n
    <3>2. new[1] = in[k]
      BY <1>3, <3>1
    <3>3. in[1].picture <= in[k].picture /\ in[1].picture \in Nat /\ in[k].picture \in Nat
          /\ in[k].id \in Nat /\ in[1].id \in Nat
      <4>1. k = 1 \/ in[1].picture < in[k].picture
        BY <1>20, <3>1
      <4> QED BY <1>5, <3>1, <4>1
    <3>4. ASSUME NEW i \in 1 .. n, new[1].picture < c, new[i].picture >= c
          PROVE  new[i].id < MaxUnacked
      <4>1. in[1].picture < c
        BY <3>2, <3>3, <3>4
      <4>2. CASE i \in 1 .. n - 1
        <5>1. PICK x \in 1 .. Len(in) : new[i] = in[x]
          BY <1>10, <4>2
        <5> QED BY <1>20, <3>4, <4>1, <5>1
      <4>3. CASE i = n
        <5>1. p.picture >= c /\ new[i].id = p.id
          BY <1>3, <1>8, <3>4, <4>3
        <5>2. ~Refers(p)
          BY <1>5, <1>6, <1>7, <3>2, <3>3, <3>4, <5>1 DEF WayOK
        <5> QED BY <1>6, <5>1, <5>2 DEF WayOK
      <4> QED BY <1>9, <4>2, <4>3
    <3>5. ASSUME NEW i \in 1 .. n, new[1].picture >= c
          PROVE  new[i].id < new[1].id + MaxUnacked
      <4>1. CASE i \in 1 .. n - 1
        <5>1. PICK j \in 1 .. Len(in) : j >= k /\ new[i] = in[j]
          BY <1>10, <4>1
        <5>2. in[j].picture >= in[k].picture
          <6>1. k = j \/ in[k].picture < in[j].picture
            BY <1>0, <1>20, <3>1, <5>1
          <6> QED BY <1>5, <3>1, <5>1, <6>1
        <5>3. in[j].picture >= c /\ in[j].id \in Nat /\ in[j].picture \in Nat
          BY <1>5, <3>2, <3>3, <3>5, <5>1, <5>2
        <5>4. CASE in[1].picture < c
          <6>1. in[j].id < MaxUnacked
            BY <1>20, <5>1, <5>3, <5>4
          <6> QED BY <1>21, <3>2, <3>3, <5>1, <5>3, <6>1
        <5>5. CASE in[1].picture >= c
          <6>1. in[j].id < in[1].id + MaxUnacked
            BY <1>20, <5>1, <5>5
          <6>2. in[1].id <= in[k].id
            <7>1. CASE k = 1
              BY <3>3, <7>1
            <7>2. CASE k # 1
              <8>1. in[1].picture < in[k].picture
                BY <1>20, <3>1, <7>2
              <8>2. in[1].id < in[k].id
                BY <1>5, <1>6, <3>1, <5>5, <8>1 DEF FramesOK
              <8> QED BY <3>3, <8>2
            <7> QED BY <7>1, <7>2
          <6>3. in[j].id < in[k].id + MaxUnacked
            <7>1. in[1].id \in Nat /\ in[k].id \in Nat /\ in[j].id \in Nat
              BY <3>3, <5>3
            <7> QED BY <1>21, <6>1, <6>2, <7>1, FurtherOn
          <6> QED BY <3>2, <5>1, <6>3
        <5> QED BY <3>3, <5>4, <5>5
      <4>2. CASE i = n
        <5>1. new[i].id = p.id /\ in[k].picture < p.picture
          BY <1>3, <1>8, <1>12, <3>1, <4>2
        <5>2. CASE Refers(p)
          <6>1. p.id < p.ref + MaxUnacked
            BY <1>6, <5>2 DEF WayOK
          <6> QED BY <1>7, <3>2, <5>1, <5>2, <6>1
        <5>3. CASE ~Refers(p)
          <6>1. p.picture >= c
            BY <1>1, <3>2, <3>3, <3>5, <5>1
          <6>2. p.id < MaxUnacked
            BY <1>6, <5>3, <6>1 DEF WayOK
          <6>3. p.id < in[k].id + MaxUnacked
            BY <1>1, <1>21, <3>3, <6>2, Widens
          <6> QED BY <3>2, <5>1, <6>3
        <5> QED BY <5>2, <5>3
      <4> QED BY <1>9, <4>1, <4>2
    <3> QED BY <1>3, <1>13, <3>4, <3>5 DEF ReceivedOK
  <2> QED BY <1>0, <2>1, <2>2
<1>15. \A x \in 1 .. Len(in) - Len(A) : x >= k =>
         /\ x - k + 1 \in 1 .. Len(new) - Len(B)
         /\ new[x - k + 1] = in[x]
  <2>1. ASSUME NEW x \in 1 .. Len(in) - Len(A), x >= k
        PROVE  /\ x - k + 1 \in 1 .. Len(new) - Len(B)
               /\ new[x - k + 1] = in[x]
    <3>1. x - k + 1 \in 1 .. n - 1 /\ x - k + 1 + k - 1 = x
      BY <1>0, <2>1 DEF n
    <3>2. new[x - k + 1] = in[x]
      BY <1>3, <3>1
    <3>3. Len(new) - Len(B) = Len(in) - Len(A) - k + 1
      BY <1>0, <1>3, <1>4 DEF n
    <3> QED BY <1>0, <2>1, <3>2, <3>3
  <2> QED BY <2>1
\* Whatever is referred to from now on is not before the reference of p.
<1>16. \A x \in 1 .. Len(in) - Len(A) : (Refers(p) => in[x].picture >= p.base) => x >= k
  <2>1. ASSUME NEW x \in 1 .. Len(in) - Len(A), Refers(p) => in[x].picture >= p.base, ~(x >= k)
        PROVE  FALSE
    <3>1. x \in 1 .. Len(in) /\ x < k
      BY <1>0, <2>1
    <3>2. Refers(p)
      BY <1>7, <3>1
    <3>3. in[x].picture < in[k].picture
      BY <1>6, <1>7, <3>1, <3>2 DEF ReceivedOK, Ascending
    <3> QED BY <1>5, <1>7, <2>1, <3>1, <3>2, <3>3
  <2> QED BY <2>1
<1>17. WayOK(out, new, V, B, c)
  <2>1. ASSUME NEW w \in V, NEW i \in 1 .. n
        PROVE  new[i].picture < w.picture
    <3>1. w.picture > p.picture /\ w \in W
      OBVIOUS
    <3>2. CASE i = n
      BY <1>3, <1>8, <3>1, <3>2
    <3>3. CASE i \in 1 .. n - 1
      <4>1. PICK x \in 1 .. Len(in) : new[i] = in[x]
        BY <1>10, <3>3
      <4>2. in[x].picture < w.picture
        BY <1>6, <3>1 DEF WayOK
      <4> QED BY <4>1, <4>2
    <3> QED BY <1>9, <3>2, <3>3
  <2>2. ASSUME NEW w \in V, Refers(w)
        PROVE  HasReference(new, B, w)
    <3>1. w \in W /\ p.picture < w.picture
      OBVIOUS
    <3>2. HasReference(in, A, w)
      BY <1>6, <2>2, <3>1 DEF WayOK
    <3>3. PICK x \in 1 .. Len(in) - Len(A) : in[x].id = w.ref /\ in[x].picture = w.base
      BY <3>2 DEF HasReference
    <3>4. Refers(p) => w.base >= p.base
      <4>1. Refers(p) => p.base <= w.base
        BY <1>6, <2>2, <3>1 DEF WayOK
      <4> QED BY <1>1, <1>5, <3>1, <4>1
    <3>5. x >= k
      BY <1>16, <3>3, <3>4
    <3> QED BY <1>15, <3>3, <3>5 DEF HasReference
  <2>3. \A w \in V : w \in W
    OBVIOUS
  <2>4. \A w \in V :
          /\ ~Refers(w) => w.base = NoPicture /\ (w.picture >= c => w.id < MaxUnacked)
          /\ Refers(w) => /\ w.base <= out.pictures[1].picture
                          /\ w.base < w.picture /\ w.id < w.ref + MaxUnacked
                          /\ w.picture >= c => w.base >= c
    BY <1>6, <2>3 DEF WayOK
  <2>5. \A v, w \in V : Refers(v) /\ Refers(w) /\ v.picture < w.picture => v.base <= w.base
    BY <1>6, <2>3 DEF WayOK
  <2> QED BY <1>3, <2>1, <2>2, <2>4, <2>5 DEF WayOK
<1>18. AcksOK(out, new, B)
  <2>1. Len(B) <= Len(new)
    BY <1>0, <1>3, <1>4, <1>7 DEF n
  <2>2. ASSUME NEW i \in 1 .. Len(A) + 1
        PROVE  B[i] = new[Len(new) - Len(B) + i].id
    <3>1. CASE i = Len(A) + 1
      <4>1. Len(new) - Len(B) + i = n
        BY <1>0, <1>3, <1>4, <3>1
      <4> QED BY <1>3, <1>4, <1>8, <3>1, <4>1
    <3>2. CASE i \in 1 .. Len(A)
      <4> DEFINE j == Len(new) - Len(B) + i
      <4>1. j \in 1 .. n - 1 /\ j + k - 1 = Len(in) - Len(A) + i
        BY <1>0, <1>3, <1>4, <1>7, <3>2 DEF n
      <4>2. new[j] = in[Len(in) - Len(A) + i]
        BY <1>3, <4>1
      <4>3. A[i] = in[Len(in) - Len(A) + i].id
        BY <1>0, <3>2
      <4> QED BY <1>4, <3>2, <4>2, <4>3
    <3> QED BY <1>0, <3>1, <3>2
  <2>3. ASSUME out.acked
        PROVE  \E x \in 1 .. Len(new) - Len(B) : new[x] = out.pictures[1]
    <3>1. PICK x \in 1 .. Len(in) - Len(A) : in[x] = out.pictures[1]
      BY <1>6, <2>3 DEF AcksOK
    <3>2. x \in 1 .. Len(in)
      BY <1>0
    <3>3. Refers(p) => p.base <= in[x].picture
      BY <1>6, <3>1 DEF WayOK
    <3>4. x >= k
      BY <1>1, <1>5, <1>16, <3>2, <3>3
    <3> QED BY <1>15, <3>1, <3>4
  <2> QED BY <1>4, <2>1, <2>2, <2>3 DEF AcksOK
<1> QED BY <1>6, <1>11, <1>14, <1>17, <1>18 DEF LinkOK, new, B, f

\* The history that the sender keeps is part of the one he had.
PartOf(new, old) ==
  \A x \in DOMAIN new.pictures : \E y \in DOMAIN old.pictures : new.pictures[x] = old.pictures[y]

\* One of the acknowledgements arrives, and those before it never will.  One of
\* the lap before names nothing that the sender has.
LEMMA Acknowledged ==
  ASSUME Timely, NEW out \in History, NEW in \in Seq(Frame), NEW W \in SUBSET Packet,
         NEW A \in Seq(Nat), NEW c \in Nat, LinkOK(out, in, W, A, c), NEW i \in 1 .. Len(A)
  PROVE  /\ AckFrame(out, A[i]) \in History
         /\ LinkOK(AckFrame(out, A[i]), in, W, SubSeq(A, i + 1, Len(A)), c)
         /\ PartOf(AckFrame(out, A[i]), out)
<1> DEFINE P == out.pictures
           B == SubSeq(A, i + 1, Len(A))
           m == Len(in) - Len(A) + i
           S == ToSet(in) \cup W
<1>0. /\ Len(A) \in Nat /\ Len(in) \in Nat /\ i \in Nat /\ i >= 1 /\ i <= Len(A)
      /\ Len(A) <= Len(in)
      /\ \A x \in DOMAIN A : A[x] = in[Len(in) - Len(A) + x].id
      /\ DOMAIN A = 1 .. Len(A)
  BY DEF LinkOK, AcksOK
<1>1. /\ m \in 1 .. Len(in) /\ A[i] = in[m].id /\ m > Len(in) - Len(A)
  BY <1>0
<1>2. /\ Len(B) = Len(A) - i /\ DOMAIN B = 1 .. Len(A) - i
      /\ \A x \in 1 .. Len(A) - i : B[x] = A[x + i]
      /\ Len(in) - Len(B) = m
  <2>2. /\ Len(B) = Len(A) - i /\ DOMAIN B = 1 .. Len(A) - i
        /\ \A x \in 1 .. Len(A) - i : B[x] = A[x + i]
    BY Remaining
  <2>3. Len(in) - (Len(A) - i) = m
    BY <1>0
  <2> QED BY <2>2, <2>3
<1>3. P \in Seq(Frame) /\ Len(P) \in Nat /\ DOMAIN P = 1 .. Len(P) /\ out.acked \in BOOLEAN
  BY DEF History
<1>4. \A x \in 1 .. Len(P) : P[x] \in Frame /\ P[x].id \in Nat /\ P[x].picture \in Nat
  <2>1. \A x \in 1 .. Len(P) : P[x] \in Frame
    BY <1>3
  <2> QED BY <2>1 DEF Frame
<1>5. /\ \A x \in 1 .. Len(in) : in[x] \in Frame /\ in[x] \in S /\ in[x].id \in Nat /\ in[x].picture \in Nat
      /\ \A w \in W : w.id \in Nat /\ w.ref \in Nat /\ w.picture \in Nat /\ w.base \in Nat
      /\ \A g \in S : g.id \in Nat /\ g.picture \in Nat
  BY FrameTypes
<1>6. /\ HistoryOK(out, c) /\ FramesOK(out, S, c) /\ ReceivedOK(in, c)
      /\ WayOK(out, in, W, A, c) /\ AcksOK(out, in, A)
  BY DEF LinkOK
<1>7. P # <<>> /\ Len(P) >= 1 /\ 1 \in 1 .. Len(P)
  <2>1. P # <<>>
    BY <1>1, <1>5, <1>6 DEF FramesOK
  <2> QED BY <1>3, <2>1
<1>8. \A x \in 1 .. Len(in) : x < m => in[x].picture < in[m].picture
  BY <1>1, <1>6 DEF ReceivedOK, Ascending
<1>9. /\ \A x \in 1 .. Len(P) : P[x].id = P[1].id + x - 1 /\ P[x].id < Ids
                                 /\ P[x].picture >= c /\ P[x].picture > 0
      /\ Len(P) <= MaxUnacked
      /\ ~out.acked => \A x \in 1 .. Len(P) : P[x].id = x - 1
      /\ \A x, y \in 1 .. Len(P) : x < y => P[x].picture < P[y].picture
  BY <1>3, <1>6 DEF HistoryOK, Ascending
<1>10. out.acked => in[m].picture > P[1].picture
  <2>1. ASSUME out.acked
        PROVE  in[m].picture > P[1].picture
    <3>1. PICK x \in 1 .. Len(in) - Len(A) : in[x] = P[1]
      BY <1>6, <2>1 DEF AcksOK
    <3>2. x \in 1 .. Len(in) /\ x < m
      BY <1>0, <1>1
    <3>3. in[x].picture < in[m].picture
      BY <1>8, <3>2
    <3>4. in[m].picture \in Nat /\ P[1].picture \in Nat
      BY <1>1, <1>4, <1>5, <1>7
    <3> QED BY <3>1, <3>3, <3>4
  <2> QED BY <2>1
\* What is referred to is where it was.
<1>12. \A x : x \in 1 .. Len(in) - Len(A) => x \in 1 .. Len(in) - Len(B)
  <2>1. m >= Len(in) - Len(A) /\ m \in Nat /\ Len(in) - Len(A) \in Nat
    BY <1>0, <1>1
  <2>2. \A n, l, x \in Nat : x \in 1 .. l /\ n >= l => x \in 1 .. n
    OBVIOUS
  <2> QED BY <1>2, <2>1, <2>2
<1>13. \A w : HasReference(in, A, w) => HasReference(in, B, w)
  BY <1>12 DEF HasReference
<1> HIDE DEF P, B, m, S
<1>14. CASE in[m].picture < c
  <2>1. ~out.acked
    <3>1. P[1].picture >= c /\ P[1].picture \in Nat /\ in[m].picture \in Nat
      BY <1>1, <1>4, <1>5, <1>7, <1>9
    <3> QED BY <1>10, <1>14, <3>1
  <2>2. in[m].id + 2 * MaxUnacked > Ids
    BY <1>1, <1>5, <1>6, <1>14 DEF FramesOK
  <2>3. P[Len(P)].id = Len(P) - 1
    BY <1>3, <1>7, <1>9, <2>1
  <2>4. MaxUnacked \in Nat /\ Ids \in Nat /\ in[m].id \in Nat
    BY <1>1, <1>5, VideoAssumption
  <2>5. in[m].id >= MaxUnacked
    BY <2>2, <2>4 DEF Timely
  <2>6. ~(P[Len(P)].id >= A[i])
    BY <1>1, <1>3, <1>9, <2>3, <2>4, <2>5
  <2>7. AckFrame(out, A[i]) = out
    BY <2>6 DEF AckFrame, Last, P
  <2>8. WayOK(out, in, W, B, c)
    BY <1>6, <1>13 DEF WayOK
  <2>9. AcksOK(out, in, B)
    <3>1. Len(B) <= Len(in)
      BY <1>0, <1>2
    <3>2. ASSUME NEW x \in 1 .. Len(A) - i
          PROVE  B[x] = in[Len(in) - Len(B) + x].id
      <4>1. x + i \in 1 .. Len(A) /\ Len(in) - Len(A) + (x + i) = Len(in) - Len(B) + x
        BY <1>0, <1>2
      <4> QED BY <1>0, <1>2, <4>1
    <3> QED BY <1>2, <2>1, <3>1, <3>2 DEF AcksOK
  <2> QED BY <1>6, <2>7, <2>8, <2>9 DEF LinkOK, S, B, PartOf
<1>15. CASE ~(in[m].picture < c)
  <2>1. in[m].picture >= c /\ in[m].picture \in Nat /\ in[m].id \in Nat /\ in[m] \in S
    BY <1>1, <1>5, <1>15
  <2>2. Known(P, in[m])
    BY <1>6, <2>1 DEF FramesOK, P
  <2>3. ~(in[m].picture < P[1].picture /\ in[m].id < P[1].id)
    <3>1. P[1].picture \in Nat /\ (~out.acked => P[1].id = 0)
      BY <1>4, <1>7, <1>9
    <3>2. CASE out.acked
      BY <1>10, <2>1, <3>1, <3>2
    <3>3. CASE ~out.acked
      BY <2>1, <3>1, <3>3
    <3> QED BY <3>2, <3>3
  <2>4. PICK q \in 1 .. Len(P) : P[q].id = in[m].id /\ P[q].picture = in[m].picture
    BY <1>3, <2>2, <2>3 DEF Known
  <2>5. P[q] = in[m]
    <3>1. P[q] \in Frame /\ in[m] \in Frame
      BY <1>1, <1>4, <1>5
    <3> QED BY <2>4, <3>1, SameFrame
  <2> DEFINE R == SubSeq(P, q, Len(P))
             new == [pictures |-> R, acked |-> TRUE]
  <2>6. AckFrame(out, A[i]) = new
    <3>1. \A x \in 1 .. Len(out.pictures) : out.pictures[x].id = out.pictures[1].id + x - 1
      BY <1>9 DEF P
    <3>2. AckFrame(out, out.pictures[q].id) =
            [pictures |-> SubSeq(out.pictures, q, Len(out.pictures)), acked |-> TRUE]
      BY <3>1, AckFindsFrame DEF P
    <3> QED BY <1>1, <2>4, <3>2 DEF P
  <2>7. /\ Len(R) = Len(P) - q + 1 /\ DOMAIN R = 1 .. Len(P) - q + 1 /\ Len(R) >= 1
        /\ \A x \in 1 .. Len(P) - q + 1 : R[x] = P[x + q - 1] /\ x + q - 1 \in 1 .. Len(P)
    BY <1>3
  <2>8. R \in Seq(Frame)
    <3>1. \A x \in q .. Len(P) : P[x] \in Frame
      BY <1>3, <1>4
    <3> QED BY <1>3, <3>1
  <2>9. R # <<>> /\ R[1] = P[q] /\ 1 \in 1 .. Len(P) - q + 1
    <3>1. 1 \in 1 .. Len(P) - q + 1 /\ 1 + q - 1 = q
      BY <1>3
    <3>2. R[1] = P[1 + q - 1]
      BY <2>7, <3>1
    <3>3. R # <<>>
      <4>1. 1 \in DOMAIN R
        BY <2>7, <3>1
      <4> HIDE DEF R
      <4> QED BY <4>1
    <3> QED BY <3>1, <3>2, <3>3
  <2>10. new \in History /\ new.pictures = R /\ new.acked
    BY <2>8 DEF History
  <2>11. \A x \in 1 .. Len(P) - q + 1 : \E y \in 1 .. Len(P) : y = x + q - 1 /\ y >= q /\ R[x] = P[y]
    BY <2>7
  <2>12. P[1].picture <= P[q].picture /\ P[1].id <= P[q].id
    <3>1. q = 1 \/ P[1].picture < P[q].picture
      BY <1>7, <1>9
    <3>2. P[q].id = P[1].id + q - 1
      BY <1>9
    <3>3. P[1].id \in Nat /\ P[q].id \in Nat /\ P[1].picture \in Nat /\ P[q].picture \in Nat
      BY <1>4, <1>7
    <3>4. q \in Nat /\ q >= 1
      BY <1>3
    <3>5. P[1].id <= P[q].id
      BY <3>2, <3>3, <3>4
    <3> QED BY <3>1, <3>3, <3>5
  <2> HIDE DEF R, new
  <2>13. HistoryOK(new, c)
    <3>1. Ascending(R)
      <4>1. ASSUME NEW x \in 1 .. Len(P) - q + 1, NEW y \in 1 .. Len(P) - q + 1, x < y
            PROVE  R[x].picture < R[y].picture
        <5>1. x + q - 1 < y + q - 1
          BY <4>1
        <5> QED BY <1>9, <2>7, <5>1
      <4> QED BY <2>7, <4>1 DEF Ascending
    <3>2. Len(R) <= MaxUnacked
      BY <1>3, <1>9, <2>7, VideoAssumption
    <3>3. ASSUME NEW x \in 1 .. Len(P) - q + 1
          PROVE  /\ R[x].id = R[1].id + x - 1 /\ R[x].id < Ids
                 /\ R[x].picture >= c /\ R[x].picture > 0
      <4>1. PICK y \in 1 .. Len(P) : y = x + q - 1 /\ R[x] = P[y]
        BY <2>11
      <4>2. P[y].id = P[1].id + y - 1 /\ P[q].id = P[1].id + q - 1 /\ P[1].id \in Nat
        BY <1>4, <1>7, <1>9
      <4>3. R[x].id = R[1].id + x - 1
        <5>1. x \in Nat /\ q \in Nat /\ y \in Nat
          BY <1>3, <4>1
        <5>2. P[y].id = P[q].id + x - 1
          <6>1. P[y].id = P[1].id + (x + q - 1) - 1
            BY <4>1, <4>2
          <6>2. P[1].id + (x + q - 1) - 1 = (P[1].id + q - 1) + x - 1
            BY <4>2, <5>1, Shifts
          <6> QED BY <4>2, <6>1, <6>2
        <5> QED BY <2>9, <4>1, <5>2
      <4> QED BY <1>9, <4>1, <4>3
    <3> QED BY <2>7, <2>9, <2>10, <3>1, <3>2, <3>3 DEF HistoryOK
  <2>14. FramesOK(new, S, c)
    <3>1. ASSUME NEW g \in S, g.picture >= c
          PROVE  Known(R, g)
      <4>0. g.picture \in Nat /\ g.id \in Nat
        BY <1>5
      <4>1. Known(P, g)
        BY <1>6, <3>1 DEF FramesOK, P
      <4>2. CASE g.picture < P[1].picture /\ g.id < P[1].id
        <5>1. P[1].picture \in Nat /\ P[q].picture \in Nat /\ P[1].id \in Nat /\ P[q].id \in Nat
          BY <1>4, <1>7
        <5>2. g.picture < P[q].picture /\ g.id < P[q].id
          BY <2>12, <4>0, <4>2, <5>1, Orders
        <5> QED BY <2>9, <5>2 DEF Known
      <4>3. CASE \E x \in 1 .. Len(P) : P[x].id = g.id /\ P[x].picture = g.picture
        <5>1. PICK x \in 1 .. Len(P) : P[x].id = g.id /\ P[x].picture = g.picture
          BY <4>3
        <5>2. CASE x < q
          <6>1. P[x].picture < P[q].picture
            BY <1>9, <5>2
          <6>2. P[x].id = P[1].id + x - 1 /\ P[q].id = P[1].id + q - 1 /\ P[1].id \in Nat
            BY <1>4, <1>7, <1>9
          <6>3. P[x].id < P[q].id
            BY <5>2, <6>2
          <6> QED BY <2>9, <5>1, <6>1, <6>3 DEF Known
        <5>3. CASE ~(x < q)
          <6>1. x - q + 1 \in 1 .. Len(P) - q + 1 /\ (x - q + 1) + q - 1 = x
            BY <1>3, <5>3
          <6>2. R[x - q + 1] = P[x]
            BY <2>7, <6>1
          <6> QED BY <2>7, <2>9, <5>1, <6>1, <6>2 DEF Known
        <5> QED BY <5>2, <5>3
      <4> QED BY <1>3, <4>1, <4>2, <4>3 DEF Known
    <3> QED BY <1>6, <2>9, <2>10, <3>1 DEF FramesOK
  <2>15. WayOK(new, in, W, B, c)
    <3>1. ASSUME NEW w \in W, Refers(w)
          PROVE  w.base <= R[1].picture
      <4>1. w.base <= P[1].picture
        BY <1>6, <3>1 DEF WayOK, P
      <4>2. P[1].picture \in Nat /\ P[q].picture \in Nat /\ w.base \in Nat
        BY <1>4, <1>5, <1>7
      <4> QED BY <2>9, <2>12, <4>1, <4>2, Orders
    <3> QED BY <1>6, <1>13, <2>10, <3>1 DEF WayOK
  <2>16. AcksOK(new, in, B)
    <3>1. Len(B) <= Len(in)
      BY <1>0, <1>2
    <3>2. ASSUME NEW x \in 1 .. Len(A) - i
          PROVE  B[x] = in[Len(in) - Len(B) + x].id
      <4>1. x + i \in 1 .. Len(A) /\ Len(in) - Len(A) + (x + i) = Len(in) - Len(B) + x
        BY <1>0, <1>2
      <4> QED BY <1>0, <1>2, <4>1
    <3>3. m \in 1 .. Len(in) - Len(B) /\ in[m] = R[1]
      BY <1>1, <1>2, <2>5, <2>9
    <3> QED BY <1>2, <2>10, <3>1, <3>2, <3>3 DEF AcksOK
  <2>17. \A x \in DOMAIN R : \E y \in DOMAIN P : R[x] = P[y]
    BY <1>3, <2>7, <2>11
  <2> QED BY <1>6, <2>6, <2>10, <2>13, <2>14, <2>15, <2>16, <2>17 DEF LinkOK, S, B, P, PartOf
<1> QED BY <1>14, <1>15

\* All that was sent is before a new picture.
LEMMA SentBefore ==
  ASSUME NEW out \in History, NEW S, \A g \in S : g.id \in Nat /\ g.picture \in Nat,
         NEW c \in Nat, HistoryOK(out, c), FramesOK(out, S, c), NEW picture \in Nat,
         \A x \in DOMAIN out.pictures : out.pictures[x].picture < picture,
         NEW g \in S
  PROVE  g.picture < picture
<1> DEFINE P == out.pictures
<1>1. P \in Seq(Frame) /\ DOMAIN P = 1 .. Len(P) /\ P # <<>>
  BY DEF History, FramesOK
<1>2. 1 \in 1 .. Len(P) /\ Len(P) \in Nat
  BY <1>1
<1>3. P[1] \in Frame
  BY <1>1, <1>2
<1>4. P[1].picture \in Nat /\ P[1].picture >= c /\ P[1].picture < picture
  BY <1>1, <1>2, <1>3 DEF Frame, HistoryOK
<1>5. CASE g.picture < c
  BY <1>4, <1>5
<1>6. CASE g.picture >= c
  <2>1. Known(P, g)
    BY <1>6 DEF FramesOK
  <2>2. CASE g.picture < P[1].picture
    BY <1>4, <2>2
  <2>3. CASE \E x \in DOMAIN P : P[x].id = g.id /\ P[x].picture = g.picture
    BY <2>3
  <2> QED BY <2>1, <2>2, <2>3 DEF Known
<1> QED BY <1>5, <1>6

\* At the end of a lap, the receiver has only the end of it: the sender has
\* heard of a frame that is not far back.
LEMMA LapEnds ==
  ASSUME Timely, NEW out \in History, NEW in \in Seq(Frame), NEW W \in SUBSET Packet,
         NEW A \in Seq(Nat), NEW c \in Nat, LinkOK(out, in, W, A, c),
         out.pictures[Len(out.pictures)].id + 1 = Ids,
         NEW g \in ToSet(in) \cup W
  PROVE  g.picture >= c /\ g.id + 2 * MaxUnacked > Ids
<1> DEFINE P == out.pictures
           S == ToSet(in) \cup W
<1>1. /\ HistoryOK(out, c) /\ FramesOK(out, S, c) /\ ReceivedOK(in, c)
      /\ WayOK(out, in, W, A, c) /\ AcksOK(out, in, A)
  BY DEF LinkOK
<1>2. P \in Seq(Frame) /\ DOMAIN P = 1 .. Len(P) /\ P # <<>>
  BY <1>1 DEF History, FramesOK
<1>3. 1 \in 1 .. Len(P) /\ Len(P) \in 1 .. Len(P) /\ Len(P) \in Nat /\ Len(P) >= 1
  BY <1>2
<1>4. P[1] \in Frame
  BY <1>2, <1>3
<1>5. P[1].id \in Nat /\ P[1].picture \in Nat
  BY <1>4 DEF Frame
<1>6. /\ P[Len(P)].id = P[1].id + Len(P) - 1 /\ Len(P) <= MaxUnacked /\ P[1].picture >= c
      /\ ~out.acked => P[1].id = 0
  <2>1. /\ \A x \in 1 .. Len(P) : P[x].id = P[1].id + x - 1 /\ P[x].picture >= c
        /\ Len(P) <= MaxUnacked
        /\ ~out.acked => \A x \in 1 .. Len(P) : P[x].id = x - 1
    BY <1>1, <1>2 DEF HistoryOK
  <2> HIDE DEF P
  <2>2. ~out.acked => P[1].id = 0
    BY <1>3, <2>1
  <2> QED BY <1>3, <2>1, <2>2
<1>7. MaxUnacked \in Nat /\ Ids \in Nat /\ Ids > 0 /\ 3 * MaxUnacked <= Ids + 1
  BY VideoAssumption DEF Timely
<1>8. P[1].id + MaxUnacked >= Ids /\ MaxUnacked >= 1
  <2> DEFINE a == P[1].id
             l == Len(P)
  <2>1. a \in Nat /\ l \in Nat /\ l >= 1 /\ a + l - 1 + 1 = Ids /\ l <= MaxUnacked
    BY <1>3, <1>5, <1>6
  <2> HIDE DEF a, l
  <2>2. a + MaxUnacked >= Ids /\ MaxUnacked >= 1
    BY <1>7, <2>1
  <2> QED BY <2>2 DEF a
<1>9. P[1].id >= MaxUnacked /\ P[1].id > 0
  BY <1>5, <1>7, <1>8
<1>10. out.acked
  BY <1>5, <1>6, <1>9
<1>11. Len(A) \in Nat /\ Len(in) \in Nat
  OBVIOUS
<1>12. PICK k \in 1 .. Len(in) - Len(A) : in[k] = P[1]
  BY <1>1, <1>10 DEF AcksOK
<1>13. k \in 1 .. Len(in) /\ 1 \in 1 .. Len(in)
  BY <1>11
<1>14. /\ \A x \in 1 .. Len(in) : in[x] \in Frame /\ in[x] \in S /\ in[x].id \in Nat /\ in[x].picture \in Nat
       /\ \A x \in S : x.id \in Nat /\ x.picture \in Nat
  BY FrameTypes
<1>15. in[1].picture >= c
  <2>1. ~(in[1].picture < c)
    <3>1. in[1].picture < c => in[k].id < MaxUnacked
      BY <1>1, <1>6, <1>12, <1>13 DEF ReceivedOK
    <3> QED BY <1>5, <1>7, <1>9, <1>12, <3>1
  <2> QED BY <1>13, <1>14, <2>1
<1>16. in[k].id < in[1].id + MaxUnacked
  BY <1>1, <1>13, <1>15 DEF ReceivedOK
<1>17. in[1].id + 2 * MaxUnacked > Ids
  <2>1. \A x, y, m, n \in Nat : x + m >= n /\ x < y + m => y + 2 * m > n
    OBVIOUS
  <2> QED BY <1>5, <1>7, <1>8, <1>12, <1>13, <1>14, <1>16, <2>1
\* Whatever is not before the first frame.
<1>18. ASSUME NEW x \in S, in[1].picture < x.picture \/ x = in[1]
       PROVE  x.picture >= c /\ x.id + 2 * MaxUnacked > Ids
  <2>1. x.id \in Nat /\ x.picture \in Nat /\ in[1].id \in Nat /\ in[1].picture \in Nat
    BY <1>13, <1>14
  <2>2. CASE x = in[1]
    BY <1>15, <1>17, <2>2
  <2>3. CASE in[1].picture < x.picture
    <3>1. in[1] \in S
      BY <1>13, <1>14
    <3>2. in[1].id < x.id
      BY <1>1, <1>15, <2>3, <3>1 DEF FramesOK
    <3>3. x.picture >= c
      BY <1>15, <2>1, <2>3
    <3>4. \A u, y, m, n \in Nat : u + 2 * m > n /\ u < y => y + 2 * m > n
      OBVIOUS
    <3> QED BY <1>7, <1>17, <2>1, <3>2, <3>3, <3>4
  <2> QED BY <1>18, <2>2, <2>3
<1>19. in[1].picture < g.picture \/ g = in[1]
  <2>1. CASE g \in W
    BY <1>1, <1>13, <2>1 DEF WayOK
  <2>2. CASE g \in ToSet(in)
    <3>1. PICK x \in 1 .. Len(in) : g = in[x]
      BY <2>2 DEF ToSet
    <3>2. x = 1 \/ 1 < x
      OBVIOUS
    <3> QED BY <1>1, <1>13, <3>1, <3>2 DEF ReceivedOK, Ascending
  <2> QED BY <2>1, <2>2
<1> QED BY <1>18, <1>19

\* A new lap begins: all frames received or on their way are of the one before.
LEMMA SendsFirst ==
  ASSUME Timely, NEW out \in History, NEW in \in Seq(Frame), NEW W \in SUBSET Packet,
         NEW A \in Seq(Nat), NEW c \in Nat, LinkOK(out, in, W, A, c),
         NEW picture \in Nat, picture > 0, picture <= MaxPictures, MaxUnacked >= 1,
         \A x \in DOMAIN out.pictures : out.pictures[x].picture < picture,
         out.pictures = <<>> \/ out.pictures[Len(out.pictures)].id + 1 = Ids,
         NEW h, h = [pictures |-> <<[id |-> 0, picture |-> picture]>>, acked |-> FALSE],
         NEW p, p = [id |-> 0, ref |-> 0, picture |-> picture, base |-> NoPicture]
  PROVE  LinkOK(h, in, W \cup {p}, A, picture)
<1> DEFINE S == ToSet(in) \cup W
           f == [id |-> 0, picture |-> picture]
<1>1. /\ HistoryOK(out, c) /\ FramesOK(out, S, c) /\ ReceivedOK(in, c)
      /\ WayOK(out, in, W, A, c) /\ AcksOK(out, in, A)
  BY DEF LinkOK
<1>2. /\ \A x \in 1 .. Len(in) : in[x] \in Frame /\ in[x] \in S /\ in[x].id \in Nat /\ in[x].picture \in Nat
      /\ \A w \in W : w.id \in Nat /\ w.ref \in Nat /\ w.picture \in Nat /\ w.base \in Nat
      /\ \A g \in S : g.id \in Nat /\ g.picture \in Nat
  BY FrameTypes
<1>3. \A g \in S : g.picture < picture
  BY <1>1, <1>2, SentBefore
<1>4. \A g \in S : g.picture >= c /\ g.id + 2 * MaxUnacked > Ids
  <2>1. ASSUME NEW g \in S
        PROVE  g.picture >= c /\ g.id + 2 * MaxUnacked > Ids
    <3>1. out.pictures[Len(out.pictures)].id + 1 = Ids
      BY <1>1 DEF FramesOK
    <3> QED BY <3>1, LapEnds
  <2> QED BY <2>1
<1>5. /\ h.pictures = <<f>> /\ ~h.acked /\ Len(h.pictures) = 1 /\ DOMAIN h.pictures = {1}
      /\ h.pictures[1] = f /\ f.id = 0 /\ f.picture = picture /\ h.pictures # <<>>
  OBVIOUS
<1>6. p.id = 0 /\ p.ref = 0 /\ p.picture = picture /\ p.base = NoPicture /\ ~Refers(p)
  BY DEF Refers
<1> HIDE DEF f, S
<1>7. HistoryOK(h, picture)
  <2>1. Ascending(h.pictures)
    BY <1>5 DEF Ascending
  <2> QED BY <1>5, <2>1, VideoAssumption DEF HistoryOK
<1>8. FramesOK(h, S \cup {p}, picture)
  <2>1. ASSUME NEW g \in S \cup {p}
        PROVE  /\ g.id < Ids /\ g.picture > 0 /\ g.picture <= MaxPictures
               /\ h.pictures # <<>>
               /\ g.picture >= picture => Known(h.pictures, g)
               /\ g.picture < picture => g.id + 2 * MaxUnacked > Ids
    <3>1. CASE g = p
      <4>1. Known(h.pictures, p)
        BY <1>5, <1>6 DEF Known
      <4> QED BY <1>5, <1>6, <3>1, <4>1, VideoAssumption
    <3>2. CASE g \in S
      <4>1. g.id < Ids /\ g.picture > 0 /\ g.picture <= MaxPictures
        BY <1>1, <3>2 DEF FramesOK
      <4>2. ~(g.picture >= picture)
        BY <1>2, <1>3, <3>2
      <4> QED BY <1>4, <1>5, <3>2, <4>1, <4>2
    <3> QED BY <3>1, <3>2
  <2>2. ASSUME NEW g \in S \cup {p}, NEW k \in S \cup {p}, g.picture < k.picture,
               k.picture < picture \/ g.picture >= picture
        PROVE  g.id < k.id
    <3>1. g # p
      <4>1. k.picture \in Nat /\ k.picture <= picture
        BY <1>2, <1>3, <1>6
      <4> QED BY <1>6, <2>2, <4>1
    <3>2. g \in S /\ g.picture \in Nat /\ g.picture < picture
      BY <1>2, <1>3, <3>1
    <3>3. k.picture < picture
      BY <2>2, <3>2
    <3>4. k \in S
      BY <1>6, <3>3
    <3> QED BY <1>1, <1>4, <2>2, <3>2, <3>4 DEF FramesOK
  <2> QED BY <2>1, <2>2 DEF FramesOK
<1>9. ReceivedOK(in, picture)
  <2>1. \A x \in DOMAIN in : in[x].picture < picture /\ in[x].picture \in Nat
    BY <1>2, <1>3
  <2>2. \A x \in DOMAIN in : 1 \in DOMAIN in
    OBVIOUS
  <2> QED BY <1>1, <2>1, <2>2 DEF ReceivedOK
<1>10. WayOK(h, in, W \cup {p}, A, picture)
  <2>1. \A w \in W : w.picture < picture /\ w.picture \in Nat /\ w.base \in Nat
    BY <1>2, <1>3 DEF S
  <2>2. \A x \in DOMAIN in : in[x].picture < picture
    BY <1>2, <1>3
  <2>3. \A w \in W :
          /\ \A x \in DOMAIN in : in[x].picture < w.picture
          /\ ~Refers(w) => w.base = NoPicture
          /\ Refers(w) => w.base < w.picture /\ w.id < w.ref + MaxUnacked /\ HasReference(in, A, w)
    BY <1>1 DEF WayOK
  <2>4. \A w \in W : Refers(w) => w.base <= h.pictures[1].picture
    BY <1>5, <2>1, <2>3
  <2>5. \A w \in W : ~(w.picture >= picture)
    BY <2>1
  <2>6. \A v, w \in W : Refers(v) /\ Refers(w) /\ v.picture < w.picture => v.base <= w.base
    BY <1>1 DEF WayOK
  <2>7. p.id < MaxUnacked
    BY <1>6, VideoAssumption
  <2> QED BY <1>6, <2>2, <2>3, <2>4, <2>5, <2>6, <2>7 DEF WayOK
<1>11. AcksOK(h, in, A)
  BY <1>1, <1>5 DEF AcksOK
<1>12. ToSet(in) \cup (W \cup {p}) = S \cup {p}
  BY DEF S
<1> QED BY <1>7, <1>8, <1>9, <1>10, <1>11, <1>12 DEF LinkOK

\* The number n after l numbers from a on.
LEMMA Counts ==
  ASSUME NEW a \in Nat, NEW l \in Nat, l >= 1, NEW n \in Nat, n = (a + l - 1) + 1
  PROVE  /\ n = a + l /\ n # a
         /\ \A x \in Nat : x = l + 1 => n = a + x - 1
         /\ \A x \in 1 .. l : a + x - 1 < n
         /\ \A x \in Nat : l < x => n < a + x
OBVIOUS

\* The next frame of the lap, with a reference to the first one of the history
\* if the sender has heard of it.
LEMMA SendsNext ==
  ASSUME Timely, NEW out \in History, NEW in \in Seq(Frame), NEW W \in SUBSET Packet,
         NEW A \in Seq(Nat), NEW c \in Nat, LinkOK(out, in, W, A, c),
         NEW picture \in Nat, picture > 0, picture <= MaxPictures,
         \A x \in DOMAIN out.pictures : out.pictures[x].picture < picture,
         out.pictures # <<>>, Len(out.pictures) + 1 <= MaxUnacked,
         NEW n \in Nat, n = out.pictures[Len(out.pictures)].id + 1, n < Ids,
         NEW h, h = [pictures |-> Append(out.pictures, [id |-> n, picture |-> picture]),
                     acked |-> out.acked],
         NEW p, p = [id |-> n, ref |-> IF out.acked THEN out.pictures[1].id ELSE n,
                     picture |-> picture,
                     base |-> IF out.acked THEN out.pictures[1].picture ELSE NoPicture]
  PROVE  LinkOK(h, in, W \cup {p}, A, c)
<1> DEFINE S == ToSet(in) \cup W
           P == out.pictures
           f == [id |-> n, picture |-> picture]
           l == Len(P)
           R == h.pictures
<1>1. /\ HistoryOK(out, c) /\ FramesOK(out, S, c) /\ ReceivedOK(in, c)
      /\ WayOK(out, in, W, A, c) /\ AcksOK(out, in, A)
  BY DEF LinkOK
<1>2. /\ \A x \in 1 .. Len(in) : in[x] \in Frame /\ in[x] \in S /\ in[x].id \in Nat /\ in[x].picture \in Nat
      /\ \A w \in W : w.id \in Nat /\ w.ref \in Nat /\ w.picture \in Nat /\ w.base \in Nat
      /\ \A g \in S : g.id \in Nat /\ g.picture \in Nat
  BY FrameTypes
<1>3. P \in Seq(Frame) /\ l \in Nat /\ l >= 1 /\ DOMAIN P = 1 .. l /\ out.acked \in BOOLEAN
  BY DEF History
<1>4. \A x \in 1 .. l : P[x] \in Frame /\ P[x].id \in Nat /\ P[x].picture \in Nat
  <2>1. \A x \in 1 .. l : P[x] \in Frame
    BY <1>3
  <2> QED BY <2>1 DEF Frame
<1>5. /\ \A x \in 1 .. l : P[x].id = P[1].id + x - 1 /\ P[x].id < Ids
                           /\ P[x].picture >= c /\ P[x].picture > 0 /\ P[x].picture < picture
      /\ ~out.acked => \A x \in 1 .. l : P[x].id = x - 1
      /\ \A x, y \in 1 .. l : x < y => P[x].picture < P[y].picture
  BY <1>1, <1>3 DEF HistoryOK, Ascending
<1>6. f \in Frame /\ f.id = n /\ f.picture = picture
  BY DEF Frame
<1>7. /\ Len(R) = l + 1 /\ DOMAIN R = 1 .. l + 1 /\ R # <<>> /\ h.acked = out.acked
      /\ \A x \in 1 .. l : R[x] = P[x]
      /\ R[l + 1] = f
  <2>1. R = Append(P, f) /\ h.acked = out.acked
    OBVIOUS
  <2> HIDE DEF P, R, f
  <2>2. Len(R) = l + 1 /\ DOMAIN R = 1 .. l + 1
    BY <1>3, <1>6, <2>1
  <2>3. \A x \in 1 .. l : R[x] = P[x]
    BY <1>3, <1>6, <2>1
  <2>4. R[l + 1] = f
    BY <1>3, <1>6, <2>1
  <2>5. R # <<>>
    BY <1>3, <2>2
  <2> QED BY <2>1, <2>2, <2>3, <2>4, <2>5
<1>8. /\ p.id = n /\ p.picture = picture
      /\ out.acked => p.ref = P[1].id /\ p.base = P[1].picture
      /\ ~out.acked => p.ref = n /\ p.base = NoPicture
  OBVIOUS
<1>9. 1 \in 1 .. l /\ l \in 1 .. l /\ n = P[l].id + 1
  BY <1>3
<1> HIDE DEF f, S, P, R, l
<1>10. R[1] = P[1] /\ P[1].id \in Nat /\ P[1].picture \in Nat
  BY <1>4, <1>7, <1>9
<1> DEFINE a == P[1].id
<1>19. a \in Nat /\ a = P[1].id
  BY <1>10
<1> HIDE DEF a
<1>20. P[l].id = a + l - 1
  BY <1>5, <1>9, <1>19
<1>21. /\ n = a + l /\ n # a
       /\ \A x \in Nat : x = l + 1 => n = a + x - 1
       /\ \A x \in 1 .. l : a + x - 1 < n
       /\ \A x \in Nat : l < x => n < a + x
  <2>1. n = (a + l - 1) + 1
    BY <1>9, <1>20
  <2>2. l \in Nat /\ l >= 1 /\ a \in Nat
    BY <1>3, <1>19
  <2> QED BY <2>1, <2>2, Counts
<1>11. (~out.acked => n = l /\ a = 0) /\ P[1].picture >= c /\ picture >= c
       /\ P[1].picture < picture
  <2>1. P[1].picture >= c /\ P[1].picture < picture
    BY <1>5, <1>9
  <2>2. ~out.acked => a = 0
    BY <1>5, <1>9, <1>19
  <2>4. picture >= c
    BY <1>10, <2>1
  <2>5. ~out.acked => n = l
    BY <1>3, <1>21, <2>2
  <2> QED BY <2>1, <2>2, <2>4, <2>5
<1>12. Refers(p) <=> out.acked
  BY <1>8, <1>19, <1>21 DEF Refers
<1>13. \A g \in S : g.picture < picture
  <2>1. \A x \in DOMAIN out.pictures : out.pictures[x].picture < picture
    OBVIOUS
  <2> QED BY <1>1, <1>2, <2>1, SentBefore
<1>14. HistoryOK(h, c)
  <2>1. ASSUME NEW x \in 1 .. l + 1
        PROVE  /\ R[x].id = R[1].id + x - 1 /\ R[x].id < Ids
               /\ R[x].picture >= c /\ R[x].picture > 0
               /\ ~h.acked => R[x].id = x - 1
    <3>1. CASE x = l + 1
      <4>1. R[x].id = n /\ R[x].picture = picture /\ R[1].id = a
        BY <1>6, <1>7, <1>10, <1>19, <3>1
      <4>2. n = a + x - 1 /\ (~out.acked => n = x - 1)
        <5>1. x \in Nat /\ n = a + x - 1
          BY <1>3, <1>21, <3>1
        <5>2. ~out.acked => n = x - 1
          BY <1>3, <1>11, <3>1
        <5> QED BY <5>1, <5>2
      <4> QED BY <1>7, <1>11, <4>1, <4>2
    <3>2. CASE x \in 1 .. l
      BY <1>5, <1>7, <1>10, <3>2
    <3> QED BY <1>3, <3>1, <3>2
  <2>2. ASSUME NEW x \in 1 .. l + 1, NEW y \in 1 .. l + 1, x < y
        PROVE  R[x].picture < R[y].picture
    <3>1. x \in 1 .. l
      BY <1>3, <2>2
    <3>2. CASE y = l + 1
      BY <1>5, <1>6, <1>7, <3>1, <3>2
    <3>3. CASE y \in 1 .. l
      BY <1>5, <1>7, <2>2, <3>1, <3>3
    <3> QED BY <1>3, <3>2, <3>3
  <2>3. Ascending(R)
    BY <1>7, <2>2 DEF Ascending
  <2>4. Len(R) <= MaxUnacked
    BY <1>7 DEF l, P
  <2> QED BY <1>7, <2>1, <2>3, <2>4 DEF HistoryOK, R
<1>15. FramesOK(h, S \cup {p}, c)
  <2>1. ASSUME NEW g \in S, g.picture >= c
        PROVE  Known(R, g) /\ g.id < n
    <3>1. Known(P, g)
      BY <1>1, <2>1 DEF FramesOK, P
    <3>2. CASE g.picture < P[1].picture /\ g.id < P[1].id
      <4>1. g.id < n
        <5>1. g.id \in Nat /\ g.id < a /\ a < n
          <6>1. a = a + 1 - 1
            BY <1>19
          <6>2. a < n
            BY <1>9, <1>21, <6>1
          <6>3. g.id \in Nat
            BY <1>2
          <6>4. g.id < a
            BY <1>19, <3>2
          <6> QED BY <6>2, <6>3, <6>4
        <5>2. \A x, y, z \in Nat : x < y /\ y < z => x < z
          OBVIOUS
        <5> QED BY <1>19, <5>1, <5>2
      <4> QED BY <1>7, <1>10, <3>2, <4>1 DEF Known
    <3>3. CASE \E x \in 1 .. l : P[x].id = g.id /\ P[x].picture = g.picture
      <4>1. PICK x \in 1 .. l : P[x].id = g.id /\ P[x].picture = g.picture
        BY <3>3
      <4>2. x \in 1 .. l + 1 /\ R[x].id = g.id /\ R[x].picture = g.picture
        BY <1>3, <1>7, <4>1
      <4>3. P[x].id = P[1].id + x - 1
        BY <1>5
      <4>4. g.id < n
        <5>1. g.id = a + x - 1
          BY <1>19, <4>1, <4>3
        <5> QED BY <1>21, <5>1
      <4> QED BY <1>7, <4>2, <4>4 DEF Known
    <3> QED BY <1>3, <3>1, <3>2, <3>3 DEF Known
  <2>2. Known(R, p)
    <3>1. l + 1 \in DOMAIN R
      BY <1>3, <1>7
    <3> QED BY <1>6, <1>7, <1>8, <3>1 DEF Known
  <2>3. \A g \in S : g.id < Ids /\ g.picture > 0 /\ g.picture <= MaxPictures
                     /\ (g.picture < c => g.id + 2 * MaxUnacked > Ids)
    BY <1>1 DEF FramesOK
  <2>4. ASSUME NEW g \in S \cup {p}, NEW k \in S \cup {p}, g.picture < k.picture,
               k.picture < c \/ g.picture >= c
        PROVE  g.id < k.id
    <3>1. g # p
      <4>1. k.picture \in Nat /\ k.picture <= picture
        BY <1>2, <1>8, <1>13
      <4> QED BY <1>8, <2>4, <4>1
    <3>2. g \in S
      BY <3>1
    <3>3. CASE k = p
      <4>1. g.picture >= c
        BY <1>8, <1>11, <2>4, <3>3
      <4> QED BY <1>8, <2>1, <3>2, <3>3, <4>1
    <3>4. CASE k \in S
      BY <1>1, <2>4, <3>2, <3>4 DEF FramesOK
    <3> QED BY <3>3, <3>4
  <2>5. ~(p.picture < c)
    BY <1>8, <1>11
  <2>6. h.pictures # <<>>
    BY <1>7 DEF R
  <2>7. ASSUME NEW g \in S \cup {p}
        PROVE  /\ g.id < Ids /\ g.picture > 0 /\ g.picture <= MaxPictures
               /\ g.picture >= c => Known(R, g)
               /\ g.picture < c => g.id + 2 * MaxUnacked > Ids
    <3>1. CASE g = p
      BY <1>8, <2>2, <2>5, <3>1
    <3>2. CASE g \in S
      BY <2>1, <2>3, <3>2
    <3> QED BY <3>1, <3>2
  <2> QED BY <2>4, <2>6, <2>7 DEF FramesOK, R
<1>16. WayOK(h, in, W \cup {p}, A, c)
  <2>1. \A x \in DOMAIN in : in[x].picture < picture
    BY <1>2, <1>13
  <2>2. ~out.acked => n < MaxUnacked
    BY <1>3, <1>11, VideoAssumption DEF l, P
  <2>3. ASSUME out.acked
        PROVE  /\ p.base <= R[1].picture /\ p.base < p.picture /\ p.id < p.ref + MaxUnacked
               /\ p.base >= c /\ HasReference(in, A, p)
    <3>1. p.ref = P[1].id /\ p.base = P[1].picture
      BY <1>8, <2>3
    <3>2. PICK k \in 1 .. Len(in) - Len(A) : in[k] = P[1]
      BY <1>1, <2>3 DEF AcksOK, P
    <3>3. HasReference(in, A, p)
      BY <3>1, <3>2 DEF HasReference
    <3>4. l < MaxUnacked
      BY <1>3, VideoAssumption DEF l, P
    <3>5. n < a + MaxUnacked
      BY <1>21, <3>4, VideoAssumption
    <3>6. p.base <= R[1].picture
      BY <1>10, <3>1
    <3> QED BY <1>8, <1>11, <1>19, <3>1, <3>3, <3>5, <3>6
  <2>4. \A w \in W : Refers(w) => w.base <= P[1].picture
    BY <1>1 DEF WayOK, P
  <2>5. \A w \in W : w.picture < picture /\ w.picture \in Nat
    BY <1>2, <1>13 DEF S
  <2>6. ASSUME NEW v \in W \cup {p}, NEW w \in W \cup {p}, Refers(v), Refers(w), v.picture < w.picture
        PROVE  v.base <= w.base
    <3>1. v # p
      BY <1>8, <2>5, <2>6
    <3>2. CASE w = p
      BY <1>8, <1>12, <2>4, <2>6, <3>1, <3>2
    <3>3. CASE w \in W
      BY <1>1, <2>6, <3>1, <3>3 DEF WayOK
    <3> QED BY <3>2, <3>3
  <2>7. ASSUME NEW w \in W \cup {p}
        PROVE  /\ \A x \in DOMAIN in : in[x].picture < w.picture
               /\ ~Refers(w) => w.base = NoPicture /\ (w.picture >= c => w.id < MaxUnacked)
               /\ Refers(w) => /\ w.base <= R[1].picture
                               /\ w.base < w.picture /\ w.id < w.ref + MaxUnacked
                               /\ w.picture >= c => w.base >= c
                               /\ HasReference(in, A, w)
    <3>1. CASE w = p
      BY <1>8, <1>12, <2>1, <2>2, <2>3, <3>1
    <3>2. CASE w \in W
      BY <1>1, <1>10, <2>4, <3>2 DEF WayOK
    <3> QED BY <3>1, <3>2
  <2> QED BY <2>6, <2>7 DEF WayOK, R
<1>17. AcksOK(h, in, A)
  BY <1>1, <1>7, <1>10 DEF AcksOK, P, R
<1>18. ToSet(in) \cup (W \cup {p}) = S \cup {p}
  BY DEF S
<1> QED BY <1>1, <1>14, <1>15, <1>16, <1>17, <1>18 DEF LinkOK

-----------------------------------------------------------------------------
(* The steps of a link, whatever picture begins the lap.                   *)

Link(out, in, W, A) == \E c \in Nat : LinkOK(out, in, W, A, c)

\* One picture is new.
Adds(new, old, picture) ==
  \A x \in DOMAIN new : new[x].picture = picture \/ \E y \in DOMAIN old : new[x] = old[y]

\* The last picture of a history is the packet's.
Gives(new, old, p) == Last(new).picture = p.picture /\ Adds(new, old, p.picture)

\* A link that has not been used.
LEMMA LinkBegins == Link(NoHistory, <<>>, {}, <<>>)
<1>1. HistoryOK(NoHistory, 0)
  BY VideoAssumption DEF HistoryOK, NoHistory, Ascending
<1>2. ToSet(<<>>) \cup {} = {}
  BY DEF ToSet
<1>3. FramesOK(NoHistory, {}, 0)
  BY DEF FramesOK
<1>4. ReceivedOK(<<>>, 0)
  BY DEF ReceivedOK, Ascending
<1>5. WayOK(NoHistory, <<>>, {}, <<>>, 0)
  BY DEF WayOK
<1>6. AcksOK(NoHistory, <<>>, <<>>)
  <2>1. \A i : i \notin DOMAIN <<>>
    OBVIOUS
  <2> QED BY <2>1 DEF AcksOK, NoHistory
<1>7. LinkOK(NoHistory, <<>>, {}, <<>>, 0)
  BY <1>1, <1>2, <1>3, <1>4, <1>5, <1>6 DEF LinkOK
<1> QED BY <1>7 DEF Link

\* Packets are lost.
LEMMA LinkWithFewer ==
  ASSUME NEW out, NEW in, NEW W, NEW A, Link(out, in, W, A), NEW V \in SUBSET W
  PROVE  Link(out, in, V, A)
BY FewerPackets DEF Link

\* A picture is sent.
LEMMA LinkSends ==
  ASSUME Timely, NEW out \in History, NEW in \in Seq(Frame), NEW W \in SUBSET Packet,
         NEW A \in Seq(Nat), Link(out, in, W, A),
         NEW picture \in Nat, picture > 0, picture <= MaxPictures,
         \A x \in DOMAIN out.pictures : out.pictures[x].picture < picture,
         NEW h, h = AddFrame(out, picture), Len(h.pictures) <= MaxUnacked
  PROVE  /\ h \in History /\ Encoded(h) \in Packet /\ Encoded(h).picture = picture
         /\ Link(h, in, W \cup {Encoded(h)}, A)
         /\ Adds(h.pictures, out.pictures, picture)
<1> DEFINE P == out.pictures
           f == [id |-> 0, picture |-> picture]
           n == P[Len(P)].id + 1
           g == [id |-> n, picture |-> picture]
<1>1. PICK c \in Nat : LinkOK(out, in, W, A, c)
  BY DEF Link
<1>2. HistoryOK(out, c) /\ P \in Seq(Frame) /\ DOMAIN P = 1 .. Len(P) /\ Len(P) \in Nat
      /\ out.acked \in BOOLEAN /\ MaxUnacked \in Nat
  BY <1>1, VideoAssumption DEF LinkOK, History
<1>3. \/ /\ P = <<>> \/ P[Len(P)].id + 1 = Ids
         /\ h = [pictures |-> <<f>>, acked |-> FALSE]
      \/ /\ P # <<>> /\ P[Len(P)].id + 1 < Ids
         /\ h = [pictures |-> Append(P, g), acked |-> out.acked]
  BY <1>2, AddsFrame
<1>4. CASE (P = <<>> \/ P[Len(P)].id + 1 = Ids) /\ h = [pictures |-> <<f>>, acked |-> FALSE]
  <2>1. f \in Frame /\ h.pictures = <<f>> /\ h.acked = FALSE /\ Len(h.pictures) = 1
    BY <1>4 DEF Frame
  <2>2. h \in History
    BY <1>4, <2>1 DEF History
  <2>3. MaxUnacked >= 1
    BY <1>2, <2>1
  <2>4. Last(h.pictures) = f
    BY <2>1 DEF Last
  <2>5. Encoded(h) = [id |-> 0, ref |-> 0, picture |-> picture, base |-> NoPicture]
    BY <2>1, <2>4 DEF Encoded
  <2>6. LinkOK(h, in, W \cup {Encoded(h)}, A, picture)
    BY <1>1, <1>4, <2>3, <2>5, SendsFirst
  <2>7. Encoded(h) \in Packet /\ Encoded(h).picture = picture
    BY <2>5 DEF Packet, NoPicture
  <2>8. \A x \in DOMAIN h.pictures : h.pictures[x].picture = picture
    BY <2>1
  <2> QED BY <2>2, <2>6, <2>7, <2>8 DEF Link, Adds
<1>5. CASE P # <<>> /\ P[Len(P)].id + 1 < Ids /\ h = [pictures |-> Append(P, g), acked |-> out.acked]
  <2>1. Len(P) \in 1 .. Len(P) /\ 1 \in 1 .. Len(P)
    BY <1>2, <1>5
  <2>2. P[Len(P)] \in Frame /\ P[1] \in Frame
    BY <1>2, <2>1
  <2>3. n \in Nat /\ P[1].id \in Nat /\ P[1].picture \in Nat
    BY <2>2 DEF Frame
  <2>4. g \in Frame /\ g.id = n /\ g.picture = picture
    BY <2>3 DEF Frame
  <2>5. h.pictures = Append(P, g) /\ h.acked = out.acked
    BY <1>5
  <2> HIDE DEF P, g
  <2>6. /\ Append(P, g) \in Seq(Frame) /\ Len(Append(P, g)) = Len(P) + 1
        /\ DOMAIN Append(P, g) = 1 .. Len(P) + 1
        /\ \A x \in 1 .. Len(P) : Append(P, g)[x] = P[x]
        /\ Append(P, g)[Len(P) + 1] = g
    BY <1>2, <2>4
  <2>7. h \in History
    BY <1>2, <1>5, <2>6 DEF History
  <2>8. Last(h.pictures) = g /\ Head(h.pictures) = P[1]
    <3>1. Head(Append(P, g)) = Append(P, g)[1]
      BY <2>6
    <3> QED BY <2>1, <2>5, <2>6, <3>1 DEF Last
  <2>9. Encoded(h) = [id |-> n, ref |-> IF out.acked THEN P[1].id ELSE n, picture |-> picture,
                      base |-> IF out.acked THEN P[1].picture ELSE NoPicture]
    BY <1>2, <2>4, <2>5, <2>8 DEF Encoded, g
  <2>10. Len(P) + 1 <= MaxUnacked
    BY <2>5, <2>6
  <2>11. LinkOK(h, in, W \cup {Encoded(h)}, A, c)
    BY <1>1, <1>5, <2>3, <2>9, <2>10, SendsNext DEF P, g
  <2>12. Encoded(h) \in Packet /\ Encoded(h).picture = picture
    BY <2>3, <2>9 DEF Packet, NoPicture
  <2>13. \A x \in DOMAIN h.pictures : h.pictures[x].picture = picture \/ \E y \in DOMAIN P : h.pictures[x] = P[y]
    BY <1>2, <2>4, <2>5, <2>6
  <2> QED BY <2>7, <2>11, <2>12, <2>13 DEF Link, P, Adds
<1> QED BY <1>3, <1>4, <1>5

\* A packet arrives.
LEMMA LinkReceives ==
  ASSUME Timely, NEW out \in History, NEW in \in Seq(Frame), NEW W \in SUBSET Packet,
         NEW A \in Seq(Nat), Link(out, in, W, A), NEW p \in W, NEW V \in SUBSET W,
         \A w \in V : w.picture > p.picture
  PROVE  /\ Received(in, p) \in Seq(Frame) /\ Gives(Received(in, p), in, p)
         /\ p.picture > 0 /\ p.picture <= MaxPictures
         /\ Link(out, Received(in, p), V, Append(A, p.id))
<1> DEFINE f == [id |-> p.id, picture |-> p.picture]
<1>1. PICK c \in Nat : LinkOK(out, in, W, A, c)
  BY DEF Link
<1>2. p.id \in Nat /\ p.picture \in Nat
  BY DEF Packet
<1>3. f \in Frame /\ f.picture = p.picture
  BY <1>2 DEF Frame
<1>4. Len(in) \in Nat /\ Len(A) \in Nat
  OBVIOUS
<1>5. p.picture > 0 /\ p.picture <= MaxPictures
  BY <1>1 DEF LinkOK, FramesOK
<1>6. TakesFrom(in, A, p)
  BY <1>1, DecodesRight
<1>7. PICK k \in 1 .. Len(in) + 1 :
        BeginsAt(in, A, p, k) /\ Received(in, p) = Append(SubSeq(in, k, Len(in)), f)
  BY <1>6 DEF TakesFrom
<1>8. LinkOK(out, Received(in, p), V, Append(A, p.id), c)
  BY <1>1, <1>7, ReceivesAfter
<1> DEFINE new == Received(in, p)
           n == Len(in) - k + 2
<1> HIDE DEF f, new
<1>9. /\ new \in Seq(Frame) /\ Len(new) = n
      /\ DOMAIN new = 1 .. n
      /\ \A i \in 1 .. Len(in) - k + 1 : new[i] = in[i + k - 1]
      /\ new[n] = f
  <2>1. LET s == Append(SubSeq(in, k, Len(in)), f) IN
        /\ s \in Seq(Frame) /\ Len(s) = n
        /\ DOMAIN s = 1 .. n
        /\ \A i \in 1 .. Len(in) - k + 1 : s[i] = in[i + k - 1]
        /\ s[n] = f
    BY <1>3, FromOn
  <2> QED BY <1>7, <2>1 DEF new
<1>10. n \in Nat /\ n >= 1 /\ k \in Nat
  BY <1>4
<1>11. Last(new) = f
  BY <1>9, <1>10 DEF Last
<1>12. ASSUME NEW x \in DOMAIN new
       PROVE  new[x].picture = p.picture \/ \E y \in DOMAIN in : new[x] = in[y]
  <2>1. x \in 1 .. n
    BY <1>9
  <2>2. CASE x = n
    BY <1>3, <1>9, <2>2
  <2>3. CASE x # n
    <3>1. x \in 1 .. Len(in) - k + 1 /\ x + k - 1 \in 1 .. Len(in)
      BY <1>4, <1>10, <2>1, <2>3
    <3>2. new[x] = in[x + k - 1]
      BY <1>9, <3>1
    <3>3. DOMAIN in = 1 .. Len(in)
      OBVIOUS
    <3> QED BY <3>1, <3>2, <3>3
  <2> QED BY <2>2, <2>3
<1> QED BY <1>3, <1>5, <1>8, <1>9, <1>11, <1>12 DEF Link, new, Adds, Gives

\* An acknowledgement arrives.
LEMMA LinkHears ==
  ASSUME Timely, NEW out \in History, NEW in \in Seq(Frame), NEW W \in SUBSET Packet,
         NEW A \in Seq(Nat), Link(out, in, W, A), NEW i \in 1 .. Len(A)
  PROVE  /\ AckFrame(out, A[i]) \in History
         /\ Link(AckFrame(out, A[i]), in, W, SubSeq(A, i + 1, Len(A)))
         /\ PartOf(AckFrame(out, A[i]), out)
<1>1. PICK c \in Nat : LinkOK(out, in, W, A, c)
  BY DEF Link
<1>2. /\ AckFrame(out, A[i]) \in History
      /\ LinkOK(AckFrame(out, A[i]), in, W, SubSeq(A, i + 1, Len(A)), c)
      /\ PartOf(AckFrame(out, A[i]), out)
  BY <1>1, Acknowledged
<1> QED BY <1>2 DEF Link

\* What was sent is before whatever the last picture in the history is before.
LEMMA LinkBefore ==
  ASSUME NEW out \in History, NEW in \in Seq(Frame), NEW W \in SUBSET Packet,
         NEW A \in Seq(Nat), Link(out, in, W, A), NEW picture \in Nat,
         \A x \in DOMAIN out.pictures : out.pictures[x].picture < picture,
         NEW w \in W
  PROVE  w.picture < picture
<1>1. PICK c \in Nat : LinkOK(out, in, W, A, c)
  BY DEF Link
<1>2. \A g \in ToSet(in) \cup W : g.id \in Nat /\ g.picture \in Nat
  BY FrameTypes
<1>3. HistoryOK(out, c) /\ FramesOK(out, ToSet(in) \cup W, c)
  BY <1>1 DEF LinkOK
<1> DEFINE S == ToSet(in) \cup W
<1>4. w \in S /\ (\A g \in S : g.id \in Nat /\ g.picture \in Nat) /\ FramesOK(out, S, c)
  BY <1>2, <1>3
<1> HIDE DEF S
<1> QED BY <1>3, <1>4, SentBefore

-----------------------------------------------------------------------------
(* The two links together.  Pictures only advance: what is shown, what was *)
(* sent to the recipient, what waits to be compressed and what is on its   *)
(* way to the server are in the camera's order.                            *)

UpWay == ToSet(frames["up"]) \cup ToSet(uncompressJobs)
DownWay == ToSet(frames["down"])

UpOK == Link(outbound["up"], inbound["up"], UpWay, acks["up"])
DownOK ==
  IF "recipient" \in playersById
  THEN Link(outbound["down"], inbound["down"], DownWay, acks["down"])
  ELSE outbound["down"] = NoHistory /\ frames["down"] = <<>> /\ acks["down"] = <<>>

UpOrder ==
  /\ taken <= MaxPictures
  /\ \A x \in DOMAIN outbound["up"].pictures : outbound["up"].pictures[x].picture < taken + 1
  /\ Ascending(frames["up"]) /\ Ascending(uncompressJobs)
  /\ \A i \in DOMAIN uncompressJobs : \A j \in DOMAIN frames["up"] :
       uncompressJobs[i].picture < frames["up"][j].picture

\* A picture is before all that the server has not compressed yet.
Compressed(d) ==
  /\ d < taken + 1
  /\ \A i \in DOMAIN compressJobs : d < compressJobs[i]
  /\ \A w \in UpWay : d < w.picture

JobsOrder ==
  /\ \A i \in DOMAIN compressJobs : compressJobs[i] > 0 /\ compressJobs[i] < taken + 1
  /\ \A i, j \in DOMAIN compressJobs : i < j => compressJobs[i] < compressJobs[j]
  /\ \A i \in DOMAIN compressJobs : \A w \in UpWay : compressJobs[i] < w.picture

DownOrder ==
  /\ Compressed(shown)
  /\ \A x \in DOMAIN outbound["down"].pictures : Compressed(outbound["down"].pictures[x].picture)
  /\ Ascending(frames["down"])
  /\ \A j \in DOMAIN frames["down"] : shown < frames["down"][j].picture

ReceivedPictures == \A l \in Links : \A i \in DOMAIN inbound[l] : inbound[l][i].picture <= MaxPictures

VideoInv ==
  /\ TypeOK /\ "sender" \in playersById
  /\ UpOK /\ DownOK
  /\ UpOrder /\ JobsOrder /\ DownOrder /\ ReceivedPictures

\* Nothing has been sent.
LEMMA InitInv == Init => VideoInv
<1> SUFFICES ASSUME Init PROVE VideoInv
  OBVIOUS
<1> USE VideoAssumption
<1>0. \A i : i \notin DOMAIN <<>>
  OBVIOUS
<1>1. NoHistory \in History /\ NoHistory.pictures = <<>>
  BY DEF NoHistory, History
<1>2. ToSet(<<>>) = {}
  BY DEF ToSet
<1>3. TypeOK
  BY <1>1 DEF Init, TypeOK, Links, NoPicture
<1>4. UpWay = {} /\ DownWay = {}
  BY <1>2 DEF Init, UpWay, DownWay, Links
<1>5. UpOK /\ DownOK
  BY <1>4, LinkBegins DEF Init, UpOK, DownOK, Links
<1>6. UpOrder /\ JobsOrder /\ DownOrder /\ ReceivedPictures
  BY <1>0, <1>1, <1>4 DEF Init, UpOrder, JobsOrder, DownOrder, Compressed, ReceivedPictures, Ascending, Links, NoPicture
<1> QED BY <1>3, <1>5, <1>6 DEF VideoInv, Init, Players

\* What the steps may use of the invariant's types.
LEMMA Types ==
  ASSUME TypeOK
  PROVE  /\ \A l \in Links : /\ outbound[l] \in History /\ inbound[l] \in Seq(Frame)
                             /\ frames[l] \in Seq(Packet) /\ acks[l] \in Seq(Nat)
                             /\ outbound[l].pictures \in Seq(Frame)
         /\ UpWay \in SUBSET Packet /\ DownWay \in SUBSET Packet
         /\ \A w \in UpWay \cup DownWay : w.picture \in Nat
         /\ "up" \in Links /\ "down" \in Links /\ "up" # "down"
<1>1. "up" \in Links /\ "down" \in Links /\ "up" # "down"
  BY DEF Links
<1>2. \A l \in Links : /\ outbound[l] \in History /\ inbound[l] \in Seq(Frame)
                       /\ frames[l] \in Seq(Packet) /\ acks[l] \in Seq(Nat)
  BY DEF TypeOK
<1>3. \A l \in Links : outbound[l].pictures \in Seq(Frame)
  BY <1>2 DEF History
<1>4. uncompressJobs \in Seq(Packet)
  BY DEF TypeOK
<1>5. UpWay \in SUBSET Packet /\ DownWay \in SUBSET Packet
  BY <1>1, <1>2, <1>4 DEF UpWay, DownWay, ToSet
<1>6. \A w \in UpWay \cup DownWay : w.picture \in Nat
  BY <1>5 DEF Packet
<1> QED BY <1>1, <1>2, <1>3, <1>5, <1>6

\* A packet is added to a channel that has earlier ones only.
LEMMA AscendingAppend ==
  ASSUME NEW s \in Seq(Packet), NEW p \in Packet, Ascending(s),
         \A w \in ToSet(s) : w.picture < p.picture
  PROVE  /\ Append(s, p) \in Seq(Packet) /\ Ascending(Append(s, p))
         /\ ToSet(Append(s, p)) = ToSet(s) \cup {p}
<1>1. /\ Append(s, p) \in Seq(Packet) /\ Len(s) \in Nat
      /\ DOMAIN Append(s, p) = 1 .. Len(s) + 1 /\ DOMAIN s = 1 .. Len(s)
      /\ \A i \in 1 .. Len(s) : Append(s, p)[i] = s[i]
      /\ Append(s, p)[Len(s) + 1] = p
  OBVIOUS
<1>2. \A i \in 1 .. Len(s) + 1 : i = Len(s) + 1 \/ i \in 1 .. Len(s)
  BY <1>1
<1>3. \A i \in 1 .. Len(s) : i \in 1 .. Len(s) + 1
  BY <1>1
<1>4. Len(s) + 1 \in 1 .. Len(s) + 1
  BY <1>1
<1> DEFINE t == Append(s, p)
           n == Len(s) + 1
<1>5. /\ DOMAIN t = 1 .. n /\ (\A i \in 1 .. Len(s) : t[i] = s[i]) /\ t[n] = p
      /\ n \in 1 .. n /\ Len(s) \in Nat /\ n = Len(s) + 1
  BY <1>1, <1>4
<1>6. \A i \in 1 .. n : i = n \/ i \in 1 .. Len(s)
  BY <1>2
<1>7. \A i \in 1 .. Len(s) : i \in 1 .. n
  BY <1>3
<1> HIDE DEF t, n
<1>8. \A i \in 1 .. Len(s) : s[i] \in ToSet(s) /\ s[i].picture < p.picture
  BY <1>1 DEF ToSet
<1>9. Ascending(t)
  <2>1. ASSUME NEW i \in 1 .. n, NEW j \in 1 .. n, i < j
        PROVE  t[i].picture < t[j].picture
    <3>1. i \in 1 .. Len(s)
      BY <1>5, <1>6, <2>1
    <3>2. CASE j = n
      BY <1>5, <1>8, <3>1, <3>2
    <3>3. CASE j \in 1 .. Len(s)
      BY <1>1, <1>5, <2>1, <3>1, <3>3 DEF Ascending
    <3> QED BY <1>6, <3>2, <3>3
  <2> QED BY <1>5, <2>1 DEF Ascending
<1>10. ToSet(t) = ToSet(s) \cup {p}
  <2>1. ASSUME NEW w \in ToSet(t) PROVE w \in ToSet(s) \cup {p}
    <3>1. PICK i \in 1 .. n : w = t[i]
      BY <1>5 DEF ToSet
    <3> QED BY <1>5, <1>6, <1>8, <3>1
  <2>2. ASSUME NEW w \in ToSet(s) PROVE w \in ToSet(t)
    <3>1. PICK i \in 1 .. Len(s) : w = s[i]
      BY <1>1 DEF ToSet
    <3> QED BY <1>5, <1>7, <3>1 DEF ToSet
  <2>3. p \in ToSet(t)
    BY <1>5 DEF ToSet
  <2> QED BY <2>1, <2>2, <2>3
<1> QED BY <1>1, <1>9, <1>10 DEF t

\* What is left of a channel is what comes after the packet that arrived.
LEMMA AscendingRest ==
  ASSUME NEW s \in Seq(Packet), NEW i \in 1 .. Len(s), Ascending(s)
  PROVE  LET rest == SubSeq(s, i + 1, Len(s)) IN
         /\ rest \in Seq(Packet) /\ Ascending(rest) /\ ToSet(rest) \subseteq ToSet(s)
         /\ \A w \in ToSet(rest) : s[i].picture < w.picture
         /\ s[i] \in ToSet(s) /\ s[i] \in Packet
<1> DEFINE B == SubSeq(s, i + 1, Len(s))
<1>1. /\ B \in Seq(Packet) /\ Len(B) = Len(s) - i /\ DOMAIN B = 1 .. Len(s) - i
      /\ \A x \in 1 .. Len(s) - i : B[x] = s[x + i] /\ x + i \in 1 .. Len(s)
  BY Remaining
<1> HIDE DEF B
<1>2. \A x, y \in 1 .. Len(s) : x < y => s[x].picture < s[y].picture
  BY DEF Ascending
<1>3. \A x \in 1 .. Len(s) - i : i < x + i
  OBVIOUS
<1>4. Ascending(B)
  <2>1. ASSUME NEW x \in 1 .. Len(s) - i, NEW y \in 1 .. Len(s) - i, x < y
        PROVE  B[x].picture < B[y].picture
    <3>1. x + i < y + i
      BY <2>1
    <3> QED BY <1>1, <1>2, <3>1
  <2> QED BY <1>1, <2>1 DEF Ascending
<1>5. \A w \in ToSet(B) : \E x \in 1 .. Len(s) - i : w = B[x]
  BY <1>1 DEF ToSet
<1>6. ASSUME NEW w \in ToSet(B) PROVE w \in ToSet(s) /\ s[i].picture < w.picture
  <2>1. PICK x \in 1 .. Len(s) - i : w = B[x]
    BY <1>5
  <2>2. x + i \in 1 .. Len(s) /\ w = s[x + i] /\ i < x + i
    BY <1>1, <1>3, <2>1
  <2> QED BY <1>2, <2>2 DEF ToSet
<1>7. s[i] \in ToSet(s) /\ s[i] \in Packet
  BY DEF ToSet
<1> QED BY <1>1, <1>4, <1>6, <1>7 DEF B

-----------------------------------------------------------------------------
(* Each step keeps the invariant.                                          *)

\* The picture taken is later than all that are on their way.
LEMMA SendVideoFrameInv ==
  ASSUME Timely, VideoInv, SendVideoFrame
  PROVE  VideoInv'
<1> DEFINE out == outbound["up"]
           h == AddFrame(out, taken + 1)
           p == Encoded(h)
<1>1. /\ taken < MaxPictures /\ taken' = taken + 1 /\ Len(h.pictures) <= MaxUnacked
      /\ outbound' = [outbound EXCEPT !["up"] = h]
      /\ frames' = [frames EXCEPT !["up"] = Append(@, p)]
      /\ UNCHANGED <<playersById, inbound, acks, uncompressJobs, compressJobs, shown, returns>>
  BY DEF SendVideoFrame, Send
<1>2. /\ \A l \in Links : /\ outbound[l] \in History /\ inbound[l] \in Seq(Frame)
                          /\ frames[l] \in Seq(Packet) /\ acks[l] \in Seq(Nat)
                          /\ outbound[l].pictures \in Seq(Frame)
      /\ UpWay \in SUBSET Packet /\ DownWay \in SUBSET Packet
      /\ \A w \in UpWay \cup DownWay : w.picture \in Nat
      /\ "up" \in Links /\ "down" \in Links /\ "up" # "down"
  BY Types DEF VideoInv
<1>3. /\ TypeOK /\ UpOK /\ DownOK /\ UpOrder /\ JobsOrder /\ DownOrder /\ ReceivedPictures
      /\ taken \in Nat /\ shown \in Nat /\ MaxPictures \in Nat
  BY VideoAssumption DEF VideoInv, TypeOK
<1>4. /\ out \in History /\ inbound["up"] \in Seq(Frame) /\ acks["up"] \in Seq(Nat)
      /\ Link(out, inbound["up"], UpWay, acks["up"])
      /\ \A x \in DOMAIN out.pictures : out.pictures[x].picture < taken + 1
      /\ taken + 1 \in Nat /\ taken + 1 > 0 /\ taken + 1 <= MaxPictures
  BY <1>1, <1>2, <1>3 DEF UpOK, UpOrder
<1>5. /\ h \in History /\ p \in Packet /\ p.picture = taken + 1
      /\ Link(h, inbound["up"], UpWay \cup {p}, acks["up"])
      /\ \A x \in DOMAIN h.pictures :
           h.pictures[x].picture = taken + 1 \/ \E y \in DOMAIN out.pictures : h.pictures[x] = out.pictures[y]
  <2> DEFINE n == taken + 1
             in == inbound["up"]
             A == acks["up"]
             W == UpWay
  <2>1. /\ in \in Seq(Frame) /\ A \in Seq(Nat) /\ W \in SUBSET Packet /\ out \in History
        /\ Link(out, in, W, A)
        /\ n \in Nat /\ n > 0 /\ n <= MaxPictures /\ h = AddFrame(out, n) /\ p = Encoded(h)
        /\ \A x \in DOMAIN out.pictures : out.pictures[x].picture < n
        /\ Len(h.pictures) <= MaxUnacked
    BY <1>1, <1>2, <1>4
  <2> HIDE DEF n, h, p, out, in, A, W
  <2>2. /\ h \in History /\ Encoded(h) \in Packet /\ Encoded(h).picture = n
        /\ Link(h, in, W \cup {Encoded(h)}, A)
        /\ Adds(h.pictures, out.pictures, n)
    BY <2>1, LinkSends
  <2> QED BY <2>1, <2>2 DEF Adds, n, in, A, W
<1>6. \A w \in UpWay : w.picture < taken + 1
  BY <1>2, <1>4, LinkBefore
<1> HIDE DEF h, p
<1>7. \A w \in ToSet(frames["up"]) : w.picture < p.picture
  BY <1>5, <1>6 DEF UpWay
<1>8. /\ Append(frames["up"], p) \in Seq(Packet) /\ Ascending(Append(frames["up"], p))
      /\ ToSet(Append(frames["up"], p)) = ToSet(frames["up"]) \cup {p}
  BY <1>2, <1>3, <1>5, <1>7, AscendingAppend DEF UpOrder
<1>9. /\ outbound'["up"] = h /\ outbound'["down"] = outbound["down"]
      /\ frames'["up"] = Append(frames["up"], p) /\ frames'["down"] = frames["down"]
      /\ outbound' \in [Links -> History] /\ frames' \in [Links -> Seq(Packet)]
  BY <1>1, <1>2, <1>3, <1>5, <1>8 DEF TypeOK
<1>10. UpWay' = UpWay \cup {p} /\ DownWay' = DownWay
  BY <1>1, <1>8, <1>9 DEF UpWay, DownWay
<1>11. TypeOK'
  BY <1>1, <1>3, <1>9 DEF TypeOK
<1>12. UpOK'
  BY <1>1, <1>5, <1>9, <1>10 DEF UpOK
<1>13. DownOK'
  BY <1>1, <1>3, <1>9, <1>10 DEF DownOK
<1>14. UpOrder'
  <2>1. \A x \in DOMAIN h.pictures : h.pictures[x].picture < taken' + 1
    <3>1. \A x \in DOMAIN out.pictures : out.pictures[x].picture \in Nat
      <4>1. \A x \in DOMAIN out.pictures : out.pictures[x] \in Frame
        BY <1>2
      <4> QED BY <4>1 DEF Frame
    <3>2. \A x \in DOMAIN out.pictures : out.pictures[x].picture < taken + 2
      BY <1>3, <1>4, <3>1
    <3>3. taken' + 1 = taken + 2 /\ taken + 1 < taken + 2
      BY <1>1, <1>3
    <3> HIDE DEF out
    <3> QED BY <1>5, <3>2, <3>3
  <2>2. \A i \in DOMAIN uncompressJobs : uncompressJobs[i].picture < p.picture
    BY <1>5, <1>6 DEF UpWay, ToSet
  <2>3. \A j \in DOMAIN Append(frames["up"], p) :
          Append(frames["up"], p)[j] = p \/ \E k \in DOMAIN frames["up"] : Append(frames["up"], p)[j] = frames["up"][k]
    BY <1>2
  <2>4. \A i \in DOMAIN uncompressJobs : \A j \in DOMAIN frames'["up"] :
          uncompressJobs[i].picture < frames'["up"][j].picture
    BY <1>3, <1>9, <2>2, <2>3 DEF UpOrder
  <2>5. taken' <= MaxPictures
    BY <1>1, <1>4
  <2> QED BY <1>1, <1>3, <1>8, <1>9, <2>1, <2>4, <2>5 DEF UpOrder
<1>15. JobsOrder'
  <2>1. compressJobs \in Seq(Nat)
    BY <1>3 DEF TypeOK
  <2>2. \A i \in DOMAIN compressJobs : compressJobs[i] \in Nat /\ compressJobs[i] < taken + 1
    BY <1>3, <2>1 DEF JobsOrder
  <2>3. \A i \in DOMAIN compressJobs : compressJobs[i] < taken + 2 /\ compressJobs[i] < p.picture
    BY <1>3, <1>5, <2>2
  <2>4. taken' + 1 = taken + 2
    BY <1>1, <1>3
  <2> QED BY <1>1, <1>3, <1>10, <2>3, <2>4 DEF JobsOrder
<1>16. DownOrder'
  <2>1. \A d \in Nat : Compressed(d) => /\ d < taken' + 1
                                        /\ \A i \in DOMAIN compressJobs : d < compressJobs[i]
                                        /\ \A w \in UpWay \cup {p} : d < w.picture
    BY <1>1, <1>3, <1>5 DEF Compressed
  <2>2. \A x \in DOMAIN outbound["down"].pictures : outbound["down"].pictures[x].picture \in Nat
    <3>1. \A x \in DOMAIN outbound["down"].pictures : outbound["down"].pictures[x] \in Frame
      BY <1>2
    <3> QED BY <3>1 DEF Frame
  <2>3. /\ Compressed(shown) /\ Ascending(frames["down"])
        /\ \A x \in DOMAIN outbound["down"].pictures : Compressed(outbound["down"].pictures[x].picture)
        /\ \A j \in DOMAIN frames["down"] : shown < frames["down"][j].picture
    BY <1>3 DEF DownOrder
  <2> QED BY <1>1, <1>3, <1>9, <1>10, <2>1, <2>2, <2>3 DEF DownOrder, Compressed
<1>17. ReceivedPictures'
  BY <1>1, <1>3 DEF ReceivedPictures
<1>18. ("sender" \in playersById)'
  BY <1>1 DEF VideoInv
<1> QED BY <1>11, <1>12, <1>13, <1>14, <1>15, <1>16, <1>17, <1>18 DEF VideoInv

\* On the way up the server's acknowledgement is heard.
LEMMA OnVideoFrameAckAtSenderInv ==
  ASSUME Timely, VideoInv, NEW i, OnVideoFrameAckAtSender(i)
  PROVE  VideoInv'
<1> DEFINE out == outbound["up"]
           in == inbound["up"]
           A == acks["up"]
           W == UpWay
           h == AckFrame(out, A[i])
           B == SubSeq(A, i + 1, Len(A))
<1>1. /\ i \in DOMAIN A
      /\ outbound' = [outbound EXCEPT !["up"] = h]
      /\ acks' = [acks EXCEPT !["up"] = B]
      /\ UNCHANGED <<playersById, taken, inbound, frames, uncompressJobs, compressJobs, shown, returns>>
  BY DEF OnVideoFrameAckAtSender, Arrives, After
<1>2. /\ \A l \in Links : /\ outbound[l] \in History /\ inbound[l] \in Seq(Frame)
                          /\ frames[l] \in Seq(Packet) /\ acks[l] \in Seq(Nat)
                          /\ outbound[l].pictures \in Seq(Frame)
      /\ UpWay \in SUBSET Packet
      /\ "up" \in Links /\ "down" \in Links /\ "up" # "down"
  BY Types DEF VideoInv
<1>3. TypeOK /\ UpOK /\ DownOK /\ UpOrder /\ JobsOrder /\ DownOrder /\ ReceivedPictures
  BY DEF VideoInv
<1>4. /\ out \in History /\ in \in Seq(Frame) /\ W \in SUBSET Packet /\ A \in Seq(Nat)
      /\ Link(out, in, W, A) /\ i \in 1 .. Len(A) /\ B \in Seq(Nat)
  <2>1. i \in 1 .. Len(A) /\ A \in Seq(Nat)
    BY <1>1, <1>2
  <2>2. B \in Seq(Nat)
    BY <2>1, Remaining
  <2> QED BY <1>2, <1>3, <2>1, <2>2 DEF UpOK
<1>5. h \in History /\ Link(h, in, W, B) /\ PartOf(h, out)
  <2> HIDE DEF out, in, W, A
  <2> QED BY <1>4, LinkHears
<1> HIDE DEF h, B
<1>6. /\ outbound'["up"] = h /\ outbound'["down"] = outbound["down"]
      /\ acks'["up"] = B /\ acks'["down"] = acks["down"]
      /\ outbound' \in [Links -> History] /\ acks' \in [Links -> Seq(Nat)]
  BY <1>1, <1>2, <1>3, <1>4, <1>5 DEF TypeOK
<1>7. UpWay' = UpWay /\ DownWay' = DownWay
  BY <1>1 DEF UpWay, DownWay
<1>8. TypeOK'
  BY <1>1, <1>3, <1>6 DEF TypeOK
<1>9. UpOK'
  BY <1>1, <1>5, <1>6, <1>7 DEF UpOK
<1>10. DownOK'
  BY <1>1, <1>3, <1>6, <1>7 DEF DownOK
<1>11. UpOrder'
  <2>1. \A x \in DOMAIN h.pictures : h.pictures[x].picture < taken + 1
    <3>1. \A y \in DOMAIN out.pictures : out.pictures[y].picture < taken + 1
      BY <1>3 DEF UpOrder
    <3> HIDE DEF out
    <3> QED BY <1>5, <3>1 DEF PartOf
  <2> QED BY <1>1, <1>3, <1>6, <2>1 DEF UpOrder
<1>12. JobsOrder' /\ DownOrder' /\ ReceivedPictures'
  BY <1>1, <1>3, <1>6, <1>7 DEF JobsOrder, DownOrder, Compressed, ReceivedPictures
<1>13. ("sender" \in playersById)'
  BY <1>1 DEF VideoInv
<1> QED BY <1>8, <1>9, <1>10, <1>11, <1>12, <1>13 DEF VideoInv

\* On the way down the recipient's is, if he is connected.
LEMMA OnVideoFrameAckInv ==
  ASSUME Timely, VideoInv, NEW i, OnVideoFrameAck(i)
  PROVE  VideoInv'
<1> DEFINE out == outbound["down"]
           in == inbound["down"]
           A == acks["down"]
           W == DownWay
           h == AckFrame(out, A[i])
           B == SubSeq(A, i + 1, Len(A))
<1>1. /\ i \in DOMAIN A
      /\ outbound' = IF Players \subseteq playersById THEN [outbound EXCEPT !["down"] = h] ELSE outbound
      /\ acks' = [acks EXCEPT !["down"] = B]
      /\ UNCHANGED <<playersById, taken, inbound, frames, uncompressJobs, compressJobs, shown, returns>>
  BY DEF OnVideoFrameAck, Arrives, After
<1>2. /\ \A l \in Links : /\ outbound[l] \in History /\ inbound[l] \in Seq(Frame)
                          /\ frames[l] \in Seq(Packet) /\ acks[l] \in Seq(Nat)
                          /\ outbound[l].pictures \in Seq(Frame)
      /\ DownWay \in SUBSET Packet
      /\ "up" \in Links /\ "down" \in Links /\ "up" # "down"
  BY Types DEF VideoInv
<1>3. TypeOK /\ UpOK /\ DownOK /\ UpOrder /\ JobsOrder /\ DownOrder /\ ReceivedPictures
  BY DEF VideoInv
<1>4. "recipient" \in playersById /\ Players \subseteq playersById
  <2>1. \A j : j \notin DOMAIN <<>>
    OBVIOUS
  <2>2. "recipient" \in playersById
    BY <1>1, <1>3, <2>1 DEF DownOK
  <2> QED BY <2>2 DEF VideoInv, Players
<1>5. /\ out \in History /\ in \in Seq(Frame) /\ W \in SUBSET Packet /\ A \in Seq(Nat)
      /\ Link(out, in, W, A) /\ i \in 1 .. Len(A) /\ B \in Seq(Nat)
  <2>1. i \in 1 .. Len(A) /\ A \in Seq(Nat)
    BY <1>1, <1>2
  <2>2. B \in Seq(Nat)
    BY <2>1, Remaining
  <2> QED BY <1>2, <1>3, <1>4, <2>1, <2>2 DEF DownOK
<1>6. h \in History /\ Link(h, in, W, B) /\ PartOf(h, out)
  <2> HIDE DEF out, in, W, A
  <2> QED BY <1>5, LinkHears
<1> HIDE DEF h, B
<1>7. /\ outbound'["down"] = h /\ outbound'["up"] = outbound["up"]
      /\ acks'["down"] = B /\ acks'["up"] = acks["up"]
      /\ outbound' \in [Links -> History] /\ acks' \in [Links -> Seq(Nat)]
  BY <1>1, <1>2, <1>3, <1>4, <1>5, <1>6 DEF TypeOK
<1>8. UpWay' = UpWay /\ DownWay' = DownWay
  BY <1>1 DEF UpWay, DownWay
<1>9. TypeOK'
  BY <1>1, <1>3, <1>7 DEF TypeOK
<1>10. UpOK'
  BY <1>1, <1>3, <1>7, <1>8 DEF UpOK
<1>11. DownOK'
  BY <1>1, <1>4, <1>6, <1>7, <1>8 DEF DownOK
<1>12. UpOrder' /\ JobsOrder' /\ ReceivedPictures'
  BY <1>1, <1>3, <1>7, <1>8 DEF UpOrder, JobsOrder, ReceivedPictures
<1>13. DownOrder'
  <2>1. \A x \in DOMAIN h.pictures : Compressed(h.pictures[x].picture)
    <3>1. \A y \in DOMAIN out.pictures : Compressed(out.pictures[y].picture)
      BY <1>3 DEF DownOrder
    <3> HIDE DEF out
    <3> QED BY <1>6, <3>1 DEF PartOf
  <2>2. /\ Compressed(shown) /\ Ascending(frames["down"])
        /\ \A j \in DOMAIN frames["down"] : shown < frames["down"][j].picture
    BY <1>3 DEF DownOrder
  <2> QED BY <1>1, <1>7, <1>8, <2>1, <2>2 DEF DownOrder, Compressed
<1>14. ("sender" \in playersById)'
  BY <1>1 DEF VideoInv
<1> QED BY <1>9, <1>10, <1>11, <1>12, <1>13, <1>14 DEF VideoInv

\* A packet becomes a job; those it has overtaken are lost.
LEMMA OnVideoFrameInv ==
  ASSUME VideoInv, NEW i, OnVideoFrame(i)
  PROVE  VideoInv'
<1> DEFINE s == frames["up"]
           p == s[i]
           rest == SubSeq(s, i + 1, Len(s))
           jobs == Append(uncompressJobs, p)
<1>1. /\ i \in DOMAIN s
      /\ frames' = [frames EXCEPT !["up"] = rest]
      /\ uncompressJobs' = jobs
      /\ UNCHANGED <<playersById, taken, outbound, inbound, acks, compressJobs, shown, returns>>
  BY DEF OnVideoFrame, Arrives, After
<1>2. /\ \A l \in Links : frames[l] \in Seq(Packet)
      /\ UpWay \in SUBSET Packet
      /\ "up" \in Links /\ "down" \in Links /\ "up" # "down"
  BY Types DEF VideoInv
<1>3. /\ TypeOK /\ UpOK /\ DownOK /\ UpOrder /\ JobsOrder /\ DownOrder /\ ReceivedPictures
      /\ uncompressJobs \in Seq(Packet)
  BY DEF VideoInv, TypeOK
<1>4. /\ rest \in Seq(Packet) /\ Ascending(rest) /\ ToSet(rest) \subseteq ToSet(s)
      /\ \A w \in ToSet(rest) : p.picture < w.picture
      /\ p \in ToSet(s) /\ p \in Packet
  <2>1. s \in Seq(Packet) /\ Ascending(s) /\ i \in 1 .. Len(s)
    BY <1>1, <1>2, <1>3 DEF UpOrder
  <2> HIDE DEF s
  <2> QED BY <2>1, AscendingRest
<1>5. /\ jobs \in Seq(Packet) /\ Ascending(jobs) /\ ToSet(jobs) = ToSet(uncompressJobs) \cup {p}
      /\ \A w \in ToSet(uncompressJobs) : \A v \in ToSet(s) : w.picture < v.picture
  <2>1. \A w \in ToSet(uncompressJobs) : \A v \in ToSet(s) : w.picture < v.picture
    BY <1>3 DEF UpOrder, ToSet
  <2>2. Ascending(uncompressJobs) /\ \A w \in ToSet(uncompressJobs) : w.picture < p.picture
    BY <1>3, <1>4, <2>1 DEF UpOrder
  <2> HIDE DEF p
  <2> QED BY <1>3, <1>4, <2>1, <2>2, AscendingAppend
<1> HIDE DEF p, rest, jobs
<1>6. /\ frames'["up"] = rest /\ frames'["down"] = frames["down"]
      /\ frames' \in [Links -> Seq(Packet)]
  BY <1>1, <1>2, <1>3, <1>4 DEF TypeOK
<1>7. UpWay' \subseteq UpWay /\ DownWay' = DownWay
  <2>1. UpWay' = ToSet(rest) \cup ToSet(uncompressJobs) \cup {p}
    BY <1>1, <1>5, <1>6 DEF UpWay
  <2> QED BY <1>4, <1>6, <2>1 DEF UpWay, DownWay
<1>8. TypeOK'
  BY <1>1, <1>3, <1>5, <1>6 DEF TypeOK
<1>9. UpOK'
  <2>1. Link(outbound["up"], inbound["up"], UpWay', acks["up"])
    BY <1>3, <1>7, LinkWithFewer DEF UpOK
  <2> QED BY <1>1, <2>1 DEF UpOK
<1>10. DownOK'
  BY <1>1, <1>3, <1>6, <1>7 DEF DownOK
<1>11. UpOrder'
  <2>1. \A w \in ToSet(jobs) : \A v \in ToSet(rest) : w.picture < v.picture
    BY <1>4, <1>5
  <2>2. \A x \in DOMAIN jobs : \A y \in DOMAIN rest : jobs[x].picture < rest[y].picture
    BY <2>1 DEF ToSet
  <2> QED BY <1>1, <1>3, <1>4, <1>5, <1>6, <2>2 DEF UpOrder
<1>12. JobsOrder' /\ DownOrder' /\ ReceivedPictures'
  BY <1>1, <1>3, <1>6, <1>7 DEF JobsOrder, DownOrder, Compressed, ReceivedPictures
<1>13. ("sender" \in playersById)'
  BY <1>1 DEF VideoInv
<1> QED BY <1>8, <1>9, <1>10, <1>11, <1>12, <1>13 DEF VideoInv

\* The most recent job is done.
LEMMA LastOf ==
  ASSUME NEW T, NEW s \in Seq(T), s # <<>>
  PROVE  Last(s) \in T /\ Last(s) \in ToSet(s) /\ Len(s) \in DOMAIN s /\ Last(s) = s[Len(s)]
<1>1. Len(s) \in 1 .. Len(s) /\ DOMAIN s = 1 .. Len(s)
  OBVIOUS
<1>2. s[Len(s)] \in T
  BY <1>1
<1> QED BY <1>1, <1>2 DEF Last, ToSet

\* The last packet is decoded, earlier ones are dropped.
LEMMA UncompressFrameInv ==
  ASSUME Timely, VideoInv, UncompressFrame
  PROVE  VideoInv'
<1> DEFINE out == outbound["up"]
           in == inbound["up"]
           A == acks["up"]
           W == UpWay
           V == ToSet(frames["up"])
           p == Last(uncompressJobs)
           h == Received(in, p)
           B == Append(A, p.id)
<1>1. /\ uncompressJobs # <<>> /\ uncompressJobs' = <<>>
      /\ acks' = [acks EXCEPT !["up"] = B]
      /\ inbound' = [inbound EXCEPT !["up"] = h]
      /\ compressJobs' = IF "recipient" \in playersById
                         THEN Append(compressJobs, Last(h).picture) ELSE compressJobs
      /\ UNCHANGED <<playersById, taken, outbound, frames, shown, returns>>
  BY DEF UncompressFrame, VideoInv, WithoutEarlier, Acknowledge
<1>2. /\ \A l \in Links : /\ outbound[l] \in History /\ inbound[l] \in Seq(Frame)
                          /\ frames[l] \in Seq(Packet) /\ acks[l] \in Seq(Nat)
                          /\ outbound[l].pictures \in Seq(Frame)
      /\ UpWay \in SUBSET Packet
      /\ \A w \in UpWay \cup DownWay : w.picture \in Nat
      /\ "up" \in Links /\ "down" \in Links /\ "up" # "down"
  BY Types DEF VideoInv
<1>3. /\ TypeOK /\ UpOK /\ DownOK /\ UpOrder /\ JobsOrder /\ DownOrder /\ ReceivedPictures
      /\ uncompressJobs \in Seq(Packet) /\ compressJobs \in Seq(Nat) /\ taken \in Nat
  BY DEF VideoInv, TypeOK
<1>4. /\ p \in W /\ p \in Packet /\ p.id \in Nat /\ p.picture \in Nat
      /\ V \in SUBSET W /\ \A w \in V : w.picture > p.picture
  <2>1. /\ p \in Packet /\ p \in ToSet(uncompressJobs) /\ Len(uncompressJobs) \in DOMAIN uncompressJobs
        /\ p = uncompressJobs[Len(uncompressJobs)]
    BY <1>1, <1>3, LastOf
  <2>2. p.id \in Nat /\ p.picture \in Nat
    BY <2>1 DEF Packet
  <2>3. \A w \in V : w.picture \in Nat
    BY <1>2 DEF UpWay
  <2>4. \A w \in V : p.picture < w.picture
    BY <1>3, <2>1 DEF UpOrder, ToSet
  <2> QED BY <2>1, <2>2, <2>3, <2>4 DEF UpWay
<1>5. /\ out \in History /\ in \in Seq(Frame) /\ W \in SUBSET Packet /\ A \in Seq(Nat)
      /\ Link(out, in, W, A) /\ B \in Seq(Nat)
  BY <1>2, <1>3, <1>4 DEF UpOK
<1>6. /\ h \in Seq(Frame) /\ Last(h).picture = p.picture /\ Adds(h, in, p.picture)
      /\ p.picture > 0 /\ p.picture <= MaxPictures
      /\ Link(out, h, V, B)
  <2>1. /\ p \in W /\ V \in SUBSET W /\ \A w \in V : w.picture > p.picture
        /\ out \in History /\ in \in Seq(Frame) /\ W \in SUBSET Packet /\ A \in Seq(Nat)
        /\ Link(out, in, W, A)
    BY <1>4, <1>5
  <2> HIDE DEF out, in, W, A, V, p
  <2>2. Received(in, p) \in Seq(Frame)
    BY <2>1, LinkReceives
  <2>3. Gives(Received(in, p), in, p)
    BY <2>1, LinkReceives
  <2>4. p.picture > 0 /\ p.picture <= MaxPictures
    BY <2>1, LinkReceives
  <2>5. Link(out, Received(in, p), V, Append(A, p.id))
    BY <2>1, LinkReceives
  <2> QED BY <2>2, <2>3, <2>4, <2>5 DEF Gives
<1>7. p.picture < taken + 1
  <2>1. taken + 1 \in Nat /\ \A x \in DOMAIN out.pictures : out.pictures[x].picture < taken + 1
    BY <1>3 DEF UpOrder
  <2> HIDE DEF out, in, W, A, p
  <2> QED BY <1>4, <1>5, <2>1, LinkBefore
<1>8. p \in UpWay /\ V \subseteq UpWay /\ (\A w \in V : p.picture < w.picture /\ w.picture \in Nat)
  BY <1>2, <1>4
<1> HIDE DEF h, B, p
<1>9. /\ inbound'["up"] = h /\ inbound'["down"] = inbound["down"]
      /\ acks'["up"] = B /\ acks'["down"] = acks["down"]
      /\ inbound' \in [Links -> Seq(Frame)] /\ acks' \in [Links -> Seq(Nat)]
  BY <1>1, <1>2, <1>3, <1>5, <1>6 DEF TypeOK
<1>10. UpWay' = V /\ DownWay' = DownWay
  <2>1. ToSet(<<>>) = {}
    BY DEF ToSet
  <2> QED BY <1>1, <2>1 DEF UpWay, DownWay
<1>11. /\ compressJobs' \in Seq(Nat)
       /\ \A i \in DOMAIN compressJobs' : compressJobs'[i] = p.picture
                                          \/ (i \in DOMAIN compressJobs /\ compressJobs'[i] = compressJobs[i])
       /\ \A i, j \in DOMAIN compressJobs' : i < j => i \in DOMAIN compressJobs /\ compressJobs'[i] = compressJobs[i]
  <2>1. CASE compressJobs' = compressJobs
    <3>1. \A i, j \in DOMAIN compressJobs' : i \in DOMAIN compressJobs /\ compressJobs'[i] = compressJobs[i]
      BY <2>1
    <3> QED BY <1>3, <2>1, <3>1
  <2>2. CASE compressJobs' = Append(compressJobs, p.picture)
    <3> DEFINE jobs == Append(compressJobs, p.picture)
               n == Len(compressJobs) + 1
    <3>1. /\ jobs \in Seq(Nat) /\ DOMAIN jobs = 1 .. n /\ DOMAIN compressJobs = 1 .. Len(compressJobs)
          /\ \A i \in 1 .. Len(compressJobs) : jobs[i] = compressJobs[i]
          /\ jobs[n] = p.picture /\ Len(compressJobs) \in Nat
      BY <1>3, <1>4
    <3>2. \A i \in 1 .. n : i = n \/ i \in 1 .. Len(compressJobs)
      BY <3>1
    <3>3. \A i, j \in 1 .. n : i < j => i \in 1 .. Len(compressJobs)
      BY <3>1
    <3> HIDE DEF jobs, n
    <3>4. \A i \in DOMAIN jobs : jobs[i] = p.picture \/ (i \in DOMAIN compressJobs /\ jobs[i] = compressJobs[i])
      BY <3>1, <3>2
    <3>5. \A i, j \in DOMAIN jobs : i < j => i \in DOMAIN compressJobs /\ jobs[i] = compressJobs[i]
      BY <3>1, <3>3
    <3>6. compressJobs' = jobs
      BY <2>2 DEF jobs
    <3> QED BY <3>1, <3>4, <3>5, <3>6
  <2> QED BY <1>1, <1>6, <2>1, <2>2
<1>12. TypeOK'
  BY <1>1, <1>3, <1>9, <1>11 DEF TypeOK
<1>13. UpOK'
  BY <1>1, <1>6, <1>9, <1>10 DEF UpOK
<1>14. DownOK'
  BY <1>1, <1>3, <1>9, <1>10 DEF DownOK
<1>15. UpOrder'
  <2>1. Ascending(<<>>) /\ \A i : i \notin DOMAIN <<>>
    BY DEF Ascending
  <2> QED BY <1>1, <1>3, <2>1 DEF UpOrder
<1>16. \A i \in DOMAIN compressJobs : compressJobs[i] < p.picture /\ compressJobs[i] \in Nat
  BY <1>3, <1>8 DEF JobsOrder
<1>17. JobsOrder'
  <2>1. \A i \in DOMAIN compressJobs' : compressJobs'[i] > 0 /\ compressJobs'[i] < taken + 1
    BY <1>3, <1>6, <1>7, <1>11 DEF JobsOrder
  <2>2. \A i \in DOMAIN compressJobs' : \A w \in V : compressJobs'[i] < w.picture
    BY <1>3, <1>8, <1>11 DEF JobsOrder
  <2>3. ASSUME NEW i \in DOMAIN compressJobs', NEW j \in DOMAIN compressJobs', i < j
        PROVE  compressJobs'[i] < compressJobs'[j]
    <3>1. i \in DOMAIN compressJobs /\ compressJobs'[i] = compressJobs[i]
      BY <1>11, <2>3
    <3>2. CASE compressJobs'[j] = p.picture
      BY <1>16, <3>1, <3>2
    <3>3. CASE j \in DOMAIN compressJobs /\ compressJobs'[j] = compressJobs[j]
      BY <1>3, <2>3, <3>1, <3>3 DEF JobsOrder
    <3> QED BY <1>11, <3>2, <3>3
  <2> QED BY <1>1, <1>10, <2>1, <2>2, <2>3 DEF JobsOrder
<1>18. DownOrder'
  <2>1. ASSUME NEW d, Compressed(d)
        PROVE  /\ d < taken + 1
               /\ \A i \in DOMAIN compressJobs' : d < compressJobs'[i]
               /\ \A w \in V : d < w.picture
    <3>1. d < p.picture
      BY <1>8, <2>1 DEF Compressed
    <3> QED BY <1>8, <1>11, <2>1, <3>1 DEF Compressed
  <2>2. /\ Compressed(shown) /\ Ascending(frames["down"])
        /\ \A x \in DOMAIN outbound["down"].pictures : Compressed(outbound["down"].pictures[x].picture)
        /\ \A j \in DOMAIN frames["down"] : shown < frames["down"][j].picture
    BY <1>3 DEF DownOrder
  <2> QED BY <1>1, <1>10, <2>1, <2>2 DEF DownOrder, Compressed
<1>19. ReceivedPictures'
  BY <1>3, <1>6, <1>9 DEF ReceivedPictures, Adds, Links
<1>20. ("sender" \in playersById)'
  BY <1>1 DEF VideoInv
<1> QED BY <1>12, <1>13, <1>14, <1>15, <1>17, <1>18, <1>19, <1>20 DEF VideoInv

\* The last picture is sent on, earlier ones are dropped.
LEMMA CompressAndSendFrameInv ==
  ASSUME Timely, VideoInv, CompressAndSendFrame
  PROVE  VideoInv'
<1> DEFINE out == outbound["down"]
           in == inbound["down"]
           A == acks["down"]
           W == DownWay
           d == Last(compressJobs)
           h == AddFrame(out, d)
           p == Encoded(h)
<1>1. /\ compressJobs # <<>> /\ compressJobs' = <<>>
      /\ UNCHANGED <<playersById, taken, inbound, acks, uncompressJobs, shown, returns>>
      /\ \/ "recipient" \notin playersById /\ UNCHANGED <<outbound, frames>>
         \/ /\ "recipient" \in playersById /\ Len(h.pictures) <= MaxUnacked
            /\ outbound' = [outbound EXCEPT !["down"] = h]
            /\ frames' = [frames EXCEPT !["down"] = Append(@, p)]
  BY DEF CompressAndSendFrame, Send, WithoutEarlier, VideoInv, Players
<1>2. /\ \A l \in Links : /\ outbound[l] \in History /\ inbound[l] \in Seq(Frame)
                          /\ frames[l] \in Seq(Packet) /\ acks[l] \in Seq(Nat)
                          /\ outbound[l].pictures \in Seq(Frame)
      /\ DownWay \in SUBSET Packet
      /\ "up" \in Links /\ "down" \in Links /\ "up" # "down"
  BY Types DEF VideoInv
<1>3. /\ TypeOK /\ UpOK /\ DownOK /\ UpOrder /\ JobsOrder /\ DownOrder /\ ReceivedPictures
      /\ "sender" \in playersById
      /\ compressJobs \in Seq(Nat) /\ taken \in Nat /\ shown \in Nat /\ MaxPictures \in Nat
  BY VideoAssumption DEF VideoInv, TypeOK
<1>4. \A i : i \notin DOMAIN <<>>
  OBVIOUS
<1>5. <<>> \in Seq(Nat)
  OBVIOUS
<1>6. JobsOrder' /\ ReceivedPictures' /\ ("sender" \in playersById)'
  BY <1>1, <1>3, <1>4 DEF JobsOrder, ReceivedPictures
<1>7. CASE "recipient" \notin playersById /\ UNCHANGED <<outbound, frames>>
  <2>1. UpWay' = UpWay /\ DownWay' = DownWay
    BY <1>1, <1>7 DEF UpWay, DownWay
  <2>2. TypeOK' /\ UpOK' /\ DownOK' /\ UpOrder'
    BY <1>1, <1>3, <1>5, <1>7, <2>1 DEF TypeOK, UpOK, DownOK, UpOrder
  <2>3. DownOrder'
    BY <1>1, <1>3, <1>4, <1>7, <2>1 DEF DownOrder, Compressed
  <2> QED BY <1>6, <2>2, <2>3 DEF VideoInv
<1>8. CASE /\ "recipient" \in playersById /\ Len(h.pictures) <= MaxUnacked
           /\ outbound' = [outbound EXCEPT !["down"] = h]
           /\ frames' = [frames EXCEPT !["down"] = Append(@, p)]
  <2>1. /\ d \in Nat /\ d > 0 /\ d < taken + 1 /\ d <= MaxPictures
        /\ \A w \in UpWay : d < w.picture
        /\ \A e : Compressed(e) => e < d
    <3>1. d \in Nat /\ Len(compressJobs) \in DOMAIN compressJobs /\ d = compressJobs[Len(compressJobs)]
      BY <1>1, <1>3, LastOf
    <3> HIDE DEF d
    <3>2. d > 0 /\ d < taken + 1 /\ \A w \in UpWay : d < w.picture
      BY <1>3, <3>1 DEF JobsOrder
    <3>3. taken <= MaxPictures
      BY <1>3 DEF UpOrder
    <3>4. \A e : Compressed(e) => e < d
      BY <3>1 DEF Compressed
    <3>5. d <= MaxPictures
      BY <1>3, <3>1, <3>2, <3>3
    <3> QED BY <3>1, <3>2, <3>4, <3>5
  <2>2. /\ out \in History /\ in \in Seq(Frame) /\ W \in SUBSET Packet /\ A \in Seq(Nat)
        /\ Link(out, in, W, A) /\ (\A x \in DOMAIN out.pictures : out.pictures[x].picture < d)
        /\ h = AddFrame(out, d) /\ p = Encoded(h) /\ Len(h.pictures) <= MaxUnacked
    <3>1. \A x \in DOMAIN out.pictures : out.pictures[x].picture < d
      BY <1>3, <2>1 DEF DownOrder
    <3>2. Link(out, in, W, A)
      BY <1>3, <1>8 DEF DownOK
    <3> QED BY <1>2, <1>8, <3>1, <3>2
  <2>3. /\ h \in History /\ p \in Packet /\ p.picture = d
        /\ Link(h, in, W \cup {p}, A)
        /\ Adds(h.pictures, out.pictures, d)
    <3> HIDE DEF out, in, A, W, d, h, p
    <3>1. /\ h \in History /\ Encoded(h) \in Packet /\ Encoded(h).picture = d
          /\ Link(h, in, W \cup {Encoded(h)}, A)
          /\ Adds(h.pictures, out.pictures, d)
      BY <2>1, <2>2, LinkSends
    <3> QED BY <2>2, <3>1
  <2>4. \A w \in DownWay : w.picture < d
    <3>1. \A w \in W : w.picture < d
      <4> HIDE DEF out, in, A, W, d
      <4> QED BY <2>1, <2>2, LinkBefore
    <3> QED BY <3>1
  <2> HIDE DEF d, h, p
  <2>5. /\ Append(frames["down"], p) \in Seq(Packet) /\ Ascending(Append(frames["down"], p))
        /\ ToSet(Append(frames["down"], p)) = ToSet(frames["down"]) \cup {p}
    <3>1. \A w \in ToSet(frames["down"]) : w.picture < p.picture
      BY <2>3, <2>4 DEF DownWay
    <3> QED BY <1>2, <1>3, <2>3, <3>1, AscendingAppend DEF DownOrder
  <2>6. /\ outbound'["down"] = h /\ outbound'["up"] = outbound["up"]
        /\ frames'["down"] = Append(frames["down"], p) /\ frames'["up"] = frames["up"]
        /\ outbound' \in [Links -> History] /\ frames' \in [Links -> Seq(Packet)]
    BY <1>2, <1>3, <1>8, <2>3, <2>5 DEF TypeOK
  <2>7. UpWay' = UpWay /\ DownWay' = DownWay \cup {p}
    BY <1>1, <2>5, <2>6 DEF UpWay, DownWay
  <2>8. TypeOK'
    BY <1>1, <1>3, <1>5, <2>6 DEF TypeOK
  <2>9. UpOK' /\ UpOrder'
    BY <1>1, <1>3, <2>6, <2>7 DEF UpOK, UpOrder
  <2>10. DownOK'
    BY <1>1, <1>8, <2>3, <2>6, <2>7 DEF DownOK
  <2>11. DownOrder'
    <3>1. \A e : Compressed(e) \/ e = d => e < taken + 1 /\ \A w \in UpWay : e < w.picture
      BY <2>1 DEF Compressed
    <3>2. \A x \in DOMAIN h.pictures : Compressed(h.pictures[x].picture) \/ h.pictures[x].picture = d
      BY <1>3, <2>3 DEF DownOrder, Adds
    <3>3. shown < d
      BY <1>3, <2>1 DEF DownOrder
    <3>4. \A j \in DOMAIN Append(frames["down"], p) :
            Append(frames["down"], p)[j] = p \/ \E k \in DOMAIN frames["down"] : Append(frames["down"], p)[j] = frames["down"][k]
      BY <1>2
    <3>5. \A j \in DOMAIN frames'["down"] : shown < frames'["down"][j].picture
      BY <1>3, <2>3, <2>6, <3>3, <3>4 DEF DownOrder
    <3>6. Compressed(shown)
      BY <1>3 DEF DownOrder
    <3> QED BY <1>1, <1>4, <2>5, <2>6, <2>7, <3>1, <3>2, <3>5, <3>6 DEF DownOrder, Compressed
  <2> QED BY <1>6, <2>8, <2>9, <2>10, <2>11 DEF VideoInv
<1> QED BY <1>1, <1>7, <1>8

\* The recipient decodes a packet, which is later than what he sees.
LEMMA ProcessVideoFramesInv ==
  ASSUME Timely, VideoInv, NEW i, ProcessVideoFrames(i)
  PROVE  VideoInv' /\ shown' >= shown
<1> DEFINE out == outbound["down"]
           in == inbound["down"]
           A == acks["down"]
           W == DownWay
           s == frames["down"]
           p == s[i]
           rest == SubSeq(s, i + 1, Len(s))
           V == ToSet(rest)
           h == Received(in, p)
           B == Append(A, p.id)
<1>1. /\ i \in DOMAIN s
      /\ frames' = [frames EXCEPT !["down"] = rest]
      /\ acks' = [acks EXCEPT !["down"] = B]
      /\ inbound' = [inbound EXCEPT !["down"] = h]
      /\ shown' = Last(h).picture
      /\ UNCHANGED <<playersById, taken, outbound, uncompressJobs, compressJobs, returns>>
  BY DEF ProcessVideoFrames, Arrives, After, Acknowledge
<1>2. /\ \A l \in Links : /\ outbound[l] \in History /\ inbound[l] \in Seq(Frame)
                          /\ frames[l] \in Seq(Packet) /\ acks[l] \in Seq(Nat)
                          /\ outbound[l].pictures \in Seq(Frame)
      /\ DownWay \in SUBSET Packet
      /\ \A w \in UpWay \cup DownWay : w.picture \in Nat
      /\ "up" \in Links /\ "down" \in Links /\ "up" # "down"
  BY Types DEF VideoInv
<1>3. /\ TypeOK /\ UpOK /\ DownOK /\ UpOrder /\ JobsOrder /\ DownOrder /\ ReceivedPictures
      /\ taken \in Nat /\ shown \in Nat /\ compressJobs \in Seq(Nat)
  BY DEF VideoInv, TypeOK
<1>4. "recipient" \in playersById
  <2>1. \A j : j \notin DOMAIN <<>>
    OBVIOUS
  <2> QED BY <1>1, <1>3, <2>1 DEF DownOK
<1>5. /\ rest \in Seq(Packet) /\ Ascending(rest) /\ V \in SUBSET W
      /\ \A w \in V : w.picture > p.picture
      /\ p \in W /\ p.picture \in Nat /\ p.id \in Nat
      /\ \A j \in DOMAIN rest : p.picture < rest[j].picture
  <2>1. s \in Seq(Packet) /\ Ascending(s) /\ i \in 1 .. Len(s)
    BY <1>1, <1>2, <1>3 DEF DownOrder
  <2>2. /\ rest \in Seq(Packet) /\ Ascending(rest) /\ ToSet(rest) \subseteq ToSet(s)
        /\ \A w \in ToSet(rest) : p.picture < w.picture
        /\ p \in ToSet(s) /\ p \in Packet
    <3> HIDE DEF s
    <3> QED BY <2>1, AscendingRest
  <2> HIDE DEF rest
  <2>3. p.picture \in Nat /\ p.id \in Nat
    BY <2>2 DEF Packet
  <2>4. V \in SUBSET W /\ p \in W
    BY <2>2 DEF DownWay
  <2>5. \A w \in V : w.picture > p.picture
    BY <1>2, <2>2, <2>3, <2>4
  <2>6. \A j \in DOMAIN rest : p.picture < rest[j].picture
    BY <2>2 DEF ToSet
  <2> QED BY <2>2, <2>3, <2>4, <2>5, <2>6
<1>6. /\ out \in History /\ in \in Seq(Frame) /\ W \in SUBSET Packet /\ A \in Seq(Nat)
      /\ Link(out, in, W, A) /\ B \in Seq(Nat)
  BY <1>2, <1>3, <1>4, <1>5 DEF DownOK
<1>7. /\ h \in Seq(Frame) /\ Last(h).picture = p.picture /\ Adds(h, in, p.picture)
      /\ p.picture > 0 /\ p.picture <= MaxPictures
      /\ Link(out, h, V, B)
  <2>1. /\ p \in W /\ V \in SUBSET W /\ \A w \in V : w.picture > p.picture
        /\ out \in History /\ in \in Seq(Frame) /\ W \in SUBSET Packet /\ A \in Seq(Nat)
        /\ Link(out, in, W, A)
    BY <1>5, <1>6
  <2> HIDE DEF out, in, W, A, V, p
  <2>2. Received(in, p) \in Seq(Frame)
    BY <2>1, LinkReceives
  <2>3. Gives(Received(in, p), in, p)
    BY <2>1, LinkReceives
  <2>4. p.picture > 0 /\ p.picture <= MaxPictures
    BY <2>1, LinkReceives
  <2>5. Link(out, Received(in, p), V, Append(A, p.id))
    BY <2>1, LinkReceives
  <2> QED BY <2>2, <2>3, <2>4, <2>5 DEF Gives
<1>8. /\ p.picture < taken + 1
      /\ \A j \in DOMAIN compressJobs : p.picture < compressJobs[j]
      /\ \A w \in UpWay : p.picture < w.picture
  <2>1. \A e \in Nat : (\A d : Compressed(d) => d < e) => p.picture < e
    <3> SUFFICES ASSUME NEW e \in Nat, \A d : Compressed(d) => d < e PROVE p.picture < e
      OBVIOUS
    <3>1. \A x \in DOMAIN out.pictures : out.pictures[x].picture < e
      BY <1>3 DEF DownOrder
    <3>2. p \in W
      BY <1>5
    <3> HIDE DEF out, in, W, A, p
    <3> QED BY <1>6, <3>1, <3>2, LinkBefore
  <2> HIDE DEF p
  <2>2. p.picture < taken + 1
    BY <1>3, <2>1 DEF Compressed
  <2>3. \A j \in DOMAIN compressJobs : compressJobs[j] \in Nat
    BY <1>3
  <2>4. \A j \in DOMAIN compressJobs : p.picture < compressJobs[j]
    BY <2>1, <2>3 DEF Compressed
  <2>5. \A w \in UpWay : p.picture < w.picture
    BY <1>2, <2>1 DEF Compressed
  <2> QED BY <2>2, <2>4, <2>5
<1>9. shown < p.picture
  BY <1>1, <1>3 DEF DownOrder
<1> HIDE DEF h, B, p, rest
<1>10. /\ inbound'["down"] = h /\ inbound'["up"] = inbound["up"]
       /\ acks'["down"] = B /\ acks'["up"] = acks["up"]
       /\ frames'["down"] = rest /\ frames'["up"] = frames["up"]
       /\ inbound' \in [Links -> Seq(Frame)] /\ acks' \in [Links -> Seq(Nat)]
       /\ frames' \in [Links -> Seq(Packet)]
  BY <1>1, <1>2, <1>3, <1>5, <1>6, <1>7 DEF TypeOK
<1>11. UpWay' = UpWay /\ DownWay' = V
  BY <1>1, <1>10 DEF UpWay, DownWay
<1>12. shown' = p.picture
  BY <1>1, <1>7
<1>13. TypeOK'
  BY <1>1, <1>3, <1>5, <1>10, <1>12 DEF TypeOK
<1>14. UpOK'
  BY <1>1, <1>3, <1>10, <1>11 DEF UpOK
<1>15. DownOK'
  BY <1>1, <1>4, <1>7, <1>10, <1>11 DEF DownOK
<1>16. UpOrder' /\ JobsOrder'
  BY <1>1, <1>3, <1>10, <1>11 DEF UpOrder, JobsOrder
<1>17. DownOrder'
  <2>1. \A x \in DOMAIN out.pictures : Compressed(out.pictures[x].picture)
    BY <1>3 DEF DownOrder
  <2> QED BY <1>1, <1>5, <1>8, <1>10, <1>11, <1>12, <2>1 DEF DownOrder, Compressed
<1>18. ReceivedPictures'
  BY <1>3, <1>7, <1>10 DEF ReceivedPictures, Adds, Links
<1>19. ("sender" \in playersById)'
  BY <1>1 DEF VideoInv
<1>20. shown' >= shown
  BY <1>3, <1>5, <1>9, <1>12
<1> QED BY <1>13, <1>14, <1>15, <1>16, <1>17, <1>18, <1>19, <1>20 DEF VideoInv

\* Only the recipient leaves.
LEMMA OnPlayerDisconnectedInv ==
  ASSUME SenderStays, VideoInv, NEW p \in Players, OnPlayerDisconnected(p)
  PROVE  VideoInv'
<1>1. /\ TypeOK /\ UpOK /\ DownOK /\ UpOrder /\ JobsOrder /\ DownOrder /\ ReceivedPictures
      /\ "sender" \in playersById /\ returns \in [Players -> Nat]
  BY DEF VideoInv, TypeOK
<1>2. p = "recipient"
  <2>1. returns["sender"] \in Nat
    BY <1>1 DEF Players
  <2>2. p # "sender"
    BY <2>1 DEF OnPlayerDisconnected, SenderStays
  <2> QED BY <2>2 DEF Players
<1>3. /\ playersById' = playersById \ {"recipient"}
      /\ frames' = [frames EXCEPT !["down"] = <<>>]
      /\ acks' = [acks EXCEPT !["down"] = <<>>]
      /\ outbound' = [outbound EXCEPT !["down"] = NoHistory]
      /\ UNCHANGED <<inbound, taken, uncompressJobs, compressJobs, shown, returns>>
  BY <1>2 DEF OnPlayerDisconnected, RemoveHistory, LinkOf
<1>4. /\ "up" \in Links /\ "down" \in Links /\ "up" # "down"
      /\ NoHistory \in History /\ NoHistory.pictures = <<>>
      /\ \A i : i \notin DOMAIN <<>>
  BY DEF Links, NoHistory, History
<1>5. <<>> \in Seq(Packet) /\ <<>> \in Seq(Nat)
  OBVIOUS
<1>6. /\ outbound'["down"] = NoHistory /\ outbound'["up"] = outbound["up"]
      /\ frames'["down"] = <<>> /\ frames'["up"] = frames["up"]
      /\ acks'["down"] = <<>> /\ acks'["up"] = acks["up"]
      /\ outbound' \in [Links -> History] /\ frames' \in [Links -> Seq(Packet)]
      /\ acks' \in [Links -> Seq(Nat)]
  BY <1>1, <1>3, <1>4, <1>5 DEF TypeOK
<1>7. UpWay' = UpWay
  BY <1>3, <1>6 DEF UpWay
<1>8. TypeOK' /\ ("sender" \in playersById)'
  BY <1>1, <1>3, <1>6 DEF TypeOK
<1>9. UpOK' /\ UpOrder' /\ JobsOrder' /\ ReceivedPictures'
  BY <1>1, <1>3, <1>6, <1>7 DEF UpOK, UpOrder, JobsOrder, ReceivedPictures
<1>10. DownOK'
  BY <1>3, <1>6 DEF DownOK
<1>11. DownOrder'
  BY <1>1, <1>3, <1>4, <1>6, <1>7 DEF DownOrder, Compressed, Ascending
<1> QED BY <1>8, <1>9, <1>10, <1>11 DEF VideoInv

\* The recipient returns, with nothing on its way to him.
LEMMA ConnectInv ==
  ASSUME VideoInv, NEW p \in Players, Connect(p)
  PROVE  VideoInv'
<1>1. /\ TypeOK /\ UpOK /\ DownOK /\ UpOrder /\ JobsOrder /\ DownOrder /\ ReceivedPictures
      /\ "sender" \in playersById /\ returns \in [Players -> Nat]
  BY DEF VideoInv, TypeOK
<1>2. p = "recipient" /\ "recipient" \notin playersById
  BY <1>1 DEF Connect, Players
<1>3. /\ playersById' = playersById \cup {"recipient"}
      /\ returns' = [returns EXCEPT !["recipient"] = @ + 1]
      /\ inbound' = [inbound EXCEPT !["down"] = <<>>]
      /\ UNCHANGED <<outbound, taken, frames, acks, uncompressJobs, compressJobs, shown>>
  BY <1>2 DEF Connect
<1>4. /\ "up" \in Links /\ "down" \in Links /\ "up" # "down" /\ "recipient" \in Players
      /\ \A i : i \notin DOMAIN <<>>
  BY DEF Links, Players
<1>5. <<>> \in Seq(Frame) /\ ToSet(<<>>) = {}
  BY DEF ToSet
<1>6. /\ inbound'["down"] = <<>> /\ inbound'["up"] = inbound["up"]
      /\ inbound' \in [Links -> Seq(Frame)]
      /\ returns' \in [Players -> Nat]
  BY <1>1, <1>3, <1>4, <1>5 DEF TypeOK
<1>7. UpWay' = UpWay /\ DownWay' = DownWay
  BY <1>3 DEF UpWay, DownWay
<1>8. TypeOK' /\ ("sender" \in playersById)'
  BY <1>1, <1>2, <1>3, <1>4, <1>6 DEF TypeOK
<1>9. UpOK' /\ UpOrder' /\ JobsOrder' /\ DownOrder'
  BY <1>1, <1>3, <1>6, <1>7 DEF UpOK, UpOrder, JobsOrder, DownOrder, Compressed
<1>10. DownOK'
  <2>1. outbound["down"] = NoHistory /\ frames["down"] = <<>> /\ acks["down"] = <<>>
    BY <1>1, <1>2 DEF DownOK
  <2>2. DownWay = {}
    BY <1>5, <2>1 DEF DownWay
  <2>3. Link(outbound["down"], <<>>, DownWay, acks["down"])
    BY <2>1, <2>2, LinkBegins
  <2>4. "recipient" \in playersById'
    BY <1>3
  <2> QED BY <1>3, <1>6, <1>7, <2>3, <2>4 DEF DownOK
<1>11. ReceivedPictures'
  BY <1>1, <1>4, <1>6 DEF ReceivedPictures, Links
<1> QED BY <1>8, <1>9, <1>10, <1>11 DEF VideoInv

\* Every step keeps the invariant, and none shows an older picture.
LEMMA StepInv ==
  ASSUME Timely, SenderStays, VideoInv, [Next]_vars
  PROVE  VideoInv' /\ shown' >= shown
<1>1. shown \in Nat
  BY DEF VideoInv, TypeOK
<1>2. CASE SendVideoFrame
  BY <1>1, <1>2, SendVideoFrameInv DEF SendVideoFrame
<1>3. CASE UncompressFrame
  BY <1>1, <1>3, UncompressFrameInv DEF UncompressFrame
<1>4. CASE CompressAndSendFrame
  BY <1>1, <1>4, CompressAndSendFrameInv DEF CompressAndSendFrame
<1>5. ASSUME NEW i, OnVideoFrameAckAtSender(i) PROVE VideoInv' /\ shown' >= shown
  <2>1. VideoInv'
    BY <1>5, OnVideoFrameAckAtSenderInv
  <2>2. shown' = shown
    BY <1>5 DEF OnVideoFrameAckAtSender
  <2> QED BY <1>1, <2>1, <2>2
<1>6. ASSUME NEW i, OnVideoFrame(i) PROVE VideoInv' /\ shown' >= shown
  <2>1. VideoInv'
    BY <1>6, OnVideoFrameInv
  <2>2. shown' = shown
    BY <1>6 DEF OnVideoFrame
  <2> QED BY <1>1, <2>1, <2>2
<1>7. ASSUME NEW i, OnVideoFrameAck(i) PROVE VideoInv' /\ shown' >= shown
  <2>1. VideoInv'
    BY <1>7, OnVideoFrameAckInv
  <2>2. shown' = shown
    BY <1>7 DEF OnVideoFrameAck
  <2> QED BY <1>1, <2>1, <2>2
<1>8. ASSUME NEW i, ProcessVideoFrames(i) PROVE VideoInv' /\ shown' >= shown
  BY <1>8, ProcessVideoFramesInv
<1>9. ASSUME NEW p \in Players, OnPlayerDisconnected(p) PROVE VideoInv' /\ shown' >= shown
  <2>1. VideoInv'
    BY <1>9, OnPlayerDisconnectedInv
  <2>2. shown' = shown
    BY <1>9 DEF OnPlayerDisconnected
  <2> QED BY <1>1, <2>1, <2>2
<1>10. ASSUME NEW p \in Players, Connect(p) PROVE VideoInv' /\ shown' >= shown
  <2>1. VideoInv'
    BY <1>10, ConnectInv
  <2>2. shown' = shown
    BY <1>10 DEF Connect
  <2> QED BY <1>1, <2>1, <2>2
<1>11. CASE UNCHANGED vars
  <2>1. UpWay' = UpWay /\ DownWay' = DownWay
    BY <1>11 DEF vars, UpWay, DownWay
  <2>2. VideoInv'
    BY <1>11, <2>1 DEF vars, VideoInv, TypeOK, UpOK, DownOK, UpOrder, JobsOrder, DownOrder, Compressed, ReceivedPictures
  <2> QED BY <1>1, <1>11, <2>2 DEF vars
<1> QED BY <1>2, <1>3, <1>4, <1>5, <1>6, <1>7, <1>8, <1>9, <1>10, <1>11 DEF Next

-----------------------------------------------------------------------------
(* The theorems.                                                           *)

\* The values have their types and both links keep their invariant, whatever is
\* lost, overtaken or acknowledged late.
THEOREM LinksKeepInvariant ==
  ASSUME Timely, SenderStays
  PROVE  Spec => []VideoInv
<1>1. VideoInv /\ [Next]_vars => VideoInv'
  BY StepInv
<1> QED BY <1>1, InitInv, PTL DEF Spec

\* No rubbish is a picture, so the invariant excludes it.
LEMMA InvSeen == VideoInv => SeenAsSent
<1> SUFFICES ASSUME VideoInv PROVE SeenAsSent
  OBVIOUS
<1>1. /\ TypeOK /\ UpOrder /\ DownOrder /\ ReceivedPictures
      /\ taken \in Nat /\ shown \in Nat /\ MaxPictures \in Nat
  BY VideoAssumption DEF VideoInv, TypeOK
<1>2. shown \in Pictures
  <2>1. shown < taken + 1 /\ taken <= MaxPictures
    BY <1>1 DEF UpOrder, DownOrder, Compressed
  <2> QED BY <1>1, <2>1 DEF Pictures
<1>3. ASSUME NEW l \in Links, NEW f \in ToSet(inbound[l]) PROVE f.picture \in Pictures
  <2>1. inbound[l] \in Seq(Frame)
    BY <1>1 DEF TypeOK
  <2>2. PICK i \in DOMAIN inbound[l] : f = inbound[l][i]
    BY DEF ToSet
  <2>3. f \in Frame
    BY <2>1, <2>2
  <2>4. f.picture \in Nat
    BY <2>3 DEF Frame
  <2>5. f.picture <= MaxPictures
    BY <1>1, <2>2 DEF ReceivedPictures
  <2> QED BY <1>1, <2>4, <2>5 DEF Pictures
<1> QED BY <1>2, <1>3 DEF SeenAsSent

\* The recipient sees, and both ends keep, only pictures as the camera took
\* them: no packet is decoded with another picture than it was made with.
THEOREM PicturesSeenAsSent ==
  ASSUME Timely, SenderStays
  PROVE  Spec => []SeenAsSent
BY LinksKeepInvariant, InvSeen, PTL

\* In a link, the sender's history is consecutive, and what the sender has heard
\* of is in the receiver's.
LEMMA LinkKeeps ==
  ASSUME NEW out, NEW in \in Seq(Frame), NEW W, NEW A \in Seq(Nat), Link(out, in, W, A),
         out.pictures \in Seq(Frame)
  PROVE  /\ \A i \in DOMAIN out.pictures :
              out.pictures[i].id = Head(out.pictures).id + i - 1 /\ out.pictures[i].id < Ids
         /\ out.acked => Head(out.pictures) \in ToSet(in)
<1> DEFINE P == out.pictures
<1>1. PICK c \in Nat : LinkOK(out, in, W, A, c)
  BY DEF Link
<1>2. HistoryOK(out, c) /\ AcksOK(out, in, A)
  BY <1>1 DEF LinkOK
<1>3. P # <<>> => Head(P) = P[1]
  OBVIOUS
<1>4. \A i \in DOMAIN P : P # <<>>
  OBVIOUS
<1>5. \A i \in DOMAIN P : P[i].id = P[1].id + i - 1 /\ P[i].id < Ids
  BY <1>2 DEF HistoryOK
<1>6. ASSUME out.acked PROVE Head(P) \in ToSet(in)
  <2>1. P # <<>>
    BY <1>2, <1>6 DEF HistoryOK
  <2>2. PICK k \in 1 .. Len(in) - Len(A) : in[k] = P[1]
    BY <1>2, <1>6 DEF AcksOK
  <2>3. k \in DOMAIN in
    <3>1. Len(in) \in Nat /\ Len(A) \in Nat /\ DOMAIN in = 1 .. Len(in)
      OBVIOUS
    <3> QED BY <3>1
  <2> QED BY <1>3, <2>1, <2>2, <2>3 DEF ToSet
<1> HIDE DEF P
<1>7. \A i \in DOMAIN P : P[i].id = Head(P).id + i - 1 /\ P[i].id < Ids
  BY <1>3, <1>4, <1>5
<1> QED BY <1>6, <1>7 DEF P

\* While the recipient is out, the server keeps nothing for him.
LEMMA InvReference == VideoInv => ReferenceKept
<1> SUFFICES ASSUME VideoInv, NEW l \in Links
             PROVE  LET kept == outbound[l].pictures IN
                    /\ \A i \in DOMAIN kept : kept[i].id = Head(kept).id + i - 1 /\ kept[i].id < Ids
                    /\ (outbound[l].acked /\ Players \subseteq playersById) => Head(kept) \in ToSet(inbound[l])
  BY DEF ReferenceKept
<1>1. UpOK /\ DownOK /\ "up" \in Links /\ "down" \in Links
  BY Types DEF VideoInv
<1>2. inbound[l] \in Seq(Frame) /\ acks[l] \in Seq(Nat) /\ outbound[l].pictures \in Seq(Frame)
  BY Types DEF VideoInv
<1>3. CASE \E W : Link(outbound[l], inbound[l], W, acks[l])
  <2>1. PICK W : Link(outbound[l], inbound[l], W, acks[l])
    BY <1>3
  <2> DEFINE out == outbound[l]
             in == inbound[l]
             A == acks[l]
  <2>2. Link(out, in, W, A) /\ in \in Seq(Frame) /\ A \in Seq(Nat) /\ out.pictures \in Seq(Frame)
    BY <1>2, <2>1
  <2> HIDE DEF out, in, A
  <2>3. /\ \A i \in DOMAIN out.pictures :
             out.pictures[i].id = Head(out.pictures).id + i - 1 /\ out.pictures[i].id < Ids
        /\ out.acked => Head(out.pictures) \in ToSet(in)
    BY <2>2, LinkKeeps
  <2> QED BY <2>3 DEF out, in
<1>4. CASE l = "down" /\ "recipient" \notin playersById
  <2>1. outbound[l].pictures = <<>> /\ ~(Players \subseteq playersById)
    BY <1>1, <1>4 DEF DownOK, NoHistory, Players
  <2>2. \A i : i \notin DOMAIN <<>>
    OBVIOUS
  <2> QED BY <2>1, <2>2
<1>5. \/ \E W : Link(outbound[l], inbound[l], W, acks[l])
      \/ l = "down" /\ "recipient" \notin playersById
  BY <1>1 DEF UpOK, DownOK, Links
<1> QED BY <1>3, <1>4, <1>5

\* What the sender takes for arrived, the receiver has, also when the numbers
\* begin again in between.
THEOREM ReferencesKept ==
  ASSUME Timely, SenderStays
  PROVE  Spec => []ReferenceKept
BY LinksKeepInvariant, InvReference, PTL

\* The recipient never sees an older picture after a newer one.
THEOREM PicturesOnlyAdvance ==
  ASSUME Timely, SenderStays
  PROVE  Spec => PicturesAdvance
<1>1. VideoInv /\ [Next]_vars => [shown' >= shown]_vars
  BY StepInv
<1> QED BY <1>1, LinksKeepInvariant, PTL DEF Spec, PicturesAdvance
=============================================================================
