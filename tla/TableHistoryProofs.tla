------------------------- MODULE TableHistoryProofs -------------------------
(***************************************************************************)
(* Theorems about TableHistory: the players who follow the game agree, and *)
(* their programs implement one shared table, as far as safety goes.       *)
(***************************************************************************)
EXTENDS TableHistory, TableOrderProofs

-----------------------------------------------------------------------------
(* What a program does when it handles a packet.                           *)

\* What comes after a state, by the type of the broadcast.
LEMMA AfterType ==
  ASSUME NEW h \in Histories, NEW b \in Bodies
  PROVE  After(h, b) \in Histories
<1>1. /\ b.type = "ChangeAccepted" => b.req \in Requests
      /\ b.type \in {"ShuffleResult", "GameLoaded", "GameBoxHasChanged"} => b.change \in 1 .. MaxRequests
  BY BodyFields
<1>2. CASE b.type = "ChangeAccepted"
  BY <1>1, <1>2, AppliedType DEF After
<1>3. CASE b.type = "ShuffleResult"
  BY <1>1, <1>3, DoneType DEF After
<1>4. CASE b.type \in {"GameLoaded", "GameBoxHasChanged"}
  <2>1. <<b.change>> \in Changes
    BY <1>1, <1>4 DEF Changes
  <2> QED
    BY <1>4, <2>1, ClearedType DEF After
<1>5. CASE b.type = "PlayerHasJoined"
  BY <1>5, ClearedType DEF After
<1>6. CASE b.type \notin StateChanges \cup {"PlayerHasJoined"}
  BY <1>6 DEF After, StateChanges
<1> QED
  BY <1>2, <1>3, <1>4, <1>5, <1>6 DEF StateChanges

\* The same state, change by change.
LEMMA AfterChange ==
  ASSUME NEW h, NEW b
  PROVE  /\ b.type = "ChangeAccepted" => After(h, b) = Applied(h, b.req)
         /\ b.type = "ShuffleResult" => After(h, b) = Done(h, b.change, FALSE)
         /\ b.type \in {"GameLoaded", "GameBoxHasChanged"} => After(h, b) = Cleared(<<b.change>>)
         /\ b.type = "PlayerHasJoined" => After(h, b) = ClearUndo(h)
BY DEF After

\* Only state changes change the table, and only they and PlayerHasJoined the stacks.
LEMMA AfterPlain ==
  ASSUME NEW h \in Histories, NEW b, b.type \notin StateChanges
  PROVE  /\ After(h, b).table = h.table
         /\ b.type # "PlayerHasJoined" => After(h, b) = h
BY DEF After, StateChanges, ClearUndo, Cleared

-----------------------------------------------------------------------------
(* Streams: what is on its way to a player who handled the first p of r    *)
(* broadcasts, when D[n + 1] is the state after broadcast n.               *)

\* The broadcasts p + 1 to r are in the stream, once each and in this order.
Numbered(s, p, r) ==
  /\ p <= r
  /\ \A i \in DOMAIN s : s[i].n # 0 => p < s[i].n /\ s[i].n <= r
  /\ \A i, j \in DOMAIN s : (i < j /\ s[i].n # 0 /\ s[j].n # 0) => s[i].n < s[j].n
  /\ \A k \in p + 1 .. r : \E i \in DOMAIN s : s[i].n = k

\* Each leads from one state to the next.  What changes the state is a broadcast.
Told(s, D) ==
  \A i \in DOMAIN s :
    /\ s[i].n # 0 => D[s[i].n + 1] = After(D[s[i].n], s[i].body)
    /\ s[i].body.type \in StateChanges \cup {"PlayerHasJoined"} => s[i].n # 0
    /\ s[i].body.type = "ConnectionAccepted" => s[i].n = 0

\* Where no change is left, the table is the last one.
Quiet(s, p, r, D) ==
  \A k \in p .. r :
    (\A i \in DOMAIN s : s[i].n > k => s[i].body.type \notin StateChanges)
      => D[k + 1].table = D[r + 1].table

\* A clean snapshot shows the table that its receiver would have if he had been following.
Between(s, i, k) ==
  \A j \in DOMAIN s : (j < i => s[j].n <= k) /\ (j > i => s[j].n = 0 \/ s[j].n > k)
Snapshot(b) == b.type = "ConnectionAccepted" /\ b.clean
Saved(s, p, r, D) ==
  \A i \in DOMAIN s : Snapshot(s[i].body) =>
    \A k \in p .. r : Between(s, i, k) => s[i].body.table = D[k + 1].table

Stream(s, p, r, D) == Numbered(s, p, r) /\ Told(s, D) /\ Quiet(s, p, r, D) /\ Saved(s, p, r, D)

\* Nothing is on its way to a player who has handled everything.
LEMMA StreamEmpty ==
  ASSUME NEW r \in Nat, NEW D
  PROVE  Stream(<<>>, r, r, D)
BY DEF Stream, Numbered, Told, Quiet, Saved

\* A player handles the next packet: broadcasts come one by one, and lead to the state
\* with the next number.
LEMMA StreamTail ==
  ASSUME NEW s \in Seq(DownPackets), s # <<>>, NEW p \in Nat, NEW r \in Nat, NEW D \in Seq(Histories),
         Len(D) = r + 1, Stream(s, p, r, D),
         NEW q, q = IF Head(s).n > 0 THEN Head(s).n ELSE p
  PROVE  /\ Stream(Tail(s), q, r, D)
         /\ q \in Nat /\ p <= q /\ q <= p + 1 /\ q <= r
         /\ D[q + 1] = After(D[p + 1], Head(s).body)
         /\ q # p <=> Head(s).n # 0
         /\ Head(s).body.type = "ConnectionAccepted" => q = p
         /\ Snapshot(Head(s).body) => Head(s).body.table = D[p + 1].table
<1> DEFINE t == Tail(s)
           l == Len(s)
<1>1. /\ l \in Nat /\ l > 0 /\ DOMAIN s = 1 .. l /\ Head(s) = s[1] /\ DOMAIN t = 1 .. l - 1
      /\ \A i \in DOMAIN t : i + 1 \in DOMAIN s /\ t[i] = s[i + 1]
      /\ 1 \in DOMAIN s
  BY TailIndex
<1>2. \A i \in DOMAIN s : s[i].n \in Nat /\ s[i].body \in Bodies
  <2>1. \A i \in DOMAIN s : s[i] \in DownPackets
    BY ElementOfSeq, <1>1
  <2> QED
    BY <2>1 DEF DownPackets
<1>3. /\ p <= r
      /\ \A i \in DOMAIN s : s[i].n # 0 => p < s[i].n /\ s[i].n <= r
      /\ \A i, j \in DOMAIN s : (i < j /\ s[i].n # 0 /\ s[j].n # 0) => s[i].n < s[j].n
      /\ \A k \in p + 1 .. r : \E i \in DOMAIN s : s[i].n = k
  BY DEF Stream, Numbered
<1>4. /\ Told(s, D) /\ Quiet(s, p, r, D) /\ Saved(s, p, r, D)
  BY DEF Stream
<1> HIDE DEF t, l
\* The first broadcast is the next one.
<1>5. s[1].n # 0 => s[1].n = p + 1
  <2> SUFFICES ASSUME s[1].n # 0, p + 1 < s[1].n
               PROVE  FALSE
    BY <1>1, <1>2, <1>3
  <2>1. p + 1 \in p + 1 .. r
    BY <1>1, <1>2, <1>3
  <2>2. PICK i \in DOMAIN s : s[i].n = p + 1
    BY <1>3, <2>1
  <2>3. i # 1 /\ 1 < i
    BY <1>1, <1>2, <2>2
  <2>4. s[i].n # 0 /\ s[1].n \in Nat
    BY <1>1, <1>2, <2>2
  <2>5. s[1].n < s[i].n
    BY <1>1, <1>3, <2>3, <2>4
  <2> QED
    BY <2>2, <2>4, <2>5
<1>6. /\ q \in Nat /\ p <= q /\ q <= p + 1 /\ q <= r /\ (q # p <=> s[1].n # 0)
      /\ s[1].n # 0 => q = s[1].n
      /\ s[1].n = 0 => q = p
  BY <1>1, <1>2, <1>3, <1>5
<1>7. D[q + 1] = After(D[p + 1], s[1].body)
  <2>1. CASE s[1].n # 0
    BY <1>1, <1>4, <1>5, <1>6, <2>1 DEF Told
  <2>2. CASE s[1].n = 0
    <3>1. s[1].body.type \notin StateChanges \cup {"PlayerHasJoined"}
      BY <1>1, <1>4, <2>2 DEF Told
    <3>2. D[p + 1] \in Histories
      BY <1>3, ElementOfSeq
    <3> QED
      BY <1>6, <2>2, <3>1, <3>2, AfterPlain
  <2> QED
    BY <2>1, <2>2
<1>8. Numbered(t, q, r)
  <2>1. \A i \in DOMAIN t : t[i].n # 0 => q < t[i].n /\ t[i].n <= r
    <3> SUFFICES ASSUME NEW i \in DOMAIN t, t[i].n # 0
                 PROVE  q < t[i].n /\ t[i].n <= r
      OBVIOUS
    <3>1. i + 1 \in DOMAIN s /\ t[i] = s[i + 1] /\ 1 < i + 1
      BY <1>1
    <3> QED
      BY <1>1, <1>2, <1>3, <1>6, <3>1
  <2>2. \A i, j \in DOMAIN t : (i < j /\ t[i].n # 0 /\ t[j].n # 0) => t[i].n < t[j].n
    <3> SUFFICES ASSUME NEW i \in DOMAIN t, NEW j \in DOMAIN t, i < j, t[i].n # 0, t[j].n # 0
                 PROVE  t[i].n < t[j].n
      OBVIOUS
    <3>1. i + 1 \in DOMAIN s /\ t[i] = s[i + 1] /\ j + 1 \in DOMAIN s /\ t[j] = s[j + 1] /\ i + 1 < j + 1
      BY <1>1
    <3> QED
      BY <1>3, <3>1
  <2>3. ASSUME NEW k \in q + 1 .. r
        PROVE  \E i \in DOMAIN t : t[i].n = k
    <3>1. k \in p + 1 .. r
      BY <1>6
    <3>2. PICK i \in DOMAIN s : s[i].n = k
      BY <1>3, <3>1
    <3>3. i # 1
      BY <1>6, <3>2
    <3>4. i - 1 \in DOMAIN t /\ t[i - 1] = s[i]
      BY <1>1, <3>3
    <3> QED
      BY <3>2, <3>4
  <2> QED
    BY <1>6, <2>1, <2>2, <2>3 DEF Numbered
<1>9. Told(t, D)
  BY <1>1, <1>4 DEF Told
<1>10. Quiet(t, q, r, D)
  <2> SUFFICES ASSUME NEW k \in q .. r, \A i \in DOMAIN t : t[i].n > k => t[i].body.type \notin StateChanges
               PROVE  D[k + 1].table = D[r + 1].table
    BY DEF Quiet
  <2>1. k \in p .. r /\ ~(s[1].n > k)
    BY <1>2, <1>1, <1>6
  <2>2. \A i \in DOMAIN s : s[i].n > k => s[i].body.type \notin StateChanges
    <3> SUFFICES ASSUME NEW i \in DOMAIN s, s[i].n > k
                 PROVE  s[i].body.type \notin StateChanges
      OBVIOUS
    <3>1. i # 1
      BY <2>1
    <3>2. i - 1 \in DOMAIN t /\ t[i - 1] = s[i]
      BY <1>1, <3>1
    <3> QED
      BY <3>2
  <2> QED
    BY <1>4, <2>1, <2>2 DEF Quiet
<1>11. Saved(t, q, r, D)
  <2> SUFFICES ASSUME NEW i \in DOMAIN t, Snapshot(t[i].body), NEW k \in q .. r, Between(t, i, k)
               PROVE  t[i].body.table = D[k + 1].table
    BY DEF Saved
  <2>1. k \in p .. r /\ i + 1 \in DOMAIN s /\ t[i] = s[i + 1] /\ s[1].n <= k
    BY <1>2, <1>1, <1>6
  <2>2. Between(s, i + 1, k)
    <3> SUFFICES ASSUME NEW j \in DOMAIN s
                 PROVE  (j < i + 1 => s[j].n <= k) /\ (j > i + 1 => s[j].n = 0 \/ s[j].n > k)
      BY DEF Between
    <3>1. CASE j = 1
      BY <1>1, <2>1, <3>1
    <3>2. CASE j # 1
      <4>1. j - 1 \in DOMAIN t /\ t[j - 1] = s[j]
        BY <1>1, <3>2
      <4>2. (j - 1 < i => t[j - 1].n <= k) /\ (j - 1 > i => t[j - 1].n = 0 \/ t[j - 1].n > k)
        BY <4>1 DEF Between
      <4> QED
        BY <1>1, <4>1, <4>2
    <3> QED
      BY <3>1, <3>2
  <2> QED
    BY <1>4, <2>1, <2>2 DEF Saved
<1>12. s[1].body.type = "ConnectionAccepted" => q = p
  BY <1>1, <1>4, <1>6 DEF Told
<1>13. Snapshot(s[1].body) => s[1].body.table = D[p + 1].table
  <2>1. p \in p .. r
    BY <1>3
  <2>2. Between(s, 1, p)
    BY <1>1, <1>3 DEF Between
  <2> QED
    BY <1>1, <1>4, <2>1, <2>2 DEF Saved
<1> QED
  BY <1>1, <1>6, <1>7, <1>8, <1>9, <1>10, <1>11, <1>12, <1>13 DEF Stream, t

\* The server sends a player a packet that is not a broadcast.
LEMMA StreamPlain ==
  ASSUME NEW s \in Seq(DownPackets), NEW p \in Nat, NEW r \in Nat, NEW D, Stream(s, p, r, D),
         NEW e \in DownPackets, e.n = 0, e.body.type \notin StateChanges \cup {"PlayerHasJoined"},
         Snapshot(e.body) => e.body.table = D[r + 1].table
  PROVE  Stream(Append(s, e), p, r, D)
<1> DEFINE t == Append(s, e)
           l == Len(s)
<1>1. /\ l \in Nat /\ DOMAIN s = 1 .. l /\ DOMAIN t = 1 .. l + 1 /\ t[l + 1] = e
      /\ \A i \in 1 .. l : t[i] = s[i]
  BY AppendProperties, LenProperties
<1>2. \A i \in DOMAIN s : s[i].n \in Nat
  <2>1. \A i \in DOMAIN s : s[i] \in DownPackets
    BY ElementOfSeq, <1>1
  <2> QED
    BY <2>1 DEF DownPackets
<1>3. /\ p <= r
      /\ \A i \in DOMAIN s : s[i].n # 0 => p < s[i].n /\ s[i].n <= r
      /\ \A i, j \in DOMAIN s : (i < j /\ s[i].n # 0 /\ s[j].n # 0) => s[i].n < s[j].n
      /\ \A k \in p + 1 .. r : \E i \in DOMAIN s : s[i].n = k
  BY DEF Stream, Numbered
<1>4. Told(s, D) /\ Quiet(s, p, r, D) /\ Saved(s, p, r, D)
  BY DEF Stream
<1> HIDE DEF t, l
<1>5. \A i \in DOMAIN t : (i \in DOMAIN s /\ i <= l /\ t[i] = s[i]) \/ (i = l + 1 /\ t[i] = e)
  BY <1>1
<1>6. \A i \in DOMAIN s : i \in DOMAIN t /\ t[i] = s[i]
  BY <1>1
<1>7. Numbered(t, p, r)
  <2>1. \A i, j \in DOMAIN t : (i < j /\ t[i].n # 0 /\ t[j].n # 0) => t[i].n < t[j].n
    BY <1>3, <1>5
  <2>2. \A k \in p + 1 .. r : \E i \in DOMAIN t : t[i].n = k
    BY <1>3, <1>6
  <2> QED
    BY <1>3, <1>5, <2>1, <2>2 DEF Numbered
<1>8. Told(t, D)
  BY <1>4, <1>5 DEF Told, StateChanges
<1>9. Quiet(t, p, r, D)
  BY <1>4, <1>6 DEF Quiet
<1>10. Saved(t, p, r, D)
  <2> SUFFICES ASSUME NEW i \in DOMAIN t, Snapshot(t[i].body), NEW k \in p .. r, Between(t, i, k)
               PROVE  t[i].body.table = D[k + 1].table
    BY DEF Saved
  <2>1. CASE i \in DOMAIN s /\ t[i] = s[i]
    <3>1. Between(s, i, k)
      BY <1>6 DEF Between
    <3> QED
      BY <1>4, <2>1, <3>1 DEF Saved
  <2>2. CASE i = l + 1 /\ t[i] = e
    <3>1. k = r
      <4> SUFFICES ASSUME k < r
                   PROVE  FALSE
        OBVIOUS
      <4>1. r \in p + 1 .. r
        OBVIOUS
      <4>2. PICK j \in DOMAIN s : s[j].n = r
        BY <1>3, <4>1
      <4>3. j \in DOMAIN t /\ j < i /\ t[j] = s[j]
        BY <1>1, <1>6, <2>2
      <4>4. t[j].n <= k
        BY <4>3 DEF Between
      <4> QED
        BY <4>2, <4>3, <4>4
    <3> QED
      BY <2>2, <3>1
  <2> QED
    BY <1>5, <2>1, <2>2
<1> QED
  BY <1>7, <1>8, <1>9, <1>10 DEF Stream, t

\* The server broadcasts a packet, whose number is the next one.
LEMMA StreamBroadcast ==
  ASSUME NEW s \in Seq(DownPackets), NEW p \in Nat, NEW r \in Nat, NEW D \in Seq(Histories),
         Len(D) = r + 1, Stream(s, p, r, D),
         NEW e \in DownPackets, e.n = r + 1, e.body.type # "ConnectionAccepted",
         NEW h \in Histories, h = After(D[r + 1], e.body)
  PROVE  Stream(Append(s, e), p, r + 1, Append(D, h))
<1> DEFINE t == Append(s, e)
           l == Len(s)
           H == Append(D, h)
<1>1. /\ l \in Nat /\ DOMAIN s = 1 .. l /\ DOMAIN t = 1 .. l + 1 /\ t[l + 1] = e
      /\ \A i \in 1 .. l : t[i] = s[i]
  BY AppendProperties, LenProperties
<1>2. \A i \in DOMAIN s : s[i].n \in Nat
  <2>1. \A i \in DOMAIN s : s[i] \in DownPackets
    BY ElementOfSeq, <1>1
  <2> QED
    BY <2>1 DEF DownPackets
<1>3. /\ p <= r
      /\ \A i \in DOMAIN s : s[i].n # 0 => p < s[i].n /\ s[i].n <= r
      /\ \A i, j \in DOMAIN s : (i < j /\ s[i].n # 0 /\ s[j].n # 0) => s[i].n < s[j].n
      /\ \A k \in p + 1 .. r : \E i \in DOMAIN s : s[i].n = k
  BY DEF Stream, Numbered
<1>4. Told(s, D) /\ Quiet(s, p, r, D) /\ Saved(s, p, r, D)
  BY DEF Stream
<1>5. /\ \A k \in 1 .. r + 1 : H[k] = D[k]
      /\ H[r + 2] = h
      /\ D[r + 1] \in Histories
  BY AppendProperties, ElementOfSeq
<1> HIDE DEF t, l, H
<1>6. \A i \in DOMAIN t : (i \in DOMAIN s /\ i <= l /\ t[i] = s[i]) \/ (i = l + 1 /\ t[i] = e)
  BY <1>1
<1>7. /\ \A i \in DOMAIN s : i \in DOMAIN t /\ t[i] = s[i] /\ i < l + 1
      /\ l + 1 \in DOMAIN t /\ t[l + 1] = e
  BY <1>1
<1>8. \A i \in DOMAIN s : s[i].n # 0 => H[s[i].n] = D[s[i].n] /\ H[s[i].n + 1] = D[s[i].n + 1]
  BY <1>2, <1>3, <1>5
<1>9. Numbered(t, p, r + 1)
  <2>1. \A i, j \in DOMAIN t : (i < j /\ t[i].n # 0 /\ t[j].n # 0) => t[i].n < t[j].n
    <3> SUFFICES ASSUME NEW i \in DOMAIN t, NEW j \in DOMAIN t, i < j, t[i].n # 0, t[j].n # 0
                 PROVE  t[i].n < t[j].n
      OBVIOUS
    <3>1. i \in DOMAIN s /\ t[i] = s[i]
      BY <1>1, <1>6
    <3> QED
      BY <1>2, <1>3, <1>6, <3>1
  <2>2. ASSUME NEW k \in p + 1 .. r + 1
        PROVE  \E i \in DOMAIN t : t[i].n = k
    <3>1. CASE k = r + 1
      BY <1>7, <3>1
    <3>2. CASE k # r + 1
      <4>1. k \in p + 1 .. r
        BY <3>2
      <4> QED
        BY <1>3, <1>7, <4>1
    <3> QED
      BY <3>1, <3>2
  <2>3. \A i \in DOMAIN t : t[i].n # 0 => p < t[i].n /\ t[i].n <= r + 1
    BY <1>2, <1>3, <1>6
  <2> QED
    BY <1>3, <2>1, <2>2, <2>3 DEF Numbered
<1>10. Told(t, H)
  <2> SUFFICES ASSUME NEW i \in DOMAIN t
               PROVE  /\ t[i].n # 0 => H[t[i].n + 1] = After(H[t[i].n], t[i].body)
                      /\ t[i].body.type \in StateChanges \cup {"PlayerHasJoined"} => t[i].n # 0
                      /\ t[i].body.type = "ConnectionAccepted" => t[i].n = 0
    BY DEF Told
  <2>1. CASE i \in DOMAIN s /\ t[i] = s[i]
    BY <1>4, <1>8, <2>1 DEF Told
  <2>2. CASE t[i] = e
    <3>1. H[r + 1] = D[r + 1]
      BY <1>5
    <3> QED
      BY <1>5, <2>2, <3>1
  <2> QED
    BY <1>6, <2>1, <2>2
<1>11. Quiet(t, p, r + 1, H)
  <2> SUFFICES ASSUME NEW k \in p .. r + 1, k # r + 1,
                      \A i \in DOMAIN t : t[i].n > k => t[i].body.type \notin StateChanges
               PROVE  H[k + 1].table = H[r + 2].table
    BY DEF Quiet
  <2>1. k \in p .. r /\ H[k + 1] = D[k + 1]
    BY <1>5
  <2>2. D[k + 1].table = D[r + 1].table
    BY <1>4, <1>7, <2>1 DEF Quiet
  <2>3. e.body.type \notin StateChanges
    BY <1>7, <2>1
  <2>4. h.table = D[r + 1].table
    BY <1>5, <2>3, AfterPlain
  <2> QED
    BY <1>5, <2>1, <2>2, <2>4
<1>12. Saved(t, p, r + 1, H)
  <2> SUFFICES ASSUME NEW i \in DOMAIN t, Snapshot(t[i].body), NEW k \in p .. r + 1, Between(t, i, k)
               PROVE  t[i].body.table = H[k + 1].table
    BY DEF Saved
  <2>1. i \in DOMAIN s /\ t[i] = s[i]
    BY <1>6 DEF Snapshot
  <2>2. k \in p .. r
    <3>1. e.n = 0 \/ e.n > k
      BY <1>7, <2>1 DEF Between
    <3> QED
      BY <3>1
  <2>3. Between(s, i, k)
    BY <1>7 DEF Between
  <2>4. s[i].body.table = D[k + 1].table
    BY <1>4, <2>1, <2>2, <2>3 DEF Saved
  <2>5. H[k + 1] = D[k + 1]
    BY <1>5, <2>2
  <2> QED
    BY <2>1, <2>4, <2>5
<1> QED
  BY <1>9, <1>10, <1>11, <1>12 DEF Stream, t, H

-----------------------------------------------------------------------------
(* The invariant.                                                          *)

Decided == decided \in Seq(Histories) /\ Len(decided) = relayed + 1

Streams == \A c \in Client : Here(c) => Stream(down[c], pos[c], relayed, decided)

\* No state change before packet i of the channel.
NoChange(s, i) == \A j \in DOMAIN s : j < i => s[j].body.type \notin StateChanges

\* A clean snapshot that the server has not read shows the last table decided.
Sending ==
  \A i \in DOMAIN up[Host] : Snapshot(up[Host][i].body) =>
    NoChange(up[Host], i) /\ up[Host][i].body.table = decided[Len(decided)].table

\* The game that the host has loaded is what he has on the table until it comes back to
\* him: nothing was on its way when he loaded it.
GameApart(h, u, d) ==
  /\ \A i \in DOMAIN u : u[i].body.type = "GameLoaded" =>
       h = Cleared(<<u[i].body.change>>) /\ NoChange(u, i) /\ NoChange(d, Len(d) + 1)
  /\ \A i \in DOMAIN d : d[i].body.type = "GameLoaded" =>
       h = Cleared(<<d[i].body.change>>) /\ NoChange(d, i)
LoadingApart ==
  (status[Host] = "in" /\ Host \notin suspect) => GameApart(history[Host], up[Host], down[Host])

\* What a newcomer can undo is the last of what the others can; his oldest entry may be
\* the rest of a rotation that began before he came.
EndsLike(g, d) ==
  /\ Len(g) <= Len(d)
  /\ \A i \in DOMAIN g : g[i] = d[Len(d) - Len(g) + i]
SameTop(g, d) ==
  /\ Len(g) <= Len(d)
  /\ \A i \in DOMAIN g :
       /\ g[i].rotation = d[Len(d) - Len(g) + i].rotation
       /\ (i > 1 \/ ~g[i].rotation) => g[i] = d[Len(d) - Len(g) + i]
Echoes(g, d) == g.table = d.table /\ SameTop(g.undo, d.undo) /\ EndsLike(g.redo, d.redo)

\* Who follows the game is in the state that was decided for the last broadcast he
\* handled; who has not completely joined has its table.
InStepWith(c, d) ==
  /\ status[c] = "in" => history[c] = d
  /\ Echoes(history[c], d)
InStep == \A c \in Client : Follows(c) => InStepWith(c, decided[pos[c] + 1])

-----------------------------------------------------------------------------
(* Streams are kept.                                                       *)

\* A step of the server decides the next state when it broadcasts.
Decides(c) ==
  decided' = IF relayed' > relayed THEN Append(decided, After(Last(decided), Head(up[c]).body)) ELSE decided

\* What a step of the server does to the history: nothing, or one more state, sent to all.
LEMMA Deciding ==
  ASSUME TypeOK, Apart, Present, Decided, NEW c \in Client, Relaying(c), Decides(c)
  PROVE  /\ relayed \in Nat /\ Last(decided) = decided[relayed + 1] /\ Last(decided) \in Histories
         /\ \/ /\ relayed' = relayed /\ decided' = decided
               /\ \A d \in Client : PassesOn(c, d)
            \/ \E h \in Histories :
                 /\ relayed' = relayed + 1
                 /\ h = After(Last(decided), Head(up[c]).body) /\ decided' = Append(decided, h)
                 /\ \A d \in Client : Broadcasts(c, d)
<1>1. relayed \in Nat
  BY DEF TypeOK, ChannelsOK
<1>2. Last(decided) = decided[relayed + 1] /\ Last(decided) \in Histories
  BY <1>1, ElementOfSeq DEF Decided, Last
<1>3. \A d \in Client : PassesOn(c, d) \/ Broadcasts(c, d)
  BY Relayed
<1>4. CASE relayed' = relayed
  <2>1. \A d \in Client : ~Broadcasts(c, d)
    BY <1>1, <1>4 DEF Broadcasts
  <2> QED
    BY <1>1, <1>2, <1>3, <1>4, <2>1 DEF Decides
<1>5. CASE relayed' # relayed
  <2>1. \A d \in Client : Broadcasts(c, d)
    BY <1>3, <1>5 DEF PassesOn
  <2>2. relayed' = relayed + 1
    BY <2>1, HostAssumption DEF Broadcasts
  <2>3. After(Last(decided), Head(up[c]).body) \in Histories
    BY <1>2, RelayedHead, AfterType
  <2> QED
    BY <1>1, <1>2, <2>1, <2>2, <2>3 DEF Decides
<1> QED
  BY <1>4, <1>5

\* What each player will see agrees with what was decided, whatever the server relays.
LEMMA RelayingStreams ==
  ASSUME TypeOK, Apart, Present, Decided, Streams, Sending, NEW c \in Client, Relaying(c), Decides(c)
  PROVE  Decided' /\ Streams'
<1>0. /\ down \in [Client -> Seq(DownPackets)] /\ up \in [Client -> Seq(UpPackets)] /\ pos \in [Client -> Nat]
  BY DEF TypeOK, ChannelsOK, ObserversOK
<1>1. status' = status /\ pos' = pos
  BY DEF Relaying, observers
<1>2. relayed \in Nat /\ Last(decided) = decided[relayed + 1] /\ decided \in Seq(Histories) /\ Len(decided) = relayed + 1
  BY Deciding DEF Decided
<1>3. CASE /\ relayed' = relayed /\ decided' = decided
           /\ \A d \in Client : PassesOn(c, d)
  <2>1. Decided'
    BY <1>2, <1>3 DEF Decided
  <2>2. Snapshot(Head(up[c]).body) => Head(up[c]).body.table = decided[relayed + 1].table
    <3> SUFFICES ASSUME Snapshot(Head(up[c]).body)
                 PROVE  Head(up[c]).body.table = decided[relayed + 1].table
      OBVIOUS
    <3>1. c = Host /\ up[c] # <<>>
      BY RelayedHead DEF Sent, Sendable, Snapshot
    <3>2. 1 \in DOMAIN up[Host] /\ Head(up[c]) = up[Host][1]
      BY <1>0, <3>1, TailIndex
    <3> QED
      BY <1>2, <3>2 DEF Sending
  <2>3. ASSUME NEW d \in Client, Here(d)
        PROVE  Stream(down'[d], pos[d], relayed, decided)
    <3>1. Stream(down[d], pos[d], relayed, decided)
      BY <2>3 DEF Streams
    <3>2. CASE down'[d] = down[d]
      BY <3>1, <3>2
    <3>3. CASE \E from \in Client, body \in Bodies :
                 /\ down'[d] = Append(down[d], [from |-> from, n |-> 0, body |-> body])
                 /\ body = Head(up[c]).body \/ body.type = "HostDisconnected"
                 /\ body.type \notin StateChanges \cup {"PlayerHasJoined"}
      <4>1. PICK from \in Client, body \in Bodies :
                 /\ down'[d] = Append(down[d], [from |-> from, n |-> 0, body |-> body])
                 /\ body = Head(up[c]).body \/ body.type = "HostDisconnected"
                 /\ body.type \notin StateChanges \cup {"PlayerHasJoined"}
        BY <3>3
      <4> DEFINE e == [from |-> from, n |-> 0, body |-> body]
      <4>2. e \in DownPackets /\ e.n = 0 /\ e.body = body
        BY DEF DownPackets
      <4>3. Snapshot(body) => body.table = decided[relayed + 1].table
        BY <2>2, <4>1 DEF Snapshot
      <4>4. down'[d] = Append(down[d], e)
        BY <4>1
      <4>5. /\ e.body.type \notin StateChanges \cup {"PlayerHasJoined"}
            /\ Snapshot(e.body) => e.body.table = decided[relayed + 1].table
        BY <4>1, <4>2, <4>3
      <4> HIDE DEF e
      <4> QED
        <5>1. Stream(Append(down[d], e), pos[d], relayed, decided)
          BY <1>0, <1>2, <3>1, <4>2, <4>5, StreamPlain
        <5> QED
          BY <4>4, <5>1
    <3> QED
      BY <1>3, <3>2, <3>3 DEF PassesOn
  <2> QED
    BY <1>1, <1>3, <2>1, <2>3 DEF Streams, Here
<1>4. ASSUME NEW h \in Histories,
             relayed' = relayed + 1,
             h = After(Last(decided), Head(up[c]).body), decided' = Append(decided, h),
             \A d \in Client : Broadcasts(c, d)
      PROVE  Decided' /\ Streams'
  <2>1. Decided'
    BY <1>2, <1>4, AppendProperties DEF Decided
  <2>2. ASSUME NEW d \in Client, Here(d)
        PROVE  Stream(down'[d], pos[d], relayed + 1, Append(decided, h))
    <3>1. Stream(down[d], pos[d], relayed, decided)
      BY <2>2 DEF Streams
    <3>2. PICK from \in Client, body \in Bodies :
            /\ down'[d] = Append(down[d], [from |-> from, n |-> relayed + 1, body |-> body])
            /\ \/ body = Head(up[c]).body
               \/ body.type = "PlayerHasLeft" /\ Head(up[c]).body.type = "Disconnect"
      BY <1>4, <2>2 DEF Broadcasts
    <3> DEFINE e == [from |-> from, n |-> relayed + 1, body |-> body]
    <3>3. e \in DownPackets /\ e.n = relayed + 1 /\ e.body = body
      BY <1>2 DEF DownPackets
    <3>4. body.type # "ConnectionAccepted"
      BY <1>4, <3>2 DEF Broadcasts
    <3>5. h = After(decided[relayed + 1], body)
      <4>1. CASE body = Head(up[c]).body
        BY <1>2, <1>4, <4>1
      <4>2. CASE body.type = "PlayerHasLeft" /\ Head(up[c]).body.type = "Disconnect"
        <5>1. /\ body.type \notin StateChanges \cup {"PlayerHasJoined"}
              /\ Head(up[c]).body.type \notin StateChanges \cup {"PlayerHasJoined"}
          BY <4>2 DEF StateChanges
        <5>2. Last(decided) \in Histories
          BY Deciding
        <5> QED
          BY <1>2, <1>4, <5>1, <5>2, AfterPlain
      <4> QED
        BY <3>2, <4>1, <4>2
    <3>6. down'[d] = Append(down[d], e)
      BY <3>2
    <3> HIDE DEF e
    <3> QED
      BY <1>0, <1>2, <3>1, <3>3, <3>4, <3>5, <3>6, StreamBroadcast
  <2> QED
    BY <1>1, <1>4, <2>1, <2>2 DEF Streams, Here
<1> QED
  BY <1>3, <1>4, Deciding

\* ... and whatever a program does.
LEMMA ProgramStreams ==
  ASSUME TypeOK, TypeOK', HostAside, Apart, Present, Decided, Streams, ProgramStep, decided' = decided
  PROVE  Decided' /\ Streams' /\ relayed' = relayed
<1> USE HostAssumption
<1>0. /\ down \in [Client -> Seq(DownPackets)] /\ up \in [Client -> Seq(UpPackets)] /\ pos \in [Client -> Nat]
      /\ relayed \in Nat /\ decided \in Seq(Histories) /\ Len(decided) = relayed + 1
      /\ status \in [Client -> Connected \cup {"out"}]
  BY DEF TypeOK, ChannelsOK, ObserversOK, NumbersOK, Decided
<1>1. CASE Idles
  BY <1>0, <1>1 DEF Idles, Decided, Streams, Here
<1>2. ASSUME NEW c \in Client, Moves(c)
      PROVE  Decided' /\ Streams' /\ relayed' = relayed
  <2>1. relayed' = relayed /\ Here(c) /\ \A d \in Client \ {c} : status'[d] = status[d]
    BY <1>2 DEF Moves
  <2>2. \A d \in Client \ {c} : down'[d] = down[d] /\ pos'[d] = pos[d]
    BY <1>0, <1>2 DEF Moves, Takes
  <2>3. Stream(down'[c], pos'[c], relayed, decided)
    <3>1. Stream(down[c], pos[c], relayed, decided)
      BY <2>1 DEF Streams
    <3>2. CASE Takes(c)
      <4>1. /\ down[c] # <<>> /\ down'[c] = Tail(down[c])
            /\ pos'[c] = IF Head(down[c]).n > 0 THEN Head(down[c]).n ELSE pos[c]
        BY <1>0, <3>2 DEF Takes
      <4> QED
        BY <1>0, <3>1, <4>1, StreamTail
    <3>3. CASE down' = down /\ pos' = pos
      BY <3>1, <3>3
    <3> QED
      BY <1>2, <3>2, <3>3 DEF Moves
  <2>4. \A d \in Client \ {c} : Here(d)' => Stream(down'[d], pos'[d], relayed, decided)
    BY <2>1, <2>2 DEF Streams, Here
  <2> QED
    BY <1>0, <2>1, <2>3, <2>4 DEF Decided, Streams
<1>3. ASSUME NEW c \in Client, Quits(c)
      PROVE  Decided' /\ Streams' /\ relayed' = relayed
  <2>1. /\ relayed' = relayed /\ ~Here(c)'
        /\ \A d \in Client \ {c} : down'[d] = down[d] /\ pos'[d] = pos[d] /\ status'[d] = status[d]
    BY <1>0, <1>3 DEF Quits, Here, Connected
  <2>2. \A d \in Client \ {c} : Here(d)' => Stream(down'[d], pos'[d], relayed, decided)
    BY <2>1 DEF Streams, Here
  <2> QED
    BY <1>0, <2>1, <2>2 DEF Decided, Streams
<1>4. ASSUME NEW c \in Client, Connect(c)
      PROVE  Decided' /\ Streams' /\ relayed' = relayed
  <2> DEFINE e == [from |-> c, n |-> 0, body |-> [type |-> "PlayerWantsToJoin"]]
  <2>1. /\ relayed' = relayed /\ status[c] = "out" /\ c # Host
        /\ down' = Deliver({Host}, c, 0, [type |-> "PlayerWantsToJoin"])
        /\ status' = [status EXCEPT ![c] = "joining"] /\ pos' = [pos EXCEPT ![c] = relayed]
    BY <1>4 DEF Connect, OnPlayerConnected
  <2>2. down[c] = <<>>
    BY <2>1 DEF Apart, Gone
  <2>3. /\ \A d \in Client \ {Host} : down'[d] = down[d]
        /\ down'[Host] = down[Host] \/ down'[Host] = Append(down[Host], e)
    BY <1>0, <2>1 DEF Deliver
  <2>4. e \in DownPackets /\ e.n = 0 /\ e.body.type = "PlayerWantsToJoin"
    BY BodyMade DEF DownPackets
  <2> HIDE DEF e
  <2>5. \A d \in Client \ {c} : status'[d] = status[d] /\ pos'[d] = pos[d]
    BY <1>0, <2>1
  <2>6. Stream(down'[c], pos'[c], relayed, decided)
    BY <1>0, <2>1, <2>2, <2>3, StreamEmpty
  <2>7. Here(Host) => Stream(down'[Host], pos[Host], relayed, decided)
    BY <1>0, <2>3, <2>4, StreamPlain DEF Streams, Snapshot, StateChanges
  <2>8. \A d \in Client \ {c} : Here(d)' => Stream(down'[d], pos'[d], relayed, decided)
    BY <2>1, <2>3, <2>5, <2>7 DEF Streams, Here
  <2> QED
    BY <1>0, <2>1, <2>6, <2>8 DEF Decided, Streams
<1> QED
  BY <1>1, <1>2, <1>3, <1>4, ProgramShapes

-----------------------------------------------------------------------------
(* What players see.                                                       *)

\* A player executes what reaches him; the host has already loaded his own games.  He
\* comes to follow the game with a clean snapshot, or with a new game.
Rests == UNCHANGED <<down, pos, status, history, suspect>>
Hears(c) ==
  /\ Takes(c) /\ Body(c).type # "ConnectionAccepted"
  /\ history'[c] = IF c = Host /\ Body(c).type = "GameLoaded" THEN history[c] ELSE After(history[c], Body(c))
  /\ \/ status'[c] = status[c]
     \/ Body(c).type = "PlayerHasJoined" /\ status[c] = "welcomed" /\ status'[c] = "in"
  /\ c \notin suspect' =>
       \/ c \notin suspect /\ ~(Body(c).type = "ChangeAccepted" /\ Differs(c, Body(c).req))
       \/ c # Host /\ Body(c).type \in {"GameLoaded", "GameBoxHasChanged"}
Begins(c) ==
  /\ Takes(c) /\ Body(c).type = "ConnectionAccepted" /\ c # Host
  /\ history'[c] = Cleared(Body(c).table)
  /\ status'[c] = "welcomed"
  /\ c \notin suspect' => Body(c).clean
Sees(c) ==
  /\ \A d \in Client \ {c} : history'[d] = history[d] /\ (d \in suspect' <=> d \in suspect)
  /\ Rests \/ Hears(c) \/ Begins(c) \/ (c = Host /\ LoadGame)

\* It is so for whatever a player does.
LEMMA PlaysSees ==
  ASSUME TypeOK, TypeOK', HostAside, Apart, Present, NEW c \in Client, Plays(c)
  PROVE  Sees(c)
<1> USE HostAssumption
<1>0. /\ down \in [Client -> Seq(DownPackets)] /\ history \in [Client -> Histories]
      /\ status \in [Client -> Connected \cup {"out"}] /\ suspect \subseteq Client
      /\ down[Host] \in Seq(ToHosts)
  BY DEF TypeOK, ChannelsOK, TablesOK, NumbersOK, ObserversOK, HostAside
<1>1. ASSUME NEW t, Handling(c, t)
      PROVE  Takes(c) /\ Here(c) /\ Body(c).type = t
  BY <1>1, HandlingTakes
<1>2. ASSUME NEW h, SetHistory(c, h)
      PROVE  history'[c] = h /\ \A d \in Client \ {c} : history'[d] = history[d]
  BY <1>0, <1>2 DEF SetHistory
\* A handler that leaves the tables alone.
<1>3. ASSUME NEW t, t \notin StateChanges \cup {"PlayerHasJoined", "ConnectionAccepted"},
             Handling(c, t), history' = history, status' = status, suspect' = suspect
      PROVE  Sees(c)
  <2>1. After(history[c], Body(c)) = history[c]
    BY <1>0, <1>1, <1>3, AfterPlain
  <2>2. Takes(c) /\ Body(c).type = t /\ t # "ChangeAccepted" /\ t # "ConnectionAccepted"
    BY <1>1, <1>3 DEF StateChanges
  <2>3. Hears(c)
    BY <1>3, <2>1, <2>2 DEF Hears
  <2> QED
    BY <1>3, <2>3 DEF Sees
\* A handler that changes the table, or the stacks, as the broadcast says.
<1>4. ASSUME NEW t \in StateChanges, Handling(c, t), SetHistory(c, After(history[c], Body(c))),
             c = Host => t # "GameLoaded", status' = status,
             \A d \in Client \ {c} : d \in suspect' <=> d \in suspect,
             c \notin suspect' =>
               \/ c \notin suspect /\ ~(t = "ChangeAccepted" /\ Differs(c, Body(c).req))
               \/ c # Host /\ t \in {"GameLoaded", "GameBoxHasChanged"}
      PROVE  Sees(c)
  <2>1. Takes(c) /\ Body(c).type = t /\ t # "ConnectionAccepted"
    BY <1>1, <1>4 DEF StateChanges
  <2>2. history'[c] = After(history[c], Body(c)) /\ \A d \in Client \ {c} : history'[d] = history[d]
    BY <1>2, <1>4
  <2>3. Hears(c)
    BY <1>4, <2>1, <2>2 DEF Hears
  <2> QED
    BY <1>4, <2>2, <2>3 DEF Sees
<1>5. ASSUME NEW kind \in Kinds, Ask(c, kind)
      PROVE  Sees(c)
  BY <1>5 DEF Ask, Sees, Rests
<1>6. ASSUME c = Host, LoadGame
      PROVE  Sees(c)
  <2>1. SetHistory(c, Cleared(<<issued + 1>>)) /\ \A d \in Client \ {c} : d \in suspect' <=> d \in suspect
    BY <1>6 DEF LoadGame, NewGame
  <2> QED
    BY <1>2, <1>6, <2>1 DEF Sees
<1>7. ASSUME c = Host, OpenBox
      PROVE  Sees(c)
  BY <1>7 DEF OpenBox, Sees, Rests
<1>8. ASSUME c = Host, HandleAtHost
      PROVE  Sees(c)
  <2>1. \E t \in {"Request", "PlayerWantsToJoin"} : Handling(c, t)
    BY <1>8 DEF HandleAtHost, HandleRequest, HandlePlayerWantsToJoin
  <2>2. history' = history /\ status' = status /\ suspect' = suspect
    BY <1>8 DEF HandleAtHost, HandleRequest, HandlePlayerWantsToJoin
  <2> QED
    BY <1>3, <2>1, <2>2 DEF StateChanges
<1>9. CASE HandleChangeAccepted(c)
  <2>1. /\ Handling(c, "ChangeAccepted") /\ SetHistory(c, Applied(history[c], Body(c).req)) /\ status' = status
        /\ suspect' = IF Differs(c, Body(c).req) THEN suspect \cup {c} ELSE suspect
    BY <1>9 DEF HandleChangeAccepted
  <2>2. After(history[c], Body(c)) = Applied(history[c], Body(c).req)
    BY <1>1, <2>1, AfterChange
  <2>3. c \notin suspect' => c \notin suspect /\ ~Differs(c, Body(c).req)
    BY <2>1
  <2>4. \A d \in Client \ {c} : d \in suspect' <=> d \in suspect
    BY <2>1
  <2> QED
    BY <1>4, <2>1, <2>2, <2>3, <2>4 DEF StateChanges
<1>10. CASE HandleShuffleResult(c)
  <2>1. /\ Handling(c, "ShuffleResult") /\ SetHistory(c, Done(history[c], Body(c).change, FALSE))
        /\ status' = status /\ suspect' = suspect
    BY <1>10 DEF HandleShuffleResult
  <2>2. After(history[c], Body(c)) = Done(history[c], Body(c).change, FALSE)
    BY <1>1, <2>1, AfterChange
  <2> QED
    BY <1>4, <2>1, <2>2 DEF StateChanges
<1>11. CASE HandleChangeRejected(c)
  BY <1>3, <1>11 DEF HandleChangeRejected, StateChanges
<1>12. CASE HandleGameLoaded(c)
  <2>1. Handling(c, "GameLoaded") /\ status' = status
    BY <1>12 DEF HandleGameLoaded
  <2>2. CASE c = Host
    <3>1. history' = history /\ suspect' = suspect
      BY <1>12, <2>2 DEF HandleGameLoaded
    <3>2. Hears(c)
      BY <1>1, <2>1, <2>2, <3>1 DEF Hears
    <3> QED
      BY <3>1, <3>2 DEF Sees
  <2>3. CASE c # Host
    <3>1. SetHistory(c, Cleared(<<Body(c).change>>)) /\ suspect' = suspect \ {c}
      BY <1>12, <2>3 DEF HandleGameLoaded, NewGame
    <3>2. After(history[c], Body(c)) = Cleared(<<Body(c).change>>)
      BY <1>1, <2>1, AfterChange
    <3> QED
      BY <1>4, <2>1, <2>3, <3>1, <3>2 DEF StateChanges
  <2> QED
    BY <2>2, <2>3
<1>13. CASE HandleGameBoxHasChanged(c)
  <2>1. /\ Handling(c, "GameBoxHasChanged") /\ status' = status /\ SetHistory(c, Cleared(<<Body(c).change>>))
        /\ c = Host => suspect' = suspect
        /\ c # Host => suspect' = suspect \ {c}
    BY <1>13 DEF HandleGameBoxHasChanged, NewGame
  <2>2. After(history[c], Body(c)) = Cleared(<<Body(c).change>>)
    BY <1>1, <2>1, AfterChange
  <2> QED
    BY <1>4, <2>1, <2>2 DEF StateChanges
<1>14. CASE HandleConnectionAccepted(c)
  <2>1. /\ Handling(c, "ConnectionAccepted") /\ SetHistory(c, Cleared(Body(c).table))
        /\ status' = [status EXCEPT ![c] = "welcomed"]
        /\ suspect' = IF Body(c).clean THEN suspect \ {c} ELSE suspect \cup {c}
    BY <1>14 DEF HandleConnectionAccepted, NewGame
  <2>2. c # Host
    <3>1. Body(c).type = "ConnectionAccepted" /\ down[c] # <<>>
      BY <1>1, <2>1 DEF Takes
    <3>2. c = Host => Head(down[c]) \in ToHosts
      BY <1>0, <3>1, HeadTailProperties
    <3> QED
      BY <3>1, <3>2 DEF ToHosts, ToHost, Body
  <2>3. history'[c] = Cleared(Body(c).table) /\ \A d \in Client \ {c} : history'[d] = history[d]
    BY <1>2, <2>1
  <2>4. Begins(c)
    BY <1>0, <1>1, <2>1, <2>2, <2>3 DEF Begins
  <2>5. \A d \in Client \ {c} : d \in suspect' <=> d \in suspect
    BY <2>1
  <2> QED
    BY <2>3, <2>4, <2>5 DEF Sees
<1>15. CASE HandlePlayerHasJoined(c)
  <2>1. /\ Handling(c, "PlayerHasJoined") /\ SetHistory(c, ClearUndo(history[c])) /\ suspect' = suspect
        /\ status' = [status EXCEPT ![c] = IF Head(down[c]).from = c THEN "in" ELSE @]
    BY <1>15 DEF HandlePlayerHasJoined
  <2>2. Takes(c) /\ Here(c) /\ Body(c).type = "PlayerHasJoined"
    BY <1>1, <2>1
  <2>3. Head(down[c]).from = c => status[c] \in {"welcomed", "in"}
    <3>1. 1 \in DOMAIN down[c] /\ down[c][1] = Head(down[c])
      BY <1>0, <2>2, TailIndex DEF Takes
    <3>2. Head(down[c]).from = c => status[c] # "joining"
      BY <2>2, <3>1 DEF Apart, Unannounced, Body
    <3> QED
      BY <2>2, <3>2 DEF Here, Connected
  <2>4. status'[c] = status[c] \/ (status'[c] = "in" /\ Head(down[c]).from = c)
    BY <1>0, <2>1
  <2>5. history'[c] = After(history[c], Body(c)) /\ \A d \in Client \ {c} : history'[d] = history[d]
    <3>1. After(history[c], Body(c)) = ClearUndo(history[c])
      BY <2>2, AfterChange
    <3> QED
      BY <1>2, <2>1, <3>1
  <2>6. Hears(c)
    BY <2>1, <2>2, <2>3, <2>4, <2>5 DEF Hears
  <2> QED
    BY <2>1, <2>5, <2>6 DEF Sees
<1>16. CASE HandlePlayerHasLeft(c)
  BY <1>3, <1>16 DEF HandlePlayerHasLeft, StateChanges
<1> QED
  BY <1>5, <1>6, <1>7, <1>8, <1>9, <1>10, <1>11, <1>12, <1>13, <1>14, <1>15, <1>16 DEF Plays

-----------------------------------------------------------------------------
(* Clean snapshots show the last table.                                    *)

\* The host's own table is the last one, when no change is on its way to him.
LEMMA HostHasLatest ==
  ASSUME TypeOK, Decided, Streams, InStep, status[Host] = "in", Host \notin suspect, ~ChangesOnTheirWay
  PROVE  history[Host].table = decided[Len(decided)].table
<1> USE HostAssumption
<1>1. /\ pos[Host] \in Nat /\ relayed \in Nat /\ Len(decided) = relayed + 1
  BY DEF TypeOK, ObserversOK, ChannelsOK, Decided
<1>2. Stream(down[Host], pos[Host], relayed, decided)
  BY DEF Streams, Here, Connected
<1>3. pos[Host] <= relayed /\ Quiet(down[Host], pos[Host], relayed, decided)
  BY <1>2 DEF Stream, Numbered
<1>4. decided[pos[Host] + 1].table = decided[relayed + 1].table
  <2>1. \A i \in DOMAIN down[Host] : down[Host][i].body.type \notin StateChanges
    BY DEF ChangesOnTheirWay
  <2>2. pos[Host] \in pos[Host] .. relayed
    BY <1>1, <1>3
  <2> QED
    BY <1>3, <2>1, <2>2 DEF Quiet
<1>5. Follows(Host)
  BY DEF Follows, Following, Loading, ChangesOnTheirWay, StateChanges
<1>6. history[Host] = decided[pos[Host] + 1]
  BY <1>5 DEF InStep, InStepWith
<1> QED
  BY <1>1, <1>4, <1>6

\* The channel of the host to the server grows at its end, or is taken down.
LEMMA ProgramSending ==
  ASSUME TypeOK, TypeOK', HostAside, Apart, Present, Decided, Streams, InStep, Sending,
         ProgramStep, decided' = decided
  PROVE  Sending'
<1> USE HostAssumption
<1> DEFINE s == up[Host]
           last == decided[Len(decided)].table
<1>0. up \in [Client -> Seq(UpPackets)] /\ s \in Seq(UpPackets)
  BY DEF TypeOK, ChannelsOK
<1>1. \A i \in DOMAIN s : Snapshot(s[i].body) => NoChange(s, i) /\ s[i].body.table = last
  BY DEF Sending
<1>2. ASSUME NEW t, up'[Host] = t,
             \A i \in DOMAIN t : Snapshot(t[i].body) => NoChange(t, i) /\ t[i].body.table = last
      PROVE  Sending'
  BY <1>2 DEF Sending
<1>3. ASSUME up'[Host] = s
      PROVE  Sending'
  BY <1>1, <1>2, <1>3
<1>4. ASSUME NEW p \in UpPackets, up'[Host] = Append(s, p),
             Snapshot(p.body) => NoChange(s, Len(s) + 1) /\ p.body.table = last
      PROVE  Sending'
  <2> DEFINE t == Append(s, p)
  <2>1. /\ DOMAIN s = 1 .. Len(s) /\ Len(s) \in Nat /\ DOMAIN t = 1 .. Len(s) + 1 /\ t[Len(s) + 1] = p
        /\ \A i \in 1 .. Len(s) : t[i] = s[i]
    BY <1>0, AppendProperties, LenProperties
  <2>2. up'[Host] = t
    BY <1>4
  <2> HIDE DEF t
  <2>3. ASSUME NEW i \in DOMAIN t, Snapshot(t[i].body)
        PROVE  NoChange(t, i) /\ t[i].body.table = last
    <3>1. CASE i \in DOMAIN s
      <4>1. t[i] = s[i] /\ \A j \in DOMAIN t : j < i => j \in DOMAIN s /\ t[j] = s[j]
        BY <2>1, <3>1
      <4>2. NoChange(s, i) /\ s[i].body.table = last
        BY <1>1, <2>3, <3>1, <4>1
      <4> QED
        BY <4>1, <4>2 DEF NoChange
    <3>2. CASE i \notin DOMAIN s
      <4>1. t[i] = p /\ \A j \in DOMAIN t : j < i => j \in DOMAIN s /\ t[j] = s[j] /\ j < Len(s) + 1
        BY <2>1, <3>2
      <4>2. NoChange(s, Len(s) + 1) /\ p.body.table = last
        BY <1>4, <2>3, <4>1
      <4> QED
        BY <4>1, <4>2 DEF NoChange
    <3> QED
      BY <3>1, <3>2
  <2> QED
    BY <1>2, <2>2, <2>3
<1> HIDE DEF s, last
<1>5. CASE Idles
  BY <1>3, <1>5 DEF Idles, s
<1>6. ASSUME NEW c \in Client, Moves(c), c # Host \/ up' = up
      PROVE  Sending'
  BY <1>0, <1>3, <1>6 DEF Moves, Sends, s
<1>7. ASSUME Moves(Host), Sends(Host)
      PROVE  Sending'
  <2>1. PICK p \in Staying(Host) :
          /\ up' = [up EXCEPT ![Host] = Append(@, p)]
          /\ p.body.type = "ConnectionAccepted" => Saves(p.body)
    BY <1>7 DEF Sends
  <2>2. p \in UpPackets /\ up'[Host] = Append(s, p)
    BY <1>0, <2>1 DEF Staying, Sent, s
  <2>3. Snapshot(p.body) => NoChange(s, Len(s) + 1) /\ p.body.table = last
    <3> SUFFICES ASSUME Snapshot(p.body)
                 PROVE  NoChange(s, Len(s) + 1) /\ p.body.table = last
      OBVIOUS
    <3>1. p.body.table = shown /\ ~ChangesOnTheirWay /\ shown = history[Host].table /\ Host \notin suspect
      BY <2>1 DEF Snapshot, Saves
    <3>2. status[Host] = "in"
      BY <1>7 DEF Moves, Here, Present, Connected
    <3>3. p.body.table = last
      BY <3>1, <3>2, HostHasLatest DEF last
    <3>4. NoChange(s, Len(s) + 1)
      BY <3>1 DEF NoChange, ChangesOnTheirWay, s
    <3> QED
      BY <3>3, <3>4
  <2> QED
    BY <1>4, <2>2, <2>3
<1>8. ASSUME NEW c \in Client, Quits(c)
      PROVE  Sending'
  <2>1. CASE c # Host
    BY <1>0, <1>3, <1>8, <2>1 DEF Quits, s
  <2>2. CASE c = Host
    <3>1. CASE up'[Host] = <<>>
      BY <1>2, <3>1
    <3>2. ASSUME NEW k \in 0 .. Len(s), NEW p, p.body.type = "Disconnect", p \in UpPackets,
                 up'[Host] = Append(SubSeq(s, 1, k), p)
          PROVE  Sending'
      <4> DEFINE t == Append(SubSeq(s, 1, k), p)
      <4>1. /\ DOMAIN s = 1 .. Len(s) /\ Len(s) \in Nat
            /\ DOMAIN t = 1 .. k + 1 /\ t[k + 1] = p /\ \A i \in 1 .. k : t[i] = s[i] /\ i \in DOMAIN s
        <5>1. SubSeq(s, 1, k) \in Seq(UpPackets) /\ Len(SubSeq(s, 1, k)) = k /\ \A i \in 1 .. k : SubSeq(s, 1, k)[i] = s[i]
          BY <1>0, <3>2, SubSeqProperties, LenProperties
        <5> QED
          BY <1>0, <3>2, <5>1, AppendProperties, LenProperties
      <4>2. up'[Host] = t
        BY <3>2
      <4> HIDE DEF t
      <4>3. ASSUME NEW i \in DOMAIN t, Snapshot(t[i].body)
            PROVE  NoChange(t, i) /\ t[i].body.table = last
        <5>1. i \in DOMAIN s /\ t[i] = s[i] /\ i <= k
          BY <3>2, <4>1, <4>3 DEF Snapshot
        <5>2. \A j \in DOMAIN t : j < i => j \in DOMAIN s /\ t[j] = s[j]
          BY <4>1, <5>1
        <5>3. NoChange(s, i) /\ s[i].body.table = last
          BY <1>1, <4>3, <5>1
        <5> QED
          BY <5>1, <5>2, <5>3 DEF NoChange
      <4> QED
        BY <1>2, <4>2, <4>3
    <3>3. [route |-> "Disconnect", to |-> c, body |-> [type |-> "Disconnect"]] \in UpPackets
      BY BodyMade DEF UpPackets, Routes
    <3>4. \/ up'[Host] = <<>>
          \/ \E k \in 0 .. Len(s), p \in UpPackets :
               p.body.type = "Disconnect" /\ up'[Host] = Append(SubSeq(s, 1, k), p)
      <4> DEFINE q == [route |-> "Disconnect", to |-> c, body |-> [type |-> "Disconnect"]]
      <4>1. q \in UpPackets /\ q.body.type = "Disconnect"
        BY <3>3
      <4>2. up' = [up EXCEPT ![c] = <<>>] \/ \E k \in 0 .. Len(up[c]) : up' = [up EXCEPT ![c] = Append(SubSeq(@, 1, k), q)]
        BY <1>8 DEF Quits
      <4> HIDE DEF q
      <4> QED
        BY <1>0, <2>2, <4>1, <4>2 DEF s
    <3> QED
      BY <3>1, <3>2, <3>4
  <2> QED
    BY <2>1, <2>2
<1>9. ASSUME NEW c \in Client, Connect(c)
      PROVE  Sending'
  BY <1>3, <1>9 DEF Connect, s
<1> QED
  BY <1>5, <1>6, <1>7, <1>8, <1>9, ProgramShapes DEF Moves

\* The server takes packets from the channel; a state change that it decides is the host's.
LEMMA RelayingSending ==
  ASSUME TypeOK, Apart, Present, Decided, Sending, NEW c \in Client, Relaying(c), Decides(c)
  PROVE  Sending'
<1> USE HostAssumption
<1>0. /\ up \in [Client -> Seq(UpPackets)] /\ decided \in Seq(Histories) /\ Len(decided) = relayed + 1
      /\ relayed \in Nat /\ Last(decided) = decided[relayed + 1] /\ Last(decided) \in Histories
  BY Deciding DEF TypeOK, ChannelsOK, Decided
<1>1. up[c] # <<>> /\ up' = [up EXCEPT ![c] = Tail(@)] /\ Head(up[c]) \in Sent(c)
  BY RelayedHead
<1>2. Head(up[c]).body.type \notin StateChanges => decided'[Len(decided')].table = decided[Len(decided)].table
  <2>1. CASE decided' = decided
    BY <2>1
  <2>2. ASSUME NEW h \in Histories, h = After(Last(decided), Head(up[c]).body), decided' = Append(decided, h),
               Head(up[c]).body.type \notin StateChanges
        PROVE  decided'[Len(decided')].table = decided[Len(decided)].table
    <3>1. decided'[Len(decided')] = h
      BY <1>0, <2>2, AppendProperties
    <3>2. h.table = Last(decided).table
      BY <1>0, <2>2, AfterPlain
    <3> QED
      BY <1>0, <3>1, <3>2
  <2> QED
    BY <2>1, <2>2, Deciding
<1>3. CASE c # Host
  <2>1. up'[Host] = up[Host] /\ Head(up[c]).body.type \notin StateChanges
    BY <1>0, <1>1, <1>3 DEF Sent, Sendable
  <2> QED
    BY <1>2, <2>1 DEF Sending
<1>4. CASE c = Host
  <2> DEFINE s == up[Host]
             t == Tail(s)
  <2>1. /\ DOMAIN s = 1 .. Len(s) /\ Len(s) \in Nat /\ Len(s) > 0 /\ Head(s) = s[1] /\ DOMAIN t = 1 .. Len(s) - 1
        /\ \A i \in DOMAIN t : i + 1 \in DOMAIN s /\ t[i] = s[i + 1]
    BY <1>0, <1>1, <1>4, TailIndex
  <2>2. up'[Host] = t
    BY <1>0, <1>1, <1>4
  <2>3. \A i \in DOMAIN s : Snapshot(s[i].body) => NoChange(s, i) /\ s[i].body.table = decided[Len(decided)].table
    BY DEF Sending
  <2>4. Head(up[c]) = s[1] /\ 1 \in DOMAIN s
    BY <1>4, <2>1
  <2> HIDE DEF s, t
  <2>5. ASSUME NEW i \in DOMAIN t, Snapshot(t[i].body)
        PROVE  NoChange(t, i) /\ t[i].body.table = decided'[Len(decided')].table
    <3>1. i + 1 \in DOMAIN s /\ t[i] = s[i + 1] /\ 1 < i + 1
      BY <2>1
    <3>2. NoChange(s, i + 1) /\ s[i + 1].body.table = decided[Len(decided)].table
      BY <2>3, <2>5, <3>1
    <3>3. NoChange(t, i)
      <4>1. \A j \in DOMAIN t : j < i => j + 1 \in DOMAIN s /\ j + 1 < i + 1 /\ t[j] = s[j + 1]
        BY <2>1
      <4> QED
        BY <3>2, <4>1 DEF NoChange
    <3>4. s[1].body.type \notin StateChanges
      BY <2>4, <3>1, <3>2 DEF NoChange
    <3> QED
      BY <1>2, <2>4, <3>1, <3>2, <3>3, <3>4
  <2> QED
    BY <2>2, <2>5 DEF Sending
<1> QED
  BY <1>3, <1>4

-----------------------------------------------------------------------------
(* The game that the host has loaded.                                      *)

\* The host sends something else, or loads a game while nothing is on its way.
LEMMA ApartSent ==
  ASSUME NEW S, NEW u \in Seq(S), NEW T, NEW d \in Seq(T), NEW e \in S, NEW h,
         \/ GameApart(h, u, d) /\ e.body.type # "GameLoaded"
         \/ /\ NoChange(u, Len(u) + 1) /\ NoChange(d, Len(d) + 1)
            /\ e.body.type = "GameLoaded" /\ h = Cleared(<<e.body.change>>)
  PROVE  GameApart(h, Append(u, e), d)
<1> DEFINE t == Append(u, e)
           l == Len(u)
<1>1. /\ l \in Nat /\ DOMAIN u = 1 .. l /\ DOMAIN t = 1 .. l + 1 /\ t[l + 1] = e
      /\ \A i \in 1 .. l : t[i] = u[i]
  BY AppendProperties, LenProperties
<1>2. Len(d) \in Nat /\ DOMAIN d = 1 .. Len(d)
  BY LenProperties
<1>3. GameApart(h, u, d)
  <2>1. ASSUME NoChange(u, Len(u) + 1)
        PROVE  \A i \in DOMAIN u : u[i].body.type # "GameLoaded"
    BY <1>1, <2>1 DEF NoChange, StateChanges
  <2>2. ASSUME NoChange(d, Len(d) + 1)
        PROVE  \A i \in DOMAIN d : d[i].body.type # "GameLoaded"
    BY <1>2, <2>2 DEF NoChange, StateChanges
  <2> QED
    BY <2>1, <2>2 DEF GameApart
<1> HIDE DEF t, l
<1>4. ASSUME NEW i \in DOMAIN t, t[i].body.type = "GameLoaded"
      PROVE  h = Cleared(<<t[i].body.change>>) /\ NoChange(t, i) /\ NoChange(d, Len(d) + 1)
  <2>1. CASE i \in DOMAIN u
    <3>1. t[i] = u[i] /\ \A j \in DOMAIN t : j < i => j \in DOMAIN u /\ t[j] = u[j]
      BY <1>1, <2>1
    <3>2. h = Cleared(<<u[i].body.change>>) /\ NoChange(u, i) /\ NoChange(d, Len(d) + 1)
      BY <1>3, <1>4, <2>1, <3>1 DEF GameApart
    <3> QED
      BY <3>1, <3>2 DEF NoChange
  <2>2. CASE i \notin DOMAIN u
    <3>1. t[i] = e /\ \A j \in DOMAIN t : j < i => j \in DOMAIN u /\ t[j] = u[j] /\ j < Len(u) + 1
      BY <1>1, <2>2 DEF l
    <3>2. NoChange(u, Len(u) + 1) /\ NoChange(d, Len(d) + 1) /\ h = Cleared(<<e.body.change>>)
      BY <1>4, <3>1
    <3> QED
      BY <3>1, <3>2 DEF NoChange
  <2> QED
    BY <2>1, <2>2
<1> QED
  BY <1>3, <1>4 DEF GameApart, t

\* The host handles a packet: no state change, as long as his game is behind it.
LEMMA ApartHeard ==
  ASSUME NEW S, NEW u \in Seq(S), NEW T, NEW d \in Seq(T), d # <<>>, NEW h \in Histories, GameApart(h, u, d),
         NEW g, g = IF Head(d).body.type = "GameLoaded" THEN h ELSE After(h, Head(d).body)
  PROVE  GameApart(g, u, Tail(d))
<1> DEFINE t == Tail(d)
           l == Len(d)
<1>1. /\ l \in Nat /\ l > 0 /\ DOMAIN d = 1 .. l /\ Head(d) = d[1] /\ DOMAIN t = 1 .. l - 1 /\ Len(t) = l - 1
      /\ \A i \in DOMAIN t : i + 1 \in DOMAIN d /\ t[i] = d[i + 1]
      /\ 1 \in DOMAIN d
  BY TailIndex
<1>2. ASSUME d[1].body.type \notin StateChanges, NEW k, h = Cleared(<<k>>)
      PROVE  g = Cleared(<<k>>)
  <2>1. CASE d[1].body.type = "PlayerHasJoined"
    <3>1. g = ClearUndo(h)
      BY <1>1, <2>1, AfterChange
    <3> QED
      BY <1>2, <3>1 DEF ClearUndo, Cleared
  <2>2. CASE d[1].body.type # "PlayerHasJoined"
    BY <1>1, <1>2, <2>2, AfterPlain DEF StateChanges
  <2> QED
    BY <2>1, <2>2
<1> HIDE DEF t
<1>3. ASSUME NEW i, NoChange(d, i + 1), i \in Nat, i > 0
      PROVE  d[1].body.type \notin StateChanges /\ NoChange(t, i)
  <2>1. 1 < i + 1 /\ \A j \in DOMAIN t : j < i => j + 1 \in DOMAIN d /\ j + 1 < i + 1 /\ t[j] = d[j + 1]
    BY <1>1, <1>3
  <2> QED
    BY <1>1, <1>3, <2>1 DEF NoChange
<1>4. ASSUME NEW i \in DOMAIN u, u[i].body.type = "GameLoaded"
      PROVE  g = Cleared(<<u[i].body.change>>) /\ NoChange(u, i) /\ NoChange(t, Len(t) + 1)
  <2>1. h = Cleared(<<u[i].body.change>>) /\ NoChange(u, i) /\ NoChange(d, Len(d) + 1)
    BY <1>4 DEF GameApart
  <2>2. Len(t) + 1 = l
    BY <1>1
  <2>3. d[1].body.type \notin StateChanges /\ NoChange(t, Len(t) + 1)
    BY <1>1, <1>3, <2>1, <2>2
  <2> QED
    BY <1>2, <2>1, <2>3
<1>5. ASSUME NEW i \in DOMAIN t, t[i].body.type = "GameLoaded"
      PROVE  g = Cleared(<<t[i].body.change>>) /\ NoChange(t, i)
  <2>1. i + 1 \in DOMAIN d /\ t[i] = d[i + 1] /\ i \in Nat /\ i > 0
    BY <1>1
  <2>2. h = Cleared(<<t[i].body.change>>) /\ NoChange(d, i + 1)
    BY <1>5, <2>1 DEF GameApart
  <2>3. d[1].body.type \notin StateChanges /\ NoChange(t, i)
    BY <1>3, <2>1, <2>2
  <2> QED
    BY <1>2, <2>2, <2>3
<1> QED
  BY <1>4, <1>5 DEF GameApart, t

\* The server sends the host a packet: the host's next one, or no state change.
LEMMA ApartReceived ==
  ASSUME NEW S, NEW u \in Seq(S), NEW T, NEW d \in Seq(T), NEW e \in T, NEW h, GameApart(h, u, d),
         \/ e.body.type \notin StateChanges
         \/ u # <<>> /\ e.body = Head(u).body
  PROVE  /\ e.body.type \notin StateChanges => GameApart(h, u, Append(d, e))
         /\ u # <<>> => GameApart(h, Tail(u), Append(d, e)) /\ GameApart(h, Tail(u), d)
<1> DEFINE t == Append(d, e)
           l == Len(d)
           v == Tail(u)
<1>1. /\ l \in Nat /\ DOMAIN d = 1 .. l /\ DOMAIN t = 1 .. l + 1 /\ t[l + 1] = e /\ Len(t) = l + 1
      /\ \A i \in 1 .. l : t[i] = d[i]
  BY AppendProperties, LenProperties
<1>2. u # <<>> =>
        /\ Head(u) = u[1] /\ 1 \in DOMAIN u
        /\ \A i \in DOMAIN v : i \in Nat /\ i > 0 /\ i + 1 \in DOMAIN u /\ v[i] = u[i + 1]
        /\ \A i \in DOMAIN v : \A j \in DOMAIN v : j < i => j + 1 < i + 1
  BY TailIndex
<1> HIDE DEF t, l, v
<1>3. ASSUME e.body.type \notin StateChanges, NoChange(d, Len(d) + 1)
      PROVE  NoChange(t, Len(t) + 1)
  <2>1. \A j \in DOMAIN t : (j \in DOMAIN d /\ t[j] = d[j] /\ j < Len(d) + 1) \/ t[j] = e
    BY <1>1 DEF l
  <2> QED
    BY <1>3, <2>1 DEF NoChange
\* What was in the host's own channel.
<1>4. ASSUME NEW i \in DOMAIN d, d[i].body.type = "GameLoaded"
      PROVE  h = Cleared(<<d[i].body.change>>) /\ NoChange(d, i) /\ NoChange(t, i) /\ t[i] = d[i]
  <2>1. h = Cleared(<<d[i].body.change>>) /\ NoChange(d, i)
    BY <1>4 DEF GameApart
  <2>2. t[i] = d[i] /\ \A j \in DOMAIN t : j < i => j \in DOMAIN d /\ t[j] = d[j]
    BY <1>1
  <2> QED
    BY <2>1, <2>2 DEF NoChange
<1>5. ASSUME e.body.type \notin StateChanges \/ (u # <<>> /\ e.body = Head(u).body)
      PROVE  \A i \in DOMAIN t : t[i].body.type = "GameLoaded" => h = Cleared(<<t[i].body.change>>) /\ NoChange(t, i)
  <2> SUFFICES ASSUME NEW i \in DOMAIN t, t[i].body.type = "GameLoaded"
               PROVE  h = Cleared(<<t[i].body.change>>) /\ NoChange(t, i)
    OBVIOUS
  <2>1. CASE i \in DOMAIN d
    BY <1>1, <1>4, <2>1
  <2>2. CASE i \notin DOMAIN d
    <3>1. t[i] = e /\ i = l + 1
      BY <1>1, <2>2
    <3>2. u # <<>> /\ e.body = Head(u).body
      BY <1>5, <3>1 DEF StateChanges
    <3>3. h = Cleared(<<e.body.change>>) /\ NoChange(d, Len(d) + 1)
      BY <1>2, <3>1, <3>2 DEF GameApart
    <3>4. \A j \in DOMAIN t : j < i => j \in DOMAIN d /\ t[j] = d[j] /\ j < Len(d) + 1
      BY <1>1, <3>1 DEF l
    <3> QED
      BY <3>1, <3>3, <3>4 DEF NoChange
  <2> QED
    BY <2>1, <2>2
<1>6. e.body.type \notin StateChanges => GameApart(h, u, t)
  BY <1>3, <1>5 DEF GameApart
<1>7. ASSUME u # <<>>, NEW i \in DOMAIN v, v[i].body.type = "GameLoaded"
      PROVE  /\ h = Cleared(<<v[i].body.change>>) /\ NoChange(v, i)
             /\ NoChange(d, Len(d) + 1) /\ u[1].body.type \notin StateChanges
  <2>1. h = Cleared(<<v[i].body.change>>) /\ NoChange(u, i + 1) /\ NoChange(d, Len(d) + 1)
    BY <1>2, <1>7 DEF GameApart
  <2>2. 1 < i + 1
    BY <1>2, <1>7
  <2>3. \A j \in DOMAIN v : j < i => j + 1 \in DOMAIN u /\ j + 1 < i + 1 /\ v[j] = u[j + 1]
    BY <1>2, <1>7
  <2> QED
    BY <1>2, <1>7, <2>1, <2>2, <2>3 DEF NoChange
<1>8. u # <<>> => GameApart(h, v, t)
  <2> SUFFICES ASSUME u # <<>>, NEW i \in DOMAIN v, v[i].body.type = "GameLoaded"
               PROVE  h = Cleared(<<v[i].body.change>>) /\ NoChange(v, i) /\ NoChange(t, Len(t) + 1)
    BY <1>5 DEF GameApart
  <2>1. e.body.type \notin StateChanges
    BY <1>2, <1>7
  <2> QED
    BY <1>3, <1>7, <2>1
<1>9. u # <<>> => GameApart(h, v, d)
  BY <1>4, <1>7 DEF GameApart
<1> QED
  BY <1>6, <1>8, <1>9 DEF t, v

-----------------------------------------------------------------------------
(* The host's game comes back to him as he left it.                        *)

\* No program can disturb a load by the host, which stays ahead of all he may hear.
LEMMA ProgramLoading ==
  ASSUME TypeOK, TypeOK', HostAside, Apart, Present, LoadingApart, ProgramStep
  PROVE  LoadingApart'
<1> USE HostAssumption
<1>0. /\ up \in [Client -> Seq(UpPackets)] /\ down \in [Client -> Seq(DownPackets)]
      /\ history \in [Client -> Histories] /\ status \in [Client -> Connected \cup {"out"}]
      /\ suspect \subseteq Client
      /\ up' \in [Client -> Seq(UpPackets)]
  BY DEF TypeOK, ChannelsOK, TablesOK, NumbersOK, ObserversOK
\* It is only about the host.
<1>1. ASSUME status'[Host] = status[Host], Host \in suspect => Host \in suspect',
             (status[Host] = "in" /\ Host \notin suspect) =>
               (GameApart(history[Host], up[Host], down[Host]) => GameApart(history'[Host], up'[Host], down'[Host]))
      PROVE  LoadingApart'
  BY <1>1 DEF LoadingApart
<1>2. CASE Idles
  <2>1. status[Host] = "in" => history'[Host] = history[Host]
    BY <1>2 DEF Idles, Here, Connected
  <2> QED
    BY <1>1, <1>2, <2>1 DEF Idles
<1>3. ASSUME NEW c \in Client, Quits(c)
      PROVE  LoadingApart'
  <2>1. CASE c = Host
    BY <1>0, <1>3, <2>1 DEF Quits, LoadingApart
  <2>2. CASE c # Host
    <3>1. /\ status'[Host] = status[Host] /\ suspect' = suspect /\ history'[Host] = history[Host]
          /\ up'[Host] = up[Host] /\ down'[Host] = down[Host]
      BY <1>0, <1>3, <2>2 DEF Quits
    <3> QED
      BY <1>1, <3>1
  <2> QED
    BY <2>1, <2>2
<1>4. ASSUME NEW c \in Client, Connect(c)
      PROVE  LoadingApart'
  <2> DEFINE e == [from |-> c, n |-> 0, body |-> [type |-> "PlayerWantsToJoin"]]
  <2>1. /\ c # Host /\ up' = up /\ history' = history /\ suspect' = suspect \ {c}
        /\ down' = Deliver({Host}, c, 0, [type |-> "PlayerWantsToJoin"])
        /\ status' = [status EXCEPT ![c] = "joining"]
    BY <1>4 DEF Connect, OnPlayerConnected
  <2>2. down'[Host] = down[Host] \/ down'[Host] = Append(down[Host], e)
    BY <1>0, <2>1 DEF Deliver
  <2>3. e \in DownPackets /\ e.body.type \notin StateChanges
    BY BodyMade DEF DownPackets, StateChanges
  <2> HIDE DEF e
  <2>4. GameApart(history[Host], up[Host], down[Host]) => GameApart(history[Host], up[Host], down'[Host])
    <3>1. ASSUME GameApart(history[Host], up[Host], down[Host])
          PROVE  GameApart(history[Host], up[Host], Append(down[Host], e))
      BY <1>0, <2>3, <3>1, ApartReceived
    <3> QED
      BY <2>2, <3>1
  <2>5. status'[Host] = status[Host] /\ (Host \in suspect => Host \in suspect')
    BY <1>0, <2>1
  <2> QED
    BY <1>1, <2>1, <2>4, <2>5
<1>5. ASSUME NEW c \in Client, Moves(c), Sees(c)
      PROVE  LoadingApart'
  <2>1. CASE c # Host
    <3>1. status'[Host] = status[Host] /\ history'[Host] = history[Host] /\ (Host \in suspect => Host \in suspect')
      BY <1>5, <2>1 DEF Moves, Sees
    <3>2. up'[Host] = up[Host] /\ down'[Host] = down[Host]
      BY <1>0, <1>5, <2>1 DEF Moves, Takes, Sends
    <3> QED
      BY <1>1, <3>1, <3>2
  <2>2. CASE c = Host /\ LoadGame
    <3>1. /\ SetHistory(Host, Cleared(<<issued + 1>>)) /\ status' = status /\ down' = down
          /\ up' = Upload(Host, "ClientToAll", Host,
                     [type |-> "GameLoaded", seq |-> seq[Host] + 1, change |-> issued + 1])
          /\ suspect' = IF ChangesOnTheirWay THEN suspect \cup {Host} ELSE suspect
      BY <2>2 DEF LoadGame, NewGame
    <3> DEFINE body == [type |-> "GameLoaded", seq |-> seq[Host] + 1, change |-> issued + 1]
               p == [route |-> "ClientToAll", to |-> Host, body |-> body]
    <3>2. p.body.type = "GameLoaded" /\ p.body.change = issued + 1
      OBVIOUS
    <3>3. p \in UpPackets /\ up'[Host] = Append(up[Host], p)
      <4>1. up' = Upload(Host, "ClientToAll", Host, body)
        BY <3>1
      <4> HIDE DEF body
      <4>2. p \in UpPackets
        BY <1>0, <4>1, UploadedPacket DEF TypeOK
      <4> QED
        BY <1>0, <4>1, <4>2 DEF Upload
    <3> HIDE DEF p
    <3>4. history'[Host] = Cleared(<<issued + 1>>)
      BY <1>0, <3>1 DEF SetHistory
    <3>5. ~ChangesOnTheirWay =>
            NoChange(up[Host], Len(up[Host]) + 1) /\ NoChange(down[Host], Len(down[Host]) + 1)
      BY DEF ChangesOnTheirWay, NoChange
    <3>6. ~ChangesOnTheirWay => GameApart(history'[Host], up'[Host], down[Host])
      BY <1>0, <3>2, <3>3, <3>4, <3>5, ApartSent
    <3> QED
      BY <3>1, <3>6 DEF LoadingApart
  <2>3. CASE c = Host /\ ~LoadGame
    <3>1. status[Host] = "in"
      BY <1>5, <2>3 DEF Moves, Here, Present, Connected
    <3>2. ASSUME NEW h, NEW d \in Seq(DownPackets), GameApart(h, up[Host], d)
          PROVE  GameApart(h, up'[Host], d)
      <4>1. CASE up' = up
        BY <3>2, <4>1
      <4>2. ASSUME NEW p \in Staying(Host), up' = [up EXCEPT ![Host] = Append(@, p)],
                   p.body.type # "GameLoaded"
            PROVE  GameApart(h, up'[Host], d)
        <5>1. p \in UpPackets /\ up'[Host] = Append(up[Host], p)
          BY <1>0, <4>2 DEF Staying, Sent
        <5>2. GameApart(h, Append(up[Host], p), d)
          BY <1>0, <3>2, <4>2, <5>1, ApartSent
        <5> QED
          BY <5>1, <5>2
      <4> QED
        BY <1>5, <2>3, <4>1, <4>2 DEF Moves, Sends
    <3>3. CASE Rests
      <4>1. history'[Host] = history[Host] /\ down'[Host] = down[Host] /\ suspect' = suspect /\ status' = status
        BY <3>3 DEF Rests
      <4>2. down[Host] \in Seq(DownPackets)
        BY <1>0
      <4> QED
        BY <1>1, <3>2, <4>1, <4>2
    <3>4. CASE Hears(Host)
      <4>1. /\ down[Host] # <<>> /\ down'[Host] = Tail(down[Host])
            /\ history'[Host] = IF Head(down[Host]).body.type = "GameLoaded" THEN history[Host]
                                ELSE After(history[Host], Head(down[Host]).body)
            /\ Host \in suspect => Host \in suspect'
        BY <1>0, <3>4 DEF Hears, Takes, Body
      <4>2. GameApart(history[Host], up[Host], down[Host]) => GameApart(history'[Host], up[Host], down'[Host])
        BY <1>0, <4>1, ApartHeard
      <4>3. down'[Host] \in Seq(DownPackets)
        BY <1>0, <4>1, HeadTailProperties
      <4>4. status'[Host] = status[Host]
        BY <1>5, <2>3, <3>1 DEF Moves
      <4> QED
        BY <1>1, <3>2, <4>1, <4>2, <4>3, <4>4
    <3> QED
      BY <1>5, <2>3, <3>3, <3>4 DEF Sees, Begins
  <2> QED
    BY <2>1, <2>2, <2>3
<1> QED
  BY <1>2, <1>3, <1>4, <1>5, ProgramShapes, PlaysSees

\* Neither can the server.
LEMMA RelayingLoading ==
  ASSUME TypeOK, Apart, Present, LoadingApart, NEW c \in Client, Relaying(c)
  PROVE  LoadingApart'
<1> USE HostAssumption
<1>0. /\ up \in [Client -> Seq(UpPackets)] /\ down \in [Client -> Seq(DownPackets)]
      /\ relayed \in Nat
  BY DEF TypeOK, ChannelsOK
<1>1. status' = status /\ history' = history /\ suspect' = suspect
  BY DEF Relaying, observers
<1>2. /\ up[c] # <<>> /\ up' = [up EXCEPT ![c] = Tail(@)] /\ Head(up[c]) \in Sent(c)
  BY RelayedHead
<1> SUFFICES ASSUME status[Host] = "in", GameApart(history[Host], up[Host], down[Host])
             PROVE  GameApart(history[Host], up'[Host], down'[Host])
  BY <1>1 DEF LoadingApart
<1> DEFINE plain(e) == e.body.type \notin StateChanges \/ (c = Host /\ e.body = Head(up[Host]).body)
<1>3. \/ down'[Host] = down[Host]
      \/ \E e \in DownPackets : down'[Host] = Append(down[Host], e) /\ plain(e)
  <2>1. c # Host => Head(up[c]).body.type \notin StateChanges
    BY <1>2 DEF Sent, Sendable
  <2>2. ASSUME NEW from \in Client, NEW n \in Nat, NEW body \in Bodies,
               body = Head(up[c]).body \/ body.type \in {"HostDisconnected", "PlayerHasLeft"}
        PROVE  LET e == [from |-> from, n |-> n, body |-> body]
               IN  e \in DownPackets /\ plain(e)
    <3>1. body.type \in {"HostDisconnected", "PlayerHasLeft"} => body.type \notin StateChanges
      BY DEF StateChanges
    <3> QED
      BY <2>1, <2>2, <3>1 DEF DownPackets
  <2> HIDE DEF plain
  <2>3. CASE PassesOn(c, Host)
    BY <2>2, <2>3 DEF PassesOn
  <2>4. CASE Broadcasts(c, Host)
    <3>1. relayed + 1 \in Nat
      BY <1>0
    <3> QED
      BY <2>2, <2>4, <3>1 DEF Broadcasts
  <2> QED
    BY <2>3, <2>4, Relayed
<1>4. CASE c # Host
  <2>1. up'[Host] = up[Host]
    BY <1>0, <1>2, <1>4
  <2>2. ASSUME NEW e \in DownPackets, e.body.type \notin StateChanges
        PROVE  GameApart(history[Host], up[Host], Append(down[Host], e))
    BY <1>0, <2>2, ApartReceived
  <2> QED
    BY <1>3, <1>4, <2>1, <2>2
<1>5. CASE c = Host
  <2>1. up[Host] # <<>> /\ up'[Host] = Tail(up[Host])
    BY <1>0, <1>2, <1>5
  <2>2. ASSUME NEW e \in DownPackets, plain(e)
        PROVE  GameApart(history[Host], Tail(up[Host]), Append(down[Host], e))
    BY <1>0, <2>1, <2>2, ApartReceived
  <2>3. GameApart(history[Host], Tail(up[Host]), down[Host])
    <3>1. \E e \in DownPackets : e.body.type \notin StateChanges
      <4>1. [from |-> Host, n |-> 0, body |-> [type |-> "PlayerHasLeft"]] \in DownPackets
        BY BodyMade DEF DownPackets
      <4> QED
        BY <4>1 DEF StateChanges
    <3> QED
      BY <1>0, <2>1, <3>1, ApartReceived
  <2> QED
    BY <1>3, <2>1, <2>2, <2>3
<1> QED
  BY <1>4, <1>5

-----------------------------------------------------------------------------
(* A newcomer's stacks stay the top of the others'.                        *)

\* The same entry is added, or the last one is taken off.
LEMMA TopAppend ==
  ASSUME NEW g \in Seq(Entries), NEW d \in Seq(Entries), NEW e \in Entries
  PROVE  /\ SameTop(g, d) => SameTop(Append(g, e), Append(d, e))
         /\ EndsLike(g, d) => EndsLike(Append(g, e), Append(d, e))
<1> DEFINE G == Append(g, e)
           D == Append(d, e)
<1>1. /\ Len(g) \in Nat /\ DOMAIN g = 1 .. Len(g) /\ Len(G) = Len(g) + 1 /\ DOMAIN G = 1 .. Len(g) + 1
      /\ G[Len(g) + 1] = e /\ \A i \in 1 .. Len(g) : G[i] = g[i]
      /\ Len(d) \in Nat /\ Len(D) = Len(d) + 1
      /\ D[Len(d) + 1] = e /\ \A i \in 1 .. Len(d) : D[i] = d[i]
  BY AppendProperties, LenProperties
<1> HIDE DEF G, D
<1>2. ASSUME Len(g) <= Len(d), NEW i \in DOMAIN G
      PROVE  \/ /\ i \in DOMAIN g /\ G[i] = g[i]
                /\ D[Len(D) - Len(G) + i] = d[Len(d) - Len(g) + i]
             \/ G[i] = e /\ D[Len(D) - Len(G) + i] = e
  <2>1. Len(D) - Len(G) + i = Len(d) - Len(g) + i
    BY <1>1
  <2>2. CASE i \in DOMAIN g
    <3>1. Len(d) - Len(g) + i \in 1 .. Len(d)
      BY <1>1, <1>2, <2>2
    <3> QED
      BY <1>1, <2>1, <2>2, <3>1
  <2>3. CASE i \notin DOMAIN g
    <3>1. i = Len(g) + 1 /\ Len(d) - Len(g) + i = Len(d) + 1
      BY <1>1, <2>3
    <3> QED
      BY <1>1, <2>1, <3>1
  <2> QED
    BY <2>2, <2>3
<1>3. SameTop(g, d) => SameTop(G, D)
  BY <1>1, <1>2 DEF SameTop
<1>4. EndsLike(g, d) => EndsLike(G, D)
  BY <1>1, <1>2 DEF EndsLike
<1> QED
  BY <1>3, <1>4 DEF G, D

\* A stack without its last entry.
LEMMA FrontLength ==
  ASSUME NEW s \in Seq(Entries), Len(s) > 0
  PROVE  Len(Front(s)) = Len(s) - 1 /\ DOMAIN Front(s) = 1 .. Len(s) - 1 /\ \A i \in 1 .. Len(s) - 1 : Front(s)[i] = s[i]
<1>1. Len(s) \in Nat /\ Len(s) - 1 \in Nat /\ \A i \in 1 .. Len(s) - 1 : s[i] \in Entries
  BY LenProperties, ElementOfSeq
<1> DEFINE n == Len(s) - 1
           t == SubSeq(s, 1, n)
<1>2. /\ t \in Seq(Entries) /\ Len(t) = IF 1 <= n THEN n - 1 + 1 ELSE 0
      /\ \A i \in 1 .. n - 1 + 1 : t[i] = s[1 + i - 1]
  <2>1. 1 \in Int /\ n \in Int /\ \A i \in 1 .. n : s[i] \in Entries
    BY <1>1
  <2> HIDE DEF n
  <2> QED
    BY <2>1, SubSeqProperties
<1>3. n \in Nat /\ n - 1 + 1 = n /\ \A i \in 1 .. n : 1 + i - 1 = i
  BY <1>1
<1> HIDE DEF n, t
<1>4. Len(t) = n /\ DOMAIN t = 1 .. n /\ \A i \in 1 .. n : t[i] = s[i]
  BY <1>2, <1>3, LenProperties
<1> QED
  BY <1>4 DEF Front, n, t

\* See TopAppend.
LEMMA TopFront ==
  ASSUME NEW g \in Seq(Entries), g # <<>>, NEW d \in Seq(Entries)
  PROVE  /\ SameTop(g, d) => /\ d # <<>> /\ SameTop(Front(g), Front(d))
                             /\ Last(g).rotation = Last(d).rotation
                             /\ (Len(g) > 1 \/ ~Last(g).rotation) => Last(g) = Last(d)
         /\ EndsLike(g, d) => /\ d # <<>> /\ EndsLike(Front(g), Front(d))
                              /\ Last(g) = Last(d)
<1>1. /\ Len(g) \in Nat /\ Len(g) > 0 /\ DOMAIN g = 1 .. Len(g) /\ Last(g) = g[Len(g)]
      /\ Len(d) \in Nat /\ DOMAIN d = 1 .. Len(d) /\ Last(d) = d[Len(d)]
  BY LenProperties, EmptySeq DEF Last
<1> SUFFICES ASSUME Len(g) <= Len(d)
             PROVE  /\ SameTop(g, d) => /\ d # <<>> /\ SameTop(Front(g), Front(d))
                                        /\ Last(g).rotation = Last(d).rotation
                                        /\ (Len(g) > 1 \/ ~Last(g).rotation) => Last(g) = Last(d)
                    /\ EndsLike(g, d) => /\ d # <<>> /\ EndsLike(Front(g), Front(d))
                                         /\ Last(g) = Last(d)
  BY DEF SameTop, EndsLike
<1>2. ASSUME NEW s \in Seq(Entries), Len(s) > 0
      PROVE  Len(Front(s)) = Len(s) - 1 /\ DOMAIN Front(s) = 1 .. Len(s) - 1 /\ \A i \in 1 .. Len(s) - 1 : Front(s)[i] = s[i]
  BY <1>2, FrontLength
<1> DEFINE G == Front(g)
           D == Front(d)
<1>3. /\ Len(d) > 0 /\ d # <<>>
      /\ Len(G) = Len(g) - 1 /\ DOMAIN G = 1 .. Len(g) - 1 /\ \A i \in 1 .. Len(g) - 1 : G[i] = g[i]
      /\ Len(D) = Len(d) - 1 /\ \A i \in 1 .. Len(d) - 1 : D[i] = d[i]
  <2>1. Len(d) > 0
    BY <1>1
  <2>2. d # <<>>
    BY <2>1
  <2>3. Len(G) = Len(g) - 1 /\ DOMAIN G = 1 .. Len(g) - 1 /\ \A i \in 1 .. Len(g) - 1 : G[i] = g[i]
    BY <1>1, <1>2
  <2>4. Len(D) = Len(d) - 1 /\ \A i \in 1 .. Len(d) - 1 : D[i] = d[i]
    BY <1>2, <2>1
  <2> QED
    BY <2>1, <2>2, <2>3, <2>4
<1> HIDE DEF G, D
<1>4. ASSUME NEW i \in DOMAIN G
      PROVE  i \in DOMAIN g /\ G[i] = g[i] /\ D[Len(D) - Len(G) + i] = d[Len(d) - Len(g) + i]
  <2>1. Len(D) - Len(G) + i = Len(d) - Len(g) + i /\ Len(d) - Len(g) + i \in 1 .. Len(d) - 1
    BY <1>1, <1>3
  <2> QED
    BY <1>1, <1>3, <2>1
<1>5. Len(g) \in DOMAIN g /\ Len(d) - Len(g) + Len(g) = Len(d)
  BY <1>1
<1>6. SameTop(g, d) => SameTop(G, D)
  BY <1>1, <1>3, <1>4 DEF SameTop
<1>7. EndsLike(g, d) => EndsLike(G, D)
  BY <1>1, <1>3, <1>4 DEF EndsLike
<1>8. SameTop(g, d) => /\ Last(g).rotation = Last(d).rotation
                       /\ (Len(g) > 1 \/ ~Last(g).rotation) => Last(g) = Last(d)
  BY <1>1, <1>5 DEF SameTop
<1>9. EndsLike(g, d) => Last(g) = Last(d)
  BY <1>1, <1>5 DEF EndsLike
<1> QED
  BY <1>3, <1>6, <1>7, <1>8, <1>9 DEF G, D

\* The oldest entries are forgotten when the stack is full.
LEMMA TopKept ==
  ASSUME NEW g \in Seq(Entries), NEW d \in Seq(Entries), SameTop(g, d)
  PROVE  SameTop(IF Len(g) >= UndoLimit THEN Tail(g) ELSE g, IF Len(d) >= UndoLimit THEN Tail(d) ELSE d)
<1>1. /\ Len(g) \in Nat /\ DOMAIN g = 1 .. Len(g) /\ Len(d) \in Nat /\ DOMAIN d = 1 .. Len(d)
      /\ UndoLimit \in Nat /\ UndoLimit > 0 /\ Len(g) <= Len(d)
  BY LenProperties, UndoLimitAssumption DEF SameTop
<1>2. ASSUME NEW s \in Seq(Entries), Len(s) > 0
      PROVE  Len(Tail(s)) = Len(s) - 1 /\ DOMAIN Tail(s) = 1 .. Len(s) - 1 /\ \A i \in 1 .. Len(s) - 1 : Tail(s)[i] = s[i + 1]
  <2>1. s # <<>>
    BY <1>2, EmptySeq
  <2> QED
    BY <2>1, TailIndex
<1>3. CASE Len(g) >= UndoLimit
  <2> DEFINE G == Tail(g)
             D == Tail(d)
  <2>1. /\ Len(G) = Len(g) - 1 /\ DOMAIN G = 1 .. Len(g) - 1 /\ \A i \in 1 .. Len(g) - 1 : G[i] = g[i + 1]
        /\ Len(D) = Len(d) - 1 /\ \A i \in 1 .. Len(d) - 1 : D[i] = d[i + 1]
    BY <1>1, <1>2, <1>3
  <2> HIDE DEF G, D
  <2>2. ASSUME NEW i \in DOMAIN G
        PROVE  G[i] = D[Len(D) - Len(G) + i]
    <3>1. /\ i + 1 \in DOMAIN g /\ i + 1 > 1 /\ G[i] = g[i + 1]
          /\ Len(D) - Len(G) + i \in 1 .. Len(d) - 1 /\ (Len(D) - Len(G) + i) + 1 = Len(d) - Len(g) + (i + 1)
      BY <1>1, <2>1
    <3>2. g[i + 1] = d[Len(d) - Len(g) + (i + 1)]
      BY <3>1 DEF SameTop
    <3> QED
      BY <2>1, <3>1, <3>2
  <2>3. SameTop(G, D)
    BY <1>1, <2>1, <2>2 DEF SameTop
  <2> QED
    BY <1>1, <1>3, <2>3 DEF G, D
<1>4. CASE Len(g) < UndoLimit /\ Len(d) >= UndoLimit
  <2> DEFINE D == Tail(d)
  <2>1. Len(D) = Len(d) - 1 /\ \A i \in 1 .. Len(d) - 1 : D[i] = d[i + 1]
    BY <1>1, <1>2, <1>4
  <2> HIDE DEF D
  <2>2. ASSUME NEW i \in DOMAIN g
        PROVE  D[Len(D) - Len(g) + i] = d[Len(d) - Len(g) + i]
    <3>1. Len(D) - Len(g) + i \in 1 .. Len(d) - 1 /\ (Len(D) - Len(g) + i) + 1 = Len(d) - Len(g) + i
      BY <1>1, <1>4, <2>1
    <3> QED
      BY <2>1, <3>1
  <2>3. ASSUME NEW i \in DOMAIN g
        PROVE  /\ g[i].rotation = D[Len(D) - Len(g) + i].rotation
               /\ (i > 1 \/ ~g[i].rotation) => g[i] = D[Len(D) - Len(g) + i]
    <3>1. /\ g[i].rotation = d[Len(d) - Len(g) + i].rotation
          /\ (i > 1 \/ ~g[i].rotation) => g[i] = d[Len(d) - Len(g) + i]
      BY DEF SameTop
    <3> QED
      BY <2>2, <3>1
  <2>4. Len(g) <= Len(D)
    BY <1>1, <1>4, <2>1
  <2>5. SameTop(g, D)
    BY <1>1, <2>1, <2>3, <2>4 DEF SameTop
  <2> QED
    BY <1>1, <1>4, <2>5 DEF D
<1>5. CASE Len(g) < UndoLimit /\ Len(d) < UndoLimit
  BY <1>1, <1>5
<1> QED
  BY <1>1, <1>3, <1>4, <1>5

\* A change joins the last entries of both.
LEMMA TopJoined ==
  ASSUME NEW g \in Seq(Entries), NEW d \in Seq(Entries), SameTop(g, d), NEW e \in Entries, NEW f \in Entries,
         e.rotation = f.rotation, (Len(g) > 0 \/ ~e.rotation) => e = f
  PROVE  SameTop(Append(g, e), Append(d, f))
<1> DEFINE G == Append(g, e)
           D == Append(d, f)
<1>1. /\ Len(g) \in Nat /\ DOMAIN g = 1 .. Len(g) /\ Len(G) = Len(g) + 1 /\ DOMAIN G = 1 .. Len(g) + 1
      /\ G[Len(g) + 1] = e /\ \A i \in 1 .. Len(g) : G[i] = g[i]
      /\ Len(d) \in Nat /\ Len(D) = Len(d) + 1 /\ Len(g) <= Len(d)
      /\ D[Len(d) + 1] = f /\ \A i \in 1 .. Len(d) : D[i] = d[i]
  BY AppendProperties, LenProperties DEF SameTop
<1> HIDE DEF G, D
<1>2. ASSUME NEW i \in DOMAIN G
      PROVE  /\ G[i].rotation = D[Len(D) - Len(G) + i].rotation
             /\ (i > 1 \/ ~G[i].rotation) => G[i] = D[Len(D) - Len(G) + i]
  <2>1. Len(D) - Len(G) + i = Len(d) - Len(g) + i
    BY <1>1
  <2>2. CASE i \in DOMAIN g
    <3>1. Len(d) - Len(g) + i \in 1 .. Len(d)
      BY <1>1, <2>2
    <3>2. G[i] = g[i] /\ D[Len(D) - Len(G) + i] = d[Len(d) - Len(g) + i]
      BY <1>1, <2>1, <2>2, <3>1
    <3>3. /\ g[i].rotation = d[Len(d) - Len(g) + i].rotation
          /\ (i > 1 \/ ~g[i].rotation) => g[i] = d[Len(d) - Len(g) + i]
      BY <2>2 DEF SameTop
    <3> QED
      BY <3>2, <3>3
  <2>3. CASE i \notin DOMAIN g
    <3>1. i = Len(g) + 1 /\ (i > 1 => Len(g) > 0)
      <4>1. Len(g) \in Nat /\ i \in 1 .. Len(g) + 1 /\ i \notin 1 .. Len(g)
        BY <1>1, <2>3
      <4> QED
        BY <4>1
    <3>2. Len(D) - Len(G) + i = Len(d) + 1
      <4>1. Len(g) \in Nat /\ Len(d) \in Nat
        BY <1>1
      <4> QED
        BY <2>1, <3>1, <4>1
    <3>3. G[i] = e /\ D[Len(d) + 1] = f
      BY <1>1, <3>1
    <3> QED
      BY <3>1, <3>2, <3>3
  <2> QED
    BY <2>2, <2>3
<1>3. SameTop(G, D)
  BY <1>1, <1>2 DEF SameTop
<1> QED
  BY <1>3 DEF G, D

\* Nothing is the top of anything; everything is the top of itself.
LEMMA EchoesClear ==
  ASSUME NEW h \in Histories
  PROVE  /\ Echoes(Cleared(h.table), h)
         /\ Echoes(h, h)
<1>1. h.undo \in Seq(Entries) /\ h.redo \in Seq(Entries) /\ Len(h.undo) \in Nat /\ Len(h.redo) \in Nat
  BY HistoryFields, LenProperties
<1>2. ASSUME NEW s \in Seq(Entries)
      PROVE  SameTop(<<>>, s) /\ EndsLike(<<>>, s) /\ SameTop(s, s) /\ EndsLike(s, s)
  <2>1. Len(s) \in Nat /\ \A i \in DOMAIN s : i \in Int /\ Len(s) - Len(s) + i = i
    BY LenProperties
  <2>2. Len(<<>>) = 0 /\ DOMAIN <<>> = {}
    OBVIOUS
  <2>3. SameTop(<<>>, s) /\ EndsLike(<<>>, s)
    BY <2>1, <2>2 DEF SameTop, EndsLike
  <2>4. SameTop(s, s) /\ EndsLike(s, s)
    BY <2>1 DEF SameTop, EndsLike
  <2> QED
    BY <2>3, <2>4
<1> QED
  BY <1>1, <1>2 DEF Echoes, Cleared

\* Echoes, part by part.
LEMMA EchoesMade ==
  ASSUME NEW t, NEW u, NEW v, SameTop(u, v), NEW r, NEW w, EndsLike(r, w)
  PROVE  Echoes([table |-> t, undo |-> u, redo |-> r], [table |-> t, undo |-> v, redo |-> w])
BY DEF Echoes

\* A program and a newcomer execute the same change...
LEMMA DoneEchoes ==
  ASSUME NEW g \in Histories, NEW d \in Histories, Echoes(g, d), NEW k \in 1 .. MaxRequests, NEW r \in BOOLEAN
  PROVE  Echoes(Done(g, k, r), Done(d, k, r))
<1>1. /\ g.undo \in Seq(Entries) /\ d.undo \in Seq(Entries)
      /\ g.table = d.table /\ SameTop(g.undo, d.undo)
      /\ \A e \in Entries : e.changes \in Changes /\ e.rotation \in BOOLEAN
  BY HistoryFields DEF Echoes
<1> DEFINE grown(h) == [Last(h.undo) EXCEPT !.changes = Append(@, k)]
           fresh == [changes |-> <<k>>, rotation |-> r]
           kept(h) == IF Len(h.undo) >= UndoLimit THEN Tail(h.undo) ELSE h.undo
           joined(h) == Append(Front(h.undo), grown(h))
           stack(h) == IF Aggregates(h, r) THEN joined(h) ELSE Append(kept(h), fresh)
<1>2. \A h : Done(h, k, r) = [table |-> Append(h.table, k), undo |-> stack(h), redo |-> <<>>]
  BY DEF Done
<1>3. fresh \in Entries /\ fresh.rotation = r
  <2>1. <<k>> \in Changes
    BY DEF Changes
  <2> QED
    BY <2>1, HistoryMade
\* An entry that is joined keeps its kind.
<1>4. ASSUME NEW h \in Histories, h.undo # <<>>
      PROVE  /\ Front(h.undo) \in Seq(Entries) /\ Last(h.undo) \in Entries
             /\ grown(h) \in Entries /\ grown(h).rotation = Last(h.undo).rotation
  <2>1. Front(h.undo) \in Seq(Entries) /\ Last(h.undo) \in Entries
    BY <1>4, FrontType, HistoryFields
  <2>2. Append(Last(h.undo).changes, k) \in Changes
    BY <1>1, <2>1, AppendProperties DEF Changes
  <2>3. grown(h) \in Entries /\ grown(h).rotation = Last(h.undo).rotation
    BY <2>1, <2>2 DEF Entries
  <2> QED
    BY <2>1, <2>3
<1>5. kept(g) \in Seq(Entries) /\ kept(d) \in Seq(Entries)
  <2>1. ASSUME NEW s \in Seq(Entries)
        PROVE  (IF Len(s) >= UndoLimit THEN Tail(s) ELSE s) \in Seq(Entries)
    <3>1. CASE Len(s) >= UndoLimit
      <4>1. s # <<>>
        BY <3>1, UndoLimitAssumption, EmptySeq
      <4> QED
        BY <3>1, <4>1, HeadTailProperties
    <3> QED
      BY <3>1
  <2> QED
    BY <1>1, <2>1
<1> HIDE DEF grown, fresh, kept
<1>6. SameTop(stack(g), stack(d))
  <2>1. g.undo # <<>> => /\ d.undo # <<>> /\ SameTop(Front(g.undo), Front(d.undo))
                         /\ Last(g.undo).rotation = Last(d.undo).rotation
                         /\ (Len(g.undo) > 1 \/ ~Last(g.undo).rotation) => Last(g.undo) = Last(d.undo)
    BY <1>1, TopFront
  <2>2. CASE Aggregates(g, r)
    <3>1. /\ g.undo # <<>> /\ d.undo # <<>> /\ Aggregates(d, r)
          /\ Last(g.undo).rotation /\ Last(d.undo).rotation
      BY <2>1, <2>2 DEF Aggregates
    <3>2. Len(Front(g.undo)) > 0 => Len(g.undo) > 1
      <4>1. Len(g.undo) \in Nat /\ Len(g.undo) > 0
        BY <1>1, <3>1, LenProperties, EmptySeq
      <4>2. Len(Front(g.undo)) = Len(g.undo) - 1
        BY <1>1, <4>1, FrontLength
      <4> QED
        BY <4>1, <4>2
    <3>3. /\ grown(g).rotation = grown(d).rotation
          /\ (Len(Front(g.undo)) > 0 \/ ~grown(g).rotation) => grown(g) = grown(d)
      <4>1. grown(g).rotation = Last(g.undo).rotation /\ grown(d).rotation = Last(d.undo).rotation
        BY <1>4, <3>1
      <4>2. Last(g.undo) = Last(d.undo) => grown(g) = grown(d)
        BY DEF grown
      <4> QED
        BY <2>1, <3>1, <3>2, <4>1, <4>2
    <3>4. /\ Front(g.undo) \in Seq(Entries) /\ Front(d.undo) \in Seq(Entries)
          /\ grown(g) \in Entries /\ grown(d) \in Entries
          /\ SameTop(Front(g.undo), Front(d.undo))
      BY <1>4, <2>1, <3>1
    <3>5. SameTop(joined(g), joined(d))
      BY <3>3, <3>4, TopJoined
    <3> QED
      BY <2>2, <3>1, <3>5
  <2>3. CASE ~Aggregates(g, r) /\ Aggregates(d, r)
    <3>1. /\ g.undo = <<>> /\ d.undo # <<>> /\ r /\ Last(d.undo).rotation
      BY <2>1, <2>3 DEF Aggregates
    <3>2. kept(g) = <<>>
      <4>1. ~(0 >= UndoLimit) /\ Len(<<>>) = 0
        BY UndoLimitAssumption
      <4> QED
        BY <3>1, <4>1 DEF kept
    <3>3. /\ Front(d.undo) \in Seq(Entries) /\ grown(d) \in Entries
          /\ grown(d).rotation /\ fresh.rotation /\ fresh \in Entries
      BY <1>3, <1>4, <3>1
    <3>4. SameTop(<<>>, Front(d.undo)) /\ <<>> \in Seq(Entries) /\ ~(Len(<<>>) > 0)
      BY <3>3, LenProperties DEF SameTop
    <3>5. SameTop(Append(<<>>, fresh), joined(d))
      <4>1. fresh.rotation = grown(d).rotation
        <5>1. grown(d).rotation \in BOOLEAN /\ fresh.rotation \in BOOLEAN
          BY <1>1, <3>3
        <5> QED
          BY <3>3, <5>1
      <4>2. (Len(<<>>) > 0 \/ ~fresh.rotation) => fresh = grown(d)
        BY <3>3, <3>4
      <4> QED
        BY <3>3, <3>4, <4>1, <4>2, TopJoined
    <3> QED
      BY <2>3, <3>2, <3>5
  <2>4. CASE ~Aggregates(g, r) /\ ~Aggregates(d, r)
    <3>1. SameTop(kept(g), kept(d))
      BY <1>1, TopKept DEF kept
    <3>2. SameTop(Append(kept(g), fresh), Append(kept(d), fresh))
      BY <1>3, <1>5, <3>1, TopAppend
    <3> QED
      BY <2>4, <3>2
  <2>5. Aggregates(g, r) => Aggregates(d, r)
    BY <2>1 DEF Aggregates
  <2> QED
    BY <2>2, <2>3, <2>4
<1>7. EndsLike(<<>>, <<>>)
  BY DEF EndsLike
<1> HIDE DEF stack
<1>8. Echoes([table |-> Append(g.table, k), undo |-> stack(g), redo |-> <<>>],
             [table |-> Append(g.table, k), undo |-> stack(d), redo |-> <<>>])
  BY <1>6, <1>7, EchoesMade
<1> QED
  BY <1>1, <1>2, <1>8

\* A request that the newcomer's short stacks cannot follow.
Short(h, req) ==
  \/ req.kind = "undo" /\ h.undo = <<>>
  \/ req.kind = "undo" /\ Len(h.undo) = 1 /\ h.undo[1].rotation
  \/ req.kind = "redo" /\ h.redo = <<>>

\* ... undo the same change, or redo it.
LEMMA UndoneEchoes ==
  ASSUME NEW g \in Histories, NEW d \in Histories, Echoes(g, d), g.undo # <<>>, ~(Len(g.undo) = 1 /\ g.undo[1].rotation)
  PROVE  Echoes(Undone(g), Undone(d))
<1>1. /\ g.undo \in Seq(Entries) /\ d.undo \in Seq(Entries) /\ g.redo \in Seq(Entries) /\ d.redo \in Seq(Entries)
      /\ g.table = d.table /\ SameTop(g.undo, d.undo) /\ EndsLike(g.redo, d.redo)
  BY HistoryFields DEF Echoes
<1>2. /\ d.undo # <<>> /\ SameTop(Front(g.undo), Front(d.undo))
      /\ (Len(g.undo) > 1 \/ ~Last(g.undo).rotation) => Last(g.undo) = Last(d.undo)
  BY <1>1, TopFront
<1>3. Last(g.undo) = Last(d.undo) /\ Last(g.undo) \in Entries
  <2>1. Last(g.undo) = g.undo[Len(g.undo)]
    BY DEF Last
  <2>2. Len(g.undo) = 1 \/ Len(g.undo) > 1
    <3> DEFINE n == Len(g.undo)
    <3>1. n \in Nat /\ n > 0
      BY <1>1, LenProperties, EmptySeq
    <3> HIDE DEF n
    <3>2. n = 1 \/ n > 1
      BY <3>1
    <3> QED
      BY <3>2 DEF n
  <2> QED
    BY <1>1, <1>2, <2>1, <2>2, FrontType
<1>4. EndsLike(Append(g.redo, Last(g.undo)), Append(d.redo, Last(g.undo)))
  BY <1>1, <1>3, TopAppend
<1>5. /\ Undone(g) = [table |-> SubSeq(g.table, 1, Len(g.table) - Len(Last(g.undo).changes)),
                      undo |-> Front(g.undo), redo |-> Append(g.redo, Last(g.undo))]
      /\ Undone(d) = [table |-> SubSeq(d.table, 1, Len(d.table) - Len(Last(d.undo).changes)),
                      undo |-> Front(d.undo), redo |-> Append(d.redo, Last(d.undo))]
  BY <1>2 DEF Undone
<1>6. Len(Last(g.undo).changes) = Len(Last(d.undo).changes) /\ Len(g.table) = Len(d.table)
  BY <1>1, <1>3
<1> DEFINE left == SubSeq(g.table, 1, Len(g.table) - Len(Last(g.undo).changes))
<1>7. Echoes([table |-> left, undo |-> Front(g.undo), redo |-> Append(g.redo, Last(g.undo))],
             [table |-> left, undo |-> Front(d.undo), redo |-> Append(d.redo, Last(g.undo))])
  <2> HIDE DEF left
  <2> QED
    BY <1>2, <1>4, EchoesMade
<1> QED
  BY <1>1, <1>3, <1>5, <1>6, <1>7

\* See UndoneEchoes.
LEMMA RedoneEchoes ==
  ASSUME NEW g \in Histories, NEW d \in Histories, Echoes(g, d), g.redo # <<>>
  PROVE  Echoes(Redone(g), Redone(d))
<1>1. /\ g.undo \in Seq(Entries) /\ d.undo \in Seq(Entries) /\ g.redo \in Seq(Entries) /\ d.redo \in Seq(Entries)
      /\ g.table = d.table /\ SameTop(g.undo, d.undo) /\ EndsLike(g.redo, d.redo)
  BY HistoryFields DEF Echoes
<1>2. d.redo # <<>> /\ EndsLike(Front(g.redo), Front(d.redo)) /\ Last(g.redo) = Last(d.redo)
  BY <1>1, TopFront
<1>3. Last(g.redo) \in Entries
  BY <1>1, FrontType
<1>4. SameTop(Append(g.undo, Last(g.redo)), Append(d.undo, Last(g.redo)))
  BY <1>1, <1>3, TopAppend
<1>5. /\ Redone(g) = [table |-> g.table \o Last(g.redo).changes,
                      undo |-> Append(g.undo, Last(g.redo)), redo |-> Front(g.redo)]
      /\ Redone(d) = [table |-> d.table \o Last(d.redo).changes,
                      undo |-> Append(d.undo, Last(d.redo)), redo |-> Front(d.redo)]
  BY <1>2 DEF Redone
<1> DEFINE t == g.table \o Last(g.redo).changes
<1>6. Echoes([table |-> t, undo |-> Append(g.undo, Last(g.redo)), redo |-> Front(g.redo)],
             [table |-> t, undo |-> Append(d.undo, Last(g.redo)), redo |-> Front(d.redo)])
  <2> HIDE DEF t
  <2> QED
    BY <1>2, <1>4, EchoesMade
<1> QED
  BY <1>1, <1>2, <1>5, <1>6

\* In short: whatever is broadcast, unless a stack is too short.
LEMMA EchoesAfter ==
  ASSUME NEW g \in Histories, NEW d \in Histories, Echoes(g, d), NEW b \in Bodies,
         b.type = "ChangeAccepted" => ~Short(g, b.req)
  PROVE  Echoes(After(g, b), After(d, b))
<1>1. /\ b.type = "ChangeAccepted" => b.req \in Requests
      /\ b.type \in {"ShuffleResult", "GameLoaded", "GameBoxHasChanged"} => b.change \in 1 .. MaxRequests
  BY BodyFields
<1>2. CASE b.type = "ChangeAccepted"
  <2> DEFINE req == b.req
  <2>1. req.kind \in AllKinds /\ req.id \in 1 .. MaxRequests /\ (req.kind = "rotate") \in BOOLEAN
    BY <1>1, <1>2 DEF Requests
  <2> HIDE DEF req
  <2>2. CASE req.kind \in {"do", "rotate"}
    <3>1. Applied(g, req) = Done(g, req.id, req.kind = "rotate") /\ Applied(d, req) = Done(d, req.id, req.kind = "rotate")
      BY <2>2 DEF Applied
    <3>2. Echoes(Done(g, req.id, req.kind = "rotate"), Done(d, req.id, req.kind = "rotate"))
      BY <2>1, DoneEchoes
    <3>3. After(g, b) = Applied(g, req) /\ After(d, b) = Applied(d, req)
      BY <1>2, AfterChange DEF req
    <3> QED
      BY <3>1, <3>2, <3>3
  <2>3. CASE req.kind = "undo"
    <3>1. Applied(g, req) = Undone(g) /\ Applied(d, req) = Undone(d)
      BY <2>3 DEF Applied
    <3>2. Echoes(Undone(g), Undone(d))
      BY <1>2, <2>3, UndoneEchoes DEF Short, req
    <3> QED
      BY <1>2, <3>1, <3>2, AfterChange DEF req
  <2>4. CASE req.kind = "redo"
    <3>1. Applied(g, req) = Redone(g) /\ Applied(d, req) = Redone(d)
      BY <2>4 DEF Applied
    <3>2. Echoes(Redone(g), Redone(d))
      BY <1>2, <2>4, RedoneEchoes DEF Short, req
    <3> QED
      BY <1>2, <3>1, <3>2, AfterChange DEF req
  <2>5. CASE req.kind = "shuffle"
    <3>1. Applied(g, req) = g /\ Applied(d, req) = d
      BY <2>5 DEF Applied
    <3> QED
      BY <1>2, <3>1, AfterChange DEF req
  <2> QED
    BY <2>1, <2>2, <2>3, <2>4, <2>5 DEF AllKinds
<1>3. CASE b.type = "ShuffleResult"
  <2>1. Echoes(Done(g, b.change, FALSE), Done(d, b.change, FALSE))
    BY <1>1, <1>3, DoneEchoes
  <2> QED
    BY <1>3, <2>1, AfterChange
<1>4. CASE b.type \in {"GameLoaded", "GameBoxHasChanged"}
  <2>1. After(g, b) = After(d, b) /\ After(g, b) \in Histories
    BY <1>4, AfterChange, AfterType
  <2> QED
    BY <2>1, EchoesClear
<1>5. CASE b.type = "PlayerHasJoined"
  <2>1. After(g, b) = After(d, b) /\ After(g, b) \in Histories
    BY <1>5, AfterChange, AfterType DEF ClearUndo, Echoes
  <2> QED
    BY <2>1, EchoesClear
<1>6. CASE b.type \notin StateChanges \cup {"PlayerHasJoined"}
  BY <1>6, AfterPlain
<1> QED
  BY <1>2, <1>3, <1>4, <1>5, <1>6 DEF StateChanges

-----------------------------------------------------------------------------
(* Who follows the game is in step.                                        *)

\* Is a game that the host has loaded in this channel?
Loads(s) == \E i \in DOMAIN s : s[i].body.type = "GameLoaded"

\* It is there from when it is sent until it is taken.
LEMMA LoadsKept ==
  ASSUME NEW S, NEW s \in Seq(S)
  PROVE  /\ s # <<>> => (Loads(s) <=> Head(s).body.type = "GameLoaded" \/ Loads(Tail(s)))
         /\ \A e \in S : Loads(Append(s, e)) <=> (Loads(s) \/ e.body.type = "GameLoaded")
<1>1. ASSUME s # <<>>
      PROVE  Loads(s) <=> Head(s).body.type = "GameLoaded" \/ Loads(Tail(s))
  <2> DEFINE t == Tail(s)
  <2>1. /\ Len(s) \in Nat /\ Len(s) > 0 /\ DOMAIN s = 1 .. Len(s) /\ Head(s) = s[1] /\ DOMAIN t = 1 .. Len(s) - 1
        /\ \A j \in DOMAIN t : j + 1 \in DOMAIN s /\ t[j] = s[j + 1]
    BY <1>1, TailIndex
  <2> HIDE DEF t
  <2>2. 1 \in DOMAIN s /\ \A i \in DOMAIN s : i # 1 => \E j \in DOMAIN t : t[j] = s[i]
    <3>1. ASSUME NEW i \in DOMAIN s, i # 1
          PROVE  i - 1 \in DOMAIN t /\ t[i - 1] = s[i]
      <4>1. i - 1 \in DOMAIN t /\ i - 1 + 1 = i
        BY <2>1, <3>1
      <4> QED
        BY <2>1, <4>1
    <3> QED
      BY <2>1, <3>1
  <2>3. Loads(t) \/ s[1].body.type = "GameLoaded" => Loads(s)
    BY <2>1, <2>2 DEF Loads
  <2>4. Loads(s) => s[1].body.type = "GameLoaded" \/ Loads(t)
    <3> SUFFICES ASSUME NEW i \in DOMAIN s, s[i].body.type = "GameLoaded", i # 1
                 PROVE  Loads(t)
      BY DEF Loads
    <3> QED
      BY <2>2 DEF Loads
  <2> QED
    BY <2>1, <2>3, <2>4 DEF t
<1>2. ASSUME NEW e \in S
      PROVE  Loads(Append(s, e)) <=> (Loads(s) \/ e.body.type = "GameLoaded")
  <2> DEFINE t == Append(s, e)
  <2>1. /\ Len(s) \in Nat /\ DOMAIN s = 1 .. Len(s) /\ DOMAIN t = 1 .. Len(s) + 1 /\ t[Len(s) + 1] = e
        /\ \A i \in 1 .. Len(s) : t[i] = s[i]
    BY AppendProperties, LenProperties
  <2> HIDE DEF t
  <2>2. /\ Len(s) + 1 \in DOMAIN t /\ \A i \in DOMAIN s : i \in DOMAIN t /\ t[i] = s[i]
        /\ \A i \in DOMAIN t : (i \in DOMAIN s /\ t[i] = s[i]) \/ t[i] = e
    BY <2>1
  <2>3. e.body.type = "GameLoaded" => Loads(t)
    BY <2>1, <2>2 DEF Loads
  <2>4. Loads(s) => Loads(t)
    BY <2>2 DEF Loads
  <2>5. Loads(t) => Loads(s) \/ e.body.type = "GameLoaded"
    <3> SUFFICES ASSUME NEW i \in DOMAIN t, t[i].body.type = "GameLoaded"
                 PROVE  Loads(s) \/ e.body.type = "GameLoaded"
      BY DEF Loads
    <3> QED
      BY <2>2 DEF Loads
  <2> QED
    BY <2>3, <2>4, <2>5 DEF t
<1> QED
  BY <1>1, <1>2

\* What the server reads of it in one channel it writes to the other.
LEMMA RelayingLoads ==
  ASSUME TypeOK, Apart, Present, NEW c \in Client, Relaying(c), Here(Host)
  PROVE  Loading' <=> Loading
<1> USE HostAssumption
<1> DEFINE first == c = Host /\ Head(up[c]).body.type = "GameLoaded"
<1>0. /\ up \in [Client -> Seq(UpPackets)] /\ down \in [Client -> Seq(DownPackets)]
      /\ relayed \in Nat
  BY DEF TypeOK, ChannelsOK
<1>1. up[c] # <<>> /\ up' = [up EXCEPT ![c] = Tail(@)] /\ Head(up[c]) \in Sent(c)
  BY RelayedHead
<1>2. Head(up[c]).body.type = "GameLoaded" => c = Host
  BY <1>1 DEF Sent, Sendable, StateChanges
<1>3. Loads(up[Host]) <=> Loads(up'[Host]) \/ first
  <2>1. CASE c # Host
    BY <1>0, <1>1, <2>1
  <2>2. CASE c = Host
    <3>1. up[Host] # <<>> /\ up'[Host] = Tail(up[Host]) /\ up[Host] \in Seq(UpPackets)
      BY <1>0, <1>1, <2>2
    <3> QED
      BY <2>2, <3>1, LoadsKept
  <2> QED
    BY <2>1, <2>2
<1>4. Loads(down'[Host]) <=> Loads(down[Host]) \/ first
  <2>1. ASSUME NEW e \in DownPackets, down'[Host] = Append(down[Host], e), e.body.type = "GameLoaded" <=> first
        PROVE  Loads(down'[Host]) <=> Loads(down[Host]) \/ first
    BY <1>0, <2>1, LoadsKept
  <2>2. ASSUME NEW from \in Client, NEW n \in Nat, NEW body \in Bodies,
               down'[Host] = Append(down[Host], [from |-> from, n |-> n, body |-> body]),
               body.type = "GameLoaded" <=> first
        PROVE  Loads(down'[Host]) <=> Loads(down[Host]) \/ first
    <3> DEFINE e == [from |-> from, n |-> n, body |-> body]
    <3>1. e \in DownPackets /\ e.body = body /\ down'[Host] = Append(down[Host], e)
      BY <2>2 DEF DownPackets
    <3> HIDE DEF e
    <3> QED
      BY <2>1, <2>2, <3>1
  <2>3. CASE PassesOn(c, Host)
    <3>1. ~first
      BY <2>3 DEF PassesOn, StateChanges
    <3>2. CASE down'[Host] = down[Host]
      BY <3>1, <3>2
    <3>3. CASE down'[Host] # down[Host]
      <4>1. PICK from \in Client, body \in Bodies :
              /\ down'[Host] = Append(down[Host], [from |-> from, n |-> 0, body |-> body])
              /\ body.type \notin StateChanges
        BY <2>3, <3>3 DEF PassesOn
      <4>2. body.type # "GameLoaded"
        BY <4>1 DEF StateChanges
      <4> QED
        BY <2>2, <3>1, <4>1, <4>2
    <3> QED
      BY <3>2, <3>3
  <2>4. CASE Broadcasts(c, Host)
    <3>1. PICK from \in Client, body \in Bodies :
            /\ down'[Host] = Append(down[Host], [from |-> from, n |-> relayed + 1, body |-> body])
            /\ body = Head(up[c]).body \/ (body.type = "PlayerHasLeft" /\ Head(up[c]).body.type = "Disconnect")
      BY <2>4 DEF Broadcasts
    <3>2. body.type = "GameLoaded" <=> first
      BY <1>2, <3>1
    <3>3. relayed + 1 \in Nat
      BY <1>0
    <3> QED
      BY <2>2, <3>1, <3>2, <3>3
  <2> QED
    BY <2>3, <2>4, Relayed
<1> QED
  BY <1>3, <1>4 DEF Loading, Loads

\* A newcomer's request is no game.
LEMMA ConnectLoads ==
  ASSUME TypeOK, NEW c \in Client, Connect(c)
  PROVE  Loading' <=> Loading
<1> USE HostAssumption
<1> DEFINE e == [from |-> c, n |-> 0, body |-> [type |-> "PlayerWantsToJoin"]]
<1>1. down \in [Client -> Seq(DownPackets)]
  BY DEF TypeOK, ChannelsOK
<1>2. up' = up /\ (down'[Host] = down[Host] \/ down'[Host] = Append(down[Host], e))
  BY <1>1 DEF Connect, OnPlayerConnected, Deliver
<1>3. e \in DownPackets /\ e.body.type # "GameLoaded"
  BY BodyMade DEF DownPackets
<1> HIDE DEF e
<1>4. CASE down'[Host] = down[Host]
  BY <1>2, <1>4 DEF Loading
<1>5. CASE down'[Host] = Append(down[Host], e)
  <2>1. down[Host] \in Seq(DownPackets)
    BY <1>1
  <2>2. Loads(down'[Host]) <=> Loads(down[Host])
    BY <1>3, <1>5, <2>1, LoadsKept
  <2> QED
    BY <1>2, <2>2 DEF Loading, Loads
<1> QED
  BY <1>2, <1>4, <1>5

\* The server changes nobody's table; the host's game is on its way until he handles it.
LEMMA RelayingInStep ==
  ASSUME TypeOK, Apart, Present, Decided, Streams, InStep, NEW c \in Client, Relaying(c), Decides(c)
  PROVE  InStep'
<1> USE HostAssumption
<1>0. /\ up \in [Client -> Seq(UpPackets)] /\ down \in [Client -> Seq(DownPackets)]
      /\ relayed \in Nat /\ pos \in [Client -> Nat]
      /\ decided \in Seq(Histories) /\ Len(decided) = relayed + 1
  BY DEF TypeOK, ChannelsOK, ObserversOK, Decided
<1>1. status' = status /\ history' = history /\ suspect' = suspect /\ pos' = pos
  BY DEF Relaying, observers
<1>3. \A k \in 1 .. relayed + 1 : decided'[k] = decided[k]
  <2>1. ASSUME NEW h \in Histories, decided' = Append(decided, h)
        PROVE  \A k \in 1 .. relayed + 1 : decided'[k] = decided[k]
    BY <1>0, <2>1, AppendProperties
  <2> QED
    BY <2>1, Deciding
<1>4. Here(Host) /\ Loading => Loading'
  BY RelayingLoads
<1>5. ASSUME NEW d \in Client, Follows(d)'
      PROVE  InStepWith(d, decided'[pos[d] + 1])
  <2>1. Following(d) /\ Here(d)
    BY <1>1, <1>5 DEF Follows, Following, Here, Connected
  <2>2. Follows(d)
    BY <1>4, <1>5, <2>1 DEF Follows
  <2>3. InStepWith(d, decided[pos[d] + 1])
    BY <2>2 DEF InStep
  <2>4. pos[d] \in Nat /\ pos[d] <= relayed
    BY <1>0, <2>1 DEF Streams, Stream, Numbered
  <2>5. decided'[pos[d] + 1] = decided[pos[d] + 1]
    BY <1>0, <1>3, <2>4
  <2> QED
    BY <2>3, <2>5
<1> QED
  BY <1>1, <1>5 DEF InStep, InStepWith

\* A program's step leaves the others in step.  Who handles a packet comes to the next
\* state decided; what he cannot follow makes him suspect.
LEMMA HearsInStep ==
  ASSUME TypeOK, TypeOK', Apart, Present, Decided, Streams, LoadingApart, InStep,
         NEW c \in Client, Moves(c), Hears(c), Follows(c)',
         NEW h \in Histories, h = After(decided[pos[c] + 1], Body(c))
  PROVE  InStepWith(c, h)'
<1> USE HostAssumption
<1> DEFINE b == Body(c)
           D == decided[pos[c] + 1]
           g == history[c]
<1>0. /\ down \in [Client -> Seq(DownPackets)] /\ up \in [Client -> Seq(UpPackets)]
      /\ history \in [Client -> Histories] /\ status \in [Client -> Connected \cup {"out"}]
      /\ pos \in [Client -> Nat] /\ decided \in Seq(Histories) /\ Len(decided) = relayed + 1 /\ relayed \in Nat
  BY DEF TypeOK, ChannelsOK, TablesOK, NumbersOK, ObserversOK, Decided
<1>1. /\ Here(c) /\ (c = Host => status'[c] = "in" /\ status[c] = "in")
      /\ status'[c] \in {"welcomed", "in"} /\ c \notin suspect'
  BY DEF Moves, Follows, Following, Present, Here, Connected
<1>2. /\ down[c] # <<>> /\ down'[c] = Tail(down[c]) /\ Head(down[c]) \in DownPackets /\ b \in Bodies
      /\ Head(down[c]) = down[c][1] /\ 1 \in DOMAIN down[c]
  <2>1. down[c] # <<>> /\ down'[c] = Tail(down[c])
    BY <1>0 DEF Hears, Takes
  <2>2. Head(down[c]) \in DownPackets /\ Head(down[c]) = down[c][1] /\ 1 \in DOMAIN down[c]
    BY <1>0, <2>1, TailIndex, ElementOfSeq
  <2> QED
    BY <2>1, <2>2 DEF DownPackets, Body
<1>3. D \in Histories /\ g \in Histories
  <2>1. pos[c] \in Nat /\ pos[c] <= relayed
    BY <1>0, <1>1 DEF Streams, Stream, Numbered
  <2> QED
    BY <1>0, <2>1, ElementOfSeq
<1>4. /\ history'[c] = IF c = Host /\ b.type = "GameLoaded" THEN g ELSE After(g, b)
      /\ \/ status'[c] = status[c]
         \/ b.type = "PlayerHasJoined" /\ status[c] = "welcomed" /\ status'[c] = "in"
      /\ \/ c \notin suspect /\ ~(b.type = "ChangeAccepted" /\ Differs(c, b.req))
         \/ c # Host /\ b.type \in {"GameLoaded", "GameBoxHasChanged"}
  BY <1>1 DEF Hears
<1>5. h = After(D, b)
  OBVIOUS
<1>6. ASSUME history'[c] = h
      PROVE  InStepWith(c, h)'
  BY <1>6, EchoesClear DEF InStepWith
\* The host has this game on the table.
<1>7. CASE c = Host /\ b.type = "GameLoaded"
  <2>1. status[Host] = "in" /\ Host \notin suspect
    BY <1>1, <1>4, <1>7
  <2>2. GameApart(history[Host], up[Host], down[Host])
    BY <2>1 DEF LoadingApart
  <2>3. down[Host][1].body.type = "GameLoaded" /\ down[Host][1].body = b /\ 1 \in DOMAIN down[Host]
    BY <1>2, <1>7 DEF Body
  <2>4. g = Cleared(<<b.change>>)
    BY <1>7, <2>2, <2>3 DEF GameApart
  <2>5. h = Cleared(<<b.change>>)
    BY <1>5, <1>7, AfterChange
  <2> QED
    BY <1>4, <1>6, <1>7, <2>4, <2>5
\* A new game is the same for all.
<1>8. CASE ~(c = Host /\ b.type = "GameLoaded") /\ b.type \in {"GameLoaded", "GameBoxHasChanged"}
  <2>1. After(g, b) = Cleared(<<b.change>>) /\ h = Cleared(<<b.change>>)
    BY <1>5, <1>8, AfterChange
  <2> QED
    BY <1>4, <1>6, <1>8, <2>1
\* Anything else is executed on the same table.
<1>9. CASE b.type \notin {"GameLoaded", "GameBoxHasChanged"}
  <2>1. /\ history'[c] = After(g, b) /\ c \notin suspect
        /\ b.type = "ChangeAccepted" => ~Differs(c, b.req)
    BY <1>4, <1>9
  <2>2. Following(c)
    BY <1>1, <1>4, <2>1 DEF Following
  <2>3. Follows(c)
    <3> SUFFICES ASSUME c = Host, Loading
                 PROVE  Loading'
      BY <2>2 DEF Follows
    <3>1. Loads(up[Host]) \/ Loads(down[Host])
      BY DEF Loading, Loads
    <3>2. Head(down[Host]).body.type # "GameLoaded"
      BY <1>9 DEF Body
    <3>3. Loads(down[Host]) => Loads(down'[Host])
      BY <1>0, <1>2, <3>2, LoadsKept
    <3>4. Loads(up[Host]) => Loads(up'[Host])
      <4>1. CASE up' = up
        BY <4>1
      <4>2. ASSUME NEW p \in UpPackets, up' = [up EXCEPT ![c] = Append(@, p)]
            PROVE  Loads(up[Host]) => Loads(up'[Host])
        <5>1. up'[Host] = Append(up[Host], p)
          BY <1>0, <4>2
        <5> QED
          BY <1>0, <5>1, LoadsKept
      <4> QED
        BY <4>1, <4>2 DEF Moves, Sends, Staying, Sent
    <3> QED
      BY <3>1, <3>3, <3>4 DEF Loading, Loads
  <2>4. (status[c] = "in" => g = D) /\ Echoes(g, D)
    BY <2>3 DEF InStep, InStepWith
  <2>5. CASE status[c] = "in"
    BY <1>5, <1>6, <2>1, <2>4, <2>5
  <2>6. CASE status[c] # "in"
    <3>1. status[c] = "welcomed"
      BY <2>2, <2>6 DEF Following
    <3>2. b.type = "ChangeAccepted" => ~Short(g, b.req)
      BY <2>1, <3>1 DEF Differs, Short
    <3>3. Echoes(After(g, b), After(D, b))
      BY <1>2, <1>3, <2>4, <3>2, EchoesAfter
    <3>4. CASE b.type = "PlayerHasJoined"
      <4>1. After(g, b) = After(D, b)
        BY <2>4, <3>4, AfterChange DEF ClearUndo, Echoes
      <4> QED
        BY <1>5, <1>6, <2>1, <4>1
    <3>5. CASE b.type # "PlayerHasJoined"
      <4>1. status'[c] # "in"
        BY <1>4, <3>1, <3>5
      <4> QED
        BY <1>5, <2>1, <3>3, <4>1 DEF InStepWith
    <3> QED
      BY <3>4, <3>5
  <2> QED
    BY <2>5, <2>6
<1> QED
  BY <1>7, <1>8, <1>9

\* See HearsInStep.
LEMMA ProgramInStep ==
  ASSUME TypeOK, TypeOK', HostAside, Apart, Present, Decided, Streams, LoadingApart, InStep,
         ProgramStep, decided' = decided
  PROVE  InStep'
<1> USE HostAssumption
<1>0. /\ down \in [Client -> Seq(DownPackets)] /\ up \in [Client -> Seq(UpPackets)]
      /\ history \in [Client -> Histories] /\ status \in [Client -> Connected \cup {"out"}]
      /\ pos \in [Client -> Nat] /\ relayed \in Nat /\ suspect \subseteq Client
      /\ decided \in Seq(Histories) /\ Len(decided) = relayed + 1
  BY DEF TypeOK, ChannelsOK, TablesOK, NumbersOK, ObserversOK, Decided
\* Whoever is left alone.
<1>1. ASSUME NEW d \in Client, Follows(d)', status'[d] = status[d], pos'[d] = pos[d], history'[d] = history[d],
             d \notin suspect' => d \notin suspect, d = Host => (Loading => Loading')
      PROVE  InStepWith(d, decided[pos[d] + 1])'
  <2>1. Follows(d)
    BY <1>1 DEF Follows, Following
  <2>2. InStepWith(d, decided[pos[d] + 1])
    BY <2>1 DEF InStep
  <2>3. decided'[pos'[d] + 1] = decided[pos[d] + 1]
    BY <1>1
  <2> QED
    BY <1>1, <2>2, <2>3 DEF InStepWith
<1>2. ASSUME \A d \in Client : Follows(d)' => InStepWith(d, decided[pos[d] + 1])'
      PROVE  InStep'
  BY <1>2 DEF InStep
<1>3. ASSUME NEW p \in UpPackets, up' = [up EXCEPT ![Host] = Append(@, p)]
      PROVE  Loads(up[Host]) \/ p.body.type = "GameLoaded" => Loads(up'[Host])
  <2>1. up'[Host] = Append(up[Host], p)
    BY <1>0, <1>3
  <2> QED
    BY <1>0, <2>1, LoadsKept
<1>4. CASE Idles
  <2>1. Loading => Loading'
    BY <1>4 DEF Idles, Loading
  <2>2. ASSUME NEW d \in Client, Follows(d)'
        PROVE  InStepWith(d, decided[pos[d] + 1])'
    <3>1. Here(d)
      BY <1>4, <2>2 DEF Idles, Follows, Following, Here, Connected
    <3> QED
      BY <1>1, <1>4, <2>1, <2>2, <3>1 DEF Idles
  <2> QED
    BY <1>2, <2>2
<1>5. ASSUME NEW c \in Client, Quits(c)
      PROVE  InStep'
  <2>1. /\ status' = [status EXCEPT ![c] = "out"] /\ suspect' = suspect /\ down' = [down EXCEPT ![c] = <<>>]
        /\ \A d \in Client \ {c} : pos'[d] = pos[d] /\ history'[d] = history[d]
        /\ \A d \in Client \ {c} : up'[d] = up[d]
    BY <1>5, QuitsLeaves DEF Quits
  <2>2. ASSUME NEW d \in Client, Follows(d)'
        PROVE  InStepWith(d, decided[pos[d] + 1])'
    <3>1. d # c
      BY <1>0, <2>1, <2>2 DEF Follows, Following
    <3>2. status'[d] = status[d]
      BY <1>0, <2>1, <3>1
    <3>3. d = Host => (Loading => Loading')
      <4>1. d = Host => up'[Host] = up[Host] /\ down'[Host] = down[Host]
        BY <1>0, <2>1, <3>1
      <4> QED
        BY <4>1 DEF Loading
    <3> QED
      BY <1>1, <2>1, <2>2, <3>1, <3>2, <3>3
  <2> QED
    BY <1>2, <2>2
<1>6. ASSUME NEW c \in Client, Connect(c)
      PROVE  InStep'
  <2>1. /\ up' = up /\ history' = history /\ status[c] = "out" /\ suspect' = suspect \ {c}
        /\ status' = [status EXCEPT ![c] = "joining"] /\ pos' = [pos EXCEPT ![c] = relayed]
    BY <1>6 DEF Connect
  <2>4. Loading => Loading'
    BY <1>6, ConnectLoads
  <2>5. ASSUME NEW d \in Client, Follows(d)'
        PROVE  InStepWith(d, decided[pos[d] + 1])'
    <3>1. d # c
      BY <1>0, <2>1, <2>5 DEF Follows, Following
    <3>2. status'[d] = status[d] /\ pos'[d] = pos[d] /\ (d \notin suspect' => d \notin suspect)
      BY <1>0, <2>1, <3>1
    <3> QED
      BY <1>1, <2>1, <2>4, <2>5, <3>2
  <2> QED
    BY <1>2, <2>5
<1>7. ASSUME NEW c \in Client, Moves(c), Sees(c)
      PROVE  InStep'
  <2>1. ASSUME NEW d \in Client, d # c, Follows(d)'
        PROVE  InStepWith(d, decided[pos[d] + 1])'
    <3>1. /\ status'[d] = status[d] /\ history'[d] = history[d] /\ (d \in suspect' <=> d \in suspect)
          /\ pos'[d] = pos[d] /\ down'[d] = down[d]
      BY <1>0, <1>7, <2>1 DEF Moves, Sees, Takes
    <3>2. up'[d] = up[d]
      BY <1>0, <1>7, <2>1 DEF Moves, Sends
    <3>3. d = Host => (Loading => Loading')
      BY <3>1, <3>2 DEF Loading
    <3> QED
      BY <1>1, <2>1, <3>1, <3>3
  <2>2. ASSUME Follows(c)'
        PROVE  InStepWith(c, decided[pos[c] + 1])'
    <3>1. Here(c) /\ Stream(down[c], pos[c], relayed, decided)
      BY <1>7 DEF Moves, Streams
    <3>2. CASE Rests
      <4>1. Loads(up[Host]) => Loads(up'[Host])
        <5>1. CASE up'[Host] = up[Host]
          BY <5>1
        <5>2. CASE up'[Host] # up[Host]
          <6>1. \E p \in UpPackets : up' = [up EXCEPT ![Host] = Append(@, p)]
            BY <1>0, <1>7, <5>2 DEF Moves, Sends, Staying, Sent
          <6> QED
            BY <1>3, <6>1
        <5> QED
          BY <5>1, <5>2
      <4>2. Loading => Loading'
        BY <3>2, <4>1 DEF Loading, Loads, Rests
      <4> QED
        BY <1>1, <2>2, <3>2, <4>2 DEF Rests
    <3>3. ASSUME Takes(c)
          PROVE  /\ decided[pos'[c] + 1] = After(decided[pos[c] + 1], Body(c))
                 /\ decided[pos'[c] + 1] \in Histories /\ decided[pos[c] + 1] \in Histories
                 /\ Body(c).type = "ConnectionAccepted" => pos'[c] = pos[c]
                 /\ Snapshot(Body(c)) => Body(c).table = decided[pos[c] + 1].table
      <4>1. /\ down[c] # <<>> /\ down[c] \in Seq(DownPackets) /\ pos[c] \in Nat
            /\ pos'[c] = IF Head(down[c]).n > 0 THEN Head(down[c]).n ELSE pos[c]
        BY <1>0, <3>3 DEF Takes
      <4>2. PICK q, p, s : q = pos'[c] /\ p = pos[c] /\ s = down[c]
        OBVIOUS
      <4>3. /\ s # <<>> /\ s \in Seq(DownPackets) /\ p \in Nat /\ Stream(s, p, relayed, decided)
            /\ q = IF Head(s).n > 0 THEN Head(s).n ELSE p
            /\ relayed \in Nat /\ decided \in Seq(Histories) /\ Len(decided) = relayed + 1
        BY <1>0, <3>1, <4>1, <4>2
      <4>4. /\ q \in Nat /\ p <= q /\ q <= p + 1 /\ q <= relayed
            /\ decided[q + 1] = After(decided[p + 1], Head(s).body)
            /\ Head(s).body.type = "ConnectionAccepted" => q = p
            /\ Snapshot(Head(s).body) => Head(s).body.table = decided[p + 1].table
        BY <4>3, StreamTail
      <4>5. decided[q + 1] \in Histories /\ decided[p + 1] \in Histories
        <5>1. q + 1 \in 1 .. Len(decided) /\ p + 1 \in 1 .. Len(decided)
          BY <4>3, <4>4
        <5> QED
          BY <1>0, <5>1, ElementOfSeq
      <4> QED
        BY <4>2, <4>4, <4>5 DEF Body
    <3>4. CASE Hears(c)
      <4>1. Takes(c)
        BY <3>4 DEF Hears
      <4>2. InStepWith(c, decided[pos[c] + 1])'
        <5>1. PICK h \in Histories : h = decided[pos'[c] + 1] /\ h = After(decided[pos[c] + 1], Body(c))
          BY <3>3, <4>1
        <5>2. InStepWith(c, h)'
          BY <1>7, <2>2, <3>4, <5>1, HearsInStep
        <5> QED
          BY <5>1, <5>2 DEF InStepWith
      <4> QED
        BY <4>2
    <3>5. CASE Begins(c)
      <4> DEFINE h == decided[pos'[c] + 1]
      <4>1. /\ Takes(c) /\ Body(c).type = "ConnectionAccepted" /\ Body(c).clean
            /\ history'[c] = Cleared(Body(c).table) /\ status'[c] = "welcomed"
        BY <2>2, <3>5 DEF Begins, Follows, Following
      <4>2. h \in Histories /\ Body(c).table = h.table
        BY <3>3, <4>1 DEF Snapshot
      <4>3. Echoes(history'[c], h)
        <5> HIDE DEF h
        <5> QED
          BY <4>1, <4>2, EchoesClear
      <4> QED
        BY <4>1, <4>3 DEF InStepWith
    <3>6. CASE c = Host /\ LoadGame
      <4>1. Loading'
        <5> DEFINE p == [route |-> "ClientToAll", to |-> Host,
                         body |-> [type |-> "GameLoaded", seq |-> seq[Host] + 1, change |-> issued + 1]]
        <5>1. up' = [up EXCEPT ![Host] = Append(@, p)] /\ p.body.type = "GameLoaded"
          BY <3>6 DEF LoadGame, Upload
        <5>2. Len(up[Host]) \in Nat /\ up[Host] \in Seq(UpPackets)
          BY <1>0
        <5> HIDE DEF p
        <5>3. up'[Host] = Append(up[Host], p)
          BY <1>0, <5>1
        <5>4. Len(up[Host]) + 1 \in DOMAIN up'[Host] /\ up'[Host][Len(up[Host]) + 1] = p
          BY <5>2, <5>3
        <5> QED
          BY <5>1, <5>4 DEF Loading
      <4> QED
        BY <2>2, <3>6, <4>1 DEF Follows
    <3> QED
      BY <1>7, <3>2, <3>4, <3>5, <3>6 DEF Sees
  <2> QED
    BY <1>2, <2>1, <2>2
<1> QED
  BY <1>4, <1>5, <1>6, <1>7, ProgramShapes, PlaysSees

-----------------------------------------------------------------------------
(* The invariant holds, and the players agree.                             *)

Base == TypeOK /\ HostAside /\ Apart /\ Present
HistInv == Decided /\ Streams /\ Sending /\ LoadingApart /\ InStep

\* It holds at the start...
LEMMA HistInit == HistoryInit => HistInv
<1> SUFFICES ASSUME HistoryInit PROVE HistInv
  OBVIOUS
<1> USE HostAssumption
<1> DEFINE first == Cleared(<<>>)
<1>1. /\ \A c \in Client : up[c] = <<>> /\ down[c] = <<>> /\ pos[c] = 0 /\ history[c] = first
      /\ relayed = 0 /\ decided = <<first>>
      /\ \A c \in Client : Following(c) => status[c] = "in"
  BY DEF HistoryInit, Init, RelayInit, Following
<1>2. first \in Histories
  <2>1. <<>> \in Changes
    BY DEF Changes
  <2> QED
    BY <2>1, ClearedType
<1> HIDE DEF first
<1>3. Decided
  <2>1. <<first>> \in Seq(Histories) /\ Len(<<first>>) = 0 + 1
    BY <1>2
  <2> QED
    BY <1>1, <2>1 DEF Decided
<1>4. Streams
  <2>1. Stream(<<>>, 0, 0, decided)
    BY StreamEmpty
  <2> QED
    BY <1>1, <2>1 DEF Streams
<1>5. \A i \in DOMAIN <<>> : FALSE
  OBVIOUS
<1>6. Sending
  BY <1>1, <1>5 DEF Sending
<1>7. LoadingApart
  BY <1>1, <1>5 DEF LoadingApart, GameApart
<1>8. InStep
  <2>1. decided[0 + 1] = first
    BY <1>1
  <2>2. Echoes(first, first)
    BY <1>2, EchoesClear
  <2> QED
    BY <1>1, <2>1, <2>2 DEF InStep, InStepWith
<1> QED
  BY <1>3, <1>4, <1>6, <1>7, <1>8 DEF HistInv

\* ... and every step keeps it.
LEMMA HistStep == Base /\ Base' /\ HistInv /\ [HistoryNext]_historyVars => HistInv'
<1> SUFFICES ASSUME Base, Base', HistInv, [HistoryNext]_historyVars
             PROVE  HistInv'
  OBVIOUS
<1>1. CASE UNCHANGED historyVars
  BY <1>1 DEF historyVars, vars, relayVars, observers, HistInv, Decided, Streams, Here, Sending, LoadingApart,
     InStep, InStepWith, Follows, Following, Loading
<1>2. ASSUME NEW c \in Client, Relaying(c), Decides(c)
      PROVE  HistInv'
  <2>1. Decided' /\ Streams'
    BY <1>2, RelayingStreams DEF Base, HistInv
  <2>2. Sending'
    BY <1>2, RelayingSending DEF Base, HistInv
  <2>3. LoadingApart'
    BY <1>2, RelayingLoading DEF Base, HistInv
  <2>4. InStep'
    BY <1>2, RelayingInStep DEF Base, HistInv
  <2> QED
    BY <2>1, <2>2, <2>3, <2>4 DEF HistInv
<1>3. CASE ProgramStep /\ decided' = decided
  <2>1. Decided' /\ Streams'
    BY <1>3, ProgramStreams DEF Base, HistInv
  <2>2. Sending'
    BY <1>3, ProgramSending DEF Base, HistInv
  <2>3. LoadingApart'
    BY <1>3, ProgramLoading DEF Base, HistInv
  <2>4. InStep'
    BY <1>3, ProgramInStep DEF Base, HistInv
  <2> QED
    BY <2>1, <2>2, <2>3, <2>4 DEF HistInv
<1> QED
  BY <1>1, <1>2, <1>3 DEF HistoryNext, Decides

\* With the history variable, the system does nothing that it does not do without it.
LEMMA HistoryHides == HistorySpec => Spec
<1>1. HistoryInit => Init
  BY DEF HistoryInit
<1>2. [HistoryNext]_historyVars => [Next]_vars
  BY DEF HistoryNext, historyVars, Next
<1> QED
  BY <1>1, <1>2, PTL DEF HistorySpec, Spec

\* Hence it always holds.
LEMMA HistAlways == HistorySpec => [](Base /\ HistInv)
<1>1. Spec => []Base
  BY PresentAlways DEF Base
<1>2. HistorySpec => []Base
  BY <1>1, HistoryHides, PTL
<1> QED
  BY <1>2, HistInit, HistStep, PTL DEF HistorySpec

\* Programs that handled the same broadcasts show the same table, and those that completely
\* joined have the same stacks, whatever was accepted, rejected, loaded, shuffled, undone
\* or announced in between, and whoever joined or left (ChangeAcceptedMessage.Handle and
\* the other handlers).  The variable decided only observes: see HistoryHides.
THEOREM PlayersAgree == HistorySpec => []Agreement
<1>1. HistInv => Agreement
  <2> SUFFICES ASSUME HistInv, NEW c \in Client, NEW d \in Client,
                      Following(c), Following(d), pos[c] = pos[d], Host \in {c, d} => ~Loading
               PROVE  /\ history[c].table = history[d].table
                      /\ (status[c] = "in" /\ status[d] = "in") => history[c] = history[d]
    BY DEF Agreement
  <2>1. Follows(c) /\ Follows(d)
    BY DEF Follows
  <2>2. InStepWith(c, decided[pos[c] + 1]) /\ InStepWith(d, decided[pos[c] + 1])
    BY <2>1 DEF HistInv, InStep
  <2> QED
    BY <2>2 DEF InStepWith, Echoes
<1> QED
  BY <1>1, HistAlways, PTL

-----------------------------------------------------------------------------
(* The programs implement the shared table.                                *)

\* What a player sees is the state of the past that he is at.
Viewed ==
  /\ relayed \in Nat /\ DOMAIN decided = 1 .. relayed + 1
  /\ \A c \in Client :
       /\ At(c) \in Nat
       /\ At(c) = 0 => View(c) = <<>>
       /\ At(c) # 0 => At(c) \in DOMAIN decided /\ View(c) = decided[At(c)].table

\* It is so in every state.
LEMMA ViewMeaning == Base /\ HistInv => Viewed
<1> SUFFICES ASSUME Base, HistInv
             PROVE  Viewed
  OBVIOUS
<1>0. relayed \in Nat /\ DOMAIN decided = 1 .. relayed + 1
  BY LenProperties DEF Base, TypeOK, ChannelsOK, HistInv, Decided
<1> SUFFICES ASSUME NEW c \in Client
             PROVE  /\ At(c) \in Nat
                    /\ At(c) = 0 => View(c) = <<>>
                    /\ At(c) # 0 => At(c) \in DOMAIN decided /\ View(c) = decided[At(c)].table
  BY <1>0 DEF Viewed
<1>1. /\ pos[c] \in Nat /\ relayed \in Nat /\ DOMAIN decided = 1 .. relayed + 1
  BY LenProperties DEF Base, TypeOK, ObserversOK, ChannelsOK, HistInv, Decided
<1>2. CASE Follows(c)
  <2>1. pos[c] <= relayed
    <3>1. Here(c)
      BY <1>2 DEF Follows, Following, Here, Connected
    <3> QED
      BY <3>1 DEF HistInv, Streams, Stream, Numbered
  <2>2. history[c].table = decided[pos[c] + 1].table
    BY <1>2 DEF HistInv, InStep, InStepWith, Echoes
  <2>3. At(c) = pos[c] + 1 /\ View(c) = history[c].table
    BY <1>2 DEF At, View
  <2>4. At(c) \in Nat /\ At(c) # 0 /\ At(c) \in 1 .. relayed + 1
    BY <1>1, <2>1, <2>3
  <2> QED
    BY <1>1, <1>2, <2>2, <2>3, <2>4
<1>3. CASE ~Follows(c)
  <2>1. At(c) = 0 /\ View(c) = <<>>
    BY <1>3 DEF At, View
  <2> QED
    BY <1>1, <1>3, <2>1
<1> QED
  BY <1>2, <1>3

\* A step of a program moves at most one player, by at most one state.
LEMMA OneMoves ==
  ASSUME Base, Base', HistInv, ProgramStep
  PROVE  \E c \in Client :
           /\ \A d \in Client \ {c} : At(d)' = At(d)
           /\ At(c)' = At(c) \/ At(c)' = 0 \/ At(c) = 0 \/ At(c)' = At(c) + 1
<1> USE HostAssumption DEF Base
<1>0. /\ down \in [Client -> Seq(DownPackets)] /\ up \in [Client -> Seq(UpPackets)]
      /\ status \in [Client -> Connected \cup {"out"}]
      /\ pos \in [Client -> Nat] /\ relayed \in Nat /\ suspect \subseteq Client
      /\ decided \in Seq(Histories) /\ Len(decided) = relayed + 1
  BY DEF TypeOK, ChannelsOK, NumbersOK, ObserversOK, HistInv, Decided
<1>1. ASSUME NEW d \in Client, status'[d] = status[d], pos'[d] = pos[d], d \in suspect' <=> d \in suspect,
             d = Host => (Loading' <=> Loading)
      PROVE  At(d)' = At(d)
  BY <1>1 DEF At, Follows, Following
<1>2. CASE Idles
  <2>1. Loading' <=> Loading
    BY <1>2 DEF Idles, Loading
  <2>2. \A d \in Client : At(d)' = At(d)
    BY <1>1, <1>2, <2>1 DEF Idles
  <2> QED
    BY <2>2
<1>3. ASSUME NEW c \in Client, Quits(c)
      PROVE  At(c)' = 0 /\ \A d \in Client \ {c} : At(d)' = At(d)
  <2>1. /\ status' = [status EXCEPT ![c] = "out"] /\ suspect' = suspect /\ down' = [down EXCEPT ![c] = <<>>]
        /\ \A d \in Client \ {c} : pos'[d] = pos[d] /\ up'[d] = up[d]
    BY <1>3, QuitsLeaves DEF Quits
  <2>2. At(c)' = 0
    BY <1>0, <2>1 DEF At, Follows, Following
  <2>3. ASSUME NEW d \in Client, d # c
        PROVE  At(d)' = At(d)
    <3>1. status'[d] = status[d] /\ up'[d] = up[d] /\ down'[d] = down[d]
      BY <1>0, <2>1, <2>3
    <3>2. d = Host => (Loading' <=> Loading)
      BY <3>1 DEF Loading
    <3> QED
      BY <1>1, <2>1, <2>3, <3>1, <3>2
  <2> QED
    BY <2>2, <2>3
<1>4. ASSUME NEW c \in Client, Connect(c)
      PROVE  At(c)' = 0 /\ \A d \in Client \ {c} : At(d)' = At(d)
  <2>1. /\ status' = [status EXCEPT ![c] = "joining"] /\ suspect' = suspect \ {c}
        /\ pos' = [pos EXCEPT ![c] = relayed] /\ (Loading' <=> Loading)
    BY <1>4, ConnectLoads DEF Connect
  <2>2. At(c)' = 0
    BY <1>0, <2>1 DEF At, Follows, Following
  <2>3. ASSUME NEW d \in Client, d # c
        PROVE  At(d)' = At(d)
    <3>1. status'[d] = status[d] /\ pos'[d] = pos[d] /\ (d \in suspect' <=> d \in suspect)
      BY <1>0, <2>1, <2>3
    <3> QED
      BY <1>1, <2>1, <3>1
  <2> QED
    BY <2>2, <2>3
<1>5. ASSUME NEW c \in Client, Moves(c), Sees(c)
      PROVE  /\ \A d \in Client \ {c} : At(d)' = At(d)
             /\ At(c)' = At(c) \/ At(c)' = 0 \/ At(c) = 0 \/ At(c)' = At(c) + 1
  <2>1. ASSUME NEW d \in Client, d # c
        PROVE  At(d)' = At(d)
    <3>1. /\ status'[d] = status[d] /\ (d \in suspect' <=> d \in suspect)
          /\ pos'[d] = pos[d] /\ down'[d] = down[d]
      BY <1>0, <1>5, <2>1 DEF Moves, Sees, Takes
    <3>2. up'[d] = up[d]
      BY <1>0, <1>5, <2>1 DEF Moves, Sends
    <3>3. d = Host => (Loading' <=> Loading)
      BY <3>1, <3>2 DEF Loading
    <3> QED
      BY <1>1, <3>1, <3>3
  <2>2. pos'[c] = pos[c] \/ pos'[c] = pos[c] + 1
    <3>1. CASE pos' = pos
      BY <3>1
    <3>2. CASE Takes(c)
      <4>1. PICK q, p, s : q = pos'[c] /\ p = pos[c] /\ s = down[c]
        OBVIOUS
      <4>2. /\ s # <<>> /\ s \in Seq(DownPackets) /\ p \in Nat
            /\ q = IF Head(s).n > 0 THEN Head(s).n ELSE p
            /\ relayed \in Nat /\ decided \in Seq(Histories) /\ Len(decided) = relayed + 1
        BY <1>0, <3>2, <4>1 DEF Takes
      <4>3. Stream(s, p, relayed, decided)
        BY <1>5, <4>1 DEF Moves, HistInv, Streams
      <4>4. q \in Nat /\ p <= q /\ q <= p + 1
        BY <4>2, <4>3, StreamTail
      <4> QED
        BY <4>1, <4>2, <4>4
    <3> QED
      BY <1>5, <3>1, <3>2 DEF Moves
  <2>3. At(c)' = At(c) \/ At(c)' = 0 \/ At(c) = 0 \/ At(c)' = At(c) + 1
    <3>1. At(c)' = 0 \/ At(c)' = pos'[c] + 1
      BY DEF At
    <3>2. At(c) = 0 \/ At(c) = pos[c] + 1
      BY DEF At
    <3> QED
      BY <1>0, <2>2, <3>1, <3>2
  <2> QED
    BY <2>1, <2>3
<1> QED
  BY <1>2, <1>3, <1>4, <1>5, ProgramShapes, PlaysSees

\* The server moves nobody.
LEMMA NobodyMoves ==
  ASSUME Base, NEW c \in Client, Relaying(c), NEW d \in Client
  PROVE  At(d)' = At(d) /\ View(d)' = View(d)
<1>1. status' = status /\ history' = history /\ suspect' = suspect /\ pos' = pos
  BY DEF Relaying, observers
<1>2. Here(Host) => (Loading' <=> Loading)
  BY RelayingLoads DEF Base
<1>3. Follows(d)' <=> Follows(d)
  BY <1>1, <1>2 DEF Follows, Following, Here, Connected
<1> QED
  BY <1>1, <1>3 DEF At, View

\* A player who moves sees the state that he comes to.
LEMMA MovesShared ==
  ASSUME Viewed, Viewed', decided' = decided, NEW c \in Client,
         \A d \in Client \ {c} : At(d)' = At(d),
         At(c)' = At(c) \/ At(c)' = 0 \/ At(c) = 0 \/ At(c)' = At(c) + 1
  PROVE  Shared!SharedNext \/ UNCHANGED Shared!sharedVars
<1> DEFINE at == [d \in Client |-> At(d)]
           view == [d \in Client |-> View(d)]
<1>0. PICK a, b : a = At(c) /\ b = At(c)'
  OBVIOUS
<1>1. Past' = Past
  BY DEF Past
<1>2. ASSUME NEW d \in Client, At(d)' = At(d)
      PROVE  View(d)' = View(d)
  BY <1>2 DEF Viewed
<1>3. /\ a \in Nat /\ b \in Nat /\ DOMAIN decided = 1 .. relayed + 1 /\ relayed \in Nat
      /\ a # 0 => a \in DOMAIN decided
      /\ b # 0 => b \in DOMAIN decided /\ View(c)' = decided[b].table
      /\ b = 0 => View(c)' = <<>>
  BY <1>0 DEF Viewed
<1>4. /\ at' = [at EXCEPT ![c] = b] /\ view' = [view EXCEPT ![c] = View(c)'] /\ at[c] = a
  BY <1>0, <1>2
<1>5. Len(Past) = relayed + 1 /\ \A i \in DOMAIN decided : Past[i] = decided[i].table
  <2>1. Past = [i \in 1 .. relayed + 1 |-> decided[i].table]
    BY <1>3 DEF Past
  <2>2. Len(Past) = relayed + 1
    BY <1>3, <2>1
  <2> QED
    BY <1>3, <2>1, <2>2
<1>6. at = [d \in Client |-> At(d)] /\ view = [d \in Client |-> View(d)]
  OBVIOUS
<1>7. at' = [d \in Client |-> At(d)]' /\ view' = [d \in Client |-> View(d)]'
  OBVIOUS
<1> HIDE DEF at, view
<1>8. CASE a = b
  <2>1. at' = at /\ view' = view /\ Past' = Past
    <3>1. View(c)' = View(c)
      BY <1>0, <1>2, <1>8
    <3> QED
      BY <1>0, <1>1, <1>2, <1>8, <3>1 DEF at, view
  <2>2. UNCHANGED Shared!sharedVars
    BY <1>6, <1>7, <2>1 DEF Shared!sharedVars
  <2> QED
    BY <2>2
<1>9. CASE a # b /\ b = 0
  <2>1. at[c] # 0 /\ at' = [at EXCEPT ![c] = 0] /\ view' = [view EXCEPT ![c] = <<>>]
    BY <1>3, <1>4, <1>9
  <2>2. Shared!Quit(c)
    BY <1>1, <1>6, <1>7, <2>1 DEF Shared!Quit
  <2> QED
    BY <2>2 DEF Shared!SharedNext
<1>10. b # 0 => Shared!See(c, b)
  <2> SUFFICES ASSUME b # 0
               PROVE  Shared!See(c, b)
    OBVIOUS
  <2>1. view' = [view EXCEPT ![c] = Past[b]]
    BY <1>3, <1>4, <1>5
  <2> QED
    BY <1>1, <1>4, <1>6, <1>7, <2>1 DEF Shared!See
<1>11. CASE a = 0 /\ b # 0
  <2>1. at[c] = 0 /\ b \in 1 .. Len(Past)
    BY <1>3, <1>4, <1>5, <1>11
  <2>2. Shared!Join(c)
    BY <1>6, <1>10, <1>11, <2>1 DEF Shared!Join
  <2> QED
    BY <2>2 DEF Shared!SharedNext
<1>12. CASE a # 0 /\ b # 0 /\ a # b
  <2>1. b = a + 1
    BY <1>0, <1>12
  <2>2. at[c] \in 1 .. Len(Past) - 1 /\ at[c] + 1 = b
    BY <1>3, <1>4, <1>5, <1>12, <2>1
  <2>3. Shared!Follow(c)
    BY <1>6, <1>10, <1>12, <2>2 DEF Shared!Follow
  <2> QED
    BY <2>3 DEF Shared!SharedNext
<1> QED
  BY <1>8, <1>9, <1>11, <1>12

\* A step of the server decides the next state of the table, or nothing.
LEMMA ServerShared ==
  ASSUME Base, HistInv, NEW c \in Client, Relaying(c), Decides(c)
  PROVE  Shared!SharedNext \/ UNCHANGED Shared!sharedVars
<1> DEFINE at == [d \in Client |-> At(d)]
           view == [d \in Client |-> View(d)]
<1>1. at' = at /\ view' = view
  BY NobodyMoves
<1>2. at = [d \in Client |-> At(d)] /\ view = [d \in Client |-> View(d)]
  OBVIOUS
<1>3. at' = [d \in Client |-> At(d)]' /\ view' = [d \in Client |-> View(d)]'
  OBVIOUS
<1> HIDE DEF at, view
<1>4. CASE decided' = decided
  <2>1. Past' = Past
    BY <1>4 DEF Past
  <2>2. UNCHANGED Shared!sharedVars
    BY <1>1, <1>2, <1>3, <2>1 DEF Shared!sharedVars
  <2> QED
    BY <2>2
<1>5. ASSUME NEW h \in Histories, decided' = Append(decided, h)
      PROVE  Shared!SharedNext
  <2>1. /\ relayed \in Nat /\ decided \in Seq(Histories) /\ Len(decided) = relayed + 1
        /\ DOMAIN decided = 1 .. relayed + 1
    BY LenProperties DEF Base, TypeOK, ChannelsOK, HistInv, Decided
  <2>2. DOMAIN decided' = 1 .. relayed + 2 /\ \A i \in 1 .. relayed + 1 : decided'[i] = decided[i]
    BY <1>5, <2>1, AppendProperties, LenProperties
  <2>3. Past \in Seq(Changes) /\ Len(Past) = relayed + 1
    <3>1. \A i \in 1 .. relayed + 1 : decided[i].table \in Changes
      BY <2>1, ElementOfSeq, HistoryFields
    <3> QED
      BY <2>1, <3>1 DEF Past
  <2>4. Past' \in Seq(Changes) /\ Len(Past') = relayed + 2 /\ \A i \in 1 .. relayed + 1 : Past'[i] = Past[i]
    <3>1. \A i \in 1 .. relayed + 2 : decided'[i].table \in Changes
      <4>1. decided' \in Seq(Histories) /\ Len(decided') = relayed + 2
        BY <1>5, <2>1, AppendProperties
      <4>2. \A i \in 1 .. relayed + 2 : decided'[i] \in Histories
        BY <4>1, ElementOfSeq
      <4> QED
        BY <4>2, HistoryFields
    <3> QED
      BY <2>1, <2>2, <3>1 DEF Past
  <2>5. SubSeq(Past', 1, Len(Past)) = Past
    BY <2>1, <2>3, <2>4
  <2>6. Shared!Decide
    BY <1>1, <1>2, <1>3, <2>1, <2>3, <2>4, <2>5 DEF Shared!Decide
  <2> QED
    BY <2>6 DEF Shared!SharedNext
<1> QED
  BY <1>4, <1>5, Deciding DEF Base, HistInv

\* All start with the empty table.
LEMMA InitShared == HistoryInit => Shared!SharedInit
<1> SUFFICES ASSUME HistoryInit PROVE Shared!SharedInit
  OBVIOUS
<1>1. /\ \A c \in Client : pos[c] = 0 /\ history[c].table = <<>>
      /\ DOMAIN decided = {1} /\ decided[1].table = <<>>
  BY DEF HistoryInit, Init, Cleared
<1>2. Past = << <<>> >>
  <2>1. DOMAIN << <<>> >> = {1} /\ << <<>> >>[1] = <<>>
    OBVIOUS
  <2> QED
    BY <1>1, <2>1 DEF Past
<1>3. [c \in Client |-> At(c)] \in [Client -> {0, 1}]
  BY <1>1 DEF At
<1>4. [c \in Client |-> View(c)] = [c \in Client |-> <<>>]
  BY <1>1 DEF View
<1> QED
  BY <1>2, <1>3, <1>4 DEF Shared!SharedInit

\* The programs of the players implement one shared table: its successive states are
\* decided once, by the order in which the server broadcasts; every player who follows
\* the game shows one of them and moves through them in order, none skipped; a newcomer
\* begins at one of them.  That everybody sees the last one in the end rests on fairness
\* and is checked by the run shared_table.
THEOREM ProgramsShareTable == HistorySpec => Shared!SharedSafety
<1>1. Base /\ Base' /\ HistInv /\ Viewed /\ Viewed' /\ [HistoryNext]_historyVars
        => [Shared!SharedNext]_(Shared!sharedVars)
  <2> SUFFICES ASSUME Base, Base', HistInv, Viewed, Viewed', [HistoryNext]_historyVars
               PROVE  Shared!SharedNext \/ UNCHANGED Shared!sharedVars
    OBVIOUS
  <2>1. CASE UNCHANGED historyVars
    BY <2>1 DEF historyVars, vars, relayVars, observers, Shared!sharedVars,
       Past, At, View, Follows, Following, Loading
  <2>2. ASSUME NEW c \in Client, Relaying(c), Decides(c)
        PROVE  Shared!SharedNext \/ UNCHANGED Shared!sharedVars
    BY <2>2, ServerShared
  <2>3. CASE ProgramStep /\ decided' = decided
    BY <2>3, OneMoves, MovesShared
  <2> QED
    BY <2>1, <2>2, <2>3 DEF HistoryNext, Decides
<1> QED
  BY <1>1, InitShared, HistAlways, ViewMeaning, PTL DEF HistorySpec, Shared!SharedSafety
=============================================================================
