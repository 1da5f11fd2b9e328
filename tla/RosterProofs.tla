---------------------------- MODULE RosterProofs ----------------------------
(***************************************************************************)
(* Proofs about Roster: whoever comes and goes, the host never lists a     *)
(* player twice nor gives a colour to two players, for all programs and    *)
(* colours, and without bounds on what players do.                         *)
(***************************************************************************)
EXTENDS Roster, FiniteSetTheorems, SequenceTheorems, TLAPS

-----------------------------------------------------------------------------
(* What is on its way of a player c other than the host: his request to    *)
(* join, the host's answer, his greeting, the news that he has left, and   *)
(* the news of his colour.  dh, uh, dc, uc are the channels to and from    *)
(* the host and to and from c.                                             *)

Wants(c, p) == p.body.type = "PlayerWantsToJoin" /\ p.from = c
Answers(c, p) == p.route = "HostToSingleClient" /\ p.to = c
Accepts(p) == p.body.type = "ConnectionAccepted"
Greets(p) == p.body.type = "PlayerHasJoined"
Joined(c, p) == p.body.type = "PlayerHasJoined" /\ p.from = c
Left(c, p) == p.body.type = "PlayerHasLeft" /\ p.from = c
Colors(c, p) == p.body.type = "PlayerColorChanged" /\ p.body.player = c

\* His request, the answer or his greeting, before the server relays it.
Token(c, dh, uh, dc, uc, k, i) ==
  \/ k = 1 /\ i \in DOMAIN dh /\ Wants(c, dh[i])
  \/ k = 2 /\ i \in DOMAIN uh /\ Answers(c, uh[i])
  \/ k = 3 /\ i \in DOMAIN dc /\ Accepts(dc[i])
  \/ k = 4 /\ i \in DOMAIN uc /\ Greets(uc[i])

AnyToken(c, dh, uh, dc, uc) == \E k \in 1 .. 4, i \in Nat : Token(c, dh, uh, dc, uc, k, i)

\* There is one of them at most.
OneToken(c, dh, uh, dc, uc) ==
  \A k, l \in 1 .. 4 : \A i, j \in Nat :
    Token(c, dh, uh, dc, uc, k, i) /\ Token(c, dh, uh, dc, uc, l, j) => k = l /\ i = j

Listed(c, list) == \E x \in DOMAIN list : list[x].id = c

\* The host does not list c once he has handled what comes before the n-th packet.
Absent(c, dh, list, n) ==
  /\ Listed(c, list) => \E k \in DOMAIN dh : k < n /\ Left(c, dh[k])
  /\ \A j \in DOMAIN dh : j < n /\ Joined(c, dh[j]) =>
       \E k \in DOMAIN dh : j < k /\ k < n /\ Left(c, dh[k])

\* He does not when a greeting comes, nor when one may still be sent.
Unlisted(c, dh, uh, dc, uc, list, member) ==
  /\ \A i \in DOMAIN dh : Joined(c, dh[i]) => Absent(c, dh, list, i)
  /\ ~member \/ AnyToken(c, dh, uh, dc, uc) => Absent(c, dh, list, Len(dh) + 1)

\* A greeting comes after all that is about earlier stays, and is the only one.
GreetingLast(c, dh, uh, dc, uc) ==
  \A j \in DOMAIN dh : Joined(c, dh[j]) =>
    /\ \A k \in 1 .. 4, i \in Nat : Token(c, dh, uh, dc, uc, k, i) => k = 1 /\ j < i
    /\ \A i \in DOMAIN uh : ~Colors(c, uh[i])
    /\ \A i \in DOMAIN dh : /\ Colors(c, dh[i]) => i < j
                            /\ Joined(c, dh[i]) => i = j

\* The news of his colour are ahead of the answer to his next request.
ColorsFirst(c, dh, uh, dc, uc) ==
  \A k \in 2 .. 4, i \in Nat : Token(c, dh, uh, dc, uc, k, i) =>
    \A j \in DOMAIN uh : Colors(c, uh[j]) => k = 2 /\ j < i

\* The news of his colour are true while the host lists him.
ColorsTrue(c, dh, uh, list) ==
  \A x \in DOMAIN list : list[x].id = c =>
    /\ \A i \in DOMAIN uh : Colors(c, uh[i]) => uh[i].body.color = list[x].color
    /\ \A i \in DOMAIN dh : Colors(c, dh[i]) => dh[i].body.color = list[x].color

ClientOK(c, dh, uh, dc, uc, list, member) ==
  /\ OneToken(c, dh, uh, dc, uc)
  /\ Unlisted(c, dh, uh, dc, uc, list, member)
  /\ GreetingLast(c, dh, uh, dc, uc)
  /\ ColorsFirst(c, dh, uh, dc, uc)
  /\ ColorsTrue(c, dh, uh, list)

ClientOf(c) == ClientOK(c, down[Host], up[Host], down[c], up[c], players[Host], c \in members)

ClientsOK == \A c \in Client \ {Host} : ClientOf(c)

\* The host's list.
ListOK(list) ==
  /\ list # <<>> /\ list[1].id \in {NoOne, Host}
  /\ \A x \in DOMAIN list :
       /\ x > 1 => list[x].id \in Client \ {Host}
       /\ list[x] = [id |-> list[x].id, guid |-> list[x].guid, color |-> list[x].color]
  /\ \A x, y \in DOMAIN list : list[x].id = list[y].id \/ list[x].color = list[y].color => x = y

\* What c sends to the server, and what the server sends to the host.
UpOK(c, p) ==
  /\ p.route = "ClientToHost" => p.body.type = "Request"
  /\ p.route = "HostToSingleClient" => c = Host /\ p.to # Host /\ p.body.type = "ConnectionAccepted"
  /\ p.route = "Disconnect" => c # Host /\ p.body.type = "Disconnect"
  /\ p.route = "ClientToAll" => p.body.type \in {"PlayerHasJoined", "PlayerColorChanged", "ChangeAccepted"}
  /\ p.body.type = "PlayerColorChanged" => c = Host /\ p.body.player \in Client \ {Host}

DownOK(p) ==
  /\ p.body.type \notin {"ConnectionAccepted", "HostDisconnected"}
  /\ p.body.type \in {"PlayerWantsToJoin", "PlayerHasLeft"} => p.from # Host
  /\ p.from \in Client
  /\ p.body.type = "PlayerColorChanged" => p.body.player \in Client \ {Host}

UpAll(c, s) == \A i \in DOMAIN s : UpOK(c, s[i])
DownAll(s) == \A i \in DOMAIN s : DownOK(s[i])
PacketsOK == (\A c \in Client : UpAll(c, up[c])) /\ DownAll(down[Host])

\* A program that is out has disconnected; nobody is told that the host left.
Untold(s) == \A i \in DOMAIN s : s[i].body.type # "HostDisconnected"
OutOf(c) ==
  /\ status[c] = "out" => down[c] = <<>> /\ (c \notin members \/ HungUp(c))
  /\ Untold(down[c])
OutOK == \A c \in Client \ {Host} : OutOf(c)

\* The host has left: nothing reaches him any more.
HostOut == down[Host] = <<>> /\ (Host \notin members \/ HungUp(Host))

HostPlays == Host \in members /\ PacketsOK /\ OutOK /\ ClientsOK

Sequence(s) == s \in Seq({s[i] : i \in DOMAIN s})

TypeOK ==
  /\ DOMAIN up = Client /\ DOMAIN down = Client /\ DOMAIN players = Client /\ DOMAIN status = Client
  /\ \A c \in Client : Sequence(up[c]) /\ Sequence(down[c])
  /\ members \subseteq Client

ListIsOK == Sequence(players[Host]) /\ ListOK(players[Host])

RosterInv ==
  /\ hurried \in BOOLEAN
  /\ ~hurried => /\ TypeOK /\ ListIsOK
                 /\ IF status[Host] = "out" THEN HostOut ELSE HostPlays

\* As many colours as programs.
EnoughColors == IsFiniteSet(Client) /\ Cardinality(Client) <= Len(playerColors)

-----------------------------------------------------------------------------
(* Sequences.                                                              *)

\* new is what old begins with its second element.
Popped(new, old) ==
  /\ Len(old) \in Nat /\ Len(old) >= 1 /\ DOMAIN old = 1 .. Len(old)
  /\ Len(new) = Len(old) - 1 /\ DOMAIN new = 1 .. Len(new)
  /\ \A i \in 1 .. Len(new) : new[i] = old[i + 1]

\* new is old and then p.
Pushed(new, old, p) ==
  /\ Len(old) \in Nat /\ DOMAIN old = 1 .. Len(old)
  /\ Len(new) = Len(old) + 1 /\ DOMAIN new = 1 .. Len(new)
  /\ \A i \in 1 .. Len(old) : new[i] = old[i]
  /\ new[Len(new)] = p

LEMMA SequenceOf ==
  ASSUME NEW S, NEW s \in Seq(S)
  PROVE  Sequence(s)
<1>1. Len(s) \in Nat /\ DOMAIN s = 1 .. Len(s)
  OBVIOUS
<1>2. s = [i \in 1 .. Len(s) |-> s[i]]
  OBVIOUS
<1>3. s \in [1 .. Len(s) -> {s[i] : i \in DOMAIN s}]
  BY <1>1, <1>2
<1> QED BY <1>1, <1>3 DEF Sequence

LEMMA SequenceDomain ==
  ASSUME NEW s, Sequence(s)
  PROVE  /\ Len(s) \in Nat /\ DOMAIN s = 1 .. Len(s)
         /\ s = <<>> <=> Len(s) = 0
BY DEF Sequence

LEMMA SequenceEmpty == Sequence(<<>>) /\ Len(<<>>) = 0 /\ DOMAIN <<>> = {}
<1>1. <<>> \in Seq({}) /\ Len(<<>>) = 0 /\ DOMAIN <<>> = {}
  OBVIOUS
<1> QED BY <1>1, SequenceOf

LEMMA TailPops ==
  ASSUME NEW s, Sequence(s), s # <<>>
  PROVE  /\ Popped(Tail(s), s) /\ Head(s) = s[1]
         /\ Sequence(Tail(s))
<1> DEFINE S == {s[i] : i \in DOMAIN s}
<1>1. s \in Seq(S)
  BY DEF Sequence
<1> HIDE DEF S
<1>2. Tail(s) \in Seq(S) /\ Len(Tail(s)) = Len(s) - 1 /\ Len(s) >= 1
  BY <1>1
<1>3. \A i \in 1 .. Len(Tail(s)) : Tail(s)[i] = s[i + 1]
  BY <1>1, <1>2
<1>4. DOMAIN s = 1 .. Len(s) /\ DOMAIN Tail(s) = 1 .. Len(Tail(s)) /\ Len(s) \in Nat
  BY <1>1, <1>2
<1>5. Head(s) = s[1]
  BY <1>1
<1> QED BY <1>2, <1>3, <1>4, <1>5, SequenceOf DEF Popped

LEMMA AppendPushes ==
  ASSUME NEW s, NEW p, Sequence(s)
  PROVE  Pushed(Append(s, p), s, p) /\ Sequence(Append(s, p))
<1> DEFINE S == {s[i] : i \in DOMAIN s} \cup {p}
<1>1. s \in Seq(S)
  <2> DEFINE T == {s[i] : i \in DOMAIN s}
  <2>1. s \in Seq(T) /\ T \subseteq S
    BY DEF Sequence
  <2> HIDE DEF T, S
  <2> QED BY <2>1
<1>2. p \in S
  OBVIOUS
<1> HIDE DEF S
<1>3. Append(s, p) \in Seq(S) /\ Len(Append(s, p)) = Len(s) + 1
  BY <1>1, <1>2
<1>4. \A i \in 1 .. Len(s) : Append(s, p)[i] = s[i]
  BY <1>1, <1>2
<1>5. Append(s, p)[Len(s) + 1] = p
  BY <1>1, <1>2
<1>6. DOMAIN s = 1 .. Len(s) /\ DOMAIN Append(s, p) = 1 .. Len(Append(s, p)) /\ Len(s) \in Nat
  BY <1>1, <1>3
<1> QED BY <1>3, <1>4, <1>5, <1>6, SequenceOf DEF Pushed

\* What is left of a channel when its program hangs up.
Cut(s, k, p) == Append(SubSeq(s, 1, k), p)

LEMMA PrefixPushes ==
  ASSUME NEW s, NEW p, Sequence(s), NEW k \in Nat, k <= Len(s), NEW t, t = Cut(s, k, p)
  PROVE  /\ Sequence(t) /\ DOMAIN t = 1 .. k + 1 /\ Len(t) = k + 1
         /\ \A i \in 1 .. k : t[i] = s[i]
         /\ t[k + 1] = p
<1> DEFINE S == {s[i] : i \in DOMAIN s}
           r == SubSeq(s, 1, k)
<1>1. s \in Seq(S) /\ Len(s) \in Nat
  BY DEF Sequence
<1> HIDE DEF S
<1>2. r \in Seq(S) /\ Len(r) = k /\ \A i \in 1 .. k : r[i] = s[i]
  BY <1>1
<1>3. Sequence(r)
  BY <1>2, SequenceOf
<1> HIDE DEF r
<1>4. Pushed(Append(r, p), r, p) /\ Sequence(Append(r, p))
  BY <1>3, AppendPushes
<1>5. QED
  BY <1>2, <1>4 DEF Pushed, Cut, r

-----------------------------------------------------------------------------
(* What a step leaves of a channel that it only shortens, or adds other    *)
(* things to.                                                              *)

\* What matters of c in the channel to the host (1), from the host (2), to c (3)
\* and from c (4).
Mark(k, c, p) ==
  \/ k = 1 /\ (Wants(c, p) \/ Joined(c, p) \/ Colors(c, p))
  \/ k = 2 /\ (Answers(c, p) \/ Colors(c, p))
  \/ k = 3 /\ Accepts(p)
  \/ k = 4 /\ Greets(p)

\* What matters in new is in old too, s places further on.
Fewer(k, c, new, old) ==
  \E s \in Nat : \A i \in DOMAIN new : Mark(k, c, new[i]) => i + s \in DOMAIN old /\ new[i] = old[i + s]

\* In the channel to the host, and no news that c has left are missing.
HostFewer(c, new, old) ==
  \E s \in Nat :
    /\ \A i \in DOMAIN new :
         Mark(1, c, new[i]) => i + s \in DOMAIN old /\ new[i] = old[i + s]
    /\ \A i \in DOMAIN old : Left(c, old[i]) => i - s \in DOMAIN new /\ new[i - s] = old[i]

ListKept(c, new, old) ==
  \A x \in DOMAIN new : new[x].id = c =>
    \E y \in DOMAIN old : old[y].id = c /\ old[y].color = new[x].color

LEMMA FewerSame == \A k, c, s : Sequence(s) => Fewer(k, c, s, s) /\ HostFewer(c, s, s)
<1> SUFFICES ASSUME NEW k, NEW c, NEW s, Sequence(s) PROVE Fewer(k, c, s, s) /\ HostFewer(c, s, s)
  OBVIOUS
<1>1. DOMAIN s = 1 .. Len(s) /\ Len(s) \in Nat
  BY SequenceDomain
<1>2. 0 \in Nat /\ \A i \in DOMAIN s : i + 0 = i /\ i - 0 = i
  BY <1>1
<1>3. Fewer(k, c, s, s)
  BY <1>2 DEF Fewer
<1>4. HostFewer(c, s, s)
  BY <1>2 DEF HostFewer
<1> QED BY <1>3, <1>4

LEMMA FewerPopped == \A k, c, new, old : Popped(new, old) => Fewer(k, c, new, old)
<1> SUFFICES ASSUME NEW k, NEW c, NEW new, NEW old, Popped(new, old) PROVE Fewer(k, c, new, old)
  OBVIOUS
<1>1. \A i \in DOMAIN new : i + 1 \in DOMAIN old /\ new[i] = old[i + 1]
  BY DEF Popped
<1>2. 1 \in Nat
  OBVIOUS
<1> QED BY <1>1, <1>2 DEF Fewer

LEMMA HostFewerPopped ==
  \A c, new, old : Popped(new, old) /\ ~Left(c, old[1]) => HostFewer(c, new, old)
<1> SUFFICES ASSUME NEW c, NEW new, NEW old, Popped(new, old), ~Left(c, old[1])
             PROVE  HostFewer(c, new, old)
  OBVIOUS
<1>1. \A i \in DOMAIN new : i + 1 \in DOMAIN old /\ new[i] = old[i + 1]
  BY DEF Popped
<1>2. \A i \in DOMAIN old : Left(c, old[i]) => i - 1 \in DOMAIN new /\ new[i - 1] = old[i]
  <2> SUFFICES ASSUME NEW i \in DOMAIN old, Left(c, old[i]) PROVE i - 1 \in DOMAIN new /\ new[i - 1] = old[i]
    OBVIOUS
  <2>1. i # 1
    OBVIOUS
  <2>2. i - 1 \in 1 .. Len(new)
    BY <2>1 DEF Popped
  <2> QED BY <2>2 DEF Popped
<1>3. 1 \in Nat
  OBVIOUS
<1> QED BY <1>1, <1>2, <1>3 DEF HostFewer

LEMMA FewerPushed ==
  \A k, c, new, old, p : Pushed(new, old, p) /\ ~Mark(k, c, p) => Fewer(k, c, new, old)
<1> SUFFICES ASSUME NEW k, NEW c, NEW new, NEW old, NEW p, Pushed(new, old, p), ~Mark(k, c, p)
             PROVE  Fewer(k, c, new, old)
  OBVIOUS
<1>1. \A i \in DOMAIN new : Mark(k, c, new[i]) => i + 0 \in DOMAIN old /\ new[i] = old[i + 0]
  <2> SUFFICES ASSUME NEW i \in DOMAIN new, Mark(k, c, new[i]) PROVE i + 0 \in DOMAIN old /\ new[i] = old[i + 0]
    OBVIOUS
  <2>1. i # Len(new)
    BY DEF Pushed
  <2> QED BY <2>1 DEF Pushed
<1>2. 0 \in Nat
  OBVIOUS
<1> QED BY <1>1, <1>2 DEF Fewer

LEMMA HostFewerPushed ==
  \A c, new, old, p : Pushed(new, old, p) /\ ~Mark(1, c, p) => HostFewer(c, new, old)
<1> SUFFICES ASSUME NEW c, NEW new, NEW old, NEW p, Pushed(new, old, p), ~Mark(1, c, p)
             PROVE  HostFewer(c, new, old)
  OBVIOUS
<1>1. \A i \in DOMAIN new : Mark(1, c, new[i]) => i + 0 \in DOMAIN old /\ new[i] = old[i + 0]
  <2> SUFFICES ASSUME NEW i \in DOMAIN new, Mark(1, c, new[i]) PROVE i + 0 \in DOMAIN old /\ new[i] = old[i + 0]
    OBVIOUS
  <2>1. i # Len(new)
    BY DEF Pushed
  <2> QED BY <2>1 DEF Pushed
<1>2. \A i \in DOMAIN old : i - 0 \in DOMAIN new /\ new[i - 0] = old[i]
  BY DEF Pushed
<1>3. 0 \in Nat
  OBVIOUS
<1> QED BY <1>1, <1>2, <1>3 DEF HostFewer

\* What a step leaves in order with c that it is not about.
LEMMA ClientKept ==
  ASSUME NEW c, NEW dh, NEW uh, NEW dc, NEW uc, NEW list, NEW m,
         NEW dh2, NEW uh2, NEW dc2, NEW uc2, NEW list2, NEW m2,
         Sequence(dh), Sequence(uh), Sequence(dc), Sequence(uc), 
         Sequence(dh2), Sequence(uh2), Sequence(dc2), Sequence(uc2), 
         ClientOK(c, dh, uh, dc, uc, list, m),
         HostFewer(c, dh2, dh), Fewer(2, c, uh2, uh), Fewer(3, c, dc2, dc), Fewer(4, c, uc2, uc),
         ListKept(c, list2, list), m2 \/ ~m
  PROVE  ClientOK(c, dh2, uh2, dc2, uc2, list2, m2)
<1>0. /\ DOMAIN dh = 1 .. Len(dh) /\ Len(dh) \in Nat /\ DOMAIN uh = 1 .. Len(uh) /\ Len(uh) \in Nat
      /\ DOMAIN dc = 1 .. Len(dc) /\ Len(dc) \in Nat /\ DOMAIN uc = 1 .. Len(uc) /\ Len(uc) \in Nat
      /\ DOMAIN dh2 = 1 .. Len(dh2) /\ Len(dh2) \in Nat /\ DOMAIN uh2 = 1 .. Len(uh2) /\ Len(uh2) \in Nat
      /\ DOMAIN dc2 = 1 .. Len(dc2) /\ Len(dc2) \in Nat /\ DOMAIN uc2 = 1 .. Len(uc2) /\ Len(uc2) \in Nat
  BY SequenceDomain
<1>1. PICK s1 \in Nat :
        /\ \A i \in DOMAIN dh2 : Mark(1, c, dh2[i]) => i + s1 \in DOMAIN dh /\ dh2[i] = dh[i + s1]
        /\ \A i \in DOMAIN dh : Left(c, dh[i]) => i - s1 \in DOMAIN dh2 /\ dh2[i - s1] = dh[i]
  BY DEF HostFewer
<1>2. PICK s2 \in Nat : \A i \in DOMAIN uh2 : Mark(2, c, uh2[i]) => i + s2 \in DOMAIN uh /\ uh2[i] = uh[i + s2]
  BY DEF Fewer
<1>3. PICK s3 \in Nat : \A i \in DOMAIN dc2 : Mark(3, c, dc2[i]) => i + s3 \in DOMAIN dc /\ dc2[i] = dc[i + s3]
  BY DEF Fewer
<1>4. PICK s4 \in Nat : \A i \in DOMAIN uc2 : Mark(4, c, uc2[i]) => i + s4 \in DOMAIN uc /\ uc2[i] = uc[i + s4]
  BY DEF Fewer
<1>5. /\ \A p : Wants(c, p) => Mark(1, c, p)
      /\ \A p : Joined(c, p) => Mark(1, c, p)
      /\ \A p : Colors(c, p) => Mark(1, c, p) /\ Mark(2, c, p)
      /\ \A p : Answers(c, p) => Mark(2, c, p)
      /\ \A p : Accepts(p) => Mark(3, c, p)
      /\ \A p : Greets(p) => Mark(4, c, p)
  BY DEF Mark
<1> DEFINE Tok(k, i) == Token(c, dh, uh, dc, uc, k, i)
           Tok2(k, i) == Token(c, dh2, uh2, dc2, uc2, k, i)
           shift(k) == IF k = 1 THEN s1 ELSE IF k = 2 THEN s2 ELSE IF k = 3 THEN s3 ELSE s4
<1>6. \A k \in 1 .. 4, i \in Nat : Tok2(k, i) => Tok(k, i + shift(k)) /\ i + shift(k) \in Nat
  <2> SUFFICES ASSUME NEW k \in 1 .. 4, NEW i \in Nat, Tok2(k, i) PROVE Tok(k, i + shift(k)) /\ i + shift(k) \in Nat
    OBVIOUS
  <2>1. CASE k = 1
    BY <2>1, <1>1, <1>5 DEF Token
  <2>2. CASE k = 2
    BY <2>2, <1>2, <1>5 DEF Token
  <2>3. CASE k = 3
    BY <2>3, <1>3, <1>5 DEF Token
  <2>4. CASE k = 4
    BY <2>4, <1>4, <1>5 DEF Token
  <2> QED BY <2>1, <2>2, <2>3, <2>4
<1>7. \A k \in 1 .. 4, i \in Nat : shift(k) \in Nat
  OBVIOUS
<1>8. /\ \A i \in DOMAIN dh2 : Joined(c, dh2[i]) => i + s1 \in DOMAIN dh /\ dh2[i] = dh[i + s1] /\ Joined(c, dh[i + s1])
      /\ \A i \in DOMAIN dh2 : Colors(c, dh2[i]) => i + s1 \in DOMAIN dh /\ dh2[i] = dh[i + s1] /\ Colors(c, dh[i + s1])
      /\ \A i \in DOMAIN uh2 : Colors(c, uh2[i]) => i + s2 \in DOMAIN uh /\ uh2[i] = uh[i + s2] /\ Colors(c, uh[i + s2])
  BY <1>1, <1>2, <1>5
<1>9. AnyToken(c, dh2, uh2, dc2, uc2) => AnyToken(c, dh, uh, dc, uc)
  BY <1>6 DEF AnyToken
<1>10. OneToken(c, dh2, uh2, dc2, uc2)
  <2>1. \A k, l \in 1 .. 4 : \A i, j \in Nat : Tok(k, i) /\ Tok(l, j) => k = l /\ i = j
    BY DEF ClientOK, OneToken
  <2> HIDE DEF Tok, Tok2, shift
  <2>2. ASSUME NEW k \in 1 .. 4, NEW l \in 1 .. 4, NEW i \in Nat, NEW j \in Nat, Tok2(k, i), Tok2(l, j)
        PROVE  k = l /\ i = j
    <3>1. k = l /\ i + shift(k) = j + shift(l)
      BY <2>1, <2>2, <1>6
    <3> QED BY <3>1, <1>7
  <2>3. QED
    BY <2>2 DEF OneToken, Tok2
<1>11. \A n \in Nat : Absent(c, dh, list, n + s1) => Absent(c, dh2, list2, n)
  <2> SUFFICES ASSUME NEW n \in Nat, Absent(c, dh, list, n + s1) PROVE Absent(c, dh2, list2, n)
    OBVIOUS
  <2>1. Listed(c, list2) => \E k \in DOMAIN dh2 : k < n /\ Left(c, dh2[k])
    <3> SUFFICES ASSUME Listed(c, list2) PROVE \E k \in DOMAIN dh2 : k < n /\ Left(c, dh2[k])
      OBVIOUS
    <3>1. Listed(c, list)
      BY DEF Listed, ListKept
    <3>2. PICK k \in DOMAIN dh : k < n + s1 /\ Left(c, dh[k])
      BY <3>1 DEF Absent
    <3>3. k - s1 \in DOMAIN dh2 /\ Left(c, dh2[k - s1])
      BY <3>2, <1>1
    <3>4. k - s1 < n
      <4>1. k \in Nat
        BY <1>0
      <4> HIDE DEF Tok, Tok2, shift
      <4> QED BY <3>2, <4>1
    <3> QED BY <3>3, <3>4
  <2>2. ASSUME NEW j \in DOMAIN dh2, j < n, Joined(c, dh2[j])
        PROVE  \E k \in DOMAIN dh2 : j < k /\ k < n /\ Left(c, dh2[k])
    <3>1. j + s1 \in DOMAIN dh /\ Joined(c, dh[j + s1]) /\ j + s1 < n + s1
      BY <2>2, <1>8, <1>0
    <3>2. PICK k \in DOMAIN dh : j + s1 < k /\ k < n + s1 /\ Left(c, dh[k])
      BY <3>1 DEF Absent
    <3>3. k - s1 \in DOMAIN dh2 /\ Left(c, dh2[k - s1])
      BY <3>2, <1>1
    <3>4. j < k - s1 /\ k - s1 < n
      <4>1. k \in Nat /\ j \in Nat
        BY <1>0
      <4> HIDE DEF Tok, Tok2, shift
      <4> QED BY <3>2, <4>1
    <3> QED BY <3>3, <3>4
  <2> QED BY <2>1, <2>2 DEF Absent
<1>12. Absent(c, dh, list, Len(dh) + 1) => Absent(c, dh2, list2, Len(dh2) + 1)
  <2> SUFFICES ASSUME Absent(c, dh, list, Len(dh) + 1) PROVE Absent(c, dh2, list2, Len(dh2) + 1)
    OBVIOUS
  <2>1. Listed(c, list2) => \E k \in DOMAIN dh2 : k < Len(dh2) + 1 /\ Left(c, dh2[k])
    <3> SUFFICES ASSUME Listed(c, list2) PROVE \E k \in DOMAIN dh2 : k < Len(dh2) + 1 /\ Left(c, dh2[k])
      OBVIOUS
    <3>1. Listed(c, list)
      BY DEF Listed, ListKept
    <3>2. PICK k \in DOMAIN dh : Left(c, dh[k])
      BY <3>1 DEF Absent
    <3>3. k - s1 \in DOMAIN dh2 /\ Left(c, dh2[k - s1])
      BY <3>2, <1>1
    <3>4. k - s1 < Len(dh2) + 1
      <4>1. DOMAIN dh2 = 1 .. Len(dh2) /\ Len(dh2) \in Nat
        BY <1>0
      <4> HIDE DEF Tok, Tok2, shift
      <4> QED BY <3>3, <4>1
    <3> QED BY <3>3, <3>4
  <2>2. ASSUME NEW j \in DOMAIN dh2, j < Len(dh2) + 1, Joined(c, dh2[j])
        PROVE  \E k \in DOMAIN dh2 : j < k /\ k < Len(dh2) + 1 /\ Left(c, dh2[k])
    <3>1. j + s1 \in DOMAIN dh /\ Joined(c, dh[j + s1]) /\ j + s1 < Len(dh) + 1
      <4>1. j + s1 \in DOMAIN dh /\ Joined(c, dh[j + s1])
        BY <2>2, <1>8
      <4>2. DOMAIN dh = 1 .. Len(dh) /\ Len(dh) \in Nat
        BY <1>0
      <4> QED BY <4>1, <4>2
    <3>2. PICK k \in DOMAIN dh : j + s1 < k /\ Left(c, dh[k])
      BY <3>1 DEF Absent
    <3>3. k - s1 \in DOMAIN dh2 /\ Left(c, dh2[k - s1])
      BY <3>2, <1>1
    <3>4. j < k - s1 /\ k - s1 < Len(dh2) + 1
      <4>1. DOMAIN dh2 = 1 .. Len(dh2) /\ Len(dh2) \in Nat /\ k \in Nat
        BY <1>0
      <4> HIDE DEF Tok, Tok2, shift
      <4>2. k - s1 < Len(dh2) + 1
        BY <3>3, <4>1
      <4>3. j \in Nat
        BY <4>1
      <4>4. j < k - s1
        BY <3>2, <4>1, <4>3
      <4> QED BY <4>2, <4>4
    <3> QED BY <3>3, <3>4
  <2> QED BY <2>1, <2>2 DEF Absent
<1>13. Unlisted(c, dh2, uh2, dc2, uc2, list2, m2)
  <2>0. Unlisted(c, dh, uh, dc, uc, list, m)
    BY DEF ClientOK
  <2>1. ASSUME NEW i \in DOMAIN dh2, Joined(c, dh2[i]) PROVE Absent(c, dh2, list2, i)
    <3>1. i \in Nat /\ Absent(c, dh, list, i + s1)
      BY <2>0, <2>1, <1>8, <1>0 DEF Unlisted
    <3> QED BY <3>1, <1>11
  <2>2. ~m2 \/ AnyToken(c, dh2, uh2, dc2, uc2) => Absent(c, dh2, list2, Len(dh2) + 1)
    BY <2>0, <1>9, <1>12 DEF Unlisted
  <2> QED BY <2>1, <2>2 DEF Unlisted
<1>14. GreetingLast(c, dh2, uh2, dc2, uc2)
  <2>1. ASSUME NEW j \in DOMAIN dh2, Joined(c, dh2[j])
        PROVE  /\ \A k \in 1 .. 4, i \in Nat : Tok2(k, i) => k = 1 /\ j < i
               /\ \A i \in DOMAIN uh2 : ~Colors(c, uh2[i])
               /\ \A i \in DOMAIN dh2 : /\ Colors(c, dh2[i]) => i < j
                                        /\ Joined(c, dh2[i]) => i = j
    <3>1. j + s1 \in DOMAIN dh /\ Joined(c, dh[j + s1])
      BY <2>1, <1>8
    <3>2. /\ \A k \in 1 .. 4, i \in Nat : Tok(k, i) => k = 1 /\ j + s1 < i
          /\ \A i \in DOMAIN uh : ~Colors(c, uh[i])
          /\ \A i \in DOMAIN dh : /\ Colors(c, dh[i]) => i < j + s1
                                  /\ Joined(c, dh[i]) => i = j + s1
      BY <3>1 DEF ClientOK, GreetingLast
    <3>3. \A k \in 1 .. 4, i \in Nat : Tok2(k, i) => k = 1 /\ j < i
      <4> SUFFICES ASSUME NEW k \in 1 .. 4, NEW i \in Nat, Tok2(k, i) PROVE k = 1 /\ j < i
        OBVIOUS
      <4> HIDE DEF Tok, Tok2
      <4>1. k = 1 /\ j + s1 < i + shift(k)
        BY <3>2, <1>6
      <4> QED BY <4>1, <1>0
    <3>4. \A i \in DOMAIN uh2 : ~Colors(c, uh2[i])
      BY <3>2, <1>8
    <3>5. ASSUME NEW i \in DOMAIN dh2 PROVE (Colors(c, dh2[i]) => i < j) /\ (Joined(c, dh2[i]) => i = j)
      <4>1. i \in Nat /\ j \in Nat
        BY <1>0
      <4>2. Colors(c, dh2[i]) => i + s1 < j + s1
        BY <3>2, <1>8
      <4>3. Joined(c, dh2[i]) => i + s1 = j + s1
        BY <3>2, <1>8
      <4> HIDE DEF Tok, Tok2, shift
      <4> QED BY <4>1, <4>2, <4>3
    <3> QED BY <3>3, <3>4, <3>5
  <2> QED BY <2>1 DEF GreetingLast
<1>15. ColorsFirst(c, dh2, uh2, dc2, uc2)
  <2>1. ASSUME NEW k \in 2 .. 4, NEW i \in Nat, Tok2(k, i), NEW j \in DOMAIN uh2, Colors(c, uh2[j])
        PROVE  k = 2 /\ j < i
    <3>1. Tok(k, i + shift(k)) /\ i + shift(k) \in Nat
      BY <2>1, <1>6
    <3>2. j + s2 \in DOMAIN uh /\ Colors(c, uh[j + s2])
      BY <2>1, <1>8
    <3> HIDE DEF shift
    <3>3. k = 2 /\ j + s2 < i + shift(k)
      BY <3>1, <3>2 DEF ClientOK, ColorsFirst
    <3> QED BY <3>3, <1>0 DEF shift
  <2> QED BY <2>1 DEF ColorsFirst
<1>16. ColorsTrue(c, dh2, uh2, list2)
  <2>1. ASSUME NEW x \in DOMAIN list2, list2[x].id = c
        PROVE  /\ \A i \in DOMAIN uh2 : Colors(c, uh2[i]) => uh2[i].body.color = list2[x].color
               /\ \A i \in DOMAIN dh2 : Colors(c, dh2[i]) => dh2[i].body.color = list2[x].color
    <3>1. PICK y \in DOMAIN list : list[y].id = c /\ list[y].color = list2[x].color
      BY <2>1 DEF ListKept
    <3>2. /\ \A i \in DOMAIN uh : Colors(c, uh[i]) => uh[i].body.color = list[y].color
          /\ \A i \in DOMAIN dh : Colors(c, dh[i]) => dh[i].body.color = list[y].color
      BY <3>1 DEF ClientOK, ColorsTrue
    <3> QED BY <3>1, <3>2, <1>8
  <2> QED BY <2>1 DEF ColorsTrue
<1> QED BY <1>10, <1>13, <1>14, <1>15, <1>16 DEF ClientOK

-----------------------------------------------------------------------------
(* The steps that a player's coming and going consists of.                 *)

\* A packet is at most one of these.
LEMMA Kinds ==
  ASSUME NEW c, NEW p
  PROVE  /\ Wants(c, p) => ~Joined(c, p) /\ ~Left(c, p) /\ ~Colors(c, p)
         /\ Joined(c, p) => ~Wants(c, p) /\ ~Left(c, p) /\ ~Colors(c, p)
         /\ Left(c, p) => ~Wants(c, p) /\ ~Joined(c, p) /\ ~Colors(c, p)
         /\ Colors(c, p) => ~Wants(c, p) /\ ~Joined(c, p) /\ ~Left(c, p)
BY DEF Wants, Joined, Left, Colors

\* The server asks the host to let him in.
LEMMA Requested ==
  ASSUME NEW c, NEW dh, NEW uh, NEW dc, NEW uc, NEW list, NEW m, NEW dh2, NEW p, NEW m2,
         Sequence(dh), ClientOK(c, dh, uh, dc, uc, list, m),
         ~AnyToken(c, dh, uh, dc, uc), ~m,
         Pushed(dh2, dh, p), Wants(c, p)
  PROVE  ClientOK(c, dh2, uh, dc, uc, list, m2)
<1> DEFINE n == Len(dh2)
           Tok(k, i) == Token(c, dh, uh, dc, uc, k, i)
           Tok2(k, i) == Token(c, dh2, uh, dc, uc, k, i)
<1>0. /\ DOMAIN dh = 1 .. Len(dh) /\ Len(dh) \in Nat /\ n = Len(dh) + 1 /\ DOMAIN dh2 = 1 .. n
      /\ dh2[n] = p /\ \A i \in DOMAIN dh : dh2[i] = dh[i]
  BY DEF Pushed
<1>1. \A i \in DOMAIN dh2 : Joined(c, dh2[i]) \/ Left(c, dh2[i]) \/ Colors(c, dh2[i]) => i \in DOMAIN dh /\ i < n /\ dh2[i] = dh[i]
  BY <1>0, Kinds
<1>2. \A k \in 1 .. 4, i \in Nat : Tok2(k, i) => k = 1 /\ i = n
  <2>1. \A k \in 1 .. 4, i \in Nat : ~Tok(k, i)
    BY DEF AnyToken
  <2>2. \A k \in 1 .. 4, i \in Nat : Tok2(k, i) => Tok(k, i) \/ (k = 1 /\ i = n)
    BY <1>0 DEF Token
  <2> QED BY <2>1, <2>2
<1> HIDE DEF n, Tok, Tok2
<1>3. OneToken(c, dh2, uh, dc, uc)
  BY <1>2 DEF OneToken, Tok2
<1>4. Absent(c, dh, list, Len(dh) + 1)
  BY DEF ClientOK, Unlisted
<1>5. \A j \in Nat : Absent(c, dh, list, j) /\ j <= n => Absent(c, dh2, list, j)
  BY <1>0, <1>1 DEF Absent
<1>6. Absent(c, dh2, list, n + 1)
  <2>1. Absent(c, dh2, list, n)
    BY <1>0, <1>4, <1>5
  <2> QED BY <2>1, <1>0, <1>1 DEF Absent
<1>7. Unlisted(c, dh2, uh, dc, uc, list, m2)
  <2>1. ASSUME NEW i \in DOMAIN dh2, Joined(c, dh2[i]) PROVE Absent(c, dh2, list, i)
    <3>1. i \in DOMAIN dh /\ Joined(c, dh[i]) /\ i \in Nat /\ i <= n
      BY <2>1, <1>0, <1>1
    <3>2. Absent(c, dh, list, i)
      BY <3>1 DEF ClientOK, Unlisted
    <3> QED BY <3>1, <3>2, <1>5
  <2> QED BY <2>1, <1>6 DEF Unlisted, n
<1>8. GreetingLast(c, dh2, uh, dc, uc)
  <2>1. ASSUME NEW j \in DOMAIN dh2, Joined(c, dh2[j])
        PROVE  /\ \A k \in 1 .. 4, i \in Nat : Tok2(k, i) => k = 1 /\ j < i
               /\ \A i \in DOMAIN uh : ~Colors(c, uh[i])
               /\ \A i \in DOMAIN dh2 : /\ Colors(c, dh2[i]) => i < j
                                        /\ Joined(c, dh2[i]) => i = j
    <3>1. j \in DOMAIN dh /\ Joined(c, dh[j]) /\ j < n
      BY <2>1, <1>1
    <3>2. /\ \A i \in DOMAIN uh : ~Colors(c, uh[i])
          /\ \A i \in DOMAIN dh : /\ Colors(c, dh[i]) => i < j
                                  /\ Joined(c, dh[i]) => i = j
      BY <3>1 DEF ClientOK, GreetingLast
    <3> QED BY <3>1, <3>2, <1>1, <1>2
  <2> QED BY <2>1 DEF GreetingLast, Tok2
<1>9. ColorsFirst(c, dh2, uh, dc, uc)
  BY <1>2 DEF ColorsFirst, Tok2
<1>10. ColorsTrue(c, dh2, uh, list)
  <2>1. \A i \in DOMAIN dh2 : Colors(c, dh2[i]) => i \in DOMAIN dh /\ dh2[i] = dh[i] /\ Colors(c, dh[i])
    BY <1>1
  <2>2. ColorsTrue(c, dh, uh, list)
    BY DEF ClientOK
  <2> QED BY <2>1, <2>2 DEF ColorsTrue
<1> QED BY <1>3, <1>7, <1>8, <1>9, <1>10 DEF ClientOK

\* The host answers him.
LEMMA Answered ==
  ASSUME NEW c, NEW dh, NEW uh, NEW dc, NEW uc, NEW list, NEW m, NEW dh2, NEW uh2, NEW p,
         Sequence(dh), Sequence(uh), ClientOK(c, dh, uh, dc, uc, list, m),
         Popped(dh2, dh), Wants(c, dh[1]),
         Pushed(uh2, uh, p), Answers(c, p), ~Colors(c, p)
  PROVE  ClientOK(c, dh2, uh2, dc, uc, list, m)
<1> DEFINE n == Len(uh2)
           Tok(k, i) == Token(c, dh, uh, dc, uc, k, i)
           Tok2(k, i) == Token(c, dh2, uh2, dc, uc, k, i)
<1>0. /\ DOMAIN dh = 1 .. Len(dh) /\ Len(dh) \in Nat /\ Len(dh) >= 1
      /\ Len(dh2) = Len(dh) - 1 /\ DOMAIN dh2 = 1 .. Len(dh2)
      /\ \A i \in DOMAIN dh2 : i + 1 \in DOMAIN dh /\ dh2[i] = dh[i + 1]
      /\ \A i \in DOMAIN dh : i > 1 => i - 1 \in DOMAIN dh2 /\ dh2[i - 1] = dh[i]
  BY DEF Popped
<1>1. /\ DOMAIN uh = 1 .. Len(uh) /\ Len(uh) \in Nat /\ n = Len(uh) + 1 /\ DOMAIN uh2 = 1 .. n
      /\ uh2[n] = p /\ \A i \in DOMAIN uh : uh2[i] = uh[i]
  BY DEF Pushed
<1>2. Tok(1, 1)
  BY <1>0 DEF Token
<1>3. \A k \in 1 .. 4, i \in Nat : Tok(k, i) => k = 1 /\ i = 1
  BY <1>2 DEF ClientOK, OneToken
<1>4. \A k \in 1 .. 4, i \in Nat : Tok2(k, i) => k = 2 /\ i = n
  <2> SUFFICES ASSUME NEW k \in 1 .. 4, NEW i \in Nat, Tok2(k, i) PROVE k = 2 /\ i = n
    OBVIOUS
  <2>1. ~(k = 1)
    <3> SUFFICES ASSUME k = 1 PROVE FALSE
      OBVIOUS
    <3>1. Tok(1, i + 1) /\ i + 1 \in Nat /\ i + 1 # 1
      BY <1>0 DEF Token
    <3> QED BY <3>1, <1>3
  <2>2. ~(k \in {3, 4})
    <3> SUFFICES ASSUME k \in {3, 4} PROVE FALSE
      OBVIOUS
    <3>1. Tok(k, i)
      BY DEF Token
    <3> QED BY <3>1, <1>3
  <2>3. ASSUME k = 2, i # n PROVE FALSE
    <3>1. Tok(2, i)
      BY <2>3, <1>1 DEF Token
    <3> QED BY <3>1, <1>3
  <2> QED BY <2>1, <2>2, <2>3
<1> HIDE DEF n, Tok, Tok2
<1>5. \A j \in DOMAIN dh : ~Joined(c, dh[j])
  BY <1>0, <1>2 DEF ClientOK, GreetingLast, Tok
<1>6. \A j \in DOMAIN dh2 : ~Joined(c, dh2[j])
  BY <1>0, <1>5
<1>7. OneToken(c, dh2, uh2, dc, uc)
  BY <1>4 DEF OneToken, Tok2
<1>8. AnyToken(c, dh, uh, dc, uc)
  BY <1>2 DEF AnyToken, Tok
<1>9. Absent(c, dh, list, Len(dh) + 1)
  BY <1>8 DEF ClientOK, Unlisted
<1>10. Absent(c, dh2, list, Len(dh2) + 1)
  <2>1. Listed(c, list) => \E k \in DOMAIN dh2 : k < Len(dh2) + 1 /\ Left(c, dh2[k])
    <3> SUFFICES ASSUME Listed(c, list) PROVE \E k \in DOMAIN dh2 : k < Len(dh2) + 1 /\ Left(c, dh2[k])
      OBVIOUS
    <3>1. PICK k \in DOMAIN dh : Left(c, dh[k])
      BY <1>9 DEF Absent
    <3>2. k # 1
      BY <3>1, Kinds
    <3>3. k - 1 \in DOMAIN dh2 /\ k - 1 < Len(dh2) + 1 /\ Left(c, dh2[k - 1])
      BY <3>1, <3>2, <1>0
    <3> QED BY <3>3
  <2> QED BY <2>1, <1>6 DEF Absent
<1>11. Unlisted(c, dh2, uh2, dc, uc, list, m)
  BY <1>6, <1>10 DEF Unlisted
<1>12. GreetingLast(c, dh2, uh2, dc, uc)
  BY <1>6 DEF GreetingLast
<1>13. \A j \in DOMAIN uh2 : Colors(c, uh2[j]) => j \in DOMAIN uh /\ uh2[j] = uh[j] /\ j < n
  BY <1>1
<1>14. ColorsFirst(c, dh2, uh2, dc, uc)
  BY <1>4, <1>13 DEF ColorsFirst, Tok2
<1>15. ColorsTrue(c, dh2, uh2, list)
  <2>1. ColorsTrue(c, dh, uh, list)
    BY DEF ClientOK
  <2>2. \A i \in DOMAIN dh2 : Colors(c, dh2[i]) => i + 1 \in DOMAIN dh /\ dh2[i] = dh[i + 1]
    BY <1>0
  <2> QED BY <2>1, <2>2, <1>13 DEF ColorsTrue
<1> QED BY <1>7, <1>11, <1>12, <1>14, <1>15 DEF ClientOK

\* The server hands him the answer.
LEMMA Delivered ==
  ASSUME NEW c, NEW dh, NEW uh, NEW dc, NEW uc, NEW list, NEW m, NEW uh2, NEW dc2, NEW p,
         Sequence(dh), Sequence(uh), Sequence(dc), ClientOK(c, dh, uh, dc, uc, list, m),
         Popped(uh2, uh), Answers(c, uh[1]), Pushed(dc2, dc, p)
  PROVE  ClientOK(c, dh, uh2, dc2, uc, list, m)
<1> DEFINE n == Len(dc2)
           Tok(k, i) == Token(c, dh, uh, dc, uc, k, i)
           Tok2(k, i) == Token(c, dh, uh2, dc2, uc, k, i)
<1>0. /\ DOMAIN uh = 1 .. Len(uh) /\ Len(uh) \in Nat /\ Len(uh) >= 1
      /\ Len(uh2) = Len(uh) - 1 /\ DOMAIN uh2 = 1 .. Len(uh2)
      /\ \A i \in DOMAIN uh2 : i + 1 \in DOMAIN uh /\ uh2[i] = uh[i + 1]
  BY DEF Popped
<1>1. /\ DOMAIN dc = 1 .. Len(dc) /\ Len(dc) \in Nat /\ n = Len(dc) + 1 /\ DOMAIN dc2 = 1 .. n
      /\ \A i \in DOMAIN dc : dc2[i] = dc[i]
  BY DEF Pushed
<1>2. Tok(2, 1)
  BY <1>0 DEF Token
<1>3. \A k \in 1 .. 4, i \in Nat : Tok(k, i) => k = 2 /\ i = 1
  BY <1>2 DEF ClientOK, OneToken
<1>4. \A k \in 1 .. 4, i \in Nat : Tok2(k, i) => k = 3 /\ i = n
  <2> SUFFICES ASSUME NEW k \in 1 .. 4, NEW i \in Nat, Tok2(k, i) PROVE k = 3 /\ i = n
    OBVIOUS
  <2>1. ~(k = 2)
    <3> SUFFICES ASSUME k = 2 PROVE FALSE
      OBVIOUS
    <3>1. Tok(2, i + 1) /\ i + 1 \in Nat /\ i + 1 # 1
      BY <1>0 DEF Token
    <3> QED BY <3>1, <1>3
  <2>2. ~(k \in {1, 4})
    <3> SUFFICES ASSUME k \in {1, 4} PROVE FALSE
      OBVIOUS
    <3>1. Tok(k, i)
      BY DEF Token
    <3> QED BY <3>1, <1>3
  <2>3. ASSUME k = 3, i # n PROVE FALSE
    <3>1. Tok(3, i)
      BY <2>3, <1>1 DEF Token
    <3> QED BY <3>1, <1>3
  <2> QED BY <2>1, <2>2, <2>3
<1> HIDE DEF n, Tok, Tok2
<1>5. \A j \in DOMAIN dh : ~Joined(c, dh[j])
  <2>1. \A j \in DOMAIN dh : Joined(c, dh[j]) => \A k \in 1 .. 4, i \in Nat : Tok(k, i) => k = 1
    BY DEF ClientOK, GreetingLast, Tok
  <2> QED BY <2>1, <1>2
<1>6. OneToken(c, dh, uh2, dc2, uc)
  BY <1>4 DEF OneToken, Tok2
<1>7. AnyToken(c, dh, uh, dc, uc)
  BY <1>2 DEF AnyToken, Tok
<1>8. Absent(c, dh, list, Len(dh) + 1)
  BY <1>7 DEF ClientOK, Unlisted
<1>9. Unlisted(c, dh, uh2, dc2, uc, list, m)
  BY <1>5, <1>8 DEF Unlisted
<1>10. GreetingLast(c, dh, uh2, dc2, uc)
  BY <1>5 DEF GreetingLast
<1>11. \A j \in DOMAIN uh : ~Colors(c, uh[j])
  <2>1. \A j \in DOMAIN uh : Colors(c, uh[j]) => j < 1
    BY <1>2 DEF ClientOK, ColorsFirst, Tok
  <2> QED BY <2>1, <1>0
<1>12. \A j \in DOMAIN uh2 : ~Colors(c, uh2[j])
  BY <1>0, <1>11
<1>13. ColorsFirst(c, dh, uh2, dc2, uc)
  BY <1>12 DEF ColorsFirst
<1>14. ColorsTrue(c, dh, uh2, list)
  BY <1>12 DEF ColorsTrue, ClientOK
<1> QED BY <1>6, <1>9, <1>10, <1>13, <1>14 DEF ClientOK

\* He greets everybody.
LEMMA Welcomed ==
  ASSUME NEW c, NEW dh, NEW uh, NEW dc, NEW uc, NEW list, NEW m, NEW dc2, NEW uc2, NEW p,
         Sequence(dh), Sequence(dc), Sequence(uc), ClientOK(c, dh, uh, dc, uc, list, m),
         Popped(dc2, dc), Accepts(dc[1]), Pushed(uc2, uc, p)
  PROVE  ClientOK(c, dh, uh, dc2, uc2, list, m)
<1> DEFINE n == Len(uc2)
           Tok(k, i) == Token(c, dh, uh, dc, uc, k, i)
           Tok2(k, i) == Token(c, dh, uh, dc2, uc2, k, i)
<1>0. /\ DOMAIN dc = 1 .. Len(dc) /\ Len(dc) \in Nat /\ Len(dc) >= 1
      /\ Len(dc2) = Len(dc) - 1 /\ DOMAIN dc2 = 1 .. Len(dc2)
      /\ \A i \in DOMAIN dc2 : i + 1 \in DOMAIN dc /\ dc2[i] = dc[i + 1]
  BY DEF Popped
<1>1. /\ DOMAIN uc = 1 .. Len(uc) /\ Len(uc) \in Nat /\ n = Len(uc) + 1 /\ DOMAIN uc2 = 1 .. n
      /\ \A i \in DOMAIN uc : uc2[i] = uc[i]
  BY DEF Pushed
<1>2. Tok(3, 1)
  BY <1>0 DEF Token
<1>3. \A k \in 1 .. 4, i \in Nat : Tok(k, i) => k = 3 /\ i = 1
  BY <1>2 DEF ClientOK, OneToken
<1>4. \A k \in 1 .. 4, i \in Nat : Tok2(k, i) => k = 4 /\ i = n
  <2> SUFFICES ASSUME NEW k \in 1 .. 4, NEW i \in Nat, Tok2(k, i) PROVE k = 4 /\ i = n
    OBVIOUS
  <2>1. ~(k = 3)
    <3> SUFFICES ASSUME k = 3 PROVE FALSE
      OBVIOUS
    <3>1. Tok(3, i + 1) /\ i + 1 \in Nat /\ i + 1 # 1
      BY <1>0 DEF Token
    <3> QED BY <3>1, <1>3
  <2>2. ~(k \in {1, 2})
    <3> SUFFICES ASSUME k \in {1, 2} PROVE FALSE
      OBVIOUS
    <3>1. Tok(k, i)
      BY DEF Token
    <3> QED BY <3>1, <1>3
  <2>3. ASSUME k = 4, i # n PROVE FALSE
    <3>1. Tok(4, i)
      BY <2>3, <1>1 DEF Token
    <3> QED BY <3>1, <1>3
  <2> QED BY <2>1, <2>2, <2>3
<1> HIDE DEF n, Tok, Tok2
<1>5. \A j \in DOMAIN dh : ~Joined(c, dh[j])
  <2>1. \A j \in DOMAIN dh : Joined(c, dh[j]) => \A k \in 1 .. 4, i \in Nat : Tok(k, i) => k = 1
    BY DEF ClientOK, GreetingLast, Tok
  <2> QED BY <2>1, <1>2
<1>6. OneToken(c, dh, uh, dc2, uc2)
  BY <1>4 DEF OneToken, Tok2
<1>7. AnyToken(c, dh, uh, dc, uc)
  BY <1>2 DEF AnyToken, Tok
<1>8. Absent(c, dh, list, Len(dh) + 1)
  BY <1>7 DEF ClientOK, Unlisted
<1>9. Unlisted(c, dh, uh, dc2, uc2, list, m)
  BY <1>5, <1>8 DEF Unlisted
<1>10. GreetingLast(c, dh, uh, dc2, uc2)
  BY <1>5 DEF GreetingLast
<1>11. \A j \in DOMAIN uh : ~Colors(c, uh[j])
  <2>1. \A j \in DOMAIN uh : Colors(c, uh[j]) => 3 = 2
    BY <1>2 DEF ClientOK, ColorsFirst, Tok
  <2> QED BY <2>1
<1>12. ColorsFirst(c, dh, uh, dc2, uc2)
  BY <1>11 DEF ColorsFirst
<1> QED BY <1>6, <1>9, <1>10, <1>12 DEF ClientOK

\* The server relays the greeting; he hears others' news meanwhile.
LEMMA Greeted ==
  ASSUME NEW c, NEW dh, NEW uh, NEW dc, NEW uc, NEW list, NEW m, NEW dh2, NEW dc2, NEW uc2, NEW p,
         Sequence(dh), Sequence(uc), ClientOK(c, dh, uh, dc, uc, list, m),
         Popped(uc2, uc), Greets(uc[1]), Pushed(dh2, dh, p), Joined(c, p), Fewer(3, c, dc2, dc),
         Sequence(dc), m
  PROVE  ClientOK(c, dh2, uh, dc2, uc2, list, m)
<1> DEFINE n == Len(dh2)
           Tok(k, i) == Token(c, dh, uh, dc, uc, k, i)
           Tok2(k, i) == Token(c, dh2, uh, dc2, uc2, k, i)
<1>0. /\ DOMAIN uc = 1 .. Len(uc) /\ Len(uc) \in Nat /\ Len(uc) >= 1
      /\ Len(uc2) = Len(uc) - 1 /\ DOMAIN uc2 = 1 .. Len(uc2)
      /\ \A i \in DOMAIN uc2 : i + 1 \in DOMAIN uc /\ uc2[i] = uc[i + 1]
  BY DEF Popped
<1>1. /\ DOMAIN dh = 1 .. Len(dh) /\ Len(dh) \in Nat /\ n = Len(dh) + 1 /\ DOMAIN dh2 = 1 .. n
      /\ dh2[n] = p /\ \A i \in DOMAIN dh : dh2[i] = dh[i]
  BY DEF Pushed
<1>2. Tok(4, 1)
  BY <1>0 DEF Token
<1>3. \A k \in 1 .. 4, i \in Nat : Tok(k, i) => k = 4 /\ i = 1
  BY <1>2 DEF ClientOK, OneToken
<1>4. \A k \in 1 .. 4, i \in Nat : ~Tok2(k, i)
  <2> SUFFICES ASSUME NEW k \in 1 .. 4, NEW i \in Nat, Tok2(k, i) PROVE FALSE
    OBVIOUS
  <2>1. ~(k = 4)
    <3> SUFFICES ASSUME k = 4 PROVE FALSE
      OBVIOUS
    <3>1. Tok(4, i + 1) /\ i + 1 \in Nat /\ i + 1 # 1
      BY <1>0 DEF Token
    <3> QED BY <3>1, <1>3
  <2>2. ~(k = 2)
    <3> SUFFICES ASSUME k = 2 PROVE FALSE
      OBVIOUS
    <3>1. Tok(2, i)
      BY DEF Token
    <3> QED BY <3>1, <1>3
  <2>3. ~(k = 3)
    <3> SUFFICES ASSUME k = 3 PROVE FALSE
      OBVIOUS
    <3>1. PICK s \in Nat : \A x \in DOMAIN dc2 : Mark(3, c, dc2[x]) => x + s \in DOMAIN dc /\ dc2[x] = dc[x + s]
      BY DEF Fewer
    <3>2. Tok(3, i + s) /\ i + s \in Nat
      BY <3>1 DEF Token, Mark
    <3> QED BY <3>2, <1>3
  <2>4. ASSUME k = 1 PROVE FALSE
    <3>1. Tok(1, i)
      BY <2>4, <1>1, Kinds DEF Token
    <3> QED BY <3>1, <1>3
  <2> QED BY <2>1, <2>2, <2>3, <2>4
<1> HIDE DEF n, Tok, Tok2
<1>5. ~AnyToken(c, dh2, uh, dc2, uc2)
  BY <1>4 DEF AnyToken, Tok2
<1>6. OneToken(c, dh2, uh, dc2, uc2)
  BY <1>4 DEF OneToken, Tok2
<1>7. \A j \in DOMAIN dh : ~Joined(c, dh[j])
  <2>1. \A j \in DOMAIN dh : Joined(c, dh[j]) => \A k \in 1 .. 4, i \in Nat : Tok(k, i) => k = 1
    BY DEF ClientOK, GreetingLast, Tok
  <2> QED BY <2>1, <1>2
<1>8. \A j \in DOMAIN dh2 : Joined(c, dh2[j]) => j = n
  BY <1>1, <1>7
<1>9. AnyToken(c, dh, uh, dc, uc)
  BY <1>2 DEF AnyToken, Tok
<1>10. Absent(c, dh, list, Len(dh) + 1)
  BY <1>9 DEF ClientOK, Unlisted
<1>11. Absent(c, dh2, list, n)
  BY <1>1, <1>8, <1>10 DEF Absent
<1>12. Unlisted(c, dh2, uh, dc2, uc2, list, m)
  BY <1>5, <1>8, <1>11 DEF Unlisted
<1>13. \A j \in DOMAIN uh : ~Colors(c, uh[j])
  <2>1. \A j \in DOMAIN uh : Colors(c, uh[j]) => 4 = 2
    BY <1>2 DEF ClientOK, ColorsFirst, Tok
  <2> QED BY <2>1
<1>14. \A i \in DOMAIN dh2 : Colors(c, dh2[i]) => i < n /\ i \in DOMAIN dh /\ dh2[i] = dh[i]
  BY <1>1, Kinds
<1>15. GreetingLast(c, dh2, uh, dc2, uc2)
  BY <1>4, <1>8, <1>13, <1>14 DEF GreetingLast, Tok2
<1>16. ColorsFirst(c, dh2, uh, dc2, uc2)
  BY <1>13 DEF ColorsFirst
<1>17. ColorsTrue(c, dh2, uh, list)
  <2>1. ColorsTrue(c, dh, uh, list)
    BY DEF ClientOK
  <2> QED BY <2>1, <1>14 DEF ColorsTrue
<1> QED BY <1>6, <1>12, <1>15, <1>16, <1>17 DEF ClientOK

\* The server finds that he has left.
LEMMA Parted ==
  ASSUME NEW c, NEW dh, NEW uh, NEW dc, NEW uc, NEW list, NEW m, NEW dh2, NEW uc2, NEW p, NEW m2,
         Sequence(dh), Sequence(uh), Sequence(dc), Sequence(uc), ClientOK(c, dh, uh, dc, uc, list, m),
         Popped(uc2, uc), Pushed(dh2, dh, p), Left(c, p)
  PROVE  ClientOK(c, dh2, uh, dc, uc2, list, m2)
<1> DEFINE n == Len(dh2)
           Tok(k, i) == Token(c, dh, uh, dc, uc, k, i)
           Tok2(k, i) == Token(c, dh2, uh, dc, uc2, k, i)
           shift(k) == IF k = 4 THEN 1 ELSE 0
<1>0. /\ DOMAIN uc = 1 .. Len(uc) /\ Len(uc) \in Nat /\ Len(uc) >= 1
      /\ Len(uc2) = Len(uc) - 1 /\ DOMAIN uc2 = 1 .. Len(uc2)
      /\ \A i \in DOMAIN uc2 : i + 1 \in DOMAIN uc /\ uc2[i] = uc[i + 1]
  BY DEF Popped
<1>1. /\ DOMAIN dh = 1 .. Len(dh) /\ Len(dh) \in Nat /\ n = Len(dh) + 1 /\ DOMAIN dh2 = 1 .. n
      /\ dh2[n] = p /\ \A i \in DOMAIN dh : dh2[i] = dh[i]
  BY DEF Pushed
<1>2. \A i \in DOMAIN dh2 : Wants(c, dh2[i]) \/ Joined(c, dh2[i]) \/ Colors(c, dh2[i]) =>
        i < n /\ i \in DOMAIN dh /\ dh2[i] = dh[i]
  BY <1>1, Kinds
<1>3. \A k \in 1 .. 4, i \in Nat : Tok2(k, i) => Tok(k, i + shift(k)) /\ i + shift(k) \in Nat
  <2> SUFFICES ASSUME NEW k \in 1 .. 4, NEW i \in Nat, Tok2(k, i) PROVE Tok(k, i + shift(k)) /\ i + shift(k) \in Nat
    OBVIOUS
  <2>1. CASE k = 1
    <3>1. Tok(1, i)
      BY <2>1, <1>2 DEF Token
    <3> QED BY <3>1, <2>1
  <2>2. CASE k = 4
    BY <2>2, <1>0 DEF Token
  <2>3. CASE k \in {2, 3}
    <3>1. Tok(k, i)
      BY <2>3 DEF Token
    <3> QED BY <3>1, <2>3
  <2> QED BY <2>1, <2>2, <2>3
<1>4. \A k \in 1 .. 4 : shift(k) \in Nat
  OBVIOUS
<1> HIDE DEF n, Tok, Tok2
<1>5. OneToken(c, dh2, uh, dc, uc2)
  <2>1. \A k, l \in 1 .. 4 : \A i, j \in Nat : Tok(k, i) /\ Tok(l, j) => k = l /\ i = j
    BY DEF ClientOK, OneToken, Tok
  <2> HIDE DEF shift
  <2>2. ASSUME NEW k \in 1 .. 4, NEW l \in 1 .. 4, NEW i \in Nat, NEW j \in Nat, Tok2(k, i), Tok2(l, j)
        PROVE  k = l /\ i = j
    <3>1. k = l /\ i + shift(k) = j + shift(l)
      BY <2>1, <2>2, <1>3
    <3> QED BY <3>1, <1>4
  <2> QED BY <2>2 DEF OneToken, Tok2
<1>6. Absent(c, dh2, list, n + 1)
  BY <1>1, <1>2 DEF Absent
<1>7. \A j \in Nat : Absent(c, dh, list, j) /\ j <= n => Absent(c, dh2, list, j)
  BY <1>1, <1>2 DEF Absent
<1>8. Unlisted(c, dh2, uh, dc, uc2, list, m2)
  <2>1. ASSUME NEW i \in DOMAIN dh2, Joined(c, dh2[i]) PROVE Absent(c, dh2, list, i)
    <3>1. i \in DOMAIN dh /\ Joined(c, dh[i]) /\ i \in Nat /\ i <= n
      BY <2>1, <1>1, <1>2
    <3>2. Absent(c, dh, list, i)
      BY <3>1 DEF ClientOK, Unlisted
    <3> QED BY <3>1, <3>2, <1>7
  <2> QED BY <2>1, <1>6 DEF Unlisted, n
<1>9. GreetingLast(c, dh2, uh, dc, uc2)
  <2>1. ASSUME NEW j \in DOMAIN dh2, Joined(c, dh2[j])
        PROVE  /\ \A k \in 1 .. 4, i \in Nat : Tok2(k, i) => k = 1 /\ j < i
               /\ \A i \in DOMAIN uh : ~Colors(c, uh[i])
               /\ \A i \in DOMAIN dh2 : /\ Colors(c, dh2[i]) => i < j
                                        /\ Joined(c, dh2[i]) => i = j
    <3>1. j \in DOMAIN dh /\ Joined(c, dh[j])
      BY <2>1, <1>2
    <3>2. /\ \A k \in 1 .. 4, i \in Nat : Tok(k, i) => k = 1 /\ j < i
          /\ \A i \in DOMAIN uh : ~Colors(c, uh[i])
          /\ \A i \in DOMAIN dh : /\ Colors(c, dh[i]) => i < j
                                  /\ Joined(c, dh[i]) => i = j
      BY <3>1 DEF ClientOK, GreetingLast, Tok
    <3>3. \A k \in 1 .. 4, i \in Nat : Tok2(k, i) => k = 1 /\ j < i + shift(k)
      <4> HIDE DEF shift
      <4> QED BY <3>2, <1>3
    <3>4. \A k \in 1 .. 4, i \in Nat : Tok2(k, i) => k = 1 /\ j < i
      BY <3>3
    <3> QED BY <3>2, <3>4, <1>2
  <2> QED BY <2>1 DEF GreetingLast, Tok2
<1>10. ColorsFirst(c, dh2, uh, dc, uc2)
  <2>1. ASSUME NEW k \in 2 .. 4, NEW i \in Nat, Tok2(k, i), NEW j \in DOMAIN uh, Colors(c, uh[j])
        PROVE  k = 2 /\ j < i
    <3>1. k \in 1 .. 4
      OBVIOUS
    <3>2. Tok(k, i + shift(k)) /\ i + shift(k) \in Nat
      BY <2>1, <3>1, <1>3
    <3>3. k = 2 /\ j < i + shift(k)
      <4> HIDE DEF shift
      <4> QED BY <2>1, <3>2 DEF ClientOK, ColorsFirst, Tok
    <3> QED BY <3>3
  <2> QED BY <2>1 DEF ColorsFirst, Tok2
<1>11. ColorsTrue(c, dh2, uh, list)
  <2>1. ColorsTrue(c, dh, uh, list)
    BY DEF ClientOK
  <2>2. \A i \in DOMAIN dh2 : Colors(c, dh2[i]) => i \in DOMAIN dh /\ dh2[i] = dh[i]
    BY <1>2
  <2> QED BY <2>1, <2>2 DEF ColorsTrue
<1> QED BY <1>5, <1>8, <1>9, <1>10, <1>11 DEF ClientOK

\* The host lists him, and tells everybody his colour.
LEMMA Enlisted ==
  ASSUME NEW c, NEW dh, NEW uh, NEW dc, NEW uc, NEW list, NEW m, NEW dh2, NEW uh2, NEW list2, NEW p,
         Sequence(dh), Sequence(uh), ClientOK(c, dh, uh, dc, uc, list, m),
         Popped(dh2, dh), Joined(c, dh[1]), Pushed(uh2, uh, p), ~Answers(c, p),
         \A x \in DOMAIN list2 : list2[x].id = c => list2[x].color = p.body.color
  PROVE  /\ ~Listed(c, list)
         /\ ClientOK(c, dh2, uh2, dc, uc, list2, m)
<1> DEFINE Tok(k, i) == Token(c, dh, uh, dc, uc, k, i)
           Tok2(k, i) == Token(c, dh2, uh2, dc, uc, k, i)
<1>0. /\ DOMAIN dh = 1 .. Len(dh) /\ Len(dh) \in Nat /\ Len(dh) >= 1
      /\ Len(dh2) = Len(dh) - 1 /\ DOMAIN dh2 = 1 .. Len(dh2)
      /\ \A i \in DOMAIN dh2 : i + 1 \in DOMAIN dh /\ dh2[i] = dh[i + 1]
      /\ \A i \in DOMAIN dh : i > 1 => i - 1 \in DOMAIN dh2 /\ dh2[i - 1] = dh[i]
  BY DEF Popped
<1>1. /\ DOMAIN uh = 1 .. Len(uh) /\ Len(uh) \in Nat /\ Len(uh2) = Len(uh) + 1 /\ DOMAIN uh2 = 1 .. Len(uh2)
      /\ uh2[Len(uh2)] = p /\ \A i \in DOMAIN uh : uh2[i] = uh[i]
  BY DEF Pushed
<1>2. /\ \A k \in 1 .. 4, i \in Nat : Tok(k, i) => k = 1 /\ 1 < i
      /\ \A i \in DOMAIN uh : ~Colors(c, uh[i])
      /\ \A i \in DOMAIN dh : (Colors(c, dh[i]) => i < 1) /\ (Joined(c, dh[i]) => i = 1)
  <2>1. GreetingLast(c, dh, uh, dc, uc)
    BY DEF ClientOK
  <2>2. 1 \in DOMAIN dh
    BY <1>0
  <2>3. /\ \A k \in 1 .. 4, i \in Nat : Token(c, dh, uh, dc, uc, k, i) => k = 1 /\ 1 < i
        /\ \A i \in DOMAIN uh : ~Colors(c, uh[i])
        /\ \A i \in DOMAIN dh : /\ Colors(c, dh[i]) => i < 1
                                /\ Joined(c, dh[i]) => i = 1
    BY <2>1, <2>2 DEF GreetingLast
  <2> QED BY <2>3
<1>3. Absent(c, dh, list, 1)
  BY <1>0 DEF ClientOK, Unlisted
<1>4. ~Listed(c, list)
  BY <1>0, <1>3 DEF Absent
<1>5. \A k \in 1 .. 4, i \in Nat : Tok2(k, i) => k = 1 /\ Tok(1, i + 1)
  <2> SUFFICES ASSUME NEW k \in 1 .. 4, NEW i \in Nat, Tok2(k, i) PROVE k = 1 /\ Tok(1, i + 1)
    OBVIOUS
  <2>1. CASE k = 1
    BY <2>1, <1>0 DEF Token
  <2>2. CASE k = 2
    <3>1. Tok(2, i)
      BY <2>2, <1>1 DEF Token
    <3> QED BY <3>1, <1>2
  <2>3. CASE k \in {3, 4}
    <3>1. Tok(k, i)
      BY <2>3 DEF Token
    <3> QED BY <3>1, <2>3, <1>2
  <2> QED BY <2>1, <2>2, <2>3
<1>6. AnyToken(c, dh2, uh2, dc, uc) => AnyToken(c, dh, uh, dc, uc)
  <2>1. ASSUME NEW k \in 1 .. 4, NEW i \in Nat, Tok2(k, i) PROVE \E l \in 1 .. 4, j \in Nat : Tok(l, j)
    <3>1. Tok(1, i + 1) /\ 1 \in 1 .. 4 /\ i + 1 \in Nat
      BY <2>1, <1>5
    <3> HIDE DEF Tok
    <3> QED BY <3>1
  <2> QED BY <2>1 DEF AnyToken
<1> HIDE DEF Tok, Tok2
<1>7. \A j \in DOMAIN dh2 : ~Joined(c, dh2[j]) /\ ~Colors(c, dh2[j])
  BY <1>0, <1>2
<1>8. OneToken(c, dh2, uh2, dc, uc)
  <2>1. \A i, j \in Nat : Tok(1, i) /\ Tok(1, j) => i = j
    BY DEF ClientOK, OneToken, Tok
  <2>2. ASSUME NEW k \in 1 .. 4, NEW l \in 1 .. 4, NEW i \in Nat, NEW j \in Nat, Tok2(k, i), Tok2(l, j)
        PROVE  k = l /\ i = j
    <3>1. k = l /\ Tok(1, i + 1) /\ Tok(1, j + 1)
      BY <2>2, <1>5
    <3>2. i + 1 = j + 1
      BY <3>1, <2>1
    <3> QED BY <3>1, <3>2
  <2> QED BY <2>2 DEF OneToken, Tok2
<1>9. ASSUME Absent(c, dh, list, Len(dh) + 1) PROVE Absent(c, dh2, list2, Len(dh2) + 1)
  <2>1. PICK k \in DOMAIN dh : 1 < k /\ Left(c, dh[k])
    BY <1>0, <1>9 DEF Absent
  <2>2. k - 1 \in DOMAIN dh2 /\ k - 1 < Len(dh2) + 1 /\ Left(c, dh2[k - 1])
    BY <1>0, <2>1
  <2> QED BY <2>2, <1>7 DEF Absent
<1>10. Unlisted(c, dh2, uh2, dc, uc, list2, m)
  <2>1. ~m \/ AnyToken(c, dh, uh, dc, uc) => Absent(c, dh, list, Len(dh) + 1)
    BY DEF ClientOK, Unlisted
  <2>2. ~m \/ AnyToken(c, dh2, uh2, dc, uc) => Absent(c, dh2, list2, Len(dh2) + 1)
    BY <2>1, <1>6, <1>9
  <2> QED BY <2>2, <1>7 DEF Unlisted
<1>11. GreetingLast(c, dh2, uh2, dc, uc)
  BY <1>7 DEF GreetingLast
<1>12. ColorsFirst(c, dh2, uh2, dc, uc)
  BY <1>5 DEF ColorsFirst, Tok2
<1>13. ColorsTrue(c, dh2, uh2, list2)
  <2>1. \A i \in DOMAIN uh2 : Colors(c, uh2[i]) => uh2[i] = p
    BY <1>1, <1>2
  <2> QED BY <2>1, <1>7 DEF ColorsTrue
<1> QED BY <1>4, <1>8, <1>10, <1>11, <1>12, <1>13 DEF ClientOK

\* The host hears that he has left.
LEMMA Dismissed ==
  ASSUME NEW c, NEW dh, NEW uh, NEW dc, NEW uc, NEW list, NEW m, NEW dh2, NEW list2,
         Sequence(dh), Sequence(uh), ClientOK(c, dh, uh, dc, uc, list, m),
         Popped(dh2, dh), Left(c, dh[1]), ~Listed(c, list2)
  PROVE  ClientOK(c, dh2, uh, dc, uc, list2, m)
<1> DEFINE Tok(k, i) == Token(c, dh, uh, dc, uc, k, i)
           Tok2(k, i) == Token(c, dh2, uh, dc, uc, k, i)
           shift(k) == IF k = 1 THEN 1 ELSE 0
<1>0. /\ DOMAIN dh = 1 .. Len(dh) /\ Len(dh) \in Nat /\ Len(dh) >= 1
      /\ Len(dh2) = Len(dh) - 1 /\ DOMAIN dh2 = 1 .. Len(dh2)
      /\ \A i \in DOMAIN dh2 : i + 1 \in DOMAIN dh /\ dh2[i] = dh[i + 1]
      /\ \A i \in DOMAIN dh : i > 1 => i - 1 \in DOMAIN dh2 /\ dh2[i - 1] = dh[i]
  BY DEF Popped
<1>1. \A k \in 1 .. 4, i \in Nat : Tok2(k, i) => Tok(k, i + shift(k)) /\ i + shift(k) \in Nat
  <2> SUFFICES ASSUME NEW k \in 1 .. 4, NEW i \in Nat, Tok2(k, i) PROVE Tok(k, i + shift(k)) /\ i + shift(k) \in Nat
    OBVIOUS
  <2>1. CASE k = 1
    BY <2>1, <1>0 DEF Token
  <2>2. CASE k # 1
    <3>1. Tok(k, i)
      BY <2>2 DEF Token
    <3> QED BY <3>1, <2>2
  <2> QED BY <2>1, <2>2
<1>2. \A k \in 1 .. 4 : shift(k) \in Nat
  OBVIOUS
<1>3. AnyToken(c, dh2, uh, dc, uc) => AnyToken(c, dh, uh, dc, uc)
  <2>1. ASSUME NEW k \in 1 .. 4, NEW i \in Nat, Tok2(k, i) PROVE \E l \in 1 .. 4, j \in Nat : Tok(l, j)
    <3> HIDE DEF Tok, Tok2, shift
    <3> QED BY <2>1, <1>1
  <2> QED BY <2>1 DEF AnyToken
<1> HIDE DEF Tok, Tok2
<1>4. OneToken(c, dh2, uh, dc, uc)
  <2>1. \A k, l \in 1 .. 4 : \A i, j \in Nat : Tok(k, i) /\ Tok(l, j) => k = l /\ i = j
    BY DEF ClientOK, OneToken, Tok
  <2> HIDE DEF shift
  <2>2. ASSUME NEW k \in 1 .. 4, NEW l \in 1 .. 4, NEW i \in Nat, NEW j \in Nat, Tok2(k, i), Tok2(l, j)
        PROVE  k = l /\ i = j
    <3>1. k = l /\ i + shift(k) = j + shift(l)
      BY <2>1, <2>2, <1>1
    <3> QED BY <3>1, <1>2
  <2> QED BY <2>2 DEF OneToken, Tok2
<1>5. \A n \in Nat : Absent(c, dh, list, n + 1) => Absent(c, dh2, list2, n)
  <2> SUFFICES ASSUME NEW n \in Nat, Absent(c, dh, list, n + 1) PROVE Absent(c, dh2, list2, n)
    OBVIOUS
  <2>1. ASSUME NEW j \in DOMAIN dh2, j < n, Joined(c, dh2[j])
        PROVE  \E k \in DOMAIN dh2 : j < k /\ k < n /\ Left(c, dh2[k])
    <3>1. j + 1 \in DOMAIN dh /\ Joined(c, dh[j + 1]) /\ j + 1 < n + 1
      BY <2>1, <1>0
    <3>2. PICK k \in DOMAIN dh : j + 1 < k /\ k < n + 1 /\ Left(c, dh[k])
      BY <3>1 DEF Absent
    <3>3. k - 1 \in DOMAIN dh2 /\ j < k - 1 /\ k - 1 < n /\ Left(c, dh2[k - 1])
      BY <3>2, <2>1, <1>0
    <3> QED BY <3>3
  <2> QED BY <2>1 DEF Absent
<1>6. Unlisted(c, dh2, uh, dc, uc, list2, m)
  <2>1. ASSUME NEW i \in DOMAIN dh2, Joined(c, dh2[i]) PROVE Absent(c, dh2, list2, i)
    <3>1. i \in Nat /\ i + 1 \in DOMAIN dh /\ Joined(c, dh[i + 1])
      BY <2>1, <1>0
    <3>2. Absent(c, dh, list, i + 1)
      BY <3>1 DEF ClientOK, Unlisted
    <3> QED BY <3>1, <3>2, <1>5
  <2>2. ~m \/ AnyToken(c, dh, uh, dc, uc) => Absent(c, dh, list, Len(dh) + 1)
    BY DEF ClientOK, Unlisted
  <2>3. Len(dh) \in Nat /\ Len(dh2) + 1 = Len(dh)
    BY <1>0
  <2>4. ASSUME Absent(c, dh, list, Len(dh) + 1) PROVE Absent(c, dh2, list2, Len(dh2) + 1)
    BY <2>3, <2>4, <1>5
  <2>5. ~m \/ AnyToken(c, dh2, uh, dc, uc) => Absent(c, dh2, list2, Len(dh2) + 1)
    BY <2>2, <2>4, <1>3
  <2> QED BY <2>1, <2>5 DEF Unlisted
<1>7. GreetingLast(c, dh2, uh, dc, uc)
  <2>1. ASSUME NEW j \in DOMAIN dh2, Joined(c, dh2[j])
        PROVE  /\ \A k \in 1 .. 4, i \in Nat : Tok2(k, i) => k = 1 /\ j < i
               /\ \A i \in DOMAIN uh : ~Colors(c, uh[i])
               /\ \A i \in DOMAIN dh2 : /\ Colors(c, dh2[i]) => i < j
                                        /\ Joined(c, dh2[i]) => i = j
    <3>1. j + 1 \in DOMAIN dh /\ Joined(c, dh[j + 1])
      BY <2>1, <1>0
    <3>2. /\ \A k \in 1 .. 4, i \in Nat : Tok(k, i) => k = 1 /\ j + 1 < i
          /\ \A i \in DOMAIN uh : ~Colors(c, uh[i])
          /\ \A i \in DOMAIN dh : /\ Colors(c, dh[i]) => i < j + 1
                                  /\ Joined(c, dh[i]) => i = j + 1
      BY <3>1 DEF ClientOK, GreetingLast, Tok
    <3>3. \A k \in 1 .. 4, i \in Nat : Tok2(k, i) => k = 1 /\ j + 1 < i + shift(k)
      <4> HIDE DEF shift
      <4> QED BY <3>2, <1>1
    <3>4. \A k \in 1 .. 4, i \in Nat : Tok2(k, i) => k = 1 /\ j < i
      BY <3>3, <1>0
    <3>5. ASSUME NEW i \in DOMAIN dh2 PROVE (Colors(c, dh2[i]) => i < j) /\ (Joined(c, dh2[i]) => i = j)
      BY <3>2, <1>0
    <3> QED BY <3>2, <3>4, <3>5
  <2> QED BY <2>1 DEF GreetingLast, Tok2
<1>8. ColorsFirst(c, dh2, uh, dc, uc)
  <2>1. ASSUME NEW k \in 2 .. 4, NEW i \in Nat, Tok2(k, i), NEW j \in DOMAIN uh, Colors(c, uh[j])
        PROVE  k = 2 /\ j < i
    <3>1. k \in 1 .. 4
      OBVIOUS
    <3>2. Tok(k, i + shift(k)) /\ i + shift(k) \in Nat
      BY <2>1, <3>1, <1>1
    <3>3. k = 2 /\ j < i + shift(k)
      <4> HIDE DEF shift
      <4> QED BY <2>1, <3>2 DEF ClientOK, ColorsFirst, Tok
    <3> QED BY <3>3
  <2> QED BY <2>1 DEF ColorsFirst, Tok2
<1>9. ColorsTrue(c, dh2, uh, list2)
  BY DEF ColorsTrue, Listed
<1> QED BY <1>4, <1>6, <1>7, <1>8, <1>9 DEF ClientOK

\* The server relays the news of his colour.
LEMMA ColorRelayed ==
  ASSUME NEW c, NEW dh, NEW uh, NEW dc, NEW uc, NEW list, NEW m, NEW dh2, NEW uh2, NEW p,
         Sequence(dh), Sequence(uh), ClientOK(c, dh, uh, dc, uc, list, m),
         Popped(uh2, uh), Colors(c, uh[1]), Pushed(dh2, dh, p), p.body = uh[1].body
  PROVE  ClientOK(c, dh2, uh2, dc, uc, list, m)
<1> DEFINE n == Len(dh2)
           Tok(k, i) == Token(c, dh, uh, dc, uc, k, i)
           Tok2(k, i) == Token(c, dh2, uh2, dc, uc, k, i)
           shift(k) == IF k = 2 THEN 1 ELSE 0
<1>0. /\ DOMAIN uh = 1 .. Len(uh) /\ Len(uh) \in Nat /\ Len(uh) >= 1
      /\ Len(uh2) = Len(uh) - 1 /\ DOMAIN uh2 = 1 .. Len(uh2)
      /\ \A i \in DOMAIN uh2 : i + 1 \in DOMAIN uh /\ uh2[i] = uh[i + 1]
  BY DEF Popped
<1>1. /\ DOMAIN dh = 1 .. Len(dh) /\ Len(dh) \in Nat /\ n = Len(dh) + 1 /\ DOMAIN dh2 = 1 .. n
      /\ dh2[n] = p /\ \A i \in DOMAIN dh : dh2[i] = dh[i]
  BY DEF Pushed
<1>2. Colors(c, p)
  BY DEF Colors
<1>3. \A i \in DOMAIN dh2 : Wants(c, dh2[i]) \/ Joined(c, dh2[i]) \/ Left(c, dh2[i]) =>
        i < n /\ i \in DOMAIN dh /\ dh2[i] = dh[i]
  BY <1>1, <1>2, Kinds
<1>4. \A k \in 1 .. 4, i \in Nat : Tok2(k, i) => Tok(k, i + shift(k)) /\ i + shift(k) \in Nat
  <2> SUFFICES ASSUME NEW k \in 1 .. 4, NEW i \in Nat, Tok2(k, i) PROVE Tok(k, i + shift(k)) /\ i + shift(k) \in Nat
    OBVIOUS
  <2>1. CASE k = 2
    BY <2>1, <1>0 DEF Token
  <2>2. CASE k = 1
    <3>1. Tok(1, i)
      BY <2>2, <1>3 DEF Token
    <3> QED BY <3>1, <2>2
  <2>3. CASE k \in {3, 4}
    <3>1. Tok(k, i)
      BY <2>3 DEF Token
    <3> QED BY <3>1, <2>3
  <2> QED BY <2>1, <2>2, <2>3
<1>5. \A k \in 1 .. 4 : shift(k) \in Nat
  OBVIOUS
<1>6. AnyToken(c, dh2, uh2, dc, uc) => AnyToken(c, dh, uh, dc, uc)
  <2>1. ASSUME NEW k \in 1 .. 4, NEW i \in Nat, Tok2(k, i) PROVE \E l \in 1 .. 4, j \in Nat : Tok(l, j)
    <3> HIDE DEF Tok, Tok2, shift
    <3> QED BY <2>1, <1>4
  <2> QED BY <2>1 DEF AnyToken
<1> HIDE DEF n, Tok, Tok2
<1>7. OneToken(c, dh2, uh2, dc, uc)
  <2>1. \A k, l \in 1 .. 4 : \A i, j \in Nat : Tok(k, i) /\ Tok(l, j) => k = l /\ i = j
    BY DEF ClientOK, OneToken, Tok
  <2> HIDE DEF shift
  <2>2. ASSUME NEW k \in 1 .. 4, NEW l \in 1 .. 4, NEW i \in Nat, NEW j \in Nat, Tok2(k, i), Tok2(l, j)
        PROVE  k = l /\ i = j
    <3>1. k = l /\ i + shift(k) = j + shift(l)
      BY <2>1, <2>2, <1>4
    <3> QED BY <3>1, <1>5
  <2> QED BY <2>2 DEF OneToken, Tok2
<1>8. \A j \in DOMAIN dh : ~Joined(c, dh[j])
  BY <1>0 DEF ClientOK, GreetingLast
<1>9. \A j \in DOMAIN dh2 : ~Joined(c, dh2[j])
  BY <1>3, <1>8
<1>10. Absent(c, dh, list, Len(dh) + 1) => Absent(c, dh2, list, n + 1)
  BY <1>1, <1>9 DEF Absent
<1>11. Unlisted(c, dh2, uh2, dc, uc, list, m)
  BY <1>6, <1>9, <1>10 DEF Unlisted, ClientOK, n
<1>12. GreetingLast(c, dh2, uh2, dc, uc)
  BY <1>9 DEF GreetingLast
<1>13. ColorsFirst(c, dh2, uh2, dc, uc)
  <2>1. ASSUME NEW k \in 2 .. 4, NEW i \in Nat, Tok2(k, i), NEW j \in DOMAIN uh2, Colors(c, uh2[j])
        PROVE  k = 2 /\ j < i
    <3>1. k \in 1 .. 4
      OBVIOUS
    <3>2. Tok(k, i + shift(k)) /\ i + shift(k) \in Nat
      BY <2>1, <3>1, <1>4
    <3>3. j + 1 \in DOMAIN uh /\ Colors(c, uh[j + 1])
      BY <2>1, <1>0
    <3>4. k = 2 /\ j + 1 < i + shift(k)
      <4> HIDE DEF shift
      <4> QED BY <3>2, <3>3 DEF ClientOK, ColorsFirst, Tok
    <3> QED BY <3>4, <1>0
  <2> QED BY <2>1 DEF ColorsFirst, Tok2
<1>14. ColorsTrue(c, dh2, uh2, list)
  <2>1. ASSUME NEW x \in DOMAIN list, list[x].id = c
        PROVE  /\ \A i \in DOMAIN uh2 : Colors(c, uh2[i]) => uh2[i].body.color = list[x].color
               /\ \A i \in DOMAIN dh2 : Colors(c, dh2[i]) => dh2[i].body.color = list[x].color
    <3>1. /\ \A i \in DOMAIN uh : Colors(c, uh[i]) => uh[i].body.color = list[x].color
          /\ \A i \in DOMAIN dh : Colors(c, dh[i]) => dh[i].body.color = list[x].color
      BY <2>1 DEF ClientOK, ColorsTrue
    <3>2. p.body.color = list[x].color
      BY <3>1, <1>0
    <3> QED BY <3>1, <3>2, <1>0, <1>1
  <2> QED BY <2>1 DEF ColorsTrue
<1> QED BY <1>7, <1>11, <1>12, <1>13, <1>14 DEF ClientOK

-----------------------------------------------------------------------------
(* The host's list.                                                        *)

LEMMA SmallestNumber ==
  ASSUME NEW T, T \subseteq Nat, T # {}
  PROVE  \E i \in T : \A j \in T : i <= j
<1> DEFINE R == OpToRel(<, Nat)
<1>1. IsWellFoundedOn(R, Nat)
  BY NatLessThanWellFounded
<1>2. \A x, y \in Nat : x < y => <<x, y>> \in R
  BY DEF OpToRel
<1> HIDE DEF R
<1>3. PICK i \in T : \A j \in T : ~ (<<j, i>> \in R)
  BY <1>1, WFMin
<1>4. \A j \in T : i \in Nat /\ j \in Nat /\ ~ (j < i)
  BY <1>2, <1>3
<1> QED BY <1>4

\* While somebody is not listed, a colour is left for him if there are as many as
\* programs.
LEMMA ColorLeft ==
  ASSUME EnoughColors, NEW list, Sequence(list), ListOK(list), NEW c \in Client \ {Host}, ~Listed(c, list)
  PROVE  \E k \in DOMAIN playerColors : \A x \in DOMAIN list : list[x].color # playerColors[k]
<1> SUFFICES ASSUME \A k \in DOMAIN playerColors : \E x \in DOMAIN list : list[x].color = playerColors[k]
             PROVE  FALSE
  OBVIOUS
<1> DEFINE S == DOMAIN playerColors
           T == Client \ {c}
           Wearer(k) == CHOOSE x \in DOMAIN list : list[x].color = playerColors[k]
           Name(x) == IF x = 1 THEN Host ELSE list[x].id
           f == [k \in S |-> Name(Wearer(k))]
<1>1. \A k \in S : Wearer(k) \in DOMAIN list /\ list[Wearer(k)].color = playerColors[k]
  OBVIOUS
<1>2. DOMAIN list = 1 .. Len(list) /\ Len(list) \in Nat
  BY SequenceDomain
<1>3. \A x \in DOMAIN list : Name(x) \in T
  <2> SUFFICES ASSUME NEW x \in DOMAIN list PROVE Name(x) \in T
    OBVIOUS
  <2>1. CASE x = 1
    BY <2>1, HostAssumption
  <2>2. CASE x # 1
    <3>1. x > 1
      BY <2>2, <1>2
    <3>2. list[x].id \in Client \ {Host} /\ list[x].id # c
      BY <3>1 DEF ListOK, Listed
    <3> QED BY <2>2, <3>2
  <2> QED BY <2>1, <2>2
<1>4. \A x, y \in DOMAIN list : Name(x) = Name(y) => x = y
  <2> SUFFICES ASSUME NEW x \in DOMAIN list, NEW y \in DOMAIN list, Name(x) = Name(y) PROVE x = y
    OBVIOUS
  <2>1. \A z \in DOMAIN list : z # 1 => list[z].id # Host
    BY <1>2 DEF ListOK
  <2>2. CASE x = 1 \/ y = 1
    BY <2>1, <2>2
  <2>3. CASE x # 1 /\ y # 1
    BY <2>3 DEF ListOK
  <2> QED BY <2>2, <2>3
<1> HIDE DEF Wearer, Name
<1>5. f \in [S -> T]
  BY <1>1, <1>3
<1>6. playerColors \in Seq(STRING) /\ Cardinality(Client) <= Len(playerColors) /\ IsFiniteSet(Client)
  BY PlayersAssumption DEF EnoughColors
<1>7. S = 1 .. Len(playerColors) /\ Len(playerColors) \in Nat
  BY <1>6
<1>8. IsFiniteSet(S) /\ Cardinality(S) = Len(playerColors)
  <2>1. IsFiniteSet(1 .. Len(playerColors)) /\
        Cardinality(1 .. Len(playerColors)) = IF 1 > Len(playerColors) THEN 0 ELSE Len(playerColors) - 1 + 1
    BY <1>7, FS_Interval
  <2> QED BY <1>7, <2>1
<1>9. IsFiniteSet(T) /\ Cardinality(T) < Cardinality(S)
  <2>1. IsFiniteSet(T) /\ Cardinality(T) = Cardinality(Client) - 1
    BY <1>6, FS_RemoveElement
  <2>2. Cardinality(Client) \in Nat
    BY <1>6, FS_CardinalityType
  <2> QED BY <1>6, <1>7, <1>8, <2>1, <2>2
<1> HIDE DEF S, T, f
<1>10. PICK k, l \in S : k # l /\ f[k] = f[l]
  BY <1>5, <1>8, <1>9, FS_PigeonHole
<1>11. Name(Wearer(k)) = Name(Wearer(l))
  BY <1>10 DEF f
<1>12. Wearer(k) = Wearer(l)
  BY <1>1, <1>4, <1>11
<1>13. playerColors[k] = playerColors[l]
  BY <1>1, <1>12
<1> QED BY <1>10, <1>13, PlayersAssumption DEF S

\* The colour that a newcomer gets is nobody's.
LEMMA ColorIsFree ==
  ASSUME NEW list, ColorIsLeft(list)
  PROVE  \A x \in DOMAIN list : list[x].color # FirstAvailableColor(list)
<1> DEFINE I == {k \in 1 .. Len(playerColors) : \A p \in ToSet(list) : p.color # playerColors[k]}
<1>1. DOMAIN playerColors = 1 .. Len(playerColors) /\ Len(playerColors) \in Nat
  BY PlayersAssumption
<1>2. \A x \in DOMAIN list : list[x] \in ToSet(list)
  BY DEF ToSet
<1>3. \A p \in ToSet(list) : \E x \in DOMAIN list : p = list[x]
  BY DEF ToSet
<1>4. I # {} /\ I \subseteq Nat
  <2>1. PICK k \in DOMAIN playerColors : \A x \in DOMAIN list : list[x].color # playerColors[k]
    BY <1>2 DEF ColorIsLeft, ToSet
  <2>2. k \in I
    BY <1>1, <1>3, <2>1
  <2> QED BY <1>1, <2>2
<1>5. FirstAvailableColor(list) = playerColors[IF I # {} THEN CHOOSE x \in I : \A y \in I : x =< y ELSE 0]
  BY DEF FirstAvailableColor, SelectInSeq, Min
<1> DEFINE k == CHOOSE x \in I : \A y \in I : x =< y
<1>6. k \in I
  <2> HIDE DEF I
  <2>1. \E i \in I : \A j \in I : i <= j
    BY <1>4, SmallestNumber
  <2> QED BY <2>1
<1> HIDE DEF k
<1>7. \A p \in ToSet(list) : p.color # playerColors[k]
  BY <1>6
<1>8. FirstAvailableColor(list) = playerColors[k]
  BY <1>4, <1>5 DEF k
<1> QED BY <1>2, <1>7, <1>8

LEMMA PositionFound ==
  ASSUME NEW list, Sequence(list), ListOK(list), NEW x \in DOMAIN list
  PROVE  Position(list, list[x].id) = x /\ HasPlayer(list, list[x].id)
<1> DEFINE I == {i \in 1 .. Len(list) : list[i].id = list[x].id}
<1>1. DOMAIN list = 1 .. Len(list) /\ Len(list) \in Nat
  BY SequenceDomain
<1>2. \A i \in DOMAIN list : list[i].id = list[x].id => i = x
  BY DEF ListOK
<1>3. I = {x}
  BY <1>1, <1>2
<1>4. Position(list, list[x].id) = IF I # {} THEN CHOOSE i \in I : \A j \in I : i =< j ELSE 0
  BY DEF Position, SelectInSeq, Min
<1>5. (CHOOSE i \in I : \A j \in I : i =< j) = x
  <2>1. x =< x
    BY <1>1
  <2> HIDE DEF I
  <2> QED BY <1>3, <2>1
<1> HIDE DEF I
<1>6. x # 0 /\ I # {}
  BY <1>1, <1>3
<1> QED BY <1>4, <1>5, <1>6 DEF HasPlayer

LEMMA PositionMissing ==
  ASSUME NEW list, Sequence(list), NEW c, ~Listed(c, list)
  PROVE  ~HasPlayer(list, c)
<1> DEFINE I == {i \in 1 .. Len(list) : list[i].id = c}
<1>1. I = {}
  BY SequenceDomain DEF Listed
<1>2. Position(list, c) = IF I # {} THEN CHOOSE i \in I : \A j \in I : i =< j ELSE 0
  BY DEF Position, SelectInSeq, Min
<1> QED BY <1>1, <1>2 DEF HasPlayer

\* The host hears his own greeting.
LEMMA HostEnlisted ==
  ASSUME NEW list, Sequence(list), ListOK(list), NEW p, p.id = Host, p.color = Head(list).color
  PROVE  LET list2 == AddPlayer(Host, list, p) IN
         /\ Sequence(list2) /\ ListOK(list2)
         /\ \A c \in Client \ {Host} : ListKept(c, list2, list)
<1> DEFINE list2 == [list EXCEPT ![1].id = Host, ![1].color = p.color]
<1>1. DOMAIN list = 1 .. Len(list) /\ Len(list) \in Nat /\ Len(list) >= 1
  BY SequenceDomain DEF ListOK
<1>2. 1 \in DOMAIN list /\ list \in Seq({list[i] : i \in DOMAIN list})
  BY <1>1 DEF Sequence
<1>3. Head(list) = list[1]
  BY <1>2
<1>4. list[1] = [id |-> list[1].id, guid |-> list[1].guid, color |-> list[1].color]
  BY <1>2 DEF ListOK
<1>5. list2[1] = [id |-> Host, guid |-> list[1].guid, color |-> list[1].color]
  BY <1>2, <1>3, <1>4
<1>6. DOMAIN list2 = DOMAIN list /\ \A x \in DOMAIN list : x # 1 => list2[x] = list[x]
  BY <1>1
<1>7. Sequence(list2)
  <2> DEFINE S == {list2[i] : i \in 1 .. Len(list)}
  <2>1. list2 = [i \in 1 .. Len(list) |-> list2[i]]
    BY <1>1, <1>6
  <2>2. \A i \in 1 .. Len(list) : list2[i] \in S
    OBVIOUS
  <2> HIDE DEF list2, S
  <2>3. list2 \in [1 .. Len(list) -> S]
    BY <2>1, <2>2
  <2>4. list2 \in Seq(S)
    BY <1>1, <2>3
  <2> QED BY <2>4, SequenceOf
<1>8. AddPlayer(Host, list, p) = list2
  BY DEF AddPlayer
<1> HIDE DEF list2
<1>9. list2[1].id = Host /\ list2[1].guid = list[1].guid /\ list2[1].color = list[1].color
  BY <1>5
<1>10. ListOK(list2)
  <2>1. list2 # <<>> /\ list2[1].id \in {NoOne, Host}
    BY <1>1, <1>6, <1>9
  <2>2. ASSUME NEW x \in DOMAIN list2
        PROVE  /\ x > 1 => list2[x].id \in Client \ {Host}
               /\ list2[x] = [id |-> list2[x].id, guid |-> list2[x].guid, color |-> list2[x].color]
    <3>1. CASE x = 1
      BY <3>1, <1>5
    <3>2. CASE x # 1
      BY <3>2, <1>6 DEF ListOK
    <3> QED BY <3>1, <3>2
  <2>3. ASSUME NEW x \in DOMAIN list2, NEW y \in DOMAIN list2,
               list2[x].id = list2[y].id \/ list2[x].color = list2[y].color
        PROVE  x = y
    <3>1. \A z \in DOMAIN list : z # 1 => list2[z].id # Host
      BY <1>1, <1>6 DEF ListOK
    <3>2. \A z \in DOMAIN list : list2[z].color = list[z].color
      BY <1>6, <1>9
    <3>3. CASE list2[x].color = list2[y].color
      BY <3>2, <3>3, <1>6 DEF ListOK
    <3>4. CASE list2[x].id = list2[y].id /\ (x = 1 \/ y = 1)
      BY <3>1, <3>4, <1>6, <1>9
    <3>5. CASE list2[x].id = list2[y].id /\ x # 1 /\ y # 1
      BY <3>5, <1>6 DEF ListOK
    <3> QED BY <2>3, <3>3, <3>4, <3>5
  <2> QED BY <2>1, <2>2, <2>3 DEF ListOK
<1>11. ASSUME NEW c \in Client \ {Host} PROVE ListKept(c, list2, list)
  <2>1. ASSUME NEW x \in DOMAIN list2, list2[x].id = c
        PROVE  \E y \in DOMAIN list : list[y].id = c /\ list[y].color = list2[x].color
    <3>1. x # 1
      BY <2>1, <1>9
    <3> QED BY <2>1, <3>1, <1>6
  <2> QED BY <2>1 DEF ListKept
<1> QED BY <1>7, <1>8, <1>10, <1>11

\* The host lists a newcomer.
LEMMA PlayerEnlisted ==
  ASSUME NEW list, Sequence(list), ListOK(list), NEW c \in Client \ {Host}, ~Listed(c, list), NEW guid,
         NEW color, \A x \in DOMAIN list : list[x].color # color
  PROVE  LET list2 == AddPlayer(Host, list, [id |-> c, guid |-> guid, color |-> color]) IN
         /\ Sequence(list2) /\ ListOK(list2)
         /\ \A x \in DOMAIN list2 : list2[x].id = c => list2[x].color = color
         /\ \A d \in Client \ {c} : ListKept(d, list2, list)
<1> DEFINE p == [id |-> c, guid |-> guid, color |-> color]
           list2 == Append(list, p)
<1>1. AddPlayer(Host, list, p) = list2
  BY DEF AddPlayer
<1>2. p.id = c /\ p.guid = guid /\ p.color = color /\ p = [id |-> p.id, guid |-> p.guid, color |-> p.color]
  OBVIOUS
<1> HIDE DEF p
<1>3. Pushed(list2, list, p) /\ Sequence(list2)
  BY AppendPushes
<1> HIDE DEF list2
<1>4. /\ DOMAIN list = 1 .. Len(list) /\ Len(list) \in Nat /\ Len(list2) = Len(list) + 1
      /\ DOMAIN list2 = 1 .. Len(list2) /\ list2[Len(list2)] = p
      /\ \A x \in DOMAIN list2 : x # Len(list2) => x \in DOMAIN list /\ list2[x] = list[x]
  BY <1>3 DEF Pushed
<1>5. Len(list) >= 1 /\ 1 \in DOMAIN list /\ list2[1] = list[1]
  <2>1. Len(list) >= 1
    BY <1>4, SequenceDomain DEF ListOK
  <2> QED BY <2>1, <1>4
<1>6. \A x \in DOMAIN list : list[x].id # c
  BY DEF Listed
<1>7. ListOK(list2)
  <2>1. list2 # <<>> /\ list2[1].id \in {NoOne, Host}
    BY <1>4, <1>5 DEF ListOK
  <2>2. ASSUME NEW x \in DOMAIN list2
        PROVE  /\ x > 1 => list2[x].id \in Client \ {Host}
               /\ list2[x] = [id |-> list2[x].id, guid |-> list2[x].guid, color |-> list2[x].color]
    <3>1. CASE x = Len(list2)
      BY <3>1, <1>2, <1>4
    <3>2. CASE x # Len(list2)
      BY <3>2, <1>4 DEF ListOK
    <3> QED BY <3>1, <3>2
  <2>3. ASSUME NEW x \in DOMAIN list2, NEW y \in DOMAIN list2,
               list2[x].id = list2[y].id \/ list2[x].color = list2[y].color
        PROVE  x = y
    <3>1. CASE x = Len(list2) /\ y # Len(list2)
      BY <2>3, <3>1, <1>2, <1>4, <1>6
    <3>2. CASE x # Len(list2) /\ y = Len(list2)
      BY <2>3, <3>2, <1>2, <1>4, <1>6
    <3>3. CASE x # Len(list2) /\ y # Len(list2)
      BY <2>3, <3>3, <1>4 DEF ListOK
    <3> QED BY <3>1, <3>2, <3>3
  <2> QED BY <2>1, <2>2, <2>3 DEF ListOK
<1>8. \A x \in DOMAIN list2 : list2[x].id = c => list2[x].color = color
  BY <1>2, <1>4, <1>6
<1>9. ASSUME NEW d \in Client \ {c} PROVE ListKept(d, list2, list)
  BY <1>2, <1>4 DEF ListKept
<1> QED BY <1>1, <1>3, <1>7, <1>8, <1>9 DEF p

\* The host strikes who has left off his list.
LEMMA PlayerRemoved ==
  ASSUME NEW list, Sequence(list), ListOK(list), NEW c \in Client \ {Host}
  PROVE  LET list2 == RemovePlayer(list, c) IN
         /\ Sequence(list2) /\ ListOK(list2) /\ ~Listed(c, list2)
         /\ \A d \in Client : ListKept(d, list2, list)
<1>1. CASE ~Listed(c, list)
  <2>1. RemovePlayer(list, c) = list
    BY <1>1, PositionMissing DEF RemovePlayer
  <2>2. \A d \in Client : ListKept(d, list, list)
    BY DEF ListKept
  <2> QED BY <1>1, <2>1, <2>2
<1>2. CASE Listed(c, list)
  <2>1. PICK k \in DOMAIN list : list[k].id = c
    BY <1>2 DEF Listed
  <2>2. HasPlayer(list, c) /\ Position(list, c) = k
    BY <2>1, PositionFound
  <2> DEFINE list2 == RemoveAt(list, k)
             S == {list[i] : i \in DOMAIN list}
  <2>3. RemovePlayer(list, c) = list2
    BY <2>2 DEF RemovePlayer
  <2>4. list \in Seq(S) /\ DOMAIN list = 1 .. Len(list) /\ Len(list) \in Nat
    BY SequenceDomain DEF Sequence
  <2>5. k > 1
    <3>1. c # NoOne /\ c # Host
      BY PlayersAssumption
    <3>2. k # 1
      BY <2>1, <3>1 DEF ListOK
    <3> QED BY <2>4, <3>2
  <2> HIDE DEF S
  <2>6. /\ SubSeq(list, 1, k - 1) \in Seq(S) /\ Len(SubSeq(list, 1, k - 1)) = k - 1
        /\ \A i \in 1 .. k - 1 : SubSeq(list, 1, k - 1)[i] = list[i]
    BY <2>4, <2>5
  <2>7. /\ SubSeq(list, k + 1, Len(list)) \in Seq(S) /\ Len(SubSeq(list, k + 1, Len(list))) = Len(list) - k
        /\ \A i \in 1 .. Len(list) - k : SubSeq(list, k + 1, Len(list))[i] = list[k + i]
    BY <2>4, <2>5
  <2>8. list2 \in Seq(S) /\ Len(list2) = Len(list) - 1
    <3> DEFINE s == SubSeq(list, 1, k - 1)
               t == SubSeq(list, k + 1, Len(list))
    <3>1. list2 = s \o t
      BY DEF RemoveAt
    <3>2. s \in Seq(S) /\ t \in Seq(S) /\ Len(s) = k - 1 /\ Len(t) = Len(list) - k
      BY <2>6, <2>7
    <3> HIDE DEF s, t, list2
    <3>3. list2 \in Seq(S) /\ Len(list2) = Len(s) + Len(t)
      BY <3>1, <3>2, ConcatProperties
    <3> QED BY <2>4, <2>5, <3>2, <3>3
  <2>9. DOMAIN list2 = 1 .. Len(list) - 1
    BY <2>8
  <2>10. \A i \in DOMAIN list2 : list2[i] = IF i < k THEN list[i] ELSE list[i + 1]
    <3> SUFFICES ASSUME NEW i \in DOMAIN list2 PROVE list2[i] = IF i < k THEN list[i] ELSE list[i + 1]
      OBVIOUS
    <3> DEFINE s == SubSeq(list, 1, k - 1)
               t == SubSeq(list, k + 1, Len(list))
    <3>1. list2 = s \o t
      BY DEF RemoveAt
    <3> HIDE DEF s, t, list2
    <3>2. s \in Seq(S) /\ t \in Seq(S) /\ Len(s) = k - 1 /\ Len(t) = Len(list) - k
      BY <2>6, <2>7 DEF s, t
    <3>3. CASE i < k
      <4>1. i \in 1 .. Len(s)
        BY <2>9, <3>2, <3>3, <2>4
      <4>2. list2[i] = s[i]
        BY <3>1, <3>2, <4>1
      <4>3. s[i] = list[i]
        BY <2>6, <3>2, <4>1 DEF s
      <4> QED BY <3>3, <4>2, <4>3
    <3>4. CASE ~ (i < k)
      <4>1. i - (k - 1) \in 1 .. Len(t) /\ i \in Len(s) + 1 .. Len(s) + Len(t)
        BY <2>9, <3>2, <3>4, <2>4, <2>5
      <4>2. list2[i] = t[i - Len(s)]
        <5>1. \A j \in 1 .. Len(s) + Len(t) : list2[j] = IF j <= Len(s) THEN s[j] ELSE t[j - Len(s)]
          BY <3>1, <3>2, ConcatProperties
        <5>2. i \in 1 .. Len(s) + Len(t) /\ ~ (i <= Len(s))
          BY <3>2, <3>4, <2>4, <2>5, <2>9
        <5> QED BY <5>1, <5>2
      <4>3. t[i - (k - 1)] = list[k + (i - (k - 1))]
        BY <2>7, <3>2, <4>1 DEF t
      <4>4. k + (i - (k - 1)) = i + 1
        BY <2>9, <2>4
      <4> QED BY <3>2, <3>4, <4>2, <4>3, <4>4
    <3> QED BY <3>3, <3>4
  <2> HIDE DEF list2
  <2> DEFINE src(i) == IF i < k THEN i ELSE i + 1
  <2>11. \A i \in DOMAIN list2 : src(i) \in DOMAIN list /\ list2[i] = list[src(i)] /\ src(i) # k
    BY <2>4, <2>9, <2>10
  <2>12. \A i, j \in DOMAIN list2 : src(i) = src(j) => i = j
    BY <2>4, <2>9
  <2>13. /\ \A i \in DOMAIN list2 : i > 1 => src(i) > 1
         /\ src(1) = 1 /\ 1 \in DOMAIN list2
    BY <2>4, <2>5, <2>9
  <2> HIDE DEF src
  <2>14. ListOK(list2)
    <3>1. list2 # <<>> /\ list2[1].id \in {NoOne, Host}
      BY <2>11, <2>13 DEF ListOK
    <3>2. ASSUME NEW x \in DOMAIN list2
          PROVE  /\ x > 1 => list2[x].id \in Client \ {Host}
                 /\ list2[x] = [id |-> list2[x].id, guid |-> list2[x].guid, color |-> list2[x].color]
      BY <2>11, <2>13 DEF ListOK
    <3>3. ASSUME NEW x \in DOMAIN list2, NEW y \in DOMAIN list2,
                 list2[x].id = list2[y].id \/ list2[x].color = list2[y].color
          PROVE  x = y
      <4>1. src(x) = src(y)
        BY <3>3, <2>11 DEF ListOK
      <4> QED BY <4>1, <2>12
    <3> QED BY <3>1, <3>2, <3>3 DEF ListOK
  <2>15. ~Listed(c, list2)
    <3>1. \A i \in DOMAIN list : list[i].id = c => i = k
      BY <2>1 DEF ListOK
    <3> QED BY <3>1, <2>11 DEF Listed
  <2>16. \A d \in Client : ListKept(d, list2, list)
    BY <2>11 DEF ListKept
  <2>17. Sequence(list2)
    BY <2>8, SequenceOf
  <2> QED BY <2>3, <2>14, <2>15, <2>16, <2>17
<1> QED BY <1>1, <1>2

\* The host hears the news of a colour that he has given himself.
LEMMA PlayerRecolored ==
  ASSUME NEW list, Sequence(list), ListOK(list), NEW c, NEW color,
         \A x \in DOMAIN list : list[x].id = c => list[x].color = color
  PROVE  (IF HasPlayer(list, c) THEN [list EXCEPT ![Position(list, c)].color = color] ELSE list) = list
<1>1. CASE ~Listed(c, list)
  BY <1>1, PositionMissing
<1>2. CASE Listed(c, list)
  <2>1. PICK k \in DOMAIN list : list[k].id = c
    BY <1>2 DEF Listed
  <2>2. HasPlayer(list, c) /\ Position(list, c) = k
    BY <2>1, PositionFound
  <2>3. list[k].color = color /\ list[k] = [id |-> list[k].id, guid |-> list[k].guid, color |-> list[k].color]
    BY <2>1 DEF ListOK
  <2>4. [list[k] EXCEPT !.color = color] = list[k]
    BY <2>3
  <2>5. list = [x \in 1 .. Len(list) |-> list[x]] /\ DOMAIN list = 1 .. Len(list)
    BY DEF Sequence
  <2>6. [list EXCEPT ![k].color = color] = [list EXCEPT ![k] = [list[k] EXCEPT !.color = color]]
    OBVIOUS
  <2>7. [list EXCEPT ![k] = list[k]] = list
    BY <2>5
  <2> QED BY <2>2, <2>4, <2>6, <2>7
<1> QED BY <1>1, <1>2

-----------------------------------------------------------------------------
(* The channels.                                                           *)

LEMMA UploadPushes ==
  ASSUME TypeOK, NEW c \in Client, NEW route, NEW to, NEW body, NEW u, u = Upload(c, route, to, body)
  PROVE  /\ DOMAIN u = Client
         /\ Pushed(u[c], up[c], [route |-> route, to |-> to, body |-> body])
         /\ \A d \in Client \ {c} : u[d] = up[d]
         /\ \A d \in Client : Sequence(u[d])
<1> DEFINE p == [route |-> route, to |-> to, body |-> body]
<1>1. u = [up EXCEPT ![c] = Append(up[c], p)]
  BY DEF Upload
<1> HIDE DEF p
<1>2. DOMAIN u = Client /\ u[c] = Append(up[c], p) /\ \A d \in Client \ {c} : u[d] = up[d]
  BY <1>1 DEF TypeOK
<1>3. \A d \in Client : Sequence(up[d])
  BY DEF TypeOK
<1>4. Pushed(u[c], up[c], p) /\ Sequence(u[c])
  BY <1>2, <1>3, AppendPushes
<1> QED BY <1>2, <1>3, <1>4 DEF p

LEMMA UploadTypes ==
  ASSUME TypeOK, NEW c \in Client, \E route, to, body : up' = Upload(c, route, to, body)
  PROVE  DOMAIN up' = Client /\ \A d \in Client : Sequence(up'[d])
<1>1. PICK route, to, body : up' = Upload(c, route, to, body)
  OBVIOUS
<1> DEFINE u == up'
<1>2. u = Upload(c, route, to, body)
  BY <1>1
<1> HIDE DEF u
<1>3. DOMAIN u = Client
  BY <1>2, UploadPushes
<1>4. \A d \in Client : Sequence(u[d])
  BY <1>2, UploadPushes
<1> QED BY <1>3, <1>4 DEF u

LEMMA HandlingPops ==
  ASSUME TypeOK, NEW c \in Client, NEW type, Handling(c, type)
  PROVE  /\ DOMAIN down' = Client
         /\ Popped(down'[c], down[c]) /\ 1 \in DOMAIN down[c] /\ down[c] # <<>>
         /\ Head(down[c]) = down[c][1] /\ down[c][1].body.type = type
         /\ \A d \in Client \ {c} : down'[d] = down[d]
         /\ \A d \in Client : Sequence(down'[d])
<1>1. /\ down[c] # <<>> /\ Head(down[c]).body.type = type /\ down' = [down EXCEPT ![c] = Tail(down[c])]
  BY DEF Handling
<1>2. \A d \in Client : Sequence(down[d])
  BY DEF TypeOK
<1>3. /\ Popped(Tail(down[c]), down[c]) /\ Head(down[c]) = down[c][1] /\ Sequence(Tail(down[c]))
  BY <1>1, <1>2, TailPops
<1>4. DOMAIN down' = Client /\ down'[c] = Tail(down[c]) /\ \A d \in Client \ {c} : down'[d] = down[d]
  BY <1>1 DEF TypeOK
<1>5. 1 \in DOMAIN down[c]
  BY <1>3 DEF Popped
<1> QED BY <1>1, <1>2, <1>3, <1>4, <1>5

LEMMA ReceivePops ==
  ASSUME TypeOK, NEW c \in Client, NEW route, Receive(c, route)
  PROVE  /\ DOMAIN up' = Client
         /\ Popped(up'[c], up[c]) /\ 1 \in DOMAIN up[c] /\ up[c] # <<>>
         /\ Head(up[c]) = up[c][1] /\ up[c][1].route = route
         /\ \A d \in Client \ {c} : up'[d] = up[d]
         /\ \A d \in Client : Sequence(up'[d])
<1>1. /\ up[c] # <<>> /\ Head(up[c]).route = route /\ up' = [up EXCEPT ![c] = Tail(up[c])]
  BY DEF Receive
<1>2. \A d \in Client : Sequence(up[d])
  BY DEF TypeOK
<1>3. /\ Popped(Tail(up[c]), up[c]) /\ Head(up[c]) = up[c][1] /\ Sequence(Tail(up[c]))
  BY <1>1, <1>2, TailPops
<1>4. DOMAIN up' = Client /\ up'[c] = Tail(up[c]) /\ \A d \in Client \ {c} : up'[d] = up[d]
  BY <1>1 DEF TypeOK
<1>5. 1 \in DOMAIN up[c]
  BY <1>3 DEF Popped
<1> QED BY <1>1, <1>2, <1>3, <1>4, <1>5

LEMMA DeliverPushes ==
  ASSUME TypeOK, NEW S, NEW from, NEW n, NEW body, NEW u, u = Deliver(S, from, n, body)
  PROVE  /\ DOMAIN u = Client
         /\ \A c \in Client :
              /\ c \in S /\ ~HungUp(c) => Pushed(u[c], down[c], [from |-> from, n |-> n, body |-> body])
              /\ c \notin S \/ HungUp(c) => u[c] = down[c]
              /\ Sequence(u[c])
<1> DEFINE p == [from |-> from, n |-> n, body |-> body]
<1>1. u = [c \in Client |-> IF c \in S /\ ~HungUp(c) THEN Append(down[c], p) ELSE down[c]]
  BY DEF Deliver
<1> HIDE DEF p
<1>2. DOMAIN u = Client
  BY <1>1
<1>3. ASSUME NEW c \in Client
      PROVE  /\ c \in S /\ ~HungUp(c) => Pushed(u[c], down[c], p)
             /\ c \notin S \/ HungUp(c) => u[c] = down[c]
             /\ Sequence(u[c])
  <2>1. u[c] = IF c \in S /\ ~HungUp(c) THEN Append(down[c], p) ELSE down[c]
    BY <1>1
  <2>2. Sequence(down[c])
    BY DEF TypeOK
  <2>3. Pushed(Append(down[c], p), down[c], p) /\ Sequence(Append(down[c], p))
    BY <2>2, AppendPushes
  <2>4. CASE c \in S /\ ~HungUp(c)
    BY <2>1, <2>3, <2>4
  <2>5. CASE ~ (c \in S /\ ~HungUp(c))
    BY <2>1, <2>2, <2>5
  <2> QED BY <2>4, <2>5
<1> QED BY <1>2, <1>3 DEF p

LEMMA HangupCuts ==
  ASSUME TypeOK, NEW c \in Client, Hangup(c)
  PROVE  /\ DOMAIN up' = Client /\ DOMAIN down' = Client
         /\ down'[c] = <<>> /\ \A d \in Client \ {c} : up'[d] = up[d] /\ down'[d] = down[d]
         /\ \E k \in 0 .. Len(up[c]) :
              /\ DOMAIN up'[c] = 1 .. k + 1 /\ Len(up'[c]) = k + 1
              /\ \A i \in 1 .. k : up'[c][i] = up[c][i]
              /\ up'[c][k + 1] = [route |-> "Disconnect", to |-> c, body |-> [type |-> "Disconnect"]]
         /\ \A d \in Client : Sequence(up'[d]) /\ Sequence(down'[d])
<1> DEFINE p == [route |-> "Disconnect", to |-> c, body |-> [type |-> "Disconnect"]]
<1>1. /\ \E k \in 0 .. Len(up[c]) : up' = [up EXCEPT ![c] = Append(SubSeq(up[c], 1, k), p)]
      /\ down' = [down EXCEPT ![c] = <<>>]
  BY DEF Hangup
<1> HIDE DEF p
<1>2. PICK k \in 0 .. Len(up[c]) : up' = [up EXCEPT ![c] = Append(SubSeq(up[c], 1, k), p)]
  BY <1>1
<1> DEFINE t == Append(SubSeq(up[c], 1, k), p)
<1>3. Sequence(up[c])
  BY DEF TypeOK
<1>4. /\ Sequence(t) /\ DOMAIN t = 1 .. k + 1 /\ Len(t) = k + 1
      /\ \A i \in 1 .. k : t[i] = up[c][i]
      /\ t[k + 1] = p
  <2> DEFINE s == up[c]
  <2>1. Sequence(s) /\ k \in Nat /\ k <= Len(s) /\ t = Cut(s, k, p)
    BY <1>3, SequenceDomain DEF Cut
  <2> HIDE DEF s, t
  <2>2. Sequence(t) /\ Len(t) = k + 1
    BY <2>1, PrefixPushes
  <2>5. DOMAIN t = 1 .. k + 1
    BY <2>2, SequenceDomain
  <2>3. \A i \in 1 .. k : t[i] = s[i]
    BY <2>1, PrefixPushes
  <2>4. t[k + 1] = p
    BY <2>1, PrefixPushes
  <2> QED BY <2>2, <2>3, <2>4, <2>5 DEF s
<1> HIDE DEF t
<1>5. up' = [up EXCEPT ![c] = t]
  BY <1>2 DEF t
<1>6. DOMAIN up' = Client /\ up'[c] = t /\ \A d \in Client \ {c} : up'[d] = up[d]
  BY <1>5 DEF TypeOK
<1>7. DOMAIN down' = Client /\ down'[c] = <<>> /\ \A d \in Client \ {c} : down'[d] = down[d]
  BY <1>1 DEF TypeOK
<1>8. \A d \in Client : Sequence(up'[d]) /\ Sequence(down'[d])
  BY <1>4, <1>6, <1>7, SequenceEmpty DEF TypeOK
<1> QED BY <1>4, <1>6, <1>7, <1>8 DEF p

LEMMA TypesKept ==
  ASSUME TypeOK, [Next]_vars
  PROVE  TypeOK'
<1> USE HostAssumption
<1>0. /\ DOMAIN up = Client /\ DOMAIN down = Client /\ DOMAIN players = Client /\ DOMAIN status = Client
      /\ \A c \in Client : Sequence(up[c]) /\ Sequence(down[c])
      /\ members \subseteq Client
  BY DEF TypeOK
<1>1. CASE UNCHANGED vars
  BY <1>0, <1>1 DEF vars, relayVars, TypeOK
<1>2. CASE HandleConnectionEstablished
  <2>1. /\ status' = [status EXCEPT ![Host] = "welcomed"] /\ UNCHANGED <<members, down, players>>
        /\ up' = Upload(Host, "ClientToAll", Host, [type |-> "PlayerHasJoined", guid |-> Head(players[Host]).guid])
    BY <1>2 DEF HandleConnectionEstablished, Greeting
  <2>2. DOMAIN up' = Client /\ \A d \in Client : Sequence(up'[d])
    BY <2>1, UploadTypes
  <2> QED BY <1>0, <2>1, <2>2 DEF TypeOK
<1>3. CASE HandlePlayerWantsToJoin
  <2>1. Handling(Host, "PlayerWantsToJoin") /\ UNCHANGED <<members, players, status>>
    BY <1>3 DEF HandlePlayerWantsToJoin, Handling
  <2>2. DOMAIN down' = Client /\ \A d \in Client : Sequence(down'[d])
    BY <2>1, HandlingPops
  <2>3. up' = up \/ \E route, to, body : up' = Upload(Host, route, to, body)
    BY <1>3 DEF HandlePlayerWantsToJoin, SendToOne
  <2>4. DOMAIN up' = Client /\ \A d \in Client : Sequence(up'[d])
    BY <1>0, <2>3, UploadTypes
  <2> QED BY <1>0, <2>1, <2>2, <2>4 DEF TypeOK
<1>4. CASE HandleRequest
  <2>1. Handling(Host, "Request") /\ UNCHANGED <<members, players, status>>
    BY <1>4 DEF HandleRequest, Handling
  <2>2. DOMAIN down' = Client /\ \A d \in Client : Sequence(down'[d])
    BY <2>1, HandlingPops
  <2>3. \E route, to, body : up' = Upload(Host, route, to, body)
    BY <1>4 DEF HandleRequest
  <2>4. DOMAIN up' = Client /\ \A d \in Client : Sequence(up'[d])
    BY <2>3, UploadTypes
  <2> QED BY <1>0, <2>1, <2>2, <2>4 DEF TypeOK
<1>5. ASSUME NEW c \in Client, Connect(c) PROVE TypeOK'
  <2>1. /\ members' = members \cup {c} /\ down' = Deliver({Host}, c, 0, [type |-> "PlayerWantsToJoin"])
        /\ status' = [status EXCEPT ![c] = "connecting"] /\ UNCHANGED <<up, players>>
    BY <1>5 DEF Connect, OnPlayerConnected
  <2>2. DOMAIN down' = Client /\ \A d \in Client : Sequence(down'[d])
    <3>1. down' = Deliver({Host}, c, 0, [type |-> "PlayerWantsToJoin"])
      BY <2>1
    <3> QED BY <3>1, DeliverPushes, ZenonT(40)
  <2>3. DOMAIN status' = Client /\ DOMAIN players' = Client /\ members' \subseteq Client
    BY <1>0, <2>1
  <2>4. DOMAIN up' = Client /\ \A d \in Client : Sequence(up'[d])
    BY <1>0, <2>1
  <2> QED BY <2>2, <2>3, <2>4 DEF TypeOK
<1>6. ASSUME NEW c \in Client, Leave(c) PROVE TypeOK'
  <2>1. /\ Hangup(c) /\ UNCHANGED members
        /\ players' = [players EXCEPT ![c] = RemoveAllPlayers(players[c])]
        /\ status' = [status EXCEPT ![c] = "out"]
    BY <1>6 DEF Leave, Hangup, SetPlayers
  <2>2. /\ DOMAIN up' = Client /\ DOMAIN down' = Client
        /\ \A d \in Client : Sequence(up'[d]) /\ Sequence(down'[d])
    BY <2>1, HangupCuts
  <2> QED BY <1>0, <2>1, <2>2 DEF TypeOK
<1>7. ASSUME NEW c \in Client, Ask(c) PROVE TypeOK'
  <2>1. /\ up' = Upload(c, "ClientToHost", Host, [type |-> "Request", change |-> counts.asks + 1])
        /\ UNCHANGED <<members, down, players, status>>
    BY <1>7 DEF Ask
  <2>2. DOMAIN up' = Client /\ \A d \in Client : Sequence(up'[d])
    BY <2>1, UploadTypes
  <2> QED BY <1>0, <2>1, <2>2 DEF TypeOK
<1>8. ASSUME NEW c \in Client, HandleConnectionAccepted(c) PROVE TypeOK'
  <2>1. /\ Handling(c, "ConnectionAccepted") /\ UNCHANGED members
        /\ \E list : players' = [players EXCEPT ![c] = list]
        /\ status' = [status EXCEPT ![c] = "welcomed"]
        /\ \E route, to, body : up' = Upload(c, route, to, body)
    BY <1>8 DEF HandleConnectionAccepted, Handling, SetPlayers, Greeting
  <2>2. DOMAIN down' = Client /\ \A d \in Client : Sequence(down'[d])
    BY <2>1, HandlingPops
  <2>3. DOMAIN up' = Client /\ \A d \in Client : Sequence(up'[d])
    BY <2>1, UploadTypes
  <2> QED BY <1>0, <2>1, <2>2, <2>3 DEF TypeOK
<1>9. ASSUME NEW c \in Client, HandlePlayerHasJoined(c) PROVE TypeOK'
  <2>1. /\ Handling(c, "PlayerHasJoined") /\ UNCHANGED members
        /\ \E list : players' = [players EXCEPT ![c] = list]
        /\ status' = [status EXCEPT ![c] = IF Sender(c) = c THEN "in" ELSE status[c]]
        /\ up' = up \/ \E route, to, body : up' = Upload(c, route, to, body)
    BY <1>9 DEF HandlePlayerHasJoined, Handling, SetPlayers
  <2>2. DOMAIN down' = Client /\ \A d \in Client : Sequence(down'[d])
    BY <2>1, HandlingPops
  <2>3. DOMAIN up' = Client /\ \A d \in Client : Sequence(up'[d])
    BY <1>0, <2>1, UploadTypes
  <2> QED BY <1>0, <2>1, <2>2, <2>3 DEF TypeOK
<1>10. ASSUME NEW c \in Client, HandlePlayerColorChanged(c) \/ HandlePlayerHasLeft(c) \/ HandleChangeAccepted(c)
       PROVE  TypeOK'
  <2>1. /\ UNCHANGED <<members, up, status>> /\ \E type : Handling(c, type)
        /\ players' = players \/ \E list : players' = [players EXCEPT ![c] = list]
    BY <1>10 DEF HandlePlayerColorChanged, HandlePlayerHasLeft, HandleChangeAccepted, Handling, SetPlayers
  <2>2. DOMAIN down' = Client /\ \A d \in Client : Sequence(down'[d])
    BY <2>1, HandlingPops
  <2> QED BY <1>0, <2>1, <2>2 DEF TypeOK
<1>11. ASSUME NEW c \in Client, HandleHostDisconnected(c) PROVE TypeOK'
  <2>1. /\ Handling(c, "HostDisconnected") /\ UNCHANGED members
        /\ players' = [players EXCEPT ![c] = RemoveAllPlayers(players[c])]
        /\ status' = [status EXCEPT ![c] = "out"] /\ up' = [up EXCEPT ![c] = <<>>]
    BY <1>11 DEF HandleHostDisconnected, Handling, SetPlayers
  <2>2. DOMAIN down' = Client /\ \A d \in Client : Sequence(down'[d])
    BY <2>1, HandlingPops
  <2>3. DOMAIN up' = Client /\ \A d \in Client : Sequence(up'[d])
    BY <1>0, <2>1, SequenceEmpty
  <2> QED BY <1>0, <2>1, <2>2, <2>3 DEF TypeOK
<1>12. ASSUME NEW c \in Client, Relaying(c) PROVE TypeOK'
  <2>1. UNCHANGED <<players, status>> /\ \E route : Receive(c, route)
    BY <1>12 DEF Relaying, ServerStep, OnReliableMessageFromClientToHost, OnReliableMessageFromClientToAll,
                 OnReliableMessageFromHostToSingleClient, OnPlayerDisconnected
  <2>2. DOMAIN up' = Client /\ \A d \in Client : Sequence(up'[d])
    BY <2>1, ReceivePops
  <2>3. members' \subseteq members /\ (down' = down \/ \E S, from, n, body : down' = Deliver(S, from, n, body))
    BY <1>12 DEF Relaying, ServerStep, OnReliableMessageFromClientToHost, OnReliableMessageFromClientToAll,
                 OnReliableMessageFromHostToSingleClient, OnPlayerDisconnected
  <2>4. DOMAIN down' = Client /\ \A d \in Client : Sequence(down'[d])
    BY <1>0, <2>3, DeliverPushes
  <2> QED BY <1>0, <2>1, <2>2, <2>3, <2>4 DEF TypeOK
<1>13. QED
  BY <1>1, <1>2, <1>3, <1>4, <1>5, <1>6, <1>7, <1>8, <1>9, <1>10, <1>11, <1>12 DEF Next

-----------------------------------------------------------------------------
(* What a step while the host plays leaves in order, for all but the       *)
(* programs in X, the host among them, that it is about.                   *)

Plays == TypeOK /\ ListIsOK /\ HostPlays /\ status[Host] # "out"

\* What is sent.
UpStep(X) ==
  \A c \in Client :
    \/ up'[c] = up[c]
    \/ Popped(up'[c], up[c])
    \/ \E p : /\ Pushed(up'[c], up[c], p) /\ UpOK(c, p)
              /\ c = Host => \A d \in Client \ X : ~Mark(2, d, p)
              /\ c \notin X => ~Greets(p)
    \/ c \in X \ {Host} /\ UpAll(c, up'[c])

\* What is received.
DownStep(X) ==
  /\ \A c \in Client :
       \/ down'[c] = down[c]
       \/ Popped(down'[c], down[c])
       \/ \E p : /\ Pushed(down'[c], down[c], p) /\ p.body.type # "HostDisconnected"
                 /\ c = Host => DownOK(p) /\ \A d \in Client \ X : ~Mark(1, d, p)
                 /\ c \notin X => ~Accepts(p)
       \/ c \in X \ {Host} /\ down'[c] = <<>>
  /\ Popped(down'[Host], down[Host]) => \A d \in Client \ X : ~Left(d, down[Host][1])

\* Who is out.
OutStep ==
  \A c \in Client \ {Host} : status'[c] = "out" =>
    \/ /\ status[c] = "out" /\ down'[c] = down[c]
       /\ c \in members' => /\ c \in members
                            /\ \/ up'[c] = up[c]
                               \/ Popped(up'[c], up[c]) /\ up[c][1].route # "Disconnect"
    \/ down'[c] = <<>> /\ (c \notin members' \/ HungUp(c)')

ListStep(X) == ListIsOK' /\ \A d \in Client \ X : ListKept(d, players'[Host], players[Host])

LEMMA UpKept ==
  \A c, new, old :
    UpAll(c, old) /\ (new = old \/ Popped(new, old) \/ \E p : Pushed(new, old, p) /\ UpOK(c, p))
      => UpAll(c, new)
<1> SUFFICES ASSUME NEW c, NEW new, NEW old, UpAll(c, old),
                    new = old \/ Popped(new, old) \/ \E p : Pushed(new, old, p) /\ UpOK(c, p)
             PROVE  UpAll(c, new)
  OBVIOUS
<1>1. CASE new = old
  BY <1>1
<1>2. CASE Popped(new, old)
  <2>1. \A i \in DOMAIN new : i + 1 \in DOMAIN old /\ new[i] = old[i + 1]
    BY <1>2 DEF Popped
  <2> QED BY <2>1 DEF UpAll
<1>3. ASSUME NEW p, Pushed(new, old, p), UpOK(c, p) PROVE UpAll(c, new)
  <2>1. \A i \in DOMAIN new : (i \in DOMAIN old /\ new[i] = old[i]) \/ new[i] = p
    BY <1>3 DEF Pushed
  <2> QED BY <1>3, <2>1 DEF UpAll
<1> QED BY <1>1, <1>2, <1>3

LEMMA DownKept ==
  \A new, old :
    DownAll(old) /\ (new = old \/ Popped(new, old) \/ \E p : Pushed(new, old, p) /\ DownOK(p))
      => DownAll(new)
<1> SUFFICES ASSUME NEW new, NEW old, DownAll(old),
                    new = old \/ Popped(new, old) \/ \E p : Pushed(new, old, p) /\ DownOK(p)
             PROVE  DownAll(new)
  OBVIOUS
<1>1. CASE new = old
  BY <1>1
<1>2. CASE Popped(new, old)
  <2>1. \A i \in DOMAIN new : i + 1 \in DOMAIN old /\ new[i] = old[i + 1]
    BY <1>2 DEF Popped
  <2> QED BY <2>1 DEF DownAll
<1>3. ASSUME NEW p, Pushed(new, old, p), DownOK(p) PROVE DownAll(new)
  <2>1. \A i \in DOMAIN new : (i \in DOMAIN old /\ new[i] = old[i]) \/ new[i] = p
    BY <1>3 DEF Pushed
  <2> QED BY <1>3, <2>1 DEF DownAll
<1> QED BY <1>1, <1>2, <1>3

LEMMA UntoldKept ==
  \A new, old :
    Untold(old) /\ (new = old \/ Popped(new, old) \/ \E p : Pushed(new, old, p) /\ p.body.type # "HostDisconnected")
      => Untold(new)
<1> SUFFICES ASSUME NEW new, NEW old, Untold(old),
                    new = old \/ Popped(new, old) \/ \E p : Pushed(new, old, p) /\ p.body.type # "HostDisconnected"
             PROVE  Untold(new)
  OBVIOUS
<1>1. CASE new = old
  BY <1>1
<1>2. CASE Popped(new, old)
  <2>1. \A i \in DOMAIN new : i + 1 \in DOMAIN old /\ new[i] = old[i + 1]
    BY <1>2 DEF Popped
  <2> QED BY <2>1 DEF Untold
<1>3. ASSUME NEW p, Pushed(new, old, p), p.body.type # "HostDisconnected" PROVE Untold(new)
  <2>1. \A i \in DOMAIN new : (i \in DOMAIN old /\ new[i] = old[i]) \/ new[i] = p
    BY <1>3 DEF Pushed
  <2> QED BY <1>3, <2>1 DEF Untold
<1> QED BY <1>1, <1>2, <1>3

\* Whoever has hung up is known to have, until the server hears of it.
LEMMA HungUpKept ==
  ASSUME NEW c, HungUp(c), Sequence(up[c]), Sequence(up'[c]),
         up'[c] = up[c] \/ (Popped(up'[c], up[c]) /\ up[c][1].route # "Disconnect")
  PROVE  HungUp(c)'
<1>1. up[c] # <<>> /\ up[c][Len(up[c])].route = "Disconnect"
  BY DEF HungUp
<1>2. CASE up'[c] = up[c]
  BY <1>1, <1>2 DEF HungUp
<1>3. CASE Popped(up'[c], up[c]) /\ up[c][1].route # "Disconnect"
  <2>1. Len(up[c]) # 1
    BY <1>1, <1>3
  <2>2. /\ Len(up[c]) \in Nat /\ Len(up'[c]) = Len(up[c]) - 1 /\ Len(up'[c]) >= 1
        /\ up'[c][Len(up'[c])] = up[c][Len(up[c])]
    <3> DEFINE s == up[c]
               t == up'[c]
               n == Len(s)
    <3>1. n \in Nat /\ n >= 1 /\ Len(t) = n - 1 /\ \A i \in 1 .. Len(t) : t[i] = s[i + 1]
      BY <1>3 DEF Popped
    <3>2. n # 1
      BY <2>1
    <3> HIDE DEF s, t, n
    <3>3. n - 1 \in 1 .. Len(t) /\ (n - 1) + 1 = n
      BY <3>1, <3>2
    <3>4. t[n - 1] = s[n]
      BY <3>1, <3>3
    <3>5. Len(t) >= 1
      BY <3>1, <3>2
    <3> QED BY <3>1, <3>4, <3>5 DEF s, t, n
  <2>3. up'[c] # <<>>
    BY <2>2, SequenceDomain
  <2> QED BY <1>1, <2>2, <2>3 DEF HungUp
<1> QED BY <1>2, <1>3

LEMMA Unmoved ==
  ASSUME TypeOK, TypeOK', NEW d \in Client \ {Host}, ClientOf(d),
         HostFewer(d, down'[Host], down[Host]), Fewer(2, d, up'[Host], up[Host]),
         Fewer(3, d, down'[d], down[d]), Fewer(4, d, up'[d], up[d]),
         ListKept(d, players'[Host], players[Host]), d \in members' \/ d \notin members
  PROVE  ClientOf(d)'
<1> DEFINE dh == down[Host] 
           uh == up[Host]
           dc == down[d]
           uc == up[d]
           dh2 == down'[Host]
           uh2 == up'[Host]
           dc2 == down'[d]
           uc2 == up'[d]
           list == players[Host]
           list2 == players'[Host]
           m == d \in members
           m2 == d \in members'
<1>1. Sequence(dh) /\ Sequence(uh) /\ Sequence(dc) /\ Sequence(uc)
  BY HostAssumption DEF TypeOK
<1>2. Sequence(dh2) /\ Sequence(uh2) /\ Sequence(dc2) /\ Sequence(uc2)
  BY HostAssumption DEF TypeOK
<1>3. ClientOK(d, dh, uh, dc, uc, list, m)
  BY DEF ClientOf
<1>4. HostFewer(d, dh2, dh) /\ Fewer(2, d, uh2, uh) /\ Fewer(3, d, dc2, dc) /\ Fewer(4, d, uc2, uc)
  OBVIOUS
<1>5. ListKept(d, list2, list) /\ (m2 \/ ~m)
  OBVIOUS
<1> HIDE DEF dh, uh, dc, uc, dh2, uh2, dc2, uc2, list, list2, m, m2
<1>6. ClientOK(d, dh2, uh2, dc2, uc2, list2, m2)
  BY <1>1, <1>2, <1>3, <1>4, <1>5, ClientKept
<1> QED BY <1>6 DEF ClientOf, dh2, uh2, dc2, uc2, list2, m2

LEMMA StepKeeps ==
  ASSUME Plays, TypeOK', NEW X, Host \in X, UpStep(X), DownStep(X), OutStep, ListStep(X),
         \A d \in Client \ X : d \in members' \/ d \notin members,
         \A c \in (X \cap Client) \ {Host} : ClientOf(c)',
         Host \in members', status'[Host] # "out"
  PROVE  Plays'
<1> USE HostAssumption
<1>0. \A c \in Client : /\ Sequence(up[c]) /\ Sequence(down[c])
                        /\ Sequence(up'[c]) /\ Sequence(down'[c])
  BY DEF Plays, TypeOK
<1>1. \A c \in Client : UpAll(c, up'[c])
  <2> SUFFICES ASSUME NEW c \in Client PROVE UpAll(c, up'[c])
    OBVIOUS
  <2>1. UpAll(c, up[c])
    BY DEF Plays, HostPlays, PacketsOK
  <2>2. \/ up'[c] = up[c] \/ Popped(up'[c], up[c]) \/ \E p : Pushed(up'[c], up[c], p) /\ UpOK(c, p)
        \/ UpAll(c, up'[c])
    BY DEF UpStep
  <2> QED BY <2>1, <2>2, UpKept
<1>2. DownAll(down'[Host])
  <2>1. DownAll(down[Host])
    BY DEF Plays, HostPlays, PacketsOK
  <2>2. \/ down'[Host] = down[Host] \/ Popped(down'[Host], down[Host])
        \/ \E p : Pushed(down'[Host], down[Host], p) /\ DownOK(p)
    BY DEF DownStep
  <2> QED BY <2>1, <2>2, DownKept
<1>3. PacketsOK'
  BY <1>1, <1>2 DEF PacketsOK
<1>4. ASSUME NEW c \in Client \ {Host} PROVE OutOf(c)'
  <2>1. OutOf(c)
    BY DEF Plays, HostPlays, OutOK
  <2>2. Untold(down'[c])
    <3>1. \/ down'[c] = down[c] \/ Popped(down'[c], down[c])
          \/ \E p : Pushed(down'[c], down[c], p) /\ p.body.type # "HostDisconnected"
          \/ down'[c] = <<>>
      BY DEF DownStep
    <3>2. down'[c] = <<>> => Untold(down'[c])
      BY SequenceEmpty DEF Untold
    <3> QED BY <2>1, <3>1, <3>2, UntoldKept DEF OutOf
  <2>3. ASSUME status'[c] = "out" PROVE down'[c] = <<>> /\ (c \notin members' \/ HungUp(c)')
    <3>1. CASE down'[c] = <<>> /\ (c \notin members' \/ HungUp(c)')
      BY <3>1
    <3>2. CASE /\ status[c] = "out" /\ down'[c] = down[c]
               /\ c \in members' => /\ c \in members
                                    /\ \/ up'[c] = up[c]
                                       \/ Popped(up'[c], up[c]) /\ up[c][1].route # "Disconnect"
      <4>1. down'[c] = <<>> /\ (c \notin members \/ HungUp(c))
        BY <2>1, <3>2 DEF OutOf
      <4>2. ASSUME c \in members' PROVE HungUp(c)'
        BY <1>0, <3>2, <4>1, <4>2, HungUpKept
      <4> QED BY <4>1, <4>2
    <3> QED BY <2>3, <3>1, <3>2 DEF OutStep
  <2> QED BY <2>2, <2>3 DEF OutOf
<1>5. ASSUME NEW d \in Client \ X PROVE ClientOf(d)'
  <2>1. d \in Client \ {Host} /\ ClientOf(d)
    BY DEF Plays, HostPlays, ClientsOK
  <2>2. HostFewer(d, down'[Host], down[Host])
    <3>1. \/ down'[Host] = down[Host] \/ Popped(down'[Host], down[Host])
          \/ \E p : Pushed(down'[Host], down[Host], p) /\ ~Mark(1, d, p)
      BY DEF DownStep
    <3>2. Popped(down'[Host], down[Host]) => ~Left(d, down[Host][1])
      BY DEF DownStep
    <3> QED BY <1>0, <3>1, <3>2, FewerSame, HostFewerPopped, HostFewerPushed
  <2>3. Fewer(2, d, up'[Host], up[Host])
    <3>1. \/ up'[Host] = up[Host] \/ Popped(up'[Host], up[Host])
          \/ \E p : Pushed(up'[Host], up[Host], p) /\ ~Mark(2, d, p)
      BY DEF UpStep
    <3> QED BY <1>0, <3>1, FewerSame, FewerPopped, FewerPushed
  <2>4. Fewer(3, d, down'[d], down[d])
    <3>1. \/ down'[d] = down[d] \/ Popped(down'[d], down[d])
          \/ \E p : Pushed(down'[d], down[d], p) /\ ~Mark(3, d, p)
      BY DEF DownStep, Mark
    <3> QED BY <1>0, <3>1, FewerSame, FewerPopped, FewerPushed
  <2>5. Fewer(4, d, up'[d], up[d])
    <3>1. \/ up'[d] = up[d] \/ Popped(up'[d], up[d])
          \/ \E p : Pushed(up'[d], up[d], p) /\ ~Mark(4, d, p)
      BY DEF UpStep, Mark
    <3> QED BY <1>0, <3>1, FewerSame, FewerPopped, FewerPushed
  <2>6. ListKept(d, players'[Host], players[Host]) /\ (d \in members' \/ d \notin members)
    BY DEF ListStep
  <2> QED BY <2>1, <2>2, <2>3, <2>4, <2>5, <2>6, Unmoved DEF Plays
<1>6. ClientsOK'
  BY <1>5 DEF ClientsOK
<1>7. OutOK'
  BY <1>4 DEF OutOK
<1> QED BY <1>3, <1>6, <1>7 DEF Plays, HostPlays, ListStep

LEMMA ListUnchanged ==
  ASSUME Plays, players'[Host] = players[Host], NEW X
  PROVE  ListStep(X)
BY DEF Plays, ListIsOK, ListStep, ListKept

LEMMA NotPopped == \A s : ~Popped(s, s)
BY DEF Popped

\* While the host plays he has not hung up.
LEMMA HostIsUp ==
  ASSUME Plays
  PROVE  ~HungUp(Host)
<1>1. Sequence(up[Host]) /\ UpAll(Host, up[Host])
  BY HostAssumption DEF Plays, HostPlays, PacketsOK, TypeOK
<1>2. up[Host] # <<>> => Len(up[Host]) \in DOMAIN up[Host]
  BY <1>1, SequenceDomain
<1> QED BY <1>1, <1>2 DEF UpAll, UpOK, HungUp

-----------------------------------------------------------------------------
(* One lemma for each action, while the host plays.                        *)

LEMMA ConnectionEstablishedKeeps ==
  ASSUME Plays, TypeOK', HandleConnectionEstablished
  PROVE  Plays'
<1> USE HostAssumption
<1> DEFINE X == {Host}
           body == [type |-> "PlayerHasJoined", guid |-> Head(players[Host]).guid]
           p == [route |-> "ClientToAll", to |-> Host, body |-> body]
<1>1. /\ up' = Upload(Host, "ClientToAll", Host, body) /\ UNCHANGED <<members, down, players>>
      /\ status' = [status EXCEPT ![Host] = "welcomed"]
  BY DEF HandleConnectionEstablished, Greeting
<1>2. UpOK(Host, p) /\ \A d \in Client \ X : ~Mark(2, d, p)
  BY DEF UpOK, Mark, Answers, Colors
<1>3. TypeOK /\ Host \in members /\ DOMAIN status = Client
  BY DEF Plays, HostPlays, TypeOK
<1> HIDE DEF X, body
<1>4. Pushed(up'[Host], up[Host], p) /\ \A d \in Client \ {Host} : up'[d] = up[d]
  BY <1>1, <1>3, UploadPushes
<1> HIDE DEF p
<1>5. UpStep(X)
  BY <1>2, <1>4 DEF UpStep, X
<1>6. DownStep(X)
  BY <1>1, NotPopped DEF DownStep
<1>7. OutStep
  BY <1>1, <1>3, <1>4 DEF OutStep
<1>8. ListStep(X)
  BY <1>1, ListUnchanged
<1>9. Host \in X /\ Host \in members' /\ status'[Host] # "out"
  BY <1>1, <1>3 DEF X
<1> QED BY <1>1, <1>5, <1>6, <1>7, <1>8, <1>9, StepKeeps DEF X

LEMMA RequestKeeps ==
  ASSUME Plays, TypeOK', HandleRequest
  PROVE  Plays'
<1> USE HostAssumption
<1> DEFINE X == {Host}
           body == [type |-> "ChangeAccepted", player |-> Sender(Host), change |-> Body(Host).change]
           p == [route |-> "ClientToAll", to |-> Host, body |-> body]
<1>1. /\ up' = Upload(Host, "ClientToAll", Host, body) /\ UNCHANGED <<members, players, status>>
      /\ Handling(Host, "Request")
  BY DEF HandleRequest, Handling
<1>2. UpOK(Host, p) /\ \A d \in Client \ X : ~Mark(2, d, p)
  BY DEF UpOK, Mark, Answers, Colors
<1>3. TypeOK /\ Host \in members /\ DOMAIN status = Client /\ status[Host] # "out"
  BY DEF Plays, HostPlays, TypeOK
<1> HIDE DEF X, body
<1>4. Pushed(up'[Host], up[Host], p) /\ \A d \in Client \ {Host} : up'[d] = up[d]
  BY <1>1, <1>3, UploadPushes
<1> HIDE DEF p
<1>5. /\ Popped(down'[Host], down[Host]) /\ down[Host][1].body.type = "Request"
      /\ \A d \in Client \ {Host} : down'[d] = down[d]
  BY <1>1, <1>3, HandlingPops
<1>6. UpStep(X)
  BY <1>2, <1>4 DEF UpStep, X
<1>7. DownStep(X)
  BY <1>5 DEF DownStep, Left
<1>8. OutStep
  BY <1>1, <1>4, <1>5 DEF OutStep
<1>9. ListStep(X)
  BY <1>1, ListUnchanged
<1>10. Host \in X /\ Host \in members' /\ status'[Host] # "out"
  BY <1>1, <1>3 DEF X
<1> QED BY <1>1, <1>6, <1>7, <1>8, <1>9, <1>10, StepKeeps DEF X

LEMMA AskKeeps ==
  ASSUME Plays, TypeOK', NEW c \in Client, Ask(c)
  PROVE  Plays'
<1> USE HostAssumption
<1> DEFINE X == {Host}
           body == [type |-> "Request", change |-> counts.asks + 1]
           p == [route |-> "ClientToHost", to |-> Host, body |-> body]
<1>1. /\ up' = Upload(c, "ClientToHost", Host, body) /\ UNCHANGED <<members, down, players, status>>
      /\ status[c] # "out"
  BY DEF Ask
<1>2. UpOK(c, p) /\ ~Greets(p) /\ \A d \in Client \ X : ~Mark(2, d, p)
  BY DEF UpOK, Mark, Answers, Colors, Greets
<1>3. TypeOK /\ Host \in members /\ status[Host] # "out"
  BY DEF Plays, HostPlays
<1> HIDE DEF X, body
<1>4. Pushed(up'[c], up[c], p) /\ \A d \in Client \ {c} : up'[d] = up[d]
  BY <1>1, <1>3, UploadPushes
<1> HIDE DEF p
<1>5. UpStep(X)
  BY <1>2, <1>4 DEF UpStep
<1>6. DownStep(X)
  BY <1>1, NotPopped DEF DownStep
<1>7. OutStep
  BY <1>1, <1>4 DEF OutStep
<1>8. ListStep(X)
  BY <1>1, ListUnchanged
<1>9. Host \in X /\ Host \in members' /\ status'[Host] # "out"
  BY <1>1, <1>3 DEF X
<1> QED BY <1>1, <1>5, <1>6, <1>7, <1>8, <1>9, StepKeeps DEF X

\* A program other than the host handles something that it does not answer.
LEMMA OthersKeep ==
  ASSUME Plays, TypeOK', NEW c \in Client \ {Host},
         HandlePlayerHasJoined(c) \/ HandlePlayerColorChanged(c) \/ HandlePlayerHasLeft(c) \/ HandleChangeAccepted(c)
  PROVE  Plays'
<1> USE HostAssumption
<1> DEFINE X == {Host}
<1>1. /\ \E type : Handling(c, type)
      /\ UNCHANGED <<members, up>>
      /\ players' = players \/ \E list : players' = [players EXCEPT ![c] = list]
      /\ status' = status \/ status' = [status EXCEPT ![c] = IF Sender(c) = c THEN "in" ELSE @]
  BY DEF HandlePlayerHasJoined, HandlePlayerColorChanged, HandlePlayerHasLeft, HandleChangeAccepted, Handling, SetPlayers
<1>2. /\ TypeOK /\ Host \in members /\ status[Host] # "out"
      /\ DOMAIN players = Client /\ DOMAIN status = Client
      /\ OutOf(c)
  BY DEF Plays, HostPlays, TypeOK, OutOK
<1>3. /\ Popped(down'[c], down[c]) /\ down[c] # <<>> /\ \A d \in Client \ {c} : down'[d] = down[d]
  BY <1>1, <1>2, HandlingPops
<1>4. status[c] # "out"
  BY <1>2, <1>3 DEF OutOf
<1>5. /\ players'[Host] = players[Host] /\ status'[c] # "out" /\ \A d \in Client \ {c} : status'[d] = status[d]
  BY <1>1, <1>2, <1>4
<1> HIDE DEF X
<1>6. UpStep(X)
  BY <1>1 DEF UpStep
<1>7. DownStep(X)
  BY <1>3, NotPopped DEF DownStep
<1>8. OutStep
  BY <1>1, <1>3, <1>5 DEF OutStep
<1>9. ListStep(X)
  BY <1>5, ListUnchanged
<1>10. Host \in X /\ Host \in members' /\ status'[Host] # "out"
  BY <1>1, <1>2, <1>5 DEF X
<1> QED BY <1>1, <1>6, <1>7, <1>8, <1>9, <1>10, StepKeeps DEF X

LEMMA ChangeAcceptedKeeps ==
  ASSUME Plays, TypeOK', HandleChangeAccepted(Host)
  PROVE  Plays'
<1> USE HostAssumption
<1> DEFINE X == {Host}
<1>1. Handling(Host, "ChangeAccepted") /\ UNCHANGED <<members, up, players, status>>
  BY DEF HandleChangeAccepted, Handling
<1>2. TypeOK /\ Host \in members /\ status[Host] # "out"
  BY DEF Plays, HostPlays
<1>3. /\ Popped(down'[Host], down[Host]) /\ down[Host][1].body.type = "ChangeAccepted"
      /\ \A d \in Client \ {Host} : down'[d] = down[d]
  BY <1>1, <1>2, HandlingPops
<1> HIDE DEF X
<1>4. UpStep(X)
  BY <1>1 DEF UpStep
<1>5. DownStep(X)
  BY <1>3 DEF DownStep, Left
<1>6. OutStep
  BY <1>1, <1>3 DEF OutStep
<1>7. ListStep(X)
  BY <1>1, ListUnchanged
<1>8. Host \in X /\ Host \in members' /\ status'[Host] # "out"
  BY <1>1, <1>2 DEF X
<1> QED BY <1>1, <1>4, <1>5, <1>6, <1>7, <1>8, StepKeeps DEF X

\* The host hears the news of a colour that he has given, which is still true.
LEMMA ColorChangedKeeps ==
  ASSUME Plays, TypeOK', HandlePlayerColorChanged(Host)
  PROVE  Plays'
<1> USE HostAssumption
<1> DEFINE X == {Host}
           c == Body(Host).player
           color == Body(Host).color
           list == players[Host]
<1>1. /\ Handling(Host, "PlayerColorChanged") /\ UNCHANGED <<members, up, status>>
      /\ players' = [players EXCEPT ![Host] = IF HasPlayer(list, c)
                                              THEN [list EXCEPT ![Position(list, c)].color = color]
                                              ELSE list]
  BY DEF HandlePlayerColorChanged, Handling, SetPlayers
<1>2. TypeOK /\ Host \in members /\ status[Host] # "out" /\ DOMAIN players = Client
  BY DEF Plays, HostPlays, TypeOK
<1>3. /\ Popped(down'[Host], down[Host]) /\ down[Host][1].body.type = "PlayerColorChanged"
      /\ \A d \in Client \ {Host} : down'[d] = down[d]
      /\ 1 \in DOMAIN down[Host] /\ Head(down[Host]) = down[Host][1]
  BY <1>1, <1>2, HandlingPops
<1>4. Colors(c, down[Host][1]) /\ c \in Client \ {Host} /\ down[Host][1].body.color = color
  <2>1. DownOK(down[Host][1])
    BY <1>3 DEF Plays, HostPlays, PacketsOK, DownAll
  <2> QED BY <1>3, <2>1 DEF DownOK, Colors, Body
<1> HIDE DEF c, color
<1>5. ClientOf(c)
  BY <1>4 DEF Plays, HostPlays, ClientsOK
<1>6. \A x \in DOMAIN list : list[x].id = c => list[x].color = color
  BY <1>3, <1>4, <1>5 DEF ClientOf, ClientOK, ColorsTrue
<1>7. Sequence(list) /\ ListOK(list)
  BY DEF Plays, ListIsOK
<1>8. players'[Host] = players[Host]
  BY <1>1, <1>2, <1>6, <1>7, PlayerRecolored
<1> HIDE DEF X
<1>9. UpStep(X)
  BY <1>1 DEF UpStep
<1>10. DownStep(X)
  BY <1>3 DEF DownStep, Left
<1>11. OutStep
  BY <1>1, <1>3 DEF OutStep
<1>12. ListStep(X)
  BY <1>8, ListUnchanged
<1>13. Host \in X /\ Host \in members' /\ status'[Host] # "out"
  BY <1>1, <1>2 DEF X
<1> QED BY <1>1, <1>9, <1>10, <1>11, <1>12, <1>13, StepKeeps DEF X

LEMMA HasLeftKeeps ==
  ASSUME Plays, TypeOK', HandlePlayerHasLeft(Host)
  PROVE  Plays'
<1> USE HostAssumption
<1>1. /\ Handling(Host, "PlayerHasLeft") /\ UNCHANGED <<members, up, status>>
      /\ players' = [players EXCEPT ![Host] = RemovePlayer(players[Host], Sender(Host))]
  BY DEF HandlePlayerHasLeft, Handling, SetPlayers
<1>2. TypeOK /\ Host \in members /\ status[Host] # "out" /\ DOMAIN players = Client
  BY DEF Plays, HostPlays, TypeOK
<1>3. /\ Popped(down'[Host], down[Host]) /\ down[Host][1].body.type = "PlayerHasLeft"
      /\ \A d \in Client \ {Host} : down'[d] = down[d]
      /\ 1 \in DOMAIN down[Host] /\ Head(down[Host]) = down[Host][1]
  BY <1>1, <1>2, HandlingPops
<1>4. PICK c \in Client \ {Host} : c = Sender(Host) /\ Left(c, down[Host][1])
  <2>1. DownOK(down[Host][1])
    BY <1>3 DEF Plays, HostPlays, PacketsOK, DownAll
  <2> QED BY <1>3, <2>1 DEF DownOK, Left, Sender
<1> DEFINE X == {Host, c}
           list == players[Host]
           list2 == RemovePlayer(list, c)
<1> HIDE DEF X
<1>5. Sequence(list) /\ ListOK(list)
  BY DEF Plays, ListIsOK
<1>6. Sequence(list2) /\ ListOK(list2) /\ ~Listed(c, list2) /\ \A d \in Client : ListKept(d, list2, list)
  <2> HIDE DEF list
  <2> QED BY <1>4, <1>5, PlayerRemoved
<1>7. players'[Host] = list2
  BY <1>1, <1>2, <1>4
<1>8. ClientOf(c)'
  <2> DEFINE dh == down[Host]
             dh2 == down'[Host]
             uh == up[Host]
             dc == down[c]
             uc == up[c]
             m == c \in members
  <2>1. Sequence(dh) /\ Sequence(uh) /\ ClientOK(c, dh, uh, dc, uc, list, m)
    BY <1>4 DEF Plays, HostPlays, ClientsOK, ClientOf, TypeOK
  <2>2. Popped(dh2, dh) /\ Left(c, dh[1]) /\ ~Listed(c, list2)
    BY <1>3, <1>4, <1>6
  <2> HIDE DEF dh, dh2, uh, dc, uc, m, list, list2
  <2>3. ClientOK(c, dh2, uh, dc, uc, list2, m)
    BY <2>1, <2>2, Dismissed
  <2>4. down'[c] = dc /\ up'[Host] = uh /\ up'[c] = uc
    BY <1>1, <1>3, <1>4 DEF dc, uh, uc
  <2> QED BY <1>1, <1>7, <2>3, <2>4 DEF ClientOf, dh2, m
<1> HIDE DEF list, list2
<1>9. UpStep(X)
  BY <1>1 DEF UpStep
<1>10. DownStep(X)
  BY <1>3, <1>4 DEF DownStep, Left, X
<1>11. OutStep
  BY <1>1, <1>3 DEF OutStep
<1>12. ListStep(X)
  BY <1>6, <1>7 DEF ListStep, ListIsOK, list
<1>13. Host \in X /\ Host \in members' /\ status'[Host] # "out" /\ (X \cap Client) \ {Host} = {c}
  BY <1>1, <1>2, <1>4 DEF X
<1> QED BY <1>1, <1>8, <1>9, <1>10, <1>11, <1>12, <1>13, StepKeeps

LEMMA WantsToJoinKeeps ==
  ASSUME Plays, TypeOK', HandlePlayerWantsToJoin
  PROVE  Plays'
<1> USE HostAssumption
<1>1. /\ Handling(Host, "PlayerWantsToJoin") /\ UNCHANGED <<members, players, status>>
      /\ SendToOne(Host, Sender(Host),
           [type |-> "ConnectionAccepted", players |-> players[Host], hands |-> hands[Host]])
  BY DEF HandlePlayerWantsToJoin, Handling
<1>2. TypeOK /\ Host \in members /\ status[Host] # "out"
  BY DEF Plays, HostPlays, TypeOK
<1>3. /\ Popped(down'[Host], down[Host]) /\ down[Host][1].body.type = "PlayerWantsToJoin"
      /\ \A d \in Client \ {Host} : down'[d] = down[d]
      /\ 1 \in DOMAIN down[Host] /\ Head(down[Host]) = down[Host][1]
  BY <1>1, <1>2, HandlingPops
<1>4. PICK c \in Client \ {Host} : c = Sender(Host) /\ Wants(c, down[Host][1])
  <2>1. DownOK(down[Host][1])
    BY <1>3 DEF Plays, HostPlays, PacketsOK, DownAll
  <2> QED BY <1>3, <2>1 DEF DownOK, Wants, Sender
<1> DEFINE X == {Host, c}
           body == [type |-> "ConnectionAccepted", players |-> players[Host], hands |-> hands[Host]]
           p == [route |-> "HostToSingleClient", to |-> c, body |-> body]
<1>5. up' = Upload(Host, "HostToSingleClient", c, body)
  BY <1>1, <1>4 DEF SendToOne
<1>6. UpOK(Host, p) /\ (\A d \in Client \ X : ~Mark(2, d, p)) /\ Answers(c, p) /\ ~Colors(c, p)
  BY <1>4 DEF UpOK, Mark, Answers, Colors
<1> HIDE DEF X, body
<1>7. Pushed(up'[Host], up[Host], p) /\ \A d \in Client \ {Host} : up'[d] = up[d]
  BY <1>2, <1>5, UploadPushes
<1> HIDE DEF p
<1>8. ClientOf(c)'
  <2> DEFINE dh == down[Host]
             dh2 == down'[Host]
             uh == up[Host]
             uh2 == up'[Host]
             dc == down[c]
             uc == up[c]
             list == players[Host]
             m == c \in members
  <2>1. Sequence(dh) /\ Sequence(uh) /\ ClientOK(c, dh, uh, dc, uc, list, m)
    BY <1>4 DEF Plays, HostPlays, ClientsOK, ClientOf, TypeOK
  <2>2. Popped(dh2, dh) /\ Wants(c, dh[1]) /\ Pushed(uh2, uh, p)
    BY <1>3, <1>4, <1>7
  <2> HIDE DEF dh, dh2, uh, uh2, dc, uc, m, list
  <2>3. ClientOK(c, dh2, uh2, dc, uc, list, m)
    BY <1>6, <2>1, <2>2, Answered
  <2>4. down'[c] = dc /\ up'[c] = uc /\ players'[Host] = list
    BY <1>1, <1>3, <1>4, <1>7 DEF dc, uc, list
  <2> QED BY <1>1, <2>3, <2>4 DEF ClientOf, dh2, uh2, m
<1>9. UpStep(X)
  BY <1>6, <1>7 DEF UpStep, X
<1>10. DownStep(X)
  BY <1>3 DEF DownStep, Left
<1>11. OutStep
  BY <1>1, <1>3, <1>7 DEF OutStep
<1>12. ListStep(X)
  BY <1>1, ListUnchanged
<1>13. Host \in X /\ Host \in members' /\ status'[Host] # "out" /\ (X \cap Client) \ {Host} = {c}
  BY <1>1, <1>2, <1>4 DEF X
<1> QED BY <1>1, <1>8, <1>9, <1>10, <1>11, <1>12, <1>13, StepKeeps

\* Nothing is on its way of who comes, unless he hurries.
LEMMA ConnectKeeps ==
  ASSUME Plays, TypeOK', NEW c \in Client \ {Host}, Connect(c), ~hurried'
  PROVE  Plays'
<1> USE HostAssumption
<1> DEFINE X == {Host, c}
           body == [type |-> "PlayerWantsToJoin"]
           p == [from |-> c, n |-> 0, body |-> body]
<1>1. /\ status[c] = "out" /\ c \notin members /\ up[c] = <<>>
      /\ members' = members \cup {c} /\ down' = Deliver({Host}, c, 0, body)
      /\ status' = [status EXCEPT ![c] = "connecting"]
      /\ UNCHANGED <<up, players>> /\ ~AnswerPending(c)
  BY DEF Connect, OnPlayerConnected
<1>2. /\ TypeOK /\ Host \in members /\ status[Host] # "out" /\ DOMAIN status = Client /\ OutOf(c) /\ ~HungUp(Host)
  BY HostIsUp DEF Plays, HostPlays, TypeOK, OutOK
<1>3. DownOK(p) /\ Wants(c, p) /\ p.body.type # "HostDisconnected" /\ \A d \in Client \ X : ~Mark(1, d, p)
  BY DEF DownOK, Wants, Mark, Joined, Colors
<1> HIDE DEF X, body
<1>4. \A d \in Client : /\ d \in {Host} /\ ~HungUp(d) => Pushed(down'[d], down[d], p)
                        /\ d \notin {Host} \/ HungUp(d) => down'[d] = down[d]
  <2>1. down' = Deliver({Host}, c, 0, body)
    BY <1>1
  <2> DEFINE S == {Host}
  <2> HIDE DEF S
  <2> QED BY <1>2, <2>1, DeliverPushes DEF S
<1> HIDE DEF p
<1>5. Pushed(down'[Host], down[Host], p) /\ \A d \in Client \ {Host} : down'[d] = down[d]
  BY <1>2, <1>4
<1>6. down[c] = <<>>
  BY <1>1, <1>2 DEF OutOf
<1>7. ~AnyToken(c, down[Host], up[Host], down[c], up[c])
  <2>1. \A i \in DOMAIN down[Host] : ~Wants(c, down[Host][i])
    BY <1>1 DEF AnswerPending, Wants
  <2>2. \A i \in DOMAIN up[Host] : ~Answers(c, up[Host][i])
    BY <1>1 DEF AnswerPending, Answers
  <2>3. DOMAIN down[c] = {} /\ DOMAIN up[c] = {}
    BY <1>1, <1>6, SequenceEmpty
  <2> QED BY <2>1, <2>2, <2>3 DEF AnyToken, Token
<1>8. ClientOf(c)'
  <2> DEFINE dh == down[Host]
             dh2 == down'[Host]
             uh == up[Host]
             dc == down[c]
             uc == up[c]
             list == players[Host]
             m == c \in members
             m2 == c \in members'
  <2>1. Sequence(dh) /\ ClientOK(c, dh, uh, dc, uc, list, m)
    BY DEF Plays, HostPlays, ClientsOK, ClientOf, TypeOK
  <2>2. Pushed(dh2, dh, p) /\ ~AnyToken(c, dh, uh, dc, uc) /\ ~m
    BY <1>1, <1>5, <1>7
  <2> HIDE DEF dh, dh2, uh, dc, uc, m, m2, list
  <2>3. ClientOK(c, dh2, uh, dc, uc, list, m2)
    BY <1>3, <2>1, <2>2, Requested
  <2>4. down'[c] = dc /\ up'[c] = uc /\ up'[Host] = uh /\ players'[Host] = list
    BY <1>1, <1>5 DEF dc, uc, uh, list
  <2> QED BY <2>3, <2>4 DEF ClientOf, dh2, m2
<1>9. UpStep(X)
  BY <1>1 DEF UpStep
<1>10. DownStep(X)
  <2>1. ~Popped(down'[Host], down[Host])
    BY <1>5 DEF Popped, Pushed
  <2> QED BY <1>3, <1>5, <2>1 DEF DownStep, X
<1>11. OutStep
  BY <1>1, <1>2, <1>5 DEF OutStep
<1>12. ListStep(X)
  BY <1>1, ListUnchanged
<1>13. /\ Host \in X /\ Host \in members' /\ status'[Host] # "out" /\ (X \cap Client) \ {Host} = {c}
       /\ \A d \in Client \ X : d \in members' \/ d \notin members
  BY <1>1, <1>2 DEF X
<1> QED BY <1>8, <1>9, <1>10, <1>11, <1>12, <1>13, StepKeeps

LEMMA LeaveKeeps ==
  ASSUME Plays, TypeOK', NEW c \in Client \ {Host}, Leave(c)
  PROVE  Plays'
<1> USE HostAssumption
<1> DEFINE X == {Host, c}
           p == [route |-> "Disconnect", to |-> c, body |-> [type |-> "Disconnect"]]
<1>1. /\ Hangup(c) /\ UNCHANGED members
      /\ players' = [players EXCEPT ![c] = RemoveAllPlayers(players[c])]
      /\ status' = [status EXCEPT ![c] = "out"]
  BY DEF Leave, Hangup, SetPlayers
<1>2. /\ TypeOK /\ Host \in members /\ status[Host] # "out"
      /\ DOMAIN status = Client /\ DOMAIN players = Client
      /\ \A d \in Client : Sequence(up[d]) /\ Sequence(down[d])
      /\ \A d \in Client : Sequence(up'[d]) /\ Sequence(down'[d])
  BY DEF Plays, HostPlays, TypeOK
<1>3. UpOK(c, p) /\ ~Greets(p)
  BY DEF UpOK, Greets
<1>4. down'[c] = <<>> /\ \A d \in Client \ {c} : up'[d] = up[d] /\ down'[d] = down[d]
  BY <1>1, <1>2, HangupCuts
<1>5. PICK k \in 0 .. Len(up[c]) :
        /\ DOMAIN up'[c] = 1 .. k + 1 /\ Len(up'[c]) = k + 1
        /\ \A i \in 1 .. k : up'[c][i] = up[c][i]
        /\ up'[c][k + 1] = p
  BY <1>1, <1>2, HangupCuts
<1>6. k \in Nat /\ DOMAIN up[c] = 1 .. Len(up[c]) /\ Len(up[c]) \in Nat /\ k <= Len(up[c])
  BY <1>2, SequenceDomain
<1>7. \A i \in DOMAIN up'[c] : (i \in DOMAIN up[c] /\ up'[c][i] = up[c][i]) \/ up'[c][i] = p
  BY <1>5, <1>6
<1>8. HungUp(c)'
  <2>1. up'[c] # <<>>
    BY <1>2, <1>5, <1>6, SequenceDomain
  <2>2. up'[c][Len(up'[c])].route = "Disconnect"
    BY <1>5
  <2> QED BY <2>1, <2>2 DEF HungUp
<1> HIDE DEF X, p
<1>9. UpAll(c, up'[c])
  <2>1. UpAll(c, up[c])
    BY DEF Plays, HostPlays, PacketsOK
  <2> QED BY <1>3, <1>7, <2>1 DEF UpAll
<1>10. players'[Host] = players[Host] /\ status'[Host] = status[Host]
  BY <1>1, <1>2
<1>11. ListStep(X)
  BY <1>10, ListUnchanged
<1>12. ClientOf(c)'
  <2>1. ClientOf(c)
    BY DEF Plays, HostPlays, ClientsOK
  <2>2. HostFewer(c, down'[Host], down[Host]) /\ Fewer(2, c, up'[Host], up[Host])
    BY <1>2, <1>4, FewerSame
  <2>3. Fewer(3, c, down'[c], down[c])
    <3>1. DOMAIN down'[c] = {} /\ 0 \in Nat
      BY <1>4, SequenceEmpty
    <3> QED BY <3>1 DEF Fewer
  <2>4. Fewer(4, c, up'[c], up[c])
    <3>1. \A i \in DOMAIN up'[c] : Mark(4, c, up'[c][i]) => i + 0 \in DOMAIN up[c] /\ up'[c][i] = up[c][i + 0]
      <4>1. ~Mark(4, c, p)
        BY <1>3 DEF Mark
      <4>2. \A i \in DOMAIN up'[c] : i \in Nat /\ i + 0 = i
        BY <1>5, <1>6
      <4> QED BY <1>7, <4>1, <4>2
    <3> QED BY <3>1 DEF Fewer
  <2>5. ListKept(c, players'[Host], players[Host])
    BY <1>10 DEF ListKept
  <2> QED BY <1>1, <1>2, <2>1, <2>2, <2>3, <2>4, <2>5, Unmoved
<1>13. UpStep(X)
  BY <1>4, <1>9 DEF UpStep, X
<1>14. DownStep(X)
  BY <1>4, NotPopped DEF DownStep, X
<1>15. OutStep
  BY <1>1, <1>2, <1>4, <1>8 DEF OutStep
<1>16. Host \in X /\ Host \in members' /\ status'[Host] # "out" /\ (X \cap Client) \ {Host} = {c}
  BY <1>1, <1>2, <1>10 DEF X
<1> QED BY <1>1, <1>11, <1>12, <1>13, <1>14, <1>15, <1>16, StepKeeps

LEMMA ConnectionAcceptedKeeps ==
  ASSUME Plays, TypeOK', NEW c \in Client, HandleConnectionAccepted(c)
  PROVE  Plays'
<1> USE HostAssumption
<1>1. /\ Handling(c, "ConnectionAccepted") /\ UNCHANGED members
      /\ \E list : players' = [players EXCEPT ![c] = list]
      /\ status' = [status EXCEPT ![c] = "welcomed"]
      /\ \E guid : up' = Greeting(c, guid)
  BY DEF HandleConnectionAccepted, Handling, SetPlayers
<1>2. /\ TypeOK /\ Host \in members /\ status[Host] # "out"
      /\ DOMAIN status = Client /\ DOMAIN players = Client
  BY DEF Plays, HostPlays, TypeOK
<1>3. /\ Popped(down'[c], down[c]) /\ down[c][1].body.type = "ConnectionAccepted" /\ down[c] # <<>>
      /\ \A d \in Client \ {c} : down'[d] = down[d]
      /\ 1 \in DOMAIN down[c]
  BY <1>1, <1>2, HandlingPops
<1>4. c # Host
  BY <1>3 DEF Plays, HostPlays, PacketsOK, DownAll, DownOK
<1>5. PICK guid : up' = Greeting(c, guid)
  BY <1>1
<1> DEFINE X == {Host, c}
           body == [type |-> "PlayerHasJoined", guid |-> guid]
           p == [route |-> "ClientToAll", to |-> c, body |-> body]
<1>6. UpOK(c, p)
  BY DEF UpOK
<1>7. up' = Upload(c, "ClientToAll", c, body)
  BY <1>5 DEF Greeting
<1> HIDE DEF X, body
<1>8. Pushed(up'[c], up[c], p) /\ \A d \in Client \ {c} : up'[d] = up[d]
  BY <1>2, <1>7, UploadPushes
<1> HIDE DEF p
<1>9. players'[Host] = players[Host] /\ status'[Host] = status[Host] /\ status'[c] # "out"
      /\ \A d \in Client \ {c} : status'[d] = status[d]
  BY <1>1, <1>2, <1>4
<1>10. ClientOf(c)'
  <2> DEFINE dh == down[Host]
             uh == up[Host]
             dc == down[c]
             dc2 == down'[c]
             uc == up[c]
             uc2 == up'[c]
             list == players[Host]
             m == c \in members
  <2>1. Sequence(dh) /\ Sequence(dc) /\ Sequence(uc) /\ ClientOK(c, dh, uh, dc, uc, list, m)
    BY <1>4 DEF Plays, HostPlays, ClientsOK, ClientOf, TypeOK
  <2>2. Popped(dc2, dc) /\ Accepts(dc[1]) /\ Pushed(uc2, uc, p)
    BY <1>3, <1>8 DEF Accepts
  <2> HIDE DEF dh, uh, dc, dc2, uc, uc2, m, list
  <2>3. ClientOK(c, dh, uh, dc2, uc2, list, m)
    BY <2>1, <2>2, Welcomed
  <2>4. down'[Host] = dh /\ up'[Host] = uh /\ players'[Host] = list
    BY <1>3, <1>4, <1>8, <1>9 DEF dh, uh, list
  <2> QED BY <1>1, <2>3, <2>4 DEF ClientOf, dc2, uc2, m
<1>11. UpStep(X)
  BY <1>4, <1>6, <1>8 DEF UpStep, X
<1>12. DownStep(X)
  BY <1>3, <1>4, NotPopped DEF DownStep
<1>13. OutStep
  BY <1>1, <1>3, <1>8, <1>9 DEF OutStep
<1>14. ListStep(X)
  BY <1>9, ListUnchanged
<1>15. Host \in X /\ Host \in members' /\ status'[Host] # "out" /\ (X \cap Client) \ {Host} = {c}
  BY <1>1, <1>2, <1>4, <1>9 DEF X
<1> QED BY <1>1, <1>10, <1>11, <1>12, <1>13, <1>14, <1>15, StepKeeps

\* The host does not list who greets.
LEMMA Newcomer ==
  ASSUME NEW c, NEW dh, NEW uh, NEW dc, NEW uc, NEW list, NEW m,
         ClientOK(c, dh, uh, dc, uc, list, m), 1 \in DOMAIN dh, Joined(c, dh[1]), DOMAIN dh \subseteq Nat \ {0}
  PROVE  ~Listed(c, list)
<1>1. Absent(c, dh, list, 1)
  BY DEF ClientOK, Unlisted
<1>2. \A k \in DOMAIN dh : ~ (k < 1)
  OBVIOUS
<1> QED BY <1>1, <1>2 DEF Absent

\* The host handles something else than the news that somebody has left.
LEMMA HostHandles ==
  ASSUME Popped(down'[Host], down[Host]), \A d \in Client \ {Host} : down'[d] = down[d],
         down[Host][1].body.type # "PlayerHasLeft", NEW X
  PROVE  DownStep(X)
<1>1. \A d : ~Left(d, down[Host][1])
  BY DEF Left
<1>2. \A d \in Client : down'[d] = down[d] \/ Popped(down'[d], down[d])
  OBVIOUS
<1> QED BY <1>1, <1>2 DEF DownStep

LEMMA OthersOut ==
  ASSUME UNCHANGED members,
         \A d \in Client \ {Host} : status'[d] = status[d] /\ down'[d] = down[d] /\ up'[d] = up[d]
  PROVE  OutStep
BY DEF OutStep

LEMMA HasJoinedKeeps ==
  ASSUME Plays, TypeOK', HandlePlayerHasJoined(Host)
  PROVE  Plays'
<1> USE HostAssumption
<1> DEFINE list == players[Host]
           color == IF Sender(Host) = Host THEN Head(list).color ELSE FirstAvailableColor(list)
<1>1. /\ Handling(Host, "PlayerHasJoined") /\ UNCHANGED members
      /\ Sender(Host) # Host => ColorIsLeft(list)
      /\ players' = [players EXCEPT ![Host] =
           AddPlayer(Host, list, [id |-> Sender(Host), guid |-> Body(Host).guid, color |-> color])]
      /\ up' = IF Sender(Host) # Host
               THEN Upload(Host, "ClientToAll", Host,
                           [type |-> "PlayerColorChanged", player |-> Sender(Host), color |-> color])
               ELSE up
      /\ status' = [status EXCEPT ![Host] = IF Sender(Host) = Host THEN "in" ELSE @]
  BY DEF HandlePlayerHasJoined, Handling, SetPlayers
<1>2. /\ TypeOK /\ Host \in members /\ status[Host] # "out"
      /\ DOMAIN players = Client /\ DOMAIN status = Client
  BY DEF Plays, HostPlays, TypeOK
<1>3. /\ Popped(down'[Host], down[Host]) /\ down[Host][1].body.type = "PlayerHasJoined"
      /\ \A d \in Client \ {Host} : down'[d] = down[d]
      /\ 1 \in DOMAIN down[Host] /\ Head(down[Host]) = down[Host][1]
  BY <1>1, <1>2, HandlingPops
<1>4. PICK c \in Client : c = Sender(Host) /\ Joined(c, down[Host][1])
  <2>1. DownOK(down[Host][1])
    BY <1>3 DEF Plays, HostPlays, PacketsOK, DownAll
  <2> QED BY <1>3, <2>1 DEF DownOK, Joined, Sender
<1>5. Sequence(list) /\ ListOK(list)
  BY DEF Plays, ListIsOK
<1>6. status'[Host] # "out" /\ \A d \in Client \ {Host} : status'[d] = status[d]
  BY <1>1, <1>2
<1>7. CASE c = Host
  <2> DEFINE X == {Host}
             q == [id |-> Host, guid |-> Body(Host).guid, color |-> Head(list).color]
             list2 == AddPlayer(Host, list, q)
  <2>1. players'[Host] = list2 /\ up' = up
    BY <1>1, <1>2, <1>4, <1>7
  <2>2. q.id = Host /\ q.color = Head(list).color
    OBVIOUS
  <2> HIDE DEF X, q, list
  <2>3. Sequence(list2) /\ ListOK(list2)
    BY <1>5, <2>2, HostEnlisted
  <2>4. \A d \in Client \ {Host} : ListKept(d, list2, list)
    BY <1>5, <2>2, HostEnlisted
  <2> HIDE DEF list2
  <2>5. UpStep(X)
    BY <2>1 DEF UpStep
  <2>6. DownStep(X)
    BY <1>3, HostHandles
  <2>7. OutStep
    BY <1>1, <1>3, <1>6, <2>1, OthersOut
  <2>8. ListStep(X)
    BY <2>1, <2>3, <2>4 DEF ListStep, ListIsOK, X, list
  <2>9. Host \in X /\ Host \in members'
    BY <1>1, <1>2 DEF X
  <2> QED BY <1>1, <1>6, <2>5, <2>6, <2>7, <2>8, <2>9, StepKeeps DEF X
<1>8. CASE c # Host
  <2> DEFINE X == {Host, c}
             guid == Body(Host).guid
             free == FirstAvailableColor(list)
             list2 == AddPlayer(Host, list, [id |-> c, guid |-> guid, color |-> free])
             body == [type |-> "PlayerColorChanged", player |-> c, color |-> free]
             p == [route |-> "ClientToAll", to |-> Host, body |-> body]
  <2>1. players'[Host] = list2 /\ up' = Upload(Host, "ClientToAll", Host, body)
    BY <1>1, <1>2, <1>4, <1>8
  <2>2. /\ UpOK(Host, p) /\ (\A d \in Client \ X : ~Mark(2, d, p)) /\ ~Answers(c, p)
        /\ p.body.color = free
    BY <1>8 DEF UpOK, Mark, Answers, Colors
  <2>3. /\ ClientOK(c, down[Host], up[Host], down[c], up[c], list, c \in members)
        /\ Sequence(down[Host]) /\ Sequence(up[Host])
    BY <1>8 DEF Plays, HostPlays, ClientsOK, ClientOf, TypeOK
  <2>4. c \in Client \ {Host} /\ ~Listed(c, list)
    <3> HIDE DEF list
    <3>1. DOMAIN down[Host] \subseteq Nat \ {0}
      BY <1>3 DEF Popped
    <3>2. ~Listed(c, list)
      BY <1>3, <1>4, <2>3, <3>1, Newcomer
    <3> QED BY <1>8, <3>2
  <2>0. ColorIsLeft(list)
    BY <1>1, <1>4, <1>8
  <2> HIDE DEF X, guid, list, body
  <2>5. \A x \in DOMAIN list : list[x].color # free
    BY <2>0, ColorIsFree
  <2> HIDE DEF free
  <2>6. Sequence(list2) /\ ListOK(list2)
    BY <1>5, <2>4, <2>5, PlayerEnlisted
  <2>7. \A x \in DOMAIN list2 : list2[x].id = c => list2[x].color = free
    BY <1>5, <2>4, <2>5, PlayerEnlisted
  <2>8. \A d \in Client \ {c} : ListKept(d, list2, list)
    BY <1>5, <2>4, <2>5, PlayerEnlisted
  <2>9. Pushed(up'[Host], up[Host], p) /\ \A d \in Client \ {Host} : up'[d] = up[d]
    BY <1>2, <2>1, UploadPushes
  <2> HIDE DEF list2, p
  <2>10. ClientOf(c)'
    <3> DEFINE dh == down[Host]
               dh2 == down'[Host]
               uh == up[Host]
               uh2 == up'[Host]
               dc == down[c]
               uc == up[c]
               m == c \in members
    <3>1. Sequence(dh) /\ Sequence(uh) /\ ClientOK(c, dh, uh, dc, uc, list, m)
      BY <2>3
    <3>2. Popped(dh2, dh) /\ Joined(c, dh[1]) /\ Pushed(uh2, uh, p)
      BY <1>3, <1>4, <2>9
    <3>3. \A x \in DOMAIN list2 : list2[x].id = c => list2[x].color = p.body.color
      BY <2>2, <2>7
    <3> HIDE DEF dh, dh2, uh, uh2, dc, uc, m
    <3>4. ClientOK(c, dh2, uh2, dc, uc, list2, m)
      BY <2>2, <3>1, <3>2, <3>3, Enlisted
    <3>5. down'[c] = dc /\ up'[c] = uc
      BY <1>3, <2>4, <2>9 DEF dc, uc
    <3> QED BY <1>1, <2>1, <3>4, <3>5 DEF ClientOf, dh2, uh2, m
  <2>11. UpStep(X)
    BY <2>2, <2>9 DEF UpStep, X
  <2>12. DownStep(X)
    BY <1>3, HostHandles
  <2>13. OutStep
    BY <1>1, <1>3, <1>6, <2>9, OthersOut
  <2>14. ListStep(X)
    BY <2>1, <2>6, <2>8 DEF ListStep, ListIsOK, X, list
  <2>15. Host \in X /\ Host \in members' /\ (X \cap Client) \ {Host} = {c}
    BY <1>1, <1>2, <2>4 DEF X
  <2> QED BY <1>1, <1>6, <2>10, <2>11, <2>12, <2>13, <2>14, <2>15, StepKeeps
<1> QED BY <1>7, <1>8

-----------------------------------------------------------------------------
(* The server, while the host plays.                                       *)

\* What the server passes on from c, and who hears nothing.
LEMMA Relays ==
  ASSUME Plays, NEW c \in Client, NEW route, Receive(c, route), UNCHANGED <<status, players>>
  PROVE  /\ Popped(up'[c], up[c]) /\ \A d \in Client \ {c} : up'[d] = up[d]
         /\ Head(up[c]) = up[c][1] /\ up[c][1].route = route /\ UpOK(c, up[c][1])
         /\ \A X : UpStep(X) /\ ListStep(X)
         /\ status'[Host] # "out"
<1>1. TypeOK /\ status[Host] # "out"
  BY DEF Plays
<1>2. /\ Popped(up'[c], up[c]) /\ 1 \in DOMAIN up[c]
      /\ Head(up[c]) = up[c][1] /\ up[c][1].route = route
      /\ \A d \in Client \ {c} : up'[d] = up[d]
  BY <1>1, ReceivePops
<1>3. UpOK(c, up[c][1])
  BY <1>2 DEF Plays, HostPlays, PacketsOK, UpAll
<1>4. \A X : UpStep(X)
  BY <1>2 DEF UpStep
<1>5. \A X : ListStep(X)
  BY ListUnchanged
<1> QED BY <1>1, <1>2, <1>3, <1>4, <1>5

LEMMA ToHostKeeps ==
  ASSUME Plays, TypeOK', NEW c \in Client, OnReliableMessageFromClientToHost(c), UNCHANGED <<status, players>>
  PROVE  Plays'
<1> USE HostAssumption
<1> DEFINE X == {Host}
           body == up[c][1].body
           p == [from |-> c, n |-> 0, body |-> body]
<1>1. Receive(c, "ClientToHost") /\ UNCHANGED members
  BY DEF OnReliableMessageFromClientToHost
<1>2. /\ Popped(up'[c], up[c]) /\ \A d \in Client \ {c} : up'[d] = up[d]
      /\ Head(up[c]) = up[c][1] /\ up[c][1].route = "ClientToHost" /\ UpOK(c, up[c][1])
      /\ UpStep(X) /\ ListStep(X) /\ status'[Host] # "out"
  BY <1>1, Relays
<1>3. down' = down \/ down' = Deliver(X, c, 0, body)
  BY <1>2 DEF OnReliableMessageFromClientToHost
<1>4. DownOK(p) /\ p.body.type # "HostDisconnected" /\ \A d \in Client \ X : ~Mark(1, d, p)
  BY <1>2 DEF UpOK, DownOK, Mark, Wants, Joined, Colors
<1>5. TypeOK /\ Host \in members
  BY DEF Plays, HostPlays
<1> HIDE DEF X, body
<1>6. ASSUME NEW d \in Client
      PROVE  down'[d] = down[d] \/ (Pushed(down'[d], down[d], p) /\ d \in X)
  <2>1. CASE down' = down
    BY <2>1
  <2>2. CASE down' = Deliver(X, c, 0, body)
    BY <1>5, <2>2, DeliverPushes
  <2> QED BY <1>3, <2>1, <2>2
<1> HIDE DEF p
<1>7. DownStep(X)
  <2>1. ~Popped(down'[Host], down[Host])
    BY <1>6, NotPopped DEF Popped, Pushed
  <2> QED BY <1>4, <1>6, <2>1 DEF DownStep
<1>8. \A d \in Client \ {Host} : down'[d] = down[d]
  BY <1>6 DEF X
<1>9. OutStep
  BY <1>1, <1>2, <1>8 DEF OutStep
<1> QED BY <1>1, <1>2, <1>5, <1>7, <1>9, StepKeeps DEF X

\* What is relayed to everybody.
LEMMA ToAllDelivers ==
  ASSUME Plays, NEW c \in Client, OnReliableMessageFromClientToAll(c), UNCHANGED <<status, players>>
  PROVE  /\ Popped(up'[c], up[c]) /\ (\A d \in Client \ {c} : up'[d] = up[d]) /\ UpOK(c, up[c][1])
         /\ up[c][1].route = "ClientToAll" /\ members' = members
         /\ \A X : UpStep(X) /\ ListStep(X)
         /\ OutStep /\ status'[Host] # "out" /\ Host \in members'
         /\ \/ down' = down /\ c \notin members
            \/ /\ c \in members
               /\ \E p : /\ p.from = c /\ p.body = up[c][1].body
                         /\ Pushed(down'[Host], down[Host], p)
                         /\ \A d \in Client : down'[d] = down[d] \/ Pushed(down'[d], down[d], p)
<1> USE HostAssumption
<1> DEFINE n == relayed + 1
           body == up[c][1].body
           p == [from |-> c, n |-> n, body |-> body]
<1>1. Receive(c, "ClientToAll") /\ UNCHANGED members
  BY DEF OnReliableMessageFromClientToAll
<1>2. /\ Popped(up'[c], up[c]) /\ (\A d \in Client \ {c} : up'[d] = up[d])
      /\ Head(up[c]) = up[c][1] /\ up[c][1].route = "ClientToAll" /\ UpOK(c, up[c][1])
      /\ status'[Host] # "out"
  BY <1>1, Relays
<1>3. \A X : UpStep(X) /\ ListStep(X)
  BY <1>1, Relays
<1>4. \/ down' = down /\ c \notin members
      \/ down' = Deliver(members, c, n, body) /\ c \in members
  BY <1>2 DEF OnReliableMessageFromClientToAll
<1>5. TypeOK /\ Host \in members /\ ~HungUp(Host) /\ OutOK
  BY HostIsUp DEF Plays, HostPlays
<1>6. p.from = c /\ p.body = body
  OBVIOUS
<1> HIDE DEF n, body
<1>7. ASSUME down' = Deliver(members, c, n, body), NEW d \in Client
      PROVE  /\ d \in members /\ ~HungUp(d) => Pushed(down'[d], down[d], p)
             /\ d \notin members \/ HungUp(d) => down'[d] = down[d]
  BY <1>5, <1>7, DeliverPushes
<1> HIDE DEF p
<1>8. ASSUME NEW d \in Client \ {Host}, status[d] = "out" PROVE down'[d] = down[d]
  <2>1. d \notin members \/ HungUp(d)
    BY <1>5, <1>8 DEF OutOK, OutOf
  <2> QED BY <1>4, <1>7, <2>1
<1>9. OutStep
  BY <1>1, <1>2, <1>8 DEF OutStep
<1>10. ASSUME c \in members
       PROVE  /\ Pushed(down'[Host], down[Host], p)
              /\ \A d \in Client : down'[d] = down[d] \/ Pushed(down'[d], down[d], p)
  BY <1>4, <1>5, <1>7, <1>10
<1> QED BY <1>1, <1>2, <1>3, <1>4, <1>5, <1>6, <1>9, <1>10 DEF body

\* What it is about of a program other than the host.
LEMMA ToAllUnmoved ==
  ASSUME TypeOK, TypeOK', NEW c \in Client, NEW d \in Client, NEW p,
         down'[d] = down[d] \/ Pushed(down'[d], down[d], p), p.body.type # "ConnectionAccepted"
  PROVE  Fewer(3, d, down'[d], down[d])
<1>1. ~Mark(3, d, p)
  BY DEF Mark, Accepts
<1>2. Sequence(down[d])
  BY DEF TypeOK
<1> QED BY <1>1, <1>2, FewerSame, FewerPushed

\* The news of a colour.
LEMMA ColorRelayedKeeps ==
  ASSUME Plays, TypeOK', UNCHANGED members, NEW x \in Client \ {Host}, NEW p,
         Popped(up'[Host], up[Host]), \A d \in Client \ {Host} : up'[d] = up[d],
         Colors(x, up[Host][1]), p.body = up[Host][1].body, Pushed(down'[Host], down[Host], p),
         down'[x] = down[x] \/ Pushed(down'[x], down[x], p), UNCHANGED players
  PROVE  ClientOf(x)'
<1> USE HostAssumption
<1> DEFINE dh == down[Host]
           dh2 == down'[Host]
           uh == up[Host]
           uh2 == up'[Host]
           dc == down[x]
           dc2 == down'[x]
           uc == up[x]
           list == players[Host]
           m == x \in members
<1>1. /\ Sequence(dh) /\ Sequence(uh) /\ Sequence(dc) /\ Sequence(uc)
      /\ ClientOK(x, dh, uh, dc, uc, list, m)
  BY DEF Plays, HostPlays, ClientsOK, ClientOf, TypeOK
<1>2. Sequence(dh2) /\ Sequence(uh2) /\ Sequence(dc2)
  BY DEF TypeOK
<1>3. Popped(uh2, uh) /\ Colors(x, uh[1]) /\ Pushed(dh2, dh, p) /\ p.body = uh[1].body
  OBVIOUS
<1>4. Fewer(3, x, dc2, dc)
  BY ToAllUnmoved DEF Plays, Colors
<1>5. up'[x] = uc /\ players'[Host] = list
  OBVIOUS
<1> HIDE DEF dh, dh2, uh, uh2, dc, dc2, uc, list, m
<1>6. ClientOK(x, dh2, uh2, dc, uc, list, m)
  BY <1>1, <1>3, ColorRelayed
<1>7. HostFewer(x, dh2, dh2) /\ Fewer(2, x, uh2, uh2) /\ Fewer(4, x, uc, uc)
  BY <1>1, <1>2, FewerSame
<1>8. ListKept(x, list, list)
  BY DEF ListKept
<1>9. ClientOK(x, dh2, uh2, dc2, uc, list, m)
  BY <1>1, <1>2, <1>4, <1>6, <1>7, <1>8, ClientKept
<1> QED BY <1>5, <1>9 DEF ClientOf, dh2, uh2, dc2, m

\* A greeting.
LEMMA GreetingRelayedKeeps ==
  ASSUME Plays, TypeOK', UNCHANGED members, NEW c \in Client \ {Host}, NEW p, c \in members,
         Popped(up'[c], up[c]), \A d \in Client \ {c} : up'[d] = up[d],
         Greets(up[c][1]), Joined(c, p), Pushed(down'[Host], down[Host], p),
         down'[c] = down[c] \/ Pushed(down'[c], down[c], p), UNCHANGED players
  PROVE  ClientOf(c)'
<1> USE HostAssumption
<1> DEFINE dh == down[Host]
           dh2 == down'[Host]
           uh == up[Host]
           dc == down[c]
           dc2 == down'[c]
           uc == up[c]
           uc2 == up'[c]
           list == players[Host]
           m == c \in members
<1>1. /\ Sequence(dh) /\ Sequence(uh) /\ Sequence(dc) /\ Sequence(uc)
      /\ ClientOK(c, dh, uh, dc, uc, list, m)
  BY DEF Plays, HostPlays, ClientsOK, ClientOf, TypeOK
<1>2. Popped(uc2, uc) /\ Greets(uc[1]) /\ Pushed(dh2, dh, p) /\ m
  OBVIOUS
<1>3. Fewer(3, c, dc2, dc)
  BY ToAllUnmoved DEF Plays, Joined
<1>4. up'[Host] = uh /\ players'[Host] = list
  OBVIOUS
<1> HIDE DEF dh, dh2, uh, dc, dc2, uc, uc2, list, m
<1>5. ClientOK(c, dh2, uh, dc2, uc2, list, m)
  BY <1>1, <1>2, <1>3, Greeted
<1> QED BY <1>4, <1>5 DEF ClientOf, dh2, dc2, uc2, m

LEMMA ToAllKeeps ==
  ASSUME Plays, TypeOK', NEW c \in Client, OnReliableMessageFromClientToAll(c), UNCHANGED <<status, players>>
  PROVE  Plays'
<1> USE HostAssumption
<1>1. /\ Popped(up'[c], up[c]) /\ (\A d \in Client \ {c} : up'[d] = up[d]) /\ UpOK(c, up[c][1])
      /\ up[c][1].route = "ClientToAll" /\ members' = members
      /\ OutStep /\ status'[Host] # "out" /\ Host \in members'
  BY ToAllDelivers
<1>2. \A X : UpStep(X) /\ ListStep(X)
  BY ToAllDelivers
<1>3. up[c][1].body.type \in {"PlayerHasJoined", "PlayerColorChanged", "ChangeAccepted"}
  BY <1>1 DEF UpOK
<1>4. CASE down' = down
  <2> DEFINE X == {Host}
  <2> HIDE DEF X
  <2>1. DownStep(X)
    BY <1>4, NotPopped DEF DownStep
  <2>2. Host \in X /\ (X \cap Client) \ {Host} = {} /\ UpStep(X) /\ ListStep(X)
    BY <1>2 DEF X
  <2> QED BY <1>1, <2>1, <2>2, StepKeeps
<1>5. ASSUME NEW p, p.from = c, p.body = up[c][1].body, c \in members,
             Pushed(down'[Host], down[Host], p),
             \A d \in Client : down'[d] = down[d] \/ Pushed(down'[d], down[d], p)
      PROVE  Plays'
  <2>1. ~Popped(down'[Host], down[Host])
    BY <1>5 DEF Pushed, Popped
  <2>2. /\ p.body.type # "HostDisconnected" /\ DownOK(p) /\ \A d : ~Accepts(p) /\ ~Wants(d, p) /\ ~Left(d, p)
    BY <1>1, <1>3, <1>5 DEF DownOK, UpOK, Accepts, Wants, Left
  <2>3. ASSUME NEW X, \A d \in Client \ X : ~Mark(1, d, p) PROVE DownStep(X)
    BY <1>5, <2>1, <2>2, <2>3 DEF DownStep
  <2>4. CASE p.body.type = "PlayerColorChanged"
    <3> DEFINE x == p.body.player
               X == {Host, x}
    <3>1. c = Host /\ x \in Client \ {Host}
      BY <1>1, <1>5, <2>4 DEF UpOK
    <3>2. Colors(x, up[Host][1])
      BY <1>5, <2>4, <3>1 DEF Colors
    <3>3. \A d \in Client \ X : ~Mark(1, d, p)
      BY <2>4, <2>2 DEF Mark, Joined, Colors
    <3> HIDE DEF x, X
    <3>4. ClientOf(x)'
      BY <1>1, <1>5, <3>1, <3>2, ColorRelayedKeeps
    <3>5. Host \in X /\ (X \cap Client) \ {Host} = {x} /\ UpStep(X) /\ ListStep(X) /\ DownStep(X)
      BY <1>2, <2>3, <3>1, <3>3 DEF X
    <3> QED BY <1>1, <3>4, <3>5, StepKeeps
  <2>5. CASE p.body.type = "PlayerHasJoined" /\ c # Host
    <3> DEFINE X == {Host, c}
    <3>1. Greets(up[c][1]) /\ Joined(c, p)
      BY <1>5, <2>5 DEF Greets, Joined
    <3>2. \A d \in Client \ X : ~Mark(1, d, p)
      BY <1>5, <2>5, <2>2 DEF Mark, Joined, Colors
    <3> HIDE DEF X
    <3>3. ClientOf(c)'
      BY <1>1, <1>5, <2>5, <3>1, GreetingRelayedKeeps
    <3>4. Host \in X /\ (X \cap Client) \ {Host} = {c} /\ UpStep(X) /\ ListStep(X) /\ DownStep(X)
      BY <1>2, <2>3, <2>5, <3>2 DEF X
    <3> QED BY <1>1, <3>3, <3>4, StepKeeps
  <2>6. CASE p.body.type # "PlayerColorChanged" /\ (p.body.type # "PlayerHasJoined" \/ c = Host)
    <3> DEFINE X == {Host}
    <3>1. \A d \in Client \ X : ~Mark(1, d, p)
      BY <1>5, <2>6, <2>2 DEF Mark, Joined, Colors
    <3> HIDE DEF X
    <3>2. Host \in X /\ (X \cap Client) \ {Host} = {} /\ UpStep(X) /\ ListStep(X) /\ DownStep(X)
      BY <1>2, <2>3, <3>1 DEF X
    <3> QED BY <1>1, <3>2, StepKeeps
  <2> QED BY <2>4, <2>5, <2>6
<1> QED BY <1>4, <1>5, ToAllDelivers

\* The answer to a request to join.
LEMMA ToSingleKeeps ==
  ASSUME Plays, TypeOK', NEW c \in Client, OnReliableMessageFromHostToSingleClient(c), UNCHANGED <<status, players>>
  PROVE  Plays'
<1> USE HostAssumption
<1>0. PICK x : x = up[c][1].to
  OBVIOUS
<1> DEFINE body == up[c][1].body
           p == [from |-> c, n |-> 0, body |-> body]
           S == members \cap {x}
           X == {Host, x}
<1>1. Receive(c, "HostToSingleClient") /\ UNCHANGED members
  BY DEF OnReliableMessageFromHostToSingleClient
<1>2. /\ Popped(up'[c], up[c]) /\ (\A d \in Client \ {c} : up'[d] = up[d])
      /\ Head(up[c]) = up[c][1] /\ up[c][1].route = "HostToSingleClient" /\ UpOK(c, up[c][1])
      /\ UpStep(X) /\ ListStep(X) /\ status'[Host] # "out"
  BY <1>1, Relays
<1>3. c = Host /\ x # Host /\ body.type = "ConnectionAccepted"
  BY <1>0, <1>2 DEF UpOK
<1>4. down' = Deliver(S, c, 0, body)
  BY <1>0, <1>2 DEF OnReliableMessageFromHostToSingleClient
<1>5. TypeOK /\ Host \in members /\ OutOK
  BY DEF Plays, HostPlays
<1>6. x \in S => x \in members
  OBVIOUS
<1>7. p.body = body
  OBVIOUS
<1> HIDE DEF body, p
<1>8. ASSUME NEW d \in Client
      PROVE  \/ down'[d] = down[d]
             \/ d \in S /\ ~HungUp(d) /\ Pushed(down'[d], down[d], p)
  <2> HIDE DEF S
  <2> QED BY <1>4, <1>5, DeliverPushes DEF p
<1>9. \A d \in Client : d \in S => d = x /\ d \in members
  OBVIOUS
<1> HIDE DEF S
<1>10. Answers(x, up[Host][1])
  BY <1>0, <1>2, <1>3 DEF Answers
<1>11. \A d \in Client \ {x} : down'[d] = down[d]
  BY <1>8, <1>9
<1>12. DownStep(X)
  <2>1. \A d \in Client : down'[d] = down[d] \/ (Pushed(down'[d], down[d], p) /\ d = x)
    BY <1>8, <1>9
  <2>2. ~Popped(down'[Host], down[Host])
    BY <1>3, <1>11, NotPopped
  <2>3. p.body.type # "HostDisconnected"
    BY <1>3, <1>7
  <2> QED BY <1>3, <2>1, <2>2, <2>3 DEF DownStep
<1>13. OutStep
  <2>1. ASSUME NEW d \in Client \ {Host}, status[d] = "out" PROVE down'[d] = down[d]
    <3>1. d \notin members \/ HungUp(d)
      BY <1>5, <2>1 DEF OutOK, OutOf
    <3> QED BY <1>8, <1>9, <3>1
  <2>2. \A d \in Client \ {Host} : up'[d] = up[d]
    BY <1>2, <1>3
  <2> QED BY <1>1, <2>1, <2>2 DEF OutStep
<1>14. Host \in X /\ Host \in members' /\ \A d \in (X \cap Client) \ {Host} : d = x
  BY <1>1, <1>5
<1>15. ASSUME x \in Client PROVE ClientOf(x)'
  <2> DEFINE dh == down[Host]
             dh2 == down'[Host]
             uh == up[Host]
             uh2 == up'[Host]
             dc == down[x]
             dc2 == down'[x]
             uc == up[x]
             uc2 == up'[x]
             list == players[Host]
             m == x \in members
  <2>1. /\ Sequence(dh) /\ Sequence(uh) /\ Sequence(dc) /\ Sequence(uc)
        /\ ClientOK(x, dh, uh, dc, uc, list, m)
    BY <1>3, <1>15 DEF Plays, HostPlays, ClientsOK, ClientOf, TypeOK
  <2>2. Popped(uh2, uh) /\ Answers(x, uh[1])
    BY <1>2, <1>3, <1>10
  <2>3. dh2 = dh /\ uc2 = uc /\ players'[Host] = list /\ Sequence(uh2)
    BY <1>2, <1>3, <1>11, <1>15 DEF TypeOK
  <2>4. dc2 = dc \/ Pushed(dc2, dc, p)
    BY <1>8, <1>15
  <2> HIDE DEF dh, dh2, uh, uh2, dc, dc2, uc, uc2, list, m
  <2>5. ClientOK(x, dh, uh2, dc2, uc, list, m)
    <3>1. CASE Pushed(dc2, dc, p)
      BY <2>1, <2>2, <3>1, Delivered
    <3>2. CASE dc2 = dc
      <4>1. HostFewer(x, dh, dh) /\ Fewer(2, x, uh2, uh) /\ Fewer(3, x, dc, dc) /\ Fewer(4, x, uc, uc)
        BY <2>1, <2>2, FewerSame, FewerPopped
      <4>2. ListKept(x, list, list)
        BY DEF ListKept
      <4>3. ClientOK(x, dh, uh2, dc, uc, list, m)
        BY <2>1, <2>3, <4>1, <4>2, ClientKept
      <4> QED BY <3>2, <4>3
    <3> QED BY <2>4, <3>1, <3>2
  <2> QED BY <1>1, <2>3, <2>5 DEF ClientOf, dh2, uh2, dc2, uc2, m
<1> HIDE DEF X
<1>16. \A d \in (X \cap Client) \ {Host} : ClientOf(d)'
  BY <1>14, <1>15
<1> QED BY <1>1, <1>2, <1>12, <1>13, <1>14, <1>16, StepKeeps

\* The server finds that a player has left.
LEMMA DisconnectedKeeps ==
  ASSUME Plays, TypeOK', NEW c \in Client, OnPlayerDisconnected(c), UNCHANGED <<status, players>>
  PROVE  Plays'
<1> USE HostAssumption
<1> DEFINE body == [type |-> "PlayerHasLeft"]
           n == relayed + 1
           p == [from |-> c, n |-> n, body |-> body]
           S == members \ {c}
           X == {Host, c}
<1>1. Receive(c, "Disconnect")
  BY DEF OnPlayerDisconnected
<1>2. /\ Popped(up'[c], up[c]) /\ (\A d \in Client \ {c} : up'[d] = up[d])
      /\ up[c][1].route = "Disconnect" /\ UpOK(c, up[c][1])
      /\ UpStep(X) /\ ListStep(X) /\ status'[Host] # "out"
  BY <1>1, Relays
<1>3. c # Host
  BY <1>2 DEF UpOK
<1>4. members' = S /\ down' = Deliver(S, c, n, body)
  BY <1>3 DEF OnPlayerDisconnected
<1>5. TypeOK /\ Host \in members /\ OutOK /\ ~HungUp(Host)
  BY HostIsUp DEF Plays, HostPlays
<1>6. p.body.type = "PlayerHasLeft" /\ p.from = c /\ Left(c, p)
  BY DEF Left
<1>7. Host \in S /\ c \notin S /\ (\A d \in Client \ X : d \in S \/ d \notin members)
      /\ \A d : d \in S => d \in members
  BY <1>3, <1>5
<1> HIDE DEF body, n, S
<1>8. ASSUME NEW d \in Client
      PROVE  /\ d \in S /\ ~HungUp(d) => Pushed(down'[d], down[d], p)
             /\ d \notin S \/ HungUp(d) => down'[d] = down[d]
  BY <1>4, <1>5, DeliverPushes
<1> HIDE DEF p
<1>9. Pushed(down'[Host], down[Host], p) /\ down'[c] = down[c]
      /\ \A d \in Client : down'[d] = down[d] \/ Pushed(down'[d], down[d], p)
  BY <1>5, <1>7, <1>8
<1>10. DownStep(X)
  <2>1. ~Popped(down'[Host], down[Host])
    BY <1>9 DEF Pushed, Popped
  <2>2. /\ p.body.type # "HostDisconnected" /\ DownOK(p)
        /\ \A d : ~Accepts(p) /\ ~Mark(1, d, p)
    BY <1>3, <1>6 DEF DownOK, Accepts, Mark, Wants, Joined, Colors
  <2> HIDE DEF X
  <2> QED BY <1>9, <2>1, <2>2 DEF DownStep
<1>11. OutStep
  <2>1. ASSUME NEW d \in Client \ {Host}, status[d] = "out" PROVE down'[d] = down[d]
    <3>1. d \notin members \/ HungUp(d)
      BY <1>5, <2>1 DEF OutOK, OutOf
    <3> QED BY <1>7, <1>8, <3>1
  <2>2. ASSUME NEW d \in members' PROVE d \in members /\ d # c
    BY <1>4, <1>7, <2>2
  <2> QED BY <1>2, <2>1, <2>2 DEF OutStep
<1>12. Host \in X /\ Host \in members' /\ (X \cap Client) \ {Host} = {c}
  BY <1>3, <1>4, <1>7
<1>13. \A d \in Client \ X : d \in members' \/ d \notin members
  BY <1>4, <1>7
<1>14. ClientOf(c)'
  <2> DEFINE dh == down[Host]
             dh2 == down'[Host]
             uh == up[Host]
             dc == down[c]
             uc == up[c]
             uc2 == up'[c]
             list == players[Host]
             m == c \in members
             m2 == c \in members'
  <2>1. /\ Sequence(dh) /\ Sequence(uh) /\ Sequence(dc) /\ Sequence(uc)
        /\ ClientOK(c, dh, uh, dc, uc, list, m)
    BY <1>3 DEF Plays, HostPlays, ClientsOK, ClientOf, TypeOK
  <2>2. Popped(uc2, uc) /\ Pushed(dh2, dh, p)
    BY <1>2, <1>9
  <2>3. up'[Host] = uh /\ down'[c] = dc /\ players'[Host] = list
    BY <1>2, <1>3, <1>9
  <2> HIDE DEF dh, dh2, uh, dc, uc, uc2, list, m, m2
  <2>4. ClientOK(c, dh2, uh, dc, uc2, list, m2)
    BY <1>6, <2>1, <2>2, Parted
  <2> QED BY <2>3, <2>4 DEF ClientOf, dh2, uc2, m2
<1> HIDE DEF X
<1> QED BY <1>2, <1>10, <1>11, <1>12, <1>13, <1>14, StepKeeps

LEMMA RelayingKeeps ==
  ASSUME Plays, TypeOK', NEW c \in Client, Relaying(c)
  PROVE  Plays'
BY ToHostKeeps, ToAllKeeps, ToSingleKeeps, DisconnectedKeeps DEF Relaying, ServerStep

\* While the host plays nobody hears that he has left.
LEMMA NobodyHears ==
  ASSUME Plays, NEW c \in Client
  PROVE  ~HandleHostDisconnected(c)
<1> SUFFICES ASSUME HandleHostDisconnected(c) PROVE FALSE
  OBVIOUS
<1>1. Handling(c, "HostDisconnected")
  BY DEF HandleHostDisconnected
<1>2. 1 \in DOMAIN down[c] /\ down[c][1].body.type = "HostDisconnected"
  BY <1>1, HandlingPops DEF Plays
<1>3. c = Host => DownOK(down[c][1])
  BY <1>2 DEF Plays, HostPlays, PacketsOK, DownAll
<1>4. c # Host => Untold(down[c])
  BY DEF Plays, HostPlays, OutOK, OutOf
<1> QED BY <1>2, <1>3, <1>4 DEF DownOK, Untold

-----------------------------------------------------------------------------
(* After the host has left.                                                *)

Out == TypeOK /\ ListIsOK /\ HostOut /\ status[Host] = "out"

LEMMA HostLeaves ==
  ASSUME Plays, TypeOK', Leave(Host)
  PROVE  Out'
<1> USE HostAssumption
<1> DEFINE list == players[Host]
           list2 == <<list[1]>>
<1>1. /\ Hangup(Host)
      /\ players' = [players EXCEPT ![Host] = <<Head(list)>>]
      /\ status' = [status EXCEPT ![Host] = "out"]
  BY DEF Leave, SetPlayers, RemoveAllPlayers
<1>2. TypeOK /\ DOMAIN players = Client /\ DOMAIN status = Client /\ Sequence(list) /\ ListOK(list)
  BY DEF Plays, TypeOK, ListIsOK
<1>3. down'[Host] = <<>> /\ HungUp(Host)'
  <2>1. PICK k \in 0 .. Len(up[Host]) :
          /\ DOMAIN up'[Host] = 1 .. k + 1 /\ Len(up'[Host]) = k + 1
          /\ up'[Host][k + 1] = [route |-> "Disconnect", to |-> Host, body |-> [type |-> "Disconnect"]]
    BY <1>1, <1>2, HangupCuts
  <2>2. Sequence(up'[Host])
    BY DEF TypeOK
  <2>3. up'[Host] # <<>>
    BY <2>1, <2>2, SequenceDomain
  <2> QED BY <1>1, <1>2, <2>1, <2>3, HangupCuts DEF HungUp
<1>4. players'[Host] = list2 /\ status'[Host] = "out"
  <2>1. Head(list) = list[1]
    BY <1>2, TailPops DEF ListOK
  <2> QED BY <1>1, <1>2, <2>1
<1>5. list[1].id \in {NoOne, Host} /\ 1 \in DOMAIN list
      /\ list[1] = [id |-> list[1].id, guid |-> list[1].guid, color |-> list[1].color]
  BY <1>2, SequenceDomain DEF ListOK
<1>6. DOMAIN list2 = {1} /\ list2[1] = list[1] /\ list2 # <<>>
  OBVIOUS
<1>7. Sequence(list2)
  <2>1. list2 \in Seq({list[1]})
    OBVIOUS
  <2> QED BY <2>1, SequenceOf
<1> HIDE DEF list, list2
<1>8. ListOK(list2)
  BY <1>5, <1>6 DEF ListOK
<1> QED BY <1>3, <1>4, <1>7, <1>8 DEF Out, HostOut, ListIsOK

LEMMA StaysOut ==
  ASSUME Out, TypeOK', down'[Host] = down[Host], players'[Host] = players[Host], status'[Host] = status[Host],
         \/ Host \notin members'
         \/ /\ Host \in members
            /\ up'[Host] = up[Host] \/ (Popped(up'[Host], up[Host]) /\ up[Host][1].route # "Disconnect")
  PROVE  Out'
<1>1. Sequence(up[Host]) /\ Sequence(up'[Host])
  BY HostAssumption DEF Out, TypeOK
<1>2. Host \notin members' \/ HungUp(Host)'
  BY <1>1, HungUpKept DEF Out, HostOut
<1>3. ListIsOK'
  BY DEF Out, ListIsOK
<1> QED BY <1>2, <1>3 DEF Out, HostOut

\* Whatever happens between the others and the server.
LEMMA RelayingStaysOut ==
  ASSUME Out, TypeOK', NEW c \in Client, Relaying(c)
  PROVE  Out'
<1> USE HostAssumption
<1>1. UNCHANGED <<status, players>> /\ ServerStep(c)
  BY DEF Relaying
<1>2. TypeOK
  BY DEF Out
<1>3. ASSUME NEW route, Receive(c, route)
      PROVE  /\ Host \in members /\ HungUp(Host)
             /\ up'[Host] = up[Host] \/ (Popped(up'[Host], up[Host]) /\ c = Host /\ up[Host][1].route = route)
  <2>1. Host \in members /\ HungUp(Host)
    BY <1>3 DEF Receive, Out, HostOut
  <2>2. /\ Popped(up'[c], up[c]) /\ Head(up[c]) = up[c][1] /\ up[c][1].route = route
        /\ \A d \in Client \ {c} : up'[d] = up[d]
    BY <1>2, <1>3, ReceivePops
  <2> QED BY <2>1, <2>2
<1>4. ASSUME NEW S, NEW from, NEW n, NEW body, HungUp(Host), down' = Deliver(S, from, n, body)
      PROVE  down'[Host] = down[Host]
  <2>1. \A d \in Client : d \notin S \/ HungUp(d) => down'[d] = down[d]
    BY <1>2, <1>4, DeliverPushes, ZenonT(40)
  <2> QED BY <1>4, <2>1
<1>5. CASE OnReliableMessageFromClientToHost(c)
  <2>1. Receive(c, "ClientToHost") /\ UNCHANGED members
    BY <1>5 DEF OnReliableMessageFromClientToHost
  <2>2. down' = down \/ \E body : down' = Deliver({Host}, c, 0, body)
    BY <1>5 DEF OnReliableMessageFromClientToHost
  <2>3. down'[Host] = down[Host]
    BY <1>3, <1>4, <2>1, <2>2
  <2>4. /\ Host \in members
        /\ up'[Host] = up[Host] \/ (Popped(up'[Host], up[Host]) /\ up[Host][1].route # "Disconnect")
    BY <1>3, <2>1
  <2> QED BY <1>1, <2>1, <2>3, <2>4, StaysOut
<1>6. CASE OnReliableMessageFromClientToAll(c)
  <2>1. Receive(c, "ClientToAll") /\ UNCHANGED members
    BY <1>6 DEF OnReliableMessageFromClientToAll
  <2>2. down' = down \/ \E n, body : down' = Deliver(members, c, n, body)
    BY <1>6 DEF OnReliableMessageFromClientToAll
  <2>3. down'[Host] = down[Host]
    BY <1>3, <1>4, <2>1, <2>2
  <2>4. /\ Host \in members
        /\ up'[Host] = up[Host] \/ (Popped(up'[Host], up[Host]) /\ up[Host][1].route # "Disconnect")
    BY <1>3, <2>1
  <2> QED BY <1>1, <2>1, <2>3, <2>4, StaysOut
<1>7. CASE OnReliableMessageFromHostToSingleClient(c)
  <2>1. Receive(c, "HostToSingleClient") /\ UNCHANGED members
    BY <1>7 DEF OnReliableMessageFromHostToSingleClient
  <2>2. \E S, body : down' = Deliver(S, c, 0, body)
    BY <1>7 DEF OnReliableMessageFromHostToSingleClient
  <2>3. down'[Host] = down[Host]
    BY <1>3, <1>4, <2>1, <2>2
  <2>4. /\ Host \in members
        /\ up'[Host] = up[Host] \/ (Popped(up'[Host], up[Host]) /\ up[Host][1].route # "Disconnect")
    BY <1>3, <2>1
  <2> QED BY <1>1, <2>1, <2>3, <2>4, StaysOut
<1>8. CASE OnPlayerDisconnected(c)
  <2>1. Receive(c, "Disconnect")
    BY <1>8 DEF OnPlayerDisconnected
  <2>2. \E S, n, body : down' = Deliver(S, c, n, body)
    BY <1>8 DEF OnPlayerDisconnected
  <2>3. down'[Host] = down[Host]
    BY <1>3, <1>4, <2>1, <2>2
  <2>4. c = Host => members' = {}
    BY <1>8 DEF OnPlayerDisconnected
  <2>5. Host \in members /\ (c # Host => up'[Host] = up[Host])
    BY <1>3, <2>1
  <2> QED BY <1>1, <2>3, <2>4, <2>5, StaysOut
<1> QED BY <1>1, <1>5, <1>6, <1>7, <1>8 DEF ServerStep

LEMMA OutKept ==
  ASSUME Out, TypeOK', [Next]_vars
  PROVE  Out'
<1> USE HostAssumption
<1>1. /\ TypeOK /\ status[Host] = "out" /\ down[Host] = <<>>
      /\ DOMAIN players = Client /\ DOMAIN status = Client /\ DOMAIN up = Client
      /\ Host \in members => HungUp(Host)
  BY DEF Out, HostOut, TypeOK
<1>2. ASSUME down'[Host] = down[Host], players'[Host] = players[Host], status'[Host] = status[Host],
             members' = members, up'[Host] = up[Host]
      PROVE  Out'
  BY <1>2, StaysOut
<1>3. \A type : ~Handling(Host, type)
  BY <1>1 DEF Handling
<1>4. ~HandleConnectionEstablished /\ ~HandlePlayerWantsToJoin /\ ~HandleRequest
  BY <1>1, <1>3 DEF HandleConnectionEstablished, HandlePlayerWantsToJoin, HandleRequest
<1>5. ASSUME NEW c \in Client, c # Host /\ Connect(c) PROVE Out'
  BY <1>1, <1>5 DEF Connect
<1>6. ASSUME NEW c \in Client, Leave(c) PROVE Out'
  <2>1. c # Host
    BY <1>1, <1>6 DEF Leave
  <2>2. Hangup(c) /\ UNCHANGED members
    BY <1>6 DEF Leave, Hangup
  <2>3. up'[Host] = up[Host] /\ down'[Host] = down[Host]
    BY <1>1, <2>1, <2>2, HangupCuts
  <2>4. players'[Host] = players[Host] /\ status'[Host] = status[Host]
    BY <1>1, <1>6, <2>1 DEF Leave, SetPlayers
  <2> QED BY <1>2, <2>2, <2>3, <2>4
<1>7. ASSUME NEW c \in Client, Ask(c) PROVE Out'
  <2>1. c # Host
    BY <1>1, <1>7 DEF Ask
  <2>2. up'[Host] = up[Host]
    BY <1>1, <1>7, <2>1 DEF Ask, Upload
  <2> QED BY <1>2, <1>7, <2>2 DEF Ask
<1>8. ASSUME NEW c \in Client, NEW type, Handling(c, type)
      PROVE  c # Host /\ UNCHANGED members /\ down'[Host] = down[Host]
  BY <1>1, <1>3, <1>8, HandlingPops DEF Handling
<1>9. ASSUME NEW c \in Client, HandleConnectionAccepted(c) PROVE Out'
  <2>1. c # Host /\ UNCHANGED members /\ down'[Host] = down[Host]
    BY <1>8, <1>9 DEF HandleConnectionAccepted
  <2>2. \E guid : up' = Greeting(c, guid)
    BY <1>9 DEF HandleConnectionAccepted
  <2>3. up'[Host] = up[Host]
    BY <1>1, <2>1, <2>2 DEF Greeting, Upload
  <2>4. \E list : players' = [players EXCEPT ![c] = list]
    BY <1>9 DEF HandleConnectionAccepted, SetPlayers
  <2>5. players'[Host] = players[Host] /\ status'[Host] = status[Host]
    BY <1>1, <1>9, <2>1, <2>4 DEF HandleConnectionAccepted
  <2> QED BY <1>2, <2>1, <2>3, <2>5
<1>10. ASSUME NEW c \in Client, HandlePlayerHasJoined(c) PROVE Out'
  <2>1. c # Host /\ UNCHANGED members /\ down'[Host] = down[Host]
    BY <1>8, <1>10 DEF HandlePlayerHasJoined
  <2>2. up' = up /\ players'[Host] = players[Host] /\ status'[Host] = status[Host]
    BY <1>1, <1>10, <2>1 DEF HandlePlayerHasJoined, SetPlayers
  <2> QED BY <1>2, <2>1, <2>2
<1>11. ASSUME NEW c \in Client, HandlePlayerColorChanged(c) PROVE Out'
  <2>1. c # Host /\ UNCHANGED members /\ down'[Host] = down[Host]
    BY <1>8, <1>11 DEF HandlePlayerColorChanged
  <2>2. up' = up /\ players'[Host] = players[Host] /\ status' = status
    BY <1>1, <1>11, <2>1 DEF HandlePlayerColorChanged, SetPlayers
  <2> QED BY <1>2, <2>1, <2>2
<1>12. ASSUME NEW c \in Client, HandlePlayerHasLeft(c) PROVE Out'
  <2>1. c # Host /\ UNCHANGED members /\ down'[Host] = down[Host]
    BY <1>8, <1>12 DEF HandlePlayerHasLeft
  <2>2. up' = up /\ players'[Host] = players[Host] /\ status' = status
    BY <1>1, <1>12, <2>1 DEF HandlePlayerHasLeft, SetPlayers
  <2> QED BY <1>2, <2>1, <2>2
<1>13. ASSUME NEW c \in Client, HandleHostDisconnected(c) PROVE Out'
  <2>1. c # Host /\ UNCHANGED members /\ down'[Host] = down[Host]
    BY <1>8, <1>13 DEF HandleHostDisconnected
  <2>2. up'[Host] = up[Host] /\ players'[Host] = players[Host] /\ status'[Host] = status[Host]
    BY <1>1, <1>13, <2>1 DEF HandleHostDisconnected, SetPlayers
  <2> QED BY <1>2, <2>1, <2>2
<1>14. ASSUME NEW c \in Client, HandleChangeAccepted(c) PROVE Out'
  <2>1. c # Host /\ UNCHANGED members /\ down'[Host] = down[Host]
    BY <1>8, <1>14 DEF HandleChangeAccepted
  <2>2. up' = up /\ players' = players /\ status' = status
    BY <1>14 DEF HandleChangeAccepted
  <2> QED BY <1>2, <2>1, <2>2
<1>15. CASE UNCHANGED vars
  BY <1>2, <1>15 DEF vars, relayVars
<1>16. CASE Next
  BY <1>4, <1>5, <1>6, <1>7, <1>9, <1>10, <1>11, <1>12, <1>13, <1>14, <1>16, RelayingStaysOut DEF Next
<1> QED BY <1>15, <1>16

-----------------------------------------------------------------------------
(* The invariant.                                                          *)

\* Once somebody has hurried, this is remembered.
LEMMA HurryKept ==
  ASSUME hurried \in BOOLEAN, [Next]_vars
  PROVE  hurried' \in BOOLEAN /\ (hurried => hurried')
<1>1. CASE UNCHANGED hurried
  BY <1>1
<1>2. CASE \E b \in BOOLEAN : hurried' = (hurried \/ b)
  BY <1>2
<1>3. ASSUME NEW c \in Client, Connect(c) PROVE \E b \in BOOLEAN : hurried' = (hurried \/ b)
  <2>1. AnswerPending(c) \in BOOLEAN
    BY DEF AnswerPending
  <2>2. hurried' = (hurried \/ AnswerPending(c))
    BY <1>3 DEF Connect
  <2> QED BY <2>1, <2>2
<1>4. ASSUME NEW c \in Client, Ask(c) PROVE \E b \in BOOLEAN : hurried' = (hurried \/ b)
  <2> DEFINE b == (status[c] # "in" /\ Head(players[c]).id = c)
  <2>1. b \in BOOLEAN
    OBVIOUS
  <2>2. hurried' = (hurried \/ b)
    BY <1>4 DEF Ask
  <2> QED BY <2>1, <2>2
<1>5. CASE UNCHANGED vars
  BY <1>1, <1>5 DEF vars
<1>6. CASE Next
  <2>1. CASE HandleConnectionEstablished \/ HandlePlayerWantsToJoin \/ HandleRequest
    BY <1>1, <2>1 DEF HandleConnectionEstablished, HandlePlayerWantsToJoin, HandleRequest, Handling
  <2>2. ASSUME NEW c \in Client, c # Host /\ Connect(c) PROVE hurried' \in BOOLEAN /\ (hurried => hurried')
    BY <1>2, <1>3, <2>2
  <2>3. ASSUME NEW c \in Client, Ask(c) PROVE hurried' \in BOOLEAN /\ (hurried => hurried')
    BY <1>2, <1>4, <2>3
  <2>4. ASSUME NEW c \in Client,
               \/ Leave(c) \/ HandleConnectionAccepted(c) \/ HandlePlayerHasJoined(c) \/ HandlePlayerColorChanged(c)
               \/ HandlePlayerHasLeft(c) \/ HandleHostDisconnected(c) \/ HandleChangeAccepted(c) \/ Relaying(c)
        PROVE  UNCHANGED hurried
    BY <2>4 DEF Leave, HandleConnectionAccepted, HandlePlayerHasJoined, HandlePlayerColorChanged,
                HandlePlayerHasLeft, HandleHostDisconnected, HandleChangeAccepted, Relaying, Handling
  <2> QED BY <1>1, <1>6, <2>1, <2>2, <2>3, <2>4 DEF Next
<1> QED BY <1>5, <1>6

\* While the host plays, unless somebody hurries.
LEMMA PlaysKept ==
  ASSUME Plays, TypeOK', [Next]_vars, ~hurried'
  PROVE  Plays' \/ Out'
<1> USE HostAssumption
<1>1. ASSUME NEW c \in Client, c # Host /\ Connect(c) PROVE Plays'
  BY <1>1, ConnectKeeps
<1>2. ASSUME NEW c \in Client, Leave(c) PROVE Plays' \/ Out'
  <2>1. CASE c = Host
    BY <1>2, <2>1, HostLeaves
  <2>2. CASE c # Host
    BY <1>2, <2>2, LeaveKeeps
  <2> QED BY <2>1, <2>2
<1>3. ASSUME NEW c \in Client, HandlePlayerHasJoined(c) PROVE Plays'
  <2>1. CASE c = Host
    BY <1>3, <2>1, HasJoinedKeeps
  <2>2. CASE c # Host
    BY <1>3, <2>2, OthersKeep
  <2> QED BY <2>1, <2>2
<1>4. ASSUME NEW c \in Client, HandlePlayerColorChanged(c) PROVE Plays'
  <2>1. CASE c = Host
    BY <1>4, <2>1, ColorChangedKeeps
  <2>2. CASE c # Host
    BY <1>4, <2>2, OthersKeep
  <2> QED BY <2>1, <2>2
<1>5. ASSUME NEW c \in Client, HandlePlayerHasLeft(c) PROVE Plays'
  <2>1. CASE c = Host
    BY <1>5, <2>1, HasLeftKeeps
  <2>2. CASE c # Host
    BY <1>5, <2>2, OthersKeep
  <2> QED BY <2>1, <2>2
<1>6. ASSUME NEW c \in Client, HandleChangeAccepted(c) PROVE Plays'
  <2>1. CASE c = Host
    BY <1>6, <2>1, ChangeAcceptedKeeps
  <2>2. CASE c # Host
    BY <1>6, <2>2, OthersKeep
  <2> QED BY <2>1, <2>2
<1>7. CASE UNCHANGED vars
  <2>1. UNCHANGED <<members, up, down, players, status>>
    BY <1>7 DEF vars, relayVars
  <2> QED BY <2>1 DEF Plays, ListIsOK, HostPlays, PacketsOK, OutOK, OutOf, ClientsOK, ClientOf, HungUp
<1>8. CASE Next
  BY <1>1, <1>2, <1>3, <1>4, <1>5, <1>6, <1>8, ConnectionEstablishedKeeps, WantsToJoinKeeps, RequestKeeps, AskKeeps,
     ConnectionAcceptedKeeps, NobodyHears, RelayingKeeps DEF Next
<1> QED BY <1>7, <1>8

LEMMA RosterInvKept ==
  ASSUME RosterInv, [Next]_vars
  PROVE  RosterInv'
<1>1. hurried' \in BOOLEAN /\ (hurried => hurried')
  BY HurryKept DEF RosterInv
<1>2. ASSUME ~hurried' PROVE TypeOK' /\ ListIsOK' /\ (IF status[Host] = "out" THEN HostOut ELSE HostPlays)'
  <2>1. TypeOK /\ ListIsOK /\ (IF status[Host] = "out" THEN HostOut ELSE HostPlays)
    BY <1>1, <1>2 DEF RosterInv
  <2>2. TypeOK'
    BY <2>1, TypesKept
  <2>3. CASE status[Host] = "out"
    <3>1. Out
      BY <2>1, <2>3 DEF Out
    <3>2. Out'
      BY <2>2, <3>1, OutKept
    <3> QED BY <2>2, <3>2 DEF Out
  <2>4. CASE status[Host] # "out"
    <3>1. Plays
      BY <2>1, <2>4 DEF Plays
    <3>2. Plays' \/ Out'
      BY <1>2, <2>2, <3>1, PlaysKept
    <3> QED BY <2>2, <3>2 DEF Plays, Out
  <2> QED BY <2>3, <2>4
<1> QED BY <1>1, <1>2 DEF RosterInv

LEMMA RosterInvInit == Init => RosterInv
<1> USE HostAssumption
<1> SUFFICES ASSUME Init PROVE RosterInv
  OBVIOUS
<1>1. /\ members = {Host} /\ up = [c \in Client |-> <<>>] /\ down = [c \in Client |-> <<>>] /\ hurried = FALSE
      /\ status = [c \in Client |-> IF c = Host THEN "connecting" ELSE "out"]
      /\ players = [c \in Client |-> <<[id |-> NoOne, guid |-> GuidOf[c], color |-> playerColors[1]]>>]
  BY DEF Init, RelayInit
<1>2. \A c \in Client : up[c] = <<>> /\ down[c] = <<>>
  BY <1>1
<1>3. DOMAIN up = Client /\ DOMAIN down = Client /\ DOMAIN players = Client /\ DOMAIN status = Client
  BY <1>1
<1>4. TypeOK
  BY <1>1, <1>2, <1>3, SequenceEmpty DEF TypeOK
<1>5. ListIsOK
  <2> DEFINE p == [id |-> NoOne, guid |-> GuidOf[Host], color |-> playerColors[1]]
             list == <<p>>
  <2>1. players[Host] = list
    BY <1>1
  <2>2. p.id = NoOne /\ p = [id |-> p.id, guid |-> p.guid, color |-> p.color]
    OBVIOUS
  <2> HIDE DEF p
  <2>3. DOMAIN list = {1} /\ list[1] = p /\ list # <<>>
    OBVIOUS
  <2>4. Sequence(list)
    <3>1. list \in Seq({p})
      OBVIOUS
    <3> QED BY <3>1, SequenceOf
  <2> HIDE DEF list
  <2>5. ListOK(list)
    BY <2>2, <2>3 DEF ListOK
  <2> QED BY <2>1, <2>4, <2>5 DEF ListIsOK
<1>6. PacketsOK
  BY <1>2, SequenceEmpty DEF PacketsOK, UpAll, DownAll
<1>7. OutOK
  <2>1. \A c \in Client \ {Host} : c \notin members
    BY <1>1
  <2> QED BY <1>2, <2>1, SequenceEmpty DEF OutOK, OutOf, Untold
<1>8. ASSUME NEW c \in Client \ {Host} PROVE ClientOf(c)
  <2>1. \A i : i \notin DOMAIN up[Host] /\ i \notin DOMAIN down[Host] /\ i \notin DOMAIN up[c] /\ i \notin DOMAIN down[c]
    BY <1>2, SequenceEmpty
  <2>2. \A k, i : ~Token(c, down[Host], up[Host], down[c], up[c], k, i)
    BY <2>1 DEF Token
  <2>3. DOMAIN players[Host] = {1} /\ players[Host][1].id = NoOne
    BY <1>1
  <2>4. ~Listed(c, players[Host])
    BY <2>3, PlayersAssumption DEF Listed
  <2>5. OneToken(c, down[Host], up[Host], down[c], up[c])
    BY <2>2 DEF OneToken
  <2>6. Unlisted(c, down[Host], up[Host], down[c], up[c], players[Host], c \in members)
    BY <2>1, <2>4 DEF Unlisted, Absent
  <2>7. /\ GreetingLast(c, down[Host], up[Host], down[c], up[c])
        /\ ColorsFirst(c, down[Host], up[Host], down[c], up[c])
        /\ ColorsTrue(c, down[Host], up[Host], players[Host])
    BY <2>1, <2>2 DEF GreetingLast, ColorsFirst, ColorsTrue
  <2> QED BY <2>5, <2>6, <2>7 DEF ClientOf, ClientOK
<1>9. Host \in members /\ status[Host] # "out" /\ hurried \in BOOLEAN
  BY <1>1
<1> QED BY <1>4, <1>5, <1>6, <1>7, <1>8, <1>9 DEF RosterInv, HostPlays, ClientsOK

\* What is on its way of each player stays in order, as long as nobody hurries:
\* one request, answer or greeting of his at a time, his greeting after the news
\* that he left, the news of his colour true (Players.cs and the handlers of
\* PlayerHasJoined, PlayerHasLeft and PlayerColorChanged).
THEOREM RosterKeepsInvariant == Spec => []RosterInv
<1>1. RosterInv /\ [Next]_vars => RosterInv'
  BY RosterInvKept
<1> QED BY <1>1, RosterInvInit, PTL DEF Spec

\* The host's list never has a player twice, nor a colour, though AddPlayer
\* does not look and a colour is free as soon as its player has left
\* (PlayerHasJoinedMessage.Handle).
THEOREM HostListsDiffer == Spec => []HostPlayersDiffer
<1>1. RosterInv => HostPlayersDiffer
  BY DEF RosterInv, ListIsOK, ListOK, HostPlayersDiffer
<1> QED BY <1>1, RosterKeepsInvariant, PTL

\* With as many colours as programs that may come, the host's search for one ends
\* (the loop in PlayerHasJoinedMessage.Handle): who greets is not listed, and the
\* others wear one each.
THEOREM HostAlwaysFindsColor ==
  ASSUME EnoughColors
  PROVE  Spec => []HostFindsColor
<1>1. ASSUME RosterInv PROVE HostFindsColor
  <2> SUFFICES ASSUME ~hurried, down[Host] # <<>>, Body(Host).type = "PlayerHasJoined", Sender(Host) # Host
               PROVE  ColorIsLeft(players[Host])
    BY DEF HostFindsColor
  <2> DEFINE list == players[Host]
             dh == down[Host]
  <2>1. TypeOK /\ Sequence(list) /\ ListOK(list) /\ HostPlays
    BY <1>1 DEF RosterInv, ListIsOK, HostOut
  <2>2. Sequence(dh) /\ DOMAIN dh = 1 .. Len(dh) /\ 1 \in DOMAIN dh /\ Head(dh) = dh[1]
    <3>1. Sequence(dh)
      BY <2>1, HostAssumption DEF TypeOK
    <3>2. Popped(Tail(dh), dh) /\ Head(dh) = dh[1]
      BY <3>1, TailPops
    <3> QED BY <3>1, <3>2 DEF Popped
  <2>3. DownOK(dh[1])
    BY <2>1, <2>2 DEF HostPlays, PacketsOK, DownAll
  <2>4. PICK c \in Client \ {Host} : c = Sender(Host)
    BY <2>2, <2>3 DEF DownOK, Sender
  <2>5. Joined(c, dh[1])
    BY <2>2, <2>4 DEF Joined, Sender, Body
  <2>6. ClientOK(c, dh, up[Host], down[c], up[c], list, c \in members)
    BY <2>1, <2>4 DEF HostPlays, ClientsOK, ClientOf
  <2> HIDE DEF dh, list
  <2>7. DOMAIN dh \subseteq Nat \ {0}
    BY <2>2
  <2>8. ~Listed(c, list)
    BY <2>2, <2>5, <2>6, <2>7, Newcomer
  <2>9. PICK k \in DOMAIN playerColors : \A x \in DOMAIN list : list[x].color # playerColors[k]
    BY <2>1, <2>8, ColorLeft
  <2>10. ColorIsLeft(list)
    BY <2>9 DEF ColorIsLeft, ToSet
  <2> QED BY <2>10 DEF list
<1>2. RosterInv => HostFindsColor
  BY <1>1
<1> QED BY <1>2, RosterKeepsInvariant, PTL
=============================================================================
