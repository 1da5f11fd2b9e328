---------------------------- MODULE MCTablePlay ----------------------------
(* Small games for TLC.  Counters 1 to 3 and card 4; terrain prototype 5,  *)
(* whose clones are 500 and those of message n, 500 + n.  A home is below  *)
(* 0, so that no place is one.                                             *)
EXTENDS TablePlay

MCClone == 500 .. 500 + MaxMessages
MCPrototypeOf == [c \in MCClone |-> 5]
MCNewStack == {10 * n + k : n \in 1 .. MaxMessages, k \in 1 .. 3}
MCHomeOf == [p \in Counter \cup Prototype \cup MCClone |-> -p]
MCTurns == {1}

\* map and loose list the loose stacks of the two boards, sheet the attached
\* pieces; held is in the hand.
Setup(map, loose, sheet, held, open, visible, face) ==
  LET listed == {map[i] : i \in DOMAIN map} \cup {loose[i] : i \in DOMAIN loose}
      attached == {sheet[i] : i \in DOMAIN sheet}
      all == listed \cup {<<p>> : p \in attached} \cup (IF held = <<>> THEN {} ELSE {held})
      Name(ps) == ps[1]
      Of(p) == CHOOSE ps \in all : Contains(ps, p)
      used == UNION {ToSet(ps) : ps \in all}
  IN  [pieces |-> [s \in Stack |-> IF \E ps \in all : Name(ps) = s THEN CHOOSE ps \in all : Name(ps) = s
                                   ELSE IF s \in Piece \ used THEN <<s>> ELSE <<>>],
       stack |-> [p \in Piece |-> IF p \in used THEN Name(Of(p)) ELSE p],
       board |-> [s \in Stack |-> IF \E i \in DOMAIN map : map[i][1] = s THEN Map
                                  ELSE IF s \in attached \/ \E i \in DOMAIN loose : loose[i][1] = s THEN Sheet
                                  ELSE NoBoard],
       pos |-> [s \in Stack |-> IF \E ps \in listed : ps[1] = s THEN 10 ELSE Off],
       attached |-> [s \in Stack |-> s \in attached],
       stacks |-> [b \in Board |-> IF b = Map THEN [i \in DOMAIN map |-> map[i][1]]
                                   ELSE sheet \o [i \in DOMAIN loose |-> loose[i][1]]],
       side |-> [p \in Piece |-> 0], angle |-> [p \in Piece |-> IF p = 1 THEN Turn - 1 ELSE 0],
       face |-> face, visible |-> visible,
       hand |-> [q \in Player |-> [open |-> open, stack |-> IF held = <<>> THEN NoStack ELSE held[1]]],
       fault |-> FALSE]

MCHeldTerrain == Setup(<<<<1, 2, 3>>>>, <<>>, <<5, 4>>, <<500>>, TRUE, Map, 0)
MCTerrainInHand == {MCHeldTerrain}
MCTurnSetups == {
  Setup(<<<<1, 2>>, <<500>>>>, <<>>, <<5, 4>>, <<>>, FALSE, Map, 0),
  Setup(<<<<500>>>>, <<>>, <<5, 4>>, <<1, 2>>, TRUE, Map, 0)}
MCSetups == {
  Setup(<<<<1, 2>>, <<500>>>>, <<>>, <<5, 3, 4>>, <<>>, FALSE, Map, 0),
  Setup(<<<<1>>>>, <<<<3>>>>, <<5, 4>>, <<2, 500>>, TRUE, Sheet, 1),
  MCHeldTerrain}
=============================================================================
