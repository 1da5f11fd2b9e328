------------------------------ MODULE TileLayer ------------------------------
(***************************************************************************)
(* simple_tile_layer (and masked_tile_layer, which does the same to two    *)
(* images at once): an image is read one scanline after the other and cut  *)
(* into rows of tiles, at several levels of detail (mipmaps).              *)
(*                                                                         *)
(* A level keeps its latest scanlines in a ring.  Every second line that a *)
(* level receives, the last two are averaged into one line of the level    *)
(* below.  A tile shows Band lines, between a line of its neighbour above  *)
(* and a line of its neighbour below.                                      *)
(*                                                                         *)
(* Rows stand for their tiles: both programs divide a row into the same    *)
(* columns.  A line is the interval of image lines that it averages.  No    *)
(* level is skipped, as in every call of CreateImageLoader.                *)
(***************************************************************************)
EXTENDS Integers, FiniteSets

CONSTANTS
  Band,      \* lines of the image in a tile; 254 in the code
  MaxHeight  \* bound: the height of the image

\* The parity of an index in the ring is that of the line.
ASSUME BandAssumption == Band \in Nat \ {0} /\ Band % 2 = 0 /\ MaxHeight \in Nat \ {0}

Ring == Band + 2
None == -1
Black == [first |-> 0, last |-> 0]

VARIABLES
  height,  \* height of the image
  levelCount, \* mipmap_level_count
  unread,  \* unread_scanlines
  level,   \* the level that has just received a line, None between two scanlines
  mipmaps, \* for each level: its ring, next_scanline_index, scanlines_to_complete_tile
           \* and next_tile_y
  tiles    \* the rows of tiles put into the tile buffer

vars == <<height, levelCount, unread, level, mipmaps, tiles>>

\* The levels that an image of this size needs, at least 3.
LevelCount(h) ==
  CHOOSE n \in 3 .. h + 3 : 2 ^ (n - 1) >= h \div Band /\ (n = 3 \/ 2 ^ (n - 2) < h \div Band)
Levels == 0 .. levelCount - 1

\* get_image_dimensions: a wide image may need more levels than its height does.
Init ==
  /\ height \in 1 .. MaxHeight
  /\ levelCount \in LevelCount(height) .. LevelCount(MaxHeight)
  /\ unread = height
  /\ level = None
  /\ mipmaps = [l \in Levels |->
       [ring |-> [i \in 0 .. Ring - 1 |-> Black], next |-> 1, left |-> Band + 1, row |-> 0]]
  /\ tiles = {}

-----------------------------------------------------------------------------

Stored(m, line) == [m EXCEPT !.ring[m.next] = line]
Averaged(a, b) == [first |-> a.first, last |-> b.last]

\* The lines that are copied to a tile, the oldest first; black below the image.
\* Fault: the line shared with the tile above is left out.
CopiedFromNext(m) ==
  [y \in 0 .. Ring - 1 |-> IF y < Ring - m.left THEN m.ring[(m.next + 1 + y + m.left) % Ring] ELSE Black]
Copied(m) ==
  [y \in 0 .. Ring - 1 |-> IF y < Ring - m.left THEN m.ring[(m.next + y + m.left) % Ring] ELSE Black]

\* Is a row of tiles complete?
\* Fault: what remains at the end of the image is forgotten.
RowIsReadyWhenFull(m) == m.left = 0
RowIsReady(m) == m.left = 0 \/ unread = 0

\* The lines that the next row still needs.
NextRow(m) == [m EXCEPT !.left = Band, !.row = @ + 1]

\* Read a scanline and copy it to level 0.
ReadScanline ==
  /\ level = None /\ unread > 0
  /\ unread' = unread - 1
  /\ LET n == height - unread + 1
     IN  mipmaps' = [mipmaps EXCEPT ![0] = Stored(@, [first |-> n, last |-> n])]
  /\ level' = 0
  /\ UNCHANGED <<height, levelCount, tiles>>

\* Output the row of tiles if it is ready; then downsample every second line, and
\* the last one.
VisitLevel ==
  /\ level # None
  /\ LET old == mipmaps[level]
         new == [old EXCEPT !.next = (@ + 1) % Ring, !.left = @ - 1]
         out == IF RowIsReady(new) THEN NextRow(new) ELSE new
         line == Averaged(new.ring[(new.next - 2) % Ring], new.ring[(new.next - 1) % Ring])
     IN  /\ tiles' = IF RowIsReady(new)
                     THEN tiles \cup {[level |-> level, row |-> old.row, lines |-> Copied(new)]}
                     ELSE tiles
         /\ IF level = levelCount - 1 \/ (unread > 0 /\ new.next % 2 = 0)
            THEN mipmaps' = [mipmaps EXCEPT ![level] = out] /\ level' = None
            ELSE /\ mipmaps' = [mipmaps EXCEPT ![level] = out, ![level + 1] = Stored(@, line)]
                 /\ level' = level + 1
  /\ UNCHANGED <<height, levelCount, unread>>

Done == level = None /\ unread = 0

Next == ReadScanline \/ VisitLevel \/ (Done /\ UNCHANGED vars)

Spec == Init /\ [][Next]_vars

-----------------------------------------------------------------------------
(* The reader's side: DXTileSet.LoadIncrementally.                         *)

\* The height of a level, and the rows of tiles that the program asks for.
Height[l \in 0 .. LevelCount(MaxHeight)] == IF l = 0 THEN height ELSE (Height[l - 1] + 1) \div 2
RowCount(l) == (Height[l] + Band - 1) \div Band

-----------------------------------------------------------------------------
(* Properties.                                                             *)

Lines == [first : 0 .. MaxHeight, last : 0 .. MaxHeight]
Mipmaps == [ring : [0 .. Ring - 1 -> Lines], next : 0 .. Ring - 1, left : 0 .. Band + 1,
            row : 0 .. MaxHeight]

\* The types.
TypeOK ==
  /\ height \in 1 .. MaxHeight /\ unread \in 0 .. height
  /\ levelCount \in 3 .. LevelCount(MaxHeight)
  /\ level \in Levels \cup {None}
  /\ mipmaps \in [Levels -> Mipmaps]
  /\ tiles \subseteq [level : Levels, row : 0 .. MaxHeight, lines : [0 .. Ring - 1 -> Lines]]

\* A tile shows the lines of its level that belong to its row, with the neighbouring
\* one on each side, and is black outside of the image.  Line k of a level averages
\* lines 2k - 1 and 2k of the level above; an odd last line, with no line 2k, is averaged
\* with the line before it, even when that is the black line above the image.
\* (simple_tile_layer::get_all_tiles)
FirstLine[l \in 0 .. LevelCount(MaxHeight), k \in 0 .. MaxHeight] ==
  IF l = 0 \/ k = 0 THEN k
  ELSE FirstLine[l - 1, IF 2 * k <= Height[l - 1] THEN 2 * k - 1 ELSE 2 * k - 2]
LastLine(l, k) == IF k * 2 ^ l <= height THEN k * 2 ^ l ELSE height
LineOf(l, k) ==
  IF k \in 1 .. Height[l] THEN [first |-> FirstLine[l, k], last |-> LastLine(l, k)] ELSE Black
TilesShowTheirLines ==
  \A t \in tiles : \A y \in 0 .. Ring - 1 : t.lines[y] = LineOf(t.level, t.row * Band + y)

\* The program gets no tile it has no place for, none twice, and in the end all that
\* it asked for; the last row is excepted where it has a single line.  The byte
\* scanlines_to_complete_tile never wraps.
RowsOut(l) == {t.row : t \in {t \in tiles : t.level = l}}
Missing(l) == (0 .. RowCount(l) - 1) \ RowsOut(l)
SingleLine(l) == RowCount(l) > 1 /\ Height[l] % Band = 1
TilesFit ==
  \A l \in Levels :
    /\ mipmaps[l].left \in 0 .. Band + 1
    /\ RowsOut(l) \subseteq 0 .. RowCount(l) - 1
    /\ Cardinality(RowsOut(l)) = Cardinality({t \in tiles : t.level = l})
    /\ Done => Missing(l) = IF SingleLine(l) THEN {RowCount(l) - 1} ELSE {}

\* The program's loop lasts "for the tile set to be fully loaded" (DXTileSet.cs:84): the
\* loader outputs all the tiles that are asked for.  It does not: the first row is output
\* after Band + 1 lines, and the end of the image may coincide with the end of a row.
AllTilesLoaded == Done => \A l \in Levels : Missing(l) = {}
=============================================================================
