# A verification development of ZunTzu

ZunTzu is a virtual table for board games: a program (C#, `src/ZunTzu`) with which
several players, each at his own computer, look at one table of boards and counters,
and a native library (C++, `src/ZunTzuLib`) that it uses for images, sound, video and
networking.  This directory holds TLA+ models of the parts of it that are hard to
test, the TLC runs that check them on small instances, and proofs of the most
important properties for instances of any size.

## 1. Inventory

Paths are relative to `src/ZunTzu/ZunTzu` (C#) or `src/ZunTzuLib/ZunTzuLib` (C++).

| Part | State | Operations | Correct when |
|---|---|---|---|
| **Relay** `Networking/RakServer.cs`, `RakClient.cs` | players by id, the host's address, RakNet's channels, the client's local queue | connect, relay (to host, to all, from host to one), disconnect | what is sent in one stay of a player is never handled in another; all see broadcasts in one order; the session ends with the host |
| **Command history** `Modelization/CommandManager.cs` | undo stack (at most 100), redo stack | execute (with aggregation of rotations), undo, redo, clear | undo takes back the latest changes, whatever was aggregated, dropped or redone |
| **Table synchronisation** `Control/Messages`, `Control/CommandLineParser.cs`, `Control/Controller.cs` | sequence number, hosting flag, the table | about 50 requests, accept, reject, shuffle result, join and snapshot, load a game, change the box, leave | all tables go through the same states; no outdated request is accepted; nobody is locked out |
| **Animation queue** `Modelization/AnimationManager.cs`, `Modelization/Animations` | lists of animations waiting and running | launch, advance, end all | a change is executed once, in order, whenever its animation ends; a program in the middle of animations ends with the table of one at rest |
| **Table** `Modelization/{Board,Stack,Piece,PlayerHand,Game}.cs`, `Modelization/Commands` | boards, stacks, pieces, hands, z-order | 51 commands with Do, Undo, Redo, and the messages that choose one | pieces are conserved; attached pieces stay flat and behind; Undo restores what Do changed, whatever came in between |
| **Rotation** `Control/States/IdleState.cs`, `RotatePiece*` messages | pieces being rotated, the rotation shown | begin, continue, accept, reject | the confirmed rotation is the one shown |
| **Roster** `Modelization/Player.cs`, `Model.cs` | players, colours, hands | add, remove, change colour | each player once, with a colour of his own, in all programs; a change in a hand is made in the same hand everywhere |
| **Interaction states** `Control/States` | current mouse state, dragged pieces | idle, scroll, drag, resize, dialog | a request is one that the table it is made on allows |
| **Video conferencing** `Networking/VideoFrameHistory.cs`, video part of the relay | frame histories, one-byte frame ids, job queues | send, acknowledge, encode against a reference frame, toggle | a frame is decoded with the reference it was encoded with, whatever is lost and however often the ids wrap |
| **Randomness** `Randomness` | generator, entropy pool | dice, permutations | permutations are permutations; everybody sees the same throw |
| **Tile buffer** `synchronized_tile_buffer.cpp` | slots with states, two semaphores, error and stop flags | allocate and free a slot for writing or reading, stop consumer, stop producer | a slot has one user; a thread past a semaphore finds a slot |
| **Texture pipeline** `dxt1_compressor.cpp`, `dxt5_compressor.cpp`, `Graphics/DXTileSet.cs` | a loader thread, a compression thread per core, two tile buffers | load, compress, get next tile, fail, destroy | every tile arrives once; every call returns; nothing is freed in use |
| **Tile layers** `simple_tile_layer.cpp`, `masked_tile_layer.cpp` | rings of scanlines, counters per level | read a line, output a row, downsample | each tile shows its own lines, and the program gets all the tiles it waits for |
| **Saved games** `Modelization/Game.cs` | a file, or the snapshot that a newcomer gets | saving a table, loading one | a loaded table is the one that was saved |
| Game boxes, game library, visualisation, audio and video capture, dialogs and menus, numeric helpers, archives, image decoders, RakNet and other libraries | | | not modelled: input and output, rendering, numeric kernels, third-party code |

How they interact.  Every program runs one main loop (`EntryPoint`, `Controller.DoEvents`):
it reads the messages that have arrived, handles them one after the other, advances the
animations, and turns mouse and keyboard events into requests.  So within a program
there is no concurrency; between programs everything is.  The relay is a process of its
own with one loop.  All reliable messages of a program use one ordered RakNet channel in
each direction.  The tile buffer and the pipeline are the only part with threads: a
loader, one compression thread per core, and the main thread.

What is hard: the host is both the judge of requests and a player, and judges with a
number that runs ahead of his table; snapshots, loads and undo stacks meet changes under
way; players leave in the middle of anything and come back; commands meet animations that have
not ended; 51 commands each undo themselves in their own way; video packets are lost and
their numbers wrap; threads are stopped, or fail, at any point of a hand-over.  `PROJECT.json` lists these hazards with their lines.

## 2. Modules

| Module | Models | Extends |
|---|---|---|
| `Relay` | the server process, channels, local queue, connecting and hanging up | |
| `CommandHistory` | CommandManager, as operators on a record `table`, `undo`, `redo` | |
| `TableSync` | the synchronisation protocol: one action per thing a player does and per message handler | `Relay`, `CommandHistory` |
| `TableSyncProofs` | theorems about `TableSync`: stays, numbers at the host, undo stacks | `TableSync`, `TLAPS` |
| `TableOrderProofs` | the order of packets in the channels, and the theorem about numbers | `TableSyncProofs` |
| `SharedTable` | abstract specification: what players are promised | |
| `TableHistory` | `TableSync` with a history variable, and the refinement of `SharedTable` | `TableSync` |
| `TableHistoryProofs` | theorems about `TableHistory`: agreement, and the safety of the refinement | `TableHistory`, `TableOrderProofs` |
| `TableNumbersProofs` | what a number stands for, and the theorems about requests that come back and players who stay behind | `TableHistoryProofs` |
| `TileBuffer` | the class `synchronized_tile_buffer`, one operator per critical section and semaphore call | |
| `TilePipeline` | loader, compression and main threads, with program counters | `TileBuffer` |
| `TilePipelineProofs` | theorems about `TilePipeline` | `TilePipeline`, `TLAPS` |
| `TileLayer` | cutting an image into rows of tiles | |
| `Rotation` | rotating pieces with the mouse wheel before the host confirms it | `Relay` |
| `RotationProofs` | theorems about `Rotation` | `Rotation`, `TLAPS` |
| `Table` | boards, stacks, pieces and hands: a table is a record | |
| `Animations` | every animation that changes the table, and the animation manager | `Table` |
| `Commands` | the 51 commands, one operator per class | `Animations` |
| `TableMessages` | `HandleAccept` of the messages that change the table; executing, undoing and redoing commands | `Commands` |
| `SavedGame` | saving a table and loading it | `Commands` |
| `TablePlay` | a player's messages, handled by a program at rest | `TableMessages`, `SavedGame` |
| `TableHaste` | the same messages at a second program, whose animations may be running | `TablePlay` |
| `Roster` | the players' lists, colours and hands as they join, leave and return | `Relay` |
| `RosterProofs` | theorems about `Roster` | `Roster`, `TLAPS` |
| `Video` | pictures and acknowledgements between two players through the server | |
| `VideoProofs` | theorems about `Video` | `Video`, `TLAPS` |
| `MCTableSync`, `MCTableHistory`, `MCTilePipeline`, `MCRotation`, `MCTablePlay`, `MCTableHaste`, `MCRoster`, `MCVideo` | model values, small tables and symmetry for TLC | |

### Correspondence with the code: the table

`TableSync` keeps, for each program, `seq` (`Model.StateChangeSequenceNumber`), `history`
(`CommandManager` and the table), and `status`, where the program is in the joining
protocol (the code has only `IsHosting` and the network status; "joining" and "welcomed" are the
time before and after ConnectionAccepted).  Changes are numbers, a table is the sequence
of changes that made it: two programs that executed the same changes on the same game
show the same table, because commands depend on nothing else.  `shown` is the host's table
without the changes whose animation still runs; the code saves that one in a snapshot
(`PlayerWantsToJoinMessage.Handle` does not end animations).

A handler is one action, with everything it sends: `HandleRequest`
(`StateChangeRequestMessage.Handle`), `HandleChangeAccepted`, `HandleShuffleResult`,
`HandleGameLoaded` and so on.  `HandleGameWithoutBox` is the branch of three handlers for
a game whose box is missing or broken.  `Applied` stands for the `HandleAccept` of every
request message: the requests fall into five kinds, "do" (any command that is not
aggregated), "rotate" (aggregated), "undo", "redo" and "shuffle" (answered by the host with a
ShuffleResult).

`Relay` keeps a queue of packets per direction and client.  `Hangup` drops any suffix of
what was not sent yet, and what was on its way to the client and not retrieved.  Packets to a
client who hung up are lost.  The server's loop handles one packet of any client per step.

`RetrieveNetworkMessages` returns a list, and `Controller.DoEvents` goes through all of it.  A program
that disconnects while it handles one of them (`HandleGameWithoutBox`) goes on with the others: they are
any number of packets that followed in its channel, and become `rest`.  `HandleRest` handles one of them
as the code does then: `IsHosting` is true, so the program accepts, rejects and numbers requests, executes
changes on the table it is left with and draws permutations, and does not take their numbers;
`RakClient.Send` finds no connection, so what it sends to everybody or to itself is
handled by itself in a later frame (`SendToOneself`), and what it sends to another is dropped.  A user's
command to disconnect (`Leave`) comes between two batches, since `DoEvents` first handles the user's
input: nothing is left over then.  `Connect` waits until the rest is handled: connecting takes
several frames, with an exchange of packets, and the rest is handled in the first two or three.
`shown` is not kept for a host who is out, since nobody can join him then.

Four variables belong to the observer: `waiting` (unanswered requests), `pos` (the last
broadcast handled), `suspect` and `renumbered`.  They are written and never read by
actions.  `suspect` marks programs whose table may differ for one of three reasons, each
a race of the code: a snapshot taken while changes are accepted or animated but not
executed (its number is ahead of its table); a game loaded by the host with changes under
way; an undo or redo handled by a newcomer between snapshot and his own
PlayerHasJoined, when his stacks are not yet the others'.  `renumbered` says that
a ShuffleResult has set the host's number back.  Properties that except these cases say so; section 4 tells what the exceptions are about.

### Correspondence with the code: pieces and commands

`Table` is the state of `Modelization`: of each board its stacks from back to front, of each
stack its pieces, board, position and whether it is attached to the counter sheet, of each piece
its stack, side and angle, the hands, the visible board.  Positions are a few places; bounding boxes
and the stack inspector are left out.  A debug assertion or exception of the code is `Throws`.

A command changes nothing itself: `Do`, `Undo` and `Redo` queue animations, and an animation
changes the table when it ends (`SetFinalState`).  So an operator of `Commands` gives, for
the command's arguments (`x`), what it memorized (`d`) and the table it meets (`t`), the stacks
that it calls preventConflict for, and two sequences of animations, to do and to undo it.
The flag `f` tells Do from Redo where the two differ in more than what they show.  `Memorized` is the
union of what the commands keep; which ones keep it over a redo is `Remembers`.  `HandleAccept`
of `TableMessages` handles a message: `Chosen` takes it to the operator of its class, which chooses the
command's class and arguments and ends with `ExecuteCommandSequence`, in all classes the last call; `Execute`,
`Undo` and `Redo` are those of `CommandManager`.

In `TablePlay` a program, `calm`, handles messages, and their
animations always end before the next one.  In `TableHaste` a second program, `hasty`, handles the same messages
in the same order, whatever animations it has waiting or running: `Controller.DoEvents` handles all messages that have
arrived one after the other, and then `Frame`, one call of `AnimationManager.Animate`, is drawn; so between
two messages there are many frames, one, or none.  `Change` is the set of the messages
that players can send, one set for each class, with the guards of the interaction states on the calm
table, where nothing is being animated: there a player could really have sent the message.  `looks` belongs to the observer.

`SavedGame` is pure: `Save` gives the record that stands for a file, `LoadGame` starts from `BlankTable`, every piece attached,
and reads each board's single pieces, its stacks, then the hands.  The properties of `TablePlay` compare
`LoadGame(Save(T))` with the calm table `T` in every state: the game may be saved at any moment, and what is loaded does not
change the game that was saved.

The selection is made just before it is used, with the message it needs (`Select`); all pieces
have two sides; there is one player, since what somebody does is done by his hand in every
program, and one counter sheet.

### Correspondence with the code: players

`Roster` keeps `Model.Players` of each program, its own player first.  `status` is as in
`TableSync`; players leave at their own command only, so no batch is left over.  All requests are accepted, and what a change does is to name the hand it was made
in: `hands` is the set of pairs of a Guid and a change that a program has executed.  Two
programs may be instances of one installation and so have the same Guid.  RakNet's identity of a
program is taken to stay when it reconnects, as the code does.  Two variables belong to the
observer.  `crossed` is set when somebody comes or goes while somebody else is between connecting
and his own greeting, or a snapshot is taken while a change is on its way back to the host.  `hurried` is set when
somebody returns before the answer to his earlier PlayerWantsToJoin, or makes a change when he
has returned and the others do not list him yet.

### Correspondence with the code: video

`Video` has two links, from the sender to the server and from the server to the recipient, each with
the outbound history of one end and the inbound history of the other (`VideoFrameHistory.cs`),
the packets and the acknowledgements under way.  Any packet may be lost or overtaken: one of those
under way arrives, and those before it never will, as in RakNet's sequenced channels.  A picture
is the number of the camera's shot, and each packet also carries the picture it was encoded with,
which the code does not send: `Decoded` compares it to the one the receiver takes.  The host's
own pictures are sent uncompressed in the code; here they are encoded like the others, which can
only lose more.

### Correspondence with the code: rotation

`Rotation` keeps the four fields of `IdleState` (`PiecesBeingRotated`, `RotationIncrements`,
`RotationInProgress`, `WaitingForContinueRotationMessage`; the chart in that file calls the
last three A, B and C), and of the table the order of the pieces in one stack and the angle
of each.  An increment is one notch of the wheel.  A group being rotated is made of pieces of
one game: a program compares objects, and those of a game that was replaced are on no table
any more.  When the host handles a message to himself, it comes through his local
queue and so ahead of what the server still has to broadcast: that is where the host differs
from the others.  All programs stay in the session, and the other requests are dropping a
piece on the stack or beside it.  `failed` are programs that ended because a rejection found
nothing to take back (a null reference); `torn` belongs to the observer and marks the pieces
whose rotation was confirmed, or taken back, for other pieces than its author had turned.

### Correspondence with the code: tiles

In `TileBuffer`, a member function of the class is two or three operators: the wait for a
semaphore, the critical section, the release.  `Released` is ReleaseSemaphore with its maximum:
it does nothing when the count would exceed it.  In `TilePipeline` each thread has a program
counter; the steps between two calls (copying texels) are steps of their own, so that
another thread may come between.  The loader makes as many tiles as the main thread asks for
(`TileCount`); that is an assumption (section 4).  `Delete` is the end of the destructor's wait of ten
seconds: every thread that can go on has gone on by then.

In `TileLayer` a line of a level is the interval of image lines it averages, and a row of
tiles stands for its tiles, since both sides divide a row into the same columns.

## 3. What the runs check

| Run | Instance | Shows |
|---|---|---|
| `rejoin` | host and one player, 2 requests of any kind, a load or box change, two joins and one leave, undo stack of 1 | `TypeOK`; the host accepts no outdated request (`AcceptedIsCurrent`); a player's own change comes back to the table he was looking at (`OwnChangeAppliesToBase`); undo takes back the latest changes (`UndoIsLatest`); stays of a player do not mix, and a program that is out tells the session nothing, though it handles what is left of its batch and answers it (`SessionsApart`); `HostLeads`; programs that have handled the same broadcasts agree on table and stacks (`Agreement`); nobody stays behind the host (`NobodyLockedOut`) |
| `shared_table` | fair, with load, join and leave | `TableHistory` implements `SharedTable`, liveness included (`ImplementsSharedTable`); every request is answered, or its author disconnects (`RequestsAnswered`); numbers never go back (`NumbersGrow`) |
| `table` | three tables of 3 counters, a card, a terrain prototype and clones of it, on a map, a sheet and in a hand; any 2 messages, any number of undos and redos | `TypeOK`; no piece is lost, doubled or in two places, no stack is empty (`PiecesAccounted`); attached pieces are alone, upright and behind all loose ones (`AttachedAreFlat`); undo and redo restore the table (`UndoRestores`); the program throws in one case only (`ThrowsOnlyForTwins`); a game saved at rest is the same when it is loaded, but that on each board single pieces end behind stacks of several (`SavedGameKept`) |
| `turns` | a stack, a card and terrain, on the map or in a hand; any 3 messages that turn or flip pieces, show a board, or add, remove or rearrange a hand, undo and redo, any number of frames, or none, between them | a program whose animations were interrupted ends with the table of one that was at rest (`Predictable`) |
| `roster` | host and two instances of one player's program, 3 joins, 1 leave, 1 change | no player lists another twice (`PlayersDiffer`), nor does the host, and there all colours differ (`HostPlayersDiffer`); he finds a colour for everybody (`HostFindsColor`); when nothing is on its way, all lists are the same and right (`ListsAgree`), all hands are the same (`HandsAgree`), and no two players have one Guid (`OwnHandsInTurn`) |
| `video` | 10 pictures numbered modulo 8, server jobs at most 2, the recipient leaves and returns | every picture is decoded with the reference that it was encoded with (`SeenAsSent`); what the sender takes for arrived is at the receiver (`ReferenceKept`); nobody sees an older picture after a newer one (`PicturesAdvance`) |
| `rotation` | host and one player, stack of two pieces, three turns of the wheel, moves or loads | all see the same angles in the end where no race tore the rotation (`SettledAngles`); what a player takes back is what he turned (`TakesBackOwn`); one request per round trip (`OneRoundTrip`); the wheel is free in the end (`WheelIsFree`) |
| `tiles` | fair, 2 compression threads, 2 slots, 3 tiles, failures | `TypeOK`; two threads never use one slot (`SlotsExclusive`); who has passed a semaphore finds a slot (`SlotPromised`); no tile is lost or seen twice (`EveryTileOnce`); a call of get_next_tile returns (`CallsReturn`) |
| `tile_rows` | every image of 1 to 40 lines and every number of levels a wider image may have, tiles of 4 lines | `TilesShowTheirLines`, `TilesFit` |
| `grab`, `saved_order` | the smallest instances that show what section 4 says | violations of `Predictable`, `SameTerrain` |
| `tiles_freed` | 2 compression threads, the code's 5 slots, no failures | violation of `NothingFreedInUse` |

Bounds.  `MaxRequests`, `MaxLoads`, `MaxJoins` and `MaxLeaves` bound what players do; they
are guards of the actions that count, and no other action is restricted.  Two requests by
different players are enough for one to be outdated by the other, in every order of their answers;
an undo stack of one is enough to drop an entry, aggregate into one and redo one.  One load suffices to
meet changes on either side of it.  Two joins of the same player make one return.  `OldSeq` is the number a newcomer kept from an earlier game: 1, more than
the host's at the start and less as the host's number grows.  Each race that an observer marks
does occur in the runs: without the mark TLC finds a counterexample to the properties that mention it.

`table` starts from tables that differ in what is stacked, attached, in the hand and visible, so that
each class of command is executed.  Two messages (`MaxMessages`) are enough for the second one to
find its stacks split or merged, its piece in the hand; undo and
redo are not bounded, and come between them, after them, and before the second.  In `turns` and `grab` a message comes only while at most
`MaxQueue` (9) animations wait, which is more than three messages leave; what it cuts off is a long series of undos and redos with
no frame in it.  `turns` leaves out the messages for which `Predictable` fails (section 4).  Angles have 4 detents instead of 24, one piece starts just below a full
turn, and a player turns by one.

`roster` has three joins of two players, so one of them returns.  Its CONSTRAINT stops where
somebody has hurried (section 4), after which the properties claim nothing.  There are three colours for three
programs, so that a colour must be given again.  Where there is none the model's host stops, as the
program's loop does; in this run that does not happen (`HostFindsColor`).  `video` has 10 pictures for 8 numbers, so that the numbers wrap, on both
links.  `MaxUnacked` is a timing assumption rather than a bound: at most so many pictures are
kept by the encoder, that is, an acknowledgement has arrived within a third of a lap (3 of 8), which is 85
pictures in the code (`Timely` in `VideoProofs`; half a lap is not enough, section 4).

`rotation` has three events in all (`MaxEvents`): three turns of the wheel are enough for one to
be shown while another is requested and a third accepted; two turns and a move for one that is
rejected; the host's program ending with an exception takes just that.  `Turn` of that run is 3 instead of
24 increments, enough to tell a turn back from one forth.

With compression threads the code has 2 * cores + 1 slots, 5 for two cores; `tiles_freed` uses this number, and
`tiles` uses 2 slots, with more tiles than slots, which makes contention worse than in the code.  With no compression thread (`Worker = {}`) the
main thread empties the tile buffer itself; that is modelled, but no run instantiates it.  The
ring of `TileLayer` has Band + 2 lines as in the code (254 + 2); with tiles of 4 lines, 40 lines give
five levels and every remainder at each.

Deadlock is checked in all tile runs.  The others may stop, when the bounds are used up or
everybody has left, and say CHECK_DEADLOCK FALSE.

Fairness.  `FairSpec` of `TableSync` has weak fairness of the server's handling of each
client's packets, of each program's handling of its packets, and of the host's handling of
requests: all of them are loops that poll forever (`RakServer.runEventLoop`,
`Controller.DoEvents`), over channels that lose nothing while connected.  Users are under no
obligation.  `FairSpec` of `TilePipeline` has weak fairness of each thread, except that the
caller may wait any time between two calls of get_next_tile; it needs no strong fairness.
`SharedTable` asks that whoever follows moves on.  The other runs check safety only.

## 4. What does not hold

Three runs expect a violation; each is a disagreement between the code and what a comment of its
own says (quoted in `PROJECT.json`, "findings").

* `grab`: a player who grabs a second stack into his empty hand before the first has flown there loses
  the first: GrabStackCommand.cs:21 decides that the hand is empty, and
  FillPlayerHandAnimation.cs:26 replaces what it holds.
* `saved_order`: Game.cs:476 loads all single pieces of a board before its stacks, which were written in
  one z-order.  Terrain is always single and is named by its z-order in messages, so for a newcomer
  they may name another stack, and his table differs from then on.
* `tiles_freed`: stop_producer wakes waiting threads by releasing as many units as there are slots
  (synchronized_tile_buffer.cpp:97).  Windows refuses to when one unit is left, since that would exceed the maximum;
  then of two compression threads one takes that unit, and the other stays blocked on a buffer that the
  destructor frees ten seconds later.  The compressor starts one thread for each processor core
  (dxt1_compressor.cpp:101).

Two more are stated by properties that hold, which name the failing case and say that it is the only one:

* Terrain dropped in front of its twin, when that is the first piece of a hand, makes every player's program
  throw: RearrangePlayerHandAnimation.cs:14 subtracts one from 0, although DragDropAttachedStackIntoHandCommand.cs:38
  says that this simply moves the piece (`ThrowsOnlyForTwins`, in `table`; add `NeverThrows` to see it).
* When the height of a level is 255, or 255 plus a multiple of 254, the program waits for a row of tiles that the
  loader never outputs, and hangs (`TilesFit`, in `tile_rows`; add `AllTilesLoaded` to see it).

Other races are excepted by the properties themselves, or by a constant of a run, and TLC refutes the
properties without the exception.  In the table synchronisation:

* A ShuffleResult carries the number the host had when he sent it, and sets his number back when
  it returns, forgetting the requests accepted meanwhile (`renumbered`).  With two shuffles, a
  newcomer whose snapshot was taken between the two results stays one number behind and is
  locked out; and a second result, sent after another accepted request, can set the host's number ahead of the
  last one that the others receive, which locks out all of them.
* A program that connects keeps the number of its previous game, and a request it makes before
  the snapshot arrives can be accepted (`synced`).
* While it waits for its snapshot, a program already executes what is broadcast, a request of its
  earlier stay included, on whatever table it kept.  The snapshot then replaces that table.
* A snapshot can carry a number ahead of its table (`suspect`).
* A program that disconnects because a game box is missing executes what is left of the batch on the game it is
  left with, which is not the one these changes were made for, and adds players who join in the rest to its list.
* Two moves made by different players on the same table are both accepted when one of them is
  the host's: his number counts accepted changes, his table executed ones (Message.cs:370).  Add
  `NoCollision` to `rejoin.cfg` to see it.

Of pieces and commands:

* Constructors of commands, and `HandleAccept` before them, read stacks, boards and indices before
  preventConflict ends the animations that are about to change them.  Where messages only turn and flip pieces, show
  boards and add, remove or rearrange hands (`turns`) that is harmless.  Add to `turns.cfg` any class of message that
  moves, unpunches, grabs or removes pieces, and `Predictable` fails, two messages in one batch being enough: what the
  second reads, the first has not done yet.  It fails with Invert and ShuffleResult too, which read the order of a stack
  before they flush what turns it, and with FlipCounterSheet, which finds the board of before an undo.
  `grab` is one case of many.  The interaction states avoid such requests at their
  author's (IsBeingAnimated), but not at the other programs.
* The snapshot for a newcomer is saved without ending the animations first (PlayerWantsToJoinMessage.cs:59), as the
  save commands do: what is still flying to a hand is saved on the board that it left.
* Terrain is found by its z-order when the message is handled, with animations that change z-orders pending: after
  a DragDropTerrain in the same batch, another stack.
* CloneTerrainFromHandCommand copies the side of a piece without ending its pending flip.
* RestoreContext, which shows the board of what is undone, waits in the queue like the others: a message
  handled before it chooses its command by the board that is visible still.

Of players:

* Whoever joins or leaves while a newcomer waits for his ConnectionAccepted, or has just been sent it,
  can be missing from the newcomer's list for good, remain in it as a ghost or be in it twice, and his
  changes in hands are not executed there (`crossed`).
* Somebody who returns before the answer to his previous PlayerWantsToJoin gets two snapshots and greets twice:
  the host lists him twice, in two colours (`hurried`).
* The loop that looks for a colour nobody has (PlayerHasJoinedMessage.cs:47) never ends when all 23 are taken,
  and the server lets 32 clients connect (networking.cpp:35).  Give `roster` two colours, and `HostFindsColor` fails.
* Two instances of one installation that join at the same time both keep the Guid that
  ConnectionAcceptedMessage.cs:139 makes a program give up when it finds it in the list, "to prevent the sharing of a hand"
  (`crossed`).  Add `OwnHands` to `roster.cfg`.
* A Guid that was given up is not restored when the program leaves.

Of video:

* The inbound history is not cleared when numbers begin again (VideoFrameHistory.cs:78): if no
  acknowledgement arrives for more than a third of a lap, a reference is found from the previous lap.  Half
  a lap is too much: the receiver keeps what he has from the reference
  on, so that the end of the previous lap, the reference of the packet on its way and what was sent since can
  meet.  Set `Ids` to 6 in `video.cfg`; with 8, and all other sizes that `Timely` admits, it holds (section 5).
* A sender who leaves and returns: a job of his that outlives the connection is decoded in his new
  history, without its reference, and recipients keep his old pictures under the same id.  Set `SenderReturns` to 1.

Of rotation:

* At the host, the answers to his own rotations overtake the broadcasts.  When he turns the wheel
  again before his first rotation has come back, that acceptance forgets the pieces of the
  second; if the second is rejected, a null reference ends the program (`failed`).
* A rotation is requested a round trip after it was shown, with the number that is current by
  then.  What changed the stack in between does not make the host reject it: other pieces are turned at
  the other players than at its author (`torn`).  Add `SameAngles` to `rotation.cfg`.

Of tiles:

* `AllTilesLoaded` is what `CallsReturn` rests on: `TilePipeline` assumes that the loader makes `TileCount`
  tiles.  It is in no run, since it is false: for an image with a level of 255 lines, or 255 plus a multiple of
  254, a call waits for a tile that never comes.

## 5. What is proved

`TableSyncProofs` proves, for all sets of clients, all kinds of requests, all bounds and all
sizes of the undo stack, from the assumptions `HostAssumption`, `BoundsAssumption` and
`UndoLimitAssumption` alone:

* `TypeCorrect`: `Spec => []TypeOK`.  `TypeOK` is inductive.  One lemma per group of actions
  (`RelayingType`, `PlayingType`, `LeavingType`, `AnsweringType`, `AnsweredType`,
  `ChangingType`), resting on lemmas about the operators: what `Upload`, `Deliver`,
  `SendToOne`, `Hangup` and `Handling` do to the channels, and what `Done`, `Undone` and
  `Redone` do to a history.
* `HostNeverGetsSnapshot` (`HostNeverJoins`, which no run needs to check any more): the invariant says of every packet to the server that
  it is one a client may send, and of every packet to the host that it is one the host may
  get (`HostAside`).  It is inductive with `TypeOK`: a snapshot goes only to the sender of a
  PlayerWantsToJoin, and that message only announces clients other than the host.
* `SessionsStayApart`: `SessionsApart` says what a player who is out has said last, what one who has
  not announced himself can have sent, and what remains when the host has left.  `Apart`, which adds
  that nothing is on its way to who is out (`Gone`), is inductive together with `HostAside`; `RelayedTo`
  and `RelayedFrom` say where a packet in a channel to a client can have come from.  `RestAlone` goes
  through all that a program may do with the rest of its batch: each time it changes its own number and history and
  speaks to itself only, hence `RestApart`, which is all that the other proofs need of it.
* `HostAlwaysLeads` and `AcceptedAlwaysCurrent`: that an accepted request is current is not
  inductive; that the host's number is ahead of every number in the session is.  `NumbersInv`
  says so of the programs, of the packets under way, and of the number in each request
  (`Leading`), as long as no ShuffleResult set the number back.  It needs `Apart`:
  otherwise a number from a player's earlier stay could be ahead.

`TableOrderProofs` proves, under the same assumptions, what needs the order of packets:

* A program's step, whichever handler it is, has one of few shapes: it takes the first packet of its
  channel or none, sends one packet or none, and its own number only becomes that of the packet (`Moves`,
  `Quits`), or it does not concern the session: a program that is out handles the rest of its batch (`Idles`;
  `ProgramShapes`).  The server's step passes a packet on or broadcasts it (`RelayingShapes`).
  The proofs about order use the shapes and never the handlers.
* `NumbersAlwaysGrow`: what a player will see is first what is in his own channel, then what is in the
  host's.  `Ordered` says that the numbers grow along both, start from the player's own, and that none in a
  player's channel exceeds one in the host's.  It holds while no ShuffleResult has set the host's number back.

`TableHistoryProofs` proves, for `HistorySpec`, with a variable `decided` that records the state of the game
after each broadcast (`HistoryHides`: every behaviour is one of `Spec`; the variable is a function of the step, so
it forbids none either):

* `PlayersAgree`: two programs that handled the same broadcasts show the same table, and have the same undo and
  redo stacks if they completely joined.  This cannot be shown by comparing two players.  The invariant `HistInv`
  compares each with the history instead:
  * `Streams`: the channel of each player holds exactly the broadcasts that he has not handled, in order, and each
    takes one decided state to the next (`Numbered`, `Told`); where no state change is on its way, the table is
    already the last (`Quiet`); a snapshot in the channel is the table of the point at which it lies
    (`Saved`).
  * `Sending`: a snapshot that the host has sent and the server not relayed is the last decided table, and no state
    change precedes it.
  * `LoadingApart`: the host changes his own table when he loads a game, before the broadcast that
    announces it.  Until it comes back, nothing else is on its way to change his table, unless it was a race.
  * `InStep`: a program that has handled broadcast k is in the state decided by k.  One that has
    not seen its own PlayerHasJoined has the table, but shorter stacks: `Echoes` says how the
    newcomer's stacks relate to the others'.  They end alike, but the newcomer's oldest entry may be the rest of a
    rotation that began before he came, because rotations are aggregated.  `DoneEchoes`, `UndoneEchoes` and
    `RedoneEchoes` show that the relation is kept, unless an undo reaches below what the newcomer has:
    that is the race which `suspect` marks.
* `ProgramsShareTable`: the programs, server and channels implement the initial states and the steps of
  `SharedTable` (`SharedSafety`).  Every step is mapped to one (`OneMoves`, `MovesShared` for a
  program that handles a packet, `ServerShared` for a broadcast) or to a stutter.

`TableNumbersProofs` relates the numbers to the tables, for sessions in which no ShuffleResult sets the
host's number back:

* A state change has a number that is greater than all that its receiver has seen or will have seen by then, not
  just as great (`Strict`, which strengthens `Ordered`): two changes never share a number.
* `NobodyIsLockedOut`: `Reaches` says that whoever has a smaller number than the host will get the host's, from
  his own channel or the host's; a newcomer too, whether his snapshot is written, sent or relayed.  When the
  channels are empty nothing is left to get, so nobody is behind.
* `OwnChangesApplyToBase`, for `HistorySpec`.  Neither the player's table nor the request says what the host had
  when he accepted it.  The invariant `TaleInv` says that there is a function `T` from numbers to tables which agrees
  with all that is known of numbers (`Tells`): a player with number n shows `T[n]`, a clean snapshot with number
  n carries `T[n]`, a request made with n was made on `T[n]`, a state change with n leads to `T[n]`, and the last
  decided table is `T[n]` when the host's number is n and he has nothing more to send.  The function changes in one step only,
  when the server broadcasts a state change: its number is new to all of them (`ChangeIsNew`), so it can stand for the
  new table.  `Recent` says that the author of a request has its number or a greater one, when he left and came
  back too.  An accepted request has the next number (`AcceptedIsCurrent`), and by `Strict` its author has a smaller
  one than that when it reaches him: so he has the one that he asked with, and shows the table he asked on.

`TableSyncProofs` also proves, for stacks of any depth, what `rejoin` checks with a stack of one:

* `UndoIsAlwaysLatest`.  The property is inductive as it stands, because it says where in the table each entry's
  changes lie (`CutAt`): a new entry extends the cuts (`EndsWithMore`), an undo, and a rotation that joins the
  last entry, shorten them (`EndsWithLess`), and forgetting the oldest entry shifts them (`EndsWithYounger`).
  `Manages` says what a step can do to a program's stacks; the rest is one lemma for each operation.
* `RedoAlwaysRestores` follows: an undo cuts off what redo appends again, whatever the stacks hold.

`TilePipelineProofs` proves, for any number of compression threads, slots and tiles, from
`PipelineAssumption` alone (which says that there are finitely many threads, as in the code, where
there is one per core):

* `SlotsAreExclusive` and `SlotIsPromised`.  The difficulty is that a semaphore and the state of a slot
  change in different steps: a thread takes a unit of the semaphore, and finds its slot later, in a
  critical section of its own; it marks the slot full, and releases the other semaphore later still.  The
  inductive invariant `IInv` counts both sides.  `Promised` says that the free slots are the units of the
  producers' semaphore and the threads between taking a unit and taking a slot, and the like for
  the full ones.  It must hold only until the buffer is stopped, because stop_producer and stop_consumer release
  units for slots that are not there; from then on `Stopping` says that who comes past a semaphore leaves.
  `Programs`, `Holding` and `Loading` say where each thread's program counter and the slot it remembers
  can be, and `SlotsExclusive` is a conjunct of it.
* `EveryTileIsSomewhereOnce`: with it, each tile that was loaded is in exactly one place: in a
  slot, in a thread's hands, or returned to the caller.

`RotationProofs` proves, for any number of players, pieces and events (of `MaxEvents` only that it is a number) and
any number of increments in a turn, four theorems about the mouse wheel.

* `TypeCorrect`: what is in a queue is what its sender may send to its receiver (`FromClient`, `ToClient`,
  `ToItself`); turns of the wheel are counted for some pieces only (`WheelOK`).
* `WheelIsAlwaysFree`, `PlayersTakeBackOwn`, `OneRoundTripAlways`.  None of the three properties is inductive: each
  speaks of a moment (everything handled, a rejection about to be handled) or counts packets, and what makes
  it true is what is on its way between such moments.  The packets that matter to one program are its marks: `Tokens`
  are its BeginRotation and the answer, `Rotations` what it has requested and the acceptance or
  rejection on its way back.  The invariant `RotationInv` says of each program that it has one token at most, and one
  exactly while it waits; that who rotates pieces has a token or a rotation; and, of a player who joined, that he
  has one rotation at most (`Sole`), that it is ahead of his token on the way to the host and back (`InOrder`: the four
  queues of that way have a `Rank`), and that it is one of the pieces he still rotates (`ShownIs`).
  Being ahead matters: when a ContinueRotation is handled and the next
  rotation requested, the answer to the one before has been handled already.
  At the host the order fails, because answers to himself overtake broadcasts (section 4), so that the second theorem is
  about the players who joined, as the property is.
  The proof speaks of queues in general first (`Flow`: some queues lose their first packet, others get one more;
  `Origin`: every mark was there before or lands now), then of what a step means to one program: its packets stay
  (`ClientQuiet`), one moves on (`ClientMoves`), its rotation is heard of (`ClientHears`), its round trip begins
  or ends (`ClientBegins`, `ClientContinues`).  Every action is one of these for each program.

`SettledAngles` stays with TLC: it compares what two programs have shown, so that its invariant must relate
each angle to the sum of what is on its way to every other program.

`VideoProofs` proves, for any size of the numbers and of the histories, any number of pictures and jobs, and whatever
is lost, overtaken or acknowledged late, all three properties of `video`.  There are two hypotheses, both of which the
run meets and TLC refutes the properties without: `Timely` (3 * `MaxUnacked` is at most `Ids` + 1) and `SenderStays`
(section 4); the recipient may leave and return as often as he likes.

* A number does not say which lap it is of, and no history says which picture begins the lap.  The invariant of one
  link (`LinkOK`) says that there is a picture `c` with which the sender's lap began, and orders all that the two ends and
  the channel hold by pictures, not by numbers.  The sender's history is consecutive and of this lap (`HistoryOK`); a frame of
  the lap before, received or on its way, has a number of that lap's last 2 * `MaxUnacked` (`FramesOK`); the receiver
  has frames of the lap before only together with the first `MaxUnacked` of this one (`ReceivedOK`); what a packet
  refers to is in the receiver's history, before the frames whose acknowledgements are on their way, so that no
  other packet makes him forget it (`WayOK`); and the acknowledgements on their way are of the last frames he
  received, in order (`AcksOK`).
* `NumbersDiffer` is where `Timely` is needed: no two frames that a receiver has, or is about to get, share a number.  So he
  finds the right reference (`DecodesRight`), and an acknowledgement of the lap before names nothing the sender has
  (`Acknowledged`).  `LapEnds` says that when the numbers begin again, all that is left is of the end of the lap.
* `LinkSends`, `LinkReceives` and `LinkHears` are the steps of a link for any history, used for both links.
* `PicturesSeenAsSent` and `ReferencesKept` follow.  `PicturesOnlyAdvance` needs the order of the pictures through both
  links and the server's two lists of jobs (`UpOrder`, `JobsOrder`, `DownOrder`): each place holds pictures later than
  all places after it.

`RosterProofs` proves, for any programs, Guids and colours and without bounds on what players do, from `HostAssumption` and
`PlayersAssumption` (the colours differ, and nobody has the id of a program that is not connected), that the host's list is right whoever comes, leaves and comes back, unless somebody hurries (section 4).  Nothing in the handlers looks for
a player who is there already: it is the order of the messages that keeps him from being added again.

* `RosterKeepsInvariant`: of each player other than the host, what is on its way is his request to join, the host's
  answer, his greeting before it is relayed (together a `Token`: there is one at most), the relayed greeting, the news that he
  left, and the news of his colour.  `ClientOK` says in which order they come in the four channels.  When a greeting reaches
  the host, or when one may still be sent, the host does not list him, or will have heard that he left by then (`Absent`);
  a greeting is the last thing in the host's channel about his stay (`GreetingLast`);
  the news of his colour are ahead of the answer to his next request (`ColorsFirst`), so that they never reach a later stay,
  and are true (`ColorsTrue`), so that when the host himself hears them they change nothing.
* The lemmas `Requested`, `Answered`, `Delivered`, `Welcomed`, `Greeted`, `Enlisted`, `ColorRelayed`, `Parted` and
  `Dismissed` follow one player through a stay, in terms of the four channels only.  `ClientKept` says that a step which takes
  packets away, adds none of his, and strikes no news that he left, keeps his part of the invariant; `StepKeeps`
  applies it to everybody whom a step is not about.
* After the host has hung up nothing reaches him any more (`HostOut`), and his list stays as it is.
* `HostListsDiffer` follows, and so does `HostAlwaysFindsColor`: who greets is not listed, so fewer players are
  listed than there are programs, and one of as many colours (`EnoughColors`) is left.

The lists of the other players stay with TLC: a newcomer builds his with a fold over the list he is sent, which needs induction.

Only model-checked: everything about pieces and the tile layers; the lists of players other than the host, and
their hands; of rotation the angles (`SettledAngles`); and all liveness (`RequestsAnswered`, `CallsReturn`, the fairness of `SharedTable` in
`ImplementsSharedTable`), which is out of the prover's reach.

## 6. Plan

Done: the table synchronisation with proofs, `SharedTable` and its refinement, tiles, rotation (first);
pieces with all their commands, animations and messages, players, video (second); proofs about the tile
buffers, the order of numbers, agreement, the refinement of `SharedTable`, what numbers say of tables, undo,
rotation, video and the host's list of players (third and fourth).

What is left, in this order:

1. Proofs: that the operators of `Table` conserve pieces; `PlayersDiffer` of the other players' lists.
2. Rotation in a session: joining and leaving while pieces are being rotated.
3. Returning senders and several recipients of video; the exchange between host and server on one machine.

## 7. Not modelled

* Rendering, dialogs, menus, sound, capture of pictures and voice, the video codec, texel compression,
  image decoders: geometry, numeric kernels and calls of libraries.
* Game boxes, the game library, archives, and of saved games the XML, the older format, digits and the settings of boards:
  input and output of files.  In `TableSync` a snapshot is the host's table, with what animations have not done yet left out.
* Requests that set one field (mode, stacking, owner of a board, names), chat, cursors, what a player is
  dragging: no other state depends on them but what a player may ask for next.
* Bounding boxes, several counter sheets, single-sided pieces, supplies and templates other than terrain.
* The quality of random numbers; a shuffle is any permutation.
* RakNet, zlib, libpng, libjpeg, mmzzip: third-party code, of which only the channels of RakNet
  are modelled, as the program uses them.
