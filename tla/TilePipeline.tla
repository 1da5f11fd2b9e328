---------------------------- MODULE TilePipeline ----------------------------
(***************************************************************************)
(* How an image is loaded (dxt1_compressor, dxt5_compressor and the tile   *)
(* layers): the loader thread reads the image and puts its tiles into the  *)
(* tile buffer, compression threads, one per processor core, take them,    *)
(* compress them and put the textures into the texture buffer, and the     *)
(* main thread takes the textures one call of get_next_tile at a time.     *)
(* When it has them all, or gets an error, or its caller loses interest,   *)
(* it destroys the compressor: it tells both buffers to stop, waits for    *)
(* the other threads for ten seconds, and frees the buffers.               *)
(*                                                                         *)
(* Where the number of cores is unknown there is no compression thread:    *)
(* then Worker = {} and the main thread takes the tiles itself.            *)
(***************************************************************************)
EXTENDS TileBuffer, Sequences, FiniteSets

CONSTANTS
  Worker,     \* the compression threads
  TileCount,  \* the number of tiles of the image, all mipmap levels included
  CanFail     \* may the image turn out to be corrupt?

Loader == "loader"
Main == "main"
Thread == Worker \cup {Loader, Main}

ASSUME PipelineAssumption ==
  /\ Buffer = {"tile", "texture"}
  /\ IsFiniteSet(Worker) /\ Loader \notin Worker /\ Main \notin Worker
  /\ TileCount \in Nat \ {0}
  /\ CanFail \in BOOLEAN

VARIABLES
  pc,      \* what each thread does next
  writes,  \* the slot it has allocated for writing
  reads,   \* the slot it has allocated for reading
  loaded,  \* how many tiles the loader has put into the tile buffer
  got      \* the tiles that the main thread has received

vars == <<bufferVars, pc, writes, reads, loaded, got>>

\* The buffer that a thread fills, and the one that it empties.
Target(t) == IF t = Loader THEN "tile" ELSE "texture"
Source(t) == IF t = Main /\ Worker # {} THEN "texture" ELSE "tile"

Init ==
  /\ BufferInit
  /\ pc = [t \in Thread |-> CASE t = Main -> "idle" [] t = Loader -> "read" [] OTHER -> "wait_empty"]
  /\ writes = [t \in Thread |-> 0]
  /\ reads = [t \in Thread |-> 0]
  /\ loaded = 0
  /\ got = <<>>

\* Thread t, whose memory has not been freed, goes on from here to there.
Goes(t, here, there) ==
  /\ pc[t] = here
  /\ pc[Main] # "deleted"
  /\ pc' = [pc EXCEPT ![t] = there]

-----------------------------------------------------------------------------
(* Producing, in the loader and the compression threads.                   *)

\* The loader reads as many lines of the image as the next tile needs.
ReadLines ==
  /\ Goes(Loader, "read", "wait_empty")
  /\ UNCHANGED <<bufferVars, writes, reads, loaded, got>>

\* allocate_write_slot: wait for an empty slot ...
WaitEmpty(t) ==
  /\ Goes(t, "wait_empty", "claim_empty")
  /\ TakeEmpty(Target(t))
  /\ UNCHANGED <<full, stop, error, state, tile, writes, reads, loaded, got>>

\* ... and take it, or leave the thread's loop.
ClaimEmpty(t) ==
  /\ \/ /\ Goes(t, "claim_empty", IF t = Loader THEN "yield" ELSE "wait_full")
        /\ \E i \in Slot : /\ ClaimForWriting(Target(t), i)
                           /\ writes' = [writes EXCEPT ![t] = i]
     \/ /\ Goes(t, "claim_empty", "done")
        /\ CannotWrite(Target(t))
        /\ UNCHANGED <<state, writes>>
  /\ UNCHANGED <<full, empty, stop, error, tile, reads, loaded, got>>

\* Fill the slot; free_write_slot.  The loader fills it with the next tile, a
\* compression thread with the one it read.
YieldTile ==
  /\ Goes(Loader, "yield", "signal_full")
  /\ Yield("tile", writes[Loader], loaded + 1)
  /\ loaded' = loaded + 1
  /\ writes' = [writes EXCEPT ![Loader] = 0]
  /\ UNCHANGED <<full, empty, stop, error, reads, got>>

YieldTexture(w) ==
  /\ Goes(w, "yield", "signal_full")
  /\ Yield("texture", writes[w], tile["texture"][writes[w]])
  /\ writes' = [writes EXCEPT ![w] = 0]
  /\ UNCHANGED <<full, empty, stop, error, reads, loaded, got>>

\* The loader is done after the last tile.
\* Fault: it goes on for one tile more.
SignalFullOnceMore(t) ==
  /\ Goes(t, "signal_full", IF t # Loader THEN "wait_empty"
                           ELSE IF loaded <= TileCount THEN "read" ELSE "done")
  /\ AddFull(Target(t), 1)
  /\ UNCHANGED <<empty, stop, error, state, tile, writes, reads, loaded, got>>

SignalFull(t) ==
  /\ Goes(t, "signal_full", IF t # Loader THEN "wait_empty"
                           ELSE IF loaded < TileCount THEN "read" ELSE "done")
  /\ AddFull(Target(t), 1)
  /\ UNCHANGED <<empty, stop, error, state, tile, writes, reads, loaded, got>>

-----------------------------------------------------------------------------
(* Consuming, in the compression threads and the main thread.              *)

\* The caller of get_next_tile wants one more tile, of the TileCount that it reckons
\* the image has.  Assumed: the loader puts in as many (SignalFull, LoadIncrementally).
\* TileLayer's AllTilesLoaded is about the heights for which it puts in fewer.
GetNextTile ==
  /\ Goes(Main, "idle", "wait_full")
  /\ Len(got) < TileCount
  /\ UNCHANGED <<bufferVars, writes, reads, loaded, got>>

\* allocate_read_slot: wait for a full slot ...
WaitFull(t) ==
  /\ Goes(t, "wait_full", "claim_full")
  /\ TakeFull(Source(t))
  /\ UNCHANGED <<empty, stop, error, state, tile, writes, reads, loaded, got>>

\* ... and take it, or give up on an error.
ClaimFull(t) ==
  /\ \/ /\ Goes(t, "claim_full", "copy")
        /\ \E i \in Slot : /\ ClaimForReading(Source(t), i)
                           /\ reads' = [reads EXCEPT ![t] = i]
     \/ /\ Goes(t, "claim_full", IF t = Main THEN "stop_tile" ELSE "stop_consumer")
        /\ error[Source(t)]
        /\ UNCHANGED <<state, reads>>
  /\ UNCHANGED <<full, empty, stop, error, tile, writes, loaded, got>>

\* Compress the tile into the slot allocated for writing, or hand it over.
Compress(w) ==
  /\ Goes(w, "copy", "free")
  /\ tile' = [tile EXCEPT !["texture"][writes[w]] = tile["tile"][reads[w]]]
  /\ UNCHANGED <<full, empty, stop, error, state, writes, reads, loaded, got>>

Receive ==
  /\ Goes(Main, "copy", "free")
  /\ got' = Append(got, tile[Source(Main)][reads[Main]])
  /\ UNCHANGED <<bufferVars, writes, reads, loaded>>

\* free_read_slot
FreeRead(t) ==
  /\ Goes(t, "free", "signal_empty")
  /\ FreeSlot(Source(t), reads[t])
  /\ reads' = [reads EXCEPT ![t] = 0]
  /\ UNCHANGED <<full, empty, stop, error, tile, writes, loaded, got>>

SignalEmpty(t) ==
  /\ Goes(t, "signal_empty", IF t = Main THEN "idle" ELSE "yield")
  /\ AddEmpty(Source(t), 1)
  /\ UNCHANGED <<full, stop, error, state, tile, writes, reads, loaded, got>>

-----------------------------------------------------------------------------
(* Stopping.                                                               *)

\* The image reader fails before the next tile is complete.
Fail ==
  /\ CanFail
  /\ Goes(Loader, "read", "stop_consumer")
  /\ UNCHANGED <<bufferVars, writes, reads, loaded, got>>

\* stop_consumer, called by the loader and by the compression threads.
StopConsumer(t) ==
  /\ Goes(t, "stop_consumer", "signal_stop")
  /\ SetError(Target(t))
  /\ UNCHANGED <<full, empty, stop, state, tile, writes, reads, loaded, got>>

\* Fault: nobody is woken.
SignalStopSilently(t) ==
  /\ Goes(t, "signal_stop", "done")
  /\ UNCHANGED <<bufferVars, writes, reads, loaded, got>>

SignalStop(t) ==
  /\ Goes(t, "signal_stop", "done")
  /\ AddFull(Target(t), SlotCount)
  /\ UNCHANGED <<empty, stop, error, state, tile, writes, reads, loaded, got>>

\* The destructor is called, early or when all tiles have been received.
Destroy ==
  /\ Goes(Main, "idle", "stop_tile")
  /\ UNCHANGED <<bufferVars, writes, reads, loaded, got>>

\* stop_producer, called for one buffer, then for the other.
StopProducer(b) ==
  /\ \/ b = "tile" /\ Goes(Main, "stop_tile", "wake_tile_writers")
     \/ b = "texture" /\ Goes(Main, "stop_texture", "wake_texture_writers")
  /\ SetStop(b)
  /\ UNCHANGED <<full, empty, state, tile, writes, reads, loaded, got>>

WakeWriters(b) ==
  /\ \/ b = "tile" /\ Goes(Main, "wake_tile_writers", "wake_tile_readers")
     \/ b = "texture" /\ Goes(Main, "wake_texture_writers", "wake_texture_readers")
  /\ AddEmpty(b, SlotCount)
  /\ UNCHANGED <<full, stop, error, state, tile, writes, reads, loaded, got>>

WakeReaders(b) ==
  /\ \/ b = "tile" /\ Goes(Main, "wake_tile_readers",
                           IF Worker = {} THEN "join" ELSE "stop_texture")
     \/ b = "texture" /\ Goes(Main, "wake_texture_readers", "join")
  /\ AddFull(b, SlotCount)
  /\ UNCHANGED <<empty, stop, error, state, tile, writes, reads, loaded, got>>

Blocked(t) ==
  \/ pc[t] = "wait_empty" /\ empty[Target(t)] = 0
  \/ pc[t] = "wait_full" /\ full[Source(t)] = 0

\* WaitForMultipleObjects returns when the other threads are done, or after ten
\* seconds: every thread that can go on has done so by then.
Delete ==
  /\ Goes(Main, "join", "deleted")
  /\ \A t \in Thread \ {Main} : pc[t] = "done" \/ Blocked(t)
  /\ UNCHANGED <<bufferVars, writes, reads, loaded, got>>

-----------------------------------------------------------------------------

LoaderStep ==
  \/ ReadLines \/ WaitEmpty(Loader) \/ ClaimEmpty(Loader) \/ YieldTile \/ SignalFull(Loader)
  \/ Fail \/ StopConsumer(Loader) \/ SignalStop(Loader)

WorkerStep(w) ==
  \/ WaitEmpty(w) \/ ClaimEmpty(w) \/ YieldTexture(w) \/ SignalFull(w)
  \/ WaitFull(w) \/ ClaimFull(w) \/ Compress(w) \/ FreeRead(w) \/ SignalEmpty(w)
  \/ StopConsumer(w) \/ SignalStop(w)

MainStep ==
  \/ GetNextTile \/ WaitFull(Main) \/ ClaimFull(Main) \/ Receive \/ FreeRead(Main)
  \/ SignalEmpty(Main) \/ Destroy
  \/ \E b \in Buffer : StopProducer(b) \/ WakeWriters(b) \/ WakeReaders(b)
  \/ Delete

\* The compressor is gone, the program goes on.
Finished == pc[Main] = "deleted" /\ UNCHANGED vars

Next == LoaderStep \/ (\E w \in Worker : WorkerStep(w)) \/ MainStep \/ Finished

Spec == Init /\ [][Next]_vars

\* Every thread is scheduled; the caller may take any time between two calls.
FairSpec ==
  /\ Spec
  /\ WF_vars(LoaderStep)
  /\ \A w \in Worker : WF_vars(WorkerStep(w))
  /\ WF_vars(MainStep /\ pc[Main] # "idle")

-----------------------------------------------------------------------------
(* Properties.                                                             *)

Counters == {"read", "wait_empty", "claim_empty", "yield", "signal_full", "idle", "wait_full",
             "claim_full", "copy", "free", "signal_empty", "stop_consumer", "signal_stop",
             "done", "stop_tile", "wake_tile_writers", "wake_tile_readers", "stop_texture",
             "wake_texture_writers", "wake_texture_readers", "join", "deleted"}

\* The type invariant.
TypeOK ==
  /\ full \in [Buffer -> 0 .. SlotCount] /\ empty \in [Buffer -> 0 .. SlotCount]
  /\ stop \in [Buffer -> BOOLEAN] /\ error \in [Buffer -> BOOLEAN]
  /\ state \in [Buffer -> [Slot -> SlotStates]]
  /\ tile \in [Buffer -> [Slot -> 0 .. TileCount]]
  /\ pc \in [Thread -> Counters]
  /\ writes \in [Thread -> 0 .. SlotCount] /\ reads \in [Thread -> 0 .. SlotCount]
  /\ loaded \in 0 .. TileCount
  /\ got \in Seq(0 .. TileCount)

\* A slot is in use by one thread at most, which either fills or empties it, although
\* threads fill and empty slots outside of the critical section.
\* (slot_states, allocate_write_slot and allocate_read_slot)
SlotsExclusive ==
  \A t \in Thread :
    /\ writes[t] # 0 =>
         /\ state[Target(t)][writes[t]] = "writing"
         /\ \A u \in Thread \ {t} : Target(u) = Target(t) => writes[u] # writes[t]
    /\ reads[t] # 0 =>
         /\ state[Source(t)][reads[t]] = "reading"
         /\ \A u \in Thread \ {t} : Source(u) = Source(t) => reads[u] # reads[t]

\* A thread that got past a semaphore will find the slot it was promised, unless it
\* is told to stop: allocate_read_slot never returns without having set the index.
SlotPromised ==
  \A b \in Buffer :
    /\ ~error[b] => full[b] + Cardinality({t \in Thread : pc[t] = "claim_full" /\ Source(t) = b})
                      <= Cardinality(InState(b, "ready_for_reading"))
    /\ ~stop[b] => empty[b] + Cardinality({t \in Thread : pc[t] = "claim_empty" /\ Target(t) = b})
                     <= Cardinality(InState(b, "ready_for_writing"))

\* Does slot i of b hold a tile that is on its way?
OnItsWay(b, i) ==
  \/ state[b][i] = "ready_for_reading"
  \/ state[b][i] = "reading" /\ \E t \in Thread : Source(t) = b /\ reads[t] = i /\ pc[t] = "copy"
  \/ state[b][i] = "writing" /\ \E w \in Worker : Target(w) = b /\ writes[w] = i
       /\ pc[w] \in {"free", "signal_empty", "yield"}

\* Where the tile n is: in a slot, between two buffers, or received.
Places(n) ==
  {slot \in Buffer \X Slot : tile[slot[1]][slot[2]] = n /\ OnItsWay(slot[1], slot[2])}
  \cup {<<"got", k>> : k \in {k \in DOMAIN got : got[k] = n}}

\* No tile of the image is lost or received twice, whatever the order in which the
\* compression threads work.
EveryTileOnce == \A n \in 1 .. loaded : Cardinality(Places(n)) = 1

\* A call of get_next_tile returns, where the loader makes all the tiles that are asked for.
CallsReturn == pc[Main] = "wait_full" ~> pc[Main] \in {"copy", "stop_tile"}

\* When the compressor and its buffers are freed, every thread has left its loop: the
\* comment where it does says that "consumer loop has issued a stop producer loop
\* command".  (dxt1_compressor.cpp:65; synchronized_tile_buffer::stop_producer)
NothingFreedInUse == pc[Main] = "deleted" => \A t \in Thread \ {Main} : pc[t] = "done"
=============================================================================
