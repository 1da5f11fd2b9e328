------------------------- MODULE TilePipelineProofs -------------------------
(***************************************************************************)
(* Theorems about TilePipeline, for any number of compression threads,     *)
(* slots and tiles.                                                        *)
(*                                                                         *)
(* Most of what goes right in the buffers goes right because semaphores    *)
(* and slot states agree, although they change in different steps: a slot  *)
(* that is full but not signalled yet, or signalled and promised to a      *)
(* thread that has not claimed it, is counted by Promised.                 *)
(***************************************************************************)
EXTENDS TilePipeline, TLAPS, FiniteSetTheorems, SequenceTheorems

-----------------------------------------------------------------------------
(* The inductive invariant.                                                *)

LoaderCounters == {"read", "wait_empty", "claim_empty", "yield", "signal_full", "stop_consumer",
                   "signal_stop", "done"}
Compressing == {"copy", "free", "signal_empty", "yield"}
WorkerCounters == Compressing \cup
  {"wait_empty", "claim_empty", "wait_full", "claim_full", "signal_full", "stop_consumer",
   "signal_stop", "done"}
StoppingTile == {"wake_tile_writers", "wake_tile_readers"}
StoppingTexture == {"wake_texture_writers", "wake_texture_readers"}
MainCounters == StoppingTile \cup StoppingTexture \cup
  {"idle", "wait_full", "claim_full", "copy", "free", "signal_empty", "stop_tile", "stop_texture",
   "join", "deleted"}

\* Each thread runs its own program.
Programs ==
  /\ pc[Loader] \in LoaderCounters
  /\ \A w \in Worker : pc[w] \in WorkerCounters
  /\ pc[Main] \in MainCounters

\* Who fills or empties a slot has one.
Holding ==
  /\ pc[Loader] = "yield" => writes[Loader] # 0
  /\ \A w \in Worker : pc[w] \in Compressing \cup {"wait_full", "claim_full"} => writes[w] # 0
  /\ \A t \in Thread : pc[t] \in {"copy", "free"} => reads[t] # 0
  /\ writes[Main] = 0 /\ reads[Loader] = 0

\* The loader stops at the last tile; what is in the slots was loaded.
Loading ==
  /\ pc[Loader] \in {"read", "wait_empty", "claim_empty", "yield"} => loaded < TileCount
  /\ tile \in [Buffer -> [Slot -> 0 .. loaded]]
  /\ got \in Seq(0 .. loaded)

\* Nobody is woken for nothing before there is an error, or no need for slots.
Stopping ==
  /\ \A b \in Buffer : stop[b] => error[b]
  /\ \A t \in Thread : pc[t] = "signal_stop" => error[Target(t)]
  /\ pc[Main] \in StoppingTile => stop["tile"]
  /\ pc[Main] \in StoppingTexture => stop["texture"]

\* The threads that are at one place of the code, with the buffer they empty or fill.
Readers(f, b, s) == {t \in Thread : f[t] = s /\ Source(t) = b}
Writers(f, b, s) == {t \in Thread : f[t] = s /\ Target(t) = b}
Slots(h, s) == {i \in Slot : h[i] = s}

\* Each slot that a semaphore counts, or has counted, or is about to count, is there.
FullPromised(b) ==
  full[b] + Cardinality(Readers(pc, b, "claim_full")) + Cardinality(Writers(pc, b, "signal_full"))
    <= Cardinality(Slots(state[b], "ready_for_reading"))
EmptyPromised(b) ==
  empty[b] + Cardinality(Writers(pc, b, "claim_empty")) + Cardinality(Readers(pc, b, "signal_empty"))
    <= Cardinality(Slots(state[b], "ready_for_writing"))
Promised ==
  \A b \in Buffer : /\ ~error[b] => FullPromised(b)
                    /\ ~stop[b] => EmptyPromised(b)

IInv == TypeOK /\ Programs /\ Holding /\ Loading /\ Stopping /\ Promised /\ SlotsExclusive
-----------------------------------------------------------------------------
(* Operators.                                                              *)

\* The smallest element of a set of numbers exists, so the search of a slot finds one.
LEMMA SmallestElement ==
  ASSUME NEW T, T \subseteq Nat, T # {}
  PROVE  \E i \in T : \A j \in T : i <= j
<1> DEFINE R == OpToRel(<, Nat)
<1>1. IsWellFoundedOn(R, Nat)
  BY NatLessThanWellFounded
<1>2. \A x, y \in Nat : x < y => <<x, y>> \in R
  BY DEF OpToRel
<1> HIDE DEF R
<1>3. PICK i \in T : \A j \in T : ~ (<<j, i>> \in R)
  BY <1>1, WFMin
<1>4. ASSUME NEW j \in T PROVE i <= j
  <2>1. i \in Nat /\ j \in Nat
    OBVIOUS
  <2>2. ~ (j < i)
    BY <2>1, <1>2, <1>3
  <2> QED
    BY <2>1, <2>2
<1> QED
  BY <1>4

\* The search finds a slot in the state it looks for, if there is one.
LEMMA FirstFound ==
  ASSUME NEW b, NEW s, InState(b, s) # {}
  PROVE  FirstIn(b, s) \in Slot /\ state[b][FirstIn(b, s)] = s
<1>1. InState(b, s) \subseteq Nat
  BY SlotAssumption DEF InState, Slot
<1>2. FirstIn(b, s) \in InState(b, s)
  BY <1>1, SmallestElement DEF FirstIn
<1> QED
  BY <1>2 DEF InState

\* ReleaseSemaphore takes nothing away.
LEMMA ReleasedBounds ==
  ASSUME NEW n \in 0 .. SlotCount, NEW k \in Nat
  PROVE  Released(n, k) \in 0 .. SlotCount /\ Released(n, k) >= n /\ Released(n, k) <= n + k
BY SlotAssumption DEF Released

\* The threads are different, and finitely many.
LEMMA ThreadNames ==
  /\ Loader \in Thread /\ Main \in Thread /\ Loader # Main
  /\ \A w \in Worker : w \in Thread /\ w # Loader /\ w # Main
  /\ IsFiniteSet(Thread)
<1>1. IsFiniteSet({Loader} \cup {Main})
  BY FS_Singleton, FS_Union
<1>2. {Loader} \cup {Main} = {Loader, Main}
  OBVIOUS
<1>3. IsFiniteSet(Thread)
  BY <1>1, <1>2, FS_Union, PipelineAssumption DEF Thread
<1> QED
  BY <1>3, PipelineAssumption DEF Thread, Loader, Main

\* Who fills and who empties which buffer.
LEMMA BufferNames ==
  /\ \A t : Target(t) \in Buffer /\ Source(t) \in Buffer
  /\ Target(Loader) = "tile" /\ \A w \in Worker : Target(w) = "texture" /\ Source(w) = "tile"
  /\ "tile" \in Buffer /\ "texture" \in Buffer
BY ThreadNames, PipelineAssumption DEF Target, Source

\* What a step of one thread leaves alone.
LEMMA GoesOn ==
  ASSUME pc \in [Thread -> Counters], NEW t \in Thread, NEW here, NEW there \in Counters,
         Goes(t, here, there)
  PROVE  /\ pc' \in [Thread -> Counters] /\ pc' = [pc EXCEPT ![t] = there]
         /\ pc[t] = here /\ pc'[t] = there
         /\ \A u \in Thread \ {t} : pc'[u] = pc[u]
BY DEF Goes

-----------------------------------------------------------------------------
(* Types.                                                                  *)

\* A semaphore stays between zero and its maximum.
LEMMA SemaphoreType ==
  ASSUME TypeOK, NEW b \in Buffer, NEW n \in Nat
  PROVE  /\ TakeEmpty(b) => empty' \in [Buffer -> 0 .. SlotCount]
         /\ TakeFull(b) => full' \in [Buffer -> 0 .. SlotCount]
         /\ AddEmpty(b, n) => empty' \in [Buffer -> 0 .. SlotCount]
         /\ AddFull(b, n) => full' \in [Buffer -> 0 .. SlotCount]
<1>1. empty[b] \in 0 .. SlotCount /\ full[b] \in 0 .. SlotCount
  BY DEF TypeOK
<1>2. Released(empty[b], n) \in 0 .. SlotCount /\ Released(full[b], n) \in 0 .. SlotCount
  BY <1>1, ReleasedBounds
<1>3. empty[b] > 0 => empty[b] - 1 \in 0 .. SlotCount
  BY <1>1, SlotAssumption
<1>4. full[b] > 0 => full[b] - 1 \in 0 .. SlotCount
  BY <1>1, SlotAssumption
<1> QED
  BY <1>2, <1>3, <1>4 DEF TypeOK, TakeEmpty, TakeFull, AddEmpty, AddFull

\* What writing into a slot does to a table of slots.
LEMMA SlotType ==
  ASSUME NEW S, NEW f \in [Buffer -> [Slot -> S]], NEW b \in Buffer, NEW i \in Slot, NEW e \in S
  PROVE  /\ [f EXCEPT ![b][i] = e] \in [Buffer -> [Slot -> S]]
         /\ [f EXCEPT ![b][i] = e][b][i] = e
         /\ \A c \in Buffer, j \in Slot :
              (c # b \/ j # i) => [f EXCEPT ![b][i] = e][c][j] = f[c][j]
OBVIOUS

\* Zero stands for no slot.
LEMMA SlotNotNull == \A i \in Slot : i # 0
BY SlotAssumption DEF Slot

\* The states by name.
LEMMA SlotStateNames ==
  "ready_for_writing" \in SlotStates /\ "writing" \in SlotStates
  /\ "ready_for_reading" \in SlotStates /\ "reading" \in SlotStates
BY DEF SlotStates

\* The slots that threads hold.
LEMMA HeldType ==
  ASSUME TypeOK
  PROVE  /\ \A t \in Thread : writes[t] # 0 => writes[t] \in Slot
         /\ \A t \in Thread : reads[t] # 0 => reads[t] \in Slot
         /\ \A t \in Thread, i \in Slot : [writes EXCEPT ![t] = i] \in [Thread -> 0 .. SlotCount]
         /\ \A t \in Thread, i \in Slot : [reads EXCEPT ![t] = i] \in [Thread -> 0 .. SlotCount]
         /\ \A t \in Thread : [writes EXCEPT ![t] = 0] \in [Thread -> 0 .. SlotCount]
         /\ \A t \in Thread : [reads EXCEPT ![t] = 0] \in [Thread -> 0 .. SlotCount]
<1>1. writes \in [Thread -> 0 .. SlotCount] /\ reads \in [Thread -> 0 .. SlotCount]
  BY DEF TypeOK
<1>2. Slot \subseteq 0 .. SlotCount /\ 0 \in 0 .. SlotCount
  BY SlotAssumption DEF Slot
<1>3. \A n \in 0 .. SlotCount : n # 0 => n \in Slot
  BY SlotAssumption DEF Slot
<1> QED
  BY <1>1, <1>2, <1>3

\* What a thread is about to write to or has read from is a slot.
LEMMA Held ==
  ASSUME TypeOK, Holding
  PROVE  /\ pc[Loader] = "yield" => writes[Loader] \in Slot
         /\ \A w \in Worker : pc[w] \in Compressing \cup {"wait_full", "claim_full"} => writes[w] \in Slot
         /\ \A t \in Thread : pc[t] \in {"copy", "free"} => reads[t] \in Slot
BY HeldType, ThreadNames DEF Holding

\* Each action changes a few variables, and each of them to a value of its type.
LEMMA TypeStep ==
  ASSUME IInv, [Next]_vars
  PROVE  TypeOK'
<1> USE ThreadNames, BufferNames DEF bufferVars
<1>0. TypeOK /\ Holding /\ Loading
  BY DEF IInv
<1>1. ASSUME ReadLines PROVE TypeOK'
  BY <1>1, <1>0 DEF ReadLines, Goes, TypeOK, Counters
<1>2. ASSUME NEW t \in Worker \cup {Loader}, WaitEmpty(t) PROVE TypeOK'
  <2>1. empty' \in [Buffer -> 0 .. SlotCount]
    BY <1>2, <1>0, SemaphoreType, SlotAssumption DEF WaitEmpty
  <2>2. pc' \in [Thread -> Counters]
    BY <1>2, <1>0 DEF WaitEmpty, Goes, TypeOK, Counters
  <2> QED
    BY <1>2, <1>0, <2>1, <2>2 DEF WaitEmpty, TypeOK
<1>3. ASSUME NEW t \in Worker \cup {Loader}, ClaimEmpty(t) PROVE TypeOK'
  <2>1. pc' \in [Thread -> Counters]
    BY <1>3, <1>0 DEF ClaimEmpty, Goes, TypeOK, Counters
  <2>2. writes' \in [Thread -> 0 .. SlotCount]
    <3>1. writes' = writes \/ \E i \in Slot : writes' = [writes EXCEPT ![t] = i]
      BY <1>3 DEF ClaimEmpty
    <3>2. CASE writes' = writes
      BY <3>2, <1>0 DEF TypeOK
    <3>3. ASSUME NEW i \in Slot, writes' = [writes EXCEPT ![t] = i] PROVE writes' \in [Thread -> 0 .. SlotCount]
      BY <3>3, <1>0, HeldType
    <3> QED
      BY <3>1, <3>2, <3>3
  <2>3. ASSUME NEW i \in Slot, ClaimForWriting(Target(t), i) PROVE state' \in [Buffer -> [Slot -> SlotStates]]
    <3>1. state \in [Buffer -> [Slot -> SlotStates]]
      BY <1>0 DEF TypeOK
    <3>2. state' = state \/ \E s \in SlotStates : state' = [state EXCEPT ![Target(t)][i] = s]
      BY <2>3, SlotStateNames DEF ClaimForWriting
    <3>3. ASSUME NEW s \in SlotStates, state' = [state EXCEPT ![Target(t)][i] = s]
          PROVE  state' \in [Buffer -> [Slot -> SlotStates]]
      BY <3>1, <3>3, SlotType
    <3> QED
      BY <3>1, <3>2, <3>3
  <2>4. state' \in [Buffer -> [Slot -> SlotStates]]
    <3>1. state \in [Buffer -> [Slot -> SlotStates]]
      BY <1>0 DEF TypeOK
    <3> QED
      BY <1>3, <2>3, <3>1 DEF ClaimEmpty
  <2> QED
    BY <1>3, <1>0, <2>1, <2>2, <2>4 DEF ClaimEmpty, TypeOK
<1>4. ASSUME YieldTile PROVE TypeOK'
  <2>1. pc[Loader] = "yield" /\ pc' \in [Thread -> Counters]
    BY <1>4, <1>0 DEF YieldTile, Goes, TypeOK, Counters
  <2>2. writes[Loader] \in Slot /\ writes' \in [Thread -> 0 .. SlotCount]
    BY <1>4, <1>0, <2>1, Held, HeldType DEF YieldTile, Compressing
  <2>3. loaded + 1 \in 0 .. TileCount
    BY <1>0, <2>1, PipelineAssumption DEF TypeOK, Loading
  <2>4. tile' \in [Buffer -> [Slot -> 0 .. TileCount]] /\ state' \in [Buffer -> [Slot -> SlotStates]]
    <3>1. tile \in [Buffer -> [Slot -> 0 .. TileCount]] /\ state \in [Buffer -> [Slot -> SlotStates]]
      BY <1>0 DEF TypeOK
    <3> QED
      BY <1>4, <3>1, <2>2, <2>3, SlotType, SlotStateNames DEF YieldTile, Yield
  <2> QED
    BY <1>4, <1>0, <2>1, <2>2, <2>3, <2>4 DEF YieldTile, TypeOK
<1>5. ASSUME NEW w \in Worker, YieldTexture(w) PROVE TypeOK'
  <2>1. pc[w] = "yield" /\ pc' \in [Thread -> Counters]
    BY <1>5, <1>0 DEF YieldTexture, Goes, TypeOK, Counters
  <2>2. writes[w] \in Slot /\ writes' \in [Thread -> 0 .. SlotCount]
    BY <1>5, <1>0, <2>1, Held, HeldType DEF YieldTexture, Compressing
  <2>3. tile["texture"][writes[w]] \in 0 .. TileCount
    BY <1>0, <2>2 DEF TypeOK
  <2>4. tile' \in [Buffer -> [Slot -> 0 .. TileCount]] /\ state' \in [Buffer -> [Slot -> SlotStates]]
    <3>1. tile \in [Buffer -> [Slot -> 0 .. TileCount]] /\ state \in [Buffer -> [Slot -> SlotStates]]
      BY <1>0 DEF TypeOK
    <3> QED
      BY <1>5, <3>1, <2>2, <2>3, SlotType, SlotStateNames DEF YieldTexture, Yield
  <2> QED
    BY <1>5, <1>0, <2>1, <2>2, <2>3, <2>4 DEF YieldTexture, TypeOK
<1>6. ASSUME NEW t \in Worker \cup {Loader}, SignalFull(t) PROVE TypeOK'
  <2>1. full' \in [Buffer -> 0 .. SlotCount]
    BY <1>6, <1>0, SemaphoreType, SlotAssumption DEF SignalFull
  <2>2. pc' \in [Thread -> Counters]
    BY <1>6, <1>0 DEF SignalFull, Goes, TypeOK, Counters
  <2> QED
    BY <1>6, <1>0, <2>1, <2>2 DEF SignalFull, TypeOK
<1>7. ASSUME GetNextTile PROVE TypeOK'
  BY <1>7, <1>0 DEF GetNextTile, Goes, TypeOK, Counters
<1>8. ASSUME NEW t \in Worker \cup {Main}, WaitFull(t) PROVE TypeOK'
  <2>1. full' \in [Buffer -> 0 .. SlotCount]
    BY <1>8, <1>0, SemaphoreType, SlotAssumption DEF WaitFull
  <2>2. pc' \in [Thread -> Counters]
    BY <1>8, <1>0 DEF WaitFull, Goes, TypeOK, Counters
  <2> QED
    BY <1>8, <1>0, <2>1, <2>2 DEF WaitFull, TypeOK
<1>9. ASSUME NEW t \in Worker \cup {Main}, ClaimFull(t) PROVE TypeOK'
  <2>1. pc' \in [Thread -> Counters]
    BY <1>9, <1>0 DEF ClaimFull, Goes, TypeOK, Counters
  <2>2. reads' \in [Thread -> 0 .. SlotCount]
    <3>1. reads' = reads \/ \E i \in Slot : reads' = [reads EXCEPT ![t] = i]
      BY <1>9 DEF ClaimFull
    <3>2. CASE reads' = reads
      BY <3>2, <1>0 DEF TypeOK
    <3>3. ASSUME NEW i \in Slot, reads' = [reads EXCEPT ![t] = i] PROVE reads' \in [Thread -> 0 .. SlotCount]
      BY <3>3, <1>0, HeldType
    <3> QED
      BY <3>1, <3>2, <3>3
  <2>3. ASSUME NEW i \in Slot, ClaimForReading(Source(t), i) PROVE state' \in [Buffer -> [Slot -> SlotStates]]
    <3>1. state \in [Buffer -> [Slot -> SlotStates]]
      BY <1>0 DEF TypeOK
    <3>2. state' = state \/ \E s \in SlotStates : state' = [state EXCEPT ![Source(t)][i] = s]
      BY <2>3, SlotStateNames DEF ClaimForReading
    <3>3. ASSUME NEW s \in SlotStates, state' = [state EXCEPT ![Source(t)][i] = s]
          PROVE  state' \in [Buffer -> [Slot -> SlotStates]]
      BY <3>1, <3>3, SlotType
    <3> QED
      BY <3>1, <3>2, <3>3
  <2>4. state' \in [Buffer -> [Slot -> SlotStates]]
    <3>1. state \in [Buffer -> [Slot -> SlotStates]]
      BY <1>0 DEF TypeOK
    <3> QED
      BY <1>9, <2>3, <3>1 DEF ClaimFull
  <2> QED
    BY <1>9, <1>0, <2>1, <2>2, <2>4 DEF ClaimFull, TypeOK
<1>10. ASSUME NEW w \in Worker, Compress(w) PROVE TypeOK'
  <2>1. pc[w] = "copy" /\ pc' \in [Thread -> Counters]
    BY <1>10, <1>0 DEF Compress, Goes, TypeOK, Counters
  <2>2. writes[w] \in Slot /\ reads[w] \in Slot
    BY <1>0, <2>1, Held DEF Compressing
  <2>3. tile' \in [Buffer -> [Slot -> 0 .. TileCount]]
    <3>1. tile \in [Buffer -> [Slot -> 0 .. TileCount]] /\ tile["tile"][reads[w]] \in 0 .. TileCount
      BY <1>0, <2>2 DEF TypeOK
    <3> QED
      BY <1>10, <3>1, <2>2, SlotType DEF Compress
  <2> QED
    BY <1>10, <1>0, <2>1, <2>3 DEF Compress, TypeOK
<1>11. ASSUME Receive PROVE TypeOK'
  <2>1. pc[Main] = "copy" /\ pc' \in [Thread -> Counters]
    BY <1>11, <1>0 DEF Receive, Goes, TypeOK, Counters
  <2>2. reads[Main] \in Slot
    BY <1>0, <2>1, Held
  <2>3. tile[Source(Main)][reads[Main]] \in 0 .. TileCount
    BY <1>0, <2>2 DEF TypeOK
  <2>4. got' \in Seq(0 .. TileCount)
    BY <1>11, <1>0, <2>3, AppendProperties DEF Receive, TypeOK
  <2> QED
    BY <1>11, <1>0, <2>1, <2>4 DEF Receive, TypeOK
<1>12. ASSUME NEW t \in Worker \cup {Main}, FreeRead(t) PROVE TypeOK'
  <2>1. pc[t] = "free" /\ pc' \in [Thread -> Counters]
    BY <1>12, <1>0 DEF FreeRead, Goes, TypeOK, Counters
  <2>2. reads[t] \in Slot /\ reads' \in [Thread -> 0 .. SlotCount]
    BY <1>12, <1>0, <2>1, Held, HeldType DEF FreeRead
  <2>3. state' \in [Buffer -> [Slot -> SlotStates]]
    <3>1. state \in [Buffer -> [Slot -> SlotStates]]
      BY <1>0 DEF TypeOK
    <3> QED
      BY <1>12, <3>1, <2>2, SlotType, SlotStateNames DEF FreeRead, FreeSlot
  <2> QED
    BY <1>12, <1>0, <2>1, <2>2, <2>3 DEF FreeRead, TypeOK
<1>13. ASSUME NEW t \in Worker \cup {Main}, SignalEmpty(t) PROVE TypeOK'
  <2>1. empty' \in [Buffer -> 0 .. SlotCount]
    BY <1>13, <1>0, SemaphoreType, SlotAssumption DEF SignalEmpty
  <2>2. pc' \in [Thread -> Counters]
    BY <1>13, <1>0 DEF SignalEmpty, Goes, TypeOK, Counters
  <2> QED
    BY <1>13, <1>0, <2>1, <2>2 DEF SignalEmpty, TypeOK
<1>14. ASSUME Fail PROVE TypeOK'
  BY <1>14, <1>0 DEF Fail, Goes, TypeOK, Counters
<1>15. ASSUME NEW t \in Worker \cup {Loader}, StopConsumer(t) PROVE TypeOK'
  BY <1>15, <1>0 DEF StopConsumer, SetError, Goes, TypeOK, Counters
<1>16. ASSUME NEW t \in Worker \cup {Loader}, SignalStop(t) PROVE TypeOK'
  <2>1. full' \in [Buffer -> 0 .. SlotCount]
    BY <1>16, <1>0, SemaphoreType, SlotAssumption DEF SignalStop
  <2>2. pc' \in [Thread -> Counters]
    BY <1>16, <1>0 DEF SignalStop, Goes, TypeOK, Counters
  <2> QED
    BY <1>16, <1>0, <2>1, <2>2 DEF SignalStop, TypeOK
<1>17. ASSUME Destroy PROVE TypeOK'
  BY <1>17, <1>0 DEF Destroy, Goes, TypeOK, Counters
<1>18. ASSUME NEW b \in Buffer, StopProducer(b) PROVE TypeOK'
  BY <1>18, <1>0 DEF StopProducer, SetStop, Goes, TypeOK, Counters
<1>19. ASSUME NEW b \in Buffer, WakeWriters(b) PROVE TypeOK'
  <2>1. empty' \in [Buffer -> 0 .. SlotCount]
    BY <1>19, <1>0, SemaphoreType, SlotAssumption DEF WakeWriters
  <2>2. pc' \in [Thread -> Counters]
    BY <1>19, <1>0 DEF WakeWriters, Goes, TypeOK, Counters
  <2> QED
    BY <1>19, <1>0, <2>1, <2>2 DEF WakeWriters, TypeOK
<1>20. ASSUME NEW b \in Buffer, WakeReaders(b) PROVE TypeOK'
  <2>1. full' \in [Buffer -> 0 .. SlotCount]
    BY <1>20, <1>0, SemaphoreType, SlotAssumption DEF WakeReaders
  <2>2. pc' \in [Thread -> Counters]
    BY <1>20, <1>0 DEF WakeReaders, Goes, TypeOK, Counters
  <2> QED
    BY <1>20, <1>0, <2>1, <2>2 DEF WakeReaders, TypeOK
<1>21. ASSUME Delete PROVE TypeOK'
  BY <1>21, <1>0 DEF Delete, Goes, TypeOK, Counters
<1>22. CASE UNCHANGED vars
  BY <1>22, <1>0 DEF vars, TypeOK
<1> QED
  BY <1>1, <1>2, <1>3, <1>4, <1>5, <1>6, <1>7, <1>8, <1>9, <1>10, <1>11,
     <1>12, <1>13, <1>14, <1>15, <1>16, <1>17, <1>18, <1>19, <1>20, <1>21, <1>22
     DEF Next, LoaderStep, WorkerStep, MainStep, Finished

-----------------------------------------------------------------------------
(* Where the threads are, what they hold, what stops them.                 *)

\* No thread ends up in the code of another.
LEMMA ProgramsStep ==
  ASSUME IInv, [Next]_vars
  PROVE  Programs'
<1> USE ThreadNames DEF Programs, LoaderCounters, WorkerCounters, MainCounters, Compressing,
                        StoppingTile, StoppingTexture, Thread
<1>0. pc \in [Thread -> Counters] /\ Programs
  BY DEF IInv, TypeOK
<1>1. ASSUME ReadLines PROVE Programs'
  BY <1>1, <1>0 DEF ReadLines, Goes
<1>2. ASSUME NEW t \in Worker \cup {Loader}, WaitEmpty(t) PROVE Programs'
  BY <1>2, <1>0 DEF WaitEmpty, Goes
<1>3. ASSUME NEW t \in Worker \cup {Loader}, ClaimEmpty(t) PROVE Programs'
  BY <1>3, <1>0 DEF ClaimEmpty, Goes
<1>4. ASSUME YieldTile PROVE Programs'
  BY <1>4, <1>0 DEF YieldTile, Goes
<1>5. ASSUME NEW w \in Worker, YieldTexture(w) PROVE Programs'
  BY <1>5, <1>0 DEF YieldTexture, Goes
<1>6. ASSUME NEW t \in Worker \cup {Loader}, SignalFull(t) PROVE Programs'
  <2>1. CASE t = Loader
    <3>1. pc' = [pc EXCEPT ![Loader] = IF loaded < TileCount THEN "read" ELSE "done"]
      BY <1>6, <2>1 DEF SignalFull, Goes
    <3> QED
      BY <3>1, <1>0
  <2>2. CASE t \in Worker
    <3>1. pc' = [pc EXCEPT ![t] = "wait_empty"]
      BY <1>6, <2>2 DEF SignalFull, Goes
    <3> QED
      BY <3>1, <2>2, <1>0
  <2> QED
    BY <1>6, <2>1, <2>2
<1>7. ASSUME GetNextTile PROVE Programs'
  BY <1>7, <1>0 DEF GetNextTile, Goes
<1>8. ASSUME NEW t \in Worker \cup {Main}, WaitFull(t) PROVE Programs'
  BY <1>8, <1>0 DEF WaitFull, Goes
<1>9. ASSUME NEW t \in Worker \cup {Main}, ClaimFull(t) PROVE Programs'
  BY <1>9, <1>0 DEF ClaimFull, Goes
<1>10. ASSUME NEW w \in Worker, Compress(w) PROVE Programs'
  BY <1>10, <1>0 DEF Compress, Goes
<1>11. ASSUME Receive PROVE Programs'
  BY <1>11, <1>0 DEF Receive, Goes
<1>12. ASSUME NEW t \in Worker \cup {Main}, FreeRead(t) PROVE Programs'
  BY <1>12, <1>0 DEF FreeRead, Goes
<1>13. ASSUME NEW t \in Worker \cup {Main}, SignalEmpty(t) PROVE Programs'
  BY <1>13, <1>0 DEF SignalEmpty, Goes
<1>14. ASSUME Fail PROVE Programs'
  BY <1>14, <1>0 DEF Fail, Goes
<1>15. ASSUME NEW t \in Worker \cup {Loader}, StopConsumer(t) PROVE Programs'
  BY <1>15, <1>0 DEF StopConsumer, Goes
<1>16. ASSUME NEW t \in Worker \cup {Loader}, SignalStop(t) PROVE Programs'
  BY <1>16, <1>0 DEF SignalStop, Goes
<1>17. ASSUME Destroy PROVE Programs'
  BY <1>17, <1>0 DEF Destroy, Goes
<1>18. ASSUME NEW b \in Buffer, StopProducer(b) PROVE Programs'
  BY <1>18, <1>0 DEF StopProducer, Goes
<1>19. ASSUME NEW b \in Buffer, WakeWriters(b) PROVE Programs'
  BY <1>19, <1>0 DEF WakeWriters, Goes
<1>20. ASSUME NEW b \in Buffer, WakeReaders(b) PROVE Programs'
  BY <1>20, <1>0 DEF WakeReaders, Goes
<1>21. ASSUME Delete PROVE Programs'
  BY <1>21, <1>0 DEF Delete, Goes
<1>22. CASE UNCHANGED vars
  BY <1>22, <1>0 DEF vars
<1> QED
  BY <1>1, <1>2, <1>3, <1>4, <1>5, <1>6, <1>7, <1>8, <1>9, <1>10, <1>11,
     <1>12, <1>13, <1>14, <1>15, <1>16, <1>17, <1>18, <1>19, <1>20, <1>21, <1>22
     DEF Next, LoaderStep, WorkerStep, MainStep, Finished

\* A thread has allocated the slot that it goes on to use.
LEMMA HoldingStep ==
  ASSUME IInv, [Next]_vars
  PROVE  Holding'
<1> USE ThreadNames DEF Holding, Compressing, Thread
<1>0. /\ pc \in [Thread -> Counters] /\ Programs /\ Holding
      /\ writes \in [Thread -> 0 .. SlotCount] /\ reads \in [Thread -> 0 .. SlotCount]
  BY DEF IInv, TypeOK
<1>1. ASSUME ReadLines PROVE Holding'
  BY <1>1, <1>0 DEF ReadLines, Goes
<1>2. ASSUME NEW t \in Worker \cup {Loader}, WaitEmpty(t) PROVE Holding'
  BY <1>2, <1>0 DEF WaitEmpty, Goes
<1>3. ASSUME NEW t \in Worker \cup {Loader}, ClaimEmpty(t) PROVE Holding'
  <2>1. reads' = reads /\ \A u \in Thread \ {t} : pc'[u] = pc[u] /\ writes'[u] = writes[u]
    BY <1>3, <1>0 DEF ClaimEmpty, Goes
  <2>2. \A i \in Slot : i # 0
    BY SlotAssumption DEF Slot
  <2>3. ASSUME NEW i \in Slot, writes' = [writes EXCEPT ![t] = i] PROVE writes'[t] # 0
    BY <2>2, <2>3, <1>0
  <2>4. \/ pc[t] = "claim_empty" /\ pc'[t] \in {"yield", "wait_full"} /\ writes'[t] # 0
        \/ pc[t] = "claim_empty" /\ pc'[t] = "done" /\ writes'[t] = writes[t]
    BY <1>3, <2>3, <1>0 DEF ClaimEmpty, Goes
  <2> QED
    BY <1>3, <1>0, <2>1, <2>4
<1>4. ASSUME YieldTile PROVE Holding'
  BY <1>4, <1>0 DEF YieldTile, Goes
<1>5. ASSUME NEW w \in Worker, YieldTexture(w) PROVE Holding'
  BY <1>5, <1>0 DEF YieldTexture, Goes
<1>6. ASSUME NEW t \in Worker \cup {Loader}, SignalFull(t) PROVE Holding'
  BY <1>6, <1>0 DEF SignalFull, Goes
<1>7. ASSUME GetNextTile PROVE Holding'
  BY <1>7, <1>0 DEF GetNextTile, Goes
<1>8. ASSUME NEW t \in Worker \cup {Main}, WaitFull(t) PROVE Holding'
  BY <1>8, <1>0 DEF WaitFull, Goes
<1>9. ASSUME NEW t \in Worker \cup {Main}, ClaimFull(t) PROVE Holding'
  <2>1. writes' = writes /\ \A u \in Thread \ {t} : pc'[u] = pc[u] /\ reads'[u] = reads[u]
    BY <1>9, <1>0 DEF ClaimFull, Goes
  <2>2. \A i \in Slot : i # 0
    BY SlotAssumption DEF Slot
  <2>3. ASSUME NEW i \in Slot, reads' = [reads EXCEPT ![t] = i] PROVE reads'[t] # 0
    BY <2>2, <2>3, <1>0
  <2>4. \/ pc[t] = "claim_full" /\ pc'[t] = "copy" /\ reads'[t] # 0
        \/ pc[t] = "claim_full" /\ pc'[t] \in {"stop_tile", "stop_consumer"} /\ reads'[t] = reads[t]
    BY <1>9, <2>3, <1>0 DEF ClaimFull, Goes
  <2> QED
    BY <1>9, <1>0, <2>1, <2>4
<1>10. ASSUME NEW w \in Worker, Compress(w) PROVE Holding'
  BY <1>10, <1>0 DEF Compress, Goes
<1>11. ASSUME Receive PROVE Holding'
  BY <1>11, <1>0 DEF Receive, Goes
<1>12. ASSUME NEW t \in Worker \cup {Main}, FreeRead(t) PROVE Holding'
  BY <1>12, <1>0 DEF FreeRead, Goes
<1>13. ASSUME NEW t \in Worker \cup {Main}, SignalEmpty(t) PROVE Holding'
  BY <1>13, <1>0 DEF SignalEmpty, Goes
<1>14. ASSUME Fail PROVE Holding'
  BY <1>14, <1>0 DEF Fail, Goes
<1>15. ASSUME NEW t \in Worker \cup {Loader}, StopConsumer(t) PROVE Holding'
  BY <1>15, <1>0 DEF StopConsumer, Goes
<1>16. ASSUME NEW t \in Worker \cup {Loader}, SignalStop(t) PROVE Holding'
  BY <1>16, <1>0 DEF SignalStop, Goes
<1>17. ASSUME Destroy PROVE Holding'
  BY <1>17, <1>0 DEF Destroy, Goes
<1>18. ASSUME NEW b \in Buffer, StopProducer(b) PROVE Holding'
  BY <1>18, <1>0 DEF StopProducer, Goes
<1>19. ASSUME NEW b \in Buffer, WakeWriters(b) PROVE Holding'
  BY <1>19, <1>0 DEF WakeWriters, Goes
<1>20. ASSUME NEW b \in Buffer, WakeReaders(b) PROVE Holding'
  BY <1>20, <1>0 DEF WakeReaders, Goes
<1>21. ASSUME Delete PROVE Holding'
  BY <1>21, <1>0 DEF Delete, Goes
<1>22. CASE UNCHANGED vars
  BY <1>22, <1>0 DEF vars
<1> QED
  BY <1>1, <1>2, <1>3, <1>4, <1>5, <1>6, <1>7, <1>8, <1>9, <1>10, <1>11,
     <1>12, <1>13, <1>14, <1>15, <1>16, <1>17, <1>18, <1>19, <1>20, <1>21, <1>22
     DEF Next, LoaderStep, WorkerStep, MainStep, Finished

\* Nobody is woken before the flag is set.
LEMMA StoppingStep ==
  ASSUME IInv, [Next]_vars
  PROVE  Stopping'
<1> USE ThreadNames, BufferNames DEF Stopping, StoppingTile, StoppingTexture, Thread, bufferVars
<1>0. /\ pc \in [Thread -> Counters] /\ Programs /\ Stopping
      /\ stop \in [Buffer -> BOOLEAN] /\ error \in [Buffer -> BOOLEAN]
  BY DEF IInv, TypeOK
<1>1. ASSUME ReadLines PROVE Stopping'
  BY <1>1, <1>0 DEF ReadLines, Goes
<1>2. ASSUME NEW t \in Worker \cup {Loader}, WaitEmpty(t) PROVE Stopping'
  BY <1>2, <1>0 DEF WaitEmpty, Goes
<1>3. ASSUME NEW t \in Worker \cup {Loader}, ClaimEmpty(t) PROVE Stopping'
  BY <1>3, <1>0 DEF ClaimEmpty, Goes
<1>4. ASSUME YieldTile PROVE Stopping'
  BY <1>4, <1>0 DEF YieldTile, Goes
<1>5. ASSUME NEW w \in Worker, YieldTexture(w) PROVE Stopping'
  BY <1>5, <1>0 DEF YieldTexture, Goes
<1>6. ASSUME NEW t \in Worker \cup {Loader}, SignalFull(t) PROVE Stopping'
  BY <1>6, <1>0 DEF SignalFull, Goes
<1>7. ASSUME GetNextTile PROVE Stopping'
  BY <1>7, <1>0 DEF GetNextTile, Goes
<1>8. ASSUME NEW t \in Worker \cup {Main}, WaitFull(t) PROVE Stopping'
  BY <1>8, <1>0 DEF WaitFull, Goes
<1>9. ASSUME NEW t \in Worker \cup {Main}, ClaimFull(t) PROVE Stopping'
  BY <1>9, <1>0 DEF ClaimFull, Goes
<1>10. ASSUME NEW w \in Worker, Compress(w) PROVE Stopping'
  BY <1>10, <1>0 DEF Compress, Goes
<1>11. ASSUME Receive PROVE Stopping'
  BY <1>11, <1>0 DEF Receive, Goes
<1>12. ASSUME NEW t \in Worker \cup {Main}, FreeRead(t) PROVE Stopping'
  BY <1>12, <1>0 DEF FreeRead, Goes
<1>13. ASSUME NEW t \in Worker \cup {Main}, SignalEmpty(t) PROVE Stopping'
  BY <1>13, <1>0 DEF SignalEmpty, Goes
<1>14. ASSUME Fail PROVE Stopping'
  BY <1>14, <1>0 DEF Fail, Goes
<1>15. ASSUME NEW t \in Worker \cup {Loader}, StopConsumer(t) PROVE Stopping'
  BY <1>15, <1>0 DEF StopConsumer, Goes, SetError
<1>16. ASSUME NEW t \in Worker \cup {Loader}, SignalStop(t) PROVE Stopping'
  BY <1>16, <1>0 DEF SignalStop, Goes
<1>17. ASSUME Destroy PROVE Stopping'
  BY <1>17, <1>0 DEF Destroy, Goes
<1>18. ASSUME NEW b \in Buffer, StopProducer(b) PROVE Stopping'
  BY <1>18, <1>0 DEF StopProducer, Goes, SetStop
<1>19. ASSUME NEW b \in Buffer, WakeWriters(b) PROVE Stopping'
  BY <1>19, <1>0 DEF WakeWriters, Goes
<1>20. ASSUME NEW b \in Buffer, WakeReaders(b) PROVE Stopping'
  BY <1>20, <1>0 DEF WakeReaders, Goes
<1>21. ASSUME Delete PROVE Stopping'
  BY <1>21, <1>0 DEF Delete, Goes
<1>22. CASE UNCHANGED vars
  BY <1>22, <1>0 DEF vars
<1> QED
  BY <1>1, <1>2, <1>3, <1>4, <1>5, <1>6, <1>7, <1>8, <1>9, <1>10, <1>11,
     <1>12, <1>13, <1>14, <1>15, <1>16, <1>17, <1>18, <1>19, <1>20, <1>21, <1>22
     DEF Next, LoaderStep, WorkerStep, MainStep, Finished

-----------------------------------------------------------------------------
(* Counting threads and slots.                                             *)

\* One element comes or goes.
LEMMA OneMore ==
  ASSUME NEW A, IsFiniteSet(A), NEW x
  PROVE  /\ Cardinality(A) \in Nat
         /\ x \notin A => Cardinality(A \cup {x}) = Cardinality(A) + 1
         /\ x \in A => Cardinality(A \ {x}) = Cardinality(A) - 1
BY FS_CardinalityType, FS_AddElement, FS_RemoveElement

\* Threads and slots can be counted.
LEMMA CountsType ==
  /\ \A f, b, s : Cardinality(Readers(f, b, s)) \in Nat /\ IsFiniteSet(Readers(f, b, s))
  /\ \A f, b, s : Cardinality(Writers(f, b, s)) \in Nat /\ IsFiniteSet(Writers(f, b, s))
  /\ \A h, s : Cardinality(Slots(h, s)) \in Nat /\ IsFiniteSet(Slots(h, s))
<1>1. \A f, b, s : Readers(f, b, s) \in SUBSET Thread /\ Writers(f, b, s) \in SUBSET Thread
  BY DEF Readers, Writers
<1>2. \A h, s : Slots(h, s) \in SUBSET Slot
  BY DEF Slots
<1>3. IsFiniteSet(Slot)
  BY SlotAssumption, FS_Interval DEF Slot
<1>4. \A S, T : IsFiniteSet(S) /\ T \in SUBSET S => IsFiniteSet(T) /\ Cardinality(T) \in Nat
  BY FS_Subset, FS_CardinalityType
<1> QED
  BY <1>1, <1>2, <1>3, <1>4, ThreadNames

\* A step of thread t, counted.
LEMMA ReadersCounted ==
  ASSUME pc \in [Thread -> Counters], NEW t \in Thread, NEW here, NEW there \in Counters,
         Goes(t, here, there), here # there, NEW b, NEW s
  PROVE  LET n == Cardinality(Readers(pc, b, s)) IN
         /\ n \in Nat
         /\ s = there /\ Source(t) = b => n' = n + 1
         /\ s = here /\ Source(t) = b => n' = n - 1
         /\ (s # there /\ s # here) \/ Source(t) # b => n' = n
<1> DEFINE A == Readers(pc, b, s)
           B == Readers(pc', b, s)
<1>1. /\ pc[t] = here /\ pc'[t] = there /\ \A u \in Thread \ {t} : pc'[u] = pc[u]
      /\ pc' \in [Thread -> Counters]
  BY GoesOn
<1>2. IsFiniteSet(A)
  BY CountsType
<1>3. s = there /\ Source(t) = b => t \notin A /\ B = A \cup {t}
  BY <1>1 DEF Readers
<1>4. s = here /\ Source(t) = b => t \in A /\ B = A \ {t}
  BY <1>1 DEF Readers
<1>5. (s # there /\ s # here) \/ Source(t) # b => B = A
  BY <1>1 DEF Readers
<1> HIDE DEF A, B
<1>6. /\ Cardinality(A) \in Nat
      /\ s = there /\ Source(t) = b => Cardinality(B) = Cardinality(A) + 1
      /\ s = here /\ Source(t) = b => Cardinality(B) = Cardinality(A) - 1
      /\ (s # there /\ s # here) \/ Source(t) # b => Cardinality(B) = Cardinality(A)
  BY <1>2, <1>3, <1>4, <1>5, OneMore
<1> QED
  BY <1>6 DEF A, B

\* The same, by the buffer that threads fill.
LEMMA WritersCounted ==
  ASSUME pc \in [Thread -> Counters], NEW t \in Thread, NEW here, NEW there \in Counters,
         Goes(t, here, there), here # there, NEW b, NEW s
  PROVE  LET n == Cardinality(Writers(pc, b, s)) IN
         /\ n \in Nat
         /\ s = there /\ Target(t) = b => n' = n + 1
         /\ s = here /\ Target(t) = b => n' = n - 1
         /\ (s # there /\ s # here) \/ Target(t) # b => n' = n
<1> DEFINE A == Writers(pc, b, s)
           B == Writers(pc', b, s)
<1>1. /\ pc[t] = here /\ pc'[t] = there /\ \A u \in Thread \ {t} : pc'[u] = pc[u]
      /\ pc' \in [Thread -> Counters]
  BY GoesOn
<1>2. IsFiniteSet(A)
  BY CountsType
<1>3. s = there /\ Target(t) = b => t \notin A /\ B = A \cup {t}
  BY <1>1 DEF Writers
<1>4. s = here /\ Target(t) = b => t \in A /\ B = A \ {t}
  BY <1>1 DEF Writers
<1>5. (s # there /\ s # here) \/ Target(t) # b => B = A
  BY <1>1 DEF Writers
<1> HIDE DEF A, B
<1>6. /\ Cardinality(A) \in Nat
      /\ s = there /\ Target(t) = b => Cardinality(B) = Cardinality(A) + 1
      /\ s = here /\ Target(t) = b => Cardinality(B) = Cardinality(A) - 1
      /\ (s # there /\ s # here) \/ Target(t) # b => Cardinality(B) = Cardinality(A)
  BY <1>2, <1>3, <1>4, <1>5, OneMore
<1> QED
  BY <1>6 DEF A, B

\* A slot goes from one state to another.
Moves(c, i, old, new) ==
  state[c][i] = old /\ old # new /\ state' = [state EXCEPT ![c][i] = new]

\* A change of one slot, counted.
LEMMA SlotsCounted ==
  ASSUME state \in [Buffer -> [Slot -> SlotStates]], NEW c \in Buffer, NEW i \in Slot,
         NEW old \in SlotStates, NEW new \in SlotStates, Moves(c, i, old, new),
         NEW b \in Buffer, NEW s
  PROVE  /\ s = new /\ b = c
                         => Cardinality(Slots(state'[b], s))
                            = Cardinality(Slots(state[b], s)) + 1
         /\ s = old /\ b = c
                         => Cardinality(Slots(state'[b], s))
                            = Cardinality(Slots(state[b], s)) - 1
         /\ (s # new /\ s # old) \/ b # c => Cardinality(Slots(state'[b], s)) = Cardinality(Slots(state[b], s))
<1> DEFINE A == Slots(state[b], s)
           B == Slots(state'[b], s)
<1>1. IsFiniteSet(A)
  BY CountsType
<1>2. /\ b # c => state'[b] = state[b]
      /\ b = c => state'[b][i] = new /\ \A j \in Slot \ {i} : state'[b][j] = state[b][j]
      /\ state[c][i] = old /\ old # new
  BY DEF Moves
<1>3. s = new /\ b = c => i \notin A /\ B = A \cup {i}
  BY <1>2 DEF Slots
<1>4. s = old /\ b = c => i \in A /\ B = A \ {i}
  BY <1>2 DEF Slots
<1>5. (s # new /\ s # old) \/ b # c => B = A
  BY <1>2 DEF Slots
<1> HIDE DEF A, B
<1>6. /\ Cardinality(A) \in Nat
      /\ s = new /\ b = c => Cardinality(B) = Cardinality(A) + 1
      /\ s = old /\ b = c => Cardinality(B) = Cardinality(A) - 1
      /\ (s # new /\ s # old) \/ b # c => Cardinality(B) = Cardinality(A)
  BY <1>1, <1>3, <1>4, <1>5, OneMore
<1> QED
  BY <1>6 DEF A, B

\* A slot has been written.
LEMMA SlotWritten ==
  ASSUME state \in [Buffer -> [Slot -> SlotStates]], NEW c \in Buffer, NEW i \in Slot,
         Moves(c, i, "writing", "ready_for_reading"), NEW b \in Buffer
  PROVE  /\ b = c
              => Cardinality(Slots(state'[b], "ready_for_reading"))
                 = Cardinality(Slots(state[b], "ready_for_reading")) + 1
         /\ b # c
              => Cardinality(Slots(state'[b], "ready_for_reading"))
                 = Cardinality(Slots(state[b], "ready_for_reading"))
         /\ Cardinality(Slots(state'[b], "ready_for_writing")) = Cardinality(Slots(state[b], "ready_for_writing"))
<1>1. /\ b = c
           => Cardinality(Slots(state'[b], "ready_for_reading"))
              = Cardinality(Slots(state[b], "ready_for_reading")) + 1
      /\ b # c
           => Cardinality(Slots(state'[b], "ready_for_reading"))
              = Cardinality(Slots(state[b], "ready_for_reading"))
  BY SlotsCounted, SlotStateNames
<1>2. /\ Cardinality(Slots(state'[b], "ready_for_writing")) = Cardinality(Slots(state[b], "ready_for_writing"))
  BY SlotsCounted, SlotStateNames
<1> QED
  BY <1>1, <1>2

\* A slot has been read.
LEMMA SlotRead ==
  ASSUME state \in [Buffer -> [Slot -> SlotStates]], NEW c \in Buffer, NEW i \in Slot,
         Moves(c, i, "reading", "ready_for_writing"), NEW b \in Buffer
  PROVE  /\ Cardinality(Slots(state'[b], "ready_for_reading")) = Cardinality(Slots(state[b], "ready_for_reading"))
         /\ b = c
              => Cardinality(Slots(state'[b], "ready_for_writing"))
                 = Cardinality(Slots(state[b], "ready_for_writing")) + 1
         /\ b # c
              => Cardinality(Slots(state'[b], "ready_for_writing"))
                 = Cardinality(Slots(state[b], "ready_for_writing"))
<1>1. /\ Cardinality(Slots(state'[b], "ready_for_reading")) = Cardinality(Slots(state[b], "ready_for_reading"))
  BY SlotsCounted, SlotStateNames
<1>2. /\ b = c
           => Cardinality(Slots(state'[b], "ready_for_writing"))
              = Cardinality(Slots(state[b], "ready_for_writing")) + 1
      /\ b # c
           => Cardinality(Slots(state'[b], "ready_for_writing"))
              = Cardinality(Slots(state[b], "ready_for_writing"))
  BY SlotsCounted, SlotStateNames
<1> QED
  BY <1>1, <1>2

\* A slot is taken to be written.
LEMMA SlotTakenToWrite ==
  ASSUME state \in [Buffer -> [Slot -> SlotStates]], NEW c \in Buffer, NEW i \in Slot,
         Moves(c, i, "ready_for_writing", "writing"), NEW b \in Buffer
  PROVE  /\ Cardinality(Slots(state'[b], "ready_for_reading")) = Cardinality(Slots(state[b], "ready_for_reading"))
         /\ b = c
              => Cardinality(Slots(state'[b], "ready_for_writing"))
                 = Cardinality(Slots(state[b], "ready_for_writing")) - 1
         /\ b # c
              => Cardinality(Slots(state'[b], "ready_for_writing"))
                 = Cardinality(Slots(state[b], "ready_for_writing"))
<1>1. /\ Cardinality(Slots(state'[b], "ready_for_reading")) = Cardinality(Slots(state[b], "ready_for_reading"))
  BY SlotsCounted, SlotStateNames
<1>2. /\ b = c
           => Cardinality(Slots(state'[b], "ready_for_writing"))
              = Cardinality(Slots(state[b], "ready_for_writing")) - 1
      /\ b # c
           => Cardinality(Slots(state'[b], "ready_for_writing"))
              = Cardinality(Slots(state[b], "ready_for_writing"))
  BY SlotsCounted, SlotStateNames
<1> QED
  BY <1>1, <1>2

\* A slot is taken to be read.
LEMMA SlotTakenToRead ==
  ASSUME state \in [Buffer -> [Slot -> SlotStates]], NEW c \in Buffer, NEW i \in Slot,
         Moves(c, i, "ready_for_reading", "reading"), NEW b \in Buffer
  PROVE  /\ b = c
              => Cardinality(Slots(state'[b], "ready_for_reading"))
                 = Cardinality(Slots(state[b], "ready_for_reading")) - 1
         /\ b # c
              => Cardinality(Slots(state'[b], "ready_for_reading"))
                 = Cardinality(Slots(state[b], "ready_for_reading"))
         /\ Cardinality(Slots(state'[b], "ready_for_writing")) = Cardinality(Slots(state[b], "ready_for_writing"))
<1>1. /\ b = c
           => Cardinality(Slots(state'[b], "ready_for_reading"))
              = Cardinality(Slots(state[b], "ready_for_reading")) - 1
      /\ b # c
           => Cardinality(Slots(state'[b], "ready_for_reading"))
              = Cardinality(Slots(state[b], "ready_for_reading"))
  BY SlotsCounted, SlotStateNames
<1>2. /\ Cardinality(Slots(state'[b], "ready_for_writing")) = Cardinality(Slots(state[b], "ready_for_writing"))
  BY SlotsCounted, SlotStateNames
<1> QED
  BY <1>1, <1>2

\* A thread past the semaphore of full slots will find one, unless there is an error.
LEMMA PromiseOfFull ==
  ASSUME TypeOK, Promised, NEW t \in Thread, pc[t] = "claim_full", ~error[Source(t)]
  PROVE  InState(Source(t), "ready_for_reading") # {}
<1>1. Source(t) \in Buffer
  BY BufferNames
<1>2. full[Source(t)] \in Nat
  BY <1>1, SlotAssumption DEF TypeOK
<1>3. FullPromised(Source(t))
  BY <1>1 DEF Promised
<1>4. t \in Readers(pc, Source(t), "claim_full")
  BY DEF Readers
<1>5. Cardinality(Readers(pc, Source(t), "claim_full")) # 0
  BY <1>4, CountsType, FS_EmptySet
<1>6. Cardinality(Slots(state[Source(t)], "ready_for_reading")) # 0
  <2> DEFINE r == Cardinality(Readers(pc, Source(t), "claim_full"))
             w == Cardinality(Writers(pc, Source(t), "signal_full"))
             n == Cardinality(Slots(state[Source(t)], "ready_for_reading"))
             f == full[Source(t)]
  <2>1. r \in Nat /\ w \in Nat /\ n \in Nat /\ f \in Nat /\ r # 0 /\ f + r + w <= n
    BY <1>2, <1>3, <1>5, CountsType DEF FullPromised
  <2> HIDE DEF r, w, n, f
  <2>2. n # 0
    BY <2>1
  <2> QED
    BY <2>2 DEF n
<1>7. Slots(state[Source(t)], "ready_for_reading") # {}
  BY <1>6, FS_EmptySet
<1> QED
  BY <1>7 DEF Slots, InState

-----------------------------------------------------------------------------
(* The slots are exclusive.                                                *)

\* A slot is allocated to one thread, until it is freed.
LEMMA ExclusiveStep ==
  ASSUME IInv, [Next]_vars
  PROVE  SlotsExclusive'
<1> USE ThreadNames, BufferNames DEF bufferVars
<1>0. /\ TypeOK /\ Programs /\ Holding /\ Promised /\ SlotsExclusive
      /\ state \in [Buffer -> [Slot -> SlotStates]]
      /\ writes \in [Thread -> 0 .. SlotCount] /\ reads \in [Thread -> 0 .. SlotCount]
      /\ writes[Main] = 0 /\ reads[Loader] = 0
  BY DEF IInv, TypeOK, Holding
<1>1. ASSUME ReadLines PROVE SlotsExclusive'
  BY <1>1, <1>0 DEF ReadLines, SlotsExclusive
<1>2. ASSUME NEW t \in Worker \cup {Loader}, WaitEmpty(t) PROVE SlotsExclusive'
  BY <1>2, <1>0 DEF WaitEmpty, SlotsExclusive
<1>3. ASSUME NEW t \in Worker \cup {Loader}, ClaimEmpty(t) PROVE SlotsExclusive'
  <2>1. CASE UNCHANGED <<state, writes>>
    BY <1>3, <2>1, <1>0 DEF ClaimEmpty, SlotsExclusive
  <2>2. ASSUME NEW i \in Slot, ClaimForWriting(Target(t), i), writes' = [writes EXCEPT ![t] = i],
               pc[t] = "claim_empty"
        PROVE  SlotsExclusive'
    <3>1. state[Target(t)][i] = "ready_for_writing" /\ state' = [state EXCEPT ![Target(t)][i] = "writing"]
      BY <2>2, <1>0, FirstFound DEF ClaimForWriting
    <3>2. reads' = reads
      BY <1>3 DEF ClaimEmpty
    <3>3. /\ state'[Target(t)][i] = "writing"
          /\ \A b \in Buffer, j \in Slot : (b # Target(t) \/ j # i) => state'[b][j] = state[b][j]
      BY <3>1, <1>0
    <3> QED
      BY <2>2, <3>1, <3>2, <3>3, <1>0, HeldType DEF SlotsExclusive
  <2> QED
    BY <1>3, <2>1, <2>2 DEF ClaimEmpty, Goes
<1>4. ASSUME YieldTile PROVE SlotsExclusive'
  <2>1. writes[Loader] \in Slot
    BY <1>4, <1>0, Held DEF YieldTile, Goes, Compressing
  <2>2. /\ state' = [state EXCEPT ![Target(Loader)][writes[Loader]] = "ready_for_reading"]
        /\ writes' = [writes EXCEPT ![Loader] = 0] /\ reads' = reads
    BY <1>4 DEF YieldTile, Yield
  <2>3. \A b \in Buffer, j \in Slot : (b # Target(Loader) \/ j # writes[Loader]) => state'[b][j] = state[b][j]
    BY <2>1, <2>2, <1>0
  <2> QED
    BY <2>1, <2>2, <2>3, <1>0, HeldType DEF SlotsExclusive
<1>5. ASSUME NEW w \in Worker, YieldTexture(w) PROVE SlotsExclusive'
  <2>1. writes[w] \in Slot
    BY <1>5, <1>0, Held DEF YieldTexture, Goes, Compressing
  <2>2. /\ state' = [state EXCEPT ![Target(w)][writes[w]] = "ready_for_reading"]
        /\ writes' = [writes EXCEPT ![w] = 0] /\ reads' = reads
    BY <1>5 DEF YieldTexture, Yield
  <2>3. \A b \in Buffer, j \in Slot : (b # Target(w) \/ j # writes[w]) => state'[b][j] = state[b][j]
    BY <2>1, <2>2, <1>0
  <2> QED
    BY <2>1, <2>2, <2>3, <1>0, HeldType DEF SlotsExclusive
<1>6. ASSUME NEW t \in Worker \cup {Loader}, SignalFull(t) PROVE SlotsExclusive'
  BY <1>6, <1>0 DEF SignalFull, SlotsExclusive
<1>7. ASSUME GetNextTile PROVE SlotsExclusive'
  BY <1>7, <1>0 DEF GetNextTile, SlotsExclusive
<1>8. ASSUME NEW t \in Worker \cup {Main}, WaitFull(t) PROVE SlotsExclusive'
  BY <1>8, <1>0 DEF WaitFull, SlotsExclusive
<1>9. ASSUME NEW t \in Worker \cup {Main}, ClaimFull(t) PROVE SlotsExclusive'
  <2>1. CASE UNCHANGED <<state, reads>>
    BY <1>9, <2>1, <1>0 DEF ClaimFull, SlotsExclusive
  <2>2. ASSUME NEW i \in Slot, ClaimForReading(Source(t), i), reads' = [reads EXCEPT ![t] = i],
               pc[t] = "claim_full"
        PROVE  SlotsExclusive'
    <3>1. state[Source(t)][i] = "ready_for_reading" /\ state' = [state EXCEPT ![Source(t)][i] = "reading"]
      BY <2>2, <1>0, FirstFound, PromiseOfFull DEF ClaimForReading
    <3>2. writes' = writes
      BY <1>9 DEF ClaimFull
    <3>3. /\ state'[Source(t)][i] = "reading"
          /\ \A b \in Buffer, j \in Slot : (b # Source(t) \/ j # i) => state'[b][j] = state[b][j]
      BY <3>1, <1>0
    <3> QED
      BY <2>2, <3>1, <3>2, <3>3, <1>0, HeldType DEF SlotsExclusive
  <2> QED
    BY <1>9, <2>1, <2>2 DEF ClaimFull, Goes
<1>10. ASSUME NEW w \in Worker, Compress(w) PROVE SlotsExclusive'
  BY <1>10, <1>0 DEF Compress, SlotsExclusive
<1>11. ASSUME Receive PROVE SlotsExclusive'
  BY <1>11, <1>0 DEF Receive, SlotsExclusive
<1>12. ASSUME NEW t \in Worker \cup {Main}, FreeRead(t) PROVE SlotsExclusive'
  <2>1. reads[t] \in Slot
    BY <1>12, <1>0, Held DEF FreeRead, Goes, Compressing
  <2>2. /\ state' = [state EXCEPT ![Source(t)][reads[t]] = "ready_for_writing"]
        /\ reads' = [reads EXCEPT ![t] = 0] /\ writes' = writes
    BY <1>12 DEF FreeRead, FreeSlot
  <2>3. \A b \in Buffer, j \in Slot : (b # Source(t) \/ j # reads[t]) => state'[b][j] = state[b][j]
    BY <2>1, <2>2, <1>0
  <2> QED
    BY <2>1, <2>2, <2>3, <1>0, HeldType DEF SlotsExclusive
<1>13. ASSUME NEW t \in Worker \cup {Main}, SignalEmpty(t) PROVE SlotsExclusive'
  BY <1>13, <1>0 DEF SignalEmpty, SlotsExclusive
<1>14. ASSUME Fail PROVE SlotsExclusive'
  BY <1>14, <1>0 DEF Fail, SlotsExclusive
<1>15. ASSUME NEW t \in Worker \cup {Loader}, StopConsumer(t) PROVE SlotsExclusive'
  BY <1>15, <1>0 DEF StopConsumer, SlotsExclusive
<1>16. ASSUME NEW t \in Worker \cup {Loader}, SignalStop(t) PROVE SlotsExclusive'
  BY <1>16, <1>0 DEF SignalStop, SlotsExclusive
<1>17. ASSUME Destroy PROVE SlotsExclusive'
  BY <1>17, <1>0 DEF Destroy, SlotsExclusive
<1>18. ASSUME NEW b \in Buffer, StopProducer(b) PROVE SlotsExclusive'
  BY <1>18, <1>0 DEF StopProducer, SlotsExclusive
<1>19. ASSUME NEW b \in Buffer, WakeWriters(b) PROVE SlotsExclusive'
  BY <1>19, <1>0 DEF WakeWriters, SlotsExclusive
<1>20. ASSUME NEW b \in Buffer, WakeReaders(b) PROVE SlotsExclusive'
  BY <1>20, <1>0 DEF WakeReaders, SlotsExclusive
<1>21. ASSUME Delete PROVE SlotsExclusive'
  BY <1>21, <1>0 DEF Delete, SlotsExclusive
<1>22. CASE UNCHANGED vars
  BY <1>22, <1>0 DEF vars, SlotsExclusive
<1> QED
  BY <1>1, <1>2, <1>3, <1>4, <1>5, <1>6, <1>7, <1>8, <1>9, <1>10, <1>11,
     <1>12, <1>13, <1>14, <1>15, <1>16, <1>17, <1>18, <1>19, <1>20, <1>21, <1>22
     DEF Next, LoaderStep, WorkerStep, MainStep, Finished

-----------------------------------------------------------------------------
(* The promises are kept.                                                  *)

\* Steps that no count is about.
LEMMA UncountedStep ==
  ASSUME TypeOK, Promised, NEW t \in Thread, NEW here, NEW there \in Counters,
         Goes(t, here, there), here # there,
         here \notin {"claim_full", "signal_full", "claim_empty", "signal_empty"},
         there \notin {"claim_full", "signal_full", "claim_empty", "signal_empty"},
         UNCHANGED <<full, empty, state>>,
         \A b \in Buffer : (error[b] => error'[b]) /\ (stop[b] => stop'[b])
  PROVE  Promised'
<1>1. ASSUME NEW b \in Buffer
      PROVE  /\ Cardinality(Readers(pc', b, "claim_full")) = Cardinality(Readers(pc, b, "claim_full"))
             /\ Cardinality(Writers(pc', b, "signal_full")) = Cardinality(Writers(pc, b, "signal_full"))
             /\ Cardinality(Writers(pc', b, "claim_empty")) = Cardinality(Writers(pc, b, "claim_empty"))
             /\ Cardinality(Readers(pc', b, "signal_empty")) = Cardinality(Readers(pc, b, "signal_empty"))
  BY ReadersCounted, WritersCounted DEF TypeOK
<1> QED
  BY <1>1 DEF Promised, FullPromised, EmptyPromised

\* A semaphore is released after a slot changes its state, and taken before, so each step
\* keeps the sums; a thread that is woken for nothing finds a flag set.
LEMMA PromisedStep ==
  ASSUME IInv, [Next]_vars
  PROVE  Promised'
<1> USE ThreadNames, BufferNames DEF bufferVars
<1>0. /\ TypeOK /\ Programs /\ Holding /\ Promised /\ Stopping /\ SlotsExclusive
      /\ pc \in [Thread -> Counters] /\ state \in [Buffer -> [Slot -> SlotStates]]
      /\ writes \in [Thread -> 0 .. SlotCount] /\ reads \in [Thread -> 0 .. SlotCount]
  BY DEF IInv, TypeOK
<1> DEFINE RC(b) == Cardinality(Readers(pc, b, "claim_full"))
           WS(b) == Cardinality(Writers(pc, b, "signal_full"))
           WC(b) == Cardinality(Writers(pc, b, "claim_empty"))
           RS(b) == Cardinality(Readers(pc, b, "signal_empty"))
           F(b) == Cardinality(Slots(state[b], "ready_for_reading"))
           E(b) == Cardinality(Slots(state[b], "ready_for_writing"))
<1> DEFINE Counted == {"claim_full", "signal_full", "claim_empty", "signal_empty"}
<1>n. ASSUME NEW b \in Buffer
      PROVE  /\ RC(b) \in Nat /\ WS(b) \in Nat /\ WC(b) \in Nat /\ RS(b) \in Nat
             /\ F(b) \in Nat /\ E(b) \in Nat /\ full[b] \in Nat /\ empty[b] \in Nat
             /\ full[b] \in 0 .. SlotCount /\ empty[b] \in 0 .. SlotCount
  BY <1>0, CountsType, SlotAssumption DEF TypeOK
<1>p. ASSUME NEW b \in Buffer
      PROVE  /\ ~error[b] => full[b] + RC(b) + WS(b) <= F(b)
             /\ ~stop[b] => empty[b] + WC(b) + RS(b) <= E(b)
  BY <1>0 DEF Promised, FullPromised, EmptyPromised
<1>q. ASSUME \A b \in Buffer :
               /\ ~error'[b] => full'[b] + RC(b)' + WS(b)' <= F(b)'
               /\ ~stop'[b] => empty'[b] + WC(b)' + RS(b)' <= E(b)'
      PROVE  Promised'
  BY <1>q DEF Promised, FullPromised, EmptyPromised
<1>1. ASSUME ReadLines PROVE Promised'
  <2>1. /\ UNCHANGED <<full, empty, state>>
        /\ \A b \in Buffer : (error[b] => error'[b]) /\ (stop[b] => stop'[b])
    BY <1>1, <1>0 DEF ReadLines, TypeOK
  <2>2. Goes(Loader, "read", "wait_empty")
    BY <1>1 DEF ReadLines
  <2> QED
    BY <2>1, <2>2, <1>0, UncountedStep DEF Counters
<1>2. ASSUME NEW t \in Worker \cup {Loader}, WaitEmpty(t) PROVE Promised'
  <2>1. Goes(t, "wait_empty", "claim_empty")
    BY <1>2 DEF WaitEmpty
  <2>2. ASSUME NEW b \in Buffer
        PROVE  /\ RC(b)' = RC(b)
               /\ WS(b)' = WS(b)
               /\ b = Target(t) => WC(b)' = WC(b) + 1
               /\ b # Target(t) => WC(b)' = WC(b)
               /\ RS(b)' = RS(b)
    BY <1>0, <2>1, ReadersCounted, WritersCounted DEF Counters
  <2>3. ASSUME NEW b \in Buffer
        PROVE  /\ b = Target(t) => empty'[b] = empty[b] - 1
               /\ b # Target(t) => empty'[b] = empty[b]
               /\ full'[b] = full[b]
               /\ F(b)' = F(b) /\ E(b)' = E(b) /\ error'[b] = error[b] /\ stop'[b] = stop[b]
    BY <1>2, <1>0 DEF WaitEmpty, TakeEmpty, TypeOK
  <2> QED
    BY <1>n, <1>p, <1>q, <2>2, <2>3
<1>3. ASSUME NEW t \in Worker \cup {Loader}, ClaimEmpty(t) PROVE Promised'
  <2>1. PICK there \in {"yield", "wait_full", "done"} : Goes(t, "claim_empty", there)
    BY <1>3 DEF ClaimEmpty
  <2>c. there \in Counters /\ there \notin Counted /\ "claim_empty" \in Counters /\ t \in Thread
    BY <2>1 DEF Counters, Thread
  <2>2. ASSUME NEW b \in Buffer
        PROVE  /\ RC(b)' = RC(b)
               /\ WS(b)' = WS(b)
               /\ b = Target(t) => WC(b)' = WC(b) - 1
               /\ b # Target(t) => WC(b)' = WC(b)
               /\ RS(b)' = RS(b)
    BY <1>0, <2>1, <2>c, ReadersCounted, WritersCounted
  <2>3. UNCHANGED <<full, empty, stop, error>>
    BY <1>3 DEF ClaimEmpty
  <2>4. ASSUME NEW i \in Slot, ClaimForWriting(Target(t), i) PROVE Promised'
    <3>1. Moves(Target(t), i, "ready_for_writing", "writing")
      BY <2>1, <2>4, <1>0, FirstFound DEF ClaimForWriting, Goes, Moves
    <3>2. ASSUME NEW b \in Buffer
          PROVE  /\ b = Target(t) => E(b)' = E(b) - 1
                 /\ b # Target(t) => E(b)' = E(b)
                 /\ F(b)' = F(b)
      BY <1>0, <3>1, SlotTakenToWrite
    <3> QED
      BY <1>n, <1>p, <1>q, <2>2, <2>3, <3>2
  <2>6. CASE CannotWrite(Target(t)) /\ UNCHANGED state
    <3>1. Cardinality(Slots(state[Target(t)], "ready_for_writing")) # 0 \/ stop[Target(t)]
      <4>1. WC(Target(t)) # 0
        <5>1. t \in Writers(pc, Target(t), "claim_empty")
          BY <2>1 DEF Writers, Goes
        <5> QED
          BY <5>1, CountsType, FS_EmptySet
      <4> QED
        BY <4>1, <1>n, <1>p
    <3>2. stop[Target(t)]
      BY <2>6, <3>1, CountsType, FS_EmptySet DEF CannotWrite, InState, Slots
    <3> QED
      BY <1>n, <1>p, <1>q, <2>2, <2>3, <2>6, <3>2
  <2> QED
    BY <1>3, <2>4, <2>6 DEF ClaimEmpty
<1>4. ASSUME YieldTile PROVE Promised'
  <2>1. Goes(Loader, "yield", "signal_full")
    BY <1>4 DEF YieldTile
  <2>2. ASSUME NEW b \in Buffer
        PROVE  /\ RC(b)' = RC(b)
               /\ b = "tile" => WS(b)' = WS(b) + 1
               /\ b # "tile" => WS(b)' = WS(b)
               /\ WC(b)' = WC(b)
               /\ RS(b)' = RS(b)
    BY <1>0, <2>1, ReadersCounted, WritersCounted DEF Counters
  <2>3. writes[Loader] \in Slot /\ writes[Loader] # 0
    BY <1>0, <2>1, Held, SlotAssumption DEF Goes, Compressing, Slot
  <2>4. state["tile"][writes[Loader]] = "writing"
    BY <1>0, <2>3 DEF SlotsExclusive
  <2>5. Moves("tile", writes[Loader], "writing", "ready_for_reading")
    BY <1>4, <2>4 DEF YieldTile, Yield, Moves
  <2>6. ASSUME NEW b \in Buffer
        PROVE  /\ b = "tile" => F(b)' = F(b) + 1
               /\ b # "tile" => F(b)' = F(b)
               /\ E(b)' = E(b)
    BY <1>0, <2>3, <2>5, SlotWritten
  <2>7. UNCHANGED <<full, empty, stop, error>>
    BY <1>4 DEF YieldTile
  <2> QED
    BY <1>n, <1>p, <1>q, <2>2, <2>6, <2>7
<1>5. ASSUME NEW w \in Worker, YieldTexture(w) PROVE Promised'
  <2>1. Goes(w, "yield", "signal_full")
    BY <1>5 DEF YieldTexture
  <2>2. ASSUME NEW b \in Buffer
        PROVE  /\ RC(b)' = RC(b)
               /\ b = "texture" => WS(b)' = WS(b) + 1
               /\ b # "texture" => WS(b)' = WS(b)
               /\ WC(b)' = WC(b)
               /\ RS(b)' = RS(b)
    BY <1>0, <2>1, ReadersCounted, WritersCounted DEF Counters
  <2>3. writes[w] \in Slot /\ writes[w] # 0
    BY <1>0, <2>1, Held, SlotAssumption DEF Goes, Compressing, Slot
  <2>4. state["texture"][writes[w]] = "writing"
    BY <1>0, <2>3 DEF SlotsExclusive
  <2>5. Moves("texture", writes[w], "writing", "ready_for_reading")
    BY <1>5, <2>4 DEF YieldTexture, Yield, Moves
  <2>6. ASSUME NEW b \in Buffer
        PROVE  /\ b = "texture" => F(b)' = F(b) + 1
               /\ b # "texture" => F(b)' = F(b)
               /\ E(b)' = E(b)
    BY <1>0, <2>3, <2>5, SlotWritten
  <2>7. UNCHANGED <<full, empty, stop, error>>
    BY <1>5 DEF YieldTexture
  <2> QED
    BY <1>n, <1>p, <1>q, <2>2, <2>6, <2>7
<1>6. ASSUME NEW t \in Worker \cup {Loader}, SignalFull(t) PROVE Promised'
  <2>1. PICK there \in {"wait_empty", "read", "done"} : Goes(t, "signal_full", there)
    BY <1>6 DEF SignalFull
  <2>c. there \in Counters /\ there \notin Counted /\ "signal_full" \in Counters /\ t \in Thread
    BY <2>1 DEF Counters, Thread
  <2>2. ASSUME NEW b \in Buffer
        PROVE  /\ RC(b)' = RC(b)
               /\ b = Target(t) => WS(b)' = WS(b) - 1
               /\ b # Target(t) => WS(b)' = WS(b)
               /\ WC(b)' = WC(b)
               /\ RS(b)' = RS(b)
    BY <1>0, <2>1, <2>c, ReadersCounted, WritersCounted
  <2>3. ASSUME NEW b \in Buffer
        PROVE  /\ b = Target(t) => full'[b] = Released(full[b], 1)
               /\ b # Target(t) => full'[b] = full[b]
    BY <1>6, <1>0 DEF SignalFull, AddFull, TypeOK
  <2>4. ASSUME NEW b \in Buffer
        PROVE  Released(full[b], 1) \in Nat /\ Released(full[b], 1) <= full[b] + 1
    <3>1. full[b] \in 0 .. SlotCount /\ full[b] \in Nat /\ 1 \in Nat
      BY <1>n
    <3> QED
      BY <3>1, SlotAssumption DEF Released
  <2>5. UNCHANGED <<empty, stop, error, state>>
    BY <1>6 DEF SignalFull
  <2> QED
    BY <1>n, <1>p, <1>q, <2>2, <2>3, <2>4, <2>5
<1>7. ASSUME GetNextTile PROVE Promised'
  <2>1. /\ UNCHANGED <<full, empty, state>>
        /\ \A b \in Buffer : (error[b] => error'[b]) /\ (stop[b] => stop'[b])
    BY <1>7, <1>0 DEF GetNextTile, TypeOK
  <2>2. Goes(Main, "idle", "wait_full")
    BY <1>7 DEF GetNextTile
  <2> QED
    BY <2>1, <2>2, <1>0, UncountedStep DEF Counters
<1>8. ASSUME NEW t \in Worker \cup {Main}, WaitFull(t) PROVE Promised'
  <2>1. Goes(t, "wait_full", "claim_full")
    BY <1>8 DEF WaitFull
  <2>2. ASSUME NEW b \in Buffer
        PROVE  /\ b = Source(t) => RC(b)' = RC(b) + 1
               /\ b # Source(t) => RC(b)' = RC(b)
               /\ WS(b)' = WS(b)
               /\ WC(b)' = WC(b)
               /\ RS(b)' = RS(b)
    BY <1>0, <2>1, ReadersCounted, WritersCounted DEF Counters
  <2>3. ASSUME NEW b \in Buffer
        PROVE  /\ b = Source(t) => full'[b] = full[b] - 1
               /\ b # Source(t) => full'[b] = full[b]
               /\ empty'[b] = empty[b]
               /\ F(b)' = F(b) /\ E(b)' = E(b) /\ error'[b] = error[b] /\ stop'[b] = stop[b]
    BY <1>8, <1>0 DEF WaitFull, TakeFull, TypeOK
  <2> QED
    BY <1>n, <1>p, <1>q, <2>2, <2>3
<1>9. ASSUME NEW t \in Worker \cup {Main}, ClaimFull(t) PROVE Promised'
  <2>1. PICK there \in {"copy", "stop_tile", "stop_consumer"} : Goes(t, "claim_full", there)
    BY <1>9 DEF ClaimFull
  <2>c. there \in Counters /\ there \notin Counted /\ "claim_full" \in Counters /\ t \in Thread
    BY <2>1 DEF Counters, Thread
  <2>2. ASSUME NEW b \in Buffer
        PROVE  /\ b = Source(t) => RC(b)' = RC(b) - 1
               /\ b # Source(t) => RC(b)' = RC(b)
               /\ WS(b)' = WS(b)
               /\ WC(b)' = WC(b)
               /\ RS(b)' = RS(b)
    BY <1>0, <2>1, <2>c, ReadersCounted, WritersCounted
  <2>3. UNCHANGED <<full, empty, stop, error>>
    BY <1>9 DEF ClaimFull
  <2>4. ASSUME NEW i \in Slot, ClaimForReading(Source(t), i) PROVE Promised'
    <3>1. Moves(Source(t), i, "ready_for_reading", "reading")
      BY <2>1, <2>4, <1>0, FirstFound, PromiseOfFull DEF ClaimForReading, Goes, Moves
    <3>2. ASSUME NEW b \in Buffer
          PROVE  /\ b = Source(t) => F(b)' = F(b) - 1
                 /\ b # Source(t) => F(b)' = F(b)
                 /\ E(b)' = E(b)
      BY <1>0, <3>1, SlotTakenToRead
    <3> QED
      BY <1>n, <1>p, <1>q, <2>2, <2>3, <3>2
  <2>6. CASE error[Source(t)] /\ UNCHANGED state
    BY <1>n, <1>p, <1>q, <2>2, <2>3, <2>6
  <2> QED
    BY <1>9, <2>4, <2>6 DEF ClaimFull
<1>10. ASSUME NEW w \in Worker, Compress(w) PROVE Promised'
  <2>1. /\ UNCHANGED <<full, empty, state>>
        /\ \A b \in Buffer : (error[b] => error'[b]) /\ (stop[b] => stop'[b])
    BY <1>10, <1>0 DEF Compress, TypeOK
  <2>2. Goes(w, "copy", "free")
    BY <1>10 DEF Compress
  <2> QED
    BY <2>1, <2>2, <1>0, UncountedStep DEF Counters
<1>11. ASSUME Receive PROVE Promised'
  <2>1. /\ UNCHANGED <<full, empty, state>>
        /\ \A b \in Buffer : (error[b] => error'[b]) /\ (stop[b] => stop'[b])
    BY <1>11, <1>0 DEF Receive, TypeOK
  <2>2. Goes(Main, "copy", "free")
    BY <1>11 DEF Receive
  <2> QED
    BY <2>1, <2>2, <1>0, UncountedStep DEF Counters
<1>12. ASSUME NEW t \in Worker \cup {Main}, FreeRead(t) PROVE Promised'
  <2>1. Goes(t, "free", "signal_empty")
    BY <1>12 DEF FreeRead
  <2>2. ASSUME NEW b \in Buffer
        PROVE  /\ RC(b)' = RC(b)
               /\ WS(b)' = WS(b)
               /\ WC(b)' = WC(b)
               /\ b = Source(t) => RS(b)' = RS(b) + 1
               /\ b # Source(t) => RS(b)' = RS(b)
    BY <1>0, <2>1, ReadersCounted, WritersCounted DEF Counters
  <2>3. reads[t] \in Slot /\ reads[t] # 0
    BY <1>0, <2>1, Held, SlotAssumption DEF Goes, Compressing, Slot
  <2>4. state[Source(t)][reads[t]] = "reading"
    BY <1>0, <2>3 DEF SlotsExclusive
  <2>5. Moves(Source(t), reads[t], "reading", "ready_for_writing")
    BY <1>12, <2>4 DEF FreeRead, FreeSlot, Moves
  <2>6. ASSUME NEW b \in Buffer
        PROVE  /\ b = Source(t) => E(b)' = E(b) + 1
               /\ b # Source(t) => E(b)' = E(b)
               /\ F(b)' = F(b)
    BY <1>0, <2>3, <2>5, SlotRead
  <2>7. UNCHANGED <<full, empty, stop, error>>
    BY <1>12 DEF FreeRead
  <2> QED
    BY <1>n, <1>p, <1>q, <2>2, <2>6, <2>7
<1>13. ASSUME NEW t \in Worker \cup {Main}, SignalEmpty(t) PROVE Promised'
  <2>1. PICK there \in {"idle", "yield"} : Goes(t, "signal_empty", there)
    BY <1>13 DEF SignalEmpty
  <2>c. there \in Counters /\ there \notin Counted /\ "signal_empty" \in Counters /\ t \in Thread
    BY <2>1 DEF Counters, Thread
  <2>2. ASSUME NEW b \in Buffer
        PROVE  /\ RC(b)' = RC(b)
               /\ WS(b)' = WS(b)
               /\ WC(b)' = WC(b)
               /\ b = Source(t) => RS(b)' = RS(b) - 1
               /\ b # Source(t) => RS(b)' = RS(b)
    BY <1>0, <2>1, <2>c, ReadersCounted, WritersCounted
  <2>3. ASSUME NEW b \in Buffer
        PROVE  /\ b = Source(t) => empty'[b] = Released(empty[b], 1)
               /\ b # Source(t) => empty'[b] = empty[b]
    BY <1>13, <1>0 DEF SignalEmpty, AddEmpty, TypeOK
  <2>4. ASSUME NEW b \in Buffer
        PROVE  Released(empty[b], 1) \in Nat /\ Released(empty[b], 1) <= empty[b] + 1
    <3>1. empty[b] \in 0 .. SlotCount /\ empty[b] \in Nat /\ 1 \in Nat
      BY <1>n
    <3> QED
      BY <3>1, SlotAssumption DEF Released
  <2>5. UNCHANGED <<full, stop, error, state>>
    BY <1>13 DEF SignalEmpty
  <2> QED
    BY <1>n, <1>p, <1>q, <2>2, <2>3, <2>4, <2>5
<1>14. ASSUME Fail PROVE Promised'
  <2>1. /\ UNCHANGED <<full, empty, state>>
        /\ \A b \in Buffer : (error[b] => error'[b]) /\ (stop[b] => stop'[b])
    BY <1>14, <1>0 DEF Fail, TypeOK
  <2>2. Goes(Loader, "read", "stop_consumer")
    BY <1>14 DEF Fail
  <2> QED
    BY <2>1, <2>2, <1>0, UncountedStep DEF Counters
<1>15. ASSUME NEW t \in Worker \cup {Loader}, StopConsumer(t) PROVE Promised'
  <2>1. /\ UNCHANGED <<full, empty, state>>
        /\ \A b \in Buffer : (error[b] => error'[b]) /\ (stop[b] => stop'[b])
    BY <1>15, <1>0 DEF StopConsumer, SetError, TypeOK
  <2>2. Goes(t, "stop_consumer", "signal_stop")
    BY <1>15 DEF StopConsumer
  <2> QED
    BY <2>1, <2>2, <1>0, UncountedStep DEF Counters
<1>16. ASSUME NEW t \in Worker \cup {Loader}, SignalStop(t) PROVE Promised'
  <2>1. Goes(t, "signal_stop", "done")
    BY <1>16 DEF SignalStop
  <2>2. ASSUME NEW c \in Buffer
        PROVE  /\ RC(c)' = RC(c)
               /\ WS(c)' = WS(c)
               /\ WC(c)' = WC(c)
               /\ RS(c)' = RS(c)
    BY <1>0, <2>1, ReadersCounted, WritersCounted DEF Counters
  <2>3. error[Target(t)]
    BY <1>16, <1>0 DEF SignalStop, Goes, Stopping, StoppingTile, StoppingTexture
  <2>4. ASSUME NEW c \in Buffer, c # Target(t) PROVE full'[c] = full[c]
    BY <1>16, <1>0, <2>4 DEF SignalStop, AddFull, TypeOK
  <2>5. UNCHANGED <<empty, stop, error, state>>
    BY <1>16 DEF SignalStop
  <2> QED
    BY <1>n, <1>p, <1>q, <2>2, <2>3, <2>4, <2>5
<1>17. ASSUME Destroy PROVE Promised'
  <2>1. /\ UNCHANGED <<full, empty, state>>
        /\ \A b \in Buffer : (error[b] => error'[b]) /\ (stop[b] => stop'[b])
    BY <1>17, <1>0 DEF Destroy, TypeOK
  <2>2. Goes(Main, "idle", "stop_tile")
    BY <1>17 DEF Destroy
  <2> QED
    BY <2>1, <2>2, <1>0, UncountedStep DEF Counters
<1>18. ASSUME NEW b \in Buffer, StopProducer(b) PROVE Promised'
  <2>1. /\ UNCHANGED <<full, empty, state>>
        /\ \A c \in Buffer : (error[c] => error'[c]) /\ (stop[c] => stop'[c])
    BY <1>18, <1>0 DEF StopProducer, SetStop, TypeOK
  <2>2. CASE Goes(Main, "stop_tile", "wake_tile_writers")
    BY <2>1, <2>2, <1>0, UncountedStep DEF Counters
  <2>3. CASE Goes(Main, "stop_texture", "wake_texture_writers")
    BY <2>1, <2>3, <1>0, UncountedStep DEF Counters
  <2> QED
    BY <1>18, <2>2, <2>3 DEF StopProducer
<1>19. ASSUME NEW b \in Buffer, WakeWriters(b) PROVE Promised'
  <2>1. PICK here \in {"wake_tile_writers", "wake_texture_writers"},
            there \in {"wake_tile_readers", "wake_texture_readers"}
              : Goes(Main, here, there)
    BY <1>19 DEF WakeWriters
  <2>c. there \in Counters /\ here \in Counters \ Counted /\ there \notin Counted /\ here # there
    BY <2>1 DEF Counters
  <2>2. ASSUME NEW c \in Buffer
        PROVE  /\ RC(c)' = RC(c)
               /\ WS(c)' = WS(c)
               /\ WC(c)' = WC(c)
               /\ RS(c)' = RS(c)
    BY <1>0, <2>1, <2>c, ReadersCounted, WritersCounted
  <2>3. stop[b]
    BY <1>19, <1>0 DEF WakeWriters, Goes, Stopping, StoppingTile, StoppingTexture
  <2>4. ASSUME NEW c \in Buffer, c # b PROVE empty'[c] = empty[c]
    BY <1>19, <1>0, <2>4 DEF WakeWriters, AddEmpty, TypeOK
  <2>5. UNCHANGED <<full, stop, error, state>>
    BY <1>19 DEF WakeWriters
  <2> QED
    BY <1>n, <1>p, <1>q, <2>2, <2>3, <2>4, <2>5
<1>20. ASSUME NEW b \in Buffer, WakeReaders(b) PROVE Promised'
  <2>1. PICK here \in {"wake_tile_readers", "wake_texture_readers"}, there \in {"stop_texture", "join"}
            : Goes(Main, here, there)
    BY <1>20 DEF WakeReaders
  <2>c. there \in Counters /\ here \in Counters \ Counted /\ there \notin Counted /\ here # there
    BY <2>1 DEF Counters
  <2>2. ASSUME NEW c \in Buffer
        PROVE  /\ RC(c)' = RC(c)
               /\ WS(c)' = WS(c)
               /\ WC(c)' = WC(c)
               /\ RS(c)' = RS(c)
    BY <1>0, <2>1, <2>c, ReadersCounted, WritersCounted
  <2>3. error[b]
    BY <1>20, <1>0 DEF WakeReaders, Goes, Stopping, StoppingTile, StoppingTexture
  <2>4. ASSUME NEW c \in Buffer, c # b PROVE full'[c] = full[c]
    BY <1>20, <1>0, <2>4 DEF WakeReaders, AddFull, TypeOK
  <2>5. UNCHANGED <<empty, stop, error, state>>
    BY <1>20 DEF WakeReaders
  <2> QED
    BY <1>n, <1>p, <1>q, <2>2, <2>3, <2>4, <2>5
<1>21. ASSUME Delete PROVE Promised'
  <2>1. /\ UNCHANGED <<full, empty, state>>
        /\ \A b \in Buffer : (error[b] => error'[b]) /\ (stop[b] => stop'[b])
    BY <1>21, <1>0 DEF Delete, TypeOK
  <2>2. Goes(Main, "join", "deleted")
    BY <1>21 DEF Delete
  <2> QED
    BY <2>1, <2>2, <1>0, UncountedStep DEF Counters
<1>22. CASE UNCHANGED vars
  BY <1>22, <1>0 DEF vars, Promised, FullPromised, EmptyPromised
<1> QED
  BY <1>1, <1>2, <1>3, <1>4, <1>5, <1>6, <1>7, <1>8, <1>9, <1>10, <1>11,
     <1>12, <1>13, <1>14, <1>15, <1>16, <1>17, <1>18, <1>19, <1>20, <1>21, <1>22
     DEF Next, LoaderStep, WorkerStep, MainStep, Finished

-----------------------------------------------------------------------------
(* The tiles in the slots have been loaded.                                *)

\* Tiles come from the loader, whatever is copied afterwards.
LEMMA LoadingStep ==
  ASSUME IInv, [Next]_vars
  PROVE  Loading'
<1> USE ThreadNames, BufferNames DEF bufferVars
<1>0. /\ TypeOK /\ Programs /\ Holding /\ Loading
      /\ pc \in [Thread -> Counters] /\ loaded \in 0 .. TileCount /\ TileCount \in Nat
      /\ tile \in [Buffer -> [Slot -> 0 .. loaded]] /\ got \in Seq(0 .. loaded)
      /\ pc[Loader] \in {"read", "wait_empty", "claim_empty", "yield"} => loaded < TileCount
  BY PipelineAssumption DEF IInv, TypeOK, Loading
<1>1. ASSUME ReadLines PROVE Loading'
  BY <1>1, <1>0 DEF ReadLines, Goes, Loading
<1>2. ASSUME NEW t \in Worker \cup {Loader}, WaitEmpty(t) PROVE Loading'
  <2>1. UNCHANGED <<loaded, tile, got>>
    BY <1>2 DEF WaitEmpty
  <2>2. pc'[Loader] \in {"read", "wait_empty", "claim_empty", "yield"} => loaded < TileCount
    <3>1. CASE t = Loader
      BY <1>2, <3>1, <1>0 DEF WaitEmpty, Goes
    <3>2. CASE t # Loader
      BY <1>2, <3>2, <1>0 DEF WaitEmpty, Goes, Thread
    <3> QED
      BY <3>1, <3>2
  <2> QED
    BY <2>1, <2>2, <1>0 DEF Loading
<1>3. ASSUME NEW t \in Worker \cup {Loader}, ClaimEmpty(t) PROVE Loading'
  <2>1. UNCHANGED <<loaded, tile, got>>
    BY <1>3 DEF ClaimEmpty
  <2>2. pc'[Loader] \in {"read", "wait_empty", "claim_empty", "yield"} => loaded < TileCount
    <3>1. CASE t = Loader
      BY <1>3, <3>1, <1>0 DEF ClaimEmpty, Goes
    <3>2. CASE t # Loader
      BY <1>3, <3>2, <1>0 DEF ClaimEmpty, Goes, Thread
    <3> QED
      BY <3>1, <3>2
  <2> QED
    BY <2>1, <2>2, <1>0 DEF Loading
<1>4. ASSUME YieldTile PROVE Loading'
  <2>1. pc[Loader] = "yield" /\ pc'[Loader] = "signal_full" /\ loaded' = loaded + 1 /\ got' = got
    BY <1>4, <1>0 DEF YieldTile, Goes
  <2>2. 0 .. loaded \subseteq 0 .. loaded' /\ loaded' \in 0 .. loaded'
    BY <2>1, <1>0
  <2>3. tile \in [Buffer -> [Slot -> 0 .. loaded']]
    <3>1. \A b \in Buffer : tile[b] \in [Slot -> 0 .. loaded']
      BY <1>0, <2>2
    <3> QED
      BY <1>0, <3>1
  <2>4. got' \in Seq(0 .. loaded')
    BY <1>0, <2>1, <2>2, SeqMonotonic
  <2>5. writes[Loader] \in Slot
    BY <1>0, <2>1, Held
  <2>6. tile' = [tile EXCEPT !["tile"][writes[Loader]] = loaded']
    BY <1>4, <2>1 DEF YieldTile, Yield
  <2>7. tile' \in [Buffer -> [Slot -> 0 .. loaded']]
    BY <2>2, <2>3, <2>5, <2>6, SlotType
  <2> QED
    BY <2>1, <2>4, <2>7 DEF Loading
<1>5. ASSUME NEW w \in Worker, YieldTexture(w) PROVE Loading'
  <2>1. UNCHANGED <<loaded, got>> /\ pc'[Loader] = pc[Loader]
    BY <1>5, <1>0 DEF YieldTexture, Goes
  <2>2. writes[w] \in Slot
    BY <1>5, <1>0, Held DEF YieldTexture, Goes, Compressing
  <2>3. tile["texture"][writes[w]] \in 0 .. loaded
    BY <1>0, <2>2
  <2>4. tile' = [tile EXCEPT !["texture"][writes[w]] = tile["texture"][writes[w]]]
    BY <1>5 DEF YieldTexture, Yield
  <2>5. tile' \in [Buffer -> [Slot -> 0 .. loaded]]
    BY <1>0, <2>2, <2>3, <2>4, SlotType
  <2> QED
    BY <2>1, <2>5, <1>0 DEF Loading
<1>6. ASSUME NEW t \in Worker \cup {Loader}, SignalFull(t) PROVE Loading'
  <2>1. UNCHANGED <<loaded, tile, got>>
    BY <1>6 DEF SignalFull
  <2>2. pc'[Loader] \in {"read", "wait_empty", "claim_empty", "yield"} => loaded < TileCount
    <3>1. CASE t = Loader
      BY <1>6, <3>1, <1>0 DEF SignalFull, Goes
    <3>2. CASE t # Loader
      BY <1>6, <3>2, <1>0 DEF SignalFull, Goes, Thread
    <3> QED
      BY <3>1, <3>2
  <2> QED
    BY <2>1, <2>2, <1>0 DEF Loading
<1>7. ASSUME GetNextTile PROVE Loading'
  <2>1. UNCHANGED <<loaded, tile, got>>
    BY <1>7 DEF GetNextTile
  <2>2. pc'[Loader] = pc[Loader]
    BY <1>7, <1>0 DEF GetNextTile, Goes, Thread
  <2> QED
    BY <2>1, <2>2, <1>0 DEF Loading
<1>8. ASSUME NEW t \in Worker \cup {Main}, WaitFull(t) PROVE Loading'
  <2>1. UNCHANGED <<loaded, tile, got>>
    BY <1>8 DEF WaitFull
  <2>2. pc'[Loader] = pc[Loader]
    BY <1>8, <1>0 DEF WaitFull, Goes, Thread
  <2> QED
    BY <2>1, <2>2, <1>0 DEF Loading
<1>9. ASSUME NEW t \in Worker \cup {Main}, ClaimFull(t) PROVE Loading'
  <2>1. UNCHANGED <<loaded, tile, got>>
    BY <1>9 DEF ClaimFull
  <2>2. pc'[Loader] = pc[Loader]
    BY <1>9, <1>0 DEF ClaimFull, Goes, Thread
  <2> QED
    BY <2>1, <2>2, <1>0 DEF Loading
<1>10. ASSUME NEW w \in Worker, Compress(w) PROVE Loading'
  <2>1. UNCHANGED <<loaded, got>> /\ pc'[Loader] = pc[Loader]
    BY <1>10, <1>0 DEF Compress, Goes
  <2>2. writes[w] \in Slot /\ reads[w] \in Slot
    BY <1>10, <1>0, Held DEF Compress, Goes, Compressing
  <2>3. tile["tile"][reads[w]] \in 0 .. loaded
    BY <1>0, <2>2
  <2>4. tile' = [tile EXCEPT !["texture"][writes[w]] = tile["tile"][reads[w]]]
    BY <1>10 DEF Compress
  <2>5. tile' \in [Buffer -> [Slot -> 0 .. loaded]]
    BY <1>0, <2>2, <2>3, <2>4, SlotType
  <2> QED
    BY <2>1, <2>5, <1>0 DEF Loading
<1>11. ASSUME Receive PROVE Loading'
  <2>1. UNCHANGED <<loaded, tile>> /\ pc'[Loader] = pc[Loader]
    BY <1>11, <1>0 DEF Receive, Goes
  <2>2. reads[Main] \in Slot
    BY <1>11, <1>0, Held DEF Receive, Goes
  <2>3. tile[Source(Main)][reads[Main]] \in 0 .. loaded
    BY <1>0, <2>2
  <2>4. got' \in Seq(0 .. loaded)
    BY <1>11, <1>0, <2>3, AppendProperties DEF Receive
  <2> QED
    BY <2>1, <2>4, <1>0 DEF Loading
<1>12. ASSUME NEW t \in Worker \cup {Main}, FreeRead(t) PROVE Loading'
  <2>1. UNCHANGED <<loaded, tile, got>>
    BY <1>12 DEF FreeRead
  <2>2. pc'[Loader] = pc[Loader]
    BY <1>12, <1>0 DEF FreeRead, Goes, Thread
  <2> QED
    BY <2>1, <2>2, <1>0 DEF Loading
<1>13. ASSUME NEW t \in Worker \cup {Main}, SignalEmpty(t) PROVE Loading'
  <2>1. UNCHANGED <<loaded, tile, got>>
    BY <1>13 DEF SignalEmpty
  <2>2. pc'[Loader] = pc[Loader]
    BY <1>13, <1>0 DEF SignalEmpty, Goes, Thread
  <2> QED
    BY <2>1, <2>2, <1>0 DEF Loading
<1>14. ASSUME Fail PROVE Loading'
  BY <1>14, <1>0 DEF Fail, Goes, Loading
<1>15. ASSUME NEW t \in Worker \cup {Loader}, StopConsumer(t) PROVE Loading'
  <2>1. UNCHANGED <<loaded, tile, got>>
    BY <1>15 DEF StopConsumer
  <2>2. pc'[Loader] \in {"read", "wait_empty", "claim_empty", "yield"} => loaded < TileCount
    <3>1. CASE t = Loader
      BY <1>15, <3>1, <1>0 DEF StopConsumer, Goes
    <3>2. CASE t # Loader
      BY <1>15, <3>2, <1>0 DEF StopConsumer, Goes, Thread
    <3> QED
      BY <3>1, <3>2
  <2> QED
    BY <2>1, <2>2, <1>0 DEF Loading
<1>16. ASSUME NEW t \in Worker \cup {Loader}, SignalStop(t) PROVE Loading'
  <2>1. UNCHANGED <<loaded, tile, got>>
    BY <1>16 DEF SignalStop
  <2>2. pc'[Loader] \in {"read", "wait_empty", "claim_empty", "yield"} => loaded < TileCount
    <3>1. CASE t = Loader
      BY <1>16, <3>1, <1>0 DEF SignalStop, Goes
    <3>2. CASE t # Loader
      BY <1>16, <3>2, <1>0 DEF SignalStop, Goes, Thread
    <3> QED
      BY <3>1, <3>2
  <2> QED
    BY <2>1, <2>2, <1>0 DEF Loading
<1>17. ASSUME Destroy PROVE Loading'
  <2>1. UNCHANGED <<loaded, tile, got>>
    BY <1>17 DEF Destroy
  <2>2. pc'[Loader] = pc[Loader]
    BY <1>17, <1>0 DEF Destroy, Goes, Thread
  <2> QED
    BY <2>1, <2>2, <1>0 DEF Loading
<1>18. ASSUME NEW b \in Buffer, StopProducer(b) PROVE Loading'
  <2>1. UNCHANGED <<loaded, tile, got>>
    BY <1>18 DEF StopProducer
  <2>2. pc'[Loader] = pc[Loader]
    BY <1>18, <1>0 DEF StopProducer, Goes, Thread
  <2> QED
    BY <2>1, <2>2, <1>0 DEF Loading
<1>19. ASSUME NEW b \in Buffer, WakeWriters(b) PROVE Loading'
  <2>1. UNCHANGED <<loaded, tile, got>>
    BY <1>19 DEF WakeWriters
  <2>2. pc'[Loader] = pc[Loader]
    BY <1>19, <1>0 DEF WakeWriters, Goes, Thread
  <2> QED
    BY <2>1, <2>2, <1>0 DEF Loading
<1>20. ASSUME NEW b \in Buffer, WakeReaders(b) PROVE Loading'
  <2>1. UNCHANGED <<loaded, tile, got>>
    BY <1>20 DEF WakeReaders
  <2>2. pc'[Loader] = pc[Loader]
    BY <1>20, <1>0 DEF WakeReaders, Goes, Thread
  <2> QED
    BY <2>1, <2>2, <1>0 DEF Loading
<1>21. ASSUME Delete PROVE Loading'
  <2>1. UNCHANGED <<loaded, tile, got>>
    BY <1>21 DEF Delete
  <2>2. pc'[Loader] = pc[Loader]
    BY <1>21, <1>0 DEF Delete, Goes, Thread
  <2> QED
    BY <2>1, <2>2, <1>0 DEF Loading
<1>22. CASE UNCHANGED vars
  BY <1>22, <1>0 DEF vars, Loading
<1> QED
  BY <1>1, <1>2, <1>3, <1>4, <1>5, <1>6, <1>7, <1>8, <1>9, <1>10, <1>11,
     <1>12, <1>13, <1>14, <1>15, <1>16, <1>17, <1>18, <1>19, <1>20, <1>21, <1>22
     DEF Next, LoaderStep, WorkerStep, MainStep, Finished

-----------------------------------------------------------------------------
(* The invariant is inductive.                                             *)

\* The invariant holds before the first step ...
LEMMA InvariantInit ==
  ASSUME Init
  PROVE  IInv
<1> USE ThreadNames, BufferNames
<1>1. \A t \in Thread : /\ t = Main => pc[t] = "idle"
                        /\ t = Loader => pc[t] = "read"
                        /\ t \in Worker => pc[t] = "wait_empty"
  BY DEF Init
<1>2. pc \in [Thread -> Counters]
  BY <1>1 DEF Init, Counters, Thread
<1>3. TypeOK
  <2>1. /\ full \in [Buffer -> 0 .. SlotCount] /\ empty \in [Buffer -> 0 .. SlotCount]
        /\ tile \in [Buffer -> [Slot -> 0 .. TileCount]]
        /\ writes \in [Thread -> 0 .. SlotCount] /\ reads \in [Thread -> 0 .. SlotCount]
        /\ loaded \in 0 .. TileCount
    BY SlotAssumption, PipelineAssumption DEF Init, BufferInit
  <2>2. /\ stop \in [Buffer -> BOOLEAN] /\ error \in [Buffer -> BOOLEAN]
        /\ state \in [Buffer -> [Slot -> SlotStates]]
    BY DEF Init, BufferInit, SlotStates
  <2>3. got \in Seq(0 .. TileCount)
    BY EmptySeq DEF Init
  <2> QED
    BY <1>2, <2>1, <2>2, <2>3 DEF TypeOK
<1>4. Programs
  BY <1>1 DEF Programs, LoaderCounters, WorkerCounters, MainCounters
<1>5. Holding
  BY <1>1 DEF Holding, Init, Compressing, Thread
<1>6. Loading
  <2>1. loaded = 0 /\ tile = [b \in Buffer |-> [i \in Slot |-> 0]] /\ got = <<>>
    BY DEF Init, BufferInit
  <2>2. tile \in [Buffer -> [Slot -> 0 .. loaded]]
    BY <2>1
  <2>3. got \in Seq(0 .. loaded)
    BY <2>1, EmptySeq
  <2> QED
    BY <2>1, <2>2, <2>3, PipelineAssumption DEF Loading
<1>7. Stopping
  BY <1>1 DEF Stopping, StoppingTile, StoppingTexture, Init, BufferInit, Thread
<1>8. SlotsExclusive
  BY DEF SlotsExclusive, Init
<1>9. Promised
  <2>1. ASSUME NEW b \in Buffer
        PROVE  /\ Readers(pc, b, "claim_full") = {} /\ Writers(pc, b, "signal_full") = {}
               /\ Writers(pc, b, "claim_empty") = {} /\ Readers(pc, b, "signal_empty") = {}
    BY <1>1 DEF Readers, Writers, Thread
  <2>2. ASSUME NEW b \in Buffer
        PROVE  full[b] = 0 /\ empty[b] = SlotCount /\ Slots(state[b], "ready_for_writing") = Slot
    BY DEF Init, BufferInit, Slots
  <2>3. Cardinality(Slot) = SlotCount
    BY SlotAssumption, FS_Interval DEF Slot
  <2>4. ASSUME NEW b \in Buffer PROVE FullPromised(b)
    <3>1. Cardinality(Readers(pc, b, "claim_full")) = 0 /\ Cardinality(Writers(pc, b, "signal_full")) = 0
      BY <2>1, FS_EmptySet
    <3> QED
      BY <3>1, <2>2, CountsType DEF FullPromised
  <2>5. ASSUME NEW b \in Buffer PROVE EmptyPromised(b)
    <3>1. Cardinality(Writers(pc, b, "claim_empty")) = 0 /\ Cardinality(Readers(pc, b, "signal_empty")) = 0
      BY <2>1, FS_EmptySet
    <3> QED
      BY <3>1, <2>2, <2>3, SlotAssumption DEF EmptyPromised
  <2> QED
    BY <2>4, <2>5 DEF Promised
<1> QED
  BY <1>3, <1>4, <1>5, <1>6, <1>7, <1>8, <1>9 DEF IInv

\* ... and after each one.
LEMMA InvariantStep ==
  ASSUME IInv, [Next]_vars
  PROVE  IInv'
BY TypeStep, ProgramsStep, HoldingStep, LoadingStep, StoppingStep, PromisedStep, ExclusiveStep
   DEF IInv

\* In every behaviour the invariant holds.
THEOREM Invariance == Spec => []IInv
BY InvariantInit, InvariantStep, PTL DEF Spec

\* The types of the buffers' and the threads' variables.  (synchronized_tile_buffer)
THEOREM TypesOK == Spec => []TypeOK
<1>1. IInv => TypeOK
  BY DEF IInv
<1> QED
  BY <1>1, Invariance, PTL

\* The threads copy tiles outside of the critical section, but never two of them in one
\* slot.  (allocate_write_slot and allocate_read_slot)
THEOREM SlotsAreExclusive == Spec => []SlotsExclusive
<1>1. IInv => SlotsExclusive
  BY DEF IInv
<1> QED
  BY <1>1, Invariance, PTL

\* A thread that passed a semaphore finds a slot, unless it is told to stop: the index that
\* allocate_read_slot leaves unset otherwise is never used.
THEOREM SlotIsPromised == Spec => []SlotPromised
<1>1. ASSUME IInv PROVE SlotPromised
  <2>1. ASSUME NEW b \in Buffer
        PROVE  /\ full[b] \in Nat /\ empty[b] \in Nat
               /\ ~error[b] => FullPromised(b)
               /\ ~stop[b] => EmptyPromised(b)
    BY <1>1, SlotAssumption DEF IInv, TypeOK, Promised
  <2>2. ASSUME NEW b \in Buffer, NEW f \in Nat, NEW r \in Nat, NEW w \in Nat, NEW n \in Nat, f + r + w <= n
        PROVE  f + r <= n /\ f + w <= n
    BY <2>2
  <2>3. ASSUME NEW b \in Buffer, ~error[b]
        PROVE  full[b] + Cardinality(Readers(pc, b, "claim_full"))
                 <= Cardinality(Slots(state[b], "ready_for_reading"))
    BY <2>1, <2>2, <2>3, CountsType DEF FullPromised
  <2>4. ASSUME NEW b \in Buffer, ~stop[b]
        PROVE  empty[b] + Cardinality(Writers(pc, b, "claim_empty"))
                 <= Cardinality(Slots(state[b], "ready_for_writing"))
    BY <2>1, <2>2, <2>4, CountsType DEF EmptyPromised
  <2> QED
    BY <2>3, <2>4 DEF SlotPromised, Readers, Writers, Slots, InState
<1> QED
  BY <1>1, Invariance, PTL

-----------------------------------------------------------------------------
(* Every tile is at one place.                                             *)

\* Each tile that has been loaded is at exactly one place.
Once == \A n \in 1 .. loaded : \E x : Places(n) = {x}

\* Where a worker is while it has compressed the tile, but not handed it over.
Compressed == {"free", "signal_empty", "yield"}

\* A tile is where it was, if what is in the slots and what they are used for is the same.
LEMMA SamePlaces ==
  ASSUME NEW n, got' = got,
         \A b \in Buffer, i \in Slot :
           (tile'[b][i] = n /\ OnItsWay(b, i)') <=> (tile[b][i] = n /\ OnItsWay(b, i))
  PROVE  Places(n)' = Places(n)
BY DEF Places

\* A slot holds a tile on its way as long as the threads that use it do the same with it.
LEMMA OnItsWayKept ==
  ASSUME NEW b \in Buffer, NEW i \in Slot, state'[b][i] = state[b][i],
         \A t \in Thread : Source(t) = b =>
           ((reads'[t] = i /\ pc'[t] = "copy") <=> (reads[t] = i /\ pc[t] = "copy")),
         \A w \in Worker : Target(w) = b =>
           ((writes'[w] = i /\ pc'[w] \in Compressed) <=> (writes[w] = i /\ pc[w] \in Compressed))
  PROVE  OnItsWay(b, i)' <=> OnItsWay(b, i)
BY DEF OnItsWay, Compressed

\* A step of a thread that claims no slot and gives none back.
LEMMA StillOnItsWay ==
  ASSUME TypeOK, NEW t \in Thread, NEW here, NEW there \in Counters, Goes(t, here, there),
         UNCHANGED <<state, writes, reads>>,
         here # "copy", there # "copy", t \in Worker => (here \in Compressed <=> there \in Compressed)
  PROVE  \A b \in Buffer, i \in Slot : OnItsWay(b, i)' <=> OnItsWay(b, i)
<1>1. /\ pc[t] = here /\ pc'[t] = there /\ \A u \in Thread \ {t} : pc'[u] = pc[u]
  BY GoesOn DEF TypeOK
<1>2. \A u \in Thread : pc'[u] = "copy" <=> pc[u] = "copy"
  BY <1>1
<1>3. \A w \in Worker : pc'[w] \in Compressed <=> pc[w] \in Compressed
  BY <1>1, ThreadNames
<1> QED
  BY <1>2, <1>3 DEF OnItsWay, Compressed

\* Then no tile moves.
LEMMA QuietStep ==
  ASSUME TypeOK, Once, NEW t \in Thread, NEW here, NEW there \in Counters, Goes(t, here, there),
         UNCHANGED <<state, tile, writes, reads, loaded, got>>,
         here # "copy", there # "copy", t \in Worker => (here \in Compressed <=> there \in Compressed)
  PROVE  Once'
<1>1. \A b \in Buffer, i \in Slot : OnItsWay(b, i)' <=> OnItsWay(b, i)
  BY StillOnItsWay
<1>2. \A n : Places(n)' = Places(n)
  BY <1>1, SamePlaces
<1> QED
  BY <1>2 DEF Once

\* Yielding puts a new tile at a place; compressing and receiving move one from its
\* place to another.
LEMMA OnceStep ==
  ASSUME IInv, Once, [Next]_vars
  PROVE  Once'
<1> USE ThreadNames, BufferNames DEF bufferVars
<1>0. /\ TypeOK /\ Programs /\ Holding /\ Loading /\ Promised /\ SlotsExclusive /\ Once
      /\ pc \in [Thread -> Counters] /\ state \in [Buffer -> [Slot -> SlotStates]]
      /\ tile \in [Buffer -> [Slot -> 0 .. loaded]] /\ loaded \in Nat /\ got \in Seq(0 .. loaded)
      /\ writes \in [Thread -> 0 .. SlotCount] /\ reads \in [Thread -> 0 .. SlotCount]
  BY PipelineAssumption DEF IInv, TypeOK, Loading
<1>q. ASSUME loaded' = loaded, \A n \in 1 .. loaded : Places(n)' = Places(n)
      PROVE  Once'
  BY <1>q, <1>0 DEF Once
<1>1. ASSUME ReadLines PROVE Once'
  <2>1. UNCHANGED <<state, tile, writes, reads, loaded, got>> /\ Goes(Loader, "read", "wait_empty")
    BY <1>1 DEF ReadLines
  <2> QED
    BY <2>1, <1>0, QuietStep DEF Counters, Compressed
<1>2. ASSUME NEW t \in Worker \cup {Loader}, WaitEmpty(t) PROVE Once'
  <2>1. UNCHANGED <<state, tile, writes, reads, loaded, got>> /\ Goes(t, "wait_empty", "claim_empty")
    BY <1>2 DEF WaitEmpty
  <2> QED
    BY <2>1, <1>0, QuietStep DEF Counters, Compressed
<1>3. ASSUME NEW t \in Worker \cup {Loader}, ClaimEmpty(t) PROVE Once'
  <2>1. UNCHANGED <<tile, reads, loaded, got>>
    BY <1>3 DEF ClaimEmpty
  <2>2. PICK there \in {"yield", "wait_full", "done"} :
          /\ Goes(t, "claim_empty", there)
          /\ \/ UNCHANGED <<state, writes>> /\ there = "done"
             \/ /\ \E i \in Slot : ClaimForWriting(Target(t), i) /\ writes' = [writes EXCEPT ![t] = i]
                /\ there \in {"yield", "wait_full"} /\ (t \in Worker => there = "wait_full")
    BY <1>3 DEF ClaimEmpty
  <2>3. t \in Thread /\ there \in Counters
    BY <2>2 DEF Counters
  <2>4. CASE UNCHANGED <<state, writes>> /\ there = "done"
    BY <2>1, <2>2, <2>3, <2>4, <1>0, QuietStep DEF Compressed
  <2>5. ASSUME NEW i \in Slot, ClaimForWriting(Target(t), i), writes' = [writes EXCEPT ![t] = i],
               there \in {"yield", "wait_full"} /\ (t \in Worker => there = "wait_full")
        PROVE  Once'
    <3>1. pc[t] = "claim_empty" /\ pc'[t] = there /\ \A u \in Thread \ {t} : pc'[u] = pc[u]
      BY <2>2, <2>3, <1>0, GoesOn
    <3>2. state[Target(t)][i] = "ready_for_writing" /\ state' = [state EXCEPT ![Target(t)][i] = "writing"]
      <4>1. InState(Target(t), "ready_for_writing") # {}
        BY <2>3, <2>5, <3>1, <1>0 DEF ClaimForWriting
      <4> QED
        BY <2>5, <4>1, FirstFound DEF ClaimForWriting
    <3>3. /\ state'[Target(t)][i] = "writing"
          /\ \A b \in Buffer, j \in Slot : (b # Target(t) \/ j # i) => state'[b][j] = state[b][j]
          /\ writes'[t] = i /\ \A u \in Thread \ {t} : writes'[u] = writes[u]
      BY <2>5, <3>2, <1>0
    <3>4. ASSUME NEW b \in Buffer, NEW j \in Slot, b # Target(t) \/ j # i
          PROVE  OnItsWay(b, j)' <=> OnItsWay(b, j)
      <4>1. ASSUME NEW u \in Thread, Source(u) = b
            PROVE  (reads'[u] = j /\ pc'[u] = "copy") <=> (reads[u] = j /\ pc[u] = "copy")
        BY <4>1, <2>1, <2>2, <2>3, <2>5, <3>1, <3>3, <3>4
      <4>2. ASSUME NEW u \in Worker, Target(u) = b
            PROVE  (writes'[u] = j /\ pc'[u] \in Compressed) <=> (writes[u] = j /\ pc[u] \in Compressed)
        BY <4>2, <2>1, <2>2, <2>3, <2>5, <3>1, <3>3, <3>4 DEF Compressed
      <4> QED
        BY <4>1, <4>2, <3>3, <3>4, OnItsWayKept
    <3>5. OnItsWay(Target(t), i)' <=> OnItsWay(Target(t), i)
      <4>1. \A u \in Thread \ {t} : Target(u) = Target(t) => writes[u] # i
        BY <2>5, <3>2, <1>0, HeldType, SlotNotNull DEF SlotsExclusive
      <4> QED
        BY <2>1, <2>2, <2>3, <2>5, <3>1, <3>2, <3>3, <4>1 DEF OnItsWay
    <3>6. \A b \in Buffer, j \in Slot : OnItsWay(b, j)' <=> OnItsWay(b, j)
      BY <3>4, <3>5
    <3> QED
      BY <2>1, <3>6, SamePlaces, <1>q
  <2> QED
    BY <2>2, <2>4, <2>5
<1>4. ASSUME YieldTile PROVE Once'
  <2>1. Goes(Loader, "yield", "signal_full") /\ UNCHANGED <<reads, got>>
    BY <1>4 DEF YieldTile
  <2>2. pc[Loader] = "yield" /\ pc'[Loader] = "signal_full" /\ \A u \in Thread \ {Loader} : pc'[u] = pc[u]
    BY <2>1, <1>0, GoesOn DEF Counters
  <2>i. PICK i \in Slot : i = writes[Loader]
    BY <2>2, <1>0, Held DEF Compressing
  <2>3. i \in Slot /\ i = writes[Loader] /\ i # 0 /\ state[Target(Loader)][i] = "writing"
    BY <2>i, <1>0, SlotNotNull DEF SlotsExclusive
  <2>4. /\ state' = [state EXCEPT ![Target(Loader)][i] = "ready_for_reading"]
        /\ writes' = [writes EXCEPT ![Loader] = 0]
    BY <1>4, <2>i DEF YieldTile, Yield
  <2>5. /\ state'[Target(Loader)][i] = "ready_for_reading"
        /\ \A b \in Buffer, j \in Slot : (b # Target(Loader) \/ j # i) => state'[b][j] = state[b][j]
        /\ writes'[Loader] = 0 /\ \A u \in Thread \ {Loader} : writes'[u] = writes[u]
    BY <2>3, <2>4, <1>0
  <2>6. ASSUME NEW b \in Buffer, NEW j \in Slot, b # Target(Loader) \/ j # i
        PROVE  OnItsWay(b, j)' <=> OnItsWay(b, j)
    <3>1. ASSUME NEW u \in Thread, Source(u) = b
          PROVE  (reads'[u] = j /\ pc'[u] = "copy") <=> (reads[u] = j /\ pc[u] = "copy")
      BY <3>1, <2>1, <2>2, <2>3, <2>5, <2>6, SlotNotNull
    <3>2. ASSUME NEW u \in Worker, Target(u) = b
          PROVE  (writes'[u] = j /\ pc'[u] \in Compressed) <=> (writes[u] = j /\ pc[u] \in Compressed)
      BY <3>2, <2>1, <2>2, <2>3, <2>5, <2>6, SlotNotNull DEF Compressed
    <3> QED
      BY <3>1, <3>2, <2>5, <2>6, OnItsWayKept
  <2>7. ~OnItsWay("tile", i) /\ OnItsWay("tile", i)'
    BY <2>1, <2>2, <2>3, <2>5, <1>0 DEF OnItsWay
  <2>8. loaded' = loaded + 1 /\ tile' = [tile EXCEPT !["tile"][i] = loaded + 1]
    BY <1>4, <2>i DEF YieldTile, Yield
  <2>9. /\ tile'["tile"][i] = loaded + 1
        /\ \A b \in Buffer, j \in Slot : (b # "tile" \/ j # i) => tile'[b][j] = tile[b][j]
    BY <2>3, <2>8, <1>0
  <2>10. ASSUME NEW n \in 1 .. loaded PROVE Places(n)' = Places(n)
    <3>1. n # loaded + 1
      BY <1>0
    <3>2. ASSUME NEW b \in Buffer, NEW j \in Slot
          PROVE  (tile'[b][j] = n /\ OnItsWay(b, j)') <=> (tile[b][j] = n /\ OnItsWay(b, j))
      <4>1. CASE b = "tile" /\ j = i
        BY <4>1, <3>1, <2>7, <2>9
      <4>2. CASE b # "tile" \/ j # i
        BY <4>2, <2>6, <2>9
      <4> QED
        BY <4>1, <4>2
    <3> QED
      BY <2>1, <3>2, SamePlaces
  <2>l. PICK l \in Nat : l = loaded + 1
    BY <1>0
  <2>11. Places(l)' = {<<"tile", i>>}
    <3>1. ASSUME NEW b \in Buffer, NEW j \in Slot, tile'[b][j] = l
          PROVE  b = "tile" /\ j = i
      <4>1. tile[b][j] \in 0 .. loaded
        BY <1>0
      <4>2. tile[b][j] # l
        BY <4>1, <1>0, <2>l
      <4> QED
        BY <3>1, <4>2, <2>9
    <3>2. \A k \in DOMAIN got' : got'[k] # l
      <4>1. ASSUME NEW k \in DOMAIN got PROVE got[k] \in 0 .. loaded
        BY <1>0, ElementOfSeq, LenProperties
      <4>2. ASSUME NEW k \in DOMAIN got PROVE got[k] # l
        BY <4>1, <1>0, <2>l
      <4> QED
        BY <4>2, <2>1
    <3>3. <<"tile", i>> \in Buffer \X Slot
      BY <2>3
    <3>4. \A x \in Buffer \X Slot : (tile'[x[1]][x[2]] = l /\ OnItsWay(x[1], x[2])') <=> x = <<"tile", i>>
      BY <3>1, <2>7, <2>9, <2>l
    <3> QED
      BY <3>2, <3>3, <3>4 DEF Places
  <2> QED
    <3>1. ASSUME NEW n \in 1 .. loaded' PROVE n \in 1 .. loaded \/ n = l
      BY <2>8, <1>0, <2>l
    <3> QED
      BY <3>1, <2>10, <2>11, <1>0 DEF Once
<1>5. ASSUME NEW w \in Worker, YieldTexture(w) PROVE Once'
  <2>1. Goes(w, "yield", "signal_full") /\ UNCHANGED <<reads, got>>
    BY <1>5 DEF YieldTexture
  <2>2. pc[w] = "yield" /\ pc'[w] = "signal_full" /\ \A u \in Thread \ {w} : pc'[u] = pc[u]
    BY <2>1, <1>0, GoesOn DEF Counters
  <2>i. PICK i \in Slot : i = writes[w]
    BY <2>2, <1>0, Held DEF Compressing
  <2>3. i \in Slot /\ i = writes[w] /\ i # 0 /\ state[Target(w)][i] = "writing"
    BY <2>i, <1>0, SlotNotNull DEF SlotsExclusive
  <2>4. /\ state' = [state EXCEPT ![Target(w)][i] = "ready_for_reading"]
        /\ writes' = [writes EXCEPT ![w] = 0]
    BY <1>5, <2>i DEF YieldTexture, Yield
  <2>5. /\ state'[Target(w)][i] = "ready_for_reading"
        /\ \A b \in Buffer, j \in Slot : (b # Target(w) \/ j # i) => state'[b][j] = state[b][j]
        /\ writes'[w] = 0 /\ \A u \in Thread \ {w} : writes'[u] = writes[u]
    BY <2>3, <2>4, <1>0
  <2>6. ASSUME NEW b \in Buffer, NEW j \in Slot, b # Target(w) \/ j # i
        PROVE  OnItsWay(b, j)' <=> OnItsWay(b, j)
    <3>1. ASSUME NEW u \in Thread, Source(u) = b
          PROVE  (reads'[u] = j /\ pc'[u] = "copy") <=> (reads[u] = j /\ pc[u] = "copy")
      BY <3>1, <2>1, <2>2, <2>3, <2>5, <2>6, SlotNotNull
    <3>2. ASSUME NEW u \in Worker, Target(u) = b
          PROVE  (writes'[u] = j /\ pc'[u] \in Compressed) <=> (writes[u] = j /\ pc[u] \in Compressed)
      BY <3>2, <2>1, <2>2, <2>3, <2>5, <2>6, SlotNotNull DEF Compressed
    <3> QED
      BY <3>1, <3>2, <2>5, <2>6, OnItsWayKept
  <2>7. OnItsWay(Target(w), i)' /\ OnItsWay(Target(w), i)
    BY <2>1, <2>2, <2>3, <2>5, <1>0 DEF OnItsWay
  <2>8. \A b \in Buffer, j \in Slot : OnItsWay(b, j)' <=> OnItsWay(b, j)
    BY <2>6, <2>7
  <2>9. tile' = tile /\ loaded' = loaded
    BY <1>5, <2>i, <1>0 DEF YieldTexture, Yield
  <2> QED
    BY <2>1, <2>8, <2>9, SamePlaces, <1>q
<1>6. ASSUME NEW t \in Worker \cup {Loader}, SignalFull(t) PROVE Once'
  <2>1. UNCHANGED <<state, tile, writes, reads, loaded, got>>
    BY <1>6 DEF SignalFull
  <2>2. PICK here \in {"signal_full"}, there \in {"wait_empty", "read", "done"} : Goes(t, here, there)
    BY <1>6 DEF SignalFull
  <2>4. /\ here # "copy" /\ there # "copy" /\ there \in Counters /\ t \in Thread
        /\ t \in Worker => (here \in Compressed <=> there \in Compressed)
    BY <2>2 DEF Counters, Compressed, Thread
  <2> QED
    BY <2>1, <2>2, <2>4, <1>0, QuietStep
<1>7. ASSUME GetNextTile PROVE Once'
  <2>1. UNCHANGED <<state, tile, writes, reads, loaded, got>> /\ Goes(Main, "idle", "wait_full")
    BY <1>7 DEF GetNextTile
  <2> QED
    BY <2>1, <1>0, QuietStep DEF Counters, Compressed
<1>8. ASSUME NEW t \in Worker \cup {Main}, WaitFull(t) PROVE Once'
  <2>1. UNCHANGED <<state, tile, writes, reads, loaded, got>> /\ Goes(t, "wait_full", "claim_full")
    BY <1>8 DEF WaitFull
  <2> QED
    BY <2>1, <1>0, QuietStep DEF Counters, Compressed
<1>9. ASSUME NEW t \in Worker \cup {Main}, ClaimFull(t) PROVE Once'
  <2>1. UNCHANGED <<tile, writes, loaded, got>>
    BY <1>9 DEF ClaimFull
  <2>2. PICK there \in {"copy", "stop_tile", "stop_consumer"} :
          /\ Goes(t, "claim_full", there)
          /\ \/ UNCHANGED <<state, reads>> /\ there \in {"stop_tile", "stop_consumer"}
             \/ /\ \E i \in Slot : ClaimForReading(Source(t), i) /\ reads' = [reads EXCEPT ![t] = i]
                /\ there = "copy"
    BY <1>9 DEF ClaimFull
  <2>3. t \in Thread /\ there \in Counters
    BY <2>2 DEF Counters
  <2>4. CASE UNCHANGED <<state, reads>> /\ there \in {"stop_tile", "stop_consumer"}
    BY <2>1, <2>2, <2>3, <2>4, <1>0, QuietStep DEF Compressed
  <2>5. ASSUME NEW i \in Slot, ClaimForReading(Source(t), i), reads' = [reads EXCEPT ![t] = i],
               there = "copy"
        PROVE  Once'
    <3>1. pc[t] = "claim_full" /\ pc'[t] = there /\ \A u \in Thread \ {t} : pc'[u] = pc[u]
      BY <2>2, <2>3, <1>0, GoesOn
    <3>2. state[Source(t)][i] = "ready_for_reading" /\ state' = [state EXCEPT ![Source(t)][i] = "reading"]
      <4>1. InState(Source(t), "ready_for_reading") # {}
        BY <2>3, <2>5, <3>1, <1>0, PromiseOfFull DEF ClaimForReading
      <4> QED
        BY <2>5, <4>1, FirstFound DEF ClaimForReading
    <3>3. /\ state'[Source(t)][i] = "reading"
          /\ \A b \in Buffer, j \in Slot : (b # Source(t) \/ j # i) => state'[b][j] = state[b][j]
          /\ reads'[t] = i /\ \A u \in Thread \ {t} : reads'[u] = reads[u]
      BY <2>5, <3>2, <1>0
    <3>4. ASSUME NEW b \in Buffer, NEW j \in Slot, b # Source(t) \/ j # i
          PROVE  OnItsWay(b, j)' <=> OnItsWay(b, j)
      <4>1. ASSUME NEW u \in Thread, Source(u) = b
            PROVE  (reads'[u] = j /\ pc'[u] = "copy") <=> (reads[u] = j /\ pc[u] = "copy")
        BY <4>1, <2>1, <2>2, <2>3, <2>5, <3>1, <3>3, <3>4
      <4>2. ASSUME NEW u \in Worker, Target(u) = b
            PROVE  (writes'[u] = j /\ pc'[u] \in Compressed) <=> (writes[u] = j /\ pc[u] \in Compressed)
        BY <4>2, <2>1, <2>2, <2>3, <2>5, <3>1, <3>3, <3>4 DEF Compressed
      <4> QED
        BY <4>1, <4>2, <3>3, <3>4, OnItsWayKept
    <3>5. OnItsWay(Source(t), i)' <=> OnItsWay(Source(t), i)
      <4>1. \A u \in Thread \ {t} : Source(u) = Source(t) => reads[u] # i
        BY <2>5, <3>2, <1>0, HeldType, SlotNotNull DEF SlotsExclusive
      <4> QED
        BY <2>1, <2>2, <2>3, <2>5, <3>1, <3>2, <3>3, <4>1 DEF OnItsWay
    <3>6. \A b \in Buffer, j \in Slot : OnItsWay(b, j)' <=> OnItsWay(b, j)
      BY <3>4, <3>5
    <3> QED
      BY <2>1, <3>6, SamePlaces, <1>q
  <2> QED
    BY <2>2, <2>4, <2>5
<1>10. ASSUME NEW w \in Worker, Compress(w) PROVE Once'
  <2>1. Goes(w, "copy", "free") /\ UNCHANGED <<state, writes, reads, loaded, got>>
    BY <1>10 DEF Compress
  <2>2. pc[w] = "copy" /\ pc'[w] = "free" /\ \A u \in Thread \ {w} : pc'[u] = pc[u]
    BY <2>1, <1>0, GoesOn DEF Counters
  <2>i. PICK from \in Slot, to \in Slot, m \in 0 .. loaded :
          from = reads[w] /\ to = writes[w] /\ m = tile["tile"][from]
    <3>1. reads[w] \in Slot /\ writes[w] \in Slot
      BY <2>2, <1>0, Held DEF Compressing
    <3>2. tile["tile"][reads[w]] \in 0 .. loaded
      BY <3>1, <1>0
    <3> QED
      BY <3>1, <3>2
  <2>3. /\ to # 0 /\ from # 0 /\ from = reads[w] /\ to = writes[w]
        /\ state["texture"][to] = "writing" /\ state["tile"][from] = "reading"
    BY <2>i, <1>0, SlotNotNull DEF SlotsExclusive
  <2>4. tile' = [tile EXCEPT !["texture"][to] = m]
    BY <1>10, <2>i DEF Compress
  <2>5. /\ tile'["texture"][to] = m
        /\ \A b \in Buffer, j \in Slot : (b # "texture" \/ j # to) => tile'[b][j] = tile[b][j]
    BY <2>3, <2>4, <1>0
  <2>6. ASSUME NEW b \in Buffer, NEW j \in Slot, b # "texture" \/ j # to, b # "tile" \/ j # from
        PROVE  OnItsWay(b, j)' <=> OnItsWay(b, j)
    <3>1. ASSUME NEW u \in Thread, Source(u) = b
          PROVE  (reads'[u] = j /\ pc'[u] = "copy") <=> (reads[u] = j /\ pc[u] = "copy")
      BY <3>1, <2>1, <2>2, <2>3, <2>6
    <3>2. ASSUME NEW u \in Worker, Target(u) = b
          PROVE  (writes'[u] = j /\ pc'[u] \in Compressed) <=> (writes[u] = j /\ pc[u] \in Compressed)
      BY <3>2, <2>1, <2>2, <2>3, <2>6 DEF Compressed
    <3> QED
      BY <3>1, <3>2, <2>1, OnItsWayKept
  <2>7. OnItsWay("tile", from) /\ ~OnItsWay("tile", from)'
    BY <2>1, <2>2, <2>3, <1>0 DEF OnItsWay, SlotsExclusive
  <2>8. OnItsWay("texture", to)' /\ ~OnItsWay("texture", to)
    BY <2>1, <2>2, <2>3, <1>0 DEF OnItsWay, SlotsExclusive
  <2>9. ASSUME NEW n \in 1 .. loaded, n # m PROVE Places(n)' = Places(n)
    <3>2. ASSUME NEW b \in Buffer, NEW j \in Slot
          PROVE  (tile'[b][j] = n /\ OnItsWay(b, j)') <=> (tile[b][j] = n /\ OnItsWay(b, j))
      <4>1. CASE b = "texture" /\ j = to
        BY <4>1, <2>9, <2>5, <2>8
      <4>2. CASE b = "tile" /\ j = from
        BY <4>2, <2>9, <2>5, <2>7, <2>i
      <4>3. CASE (b # "texture" \/ j # to) /\ (b # "tile" \/ j # from)
        BY <4>3, <2>6, <2>5
      <4> QED
        BY <4>1, <4>2, <4>3
    <3> QED
      BY <2>1, <3>2, SamePlaces
  <2>10. ASSUME m \in 1 .. loaded PROVE \E x : Places(m)' = {x}
    <3>1. PICK x : Places(m) = {x}
      BY <2>10, <1>0 DEF Once
    <3>2. <<"tile", from>> \in Places(m)
      BY <2>i, <2>7 DEF Places
    <3>3. Places(m) = {<<"tile", from>>}
      BY <3>1, <3>2
    <3>4. ASSUME NEW b \in Buffer, NEW j \in Slot, b # "tile" \/ j # from, tile[b][j] = m
          PROVE  ~OnItsWay(b, j)
      <4>1. <<b, j>> \in Buffer \X Slot /\ <<b, j>> # <<"tile", from>>
        BY <3>4
      <4>2. <<b, j>> \notin Places(m)
        BY <4>1, <3>3
      <4> QED
        BY <4>1, <4>2, <3>4 DEF Places
    <3>5. \A k \in DOMAIN got : got[k] # m
      <4>1. ASSUME NEW k \in DOMAIN got, got[k] = m PROVE FALSE
        <5>1. <<"got", k>> \in Places(m)
          BY <4>1 DEF Places
        <5> QED
          BY <5>1, <3>3
      <4> QED
        BY <4>1
    <3>6. ASSUME NEW b \in Buffer, NEW j \in Slot
          PROVE  (tile'[b][j] = m /\ OnItsWay(b, j)') <=> (b = "texture" /\ j = to)
      <4>1. CASE b = "texture" /\ j = to
        BY <4>1, <2>5, <2>8
      <4>2. CASE b = "tile" /\ j = from
        BY <4>2, <2>7
      <4>3. CASE (b # "texture" \/ j # to) /\ (b # "tile" \/ j # from)
        BY <4>3, <3>4, <2>6, <2>5
      <4> QED
        BY <4>1, <4>2, <4>3
    <3>7. \A slot \in Buffer \X Slot : (tile'[slot[1]][slot[2]] = m /\ OnItsWay(slot[1], slot[2])') <=> slot = <<"texture", to>>
      BY <3>6
    <3>8. <<"texture", to>> \in Buffer \X Slot
      BY <2>3
    <3>9. got' = got
      BY <2>1
    <3>10. {slot \in Buffer \X Slot : tile'[slot[1]][slot[2]] = m /\ OnItsWay(slot[1], slot[2])'}
           = {<<"texture", to>>}
      BY <3>7, <3>8
    <3>11. {<<"got", k>> : k \in {k \in DOMAIN got' : got'[k] = m}} = {}
      BY <3>5, <3>9
    <3> QED
      BY <3>10, <3>11 DEF Places
  <2> QED
    <3>1. \A n \in 1 .. loaded : n # m => \E x : Places(n)' = {x}
      BY <2>9, <1>0 DEF Once
    <3> QED
      BY <3>1, <2>10, <2>1 DEF Once
<1>11. ASSUME Receive PROVE Once'
  <2> DEFINE B == Source(Main)
  <2>1. /\ Goes(Main, "copy", "free") /\ UNCHANGED <<state, tile, writes, reads, loaded>>
        /\ got' = Append(got, tile[B][reads[Main]])
    BY <1>11 DEF Receive
  <2>2. pc[Main] = "copy" /\ pc'[Main] = "free" /\ \A u \in Thread \ {Main} : pc'[u] = pc[u]
    BY <2>1, <1>0, GoesOn DEF Counters
  <2>i. PICK from \in Slot, m \in 0 .. loaded : from = reads[Main] /\ m = tile[B][from]
    <3>1. reads[Main] \in Slot
      BY <2>2, <1>0, Held
    <3>2. tile[B][reads[Main]] \in 0 .. loaded
      BY <3>1, <1>0
    <3> QED
      BY <3>1, <3>2
  <2>3. from = reads[Main] /\ from # 0 /\ state[B][from] = "reading" /\ B \in Buffer
    BY <2>i, <1>0, SlotNotNull DEF SlotsExclusive
  <2>6. ASSUME NEW b \in Buffer, NEW j \in Slot, b # B \/ j # from
        PROVE  OnItsWay(b, j)' <=> OnItsWay(b, j)
    <3>1. ASSUME NEW u \in Thread, Source(u) = b
          PROVE  (reads'[u] = j /\ pc'[u] = "copy") <=> (reads[u] = j /\ pc[u] = "copy")
      BY <3>1, <2>1, <2>2, <2>3, <2>6
    <3>2. ASSUME NEW u \in Worker, Target(u) = b
          PROVE  (writes'[u] = j /\ pc'[u] \in Compressed) <=> (writes[u] = j /\ pc[u] \in Compressed)
      BY <3>2, <2>1, <2>2, <2>3, <2>6 DEF Compressed
    <3> QED
      BY <3>1, <3>2, <2>1, OnItsWayKept
  <2>7. OnItsWay(B, from) /\ ~OnItsWay(B, from)'
    BY <2>1, <2>2, <2>3, <1>0 DEF OnItsWay, SlotsExclusive
  <2> HIDE DEF B
  <2>l. PICK L \in Nat : L = Len(got) + 1
    BY <1>0, LenProperties
  <2>8. /\ DOMAIN got = 1 .. Len(got) /\ DOMAIN got' = 1 .. L /\ Len(got) \in Nat
        /\ got'[L] = m /\ \A k \in 1 .. Len(got) : got'[k] = got[k]
    BY <2>i, <2>l, <2>1, <1>0, AppendProperties, LenProperties
  <2>9. \A k : k \in 1 .. L <=> (k \in 1 .. Len(got) \/ k = L)
    BY <2>8, <2>l
  <2>10. ASSUME NEW n \in 1 .. loaded, n # m PROVE Places(n)' = Places(n)
    <3>2. \A b \in Buffer, j \in Slot :
             (tile'[b][j] = n /\ OnItsWay(b, j)') <=> (tile[b][j] = n /\ OnItsWay(b, j))
      BY <2>1, <2>6, <2>7, <2>10, <2>i
    <3>3. {k \in DOMAIN got' : got'[k] = n} = {k \in DOMAIN got : got[k] = n}
      BY <2>8, <2>9, <2>10
    <3> QED
      BY <3>2, <3>3 DEF Places
  <2>11. ASSUME m \in 1 .. loaded PROVE \E x : Places(m)' = {x}
    <3>1. PICK x : Places(m) = {x}
      BY <2>11, <1>0 DEF Once
    <3>2. <<B, from>> \in Places(m)
      BY <2>3, <2>i, <2>7 DEF Places
    <3>3. Places(m) = {<<B, from>>}
      BY <3>1, <3>2
    <3>4. ASSUME NEW b \in Buffer, NEW j \in Slot, tile[b][j] = m, OnItsWay(b, j)'
          PROVE  FALSE
      <4>1. b # B \/ j # from
        BY <3>4, <2>7
      <4>2. <<b, j>> \in Buffer \X Slot /\ <<b, j>> # <<B, from>>
        BY <4>1
      <4>3. <<b, j>> \notin Places(m)
        BY <4>2, <3>3
      <4> QED
        BY <4>1, <4>2, <4>3, <3>4, <2>6 DEF Places
    <3>5. \A k \in DOMAIN got : got[k] # m
      <4>1. ASSUME NEW k \in DOMAIN got, got[k] = m PROVE FALSE
        <5>1. <<"got", k>> \in Places(m)
          BY <4>1 DEF Places
        <5>2. B # "got"
          BY <2>3, PipelineAssumption
        <5> QED
          BY <5>1, <5>2, <3>3
      <4> QED
        BY <4>1
    <3>6. {slot \in Buffer \X Slot : tile'[slot[1]][slot[2]] = m /\ OnItsWay(slot[1], slot[2])'} = {}
      BY <3>4, <2>1
    <3>7. {k \in DOMAIN got' : got'[k] = m} = {L}
      BY <3>5, <2>8, <2>9
    <3>8. {<<"got", k>> : k \in {k \in DOMAIN got' : got'[k] = m}} = {<<"got", L>>}
      BY <3>7
    <3> QED
      BY <3>6, <3>8 DEF Places
  <2> QED
    <3>1. \A n \in 1 .. loaded : n # m => \E x : Places(n)' = {x}
      BY <2>10, <1>0 DEF Once
    <3> QED
      BY <3>1, <2>11, <2>1 DEF Once
<1>12. ASSUME NEW t \in Worker \cup {Main}, FreeRead(t) PROVE Once'
  <2>1. Goes(t, "free", "signal_empty") /\ UNCHANGED <<writes, got>>
    BY <1>12 DEF FreeRead
  <2>2. pc[t] = "free" /\ pc'[t] = "signal_empty" /\ \A u \in Thread \ {t} : pc'[u] = pc[u]
    BY <2>1, <1>0, GoesOn DEF Counters
  <2>i. PICK i \in Slot : i = reads[t]
    BY <2>2, <1>0, Held DEF Compressing
  <2>3. i \in Slot /\ i = reads[t] /\ i # 0 /\ state[Source(t)][i] = "reading"
    BY <2>i, <1>0, SlotNotNull DEF SlotsExclusive
  <2>4. /\ state' = [state EXCEPT ![Source(t)][i] = "ready_for_writing"]
        /\ reads' = [reads EXCEPT ![t] = 0]
    BY <1>12, <2>i DEF FreeRead, FreeSlot
  <2>5. /\ state'[Source(t)][i] = "ready_for_writing"
        /\ \A b \in Buffer, j \in Slot : (b # Source(t) \/ j # i) => state'[b][j] = state[b][j]
        /\ reads'[t] = 0 /\ \A u \in Thread \ {t} : reads'[u] = reads[u]
    BY <2>3, <2>4, <1>0
  <2>6. ASSUME NEW b \in Buffer, NEW j \in Slot, b # Source(t) \/ j # i
        PROVE  OnItsWay(b, j)' <=> OnItsWay(b, j)
    <3>1. ASSUME NEW u \in Thread, Source(u) = b
          PROVE  (reads'[u] = j /\ pc'[u] = "copy") <=> (reads[u] = j /\ pc[u] = "copy")
      BY <3>1, <2>1, <2>2, <2>3, <2>5, <2>6, SlotNotNull
    <3>2. ASSUME NEW u \in Worker, Target(u) = b
          PROVE  (writes'[u] = j /\ pc'[u] \in Compressed) <=> (writes[u] = j /\ pc[u] \in Compressed)
      BY <3>2, <2>1, <2>2, <2>3, <2>5, <2>6, SlotNotNull DEF Compressed
    <3> QED
      BY <3>1, <3>2, <2>5, <2>6, OnItsWayKept
  <2>7. OnItsWay(Source(t), i)' <=> OnItsWay(Source(t), i)
    BY <2>1, <2>2, <2>3, <2>5, <1>0 DEF OnItsWay, SlotsExclusive
  <2>8. \A b \in Buffer, j \in Slot : OnItsWay(b, j)' <=> OnItsWay(b, j)
    BY <2>6, <2>7
  <2>9. UNCHANGED <<tile, loaded>>
    BY <1>12 DEF FreeRead
  <2> QED
    BY <2>1, <2>8, <2>9, SamePlaces, <1>q
<1>13. ASSUME NEW t \in Worker \cup {Main}, SignalEmpty(t) PROVE Once'
  <2>1. UNCHANGED <<state, tile, writes, reads, loaded, got>>
    BY <1>13 DEF SignalEmpty
  <2>2. PICK here \in {"signal_empty"}, there \in {"idle", "yield"} : Goes(t, here, there)
    BY <1>13 DEF SignalEmpty
  <2>3. t \in Worker => there = "yield"
    BY <1>13, <2>2, <1>0 DEF SignalEmpty, Goes, Thread
  <2>4. /\ here # "copy" /\ there # "copy" /\ there \in Counters /\ t \in Thread
        /\ t \in Worker => (here \in Compressed <=> there \in Compressed)
    BY <2>2, <2>3 DEF Counters, Compressed, Thread
  <2> QED
    BY <2>1, <2>2, <2>4, <1>0, QuietStep
<1>14. ASSUME Fail PROVE Once'
  <2>1. UNCHANGED <<state, tile, writes, reads, loaded, got>> /\ Goes(Loader, "read", "stop_consumer")
    BY <1>14 DEF Fail
  <2> QED
    BY <2>1, <1>0, QuietStep DEF Counters, Compressed
<1>15. ASSUME NEW t \in Worker \cup {Loader}, StopConsumer(t) PROVE Once'
  <2>1. UNCHANGED <<state, tile, writes, reads, loaded, got>> /\ Goes(t, "stop_consumer", "signal_stop")
    BY <1>15 DEF StopConsumer
  <2> QED
    BY <2>1, <1>0, QuietStep DEF Counters, Compressed
<1>16. ASSUME NEW t \in Worker \cup {Loader}, SignalStop(t) PROVE Once'
  <2>1. UNCHANGED <<state, tile, writes, reads, loaded, got>> /\ Goes(t, "signal_stop", "done")
    BY <1>16 DEF SignalStop
  <2> QED
    BY <2>1, <1>0, QuietStep DEF Counters, Compressed
<1>17. ASSUME Destroy PROVE Once'
  <2>1. UNCHANGED <<state, tile, writes, reads, loaded, got>> /\ Goes(Main, "idle", "stop_tile")
    BY <1>17 DEF Destroy
  <2> QED
    BY <2>1, <1>0, QuietStep DEF Counters, Compressed
<1>18. ASSUME NEW b \in Buffer, StopProducer(b) PROVE Once'
  <2>1. UNCHANGED <<state, tile, writes, reads, loaded, got>>
    BY <1>18 DEF StopProducer
  <2>2. PICK here \in {"stop_tile", "stop_texture"}, there \in {"wake_tile_writers", "wake_texture_writers"}
            : Goes(Main, here, there)
    BY <1>18 DEF StopProducer
  <2>4. /\ here # "copy" /\ there # "copy" /\ there \in Counters /\ Main \in Thread
        /\ Main \in Worker => (here \in Compressed <=> there \in Compressed)
    BY <2>2 DEF Counters, Compressed, Thread
  <2> QED
    BY <2>1, <2>2, <2>4, <1>0, QuietStep
<1>19. ASSUME NEW b \in Buffer, WakeWriters(b) PROVE Once'
  <2>1. UNCHANGED <<state, tile, writes, reads, loaded, got>>
    BY <1>19 DEF WakeWriters
  <2>2. PICK here \in {"wake_tile_writers", "wake_texture_writers"},
            there \in {"wake_tile_readers", "wake_texture_readers"}
              : Goes(Main, here, there)
    BY <1>19 DEF WakeWriters
  <2>4. /\ here # "copy" /\ there # "copy" /\ there \in Counters /\ Main \in Thread
        /\ Main \in Worker => (here \in Compressed <=> there \in Compressed)
    BY <2>2 DEF Counters, Compressed, Thread
  <2> QED
    BY <2>1, <2>2, <2>4, <1>0, QuietStep
<1>20. ASSUME NEW b \in Buffer, WakeReaders(b) PROVE Once'
  <2>1. UNCHANGED <<state, tile, writes, reads, loaded, got>>
    BY <1>20 DEF WakeReaders
  <2>2. PICK here \in {"wake_tile_readers", "wake_texture_readers"}, there \in {"stop_texture", "join"}
            : Goes(Main, here, there)
    BY <1>20 DEF WakeReaders
  <2>4. /\ here # "copy" /\ there # "copy" /\ there \in Counters /\ Main \in Thread
        /\ Main \in Worker => (here \in Compressed <=> there \in Compressed)
    BY <2>2 DEF Counters, Compressed, Thread
  <2> QED
    BY <2>1, <2>2, <2>4, <1>0, QuietStep
<1>21. ASSUME Delete PROVE Once'
  <2>1. UNCHANGED <<state, tile, writes, reads, loaded, got>> /\ Goes(Main, "join", "deleted")
    BY <1>21 DEF Delete
  <2> QED
    BY <2>1, <1>0, QuietStep DEF Counters, Compressed
<1>22. CASE UNCHANGED vars
  <2>1. UNCHANGED <<pc, state, tile, writes, reads, loaded, got>>
    BY <1>22 DEF vars
  <2>2. \A b \in Buffer, i \in Slot : OnItsWay(b, i)' <=> OnItsWay(b, i)
    BY <2>1, OnItsWayKept
  <2> QED
    BY <2>1, <2>2, SamePlaces, <1>q
<1> QED
  BY <1>1, <1>2, <1>3, <1>4, <1>5, <1>6, <1>7, <1>8, <1>9, <1>10, <1>11,
     <1>12, <1>13, <1>14, <1>15, <1>16, <1>17, <1>18, <1>19, <1>20, <1>21, <1>22
     DEF Next, LoaderStep, WorkerStep, MainStep, Finished

\* However many compression threads there are, and in whatever order they work, each tile that
\* was read is in one slot, or was received, once.  (allocate_read_slot, free_write_slot)
THEOREM EveryTileIsSomewhereOnce == Spec => []EveryTileOnce
<1>1. ASSUME Init PROVE Once
  BY <1>1 DEF Init, Once
<1>2. ASSUME Once PROVE EveryTileOnce
  BY <1>2, FS_Singleton DEF Once, EveryTileOnce
<1>3. IInv /\ Once /\ [Next]_vars => Once'
  BY OnceStep
<1> QED
  BY <1>1, <1>2, <1>3, Invariance, PTL DEF Spec

=============================================================================
