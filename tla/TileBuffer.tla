----------------------------- MODULE TileBuffer -----------------------------
(***************************************************************************)
(* The native class synchronized_tile_buffer: a few slots that producer    *)
(* threads fill with tiles of an image and consumer threads empty, in no   *)
(* particular order.  A semaphore counts the empty slots and one the full  *)
(* ones; a critical section protects everything else.                      *)
(*                                                                         *)
(* A member function is two or three steps: waiting for a semaphore, the   *)
(* critical section, releasing a semaphore.  Each is an action here; which *)
(* thread is between which steps is the business of the modules that use   *)
(* the buffers.  Slots are numbered from 1.                                *)
(***************************************************************************)
EXTENDS Naturals

CONSTANTS
  Buffer,    \* the buffers in use
  SlotCount  \* tile_slot_count, the same for all of them

ASSUME SlotAssumption == SlotCount \in Nat \ {0}

Slot == 1 .. SlotCount

VARIABLES
  full,   \* full[b]: full_slots_semaphore
  empty,  \* empty[b]: empty_slots_semaphore
  stop,   \* stop[b]: has the consumer told the producers to stop?
  error,  \* error[b]: is there an error for the consumers?
  state,  \* state[b]: slot_states
  tile    \* tile[b]: the tile in each slot, 0 at first

bufferVars == <<full, empty, stop, error, state, tile>>

SlotStates == {"ready_for_writing", "writing", "ready_for_reading", "reading"}

BufferInit ==
  /\ full = [b \in Buffer |-> 0]
  /\ empty = [b \in Buffer |-> SlotCount]
  /\ stop = [b \in Buffer |-> FALSE]
  /\ error = [b \in Buffer |-> FALSE]
  /\ state = [b \in Buffer |-> [i \in Slot |-> "ready_for_writing"]]
  /\ tile = [b \in Buffer |-> [i \in Slot |-> 0]]

-----------------------------------------------------------------------------
(* Semaphores.                                                             *)

\* WaitForSingleObject
TakeEmpty(b) == empty[b] > 0 /\ empty' = [empty EXCEPT ![b] = @ - 1]
TakeFull(b) == full[b] > 0 /\ full' = [full EXCEPT ![b] = @ - 1]

\* ReleaseSemaphore, whose result the code ignores: a semaphore that would exceed
\* its maximum stays as it is.
Released(count, n) == IF count + n <= SlotCount THEN count + n ELSE count
AddEmpty(b, n) == empty' = [empty EXCEPT ![b] = Released(@, n)]
AddFull(b, n) == full' = [full EXCEPT ![b] = Released(@, n)]

-----------------------------------------------------------------------------
(* The critical sections.                                                  *)

InState(b, s) == {i \in Slot : state[b][i] = s}

\* The slot that the search of the function finds first.
FirstIn(b, s) == CHOOSE i \in InState(b, s) : \A j \in InState(b, s) : i <= j

\* allocate_write_slot returns true and slot i, or false.
\* Fault: the slot is not marked.
ClaimForWritingUnmarked(b, i) ==
  /\ ~stop[b] /\ i \in InState(b, "ready_for_writing")
  /\ state' = state
ClaimForWriting(b, i) ==
  /\ ~stop[b] /\ InState(b, "ready_for_writing") # {}
  /\ i = FirstIn(b, "ready_for_writing")
  /\ state' = [state EXCEPT ![b][i] = "writing"]
CannotWrite(b) == stop[b] \/ InState(b, "ready_for_writing") = {}

\* allocate_read_slot returns no error and slot i.  Were there no full slot, i would
\* keep the value 0 that its callers gave it.
\* Fault: the slot is not marked.
ClaimForReadingUnmarked(b, i) ==
  /\ ~error[b]
  /\ i \in InState(b, "ready_for_reading")
  /\ state' = state
ClaimForReading(b, i) ==
  /\ ~error[b]
  /\ IF InState(b, "ready_for_reading") # {}
     THEN i = FirstIn(b, "ready_for_reading") /\ state' = [state EXCEPT ![b][i] = "reading"]
     ELSE i = 1 /\ state' = state

\* The caller filled slot i with tile t; free_write_slot.
Yield(b, i, t) ==
  /\ tile' = [tile EXCEPT ![b][i] = t]
  /\ state' = [state EXCEPT ![b][i] = "ready_for_reading"]

\* free_read_slot
FreeSlot(b, i) == state' = [state EXCEPT ![b][i] = "ready_for_writing"]

\* stop_consumer
\* Fault: there is no error.
SetErrorNever(b) == error' = error
SetError(b) == error' = [error EXCEPT ![b] = TRUE]

\* stop_producer
SetStop(b) == stop' = [stop EXCEPT ![b] = TRUE] /\ error' = [error EXCEPT ![b] = TRUE]
=============================================================================
