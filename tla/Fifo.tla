-------------------------------- MODULE Fifo --------------------------------
(***************************************************************************)
(* A sound FIFO (apu/apu_types.h, class fifo) with its three users: the    *)
(* timer whose overflow plays a sample and asks for more, the DMA channel  *)
(* that refills it some cycles later, and the program, which chooses the   *)
(* timer, resets the FIFO, switches the channel, and may write samples by  *)
(* itself.                                                                 *)
(*                                                                         *)
(* Of the DMA only what the FIFO sees of it is kept: a request is ignored  *)
(* by a channel that runs, and a refill is a number of bytes that come one *)
(* by one with overflows in between.  That a channel is not scheduled      *)
(* twice, which overflows at a distance of more than the two cycles of its *)
(* delay ensure, is Dma's StartsMatchScheduled and FrontExists.            *)
(***************************************************************************)
EXTENDS Integers, Sequences

CONSTANTS
    capacity,           \* 32 in the code
    RefillAt,           \* the size at which a refill is requested: 16
    RefillBytes,        \* four words: 16
    Samples,            \* the values of a byte
    Timers              \* the ids of the timers that can be selected: 0 and 1

ASSUME FifoAssumption ==
    /\ capacity \in Nat \ {0}
    /\ RefillAt \in Nat
    /\ RefillBytes \in Nat \ {0}
    /\ RefillAt + RefillBytes <= capacity
    /\ 0 \in Samples
    /\ 0 \in Timers

VARIABLES
    data, read_idx, write_idx, size,    \* the members of that name
    latch,              \* latch_
    selected_timer_id,  \* control_->selected_timer_id
    dma_enabled,        \* whether its DMA channel is
    refill,             \* none, scheduled (its start is in the scheduler), running
    left,               \* the bytes that the running refill still has to write
    dropped,            \* a ghost: a byte of the DMA found the FIFO full
    direct              \* a ghost: the program has written a sample by itself

ring == <<data, read_idx, write_idx, size>>
dma == <<dma_enabled, refill, left>>
ghosts == <<dropped, direct>>
vars == <<ring, latch, selected_timer_id, dma, ghosts>>

Init ==
    /\ data = [i \in 0..(capacity - 1) |-> 0]
    /\ read_idx = 0
    /\ write_idx = 0
    /\ size = 0
    /\ latch = 0
    /\ selected_timer_id = 0
    /\ dma_enabled = FALSE
    /\ refill = "none"
    /\ left = 0
    /\ dropped = FALSE
    /\ direct = FALSE
-----------------------------------------------------------------------------
(* write.  Mutant: the oldest sample gives way. *)
PushOverwriting(sample) ==
    /\ data' = [data EXCEPT ![write_idx] = sample]
    /\ write_idx' = (write_idx + 1) % capacity
    /\ size' = IF size < capacity THEN size + 1 ELSE size
    /\ UNCHANGED read_idx
Push(sample) ==
    IF size < capacity
      THEN /\ data' = [data EXCEPT ![write_idx] = sample]
           /\ write_idx' = (write_idx + 1) % capacity
           /\ size' = size + 1
           /\ UNCHANGED read_idx
      ELSE UNCHANGED ring

(* read: an empty FIFO gives the sample that lies where it stands. *)
Pop ==
    /\ latch' = data[read_idx]
    /\ IF size > 0
         THEN /\ read_idx' = (read_idx + 1) % capacity
              /\ size' = size - 1
         ELSE UNCHANGED <<read_idx, size>>
    /\ UNCHANGED <<data, write_idx>>

(* A request of the DMA is granted if the channel is not running; it is
   scheduled already or is now.  Mutant: the size that asks for a refill is one
   too large. *)
HungryOneMore(n) == n <= RefillAt + 1
Hungry(n) == n <= RefillAt
Granted == dma_enabled /\ refill # "running"

(* on_timer_overflow, of the engine and of the FIFO. *)
OnTimerOverflow(id) ==
    /\ IF selected_timer_id = id
         THEN /\ Pop
              /\ refill' = IF Hungry(size') /\ Granted THEN "scheduled" ELSE refill
         ELSE UNCHANGED <<ring, latch, refill>>
    /\ UNCHANGED <<selected_timer_id, dma_enabled, left, ghosts>>

(* on_channel_start, and run_channels, a byte of a word at a time. *)
StartRefill ==
    /\ refill = "scheduled"
    /\ refill' = "running"
    /\ left' = RefillBytes
    /\ UNCHANGED <<ring, latch, selected_timer_id, dma_enabled, ghosts>>

RefillByte(sample) ==
    /\ refill = "running"
    /\ Push(sample)
    /\ left' = left - 1
    /\ refill' = IF left = 1 THEN "none" ELSE "running"
    /\ dropped' = (dropped \/ size = capacity)
    /\ UNCHANGED <<latch, selected_timer_id, dma_enabled, direct>>

(* The program: SOUNDCNT_H resets the FIFO and selects the timer, a write to
   the FIFO is a byte at a time, and DMACNT_H switches the channel, which takes
   it off both lists. *)
WriteSoundcntH(reset, id) ==
    /\ IF reset
         THEN read_idx' = 0 /\ write_idx' = 0 /\ size' = 0 /\ UNCHANGED data
         ELSE UNCHANGED ring
    /\ selected_timer_id' = id
    /\ UNCHANGED <<latch, dma, ghosts>>

WriteFifo(sample) ==
    /\ Push(sample)
    /\ direct' = TRUE
    /\ UNCHANGED <<latch, selected_timer_id, dma, dropped>>

WriteCntH(on) ==
    /\ dma_enabled' = on
    /\ IF on THEN UNCHANGED <<refill, left>> ELSE refill' = "none" /\ left' = 0
    /\ UNCHANGED <<ring, latch, selected_timer_id, ghosts>>

Next ==
    \/ \E id \in Timers : OnTimerOverflow(id)
    \/ StartRefill
    \/ \E sample \in Samples : RefillByte(sample) \/ WriteFifo(sample)
    \/ \E reset \in BOOLEAN, id \in Timers : WriteSoundcntH(reset, id)
    \/ \E on \in BOOLEAN : WriteCntH(on)

Spec == Init /\ [][Next]_vars
-----------------------------------------------------------------------------
(* The state is well formed: the two indices are as far apart as the size
   says. *)
TypeOK ==
    /\ data \in [0..(capacity - 1) -> Samples]
    /\ read_idx \in 0..(capacity - 1) /\ write_idx \in 0..(capacity - 1)
    /\ size \in 0..capacity
    /\ write_idx = (read_idx + size) % capacity
    /\ latch \in Samples
    /\ selected_timer_id \in Timers
    /\ dma_enabled \in BOOLEAN
    /\ refill \in {"none", "scheduled", "running"}
    /\ left \in 0..RefillBytes
    /\ dropped \in BOOLEAN /\ direct \in BOOLEAN

(* No sample of the DMA is ever lost, however many overflows, resets and
   requests come between a request and the end of its refill, as long as the
   program leaves the FIFO to the DMA. *)
NoSampleDropped == ~direct => ~dropped

(* The samples that wait, in order. *)
Index(i) == IF read_idx + i < capacity THEN read_idx + i ELSE read_idx + i - capacity
Waiting == [i \in 1..size |-> data[Index(i - 1)]]

(* The ring is a queue. *)
Queue == INSTANCE SampleQueue WITH queue <- Waiting

ImplementsSampleQueue == Queue!Spec
=============================================================================
