----------------------------- MODULE Scheduler ------------------------------
(***************************************************************************)
(* The hardware event scheduler (core/scheduler.h): a binary min-heap of   *)
(* events, a cycle counter and a counter of handles.  Every component of   *)
(* the console keeps time with it.                                         *)
(*                                                                         *)
(* add_cycles is not atomic here: it adds the cycles, then pops the due    *)
(* events one by one and runs their callbacks, and a callback may add and  *)
(* remove events (almost every one re-adds itself), so the loop runs over  *)
(* a heap that changes under it.                                           *)
(*                                                                         *)
(* The heap is a set of events; std::push_heap, pop_heap and make_heap are *)
(* modelled by what they do, the front is an event of least timestamp, any *)
(* of them when several are equal (operator> compares timestamps only).    *)
(* Callbacks are not named here: what they do to the scheduler is any      *)
(* sequence of the calls they may make.                                    *)
(***************************************************************************)
EXTENDS Integers, FiniteSets

CONSTANTS
    MaxNow,             \* bound of the model on the cycle counter (u64 in the code)
    MaxHandle,          \* bound of the model on the number of handles (u64)
    MaxDelay,           \* largest delay a caller passes (u32)
    MaxCycles           \* largest number of cycles added at once (u32)

ASSUME SchedulerAssumption ==
    MaxNow \in Nat /\ MaxHandle \in Nat /\ MaxDelay \in Nat /\ MaxCycles \in Nat

VARIABLES
    heap,               \* heap_, as a set of [timestamp, h]
    now,                \* now_
    next_event_handle,  \* next_event_handle_, the last handle given out
    phase,              \* where add_cycles is: not running, at its loop, in a callback
    cycles,             \* the argument of the add_cycles call under way
    late                \* late_cycles, the argument of the callback under way

vars == <<heap, now, next_event_handle, phase, cycles, late>>

Event == [timestamp : Nat, h : Nat]

Init ==
    /\ heap = {}
    /\ now = 0
    /\ next_event_handle = 0
    /\ phase = "idle"
    /\ cycles = 0
    /\ late = 0

Due(e) == e.timestamp <= now

(* The heap's order, which remove_event restores with make_heap.  The front is
   an event of least timestamp; FrontUnordered is a mutant, the heap left as
   erase left it. *)
FrontUnordered == heap
Front == {e \in heap : \A other \in heap : e.timestamp <= other.timestamp}

(* ++next_event_handle_.  Mutant: the handle is the event's slot. *)
SlotHandle == Cardinality(heap) + 1
NewHandle == next_event_handle + 1

(* What remove_event leaves. *)
Without(handle) == {e \in heap : e.h # handle}

(* The lateness of an event that is due. *)
Lateness(e) == now - e.timestamp

(* The while condition is false.  Mutant: the loop is an if. *)
LoopEndsAtOnce == TRUE
LoopEnds == \A e \in heap : ~Due(e)

(* The code that calls the scheduler runs outside add_cycles (a register
   write, a DMA channel) or in a callback. *)
CallerRuns == phase \in {"idle", "callback"}

AddHwEvent(delay) ==
    /\ CallerRuns
    /\ next_event_handle < MaxHandle
    /\ next_event_handle' = NewHandle
    /\ heap' = heap \cup {[timestamp |-> now + delay, h |-> NewHandle]}
    /\ UNCHANGED <<now, phase, cycles, late>>

(* The handle may be a stale one: of an event that has fired, that was
   removed, or 0, which was never issued. *)
RemoveEvent(handle) ==
    /\ CallerRuns
    /\ heap' = Without(handle)
    /\ UNCHANGED <<now, next_event_handle, phase, cycles, late>>

(* timestamp_of_next_event asserts that the heap is not empty. *)
AddCycles(c) ==
    /\ phase = "idle"
    /\ heap # {}
    /\ now + c <= MaxNow
    /\ now' = now + c
    /\ cycles' = c
    /\ IF \E e \in heap : e.timestamp <= now'
         THEN phase' = "loop" /\ late' = c
         ELSE phase' = "idle" /\ late' = 0
    /\ UNCHANGED <<heap, next_event_handle>>

(* One iteration of the loop: the front is popped and its callback starts,
   with the cycles the event is late. *)
Dispatch ==
    /\ phase \in {"loop", "callback"}
    /\ \E e \in Front :
        /\ Due(e)
        /\ heap' = heap \ {e}
        /\ late' = Lateness(e)
    /\ phase' = "callback"
    /\ UNCHANGED <<now, next_event_handle, cycles>>

(* The last callback has returned and nothing is due any more. *)
Return ==
    /\ phase = "callback"
    /\ LoopEnds
    /\ phase' = "idle"
    /\ late' = 0
    /\ UNCHANGED <<heap, now, next_event_handle, cycles>>

Next ==
    \/ \E delay \in 0..MaxDelay : AddHwEvent(delay)
    \/ \E handle \in 0..MaxHandle : RemoveEvent(handle)
    \/ \E c \in 0..MaxCycles : AddCycles(c)
    \/ Dispatch
    \/ Return

Spec == Init /\ [][Next]_vars
-----------------------------------------------------------------------------
(* The state is well formed. *)
TypeOK ==
    /\ heap \in SUBSET Event
    /\ now \in Nat
    /\ next_event_handle \in Nat
    /\ phase \in {"idle", "loop", "callback"}
    /\ cycles \in Nat
    /\ late \in Nat

(* remaining_cycles_to_next_event subtracts now_ from the timestamp of the
   front and narrows the difference to 32 bits; the halted CPU adds that many
   cycles.  Whenever code outside the loop can ask, no event lies in the
   past, so the subtraction does not wrap: nothing that is due was left
   behind by the loop, whatever the callbacks added and removed. *)
RemainingCyclesNeverWrap ==
    phase = "idle" => \A e \in heap : e.timestamp >= now

(* The callback receives its lateness narrowed to 32 bits, and almost every
   callback subtracts it from a period.  An event is never later than the
   cycles of the add_cycles call that fires it, so the narrowing is exact
   and the lateness is bounded by the longest uninterrupted tick. *)
LateWithinCycles ==
    /\ late <= cycles
    /\ phase # "idle" => \A e \in heap : Due(e) => now - e.timestamp <= cycles

(* A handle names one event only, and 0, the value a client's handle has
   before its first event, names none: remove_event of a stale handle cannot
   take away the event of another component. *)
HandlesUnique ==
    /\ \A e \in heap : e.h \in 1..next_event_handle
    /\ \A e1, e2 \in heap : e1.h = e2.h => e1 = e2

(* An event that has fired or was removed never comes back: its handle is
   dead for good, in whatever order callbacks add and remove events. *)
Live(h) == \E e \in heap : e.h = h

DeadHandlesStayDead ==
    [][\A h \in 1..next_event_handle : ~Live(h) => ~Live(h)']_vars

(* The instant the running code believes it executes at: the timestamp of
   the event whose callback runs, else the cycle counter. *)
Clock == now - late

(* Callbacks run in the order of their timestamps, within one add_cycles call
   and from one call to the next, although callbacks add events while the
   loop runs: time never moves backwards for them. *)
FiresInOrder == [][Clock' >= Clock]_vars

(* The inductive invariant behind the properties above.  Its last conjunct is
   the reason they hold: no event lies before the instant at which the
   running code believes it executes. *)
IInv ==
    /\ TypeOK
    /\ HandlesUnique
    /\ now <= MaxNow
    /\ late <= cycles
    /\ cycles <= now
    /\ phase = "idle" => late = 0
    /\ \A e \in heap : Clock <= e.timestamp /\ e.timestamp <= MaxNow + MaxDelay

(* The scheduler implements the agenda: seen at the instant Clock, every
   event fires exactly on time. *)
Promise == INSTANCE Agenda WITH
    Time    <- 0..(MaxNow + MaxDelay),
    pending <- heap,
    clock   <- Clock,
    issued  <- next_event_handle

ImplementsAgenda == Promise!ASpec
=============================================================================
