-------------------------------- MODULE Irq ---------------------------------
(***************************************************************************)
(* The interrupt controller and the halt control of the CPU                *)
(* (cpu/arm7tdmi.cpp, cpu/cpu.cpp).  Requests, and writes to IE, IF and    *)
(* IME, do not change the interrupt line the CPU looks at: they record the *)
(* level the line should have and schedule an event that copies it one     *)
(* cycle later.  In between the CPU executes, DMA writes registers and     *)
(* other components request more interrupts, some of them from callbacks   *)
(* that run in the same loop of the scheduler, before or after the copy.   *)
(*                                                                         *)
(* Of the scheduler this module keeps the events of update_irq_signal.     *)
(* Their delay is one cycle and every bus access takes at least one, so an *)
(* event that was added before an add_cycles call is due in it, and one    *)
(* that is added by a callback is not.                                     *)
(***************************************************************************)
CONSTANTS
    Irqs,               \* interrupt sources
    Bytes,              \* how the sources are divided among the bytes of IE and IF
    Handles             \* handles of scheduler events

ASSUME IrqAssumption == Bytes \subseteq SUBSET Irqs

VARIABLES
    ime, ie, if,                \* the registers, ie_ and if_ as sets of sources
    irq_signal,                 \* irq_signal_, the line the CPU looks at
    scheduled_irq_signal,       \* scheduled_irq_signal_
    irq_signal_delay_handle,    \* irq_signal_delay_handle_
    pending,                    \* handles of the update_irq_signal events in the heap
    due,                        \* those of them the running add_cycles will fire
    in_loop,                    \* the scheduler is inside add_cycles
    haltcnt,                    \* haltcnt_
    cpsr_i,                     \* interrupts disabled in the CPSR
    phase,                      \* what cpu::tick is doing
    dma_access                  \* a DMA channel has just accessed the bus

registers == <<ime, ie, if>>
signal == <<irq_signal, scheduled_irq_signal, irq_signal_delay_handle, pending, due>>
execution == <<haltcnt, cpsr_i, phase>>
vars == <<registers, signal, in_loop, execution, dma_access>>

(* The phases of cpu::tick that wait for the bus to tick the components. *)
Ticking == {"sleep", "entry", "fetch", "store"}

Phases == Ticking \cup {"instruction", "enter", "execute", "write"}

Init ==
    /\ ime = FALSE /\ ie = {} /\ if = {}
    /\ irq_signal = FALSE
    /\ scheduled_irq_signal = FALSE
    /\ irq_signal_delay_handle \in Handles
    /\ pending = {} /\ due = {}
    /\ in_loop = FALSE
    /\ haltcnt = "running"
    /\ cpsr_i = TRUE
    /\ phase = "instruction"
    /\ dma_access = FALSE

(* interrupt_available() *)
InterruptAvailable == if \cap ie # {}

Line == ime /\ InterruptAvailable

-----------------------------------------------------------------------------
(* What is left of a set of events after remove_event of the stored handle. *)
Others(events) == events \ {irq_signal_delay_handle}

(* schedule_update_irq_signal, called after a change of ime_, ie_ or if_. *)
ScheduleUpdateIrqSignal ==
    /\ scheduled_irq_signal' = Line'
    /\ IF Line' # irq_signal
         THEN \E h \in Handles \ pending :
                /\ irq_signal_delay_handle' = h
                /\ pending' = Others(pending) \cup {h}
                /\ due' = Others(due)
         ELSE UNCHANGED <<irq_signal_delay_handle, pending, due>>
    /\ UNCHANGED irq_signal

(* Code that writes I/O registers runs: a store of the CPU or of a DMA
   channel, each after the tick of its bus access. *)
Writing ==
    /\ ~in_loop
    /\ phase = "write" \/ dma_access

(* A component requests an interrupt: in a callback of the scheduler, when a
   DMA channel finishes, when a key is pressed between two cpu::tick calls
   or KEYCNT is written.  Mutant: the line is only updated by writes. *)
RequestWithoutUpdate(irq) ==
    /\ in_loop \/ Writing \/ phase = "instruction"
    /\ if' = if \cup {irq}
    /\ UNCHANGED <<ime, ie, signal, in_loop, execution, dma_access>>

RequestInterrupt(irq) ==
    /\ in_loop \/ Writing \/ phase = "instruction"
    /\ if' = if \cup {irq}
    /\ UNCHANGED <<ime, ie>>
    /\ ScheduleUpdateIrqSignal
    /\ UNCHANGED <<in_loop, execution, dma_access>>

WriteIme(enabled) ==
    /\ Writing
    /\ ime' = enabled
    /\ UNCHANGED <<ie, if>>
    /\ ScheduleUpdateIrqSignal
    /\ UNCHANGED <<in_loop, execution, dma_access>>

WriteIe(byte, data) ==
    /\ Writing
    /\ ie' = (ie \ byte) \cup data
    /\ UNCHANGED <<ime, if>>
    /\ ScheduleUpdateIrqSignal
    /\ UNCHANGED <<in_loop, execution, dma_access>>

(* Writing a one to a bit of IF acknowledges the interrupt. *)
WriteIf(data) ==
    /\ Writing
    /\ if' = if \ data
    /\ UNCHANGED <<ime, ie>>
    /\ ScheduleUpdateIrqSignal
    /\ UNCHANGED <<in_loop, execution, dma_access>>

WriteHaltcnt(control) ==
    /\ Writing
    /\ haltcnt' = control
    /\ UNCHANGED <<registers, signal, in_loop, cpsr_i, phase, dma_access>>

Write ==
    \/ \E enabled \in BOOLEAN : WriteIme(enabled)
    \/ \E byte \in Bytes : \E data \in SUBSET byte : WriteIe(byte, data) \/ WriteIf(data)
    \/ \E control \in {"halted", "stopped"} : WriteHaltcnt(control)

-----------------------------------------------------------------------------
(* The bus ticks the components: DMA channels that are waiting run first,
   each of their accesses adds cycles too, then the cycles of the access
   itself are added.  All events that were pending are due. *)
AddCycles ==
    /\ phase \in Ticking
    /\ ~in_loop
    /\ in_loop' = TRUE
    /\ due' = pending
    /\ dma_access' = FALSE
    /\ UNCHANGED <<registers, irq_signal, scheduled_irq_signal,
                   irq_signal_delay_handle, pending, execution>>

(* The callback of the delay event. *)
UpdateIrqSignal ==
    /\ in_loop
    /\ \E h \in due :
        /\ due' = due \ {h}
        /\ pending' = pending \ {h}
    /\ irq_signal' = scheduled_irq_signal
    /\ UNCHANGED <<registers, scheduled_irq_signal, irq_signal_delay_handle,
                   in_loop, execution, dma_access>>

(* The loop ends.  The tick was that of a DMA access, and more follow... *)
DmaAccess ==
    /\ in_loop /\ due = {}
    /\ in_loop' = FALSE
    /\ dma_access' = TRUE
    /\ UNCHANGED <<registers, signal, execution>>

(* ... or it was the last one, and cpu::tick goes on. *)
TickComponentsReturns ==
    /\ in_loop /\ due = {}
    /\ in_loop' = FALSE
    /\ phase' = CASE phase = "sleep" -> "instruction"
                  [] phase = "entry" -> "enter"
                  [] phase = "fetch" -> "execute"
                  [] phase = "store" -> "write"
    /\ UNCHANGED <<registers, signal, haltcnt, cpsr_i, dma_access>>

-----------------------------------------------------------------------------
(* An available interrupt ends the halt, whatever IME says.  Mutant: only the
   line does, which needs IME. *)
WakesUpByLine == haltcnt = "halted" /\ irq_signal
WakesUp == haltcnt = "halted" /\ InterruptAvailable

(* process_interrupts returns early when the CPSR disables interrupts. *)
TakesInterrupt == irq_signal /\ ~cpsr_i

(* cpu::tick and the start of execute_instruction. *)
CpuTick ==
    /\ phase = "instruction"
    /\ haltcnt' = IF WakesUp THEN "running" ELSE haltcnt
    /\ phase' = IF haltcnt' # "running" THEN "sleep"
                ELSE IF TakesInterrupt THEN "entry" ELSE "fetch"
    /\ UNCHANGED <<registers, signal, in_loop, cpsr_i, dma_access>>

(* process_interrupts after its first bus read: the banks are switched and
   the pipeline is flushed, which ticks like the fetch that follows. *)
EnterInterrupt ==
    /\ phase = "enter"
    /\ cpsr_i' = TRUE
    /\ phase' = "fetch"
    /\ UNCHANGED <<registers, signal, in_loop, haltcnt, dma_access>>

(* An instruction that leaves the CPSR and the registers of the interrupt
   controller alone, or one that writes the CPSR (MSR, exception return,
   SWI). *)
ExecuteNoStore ==
    /\ phase = "execute"
    /\ cpsr_i' \in BOOLEAN
    /\ phase' = "instruction"
    /\ UNCHANGED <<registers, signal, in_loop, haltcnt, dma_access>>

(* An instruction that stores: its bus access ticks, then the bytes are
   written one by one. *)
ExecuteStore ==
    /\ phase = "execute"
    /\ phase' = "store"
    /\ UNCHANGED <<registers, signal, in_loop, haltcnt, cpsr_i, dma_access>>

StoreEnds ==
    /\ phase = "write"
    /\ phase' = "instruction"
    /\ UNCHANGED <<registers, signal, in_loop, haltcnt, cpsr_i, dma_access>>

Cpu == CpuTick \/ EnterInterrupt \/ ExecuteNoStore \/ ExecuteStore \/ StoreEnds

Next ==
    \/ \E irq \in Irqs : RequestInterrupt(irq)
    \/ Write
    \/ AddCycles
    \/ UpdateIrqSignal
    \/ DmaAccess
    \/ TickComponentsReturns
    \/ Cpu

Spec == Init /\ [][Next]_vars

(* The frontend calls core::tick for ever and every step of it returns.  A
   due event fires unless callbacks that fall into the very same cycle
   replace it, again and again, in every tick (strong fairness: it is not
   replaced for ever), and DMA transfers end. *)
Fairness ==
    /\ WF_vars(AddCycles)
    /\ WF_vars(Cpu)
    /\ SF_vars(UpdateIrqSignal)
    /\ SF_vars(TickComponentsReturns)

FairSpec == Spec /\ Fairness
-----------------------------------------------------------------------------
(* The state is well formed. *)
TypeOK ==
    /\ ime \in BOOLEAN /\ ie \in SUBSET Irqs /\ if \in SUBSET Irqs
    /\ irq_signal \in BOOLEAN
    /\ scheduled_irq_signal \in BOOLEAN
    /\ irq_signal_delay_handle \in Handles
    /\ pending \in SUBSET Handles
    /\ due \in SUBSET pending
    /\ in_loop \in BOOLEAN
    /\ haltcnt \in {"running", "halted", "stopped"}
    /\ cpsr_i \in BOOLEAN
    /\ phase \in Phases
    /\ dma_access \in BOOLEAN

(* The line is IME and (IE and IF) whenever no update of it is on its way:
   no request, acknowledgement or mask is ever lost between the registers
   and the line, in whatever order components raise, mask and acknowledge
   interrupts around the delayed copy. *)
SignalConsistent ==
    /\ scheduled_irq_signal = Line
    /\ pending = {} => irq_signal = Line

(* At most one update is on its way, the one the handle names: updates that
   were superseded are removed from the scheduler. *)
OneUpdatePending ==
    \A h \in pending : h = irq_signal_delay_handle

(* The inductive invariant: add_cycles runs inside a bus access. *)
LoopInTick == in_loop => phase \in Ticking

IInv == TypeOK /\ SignalConsistent /\ OneUpdatePending /\ LoopInTick

(* A stale line can start an interrupt that was just masked or acknowledged,
   but only in the cycle in which the update is on its way. *)
SpuriousOnlyInDelay ==
    [][phase = "instruction" /\ phase' = "entry" => Line \/ pending # {}]_vars

(* An interrupt that stays requested, enabled and unmasked is taken, also
   when the CPU was halted.  It is not when the CPU is stopped: nothing ends
   a stop. *)
InterruptTaken ==
    (Line /\ ~cpsr_i) ~>
        (phase = "enter" \/ ~Line \/ cpsr_i \/ haltcnt = "stopped")

(* A halted CPU runs again when an interrupt it enabled is requested, also
   with IME off. *)
HaltEnds ==
    (haltcnt = "halted" /\ InterruptAvailable) ~>
        (haltcnt # "halted" \/ ~InterruptAvailable)
=============================================================================
