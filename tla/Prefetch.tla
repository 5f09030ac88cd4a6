------------------------------ MODULE Prefetch ------------------------------
(***************************************************************************)
(* The gamepak prefetch buffer (cpu/cpu.cpp, prefetch and prefetch_tick),  *)
(* which reads ahead of the program in ROM while the bus does other things *)
(* and so makes the next opcode cheaper.  Only the cost of an access is    *)
(* emulated: no data are kept, the buffer is two addresses, a size and the *)
(* cycles left of the opcode under way.                                    *)
(*                                                                         *)
(* The accesses come from the CPU (opcodes in sequence, the two reads of   *)
(* pipeline_flush after a branch, data) and, nested in the tick of any of  *)
(* them, from the DMA, which can read ROM as well.  Addresses are counted  *)
(* in halfwords.                                                           *)
(***************************************************************************)
EXTENDS Integers

CONSTANTS
    Rom,                \* the first address of ROM, 0x0800'0000
    MaxPc,              \* bound of the model on the addresses of the program
    MaxBehind,          \* bound of the model on how far cycles_left goes below zero
    Halfwords,          \* the capacity (capacity_in_bytes / 2, 8 in the code)
    Waits,              \* the wait states of a sequential access that WAITCNT can select
    NonSeq,             \* extra cycles of a non-sequential one
    MaxTick,            \* longest access outside ROM, in cycles
    CycleWidth          \* 2^32 in the code

ASSUME PrefetchAssumption ==
    /\ Rom \in Nat \ {0} /\ MaxPc \in Nat /\ MaxBehind \in Nat
    /\ Halfwords \in Nat /\ Halfwords >= 6
    /\ Waits \subseteq Nat /\ Waits # {}
    /\ NonSeq \in Nat
    /\ MaxTick \in Nat \ {0}
    /\ CycleWidth \in Nat \ {0}

VARIABLES
    prefetch_buffer,    \* the struct of that name
    enabled,            \* waitcnt_.prefetch_buffer_enable
    wait,               \* the wait states now selected
    pc,                 \* the address of the next opcode
    thumb,              \* cpsr().t
    stage,              \* of the CPU: in an instruction, in or after pipeline_flush
    access,             \* the last access: what it was, what it cost and may cost
    foreign,            \* it was filled under another WAITCNT or instruction set,
                        \* or data have been taken for an opcode out of it
    stale               \* the size was reset alone: see LosesCount

prefetchvars == <<prefetch_buffer, enabled, wait, pc, thumb, stage, access, foreign, stale>>

Maximum(a, b) == IF a > b THEN a ELSE b

(* The size of an opcode, and stall_cycles of the table that
   update_waitstate_table fills: a word costs two halfwords. *)
Increment(t) == IF t THEN 1 ELSE 2
SeqCycles(t) == Increment(t) * (1 + wait)
NonSeqCycles(t) == SeqCycles(t) + NonSeq

PrefetchInit ==
    /\ prefetch_buffer = [begin |-> 0, end |-> 0, size |-> 0, capacity |-> 0,
                          cycles_left |-> 0, cycles_needed |-> 0, addr_increment |-> 0,
                          active |-> FALSE]
    /\ enabled = FALSE
    /\ wait \in Waits
    /\ pc = Rom
    /\ thumb = FALSE
    /\ stage = "instruction"
    /\ access = [kind |-> "data", cost |-> 0, bound |-> 0]
    /\ foreign = FALSE
    /\ stale = FALSE
-----------------------------------------------------------------------------
(* One opcode has been read ahead. *)
Advanced(b, left) ==
    IF b.size + 1 = b.capacity
      THEN [b EXCEPT !.size = b.size + 1, !.active = FALSE, !.cycles_left = left]
      ELSE [b EXCEPT !.size = b.size + 1, !.end = b.end + b.addr_increment,
                     !.cycles_left = left + b.cycles_needed]

(* prefetch_tick: one opcode per tick, however long the tick. *)
PrefetchTick(b, cycles) ==
    IF ~b.active THEN b
    ELSE IF b.cycles_left - cycles <= 0 THEN Advanced(b, b.cycles_left - cycles)
    ELSE [b EXCEPT !.cycles_left = b.cycles_left - cycles]

(* An access that is not the next opcode: the size is reset, the addresses
   stay. *)
Restarted(b) == [b EXCEPT !.active = TRUE, !.size = 0]

(* tick_components: the DMA runs first, its accesses to ROM restart the
   buffer, and prefetch_tick does nothing for them. *)
Tick(b, cycles, dma) ==
    PrefetchTick(IF dma /\ enabled THEN Restarted(b) ELSE b, cycles)

Hit(b, addr) == b.size # 0 /\ addr = b.begin
UnderWay(b, addr) == b.active /\ addr = b.end

Popped(b) == [b EXCEPT !.begin = b.begin + b.addr_increment, !.size = b.size - 1]
(* Mutant: the size stays. *)
Moved(b) == [b EXCEPT !.begin = b.end]
Emptied(b) == [b EXCEPT !.begin = b.end, !.size = 0]
Refilled(addr, t) ==
    [begin |-> addr + Increment(t), end |-> addr + Increment(t), size |-> 0,
     capacity |-> Halfwords \div Increment(t), cycles_left |-> SeqCycles(t),
     cycles_needed |-> SeqCycles(t), addr_increment |-> Increment(t), active |-> TRUE]

(* make_unsigned(cycles_left), the cost of an opcode that is under way.
   Mutant: it is waited for from its start, after what is left. *)
LeftAndNeeded(b) == (b.cycles_left + b.cycles_needed) % CycleWidth
StillToRead(b) == b.cycles_left % CycleWidth

(* cpu::prefetch: what the access costs, and the buffer after it. *)
Prefetch(b, opcode, addr, cycles, t, dma) ==
    IF ~opcode THEN
        [cost |-> cycles, after |-> Tick(Restarted(b), cycles, dma)]
    ELSE IF Hit(b, addr) THEN
        [cost |-> 1, after |-> Tick(Popped(b), 1, dma)]
    ELSE IF UnderWay(b, addr) THEN
        [cost |-> StillToRead(b), after |-> Emptied(Tick(b, b.cycles_left, dma))]
    ELSE
        [cost |-> cycles, after |-> Refilled(addr, t)]

(* A ghost: a reset of the size loses count when it meets a buffer whose
   addresses lie apart or which had stopped, and until it is filled anew. *)
LosesCount(b, reset) == enabled /\ reset /\ (b.begin # b.end \/ ~b.active)

(* core::read and core::write of ROM: the address is an opcode's if it is pc. *)
ReadRom(kind, opcode, addr, cycles, t, dma) ==
    LET b == prefetch_buffer
        result == IF enabled THEN Prefetch(b, opcode, addr, cycles, t, dma)
                  ELSE [cost |-> cycles, after |-> Tick(b, cycles, dma)]
        hit == opcode /\ Hit(b, addr)
    IN  /\ prefetch_buffer' = result.after
        /\ access' = [kind |-> kind, cost |-> result.cost,
                      bound |-> Maximum(cycles, b.cycles_needed)]
        /\ foreign' = /\ foreign \/ t # thumb \/ (enabled /\ hit /\ kind = "data")
                      /\ ~enabled \/ ~opcode \/ hit \/ UnderWay(b, addr)
        /\ stale' = IF enabled /\ opcode /\ ~hit THEN FALSE
                    ELSE stale \/ LosesCount(IF hit THEN Popped(b) ELSE b, dma \/ ~opcode)
-----------------------------------------------------------------------------
(* The model's bounds on what is read ahead. *)
Bounded ==
    /\ prefetch_buffer.end <= MaxPc
    /\ prefetch_buffer.size <= Halfwords
    /\ prefetch_buffer.cycles_left >= -MaxBehind

(* execute_instruction reads the next opcode, non-sequentially after some
   instructions and at the boundaries of ROM.  The first opcode after a branch
   is told apart. *)
FetchOpcode(cycles, dma) ==
    /\ stage = "flushed" \/ (stage = "instruction" /\ Bounded /\ pc < MaxPc)
    /\ cycles \in {SeqCycles(thumb), NonSeqCycles(thumb)}
    /\ ReadRom(IF stage = "flushed" THEN "branch" ELSE "sequential", TRUE, pc, cycles, thumb, dma)
    /\ pc' = pc + Increment(thumb)
    /\ stage' = "instruction"
    /\ UNCHANGED <<enabled, wait, thumb>>

(* The first read of pipeline_flush, which may follow a change of the
   instruction set; an interrupt may come right after another branch. *)
Branch(target, t, dma) ==
    /\ target % Increment(t) = 0
    /\ stage # "flush"
    /\ Bounded
    /\ ReadRom("branch", TRUE, target, NonSeqCycles(t), t, dma)
    /\ pc' = target
    /\ thumb' = t
    /\ stage' = "flush"
    /\ UNCHANGED <<enabled, wait>>

(* The second one is not at pc(), which the flush advances only now. *)
FlushSecond(dma) ==
    /\ stage = "flush"
    /\ ReadRom("data", FALSE, pc + Increment(thumb), SeqCycles(thumb), thumb, dma)
    /\ pc' = pc + 2 * Increment(thumb)
    /\ stage' = "flushed"
    /\ UNCHANGED <<enabled, wait, thumb>>

(* An instruction accesses data in ROM.  Data that lie at pc() are taken for
   the next opcode. *)
AccessRom(at_pc, dma) ==
    /\ stage = "instruction"
    /\ Bounded
    /\ ReadRom("data", at_pc, pc, NonSeqCycles(thumb), thumb, dma)
    /\ UNCHANGED <<enabled, wait, pc, thumb, stage>>

(* An access outside ROM, or an internal cycle.  SRAM shares the bus with ROM:
   it stops the buffer after the access, which ticks once more. *)
AccessElsewhere(cycles, dma) ==
    /\ stage = "instruction"
    /\ Bounded
    /\ prefetch_buffer' = Tick(prefetch_buffer, cycles, dma)
    /\ access' = [kind |-> "data", cost |-> cycles, bound |-> cycles]
    /\ stale' = (stale \/ LosesCount(prefetch_buffer, dma))
    /\ UNCHANGED <<enabled, wait, pc, thumb, stage, foreign>>

ReadSram(cycles) ==
    /\ stage = "instruction"
    /\ Bounded
    /\ LET b == Tick(prefetch_buffer, cycles, FALSE)
       IN  /\ prefetch_buffer' = IF b.active THEN [b EXCEPT !.active = FALSE, !.size = 0] ELSE b
           /\ access' = [kind |-> "data", cost |-> IF b.active THEN cycles + 1 ELSE cycles,
                         bound |-> cycles + 1]
    /\ UNCHANGED <<enabled, wait, pc, thumb, stage, foreign, stale>>

(* A write to WAITCNT leaves the buffer alone, with the cycles it was filled
   with. *)
WriteWaitcnt(e, w) ==
    /\ stage = "instruction"
    /\ enabled' = e
    /\ wait' = w
    /\ foreign' = TRUE
    /\ UNCHANGED <<prefetch_buffer, pc, thumb, stage, access, stale>>

PrefetchNext ==
    \/ \E dma \in BOOLEAN :
        \/ \E t \in BOOLEAN : FetchOpcode(SeqCycles(t), dma) \/ FetchOpcode(NonSeqCycles(t), dma)
        \/ \E target \in Rom..(MaxPc - 4), t \in BOOLEAN : Branch(target, t, dma)
        \/ FlushSecond(dma)
        \/ \E at_pc \in BOOLEAN : AccessRom(at_pc, dma)
        \/ \E cycles \in 1..MaxTick : AccessElsewhere(cycles, dma)
    \/ \E cycles \in 1..MaxTick : ReadSram(cycles)
    \/ \E e \in BOOLEAN, w \in Waits : WriteWaitcnt(e, w)

PrefetchSpec == PrefetchInit /\ [][PrefetchNext]_prefetchvars
-----------------------------------------------------------------------------
(* The state is well formed. *)
PrefetchTypeOK ==
    /\ prefetch_buffer.begin \in Nat /\ prefetch_buffer.end \in Nat
    /\ prefetch_buffer.size \in Nat
    /\ prefetch_buffer.cycles_left \in Int
    /\ enabled \in BOOLEAN /\ thumb \in BOOLEAN
    /\ stage \in {"instruction", "flush", "flushed"}
    /\ wait \in Waits
    /\ pc \in Nat

(* The buffer never makes straight-line code slower: the next opcode in
   sequence costs at most what it costs without the buffer, or what an opcode
   cost when the buffer was filled.  In particular cycles_left, which is
   signed and goes below zero when ticks are long, is not negative when the
   program catches up with the read-ahead.  It can be when a branch returns to
   `end': the branch that left it resets the size and lets the addresses and
   the counter stand.  It can be, too, after data at pc() were taken for an
   opcode, when a buffer that has been emptied twice without being filled anew
   lags behind the program: `foreign' excepts that. *)
SequentialFetchBounded ==
    access.kind = "sequential" /\ ~foreign => access.cost <= access.bound

(* While nothing has reset the size alone, the buffer holds exactly the
   opcodes from begin to end: an opcode that costs one cycle has been read
   ahead.  Once it has been filled it never holds more than its capacity,
   however long the program stays elsewhere, and stops reading ahead when it is
   full. *)
HoldsWhatItRead ==
    /\ PrefetchTypeOK
    /\ prefetch_buffer.active /\ ~stale =>
           prefetch_buffer.end = prefetch_buffer.begin
                                 + prefetch_buffer.size * prefetch_buffer.addr_increment
    /\ prefetch_buffer.capacity > 0 =>
           /\ prefetch_buffer.size <= prefetch_buffer.capacity
           /\ prefetch_buffer.active => prefetch_buffer.size < prefetch_buffer.capacity
=============================================================================
