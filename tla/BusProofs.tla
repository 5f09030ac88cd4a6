----------------------------- MODULE BusProofs ------------------------------
(***************************************************************************)
(* Proofs about what the CPU meets at its bus, for any sources, any layout *)
(* of the registers and any number of handles: the interrupt line is never *)
(* left behind the registers, and at most one update of it is on its way.  *)
(* About Keypad, for any keys in any two bytes: it asks when it should.    *)
(* And about the prefetch buffer, for any wait states and lengths of       *)
(* ticks: it holds what it read ahead and never makes straight-line code   *)
(* slower.                                                                 *)
(***************************************************************************)
EXTENDS Irq, Keypad, Prefetch, TLAPS

(* The power-on state satisfies the invariant. *)
LEMMA InitIInv == Init => IInv
BY DEF Init, IInv, LoopInTick, TypeOK, SignalConsistent, OneUpdatePending, Line, InterruptAvailable, Phases

(* The signal part of the invariant after schedule_update_irq_signal, which
   every change of the registers ends with. *)
LEMMA ScheduleConsistent ==
  ASSUME IInv, ScheduleUpdateIrqSignal, Line' \in BOOLEAN
  PROVE  /\ irq_signal' \in BOOLEAN
         /\ scheduled_irq_signal' \in BOOLEAN
         /\ irq_signal_delay_handle' \in Handles
         /\ pending' \in SUBSET Handles
         /\ due' \in SUBSET pending'
         /\ SignalConsistent'
         /\ OneUpdatePending'
<1>1. irq_signal' \in BOOLEAN /\ scheduled_irq_signal' \in BOOLEAN
  BY DEF ScheduleUpdateIrqSignal, IInv, TypeOK
<1>2. CASE Line' # irq_signal
  <2> PICK h \in Handles \ pending :
        /\ irq_signal_delay_handle' = h
        /\ pending' = Others(pending) \cup {h}
        /\ due' = Others(due)
    BY <1>2 DEF ScheduleUpdateIrqSignal
  <2>1. pending' = {h}
    BY DEF IInv, OneUpdatePending, Others
  <2>2. due' = {}
    BY DEF IInv, TypeOK, OneUpdatePending, Others
  <2> QED
    BY <1>1, <2>1, <2>2 DEF ScheduleUpdateIrqSignal, SignalConsistent, OneUpdatePending
<1>3. CASE Line' = irq_signal
  <2>1. UNCHANGED <<irq_signal_delay_handle, pending, due, irq_signal>>
    BY <1>3 DEF ScheduleUpdateIrqSignal
  <2> QED
    BY <1>1, <1>3, <2>1 DEF ScheduleUpdateIrqSignal, IInv, TypeOK, SignalConsistent, OneUpdatePending
<1> QED
  BY <1>2, <1>3

(* A step that changes the registers and schedules the update. *)
LEMMA RegisterStep ==
  ASSUME IInv, ScheduleUpdateIrqSignal,
         ime' \in BOOLEAN, ie' \in SUBSET Irqs, if' \in SUBSET Irqs,
         UNCHANGED <<in_loop, execution, dma_access>>
  PROVE  IInv'
<1>1. Line' \in BOOLEAN
  BY DEF Line, InterruptAvailable
<1> QED
  BY <1>1, ScheduleConsistent DEF IInv, LoopInTick, TypeOK, execution

(* Every step preserves the invariant. *)
LEMMA NextIInv == IInv /\ [Next]_vars => IInv'
<1> SUFFICES ASSUME IInv, [Next]_vars PROVE IInv'
  OBVIOUS
<1> USE IrqAssumption
<1>1. CASE \E irq \in Irqs : RequestInterrupt(irq)
  BY <1>1, RegisterStep DEF RequestInterrupt, IInv, TypeOK
<1>2. CASE Write
  <2>1. CASE \E on \in BOOLEAN : WriteIme(on)
    BY <2>1, RegisterStep DEF WriteIme, IInv, TypeOK
  <2>2. CASE \E byte \in Bytes : \E data \in SUBSET byte : WriteIe(byte, data)
    BY <2>2, RegisterStep DEF WriteIe, IInv, TypeOK
  <2>3. CASE \E byte \in Bytes : \E data \in SUBSET byte : WriteIf(data)
    BY <2>3, RegisterStep DEF WriteIf, IInv, TypeOK
  <2>4. CASE \E control \in {"halted", "stopped"} : WriteHaltcnt(control)
    BY <2>4 DEF WriteHaltcnt, registers, signal, IInv, LoopInTick, TypeOK, SignalConsistent,
                OneUpdatePending, Line, InterruptAvailable
  <2> QED
    BY <1>2, <2>1, <2>2, <2>3, <2>4 DEF Write
<1>3. CASE AddCycles
  BY <1>3 DEF AddCycles, registers, execution, IInv, LoopInTick, TypeOK, SignalConsistent,
              OneUpdatePending, Line, InterruptAvailable
<1>4. CASE UpdateIrqSignal
  BY <1>4 DEF UpdateIrqSignal, registers, execution, IInv, LoopInTick, TypeOK, SignalConsistent,
              OneUpdatePending, Line, InterruptAvailable
<1>5. CASE DmaAccess
  BY <1>5 DEF DmaAccess, registers, signal, execution, IInv, LoopInTick, TypeOK, SignalConsistent,
              OneUpdatePending, Line, InterruptAvailable
<1>6. CASE TickComponentsReturns
  <2>1. UNCHANGED <<registers, signal, haltcnt, cpsr_i, dma_access>> /\ in_loop' = FALSE
    BY <1>6 DEF TickComponentsReturns
  <2>2. phase' \in {"instruction", "enter", "execute", "write"}
    BY <1>6 DEF TickComponentsReturns, IInv, LoopInTick, Ticking
  <2> QED
    BY <2>1, <2>2 DEF registers, signal, IInv, LoopInTick, TypeOK, SignalConsistent,
                      OneUpdatePending, Line, InterruptAvailable, Phases
<1>7. CASE Cpu
  <2>1. UNCHANGED <<registers, signal, in_loop, dma_access>>
    BY <1>7 DEF Cpu, CpuTick, EnterInterrupt, ExecuteNoStore, ExecuteStore, StoreEnds
  <2>2. haltcnt' \in {"running", "halted", "stopped"} /\ cpsr_i' \in BOOLEAN /\ phase' \in Phases
    BY <1>7 DEF Cpu, CpuTick, EnterInterrupt, ExecuteNoStore, ExecuteStore, StoreEnds,
                IInv, TypeOK, Phases, Ticking
  <2>3. ~in_loop
    BY <1>7 DEF Cpu, CpuTick, EnterInterrupt, ExecuteNoStore, ExecuteStore, StoreEnds,
                IInv, LoopInTick, Ticking
  <2> QED
    BY <2>1, <2>2, <2>3 DEF registers, signal, IInv, LoopInTick, TypeOK, SignalConsistent,
                            OneUpdatePending, Line, InterruptAvailable
<1>8. CASE UNCHANGED vars
  BY <1>8 DEF vars, registers, signal, execution, IInv, LoopInTick, TypeOK, SignalConsistent,
              OneUpdatePending, Line, InterruptAvailable
<1> QED
  BY <1>1, <1>2, <1>3, <1>4, <1>5, <1>6, <1>7, <1>8 DEF Next

(* The inductive invariant holds in every reachable state. *)
THEOREM Invariance == Spec => []IInv
BY InitIInv, NextIInv, PTL DEF Spec

(* The line agrees with the registers unless an update is on its way. *)
THEOREM LineFollowsRegisters == Spec => []SignalConsistent
BY Invariance, PTL DEF IInv

(* The scheduler holds at most one update of the line. *)
THEOREM AtMostOneUpdate == Spec => []OneUpdatePending
BY Invariance, PTL DEF IInv

(* An interrupt is taken without cause only while an update is on its way. *)
THEOREM SpuriousBounded == Spec => SpuriousOnlyInDelay
<1>1. IInv /\ [Next]_vars => [phase = "instruction" /\ phase' = "entry" => Line \/ pending # {}]_vars
  <2> SUFFICES ASSUME IInv, Next, phase = "instruction", phase' = "entry"
               PROVE  Line \/ pending # {}
    OBVIOUS
  <2>1. CpuTick
    <3>1. phase' # phase
      OBVIOUS
    <3>2. CASE TickComponentsReturns
      BY <3>2 DEF TickComponentsReturns, IInv, LoopInTick, Ticking
    <3>3. CASE Cpu
      BY <3>3 DEF Cpu, CpuTick, EnterInterrupt, ExecuteNoStore, ExecuteStore, StoreEnds
    <3> QED
      BY <3>1, <3>2, <3>3 DEF Next, Cpu, CpuTick, RequestInterrupt, Write, WriteIme, WriteIe, WriteIf, WriteHaltcnt,
           AddCycles, UpdateIrqSignal, DmaAccess, execution
  <2>2. irq_signal
    BY <2>1 DEF CpuTick, TakesInterrupt
  <2> QED
    BY <2>2 DEF IInv, SignalConsistent
<1> QED
  BY <1>1, Invariance, PTL DEF Spec, SpuriousOnlyInDelay
-----------------------------------------------------------------------------
(* The invariant of the keypad: its registers are of their kinds. *)
KeyInv ==
  /\ held \subseteq Keys
  /\ keycnt_ \in KeyCnt
  /\ storing = <<>> \/ \E n \in KeyCnt : storing = <<n>>
  /\ KeysAnswered

(* A byte of a store leaves the registers of their kinds, and the low one says
   nothing of whether the interrupt is enabled. *)
LEMMA BytesTyped ==
  ASSUME NEW c \in KeyCnt, NEW n \in KeyCnt
  PROVE  /\ WithLow(c, n) \in KeyCnt /\ WithHigh(c, n) \in KeyCnt
         /\ WithLow(c, n).enabled = c.enabled
BY KeypadAssumption DEF WithLow, WithHigh, KeyCnt

(* Who looks at the condition asks. *)
LEMMA AskingAnswers ==
  ASSUME AsksIfAvailable, ~spurious'
  PROVE  KeysAnswered'
BY DEF AsksIfAvailable, KeysAnswered, Holds, HoldsNext, Available

LEMMA InitKeys == KeypadInit => KeyInv
BY DEF KeypadInit, KeyInv, KeysAnswered, Holds, Available, NotAsking, KeyCnt

(* Each step keeps the registers typed; all but a release ask. *)
LEMMA StepKeys == KeyInv /\ [KeypadNext]_keypadvars => KeyInv'
<1> SUFFICES ASSUME KeyInv, [KeypadNext]_keypadvars PROVE KeyInv'
  OBVIOUS
<1> USE DEF KeyInv
<1>0. ~spurious
  BY DEF KeysAnswered
<1>1. ASSUME NEW k \in Keys, Press(k) PROVE KeyInv'
  <2>1. ~spurious' /\ AsksIfAvailable
    BY <1>0, <1>1 DEF Press
  <2> QED
    BY <1>1, <2>1, AskingAnswers DEF Press
<1>2. ASSUME NEW k \in Keys, Release(k) PROVE KeyInv'
  <2>1. held' \subseteq held /\ keycnt_' = keycnt_ /\ ~spurious'
    BY <1>0, <1>2 DEF Release
  <2>2. CASE ~Holds'
    BY <1>2, <2>1, <2>2 DEF Release, KeysAnswered
  <2>3. CASE Holds' /\ ~Holds
    <3>1. keycnt_.cond_strategy = "all" /\ HoldsNext
      BY <2>1, <2>3 DEF Holds, HoldsNext, Available
    <3> QED
      BY <1>2, <2>1, <2>3, <3>1 DEF Release, KeysAnswered
  <2>4. CASE Holds' /\ Holds
    <3>1. HoldsNext
      BY <2>4 DEF Holds, HoldsNext
    <3>2. asked' \/ (released' /\ keycnt_'.cond_strategy = "all")
      BY <1>2, <2>1, <2>4, <3>1 DEF Release, KeysAnswered
    <3> QED
      BY <1>2, <2>1, <3>2 DEF Release, KeysAnswered
  <2> QED
    BY <2>2, <2>3, <2>4
<1>3. ASSUME NEW n \in KeyCnt, WriteKeycnt(n) PROVE KeyInv'
  <2>1. keycnt_' = WithLow(keycnt_, n)
    BY <1>3 DEF WriteKeycnt, First
  <2>2. HoldsNext => keycnt_.enabled
    BY <2>1, BytesTyped DEF HoldsNext, Available
  <2>3. ~spurious' /\ AsksIfAvailable
    BY <1>0, <1>3, <2>2 DEF WriteKeycnt
  <2> QED
    BY <1>3, <2>1, <2>3, BytesTyped, AskingAnswers DEF WriteKeycnt
<1>4. ASSUME NEW n \in KeyCnt, WriteByte(n) PROVE KeyInv'
  BY <1>0, <1>4, BytesTyped, AskingAnswers DEF WriteByte
<1>5. CASE WriteSecondByte
  BY <1>0, <1>5, AskingAnswers DEF WriteSecondByte
<1>6. CASE UNCHANGED keypadvars
  BY <1>6 DEF keypadvars, KeysAnswered, Holds, Available
<1> QED
  BY <1>1, <1>2, <1>3, <1>4, <1>5, <1>6 DEF KeypadNext

(* The keypad asks for its interrupt whenever its condition comes to hold, by a
   key or a store of either width, and never because of half a store that
   enables it (keypad.h, core_bus.cpp), whichever keys share a byte. *)
THEOREM KeysAreAnswered == KeypadSpec => []KeysAnswered
<1>1. KeyInv => KeysAnswered
  BY DEF KeyInv
<1> QED
  BY <1>1, InitKeys, StepKeys, PTL DEF KeypadSpec

----------------------------------------------------------------------------
(* The prefetch buffer. *)

(* The struct, with the signed counter. *)
Buffers ==
    [begin : Nat, end : Nat, size : Nat, capacity : Nat, cycles_left : Int,
     cycles_needed : Nat, addr_increment : Nat, active : BOOLEAN]

(* Never filled, or filled with opcodes of which it holds three or more. *)
Filled(b) ==
    /\ b.capacity = 0 => b.begin = 0 /\ b.end = 0 /\ b.addr_increment = 0
    /\ b.capacity = 0 \/ (b.capacity >= 3 /\ b.cycles_needed >= 1)

(* It is within its capacity, and reads on only below it. *)
Within(b) ==
    b.capacity > 0 => b.size <= b.capacity /\ (b.active => b.size < b.capacity)

(* An empty buffer still has to wait for its opcode, and not longer than for a
   whole one. *)
Waiting(b) ==
    /\ b.cycles_left <= b.cycles_needed
    /\ b.active /\ b.size = 0 => b.cycles_left > 0

Counted(b) == b.active => b.end = b.begin + b.size * b.addr_increment

Sane(b) == b \in Buffers /\ Filled(b) /\ Within(b) /\ b.cycles_left <= b.cycles_needed

(* Where the program is with respect to it, at each stage of the CPU. *)
InPlace ==
    LET b == prefetch_buffer
    IN  /\ b.capacity >= 3 /\ b.addr_increment = Increment(thumb)
        /\ stage = "instruction" =>
               b.begin = pc \/ (b.begin = pc + Increment(thumb) /\ b.end >= b.begin)
        /\ stage = "flush" => b.begin \in {pc, pc + Increment(thumb)}
        /\ stage = "flushed" =>
               /\ b.begin \in {pc - 2 * Increment(thumb), pc - Increment(thumb)}
               /\ b.size <= 1

PrefetchInv ==
    /\ Sane(prefetch_buffer) /\ Waiting(prefetch_buffer)
    /\ ~stale => Counted(prefetch_buffer)
    /\ enabled \in BOOLEAN /\ thumb \in BOOLEAN /\ foreign \in BOOLEAN /\ stale \in BOOLEAN
    /\ stage \in {"instruction", "flush", "flushed"}
    /\ wait \in Waits
    /\ pc \in Nat /\ pc >= Rom
    /\ enabled /\ ~foreign => InPlace
    /\ SequentialFetchBounded

----------------------------------------------------------------------------
(* The sizes and the cycles of an opcode are numbers above zero. *)
LEMMA Opcodes ==
    ASSUME NEW t \in BOOLEAN, wait \in Waits
    PROVE  /\ Increment(t) \in {1, 2}
           /\ SeqCycles(t) \in Nat \ {0} /\ NonSeqCycles(t) \in Nat \ {0}
           /\ Halfwords \div Increment(t) \in Nat /\ Halfwords \div Increment(t) >= 3
  <1>1. wait \in Nat /\ NonSeq \in Nat /\ Halfwords \in Nat /\ Halfwords >= 6
    BY PrefetchAssumption
  <1>. QED  BY <1>1 DEF Increment, SeqCycles, NonSeqCycles

(* What prefetch_tick does to each field. *)
LEMMA TickFields ==
    ASSUME NEW b \in Buffers, NEW c \in Int
    PROVE  LET r == PrefetchTick(b, c)
           IN  /\ r \in Buffers
               /\ r.begin = b.begin /\ r.addr_increment = b.addr_increment
               /\ r.capacity = b.capacity /\ r.cycles_needed = b.cycles_needed
               /\ ~b.active => r = b
               /\ b.active /\ b.cycles_left - c > 0 =>
                      r.active /\ r.size = b.size /\ r.end = b.end /\ r.cycles_left = b.cycles_left - c
               /\ b.active /\ b.cycles_left - c <= 0 /\ b.size + 1 = b.capacity =>
                      ~r.active /\ r.size = b.size + 1 /\ r.end = b.end
                      /\ r.cycles_left = b.cycles_left - c
               /\ b.active /\ b.cycles_left - c <= 0 /\ b.size + 1 # b.capacity =>
                      r.active /\ r.size = b.size + 1 /\ r.end = b.end + b.addr_increment
                      /\ r.cycles_left = b.cycles_left - c + b.cycles_needed
  <1>. DEFINE left == b.cycles_left - c
  <1>1. left \in Int
    BY DEF Buffers
  <1>2. CASE ~b.active
    BY <1>2 DEF PrefetchTick
  <1>3. CASE b.active /\ left > 0
    <2>1. PrefetchTick(b, c) = [b EXCEPT !.cycles_left = left]
      BY <1>1, <1>3 DEF PrefetchTick
    <2>. QED  BY <1>1, <1>3, <2>1 DEF Buffers
  <1>4. CASE b.active /\ left <= 0 /\ b.size + 1 = b.capacity
    <2>. DEFINE n == b.size + 1
                r == [b EXCEPT !.size = n, !.active = FALSE, !.cycles_left = left]
    <2>1. PrefetchTick(b, c) = r
      BY <1>1, <1>4 DEF PrefetchTick, Advanced
    <2>2. n \in Nat
      BY DEF Buffers
    <2>3. /\ r \in Buffers /\ r.begin = b.begin /\ r.addr_increment = b.addr_increment
          /\ r.capacity = b.capacity /\ r.cycles_needed = b.cycles_needed
          /\ r.active = FALSE /\ r.size = n /\ r.end = b.end /\ r.cycles_left = left
      <3>. HIDE DEF n, left
      <3>. QED  BY <1>1, <2>2 DEF Buffers
    <2>. HIDE DEF r
    <2>4. ~r.active /\ r.size = b.size + 1 /\ r.end = b.end /\ r.cycles_left = b.cycles_left - c
      BY <2>3
    <2>. QED  BY <1>1, <1>4, <2>1, <2>3, <2>4
  <1>5. CASE b.active /\ left <= 0 /\ b.size + 1 # b.capacity
    <2>. DEFINE n == b.size + 1
                m == b.end + b.addr_increment
                k == left + b.cycles_needed
                r == [b EXCEPT !.size = n, !.end = m, !.cycles_left = k]
    <2>1. PrefetchTick(b, c) = r
      BY <1>1, <1>5 DEF PrefetchTick, Advanced
    <2>2. n \in Nat /\ m \in Nat /\ k \in Int
      BY <1>1 DEF Buffers
    <2>3. /\ r \in Buffers /\ r.begin = b.begin /\ r.addr_increment = b.addr_increment
          /\ r.capacity = b.capacity /\ r.cycles_needed = b.cycles_needed
          /\ r.active = b.active /\ r.size = n /\ r.end = m /\ r.cycles_left = k
      <3>. HIDE DEF n, m, k
      <3>. QED  BY <2>2 DEF Buffers
    <2>. HIDE DEF r
    <2>4. /\ r.active /\ r.size = b.size + 1 /\ r.end = b.end + b.addr_increment
          /\ r.cycles_left = b.cycles_left - c + b.cycles_needed
      BY <1>5, <2>3
    <2>. QED  BY <1>1, <1>5, <2>1, <2>3, <2>4
  <1>. QED  BY <1>1, <1>2, <1>3, <1>4, <1>5

(* A tick preserves what is said of the buffer. *)
LEMMA TickKeeps ==
    ASSUME NEW b, Sane(b), NEW c \in Int, b.cycles_left - c <= b.cycles_needed
    PROVE  LET r == PrefetchTick(b, c)
           IN  /\ Sane(r) /\ Waiting(r)
               /\ r.begin = b.begin /\ r.addr_increment = b.addr_increment /\ r.capacity = b.capacity
               /\ r.cycles_needed = b.cycles_needed
               /\ r.end >= b.end /\ r.size <= b.size + 1
               /\ Counted(b) => Counted(r)
               /\ b.active /\ c = b.cycles_left =>
                      r.end = IF b.size + 1 = b.capacity THEN b.end ELSE b.end + b.addr_increment
               /\ b.active /\ c = b.cycles_left /\ r.active => r.cycles_left = b.cycles_needed
  <1>. DEFINE r == PrefetchTick(b, c)
  <1>1. b \in Buffers /\ b.begin \in Nat /\ b.end \in Nat /\ b.size \in Nat /\ b.capacity \in Nat
        /\ b.cycles_left \in Int /\ b.cycles_needed \in Nat /\ b.addr_increment \in Nat /\ b.active \in BOOLEAN
    BY DEF Sane, Buffers
  <1>2. /\ r \in Buffers
        /\ r.begin = b.begin /\ r.addr_increment = b.addr_increment
        /\ r.capacity = b.capacity /\ r.cycles_needed = b.cycles_needed
        /\ ~b.active => r = b
        /\ b.active /\ b.cycles_left - c > 0 =>
               r.active /\ r.size = b.size /\ r.end = b.end /\ r.cycles_left = b.cycles_left - c
        /\ b.active /\ b.cycles_left - c <= 0 /\ b.size + 1 = b.capacity =>
               ~r.active /\ r.size = b.size + 1 /\ r.end = b.end
               /\ r.cycles_left = b.cycles_left - c
        /\ b.active /\ b.cycles_left - c <= 0 /\ b.size + 1 # b.capacity =>
               r.active /\ r.size = b.size + 1 /\ r.end = b.end + b.addr_increment
               /\ r.cycles_left = b.cycles_left - c + b.cycles_needed
    BY <1>1, TickFields
  <1>. HIDE DEF r
  <1>3. r.end >= b.end /\ r.size <= b.size + 1
    BY <1>1, <1>2
  <1>4. Filled(r)
    <2>1. b.capacity = 0 => r.begin = 0 /\ r.end = 0 /\ r.addr_increment = 0
      BY <1>1, <1>2 DEF Sane, Filled
    <2>2. b.capacity = 0 \/ (b.capacity >= 3 /\ b.cycles_needed >= 1)
      BY DEF Sane, Filled
    <2>. QED  BY <1>2, <2>1, <2>2 DEF Filled
  <1>5. Within(r)
    <2>1. b.capacity > 0 => b.size <= b.capacity /\ (b.active => b.size < b.capacity)
      BY DEF Sane, Within
    <2>2. CASE b.active
      BY <1>1, <1>2, <2>1, <2>2 DEF Within
    <2>3. CASE ~b.active
      BY <1>2, <2>1, <2>3 DEF Within
    <2>. QED  BY <2>2, <2>3
  <1>6. r.cycles_left <= r.cycles_needed
    <2>1. b.cycles_left <= b.cycles_needed
      BY DEF Sane
    <2>. QED  BY <1>1, <1>2, <2>1
  <1>7. Waiting(r)
    <2>1. r.active /\ r.size = 0 => r.cycles_left > 0
      BY <1>1, <1>2
    <2>. QED  BY <1>6, <2>1 DEF Waiting
  <1>8. Counted(b) => Counted(r)
    <2>. SUFFICES ASSUME Counted(b), r.active PROVE r.end = r.begin + r.size * r.addr_increment
      BY DEF Counted
    <2>1. b.active /\ b.end = b.begin + b.size * b.addr_increment
      BY <1>2 DEF Counted
    <2>. DEFINE p == b.size * b.addr_increment
    <2>2. (b.size + 1) * b.addr_increment = p + b.addr_increment /\ p \in Nat
      <3>1. \A x, y \in Nat : (x + 1) * y = x * y + y /\ x * y \in Nat
        OBVIOUS
      <3>. QED  BY <1>1, <3>1
    <2>3. CASE b.cycles_left - c > 0
      BY <1>2, <2>1, <2>3
    <2>4. CASE b.cycles_left - c <= 0
      <3>1. r.size = b.size + 1 /\ r.end = b.end + b.addr_increment
        BY <1>1, <1>2, <2>1, <2>4
      <3>2. r.end = r.begin + (p + b.addr_increment)
        <4>. HIDE DEF p
        <4>1. b.end = b.begin + p
          BY <2>1 DEF p
        <4>. QED  BY <1>1, <1>2, <2>2, <3>1, <4>1
      <3>3. r.size * r.addr_increment = p + b.addr_increment
        BY <1>2, <2>2, <3>1
      <3>. QED  BY <3>2, <3>3
    <2>. QED  BY <1>1, <2>3, <2>4
  <1>9. b.active /\ c = b.cycles_left =>
            r.end = IF b.size + 1 = b.capacity THEN b.end ELSE b.end + b.addr_increment
    BY <1>1, <1>2
  <1>10. b.active /\ c = b.cycles_left /\ r.active => r.cycles_left = b.cycles_needed
    BY <1>1, <1>2
  <1>. QED  BY <1>2, <1>3, <1>4, <1>5, <1>6, <1>7, <1>8, <1>9, <1>10 DEF Sane, r

(* So does a reset of its size, except for the count. *)
LEMMA RestartKeeps ==
    ASSUME NEW b, Sane(b)
    PROVE  LET r == Restarted(b)
           IN  /\ Sane(r) /\ r.size = 0 /\ r.active
               /\ r.begin = b.begin /\ r.end = b.end /\ r.addr_increment = b.addr_increment
               /\ r.capacity = b.capacity
               /\ r.cycles_left = b.cycles_left /\ r.cycles_needed = b.cycles_needed
               /\ b.begin = b.end => Counted(r)
  <1>. DEFINE r == Restarted(b)
  <1>1. b \in Buffers /\ b.end \in Nat /\ b.capacity \in Nat /\ b.addr_increment \in Nat
    BY DEF Sane, Buffers
  <1>2. /\ r \in Buffers /\ r.size = 0 /\ r.active
        /\ r.begin = b.begin /\ r.end = b.end /\ r.addr_increment = b.addr_increment
        /\ r.capacity = b.capacity
        /\ r.cycles_left = b.cycles_left /\ r.cycles_needed = b.cycles_needed
    BY <1>1 DEF Restarted, Buffers
  <1>. HIDE DEF r
  <1>3. Sane(r)
    BY <1>1, <1>2 DEF Sane, Filled, Within
  <1>4. b.begin = b.end => Counted(r)
    <2>1. 0 * b.addr_increment = 0 /\ b.end + 0 = b.end
      BY <1>1
    <2>. QED  BY <1>2, <2>1 DEF Counted
  <1>. QED  BY <1>2, <1>3, <1>4 DEF r

(* So does taking an opcode out of it. *)
LEMMA PopKeeps ==
    ASSUME NEW b, Sane(b), b.size # 0
    PROVE  LET r == Popped(b)
           IN  /\ b.capacity # 0 => Sane(r)
               /\ r.begin = b.begin + b.addr_increment /\ r.end = b.end
               /\ r.addr_increment = b.addr_increment /\ r.capacity = b.capacity
               /\ r.cycles_left = b.cycles_left /\ r.cycles_needed = b.cycles_needed
               /\ Counted(b) => Counted(r)
  <1>. DEFINE r == Popped(b)
  <1>1. /\ b \in Buffers /\ b.begin \in Nat /\ b.end \in Nat /\ b.capacity \in Nat
        /\ b.addr_increment \in Nat /\ b.size \in Nat /\ b.size - 1 \in Nat
    BY DEF Sane, Buffers
  <1>2. /\ r \in Buffers /\ r.size = b.size - 1 /\ r.active = b.active
        /\ r.begin = b.begin + b.addr_increment /\ r.end = b.end
        /\ r.addr_increment = b.addr_increment /\ r.capacity = b.capacity
        /\ r.cycles_left = b.cycles_left /\ r.cycles_needed = b.cycles_needed
    <2>. DEFINE n == b.size - 1
                m == b.begin + b.addr_increment
    <2>1. n \in Nat /\ m \in Nat /\ r = [b EXCEPT !.begin = m, !.size = n]
      BY <1>1 DEF Popped
    <2>. HIDE DEF n, m, r
    <2>2. /\ r \in Buffers /\ r.size = n /\ r.active = b.active
          /\ r.begin = m /\ r.end = b.end
          /\ r.addr_increment = b.addr_increment /\ r.capacity = b.capacity
          /\ r.cycles_left = b.cycles_left /\ r.cycles_needed = b.cycles_needed
      BY <1>1, <2>1 DEF Buffers
    <2>. QED  BY <2>2 DEF n, m
  <1>. HIDE DEF r
  <1>3. b.capacity # 0 => Sane(r)
    BY <1>1, <1>2 DEF Sane, Filled, Within
  <1>4. Counted(b) => Counted(r)
    <2>. DEFINE p == (b.size - 1) * b.addr_increment
    <2>1. b.size * b.addr_increment = p + b.addr_increment /\ p \in Int
      <3>1. \A x, y \in Nat : (x + 1) * y = x * y + y /\ x * y \in Int
        OBVIOUS
      <3>2. b.size = (b.size - 1) + 1
        BY <1>1
      <3>. QED  BY <1>1, <3>1, <3>2
    <2>2. r.size * r.addr_increment = p
      BY <1>2
    <2>. HIDE DEF p
    <2>. QED  BY <1>1, <1>2, <2>1, <2>2 DEF Counted
  <1>. QED  BY <1>2, <1>3, <1>4 DEF r

(* A whole tick, with the DMA in it. *)
LEMMA TicksKeep ==
    ASSUME NEW b, Sane(b), NEW c \in Int, b.cycles_left - c <= b.cycles_needed, NEW dma \in BOOLEAN
    PROVE  LET r == Tick(b, c, dma)
           IN  /\ Sane(r) /\ Waiting(r)
               /\ r.begin = b.begin /\ r.addr_increment = b.addr_increment /\ r.capacity = b.capacity
               /\ r.cycles_needed = b.cycles_needed
               /\ r.end >= b.end /\ r.size <= b.size + 1
               /\ Counted(b) /\ ~LosesCount(b, dma) => Counted(r)
               /\ b.active /\ c = b.cycles_left =>
                      /\ r.end \in {b.end, b.end + b.addr_increment}
                      /\ b.capacity >= 3 /\ b.size <= 1 => r.end = b.end + b.addr_increment
                      /\ r.active => r.cycles_left = b.cycles_needed
  <1>1. b.size \in Nat /\ b.capacity \in Nat /\ b.end \in Nat /\ b.addr_increment \in Nat
    BY DEF Sane, Buffers
  <1>2. CASE dma /\ enabled
    <2>. DEFINE s == Restarted(b)
    <2>1. /\ Sane(s) /\ s.size = 0 /\ s.active
          /\ s.begin = b.begin /\ s.end = b.end /\ s.addr_increment = b.addr_increment
          /\ s.capacity = b.capacity
          /\ s.cycles_left = b.cycles_left /\ s.cycles_needed = b.cycles_needed
          /\ b.begin = b.end => Counted(s)
      BY RestartKeeps
    <2>. DEFINE r == Tick(b, c, dma)
    <2>2. r = PrefetchTick(s, c)
      BY <1>2 DEF Tick
    <2>. HIDE DEF s, r
    <2>3. /\ Sane(r) /\ Waiting(r)
          /\ r.begin = s.begin /\ r.addr_increment = s.addr_increment /\ r.capacity = s.capacity
          /\ r.cycles_needed = s.cycles_needed
          /\ r.end >= s.end /\ r.size <= s.size + 1
          /\ Counted(s) => Counted(r)
          /\ s.active /\ c = s.cycles_left =>
                 r.end = IF s.size + 1 = s.capacity THEN s.end ELSE s.end + s.addr_increment
          /\ s.active /\ c = s.cycles_left /\ r.active => r.cycles_left = s.cycles_needed
      BY <2>1, <2>2, TickKeeps
    <2>4. Counted(b) /\ ~LosesCount(b, dma) => Counted(r)
      BY <1>2, <2>1, <2>3 DEF LosesCount
    <2>5. r.size <= b.size + 1
      <3>1. r.size \in Nat
        BY <2>3 DEF Sane, Buffers
      <3>. QED  BY <1>1, <2>1, <2>3, <3>1
    <2>6. c = b.cycles_left =>
              /\ r.end \in {b.end, b.end + b.addr_increment}
              /\ b.capacity >= 3 => r.end = b.end + b.addr_increment
              /\ r.active => r.cycles_left = b.cycles_needed
      BY <1>1, <2>1, <2>3
    <2>. QED  BY <2>1, <2>3, <2>4, <2>5, <2>6 DEF r
  <1>3. CASE ~(dma /\ enabled)
    <2>. DEFINE r == Tick(b, c, dma)
    <2>1. r = PrefetchTick(b, c)
      BY <1>3 DEF Tick
    <2>. HIDE DEF r
    <2>2. /\ Sane(r) /\ Waiting(r)
          /\ r.begin = b.begin /\ r.addr_increment = b.addr_increment /\ r.capacity = b.capacity
          /\ r.cycles_needed = b.cycles_needed
          /\ r.end >= b.end /\ r.size <= b.size + 1
          /\ Counted(b) => Counted(r)
          /\ b.active /\ c = b.cycles_left =>
                 r.end = IF b.size + 1 = b.capacity THEN b.end ELSE b.end + b.addr_increment
          /\ b.active /\ c = b.cycles_left /\ r.active => r.cycles_left = b.cycles_needed
      BY <2>1, TickKeeps
    <2>3. b.active /\ c = b.cycles_left =>
              /\ r.end \in {b.end, b.end + b.addr_increment}
              /\ b.capacity >= 3 /\ b.size <= 1 => r.end = b.end + b.addr_increment
      BY <1>1, <2>2
    <2>. QED  BY <2>2, <2>3 DEF r
  <1>. QED  BY <1>2, <1>3

(* A buffer whose opcode under way was waited for has it, and then nothing. *)
LEMMA EmptyKeeps ==
    ASSUME NEW r, Sane(r), r.capacity # 0, r.active => r.cycles_left = r.cycles_needed
    PROVE  LET e == Emptied(r)
           IN  /\ Sane(e) /\ Waiting(e) /\ Counted(e)
               /\ e.begin = r.end /\ e.end = r.end /\ e.size = 0
               /\ e.addr_increment = r.addr_increment /\ e.capacity = r.capacity
  <1>. DEFINE e == Emptied(r)
  <1>1. r \in Buffers /\ r.end \in Nat /\ r.capacity \in Nat /\ r.addr_increment \in Nat
        /\ r.cycles_needed \in Nat
    BY DEF Sane, Buffers
  <1>2. /\ e \in Buffers /\ e.begin = r.end /\ e.end = r.end /\ e.size = 0 /\ e.active = r.active
        /\ e.addr_increment = r.addr_increment /\ e.capacity = r.capacity
        /\ e.cycles_left = r.cycles_left /\ e.cycles_needed = r.cycles_needed
    BY <1>1 DEF Emptied, Buffers
  <1>. HIDE DEF e
  <1>3. Sane(e)
    BY <1>1, <1>2 DEF Sane, Filled, Within
  <1>4. Waiting(e)
    BY <1>1, <1>2 DEF Waiting, Sane, Filled
  <1>5. Counted(e)
    <2>1. 0 * r.addr_increment = 0 /\ r.end + 0 = r.end
      BY <1>1
    <2>. QED  BY <1>2, <2>1 DEF Counted
  <1>. QED  BY <1>2, <1>3, <1>4, <1>5 DEF e

(* A buffer that is filled anew starts after the opcode it was filled for. *)
LEMMA FillKeeps ==
    ASSUME NEW addr \in Nat, NEW t \in BOOLEAN, wait \in Waits
    PROVE  LET r == Refilled(addr, t)
           IN  /\ Sane(r) /\ Waiting(r) /\ Counted(r)
               /\ r.begin = addr + Increment(t) /\ r.end = r.begin /\ r.size = 0
               /\ r.addr_increment = Increment(t) /\ r.capacity >= 3
  <1>. DEFINE n == Increment(t)
              c == SeqCycles(t)
              h == Halfwords \div Increment(t)
              a == addr + Increment(t)
              r == Refilled(addr, t)
  <1>1. n \in {1, 2} /\ c \in Nat \ {0} /\ h \in Nat /\ h >= 3 /\ a \in Nat
    BY Opcodes
  <1>2. r = [begin |-> a, end |-> a, size |-> 0, capacity |-> h, cycles_left |-> c,
             cycles_needed |-> c, addr_increment |-> n, active |-> TRUE]
    BY DEF Refilled
  <1>. HIDE DEF n, c, h, a, r
  <1>3. r \in Buffers
    BY <1>1, <1>2 DEF Buffers
  <1>4. /\ r.begin = a /\ r.end = a /\ r.size = 0 /\ r.capacity = h /\ r.cycles_left = c
        /\ r.cycles_needed = c /\ r.addr_increment = n /\ r.active
    BY <1>2
  <1>5. Sane(r) /\ Waiting(r)
    BY <1>1, <1>3, <1>4 DEF Sane, Filled, Within, Waiting
  <1>6. Counted(r)
    <2>1. 0 * n = 0 /\ a + 0 = a
      BY <1>1
    <2>. QED  BY <1>4, <2>1 DEF Counted
  <1>. QED  BY <1>1, <1>4, <1>5, <1>6 DEF n, a, h, r

(* How a read leaves the buffer when it may be relied upon. *)
Elsewhere(b, after) ==
    /\ after.begin = b.begin /\ after.end >= b.end
    /\ after.addr_increment = b.addr_increment /\ after.capacity = b.capacity
Taken(b, after, addr) ==
    /\ Hit(b, addr)
    /\ after.begin = b.begin + b.addr_increment
    /\ after.addr_increment = b.addr_increment /\ after.capacity = b.capacity
Awaited(b, after, addr) ==
    /\ ~Hit(b, addr) /\ UnderWay(b, addr)
    /\ after.begin = after.end /\ after.end \in {b.end, b.end + b.addr_increment}
    /\ b.capacity >= 3 /\ b.size <= 1 => after.end = b.end + b.addr_increment
    /\ after.addr_increment = b.addr_increment /\ after.capacity = b.capacity
Begun(b, after, addr, t) ==
    /\ ~Hit(b, addr) /\ ~UnderWay(b, addr)
    /\ after.begin = addr + Increment(t) /\ after.end = after.begin
    /\ after.addr_increment = Increment(t) /\ after.capacity >= 3

(* A read of ROM preserves what is said of the buffer, and is one of four. *)
LEMMA ReadKeeps ==
    ASSUME PrefetchInv, NEW kind, NEW opcode \in BOOLEAN, NEW addr \in Nat, addr >= Rom,
           NEW cycles \in Nat \ {0}, NEW t \in BOOLEAN, NEW dma \in BOOLEAN,
           ReadRom(kind, opcode, addr, cycles, t, dma)
    PROVE  LET b == prefetch_buffer
               after == prefetch_buffer'
           IN  /\ Sane(after) /\ Waiting(after)
               /\ ~stale' => Counted(after)
               /\ foreign' \in BOOLEAN /\ stale' \in BOOLEAN
               /\ enabled /\ ~foreign' =>
                     \/ ~foreign /\ t = thumb /\ ~opcode /\ Elsewhere(b, after) /\ after.size <= 1
                     \/ ~foreign /\ t = thumb /\ opcode /\ kind # "data" /\ Taken(b, after, addr)
                     \/ ~foreign /\ t = thumb /\ opcode /\ Awaited(b, after, addr)
                     \/ opcode /\ Begun(b, after, addr, t)
  <1>. DEFINE b == prefetch_buffer
              after == prefetch_buffer'
              result == IF enabled THEN Prefetch(b, opcode, addr, cycles, t, dma)
                                   ELSE [cost |-> cycles, after |-> Tick(b, cycles, dma)]
              hit == opcode /\ Hit(b, addr)
  <1>1. /\ Sane(b) /\ Waiting(b) /\ (~stale => Counted(b))
        /\ enabled \in BOOLEAN /\ thumb \in BOOLEAN /\ foreign \in BOOLEAN /\ stale \in BOOLEAN
        /\ wait \in Waits
    BY DEF PrefetchInv
  <1>2. /\ b.cycles_left \in Int /\ b.cycles_needed \in Nat /\ b.size \in Nat /\ b.capacity \in Nat
        /\ b.begin \in Nat /\ b.end \in Nat /\ b.addr_increment \in Nat
        /\ b.cycles_left <= b.cycles_needed /\ Rom \in Nat /\ Rom > 0
        /\ b.capacity = 0 => b.begin = 0 /\ b.end = 0
        /\ b.active \in BOOLEAN
    BY <1>1, PrefetchAssumption DEF Sane, Buffers, Filled
  <1>3. /\ after = result.after
        /\ foreign' = /\ foreign \/ t # thumb \/ (enabled /\ hit /\ kind = "data")
                      /\ ~enabled \/ ~opcode \/ hit \/ UnderWay(b, addr)
        /\ stale' = IF enabled /\ opcode /\ ~hit THEN FALSE
                    ELSE stale \/ LosesCount(IF hit THEN Popped(b) ELSE b, dma \/ ~opcode)
    BY DEF ReadRom
  <1>4. foreign' \in BOOLEAN /\ stale' \in BOOLEAN
    BY <1>3
  <1>. HIDE DEF result
  <1>5. CASE ~enabled
    <2>1. after = Tick(b, cycles, dma)
      BY <1>3, <1>5 DEF result
    <2>2. b.cycles_left - cycles <= b.cycles_needed
      BY <1>2
    <2>3. Sane(after) /\ Waiting(after) /\ (Counted(b) /\ ~LosesCount(b, dma) => Counted(after))
      BY <1>1, <2>1, <2>2, TicksKeep
    <2>4. ~LosesCount(b, dma)
      BY <1>5 DEF LosesCount
    <2>5. ~stale' => ~stale
      BY <1>3, <1>5
    <2>. QED  BY <1>1, <1>4, <1>5, <2>3, <2>4, <2>5
  <1>6. CASE enabled /\ ~opcode
    <2>. DEFINE s == Restarted(b)
    <2>1. after = Tick(s, cycles, dma)
      BY <1>3, <1>6 DEF result, Prefetch
    <2>2. /\ Sane(s) /\ s.size = 0 /\ s.active
          /\ s.begin = b.begin /\ s.end = b.end /\ s.addr_increment = b.addr_increment
          /\ s.capacity = b.capacity
          /\ s.cycles_left = b.cycles_left /\ s.cycles_needed = b.cycles_needed
          /\ b.begin = b.end => Counted(s)
      BY <1>1, RestartKeeps
    <2>. HIDE DEF s
    <2>3. s.cycles_left - cycles <= s.cycles_needed
      BY <1>2, <2>2
    <2>4. /\ Sane(after) /\ Waiting(after)
          /\ after.begin = s.begin /\ after.addr_increment = s.addr_increment
          /\ after.capacity = s.capacity
          /\ after.end >= s.end /\ after.size <= s.size + 1
          /\ Counted(s) /\ ~LosesCount(s, dma) => Counted(after)
      BY <2>1, <2>2, <2>3, TicksKeep
    <2>5. ~stale' => Counted(after)
      <3>1. ~stale' => ~LosesCount(b, TRUE)
        BY <1>3, <1>6
      <3>2. ~LosesCount(b, TRUE) => b.begin = b.end
        BY <1>6 DEF LosesCount
      <3>3. b.begin = b.end => ~LosesCount(s, dma)
        BY <2>2 DEF LosesCount
      <3>. QED  BY <2>2, <2>4, <3>1, <3>2, <3>3
    <2>6. ~foreign' => ~foreign /\ t = thumb
      BY <1>3, <1>6
    <2>7. Elsewhere(b, after) /\ after.size <= 1
      BY <2>2, <2>4 DEF Elsewhere
    <2>. QED  BY <1>4, <1>6, <2>4, <2>5, <2>6, <2>7
  <1>7. CASE enabled /\ opcode /\ Hit(b, addr)
    <2>. DEFINE s == Popped(b)
    <2>1. after = Tick(s, 1, dma)
      BY <1>3, <1>7 DEF result, Prefetch
    <2>2. b.size # 0 /\ b.capacity # 0
      BY <1>2, <1>7 DEF Hit
    <2>3. /\ Sane(s)
          /\ s.begin = b.begin + b.addr_increment /\ s.end = b.end
          /\ s.addr_increment = b.addr_increment /\ s.capacity = b.capacity
          /\ s.cycles_left = b.cycles_left /\ s.cycles_needed = b.cycles_needed
          /\ Counted(b) => Counted(s)
      BY <1>1, <2>2, PopKeeps
    <2>4. ~stale' => ~stale /\ ~LosesCount(s, dma)
      BY <1>3, <1>7
    <2>. HIDE DEF s
    <2>5. s.cycles_left - 1 <= s.cycles_needed
      BY <1>2, <2>3
    <2>6. /\ Sane(after) /\ Waiting(after)
          /\ after.begin = s.begin /\ after.addr_increment = s.addr_increment
          /\ after.capacity = s.capacity
          /\ Counted(s) /\ ~LosesCount(s, dma) => Counted(after)
      BY <2>1, <2>3, <2>5, TicksKeep
    <2>7. ~foreign' => ~foreign /\ t = thumb /\ kind # "data"
      BY <1>3, <1>7
    <2>8. Taken(b, after, addr)
      BY <1>7, <2>3, <2>6 DEF Taken
    <2>. QED  BY <1>1, <1>4, <1>7, <2>3, <2>4, <2>6, <2>7, <2>8
  <1>8. CASE enabled /\ opcode /\ ~Hit(b, addr) /\ UnderWay(b, addr)
    <2>. DEFINE r == Tick(b, b.cycles_left, dma)
    <2>1. after = Emptied(r)
      BY <1>3, <1>8 DEF result, Prefetch
    <2>2. b.cycles_left - b.cycles_left <= b.cycles_needed
      BY <1>2
    <2>3. b.active /\ b.end >= Rom /\ b.capacity # 0
      BY <1>2, <1>8 DEF UnderWay
    <2>4. /\ Sane(r) /\ r.addr_increment = b.addr_increment /\ r.capacity = b.capacity
          /\ r.end \in {b.end, b.end + b.addr_increment}
          /\ b.capacity >= 3 /\ b.size <= 1 => r.end = b.end + b.addr_increment
          /\ r.active => r.cycles_left = b.cycles_needed
      BY <1>1, <1>2, <2>2, <2>3, TicksKeep
    <2>5. r.active => r.cycles_left = r.cycles_needed
      <3>1. r.cycles_needed = b.cycles_needed
        BY <1>1, <1>2, <2>2, TicksKeep
      <3>. QED  BY <2>4, <3>1
    <2>. HIDE DEF r
    <2>6. /\ Sane(after) /\ Waiting(after) /\ Counted(after)
          /\ after.begin = r.end /\ after.end = r.end
          /\ after.addr_increment = r.addr_increment /\ after.capacity = r.capacity
      BY <2>1, <2>3, <2>4, <2>5, EmptyKeeps
    <2>7. ~foreign' => ~foreign /\ t = thumb
      BY <1>3, <1>8
    <2>8. Awaited(b, after, addr)
      BY <1>8, <2>4, <2>6 DEF Awaited
    <2>. QED  BY <1>4, <1>8, <2>6, <2>7, <2>8
  <1>9. CASE enabled /\ opcode /\ ~Hit(b, addr) /\ ~UnderWay(b, addr)
    <2>1. after = Refilled(addr, t)
      BY <1>3, <1>9 DEF result, Prefetch
    <2>2. /\ Sane(after) /\ Waiting(after) /\ Counted(after)
          /\ after.begin = addr + Increment(t) /\ after.end = after.begin
          /\ after.addr_increment = Increment(t) /\ after.capacity >= 3
      BY <1>1, <2>1, FillKeeps
    <2>3. Begun(b, after, addr, t)
      BY <1>9, <2>2 DEF Begun
    <2>. QED  BY <1>4, <1>9, <2>2, <2>3
  <1>. QED  BY <1>5, <1>6, <1>7, <1>8, <1>9

(* The same for the read of an opcode, which is one of three. *)
LEMMA OpcodeKeeps ==
    ASSUME PrefetchInv, NEW kind, kind # "data", NEW addr \in Nat, addr >= Rom,
           NEW cycles \in Nat \ {0}, NEW t \in BOOLEAN, NEW dma \in BOOLEAN,
           ReadRom(kind, TRUE, addr, cycles, t, dma)
    PROVE  LET b == prefetch_buffer
               after == prefetch_buffer'
           IN  /\ Sane(after) /\ Waiting(after)
               /\ ~stale' => Counted(after)
               /\ foreign' \in BOOLEAN /\ stale' \in BOOLEAN
               /\ enabled /\ ~foreign' =>
                     \/ ~foreign /\ t = thumb /\ Taken(b, after, addr)
                     \/ ~foreign /\ t = thumb /\ Awaited(b, after, addr)
                     \/ Begun(b, after, addr, t)
  <1>. DEFINE b == prefetch_buffer
              after == prefetch_buffer'
              opcode == TRUE
  <1>1. opcode /\ opcode \in BOOLEAN /\ ReadRom(kind, opcode, addr, cycles, t, dma)
    OBVIOUS
  <1>. HIDE DEF opcode
  <1>2. /\ Sane(after) /\ Waiting(after)
        /\ ~stale' => Counted(after)
        /\ foreign' \in BOOLEAN /\ stale' \in BOOLEAN
        /\ enabled /\ ~foreign' =>
              \/ ~foreign /\ t = thumb /\ ~opcode /\ Elsewhere(b, after) /\ after.size <= 1
              \/ ~foreign /\ t = thumb /\ opcode /\ kind # "data" /\ Taken(b, after, addr)
              \/ ~foreign /\ t = thumb /\ opcode /\ Awaited(b, after, addr)
              \/ opcode /\ Begun(b, after, addr, t)
    BY <1>1, ReadKeeps
  <1>. QED  BY <1>1, <1>2

(* What a read of ROM costs. *)
LEMMA ReadCost ==
    ASSUME NEW kind, NEW opcode \in BOOLEAN, NEW addr, NEW cycles, NEW t, NEW dma,
           ReadRom(kind, opcode, addr, cycles, t, dma)
    PROVE  LET b == prefetch_buffer
           IN  /\ access'.kind = kind /\ access'.bound = Maximum(cycles, b.cycles_needed)
               /\ access'.cost =
                      IF ~enabled \/ ~opcode THEN cycles
                      ELSE IF Hit(b, addr) THEN 1
                      ELSE IF UnderWay(b, addr) THEN StillToRead(b) ELSE cycles
  <1>. DEFINE b == prefetch_buffer
              result == IF enabled THEN Prefetch(b, opcode, addr, cycles, t, dma)
                                   ELSE [cost |-> cycles, after |-> Tick(b, cycles, dma)]
  <1>1. access' = [kind |-> kind, cost |-> result.cost, bound |-> Maximum(cycles, b.cycles_needed)]
    BY DEF ReadRom
  <1>2. result.cost = IF ~enabled \/ ~opcode THEN cycles
                      ELSE IF Hit(b, addr) THEN 1
                      ELSE IF UnderWay(b, addr) THEN StillToRead(b) ELSE cycles
    BY DEF Prefetch
  <1>. HIDE DEF result
  <1>. QED  BY <1>1, <1>2

(* The next opcode is read. *)
LEMMA FetchInv ==
    ASSUME PrefetchInv, NEW cycles, NEW dma \in BOOLEAN, FetchOpcode(cycles, dma)
    PROVE  PrefetchInv'
  <1>. DEFINE b == prefetch_buffer
              after == prefetch_buffer'
              n == Increment(thumb)
              kind == IF stage = "flushed" THEN "branch" ELSE "sequential"
  <1>1. /\ Sane(b) /\ Waiting(b)
        /\ enabled \in BOOLEAN /\ thumb \in BOOLEAN /\ foreign \in BOOLEAN
        /\ wait \in Waits /\ pc \in Nat /\ pc >= Rom /\ Rom \in Nat
        /\ stage \in {"instruction", "flushed"}
    BY PrefetchAssumption DEF PrefetchInv, FetchOpcode
  <1>2. /\ n \in {1, 2} /\ cycles \in Nat \ {0}
    BY <1>1, Opcodes DEF FetchOpcode
  <1>3. /\ ReadRom(kind, TRUE, pc, cycles, thumb, dma)
        /\ pc' = pc + n /\ stage' = "instruction" /\ enabled' = enabled /\ wait' = wait /\ thumb' = thumb
    BY DEF FetchOpcode
  <1>4. kind # "data"
    OBVIOUS
  <1>. HIDE DEF n, kind
  <1>5. /\ Sane(after) /\ Waiting(after)
        /\ ~stale' => Counted(after)
        /\ foreign' \in BOOLEAN /\ stale' \in BOOLEAN
        /\ enabled /\ ~foreign' =>
              \/ ~foreign /\ Taken(b, after, pc)
              \/ ~foreign /\ Awaited(b, after, pc)
              \/ Begun(b, after, pc, thumb)
    BY <1>1, <1>2, <1>3, <1>4, OpcodeKeeps
  <1>6. b.size \in Nat /\ b.begin \in Nat /\ b.end \in Nat /\ b.active \in BOOLEAN
        /\ b.cycles_left \in Int /\ b.cycles_needed \in Nat /\ b.cycles_left <= b.cycles_needed
    BY <1>1 DEF Sane, Buffers
  <1>7. enabled /\ ~foreign =>
            /\ b.capacity >= 3 /\ b.addr_increment = n
            /\ b.begin = pc \/ (b.begin = pc + n /\ b.end > pc)
               \/ (b.begin < pc /\ stage = "flushed" /\ b.size <= 1)
            /\ stage = "instruction" => b.begin >= pc
    BY <1>1, <1>2, <1>6 DEF PrefetchInv, InPlace, n
  <1>8. enabled' /\ ~foreign' => InPlace'
    <2>. SUFFICES ASSUME enabled, ~foreign' PROVE InPlace'
      BY <1>3
    <2>1. CASE ~foreign /\ Taken(b, after, pc)
      <3>1. b.begin = pc /\ after.begin = pc + n /\ after.addr_increment = n /\ after.capacity >= 3
        BY <1>7, <2>1 DEF Taken, Hit
      <3>. QED  BY <1>3, <3>1 DEF InPlace, n
    <2>2. CASE ~foreign /\ Awaited(b, after, pc)
      <3>1. b.end = pc /\ ~(b.size # 0 /\ pc = b.begin)
        BY <2>2 DEF Awaited, UnderWay, Hit
      <3>2. b.size <= 1
        BY <1>1, <1>2, <1>6, <1>7, <2>2, <3>1
      <3>3. after.begin = pc + n /\ after.addr_increment = n /\ after.capacity >= 3
        BY <1>7, <2>2, <3>1, <3>2 DEF Awaited
      <3>. QED  BY <1>3, <3>3 DEF InPlace, n
    <2>3. CASE Begun(b, after, pc, thumb)
      BY <1>3, <2>3 DEF Begun, InPlace, n
    <2>. QED  BY <1>5, <2>1, <2>2, <2>3
  <1>9. SequentialFetchBounded'
    <2>. SUFFICES ASSUME access'.kind = "sequential", ~foreign' PROVE access'.cost <= access'.bound
      BY DEF SequentialFetchBounded
    <2>1. /\ access'.kind = kind /\ access'.bound = Maximum(cycles, b.cycles_needed)
          /\ access'.cost = IF ~enabled THEN cycles
                            ELSE IF Hit(b, pc) THEN 1
                            ELSE IF UnderWay(b, pc) THEN StillToRead(b) ELSE cycles
      BY <1>3, ReadCost
    <2>2. stage = "instruction"
      BY <1>1, <2>1 DEF kind
    <2>3. cycles <= access'.bound /\ b.cycles_needed <= access'.bound /\ access'.bound \in Nat
      BY <1>2, <1>6, <2>1 DEF Maximum
    <2>4. CASE enabled /\ ~Hit(b, pc) /\ UnderWay(b, pc)
      <3>1. ~foreign
        BY <1>5, <2>4 DEF Begun
      <3>2. b.end = pc /\ b.active /\ b.size = 0
        BY <1>2, <1>6, <1>7, <2>2, <2>4, <3>1 DEF Hit, UnderWay
      <3>3. b.cycles_left \in Nat
        BY <1>1, <1>6, <3>2 DEF Waiting
      <3>4. \A x \in Nat : x % CycleWidth \in Nat /\ x % CycleWidth <= x
        BY PrefetchAssumption
      <3>5. StillToRead(b) \in Nat /\ StillToRead(b) <= b.cycles_needed
        BY <1>6, <3>3, <3>4 DEF StillToRead
      <3>6. access'.cost = StillToRead(b)
        BY <2>1, <2>4
      <3>. QED  BY <1>6, <2>3, <3>5, <3>6
    <2>. QED  BY <1>2, <2>1, <2>3, <2>4
  <1>10. pc' \in Nat /\ pc' >= Rom
    BY <1>1, <1>2, <1>3
  <1>. QED  BY <1>1, <1>3, <1>5, <1>8, <1>9, <1>10 DEF PrefetchInv

(* A branch is taken. *)
LEMMA BranchInv ==
    ASSUME PrefetchInv, NEW target \in Rom..(MaxPc - 4), NEW t \in BOOLEAN, NEW dma \in BOOLEAN,
           Branch(target, t, dma)
    PROVE  PrefetchInv'
  <1>. DEFINE b == prefetch_buffer
              after == prefetch_buffer'
              n == Increment(t)
              cycles == NonSeqCycles(t)
  <1>1. /\ enabled \in BOOLEAN /\ thumb \in BOOLEAN /\ wait \in Waits
        /\ target \in Nat /\ target >= Rom
    BY PrefetchAssumption DEF PrefetchInv
  <1>2. n \in {1, 2} /\ cycles \in Nat \ {0}
    BY <1>1, Opcodes
  <1>3. /\ ReadRom("branch", TRUE, target, cycles, t, dma)
        /\ pc' = target /\ stage' = "flush" /\ enabled' = enabled /\ wait' = wait /\ thumb' = t
    BY DEF Branch
  <1>. HIDE DEF n, cycles
  <1>4. /\ Sane(after) /\ Waiting(after)
        /\ ~stale' => Counted(after)
        /\ foreign' \in BOOLEAN /\ stale' \in BOOLEAN
        /\ enabled /\ ~foreign' =>
              \/ ~foreign /\ t = thumb /\ Taken(b, after, target)
              \/ ~foreign /\ t = thumb /\ Awaited(b, after, target)
              \/ Begun(b, after, target, t)
    BY <1>1, <1>2, <1>3, OpcodeKeeps
  <1>5. enabled /\ ~foreign /\ t = thumb => b.capacity >= 3 /\ b.addr_increment = n
    BY DEF PrefetchInv, InPlace, n
  <1>6. enabled' /\ ~foreign' => InPlace'
    <2>. SUFFICES ASSUME enabled, ~foreign' PROVE InPlace'
      BY <1>3
    <2>1. after.begin \in {target, target + n} /\ after.addr_increment = n /\ after.capacity >= 3
      <3>1. CASE ~foreign /\ t = thumb /\ Taken(b, after, target)
        BY <1>5, <3>1 DEF Taken, Hit
      <3>2. CASE ~foreign /\ t = thumb /\ Awaited(b, after, target)
        BY <1>5, <3>2 DEF Awaited, UnderWay
      <3>3. CASE Begun(b, after, target, t)
        BY <3>3 DEF Begun, n
      <3>. QED  BY <1>4, <3>1, <3>2, <3>3
    <2>. QED  BY <1>3, <2>1 DEF InPlace, n
  <1>7. SequentialFetchBounded'
    <2>1. access'.kind = "branch"
      BY <1>3, ReadCost
    <2>. QED  BY <2>1 DEF SequentialFetchBounded
  <1>. QED  BY <1>1, <1>3, <1>4, <1>6, <1>7 DEF PrefetchInv

(* The pipeline is filled. *)
LEMMA FlushInv ==
    ASSUME PrefetchInv, NEW dma \in BOOLEAN, FlushSecond(dma)
    PROVE  PrefetchInv'
  <1>. DEFINE b == prefetch_buffer
              after == prefetch_buffer'
              opcode == FALSE
              n == Increment(thumb)
              cycles == SeqCycles(thumb)
  <1>1. /\ enabled \in BOOLEAN /\ thumb \in BOOLEAN /\ wait \in Waits
        /\ pc \in Nat /\ pc >= Rom /\ Rom \in Nat /\ stage = "flush"
    BY PrefetchAssumption DEF PrefetchInv, FlushSecond
  <1>2. n \in {1, 2} /\ cycles \in Nat \ {0}
    BY <1>1, Opcodes
  <1>3. /\ ReadRom("data", opcode, pc + n, cycles, thumb, dma) /\ ~opcode /\ opcode \in BOOLEAN
        /\ pc' = pc + 2 * n /\ stage' = "flushed" /\ enabled' = enabled /\ wait' = wait /\ thumb' = thumb
    BY DEF FlushSecond
  <1>. HIDE DEF opcode, n, cycles
  <1>4. pc + n \in Nat /\ pc + n >= Rom /\ pc' \in Nat /\ pc' >= Rom
    BY <1>1, <1>2, <1>3
  <1>5. /\ Sane(after) /\ Waiting(after)
        /\ ~stale' => Counted(after)
        /\ foreign' \in BOOLEAN /\ stale' \in BOOLEAN
        /\ enabled /\ ~foreign' => ~foreign /\ Elsewhere(b, after) /\ after.size <= 1
    BY <1>1, <1>2, <1>3, <1>4, ReadKeeps
  <1>6. enabled' /\ ~foreign' => InPlace'
    <2>. SUFFICES ASSUME enabled, ~foreign' PROVE InPlace'
      BY <1>3
    <2>1. b.begin \in {pc, pc + n} /\ b.capacity >= 3 /\ b.addr_increment = n
      BY <1>1, <1>5 DEF PrefetchInv, InPlace, n
    <2>2. after.begin \in {pc' - 2 * n, pc' - n} /\ after.capacity >= 3 /\ after.addr_increment = n
      BY <1>1, <1>2, <1>3, <1>5, <2>1 DEF Elsewhere
    <2>. QED  BY <1>3, <1>5, <2>2 DEF InPlace, n
  <1>7. SequentialFetchBounded'
    BY <1>3, ReadCost DEF SequentialFetchBounded
  <1>. QED  BY <1>1, <1>3, <1>4, <1>5, <1>6, <1>7 DEF PrefetchInv

(* Data are read from ROM. *)
LEMMA AccessInv ==
    ASSUME PrefetchInv, NEW at_pc \in BOOLEAN, NEW dma \in BOOLEAN, AccessRom(at_pc, dma)
    PROVE  PrefetchInv'
  <1>. DEFINE b == prefetch_buffer
              after == prefetch_buffer'
              n == Increment(thumb)
              cycles == NonSeqCycles(thumb)
  <1>1. /\ Sane(b)
        /\ enabled \in BOOLEAN /\ thumb \in BOOLEAN /\ wait \in Waits
        /\ pc \in Nat /\ pc >= Rom /\ Rom \in Nat /\ stage = "instruction"
    BY PrefetchAssumption DEF PrefetchInv, AccessRom
  <1>2. n \in {1, 2} /\ cycles \in Nat \ {0}
    BY <1>1, Opcodes
  <1>3. /\ ReadRom("data", at_pc, pc, cycles, thumb, dma)
        /\ UNCHANGED <<enabled, wait, pc, thumb, stage>>
    BY DEF AccessRom
  <1>. HIDE DEF n, cycles
  <1>4. /\ Sane(after) /\ Waiting(after)
        /\ ~stale' => Counted(after)
        /\ foreign' \in BOOLEAN /\ stale' \in BOOLEAN
        /\ enabled /\ ~foreign' =>
              \/ ~foreign /\ Elsewhere(b, after)
              \/ ~foreign /\ Awaited(b, after, pc)
              \/ Begun(b, after, pc, thumb)
    BY <1>1, <1>2, <1>3, ReadKeeps
  <1>5. b.size \in Nat /\ b.begin \in Nat /\ b.end \in Nat /\ after.end \in Nat /\ after.begin \in Nat
    BY <1>1, <1>4 DEF Sane, Buffers
  <1>6. enabled /\ ~foreign =>
            /\ b.capacity >= 3 /\ b.addr_increment = n
            /\ b.begin = pc \/ (b.begin = pc + n /\ b.end >= b.begin)
    BY <1>1 DEF PrefetchInv, InPlace, n
  <1>7. enabled' /\ ~foreign' => InPlace'
    <2>. SUFFICES ASSUME enabled, ~foreign' PROVE InPlace'
      BY <1>3
    <2>1. /\ after.begin = pc \/ (after.begin = pc + n /\ after.end >= after.begin)
          /\ after.addr_increment = n /\ after.capacity >= 3
      <3>1. CASE ~foreign /\ Elsewhere(b, after)
        BY <1>5, <1>6, <3>1 DEF Elsewhere
      <3>2. CASE ~foreign /\ Awaited(b, after, pc)
        <4>1. b.end = pc /\ ~(b.size # 0 /\ pc = b.begin)
          BY <3>2 DEF Awaited, UnderWay, Hit
        <4>2. b.size = 0
          BY <1>1, <1>2, <1>5, <1>6, <3>2, <4>1
        <4>. QED  BY <1>1, <1>2, <1>6, <3>2, <4>1, <4>2 DEF Awaited
      <3>3. CASE Begun(b, after, pc, thumb)
        BY <1>1, <1>2, <1>5, <3>3 DEF Begun, n
      <3>. QED  BY <1>4, <3>1, <3>2, <3>3
    <2>. QED  BY <1>1, <1>3, <2>1 DEF InPlace, n
  <1>8. SequentialFetchBounded'
    BY <1>3, ReadCost DEF SequentialFetchBounded
  <1>. QED  BY <1>1, <1>3, <1>4, <1>7, <1>8 DEF PrefetchInv

(* The bus is busy elsewhere, or SRAM is read. *)
LEMMA ElsewhereInv ==
    ASSUME PrefetchInv, NEW cycles \in 1..MaxTick, NEW dma \in BOOLEAN,
           AccessElsewhere(cycles, dma) \/ ReadSram(cycles)
    PROVE  PrefetchInv'
  <1>. DEFINE b == prefetch_buffer
              after == prefetch_buffer'
  <1>1. /\ Sane(b) /\ (~stale => Counted(b)) /\ stage = "instruction"
        /\ enabled \in BOOLEAN /\ thumb \in BOOLEAN /\ wait \in Waits /\ pc \in Nat
        /\ foreign \in BOOLEAN /\ stale \in BOOLEAN /\ pc >= Rom /\ stage \in {"instruction"}
    BY DEF PrefetchInv, AccessElsewhere, ReadSram
  <1>2. cycles \in Nat /\ b.cycles_left - cycles <= b.cycles_needed /\ cycles \in Int
    BY <1>1, PrefetchAssumption DEF Sane, Buffers
  <1>3. UNCHANGED <<enabled, wait, pc, thumb, stage, foreign>> /\ access'.kind = "data"
    <2>1. CASE AccessElsewhere(cycles, dma)
      BY <2>1 DEF AccessElsewhere
    <2>2. CASE ReadSram(cycles)
      <3>. DEFINE cost == IF Tick(prefetch_buffer, cycles, FALSE).active THEN cycles + 1 ELSE cycles
                  bound == cycles + 1
      <3>1. access' = [kind |-> "data", cost |-> cost, bound |-> bound]
        BY <2>2 DEF ReadSram
      <3>. HIDE DEF cost, bound
      <3>2. access'.kind = "data"
        BY <3>1
      <3>. QED  BY <2>2, <3>2 DEF ReadSram
    <2>. QED  BY <2>1, <2>2
  <1>4. /\ Sane(after) /\ Waiting(after) /\ Elsewhere(b, after)
        /\ stale' \in BOOLEAN /\ (~stale' => Counted(after))
    <2>1. CASE AccessElsewhere(cycles, dma)
      <3>1. after = Tick(b, cycles, dma) /\ stale' = (stale \/ LosesCount(b, dma))
        BY <2>1 DEF AccessElsewhere
      <3>2. /\ Sane(after) /\ Waiting(after) /\ Elsewhere(b, after)
            /\ Counted(b) /\ ~LosesCount(b, dma) => Counted(after)
        BY <1>1, <1>2, <3>1, TicksKeep DEF Elsewhere
      <3>. QED  BY <1>1, <3>1, <3>2
    <2>2. CASE ReadSram(cycles)
      <3>. DEFINE r == Tick(b, cycles, FALSE)
      <3>1. after = (IF r.active THEN [r EXCEPT !.active = FALSE, !.size = 0] ELSE r) /\ stale' = stale
        BY <2>2 DEF ReadSram
      <3>2. /\ Sane(r) /\ Waiting(r) /\ Elsewhere(b, r)
        BY <1>1, <1>2, TicksKeep DEF Elsewhere
      <3>. HIDE DEF r
      <3>3. CASE r.active
        <4>1. r \in Buffers
          BY <3>2 DEF Sane
        <4>2. /\ after \in Buffers /\ after.active = FALSE /\ after.size = 0
              /\ after.begin = r.begin /\ after.end = r.end /\ after.capacity = r.capacity
              /\ after.cycles_left = r.cycles_left /\ after.cycles_needed = r.cycles_needed
              /\ after.addr_increment = r.addr_increment
          BY <3>1, <3>3, <4>1 DEF Buffers
        <4>3. Sane(after)
          <5>1. r.capacity \in Nat
            BY <4>1 DEF Buffers
          <5>. QED  BY <3>2, <4>2, <5>1 DEF Sane, Filled, Within
        <4>4. Waiting(after) /\ Counted(after) /\ Elsewhere(b, after)
          BY <3>2, <4>2 DEF Waiting, Counted, Elsewhere
        <4>. QED  BY <1>1, <3>1, <4>3, <4>4
      <3>4. CASE ~r.active
        BY <1>1, <3>1, <3>2, <3>4 DEF Counted
      <3>. QED  BY <3>3, <3>4
    <2>. QED  BY <2>1, <2>2
  <1>5. enabled' /\ ~foreign' => InPlace'
    <2>. SUFFICES ASSUME enabled, ~foreign PROVE InPlace'
      BY <1>3
    <2>. DEFINE n == Increment(thumb)
    <2>1. /\ b.capacity >= 3 /\ b.addr_increment = n
          /\ b.begin = pc \/ (b.begin = pc + n /\ b.end >= b.begin)
      BY <1>1 DEF PrefetchInv, InPlace
    <2>2. b.begin \in Nat /\ b.end \in Nat /\ after.end \in Nat
      BY <1>1, <1>4 DEF Sane, Buffers
    <2>. HIDE DEF n
    <2>3. /\ after.capacity >= 3 /\ after.addr_increment = n
          /\ after.begin = pc \/ (after.begin = pc + n /\ after.end >= after.begin)
      BY <1>4, <2>1, <2>2 DEF Elsewhere
    <2>. QED  BY <1>1, <1>3, <2>3 DEF InPlace, n
  <1>6. SequentialFetchBounded'
    BY <1>3 DEF SequentialFetchBounded
  <1>. QED  BY <1>1, <1>3, <1>4, <1>5, <1>6 DEF PrefetchInv

(* The buffer has never been filled. *)
LEMMA PrefetchInitInv == PrefetchInit => PrefetchInv
  <1>. SUFFICES ASSUME PrefetchInit PROVE PrefetchInv
    OBVIOUS
  <1>. DEFINE b == prefetch_buffer
  <1>1. b \in Buffers /\ b.begin = 0 /\ b.end = 0 /\ b.size = 0 /\ b.capacity = 0 /\ b.cycles_left = 0
        /\ b.cycles_needed = 0 /\ b.addr_increment = 0 /\ ~b.active
    BY DEF PrefetchInit, Buffers
  <1>2. Sane(b) /\ Waiting(b) /\ Counted(b)
    BY <1>1 DEF Sane, Filled, Within, Waiting, Counted
  <1>3. SequentialFetchBounded
    BY DEF PrefetchInit, SequentialFetchBounded
  <1>4. enabled \in BOOLEAN /\ ~enabled
    BY DEF PrefetchInit
  <1>5. thumb \in BOOLEAN /\ foreign \in BOOLEAN /\ stale \in BOOLEAN
    BY DEF PrefetchInit
  <1>6. stage \in {"instruction", "flush", "flushed"} /\ wait \in Waits
    BY DEF PrefetchInit
  <1>7. pc \in Nat /\ pc >= Rom
    BY PrefetchAssumption DEF PrefetchInit
  <1>. QED  BY <1>2, <1>3, <1>4, <1>5, <1>6, <1>7 DEF PrefetchInv

(* Every step preserves the invariant. *)
LEMMA PrefetchNextInv == PrefetchInv /\ [PrefetchNext]_prefetchvars => PrefetchInv'
  <1>. SUFFICES ASSUME PrefetchInv, [PrefetchNext]_prefetchvars PROVE PrefetchInv'
    OBVIOUS
  <1>1. ASSUME NEW e \in BOOLEAN, NEW w \in Waits, WriteWaitcnt(e, w) PROVE PrefetchInv'
    BY <1>1 DEF WriteWaitcnt, PrefetchInv, SequentialFetchBounded
  <1>2. CASE UNCHANGED prefetchvars
    BY <1>2 DEF prefetchvars, PrefetchInv, InPlace, SequentialFetchBounded
  <1>. QED  BY <1>1, <1>2, FetchInv, BranchInv, FlushInv, AccessInv, ElsewhereInv DEF PrefetchNext

(* The invariant of the prefetch buffer holds, for all wait states, lengths of
   ticks and addresses. *)
THEOREM PrefetchInvariance == PrefetchSpec => []PrefetchInv
  BY PrefetchInitInv, PrefetchNextInv, PTL DEF PrefetchSpec

(* The buffer never makes straight-line code slower, and the counter never wraps
   into the cost (prefetch, prefetch_tick). *)
THEOREM FetchBounded == PrefetchSpec => []SequentialFetchBounded
  <1>1. PrefetchInv => SequentialFetchBounded
    BY DEF PrefetchInv
  <1>. QED  BY <1>1, PrefetchInvariance, PTL

(* It holds what it read ahead, and no more than its capacity (prefetch_tick). *)
THEOREM BufferHolds == PrefetchSpec => []HoldsWhatItRead
  <1>1. PrefetchInv => HoldsWhatItRead
    <2>. SUFFICES ASSUME PrefetchInv PROVE HoldsWhatItRead
      OBVIOUS
    <2>1. PrefetchTypeOK
      BY DEF PrefetchInv, Sane, Buffers, PrefetchTypeOK
    <2>. QED  BY <2>1 DEF PrefetchInv, Sane, Within, Counted, HoldsWhatItRead
  <1>. QED  BY <1>1, PrefetchInvariance, PTL
=============================================================================
