----------------------------- MODULE CpuProofs ------------------------------
(***************************************************************************)
(* Proofs about the CPU.  For any address space, values and modes, its     *)
(* pipeline stays in step with pc, its fetches are announced as what they  *)
(* are, and an interrupt is returned from to the instruction it stopped.   *)
(* And the bank switch implements the register file, for any modes,        *)
(* registers and contents.                                                 *)
(***************************************************************************)
EXTENDS Cpu, Registers, TLAPS

(* The pipeline and the interrupts. *)

(* A machine of the declared type. *)
Machine ==
    [pc : Addr, lr : [Bank -> Addr], cpsr : Psr, spsr : [Bank \ {"none"} -> Psr],
     fetch : {"seq", "non_seq"}, executing : Word, decoding : Word,
     after : Addr \union {-1}, skewed : 0 .. 2, owed : Stopped]

(* What the interrupt stopped is what r14 and spsr of the irq mode lead back to. *)
Returns(lr, spsr, owed) ==
    LET size == Width(owed.cpsr.t)
    IN  owed # Nothing =>
            /\ spsr["irq"] = owed.cpsr
            /\ owed.executing = <<AlignTo(Wrap(lr["irq"] - 4), size), size>>

(* Both. *)
Holds(m) == m \in Machine /\ Returns(m.lr, m.spsr, m.owed)

(* Between two instructions. *)
Piped(pc, t, skewed, executing, decoding) ==
    LET size == Width(t)
        at == AlignTo(pc, size)
    IN  /\ skewed = 0 => executing \in {NV, <<Wrap(at - 2 * size), size>>}
        /\ skewed # 2 => decoding \in {NV, <<Wrap(at - size), size>>}

(* The type of the next fetch. *)
Announced(pc, t, skewed, fetch, after) ==
    fetch = "seq" /\ skewed = 0 => after = AlignTo(pc, Width(t))

(* A machine in step. *)
Between(m) ==
    /\ Holds(m)
    /\ Piped(m.pc, m.cpsr.t, m.skewed, m.executing, m.decoding)
    /\ Announced(m.pc, m.cpsr.t, m.skewed, m.fetch, m.after)

(* After the fetch. *)
Ready(m) ==
    LET size == Width(m.cpsr.t)
    IN  /\ Holds(m)
        /\ m.pc % size = 0
        /\ m.decoding = <<m.pc, size>>
        /\ m.after = Wrap(m.pc + size)
        /\ m.skewed # 2
        /\ m.skewed = 0 => m.executing \in {NV, <<Wrap(m.pc - size), size>>}

(* What a handler leaves of the pipeline when it does not flush it. *)
SamePipe(m, r) ==
    /\ r.executing = m.executing /\ r.decoding = m.decoding /\ r.skewed = m.skewed
    /\ r.cpsr.t = m.cpsr.t

----------------------------------------------------------------------------
(* Addresses modulo the size of the address space. *)
LEMMA WrapIn == ASSUME NEW a \in Int PROVE Wrap(a) \in Addr
  BY CpuAssumption DEF Wrap, Addr

(* An address within the space is itself. *)
LEMMA WrapSame == ASSUME NEW a \in Int, 0 <= a, a < Space PROVE Wrap(a) = a
  BY CpuAssumption DEF Wrap

(* One past its end starts again. *)
LEMMA WrapOver == ASSUME NEW a \in Int, Space <= a, a < 2 * Space PROVE Wrap(a) = a - Space
  BY CpuAssumption DEF Wrap

(* One before its start ends it. *)
LEMMA WrapUnder == ASSUME NEW a \in Int, 0 - Space <= a, a < 0 PROVE Wrap(a) = a + Space
  BY CpuAssumption DEF Wrap

(* The space is large, and a multiple of the opcodes. *)
LEMMA Spaced == Space \in Nat /\ Space > 32 /\ Space % 4 = 0 /\ Space % 2 = 0
  BY CpuAssumption

(* Addresses cut to the width of an opcode. *)
LEMMA Cut ==
    ASSUME NEW a \in Int, NEW b \in Int, NEW size \in {2, 4}, a - (a % size) = b
    PROVE  AlignTo(a, size) = b
  BY DEF AlignTo

(* A cut address is aligned. *)
LEMMA Aligned ==
    ASSUME NEW a \in Addr, NEW size \in {2, 4}
    PROVE  AlignTo(a, size) \in Addr /\ AlignTo(a, size) % size = 0
  BY Spaced DEF AlignTo, Addr

(* An aligned one is not changed by it. *)
LEMMA AlignedSame ==
    ASSUME NEW a \in Addr, NEW size \in {2, 4}, a % size = 0
    PROVE  AlignTo(a, size) = a
  BY Spaced DEF AlignTo, Addr

(* A step over an opcode and back. *)
LEMMA OneOn ==
    ASSUME NEW a \in Addr, NEW size \in {2, 4}, a % size = 0
    PROVE  /\ Wrap(a + size) \in Addr /\ Wrap(a + size) % size = 0
           /\ Wrap(Wrap(a + size) - size) = a
           /\ Wrap(Wrap(a + size) - 2 * size) = Wrap(a - size)
  <1> a \in Int /\ 0 <= a /\ a < Space
    BY Spaced DEF Addr
  <1>1. CASE a + size < Space
    <2>1. Wrap(a + size) = a + size
      BY <1>1, WrapSame
    <2>2. (a + size) % size = 0
      BY Spaced
    <2>3. Wrap(a + size - size) = a
      BY WrapSame
    <2> QED
      BY <1>1, <2>1, <2>2, <2>3, WrapSame, Spaced DEF Addr
  <1>2. CASE a + size >= Space
    <2>1. a + size = Space
      BY <1>2, Spaced
    <2>2. Wrap(a + size) = 0
      BY <2>1, WrapOver, Spaced
    <2>3. Wrap(0 - size) = Space - size
      BY WrapUnder, Spaced
    <2>4. Wrap(0 - 2 * size) = Space - 2 * size
      BY WrapUnder, Spaced
    <2>5. Wrap(a - size) = a - size
      BY WrapSame, <2>1, Spaced
    <2> QED
      BY <2>1, <2>2, <2>3, <2>4, <2>5, Spaced DEF Addr
  <1> QED
    BY <1>1, <1>2, Spaced

(* Two steps on from the address that a flush reads. *)
LEMMA TwoOn ==
    ASSUME NEW a \in Addr, NEW size \in {2, 4}
    PROVE  /\ Wrap(a + 2 * size) \in Addr
           /\ AlignTo(Wrap(a + 2 * size), size) = Wrap(AlignTo(a, size) + 2 * size)
           /\ Wrap(AlignTo(a, size) + 2 * size) \in Addr
           /\ Wrap(AlignTo(a, size) + size) \in Addr
           /\ Wrap(Wrap(AlignTo(a, size) + 2 * size) - 2 * size) = AlignTo(a, size)
           /\ Wrap(Wrap(AlignTo(a, size) + 2 * size) - size) = Wrap(AlignTo(a, size) + size)
  <1> DEFINE b == AlignTo(a, size)
  <1>b. b \in Addr /\ b % size = 0 /\ b <= a /\ a < b + size
    BY Aligned, Spaced DEF AlignTo, Addr
  <1>n. a \in Nat /\ a < Space /\ a = b + (a % size)
    BY Spaced DEF AlignTo, Addr
  <1>1. /\ Wrap(b + size) \in Addr /\ Wrap(b + size) % size = 0
        /\ Wrap(Wrap(b + size) - size) = b
    BY <1>b, OneOn
  <1>2. /\ Wrap(Wrap(b + size) + size) \in Addr
        /\ Wrap(Wrap(Wrap(b + size) + size) - size) = Wrap(b + size)
        /\ Wrap(Wrap(Wrap(b + size) + size) - 2 * size) = Wrap(Wrap(b + size) - size)
    BY <1>1, OneOn
  <1>3. Wrap(Wrap(b + size) + size) = Wrap(b + 2 * size)
    <2> HIDE DEF b
    <2>1. b \in Nat /\ b < Space
      BY <1>b, Spaced DEF Addr
    <2> QED
      BY <2>1, Spaced, WrapSame, WrapOver
  <1>4. AlignTo(Wrap(a + 2 * size), size) = Wrap(b + 2 * size)
    <2> HIDE DEF b
    <2>1. b \in Nat /\ b < Space
      BY <1>b, Spaced DEF Addr
    <2>2. CASE a + 2 * size < Space
      <3>1. Wrap(a + 2 * size) = a + 2 * size /\ Wrap(b + 2 * size) = b + 2 * size
        BY <2>1, <2>2, <1>n, <1>b, Spaced, WrapSame
      <3>2. (a + 2 * size) % size = a % size
        BY <1>n
      <3>3. a + 2 * size - ((a + 2 * size) % size) = b + 2 * size
        BY <3>2, <1>n, <2>1
      <3>4. AlignTo(a + 2 * size, size) = b + 2 * size
        BY <3>3, Cut, <1>n, <2>1
      <3> QED
        BY <3>1, <3>4
    <2>3. CASE a + 2 * size >= Space
      <3>1. Space - b >= 0 /\ (Space - b) % size = 0
        BY <1>b, <2>1, Spaced
      <3>2. b + 2 * size >= Space
        BY <3>1, <1>b, <1>n, <2>1, <2>3, Spaced
      <3>3. Wrap(a + 2 * size) = a + 2 * size - Space /\ Wrap(b + 2 * size) = b + 2 * size - Space
        BY <2>1, <2>3, <3>2, <1>n, <1>b, WrapOver, Spaced
      <3>4. (a + 2 * size - Space) % size = a % size
        BY <1>n, Spaced, <2>3
      <3>5. a + 2 * size - Space - ((a + 2 * size - Space) % size) = b + 2 * size - Space
        BY <3>4, <1>n, <2>1, Spaced
      <3>6. AlignTo(a + 2 * size - Space, size) = b + 2 * size - Space
        BY <3>5, Cut, <1>n, <2>1, Spaced
      <3> QED
        BY <3>3, <3>6
    <2> QED
      BY <2>2, <2>3, <1>n, Spaced
  <1>5. Wrap(a + 2 * size) \in Addr
    BY WrapIn, <1>n
  <1> QED
    BY <1>1, <1>2, <1>3, <1>4, <1>5

(* The address that SUBS pc, lr, #4 goes to is that of the opcode stopped. *)
LEMMA BackFromThumb ==
    ASSUME NEW a \in Addr
    PROVE  AlignTo(Wrap(a - 4), 2) = Wrap(AlignTo(a, 2) - 4)
  <1>1. a \in Nat /\ a < Space
    BY Spaced DEF Addr
  <1>2. CASE a >= 4
    <2>1. Wrap(a - 4) = a - 4
      BY <1>1, <1>2, Spaced, WrapSame
    <2>2. Wrap(AlignTo(a, 2) - 4) = AlignTo(a, 2) - 4
      BY <1>1, <1>2, Spaced, WrapSame DEF AlignTo
    <2> QED
      BY <1>1, <1>2, <2>1, <2>2 DEF AlignTo
  <1>3. CASE a < 4
    <2>1. Wrap(a - 4) = a - 4 + Space
      BY <1>1, <1>3, Spaced, WrapUnder
    <2>2. Wrap(AlignTo(a, 2) - 4) = AlignTo(a, 2) - 4 + Space
      BY <1>1, <1>3, Spaced, WrapUnder DEF AlignTo
    <2> QED
      BY <1>1, <1>3, <2>1, <2>2, Spaced DEF AlignTo
  <1> QED
    BY <1>1, <1>2, <1>3

(* The same for ARM, whose r14 is four less. *)
LEMMA BackFromArm ==
    ASSUME NEW a \in Addr
    PROVE  AlignTo(Wrap(Wrap(a - 4) - 4), 4) = Wrap(AlignTo(a, 4) - 8)
  <1>1. a \in Nat /\ a < Space
    BY Spaced DEF Addr
  <1>2. Wrap(Wrap(a - 4) - 4) = Wrap(a - 8)
    BY <1>1, Spaced, WrapSame, WrapUnder
  <1>3. AlignTo(Wrap(a - 8), 4) = Wrap(AlignTo(a, 4) - 8)
    <2>1. CASE a >= 8
      <3>1. Wrap(a - 8) = a - 8
        BY <1>1, <2>1, Spaced, WrapSame
      <3>2. Wrap(AlignTo(a, 4) - 8) = AlignTo(a, 4) - 8
        BY <1>1, <2>1, Spaced, WrapSame DEF AlignTo
      <3> QED
        BY <1>1, <2>1, <3>1, <3>2 DEF AlignTo
    <2>2. CASE a < 8
      <3>1. Wrap(a - 8) = a - 8 + Space
        BY <1>1, <2>2, Spaced, WrapUnder
      <3>2. Wrap(AlignTo(a, 4) - 8) = AlignTo(a, 4) - 8 + Space
        BY <1>1, <2>2, Spaced, WrapUnder DEF AlignTo
      <3>3. (a - 8 + Space) % 4 = a % 4
        BY <1>1, Spaced
      <3>4. AlignTo(a - 8 + Space, 4) = AlignTo(a, 4) - 8 + Space
        BY <1>1, <3>3, Spaced DEF AlignTo
      <3> QED
        BY <3>1, <3>2, <3>4
    <2> QED
      BY <1>1, <2>1, <2>2
  <1> QED
    BY <1>2, <1>3
----------------------------------------------------------------------------
(* The types of the fields of a machine. *)
LEMMA Fields ==
    ASSUME NEW m \in Machine
    PROVE  /\ m.pc \in Addr /\ m.lr \in [Bank -> Addr] /\ m.cpsr \in Psr
           /\ m.spsr \in [Bank \ {"none"} -> Psr] /\ m.fetch \in {"seq", "non_seq"}
           /\ m.executing \in Word /\ m.decoding \in Word /\ m.after \in Addr \union {-1}
           /\ m.skewed \in 0 .. 2 /\ m.owed \in Stopped
           /\ m.cpsr.mode \in {"usr", "sys", "svc", "irq", "und"} /\ m.cpsr.t \in BOOLEAN
           /\ m.cpsr.i \in BOOLEAN /\ Width(m.cpsr.t) \in {2, 4}
  BY DEF Machine, Psr, Width

(* The values that stand for nothing have their types. *)
LEMMA NothingStopped == Nothing \in Stopped /\ NV \in Word
  BY DEF Nothing, Stopped, NV, Word, Psr

(* One lemma for each way a handler changes the machine: what it keeps, and what
   it changes of the fields that the pipeline depends on. *)
LEMMA PutPc ==
    ASSUME NEW m, Holds(m), NEW a \in Addr
    PROVE  LET r == [m EXCEPT !.pc = a]
           IN  /\ Holds(r) /\ SamePipe(m, r) /\ r.pc = a /\ r.cpsr = m.cpsr
               /\ r.fetch = m.fetch /\ r.after = m.after
  BY DEF Holds, SamePipe, Machine

(* The type of the fetch. *)
LEMMA PutFetch ==
    ASSUME NEW m, Holds(m), NEW f \in {"seq", "non_seq"}
    PROVE  LET r == [m EXCEPT !.fetch = f]
           IN  /\ Holds(r) /\ SamePipe(m, r) /\ r.pc = m.pc /\ r.cpsr = m.cpsr
               /\ r.fetch = f /\ r.after = m.after
  BY DEF Holds, SamePipe, Machine

(* r14 of the current mode. *)
LEMMA PutLr ==
    ASSUME NEW m, Holds(m), NEW v \in Addr
    PROVE  LET r == SetLr(m, v)
           IN  /\ Holds(r) /\ SamePipe(m, r) /\ r.pc = m.pc /\ r.cpsr = m.cpsr
               /\ r.fetch = m.fetch /\ r.after = m.after
               /\ m.cpsr.mode = "irq" => r.owed = Nothing /\ r.lr["irq"] = v
  <1> DEFINE b == BankOf(m.cpsr.mode)
             lr == [m.lr EXCEPT ![b] = v]
             owed == IF m.cpsr.mode = "irq" THEN Nothing ELSE m.owed
             r == [m EXCEPT !.lr = lr, !.owed = owed]
  <1>m. m \in Machine
    BY DEF Holds
  <1>1. b \in Bank
    BY <1>m, Fields DEF Bank, BankOf
  <1>2. lr \in [Bank -> Addr] /\ owed \in Stopped
    BY <1>m, <1>1, Fields, NothingStopped
  <1>3. SetLr(m, v) = r
    BY DEF SetLr
  <1>4. Returns(lr, m.spsr, owed)
    <2>1. CASE m.cpsr.mode = "irq"
      BY <2>1 DEF Returns
    <2>2. CASE m.cpsr.mode # "irq"
      <3>1. b # "irq" /\ "irq" \in Bank
        BY <2>2, <1>m, Fields DEF BankOf, Bank
      <3>2. lr["irq"] = m.lr["irq"] /\ owed = m.owed
        BY <2>2, <3>1, <1>m, Fields
      <3> QED
        BY <3>2 DEF Returns, Holds
    <2> QED
      BY <2>1, <2>2
  <1>5. m.cpsr.mode = "irq" => owed = Nothing /\ lr["irq"] = v
    BY <1>m, Fields DEF BankOf, Bank
  <1> HIDE DEF lr, owed, b
  <1>6. r \in Machine
    BY <1>m, <1>2 DEF Machine
  <1>7. /\ SamePipe(m, r) /\ r.pc = m.pc /\ r.cpsr = m.cpsr /\ r.fetch = m.fetch /\ r.after = m.after
        /\ r.lr = lr /\ r.spsr = m.spsr /\ r.owed = owed
    BY <1>m DEF Machine, SamePipe
  <1> HIDE DEF r
  <1> QED
    BY <1>3, <1>4, <1>5, <1>6, <1>7 DEF Holds

(* A register that is not the program counter. *)
LEMMA PutRegister ==
    ASSUME NEW m, Holds(m), NEW x \in {0, 14}, NEW v \in Addr
    PROVE  LET r == SetRegister(m, x, v)
           IN  /\ Holds(r) /\ SamePipe(m, r) /\ r.pc = m.pc /\ r.cpsr = m.cpsr
               /\ r.fetch = m.fetch /\ r.after = m.after
  BY PutLr DEF SetRegister, SamePipe

(* The program counter as a register. *)
LEMMA PutPcRegister ==
    ASSUME NEW m, Holds(m), NEW v \in Addr
    PROVE  LET r == SetRegister(m, 15, v)
           IN  /\ Holds(r) /\ SamePipe(m, r) /\ r.pc = v /\ r.cpsr = m.cpsr
               /\ r.fetch = m.fetch /\ r.after = m.after
  <1> DEFINE r == [m EXCEPT !.pc = v]
  <1>1. SetRegister(m, 15, v) = r
    BY DEF SetRegister
  <1>2. /\ Holds(r) /\ SamePipe(m, r) /\ r.pc = v /\ r.cpsr = m.cpsr
        /\ r.fetch = m.fetch /\ r.after = m.after
    BY PutPc
  <1> QED
    BY <1>1, <1>2

(* The status register. *)
LEMMA PutCpsr ==
    ASSUME NEW m, Holds(m), NEW psr \in Psr
    PROVE  LET r == [m EXCEPT !.cpsr = psr]
           IN  /\ Holds(r) /\ r.pc = m.pc /\ r.cpsr = psr
               /\ r.executing = m.executing /\ r.decoding = m.decoding /\ r.skewed = m.skewed
               /\ r.fetch = m.fetch /\ r.after = m.after
  BY DEF Holds, Machine

(* The mode. *)
LEMMA PutMode ==
    ASSUME NEW m, Holds(m), NEW to \in {"usr", "sys", "svc", "irq", "und"}
    PROVE  LET r == SwitchMode(m, to)
           IN  /\ Holds(r) /\ SamePipe(m, r) /\ r.pc = m.pc
               /\ r.cpsr.mode = to
               /\ r.fetch = m.fetch /\ r.after = m.after
               /\ r.lr = m.lr /\ r.spsr = m.spsr /\ r.owed = m.owed
  <1> DEFINE psr == [m.cpsr EXCEPT !.mode = to]
             r == [m EXCEPT !.cpsr = psr]
  <1>m. m \in Machine
    BY DEF Holds
  <1>1. psr \in Psr /\ psr.t = m.cpsr.t /\ psr.mode = to
    BY <1>m, Fields DEF Psr
  <1>2. SwitchMode(m, to) = r
    BY DEF SwitchMode
  <1> HIDE DEF psr
  <1>3. /\ Holds(r) /\ r.pc = m.pc /\ r.cpsr = psr
        /\ r.executing = m.executing /\ r.decoding = m.decoding /\ r.skewed = m.skewed
        /\ r.fetch = m.fetch /\ r.after = m.after
    BY <1>1, PutCpsr
  <1>4. r.lr = m.lr /\ r.spsr = m.spsr /\ r.owed = m.owed
    BY <1>m DEF Machine
  <1> HIDE DEF r
  <1> QED
    BY <1>1, <1>2, <1>3, <1>4 DEF SamePipe, psr

(* The saved status register, where there is one. *)
LEMMA Restored ==
    ASSUME NEW m, Holds(m)
    PROVE  LET r == RestoreCpsr(m)
           IN  /\ Holds(r) /\ r.pc = m.pc
               /\ r.executing = m.executing /\ r.decoding = m.decoding /\ r.skewed = m.skewed
               /\ r.fetch = m.fetch /\ r.after = m.after
               /\ r.cpsr = IF InExceptionMode(m) THEN m.spsr[m.cpsr.mode] ELSE m.cpsr
  <1>m. m \in Machine
    BY DEF Holds
  <1>1. CASE InExceptionMode(m)
    <2>1. m.spsr[m.cpsr.mode] \in Psr
      BY <1>m, <1>1, Fields DEF InExceptionMode, Bank
    <2> QED
      BY <1>1, <2>1, PutCpsr DEF RestoreCpsr
  <1>2. CASE ~InExceptionMode(m)
    BY <1>2 DEF RestoreCpsr
  <1> QED
    BY <1>1, <1>2

(* The step to the next opcode. *)
LEMMA Advances ==
    ASSUME NEW m, Holds(m)
    PROVE  LET r == Advance(m)
           IN  /\ Holds(r) /\ SamePipe(m, r) /\ r.pc = Wrap(m.pc + Width(m.cpsr.t))
               /\ r.cpsr = m.cpsr /\ r.fetch = m.fetch /\ r.after = m.after
  <1>1. m.pc \in Int /\ Width(m.cpsr.t) \in Int
    BY Fields, Spaced DEF Holds, Addr
  <1>2. Wrap(m.pc + Width(m.cpsr.t)) \in Addr
    BY <1>1, WrapIn
  <1> QED
    BY <1>2, PutPc DEF Advance

(* The step to the next opcode, with either type of fetch. *)
LEMMA GoesOn ==
    ASSUME NEW m, Holds(m)
    PROVE  LET r == Sequential(m)
           IN  /\ Holds(r) /\ SamePipe(m, r) /\ r.pc = Wrap(m.pc + Width(m.cpsr.t))
               /\ r.cpsr = m.cpsr /\ r.fetch = "seq" /\ r.after = m.after
  BY Advances, PutFetch DEF Sequential, SamePipe

(* The same with a fetch that is not sequential. *)
LEMMA GoesOnApart ==
    ASSUME NEW m, Holds(m)
    PROVE  LET r == NonSequential(m)
           IN  /\ Holds(r) /\ SamePipe(m, r) /\ r.pc = Wrap(m.pc + Width(m.cpsr.t))
               /\ r.cpsr = m.cpsr /\ r.fetch = "non_seq" /\ r.after = m.after
  BY Advances, PutFetch DEF NonSequential, SamePipe

(* An access to data. *)
LEMMA Accesses ==
    ASSUME NEW m, Holds(m)
    PROVE  LET r == DataAccess(m)
           IN  /\ Holds(r) /\ SamePipe(m, r) /\ r.pc = m.pc
               /\ r.cpsr = m.cpsr /\ r.fetch = m.fetch
  BY DEF DataAccess, Holds, SamePipe, Machine

(* A machine that steps on without a flush is between two instructions. *)
LEMMA StepsOn ==
    ASSUME NEW m, Ready(m), NEW r, Holds(r), SamePipe(m, r),
           r.pc = Wrap(m.pc + Width(m.cpsr.t)),
           r.fetch = "non_seq" \/ r.after = m.after
    PROVE  Between(r)
  <1> DEFINE size == Width(m.cpsr.t)
  <1>1. m.pc \in Addr /\ size \in {2, 4} /\ m.pc % size = 0
    BY Fields DEF Ready, Holds
  <1>2. /\ r.pc \in Addr /\ r.pc % size = 0
        /\ Wrap(r.pc - size) = m.pc
        /\ Wrap(r.pc - 2 * size) = Wrap(m.pc - size)
    BY <1>1, OneOn
  <1>3. AlignTo(r.pc, size) = r.pc
    BY <1>1, <1>2, AlignedSame
  <1>4. Width(r.cpsr.t) = size
    BY DEF SamePipe
  <1>5. Piped(r.pc, r.cpsr.t, r.skewed, r.executing, r.decoding)
    BY <1>2, <1>3, <1>4 DEF Piped, Ready, SamePipe
  <1>6. Announced(r.pc, r.cpsr.t, r.skewed, r.fetch, r.after)
    BY <1>2, <1>3, <1>4 DEF Announced, Ready, SamePipe
  <1> QED
    BY <1>5, <1>6 DEF Between

(* A flush puts the pipeline in step whatever it was before. *)
LEMMA Flushes ==
    ASSUME NEW m, Holds(m), NEW t \in BOOLEAN, t = m.cpsr.t
    PROVE  LET r == pipeline_flush(m, t)
               size == Width(t)
           IN  /\ Between(r)
               /\ r.executing = <<AlignTo(m.pc, size), size>> /\ r.cpsr = m.cpsr
               /\ r.lr = m.lr /\ r.spsr = m.spsr /\ r.owed = m.owed
  <1> DEFINE size == Width(t)
             pc == Wrap(m.pc + 2 * size)
             executing == <<AlignTo(m.pc, size), size>>
             decoding == <<Wrap(AlignTo(m.pc, size) + size), size>>
             after == Wrap(AlignTo(m.pc, size) + 2 * size)
             r == [m EXCEPT !.executing = executing, !.decoding = decoding, !.fetch = "seq",
                            !.pc = pc, !.after = after, !.skewed = 0]
  <1>m. m \in Machine /\ Returns(m.lr, m.spsr, m.owed)
    BY DEF Holds
  <1>1. m.pc \in Addr /\ size \in {2, 4}
    BY <1>m, Fields
  <1>2. pipeline_flush(m, t) = r
    BY DEF pipeline_flush
  <1>3. /\ pc \in Addr /\ AlignTo(pc, size) = after /\ after \in Addr
        /\ Wrap(AlignTo(m.pc, size) + size) \in Addr /\ AlignTo(m.pc, size) \in Addr
        /\ Wrap(after - 2 * size) = AlignTo(m.pc, size)
        /\ Wrap(after - size) = Wrap(AlignTo(m.pc, size) + size)
    BY <1>1, TwoOn, Aligned
  <1>4. executing \in Word /\ decoding \in Word
    BY <1>1, <1>3 DEF Word
  <1>5. Piped(pc, t, 0, executing, decoding) /\ Announced(pc, t, 0, "seq", after)
    BY <1>3 DEF Piped, Announced
  <1> HIDE DEF size, pc, executing, decoding, after
  <1>6. r \in Machine
    <2> DEFINE n == [m EXCEPT !.executing = executing, !.decoding = decoding]
               o == [n EXCEPT !.fetch = "seq", !.pc = pc]
    <2>1. n \in Machine
      BY <1>m, <1>4 DEF Machine
    <2> HIDE DEF n
    <2>2. o \in Machine
      BY <2>1, <1>3 DEF Machine
    <2> HIDE DEF o
    <2>3. after \in Addr \union {-1} /\ 0 \in 0 .. 2
      BY <1>3
    <2>4. [o EXCEPT !.after = after, !.skewed = 0] \in Machine
      BY <2>2, <2>3 DEF Machine
    <2>5. r = [o EXCEPT !.after = after, !.skewed = 0]
      BY Zenon DEF o, n
    <2> QED
      BY <2>4, <2>5, Zenon
  <1>7. /\ r.executing = executing /\ r.decoding = decoding /\ r.fetch = "seq" /\ r.pc = pc
        /\ r.after = after /\ r.skewed = 0 /\ r.cpsr = m.cpsr
        /\ r.lr = m.lr /\ r.spsr = m.spsr /\ r.owed = m.owed
    BY <1>m DEF Machine
  <1> HIDE DEF r
  <1>8. Holds(r)
    BY <1>m, <1>6, <1>7 DEF Holds
  <1>9. Between(r)
    BY <1>5, <1>7, <1>8 DEF Between
  <1> QED
    BY <1>2, <1>7, <1>9 DEF executing, size
----------------------------------------------------------------------------
(* The instruction has accessed memory and stepped on. *)
Passed(m, r) ==
    /\ Holds(r) /\ SamePipe(m, r)
    /\ r.pc = Wrap(m.pc + Width(m.cpsr.t)) /\ r.fetch = "non_seq"

(* The lemmas by which a transfer follows from its parts. *)
LEMMA PassedOn == ASSUME NEW m, Ready(m), NEW r, Passed(m, r) PROVE Between(r)
  BY StepsOn DEF Passed

(* An access passes. *)
LEMMA PassesAccess ==
    ASSUME NEW m, Holds(m), NEW n, Holds(n), SamePipe(m, n), n.pc = m.pc
    PROVE  Passed(m, NonSequential(n)) /\ Passed(m, DataAccess(NonSequential(n)))
  BY GoesOnApart, Accesses DEF Passed, SamePipe

(* A register written after it changes nothing of that. *)
LEMMA PassesRegister ==
    ASSUME NEW m, NEW n, Passed(m, n), NEW x \in {0, 14}, NEW v \in Addr
    PROVE  Passed(m, SetRegister(n, x, v))
  BY PutRegister DEF Passed, SamePipe

(* Nor does the mode. *)
LEMMA PassesMode ==
    ASSUME NEW m, NEW n, Passed(m, n), NEW to \in {"usr", "sys", "svc", "irq", "und"}
    PROVE  Passed(m, SwitchMode(n, to))
  <1>1. Holds(n)
    BY DEF Passed
  <1>2. /\ Holds(SwitchMode(n, to)) /\ SamePipe(n, SwitchMode(n, to))
        /\ SwitchMode(n, to).pc = n.pc /\ SwitchMode(n, to).fetch = n.fetch
    BY <1>1, PutMode
  <1> QED
    BY <1>2 DEF Passed, SamePipe

(* A machine has its own pipeline. *)
LEMMA SameItself == ASSUME NEW m PROVE SamePipe(m, m)
  BY DEF SamePipe

(* A machine after the fetch is typed. *)
LEMMA ReadyKept == ASSUME NEW m, Ready(m) PROVE Holds(m) /\ m \in Machine
  BY DEF Ready, Holds

(* A jump, and a jump into the other instruction set. *)
LEMMA FlushesTo ==
    ASSUME NEW m, Holds(m), NEW a \in Addr, NEW t \in BOOLEAN, t = m.cpsr.t
    PROVE  Between(pipeline_flush([m EXCEPT !.pc = a], t))
  <1> DEFINE n == [m EXCEPT !.pc = a]
  <1>1. Holds(n) /\ n.cpsr = m.cpsr
    BY PutPc
  <1> HIDE DEF n
  <1>2. Between(pipeline_flush(n, t))
    BY <1>1, Flushes
  <1> QED
    BY <1>2 DEF n

(* And with a change of the instruction set. *)
LEMMA FlushesInto ==
    ASSUME NEW m, Holds(m), NEW a \in Addr, NEW t \in BOOLEAN
    PROVE  /\ Between(pipeline_flush([m EXCEPT !.pc = a, !.cpsr.t = t], t))
           /\ Between(pipeline_flush([m EXCEPT !.cpsr.t = t, !.pc = a], t))
  <1> DEFINE psr == [m.cpsr EXCEPT !.t = t]
             n == [m EXCEPT !.cpsr = psr]
             o == [n EXCEPT !.pc = a]
  <1>m. m \in Machine
    BY DEF Holds
  <1>1. psr \in Psr /\ psr.t = t
    BY <1>m, Fields DEF Psr
  <1>2. /\ [m EXCEPT !.pc = a, !.cpsr.t = t] = [m EXCEPT !.pc = a, !.cpsr = psr]
        /\ [m EXCEPT !.cpsr.t = t, !.pc = a] = [m EXCEPT !.pc = a, !.cpsr = psr]
    BY <1>m DEF Machine
  <1> HIDE DEF psr
  <1>3. [m EXCEPT !.pc = a, !.cpsr = psr] = o
    BY <1>m DEF Machine
  <1>4. Holds(n) /\ n.cpsr = psr
    BY <1>1, PutCpsr
  <1> HIDE DEF n
  <1>5. Between(pipeline_flush(o, t))
    BY <1>1, <1>4, FlushesTo
  <1> QED
    BY <1>2, <1>3, <1>5

(* r14 and its value. *)
LEMMA LrIn == ASSUME NEW m \in Machine PROVE Lr(m) \in Addr
  BY Fields DEF Lr, BankOf, Bank

(* The values are addresses. *)
LEMMA ValuesIn == ASSUME NEW v \in Values PROVE v \in Addr
  BY CpuAssumption DEF Addr

(* The targets of BX are addresses. *)
LEMMA OddBefore ==
    ASSUME NEW a \in Addr
    PROVE  (a % 2 = 1 => a - 1 \in Addr) /\ AlignTo(a, 2) \in Addr /\ AlignTo(a, 4) \in Addr
  BY Spaced, Aligned DEF Addr

----------------------------------------------------------------------------
(* The ARM handlers keep the pipeline in step. *)
LEMMA BranchExchange ==
    ASSUME NEW m, Ready(m), ~m.cpsr.t, NEW a \in Addr
    PROVE  Between(branch_exchange(m, a))
  <1>1. CASE a % 2 = 1
    BY <1>1, ReadyKept, OddBefore, FlushesInto DEF branch_exchange
  <1>2. CASE a % 2 # 1
    <2>1. m.cpsr.t = FALSE
      BY ReadyKept, Fields
    <2>2. Between(pipeline_flush([m EXCEPT !.pc = AlignTo(a, 4)], FALSE))
      BY <2>1, ReadyKept, OddBefore, FlushesTo
    <2> QED
      BY <1>2, <2>2 DEF branch_exchange
  <1> QED
    BY <1>1, <1>2

(* Addresses and offsets make addresses. *)
LEMMA WrapsIn ==
    ASSUME NEW a \in Addr, NEW d \in Int
    PROVE  Wrap(a + d) \in Addr /\ Wrap(a - d) \in Addr
  BY WrapIn, Spaced DEF Addr

(* Offsets are numbers. *)
LEMMA OffsetsIn == ASSUME NEW d \in Offsets PROVE d \in Int
  BY Spaced DEF Offsets

(* B and BL. *)
LEMMA BranchWithLink ==
    ASSUME NEW m, Ready(m), ~m.cpsr.t, NEW link \in BOOLEAN, NEW d \in Int
    PROVE  Between(branch_with_link(m, link, d))
  <1> DEFINE n == IF link THEN SetLr(m, Wrap(m.pc - 4)) ELSE m
  <1>m. m \in Machine /\ Holds(m) /\ m.pc \in Addr
    BY ReadyKept, Fields
  <1>1. Wrap(m.pc - 4) \in Addr
    BY <1>m, WrapsIn
  <1>2. Holds(n) /\ n.pc = m.pc /\ n.cpsr = m.cpsr
    BY <1>m, <1>1, PutLr
  <1> HIDE DEF n
  <1>3. Wrap(n.pc + d) \in Addr /\ n.cpsr.t = FALSE
    BY <1>m, <1>2, WrapsIn, Fields
  <1>4. Between(pipeline_flush([n EXCEPT !.pc = Wrap(n.pc + d)], FALSE))
    BY <1>2, <1>3, FlushesTo
  <1> QED
    BY <1>4 DEF branch_with_link, n

(* Data processing: shifted by a register or not, with pc written or not. *)
LEMMA Computed ==
    ASSUME NEW m, Ready(m), NEW shift_by_reg \in BOOLEAN, NEW set \in BOOLEAN, NEW compares \in BOOLEAN,
           NEW dest \in {0, 14, 15}, NEW v \in Addr,
           compares /\ dest = 15 /\ InExceptionMode(m) => m.spsr[m.cpsr.mode].t = m.cpsr.t
    PROVE  Between(data_processing(m, shift_by_reg, set, compares, dest, v))
  <1> DEFINE stepped == IF shift_by_reg THEN Advance(m) ELSE m
             read == [stepped EXCEPT !.fetch = "seq"]
             written == IF compares THEN read ELSE SetRegister(read, dest, v)
             restored == IF dest = 15 /\ set THEN RestoreCpsr(written) ELSE written
             jumps == dest = 15 /\ ~compares
  <1>m. Holds(m) /\ m \in Machine
    BY ReadyKept
  <1>1. /\ Holds(stepped) /\ SamePipe(m, stepped) /\ stepped.cpsr = m.cpsr /\ stepped.after = m.after
        /\ stepped.pc = IF shift_by_reg THEN Wrap(m.pc + Width(m.cpsr.t)) ELSE m.pc
    BY <1>m, Advances, SameItself
  <1> HIDE DEF stepped
  <1>2. /\ Holds(read) /\ SamePipe(m, read) /\ read.cpsr = m.cpsr /\ read.after = m.after
        /\ read.fetch = "seq" /\ read.pc = stepped.pc
    BY <1>1, PutFetch DEF SamePipe
  <1> HIDE DEF read
  <1>3. Holds(written) /\ written.cpsr = m.cpsr
    BY <1>2, PutRegister, PutPcRegister
  <1>4. ~jumps => /\ SamePipe(m, written) /\ written.after = m.after
                  /\ written.fetch = "seq" /\ written.pc = stepped.pc
    BY <1>2, PutRegister DEF SamePipe
  <1>s. compares => written.spsr = m.spsr
    <2>1. m.spsr = stepped.spsr
      BY <1>m DEF stepped, Advance, Machine
    <2>2. stepped.spsr = read.spsr
      BY <1>1 DEF read, Holds, Machine
    <2> QED
      BY <2>1, <2>2
  <1> HIDE DEF written
  <1>5. Holds(restored)
    BY <1>3, Restored
  <1>6. ~jumps => /\ SamePipe(m, restored) /\ restored.after = m.after
                  /\ restored.fetch = "seq" /\ restored.pc = stepped.pc
    <2>1. CASE dest = 15 /\ set
      <3> SUFFICES ASSUME ~jumps
                   PROVE  /\ SamePipe(m, restored) /\ restored.after = m.after
                          /\ restored.fetch = "seq" /\ restored.pc = stepped.pc
        OBVIOUS
      <3>1. compares
        BY <2>1
      <3>2. restored = RestoreCpsr(written)
        BY <2>1
      <3>3. InExceptionMode(written) = InExceptionMode(m)
        BY <1>3 DEF InExceptionMode
      <3>4. RestoreCpsr(written).cpsr.t = m.cpsr.t
        BY <1>3, <1>s, <2>1, <3>1, <3>3, Restored
      <3> HIDE DEF restored
      <3> QED
        BY <1>3, <1>4, <3>2, <3>4, Restored DEF SamePipe
    <2>2. CASE ~(dest = 15 /\ set)
      BY <2>2, <1>4
    <2> QED
      BY <2>1, <2>2
  <1>7. restored.cpsr.t \in BOOLEAN
    BY <1>5, Fields DEF Holds
  <1>d. data_processing(m, shift_by_reg, set, compares, dest, v)
          = IF jumps THEN pipeline_flush(restored, restored.cpsr.t)
            ELSE IF shift_by_reg THEN restored ELSE Advance(restored)
    BY DEF data_processing, restored, written, read, stepped
  <1> HIDE DEF restored
  <1>8. CASE jumps
    BY <1>8, <1>5, <1>7, <1>d, Flushes
  <1>9. CASE ~jumps /\ shift_by_reg
    BY <1>9, <1>1, <1>5, <1>6, <1>d, StepsOn
  <1>10. CASE ~jumps /\ ~shift_by_reg
    <2>1. /\ Holds(Advance(restored)) /\ SamePipe(m, Advance(restored))
          /\ Advance(restored).pc = Wrap(m.pc + Width(m.cpsr.t)) /\ Advance(restored).after = m.after
      BY <1>10, <1>1, <1>5, <1>6, Advances DEF SamePipe
    <2> QED
      BY <1>10, <2>1, <1>d, StepsOn
  <1> QED
    BY <1>8, <1>9, <1>10

(* The status registers. *)
LEMMA PutSpsr ==
    ASSUME NEW m, Holds(m), NEW bank \in Bank \ {"none"}, NEW psr \in Psr, NEW owed \in Stopped,
           owed = IF bank = "irq" THEN Nothing ELSE m.owed,
           NEW saved, saved = [m EXCEPT !.spsr[bank] = psr, !.owed = owed]
    PROVE  /\ Holds(saved) /\ SamePipe(m, saved) /\ saved.pc = m.pc /\ saved.cpsr = m.cpsr
           /\ saved.fetch = m.fetch /\ saved.after = m.after
  <1> DEFINE spsr == [m.spsr EXCEPT ![bank] = psr]
             r == [m EXCEPT !.spsr = spsr, !.owed = owed]
  <1>m. m \in Machine /\ Returns(m.lr, m.spsr, m.owed)
    BY DEF Holds
  <1>1. spsr \in [Bank \ {"none"} -> Psr]
    BY <1>m, Fields
  <1>2. bank # "irq" => spsr["irq"] = m.spsr["irq"]
    BY <1>m, Fields DEF Bank
  <1>3. Returns(m.lr, spsr, owed)
    BY <1>m, <1>2 DEF Returns
  <1>4. [m EXCEPT !.spsr[bank] = psr, !.owed = owed] = r
    BY <1>m DEF Machine
  <1> HIDE DEF spsr
  <1>5. r \in Machine
    BY <1>m, <1>1 DEF Machine
  <1>6. /\ r.lr = m.lr /\ r.spsr = spsr /\ r.owed = owed /\ SamePipe(m, r) /\ r.pc = m.pc
        /\ r.cpsr = m.cpsr /\ r.fetch = m.fetch /\ r.after = m.after
    BY <1>m DEF Machine, SamePipe
  <1> HIDE DEF r
  <1>7. Holds(r)
    BY <1>3, <1>5, <1>6 DEF Holds
  <1> QED
    BY <1>4, <1>6, <1>7

(* The machine after MSR of the saved status register. *)
StatusWritten(m, src) ==
    LET psr == [m.spsr[m.cpsr.mode] EXCEPT !.mode = src.mode, !.i = src.i]
        owed == IF m.cpsr.mode = "irq" THEN Nothing ELSE m.owed
    IN  [m EXCEPT !.spsr[m.cpsr.mode] = psr, !.owed = owed]

(* It is typed, and owes no return in irq mode. *)
LEMMA StatusSaved ==
    ASSUME NEW m, Holds(m), InExceptionMode(m),
           NEW src, src.mode \in {"usr", "sys", "svc", "irq", "und"}, src.i \in BOOLEAN
    PROVE  LET r == StatusWritten(m, src)
           IN  Holds(r) /\ SamePipe(m, r) /\ r.pc = m.pc /\ r.after = m.after
  <1> DEFINE bank == m.cpsr.mode
             psr == [m.spsr[bank] EXCEPT !.mode = src.mode, !.i = src.i]
             owed == IF bank = "irq" THEN Nothing ELSE m.owed
             r == [m EXCEPT !.spsr[bank] = psr, !.owed = owed]
  <1>m. m \in Machine
    BY DEF Holds
  <1>1. bank \in Bank \ {"none"}
    BY <1>m, Fields DEF InExceptionMode, Bank
  <1>2. m.spsr[bank] \in Psr
    BY <1>m, <1>1, Fields
  <1>3. psr \in Psr /\ owed \in Stopped
    BY <1>m, <1>2, Fields, NothingStopped DEF Psr
  <1>4. Holds(r) /\ SamePipe(m, r) /\ r.pc = m.pc /\ r.after = m.after
    <2> HIDE DEF psr
    <2>1. owed = IF bank = "irq" THEN Nothing ELSE m.owed
      OBVIOUS
    <2> HIDE DEF owed, bank
    <2>2. r = [m EXCEPT !.spsr[bank] = psr, !.owed = owed]
      OBVIOUS
    <2> HIDE DEF r
    <2>3. Holds(r)
      BY <1>1, <1>3, <2>1, <2>2, PutSpsr
    <2>4. SamePipe(m, r)
      BY <1>1, <1>3, <2>1, <2>2, PutSpsr
    <2>5. r.pc = m.pc
      BY <1>m, <2>2 DEF Machine
    <2>6. r.after = m.after
      BY <1>m, <2>2 DEF Machine
    <2> QED
      BY <2>3, <2>4, <2>5, <2>6
  <1>5. StatusWritten(m, src) = r
    BY DEF StatusWritten
  <1> HIDE DEF r
  <1> QED
    BY <1>4, <1>5

(* MSR and MRS. *)
LEMMA PsrTransfer ==
    ASSUME NEW m, Ready(m), NEW use_spsr \in BOOLEAN, NEW control \in BOOLEAN,
           NEW src, src.mode \in {"usr", "sys", "svc", "irq", "und"}, src.i \in BOOLEAN
    PROVE  Between(psr_transfer(m, use_spsr, control, src))
  <1> DEFINE masked == control /\ (use_spsr \/ m.cpsr.mode # "usr")
             switched == IF src.low THEN SwitchMode(m, src.mode) ELSE m
             set == [switched EXCEPT !.cpsr.mode = src.mode, !.cpsr.i = src.i]
             saved == StatusWritten(m, src)
             r == IF ~use_spsr THEN IF masked THEN set ELSE switched
                  ELSE IF masked /\ InExceptionMode(m) THEN saved ELSE m
  <1>m. Holds(m) /\ m \in Machine /\ m.pc \in Addr
    BY ReadyKept, Fields
  <1>1. /\ Holds(switched) /\ SamePipe(m, switched) /\ switched.pc = m.pc /\ switched.after = m.after
    BY <1>m, PutMode, SameItself
  <1>2. /\ Holds(set) /\ SamePipe(m, set) /\ set.pc = m.pc /\ set.after = m.after
    <2> HIDE DEF switched
    <2> DEFINE status == [switched.cpsr EXCEPT !.mode = src.mode, !.i = src.i]
    <2>1. switched \in Machine
      BY <1>1 DEF Holds
    <2>2. status \in Psr /\ status.t = switched.cpsr.t
      BY <2>1, Fields DEF Psr
    <2>3. set = [switched EXCEPT !.cpsr = status]
      BY <2>1 DEF Machine
    <2> HIDE DEF status, set
    <2> QED
      BY <1>1, <2>2, <2>3, PutCpsr DEF SamePipe
  <1>3. InExceptionMode(m) => Holds(saved) /\ SamePipe(m, saved) /\ saved.pc = m.pc /\ saved.after = m.after
    BY <1>m, StatusSaved
  <1>4. Holds(r) /\ SamePipe(m, r) /\ r.pc = m.pc /\ r.after = m.after
    <2> HIDE DEF switched, set, saved
    <2> QED
      BY <1>m, <1>1, <1>2, <1>3, SameItself
  <1>5. psr_transfer(m, use_spsr, control, src) = Sequential(r)
    <2>1. [m EXCEPT !.spsr[m.cpsr.mode] = [@ EXCEPT !.mode = src.mode, !.i = src.i],
                    !.owed = IF m.cpsr.mode = "irq" THEN Nothing ELSE @] = saved
      BY DEF StatusWritten
    <2> HIDE DEF saved
    <2> QED
      BY <2>1 DEF psr_transfer
  <1> HIDE DEF r
  <1>6. /\ Holds(Sequential(r)) /\ SamePipe(m, Sequential(r)) /\ Sequential(r).after = m.after
        /\ Sequential(r).pc = Wrap(m.pc + Width(m.cpsr.t))
    BY <1>4, GoesOn DEF SamePipe
  <1> QED
    BY <1>5, <1>6, StepsOn

(* Multiplications, whose fetch is never sequential. *)
LEMMA Multiply ==
    ASSUME NEW m, Ready(m), NEW rd \in {0, 14}, NEW v \in Addr
    PROVE  Between(multiply(m, rd, v)) /\ Between(multiply_long(m, 0, rd, 0, v))
  <1>1. Passed(m, NonSequential(m))
    BY ReadyKept, PassesAccess, SameItself
  <1>2. Passed(m, SetRegister(NonSequential(m), 0, 0))
    BY <1>1, PassesRegister, Spaced DEF Addr
  <1> QED
    BY <1>1, <1>2, PassesRegister, PassedOn DEF multiply, multiply_long

(* SWP. *)
LEMMA Swap ==
    ASSUME NEW m, Ready(m), NEW rd \in {0, 14}, NEW data \in Addr
    PROVE  Between(single_data_swap(m, rd, data))
  BY ReadyKept, PassesAccess, SameItself, PassesRegister, PassedOn DEF single_data_swap

(* What a load that may reach the program counter makes of a machine that has
   stepped on. *)
LoadedFrom(n, load, writeback, rn, rd, base, data) ==
    LET based == IF writeback THEN SetRegister(n, rn, base) ELSE n
        loaded == IF load THEN SetRegister(based, rd, data) ELSE based
    IN  IF load /\ rd = 15 THEN pipeline_flush(loaded, FALSE) ELSE loaded

(* It leaves it in step. *)
LEMMA Loaded ==
    ASSUME NEW m, Ready(m), ~m.cpsr.t, NEW n, Passed(m, n), NEW load \in BOOLEAN, NEW writeback \in BOOLEAN,
           NEW rn \in {0, 14}, NEW rd \in {0, 14, 15}, NEW base \in Addr, NEW data \in Addr
    PROVE  Between(LoadedFrom(n, load, writeback, rn, rd, base, data))
  <1> DEFINE based == IF writeback THEN SetRegister(n, rn, base) ELSE n
             loaded == IF load THEN SetRegister(based, rd, data) ELSE based
  <1>1. Passed(m, based)
    BY PassesRegister
  <1>d. LoadedFrom(n, load, writeback, rn, rd, base, data)
          = IF load /\ rd = 15 THEN pipeline_flush(loaded, FALSE) ELSE loaded
    BY DEF LoadedFrom
  <1> HIDE DEF based
  <1>2. CASE load /\ rd = 15
    <2>1. loaded = SetRegister(based, 15, data)
      BY <1>2
    <2>2. Holds(loaded) /\ loaded.cpsr = based.cpsr
      BY <1>1, <2>1, PutPcRegister DEF Passed
    <2>3. loaded.cpsr.t = FALSE
      BY <1>1, <2>2, ReadyKept, Fields DEF Passed, SamePipe
    <2> HIDE DEF loaded
    <2>4. Between(pipeline_flush(loaded, FALSE))
      BY <2>2, <2>3, Flushes
    <2> QED
      BY <1>2, <1>d, <2>4
  <1>3. CASE ~(load /\ rd = 15)
    <2>1. Passed(m, loaded)
      BY <1>1, <1>3, PassesRegister
    <2> HIDE DEF loaded
    <2> QED
      BY <1>3, <1>d, <2>1, PassedOn
  <1> QED
    BY <1>2, <1>3

(* LDR, STR and their halfword forms. *)
LEMMA Transfer ==
    ASSUME NEW m, Ready(m), ~m.cpsr.t, NEW load \in BOOLEAN, NEW double \in BOOLEAN, NEW writeback \in BOOLEAN,
           NEW rn \in {0, 14}, NEW rd \in {0, 14, 15}, NEW base \in Addr, NEW data \in Addr
    PROVE  /\ Between(single_data_transfer(m, load, writeback, rn, rd, base, data))
           /\ Between(halfword_data_transfer(m, load, double, writeback, rn, rd, base, data))
  <1>1. Passed(m, NonSequential(m)) /\ Passed(m, DataAccess(NonSequential(m)))
    BY ReadyKept, PassesAccess, SameItself
  <1>2. Between(single_data_transfer(m, load, writeback, rn, rd, base, data))
    <2>1. single_data_transfer(m, load, writeback, rn, rd, base, data)
            = LoadedFrom(DataAccess(NonSequential(m)), load, writeback, rn, rd, base, data)
      BY DEF single_data_transfer, LoadedFrom
    <2> QED
      BY <1>1, <2>1, Loaded
  <1>3. Between(halfword_data_transfer(m, load, double, writeback, rn, rd, base, data))
    <2> DEFINE n == IF double THEN NonSequential(m) ELSE DataAccess(NonSequential(m))
    <2>1. halfword_data_transfer(m, load, double, writeback, rn, rd, base, data)
            = LoadedFrom(n, load, writeback, rn, rd, base, data)
      BY DEF halfword_data_transfer, LoadedFrom
    <2>2. Passed(m, n)
      BY <1>1
    <2> HIDE DEF n
    <2> QED
      BY <2>1, <2>2, Loaded
  <1> QED
    BY <1>2, <1>3

(* LDM and STM, with the user bank, the status register and an empty list. *)
LEMMA BlockTransfer ==
    ASSUME NEW m, Ready(m), ~m.cpsr.t, NEW load \in BOOLEAN, NEW psr \in BOOLEAN, NEW writeback \in BOOLEAN,
           NEW rn \in {0, 14}, NEW list \in SUBSET LinkRegs, NEW base \in Addr, NEW data \in Addr
    PROVE  Between(block_data_transfer(m, load, psr, writeback, rn, list, base, data))
  <1> DEFINE regs == IF list = {} THEN {15} ELSE list
             jumps == load /\ 15 \in regs
             user == psr /\ (~load \/ ~(15 \in regs))
             here == IF user THEN SwitchMode(m, "usr") ELSE m
             inner == DataAccess(NonSequential(here))
             based == IF writeback THEN SetRegister(inner, rn, base) ELSE inner
             linked == IF load /\ 14 \in regs THEN SetRegister(based, 14, data) ELSE based
             jumped == IF jumps THEN SetRegister(linked, 15, data) ELSE linked
             restored == IF jumps /\ psr THEN RestoreCpsr(jumped) ELSE jumped
             flushed == IF jumps THEN pipeline_flush(restored, restored.cpsr.t) ELSE restored
  <1>m. Holds(m) /\ m \in Machine /\ m.cpsr.mode \in {"usr", "sys", "svc", "irq", "und"}
    BY ReadyKept, Fields
  <1>1. Holds(here) /\ SamePipe(m, here) /\ here.pc = m.pc
    BY <1>m, PutMode, SameItself
  <1> HIDE DEF here
  <1>2. Passed(m, inner)
    BY <1>m, <1>1, PassesAccess
  <1> HIDE DEF inner
  <1>3. Passed(m, based)
    BY <1>2, PassesRegister
  <1> HIDE DEF based
  <1>4. Passed(m, linked)
    BY <1>3, PassesRegister
  <1> HIDE DEF linked
  <1>d. block_data_transfer(m, load, psr, writeback, rn, list, base, data)
          = IF user THEN SwitchMode(flushed, m.cpsr.mode) ELSE flushed
    BY Zenon DEF block_data_transfer, linked, based, inner, here
  <1>5. CASE jumps
    <2>1. Holds(jumped)
      BY <1>4, <1>5, PutPcRegister DEF Passed
    <2> HIDE DEF jumped
    <2>2. Holds(restored)
      BY <2>1, Restored
    <2> HIDE DEF restored
    <2>3. restored.cpsr.t \in BOOLEAN
      BY <2>2, Fields DEF Holds
    <2>4. Between(flushed)
      BY <1>5, <2>2, <2>3, Flushes
    <2> QED
      BY <1>5, <1>d, <2>4
  <1>6. CASE ~jumps
    <2>1. flushed = linked
      BY <1>6
    <2> HIDE DEF flushed
    <2> QED
      BY <1>4, <1>d, <1>m, <2>1, PassesMode, PassedOn
  <1> QED
    BY <1>5, <1>6

(* The entry into an exception, up to the flush. *)
LEMMA PsrEqual ==
    ASSUME NEW a \in Psr, NEW b \in Psr, a.mode = b.mode, a.t = b.t, a.i = b.i
    PROVE  a = b
  BY DEF Psr

(* A status register with interrupts off, in ARM state. *)
LEMMA PsrMasked ==
    ASSUME NEW c \in Psr
    PROVE  [c EXCEPT !.i = TRUE, !.t = FALSE] = [mode |-> c.mode, t |-> FALSE, i |-> TRUE]
  <1> DEFINE d == [c EXCEPT !.i = TRUE, !.t = FALSE]
             e == [mode |-> c.mode, t |-> FALSE, i |-> TRUE]
  <1>1. d \in Psr /\ d.mode = c.mode /\ d.t = FALSE /\ d.i = TRUE
    BY DEF Psr
  <1>2. e \in Psr /\ e.mode = c.mode /\ e.t = FALSE /\ e.i = TRUE
    BY DEF Psr
  <1> HIDE DEF d, e
  <1>3. d = e
    BY <1>1, <1>2, PsrEqual
  <1> QED
    BY <1>3 DEF d, e

(* The machine in an exception, before r14 is written. *)
Entry(m, bank) ==
    [SwitchMode(m, bank) EXCEPT !.spsr[bank] = m.cpsr, !.cpsr.i = TRUE, !.cpsr.t = FALSE]

(* The fields of the machine in an exception. *)
LEMMA Enters ==
    ASSUME NEW m, Holds(m), NEW bank \in {"svc", "irq", "und"}
    PROVE  LET r == Entry(m, bank)
           IN  /\ r \in Machine /\ r.pc = m.pc /\ r.cpsr.t = FALSE /\ r.cpsr.mode = bank
               /\ r.lr = m.lr /\ r.spsr[bank] = m.cpsr /\ r.owed = m.owed
               /\ bank # "irq" => r.spsr["irq"] = m.spsr["irq"]
  <1> DEFINE psr == [mode |-> bank, t |-> FALSE, i |-> TRUE]
             spsr == [m.spsr EXCEPT ![bank] = m.cpsr]
             r == [m EXCEPT !.spsr = spsr, !.cpsr = psr]
  <1>m. m \in Machine
    BY DEF Holds
  <1>1. psr \in Psr
    BY DEF Psr
  <1>2. spsr \in [Bank \ {"none"} -> Psr]
    BY <1>m, Fields DEF Bank
  <1>3. Entry(m, bank) = r
    <2> DEFINE c == [m.cpsr EXCEPT !.mode = bank]
               d == [c EXCEPT !.i = TRUE, !.t = FALSE]
               n == [m EXCEPT !.cpsr = c]
    <2>1. c \in Psr /\ c.mode = bank
      BY <1>m, Fields DEF Psr
    <2>2. SwitchMode(m, bank) = n
      BY DEF SwitchMode
    <2> HIDE DEF c
    <2>3. d = psr
      BY <2>1, PsrMasked
    <2>4. n.spsr = m.spsr /\ n.cpsr = c
      BY <1>m DEF Machine
    <2>5. Entry(m, bank) = [n EXCEPT !.spsr = spsr, !.cpsr = d]
      <3> HIDE DEF n
      <3>1. [n EXCEPT !.spsr[bank] = m.cpsr, !.cpsr.i = TRUE, !.cpsr.t = FALSE]
              = [n EXCEPT !.spsr = spsr, !.cpsr = d]
        BY <2>4
      <3> QED
        BY <2>2, <3>1 DEF Entry
    <2> HIDE DEF spsr, psr, d
    <2>6. [n EXCEPT !.spsr = spsr, !.cpsr = psr] = r
      BY <1>m DEF Machine
    <2> QED
      BY <2>3, <2>5, <2>6
  <1>s. spsr[bank] = m.cpsr /\ (bank # "irq" => spsr["irq"] = m.spsr["irq"])
    BY <1>m, Fields DEF Bank
  <1> HIDE DEF spsr
  <1>4. psr.t = FALSE /\ psr.mode = bank
    OBVIOUS
  <1> HIDE DEF psr
  <1>5. r \in Machine
    BY <1>m, <1>1, <1>2 DEF Machine
  <1>6. r.pc = m.pc /\ r.cpsr = psr /\ r.lr = m.lr /\ r.spsr = spsr /\ r.owed = m.owed
    BY <1>m DEF Machine
  <1> HIDE DEF r
  <1> QED
    BY <1>s, <1>3, <1>4, <1>5, <1>6

(* SWI and undefined instructions. *)
LEMMA Excepts ==
    ASSUME NEW m, Holds(m), NEW bank \in {"svc", "und"}, NEW vector \in {4, 8}, NEW ret \in Addr
    PROVE  Between(Exception(m, bank, vector, ret))
  <1> DEFINE entry == Entry(m, bank)
             linked == SetLr(entry, ret)
  <1>m. m \in Machine /\ Returns(m.lr, m.spsr, m.owed)
    BY DEF Holds
  <1>1. /\ entry \in Machine /\ entry.cpsr.t = FALSE /\ entry.lr = m.lr
        /\ entry.owed = m.owed /\ entry.spsr["irq"] = m.spsr["irq"]
    <2>1. bank \in {"svc", "irq", "und"} /\ bank # "irq"
      OBVIOUS
    <2>2. entry \in Machine /\ entry.cpsr.t = FALSE /\ entry.lr = m.lr
      BY <2>1, Enters
    <2>3. entry.owed = m.owed
      BY <2>1, Enters
    <2>4. entry.spsr["irq"] = m.spsr["irq"]
      BY <2>1, Enters
    <2> QED
      BY <2>2, <2>3, <2>4
  <1>5. Exception(m, bank, vector, ret) = pipeline_flush([linked EXCEPT !.pc = vector], FALSE)
    BY DEF Exception, Entry
  <1> HIDE DEF entry
  <1>3. Holds(entry)
    BY <1>m, <1>1 DEF Holds, Returns
  <1>4. Holds(linked) /\ linked.cpsr = entry.cpsr
    BY <1>3, PutLr
  <1> HIDE DEF linked
  <1>6. vector \in Addr /\ linked.cpsr.t = FALSE
    BY <1>1, <1>4, Spaced DEF Addr
  <1> QED
    BY <1>4, <1>5, <1>6, FlushesTo

(* The three instructions that enter one. *)
LEMMA Swis ==
    ASSUME NEW m, Ready(m)
    PROVE  Between(swi_arm(m)) /\ Between(undefined(m)) /\ Between(swi_thumb(m))
  <1>1. Wrap(m.pc - 4) \in Addr /\ Wrap(m.pc - 2) \in Addr /\ Holds(m)
    BY ReadyKept, Fields, WrapsIn
  <1> QED
    BY <1>1, Excepts DEF swi_arm, undefined, swi_thumb

----------------------------------------------------------------------------
(* The Thumb handlers keep the pipeline in step. *)
LEMMA Continues ==
    ASSUME NEW m, Ready(m), NEW n, Holds(n), SamePipe(m, n), n.pc = m.pc, n.after = m.after
    PROVE  Between(Sequential(n)) /\ Between(NonSequential(n))
  <1>1. /\ Holds(Sequential(n)) /\ SamePipe(m, Sequential(n)) /\ Sequential(n).after = m.after
        /\ Sequential(n).pc = Wrap(m.pc + Width(m.cpsr.t))
    BY GoesOn DEF SamePipe
  <1>2. /\ Holds(NonSequential(n)) /\ SamePipe(m, NonSequential(n)) /\ NonSequential(n).after = m.after
        /\ NonSequential(n).pc = Wrap(m.pc + Width(m.cpsr.t))
    BY GoesOnApart DEF SamePipe
  <1> QED
    BY <1>1, <1>2, StepsOn

(* An operation of the ALU. *)
LEMMA AluOperation ==
    ASSUME NEW m, Ready(m), NEW idles \in BOOLEAN
    PROVE  Between(alu(m, idles)) /\ Between(Sequential(m))
  BY ReadyKept, SameItself, Continues DEF alu

(* ADD, MOV, CMP of high registers, and BX. *)
LEMMA HighRegisters ==
    ASSUME NEW m, Ready(m), m.cpsr.t, NEW op \in {"add", "mov", "cmp", "bx"},
           NEW rd \in {0, 14, 15}, NEW rs \in Addr
    PROVE  Between(hireg_bx(m, op, rd, rs))
  <1>m. Holds(m) /\ m \in Machine /\ m.cpsr.t = TRUE
    BY ReadyKept, Fields
  <1>a. AlignTo(rs, 2) \in Addr /\ AlignTo(rs, 4) \in Addr /\ (rs % 2 = 1 => rs - 1 \in Addr)
    BY OddBefore
  <1>1. CASE op \in {"add", "mov"}
    <2>1. CASE rd = 15
      <3>1. hireg_bx(m, op, rd, rs) = pipeline_flush([m EXCEPT !.pc = AlignTo(rs, 2)], TRUE)
        BY <1>1, <2>1 DEF hireg_bx
      <3> QED
        BY <1>m, <1>a, <3>1, FlushesTo
    <2>2. CASE rd # 15
      <3>1. hireg_bx(m, op, rd, rs) = Sequential(SetRegister(m, rd, rs))
        BY <1>1, <2>2 DEF hireg_bx
      <3>2. /\ Holds(SetRegister(m, rd, rs)) /\ SamePipe(m, SetRegister(m, rd, rs))
            /\ SetRegister(m, rd, rs).pc = m.pc /\ SetRegister(m, rd, rs).after = m.after
        BY <1>m, <2>2, PutRegister
      <3> QED
        BY <3>1, <3>2, Continues
    <2> QED
      BY <2>1, <2>2
  <1>2. CASE op = "cmp"
    BY <1>2, AluOperation DEF hireg_bx
  <1>3. CASE op = "bx" /\ rs % 2 = 1
    <2>1. hireg_bx(m, op, rd, rs) = pipeline_flush([m EXCEPT !.pc = rs - 1], TRUE)
      BY <1>3 DEF hireg_bx
    <2> QED
      BY <1>3, <1>m, <1>a, <2>1, FlushesTo
  <1>4. CASE op = "bx" /\ rs % 2 # 1
    <2>1. hireg_bx(m, op, rd, rs)
            = pipeline_flush([m EXCEPT !.cpsr.t = FALSE, !.pc = AlignTo(rs, 4)], FALSE)
      BY <1>4 DEF hireg_bx
    <2> QED
      BY <1>m, <1>a, <2>1, FlushesInto
  <1> QED
    BY <1>1, <1>2, <1>3, <1>4

(* An access to data. *)
LEMMA ThumbAccess ==
    ASSUME NEW m, Ready(m)
    PROVE  Passed(m, DataAccess(NonSequential(m))) /\ Between(DataAccess(NonSequential(m)))
  BY ReadyKept, PassesAccess, SameItself, PassedOn

(* PUSH and POP. *)
LEMMA PushPop ==
    ASSUME NEW m, Ready(m), m.cpsr.t, NEW pop \in BOOLEAN, NEW pc_lr \in BOOLEAN, NEW empty \in BOOLEAN,
           NEW data \in Addr
    PROVE  Between(push_pop(m, pop, pc_lr, empty, data))
  <1> DEFINE n == DataAccess(NonSequential(m))
  <1>m. m.cpsr.t = TRUE
    BY ReadyKept, Fields
  <1>1. Between(n) /\ Holds(n) /\ n.cpsr.t = TRUE
    BY <1>m, ThumbAccess DEF Passed, SamePipe
  <1>2. push_pop(m, pop, pc_lr, empty, data)
          = CASE empty /\ ~pc_lr /\ pop -> pipeline_flush([n EXCEPT !.pc = data], TRUE)
              [] empty /\ ~pc_lr /\ ~pop -> Sequential(m)
              [] pop /\ pc_lr -> pipeline_flush([n EXCEPT !.pc = AlignTo(data, 2)], TRUE)
              [] OTHER -> n
    BY DEF push_pop
  <1> HIDE DEF n
  <1>3. /\ Between(pipeline_flush([n EXCEPT !.pc = data], TRUE))
        /\ Between(pipeline_flush([n EXCEPT !.pc = AlignTo(data, 2)], TRUE))
    BY <1>1, FlushesTo, OddBefore
  <1> QED
    BY <1>1, <1>2, <1>3, AluOperation

(* LDM and STM of Thumb, and the empty list that moves pc twice. *)
LEMMA Multiple ==
    ASSUME NEW m, Ready(m), m.cpsr.t, NEW load \in BOOLEAN, NEW empty \in BOOLEAN, NEW data \in Addr
    PROVE  Between(ld_str_multiple(m, load, empty, data))
  <1> DEFINE n == DataAccess(NonSequential(m))
             o == DataAccess(Advance(Sequential(m)))
             skipped == [o EXCEPT !.skewed = 2]
  <1>m. m.cpsr.t = TRUE
    BY ReadyKept, Fields
  <1>1. Between(n) /\ Holds(n) /\ n.cpsr.t = TRUE
    BY <1>m, ThumbAccess DEF Passed, SamePipe
  <1>2. Holds(o)
    BY ReadyKept, GoesOn, Advances, Accesses
  <1>3. ld_str_multiple(m, load, empty, data)
          = CASE empty /\ load -> pipeline_flush([n EXCEPT !.pc = data], TRUE)
              [] empty /\ ~load -> skipped
              [] OTHER -> n
    BY DEF ld_str_multiple
  <1> HIDE DEF n, o
  <1>4. Between(pipeline_flush([n EXCEPT !.pc = data], TRUE))
    BY <1>1, FlushesTo
  <1>5. Between(skipped)
    <2>1. Holds(skipped) /\ skipped.skewed = 2
      BY <1>2 DEF Holds, Machine
    <2> HIDE DEF skipped
    <2> QED
      BY <2>1 DEF Between, Piped, Announced
  <1> HIDE DEF skipped
  <1> QED
    BY <1>1, <1>3, <1>4, <1>5

(* Branches, taken or not. *)
LEMMA Branches ==
    ASSUME NEW m, Ready(m), m.cpsr.t, NEW d \in Int, NEW met \in BOOLEAN
    PROVE  Between(branch_cond(m, met, d)) /\ Between(branch(m, d))
  <1>1. Wrap(m.pc + d) \in Addr /\ Holds(m) /\ m.cpsr.t = TRUE
    BY ReadyKept, Fields, WrapsIn
  <1>2. Between(pipeline_flush([m EXCEPT !.pc = Wrap(m.pc + d)], TRUE))
    BY <1>1, FlushesTo
  <1> QED
    BY <1>2, AluOperation DEF branch_cond, branch

(* BL, in two halves. *)
LEMMA LongBranch ==
    ASSUME NEW m, Ready(m), m.cpsr.t, NEW second \in BOOLEAN, NEW d \in Int
    PROVE  Between(long_branch_link(m, second, d))
  <1> DEFINE next == Wrap(m.pc - 2)
             link == next + 1 - (next % 2)
             to == AlignTo(Wrap(Lr(m) + d), 2)
  <1>m. Holds(m) /\ m \in Machine /\ m.cpsr.t = TRUE /\ m.pc \in Addr /\ Lr(m) \in Addr
    BY ReadyKept, Fields, LrIn
  <1>1. next \in Addr /\ Wrap(m.pc + d) \in Addr /\ Wrap(Lr(m) + d) \in Addr
    BY <1>m, WrapsIn
  <1>2. link \in Addr
    <2> HIDE DEF next
    <2> QED
      BY <1>1, Spaced DEF Addr
  <1>3. to \in Addr
    BY <1>1, OddBefore
  <1>4. long_branch_link(m, second, d)
          = IF second THEN pipeline_flush([SetLr(m, link) EXCEPT !.pc = to], TRUE)
            ELSE Sequential(SetLr(m, Wrap(m.pc + d)))
    BY DEF long_branch_link
  <1> HIDE DEF link, to
  <1>5. Holds(SetLr(m, link)) /\ SetLr(m, link).cpsr = m.cpsr
    BY <1>m, <1>2, PutLr
  <1>6. Between(pipeline_flush([SetLr(m, link) EXCEPT !.pc = to], TRUE))
    BY <1>m, <1>3, <1>5, FlushesTo
  <1>7. /\ Holds(SetLr(m, Wrap(m.pc + d))) /\ SamePipe(m, SetLr(m, Wrap(m.pc + d)))
        /\ SetLr(m, Wrap(m.pc + d)).pc = m.pc /\ SetLr(m, Wrap(m.pc + d)).after = m.after
    BY <1>m, <1>1, PutLr
  <1>8. Between(Sequential(SetLr(m, Wrap(m.pc + d))))
    BY <1>7, Continues
  <1> QED
    BY <1>4, <1>6, <1>8

----------------------------------------------------------------------------
(* An interrupt between two instructions leaves the pipeline in step, and
   notes where SUBS pc, lr, #4 has to come back to. *)
LEMMA Interrupts ==
    ASSUME NEW m, Between(m), m.executing # NV
    PROVE  Between(process_interrupts(m))
  <1> DEFINE entry == Entry(m, "irq")
             link == IF m.cpsr.t THEN m.pc ELSE Wrap(m.pc - 4)
             linked == SetLr(entry, link)
             stopped == [executing |-> m.executing, cpsr |-> m.cpsr]
             owed == IF m.skewed = 0 THEN stopped ELSE Nothing
             noted == [linked EXCEPT !.pc = 24, !.owed = owed]
             size == Width(m.cpsr.t)
  <1>m. Holds(m) /\ m \in Machine /\ m.pc \in Addr /\ size \in {2, 4}
    BY Fields DEF Between, Holds
  <1>1. /\ entry \in Machine /\ entry.cpsr.t = FALSE /\ entry.cpsr.mode = "irq"
    BY <1>m, Enters
  <1>2. entry.lr = m.lr /\ entry.spsr["irq"] = m.cpsr
    BY <1>m, Enters
  <1>d. process_interrupts(m) = IF m.cpsr.i THEN m ELSE pipeline_flush(noted, FALSE)
    BY Zenon DEF process_interrupts, Entry
  <1>3. link \in Addr
    BY <1>m, WrapsIn
  <1>4. m.skewed = 0 => AlignTo(Wrap(link - 4), size) = Wrap(AlignTo(m.pc, size) - 2 * size)
    <2>1. CASE m.cpsr.t
      BY <1>m, <2>1, BackFromThumb DEF Width
    <2>2. CASE ~m.cpsr.t
      BY <1>m, <2>2, BackFromArm DEF Width
    <2> QED
      BY <2>1, <2>2
  <1>5. m.skewed = 0 => m.executing = <<AlignTo(Wrap(link - 4), size), size>>
    <2>1. m.skewed = 0 => m.executing = <<Wrap(AlignTo(m.pc, size) - 2 * size), size>>
      BY DEF Between, Piped
    <2> HIDE DEF size, link
    <2> QED
      BY <1>4, <2>1
  <1>6. stopped \in Stopped /\ stopped.executing = m.executing /\ stopped.cpsr = m.cpsr
    BY <1>m, Fields DEF Stopped
  <1> HIDE DEF stopped
  <1>7. owed \in Stopped
    BY <1>6, NothingStopped
  <1>8. /\ linked \in Machine /\ linked.cpsr.t = FALSE
        /\ linked.lr["irq"] = link /\ linked.spsr["irq"] = m.cpsr
    <2>1. linked = [entry EXCEPT !.lr["irq"] = link, !.owed = Nothing]
      <3> HIDE DEF entry, link
      <3> QED
        BY <1>1 DEF SetLr, BankOf
    <2> DEFINE lr == [entry.lr EXCEPT !["irq"] = link]
    <2>2. lr \in [Bank -> Addr] /\ lr["irq"] = link
      BY <1>1, <1>3, Fields DEF Bank
    <2> HIDE DEF entry, link
    <2>3. linked = [entry EXCEPT !.lr = lr, !.owed = Nothing]
      BY <1>1, <2>1 DEF Machine
    <2> HIDE DEF lr, linked
    <2>4. linked \in Machine
      BY <1>1, <2>2, <2>3, NothingStopped DEF Machine
    <2>5. linked.cpsr = entry.cpsr /\ linked.lr = lr /\ linked.spsr = entry.spsr
      BY <1>1, <2>3 DEF Machine
    <2> QED
      BY <1>1, <1>2, <2>2, <2>4, <2>5
  <1> HIDE DEF linked, owed
  <1>9. 24 \in Addr
    BY Spaced DEF Addr
  <1>10. /\ noted \in Machine /\ noted.cpsr = linked.cpsr /\ noted.lr = linked.lr
         /\ noted.spsr = linked.spsr /\ noted.owed = owed
    BY <1>7, <1>8, <1>9 DEF Machine
  <1> HIDE DEF noted
  <1>11. Returns(noted.lr, noted.spsr, noted.owed)
    <2> SUFFICES ASSUME owed # Nothing
                 PROVE  /\ noted.spsr["irq"] = owed.cpsr
                        /\ owed.executing = <<AlignTo(Wrap(noted.lr["irq"] - 4), Width(owed.cpsr.t)),
                                              Width(owed.cpsr.t)>>
      BY <1>10 DEF Returns
    <2>1. m.skewed = 0 /\ owed = stopped
      BY DEF owed
    <2>2. owed.executing = m.executing /\ owed.cpsr = m.cpsr
      BY <1>6, <2>1
    <2> QED
      BY <1>5, <1>8, <1>10, <2>1, <2>2
  <1>12. Between(pipeline_flush(noted, FALSE))
    BY <1>8, <1>10, <1>11, Flushes DEF Holds
  <1> QED
    BY <1>d, <1>12

(* execute_instruction reads an opcode before it calls the handler. *)
LEMMA Fetches ==
    ASSUME NEW m, Between(m)
    PROVE  Ready(Fetched(m))
  <1> DEFINE size == Width(m.cpsr.t)
             pc == AlignTo(m.pc, size)
             skewed == IF m.skewed = 0 THEN 0 ELSE m.skewed - 1
             after == Wrap(pc + size)
             decoding == <<pc, size>>
             r == [m EXCEPT !.pc = pc, !.executing = m.decoding, !.decoding = decoding,
                            !.after = after, !.skewed = skewed]
  <1>m. m \in Machine /\ m.pc \in Addr /\ size \in {2, 4} /\ Returns(m.lr, m.spsr, m.owed)
    BY Fields DEF Between, Holds
  <1>1. pc \in Addr /\ pc % size = 0
    BY <1>m, Aligned
  <1>2. Fetched(m) = r
    BY DEF Fetched
  <1>3. skewed \in 0 .. 2 /\ skewed # 2 /\ (skewed = 0 => m.skewed # 2)
    BY <1>m, Fields
  <1>4. decoding \in Word
    BY <1>m, <1>1 DEF Word
  <1>5. after \in Addr
    BY <1>1, OneOn, <1>m
  <1>6. m.skewed # 2 => m.decoding \in {NV, <<Wrap(pc - size), size>>}
    BY DEF Between, Piped
  <1> DEFINE sizeOf == size
  <1>7. /\ r \in Machine /\ r.pc = pc /\ r.executing = m.decoding /\ r.decoding = decoding
        /\ r.after = after /\ r.skewed = skewed /\ r.cpsr = m.cpsr
        /\ r.lr = m.lr /\ r.spsr = m.spsr /\ r.owed = m.owed
    <2> HIDE DEF pc, skewed, after, decoding
    <2>1. r.pc = pc /\ r.executing = m.decoding /\ r.decoding = decoding
          /\ r.after = after /\ r.skewed = skewed /\ r.cpsr = m.cpsr
          /\ r.lr = m.lr /\ r.spsr = m.spsr /\ r.owed = m.owed
      BY <1>m DEF Machine
    <2> DEFINE n == [m EXCEPT !.pc = pc, !.executing = m.decoding]
               o == [n EXCEPT !.decoding = decoding, !.after = after]
    <2>2. n \in Machine
      BY <1>m, <1>1, Fields DEF Machine
    <2> HIDE DEF n
    <2>3. after \in Addr \union {-1}
      BY <1>5
    <2>4. o \in Machine
      BY <1>4, <2>2, <2>3 DEF Machine
    <2> HIDE DEF o
    <2>5. [o EXCEPT !.skewed = skewed] \in Machine
      BY <1>3, <2>4 DEF Machine
    <2>6. r = [o EXCEPT !.skewed = skewed]
      BY Zenon DEF o, n
    <2> QED
      BY <2>1, <2>5, <2>6, Zenon
  <1> HIDE DEF r
  <1>8. Holds(r)
    BY <1>m, <1>7 DEF Holds
  <1>9. Ready(r)
    <2> HIDE DEF pc, skewed
    <2> QED
      BY <1>1, <1>3, <1>6, <1>7, <1>8 DEF Ready
  <1> QED
    BY <1>2, <1>9

----------------------------------------------------------------------------
(* The inductive invariant: pc, the pipeline, the type of the fetch, and what
   SUBS pc, lr, #4 would go back to. *)
CpuInv ==
    /\ Between(cpu)
    /\ returned \in Stopped /\ steps \in 0 .. MaxSteps
    /\ ResumesWhereInterrupted

(* Whether an interrupt is taken or not, the handler finds the machine ready. *)
LEMMA MachinesReady ==
    ASSUME Between(cpu), NEW run \in Machines
    PROVE  Ready(run.now)
  <1>1. PICK m \in {cpu} \union (IF cpu.executing = NV THEN {} ELSE {process_interrupts(cpu)}) :
            run = [before |-> m, now |-> Fetched(m)]
    BY Zenon DEF Machines
  <1>2. Between(m)
    BY <1>1, Interrupts
  <1> QED
    BY <1>1, <1>2, Fetches

(* Sets that the instructions' operands come from. *)
LEMMA Operands ==
    /\ \A v \in Values : v \in Addr
    /\ \A m \in Machine : \A v \in Values \union {Lr(m)} : v \in Addr
    /\ LinkRegs = {0, 14, 15}
    /\ \A src \in Sources : src.mode \in {"usr", "sys", "svc", "irq", "und"} /\ src.i \in BOOLEAN
    /\ \A d \in Offsets : d \in Int
  <1>1. \A src \in Sources : src.mode \in {"usr", "sys", "svc", "irq", "und"} /\ src.i \in BOOLEAN
    <2> SUFFICES ASSUME NEW src \in Sources
                 PROVE  src.mode \in {"usr", "sys", "svc", "irq", "und"} /\ src.i \in BOOLEAN
      OBVIOUS
    <2>1. CASE src \in [mode : MsrModes, i : BOOLEAN, low : {TRUE}]
      BY <2>1, CpuAssumption
    <2>2. CASE src = [mode |-> "usr", i |-> FALSE, low |-> FALSE]
      BY <2>2
    <2> QED
      BY <2>1, <2>2 DEF Sources
  <1> QED
    BY <1>1, ValuesIn, LrIn, OffsetsIn DEF LinkRegs

(* An instruction that does not end an interrupt. *)
Ends(m) == Between(cpu') /\ returned' = Nothing

(* A handler that leaves the machine in step keeps the invariant. *)
LEMMA RunsEnd == ASSUME NEW m, NEW now, Between(now), Runs(now) PROVE Ends(m)
  BY DEF Runs, Ends

(* Every ARM instruction but the return from an interrupt. *)
LEMMA ArmKept ==
    ASSUME NEW m, Ready(m), ~m.cpsr.t,
           ArmBranches(m) \/ ArmComputes(m) \/ ArmStatus(m) \/ ArmTransfers(m)
    PROVE  Ends(m)
  <1>m. m \in Machine
    BY ReadyKept
  <1>1. CASE ArmBranches(m)
    BY <1>1, Operands, BranchExchange, BranchWithLink, Swis, RunsEnd DEF ArmBranches
  <1>2. CASE ArmComputes(m)
    <2>1. CASE \E by_reg, set, compares \in BOOLEAN, dest \in LinkRegs, v \in Values \union {Lr(m)} :
                  /\ compares /\ dest = 15 /\ InExceptionMode(m) => m.spsr[m.cpsr.mode].t = m.cpsr.t
                  /\ Runs(data_processing(m, by_reg, set, compares, dest, v))
      BY <1>m, <2>1, Operands, Computed, RunsEnd
    <2>2. CASE \E rd \in {0, 14}, v \in Values : Runs(multiply(m, rd, v)) \/ Runs(multiply_long(m, 0, rd, 0, v))
      BY <2>2, Operands, Multiply, RunsEnd
    <2> QED
      BY <1>2, <2>1, <2>2, Zenon DEF ArmComputes
  <1>3. CASE ArmStatus(m)
    <2>1. PICK use_spsr \in BOOLEAN, control \in BOOLEAN, src \in Sources :
              Runs(psr_transfer(m, use_spsr, control, src))
      BY <1>3 DEF ArmStatus
    <2>2. Between(psr_transfer(m, use_spsr, control, src))
      BY Operands, PsrTransfer
    <2> QED
      BY <2>1, <2>2, RunsEnd
  <1>4. CASE ArmTransfers(m)
    <2>1. CASE \E load, writeback, double \in BOOLEAN, rn \in {0, 14}, rd \in LinkRegs, base, data \in Values :
                  \/ Runs(single_data_transfer(m, load, writeback, rn, rd, base, data))
                  \/ (double => ~load) /\ Runs(halfword_data_transfer(m, load, double, writeback, rn, rd, base, data))
      BY <2>1, Operands, Transfer, RunsEnd
    <2>2. CASE \E load, psr, writeback \in BOOLEAN, rn \in {0, 14}, list \in SUBSET LinkRegs, base, data \in Values :
                  Runs(block_data_transfer(m, load, psr, writeback, rn, list, base, data))
      BY <2>2, Operands, BlockTransfer, RunsEnd
    <2>3. CASE \E rd \in {0, 14}, data \in Values : Runs(single_data_swap(m, rd, data))
      BY <2>3, Operands, Swap, RunsEnd
    <2> QED
      BY <1>4, <2>1, <2>2, <2>3, Zenon DEF ArmTransfers
  <1> QED
    BY <1>1, <1>2, <1>3, <1>4

(* Every Thumb instruction. *)
LEMMA ThumbKept ==
    ASSUME NEW m, Ready(m), m.cpsr.t,
           ThumbComputes(m) \/ ThumbTransfers(m) \/ ThumbBranches(m)
    PROVE  Ends(m)
  <1>m. m \in Machine
    BY ReadyKept
  <1>1. CASE ThumbComputes(m)
    <2>1. CASE \E idles \in BOOLEAN : Runs(alu(m, idles))
      BY <2>1, AluOperation, RunsEnd
    <2>2. CASE \E op \in {"add", "mov", "cmp", "bx"}, rd \in LinkRegs, rs \in Values \union {Lr(m)} :
                  Runs(hireg_bx(m, op, rd, rs))
      BY <1>m, <2>2, Operands, HighRegisters, RunsEnd
    <2> QED
      BY <1>1, <2>1, <2>2, Zenon DEF ThumbComputes
  <1>2. CASE ThumbTransfers(m)
    <2>1. CASE \E handled \in {pc_rel_load(m), ld_str_reg(m), ld_str_sign_extended_byte_hword(m),
                       ld_str_imm(m), ld_str_hword(m), ld_str_sp_relative(m)} : Runs(handled)
      BY <2>1, ThumbAccess, RunsEnd
         DEF pc_rel_load, ld_str_reg, ld_str_sign_extended_byte_hword, ld_str_imm, ld_str_hword, ld_str_sp_relative
    <2>2. CASE \E pop, pc_lr, empty \in BOOLEAN, data \in Values : Runs(push_pop(m, pop, pc_lr, empty, data))
      BY <2>2, Operands, PushPop, RunsEnd
    <2>3. CASE \E load, empty \in BOOLEAN, data \in Values : Runs(ld_str_multiple(m, load, empty, data))
      BY <2>3, Operands, Multiple, RunsEnd
    <2> QED
      BY <1>2, <2>1, <2>2, <2>3, Zenon DEF ThumbTransfers
  <1>3. CASE ThumbBranches(m)
    BY <1>3, Operands, Branches, LongBranch, Swis, RunsEnd DEF ThumbBranches
  <1> QED
    BY <1>1, <1>2, <1>3

(* SUBS pc, lr, #4 in irq mode goes back to what was stopped. *)
LEMMA ReturnsThere ==
    ASSUME NEW m, Ready(m), ~m.cpsr.t, ArmReturns(m)
    PROVE  /\ Between(cpu') /\ returned' \in Stopped /\ ResumesWhereInterrupted'
  <1> DEFINE to == Wrap(Lr(m) - 4)
             read == [m EXCEPT !.fetch = "seq"]
             written == SetRegister(read, 15, to)
             restored == RestoreCpsr(written)
             flushed == pipeline_flush(restored, restored.cpsr.t)
  <1>m. Holds(m) /\ m \in Machine /\ Returns(m.lr, m.spsr, m.owed)
    BY ReadyKept DEF Holds
  <1>1. to \in Addr
    BY <1>m, LrIn, WrapsIn
  <1>d. data_processing(m, FALSE, TRUE, FALSE, 15, to) = flushed
    BY DEF data_processing
  <1> HIDE DEF to
  <1>2. Holds(read) /\ read.cpsr = m.cpsr /\ read.spsr = m.spsr
    BY <1>m DEF Holds, Machine
  <1> HIDE DEF read
  <1>3. Holds(written) /\ written.cpsr = m.cpsr /\ written.pc = to
    BY <1>1, <1>2, PutPcRegister
  <1>4. written.spsr = m.spsr
    BY <1>2 DEF SetRegister, Holds, Machine
  <1> HIDE DEF written
  <1>5. /\ Holds(restored) /\ restored.pc = to
        /\ m.cpsr.mode = "irq" => restored.cpsr = m.spsr["irq"]
    BY <1>3, <1>4, Restored DEF InExceptionMode
  <1> HIDE DEF restored
  <1>6. restored.cpsr.t \in BOOLEAN
    BY <1>5, Fields DEF Holds
  <1>7. /\ Between(flushed) /\ flushed.cpsr = restored.cpsr
        /\ flushed.executing = <<AlignTo(to, Width(restored.cpsr.t)), Width(restored.cpsr.t)>>
    BY <1>5, <1>6, Flushes
  <1> HIDE DEF flushed
  <1>8. cpu' = [flushed EXCEPT !.owed = Nothing] /\ returned' = IF m.cpsr.mode = "irq" THEN m.owed ELSE Nothing
    BY <1>d DEF ArmReturns, to
  <1>9. Between(cpu') /\ cpu'.cpsr = flushed.cpsr /\ cpu'.executing = flushed.executing
    <2> DEFINE r == [flushed EXCEPT !.owed = Nothing]
    <2>1. /\ r \in Machine /\ r.pc = flushed.pc /\ r.cpsr = flushed.cpsr /\ r.fetch = flushed.fetch
          /\ r.executing = flushed.executing /\ r.decoding = flushed.decoding
          /\ r.after = flushed.after /\ r.skewed = flushed.skewed /\ r.owed = Nothing
      BY <1>7, NothingStopped DEF Between, Holds, Machine
    <2> HIDE DEF r
    <2>2. Between(r)
      BY <1>7, <2>1 DEF Between, Holds, Returns
    <2> QED
      BY <1>8, <2>1, <2>2 DEF r
  <1>10. returned' \in Stopped
    BY <1>8, <1>m, Fields, NothingStopped
  <1>11. ResumesWhereInterrupted'
    <2> SUFFICES ASSUME returned' # Nothing
                 PROVE  cpu'.executing = returned'.executing /\ cpu'.cpsr = returned'.cpsr
      BY DEF ResumesWhereInterrupted
    <2>1. m.cpsr.mode = "irq" /\ returned' = m.owed /\ m.owed # Nothing
      BY <1>8
    <2>2. Lr(m) = m.lr["irq"]
      BY <2>1 DEF Lr, BankOf
    <2>3. /\ m.spsr["irq"] = m.owed.cpsr
          /\ m.owed.executing = <<AlignTo(to, Width(m.owed.cpsr.t)), Width(m.owed.cpsr.t)>>
      BY <1>m, <2>1, <2>2 DEF Returns, to
    <2> QED
      BY <1>5, <1>7, <1>9, <2>1, <2>3
  <1> QED
    BY <1>9, <1>10, <1>11

(* Where no interrupt ended, none has to be resumed. *)
LEMMA EndedKept ==
    ASSUME NEW m, Ends(m)
    PROVE  Between(cpu') /\ returned' \in Stopped /\ ResumesWhereInterrupted'
  BY NothingStopped DEF Ends, ResumesWhereInterrupted

(* The invariant of the pipeline holds for any address space, values and
   modes that an MSR selects. *)
THEOREM PipelineInvariance == CpuSpec => []CpuInv
  <1>1. CpuInit => CpuInv
    <2> SUFFICES ASSUME CpuInit PROVE CpuInv
      OBVIOUS
    <2>1. PICK pc \in {0, 32}, first \in {"svc", "sys"} :
            LET off == [mode |-> first, t |-> FALSE, i |-> first = "svc"] IN
            cpu = [pc |-> pc, lr |-> [b \in Bank |-> 0], cpsr |-> off,
                   spsr |-> [b \in Bank \ {"none"} |-> [off EXCEPT !.mode = "svc", !.i = FALSE]],
                   fetch |-> "non_seq", executing |-> NV, decoding |-> NV,
                   after |-> -1, skewed |-> 0, owed |-> Nothing]
      BY Zenon DEF CpuInit
    <2> DEFINE off == [mode |-> first, t |-> FALSE, i |-> first = "svc"]
               svc == [off EXCEPT !.mode = "svc", !.i = FALSE]
               lr == [b \in Bank |-> 0]
               spsr == [b \in Bank \ {"none"} |-> svc]
    <2>2. off \in Psr
      BY DEF Psr
    <2>3. svc \in Psr
      BY DEF Psr
    <2> HIDE DEF off, svc
    <2>4. lr \in [Bank -> Addr] /\ spsr \in [Bank \ {"none"} -> Psr]
      BY <2>3, Spaced DEF Addr
    <2> HIDE DEF lr, spsr
    <2>5. cpu = [pc |-> pc, lr |-> lr, cpsr |-> off, spsr |-> spsr, fetch |-> "non_seq",
                 executing |-> NV, decoding |-> NV, after |-> -1, skewed |-> 0, owed |-> Nothing]
      BY <2>1, Zenon DEF lr, spsr, svc, off
    <2>6. pc \in Addr
      BY Spaced DEF Addr
    <2>7. cpu \in Machine
      BY <2>2, <2>4, <2>5, <2>6, NothingStopped DEF Machine
    <2>8. cpu.owed = Nothing /\ cpu.executing = NV /\ cpu.decoding = NV /\ cpu.fetch = "non_seq"
      BY <2>5
    <2>9. Between(cpu)
      BY <2>7, <2>8 DEF Between, Holds, Returns, Piped, Announced
    <2>10. returned \in Stopped /\ steps \in 0 .. MaxSteps /\ ResumesWhereInterrupted
      BY NothingStopped, CpuAssumption DEF CpuInit, ResumesWhereInterrupted
    <2> QED
      BY <2>9, <2>10 DEF CpuInv
  <1>2. CpuInv /\ [execute_instruction]_cpuvars => CpuInv'
    <2> SUFFICES ASSUME CpuInv, [execute_instruction]_cpuvars PROVE CpuInv'
      OBVIOUS
    <2>1. CASE UNCHANGED cpuvars
      BY <2>1 DEF CpuInv, ResumesWhereInterrupted, cpuvars
    <2>2. CASE execute_instruction
      <3>1. PICK run \in Machines :
                LET m == run.now IN
                \/ Skipped(m)
                \/ ~m.cpsr.t /\ (ArmBranches(m) \/ ArmComputes(m) \/ ArmReturns(m) \/ ArmStatus(m) \/ ArmTransfers(m))
                \/ m.cpsr.t /\ (ThumbComputes(m) \/ ThumbTransfers(m) \/ ThumbBranches(m))
        BY <2>2, Zenon DEF execute_instruction
      <3> DEFINE m == run.now
      <3>2. Ready(m)
        BY MachinesReady DEF CpuInv
      <3> HIDE DEF m
      <3>3. steps' \in 0 .. MaxSteps
        BY <2>2, CpuAssumption DEF execute_instruction, CpuInv
      <3>4. CASE Skipped(m)
        BY <3>2, <3>3, <3>4, AluOperation, RunsEnd, EndedKept DEF Skipped, CpuInv
      <3>5. CASE ~m.cpsr.t /\ (ArmBranches(m) \/ ArmComputes(m) \/ ArmStatus(m) \/ ArmTransfers(m))
        BY <3>2, <3>3, <3>5, ArmKept, EndedKept DEF CpuInv
      <3>6. CASE ~m.cpsr.t /\ ArmReturns(m)
        BY <3>2, <3>3, <3>6, ReturnsThere DEF CpuInv
      <3>7. CASE m.cpsr.t /\ (ThumbComputes(m) \/ ThumbTransfers(m) \/ ThumbBranches(m))
        BY <3>2, <3>3, <3>7, ThumbKept, EndedKept DEF CpuInv
      <3> QED
        BY <3>1, <3>4, <3>5, <3>6, <3>7, Zenon DEF m
    <2> QED
      BY <2>1, <2>2
  <1> QED
    BY <1>1, <1>2, PTL DEF CpuSpec

(* The fetches of the pipeline come in order, and a fetch is announced as
   sequential only when it is, whatever instructions and interrupts follow
   each other: PipelineInOrder. *)
THEOREM PipelineOrdered == CpuSpec => []PipelineInOrder
  <1>1. CpuInv => PipelineInOrder
    <2> SUFFICES ASSUME CpuInv PROVE PipelineInOrder
      OBVIOUS
    <2>1. CpuTypeOK
      BY DEF CpuInv, Between, Holds, Machine, CpuTypeOK
    <2>2. PipelineFollowsPc
      BY DEF CpuInv, Between, Piped, PipelineFollowsPc
    <2>3. SequentialFetchFollowsFetch
      BY DEF CpuInv, Between, Announced, SequentialFetchFollowsFetch
    <2> QED
      BY <2>1, <2>2, <2>3 DEF PipelineInOrder
  <1> QED
    BY <1>1, PipelineInvariance, PTL

(* An interrupt handler that ends with SUBS pc, lr, #4 resumes the instruction
   that was about to run, in its instruction set and mode, whatever happened in
   between: ResumesWhereInterrupted. *)
THEOREM InterruptsResume == CpuSpec => []ResumesWhereInterrupted
  <1>1. CpuInv => ResumesWhereInterrupted
    BY DEF CpuInv
  <1> QED
    BY <1>1, PipelineInvariance, PTL

----------------------------------------------------------------------------
(* The banked registers. *)

\* The inductive invariant: types, and fiq mode is never entered from itself.
IInv == RegTypeOK /\ from # "fiq"

USE RegistersAssumption

\* Every mode has a bank among the banks.
LEMMA BankOfMode ==
    ASSUME NEW m \in Modes
    PROVE  bank_from_privilege_mode(m) \in Banks
BY DEF Banks

\* A switch between two banks keeps the types (switch_mode).
LEMMA SwitchTypes ==
    ASSUME NEW banks \in [Banks -> [Regs -> Contents]],
           NEW regs \in [Regs -> Contents],
           NEW old \in Banks, NEW new \in Banks
    PROVE  /\ BanksAfter(banks, regs, old, new) \in [Banks -> [Regs -> Contents]]
           /\ RegsAfter(banks, regs, old, new) \in [Regs -> Contents]
BY DEF BanksAfter, RegsAfter

LEMMA UserBank == "none" \in Banks /\ bank_from_privilege_mode("usr") = "none"
BY BankOfMode DEF bank_from_privilege_mode

LEMMA FiqBank == "fiq" \in Banks /\ bank_from_privilege_mode("fiq") = "fiq"
BY BankOfMode DEF bank_from_privilege_mode

LEMMA InitInv == RegInit => IInv
BY UserBank DEF RegInit, IInv, RegTypeOK

\* Each operation on the registers keeps the invariant.
LEMMA StepInv == IInv /\ [RegNext]_regvars => IInv'
<1> SUFFICES ASSUME IInv, [RegNext]_regvars PROVE IInv'
  OBVIOUS
<1> USE DEF IInv, RegTypeOK
<1>1. ASSUME NEW m \in Modes, switch_mode(m) PROVE IInv'
  BY <1>1, BankOfMode, SwitchTypes DEF switch_mode
<1>2. ASSUME NEW x \in Regs, NEW v \in Contents, WriteRegister(x, v) PROVE IInv'
  BY <1>2 DEF WriteRegister
<1>3. ASSUME NEW x \in Regs, NEW v \in Contents, UserTransfer(x, v) PROVE IInv'
  <2> DEFINE old == bank_from_privilege_mode(mode)
             inner == [RegsAfter(reg_banks_, r_, old, "none") EXCEPT ![x] = v]
             banks == BanksAfter(reg_banks_, r_, old, "none")
  <2>1. old \in Banks /\ "none" \in Banks
    BY BankOfMode, UserBank
  <2>2. banks \in [Banks -> [Regs -> Contents]] /\ inner \in [Regs -> Contents]
    BY <2>1, SwitchTypes
  <2>3. /\ BanksAfter(banks, inner, "none", old) \in [Banks -> [Regs -> Contents]]
        /\ RegsAfter(banks, inner, "none", old) \in [Regs -> Contents]
    BY <2>1, <2>2, SwitchTypes
  <2> QED BY <1>3, <2>3 DEF UserTransfer
<1>4. CASE UNCHANGED regvars
  BY <1>4 DEF regvars
<1> QED BY <1>1, <1>2, <1>3, <1>4 DEF RegNext

\* The registers, their copies and the mode keep their types through any
\* sequence of exceptions, returns and user bank transfers, and fiq mode is
\* never recorded as entered from itself (switch_mode).
THEOREM BanksCorrect == RegSpec => []IInv
BY InitInv, StepInv, PTL DEF RegSpec

----------------------------------------------------------------------------
\* The register file a state stands for.
Map == [p \in Phys |-> Kept(p)]

LEMMA SamePhys == File!Phys = Phys /\ File!Banks = Banks /\ File!Regs = Regs
BY DEF File!Phys, Phys, File!Banks, Banks, File!Regs, Regs,
       File!bank_from_privilege_mode, bank_from_privilege_mode

\* Every physical register is kept somewhere.
LEMMA MapTyped == IInv => Map \in [Phys -> Contents]
<1> SUFFICES ASSUME IInv, NEW p \in Phys PROVE Kept(p) \in Contents
  BY DEF Map
<1>1. CASE p \in Banks \X OwnRegs
  BY <1>1, BankOfMode DEF IInv, RegTypeOK, Kept, Regs
<1>2. CASE p \in {"none", "fiq"} \X FiqRegs
  <2>1. p[2] \in FiqRegs /\ p[2] \notin OwnRegs /\ p[2] \in Regs
    BY <1>2 DEF Regs
  <2>2. r_[p[2]] \in Contents /\ reg_banks_["fiq"][p[2]] \in Contents
        /\ reg_banks_[from][p[2]] \in Contents
    BY <2>1, FiqBank DEF IInv, RegTypeOK
  <2> QED BY <2>1, <2>2 DEF Kept
<1> QED BY <1>1, <1>2 DEF Phys

LEMMA InitMaps == RegInit => File!RInit
<1> SUFFICES ASSUME RegInit PROVE File!RInit
  OBVIOUS
<1>1. Map \in [Phys -> Contents]
  BY InitInv, MapTyped
<1>2. mode \in Modes \ {"fiq"} /\ from = "none"
  BY DEF RegInit
<1> QED BY <1>1, <1>2, SamePhys DEF File!RInit, Map

\* A switch leaves every physical register where the new mode finds it, but
\* for the shared ones when fiq mode is left for another bank.
LEMMA SwitchKeeps ==
    ASSUME IInv, IInv', NEW m \in Modes, switch_mode(m), NEW p \in Phys,
           ~(/\ bank_from_privilege_mode(mode) = "fiq"
             /\ bank_from_privilege_mode(m) \notin {"fiq", from}
             /\ p \in {"none"} \X FiqRegs)
    PROVE  Kept(p)' = Kept(p)
<1> DEFINE old == bank_from_privilege_mode(mode)
           new == bank_from_privilege_mode(m)
<1>1. old \in Banks /\ new \in Banks
  BY BankOfMode DEF switch_mode, IInv, RegTypeOK
<1>2. old' = new
  BY DEF switch_mode
<1>3. /\ reg_banks_' = BanksAfter(reg_banks_, r_, old, new)
      /\ r_' = RegsAfter(reg_banks_, r_, old, new)
      /\ from' = IF new = "fiq" /\ old # "fiq" THEN old ELSE from
  BY DEF switch_mode
<1> HIDE DEF old, new
<1> DEFINE b == p[1]
           x == p[2]
<1>4. \A c \in Banks, y \in Regs :
        reg_banks_'[c][y] = IF c = old /\ y \in Exchanged(old, new)
                            THEN r_[y] ELSE reg_banks_[c][y]
  BY <1>1, <1>3 DEF BanksAfter, IInv, RegTypeOK
<1>5. \A y \in Regs :
        r_'[y] = IF y \in Exchanged(old, new) THEN reg_banks_[new][y] ELSE r_[y]
  BY <1>3 DEF RegsAfter
<1>6. CASE p \in Banks \X OwnRegs
  <2>1. b \in Banks /\ x \in OwnRegs /\ x \in Regs
    BY <1>6 DEF Regs
  <2>2. Kept(p) = IF b = old THEN r_[x] ELSE reg_banks_[b][x]
    BY <2>1 DEF Kept, old
  <2>3. Kept(p)' = IF b = new THEN r_'[x] ELSE reg_banks_'[b][x]
    BY <2>1, <1>2 DEF Kept, old
  <2>4. x \in Exchanged(old, new) <=> old # new
    BY <2>1 DEF Exchanged, Regs
  <2> QED BY <2>1, <2>2, <2>3, <2>4, <1>4, <1>5, <1>1
<1>7. CASE p \in {"none", "fiq"} \X FiqRegs
  <2>1. b \in {"none", "fiq"} /\ x \in FiqRegs /\ x \notin OwnRegs /\ x \in Regs
        /\ p = <<b, x>>
    BY <1>7 DEF Regs
  <2>2. Kept(p) = IF (b = "fiq") = (old = "fiq") THEN r_[x]
                  ELSE reg_banks_[IF b = "fiq" THEN "fiq" ELSE from][x]
    BY <2>1 DEF Kept, old
  <2>3. Kept(p)' = IF (b = "fiq") = (new = "fiq") THEN r_'[x]
                   ELSE reg_banks_'[IF b = "fiq" THEN "fiq" ELSE from'][x]
    BY <2>1, <1>2 DEF Kept, old
  <2>4. x \in Exchanged(old, new) <=> (old # new /\ (old = "fiq" \/ new = "fiq"))
    BY <2>1 DEF Exchanged, Regs
  <2>5. ~(old = "fiq" /\ new \notin {"fiq", from} /\ b = "none")
    BY <2>1 DEF old, new
  <2>6. from \in Banks /\ from # "fiq"
    BY DEF IInv, RegTypeOK
  <2>7. CASE old = "fiq"
    BY <2>7, <2>1, <2>2, <2>3, <2>4, <2>5, <2>6, <1>1, <1>3, <1>4, <1>5, FiqBank
  <2>8. CASE old # "fiq" /\ new = "fiq"
    <3>1. from' = old /\ x \in Exchanged(old, new)
      BY <2>8, <2>4, <1>3
    <3>2. r_'[x] = reg_banks_["fiq"][x] /\ reg_banks_'[old][x] = r_[x]
      BY <3>1, <2>8, <2>1, <1>1, <1>4, <1>5
    <3> QED BY <3>1, <3>2, <2>8, <2>1, <2>2, <2>3
  <2>9. CASE old # "fiq" /\ new # "fiq"
    <3>1. from' = from /\ x \notin Exchanged(old, new)
      BY <2>9, <2>4, <1>3
    <3>2. r_'[x] = r_[x] /\ reg_banks_'["fiq"][x] = reg_banks_["fiq"][x]
      BY <3>1, <2>1, <1>4, <1>5, FiqBank
    <3> QED BY <3>1, <3>2, <2>9, <2>1, <2>2, <2>3
  <2> QED BY <2>7, <2>8, <2>9
<1> QED BY <1>6, <1>7 DEF Phys

\* What a transfer of the user bank changes, all switches together.
LEMMA UserChanges ==
    ASSUME IInv, NEW x \in Regs, NEW v \in Contents, UserTransfer(x, v),
           NEW y \in Regs
    PROVE  LET old == bank_from_privilege_mode(mode)
               moved == y \in Exchanged(old, "none") IN
           /\ r_'[y] = IF ~moved /\ y = x THEN v ELSE r_[y]
           /\ \A c \in Banks :
                reg_banks_'[c][y] = IF ~moved THEN reg_banks_[c][y]
                                    ELSE IF c = "none" /\ y = x THEN v
                                    ELSE IF c = old THEN r_[y]
                                    ELSE reg_banks_[c][y]
<1> DEFINE old == bank_from_privilege_mode(mode)
           inner == [RegsAfter(reg_banks_, r_, old, "none") EXCEPT ![x] = v]
           banks == BanksAfter(reg_banks_, r_, old, "none")
           moved == y \in Exchanged(old, "none")
<1>1. old \in Banks /\ "none" \in Banks
  BY BankOfMode, UserBank DEF IInv, RegTypeOK
<1>2. /\ reg_banks_' = BanksAfter(banks, inner, "none", old)
      /\ r_' = RegsAfter(banks, inner, "none", old)
  BY DEF UserTransfer
<1>3. moved => old # "none"
  BY DEF Exchanged
<1>4. Exchanged("none", old) = Exchanged(old, "none")
  BY DEF Exchanged
<1> HIDE DEF old
<1>5. inner[y] = IF y = x THEN v ELSE IF moved THEN reg_banks_["none"][y] ELSE r_[y]
  BY DEF RegsAfter
<1>6. \A c \in Banks :
        banks[c][y] = IF c = old /\ moved THEN r_[y] ELSE reg_banks_[c][y]
  BY <1>1 DEF BanksAfter, IInv, RegTypeOK
<1>7. r_'[y] = IF moved THEN banks[old][y] ELSE inner[y]
  BY <1>2, <1>4 DEF RegsAfter
<1>8. banks \in [Banks -> [Regs -> Contents]]
  BY <1>1, SwitchTypes DEF IInv, RegTypeOK, RegsAfter
<1> HIDE DEF inner, banks
<1>9. \A c \in Banks :
        reg_banks_'[c][y] = IF c = "none" /\ moved THEN inner[y] ELSE banks[c][y]
  BY <1>1, <1>2, <1>4, <1>8 DEF BanksAfter
<1> QED BY <1>1, <1>3, <1>5, <1>6, <1>7, <1>9 DEF old

\* Each operation on the registers is one on the register file, or none.
LEMMA StepMaps == IInv /\ IInv' /\ [RegNext]_regvars => [File!RNext]_(File!rvars)
<1> SUFFICES ASSUME IInv, IInv', [RegNext]_regvars PROVE [File!RNext]_(File!rvars)
  OBVIOUS
<1>t. Map \in [Phys -> Contents] /\ Map' \in [Phys -> Contents]
  <2>1. (IInv => Map \in [Phys -> Contents])'
    BY MapTyped, PTL
  <2> QED BY <2>1, MapTyped
<1>1. ASSUME NEW m \in Modes, switch_mode(m) PROVE File!RSwitch
  <2> DEFINE old == bank_from_privilege_mode(mode)
             new == bank_from_privilege_mode(m)
  <2>1. \A p \in Phys :
          \/ Map'[p] = Map[p]
          \/ /\ old = "fiq" /\ new \notin {"fiq", from}
             /\ p \in {"none"} \X FiqRegs
    BY <1>1, SwitchKeeps DEF Map
  <2>2. mode' = m /\ from' = IF new = "fiq" /\ old # "fiq" THEN old ELSE from
    BY <1>1 DEF switch_mode
  <2> QED BY <2>1, <2>2, <1>t, SamePhys
      DEF File!RSwitch, Map, File!bank_from_privilege_mode, bank_from_privilege_mode
<1>2. ASSUME NEW x \in Regs, NEW v \in Contents, WriteRegister(x, v)
      PROVE  File!RWrite
  <2> DEFINE s == File!Seen(mode, x)
  <2>1. s \in Phys
    BY BankOfMode DEF File!Seen, Phys, Regs, File!bank_from_privilege_mode,
                      bank_from_privilege_mode, IInv, RegTypeOK
  <2>2. ASSUME NEW p \in Phys PROVE Kept(p)' = IF p = s THEN v ELSE Kept(p)
    <3>1. CASE p \in Banks \X OwnRegs
      BY <3>1, <1>2 DEF WriteRegister, Kept, File!Seen, Regs, IInv, RegTypeOK,
             File!bank_from_privilege_mode, bank_from_privilege_mode
    <3>2. CASE p \in {"none", "fiq"} \X FiqRegs
      BY <3>2, <1>2 DEF WriteRegister, Kept, File!Seen, Regs, IInv, RegTypeOK,
             File!bank_from_privilege_mode, bank_from_privilege_mode
    <3> QED BY <3>1, <3>2 DEF Phys
  <2>3. Map' = [Map EXCEPT ![s] = v]
    BY <2>1, <2>2 DEF Map
  <2>4. UNCHANGED <<mode, from>>
    BY <1>2 DEF WriteRegister
  <2> QED BY <2>3, <2>4, SamePhys DEF File!RWrite, Map
<1>3. ASSUME NEW x \in Regs, NEW v \in Contents, UserTransfer(x, v)
      PROVE  File!RUserWrite
  <2> DEFINE s == File!Seen("usr", x)
             lost == mode = "fiq" /\ from # "none" /\ x \in FiqRegs
             old == bank_from_privilege_mode(mode)
  <2>0. UNCHANGED <<mode, from>> /\ old \in Banks /\ (old = "fiq" <=> mode = "fiq")
        /\ from \in Banks /\ from # "fiq"
    BY <1>3, BankOfMode DEF UserTransfer, bank_from_privilege_mode, IInv, RegTypeOK
  <2>1. s = IF x \in OwnRegs THEN <<"none", x>> ELSE <<"none", x>>
    BY DEF File!Seen, File!bank_from_privilege_mode
  <2>2. s = <<"none", x>> /\ s \in Phys
    BY <2>1, UserBank DEF Phys, Regs
  <2>3. ASSUME NEW p \in Phys
        PROVE  Kept(p)' = IF p = s /\ ~lost THEN v ELSE Kept(p)
    <3> DEFINE b == p[1]
               y == p[2]
               moved == y \in Exchanged(old, "none")
    <3>1. CASE p \in Banks \X OwnRegs
      <4>1. b \in Banks /\ y \in OwnRegs /\ y \in Regs /\ y \notin FiqRegs
            /\ p = <<b, y>>
        BY <3>1 DEF Regs
      <4>2. moved <=> old # "none"
        BY <4>1 DEF Exchanged, Regs
      <4>3. Kept(p) = IF b = old THEN r_[y] ELSE reg_banks_[b][y]
        BY <4>1 DEF Kept
      <4>4. Kept(p)' = IF b = old THEN r_'[y] ELSE reg_banks_'[b][y]
        BY <4>1, <2>0 DEF Kept
      <4> HIDE DEF old
      <4>5. p = s => ~lost
        BY <4>1, <2>2
      <4> QED BY <4>1, <4>2, <4>3, <4>4, <4>5, <2>0, <2>2, <1>3, UserChanges DEF old
    <3>2. CASE p \in {"none", "fiq"} \X FiqRegs
      <4>1. b \in {"none", "fiq"} /\ y \in FiqRegs /\ y \notin OwnRegs /\ y \in Regs
            /\ p = <<b, y>>
        BY <3>2 DEF Regs
      <4>2. moved <=> old = "fiq"
        BY <4>1 DEF Exchanged, Regs
      <4>3. Kept(p) = IF (b = "fiq") = (old = "fiq") THEN r_[y]
                      ELSE reg_banks_[IF b = "fiq" THEN "fiq" ELSE from][y]
        BY <4>1 DEF Kept
      <4>4. Kept(p)' = IF (b = "fiq") = (old = "fiq") THEN r_'[y]
                       ELSE reg_banks_'[IF b = "fiq" THEN "fiq" ELSE from][y]
        BY <4>1, <2>0 DEF Kept
      <4>5. /\ r_'[y] = IF ~moved /\ y = x THEN v ELSE r_[y]
            /\ \A c \in Banks :
                 reg_banks_'[c][y] = IF ~moved THEN reg_banks_[c][y]
                                     ELSE IF c = "none" /\ y = x THEN v
                                     ELSE IF c = old THEN r_[y]
                                     ELSE reg_banks_[c][y]
        BY <4>1, <1>3, UserChanges
      <4> QED BY <4>1, <4>2, <4>3, <4>4, <4>5, <2>0, <2>2, FiqBank
    <3> QED BY <3>1, <3>2 DEF Phys
  <2>4. Map' = IF lost THEN Map ELSE [Map EXCEPT ![s] = v]
    BY <2>2, <2>3 DEF Map
  <2> QED BY <2>0, <2>4, SamePhys DEF File!RUserWrite, Map
<1>4. CASE UNCHANGED regvars
  BY <1>4 DEF regvars, File!rvars, Kept
<1> QED BY <1>1, <1>2, <1>3, <1>4 DEF RegNext, File!RNext

\* For any modes, registers and contents, through any sequence of exceptions,
\* returns, mode changes and user bank transfers, every mode finds the
\* registers it left, with the exception RegisterFile names (switch_mode,
\* block_data_transfer).
THEOREM RegistersImplementFile == RegSpec => ImplementsRegisterFile
<1>1. RegSpec => []IInv
  BY BanksCorrect
<1> QED BY <1>1, InitMaps, StepMaps, PTL DEF RegSpec, ImplementsRegisterFile, File!RSpec
=============================================================================
