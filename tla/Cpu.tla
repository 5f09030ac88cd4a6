-------------------------------- MODULE Cpu ---------------------------------
(***************************************************************************)
(* The instruction handlers of arm7tdmi as far as they move the program    *)
(* counter, the two-stage pipeline, the fetch type, the status registers   *)
(* and the link registers.  Register contents other than r14 and r15 are   *)
(* drawn from Values, condition codes and flags are left to Alu, and the   *)
(* banking of r14 is the one Registers implements: lr[b] is the r14 a mode *)
(* of bank b sees.                                                         *)
(*                                                                         *)
(* A handler is a state transformer: it takes the machine after the fetch  *)
(* and returns the machine after the instruction.                          *)
(***************************************************************************)
EXTENDS Integers

CONSTANTS
    Space,      \* size of the address space in bytes
    Values,     \* addresses a register or memory word can hold
    MsrModes,   \* modes an MSR can select
    MaxSteps    \* bound on the number of instructions

ASSUME CpuAssumption ==
    /\ Space \in Nat /\ Space % 32 = 0 /\ Space > 32
    /\ Values \subseteq 0 .. Space - 1
    /\ MsrModes \subseteq {"usr", "sys", "svc", "irq", "und"}
    /\ MaxSteps \in Nat

VARIABLES
    cpu,        \* the machine
    returned,   \* history: what the interrupt had stopped that this step ended
    steps

cpuvars == <<cpu, returned, steps>>

Addr == 0 .. Space - 1
Bank == {"none", "svc", "irq", "und"}
BankOf(m) == IF m \in {"usr", "sys"} THEN "none" ELSE m
Psr == [mode : {"usr", "sys", "svc", "irq", "und"}, t : BOOLEAN, i : BOOLEAN]
NV == <<-1, 0>>                     \* the reset value 0xF0000000 never executes
Word == {NV} \union (Addr \X {2, 4})
Stopped == [executing : Word, cpsr : Psr]
Nothing == [executing |-> NV, cpsr |-> [mode |-> "usr", t |-> FALSE, i |-> FALSE]]

CpuTypeOK ==
    /\ cpu \in [pc : Addr, lr : [Bank -> Addr], cpsr : Psr, spsr : [Bank \ {"none"} -> Psr],
                fetch : {"seq", "non_seq"}, executing : Word, decoding : Word,
                after : Addr \union {-1},   \* the address after the last access, if it was a fetch
                skewed : 0 .. 2,            \* history: instructions until an empty STM is made up for
                owed : Stopped]             \* history: what the interrupt stopped
    /\ returned \in Stopped
    /\ steps \in 0 .. MaxSteps

\* The constructor, and skip_bios with another pc and mode.
CpuInit ==
    /\ \E pc \in {0, 32}, m \in {"svc", "sys"} :
           LET off == [mode |-> m, t |-> FALSE, i |-> m = "svc"] IN
           /\ (pc = 0) = (m = "svc")
           /\ cpu = [pc |-> pc, lr |-> [b \in Bank |-> 0], cpsr |-> off,
                     spsr |-> [b \in Bank \ {"none"} |-> [off EXCEPT !.mode = "svc", !.i = FALSE]],
                     fetch |-> "non_seq", executing |-> NV, decoding |-> NV,
                     after |-> -1, skewed |-> 0, owed |-> Nothing]
    /\ returned = Nothing
    /\ steps = 0

----------------------------------------------------------------------------
Wrap(a) == a % Space
AlignTo(a, size) == a - (a % size)
Width(t) == IF t THEN 2 ELSE 4

InExceptionMode(m) == m.cpsr.mode \notin {"usr", "sys"}
Lr(m) == m.lr[BankOf(m.cpsr.mode)]

\* A program that writes r14 or spsr of the irq mode gives up the return.
SetLr(m, v) ==
    [m EXCEPT !.lr[BankOf(m.cpsr.mode)] = v,
              !.owed = IF m.cpsr.mode = "irq" THEN Nothing ELSE @]

SetRegister(m, x, v) ==
    CASE x = 14 -> SetLr(m, v)
      [] x = 15 -> [m EXCEPT !.pc = v]
      [] OTHER -> m

\* switch_mode; what it does to the other registers is in Registers.
SwitchMode(m, mode) == [m EXCEPT !.cpsr.mode = mode]

\* cpsr().copy_without_mode(spsr()) and switch_mode(spsr().mode).
RestoreCpsr(m) == IF InExceptionMode(m) THEN [m EXCEPT !.cpsr = m.spsr[m.cpsr.mode]] ELSE m

pipeline_flush(m, t) ==
    LET size == Width(t) IN
    [m EXCEPT !.executing = <<AlignTo(m.pc, size), size>>,
              !.decoding = <<Wrap(AlignTo(m.pc, size) + size), size>>,
              !.fetch = "seq",
              !.pc = Wrap(@ + 2 * size),
              !.after = Wrap(AlignTo(m.pc, size) + 2 * size),
              !.skewed = 0]

Advance(m) == [m EXCEPT !.pc = Wrap(@ + Width(m.cpsr.t))]
Sequential(m) == [Advance(m) EXCEPT !.fetch = "seq"]
NonSequential(m) == [Advance(m) EXCEPT !.fetch = "non_seq"]
\* A data access breaks the burst of fetches.
DataAccess(m) == [m EXCEPT !.after = -1]

(* Mutant: r14 is written before the bank is switched. *)
LinkBeforeSwitch(m) ==
    IF m.cpsr.i THEN m ELSE
    LET linked == SetLr(m, IF m.cpsr.t THEN m.pc ELSE Wrap(m.pc - 4))
        entry == [SwitchMode(linked, "irq") EXCEPT !.spsr["irq"] = m.cpsr, !.cpsr.i = TRUE, !.cpsr.t = FALSE] IN
    pipeline_flush([entry EXCEPT !.pc = 24, !.owed = [executing |-> m.executing, cpsr |-> m.cpsr]], FALSE)

process_interrupts(m) ==
    IF m.cpsr.i THEN m ELSE
    LET entry == [SwitchMode(m, "irq") EXCEPT !.spsr["irq"] = m.cpsr, !.cpsr.i = TRUE, !.cpsr.t = FALSE]
        linked == SetLr(entry, IF m.cpsr.t THEN m.pc ELSE Wrap(m.pc - 4))
        noted == [linked EXCEPT !.pc = 24,
                      !.owed = IF m.skewed = 0 THEN [executing |-> m.executing, cpsr |-> m.cpsr] ELSE Nothing] IN
    pipeline_flush(noted, FALSE)

\* What execute_instruction does before it calls the handler.
Fetched(m) ==
    LET size == Width(m.cpsr.t)
        pc == AlignTo(m.pc, size) IN
    [m EXCEPT !.pc = pc, !.executing = m.decoding, !.decoding = <<pc, size>>,
              !.after = Wrap(pc + size), !.skewed = IF @ = 0 THEN 0 ELSE @ - 1]

----------------------------------------------------------------------------
(* ARM handlers *)

branch_exchange(m, addr) ==
    IF addr % 2 = 1
    THEN pipeline_flush([m EXCEPT !.pc = addr - 1, !.cpsr.t = TRUE], TRUE)
    ELSE pipeline_flush([m EXCEPT !.pc = AlignTo(addr, 4)], FALSE)

branch_with_link(m, link, offset) ==
    LET linked == IF link THEN SetLr(m, Wrap(m.pc - 4)) ELSE m IN
    pipeline_flush([linked EXCEPT !.pc = Wrap(@ + offset)], FALSE)

data_processing(m, shift_by_reg, set, compares, dest, v) ==
    LET read == [IF shift_by_reg THEN Advance(m) ELSE m EXCEPT !.fetch = "seq"]
        written == IF compares THEN read ELSE SetRegister(read, dest, v)
        restored == IF dest = 15 /\ set THEN RestoreCpsr(written) ELSE written IN
    IF dest = 15 /\ ~compares THEN pipeline_flush(restored, restored.cpsr.t)
    ELSE IF shift_by_reg THEN restored ELSE Advance(restored)

\* MSR; control is the field mask, src.low says whether the low byte of the
\* source is not zero, which alone decides that the mode is switched.
psr_transfer(m, use_spsr, control, src) ==
    LET masked == control /\ (use_spsr \/ m.cpsr.mode # "usr")
        switched == IF src.low THEN SwitchMode(m, src.mode) ELSE m IN
    Sequential(
        IF ~use_spsr
        THEN IF masked THEN [switched EXCEPT !.cpsr.mode = src.mode, !.cpsr.i = src.i] ELSE switched
        ELSE IF masked /\ InExceptionMode(m)
             THEN [m EXCEPT !.spsr[m.cpsr.mode] = [@ EXCEPT !.mode = src.mode, !.i = src.i],
                            !.owed = IF m.cpsr.mode = "irq" THEN Nothing ELSE @]
             ELSE m)

multiply(m, rd, v) == SetRegister(NonSequential(m), rd, v)

multiply_long(m, rdhi, rdlo, hi, lo) ==
    SetRegister(SetRegister(NonSequential(m), rdhi, hi), rdlo, lo)

single_data_transfer(m, load, writeback, rn, rd, base, data) ==
    LET accessed == DataAccess(NonSequential(m))
        based == IF writeback THEN SetRegister(accessed, rn, base) ELSE accessed
        loaded == IF load THEN SetRegister(based, rd, data) ELSE based IN
    IF load /\ rd = 15 THEN pipeline_flush(loaded, FALSE) ELSE loaded

(* Mutant: the fetch after the access is announced as sequential. *)
TransferStaysSequential(m, load, double, writeback, rn, rd, base, data) ==
    LET accessed == DataAccess(Sequential(m))
        based == IF writeback THEN SetRegister(accessed, rn, base) ELSE accessed
        loaded == IF load THEN SetRegister(based, rd, data) ELSE based IN
    IF load /\ rd = 15 THEN pipeline_flush(loaded, FALSE) ELSE loaded

\* LDRD and STRD are decoded as stores that access nothing.
halfword_data_transfer(m, load, double, writeback, rn, rd, base, data) ==
    LET accessed == IF double THEN NonSequential(m) ELSE DataAccess(NonSequential(m))
        based == IF writeback THEN SetRegister(accessed, rn, base) ELSE accessed
        loaded == IF load THEN SetRegister(based, rd, data) ELSE based IN
    IF load /\ rd = 15 THEN pipeline_flush(loaded, FALSE) ELSE loaded

\* An empty list transfers pc.  With the user bank the transfer reaches the
\* user's r14, and the mode is what it was when it ends.
block_data_transfer(m, load, psr, writeback, rn, list, base, data) ==
    LET regs == IF list = {} THEN {15} ELSE list
        pc_too == 15 \in regs
        user == psr /\ (~load \/ ~pc_too)
        inner == DataAccess(NonSequential(IF user THEN SwitchMode(m, "usr") ELSE m))
        based == IF writeback THEN SetRegister(inner, rn, base) ELSE inner
        linked == IF load /\ 14 \in regs THEN SetRegister(based, 14, data) ELSE based
        jumped == IF load /\ pc_too THEN SetRegister(linked, 15, data) ELSE linked
        restored == IF load /\ pc_too /\ psr THEN RestoreCpsr(jumped) ELSE jumped
        flushed == IF load /\ pc_too THEN pipeline_flush(restored, restored.cpsr.t) ELSE restored IN
    IF user THEN SwitchMode(flushed, m.cpsr.mode) ELSE flushed

single_data_swap(m, rd, data) == SetRegister(DataAccess(NonSequential(m)), rd, data)

\* SWI and undefined instructions enter an exception the same way.
Exception(m, bank, vector, ret) ==
    LET entry == [SwitchMode(m, bank) EXCEPT !.spsr[bank] = m.cpsr, !.cpsr.i = TRUE, !.cpsr.t = FALSE] IN
    pipeline_flush([SetLr(entry, ret) EXCEPT !.pc = vector], FALSE)

swi_arm(m) == Exception(m, "svc", 8, Wrap(m.pc - 4))
undefined(m) == Exception(m, "und", 4, Wrap(m.pc - 4))

----------------------------------------------------------------------------
(* Thumb handlers *)

alu(m, idles) == IF idles THEN NonSequential(m) ELSE Sequential(m)

hireg_bx(m, op, rd, rs) ==
    LET set(x) == IF rd = 15 THEN pipeline_flush([m EXCEPT !.pc = AlignTo(x, 2)], TRUE)
                  ELSE Sequential(SetRegister(m, rd, x)) IN
    CASE op \in {"add", "mov"} -> set(rs)
      [] op = "cmp" -> Sequential(m)
      [] op = "bx" -> IF rs % 2 = 1 THEN pipeline_flush([m EXCEPT !.pc = rs - 1], TRUE)
                      ELSE pipeline_flush([m EXCEPT !.cpsr.t = FALSE, !.pc = AlignTo(rs, 4)], FALSE)

pc_rel_load(m) == DataAccess(NonSequential(m))
ld_str_reg(m) == DataAccess(NonSequential(m))
ld_str_sign_extended_byte_hword(m) == DataAccess(NonSequential(m))
ld_str_imm(m) == DataAccess(NonSequential(m))
ld_str_hword(m) == DataAccess(NonSequential(m))
ld_str_sp_relative(m) == DataAccess(NonSequential(m))

\* With an empty list POP loads pc, and PUSH stores nothing.
push_pop(m, pop, pc_lr, empty, data) ==
    LET accessed == DataAccess(NonSequential(m)) IN
    CASE empty /\ ~pc_lr /\ pop -> pipeline_flush([accessed EXCEPT !.pc = data], TRUE)
      [] empty /\ ~pc_lr /\ ~pop -> Sequential(m)
      [] pop /\ pc_lr -> pipeline_flush([accessed EXCEPT !.pc = AlignTo(data, 2)], TRUE)
      [] OTHER -> accessed

\* With an empty list LDM loads pc, and STM moves pc a second time.
ld_str_multiple(m, load, empty, data) ==
    LET accessed == DataAccess(NonSequential(m)) IN
    CASE empty /\ load -> pipeline_flush([accessed EXCEPT !.pc = data], TRUE)
      [] empty /\ ~load -> [DataAccess(Advance(Sequential(m))) EXCEPT !.skewed = 2]
      [] OTHER -> accessed

branch_cond(m, met, offset) ==
    IF met THEN pipeline_flush([m EXCEPT !.pc = Wrap(@ + offset)], TRUE) ELSE Sequential(m)

swi_thumb(m) == Exception(m, "svc", 8, Wrap(m.pc - 2))

branch(m, offset) == pipeline_flush([m EXCEPT !.pc = Wrap(@ + offset)], TRUE)

long_branch_link(m, second, offset) ==
    IF second
    THEN LET next == Wrap(m.pc - 2) IN
         pipeline_flush([SetLr(m, next + 1 - (next % 2)) EXCEPT !.pc = AlignTo(Wrap(Lr(m) + offset), 2)], TRUE)
    ELSE Sequential(SetLr(m, Wrap(m.pc + offset)))

----------------------------------------------------------------------------
(* One execute_instruction: an interrupt may be taken first, then the       *)
(* instruction at the head of the pipeline runs while another is fetched.   *)

Offsets == {0, 8, Space - 8}
LinkRegs == {0, 14, 15}                 \* r0 stands for every register but r14 and r15
Sources == [mode : MsrModes, i : BOOLEAN, low : {TRUE}] \union {[mode |-> "usr", i |-> FALSE, low |-> FALSE]}

\* Interrupts are enabled by a program, hence not before one runs.
Machines ==
    LET ready == {cpu} \union (IF cpu.executing = NV THEN {} ELSE {process_interrupts(cpu)}) IN
    {[before |-> m, now |-> Fetched(m)] : m \in ready}

Runs(now) == cpu' = now /\ returned' = Nothing

\* The handler does not run: the reset value in the pipeline, or the condition.
Skipped(m) == ~m.cpsr.t /\ Runs(Sequential(m))

ArmBranches(m) ==
    \/ \E addr \in Values : Runs(branch_exchange(m, addr))
    \/ \E link \in BOOLEAN, offset \in Offsets : Runs(branch_with_link(m, link, offset))
    \/ Runs(swi_arm(m)) \/ Runs(undefined(m))

\* The result of an instruction that writes pc is lr, lr - 4 or any value.
ArmComputes(m) ==
    \/ \E by_reg, set, compares \in BOOLEAN, dest \in LinkRegs, v \in Values \union {Lr(m)} :
        /\ compares => set             \* decoded as a psr transfer otherwise
        \* the obsolete TSTP forms may not change the instruction set
        /\ compares /\ dest = 15 /\ InExceptionMode(m) => m.spsr[m.cpsr.mode].t = m.cpsr.t
        /\ Runs(data_processing(m, by_reg, set, compares, dest, v))
    \/ \E rd \in {0, 14}, v \in Values : Runs(multiply(m, rd, v)) \/ Runs(multiply_long(m, 0, rd, 0, v))

\* SUBS pc, lr, #4 ends an interrupt.
ArmReturns(m) ==
    /\ cpu' = [data_processing(m, FALSE, TRUE, FALSE, 15, Wrap(Lr(m) - 4)) EXCEPT !.owed = Nothing]
    /\ returned' = IF m.cpsr.mode = "irq" THEN m.owed ELSE Nothing

\* A program writes no invalid mode.
ArmStatus(m) ==
    \E use_spsr, control \in BOOLEAN, src \in Sources :
        /\ control => src.low
        /\ Runs(psr_transfer(m, use_spsr, control, src))

ArmTransfers(m) ==
    \/ \E load, writeback, double \in BOOLEAN, rn \in {0, 14}, rd \in LinkRegs, base, data \in Values :
        \/ Runs(single_data_transfer(m, load, writeback, rn, rd, base, data))
        \/ (double => ~load) /\ Runs(halfword_data_transfer(m, load, double, writeback, rn, rd, base, data))
    \/ \E load, psr, writeback \in BOOLEAN, rn \in {0, 14}, list \in SUBSET LinkRegs, base, data \in Values :
        Runs(block_data_transfer(m, load, psr, writeback, rn, list, base, data))
    \/ \E rd \in {0, 14}, data \in Values : Runs(single_data_swap(m, rd, data))

ThumbComputes(m) ==
    \/ \E idles \in BOOLEAN : Runs(alu(m, idles))
    \/ \E op \in {"add", "mov", "cmp", "bx"}, rd \in LinkRegs, rs \in Values \union {Lr(m)} :
        Runs(hireg_bx(m, op, rd, rs))

ThumbTransfers(m) ==
    \/ \E handled \in {pc_rel_load(m), ld_str_reg(m), ld_str_sign_extended_byte_hword(m),
                       ld_str_imm(m), ld_str_hword(m), ld_str_sp_relative(m)} : Runs(handled)
    \/ \E pop, pc_lr, empty \in BOOLEAN, data \in Values : Runs(push_pop(m, pop, pc_lr, empty, data))
    \/ \E load, empty \in BOOLEAN, data \in Values : Runs(ld_str_multiple(m, load, empty, data))

ThumbBranches(m) ==
    \/ \E offset \in Offsets :
        \/ \E met \in BOOLEAN : Runs(branch_cond(m, met, offset))
        \/ Runs(branch(m, offset))
        \/ \E second \in BOOLEAN : Runs(long_branch_link(m, second, offset))
    \/ Runs(swi_thumb(m))

execute_instruction ==
    /\ steps < MaxSteps
    /\ steps' = steps + 1
    /\ \E run \in Machines :
        LET m == run.now IN
        \/ Skipped(m)
        \/ /\ run.before.executing # NV /\ ~m.cpsr.t
           /\ ArmBranches(m) \/ ArmComputes(m) \/ ArmReturns(m) \/ ArmStatus(m) \/ ArmTransfers(m)
        \/ /\ m.cpsr.t
           /\ ThumbComputes(m) \/ ThumbTransfers(m) \/ ThumbBranches(m)

CpuSpec == CpuInit /\ [][execute_instruction]_cpuvars

----------------------------------------------------------------------------
\* Between two instructions pc is two instructions ahead of the one about to
\* run and one ahead of the decoded one, in the width of the current state;
\* the exceptions are reset, before the first two fetches, and the two
\* instructions after an empty Thumb STM, which moves pc twice and so skips
\* an instruction (execute_instruction, pipeline_flush, every handler).
PipelineFollowsPc ==
    LET size == Width(cpu.cpsr.t)
        pc == AlignTo(cpu.pc, size) IN
    cpu.skewed = 0 =>
        /\ cpu.executing \in {NV, <<Wrap(pc - 2 * size), size>>}
        /\ cpu.decoding \in {NV, <<Wrap(pc - size), size>>}

\* A fetch is announced to the bus as sequential only when the last access
\* was the fetch of the word before it, which the wait states and the
\* prefetch buffer rely on; the exception is the empty Thumb STM
\* (pipeline_.fetch_type in every handler).
SequentialFetchFollowsFetch ==
    cpu.fetch = "seq" /\ cpu.skewed = 0 => cpu.after = AlignTo(cpu.pc, Width(cpu.cpsr.t))

\* The fetches of the pipeline come in order.
PipelineInOrder == CpuTypeOK /\ PipelineFollowsPc /\ SequentialFetchFollowsFetch

\* An interrupt handler that leaves r14 and spsr of the irq mode alone and
\* ends with SUBS pc, lr, #4 resumes the very instruction that was about to
\* run, in its instruction set and mode, whatever happened between them
\* (process_interrupts, data_processing).
ResumesWhereInterrupted ==
    returned # Nothing => cpu.executing = returned.executing /\ cpu.cpsr = returned.cpsr
=============================================================================
