------------------------------- MODULE MCCpu --------------------------------
(***************************************************************************)
(* Seven parts of the processor that share no state, each from its own     *)
(* initial state while the others rest: the pipeline and its handlers, the *)
(* banked registers, the arithmetic, the decoder tables, the prefetch      *)
(* buffer, the interrupt controller and the keypad that asks for           *)
(* interrupts.  There are two sources of them, in two bytes of the         *)
(* registers, and two handles; the keypad has two keys in the low byte of  *)
(* its registers and one in the high byte.                                 *)
(***************************************************************************)
EXTENDS Cpu, Registers, Alu, Decoder, Prefetch, Irq, Keypad

CONSTANTS vblank, dma, h1, h2

VARIABLE part

busvars == <<prefetchvars, vars, keypadvars>>
processorvars == <<cpuvars, regvars, aluvars, instr, busvars, part>>

ProcessorInit ==
    /\ part \in {"pipeline", "registers", "arithmetic", "decoder", "prefetch", "irq", "keypad"}
    /\ CpuInit /\ (part = "pipeline" \/ cpu.pc = 0)
    /\ RegInit
    /\ AluInit
    /\ DecoderInit
    /\ PrefetchInit
    /\ Init /\ (part = "irq" \/ irq_signal_delay_handle = h1)
    /\ KeypadInit

\* The program has run.
Rest == steps = MaxSteps /\ UNCHANGED cpuvars

IrqActs(action) ==
    /\ part = "irq" /\ action
    /\ UNCHANGED <<cpuvars, regvars, aluvars, instr, prefetchvars, keypadvars, part>>

OthersAct ==
    /\ UNCHANGED <<vars, part>>
    /\ \/ part = "pipeline" /\ (execute_instruction \/ Rest)
          /\ UNCHANGED <<regvars, aluvars, instr, prefetchvars, keypadvars>>
       \/ part = "registers" /\ RegNext
          /\ UNCHANGED <<cpuvars, aluvars, instr, prefetchvars, keypadvars>>
       \/ part = "arithmetic" /\ AluNext
          /\ UNCHANGED <<cpuvars, regvars, instr, prefetchvars, keypadvars>>
       \/ part = "decoder" /\ DecoderNext
          /\ UNCHANGED <<cpuvars, regvars, aluvars, prefetchvars, keypadvars>>
       \/ part = "prefetch" /\ PrefetchNext
          /\ UNCHANGED <<cpuvars, regvars, aluvars, instr, keypadvars>>
       \/ part = "keypad" /\ KeypadNext
          /\ UNCHANGED <<cpuvars, regvars, aluvars, instr, prefetchvars>>

ProcessorNext == IrqActs(Next) \/ OthersAct

IrqFairness ==
    /\ WF_processorvars(IrqActs(AddCycles))
    /\ WF_processorvars(IrqActs(Cpu))
    /\ SF_processorvars(IrqActs(UpdateIrqSignal))
    /\ SF_processorvars(IrqActs(TickComponentsReturns))

ProcessorSpec == ProcessorInit /\ [][ProcessorNext]_processorvars /\ IrqFairness

MCIrqs == {vblank, dma}
MCBytes == {{vblank}, {dma}}
MCHandles == {h1, h2}

\* Comparisons, additions, subtractions and shifts give the results and flags
\* that their definitions by order, by exact sums and by single steps give
\* (arm7tdmi_alu.cpp, math.h).
ArithmeticIsExact == part = "arithmetic" => ConditionsCompare /\ ShiftsBitByBit

\* A Thumb ALU instruction gives the result and the flags of the ARM
\* instruction it abbreviates, but for the carry flag of a multiplication, on
\* which the two handlers differ (alu, data_processing, multiply).
ThumbMeansArm == part = "arithmetic" => ThumbAgreesWithArm

\* Every instruction the architecture defines is handled by the CPU as what
\* the debugger says it is (generate_arm, generate_thumb, arm_table_,
\* thumb_table_).
TablesAgree == part = "decoder" => DecodersAgree
=============================================================================
