----------------------------- MODULE Registers ------------------------------
(***************************************************************************)
(* The banked registers of arm7tdmi: the sixteen current registers r_, a   *)
(* copy of r8 to r14 for each of the six banks, and switch_mode, which     *)
(* every exception, return, MSR and user bank transfer goes through.       *)
(***************************************************************************)
EXTENDS Naturals

CONSTANTS
    FiqRegs,    \* r8 to r12
    OwnRegs,    \* r13 and r14
    Modes,      \* the processor modes
    Contents    \* what a register can hold; they start at 0

ASSUME RegistersAssumption ==
    /\ FiqRegs \intersect OwnRegs = {}
    /\ {"usr", "svc", "fiq"} \subseteq Modes
    /\ "none" \notin Modes
    /\ 0 \in Contents

VARIABLES
    r_,             \* the current registers
    reg_banks_,     \* the copies
    mode,           \* cpsr().mode
    from            \* history: the bank fiq mode was last entered from

regvars == <<r_, reg_banks_, mode, from>>

bank_from_privilege_mode(m) == IF m \in {"usr", "sys"} THEN "none" ELSE m

Regs == FiqRegs \union OwnRegs
Banks == {bank_from_privilege_mode(m) : m \in Modes}

RegTypeOK ==
    /\ r_ \in [Regs -> Contents]
    /\ reg_banks_ \in [Banks -> [Regs -> Contents]]
    /\ mode \in Modes
    /\ from \in Banks

RegInit ==
    /\ r_ = [x \in Regs |-> 0]
    /\ reg_banks_ = [b \in Banks |-> [x \in Regs |-> 0]]
    /\ mode = "svc"
    /\ from = "none"

----------------------------------------------------------------------------
(* Mutant: the seven registers are exchanged on the way in only. *)
ExchangedOnEntry(old, new) ==
    IF old = new THEN {} ELSE IF new = "fiq" THEN Regs ELSE OwnRegs

\* The registers switch_mode exchanges: all seven when fiq is on either side.
Exchanged(old, new) ==
    IF old = new THEN {} ELSE IF "fiq" \in {old, new} THEN Regs ELSE OwnRegs

\* The copies and the current registers after a switch between two banks.
BanksAfter(banks, regs, old, new) ==
    [banks EXCEPT ![old] =
        [x \in Regs |-> IF x \in Exchanged(old, new) THEN regs[x] ELSE @[x]]]

RegsAfter(banks, regs, old, new) ==
    [x \in Regs |-> IF x \in Exchanged(old, new) THEN banks[new][x] ELSE regs[x]]

switch_mode(m) ==
    LET old == bank_from_privilege_mode(mode)
        new == bank_from_privilege_mode(m) IN
    /\ mode' = m
    /\ reg_banks_' = BanksAfter(reg_banks_, r_, old, new)
    /\ r_' = RegsAfter(reg_banks_, r_, old, new)
    /\ from' = IF new = "fiq" /\ old # "fiq" THEN old ELSE from

\* An instruction writes one of the registers it sees.
WriteRegister(x, v) ==
    /\ r_' = [r_ EXCEPT ![x] = v]
    /\ UNCHANGED <<reg_banks_, mode, from>>

\* block_data_transfer with the user bank: switch_mode(usr), the transfer of
\* register x, switch_mode(old_mode).
UserTransfer(x, v) ==
    LET old == bank_from_privilege_mode(mode)
        inner == [RegsAfter(reg_banks_, r_, old, "none") EXCEPT ![x] = v]
        banks == BanksAfter(reg_banks_, r_, old, "none") IN
    /\ reg_banks_' = BanksAfter(banks, inner, "none", old)
    /\ r_' = RegsAfter(banks, inner, "none", old)
    /\ UNCHANGED <<mode, from>>

RegNext ==
    \/ \E m \in Modes : switch_mode(m)
    \/ \E x \in Regs, v \in Contents : WriteRegister(x, v) \/ UserTransfer(x, v)

RegSpec == RegInit /\ [][RegNext]_regvars

----------------------------------------------------------------------------
\* Where the emulator keeps a physical register: in r_ when the mode sees it,
\* else in its bank's copy, and the shared r8 to r12 in the copy of the bank
\* fiq mode was entered from.
Kept(p) ==
    LET bank == bank_from_privilege_mode(mode) IN
    IF p[2] \in OwnRegs
    THEN IF p[1] = bank THEN r_[p[2]] ELSE reg_banks_[p[1]][p[2]]
    ELSE IF (p[1] = "fiq") = (bank = "fiq") THEN r_[p[2]]
         ELSE reg_banks_[IF p[1] = "fiq" THEN "fiq" ELSE from][p[2]]

Phys == (Banks \X OwnRegs) \union ({"none", "fiq"} \X FiqRegs)

File == INSTANCE RegisterFile WITH phys <- [p \in Phys |-> Kept(p)]

\* The bank switch implements the register file a program is promised: through
\* any sequence of exceptions, returns, mode changes and user bank transfers
\* no mode's registers end up in, or are read from, another mode's
\* (switch_mode, block_data_transfer).
ImplementsRegisterFile == File!RSpec
=============================================================================
