---------------------------- MODULE RegisterFile ----------------------------
(***************************************************************************)
(* What a program is promised by the banked registers of the CPU: every    *)
(* mode sees the r13 and r14 it wrote last, the fast interrupt mode sees   *)
(* its own r8 to r12, and the other modes share one r8 to r12.  The last   *)
(* part has one exception, which the emulator's bank switch makes (it      *)
(* keeps the shared registers in the bank the fast interrupt mode was      *)
(* entered from): they are lost when the mode is left for another bank,    *)
(* and the user bank transfer cannot reach them.                           *)
(***************************************************************************)
CONSTANTS
    FiqRegs,    \* the registers only the fast interrupt mode banks: r8 to r12
    OwnRegs,    \* the registers every bank has: r13 and r14
    Modes,      \* the processor modes
    Contents    \* what a register can hold

VARIABLES
    mode,       \* the mode the CPU is in
    from,       \* the bank the fast interrupt mode was last entered from
    phys        \* the contents of each physical register

rvars == <<mode, from, phys>>

bank_from_privilege_mode(m) == IF m \in {"usr", "sys"} THEN "none" ELSE m

Regs == FiqRegs \union OwnRegs
Banks == {bank_from_privilege_mode(m) : m \in Modes}

\* The physical register a mode sees under a name.
Seen(m, x) ==
    IF x \in OwnRegs
    THEN <<bank_from_privilege_mode(m), x>>
    ELSE <<IF m = "fiq" THEN "fiq" ELSE "none", x>>

Phys == (Banks \X OwnRegs) \union ({"none", "fiq"} \X FiqRegs)

RInit ==
    /\ mode \in Modes \ {"fiq"}
    /\ from = "none"
    /\ phys \in [Phys -> Contents]

RWrite ==
    \E x \in Regs, v \in Contents :
        /\ phys' = [phys EXCEPT ![Seen(mode, x)] = v]
        /\ UNCHANGED <<mode, from>>

\* A switch moves no contents, except when it leaves the fast interrupt mode
\* for another bank than the one the mode was entered from.
RSwitch ==
    \E m \in Modes :
        LET old == bank_from_privilege_mode(mode)
            new == bank_from_privilege_mode(m) IN
        /\ mode' = m
        /\ from' = IF new = "fiq" /\ old # "fiq" THEN old ELSE from
        /\ phys' \in [Phys -> Contents]
        /\ \A p \in Phys :
               phys'[p] = phys[p] \/ /\ old = "fiq" /\ new \notin {"fiq", from}
                                     /\ p \in {"none"} \X FiqRegs

\* LDM with the user bank: writes user registers from another mode.
RUserWrite ==
    \E x \in Regs, v \in Contents :
        /\ phys' = IF mode = "fiq" /\ from # "none" /\ x \in FiqRegs
                   THEN phys
                   ELSE [phys EXCEPT ![Seen("usr", x)] = v]
        /\ UNCHANGED <<mode, from>>

RNext == RWrite \/ RSwitch \/ RUserWrite

RSpec == RInit /\ [][RNext]_rvars
=============================================================================
