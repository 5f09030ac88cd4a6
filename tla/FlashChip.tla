----------------------------- MODULE FlashChip ------------------------------
(***************************************************************************)
(* What a flash chip promises: each command takes effect at once and as a  *)
(* whole.  Flash implements it with a sequence of single writes.           *)
(***************************************************************************)
EXTENDS Integers

CONSTANTS
    Banks,              \* banks of memory
    BankSize,           \* addresses of a bank
    SectorSize,         \* addresses that are erased together
    Erased,             \* 0xFF
    Values              \* what can be programmed

VARIABLES
    memory,             \* memory[bank][address]
    bank,               \* the one that is selected
    identify            \* the first two addresses read as the device id

vars == <<memory, bank, identify>>

Offsets == 0..(BankSize - 1)

Init ==
    /\ memory = [b \in 0..(Banks - 1) |-> [a \in Offsets |-> Erased]]
    /\ bank = 0
    /\ identify = FALSE

WriteByte(address, value) ==
    /\ memory' = [memory EXCEPT ![bank][address] = value]
    /\ UNCHANGED <<bank, identify>>

EraseSector(sector) ==
    /\ memory' = [memory EXCEPT ![bank] =
                    [a \in Offsets |-> IF a \div SectorSize = sector THEN Erased ELSE @[a]]]
    /\ UNCHANGED <<bank, identify>>

EraseChip ==
    /\ memory' = [b \in 0..(Banks - 1) |-> [a \in Offsets |-> Erased]]
    /\ UNCHANGED <<bank, identify>>

SelectBank(b) ==
    /\ bank' = b
    /\ UNCHANGED <<memory, identify>>

Identify(on) ==
    /\ identify' = on
    /\ UNCHANGED <<memory, bank>>

Next ==
    \/ \E address \in Offsets, value \in Values : WriteByte(address, value)
    \/ \E sector \in {a \div SectorSize : a \in Offsets} : EraseSector(sector)
    \/ EraseChip
    \/ \E b \in 0..(Banks - 1) : SelectBank(b)
    \/ \E on \in BOOLEAN : Identify(on)

Spec == Init /\ [][Next]_vars
=============================================================================
