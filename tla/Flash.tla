------------------------------- MODULE Flash --------------------------------
(***************************************************************************)
(* The flash chip of a game pak (cartridge/backup.cpp, backup_flash): two  *)
(* unlocking writes and a command, of which some are completed by one more *)
(* write.  The flags of the commands in progress outlive a sequence.       *)
(*                                                                         *)
(* The other actor is the program, which sends well-formed commands, and   *)
(* may select a bank of a chip that has one only.  `wanted' is what the    *)
(* commands it has completed should have done.                             *)
(***************************************************************************)
EXTENDS Integers, Sequences

CONSTANTS
    Banks,              \* 2 when size() is 128 kb, else 1
    BankSize,           \* addresses of a bank, 64 kb in the code
    SectorSize,         \* 4 kb in the code
    cmd_addr1,          \* 0x5555: the addresses here are those within the bank
    cmd_addr2,          \* 0x2AAA
    Values              \* bytes that the program stores

Erased == 255

ASSUME FlashAssumption ==
    /\ Banks \in {1, 2}
    /\ BankSize \in Nat \ {0} /\ SectorSize \in Nat \ {0}
    /\ cmd_addr1 \in 1..(BankSize - 1) /\ cmd_addr2 \in 1..(BankSize - 1)
    /\ cmd_addr1 % SectorSize # 0
    /\ Values \subseteq 0..255

VARIABLES
    data,               \* data(), by bank
    current_bank,       \* current_bank_
    state,              \* state_
    current_cmds,       \* the flags of current_cmds_
    sending,            \* the writes that the program still has to make
    wanted              \* a ghost: the memory, bank and mode that it wants

chip == <<data, current_bank, state, current_cmds>>
vars == <<chip, sending, wanted>>

Offsets == 0..(BankSize - 1)
AllErased == [b \in 0..(Banks - 1) |-> [a \in Offsets |-> Erased]]

Init ==
    /\ data = AllErased
    /\ current_bank = 0
    /\ state = "accept_cmd"
    /\ current_cmds = {}
    /\ sending = <<>>
    /\ wanted = [memory |-> AllErased, bank |-> 0, identify |-> FALSE]

At(address, value) == [address |-> address, value |-> value]
-----------------------------------------------------------------------------
(* write, one action per state. *)
AcceptCmd(w) ==
    /\ state = "accept_cmd"
    /\ state' = IF w = At(cmd_addr1, 170) THEN "cmd_phase1" ELSE state
    /\ UNCHANGED <<data, current_bank, current_cmds>>

(* Any other write leaves the phase as it is. *)
CmdPhase1(w) ==
    /\ state = "cmd_phase1"
    /\ state' = IF w = At(cmd_addr2, 85) THEN "cmd_phase2" ELSE state
    /\ UNCHANGED <<data, current_bank, current_cmds>>

(* The flags after a command.  Mutant: one is not cleared. *)
FlagsAfterEraseKept(value) ==
    CASE value = 144 -> current_cmds \cup {"device_id"}
      [] value = 240 -> current_cmds \ {"device_id"}
      [] value = 128 -> current_cmds \cup {"erase"}
      [] value = 160 -> current_cmds \cup {"write_byte"}
      [] value = 176 -> current_cmds \cup {"select_bank"}
      [] OTHER -> current_cmds
FlagsAfter(value) ==
    CASE value = 144 -> current_cmds \cup {"device_id"}
      [] value = 240 -> current_cmds \ {"device_id"}
      [] value = 128 -> current_cmds \cup {"erase"}
      [] value = 160 -> current_cmds \cup {"write_byte"}
      [] value = 176 /\ Banks = 2 -> current_cmds \cup {"select_bank"}
      [] value = 16 -> current_cmds \ {"erase"}
      [] OTHER -> current_cmds

(* The sector of a bank.  Mutant: it lies in the first bank always. *)
SectorOfFirstBank(address) ==
    [data EXCEPT ![0] = [a \in Offsets |->
        IF a \div SectorSize = address \div SectorSize THEN Erased ELSE @[a]]]
SectorErased(address) ==
    [data EXCEPT ![current_bank] = [a \in Offsets |->
        IF a \div SectorSize = address \div SectorSize THEN Erased ELSE @[a]]]

Command(w) ==
    /\ w.address = cmd_addr1
    /\ current_cmds' = FlagsAfter(w.value)
    /\ state' = IF w.value = 160 \/ (w.value = 176 /\ Banks = 2) THEN "cmd_phase3" ELSE "accept_cmd"
    /\ data' = IF w.value = 16 /\ "erase" \in current_cmds THEN AllErased ELSE data

EraseSector(w) ==
    /\ w.address # cmd_addr1
    /\ state' = "accept_cmd"
    /\ IF w.address % SectorSize = 0 /\ "erase" \in current_cmds /\ w.value = 48
         THEN /\ current_cmds' = current_cmds \ {"erase"}
              /\ data' = SectorErased(w.address)
         ELSE UNCHANGED <<current_cmds, data>>

CmdPhase2(w) ==
    /\ state = "cmd_phase2"
    /\ Command(w) \/ EraseSector(w)
    /\ UNCHANGED current_bank

(* Whether the write selects a bank. *)
Selects(w) == "select_bank" \in current_cmds /\ w.address = 0

CmdPhase3(w) ==
    /\ state = "cmd_phase3"
    /\ state' = "accept_cmd"
    /\ IF Selects(w)
         THEN /\ current_bank' = w.value % 2
              /\ current_cmds' = current_cmds \ {"select_bank"}
              /\ UNCHANGED data
         ELSE /\ data' = [data EXCEPT ![current_bank][w.address] = w.value]
              /\ current_cmds' = current_cmds \ {"write_byte"}
              /\ UNCHANGED current_bank

Write(w) == AcceptCmd(w) \/ CmdPhase1(w) \/ CmdPhase2(w) \/ CmdPhase3(w)

(* read: two addresses are the device's id while it is asked for. *)
IdentifyMode == "device_id" \in current_cmds
-----------------------------------------------------------------------------
(* The commands, as the writes that make them up and what they mean. *)
Unlock == <<At(cmd_addr1, 170), At(cmd_addr2, 85)>>
Issue(value) == Unlock \o <<At(cmd_addr1, value)>>

Send(writes, meaning) ==
    /\ sending = <<>>
    /\ sending' = writes
    /\ wanted' = meaning
    /\ UNCHANGED chip

SendIdentify(on) ==
    Send(Issue(IF on THEN 144 ELSE 240), [wanted EXCEPT !.identify = on])

SendEraseChip ==
    Send(Issue(128) \o Issue(16), [wanted EXCEPT !.memory = AllErased])

SendEraseSector(sector) ==
    Send(Issue(128) \o Unlock \o <<At(sector * SectorSize, 48)>>,
         [wanted EXCEPT !.memory[wanted.bank] =
            [a \in Offsets |-> IF a \div SectorSize = sector THEN Erased ELSE @[a]]])

SendWriteByte(address, value) ==
    Send(Issue(160) \o <<At(address, value)>>,
         [wanted EXCEPT !.memory[wanted.bank][address] = value])

SendSelectBank(b) ==
    Send(Issue(176) \o <<At(0, b)>>,
         [wanted EXCEPT !.bank = IF Banks = 2 THEN b ELSE @])

SendNext ==
    /\ sending # <<>>
    /\ Write(Head(sending))
    /\ sending' = Tail(sending)
    /\ UNCHANGED wanted

Next ==
    \/ \E on \in BOOLEAN : SendIdentify(on)
    \/ SendEraseChip
    \/ \E sector \in {a \div SectorSize : a \in Offsets} : SendEraseSector(sector)
    \/ \E address \in Offsets, value \in Values : SendWriteByte(address, value)
    \/ \E b \in 0..1 : SendSelectBank(b)
    \/ SendNext

Spec == Init /\ [][Next]_vars
-----------------------------------------------------------------------------
(* The state is well formed: the selected bank exists, and a flag that a third
   phase completes is set only in that phase. *)
TypeOK ==
    /\ data \in [0..(Banks - 1) -> [Offsets -> 0..255]]
    /\ current_bank \in 0..(Banks - 1)
    /\ state \in {"accept_cmd", "cmd_phase1", "cmd_phase2", "cmd_phase3"}
    /\ current_cmds \subseteq {"device_id", "erase", "write_byte", "select_bank"}
    /\ state # "cmd_phase3" => current_cmds \cap {"write_byte", "select_bank"} = {}

(* A command that has been sent has done what it should, in the bank it should,
   and nothing else; no flag of it is left over. *)
Obeyed ==
    sending = <<>> =>
        /\ data = wanted.memory
        /\ current_bank = wanted.bank
        /\ IdentifyMode = wanted.identify
        /\ state = "accept_cmd"
        /\ current_cmds \subseteq {"device_id"}

(* The single writes implement commands that take effect at once. *)
Chip == INSTANCE FlashChip WITH memory <- data, bank <- current_bank, identify <- IdentifyMode,
                                Values <- 0..255

ImplementsFlashChip == Chip!Spec
=============================================================================
