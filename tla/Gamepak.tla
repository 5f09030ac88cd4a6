------------------------------ MODULE Gamepak -------------------------------
(***************************************************************************)
(* The game pak that is inserted (cartridge/gamepak.cpp): loading a pak    *)
(* finds its kind of backup in a database or by the marks in the program,  *)
(* makes the chip with its file, and the bus forwards accesses by the kind *)
(* (core_bus.inl).  Members of gamepak outlive the pak they were found for.*)
(*                                                                         *)
(* The chip that settles has an event in the scheduler, and the registry   *)
(* by which events are saved knows the first such chip only.  A chip's     *)
(* address may be used again once it is gone.                              *)
(***************************************************************************)
EXTENDS Naturals

CONSTANTS
    Paks,           \* files of paks, and of none
    Entry,          \* of a pak: its row of the database, or a row of type "missing"
    Marks           \* of a pak: the kind that its program's strings tell, or "detect"

Eeproms == {"eeprom_undetected", "eeprom_4", "eeprom_64"}
SramFlash == {"sram", "flash_64", "flash_128"}
Kinds == Eeproms \union SramFlash

ASSUME GamepakAssumption ==
    \A p \in Paks :
        /\ Entry[p] \in [type : Kinds \union {"none", "detect", "missing"}, rtc : BOOLEAN, mirroring : BOOLEAN]
        /\ Marks[p] \in Kinds \union {"detect"}

VARIABLES
    path_, loaded_, backup_type_, has_rtc_, has_mirroring_,
    backup_,            \* [address, kind, file]; address 0 is no chip
    registered,         \* the address in the registry, 0 before
    settle_event,       \* the address that the scheduler's event has, 0 when there is none
    archived,           \* the paks of which a slot has an archive with such an event
    writers             \* a ghost: the paks that have written each pak's file

gamepakvars == <<path_, loaded_, backup_type_, has_rtc_, has_mirroring_, backup_, registered,
                 settle_event, archived, writers>>

NoPak == "none"
NoChip == [address |-> 0, kind |-> "none", file |-> NoPak]

GamepakInit ==
    /\ path_ = NoPak /\ loaded_ = FALSE
    /\ backup_type_ = "detect"
    /\ has_rtc_ = FALSE /\ has_mirroring_ = FALSE
    /\ backup_ = NoChip
    /\ registered = 0 /\ settle_event = 0
    /\ archived \in SUBSET {p \in Paks : Entry[p].type \in Eeproms}
    /\ writers = [p \in Paks |-> {}]
-----------------------------------------------------------------------------
\* The new chip is made before the old one goes, so not where that is.
make_backup_from_type(type, path) ==
    IF type = "none" THEN {NoChip}
    ELSE [address : {1, 2} \ {backup_.address}, kind : {type}, file : {path}]

\* The constructor of an EEPROM registers its event, unless the name is taken.
Makes(chip) ==
    /\ backup_' = chip
    /\ registered' = IF chip.kind \in Eeproms /\ registered = 0 THEN chip.address ELSE registered

Described(path) == Entry[path].type \notin {"missing", "detect"}

\* The database, then the marks; what an earlier pak had stays when neither tells.
detect_backup_type(path) ==
    IF Described(path)
    THEN /\ backup_type_' = Entry[path].type
         /\ has_mirroring_' = Entry[path].mirroring
         /\ has_rtc_' = Entry[path].rtc
         /\ \E chip \in make_backup_from_type(Entry[path].type, path) : Makes(chip)
    ELSE /\ UNCHANGED <<has_mirroring_, has_rtc_>>
         /\ IF Marks[path] = "detect" /\ backup_type_ # "detect"
              THEN UNCHANGED <<backup_type_, backup_, registered>>
              ELSE /\ backup_type_' = IF Marks[path] # "detect" THEN Marks[path] ELSE "sram"
                   /\ \E chip \in make_backup_from_type(backup_type_', path) : Makes(chip)

(* Mutant: the kind of backup stays. *)
EjectKeepsType == backup_' = NoChip /\ UNCHANGED backup_type_
Eject == backup_' = NoChip /\ backup_type_' = "none"

\* window::load_rom: the machine is reset to the state of the pak's insertion, in
\* which no chip settles, and the next pak is loaded.
Load(path) ==
    /\ path_' = path
    /\ loaded_' = TRUE
    /\ settle_event' = 0
    /\ detect_backup_type(path)
    /\ UNCHANGED <<archived, writers>>

LoadNoFile ==
    /\ path_' = NoPak
    /\ loaded_' = FALSE
    /\ settle_event' = 0
    /\ Eject
    /\ UNCHANGED <<has_rtc_, has_mirroring_, registered, archived, writers>>

is_eeprom(type) == type \in Eeproms
is_sram_flash(type) == type \in SramFlash

Stores == writers' = [p \in Paks |-> IF p = backup_.file THEN writers[p] \union {path_} ELSE writers[p]]

\* A DMA to the EEPROM; the first one finds its width.
WriteEeprom(type) ==
    /\ loaded_ /\ is_eeprom(backup_type_)
    /\ backup_type_' = IF backup_type_ = "eeprom_undetected" THEN type ELSE backup_type_
    /\ settle_event' = backup_.address
    /\ Stores
    /\ UNCHANGED <<path_, loaded_, has_rtc_, has_mirroring_, backup_, registered, archived>>

WriteSramFlash ==
    /\ loaded_ /\ is_sram_flash(backup_type_)
    /\ Stores
    /\ UNCHANGED <<path_, loaded_, backup_type_, has_rtc_, has_mirroring_, backup_, registered,
                   settle_event, archived>>

on_settle ==
    /\ settle_event # 0
    /\ settle_event' = 0
    /\ UNCHANGED <<path_, loaded_, backup_type_, has_rtc_, has_mirroring_, backup_, registered,
                   archived, writers>>

\* An event whose callback is not in the registry ends the program in a panic.
SaveState ==
    /\ loaded_
    /\ settle_event \in {0, registered}
    /\ archived' = IF settle_event # 0 THEN archived \union {path_} ELSE archived \ {path_}
    /\ UNCHANGED <<path_, loaded_, backup_type_, has_rtc_, has_mirroring_, backup_, registered,
                   settle_event, writers>>

\* Slots belong to a pak, and outlive the program.
LoadState ==
    /\ loaded_ /\ is_eeprom(backup_type_)
    /\ settle_event' = IF path_ \in archived THEN registered ELSE 0
    /\ UNCHANGED <<path_, loaded_, backup_type_, has_rtc_, has_mirroring_, backup_, registered,
                   archived, writers>>

GamepakNext ==
    \/ \E p \in Paks : Load(p)
    \/ LoadNoFile
    \/ \E type \in {"eeprom_4", "eeprom_64"} : WriteEeprom(type)
    \/ WriteSramFlash
    \/ on_settle
    \/ SaveState
    \/ LoadState
-----------------------------------------------------------------------------
\* What tells the kind of its backup.
Tells(path) == Described(path) \/ Marks[path] # "detect"

(* However paks follow each other, an access that the bus forwards finds a chip
   of the kind that gamepak has in mind, which it is cast to, and a pak whose kind
   is known writes its own file: the file of such a pak has been written by
   itself, or by paks of which nothing is known (gamepak::load). *)
ChipMatchesPak ==
    /\ is_eeprom(backup_type_) => backup_.kind \in Eeproms
    /\ is_sram_flash(backup_type_) => backup_.kind = backup_type_
    /\ \A p \in Paks : \A q \in writers[p] : Tells(q) => p = q

(* What a save of the machine asserts (scheduler::hw_event::serialize): the
   registry knows the callback of every event. *)
EventsRegistered ==
    settle_event \in {0, registered}
=============================================================================
