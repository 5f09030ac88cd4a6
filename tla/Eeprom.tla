------------------------------- MODULE Eeprom -------------------------------
(***************************************************************************)
(* The serial EEPROM of a game pak (cartridge/backup.cpp, backup_eeprom):  *)
(* a request is sent to it bit by bit, mostly by the DMA, and it answers   *)
(* bit by bit.  A write makes it busy until the scheduler calls on_settle. *)
(* The width of its addresses may be unknown until it is first written to: *)
(* gamepak keeps the type of the chip, and the chip the width.  A reset of *)
(* the machine loads the state of when the pak was inserted into the chip. *)
(*                                                                         *)
(* The other actor is the program, which sends well-formed requests.       *)
(* `written' is what it has a right to find in the chip.                   *)
(***************************************************************************)
EXTENDS Integers, Sequences

CONSTANTS
    ChipWidth,              \* the width of addresses that the program uses
    Narrow, Wide,           \* the widths there are: 6 and 14 in the code
    Words,                  \* words that an address can name: 1024, from the mask 0x1FFF
    WordBits,               \* 64 in the code
    IgnoredBits,            \* 4
    eeprom_settle_cycles,   \* 115'000; the model's bits take one cycle each
    EepromValues,           \* the words that the program writes
    WriteFirst,             \* whether the first request may be a write
    ResetAfterDetection     \* whether the user may reset once the width has been detected

ASSUME EepromAssumption ==
    /\ Narrow \in Nat \ {0} /\ Wide \in Nat /\ Narrow < Wide
    /\ ChipWidth \in {Narrow, Wide}
    /\ Words \in Nat \ {0} /\ WordBits \in Nat \ {0} /\ IgnoredBits \in Nat \ {0}
    /\ eeprom_settle_cycles \in Nat \ {0}
    /\ EepromValues \subseteq 0..(2^WordBits - 1)
    /\ WriteFirst \in BOOLEAN /\ ResetAfterDetection \in BOOLEAN

VARIABLES
    eeprom,             \* the members of backup_eeprom; bus_width 0 is not yet detected
    detected,           \* backup_type() of the pak is not eeprom_undetected
    default_width,      \* bus_width in the default state of the machine
    memory,             \* data(), by word
    settles,            \* cycles to each on_settle in the scheduler
    request,            \* what the program is doing
    unsent,             \* the bits of the request that it has not yet sent
    received,           \* the bits that it has received
    ready,              \* the chip answered 1 when it was last polled, or never wrote
    patient,            \* a ghost: the program has begun each request when it was ready
    written             \* a ghost: the words that the program has written

eepromchip == <<eeprom, detected, default_width, memory, settles>>
eepromprogram == <<request, unsent, received, ready, patient, written>>
eepromvars == <<eepromchip, eepromprogram>>

Idle == [op |-> "none", address |-> 0, value |-> 0]
Addresses == 0..(Words - 1)
Unwritten == [a \in Addresses |-> 2^WordBits - 1]

Constructed(width) ==
    [buffer |-> 0, address |-> 0, bus_width |-> width, settled_response |-> 1,
     transmission_count |-> 0, state |-> "accepting_commands", cmd |-> "none"]

EepromInit ==
    /\ detected \in BOOLEAN
    /\ default_width = IF detected THEN ChipWidth ELSE 0
    /\ eeprom = Constructed(default_width)
    /\ memory = Unwritten
    /\ settles = {}
    /\ request = Idle
    /\ unsent = <<>>
    /\ received = <<>>
    /\ ready = TRUE
    /\ patient = TRUE
    /\ written = memory
-----------------------------------------------------------------------------
(* write, after the bit is in the buffer: one operator per state. *)
ResetBuffer(e) == [e EXCEPT !.buffer = 0, !.transmission_count = 0]

AcceptCommand(e) ==
    IF e.transmission_count # 2 THEN e
    ELSE CASE e.buffer = 2 -> ResetBuffer([e EXCEPT !.state = "transmitting_addr", !.cmd = "write"])
           [] e.buffer = 3 -> ResetBuffer([e EXCEPT !.state = "transmitting_addr", !.cmd = "read"])
           [] OTHER -> ResetBuffer(e)

TransmitAddress(e) ==
    IF e.transmission_count # e.bus_width THEN e
    ELSE ResetBuffer([e EXCEPT !.address = e.buffer % Words,
                               !.state = IF e.cmd = "write" THEN "transmitting_data"
                                         ELSE "waiting_finish_bit"])

WordEnds(e) == ResetBuffer([e EXCEPT !.state = "waiting_finish_bit", !.settled_response = 0])

Word(e) == e.state = "transmitting_data" /\ e.cmd = "write" /\ e.transmission_count = WordBits

Finish(e) ==
    ResetBuffer(IF e.cmd = "write" THEN [e EXCEPT !.state = "accepting_commands", !.cmd = "none"]
                ELSE [e EXCEPT !.state = "transmitting_ignored_bits"])

Shifted(e, bit) ==
    [e EXCEPT !.buffer = (2 * e.buffer + bit) % 2^WordBits,
              !.transmission_count = (e.transmission_count + 1) % 256]

AfterBit(e) ==
    CASE e.state = "accepting_commands" -> AcceptCommand(e)
      [] e.state = "transmitting_addr" -> TransmitAddress(e)
      [] Word(e) -> WordEnds(e)
      [] e.state = "waiting_finish_bit" -> Finish(e)
      [] OTHER -> e

(* The word that an address erases, and the one that a write stores. *)
MemoryAfterBit(e) ==
    CASE e.state = "transmitting_addr" /\ e.cmd = "write" /\ e.transmission_count = e.bus_width ->
            [memory EXCEPT ![e.buffer % Words] = 0]
      [] Word(e) -> [memory EXCEPT ![e.address] = e.buffer]
      [] OTHER -> memory

(* core::write: the first write finds the width from the length of the DMA
   transfer, which is that of the request. *)
RequestLength(op, width) == 2 + width + (IF op = "write" THEN WordBits ELSE 0) + 1

(* Mutant: one bit less. *)
BusWidthShort(length) == IF length = RequestLength("read", Wide) - 1 THEN Wide ELSE Narrow
BusWidth(length) == IF length = RequestLength("read", Wide) THEN Wide ELSE Narrow

Detected(e, length) ==
    IF detected THEN e ELSE [e EXCEPT !.bus_width = BusWidth(length)]

(* An access takes a cycle, and on_settle runs when its time comes. *)
Elapsed == {cycles - 1 : cycles \in settles} \ {0}
Settling(e) == IF 1 \in settles THEN [e EXCEPT !.settled_response = 1] ELSE e
-----------------------------------------------------------------------------
(* read: what it answers, and the state after it. *)
(* Mutant: the lowest bit first. *)
BitLowest(e) == (e.buffer \div 2^e.transmission_count) % 2
Bit(e) == (e.buffer \div 2^(WordBits - 1 - e.transmission_count)) % 2

Answer(e) ==
    CASE e.cmd = "read" /\ e.state = "transmitting_ignored_bits" -> 0
      [] e.cmd = "read" /\ e.state = "transmitting_data" -> Bit(e)
      [] OTHER -> e.settled_response

Ignored(e) == e.transmission_count + 1 = IgnoredBits

AfterRead(e) ==
    CASE e.cmd = "read" /\ e.state = "transmitting_ignored_bits" ->
            IF Ignored(e)
              THEN [e EXCEPT !.state = "transmitting_data", !.transmission_count = 0,
                             !.buffer = memory[e.address]]
              ELSE [e EXCEPT !.transmission_count = @ + 1]
      [] e.cmd = "read" /\ e.state = "transmitting_data" ->
            IF e.transmission_count + 1 = WordBits
              THEN ResetBuffer([e EXCEPT !.state = "accepting_commands", !.cmd = "none"])
              ELSE [e EXCEPT !.transmission_count = @ + 1]
      [] OTHER -> e
-----------------------------------------------------------------------------
(* The bits of a number, the highest first. *)
Bits(n, width) == [i \in 1..width |-> (n \div 2^(width - i)) % 2]

RequestBits(op, address, value) ==
    (IF op = "read" THEN <<1, 1>> ELSE <<1, 0>>) \o Bits(address, ChipWidth)
      \o (IF op = "write" THEN Bits(value, WordBits) ELSE <<>>) \o <<0>>

(* The program makes a request. *)
Start(op, address, value) ==
    /\ request = Idle
    /\ ~detected /\ op = "write" => WriteFirst
    /\ request' = [op |-> op, address |-> address, value |-> value]
    /\ unsent' = RequestBits(op, address, value)
    /\ received' = <<>>
    /\ patient' = (patient /\ ready)
    /\ UNCHANGED <<eepromchip, ready, written>>

(* It sends a bit. *)
SendBit ==
    /\ unsent # <<>>
    /\ LET length == RequestLength(request.op, ChipWidth)
           e == Shifted(Detected(Settling(eeprom), length), Head(unsent))
       IN  /\ eeprom' = AfterBit(e)
           /\ memory' = MemoryAfterBit(e)
           /\ settles' = Elapsed \cup (IF Word(e) THEN {eeprom_settle_cycles} ELSE {})
    /\ detected' = TRUE
    /\ unsent' = Tail(unsent)
    /\ IF request.op = "write" /\ Len(unsent) = 1
         THEN /\ request' = Idle
              /\ ready' = FALSE
              /\ written' = [written EXCEPT ![request.address % Words] = request.value]
         ELSE UNCHANGED <<request, ready, written>>
    /\ UNCHANGED <<default_width, received, patient>>

(* It receives a bit of the word that it has asked for. *)
ReceiveBit ==
    /\ request.op = "read"
    /\ unsent = <<>>
    /\ Len(received) < IgnoredBits + WordBits
    /\ LET e == Settling(eeprom)
       IN  /\ received' = Append(received, Answer(e))
           /\ eeprom' = AfterRead(e)
    /\ settles' = Elapsed
    /\ UNCHANGED <<detected, default_width, memory, request, unsent, ready, patient, written>>

(* It has the word. *)
Done ==
    /\ Len(received) = IgnoredBits + WordBits
    /\ request' = Idle
    /\ received' = <<>>
    /\ UNCHANGED <<eepromchip, unsent, ready, patient, written>>

(* It polls the chip between its requests, or lets time pass. *)
Poll ==
    /\ request = Idle
    /\ LET e == Settling(eeprom)
       IN  /\ ready' = (Answer(e) = 1)
           /\ eeprom' = AfterRead(e)
    /\ settles' = Elapsed
    /\ UNCHANGED <<detected, default_width, memory, request, unsent, received, patient, written>>

Wait ==
    /\ settles # {}
    /\ eeprom' = Settling(eeprom)
    /\ settles' = Elapsed
    /\ UNCHANGED <<detected, default_width, memory, eepromprogram>>

(* core::reset, at any time: the chip and its file are those of the default state,
   and no event is scheduled, but gamepak goes on knowing the type. *)
Reset ==
    /\ detected /\ default_width = 0 => ResetAfterDetection
    /\ eeprom' = Constructed(default_width)
    /\ memory' = Unwritten /\ written' = Unwritten
    /\ settles' = {}
    /\ request' = Idle /\ unsent' = <<>> /\ received' = <<>>
    /\ ready' = TRUE /\ patient' = TRUE
    /\ UNCHANGED <<detected, default_width>>

EepromNext ==
    \/ \E address \in 0..(2^ChipWidth - 1) :
        \/ Start("read", address, 0)
        \/ \E value \in EepromValues : Start("write", address, value)
    \/ SendBit
    \/ ReceiveBit
    \/ Done
    \/ Poll
    \/ Wait
    \/ Reset
-----------------------------------------------------------------------------
(* The program and the chip stay in step: between requests the chip expects
   one, it holds what the program has written, in every word, and it answers
   1 to a program that polls it before each request only when the last word
   has settled.  A request that is made before that is accepted as well, and
   then the event of the first word reports the second. *)
InStep ==
    request = Idle =>
        /\ eeprom.state = "accepting_commands" /\ eeprom.cmd = "none"
        /\ eeprom.transmission_count = 0 /\ eeprom.buffer = 0
        /\ memory = written
        /\ patient /\ ready => settles = {}

(* The word that the program receives is the one that it wrote there last, and
   zeros come before it. *)
ReadsBack ==
    Len(received) = IgnoredBits + WordBits =>
        received = Bits(written[request.address % Words], IgnoredBits + WordBits)

(* The chip knows its width when it takes an address: that is what detection on
   the first write is for (backup.h, backup_eeprom). *)
WidthKnown ==
    eeprom.state = "transmitting_addr" => eeprom.bus_width # 0
=============================================================================
