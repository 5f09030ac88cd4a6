-------------------------------- MODULE Rtc ---------------------------------
(***************************************************************************)
(* The clock of a game pak on its general-purpose port (cartridge/rtc.cpp, *)
(* gpio and rtc): the program drives three pins, one write of the port at  *)
(* a time.  While CS is high each rise of SCK moves one bit over SIO.      *)
(*                                                                         *)
(* The other actor is the program, which makes whole requests or gives one *)
(* up on the way.  `expected' is what its requests should have done.       *)
(***************************************************************************)
EXTENDS Integers, Sequences

CONSTANTS
    Times,          \* what the host's clock may say: year, month, day, weekday, hour, minute, second
    Parameters,     \* bytes that the program sends after a command
    GiveUpAt,       \* numbers of bits, left to send or read, at which it may give a request up
    Codes,          \* of the commands it sends: 1, 5 and 7 mean nothing alike
    Strays,         \* bytes that it sends and that are no command in either order of bits
    MayReverse,     \* whether it may send a command with its bits in the other order
    MaxRequests     \* how many requests it begins

ASSUME RtcAssumption ==
    /\ Times \subseteq [1..7 -> 0..99]
    /\ Parameters \subseteq 0..255
    /\ GiveUpAt \subseteq Nat
    /\ Codes \subseteq 0..7
    /\ Strays \subseteq {byte \in 0..255 : byte % 16 # 6 /\ byte \div 16 # 6}
    /\ MayReverse \in BOOLEAN
    /\ MaxRequests \in Nat

VARIABLES
    pin_states_, directions_, read_allowed_,    \* of gpio; sets of the pins high, and of those going out
    ports_,         \* the levels that the clock has seen
    internal_regs_, control_,
    serial,         \* state_, current_cmd_, current_byte_, current_bit_ and bit_buffer_
    interrupts,     \* requested so far
    task,           \* the program's request
    phase,          \* what the program does next
    outgoing,       \* the bits that it has still to send
    incoming,       \* the bits that it has read
    requests,       \* how many requests it has begun
    expected        \* a ghost: the control register, the interrupts, and the bytes to be read

clockvars == <<pin_states_, directions_, read_allowed_, ports_, internal_regs_, control_,
               serial, interrupts>>
uservars == <<task, phase, outgoing, incoming, requests, expected>>
rtcvars == <<clockvars, uservars>>

Pins == {"sck", "sio", "cs"}

BitOf(byte, i) == (byte \div 2^i) % 2
WithBit(byte, i, bit) == byte - BitOf(byte, i) * 2^i + bit * 2^i

CommandOf == [code \in 0..7 |->
    CASE code = 0 -> "reset" [] code = 2 -> "date_time" [] code = 3 -> "force_irq"
      [] code = 4 -> "control" [] code = 6 -> "time" [] OTHER -> "free"]

parameter_bytes(type) ==
    CASE type = "date_time" -> 7 [] type = "control" -> 1 [] type = "time" -> 3 [] OTHER -> 0

RtcInit ==
    /\ pin_states_ = {} /\ directions_ = Pins /\ read_allowed_ = FALSE
    /\ ports_ = [p \in Pins |-> 0]
    /\ internal_regs_ = [i \in 0..6 |-> 0]
    /\ control_ = 0
    /\ serial = [state |-> "command", type |-> "none", read |-> FALSE, byte |-> 0, bit |-> 0, buffer |-> 0]
    /\ interrupts = 0
    /\ task = [type |-> "none", read |-> FALSE, parameter |-> 0] /\ phase = "idle"
    /\ outgoing = <<>> /\ incoming = <<>> /\ requests = 0
    /\ expected = [control |-> 0, interrupts |-> 0, bytes |-> <<>>]

----------------------------------------------------------------------------
\* One bit in: the buffer with it, and the place of the next.
read_sio(s, sio) == [s EXCEPT !.buffer = WithBit(s.buffer, s.bit, sio), !.bit = (s.bit + 1) % 8]

to_bcd(n) == (n % 10) + 16 * ((n \div 10) % 10)

\* Bit 6 of the control register tells hours up to 24 from those up to 12.
get_time(now) ==
    <<to_bcd(IF BitOf(control_, 6) = 1 THEN now[5] ELSE now[5] % 12), to_bcd(now[6]), to_bcd(now[7])>>

read_register(type, now) ==
    LET load(bytes) == [i \in 0..6 |-> IF i < Len(bytes) THEN bytes[i + 1] ELSE internal_regs_[i]] IN
    CASE type = "time" -> load(get_time(now))
      [] type = "date_time" ->
            load(<<to_bcd(now[1]), to_bcd(now[2]), to_bcd(now[3]), to_bcd(now[4])>> \o get_time(now))
      [] type = "control" -> load(<<control_>>)
      [] OTHER -> internal_regs_

\* Only the control register is written: the time is the host's.
write_register(type, byte) ==
    /\ control_' = CASE type = "reset" -> 0 [] type = "control" -> byte [] OTHER -> control_
    /\ interrupts' = interrupts + (IF type = "force_irq" THEN 1 ELSE 0)

WritesNothing == UNCHANGED <<control_, interrupts>>

\* A command in the other order is turned around.  The test for one should look
\* for 0110 in the high half of the byte, but looks at the bit counter, which
\* is 0 by then: no command passes for reversed.
IsReversed(s) == s.bit \div 16 = 6
Reversed(byte) ==
    LET b(i) == BitOf(byte, 7 - i) * 2^i IN b(0) + b(1) + b(2) + b(3) + b(4) + b(5) + b(6) + b(7)

sio_receive_cmd(from, sio, now) ==
    LET received == read_sio(from, sio)
        s == IF IsReversed(received) THEN [received EXCEPT !.buffer = Reversed(@)] ELSE received
        type == CommandOf[(s.buffer \div 16) % 8]
        reads == BitOf(s.buffer, 7) = 1
        goes_to(state) == [s EXCEPT !.state = state, !.type = type, !.read = reads, !.byte = 0] IN
    IF received.bit # 0 \/ (~IsReversed(received) /\ received.buffer % 16 # 6)
    THEN serial' = received /\ UNCHANGED internal_regs_ /\ WritesNothing
    ELSE /\ internal_regs_' = IF reads THEN read_register(type, now) ELSE internal_regs_
         /\ IF reads \/ parameter_bytes(type) > 0 THEN WritesNothing ELSE write_register(type, s.buffer)
         /\ serial' = goes_to(IF parameter_bytes(type) = 0 THEN "command"
                              ELSE IF reads THEN "sending" ELSE "receiving")

ReceivesLast(s) == s.byte + 1 = parameter_bytes(s.type)

sio_receive_buffer(from, sio) ==
    LET s == read_sio(from, sio) IN
    IF s.bit # 0
    THEN serial' = s /\ UNCHANGED internal_regs_ /\ WritesNothing
    ELSE /\ internal_regs_' = [internal_regs_ EXCEPT ![s.byte] = s.buffer]
         /\ serial' = [s EXCEPT !.byte = @ + 1, !.state = IF ReceivesLast(s) THEN "command" ELSE @]
         /\ IF ReceivesLast(s) THEN write_register(s.type, s.buffer) ELSE WritesNothing

sio_send_buffer(from) ==
    LET s == [from EXCEPT !.bit = (@ + 1) % 8] IN
    /\ internal_regs_' = [internal_regs_ EXCEPT ![s.byte] = @ \div 2]
    /\ serial' = IF s.bit # 0 THEN s
                 ELSE [s EXCEPT !.byte = @ + 1,
                                !.state = IF s.byte + 1 = parameter_bytes(s.type) THEN "command" ELSE @]
    /\ WritesNothing

\* A bit moves with a rise of SCK while CS is high.
(* Mutant: it moves at each write while SCK is high. *)
MovesByLevel(new) == new["cs"] = 1 /\ new["sck"] = 1
Moves(new) == new["cs"] = 1 /\ ports_["sck"] = 0 /\ new["sck"] = 1

\* The rise of CS starts over, and SCK may rise with it.
Opened(new) ==
    IF ports_["cs"] = 0 /\ new["cs"] = 1
    THEN [serial EXCEPT !.state = "command", !.bit = 0, !.byte = 0] ELSE serial

write_pin_states(states, now) ==
    LET new == [p \in Pins |-> IF p \notin directions_ THEN ports_[p] ELSE IF p \in states THEN 1 ELSE 0]
        opened == Opened(new) IN
    IF ~Moves(new)
    THEN ports_' = new /\ serial' = opened /\ UNCHANGED internal_regs_ /\ WritesNothing
    ELSE CASE opened.state = "command" -> sio_receive_cmd(opened, new["sio"], now) /\ ports_' = new
           [] opened.state = "receiving" -> sio_receive_buffer(opened, new["sio"]) /\ ports_' = new
           [] opened.state = "sending" ->
                /\ sio_send_buffer(opened)
                /\ ports_' = [new EXCEPT !["sio"] = BitOf(internal_regs_[opened.byte], 0)]

----------------------------------------------------------------------------
(* The three ports of gpio. *)
WriteData(value, now) ==
    LET states == (pin_states_ \ directions_) \union (value \intersect directions_) IN
    /\ pin_states_' = states
    /\ write_pin_states(states, now)
    /\ UNCHANGED <<directions_, read_allowed_>>

WriteDirection(value) ==
    /\ directions_' = value
    /\ UNCHANGED <<pin_states_, read_allowed_, ports_, internal_regs_, control_, serial, interrupts>>

WriteControl(value) ==
    /\ read_allowed_' = value
    /\ UNCHANGED <<pin_states_, directions_, ports_, internal_regs_, control_, serial, interrupts>>

\* While it sends the clock drives SIO, otherwise it answers with the lowest pin.
read_pin_states ==
    IF serial.state = "sending" THEN {p \in {"sio"} : ports_[p] = 1} ELSE {"sck"}

NewStates == read_pin_states \ directions_

ReadData ==
    /\ pin_states_' = (pin_states_ \intersect directions_) \union NewStates
    /\ UNCHANGED <<directions_, read_allowed_, ports_, internal_regs_, control_, serial, interrupts>>

----------------------------------------------------------------------------
(* The program. *)
ByteBits(byte) == [i \in 1..8 |-> BitOf(byte, i - 1)]
Repeated(byte, n) == [i \in 1..(8 * n) |-> BitOf(byte, (i - 1) % 8)]

AllowRead ==
    /\ phase = "idle" /\ task.type = "none" /\ ~read_allowed_
    /\ WriteControl(TRUE)
    /\ UNCHANGED uservars

\* A request begins.
Asks(t, bits) ==
    /\ phase = "idle" /\ read_allowed_
    /\ requests < MaxRequests
    /\ requests' = requests + 1
    /\ task' = t /\ outgoing' = bits /\ incoming' = <<>>
    /\ phase' = "deselect"
    /\ expected' = [expected EXCEPT !.bytes = <<>>]
    /\ WriteDirection(Pins)

\* The command goes out lowest bit first, or in the other order.
Begin(code, reads, parameter, reversed) ==
    LET type == CommandOf[code]
        command == ByteBits(6 + 16 * code + (IF reads THEN 128 ELSE 0)) IN
    /\ reversed => MayReverse
    /\ Asks([type |-> type, read |-> reads, parameter |-> IF type = "control" THEN parameter ELSE 0],
         (IF reversed THEN [i \in 1..8 |-> command[9 - i]] ELSE command)
         \o (IF reads THEN <<>> ELSE Repeated(parameter, parameter_bytes(type))))

\* A byte that is no command: the clock should do nothing.
Stray(byte) == Asks([type |-> "none", read |-> FALSE, parameter |-> 0], ByteBits(byte))

Deselect ==
    /\ phase = "deselect"
    /\ \E now \in Times : WriteData({"sck"}, now)
    /\ phase' = "select"
    /\ UNCHANGED <<task, outgoing, incoming, requests, expected>>

Select ==
    /\ phase = "select"
    /\ \E now \in Times : WriteData({"sck", "cs"}, now)
    /\ phase' = "low"
    /\ UNCHANGED <<task, outgoing, incoming, requests, expected>>

Low ==
    /\ phase = "low"
    /\ \E now \in Times : WriteData({"cs"}, now)
    /\ phase' = "high"
    /\ UNCHANGED <<task, outgoing, incoming, requests, expected>>

\* What a request has done when its last bit has been sent.
Served(now) ==
    LET hour == IF BitOf(expected.control, 6) = 1 THEN now[5] ELSE now[5] % 12 IN
    CASE task.read /\ task.type = "control" -> [expected EXCEPT !.bytes = <<expected.control>>]
      [] task.read /\ task.type = "time" -> [expected EXCEPT !.bytes = <<hour, now[6], now[7]>>]
      [] task.read /\ task.type = "date_time" -> [expected EXCEPT !.bytes = [now EXCEPT ![5] = hour]]
      [] ~task.read /\ task.type = "control" -> [expected EXCEPT !.control = task.parameter]
      [] ~task.read /\ task.type = "reset" -> [expected EXCEPT !.control = 0]
      [] ~task.read /\ task.type = "force_irq" -> [expected EXCEPT !.interrupts = @ + 1]
      [] OTHER -> expected

Answered == task.read /\ parameter_bytes(task.type) > 0

HighSend(now) ==
    /\ phase = "high" /\ outgoing # <<>>
    /\ WriteData({"cs", "sck"} \union (IF Head(outgoing) = 1 THEN {"sio"} ELSE {}), now)
    /\ outgoing' = Tail(outgoing)
    /\ phase' = IF Len(outgoing) > 1 THEN "low" ELSE IF Answered THEN "turn" ELSE "idle"
    /\ expected' = IF Len(outgoing) > 1 THEN expected ELSE Served(now)
    /\ UNCHANGED <<task, incoming, requests>>

\* SIO is turned to read the answer.
Turn ==
    /\ phase = "turn"
    /\ WriteDirection({"sck", "cs"})
    /\ phase' = "low"
    /\ UNCHANGED <<task, outgoing, incoming, requests, expected>>

HighRead ==
    /\ phase = "high" /\ outgoing = <<>>
    /\ \E now \in Times : WriteData({"cs", "sck"}, now)
    /\ phase' = "read"
    /\ UNCHANGED <<task, outgoing, incoming, requests, expected>>

Take ==
    /\ phase = "read"
    /\ ReadData
    /\ incoming' = Append(incoming, IF "sio" \in NewStates THEN 1 ELSE 0)
    /\ phase' = IF Len(incoming) + 1 = 8 * parameter_bytes(task.type) THEN "idle" ELSE "low"
    /\ UNCHANGED <<task, outgoing, requests, expected>>

GiveUp ==
    /\ phase = "low"
    /\ (IF outgoing # <<>> THEN Len(outgoing) ELSE Len(incoming)) \in GiveUpAt
    /\ phase' = "idle"
    /\ task' = [task EXCEPT !.type = "none"]
    /\ outgoing' = <<>> /\ incoming' = <<>>
    /\ UNCHANGED <<clockvars, requests, expected>>

RtcNext ==
    \/ AllowRead
    \/ \E code \in Codes, reads \in BOOLEAN, parameter \in Parameters, reversed \in BOOLEAN :
        Begin(code, reads, parameter, reversed)
    \/ \E byte \in Strays : Stray(byte)
    \/ \E now \in Times : HighSend(now)
    \/ Deselect \/ Select \/ Low \/ Turn \/ HighRead \/ Take \/ GiveUp

----------------------------------------------------------------------------
\* The bytes that the program has read.
ReadByte(i) == LET b(j) == incoming[8 * (i - 1) + j + 1] * 2^j IN
    b(0) + b(1) + b(2) + b(3) + b(4) + b(5) + b(6) + b(7)
from_bcd(byte) == (byte \div 16) * 10 + (byte % 16)

\* The program reads the time and the date as they were at one moment, that of
\* its command, and the control register as it last wrote it but for its highest
\* bit: the clock has left the sending state when the last bit is read (rtc.cpp).
ReadsClock ==
    phase = "idle" /\ Answered =>
        IF task.type = "control" THEN ReadByte(1) = expected.bytes[1] % 128
        ELSE \A i \in 1..parameter_bytes(task.type) : from_bcd(ReadByte(i)) = expected.bytes[i]

\* However requests are mixed, given up on the way or are no commands, between
\* two of them the control register holds what was last written there, and an
\* interrupt came of each command for one and of no other (sio_receive_cmd,
\* write_register).
CommandsObeyed ==
    phase = "idle" =>
        /\ control_ = expected.control
        /\ interrupts = expected.interrupts
        /\ task.type # "none" => serial.state = "command" /\ serial.bit = 0

\* The program and the clock understand each other: what is read is the time, and
\* what is sent is obeyed once (sio_receive_cmd, read_register, write_register).
\* It is so of commands sent lowest bit first: see IsReversed for the others.
ClockUnderstood == ReadsClock /\ CommandsObeyed
=============================================================================
