# gameboi advance: verification project

Models, model checks and proofs of the emulator core of *gameboi advance*
(`src/gba`), a Game Boy Advance emulator in C++.  Everything here is about the
code as it is: what it does is translated from its source, and the properties
are what its parts need from each other to be correct.

- [1. The system](#1-the-system): inventory of components, state, interactions
- [2. The modules](#2-the-modules): which module models what, and how
- [3. The runs](#3-the-runs): what TLC checks, on which instances, and why they are enough
- [4. The proofs](#4-the-proofs): what holds for every value of the constants
- [5. Disagreements found](#5-disagreements-found)
- [6. What is not modelled, or only in part](#6-what-is-not-modelled-or-only-in-part)
- [7. Plan](#7-plan)

To repeat a check: `tlc -config MCScheduler.cfg MCScheduler.tla`, and so on;
to repeat a proof: `tlapm TimingProofs.tla`.


## 1. The system

The core is one thread.  The front end calls `core::tick_one_frame`, which calls
`cpu::tick` until enough cycles have gone by; everything else happens inside.
What makes it hard is that almost every call re-enters the machine: an
instruction does a bus access, the access calls `tick_components`, which first
runs the DMA (whose transfers are bus accesses and tick again), then adds the
cycles to the scheduler, whose loop runs the callbacks that are due, which
change the scheduler, request interrupts and trigger the DMA that will run in
the next access.  So steps of different actors interleave at every bus access,
state read before an access may be stale after it, and time goes by in jumps,
which every callback has to make up for.

    frontend --tick, keys, load/save--> core
    core     --tick--> cpu --bus access--> core::read/write --> memory, registers
                        |                        |
                        |                 tick_components
                        |          1. dma.run_channels --bus access--> (nested)
                        |          2. scheduler.add_cycles --callbacks--> timer, ppu, apu,
                        |          3. prefetch_tick                       irq line, dma, eeprom
    callbacks --request_interrupt--> interrupt controller --(1 cycle)--> irq line --> cpu
    ppu, fifo --request_dma--> dma --(2 cycles)--> running channel

| component (code) | state | operations | what must be right |
|---|---|---|---|
| event scheduler (`core/scheduler.h`) | heap of events with timestamps and handles, 64-bit cycle counter, handle counter | `add_hw_event`, `remove_event`, `add_cycles` (the dispatch loop), `remaining_cycles_to_next_event` | events fire once, in order of time, however late the loop notices them and whatever callbacks add and remove; a stale handle hurts nobody; the narrowed differences do not wrap |
| interrupt controller and halt (`cpu/arm7tdmi.*`, `cpu/cpu.cpp`, registers in `core_bus.cpp`) | IE, IF, IME, the line, its delayed copy, the handle of the update, HALTCNT, CPSR.I | request, register writes, delayed update, entry, halt and wake-up | no request or mask is lost in the delay; halts end; nothing is taken without cause but in the delay |
| CPU core (`arm7tdmi_*`) | current and banked registers, CPSR and SPSRs, two pipeline stages, fetch type | one handler for each kind of instruction, `pipeline_flush`, `process_interrupts`, `switch_mode` | the pipeline and the fetch type follow pc; an interrupt returns to where it came from; no register ends up in another mode; flags and shifts are exact; Thumb means ARM; each encoding has its handler |
| bus, wait states, prefetch (`core_bus.inl`, `cpu/cpu.cpp`) | prefetch buffer, wait-state tables, memory | `read`, `write`, `prefetch`, `prefetch_tick` | the buffer makes code cheaper, never dearer; it claims to hold only what it read |
| DMA controller (`cpu/dma_controller.*`) | channels with control, count and latch; lists of scheduled and running channels | `write_cnt_h`, `request`, `on_channel_start`, `run_channels` | lists, enable bits and start events agree, also when a channel is disabled or pre-empted in the middle; priorities; nobody waits without reason |
| timers (`cpu/timer.*`) | control, reload, counter, start timestamp, event handle; delegates to the next timer | register writes and reads, `overflow`, cascade | the lazily computed count is that of a timer ticked each cycle; no overflow lost or doubled |
| PPU timing (`ppu/ppu.cpp`) | VCOUNT, DISPSTAT, the one event of the chain | `on_hdraw`, `on_hblank`, DISPSTAT writes | the flags and the line follow the beam; each line is rendered and each transfer requested once; the chain never breaks |
| PPU rendering (`ppu/ppu_render.*`, `ppu_window.cpp`) | window flags, affine reference points, mosaic counters; line buffers | one line from registers and video memory | what is carried from line to line follows the registers, whenever they are rewritten; each column comes from its own coordinate; layers are in order |
| sound FIFOs (`apu_types.h`, `apu.cpp`) | ring of 32 samples, latch, selected timer | `write`, `read`, `reset`, `on_timer_overflow` | it is a queue; the refills neither overrun it nor starve it |
| sequencer and PSG channels (`apu*.cpp`) | frame sequencer, length, sweep and envelope counters, an output event for each channel | clicks, `restart`, `write`, `generate_output_sample` | notes end when their length is over, frequencies stay in range |
| mixer, resampler, sound buffer (`apu.cpp`, `apu_resampler.h`, `apu_sound_buffer.h`) | phase, last samples; write index and buffer | `tick_mixer`, `write_sample`, `set_capacity`, rate changes | the host gets what was made, in order and at its pace, through changes of rate and capacity and loads of states |
| EEPROM (`cartridge/backup.cpp`) | shift buffer, bit counter, phase, command, settle flag | one-bit `read` and `write`, `on_settle`, width detection | the chip and a program that sends well-formed requests stay in step; words read back |
| flash (`cartridge/backup.cpp`) | phase, flags of the commands in progress, bank, memory | `write`, `read` | a command acts as a whole, on the selected bank, and leaves no flag behind |
| SRAM, backing files (`backup.cpp`, `filesystem.h`) | an array mapped to a file | read, write | - |
| RTC (`cartridge/rtc.cpp`) | pins and their directions, phase, bit buffer, bit counter, control register | `write`, `read` of the GPIO pins | the program reads one moment's time; what it sends in full is obeyed once, what it gives up is not |
| gamepak (`gamepak.cpp`, `gamepak_db.cpp`) | path, kind of backup, chip and its file, clock | `load`, `on_eeprom_bus_width_detected`, routing of accesses | the chip is of the kind the bus takes it for, and writes its own pak's file |
| keypad (`keypad.h`, `core.h`) | KEYINPUT, KEYCNT | press, release, interrupt condition | the interrupt comes when the condition becomes true |
| save states (`core.h`, `archive.h`, `serialize` everywhere) | an archive: a row of bytes without names | save, load, reset | both sides agree on every member; the events and the handles that are loaded belong together |
| containers, integers, delegates, helpers | - | - | used as TLA+ data |
| front end, debugger, vendored code, tests | - | - | outside the core |

The hard behaviours, each at its line of code and with the properties that
watch it, are listed under `hazards` in `PROJECT.json`.  The main ones are
re-entrancy (callbacks that change the heap that is being walked; channels
started and disabled from within another channel's transfer), delays (the
interrupt line by one cycle, DMA starts by two, EEPROM words by 115,000) with
writes landing inside them, lateness (unsigned differences that wrap), lazily
computed counters, serial protocols that count bits, loops of a line that carry a
coordinate along, and archives whose two sides agree only by their order.


## 2. The modules

Each component has a module named after it, with the code's members as
`VARIABLES`, one action for each handler and `CONSTANTS` for its sizes.  The proofs
are in `...Proofs` modules, one for each part of the console.  Definitions keep
the names of the code.  A definition whose comment says *Mutant* is a plausible
bug of the definition that follows it: it is not part of the model, but shows
which property would notice.  Variables that the code does not have are marked as
ghosts, or as history, in their module: what the hardware, or the program, would
expect.

An `MC...` module instantiates the components that belong together for TLC.  Where
these share no state it has a variable `part`: each part runs from its own initial
state while the others rest in theirs, so that the state space is the sum of the
parts and not their product.  Components that do interact are modelled together,
in one module: the CPU, the registers and the scheduler's loop in `Irq`; the DMA,
its sources and the machine that ticks inside a transfer in `Dma`; a timer and
the next in `Timer`; a halted CPU, the DMA and the beam in `Ppu`; the DMA, the
program and the mixer in `Fifo`; a chip and its program in `Eeprom`, `Flash` and
`Rtc`; the pak, the bus, the scheduler's registry and the archives in `Gamepak`.

**Scheduler** (with **Agenda**) models `scheduler`.  The binary heap is a set,
its front any event of least timestamp; `add_cycles` is broken up into its start
(`AddCycles`), one iteration of its loop (`Dispatch`) and its end (`Return`), and
in between, in the callback, any sequence of `AddHwEvent` and `RemoveEvent`, with
any handle, live, dead or never issued.  `Agenda` is the abstract specification:
events on one time line, each of which fires *exactly* at its instant.  The
refinement mapping takes `now - late` for the clock, the instant at which a
callback believes it runs: that this mapping works is the reason why callbacks
may subtract their lateness from a period and stay on time.

**Timer** models any number of chained timers, with the hardware they imitate
beside them, ticked cycle by cycle (`Cycle`, `Hardware`).  The phase of a timer
that starts is the clock under a mask, which the code keeps in eight bits
(`start_delay_mask`, `MaskWidth`); `Selected` are the prescalers that programs use.

**Irq** models the interrupt controller together with the parts of the CPU that
see it: registers written byte by byte, `schedule_update_irq_signal` with its
delayed copy of the line, the steps of an instruction that let time pass (fetch,
store, entry) and the scheduler's loop in which requests arrive.

**Keypad** models the keys, KEYCNT and the condition of its interrupt, which is
looked at after each byte of a store and when a key goes down.

**Dma** models the controller: the two lists, the anonymous start events, the
transfer loop with the accesses it makes and the machine ticking in each of them,
and the requests of the PPU, the FIFOs and the program.  Addresses and data are
left out; transfers that write to the controller's own registers are not modelled.
The lists have the four places of the code's, and what edits them (`Delisted`,
`InOrder`, `ByPriority`) goes through these one by one.

**Cpu** models the instruction handlers as far as they move pc, the two pipeline
stages, the fetch type, the status registers and r14.  A handler is an operator
from the machine after the fetch to the machine after the instruction; what it
reads from other registers and from memory is drawn from `Values`.  An interrupt
may enter before any instruction, and `returned` remembers what it had stopped.
`skewed` counts the two instructions after an empty Thumb STM, which moves pc
twice in the code.

**Registers** (with **RegisterFile**) models the current registers, the copies of
the banks, `switch_mode` and the user bank transfer, which switches there and
back.  `RegisterFile` is what a program is promised: each physical register keeps
what was last written to it.  The mapping (`Kept`) says where the code keeps each
of them; the one promise the code does not keep, the shared r8 to r12 when fiq
mode is left for another bank than it came from, is part of the abstract module,
where it can be seen.

**Alu** models the adder, the barrel shifter, the flags, the conditions, and the
handlers' choice among them, ARM and Thumb, on words of few bits.  **Decoder** has
the cascade of tests that picks a handler and the pattern table of the
disassembler.

**Prefetch** models the prefetch buffer under the sequences of accesses that the
CPU makes: opcodes in sequence, the two reads of a pipeline flush, data, SRAM,
WAITCNT, and DMA nested in any of them.  The ghost `foreign` marks a buffer that was
filled for another instruction set or another WAITCNT, or out of which data were
taken at pc, until it is filled anew.

**Ppu** models the chain of `on_hblank` and `on_hdraw`, driven as `cpu::tick`
drives it: a running CPU ticks a few cycles at a time, a halted one asks for the
cycles to the next event and adds them after the DMA has ticked on its own.
`position` is the beam of the hardware.

**Scanline** models what the renderer carries from one line to the next: the flag
of a window, the internal reference point of an affine background, the vertical
counter of the mosaic, with every register of theirs rewritten between any two
half lines (`ScanSpec`).  The ghosts count the lines since something was last
touched.

**Pixels** models one line: the loops of the backgrounds (tile by tile, affine,
with the mosaic), of objects and of the window buffer, each as an operator that
gives the texture's column for each dot; and for one dot, the objects drawn over
it in turn, the layers that are composed and the effect on them.

**Fifo** (with **SampleQueue**) models a sound FIFO with its three users.  Of the
DMA it keeps what the FIFO can see; that a channel is not scheduled twice, which
it relies on, is what `Dma` checks (`ListsMatchEvents`).

**Psg** models one channel of the sound generator, of any of the four kinds, with
the frame sequencer and the power switch.  The channels share nothing else, so
one at a time is enough.  Its events are always due: what the properties need of
time is only the order of the sequencer's steps.  Of a wave it keeps the volume;
`restart`, the clicks and each register write are actions with all that they do.

**SoundBuffer** models the way from the mixer's event through the resampler to the
buffer and the host.  The phase is an integer number of parts of an interval; a
sample is one of a few tones.

**Eeprom** and **Flash** (with **FlashChip**) model the chips at the level of
single bus writes, with a program that sends well-formed requests as the other
actor; `FlashChip` is the chip whose commands take effect at once.  `Eeprom` has
the reset of the machine as well, at any moment.

**Rtc** models the port, the clock behind it and a program that drives the pins one
write at a time, makes requests, sends bytes that are no command (`Stray`), and gives
some up on the way.  `expected` is what its requests should have done.  A command may
be sent with its bits reversed, which the clock means to turn around (`MayReverse`);
it should then do what it does in the usual order.

**Gamepak** models pak after pak in one `gamepak` object: detection by database or
by marks, the chip that is made, the accesses that the bus forwards by the kind,
the event that settles an EEPROM and the registry by which it is saved.

**SaveState** holds both sides of every component's archive as two rows, `..._serialize`
and `..._deserialize`, in the order of the code, registers as the bits that their
read and write handlers name; running, saving, loading and resetting move values
through them.  **SavedEvents** models the heap, the next handle and the handles
that four clients keep, across the same operations; an event may fire at any time.

How the modules fit together: `Scheduler` shows what an event promises (on time
up to a lateness that the callback is told), and the others use that promise as
their picture of the scheduler: an event is a number of cycles that are left,
which goes below zero while a tick runs and fires before anything else can look.
`Dma` gives `Fifo` its refill and `Ppu` its `MaxDma`; `Irq` takes requests from
everybody at any moment; `Registers` gives `Cpu` its r14 of each bank, and `Alu`
its conditions.


## 3. The runs

All bounds are constants in the `.cfg`, or named in the module.  A violation run
shows a disagreement and has one property.

| run | parts and instance | what it shows |
|---|---|---|
| `scheduler` | scheduler: clock to 7, 5 handles, delays and ticks to 3; timers: two, 3 states of the counter, prescalers 1 and 2 with masks of one bit, reload 0 and 1 | no event is left in the past, dead handles stay dead, the agenda is implemented; counts and overflows are those of timers ticked cycle by cycle |
| `timer_mask` | the same timers, with a prescaler of 4 whose mask is cut to one bit | violation, see 5 |
| `dma` | channels 0, 1 and 3: immediate, blanking, sound and video, with repeat and reload; counts 1 and 2 | lists, start events, enable bits and counts agree; priority; nobody waits but for a higher channel |
| `dma_fast` | one sound channel whose timer may overflow twice within two cycles | violation, see 5 |
| `cpu` | pipeline: 64 bytes of address space, 5 instructions; registers: one of either kind, four modes; arithmetic: words of four bits; decoder: every index; prefetch: 10 halfwords of program, a buffer of 6; interrupts: two sources, one in each byte of IE and IF, two handles; keypad: three keys, two of them in the low byte | pipeline, fetch type and return address; the register file is implemented; arithmetic against its definitions; Thumb against ARM; CPU against disassembler; the buffer holds what it read and costs nothing in sequence; the line is consistent, interrupts are taken, halts end; the keypad asks when its condition comes to hold |
| `frames` | chain: 7 lines of 10 cycles, screen of 3, video lines 2 to 4; windows and backgrounds: 7 rows, 5 visible; line: 12 columns, tiles of 4, three backgrounds; dot: up to three objects; saved members: a machine with clock and flash, one slot, two runs; saved events: four clients, five handles | flags and line follow the beam, every line once, the next event within its period; lines follow their registers; dots and layers are exact; each member is restored; handles name their own events, each client has its one event |
| `ppu_halted` | the chain with DMA longer than a blanking and a drawing | violation, see 5 |
| `cartridge` | EEPROM: addresses of 1 and 2 bits, words of 3; flash: two banks of three sectors of two; clock: two requests, one byte that is no command, two moments; three paks | program and chip in step, words read back, commands act as a whole, the clock is understood, the chip matches the pak |
| `rtc_reversed` | the clock, with commands in the other order of their bits | violation, see 5 |
| `eeprom_reset` | the EEPROM, with a reset after detection | violation, see 5 |
| `pak_swap` | two paks with an EEPROM each | violation, see 5 |
| `apu` | FIFO: four places, refills of two at a size of two; channel: pulse, wave and noise, 5 rates, lengths of 2, volumes to 2; sound: capacities 1 and 3, host rates above and below the mixer's | no sample dropped, it is a queue; types with the range of the rate, notes, envelopes and sweeps end; sound in order and at the host's pace |

Why these bounds are enough:

- *Scheduler.*  Three pending events, a tick that passes several of them,
  callbacks that add events that are already due, and handles that are reused
  after their death all occur; time and handles only ever grow, so that a longer
  run repeats these patterns.  And all of it is proved for every bound.
- *Timer.*  A period of two or three ticks with ticks of the bus of up to two
  cycles gives overflows that are late by one, the start delay (2) and both
  prescaler phases.  Widths of 1 and 2 under a mask of one bit stand for the code's
  1, 64 and 256 under its eight, 4 stands for 1024.  And all of it is proved for any
  number of timers, any periods, and any prescalers whose masks are whole.
- *Irq.*  Two bytes of IE and IF are needed to tear a 16-bit write apart.  One
  update is live at a time (proved), so two handles give the live one and its
  replacement.
- *Keypad.*  Two keys in one byte and one in the other: a mask can be met by one
  half of an old and one half of a new value, and `all` can fail by a key too many.
- *Dma.*  Three channels give a pre-emption of a pre-emption.  Channels 1 and 2
  behave alike, so one of them stands for both; channel 3 has the video rules.
  A count of 2 has a moment between two units, which is where others interfere.
- *Cpu.*  The state after a branch takes two instructions to pass through the
  pipeline; five give an interrupt in it, a handler that returns, and another
  interrupt.  The values are an odd address, for Thumb, and one that is aligned
  for Thumb only; the space wraps.
- *Registers.*  Registers of a kind are treated alike, and so are the banks but
  for that of fiq mode.  Proved for any number of them.
- *Alu.*  All operands, flags, and amounts to twice the width and one more.  The
  code treats the width, and nothing else of 32, as a special amount.
- *Prefetch.*  Six halfwords hold three ARM opcodes, so the buffer can be empty,
  partly full, full, under way and overtaken in both instruction sets.
- *Ppu.*  One line at least of each kind: on the screen and in the window of
  video transfers, one of them only, the last line, in which VBLANK is cleared,
  and the one after which the counter starts again.
- *Scanline.*  Edges at the first line, on the screen, at its end, and beyond the
  frame; two rows below the screen; blocks of one to three lines, of which five
  lines hold no whole number.
- *Pixels.*  Twelve columns are three tiles, of which a scroll makes four; mosaics
  to five columns; objects that begin left of the screen and end right of it;
  three backgrounds of two priorities have ties with each other and with objects.
  The third object over a dot is the first to come after a solid and a transparent
  one.
- *Fifo.*  Four places, of which two are refilled at a time, as the code's 32 are
  by 16.
- *Psg.*  Five rates let a sweep move twice before it overflows, two lengths tell
  a counter that starts from one that ends, volumes to 2 have an inner value.
  A period of 1 and the 8 that stands for 0 (here 2) are the two kinds of timer.
  The second pulse channel does what the first does while no sweep is written.
  The rate is written as one byte here: that a rate written half does no harm
  is part of what is proved.
- *SoundBuffer.*  One host rate gives two samples for one of the mixer's now and
  then, the other one for two; a capacity of one hands over at each sample.
- *Eeprom.*  Two widths are needed for detection, two words for aliasing (the
  address mask), and a settle time (10) that exceeds one request but not two, so
  that settles overlap.
- *Flash.*  Two banks, sectors that contain an unlocking address and one that
  contains address 0, where bank numbers are written.
- *Rtc.*  Each command once at least before and after each other one; giving
  up in the middle of a command and in the middle of an answer; two moments that differ
  in every field and in the halves of the day.
- *Gamepak.*  A pak whose kind is known from the start, one that is found by its
  first transfer, one of which nothing is known, in any succession.
- *SaveState.*  Two runs make a state before and one after the archive; the first
  archive is that of a machine that has not run.  Every component runs alone, so
  that a member which is taken from another's place shows.
- *SavedEvents.*  Two handles go to the events of the start; three more give an
  event before the archive, one after it and one after the load with the
  same handle.

What is assumed of the environment:

- *The interval of sound timers* (`Dma`, `Disciplined`): a FIFO's timer does not
  overflow twice within the two cycles of the start delay, and the program does
  not change what triggers an enabled channel without disabling it first.  Sound
  at sample rates of up to some MHz satisfies the first; `dma_fast` is what
  happens without them.
- *Ticks shorter than a period* (`Timer`, `TickAssumption`; `Ppu`, `MaxTick` and
  `MaxDma`): a callback is never later than its period.  The code has no such
  guard: `ppu_halted` shows what happens otherwise.
- *EEPROM programs* send requests of the chip's width and begin with a read
  (`WriteFirst`, see the end of 5); in `cartridge` the machine is not reset once
  the width was found (`ResetAfterDetection`; `eeprom_reset` is what happens then).
  The proofs ask for the same (`Detectable`).
- *Programs of the CPU* select valid modes with MSR (`MsrModes`) and leave its
  Thumb bit alone; they return from an interrupt with `SUBS pc, lr, #4`, when
  `ResumesWhereInterrupted` is to say something of it.
- *Prescalers* (`MasksWhole`): none is wider than the mask of its phase, as three of
  the code's four are.  `timer_mask` is what happens with the fourth.
- *Programs of the clock* send commands lowest bit first (`MayReverse = FALSE`);
  `rtc_reversed` is what happens otherwise.
- *STOP*: nothing in the code ends it, so `InterruptTaken` and `HaltEnds` except it.

Fairness.  `core::tick` is called for ever by the front end and all that it calls
returns, which is weak fairness of the steps of the CPU and of the clock.  In
`Irq` the update of the line, and the return from a tick, need strong fairness:
callbacks of the same cycle may replace the update again and again, but not in
every tick for ever, and transfers that are nested in an access end.  In `Dma`
each step of the transfer loop is weakly fair; requests and writes are not.  In
`Psg` the two events are, since each schedules itself again first thing.  The
other modules claim no liveness; what must happen there is stated as safety
against the clock (`FollowsBeam`, `EveryLineOnce`, `OverflowsAsOften`,
`OutputKeepsPace`: a step that were missing would show at the next instant).

Deadlock is an error in every run.  What is at its end by a bound of the model, or
with the cycles of an object's line, rests there (`Rest`, `UsedUp`).


## 4. The proofs

All are for every value of the constants that satisfies the assumptions stated
in the modules, checked by TLAPS to the last leaf.

They are listed here by module, each with the inductive invariant that the property
needs and does not itself contain.

**TimingProofs** (`Scheduler`, `Timer`).  `IInv` (in `Scheduler`) says that no event
lies before the instant `now - late` at which the running code believes it
executes.  `RemainingCyclesNeverWrap` alone is not inductive: in the loop, events
in the past are normal.  With it: `TypeCorrect`, `RemainingCyclesExact`,
`LatenessBounded`, `HandleSafety` (a handle names one event), `HandlesDie`,
`InOrder` (callbacks run in order of time, a part of the refinement that is stated
on its own), and `Refinement`: each step is a step of `Agenda` or a stutter.
Of the timers: no counter reaches the overflow value (`CountersBelow`), and each
has one driver (`OneDriver`), for any number of timers, prescalers, masks, reload
values and width of the cycle counter (`TimersInvariance`).

`LikeHardware` (`CountsLikeHardware`) and `AsOften` (`OverflowsAsOften`) say of them
that computing a counter from two timestamps is as good as counting, if the masks of
the selected prescalers are whole (`MasksWhole`: of the code's prescalers 1, 64 and
256; of 1024 the statement is false, section 5).  The reference
`Hardware(c)` is recursive: c cycles, and in each of them a chain of timers that
overflow one another.  Its closed form is `Predicted(k)`, what the timers hold k cycles
from now: a timer that counts cycles has counted on to its overflow and from there
again (`CountAt`), a cascaded one has counted when the one below it is overdue
(`Over`).  The library's induction theorems cannot be used here (they take an operator
as a parameter), so `HardwarePredicted` goes another way: the closed form satisfies the
recursion (`NewlyIsRecursive`, `CycleStep`), so the function that is chosen for
`Hardware` satisfies it too, and two functions that do cannot differ, since there
would be a first cycle, or a lowest timer, where they do (`Least`).  The invariant
`CountInv` is that hardware and closed form agree at k = 0, overdue events
included, and that what the code recorded of a timer names one start: the event,
`last_scheduled` and the phase of the prescaler lie a whole number of ticks apart
(`Counts`).  This is what a late overflow and a start in the middle of a prescaler
period must keep, in arithmetic modulo 2^32 (`Arming`, `PhaseKept`, `OverflowCounts`).
The constants are asked what the code's have: 2^32 is a multiple of each
prescaler, and the longest period, 2^26, leaves room for the two cycles of a start.

**BusProofs** (`Irq`, `Keypad`, `Prefetch`).  For the interrupt line, `IInv` joins the
type invariant, `SignalConsistent`, `OneUpdatePending` and the fact that the
scheduler's loop runs inside a bus access; it gives `LineFollowsRegisters`,
`AtMostOneUpdate` and `SpuriousBounded`, for any set of interrupt sources and any
division of it into bytes.  `KeysAreAnswered` is `KeysAnswered` for any keys: it
needs of the registers only that a low byte does not hold the bit that enables the
interrupt.  For the prefetch buffer, `PrefetchInv` says where its head is with
respect to pc at each stage of the CPU (`InPlace`: at pc or one opcode past it; after
the first access of a pipeline flush, up to two behind), and that an active empty
buffer still has cycles to wait (`Waiting`).  The second is what keeps the unsigned
`cycles_left` from wrapping in `SequentialFetchBounded` (`FetchBounded`), and the
first says that straight-line code never meets the buffer behind itself, where no
one waits for the opcode that is under way.  `BufferHolds` is `HoldsWhatItRead`.
Both hold for any wait states, lengths of ticks,
addresses, and for any buffer of three ARM opcodes or more.

**DmaProofs** (`Dma`).  `ListsConsistentWithEvents` and `HighestPriorityRuns`, for
disciplined programs (`Disciplined`, see the end of 3; `dma_fast` is the
counterexample without).  `IInv` says that the running list descends, so that its
back has the highest priority also while the loop is in the middle of a transfer
(`ListsDisjoint`); that a transfer is of a channel that still runs (`Placed`); that an
enabled channel, listed or not, has a count (`Backed`); and, of time, that start
events are ordered by what they have left, and that those that the PPU triggers
have fired before its next event comes (`Timely`).  Without the last a channel
could be scheduled twice: nothing but the distance of the PPU's events prevents it.
The sort is proved to put a channel where its priority belongs
(`ByPriorityEffect`), the removals to keep the order of the rest (`DelistedKeeps`,
`RemoveAtKeeps`).

**PpuProofs** (`Ppu`, `Scanline`).  All about the beam assumes that the DMA that runs
between a halted CPU's question and its tick fits in a blanking (`MaxDma <=
cycles_hblank`); `ppu_halted` is the counterexample without.  `NextWithinPeriod` and
the type invariant (`ChainUnbroken`, `TypeCorrect`) need to know how late an event
can be (`NeverTooLate`), and that a halted CPU has asked for no more than is left,
up to what the DMA has since used (`AheadByTransfer`).  `BeamFollowed` and
`LinesOnce` (`FollowsBeam`, `EveryLineOnce`) rest on `BeamInv`: in every state, in
the middle of a tick as well, the beam is where the line and the cycles left to the
next event put it, up to a whole frame (`InStep`), and flags and finished lines are
those of the line and of the event to come (`FlagsTell`, `LinesDone`).  They hold for
lines, frames and video windows of any size.  `RegistersFollowed`
(`LinesFollowRegisters`) rests on `ScanInv`: of the two edges of a window the one
that was passed last tells whether it is drawn (`EdgesTell`), and the internal
reference point has moved by the lines since its latch, less those since the mosaic's
counter last wrapped (`OnTrack`), whatever registers were written in between.

**SoundProofs** (`Fifo`, `Psg`, `SoundBuffer`).  Of the FIFO: `Invariance`; `TypeCorrect`
(the two indices are as far apart as the size says); `NothingDropped`, by the
invariant that what is in the FIFO and what is still to come of a refill fit in it,
from `RefillAt + RefillBytes <= capacity`, which 16 + 16 <= 32 satisfies exactly;
and `Refinement` to the queue.  Of the channels, `ChannelsInRange`: types alone are
inductive here, but only because of what the sweep computes before it takes a rate
(`SweepInRange`) and of how the two bytes of a rate fit together (`PartsInRange`).
The rate stays below its limit under any interleaving of sweep clicks and
half-written rates, for registers of any size; a rate at the limit would have a
period of 0, and the scheduler's loop would never leave the channel's event.  Of the
buffer, `SamplesInOrder` (`SoundInOrder`) needs that the archive holds more samples
than its index says (`BufferInv`), so that the state that is loaded into a buffer of any
capacity fits; `OutputPaced` (`OutputKeepsPace`) that the phase from which a window
began, recovered from the present one, lies within one sample (`PaceInv`: the
code's subtractions lose nothing over any number of samples).

**CartridgeProofs** (`Flash`, `Gamepak`, `Eeprom`, `Rtc`).  `FlashInvariance` (for one bank and for two)
and `FlashRefinement`: the writes of a command change nothing until the last, which
has its whole effect.  `FlashObeys` (`Obeyed`): `ObeyInv` says that the program is
somewhere in one command, with what is left of its writes (`sending`) matched to the
phase and the flags that the chip must be in, for each of the six commands; the
chip between two commands is then as after a whole number of them.  For memories,
sectors and values of any size.  `PaksMatch` (`ChipMatchesPak`) rests on `PakInv`: a pak
that is loaded, and of a known kind, has the chip made for its own path, whichever
paks came before and whatever the database tells.

`EepromInStep` (`InStep`, `WidthKnown`) and `EepromReadsBack` (`ReadsBack`) are about a
protocol of single bits, `ClockIsUnderstood` (`ClockUnderstood`) about one of bytes that
go bit by bit.  `EepromInvariant` says that at each moment the chip's buffer is the
number that the bits sent so far are, and that its state and counter are those
that wait for the rest of the request: one part for each stretch of a request, the
command, the address, the word, the bit that ends it, the answer.  The address that
the chip puts together is so the one that was meant, of either width, and the word
it stores or gives out the one that was sent or stored.  The numbers are powers of
two and their sums; the prover has no law of `2^n`, and those that are needed are
derived by counting the subsets of 1..n.  The theorems hold for any two
widths, for words no shorter than the wider address whose bits the chip's counter can
count, for any memory, and for programs that poll and that do not.
Their hypothesis `Detectable` is what the code's constants satisfy (6 and 14 bits,
words of 64) with the two exceptions that section 5 describes: a wide chip whose
first request is a write is taken for a narrow one, and a reset forgets the width
that was found.  `RtcInv` divides a request of the clock likewise: nothing
asked, the pins being opened, a command going, parameters going, an answer coming;
in each the clock has the bits of the present byte that have passed, in the order
in which the pins move, and the bytes before are where they belong.  It
shows that a command sent lowest bit first is obeyed once, also after one that was
given up in the middle, and that any other byte does nothing.  It asks that no command
is sent reversed (`~MayReverse`), of which the statement is false (section 5).  The other
hypothesis, `SecondsFit`, that the host's seconds are below 80, is needed because the last bit of an answer is lost: the clock has
left the state that sends when the program reads it, and it is the highest bit of
the seconds, which is 0.

**CpuProofs** (`Cpu`, `Registers`).  `PipelineOrdered` (`PipelineInOrder`) and
`InterruptsResume` (`ResumesWhereInterrupted`) rest on `CpuInv`, which holds between any two
instructions (`Between`): the two stages are the opcodes before pc or flushed, a fetch
that is announced as sequential follows the last one, and, while the program owes a
return from an interrupt, `SUBS pc, lr, #4` would lead to the instruction that was
stopped, in its state (`Returns`).  The step is split into the fetch (`Fetched`), the
interrupt's entry and one lemma for each handler, which show that a handler that finds
the machine `Ready` leaves it `Between`.  For address spaces of any size, any operands
and any number of instructions.  `BanksCorrect` is the invariant that the mapping to
the register file rests on: fiq mode is never recorded as entered from itself.
`RegistersImplementFile` maps each step: `SwitchKeeps` shows that a switch between any
two modes moves each physical register to where the mapping then looks for it, and
`UserChanges` that a user bank transfer, two switches with a write between them,
changes the one register it should.  For any modes, registers and contents.

**SavedEventsProofs** (`SavedEvents`, `SaveState`).  `HandlesSafe` (`HandlesNameOwnEvents`) and
`NoEventLost` (`EventsOnce`), for any number of handles.  What holds of the machine
must hold of the archive, since it may be the next machine; and each client not only
has its events but knows them (`Once`: every pending event of a timer or of the line is
the one that its handle names), which is what makes a replacement replace.
`StateRestored` (`LoadRestores`) holds for any game pak, with a clock or not and with any
backup, and for any slots: both sides are shown to go through the same members in the
same order (`SameRow`), a byte that is loaded through a register's handler to have
for each field bits of its own (`LayoutsFit`), and what a load does not read to be
left out on purpose (`NotRead`).  `SaveInv` adds that in every archive the members that a
load computes agree with those it computes them from: an archive is a machine of some
moment, and running changes both together.

Assumptions on constants are those the modules name: sizes that the code has
(a FIFO that takes a refill twice, a buffer of three opcodes), sets that are not
empty, ranges of registers.  What restricts programs or environments is a hypothesis
of the theorems: `Disciplined`, the length of the DMA in a halt, `MasksWhole`,
`Detectable`, `SecondsFit` and `~MayReverse`.  `TickAssumption` of the timers belongs to them.

Only model-checked, and why:

- everything temporal but safety (`InterruptTaken`, `HaltEnds`, `WaitsForHigherOnly`,
  `NotesEnd`): the prover does not do fairness;
- `ArithmeticIsExact`, `ThumbMeansArm`, `TablesAgree`, `PixelsExact`: stated with
  recursive or bit-wise operators, which the prover does not take.  The tables are
  finite, and TLC enumerates them completely.


## 5. Disagreements found

1. **A channel can be scheduled twice** (`dma_fast`).  `schedule` checks that a
   channel is not running, not that it is already scheduled.  Two requests
   within the two cycles of the start delay (a timer of period one or two drives
   the FIFO) list the channel twice,
   with two events, of which the handle of the first is forgotten.  Disabling the
   channel then removes both entries and one event; the other one calls
   `front()` of an empty list.
2. **A halted CPU can push the clock past an event** (`ppu_halted`).
   `remaining_cycles_to_next_event()` is evaluated before `tick_components` runs the
   DMA, and the same number of cycles is added afterwards.  A DMA longer than a
   blanking makes the event of the PPU later than its period; the unsigned
   difference wraps and the beam stops for 2^32 cycles.
3. **A reset forgets the width of an EEPROM** (`eeprom_reset`).  The chip goes back
   to a width of 0, `gamepak` remembers that the width was found, and so it is
   never looked for again: no request is understood until the pak is loaded anew.
4. **The event of the second pak's EEPROM is not registered** (`pak_swap`).  The
   registry keeps the first callback of a name.  A state that is saved while the
   second chip settles ends in the panic for unknown callbacks, and a state that
   is loaded with the event of the name calls the chip that is gone.
5. **The longest prescaler has a short mask** (`timer_mask`).  The masks of the start
   delay are written `0_u8, 0x3F_u8, 0xFF_u8, 0x3FF_u8`, and the literal casts to eight
   bits: the fourth is 0xFF.  A timer that starts with the prescaler of 1024 takes its
   phase from the clock modulo 256 and counts up to 768 cycles late.
6. **A reversed command is not turned around** (`rtc_reversed`).  The branch for it
   tests the bit counter instead of the byte, and `read_sio` has just cleared the
   counter.  It is never taken, and the command is dropped as unknown.

Further limits that the models made visible, not violations of anything that the
repository states:

- After a branch back to the address that the buffer had reached, `cycles_left`
  can be negative and is converted to unsigned (`Prefetch`, the comment on
  `SequentialFetchBounded`).  So can it after data were read at pc, while the
  program runs in straight line: the buffer takes them for the next opcode, and
  when it has then been emptied twice without being filled anew, it lags behind the
  program.  The run's instance is too small for that; the attempt at a proof showed it.
- Requests that are made to an EEPROM before it has settled are accepted, and the
  event of the first word then reports the second one as settled (`InStep` says
  that ready means settled for programs that poll, `patient`).
- The width of an EEPROM is guessed from the length of the first transfer: 17
  units, those of a read, mean a wide bus, any other length a narrow one.  A
  first request that writes (73 or 81 units) always finds a narrow chip: with
  `WriteFirst = TRUE` the `cartridge` run violates `InStep`.
- The delay of a timer's next overflow, and of a sound channel's next sample, is
  `period - late_cycles` without a guard, like the PPU's.  The shortest periods
  of a pulse and of the wave channel, 16 and 8 cycles, are less than one long bus
  access.
- The length register of the wave channel is taken for the length itself, so that
  a note of length 0 never ends; `NoteEnds` excepts it (`counted`).
- No archive has the handle of a PSG channel's output event.  A channel that is
  restarted after a load, with the handle it had before, removes nothing or the
  event of another client, and then has two events (`misfired` in `SavedEvents`).
- The release of a key too many completes the condition `all` of KEYCNT without
  an interrupt, which comes with the next key (`released` in `Keypad`).
- A coordinate that is a negative multiple of an affine map's size is wrapped to
  the size, one past its end; an object with a mosaic that begins left of the
  screen, off the grid, starts with a remainder of the wrong sign; a window with
  both edges beyond the screen, the left one further out, is not drawn where the
  wrap would have it (`DotsExact` names these three).
- Thumb MUL clears the carry, the ARM multiply leaves it as it was.  Which is meant
  the repository does not say; `ThumbMeansArm` compares all of their results but
  this flag.
- An empty list in a Thumb STM moves pc twice and skips an instruction (`skewed`
  in `Cpu`); fiq mode, which nothing on the console enters by itself, shares r8
  to r12 only with the mode it came from (`RegisterFile`).


## 6. What is not modelled, or only in part

- Of the instructions, the data that does not reach pc or a status register: long
  multiplies, and the rotation of misaligned loads, are pure arithmetic of one
  expression.  Cycle counts of single instructions: a tick is any number of cycles
  up to a bound.
- Of rendering, the addresses of tiles and of maps, palettes, flips and matrices of
  objects, and the green swap: each is an expression without state, and shows on
  the screen at once.  The bitmap modes run through the affine loop.
- Of the sound generator, what shapes a wave (duty, wave RAM, shift register), the
  sums of the mixer, the cubic of the resampler, which is floating-point
  arithmetic, and the times at which the output events are due.
- Memory contents, and addresses of the DMA: which word goes where does not
  affect the properties here, except that a transfer could write to the
  controller's own registers, which is left out.
- SRAM, an array; the backing file, a memory map of the platform; the header and
  the table of games, which are data.
- The helper library, the platform's file system, the front end and the debugger
  (but for the tables of its disassembler), and vendored code.


## 7. Plan

Done, in this order: `Scheduler` and its proofs (everything else rests on it),
`Irq`, `Dma`, `Timer`, `Prefetch`, `Ppu`, `Eeprom`, `Flash`, `Fifo`, `Psg`, with proofs
of `Irq`, `Timer`, `Ppu`, `Flash`, `Fifo` and `Psg`; then the CPU (`Cpu`, `Registers`
with its proofs, `Alu`, `Decoder`), `Keypad`, `SoundBuffer`, `Rtc`, `Gamepak`,
`SaveState`, `SavedEvents`, `Scanline` and `Pixels`; then the proofs about `Dma`,
`Prefetch`, the beam, `Scanline`, `SoundBuffer`, `Obeyed`, `Gamepak`, `Cpu` and
`SavedEvents`; then those about `CountsLikeHardware` and the serial protocols of the
EEPROM and of the clock, and `LoadRestores`.

To come:

1. An abstract DMA (the channel of highest priority moves its units, each trigger
   once) that `Dma` implements.
2. The output events of the sound channels with their periods, so that the wrap of
   `period - late_cycles` can be stated for them.
