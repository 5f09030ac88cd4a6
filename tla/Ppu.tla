--------------------------------- MODULE Ppu --------------------------------
(***************************************************************************)
(* The timing of the picture processing unit (ppu/ppu.cpp): a chain of two *)
(* events, on_hblank and on_hdraw, each of which adds the other, the line  *)
(* counter, the flags of DISPSTAT, and what a line causes: rendering and   *)
(* requests for DMA.  Pixels are left out.                                 *)
(*                                                                         *)
(* The clock is driven as cpu::tick drives it.  A running CPU ticks the    *)
(* bus a few cycles at a time.  A halted one asks for the cycles to the    *)
(* next event of any component and ticks the bus that far; but the bus     *)
(* runs the DMA first, which ticks on its own, and the cycles that were    *)
(* asked for are added after that.                                         *)
(*                                                                         *)
(* `position' is where the beam of the hardware is in the frame.           *)
(***************************************************************************)
EXTENDS Integers

CONSTANTS
    cycles_hdraw,       \* 1006 in the code
    cycles_hblank,      \* 226
    total_lines,        \* 228
    screen_height,      \* 160
    video_dma_start_line, \* 2
    video_dma_end_line, \* 162
    Settings,           \* values of the line that DISPSTAT compares with
    MaxTick,            \* longest bus access, in cycles
    Width,              \* 2^32 in the code
    MaxDma              \* bound of the model: the cycles that DMA takes while the
                        \* CPU is halted, before those the CPU has asked for

ASSUME PpuAssumption ==
    /\ cycles_hdraw \in Nat \ {0} /\ cycles_hblank \in Nat \ {0}
    /\ cycles_hblank <= cycles_hdraw
    /\ total_lines \in Nat /\ screen_height \in Nat
    /\ video_dma_start_line \in Nat /\ video_dma_end_line \in Nat
    /\ 0 < screen_height /\ screen_height < total_lines - 1
    /\ video_dma_end_line < total_lines
    /\ Settings \subseteq Nat
    /\ MaxTick \in Nat \ {0}
    /\ MaxTick <= cycles_hblank
    /\ Width \in Nat /\ Width > cycles_hdraw /\ Width > cycles_hblank
    /\ MaxDma \in Nat

VARIABLES
    vcount,             \* vcount_
    dispstat,           \* dispstat_, without the bits that only enable interrupts
    next,               \* the event that is in the scheduler
    left,               \* cycles to it, negative when it is late
    asked,              \* the cycles a halted CPU has asked for, 0 when none
    transferred,        \* cycles of the DMA transfer nested in its tick
    position,           \* cycles since the frame began, of the hardware
    rendered,           \* the lines rendered in this frame
    video               \* the lines of this frame that requested a video transfer

engine == <<vcount, dispstat, next, left>>
cpu == <<asked, transferred>>
ghosts == <<position, rendered, video>>
vars == <<engine, cpu, ghosts>>

LineCycles == cycles_hdraw + cycles_hblank
FrameCycles == total_lines * LineCycles
vcount_max == total_lines - 1

Init ==
    /\ vcount = 0
    /\ dispstat = [vblank |-> FALSE, hblank |-> FALSE, vcounter |-> FALSE,
                   vcount_setting |-> 0, checked |-> FALSE]
    /\ next = "hblank"
    /\ left = cycles_hdraw
    /\ asked = 0
    /\ transferred = 0
    /\ position = 0
    /\ rendered = {}
    /\ video = {}

Due == left <= 0
-----------------------------------------------------------------------------
(* The delay of the next event, in unsigned arithmetic.  Mutant: the lateness
   is counted twice. *)
PeriodTwiceLate(cycles, late) == (cycles - 2 * late) % Width
Period(cycles, late) == (cycles - late) % Width

(* The line after one. *)
LineAfter(line) == (line + 1) % total_lines

(* check_vcounter_irq; `checked' is a ghost, there has been a check. *)
Checked(d, line) == [d EXCEPT !.vcounter = (d.vcount_setting = line), !.checked = TRUE]

(* vblank is set on the first line below the screen and cleared on the last
   line.  Mutant: cleared when the counter starts over. *)
VblankUntilZero(line, vblank) ==
    IF line = screen_height THEN TRUE ELSE IF line = 0 THEN FALSE ELSE vblank
Vblank(line, vblank) ==
    IF line = screen_height THEN TRUE ELSE IF line = vcount_max THEN FALSE ELSE vblank

(* The lines that are drawn, and those that feed a video transfer.  Mutant:
   one line more. *)
DrawnIncluding(line) == line <= screen_height
Drawn(line) == line < screen_height
FeedsVideo(line) == video_dma_start_line <= line /\ line < video_dma_end_line

OnHdraw ==
    /\ Due
    /\ next = "hdraw"
    /\ LET line == LineAfter(vcount)
       IN  /\ vcount' = line
           /\ dispstat' = Checked([dispstat EXCEPT !.hblank = FALSE,
                                       !.vblank = Vblank(line, dispstat.vblank)], line)
           /\ rendered' = IF line = 0 THEN {} ELSE rendered
           /\ video' = IF line = 0 THEN {} ELSE video
    /\ next' = "hblank"
    /\ left' = Period(cycles_hdraw, -left)
    /\ UNCHANGED <<cpu, position>>

OnHblank ==
    /\ Due
    /\ next = "hblank"
    /\ dispstat' = [dispstat EXCEPT !.hblank = TRUE]
    /\ rendered' = IF Drawn(vcount) THEN rendered \cup {vcount} ELSE rendered
    /\ video' = IF vcount # video_dma_end_line /\ FeedsVideo(vcount)
                  THEN video \cup {vcount} ELSE video
    /\ next' = "hdraw"
    /\ left' = Period(cycles_hblank, -left)
    /\ UNCHANGED <<vcount, cpu, position>>

(* Both bytes of DISPSTAT; the interrupt itself is Irq's. *)
WriteDispstat(setting) ==
    /\ ~Due
    /\ asked = 0
    /\ dispstat' = Checked([dispstat EXCEPT !.vcount_setting = setting], vcount)
    /\ UNCHANGED <<vcount, next, left, cpu, ghosts>>
-----------------------------------------------------------------------------
(* scheduler::add_cycles, up to its loop: Due is the loop. *)
Elapse(cycles) ==
    /\ ~Due
    /\ left' = left - cycles
    /\ position' = (position + cycles) % FrameCycles

(* A running CPU: an instruction, or a transfer of the DMA within it. *)
CpuTick(cycles) ==
    /\ asked = 0
    /\ Elapse(cycles)
    /\ UNCHANGED <<vcount, dispstat, next, cpu, rendered, video>>

(* A halted CPU: remaining_cycles_to_next_event is evaluated.  The next event
   is the PPU's or an earlier one of another component. *)
Ask(cycles) ==
    /\ ~Due
    /\ asked = 0
    /\ cycles <= left
    /\ asked' = cycles
    /\ transferred' = 0
    /\ UNCHANGED <<engine, ghosts>>

(* tick_components runs the DMA first. *)
DmaTick(cycles) ==
    /\ asked > 0
    /\ transferred + cycles <= MaxDma
    /\ Elapse(cycles)
    /\ transferred' = transferred + cycles
    /\ UNCHANGED <<vcount, dispstat, next, asked, rendered, video>>

(* And adds the cycles that were asked for. *)
HaltedTick ==
    /\ asked > 0
    /\ Elapse(asked)
    /\ asked' = 0
    /\ transferred' = 0
    /\ UNCHANGED <<vcount, dispstat, next, rendered, video>>

Next ==
    \/ OnHdraw
    \/ OnHblank
    \/ \E setting \in Settings : WriteDispstat(setting)
    \/ \E cycles \in 1..MaxTick : CpuTick(cycles) \/ DmaTick(cycles)
    \/ \E cycles \in 1..cycles_hdraw : Ask(cycles)
    \/ HaltedTick

Spec == Init /\ [][Next]_vars
-----------------------------------------------------------------------------
(* The state is well formed. *)
TypeOK ==
    /\ vcount \in 0..vcount_max
    /\ dispstat \in [vblank : BOOLEAN, hblank : BOOLEAN, vcounter : BOOLEAN,
                     vcount_setting : Nat, checked : BOOLEAN]
    /\ next \in {"hblank", "hdraw"}
    /\ left \in Int
    /\ asked \in 0..cycles_hdraw
    /\ transferred \in 0..MaxDma
    /\ position \in 0..(FrameCycles - 1)

BeamLine == position \div LineCycles
BeamInHblank == position % LineCycles >= cycles_hdraw

(* Whenever a program can look, the line counter and the blanking flags are
   those of the hardware: lateness does not add up over the lines. *)
FollowsBeam ==
    ~Due =>
        /\ vcount = BeamLine
        /\ dispstat.hblank = BeamInHblank
        /\ dispstat.vblank = (BeamLine \in screen_height..(vcount_max - 1))
        /\ dispstat.checked => dispstat.vcounter = (dispstat.vcount_setting = BeamLine)

(* Each line of the screen is rendered once, at the end of its drawing, and
   each line of the video window requests its transfer: at any point of the
   frame exactly those that the beam has passed have been. *)
Passed(line) == line < BeamLine \/ (line = BeamLine /\ BeamInHblank)

EveryLineOnce ==
    ~Due =>
        /\ rendered = {line \in 0..(screen_height - 1) : Passed(line)}
        /\ video = {line \in video_dma_start_line..(video_dma_end_line - 1) : Passed(line)}

(* The chain never breaks: the next event is never further away than its
   period.  A lateness beyond the period would wrap, and put the event 2^32
   cycles ahead. *)
NextWithinPeriod ==
    left <= (IF next = "hblank" THEN cycles_hdraw ELSE cycles_hblank)
=============================================================================
