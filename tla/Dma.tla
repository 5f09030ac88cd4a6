-------------------------------- MODULE Dma ---------------------------------
(***************************************************************************)
(* The DMA controller (cpu/dma_controller.cpp) together with the part of   *)
(* the bus that drives it (core::tick_components) and of the components    *)
(* that request transfers.                                                 *)
(*                                                                         *)
(* A channel that is triggered waits two cycles in scheduled_channels_ for *)
(* an anonymous event: on_channel_start moves the front of that list to    *)
(* running_channels_.  Transfers run inside the next bus access of the     *)
(* CPU, nested in tick_components; each of their own bus accesses adds     *)
(* cycles and fires events, which trigger and start further channels while *)
(* run_channels is looping over the list.                                  *)
(*                                                                         *)
(* Time is relative: a start event carries the cycles that are left of its *)
(* delay.  Data are left out: addresses, latches and the words that are    *)
(* moved; a channel's destination register matters only as to whether it   *)
(* is a sound FIFO.  DMA does not write the DMA registers here.            *)
(***************************************************************************)
EXTENDS Naturals, Sequences, SequencesExt, FiniteSets

CONSTANTS
    Channels,           \* the channels in use, of 0..3
    Settings,           \* for each channel, the controls the program writes to it
    Counts,             \* values of the count registers
    FifoWords,          \* words of a FIFO transfer (4 in the code)
    FifoOf,             \* the FIFO a channel's destination register names, or "none"
    MaxTick,            \* longest bus access, in cycles
    Disciplined         \* see SoundSpaced and Reconfigures

Timings == {"immediately", "vblank", "hblank", "special"}

(* channel::control; reload is src_control = inc_reload, which is prohibited. *)
Control == [enabled : BOOLEAN, when : Timings, repeat : BOOLEAN, reload : BOOLEAN]

ASSUME DmaAssumption ==
    /\ Channels \subseteq 0..3
    /\ \A c \in Channels : Settings[c] \subseteq Control
    /\ Counts \subseteq 1..15
    /\ FifoWords \in 1..15
    /\ MaxTick \in Nat \ {0}
    /\ Disciplined \in BOOLEAN

Delay == 2              \* of a start event
Modulus == 16           \* of the counts (2^32), above every count
PpuGap == 3             \* bus accesses between two events of the PPU, at least

VARIABLES
    cnt,                \* cnt of each channel
    count,              \* internal.count of each channel
    scheduled,          \* scheduled_channels_
    running,            \* running_channels_
    starts,             \* start events in the order they fire, [owner, left]
    pc,                 \* where tick_components and run_channels are
    in_loop,            \* the scheduler is inside add_cycles
    first_run,          \* first_run of run_channels
    active,             \* channel, for_fifo of the iteration under way
    accesses,           \* bus accesses left in the iteration
    since_write,        \* bus accesses since the CPU wrote a control register, up to 2
    since_ppu           \* bus accesses since the last event of the PPU, up to PpuGap

lists == <<scheduled, running, starts>>
run == <<first_run, active, accesses>>
clocks == <<since_write, since_ppu>>
vars == <<cnt, count, lists, pc, in_loop, run, clocks>>

Idle == [channel |-> 0, for_fifo |-> FALSE]

Init ==
    /\ cnt = [c \in Channels |->
                [enabled |-> FALSE, when |-> "immediately", repeat |-> FALSE, reload |-> FALSE]]
    /\ count = [c \in Channels |-> 0]
    /\ scheduled = <<>> /\ running = <<>> /\ starts = <<>>
    /\ pc = "cpu"
    /\ in_loop = FALSE
    /\ first_run = FALSE
    /\ active = Idle
    /\ accesses = 0
    /\ since_write = 2
    /\ since_ppu = PpuGap

(* The channels of a set in the order of the array channels_. *)
Only(c, set) == IF c \in set THEN <<c>> ELSE <<>>
InOrder(set) == Only(0, set) \o Only(1, set) \o Only(2, set) \o Only(3, set)

IsForFifo(c, control) == control.when = "special" /\ c \in {1, 2}

-----------------------------------------------------------------------------
(* The condition of schedule().  A channel that is running is not scheduled
   again, one that is scheduled already is. *)
Triggered(control, c, timing) ==
    control[c].enabled /\ control[c].when = timing /\ ~control[c].reload /\ ~Contains(running, c)

ScheduleAll(control, channels) ==
    /\ scheduled' = scheduled \o channels
    /\ starts' = starts \o [i \in DOMAIN channels |-> [owner |-> channels[i], left |-> Delay]]

(* A list, of four places, after a channel was disabled. *)
Delisted(list, c) ==
    LET Kept(i) == IF i <= Len(list) /\ list[i] # c THEN <<list[i]>> ELSE <<>>
    IN  Kept(1) \o Kept(2) \o Kept(3) \o Kept(4)

(* remove_event(last_event_handle): the youngest of the channel's events.
   Mutant: the event is not removed. *)
WithLastEvent(c) == starts
WithoutLastEvent(c) ==
    LET own == {i \in DOMAIN starts : starts[i].owner = c}
    IN  IF own = {} THEN starts
        ELSE RemoveAt(starts, CHOOSE i \in own : \A j \in own : j <= i)

(* latch(): the count a transfer starts with. *)
LatchedCounts(c, control) == IF IsForFifo(c, control) THEN {FifoWords} ELSE Counts

-----------------------------------------------------------------------------
(* The high byte of a channel's control register is written.  Two writes of
   control registers are at least two accesses of the CPU apart. *)
Reconfigures(c, control) ==
    cnt[c].enabled /\ control.enabled /\ control.when # cnt[c].when

WriteCntH(c, control) ==
    /\ pc = "cpu" /\ since_write = 2
    /\ Disciplined => ~Reconfigures(c, control)
    /\ LET new == [control EXCEPT !.repeat = @ /\ control.when # "immediately"]
       IN  /\ cnt' = [cnt EXCEPT ![c] = new]
           /\ IF ~control.enabled
                THEN /\ scheduled' = Delisted(scheduled, c)
                     /\ running' = Delisted(running, c)
                     /\ starts' = WithoutLastEvent(c)
                     /\ UNCHANGED count
                ELSE IF cnt[c].enabled
                THEN UNCHANGED <<count, lists>>
                ELSE /\ \E n \in LatchedCounts(c, new) : count' = [count EXCEPT ![c] = n]
                     /\ ScheduleAll(cnt', IF Triggered(cnt', c, "immediately")
                                            THEN <<c>> ELSE <<>>)
                     /\ UNCHANGED running
    /\ since_write' = 0
    /\ UNCHANGED <<pc, in_loop, run, since_ppu>>

(* tick_components, called for an access of the CPU. *)
CpuAccess ==
    /\ pc = "cpu"
    /\ IF running # <<>> THEN pc' = "run" /\ first_run' = TRUE
                         ELSE pc' = "add" /\ UNCHANGED first_run
    /\ UNCHANGED <<cnt, count, lists, in_loop, active, accesses, clocks>>

(* An iteration of run_channels: the channel at the back is picked.  Before
   the first transfer that is not from ROM to ROM the bus idles twice. *)
Picked == Last(running)

SelectChannel ==
    /\ pc = "run" /\ running # <<>>
    /\ active' = [channel |-> Picked, for_fifo |-> IsForFifo(Picked, cnt[Picked])]
    /\ accesses' \in (IF first_run THEN {2, 4} ELSE {2})
    /\ first_run' = (first_run /\ accesses' = 2)
    /\ pc' = "transfer"
    /\ UNCHANGED <<cnt, count, lists, in_loop, clocks>>

RunEnds ==
    /\ pc = "run" /\ running = <<>>
    /\ pc' = "add"
    /\ first_run' = FALSE
    /\ UNCHANGED <<cnt, count, lists, in_loop, active, accesses, clocks>>

(* What is left of a delay. *)
Elapsed(left, c) == IF left > c THEN left - c ELSE 0

(* add_cycles, for an access of the CPU or of the active channel. *)
AddCycles(c) ==
    /\ pc = "add" \/ (pc = "transfer" /\ accesses > 0)
    /\ ~in_loop
    /\ in_loop' = TRUE
    /\ starts' = [i \in DOMAIN starts |-> [starts[i] EXCEPT !.left = Elapsed(@, c)]]
    /\ since_write' = IF since_write < 2 THEN since_write + 1 ELSE 2
    /\ since_ppu' = IF since_ppu < PpuGap THEN since_ppu + 1 ELSE PpuGap
    /\ UNCHANGED <<cnt, count, scheduled, running, pc, run>>

StartDue == starts # <<>> /\ Head(starts).left = 0

(* The callback of a start event.  It takes the front of the list, which must
   not be empty, and sorts the other list.  Mutant: it does not sort. *)
Unsorted(list) == list
Copies(list, c) == [k \in 1..Cardinality({i \in DOMAIN list : list[i] = c}) |-> c]
ByPriority(list) == Copies(list, 3) \o Copies(list, 2) \o Copies(list, 1) \o Copies(list, 0)

OnChannelStart ==
    /\ in_loop /\ StartDue
    /\ scheduled # <<>>
    /\ starts' = Tail(starts)
    /\ scheduled' = Tail(scheduled)
    /\ running' = ByPriority(Append(running, Head(scheduled)))
    /\ UNCHANGED <<cnt, count, pc, in_loop, run, clocks>>

(* The loop of the scheduler is done: the access has been made. *)
LoopEnds ==
    /\ in_loop /\ ~StartDue
    /\ in_loop' = FALSE
    /\ IF pc = "add" THEN pc' = "cpu" /\ UNCHANGED accesses
                     ELSE accesses' = accesses - 1 /\ UNCHANGED pc
    /\ UNCHANGED <<cnt, count, lists, first_run, active, clocks>>

(* The count reaches zero. *)
Done(c) == count[c] = 1

(* The list without the channel that is done.  Mutant: not if it repeats. *)
Found(c) == CHOOSE i \in DOMAIN running : running[i] = c /\ \A j \in 1..(i - 1) : running[j] # c
DropUnlessRepeat(c) == IF cnt[c].repeat THEN running ELSE RemoveAt(running, Found(c))
Drop(c) == RemoveAt(running, Found(c))

(* The rest of the iteration, after the word was written. *)
FinishTransfer ==
    LET c == active.channel
    IN  /\ pc = "transfer" /\ accesses = 0 /\ ~in_loop
        /\ IF ~Done(c)
             THEN /\ count' = [count EXCEPT ![c] = (@ + Modulus - 1) % Modulus]
                  /\ UNCHANGED <<cnt, running>>
             ELSE /\ running' = Drop(c)
                  /\ IF cnt[c].repeat
                       THEN /\ \E n \in (IF active.for_fifo THEN {FifoWords} ELSE Counts) :
                                 count' = [count EXCEPT ![c] = n]
                            /\ UNCHANGED cnt
                       ELSE /\ count' = [count EXCEPT ![c] = 0]
                            /\ cnt' = [cnt EXCEPT ![c].enabled = FALSE]
        /\ active' = Idle
        /\ pc' = "run"
        /\ UNCHANGED <<scheduled, starts, in_loop, first_run, accesses, clocks>>
-----------------------------------------------------------------------------
(* request(): the channels an occasion triggers, in the order of channels_. *)
TriggeredSeq(control, timing) ==
    InOrder({c \in Channels : Triggered(control, c, timing)})

TriggeredVideo(control) ==
    IF 3 \in Channels /\ Triggered(control, 3, "special") THEN <<3>> ELSE <<>>

TriggeredFifo(control, fifo) ==
    InOrder({c \in Channels \cap {1, 2} : FifoOf[c] = fifo /\ Triggered(control, c, "special")})

(* The occasions of the PPU: on_hdraw at the first line of the vertical blank,
   on_hblank at the visible lines, at the lines of the video transfer, and
   at line 162, where it disables the video channel instead, whatever state
   the channel is in.  PPU events are 226 cycles apart or more. *)
PpuEvent ==
    /\ in_loop
    /\ since_ppu = PpuGap
    /\ since_ppu' = 0
    /\ UNCHANGED <<count, running, pc, in_loop, run, since_write>>

OnVblank ==
    /\ PpuEvent
    /\ ScheduleAll(cnt, TriggeredSeq(cnt, "vblank"))
    /\ UNCHANGED cnt

OnHblank(visible, video) ==
    /\ PpuEvent
    /\ ScheduleAll(cnt, (IF visible THEN TriggeredSeq(cnt, "hblank") ELSE <<>>) \o
                        (IF video THEN TriggeredVideo(cnt) ELSE <<>>))
    /\ UNCHANGED cnt

DisableVideoTransfer ==
    /\ PpuEvent
    /\ 3 \in Channels
    /\ cnt[3].enabled /\ cnt[3].when = "special"
    /\ cnt' = [cnt EXCEPT ![3].enabled = FALSE]
    /\ UNCHANGED <<scheduled, starts>>

(* A timer that feeds the sound FIFOs overflows, and each FIFO in the set is
   half empty: fifo::on_timer_overflow requests a refill, at every overflow
   until the refill has been made.  A disciplined program's sample rate
   leaves a refill the time to start before the next overflow; any program's
   timers overflow once in an add_cycles call. *)
SoundSpaced ==
    IF Disciplined
      THEN \A c \in {1, 2} : ~Contains(scheduled, c)
      ELSE \A i \in DOMAIN starts : starts[i].owner \in {1, 2} => starts[i].left < Delay

OnTimerOverflow(fifos) ==
    /\ in_loop
    /\ SoundSpaced
    /\ ScheduleAll(cnt,
           (IF "fifo_a" \in fifos THEN TriggeredFifo(cnt, "fifo_a") ELSE <<>>) \o
           (IF "fifo_b" \in fifos THEN TriggeredFifo(cnt, "fifo_b") ELSE <<>>))
    /\ UNCHANGED <<cnt, count, running, pc, in_loop, run, clocks>>

Request ==
    \/ OnVblank
    \/ \E visible, video \in BOOLEAN : OnHblank(visible, video)
    \/ DisableVideoTransfer
    \/ \E fifos \in SUBSET {"fifo_a", "fifo_b"} : OnTimerOverflow(fifos)

Next ==
    \/ \E c \in Channels : \E control \in Settings[c] : WriteCntH(c, control)
    \/ CpuAccess
    \/ SelectChannel
    \/ RunEnds
    \/ \E c \in 1..MaxTick : AddCycles(c)
    \/ OnChannelStart
    \/ LoopEnds
    \/ FinishTransfer
    \/ Request

Spec == Init /\ [][Next]_vars

(* The CPU is ticked for ever, and all that it calls returns. *)
Fairness ==
    /\ WF_vars(CpuAccess)
    /\ WF_vars(SelectChannel)
    /\ WF_vars(RunEnds)
    /\ WF_vars(\E c \in 1..MaxTick : AddCycles(c))
    /\ WF_vars(OnChannelStart)
    /\ WF_vars(LoopEnds)
    /\ WF_vars(FinishTransfer)

FairSpec == Spec /\ Fairness
-----------------------------------------------------------------------------
(* The state is well formed. *)
TypeOK ==
    /\ cnt \in [Channels -> Control]
    /\ count \in [Channels -> 0..(Modulus - 1)]
    /\ scheduled \in Seq(Channels) /\ running \in Seq(Channels)
    /\ starts \in Seq([owner : Channels, left : 0..Delay])
    /\ pc \in {"cpu", "add", "run", "transfer"}
    /\ in_loop \in BOOLEAN /\ first_run \in BOOLEAN
    /\ active \in [channel : Channels \cup {0}, for_fifo : BOOLEAN]
    /\ accesses \in 0..4
    /\ since_write \in 0..2 /\ since_ppu \in 0..PpuGap

(* The anonymous start events and the channels that wait for them agree:
   front() of an empty list, or a start that is delivered to another channel
   than the one it was scheduled for, cannot happen, although a channel can
   be disabled between the two. *)
StartsMatchScheduled ==
    scheduled = [i \in DOMAIN starts |-> starts[i].owner]

(* The assertion of static_vector::at, "idx < size_", which front() reaches:
   there is a channel in the list for every start event. *)
FrontExists == starts # <<>> => scheduled # <<>>

(* The two lists stay consistent with the channels, whichever are disabled or
   come to their end while others are started: a channel waits or runs once,
   so that the lists never exceed their capacity; it is enabled, except for the
   video channel, which the PPU disables without taking it off the lists; and a
   running channel has words to transfer, as its count, decremented at zero,
   would make four billion more. *)
ListedOnce == IsInjective(scheduled \o running)
ListedIsEnabled ==
    \A c \in Channels \ {3} : Contains(scheduled \o running, c) => cnt[c].enabled
RunningHasWork == \A c \in Channels : Contains(running, c) => count[c] > 0

ListsConsistent == ListedOnce /\ ListedIsEnabled /\ RunningHasWork

(* "always has the highest priority": no channel that could run outranks the
   one whose transfer begins, however channels were started in between. *)
PriorityRespected ==
    [][pc = "run" /\ pc' = "transfer" =>
        \A c \in Channels : Contains(running, c) => active'.channel <= c]_vars

(* A channel that waits to run is kept waiting by channels of higher priority
   only: the loop of run_channels makes progress however many requests, and
   preemptions, arrive while it runs. *)
WaitsForHigherOnly ==
    \A c \in Channels :
        Contains(running, c) ~>
            (~Contains(running, c) \/ \E d \in Channels : d < c /\ Contains(running, d))

(* No channel is lost between its start event and the two lists. *)
ListsMatchEvents == TypeOK /\ StartsMatchScheduled /\ ListsConsistent
=============================================================================
