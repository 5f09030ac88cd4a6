-------------------------------- MODULE Timer -------------------------------
(***************************************************************************)
(* The four timers (cpu/timer.cpp).  A timer that counts cycles is not     *)
(* ticked: it keeps the timestamp of its last start and the event of its   *)
(* next overflow, and computes its counter when it is read or rewritten.   *)
(* A cascaded timer is a delegate of the on_overflow event of the timer    *)
(* below it.  Overflow events arrive late, when the tick that passed them  *)
(* is over.                                                                *)
(*                                                                         *)
(* Time is relative: `left' is a timestamp minus the cycle counter, and    *)
(* the cycle counter is kept modulo 2^32, all that the code looks at.  The *)
(* interrupt request and the sound FIFOs hang on overflow_internal; the    *)
(* model counts those calls instead.                                       *)
(*                                                                         *)
(* Beside the code's state the model keeps the timers as hardware would    *)
(* have them, ticked cycle by cycle: `value', `wait' and `offset'.         *)
(***************************************************************************)
EXTENDS Integers

CONSTANTS
    Last,               \* the timers are 0..Last (3 in the code)
    overflow_value,     \* 2^16 in the code
    Prescalars,         \* for each prescaler, the cycles of a tick: 1, 64, 256, 1024
    Selected,           \* the prescalers that programs select
    MaskWidth,          \* 2^8 in the code, whose start_delay_masks are of type u8
    Reloads,            \* values of the reload register
    Width,              \* 2^32 in the code
    MaxTick             \* longest uninterrupted tick of the bus, in cycles

Timers == 0..Last

ASSUME TimerAssumption ==
    /\ Last \in Nat
    /\ overflow_value \in Nat \ {0}
    /\ Width \in Nat \ {0}
    /\ Selected \subseteq DOMAIN Prescalars /\ 0 \in Selected
    /\ MaskWidth \in Nat \ {0}
    /\ \A p \in Selected :
        /\ Prescalars[p] \in Nat \ {0}
        /\ Width % Prescalars[p] = 0
        /\ overflow_value * Prescalars[p] + 2 < Width      \* 2^26 + 2 in the code
    /\ Reloads \subseteq 0..(overflow_value - 1) /\ 0 \in Reloads
    /\ MaxTick \in Nat \ {0}

(* What the model asks of the constants to be a fair picture of the code:
   no tick outlasts a period, so that the delay of the next overflow does not
   wrap.  The code has no such guard: see the README. *)
ASSUME TickAssumption ==
    \A r \in Reloads : overflow_value - r >= MaxTick

VARIABLES
    control,            \* control_ of each timer
    reload,             \* reload_
    counter,            \* counter_
    last_scheduled,     \* last_scheduled_timestamp_, modulo Width
    scheduled,          \* the timers whose handle_ names a live event
    left,               \* cycles to that event
    connected,          \* the timers that are delegates of the one below
    clock,              \* the cycle counter, modulo Width
    value,              \* the counter of the hardware
    wait,               \* cycles until the hardware starts to count
    offset,             \* the phase of its prescaler
    owed                \* overflows of the hardware that the code has not had yet

code == <<control, reload, counter, last_scheduled, scheduled, left, connected, clock>>
hardware == <<value, wait, offset, owed>>
timervars == <<code, hardware>>

Control == [enabled : BOOLEAN, cascaded : BOOLEAN, prescalar : Selected]

TimerInit ==
    /\ control = [t \in Timers |-> [enabled |-> FALSE, cascaded |-> FALSE, prescalar |-> 0]]
    /\ reload = [t \in Timers |-> 0]
    /\ counter = [t \in Timers |-> 0]
    /\ last_scheduled = [t \in Timers |-> 0]
    /\ scheduled = {}
    /\ left = [t \in Timers |-> 0]
    /\ connected = {}
    /\ clock = 0
    /\ value = [t \in Timers |-> 0]
    /\ wait = [t \in Timers |-> 0]
    /\ offset = [t \in Timers |-> 0]
    /\ owed = [t \in Timers |-> 0]

Overdue(t) == t \in scheduled /\ left[t] <= 0
Quiet == \A t \in Timers : ~Overdue(t)
-----------------------------------------------------------------------------
(* calculate_counter_delta, with the prescaler p. *)
Delta(t, p) == ((clock - last_scheduled[t]) % Width) \div Prescalars[p]

(* overflow_internal of t reloads its counter and ticks its delegate, whose
   counter may overflow in turn.  c holds the counters before. *)
Overflowing(c, t) ==
    {u \in Timers : u >= t /\ \A v \in (t + 1)..u : v \in connected /\ c[v] + 1 = overflow_value}
Ticked(c, t) == {u \in connected : u - 1 \in Overflowing(c, t)}
AfterOverflow(c, t) ==
    [u \in Timers |-> IF u \in Overflowing(c, t) THEN reload[u]
                      ELSE IF u \in Ticked(c, t) THEN c[u] + 1
                      ELSE c[u]]

(* The two arguments of the event that schedule_overflow adds: the start it
   counts from and the delay.  Mutants: the lateness is forgotten. *)
StartNow(late) == clock
Start(late) == (clock - late) % Width
PeriodFromNow(c, p, late) == ((overflow_value - c) * Prescalars[p]) % Width
Period(c, p, late) == ((overflow_value - c) * Prescalars[p] - late) % Width

ScheduleOverflow(t, p, c, late) ==
    /\ last_scheduled' = [last_scheduled EXCEPT ![t] = Start(late)]
    /\ left' = [left EXCEPT ![t] = Period(c, p, late)]

(* start_delay_masks: the cycles of a tick less one, of which a literal of
   type u8 keeps the low byte.  The mask of 1024 cycles, written 0x3FF, is the
   0xFF of 256. *)
start_delay_mask(p) == (Prescalars[p] - 1) % MaskWidth

(* The masks that are what they are written as. *)
MasksWhole == \A p \in Selected : Prescalars[p] <= MaskWidth

(* The late cycles of a start: those since the last tick of the prescaler, as
   the mask has them, less two for a timer that was off.  Masks are one less
   than a power of two: `and' is a remainder. *)
StartDelay(t, p) ==
    ((clock % (start_delay_mask(p) + 1)) - (IF control[t].enabled THEN 0 ELSE 2)) % Width

(* The counter when a control register is rewritten: a pending event is taken
   away and the cycles it covered are counted, with the new prescaler. *)
Counted(t, p) == (counter[t] + Delta(t, p)) % Width
OverflowsAt(c) == c >= overflow_value

Settled(t, p) ==
    IF t \notin scheduled THEN counter
    ELSE IF OverflowsAt(Counted(t, p)) THEN AfterOverflow(counter, t)
    ELSE [counter EXCEPT ![t] = Counted(t, p)]

(* remove_delegate is called whatever the new control is. *)
Disconnected(t) == connected \ {t}
-----------------------------------------------------------------------------
(* write of TMxCNT_L; the two bytes come from one store. *)
WriteReload(t, r) ==
    /\ Quiet
    /\ reload' = [reload EXCEPT ![t] = r]
    /\ UNCHANGED <<control, counter, last_scheduled, scheduled, left, connected, clock, hardware>>

(* A program that changes the prescaler of a running timer makes the code
   count the past cycles with the new one, which may overflow it and tick the
   timers above.  What they hold then is what the code has: this case is left
   open, and only what follows from it is compared. *)
PrescalarKept(t, p) == t \in scheduled => p = control[t].prescalar

(* The hardware starts two cycles after the write, and a write to a running
   timer restarts its prescaler. *)
HardwareWrite(t, n) ==
    LET starts == n.enabled /\ ~control[t].enabled
    IN  IF PrescalarKept(t, n.prescalar)
          THEN /\ value' = IF starts THEN [value EXCEPT ![t] = reload[t]] ELSE value
               /\ wait' = [wait EXCEPT ![t] = IF starts /\ ~n.cascaded THEN 2 ELSE 0]
               /\ offset' = [offset EXCEPT ![t] = IF starts THEN 2 ELSE 0]
               /\ owed' = owed
          ELSE /\ value' = [u \in Timers |-> IF u \in scheduled \ {t} THEN value[u]
                                             ELSE counter'[u]]
               /\ wait' = [wait EXCEPT ![t] = 0]
               /\ offset' = [offset EXCEPT ![t] = 0]
               /\ owed' = owed

(* write of TMxCNT_H.  Two accesses to a timer are at least two cycles apart:
   an instruction is fetched or a word is read between them. *)
WriteControl(t, n) ==
    LET p == n.prescalar
        settled == Settled(t, p)
    IN  /\ Quiet
        /\ wait[t] = 0
        /\ t = 0 => ~n.cascaded
        /\ control' = [control EXCEPT ![t] = n]
        /\ counter' = IF n.enabled /\ ~control[t].enabled
                        THEN [settled EXCEPT ![t] = reload[t]] ELSE settled
        /\ connected' = IF n.enabled /\ n.cascaded THEN Disconnected(t) \cup {t}
                                                   ELSE Disconnected(t)
        /\ IF n.enabled /\ ~n.cascaded
             THEN /\ scheduled' = scheduled \cup {t}
                  /\ ScheduleOverflow(t, p, counter'[t], StartDelay(t, p))
             ELSE /\ scheduled' = scheduled \ {t}
                  /\ left' = [left EXCEPT ![t] = 0]
                  /\ UNCHANGED last_scheduled
        /\ UNCHANGED <<reload, clock>>
        /\ HardwareWrite(t, n)
-----------------------------------------------------------------------------
(* One cycle of the hardware.  h is its state, n the cycle counter after it. *)
Edge(h, t, n) ==
    /\ control[t].enabled
    /\ t \notin connected
    /\ h.wait[t] = 0
    /\ (n - offset[t]) % Prescalars[control[t].prescalar] = 0

Overflows(h, n) ==
    LET overflows[t \in Timers] ==
            /\ h.value[t] + 1 = overflow_value
            /\ Edge(h, t, n) \/ (t \in connected /\ overflows[t - 1])
    IN  overflows

Cycle(h, n) ==
    LET overflows == Overflows(h, n)
        counts(t) == Edge(h, t, n) \/ (t \in connected /\ overflows[t - 1])
    IN  [value |-> [t \in Timers |-> IF overflows[t] THEN reload[t]
                                     ELSE IF counts(t) THEN h.value[t] + 1
                                     ELSE h.value[t]],
         wait  |-> [t \in Timers |-> IF h.wait[t] = 0 THEN 0 ELSE h.wait[t] - 1],
         owed  |-> [t \in Timers |-> IF overflows[t] THEN h.owed[t] + 1 ELSE h.owed[t]]]

(* The hardware k cycles from now. *)
Hardware(c) ==
    LET after[k \in 0..c] ==
            IF k = 0 THEN [value |-> value, wait |-> wait, owed |-> owed]
                     ELSE Cycle(after[k - 1], clock + k)
    IN  after[c]

(* scheduler::add_cycles: the bus ticks c cycles, then the due events fire. *)
Tick(c) ==
    /\ Quiet
    /\ clock' = (clock + c) % Width
    /\ left' = [t \in Timers |-> IF t \in scheduled THEN left[t] - c ELSE 0]
    /\ value' = Hardware(c).value
    /\ wait' = Hardware(c).wait
    /\ owed' = Hardware(c).owed
    /\ UNCHANGED <<control, reload, counter, last_scheduled, scheduled, connected, offset>>

(* timer::overflow, the callback of the event. *)
Overflow(t) ==
    /\ Overdue(t)
    /\ \A u \in scheduled : left[t] <= left[u]
    /\ counter' = AfterOverflow(counter, t)
    /\ ScheduleOverflow(t, control[t].prescalar, counter'[t], -left[t])
    /\ owed' = [u \in Timers |-> IF u \in Overflowing(counter, t) THEN owed[u] - 1 ELSE owed[u]]
    /\ UNCHANGED <<control, reload, scheduled, connected, clock, value, wait, offset>>

(* timer::read of the counter. *)
Read(t) ==
    (counter[t] + (IF t \in scheduled THEN Delta(t, control[t].prescalar) ELSE 0)) % Width

TimerNext ==
    \/ \E t \in Timers, r \in Reloads : WriteReload(t, r)
    \/ \E t \in Timers, n \in Control : WriteControl(t, n)
    \/ \E c \in 1..MaxTick : Tick(c)
    \/ \E t \in Timers : Overflow(t)

TimerSpec == TimerInit /\ [][TimerNext]_timervars
-----------------------------------------------------------------------------
(* The state is well formed: no counter reaches the overflow value and stays
   there, whatever is rewritten while it counts.  tick_internal compares for
   equality, so a counter beyond the value would count on for 2^32 ticks. *)
TimerTypeOK ==
    /\ control \in [Timers -> Control]
    /\ reload \in [Timers -> 0..(overflow_value - 1)]
    /\ counter \in [Timers -> 0..(overflow_value - 1)]
    /\ last_scheduled \in [Timers -> 0..(Width - 1)]
    /\ scheduled \subseteq Timers
    /\ left \in [Timers -> Int]
    /\ connected \subseteq Timers \ {0}
    /\ clock \in 0..(Width - 1)

(* A timer that counts cycles has exactly one overflow event, a cascaded one
   is connected to the timer below and has none, a timer that is off has
   neither: in whatever order control registers are rewritten, no timer is
   driven by both or by something it has left. *)
DrivenOnce ==
    \A t \in Timers :
        /\ t \in scheduled <=> control[t].enabled /\ ~control[t].cascaded
        /\ t \in connected <=> control[t].enabled /\ control[t].cascaded

(* Whenever the program can read them, the counters are those of timers
   ticked cycle by cycle: late overflows do not make a timer drift, and
   neither rewriting a control register nor a chain of cascades loses or
   doubles a tick.  It is so of programs that select prescalers whose masks
   are whole, all but the one of 1024 cycles: see start_delay_mask. *)
CountsLikeHardware ==
    Quiet => \A t \in Timers : wait[t] = 0 => Read(t) = value[t]

(* Every overflow happens, and none happens twice: when the events of a tick
   have fired, each timer has called overflow_internal, which requests its
   interrupt and feeds the sound FIFOs, as often as the hardware has, if the
   masks of the prescalers selected are whole. *)
OverflowsAsOften ==
    Quiet => \A t \in Timers : owed[t] = 0
=============================================================================
