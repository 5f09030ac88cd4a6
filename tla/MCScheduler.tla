---------------------------- MODULE MCScheduler -----------------------------
(***************************************************************************)
(* The scheduler on a short time line, and the timers, which keep their    *)
(* time with its events, each while the other rests: two timers, with      *)
(* prescalers of one, two and four cycles and start delay masks of one     *)
(* bit, which the last of them does not fit.                               *)
(***************************************************************************)
EXTENDS Scheduler, Timer

VARIABLE part

MCPrescalars == [p \in 0..2 |-> 2^p]

SchedulingInit == part \in {"scheduler", "timer"} /\ Init /\ TimerInit

SchedulingNext ==
    /\ UNCHANGED part
    /\ \/ part = "scheduler" /\ Next /\ UNCHANGED timervars
       \/ part = "timer" /\ TimerNext /\ UNCHANGED vars

SchedulingSpec == SchedulingInit /\ [][SchedulingNext]_<<vars, timervars, part>>
=============================================================================
