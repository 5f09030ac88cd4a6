---------------------------- MODULE TimingProofs -----------------------------
(***************************************************************************)
(* Proofs about the scheduler and about the timers that it drives, for     *)
(* every value of their constants.  Scheduler: the inductive invariant     *)
(* IInv, the invariants and action properties that follow from it, and     *)
(* that it implements the agenda.  Timers: no counter stays beyond the     *)
(* overflow value, every timer is driven by exactly one thing, and the     *)
(* counters and the overflows are those of timers ticked cycle by cycle.   *)
(***************************************************************************)
EXTENDS Scheduler, Timer, WellFoundedInduction, TLAPS

(* A scheduler that was just constructed satisfies the invariant. *)
LEMMA InitIInv == Init => IInv
BY SchedulerAssumption DEF Init, IInv, TypeOK, HandlesUnique, Clock, Event

(* Every call of the scheduler and every step of its loop preserves it. *)
LEMMA NextIInv == IInv /\ [Next]_vars => IInv'
<1> SUFFICES ASSUME IInv, [Next]_vars PROVE IInv'
  OBVIOUS
<1> USE SchedulerAssumption
<1>1. CASE \E delay \in 0..MaxDelay : AddHwEvent(delay)
  <2> PICK delay \in 0..MaxDelay : AddHwEvent(delay)
    BY <1>1
  <2> DEFINE new == [timestamp |-> now + delay, h |-> next_event_handle + 1]
  <2>1. heap' = heap \cup {new} /\ next_event_handle' = next_event_handle + 1
    BY DEF AddHwEvent, NewHandle
  <2>2. UNCHANGED <<now, phase, cycles, late>>
    BY DEF AddHwEvent
  <2>3. new \in Event /\ new.timestamp = now + delay /\ new.h = next_event_handle + 1
    BY DEF IInv, TypeOK, Event
  <2>4. TypeOK'
    BY <2>1, <2>2, <2>3 DEF IInv, TypeOK
  <2>5. HandlesUnique'
    BY <2>1, <2>3 DEF IInv, TypeOK, HandlesUnique, Event
  <2>6. \A e \in heap' : Clock' <= e.timestamp /\ e.timestamp <= MaxNow + MaxDelay
    BY <2>1, <2>2, <2>3 DEF IInv, TypeOK, Clock, Event
  <2> QED
    BY <2>2, <2>4, <2>5, <2>6 DEF IInv
<1>2. CASE \E handle \in 0..MaxHandle : RemoveEvent(handle)
  <2>1. heap' \subseteq heap /\ UNCHANGED <<now, next_event_handle, phase, cycles, late>>
    BY <1>2 DEF RemoveEvent, Without
  <2> QED
    BY <2>1 DEF IInv, TypeOK, HandlesUnique, Clock
<1>3. CASE \E c \in 0..MaxCycles : AddCycles(c)
  <2> PICK c \in 0..MaxCycles : AddCycles(c)
    BY <1>3
  <2>1. now' = now + c /\ cycles' = c /\ now' <= MaxNow /\ late = 0
    BY DEF AddCycles, IInv
  <2>2. UNCHANGED <<heap, next_event_handle>>
    BY DEF AddCycles
  <2>3. TypeOK' /\ HandlesUnique'
    BY <2>1, <2>2 DEF AddCycles, IInv, TypeOK, HandlesUnique
  <2>4. CASE \E e \in heap : e.timestamp <= now'
    <3>1. phase' = "loop" /\ late' = c
      BY <2>4 DEF AddCycles
    <3>2. Clock' = Clock
      BY <2>1, <3>1 DEF Clock, IInv, TypeOK
    <3> QED
      BY <2>1, <2>2, <2>3, <3>1, <3>2 DEF IInv, TypeOK
  <2>5. CASE ~ \E e \in heap : e.timestamp <= now'
    <3>1. late' = 0
      BY <2>5 DEF AddCycles
    <3>2. Clock' = now'
      BY <2>1, <3>1 DEF Clock, IInv, TypeOK
    <3>3. \A e \in heap : now' <= e.timestamp
      BY <2>1, <2>5 DEF IInv, TypeOK, Event
    <3> QED
      BY <2>1, <2>2, <2>3, <3>1, <3>2, <3>3 DEF IInv, TypeOK
  <2> QED
    BY <2>4, <2>5
<1>4. CASE Dispatch
  <2> PICK e \in Front : Due(e) /\ heap' = heap \ {e} /\ late' = now - e.timestamp
    BY <1>4 DEF Dispatch, Lateness
  <2>1. UNCHANGED <<now, next_event_handle, cycles>> /\ phase' = "callback"
    BY <1>4 DEF Dispatch
  <2>2. e \in heap /\ e.timestamp \in Nat /\ \A other \in heap : e.timestamp <= other.timestamp
    BY DEF Front, IInv, TypeOK, Event
  <2>3. late' \in Nat /\ late' <= late /\ Clock' = e.timestamp
    BY <2>1, <2>2 DEF Due, Clock, IInv, TypeOK
  <2>4. TypeOK' /\ HandlesUnique'
    BY <2>1, <2>3 DEF IInv, TypeOK, HandlesUnique
  <2> QED
    BY <2>1, <2>2, <2>3, <2>4 DEF IInv, TypeOK
<1>5. CASE Return
  <2>1. \A e \in heap : now <= e.timestamp
    BY <1>5 DEF Return, LoopEnds, Due, IInv, TypeOK, Event
  <2> QED
    BY <1>5, <2>1 DEF Return, IInv, TypeOK, HandlesUnique, Clock
<1>6. CASE UNCHANGED vars
  BY <1>6 DEF vars, IInv, TypeOK, HandlesUnique, Clock
<1> QED
  BY <1>1, <1>2, <1>3, <1>4, <1>5, <1>6 DEF Next

(* The inductive invariant holds in every reachable state. *)
THEOREM Invariance == Spec => []IInv
<1>1. Init => IInv
  BY InitIInv
<1>2. IInv /\ [Next]_vars => IInv'
  BY NextIInv
<1> QED
  BY <1>1, <1>2, PTL DEF Spec

(* Type correctness. *)
THEOREM TypeCorrect == Spec => []TypeOK
BY Invariance, PTL DEF IInv

(* The scheduler never leaves an event in the past behind the loop. *)
THEOREM RemainingCyclesExact == Spec => []RemainingCyclesNeverWrap
<1>1. IInv => RemainingCyclesNeverWrap
  BY DEF IInv, TypeOK, RemainingCyclesNeverWrap, Clock, Event
<1> QED
  BY <1>1, Invariance, PTL

(* No callback is told of more cycles than its add_cycles call added. *)
THEOREM LatenessBounded == Spec => []LateWithinCycles
<1>1. IInv => LateWithinCycles
  BY DEF IInv, TypeOK, LateWithinCycles, Clock, Event
<1> QED
  BY <1>1, Invariance, PTL

(* A handle names at most one event. *)
THEOREM HandleSafety == Spec => []HandlesUnique
BY Invariance, PTL DEF IInv

(* No step brings a fired or removed event back. *)
THEOREM HandlesDie == Spec => DeadHandlesStayDead
<1>1. IInv /\ [Next]_vars => [\A h \in 1..next_event_handle : ~Live(h) => ~Live(h)']_vars
  <2> SUFFICES ASSUME IInv, Next, NEW h \in 1..next_event_handle, ~Live(h)
               PROVE  ~Live(h)'
    OBVIOUS
  <2>1. CASE \E delay \in 0..MaxDelay : AddHwEvent(delay)
    <3>1. \A e \in heap' : e \in heap \/ e.h = next_event_handle + 1
      BY <2>1 DEF AddHwEvent, NewHandle
    <3> QED
      BY <3>1 DEF Live, IInv, TypeOK
  <2>2. CASE ~ \E delay \in 0..MaxDelay : AddHwEvent(delay)
    <3>1. heap' \subseteq heap
      BY <2>2 DEF Next, RemoveEvent, Without, AddCycles, Dispatch, Return
    <3> QED
      BY <3>1 DEF Live
  <2> QED
    BY <2>1, <2>2
<1> QED
  BY <1>1, Invariance, PTL DEF Spec, DeadHandlesStayDead

(* The instant Clock lies on the abstract time line. *)
LEMMA Difference ==
  \A n, c, l, b, d \in Nat : l <= c /\ c <= n /\ n <= b => n - l \in 0..(b + d)
OBVIOUS

(* Every step of the scheduler is a step of the agenda, or a stutter. *)
LEMMA StepRefines == IInv /\ IInv' /\ [Next]_vars => [Promise!ANext]_Promise!avars
<1> SUFFICES ASSUME IInv, IInv', Next PROVE [Promise!ANext]_Promise!avars
  BY DEF vars, Promise!avars, Clock
<1> USE SchedulerAssumption
<1>0. Clock \in 0..(MaxNow + MaxDelay) /\ Clock' \in 0..(MaxNow + MaxDelay)
  <2>1. Clock \in 0..(MaxNow + MaxDelay)
    BY Difference DEF IInv, TypeOK, Clock
  <2>2. now' \in Nat /\ late' \in Nat /\ cycles' \in Nat
    BY DEF IInv, TypeOK
  <2>3. now' <= MaxNow /\ late' <= cycles' /\ cycles' <= now'
    BY DEF IInv
  <2>4. now' - late' \in 0..(MaxNow + MaxDelay)
    BY <2>2, <2>3, Difference
  <2> QED
    BY <2>1, <2>4 DEF Clock
<1>1. CASE \E delay \in 0..MaxDelay : AddHwEvent(delay)
  <2> PICK delay \in 0..MaxDelay : AddHwEvent(delay)
    BY <1>1
  <2>1. now + delay \in 0..(MaxNow + MaxDelay) /\ now + delay >= Clock
    BY DEF IInv, TypeOK, Clock
  <2>2. Promise!Schedule
    <3>1. UNCHANGED Clock
      BY DEF AddHwEvent, Clock
    <3>2. next_event_handle' = next_event_handle + 1
      BY DEF AddHwEvent, NewHandle
    <3>3. heap' = heap \cup {[timestamp |-> now + delay, h |-> next_event_handle']}
      BY DEF AddHwEvent, NewHandle
    <3> QED
      BY <2>1, <3>1, <3>2, <3>3 DEF Promise!Schedule
  <2> QED
    BY <2>2 DEF Promise!ANext
<1>2. CASE \E handle \in 0..MaxHandle : RemoveEvent(handle)
  <2> PICK handle \in 0..MaxHandle : RemoveEvent(handle)
    BY <1>2
  <2>1. UNCHANGED <<Clock, next_event_handle>>
    BY DEF RemoveEvent, Clock
  <2>2. CASE \A e \in heap : e.h # handle
    <3>1. heap' = heap
      BY <2>2 DEF RemoveEvent, Without
    <3> QED
      BY <2>1, <3>1 DEF Promise!avars
  <2>3. CASE \E e \in heap : e.h = handle
    <3> PICK e \in heap : e.h = handle
      BY <2>3
    <3>1. heap' = heap \ {e}
      BY DEF RemoveEvent, Without, IInv, HandlesUnique
    <3> QED
      BY <2>1, <3>1 DEF Promise!ANext, Promise!Cancel
  <2> QED
    BY <2>2, <2>3
<1>3. CASE \E c \in 0..MaxCycles : AddCycles(c)
  <2> PICK c \in 0..MaxCycles : AddCycles(c)
    BY <1>3
  <2>1. UNCHANGED <<heap, next_event_handle>> /\ now' = now + c /\ late = 0
    BY DEF AddCycles, IInv
  <2>2. CASE \E e \in heap : e.timestamp <= now'
    <3>1. late' = c
      BY <2>2 DEF AddCycles
    <3>2. UNCHANGED Clock
      BY <2>1, <3>1 DEF Clock, IInv, TypeOK
    <3> QED
      BY <2>1, <3>2 DEF Promise!avars
  <2>3. CASE ~ \E e \in heap : e.timestamp <= now'
    <3>1. Clock' = now' /\ Clock' >= Clock
      BY <2>1, <2>3 DEF AddCycles, Clock, IInv, TypeOK
    <3>2. \A e \in heap : e.timestamp > Clock'
      BY <2>1, <2>3, <3>1 DEF IInv, TypeOK, Event
    <3> QED
      BY <1>0, <2>1, <3>1, <3>2 DEF Promise!ANext, Promise!Advance
  <2> QED
    BY <2>2, <2>3
<1>4. CASE Dispatch
  <2> PICK e \in Front : Due(e) /\ heap' = heap \ {e} /\ late' = now - e.timestamp
    BY <1>4 DEF Dispatch, Lateness
  <2>1. UNCHANGED <<now, next_event_handle>>
    BY <1>4 DEF Dispatch
  <2>2. e \in heap /\ e.timestamp \in Nat /\ \A other \in heap : e.timestamp <= other.timestamp
    BY DEF Front, IInv, TypeOK, Event
  <2>3. Clock' = e.timestamp /\ e.timestamp >= Clock
    BY <2>1, <2>2 DEF Clock, IInv, TypeOK
  <2>4. Promise!Fire
    BY <2>1, <2>2, <2>3 DEF Promise!Fire
  <2> QED
    BY <2>4 DEF Promise!ANext
<1>5. CASE Return
  <2>1. UNCHANGED <<heap, next_event_handle>> /\ Clock' = now /\ Clock' >= Clock
    BY <1>5 DEF Return, Clock, IInv, TypeOK
  <2>2. \A e \in heap : e.timestamp > Clock'
    BY <1>5, <2>1 DEF Return, LoopEnds, Due, IInv, TypeOK, Event
  <2> QED
    BY <1>0, <2>1, <2>2 DEF Promise!ANext, Promise!Advance
<1> QED
  BY <1>1, <1>2, <1>3, <1>4, <1>5 DEF Next

(* The scheduler implements the agenda: at the instant Clock every event
   fires on time and in order, and a removed event never fires. *)
THEOREM Refinement == Spec => ImplementsAgenda
<1>1. Init => Promise!AInit
  BY DEF Init, Promise!AInit, Clock
<1>2. IInv /\ IInv' /\ [Next]_vars => [Promise!ANext]_Promise!avars
  BY StepRefines
<1> QED
  BY <1>1, <1>2, Invariance, PTL DEF Spec, ImplementsAgenda, Promise!ASpec

(* Callbacks run in the order of their timestamps. *)
THEOREM InOrder == Spec => FiresInOrder
<1>1. IInv /\ IInv' /\ [Next]_vars => [Clock' >= Clock]_vars
  <2>1. IInv => Clock >= Clock
    BY DEF IInv, TypeOK, Clock
  <2>2. ASSUME IInv, [Promise!ANext]_Promise!avars PROVE Clock' >= Clock
    BY <2>1, <2>2 DEF Promise!ANext, Promise!avars, Promise!Schedule, Promise!Cancel, Promise!Fire, Promise!Advance
  <2> QED
    BY <2>2, StepRefines
<1> QED
  BY <1>1, Invariance, PTL DEF Spec, FiresInOrder

------------------------------------------------------------------------------
(* The timers. *)
(* What holds of the timers is inductive once the two are taken together. *)
DrivenInv == TimerTypeOK /\ DrivenOnce

(* What most of these proofs need of the constants. *)
LEMMA Positive ==
    /\ Last \in Nat /\ overflow_value \in Nat \ {0} /\ Width \in Nat \ {0} /\ MaxTick \in Nat \ {0}
    /\ 0 \in Selected /\ \A p \in Selected : Prescalars[p] \in Nat \ {0}
    /\ MaskWidth \in Nat \ {0}
    /\ Reloads \subseteq 0..(overflow_value - 1) /\ 0 \in Reloads
  BY TimerAssumption

USE Positive DEF Timers

(* An arithmetic fact that the provers find hard among primed variables: a
   remainder is smaller than what divides. *)
LEMMA Remainder == \A i \in Int, w \in Nat \ {0} : i % w \in 0..(w - 1)
  OBVIOUS

(* A mask is a number, and one that is whole spans a tick. *)
LEMMA MaskTyped ==
    ASSUME NEW p \in Selected
    PROVE  start_delay_mask(p) + 1 \in Nat \ {0}
<1>1. PICK width \in Nat \ {0} : width = Prescalars[p]
  OBVIOUS
<1>2. width - 1 \in Int
  OBVIOUS
<1>3. (width - 1) % MaskWidth \in 0..(MaskWidth - 1)
  BY <1>2, Remainder
<1> QED
  BY <1>1, <1>3 DEF start_delay_mask

LEMMA WholeMask ==
    ASSUME MasksWhole, NEW p \in Selected
    PROVE  start_delay_mask(p) + 1 = Prescalars[p]
<1>1. PICK width \in Nat \ {0} : width = Prescalars[p] /\ width <= MaskWidth
  BY DEF MasksWhole
<1>2. (width - 1) % MaskWidth = width - 1
  BY <1>1
<1> QED
  BY <1>1, <1>2 DEF start_delay_mask

(* A counter that is below the overflow value stays below it when a timer
   overflows: those that reach the value are reloaded. *)
LEMMA OverflowReloads ==
    ASSUME TimerTypeOK, NEW t \in Timers
    PROVE  AfterOverflow(counter, t) \in [Timers -> 0..(overflow_value - 1)]
<1> SUFFICES ASSUME NEW u \in Timers
             PROVE  (IF u \in Overflowing(counter, t) THEN reload[u]
                     ELSE IF u \in Ticked(counter, t) THEN counter[u] + 1
                     ELSE counter[u]) \in 0..(overflow_value - 1)
  BY DEF AfterOverflow
<1>1. CASE u \in Overflowing(counter, t)
  BY <1>1 DEF TimerTypeOK
<1>2. CASE u \notin Overflowing(counter, t) /\ u \notin Ticked(counter, t)
  BY <1>2 DEF TimerTypeOK
<1>3. CASE u \notin Overflowing(counter, t) /\ u \in Ticked(counter, t)
  <2>1. u \in connected /\ u - 1 \in Overflowing(counter, t) /\ u \in Int
    BY <1>3 DEF Ticked, TimerTypeOK
  <2>2. \A v \in (t + 1)..(u - 1) : v \in connected /\ counter[v] + 1 = overflow_value
    BY <2>1 DEF Overflowing
  <2>3. u >= t
    BY <2>1 DEF Overflowing
  <2>4. counter[u] + 1 # overflow_value
    <3>1. SUFFICES ASSUME counter[u] + 1 = overflow_value
                   PROVE  FALSE
      OBVIOUS
    <3>2. \A v \in (t + 1)..u : v \in connected /\ counter[v] + 1 = overflow_value
      BY <2>1, <2>2, <3>1
    <3> QED
      BY <3>2, <2>3, <1>3 DEF Overflowing
  <2>5. counter[u] \in 0..(overflow_value - 1)
    BY DEF TimerTypeOK
  <2>6. counter[u] + 1 \in 0..(overflow_value - 1)
    BY <2>4, <2>5
  <2> QED
    BY <2>6, <1>3
<1> QED
  BY <1>1, <1>2, <1>3

(* So it does when a pending event is taken away, whatever it counts. *)
LEMMA SettledBelow ==
    ASSUME TimerTypeOK, NEW t \in Timers, NEW p \in Selected
    PROVE  Settled(t, p) \in [Timers -> 0..(overflow_value - 1)]
<1>1. CASE t \notin scheduled
  BY <1>1 DEF Settled, TimerTypeOK
<1>2. CASE t \in scheduled /\ OverflowsAt(Counted(t, p))
  BY <1>2, OverflowReloads DEF Settled
<1>3. CASE t \in scheduled /\ ~OverflowsAt(Counted(t, p))
  <2>1. (clock - last_scheduled[t]) % Width \in 0..(Width - 1)
    <3>1. clock \in Int /\ last_scheduled[t] \in Int
      BY DEF TimerTypeOK
    <3>2. clock - last_scheduled[t] \in Int
      BY <3>1
    <3> QED
      BY <3>2, Remainder
  <2>2. Delta(t, p) \in Nat
    BY <2>1 DEF Delta
  <2>3. counter[t] + Delta(t, p) \in Int
    BY <2>2 DEF TimerTypeOK
  <2>4. Counted(t, p) \in 0..(Width - 1)
    BY <2>3, Remainder DEF Counted
  <2>5. Counted(t, p) \in 0..(overflow_value - 1)
    BY <2>4, <1>3 DEF OverflowsAt
  <2> QED
    BY <1>3, <2>5 DEF Settled, TimerTypeOK
<1> QED
  BY <1>1, <1>2, <1>3

(* The arguments of a new event are well formed. *)
LEMMA ScheduleTyped ==
    ASSUME TimerTypeOK, NEW t \in Timers, NEW p \in Selected, NEW c \in 0..(overflow_value - 1),
           NEW lateness \in Int, ScheduleOverflow(t, p, c, lateness)
    PROVE  /\ last_scheduled' \in [Timers -> 0..(Width - 1)]
           /\ left' \in [Timers -> Int]
<1>1. Start(lateness) \in 0..(Width - 1)
  <2>1. clock - lateness \in Int
    BY DEF TimerTypeOK
  <2> QED
    BY <2>1, Remainder DEF Start
<1>2. Period(c, p, lateness) \in Int
  <2>1. Prescalars[p] \in Nat
    OBVIOUS
  <2>2. (overflow_value - c) * Prescalars[p] \in Int
    BY <2>1
  <2>3. (overflow_value - c) * Prescalars[p] - lateness \in Int
    BY <2>2
  <2> QED
    BY <2>3, Remainder DEF Period
<1> QED
  BY <1>1, <1>2 DEF ScheduleOverflow, TimerTypeOK

(* Every step of the timers preserves the invariant. *)
LEMMA DrivenNext == DrivenInv /\ [TimerNext]_timervars => DrivenInv'
<1> SUFFICES ASSUME DrivenInv, [TimerNext]_timervars
             PROVE  DrivenInv'
  OBVIOUS
<1> USE DEF DrivenInv
<1>1. ASSUME NEW t \in Timers, NEW r \in Reloads, WriteReload(t, r)
      PROVE  DrivenInv'
  BY <1>1 DEF WriteReload, TimerTypeOK, DrivenOnce, hardware
<1>2. ASSUME NEW t \in Timers, NEW n \in Control, WriteControl(t, n)
      PROVE  DrivenInv'
  <2> DEFINE p == n.prescalar
  <2>1. p \in Selected /\ n.enabled \in BOOLEAN /\ n.cascaded \in BOOLEAN
    BY DEF Control
  <2>2. Settled(t, p) \in [Timers -> 0..(overflow_value - 1)]
    BY <2>1, SettledBelow
  <2>3. counter' \in [Timers -> 0..(overflow_value - 1)]
    <3>1. \/ counter' = [Settled(t, p) EXCEPT ![t] = reload[t]]
          \/ counter' = Settled(t, p)
      BY <1>2 DEF WriteControl
    <3>2. reload[t] \in 0..(overflow_value - 1)
      BY DEF TimerTypeOK
    <3> QED
      BY <2>2, <3>1, <3>2
  <2>4. /\ last_scheduled' \in [Timers -> 0..(Width - 1)]
        /\ left' \in [Timers -> Int]
    <3>1. CASE n.enabled /\ ~n.cascaded
      <4>1. ScheduleOverflow(t, p, counter'[t], StartDelay(t, p))
        BY <1>2, <3>1 DEF WriteControl
      <4>2. counter'[t] \in 0..(overflow_value - 1)
        BY <2>3
      <4>3. StartDelay(t, p) \in Int
        <5>1. PICK width \in Nat \ {0} : width = start_delay_mask(p) + 1
          BY <2>1, MaskTyped
        <5>2. clock \in Int
          BY <2>1 DEF TimerTypeOK
        <5>3. clock % width \in Int
          <6>1. clock % width \in 0..(width - 1)
            BY <5>2, Remainder
          <6> QED
            BY <6>1
        <5>4. (clock % width) - (IF control[t].enabled THEN 0 ELSE 2) \in Int
          BY <5>3
        <5>5. (clock % (start_delay_mask(p) + 1)) - (IF control[t].enabled THEN 0 ELSE 2) \in Int
          BY <5>1, <5>4
        <5> QED
          BY <5>5, Remainder DEF StartDelay
      <4> QED
        BY <2>1, <4>1, <4>2, <4>3, ScheduleTyped
    <3>2. CASE ~(n.enabled /\ ~n.cascaded)
      <4>1. last_scheduled' = last_scheduled /\ left' = [left EXCEPT ![t] = 0]
        BY <1>2, <3>2 DEF WriteControl
      <4> QED
        BY <4>1 DEF TimerTypeOK
    <3> QED
      BY <3>1, <3>2
  <2>5. /\ control' = [control EXCEPT ![t] = n]
        /\ connected' = IF n.enabled /\ n.cascaded THEN (connected \ {t}) \cup {t}
                                                   ELSE connected \ {t}
        /\ scheduled' = IF n.enabled /\ ~n.cascaded THEN scheduled \cup {t}
                                                    ELSE scheduled \ {t}
        /\ t = 0 => ~n.cascaded
        /\ UNCHANGED <<reload, clock>>
    BY <1>2 DEF WriteControl, Disconnected
  <2>6. TimerTypeOK'
    BY <2>3, <2>4, <2>5 DEF TimerTypeOK
  <2>7. DrivenOnce'
    BY <2>1, <2>5 DEF DrivenOnce, TimerTypeOK
  <2> QED
    BY <2>6, <2>7
<1>3. ASSUME NEW c \in 1..MaxTick, Tick(c)
      PROVE  DrivenInv'
  <2>1. clock + c \in Int
    BY DEF TimerTypeOK
  <2>2. clock' \in 0..(Width - 1)
    BY <1>3, <2>1, Remainder DEF Tick
  <2>3. left' \in [Timers -> Int]
    BY <1>3 DEF Tick, TimerTypeOK
  <2> QED
    BY <1>3, <2>2, <2>3 DEF Tick, TimerTypeOK, DrivenOnce
<1>4. ASSUME NEW t \in Timers, Overflow(t)
      PROVE  DrivenInv'
  <2>1. counter' \in [Timers -> 0..(overflow_value - 1)]
    BY <1>4, OverflowReloads DEF Overflow
  <2>2. ScheduleOverflow(t, control[t].prescalar, counter'[t], -left[t])
    BY <1>4 DEF Overflow
  <2>3. control[t].prescalar \in Selected
    BY DEF TimerTypeOK, Control
  <2>4. counter'[t] \in 0..(overflow_value - 1) /\ -left[t] \in Int
    BY <2>1 DEF TimerTypeOK
  <2>5. /\ last_scheduled' \in [Timers -> 0..(Width - 1)]
        /\ left' \in [Timers -> Int]
    BY <2>2, <2>3, <2>4, ScheduleTyped
  <2> QED
    BY <1>4, <2>1, <2>5 DEF Overflow, TimerTypeOK, DrivenOnce
<1>5. CASE UNCHANGED timervars
  BY <1>5 DEF timervars, code, hardware, TimerTypeOK, DrivenOnce
<1> QED
  BY <1>1, <1>2, <1>3, <1>4, <1>5 DEF TimerNext

(* The invariant of the timers holds in every reachable state. *)
THEOREM TimersInvariance == TimerSpec => []DrivenInv
<1>1. TimerInit => DrivenInv
  BY DEF TimerInit, DrivenInv, TimerTypeOK, DrivenOnce, Control
<1> QED
  BY <1>1, DrivenNext, PTL DEF TimerSpec

(* No counter stays at or beyond the overflow value, where tick_internal,
   which compares for equality, would miss it. *)
THEOREM CountersBelow == TimerSpec => []TimerTypeOK
BY TimersInvariance, PTL DEF DrivenInv

(* A timer counts cycles, or the overflows of the timer below, or nothing:
   never two of them. *)
THEOREM OneDriver == TimerSpec => []DrivenOnce
BY TimersInvariance, PTL DEF DrivenInv

------------------------------------------------------------------------------
(* The timers and the hardware.  The code ticks nothing: it subtracts
   timestamps.  The reference ticks every timer in every cycle, by recursion
   on the cycles and, within a cycle, on the timers.  The proof has three
   parts: a closed form of what the reference holds k cycles from now
   (Predicted), that the recursion computes the closed form
   (HardwarePredicted), and an inductive invariant that says of the timers
   that they hold the closed form at k = 0 (CountInv). *)
HIDE Positive

(* Division of an integer by a positive one. *)
LEMMA DivMod == ASSUME NEW x \in Int, NEW w \in Nat \ {0}
  PROVE /\ x \div w \in Int /\ x % w \in 0..(w - 1) /\ w * (x \div w) \in Int
        /\ x = w * (x \div w) + (x % w)
  OBVIOUS

(* A product grows by at least its factor. *)
LEMMA Product == ASSUME NEW a \in Int, NEW b \in Int, NEW w \in Nat \ {0}, a < b
   PROVE w * a + w <= w * b
<1>1. b = a + 1 + (b - a - 1) /\ b - a - 1 \in Nat
  OBVIOUS
<1>2. \A d \in Nat : w * d >= 0 /\ w * (a + 1 + d) = w * a + w + w * d
  OBVIOUS
<1> QED
  BY <1>1, <1>2

(* Quotient and remainder are unique. *)
LEMMA UniqueDivMod ==
  ASSUME NEW q \in Int, NEW d \in Int, NEW w \in Nat \ {0}, NEW r \in 0..(w - 1), NEW m \in 0..(w - 1),
         w * q + r = w * d + m
  PROVE q = d /\ r = m
<1>1. w * q \in Int /\ w * d \in Int
  OBVIOUS
<1>3. ~(d < q)
  BY <1>1, Product
<1>4. ~(q < d)
  BY <1>1, Product
<1>5. d = q
  BY <1>3, <1>4
<1> QED
  BY <1>5

(* An integer is a multiple plus a remainder, which \div and % name. *)
LEMMA Split == ASSUME NEW x \in Int, NEW w \in Nat \ {0}
  PROVE \E d \in Int, m \in 0..(w - 1) : x = w * d + m /\ x \div w = d /\ x % w = m
<1>1. x \div w \in Int /\ x % w \in 0..(w - 1) /\ x = w * (x \div w) + (x % w)
  BY DivMod
<1> WITNESS x \div w \in Int, x % w \in 0..(w - 1)
<1> QED
  BY <1>1

(* What \div and % make of a multiple plus a remainder. *)
LEMMA Unique == ASSUME NEW q \in Int, NEW w \in Nat \ {0}, NEW r \in 0..(w - 1)
  PROVE (w * q + r) \div w = q /\ (w * q + r) % w = r
<1>1. w * q + r \in Int
  OBVIOUS
<1>2. PICK d \in Int, m \in 0..(w - 1) :
         w * q + r = w * d + m /\ (w * q + r) \div w = d /\ (w * q + r) % w = m
  BY <1>1, Split
<1>3. q = d /\ r = m
  BY <1>2, UniqueDivMod
<1> QED
  BY <1>2, <1>3

(* Adding a multiple keeps the remainder and shifts the quotient. *)
LEMMA Congruent == ASSUME NEW x \in Int, NEW q \in Int, NEW w \in Nat \ {0}
   PROVE (x + w * q) % w = x % w /\ (x + w * q) \div w = (x \div w) + q
<1>1. \A d \in Int, m \in Int : (w * d + m) + w * q = w * (d + q) + m /\ d + q \in Int
  OBVIOUS
<1>2. PICK d \in Int, m \in 0..(w - 1) : d = x \div w /\ m = x % w /\ x = w * d + m
  BY Split
<1>3. x + w * q = w * (d + q) + m /\ d + q \in Int
  BY <1>1, <1>2
<1>4. (x + w * q) \div w = d + q /\ (x + w * q) % w = m
  BY <1>3, Unique
<1> QED
  BY <1>2, <1>4

(* The quotient of the successor is one more where the remainder is 0. *)
LEMMA OneMore == ASSUME NEW x \in Int, NEW w \in Nat \ {0}
   PROVE (x + 1) \div w = (x \div w) + (IF (x + 1) % w = 0 THEN 1 ELSE 0)
<1>2. PICK d \in Int, m \in 0..(w - 1) : d = x \div w /\ m = x % w /\ x = w * d + m
  BY Split
<1>3. CASE m + 1 = w
  <2>1. x + 1 = w * (d + 1) + 0 /\ 0 \in 0..(w - 1) /\ d + 1 \in Int
    BY <1>2, <1>3
  <2>2. (x + 1) \div w = d + 1 /\ (x + 1) % w = 0
    BY <2>1, Unique
  <2> QED
    BY <2>2, <1>2
<1>4. CASE m + 1 # w
  <2>1. x + 1 = w * d + (m + 1) /\ m + 1 \in 0..(w - 1)
    BY <1>2, <1>4
  <2>3. \A r \in 0..(w - 1) : (w * d + r) \div w = d /\ (w * d + r) % w = r
    BY <1>2, Unique
  <2>2. (x + 1) \div w = d /\ (x + 1) % w = m + 1
    BY <2>1, <2>3
  <2> QED
    BY <2>2, <1>2
<1> QED
  BY <1>3, <1>4

(* A set of naturals that is not empty has a least element.  It takes the
   place of an induction: a counterexample to a claim about a recursion
   would have a least one. *)
LEMMA Least == ASSUME NEW S, S \subseteq Nat, S # {}
  PROVE \E m \in S : \A k \in S : m <= k
<1>1. PICK m \in S : \A k \in S : ~(<<k, m>> \in OpToRel(<, Nat))
  BY NatLessThanWellFounded, WFMin
<1>2. \A k \in S : ~(k < m)
  BY <1>1 DEF OpToRel
<1>3. m \in Nat /\ \A k \in S : k \in Nat
  OBVIOUS
<1> QED
  BY <1>2, <1>3

(* The recursive functions of the reference, as the choice that defines
   them: first the hardware of the next c cycles. *)
LEMMA HardwareDef == ASSUME NEW c \in Nat
  PROVE Hardware(c) = (CHOOSE f : f = [k \in 0..c |-> IF k = 0 THEN [value |-> value, wait |-> wait, owed |-> owed]
                     ELSE Cycle(f[k - 1], clock + k)])[c]
  BY DEF Hardware

(* Then the timers that overflow in a cycle. *)
LEMMA OverflowsDef ==
   ASSUME NEW h, NEW n
   PROVE Overflows(h, n) = CHOOSE g : g = [t \in Timers |->
            (h.value[t] + 1 = overflow_value /\ (Edge(h, t, n) \/ (t \in connected /\ g[t - 1])))]
  BY Zenon DEF Overflows

(* One cycle, with the local operator expanded. *)
LEMMA CycleDef == ASSUME NEW h, NEW n
  PROVE Cycle(h,n) = [value |-> [t \in Timers |-> IF Overflows(h,n)[t] THEN reload[t]
                                     ELSE IF Edge(h, t, n) \/ (t \in connected /\ Overflows(h,n)[t - 1]) THEN h.value[t] + 1
                                     ELSE h.value[t]],
         wait  |-> [t \in Timers |-> IF h.wait[t] = 0 THEN 0 ELSE h.wait[t] - 1],
         owed  |-> [t \in Timers |-> IF Overflows(h,n)[t] THEN h.owed[t] + 1 ELSE h.owed[t]]]
  BY DEF Cycle

(* A clock modulo w, and a start e cycles before it: e is what the code
   computes back from the two (calculate_counter_delta). *)
LEMMA Behind ==
  ASSUME NEW c \in Int, NEW w \in Nat \ {0}, NEW e \in 0..(w - 1)
  PROVE  (c - ((c - e) % w)) % w = e
<1>1. PICK d \in Int, m \in 0..(w - 1) : c - e = w * d + m /\ (c - e) % w = m
  <2>1. c - e \in Int
    OBVIOUS
  <2> QED
    BY <2>1, Split
<1>2. c - m = e + w * d
  BY <1>1
<1>5. e \in Int
  OBVIOUS
<1>3. (e + w * d) % w = e % w
  BY <1>5, Congruent
<1>4. (w * 0 + e) % w = e /\ w * 0 + e = e
  BY Unique
<1> QED
  BY <1>1, <1>2, <1>3, <1>4

(* The distance does not change when clock and distance grow together. *)
LEMMA Later ==
  ASSUME NEW c \in Int, NEW w \in Nat \ {0}, NEW e \in Int, NEW k \in Int
  PROVE  (((c + k) % w) - (e + k)) % w = (c - e) % w
<1>1. PICK d \in Int, m \in 0..(w - 1) : c + k = w * d + m /\ (c + k) % w = m
  <2>1. c + k \in Int
    OBVIOUS
  <2> QED
    BY <2>1, Split
<1>2. m - (e + k) = (c - e) + w * (-d) /\ c - e \in Int /\ -d \in Int
  BY <1>1
<1>3. ((c - e) + w * (-d)) % w = (c - e) % w
  BY <1>2, Congruent
<1> QED
  BY <1>1, <1>2, <1>3

(* Subtracting modulo w twice is subtracting once: the lateness of a start
   is an unsigned number of 32 bits. *)
LEMMA MinusRemainder ==
  ASSUME NEW c \in Int, NEW w \in Nat \ {0}, NEW e \in Int
  PROVE  (c - (e % w)) % w = (c - e) % w
<1>1. PICK d \in Int, m \in 0..(w - 1) : e = w * d + m /\ e % w = m
  BY Split
<1>2. c - m = (c - e) + w * d /\ c - e \in Int
  BY <1>1
<1>3. ((c - e) + w * d) % w = (c - e) % w
  BY <1>2, Congruent
<1> QED
  BY <1>1, <1>2, <1>3

(* A multiple has remainder 0. *)
LEMMA Multiple ==
  ASSUME NEW p \in Nat \ {0}, NEW n \in Int
  PROVE  p * n \in Int /\ (p * n) % p = 0 /\ (p * n) \div p = n
<1>1. (p * n + 0) % p = 0 /\ (p * n + 0) \div p = n
  BY Unique
<1>2. p * n \in Int /\ p * n + 0 = p * n
  OBVIOUS
<1> QED
  BY <1>1, <1>2

(* The quotient of a number below the n-th multiple is below n. *)
LEMMA Below ==
  ASSUME NEW p \in Nat \ {0}, NEW n \in Int, NEW x \in Int, x < p * n
  PROVE  x \div p < n /\ (x % p = 0 => x \div p = n - 1 \/ x \div p < n - 1)
<1>1. PICK d \in Int, m \in 0..(p - 1) : x = p * d + m /\ x \div p = d /\ x % p = m
  BY Split
<1>2. ~(n < d)
  BY <1>1, Product
<1>3. n # d
  BY <1>1
<1> QED
  BY <1>1, <1>2, <1>3

(* The quotient of a natural is a natural. *)
LEMMA NotNegative ==
  ASSUME NEW p \in Nat \ {0}, NEW x \in Nat
  PROVE  x \div p \in Nat /\ x \div p <= x /\ (x < p => x \div p = 0)
<1>1. PICK d \in Int, m \in 0..(p - 1) : x = p * d + m /\ x \div p = d /\ x % p = m
  BY Split
<1>2. d >= 0
  <2>1. d < 0 => p * d + p <= p * 0
    BY Product
  <2> QED
    BY <1>1, <2>1
<1>3. p * d >= d
  BY <1>2
<1>4. 0 < d => p * 0 + p <= p * d
  BY Product
<1> QED
  BY <1>1, <1>2, <1>3, <1>4

(* A counter on the way to an overflow that lies n ticks after its start: a
   is the distance of the next cycle from the overflow. *)
LEMMA ApproachStep ==
  ASSUME NEW p \in Nat \ {0}, NEW n \in Int, NEW a \in Int, NEW x \in Int, x + 1 = a + p * n,
         x + 1 < p * n
  PROVE  /\ (x + 1) % p = a % p
         /\ (x + 1) \div p = (x \div p) + (IF (x + 1) % p = 0 THEN 1 ELSE 0)
         /\ (x + 1) % p = 0 => (x + 1) \div p <= n - 1
         /\ x + 1 = 0 => (x + 1) \div p = 0
<1>1. (a + p * n) % p = a % p
  BY Congruent
<1>2. (x + 1) % p = a % p
  BY <1>1
<1>3. (x + 1) \div p = (x \div p) + (IF (x + 1) % p = 0 THEN 1 ELSE 0)
  BY OneMore, Zenon
<1>4. (x + 1) % p = 0 => (x + 1) \div p <= n - 1
  <2>1. x + 1 \in Int
    OBVIOUS
  <2>2. (x + 1) \div p < n
    BY <2>1, Below
  <2>3. (x + 1) \div p \in Int
    BY <2>1, DivMod
  <2> QED
    BY <2>2, <2>3
<1>5. x + 1 = 0 => (x + 1) \div p = 0
  <2>1. (p * 0) \div p = 0 /\ p * 0 = 0
    BY Multiple
  <2> QED
    BY <2>1
<1> QED
  BY <1>2, <1>3, <1>4, <1>5

(* The count that a timer shows k cycles from now: its reload is r, it
   recorded c, s cycles lead from c to the overflow and l are left. *)
CountAt(r, c, p, s, l, k) ==
    IF l <= k THEN r + ((k - l) \div p)
    ELSE IF s - l + k < 0 THEN c
    ELSE c + ((s - l + k) \div p)

(* Its prescaler ticks in the cycle after the k-th; w cycles pass before it
   starts. *)
EdgeAt(p, w, l, k) == w <= k /\ (k + 1 - l) % p = 0

(* The cycles of n ticks. *)
SpanOf(p, n) == p * n

(* What is known of such a timer before the cycle: it overflows once at most
   in a tick of the bus, and it starts before its first tick is over. *)
Counting(r, c, p, s, l, w, k) ==
    /\ p \in Nat \ {0} /\ c \in 0..(overflow_value - 1) /\ r \in Nat /\ s \in Int
    /\ l \in Nat \ {0} /\ w \in 0..2 /\ k \in Nat /\ k < MaxTick
    /\ overflow_value \in Nat \ {0} /\ MaxTick \in Nat /\ r + MaxTick <= overflow_value
    /\ s = SpanOf(p, overflow_value - c) /\ p <= s
    /\ s - l + w >= 0
    /\ w > 0 => s - l + w < p

(* The closed form counts like the hardware: it overflows exactly when l
   cycles have passed, and else ticks with its prescaler. *)
LEMMA CountingStep ==
  ASSUME NEW r, NEW c, NEW p, NEW s, NEW l, NEW w, NEW k, Counting(r, c, p, s, l, w, k)
  PROVE  /\ (CountAt(r, c, p, s, l, k) + 1 = overflow_value /\ EdgeAt(p, w, l, k)) <=> l = k + 1
         /\ CountAt(r, c, p, s, l, k + 1) =
                IF l = k + 1 THEN r
                ELSE IF EdgeAt(p, w, l, k) THEN CountAt(r, c, p, s, l, k) + 1
                ELSE CountAt(r, c, p, s, l, k)
<1> USE DEF Counting
<1> DEFINE v == CountAt(r, c, p, s, l, k)
           v1 == CountAt(r, c, p, s, l, k + 1)
<1>0. v = CountAt(r, c, p, s, l, k) /\ v1 = CountAt(r, c, p, s, l, k + 1)
  OBVIOUS
<1> HIDE DEF v, v1
<1> SUFFICES /\ (v + 1 = overflow_value /\ EdgeAt(p, w, l, k)) <=> l = k + 1
             /\ v1 = IF l = k + 1 THEN r ELSE IF EdgeAt(p, w, l, k) THEN v + 1 ELSE v
  BY <1>0, Zenon
<1>1. w < l
  OBVIOUS
<1>2. CASE l = k + 1
  <2>1. (k + 1 - l) % p = 0 /\ (k + 1 - l) \div p = 0
    <3>1. (p * 0) % p = 0 /\ (p * 0) \div p = 0 /\ p * 0 = 0
      BY Multiple
    <3> QED
      BY <1>2, <3>1
  <2>2. EdgeAt(p, w, l, k)
    BY <1>1, <1>2, <2>1 DEF EdgeAt
  <2>3. s - l + k = s - 1 /\ s - 1 \in Nat
    BY <1>2
  <2>4. (s - 1) \div p = (overflow_value - c) - 1
    <3>1. s % p = 0 /\ s \div p = overflow_value - c
      <4>1. overflow_value - c \in Int
        OBVIOUS
      <4> QED
        BY <4>1, Multiple DEF SpanOf
    <3>2. ((s - 1) + 1) \div p = ((s - 1) \div p) + (IF ((s - 1) + 1) % p = 0 THEN 1 ELSE 0)
      <4>1. s - 1 \in Int
        OBVIOUS
      <4> QED
        BY <4>1, OneMore, Zenon
    <3>3. (s - 1) + 1 = s /\ (s - 1) \div p \in Int
      <4>1. s - 1 \in Int
        OBVIOUS
      <4>2. (s - 1) \div p \in Int
        BY <4>1, DivMod, Zenon
      <4> QED
        BY <4>2
    <3>4. s \div p = ((s - 1) \div p) + 1
      BY <3>1, <3>2, <3>3, Zenon
    <3>5. \A i \in Int : overflow_value - c = i + 1 => i = (overflow_value - c) - 1
      OBVIOUS
    <3> QED
      BY <3>1, <3>3, <3>4, <3>5, Zenon
  <2>5. v = c + ((overflow_value - c) - 1)
    BY <1>2, <2>3, <2>4, <1>0 DEF CountAt
  <2>6. v1 = r
    BY <1>2, <2>1, <1>0 DEF CountAt
  <2> QED
    BY <1>2, <2>2, <2>5, <2>6
<1>3. CASE l <= k
  <2> DEFINE x == k - l
  <2>1. x \in Nat /\ x + 1 < MaxTick
    BY <1>3
  <2>2. x \div p \in Nat /\ x \div p <= x
    BY <2>1, NotNegative
  <2>3. v = r + (x \div p)
    BY <1>3, <1>0 DEF CountAt
  <2>4. v1 = r + ((x + 1) \div p)
    <3>1. k + 1 - l = x + 1
      BY <1>3
    <3> QED
      BY <1>3, <3>1, <1>0 DEF CountAt
  <2>5. EdgeAt(p, w, l, k) <=> (x + 1) % p = 0
    <3>1. k + 1 - l = x + 1
      BY <1>3
    <3> QED
      BY <1>1, <1>3, <3>1 DEF EdgeAt
  <2>6. (x + 1) \div p = (x \div p) + (IF (x + 1) % p = 0 THEN 1 ELSE 0)
    <3>1. x \in Int
      BY <2>1
    <3> HIDE DEF x
    <3> QED
      BY <3>1, OneMore, Zenon
  <2> HIDE DEF x
  <2>7. v + 1 # overflow_value
    BY <2>1, <2>2, <2>3
  <2>8. v1 = IF EdgeAt(p, w, l, k) THEN v + 1 ELSE v
    <3>1. CASE (x + 1) % p = 0
      BY <3>1, <2>2, <2>3, <2>4, <2>5, <2>6
    <3>2. CASE (x + 1) % p # 0
      BY <3>2, <2>2, <2>3, <2>4, <2>5, <2>6
    <3> QED
      BY <3>1, <3>2
  <2> QED
    BY <1>3, <2>7, <2>8
<1>4. CASE l > k + 1
  <2>names. PICK x \in Int, n \in Int, a \in Int : x = s - l + k /\ n = overflow_value - c /\ a = k + 1 - l
    OBVIOUS
  <2>0. x + 1 = a + p * n /\ n >= 1 /\ x + 1 < p * n
    BY <2>names, <1>4 DEF SpanOf
  <2>1. /\ (x + 1) % p = a % p
        /\ (x + 1) \div p = (x \div p) + (IF (x + 1) % p = 0 THEN 1 ELSE 0)
        /\ (x + 1) % p = 0 => (x + 1) \div p <= n - 1
        /\ x + 1 = 0 => (x + 1) \div p = 0
    BY <2>0, ApproachStep, Zenon
  <2>2. (x + 1) \div p = (x \div p) + (IF (x + 1) % p = 0 THEN 1 ELSE 0)
    BY <2>1, Zenon
  <2>3. (x + 1) % p = 0 => (x + 1) \div p <= n - 1
    BY <2>1, Zenon
  <2>4. EdgeAt(p, w, l, k) <=> (w <= k /\ (x + 1) % p = 0)
    BY <2>names, <2>1 DEF EdgeAt
  <2>5. EdgeAt(p, w, l, k) => x >= 0
    BY <2>names, <2>4
  <2>6. x >= 0 /\ w > k => (x + 1) % p # 0
    <3>1. SUFFICES ASSUME x >= 0, w > k PROVE (x + 1) % p # 0
      OBVIOUS
    <3>2. x + 1 \in 1..(p - 1)
      BY <2>names, <3>1
    <3>3. (p * 0 + (x + 1)) % p = x + 1
      BY <3>2, Unique
    <3>4. p * 0 + (x + 1) = x + 1
      BY <2>0
    <3> QED
      BY <3>2, <3>3, <3>4
  <2>7. x + 1 = 0 => (x + 1) \div p = 0
    BY <2>1, Zenon
  <2>8. v = IF x < 0 THEN c ELSE c + (x \div p)
    BY <2>names, <1>4, <1>0 DEF CountAt
  <2>9. v1 = IF x + 1 < 0 THEN c ELSE c + ((x + 1) \div p)
    <3>1. s - l + (k + 1) = x + 1
      BY <2>names, <1>4
    <3> QED
      BY <2>names, <1>4, <3>1, <1>0 DEF CountAt
  <2>10. x \div p \in Int /\ (x + 1) \div p \in Int
    <3>1. x + 1 \in Int
      OBVIOUS
    <3> QED
      BY <3>1, DivMod, Zenon
  <2>11. n = overflow_value - c
    BY <2>names
  <2>12. ~(v + 1 = overflow_value /\ EdgeAt(p, w, l, k))
    BY <2>0, <2>2, <2>3, <2>4, <2>5, <2>8, <2>10, <2>11
  <2>13. v1 = IF EdgeAt(p, w, l, k) THEN v + 1 ELSE v
    BY <2>0, <2>2, <2>4, <2>5, <2>6, <2>7, <2>8, <2>9, <2>10
  <2> QED
    BY <1>4, <2>12, <2>13
<1> QED
  BY <1>2, <1>3, <1>4

(* Seen from the phase o of its prescaler, l cycles from the cycle n, the
   timer overflows on an edge of its prescaler. *)
Aligned(n, l, o, p) == (n + l - o) % p = 0

(* The cycles of a tick of a timer. *)
TickOf(t) == Prescalars[control[t].prescalar]

(* The cycles from the count that a timer recorded to its overflow. *)
Span(t) == SpanOf(TickOf(t), overflow_value - counter[t])

(* Those of them that will have passed k cycles from now. *)
Elapsed(t, k) == Span(t) - left[t] + k

(* The timers that the hardware will have overflowed k cycles from now and
   the code has not: those whose event is due, and their chains. *)
Over(k) == {u \in Timers : \E t \in scheduled : left[t] <= k /\ u \in Overflowing(counter, t)}

(* The counter of the hardware k cycles from now.  A cascaded timer counts
   the overflows of the timer below. *)
ValueAt(u, k) ==
    IF u \in scheduled
      THEN CountAt(reload[u], counter[u], TickOf(u), Span(u), left[u], k)
      ELSE IF u \in Over(k) THEN reload[u]
           ELSE IF u \in connected /\ u - 1 \in Over(k) THEN counter[u] + 1
           ELSE counter[u]

(* The cycles that it still waits then. *)
WaitAt(u, k) == IF wait[u] <= k THEN 0 ELSE wait[u] - k

(* The closed form of the hardware k cycles from now. *)
Predicted(k) ==
    [value |-> [u \in Timers |-> ValueAt(u, k)],
     wait |-> [u \in Timers |-> WaitAt(u, k)],
     owed |-> [u \in Timers |-> IF u \in Over(k) THEN 1 ELSE 0]]

(* What the code has recorded of a timer that counts cycles: its event is
   late by less than a tick of the bus, the start that it recorded is as far
   away as its event says, and event and prescaler agree. *)
Counts(t) ==
    /\ left[t] > -MaxTick
    /\ Elapsed(t, 0) + wait[t] >= 0
    /\ wait[t] > 0 => Elapsed(t, 0) + wait[t] < TickOf(t)
    /\ last_scheduled[t] = (clock - Elapsed(t, 0)) % Width
    /\ Aligned(clock, left[t], offset[t], TickOf(t))

(* The inductive invariant: the hardware holds what the closed form has for
   now, and every timer that counts cycles has recorded where it started. *)
CountInv ==
    /\ DrivenInv
    /\ reload \in [Timers -> Reloads]
    /\ wait \in [Timers -> 0..2]
    /\ offset \in [Timers -> Int]
    /\ value = [u \in Timers |-> ValueAt(u, 0)]
    /\ owed = [u \in Timers |-> IF u \in Over(0) THEN 1 ELSE 0]
    /\ \A t \in Timers : IF t \in scheduled THEN Counts(t) ELSE wait[t] = 0

(* A period fits in 32 bits, with room for the two cycles of a start. *)
LEMMA SpanSize ==
  ASSUME NEW q \in Selected, NEW c \in 0..(overflow_value - 1)
  PROVE  /\ Prescalars[q] \in Nat \ {0} /\ Width \in Nat \ {0} /\ Width % Prescalars[q] = 0
         /\ SpanOf(Prescalars[q], overflow_value - c) \in Int
         /\ Prescalars[q] <= SpanOf(Prescalars[q], overflow_value - c)
         /\ SpanOf(Prescalars[q], overflow_value - c) + 2 < Width
         /\ Prescalars[q] * overflow_value + 2 < Width
         /\ (overflow_value - c) * Prescalars[q] = SpanOf(Prescalars[q], overflow_value - c)
<1>1. PICK p \in Nat \ {0} : p = Prescalars[q] /\ Width % p = 0 /\ overflow_value * p + 2 < Width
  BY TimerAssumption
<1>2. overflow_value \in Nat \ {0} /\ Width \in Nat \ {0}
  BY TimerAssumption
<1>3. PICK n \in 1..overflow_value : n = overflow_value - c
  BY <1>2
<1>4. p * n \in Int /\ p <= p * n /\ n * p = p * n /\ p * n <= overflow_value * p
  <2>1. n < overflow_value => p * n + p <= p * overflow_value
    BY <1>2, Product
  <2>2. p * 0 + p <= p * n
    BY <1>2, Product
  <2>3. p * n \in Int /\ p * 0 = 0 /\ n * p = p * n /\ p * overflow_value = overflow_value * p
    BY <1>2
  <2> QED
    BY <1>2, <2>1, <2>2, <2>3
<1>5. SpanOf(Prescalars[q], overflow_value - c) = p * n /\ (overflow_value - c) * Prescalars[q] = n * p
  BY <1>1, <1>3, Zenon DEF SpanOf
<1>6. overflow_value * p \in Int
  BY <1>2
<1>7. p * n + 2 < Width
  BY <1>1, <1>2, <1>4, <1>6
<1>8. Prescalars[q] * overflow_value + 2 < Width
  <2>1. p * overflow_value + 2 < Width
    BY <1>1, <1>2
  <2> QED
    BY <1>1, <2>1, Zenon
<1> QED
  BY <1>1, <1>2, <1>4, <1>5, <1>7, <1>8, Zenon

(* The ranges of what the lemmas below compute with. *)
LEMMA Sizes ==
  ASSUME CountInv, NEW t \in Timers
  PROVE  /\ TickOf(t) \in Nat \ {0} /\ Width % TickOf(t) = 0 /\ TickOf(t) * overflow_value + 2 < Width
         /\ overflow_value \in Nat \ {0} /\ Width \in Nat \ {0} /\ MaxTick \in Nat \ {0} /\ t \in Nat
         /\ counter[t] \in 0..(overflow_value - 1) /\ left[t] \in Int
         /\ reload[t] \in 0..(overflow_value - 1) /\ reload[t] + MaxTick <= overflow_value
         /\ Span(t) \in Int /\ TickOf(t) <= Span(t) /\ Span(t) + 2 < Width
         /\ clock \in 0..(Width - 1)
         /\ offset[t] \in Int /\ wait[t] \in 0..2
<1>1. control[t].prescalar \in Selected
  BY DEF CountInv, DrivenInv, TimerTypeOK, Control
<1>2. /\ counter[t] \in 0..(overflow_value - 1) /\ left[t] \in Int
      /\ reload[t] \in Reloads
      /\ clock \in 0..(Width - 1)
      /\ offset[t] \in Int /\ wait[t] \in 0..2
  BY DEF CountInv, DrivenInv, TimerTypeOK
<1>3. /\ overflow_value \in Nat \ {0} /\ Width \in Nat \ {0} /\ MaxTick \in Nat \ {0} /\ t \in Nat
  BY TimerAssumption
<1>4. reload[t] \in 0..(overflow_value - 1) /\ reload[t] + MaxTick <= overflow_value
  <2>1. reload[t] \in 0..(overflow_value - 1)
    BY <1>2, TimerAssumption
  <2>2. overflow_value - reload[t] >= MaxTick
    BY <1>2, TickAssumption
  <2> QED
    BY <1>3, <2>1, <2>2
<1>5. /\ TickOf(t) \in Nat \ {0} /\ Width % TickOf(t) = 0 /\ TickOf(t) * overflow_value + 2 < Width
      /\ Span(t) \in Int /\ TickOf(t) <= Span(t) /\ Span(t) + 2 < Width
  BY <1>1, <1>2, SpanSize, Zenon DEF TickOf, Span
<1> QED
  BY <1>2, <1>3, <1>4, <1>5

(* A timer that counts cycles overflows when its own event is due. *)
LEMMA OwnOver == ASSUME CountInv, NEW k \in Int, NEW u \in scheduled
   PROVE u \in Over(k) <=> left[u] <= k
<1>1. u \in Timers /\ u \notin connected /\ scheduled \subseteq Timers
  BY DEF CountInv, DrivenInv, DrivenOnce, TimerTypeOK
<1>2. u \in Overflowing(counter, u)
  BY <1>1 DEF Overflowing
<1>3. ASSUME NEW t \in scheduled, u \in Overflowing(counter, t) PROVE t = u
  BY <1>1, <1>3 DEF Overflowing
<1> QED
  BY <1>1, <1>2, <1>3 DEF Over

(* Nothing overflows but what is driven. *)
LEMMA OverOnly == ASSUME CountInv, NEW k \in Int, NEW u \in Over(k)
   PROVE u \in scheduled \/ u \in connected
<1>1. PICK t \in scheduled : u \in Overflowing(counter, t)
  BY DEF Over
<1>2. t \in Timers /\ u \in Timers /\ u >= t /\ (u > t => u \in (t + 1)..u)
  BY <1>1 DEF CountInv, DrivenInv, TimerTypeOK, Overflowing
<1> QED
  BY <1>1, <1>2 DEF Overflowing

(* A cascaded timer overflows with the timer below, if it is full. *)
LEMMA ChainOver == ASSUME CountInv, NEW k \in Int, NEW u \in connected
   PROVE /\ u - 1 \in Timers /\ u \in Timers /\ u \notin scheduled
         /\ u \in Over(k) <=> u - 1 \in Over(k) /\ counter[u] + 1 = overflow_value
<1>1. u \in Timers /\ u - 1 \in Timers /\ u \notin scheduled /\ scheduled \subseteq Timers
  <2>1. u \in Timers \ {0} /\ scheduled \subseteq Timers
    BY DEF CountInv, DrivenInv, TimerTypeOK
  <2>2. u \notin scheduled
    BY <2>1 DEF CountInv, DrivenInv, DrivenOnce
  <2> QED
    BY <2>1, <2>2, TimerAssumption
<1>2. ASSUME NEW t \in scheduled, u \in Overflowing(counter, t)
      PROVE u - 1 \in Overflowing(counter, t) /\ counter[u] + 1 = overflow_value
  BY <1>1, <1>2 DEF Overflowing
<1>3. ASSUME NEW t \in scheduled, u - 1 \in Overflowing(counter, t), counter[u] + 1 = overflow_value
      PROVE u \in Overflowing(counter, t)
  <2>1. t \in Timers /\ u >= t /\ \A v \in (t + 1)..(u - 1) : v \in connected /\ counter[v] + 1 = overflow_value
    BY <1>1, <1>3 DEF Overflowing
  <2>2. \A v \in (t + 1)..u : v = u \/ v \in (t + 1)..(u - 1)
    BY <1>1
  <2> QED
    BY <1>1, <1>3, <2>1, <2>2 DEF Overflowing
<1> QED
  BY <1>1, <1>2, <1>3 DEF Over

(* What has overflowed stays in the set as cycles pass. *)
LEMMA OverGrows == ASSUME CountInv, NEW k \in Int
   PROVE Over(k) \subseteq Over(k + 1)
<1>1. \A t \in scheduled : left[t] \in Int
  BY DEF CountInv, DrivenInv, TimerTypeOK
<1> QED
  BY <1>1 DEF Over

(* Two distances that differ by a multiple have the same remainder. *)
LEMMA Shifted ==
  ASSUME NEW p \in Nat \ {0}, NEW x \in Int, NEW y \in Int, NEW z \in Int, x % p = 0, y = z + x
  PROVE  y % p = z % p
<1>1. PICK d \in Int, m \in 0..(p - 1) : x = p * d + m /\ x % p = m
  BY Split
<1>2. x = p * d
  BY <1>1
<1>3. (z + p * d) % p = z % p
  BY Congruent
<1> QED
  BY <1>2, <1>3

(* The edges that the reference sees in the closed form are those of the
   timers that count cycles, at the phase that their event implies. *)
LEMMA EdgePredicted ==
   ASSUME CountInv, Quiet, NEW k \in Int, 0 <= k, k < MaxTick, NEW t \in Timers, NEW n, n = clock + k + 1
   PROVE  Edge(Predicted(k), t, n) <=>
             t \in scheduled /\ EdgeAt(TickOf(t), wait[t], left[t], k)
<1> DEFINE p == TickOf(t)
<1>1. /\ p \in Nat \ {0} /\ Width % p = 0 /\ left[t] \in Int /\ offset[t] \in Int /\ wait[t] \in 0..2
      /\ clock \in Int
  BY Sizes
<1>2. control[t].enabled /\ t \notin connected <=> t \in scheduled
  BY DEF CountInv, DrivenInv, DrivenOnce
<1>3. Predicted(k).wait[t] = 0 <=> wait[t] <= k
  BY <1>1 DEF Predicted, WaitAt
<1>4. ASSUME t \in scheduled
      PROVE (n - offset[t]) % p = (k + 1 - left[t]) % p
  <2>1. (clock + left[t] - offset[t]) % p = 0
    BY <1>4 DEF CountInv, Counts, Aligned
  <2> DEFINE x == clock + left[t] - offset[t]
  <2>2. x \in Int /\ x % p = 0
    BY <1>1, <2>1
  <2> DEFINE since == k + 1 - left[t]
             instant == n - offset[t]
  <2>3. since \in Int /\ instant \in Int /\ instant = since + x
    BY <1>1
  <2> HIDE DEF p, x, since, instant
  <2>4. p \in Nat \ {0}
    BY <1>1
  <2>5. instant % p = since % p
    BY <2>4, <2>2, <2>3, Shifted
  <2> QED
    BY <2>5 DEF since, instant
<1>5. Edge(Predicted(k), t, n) <=>
         control[t].enabled /\ t \notin connected /\ Predicted(k).wait[t] = 0 /\ (n - offset[t]) % p = 0
  BY DEF Edge, TickOf
<1> QED
  BY <1>2, <1>3, <1>4, <1>5 DEF EdgeAt

(* The step of the closed form for a timer that counts cycles. *)
LEMMA ScheduledStep ==
  ASSUME CountInv, Quiet, NEW k \in Nat, k < MaxTick, NEW t \in scheduled
  PROVE  /\ (ValueAt(t, k) + 1 = overflow_value /\ EdgeAt(TickOf(t), wait[t], left[t], k)) <=> left[t] = k + 1
         /\ ValueAt(t, k + 1) = IF left[t] = k + 1 THEN reload[t]
                                ELSE IF EdgeAt(TickOf(t), wait[t], left[t], k) THEN ValueAt(t, k) + 1
                                ELSE ValueAt(t, k)
<1>0. t \in Timers
  BY DEF CountInv, DrivenInv, TimerTypeOK
<1>1. /\ TickOf(t) \in Nat \ {0} /\ overflow_value \in Nat \ {0} /\ counter[t] \in 0..(overflow_value - 1)
      /\ reload[t] \in Nat /\ MaxTick \in Nat /\ reload[t] + MaxTick <= overflow_value
      /\ wait[t] \in 0..2 /\ Span(t) \in Int /\ TickOf(t) <= Span(t)
  BY <1>0, Sizes
<1>2. left[t] \in Nat \ {0}
  <2>1. left[t] \in Int
    BY <1>0, Sizes
  <2> QED
    BY <1>0, <2>1 DEF Quiet, Overdue
<1>3. Span(t) - left[t] + wait[t] >= 0 /\ (wait[t] > 0 => Span(t) - left[t] + wait[t] < TickOf(t))
  <2>1. Counts(t)
    BY <1>0 DEF CountInv
  <2> QED
    BY <2>1, <1>1, <1>2 DEF Counts, Elapsed
<1>4. Counting(reload[t], counter[t], TickOf(t), Span(t), left[t], wait[t], k)
  BY <1>1, <1>2, <1>3 DEF Counting, Span
<1>5. \A j : ValueAt(t, j) = CountAt(reload[t], counter[t], TickOf(t), Span(t), left[t], j)
  BY DEF ValueAt
<1>6. /\ (CountAt(reload[t], counter[t], TickOf(t), Span(t), left[t], k) + 1 = overflow_value
             /\ EdgeAt(TickOf(t), wait[t], left[t], k)) <=> left[t] = k + 1
      /\ CountAt(reload[t], counter[t], TickOf(t), Span(t), left[t], k + 1) =
            IF left[t] = k + 1 THEN reload[t]
            ELSE IF EdgeAt(TickOf(t), wait[t], left[t], k)
                   THEN CountAt(reload[t], counter[t], TickOf(t), Span(t), left[t], k) + 1
            ELSE CountAt(reload[t], counter[t], TickOf(t), Span(t), left[t], k)
  BY <1>4, CountingStep
<1> QED
  BY <1>5, <1>6

(* The timers that overflow in the cycle after the k-th. *)
Newly(k, u) == u \in Over(k + 1) /\ u \notin Over(k)

(* They satisfy the recursion that defines the overflows of a cycle. *)
LEMMA NewlyIsRecursive ==
  ASSUME CountInv, Quiet, NEW k \in Nat, k < MaxTick, NEW n, n = clock + k + 1, NEW u \in Timers
  PROVE  Newly(k, u) <=> /\ Predicted(k).value[u] + 1 = overflow_value
                         /\ Edge(Predicted(k), u, n) \/ (u \in connected /\ Newly(k, u - 1))
<1>0. Predicted(k).value[u] = ValueAt(u, k)
  BY DEF Predicted
<1>1. Edge(Predicted(k), u, n) <=> u \in scheduled /\ EdgeAt(TickOf(u), wait[u], left[u], k)
  BY EdgePredicted
<1>2. CASE u \in scheduled
  <2>1. u \notin connected
    BY <1>2, ChainOver
  <2>2. Newly(k, u) <=> left[u] = k + 1
    <3>1. left[u] \in Int
      BY Sizes
    <3>2. (u \in Over(k) <=> left[u] <= k) /\ (u \in Over(k + 1) <=> left[u] <= k + 1)
      BY <1>2, OwnOver
    <3> QED
      BY <3>1, <3>2 DEF Newly
  <2> QED
    BY <1>0, <1>1, <1>2, <2>1, <2>2, ScheduledStep
<1>3. CASE u \in connected
  <2>1. /\ u \notin scheduled
        /\ u \in Over(k) <=> u - 1 \in Over(k) /\ counter[u] + 1 = overflow_value
        /\ u \in Over(k + 1) <=> u - 1 \in Over(k + 1) /\ counter[u] + 1 = overflow_value
    BY <1>3, ChainOver
  <2>2. u - 1 \notin Over(k) => ValueAt(u, k) = counter[u]
    BY <2>1 DEF ValueAt
  <2>3. Newly(k, u) <=> counter[u] + 1 = overflow_value /\ Newly(k, u - 1)
    BY <2>1, Zenon DEF Newly
  <2>4. Newly(k, u - 1) => u - 1 \notin Over(k)
    BY DEF Newly
  <2> QED
    BY <1>0, <1>1, <1>3, <2>1, <2>2, <2>3, <2>4
<1>4. CASE u \notin scheduled /\ u \notin connected
  <2>1. ~Newly(k, u)
    BY <1>4, OverOnly DEF Newly
  <2> QED
    BY <1>1, <1>4, <2>1
<1> QED
  BY <1>2, <1>3, <1>4

(* So they are what the reference computes: both satisfy the recursion, and
   the lowest timer at which they differed would contradict it. *)
LEMMA OverflowsNewly ==
  ASSUME CountInv, Quiet, NEW k \in Nat, k < MaxTick, NEW n, n = clock + k + 1
  PROVE  \A t \in Timers : Overflows(Predicted(k), n)[t] <=> Newly(k, t)
<1> DEFINE h == Predicted(k)
           f == [t \in Timers |-> Newly(k, t)]
           g == Overflows(h, n)
<1>0. \A t \in Timers : f[t] = Newly(k, t)
  OBVIOUS
<1>2. \A t \in connected : t \in Timers /\ t - 1 \in Timers
  BY ChainOver
<1>1. \A t \in Timers : Newly(k, t) \in BOOLEAN
  BY DEF Newly
<1>3. f = [t \in Timers |->
            (h.value[t] + 1 = overflow_value /\ (Edge(h, t, n) \/ (t \in connected /\ f[t - 1])))]
  <2>1. ASSUME NEW t \in Timers
        PROVE  Newly(k, t) = (h.value[t] + 1 = overflow_value /\ (Edge(h, t, n) \/ (t \in connected /\ f[t - 1])))
    <3>1. t \in connected => f[t - 1] = Newly(k, t - 1)
      BY <1>0, <1>2
    <3>2. Newly(k, t) <=> (h.value[t] + 1 = overflow_value /\ (Edge(h, t, n) \/ (t \in connected /\ Newly(k, t - 1))))
      BY NewlyIsRecursive
    <3> HIDE DEF f, h
    <3> QED
      BY <1>1, <3>1, <3>2, Zenon
  <2> HIDE DEF h
  <2> QED
    BY <2>1, Zenon
<1>4. g = [t \in Timers |->
            (h.value[t] + 1 = overflow_value /\ (Edge(h, t, n) \/ (t \in connected /\ g[t - 1])))]
  <2> HIDE DEF f, h
  <2> QED
    BY <1>3, OverflowsDef, Zenon
<1>5. \A t \in Timers : g[t] <=> (h.value[t] + 1 = overflow_value /\ (Edge(h, t, n) \/ (t \in connected /\ g[t - 1])))
  <2> HIDE DEF g, h
  <2> QED
    BY <1>4, Zenon
<1> DEFINE S == {t \in Timers : ~(g[t] <=> Newly(k, t))}
<1>6. S = {}
  <2>1. SUFFICES ASSUME S # {} PROVE FALSE
    OBVIOUS
  <2>2. PICK m \in S : \A t \in S : m <= t
    <3>1. S \subseteq Nat
      BY TimerAssumption
    <3> HIDE DEF S
    <3> QED
      BY <2>1, <3>1, Least
  <2>3. m \in Timers /\ ~(g[m] <=> Newly(k, m))
    BY <2>2
  <2>4. m \in connected => (g[m - 1] <=> Newly(k, m - 1))
    <3>1. SUFFICES ASSUME m \in connected PROVE g[m - 1] <=> Newly(k, m - 1)
      OBVIOUS
    <3>2. m - 1 \in Timers /\ m \in Nat
      BY <1>2, <3>1, TimerAssumption
    <3>3. m - 1 \notin S
      <4> HIDE DEF S
      <4> QED
        BY <2>2, <3>2
    <3> HIDE DEF g
    <3> QED
      BY <3>2, <3>3
  <2>5. Newly(k, m) <=> (h.value[m] + 1 = overflow_value /\ (Edge(h, m, n) \/ (m \in connected /\ Newly(k, m - 1))))
    BY <2>3, NewlyIsRecursive
  <2> HIDE DEF g, h, S
  <2> QED
    BY <1>5, <2>3, <2>4, <2>5, Zenon
<1> QED
  BY <1>6

(* The counters of the closed form obey the rule of a cycle. *)
LEMMA ValueStep ==
  ASSUME CountInv, Quiet, NEW k \in Nat, k < MaxTick, NEW n, n = clock + k + 1, NEW u \in Timers
  PROVE  ValueAt(u, k + 1) =
            IF Newly(k, u) THEN reload[u]
            ELSE IF Edge(Predicted(k), u, n) \/ (u \in connected /\ Newly(k, u - 1)) THEN ValueAt(u, k) + 1
            ELSE ValueAt(u, k)
<1>1. Edge(Predicted(k), u, n) <=> u \in scheduled /\ EdgeAt(TickOf(u), wait[u], left[u], k)
  BY EdgePredicted
<1>2. CASE u \in scheduled
  <2>1. u \notin connected
    BY <1>2, ChainOver
  <2>2. Newly(k, u) <=> left[u] = k + 1
    <3>1. left[u] \in Int
      BY Sizes
    <3>2. (u \in Over(k) <=> left[u] <= k) /\ (u \in Over(k + 1) <=> left[u] <= k + 1)
      BY <1>2, OwnOver
    <3> QED
      BY <3>1, <3>2 DEF Newly
  <2>3. ValueAt(u, k + 1) = IF left[u] = k + 1 THEN reload[u]
                            ELSE IF EdgeAt(TickOf(u), wait[u], left[u], k) THEN ValueAt(u, k) + 1
                            ELSE ValueAt(u, k)
    BY <1>2, ScheduledStep
  <2> QED
    BY <1>1, <1>2, <2>1, <2>2, <2>3, Zenon
<1>3. CASE u \in connected
  <2>1. /\ u \notin scheduled
        /\ u \in Over(k) <=> u - 1 \in Over(k) /\ counter[u] + 1 = overflow_value
        /\ u \in Over(k + 1) <=> u - 1 \in Over(k + 1) /\ counter[u] + 1 = overflow_value
    BY <1>3, ChainOver
  <2>2. /\ ValueAt(u, k) = IF u \in Over(k) THEN reload[u] ELSE IF u - 1 \in Over(k) THEN counter[u] + 1 ELSE counter[u]
        /\ ValueAt(u, k + 1) = IF u \in Over(k + 1) THEN reload[u] ELSE IF u - 1 \in Over(k + 1) THEN counter[u] + 1 ELSE counter[u]
    BY <1>3, <2>1 DEF ValueAt
  <2>3. (u \in Over(k) => u \in Over(k + 1)) /\ (u - 1 \in Over(k) => u - 1 \in Over(k + 1))
    BY OverGrows
  <2>4. ~Edge(Predicted(k), u, n)
    BY <1>1, <2>1
  <2> QED
    BY <1>3, <2>1, <2>2, <2>3, <2>4, Zenon DEF Newly
<1>4. CASE u \notin scheduled /\ u \notin connected
  <2>1. u \notin Over(k) /\ u \notin Over(k + 1)
    BY <1>4, OverOnly
  <2> QED
    BY <1>1, <1>4, <2>1, Zenon DEF Newly, ValueAt
<1> QED
  BY <1>2, <1>3, <1>4

(* One cycle of the hardware takes the closed form to the next one. *)
LEMMA CycleStep ==
  ASSUME CountInv, Quiet, NEW k \in Nat, k < MaxTick, NEW n, n = clock + k + 1
  PROVE  Cycle(Predicted(k), n) = Predicted(k + 1)
<1> DEFINE h == Predicted(k)
<1>1. \A t \in Timers : Overflows(h, n)[t] <=> Newly(k, t)
  BY OverflowsNewly
<1>2. \A t \in connected : t \in Timers /\ t - 1 \in Timers
  BY ChainOver
<1>3. Cycle(h, n) = [value |-> [t \in Timers |-> IF Overflows(h,n)[t] THEN reload[t]
                                     ELSE IF Edge(h, t, n) \/ (t \in connected /\ Overflows(h,n)[t - 1]) THEN h.value[t] + 1
                                     ELSE h.value[t]],
         wait  |-> [t \in Timers |-> IF h.wait[t] = 0 THEN 0 ELSE h.wait[t] - 1],
         owed  |-> [t \in Timers |-> IF Overflows(h,n)[t] THEN h.owed[t] + 1 ELSE h.owed[t]]]
  BY CycleDef, Zenon
<1>4. /\ \A t \in Timers : h.value[t] = ValueAt(t, k)
      /\ \A t \in Timers : h.wait[t] = WaitAt(t, k)
      /\ \A t \in Timers : h.owed[t] = IF t \in Over(k) THEN 1 ELSE 0
  BY DEF Predicted
<1> HIDE DEF h
<1>5. ASSUME NEW t \in Timers
      PROVE  (IF Overflows(h,n)[t] THEN reload[t]
              ELSE IF Edge(h, t, n) \/ (t \in connected /\ Overflows(h,n)[t - 1]) THEN h.value[t] + 1
              ELSE h.value[t]) = ValueAt(t, k + 1)
  <2>1. ValueAt(t, k + 1) =
            IF Newly(k, t) THEN reload[t]
            ELSE IF Edge(h, t, n) \/ (t \in connected /\ Newly(k, t - 1)) THEN ValueAt(t, k) + 1
            ELSE ValueAt(t, k)
    BY ValueStep DEF h
  <2>2. t \in connected => (Overflows(h, n)[t - 1] <=> Newly(k, t - 1))
    BY <1>1, <1>2
  <2>3. (Overflows(h, n)[t] <=> Newly(k, t)) /\ h.value[t] = ValueAt(t, k)
    BY <1>1, <1>4
  <2> QED
    BY <2>1, <2>2, <2>3, Zenon
<1>6. ASSUME NEW t \in Timers
      PROVE  (IF h.wait[t] = 0 THEN 0 ELSE h.wait[t] - 1) = WaitAt(t, k + 1)
  <2>1. wait[t] \in 0..2
    BY Sizes
  <2> QED
    BY <1>4, <2>1 DEF WaitAt
<1>7. ASSUME NEW t \in Timers
      PROVE  (IF Overflows(h,n)[t] THEN h.owed[t] + 1 ELSE h.owed[t]) = IF t \in Over(k + 1) THEN 1 ELSE 0
  <2>1. t \in Over(k) => t \in Over(k + 1)
    BY OverGrows
  <2>2. (Overflows(h, n)[t] <=> Newly(k, t)) /\ h.owed[t] = IF t \in Over(k) THEN 1 ELSE 0
    BY <1>1, <1>4
  <2> QED
    BY <2>1, <2>2 DEF Newly
<1>8. [t \in Timers |-> IF Overflows(h,n)[t] THEN reload[t]
                         ELSE IF Edge(h, t, n) \/ (t \in connected /\ Overflows(h,n)[t - 1]) THEN h.value[t] + 1
                         ELSE h.value[t]]
      = [u \in Timers |-> ValueAt(u, k + 1)]
  BY <1>5, Zenon
<1>9. [t \in Timers |-> IF h.wait[t] = 0 THEN 0 ELSE h.wait[t] - 1] = [u \in Timers |-> WaitAt(u, k + 1)]
  BY <1>6, Zenon
<1>11. [t \in Timers |-> IF Overflows(h,n)[t] THEN h.owed[t] + 1 ELSE h.owed[t]]
       = [u \in Timers |-> IF u \in Over(k + 1) THEN 1 ELSE 0]
  BY <1>7, Zenon
<1>10. Predicted(k + 1) = [value |-> [u \in Timers |-> ValueAt(u, k + 1)],
                           wait |-> [u \in Timers |-> WaitAt(u, k + 1)],
                           owed |-> [u \in Timers |-> IF u \in Over(k + 1) THEN 1 ELSE 0]]
  BY DEF Predicted
<1> QED
  BY <1>3, <1>8, <1>9, <1>10, <1>11, Zenon DEF h

(* The recursion over the cycles of a tick computes the closed form, again
   because a first cycle at which they differ cannot exist. *)
LEMMA HardwarePredicted ==
  ASSUME CountInv, Quiet, NEW c \in 1..MaxTick
  PROVE  Hardware(c) = Predicted(c)
<1> DEFINE current == [value |-> value, wait |-> wait, owed |-> owed]
           f == [k \in 0..c |-> Predicted(k)]
           g == CHOOSE a : a = [k \in 0..c |-> IF k = 0 THEN current ELSE Cycle(a[k - 1], clock + k)]
<1>1. c \in Nat /\ MaxTick \in Nat /\ c <= MaxTick /\ clock \in Int
  BY TimerAssumption DEF CountInv, DrivenInv, TimerTypeOK
<1>2. Predicted(0) = current
  <2>1. wait = [u \in Timers |-> WaitAt(u, 0)]
    <3>1. \A u \in Timers : wait[u] \in 0..2 /\ wait[u] = WaitAt(u, 0)
      BY DEF CountInv, WaitAt
    <3>2. wait = [u \in Timers |-> wait[u]]
      BY DEF CountInv
    <3> QED
      BY <3>1, <3>2
  <2>2. value = [u \in Timers |-> ValueAt(u, 0)] /\ owed = [u \in Timers |-> IF u \in Over(0) THEN 1 ELSE 0]
    BY DEF CountInv
  <2> QED
    BY <2>1, <2>2, Zenon DEF Predicted
<1>3. \A k \in 1..c : Cycle(Predicted(k - 1), clock + k) = Predicted(k)
  <2> TAKE k \in 1..c
  <2>1. PICK j \in Nat : j = k - 1 /\ j < MaxTick
    BY <1>1
  <2>2. PICK n : n = clock + k
    OBVIOUS
  <2>3. n = clock + j + 1 /\ j + 1 = k
    BY <1>1, <2>1, <2>2
  <2>4. Cycle(Predicted(j), n) = Predicted(j + 1)
    BY <2>1, <2>3, CycleStep
  <2> QED
    BY <2>1, <2>2, <2>3, <2>4, Zenon
<1> HIDE DEF current
<1>4. f = [k \in 0..c |-> IF k = 0 THEN current ELSE Cycle(f[k - 1], clock + k)]
  <2>1. ASSUME NEW k \in 0..c
        PROVE  Predicted(k) = IF k = 0 THEN current ELSE Cycle(f[k - 1], clock + k)
    <3>1. CASE k = 0
      BY <3>1, <1>2
    <3>2. CASE k # 0
      <4>1. k \in 1..c /\ k - 1 \in 0..c
        BY <3>2, <1>1
      <4>2. f[k - 1] = Predicted(k - 1)
        BY <4>1
      <4> QED
        BY <4>1, <4>2, <3>2, <1>3
    <3> QED
      BY <3>1, <3>2
  <2>2. f = [k \in 0..c |-> Predicted(k)]
    OBVIOUS
  <2> HIDE DEF f
  <2> QED
    BY <2>1, <2>2, Zenon
<1>5. g = [k \in 0..c |-> IF k = 0 THEN current ELSE Cycle(g[k - 1], clock + k)]
  <2> HIDE DEF f
  <2> QED
    BY <1>4, Zenon
<1>6. Hardware(c) = g[c]
  BY <1>1, HardwareDef, Zenon DEF current
<1> HIDE DEF g
<1>7. \A k \in 0..c : g[k] = IF k = 0 THEN current ELSE Cycle(g[k - 1], clock + k)
  BY <1>5, Zenon
<1> DEFINE S == {k \in 0..c : g[k] # Predicted(k)}
<1>8. S = {}
  <2>1. SUFFICES ASSUME S # {} PROVE FALSE
    OBVIOUS
  <2>2. PICK m \in S : \A k \in S : m <= k
    <3>1. S \subseteq Nat
      BY <1>1
    <3> HIDE DEF S
    <3> QED
      BY <2>1, <3>1, Least
  <2>3. m \in 0..c /\ g[m] # Predicted(m)
    BY <2>2
  <2>4. CASE m = 0
    BY <1>2, <1>7, <2>3, <2>4
  <2>5. CASE m # 0
    <3>1. m \in 1..c /\ m - 1 \in 0..c /\ ~(m <= m - 1)
      BY <1>1, <2>3, <2>5
    <3>2. m - 1 \notin S
      <4> HIDE DEF S
      <4> QED
        BY <2>2, <3>1
    <3>3. g[m - 1] = Predicted(m - 1)
      BY <3>1, <3>2
    <3>4. g[m] = Cycle(g[m - 1], clock + m)
      BY <1>7, <2>3, <2>5, Zenon
    <3> QED
      BY <1>3, <2>3, <3>1, <3>3, <3>4, Zenon
  <2> QED
    BY <2>4, <2>5
<1>9. g[c] = Predicted(c)
  BY <1>1, <1>8
<1> QED
  BY <1>6, <1>9

(* Timers that are all off satisfy the invariant. *)
LEMMA InitCounts == TimerInit => CountInv
<1> SUFFICES ASSUME TimerInit PROVE CountInv
  OBVIOUS
<1>1. DrivenInv
  BY Positive DEF TimerInit, DrivenInv, TimerTypeOK, DrivenOnce, Control
<1>2. /\ scheduled = {} /\ connected = {} /\ counter = [t \in Timers |-> 0]
      /\ value = [t \in Timers |-> 0] /\ owed = [t \in Timers |-> 0]
      /\ wait = [t \in Timers |-> 0] /\ offset = [t \in Timers |-> 0] /\ reload = [t \in Timers |-> 0]
  BY DEF TimerInit
<1>3. Over(0) = {}
  BY <1>2 DEF Over
<1>4. \A t \in Timers : ValueAt(t, 0) = 0
  BY <1>2, <1>3 DEF ValueAt
<1>5. value = [u \in Timers |-> ValueAt(u, 0)] /\ owed = [u \in Timers |-> IF u \in Over(0) THEN 1 ELSE 0]
  BY <1>2, <1>3, <1>4
<1>6. /\ reload \in [Timers -> Reloads] /\ wait \in [Timers -> 0..2] /\ offset \in [Timers -> Int]
      /\ \A t \in Timers : t \notin scheduled /\ wait[t] = 0
  BY <1>2, Positive
<1> QED
  BY <1>1, <1>5, <1>6 DEF CountInv

(* While no event is due the code owes nothing, and the counter of a timer
   that does not count cycles is the recorded one. *)
LEMMA QuietValues ==
  ASSUME CountInv, Quiet
  PROVE  /\ Over(0) = {}
         /\ \A t \in Timers : owed[t] = 0 /\ (t \notin scheduled => value[t] = counter[t])
         /\ \A t \in scheduled : t \in Timers /\ left[t] \in Int /\ left[t] > 0
<1>1. \A t \in scheduled : t \in Timers /\ left[t] \in Int
  BY DEF CountInv, DrivenInv, TimerTypeOK
<1>2. \A t \in scheduled : ~(left[t] <= 0)
  BY <1>1 DEF Quiet, Overdue
<1>3. Over(0) = {}
  BY <1>2 DEF Over
<1>4. \A t \in Timers : t \notin scheduled => ValueAt(t, 0) = counter[t]
  BY <1>3 DEF ValueAt
<1> QED
  BY <1>1, <1>2, <1>3, <1>4 DEF CountInv

(* A number that fits is its own remainder. *)
LEMMA Remains == ASSUME NEW w \in Nat \ {0}, NEW i \in 0..(w - 1) PROVE i % w = i
<1>1. (w * 0 + i) % w = i
  BY Unique
<1>2. w * 0 + i = i
  OBVIOUS
<1> QED
  BY <1>1, <1>2

(* The recorded count and what calculate_counter_delta adds make the counter
   of the hardware, and no reduction to 32 bits changes the sum. *)
LEMMA DeltaExact ==
  ASSUME CountInv, Quiet, NEW t \in scheduled, wait[t] = 0
  PROVE  /\ counter[t] + Delta(t, control[t].prescalar) = value[t]
         /\ (counter[t] + Delta(t, control[t].prescalar)) % Width = value[t]
         /\ value[t] \in 0..(overflow_value - 1)
<1> DEFINE p == TickOf(t)
           e == Elapsed(t, 0)
           s == Span(t)
           n == overflow_value - counter[t]
<1>0. t \in Timers /\ left[t] \in Int /\ left[t] > 0
  BY QuietValues
<1>1. /\ p \in Nat \ {0} /\ p * overflow_value + 2 < Width
      /\ overflow_value \in Nat \ {0} /\ Width \in Nat \ {0}
      /\ counter[t] \in 0..(overflow_value - 1)
      /\ s \in Int /\ s + 2 < Width /\ clock \in Int
  BY <1>0, Sizes
<1>2. e = s - left[t] + 0
  BY DEF Elapsed
<1>3. e + wait[t] >= 0 /\ last_scheduled[t] = (clock - e) % Width
  BY <1>0 DEF CountInv, Counts
<1>4. e \in 0..(Width - 1) /\ e < s
  BY <1>0, <1>1, <1>2, <1>3
<1>5. s = p * n /\ n \in Int
  BY <1>1 DEF Span, SpanOf
<1>6. value[t] = CountAt(reload[t], counter[t], p, s, left[t], 0)
  BY <1>0 DEF CountInv, ValueAt
<1>7. value[t] = counter[t] + (e \div p)
  <2>1. ~(left[t] <= 0) /\ ~(s - left[t] + 0 < 0)
    BY <1>0, <1>2, <1>4
  <2>2. value[t] = counter[t] + ((s - left[t] + 0) \div p)
    <3> HIDE DEF p, s
    <3> QED
      BY <1>6, <2>1, Zenon DEF CountAt
  <2> HIDE DEF e, p, s
  <2> QED
    BY <1>2, <2>2, Zenon
<1>8. Delta(t, control[t].prescalar) = e \div p
  <2>1. (clock - last_scheduled[t]) % Width = e
    <3> HIDE DEF e
    <3> QED
      BY <1>1, <1>3, <1>4, Behind
  <2> HIDE DEF e
  <2> QED
    BY <2>1, Zenon DEF Delta, TickOf
<1> HIDE DEF p, e, s, n
<1>9. e \div p \in Nat /\ e \div p < n
  <2>1. e \in Nat /\ e \in Int /\ e < p * n
    BY <1>4, <1>5
  <2> QED
    BY <1>1, <1>5, <2>1, NotNegative, Below
<1>10. value[t] \in 0..(overflow_value - 1)
  BY <1>1, <1>7, <1>9 DEF n
<1>11. overflow_value < Width
  <2>1. p * overflow_value >= overflow_value
    <3>1. \A a \in Nat \ {0}, b \in Nat \ {0} : a * b >= b
      OBVIOUS
    <3> QED
      BY <1>1, <3>1
  <2>2. p * overflow_value \in Int
    BY <1>1
  <2> QED
    BY <1>1, <2>1, <2>2
<1>12. value[t] % Width = value[t]
  <2>1. value[t] \in 0..(Width - 1)
    BY <1>1, <1>10, <1>11
  <2> QED
    BY <1>1, <2>1, Remains
<1> QED
  BY <1>7, <1>8, <1>10, <1>12, Zenon

(* So what a program reads is what the hardware shows. *)
LEMMA CountsExact == CountInv => CountsLikeHardware
<1> SUFFICES ASSUME CountInv, Quiet, NEW t \in Timers, wait[t] = 0 PROVE Read(t) = value[t]
  BY DEF CountsLikeHardware
<1>1. CASE t \in scheduled
  BY <1>1, DeltaExact, Zenon DEF Read
<1>2. CASE t \notin scheduled
  <2>1. value[t] = counter[t]
    BY <1>2, QuietValues
  <2>2. counter[t] \in 0..(overflow_value - 1) /\ overflow_value \in Nat /\ Width \in Nat \ {0}
        /\ TickOf(t) \in Nat \ {0} /\ TickOf(t) * overflow_value + 2 < Width
    BY Sizes
  <2>3. overflow_value < Width
    <3>1. \A a \in Nat \ {0}, b \in Nat : a * b >= b /\ a * b \in Int
      OBVIOUS
    <3>2. TickOf(t) * overflow_value >= overflow_value /\ TickOf(t) * overflow_value \in Int
      BY <2>2, <3>1
    <3> QED
      BY <2>2, <3>2
  <2>4. counter[t] \in 0..(Width - 1) /\ counter[t] + 0 = counter[t]
    BY <2>2, <2>3
  <2>5. counter[t] % Width = counter[t]
    BY <2>2, <2>4, Remains
  <2> QED
    BY <1>2, <2>1, <2>4, <2>5 DEF Read
<1> QED
  BY <1>1, <1>2

(* And no overflow is missing or had twice. *)
LEMMA OwesNothing == CountInv => OverflowsAsOften
  BY QuietValues DEF OverflowsAsOften

(* Writing a reload register changes nothing that counts. *)
LEMMA ReloadCounts ==
  ASSUME CountInv, NEW t \in Timers, NEW r \in Reloads, WriteReload(t, r)
  PROVE  CountInv'
<1>1. DrivenInv'
  BY DrivenNext DEF CountInv, TimerNext
<1>2. /\ reload' = [reload EXCEPT ![t] = r]
      /\ UNCHANGED <<control, counter, last_scheduled, scheduled, left, connected, clock, value, wait, offset, owed>>
      /\ Quiet
  BY DEF WriteReload, hardware
<1>3. Over(0)' = Over(0)
  BY <1>2 DEF Over, Overflowing
<1>4. ASSUME NEW u \in Timers PROVE ValueAt(u, 0)' = ValueAt(u, 0)
  <2>1. TickOf(u)' = TickOf(u) /\ Span(u)' = Span(u)
    BY <1>2 DEF TickOf, Span
  <2>2. CASE u \in scheduled
    <3>1. ~(left[u] <= 0)
      BY <1>2, <2>2, QuietValues
    <3>2. ValueAt(u, 0) = CountAt(reload[u], counter[u], TickOf(u), Span(u), left[u], 0)
      BY <2>2 DEF ValueAt
    <3>3. ValueAt(u, 0)' = CountAt(reload'[u], counter[u], TickOf(u), Span(u), left[u], 0)
      BY <1>2, <2>1, <2>2 DEF ValueAt
    <3> QED
      BY <3>1, <3>2, <3>3, Zenon DEF CountAt
  <2>3. CASE u \notin scheduled
    <3>1. Over(0) = {}
      BY <1>2, QuietValues
    <3> QED
      BY <1>2, <1>3, <2>3, <3>1 DEF ValueAt
  <2> QED
    BY <2>2, <2>3
<1>5. ASSUME NEW u \in Timers PROVE Counts(u)' <=> Counts(u)
  <2>1. TickOf(u)' = TickOf(u) /\ Span(u)' = Span(u)
    BY <1>2 DEF TickOf, Span
  <2> QED
    BY <1>2, <2>1 DEF Counts, Elapsed
<1>6. reload' \in [Timers -> Reloads]
  BY <1>2 DEF CountInv
<1> QED
  BY <1>1, <1>2, <1>3, <1>4, <1>5, <1>6 DEF CountInv

(* The clock, k cycles on and reduced to w, keeps its phase modulo p. *)
Wraps(n, k, w, p) == \E e \in Int : (n + k) % w = n + k + p * e

(* A clock that wraps at a multiple of the prescaler keeps its phase. *)
LEMMA Wrapping ==
  ASSUME NEW n \in Int, NEW k \in Int, NEW w \in Nat \ {0}, NEW p \in Nat \ {0}, w % p = 0
  PROVE  Wraps(n, k, w, p)
<1>1. PICK d \in Int, m \in 0..(w - 1) : n + k = w * d + m /\ (n + k) % w = m
  <2>1. n + k \in Int
    OBVIOUS
  <2> QED
    BY <2>1, Split
<1>2. PICK q \in Int : w = p * q
  <2>1. PICK q \in Int, r \in 0..(p - 1) : w = p * q + r /\ w % p = r
    BY Split
  <2> QED
    BY <2>1
<1>3. w * d = p * (q * d) /\ q * d \in Int
  BY <1>2
<1>4. p * (-(q * d)) = -(p * (q * d)) /\ -(q * d) \in Int
  BY <1>3
<1>5. m = n + k + p * (-(q * d))
  BY <1>1, <1>3, <1>4
<1> QED
  BY <1>1, <1>4, <1>5 DEF Wraps

(* So the alignment survives a tick, in which event and clock move. *)
LEMMA PhaseKept ==
  ASSUME NEW n \in Int, NEW k \in Int, NEW w \in Nat \ {0}, NEW p \in Nat \ {0},
         NEW l \in Int, NEW o \in Int, w % p = 0, Aligned(n, l, o, p)
  PROVE  Aligned((n + k) % w, l - k, o, p)
<1>1. Wraps(n, k, w, p)
  BY Wrapping
<1>2. PICK e \in Int : (n + k) % w = n + k + p * e
  BY <1>1, Zenon DEF Wraps
<1>3. PICK x \in Int, y \in Int, m \in Int : x = n + l - o /\ y = m + (l - k) - o /\ m = n + k + p * e
  OBVIOUS
<1>4. y = x + p * e
  BY <1>3
<1>5. (x + p * e) % p = x % p
  BY Congruent
<1>6. x % p = 0
  BY <1>3 DEF Aligned
<1>7. y % p = 0
  BY <1>4, <1>5, <1>6, Zenon
<1>8. m + (l - k) - o = y /\ (n + k) % w = m
  BY <1>2, <1>3
<1> QED
  BY <1>7, <1>8, Zenon DEF Aligned

(* A tick of the bus takes the hardware along the closed form. *)
LEMMA TickCounts ==
  ASSUME CountInv, NEW c \in 1..MaxTick, Tick(c)
  PROVE  CountInv'
<1>0. c \in Nat /\ c >= 1 /\ c <= MaxTick /\ MaxTick \in Nat /\ clock \in Int /\ Width \in Nat \ {0}
  BY Positive DEF CountInv, DrivenInv, TimerTypeOK
<1>1. DrivenInv'
  BY DrivenNext DEF CountInv, TimerNext
<1>2. /\ clock' = (clock + c) % Width
      /\ left' = [t \in Timers |-> IF t \in scheduled THEN left[t] - c ELSE 0]
      /\ UNCHANGED <<control, reload, counter, last_scheduled, scheduled, connected, offset>>
      /\ Quiet
  BY DEF Tick
<1>3. /\ value' = [u \in Timers |-> ValueAt(u, c)]
      /\ wait' = [u \in Timers |-> WaitAt(u, c)]
      /\ owed' = [u \in Timers |-> IF u \in Over(c) THEN 1 ELSE 0]
  <2>1. Hardware(c) = Predicted(c)
    BY <1>2, HardwarePredicted
  <2>2. value' = Predicted(c).value /\ wait' = Predicted(c).wait /\ owed' = Predicted(c).owed
    BY <2>1 DEF Tick
  <2> QED
    BY <2>2, Zenon DEF Predicted
<1>4. \A u \in scheduled : u \in Timers /\ left[u] \in Int /\ left[u] > 0 /\ left'[u] = left[u] - c
  BY <1>2, QuietValues
<1>5. \A u \in Timers : TickOf(u)' = TickOf(u) /\ Span(u)' = Span(u)
  BY <1>2 DEF TickOf, Span
<1>6. Over(0)' = Over(c)
  <2>1. \A u \in scheduled : left'[u] <= 0 <=> left[u] <= c
    BY <1>0, <1>4
  <2> QED
    BY <1>2, <2>1 DEF Over, Overflowing
<1>7. ASSUME NEW u \in Timers PROVE ValueAt(u, 0)' = ValueAt(u, c)
  <2>1. CASE u \in scheduled
    <3>1. /\ ValueAt(u, c) = CountAt(reload[u], counter[u], TickOf(u), Span(u), left[u], c)
          /\ ValueAt(u, 0)' = CountAt(reload[u], counter[u], TickOf(u), Span(u), left[u] - c, 0)
      BY <1>2, <1>4, <1>5, <2>1 DEF ValueAt
    <3>2. /\ left[u] - c <= 0 <=> left[u] <= c
          /\ 0 - (left[u] - c) = c - left[u]
          /\ Span(u) - (left[u] - c) + 0 = Span(u) - left[u] + c
      <4>1. Span(u) \in Int
        BY Sizes
      <4> QED
        BY <1>0, <1>4, <2>1, <4>1
    <3>3. CountAt(reload[u], counter[u], TickOf(u), Span(u), left[u] - c, 0) =
             IF left[u] <= c THEN reload[u] + ((c - left[u]) \div TickOf(u))
             ELSE IF Span(u) - left[u] + c < 0 THEN counter[u]
             ELSE counter[u] + ((Span(u) - left[u] + c) \div TickOf(u))
      BY <3>2, Zenon DEF CountAt
    <3>4. CountAt(reload[u], counter[u], TickOf(u), Span(u), left[u], c) =
             IF left[u] <= c THEN reload[u] + ((c - left[u]) \div TickOf(u))
             ELSE IF Span(u) - left[u] + c < 0 THEN counter[u]
             ELSE counter[u] + ((Span(u) - left[u] + c) \div TickOf(u))
      BY Zenon DEF CountAt
    <3>5. CountAt(reload[u], counter[u], TickOf(u), Span(u), left[u] - c, 0)
          = CountAt(reload[u], counter[u], TickOf(u), Span(u), left[u], c)
      BY <3>3, <3>4
    <3> QED
      BY <3>1, <3>5, Zenon
  <2>2. CASE u \notin scheduled
    BY <1>2, <1>6, <2>2 DEF ValueAt
  <2> QED
    BY <2>1, <2>2
<1>8. ASSUME NEW u \in scheduled PROVE Counts(u)'
  <2> DEFINE p == TickOf(u)
             e == Elapsed(u, 0)
  <2>1. /\ p \in Nat \ {0} /\ Width % p = 0 /\ Span(u) \in Int /\ offset[u] \in Int /\ wait[u] \in 0..2
    BY <1>4, Sizes
  <2>2. Counts(u)
    BY <1>4 DEF CountInv
  <2>3. e \in Int /\ Elapsed(u, 0)' = e + c
    BY <1>0, <1>4, <1>5, <2>1 DEF Elapsed
  <2>4. wait'[u] = IF wait[u] <= c THEN 0 ELSE wait[u] - c
    BY <1>3, <1>4 DEF WaitAt
  <2>5. left'[u] > -MaxTick
    BY <1>0, <1>4
  <2>6. e + wait[u] >= 0 /\ (wait[u] > 0 => e + wait[u] < p) /\ last_scheduled[u] = (clock - e) % Width
    BY <2>2 DEF Counts
  <2> HIDE DEF e
  <2>7. (e + c) + wait'[u] >= 0 /\ (wait'[u] > 0 => (e + c) + wait'[u] < p)
    <3>1. p \in Int
      BY <2>1
    <3> HIDE DEF p
    <3> QED
      BY <1>0, <2>1, <2>3, <2>4, <2>6, <3>1
  <2>8. last_scheduled'[u] = (clock' - (e + c)) % Width
    <3>1. (((clock + c) % Width) - (e + c)) % Width = (clock - e) % Width
      <4>1. clock \in Int /\ c \in Int /\ e \in Int /\ Width \in Nat \ {0}
        BY <1>0, <2>3
      <4> QED
        BY <4>1, Later, Zenon
    <3> QED
      BY <1>2, <2>6, <3>1, Zenon
  <2>9. Aligned(clock', left'[u], offset'[u], p)
    <3>1. Aligned(clock, left[u], offset[u], p)
      BY <2>2 DEF Counts
    <3>2. clock \in Int /\ c \in Int /\ left[u] \in Int /\ offset[u] \in Int /\ p \in Nat \ {0}
          /\ Width \in Nat \ {0} /\ Width % p = 0
      BY <1>0, <1>4, <2>1
    <3> HIDE DEF p
    <3>3. Aligned((clock + c) % Width, left[u] - c, offset[u], p)
      BY <3>1, <3>2, PhaseKept
    <3> QED
      BY <1>2, <1>4, <3>3, Zenon
  <2>10. TickOf(u)' = p
    BY <1>4, <1>5
  <2> HIDE DEF p
  <2> QED
    BY <2>3, <2>5, <2>7, <2>8, <2>9, <2>10 DEF Counts
<1>9. ASSUME NEW u \in Timers PROVE wait'[u] \in 0..2 /\ (u \notin scheduled => wait'[u] = 0)
  <2>1. wait[u] \in 0..2 /\ (u \notin scheduled => wait[u] = 0)
    BY DEF CountInv
  <2> QED
    BY <1>0, <1>3, <2>1 DEF WaitAt
<1>10. wait' \in [Timers -> 0..2]
  BY <1>3, <1>9
<1>11. reload' \in [Timers -> Reloads] /\ offset' \in [Timers -> Int] /\ scheduled' = scheduled
  BY <1>2 DEF CountInv
<1>12. value' = [u \in Timers |-> ValueAt(u, 0)'] /\ owed' = [u \in Timers |-> IF u \in Over(0)' THEN 1 ELSE 0]
  BY <1>3, <1>6, <1>7
<1>13. \A u \in Timers : IF u \in scheduled THEN Counts(u)' ELSE wait'[u] = 0
  BY <1>8, <1>9
<1> QED
  BY <1>1, <1>10, <1>11, <1>12, <1>13 DEF CountInv

(* A stutter changes nothing. *)
LEMMA StutterCounts == ASSUME CountInv, UNCHANGED timervars PROVE CountInv'
<1>1. DrivenInv'
  BY DrivenNext DEF CountInv
<1>2. UNCHANGED <<control, reload, counter, last_scheduled, scheduled, left, connected, clock, value, wait, offset, owed>>
  BY DEF timervars, code, hardware
<1> QED
  BY <1>1, <1>2 DEF CountInv, Counts, ValueAt, Over, Overflowing, TickOf, Span, Elapsed

(* The two arguments of a start that is d cycles late, b of them before the
   write: what schedule_overflow computes in 32 bits is exact and aligned. *)
Arms(n, w, p, s, b, d) ==
    /\ (n - (d % w)) % w = (n - d) % w
    /\ (s - (d % w)) % w = s - d
    /\ Aligned(n, s - d, b, p)

(* A start is late by its distance to the edge before it, less b. *)
LEMMA Arming ==
  ASSUME NEW n \in Int, NEW w \in Nat \ {0}, NEW p \in Nat \ {0}, NEW i \in Int, NEW b \in 0..2, NEW d \in Int,
         d = (n % p) - b, p <= SpanOf(p, i), SpanOf(p, i) + 2 < w
  PROVE  Arms(n, w, p, SpanOf(p, i), b, d)
<1>1. PICK m \in 0..(p - 1), q \in Int : n % p = m /\ n = p * q + m
  <2>1. n % p \in 0..(p - 1) /\ n \div p \in Int /\ n = p * (n \div p) + (n % p)
    BY DivMod
  <2> QED
    BY <2>1
<1>2. PICK s \in Int : s = SpanOf(p, i) /\ s = p * i
  <2>1. p * i \in Int
    OBVIOUS
  <2> QED
    BY <2>1 DEF SpanOf
<1>3. d = m - b
  BY <1>1
<1>4. s - d \in 0..(w - 1)
  BY <1>2, <1>3
<1>5. (n - (d % w)) % w = (n - d) % w
  BY MinusRemainder, Zenon
<1>6. (s - (d % w)) % w = (s - d) % w
  BY MinusRemainder, Zenon
<1>7. (s - d) % w = s - d
  BY <1>4, Remains
<1>8. Aligned(n, s - d, b, p)
  <2>1. n + (s - d) - b = p * (q + i)
    <3>1. p * (q + i) = p * q + p * i /\ p * q \in Int /\ p * i \in Int
      OBVIOUS
    <3>2. \A j \in Int, h \in Int : (j + m) + (h - (m - b)) - b = j + h
      OBVIOUS
    <3>3. (p * q + m) + (p * i - (m - b)) - b = p * q + p * i
      BY <3>1, <3>2
    <3> QED
      BY <1>1, <1>2, <1>3, <3>1, <3>3, Zenon
  <2>2. q + i \in Int
    OBVIOUS
  <2>3. (p * (q + i)) % p = 0
    BY <2>2, Multiple, Zenon
  <2> QED
    BY <2>1, <2>3, Zenon DEF Aligned
<1> QED
  BY <1>2, <1>5, <1>6, <1>7, <1>8, Zenon DEF Arms

(* The chain of one timer never reaches another that counts cycles. *)
LEMMA OthersStay ==
  ASSUME DrivenInv, NEW t \in scheduled, NEW u \in scheduled \ {t}
  PROVE  AfterOverflow(counter, t)[u] = counter[u]
<1>1. u \in Timers /\ t \in Timers /\ u \notin connected
  BY DEF DrivenInv, DrivenOnce, TimerTypeOK
<1>2. u \notin Ticked(counter, t)
  BY <1>1 DEF Ticked
<1>3. u \notin Overflowing(counter, t)
  <2>1. SUFFICES ASSUME u \in Overflowing(counter, t) PROVE FALSE
    OBVIOUS
  <2>2. u >= t /\ \A v \in (t + 1)..u : v \in connected
    BY <2>1 DEF Overflowing
  <2>3. u \in (t + 1)..u
    BY <1>1, <2>2, TimerAssumption
  <2> QED
    BY <1>1, <2>2, <2>3
<1> QED
  BY <1>1, <1>2, <1>3 DEF AfterOverflow

(* Taking away a pending event records what the hardware shows, when the
   prescaler is kept, and disturbs no other timer that counts cycles. *)
LEMMA SettledCounts ==
  ASSUME CountInv, Quiet, NEW t \in Timers, wait[t] = 0, NEW p \in Selected
  PROVE  /\ t \notin scheduled => Settled(t, p) = counter
         /\ t \in scheduled /\ p = control[t].prescalar => Settled(t, p) = [counter EXCEPT ![t] = value[t]]
         /\ \A u \in scheduled \ {t} : Settled(t, p)[u] = counter[u]
<1>1. t \notin scheduled => Settled(t, p) = counter
  BY DEF Settled
<1>2. ASSUME t \in scheduled, p = control[t].prescalar
      PROVE  Settled(t, p) = [counter EXCEPT ![t] = value[t]]
  <2>1. Counted(t, p) = value[t] /\ value[t] \in 0..(overflow_value - 1)
    BY <1>2, DeltaExact, Zenon DEF Counted
  <2>2. overflow_value \in Nat
    BY TimerAssumption
  <2>3. ~OverflowsAt(Counted(t, p))
    BY <2>1, <2>2 DEF OverflowsAt
  <2> QED
    BY <1>2, <2>1, <2>3, Zenon DEF Settled
<1>3. ASSUME NEW u \in scheduled \ {t} PROVE Settled(t, p)[u] = counter[u]
  <2>1. t \in scheduled => AfterOverflow(counter, t)[u] = counter[u]
    BY OthersStay DEF CountInv
  <2>2. [counter EXCEPT ![t] = Counted(t, p)][u] = counter[u]
    <3>1. counter \in [Timers -> 0..(overflow_value - 1)] /\ u \in Timers
      BY DEF CountInv, DrivenInv, TimerTypeOK
    <3> QED
      BY <3>1
  <2> QED
    BY <2>1, <2>2, Zenon DEF Settled
<1> QED
  BY <1>1, <1>2, <1>3

(* Rewriting a control register keeps the counts, whatever was running and
   whatever runs next, when the mask has all of the prescaler's phase. *)
LEMMA ControlCounts ==
  ASSUME MasksWhole, CountInv, NEW t \in Timers, NEW n \in Control, WriteControl(t, n)
  PROVE  CountInv'
<1> DEFINE p == n.prescalar
           P == Prescalars[p]
           starts == n.enabled /\ ~control[t].enabled
           counts == n.enabled /\ ~n.cascaded
           b == IF starts THEN 2 ELSE 0
           d == (clock % P) - b
           s == SpanOf(P, overflow_value - counter'[t])
<1>0. p \in Selected /\ n.enabled \in BOOLEAN /\ n.cascaded \in BOOLEAN
  BY DEF Control
<1>1. DrivenInv'
  BY DrivenNext DEF CountInv, TimerNext
<1>types. /\ control \in [Timers -> Control] /\ counter \in [Timers -> 0..(overflow_value - 1)]
          /\ counter' \in [Timers -> 0..(overflow_value - 1)]
          /\ last_scheduled \in [Timers -> 0..(Width - 1)] /\ left \in [Timers -> Int]
          /\ scheduled \subseteq Timers /\ clock \in Int
          /\ wait \in [Timers -> 0..2] /\ offset \in [Timers -> Int] /\ reload \in [Timers -> Reloads]
          /\ value = [u \in Timers |-> value[u]]
  <2>1. clock \in 0..(Width - 1) /\ Width \in Nat
    BY TimerAssumption DEF CountInv, DrivenInv, TimerTypeOK
  <2>2. clock \in Int
    BY <2>1
  <2>3. value = [u \in Timers |-> value[u]]
    BY DEF CountInv
  <2> QED
    BY <1>1, <2>2, <2>3 DEF CountInv, DrivenInv, TimerTypeOK
<1>2. /\ Quiet /\ wait[t] = 0
      /\ control' = [control EXCEPT ![t] = n]
      /\ UNCHANGED <<reload, clock>>
      /\ scheduled' = IF counts THEN scheduled \cup {t} ELSE scheduled \ {t}
      /\ counts => ScheduleOverflow(t, p, counter'[t], StartDelay(t, p))
      /\ ~counts => left' = [left EXCEPT ![t] = 0] /\ last_scheduled' = last_scheduled
      /\ HardwareWrite(t, n)
      /\ counter' = IF starts THEN [Settled(t, p) EXCEPT ![t] = reload[t]] ELSE Settled(t, p)
  BY DEF WriteControl
<1>3. t \in scheduled => ~starts
  BY DEF CountInv, DrivenInv, DrivenOnce
<1>4. \A u \in Timers \ {t} : /\ control'[u] = control[u] /\ (u \in scheduled' <=> u \in scheduled)
                              /\ left'[u] = left[u] /\ last_scheduled'[u] = last_scheduled[u]
  <2>1. CASE counts
    BY <1>2, <1>types, <2>1 DEF ScheduleOverflow
  <2>2. CASE ~counts
    BY <1>2, <1>types, <2>2
  <2> QED
    BY <2>1, <2>2
<1>5. \A u \in scheduled \ {t} : counter'[u] = counter[u]
  <2>1. \A u \in scheduled \ {t} : Settled(t, p)[u] = counter[u] /\ u \in Timers
    BY <1>0, <1>2, <1>types, SettledCounts
  <2>2. Settled(t, p) \in [Timers -> 0..(overflow_value - 1)]
    BY <1>0, SettledBelow DEF CountInv, DrivenInv
  <2> QED
    BY <1>2, <2>1, <2>2
<1>6. PrescalarKept(t, p) => /\ \A u \in Timers \ {t} : counter'[u] = counter[u]
                             /\ counter'[t] = IF starts THEN reload[t] ELSE value[t]
  <2>1. SUFFICES ASSUME PrescalarKept(t, p)
                 PROVE  /\ \A u \in Timers \ {t} : counter'[u] = counter[u]
                        /\ counter'[t] = IF starts THEN reload[t] ELSE value[t]
    OBVIOUS
  <2>2. CASE t \in scheduled
    <3>1. Settled(t, p) = [counter EXCEPT ![t] = value[t]]
      BY <1>0, <1>2, <2>1, <2>2, SettledCounts DEF PrescalarKept
    <3> QED
      BY <1>2, <1>3, <1>types, <2>2, <3>1
  <2>3. CASE t \notin scheduled
    <3>1. Settled(t, p) = counter
      BY <1>0, <1>2, <2>3, SettledCounts
    <3>2. value[t] = counter[t]
      BY <1>2, <2>3, QuietValues
    <3> QED
      BY <1>2, <1>types, <3>1, <3>2
  <2> QED
    BY <2>2, <2>3
<1>7. /\ value' = [u \in Timers |-> IF u \in scheduled \ {t} THEN value[u] ELSE counter'[u]]
      /\ wait' = [wait EXCEPT ![t] = IF starts /\ ~n.cascaded THEN 2 ELSE 0]
      /\ offset' = [offset EXCEPT ![t] = b]
      /\ owed' = owed
  <2>1. CASE PrescalarKept(t, p)
    <3>1. /\ value' = IF starts THEN [value EXCEPT ![t] = reload[t]] ELSE value
          /\ wait' = [wait EXCEPT ![t] = IF starts /\ ~n.cascaded THEN 2 ELSE 0]
          /\ offset' = [offset EXCEPT ![t] = b]
          /\ owed' = owed
      BY <1>2, <2>1 DEF HardwareWrite
    <3>2. \A u \in Timers \ scheduled : value[u] = counter[u]
      BY <1>2, QuietValues
    <3>3. value' = [u \in Timers |-> value'[u]]
      BY <1>types, <3>1
    <3>4. ASSUME NEW u \in Timers
          PROVE  value'[u] = IF u \in scheduled \ {t} THEN value[u] ELSE counter'[u]
      <4>1. CASE u = t
        BY <1>6, <1>types, <2>1, <3>1, <4>1
      <4>2. CASE u # t
        BY <1>6, <1>types, <2>1, <3>1, <3>2, <4>2
      <4> QED
        BY <4>1, <4>2
    <3> QED
      BY <3>1, <3>3, <3>4
  <2>2. CASE ~PrescalarKept(t, p)
    <3>1. ~starts
      BY <1>3, <2>2 DEF PrescalarKept
    <3> QED
      BY <1>2, <2>2, <3>1 DEF HardwareWrite
  <2> QED
    BY <2>1, <2>2
<1>8. \A u \in Timers \ {t} : wait'[u] = wait[u] /\ offset'[u] = offset[u]
  BY <1>7, <1>types
<1>9. /\ wait' \in [Timers -> 0..2] /\ offset' \in [Timers -> Int] /\ reload' \in [Timers -> Reloads]
      /\ wait'[t] = IF starts /\ ~n.cascaded THEN 2 ELSE 0
      /\ offset'[t] = b
  BY <1>2, <1>7, <1>types
<1>10. /\ P \in Nat \ {0} /\ Width \in Nat \ {0} /\ Width % P = 0
       /\ s \in Int /\ P <= s /\ s + 2 < Width
       /\ (overflow_value - counter'[t]) * P = s
  <2>1. counter'[t] \in 0..(overflow_value - 1)
    BY <1>types
  <2> QED
    BY <1>0, <2>1, SpanSize
<1>11. d \in Int /\ d + b \in 0..(P - 1) /\ d + b < P /\ d + b >= 0 /\ b \in 0..2 /\ clock % P \in 0..(P - 1)
  <2>1. clock % P \in 0..(P - 1)
    <3> HIDE DEF P
    <3> QED
      BY <1>10, <1>types, DivMod
  <2>2. b \in 0..2
    OBVIOUS
  <2>3. PICK m \in 0..(P - 1) : m = clock % P
    BY <2>1
  <2> HIDE DEF b, P
  <2> QED
    BY <1>10, <2>1, <2>2, <2>3
<1>12. counts => Arms(clock, Width, P, s, b, d)
  <2>1. overflow_value - counter'[t] \in Int
    <3>1. overflow_value \in Nat /\ counter'[t] \in 0..(overflow_value - 1)
      BY <1>types, TimerAssumption
    <3> QED
      BY <3>1
  <2>2. d = (clock % P) - b
    OBVIOUS
  <2> HIDE DEF P, b, d
  <2> QED
    BY <1>10, <1>11, <1>types, <2>1, <2>2, Arming
<1>13. counts => /\ last_scheduled'[t] = (clock - d) % Width
                 /\ left'[t] = s - d /\ left'[t] > 0
                 /\ Aligned(clock, left'[t], b, P)
  <2>1. SUFFICES ASSUME counts
                 PROVE  /\ last_scheduled'[t] = (clock - d) % Width
                        /\ left'[t] = s - d /\ left'[t] > 0
                        /\ Aligned(clock, left'[t], b, P)
    OBVIOUS
  <2>2. StartDelay(t, p) = d % Width
    <3>1. (IF control[t].enabled THEN 0 ELSE 2) = b
      BY <2>1
    <3>2. start_delay_mask(p) + 1 = P
      BY <1>0, WholeMask
    <3> QED
      BY <3>1, <3>2, Zenon DEF StartDelay
  <2>3. last_scheduled'[t] = Start(d % Width) /\ left'[t] = Period(counter'[t], p, d % Width)
    BY <1>2, <1>types, <2>1, <2>2 DEF ScheduleOverflow
  <2>4. Period(counter'[t], p, d % Width) = (s - (d % Width)) % Width
    <3> HIDE DEF s, d
    <3> QED
      BY <1>10, Zenon DEF Period
  <2> HIDE DEF s, d, b, P
  <2>5. left'[t] = s - d /\ last_scheduled'[t] = (clock - d) % Width /\ Aligned(clock, s - d, b, P)
    BY <1>12, <2>1, <2>3, <2>4, Zenon DEF Arms, Start
  <2>6. s - d > 0
    BY <1>10, <1>11
  <2> QED
    BY <2>5, <2>6
<1>14. ASSUME NEW u \in scheduled' PROVE left'[u] > 0 /\ u \in Timers
  <2>1. CASE u = t
    BY <1>2, <1>13, <2>1
  <2>2. CASE u # t
    <3>1. u \in scheduled \ {t} /\ u \in Timers
      BY <1>2, <1>types, <2>2
    <3>2. left[u] > 0
      BY <1>2, <3>1, QuietValues
    <3> QED
      BY <1>4, <3>1, <3>2
  <2> QED
    BY <2>1, <2>2
<1>15. Over(0)' = {}
  <2>1. \A u \in scheduled' : ~(left'[u] <= 0)
    <3>1. left' \in [Timers -> Int]
      BY <1>1 DEF DrivenInv, TimerTypeOK
    <3> QED
      BY <1>14, <3>1
  <2> QED
    BY <2>1 DEF Over
<1>16. /\ \A u \in Timers \ {t} : TickOf(u)' = TickOf(u)
       /\ TickOf(t)' = P
       /\ \A u \in scheduled \ {t} : Span(u)' = Span(u)
       /\ Span(t)' = s
  <2>1. /\ \A u \in Timers \ {t} : TickOf(u)' = TickOf(u)
        /\ TickOf(t)' = P
    BY <1>2, <1>types DEF TickOf
  <2>2. \A u \in scheduled \ {t} : Span(u)' = Span(u)
    BY <1>5, <1>types, <2>1 DEF Span
  <2> QED
    BY <2>1, <2>2 DEF Span
<1>17. ASSUME NEW u \in Timers PROVE ValueAt(u, 0)' = value'[u]
  <2>1. CASE u \in scheduled \ {t}
    <3>1. u \in scheduled' /\ left'[u] = left[u] /\ reload'[u] = reload[u] /\ counter'[u] = counter[u]
      BY <1>2, <1>4, <1>5, <1>types, <2>1
    <3>2. ValueAt(u, 0)' = ValueAt(u, 0)
      BY <1>16, <2>1, <3>1 DEF ValueAt
    <3>3. value[u] = ValueAt(u, 0)
      BY DEF CountInv
    <3> QED
      BY <1>7, <2>1, <3>2, <3>3
  <2>2. CASE u \notin scheduled'
    <3>1. ValueAt(u, 0)' = counter'[u]
      BY <1>15, <2>2 DEF ValueAt
    <3>2. u \notin scheduled \ {t}
      BY <1>2, <2>2
    <3> QED
      BY <1>7, <3>1, <3>2
  <2>3. CASE u = t /\ t \in scheduled'
    <3>1. counts
      BY <1>2, <2>3
    <3>2. ValueAt(t, 0)' = CountAt(reload'[t], counter'[t], P, s, left'[t], 0)
      BY <1>16, <2>3 DEF ValueAt
    <3>3. ~(left'[t] <= 0) /\ s - left'[t] + 0 = d
      <4> HIDE DEF d, s
      <4> QED
        BY <1>10, <1>11, <1>13, <3>1
    <3>4. d >= 0 => d \div P = 0
      <4>1. d >= 0 => d < P
        <5> HIDE DEF d, P
        <5> QED
          BY <1>10, <1>11
      <4>2. d >= 0 => d \in Nat
        BY <1>11
      <4>3. P \in Nat \ {0}
        BY <1>10
      <4> HIDE DEF d, P
      <4> QED
        BY <4>1, <4>2, <4>3, NotNegative, Zenon
    <3>5. CountAt(reload'[t], counter'[t], P, s, left'[t], 0) = IF d < 0 THEN counter'[t] ELSE counter'[t] + (d \div P)
      <4> HIDE DEF d, P, s
      <4> QED
        BY <3>3, Zenon DEF CountAt
    <3>6. counter'[t] \in Int
      <4>1. overflow_value \in Nat /\ counter'[t] \in 0..(overflow_value - 1)
        BY <1>types, TimerAssumption
      <4> QED
        BY <4>1
    <3>7. ValueAt(t, 0)' = counter'[t]
      <4> HIDE DEF d, P, s
      <4> QED
        BY <1>11, <3>2, <3>4, <3>5, <3>6
    <3> QED
      BY <1>7, <2>3, <3>7
  <2> QED
    BY <1>2, <2>1, <2>2, <2>3
<1>18. ASSUME NEW u \in scheduled' PROVE Counts(u)'
  <2>1. CASE u # t
    <3>1. u \in scheduled \ {t} /\ u \in Timers
      BY <1>2, <1>types, <2>1
    <3>2. Counts(u)
      BY <3>1 DEF CountInv
    <3>3. Elapsed(u, 0)' = Elapsed(u, 0)
      BY <1>4, <1>16, <3>1 DEF Elapsed
    <3> QED
      BY <1>2, <1>4, <1>8, <1>16, <3>1, <3>2, <3>3 DEF Counts
  <2>2. CASE u = t
    <3>1. counts
      BY <1>2, <2>2
    <3>2. Elapsed(t, 0)' = d
      <4>1. Elapsed(t, 0)' = s - left'[t] + 0
        BY <1>16 DEF Elapsed
      <4> HIDE DEF d, s
      <4> QED
        BY <1>10, <1>11, <1>13, <3>1, <4>1
    <3>3. wait'[t] = b
      BY <1>9, <3>1
    <3>4. left'[t] > -MaxTick
      <4>1. MaxTick \in Nat
        BY TimerAssumption
      <4>2. left'[t] > 0 /\ left'[t] \in Int
        <5> HIDE DEF d, s
        <5> QED
          BY <1>10, <1>11, <1>13, <3>1
      <4> QED
        BY <4>1, <4>2
    <3> HIDE DEF d, b, s, P
    <3> QED
      BY <1>2, <1>9, <1>11, <1>13, <1>16, <2>2, <3>1, <3>2, <3>3, <3>4 DEF Counts
  <2> QED
    BY <2>1, <2>2
<1>19. owed' = [u \in Timers |-> IF u \in Over(0)' THEN 1 ELSE 0]
  <2>1. owed = [u \in Timers |-> 0]
    BY <1>2, QuietValues DEF CountInv
  <2> QED
    BY <1>7, <1>15, <2>1
<1>20. ASSUME NEW u \in Timers, u \notin scheduled' PROVE wait'[u] = 0
  <2>1. CASE u = t
    BY <1>2, <1>9, <1>20, <2>1
  <2>2. CASE u # t
    BY <1>4, <1>8, <1>20, <2>2 DEF CountInv
  <2> QED
    BY <2>1, <2>2
<1>21. value' = [u \in Timers |-> ValueAt(u, 0)']
  <2>1. value' = [u \in Timers |-> value'[u]]
    BY <1>7
  <2> QED
    BY <1>17, <2>1
<1>22. \A u \in Timers : IF u \in scheduled' THEN Counts(u)' ELSE wait'[u] = 0
  BY <1>18, <1>20
<1> QED
  BY <1>1, <1>9, <1>19, <1>21, <1>22 DEF CountInv

(* The chains of two timers that count cycles have no timer in common. *)
LEMMA Disjoint ==
  ASSUME DrivenInv, NEW t \in scheduled, NEW t2 \in scheduled \ {t}, NEW u \in Timers,
         u >= t2, \A v \in (t2 + 1)..u : v \in connected
  PROVE  \A v \in t2..u : v \notin Overflowing(counter, t)
<1>1. SUFFICES ASSUME NEW v \in t2..u, v \in Overflowing(counter, t) PROVE FALSE
  OBVIOUS
<1>2. t \in 0..Last /\ t2 \in 0..Last /\ t \notin connected /\ t2 \notin connected /\ Last \in Nat
  BY TimerAssumption DEF DrivenInv, DrivenOnce, TimerTypeOK
<1>3. v >= t /\ \A x \in (t + 1)..v : x \in connected
  BY <1>1 DEF Overflowing
<1>4. CASE t < t2
  <2>1. t2 \in (t + 1)..v
    BY <1>1, <1>2, <1>4
  <2> QED
    BY <1>2, <1>3, <2>1
<1>5. CASE t2 < t
  <2>1. t \in (t2 + 1)..u
    BY <1>1, <1>2, <1>3, <1>5
  <2> QED
    BY <1>2, <2>1
<1> QED
  BY <1>2, <1>4, <1>5

(* So the overflow of one leaves the chain of the other alone. *)
LEMMA ChainsApart ==
  ASSUME DrivenInv, NEW t \in scheduled, NEW t2 \in scheduled \ {t}
  PROVE  /\ Overflowing(AfterOverflow(counter, t), t2) = Overflowing(counter, t2)
         /\ Overflowing(counter, t2) \cap Overflowing(counter, t) = {}
<1>0. t2 \in 0..Last /\ Last \in Nat
  BY TimerAssumption DEF DrivenInv, TimerTypeOK
<1> DEFINE c == AfterOverflow(counter, t)
<1>1. ASSUME NEW u \in Timers, u >= t2, \A v \in (t2 + 1)..u : v \in connected
      PROVE  \A v \in (t2 + 1)..u : c[v] = counter[v]
  <2>1. \A v \in t2..u : v \notin Overflowing(counter, t)
    BY <1>1, Disjoint
  <2>2. SUFFICES ASSUME NEW v \in (t2 + 1)..u PROVE c[v] = counter[v]
    OBVIOUS
  <2>3. v \in t2..u /\ v - 1 \in t2..u /\ v \in Timers
    BY <1>0
  <2>4. v \notin Overflowing(counter, t) /\ v \notin Ticked(counter, t)
    BY <2>1, <2>3 DEF Ticked
  <2> QED
    BY <2>3, <2>4 DEF AfterOverflow
<1>2. \A u \in Timers : u \in Overflowing(c, t2) <=> u \in Overflowing(counter, t2)
  <2>1. SUFFICES ASSUME NEW u \in Timers PROVE u \in Overflowing(c, t2) <=> u \in Overflowing(counter, t2)
    OBVIOUS
  <2>2. u >= t2 /\ (\A v \in (t2 + 1)..u : v \in connected) => \A v \in (t2 + 1)..u : c[v] = counter[v]
    BY <1>1
  <2> HIDE DEF c
  <2> QED
    BY <2>2 DEF Overflowing
<1>3. ASSUME NEW u \in Overflowing(counter, t2) PROVE u \notin Overflowing(counter, t)
  <2>1. u \in Timers /\ u >= t2 /\ \A v \in (t2 + 1)..u : v \in connected
    BY DEF Overflowing
  <2>2. \A v \in t2..u : v \notin Overflowing(counter, t)
    BY <2>1, Disjoint
  <2> QED
    BY <1>0, <2>1, <2>2
<1> QED
  BY <1>2, <1>3 DEF Overflowing

(* The event of an overflow, however late, brings the code to where the
   hardware has been: it restarts from the cycle of the overflow and not
   from its own. *)
LEMMA OverflowCounts ==
  ASSUME CountInv, NEW t \in Timers, Overflow(t)
  PROVE  CountInv'
<1> DEFINE O == Overflowing(counter, t)
           P == TickOf(t)
           r == reload[t]
           s == SpanOf(P, overflow_value - r)
<1>1. DrivenInv'
  BY DrivenNext DEF CountInv, TimerNext
<1>driven. DrivenInv
  BY DEF CountInv
<1>2. /\ t \in scheduled /\ left[t] <= 0
      /\ counter' = AfterOverflow(counter, t)
      /\ ScheduleOverflow(t, control[t].prescalar, counter'[t], -left[t])
      /\ owed' = [u \in Timers |-> IF u \in O THEN owed[u] - 1 ELSE owed[u]]
      /\ UNCHANGED <<control, reload, scheduled, connected, clock, value, wait, offset>>
  BY DEF Overflow, Overdue
<1>3. /\ left \in [Timers -> Int] /\ last_scheduled \in [Timers -> 0..(Width - 1)]
      /\ scheduled \subseteq Timers /\ clock \in Int /\ \A u \in scheduled : u \notin connected
      /\ MaxTick \in Nat /\ overflow_value \in Nat \ {0} /\ Width \in Nat \ {0}
  <2>1. Last \in Nat /\ MaxTick \in Nat /\ overflow_value \in Nat \ {0} /\ Width \in Nat \ {0}
    BY Positive
  <2>2. clock \in Int
    <3>1. clock \in 0..(Width - 1)
      BY DEF CountInv, DrivenInv, TimerTypeOK
    <3> QED
      BY <2>1, <3>1
  <2>3. \A u \in scheduled : u \notin connected
    BY DEF CountInv, DrivenInv, TimerTypeOK, DrivenOnce
  <2> QED
    BY <2>1, <2>2, <2>3 DEF CountInv, DrivenInv, TimerTypeOK
<1>4. t \in O
  BY <1>2, <1>3 DEF Overflowing
<1>5. /\ counter'[t] = r
      /\ \A u \in scheduled \ {t} : counter'[u] = counter[u]
  <2>1. counter'[t] = r
    BY <1>2, <1>4 DEF AfterOverflow
  <2> QED
    BY <1>2, <1>driven, <2>1, OthersStay
<1>6. /\ P \in Nat \ {0} /\ Width % P = 0 /\ s \in Int /\ P <= s /\ s + 2 < Width
      /\ (overflow_value - r) * P = s
      /\ r \in 0..(overflow_value - 1) /\ r + MaxTick <= overflow_value
  <2>1. r \in 0..(overflow_value - 1) /\ r + MaxTick <= overflow_value
    BY Sizes
  <2>2. control[t].prescalar \in Selected
    BY <1>driven DEF DrivenInv, TimerTypeOK, Control
  <2>3. P = Prescalars[control[t].prescalar]
    BY DEF TickOf
  <2> HIDE DEF r, P
  <2>4. /\ Prescalars[control[t].prescalar] \in Nat \ {0} /\ Width % Prescalars[control[t].prescalar] = 0
        /\ SpanOf(Prescalars[control[t].prescalar], overflow_value - r) \in Int
        /\ Prescalars[control[t].prescalar] <= SpanOf(Prescalars[control[t].prescalar], overflow_value - r)
        /\ SpanOf(Prescalars[control[t].prescalar], overflow_value - r) + 2 < Width
        /\ (overflow_value - r) * Prescalars[control[t].prescalar] = SpanOf(Prescalars[control[t].prescalar], overflow_value - r)
    BY <2>1, <2>2, SpanSize
  <2> QED
    BY <2>1, <2>3, <2>4, Zenon
<1>7. left[t] > -MaxTick /\ wait[t] = 0 /\ Aligned(clock, left[t], offset[t], P)
  <2>1. Counts(t)
    BY <1>2 DEF CountInv
  <2>2. /\ left[t] > -MaxTick /\ (wait[t] > 0 => Span(t) - left[t] + 0 + wait[t] < P)
        /\ Aligned(clock, left[t], offset[t], P)
    BY <2>1 DEF Counts, Elapsed
  <2>3. wait[t] \in 0..2 /\ Span(t) \in Int /\ P <= Span(t) /\ left[t] \in Int
    BY Sizes
  <2> HIDE DEF P
  <2> QED
    BY <1>2, <1>6, <2>2, <2>3
<1>8. MaxTick <= s
  <2>1. PICK i \in Nat : i = overflow_value - r
    <3>1. r \in 0..(overflow_value - 1)
      BY <1>6
    <3> HIDE DEF r
    <3> QED
      BY <1>3, <3>1
  <2>2. i <= i * P
    <3>1. \A a \in Nat, h \in Nat \ {0} : a <= a * h
      OBVIOUS
    <3> HIDE DEF P
    <3> QED
      BY <1>6, <2>1, <3>1
  <2>3. i * P = s
    BY <1>6, <2>1
  <2> HIDE DEF s, r, P
  <2> QED
    BY <1>3, <1>6, <2>1, <2>2, <2>3
<1>9. /\ left' = [left EXCEPT ![t] = s + left[t]] /\ s + left[t] > 0
      /\ last_scheduled' = [last_scheduled EXCEPT ![t] = (clock + left[t]) % Width]
  <2>1. Period(counter'[t], control[t].prescalar, -left[t]) = (s - (-left[t])) % Width
    BY <1>5, <1>6 DEF Period, TickOf
  <2>2. left[t] \in Int
    BY <1>3
  <2> HIDE DEF s
  <2>3. s - (-left[t]) \in 0..(Width - 1) /\ s - (-left[t]) = s + left[t] /\ s + left[t] > 0
    BY <1>2, <1>3, <1>6, <1>7, <1>8, <2>2
  <2>4. (s - (-left[t])) % Width = s + left[t]
    BY <1>3, <2>3, Remains
  <2>5. Start(-left[t]) = (clock + left[t]) % Width
    <3>1. clock - (-left[t]) = clock + left[t]
      BY <1>3, <2>2
    <3> QED
      BY <3>1, Zenon DEF Start
  <2> QED
    BY <1>2, <2>1, <2>3, <2>4, <2>5, Zenon DEF ScheduleOverflow
<1>10. /\ left'[t] = s + left[t] /\ last_scheduled'[t] = (clock + left[t]) % Width
       /\ \A u \in scheduled \ {t} : left'[u] = left[u] /\ last_scheduled'[u] = last_scheduled[u]
  BY <1>3, <1>9
<1>11. /\ \A u \in Timers : TickOf(u)' = TickOf(u)
       /\ \A u \in scheduled \ {t} : Span(u)' = Span(u)
       /\ Span(t)' = s
  <2>1. \A u \in Timers : TickOf(u)' = TickOf(u)
    BY <1>2 DEF TickOf
  <2> QED
    BY <1>3, <1>5, <2>1 DEF Span
<1>12. Over(0)' = Over(0) \ O
  <2>1. ASSUME NEW t2 \in scheduled \ {t}
        PROVE  Overflowing(counter, t2)' = Overflowing(counter, t2) /\ Overflowing(counter, t2) \cap O = {}
    <3>1. Overflowing(counter, t2)' = Overflowing(counter', t2)
      BY <1>2 DEF Overflowing
    <3> QED
      BY <1>2, <1>driven, <3>1, ChainsApart
  <2>2. ~(left'[t] <= 0)
    <3> HIDE DEF s
    <3>1. s + left[t] \in Int
      BY <1>3, <1>6
    <3> QED
      BY <1>9, <1>10, <3>1
  <2>3. Over(0)' = {u \in Timers : \E t2 \in scheduled \ {t} : left[t2] <= 0 /\ u \in Overflowing(counter, t2)}
    <3>1. Over(0)' = {u \in Timers : \E t2 \in scheduled : left'[t2] <= 0 /\ u \in Overflowing(counter, t2)'}
      BY <1>2 DEF Over
    <3> HIDE DEF O
    <3>2. \A u, t2 : (t2 \in scheduled /\ left'[t2] <= 0 /\ u \in Overflowing(counter, t2)')
                     <=> (t2 \in scheduled \ {t} /\ left[t2] <= 0 /\ u \in Overflowing(counter, t2))
      BY <1>10, <2>1, <2>2
    <3> QED
      BY <3>1, <3>2
  <2>4. Over(0) = {u \in Timers : \E t2 \in scheduled : left[t2] <= 0 /\ u \in Overflowing(counter, t2)}
    BY DEF Over
  <2> QED
    BY <2>1, <2>3, <2>4
<1>13. O \subseteq Over(0)
  BY <1>2 DEF Over, Overflowing
<1>14. ASSUME NEW u \in Timers PROVE ValueAt(u, 0)' = ValueAt(u, 0)
  <2>1. CASE u = t
    <3>1. ValueAt(t, 0) = CountAt(r, counter[t], P, Span(t), left[t], 0)
      BY <1>2 DEF ValueAt
    <3>2. ValueAt(t, 0)' = CountAt(r, r, P, s, left'[t], 0)
      BY <1>2, <1>5, <1>11 DEF ValueAt
    <3>3. ~(left'[t] <= 0) /\ s - left'[t] + 0 = 0 - left[t] /\ ~(0 - left[t] < 0)
      <4>1. left[t] \in Int
        BY <1>3
      <4> HIDE DEF s
      <4> QED
        BY <1>2, <1>6, <1>9, <1>10, <4>1
    <3>4. CountAt(r, counter[t], P, Span(t), left[t], 0) = r + ((0 - left[t]) \div P)
      BY <1>2, Zenon DEF CountAt
    <3>5. CountAt(r, r, P, s, left'[t], 0) = r + ((0 - left[t]) \div P)
      <4> HIDE DEF s, r, P
      <4> QED
        BY <3>3, Zenon DEF CountAt
    <3> QED
      BY <2>1, <3>1, <3>2, <3>4, <3>5, Zenon
  <2>2. CASE u \in scheduled \ {t}
    <3>1. reload'[u] = reload[u] /\ counter'[u] = counter[u] /\ left'[u] = left[u] /\ TickOf(u)' = TickOf(u) /\ Span(u)' = Span(u)
      BY <1>2, <1>5, <1>10, <1>11, <2>2
    <3> QED
      BY <1>2, <2>2, <3>1 DEF ValueAt
  <2>3. CASE u \notin scheduled
    <3>1. u # t
      BY <1>2, <2>3
    <3>2. /\ ValueAt(u, 0) = IF u \in Over(0) THEN reload[u]
                             ELSE IF u \in connected /\ u - 1 \in Over(0) THEN counter[u] + 1 ELSE counter[u]
          /\ ValueAt(u, 0)' = IF u \in Over(0)' THEN reload[u]
                             ELSE IF u \in connected /\ u - 1 \in Over(0)' THEN counter'[u] + 1 ELSE counter'[u]
      BY <1>2, <2>3 DEF ValueAt
    <3>3. counter'[u] = IF u \in O THEN reload[u] ELSE IF u \in connected /\ u - 1 \in O THEN counter[u] + 1 ELSE counter[u]
      BY <1>2 DEF AfterOverflow, Ticked
    <3>4. u \in connected => (u \in Over(0) <=> u - 1 \in Over(0) /\ counter[u] + 1 = overflow_value)
      BY ChainOver
    <3>5. u \in O => u \in connected /\ u - 1 \in O
      <4>1. SUFFICES ASSUME u \in O PROVE u \in connected /\ u - 1 \in O
        OBVIOUS
      <4>2. u >= t /\ \A v \in (t + 1)..u : v \in connected /\ counter[v] + 1 = overflow_value
        BY <4>1 DEF Overflowing
      <4>3. u \in 0..Last /\ t \in 0..Last /\ Last \in Nat
        BY TimerAssumption
      <4>4. u \in (t + 1)..u /\ u - 1 \in Timers /\ u - 1 >= t /\ \A v \in (t + 1)..(u - 1) : v \in (t + 1)..u
        BY <3>1, <4>2, <4>3
      <4> QED
        BY <4>2, <4>4 DEF Overflowing
    <3>6. u \in connected /\ u - 1 \in O /\ counter[u] + 1 = overflow_value => u \in O
      <4>1. SUFFICES ASSUME u \in connected, u - 1 \in O, counter[u] + 1 = overflow_value PROVE u \in O
        OBVIOUS
      <4>2. u - 1 >= t /\ \A v \in (t + 1)..(u - 1) : v \in connected /\ counter[v] + 1 = overflow_value
        BY <4>1 DEF Overflowing
      <4>3. u \in 0..Last /\ t \in 0..Last /\ Last \in Nat
        BY TimerAssumption
      <4>4. u >= t /\ \A v \in (t + 1)..u : v = u \/ v \in (t + 1)..(u - 1)
        BY <4>2, <4>3
      <4> QED
        BY <4>1, <4>2, <4>4 DEF Overflowing
    <3> HIDE DEF O
    <3>7. /\ u \in Over(0)' <=> u \in Over(0) /\ u \notin O
          /\ u - 1 \in Over(0)' <=> u - 1 \in Over(0) /\ u - 1 \notin O
          /\ (u \in O => u \in Over(0)) /\ (u - 1 \in O => u - 1 \in Over(0))
      BY <1>12, <1>13, Zenon
    <3>8. CASE u \in O
      BY <3>2, <3>3, <3>5, <3>7, <3>8, Zenon
    <3>9. CASE u \notin O /\ u \in connected /\ u - 1 \in O
      <4>1. u \notin Over(0) /\ u \notin Over(0)' /\ u - 1 \notin Over(0)' /\ u - 1 \in Over(0)
        BY <3>4, <3>6, <3>7, <3>9, Zenon
      <4> QED
        BY <3>2, <3>3, <3>9, <4>1
    <3>10. CASE u \notin O /\ ~(u \in connected /\ u - 1 \in O)
      <4>1. counter'[u] = counter[u] /\ (u \in Over(0)' <=> u \in Over(0))
            /\ (u \in connected => (u - 1 \in Over(0)' <=> u - 1 \in Over(0)))
        BY <3>3, <3>7, <3>10, Zenon
      <4> QED
        BY <3>2, <4>1
    <3> QED
      BY <3>8, <3>9, <3>10
  <2> QED
    BY <2>1, <2>2, <2>3
<1>15. ASSUME NEW u \in scheduled PROVE Counts(u)'
  <2>1. CASE u # t
    <3>1. u \in scheduled \ {t} /\ u \in Timers
      BY <1>3, <2>1
    <3>2. Counts(u)
      BY <3>1 DEF CountInv
    <3>3. Elapsed(u, 0)' = Elapsed(u, 0)
      BY <1>10, <1>11, <3>1 DEF Elapsed
    <3> QED
      BY <1>2, <1>10, <1>11, <3>1, <3>2, <3>3 DEF Counts
  <2>2. CASE u = t
    <3>0. left[t] \in Int
      BY <1>3
    <3>1. Elapsed(t, 0)' = -left[t]
      <4>1. Elapsed(t, 0)' = s - left'[t] + 0
        BY <1>11 DEF Elapsed
      <4> HIDE DEF s
      <4> QED
        BY <1>6, <1>10, <3>0, <4>1
    <3>2. left'[t] > -MaxTick /\ wait'[t] = 0
      <4> HIDE DEF s
      <4> QED
        BY <1>2, <1>3, <1>6, <1>7, <1>9, <1>10, <3>0
    <3>3. (clock - (-left[t])) % Width = (clock + left[t]) % Width
      <4>1. clock - (-left[t]) = clock + left[t]
        BY <1>3, <3>0
      <4> QED
        BY <4>1, Zenon
    <3>4. Aligned(clock, left'[t], offset[t], P)
      <4>1. PICK i \in Int : i = overflow_value - r
        <5>1. r \in 0..(overflow_value - 1)
          BY <1>6
        <5> HIDE DEF r
        <5> QED
          BY <1>3, <5>1
      <4>2. s = P * i
        BY <4>1 DEF SpanOf
      <4>3. P \in Nat \ {0} /\ offset[t] \in Int /\ clock \in Int
        BY <1>3, <1>6, Sizes
      <4> HIDE DEF P, s
      <4>4. PICK x \in Int, y \in Int : x = clock + left[t] - offset[t] /\ y = clock + left'[t] - offset[t]
        BY <1>6, <1>10, <3>0, <4>3
      <4>5. y = x + P * i
        BY <1>6, <1>10, <3>0, <4>2, <4>3, <4>4
      <4>6. (x + P * i) % P = x % P
        BY <4>1, <4>3, <4>4, Congruent, Zenon
      <4>7. x % P = 0
        BY <1>7, <4>4, Zenon DEF Aligned
      <4> QED
        BY <4>4, <4>5, <4>6, <4>7, Zenon DEF Aligned
    <3>5. Elapsed(t, 0)' + wait'[t] >= 0 /\ ~(wait'[t] > 0)
      BY <1>2, <3>0, <3>1, <3>2
    <3>6. last_scheduled'[t] = (clock' - Elapsed(t, 0)') % Width
      BY <1>2, <1>10, <3>1, <3>3, Zenon
    <3>7. Aligned(clock', left'[t], offset'[t], TickOf(t)')
      BY <1>2, <1>11, <3>4, Zenon
    <3> QED
      BY <2>2, <3>2, <3>5, <3>6, <3>7, Zenon DEF Counts
  <2> QED
    BY <2>1, <2>2
<1>16. owed' = [u \in Timers |-> IF u \in Over(0)' THEN 1 ELSE 0]
  <2>1. \A u \in Timers : owed[u] = IF u \in Over(0) THEN 1 ELSE 0
    BY DEF CountInv
  <2> HIDE DEF O
  <2> QED
    BY <1>2, <1>12, <1>13, <2>1
<1>17. value' = [u \in Timers |-> ValueAt(u, 0)']
  <2>1. value' = [u \in Timers |-> ValueAt(u, 0)]
    BY <1>2 DEF CountInv
  <2> QED
    BY <1>14, <2>1
<1>18. \A u \in Timers : IF u \in scheduled' THEN Counts(u)' ELSE wait'[u] = 0
  BY <1>2, <1>15 DEF CountInv
<1> QED
  BY <1>1, <1>2, <1>16, <1>17, <1>18 DEF CountInv

(* The invariant holds in every reachable state of programs that select
   prescalers with whole masks. *)
THEOREM CountsInvariance == MasksWhole => (TimerSpec => []CountInv)
<1> SUFFICES ASSUME MasksWhole PROVE TimerSpec => []CountInv
  OBVIOUS
<1>1. CountInv /\ [TimerNext]_timervars => CountInv'
  BY ReloadCounts, ControlCounts, TickCounts, OverflowCounts, StutterCounts DEF TimerNext
<1> QED
  BY <1>1, InitCounts, PTL DEF TimerSpec

(* Whenever a program can read them, the counters are those of timers ticked
   cycle by cycle: late overflows, rewritten controls and chains of cascades
   make no timer drift, for any number of timers and any width of the clock,
   and for any prescalers whose masks are whole.  In the code, where a mask has
   eight bits, they are those of 1, 64 and 256 cycles. *)
THEOREM LikeHardware == MasksWhole => (TimerSpec => []CountsLikeHardware)
<1> SUFFICES ASSUME MasksWhole PROVE TimerSpec => []CountsLikeHardware
  OBVIOUS
<1>1. TimerSpec => []CountInv
  BY CountsInvariance
<1> QED
  BY <1>1, CountsExact, PTL

(* Every overflow happens, and none happens twice, each with its interrupt
   and its FIFO sample, for the same programs. *)
THEOREM AsOften == MasksWhole => (TimerSpec => []OverflowsAsOften)
<1> SUFFICES ASSUME MasksWhole PROVE TimerSpec => []OverflowsAsOften
  OBVIOUS
<1>1. TimerSpec => []CountInv
  BY CountsInvariance
<1> QED
  BY <1>1, OwesNothing, PTL
==============================================================================
