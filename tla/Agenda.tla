------------------------------- MODULE Agenda -------------------------------
(***************************************************************************)
(* What the hardware event scheduler promises to the components that use   *)
(* it: an agenda of future events on one time line.  An event fires at     *)
(* exactly the instant it was scheduled for, events fire in the order of   *)
(* their instants, a cancelled event never fires, and a handle names one   *)
(* event for ever.  The implementation (Scheduler) advances its clock in   *)
(* jumps of many cycles, notices events late and lets their callbacks      *)
(* change the agenda while it is being walked; it implements this module   *)
(* under a refinement mapping that subtracts the lateness.                 *)
(***************************************************************************)
EXTENDS Naturals

CONSTANT Time           \* the instants of the time line

VARIABLES
    pending,            \* the events that were scheduled, not fired, not cancelled
    clock,              \* the current instant
    issued              \* number of handles issued so far

avars == <<pending, clock, issued>>

AInit ==
    /\ pending = {}
    /\ clock = 0
    /\ issued = 0

(* A new event, at this instant or at a later one, under a new handle. *)
Schedule ==
    \E due \in Time :
        /\ due >= clock
        /\ issued' = issued + 1
        /\ pending' = pending \cup {[timestamp |-> due, h |-> issued']}
        /\ UNCHANGED clock

Cancel ==
    /\ \E e \in pending : pending' = pending \ {e}
    /\ UNCHANGED <<clock, issued>>

(* The earliest event fires, and it fires on time. *)
Fire ==
    \E e \in pending :
        /\ \A other \in pending : e.timestamp <= other.timestamp
        /\ e.timestamp >= clock
        /\ clock' = e.timestamp
        /\ pending' = pending \ {e}
        /\ UNCHANGED issued

(* Time passes, but never past an event that has yet to fire. *)
Advance ==
    \E t \in Time :
        /\ t >= clock
        /\ \A e \in pending : e.timestamp > t
        /\ clock' = t
        /\ UNCHANGED <<pending, issued>>

ANext == Schedule \/ Cancel \/ Fire \/ Advance

ASpec == AInit /\ [][ANext]_avars
=============================================================================
