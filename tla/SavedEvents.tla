----------------------------- MODULE SavedEvents ----------------------------
(***************************************************************************)
(* The scheduler's events across save states, resets and launches.  The    *)
(* heap and the next handle are saved and loaded; the handle by which a    *)
(* client removes its own event is saved by a timer and by the interrupt   *)
(* signal, and not by a PSG channel.  The display keeps none.              *)
(*                                                                         *)
(* Time is left out: any scheduled event may be the next one.              *)
(***************************************************************************)
EXTENDS Naturals, FiniteSets

CONSTANT MaxHandle      \* the last handle given out

ASSUME SavedEventsAssumption == MaxHandle \in Nat

VARIABLES
    machine,    \* see Started
    file_       \* the archive in a slot, at first one of a machine just started

eventvars == <<machine, file_>>

Clients == {"psg", "ppu", "timer", "irq"}

add_hw_event(m, client) ==
    [m EXCEPT !.heap_ = @ \union {<<m.next_event_handle_ + 1, client>>},
              !.next_event_handle_ = @ + 1]

\* The client keeps the handle of the event it adds.
add_and_keep(m, client) ==
    LET added == add_hw_event(m, client) IN
    [added EXCEPT !.handle[client] = added.next_event_handle_]

remove_event(m, handle) == [m EXCEPT !.heap_ = {e \in @ : e[1] # handle}]

has_event(m, handle) == \E e \in m.heap_ : e[1] = handle

\* The constructors of the display and of the channel add their events.
Started ==
    add_hw_event(add_and_keep(
        [heap_ |-> {}, next_event_handle_ |-> 0, handle |-> [c \in Clients |-> 0],
         enabled |-> FALSE,             \* the timer counts
         irq_signal_ |-> FALSE, scheduled_irq_signal_ |-> FALSE,
         misfired |-> FALSE],           \* a ghost: a restart missed its channel's event
        "psg"), "ppu")

\* No archive has the channel's handle.
Archived(m) == [m EXCEPT !.handle["psg"] = 0]

EventsInit ==
    /\ machine = Started
    /\ file_ = Archived(Started)

----------------------------------------------------------------------------
\* Events are added only while handles are left.
Room == machine.next_event_handle_ < MaxHandle

generate_output_sample(m) == add_and_keep(m, "psg")
on_hblank(m) == add_hw_event(m, "ppu")
overflow(m) == add_and_keep(m, "timer")
update_irq_signal(m) == [m EXCEPT !.irq_signal_ = m.scheduled_irq_signal_]

add_cycles ==
    /\ Room
    /\ \E e \in machine.heap_ :
        LET rest == [machine EXCEPT !.heap_ = @ \ {e}] IN
        machine' = CASE e[2] = "psg" -> generate_output_sample(rest)
                     [] e[2] = "ppu" -> on_hblank(rest)
                     [] e[2] = "timer" -> overflow(rest)
                     [] e[2] = "irq" -> update_irq_signal(rest)
    /\ UNCHANGED file_

(* Mutant: the channel's event is not removed. *)
restart_without_remove ==
    /\ Room
    /\ machine' = add_and_keep(machine, "psg")
    /\ UNCHANGED file_

restart ==
    /\ Room
    /\ machine' = add_and_keep(remove_event(
            [machine EXCEPT !.misfired = @ \/ <<machine.handle["psg"], "psg">> \notin machine.heap_],
            machine.handle["psg"]), "psg")
    /\ UNCHANGED file_

timer_write(enabled) ==
    /\ Room
    /\ LET removed == IF has_event(machine, machine.handle["timer"])
                      THEN remove_event(machine, machine.handle["timer"]) ELSE machine
           set == [removed EXCEPT !.enabled = enabled] IN
       machine' = IF enabled THEN add_and_keep(set, "timer") ELSE set
    /\ UNCHANGED file_

schedule_update_irq_signal(signal) ==
    /\ Room
    /\ LET set == [machine EXCEPT !.scheduled_irq_signal_ = signal] IN
       machine' = IF signal # machine.irq_signal_
                  THEN add_and_keep(remove_event(set, machine.handle["irq"]), "irq") ELSE set
    /\ UNCHANGED file_
----------------------------------------------------------------------------
(* Mutant: handles go on from where the machine had come to. *)
Loaded_handles_kept(archive) ==
    [archive EXCEPT !.next_event_handle_ = machine.next_event_handle_,
                    !.handle["psg"] = machine.handle["psg"]]

\* What no archive has stays as it is in the machine.
Loaded(archive) == [archive EXCEPT !.handle["psg"] = machine.handle["psg"]]

save == /\ file_' = Archived(machine)
        /\ UNCHANGED machine

load == /\ machine' = Loaded(file_)
        /\ UNCHANGED file_

\* A reset loads the archive made when the machine was started.
reset_events == /\ machine' = Loaded(Archived(Started))
                /\ UNCHANGED file_

\* The program is started again: only the files last.
launch == /\ machine' = Started
          /\ UNCHANGED file_

EventsNext ==
    \/ add_cycles \/ restart
    \/ \E on \in BOOLEAN : timer_write(on) \/ schedule_update_irq_signal(on)
    \/ save \/ load \/ reset_events \/ launch

----------------------------------------------------------------------------
EventsOf(client) == {e \in machine.heap_ : e[2] = client}

\* No two events have one handle, none has a handle that is still to be given
\* out, and the handle a timer or the interrupt signal kept is never that of
\* another's event, through any loads, resets and launches (scheduler.h).
HandlesNameOwnEvents ==
    /\ \A e, f \in machine.heap_ : e[1] = f[1] => e = f
    /\ \A e \in machine.heap_ : e[1] <= machine.next_event_handle_
    /\ \A e \in machine.heap_, c \in {"timer", "irq"} : e[1] = machine.handle[c] => e[2] = c

\* Each client has the events it should have: the channel, the display and a
\* counting timer one, the interrupt signal one while it is to change.  Only the
\* restart of a PSG channel with the handle it had before a load breaks this.
EventsOnce ==
    machine.misfired \/
        /\ Cardinality(EventsOf("psg")) = 1
        /\ Cardinality(EventsOf("ppu")) = 1
        /\ Cardinality(EventsOf("timer")) = IF machine.enabled THEN 1 ELSE 0
        /\ Cardinality(EventsOf("irq")) <= 1
        /\ machine.scheduled_irq_signal_ # machine.irq_signal_ => EventsOf("irq") # {}
=============================================================================
