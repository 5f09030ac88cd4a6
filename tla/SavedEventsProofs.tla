-------------------------- MODULE SavedEventsProofs --------------------------
(***************************************************************************)
(* The events of the scheduler through save states, resets and launches,   *)
(* for any number of handles: handles stay those of their own events, and  *)
(* none is lost or doubled.  What holds of the machine must hold of the    *)
(* archive too, for it may be the next machine.                            *)
(*                                                                         *)
(* Then the members of every component, for any game pak: a load restores  *)
(* what was saved.                                                         *)
(***************************************************************************)
EXTENDS SavedEvents, SaveState, FiniteSetTheorems, SequenceTheorems, TLAPS

(* The types of a machine. *)
Machines ==
    [heap_ : SUBSET (Nat \X Clients), next_event_handle_ : Nat, handle : [Clients -> Nat],
     enabled : BOOLEAN, irq_signal_ : BOOLEAN, scheduled_irq_signal_ : BOOLEAN, misfired : BOOLEAN]

(* Handles are given out in order and once, and the two that are saved with their
   owners are those of their own events, or of none. *)
Sound(m) ==
    /\ m \in Machines
    /\ \A e \in m.heap_ : e[1] # 0 /\ e[1] <= m.next_event_handle_
    /\ \A e, f \in m.heap_ : e[1] = f[1] => e = f
    /\ \A c \in {"timer", "irq"} :
        /\ m.handle[c] <= m.next_event_handle_
        /\ \A e \in m.heap_ : e[1] = m.handle[c] => e[2] = c

(* The client has one event. *)
One(m, client) ==
    \E e \in m.heap_ : e[2] = client /\ \A f \in m.heap_ : f[2] = client => f = e

(* While no restart has missed its event, every client has the events it should
   have and knows which they are. *)
Once(m) ==
    m.misfired \/
        /\ One(m, "psg") /\ One(m, "ppu")
        /\ m.enabled => \E e \in m.heap_ : e[2] = "timer"
        /\ \A e \in m.heap_ : e[2] = "timer" => m.enabled /\ e[1] = m.handle["timer"]
        /\ \A e \in m.heap_ : e[2] = "irq" => e[1] = m.handle["irq"]
        /\ m.scheduled_irq_signal_ # m.irq_signal_ => \E e \in m.heap_ : e[2] = "irq"

(* What an event is. *)
LEMMA Events == ASSUME NEW m \in Machines, NEW e \in m.heap_
                PROVE  e[1] \in Nat /\ e[2] \in Clients /\ e = <<e[1], e[2]>>
  BY DEF Machines

(* The events of the other clients. *)
Others(m, client) == {e \in m.heap_ : e[2] # client}

(* What the events are for. *)
SameFlags(m, n) ==
    /\ n.enabled = m.enabled /\ n.misfired = m.misfired
    /\ n.irq_signal_ = m.irq_signal_ /\ n.scheduled_irq_signal_ = m.scheduled_irq_signal_

(* n is m with an event added for the client, and its handle kept by those that keep it. *)
Adds(m, n, client) ==
    /\ n \in Machines /\ SameFlags(m, n)
    /\ \E new : /\ n.heap_ = m.heap_ \union {new} /\ new[2] = client
                /\ new[1] = m.next_event_handle_ + 1
                /\ client \in {"timer", "irq"} => n.handle[client] = new[1]
    /\ \A d \in {"timer", "irq"} \ {client} : n.handle[d] = m.handle[d]
    /\ n.next_event_handle_ = m.next_event_handle_ + 1

(* Adding an event adds that event, *)
LEMMA AddEffect ==
    ASSUME NEW m \in Machines, NEW client \in Clients
    PROVE  /\ add_hw_event(m, client) \in Machines
           /\ add_hw_event(m, client).heap_ = m.heap_ \union {<<m.next_event_handle_ + 1, client>>}
           /\ SameFlags(m, add_hw_event(m, client))
           /\ add_hw_event(m, client).handle = m.handle
           /\ add_hw_event(m, client).next_event_handle_ = m.next_event_handle_ + 1
  <1>. DEFINE heap == m.heap_ \union {<<m.next_event_handle_ + 1, client>>}
              next == m.next_event_handle_ + 1
              a == add_hw_event(m, client)
  <1>1. m.heap_ \in SUBSET (Nat \X Clients) /\ m.next_event_handle_ \in Nat
    BY DEF Machines
  <1>2. heap \in SUBSET (Nat \X Clients) /\ next \in Nat
    BY <1>1 DEF Clients
  <1>3. a = [m EXCEPT !.heap_ = heap, !.next_event_handle_ = next]
    BY DEF add_hw_event
  <1>. HIDE DEF a, heap, next
  <1>4. a \in Machines /\ a.heap_ = heap /\ SameFlags(m, a) /\ a.handle = m.handle
        /\ a.next_event_handle_ = next
    BY <1>2, <1>3 DEF Machines, SameFlags
  <1>. QED  BY <1>4 DEF a, heap, next

(* for a client that keeps no handle, or loses it, *)
LEMMA AddAdds ==
    ASSUME NEW m \in Machines, NEW client \in {"psg", "ppu"}
    PROVE  Adds(m, add_hw_event(m, client), client)
  <1>. DEFINE new == <<m.next_event_handle_ + 1, client>>
  <1>1. new[1] = m.next_event_handle_ + 1 /\ new[2] = client
    OBVIOUS
  <1>2. client \in Clients
    BY DEF Clients
  <1>3. add_hw_event(m, client).heap_ = m.heap_ \union {new}
    BY <1>2, AddEffect
  <1>. HIDE DEF new
  <1>. QED  BY <1>1, <1>2, <1>3, AddEffect DEF Adds

(* and for one that keeps it. *)
LEMMA KeepAdds ==
    ASSUME NEW m \in Machines, NEW client \in Clients
    PROVE  Adds(m, add_and_keep(m, client), client)
  <1>. DEFINE new == <<m.next_event_handle_ + 1, client>>
              a == add_hw_event(m, client)
              k == add_and_keep(m, client)
  <1>1. /\ a \in Machines /\ a.heap_ = m.heap_ \union {new}
        /\ SameFlags(m, a)
        /\ a.handle = m.handle /\ a.next_event_handle_ = m.next_event_handle_ + 1
    BY AddEffect
  <1>2. k = [a EXCEPT !.handle[client] = a.next_event_handle_]
    BY DEF add_and_keep
  <1>3. new[1] = m.next_event_handle_ + 1 /\ new[2] = client
    OBVIOUS
  <1>. HIDE DEF a, k, new
  <1>4. /\ k \in Machines /\ k.heap_ = a.heap_ /\ SameFlags(a, k)
        /\ k.handle = [a.handle EXCEPT ![client] = a.next_event_handle_]
        /\ k.next_event_handle_ = a.next_event_handle_
    BY <1>1, <1>2 DEF Machines, SameFlags
  <1>5. client \in {"timer", "irq"} => k.handle[client] = new[1]
    BY <1>1, <1>3, <1>4 DEF Machines
  <1>6. \A d \in {"timer", "irq"} \ {client} : k.handle[d] = m.handle[d]
    BY <1>1, <1>4 DEF Machines, Clients
  <1>7. Adds(m, k, client)
    BY <1>1, <1>3, <1>4, <1>5, <1>6 DEF Adds, SameFlags
  <1>. QED  BY <1>7 DEF k

(* The parts of a sound machine that arithmetic needs. *)
LEMMA SoundParts ==
    ASSUME NEW m, Sound(m)
    PROVE  /\ m \in Machines
           /\ \A e \in m.heap_ : e[1] \in Nat /\ e[1] # 0 /\ e[1] <= m.next_event_handle_
           /\ m.next_event_handle_ \in Nat /\ m.handle \in [Clients -> Nat]
  BY Events DEF Sound, Machines

(* A new event has a new handle. *)
LEMMA AddSound ==
    ASSUME NEW m, Sound(m), NEW client \in Clients, NEW n, Adds(m, n, client)
    PROVE  Sound(n)
  <1>1. PICK new : /\ n.heap_ = m.heap_ \union {new} /\ new[2] = client
                   /\ new[1] = m.next_event_handle_ + 1
                   /\ client \in {"timer", "irq"} => n.handle[client] = new[1]
    BY DEF Adds
  <1>2. /\ n \in Machines
        /\ \A d \in {"timer", "irq"} \ {client} : n.handle[d] = m.handle[d]
        /\ n.next_event_handle_ = m.next_event_handle_ + 1
    BY DEF Adds
  <1>3. /\ \A e \in n.heap_ : e[1] # 0 /\ e[1] <= n.next_event_handle_
        /\ \A e, f \in n.heap_ : e[1] = f[1] => e = f
    BY <1>1, <1>2, SoundParts DEF Sound
  <1>4. ASSUME NEW c \in {"timer", "irq"}
        PROVE  /\ n.handle[c] <= n.next_event_handle_
               /\ \A e \in n.heap_ : e[1] = n.handle[c] => e[2] = c
    <2>1. CASE c = client
      BY <2>1, <1>1, <1>2, SoundParts
    <2>2. CASE c # client
      <3>1. n.handle[c] = m.handle[c] /\ m.handle[c] \in Nat /\ m.handle[c] <= m.next_event_handle_
        BY <2>2, <1>2, SoundParts DEF Sound, Clients
      <3>. QED  BY <3>1, <2>2, <1>1, <1>2, SoundParts DEF Sound
    <2>. QED  BY <2>1, <2>2
  <1>. QED  BY <1>2, <1>3, <1>4 DEF Sound

(* Taking events away disturbs no handle. *)
LEMMA FewerSound ==
    ASSUME NEW m, Sound(m), NEW n \in Machines, n.heap_ \subseteq m.heap_,
           n.next_event_handle_ = m.next_event_handle_,
           n.handle["timer"] = m.handle["timer"], n.handle["irq"] = m.handle["irq"]
    PROVE  Sound(n)
  BY DEF Sound

(* Both hold of the machine and of the archive. *)
Good(m) == Sound(m) /\ Once(m)

(* n is m, except that the client has no event, or is one that misfired. *)
Clears(m, n, client) ==
    /\ n \in Machines
    /\ n.heap_ \subseteq m.heap_
    /\ n.next_event_handle_ = m.next_event_handle_
    /\ n.handle = m.handle
    /\ client # "timer" => n.enabled = m.enabled
    /\ client # "irq" => n.irq_signal_ = m.irq_signal_ /\ n.scheduled_irq_signal_ = m.scheduled_irq_signal_
    /\ n.misfired \/ (~m.misfired /\ n.heap_ = Others(m, client))

(* A client has no event any more, and should have none. *)
LEMMA Cleared ==
    ASSUME NEW m, Good(m), NEW n, NEW client \in {"timer", "irq"}, Clears(m, n, client),
           client = "timer" /\ ~n.misfired => ~n.enabled,
           client = "irq" => n.irq_signal_ = n.scheduled_irq_signal_
    PROVE  Good(n)
  <1>1. Sound(n)
    BY FewerSound DEF Good, Clears
  <1>2. Once(n)
    <2>1. CASE n.misfired
      BY <2>1 DEF Once
    <2>2. CASE ~n.misfired
      <3>1. Once(m) /\ ~m.misfired /\ n.heap_ = Others(m, client)
        BY <2>2 DEF Good, Clears
      <3>2. One(n, "psg") /\ One(n, "ppu")
        BY <3>1 DEF Once, One, Others
      <3>. QED  BY <3>1, <3>2 DEF Clears, Once, Others
    <2>. QED  BY <2>1, <2>2
  <1>. QED  BY <1>1, <1>2 DEF Good

(* A client loses the event it has and gets another. *)
LEMMA Renewed ==
    ASSUME NEW m, Good(m), NEW n, NEW client \in Clients, Clears(m, n, client),
           client = "timer" /\ ~n.misfired => n.enabled,
           NEW k, Adds(n, k, client)
    PROVE  Good(k)
  <1>1. Sound(n)
    BY FewerSound DEF Good, Clears
  <1>2. Sound(k)
    BY <1>1, AddSound
  <1>3. PICK new : /\ k.heap_ = n.heap_ \union {new} /\ new[2] = client
                   /\ client \in {"timer", "irq"} => k.handle[client] = new[1]
    BY DEF Adds
  <1>4. /\ SameFlags(n, k)
        /\ \A d \in {"timer", "irq"} \ {client} : k.handle[d] = n.handle[d]
    BY DEF Adds
  <1>5. Once(k)
    <2>1. CASE k.misfired
      BY <2>1 DEF Once
    <2>2. CASE ~k.misfired
      <3>1. Once(m) /\ ~m.misfired /\ n.heap_ = Others(m, client)
        BY <2>2, <1>4 DEF Good, Clears, SameFlags
      <3>2. One(k, "psg") /\ One(k, "ppu")
        BY <3>1, <1>3 DEF Once, One, Others
      <3>3. /\ k.enabled => \E e \in k.heap_ : e[2] = "timer"
            /\ \A e \in k.heap_ : e[2] = "timer" => k.enabled /\ e[1] = k.handle["timer"]
        <4>1. CASE client = "timer"
          BY <4>1, <2>2, <3>1, <1>3, <1>4 DEF Others, SameFlags
        <4>2. CASE client # "timer"
          <5>1. k.enabled = m.enabled /\ k.handle["timer"] = m.handle["timer"]
            BY <4>2, <1>4 DEF SameFlags, Clears
          <5>. QED  BY <5>1, <4>2, <3>1, <1>3 DEF Once, Others
        <4>. QED  BY <4>1, <4>2
      <3>4. /\ \A e \in k.heap_ : e[2] = "irq" => e[1] = k.handle["irq"]
            /\ k.scheduled_irq_signal_ # k.irq_signal_ => \E e \in k.heap_ : e[2] = "irq"
        BY <3>1, <1>3, <1>4 DEF Once, Others, SameFlags, Clears
      <3>. QED  BY <3>2, <3>3, <3>4 DEF Once
    <2>. QED  BY <2>1, <2>2
  <1>. QED  BY <1>2, <1>5 DEF Good

(* The handle of a channel, which is not saved, matters to nothing of this. *)
LEMMA OtherHandle ==
    ASSUME NEW m, Good(m), NEW h \in Nat
    PROVE  Good([m EXCEPT !.handle["psg"] = h])
  <1>. DEFINE n == [m EXCEPT !.handle["psg"] = h]
  <1>1. m \in Machines
    BY DEF Good, Sound
  <1>2. /\ n \in Machines /\ n.heap_ = m.heap_ /\ SameFlags(m, n)
        /\ n.next_event_handle_ = m.next_event_handle_
        /\ n.handle["timer"] = m.handle["timer"] /\ n.handle["irq"] = m.handle["irq"]
    BY <1>1 DEF Machines, Clients, SameFlags
  <1>. HIDE DEF n
  <1>3. Sound(n)
    BY <1>2, FewerSound DEF Good
  <1>4. Once(n)
    BY <1>2 DEF Good, Once, One, SameFlags
  <1>. QED  BY <1>3, <1>4 DEF Good, n

(* A machine that was just started is good. *)
LEMMA StartedGood == Good(Started)
  <1>. DEFINE bare == [heap_ |-> {}, next_event_handle_ |-> 0, handle |-> [c \in Clients |-> 0],
                       enabled |-> FALSE, irq_signal_ |-> FALSE, scheduled_irq_signal_ |-> FALSE,
                       misfired |-> FALSE]
              psg == add_and_keep(bare, "psg")
  <1>1. bare \in Machines
    BY DEF Machines
  <1>2. Sound(bare)
    BY <1>1 DEF Sound, Clients
  <1>3. Started = add_hw_event(psg, "ppu")
    BY DEF Started
  <1>4. ~bare.enabled /\ bare.irq_signal_ = bare.scheduled_irq_signal_ /\ bare.heap_ = {}
    OBVIOUS
  <1>. HIDE DEF bare
  <1>5. Adds(bare, psg, "psg")
    BY <1>1, KeepAdds DEF Clients
  <1>. HIDE DEF psg
  <1>6. Sound(psg) /\ psg \in Machines
    BY <1>2, <1>5, AddSound DEF Sound, Clients
  <1>7. Adds(psg, Started, "ppu")
    BY <1>3, <1>6, AddAdds
  <1>8. Sound(Started)
    BY <1>6, <1>7, AddSound DEF Clients
  <1>9. \E e, f : Started.heap_ = {e, f} /\ e[2] = "psg" /\ f[2] = "ppu"
    BY <1>4, <1>5, <1>7 DEF Adds
  <1>10. One(Started, "psg") /\ One(Started, "ppu")
    BY <1>9 DEF One
  <1>11. ~Started.enabled /\ Started.irq_signal_ = Started.scheduled_irq_signal_
    BY <1>4, <1>5, <1>7 DEF Adds, SameFlags
  <1>12. Once(Started)
    BY <1>9, <1>10, <1>11 DEF Once
  <1>. QED  BY <1>8, <1>12 DEF Good

(* With no misfire, a client's one event is found by what the removal goes by. *)
LEMMA RemovedIsOthers ==
    ASSUME NEW m, Good(m), ~m.misfired, NEW e \in m.heap_
    PROVE  m.heap_ \ {e} = Others(m, e[2])
  <1>1. Sound(m) /\ Once(m) /\ m \in Machines
    BY DEF Good, Sound
  <1>2. e[2] \in Clients
    BY <1>1, Events
  <1>3. \A f \in m.heap_ : f[2] = e[2] => f = e
    BY <1>1, <1>2 DEF Once, One, Sound, Clients
  <1>. QED  BY <1>3 DEF Others

(* So is what remove_event leaves when it is given the handle that was kept. *)
LEMMA HandleIsOthers ==
    ASSUME NEW m, Good(m), ~m.misfired, NEW client \in {"timer", "irq"}
    PROVE  {e \in m.heap_ : e[1] # m.handle[client]} = Others(m, client)
  BY DEF Good, Sound, Once, Others

(* The archive in the slot is as good as the machine: it may come back. *)
Inv == Good(machine) /\ Good(file_)

(* Any event fires, and its callback runs. *)
LEMMA AddCyclesGood == ASSUME Good(machine), add_cycles PROVE Good(machine')
  <1>1. PICK e \in machine.heap_ :
            LET rest == [machine EXCEPT !.heap_ = @ \ {e}] IN
            machine' = CASE e[2] = "psg" -> generate_output_sample(rest)
                         [] e[2] = "ppu" -> on_hblank(rest)
                         [] e[2] = "timer" -> overflow(rest)
                         [] e[2] = "irq" -> update_irq_signal(rest)
    BY DEF add_cycles
  <1>. DEFINE rest == [machine EXCEPT !.heap_ = @ \ {e}]
  <1>2. machine \in Machines /\ Sound(machine) /\ Once(machine)
    BY DEF Good, Sound
  <1>3. e[2] \in Clients
    BY <1>2, Events
  <1>4. ~machine.misfired => machine.heap_ \ {e} = Others(machine, e[2])
    BY RemovedIsOthers
  <1>5. /\ rest \in Machines /\ SameFlags(machine, rest) /\ rest.heap_ = machine.heap_ \ {e}
        /\ rest.handle = machine.handle /\ rest.next_event_handle_ = machine.next_event_handle_
    BY <1>2 DEF Machines, SameFlags
  <1>6. /\ e[2] = "psg" => machine' = add_and_keep(rest, "psg")
        /\ e[2] = "ppu" => machine' = add_hw_event(rest, "ppu")
        /\ e[2] = "timer" => machine' = add_and_keep(rest, "timer")
        /\ e[2] = "irq" => machine' = [rest EXCEPT !.irq_signal_ = rest.scheduled_irq_signal_]
    BY <1>1 DEF generate_output_sample, on_hblank, overflow, update_irq_signal
  <1>. HIDE DEF rest
  <1>7. Clears(machine, rest, e[2])
    BY <1>4, <1>5 DEF Clears, SameFlags, Machines
  <1>8. e[2] = "timer" /\ ~rest.misfired => rest.enabled
    BY <1>2, <1>5 DEF Once, SameFlags
  <1>9. CASE e[2] \in {"psg", "ppu", "timer"}
    <2>1. Adds(rest, machine', e[2])
      BY <1>9, <1>5, <1>6, AddAdds, KeepAdds DEF Clients
    <2>. QED  BY <2>1, <1>3, <1>7, <1>8, Renewed
  <1>10. CASE e[2] = "irq"
    <2>1. Clears(machine, machine', "irq") /\ machine'.irq_signal_ = machine'.scheduled_irq_signal_
      BY <1>10, <1>5, <1>6, <1>7 DEF Clears, Machines
    <2>. QED  BY <2>1, Cleared
  <1>. QED  BY <1>3, <1>9, <1>10 DEF Clients

(* A channel is restarted, with a handle that may be from before a load. *)
LEMMA RestartGood == ASSUME Good(machine), restart PROVE Good(machine')
  <1>. DEFINE h == machine.handle["psg"]
              heap == {e \in machine.heap_ : e[1] # h}
              missed == machine.misfired \/ <<h, "psg">> \notin machine.heap_
              n == [machine EXCEPT !.misfired = missed, !.heap_ = heap]
  <1>1. machine \in Machines /\ Sound(machine) /\ Once(machine)
    BY DEF Good, Sound
  <1>2. heap \in SUBSET (Nat \X Clients) /\ heap \subseteq machine.heap_ /\ missed \in BOOLEAN
    BY <1>1 DEF Machines
  <1>3. machine' = add_and_keep(n, "psg")
    BY <1>1 DEF restart, remove_event, Machines
  <1>4. ~missed => heap = Others(machine, "psg")
    <2>. SUFFICES ASSUME ~missed PROVE heap = Others(machine, "psg")
      OBVIOUS
    <2>1. PICK e \in machine.heap_ : e[1] = h /\ e[2] = "psg"
      OBVIOUS
    <2>2. \A f \in machine.heap_ : f[2] = "psg" <=> f[1] = h
      BY <2>1, <1>1 DEF Once, One, Sound
    <2>. QED  BY <2>2 DEF Others
  <1>. HIDE DEF heap, missed
  <1>5. /\ n \in Machines /\ n.heap_ = heap /\ n.misfired = missed
        /\ n.enabled = machine.enabled /\ n.handle = machine.handle
        /\ n.irq_signal_ = machine.irq_signal_
        /\ n.scheduled_irq_signal_ = machine.scheduled_irq_signal_
        /\ n.next_event_handle_ = machine.next_event_handle_
    BY <1>1, <1>2 DEF Machines
  <1>. HIDE DEF n
  <1>6. Clears(machine, n, "psg")
    BY <1>2, <1>4, <1>5 DEF Clears, missed
  <1>7. Adds(n, machine', "psg")
    BY <1>3, <1>5, KeepAdds DEF Clients
  <1>. QED  BY <1>6, <1>7, Renewed DEF Clients

(* The control register of the timer is written. *)
LEMMA TimerGood ==
    ASSUME Good(machine), NEW on \in BOOLEAN, timer_write(on) PROVE Good(machine')
  <1>. DEFINE heap == {e \in machine.heap_ : e[1] # machine.handle["timer"]}
              n == [machine EXCEPT !.heap_ = heap, !.enabled = on]
  <1>1. machine \in Machines
    BY DEF Good, Sound
  <1>2. heap \in SUBSET (Nat \X Clients) /\ heap \subseteq machine.heap_
    BY <1>1 DEF Machines
  <1>3. ~machine.misfired => heap = Others(machine, "timer")
    BY HandleIsOthers
  <1>4. machine' = IF on THEN add_and_keep(n, "timer") ELSE n
    <2>1. ~has_event(machine, machine.handle["timer"]) => heap = machine.heap_
      BY DEF has_event
    <2>2. n = [(IF has_event(machine, machine.handle["timer"])
                THEN remove_event(machine, machine.handle["timer"]) ELSE machine) EXCEPT !.enabled = on]
      BY <2>1, <1>1 DEF remove_event, Machines
    <2>. QED  BY <2>2 DEF timer_write
  <1>. HIDE DEF heap
  <1>5. /\ n \in Machines /\ n.heap_ = heap /\ n.misfired = machine.misfired
        /\ n.enabled = on /\ n.handle = machine.handle
        /\ n.irq_signal_ = machine.irq_signal_
        /\ n.scheduled_irq_signal_ = machine.scheduled_irq_signal_
        /\ n.next_event_handle_ = machine.next_event_handle_
    BY <1>1, <1>2 DEF Machines
  <1>. HIDE DEF n
  <1>6. Clears(machine, n, "timer")
    BY <1>1, <1>2, <1>3, <1>5 DEF Clears, Machines
  <1>7. CASE on
    <2>1. Adds(n, machine', "timer")
      BY <1>4, <1>5, <1>7, KeepAdds DEF Clients
    <2>. QED  BY <2>1, <1>5, <1>6, <1>7, Renewed DEF Clients
  <1>8. CASE ~on
    BY <1>4, <1>5, <1>6, <1>8, Cleared
  <1>. QED  BY <1>7, <1>8

(* The interrupt signal is to change, or not to change after all. *)
LEMMA SignalGood ==
    ASSUME Good(machine), NEW signal \in BOOLEAN, schedule_update_irq_signal(signal)
    PROVE  Good(machine')
  <1>. DEFINE heap == {e \in machine.heap_ : e[1] # machine.handle["irq"]}
              n == [machine EXCEPT !.scheduled_irq_signal_ = signal, !.heap_ = heap]
  <1>1. machine \in Machines
    BY DEF Good, Sound
  <1>2. CASE signal = machine.irq_signal_
    <2>. DEFINE s == [machine EXCEPT !.scheduled_irq_signal_ = signal]
    <2>1. machine' = s
      BY <1>2 DEF schedule_update_irq_signal
    <2>2. /\ s \in Machines /\ s.heap_ = machine.heap_ /\ s.misfired = machine.misfired
          /\ s.enabled = machine.enabled /\ s.handle = machine.handle
          /\ s.irq_signal_ = s.scheduled_irq_signal_
          /\ s.next_event_handle_ = machine.next_event_handle_
      BY <1>1, <1>2 DEF Machines
    <2>. HIDE DEF s
    <2>3. Sound(s)
      BY <2>2, FewerSound DEF Good
    <2>4. Once(s)
      BY <2>2 DEF Good, Once, One
    <2>. QED  BY <2>1, <2>3, <2>4 DEF Good
  <1>3. CASE signal # machine.irq_signal_
    <2>1. heap \in SUBSET (Nat \X Clients) /\ heap \subseteq machine.heap_
      BY <1>1 DEF Machines
    <2>2. ~machine.misfired => heap = Others(machine, "irq")
      BY HandleIsOthers
    <2>3. machine' = add_and_keep(n, "irq")
      BY <1>1, <1>3 DEF schedule_update_irq_signal, remove_event, Machines
    <2>. HIDE DEF heap
    <2>4. /\ n \in Machines /\ n.heap_ = heap /\ n.misfired = machine.misfired
          /\ n.enabled = machine.enabled /\ n.handle = machine.handle
          /\ n.next_event_handle_ = machine.next_event_handle_
      BY <1>1, <2>1 DEF Machines
    <2>. HIDE DEF n
    <2>5. Clears(machine, n, "irq")
      BY <1>1, <2>1, <2>2, <2>4 DEF Clears, Machines
    <2>6. Adds(n, machine', "irq")
      BY <2>3, <2>4, KeepAdds DEF Clients
    <2>. QED  BY <2>5, <2>6, Renewed DEF Clients
  <1>. QED  BY <1>2, <1>3

(* What is saved is good, *)
LEMMA ArchivedGood == ASSUME NEW m, Good(m) PROVE Good(Archived(m))
  BY OtherHandle DEF Archived

(* and what is loaded. *)
LEMMA LoadedGood == ASSUME NEW m, Good(m), Good(machine) PROVE Good(Loaded(m))
  <1>1. machine.handle["psg"] \in Nat
    BY DEF Good, Sound, Machines, Clients
  <1>. QED  BY <1>1, OtherHandle DEF Loaded

(* It starts with both. *)
LEMMA InitInv == EventsInit => Inv
  BY StartedGood, ArchivedGood DEF EventsInit, Inv

(* Every step keeps both. *)
LEMMA NextInv == Inv /\ [EventsNext]_eventvars => Inv'
  <1>. SUFFICES ASSUME Inv, [EventsNext]_eventvars PROVE Good(machine') /\ Good(file_')
    BY DEF Inv
  <1>. USE DEF Inv
  <1>1. CASE add_cycles
    BY <1>1, AddCyclesGood DEF add_cycles
  <1>2. CASE restart
    BY <1>2, RestartGood DEF restart
  <1>3. CASE \E on \in BOOLEAN : timer_write(on)
    BY <1>3, TimerGood DEF timer_write
  <1>4. CASE \E on \in BOOLEAN : schedule_update_irq_signal(on)
    BY <1>4, SignalGood DEF schedule_update_irq_signal
  <1>5. CASE save
    BY <1>5, ArchivedGood DEF save
  <1>6. CASE load
    BY <1>6, LoadedGood DEF load
  <1>7. CASE reset_events
    BY <1>7, LoadedGood, ArchivedGood, StartedGood DEF reset_events
  <1>8. CASE launch
    BY <1>8, StartedGood DEF launch
  <1>9. CASE UNCHANGED eventvars
    BY <1>9 DEF eventvars
  <1>. QED  BY <1>1, <1>2, <1>3, <1>4, <1>5, <1>6, <1>7, <1>8, <1>9 DEF EventsNext

(* Through any saves, loads, resets and launches no two events have one handle,
   and the handle that a timer or the interrupt signal kept is never that of
   the event of another. *)
THEOREM HandlesSafe == EventsInit /\ [][EventsNext]_eventvars => []HandlesNameOwnEvents
  <1>1. Inv => HandlesNameOwnEvents
    BY DEF Inv, Good, Sound, HandlesNameOwnEvents
  <1>. QED  BY <1>1, InitInv, NextInv, PTL

(* Through all of them every client has exactly the events it should have, unless
   a channel was restarted with a handle that a load has made stale. *)
THEOREM NoEventLost == EventsInit /\ [][EventsNext]_eventvars => []EventsOnce
  <1>1. Inv => EventsOnce
    <2>. SUFFICES ASSUME Inv, ~machine.misfired
                  PROVE  /\ Cardinality(EventsOf("psg")) = 1
                         /\ Cardinality(EventsOf("ppu")) = 1
                         /\ Cardinality(EventsOf("timer")) = IF machine.enabled THEN 1 ELSE 0
                         /\ Cardinality(EventsOf("irq")) <= 1
                         /\ machine.scheduled_irq_signal_ # machine.irq_signal_ => EventsOf("irq") # {}
      BY DEF EventsOnce
    <2>1. Once(machine) /\ Sound(machine)
      BY DEF Inv, Good
    <2>2. \A client : One(machine, client) => \E e : EventsOf(client) = {e}
      BY DEF One, EventsOf
    <2>3. /\ One(machine, "psg") /\ One(machine, "ppu")
          /\ machine.enabled => One(machine, "timer")
          /\ EventsOf("irq") # {} => One(machine, "irq")
      BY <2>1 DEF Once, Sound, One, EventsOf
    <2>4. /\ ~machine.enabled => EventsOf("timer") = {}
          /\ machine.scheduled_irq_signal_ # machine.irq_signal_ => EventsOf("irq") # {}
      BY <2>1 DEF Once, EventsOf
    <2>5. Cardinality({}) = 0 /\ \A e : Cardinality({e}) = 1
      BY FS_EmptySet, FS_Singleton
    <2>6. \A client : One(machine, client) => Cardinality(EventsOf(client)) = 1
      BY <2>2, <2>5
    <2>7. /\ Cardinality(EventsOf("timer")) = IF machine.enabled THEN 1 ELSE 0
          /\ Cardinality(EventsOf("irq")) <= 1
      BY <2>3, <2>4, <2>5, <2>6
    <2>. QED  BY <2>3, <2>4, <2>6, <2>7
  <1>. QED  BY <1>1, InitInv, NextInv, PTL

----------------------------------------------------------------------------
(* Rows of items, put together. *)
(* A row of items, in which only the display's register has the name of DISPSTAT's
   lower byte. *)
Proper(row) ==
    /\ row \in Seq({row[i] : i \in DOMAIN row})
    /\ \A i \in DOMAIN row : row[i][2] = "dispstat_.lower" => row[i][1] = "ppu"

(* A row that has an item. *)
Has(row, item) == \E i \in DOMAIN row : row[i] = item

(* A row as others know it. *)
LEMMA OfItself == ASSUME NEW S, NEW s \in Seq(S)
                  PROVE  s \in Seq({s[i] : i \in DOMAIN s})
  <1>1. s = [i \in 1..Len(s) |-> s[i]] /\ DOMAIN s = 1..Len(s) /\ Len(s) \in Nat
    BY LenProperties
  <1> DEFINE R == {s[i] : i \in DOMAIN s}
  <1>2. \A i \in 1..Len(s) : s[i] \in R
    BY <1>1
  <1>3. s \in [1..Len(s) -> R]
    BY <1>1, <1>2
  <1> HIDE DEF R
  <1>4. s \in Seq(R)
    BY <1>1, <1>3, SeqDef
  <1> QED  BY <1>4 DEF R

(* What the concatenation of two rows holds. *)
LEMMA Concatenated == ASSUME NEW s, Proper(s), NEW t, Proper(t)
                      PROVE  /\ s \o t \in Seq({(s \o t)[i] : i \in DOMAIN (s \o t)})
                             /\ DOMAIN s = 1..Len(s) /\ Len(s) \in Nat
                             /\ DOMAIN t = 1..Len(t) /\ Len(t) \in Nat
                             /\ DOMAIN (s \o t) = 1..(Len(s) + Len(t))
                             /\ \A i \in 1..(Len(s) + Len(t)) :
                                   (s \o t)[i] = IF i <= Len(s) THEN s[i] ELSE t[i - Len(s)]
  <1> DEFINE A == {s[i] : i \in DOMAIN s}
             B == {t[i] : i \in DOMAIN t}
             S == A \union B
  <1>1. s \in Seq(A) /\ t \in Seq(B)
    BY DEF Proper
  <1> HIDE DEF A, B
  <1>2. s \in Seq(S) /\ t \in Seq(S)
    BY <1>1, SeqMonotonic
  <1> HIDE DEF S
  <1>3. s \o t \in Seq(S) /\ Len(s \o t) = Len(s) + Len(t)
    BY <1>2, ConcatProperties
  <1>4. \A i \in 1..(Len(s) + Len(t)) : (s \o t)[i] = IF i <= Len(s) THEN s[i] ELSE t[i - Len(s)]
    BY <1>2, ConcatProperties
  <1>5. DOMAIN (s \o t) = 1..(Len(s) + Len(t))
    BY <1>3, LenProperties
  <1>6. DOMAIN s = 1..Len(s) /\ Len(s) \in Nat /\ DOMAIN t = 1..Len(t) /\ Len(t) \in Nat
    BY <1>2, LenProperties
  <1>7. s \o t \in Seq({(s \o t)[i] : i \in DOMAIN (s \o t)})
    BY <1>3, OfItself
  <1> QED  BY <1>4, <1>5, <1>6, <1>7

(* Two proper rows are one, which has the items of both. *)
LEMMA Joined == ASSUME NEW s, Proper(s), NEW t, Proper(t)
                PROVE  /\ Proper(s \o t)
                       /\ \A item : Has(s, item) \/ Has(t, item) => Has(s \o t, item)
  <1> DEFINE st == s \o t
  <1>1. /\ st \in Seq({st[i] : i \in DOMAIN st})
        /\ DOMAIN s = 1..Len(s) /\ Len(s) \in Nat
        /\ DOMAIN t = 1..Len(t) /\ Len(t) \in Nat
        /\ DOMAIN st = 1..(Len(s) + Len(t))
        /\ \A i \in 1..(Len(s) + Len(t)) : st[i] = IF i <= Len(s) THEN s[i] ELSE t[i - Len(s)]
    BY Concatenated
  <1> HIDE DEF st
  <1>2. ASSUME NEW i \in DOMAIN st, st[i][2] = "dispstat_.lower" PROVE st[i][1] = "ppu"
    <2>1. CASE i <= Len(s)
      <3>1. i \in DOMAIN s /\ st[i] = s[i]
        BY <1>1, <2>1
      <3> QED  BY <1>2, <3>1 DEF Proper
    <2>2. CASE ~(i <= Len(s))
      <3>1. i - Len(s) \in DOMAIN t /\ st[i] = t[i - Len(s)]
        BY <1>1, <2>2
      <3> QED  BY <1>2, <3>1 DEF Proper
    <2> QED  BY <2>1, <2>2
  <1>3. ASSUME NEW item, Has(s, item) PROVE Has(st, item)
    <2>1. PICK i \in DOMAIN s : s[i] = item
      BY <1>3 DEF Has
    <2>2. i \in DOMAIN st /\ st[i] = item
      BY <1>1, <2>1
    <2> QED  BY <2>2 DEF Has
  <1>4. ASSUME NEW item, Has(t, item) PROVE Has(st, item)
    <2>1. PICK i \in DOMAIN t : t[i] = item
      BY <1>4 DEF Has
    <2>2. Len(s) + i \in 1..(Len(s) + Len(t)) /\ ~(Len(s) + i <= Len(s)) /\ Len(s) + i - Len(s) = i
      BY <1>1, <2>1
    <2>3. Len(s) + i \in DOMAIN st /\ st[Len(s) + i] = item
      BY <1>1, <2>1, <2>2
    <2> QED  BY <2>3 DEF Has
  <1>5. Proper(st)
    BY <1>1, <1>2 DEF Proper
  <1>6. Proper(s \o t)
    BY <1>5 DEF st
  <1>7. \A item : Has(s, item) \/ Has(t, item) => Has(s \o t, item)
    BY <1>3, <1>4 DEF st
  <1> QED  BY <1>6, <1>7

(* A row of one owner's members. *)
LEMMA OfOwner == ASSUME NEW owner, NEW names, NEW n \in Nat, DOMAIN names = 1..n,
                        owner = "ppu" \/ \A i \in 1..n : names[i] # "dispstat_.lower"
                 PROVE  /\ Proper(Members(owner, names))
                        /\ \A i \in 1..n : Has(Members(owner, names), <<owner, names[i], "">>)
  <1> DEFINE row == Members(owner, names)
             R == {row[i] : i \in DOMAIN row}
  <1>1. /\ row = [i \in 1..n |-> <<owner, names[i], "">>]
        /\ DOMAIN row = 1..n
        /\ \A i \in 1..n : row[i] = <<owner, names[i], "">>
    BY DEF Members
  <1>2. \A i \in 1..n : row[i] \in R
    BY <1>1
  <1>3. row = [i \in 1..n |-> row[i]]
    BY <1>1
  <1> HIDE DEF row
  <1> HIDE DEF R
  <1>4. row \in [1..n -> R]
    BY <1>2, <1>3
  <1>5. row \in Seq(R)
    BY <1>4, SeqDef
  <1>6. \A i \in DOMAIN row : row[i][2] = "dispstat_.lower" => row[i][1] = "ppu"
    BY <1>1
  <1>7. Proper(row)
    BY <1>5, <1>6 DEF Proper, R
  <1>8. \A i \in 1..n : Has(row, <<owner, names[i], "">>)
    BY <1>1 DEF Has
  <1> QED  BY <1>7, <1>8 DEF row

(* Names none of which is that of DISPSTAT's lower byte. *)
Plain(names) == \E n \in Nat : DOMAIN names = 1..n /\ \A i \in 1..n : names[i] # "dispstat_.lower"

(* The members of an owner. *)
LEMMA OfPlain == ASSUME NEW owner, NEW names, Plain(names) PROVE Proper(Members(owner, names))
  BY OfOwner DEF Plain

(* The members of the display. *)
LEMMA OfDisplay == ASSUME NEW names, \E n \in Nat : DOMAIN names = 1..n
                   PROVE  Proper(Members("ppu", names))
  BY OfOwner

(* A member is in the row of its owner. *)
LEMMA HasName == ASSUME NEW owner, NEW names, NEW n \in Nat, DOMAIN names = 1..n, NEW i \in 1..n
                 PROVE  Has(Members(owner, names), <<owner, names[i], "">>)
  BY DEF Has, Members

(* Four rows alike, one for each timer or channel. *)
LEMMA Fourfold == ASSUME NEW row, \A i \in Units : Proper(row[i]) PROVE Proper(FourOf(row))
  <1>1. Proper(row["0"]) /\ Proper(row["1"]) /\ Proper(row["2"]) /\ Proper(row["3"])
    BY DEF Units
  <1>2. Proper(row["0"] \o row["1"])
    BY <1>1, Joined
  <1>3. Proper(row["0"] \o row["1"] \o row["2"])
    BY <1>1, <1>2, Joined
  <1>4. Proper(row["0"] \o row["1"] \o row["2"] \o row["3"])
    BY <1>1, <1>3, Joined
  <1> QED  BY <1>4 DEF FourOf

(* The rows of the components, in the order of the model: each is proper, and three have
   the members from which a load computes others. *)
LEMMA SweepRow == ASSUME NEW ch PROVE Proper(sweep(ch))
  <1> DEFINE names == <<"swp.timer", "swp.shadow", "swp.period", "swp.direction",
                        "swp.shift_count", "swp.enabled">>
             row == Members(ch, names)
  <1>1. Plain(names)
    BY 6 \in Nat DEF Plain
  <1> QED  BY <1>1, OfPlain DEF sweep

LEMMA WaveDataRow == ASSUME NEW ch PROVE Proper(wave_data(ch))
  <1> DEFINE names == <<"wav_data.duty", "wav_data.sound_length">>
             row == Members(ch, names)
  <1>1. Plain(names)
    BY 2 \in Nat DEF Plain
  <1> QED  BY <1>1, OfPlain DEF wave_data

LEMMA EnvelopeRow == ASSUME NEW ch PROVE Proper(envelope(ch))
  <1> DEFINE names == <<"env.timer", "env.period", "env.direction", "env.initial_volume">>
             row == Members(ch, names)
  <1>1. Plain(names)
    BY 4 \in Nat DEF Plain
  <1> QED  BY <1>1, OfPlain DEF envelope

LEMMA FrequencyDataRow == ASSUME NEW ch PROVE Proper(frequency_data(ch))
  <1> DEFINE names == <<"freq_data.sample_rate", "freq_data.freq_control">>
             row == Members(ch, names)
  <1>1. Plain(names)
    BY 2 \in Nat DEF Plain
  <1> QED  BY <1>1, OfPlain DEF frequency_data

LEMMA PolynomialCounterRow == ASSUME NEW ch PROVE Proper(polynomial_counter(ch))
  <1> DEFINE names == <<"polynomial_cnt.shift_clock_frequency",
                        "polynomial_cnt.has_7_bit_counter_width",
                        "polynomial_cnt.dividing_ratio">>
             row == Members(ch, names)
  <1>1. Plain(names)
    BY 3 \in Nat DEF Plain
  <1> QED  BY <1>1, OfPlain DEF polynomial_counter

LEMMA FifoRow == ASSUME NEW f PROVE Proper(fifo(f))
  <1> DEFINE names == <<"latch_", "data_", "read_idx_", "write_idx_", "size_">>
             row == Members(f, names)
  <1>1. Plain(names)
    BY 5 \in Nat DEF Plain
  <1> QED  BY <1>1, OfPlain DEF fifo

LEMMA SoundBufferRow == Proper(sound_buffer)
  <1> DEFINE names == <<"buffer_.write_idx_", "buffer_.buffer_">>
             row == Members("apu", names)
  <1>1. Plain(names)
    BY 2 \in Nat DEF Plain
  <1> QED  BY <1>1, OfPlain DEF sound_buffer

LEMMA ResamplerRow == Proper(resampler)
  <1> DEFINE names == <<"resampler_.previous_samples_", "resampler_.resample_phase_">>
             row == Members("apu", names)
  <1>1. Plain(names)
    BY 2 \in Nat DEF Plain
  <1> QED  BY <1>1, OfPlain DEF resampler

LEMMA ObjBufferEntryRow == Proper(obj_buffer_entry)
  <1> DEFINE names == <<"obj_buffer_.priority", "obj_buffer_.dot",
                        "obj_buffer_.is_alpha_blending">>
             row == Members("ppu", names)
  <1>1. \E n \in Nat : DOMAIN names = 1..n
    BY 3 \in Nat
  <1> QED  BY <1>1, OfDisplay DEF obj_buffer_entry

LEMMA TimerRow == ASSUME NEW i \in Units PROVE Proper(timer_serialize(i))
  <1> DEFINE names == <<"handle_", "last_scheduled_timestamp_", "counter_", "reload_",
                        "control_.prescalar", "control_.enabled", "control_.cascaded",
                        "control_.irq_enabled">>
             row == Members("timer" \o i, names)
  <1>1. Plain(names)
    BY 8 \in Nat DEF Plain
  <1> QED  BY <1>1, OfPlain DEF timer_serialize

LEMMA ChannelRow == ASSUME NEW i \in Units PROVE Proper(channel_serialize(i))
  <1> DEFINE names == <<"last_event_handle", "src", "dst", "count", "internal.src",
                        "internal.dst", "internal.count", "cnt.dst_control", "cnt.src_control",
                        "cnt.when", "cnt.repeat", "cnt.size", "cnt.drq", "cnt.irq",
                        "cnt.enabled", "latch">>
             row == Members("dma" \o i, names)
  <1>1. Plain(names)
    BY 16 \in Nat DEF Plain
  <1> QED  BY <1>1, OfPlain DEF channel_serialize

LEMMA DmaRow == Proper(dma_serialize)
  <1> DEFINE names1 == <<"scheduled_channels_">>
             row1 == Members("dma", names1)
             row2 == FourOf([i \in Units |-> channel_serialize(i)])
             names3 == <<"latch_">>
             row3 == Members("dma", names3)
  <1>1. Plain(names1)
    BY 1 \in Nat DEF Plain
  <1>2. Plain(names3)
    BY 1 \in Nat DEF Plain
  <1>3. Proper(row1)
    BY <1>1, OfPlain
  <1>4. Proper(row2)
    BY ChannelRow, Fourfold
  <1>5. Proper(row3)
    BY <1>2, OfPlain
  <1>6. dma_serialize = row1 \o row2 \o row3
    BY DEF dma_serialize
  <1> HIDE DEF row1, row2, row3
  <1> DEFINE rows2 == row1 \o row2
  <1>7. Proper(rows2)
    BY <1>3, <1>4, Joined
  <1> HIDE DEF rows2
  <1> DEFINE rows3 == rows2 \o row3
  <1>8. Proper(rows3)
    BY <1>7, <1>5, Joined
  <1> QED  BY <1>6, <1>8 DEF rows2

LEMMA CpuRow == Proper(cpu_serialize) /\ Has(cpu_serialize, <<"cpu", "waitcnt_.ws0_seq", "">>)
  <1> DEFINE item == <<"cpu", "waitcnt_.ws0_seq", "">>
             names1 == <<"r_", "reg_banks_", "cpsr_", "spsr_banks_", "ie_", "if_", "ime_",
                         "irq_signal_", "scheduled_irq_signal_", "irq_signal_delay_handle_",
                         "pipeline_.decoding", "pipeline_.executing", "pipeline_.fetch_type",
                         "wram_", "iwram_">>
             row1 == Members("cpu", names1)
             row2 == FourOf([i \in Units |-> timer_serialize(i)])
             row3 == dma_serialize
             names4 == <<"bios_last_read_", "post_boot_", "prefetch_buffer_.begin",
                         "prefetch_buffer_.end", "prefetch_buffer_.size",
                         "prefetch_buffer_.capacity", "prefetch_buffer_.cycles_left",
                         "prefetch_buffer_.cycles_needed", "prefetch_buffer_.addr_increment",
                         "prefetch_buffer_.active", "waitcnt_.sram", "waitcnt_.ws0_nonseq",
                         "waitcnt_.ws0_seq", "waitcnt_.ws1_nonseq", "waitcnt_.ws1_seq",
                         "waitcnt_.ws2_nonseq", "waitcnt_.ws2_seq", "waitcnt_.phi",
                         "waitcnt_.prefetch_buffer_enable", "haltcnt_">>
             row4 == Members("cpu", names4)
  <1>1. Plain(names1)
    BY 15 \in Nat DEF Plain
  <1>2. Plain(names4)
    BY 20 \in Nat DEF Plain
  <1>3. Has(row4, item)
    <2>1. DOMAIN names4 = 1..20 /\ names4[13] = "waitcnt_.ws0_seq"
      OBVIOUS
    <2> QED  BY <2>1, 20 \in Nat, 13 \in 1..20, HasName
  <1>4. Proper(row1)
    BY <1>1, OfPlain
  <1>5. Proper(row2)
    BY TimerRow, Fourfold
  <1>6. Proper(row3)
    BY DmaRow
  <1>7. Proper(row4)
    BY <1>2, OfPlain
  <1>8. cpu_serialize = row1 \o row2 \o row3 \o row4
    BY DEF cpu_serialize
  <1> HIDE DEF row1, row2, row3, row4, item
  <1> DEFINE rows2 == row1 \o row2
  <1>9. Proper(rows2)
    BY <1>4, <1>5, Joined
  <1> HIDE DEF rows2
  <1> DEFINE rows3 == rows2 \o row3
  <1>10. Proper(rows3)
    BY <1>9, <1>6, Joined
  <1> HIDE DEF rows3
  <1> DEFINE rows4 == rows3 \o row4
  <1>11. Proper(rows4) /\ Has(rows4, item)
    BY <1>10, <1>7, <1>3, Joined
  <1> QED  BY <1>8, <1>11 DEF rows2, rows3, item

LEMMA RegularBgRow == ASSUME NEW bg PROVE Proper(regular_bg_serialize(bg))
  <1> DEFINE names == <<"cnt.lower", "cnt.upper", "hoffset", "voffset">>
             row == Members(bg, names)
  <1>1. Plain(names)
    BY 4 \in Nat DEF Plain
  <1> QED  BY <1>1, OfPlain DEF regular_bg_serialize

LEMMA AffineBgRow == ASSUME NEW bg PROVE Proper(affine_bg_serialize(bg))
  <1> DEFINE row1 == regular_bg_serialize(bg)
             names2 == <<"x_ref.ref", "y_ref.ref", "x_ref.internal", "y_ref.internal", "pa",
                         "pb", "pc", "pd">>
             row2 == Members(bg, names2)
  <1>1. Plain(names2)
    BY 8 \in Nat DEF Plain
  <1>2. Proper(row1)
    BY RegularBgRow
  <1>3. Proper(row2)
    BY <1>1, OfPlain
  <1>4. affine_bg_serialize(bg) = row1 \o row2
    BY DEF affine_bg_serialize
  <1> HIDE DEF row1, row2
  <1> DEFINE rows2 == row1 \o row2
  <1>5. Proper(rows2)
    BY <1>2, <1>3, Joined
  <1> QED  BY <1>4, <1>5

LEMMA PpuRow == Proper(ppu_serialize) /\ Has(ppu_serialize, <<"ppu", "win0_.top_left.x", "">>)
  <1> DEFINE item == <<"ppu", "win0_.top_left.x", "">>
             names1 == <<"palette_ram_", "vram_", "oam_", "dispcnt_.lower", "dispcnt_.upper",
                         "dispstat_.lower", "dispstat_.upper", "vcount_">>
             row1 == Members("ppu", names1)
             row2 == regular_bg_serialize("bg0_")
             row3 == regular_bg_serialize("bg1_")
             row4 == affine_bg_serialize("bg2_")
             row5 == affine_bg_serialize("bg3_")
             names6 == <<"win0_.top_left.x", "win0_.top_left.y", "win0_.bottom_right.x",
                         "win0_.bottom_right.y", "win1_.top_left.x", "win1_.top_left.y",
                         "win1_.bottom_right.x", "win1_.bottom_right.y", "win_in_.win0",
                         "win_in_.win1", "win_out_.obj", "win_out_.outside",
                         "win_can_draw_flags_", "green_swap_", "mosaic_bg_.v", "mosaic_bg_.h",
                         "mosaic_bg_.internal.v", "mosaic_bg_.internal.h", "mosaic_obj_.v",
                         "mosaic_obj_.h", "mosaic_obj_.internal.v", "mosaic_obj_.internal.h",
                         "bldcnt_.first", "bldcnt_.second", "bldcnt_.type",
                         "blend_settings_.eva", "blend_settings_.evb", "blend_settings_.evy">>
             row6 == Members("ppu", names6)
             row7 == obj_buffer_entry
             names8 == <<"final_buffer_", "bg_buffers_">>
             row8 == Members("ppu", names8)
  <1>1. \E n \in Nat : DOMAIN names1 = 1..n
    BY 8 \in Nat
  <1>2. \E n \in Nat : DOMAIN names6 = 1..n
    BY 28 \in Nat
  <1>3. Has(row6, item)
    <2>1. DOMAIN names6 = 1..28 /\ names6[1] = "win0_.top_left.x"
      OBVIOUS
    <2> QED  BY <2>1, 28 \in Nat, 1 \in 1..28, HasName
  <1>4. \E n \in Nat : DOMAIN names8 = 1..n
    BY 2 \in Nat
  <1>5. Proper(row1)
    BY <1>1, OfDisplay
  <1>6. Proper(row2)
    BY RegularBgRow
  <1>7. Proper(row3)
    BY RegularBgRow
  <1>8. Proper(row4)
    BY AffineBgRow
  <1>9. Proper(row5)
    BY AffineBgRow
  <1>10. Proper(row6)
    BY <1>2, OfDisplay
  <1>11. Proper(row7)
    BY ObjBufferEntryRow
  <1>12. Proper(row8)
    BY <1>4, OfDisplay
  <1>13. ppu_serialize = row1 \o row2 \o row3 \o row4 \o row5 \o row6 \o row7 \o row8
    BY DEF ppu_serialize
  <1> HIDE DEF row1, row2, row3, row4, row5, row6, row7, row8, item
  <1> DEFINE rows2 == row1 \o row2
  <1>14. Proper(rows2)
    BY <1>5, <1>6, Joined
  <1> HIDE DEF rows2
  <1> DEFINE rows3 == rows2 \o row3
  <1>15. Proper(rows3)
    BY <1>14, <1>7, Joined
  <1> HIDE DEF rows3
  <1> DEFINE rows4 == rows3 \o row4
  <1>16. Proper(rows4)
    BY <1>15, <1>8, Joined
  <1> HIDE DEF rows4
  <1> DEFINE rows5 == rows4 \o row5
  <1>17. Proper(rows5)
    BY <1>16, <1>9, Joined
  <1> HIDE DEF rows5
  <1> DEFINE rows6 == rows5 \o row6
  <1>18. Proper(rows6) /\ Has(rows6, item)
    BY <1>17, <1>10, <1>3, Joined
  <1> HIDE DEF rows6
  <1> DEFINE rows7 == rows6 \o row7
  <1>19. Proper(rows7) /\ Has(rows7, item)
    BY <1>18, <1>11, Joined
  <1> HIDE DEF rows7
  <1> DEFINE rows8 == rows7 \o row8
  <1>20. Proper(rows8) /\ Has(rows8, item)
    BY <1>19, <1>12, Joined
  <1> QED  BY <1>13, <1>20 DEF rows2, rows3, rows4, rows5, rows6, rows7, item

LEMMA PulseChannelRow == ASSUME NEW ch PROVE Proper(pulse_channel_serialize(ch))
  <1> DEFINE row1 == sweep(ch)
             row2 == wave_data(ch)
             row3 == envelope(ch)
             row4 == frequency_data(ch)
             names5 == <<"length_counter", "waveform_duty_index", "waveform_phase", "volume",
                         "output", "enabled", "dac_enabled">>
             row5 == Members(ch, names5)
  <1>1. Plain(names5)
    BY 7 \in Nat DEF Plain
  <1>2. Proper(row1)
    BY SweepRow
  <1>3. Proper(row2)
    BY WaveDataRow
  <1>4. Proper(row3)
    BY EnvelopeRow
  <1>5. Proper(row4)
    BY FrequencyDataRow
  <1>6. Proper(row5)
    BY <1>1, OfPlain
  <1>7. pulse_channel_serialize(ch) = row1 \o row2 \o row3 \o row4 \o row5
    BY DEF pulse_channel_serialize
  <1> HIDE DEF row1, row2, row3, row4, row5
  <1> DEFINE rows2 == row1 \o row2
  <1>8. Proper(rows2)
    BY <1>2, <1>3, Joined
  <1> HIDE DEF rows2
  <1> DEFINE rows3 == rows2 \o row3
  <1>9. Proper(rows3)
    BY <1>8, <1>4, Joined
  <1> HIDE DEF rows3
  <1> DEFINE rows4 == rows3 \o row4
  <1>10. Proper(rows4)
    BY <1>9, <1>5, Joined
  <1> HIDE DEF rows4
  <1> DEFINE rows5 == rows4 \o row5
  <1>11. Proper(rows5)
    BY <1>10, <1>6, Joined
  <1> QED  BY <1>7, <1>11 DEF rows2, rows3, rows4

LEMMA WaveChannelRow == Proper(wave_channel_serialize)
  <1> DEFINE names1 == <<"sound_length", "output_level", "force_output_level">>
             row1 == Members("channel_3_", names1)
             row2 == frequency_data("channel_3_")
             names3 == <<"length_counter", "sample_index", "output", "enabled", "dac_enabled",
                         "wave_bank_2d", "wave_bank", "wave_ram">>
             row3 == Members("channel_3_", names3)
  <1>1. Plain(names1)
    BY 3 \in Nat DEF Plain
  <1>2. Plain(names3)
    BY 8 \in Nat DEF Plain
  <1>3. Proper(row1)
    BY <1>1, OfPlain
  <1>4. Proper(row2)
    BY FrequencyDataRow
  <1>5. Proper(row3)
    BY <1>2, OfPlain
  <1>6. wave_channel_serialize = row1 \o row2 \o row3
    BY DEF wave_channel_serialize
  <1> HIDE DEF row1, row2, row3
  <1> DEFINE rows2 == row1 \o row2
  <1>7. Proper(rows2)
    BY <1>3, <1>4, Joined
  <1> HIDE DEF rows2
  <1> DEFINE rows3 == rows2 \o row3
  <1>8. Proper(rows3)
    BY <1>7, <1>5, Joined
  <1> QED  BY <1>6, <1>8 DEF rows2

LEMMA NoiseChannelRow == Proper(noise_channel_serialize)
  <1> DEFINE names1 == <<"sound_length">>
             row1 == Members("channel_4_", names1)
             row2 == envelope("channel_4_")
             row3 == polynomial_counter("channel_4_")
             names4 == <<"freq_control", "length_counter", "lfsr", "volume", "output",
                         "enabled", "dac_enabled">>
             row4 == Members("channel_4_", names4)
  <1>1. Plain(names1)
    BY 1 \in Nat DEF Plain
  <1>2. Plain(names4)
    BY 7 \in Nat DEF Plain
  <1>3. Proper(row1)
    BY <1>1, OfPlain
  <1>4. Proper(row2)
    BY EnvelopeRow
  <1>5. Proper(row3)
    BY PolynomialCounterRow
  <1>6. Proper(row4)
    BY <1>2, OfPlain
  <1>7. noise_channel_serialize = row1 \o row2 \o row3 \o row4
    BY DEF noise_channel_serialize
  <1> HIDE DEF row1, row2, row3, row4
  <1> DEFINE rows2 == row1 \o row2
  <1>8. Proper(rows2)
    BY <1>3, <1>4, Joined
  <1> HIDE DEF rows2
  <1> DEFINE rows3 == rows2 \o row3
  <1>9. Proper(rows3)
    BY <1>8, <1>5, Joined
  <1> HIDE DEF rows3
  <1> DEFINE rows4 == rows3 \o row4
  <1>10. Proper(rows4)
    BY <1>9, <1>6, Joined
  <1> QED  BY <1>7, <1>10 DEF rows2, rows3

LEMMA ApuRow ==
  Proper(apu_serialize) /\ Has(apu_serialize, <<"apu", "soundbias_.resolution", "">>)
  <1> DEFINE item == <<"apu", "soundbias_.resolution", "">>
             names1 == <<"power_on_", "control_.0", "control_.1", "control_.2", "control_.3",
                         "soundbias_.bias", "soundbias_.resolution">>
             row1 == Members("apu", names1)
             row2 == pulse_channel_serialize("channel_1_")
             row3 == pulse_channel_serialize("channel_2_")
             row4 == wave_channel_serialize
             row5 == noise_channel_serialize
             row6 == fifo("fifo_a_")
             row7 == fifo("fifo_b_")
             names8 == <<"frame_sequencer_">>
             row8 == Members("apu", names8)
             row9 == sound_buffer
             row10 == resampler
  <1>1. Plain(names1)
    BY 7 \in Nat DEF Plain
  <1>2. Has(row1, item)
    <2>1. DOMAIN names1 = 1..7 /\ names1[7] = "soundbias_.resolution"
      OBVIOUS
    <2> QED  BY <2>1, 7 \in Nat, 7 \in 1..7, HasName
  <1>3. Plain(names8)
    BY 1 \in Nat DEF Plain
  <1>4. Proper(row1)
    BY <1>1, OfPlain
  <1>5. Proper(row2)
    BY PulseChannelRow
  <1>6. Proper(row3)
    BY PulseChannelRow
  <1>7. Proper(row4)
    BY WaveChannelRow
  <1>8. Proper(row5)
    BY NoiseChannelRow
  <1>9. Proper(row6)
    BY FifoRow
  <1>10. Proper(row7)
    BY FifoRow
  <1>11. Proper(row8)
    BY <1>3, OfPlain
  <1>12. Proper(row9)
    BY SoundBufferRow
  <1>13. Proper(row10)
    BY ResamplerRow
  <1>14. apu_serialize = row1 \o row2 \o row3 \o row4 \o row5 \o row6 \o row7 \o row8 \o row9 \o row10
    BY DEF apu_serialize
  <1> HIDE DEF row1, row2, row3, row4, row5, row6, row7, row8, row9, row10, item
  <1> DEFINE rows2 == row1 \o row2
  <1>15. Proper(rows2) /\ Has(rows2, item)
    BY <1>4, <1>5, <1>2, Joined
  <1> HIDE DEF rows2
  <1> DEFINE rows3 == rows2 \o row3
  <1>16. Proper(rows3) /\ Has(rows3, item)
    BY <1>15, <1>6, Joined
  <1> HIDE DEF rows3
  <1> DEFINE rows4 == rows3 \o row4
  <1>17. Proper(rows4) /\ Has(rows4, item)
    BY <1>16, <1>7, Joined
  <1> HIDE DEF rows4
  <1> DEFINE rows5 == rows4 \o row5
  <1>18. Proper(rows5) /\ Has(rows5, item)
    BY <1>17, <1>8, Joined
  <1> HIDE DEF rows5
  <1> DEFINE rows6 == rows5 \o row6
  <1>19. Proper(rows6) /\ Has(rows6, item)
    BY <1>18, <1>9, Joined
  <1> HIDE DEF rows6
  <1> DEFINE rows7 == rows6 \o row7
  <1>20. Proper(rows7) /\ Has(rows7, item)
    BY <1>19, <1>10, Joined
  <1> HIDE DEF rows7
  <1> DEFINE rows8 == rows7 \o row8
  <1>21. Proper(rows8) /\ Has(rows8, item)
    BY <1>20, <1>11, Joined
  <1> HIDE DEF rows8
  <1> DEFINE rows9 == rows8 \o row9
  <1>22. Proper(rows9) /\ Has(rows9, item)
    BY <1>21, <1>12, Joined
  <1> HIDE DEF rows9
  <1> DEFINE rows10 == rows9 \o row10
  <1>23. Proper(rows10) /\ Has(rows10, item)
    BY <1>22, <1>13, Joined
  <1> QED  BY <1>14, <1>23 DEF rows2, rows3, rows4, rows5, rows6, rows7, rows8, rows9, item

LEMMA RtcRow == Proper(rtc_serialize)
  <1> DEFINE names == <<"pin_states_", "directions_", "read_allowed_", "internal_regs_",
                        "control_", "state_", "current_cmd_.cmd_type",
                        "current_cmd_.is_access_read", "current_byte_", "current_bit_",
                        "bit_buffer_", "ports_.cs", "ports_.sio", "ports_.sck">>
             row == Members("rtc", names)
  <1>1. Plain(names)
    BY 14 \in Nat DEF Plain
  <1> QED  BY <1>1, OfPlain DEF rtc_serialize

LEMMA SchedulerRow == Proper(scheduler_serialize)
  <1> DEFINE names == <<"heap_", "now_", "next_event_handle_">>
             row == Members("scheduler", names)
  <1>1. Plain(names)
    BY 3 \in Nat DEF Plain
  <1> QED  BY <1>1, OfPlain DEF scheduler_serialize

LEMMA KeypadRow == Proper(keypad_serialize)
  <1> DEFINE names == <<"keyinput_", "keycnt_.select", "keycnt_.enabled",
                        "keycnt_.cond_strategy">>
             row == Members("keypad", names)
  <1>1. Plain(names)
    BY 4 \in Nat DEF Plain
  <1> QED  BY <1>1, OfPlain DEF keypad_serialize

(* The row of the backup, whichever it is. *)
LEMMA BackupRow == Proper(backup_serialize)
  <1>1. Plain(<<"file", "size_">>)
    BY 2 \in Nat DEF Plain
  <1>2. Plain(<<"buffer_", "address_", "bus_width_", "settled_response_", "transmission_count_",
                "state_", "cmd_">>)
    BY 7 \in Nat DEF Plain
  <1>3. Plain(<<"current_bank_", "state_", "current_cmds_">>)
    BY 3 \in Nat DEF Plain
  <1> DEFINE base == Members("backup", <<"file", "size_">>)
             eeprom == Members("backup", <<"buffer_", "address_", "bus_width_", "settled_response_",
                                           "transmission_count_", "state_", "cmd_">>)
             flash == Members("backup", <<"current_bank_", "state_", "current_cmds_">>)
  <1>4. Proper(base) /\ Proper(eeprom) /\ Proper(flash)
    BY <1>1, <1>2, <1>3, OfPlain
  <1>5. Proper(<<>>)
    <2>1. Plain(<<>>) /\ Members("backup", <<>>) = <<>>
      BY 0 \in Nat DEF Plain, Members
    <2> QED  BY <2>1, OfPlain
  <1>6. /\ Backup = "none" => backup_serialize = <<>>
        /\ Backup = "sram" => backup_serialize = base
        /\ Backup = "eeprom" => backup_serialize = base \o eeprom
        /\ Backup = "flash" => backup_serialize = base \o flash
    BY DEF backup_serialize
  <1> HIDE DEF base, eeprom, flash
  <1>7. Proper(base \o eeprom) /\ Proper(base \o flash)
    BY <1>4, Joined
  <1> QED  BY <1>4, <1>5, <1>6, <1>7, SaveStateAssumption

(* The row of the game pak, with a clock or without. *)
LEMMA GamepakRow == Proper(gamepak_serialize)
  <1>1. Proper(<<>>)
    <2>1. Plain(<<>>) /\ Members("backup", <<>>) = <<>>
      BY 0 \in Nat DEF Plain, Members
    <2> QED  BY <2>1, OfPlain
  <1>2. Proper(rtc_serialize \o backup_serialize) /\ Proper(<<>> \o backup_serialize)
    BY <1>1, RtcRow, BackupRow, Joined
  <1>3. \/ gamepak_serialize = rtc_serialize \o backup_serialize
        \/ gamepak_serialize = <<>> \o backup_serialize
    BY DEF gamepak_serialize
  <1> QED  BY <1>2, <1>3

(* The members from which a load computes those that it does not read. *)
Origins == {<<"cpu", "waitcnt_.ws0_seq", "">>, <<"ppu", "win0_.top_left.x", "">>,
            <<"apu", "soundbias_.resolution", "">>}

(* What is saved for a machine. *)
LEMMA CoreRow == Proper(core_serialize) /\ \A m \in Origins : Has(core_serialize, m)
  <1> DEFINE p1 == scheduler_serialize
             p2 == gamepak_serialize
             p3 == cpu_serialize
             p4 == ppu_serialize
             p5 == apu_serialize
             p6 == keypad_serialize
             c == <<"cpu", "waitcnt_.ws0_seq", "">>
             p == <<"ppu", "win0_.top_left.x", "">>
             a == <<"apu", "soundbias_.resolution", "">>
  <1>1. /\ Proper(p1) /\ Proper(p2) /\ Proper(p3) /\ Proper(p4) /\ Proper(p5) /\ Proper(p6)
        /\ Has(p3, c) /\ Has(p4, p) /\ Has(p5, a)
    BY SchedulerRow, GamepakRow, CpuRow, PpuRow, ApuRow, KeypadRow
  <1>2. core_serialize = p1 \o p2 \o p3 \o p4 \o p5 \o p6
    BY DEF core_serialize
  <1>3. Origins = {c, p, a}
    BY DEF Origins
  <1> HIDE DEF p1, p2, p3, p4, p5, p6, c, p, a
  <1>4. Proper(p1 \o p2)
    BY <1>1, Joined
  <1>5. Proper(p1 \o p2 \o p3) /\ Has(p1 \o p2 \o p3, c)
    BY <1>1, <1>4, Joined
  <1> DEFINE q == p1 \o p2 \o p3
  <1> HIDE DEF q
  <1>6. Proper(q \o p4) /\ Has(q \o p4, c) /\ Has(q \o p4, p)
    BY <1>1, <1>5, Joined DEF q
  <1>7. Proper(q \o p4 \o p5) /\ Has(q \o p4 \o p5, c) /\ Has(q \o p4 \o p5, p) /\ Has(q \o p4 \o p5, a)
    BY <1>1, <1>6, Joined
  <1>8. /\ Proper(q \o p4 \o p5 \o p6)
        /\ Has(q \o p4 \o p5 \o p6, c) /\ Has(q \o p4 \o p5 \o p6, p) /\ Has(q \o p4 \o p5 \o p6, a)
    BY <1>1, <1>7, Joined
  <1> QED  BY <1>2, <1>3, <1>8 DEF q

(* Both sides go through the same members in the same order, whatever the game pak
   has on it. *)
LEMMA SameRow == core_serialize = core_deserialize
  BY Zenon DEF core_serialize, core_deserialize, gamepak_serialize, gamepak_deserialize,
    backup_serialize, backup_deserialize, rtc_serialize, rtc_deserialize, cpu_serialize,
    cpu_deserialize, timer_serialize, timer_deserialize, dma_serialize, dma_deserialize,
    channel_serialize, channel_deserialize, ppu_serialize, ppu_deserialize,
    regular_bg_serialize, regular_bg_deserialize, affine_bg_serialize, affine_bg_deserialize,
    apu_serialize, apu_deserialize, pulse_channel_serialize, pulse_channel_deserialize,
    wave_channel_serialize, wave_channel_deserialize, noise_channel_serialize,
    noise_channel_deserialize, scheduler_serialize, scheduler_deserialize,
    keypad_serialize, keypad_deserialize

(* The fields of a byte that a load sets are saved, with bits of their own; a field
   of the byte that it does not set tells where the beam is. *)
Fits(r) ==
    /\ \A f \in Layouts[r][2] : f \in Layouts[r][1]
    /\ \A f \in Layouts[r][2], g \in Layouts[r][1] :
        g # f => f[1] # g[1] /\ FieldBits(f) \intersect FieldBits(g) = {}
    /\ \A f \in Layouts[r][1] \ Layouts[r][2] :
        r = "dispstat_.lower" /\ f[1] \in {"vblank", "hblank", "vcounter"}

(* Fields that follow one another share no bit. *)
LEMMA NoOverlap == ASSUME NEW f, NEW g, f[2] \in Nat, f[3] \in Nat, g[2] \in Nat, g[3] \in Nat,
                          f[2] + f[3] <= g[2] \/ g[2] + g[3] <= f[2]
                   PROVE  FieldBits(f) \intersect FieldBits(g) = {}
  BY DEF FieldBits

(* Layouts that a load takes as they were saved. *)
LEMMA FitsItself ==
    ASSUME NEW r, NEW layout, Layouts[r] = <<layout, layout>>,
           \A f \in layout : f[2] \in Nat /\ f[3] \in Nat,
           \A f, g \in layout : f # g => f[1] # g[1] /\ (f[2] + f[3] <= g[2] \/ g[2] + g[3] <= f[2])
    PROVE  Fits(r)
  <1>1. \A f, g \in layout : f # g => FieldBits(f) \intersect FieldBits(g) = {}
    BY NoOverlap
  <1> QED  BY <1>1 DEF Fits

(* A layout whose fields have names and bits of their own. *)
Distinct(layout) ==
    /\ \A f \in layout : f[2] \in Nat /\ f[3] \in Nat
    /\ \A f, g \in layout : f # g => f[1] # g[1] /\ (f[2] + f[3] <= g[2] \/ g[2] + g[3] <= f[2])

(* The registers that go as a byte. *)
LEMMA LaidOut == DOMAIN Layouts =
    {"dispcnt_.lower", "dispcnt_.upper", "dispstat_.lower", "dispstat_.upper", "cnt.lower",
     "cnt.upper", "win_in_.win0", "win_in_.win1", "win_out_.obj", "win_out_.outside",
     "bldcnt_.first", "bldcnt_.second", "control_.0", "control_.1", "control_.2", "control_.3"}
  BY DEF Layouts

(* Every register that goes as a byte is loaded from bits of its own. *)
LEMMA LayoutsFit == \A r \in DOMAIN Layouts : Fits(r)
  <1>1. Distinct(dispcnt_read_lower)
    BY DEF Distinct, dispcnt_read_lower
  <1>2. Distinct(dispcnt_read_upper)
    BY DEF Distinct, dispcnt_read_upper
  <1>3. Distinct(dispstat_read_lower)
    BY DEF Distinct, dispstat_read_lower
  <1>4. Distinct(dispstat_upper)
    BY DEF Distinct, dispstat_upper
  <1>5. Distinct(bgcnt_read_lower)
    BY DEF Distinct, bgcnt_read_lower
  <1>6. Distinct(bgcnt_read_upper)
    BY DEF Distinct, bgcnt_read_upper
  <1>7. Distinct(win_enable_bits_read)
    BY DEF Distinct, win_enable_bits_read
  <1>8. Distinct(bldcnt_target_read)
    BY DEF Distinct, bldcnt_target_read
  <1>9. Distinct(cnt_read(0))
    BY DEF Distinct, cnt_read
  <1>10. Distinct(cnt_read(1))
    BY DEF Distinct, cnt_read
  <1>11. Distinct(cnt_read(2))
    BY DEF Distinct, cnt_read
  <1>12. Distinct(cnt_read(3))
    BY DEF Distinct, cnt_read
  <1>13. \A r, layout : Layouts[r] = <<layout, layout>> /\ Distinct(layout) => Fits(r)
    BY FitsItself DEF Distinct
  <1>14. /\ dispcnt_write_lower = dispcnt_read_lower /\ dispcnt_write_upper = dispcnt_read_upper
        /\ bgcnt_write_lower = bgcnt_read_lower /\ bgcnt_write_upper = bgcnt_read_upper
        /\ win_enable_bits_write = win_enable_bits_read /\ bldcnt_target_write = bldcnt_target_read
        /\ \A n \in 0..3 : cnt_write(n) = cnt_read(n)
    BY DEF dispcnt_read_lower, dispcnt_write_lower, dispcnt_read_upper, dispcnt_write_upper,
           bgcnt_read_lower, bgcnt_write_lower, bgcnt_read_upper, bgcnt_write_upper,
           win_enable_bits_read, win_enable_bits_write, bldcnt_target_read, bldcnt_target_write,
           cnt_read, cnt_write
  <1>15. /\ Layouts["dispcnt_.lower"] = <<dispcnt_read_lower, dispcnt_read_lower>>
        /\ Layouts["dispcnt_.upper"] = <<dispcnt_read_upper, dispcnt_read_upper>>
        /\ Layouts["dispstat_.upper"] = <<dispstat_upper, dispstat_upper>>
        /\ Layouts["cnt.lower"] = <<bgcnt_read_lower, bgcnt_read_lower>>
        /\ Layouts["cnt.upper"] = <<bgcnt_read_upper, bgcnt_read_upper>>
        /\ Layouts["win_in_.win0"] = <<win_enable_bits_read, win_enable_bits_read>>
        /\ Layouts["win_in_.win1"] = <<win_enable_bits_read, win_enable_bits_read>>
        /\ Layouts["win_out_.obj"] = <<win_enable_bits_read, win_enable_bits_read>>
        /\ Layouts["win_out_.outside"] = <<win_enable_bits_read, win_enable_bits_read>>
        /\ Layouts["bldcnt_.first"] = <<bldcnt_target_read, bldcnt_target_read>>
        /\ Layouts["bldcnt_.second"] = <<bldcnt_target_read, bldcnt_target_read>>
        /\ Layouts["control_.0"] = <<cnt_read(0), cnt_read(0)>>
        /\ Layouts["control_.1"] = <<cnt_read(1), cnt_read(1)>>
        /\ Layouts["control_.2"] = <<cnt_read(2), cnt_read(2)>>
        /\ Layouts["control_.3"] = <<cnt_read(3), cnt_read(3)>>
    BY <1>14 DEF Layouts
  <1>16. /\ Fits("dispcnt_.lower")
        /\ Fits("dispcnt_.upper")
        /\ Fits("dispstat_.upper")
        /\ Fits("cnt.lower")
        /\ Fits("cnt.upper")
        /\ Fits("win_in_.win0")
        /\ Fits("win_in_.win1")
        /\ Fits("win_out_.obj")
        /\ Fits("win_out_.outside")
        /\ Fits("bldcnt_.first")
        /\ Fits("bldcnt_.second")
        /\ Fits("control_.0")
        /\ Fits("control_.1")
        /\ Fits("control_.2")
        /\ Fits("control_.3")
    BY <1>1, <1>2, <1>3, <1>4, <1>5, <1>6, <1>7, <1>8, <1>9, <1>10, <1>11, <1>12, <1>13, <1>15, Zenon
  <1>17. Fits("dispstat_.lower")
    <2>1. Layouts["dispstat_.lower"] = <<dispstat_read_lower, dispstat_write_lower>>
      BY DEF Layouts
    <2>2. \A f \in dispstat_write_lower : f \in dispstat_read_lower
      BY DEF dispstat_read_lower, dispstat_write_lower
    <2>3. \A f, g \in dispstat_read_lower : f # g => f[1] # g[1] /\ FieldBits(f) \intersect FieldBits(g) = {}
      BY <1>3, NoOverlap DEF Distinct
    <2>4. \A f \in dispstat_read_lower \ dispstat_write_lower : f[1] \in {"vblank", "hblank", "vcounter"}
      BY DEF dispstat_read_lower, dispstat_write_lower
    <2> QED  BY <2>1, <2>2, <2>3, <2>4 DEF Fits
  <1> QED  BY <1>16, <1>17, LaidOut

----------------------------------------------------------------------------
(* What a load takes for a member that it reads is what was saved of it. *)
LEMMA ReadWhole == ASSUME NEW item, NEW m \in SetBy(item) PROVE Whole(m)
  <1>1. CASE item[2] \notin DOMAIN Layouts
    BY <1>1 DEF SetBy, Whole
  <1>2. CASE item[2] \in DOMAIN Layouts
    <2> DEFINE saved == Layouts[item[2]][1]
               set == Layouts[item[2]][2]
    <2>1. PICK f \in set : m = <<item[1], item[2], f[1]>>
      BY <1>2 DEF SetBy
    <2>2. Fits(item[2])
      BY <1>2, LayoutsFit
    <2>3. /\ set \subseteq saved
          /\ \A h \in set, g \in saved : g # h => h[1] # g[1] /\ FieldBits(h) \intersect FieldBits(g) = {}
      BY <2>2 DEF Fits
    <2>4. m[2] = item[2] /\ m[3] = f[1]
      BY <2>1
    <2> DEFINE e == CHOOSE h \in Layouts[m[2]][2] : h[1] = m[3]
    <2>5. e \in set /\ e[1] = f[1]
      BY <2>4
    <2> HIDE DEF e, set, saved
    <2>6. e = f
      BY <2>3, <2>5
    <2>7. e \in saved /\ \A g \in saved \ {e} : FieldBits(e) \intersect FieldBits(g) = {}
      BY <2>3, <2>5, <2>6
    <2> QED  BY <2>4, <2>7 DEF Whole, e, saved
  <1> QED  BY <1>1, <1>2

(* The place where a member is read, when it is. *)
LEMMA Placed == ASSUME NEW m \in All
                PROVE  /\ Place[m] # 0 => /\ Place[m] \in DOMAIN core_serialize
                                          /\ core_serialize[Place[m]] = core_deserialize[Place[m]]
                                          /\ Whole(m)
                       /\ (\E item : Has(core_serialize, item) /\ m \in SetBy(item)) => Place[m] # 0
                       /\ DOMAIN core_serialize \subseteq Nat
  <1>1. core_deserialize = core_serialize
    BY SameRow
  <1> DEFINE row == core_serialize
             p == CHOOSE i \in DOMAIN row : m \in SetBy(row[i])
  <1>2. Place[m] = IF \E i \in DOMAIN row : m \in SetBy(row[i]) THEN p ELSE 0
    BY <1>1 DEF Place
  <1>3. DOMAIN row = 1..Len(row) /\ Len(row) \in Nat
    <2>1. row \in Seq({row[i] : i \in DOMAIN row})
      BY CoreRow DEF Proper
    <2> QED  BY <2>1, LenProperties
  <1>4. (\E i \in DOMAIN row : m \in SetBy(row[i])) => p \in DOMAIN row /\ m \in SetBy(row[p])
    OBVIOUS
  <1> HIDE DEF p, row
  <1>5. Place[m] # 0 => Place[m] \in DOMAIN row /\ m \in SetBy(row[Place[m]])
    BY <1>2, <1>4
  <1>6. Place[m] # 0 => Whole(m)
    BY <1>5, ReadWhole
  <1>7. DOMAIN row \subseteq Nat /\ 0 \notin DOMAIN row
    BY <1>3
  <1>8. ASSUME NEW item, Has(row, item), m \in SetBy(item) PROVE Place[m] # 0
    <2>1. \E i \in DOMAIN row : m \in SetBy(row[i])
      BY <1>8 DEF Has
    <2> QED  BY <1>2, <1>4, <1>7, <2>1
  <1> QED  BY <1>1, <1>5, <1>6, <1>7, <1>8 DEF row

(* The parts of an item. *)
LEMMA EntryParts == \A m, a, b, c : m = <<a, b, c>> => m[1] = a /\ m[2] = b
  OBVIOUS

(* The members that a load computes, and those from which it does. *)
LEMMA DerivedFrom ==
    /\ \A m \in DOMAIN Derived : /\ m \in All /\ Derived[m] \in Origins
                                 /\ m[1] = Derived[m][1]
    /\ \A m \in Origins : m \in All /\ m \notin DOMAIN Derived /\ Place[m] # 0
  <1>1. ASSUME NEW m \in DOMAIN Derived
        PROVE  m \in All /\ Derived[m] \in Origins /\ m[1] = Derived[m][1]
    <2>1. m \in All
      BY <1>1 DEF All
    <2>2. \/ m = <<"cpu", "stall_cycles_", "">>
          \/ m = <<"ppu", "win_buffer_", "">>
          \/ m = <<"apu", "resampler_.resample_phase_shift_", "">>
      BY <1>1 DEF Derived
    <2>4. Derived[m] = CASE m[1] = "cpu" -> <<"cpu", "waitcnt_.ws0_seq", "">>
                         [] m[1] = "ppu" -> <<"ppu", "win0_.top_left.x", "">>
                         [] m[1] = "apu" -> <<"apu", "soundbias_.resolution", "">>
      BY <1>1 DEF Derived
    <2>5. m[1] \in {"cpu", "ppu", "apu"}
      BY <2>2, EntryParts, Zenon
    <2>6. /\ m[1] = "cpu" => Derived[m] = <<"cpu", "waitcnt_.ws0_seq", "">>
          /\ m[1] = "ppu" => Derived[m] = <<"ppu", "win0_.top_left.x", "">>
          /\ m[1] = "apu" => Derived[m] = <<"apu", "soundbias_.resolution", "">>
      BY <2>4, Zenon
    <2>3. Derived[m] \in Origins /\ m[1] = Derived[m][1]
      BY <2>5, <2>6, EntryParts, Zenon DEF Origins
    <2> QED  BY <2>1, <2>3
  <1>2. ASSUME NEW m \in Origins
        PROVE  m \in All /\ m \notin DOMAIN Derived /\ Place[m] # 0
    <2>1. Has(core_serialize, m)
      BY CoreRow
    <2>2. m[2] \notin DOMAIN Layouts
      <3>1. m[2] \in {"waitcnt_.ws0_seq", "win0_.top_left.x", "soundbias_.resolution"}
        BY EntryParts, Zenon DEF Origins
      <3> QED  BY <3>1, LaidOut
    <2>3. m \in Shown(m) /\ m \in SetBy(m)
      BY <2>2 DEF Shown, SetBy
    <2>4. m \in Items
      BY <2>1 DEF Items, Has
    <2>5. m \in All
      BY <2>3, <2>4 DEF All
    <2>6. m \notin DOMAIN Derived
      <3>1. m[2] \in {"waitcnt_.ws0_seq", "win0_.top_left.x", "soundbias_.resolution"}
        BY EntryParts, Zenon DEF Origins
      <3>2. DOMAIN Derived = {<<"cpu", "stall_cycles_", "">>, <<"ppu", "win_buffer_", "">>,
                              <<"apu", "resampler_.resample_phase_shift_", "">>}
        BY DEF Derived
      <3>3. \A k \in DOMAIN Derived :
              k[2] \in {"stall_cycles_", "win_buffer_", "resampler_.resample_phase_shift_"}
        BY <3>2, EntryParts, Zenon
      <3> QED  BY <3>1, <3>3
    <2>7. Place[m] # 0
      BY <2>1, <2>3, <2>5, Placed
    <2> QED  BY <2>5, <2>6, <2>7
  <1> QED  BY <1>1, <1>2

(* What is neither read nor computed. *)
LEMMA NotRead == ASSUME NEW m \in All, Place[m] = 0, m \notin DOMAIN Derived
                 PROVE  m \in Unsaved \union BeamFlags
  <1> SUFFICES ASSUME m \notin Unsaved PROVE m \in BeamFlags
    OBVIOUS
  <1>1. PICK item \in Items : m \in Shown(item)
    BY DEF All
  <1>2. Has(core_serialize, item)
    BY <1>1 DEF Items, Has
  <1>3. m \notin SetBy(item)
    BY <1>2, Placed
  <1>4. item[2] \in DOMAIN Layouts
    BY <1>1, <1>3 DEF Shown, SetBy
  <1>5. PICK f \in Layouts[item[2]][1] : m = <<item[1], item[2], f[1]>>
    BY <1>1, <1>4 DEF Shown
  <1>6. f \notin Layouts[item[2]][2]
    BY <1>3, <1>4, <1>5 DEF SetBy
  <1>7. item[2] = "dispstat_.lower" /\ f[1] \in {"vblank", "hblank", "vcounter"}
    BY <1>4, <1>5, <1>6, LayoutsFit DEF Fits
  <1>8. item[1] = "ppu"
    BY <1>2, <1>7, CoreRow DEF Proper, Has
  <1> QED  BY <1>5, <1>7, <1>8 DEF BeamFlags

----------------------------------------------------------------------------
(* An archive, or a machine, in which what a load computes is as it would be
   computed. *)
Agrees(archive) ==
    /\ DOMAIN archive = All
    /\ \A m \in DOMAIN Derived : archive[m] = archive[Derived[m]]

(* An archive that is loaded is there again, but for what no archive has. *)
Restored(archive) == \A m \in All : live[m] = archive[m] \/ m \in Unsaved \union BeamFlags

(* The invariant: every archive agrees, since the machine does whenever one is made. *)
SaveInv ==
    /\ Agrees(live)
    /\ default_state_ # None => Agrees(default_state_)
    /\ DOMAIN files = Slots
    /\ \A slot \in Slots : files[slot] # None => Agrees(files[slot])
    /\ source # None => Restored(source)

(* A load restores the archive, and what it computes agrees with it. *)
LEMMA Restores == ASSUME NEW archive, Agrees(archive)
                  PROVE  LET new == Deserialized(archive, 0) IN
                         /\ Agrees(new)
                         /\ \A m \in All : new[m] = archive[m] \/ m \in Unsaved \union BeamFlags
  <1> DEFINE new == Deserialized(archive, 0)
             read == [m \in All |-> IF Place[m] = 0 THEN live[m] ELSE Read(archive, m, 0 + Place[m])]
  <1>1. ASSUME NEW m \in All, Place[m] # 0 PROVE read[m] = archive[m]
    <2>1. /\ Place[m] \in DOMAIN core_serialize /\ core_serialize[Place[m]] = core_deserialize[Place[m]]
          /\ Whole(m) /\ Place[m] \in Nat
      BY <1>1, Placed
    <2>2. 0 + Place[m] = Place[m]
      BY <2>1
    <2>3. read[m] = Read(archive, m, 0 + Place[m])
      BY <1>1
    <2>4. Read(archive, m, Place[m]) = archive[m]
      BY <2>1 DEF Read
    <2> QED  BY <2>2, <2>3, <2>4
  <1>2. new = [m \in All |-> IF m \in DOMAIN Derived THEN read[Derived[m]] ELSE read[m]]
    BY DEF Deserialized
  <1> HIDE DEF read, new
  <1>3. ASSUME NEW m \in DOMAIN Derived PROVE new[m] = archive[m] /\ new[m] = new[Derived[m]]
    <2>1. m \in All /\ Derived[m] \in All /\ Derived[m] \notin DOMAIN Derived /\ Place[Derived[m]] # 0
      BY DerivedFrom
    <2>2. new[m] = read[Derived[m]] /\ new[Derived[m]] = read[Derived[m]]
      BY <1>2, <2>1
    <2>3. read[Derived[m]] = archive[Derived[m]]
      BY <1>1, <2>1
    <2>4. archive[m] = archive[Derived[m]]
      BY DEF Agrees
    <2> QED  BY <2>2, <2>3, <2>4
  <1>4. ASSUME NEW m \in All, m \notin Unsaved \union BeamFlags PROVE new[m] = archive[m]
    <2>1. CASE m \in DOMAIN Derived
      BY <1>3, <2>1
    <2>2. CASE m \notin DOMAIN Derived
      <3>1. Place[m] # 0
        BY <1>4, <2>2, NotRead
      <3> QED  BY <1>1, <1>2, <2>2, <3>1
    <2> QED  BY <2>1, <2>2
  <1>5. DOMAIN new = All
    BY <1>2
  <1>6. Agrees(new)
    BY <1>3, <1>5 DEF Agrees
  <1> QED  BY <1>4, <1>6 DEF new

(* A machine that has not run. *)
LEMMA SaveInitInv == SaveInit => SaveInv
  <1> SUFFICES ASSUME SaveInit PROVE SaveInv
    OBVIOUS
  <1>1. \A m \in All : live[m] = 1
    BY DEF SaveInit
  <1>2. Agrees(live)
    BY <1>1, DerivedFrom DEF Agrees, SaveInit
  <1> QED  BY <1>2 DEF SaveInv, SaveInit

(* Every step keeps the invariant. *)
LEMMA SaveNextInv == SaveInv /\ [SaveNext]_savevars => SaveInv'
  <1> SUFFICES ASSUME SaveInv, [SaveNext]_savevars PROVE SaveInv'
    OBVIOUS
  <1>1. CASE load_pak
    BY <1>1 DEF load_pak, SaveInv, Agrees, Restored
  <1>2. CASE reset
    <2>1. /\ default_state_ # None /\ live' = Deserialized(default_state_, 0)
          /\ source' = default_state_ /\ UNCHANGED <<default_state_, files>>
      BY <1>2 DEF reset
    <2>2. Agrees(default_state_)
      BY <2>1 DEF SaveInv
    <2>3. Agrees(live') /\ \A m \in All : live'[m] = source'[m] \/ m \in Unsaved \union BeamFlags
      BY <2>1, <2>2, Restores
    <2> QED  BY <2>1, <2>3 DEF SaveInv, Agrees, Restored
  <1>3. CASE \E i \in DOMAIN Components : tick_one_frame(Components[i])
    <2>1. PICK i \in DOMAIN Components : tick_one_frame(Components[i])
      BY <1>3
    <2> DEFINE c == Components[i]
    <2>2. /\ live' = [m \in All |-> IF m[1] \in c THEN runs' + 1 ELSE live[m]]
          /\ source' = None /\ UNCHANGED <<default_state_, files>>
      BY <2>1 DEF tick_one_frame
    <2> HIDE DEF c
    <2>3. ASSUME NEW m \in DOMAIN Derived PROVE live'[m] = live'[Derived[m]]
      <3>1. m \in All /\ Derived[m] \in All /\ m[1] = Derived[m][1]
        BY DerivedFrom
      <3>2. live[m] = live[Derived[m]]
        BY DEF SaveInv, Agrees
      <3> QED  BY <2>2, <3>1, <3>2
    <2>4. DOMAIN live' = All
      BY <2>2
    <2>5. Agrees(live')
      BY <2>3, <2>4 DEF Agrees
    <2> QED  BY <2>2, <2>5 DEF SaveInv, Agrees
  <1>4. CASE \E slot \in Slots : save_state(slot)
    <2>1. PICK slot \in Slots : save_state(slot)
      BY <1>4
    <2>2. /\ files' = [files EXCEPT ![slot] = live]
          /\ UNCHANGED <<live, default_state_, source>>
      BY <2>1 DEF save_state
    <2>3. DOMAIN files' = Slots /\ \A s \in Slots : files'[s] = live \/ files'[s] = files[s]
      BY <2>2 DEF SaveInv
    <2>4. \A s \in Slots : files'[s] # None => Agrees(files'[s])
      BY <2>3 DEF SaveInv
    <2> QED  BY <2>2, <2>3, <2>4 DEF SaveInv, Agrees, Restored
  <1>5. CASE \E slot \in Slots : load_state(slot)
    <2>1. PICK slot \in Slots : load_state(slot)
      BY <1>5
    <2>2. /\ files[slot] # None /\ live' = Deserialized(files[slot], 0)
          /\ source' = files[slot] /\ UNCHANGED <<default_state_, files>>
      BY <2>1 DEF load_state
    <2>3. Agrees(files[slot])
      BY <2>2 DEF SaveInv
    <2>4. Agrees(live') /\ \A m \in All : live'[m] = source'[m] \/ m \in Unsaved \union BeamFlags
      BY <2>2, <2>3, Restores
    <2> QED  BY <2>2, <2>4 DEF SaveInv, Agrees, Restored
  <1>6. CASE UNCHANGED savevars
    BY <1>6 DEF savevars, SaveInv, Agrees, Restored
  <1> QED  BY <1>1, <1>2, <1>3, <1>4, <1>5, <1>6 DEF SaveNext

(* Whatever the game pak has on it, however many slots there are and whatever was
   saved, run, loaded and reset before: after a load or a reset every member of every
   component is as it was in the archive, but for the members that no archive has and
   the beam's flags of DISPSTAT (core.h, archive.h, and serialize and deserialize of
   each class). *)
THEOREM StateRestored == SaveInit /\ [][SaveNext]_savevars => []LoadRestores
  <1>1. SaveInv => LoadRestores
    BY DEF SaveInv, Restored, LoadRestores
  <1> QED  BY <1>1, SaveInitInv, SaveNextInv, PTL
==============================================================================
