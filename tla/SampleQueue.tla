---------------------------- MODULE SampleQueue -----------------------------
(***************************************************************************)
(* What a sound FIFO promises: samples come out in the order in which they *)
(* went in, and those that do not fit are dropped.  When it has run dry,   *)
(* the output is some sample that is or was in it.                         *)
(***************************************************************************)
EXTENDS Integers, Sequences

CONSTANTS
    capacity,           \* 32 in the code
    Samples             \* the values of a byte

VARIABLES
    queue,              \* the samples that wait
    latch               \* the one that is being played

vars == <<queue, latch>>

Init == queue = <<>> /\ latch \in Samples

Put(sample) ==
    /\ queue' = IF Len(queue) < capacity THEN Append(queue, sample) ELSE queue
    /\ UNCHANGED latch

Take ==
    /\ queue # <<>>
    /\ latch' = Head(queue)
    /\ queue' = Tail(queue)

RunDry ==
    /\ queue = <<>>
    /\ latch' \in Samples
    /\ UNCHANGED queue

Clear == queue' = <<>> /\ UNCHANGED latch

Next == (\E sample \in Samples : Put(sample)) \/ Take \/ RunDry \/ Clear

Spec == Init /\ [][Next]_vars
=============================================================================
