-------------------------------- MODULE MCApu --------------------------------
(***************************************************************************)
(* Three parts of the APU, each while the others rest: a FIFO of four      *)
(* samples that is refilled two at a time, a channel of the generator, and *)
(* the sound buffer.  The noise channel has the envelopes that rise and    *)
(* fall, the pulse channel the sweeps; pulse2 does what pulse1 does while  *)
(* no sweep is written.                                                    *)
(***************************************************************************)
EXTENDS Fifo, Psg, SoundBuffer

VARIABLE part

apuvars == <<vars, psgvars, soundvars, part>>

ApuInit ==
    /\ part \in {"fifo", "psg", "sound"}
    /\ Init
    /\ PsgInit /\ (part = "psg" \/ kind = "wave")
    /\ SoundInit /\ (part = "sound" \/ (capacity_ = 1 /\ resample_phase_shift_ = 2))

PsgActs(action) == part = "psg" /\ action /\ UNCHANGED <<vars, soundvars, part>>

ApuNext ==
    \/ part = "fifo" /\ Next /\ UNCHANGED <<psgvars, soundvars, part>>
    \/ part = "sound" /\ SoundNext /\ UNCHANGED <<vars, psgvars, part>>
    \/ PsgActs(PsgNext)

ApuFairness ==
    WF_apuvars(PsgActs(TickSequencer)) /\ WF_apuvars(PsgActs(GenerateOutputSample))

ApuSpec == ApuInit /\ [][ApuNext]_apuvars /\ ApuFairness

Env(p, i, v) == [period |-> p, increase |-> i, initial |-> v]
Swp(p, i, n) == [period |-> p, increase |-> i, shift |-> n]

MCEnvelopes ==
    [pulse1 |-> {Env(0, FALSE, 2)},
     wave |-> {},
     noise |-> {Env(1, FALSE, 2), Env(1, TRUE, 1)}]

MCSweeps == {Swp(1, TRUE, 1), Swp(1, FALSE, 1), Swp(1, TRUE, 0)}
=============================================================================
