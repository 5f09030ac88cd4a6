----------------------------- MODULE SoundBuffer -----------------------------
(***************************************************************************)
(* The way of the mixed sound to the host: the mixer's event gives a       *)
(* sample to the resampler (apu_resampler.h), which writes as many as the  *)
(* host's rate needs into the sound buffer (apu_sound_buffer.h), which     *)
(* hands itself over when it is full.  The host sets the rates and the     *)
(* capacity, and saves and loads states.                                   *)
(*                                                                         *)
(* A sample is one of Tones, whatever the mixer and the cubic of the       *)
(* resampler make of it.  The phase is a number of parts of the interval   *)
(* between two samples of the mixer, a float in the code.                  *)
(***************************************************************************)
EXTENDS Integers, Sequences

CONSTANTS
    Tones,              \* the values of a sample; a new element of the buffer is 0
    Capacities,         \* what the host may set
    Interval,           \* the parts of an interval of the mixer: 1.0f
    PhaseShifts,        \* the intervals of the host, in the same parts
    Window              \* how many samples of the mixer OutputKeepsPace looks at

ASSUME SoundBufferAssumption ==
    /\ 0 \in Tones
    /\ Capacities \subseteq Nat \ {0}
    /\ Interval \in Nat \ {0}
    /\ PhaseShifts \subseteq Nat \ {0}
    /\ \E longest \in PhaseShifts : \A shift \in PhaseShifts : longest >= shift
    /\ Window \in Nat

VARIABLES
    capacity_, write_idx_, buffer_,     \* the members of sound_buffer
    resample_phase_, resample_phase_shift_,
    mixing,             \* write_sample is in its loop
    archived_sound,     \* what a saved state has of all this
    pending,            \* ghost: the samples since the buffer was handed over
    whole,              \* ghost: each block that was handed over was these samples
    taken, made         \* ghosts: the samples of the mixer and of the host, from
                        \* the start of the window

sink == <<capacity_, write_idx_, buffer_, pending, whole>>
rates == <<resample_phase_, resample_phase_shift_, taken, made>>
soundvars == <<sink, rates, mixing, archived_sound>>

SoundInit ==
    /\ capacity_ \in Capacities
    /\ write_idx_ = 0
    /\ buffer_ = [i \in 1..capacity_ |-> 0]
    /\ resample_phase_ = 0
    /\ resample_phase_shift_ \in PhaseShifts
    /\ mixing = FALSE
    /\ archived_sound = [write_idx |-> 0, buffer |-> buffer_, phase |-> 0]
    /\ pending = <<>> /\ whole = TRUE
    /\ taken = 0 /\ made = 0
-----------------------------------------------------------------------------
(* notify_on_overflow: with w samples in buffer, of which waiting should be
   all, the buffer is handed over if it is full. *)
Notify(w, capacity, buffer, waiting) ==
    /\ buffer_' = buffer
    /\ IF w = capacity
         THEN write_idx_' = 0 /\ pending' = <<>> /\ whole' = (whole /\ buffer = waiting)
         ELSE write_idx_' = w /\ pending' = waiting /\ UNCHANGED whole

Write(sample) ==
    /\ Notify(write_idx_ + 1, capacity_, [buffer_ EXCEPT ![write_idx_ + 1] = sample],
              Append(pending, sample))
    /\ UNCHANGED capacity_

(* set_capacity, with the index and the buffer that are there.  Mutant: the
   index stays where it is. *)
Kept(w, capacity) == w
Clipped(w, capacity) == IF w < capacity THEN w ELSE capacity
Resized(buffer, capacity) ==
    [i \in 1..capacity |-> IF i <= Len(buffer) THEN buffer[i] ELSE 0]

Fit(w, buffer, capacity) ==
    /\ capacity_' = capacity
    /\ Notify(Clipped(w, capacity), capacity, Resized(buffer, capacity),
              SubSeq(buffer, 1, Clipped(w, capacity)))
-----------------------------------------------------------------------------
(* tick_mixer: a sample of the mixer, which is written until the phase has
   reached the next one.  Nothing comes in between. *)
TickMixer ==
    /\ ~mixing /\ mixing' = TRUE
    /\ IF taken < Window THEN taken' = taken + 1 /\ made' = made ELSE taken' = 1 /\ made' = 0
    /\ UNCHANGED <<sink, resample_phase_, resample_phase_shift_, archived_sound>>

(* The body of the loop of write_sample. *)
Resample ==
    /\ mixing /\ resample_phase_ < Interval
    /\ \E sample \in Tones : Write(sample)
    /\ resample_phase_' = resample_phase_ + resample_phase_shift_
    /\ made' = made + 1
    /\ UNCHANGED <<resample_phase_shift_, taken, mixing, archived_sound>>

(* The end of write_sample.  Mutant: the phase starts at the new sample. *)
FromNewSample(phase) == 0
FromOldPhase(phase) == phase - Interval
Resampled ==
    /\ mixing /\ resample_phase_ >= Interval
    /\ resample_phase_' = FromOldPhase(resample_phase_)
    /\ mixing' = FALSE
    /\ UNCHANGED <<sink, resample_phase_shift_, taken, made, archived_sound>>

(* set_src_sample_rate and set_dst_sample_rate. *)
SetSampleRate ==
    /\ ~mixing
    /\ resample_phase_shift_' \in PhaseShifts
    /\ taken' = 0 /\ made' = 0
    /\ UNCHANGED <<sink, resample_phase_, mixing, archived_sound>>

SetCapacity ==
    /\ ~mixing
    /\ \E capacity \in Capacities : Fit(write_idx_, buffer_, capacity)
    /\ UNCHANGED <<rates, mixing, archived_sound>>

Save ==
    /\ ~mixing
    /\ archived_sound' = [write_idx |-> write_idx_, buffer |-> buffer_, phase |-> resample_phase_]
    /\ UNCHANGED <<sink, rates, mixing>>

(* deserialize: the buffer comes with the capacity of its archive, and is given
   its own again. *)
Load ==
    /\ ~mixing
    /\ Fit(archived_sound.write_idx, archived_sound.buffer, capacity_)
    /\ resample_phase_' = archived_sound.phase
    /\ taken' = 0 /\ made' = 0
    /\ UNCHANGED <<resample_phase_shift_, mixing, archived_sound>>

SoundNext ==
    \/ TickMixer \/ Resample \/ Resampled
    \/ SetSampleRate \/ SetCapacity \/ Save \/ Load

SoundSpec == SoundInit /\ [][SoundNext]_soundvars
-----------------------------------------------------------------------------
(* The next sample has its place in the buffer, the samples before it are those
   that were made, in order, and every block that the host was given was so,
   whatever capacity is set or comes with a state in between. *)
SoundInOrder ==
    /\ write_idx_ < capacity_ /\ Len(buffer_) = capacity_
    /\ SubSeq(buffer_, 1, write_idx_) = pending
    /\ whole

(* However the rates differ, the samples of the host neither lag behind the
   mixer nor run ahead of it: over any number of samples they are as long as
   those, give or take the one in which a window or a rate begins and the one in
   which it ends. *)
LongestShift == CHOOSE s \in PhaseShifts : \A t \in PhaseShifts : s >= t
OutputKeepsPace ==
    ~mixing => LET ahead == made * resample_phase_shift_ - taken * Interval
               IN  ahead < LongestShift /\ -ahead < LongestShift
=============================================================================
