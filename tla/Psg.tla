-------------------------------- MODULE Psg ---------------------------------
(***************************************************************************)
(* A channel of the programmable sound generator (apu/apu_*_channel.cpp)   *)
(* with the frame sequencer that clocks its length, sweep and envelope     *)
(* (apu.cpp) and the registers that a program writes (core_bus.cpp).       *)
(*                                                                         *)
(* The four channels share nothing but the sequencer and the power switch, *)
(* so that the model has one of them, of any kind.  It has two events in   *)
(* the scheduler for ever, the sequencer's and the channel's output; when  *)
(* they are due is left open, and with it what only shapes a wave: duty,   *)
(* wave RAM and its banks, the shift register and its clock.               *)
(***************************************************************************)
EXTENDS Integers

CONSTANTS
    Kinds,              \* the kinds of channel: pulse1, which sweeps, pulse2, wave, noise
    Rates,              \* 2048: every sample rate is below
    LowRates,           \* 256: the low byte of a rate
    Lengths,            \* 64, and 256 for the wave channel
    Volumes,            \* 15
    Shifts,             \* 7
    TimerMax,           \* 8, what stands for a period of 0
    Envelopes,          \* for each kind, the envelopes that the program writes
    Sweeps              \* the sweeps that it writes

Envelope == [period : 0..(TimerMax - 1), increase : BOOLEAN, initial : 0..Volumes]
Sweep == [period : 0..(TimerMax - 1), increase : BOOLEAN, shift : 0..Shifts]

ASSUME PsgAssumption ==
    /\ Kinds \subseteq {"pulse1", "pulse2", "wave", "noise"}
    /\ Rates \in Nat \ {0} /\ LowRates \in Nat \ {0} /\ Rates % LowRates = 0
    /\ Lengths \in Nat \ {0} /\ Volumes \in Nat
    /\ Shifts \in Nat /\ \A s \in 0..Shifts : 2^s \in Nat \ {0}
    /\ TimerMax \in Nat \ {0}
    /\ \A k \in Kinds : Envelopes[k] \subseteq Envelope
    /\ Sweeps \subseteq Sweep

VARIABLES
    kind,               \* which channel it is
    power_on,           \* power_on_ of the engine
    frame_sequencer,    \* frame_sequencer_
    env, env_timer,     \* the envelope and its timer
    swp, swp_timer,     \* the sweep and its timer, for pulse1
    shadow,             \* swp.shadow
    swp_enabled,        \* swp.enabled
    rate,               \* freq_data.sample_rate
    use_counter,        \* freq_control.use_counter
    sound_length,       \* as the register holds it
    length_counter,     \* length_counter
    volume,             \* the envelope's
    output,             \* its magnitude: 0 is silence
    enabled,            \* whether it plays
    dac_enabled,        \* dac_enabled
    counted             \* ghost: whether the last note was given a length

envelope == <<env_timer, volume>>
sweep == <<swp_timer, shadow, swp_enabled>>
playing == <<length_counter, output, enabled>>
registers == <<env, swp, rate, use_counter, sound_length, dac_enabled>>
psgvars == <<kind, power_on, frame_sequencer, envelope, sweep, playing, registers, counted>>

Pulse == kind \in {"pulse1", "pulse2"}
NoEnvelope == [period |-> 0, increase |-> FALSE, initial |-> 0]
NoSweep == [period |-> 0, increase |-> TRUE, shift |-> 0]

(* The machine is switched on with the power of the sound off. *)
PsgInit ==
    /\ kind \in Kinds
    /\ power_on = FALSE
    /\ frame_sequencer = 0
    /\ env = NoEnvelope /\ env_timer = 0
    /\ swp = NoSweep /\ swp_timer = 0 /\ shadow = 0 /\ swp_enabled = FALSE
    /\ rate = 0 /\ use_counter = FALSE
    /\ sound_length = 0 /\ length_counter = 0
    /\ volume = 0 /\ output = 0
    /\ enabled = TRUE /\ dac_enabled = TRUE
    /\ counted = FALSE
-----------------------------------------------------------------------------
(* length_click: the counter runs, and when it ends the note does.  Mutant:
   the end is looked for before the counter is decremented. *)
Counts == use_counter /\ length_counter > 0
OverBefore == Counts /\ length_counter = 0
Over == Counts /\ length_counter = 1

LengthClick == length_counter' = IF Counts THEN length_counter - 1 ELSE length_counter

(* What ends a note disables the channel.  A pulse channel falls silent at
   once, the others with their next sample. *)
Silence(ends) ==
    /\ enabled' = (enabled /\ ~ends)
    /\ output' = IF Pulse /\ ends THEN 0 ELSE output

(* Timers count down to 0 and start again from their period, or from 8. *)
Expires(timer) == timer - 1 <= 0
Reloaded(period) == IF period = 0 THEN TimerMax ELSE period
Click(timer, period) == IF Expires(timer) THEN Reloaded(period) ELSE timer - 1

(* sweep_calculation: the rate that follows f, and whether it is too high. *)
NewFreq(f, s) == IF s.increase THEN f + f \div 2^s.shift ELSE f - f \div 2^s.shift
Overflows(f, s) == NewFreq(f, s) >= Rates

(* sweep_click: a rate that fits is taken, and the one after it is tried too.
   Mutant: one that does not fit is taken, too. *)
SweepRuns == kind = "pulse1" /\ Expires(swp_timer) /\ swp_enabled /\ swp.period > 0
MovesAlways == SweepRuns /\ swp.shift > 0
Moves == SweepRuns /\ ~Overflows(shadow, swp) /\ swp.shift > 0
ShadowAfter == IF Moves THEN NewFreq(shadow, swp) ELSE shadow
SweptOut ==
    SweepRuns /\ (Overflows(shadow, swp) \/ (Moves /\ Overflows(NewFreq(shadow, swp), swp)))

SweepClick ==
    /\ swp_timer' = IF kind = "pulse1" THEN Click(swp_timer, swp.period) ELSE swp_timer
    /\ shadow' = ShadowAfter
    /\ rate' = IF Moves THEN NewFreq(shadow, swp) ELSE rate
    /\ UNCHANGED swp_enabled

(* envelope_click. *)
Step(v) == IF env.increase THEN (IF v < Volumes THEN v + 1 ELSE v)
           ELSE (IF v > 0 THEN v - 1 ELSE v)

EnvelopeClick ==
    /\ env_timer' = Click(env_timer, env.period)
    /\ volume' = IF Expires(env_timer) /\ env.period > 0 THEN Step(volume) ELSE volume
-----------------------------------------------------------------------------
(* tick_sequencer, 512 times a second: lengths at every other step, sweeps at
   every fourth, before the lengths, and envelopes at the last of eight. *)
Lengthens ==
    /\ frame_sequencer \in {0, 4}
    /\ LengthClick /\ Silence(Over)
    /\ UNCHANGED <<sweep, rate, envelope>>

Sweeping ==
    /\ frame_sequencer \in {2, 6}
    /\ SweepClick /\ LengthClick /\ Silence(SweptOut \/ Over)
    /\ UNCHANGED envelope

Envelops ==
    /\ frame_sequencer = 7
    /\ IF kind # "wave" THEN EnvelopeClick ELSE UNCHANGED envelope
    /\ UNCHANGED <<sweep, rate, playing>>

Idles ==
    /\ frame_sequencer \in {1, 3, 5}
    /\ UNCHANGED <<sweep, rate, envelope, playing>>

TickSequencer ==
    /\ frame_sequencer' = (frame_sequencer + 1) % 8
    /\ Lengthens \/ Sweeping \/ Envelops \/ Idles
    /\ UNCHANGED <<kind, power_on, env, swp, use_counter, sound_length, dac_enabled, counted>>

(* generate_output_sample; what a channel that plays puts out is its volume,
   or for the wave channel whatever the program has put into the wave RAM. *)
Plays == enabled /\ dac_enabled
GenerateOutputSample ==
    /\ \E sample \in (IF kind = "wave" THEN 0..Volumes ELSE {volume}) :
           output' = IF Plays THEN sample ELSE 0
    /\ UNCHANGED <<kind, power_on, frame_sequencer, envelope, sweep, length_counter, enabled,
                   registers, counted>>
-----------------------------------------------------------------------------
(* The registers, which the program cannot write while the power is off. *)
RegisterWrite ==
    power_on /\ UNCHANGED <<kind, power_on, frame_sequencer>>

WriteSweep(s) ==
    /\ RegisterWrite /\ kind = "pulse1"
    /\ swp' = s
    /\ UNCHANGED <<env, rate, use_counter, sound_length, dac_enabled, envelope, sweep, playing,
                   counted>>

(* Wave data of a pulse channel, where the output is adjusted, or the length
   register of the others; the noise channel keeps the difference. *)
LengthRegister(data) == IF kind = "noise" THEN Lengths - data ELSE data
WriteLength(data) ==
    /\ RegisterWrite
    /\ sound_length' = LengthRegister(data)
    /\ output' = IF ~Pulse THEN output ELSE IF Plays THEN volume ELSE 0
    /\ UNCHANGED <<env, swp, rate, use_counter, dac_enabled, envelope, sweep, length_counter,
                   enabled, counted>>

WriteEnvelope(e) ==
    /\ RegisterWrite /\ kind # "wave"
    /\ env' = e
    /\ dac_enabled' = (e.initial > 0 \/ e.increase)
    /\ UNCHANGED <<swp, rate, use_counter, sound_length, envelope, sweep, playing, counted>>

WriteEnable(dac) ==
    /\ RegisterWrite /\ kind = "wave"
    /\ dac_enabled' = dac
    /\ UNCHANGED <<env, swp, rate, use_counter, sound_length, envelope, sweep, playing, counted>>

(* The low and the high byte of the rate; the noise channel has none. *)
WriteFreqData(low) ==
    /\ RegisterWrite /\ kind # "noise"
    /\ rate' = (rate \div LowRates) * LowRates + low
    /\ UNCHANGED <<env, swp, use_counter, sound_length, dac_enabled, envelope, sweep, playing,
                   counted>>

WithHigh(high) == IF kind = "noise" THEN rate ELSE high * LowRates + (rate % LowRates)

(* restart, with the rate f that has just been written. *)
NoteLength == IF Pulse THEN Lengths - sound_length ELSE sound_length

RestartSweep(f) ==
    IF Pulse
    THEN /\ swp_enabled' = (swp.period > 0 \/ swp.shift > 0)
         /\ swp_timer' = Reloaded(swp.period)
         /\ shadow' = f
    ELSE UNCHANGED sweep

RestartEnvelope ==
    IF kind = "wave" THEN UNCHANGED envelope
    ELSE /\ volume' = env.initial
         /\ env_timer' = IF Pulse THEN env.period ELSE Reloaded(env.period)

Restart(f) ==
    /\ length_counter' = NoteLength
    /\ counted' = (NoteLength > 0)
    /\ RestartEnvelope
    /\ RestartSweep(f)
    /\ enabled' = ~(Pulse /\ swp.shift > 0 /\ Overflows(f, swp))
    /\ output' = IF ~Pulse THEN output ELSE IF enabled' /\ dac_enabled THEN env.initial ELSE 0

FreqControl(high, counter) ==
    /\ RegisterWrite
    /\ rate' = WithHigh(high)
    /\ use_counter' = counter
    /\ UNCHANGED <<env, swp, sound_length, dac_enabled>>

WriteFreqControl(high, counter) ==
    FreqControl(high, counter) /\ UNCHANGED <<envelope, sweep, playing, counted>>

Trigger(high, counter) ==
    FreqControl(high, counter) /\ Restart(WithHigh(high))

(* SOUNDCNT_X: switching the power off writes 0 to every register, which has
   no effect if it is off already, and disables the channel. *)
ClearedRegisters ==
    /\ env' = NoEnvelope /\ swp' = NoSweep
    /\ rate' = 0 /\ use_counter' = FALSE
    /\ sound_length' = LengthRegister(0)
    /\ dac_enabled' = FALSE

PowerOff ==
    /\ IF power_on THEN ClearedRegisters ELSE UNCHANGED registers
    /\ power_on' = FALSE
    /\ length_counter' = 0
    /\ enabled' = FALSE
    /\ output' = IF kind = "wave" THEN output ELSE 0
    /\ UNCHANGED <<kind, frame_sequencer, envelope, sweep, counted>>

PowerOn ==
    /\ ~power_on
    /\ power_on' = TRUE
    /\ frame_sequencer' = 0
    /\ UNCHANGED <<kind, envelope, sweep, playing, registers, counted>>
-----------------------------------------------------------------------------
Highs == 0..((Rates \div LowRates) - 1)
Triggers == \E high \in Highs, counter \in BOOLEAN : Trigger(high, counter)
WritesEnvelope == \E e \in Envelopes[kind] : WriteEnvelope(e)
WritesSweep == \E s \in Sweeps : WriteSweep(s)

PsgNext ==
    \/ TickSequencer
    \/ GenerateOutputSample
    \/ WritesSweep
    \/ \E data \in 0..(Lengths - 1) : WriteLength(data)
    \/ WritesEnvelope
    \/ \E dac \in BOOLEAN : WriteEnable(dac)
    \/ \E low \in 0..(LowRates - 1) : WriteFreqData(low)
    \/ \E high \in Highs, counter \in BOOLEAN : WriteFreqControl(high, counter)
    \/ Triggers
    \/ PowerOff
    \/ PowerOn

(* Both events schedule themselves again whenever they fire. *)
PsgFairness == WF_psgvars(TickSequencer) /\ WF_psgvars(GenerateOutputSample)

PsgSpec == PsgInit /\ [][PsgNext]_psgvars /\ PsgFairness
-----------------------------------------------------------------------------
(* Types.  The one that matters is that of rate: a rate of 2048 would make the
   period of the output 0, and the event of the next sample due at once, for
   ever; the sweep must not reach it however the program rewrites its registers
   while it runs, and a falling sweep must not go below 0. *)
PsgTypeOK ==
    /\ kind \in Kinds
    /\ power_on \in BOOLEAN
    /\ frame_sequencer \in 0..7
    /\ env \in Envelope /\ env_timer \in 0..TimerMax
    /\ swp \in Sweep /\ swp_timer \in 0..TimerMax
    /\ shadow \in 0..(Rates - 1) /\ swp_enabled \in BOOLEAN
    /\ rate \in 0..(Rates - 1) /\ use_counter \in BOOLEAN
    /\ sound_length \in 0..Lengths /\ length_counter \in 0..Lengths
    /\ volume \in 0..Volumes /\ output \in 0..Volumes
    /\ enabled \in BOOLEAN /\ dac_enabled \in BOOLEAN
    /\ counted \in BOOLEAN

(* A note with a length ends: if the program does not trigger another, does not
   stop its counter and does not forget to give it a length, then the channel is
   disabled and falls silent, whatever else is written in the meantime. *)
NoteEnds ==
    <>[][~Triggers]_psgvars => []<>(~use_counter \/ ~counted \/ (~enabled /\ output = 0))

(* An envelope comes to its end, silence or the highest volume, and so it does
   from a volume that was set by an earlier envelope. *)
EnvelopeEnds ==
    <>[][~(Triggers \/ WritesEnvelope)]_psgvars =>
        []<>(env.period = 0 \/ volume = IF env.increase THEN Volumes ELSE 0)

(* A sweep that rises is ended by its overflow, whatever the program writes to
   the frequency that it started from. *)
Rises == swp_enabled /\ swp.increase /\ swp.period > 0 /\ swp.shift > 0 /\ shadow >= 2^swp.shift
SweepEnds ==
    <>[][~(Triggers \/ WritesSweep)]_psgvars => []<>(~Rises \/ ~enabled)

(* What a note began comes to its end in all three ways. *)
NotesEnd == NoteEnds /\ EnvelopeEnds /\ SweepEnds
=============================================================================
