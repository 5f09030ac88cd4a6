------------------------------- MODULE MCDma --------------------------------
(***************************************************************************)
(* Dma for TLC.  A few channels at a time, each with the settings that the *)
(* run is about.                                                           *)
(***************************************************************************)
EXTENDS Dma

Off == [enabled |-> FALSE, when |-> "immediately", repeat |-> FALSE, reload |-> FALSE]
On(when, repeat) == [enabled |-> TRUE, when |-> when, repeat |-> repeat, reload |-> FALSE]

BothFifos == [c \in 0..3 |-> IF c = 1 THEN "fifo_a" ELSE IF c = 2 THEN "fifo_b" ELSE "none"]

(* A blanking channel over a sound channel over a video channel. *)
MixedChannels == {0, 1, 3}
MixedSettings ==
    [c \in MixedChannels |->
        CASE c = 0 -> {Off, On("hblank", TRUE), On("vblank", FALSE), On("immediately", FALSE),
                       [On("hblank", FALSE) EXCEPT !.reload = TRUE]}
          [] c = 1 -> {Off, On("special", TRUE), On("special", FALSE)}
          [] c = 3 -> {Off, On("special", TRUE), On("immediately", FALSE)}]

(* One sound channel of a program that is not disciplined. *)
FastChannels == {1}
FastSettings == [c \in FastChannels |-> {Off, On("special", TRUE)}]
=============================================================================
