------------------------------ MODULE MCFrames ------------------------------
(***************************************************************************)
(* Frames, and the states that are saved between them, in six parts, each  *)
(* while the others rest: the chain of the PPU's events, what its renderer *)
(* carries from line to line (with writes to the registers of a window, or *)
(* to those of a background), one dot of a line, the members of every      *)
(* component in a saved state, and the scheduler's events with the handles *)
(* that name them.  The screen of the chain has three lines.               *)
(***************************************************************************)
EXTENDS Ppu, Scanline, Pixels, SaveState, SavedEvents

VARIABLE part

MCEnables == [outside |-> 0..Backgrounds, win0 |-> {obj_layer, 2}, obj |-> {1, 2, 3}]

picturevars == <<vars, scanvars, pixelvars>>
statevars == <<savevars, eventvars>>
framevars == <<picturevars, statevars, part>>

FramesInit ==
    /\ part \in {"chain", "windows", "backgrounds", "dot", "members", "events"}
    /\ Init
    /\ ScanInit
    /\ PixelInit /\ (part = "dot" \/ region = "outside")
    /\ SaveInit
    /\ EventsInit

\* The drawing of objects over a dot stops when the cycles are used up.
UsedUp == cycles <= 0 /\ UNCHANGED pixelvars

FramesNext ==
    /\ UNCHANGED part
    /\ \/ part = "chain" /\ Next /\ UNCHANGED <<scanvars, pixelvars, statevars>>
       \/ part = "windows" /\ (Beam \/ WritesWindow) /\ UNCHANGED <<vars, pixelvars, statevars>>
       \/ part = "backgrounds" /\ (Beam \/ WritesBackground) /\ UNCHANGED <<vars, pixelvars, statevars>>
       \/ part = "dot" /\ (PixelNext \/ UsedUp) /\ UNCHANGED <<vars, scanvars, statevars>>
       \/ part = "members" /\ SaveNext /\ UNCHANGED <<picturevars, eventvars>>
       \/ part = "events" /\ EventsNext /\ UNCHANGED <<picturevars, savevars>>

FramesSpec == FramesInit /\ [][FramesNext]_framevars

\* The chain of events alone.
HaltedSpec == FramesInit /\ part = "chain" /\ [][part = "chain" /\ FramesNext]_framevars

\* Every dot is the one its column, its objects and its layers call for
\* (render_bg_regular_impl, render_affine_loop, render_obj, compose_impl).
PixelsExact ==
    part = "dot" => /\ objs = <<>> => DotsExact
                    /\ FrontObject
                    /\ LayersInOrder
                    /\ EffectsAllowed
=============================================================================
