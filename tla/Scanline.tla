------------------------------ MODULE Scanline ------------------------------
(***************************************************************************)
(* What the renderer carries from one line to the next: whether a window   *)
(* is open (win_can_draw_flags_), the internal reference point of an       *)
(* affine background, which the end of each line moves, and the vertical   *)
(* counter of the mosaic.  A program rewrites the registers between any    *)
(* two lines.  One window of two, one coordinate of one background of two. *)
(*                                                                         *)
(* `settled', `count', `since' and `clean' are ghosts: lines since the     *)
(* window was last touched, lines drawn since the reference point was last *)
(* latched and since the mosaic counter was last cleared, and whether the  *)
(* background has been left alone since that latch.                        *)
(***************************************************************************)
EXTENDS Integers

CONSTANTS
    Rows,           \* total_lines, 228 in the code
    VisibleRows,    \* screen_height, 160
    Edges,          \* values of the vertical coordinates of a window
    References,     \* values of a reference point
    Slopes,         \* values of pb
    Sizes           \* heights of the blocks of the mosaic

ASSUME ScanlineAssumption ==
    /\ VisibleRows \in Nat \ {0} /\ Rows \in Nat /\ VisibleRows < Rows
    /\ Edges \subseteq Nat /\ References \subseteq Int /\ Slopes \subseteq Int
    /\ Sizes \subseteq Nat \ {0}

VARIABLES
    row,            \* vcount_
    drawing,        \* on_hblank is the next event, not on_hdraw
    win,            \* the window: whether DISPCNT enables it, top_left.y, bottom_right.y
    can_draw,       \* win_can_draw_flags_
    bg,             \* ref, internal and pb of the background, and whether it has the mosaic
    affine,         \* bg_mode is not 0
    mosaic,         \* v and internal.v
    settled, count, since, clean

windowvars == <<win, can_draw, settled>>
bgvars == <<bg, affine, mosaic, count, since, clean>>
scanvars == <<row, drawing, windowvars, bgvars>>

ScanInit ==
    /\ row = 0 /\ drawing = TRUE
    /\ win = [enabled |-> FALSE, top |-> 0, bottom |-> 0]
    /\ can_draw = FALSE
    /\ bg = [ref |-> 0, internal |-> 0, pb |-> 0, mosaic |-> FALSE]
    /\ affine = FALSE
    /\ mosaic = [v |-> 1, iv |-> 0]
    /\ settled = 0 /\ count = 0 /\ since = 0 /\ clean = TRUE
-----------------------------------------------------------------------------
(* generate_window_buffer, its first half. *)
Opens(w, line, open) ==
    IF line = w.bottom THEN FALSE ELSE IF line = w.top THEN TRUE ELSE open

update_internal_v(m) == [m EXCEPT !.iv = IF m.iv + 1 = m.v THEN 0 ELSE m.iv + 1]

(* update_bg_affine_internals, after the counter of the mosaic.  Mutant: a
   block of the mosaic moves the point as one line does. *)
MovedOnce(b, m) ==
    IF b.mosaic THEN (IF m.iv = 0 THEN b.internal + b.pb ELSE b.internal) ELSE b.internal + b.pb
Moved(b, m) ==
    IF b.mosaic THEN (IF m.iv = 0 THEN b.internal + b.pb * m.v ELSE b.internal)
                ELSE b.internal + b.pb

ScanHblank ==
    /\ drawing
    /\ drawing' = FALSE
    /\ can_draw' = IF win.enabled THEN Opens(win, row, can_draw) ELSE can_draw
    /\ settled' = IF win.enabled /\ settled < Rows THEN settled + 1 ELSE settled
    /\ IF row < VisibleRows
         THEN /\ mosaic' = update_internal_v(mosaic)
              /\ bg' = IF affine THEN [bg EXCEPT !.internal = Moved(bg, mosaic')] ELSE bg
              /\ count' = count + 1
              /\ since' = since + 1
         ELSE UNCHANGED <<mosaic, bg, count, since>>
    /\ UNCHANGED <<row, win, affine, clean>>

(* The mosaic starts anew, and the reference point is latched, on the first
   line below the screen. *)
ScanHdraw ==
    /\ ~drawing
    /\ drawing' = TRUE
    /\ row' = (row + 1) % Rows
    /\ IF row' = VisibleRows
         THEN /\ mosaic' = [mosaic EXCEPT !.iv = 0]
              /\ bg' = [bg EXCEPT !.internal = bg.ref]
              /\ count' = 0 /\ since' = 0 /\ clean' = TRUE
         ELSE UNCHANGED <<mosaic, bg, count, since, clean>>
    /\ UNCHANGED <<windowvars, affine>>
-----------------------------------------------------------------------------
(* The registers of the window: DISPCNT's bit, WIN0V *)
WriteWindow(w) ==
    /\ w # win
    /\ win' = w
    /\ settled' = 0
    /\ UNCHANGED <<row, drawing, can_draw, bgvars>>

EnableWindow == WriteWindow([win EXCEPT !.enabled = ~win.enabled])
MoveTop == \E y \in Edges : WriteWindow([win EXCEPT !.top = y])
MoveBottom == \E y \in Edges : WriteWindow([win EXCEPT !.bottom = y])

(* BG2X: the last of its bytes; each of them latches. *)
WriteReference ==
    /\ \E r \in References : bg' = [bg EXCEPT !.ref = r, !.internal = r]
    /\ count' = 0
    /\ clean' = (~bg.mosaic \/ mosaic.iv = 0)
    /\ UNCHANGED <<row, drawing, windowvars, affine, mosaic, since>>

(* BG2PB *)
WriteSlope ==
    /\ \E p \in Slopes \ {bg.pb} : bg' = [bg EXCEPT !.pb = p]
    /\ clean' = (clean /\ count = 0)
    /\ UNCHANGED <<row, drawing, windowvars, affine, mosaic, count, since>>

(* BG2CNT *)
WriteBgcnt ==
    /\ bg' = [bg EXCEPT !.mosaic = ~bg.mosaic]
    /\ clean' = (clean /\ count = 0 /\ (bg.mosaic \/ mosaic.iv = 0))
    /\ UNCHANGED <<row, drawing, windowvars, affine, mosaic, count, since>>

(* DISPCNT's mode *)
WriteMode ==
    /\ affine' = ~affine
    /\ clean' = (clean /\ count = 0)
    /\ UNCHANGED <<row, drawing, windowvars, bg, mosaic, count, since>>

(* MOSAIC. *)
Resized(m, v) == [v |-> v, iv |-> 0]

WriteMosaic ==
    /\ \E v \in Sizes : mosaic' = Resized(mosaic, v)
    /\ since' = 0
    /\ clean' = (clean /\ (count = 0 \/ ~bg.mosaic))
    /\ UNCHANGED <<row, drawing, windowvars, bg, affine, count>>

Beam == ScanHblank \/ ScanHdraw
WritesWindow == EnableWindow \/ MoveTop \/ MoveBottom
WritesBackground == WriteReference \/ WriteSlope \/ WriteBgcnt \/ WriteMode \/ WriteMosaic

ScanNext == Beam \/ WritesWindow \/ WritesBackground
ScanSpec == ScanInit /\ [][ScanNext]_scanvars
-----------------------------------------------------------------------------
(* Lines since the beam last met one; an edge outside the frame is never met. *)
Back(y) == IF y < Rows THEN (row - y) % Rows ELSE Rows

(* A window that has been left alone for a frame is open on the lines from
   its top to its bottom, around the end of the frame when they are in that
   order: whatever it was before, and whichever of its lines the frame was at
   when it was enabled (generate_window_buffer, ppu_window.cpp). *)
WindowOpens ==
    settled = Rows /\ ~drawing /\ (win.top < Rows \/ win.bottom < Rows) =>
        can_draw = (Back(win.top) < Back(win.bottom))

(* The counter of the mosaic is the distance to the top of the block the line
   is in; and an affine background that is left alone shows, on each line or
   on the top line of each block, the line that its latched reference point
   and its slope give: no rewrite leaves a trace beyond the next latch
   (on_hblank and on_hdraw of ppu.cpp). *)
LinesOnTrack ==
    /\ mosaic.iv = since % mosaic.v
    /\ clean /\ affine =>
        bg.internal = bg.ref + bg.pb * (IF bg.mosaic THEN count - (count % mosaic.v) ELSE count)

(* What a line is rendered from follows the registers, however they are
   rewritten from line to line (generate_window_buffer, on_hblank, on_hdraw). *)
LinesFollowRegisters == WindowOpens /\ LinesOnTrack
=============================================================================
