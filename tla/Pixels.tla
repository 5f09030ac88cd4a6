------------------------------- MODULE Pixels -------------------------------
(***************************************************************************)
(* One line of the picture: the loops that fill the buffers of the         *)
(* backgrounds and objects column by column (ppu_render.inl, render_obj),  *)
(* as operators that give the column of the texture each dot comes from;   *)
(* and one dot of it, over which the objects are drawn in turn and whose   *)
(* layers are composed (render_obj, compose_impl).                         *)
(***************************************************************************)
EXTENDS Integers, Sequences, SequencesExt

CONSTANTS
    Columns,        \* screen_width, 240 in the code
    TileDots,       \* tile_dot_count, 8
    One,            \* 1 in the fixed point of affine coordinates, 256
    ByteRange,      \* the range of an u8, 256
    Backgrounds,    \* how many
    Priorities,     \* of backgrounds and objects, 0..3
    Enables,        \* the layers that each region of the window buffer enables
    Costs,          \* cycles that objects take
    Budget          \* render_cycles_remaining, 954 or 1210

VARIABLES
    entry,          \* the dot of obj_buffer_: priority, dot and is_alpha_blending
    region,         \* the dot of win_buffer_
    cycles,         \* render_cycles_remaining
    objs            \* ghost: the objects drawn over the dot

pixelvars == <<entry, region, cycles, objs>>

Transparent == 0
Xs == [x \in 1..Columns |-> x - 1]
(* The remainder of C++, which has the sign of the dividend. *)
Rem(a, b) == IF a < 0 THEN -((-a) % b) ELSE a % b
-----------------------------------------------------------------------------
(* render_bg_regular_impl: tile by tile, the first from within, the last cut
   off. *)
Start(x, map_x) == IF x = 0 THEN map_x % TileDots ELSE 0

RECURSIVE RegularFrom(_, _, _, _)
RegularFrom(x, hoffset, size, line) ==
    IF x >= Columns THEN line
    ELSE LET map_x == (x + hoffset) % size
             start == Start(x, map_x)
             end == IF x + TileDots > Columns THEN Columns - x ELSE TileDots
             tile == TileDots * (map_x \div TileDots)
         IN  RegularFrom(x + end - start, hoffset, size,
                         line \o [i \in 1..(end - start) |-> tile + start + i - 1])

(* The mosaic, in place.  A step of the loop: the line and internal.h. *)
Coarse(line, h) ==
    LET Step(s, x) == [line |-> [s.line EXCEPT ![x + 1] = s.line[x + 1 - s.ih]],
                       ih |-> IF s.ih + 1 = h THEN 0 ELSE s.ih + 1]
    IN  FoldLeft(Step, [line |-> line, ih |-> 0], Xs).line

(* render_affine_loop, one coordinate: the dot before the step. *)
AffineLine(ref, pa, mosaic_enabled, h) ==
    LET Step(s, x) ==
            LET line == Append(s.line, s.ref \div One)
            IN  IF ~mosaic_enabled THEN [s EXCEPT !.line = line, !.ref = s.ref + pa]
                ELSE IF s.ih + 1 = h THEN [line |-> line, ref |-> s.ref + pa * h, ih |-> 0]
                ELSE [s EXCEPT !.line = line, !.ih = s.ih + 1]
    IN  FoldLeft(Step, [line |-> <<>>, ref |-> ref, ih |-> 0], Xs).line

Wrapped(x, w) == IF x >= w THEN x % w ELSE IF x < 0 THEN w + Rem(x, w) ELSE x

(* render_obj: an object without flips or matrix, of the given width, that
   begins at column x; -1 where it leaves the buffer alone. *)
ObjLine(x, width, mosaic_enabled, h) ==
    LET Step(s, global_x) ==
            LET tex_x == global_x - x - s.ih
            IN  IF global_x < x \/ global_x >= x + width THEN [s EXCEPT !.line = Append(s.line, -1)]
                ELSE [line |-> Append(s.line, IF tex_x \in 0..(width - 1) THEN tex_x ELSE -1),
                      ih |-> IF ~mosaic_enabled THEN s.ih
                             ELSE LET ih == (s.ih + 1) % ByteRange IN IF ih = h THEN 0 ELSE ih]
    IN  FoldLeft(Step, [line |-> <<>>,
                        ih |-> IF mosaic_enabled THEN Rem(x, h) % ByteRange ELSE 0], Xs).line

(* generate_window_buffer, its second half: the columns between two edges. *)
Filled(l, r) ==
    IF l <= r THEN {x \in 0..(Columns - 1) : l <= x /\ x < r}
    ELSE {x \in 0..(Columns - 1) : x < r /\ r < Columns} \cup {x \in 0..(Columns - 1) : l <= x}
-----------------------------------------------------------------------------
(* The layers of a dot: the backgrounds by number, the objects and the
   backdrop.  An object: its priority, whether its dot is opaque,
   whether it is drawn, blended or opens the object window, and its cost. *)
obj_layer == 0
bd_layer == Backgrounds + 1

Objects == [priority : Priorities, opaque : BOOLEAN, mode : {"normal", "alpha_blending", "obj_window"},
            cost : Costs]

PixelInit ==
    /\ entry = [priority |-> 4, dot |-> Transparent, alpha |-> FALSE]
    /\ region \in {"outside", "win0"}
    /\ cycles = Budget
    /\ objs = <<>>

Takes(priority) == priority < entry.priority \/ entry.dot = Transparent

(* The next object of OAM; a dot is named by its place in `objs'. *)
DrawObj(obj) ==
    /\ cycles > 0
    /\ cycles' = cycles - obj.cost
    /\ objs' = Append(objs, obj)
    /\ IF obj.mode = "obj_window"
         THEN /\ region' = IF obj.opaque THEN "obj" ELSE region
              /\ UNCHANGED entry
         ELSE /\ entry' = IF ~Takes(obj.priority) THEN entry
                          ELSE IF obj.opaque
                          THEN [priority |-> obj.priority, dot |-> Len(objs'),
                                alpha |-> obj.mode = "alpha_blending"]
                          ELSE [entry EXCEPT !.priority = obj.priority]
              /\ UNCHANGED region

PixelNext == \E obj \in Objects : DrawObj(obj)

(* compose_impl.  The backgrounds in order of importance, the least first;
   insertion_sort is stable, so that the lowest number ends up on top. *)
Ordered(prio) ==
    Reverse(SetToSortSeq(DOMAIN prio,
                LAMBDA a, b : prio[a] < prio[b] \/ (prio[a] = prio[b] /\ a < b)))

(* Mutant: an object is behind a background of its own priority. *)
BehindEqual(priority, layer) == priority < layer.priority
InFrontOf(priority, layer) == priority <= layer.priority

bd == [type |-> bd_layer, priority |-> 4]

Composed(prio, shown) ==
    LET Exchange(s, i) ==
            IF i \in shown THEN [top |-> [type |-> i, priority |-> prio[i]], bottom |-> s.top] ELSE s
        s == FoldLeft(Exchange, [top |-> bd, bottom |-> bd], Ordered(prio))
    IN  IF obj_layer \in shown /\ InFrontOf(entry.priority, s.top)
          THEN <<obj_layer, s.top.type>>
        ELSE IF obj_layer \in shown /\ InFrontOf(entry.priority, s.bottom)
          THEN <<s.top.type, obj_layer>>
        ELSE <<s.top.type, s.bottom.type>>

(* The effect on the top layer; `first' and `second' are BLDCNT's targets. *)
Effect(layers, first, second, type, enabled) ==
    LET alpha == layers[1] = obj_layer /\ entry.alpha
    IN  IF ~enabled /\ ~alpha THEN "none"
        ELSE IF alpha /\ layers[2] \in second THEN "alpha_blend"
        ELSE IF layers[1] \in first /\ (layers[2] \in second \/ type # "alpha_blend") THEN type
        ELSE "none"

(* blend, one channel of five bits; an u8 between. *)
Blend(a, b, type, eva, evb, evy) ==
    LET Ev(e) == IF e < 16 THEN e ELSE 16
        byte == ((a * Ev(eva) + b * Ev(evb)) \div 16) % ByteRange
    IN  CASE type = "alpha_blend" -> IF byte < 31 THEN byte ELSE 31
          [] type = "brightness_inc" -> a + ((31 - a) * Ev(evy)) \div 16
          [] type = "brightness_dec" -> a - (a * Ev(evy)) \div 16
          [] OTHER -> a
-----------------------------------------------------------------------------
(* The loops give each column what its own coordinate says, for every
   scroll, slope, size of mosaic and pair of edges.  Left out are three cases
   in which they do not: a wrapped coordinate that is a negative multiple of
   the size, an object under the mosaic that begins left of the screen and
   off its grid, and a window whose edges are in reverse order and both
   beyond the screen. *)
DotsExact ==
    LET Top(x, h) == x - (x % h)
    IN  /\ \A hoffset \in 0..(4 * TileDots - 1), size \in {2 * TileDots, 4 * TileDots} :
             LET line == RegularFrom(0, hoffset, size, <<>>)
             IN  /\ line = [i \in 1..Columns |-> (i - 1 + hoffset) % size]
                 /\ \A h \in 1..5 : Coarse(line, h) = [i \in 1..Columns |-> line[Top(i - 1, h) + 1]]
        /\ \A ref \in -6..6, pa \in -5..5, h \in 1..5 :
             /\ AffineLine(ref, pa, FALSE, h) = [i \in 1..Columns |-> (ref + pa * (i - 1)) \div One]
             /\ AffineLine(ref, pa, TRUE, h) = [i \in 1..Columns |-> (ref + pa * Top(i - 1, h)) \div One]
        /\ \A w \in 1..4, x \in -9..9 : (x < 0 => x % w # 0) => Wrapped(x, w) = x % w
        /\ \A x \in -5..(Columns - 1), width \in {4, 8}, h \in 1..5 : (x < 0 => x % h = 0) =>
             ObjLine(x, width, TRUE, h) =
                [i \in 1..Columns |->
                    IF i - 1 \in x..(x + width - 1) /\ Top(i - 1, h) >= x THEN Top(i - 1, h) - x ELSE -1]
        /\ \A l, r \in 0..(Columns + 2) : ~(l > r /\ r >= Columns) =>
             Filled(l, r) = {x \in 0..(Columns - 1) : (x - l) % ByteRange < (x - r) % ByteRange}

(* The object of a dot is the front one: the lowest priority, and of those
   the first in OAM.  A transparent dot of an object that is nearer leaves
   the dot but lends it its priority, as on the console. *)
FrontObject ==
    LET Drawn(i) == objs[i].mode # "obj_window"
        Solid(i) == Drawn(i) /\ objs[i].opaque
        Before(i, j) == objs[i].priority < objs[j].priority
                            \/ (objs[i].priority = objs[j].priority /\ i < j)
        after == {i \in DOMAIN objs : Drawn(i) /\ \E j \in 1..i : Solid(j)}
    IN  /\ (entry.dot # Transparent) = (\E i \in DOMAIN objs : Solid(i))
        /\ entry.dot # Transparent =>
             /\ Solid(entry.dot)
             /\ entry.priority \in {objs[i].priority : i \in after}
             /\ \A i \in after : entry.priority <= objs[i].priority
             /\ \A i \in DOMAIN objs \ {entry.dot} :
                  Solid(i) => \/ Before(entry.dot, i)
                              \/ \E j \in after : ~Solid(j) /\ j < i /\ ~Before(i, j)

(* The two layers a dot is made of are the first two of those that show, by
   priority, then objects before backgrounds, then by number. *)
LayersInOrder ==
    \A prio \in [1..Backgrounds -> Priorities], opaque \in SUBSET (1..Backgrounds) :
        LET shown == Enables[region] \cap
                        (IF entry.dot # Transparent THEN opaque \cup {obj_layer} ELSE opaque)
            Key(l) == IF l = bd_layer THEN 40
                      ELSE IF l = obj_layer THEN 8 * entry.priority ELSE 8 * prio[l] + l
            layers == Composed(prio, shown)
            rest == (shown \cup {bd_layer}) \ {layers[1]}
        IN  /\ layers[1] \in shown \cup {bd_layer}
            /\ layers[2] \in rest \cup {bd_layer}
            /\ \A l \in rest : Key(layers[1]) <= Key(l) /\ Key(layers[2]) <= Key(l)

(* The effect of a dot: a blend needs the layer below as second target, a
   brightness the one on top as first; an alpha object on top blends with a
   second target whatever BLDCNT and the windows say.  No colour leaves its
   five bits, or the side of the old colour it belongs to. *)
EffectsAllowed ==
    /\ \A first, second \in SUBSET {obj_layer, 1, bd_layer}, enabled \in BOOLEAN,
          type \in {"none", "alpha_blend", "brightness_inc"} :
         LET layers == IF entry.dot # Transparent THEN <<obj_layer, 1>> ELSE <<1, bd_layer>>
             effect == Effect(layers, first, second, type, enabled)
         IN  /\ effect = "alpha_blend" => layers[2] \in second
             /\ effect = "brightness_inc" => layers[1] \in first /\ type = effect
             /\ entry.alpha /\ layers[2] \in second => effect = "alpha_blend"
             /\ ~enabled /\ effect # "none" => entry.alpha
    /\ objs = <<>> =>
         \A a, b \in {0, 1, 15, 30, 31}, e, f \in {0, 7, 16, 31} :
            /\ Blend(a, b, "alpha_blend", e, f, 0) \in 0..31
            /\ e + f <= 16 =>
                 Blend(a, b, "alpha_blend", e, f, 0) <= (IF a > b THEN a ELSE b)
            /\ Blend(a, b, "brightness_inc", 0, 0, e) \in a..31
            /\ Blend(a, b, "brightness_dec", 0, 0, e) \in 0..a
=============================================================================
