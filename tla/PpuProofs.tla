------------------------------ MODULE PpuProofs -----------------------------
(***************************************************************************)
(* What holds of the PPU for all lengths of a line and of a frame.  As     *)
(* long as the DMA that runs while the CPU is halted takes no longer than  *)
(* a horizontal blanking, no event is ever added with a lateness beyond    *)
(* its period, which is what would break the chain; the emulation is then  *)
(* in step with the beam, and does every line once.  What the renderer     *)
(* carries from line to line follows the registers, whatever is written to *)
(* them.                                                                   *)
(***************************************************************************)
EXTENDS Ppu, Scanline, TLAPS

(* Types, without the position, which is a product of constants. *)
Typed ==
    /\ vcount \in 0..vcount_max
    /\ dispstat \in [vblank : BOOLEAN, hblank : BOOLEAN, vcounter : BOOLEAN,
                     vcount_setting : Nat, checked : BOOLEAN]
    /\ next \in {"hblank", "hdraw"}
    /\ left \in Int
    /\ asked \in 0..cycles_hdraw
    /\ transferred \in 0..MaxDma
    /\ position \in 0..(FrameCycles - 1)

(* No event is later than a horizontal blanking, and a halted CPU is ahead of
   the next event by what has been transferred since it asked, at most. *)
NeverTooLate == left >= -cycles_hblank
AheadByTransfer == asked > 0 => asked - left <= transferred

(* What is inductive. *)
Inv ==
    /\ Typed
    /\ NextWithinPeriod
    /\ NeverTooLate
    /\ AheadByTransfer

------------------------------------------------------------------------------
(* Facts of arithmetic. *)
LEMMA Remainder ==
    ASSUME NEW n \in Int, NEW d \in Nat \ {0}
    PROVE  n % d \in 0..(d - 1)
  OBVIOUS

(* A number below the divisor is its own remainder. *)
LEMMA SmallRemainder ==
    ASSUME NEW n \in Nat, NEW d \in Nat \ {0}, n < d
    PROVE  n % d = n
  OBVIOUS

(* A frame has cycles. *)
LEMMA FrameNotEmpty == FrameCycles \in Nat \ {0}
  <1> DEFINE line == LineCycles
  <1>1. line \in Nat \ {0}
    BY PpuAssumption DEF LineCycles
  <1>2. total_lines \in Nat \ {0}
    BY PpuAssumption
  <1>3. total_lines * line \in Nat \ {0}
    <2> HIDE DEF line
    <2>1. \A a, b \in Nat \ {0} : a * b \in Nat \ {0}
      OBVIOUS
    <2> QED BY <2>1, <1>1, <1>2
  <1> QED BY <1>3 DEF FrameCycles

(* An event that is late by no more than its period is added in time. *)
LEMMA PeriodExact ==
    ASSUME NEW cycles \in {cycles_hdraw, cycles_hblank},
           NEW late \in Nat, late <= cycles
    PROVE  Period(cycles, late) = cycles - late
  <1>1. cycles - late \in Nat /\ cycles - late < Width
    BY PpuAssumption
  <1> QED BY <1>1, SmallRemainder, PpuAssumption DEF Period

------------------------------------------------------------------------------
(* It starts in time. *)
LEMMA InitInv == Init => Inv
  <1> SUFFICES ASSUME Init PROVE Inv
    OBVIOUS
  <1>1. Typed
    BY PpuAssumption, FrameNotEmpty DEF Init, Typed, vcount_max
  <1> QED
    BY <1>1, PpuAssumption DEF Init, Inv, NextWithinPeriod, NeverTooLate, AheadByTransfer

(* The two events: they are late by a blanking at most, so the next one is not
   due before its time. *)
LEMMA OnHdrawInv == Inv /\ MaxDma <= cycles_hblank /\ OnHdraw => Inv'
  <1> SUFFICES ASSUME Inv, OnHdraw PROVE Inv'
    OBVIOUS
  <1> USE DEF Inv, Typed
  <1>1. -left \in Nat /\ -left <= cycles_hdraw
    BY PpuAssumption DEF OnHdraw, Due, NeverTooLate
  <1>2. left' = cycles_hdraw + left
    BY <1>1, PeriodExact, PpuAssumption DEF OnHdraw
  <1>3. vcount' \in 0..vcount_max
    <2>1. vcount + 1 \in Int /\ total_lines \in Nat \ {0}
      BY PpuAssumption DEF vcount_max
    <2>2. (vcount + 1) % total_lines \in 0..(total_lines - 1)
      BY <2>1, Remainder
    <2> QED BY <2>2 DEF OnHdraw, LineAfter, vcount_max
  <1>4. dispstat' \in [vblank : BOOLEAN, hblank : BOOLEAN, vcounter : BOOLEAN,
                       vcount_setting : Nat, checked : BOOLEAN]
    BY DEF OnHdraw, Checked, Vblank
  <1>5. Typed'
    BY <1>2, <1>3, <1>4, PpuAssumption DEF OnHdraw, cpu, FrameCycles, LineCycles, vcount_max
  <1>6. NextWithinPeriod' /\ NeverTooLate' /\ AheadByTransfer'
    BY <1>1, <1>2, PpuAssumption
    DEF OnHdraw, Due, cpu, NextWithinPeriod, NeverTooLate, AheadByTransfer
  <1> QED BY <1>5, <1>6

(* So for the end of the drawing of a line. *)
LEMMA OnHblankInv == Inv /\ MaxDma <= cycles_hblank /\ OnHblank => Inv'
  <1> SUFFICES ASSUME Inv, OnHblank PROVE Inv'
    OBVIOUS
  <1> USE DEF Inv, Typed
  <1>1. -left \in Nat /\ -left <= cycles_hblank
    BY PpuAssumption DEF OnHblank, Due, NeverTooLate
  <1>2. left' = cycles_hblank + left
    BY <1>1, PeriodExact, PpuAssumption DEF OnHblank
  <1>3. dispstat' \in [vblank : BOOLEAN, hblank : BOOLEAN, vcounter : BOOLEAN,
                       vcount_setting : Nat, checked : BOOLEAN]
    BY DEF OnHblank
  <1>4. Typed'
    BY <1>2, <1>3, PpuAssumption DEF OnHblank, cpu, FrameCycles, LineCycles, vcount_max
  <1>5. NextWithinPeriod' /\ NeverTooLate' /\ AheadByTransfer'
    BY <1>1, <1>2, PpuAssumption
    DEF OnHblank, Due, cpu, NextWithinPeriod, NeverTooLate, AheadByTransfer
  <1> QED BY <1>4, <1>5

(* The clock. *)
LEMMA ElapseTyped ==
    ASSUME Inv, NEW cycles \in Nat, Elapse(cycles)
    PROVE  left' \in Int /\ position' \in 0..(FrameCycles - 1)
  <1>1. position + cycles \in Int
    BY FrameNotEmpty DEF Inv, Typed
  <1>2. (position + cycles) % FrameCycles \in 0..(FrameCycles - 1)
    BY <1>1, FrameNotEmpty, Remainder
  <1> QED BY <1>2 DEF Inv, Typed, Elapse

(* Every step preserves the invariant. *)
LEMMA NextInv == Inv /\ MaxDma <= cycles_hblank /\ [Next]_vars => Inv'
  <1> SUFFICES ASSUME Inv, MaxDma <= cycles_hblank, [Next]_vars PROVE Inv'
    OBVIOUS
  <1>1. CASE OnHdraw
    BY <1>1, OnHdrawInv
  <1>2. CASE OnHblank
    BY <1>2, OnHblankInv
  <1>3. ASSUME NEW setting \in Settings, WriteDispstat(setting) PROVE Inv'
    <2>1. dispstat' \in [vblank : BOOLEAN, hblank : BOOLEAN, vcounter : BOOLEAN,
                         vcount_setting : Nat, checked : BOOLEAN]
      BY <1>3, PpuAssumption DEF WriteDispstat, Checked, Inv, Typed
    <2> QED
      BY <1>3, <2>1 DEF WriteDispstat, cpu, ghosts, Inv, Typed, NextWithinPeriod,
         NeverTooLate, AheadByTransfer, FrameCycles, LineCycles, vcount_max
  <1>4. ASSUME NEW cycles \in 1..MaxTick, CpuTick(cycles) PROVE Inv'
    <2>1. cycles \in Nat /\ cycles <= cycles_hblank
      BY PpuAssumption
    <2>2. Typed'
      BY <1>4, <2>1, ElapseTyped DEF CpuTick, cpu, Inv, Typed, FrameCycles, LineCycles, vcount_max
    <2>3. NextWithinPeriod' /\ NeverTooLate' /\ AheadByTransfer'
      BY <1>4, <2>1, PpuAssumption DEF CpuTick, Elapse, Due, cpu, Inv, Typed,
         NextWithinPeriod, NeverTooLate, AheadByTransfer
    <2> QED BY <2>2, <2>3 DEF Inv
  <1>5. ASSUME NEW cycles \in 1..MaxTick, DmaTick(cycles) PROVE Inv'
    <2>1. cycles \in Nat /\ cycles <= cycles_hblank
      BY PpuAssumption
    <2>2. Typed'
      <3>1. transferred' \in 0..MaxDma
        BY <1>5, <2>1, PpuAssumption DEF DmaTick, Inv, Typed
      <3>2. left' \in Int /\ position' \in 0..(FrameCycles - 1)
        BY <1>5, <2>1, ElapseTyped DEF DmaTick
      <3> QED
        BY <1>5, <3>1, <3>2 DEF DmaTick, Inv, Typed, FrameCycles, LineCycles, vcount_max
    <2>3. NextWithinPeriod' /\ NeverTooLate' /\ AheadByTransfer'
      BY <1>5, <2>1, PpuAssumption DEF DmaTick, Elapse, Due, Inv, Typed,
         NextWithinPeriod, NeverTooLate, AheadByTransfer
    <2> QED BY <2>2, <2>3 DEF Inv
  <1>6. ASSUME NEW cycles \in 1..cycles_hdraw, Ask(cycles) PROVE Inv'
    BY <1>6, PpuAssumption DEF Ask, engine, ghosts, Inv, Typed, NextWithinPeriod,
       NeverTooLate, AheadByTransfer, FrameCycles, LineCycles, vcount_max
  <1>7. CASE HaltedTick
    <2>1. asked \in Nat
      BY DEF Inv, Typed
    <2>2. left' \in Int /\ position' \in 0..(FrameCycles - 1)
      BY <1>7, <2>1, ElapseTyped DEF HaltedTick
    <2>3. Typed'
      BY <1>7, <2>2, PpuAssumption DEF HaltedTick, Inv, Typed, FrameCycles, LineCycles, vcount_max
    <2>4. NextWithinPeriod' /\ NeverTooLate' /\ AheadByTransfer'
      BY <1>7, PpuAssumption DEF HaltedTick, Elapse, Due, Inv, Typed,
         NextWithinPeriod, NeverTooLate, AheadByTransfer
    <2> QED BY <2>3, <2>4 DEF Inv
  <1>8. CASE UNCHANGED vars
    BY <1>8 DEF vars, engine, cpu, ghosts, Inv, Typed, NextWithinPeriod, NeverTooLate,
       AheadByTransfer, FrameCycles, LineCycles, vcount_max
  <1> QED BY <1>1, <1>2, <1>3, <1>4, <1>5, <1>6, <1>7, <1>8 DEF Next

------------------------------------------------------------------------------
(* Types and the two facts about lateness are invariant while the DMA of a
   halted CPU fits in a blanking. *)
THEOREM Invariance ==
    ASSUME MaxDma <= cycles_hblank
    PROVE  Spec => []Inv
  <1>1. Init => Inv
    BY InitInv
  <1>2. Inv /\ [Next]_vars => Inv'
    BY NextInv
  <1> QED BY <1>1, <1>2, PTL DEF Spec

(* cpu::tick, on_hdraw, on_hblank: the chain of the two events does not break,
   for lines and frames of any length, while the DMA that runs between a
   halted CPU's question and its tick fits in a blanking. *)
THEOREM ChainUnbroken ==
    ASSUME MaxDma <= cycles_hblank
    PROVE  Spec => []NextWithinPeriod
  <1>1. Inv => NextWithinPeriod
    BY DEF Inv
  <1> QED BY <1>1, Invariance, PTL

(* The line counter stays below the number of lines, and the rest of the state
   is well formed. *)
THEOREM TypeCorrect ==
    ASSUME MaxDma <= cycles_hblank
    PROVE  Spec => []TypeOK
  <1>1. Inv => TypeOK
    BY DEF Inv, Typed, TypeOK
  <1> QED BY <1>1, Invariance, PTL

------------------------------------------------------------------------------
(* The beam. *)
(* Where the beam is when a line of the emulation has so many cycles left; an
   event that is late may find the beam in the next line, or the next frame. *)
LineStart(line) == line * LineCycles
Ends == IF next = "hblank" THEN cycles_hdraw ELSE LineCycles
Reached == LineStart(vcount) + Ends - left
InStep == position = Reached \/ position = Reached - FrameCycles

(* The flags of DISPSTAT are those of the line and of the next event. *)
FlagsTell ==
    /\ dispstat.hblank <=> next = "hdraw"
    /\ dispstat.vblank <=> vcount \in screen_height..(vcount_max - 1)
    /\ dispstat.checked => (dispstat.vcounter <=> dispstat.vcount_setting = vcount)

(* So are the lines that have been drawn and transferred. *)
Over(line) == line < vcount \/ (line = vcount /\ next = "hdraw")
LinesDone ==
    /\ rendered = {line \in 0..(screen_height - 1) : Over(line)}
    /\ video = {line \in video_dma_start_line..(video_dma_end_line - 1) : Over(line)}

(* All of these together are inductive. *)
BeamInv == Inv /\ InStep /\ FlagsTell /\ LinesDone

------------------------------------------------------------------------------
(* The lines of a frame follow each other and fill it. *)
LEMMA Frame ==
    /\ LineCycles \in Nat /\ LineCycles = cycles_hdraw + cycles_hblank
    /\ LineStart(0) = 0
    /\ \A line \in 0..vcount_max :
        /\ LineStart(line) \in Nat
        /\ LineStart(line + 1) = LineStart(line) + LineCycles
        /\ LineStart(line) + LineCycles <= FrameCycles
    /\ LineStart(vcount_max) + LineCycles = FrameCycles
    /\ FrameCycles \in Nat /\ LineCycles <= FrameCycles
  <1>. DEFINE l == LineCycles
  <1>1. l \in Nat /\ l = cycles_hdraw + cycles_hblank
    BY PpuAssumption DEF LineCycles
  <1>2. total_lines \in Nat /\ total_lines > 1
    BY PpuAssumption
  <1>3. FrameCycles = total_lines * l
    BY DEF FrameCycles
  <1>. HIDE DEF l
  <1>4. \A n \in Nat : n * l \in Nat /\ (n + 1) * l = n * l + l
    BY <1>1
  <1>5. \A n, d \in Nat : (n + d) * l = n * l + d * l
    BY <1>1
  <1>6. 0 * l = 0
    BY <1>1
  <1>7. ASSUME NEW n \in 0..vcount_max
        PROVE  n * l \in Nat /\ (n + 1) * l = n * l + l /\ n * l + l <= total_lines * l
    <2>1. n \in Nat /\ n + 1 \in Nat /\ total_lines - (n + 1) \in Nat
      BY <1>2 DEF vcount_max
    <2>. DEFINE d == total_lines - (n + 1)
    <2>2. d \in Nat /\ total_lines = (n + 1) + d
      BY <1>2, <2>1
    <2>. HIDE DEF d
    <2>3. total_lines * l = (n + 1) * l + d * l /\ d * l \in Nat /\ n * l \in Nat /\ (n + 1) * l = n * l + l
      BY <2>1, <2>2, <1>4, <1>5
    <2>. DEFINE x == n * l
                y == d * l
                z == total_lines * l
    <2>4. z = x + l + y /\ y \in Nat /\ x \in Nat
      BY <2>3
    <2>. HIDE DEF x, y, z
    <2>5. x + l <= z
      BY <2>4, <1>1
    <2>. QED  BY <2>3, <2>5 DEF x, z
  <1>8. vcount_max \in 0..vcount_max /\ 0 \in 0..vcount_max /\ vcount_max + 1 = total_lines
    BY <1>2 DEF vcount_max
  <1>9. vcount_max * l + l = total_lines * l
    BY <1>7, <1>8
  <1>10. l <= total_lines * l
    BY <1>1, <1>6, <1>7, <1>8
  <1>. QED  BY <1>1, <1>3, <1>6, <1>7, <1>9, <1>10, FrameNotEmpty DEF LineStart, l

(* The beam begins where the emulation does. *)
LEMMA BeamInit == Init => BeamInv
  <1>. SUFFICES ASSUME Init PROVE BeamInv
    OBVIOUS
  <1>1. Inv
    BY InitInv
  <1>2. InStep
    BY Frame, PpuAssumption DEF Init, InStep, Reached, Ends
  <1>3. FlagsTell
    BY PpuAssumption DEF Init, FlagsTell
  <1>4. LinesDone
    BY PpuAssumption DEF Init, LinesDone, Over
  <1>. QED  BY <1>1, <1>2, <1>3, <1>4 DEF BeamInv

(* Cycles move the beam and the emulation alike, around the end of the frame. *)
LEMMA ElapseInStep ==
    ASSUME BeamInv, NEW cycles \in 0..cycles_hdraw, Elapse(cycles),
           UNCHANGED <<vcount, next>>
    PROVE  InStep'
  <1>. DEFINE s == LineStart(vcount)
              f == FrameCycles
              e == Ends
  <1>1. /\ s \in Nat /\ s + LineCycles <= f /\ f \in Nat /\ cycles_hdraw < f
        /\ LineCycles = cycles_hdraw + cycles_hblank
        /\ cycles_hdraw \in Nat /\ cycles_hblank \in Nat \ {0} /\ e \in Nat /\ e <= LineCycles
    BY Frame, PpuAssumption DEF BeamInv, Inv, Typed, Ends
  <1>2. /\ left \in Int /\ left > 0 /\ left' = left - cycles
        /\ position \in 0..(f - 1) /\ position' = (position + cycles) % f
    BY DEF Elapse, Due, BeamInv, Inv, Typed
  <1>3. Reached = s + e - left /\ Reached' = s + e - left'
    BY DEF Reached, Ends, LineStart
  <1>. HIDE DEF s, f, e
  <1>4. position = s + e - left
    <2>1. s + e - left < f
      BY <1>1, <1>2
    <2>. QED  BY <1>1, <1>2, <1>3, <2>1 DEF BeamInv, InStep, f
  <1>5. position' = position + cycles \/ position' = position + cycles - f
    <2>1. position + cycles \in 0..(2 * f - 1)
      BY <1>1, <1>2
    <2>2. CASE position + cycles < f
      BY <1>1, <1>2, <2>1, <2>2
    <2>3. CASE position + cycles >= f
      <3>. DEFINE r == position + cycles - f
      <3>1. r \in 0..(f - 1) /\ position + cycles = f + r
        BY <1>1, <1>2, <2>1, <2>3
      <3>2. \A k \in 0..(f - 1) : (f + k) % f = k
        BY <1>1
      <3>. HIDE DEF r
      <3>3. position' = r
        BY <1>2, <3>1, <3>2
      <3>. QED  BY <3>3 DEF r
    <2>. QED  BY <1>1, <1>2, <2>2, <2>3
  <1>6. position' = Reached' \/ position' = Reached' - f
    BY <1>1, <1>2, <1>3, <1>4, <1>5
  <1>. QED  BY <1>6 DEF InStep, f, FrameCycles, LineCycles

(* The end of the drawing of a line: no time passes, and the line is done. *)
LEMMA HblankBeam == BeamInv /\ MaxDma <= cycles_hblank /\ OnHblank => BeamInv'
  <1>. SUFFICES ASSUME BeamInv, OnHblank, MaxDma <= cycles_hblank PROVE BeamInv'
    OBVIOUS
  <1>1. Inv'
    BY OnHblankInv DEF BeamInv
  <1>2. -left \in Nat /\ -left <= cycles_hblank /\ left \in Int
    BY PpuAssumption DEF OnHblank, Due, NeverTooLate, BeamInv, Inv, Typed
  <1>3. left' = cycles_hblank + left
    BY <1>2, PeriodExact, PpuAssumption DEF OnHblank
  <1>4. InStep'
    <2>1. /\ LineStart(vcount) \in Nat /\ LineCycles = cycles_hdraw + cycles_hblank
          /\ cycles_hdraw \in Nat /\ cycles_hblank \in Nat
      BY Frame, PpuAssumption DEF BeamInv, Inv, Typed
    <2>2. Reached = LineStart(vcount) + cycles_hdraw - left
      BY DEF Reached, Ends, OnHblank
    <2>3. Reached' = LineStart(vcount) + LineCycles - left'
      BY DEF Reached, Ends, OnHblank, LineStart, LineCycles
    <2>4. Reached' = Reached
      BY <1>2, <1>3, <2>1, <2>2, <2>3
    <2>. QED  BY <2>4 DEF BeamInv, InStep, OnHblank, FrameCycles, LineCycles
  <1>5. FlagsTell'
    BY DEF BeamInv, Inv, Typed, FlagsTell, OnHblank, vcount_max
  <1>6. LinesDone'
    <2>1. /\ vcount' = vcount /\ next' = "hdraw" /\ next = "hblank" /\ vcount \in Nat
          /\ rendered' = (IF vcount < screen_height THEN rendered \cup {vcount} ELSE rendered)
          /\ video' = IF video_dma_start_line <= vcount /\ vcount < video_dma_end_line
                        THEN video \cup {vcount} ELSE video
      BY PpuAssumption DEF OnHblank, Drawn, FeedsVideo, BeamInv, Inv, Typed, vcount_max
    <2>2. screen_height \in Nat /\ video_dma_start_line \in Nat /\ video_dma_end_line \in Nat
      BY PpuAssumption
    <2>3. rendered' = {line \in 0..(screen_height - 1) : line < vcount \/ line = vcount}
      <3>1. rendered = {line \in 0..(screen_height - 1) : line < vcount}
        BY <2>1 DEF BeamInv, LinesDone, Over
      <3>. QED  BY <2>1, <2>2, <3>1
    <2>4. video' = {line \in video_dma_start_line..(video_dma_end_line - 1) : line < vcount \/ line = vcount}
      <3>1. video = {line \in video_dma_start_line..(video_dma_end_line - 1) : line < vcount}
        BY <2>1 DEF BeamInv, LinesDone, Over
      <3>. QED  BY <2>1, <2>2, <3>1
    <2>. QED  BY <2>1, <2>3, <2>4 DEF LinesDone, Over
  <1>. QED  BY <1>1, <1>4, <1>5, <1>6 DEF BeamInv

(* The next line begins, perhaps in the next frame. *)
LEMMA HdrawBeam == BeamInv /\ MaxDma <= cycles_hblank /\ OnHdraw => BeamInv'
  <1>. SUFFICES ASSUME BeamInv, OnHdraw, MaxDma <= cycles_hblank PROVE BeamInv'
    OBVIOUS
  <1>1. Inv'
    BY OnHdrawInv DEF BeamInv
  <1>2. -left \in Nat /\ -left <= cycles_hdraw /\ left \in Int /\ left <= 0
    BY PpuAssumption DEF OnHdraw, Due, NeverTooLate, BeamInv, Inv, Typed
  <1>3. left' = cycles_hdraw + left
    BY <1>2, PeriodExact, PpuAssumption DEF OnHdraw
  <1>4. vcount' = IF vcount = vcount_max THEN 0 ELSE vcount + 1
    <2>1. vcount \in 0..vcount_max /\ total_lines \in Nat \ {0}
      BY PpuAssumption DEF BeamInv, Inv, Typed
    <2>2. \A m \in 0..(total_lines - 1) : m % total_lines = m
      BY <2>1
    <2>3. total_lines % total_lines = 0
      BY <2>1
    <2>4. vcount' = (vcount + 1) % total_lines
      BY DEF OnHdraw, LineAfter
    <2>. QED  BY <2>1, <2>2, <2>3, <2>4 DEF vcount_max
  <1>5. vcount \in 0..vcount_max /\ vcount_max \in Nat
    BY PpuAssumption DEF BeamInv, Inv, Typed, vcount_max
  <1>6. InStep'
    <2>. DEFINE s == LineStart(vcount)
                f == FrameCycles
                t == LineStart(vcount')
    <2>1. /\ s \in Nat /\ LineCycles = cycles_hdraw + cycles_hblank /\ f \in Nat
          /\ cycles_hdraw \in Nat /\ cycles_hblank \in Nat /\ s + LineCycles <= f
          /\ t = IF vcount = vcount_max THEN 0 ELSE s + LineCycles
          /\ vcount = vcount_max => s + LineCycles = f
      BY <1>4, <1>5, Frame, PpuAssumption
    <2>2. Reached = s + LineCycles - left
      BY DEF Reached, Ends, OnHdraw
    <2>3. Reached' = t + cycles_hdraw - left'
      BY DEF Reached, Ends, OnHdraw, LineStart, LineCycles
    <2>4. position = Reached \/ position = Reached - f
      BY DEF BeamInv, InStep
    <2>5. position' = position /\ position \in 0..(f - 1)
      BY DEF OnHdraw, BeamInv, Inv, Typed
    <2>. HIDE DEF s, f, t
    <2>6. position' = Reached' \/ position' = Reached' - f
      BY <1>2, <1>3, <2>1, <2>2, <2>3, <2>4, <2>5
    <2>. QED  BY <2>6 DEF InStep, f, FrameCycles, LineCycles
  <1>7. FlagsTell'
    <2>1. dispstat'.hblank = FALSE /\ next' = "hblank"
      BY DEF OnHdraw, Checked, BeamInv, Inv, Typed
    <2>2. dispstat'.vblank = Vblank(vcount', dispstat.vblank)
      BY DEF OnHdraw, Checked, BeamInv, Inv, Typed
    <2>3. dispstat'.vcounter = (dispstat'.vcount_setting = vcount')
      BY DEF OnHdraw, Checked, BeamInv, Inv, Typed
    <2>4. dispstat'.vcounter <=> dispstat'.vcount_setting = vcount'
      BY <2>3
    <2>5. dispstat'.vblank <=> vcount' \in screen_height..(vcount_max - 1)
      <3>1. screen_height \in Nat /\ 0 < screen_height /\ screen_height < vcount_max
        BY PpuAssumption DEF vcount_max
      <3>2. dispstat.vblank \in BOOLEAN /\ (dispstat.vblank <=> vcount \in screen_height..(vcount_max - 1))
        BY DEF BeamInv, Inv, Typed, FlagsTell
      <3>3. CASE vcount' = screen_height
        BY <1>5, <2>2, <3>1, <3>3 DEF Vblank
      <3>4. CASE vcount' = vcount_max
        BY <1>5, <2>2, <3>1, <3>4 DEF Vblank
      <3>5. CASE vcount' # screen_height /\ vcount' # vcount_max
        <4>1. dispstat'.vblank = dispstat.vblank
          BY <2>2, <3>5 DEF Vblank
        <4>2. vcount' \in screen_height..(vcount_max - 1) <=> vcount \in screen_height..(vcount_max - 1)
          BY <1>4, <1>5, <3>1, <3>5
        <4>. QED  BY <3>2, <4>1, <4>2
      <3>. QED  BY <3>3, <3>4, <3>5
    <2>. QED  BY <2>1, <2>4, <2>5 DEF FlagsTell, vcount_max
  <1>8. LinesDone'
    <2>1. next' = "hblank" /\ next = "hdraw"
          /\ rendered' = (IF vcount' = 0 THEN {} ELSE rendered)
          /\ video' = IF vcount' = 0 THEN {} ELSE video
      BY DEF OnHdraw
    <2>2. screen_height \in Nat /\ video_dma_start_line \in Nat /\ video_dma_end_line \in Nat
      BY PpuAssumption
    <2>3. \A line \in Nat : Over(line) <=> line <= vcount
      BY <1>5, <2>1 DEF Over
    <2>4. CASE vcount' = 0
      <3>1. \A line \in Nat : ~(line < vcount')
        BY <2>4
      <3>2. {line \in 0..(screen_height - 1) : line < vcount'} = {}
        BY <2>2, <3>1
      <3>3. {line \in video_dma_start_line..(video_dma_end_line - 1) : line < vcount'} = {}
        BY <2>2, <3>1
      <3>. QED  BY <2>1, <2>4, <3>2, <3>3 DEF LinesDone, Over
    <2>5. CASE vcount' # 0
      <3>1. \A line \in Nat : line < vcount' <=> Over(line)
        BY <1>4, <1>5, <2>3, <2>5
      <3>2. rendered = {line \in 0..(screen_height - 1) : line < vcount'}
        BY <2>2, <3>1 DEF BeamInv, LinesDone
      <3>3. video = {line \in video_dma_start_line..(video_dma_end_line - 1) : line < vcount'}
        BY <2>2, <3>1 DEF BeamInv, LinesDone
      <3>. QED  BY <2>1, <2>5, <3>2, <3>3 DEF LinesDone, Over
    <2>. QED  BY <2>4, <2>5
  <1>. QED  BY <1>1, <1>6, <1>7, <1>8 DEF BeamInv

(* Every step preserves the invariant. *)
LEMMA BeamNext == BeamInv /\ MaxDma <= cycles_hblank /\ [Next]_vars => BeamInv'
  <1>. SUFFICES ASSUME BeamInv, MaxDma <= cycles_hblank, [Next]_vars PROVE BeamInv'
    OBVIOUS
  <1>1. Inv'
    BY NextInv DEF BeamInv
  <1>2. CASE OnHdraw
    BY <1>2, HdrawBeam
  <1>3. CASE OnHblank
    BY <1>3, HblankBeam
  <1>4. ASSUME NEW cycles \in 0..cycles_hdraw, Elapse(cycles),
               UNCHANGED <<vcount, dispstat, next, rendered, video>>
        PROVE  BeamInv'
    BY <1>1, <1>4, ElapseInStep DEF BeamInv, FlagsTell, LinesDone, Over, vcount_max
  <1>5. ASSUME NEW setting \in Settings, WriteDispstat(setting) PROVE BeamInv'
    <2>1. UNCHANGED <<vcount, next, left, position, rendered, video>>
      BY <1>5 DEF WriteDispstat, ghosts
    <2>2. /\ dispstat'.hblank = dispstat.hblank /\ dispstat'.vblank = dispstat.vblank
          /\ dispstat'.vcounter = (dispstat'.vcount_setting = vcount)
      BY <1>5 DEF WriteDispstat, Checked, BeamInv, Inv, Typed
    <2>3. FlagsTell'
      BY <2>1, <2>2 DEF BeamInv, FlagsTell, vcount_max
    <2>4. InStep'
      BY <2>1 DEF BeamInv, InStep, Reached, Ends, LineStart, FrameCycles, LineCycles
    <2>. QED  BY <1>1, <2>1, <2>3, <2>4 DEF BeamInv, LinesDone, Over
  <1>6. ASSUME NEW cycles \in 1..MaxTick, CpuTick(cycles) \/ DmaTick(cycles) PROVE BeamInv'
    <2>1. cycles \in 0..cycles_hdraw
      BY PpuAssumption
    <2>. QED  BY <1>4, <1>6, <2>1 DEF CpuTick, DmaTick
  <1>7. CASE HaltedTick
    <2>1. asked \in 0..cycles_hdraw
      BY DEF BeamInv, Inv, Typed
    <2>. QED  BY <1>4, <1>7, <2>1 DEF HaltedTick
  <1>8. CASE UNCHANGED <<engine, ghosts>>
    BY <1>1, <1>8 DEF engine, ghosts, BeamInv, InStep, Reached, Ends, LineStart,
       FrameCycles, LineCycles, FlagsTell, LinesDone, Over, vcount_max
  <1>9. CASE (\E cycles \in 1..cycles_hdraw : Ask(cycles)) \/ UNCHANGED vars
    BY <1>8, <1>9 DEF Ask, vars
  <1>. QED  BY <1>2, <1>3, <1>5, <1>6, <1>7, <1>9 DEF Next

(* What the beam is doing while no event is due. *)
LEMMA BeamSeen ==
    ASSUME BeamInv, ~Due
    PROVE  BeamLine = vcount /\ (BeamInHblank <=> next = "hdraw")
  <1>. DEFINE l == LineCycles
              p == position
              c == Ends - left
  <1>1. /\ LineStart(vcount) \in Nat /\ l = cycles_hdraw + cycles_hblank
        /\ cycles_hdraw \in Nat \ {0} /\ cycles_hblank \in Nat \ {0} /\ l \in Nat /\ l > 0
        /\ LineStart(vcount) + l <= FrameCycles /\ FrameCycles \in Nat
        /\ vcount \in Nat
    BY Frame, PpuAssumption DEF BeamInv, Inv, Typed
  <1>2. c \in 0..(l - 1) /\ (c >= cycles_hdraw <=> next = "hdraw")
    <2>1. left \in Int /\ left > 0 /\ left <= (IF next = "hblank" THEN cycles_hdraw ELSE cycles_hblank)
          /\ next \in {"hblank", "hdraw"}
      BY DEF BeamInv, Inv, Typed, NextWithinPeriod, Due
    <2>. QED  BY <1>1, <2>1 DEF Ends
  <1>3. p = LineStart(vcount) + c
    <2>1. Reached = LineStart(vcount) + c
      BY <1>1, <1>2 DEF Reached, Ends, BeamInv, Inv, Typed
    <2>2. p \in Nat
      BY DEF BeamInv, Inv, Typed
    <2>. HIDE DEF c, p, l
    <2>3. Reached - FrameCycles < 0
      BY <1>1, <1>2, <2>1
    <2>. QED  BY <2>1, <2>2, <2>3, <1>1, <1>2 DEF BeamInv, InStep, p
  <1>4. p = vcount * l + c
    BY <1>3 DEF LineStart
  <1>5. \A n \in Nat : \A r \in 0..(l - 1) : (n * l + r) \div l = n /\ (n * l + r) % l = r
    <2>. HIDE DEF l
    <2>. QED  BY <1>1
  <1>. HIDE DEF c
  <1>6. BeamLine = vcount /\ p % l = c
    BY <1>1, <1>2, <1>4, <1>5 DEF BeamLine
  <1>. QED  BY <1>2, <1>6 DEF BeamInHblank

(* The emulation is in step with the beam in every reachable state. *)
THEOREM BeamInvariance ==
    ASSUME MaxDma <= cycles_hblank
    PROVE  Spec => []BeamInv
  <1>1. Init => BeamInv
    BY BeamInit
  <1>2. BeamInv /\ [Next]_vars => BeamInv'
    BY BeamNext
  <1>. QED  BY <1>1, <1>2, PTL DEF Spec

(* on_hdraw, on_hblank, check_vcounter_irq: whenever a program can look, the line
   counter and the flags are those of the hardware, however late the events were. *)
THEOREM BeamFollowed ==
    ASSUME MaxDma <= cycles_hblank
    PROVE  Spec => []FollowsBeam
  <1>1. BeamInv => FollowsBeam
    <2>. SUFFICES ASSUME BeamInv, ~Due
                  PROVE  /\ vcount = BeamLine
                         /\ dispstat.hblank = BeamInHblank
                         /\ dispstat.vblank = (BeamLine \in screen_height..(vcount_max - 1))
                         /\ dispstat.checked => dispstat.vcounter = (dispstat.vcount_setting = BeamLine)
      BY DEF FollowsBeam
    <2>1. /\ dispstat.hblank \in BOOLEAN /\ dispstat.vblank \in BOOLEAN
          /\ dispstat.vcounter \in BOOLEAN /\ dispstat.checked \in BOOLEAN
      BY DEF BeamInv, Inv, Typed
    <2>2. BeamLine = vcount /\ (BeamInHblank <=> next = "hdraw")
      BY BeamSeen
    <2>3. BeamInHblank \in BOOLEAN
      BY DEF BeamInHblank
    <2>4. dispstat.hblank <=> BeamInHblank
      BY <2>2 DEF BeamInv, FlagsTell
    <2>5. dispstat.hblank = BeamInHblank
      BY <2>1, <2>3, <2>4, Zenon
    <2>6. dispstat.vblank <=> BeamLine \in screen_height..(vcount_max - 1)
      BY <2>2 DEF BeamInv, FlagsTell
    <2>7. dispstat.vblank = (BeamLine \in screen_height..(vcount_max - 1))
      <3>. DEFINE inside == BeamLine \in screen_height..(vcount_max - 1)
      <3>1. inside \in BOOLEAN /\ (dispstat.vblank <=> inside)
        BY <2>6
      <3>. HIDE DEF inside
      <3>2. dispstat.vblank = inside
        BY <2>1, <3>1, Zenon
      <3>. QED  BY <3>2 DEF inside
    <2>8. dispstat.checked => (dispstat.vcounter <=> dispstat.vcount_setting = BeamLine)
      BY <2>2 DEF BeamInv, FlagsTell
    <2>9. dispstat.checked => dispstat.vcounter = (dispstat.vcount_setting = BeamLine)
      BY <2>1, <2>8, Zenon
    <2>. QED  BY <2>2, <2>5, <2>7, <2>9
  <1>. QED  BY <1>1, BeamInvariance, PTL

(* Exactly the lines that the beam has passed have been rendered, and have asked
   for their video transfer: none is missed or done twice. *)
THEOREM LinesOnce ==
    ASSUME MaxDma <= cycles_hblank
    PROVE  Spec => []EveryLineOnce
  <1>1. BeamInv => EveryLineOnce
    <2>. SUFFICES ASSUME BeamInv, ~Due
                  PROVE  /\ rendered = {line \in 0..(screen_height - 1) : Passed(line)}
                         /\ video = {line \in video_dma_start_line..(video_dma_end_line - 1) : Passed(line)}
      BY DEF EveryLineOnce
    <2>1. \A line : Passed(line) <=> Over(line)
      BY BeamSeen DEF Passed, Over
    <2>. QED  BY <2>1 DEF BeamInv, LinesDone
  <1>. QED  BY <1>1, BeamInvariance, PTL

------------------------------------------------------------------------------
(* From line to line. *)
(* Lines that the beam has done since it did line y, the one it is done with
   counting as 0. *)
LinesSince(y, line, ahead) ==
    IF y >= Rows THEN Rows
    ELSE LET last == IF ahead THEN line - 1 ELSE line IN
         IF y <= last THEN last - y ELSE last - y + Rows

(* The state of the renderer between lines is well formed. *)
ScanTypes ==
    /\ row \in 0..(Rows - 1) /\ drawing \in BOOLEAN
    /\ win \in [enabled : BOOLEAN, top : Nat, bottom : Nat]
    /\ can_draw \in BOOLEAN
    /\ bg \in [ref : Int, internal : Int, pb : Int, mosaic : BOOLEAN]
    /\ affine \in BOOLEAN /\ clean \in BOOLEAN
    /\ mosaic \in [v : Nat \ {0}, iv : Nat]
    /\ settled \in 0..Rows /\ count \in Nat /\ since \in Nat

(* For the line at hand, and for the next. *)
Done(y) == LinesSince(y, row, drawing)
DoneNext(y) == LinesSince(y, row', drawing')

(* Once one of its edges has been passed, the last one passed tells. *)
EdgesTell ==
    /\ settled > 0 => win.enabled
    /\ Done(win.top) < settled \/ Done(win.bottom) < settled =>
          (can_draw <=> Done(win.top) < Done(win.bottom))

(* A background left alone since a latch has gone the lines since the latch. *)
OnTrack ==
    /\ mosaic.iv = since % mosaic.v
    /\ clean /\ bg.mosaic => mosaic.iv = count % mosaic.v
    /\ clean /\ count = 0 => bg.internal = bg.ref
    /\ clean /\ affine =>
        bg.internal = bg.ref + bg.pb * (IF bg.mosaic THEN count - mosaic.iv ELSE count)

(* Together they are inductive. *)
ScanInv == ScanTypes /\ EdgesTell /\ OnTrack

(* The remainder of the next number. *)
LEMMA NextRemainder ==
    ASSUME NEW n \in Nat, NEW v \in Nat \ {0}
    PROVE  /\ n % v \in 0..(v - 1)
           /\ (n + 1) % v = IF (n % v) + 1 = v THEN 0 ELSE (n % v) + 1
           /\ 0 % v = 0
  <1>1. n % v \in 0..(v - 1)
    OBVIOUS
  <1>2. n = v * (n \div v) + (n % v)
    OBVIOUS
  <1>. DEFINE q == n \div v
              r == n % v
  <1>3. q \in Int /\ r \in 0..(v - 1) /\ n = v * q + r
    BY <1>1, <1>2
  <1>. HIDE DEF q, r
  <1>4. CASE r + 1 = v
    <2>1. n + 1 = v * (q + 1)
      BY <1>3, <1>4
    <2>2. (v * (q + 1)) % v = 0
      BY <1>3
    <2>. QED  BY <1>3, <1>4, <2>1, <2>2 DEF r
  <1>5. CASE r + 1 # v
    <2>1. n + 1 = v * q + (r + 1) /\ r + 1 \in 0..(v - 1)
      BY <1>3, <1>5
    <2>2. \A k \in 0..(v - 1) : (v * q + k) % v = k
      BY <1>3
    <2>. QED  BY <1>3, <1>5, <2>1, <2>2 DEF r
  <1>6. 0 % v = 0
    OBVIOUS
  <1>. QED  BY <1>1, <1>4, <1>5, <1>6 DEF r

(* The beam ends a line: one line more since every edge but its own. *)
LEMMA DoneMoves ==
    ASSUME ScanInv, NEW y \in Nat
    PROVE  /\ Done(y) \in 0..Rows /\ (Done(y) = Rows <=> y >= Rows)
           /\ ScanHblank => DoneNext(y) = IF y >= Rows THEN Rows ELSE IF y = row THEN 0 ELSE Done(y) + 1
           /\ ScanHblank => (Done(y) = Rows - 1 <=> y = row)
           /\ ScanHdraw => DoneNext(y) = Done(y)
  <1>1. Rows \in Nat /\ Rows > 1 /\ row \in 0..(Rows - 1) /\ drawing \in BOOLEAN
    BY ScanlineAssumption DEF ScanInv, ScanTypes
  <1>2. ScanHdraw => row' = (IF row + 1 = Rows THEN 0 ELSE row + 1) /\ drawing' = TRUE /\ drawing = FALSE
    <2>1. \A m \in 0..(Rows - 1) : m % Rows = m
      BY <1>1
    <2>2. Rows % Rows = 0
      BY <1>1
    <2>. QED  BY <1>1, <2>1, <2>2 DEF ScanHdraw
  <1>3. ScanHblank => row' = row /\ drawing' = FALSE /\ drawing = TRUE
    BY DEF ScanHblank
  <1>. QED  BY <1>1, <1>2, <1>3 DEF Done, DoneNext, LinesSince

(* Nothing has been drawn. *)
LEMMA ScanInitInv == ScanInit => ScanInv
  <1>. SUFFICES ASSUME ScanInit PROVE ScanInv
    OBVIOUS
  <1>1. ScanTypes
    <2>1. row \in 0..(Rows - 1) /\ settled \in 0..Rows
      BY ScanlineAssumption DEF ScanInit
    <2>2. /\ win \in [enabled : BOOLEAN, top : Nat, bottom : Nat]
          /\ bg \in [ref : Int, internal : Int, pb : Int, mosaic : BOOLEAN]
          /\ mosaic \in [v : Nat \ {0}, iv : Nat]
      BY DEF ScanInit
    <2>. QED  BY <2>1, <2>2 DEF ScanInit, ScanTypes
  <1>2. OnTrack
    <2>1. 0 % 1 = 0
      OBVIOUS
    <2>. QED  BY <2>1 DEF ScanInit, OnTrack
  <1>3. EdgesTell
    BY ScanlineAssumption DEF ScanInit, EdgesTell, Done, LinesSince
  <1>. QED  BY <1>1, <1>2, <1>3 DEF ScanInv

(* The end of a line: the windows, *)
LEMMA HblankTypes == ScanInv /\ ScanHblank => ScanTypes' /\ EdgesTell'
  <1>. SUFFICES ASSUME ScanInv, ScanHblank PROVE ScanTypes' /\ EdgesTell'
    OBVIOUS
  <1>1. ScanTypes'
    <2>1. bg' \in [ref : Int, internal : Int, pb : Int, mosaic : BOOLEAN]
      <3>1. Moved(bg, mosaic') \in Int
        BY DEF Moved, ScanInv, ScanTypes, ScanHblank, update_internal_v
      <3>. QED  BY <3>1 DEF ScanInv, ScanTypes, ScanHblank
    <2>2. mosaic' \in [v : Nat \ {0}, iv : Nat]
      BY DEF ScanInv, ScanTypes, ScanHblank, update_internal_v
    <2>3. can_draw' \in BOOLEAN
      BY DEF ScanInv, ScanTypes, ScanHblank, Opens
    <2>4. settled' \in 0..Rows
      BY ScanlineAssumption DEF ScanInv, ScanTypes, ScanHblank
    <2>5. /\ row' = row /\ drawing' = FALSE /\ win' = win /\ affine' = affine /\ clean' = clean
          /\ count' \in Nat /\ since' \in Nat
      BY DEF ScanInv, ScanTypes, ScanHblank
    <2>6. ScanTypes
      BY DEF ScanInv
    <2>. QED  BY <2>1, <2>2, <2>3, <2>4, <2>5, <2>6 DEF ScanTypes
  <1>2. EdgesTell'
    <2>1. win.top \in Nat /\ win.bottom \in Nat /\ win' = win /\ Rows \in Nat /\ settled \in 0..Rows
      BY ScanlineAssumption DEF ScanInv, ScanTypes, ScanHblank
    <2>2. CASE ~win.enabled
      <3>1. settled = 0 /\ settled' = 0
        BY <2>1, <2>2 DEF ScanInv, EdgesTell, ScanTypes, ScanHblank
      <3>2. DoneNext(win.top) \in Nat /\ DoneNext(win.bottom) \in Nat
        BY <2>1, DoneMoves
      <3>. QED  BY <2>1, <3>1, <3>2 DEF EdgesTell, Done, DoneNext
    <2>3. CASE win.enabled
      <3>1. /\ can_draw' = (IF row = win.bottom THEN FALSE ELSE IF row = win.top THEN TRUE ELSE can_draw)
            /\ settled' = (IF settled < Rows THEN settled + 1 ELSE Rows)
        BY <2>1, <2>3 DEF ScanHblank, Opens
      <3>2. /\ Done(win.top) < settled \/ Done(win.bottom) < settled =>
                  (can_draw <=> Done(win.top) < Done(win.bottom))
        BY DEF ScanInv, EdgesTell
      <3>. DEFINE t == Done(win.top)
                  b == Done(win.bottom)
                  tt == DoneNext(win.top)
                  bb == DoneNext(win.bottom)
      <3>3. /\ t \in 0..Rows /\ (t = Rows <=> win.top >= Rows)
            /\ tt = IF win.top >= Rows THEN Rows ELSE IF win.top = row THEN 0 ELSE t + 1
            /\ t = Rows - 1 <=> win.top = row
            /\ b = Rows - 1 <=> win.bottom = row
            /\ b \in 0..Rows /\ (b = Rows <=> win.bottom >= Rows)
            /\ bb = IF win.bottom >= Rows THEN Rows ELSE IF win.bottom = row THEN 0 ELSE b + 1
        BY <2>1, DoneMoves
      <3>4. row \in 0..(Rows - 1)
        BY DEF ScanInv, ScanTypes
      <3>5. can_draw \in BOOLEAN
        BY DEF ScanInv, ScanTypes
      <3>. HIDE DEF t, b, tt, bb
      <3>6. tt < settled' \/ bb < settled' => (can_draw' <=> tt < bb)
        <4>1. CASE row = win.bottom
          <5>1. bb = 0 /\ tt \in Nat /\ can_draw' = FALSE
            BY <4>1, <2>1, <3>1, <3>3, <3>4
          <5>. QED  BY <5>1
        <4>2. CASE row # win.bottom /\ row = win.top
          <5>1. tt = 0 /\ bb \in Nat /\ bb # 0 /\ can_draw' = TRUE
            BY <4>2, <2>1, <3>1, <3>3, <3>4
          <5>. QED  BY <5>1
        <4>3. CASE row # win.bottom /\ row # win.top
          <5>1. can_draw' = can_draw
            BY <4>3, <3>1
          <5>2. /\ t \in 0..Rows /\ t # Rows - 1 /\ tt = IF t = Rows THEN Rows ELSE t + 1
                /\ b \in 0..Rows /\ b # Rows - 1 /\ bb = IF b = Rows THEN Rows ELSE b + 1
            BY <4>3, <3>3
          <5>3. /\ tt < bb <=> t < b
                /\ tt < settled' => t < settled
                /\ bb < settled' => b < settled
            <6>. DEFINE s == settled'
            <6>1. s = (IF settled < Rows THEN settled + 1 ELSE Rows)
              BY <3>1
            <6>. HIDE DEF s
            <6>2. /\ tt < bb <=> t < b
                  /\ tt < s => t < settled
                  /\ bb < s => b < settled
              BY <5>2, <6>1, <2>1
            <6>. QED  BY <6>2 DEF s
          <5>. QED  BY <5>1, <5>3, <3>2 DEF t, b
        <4>. QED  BY <4>1, <4>2, <4>3
      <3>. QED  BY <2>1, <2>3, <3>6 DEF EdgesTell, Done, DoneNext, tt, bb
    <2>. QED  BY <2>2, <2>3
  <1>. QED  BY <1>1, <1>2

(* and the background. *)
LEMMA HblankOnTrack == ScanInv /\ ScanHblank => OnTrack'
  <1>. SUFFICES ASSUME ScanInv, ScanHblank PROVE OnTrack'
    OBVIOUS
  <1>1. /\ mosaic \in [v : Nat \ {0}, iv : Nat] /\ count \in Nat /\ since \in Nat
        /\ bg \in [ref : Int, internal : Int, pb : Int, mosaic : BOOLEAN]
        /\ OnTrack
    BY DEF ScanInv, ScanTypes
  <1>2. CASE ~(row < VisibleRows)
    BY <1>1, <1>2 DEF ScanHblank, OnTrack
  <1>3. CASE row < VisibleRows
    <2>. DEFINE v == mosaic.v
                iv == IF mosaic.iv + 1 = v THEN 0 ELSE mosaic.iv + 1
                internal == Moved(bg, mosaic')
    <2>1. v \in Nat \ {0} /\ mosaic' = [v |-> v, iv |-> iv]
      BY <1>1, <1>3 DEF ScanHblank, update_internal_v
    <2>2. /\ count' = count + 1 /\ since' = since + 1 /\ clean' = clean /\ affine' = affine
          /\ bg' = IF affine THEN [bg EXCEPT !.internal = internal] ELSE bg
      BY <1>3 DEF ScanHblank
    <2>3. /\ (since + 1) % v = IF (since % v) + 1 = v THEN 0 ELSE (since % v) + 1
          /\ (count + 1) % v = IF (count % v) + 1 = v THEN 0 ELSE (count % v) + 1
      BY <1>1, <2>1, NextRemainder
    <2>4. mosaic'.iv = iv /\ mosaic'.v = v
      BY <2>1
    <2>5. mosaic'.iv = since' % mosaic'.v
      BY <1>1, <2>2, <2>3, <2>4 DEF OnTrack
    <2>6. /\ bg'.mosaic = bg.mosaic /\ bg'.ref = bg.ref /\ bg'.pb = bg.pb
          /\ affine => bg'.internal = internal
      BY <1>1, <2>2
    <2>7. clean' /\ bg'.mosaic => mosaic'.iv = count' % mosaic'.v
      BY <1>1, <2>2, <2>3, <2>4, <2>6 DEF OnTrack
    <2>8. ASSUME clean, affine
          PROVE  bg'.internal = bg'.ref + bg'.pb * (IF bg'.mosaic THEN count' - mosaic'.iv ELSE count')
      <3>. DEFINE p == bg.pb
                  r == bg.ref
      <3>1. p \in Int /\ r \in Int
        BY <1>1
      <3>2. bg.internal = r + p * (IF bg.mosaic THEN count - mosaic.iv ELSE count)
        BY <1>1, <2>8 DEF OnTrack
      <3>3. internal = IF bg.mosaic THEN (IF iv = 0 THEN bg.internal + p * v ELSE bg.internal)
                                    ELSE bg.internal + p
        BY <2>4 DEF Moved
      <3>4. mosaic.iv \in Nat
        BY <1>1
      <3>5. CASE ~bg.mosaic
        <4>1. p * (count + 1) = p * count + p
          BY <1>1, <3>1
        <4>. HIDE DEF p, r, internal
        <4>2. p * count \in Int
          BY <1>1, <3>1
        <4>3. internal = r + p * (count + 1)
          BY <4>1, <4>2, <3>1, <3>2, <3>3, <3>5
        <4>. QED  BY <4>3, <2>2, <2>6, <2>8, <3>5 DEF p, r
      <3>6. CASE bg.mosaic /\ iv = 0
        <4>1. mosaic.iv + 1 = v
          BY <3>4, <3>6
        <4>2. p * (count - mosaic.iv) + p * v = p * (count + 1)
          <5>. DEFINE m == mosaic.iv
          <5>1. m \in Nat /\ v = m + 1
            BY <3>4, <4>1
          <5>. HIDE DEF m, v, p
          <5>2. p * (count - m) + p * v = p * (count + 1)
            BY <5>1, <1>1, <3>1
          <5>. QED  BY <5>2 DEF m
        <4>3. p * (count - mosaic.iv) \in Int /\ p * v \in Int
          <5>1. count - mosaic.iv \in Int /\ v \in Int
            BY <1>1, <3>4, <2>1
          <5>. HIDE DEF p, v
          <5>. QED  BY <5>1, <3>1
        <4>. HIDE DEF p, r, internal
        <4>4. internal = r + p * (count + 1)
          BY <4>2, <4>3, <3>1, <3>2, <3>3, <3>6
        <4>5. count' - mosaic'.iv = count + 1
          BY <1>1, <2>2, <2>4, <3>6
        <4>. QED  BY <4>4, <4>5, <2>6, <2>8, <3>6 DEF p, r
      <3>7. CASE bg.mosaic /\ iv # 0
        <4>1. iv = mosaic.iv + 1
          BY <3>7
        <4>2. count' - mosaic'.iv = count - mosaic.iv
          BY <1>1, <2>2, <2>4, <3>4, <4>1
        <4>. QED  BY <4>2, <2>6, <2>8, <3>2, <3>3, <3>7
      <3>. QED  BY <3>5, <3>6, <3>7
    <2>9. count' # 0
      BY <1>1, <2>2
    <2>. QED  BY <2>2, <2>5, <2>7, <2>8, <2>9 DEF OnTrack
  <1>. QED  BY <1>2, <1>3

(* A latched background is on track, *)
LEMMA AtLatch ==
    ASSUME mosaic' \in [v : Nat \ {0}, iv : Nat], count' = 0,
           bg' \in [ref : Int, internal : Int, pb : Int, mosaic : BOOLEAN],
           bg'.internal = bg'.ref, mosaic'.iv = since' % mosaic'.v,
           clean' /\ bg'.mosaic => mosaic'.iv = 0
    PROVE  OnTrack'
  <1>1. 0 % mosaic'.v = 0
    <2>1. mosaic'.v \in Nat \ {0}
      OBVIOUS
    <2>. QED  BY <2>1, NextRemainder
  <1>2. bg'.pb * 0 = 0 /\ bg'.ref + 0 = bg'.ref
    <2>1. bg'.pb \in Int /\ bg'.ref \in Int
      OBVIOUS
    <2>. QED  BY <2>1
  <1>3. clean' /\ bg'.mosaic => count' - mosaic'.iv = 0
    OBVIOUS
  <1>. QED  BY <1>1, <1>2, <1>3 DEF OnTrack

(* and so is one that is rewritten before it has moved. *)
LEMMA Unmoved ==
    ASSUME OnTrack, mosaic \in [v : Nat \ {0}, iv : Nat], clean' = (clean /\ count = 0),
           bg' \in [ref : Int, internal : Int, pb : Int, mosaic : BOOLEAN],
           bg'.internal = bg.internal, bg'.ref = bg.ref, bg'.mosaic = bg.mosaic,
           UNCHANGED <<mosaic, count, since>>
    PROVE  OnTrack'
  <1>1. mosaic'.iv = since' % mosaic'.v
    BY DEF OnTrack
  <1>2. CASE clean'
    <2>1. clean /\ count = 0 /\ count' = 0
      BY <1>2
    <2>2. bg'.internal = bg'.ref
      BY <2>1 DEF OnTrack
    <2>3. bg.mosaic => mosaic.iv = 0
      <3>1. 0 % mosaic.v = 0
        <4>1. mosaic.v \in Nat \ {0}
          OBVIOUS
        <4>. QED  BY <4>1, NextRemainder
      <3>. QED  BY <2>1, <3>1 DEF OnTrack
    <2>. QED  BY <1>1, <2>1, <2>2, <2>3, AtLatch
  <1>3. CASE ~clean'
    BY <1>1, <1>3 DEF OnTrack
  <1>. QED  BY <1>2, <1>3

(* The next line begins. *)
LEMMA HdrawInv == ScanInv /\ ScanHdraw => ScanInv'
  <1>. SUFFICES ASSUME ScanInv, ScanHdraw PROVE ScanInv'
    OBVIOUS
  <1>1. ScanTypes'
    <2>1. row' \in 0..(Rows - 1)
      <3>1. Rows \in Nat \ {0} /\ row + 1 \in Nat
        BY ScanlineAssumption DEF ScanInv, ScanTypes
      <3>2. \A n \in Nat, k \in Nat \ {0} : n % k \in 0..(k - 1)
        BY NextRemainder
      <3>. QED  BY <3>1, <3>2 DEF ScanHdraw
    <2>2. /\ bg' \in [ref : Int, internal : Int, pb : Int, mosaic : BOOLEAN]
          /\ mosaic' \in [v : Nat \ {0}, iv : Nat]
      BY DEF ScanInv, ScanTypes, ScanHdraw, bgvars
    <2>3. drawing' = TRUE /\ win' = win /\ can_draw' = can_draw /\ settled' = settled /\ affine' = affine
      BY DEF ScanHdraw, windowvars
    <2>5. clean' \in BOOLEAN /\ count' \in Nat /\ since' \in Nat
      <3>1. clean \in BOOLEAN /\ count \in Nat /\ since \in Nat
        BY DEF ScanInv, ScanTypes
      <3>2. \/ clean' = TRUE /\ count' = 0 /\ since' = 0
            \/ clean' = clean /\ count' = count /\ since' = since
        BY DEF ScanHdraw
      <3>3. clean' \in BOOLEAN
        BY <3>1, <3>2, Zenon
      <3>4. count' \in Nat /\ since' \in Nat
        BY <3>1, <3>2
      <3>. QED  BY <3>3, <3>4
    <2>4. ScanTypes
      BY DEF ScanInv
    <2>. QED  BY <2>1, <2>2, <2>3, <2>4, <2>5 DEF ScanTypes
  <1>2. EdgesTell'
    <2>1. win' = win /\ can_draw' = can_draw /\ settled' = settled /\ win.top \in Nat /\ win.bottom \in Nat
      BY DEF ScanHdraw, windowvars, ScanInv, ScanTypes
    <2>2. DoneNext(win.top) = Done(win.top) /\ DoneNext(win.bottom) = Done(win.bottom)
      BY <2>1, DoneMoves
    <2>. QED  BY <2>1, <2>2 DEF ScanInv, EdgesTell, Done, DoneNext
  <1>3. OnTrack'
    <2>1. CASE row' = VisibleRows
      <3>1. mosaic \in [v : Nat \ {0}, iv : Nat]
            /\ bg \in [ref : Int, internal : Int, pb : Int, mosaic : BOOLEAN]
        BY DEF ScanInv, ScanTypes
      <3>2. /\ mosaic' = [v |-> mosaic.v, iv |-> 0] /\ count' = 0 /\ since' = 0
            /\ bg' = [bg EXCEPT !.internal = bg.ref]
        BY <2>1, <3>1 DEF ScanHdraw
      <3>. QED  BY <3>1, <3>2, AtLatch
    <2>2. CASE row' # VisibleRows
      BY <2>2 DEF ScanHdraw, ScanInv, OnTrack
    <2>. QED  BY <2>1, <2>2
  <1>. QED  BY <1>1, <1>2, <1>3 DEF ScanInv

(* The registers of the window are written. *)
LEMMA WindowInv == ASSUME ScanInv, WritesWindow PROVE ScanInv'
  <1>1. PICK w \in [enabled : BOOLEAN, top : Nat, bottom : Nat] : WriteWindow(w)
    <2>1. win \in [enabled : BOOLEAN, top : Nat, bottom : Nat]
      BY DEF ScanInv, ScanTypes
    <2>2. [win EXCEPT !.enabled = ~win.enabled] \in [enabled : BOOLEAN, top : Nat, bottom : Nat]
      BY <2>1
    <2>3. \A y \in Edges : /\ [win EXCEPT !.top = y] \in [enabled : BOOLEAN, top : Nat, bottom : Nat]
                           /\ [win EXCEPT !.bottom = y] \in [enabled : BOOLEAN, top : Nat, bottom : Nat]
      BY <2>1, ScanlineAssumption
    <2>. QED  BY <2>2, <2>3 DEF WritesWindow, EnableWindow, MoveTop, MoveBottom
  <1>2. win' = w /\ settled' = 0 /\ UNCHANGED <<row, drawing, can_draw, bgvars>>
    BY <1>1 DEF WriteWindow
  <1>3. ScanTypes'
    BY <1>2, ScanlineAssumption DEF ScanInv, ScanTypes, bgvars
  <1>4. OnTrack'
    BY <1>2 DEF ScanInv, OnTrack, bgvars
  <1>5. EdgesTell'
    <2>1. DoneNext(win'.top) \in Nat /\ DoneNext(win'.bottom) \in Nat
      <3>1. \A y \in Nat : DoneNext(y) = Done(y)
        BY <1>2 DEF Done, DoneNext
      <3>2. \A y \in Nat : Done(y) \in Nat
        BY DoneMoves
      <3>3. w.top \in Nat /\ w.bottom \in Nat
        OBVIOUS
      <3>. QED  BY <1>2, <3>1, <3>2, <3>3
    <2>. QED  BY <1>2, <2>1 DEF EdgesTell, Done, DoneNext
  <1>. QED  BY <1>3, <1>4, <1>5 DEF ScanInv

(* Those of the background and of the mosaic are. *)
LEMMA BackgroundInv == ASSUME ScanInv, WritesBackground PROVE ScanInv'
  <1>1. /\ mosaic \in [v : Nat \ {0}, iv : Nat]
        /\ bg \in [ref : Int, internal : Int, pb : Int, mosaic : BOOLEAN]
        /\ affine \in BOOLEAN /\ clean \in BOOLEAN /\ count \in Nat /\ since \in Nat
        /\ OnTrack
    BY DEF ScanInv, ScanTypes
  <1>2. UNCHANGED <<row, drawing, windowvars>>
    BY DEF WritesBackground, WriteReference, WriteSlope, WriteBgcnt, WriteMode, WriteMosaic
  <1>3. EdgesTell'
    BY <1>2 DEF ScanInv, EdgesTell, Done, windowvars
  <1>4. /\ mosaic' \in [v : Nat \ {0}, iv : Nat]
        /\ bg' \in [ref : Int, internal : Int, pb : Int, mosaic : BOOLEAN]
        /\ affine' \in BOOLEAN /\ clean' \in BOOLEAN /\ count' \in Nat /\ since' \in Nat
        /\ OnTrack'
    <2>1. CASE WriteReference
      <3>1. PICK r \in Int : bg' = [bg EXCEPT !.ref = r, !.internal = r]
        BY <2>1, ScanlineAssumption DEF WriteReference
      <3>2. /\ count' = 0 /\ clean' = (~bg.mosaic \/ mosaic.iv = 0)
            /\ UNCHANGED <<affine, mosaic, since>>
        BY <2>1 DEF WriteReference
      <3>3. bg' \in [ref : Int, internal : Int, pb : Int, mosaic : BOOLEAN]
            /\ bg'.internal = bg'.ref /\ bg'.mosaic = bg.mosaic
        BY <1>1, <3>1
      <3>4. OnTrack'
        <4>1. mosaic'.iv = since' % mosaic'.v
          BY <1>1, <3>2 DEF OnTrack
        <4>2. clean' /\ bg'.mosaic => mosaic'.iv = 0
          BY <3>2, <3>3
        <4>. QED  BY <1>1, <3>2, <3>3, <4>1, <4>2, AtLatch
      <3>. QED  BY <1>1, <3>2, <3>3, <3>4
    <2>2. CASE WriteSlope
      <3>1. PICK p \in Int : bg' = [bg EXCEPT !.pb = p]
        BY <2>2, ScanlineAssumption DEF WriteSlope
      <3>2. clean' = (clean /\ count = 0) /\ UNCHANGED <<affine, mosaic, count, since>>
        BY <2>2 DEF WriteSlope
      <3>3. bg' \in [ref : Int, internal : Int, pb : Int, mosaic : BOOLEAN]
            /\ bg'.internal = bg.internal /\ bg'.ref = bg.ref /\ bg'.mosaic = bg.mosaic
        BY <1>1, <3>1
      <3>. QED  BY <1>1, <3>2, <3>3, Unmoved
    <2>3. CASE WriteBgcnt
      <3>1. bg' = [bg EXCEPT !.mosaic = ~bg.mosaic]
            /\ clean' = (clean /\ count = 0 /\ (bg.mosaic \/ mosaic.iv = 0))
            /\ UNCHANGED <<affine, mosaic, count, since>>
        BY <2>3 DEF WriteBgcnt
      <3>2. bg' \in [ref : Int, internal : Int, pb : Int, mosaic : BOOLEAN]
            /\ bg'.internal = bg.internal /\ bg'.ref = bg.ref /\ bg'.mosaic = ~bg.mosaic
        BY <1>1, <3>1
      <3>3. mosaic'.iv = since' % mosaic'.v
        BY <1>1, <3>1 DEF OnTrack
      <3>4. OnTrack'
        <4>1. CASE clean'
          BY <1>1, <3>1, <3>2, <3>3, <4>1, AtLatch DEF OnTrack
        <4>2. CASE ~clean'
          BY <3>3, <4>2 DEF OnTrack
        <4>. QED  BY <4>1, <4>2
      <3>. QED  BY <1>1, <3>1, <3>2, <3>4
    <2>4. CASE WriteMode
      <3>1. affine' = ~affine /\ clean' = (clean /\ count = 0) /\ UNCHANGED <<bg, mosaic, count, since>>
        BY <2>4 DEF WriteMode
      <3>. QED  BY <1>1, <3>1, Unmoved
    <2>5. CASE WriteMosaic
      <3>1. PICK v \in Nat \ {0} : mosaic' = [v |-> v, iv |-> 0]
        BY <2>5, ScanlineAssumption DEF WriteMosaic, Resized
      <3>2. /\ since' = 0 /\ clean' = (clean /\ (count = 0 \/ ~bg.mosaic))
            /\ UNCHANGED <<bg, affine, count>>
        BY <2>5 DEF WriteMosaic
      <3>3. mosaic' \in [v : Nat \ {0}, iv : Nat] /\ mosaic'.iv = 0 /\ mosaic'.v = v
        BY <3>1
      <3>4. 0 % v = 0
        BY NextRemainder
      <3>5. mosaic'.iv = since' % mosaic'.v
        BY <3>2, <3>3, <3>4
      <3>6. OnTrack'
        <4>1. CASE ~bg.mosaic
          BY <1>1, <3>2, <3>5, <4>1 DEF OnTrack
        <4>2. CASE bg.mosaic /\ clean'
          BY <1>1, <3>2, <3>3, <3>5, <4>2, AtLatch DEF OnTrack
        <4>3. CASE bg.mosaic /\ ~clean'
          BY <3>5, <4>3 DEF OnTrack
        <4>. QED  BY <1>1, <4>1, <4>2, <4>3
      <3>. QED  BY <1>1, <3>2, <3>3, <3>6
    <2>. QED  BY <2>1, <2>2, <2>3, <2>4, <2>5 DEF WritesBackground
  <1>5. ScanTypes'
    BY <1>2, <1>4 DEF ScanInv, ScanTypes, windowvars
  <1>. QED  BY <1>3, <1>4, <1>5 DEF ScanInv

(* The invariant of the lines holds in every reachable state. *)
THEOREM ScanInvariance == ScanSpec => []ScanInv
  <1>1. ScanInv /\ [ScanNext]_scanvars => ScanInv'
    <2>. SUFFICES ASSUME ScanInv, [ScanNext]_scanvars PROVE ScanInv'
      OBVIOUS
    <2>1. CASE ScanHblank
      BY <2>1, HblankTypes, HblankOnTrack DEF ScanInv
    <2>2. CASE ScanHdraw
      BY <2>2, HdrawInv
    <2>3. CASE WritesWindow
      BY <2>3, WindowInv
    <2>4. CASE WritesBackground
      BY <2>4, BackgroundInv
    <2>5. CASE UNCHANGED scanvars
      BY <2>5 DEF scanvars, windowvars, bgvars, ScanInv, ScanTypes, EdgesTell, OnTrack, Done
    <2>. QED  BY <2>1, <2>2, <2>3, <2>4, <2>5 DEF ScanNext, Beam
  <1>. QED  BY <1>1, ScanInitInv, PTL DEF ScanSpec

(* When a line is done, the two ways to count the lines since an edge agree. *)
LEMMA BackIsDone ==
    ASSUME ScanInv, ~drawing, NEW y \in Nat
    PROVE  Back(y) = Done(y)
  <1>1. Rows \in Nat /\ row \in 0..(Rows - 1)
    BY ScanlineAssumption DEF ScanInv, ScanTypes
  <1>2. CASE y >= Rows
    BY <1>1, <1>2 DEF Back, Done, LinesSince
  <1>3. CASE y <= row
    <2>1. row - y \in 0..(Rows - 1)
      BY <1>1, <1>3
    <2>2. \A k \in 0..(Rows - 1) : k % Rows = k
      BY <1>1
    <2>. QED  BY <1>1, <1>3, <2>1, <2>2 DEF Back, Done, LinesSince
  <1>4. CASE y < Rows /\ y > row
    <2>. DEFINE k == row - y + Rows
    <2>1. k \in 0..(Rows - 1) /\ row - y = k - Rows
      BY <1>1, <1>4
    <2>2. \A m \in 0..(Rows - 1) : (m - Rows) % Rows = m
      BY <1>1
    <2>. HIDE DEF k
    <2>3. (row - y) % Rows = k
      BY <2>1, <2>2
    <2>. QED  BY <1>1, <1>4, <2>3 DEF Back, Done, LinesSince, k
  <1>. QED  BY <1>1, <1>2, <1>3, <1>4

(* generate_window_buffer, on_hblank, on_hdraw: for any coordinates, reference
   points, slopes and sizes, rewritten between any two lines, what a line is
   rendered from follows the registers. *)
THEOREM RegistersFollowed == ScanSpec => []LinesFollowRegisters
  <1>1. ScanInv => WindowOpens
    <2>. SUFFICES ASSUME ScanInv, settled = Rows, ~drawing, win.top < Rows \/ win.bottom < Rows
                  PROVE  can_draw = (Back(win.top) < Back(win.bottom))
      BY DEF WindowOpens
    <2>1. win.top \in Nat /\ win.bottom \in Nat /\ can_draw \in BOOLEAN /\ Rows \in Nat
      BY ScanlineAssumption DEF ScanInv, ScanTypes
    <2>2. Back(win.top) = Done(win.top) /\ Back(win.bottom) = Done(win.bottom)
      BY <2>1, BackIsDone
    <2>3. Done(win.top) < settled \/ Done(win.bottom) < settled
      BY <2>1, DoneMoves
    <2>4. can_draw <=> Back(win.top) < Back(win.bottom)
      BY <2>2, <2>3 DEF ScanInv, EdgesTell
    <2>5. CASE can_draw
      <3>1. can_draw = TRUE
        BY <2>1, <2>5
      <3>2. (Back(win.top) < Back(win.bottom)) = TRUE
        BY <2>4, <2>5
      <3>. QED  BY <3>1, <3>2
    <2>6. CASE ~can_draw
      <3>1. can_draw = FALSE
        BY <2>1, <2>6
      <3>2. (Back(win.top) < Back(win.bottom)) = FALSE
        BY <2>4, <2>6
      <3>. QED  BY <3>1, <3>2
    <2>. QED  BY <2>5, <2>6
  <1>2. ScanInv => LinesOnTrack
    BY DEF ScanInv, OnTrack, LinesOnTrack
  <1>. QED  BY <1>1, <1>2, ScanInvariance, PTL DEF LinesFollowRegisters
==============================================================================
