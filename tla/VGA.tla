--------------------------------- MODULE VGA ---------------------------------
(***************************************************************************)
(* VGA_controller.sv: the pixel and line counters and the registered sync  *)
(* pulses.  The rising edge of vs is the clock of the whole game (Frame in *)
(* module Game), so when and how often it rises matters beyond the screen. *)
(* clkdiv halves the 50 MHz clock; one step here is one rising edge of it. *)
(***************************************************************************)
EXTENDS Naturals

CONSTANTS HActive, HSyncFirst, HSyncEnd, hpixels,   \* 640, 656, 752, 799
          VActive, VSyncFirst, vlines               \* 480, 490, 524

ASSUME HorizontalAssumption ==
  /\ {HActive, HSyncFirst, HSyncEnd, hpixels} \subseteq Nat
  /\ 0 < HActive /\ HActive <= HSyncFirst /\ HSyncFirst < HSyncEnd /\ HSyncEnd <= hpixels
ASSUME VerticalAssumption ==
  /\ {VActive, VSyncFirst, vlines} \subseteq Nat
  /\ 0 < VActive /\ VActive < VSyncFirst /\ VSyncFirst + 1 < vlines

VARIABLES hc, vc,   \* the counters, and DrawX and DrawY
          hs, vs,   \* the registered sync outputs, active low
          Reset,    \* KEY0 is held
          uncounted \* for the properties only: no pixel since KEY0, or power-up

vgaVars == <<hc, vc, hs, vs, Reset, uncounted>>

Cleared == hc' = 0 /\ vc' = 0 /\ hs' = FALSE /\ vs' = FALSE

VGAInit == hc = 0 /\ vc = 0 /\ hs = FALSE /\ vs = FALSE /\ Reset = FALSE /\ uncounted = TRUE

NextLine == IF hc = hpixels THEN (IF vc = vlines THEN 0 ELSE vc + 1) ELSE vc

\* Line 92: the counter is looked at one pixel early, the register being a
\* pixel late.
HSync == hc + 1 >= HSyncFirst /\ hc + 1 < HSyncEnd

\* Fault: a one-pixel pulse at the end of each line of the sync.
FaultVSyncRagged == hc = hpixels /\ vc + 1 \in {VSyncFirst, VSyncFirst + 1}
\* Line 105: the line counter is looked at one line early.
VSync == vc + 1 \in {VSyncFirst, VSyncFirst + 1}

\* A rising edge of clkdiv.
Pixel == /\ ~Reset
         /\ hc' = IF hc = hpixels THEN 0 ELSE hc + 1
         /\ vc' = NextLine
         /\ hs' = ~HSync
         /\ vs' = ~VSync
         /\ uncounted' = FALSE
         /\ UNCHANGED Reset

\* KEY0 goes down and clears everything at once; nothing counts until it is up.
Press == ~Reset /\ Reset' = TRUE /\ Cleared /\ uncounted' = TRUE
Release == Reset /\ Reset' = FALSE /\ UNCHANGED <<hc, vc, hs, vs, uncounted>>

VGANext == Pixel \/ Press \/ Release

\* The 50 MHz clock never stops.
VGASpec == VGAInit /\ [][VGANext]_vgaVars /\ WF_vgaVars(Pixel)
-----------------------------------------------------------------------------
\* Types; the counters wrap at the ends of a line and of the frame.
VGATypeOK == /\ hc \in 0 .. hpixels /\ vc \in 0 .. vlines
             /\ hs \in BOOLEAN /\ vs \in BOOLEAN /\ Reset \in BOOLEAN
             /\ uncounted \in BOOLEAN

\* The first pixel after the two lines of the sync: below the picture, once in
\* every turn of the counters.
SyncOver == hc = 0 /\ vc = VSyncFirst + 1
FrameClock == ~vs /\ vs'

\* The edge that moves the game comes at every one of these pixels, so that a
\* picture never tears, and nowhere else, but for the first pixel after KEY0 or
\* power-up, where the cleared register makes an edge of its own.
EdgeInPlace ==
  [][FrameClock <=> Pixel /\ (uncounted \/ (SyncOver /\ vc >= VActive))]_vgaVars
\* It does come, again and again, once KEY0 is left alone.
EdgeComes == <>[]~Reset => []<><<FrameClock>>_vgaVars

\* So the game is moved exactly once in each turn of the counters, and they go
\* round for ever.
FrameEdge == EdgeInPlace /\ EdgeComes
=============================================================================
