-------------------------------- MODULE Game --------------------------------
(***************************************************************************)
(* The round: the screen state machine, the fire control and the bullets,  *)
(* wired as Tank_Trouble_TL.sv wires them.  All three see every VGA_VS     *)
(* edge; the state machine's screenreset parks the bullets asynchronously; *)
(* bullets near a tank drive redwin and greenwin.                          *)
(*                                                                         *)
(* The software writes the keyboard slots one at a time, between any two   *)
(* edges.  Where the bullets fly is not modelled here: whenever a bullet   *)
(* is in flight it may be within nine pixels of either tank (a tank's own  *)
(* bullets count too); a parked one (y = 461, under the arena) never is.   *)
(***************************************************************************)
EXTENDS FireControl, Bullet

CONSTANTS FirstSlot,    \* the slot whose space bar the screens listen to
          NoKey         \* what a slot shows while no key is pressed

ASSUME FirstSlotAssumption == FirstSlot \in Slots
ASSUME NoKeyAssumption == NoKey \in OtherKeys
ASSUME BulletsAssumption == Bullets = TankBullets

VARIABLES State, spaceD,      \* ScreenControl's registers
          redwin, greenwin,   \* some bullet is near tank two, near tank one
          framed,     \* a frame edge has come since the last timer edge
          fired,      \* observed only: some bullet was launched in this round
          heard,      \* observed only: frames since t's fire key was last sampled
          picked      \* observed only: the bullet the last frame picked for t, or 0

SC == INSTANCE ScreenControl WITH space <- keycode[FirstSlot] = "space"

vars == <<fireVars, bulletVars, keycode, State, spaceD, redwin, greenwin,
          framed, fired, heard, picked>>

screen_reset == SC!screenreset
\* Frames since a key was heard are told apart up to here.
LongAgo == 3

Init == /\ FireInit /\ BulletInit /\ SC!ScreenInit
        /\ keycode = [s \in Slots |-> NoKey]
        /\ redwin = FALSE /\ greenwin = FALSE
        /\ framed = FALSE /\ fired = FALSE
        /\ heard = [t \in Tanks |-> LongAgo]
        /\ picked = [t \in Tanks |-> 0]

\* death.sv: only a bullet in flight can be near a tank, and may hit both.
Hits == /\ redwin' \in BOOLEAN /\ greenwin' \in BOOLEAN
        /\ redwin' \/ greenwin' => \E b \in Bullets : tempshot'[b]

Observe ==
  /\ fired' = (/\ ~screen_reset /\ ~screen_reset'
               /\ fired \/ \E b \in Bullets : ~tempshot[b] /\ tempshot'[b])
  /\ heard' = [t \in Tanks |-> IF \E s \in Slots : keycode[s] = t THEN 0
                               ELSE IF heard[t] < LongAgo THEN heard[t] + 1 ELSE LongAgo]
  /\ picked' = [t \in Tanks |->
                  IF Post(t) /\ \E i \in 1 .. PerTank : FirstFree(t, i, tempshot)
                    THEN CHOOSE i \in 1 .. PerTank : FirstFree(t, i, tempshot)
                    ELSE 0]

\* Fault: the bullets' reset input is not wired to screenreset.
FaultBulletEdge == BulletFrame(trigger)
\* The frame edge as the bullets see it: screenreset parks them while it is
\* high, and as soon as this very edge raises it.
BulletEdge == IF screen_reset \/ screen_reset' THEN BulletParked
                                               ELSE BulletFrame(trigger)

\* A rising edge of VGA_VS: every register samples what the others held before.
Frame == /\ SC!ScreenFrame
         /\ FireFrame(tempshot)
         /\ BulletEdge
         /\ Hits
         /\ Observe
         /\ framed' = TRUE
         /\ UNCHANGED keycode

\* A rising edge of the slow clock, never two without a frame between them.
Timer == /\ framed /\ framed' = FALSE
         /\ IF screen_reset THEN BulletParked ELSE BulletTimer
         /\ UNCHANGED <<fireVars, keycode, State, spaceD, redwin, greenwin,
                        fired, heard, picked>>

\* Fault: KEY0 resets the screens but not the bullets.
FaultKey0Parks == UNCHANGED bulletVars
\* screen_reset | Reset_h, the bullets' reset input.
Key0Parks == BulletParked

\* KEY0: the screens and the bullets clear, the fire control does not.
Key0 == /\ SC!ScreenReset
        /\ Key0Parks
        /\ redwin' = FALSE /\ greenwin' = FALSE
        /\ fired' = FALSE
        /\ UNCHANGED <<fireVars, keycode, framed, heard, picked>>

Software == /\ \E s \in Slots, k \in Keys : ShowKey(s, k)
            /\ UNCHANGED <<fireVars, bulletVars, State, spaceD, redwin, greenwin,
                           framed, fired, heard, picked>>

Next == Frame \/ Timer \/ Key0 \/ Software

\* The two clocks never stop; nobody has to press anything.
Spec == Init /\ [][Next]_vars /\ WF_vars(Frame) /\ WF_vars(Timer)
-----------------------------------------------------------------------------
TypeOK == /\ FireTypeOK /\ BulletTypeOK
          /\ State \in SC!AllStates /\ spaceD \in BOOLEAN
          /\ redwin \in BOOLEAN /\ greenwin \in BOOLEAN
          /\ framed \in BOOLEAN /\ fired \in BOOLEAN
          /\ heard \in [Tanks -> 0 .. LongAgo]
          /\ picked \in [Tanks -> 0 .. PerTank]

\* Outside a round no bullet is in flight, none is timed or held, and no hit is
\* reported, in both clock domains and at every moment.
ArenaClear == screen_reset => /\ tempshot = None /\ timer_ip = None
                              /\ counter = Zero /\ timer_done = None
                              /\ ~redwin /\ ~greenwin

D == INSTANCE Duel WITH Goal <- 3, phase <- SC!Phase, live <- fired,
                        red <- SC!redscore(SC!RoundOf), green <- SC!greenscore(SC!RoundOf)

\* Put together, screens, fire control and bullets play matches to three points
\* in which no round is decided twice, or by the shots of an earlier one, however
\* frames, timer edges, keys and the reset button fall.
ImplementsDuel == D!DuelSpec

\* A raised trigger stems from a fire key of the same tank, sampled at most two
\* frames before, across the ends of rounds too (no reset clears it).
TriggerHasCause == \A b \in TankBullets : trigger[b] => heard[b[1]] <= 1

\* So no bullet is launched that its own tank did not ask for.
NoShotUnasked ==
  [][\A b \in TankBullets : ~tempshot[b] /\ tempshot'[b] => heard'[b[1]] <= 2]_vars

\* The bullet picked for a fire key is in flight one frame later, unless the
\* round is over or it is still held from its last recall: once picked, a shot
\* is lost in no other way.
ShotAnswered ==
  [][\A t \in Tanks : 
       Frame /\ picked[t] # 0 /\ ~screen_reset /\ ~screen_reset'
         => tempshot'[<<t, picked[t]>>] \/ timer_done[<<t, picked[t]>>]]_vars

\* A key that is held down does not keep firing, and no trigger is left behind
\* by the end of a round: once the keyboard stops changing, the arena empties
\* and stays empty.
QuietArena == <>[][FALSE]_keycode => <>[](tempshot = None)
=============================================================================
