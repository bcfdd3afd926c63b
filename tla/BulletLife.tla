----------------------------- MODULE BulletLife -----------------------------
(***************************************************************************)
(* The bullets on their own: triggers, walls and the reset level may do    *)
(* anything, and the two clocks interleave freely except that the frame    *)
(* clock is the faster one, as in the hardware (sixty frames a second, a   *)
(* timer edge every two seconds: clock_divider.sv).                        *)
(***************************************************************************)
EXTENDS BulletFlight

VARIABLES
  reset,    \* the level on the bullets' reset input
  framed,   \* a frame edge has come since the last timer edge
  age       \* observed only: timer edges that b has seen since its launch

vars == <<bulletVars, flightVars, reset, framed, age>>

\* Ages are told apart up to here.
MaxAge == Limit + 2

Init == /\ BulletInit /\ FlightInit
        /\ reset = TRUE            \* the title screen
        /\ framed = FALSE
        /\ age = Zero

Frame == /\ \E trigger, xwall, ywall \in [Bullets -> BOOLEAN] :
              IF reset THEN BulletParked /\ FlightCleared
                       ELSE BulletFrame(trigger) /\ FlightFrame(trigger, xwall, ywall)
         /\ framed' = TRUE
         /\ age' = [b \in Bullets |-> IF tempshot[b] /\ tempshot'[b] THEN age[b] ELSE 0]
         /\ UNCHANGED reset

Timer == /\ framed
         /\ IF reset THEN BulletParked ELSE BulletTimer
         /\ framed' = FALSE
         /\ age' = [b \in Bullets |->
                      IF tempshot[b] /\ age[b] < MaxAge THEN age[b] + 1 ELSE age[b]]
         /\ UNCHANGED <<flightVars, reset>>

\* A round ends or the button is pressed; later a round begins.
ResetRises == /\ ~reset /\ reset' = TRUE
              /\ BulletParked /\ FlightCleared
              /\ age' = Zero
              /\ UNCHANGED framed

ResetFalls == /\ reset /\ reset' = FALSE
              /\ UNCHANGED <<bulletVars, flightVars, framed, age>>

Next == Frame \/ Timer \/ ResetRises \/ ResetFalls

\* Neither clock stops.
Spec == Init /\ [][Next]_vars /\ WF_vars(Frame) /\ WF_vars(Timer)
-----------------------------------------------------------------------------
TypeOK == /\ BulletTypeOK /\ FlightTypeOK
          /\ reset \in BOOLEAN /\ framed \in BOOLEAN
          /\ age \in [Bullets -> 0 .. MaxAge]

\* A reset leaves nothing of the old round in either clock domain.
ResetParks == reset => /\ tempshot = None /\ timer_ip = None
                       /\ counter = Zero /\ timer_done = None

\* The frame domain's flight and the timer domain's request never part: a
\* bullet is being timed exactly while it flies.
TimedWhileFlying == timer_ip = tempshot

\* The lifetime the timer has measured is this flight's: no launch inherits a
\* count from an earlier flight, and only a full count recalls a bullet.
CountsThisFlight ==
  \A b \in Bullets :
     /\ tempshot[b] => counter[b] = (IF age[b] < Limit THEN age[b] ELSE Limit)
     /\ ~tempshot[b] /\ ~timer_done[b] => counter[b] = 0
     /\ timer_done[b] => counter[b] = Limit

\* Outside a reset a bullet comes home only at the frame after its
\* (Limit + 1)st timer edge: never earlier, never later.
LifetimeExact ==
  [][\A b \in Bullets : tempshot[b] /\ ~tempshot'[b] /\ ~reset' => age[b] = Limit + 1]_vars

\* A bullet in flight never stands still for two frames running: flag takes it
\* off a wall or corner before it is mirrored again (lines 62-78).
NeverStuck == [][\A b \in Bullets : still[b] => ~still'[b]]_flightVars

\* A bullet that is fired can be fired again: its flight ends, and so does the
\* hold that follows its recall, which needs the timer's domain once more.
EveryBulletReturns ==
  \A b \in Bullets : tempshot[b] ~> ~tempshot[b] /\ ~timer_done[b]
=============================================================================
