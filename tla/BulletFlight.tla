---------------------------- MODULE BulletFlight ----------------------------
(***************************************************************************)
(* Bullet's flight: the reflection registers of bullet.sv beside its life. *)
(* Positions belong to the geometry; xwall and ywall are inputs, and       *)
(* "still" records that the last frame left a flying bullet where it was.  *)
(***************************************************************************)
EXTENDS Bullet

VARIABLES flag,         \* b was reflected and must move before it looks again
          xdir, ydir,   \* b's direction is mirrored on this axis
          still         \* b flew and did not move at the last frame

flightVars == <<flag, xdir, ydir, still>>

FlightTypeOK == /\ flag \in [Bullets -> BOOLEAN] /\ still \in [Bullets -> BOOLEAN]
                /\ xdir \in [Bullets -> BOOLEAN] /\ ydir \in [Bullets -> BOOLEAN]

FlightCleared == flag' = None /\ xdir' = None /\ ydir' = None /\ still' = None

FlightInit == flag = None /\ xdir = None /\ ydir = None /\ still = None

\* A bullet that meets a wall is mirrored, and does not move in that frame.
Reflects(b, trigger, wall) == Flies(b, trigger) /\ ~flag[b] /\ wall

\* Fault: a corner (both walls) turns the bullet but does not send it off.
FaultLeaves(b, trigger, xwall, ywall) ==
  IF Flies(b, trigger)
    THEN IF flag[b] THEN xwall \/ ywall ELSE xwall # ywall
    ELSE flag[b] /\ ~Recalled(b, trigger)
\* flag': set by a reflection, held while the bullet moves and still touches.
Leaves(b, trigger, xwall, ywall) ==
  IF Flies(b, trigger) THEN xwall \/ ywall
                       ELSE flag[b] /\ ~Recalled(b, trigger)

\* One frame edge of the flight registers, with the frame edge of the life.
FlightFrame(trigger, xwall, ywall) ==
  /\ flag' = [b \in Bullets |-> Leaves(b, trigger, xwall[b], ywall[b])]
  /\ xdir' = [b \in Bullets |-> /\ ~Recalled(b, trigger)
                                /\ xdir[b] # Reflects(b, trigger, xwall[b])]
  /\ ydir' = [b \in Bullets |-> /\ ~Recalled(b, trigger)
                                /\ ydir[b] # Reflects(b, trigger, ywall[b])]
  /\ still' = [b \in Bullets |-> Reflects(b, trigger, xwall[b] \/ ywall[b])]
=============================================================================
