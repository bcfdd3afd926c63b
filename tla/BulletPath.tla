----------------------------- MODULE BulletPath -----------------------------
(***************************************************************************)
(* The bullets' way through the arena: bullet.sv with its positions, and   *)
(* bullet_col.sv, which tells it the walls it touches.                     *)
(*                                                                         *)
(* A round is going on (reset is low but for the end of the round), and    *)
(* the life and the reflections are those of Bullet and BulletFlight.      *)
(* Positions count sixteenths of a pixel in 14 bits.                       *)
(***************************************************************************)
EXTENDS BulletFlight, Arena

CONSTANTS Shots,      \* the poses a bullet is fired from: [x, y, angle]
          Home,       \* Home[b]: the input x_start of b
          Frames      \* bound: frames of a flight before its timer edges come

ASSUME ShotsAssumption == Shots \subseteq [x : 0 .. 1023, y : 0 .. 1023, angle : 0 .. 89]
ASSUME HomeAssumption == Home \in [Bullets -> 0 .. 1023]
ASSUME FramesAssumption == Frames \in Nat

VARIABLES cur_x, cur_y, angle,
          astray,     \* observed only: the walls b was fired across and is still behind
          flown       \* observed only: frames b has been flying

place == <<cur_x, cur_y, angle>>
pathVars == <<bulletVars, flightVars, place, astray, flown>>

At(b) == <<cur_x[b] \div 16, cur_y[b] \div 16>>

\* A pixel coordinate c is near the side s of its cell.
Near(c, s, low, high) == IF s \in {"left", "top"} THEN c % 64 <= low ELSE c % 64 >= high

\* Fault: the walls are as thick for a bullet as they are for a tank.
FaultTouches(q, c, sides) == \E s \in sides \intersect WallsAt(q) : Near(c, s, 1, 62)
\* q is at one of the walls on these sides, c being its coordinate across them.
Touches(q, c, sides) == \E s \in sides \intersect WallsAt(q) : Near(c, s, 5, 58)

\* Two walls that meet reach a little further.
Corner(q) == \E h \in {"left", "right"}, v \in {"top", "bottom"} :
                {h, v} \subseteq WallsAt(q) /\ Near(q[1], h, 8, 55) /\ Near(q[2], v, 8, 55)

xcol(q) == Corner(q) \/ Touches(q, q[1], {"left", "right"})
ycol(q) == Corner(q) \/ Touches(q, q[2], {"top", "bottom"})

xwall == [b \in Bullets |-> xcol(At(b))]
ywall == [b \in Bullets |-> ycol(At(b))]
-----------------------------------------------------------------------------
\* The motion of one frame.  y grows downwards.
motion_x(b) == 4 * (IF xdir[b] THEN -cos(angle[b]) ELSE cos(angle[b]))
motion_y(b) == 4 * (IF ydir[b] THEN -sin(angle[b]) ELSE sin(angle[b]))

\* Fault: a bullet that is mirrored still makes its step into the wall.
FaultMoves(b, trigger) == Flies(b, trigger)
\* A bullet moves unless it is mirrored; flag lets it off without a look.
Moves(b, trigger) == Flies(b, trigger) /\ (flag[b] \/ ~(xwall[b] \/ ywall[b]))

\* Fault: the muzzle lies behind the walls of a tank that touches them.
FaultMuzzle == 24
\* How far from the tank's centre a bullet starts, in pixels.
Muzzle == 14

StartX(s) == (16 * s.x + Muzzle * cos(s.angle)) % 16384
StartY(s) == (16 * s.y - Muzzle * sin(s.angle)) % 16384

\* The positions at a frame edge; a bullet that is launched takes its tank's pose.
PlaceFrame(trigger, shot) ==
  /\ cur_x' = [b \in Bullets |-> IF Recalled(b, trigger) THEN 16 * Home[b]
                                 ELSE IF Launches(b, trigger) THEN StartX(shot[b])
                                 ELSE IF Moves(b, trigger) THEN (cur_x[b] + motion_x(b)) % 16384
                                 ELSE cur_x[b]]
  /\ cur_y' = [b \in Bullets |-> IF Recalled(b, trigger) THEN 16 * 461
                                 ELSE IF Launches(b, trigger) THEN StartY(shot[b])
                                 ELSE IF Moves(b, trigger) THEN (cur_y[b] - motion_y(b)) % 16384
                                 ELSE cur_y[b]]
  /\ angle' = [b \in Bullets |-> IF Recalled(b, trigger) THEN 0
                                 ELSE IF Launches(b, trigger) THEN shot[b].angle
                                 ELSE angle[b]]

\* The side on which a cell is left for the next one.
Side(from, to, up, down) == (IF to = (from + 1) % 16 THEN {up} ELSE {})
                              \union (IF to = (from - 1) % 16 THEN {down} ELSE {})

\* The walls of p's cell on the way from p to q.
Crossed(p, q) == WallsAt(p) \intersect
  (Side(p[1] \div 64, q[1] \div 64, "right", "left") \union Side(p[2] \div 64, q[2] \div 64, "bottom", "top"))

\* A flying bullet leaves its cell through a wall.
Passes(b) == tempshot[b] /\ tempshot'[b] /\ Crossed(At(b), At(b)') # {}

\* Two walls meet in the cell of p.
Cornered(p) == \E h \in {"left", "right"}, v \in {"top", "bottom"} : {h, v} \subseteq WallsAt(p)

\* One frame edge.
PathFrame ==
  \E trigger \in [Bullets -> BOOLEAN] :
  \E shot \in [{b \in Bullets : Launches(b, trigger)} -> Shots] :
    /\ \A b \in Bullets : tempshot[b] => flown[b] < Frames \/ timer_done[b]
    /\ BulletFrame(trigger) /\ FlightFrame(trigger, xwall, ywall)
    /\ PlaceFrame(trigger, shot)
    /\ astray' = [b \in Bullets |-> CASE Launches(b, trigger) -> Crossed(<<shot[b].x, shot[b].y>>, At(b)')
                                      [] ~tempshot'[b] \/ Passes(b) -> {}
                                      [] OTHER -> astray[b]]
    /\ flown' = [b \in Bullets |-> IF tempshot[b] /\ tempshot'[b] THEN flown[b] + 1 ELSE 0]

\* A timer edge counts while the bullets fly.
PathTimer == /\ \A b \in Bullets : tempshot[b] => flown[b] = Frames
             /\ BulletTimer
             /\ UNCHANGED <<flightVars, place, astray, flown>>

\* The round ends; the next one begins with the bullets parked.
PathReset == /\ BulletParked /\ FlightCleared
             /\ cur_x' = [b \in Bullets |-> 16 * Home[b]] /\ cur_y' = [b \in Bullets |-> 16 * 461]
             /\ angle' = Zero
             /\ astray' = [b \in Bullets |-> {}] /\ flown' = Zero

PathInit == /\ BulletInit /\ FlightInit
            /\ cur_x = [b \in Bullets |-> 16 * Home[b]] /\ cur_y = [b \in Bullets |-> 16 * 461]
            /\ angle = Zero
            /\ astray = [b \in Bullets |-> {}] /\ flown = Zero

PathNext == PathFrame \/ PathTimer \/ PathReset

PathSpec == PathInit /\ [][PathNext]_pathVars
-----------------------------------------------------------------------------
\* A bullet that looks at the walls passes none: the walls are thicker for it
\* than the longest step, on every heading and from every fraction of a pixel.
\* What gets through a wall is a bullet that has just been mirrored (line 62).
LooksFirst == [][\A b \in Bullets : Passes(b) => flag[b]]_pathVars

\* Where no two walls meet, the blind frames after a reflection never take a
\* bullet through either wall of its corridor, unless it was fired across one.
StraightWallsHold == [][\A b \in Bullets : Passes(b) => astray[b] # {} \/ Cornered(At(b))]_pathVars

\* A shot fired with the tank's nose at a wall starts behind that wall (line
\* 53); it is mirrored at its first frame and back on the tank's side with the
\* next, however slowly it moves across the wall.
ShotsComeBack == \A b \in Bullets : \A s \in {"left", "right", "top", "bottom"} : astray[b] = {s} => flown[b] <= 1

\* What a shot across a wall needs to come back.  Its tank is no deeper in the
\* wall than a tank can be: the point ten pixels ahead of the tank's centre, from
\* which the muzzle is one frame's motion away, lies in the tank's cell.
Keeps(c, d) == (((16 * c + d) % 16384) \div 16) \div 64 = c \div 64

NoseInside == \A s \in Shots :
  /\ WallsAt(<<s.x, s.y>>) \intersect {"left", "right"} # {} => Keeps(s.x, 10 * cos(s.angle))
  /\ WallsAt(<<s.x, s.y>>) \intersect {"top", "bottom"} # {} => Keeps(s.y, -10 * sin(s.angle))

\* And the wall goes on where the muzzle is: it is not fired past a free end.
OtherHalf(s) == CASE s = "left" -> "right" [] s = "right" -> "left"
                  [] s = "top" -> "bottom" [] s = "bottom" -> "top"

MuzzleOf(s) == <<StartX(s) \div 16, StartY(s) \div 16>>

WallsGoOn == \A s \in Shots : \A w \in {"left", "right", "top", "bottom"} :
  Crossed(<<s.x, s.y>>, MuzzleOf(s)) = {w} => OtherHalf(w) \in WallsAt(MuzzleOf(s))
=============================================================================
