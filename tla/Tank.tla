-------------------------------- MODULE Tank --------------------------------
(***************************************************************************)
(* One tank: the keys that drive it, its position and angle registers, and *)
(* the seven points of its hull that are compared with the walls.          *)
(*                                                                         *)
(* tank_one and tank_two differ in their keys and in where they start; the *)
(* variable tank says which one this is.  Positions count sixteenths of a  *)
(* pixel in 14 bits, angles steps of four degrees in 7 bits.               *)
(***************************************************************************)
EXTENDS Arena

CONSTANTS Slots,      \* 0 .. 5: the six keyboard ports
          Reports,    \* Reports[t]: what the ports can hold while tank t plays
          Lane        \* bound: how far, in sixteenths, y may be from its start

ASSUME SlotsAssumption == Reports \in [{"one", "two"} -> SUBSET [Slots -> 0 .. 255]]
ASSUME LaneAssumption == Lane \in Nat

VARIABLES tank,       \* "one" or "two"
          x, y, tank_angle

tankVars == <<tank, x, y, tank_angle>>

\* Keys W, S, A and D, and the arrows.
KeysOne == [up |-> 26, down |-> 22, left |-> 4, right |-> 7]
KeysTwo == [up |-> 82, down |-> 81, left |-> 80, right |-> 79]
\* The start poses, in pixels.
StartOne == [x |-> 32, y |-> 32, angle |-> 0]
StartTwo == [x |-> 608, y |-> 416, angle |-> 45]

Keys == IF tank = "one" THEN KeysOne ELSE KeysTwo
Start == IF tank = "one" THEN StartOne ELSE StartTwo

\* A key counts in whichever port it is.
Pressed(ports, k) == \E i \in Slots : ports[i] = Keys[k]
-----------------------------------------------------------------------------
(* The hull.  y grows downwards, so it is rotated by the opposite angle.    *)

nangle == IF tank_angle = 0 THEN 0 ELSE (90 - tank_angle) % 128

center_x == x \div 16
center_y == y \div 16

\* The points whose collision counts for the front and for the rear.
FrontPoints == {<<12, -2>>, <<12, 2>>, <<7, 7>>, <<7, -7>>}
\* Fault: one index off, so that a front corner counts as a rear one.
FaultBackPoints == {<<7, 7>>, <<-7, -7>>, <<-7, 0>>}
BackPoints == {<<-7, 7>>, <<-7, -7>>, <<-7, 0>>}

\* The distance of a 10-bit coordinate from the centre, after wrapping.
Offset(d, center) == ((center + d) % 1024) - center

\* tempx or tempy, in sixteenths, to x_out or y_out: the last bit is set when
\* it or the half below it was.
Rounded(v) == 2 * (v \div 32) + (IF v % 32 < 8 THEN 0 ELSE 1)

\* Where point p of the hull is when the tank points to the right is turned
\* around the centre.
Turned(p) ==
  LET dx == Offset(p[1], center_x)
      dy == Offset(p[2], center_y)
  IN <<Rounded((16 * center_x + dx * cos(nangle) - dy * sin(nangle)) % 16384),
       Rounded((16 * center_y + dx * sin(nangle) + dy * cos(nangle)) % 16384)>>

\* A wall is two pixels wide on either side of the edge of a cell.
collision(q) == \/ q[1] % 64 >= 62 /\ "right" \in WallsAt(q)
                \/ q[2] % 64 >= 62 /\ "bottom" \in WallsAt(q)
                \/ q[1] % 64 <= 1 /\ "left" \in WallsAt(q)
                \/ q[2] % 64 <= 1 /\ "top" \in WallsAt(q)

front_col == \E p \in FrontPoints : collision(Turned(p))
back_col == \E p \in BackPoints : collision(Turned(p))
-----------------------------------------------------------------------------
(* One frame.                                                              *)

\* Which of two opposite keys is held alone.
Only(ports, k, opposite) == Pressed(ports, k) /\ ~Pressed(ports, opposite)

\* Forwards is blocked by the front and backwards by the back.
motion(ports, front, back) ==
  CASE Only(ports, "up", "down") -> IF front THEN 0 ELSE 1
    [] Only(ports, "down", "up") -> IF back THEN 0 ELSE -1
    [] OTHER -> 0

\* Fault: turning is blocked by the front alone.
FaultRotation(ports, front, back) ==
  IF front THEN 0
  ELSE CASE Only(ports, "left", "right") -> 1
         [] Only(ports, "right", "left") -> 127
         [] OTHER -> 0
\* Either end blocks turning.  -1 in seven bits is 127.
rotation(ports, front, back) ==
  IF front \/ back THEN 0
  ELSE CASE Only(ports, "left", "right") -> 1
         [] Only(ports, "right", "left") -> 127
         [] OTHER -> 0

NextAngle(r) == CASE r = 127 /\ tank_angle = 0 -> 89
                  [] r = 1 /\ tank_angle = 89 -> 0
                  [] OTHER -> (tank_angle + r) % 128

TankFrame == \E front \in {front_col}, back \in {back_col}, ports \in Reports[tank] :
               LET m == motion(ports, front, back)
               IN /\ x' = (x + 2 * m * cos(tank_angle)) % 16384
                  /\ y' = (y - 2 * m * sin(tank_angle)) % 16384
                  /\ y' \in 16 * Start.y - Lane .. 16 * Start.y + Lane
                  /\ tank_angle' = NextAngle(rotation(ports, front, back))
                  /\ UNCHANGED tank

\* screen_reset or the reset key, at any time.
TankReset == /\ x' = 16 * Start.x /\ y' = 16 * Start.y /\ tank_angle' = Start.angle
             /\ UNCHANGED tank

TankInit == /\ tank \in {"one", "two"}
            /\ x = 16 * Start.x /\ y = 16 * Start.y /\ tank_angle = Start.angle

TankNext == TankFrame \/ TankReset

TankSpec == TankInit /\ [][TankNext]_tankVars
-----------------------------------------------------------------------------
\* The registers of 14 bits.
Positions == 0 .. 16383

\* Types; the angle stays inside the tables, which have 90 of the 128 entries.
TankTypeOK == /\ tank \in {"one", "two"}
              /\ x \in Positions /\ y \in Positions
              /\ tank_angle \in 0 .. 89

\* The tanks start between two side walls, which their neighbours show as well.
\* (To the left of x = 0 that is column 5, one row down: see MCTank.)
Corridor == \A s \in {StartOne, StartTwo} :
              LET Cell(step) == WallsAt(<<(s.x + 64 * step) % 1024, s.y>>)
              IN {"left", "right"} \subseteq Cell(0) /\ "right" \in Cell(-1) /\ "left" \in Cell(1)

\* As far, in sixteenths, as a tank can go from its start without touching what
\* lies above and below it.
Yard == 240

\* Between two straight walls no key sequence brings any point of the hull
\* through the two pixels that a wall has on either side, and x never wraps.
\* (At x = 0 the wall has one side only: see CorridorWalls in MCTank.)
HullStaysInside ==
  LET left == 64 * (Start.x \div 64)
  IN /\ center_x \in left .. left + 63
     /\ \A p \in FrontPoints \union BackPoints :
          (Turned(p)[1] - left + 2) % 1024 <= 67

\* Touching with front and back leaves a tank no way out until the round is
\* over.  At a straight wall that happens only to a tank alongside it.
WedgedOnlyAlongside == front_col /\ back_col => cos(tank_angle) \in -1 .. 1
=============================================================================
