----------------------------- MODULE ArenaProofs -----------------------------
(***************************************************************************)
(* Proofs about what moves in the arena: the bullets' way (BulletPath), in *)
(* every maze and for every shot; the tanks' registers (Tank), in every    *)
(* maze and under every keyboard, and their hulls in every maze whose two  *)
(* start cells have side walls; and the bullets' life (BulletLife), for    *)
(* every set of bullets and every Limit.                                   *)
(***************************************************************************)
EXTENDS BulletLife, BulletPath, Tank, TLAPS

(* The way of a bullet.  One that looks at the walls passes none: the      *)
(* walls of bullet_col are wider than the longest step.                    *)

\* A position of 14 bits.
Wide(v) == v \in Int /\ 0 <= v /\ v <= 16383

\* Its cell, its pixel in the cell and its sixteenth of the pixel.
Reads(v, c, o, f) == /\ c \in 0 .. 15 /\ o \in 0 .. 63 /\ f \in 0 .. 15
                     /\ v = 1024 * c + 16 * o + f
                     /\ (v \div 16) % 64 = o /\ (v \div 16) \div 64 = c

LEMMA Digits == \A v : Wide(v) => \E c, o, f : Reads(v, c, o, f)
<1> SUFFICES ASSUME NEW v, Wide(v) PROVE \E c, o, f : Reads(v, c, o, f)
  OBVIOUS
<1>1. v \in Int /\ 0 <= v /\ v <= 16383
  BY DEF Wide
<1>2. v = 16 * (v \div 16) + (v % 16) /\ v % 16 \in 0 .. 15 /\ v \div 16 \in Int
  BY <1>1
<1>3. 0 <= v \div 16 /\ v \div 16 <= 1023
  BY <1>1
<1>4. PICK p \in Int, f \in 0 .. 15 : v \div 16 = p /\ v = 16 * p + f /\ 0 <= p /\ p <= 1023
  BY <1>2, <1>3
<1>5. p = 64 * (p \div 64) + (p % 64) /\ p % 64 \in 0 .. 63 /\ p \div 64 \in 0 .. 15
  BY <1>4
<1>6. PICK c \in 0 .. 15, o \in 0 .. 63 : p = 64 * c + o /\ p \div 64 = c /\ p % 64 = o
  BY <1>5
<1>7. v = 1024 * c + 16 * o + f
  BY <1>4, <1>6
<1>8. (v \div 16) % 64 = o /\ (v \div 16) \div 64 = c
  BY <1>4, <1>6
<1>9. Reads(v, c, o, f)
  BY <1>7, <1>8 DEF Reads
<1> QED BY <1>9

\* The cells on either side, counted modulo sixteen.
LEMMA Around ==
  ASSUME NEW c \in 0 .. 15
  PROVE  /\ (c + 1) % 16 = IF c = 15 THEN 0 ELSE c + 1
         /\ (c - 1) % 16 = IF c = 0 THEN 15 ELSE c - 1
<1>1. (c + 1) % 16 = IF c = 15 THEN 0 ELSE c + 1
  OBVIOUS
<1>2. (c - 1) % 16 = IF c = 0 THEN 15 ELSE c - 1
  OBVIOUS
<1> QED BY <1>1, <1>2

\* From v to w no edge is crossed that is more than six pixels away from v.
StepsInCell(v, w) ==
  /\ (v \div 16) % 64 <= 57 => (w \div 16) \div 64 # ((v \div 16) \div 64 + 1) % 16
  /\ (v \div 16) % 64 >= 6 => (w \div 16) \div 64 # ((v \div 16) \div 64 - 1) % 16

\* A step of at most four pixels, in 14 bits.
ShortStep(v, w) == \E d \in -64 .. 64 : w = (v + d) % 16384

LEMMA StepInCell ==
  ASSUME NEW v, Wide(v), NEW w, ShortStep(v, w)
  PROVE  StepsInCell(v, w)
<1>1. v \in Int /\ 0 <= v /\ v <= 16383
  BY DEF Wide
<1>2. PICK d \in -64 .. 64 : w = (v + d) % 16384
  BY DEF ShortStep
<1>3. w = IF v + d < 0 THEN v + d + 16384 ELSE IF v + d > 16383 THEN v + d - 16384 ELSE v + d
  BY <1>1, <1>2
<1>4. Wide(w)
  BY <1>1, <1>2, <1>3 DEF Wide
<1>5. PICK c, o, f : Reads(v, c, o, f)
  BY Digits
<1>6. PICK e, q, g : Reads(w, e, q, g)
  BY <1>4, Digits
<1>7. c \in 0 .. 15 /\ o \in 0 .. 63 /\ f \in 0 .. 15 /\ v = 1024 * c + 16 * o + f
  BY <1>5 DEF Reads
<1>8. e \in 0 .. 15 /\ q \in 0 .. 63 /\ g \in 0 .. 15 /\ w = 1024 * e + 16 * q + g
  BY <1>6 DEF Reads
<1>9. /\ (c + 1) % 16 = IF c = 15 THEN 0 ELSE c + 1
      /\ (c - 1) % 16 = IF c = 0 THEN 15 ELSE c - 1
  BY <1>7, Around
<1>10. o <= 57 => e # (c + 1) % 16
  <2>1. o <= 57 => e # (IF c = 15 THEN 0 ELSE c + 1)
    BY <1>1, <1>2, <1>3, <1>7, <1>8
  <2> QED BY <1>9, <2>1
<1>11. o >= 6 => e # (c - 1) % 16
  <2>1. o >= 6 => e # (IF c = 0 THEN 15 ELSE c - 1)
    BY <1>1, <1>2, <1>3, <1>7, <1>8
  <2> QED BY <1>9, <2>1
<1>12. (v \div 16) % 64 = o /\ (v \div 16) \div 64 = c /\ (w \div 16) \div 64 = e
  BY <1>5, <1>6 DEF Reads
<1> QED BY <1>10, <1>11, <1>12 DEF StepsInCell
-----------------------------------------------------------------------------
\* The positions keep their width and the angles stay in the tables.
PathOK == \A b \in Bullets : Wide(cur_x[b]) /\ Wide(cur_y[b]) /\ angle[b] \in 0 .. 89

\* No step is longer than four pixels.
LEMMA Tables == ASSUME NEW a \in 0 .. 89 PROVE sin(a) \in -16 .. 16 /\ cos(a) \in -16 .. 16
<1>1. \A i \in 1 .. 90 : Sines[i] \in -16 .. 16
  BY DEF Sines
<1>2. \A i \in 1 .. 90 : Cosines[i] \in -16 .. 16
  BY DEF Cosines
<1>3. a + 1 \in 1 .. 90
  OBVIOUS
<1> QED BY <1>1, <1>2, <1>3 DEF sin, cos

LEMMA Motion ==
  ASSUME PathOK, NEW b \in Bullets
  PROVE  motion_x(b) \in -64 .. 64 /\ -motion_y(b) \in -64 .. 64
<1>1. sin(angle[b]) \in -16 .. 16 /\ cos(angle[b]) \in -16 .. 16
  BY Tables, SMTT(30) DEF PathOK
<1> QED BY <1>1 DEF motion_x, motion_y

LEMMA MotionInt == ASSUME PathOK, NEW b \in Bullets PROVE motion_x(b) \in Int /\ motion_y(b) \in Int
<1>1. PICK u \in -16 .. 16, v \in -16 .. 16 : u = sin(angle[b]) /\ v = cos(angle[b])
  BY Tables DEF PathOK
<1> QED BY <1>1 DEF motion_x, motion_y

LEMMA Truncated == ASSUME NEW u \in Int PROVE Wide(u % 16384)
  BY DEF Wide

\* What a bullet sees that is not mirrored.
LEMMA Clear ==
  ASSUME PathOK, NEW b \in Bullets, ~(xwall[b] \/ ywall[b])
  PROVE  /\ "right" \in WallsAt(At(b)) => (cur_x[b] \div 16) % 64 <= 57
         /\ "left" \in WallsAt(At(b)) => (cur_x[b] \div 16) % 64 >= 6
         /\ "bottom" \in WallsAt(At(b)) => (cur_y[b] \div 16) % 64 <= 57
         /\ "top" \in WallsAt(At(b)) => (cur_y[b] \div 16) % 64 >= 6
<1>1. ~Touches(At(b), At(b)[1], {"left", "right"}) /\ ~Touches(At(b), At(b)[2], {"top", "bottom"})
  BY DEF xwall, ywall, xcol, ycol
<1>2. At(b)[1] = cur_x[b] \div 16 /\ At(b)[2] = cur_y[b] \div 16
  BY DEF At
<1>3. (cur_x[b] \div 16) % 64 \in Int /\ (cur_y[b] \div 16) % 64 \in Int
  BY DEF PathOK, Wide
<1>4. /\ "right" \in WallsAt(At(b)) => ~((cur_x[b] \div 16) % 64 >= 58)
      /\ "left" \in WallsAt(At(b)) => ~((cur_x[b] \div 16) % 64 <= 5)
  BY <1>1, <1>2 DEF Touches, Near
<1>5. /\ "bottom" \in WallsAt(At(b)) => ~((cur_y[b] \div 16) % 64 >= 58)
      /\ "top" \in WallsAt(At(b)) => ~((cur_y[b] \div 16) % 64 <= 5)
  BY <1>1, <1>2 DEF Touches, Near
<1> QED BY <1>3, <1>4, <1>5

\* A bullet that stays where it is crosses nothing.
LEMMA NoStep ==
  ASSUME NEW v, Wide(v)
  PROVE  /\ (v \div 16) \div 64 # ((v \div 16) \div 64 + 1) % 16
         /\ (v \div 16) \div 64 # ((v \div 16) \div 64 - 1) % 16
<1>1. PICK c, o, f : Reads(v, c, o, f)
  BY Digits
<1>2. c \in 0 .. 15 /\ (v \div 16) \div 64 = c
  BY <1>1 DEF Reads
<1> QED BY <1>2, Around
-----------------------------------------------------------------------------
LEMMA HomeWide == \A b \in Bullets : Wide(16 * Home[b]) /\ Wide(16 * 461)
<1> SUFFICES ASSUME NEW b \in Bullets PROVE Wide(16 * Home[b]) /\ Wide(16 * 461)
  OBVIOUS
<1>1. PICK h \in 0 .. 1023 : h = Home[b]
  BY HomeAssumption
<1>2. Wide(16 * h)
  BY DEF Wide
<1>3. Wide(16 * 461)
  BY DEF Wide
<1> QED BY <1>1, <1>2, <1>3

LEMMA StartWide ==
  ASSUME NEW s \in Shots
  PROVE  Wide(StartX(s)) /\ Wide(StartY(s)) /\ s.angle \in 0 .. 89
<1>1. s.x \in Int /\ s.y \in Int /\ s.angle \in 0 .. 89
  BY ShotsAssumption, SMTT(30)
<1>2. PICK u \in Int, v \in Int : u = sin(s.angle) /\ v = cos(s.angle)
  BY <1>1, Tables, SMTT(30)
<1>3. 16 * s.x + Muzzle * v \in Int /\ 16 * s.y - Muzzle * u \in Int
  BY <1>1, <1>2 DEF Muzzle
<1>4. Wide((16 * s.x + Muzzle * v) % 16384) /\ Wide((16 * s.y - Muzzle * u) % 16384)
  BY <1>3, Truncated
<1> QED BY <1>1, <1>2, <1>4 DEF StartX, StartY

\* Where a step of the bullet can take it.
LEMMA StepWide ==
  ASSUME PathOK, NEW b \in Bullets
  PROVE  Wide((cur_x[b] + motion_x(b)) % 16384) /\ Wide((cur_y[b] - motion_y(b)) % 16384)
<1>1. cur_x[b] \in Int /\ cur_y[b] \in Int
  BY DEF PathOK, Wide
<1>2. motion_x(b) \in Int /\ motion_y(b) \in Int
  BY MotionInt
<1>3. cur_x[b] + motion_x(b) \in Int /\ cur_y[b] - motion_y(b) \in Int
  BY <1>1, <1>2
<1> QED BY <1>3, Truncated

LEMMA PathOKInit == PathInit => PathOK
<1> SUFFICES ASSUME PathInit, NEW b \in Bullets
             PROVE  Wide(cur_x[b]) /\ Wide(cur_y[b]) /\ angle[b] \in 0 .. 89
  BY DEF PathOK
<1>1. cur_x[b] = 16 * Home[b] /\ cur_y[b] = 16 * 461 /\ angle[b] = 0
  BY DEF PathInit, Zero
<1>2. Wide(cur_x[b]) /\ Wide(cur_y[b])
  BY <1>1, HomeWide
<1> QED BY <1>1, <1>2

LEMMA PathOKStep == PathOK /\ [PathNext]_pathVars => PathOK'
<1> SUFFICES ASSUME PathOK, [PathNext]_pathVars, NEW b \in Bullets
             PROVE  Wide(cur_x'[b]) /\ Wide(cur_y'[b]) /\ angle'[b] \in 0 .. 89
  BY DEF PathOK
<1>1. Wide(cur_x[b]) /\ Wide(cur_y[b]) /\ angle[b] \in 0 .. 89
  BY DEF PathOK
<1>2. CASE PathFrame
  <2>1. PICK trigger \in [Bullets -> BOOLEAN] :
          \E shot \in [{c \in Bullets : Launches(c, trigger)} -> Shots] : PlaceFrame(trigger, shot)
    BY <1>2 DEF PathFrame
  <2>a. PICK shot \in [{c \in Bullets : Launches(c, trigger)} -> Shots] : PlaceFrame(trigger, shot)
    BY <2>1
  <2>2. CASE Recalled(b, trigger)
    <3>1. cur_x'[b] = 16 * Home[b] /\ cur_y'[b] = 16 * 461 /\ angle'[b] = 0
      BY <2>a, <2>2 DEF PlaceFrame
    <3> QED BY <3>1, HomeWide
  <2>3. CASE ~Recalled(b, trigger) /\ Launches(b, trigger)
    <3>1. cur_x'[b] = StartX(shot[b]) /\ cur_y'[b] = StartY(shot[b]) /\ angle'[b] = shot[b].angle
      BY <2>a, <2>3 DEF PlaceFrame
    <3>2. shot[b] \in Shots
      BY <2>a, <2>3
    <3> QED BY <3>1, <3>2, StartWide
  <2>4. CASE ~Recalled(b, trigger) /\ ~Launches(b, trigger) /\ Moves(b, trigger)
    <3>1. /\ cur_x'[b] = (cur_x[b] + motion_x(b)) % 16384
          /\ cur_y'[b] = (cur_y[b] - motion_y(b)) % 16384
          /\ angle'[b] = angle[b]
      BY <2>a, <2>4 DEF PlaceFrame
    <3> QED BY <1>1, <3>1, StepWide
  <2>5. CASE ~Recalled(b, trigger) /\ ~Launches(b, trigger) /\ ~Moves(b, trigger)
    <3>1. cur_x'[b] = cur_x[b] /\ cur_y'[b] = cur_y[b] /\ angle'[b] = angle[b]
      BY <2>a, <2>5 DEF PlaceFrame
    <3> QED BY <1>1, <3>1
  <2> QED BY <2>2, <2>3, <2>4, <2>5
<1>3. CASE PathTimer
  BY <1>1, <1>3 DEF PathTimer, place
<1>4. CASE PathReset
  <2>1. cur_x'[b] = 16 * Home[b] /\ cur_y'[b] = 16 * 461 /\ angle'[b] = 0
    BY <1>4 DEF PathReset, Zero
  <2> QED BY <2>1, HomeWide
<1>5. CASE UNCHANGED pathVars
  BY <1>1, <1>5 DEF pathVars, place
<1> QED BY <1>2, <1>3, <1>4, <1>5 DEF PathNext
-----------------------------------------------------------------------------
\* The step leaves b's cell by none of its walls.
Holds(b) ==
  /\ "right" \in WallsAt(At(b)) => (cur_x'[b] \div 16) \div 64 # ((cur_x[b] \div 16) \div 64 + 1) % 16
  /\ "left" \in WallsAt(At(b)) => (cur_x'[b] \div 16) \div 64 # ((cur_x[b] \div 16) \div 64 - 1) % 16
  /\ "bottom" \in WallsAt(At(b)) => (cur_y'[b] \div 16) \div 64 # ((cur_y[b] \div 16) \div 64 + 1) % 16
  /\ "top" \in WallsAt(At(b)) => (cur_y'[b] \div 16) \div 64 # ((cur_y[b] \div 16) \div 64 - 1) % 16

LEMMA HoldsInside == ASSUME NEW b \in Bullets, Holds(b) PROVE ~Passes(b)
<1> SUFFICES ASSUME NEW s \in Crossed(At(b), At(b)') PROVE FALSE
  BY DEF Passes
<1>1. /\ At(b)[1] = cur_x[b] \div 16 /\ At(b)[2] = cur_y[b] \div 16
      /\ At(b)'[1] = cur_x'[b] \div 16 /\ At(b)'[2] = cur_y'[b] \div 16
  BY DEF At
<1> DEFINE c == (cur_x[b] \div 16) \div 64   d == (cur_x'[b] \div 16) \div 64
           r == (cur_y[b] \div 16) \div 64   t == (cur_y'[b] \div 16) \div 64
<1>2. s \in WallsAt(At(b)) /\ s \in Side(c, d, "right", "left") \union Side(r, t, "bottom", "top")
  BY <1>1 DEF Crossed
<1>3. /\ "right" \in WallsAt(At(b)) => d # (c + 1) % 16
      /\ "left" \in WallsAt(At(b)) => d # (c - 1) % 16
      /\ "bottom" \in WallsAt(At(b)) => t # (r + 1) % 16
      /\ "top" \in WallsAt(At(b)) => t # (r - 1) % 16
  BY DEF Holds
<1> HIDE DEF c, d, r, t
<1> QED BY <1>2, <1>3 DEF Side

\* A step that is not a blind one leaves through no wall.
LEMMA LooksFirstStep == PathOK /\ [PathNext]_pathVars => \A b \in Bullets : Passes(b) => flag[b]
<1> SUFFICES ASSUME PathOK, [PathNext]_pathVars, NEW b \in Bullets, Passes(b), ~flag[b] PROVE FALSE
  OBVIOUS
<1>1. Wide(cur_x[b]) /\ Wide(cur_y[b])
  BY DEF PathOK
<1>2. cur_x'[b] = cur_x[b] /\ cur_y'[b] = cur_y[b] => FALSE
  <2>1. SUFFICES ASSUME cur_x'[b] = cur_x[b], cur_y'[b] = cur_y[b] PROVE Holds(b)
    BY HoldsInside
  <2> QED BY <1>1, <2>1, NoStep DEF Holds
<1>3. tempshot[b] /\ tempshot'[b]
  BY DEF Passes
<1>4. CASE PathFrame
  <2>1. PICK trigger \in [Bullets -> BOOLEAN] :
          /\ BulletFrame(trigger)
          /\ \E shot \in [{c \in Bullets : Launches(c, trigger)} -> Shots] : PlaceFrame(trigger, shot)
    BY <1>4 DEF PathFrame
  <2>a. PICK shot \in [{c \in Bullets : Launches(c, trigger)} -> Shots] : PlaceFrame(trigger, shot)
    BY <2>1
  <2>2. ~Launches(b, trigger)
    BY <1>3 DEF Launches
  <2>3. Flies(b, trigger) /\ ~Recalled(b, trigger)
    <3>1. Flies(b, trigger)
      BY <1>3, <2>1, <2>2 DEF BulletFrame
    <3> QED BY <3>1 DEF Flies
  <2>4. CASE ~Moves(b, trigger)
    <3>1. cur_x'[b] = cur_x[b] /\ cur_y'[b] = cur_y[b]
      BY <2>a, <2>2, <2>3, <2>4 DEF PlaceFrame
    <3> QED BY <1>2, <3>1
  <2>5. CASE Moves(b, trigger)
    <3>1. /\ cur_x'[b] = (cur_x[b] + motion_x(b)) % 16384
          /\ cur_y'[b] = (cur_y[b] - motion_y(b)) % 16384
      BY <2>a, <2>2, <2>3, <2>5 DEF PlaceFrame
    <3>2. ~(xwall[b] \/ ywall[b])
      BY <2>5, SMTT(30) DEF Moves
    <3>3. PICK d \in -64 .. 64, u \in -64 .. 64 : d = motion_x(b) /\ u = -motion_y(b)
      BY Motion
    <3>4. cur_y[b] - motion_y(b) = cur_y[b] + u
      <4>1. motion_y(b) \in Int
        BY MotionInt
      <4> QED BY <1>1, <3>3, <4>1 DEF Wide
    <3>5. ShortStep(cur_x[b], cur_x'[b]) /\ ShortStep(cur_y[b], cur_y'[b])
      BY <3>1, <3>3, <3>4 DEF ShortStep
    <3>6. /\ "right" \in WallsAt(At(b)) => (cur_x[b] \div 16) % 64 <= 57
          /\ "left" \in WallsAt(At(b)) => (cur_x[b] \div 16) % 64 >= 6
          /\ "bottom" \in WallsAt(At(b)) => (cur_y[b] \div 16) % 64 <= 57
          /\ "top" \in WallsAt(At(b)) => (cur_y[b] \div 16) % 64 >= 6
      BY <3>2, Clear
    <3>7. /\ "right" \in WallsAt(At(b)) => (cur_x'[b] \div 16) \div 64 # ((cur_x[b] \div 16) \div 64 + 1) % 16
          /\ "left" \in WallsAt(At(b)) => (cur_x'[b] \div 16) \div 64 # ((cur_x[b] \div 16) \div 64 - 1) % 16
      <4>1. StepsInCell(cur_x[b], cur_x'[b])
        BY <1>1, <3>5, StepInCell
      <4> QED BY <3>6, <4>1 DEF StepsInCell
    <3>8. /\ "bottom" \in WallsAt(At(b)) => (cur_y'[b] \div 16) \div 64 # ((cur_y[b] \div 16) \div 64 + 1) % 16
          /\ "top" \in WallsAt(At(b)) => (cur_y'[b] \div 16) \div 64 # ((cur_y[b] \div 16) \div 64 - 1) % 16
      <4>1. StepsInCell(cur_y[b], cur_y'[b])
        BY <1>1, <3>5, StepInCell
      <4> QED BY <3>6, <4>1 DEF StepsInCell
    <3>9. Holds(b)
      BY <3>7, <3>8 DEF Holds
    <3> QED BY <3>9, HoldsInside
  <2> QED BY <2>4, <2>5
<1>5. CASE PathTimer
  BY <1>2, <1>5 DEF PathTimer, place
<1>6. CASE PathReset
  BY <1>3, <1>6 DEF PathReset, BulletParked, None
<1>7. CASE UNCHANGED pathVars
  BY <1>2, <1>7 DEF pathVars, place
<1> QED BY <1>4, <1>5, <1>6, <1>7 DEF PathNext

\* Every bullet's position keeps its 14 bits and its heading its place in the
\* sine tables, whatever the maze and wherever the shots are fired from.
THEOREM PathOKHolds == PathSpec => []PathOK
<1> QED BY PathOKInit, PathOKStep, PTL DEF PathSpec

\* In every maze, of every shot: a bullet that looks at the walls (bullet.sv:79)
\* never leaves its cell through one; only the blind frames of line 62 may.
THEOREM LooksFirstHolds == PathSpec => LooksFirst
<1>1. PathSpec => []PathOK
  BY PathOKHolds
<1>2. PathOK /\ [PathNext]_pathVars => [\A b \in Bullets : Passes(b) => flag[b]]_pathVars
  BY LooksFirstStep
<1> QED BY <1>1, <1>2, PTL DEF PathSpec, LooksFirst
-----------------------------------------------------------------------------
(* A shot across a wall.  While it is behind the wall its pose is that of  *)
(* its tank's muzzle, and it has flown no frame, or one, which mirrored it.*)

Sides == {"left", "right", "top", "bottom"}

\* The cell of a coordinate in sixteenths.
CellAt(v) == (v \div 16) \div 64

\* The muzzle of a tank at pixel c that looks along k, and one frame's motion back.
Ahead(c, k) == (16 * c + Muzzle * k) % 16384
Back(c, k) == (Ahead(c, k) - 4 * k) % 16384

\* A muzzle v across an edge from pixel c is near the edge, and u is on c's side.
Between(c, v, u) ==
  /\ CellAt(v) = (c \div 64 + 1) % 16 => (v \div 16) % 64 <= 5 /\ CellAt(u) = (CellAt(v) - 1) % 16
  /\ CellAt(v) = (c \div 64 - 1) % 16 => (v \div 16) % 64 >= 58 /\ CellAt(u) = (CellAt(v) + 1) % 16

Returns(c, k) == Between(c, Ahead(c, k), Back(c, k))

LEMMA NoseReturns ==
  ASSUME NEW c \in 0 .. 1023, NEW k \in Int, -16 <= k, k <= 16, Keeps(c, 10 * k)
  PROVE  Returns(c, k)
<1> DEFINE v == Ahead(c, k)
           u == (v - 4 * k) % 16384
<1>1. Wide(v)
  BY Truncated DEF Muzzle, Ahead
<1>2. v \in Int /\ 0 <= v /\ v <= 16383
  BY <1>1 DEF Wide
<1>3. Wide(u)
  BY <1>2, Truncated
<1>4. PICK C, O, z : Reads(16 * c, C, O, z)
  <2>1. Wide(16 * c)
    BY DEF Wide
  <2> QED BY <2>1, Digits
<1>5. PICK e, o, f : Reads(v, e, o, f)
  BY <1>1, Digits
<1>6. PICK d, q, g : Reads(u, d, q, g)
  BY <1>3, Digits
<1>7. C \in 0 .. 15 /\ O \in 0 .. 63 /\ z \in 0 .. 15 /\ 16 * c = 1024 * C + 16 * O + z /\ C = c \div 64
  <2>1. C \in 0 .. 15 /\ O \in 0 .. 63 /\ z \in 0 .. 15 /\ 16 * c = 1024 * C + 16 * O + z
    BY <1>4 DEF Reads
  <2> QED BY <2>1
<1>8. e \in 0 .. 15 /\ o \in 0 .. 63 /\ f \in 0 .. 15 /\ v = 1024 * e + 16 * o + f
  BY <1>5 DEF Reads
<1>9. d \in 0 .. 15 /\ q \in 0 .. 63 /\ g \in 0 .. 15 /\ u = 1024 * d + 16 * q + g
  BY <1>6 DEF Reads
<1>10. v = IF 16 * c + 14 * k < 0 THEN 16 * c + 14 * k + 16384
           ELSE IF 16 * c + 14 * k > 16383 THEN 16 * c + 14 * k - 16384 ELSE 16 * c + 14 * k
  BY DEF Muzzle, Ahead
<1>11. u = IF v - 4 * k < 0 THEN v - 4 * k + 16384
           ELSE IF v - 4 * k > 16383 THEN v - 4 * k - 16384 ELSE v - 4 * k
  BY <1>2
<1>12. u = (16 * c + 10 * k) % 16384
  BY <1>10, <1>11
<1>13. d = C
  <2>1. CellAt(u) = c \div 64
    BY <1>12 DEF Keeps, CellAt
  <2>2. CellAt(u) = d
    BY <1>6 DEF Reads, CellAt
  <2> QED BY <1>7, <2>1, <2>2
<1>14. /\ (C + 1) % 16 = IF C = 15 THEN 0 ELSE C + 1
       /\ (C - 1) % 16 = IF C = 0 THEN 15 ELSE C - 1
       /\ (e + 1) % 16 = IF e = 15 THEN 0 ELSE e + 1
       /\ (e - 1) % 16 = IF e = 0 THEN 15 ELSE e - 1
  BY <1>7, <1>8, Around
<1> HIDE DEF u, v
<1>15. e = (IF C = 15 THEN 0 ELSE C + 1) => o <= 5 /\ d = (IF e = 0 THEN 15 ELSE e - 1)
  BY <1>7, <1>8, <1>9, <1>11, <1>13
<1>16. e = (IF C = 0 THEN 15 ELSE C - 1) => o >= 58 /\ d = (IF e = 15 THEN 0 ELSE e + 1)
  BY <1>7, <1>8, <1>9, <1>11, <1>13
<1>17. CellAt(v) = e /\ (v \div 16) % 64 = o /\ CellAt(u) = d
  BY <1>5, <1>6 DEF Reads, CellAt
<1>18. Between(c, v, u)
  BY <1>7, <1>14, <1>15, <1>16, <1>17 DEF Between
<1> QED BY <1>18 DEF u, v, Returns, Back

\* The wall a shot is fired across lies between its tank and its muzzle.
LEMMA FiredAcross ==
  ASSUME NEW q \in Shots, NEW w \in Sides, Crossed(<<q.x, q.y>>, MuzzleOf(q)) = {w}
  PROVE  /\ w \in WallsAt(<<q.x, q.y>>)
         /\ w = "right" => CellAt(StartX(q)) = (q.x \div 64 + 1) % 16
         /\ w = "left" => CellAt(StartX(q)) = (q.x \div 64 - 1) % 16
         /\ w = "bottom" => CellAt(StartY(q)) = (q.y \div 64 + 1) % 16
         /\ w = "top" => CellAt(StartY(q)) = (q.y \div 64 - 1) % 16
<1>1. w \in Crossed(<<q.x, q.y>>, MuzzleOf(q))
  OBVIOUS
<1>2. MuzzleOf(q)[1] \div 64 = CellAt(StartX(q)) /\ MuzzleOf(q)[2] \div 64 = CellAt(StartY(q))
  BY DEF MuzzleOf, CellAt
<1>3. /\ w \in WallsAt(<<q.x, q.y>>)
      /\ w \in Side(q.x \div 64, CellAt(StartX(q)), "right", "left")
                 \union Side(q.y \div 64, CellAt(StartY(q)), "bottom", "top")
  BY <1>1, <1>2 DEF Crossed
<1> QED BY <1>3 DEF Side

\* The muzzle is back after a frame's motion, across the wall it was fired through.
LEMMA MuzzleReturns ==
  ASSUME NoseInside, NEW q \in Shots, NEW w \in Sides, w \in WallsAt(<<q.x, q.y>>)
  PROVE  /\ w \in {"left", "right"} =>
              Between(q.x, StartX(q), (StartX(q) - 4 * cos(q.angle)) % 16384)
         /\ w \in {"top", "bottom"} =>
              Between(q.y, StartY(q), (StartY(q) + 4 * sin(q.angle)) % 16384)
<1>1. q.x \in 0 .. 1023 /\ q.y \in 0 .. 1023 /\ q.angle \in 0 .. 89
  BY ShotsAssumption
<1>2. PICK c \in Int, s \in Int : /\ c = cos(q.angle) /\ -16 <= c /\ c <= 16
                                  /\ s = sin(q.angle) /\ -16 <= s /\ s <= 16
  <2>1. sin(q.angle) \in -16 .. 16 /\ cos(q.angle) \in -16 .. 16
    BY <1>1, Tables, SMTT(30)
  <2>2. /\ cos(q.angle) \in Int /\ -16 <= cos(q.angle) /\ cos(q.angle) <= 16
        /\ sin(q.angle) \in Int /\ -16 <= sin(q.angle) /\ sin(q.angle) <= 16
    BY <2>1
  <2> QED BY <2>2
<1>3. CASE w \in {"left", "right"}
  <2>1. WallsAt(<<q.x, q.y>>) \intersect {"left", "right"} # {}
    BY <1>3
  <2>2. Keeps(q.x, 10 * c)
    BY <1>2, <2>1, Zenon DEF NoseInside
  <2>3. Returns(q.x, c)
    BY <1>1, <1>2, <2>2, NoseReturns, ZenonT(30)
  <2>4. StartX(q) = Ahead(q.x, c)
    BY <1>2 DEF StartX, Ahead
  <2>5. Between(q.x, StartX(q), (StartX(q) - 4 * cos(q.angle)) % 16384)
    BY <1>2, <2>3, <2>4 DEF Returns, Back
  <2> QED BY <1>3, <2>5
<1>4. CASE w \in {"top", "bottom"}
  <2>1. WallsAt(<<q.x, q.y>>) \intersect {"top", "bottom"} # {}
    BY <1>4
  <2>2. Keeps(q.y, -10 * s)
    BY <1>2, <2>1, Zenon DEF NoseInside
  <2>3. PICK t \in Int : t = 0 - s /\ -16 <= t /\ t <= 16
    BY <1>2
  <2>4. -10 * s = 10 * t /\ 16 * q.y - Muzzle * s = 16 * q.y + Muzzle * t
    BY <1>1, <1>2, <2>3, SMTT(30) DEF Muzzle
  <2>5. Returns(q.y, t)
    BY <1>1, <2>2, <2>3, <2>4, NoseReturns, ZenonT(30)
  <2>6. StartY(q) = Ahead(q.y, t)
    BY <1>2, <2>4 DEF StartY, Ahead
  <2>7. StartY(q) - 4 * t = StartY(q) + 4 * s
    BY <1>2, <2>3, StartWide DEF Wide
  <2>8. Back(q.y, t) = (StartY(q) + 4 * s) % 16384
    BY <2>6, <2>7 DEF Back
  <2>9. Between(q.y, StartY(q), (StartY(q) + 4 * sin(q.angle)) % 16384)
    BY <1>2, <2>5, <2>6, <2>8 DEF Returns
  <2> QED BY <1>4, <2>9
<1> QED BY <1>3, <1>4

\* b is where q was fired, behind w.
FiredFrom(b, q, w) == /\ Crossed(<<q.x, q.y>>, MuzzleOf(q)) = {w}
                      /\ cur_x[b] = StartX(q) /\ cur_y[b] = StartY(q) /\ angle[b] = q.angle

Mirrored(b, w) == IF w \in {"left", "right"} THEN xdir[b] ELSE ydir[b]

\* There it touches the wall's other half,
LEMMA StrayTouches ==
  ASSUME NoseInside, WallsGoOn, NEW b \in Bullets, NEW q \in Shots, NEW w \in Sides, FiredFrom(b, q, w)
  PROVE  /\ w \in {"left", "right"} => xwall[b]
         /\ w \in {"top", "bottom"} => ywall[b]
<1>1. OtherHalf(w) \in WallsAt(At(b)) /\ At(b) = MuzzleOf(q)
  BY DEF WallsGoOn, FiredFrom, MuzzleOf, At, Sides
<1>2. At(b)[1] = StartX(q) \div 16 /\ At(b)[2] = StartY(q) \div 16
  BY DEF FiredFrom, At
<1>3. w \in WallsAt(<<q.x, q.y>>)
  BY FiredAcross DEF FiredFrom
<1>4. w \in {"left", "right"} => OtherHalf(w) \in {"left", "right"} /\ Near(At(b)[1], OtherHalf(w), 5, 58)
  <2>1. w = "right" => (StartX(q) \div 16) % 64 <= 5
    BY <1>3, FiredAcross, MuzzleReturns DEF FiredFrom, Between
  <2>2. w = "left" => (StartX(q) \div 16) % 64 >= 58
    BY <1>3, FiredAcross, MuzzleReturns DEF FiredFrom, Between
  <2> QED BY <1>2, <2>1, <2>2 DEF OtherHalf, Near
<1>5. w \in {"top", "bottom"} => OtherHalf(w) \in {"top", "bottom"} /\ Near(At(b)[2], OtherHalf(w), 5, 58)
  <2>1. w = "bottom" => (StartY(q) \div 16) % 64 <= 5
    BY <1>3, FiredAcross, MuzzleReturns DEF FiredFrom, Between
  <2>2. w = "top" => (StartY(q) \div 16) % 64 >= 58
    BY <1>3, FiredAcross, MuzzleReturns DEF FiredFrom, Between
  <2> QED BY <1>2, <2>1, <2>2 DEF OtherHalf, Near
<1>6. /\ w \in {"left", "right"} => xcol(At(b))
      /\ w \in {"top", "bottom"} => ycol(At(b))
  BY <1>1, <1>4, <1>5 DEF xcol, ycol, Touches
<1> QED BY <1>6 DEF xwall, ywall

\* and a mirrored frame takes it back through it.
LEMMA StrayReturns ==
  ASSUME NoseInside, WallsGoOn, NEW b \in Bullets, NEW q \in Shots, NEW w \in Sides,
         FiredFrom(b, q, w), Mirrored(b, w),
         cur_x'[b] = (cur_x[b] + motion_x(b)) % 16384, cur_y'[b] = (cur_y[b] - motion_y(b)) % 16384
  PROVE  Crossed(At(b), At(b)') # {}
<1>1. OtherHalf(w) \in WallsAt(At(b))
  BY DEF WallsGoOn, FiredFrom, MuzzleOf, At, Sides
<1>2. /\ At(b)[1] \div 64 = CellAt(StartX(q)) /\ At(b)[2] \div 64 = CellAt(StartY(q))
      /\ At(b)'[1] \div 64 = CellAt(cur_x'[b]) /\ At(b)'[2] \div 64 = CellAt(cur_y'[b])
  BY DEF FiredFrom, At, CellAt
<1>3. w \in WallsAt(<<q.x, q.y>>)
  BY FiredAcross DEF FiredFrom
<1>4. q.angle \in 0 .. 89 /\ Wide(StartX(q)) /\ Wide(StartY(q))
  BY StartWide
<1>5. PICK c \in -16 .. 16, s \in -16 .. 16 : c = cos(q.angle) /\ s = sin(q.angle)
  <2>1. sin(q.angle) \in -16 .. 16 /\ cos(q.angle) \in -16 .. 16
    BY <1>4, Tables, SMTT(30)
  <2> QED BY <2>1
<1>6. w \in {"left", "right"} => cur_x'[b] = (StartX(q) - 4 * c) % 16384
  <2>1. w \in {"left", "right"} => motion_x(b) = 4 * (-c)
    BY <1>5 DEF FiredFrom, Mirrored, motion_x
  <2>2. StartX(q) + 4 * (-c) = StartX(q) - 4 * c
    BY <1>4 DEF Wide
  <2> QED BY <2>1, <2>2 DEF FiredFrom
<1>7. w \in {"top", "bottom"} => cur_y'[b] = (StartY(q) + 4 * s) % 16384
  <2>1. w \in {"top", "bottom"} => motion_y(b) = 4 * (-s)
    BY <1>5 DEF FiredFrom, Mirrored, motion_y
  <2>2. StartY(q) - 4 * (-s) = StartY(q) + 4 * s
    BY <1>4 DEF Wide
  <2> QED BY <2>1, <2>2 DEF FiredFrom
<1>8. /\ w = "right" => CellAt(cur_x'[b]) = (CellAt(StartX(q)) - 1) % 16
      /\ w = "left" => CellAt(cur_x'[b]) = (CellAt(StartX(q)) + 1) % 16
  BY <1>3, <1>5, <1>6, FiredAcross, MuzzleReturns DEF FiredFrom, Between
<1>9. /\ w = "bottom" => CellAt(cur_y'[b]) = (CellAt(StartY(q)) - 1) % 16
      /\ w = "top" => CellAt(cur_y'[b]) = (CellAt(StartY(q)) + 1) % 16
  BY <1>3, <1>5, <1>7, FiredAcross, MuzzleReturns DEF FiredFrom, Between
<1>10. OtherHalf(w) \in Side(At(b)[1] \div 64, At(b)'[1] \div 64, "right", "left")
                          \union Side(At(b)[2] \div 64, At(b)'[2] \div 64, "bottom", "top")
  BY <1>2, <1>8, <1>9 DEF Side, OtherHalf, Sides
<1> QED BY <1>1, <1>10 DEF Crossed

\* A parked bullet has forgotten its last flight, and one behind the wall it was
\* fired across is at its muzzle: just launched, or mirrored at its first frame.
Parked(b) == ~tempshot[b] => flag[b] = FALSE /\ xdir[b] = FALSE /\ ydir[b] = FALSE /\ astray[b] = {}
Straying(b, w) ==
  \E q \in Shots : /\ FiredFrom(b, q, w)
                   /\ \/ flown[b] = 0 /\ flag[b] = FALSE /\ xdir[b] = FALSE /\ ydir[b] = FALSE
                      \/ flown[b] = 1 /\ flag[b] /\ Mirrored(b, w)
StrayInv == \A b \in Bullets : /\ Parked(b)
                               /\ \A w \in Sides : astray[b] = {w} => Straying(b, w)

LEMMA StrayInit == PathInit => StrayInv
<1> SUFFICES ASSUME PathInit, NEW b \in Bullets PROVE Parked(b) /\ astray[b] = {}
  BY Zenon DEF StrayInv
<1> QED BY DEF PathInit, BulletInit, FlightInit, None, Parked

\* The frame edge given what is fired.
Firing(trigger, shot) ==
  /\ BulletFrame(trigger) /\ FlightFrame(trigger, xwall, ywall) /\ PlaceFrame(trigger, shot)
  /\ astray' = [c \in Bullets |-> CASE Launches(c, trigger) -> Crossed(<<shot[c].x, shot[c].y>>, At(c)')
                                    [] ~tempshot'[c] \/ Passes(c) -> {}
                                    [] OTHER -> astray[c]]
  /\ flown' = [c \in Bullets |-> IF tempshot[c] /\ tempshot'[c] THEN flown[c] + 1 ELSE 0]

\* What a frame edge does to one bullet.
LEMMA StrayFrame ==
  ASSUME PathOK, StrayInv, NoseInside, WallsGoOn, PathFrame, NEW b \in Bullets
  PROVE  Parked(b)' /\ \A w \in Sides : astray'[b] = {w} => Straying(b, w)'
<1>a. PICK trigger \in [Bullets -> BOOLEAN] :
        \E shot \in [{c \in Bullets : Launches(c, trigger)} -> Shots] : Firing(trigger, shot)
  BY DEF PathFrame, Firing
<1>b. PICK shot \in [{c \in Bullets : Launches(c, trigger)} -> Shots] : Firing(trigger, shot)
  BY <1>a
<1>1. /\ BulletFrame(trigger) /\ FlightFrame(trigger, xwall, ywall) /\ PlaceFrame(trigger, shot)
      /\ astray'[b] = CASE Launches(b, trigger) -> Crossed(<<shot[b].x, shot[b].y>>, At(b)')
                        [] ~tempshot'[b] \/ Passes(b) -> {}
                        [] OTHER -> astray[b]
      /\ flown'[b] = IF tempshot[b] /\ tempshot'[b] THEN flown[b] + 1 ELSE 0
  BY <1>b DEF Firing
<1>2. /\ tempshot'[b] <=> Launches(b, trigger) \/ Flies(b, trigger)
      /\ flag'[b] = Leaves(b, trigger, xwall[b], ywall[b])
      /\ xdir'[b] = (~Recalled(b, trigger) /\ xdir[b] # Reflects(b, trigger, xwall[b]))
      /\ ydir'[b] = (~Recalled(b, trigger) /\ ydir[b] # Reflects(b, trigger, ywall[b]))
  BY <1>1 DEF BulletFrame, FlightFrame
<1>3. CASE ~tempshot'[b]
  <2>1. ~Launches(b, trigger) /\ ~Flies(b, trigger)
    BY <1>2, <1>3
  <2>2. astray'[b] = {}
    BY <1>1, <1>3, <2>1
  <2>3. flag'[b] = FALSE /\ xdir'[b] = FALSE /\ ydir'[b] = FALSE
    BY <1>2, <2>1 DEF StrayInv, Parked, Leaves, Reflects, Flies
  <2> QED BY <2>2, <2>3 DEF Parked
<1>4. CASE Launches(b, trigger)
  <2>1. ~tempshot[b] /\ ~Recalled(b, trigger) /\ ~Flies(b, trigger) /\ tempshot'[b]
    BY <1>2, <1>4 DEF Launches, Flies
  <2>2. flag'[b] = FALSE /\ xdir'[b] = FALSE /\ ydir'[b] = FALSE /\ flown'[b] = 0
    BY <1>1, <1>2, <2>1 DEF StrayInv, Parked, Leaves, Reflects
  <2>3. /\ cur_x'[b] = StartX(shot[b]) /\ cur_y'[b] = StartY(shot[b])
        /\ angle'[b] = shot[b].angle /\ shot[b] \in Shots
    BY <1>1, <1>4, <2>1 DEF PlaceFrame
  <2>4. At(b)' = MuzzleOf(shot[b])
    BY <2>3 DEF At, MuzzleOf
  <2>5. astray'[b] = Crossed(<<shot[b].x, shot[b].y>>, At(b)')
    <3>1. ~(~tempshot'[b] \/ Passes(b))
      BY <2>1 DEF Passes
    <3> QED BY <1>1, <1>4, <3>1
  <2>6. \A w \in Sides : astray'[b] = {w} => FiredFrom(b, shot[b], w)'
    BY <2>3, <2>4, <2>5 DEF FiredFrom
  <2> QED BY <2>1, <2>2, <2>3, <2>6 DEF Parked, Straying
<1>5. CASE Flies(b, trigger)
  <2>1. tempshot[b] /\ tempshot'[b] /\ ~Recalled(b, trigger) /\ ~Launches(b, trigger)
    BY <1>2, <1>5 DEF Flies, Launches
  <2>2. flown'[b] = flown[b] + 1
    BY <1>1, <2>1
  <2>3. SUFFICES ASSUME NEW w \in Sides, astray'[b] = {w}
                 PROVE  Straying(b, w)'
    BY <2>1 DEF Parked
  <2>4. ~Passes(b) /\ astray[b] = {w}
    BY <1>1, <2>1, <2>3
  <2>5. PICK q \in Shots : /\ FiredFrom(b, q, w)
                           /\ \/ flown[b] = 0 /\ flag[b] = FALSE /\ xdir[b] = FALSE /\ ydir[b] = FALSE
                              \/ flown[b] = 1 /\ flag[b] /\ Mirrored(b, w)
    BY <2>4 DEF StrayInv, Straying
  <2>6. CASE flown[b] = 0 /\ flag[b] = FALSE /\ xdir[b] = FALSE /\ ydir[b] = FALSE
    <3>1. /\ w \in {"left", "right"} => xwall[b]
          /\ w \in {"top", "bottom"} => ywall[b]
      BY <2>5, StrayTouches
    <3>2. flag'[b] /\ Mirrored(b, w)'
      BY <1>2, <1>5, <2>1, <2>6, <3>1 DEF Leaves, Reflects, Mirrored, Sides
    <3>3. ~Moves(b, trigger)
      BY <2>6, <3>1 DEF Moves, Sides
    <3>4. cur_x'[b] = cur_x[b] /\ cur_y'[b] = cur_y[b] /\ angle'[b] = angle[b]
      BY <1>1, <2>1, <3>3 DEF PlaceFrame
    <3>5. FiredFrom(b, q, w)'
      BY <2>5, <3>4 DEF FiredFrom
    <3>6. flown'[b] = 1
      BY <2>2, <2>6
    <3> QED BY <3>2, <3>5, <3>6 DEF Straying
  <2>7. CASE flown[b] = 1 /\ flag[b] /\ Mirrored(b, w)
    <3>1. Moves(b, trigger)
      BY <1>5, <2>7 DEF Moves
    <3>2. /\ cur_x'[b] = (cur_x[b] + motion_x(b)) % 16384
          /\ cur_y'[b] = (cur_y[b] - motion_y(b)) % 16384
      BY <1>1, <2>1, <3>1 DEF PlaceFrame
    <3>3. Crossed(At(b), At(b)') # {}
      BY <2>5, <2>7, <3>2, StrayReturns
    <3> QED BY <2>1, <2>4, <3>3 DEF Passes
  <2> QED BY <2>5, <2>6, <2>7
<1> QED BY <1>2, <1>3, <1>4, <1>5

LEMMA StrayStep ==
  ASSUME NoseInside, WallsGoOn
  PROVE  PathOK /\ StrayInv /\ [PathNext]_pathVars => StrayInv'
<1> SUFFICES ASSUME PathOK, StrayInv, [PathNext]_pathVars, NEW b \in Bullets
             PROVE  Parked(b)' /\ \A w \in Sides : astray'[b] = {w} => Straying(b, w)'
  BY DEF StrayInv
<1>1. CASE PathFrame
  BY <1>1, StrayFrame
<1>2. CASE PathTimer \/ UNCHANGED pathVars
  <2>1. UNCHANGED <<tempshot, flightVars, place, astray, flown>>
    BY <1>2 DEF PathTimer, BulletTimer, pathVars, bulletVars
  <2> QED BY <2>1 DEF StrayInv, Parked, Straying, FiredFrom, Mirrored, flightVars, place
<1>3. CASE PathReset
  <2>1. flag'[b] = FALSE /\ xdir'[b] = FALSE /\ ydir'[b] = FALSE /\ astray'[b] = {}
    BY <1>3 DEF PathReset, FlightCleared, None
  <2> QED BY <2>1 DEF Parked
<1> QED BY <1>1, <1>2, <1>3 DEF PathNext

\* A shot fired with the tank's nose in a wall is behind that wall for two frames
\* (bullet.sv 53, 62-79): at the first it touches the wall's other half, which
\* mirrors it, and the second takes it back, however slowly it moves across.  So
\* in every maze and of every shot whose wall goes on where its muzzle is, with no
\* tank deeper in the wall than NoseStaysInside says.
THEOREM ShotsComeBackHolds ==
  ASSUME NoseInside, WallsGoOn
  PROVE  PathSpec => []ShotsComeBack
<1>1. PathSpec => []PathOK
  BY PathOKHolds
<1>2. PathOK /\ StrayInv /\ [PathNext]_pathVars => StrayInv'
  BY StrayStep
<1>3. StrayInv => ShotsComeBack
  BY DEF StrayInv, Straying, ShotsComeBack, Sides
<1> QED BY <1>1, <1>2, <1>3, StrayInit, PTL DEF PathSpec
-----------------------------------------------------------------------------
(* The registers of a tank.                                                *)

\* Every entry of the table is a number.
LEMMA CosinesAreNumbers == \A i \in 1 .. 90 : Cosines[i] \in Int
  BY DEF Cosines

\* And of the other one.
LEMMA SinesAreNumbers == \A i \in 1 .. 90 : Sines[i] \in Int
  BY DEF Sines

\* A turn of nothing, one or minus one (127) keeps the tank_angle inside the tables.
LEMMA AngleStaysInTables ==
  ASSUME tank_angle \in 0 .. 89, NEW r \in {0, 1, 127}
  PROVE  NextAngle(r) \in 0 .. 89
  BY DEF NextAngle

\* A sum cut to 14 bits is a position.
LEMMA SumWraps == ASSUME NEW v \in Int PROVE v % 16384 \in Positions
<1>1. v % 16384 \in Int /\ 0 <= v % 16384 /\ v % 16384 <= 16383
  OBVIOUS
<1> QED BY <1>1 DEF Positions

LEMMA PositionsAreNumbers == Positions \subseteq Int
  BY DEF Positions

LEMMA StartFits == 16 * Start.x \in Positions /\ 16 * Start.y \in Positions /\ Start.angle \in 0 .. 89
<1>1. Start = [x |-> 32, y |-> 32, angle |-> 0] \/ Start = [x |-> 608, y |-> 416, angle |-> 45]
  BY DEF Start, StartOne, StartTwo
<1>2. 16 * 32 \in Positions /\ 16 * 608 \in Positions /\ 16 * 416 \in Positions
  BY DEF Positions
<1> QED BY <1>1, <1>2

\* A step keeps the registers in their types: they wrap by their width and the
\* tank_angle by the two special cases of its update (tank_one.sv 264-269).
LEMMA TankTypeStep == TankTypeOK /\ [TankNext]_tankVars => TankTypeOK'
<1> SUFFICES ASSUME TankTypeOK, [TankNext]_tankVars PROVE TankTypeOK'
  OBVIOUS
<1>1. CASE TankFrame
  <2>1. \A ports, front, back : /\ motion(ports, front, back) \in {-1, 0, 1}
                                /\ rotation(ports, front, back) \in {0, 1, 127}
    BY DEF motion, rotation
  <2>2. cos(tank_angle) \in Int /\ sin(tank_angle) \in Int
    <3>1. tank_angle + 1 \in 1 .. 90
      BY DEF TankTypeOK
    <3>2. Cosines[tank_angle + 1] \in Int /\ Sines[tank_angle + 1] \in Int
      BY <3>1, CosinesAreNumbers, SinesAreNumbers
    <3> QED BY <3>2 DEF cos, sin
  <2>3. PICK dx \in Int, dy \in Int, r \in {0, 1, 127} :
          /\ x' = (x + dx) % 16384
          /\ y' = (y - dy) % 16384
          /\ tank_angle' = NextAngle(r)
          /\ tank' = tank
    <3>1. PICK front \in {front_col}, back \in {back_col}, ports \in Reports[tank] :
            /\ x' = (x + 2 * motion(ports, front, back) * cos(tank_angle)) % 16384
            /\ y' = (y - 2 * motion(ports, front, back) * sin(tank_angle)) % 16384
            /\ tank_angle' = NextAngle(rotation(ports, front, back))
            /\ tank' = tank
      BY <1>1 DEF TankFrame
    <3>2. motion(ports, front, back) \in Int
      BY <2>1
    <3>3. /\ 2 * motion(ports, front, back) * cos(tank_angle) \in Int
          /\ 2 * motion(ports, front, back) * sin(tank_angle) \in Int
      BY <2>2, <3>2
    <3> QED
      BY <2>1, <3>1, <3>3
  <2>4. x' \in Positions /\ y' \in Positions
    <3>1. x \in Int /\ y \in Int
      BY PositionsAreNumbers DEF TankTypeOK
    <3>2. x + dx \in Int /\ y - dy \in Int
      BY <2>3, <3>1
    <3> QED BY <2>3, <3>2, SumWraps
  <2>5. tank_angle' \in 0 .. 89
    BY <2>3, AngleStaysInTables DEF TankTypeOK
  <2>6. tank' \in {"one", "two"}
    BY <2>3 DEF TankTypeOK
  <2> QED
    BY <2>4, <2>5, <2>6 DEF TankTypeOK
<1>2. CASE TankReset
  BY <1>2, StartFits DEF TankReset, TankTypeOK
<1>3. CASE UNCHANGED tankVars
  BY <1>3 DEF tankVars, TankTypeOK
<1> QED
  BY <1>1, <1>2, <1>3 DEF TankNext

\* TankTypeOK is inductive as it stands.
THEOREM TankTypeCorrect == TankSpec => []TankTypeOK
<1>1. TankInit => TankTypeOK
  BY StartFits DEF TankInit, TankTypeOK
<1> QED
  BY <1>1, TankTypeStep, PTL DEF TankSpec
-----------------------------------------------------------------------------
(* A tank between two walls, seen across them: n is its centre's pixel,    *)
(* counted from the left of the column, c and s are its cosine and sine,   *)
(* and the points of its hull lie at 16 * n + u sixteenths.                *)

Size(v) == IF v < 0 THEN -v ELSE v

Fronts(c, s) == {12 * c - 2 * s, 12 * c + 2 * s, 7 * c + 7 * s, 7 * c - 7 * s}
Backs(c, s) == {7 * s - 7 * c, 0 - 7 * c - 7 * s, 0 - 7 * c}
AtWall(n, u) == 16 * n + u <= 31 \/ 16 * n + u >= 992
FrontAt(n, c, s) == \E u \in Fronts(c, s) : AtWall(n, u)
BackAt(n, c, s) == \E u \in Backs(c, s) : AtWall(n, u)

\* No point is more than two pixels in a wall, and the centre far enough from
\* x = 0 for the rotation not to wrap.
Within(n, c, s) == /\ n >= 7
                   /\ \A u \in Fronts(c, s) \union Backs(c, s) : 16 * n + u \in -32 .. 1055
Unwedged(n, c, s) == FrontAt(n, c, s) /\ BackAt(n, c, s) => c \in -1 .. 1

\* What the tables say of every angle, and of two angles four degrees apart: the
\* tank is always longer than the way it goes while it turns.
Pose(c, s) == c \in -16 .. 16 /\ s \in -16 .. 16 /\ Size(c) + Size(s) >= 15
Turns(c, s, d, t) ==
  /\ c - d \in -2 .. 2 /\ s - t \in -1 .. 1
  /\ d >= 2 => 7 * (c + d) + 7 * (Size(s) - Size(t)) >= 2 * Size(c) + 16
  /\ d <= -2 => -7 * (c + d) + 7 * (Size(s) - Size(t)) >= 2 * Size(c) + 16

\* The centre's pixel before and after a step of m.
Drives(n, c, m, e) == \E v \in Int : /\ 16 * n <= v /\ v <= 16 * n + 15
                                     /\ 16 * e <= v + 2 * m * c /\ v + 2 * m * c <= 16 * e + 15

LEMMA FarMove ==
  ASSUME NEW n \in Int, NEW c \in -16 .. 16, NEW m \in -1 .. 1, NEW e \in Int, Drives(n, c, m, e)
  PROVE  /\ e - n \in -2 .. 2
         /\ m = 0 => e = n
         /\ m = 1 => 16 * e <= 16 * n + 2 * c + 15 /\ 16 * n + 2 * c <= 16 * e + 15
         /\ m = -1 => 16 * e <= 16 * n - 2 * c + 15 /\ 16 * n - 2 * c <= 16 * e + 15
BY DEF Drives

\* A tank that touches nothing may move and turn at once.
LEMMA FreeStep ==
  ASSUME NEW n \in Int, NEW c \in Int, NEW s \in Int, NEW e \in Int, NEW d \in Int, NEW t \in Int,
         NEW m \in -1 .. 1, Drives(n, c, m, e),
         Pose(c, s), Pose(d, t), Turns(c, s, d, t), ~FrontAt(n, c, s), ~BackAt(n, c, s)
  PROVE  Within(e, d, t)
<1>1. c - d \in -2 .. 2 /\ s - t \in -1 .. 1
  BY DEF Turns
<1>2. e - n \in -2 .. 2
  BY FarMove DEF Pose
<1> QED BY <1>1, <1>2 DEF Pose, Size, FrontAt, BackAt, Fronts, Backs, AtWall, Within

\* It cannot be wedged by that: the end that follows stays clear of the wall.
LEMMA FreeStepUnwedged ==
  ASSUME NEW n \in Int, NEW c \in Int, NEW s \in Int, NEW e \in Int, NEW d \in Int, NEW t \in Int,
         NEW m \in -1 .. 1, Drives(n, c, m, e),
         Pose(c, s), Pose(d, t), Turns(c, s, d, t), ~FrontAt(n, c, s), ~BackAt(n, c, s)
  PROVE  Unwedged(e, d, t)
<1>1. c - d \in -2 .. 2 /\ s - t \in -1 .. 1
  BY DEF Turns
<1>2. 16 * e <= 16 * n + 2 * Size(c) + 15 /\ 16 * n <= 16 * e + 2 * Size(c) + 15
  <2>1. c \in -16 .. 16
    BY DEF Pose
  <2>2. /\ m = 0 => e = n
        /\ m = 1 => 16 * e <= 16 * n + 2 * c + 15 /\ 16 * n + 2 * c <= 16 * e + 15
        /\ m = -1 => 16 * e <= 16 * n - 2 * c + 15 /\ 16 * n - 2 * c <= 16 * e + 15
    BY <2>1, FarMove
  <2>3. Size(c) \in Int /\ c <= Size(c) /\ 0 - c <= Size(c)
    BY DEF Size
  <2>4. m = 0 \/ m = 1 \/ m = -1
    OBVIOUS
  <2> QED BY <2>2, <2>3, <2>4
<1>3. CASE d >= 2
  <2>1. 7 * (c + d) + 7 * (Size(s) - Size(t)) >= 2 * Size(c) + 16
    BY <1>3 DEF Turns
  <2>2. 16 * n + 7 * c + 7 * Size(s) <= 991 /\ 16 * n - 7 * c - 7 * Size(s) >= 32
    BY DEF Pose, Size, FrontAt, BackAt, Fronts, Backs, AtWall
  <2>3. /\ \A u \in Backs(d, t) : 16 * e + u <= 991
        /\ \A u \in Fronts(d, t) : 16 * e + u >= 32
    BY <1>1, <1>2, <1>3, <2>1, <2>2 DEF Pose, Size, Fronts, Backs
  <2> QED BY <2>3, <1>3 DEF Unwedged, Pose, FrontAt, BackAt, AtWall, Fronts, Backs
<1>4. CASE d <= -2
  <2>1. -7 * (c + d) + 7 * (Size(s) - Size(t)) >= 2 * Size(c) + 16
    BY <1>4 DEF Turns
  <2>2. 16 * n - 7 * c + 7 * Size(s) <= 991 /\ 16 * n + 7 * c - 7 * Size(s) >= 32
    BY DEF Pose, Size, FrontAt, BackAt, Fronts, Backs, AtWall
  <2>3. /\ \A u \in Backs(d, t) : 16 * e + u >= 32
        /\ \A u \in Fronts(d, t) : 16 * e + u <= 991
    BY <1>1, <1>2, <1>4, <2>1, <2>2 DEF Pose, Size, Fronts, Backs
  <2> QED BY <2>3, <1>4 DEF Unwedged, Pose, FrontAt, BackAt, AtWall, Fronts, Backs
<1> QED BY <1>3, <1>4 DEF Unwedged, Pose

\* A tank that does not turn moves only away from what it touches.
LEMMA StraightStep ==
  ASSUME NEW n \in Int, NEW c \in Int, NEW s \in Int, NEW e \in Int,
         NEW m \in -1 .. 1, Drives(n, c, m, e), Pose(c, s),
         Within(n, c, s), Unwedged(n, c, s), m = 1 => ~FrontAt(n, c, s), m = -1 => ~BackAt(n, c, s)
  PROVE  Within(e, c, s) /\ Unwedged(e, c, s)
<1>1. CASE m = 0
  BY <1>1, FarMove DEF Pose
<1>2. CASE m = 1
  <2>1. /\ ~FrontAt(n, c, s) /\ e - n \in -2 .. 2
        /\ 16 * e <= 16 * n + 2 * c + 15 /\ 16 * n + 2 * c <= 16 * e + 15
    BY <1>2, FarMove DEF Pose
  <2>2. Within(e, c, s)
    <3>1. CASE c >= 0
      <4>1. e >= n
        BY <2>1, <3>1
      <4> QED BY <2>1, <3>1, <4>1, SMTT(60) DEF Pose, Size, FrontAt, Fronts, Backs, AtWall, Within
    <3>2. CASE c < 0
      <4>1. e <= n
        BY <2>1, <3>2
      <4> QED BY <2>1, <3>2, <4>1, SMTT(60) DEF Pose, Size, FrontAt, Fronts, Backs, AtWall, Within
    <3> QED BY <3>1, <3>2, SMTT(30) DEF Pose
  <2>3. Unwedged(e, c, s)
    BY <2>1 DEF Pose, Size, FrontAt, BackAt, Fronts, Backs, AtWall, Within, Unwedged
  <2> QED BY <2>2, <2>3
<1>3. CASE m = -1
  <2>1. /\ ~BackAt(n, c, s) /\ e - n \in -2 .. 2
        /\ 16 * e <= 16 * n - 2 * c + 15 /\ 16 * n - 2 * c <= 16 * e + 15
    BY <1>3, FarMove DEF Pose
  <2>2. Within(e, c, s)
    BY <2>1, SMTT(30) DEF Pose, Size, BackAt, Fronts, Backs, AtWall, Within
  <2>3. Unwedged(e, c, s)
    BY <2>1, SMTT(30) DEF Pose, Size, FrontAt, BackAt, Fronts, Backs, AtWall, Within, Unwedged
  <2> QED BY <2>2, <2>3
<1> QED BY <1>1, <1>2, <1>3

\* The tables.
LEMMA EveryPose == \A a \in 0 .. 89 : Pose(cos(a), sin(a))
<1>1. \A i \in 1 .. 90 : Pose(Cosines[i], Sines[i])
  BY SMTT(30) DEF Pose, Size, Cosines, Sines
<1>2. \A a \in 0 .. 89 : a + 1 \in 1 .. 90
  OBVIOUS
<1> QED BY <1>1, <1>2 DEF cos, sin

LEMMA EveryTurn ==
  ASSUME NEW a \in 0 .. 89, NEW b \in 0 .. 89, b \in {a, a + 1, a - 1} \/ {a, b} = {0, 89}
  PROVE  Turns(cos(a), sin(a), cos(b), sin(b))
<1>1. \A i \in 1 .. 90 : Turns(Cosines[i], Sines[i], Cosines[i], Sines[i])
  BY SMTT(30) DEF Turns, Size, Cosines, Sines
<1>2. \A i \in 1 .. 90, j \in 1 .. 90 : j = i + 1 \/ (i = 90 /\ j = 1) =>
         /\ Turns(Cosines[i], Sines[i], Cosines[j], Sines[j])
         /\ Turns(Cosines[j], Sines[j], Cosines[i], Sines[i])
  BY SMTT(30) DEF Turns, Size, Cosines, Sines
<1>3. \A i \in 1 .. 90, j \in 1 .. 90 :
         i = j \/ j = i + 1 \/ i = j + 1 \/ (i = 90 /\ j = 1) \/ (j = 90 /\ i = 1) =>
           Turns(Cosines[i], Sines[i], Cosines[j], Sines[j])
  <2> SUFFICES ASSUME NEW i \in 1 .. 90, NEW j \in 1 .. 90,
                      i = j \/ j = i + 1 \/ i = j + 1 \/ (i = 90 /\ j = 1) \/ (j = 90 /\ i = 1)
               PROVE  Turns(Cosines[i], Sines[i], Cosines[j], Sines[j])
    BY ZenonT(30)
  <2>1. CASE i = j
    BY <1>1, <2>1, SMTT(30)
  <2>2. CASE j = i + 1 \/ (i = 90 /\ j = 1)
    BY <1>2, <2>2, ZenonT(30)
  <2>3. CASE i = j + 1 \/ (j = 90 /\ i = 1)
    BY <1>2, <2>3, ZenonT(30)
  <2> QED BY <2>1, <2>2, <2>3
<1>4. \A i \in 1 .. 90, j \in 1 .. 90 :
        i = a + 1 /\ j = b + 1 => Turns(Cosines[i], Sines[i], Cosines[j], Sines[j])
  <2>1. (a = 0 /\ b = 89) \/ (a = 89 /\ b = 0) \/ b = a \/ b = a + 1 \/ b = a - 1
    OBVIOUS
  <2>2. \A i \in 1 .. 90, j \in 1 .. 90 : i = a + 1 /\ j = b + 1 =>
          i = j \/ j = i + 1 \/ i = j + 1 \/ (i = 90 /\ j = 1) \/ (j = 90 /\ i = 1)
    BY <2>1
  <2> QED BY <1>3, <2>2, ZenonT(30)
<1>5. a + 1 \in 1 .. 90 /\ b + 1 \in 1 .. 90
  OBVIOUS
<1> QED BY <1>4, <1>5, ZenonT(30) DEF cos, sin

\* The hull is turned by the opposite angle, because y grows downwards.
LEMMA Opposite ==
  ASSUME tank_angle \in 0 .. 89
  PROVE  cos(nangle) = cos(tank_angle) /\ sin(nangle) = -sin(tank_angle)
<1>1. \A i \in 2 .. 90 : Cosines[92 - i] = Cosines[i] /\ Sines[92 - i] = -Sines[i]
  BY SMTT(30) DEF Cosines, Sines
<1>2. CASE tank_angle = 0
  <2>1. nangle = 0 /\ tank_angle + 1 = 1
    BY <1>2 DEF nangle
  <2>2. Sines[1] = 0
    BY DEF Sines
  <2> QED BY <1>2, <2>1, <2>2 DEF cos, sin
<1>3. CASE tank_angle # 0
  <2>1. nangle = 90 - tank_angle
    BY <1>3 DEF nangle
  <2>2. tank_angle + 1 \in 2 .. 90 /\ nangle + 1 = 92 - (tank_angle + 1)
    BY <1>3, <2>1
  <2> QED BY <1>1, <2>2 DEF cos, sin
<1> QED BY <1>2, <1>3

-----------------------------------------------------------------------------
(* The points of the hull.                                                 *)

\* How far point p of the hull lies to the right of the centre, and below it.
Across(p) == p[1] * cos(tank_angle) + p[2] * sin(tank_angle)
Along(p) == p[2] * cos(tank_angle) - p[1] * sin(tank_angle)

Hull == FrontPoints \union BackPoints

LEMMA HullCorners == \A p \in Hull : p[1] \in -7 .. 12 /\ p[2] \in -7 .. 7
BY DEF Hull, FrontPoints, BackPoints

LEMMA HullEnds ==
  ASSUME NEW c \in -16 .. 16, NEW s \in -16 .. 16, c = cos(tank_angle), s = sin(tank_angle)
  PROVE  /\ \A p \in FrontPoints : Across(p) \in Fronts(c, s)
         /\ \A p \in BackPoints : Across(p) \in Backs(c, s)
         /\ \A u \in Fronts(c, s) : \E p \in FrontPoints : Across(p) = u
         /\ \A u \in Backs(c, s) : \E p \in BackPoints : Across(p) = u
         /\ \A p \in Hull : Across(p) \in Int /\ Along(p) \in -224 .. 224
<1>1. \A p : Across(p) = p[1] * c + p[2] * s /\ Along(p) = p[2] * c - p[1] * s
  BY DEF Across, Along
<1>2. \A p \in FrontPoints : Across(p) \in Fronts(c, s)
  BY <1>1 DEF FrontPoints, Fronts
<1>3. \A p \in BackPoints : Across(p) \in Backs(c, s)
  BY <1>1 DEF BackPoints, Backs
<1>4. \A u \in Fronts(c, s) : \E p \in FrontPoints : Across(p) = u
  BY <1>1 DEF FrontPoints, Fronts
<1>5. \A u \in Backs(c, s) : \E p \in BackPoints : Across(p) = u
  BY <1>1 DEF BackPoints, Backs
<1>6. \A p \in Hull : Across(p) \in Int /\ Along(p) \in -224 .. 224
  <2>1. \A u \in Fronts(c, s) \union Backs(c, s) : u \in Int
    BY DEF Fronts, Backs
  <2> DEFINE Ways == {2 * c - 12 * s, -2 * c - 12 * s, 7 * c - 7 * s, -7 * c - 7 * s,
                      7 * c + 7 * s, 7 * s - 7 * c, 7 * s}
  <2>2. \A p \in FrontPoints : Along(p) \in Ways
    BY <1>1 DEF FrontPoints
  <2>3. \A p \in BackPoints : Along(p) \in Ways
    BY <1>1 DEF BackPoints
  <2>4. \A u \in Ways : u \in -224 .. 224
    OBVIOUS
  <2>5. \A p \in Hull : Across(p) \in Fronts(c, s) \union Backs(c, s) /\ Along(p) \in Ways
    BY <1>2, <1>3, <2>2, <2>3 DEF Hull
  <2> HIDE DEF Ways
  <2> QED BY <2>1, <2>4, <2>5
<1> QED BY <1>2, <1>3, <1>4, <1>5, <1>6

LEMMA TurnedIs ==
  ASSUME tank_angle \in 0 .. 89, center_x \in 7 .. 1000, center_y \in 7 .. 1000, NEW p \in Hull
  PROVE  Turned(p) = <<Rounded((16 * center_x + Across(p)) % 16384),
                       Rounded((16 * center_y + Along(p)) % 16384)>>
<1>1. p[1] \in -7 .. 12 /\ p[2] \in -7 .. 7
  BY HullCorners
<1>2. Offset(p[1], center_x) = p[1] /\ Offset(p[2], center_y) = p[2]
  <2>1. \A d \in Int, center \in Int : 0 <= center + d /\ center + d < 1024 => Offset(d, center) = d
    BY DEF Offset
  <2>2. /\ p[1] \in Int /\ 0 <= center_x + p[1] /\ center_x + p[1] < 1024 /\ center_x \in Int
        /\ p[2] \in Int /\ 0 <= center_y + p[2] /\ center_y + p[2] < 1024 /\ center_y \in Int
    BY <1>1
  <2> QED BY <2>1, <2>2
<1>3. cos(nangle) = cos(tank_angle) /\ sin(nangle) = -sin(tank_angle)
  BY Opposite
<1>4. \A c \in Int, s \in Int, q \in Int, r \in Int, a \in Int, b \in Int :
        a + q * c - r * (-s) = a + (q * c + r * s) /\ b + q * (-s) + r * c = b + (r * c - q * s)
  OBVIOUS
<1>5. cos(tank_angle) \in Int /\ sin(tank_angle) \in Int
  BY EveryPose DEF Pose
<1>6. /\ 16 * center_x + p[1] * cos(nangle) - p[2] * sin(nangle) = 16 * center_x + Across(p)
      /\ 16 * center_y + p[1] * sin(nangle) + p[2] * cos(nangle) = 16 * center_y + Along(p)
  BY <1>1, <1>3, <1>4, <1>5 DEF Across, Along
<1> QED BY <1>2, <1>6 DEF Turned

\* What the roundings and remainders below come to.
LEMMA Halved == \A v \in Int : \E a \in Int, r \in 0 .. 31 : v = 32 * a + r
<1>1. \A v \in Int : v = 32 * (v \div 32) + (v % 32) /\ v % 32 \in 0 .. 31 /\ v \div 32 \in Int
  OBVIOUS
<1> QED BY <1>1

LEMMA Parts ==
  /\ \A c \in Int, o \in 0 .. 63 : (64 * c + o) \div 64 = c /\ (64 * c + o) % 64 = o
  /\ \A c \in Int, o \in 0 .. 31 : (32 * c + o) \div 32 = c
<1>1. ASSUME NEW c \in Int, NEW o \in 0 .. 63 PROVE (64 * c + o) \div 64 = c /\ (64 * c + o) % 64 = o
  OBVIOUS
<1>2. ASSUME NEW c \in Int, NEW o \in 0 .. 31 PROVE (32 * c + o) \div 32 = c
  OBVIOUS
<1> QED BY <1>1, <1>2

LEMMA WrapsAt ==
  ASSUME NEW k, k = 0 \/ k = 6 \/ k = 9, NEW v \in Int, -32 <= v, v <= 1055
  PROVE  (1024 * k + v) % 16384 = IF k = 0 /\ v < 0 THEN 16384 + v ELSE 1024 * k + v
OBVIOUS

\* The pixel that a coordinate is rounded to, v sixteenths from where column k
\* begins: in that column, or in its two pixels beyond either side.
Pixel(k, v) == Rounded((1024 * k + v) % 16384)

Lands(k, v, q) ==
  /\ q \in 0 .. 1023
  /\ v < 0 => q \div 64 = (k + 15) % 16 /\ q % 64 >= 62
  /\ v \in 0 .. 1023 => q \div 64 = k /\ (q % 64 >= 62 <=> v >= 992) /\ (q % 64 <= 1 <=> v <= 31)
  /\ v >= 1024 => q \div 64 = (k + 1) % 16 /\ q % 64 <= 1
  /\ (q - 64 * k + 2) % 1024 <= 67

LEMMA PixelIs ==
  ASSUME NEW k, k = 0 \/ k = 6 \/ k = 9, NEW v \in Int, -32 <= v, v <= 1055
  PROVE  Lands(k, v, Pixel(k, v))
<1> DEFINE q == Pixel(k, v)
<1>1. PICK a \in Int, r \in 0 .. 31 : v = 32 * a + r
  BY Halved, ZenonT(30)
<1>2. a \in -1 .. 32
  BY <1>1
<1> DEFINE b == IF k = 0 /\ v < 0 THEN 511 ELSE 32 * k + a
           w == (1024 * k + v) % 16384
<1>3. PICK i \in 0 .. 1 : q = 2 * b + i
  <2>1. w = 32 * b + r
    BY <1>1, <1>2, WrapsAt
  <2>2. b \in Int
    OBVIOUS
  <2> HIDE DEF b, w
  <2>3. w \div 32 = b
    BY <2>1, <2>2, Parts
  <2>4. q = 2 * (w \div 32) + (IF w % 32 < 8 THEN 0 ELSE 1)
    BY DEF Pixel, Rounded, w
  <2> QED BY <2>3, <2>4
<1> HIDE DEF q
<1> SUFFICES Lands(k, v, q)
  BY DEF q
<1>4. CASE a = -1
  <2>1. v < 0
    BY <1>1, <1>4
  <2>2. CASE k = 0
    <3>1. q = 64 * 15 + (62 + i)
      BY <1>3, <1>4, <2>1, <2>2
    <3>2. q \div 64 = 15 /\ q % 64 = 62 + i
      BY <3>1, Parts
    <3> QED BY <2>1, <2>2, <3>1, <3>2 DEF Lands
  <2>3. CASE k # 0
    <3>1. q = 64 * (k - 1) + (62 + i)
      BY <1>3, <1>4, <2>1, <2>3
    <3>2. k - 1 \in Int /\ 62 + i \in 0 .. 63
      OBVIOUS
    <3>3. q \div 64 = k - 1 /\ q % 64 = 62 + i
      BY <3>1, <3>2, Parts
    <3> QED BY <2>1, <2>3, <3>1, <3>3, SMTT(30) DEF Lands
  <2> QED BY <2>2, <2>3
<1>5. CASE a \in 0 .. 31
  <2>1. v \in 0 .. 1023 /\ (v >= 992 <=> a = 31) /\ (v <= 31 <=> a = 0)
    BY <1>1, <1>5
  <2>2. q = 64 * k + (2 * a + i) /\ 2 * a + i \in 0 .. 63
    BY <1>3, <1>5, <2>1
  <2>3. q \div 64 = k /\ q % 64 = 2 * a + i
    BY <2>2, Parts
  <2>4. q % 64 >= 62 <=> a = 31
    BY <1>5, <2>3
  <2>5. q % 64 <= 1 <=> a = 0
    BY <1>5, <2>3
  <2>6. q \in 0 .. 1023 /\ (q - 64 * k + 2) % 1024 <= 67
    BY <2>2
  <2>7. ~(v < 0) /\ ~(v >= 1024)
    BY <2>1
  <2>8. (q % 64 >= 62 <=> v >= 992) /\ (q % 64 <= 1 <=> v <= 31)
    BY <2>1, <2>4, <2>5
  <2> QED BY <2>3, <2>6, <2>7, <2>8 DEF Lands
<1>6. CASE a = 32
  <2>1. v >= 1024
    BY <1>1, <1>6
  <2>2. PICK c \in Int : c = k + 1
    OBVIOUS
  <2>3. q = 64 * c + i /\ i \in 0 .. 63
    BY <1>3, <1>6, <2>1, <2>2
  <2>4. q \div 64 = c /\ q % 64 = i
    BY <2>3
  <2>5. q \in 0 .. 1023 /\ c = (k + 1) % 16 /\ i <= 1 /\ (q - 64 * k + 2) % 1024 <= 67
    BY <2>2, <2>3
  <2>6. ~(v < 0) /\ ~(v \in 0 .. 1023)
    BY <2>1
  <2> QED BY <2>4, <2>5, <2>6 DEF Lands
<1> QED BY <1>2, <1>4, <1>5, <1>6

\* The cell a tank starts in, and its centre's pixel in that column.
Column == Start.x \div 64
Row == Start.y \div 64
FromLeft == center_x - 64 * Column

LEMMA StartCell ==
  \/ Column = 0 /\ Row = 0 /\ Start = [x |-> 32, y |-> 32, angle |-> 0]
  \/ Column = 9 /\ Row = 6 /\ Start = [x |-> 608, y |-> 416, angle |-> 45]
<1>1. CASE tank = "one"
  <2>1. Start = [x |-> 32, y |-> 32, angle |-> 0]
    BY <1>1 DEF Start, StartOne
  <2> QED BY <2>1 DEF Column, Row
<1>2. CASE tank # "one"
  <2>1. Start = [x |-> 608, y |-> 416, angle |-> 45]
    BY <1>2 DEF Start, StartTwo
  <2> QED BY <2>1 DEF Column, Row
<1> QED BY <1>1, <1>2

CellWalls(i) == Walls[Row * 5 + i \div 2][i % 2]

LEMMA CellOf ==
  ASSUME NEW a \in 0 .. 1023, NEW b, b \div 64 = Row
  PROVE  WallsAt(<<a, b>>) = CellWalls(a \div 64)
<1>1. a \div 128 = (a \div 64) \div 2
  OBVIOUS
<1> QED BY <1>1 DEF WallsAt, CellWalls

LEMMA CorridorCells ==
  ASSUME Corridor
  PROVE  /\ {"left", "right"} \subseteq CellWalls(Column)
         /\ "right" \in CellWalls((Column + 15) % 16)
         /\ "left" \in CellWalls((Column + 1) % 16)
<1>0. \A h \in Int : h + 64 * 0 = h /\ h + 64 * (-1) = h - 64 /\ h + 64 * 1 = h + 64
  OBVIOUS
<1>1. Start \in {StartOne, StartTwo}
  BY DEF Start
<1>2. /\ {"left", "right"} \subseteq WallsAt(<<Start.x % 1024, Start.y>>)
      /\ "right" \in WallsAt(<<(Start.x - 64) % 1024, Start.y>>)
      /\ "left" \in WallsAt(<<(Start.x + 64) % 1024, Start.y>>)
  <2>1. Start.x \in Int
    BY StartCell
  <2>2. /\ {"left", "right"} \subseteq WallsAt(<<(Start.x + 64 * 0) % 1024, Start.y>>)
        /\ "right" \in WallsAt(<<(Start.x + 64 * (-1)) % 1024, Start.y>>)
        /\ "left" \in WallsAt(<<(Start.x + 64 * 1) % 1024, Start.y>>)
    BY <1>1, SMTT(30) DEF Corridor
  <2> QED BY <1>0, <2>1, <2>2
<1>3. PICK h \in 0 .. 1023, l \in 0 .. 1023, r \in 0 .. 1023 :
        /\ Start.x % 1024 = h /\ (Start.x - 64) % 1024 = l /\ (Start.x + 64) % 1024 = r
        /\ h \div 64 = Column /\ l \div 64 = (Column + 15) % 16 /\ r \div 64 = (Column + 1) % 16
  <2>1. \A g \in Int : 0 <= g /\ g < 1024 => g % 1024 = g
    OBVIOUS
  <2>2. CASE Column = 0 /\ Start.x = 32
    <3>1. \A g \in Int : -1024 <= g /\ g < 0 => g % 1024 = g + 1024
      OBVIOUS
    <3>2. (Start.x - 64) % 1024 = 992
      <4>1. Start.x - 64 \in Int /\ -1024 <= Start.x - 64 /\ Start.x - 64 < 0 /\ (Start.x - 64) + 1024 = 992
        BY <2>2
      <4> QED BY <3>1, <4>1
    <3>3. Start.x % 1024 = 32 /\ (Start.x + 64) % 1024 = 96
      BY <2>1, <2>2
    <3>4. 32 \div 64 = 0 /\ 992 \div 64 = 15 /\ 96 \div 64 = 1
      OBVIOUS
    <3> QED BY <2>2, <3>2, <3>3, <3>4
  <2>3. CASE Column = 9 /\ Start.x = 608
    <3>1. (Start.x - 64) % 1024 = 544 /\ Start.x % 1024 = 608 /\ (Start.x + 64) % 1024 = 672
      BY <2>1, <2>3
    <3>2. 608 \div 64 = 9 /\ 544 \div 64 = 8 /\ 672 \div 64 = 10
      OBVIOUS
    <3> QED BY <2>3, <3>1, <3>2
  <2>4. (Column = 0 /\ Start.x = 32) \/ (Column = 9 /\ Start.x = 608)
    BY StartCell
  <2> QED BY <2>2, <2>3, <2>4, ZenonT(30)
<1>4. Start.y \div 64 = Row
  BY DEF Row
<1>5. /\ WallsAt(<<h, Start.y>>) = CellWalls(h \div 64)
      /\ WallsAt(<<l, Start.y>>) = CellWalls(l \div 64)
      /\ WallsAt(<<r, Start.y>>) = CellWalls(r \div 64)
  <2>1. ASSUME NEW g \in 0 .. 1023 PROVE WallsAt(<<g, Start.y>>) = CellWalls(g \div 64)
    BY <1>4, CellOf, ZenonT(30)
  <2> QED BY <2>1, ZenonT(30)
<1>6. /\ {"left", "right"} \subseteq WallsAt(<<h, Start.y>>)
      /\ "right" \in WallsAt(<<l, Start.y>>)
      /\ "left" \in WallsAt(<<r, Start.y>>)
  BY <1>2, <1>3
<1> QED BY <1>3, <1>5, <1>6

\* Off the walls above and below, a point touches a wall exactly when it is
\* within two pixels of the corridor's sides.
LEMMA CollisionIs ==
  ASSUME Corridor, NEW v \in Int, -32 <= v, v <= 1055, NEW w \in Int, 32 <= w, w <= 991
  PROVE  /\ v <= 31 \/ v >= 992 => collision(<<Pixel(Column, v), Pixel(Row, w)>>)
         /\ 31 < v /\ v < 992 => ~collision(<<Pixel(Column, v), Pixel(Row, w)>>)
<1> DEFINE a == Pixel(Column, v)
           b == Pixel(Row, w)
<1>1. (Column = 0 \/ Column = 6 \/ Column = 9) /\ (Row = 0 \/ Row = 6 \/ Row = 9)
  BY StartCell
<1>2. w \in Int /\ -32 <= w /\ w <= 1055 /\ w \in 0 .. 1023 /\ ~(w <= 31) /\ ~(w >= 992)
  OBVIOUS
<1> HIDE DEF a, b
<1>3. b \div 64 = Row /\ ~(b % 64 >= 62) /\ ~(b % 64 <= 1)
  <2>1. Lands(Row, w, b)
    BY <1>1, <1>2, PixelIs DEF b
  <2> QED BY <1>2, <2>1 DEF Lands
<1>4. /\ a \in 0 .. 1023
      /\ v < 0 => a \div 64 = (Column + 15) % 16 /\ a % 64 >= 62
      /\ v \in 0 .. 1023 => a \div 64 = Column /\ (a % 64 >= 62 <=> v >= 992) /\ (a % 64 <= 1 <=> v <= 31)
      /\ v >= 1024 => a \div 64 = (Column + 1) % 16 /\ a % 64 <= 1
  <2>1. Lands(Column, v, a)
    BY <1>1, PixelIs DEF a
  <2> QED BY <2>1 DEF Lands
<1>5. collision(<<a, b>>) <=> \/ a % 64 >= 62 /\ "right" \in WallsAt(<<a, b>>)
                              \/ a % 64 <= 1 /\ "left" \in WallsAt(<<a, b>>)
  BY <1>3 DEF collision
<1> SUFFICES collision(<<a, b>>) <=> v <= 31 \/ v >= 992
  BY DEF a, b
<1>6. WallsAt(<<a, b>>) = CellWalls(a \div 64)
  <2>1. a \in 0 .. 1023
    BY <1>4
  <2>2. b \div 64 = Row
    BY <1>3
  <2> QED BY <2>1, <2>2, CellOf, ZenonT(30)
<1>7. CASE v < 0
  <2>1. "right" \in WallsAt(<<a, b>>)
    BY <1>4, <1>6, <1>7, CorridorCells
  <2> QED BY <1>4, <1>5, <1>7, <2>1
<1>8. CASE v \in 0 .. 1023
  <2>1. "left" \in WallsAt(<<a, b>>) /\ "right" \in WallsAt(<<a, b>>)
    BY <1>4, <1>6, <1>8, CorridorCells
  <2> QED BY <1>4, <1>5, <1>8, <2>1
<1>9. CASE v >= 1024
  <2>1. "left" \in WallsAt(<<a, b>>)
    BY <1>4, <1>6, <1>9, CorridorCells
  <2> QED BY <1>4, <1>5, <1>9, <2>1
<1> QED BY <1>7, <1>8, <1>9

InLane == y \in 16 * Start.y - Lane .. 16 * Start.y + Lane

\* The inductive invariant of the two theorems.
HullInv == /\ TankTypeOK /\ InLane
           /\ Within(FromLeft, cos(tank_angle), sin(tank_angle))
           /\ Unwedged(FromLeft, cos(tank_angle), sin(tank_angle))

\* The pose stays inside its corridor, whatever its angle.
LEMMA CentreIs ==
  ASSUME HullInv, Lane <= Yard
  PROVE  /\ FromLeft \in 7 .. 59 /\ center_x \in 7 .. 1000
         /\ center_y \in 7 .. 1000 /\ 16 * center_y - 1024 * Row \in 257 .. 752
<1>1. x \in Int /\ y \in Int /\ tank_angle \in 0 .. 89
  BY PositionsAreNumbers DEF HullInv, TankTypeOK
<1>2. center_x \in Int /\ FromLeft \in Int
  BY <1>1, StartCell DEF center_x, FromLeft
<1>3. PICK c \in Int, s \in Int : Pose(c, s) /\ c = cos(tank_angle) /\ s = sin(tank_angle)
  <2>1. Pose(cos(tank_angle), sin(tank_angle))
    BY <1>1, EveryPose
  <2> QED BY <2>1 DEF Pose
<1>4. FromLeft \in 7 .. 59
  <2>1. Within(FromLeft, c, s)
    BY <1>3 DEF HullInv
  <2>2. FromLeft >= 7 /\ \A u \in Fronts(c, s) \union Backs(c, s) : 16 * FromLeft + u <= 1055
    BY <1>2, <2>1 DEF Within, Fronts, Backs
  <2>3. /\ 16 * FromLeft + (7 * c + 7 * s) <= 1055 /\ 16 * FromLeft + (7 * c - 7 * s) <= 1055
        /\ 16 * FromLeft + (7 * s - 7 * c) <= 1055 /\ 16 * FromLeft + (0 - 7 * c - 7 * s) <= 1055
    BY <2>2 DEF Fronts, Backs
  <2>4. Size(c) + Size(s) >= 15
    BY <1>3 DEF Pose
  <2> QED BY <1>2, <2>2, <2>3, <2>4 DEF Size
<1>5. center_x \in 7 .. 1000
  BY <1>2, <1>4, StartCell DEF FromLeft
<1>6. PICK f \in 0 .. 15 : y = 16 * center_y + f /\ center_y \in Int
  BY <1>1 DEF center_y
<1>7. /\ Lane \in Int /\ Lane <= 240
      /\ 16 * Start.y - Lane <= y /\ y <= 16 * Start.y + Lane
  BY <1>1, LaneAssumption, StartCell DEF HullInv, InLane, Yard
<1>8. 1024 * Row + 257 <= 16 * center_y /\ 16 * center_y <= 1024 * Row + 752
  <2>1. 16 * Start.y = 1024 * Row + 512 /\ Row \in Int
    BY StartCell
  <2> QED BY <1>1, <1>6, <1>7, <2>1
<1>9. center_y \in 7 .. 1000 /\ 16 * center_y - 1024 * Row \in 257 .. 752
  BY <1>6, <1>8, StartCell
<1> QED BY <1>4, <1>5, <1>9

\* Where the points are, seen across the corridor.
LEMMA PointIs ==
  ASSUME HullInv, Lane <= Yard, Corridor, NEW p \in Hull
  PROVE  /\ Turned(p)[1] = Pixel(Column, 16 * FromLeft + Across(p))
         /\ collision(Turned(p)) <=> AtWall(FromLeft, Across(p))
         /\ 16 * FromLeft + Across(p) \in Int
         /\ -32 <= 16 * FromLeft + Across(p) /\ 16 * FromLeft + Across(p) <= 1055
<1>1. tank_angle \in 0 .. 89
  BY DEF HullInv, TankTypeOK
<1>2. /\ FromLeft \in Int /\ center_x \in 7 .. 1000
      /\ center_y \in 7 .. 1000 /\ 16 * center_y - 1024 * Row \in 257 .. 752
  BY CentreIs
<1>3. PICK c \in -16 .. 16, s \in -16 .. 16 : c = cos(tank_angle) /\ s = sin(tank_angle)
  BY <1>1, EveryPose, SMTT(30) DEF Pose
<1>4. Across(p) \in Fronts(c, s) \union Backs(c, s) /\ Across(p) \in Int /\ Along(p) \in -224 .. 224
  BY <1>3, HullEnds, ZenonT(30) DEF Hull
<1>5. PICK v \in Int : v = 16 * FromLeft + Across(p) /\ -32 <= v /\ v <= 1055
  <2>1. Within(FromLeft, c, s)
    BY <1>3 DEF HullInv
  <2>2. 16 * FromLeft + Across(p) \in -32 .. 1055
    BY <1>4, <2>1 DEF Within
  <2> QED BY <1>2, <1>4, <2>2
<1>6. PICK w \in Int : w = 16 * center_y - 1024 * Row + Along(p) /\ 32 <= w /\ w <= 991
  <2>1. \A g \in Int, h \in Int : 257 <= g /\ g <= 752 /\ -224 <= h /\ h <= 224 => 32 <= g + h /\ g + h <= 991
    OBVIOUS
  <2>2. 257 <= 16 * center_y - 1024 * Row /\ 16 * center_y - 1024 * Row <= 752 /\ 16 * center_y - 1024 * Row \in Int
    BY <1>2
  <2>3. Along(p) \in Int /\ -224 <= Along(p) /\ Along(p) <= 224
    BY <1>4
  <2> QED BY <2>1, <2>2, <2>3
<1>7. Column \in Int /\ Row \in Int
  BY StartCell
<1>8. 16 * center_x + Across(p) = 1024 * Column + v /\ 16 * center_y + Along(p) = 1024 * Row + w
  BY <1>2, <1>4, <1>5, <1>6, <1>7 DEF FromLeft
<1>9. Turned(p) = <<Pixel(Column, v), Pixel(Row, w)>>
  BY <1>1, <1>2, <1>8, TurnedIs DEF Pixel
<1>10. /\ v <= 31 \/ v >= 992 => collision(Turned(p))
       /\ 31 < v /\ v < 992 => ~collision(Turned(p))
  <2>1. -32 <= v /\ v <= 1055 /\ 32 <= w /\ w <= 991
    BY <1>5, <1>6
  <2>2. /\ v <= 31 \/ v >= 992 => collision(<<Pixel(Column, v), Pixel(Row, w)>>)
        /\ 31 < v /\ v < 992 => ~collision(<<Pixel(Column, v), Pixel(Row, w)>>)
    BY <2>1, CollisionIs
  <2> QED BY <1>9, <2>2
<1> QED BY <1>5, <1>9, <1>10 DEF AtWall

LEMMA EndsTouch ==
  ASSUME HullInv, Lane <= Yard, Corridor
  PROVE  /\ front_col <=> FrontAt(FromLeft, cos(tank_angle), sin(tank_angle))
         /\ back_col <=> BackAt(FromLeft, cos(tank_angle), sin(tank_angle))
<1>1. tank_angle \in 0 .. 89
  BY DEF HullInv, TankTypeOK
<1>2. PICK c \in -16 .. 16, s \in -16 .. 16 : c = cos(tank_angle) /\ s = sin(tank_angle)
  BY <1>1, EveryPose, SMTT(30) DEF Pose
<1>3. front_col <=> \E p \in FrontPoints : AtWall(FromLeft, Across(p))
  BY PointIs DEF front_col, Hull
<1>4. back_col <=> \E p \in BackPoints : AtWall(FromLeft, Across(p))
  BY PointIs DEF back_col, Hull
<1>5. front_col <=> FrontAt(FromLeft, c, s)
  BY <1>2, <1>3, HullEnds, ZenonT(30) DEF FrontAt
<1>6. back_col <=> BackAt(FromLeft, c, s)
  BY <1>2, <1>4, HullEnds, ZenonT(30) DEF BackAt
<1> QED BY <1>2, <1>5, <1>6

\* At the start a tank is in the middle of its cell, along the corridor's width.
LEMMA StartWithin ==
  \A c \in {16, 0 - 16} : Within(32, c, 0) /\ Unwedged(32, c, 0)
BY DEF Within, Unwedged, FrontAt, BackAt, Fronts, Backs, AtWall

LEMMA StartAngle ==
  ASSUME NEW a, a = 0 \/ a = 45
  PROVE  cos(a) \in {16, 0 - 16} /\ sin(a) = 0
<1>1. \A i \in 1 .. 90 : i = 1 \/ i = 46 => Cosines[i] \in {16, 0 - 16} /\ Sines[i] = 0
  BY DEF Cosines, Sines
<1>2. a + 1 \in 1 .. 90 /\ (a + 1 = 1 \/ a + 1 = 46)
  OBVIOUS
<1> QED BY <1>1, <1>2 DEF cos, sin

AtStart == /\ tank \in {"one", "two"}
           /\ x = 16 * Start.x /\ y = 16 * Start.y /\ tank_angle = Start.angle

LEMMA AtStartHullInv == AtStart => HullInv
<1> SUFFICES ASSUME AtStart PROVE HullInv
  OBVIOUS
<1>1. TankTypeOK
  BY StartFits DEF AtStart, TankTypeOK
<1>2. InLane
  BY StartCell, LaneAssumption DEF AtStart, InLane
<1>3. FromLeft = 32
  BY StartCell DEF AtStart, FromLeft, center_x
<1>4. tank_angle = 0 \/ tank_angle = 45
  BY StartCell DEF AtStart
<1>5. Within(32, cos(tank_angle), 0) /\ Unwedged(32, cos(tank_angle), 0) /\ sin(tank_angle) = 0
  BY <1>4, StartAngle, StartWithin
<1> QED BY <1>1, <1>2, <1>3, <1>5 DEF HullInv

LEMMA HullInvFrame ==
  ASSUME HullInv, TankFrame, Lane <= Yard, Corridor
  PROVE  HullInv'
<1>1. PICK m \in Int, r \in {0, 1, 127} :
        /\ m = 0 \/ m = 1 \/ m = -1
        /\ m = 1 => ~front_col
        /\ m = -1 => ~back_col
        /\ r # 0 => ~front_col /\ ~back_col
        /\ x' = (x + 2 * m * cos(tank_angle)) % 16384
        /\ y' \in 16 * Start.y - Lane .. 16 * Start.y + Lane
        /\ tank_angle' = NextAngle(r) /\ tank' = tank
  <2>1. PICK front \in {front_col}, back \in {back_col}, ports \in Reports[tank] :
          /\ x' = (x + 2 * motion(ports, front, back) * cos(tank_angle)) % 16384
          /\ y' \in 16 * Start.y - Lane .. 16 * Start.y + Lane
          /\ tank_angle' = NextAngle(rotation(ports, front, back)) /\ tank' = tank
    BY DEF TankFrame
  <2>2. /\ motion(ports, front, back) \in Int
        /\ \/ motion(ports, front, back) = 0
           \/ motion(ports, front, back) = 1
           \/ motion(ports, front, back) = -1
    BY DEF motion
  <2>3. /\ motion(ports, front, back) = 1 => ~front_col
        /\ motion(ports, front, back) = -1 => ~back_col
    BY DEF motion
  <2>4. /\ rotation(ports, front, back) \in {0, 1, 127}
        /\ rotation(ports, front, back) # 0 => ~front_col /\ ~back_col
    <3>1. \A p, f, b : rotation(p, f, b) \in {0, 1, 127} /\ (f \/ b => rotation(p, f, b) = 0)
      BY Zenon DEF rotation
    <3> QED BY <3>1, ZenonT(40)
  <2> QED BY <2>1, <2>2, <2>3, <2>4
<1>2. TankTypeOK' /\ TankTypeOK
  BY TankTypeStep DEF HullInv, TankNext
<1>3. Start' = Start /\ Column' = Column
  BY <1>1 DEF Start, Column
<1>4. InLane'
  BY <1>1, <1>3 DEF InLane
<1>5. PICK n \in Int, e \in Int, c \in -16 .. 16, s \in -16 .. 16, d \in -16 .. 16, t \in -16 .. 16 :
        /\ n = FromLeft /\ e = FromLeft'
        /\ c = cos(tank_angle) /\ s = sin(tank_angle)
        /\ d = cos(tank_angle') /\ t = sin(tank_angle')
        /\ Pose(c, s) /\ Pose(d, t)
  <2>1. Pose(cos(tank_angle), sin(tank_angle)) /\ Pose(cos(tank_angle'), sin(tank_angle'))
    BY <1>2, EveryPose DEF TankTypeOK
  <2>2. FromLeft \in Int /\ FromLeft' \in Int
    BY <1>2, <1>3, StartCell, PositionsAreNumbers DEF FromLeft, center_x, TankTypeOK
  <2> QED BY <2>1, <2>2, ZenonT(30) DEF Pose
<1>6. Within(n, c, s) /\ Unwedged(n, c, s)
  BY <1>5 DEF HullInv
<1>7. /\ front_col <=> FrontAt(n, c, s)
      /\ back_col <=> BackAt(n, c, s)
  BY <1>5, EndsTouch
<1>8. Drives(n, c, m, e)
  <2>1. n \in 7 .. 59
    BY <1>5, CentreIs
  <2>2. PICK f \in 0 .. 15 : x = 1024 * Column + 16 * n + f /\ x \in Int
    BY <1>2, <1>5, StartCell, PositionsAreNumbers DEF TankTypeOK, FromLeft, center_x
  <2>3. 2 * m * c \in -32 .. 32
    BY <1>1
  <2>4. PICK v \in Int : v = 16 * n + f /\ v + 2 * m * c \in 0 .. 1023
    BY <2>1, <2>2, <2>3
  <2>5. x' = 1024 * Column + (v + 2 * m * c)
    <3>1. x' = (x + 2 * m * c) % 16384
      BY <1>1, <1>5
    <3>2. PICK g \in 0 .. 1023 : g = v + 2 * m * c
      BY <2>4
    <3>3. x + 2 * m * c = 1024 * Column + g
      BY <2>2, <2>3, <2>4, <3>2, StartCell
    <3>4. (1024 * Column + g) % 16384 = 1024 * Column + g
      BY StartCell
    <3> QED BY <3>1, <3>2, <3>3, <3>4
  <2>6. e = (x' \div 16) - 64 * Column
    BY <1>3, <1>5 DEF FromLeft, center_x
  <2>7. 16 * e <= v + 2 * m * c /\ v + 2 * m * c <= 16 * e + 15
    BY <2>4, <2>5, <2>6, StartCell
  <2> QED BY <2>2, <2>4, <2>7 DEF Drives
<1>9. Within(e, d, t) /\ Unwedged(e, d, t)
  <2>1. CASE r = 0
    <3>1. tank_angle' = tank_angle
      BY <1>1, <1>2, <2>1 DEF NextAngle, TankTypeOK
    <3>2. d = c /\ t = s
      BY <1>5, <3>1
    <3>3. (m = 1 => ~FrontAt(n, c, s)) /\ (m = -1 => ~BackAt(n, c, s))
      BY <1>1, <1>7
    <3> QED BY <1>1, <1>5, <1>6, <1>8, <3>2, <3>3, StraightStep
  <2>2. CASE r # 0
    <3>1. ~FrontAt(n, c, s) /\ ~BackAt(n, c, s)
      BY <1>1, <1>7, <2>2, SMTT(30)
    <3>2. Turns(c, s, d, t)
      <4>1. tank_angle' \in {tank_angle, tank_angle + 1, tank_angle - 1} \/ {tank_angle, tank_angle'} = {0, 89}
        BY <1>1, <1>2, <2>2 DEF NextAngle, TankTypeOK
      <4> QED BY <1>2, <1>5, <4>1, EveryTurn, ZenonT(30) DEF TankTypeOK
    <3>3. Within(e, d, t)
      BY <1>1, <1>5, <1>8, <3>1, <3>2, FreeStep
    <3> QED BY <1>1, <1>5, <1>8, <3>1, <3>2, <3>3, FreeStepUnwedged
  <2> QED BY <2>1, <2>2
<1> QED BY <1>2, <1>4, <1>5, <1>9 DEF HullInv

LEMMA HullInvStep ==
  ASSUME Lane <= Yard, Corridor
  PROVE  HullInv /\ [TankNext]_tankVars => HullInv'
<1> SUFFICES ASSUME HullInv, [TankNext]_tankVars PROVE HullInv'
  OBVIOUS
<1>1. CASE TankFrame
  BY <1>1, HullInvFrame
<1>2. CASE TankReset
  <2>1. AtStart'
    BY <1>2 DEF TankReset, AtStart, Start, HullInv, TankTypeOK
  <2>2. AtStart' => HullInv'
    BY AtStartHullInv, PTL
  <2> QED BY <2>1, <2>2
<1>3. CASE UNCHANGED tankVars
  BY <1>3 DEF tankVars, HullInv, TankTypeOK, InLane, FromLeft, Column, Start, center_x
<1> QED BY <1>1, <1>2, <1>3 DEF TankNext

LEMMA HullInvHolds ==
  ASSUME Lane <= Yard, Corridor
  PROVE  TankSpec => []HullInv
<1>1. TankInit => HullInv
  BY AtStartHullInv DEF TankInit, AtStart
<1>2. HullInv /\ [TankNext]_tankVars => HullInv'
  BY HullInvStep
<1> QED BY <1>1, <1>2, PTL DEF TankSpec

\* What the invariant says of the pixels themselves.
LEMMA InsideFollows == ASSUME HullInv, Lane <= Yard, Corridor PROVE HullStaysInside
<1>1. FromLeft \in 7 .. 59 /\ Column \in Int /\ center_x \in Int
  BY CentreIs, StartCell, SMTT(30)
<1>2. center_x \in 64 * Column .. 64 * Column + 63
  BY <1>1 DEF FromLeft
<1>3. ASSUME NEW p \in Hull PROVE (Turned(p)[1] - 64 * Column + 2) % 1024 <= 67
  <2>1. Column = 0 \/ Column = 6 \/ Column = 9
    BY StartCell
  <2>2. PICK v \in Int : v = 16 * FromLeft + Across(p) /\ -32 <= v /\ v <= 1055
    BY PointIs
  <2>3. Lands(Column, v, Pixel(Column, v))
    BY <2>1, <2>2, PixelIs
  <2>4. Turned(p)[1] = Pixel(Column, v)
    BY <2>2, PointIs
  <2> QED BY <2>3, <2>4 DEF Lands
<1> QED BY <1>2, <1>3 DEF HullStaysInside, Hull, Column

\* Between two side walls no report of the ports brings a point of the hull
\* through the two pixels of a wall, in whatever order a tank drives and turns
\* (tank_one.sv 258-291, check_for_col.sv): a tank looks before it moves, and a
\* step is shorter than the walls are thick.
THEOREM HullStaysInsideHolds ==
  ASSUME Lane <= Yard, Corridor
  PROVE  TankSpec => []HullStaysInside
<1>1. HullInv => HullStaysInside
  BY InsideFollows
<1> QED BY <1>1, HullInvHolds, PTL

\* Both ends touch, and a tank can neither drive nor turn (tank_one.sv 276-291),
\* only when it stands alongside the walls: across the corridor it is longer than
\* what it can go while it turns, so the end that follows stays clear.
THEOREM WedgedOnlyAlongsideHolds ==
  ASSUME Lane <= Yard, Corridor
  PROVE  TankSpec => []WedgedOnlyAlongside
<1>1. HullInv => WedgedOnlyAlongside
  BY EndsTouch DEF HullInv, Unwedged, WedgedOnlyAlongside
<1> QED BY <1>1, HullInvHolds, PTL

\* The point ten pixels ahead of a tank's centre never gets into a wall at all,
\* which is what the shots of ShotsComeBack need across such a corridor.
LEMMA NoseLength ==
  \A a \in 0 .. 89 : LET c == Size(cos(a))  s == Size(sin(a))
                     IN c + s >= 16 \/ c <= 1 \/ (c = 15 /\ s = 1)
<1>1. \A i \in 1 .. 90 : LET c == Size(Cosines[i])  s == Size(Sines[i])
                         IN c + s >= 16 \/ c <= 1 \/ (c = 15 /\ s = 1)
  BY SMTT(30) DEF Size, Cosines, Sines
<1>2. \A a \in 0 .. 89 : a + 1 \in 1 .. 90
  OBVIOUS
<1> QED BY <1>1, <1>2 DEF cos, sin

LEMMA NoseFollows ==
  ASSUME HullInv, Lane <= Yard, Corridor
  PROVE  Keeps(center_x, 10 * cos(tank_angle))
<1>1. PICK c \in -16 .. 16, s \in -16 .. 16 : /\ c = cos(tank_angle) /\ s = sin(tank_angle)
                                              /\ Pose(c, s) /\ Within(FromLeft, c, s)
                                              /\ \/ Size(c) + Size(s) >= 16 \/ Size(c) <= 1
                                                 \/ Size(c) = 15 /\ Size(s) = 1
  BY EveryPose, NoseLength DEF HullInv, TankTypeOK, Pose
<1>2. PICK n \in 7 .. 59 : n = FromLeft
  BY CentreIs
<1>3. 0 <= 16 * n + 10 * c /\ 16 * n + 10 * c <= 1023
  <2>1. /\ -32 <= 16 * n + 12 * c - 2 * Size(s) /\ 16 * n + 12 * c + 2 * Size(s) <= 1055
        /\ -32 <= 16 * n + 7 * c - 7 * Size(s) /\ 16 * n + 7 * c + 7 * Size(s) <= 1055
    <3>1. \A u \in Fronts(c, s) : -32 <= 16 * n + u /\ 16 * n + u <= 1055
      BY <1>1, <1>2 DEF Within, Fronts
    <3>2. 12 * c - 2 * s \in Fronts(c, s) /\ 12 * c + 2 * s \in Fronts(c, s)
      BY DEF Fronts
    <3>3. 7 * c - 7 * s \in Fronts(c, s) /\ 7 * c + 7 * s \in Fronts(c, s)
      BY DEF Fronts
    <3>4. /\ -32 <= 16 * n + (12 * c - 2 * s) /\ 16 * n + (12 * c + 2 * s) <= 1055
          /\ -32 <= 16 * n + (12 * c + 2 * s) /\ 16 * n + (12 * c - 2 * s) <= 1055
      BY <3>1, <3>2
    <3>5. /\ -32 <= 16 * n + (7 * c - 7 * s) /\ 16 * n + (7 * c + 7 * s) <= 1055
          /\ -32 <= 16 * n + (7 * c + 7 * s) /\ 16 * n + (7 * c - 7 * s) <= 1055
      BY <3>1, <3>3
    <3> QED BY <3>4, <3>5 DEF Size
  <2>2. PICK m \in 0 .. 16, k \in 0 .. 16 : /\ m = Size(c) /\ k = Size(s) /\ (c = m \/ c = 0 - m)
                                            /\ m + k >= 16 \/ m <= 1 \/ (m = 15 /\ k = 1)
    <3>1. Size(c) \in 0 .. 16 /\ Size(s) \in 0 .. 16 /\ (c = Size(c) \/ c = 0 - Size(c))
      BY DEF Size
    <3> QED BY <1>1, <3>1
  <2>3. /\ -32 <= 16 * n + 12 * c - 2 * k /\ 16 * n + 12 * c + 2 * k <= 1055
        /\ -32 <= 16 * n + 7 * c - 7 * k /\ 16 * n + 7 * c + 7 * k <= 1055
    BY <2>1, <2>2
  <2>4. CASE c = m
    BY <1>2, <2>2, <2>3, <2>4
  <2>5. CASE c = 0 - m
    BY <1>2, <2>2, <2>3, <2>5
  <2>6. c = m \/ c = 0 - m
    BY <2>2
  <2> QED BY <2>4, <2>5, <2>6, Zenon
<1>4. center_x = 64 * Column + n /\ (Column = 0 \/ Column = 9)
  <2>1. Column \in Int /\ (Column = 0 \/ Column = 9)
    BY StartCell
  <2>2. center_x \in Int
    BY CentreIs
  <2> QED BY <1>2, <2>1, <2>2 DEF FromLeft
<1>5. PICK g \in 0 .. 1023 : g = 16 * n + 10 * c
  BY <1>3
<1>6. 16 * center_x + 10 * c = 1024 * Column + g
  BY <1>4, <1>5
<1>7. (1024 * Column + g) % 16384 = 1024 * Column + g
  BY <1>4
<1>8. ((1024 * Column + g) \div 16) \div 64 = Column /\ center_x \div 64 = Column
  <2>1. (1024 * 0 + g) \div 16 \in 0 .. 63 /\ (1024 * 9 + g) \div 16 \in 576 .. 639
    BY <1>5
  <2>2. \A p \in 0 .. 63 : p \div 64 = 0
    OBVIOUS
  <2>3. \A p \in 576 .. 639 : p \div 64 = 9
    OBVIOUS
  <2>4. CASE Column = 0
    BY <1>4, <2>1, <2>2, <2>4
  <2>5. CASE Column = 9
    BY <1>4, <2>1, <2>3, <2>5
  <2> QED BY <1>4, <2>4, <2>5
<1> QED BY <1>1, <1>6, <1>7, <1>8 DEF Keeps

THEOREM NoseStaysInside ==
  ASSUME Lane <= Yard, Corridor
  PROVE  TankSpec => []Keeps(center_x, 10 * cos(tank_angle))
<1>1. HullInv => Keeps(center_x, 10 * cos(tank_angle))
  BY NoseFollows
<1> QED BY <1>1, HullInvHolds, PTL
-----------------------------------------------------------------------------
(* The life of a bullet.  The inductive invariant IInv says, per bullet,   *)
(* in which of four situations its two clock domains can be: at home and   *)
(* ready, in flight and counted, in flight with its lifetime over (then no *)
(* frame has come yet), or held at home until the timer notices.           *)

Ready(b)   == ~tempshot[b] /\ ~timer_done[b] /\ counter[b] = 0
Counted(b) == tempshot[b] /\ ~timer_done[b] /\ age[b] <= Limit /\ counter[b] = age[b]
Due(b)     == tempshot[b] /\ timer_done[b] /\ age[b] = Limit + 1 /\ counter[b] = Limit /\ ~framed
Held(b)    == ~tempshot[b] /\ timer_done[b] /\ counter[b] = Limit

IInv == /\ TypeOK
        /\ ResetParks
        /\ TimedWhileFlying
        /\ \A b \in Bullets : Ready(b) \/ Counted(b) \/ Due(b) \/ Held(b)

USE LimitAssumption

LEMMA InitIInv == Init => IInv
<1> SUFFICES ASSUME Init PROVE IInv
  OBVIOUS
<1> USE DEF Init, BulletInit, FlightInit, None, Zero, MaxAge
<1>1. TypeOK
  <2>1. age \in [Bullets -> 0 .. MaxAge] /\ counter \in [Bullets -> 0 .. Limit]
    OBVIOUS
  <2>2. FlightTypeOK
    BY Zenon DEF FlightTypeOK
  <2>3. BulletTypeOK
    BY <2>1, Zenon DEF BulletTypeOK
  <2> QED BY <2>1, <2>2, <2>3 DEF TypeOK
<1>2. ResetParks /\ TimedWhileFlying
  BY DEF ResetParks, TimedWhileFlying
<1>3. \A b \in Bullets : Ready(b)
  BY DEF Ready
<1> QED BY <1>1, <1>2, <1>3 DEF IInv

(* Everything is as after power-up once the reset level has been seen.      *)
LEMMA ParkedIInv ==
  ASSUME IInv, BulletParked,
         age' \in [Bullets -> 0 .. MaxAge], framed' \in BOOLEAN, reset' \in BOOLEAN,
         FlightTypeOK'
  PROVE  IInv'
<1> USE DEF BulletParked, None, Zero
<1>1. TypeOK'
  BY DEF IInv, TypeOK, BulletTypeOK
<1>2. ResetParks' /\ TimedWhileFlying'
  BY DEF ResetParks, TimedWhileFlying
<1>3. \A b \in Bullets : Ready(b)'
  BY DEF Ready
<1> QED BY <1>1, <1>2, <1>3 DEF IInv

LEMMA FrameIInv == ASSUME IInv, Frame PROVE IInv'
<1> PICK trigger \in [Bullets -> BOOLEAN], xhit \in [Bullets -> BOOLEAN], yhit \in [Bullets -> BOOLEAN] :
      IF reset THEN BulletParked /\ FlightCleared
               ELSE BulletFrame(trigger) /\ FlightFrame(trigger, xhit, yhit)
  BY DEF Frame
<1>0. /\ framed' = TRUE /\ reset' = reset
      /\ age' = [b \in Bullets |-> IF tempshot[b] /\ tempshot'[b] THEN age[b] ELSE 0]
  BY DEF Frame
<1>1. age' \in [Bullets -> 0 .. MaxAge]
  BY <1>0 DEF IInv, TypeOK, MaxAge
<1>2. CASE reset
  <2>1. FlightTypeOK'
    BY <1>2 DEF FlightCleared, FlightTypeOK, None
  <2> QED BY <1>0, <1>1, <1>2, <2>1, ParkedIInv DEF IInv, TypeOK
<1>3. CASE ~reset
  <2>0. BulletFrame(trigger) /\ FlightFrame(trigger, xhit, yhit)
    BY <1>3
  <2>1. FlightTypeOK'
    BY <2>0 DEF FlightFrame, FlightTypeOK, Reflects, Leaves, Flies, Recalled, IInv, TypeOK, BulletTypeOK
  <2>2. BulletTypeOK'
    BY <2>0 DEF BulletFrame, BulletTypeOK, Launches, Flies, Recalled, TimerRuns, IInv, TypeOK
  <2>3. TypeOK'
    BY <1>0, <1>1, <2>1, <2>2 DEF IInv, TypeOK
  <2>4. ResetParks'
    BY <1>0, <1>3 DEF ResetParks
  <2>5. TimedWhileFlying'
    BY <2>0 DEF BulletFrame, Launches, Flies, TimerRuns, Recalled, TimedWhileFlying, IInv, TypeOK, BulletTypeOK
  <2>6. ASSUME NEW b \in Bullets
        PROVE  (Ready(b) \/ Counted(b) \/ Due(b) \/ Held(b))'
    <3>1. /\ tempshot'[b] = (~timer_done[b] /\ (trigger[b] \/ tempshot[b]))
          /\ timer_done'[b] = timer_done[b] /\ counter'[b] = counter[b]
      BY <2>0 DEF BulletFrame, Launches, Flies, Recalled, IInv, TypeOK, BulletTypeOK
    <3>2. age'[b] = IF tempshot[b] /\ tempshot'[b] THEN age[b] ELSE 0
      BY <1>0
    <3>3. CASE Ready(b)
      BY <3>1, <3>2, <3>3 DEF Ready, Counted
    <3>4. CASE Counted(b)
      BY <3>1, <3>2, <3>4 DEF Counted
    <3>5. CASE Due(b)
      BY <3>1, <3>5 DEF Due, Held
    <3>6. CASE Held(b)
      BY <3>1, <3>6 DEF Held
    <3> QED BY <3>3, <3>4, <3>5, <3>6 DEF IInv
  <2> QED BY <2>3, <2>4, <2>5, <2>6 DEF IInv
<1> QED BY <1>2, <1>3

LEMMA TimerIInv == ASSUME IInv, Timer PROVE IInv'
<1>0. /\ framed /\ framed' = FALSE /\ reset' = reset /\ FlightTypeOK'
      /\ age' = [b \in Bullets |->
                   IF tempshot[b] /\ age[b] < MaxAge THEN age[b] + 1 ELSE age[b]]
  BY DEF Timer, flightVars, FlightTypeOK, IInv, TypeOK
<1>1. age' \in [Bullets -> 0 .. MaxAge]
  BY <1>0 DEF IInv, TypeOK, MaxAge
<1>2. CASE reset
  BY <1>0, <1>1, <1>2, ParkedIInv DEF Timer, IInv, TypeOK
<1>3. CASE ~reset
  <2>0. BulletTimer
    BY <1>3 DEF Timer
  <2>1. BulletTypeOK'
    BY <2>0 DEF BulletTimer, Count, Expires, BulletTypeOK, IInv, TypeOK
  <2>2. TypeOK' /\ ResetParks' /\ TimedWhileFlying'
    BY <1>0, <1>1, <1>3, <2>0, <2>1
       DEF IInv, TypeOK, ResetParks, TimedWhileFlying, BulletTimer
  <2>3. ASSUME NEW b \in Bullets
        PROVE  (Ready(b) \/ Counted(b) \/ Due(b) \/ Held(b))'
    <3>1. /\ tempshot'[b] = tempshot[b] /\ timer_ip[b] = tempshot[b]
          /\ counter'[b] = Count(b) /\ timer_done'[b] = Expires(b)
      BY <2>0 DEF BulletTimer, IInv, TimedWhileFlying
    <3>2. CASE ~tempshot[b]
      BY <3>1, <3>2 DEF Count, Expires, Ready
    <3>3. CASE Counted(b)
      <4>1. age[b] \in 0 .. Limit /\ age'[b] = age[b] + 1
        BY <1>0, <3>3 DEF Counted, MaxAge, IInv, TypeOK
      <4>2. CASE age[b] = Limit
        BY <1>0, <3>1, <3>3, <4>1, <4>2 DEF Counted, Count, Expires, Due
      <4>3. CASE age[b] # Limit
        <5>1. counter[b] = age[b] /\ timer_ip[b] /\ counter'[b] = age'[b]
          BY <3>1, <3>3, <4>1, <4>3 DEF Counted, Count
        <5>2. ~timer_done'[b]
          BY <3>1, <4>3, <5>1 DEF Expires
        <5>3. age'[b] <= Limit /\ tempshot'[b]
          BY <3>1, <3>3, <4>1, <4>3 DEF Counted
        <5> QED BY <5>1, <5>2, <5>3 DEF Counted
      <4> QED BY <4>2, <4>3
    <3> QED BY <1>0, <3>2, <3>3 DEF IInv, Ready, Due, Held
  <2> QED BY <2>2, <2>3 DEF IInv
<1> QED BY <1>2, <1>3

LEMMA NextIInv == IInv /\ [Next]_vars => IInv'
<1> SUFFICES ASSUME IInv, [Next]_vars PROVE IInv'
  OBVIOUS
<1>1. CASE Frame
  BY <1>1, FrameIInv
<1>2. CASE Timer
  BY <1>2, TimerIInv
<1>3. CASE ResetRises
  <2>1. FlightTypeOK'
    BY <1>3 DEF ResetRises, FlightCleared, FlightTypeOK, None
  <2> QED BY <1>3, <2>1, ParkedIInv DEF ResetRises, IInv, TypeOK, Zero, MaxAge
<1>4. CASE ResetFalls
  BY <1>4 DEF ResetFalls, bulletVars, flightVars, IInv, TypeOK, BulletTypeOK, FlightTypeOK,
     ResetParks, TimedWhileFlying, Ready, Counted, Due, Held
<1>5. CASE UNCHANGED vars
  BY <1>5 DEF vars, bulletVars, flightVars, IInv, TypeOK, BulletTypeOK, FlightTypeOK,
     ResetParks, TimedWhileFlying, Ready, Counted, Due, Held
<1> QED BY <1>1, <1>2, <1>3, <1>4, <1>5 DEF Next

LEMMA IInvHolds == Spec => []IInv
BY InitIInv, NextIInv, PTL DEF Spec

(* Types, and the two agreements between the clock domains.                *)
THEOREM BulletLifeTypeCorrect == Spec => []TypeOK
BY IInvHolds, PTL DEF IInv

THEOREM ResetParksHolds == Spec => []ResetParks
BY IInvHolds, PTL DEF IInv

THEOREM TimedWhileFlyingHolds == Spec => []TimedWhileFlying
BY IInvHolds, PTL DEF IInv

(* No flight inherits a count, only a full count recalls a bullet.         *)
THEOREM CountsThisFlightHolds == Spec => []CountsThisFlight
<1>1. IInv => CountsThisFlight
  <2> SUFFICES ASSUME IInv, NEW b \in Bullets
               PROVE  /\ tempshot[b] => counter[b] = (IF age[b] < Limit THEN age[b] ELSE Limit)
                      /\ ~tempshot[b] /\ ~timer_done[b] => counter[b] = 0
                      /\ timer_done[b] => counter[b] = Limit
    BY DEF CountsThisFlight
  <2>1. age[b] \in Nat
    BY DEF IInv, TypeOK, MaxAge
  <2>2. Ready(b) \/ Counted(b) \/ Due(b) \/ Held(b)
    BY DEF IInv
  <2> QED BY <2>1, <2>2 DEF Ready, Counted, Due, Held
<1> QED BY <1>1, IInvHolds, PTL

(* Outside a reset, a bullet comes home at the frame after its             *)
(* (Limit + 1)st timer edge.                                               *)
THEOREM LifetimeExactHolds == Spec => LifetimeExact
<1> DEFINE Exact == \A b \in Bullets : tempshot[b] /\ ~tempshot'[b] /\ ~reset' => age[b] = Limit + 1
<1>1. IInv /\ [Next]_vars => [Exact]_vars
  <2> SUFFICES ASSUME IInv, [Next]_vars, NEW b \in Bullets,
                      tempshot[b], ~tempshot'[b], ~reset'
               PROVE  age[b] = Limit + 1
    OBVIOUS
  <2>1. CASE Frame
    <3>1. ~reset /\ \E trigger \in [Bullets -> BOOLEAN] : BulletFrame(trigger)
      BY <2>1 DEF Frame
    <3>2. timer_done[b]
      BY <3>1 DEF BulletFrame, Launches, Flies, Recalled
    <3> QED BY <3>2 DEF IInv, Ready, Counted, Due, Held
  <2>2. CASE Timer
    <3>1. ~reset /\ BulletTimer
      BY <2>2 DEF Timer
    <3> QED BY <3>1 DEF BulletTimer
  <2>3. CASE ResetRises
    BY <2>3 DEF ResetRises
  <2>4. CASE ResetFalls
    BY <2>4 DEF ResetFalls, bulletVars
  <2>5. CASE UNCHANGED vars
    BY <2>5 DEF vars, bulletVars
  <2> QED BY <2>1, <2>2, <2>3, <2>4, <2>5 DEF Next
<1> QED BY <1>1, IInvHolds, PTL DEF Spec, LifetimeExact

(* A bullet that stood still was mirrored in that frame, and flag will take *)
(* it off the wall: it does not stand still again.                         *)
THEOREM NeverStuckHolds == Spec => NeverStuck
<1> DEFINE Leaving == \A b \in Bullets : still[b] => flag[b]
           Moved == \A b \in Bullets : still[b] => ~still'[b]
<1>1. Init => Leaving
  BY DEF Init, FlightInit, None
<1>2. Leaving /\ [Next]_vars => Leaving' /\ [Moved]_flightVars
  <2> SUFFICES ASSUME Leaving, [Next]_vars PROVE Leaving' /\ (Moved \/ UNCHANGED flightVars)
    OBVIOUS
  <2>1. CASE FlightCleared
    BY <2>1 DEF FlightCleared, None
  <2>2. ASSUME NEW trigger, NEW xhit, NEW yhit, FlightFrame(trigger, xhit, yhit)
        PROVE  Leaving' /\ Moved
    BY <2>2 DEF FlightFrame, Leaves, Reflects
  <2>3. CASE UNCHANGED flightVars
    BY <2>3 DEF flightVars
  <2> QED BY <2>1, <2>2, <2>3 DEF Next, Frame, Timer, ResetRises, ResetFalls, vars
<1> QED BY <1>1, <1>2, PTL DEF Spec, NeverStuck
=============================================================================
