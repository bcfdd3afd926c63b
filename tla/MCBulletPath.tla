---------------------------- MODULE MCBulletPath ----------------------------
(***************************************************************************)
(* BulletPath for TLC: a vertical corridor in column 1, a horizontal one   *)
(* in row 3 from column 3 on, and a closed cell; shots from the middle of  *)
(* either corridor and from the cell.                                      *)
(***************************************************************************)
EXTENDS BulletPath

\* With the neighbours' halves of the walls.
WallsOf(column, row) ==
  CASE column = 1 -> {"left", "right"}
    [] column = 0 -> {"right"}
    [] column = 2 -> {"left"}
    [] column > 2 /\ row = 3 -> {"top", "bottom"}
    [] column > 2 /\ row = 2 -> {"bottom"}
    [] column > 2 /\ row = 4 -> {"top"}
    [] column = 6 /\ row = 6 -> {"left", "right", "top", "bottom"}
    [] column = 5 /\ row = 6 -> {"right"}
    [] column = 7 /\ row = 6 -> {"left"}
    [] column = 6 /\ row = 5 -> {"bottom"}
    [] column = 6 /\ row = 7 -> {"top"}
    [] OTHER -> {}

PathWalls == [addr \in 0 .. 82 |-> [pos \in 0 .. 1 |-> WallsOf(2 * (addr % 5) + pos, addr \div 5)]]

\* A tank in this pose.
TankAt(s) == INSTANCE Tank WITH Slots <- {}, Reports <- [t \in {"one", "two"} |-> {}], Lane <- 0,
                                tank <- "one", x <- 16 * s.x, y <- 16 * s.y, tank_angle <- s.angle

\* A tank can be where its hull is no deeper in a wall than HullStaysInside says.
Inside(q, s, axis, sides) ==
  WallsAt(<<s.x, s.y>>) \intersect sides # {} =>
    q - 64 * (axis \div 64) \in -2 .. 65

Fits(s) == \A p \in TankAt(s)!FrontPoints \union TankAt(s)!BackPoints :
             LET q == TankAt(s)!Turned(p)
             IN /\ Inside(q[1], s, s.x, {"left", "right"})
                /\ Inside(q[2], s, s.y, {"top", "bottom"})

Column(c, step) == {64 * c + o : o \in {o \in 9 .. 54 : o % step = 0}}

Poses ==        [x : Column(1, 1), y : {224}, angle : 0 .. 89]
         \union [x : {416}, y : Column(3, 1), angle : 0 .. 89]
         \union [x : Column(6, 9), y : Column(6, 9), angle : 0 .. 89]

PathShots == {s \in Poses : Fits(s)}

PathHome == [b \in Bullets |-> 30]

\* The maze and the poses are such as ArenaProofs needs for ShotsComeBack.
ASSUME ComeBackAssumption == NoseInside /\ WallsGoOn
=============================================================================
