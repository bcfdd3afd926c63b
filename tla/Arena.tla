-------------------------------- MODULE Arena --------------------------------
(***************************************************************************)
(* What everything that moves shares: the walls as the wall memory gives   *)
(* them to a point of the screen, and the sine tables of trig.sv.          *)
(***************************************************************************)
EXTENDS Integers

CONSTANT Walls        \* Walls[addr][pos]: the walls of a cell (WALLS_VRAM)

ASSUME WallsAssumption == \A r \in 0 .. 15, c \in 0 .. 7, p \in 0 .. 1 :
                            Walls[r * 5 + c][p] \subseteq {"right", "bottom", "left", "top"}

\* The walls of the cell point q lies in: five bytes a row, two cells a byte.
WallsAt(q) == Walls[(q[2] \div 64) * 5 + q[1] \div 128][(q[1] \div 64) % 2]

(* The tables, in sixteenths.  A zero with the sign bit set moves nothing.  *)

Sines == <<
     0, 1, 2, 3, 4, 5, 6, 7, 8, 9, 10, 11, 11, 12, 13, 13, 14, 14,
     15, 15, 15, 15, 15, 15, 15, 15, 15, 15, 14, 14, 13, 13, 12, 11, 11, 10,
     9, 8, 7, 6, 5, 4, 3, 2, 1, 0, -1, -2, -3, -4, -5, -6, -7, -8,
     -9, -10, -11, -11, -12, -13, -13, -14, -14, -15, -15, -15, -15, -15, -15, -15, -15, -15,
     -15, -14, -14, -13, -13, -12, -11, -11, -10, -9, -8, -7, -6, -5, -4, -3, -2, -1 >>

Cosines == <<
     16, 15, 15, 15, 15, 15, 14, 14, 13, 12, 12, 11, 10, 9, 8, 8, 7, 5,
     4, 3, 2, 1, 0, 0, -1, -2, -3, -4, -5, -7, -8, -8, -9, -10, -11, -12,
     -12, -13, -14, -14, -15, -15, -15, -15, -15, -16, -15, -15, -15, -15, -15, -14, -14, -13,
     -12, -12, -11, -10, -9, -8, -8, -7, -5, -4, -3, -2, -1, 0, 0, 1, 2, 3,
     4, 5, 7, 8, 8, 9, 10, 11, 12, 12, 13, 14, 14, 15, 15, 15, 15, 15 >>

sin(a) == Sines[a + 1]
cos(a) == Cosines[a + 1]
=============================================================================
