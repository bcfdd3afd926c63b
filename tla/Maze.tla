-------------------------------- MODULE Maze --------------------------------
(***************************************************************************)
(* The maze: generateMaze and setWall of main.c write it, byte by byte,    *)
(* through three PIO registers into the transparent latches of maze.sv,    *)
(* while the arena logic keeps reading it.                                 *)
(*                                                                         *)
(* A tile is 64 pixels square; a byte holds the walls of two neighbouring  *)
(* tiles (half 0 is the left one); a wall between two tiles is stored in   *)
(* both.  rand() & 1 is any bit: the program uses four fixed seeds.        *)
(***************************************************************************)
EXTENDS Naturals, FiniteSets

CONSTANTS Cols,     \* bytes in a row: 5, so ten tiles
          Rows      \* rows of tiles: 7

ASSUME ColsAssumption == Cols \in Nat \ {0}
ASSUME RowsAssumption == Rows \in Nat \ {0}

VARIABLES
  WALLS_VRAM,       \* the latches: address -> half -> sides that have a wall
  WALLS_ADDR, WALLS_DATA, WALLS_WE,   \* the PIO registers
  y, x,             \* the loop counters of generateMaze
  right, bottom,    \* its arrays, per tile
  pc,               \* what the software does next
  screen_reset,     \* the input register SCREEN_RESET shows
  drawn             \* observed only: generateMaze has returned once

memoryVars == <<WALLS_VRAM, WALLS_ADDR, WALLS_DATA, WALLS_WE>>
loopVars == <<y, x, right, bottom>>
mazeVars == <<memoryVars, loopVars, pc, screen_reset, drawn>>

Sides == {"top", "left", "bottom", "right"}
Halves == {0, 1}
Addresses == 0 .. Rows * Cols - 1
TileCols == 0 .. 2 * Cols - 1
TileRows == 0 .. Rows - 1
Bytes == [Halves -> SUBSET Sides]
\* What an element of right[] or bottom[] holds before its first assignment.
Unassigned == 2

\* maze.sv lines 82-83: the walls of the tile in column c and row r.
WallsAt(c, r) == WALLS_VRAM[r * Cols + c \div 2][c % 2]

\* The latches are transparent while WE is high: they follow the registers.
Pio(addr, data, we) ==
  /\ WALLS_ADDR' = addr /\ WALLS_DATA' = data /\ WALLS_WE' = we
  /\ WALLS_VRAM' = IF we THEN [WALLS_VRAM EXCEPT ![addr] = data] ELSE WALLS_VRAM
-----------------------------------------------------------------------------
\* Lines 181-187 and 194-200: two walls in one byte are never both drawn.
Coins == {<<1, 0>>, <<0, 0>>, <<0, 1>>}

\* right[] and bottom[] after the draws for byte (y, x).
DrawRight(coins) ==
  IF x = Cols - 1 THEN [right EXCEPT ![<<y, 2 * x>>] = 0]
                  ELSE [right EXCEPT ![<<y, 2 * x>>] = coins[1], ![<<y, 2 * x + 1>>] = coins[2]]
DrawBottom(coins) ==
  IF y = Rows - 1 THEN bottom
                  ELSE [bottom EXCEPT ![<<y, 2 * x>>] = coins[1], ![<<y, 2 * x + 1>>] = coins[2]]

\* Fault: the left wall of a tile is taken from the row of tiles itself.
FaultHasWall(side, h, r, b) ==
  CASE side = "right" -> IF h = 1 /\ x = Cols - 1 THEN 1 ELSE r[<<y, 2 * x + h>>]
    [] side = "bottom" -> IF y = Rows - 1 THEN 1 ELSE b[<<y, 2 * x + h>>]
    [] side = "left" -> IF h = 0 /\ x = 0 THEN 1 ELSE r[<<y, 2 * x>>]
    [] side = "top" -> IF y = 0 THEN 1 ELSE b[<<y - 1, 2 * x + h>>]
\* Fault: the bottom border is taken from the array like any other wall.
FaultNoBorder(side, h, r, b) ==
  CASE side = "right" -> IF h = 1 /\ x = Cols - 1 THEN 1 ELSE r[<<y, 2 * x + h>>]
    [] side = "bottom" -> b[<<y, 2 * x + h>>]
    [] side = "left" -> IF h = 0 /\ x = 0 THEN 1 ELSE r[<<y, 2 * x + h - 1>>]
    [] side = "top" -> IF y = 0 THEN 1 ELSE b[<<y - 1, 2 * x + h>>]
\* wall_val of lines 175-212: the border, or the wall drawn for this side, which
\* the left and top sides take from the neighbour's right and bottom.
HasWall(side, h, r, b) ==
  CASE side = "right" -> IF h = 1 /\ x = Cols - 1 THEN 1 ELSE r[<<y, 2 * x + h>>]
    [] side = "bottom" -> IF y = Rows - 1 THEN 1 ELSE b[<<y, 2 * x + h>>]
    [] side = "left" -> IF h = 0 /\ x = 0 THEN 1 ELSE r[<<y, 2 * x + h - 1>>]
    [] side = "top" -> IF y = 0 THEN 1 ELSE b[<<y - 1, 2 * x + h>>]

wall_val(r, b) == [h \in Halves |-> {side \in Sides : HasWall(side, h, r, b) = 1}]

Undrawn == [t \in TileRows \X TileCols |-> Unassigned]

\* A byte's walls are drawn and setWall begins: the address register.
SetAddr == /\ pc = "addr"
           /\ \E rightCoins, bottomCoins \in Coins :
                 /\ right' = DrawRight(rightCoins)
                 /\ bottom' = DrawBottom(bottomCoins)
           /\ Pio(y * Cols + x, WALLS_DATA, WALLS_WE)
           /\ pc' = "data"
           /\ UNCHANGED <<y, x, screen_reset, drawn>>

SetData == /\ pc = "data"
           /\ Pio(WALLS_ADDR, wall_val(right, bottom), WALLS_WE)
           /\ pc' = "high"
           /\ UNCHANGED <<loopVars, screen_reset, drawn>>

SetHigh == /\ pc = "high"
           /\ Pio(WALLS_ADDR, WALLS_DATA, TRUE)
           /\ pc' = "low"
           /\ UNCHANGED <<loopVars, screen_reset, drawn>>

\* Fault: the write enable is left high.
FaultWeAfter == TRUE
WeAfter == FALSE

\* Both loops are at their ends.
Last == x = Cols - 1 /\ y = Rows - 1

\* The loops step on, or generateMaze returns to main's loop.
Step == /\ pc' = IF Last THEN "poll" ELSE "addr"
        /\ x' = IF x = Cols - 1 THEN 0 ELSE x + 1
        /\ y' = IF Last THEN 0 ELSE IF x = Cols - 1 THEN y + 1 ELSE y

\* Write enable falls: setWall is done.
SetLow == /\ pc = "low"
          /\ Pio(WALLS_ADDR, WALLS_DATA, WeAfter)
          /\ Step
          /\ drawn' = (drawn \/ Last)
          /\ UNCHANGED <<right, bottom, screen_reset>>

\* main's loop: a new maze is drawn whenever the poll finds the reset high.
Poll == /\ pc = "poll"
        /\ pc' = IF screen_reset THEN "addr" ELSE "poll"
        /\ IF screen_reset THEN right' = Undrawn /\ bottom' = Undrawn
                           ELSE UNCHANGED <<right, bottom>>
        /\ UNCHANGED <<memoryVars, y, x, screen_reset, drawn>>

\* The game raises and lowers its reset without regard to the software.
GameReset == /\ screen_reset' = ~screen_reset
             /\ UNCHANGED <<memoryVars, loopVars, pc, drawn>>

\* Power-up: the latches hold anything, the registers zero; main draws a maze
\* before its loop.
MazeInit == /\ \E junk \in Bytes : WALLS_VRAM = [a \in Addresses |-> junk]
            /\ WALLS_ADDR = 0 /\ WALLS_DATA = [h \in Halves |-> {}] /\ WALLS_WE = FALSE
            /\ y = 0 /\ x = 0 /\ right = Undrawn /\ bottom = Undrawn
            /\ pc = "addr"
            /\ screen_reset = TRUE
            /\ drawn = FALSE

Software == SetAddr \/ SetData \/ SetHigh \/ SetLow \/ Poll

MazeNext == Software \/ GameReset

MazeSpec == MazeInit /\ [][MazeNext]_mazeVars
-----------------------------------------------------------------------------
\* Types; the address that setWall writes is one of the memory's.
MazeTypeOK == /\ WALLS_VRAM \in [Addresses -> Bytes]
              /\ WALLS_ADDR \in Addresses /\ WALLS_DATA \in Bytes /\ WALLS_WE \in BOOLEAN
              /\ x \in 0 .. Cols - 1 /\ y \in TileRows
              /\ {right, bottom} \subseteq [TileRows \X TileCols -> {0, 1, Unassigned}]
              /\ pc \in {"addr", "data", "high", "low", "poll"}
              /\ screen_reset \in BOOLEAN /\ drawn \in BOOLEAN

\* Once drawn, the arena's border is closed for ever, also while a new maze is
\* being written over the old one: nothing can leave the arena through it.
BorderClosed ==
  drawn => /\ \A c \in TileCols : /\ "top" \in WallsAt(c, 0)
                                  /\ "bottom" \in WallsAt(c, Rows - 1)
           /\ \A r \in TileRows : /\ "left" \in WallsAt(0, r)
                                  /\ "right" \in WallsAt(2 * Cols - 1, r)

\* A byte of this pass has been written (the pass is over when polling).
Fresh(a) == \/ pc = "poll"
            \/ a < y * Cols + x
            \/ a = y * Cols + x /\ pc = "low"

\* The two copies of a wall agree between any two tiles that the same pass has
\* written: a half-drawn maze is inconsistent only along its front.
SharedWallsAgree ==
  \A c \in TileCols, r \in TileRows :
     LET here == r * Cols + c \div 2
         agree(side, c2, r2, other) ==
           (drawn /\ pc = "poll") \/ (Fresh(here) /\ Fresh(r2 * Cols + c2 \div 2))
              => (side \in WallsAt(c, r)) = (other \in WallsAt(c2, r2))
     IN /\ c + 1 \in TileCols => agree("right", c + 1, r, "left")
        /\ r + 1 \in TileRows => agree("bottom", c, r + 1, "top")

\* The walls the arena logic reads change one byte at a time, each straight to
\* its final value: no read in between sees a wrong address or half a byte.
OneByteAtATime ==
  [][WALLS_VRAM' # WALLS_VRAM =>
       /\ pc = "high"
       /\ WALLS_VRAM' = [WALLS_VRAM EXCEPT ![y * Cols + x] = wall_val(right, bottom)]]_WALLS_VRAM
=============================================================================
