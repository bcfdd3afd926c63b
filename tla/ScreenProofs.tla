---------------------------- MODULE ScreenProofs ----------------------------
(***************************************************************************)
(* Proofs about what the screen shows: ScreenControl keeps to its twenty   *)
(* states and implements Match with Goal = 3; Maze keeps the border closed *)
(* and the two copies of every wall equal, for any size of the arena; VGA  *)
(* raises the game's clock at one place of the frame, for any timing.      *)
(***************************************************************************)
EXTENDS ScreenControl, Maze, VGA, TLAPS

(* Each table leads from its states to known states. *)
LEMMA TablesClosed ==
  /\ \A s \in GameStates : OnRedWin(s) \in ResetStates \union {"redwins"}
  /\ \A s \in GameStates : OnGreenWin(s) \in ResetStates \union {"greenwins"}
  /\ \A s \in ResetStates : AfterReset(s) \in GameStates
<1>1. \A s \in GameStates : OnRedWin(s) \in ResetStates \union {"redwins"}
  BY DEF GameStates, ResetStates, OnRedWin
<1>2. \A s \in GameStates : OnGreenWin(s) \in ResetStates \union {"greenwins"}
  BY DEF GameStates, ResetStates, OnGreenWin
<1>3. \A s \in ResetStates : AfterReset(s) \in GameStates
  BY DEF GameStates, ResetStates, AfterReset
<1> QED BY <1>1, <1>2, <1>3

(* A frame leads from a state of the enum to a state of the enum. *)
LEMMA NextStateClosed == TypeOK => Next_state \in AllStates
<1> SUFFICES ASSUME TypeOK PROVE Next_state \in AllStates
  OBVIOUS
<1>1. CASE State = "start"
  BY <1>1 DEF Next_state, AllStates, GameStates, ResetStates, WinStates
<1>2. CASE State \in GameStates
  <2>1. State # "start" BY <1>2 DEF GameStates
  <2>2. Next_state \in {OnRedWin(State), OnGreenWin(State), State}
    BY <1>2, <2>1 DEF Next_state, GameStates, ResetStates, WinStates
  <2> QED BY <1>2, <2>2, TablesClosed DEF AllStates, WinStates
<1>3. CASE State \in ResetStates
  <2>1. Next_state = AfterReset(State)
    BY <1>3 DEF Next_state, GameStates, ResetStates, WinStates
  <2> QED BY <1>3, <2>1, TablesClosed DEF AllStates
<1>4. CASE State \in WinStates
  BY <1>4 DEF Next_state, GameStates, ResetStates, WinStates, AllStates
<1> QED BY <1>1, <1>2, <1>3, <1>4 DEF TypeOK, AllStates

(* The registers and the inputs keep their types; State never leaves the    *)
(* enum, whatever the tables' inputs do.                                    *)
THEOREM TypeCorrect == Spec => []TypeOK
<1>1. Init => TypeOK
  BY DEF Init, ScreenInit, TypeOK, AllStates
<1>2. TypeOK /\ [Next]_vars => TypeOK'
  <2> SUFFICES ASSUME TypeOK, [Next]_vars PROVE TypeOK'
    OBVIOUS
  <2>1. CASE Frame
    BY <2>1, NextStateClosed DEF Frame, ScreenFrame, inputs, TypeOK
  <2>2. CASE Key0
    BY <2>2 DEF Key0, ScreenReset, inputs, TypeOK, AllStates
  <2>3. CASE Environment
    BY <2>3 DEF Environment, registers, TypeOK
  <2>4. CASE UNCHANGED vars
    BY <2>4 DEF vars, TypeOK
  <2> QED BY <2>1, <2>2, <2>3, <2>4 DEF Next
<1> QED BY <1>1, <1>2, PTL DEF Spec
-----------------------------------------------------------------------------
(* The tables count: a round won by red adds one to red's points and none  *)
(* to green's, or ends the match when red has two; likewise for green; and *)
(* the reset states lose nothing.                                          *)
LEMMA RedWinCounts ==
  \A s \in GameStates :
     /\ redscore(s) \in 0 .. 2 /\ greenscore(s) \in 0 .. 2
     /\ redscore(s) = 2 => OnRedWin(s) = "redwins"
     /\ redscore(s) # 2 => /\ OnRedWin(s) \in ResetStates
                           /\ redscore(AfterReset(OnRedWin(s))) = redscore(s) + 1
                           /\ greenscore(AfterReset(OnRedWin(s))) = greenscore(s)
BY DEF GameStates, ResetStates, OnRedWin, AfterReset, redscore, greenscore

LEMMA GreenWinCounts ==
  \A s \in GameStates :
     /\ greenscore(s) = 2 => OnGreenWin(s) = "greenwins"
     /\ greenscore(s) # 2 => /\ OnGreenWin(s) \in ResetStates
                             /\ greenscore(AfterReset(OnGreenWin(s))) = greenscore(s) + 1
                             /\ redscore(AfterReset(OnGreenWin(s))) = redscore(s)
BY DEF GameStates, ResetStates, OnGreenWin, AfterReset, redscore, greenscore

(* Outside a match both scores are nil. *)
LEMMA NoScoreOutside ==
  \A s \in {"start"} \union WinStates : redscore(s) = 0 /\ greenscore(s) = 0
BY DEF WinStates, redscore, greenscore

(* The kinds of states are disjoint. *)
LEMMA KindsDisjoint ==
  /\ "start" \notin GameStates \union ResetStates \union WinStates
  /\ \A s \in GameStates : s \notin ResetStates \union WinStates
  /\ \A s \in ResetStates : s \notin WinStates
  /\ \A s \in WinStates : s \notin GameStates \union ResetStates
BY DEF GameStates, ResetStates, WinStates

(* A step of the state machine is a step of the match or changes no point. *)
LEMMA FrameIsMatchStep ==
  ASSUME TypeOK, ScreenFrame
  PROVE  [M!MatchNext]_M!matchVars
<1> USE DEF ScreenFrame
<1>1. CASE State = "start"
  <2>1. State' \in {"start", "game00"}
    BY <1>1, KindsDisjoint DEF Next_state
  <2>2. CASE State' = "start"
    BY <1>1, <2>2 DEF M!matchVars, Phase, currstate, RoundOf
  <2>3. CASE State' = "game00"
    <3>1. Phase = "title" /\ Phase' = "play"
      BY <1>1, <2>3 DEF Phase, currstate, GameStates, ResetStates
    <3>2. redscore(RoundOf)' = 0 /\ greenscore(RoundOf)' = 0
      BY <2>3 DEF RoundOf, ResetStates, redscore, greenscore
    <3> QED BY <3>1, <3>2 DEF M!MatchNext, M!Start, M!NoPoints
  <2> QED BY <2>1, <2>2, <2>3
<1>2. CASE State \in GameStates
  <2>0. RoundOf = State /\ Phase = "play"
    <3>1. RoundOf = State
      BY <1>2, KindsDisjoint DEF RoundOf
    <3>2. currstate = "game"
      BY <1>2 DEF currstate, GameStates
    <3> QED BY <3>1, <3>2 DEF Phase
  <2>1. CASE redwin
    <3>1. State' = OnRedWin(State)
      BY <1>2, <2>1, KindsDisjoint DEF Next_state
    <3>2. CASE redscore(State) = 2
      <4>1. State' = "redwins"
        BY <1>2, <3>1, <3>2, RedWinCounts
      <4>2. Phase' = "redwon"
        BY <4>1 DEF Phase, currstate, GameStates, ResetStates
      <4>3. redscore(RoundOf)' = 0 /\ greenscore(RoundOf)' = 0
        BY <4>1 DEF RoundOf, ResetStates, redscore, greenscore
      <4> QED BY <2>0, <3>2, <4>2, <4>3 DEF M!MatchNext, M!RedScores, M!NoPoints
    <3>3. CASE redscore(State) # 2
      <4>1. /\ State' \in ResetStates
            /\ redscore(AfterReset(State')) = redscore(State) + 1
            /\ greenscore(AfterReset(State')) = greenscore(State)
        BY <1>2, <3>1, <3>3, RedWinCounts
      <4>2. RoundOf' = AfterReset(State') /\ Phase' = "play"
        BY <4>1 DEF RoundOf, Phase, currstate, ResetStates
      <4>3. redscore(RoundOf)' = redscore(RoundOf) + 1 /\ greenscore(RoundOf)' = greenscore(RoundOf)
        BY <2>0, <4>1, <4>2 DEF redscore, greenscore
      <4>4. redscore(RoundOf) + 1 # 3
        BY <1>2, <2>0, <3>3, RedWinCounts
      <4> QED BY <2>0, <4>2, <4>3, <4>4 DEF M!MatchNext, M!RedScores
    <3> QED BY <3>2, <3>3
  <2>2. CASE ~redwin /\ greenwin
    <3>1. State' = OnGreenWin(State)
      BY <1>2, <2>2, KindsDisjoint DEF Next_state
    <3>2. CASE greenscore(State) = 2
      <4>1. State' = "greenwins"
        BY <1>2, <3>1, <3>2, GreenWinCounts
      <4>2. Phase' = "greenwon"
        BY <4>1 DEF Phase, currstate, GameStates, ResetStates
      <4>3. redscore(RoundOf)' = 0 /\ greenscore(RoundOf)' = 0
        BY <4>1 DEF RoundOf, ResetStates, redscore, greenscore
      <4> QED BY <2>0, <3>2, <4>2, <4>3 DEF M!MatchNext, M!GreenScores, M!NoPoints
    <3>3. CASE greenscore(State) # 2
      <4>1. /\ State' \in ResetStates
            /\ greenscore(AfterReset(State')) = greenscore(State) + 1
            /\ redscore(AfterReset(State')) = redscore(State)
        BY <1>2, <3>1, <3>3, GreenWinCounts
      <4>2. RoundOf' = AfterReset(State') /\ Phase' = "play"
        BY <4>1 DEF RoundOf, Phase, currstate, ResetStates
      <4>3. greenscore(RoundOf)' = greenscore(RoundOf) + 1 /\ redscore(RoundOf)' = redscore(RoundOf)
        BY <2>0, <4>1, <4>2 DEF redscore, greenscore
      <4>4. greenscore(RoundOf) + 1 # 3
        BY <1>2, <2>0, <3>3, RedWinCounts
      <4> QED BY <2>0, <4>2, <4>3, <4>4 DEF M!MatchNext, M!GreenScores
    <3> QED BY <3>2, <3>3
  <2>3. CASE ~redwin /\ ~greenwin
    <3>1. State' = State
      BY <1>2, <2>3, KindsDisjoint DEF Next_state
    <3> QED BY <3>1 DEF M!matchVars, Phase, currstate, RoundOf, redscore, greenscore
  <2> QED BY <2>1, <2>2, <2>3
<1>3. CASE State \in ResetStates
  <2>1. State' = AfterReset(State) /\ State' \in GameStates
    BY <1>3, KindsDisjoint, TablesClosed DEF Next_state
  <2>2. RoundOf' = RoundOf /\ Phase' = "play" /\ Phase = "play"
    BY <1>3, <2>1, KindsDisjoint DEF RoundOf, Phase, currstate, ResetStates, GameStates
  <2> QED BY <2>2 DEF M!matchVars, redscore, greenscore
<1>4. CASE State \in WinStates
  <2>1. State' \in {"start", State}
    BY <1>4, KindsDisjoint DEF Next_state, WinStates
  <2>2. CASE State' = State
    BY <2>2 DEF M!matchVars, Phase, currstate, RoundOf, redscore, greenscore
  <2>3. CASE State' = "start"
    <3>1. Phase \in {"redwon", "greenwon"} /\ Phase' = "title"
      BY <1>4, <2>3 DEF Phase, currstate, WinStates, GameStates, ResetStates
    <3>2. redscore(RoundOf)' = 0 /\ greenscore(RoundOf)' = 0
      BY <2>3 DEF RoundOf, ResetStates, redscore, greenscore
    <3> QED BY <3>1, <3>2 DEF M!MatchNext, M!Finish, M!NoPoints
  <2> QED BY <2>1, <2>2, <2>3
<1> QED BY <1>1, <1>2, <1>3, <1>4 DEF TypeOK, AllStates

(* The twenty-state machine implements the three-point match.              *)
THEOREM ScreenControlImplementsMatch == Spec => ImplementsMatch
<1>1. Init => M!MatchInit
  BY DEF Init, ScreenInit, M!MatchInit, Phase, currstate, RoundOf, ResetStates, GameStates, redscore, greenscore
<1>2. TypeOK /\ [Next]_vars => [M!MatchNext]_M!matchVars
  <2> SUFFICES ASSUME TypeOK, [Next]_vars PROVE [M!MatchNext]_M!matchVars
    OBVIOUS
  <2>1. CASE Frame
    BY <2>1, FrameIsMatchStep DEF Frame
  <2>2. CASE Key0
    <3>1. State' = "start"
      BY <2>2 DEF Key0, ScreenReset
    <3>2. redscore(RoundOf)' = 0 /\ greenscore(RoundOf)' = 0
      BY <3>1 DEF RoundOf, ResetStates, redscore, greenscore
    <3>3. Phase' = "title"
      BY <3>1 DEF Phase, currstate, GameStates, ResetStates
    <3> QED BY <3>2, <3>3 DEF M!MatchNext, M!Abandon, M!NoPoints
  <2>3. CASE UNCHANGED registers
    BY <2>3 DEF registers, M!matchVars, Phase, currstate, RoundOf, redscore, greenscore
  <2> QED BY <2>1, <2>2, <2>3 DEF Next, Environment, vars, registers
<1> QED BY <1>1, <1>2, TypeCorrect, PTL DEF Spec, ImplementsMatch, M!MatchSpec

(* A point or a win follows a hit at that very frame, on every behaviour.  *)
THEOREM PointsHaveACauseHolds == Spec => PointsHaveACause
<1> DEFINE Caused ==
      /\ redscore(RoundOf)' > redscore(RoundOf) \/ (State # "redwins" /\ State' = "redwins")
            => redwin
      /\ greenscore(RoundOf)' > greenscore(RoundOf) \/ (State # "greenwins" /\ State' = "greenwins")
            => greenwin /\ ~redwin
<1>1. TypeOK /\ [Next]_vars => [Caused]_vars
  <2> SUFFICES ASSUME TypeOK, [Next]_vars PROVE Caused \/ UNCHANGED vars
    BY DEF vars
  <2>1. CASE Frame
    <3>1. CASE State \in GameStates /\ redwin
      <4>1. State' = OnRedWin(State) /\ RoundOf = State
        BY <2>1, <3>1, KindsDisjoint DEF Frame, ScreenFrame, Next_state, RoundOf
      <4>2. State' \in ResetStates \union {"redwins"}
        BY <3>1, <4>1, TablesClosed
      <4>3. CASE State' = "redwins"
        <5>1. RoundOf' = "redwins"
          BY <4>3 DEF RoundOf, ResetStates
        <5>2. greenscore(RoundOf)' = 0
          BY <5>1 DEF greenscore
        <5> QED BY <3>1, <4>1, <4>3, <5>2, RedWinCounts DEF GameStates
      <4>4. CASE State' \in ResetStates
        <5>1. redscore(State) # 2
          BY <3>1, <4>1, <4>4, RedWinCounts, KindsDisjoint DEF WinStates
        <5>2. greenscore(RoundOf)' = greenscore(RoundOf)
          BY <3>1, <4>1, <4>4, <5>1, RedWinCounts DEF RoundOf, greenscore
        <5> QED BY <3>1, <4>1, <4>4, <5>2, RedWinCounts, KindsDisjoint DEF WinStates
      <4> QED BY <4>2, <4>3, <4>4
    <3>2. CASE State \in GameStates /\ ~redwin /\ greenwin
      <4>1. State' = OnGreenWin(State) /\ RoundOf = State
        BY <2>1, <3>2, KindsDisjoint DEF Frame, ScreenFrame, Next_state, RoundOf
      <4>2. State' \in ResetStates \union {"greenwins"}
        BY <3>2, <4>1, TablesClosed
      <4>3. CASE State' = "greenwins"
        <5>1. RoundOf' = "greenwins"
          BY <4>3 DEF RoundOf, ResetStates
        <5>2. redscore(RoundOf)' = 0
          BY <5>1 DEF redscore
        <5> QED BY <3>2, <4>1, <4>3, <5>2, RedWinCounts DEF GameStates
      <4>4. CASE State' \in ResetStates
        <5>1. greenscore(State) # 2
          BY <3>2, <4>1, <4>4, GreenWinCounts, KindsDisjoint DEF WinStates
        <5>2. redscore(RoundOf)' = redscore(RoundOf)
          BY <3>2, <4>1, <4>4, <5>1, GreenWinCounts DEF RoundOf, redscore
        <5> QED BY <3>2, <4>1, <4>4, <5>2, RedWinCounts, KindsDisjoint DEF WinStates
      <4> QED BY <4>2, <4>3, <4>4
    <3>3. CASE State \in GameStates /\ ~redwin /\ ~greenwin
      <4>1. State' = State
        BY <2>1, <3>3, KindsDisjoint DEF Frame, ScreenFrame, Next_state
      <4>2. /\ redscore(RoundOf)' = redscore(RoundOf)
            /\ greenscore(RoundOf)' = greenscore(RoundOf)
            /\ RoundOf = State
        BY <3>3, <4>1, KindsDisjoint DEF RoundOf, redscore, greenscore
      <4> QED BY <3>3, <4>1, <4>2, RedWinCounts
    <3>4. CASE State \in ResetStates
      <4>1. State' = AfterReset(State) /\ State' \in GameStates
        BY <2>1, <3>4, KindsDisjoint, TablesClosed DEF Frame, ScreenFrame, Next_state
      <4>2. RoundOf' = RoundOf /\ RoundOf \in GameStates
        BY <3>4, <4>1, KindsDisjoint DEF RoundOf
      <4>3. /\ redscore(RoundOf)' = redscore(RoundOf)
            /\ greenscore(RoundOf)' = greenscore(RoundOf)
        BY <4>2 DEF redscore, greenscore
      <4> QED BY <4>1, <4>2, <4>3, RedWinCounts DEF GameStates
    <3>5. CASE State \in {"start"} \union WinStates
      <4>1. State' \in {"start", "game00", State}
        BY <2>1, <3>5, KindsDisjoint DEF Frame, ScreenFrame, Next_state
      <4>2. RoundOf \in {"start"} \union WinStates /\ RoundOf' \in {"start", "game00"} \union WinStates
        BY <3>5, <4>1, KindsDisjoint DEF RoundOf, ResetStates, WinStates
      <4>3. /\ redscore(RoundOf) = 0 /\ greenscore(RoundOf) = 0
            /\ redscore(RoundOf)' = 0 /\ greenscore(RoundOf)' = 0
        BY <4>2 DEF redscore, greenscore, WinStates
      <4> QED BY <3>5, <4>1, <4>3
    <3> QED BY <3>1, <3>2, <3>3, <3>4, <3>5 DEF TypeOK, AllStates
  <2>2. CASE Key0
    <3>1. State' = "start"
      BY <2>2 DEF Key0, ScreenReset
    <3>2. redscore(RoundOf)' = 0 /\ greenscore(RoundOf)' = 0
      BY <3>1 DEF RoundOf, ResetStates, redscore, greenscore
    <3>3. redscore(RoundOf) \in 0 .. 2 /\ greenscore(RoundOf) \in 0 .. 2
      BY DEF redscore, greenscore
    <3> QED BY <3>1, <3>2, <3>3
  <2>3. CASE Environment
    <3>1. /\ redscore(RoundOf)' = redscore(RoundOf)
          /\ greenscore(RoundOf)' = greenscore(RoundOf)
          /\ State' = State
      BY <2>3 DEF Environment, registers, RoundOf, redscore, greenscore
    <3>2. redscore(RoundOf) \in 0 .. 2 /\ greenscore(RoundOf) \in 0 .. 2
      BY DEF redscore, greenscore
    <3> QED BY <3>1, <3>2
  <2> QED BY <2>1, <2>2, <2>3 DEF Next
<1> QED BY <1>1, TypeCorrect, PTL DEF Spec, PointsHaveACause
-----------------------------------------------------------------------------
(* The maze.                                                               *)

(* The registers between the four writes of setWall.                       *)
RegisterInv ==
  /\ WALLS_WE = (pc = "low")
  /\ pc \in {"data", "high", "low"} => WALLS_ADDR = y * Cols + x
  /\ pc \in {"high", "low"} => WALLS_DATA = wall_val(right, bottom)
  /\ pc = "low" => WALLS_VRAM[WALLS_ADDR] = WALLS_DATA
  /\ pc = "poll" => x = 0 /\ y = 0 /\ drawn

\* The walls that the arrays give the tile in column c and row r.
TileWall(side, c, r) ==
  \/ /\ side = "right" /\ (c = 2 * Cols - 1 \/ right[<<r, c>>] = 1)
  \/ /\ side = "bottom" /\ (r = Rows - 1 \/ bottom[<<r, c>>] = 1)
  \/ /\ side = "left" /\ (c = 0 \/ right[<<r, c - 1>>] = 1)
  \/ /\ side = "top" /\ (r = 0 \/ bottom[<<r - 1, c>>] = 1)
TileWalls(c, r) == {side \in Sides : TileWall(side, c, r)}

\* The byte of tile (c, r) was written in this pass.
Written(c, r) == \/ pc = "poll"
                 \/ r < y
                 \/ r = y /\ (c \div 2 < x \/ (c \div 2 = x /\ pc = "low"))

ContentInv == \A c \in TileCols, r \in TileRows : Written(c, r) => WallsAt(c, r) = TileWalls(c, r)

MazeInv == MazeTypeOK /\ RegisterInv /\ ContentInv /\ BorderClosed
-----------------------------------------------------------------------------
\* Bytes of a row, and the rows of bytes, by coordinates instead of address.
ByteCols == 0 .. Cols - 1

LEMMA AddressOrder ==
  ASSUME NEW r1 \in TileRows, NEW r2 \in TileRows, NEW c1 \in ByteCols, NEW c2 \in ByteCols
  PROVE  r1 * Cols + c1 < r2 * Cols + c2 <=> r1 < r2 \/ (r1 = r2 /\ c1 < c2)
<1> USE ColsAssumption, RowsAssumption DEF TileRows, ByteCols
<1> DEFINE p1 == r1 * Cols
           p2 == r2 * Cols
<1>1. p1 \in Nat /\ p2 \in Nat
  OBVIOUS
<1>2. ASSUME r1 < r2 PROVE p1 + Cols <= p2
  <2>1. r2 - r1 \in Nat /\ r2 - r1 >= 1
    BY <1>2
  <2>2. (r2 - r1) * Cols >= Cols
    BY <2>1
  <2>3. p2 - p1 = (r2 - r1) * Cols
    OBVIOUS
  <2> QED BY <1>1, <2>2, <2>3
<1>3. ASSUME r2 < r1 PROVE p2 + Cols <= p1
  <2>1. r1 - r2 \in Nat /\ r1 - r2 >= 1
    BY <1>3
  <2>2. (r1 - r2) * Cols >= Cols
    BY <2>1
  <2>3. p1 - p2 = (r1 - r2) * Cols
    OBVIOUS
  <2> QED BY <1>1, <2>2, <2>3
<1>4. r1 = r2 => p1 = p2
  OBVIOUS
<1> HIDE DEF p1, p2
<1>5. p1 + c1 < p2 + c2 <=> r1 < r2 \/ (r1 = r2 /\ c1 < c2)
  <2>1. CASE r1 < r2
    BY <1>1, <1>2, <2>1
  <2>2. CASE r2 < r1
    BY <1>1, <1>3, <2>2
  <2>3. CASE r1 = r2
    BY <1>1, <1>4, <2>3
  <2> QED BY <2>1, <2>2, <2>3
<1> QED BY <1>5 DEF p1, p2

LEMMA AddressOfByte ==
  ASSUME NEW r \in TileRows, NEW c \in ByteCols
  PROVE  r * Cols + c \in Addresses
<1> USE ColsAssumption, RowsAssumption DEF TileRows, ByteCols
<1>1. r * Cols \in Nat /\ Rows * Cols \in Nat
  OBVIOUS
<1>2. Rows * Cols - r * Cols = (Rows - r) * Cols
  OBVIOUS
<1>3. Rows - r \in Nat /\ Rows - r >= 1
  OBVIOUS
<1>4. (Rows - r) * Cols >= Cols
  BY <1>3
<1> QED BY <1>1, <1>2, <1>4 DEF Addresses

LEMMA SameAddress ==
  ASSUME NEW r1 \in TileRows, NEW r2 \in TileRows, NEW c1 \in ByteCols, NEW c2 \in ByteCols
  PROVE  r1 * Cols + c1 = r2 * Cols + c2 <=> r1 = r2 /\ c1 = c2
<1>1. r1 * Cols + c1 \in Nat /\ r2 * Cols + c2 \in Nat
  BY ColsAssumption, RowsAssumption DEF TileRows, ByteCols
<1>2. ~(r1 * Cols + c1 < r2 * Cols + c2) /\ ~(r2 * Cols + c2 < r1 * Cols + c1)
        => r1 * Cols + c1 = r2 * Cols + c2
  BY <1>1
<1>3. /\ ~(r1 < r2 \/ (r1 = r2 /\ c1 < c2))
      /\ ~(r2 < r1 \/ (r2 = r1 /\ c2 < c1))
      <=> r1 = r2 /\ c1 = c2
  BY ColsAssumption, RowsAssumption DEF TileRows, ByteCols
<1>4. r1 * Cols + c1 = r2 * Cols + c2
        => ~(r1 * Cols + c1 < r2 * Cols + c2) /\ ~(r2 * Cols + c2 < r1 * Cols + c1)
  BY <1>1
<1> QED BY <1>2, <1>3, <1>4, AddressOrder

\* The byte and the half of a tile.
LEMMA TileByte ==
  ASSUME NEW c \in TileCols
  PROVE  c \div 2 \in ByteCols /\ c % 2 \in Halves /\ c = 2 * (c \div 2) + (c % 2)
BY ColsAssumption DEF TileCols, ByteCols, Halves

LEMMA FreshIsWritten ==
  ASSUME MazeTypeOK, NEW c \in TileCols, NEW r \in TileRows
  PROVE  Fresh(r * Cols + c \div 2) <=> Written(c, r)
<1>1. y \in TileRows /\ x \in ByteCols
  BY DEF MazeTypeOK, ByteCols
<1>2. c \div 2 \in ByteCols
  BY TileByte
<1> QED BY <1>1, <1>2, AddressOrder, SameAddress DEF Fresh, Written

\* The byte that setWall writes holds the walls of its two tiles.
LEMMA WallValIsTileWalls ==
  ASSUME MazeTypeOK, NEW h \in Halves
  PROVE  wall_val(right, bottom)[h] = TileWalls(2 * x + h, y)
<1>1. wall_val(right, bottom)[h] = {side \in Sides : HasWall(side, h, right, bottom) = 1}
  BY DEF wall_val
<1>2. x \in Nat /\ Cols \in Nat /\ x <= Cols - 1 /\ y \in Nat
  BY ColsAssumption, RowsAssumption DEF MazeTypeOK, TileRows
<1>3. (h = 1 /\ x = Cols - 1) <=> 2 * x + h = 2 * Cols - 1
  BY <1>2 DEF Halves
<1>4. (h = 0 /\ x = 0) <=> 2 * x + h = 0
  BY <1>2 DEF Halves
<1>5. ASSUME NEW side \in Sides
      PROVE  HasWall(side, h, right, bottom) = 1 <=> TileWall(side, 2 * x + h, y)
  <2>1. CASE side = "right"
    BY <1>3, <2>1 DEF HasWall, TileWall
  <2>2. CASE side = "bottom"
    BY <2>2 DEF HasWall, TileWall
  <2>3. CASE side = "left"
    BY <1>2, <1>4, <2>3 DEF HasWall, TileWall, Halves
  <2>4. CASE side = "top"
    BY <2>4 DEF HasWall, TileWall
  <2> QED BY <2>1, <2>2, <2>3, <2>4 DEF Sides
<1> QED BY <1>1, <1>5 DEF TileWalls
-----------------------------------------------------------------------------
LEMMA WallValIsByte == wall_val(right, bottom) \in Bytes
BY DEF wall_val, Bytes

LEMMA AddressHere == MazeTypeOK => y * Cols + x \in Addresses
BY AddressOfByte DEF MazeTypeOK, ByteCols

\* The draws for a byte touch only the entries of its two tiles.
LEMMA DrawsAreLocal ==
  ASSUME MazeTypeOK, NEW coins \in Coins
  PROVE  LET Arrays == [TileRows \X TileCols -> {0, 1, Unassigned}]
             Elsewhere == {t \in TileRows \X TileCols : t # <<y, 2 * x>> /\ t # <<y, 2 * x + 1>>}
         IN  /\ DrawRight(coins) \in Arrays /\ DrawBottom(coins) \in Arrays
             /\ \A t \in Elsewhere : DrawRight(coins)[t] = right[t] /\ DrawBottom(coins)[t] = bottom[t]
<1>1. coins[1] \in {0, 1, Unassigned} /\ coins[2] \in {0, 1, Unassigned}
  BY DEF Coins
<1>2. 2 * x \in TileCols /\ 2 * x + 1 \in TileCols
  BY ColsAssumption DEF MazeTypeOK, TileCols
<1>3. y \in TileRows
  BY DEF MazeTypeOK
<1>4. right \in [TileRows \X TileCols -> {0, 1, Unassigned}]
  BY DEF MazeTypeOK
<1>5. bottom \in [TileRows \X TileCols -> {0, 1, Unassigned}]
  BY DEF MazeTypeOK
<1>6. <<y, 2 * x>> \in TileRows \X TileCols /\ <<y, 2 * x + 1>> \in TileRows \X TileCols
  BY <1>2, <1>3
<1> DEFINE t1 == <<y, 2 * x>>
           t2 == <<y, 2 * x + 1>>
<1>7. DrawRight(coins) = [right EXCEPT ![t1] = 0]
      \/ DrawRight(coins) = [right EXCEPT ![t1] = coins[1], ![t2] = coins[2]]
  BY DEF DrawRight
<1>8. DrawBottom(coins) = bottom
      \/ DrawBottom(coins) = [bottom EXCEPT ![t1] = coins[1], ![t2] = coins[2]]
  BY DEF DrawBottom
<1> HIDE DEF t1, t2
<1>9. t1 \in TileRows \X TileCols /\ t2 \in TileRows \X TileCols
  BY <1>6 DEF t1, t2
<1>10. /\ DrawRight(coins) \in [TileRows \X TileCols -> {0, 1, Unassigned}]
       /\ \A t \in TileRows \X TileCols : t # t1 /\ t # t2 => DrawRight(coins)[t] = right[t]
  BY <1>1, <1>4, <1>7, <1>9
<1>11. /\ DrawBottom(coins) \in [TileRows \X TileCols -> {0, 1, Unassigned}]
       /\ \A t \in TileRows \X TileCols : t # t1 /\ t # t2 => DrawBottom(coins)[t] = bottom[t]
  BY <1>1, <1>5, <1>8, <1>9
<1> QED BY <1>10, <1>11 DEF t1, t2

\* The loop counters stay in range.
LEMMA StepInRange ==
  ASSUME MazeTypeOK, Step
  PROVE  x' \in 0 .. Cols - 1 /\ y' \in TileRows /\ pc' \in {"addr", "poll"}
BY ColsAssumption, RowsAssumption DEF MazeTypeOK, Step, Last, TileRows

\* A pass writes every register of the software in turn.
LEMMA MazeTypeStep ==
  ASSUME MazeTypeOK, RegisterInv, [MazeNext]_mazeVars
  PROVE  MazeTypeOK'
<1>1. CASE SetAddr
  <2>1. PICK rightCoins \in Coins, bottomCoins \in Coins :
           right' = DrawRight(rightCoins) /\ bottom' = DrawBottom(bottomCoins)
    BY <1>1 DEF SetAddr
  <2>2. {right', bottom'} \subseteq [TileRows \X TileCols -> {0, 1, Unassigned}]
    BY <2>1, DrawsAreLocal
  <2>3. y * Cols + x \in Addresses
    BY AddressHere
  <2> QED BY <1>1, <2>2, <2>3 DEF SetAddr, Pio, MazeTypeOK
<1>2. CASE SetData
  BY <1>2, WallValIsByte DEF SetData, Pio, loopVars, MazeTypeOK
<1>3. CASE SetHigh
  BY <1>3 DEF SetHigh, Pio, loopVars, MazeTypeOK
<1>4. CASE SetLow
  BY <1>4, StepInRange DEF SetLow, Pio, WeAfter, MazeTypeOK
<1>5. CASE Poll
  <2>1. Undrawn \in [TileRows \X TileCols -> {0, 1, Unassigned}]
    BY DEF Undrawn
  <2> QED BY <1>5, <2>1 DEF Poll, memoryVars, MazeTypeOK
<1>6. CASE GameReset
  BY <1>6 DEF GameReset, memoryVars, loopVars, MazeTypeOK
<1>7. CASE UNCHANGED mazeVars
  BY <1>7 DEF mazeVars, memoryVars, loopVars, MazeTypeOK
<1> QED BY <1>1, <1>2, <1>3, <1>4, <1>5, <1>6, <1>7 DEF MazeNext, Software

LEMMA RegisterStep ==
  ASSUME MazeTypeOK, RegisterInv, [MazeNext]_mazeVars
  PROVE  RegisterInv'
<1> USE DEF RegisterInv
<1>1. CASE SetAddr
  BY <1>1 DEF SetAddr, Pio
<1>2. CASE SetData
  <2>1. wall_val(right, bottom)' = wall_val(right, bottom)
    BY <1>2 DEF SetData, loopVars, wall_val, HasWall
  <2> QED BY <1>2, <2>1 DEF SetData, Pio, loopVars
<1>3. CASE SetHigh
  <2>1. wall_val(right, bottom)' = wall_val(right, bottom)
    BY <1>3 DEF SetHigh, loopVars, wall_val, HasWall
  <2> QED BY <1>3, <2>1 DEF SetHigh, Pio, loopVars, MazeTypeOK
<1>4. CASE SetLow
  <2>1. pc' = "poll" => x' = 0 /\ y' = 0 /\ drawn'
    BY <1>4 DEF SetLow, Step, Last
  <2> QED BY <1>4, <2>1 DEF SetLow, Pio, WeAfter, Step
<1>5. CASE Poll
  BY <1>5 DEF Poll, memoryVars
<1>6. CASE GameReset
  <2>1. wall_val(right, bottom)' = wall_val(right, bottom)
    BY <1>6 DEF GameReset, loopVars, wall_val, HasWall
  <2> QED BY <1>6, <2>1 DEF GameReset, memoryVars, loopVars
<1>7. CASE UNCHANGED mazeVars
  <2>1. wall_val(right, bottom)' = wall_val(right, bottom)
    BY <1>7 DEF mazeVars, loopVars, wall_val, HasWall
  <2> QED BY <1>7, <2>1 DEF mazeVars, memoryVars, loopVars
<1> QED BY <1>1, <1>2, <1>3, <1>4, <1>5, <1>6, <1>7 DEF MazeNext, Software
\* What the writes of setWall do to the latches.
LEMMA LatchSteps ==
  ASSUME MazeTypeOK, RegisterInv, [MazeNext]_mazeVars
  PROVE  \/ WALLS_VRAM' = WALLS_VRAM
         \/ /\ SetHigh
            /\ WALLS_VRAM' = [WALLS_VRAM EXCEPT ![y * Cols + x] = wall_val(right, bottom)]
<1>1. CASE SetAddr
  BY <1>1 DEF SetAddr, Pio, RegisterInv
<1>2. CASE SetData
  BY <1>2 DEF SetData, Pio, RegisterInv
<1>3. CASE SetHigh
  BY <1>3 DEF SetHigh, Pio, RegisterInv
<1>4. CASE SetLow
  BY <1>4 DEF SetLow, Pio, WeAfter
<1>5. CASE Poll \/ GameReset \/ UNCHANGED mazeVars
  BY <1>5 DEF Poll, GameReset, mazeVars, memoryVars
<1> QED BY <1>1, <1>2, <1>3, <1>4, <1>5 DEF MazeNext, Software

\* A write of one byte changes the walls of its two tiles only.
LEMMA WallsAfterWrite ==
  ASSUME MazeTypeOK, NEW c \in TileCols, NEW r \in TileRows,
         WALLS_VRAM' = [WALLS_VRAM EXCEPT ![y * Cols + x] = wall_val(right, bottom)]
  PROVE  /\ r = y /\ c \div 2 = x => WallsAt(c, r)' = TileWalls(c, r)
         /\ ~(r = y /\ c \div 2 = x) => WallsAt(c, r)' = WallsAt(c, r)
<1> DEFINE a == r * Cols + c \div 2
           here == y * Cols + x
<1>1. c \div 2 \in ByteCols /\ c % 2 \in Halves /\ c = 2 * (c \div 2) + (c % 2)
  BY TileByte
<1>2. x \in ByteCols /\ y \in TileRows
  BY DEF MazeTypeOK, ByteCols
<1>3. a \in Addresses /\ here \in Addresses
  BY <1>1, <1>2, AddressOfByte
<1>4. a = here <=> r = y /\ c \div 2 = x
  BY <1>1, <1>2, SameAddress
<1>5. WALLS_VRAM \in [Addresses -> Bytes]
  BY DEF MazeTypeOK
<1>6. WallsAt(c, r) = WALLS_VRAM[a][c % 2] /\ WallsAt(c, r)' = WALLS_VRAM'[a][c % 2]
  BY DEF WallsAt
<1> HIDE DEF a
<1>7. CASE a = here
  <2>1. WallsAt(c, r)' = wall_val(right, bottom)[c % 2]
    BY <1>3, <1>5, <1>6, <1>7
  <2>2. wall_val(right, bottom)[c % 2] = TileWalls(2 * x + (c % 2), y)
    BY <1>1, WallValIsTileWalls
  <2> QED BY <1>1, <1>4, <1>7, <2>1, <2>2
<1>8. CASE a # here
  BY <1>3, <1>4, <1>5, <1>6, <1>8
<1> QED BY <1>7, <1>8

\* The walls of a byte already written do not depend on the entries that the
\* next byte's draws assign.
LEMMA WrittenStays ==
  ASSUME MazeTypeOK, SetAddr, NEW c \in TileCols, NEW r \in TileRows, Written(c, r)
  PROVE  TileWalls(c, r)' = TileWalls(c, r)
<1>1. PICK rightCoins \in Coins, bottomCoins \in Coins :
         right' = DrawRight(rightCoins) /\ bottom' = DrawBottom(bottomCoins)
  BY DEF SetAddr
<1>2. \A t \in TileRows \X TileCols : t # <<y, 2 * x>> /\ t # <<y, 2 * x + 1>>
                                      => right'[t] = right[t] /\ bottom'[t] = bottom[t]
  BY <1>1, DrawsAreLocal
<1>3. r < y \/ (r = y /\ c < 2 * x)
  <2>1. r < y \/ (r = y /\ c \div 2 < x)
    BY DEF SetAddr, Written
  <2>2. c \div 2 < x => c < 2 * x
    BY ColsAssumption DEF TileCols, MazeTypeOK
  <2> QED BY <2>1, <2>2
<1>4. /\ x \in Nat /\ y \in Nat /\ r \in Nat /\ c \in Nat /\ Cols \in Nat /\ Rows \in Nat
      /\ c < 2 * Cols /\ r < Rows
  BY ColsAssumption, RowsAssumption DEF MazeTypeOK, TileCols, TileRows
<1>5. right'[<<r, c>>] = right[<<r, c>>] /\ bottom'[<<r, c>>] = bottom[<<r, c>>]
  <2>1. <<r, c>> # <<y, 2 * x>> /\ <<r, c>> # <<y, 2 * x + 1>>
    BY <1>3, <1>4
  <2> QED BY <1>2, <2>1
<1>6. c # 0 => right'[<<r, c - 1>>] = right[<<r, c - 1>>]
  <2> SUFFICES ASSUME c # 0 PROVE right'[<<r, c - 1>>] = right[<<r, c - 1>>]
    OBVIOUS
  <2>1. c - 1 \in TileCols
    BY <1>4 DEF TileCols
  <2>2. <<r, c - 1>> # <<y, 2 * x>> /\ <<r, c - 1>> # <<y, 2 * x + 1>>
    BY <1>3, <1>4
  <2> QED BY <1>2, <2>1, <2>2
<1>7. r # 0 => bottom'[<<r - 1, c>>] = bottom[<<r - 1, c>>]
  <2> SUFFICES ASSUME r # 0 PROVE bottom'[<<r - 1, c>>] = bottom[<<r - 1, c>>]
    OBVIOUS
  <2>1. r - 1 \in TileRows
    BY <1>4 DEF TileRows
  <2>2. <<r - 1, c>> # <<y, 2 * x>> /\ <<r - 1, c>> # <<y, 2 * x + 1>>
    BY <1>3, <1>4
  <2> QED BY <1>2, <2>1, <2>2
<1>8. \A side : TileWall(side, c, r)' <=> TileWall(side, c, r)
  BY <1>5, <1>6, <1>7 DEF TileWall
<1> QED BY <1>8 DEF TileWalls

\* When the loops step on, exactly the bytes up to this one are behind them.
LEMMA StepWrites ==
  ASSUME MazeTypeOK, SetLow, NEW c \in TileCols, NEW r \in TileRows, Written(c, r)'
  PROVE  Written(c, r)
<1>1. /\ x \in Nat /\ y \in Nat /\ r \in Nat /\ c \div 2 \in Nat /\ Cols \in Nat /\ Rows \in Nat
      /\ c \div 2 <= Cols - 1 /\ r <= Rows - 1 /\ x <= Cols - 1 /\ y <= Rows - 1
  BY ColsAssumption, RowsAssumption, TileByte DEF MazeTypeOK, TileRows, ByteCols
<1> DEFINE b == c \div 2
<1> HIDE DEF b
<1>2. r < y \/ (r = y /\ (b < x \/ b = x))
  <2>1. \/ pc' = "poll"
        \/ r < y'
        \/ r = y' /\ b < x'
    BY DEF Written, SetLow, Step, b
  <2>2. CASE Last
    BY <1>1, <2>2 DEF Last, b
  <2>3. CASE ~Last /\ x = Cols - 1
    <3>1. pc' # "poll" /\ x' = 0 /\ y' = y + 1
      BY <2>3 DEF SetLow, Step
    <3> QED BY <1>1, <2>1, <2>3, <3>1 DEF b
  <2>4. CASE ~Last /\ x # Cols - 1
    <3>1. pc' # "poll" /\ x' = x + 1 /\ y' = y
      BY <2>4 DEF SetLow, Step
    <3> QED BY <1>1, <2>1, <3>1 DEF b
  <2> QED BY <2>2, <2>3, <2>4
<1> QED BY <1>2 DEF Written, SetLow, b

\* Whatever this pass has written are the walls that the arrays give the tile.
LEMMA ContentStep ==
  ASSUME MazeTypeOK, RegisterInv, ContentInv, [MazeNext]_mazeVars
  PROVE  ContentInv'
<1> SUFFICES ASSUME NEW c \in TileCols, NEW r \in TileRows, Written(c, r)'
             PROVE  WallsAt(c, r)' = TileWalls(c, r)'
  BY DEF ContentInv
<1>0. UNCHANGED <<right, bottom>> => TileWalls(c, r)' = TileWalls(c, r)
  BY DEF TileWalls, TileWall
<1>00. WALLS_VRAM' = WALLS_VRAM => WallsAt(c, r)' = WallsAt(c, r)
  BY DEF WallsAt
<1>1. CASE SetAddr
  <2>1. Written(c, r)
    BY <1>1 DEF SetAddr, Written
  <2>2. WALLS_VRAM' = WALLS_VRAM
    BY <1>1 DEF SetAddr, Pio, RegisterInv
  <2> QED BY <1>1, <1>00, <2>1, <2>2, WrittenStays DEF ContentInv
<1>2. CASE SetData
  <2>1. Written(c, r)
    BY <1>2 DEF SetData, Written, loopVars
  <2>2. WALLS_VRAM' = WALLS_VRAM
    BY <1>2 DEF SetData, Pio, RegisterInv
  <2> QED BY <1>2, <1>0, <1>00, <2>1, <2>2 DEF ContentInv, SetData, loopVars
<1>3. CASE SetHigh
  <2>1. WALLS_VRAM' = [WALLS_VRAM EXCEPT ![y * Cols + x] = wall_val(right, bottom)]
    BY <1>3 DEF SetHigh, Pio, RegisterInv
  <2>2. Written(c, r) \/ (r = y /\ c \div 2 = x)
    BY <1>3 DEF SetHigh, Written, loopVars
  <2> QED BY <1>3, <1>0, <2>1, <2>2, WallsAfterWrite DEF ContentInv, SetHigh, loopVars
<1>4. CASE SetLow
  <2>1. Written(c, r)
    BY <1>4, StepWrites
  <2>2. WALLS_VRAM' = WALLS_VRAM
    BY <1>4 DEF SetLow, Pio, WeAfter
  <2> QED BY <1>4, <1>0, <1>00, <2>1, <2>2 DEF ContentInv, SetLow
<1>5. CASE Poll
  <2>1. ~screen_reset
    <3> SUFFICES ASSUME screen_reset PROVE FALSE
      OBVIOUS
    <3>1. pc' = "addr" /\ x' = 0 /\ y' = 0
      BY <1>5 DEF Poll, RegisterInv
    <3>2. r \in Nat /\ c \div 2 \in Nat
      BY ColsAssumption, RowsAssumption, TileByte DEF TileRows, ByteCols
    <3>3. ~(r < 0) /\ ~(c \div 2 < 0)
      BY <3>2
    <3> QED BY <3>1, <3>3 DEF Written
  <2> QED BY <1>5, <1>0, <1>00, <2>1 DEF Poll, Written, ContentInv, memoryVars
<1>6. CASE GameReset
  BY <1>6, <1>0, <1>00 DEF GameReset, Written, ContentInv, memoryVars, loopVars
<1>7. CASE UNCHANGED mazeVars
  BY <1>7, <1>0, <1>00 DEF mazeVars, Written, ContentInv, memoryVars, loopVars
<1> QED BY <1>1, <1>2, <1>3, <1>4, <1>5, <1>6, <1>7 DEF MazeNext, Software

\* The border of the arena, tile by tile.
Bordered(c, r, walls) ==
  /\ r = 0 => "top" \in walls
  /\ r = Rows - 1 => "bottom" \in walls
  /\ c = 0 => "left" \in walls
  /\ c = 2 * Cols - 1 => "right" \in walls

LEMMA BorderByTiles ==
  BorderClosed <=> (drawn => \A c \in TileCols, r \in TileRows : Bordered(c, r, WallsAt(c, r)))
<1>1. /\ 0 \in TileRows /\ Rows - 1 \in TileRows /\ 0 \in TileCols /\ 2 * Cols - 1 \in TileCols
  BY ColsAssumption, RowsAssumption DEF TileRows, TileCols
<1> QED BY <1>1 DEF BorderClosed, Bordered

LEMMA BorderPrimed ==
  (drawn' => \A c \in TileCols, r \in TileRows : Bordered(c, r, WallsAt(c, r)')) => BorderClosed'
<1>1. /\ 0 \in TileRows /\ Rows - 1 \in TileRows /\ 0 \in TileCols /\ 2 * Cols - 1 \in TileCols
  BY ColsAssumption, RowsAssumption DEF TileRows, TileCols
<1> QED BY <1>1 DEF BorderClosed, Bordered

LEMMA DrawnBorder ==
  ASSUME NEW c \in TileCols, NEW r \in TileRows
  PROVE  Bordered(c, r, TileWalls(c, r)) /\ Bordered(c, r, TileWalls(c, r)')
BY DEF Bordered, TileWalls, TileWall, Sides

\* A byte is replaced by one that has its border too; the first pass is over
\* when all of them have it.
LEMMA BorderStep ==
  ASSUME MazeTypeOK, RegisterInv, ContentInv, BorderClosed, [MazeNext]_mazeVars
  PROVE  BorderClosed'
<1>1. CASE drawn' = drawn
  <2> SUFFICES ASSUME drawn, NEW c \in TileCols, NEW r \in TileRows
               PROVE  Bordered(c, r, WallsAt(c, r)')
    BY <1>1, BorderByTiles, BorderPrimed
  <2>1. Bordered(c, r, WallsAt(c, r))
    BY BorderByTiles
  <2>2. CASE WALLS_VRAM' = WALLS_VRAM
    BY <2>1, <2>2 DEF WallsAt
  <2>3. CASE WALLS_VRAM' = [WALLS_VRAM EXCEPT ![y * Cols + x] = wall_val(right, bottom)]
    <3>1. WallsAt(c, r)' \in {TileWalls(c, r), WallsAt(c, r)}
      BY <2>3, WallsAfterWrite
    <3> QED BY <2>1, <3>1, DrawnBorder
  <2> QED BY <2>2, <2>3, LatchSteps
<1>2. CASE drawn' # drawn
  <2>1. pc' = "poll"
    BY <1>2 DEF MazeNext, Software, SetAddr, SetData, SetHigh, SetLow, Step, Poll, GameReset, mazeVars,
      MazeTypeOK
  <2>2. \A c \in TileCols, r \in TileRows : WallsAt(c, r)' = TileWalls(c, r)'
    BY <2>1, ContentStep DEF ContentInv, Written
  <2> QED BY <2>2, DrawnBorder, BorderPrimed
<1> QED BY <1>1, <1>2

LEMMA MazeInvariant == MazeSpec => []MazeInv
<1>1. MazeInit => MazeInv
  <2> SUFFICES ASSUME MazeInit PROVE MazeInv
    OBVIOUS
  <2>1. PICK junk \in Bytes : WALLS_VRAM = [a \in Addresses |-> junk]
    BY DEF MazeInit
  <2>2. WALLS_VRAM \in [Addresses -> Bytes]
    BY <2>1
  <2>3. 0 \in Addresses /\ 0 \in 0 .. Cols - 1 /\ 0 \in TileRows
    <3>1. 0 \in ByteCols /\ 0 \in TileRows
      BY ColsAssumption, RowsAssumption DEF ByteCols, TileRows
    <3>2. 0 * Cols + 0 = 0
      BY ColsAssumption
    <3> QED BY <3>1, <3>2, AddressOfByte DEF ByteCols
  <2>4. Undrawn \in [TileRows \X TileCols -> {0, 1, Unassigned}]
    BY DEF Undrawn
  <2>5. [h \in Halves |-> {}] \in Bytes
    BY DEF Bytes
  <2>6. MazeTypeOK
    BY <2>2, <2>3, <2>4, <2>5 DEF MazeInit, MazeTypeOK
  <2>7. ContentInv
    <3>1. \A c \in TileCols, r \in TileRows : ~(r < 0) /\ ~(c \div 2 < 0)
      BY TileByte, ColsAssumption, RowsAssumption DEF TileRows, ByteCols
    <3> QED BY <3>1 DEF ContentInv, Written, MazeInit
  <2> QED BY <2>6, <2>7 DEF MazeInit, MazeInv, RegisterInv, BorderClosed
<1>2. MazeInv /\ [MazeNext]_mazeVars => MazeInv'
  BY MazeTypeStep, RegisterStep, ContentStep, BorderStep DEF MazeInv
<1> QED BY <1>1, <1>2, PTL DEF MazeSpec

THEOREM MazeTypeCorrect == MazeSpec => []MazeTypeOK
<1>1. MazeInv => MazeTypeOK
  BY DEF MazeInv
<1> QED BY <1>1, MazeInvariant, PTL

\* Once the first maze is drawn the border is closed for ever, in the middle of
\* a redraw too, whatever the coins and whenever the game resets.
THEOREM BorderClosedHolds == MazeSpec => []BorderClosed
<1>1. MazeInv => BorderClosed
  BY DEF MazeInv
<1> QED BY <1>1, MazeInvariant, PTL

\* The two copies of a wall agree between any two tiles of the same pass.
THEOREM SharedWallsAgreeHolds == MazeSpec => []SharedWallsAgree
<1>1. MazeInv => SharedWallsAgree
  <2> SUFFICES ASSUME MazeInv, NEW c \in TileCols, NEW r \in TileRows
               PROVE  LET here == r * Cols + c \div 2
                          agree(side, c2, r2, other) ==
                            (drawn /\ pc = "poll") \/ (Fresh(here) /\ Fresh(r2 * Cols + c2 \div 2))
                               => (side \in WallsAt(c, r)) = (other \in WallsAt(c2, r2))
                      IN /\ c + 1 \in TileCols => agree("right", c + 1, r, "left")
                         /\ r + 1 \in TileRows => agree("bottom", c, r + 1, "top")
    BY DEF SharedWallsAgree
  <2>1. ASSUME NEW c2 \in TileCols, NEW r2 \in TileRows,
               \/ drawn /\ pc = "poll"
               \/ Fresh(r * Cols + c \div 2) /\ Fresh(r2 * Cols + c2 \div 2)
        PROVE  WallsAt(c, r) = TileWalls(c, r) /\ WallsAt(c2, r2) = TileWalls(c2, r2)
    <3>1. Written(c, r) /\ Written(c2, r2)
      BY <2>1, FreshIsWritten DEF MazeInv, Written
    <3> QED BY <3>1 DEF MazeInv, ContentInv
  <2>2. /\ c \in Nat /\ r \in Nat /\ Cols \in Nat /\ Rows \in Nat
        /\ c < 2 * Cols /\ r < Rows
    BY ColsAssumption, RowsAssumption DEF TileCols, TileRows
  <2>3. c + 1 \in TileCols => ("right" \in TileWalls(c, r)) = ("left" \in TileWalls(c + 1, r))
    <3>1. c + 1 \in TileCols => c # 2 * Cols - 1 /\ c + 1 # 0 /\ (c + 1) - 1 = c
      BY <2>2 DEF TileCols
    <3> QED BY <3>1 DEF TileWalls, TileWall, Sides
  <2>4. r + 1 \in TileRows => ("bottom" \in TileWalls(c, r)) = ("top" \in TileWalls(c, r + 1))
    <3>1. r + 1 \in TileRows => r # Rows - 1 /\ r + 1 # 0 /\ (r + 1) - 1 = r
      BY <2>2 DEF TileRows
    <3> QED BY <3>1 DEF TileWalls, TileWall, Sides
  <2> QED BY <2>1, <2>3, <2>4
<1> QED BY <1>1, MazeInvariant, PTL

\* No read of the latches sees a half-written byte or a wrong address.
THEOREM OneByteAtATimeHolds == MazeSpec => OneByteAtATime
<1> DEFINE OneByte == WALLS_VRAM' # WALLS_VRAM =>
              /\ pc = "high"
              /\ WALLS_VRAM' = [WALLS_VRAM EXCEPT ![y * Cols + x] = wall_val(right, bottom)]
<1>1. MazeInv /\ [MazeNext]_mazeVars => [OneByte]_WALLS_VRAM
  BY LatchSteps DEF MazeInv, SetHigh
<1> QED BY <1>1, MazeInvariant, PTL DEF MazeSpec, OneByteAtATime
-----------------------------------------------------------------------------
(* The sync pulses.                                                        *)

\* vs is low while the pixel before was in one of the two lines of the sync, or
\* nothing was counted since KEY0; and only then.
Blank == \/ uncounted
         \/ hc # 0 /\ vc + 1 \in {VSyncFirst, VSyncFirst + 1}
         \/ hc = 0 /\ vc \in {VSyncFirst, VSyncFirst + 1}
SyncInv == /\ vs = FALSE <=> Blank
           /\ uncounted = TRUE => hc = 0 /\ vc = 0

LEMMA PixelStep ==
  ASSUME VGATypeOK, Pixel
  PROVE  VGATypeOK' /\ SyncInv'
<1> USE HorizontalAssumption, VerticalAssumption DEF VGATypeOK
<1>1. hc' \in 0 .. hpixels /\ vc' \in 0 .. vlines
  BY DEF Pixel, NextLine
<1>2. hs' \in BOOLEAN /\ vs' \in BOOLEAN /\ Reset' \in BOOLEAN /\ uncounted' \in BOOLEAN
  BY DEF Pixel
<1>3. VSync <=> \/ hc' # 0 /\ vc' + 1 \in {VSyncFirst, VSyncFirst + 1}
                \/ hc' = 0 /\ vc' \in {VSyncFirst, VSyncFirst + 1}
  <2>1. CASE hc = hpixels
    BY <2>1 DEF Pixel, NextLine, VSync
  <2>2. CASE hc # hpixels
    BY <2>2 DEF Pixel, NextLine, VSync
  <2> QED BY <2>1, <2>2
<1>4. uncounted' = FALSE /\ vs' = ~VSync
  BY DEF Pixel
<1>5. SyncInv'
  BY <1>3, <1>4 DEF SyncInv, Blank
<1> QED BY <1>1, <1>2, <1>5

LEMMA VGAInvariant == VGASpec => [](VGATypeOK /\ SyncInv)
<1>0. 0 \in 0 .. hpixels /\ 0 \in 0 .. vlines
  BY HorizontalAssumption, VerticalAssumption
<1>1. VGAInit => VGATypeOK /\ SyncInv
  BY <1>0 DEF VGAInit, VGATypeOK, SyncInv, Blank
<1>2. ASSUME VGATypeOK, SyncInv, [VGANext]_vgaVars PROVE VGATypeOK' /\ SyncInv'
  <2>1. CASE Pixel
    BY <2>1, <1>2, PixelStep
  <2>2. CASE Press
    BY <2>2, <1>2, <1>0 DEF Press, Cleared, VGATypeOK, SyncInv, Blank
  <2>3. CASE Release \/ UNCHANGED vgaVars
    BY <2>3, <1>2 DEF Release, vgaVars, VGATypeOK, SyncInv, Blank
  <2> QED BY <1>2, <2>1, <2>2, <2>3 DEF VGANext
<1> QED BY <1>1, <1>2, PTL DEF VGASpec

\* The game's clock edge comes at every pixel that ends a sync, below the
\* picture, and at no other but the first one after a reset, for any timing
\* whose sync begins after the picture and ends before the frame.
THEOREM EdgeInPlaceHolds == VGASpec => EdgeInPlace
<1> DEFINE InPlace == FrameClock <=> Pixel /\ (uncounted \/ (SyncOver /\ vc >= VActive))
<1>1. ASSUME VGATypeOK, SyncInv, [VGANext]_vgaVars PROVE [InPlace]_vgaVars
  <2>1. CASE Pixel
    <3>1. vs' = ~VSync
      BY <2>1 DEF Pixel
    <3>2. uncounted \/ SyncOver => vs = FALSE /\ ~VSync
      BY <1>1, HorizontalAssumption, VerticalAssumption DEF SyncInv, Blank, SyncOver, VSync, VGATypeOK
    <3>3. vs = FALSE /\ ~VSync => uncounted \/ SyncOver
      BY <1>1, HorizontalAssumption, VerticalAssumption DEF SyncInv, Blank, SyncOver, VSync, VGATypeOK
    <3>4. SyncOver => vc >= VActive
      BY VerticalAssumption DEF SyncOver
    <3>5. vs = FALSE <=> ~vs
      BY <1>1 DEF VGATypeOK
    <3> QED BY <2>1, <3>1, <3>2, <3>3, <3>4, <3>5 DEF FrameClock
  <2>2. CASE Press \/ Release
    <3>1. ~FrameClock
      BY <2>2 DEF Press, Cleared, Release, FrameClock
    <3>2. ~Pixel
      BY <1>1, <2>2 DEF Press, Release, Pixel, VGATypeOK
    <3> QED BY <3>1, <3>2
  <2> QED BY <1>1, <2>1, <2>2 DEF VGANext
<1> QED BY <1>1, VGAInvariant, PTL DEF VGASpec, EdgeInPlace
=============================================================================
