--------------------------- MODULE ScreenControl ---------------------------
(***************************************************************************)
(* screen_control.sv: the one state machine that sequences title screen,   *)
(* rounds, round resets and winner screens.  It is clocked by the rising   *)
(* edge of VGA_VS (once a frame) and reset asynchronously by button KEY0.  *)
(* Its inputs are the death detector's redwin and greenwin and whether     *)
(* keyboard slot 1 shows the space bar.                                    *)
(*                                                                         *)
(* While KEY0 is held VGA_controller is held too, so VGA_VS has no edges:  *)
(* the press is one step, and the frames resume after the release.         *)
(***************************************************************************)
EXTENDS Naturals

VARIABLES State,     \* the enum of lines 8-10
          spaceD,    \* the flip-flop d of space_det (pos_edge_det.v)
          space,     \* input: slot 1 of the keyboard shows the space bar
          redwin,    \* input: tank two is being hit (death.sv)
          greenwin   \* input: tank one is being hit

registers == <<State, spaceD>>
inputs == <<space, redwin, greenwin>>
vars == <<State, spaceD, space, redwin, greenwin>>

GameStates == {"game00", "game10", "game20", "game01", "game02",
               "game11", "game12", "game21", "game22"}
ResetStates == {"reset10", "reset20", "reset01", "reset02",
                "reset11", "reset12", "reset21", "reset22"}
WinStates == {"redwins", "greenwins"}
AllStates == {"start"} \union GameStates \union ResetStates \union WinStates

\* Where a round won by red leads, from each game state.
OnRedWin(s) ==
  CASE s = "game00" -> "reset10" [] s = "game10" -> "reset20"
    [] s = "game01" -> "reset11" [] s = "game11" -> "reset21"
    [] s = "game02" -> "reset12" [] s = "game12" -> "reset22"
    [] s \in {"game20", "game21", "game22"} -> "redwins"

\* Fault: one entry of the table loses a point of red's.
FaultGreenWinSlip(s) ==
  CASE s = "game00" -> "reset01" [] s = "game01" -> "reset02"
    [] s = "game10" -> "reset11" [] s = "game11" -> "reset12"
    [] s = "game20" -> "reset11" [] s = "game21" -> "reset22"
    [] s \in {"game02", "game12", "game22"} -> "greenwins"
\* Where a round won by green leads.
OnGreenWin(s) ==
  CASE s = "game00" -> "reset01" [] s = "game01" -> "reset02"
    [] s = "game10" -> "reset11" [] s = "game11" -> "reset12"
    [] s = "game20" -> "reset21" [] s = "game21" -> "reset22"
    [] s \in {"game02", "game12", "game22"} -> "greenwins"

\* Fault: a reset state hands over to the wrong round, so the match can cycle.
FaultAfterReset(s) ==
  CASE s = "reset10" -> "game10" [] s = "reset20" -> "game10"
    [] s = "reset01" -> "game01" [] s = "reset02" -> "game02"
    [] s = "reset11" -> "game11" [] s = "reset21" -> "game11"
    [] s = "reset12" -> "game12" [] s = "reset22" -> "game22"
\* The game state that a one-frame reset state hands over to.
AfterReset(s) ==
  CASE s = "reset10" -> "game10" [] s = "reset20" -> "game20"
    [] s = "reset01" -> "game01" [] s = "reset02" -> "game02"
    [] s = "reset11" -> "game11" [] s = "reset21" -> "game21"
    [] s = "reset12" -> "game12" [] s = "reset22" -> "game22"

\* pe = sig & ~d: the space bar is down now and was up at the last frame.
pos_edge == space /\ ~spaceD

\* Fault: the two death inputs swapped when green is tested.
FaultNextState ==
  CASE State = "start" -> IF pos_edge THEN "game00" ELSE State
    [] State \in GameStates -> IF redwin THEN OnGreenWin(State)
                               ELSE IF greenwin THEN OnRedWin(State)
                               ELSE State
    [] State \in ResetStates -> AfterReset(State)
    [] State \in WinStates -> IF pos_edge THEN "start" ELSE State
\* The next-state logic.  When both tanks die in one frame red takes the round.
Next_state ==
  CASE State = "start" -> IF pos_edge THEN "game00" ELSE State
    [] State \in GameStates -> IF redwin THEN OnRedWin(State)
                               ELSE IF greenwin THEN OnGreenWin(State)
                               ELSE State
    [] State \in ResetStates -> AfterReset(State)
    [] State \in WinStates -> IF pos_edge THEN "start" ELSE State

\* Outputs.  screenreset parks bullets and tanks and asks the software for a
\* new maze; the scores are drawn beside the arena; currstate picks the picture.
screenreset == State \notin GameStates
redscore(s) == CASE s \in {"game10", "game11", "game12"} -> 1
                 [] s \in {"game20", "game21", "game22"} -> 2
                 [] OTHER -> 0
greenscore(s) == CASE s \in {"game01", "game11", "game21"} -> 1
                   [] s \in {"game02", "game12", "game22"} -> 2
                   [] OTHER -> 0
currstate == CASE State = "start" -> "start"
               [] State \in GameStates \union ResetStates -> "game"
               [] State = "redwins" -> "red wins"
               [] State = "greenwins" -> "green wins"
-----------------------------------------------------------------------------
\* The registers power up in start; the edge detector has no reset.
ScreenInit == State = "start" /\ spaceD \in BOOLEAN

\* One rising edge of VGA_VS.
ScreenFrame == State' = Next_state /\ spaceD' = space

\* KEY0 is pressed: the state register clears, the edge detector does not.
ScreenReset == State' = "start" /\ UNCHANGED spaceD

Init == /\ ScreenInit
        /\ space \in BOOLEAN /\ redwin \in BOOLEAN /\ greenwin \in BOOLEAN

Frame == ScreenFrame /\ UNCHANGED inputs
Key0 == ScreenReset /\ UNCHANGED inputs

\* Standing alone, the keyboard and the death detector may do anything.
Environment == /\ space' \in BOOLEAN /\ redwin' \in BOOLEAN /\ greenwin' \in BOOLEAN
               /\ UNCHANGED registers

Next == Frame \/ Key0 \/ Environment

\* The vertical sync never stops.
Spec == Init /\ [][Next]_vars /\ WF_vars(Frame)
-----------------------------------------------------------------------------
TypeOK == /\ State \in AllStates
          /\ spaceD \in BOOLEAN
          /\ space \in BOOLEAN /\ redwin \in BOOLEAN /\ greenwin \in BOOLEAN

(* The points of a match.  The outputs drop to 0 in the one-frame reset    *)
(* states; the points are those of the round about to begin.               *)
RoundOf == IF State \in ResetStates THEN AfterReset(State) ELSE State
Phase == CASE currstate = "start" -> "title"
           [] currstate = "game" -> "play"
           [] currstate = "red wins" -> "redwon"
           [] currstate = "green wins" -> "greenwon"

M == INSTANCE Match WITH Goal <- 3, phase <- Phase,
                         red <- redscore(RoundOf), green <- greenscore(RoundOf)

\* The hand-written state tables count: every path through the twenty states is
\* a match to three points in which each decided round gives one player one
\* point, however deaths, ties, space bar and button fall.
ImplementsMatch == M!MatchSpec

\* A point or a win goes to the player whose opponent was hit at that very
\* frame, and green's only when red's did not also count (lines 40, 42).
PointsHaveACause ==
  [][/\ redscore(RoundOf)' > redscore(RoundOf) \/ (State # "redwins" /\ State' = "redwins")
          => redwin
     /\ greenscore(RoundOf)' > greenscore(RoundOf) \/ (State # "greenwins" /\ State' = "greenwins")
          => greenwin /\ ~redwin]_vars

\* No match goes on for ever: if rounds keep being decided, the match keeps
\* being left for a winner's screen or the title.
Decided == Frame /\ State \in GameStates /\ State' # State
MatchEnds == []<><<Decided>>_vars => []<>(currstate # "game")
=============================================================================
