------------------------------- MODULE Match -------------------------------
(***************************************************************************)
(* What a match of Tank Trouble promises its two players, without frames,  *)
(* registers or screens: a match starts at nil-nil, every decided round    *)
(* gives exactly one player exactly one point, the first player to reach   *)
(* Goal points wins, and only a new start (or the board's reset button)    *)
(* ever takes points away.  ScreenControl is shown to implement it.        *)
(***************************************************************************)
EXTENDS Naturals

CONSTANT Goal               \* points that win a match, at least one

VARIABLES phase,            \* "title", "play", "redwon" or "greenwon"
          red, green        \* points of the two players during a match

matchVars == <<phase, red, green>>

MatchTypeOK == /\ phase \in {"title", "play", "redwon", "greenwon"}
               /\ red \in 0 .. Goal - 1
               /\ green \in 0 .. Goal - 1
               /\ phase # "play" => red = 0 /\ green = 0

\* Outside a match the board shows no points.
NoPoints == red' = 0 /\ green' = 0

MatchInit == phase = "title" /\ red = 0 /\ green = 0

\* The title screen gives way to a match at nil-nil.
Start == phase = "title" /\ phase' = "play" /\ NoPoints

\* A round decided for one player: one point, or the match when it is the last.
RedScores == /\ phase = "play"
             /\ IF red + 1 = Goal
                  THEN phase' = "redwon" /\ NoPoints
                  ELSE red' = red + 1 /\ UNCHANGED <<phase, green>>

GreenScores == /\ phase = "play"
               /\ IF green + 1 = Goal
                    THEN phase' = "greenwon" /\ NoPoints
                    ELSE green' = green + 1 /\ UNCHANGED <<phase, red>>

\* The winner's screen gives way to the title.
Finish == phase \in {"redwon", "greenwon"} /\ phase' = "title" /\ NoPoints

\* The reset button abandons whatever is going on.
Abandon == phase' = "title" /\ NoPoints

MatchNext == Start \/ RedScores \/ GreenScores \/ Finish \/ Abandon

MatchSpec == MatchInit /\ [][MatchNext]_matchVars
=============================================================================
