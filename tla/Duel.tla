-------------------------------- MODULE Duel --------------------------------
(***************************************************************************)
(* What the composed game promises: a match (Match) in which every round   *)
(* is fought.  A round can only be decided after a shot has been fired in  *)
(* it, deciding it ends it for both, and no shot outlives the round, the   *)
(* match or the title screen it belongs to.  Game is shown to implement it.*)
(***************************************************************************)
EXTENDS Match

VARIABLE live               \* a shot has been fired in the round being played

duelVars == <<matchVars, live>>

DuelInit == MatchInit /\ live = FALSE

Shoot == phase = "play" /\ live' = TRUE /\ UNCHANGED matchVars

\* The point goes to one player, and the next round begins without a shot.
Decide == live /\ live' = FALSE /\ (RedScores \/ GreenScores)

\* Everything else happens outside the rounds, or ends them all.
Change == live' = FALSE /\ (Start \/ Finish \/ Abandon)

DuelNext == Shoot \/ Decide \/ Change

DuelSpec == DuelInit /\ [][DuelNext]_duelVars
=============================================================================
