------------------------------- MODULE MCGame -------------------------------
(* Game for TLC: bullets are pairs of a tank and a number. *)
EXTENDS Game

OneTank == {"one"}
\* Whatever is neither a fire key nor the space bar behaves like no key.
NoFireKeys == {"space", "other"}

\* The bullets of the tank.
OneTankBullets == {"one"} \X (1 .. 2)
=============================================================================
