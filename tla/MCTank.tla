------------------------------- MODULE MCTank -------------------------------
(***************************************************************************)
(* Tank for TLC: a vertical corridor between two straight walls, in the    *)
(* outer columns, where the tanks start.                                   *)
(***************************************************************************)
EXTENDS Tank

TwoSlots == 0 .. 1

\* One key, two keys in either direction, or none.
Chords(keys) ==
  {<<keys[k], 0>> : k \in DOMAIN keys}
    \union {<<keys[k], keys[l]>> : k \in {"up", "down"}, l \in {"left", "right"}}
    \union {<<0, 0>>, <<keys.up, keys.down>>}

ChordReports == [t \in {"one", "two"} |->
  LET keys == IF t = "one" THEN KeysOne ELSE KeysTwo
  IN {[i \in TwoSlots |-> c[i + 1]] : c \in Chords(keys)}]

\* Columns 0 and 9, with the neighbours' halves of their walls.  To the left of
\* x = 0 a point finds the wall of column 5, one row down: this maze has one there.
CorridorWalls == [addr \in 0 .. 82 |-> [pos \in 0 .. 1 |->
  LET column == 2 * (addr % 5) + pos
  IN CASE column \in {0, 9} -> {"left", "right"}
       [] column \in {1, 6} -> {"left"}
       [] column \in {5, 8} -> {"right"}
       [] OTHER -> {}]]

\* What the theorems about the corridor assume of a maze and of the lane.
ASSUME CorridorAssumption == Corridor /\ Lane <= Yard
=============================================================================
