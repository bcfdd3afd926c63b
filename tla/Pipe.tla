--------------------------------- MODULE Pipe ---------------------------------
(***************************************************************************)
(* What one direction of the console promises: a bounded pipe of           *)
(* characters.  Some are put at its end at once, and some are got, all of  *)
(* them and in order, from its front; nothing else ever happens to it.     *)
(***************************************************************************)
EXTENDS Naturals, SequencesExt

CONSTANTS Char, Capacity

VARIABLES pipe,     \* the characters under way
          got       \* those that the last step handed over

Init == pipe = <<>>

Put == /\ IsStrictPrefix(pipe, pipe')
       /\ Len(pipe') <= Capacity
       /\ Range(pipe') \subseteq Char

Get == pipe' # pipe /\ pipe = got' \o pipe'

Spec == Init /\ [][Put \/ Get]_pipe
=============================================================================
