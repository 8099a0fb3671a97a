------------------------------- MODULE FileCopy -------------------------------
(***************************************************************************)
(* What copying a file promises in either direction.  The copy is the      *)
(* sequence of the source positions whose bytes it holds, 1 being the      *)
(* first.  It only ever grows, by the bytes that come next, never beyond   *)
(* the size that the source had when the copying began; and a copying that *)
(* ends well has reached that size.  One that fails or is killed leaves    *)
(* something that the next one continues.                                  *)
(***************************************************************************)
EXTENDS Integers, Sequences

VARIABLES
    copy,       \* the destination
    goal,       \* the size of the source as the current copying knows it
    verdict     \* how the last copying ended: "none", "ok" or "error"

copyVars == <<copy, goal, verdict>>

Identity(n) == [i \in 1..n |-> i]
IsPrefix(c) == c = Identity(Len(c))

AbsInit == copy = <<>> /\ goal = 0 /\ verdict = "none"

Begin == /\ goal' \in Nat /\ verdict' = "none"
         /\ UNCHANGED copy

Grow == /\ Len(copy') > Len(copy) /\ Len(copy') <= goal
        /\ copy' = Identity(Len(copy'))
        /\ UNCHANGED <<goal, verdict>>

End == /\ verdict' = "error" \/ (verdict' = "ok" /\ Len(copy) >= goal)
       /\ UNCHANGED <<copy, goal>>

\* The bytes of a copying that was given up may still arrive.
AbsNext == Begin \/ Grow \/ End

AbsSpec == AbsInit /\ [][AbsNext]_copyVars
===============================================================================
