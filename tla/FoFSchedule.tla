---------------------------- MODULE FoFSchedule -----------------------------
(***************************************************************************)
(* What the tree traversal promises, independently of how it recurses:     *)
(* every FoF group of the unit is evolved exactly once, no group before    *)
(* the groups its galaxies come from, and a unit is finished only when all *)
(* of its groups are evolved.  The order among independent groups is free. *)
(***************************************************************************)
EXTENDS MergerTree

VARIABLES tree,         \* the unit being processed
          evolved,      \* the FoF groups evolved so far
          status        \* "running", "finished" or "fatal"

vars == <<tree, evolved, status>>

Init == /\ WellFormed(tree)
        /\ evolved = {}
        /\ status = "running"

Evolve(f) == /\ status = "running"
             /\ f \notin evolved
             /\ Needs(tree, f) \subseteq evolved
             /\ evolved' = evolved \cup {f}
             /\ UNCHANGED <<tree, status>>

Finish == /\ status = "running"
          /\ evolved = Fofs(tree)
          /\ status' = "finished"
          /\ UNCHANGED <<tree, evolved>>

\* The traversal may give up: the recursion grew past MaxTreeDepth.
GiveUp == /\ status = "running"
          /\ status' = "fatal"
          /\ UNCHANGED <<tree, evolved>>

Next == \/ \E f \in Fofs(tree) : Evolve(f)
        \/ Finish
        \/ GiveUp

Spec == Init /\ [][Next]_vars

\* A unit is left one way or the other.
Ends == <>(status # "running")
=============================================================================
