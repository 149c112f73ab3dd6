------------------------- MODULE MC_ConvertPipeline -------------------------
(***************************************************************************)
(* Two tree files over an a_list of three snapshots.  In MCForestsAt the   *)
(* last snapshot has a forest of its own; in MCOneForest snapshot 0 is an  *)
(* empty one and a single forest is in the other two.  In MCRowsAtOne and  *)
(* MCForestsAtOne all rows are in one snapshot.  The configuration makes   *)
(* the markers Gone, NotOwned and Removed sets of a model value, as the    *)
(* contents of files are sets.                                             *)
(***************************************************************************)
EXTENDS ConvertPipeline

\* What the theorem about NoRowLost supposes holds in this instance.
ASSUME GapsShow == EveryGapShows

MCRowsAt == [f \in Sources |-> IF f = "src0" THEN {0, 1} ELSE {0, 2}]

MCForestsAt == [s \in Snaps |-> IF s = 2 THEN {"B"} ELSE {"A"}]

MCRowsAtLast == [f \in Sources |-> IF f = "src0" THEN {1, 2} ELSE {2}]

MCOneForest == [s \in Snaps |-> IF s = 0 THEN {} ELSE {"A"}]

MCRowsAtOne == [f \in Sources |-> {1}]

MCForestsAtOne == [s \in Snaps |-> IF s = 1 THEN {"A"} ELSE {}]
=============================================================================
