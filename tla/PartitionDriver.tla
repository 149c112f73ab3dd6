--------------------------- MODULE PartitionDriver --------------------------
(***************************************************************************)
(* The output side of a run: the tree driver's loop over partitions on     *)
(* every MPI rank, claiming, finishing and --skip-ping output files, the   *)
(* exit handler that removes what a failed run was working on, and the     *)
(* barrier before the master file.  A behaviour is a sequence of runs into *)
(* one output directory.                                                   *)
(*                                                                         *)
(* What a partition's units contain is the subject of the other modules:   *)
(* here a claimed file is partial until it is finalized.  The partition    *)
(* model is the per-file one (rank r takes r, r + NTask, ...).             *)
(***************************************************************************)
EXTENDS Integers, FiniteSets, FiniteSetsExt

CONSTANTS NTask,            \* ranks of the MPI job; 1 is the serial build
          NPartitions,      \* reader->num_partitions()
          Present,          \* the partitions whose input file exists
          OutputFiles,      \* the output files a partition can have, by index:
                            \* one per snapshot (binary) or a single one (HDF5)
          MaxRuns,          \* bound: runs into the directory
          JobMayBeKilled,   \* a job may end by a signal no handler catches
          OutputsMayChange, \* the snapshot list may be edited between runs
          FinalizeWaits     \* MPI_Finalize returns only with all ranks in it

Ranks == 0 .. NTask - 1
Partitions == 0 .. NPartitions - 1

ASSUME SizesAssumption == NTask \in Nat \ {0} /\ NPartitions \in Nat /\ MaxRuns \in Nat
ASSUME PresentAssumption == Present \subseteq Partitions
ASSUME FilesAssumption == OutputFiles \subseteq Nat /\ IsFiniteSet(OutputFiles)

VARIABLES file,     \* file[p][n]: "absent", "partial" or "complete"
          skip,     \* ~MimicConfig.OverwriteOutputFiles
          wanted,   \* the output files this run asks for (NOUT of them)
          run,      \* runs started so far
          pc,       \* what each rank is doing, "off" when it is not running
          next,     \* the partition its loop is at
          paths,    \* current_output_paths: files of partition next[r]
          todo,     \* the files left to claim, or to finalize
          exitfail, \* main.c: the exit handler must clean up
          earlier   \* history: the files complete when the run began

vars == <<file, skip, wanted, run, pc, next, paths, todo, exitfail, earlier>>

Idle == \A r \in Ranks : pc[r] = "off"

Existing(p) == {n \in wanted : file[p][n] # "absent"}

AtPartition(r) == pc[r] = "loop" /\ next[r] \in Present

Goto(r, where) == pc' = [pc EXCEPT ![r] = where]

NextPartition(r) == next' = [next EXCEPT ![r] = @ + NTask]

-----------------------------------------------------------------------------

Init == /\ file = [p \in Partitions |-> [n \in OutputFiles |-> "absent"]]
        /\ skip = FALSE
        /\ wanted = OutputFiles
        /\ run = 0
        /\ pc = [r \in Ranks |-> "off"]
        /\ next = [r \in Ranks |-> r]
        /\ paths = [r \in Ranks |-> {}]
        /\ todo = [r \in Ranks |-> {}]
        /\ exitfail = [r \in Ranks |-> TRUE]
        /\ earlier = {}

\* A user starts the next run: main() up to run_processing_driver().
StartRun ==
    /\ Idle
    /\ run < MaxRuns
    /\ run' = run + 1
    /\ skip' \in BOOLEAN
    /\ wanted' \in IF OutputsMayChange THEN (SUBSET OutputFiles) \ {{}} ELSE {OutputFiles}
    /\ pc' = [r \in Ranks |-> "loop"]
    /\ next' = [r \in Ranks |-> r]
    /\ paths' = [r \in Ranks |-> {}]
    /\ todo' = [r \in Ranks |-> {}]
    /\ exitfail' = [r \in Ranks |-> TRUE]
    /\ earlier' = {f \in Partitions \X OutputFiles : file[f[1]][f[2]] = "complete"}
    /\ UNCHANGED file

\* run_per_file_driver(): a partition without an input file.
NoInput(r) ==
    /\ pc[r] = "loop"
    /\ next[r] \in Partitions \ Present
    /\ NextPartition(r)
    /\ UNCHANGED <<file, skip, wanted, run, pc, paths, todo, exitfail, earlier>>

\* claim_and_process_partition() with --skip: all of the output exists.
SkipDone(r) ==
    /\ AtPartition(r)
    /\ skip
    /\ Existing(next[r]) = wanted
    /\ NextPartition(r)
    /\ UNCHANGED <<file, skip, wanted, run, pc, paths, todo, exitfail, earlier>>

\* Mistakes: the paths are not recorded before the claim; existing output is
\* overwritten in spite of --skip.
StartClaimUnrecorded(r) ==
    /\ AtPartition(r)
    /\ skip => Existing(next[r]) = {}
    /\ Goto(r, "claim")
    /\ todo' = [todo EXCEPT ![r] = wanted]
    /\ UNCHANGED <<file, skip, wanted, run, next, paths, exitfail, earlier>>

StartClaimAnyway(r) ==
    /\ AtPartition(r)
    /\ paths' = [paths EXCEPT ![r] = wanted]
    /\ Goto(r, "claim")
    /\ todo' = [todo EXCEPT ![r] = wanted]
    /\ UNCHANGED <<file, skip, wanted, run, next, exitfail, earlier>>

\* Without --skip, or with no output there: current_output_paths is set and
\* claim_current_output_paths() begins.  With some of the output there, --skip
\* is a fatal error; the paths stay set.
StartClaim(r) ==
    /\ AtPartition(r)
    /\ skip => Existing(next[r]) # wanted
    /\ paths' = [paths EXCEPT ![r] = wanted]
    /\ IF skip /\ Existing(next[r]) # {}
       THEN Goto(r, "exit") /\ UNCHANGED todo
       ELSE Goto(r, "claim") /\ todo' = [todo EXCEPT ![r] = wanted]
    /\ UNCHANGED <<file, skip, wanted, run, next, exitfail, earlier>>

\* fopen(path, "w") on the next path: the file exists and is empty.
ClaimFile(r) ==
    /\ pc[r] = "claim"
    /\ todo[r] # {}
    /\ file' = [file EXCEPT ![next[r]][Min(todo[r])] = "partial"]
    /\ todo' = [todo EXCEPT ![r] = @ \ {Min(@)}]
    /\ UNCHANGED <<skip, wanted, run, pc, next, paths, exitfail, earlier>>

\* process_partition(): open the partition, create its files anew, process and
\* save all of its units.
ProcessUnits(r) ==
    /\ pc[r] = "claim"
    /\ todo[r] = {}
    /\ Goto(r, "process")
    /\ todo' = [todo EXCEPT ![r] = wanted]
    /\ UNCHANGED <<file, skip, wanted, run, next, paths, exitfail, earlier>>

\* finalize_halo_file(), flush_hdf5_buffers(): one file is whole and closed.
FinalizeFile(r) ==
    /\ pc[r] = "process"
    /\ todo[r] # {}
    /\ file' = [file EXCEPT ![next[r]][Min(todo[r])] = "complete"]
    /\ todo' = [todo EXCEPT ![r] = @ \ {Min(@)}]
    /\ UNCHANGED <<skip, wanted, run, pc, next, paths, exitfail, earlier>>

\* close_partition(), and the partition is no longer in progress.
ClosePartition(r) ==
    /\ pc[r] = "process"
    /\ todo[r] = {}
    /\ paths' = [paths EXCEPT ![r] = {}]
    /\ Goto(r, "loop")
    /\ NextPartition(r)
    /\ UNCHANGED <<file, skip, wanted, run, todo, exitfail, earlier>>

EndLoop(r) ==
    /\ pc[r] = "loop"
    /\ next[r] >= NPartitions
    /\ Goto(r, "barrier")
    /\ UNCHANGED <<file, skip, wanted, run, next, paths, todo, exitfail, earlier>>

\* A mistake: no barrier.
NoBarrier ==
    /\ \E r \in Ranks : pc[r] = "barrier" /\ Goto(r, "output")
    /\ UNCHANGED <<file, skip, wanted, run, next, paths, todo, exitfail, earlier>>

\* MPI_Barrier(MPI_COMM_WORLD)
Barrier ==
    /\ \A r \in Ranks : pc[r] = "barrier"
    /\ pc' = [r \in Ranks |-> "output"]
    /\ UNCHANGED <<file, skip, wanted, run, next, paths, todo, exitfail, earlier>>

\* The master file (rank 0, HDF5) and the clean-up at the end of main().
FinishRun(r) ==
    /\ pc[r] = "output"
    /\ Goto(r, "exit")
    /\ exitfail' = [exitfail EXCEPT ![r] = FALSE]
    /\ UNCHANGED <<file, skip, wanted, run, next, paths, todo, earlier>>

\* FATAL_ERROR: input that cannot be read, a full disk, a module that fails,
\* the CPU time limit.  exit(1) leads to the exit handler.
Fail(r) ==
    /\ pc[r] \in {"loop", "claim", "process", "output"}
    /\ Goto(r, "exit")
    /\ UNCHANGED <<file, skip, wanted, run, next, paths, todo, exitfail, earlier>>

\* bye(): MPI_Finalize, then tree_driver_remove_incomplete_outputs().
Bye(r) ==
    /\ pc[r] = "exit"
    /\ FinalizeWaits => \A s \in Ranks : pc[s] \in {"exit", "off"}
    /\ IF exitfail[r] /\ paths[r] # {}
       THEN file' = [file EXCEPT ![next[r]] =
                        [n \in OutputFiles |-> IF n \in paths[r] THEN "absent" ELSE @[n]]]
       ELSE UNCHANGED file
    /\ Goto(r, "off")
    /\ paths' = [paths EXCEPT ![r] = {}]
    /\ UNCHANGED <<skip, wanted, run, next, todo, exitfail, earlier>>

\* Ranks that wait at the barrier for one that is gone.
Stranded == /\ \E r \in Ranks : pc[r] = "off"
            /\ \A r \in Ranks : pc[r] \in {"off", "barrier"}

\* The launcher or the batch system kills what is left of the job; without
\* JobMayBeKilled only a job that cannot go on.
Kill ==
    /\ ~Idle
    /\ JobMayBeKilled \/ Stranded
    /\ pc' = [r \in Ranks |-> "off"]
    /\ paths' = [r \in Ranks |-> {}]
    /\ UNCHANGED <<file, skip, wanted, run, next, todo, exitfail, earlier>>

Step(r) == \/ NoInput(r)
           \/ SkipDone(r)
           \/ StartClaim(r)
           \/ ClaimFile(r)
           \/ ProcessUnits(r)
           \/ FinalizeFile(r)
           \/ ClosePartition(r)
           \/ EndLoop(r)
           \/ FinishRun(r)
           \/ Bye(r)

Next == \/ StartRun
        \/ \E r \in Ranks : Step(r) \/ Fail(r)
        \/ Barrier
        \/ Kill

Spec == Init /\ [][Next]_vars

\* The ranks run; nobody has to start or to kill a job.
FairSpec == /\ Spec
            /\ \A r \in Ranks : WF_vars(Step(r))
            /\ WF_vars(Barrier)

-----------------------------------------------------------------------------

\* The type invariant: the loop of a rank ends at the first partition of its
\* own past the last one, and it only works on files the run asks for.
TypeOK ==
    /\ file \in [Partitions -> [OutputFiles -> {"absent", "partial", "complete"}]]
    /\ skip \in BOOLEAN
    /\ wanted \in SUBSET OutputFiles
    /\ run \in 0 .. MaxRuns
    /\ pc \in [Ranks -> {"off", "loop", "claim", "process", "barrier", "output", "exit"}]
    /\ next \in [Ranks -> 0 .. NPartitions + NTask - 1]
    /\ paths \in [Ranks -> SUBSET wanted]
    /\ todo \in [Ranks -> SUBSET wanted]
    /\ exitfail \in [Ranks -> BOOLEAN]
    /\ earlier \subseteq Partitions \X OutputFiles

\* The partition a rank has claimed and not closed.
InProgress(p) == \E r \in Ranks : next[r] = p /\ paths[r] # {}

AllOf(p, content) == \A n \in wanted : file[p][n] = content

\* Whatever fails and whenever, the output of a partition nobody works on is
\* there as a whole or not at all.
WholePartitions ==
    /\ TypeOK
    /\ \A p \in Partitions :
          InProgress(p) \/ AllOf(p, "absent") \/ AllOf(p, "complete")

\* A run with --skip leaves finished output of earlier runs in place, however
\* it ends: none of it is truncated, replaced or removed.
SkipKeepsComplete ==
    skip => \A f \in earlier : file[f[1]][f[2]] = "complete"

\* What is in a finished partition's place is its whole output, old or new.
OutputsWhole == WholePartitions /\ SkipKeepsComplete

\* No rank gets past the barrier, to the master file or to a successful exit,
\* before all output of all partitions is complete; so a run that was resumed
\* with --skip and succeeds leaves no incomplete file among complete ones.
CompleteAtBarrier ==
    \A r \in Ranks :
        pc[r] = "output" \/ (pc[r] = "exit" /\ ~exitfail[r]) =>
            \A p \in Present : AllOf(p, "complete")

\* A failed run leaves no partial output: a rank that fails while it has a
\* partition in progress gets to the end of its exit handler.
FailureCleansUp ==
    \A r \in Ranks : (pc[r] = "exit" /\ exitfail[r] /\ paths[r] # {}) ~> (pc[r] = "off")
=============================================================================
