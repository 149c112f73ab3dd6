-------------------------- MODULE ConvertPipeline ---------------------------
(***************************************************************************)
(* The Consistent-Trees converter as a pipeline over one work directory:   *)
(* scatter, sort, fixups, links, write and report are separate commands,   *)
(* each of which resumes from manifest.json.  A user calls them in any     *)
(* order, a process may be killed between any two of its steps, and the    *)
(* inputs may change between calls (a source file even during one).        *)
(*                                                                         *)
(* The content of a file is the set of what it was computed from: an       *)
(* input, its version, and the snapshot of the rows; its md5 is its        *)
(* content.  The rows of a source at a snapshot stay together, and what    *)
(* the stages compute from them is in ConvertLinks.                        *)
(***************************************************************************)
EXTENDS Naturals, FiniteSets, FiniteSetsExt

CONSTANTS Sources,        \* the ctrees tree files
          LastSnap,       \* the a_list has the snapshots 0 .. LastSnap
          RowsAt,         \* RowsAt[f]: the snapshots with rows in source f
          Joined,         \* snapshots with a halo that has a descendant
          ForestsAt,      \* ForestsAt[s]: the forests with halos at s
          PoolSize,       \* worker processes of the scatter
          MaxCrashes,     \* bound on killed processes
          MaxEdits,       \* bound on changed inputs and files
          Gone,           \* no such file
          NotOwned,       \* no intermediate of the manifest
          Removed         \* an intermediate the manifest records as removed

Snaps    == 0 .. LastSnap
Metadata == {"a_list", "forests_list", "simulation_info"}
Inputs   == Sources \cup Metadata
Versions == 1 .. MaxEdits + 1
Populated == UNION {RowsAt[f] : f \in Sources}
Forests  == UNION {ForestsAt[s] : s \in Snaps}

\* Files of the work directory, by kind, snapshot and source.
PerWorker   == {"worker"} \X Snaps \X Sources
PerSource   == {"roots", "forest_max_src"} \X {0} \X Sources
PerSnapshot == {"snap", "sorted", "idx", "fixed", "pending", "links", "h5"} \X Snaps \X {"-"}
Tables      == {"forest_max", "forest_index", "forests_h5"} \X {0} \X {"-"}
Files       == PerWorker \cup PerSource \cup PerSnapshot \cup Tables

Worker(s, f) == <<"worker", s, f>>
Of(kind, s)  == <<kind, s, "-">>
Sidecar(kind, f) == <<kind, 0, f>>

\* The content of a file that a killed process left half-written, and of one
\* that was only opened for writing.
Torn     == {<<"torn", 0, 0>>}
\* The content of a file that somebody else has written.
Foreign  == {<<"foreign", 0, 0>>}
Contents == (SUBSET (Inputs \X Versions \X Snaps)) \cup {Torn, Foreign}

ASSUME PipelineAssumption ==
    /\ Sources \cap Metadata = {} /\ IsFiniteSet(Sources) /\ Sources # {}
    /\ LastSnap \in Nat /\ PoolSize \in Nat \ {0}
    /\ MaxCrashes \in Nat /\ MaxEdits \in Nat
    /\ \A marker \in {Gone, NotOwned, Removed} : marker \notin Contents
    /\ Gone # NotOwned /\ Gone # Removed /\ NotOwned # Removed
    /\ RowsAt \in [Sources -> SUBSET Snaps] /\ Populated # {}
    /\ \A s \in Joined : s \in Populated /\ s + 1 \in Populated
    /\ \A s \in Snaps : ForestsAt[s] # {} <=> s \in Populated

Statuses == <<"none", "concatenated", "sorted", "fixed", "linked">>
Status   == {Statuses[k] : k \in DOMAIN Statuses}

VARIABLES world,    \* the current version of each input
          disk,     \* the content of each file
          man,      \* manifest.json
          mem,      \* the manifest in the memory of the running command
          pc,       \* the command that runs, its step, the snapshots left
          task,     \* the scatter of each source file
          last,     \* the command called last and how it ended
          crashes, edits, tampered

faults == <<crashes, edits, tampered>>
vars   == <<world, disk, man, mem, pc, task, last, faults>>

NoManifest ==
    [exists   |-> FALSE,
     done     |-> [f \in Sources |-> 0],      \* "completed", of which version
     owned    |-> [x \in Files |-> NotOwned], \* the md5 of an intermediate
     status   |-> [s \in Snaps |-> "none"],
     bound    |-> [i \in Metadata |-> 0],     \* provenance
     identity |-> {},                         \* "links": the forests ranked
     output   |-> [x \in Files |-> NotOwned], \* the md5 of an emitted file
     emitted  |-> FALSE]                      \* "outputs_dir"

None == [cmd |-> "none", how |-> "running"]
Idle == [cmd |-> "none", step |-> "idle", todo |-> {}]
Unscattered == [f \in Sources |-> [st |-> "no", version |-> 0]]

Init == /\ world = [i \in Inputs |-> 1]
        /\ disk = [x \in Files |-> Gone]
        /\ man = NoManifest /\ mem = NoManifest
        /\ pc = Idle /\ task = Unscattered
        /\ last = None
        /\ crashes = 0 /\ edits = 0 /\ tampered = FALSE

Entered(m)  == {s \in Snaps : m.status[s] # "none"}
AtLeast(m, s, st) == \E j, k \in DOMAIN Statuses :
                        j >= k /\ Statuses[j] = m.status[s] /\ Statuses[k] = st
At == Min(pc.todo)

\* verify_intermediate(): owned, there, and as it was registered.
Verified(x) == disk[x] # Gone /\ disk[x] = mem.owned[x]

\* register_intermediate() of files that now have these contents.
Register(m, new) == [m EXCEPT !.owned = [x \in Files |-> IF x \in DOMAIN new THEN new[x] ELSE @[x]]]

Written(new) == [x \in Files |-> IF x \in DOMAIN new THEN new[x] ELSE disk[x]]

\* One file, with this content.
Just(x, content) == [y \in {x} |-> content]

Goto(step) == pc' = [pc EXCEPT !.step = step]

\* Manifest.save(): os.replace() makes it atomic.
Save == man' = [mem EXCEPT !.exists = TRUE] /\ mem' = man'

Finish(how) == /\ pc' = Idle /\ task' = Unscattered
               /\ last' = [cmd |-> pc.cmd, how |-> how]

\* On to the next snapshot, or the step after the loop.
NextSnapshot(loop, after) ==
    LET rest == pc.todo \ {At}
    IN  pc' = [pc EXCEPT !.todo = rest, !.step = IF rest = {} THEN after ELSE loop]

\* ConverterError: nothing in memory survives.
Refuse == /\ Finish("error")
          /\ mem' = man
          /\ UNCHANGED <<world, man, faults>>

-----------------------------------------------------------------------------
(* Calling a command: Manifest.load_or_create() and the checks up front,    *)
(* which leave everything as it is when they refuse.                        *)

Called == /\ pc = Idle
          /\ last' = None
          /\ UNCHANGED <<world, disk, faults>>

Enter(cmd, step, todo) == pc' = [cmd |-> cmd, step |-> step, todo |-> todo]

\* The metadata is that of the manifest, where the manifest has it.
BoundTo(names) == \A i \in names : man.bound[i] = world[i]
Binds(names)   == \A i \in names : man.bound[i] \in {0, world[i]}

Pending == {f \in Sources : man.done[f] # world[f]}

\* A mistake: changed sources are scattered again whatever was made of them.
ScatterAcceptedAlways == Binds(Metadata)

ScatterAccepted == Binds(Metadata) /\ (Pending = {} \/ Entered(man) = {})

CallScatter ==
    /\ Called
    /\ ScatterAccepted
    /\ mem' = [man EXCEPT !.bound = [i \in Metadata |-> world[i]]]
    /\ task' = [f \in Sources |-> [st |-> IF f \in Pending THEN "queued" ELSE "recorded",
                                   version |-> 0]]
    /\ Enter("scatter", "pool", {})
    /\ UNCHANGED man

\* sort, for all snapshots of the manifest or for one (--snapshot).
CallSort ==
    /\ Called
    /\ man.exists
    /\ mem' = man
    /\ \E todo \in {Entered(man)} \cup {{s} : s \in Snaps} :
          todo # {} /\ Enter("sort", "sort", todo)
    /\ UNCHANGED <<man, task>>

FixupsAccepted == /\ man.exists
                  /\ BoundTo({"a_list"}) /\ Binds({"simulation_info"})

CallFixups ==
    /\ Called
    /\ FixupsAccepted
    /\ mem' = [man EXCEPT !.bound["simulation_info"] = world["simulation_info"]]
    /\ \E todo \in {Entered(man)} \cup {{s} : s \in Snaps} :
          todo # {} /\ Enter("fixups", "bind", todo)
    /\ UNCHANGED <<man, task>>

LinksAccepted == /\ man.exists
                 /\ Entered(man) # {}
                 /\ \A s \in Entered(man) : AtLeast(man, s, "fixed")

CallLinks ==
    /\ Called
    /\ LinksAccepted
    /\ mem' = man
    /\ Enter("links", "identity", Entered(man))
    /\ UNCHANGED <<man, task>>

\* A mistake: the outputs are emitted with whatever metadata is there now.
WriteAcceptedUnbound == /\ man.identity # {}
                        /\ Entered(man) # {}
                        /\ \A s \in Entered(man) : man.status[s] = "linked"

WriteAccepted == /\ man.exists
                 /\ BoundTo({"a_list", "simulation_info"})
                 /\ man.identity # {}
                 /\ Entered(man) # {}
                 /\ \A s \in Entered(man) : man.status[s] = "linked"

CallWrite ==
    /\ Called
    /\ WriteAccepted
    /\ mem' = man
    /\ Enter("write", "emit", Snaps)
    /\ UNCHANGED <<man, task>>

-----------------------------------------------------------------------------
(* scatter: one task per pending source file, in a pool.                    *)

Scattering == pc.step = "pool" /\ UNCHANGED <<world, man, last, faults>>
InFlight   == {f \in Sources : task[f].st \in {"reading", "parsed"}}

\* The pre-scan of a source file, and its worker files opened anew; without a
\* pool the previous result is recorded first.
StartSource(f) ==
    /\ Scattering
    /\ task[f].st = "queued"
    /\ Cardinality(IF PoolSize = 1 THEN InFlight
                   ELSE {g \in Sources : task[g].st = "reading"}) < PoolSize
    /\ task' = [task EXCEPT ![f] = [st |-> "reading", version |-> world[f]]]
    /\ disk' = Written([x \in {Worker(s, f) : s \in RowsAt[f]} |-> Torn])
    /\ UNCHANGED <<mem, pc>>

ForestMap == {<<"forests_list", mem.bound["forests_list"], 0>>}
RowsOf(f, s, version) == {<<f, version, s>>} \cup ForestMap

\* The pandas pass, provided the file is still the one that was pre-scanned.
FinishSource(f) ==
    /\ Scattering
    /\ task[f].st = "reading"
    /\ world[f] = task[f].version
    /\ task' = [task EXCEPT ![f].st = "parsed"]
    /\ disk' = Written([x \in {Worker(s, f) : s \in RowsAt[f]} |-> RowsOf(f, x[2], task[f].version)])
    /\ UNCHANGED <<mem, pc>>

\* The error of a worker ends the whole pool.
SourceChanged ==
    /\ pc.step = "pool"
    /\ \E f \in Sources : task[f].st = "reading" /\ world[f] # task[f].version
    /\ Refuse
    /\ UNCHANGED disk

\* What record() adds to the manifest for a scattered file.
Recorded(f) ==
    [Register(mem, [x \in {Worker(s, f) : s \in RowsAt[f]}
                          \cup {Sidecar("roots", f), Sidecar("forest_max_src", f)} |->
                       RowsOf(f, x[2], task[f].version)])
        EXCEPT !.done[f] = task[f].version, !.exists = TRUE]

\* record(), in the order the results come in; it ends with a save.
RecordSource(f) ==
    /\ pc.step = "pool"
    /\ task[f].st = "parsed"
    /\ disk' = Written([x \in {Sidecar("roots", f), Sidecar("forest_max_src", f)} |->
                           RowsOf(f, 0, task[f].version)])
    /\ mem' = Recorded(f) /\ man' = mem'
    /\ task' = [task EXCEPT ![f].st = "recorded"]
    /\ UNCHANGED <<world, pc, last, faults>>

-----------------------------------------------------------------------------
(* _finalize_scatter(): the tables, then snapshot after snapshot.           *)

Steps(step) == pc.step = step /\ UNCHANGED <<world, task, last, faults>>

TableContent(kind) ==
    IF kind = "forest_max" THEN UNION {mem.owned[Sidecar("forest_max_src", f)] : f \in Sources}
                           ELSE ForestMap

\* write_table_once(): a registered table is verified and kept.
FinalizeTables ==
    /\ Steps("pool")
    /\ \A f \in Sources : task[f].st = "recorded"
    /\ \A f \in Sources : Verified(Sidecar("roots", f)) /\ Verified(Sidecar("forest_max_src", f))
    /\ LET fresh == {k \in {"forest_max", "forest_index"} : mem.owned[Of(k, 0)] = NotOwned}
           new   == [x \in {Of(k, 0) : k \in fresh} |-> TableContent(x[1])]
       IN  /\ \A k \in {"forest_max", "forest_index"} \ fresh : Verified(Of(k, 0))
           /\ disk' = Written(new)
           /\ mem' = Register(mem, new)
    /\ pc' = [pc EXCEPT !.step = "concat", !.todo = Populated]
    /\ UNCHANGED man

\* The source files with rows at s, and their worker files.
PartsOf(s)   == {f \in Sources : s \in RowsAt[f]}
WorkersOf(s) == {Worker(s, f) : f \in PartsOf(s)}

\* A mistake: the unsorted file is missed once sort has removed it.
SkipNeedsUnsorted(s) == {Of("snap", s)}

\* What each status of a snapshot is trusted for when it is skipped.
SkipNeeds(s) ==
    CASE mem.status[s] = "concatenated" -> {Of("snap", s)}
      [] mem.status[s] = "sorted"       -> {Of("sorted", s), Of("idx", s)}
      [] mem.status[s] = "fixed"        -> {Of("sorted", s), Of("idx", s), Of("fixed", s)}
      [] OTHER                          -> {}

\* A mistake: the later stages are forgotten.
KnownToScatterOnly(s) == mem.status[s] = "concatenated"

KnownToScatter(s) == mem.status[s] \in {"concatenated", "sorted", "fixed"}

\* A snapshot of an earlier call: verified, then its workers are cleaned up.
SkipConcat ==
    /\ Steps("concat")
    /\ KnownToScatter(At)
    /\ \A x \in SkipNeeds(At) : Verified(x)
    /\ Goto("cleanup")
    /\ UNCHANGED <<disk, man, mem>>

\* open(target, "wb"), before anything is verified.
OpenTarget ==
    /\ Steps("concat")
    /\ ~KnownToScatter(At)
    /\ disk' = Written(Just(Of("snap", At), Torn))
    /\ Goto("concat_parts")
    /\ UNCHANGED <<man, mem>>

Concatenate ==
    /\ Steps("concat_parts")
    /\ \A x \in WorkersOf(At) : Verified(x)
    /\ LET new == Just(Of("snap", At), UNION {disk[x] : x \in WorkersOf(At)})
       IN  /\ disk' = Written(new)
           /\ mem' = [Register(mem, new) EXCEPT !.status[At] = "concatenated"]
    /\ Goto("save_concat")
    /\ UNCHANGED man

\* A mistake: the snapshot is saved only when its workers have been removed.
SaveConcatLater == Steps("save_concat") /\ Goto("cleanup") /\ UNCHANGED <<disk, man, mem>>

SaveConcat == Steps("save_concat") /\ Save /\ Goto("cleanup") /\ UNCHANGED disk

\* The worker files that remove_intermediate() or _retry_worker_cleanup() has
\* still to do.
Leftover(S) == {x \in S : mem.owned[x] \notin {NotOwned, Removed}}

\* One worker file at a time; one that is gone already is only recorded.
RemoveWorker ==
    /\ Steps("cleanup")
    /\ \E x \in Leftover(WorkersOf(At)) :
          /\ disk[x] \in {Gone, mem.owned[x]}
          /\ disk' = Written(Just(x, Gone))
          /\ mem' = Register(mem, Just(x, Removed))
    /\ UNCHANGED <<man, pc>>

SaveCleanup ==
    /\ Steps("cleanup")
    /\ Leftover(WorkersOf(At)) = {}
    /\ Save
    /\ NextSnapshot("concat", "done")
    /\ UNCHANGED disk

ScatterRefuses ==
    /\ \/ /\ pc.step = "pool"
          /\ \A f \in Sources : task[f].st = "recorded"
          /\ \/ \E f \in Sources : ~Verified(Sidecar("roots", f))
             \/ \E f \in Sources : ~Verified(Sidecar("forest_max_src", f))
             \/ \E k \in {"forest_max", "forest_index"} :
                   mem.owned[Of(k, 0)] # NotOwned /\ ~Verified(Of(k, 0))
       \/ /\ pc.step = "concat"
          /\ KnownToScatter(At)
          /\ \E x \in SkipNeeds(At) : ~Verified(x)
       \/ /\ pc.step = "concat_parts"
          /\ \E x \in WorkersOf(At) : ~Verified(x)
       \/ /\ pc.step = "cleanup"
          /\ \E x \in Leftover(WorkersOf(At)) : disk[x] \notin {Gone, mem.owned[x]}
    /\ Refuse
    /\ UNCHANGED disk

-----------------------------------------------------------------------------
(* sort_one_snapshot()                                                      *)

SkipSort ==
    /\ Steps("sort")
    /\ mem.status[At] \in {"sorted", "fixed"}
    /\ \A x \in SkipNeeds(At) : Verified(x)
    /\ Goto("unsorted")
    /\ UNCHANGED <<disk, man, mem>>

SortSnapshot ==
    /\ Steps("sort")
    /\ mem.status[At] = "concatenated"
    /\ Verified(Of("snap", At))
    /\ LET new == [x \in {Of("sorted", At), Of("idx", At)} |-> disk[Of("snap", At)]]
       IN  /\ disk' = Written(new)
           /\ mem' = [Register(mem, new) EXCEPT !.status[At] = "sorted"]
    /\ Goto("save_sort")
    /\ UNCHANGED man

SaveSort == Steps("save_sort") /\ Save /\ Goto("unsorted") /\ UNCHANGED disk

\* The unsorted file goes, at once or when a later call retries it.
RemoveUnsorted ==
    /\ Steps("unsorted")
    /\ Leftover({Of("snap", At)}) # {}
    /\ disk[Of("snap", At)] \in {Gone, mem.owned[Of("snap", At)]}
    /\ disk' = Written(Just(Of("snap", At), Gone))
    /\ mem' = Register(mem, Just(Of("snap", At), Removed))
    /\ UNCHANGED <<man, pc>>

SaveUnsorted ==
    /\ Steps("unsorted")
    /\ Leftover({Of("snap", At)}) = {}
    /\ Save
    /\ NextSnapshot("sort", "done")
    /\ UNCHANGED disk

SortRefuses ==
    /\ \/ /\ pc.step = "sort"
          /\ \/ mem.status[At] \in {"none", "linked"}
             \/ mem.status[At] = "concatenated" /\ ~Verified(Of("snap", At))
             \/ /\ mem.status[At] \in {"sorted", "fixed"}
                /\ \E x \in SkipNeeds(At) : ~Verified(x)
       \/ /\ pc.step = "unsorted"
          /\ Leftover({Of("snap", At)}) # {}
          /\ disk[Of("snap", At)] \notin {Gone, mem.owned[Of("snap", At)]}
    /\ Refuse
    /\ UNCHANGED disk

-----------------------------------------------------------------------------
(* run_fixups(), fix_one_snapshot()                                         *)

\* The particle mass is bound, if scatter was not given it, and saved.
BindSimulationInfo ==
    /\ Steps("bind")
    /\ Save
    /\ Goto("tables")
    /\ UNCHANGED disk

LoadForestMax ==
    /\ Steps("tables")
    /\ Verified(Of("forest_max", 0))
    /\ Goto("fix")
    /\ UNCHANGED <<disk, man, mem>>

SkipFix ==
    /\ Steps("fix")
    /\ mem.status[At] = "fixed"
    /\ Verified(Of("fixed", At))
    /\ NextSnapshot("fix", "done")
    /\ UNCHANGED <<disk, man, mem>>

FixSnapshot ==
    /\ Steps("fix")
    /\ mem.status[At] = "sorted"
    /\ Verified(Of("sorted", At))
    /\ LET new == Just(Of("fixed", At),
                       disk[Of("sorted", At)]
                       \cup {<<i, mem.bound[i], 0>> : i \in {"a_list", "simulation_info"}})
       IN  /\ disk' = Written(new)
           /\ mem' = [Register(mem, new) EXCEPT !.status[At] = "fixed"]
    /\ Goto("save_fix")
    /\ UNCHANGED man

SaveFix == Steps("save_fix") /\ Save /\ NextSnapshot("fix", "done") /\ UNCHANGED disk

FixRefuses ==
    /\ \/ pc.step = "tables" /\ ~Verified(Of("forest_max", 0))
       \/ /\ pc.step = "fix"
          /\ \/ mem.status[At] \notin {"sorted", "fixed"}
             \/ mem.status[At] = "sorted" /\ ~Verified(Of("sorted", At))
             \/ mem.status[At] = "fixed" /\ ~Verified(Of("fixed", At))
    /\ Refuse
    /\ UNCHANGED disk

-----------------------------------------------------------------------------
(* run_links(), compute_identity(), link_one_snapshot()                     *)

\* A mistake: nobody compares the forests that have halos with the table.
IdentityHoldsAnyway ==
    Verified(Of("forest_index", 0)) /\ \A s \in Entered(mem) : Verified(Of("fixed", s))

\* Every forest of the table has halos in the snapshots that there are.
IdentityHolds ==
    /\ Verified(Of("forest_index", 0))
    /\ \A s \in Entered(mem) : Verified(Of("fixed", s))
    /\ UNION {ForestsAt[s] : s \in Entered(mem)} = Forests
    /\ mem.identity \in {{}, Entered(mem)}

ComputeIdentity ==
    /\ Steps("identity")
    /\ IdentityHolds
    /\ mem' = [mem EXCEPT !.identity = Entered(mem), !.exists = TRUE]
    /\ man' = mem'
    /\ Goto("link")
    /\ UNCHANGED disk

SkipLinks ==
    /\ Steps("link")
    /\ mem.status[At] = "linked"
    /\ Verified(Of("links", At))
    /\ NextSnapshot("link", "done")
    /\ UNCHANGED <<disk, man, mem>>

NextEntered == At + 1 \in Entered(mem)
PrevEntered == At > 0 /\ At - 1 \in Entered(mem)

\* The ids of the next snapshot, where it has any, must hold every descendant;
\* the first progenitors come from the link step of the snapshot before.
Linkable == /\ Verified(Of("fixed", At))
            /\ NextEntered => Verified(Of("idx", At + 1))
            /\ At \in Joined => NextEntered
            /\ PrevEntered => Verified(Of("pending", At))

\* What the links of this snapshot, and the first progenitors handed to the
\* next one, are computed from.
LinkInputs == UNION {disk[x] : x \in {Of("fixed", s) : s \in Entered(mem)}
                                     \cup {Of("forest_index", 0)}
                                     \cup {Of("idx", s) : s \in {At + 1} \cap Entered(mem)}
                                     \cup {Of("pending", s) : s \in IF PrevEntered THEN {At} ELSE {}}}

\* One save records the pending buffer, the links and the status.
LinkSnapshot ==
    /\ Steps("link")
    /\ mem.status[At] # "linked"
    /\ Linkable
    /\ LET pending == {Of("pending", s) : s \in {At + 1} \cap Entered(mem)}
           new == [x \in pending \cup {Of("links", At)} |-> LinkInputs]
       IN  /\ disk' = Written(new)
           /\ mem' = [Register(mem, new) EXCEPT !.status[At] = "linked"]
    /\ Goto("save_link")
    /\ UNCHANGED man

SaveLinks == Steps("save_link") /\ Save /\ NextSnapshot("link", "done") /\ UNCHANGED disk

LinksRefuse ==
    /\ \/ pc.step = "identity" /\ ~IdentityHolds
       \/ pc.step = "link" /\ mem.status[At] = "linked" /\ ~Verified(Of("links", At))
       \/ pc.step = "link" /\ mem.status[At] # "linked" /\ ~Linkable
    /\ Refuse
    /\ UNCHANGED disk

-----------------------------------------------------------------------------
(* run_write(), write_forests_sidecar()                                     *)

\* _skip_trust_output()
Emitted(x)   == mem.output[x] # NotOwned /\ disk[x] = mem.output[x]
Tampered(x)  == mem.output[x] # NotOwned /\ disk[x] \notin {Gone, mem.output[x]}

SkipOutput ==
    /\ Steps("emit")
    /\ Emitted(Of("h5", At))
    /\ NextSnapshot("emit", "sidecar")
    /\ UNCHANGED <<disk, man, mem>>

\* Every snapshot of the a_list gets a file, if an empty one; a temporary file
\* replaces it.
EmitSnapshot ==
    /\ Steps("emit")
    /\ ~Emitted(Of("h5", At)) /\ ~Tampered(Of("h5", At))
    /\ At \in Entered(mem) => Verified(Of("fixed", At)) /\ Verified(Of("links", At))
    /\ disk' = Written(Just(Of("h5", At),
                   {<<i, world[i], 0>> : i \in {"a_list", "simulation_info"}}
                   \cup UNION {disk[x] : x \in IF At \in Entered(mem)
                                                THEN {Of("fixed", At), Of("links", At)} ELSE {}}))
    /\ Goto("record_output")
    /\ UNCHANGED <<man, mem>>

\* _record_output(), which saves.
RecordOutput ==
    /\ Steps("record_output")
    /\ mem' = [mem EXCEPT !.output[Of("h5", At)] = disk[Of("h5", At)], !.exists = TRUE]
    /\ man' = mem'
    /\ NextSnapshot("emit", "sidecar")
    /\ UNCHANGED disk

EmitSidecar ==
    /\ Steps("sidecar")
    /\ Verified(Of("forest_index", 0))
    /\ ~Emitted(Of("forests_h5", 0)) /\ ~Tampered(Of("forests_h5", 0))
    /\ disk' = Written(Just(Of("forests_h5", 0), disk[Of("forest_index", 0)]))
    /\ mem' = [mem EXCEPT !.output[Of("forests_h5", 0)] = disk[Of("forest_index", 0)]]
    /\ man' = mem'
    /\ Goto("save_write")

SkipSidecar ==
    /\ Steps("sidecar")
    /\ Verified(Of("forest_index", 0))
    /\ Emitted(Of("forests_h5", 0))
    /\ Goto("save_write")
    /\ UNCHANGED <<disk, man, mem>>

\* outputs_dir, and the last save.
SaveWrite ==
    /\ Steps("save_write")
    /\ mem' = [mem EXCEPT !.emitted = TRUE]
    /\ man' = mem'
    /\ Goto("done")
    /\ UNCHANGED disk

WriteRefuses ==
    /\ \/ /\ pc.step = "emit"
          /\ \/ Tampered(Of("h5", At))
             \/ /\ ~Emitted(Of("h5", At)) /\ At \in Entered(mem)
                /\ ~(Verified(Of("fixed", At)) /\ Verified(Of("links", At)))
       \/ /\ pc.step = "sidecar"
          /\ ~Verified(Of("forest_index", 0)) \/ Tampered(Of("forests_h5", 0))
    /\ Refuse
    /\ UNCHANGED disk

\* The battery of validate.py, where it is about the files of the dataset: the
\* file set, the a_list and the checksums of the manifest, the rows of every
\* source; its other checks are in ConvertLinks.
EmittedRows(s) == {r \in disk[Of("h5", s)] : r[1] \in Sources /\ r[3] = s}

DatasetFiles == {Of("h5", s) : s \in Snaps} \cup {Of("forests_h5", 0)}

BoundToManifest ==
    /\ BoundTo({"a_list"})
    /\ \A x \in DatasetFiles : disk[x] = man.output[x]

\* The number of rows of each source was counted before it was parsed.
RowsConserved ==
    Cardinality(UNION {EmittedRows(s) : s \in Snaps}) =
    Cardinality({k \in Sources \X Snaps : man.done[k[1]] # 0 /\ k[2] \in RowsAt[k[1]]})

ValidationPasses == /\ \A x \in DatasetFiles : disk[x] # Gone
                    /\ BoundToManifest
                    /\ RowsConserved

\* report; it only reads what the other commands work on.
CallReport ==
    /\ pc = Idle
    /\ last' = [cmd |-> "report",
                how |-> IF man.emitted /\ ValidationPasses THEN "ok" ELSE "error"]
    /\ UNCHANGED <<world, disk, man, mem, pc, task, faults>>

\* The end of a command that met no error.
Done == /\ pc.step = "done"
        /\ Finish("ok")
        /\ mem' = man
        /\ UNCHANGED <<world, disk, man, faults>>

-----------------------------------------------------------------------------
(* What the program does not decide.                                        *)

\* The files that the next step of the command would write.
BeingWritten ==
    CASE pc.step = "pool" ->
             (UNION {{Worker(s, f) : s \in RowsAt[f]} :
                         f \in {g \in Sources : task[g].st = "reading"}})
             \cup (UNION {{Sidecar("roots", f), Sidecar("forest_max_src", f)} :
                              f \in {g \in Sources : task[g].st = "parsed"}})
      [] pc.step = "concat_parts" -> {Of("snap", At)}
      [] pc.step = "sort" /\ mem.status[At] = "concatenated" -> {Of("sorted", At), Of("idx", At)}
      [] pc.step = "fix" /\ mem.status[At] = "sorted" -> {Of("fixed", At)}
      [] pc.step = "link" /\ mem.status[At] = "fixed" ->
             {Of("links", At)} \cup {Of("pending", s) : s \in {At + 1} \cap Snaps}
      [] OTHER -> {}

\* The process is killed: its memory is lost, a file it wrote may be torn.
Crash ==
    /\ pc # Idle
    /\ crashes < MaxCrashes
    /\ crashes' = crashes + 1
    /\ \E torn \in {{}, BeingWritten} : disk' = Written([x \in torn |-> Torn])
    /\ Finish("killed")
    /\ mem' = man
    /\ UNCHANGED <<world, man, edits, tampered>>

Edits == /\ edits < MaxEdits
         /\ edits' = edits + 1
         /\ UNCHANGED <<man, mem, pc, task, last, crashes>>

\* A source file changes at any time, metadata only between commands.
EditInput ==
    /\ Edits
    /\ \E i \in Inputs : /\ i \in Sources \/ pc = Idle
                         /\ world' = [world EXCEPT ![i] = @ + 1]
    /\ UNCHANGED <<disk, tampered>>

\* Files for which it matters whether they are gone or no longer the same: the
\* cleanup and the emission forgive a missing file, and no changed one.
Overwritable == PerWorker \cup DatasetFiles \cup {Of("snap", s) : s \in Snaps}

\* Somebody takes away or overwrites a file of the work directory.
Tamper ==
    /\ Edits
    /\ pc = Idle
    /\ tampered' = TRUE
    /\ \E x \in Files : /\ disk[x] # Gone
                        /\ \/ disk' = Written(Just(x, Gone))
                           \/ x \in Overwritable /\ disk' = Written(Just(x, Foreign))
    /\ UNCHANGED world

Scatter == \/ \E f \in Sources : StartSource(f) \/ FinishSource(f) \/ RecordSource(f)
           \/ SourceChanged \/ FinalizeTables \/ SkipConcat \/ OpenTarget
           \/ Concatenate \/ SaveConcat \/ RemoveWorker \/ SaveCleanup \/ ScatterRefuses
Sort    == SkipSort \/ SortSnapshot \/ SaveSort \/ RemoveUnsorted \/ SaveUnsorted \/ SortRefuses
Fixups  == BindSimulationInfo \/ LoadForestMax \/ SkipFix \/ FixSnapshot \/ SaveFix \/ FixRefuses
Link    == ComputeIdentity \/ SkipLinks \/ LinkSnapshot \/ SaveLinks \/ LinksRefuse
Write   == SkipOutput \/ EmitSnapshot \/ RecordOutput \/ EmitSidecar \/ SkipSidecar
           \/ SaveWrite \/ WriteRefuses

Working == Scatter \/ Sort \/ Fixups \/ Link \/ Write \/ Done
Calls   == CallScatter \/ CallSort \/ CallFixups \/ CallLinks \/ CallWrite

Next == Working \/ Calls \/ CallReport \/ Crash \/ EditInput \/ Tamper

Spec == Init /\ [][Next]_vars

\* A command that is not killed goes on, and a user who wants the dataset
\* calls again each command that would be accepted.
FairSpec == /\ Spec
            /\ WF_vars(Working)
            /\ SF_vars(CallScatter)
            /\ SF_vars(CallSort /\ pc'.todo = Entered(man))
            /\ SF_vars(CallFixups /\ pc'.todo = Entered(man))
            /\ SF_vars(CallLinks)
            /\ SF_vars(CallWrite)

Manifests == [exists : BOOLEAN, done : [Sources -> {0} \cup Versions],
              owned : [Files -> Contents \cup {NotOwned, Removed}],
              status : [Snaps -> Status], bound : [Metadata -> {0} \cup Versions],
              identity : SUBSET Snaps, output : [Files -> Contents \cup {NotOwned}],
              emitted : BOOLEAN]

TypeOK ==
    /\ world \in [Inputs -> Versions]
    /\ disk \in [Files -> Contents \cup {Gone}]
    /\ man \in Manifests /\ mem \in Manifests
    /\ pc.todo \subseteq Snaps
    /\ task \in [Sources -> [st : {"no", "queued", "reading", "parsed", "recorded"},
                             version : {0} \cup Versions]]
    /\ last.how \in {"ok", "error", "killed", "running"}
    /\ crashes \in 0 .. MaxCrashes /\ edits \in 0 .. MaxEdits
-----------------------------------------------------------------------------
(* What the manifest is for. *)

RowsRecorded(s) == {<<f, man.done[f], s>> : f \in PartsOf(s)}

\* The files that a resumed run with the manifest m leads to.
Relied(m, s) ==
    CASE m.status[s] = "none" -> {Worker(s, f) : f \in {g \in PartsOf(s) : m.done[g] = world[g]}}
      [] m.status[s] = "concatenated" -> {Of("snap", s)}
      [] m.status[s] = "sorted" -> {Of("sorted", s), Of("idx", s)}
      [] m.status[s] = "fixed"  -> {Of("sorted", s), Of("idx", s), Of("fixed", s)}
      [] m.status[s] = "linked" -> {Of("idx", s), Of("fixed", s), Of("links", s)}
                                   \cup {Of("pending", t) : t \in {s + 1} \cap Entered(m)}

\* Whenever no command runs, and however the last one ended, all that is left
\* of the rows is where the manifest says and as it says.
ManifestIsTrue ==
    /\ TypeOK
    /\ pc = Idle /\ ~tampered =>
          \A s \in Snaps : \A x \in Relied(man, s) : disk[x] # Gone /\ disk[x] = man.owned[x]

\* No row is lost or taken twice on the way: what a snapshot has become was
\* computed from all of its sources, each in the version recorded for it.
RowsComplete ==
    \A s \in Snaps : \A kind \in {"snap", "sorted", "fixed"} :
        LET content == man.owned[Of(kind, s)]
        IN  content \notin {NotOwned, Removed} =>
                {r \in content : r[1] \in Sources} = RowsRecorded(s)

\* Emitted files never hold what somebody else wrote and never mix two versions
\* of an input, not even across calls between which the inputs changed.
OneConversion ==
    LET emitted == UNION {man.output[x] : x \in {y \in Files : man.output[y] # NotOwned}}
    IN  \A r, q \in emitted : /\ r[1] = q[1] => r[2] = q[2]
                              /\ r \notin Torn \cup Foreign

\* No snapshot that has rows is emitted as an empty one because its scatter was
\* cut short; and a dataset that the report passes is that of the conversion.
WrittenIsWhole ==
    /\ \A s \in Populated : man.output[Of("h5", s)] # NotOwned =>
          RowsRecorded(s) \subseteq man.output[Of("h5", s)]
    /\ last = [cmd |-> "report", how |-> "ok"] /\ ~tampered =>
          \A s \in Snaps : EmittedRows(s) = RowsRecorded(s)

\* Input in which a gap shows: when the scatter stopped after some of the
\* populated snapshots, then a forest or a descendant is missing.
EveryGapShows ==
    \A e \in SUBSET Populated :
        /\ e # {} /\ e # Populated
        /\ \A s \in e, t \in Populated : t < s => t \in e
        => \/ UNION {ForestsAt[s] : s \in e} # Forests
           \/ \E s \in e \cap Joined : s + 1 \notin e

\* From the sources to the emitted files no row is lost.
NoRowLost == RowsComplete /\ WrittenIsWhole

\* No command takes a snapshot back to an earlier stage.
NeverMovesBack ==
    [][\A s \in Snaps : AtLeast(man', s, man.status[s])]_vars

AllWritten == \A x \in {Of("h5", s) : s \in Snaps} \cup {Of("forests_h5", 0)} :
                  disk[x] # Gone /\ disk[x] = man.output[x]

\* Killed as often as the bound allows, the conversion is completed by calling
\* the commands again.
ConvertsInTheEnd == [](edits = 0) => <>AllWritten

\* "the stage resumes per snapshot" (links.py:39): with every populated snapshot
\* fixed and no input changed, links ends without an error.
LinkStageResumes ==
    last = [cmd |-> "links", how |-> "error"] /\ edits = 0 =>
        \E s \in Populated : ~AtLeast(man, s, "fixed")
=============================================================================
