# Verification of the Mimic core

TLA+ modules, TLC configurations and TLAPS proofs for Mimic: the C core that
turns merger trees into galaxies (`src/`), the merger machinery of its default
model (`models/sage16/`), the converter that produces its input
(`scripts/convert/`), the generators that produce part of its source
(`scripts/generate_*.py`), and the JAX formulation of the same model
(`mimic_jax/`). Paths are relative to the repository root.

## 1. The system

Mimic turns dark-matter merger trees into galaxy catalogues. One process (or
one MPI rank) works through *partitions* (input files or output chunks); a
partition is a list of *units* (trees or forests); a unit is an array of halos
with link arrays. Galaxies flow along the links from early to late snapshots,
FoF group by FoF group, and each group is evolved by a configured pipeline of
physics modules.

| Component | State it keeps | Operations | What is hard |
| --- | --- | --- | --- |
| Tree traversal (`core/build_model.c`, `core/tree_driver.c:230`) | `HaloAux[].DoneFlag`, `.HaloFlag`, the C call stack | `build_halo_tree` and its two walks, depth check | mutual recursion of progenitor and FoF walks over shared flags |
| Inheritance (`core/inheritance.c`, `build_model.c:183-430`) | `FoFWorkspace`, `HaloAux[].FirstHalo/NHalos` | gather, type transitions, new galaxies, local centrals | every slice needs exactly one central; indices go stale |
| Marshalling (`core/output_buffer.c`) | `ProcessedHalos` | copy live objects, stamp `SnapNum` | Type 3 objects must not survive |
| Module registry (`core/module_registry.c`) | pipeline tables, per-phase event buffer | phases, substeps, event emission and dispatch | immediate dispatch inside a producer, bounded buffer |
| Merger clock and resolver (`models/sage16/...`) | `MergTime`, `Type` | clock initialisation; merge/disrupt in workspace order | targets that were consumed earlier in the same pass |
| Partition driver (`core/tree_driver.c`, `core/main.c`) | output files, `current_output_paths`, `exitfail` | claim, process, finalize, `--skip`, exit handler, barrier | failures anywhere, restarts, several ranks in one directory |
| Output writers (`io/output/`) | per-snapshot files, counters, HDF5 buffers | create, save, finalize, master file | headers written last; links to files of other ranks |
| Link reconstruction (`io/tree/ctrees/`) | halo and id arrays | FoF chains, descendants, progenitor chains | everything above relies on the links |
| Chunk planner (`io/tree/chunk_plan.c`) | chunk list, task loads | greedy boundaries, LPT assignment | every rank must compute the same answer |
| Galaxy pool, memory (`core/galaxy_pool.c`, `util/memory.c`) | chunk list, block table | alloc, reset, destroy, leak check | reuse of stale chunks |
| Readers (`io/tree`, `io/snapshot`) | open partition, input arrays | open, load, close | file formats |
| Tree converter (`scripts/convert/`) | work directory, `manifest.json`, emitted dataset | scatter, sort, fixups, links, write, report, each a command | killed between any two writes, inputs that change, commands in any order, a pool of workers |
| Converter's link rules (`fixups.py`, `links.py`) | tables of rows | flyby, host and progenitor rules; the validation battery | a second implementation of the link reconstruction, on tables instead of arrays |
| Code generators (`generate_properties.py`, `generate_module_registry.py`, `check_generated.py`, `Makefile`) | generated C files, saved hashes | hash, load, validate, write; check | one set of generated files for all selections; edits and kills between two files |
| JAX group interval (`mimic_jax/sage16/group_evolve.py`, `evolve.py`, `processes/`) | one array of records per FoF group | infall, reincorporation, seven processes per member, merger scan | each process writes two records, which may be the same one; masks instead of branches |
| JAX partition driver (`mimic_jax/sage16/tree_evolve.py`, `tree_sensitivity.py`) | galaxies by halo, shape buckets, tangents | gather, bucket, pad, run, marshal | results come back out of order and with padding; tangents live in arrays beside the states |
| Other physics modules, `sham`, `halos-only` | reservoirs of one object | floating-point prescriptions | numerics, not control |

How they interact: `main()` calls `run_processing_driver()`, which loops over
partitions. For each it claims the output files, then loads each unit, walks it
with `build_halo_tree`, saves `ProcessedHalos` and frees the unit. Evolving a
group gathers galaxies out of `ProcessedHalos` into `FoFWorkspace`, runs
`execute_module_pipeline()` over them and marshals the survivors back. Within a
rank everything is sequential. Ranks share only the output directory and meet at
one barrier before rank 0 writes the master file. A fatal error anywhere is
`exit(1)`, which runs the `atexit` handler `bye()`.

Before that, a user calls the converter's commands, one process each; they meet
only in the work directory and its manifest. `make` runs the two generators and
then compiles; they meet the C core in the generated files, of which there is
one set for all models, simulations and build kinds. The JAX formulation is a
second program on the same trees: a Python driver gathers the groups of a
snapshot, hands them to a compiled kernel in batches of one shape, and marshals
what comes back.

What makes each component correct:

- traversal: each group evolved exactly once, after every group it inherits
  from; the recursion ends and its depth is bounded by snapshots;
- inheritance and resolver: one central per slice, no galaxy duplicated, no
  mass counted twice, orphans gone by the end of the step, clocks only on
  satellites, indices that lead where they should;
- link reconstruction: links built from sound rows are the trees the traversal
  assumes, in any order of ids and masses; sound rows are never refused;
- phases and events: the calls are those the developer guide promises, events
  are heard before their producer goes on, nobody sees an event that is not its
  own;
- chunks and ranks: chunks tile the forests and keep to the budget; ranks that
  do not talk process every forest once between them;
- galaxy pool: a slot is handed out once per unit, and memory is bounded by the
  largest unit;
- partition driver: output of a partition whole or absent, finished output
  never touched under `--skip`, nothing incomplete past the barrier, a failed
  run cleans up;
- converter: whatever was killed or changed in between, the manifest leads to
  files that are there and whole, no row is lost or taken twice, a dataset is of
  one version of its inputs, no snapshot falls back, and a user who repeats
  the commands gets the dataset;
- converter's link rules: the tree that the C code would have built, and a
  battery that accepts it and nothing else;
- generators: a build uses the files of its own selection, the record is
  described and assigned in full and in the declared units, events reach those
  who subscribed, and the check of generated files means what it says;
- JAX interval: no reservoir below zero, baryons and metals in balance with the
  declared sources and sinks, no success that left an orphan unresolved, dead
  slots left alone;
- JAX partition: batches, shapes and padding change nothing, every galaxy has
  one owner and is gathered as the C code gathers it, tangents stay with their
  galaxies, every group is evolved once and in time.

## 2. Modules

| Module | Models | Kind |
| --- | --- | --- |
| `MergerTree` | a unit of input: chains as sequences; what well-formed links are | data |
| `FoFSchedule` | what the traversal promises: an order of evolution | abstract specification |
| `TreeBuild` | `build_halo_tree` as a machine with an explicit stack, and the driver's loop | state machine |
| `TreeBuildProofs` | theorems about `TreeBuild` | proofs |
| `MC_TreeBuild` | all trees of `NumHalos` halos | model values |
| `LinkBuild` | `fix_flybys`, `fix_upid`, `assign_mergertree_indices`: from ids to links | state machine |
| `MC_LinkBuild` | sound and broken catalogues of four halos | model values |
| `GalaxyFlow` | gather, inheritance, clock, resolver, marshalling | state machine |
| `MC_GalaxyFlow` | all trees over a layout of halos on snapshots | model values |
| `PhaseExecution` | validation of the pipeline, phases, modules, events | state machine |
| `MC_PhaseExecution` | three modules and every phase of up to four entries | model values |
| `GalaxyPool` | the chunked pool of galaxies | state machine |
| `GalaxyProofs` | theorems about `GalaxyFlow` and `GalaxyPool` | proofs |
| `ChunkPlan` | the greedy planner of output chunks | variables and actions |
| `EnumeratedDriver` | the planner, and ranks that assign and process its chunks | state machine |
| `EnumeratedDriverProofs` | theorems about the plan, the ranks and their shares | proofs |
| `PartitionDriver` | ranks, files, runs, failures, exit handler, barrier | state machine |
| `PartitionDriverProofs` | theorems about output files and the barrier | proofs |
| `NumberFacts` | least elements, remainders, powers, sums over finite sets, sequences laid end to end | lemmas |
| `ConvertLinks` | the converter's link rules and its battery of checks | definitions on top of `LinkBuild` |
| `ConvertPipeline` | the converter's commands over one work directory | state machine |
| `ConvertPipelineProofs` | theorems about the work directory of the converter | proofs |
| `MC_ConvertPipeline` | two tree files over three snapshots | model values |
| `Reservoirs` | the processes of the JAX sage16 model as maps between reservoirs | definitions |
| `GroupBaryons` | one FoF group through one snapshot interval | state machine |
| `MC_GroupBaryons` | groups of two and three members | model values |
| `JaxPartition` | the JAX partition driver and its linearized form | state machine |
| `JaxGather` | the gather of `JaxPartition` against that of `GalaxyFlow` | definitions |
| `MC_JaxPartition` | partitions of two trees with every batch setting | model values |
| `JaxProofs` | theorems about `GroupBaryons` and `JaxPartition` | proofs |
| `PropertySchema` | property metadata, what is refused, and the C files made of it | definitions |
| `ModuleMetadata` | module metadata, its numbering and the files made of it | definitions |
| `GeneratedCode` | make, its two generators and `check-generated` | state machine |
| `MC_GeneratedCode` | selections, properties, modules and edits | model values |
| `RegistryProofs` | theorems about `PhaseExecution` and `GeneratedCode` | proofs |
| `Subsequences` | the elements of a sequence that are picked out, in order | definitions |

How they fit. `LinkBuild` ends in a tree of `MergerTree` and checks it against
`WellFormed`, the assumption of `TreeBuild` and `GalaxyFlow`. `TreeBuild`
implements `FoFSchedule`, and `GalaxyFlow` takes its groups in an order
`FoFSchedule` allows. `PhaseExecution` is the engine that calls the merger clock
and the resolver of `GalaxyFlow`; there modules are black boxes. `EnumeratedDriver`
extends `ChunkPlan` and says which rank processes what; `PartitionDriver` says what
happens to the files of a partition once a rank claims it.

`ConvertLinks` extends `LinkBuild`: at the end of every run of the C functions it
compares the converter's tree with theirs. `ConvertPipeline` is what happens to
the files around it. `JaxGather` extends `JaxPartition`, instantiates `GalaxyFlow` and
compares the two gathers at every group; the kernel of `JaxPartition` is a black box,
whose steps are `GroupBaryons`.
`GeneratedCode` extends `PropertySchema` and `ModuleMetadata`; the event numbers it
is about are those that `PhaseExecution` dispatches by.

### TreeBuild

`tree` is the unit; `doneFlag` and `haloFlag` are the two fields of `HaloAux`;
`stack` holds a frame per active call (the halo, the loop it is in, and the
positions of its chain walks); `halonr` is the driver's index. One action per
piece of the function: `DriverStep` (the loop of `process_partition`),
`VisitOwn` (one progenitor in the first loop), `ClaimGroup` (the test of
`HaloFlag == 0`), `VisitGroup` and `NextMember` (the second loop),
`EvolveGroup` and `Return` (the test of `HaloFlag == 1`), `DriverFinish`.
`Enter` is the entry of a call: depth check, then `DoneFlag`. In the code
`HaloFlag` becomes 2 just before the group is gathered; nothing can observe the
difference, because gathering and evolving call nothing that recurses.

The link arrays are read-only while a unit is processed, so a chain is the
sequence its walk visits. `WellFormed` states what the readers deliver:
progenitors in earlier snapshots, FoF chains that start at the central and stay
in one group and snapshot, one descendant per halo.

### LinkBuild

`forest` holds the rows as read; `order` is the array, which the three functions
sort in place, and a position in it is what the links hold; `pid` and `upid` are
the fields of `info[]` that are rewritten. `FixFlybys` is `fix_flybys()`;
`SortById`, `SkipCentral`, `ResolveHost` and `HostNotFound` are `fix_upid()`, with
`find_fof_halo()` as the recursive function `FindFofHalo` (its linear search ahead
or behind included); `Locate`, `Track` and `Retry` are the loop that follows a
failed search; `SortByGroup`, `StartGroup`, `JoinGroup` and `NoGroup` build the FoF
chains; `NoDescendant`, `LinkDescendant` and `DescendantNotFound` the descendants
and progenitor chains (`Insert`). Error returns are `Fail`. The three sorts are
total orders, because ids are unique.

Abstractions. A scale is its snapshot. `pid` and `upid` start out equal: of `pid`
only the test for -1 is read before it is overwritten. `SoundHosts` says what a
halo finder promises: every satellite leads, in its own snapshot and within the
depth limit, to a central.

### GalaxyFlow

Groups are evolved in any order `FoFSchedule` allows (`Gather` is guarded by
`Needs(tree, f) \subseteq evolved`); that the recursion keeps to this order is
theorem `ImplementsSchedule`. A galaxy is a record of id, host halo, type,
`CentralHalo` index, clock state, `SnapNum` and the set of galaxies whose mass
it holds. `Gather` builds the workspace slice by slice, with every fatal error
on that path; `InitialiseMergerClock` is the clock module; `SkipObject`,
`Survive` and `Consume` are one iteration of the resolver's loop; `EndPass` is
the substep loop; `Marshal` writes the live objects back.

Abstractions. The clock is unset, running or run out; how long it runs is a
choice. Whether a satellite is eligible is a choice (`Survive` or `Consume`),
except for an orphan in the last substep, whose interpolated halo mass is
exactly zero: there the code leaves no choice (`MustGo`). A disruption drops the
satellite's black-hole mass, by design; `holds` follows the other reservoirs.
Assumed: positive particle counts (`LenAssumption`), non-negative baryon masses,
finite clocks, lookback times that decrease with the snapshot.

### PhaseExecution

`pipeline` is the sequence of phases in execution order, with the substeps
unrolled. `Accept` and `Reject` are the configuration checks of
`module_system_init()`. Within a phase `pc` says where the engine is: in the
full-halo loop, in a module, in `dispatch_events_range()`, in the galaxy loop. `m`,
`g`, `cursor` and `consumer` are the loop indices. `Emit` is `module_emit_event()`
when nothing refuses the event; it starts a dispatch inside the producer, and
`EndDispatch` returns to it. `FullHaloReturns` includes the second dispatch that
follows every full-halo module. `Consume` is a module that turns a galaxy into a
Type 3 object. `ModuleFails` is a process() that returns an error. `calls` is a
history of the process() calls of the phase. `CallsAsPromised` says which calls the
phase owes (`PromisedCalls`), in which order (`CallsInOrder`), and that an event's
subscribers are called while its producer is the last full-halo module called
(`HeardAtOnce`), as `docs/DEVELOPER-GUIDE.md:391` describes.

A module that emits may do so at any time, any number of times, for any galaxy.
A call that the emission test, the producer test or the full buffer refuses
changes nothing and is no step.

### GalaxyPool

`used` is the fill of every chunk of the list, `current` the position of
`PoolCurrent`. The four `Alloc...` actions are the branches of
`galaxy_pool_alloc()`; `Reset` rewinds the first chunk only. `handed` and `largest`
are histories: the slots given to the unit, and the most any unit held.

### ChunkPlan and EnumeratedDriver

`ChunkPlan` has the fields of `ChunkPlanBuilder` and one action per call: `AddForest`
(one turn of the loop over forests) and `FinishPlan`. It has no specification of
its own: `EnumeratedDriver` lets the planner run first (`MakePlan`) and then every
rank on its own: `Sort` and `Assign` are `chunk_plan_assign_lpt()`, `StartProcessing`
and `ProcessPartition` the loop of `run_enumerated_driver()`. `Sort` may return any
permutation that the comparison does not contradict, which is all `qsort()`
promises; so the agreement of the ranks is a consequence, not an assumption. One
plan stands for the plans of all ranks: the planner is a function of the input,
which all read.

Sizes and costs are whole numbers (the code has doubles). Of the HDF5 reader's
pricing schemes the two linear ones are modelled; `ascii` prices every chunk 1.0.

### PartitionDriver

A behaviour is a sequence of runs into one directory. `file[p][n]` is absent,
partial or complete: a claim creates an empty (partial) file, finalizing makes
it complete. Each rank has a program counter, its partition, the paths it has in
progress (`current_output_paths`) and the files left to claim or finalize.
`Fail` is FATAL_ERROR at any point of the driver; `Bye` is the exit handler.
Three switches describe the environment and are off in the passing run:
`JobMayBeKilled` (a signal nobody handles), `OutputsMayChange` (the list of
output snapshots is edited between runs), `FinalizeWaits` (MPI_Finalize
synchronises). `Kill` is always possible when ranks wait at the barrier for one
that is gone: something outside has to end such a job. `earlier` is a history
variable: the files that were complete when the run began.

### ConvertLinks

`FlybysFixed` and `HostsFixed` are the flyby and host passes of `fixups.py`,
`ProgenitorChain` the rule of `links.py` (mass, then main-progenitor id, then row),
`Converts` the errors that stop the two, `Dataset` the emitted link columns.
`BatteryPasses` is the part of `validate.py` that looks at links; `Damaged` are the
datasets that differ from a sound one in one link, so that `BatteryIsExact` says
both that the battery accepts what the rules make and that it refuses the rest.

### ConvertPipeline

`world` has the current version of each input, `disk` the content of every file of
the work directory, `man` the manifest on disk, `mem` the manifest of the process
that runs, `pc` its command, step and remaining snapshots, `task` the scatter of
each source file. The content of a file is the set of (input, version, snapshot)
triples it was computed from, and its md5 is its content: so a file that mixes two
versions, lacks a source or was cut off is told apart from a good one, and
nothing else is. `Gone`, `NotOwned` and `Removed` stand where there is no content (no
such file, no md5, an intermediate recorded as removed); `PipelineAssumption` asks that
they are none. `Relied(m, s)` are the files of a snapshot that a command resuming from
the manifest `m` would read. One action per step that touches disk: `CallScatter`, `CallSort`,
`CallFixups`, `CallLinks`, `CallWrite` and `CallReport` are the commands with their checks up
front; `StartSource`, `FinishSource`, `RecordSource`, `SourceChanged` the pool of the
scatter, `FinalizeTables` to `SaveCleanup` its concatenation; `Skip...`, `...Snapshot` and
`Save...` the later stages; `...Refuse(s)` their `ConverterError`s. `Crash` kills the
process between any two of these and may tear the files being written; `EditInput`
changes a source file, during the scatter too, or a metadata file between
commands; `Tamper` removes or overwrites a file of the work directory. `MaxCrashes`
and `MaxEdits` bound these; nothing else is counted.

### Reservoirs and GroupBaryons

Masses and metals are whole quanta. What the physics computes (rates,
efficiencies, thresholds) is a choice within what the code's own caps leave; what
the code does with it, in which order and to which record, is the definition.
`gal`, `type` and `halo` are the arrays of the group; `step`, `k` and `pc` the loops of
`evolve_upstream_sequential_group_final`. `Prepare` is the budget and the clocks,
`ApplyInfall` and `Reincorporate` act on the central, `Strip`, `CoolAndFormStars`,
`DestabiliseAndBurst` and `Enrich` are the pipeline of a member, and the merger scan
is `SkipSource`, `FailSource`, `PassSource`, `FailTarget`, `Disrupt` and `Merge`, the last
followed by its consumers `ConsumeMerger`, `FollowUp`, `Settle`. `Commit` is the rule by which a process
writes its galaxy and the central. `account` is what the diagnostics declare:
the baryons and metals the live members should have. It is `intact` until an event
takes a consumed record for its target, which is finding 1 in the JAX
formulation as well; the ledgers are claimed up to there. `Groups` are the workspaces
an interval may start from: `GroupsAssumption` asks for one central and non-negative
reservoirs, and leaves the links of the halos open, so that a source may find no
target (`FailTarget`). A satellite that is new at the first snapshot has no substep and
is no source (`skip_initial`); `SuccessMeansResolved` leaves it out.

Left out: the numbers themselves, the adaptive and reduced variants, and the
derivatives (except through `JaxPartition`).

### JaxPartition

`buckets` are the groups of a snapshot by padded member count, `batch` the results
waiting to be marshalled, `processed` the galaxies by halo, `records` the catalogue.
`PrepareGroup` is `_prepare_group` with its errors and the discarding of the
progenitors; `RunBatch` pads the groups with Type 3 slots and the batch with
copies of its last group; `MarshalGroup` is `_marshal_group`. The kernel is
abstracted to who is consumed and to which groups a state depends on; a tangent
is the same set kept in the arrays beside the states, so a tangent at a wrong
index differs from its state's. `TreeEvolution` is `evolve_lhalo_tree`, the reference.

`JaxGather` has what compares the gather with the C program's: `OneOwner`, and
`GatherIsUpstreams`, which instantiates `GalaxyFlow` for every tree of the call.

Assumed: well-formed trees and settings the function accepts (`JobsAssumption`), and
positive particle counts (`LenAssumption`), as for `GalaxyFlow`: the host among the
progenitors, when the first is empty, is sought with `Len > 0` (`tree_evolve.py:359`), so
if the occupied ones had no particles all galaxies would arrive as orphans, and
`_prepare_group` would stop the call.

### PropertySchema, ModuleMetadata and GeneratedCode

`PropertySchema` has the metadata of a selection (core halo properties, catalog of
the simulation, galaxy properties of the model, parameter units), what the
generator refuses (`Accepted`) or raises on between two files (`RaisesIn`), and each
generated file as what it declares, assigns or lists. `ModuleMetadata` has the same
for physics modules: discovery, validation, `ProducerIds`, `EventIds`, the structs of
`module_init.c`. A generated file is its source metadata and the hash in its header.
Modules are sets: the generator sorts them by name, names are unique (`UniqueNames`), and
`Place` is the number such a list gives. A module has a name in its metadata and one on
disk (`stem`, its directory's or its file's). The generator hashes the metadata in the order
of the first (`compute_metadata_hash`), `check-generated` in that of the second
(`compute_module_metadata_hash`); `Hashed` keeps the texts and which of them comes before
which. The two names are the same in every package of the repository, and
`scripts/validate_modules.py` asks for that (`NamedAsOnDisk`), but neither the generator
nor the check does. Properties stay in the order of their files,
since the record has that order.

`MetadataAssumption` says what the files of the repository are like. Part of it is not
validated by the generator: `RolesArePlain`, a field named as a core role provides that
role, and the fields for `SnapNum` and `Len` have no unit. All catalogs are so. For a
catalog that is not, the getter of the role would read another field than the one whose
unit was validated, or a unit that nothing converts.

`GeneratedCode` is make: `Start`, `HashProperties`, `LoadProperties`, `WriteProperties`,
`SaveProperties`, `LoadModules`, `HashModules`, `WriteModules`, `MissModules`, `SaveModules`, `Compile`,
`Return`;
`Check` is `check-generated`, `Clean` is `make clean`; `Edit` adds or takes back a property
or a module, also between two readings of a running generator; `Kill` ends a
generator and may leave a file empty or cut off. `MissModules` is a module file that cannot
be written: the module generator only reports it, writes the others, saves the hash all
the same and then stops make, where the property generator raises at once (there `Kill`
stands for it). `torn` says that a generator began to write and has not written all its files
since, `Raced` that an edit fell between its two readings.

Facts about this code that the model keeps: the module generator loads before it
hashes, so that an edit in between leaves the old content under the new hash, but a
module that has come in between is not hashed and one that has gone no longer (`StillThere`);
a model whose module metadata is a copy of another's keeps the other's
`module_sources.txt`; the hash of `check-generated` leaves the test properties out, so
it passes only for production files; a galaxy property with an `output_source` meant for
halos, and a halo property with `galaxy_property` or `custom`, is accepted and never assigned
by the generated code. Two of the edits of `MC_GeneratedCode` are so (a galaxy property with
`copy_direct`, a halo property with `custom`), and `RecordAgrees` claims an assignment only for
the others. The two generators write
disjoint files, so their order under `make -j` makes no difference. Time stamps are not
modelled: make is taken to rebuild what changed.

### Mutations

Next to some definitions stands a mutated form of it ("A mistake"): the change
a plausible bug would make. Nothing uses them in the specifications. Each
property was seen to fail when the definition is replaced by its mutated form;
`PROJECT.json` pairs them.

## 3. Runs

| Run | Checks | Result |
| --- | --- | --- |
| `tree_build` | `IInv`, `FatalOnlyIfDeep`, `EvolvesInOrder`, `ScheduleSpec` (refinement), `Ends` (liveness) | holds, 382,350 states |
| `galaxy_flow` | `CentralsFound`, `CountedOnce`, `CarriedOver`, `LossNeedsDeadHost` | holds, 1,821,483 states |
| `merger_ledger` | `MergersConserveLedger` | violated (finding 1) |
| `partition_driver` | `OutputsWhole`, `CompleteAtBarrier` | holds, 21,544 states |
| `link_build` | `LinksAreRight`, `ConverterAgrees`, `BatteryIsExact`, `SoundRowsEnd` (liveness) | holds, 701,340 states |
| `convert_pipeline` | `ManifestIsTrue`, `NoRowLost`, `OneConversion`, `NeverMovesBack`, `ConvertsInTheEnd` (liveness) | holds, 407,115 states |
| `phase_execution` | `EventsInTurn`, `CallsAsPromised` | holds, 5,043,340 states |
| `galaxy_pool` | `NoSharedSlot`, `SizedByLargest` | holds, 170 states |
| `enumerated_driver` | `Contiguous`, `PlanHolds`, `EveryForestOnce`, `NearBestDivision` | holds, 746,118 states |
| `group_baryons` | `ReservoirsSound`, `LedgersBalance`, `SuccessMeansResolved`, `DeadStayAsTheyAre` | holds, 2,915,190 states |
| `jax_partition` | `BatchingIsNeutral`, `GatheredOnce`, `TangentsFollow`, `EveryGroupOnce` | holds, 378,048 states |
| `generated_code` | `BuildIsSelected`, `RecordAgrees`, `HeardAsDeclared`, `CheckIsHonest` | holds, 4,279,557 states |

A property is a conjunction where several facts answer one question; the parts
are named in the modules: `CentralsFound` is `NeverFatal` and `OrphansEndHere`,
`OutputsWhole` is `WholePartitions` and `SkipKeepsComplete`, `NoRowLost` is
`RowsComplete` and `WrittenIsWhole`, `LedgersBalance` is `BaryonsBalance` and `MetalsBalance`,
`GatheredOnce` is `OneOwner` and `GatherIsUpstreams`, `EventsInTurn` is `HeardBeforeGoingOn` and
`ActiveEventIsOwn`.

Bounds and why they are enough.

- `tree_build`: all trees of 4 halos over 4 snapshots, in any index order and
  with chains in either order. Four halos give a chain as deep as there are
  snapshots, two groups that feed one, and a group whose second member has a
  progenitor outside the group's history (the case the second walk exists for).
  `MaxTreeDepth` is 2, so that the chain of four exceeds it and nothing else
  does. The proofs cover all other sizes.
- `galaxy_flow`: 6 halos, 2 per snapshot, 3 snapshots, 2 substeps. Three
  snapshots are needed for a galaxy to fall in, be promoted and fall in again;
  two substeps separate "eligible now" from "must go in the last".
- `merger_ledger`: 5 halos on 2 snapshots: the smallest layout with a subhalo
  that inherits two galaxies beside an FoF central.
- `partition_driver`: 2 ranks, 4 partitions (so one rank has two with a gap in
  between), 2 files each, 3 runs (write, fail, resume). `MaxRuns` is the only
  counter bound.
- `link_build`: 4 halos on 2 snapshots, two masses, so that
  masses can tie; any groups without links, any links with at most one satellite
  (one missing descendant), and any hosts at all, broken ones included. Four halos
  give three progenitors of one halo in every order of masses, a chain of hosts
  within `MaxHostDepth` = 1 and one beyond it, and two centrals of the latest
  snapshot with a satellite each.
- `phase_execution`: every phase of up to 4 entries out of a producer of two
  events, a module that both produces and listens in any mode, and a listener
  with two modes; 2 substeps (a phase that follows another must not see its
  events), 2 galaxies, 3 events in the buffer, so that it fills up.
- `galaxy_pool`: chunks of 2, units of up to 7 galaxies, 4 units: enough for a
  large unit, a small one and a large one again. `MaxGalaxies` and `MaxResets` are
  the counter bounds.
- `enumerated_driver`: up to 5 forests of sizes 0, 2, 3 and 4 with a budget of 3
  (empty, below, exact and over), cut by size or two by two, on 2 ranks.
  `MaxForests` is the counter bound.

- `convert_pipeline`: two source files, three snapshots (one populated by both
  sources, two by one each; a descendant between the first two), two forests, a pool
  of two workers, one kill and one changed input or file. Two sources are needed
  for one to be recorded and the other not; three snapshots for a link step that
  both takes first progenitors from the snapshot before and hands some on.
- `group_baryons`: groups of two and three members of every live type with
  reservoirs of 0 to 2 quanta, two substeps, one quantum of metals per quantum of
  stars, clocks that have run out and that outlast the interval, a threshold of one
  half so that mass ratios fall below, on and above it; a group whose link leads out
  of the workspace, and one of the first snapshot. The proofs cover all other groups.
- `jax_partition`: partitions of two trees of five halos over three snapshots, batch
  sizes 1 and 3, at most 4 members in a batch, both member binnings: batches that are
  split, full and filled up, shapes that are padded.
- `generated_code`: 5 selections of 2 models, 2 simulations and both build kinds, 11
  edits of properties and 4 of modules, 3 commands, 2 changes (edits, kills, files that
  cannot be written) of which one may hit a running command. Three commands are what it
  takes to build, build something else and come back. One edit is a module called
  otherwise than its directory.

Deadlock is checked in `convert_pipeline` and `jax_partition`. The other machines end
(a unit is finished, the last run is over, the commands are spent), and there the
configurations say `CHECK_DEADLOCK FALSE`.

Fairness. `TreeBuild!FairSpec` is weak fairness of the next-state relation: the
traversal is sequential code that never waits. The same holds for
`LinkBuild!FairSpec`: under it a run that does not end is a loop of the code. `PartitionDriver!FairSpec` is
weak fairness of every rank's steps and of the barrier; nobody is obliged to
start or to kill a job. `ConvertPipeline!FairSpec` is weak fairness of the running
command, and strong fairness of each command called for all snapshots: the code
schedules nothing across commands, so the claim is about a user who keeps calling
what would be accepted. Strong, because another command may be called first.

## 4. Proofs

`TreeBuildProofs` proves, for every `NumHalos`, every set of well-formed trees
and every `MaxTreeDepth`:

- `Invariance`: `Spec => []IInv`, with one lemma per action;
- `TypeCorrect`, `DoneIsTrusted`, `NothingLeftBehind`: consequences of `IInv`;
- `EvolvesInOrderHolds`: the action property;
- `GivesUpOnDeepTrees`: `[]FatalOnlyIfDeep`;
- `ImplementsSchedule`: `Spec => ScheduleSpec`, the refinement.

Why an inductive invariant is needed: `DoneMeansEvolved` alone says nothing about
which active call will evolve a group. `IInv` adds that calls on the stack are
for strictly earlier and earlier snapshots (`StackDescends`, from "progenitors
are earlier"), what each call has already walked (`FramesOK`), that a claimed
group is held by a call (`ClaimsAreHeld`), that evolved groups rest on evolved
groups (`EvolvedClosed`) and that the driver leaves nothing behind (`DriverOK`).
The heart is lemma `ReadyToEvolve`: when a call is about to evolve its group, all
progenitors of all members are done; a done halo whose group is not evolved has
an active call; but every active call is for a snapshot at least as late as the
evolving one's, and a progenitor is earlier. So all their groups are evolved.

`GivesUpOnDeepTrees` adds `GaveUp`: where the depth check ends the program, more than
`MaxTreeDepth` calls are in progress and the progenitor in hand is earlier than all of
them. By `StackDescends` the snapshots of the calls differ, so the map from calls to
snapshots is injective, and `MaxTreeDepth + 2` snapshots are a lower bound.

Assumptions: `NumHalosAssumption`, `TreesAssumption` (well-formed links),
`DepthAssumption`. Nothing else.

`GalaxyProofs` proves, for every set of well-formed trees, any number of halos and of
substeps:

- `EveryCentralIsFound` (`[]CentralsFound`), `NothingIsCountedTwice` (`[]CountedOnce`),
  `WhatIsCarriedIsTrue` (`[]CarriedOver`), `LossesAreExplained` (`LossNeedsDeadHost`).

Groups are evolved in any order `FoFSchedule` allows, and `ProcessedHalos` keeps what was
written of every snapshot, so mass is in several galaxies of the output: in one and in
its descendants. `CountedOnce` is about one snapshot, and is not inductive. What is
inductive is `OutIsApart`: the galaxies of two halos hold nothing together, unless what
the one held can have come to the group of the other. "Can have come"
(`Before(tree, q, f)`) is the least set of groups that has the one q feeds and follows the
tree from there, written as a quantifier over all such sets, without recursion. Two facts
about it carry the proof. A group that is due has not received what is still
waiting for it (`NotYetBefore`: the evolved groups are closed under what they need), so
the progenitors of its members are apart (`WorkspaceMass`) and so are the objects of the
workspace, among themselves and from everything that waits elsewhere (`MassIsApart`). And
mass only goes to later snapshots (`BeforeIsEarlier`), so galaxies of one snapshot are
apart.

`FlowInv` has besides: `OutIsReady` (of a halo, one central or nothing is written),
`OutIsTrue` and `GroupIsDue` (only of evolved groups, whose needs are evolved), `Linkage`
(the objects of a halo are linked to one of them, which a Type 0 or 1 is itself; it
outlives the consumption of that object, which is what the redirect rests on),
`ObjectsAreTrue` (objects are of earlier snapshots, so the resolver has an interval),
`ClocksAreSet` and `OrphansAreGone` (in the last substep no orphan is left behind the loop
index). The last two make `OutIsReady` inductive: orphans end in the pass, so the
slice a halo writes has its local central or is empty. Which progenitor an object comes
from is followed through the gather step by lemmas about `FlattenSeq`: `BroughtFacts` and
`ArrivalsFacts` (one galaxy from each progenitor that has one, only the one of
`FirstOccupied` stays central), `SlicesAreGood`, `WorkspaceFacts` (each position of the
workspace is one position of one member's slice) and `OriginsFound`. There is one
lemma per action (`GatherInv` to `FinishInv`). TLC checked the parts of `FlowInv` on the
instance of `galaxy_flow` before they were proved. Assumptions: `NumHalosAssumption`,
`TreesAssumption`, `SubstepsAssumption`. `LenAssumption` is no premise of the proof; it is
what makes `FirstOccupied` the code's choice.

The same module proves about the pool, for every chunk capacity and any sequence of
units, `SlotsAreDistinct` (`[]NoSharedSlot`) and `PoolIsBounded` (`[]SizedByLargest`). Neither
is inductive: a reset leaves stale fills behind in later chunks. `PoolInv` adds
`Filled`: the n-th galaxy of a unit lies in chunk n div `Capacity`, and the fill up
to the current chunk is what was handed out. Assumption: `CapacityAssumption`.

`EnumeratedDriverProofs` proves, for every set of forest sizes, budget,
ForestsperFile, pricing and number of ranks:

- `PlanIsContiguous`: the chunks follow each other from forest 0 on without gap or
  overlap. `IInv` is `PlanTypeOK` with `Contiguous`, which also says where the chunk that
  is being filled begins; lemma `AppendChunk` is the only place where the plan grows,
  and `RanksKeepPlan` says that no rank changes it.
- `ForestsAreSharedOut` (`[]EveryForestOnce`): the ranks exchange nothing, so the proof
  has to show that they compute the same. `RankInv` compares each of them with one
  sequence of assignments: there is an order of the chunks that `Before` allows, and
  only one (`OneOrder`: the tie-break by index leaves no ties, whatever `qsort()` does
  with equal keys), there are the loads and tasks after its first 0, 1, ... chunks, and
  every rank has reached one of these steps (`OnSteps`). A rank that has assigned all
  is at the last, so finished assignments agree, no chunk is processed twice
  (`NoForestTwice`), and none is left out when all have finished (`NoForestLeft`, with
  `ChunksCover` for the forests of a chunk). That the first chunks of an order have one
  sequence of loads is not proved by induction over the sequence: `AllAgree` says that
  the steps taken so far exist, and each `Assign` adds the next or meets one that is
  there.
- `PlanIsAsPromised` (`[]PlanHolds`): the size of a chunk is the sum of its forests,
  no chunk is over the budget without need, and no division within the budget has
  fewer chunks. `Total` is a running sum, a recursive function; `SumsUpExists`,
  `TotalsAgree` and `TotalsGrow` are what has to be known of it. `Packed` says that a chunk
  fits and that with the forest after it, it would not. So every division within
  the budget begins a chunk after the start of each of ours, and not later than the
  start of the next (`CutBetween`), which makes an injection from our chunks to its
  cuts (`PackedIsFewest`).
- `DivisionIsNearBest` (`[]NearBestDivision`): Graham's bound for "longest processing time
  first". The ranks go along the steps of `ForestsAreSharedOut`, so it is enough that
  one more chunk x for the task with the least load keeps the bound (`PlacedIsGood`).
  If x costs at most a third of what the busiest task of the best division has, the
  average load before x and the total with it suffice (`SmallFits`). If x costs
  more, so do all chunks before it, and no task of the best division has three.
  Count a chunk twice if none of the others can join it there: with x, each task
  of the best division counts at most two (`CountedAtMostTwice`), and before x each of
  ours at least two if x were too much for all of them (`CountedTwice`); the first
  is less than the second (`LargeFits`). `EachHasMore` and `EachHasLess` go from what each
  task has to what all have.

Assumptions: `SizesAssumption`, `BudgetAssumption`, `TasksAssumption`.

`PartitionDriverProofs` proves, for every number of ranks and partitions, every set
of inputs that exist and any number of runs:

- `BarrierMeansComplete` (`[]CompleteAtBarrier`), if the job is not killed from outside;
- `OutputsStayWhole` (`[]OutputsWhole`), if besides every run asks for the same snapshots.

The two hypotheses are the switches of the model. They are not conveniences: with
either the properties are false, and section 5 says what the code does then.
`BarrierInv` has `InTurn` and lemma `TurnUnique` (a rank takes every `NTask`-th partition, so no
two ranks work on one), `Holdings` (what is recorded for the exit handler is all or
none of a partition's files), `PartialIsHeld` (a partial file belongs to a partition in
progress), `FinalizedSoFar`, `Behind` (what a rank has passed is complete) and
`NobodyAhead` (a rank past the barrier means that all have passed everything).
`SomebodysTurn` closes the argument: every partition is some rank's, so at the barrier
all are behind somebody. `WholeInv` adds `ClaimsAreNew`: under `--skip` a partition in
progress had no output when the run began, so what an exit handler removes was
never finished output. That is the step that fails when the list of snapshots
changes: then a partition may have some of its files.

`JaxProofs` proves, for every group that `GroupsAssumption` allows, every
number of substeps, yield, set of clocks and threshold:

- `NoReservoirRunsDry` (`[]ReservoirsSound`), `NothingIsLost` (`[]LedgersBalance`),
  `HaltIsRemembered` (`[]SuccessMeansResolved`), `PaddingIsNeutral` (`DeadStayAsTheyAre`).

The argument has three levels. A process of `Reservoirs` turns galaxies into galaxies
and brings them x baryons and z metals: `Gains` for one record, `Shares` for a galaxy and
its central, which are one record on the central's own turn (`BlownShares`,
`EnrichedShares` and `BurstShares` are where that matters). `CarriedIsThere` says that the
metals that go with gas are there. The sum
over the live members changes by what the written records change (`OneChanges`,
`OneLeaves`, `CommitBalances`), also where `Commit` writes the same record twice. The
invariant `IInv` is `LedgersBalance` with `Shape` (one central; galaxies are galaxies),
`Counters`, `Turn` (the process in progress is that of a live member, and an event's
target is live while the account is intact: else a ledger would gain mass from a
dead record) and `ClocksRun` (how often the clock of each member has run, with `Ticks`
for members the scan has passed and not; an orphan is left only before the last
substep). Without `Turn` the ledgers are not inductive, without `ClocksRun` the success
flag says nothing about earlier substeps. The start of the interval is a lemma of its
own (`ConsolidatedBalances`): ejected gas and ICS of all members are moved to the
central, which keeps the baryons and may clamp metals; the clamp is declared.

`JaxProofs` also proves, for every partition of well-formed trees, every choice of the
satellites that are consumed and every batch setting:

- `EveryTangentFollows` (`[]TangentsFollow`) and `EveryGroupIsEvolvedOnce`
  (`[]EveryGroupOnce`), from the invariant `CallInv` (lemma `CallInvariance`).

One half is about a group. `OutOK` says what a halo keeps: at most one galaxy, a central
or satellite, with the tangent of its state. From it the gather brings, halo by
halo, a slice with one local central (`ArrivalsAreASlice`, by way of `SourcedFrom`: which
progenitor each arrival is from, so that two of the main branch would be one
galaxy), and the group a task whose segments are those slices, laid end to end, with
one Type 0 first (`TaskIsOK`); hence no ValueError (`NothingRaises`). Padding only adds
Type 3 slots behind (`PaddedFacts`), so the kernel returns for each member a state
that depends on what its tangent does (`KernelResult`), and marshalling keeps of each
segment the one central or satellite (`MarshalledOK`): orphans are always consumed. That
`OutOK` is preserved is what makes the gather of the next snapshot safe.

The other half is about where a group is. `Accounted` says that the groups of the
snapshots so far are in the list, in a bucket, in the batch or done, in exactly one
of them, and that those not done are of the current snapshot. One lemma per action;
`BucketedFacts` and `BatchRuns` do the work, since a bucket is found by its member
count, split, and put back or dropped. `NothingFollows` closes the argument at the end of
the outer loop, and `NeedsAreEarlier` gives the order: what a group inherits from is of
an earlier snapshot, and those are done. Assumptions: `JobsAssumption`,
`LenAssumption`; without the latter `NothingRaises` is false.

`RegistryProofs` proves `EventsTakenInTurn` (`[]EventsInTurn`) for every registry,
every set of configurations, every number of substeps and galaxies and every size of
the event buffer. What has to be known beside it is which phase runs (`InPhase`), that
only a full-halo module may emit, so a dispatch always begins in one and returns to it
(`EmissionGuarded`), and which event the loop has in hand (`DispatchInTurn`). One
consequence stands in `FullHaloReturnsKeeps`: the safety dispatch after a full-halo
module is never entered. `PipelineIsSeq` says that the unrolled pipeline consists of
phases of registered modules, accepted or not; `FlattenSeq` is a recursive function, and
is typed by way of the first position where its type would fail (`FlattenIsSeq`).

`CallsKeepThePromise` (`[]CallsAsPromised`) rests on the same invariant and on `CInv`: the
calls so far are those owed up to where the engine has come (`Made`: the position in
the full-halo loop, in the dispatch, in the galaxy loop), in order; the producer
of what is dispatched is the last full-halo module called (`CallerIsLast`,
`EmitterKnown`). `QuietStep` is for the steps that call nobody, `CallStep` for those that
do. The heart is that an `Emit` or a `Consume` changes what is owed but not what was
made: a new event comes after all that were dispatched, and a galaxy is consumed
only before the galaxy loop begins. Assumptions of both: `RegistryAssumption`, `ConfigsAssumption`, `SizesAssumption`.

It also proves, for every set of selections, all metadata of `MetadataAssumption` and
any number of commands, edits and kills:

- `BuildsAreSelected` (`[]BuildIsSelected`), `ChecksAreHonest` (`[]CheckIsHonest`),
  `EventsAreHeardAsDeclared` (`[]HeardAsDeclared`) and `RecordsAgree` (`[]RecordAgrees`).

The argument has two halves. `MakeInv` is about the files: those of a generator are all of
one generation whose metadata was found valid, and the saved hash is that of its
inputs or was cleaned, unless the generator was stopped (`FilesBelong`); a module
file was made of valid metadata even then (`SourcesAreValid`: what `CheckIsHonest` says
after a torn generation needs it); the files written so far in a generation that runs
are of what was loaded and hashed (`InProgress`); behind a generator the saved hash
matches what it hashed (`HashesAreSaved`); and a verdict is about the files as they are
(`VerdictsStand`). TLC checked `MakeInv` on the whole `generated_code` run first. One lemma per
action, on top of `FileIsWritten`, `FilesStay` and `HashIsSaved`.

The other half is about metadata. Equal hashes mean equal texts (`HashesTellTexts`), and
equal texts give equal files (`SameTextsSameFile`). For properties the hash is over all inputs;
for modules it is over their texts in an order and without their directories, so a copied
package has the same hash, and `TextsMakeFiles` says which files that determines. That the
check passes only for such files holds in whichever order it takes the texts; that it
passes for all of them needs the order of the generator, which it has where modules are named
as on disk (`ChecksHashIsGenerators`). `ValidModulesHear`: for valid modules the
place of a producer is its own (`PlaceIsOwn`), so an event reaches exactly those that
subscribe to it. `RecordIsDescribed`, `RecordIsAssigned` and `UnitsAreKept` take `Sound` metadata
(typed and accepted) and look at the templates: the merged lists have no name twice
(`MergeNamesDiffer`), so `copy_to_output.inc` assigns each field once (`CopiedAre`); a
conversion that validation allows reaches its unit (`ConversionsReachTheirUnit`), into
the internal unit when a field is read (`ReadInInternalUnit`, by cases of the role) and out of
it when it is written (`WrittenInItsUnit`). Without acceptance the last two do not hold.
Assumptions: `NamesAssumption`, `MetadataAssumption`, `GeneratedCodeAssumption`.

`ConvertPipelineProofs` proves, for every set of source files, number of snapshots,
pool size, number of kills and of edits:

- `ManifestStaysTrue` (`[]ManifestIsTrue`), `OneConversionHolds` (`[]OneConversion`),
  `NoRowMissing` (`[]RowsComplete`) and `ReportTellsTheTruth` (`[]ReportIsHonest`);
- `NoRowIsLost` (`[]NoRowLost`), provided `EveryGapShows`: if scatter stops after some of
  the populated snapshots, a forest or a descendant is missing. The run's instance
  satisfies this (`GapsShow`, which TLC evaluates); section 5 has what the code does
  without it.

The properties are about a manifest between commands, and a command changes disk and
memory long before it saves. So `IInv` is about both manifests. `Sound` says what a
manifest may hold: a registered intermediate is of one version of each input, the one
the manifest names, and has all rows of its snapshot (`ContentOK`); outputs likewise
(`OutputOK`); the snapshots of the manifest are the first of the populated ones
(`EnteredOK`). `Intact` says that on disk everything is there that a resumed run needs, for
the saved manifest and the one in memory: that is what makes a kill harmless. Its
counterpart is lemma `WritingIsSafe`: a file that is being written, and may be torn, is
none that the saved manifest leads to. That holds because of where each command is
(`Stage`: only a snapshot that is not known is concatenated, a file is removed only
after a save with the next stage; `Pool`: only a source that has changed is scattered,
and only before any snapshot is entered). `Linking` and `Writing` keep what was checked
when a command began and is used in its last step (`LinkedIsWhole`: when all snapshots
are linked and gaps show, all populated ones are there). One lemma per action, on top
of a few about all steps of a kind (`WorkKeeps`, `SkipKeeps`, `SaveKeeps`, `StopKeeps`, `StageKeeps`,
`RemovalKeeps`, `PoolKeeps`, `CallKeeps`). `ReportIsTrue` counts: the rows of validated files are
among those of the sources, and as many, so they are all of them. Assumption:
`PipelineAssumption`.

Sums. `SumFunctionOnSet` is defined by recursion over a set, and the induction
theorems of the library are out of the provers' reach. `NumberFacts` goes around:
`LeastElement` turns "some size of set breaks the claim" into "a least size does",
and `AddsExists`, `SumTakes`, `SumChanges`, `SumOfBoth`, `SumOfUnion`, `SumIsNat` are proved by
taking one element out of a set of that size. Sequences laid end to end are treated the
same way: where `FlattenSeq` puts which element (`LaidDown`) holds up to the first
sequence where it would not.

Only model-checked, and why:

- liveness (`Ends`, `SoundRowsEnd`, `ConvertsInTheEnd`): out of the prover's reach;
- `NeverMovesBack` of the converter: it does not hold for all constants, see section 5;
- `BatchingIsNeutral`: it compares the catalogue with a recursion over the groups of a
  tree, whose result for every tree is an induction over data;
- `GatheredOnce`: it takes `GalaxyFlow` with a parameter (`Upstream(w)!Workspace`), which the
  prover cannot read, so `JaxGather` stands beside the module the theorems are about;
- `LinkBuild` and `ConvertLinks`: not done. They rest on recursive searches through hosts
  and chains.

## 5. Findings

1. `merger_ledger`: a subhalo inherits a central and an orphan; the central is
   consumed first, the orphan's redirect follows that central's `CentralHalo`,
   which is the central itself, and the orphan's mass ends in a Type 3 object.
   `docs/mergers_and_disruption.md:12,28` promise a live target and a conserved
   ledger. `LossNeedsDeadHost` says that this is the only way to lose mass, and
   `LossesAreExplained` proves it.

The modules also define statements that the documentation makes and that fail
under an environment or an input outside the runs' bounds. No run lists them; to see
one fail, change the configuration as said.

- `PartitionDriver.CompleteAtBarrier` with `JobMayBeKilled = TRUE`: `--skip` takes
  claimed but unfinished files for finished ones when the first run was killed by
  anything but SIGXCPU (`docs/USER-GUIDE.md:143,420`).
- `PartitionDriver.OutputsWhole` with `OutputsMayChange = TRUE`: the fatal error "Partial
  output exists" makes the exit handler delete the finished files it protects
  (`tree_driver.c:43-45`, `docs/USER-GUIDE.md:332`).
- `PartitionDriver.FailureCleansUp` under `FairSpec` with `FinalizeWaits = TRUE`: `bye()`
  finalizes MPI before it removes partial output (`main.c:126,131`).
- `LinkBuild.RowsEnd` under `FairSpec`: `find_fof_halo()` gives up on circular or too deep
  hosts by returning -1 (`ctrees_utils.c:738`), but `fix_upid()` answers -1 with a search
  that begins at the same id in every turn (`ctrees_utils.c:457-476`).
- `ConvertPipeline.NoRowLost` with `RowsAt <- MCRowsAtLast`, `ForestsAt <- MCOneForest`,
  `Joined = {}` and without the assumption `GapsShow`: scatter is cut short after the
  first populated snapshot, which has all forests and no descendant in the next one.
  sort, fixups, links and write accept the manifest as it is, since each asks only for
  the snapshots that the manifest has, and write emits the other populated snapshots as
  empty ones. The report notices (`ReportTellsTheTruth` needs no such hypothesis).
- `ConvertPipeline.LinkStageResumes` with `RowsAt <- MCRowsAtLast`, `ForestsAt <- MCOneForest`,
  `Joined = {1}`: when scatter was cut short before an early snapshot was concatenated and all others
  went on, the link stage saves the identity of the snapshots there are before it
  finds one missing (`links.py:642`), and refuses that identity ever after, although
  "the stage resumes per snapshot" (`links.py:39`).
- `ConvertPipeline.NeverMovesBack` with `RowsAt <- MCRowsAtOne`, `ForestsAt <- MCForestsAtOne`,
  `Joined = {}`: scatter is killed when it has saved the concatenated snapshot and has
  not yet removed the worker files; sort, fixups and links are called, and then
  scatter again. `scatter.py:702-723` foresees this for a snapshot that is
  concatenated, sorted or fixed (`scatter.py:712-714`) but not for a linked one, which is
  concatenated anew and is back at the first stage. With several populated snapshots
  the first of them stops the command, as its workers are gone, unless it is the one
  that was left over. So `NeverMovesBack` is no theorem for all constants; the other
  safety properties of the module hold in this configuration too, as the theorems say.
- `GeneratedCode.NeverStale`: a generator that raises after its first file leaves new files
  under the old hash; undoing the edit or switching back matches that hash, nothing is
  written, and the stale schema is compiled (`Makefile:415`). `check-generated` notices,
  `make generate` does not repair it, `make clean` does.
- `GeneratedCode.BuildIsSelected` without its `torn[g]`: a module file that cannot be written
  leaves the new hash saved over the old file (`generate_module_registry.py:1290-1300`); make stops,
  but the next one finds its hash, generates nothing and compiles. `check-generated` notices
  if the file is `event_contracts.h`, the only one of the three it opens.
- `GeneratedCode.CheckIsHonest` without its `NamedAsOnDisk`: a package whose name in
  `module_info.yaml` sorts otherwise than its directory makes `check-generated` fail on files
  that were just generated (`check_generated.py:108`, `generate_module_registry.py:671`).
  `docs/DEVELOPER-GUIDE.md:274` asks authors to keep the two names equal.

Remark. The comment at `ctrees_utils.c:675` asks that progenitors be "ordered by
mass"; the loop ensures that only of the first one
(`HeaviestProgenitorFirst`, part of `LinksAreRight`), as
`docs/dev/SNAPSHOT-HDF5-FORMAT.md:118` describes. Nothing modelled here relies on the
order of the others.

## 6. Not modelled, and why

- Readers of trees and snapshots, the parser of parameter files, the run
  configuration: formats and checks of values.
- The allocator's block table: one array with a linear search, tested directly.
- The numerical parts of the physics, in C and JAX: rates, cooling tables, ODE
  integrators, derivatives, calibration and inference. They are pure functions of
  floating-point arrays; what they do with the reservoirs is in `Reservoirs`.
- The SHARK and SAPPHIRE formulations, see the plan.
- Plots, reports, analyses, equivalence checks, generators of test inputs: they
  read finished results and write documents. They are more than half of the Python
  of the repository, which is why the mapped share of it is small.
- The snapshot-ordered driver does not exist yet (`tree_driver.c:531`).

## 7. Plan

Built: `MergerTree`, `FoFSchedule`, `TreeBuild` with proofs; `GalaxyFlow`,
`PartitionDriver`, `ConvertPipeline`, `PhaseExecution`, `GalaxyPool`, `ChunkPlan` with
`EnumeratedDriver`, `Reservoirs` with `GroupBaryons`, `JaxPartition`, and `PropertySchema`,
`ModuleMetadata` and `GeneratedCode`, all with proofs; `LinkBuild` with `ConvertLinks`.

Next, in this order:

1. Output of a partition: headers and counters of the binary files, the buffered
   HDF5 tables, files of a partition without trees (`binary.c:133`), the links of
   the master file. Composed with `PartitionDriver`, as the detail of its
   `ProcessUnits` and `FinalizeFile`.
2. Growth of `FoFWorkspace` and `ProcessedHalos` (`build_model.c:244-266`,
   `output_buffer.c:43-56`) while pointers into them are held.
3. The SHARK interval (`mimic_jax/shark/`): mergers, bursts, instabilities, stripping
   and the continuous flow between two records and a halo, with the provenance of the
   bulge stars; the projections that clip small masses; the status of the adaptive
   integrator, which its callers do not read.
4. The claims of a rank of `PartitionDriver` taken from `EnumeratedDriver`.
