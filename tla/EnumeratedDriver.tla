-------------------------- MODULE EnumeratedDriver --------------------------
(***************************************************************************)
(* The partition driver for readers that cut their input into chunks, from *)
(* the plan to the last chunk.  The ranks do not talk to each other: each  *)
(* has the same plan (its planner has the same input, so one plan stands   *)
(* for all), computes the whole assignment of chunks to ranks (longest     *)
(* processing time first), and processes the chunks it gave to itself.     *)
(* Claiming files and failing are in PartitionDriver.                      *)
(***************************************************************************)
EXTENDS ChunkPlan, FiniteSetsExt, SequencesExt

CONSTANT NumTasks       \* effective_task_count()

ASSUME TasksAssumption == NumTasks \in Nat \ {0}

Tasks == 0 .. (NumTasks - 1)

\* How a chunk is priced: the ASCII reader prices all alike, the HDF5 reader by
\* forest_distribution_scheme, of which the two linear ones are here.
Schemes == {"ascii", "uniform_in_forests", "linear_in_nhalos"}

Unassigned == -1

VARIABLES scheme,     \* the pricing of the reader
          pc,         \* what each rank is doing
          order,      \* order[]: what is left of it to assign
          load,       \* task_load[]
          task,       \* task_of_partition[]
          partition,  \* the index of the rank's partition loop
          processed   \* the partitions each rank has processed, in order

rankVars == <<scheme, pc, order, load, task, partition, processed>>
vars == <<planVars, rankVars>>

\* num_partitions(); partition p is the chunk at p of the plan.
Partitions == 0 .. (Len(plan) - 1)
ChunkOf(p) == plan[p + 1]

\* partition_cost()
ChunkCost(p) == CASE scheme = "ascii" -> 1
                  [] scheme = "uniform_in_forests" -> ChunkOf(p).count
                  [] scheme = "linear_in_nhalos" -> ChunkOf(p).size

\* The ASCII reader insists on ForestsperFile.
Init == /\ PlanInit
        /\ scheme \in Schemes
        /\ scheme = "ascii" => perFile > 0
        /\ pc = [r \in Tasks |-> "plan"]
        /\ order = [r \in Tasks |-> <<>>]
        /\ load = [r \in Tasks |-> [t \in Tasks |-> 0]]
        /\ task = [r \in Tasks |-> <<>>]
        /\ partition = [r \in Tasks |-> 0]
        /\ processed = [r \in Tasks |-> <<>>]

\* prepare_run: the plan of chunks.
MakePlan == PlanNext /\ UNCHANGED rankVars

\* A mistake: the cheapest chunk is placed first.
BeforeCheapFirst(a, b) ==
    ChunkCost(a) < ChunkCost(b) \/ (ChunkCost(a) = ChunkCost(b) /\ a < b)

\* compare_chunk_cost_desc()
Before(a, b) ==
    ChunkCost(a) > ChunkCost(b) \/ (ChunkCost(a) = ChunkCost(b) /\ a < b)

\* qsort() promises an order the comparison does not contradict, and no more.
\* A plan without chunks has ended the run before (the readers refuse it).
Sort(r) ==
    /\ finished
    /\ plan # <<>>
    /\ pc[r] = "plan"
    /\ \E o \in SetToSeqs(Partitions) :
          /\ \A j, k \in DOMAIN o : j < k => ~Before(o[k], o[j])
          /\ order' = [order EXCEPT ![r] = o]
    /\ task' = [task EXCEPT ![r] = [p \in Partitions |-> Unassigned]]
    /\ pc' = [pc EXCEPT ![r] = "assign"]
    /\ UNCHANGED <<planVars, scheme, load, partition, processed>>

\* A mistake: the search begins with the rank itself.
BestTaskOwn(r) ==
    CHOOSE t \in Tasks : \A u \in Tasks :
        load[r][t] < load[r][u] \/ (load[r][t] = load[r][u] /\ (t = r \/ (u # r /\ t <= u)))

\* The first of the tasks with the least load.
BestTask(r) ==
    CHOOSE t \in Tasks : \A u \in Tasks :
        load[r][t] < load[r][u] \/ (load[r][t] = load[r][u] /\ t <= u)

Assign(r) ==
    /\ pc[r] = "assign"
    /\ order[r] # <<>>
    /\ LET p == Head(order[r])
       IN  /\ task' = [task EXCEPT ![r][p] = BestTask(r)]
           /\ load' = [load EXCEPT ![r][BestTask(r)] = @ + ChunkCost(p)]
    /\ order' = [order EXCEPT ![r] = Tail(@)]
    /\ UNCHANGED <<planVars, scheme, pc, partition, processed>>

StartProcessing(r) ==
    /\ pc[r] = "assign"
    /\ order[r] = <<>>
    /\ pc' = [pc EXCEPT ![r] = "process"]
    /\ UNCHANGED <<planVars, scheme, order, load, task, partition, processed>>

\* The test of the partition loop; every partition below the count exists.
Mine(r, p) == task[r][p] = r

ProcessPartition(r) ==
    /\ pc[r] = "process"
    /\ partition[r] \in Partitions
    /\ processed' = [processed EXCEPT ![r] = IF Mine(r, partition[r]) THEN Append(@, partition[r])
                                                                     ELSE @]
    /\ partition' = [partition EXCEPT ![r] = @ + 1]
    /\ UNCHANGED <<planVars, scheme, pc, order, load, task>>

Finish(r) ==
    /\ pc[r] = "process"
    /\ partition[r] \notin Partitions
    /\ pc' = [pc EXCEPT ![r] = "done"]
    /\ UNCHANGED <<planVars, scheme, order, load, task, partition, processed>>

Next == \/ MakePlan
        \/ \E r \in Tasks :
              \/ Sort(r) \/ Assign(r) \/ StartProcessing(r)
              \/ ProcessPartition(r) \/ Finish(r)

Spec == Init /\ [][Next]_vars

\* The shape of the state: what is ordered or processed are chunks of the plan.
TypeOK ==
    /\ PlanTypeOK
    /\ scheme \in Schemes
    /\ pc \in [Tasks -> {"plan", "assign", "process", "done"}]
    /\ order \in [Tasks -> Seq(Partitions)]
    /\ load \in [Tasks -> [Tasks -> Nat]]
    /\ \A r \in Tasks : task[r] \in [DOMAIN task[r] -> Tasks \cup {Unassigned}]
    /\ partition \in [Tasks -> 0 .. Len(plan)]
    /\ processed \in [Tasks -> Seq(Partitions)]

-----------------------------------------------------------------------------
\* The run-wide numbers (GlobalForestOffset + unit) of the forests in p.
ForestsOf(p) == ChunkOf(p).start .. (ChunkOf(p).start + ChunkOf(p).count - 1)

\* No two units that any ranks have processed have the same run-wide number, so
\* UniqueGalaxyID is unique, although nothing but their separate computations
\* keeps the ranks off each other's chunks.
UniqueForests ==
    \A q, r \in Tasks : \A j \in DOMAIN processed[q], k \in DOMAIN processed[r] :
        ForestsOf(processed[q][j]) \cap ForestsOf(processed[r][k]) # {} => q = r /\ j = k

\* When all ranks are done, every forest of the input was processed.
NoneLeftOut ==
    (\A r \in Tasks : pc[r] = "done") =>
        UNION {ForestsOf(p) : p \in UNION {ToSet(processed[r]) : r \in Tasks}} = 0 .. (next - 1)

\* The plan keeps what chunk_plan.h promises: no empty chunk, none over the
\* budget without need, and no more of them than any plan within it has.
PlanHolds == TypeOK /\ WithinBudget /\ FewestChunks

\* Between them the ranks, who never talk to each other, process every forest
\* once (tree_driver.c:393).
EveryForestOnce == UniqueForests /\ NoneLeftOut

ChunkCosts == [p \in Partitions |-> ChunkCost(p)]

LoadOf(f, t) == SumFunctionOnSet(ChunkCosts, {p \in Partitions : f[p] = t})

LongestLoad(f) == Max({LoadOf(f, t) : t \in Tasks})

\* No task gets more than 4/3 - 1/(3 NumTasks) of what the best division of the
\* chunks would give its busiest task: the guarantee of "longest processing
\* time first" (chunk_plan.h:6).
NearBestDivision ==
    \A r \in Tasks : pc[r] = "process" /\ partition[r] = 0 =>
        \A f \in [Partitions -> Tasks] :
            3 * NumTasks * LongestLoad(task[r]) <= (4 * NumTasks - 1) * LongestLoad(f)
=============================================================================
