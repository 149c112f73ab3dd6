----------------------------- MODULE ChunkPlan ------------------------------
(***************************************************************************)
(* How the Consistent-Trees readers cut the forests of a run into output   *)
(* chunks: ChunkPlanBuilder takes the forests one by one, file after file, *)
(* and closes a chunk when the next forest would overfill it, or when it   *)
(* holds the configured number of forests.  Sizes are whole numbers; the   *)
(* cost of a chunk is accumulated like its size (ChunkCost in the module   *)
(* EnumeratedDriver, which uses the plan).                                 *)
(***************************************************************************)
EXTENDS Integers, Sequences, FiniteSets

CONSTANTS Sizes,       \* the sizes a forest may have
          SizeBudget,  \* size_budget
          PerFiles,    \* the values of ForestsperFile; 0 for "by size"
          MaxForests   \* bound of the model

ASSUME SizesAssumption == Sizes \subseteq Nat

\* What chunk_plan_builder_init() accepts.
ASSUME BudgetAssumption ==
    PerFiles \subseteq Nat /\ SizeBudget \in Nat /\ (0 \in PerFiles => SizeBudget > 0)

VARIABLES perFile,   \* forests_per_file_override
          plan,      \* the chunks closed so far
          next,      \* next_forest
          start,     \* current_start
          count,     \* current_nforests
          size,      \* current_size
          sizes,     \* history: the sizes of the forests added
          finished   \* chunk_plan_builder_finish() was called

planVars == <<perFile, plan, next, start, count, size, sizes, finished>>

Chunk == [start : Nat, count : Nat \ {0}, size : Nat]

PlanInit == /\ perFile \in PerFiles
            /\ plan = <<>> /\ next = 0
            /\ start = 0 /\ count = 0 /\ size = 0
            /\ sizes = <<>> /\ finished = FALSE

\* A mistake: a forest that fills the chunk exactly is sent to the next one.
ClosesBeforeEarly(s) ==
    IF perFile > 0 THEN count = perFile ELSE count > 0 /\ size + s >= SizeBudget

\* The current chunk is closed before a forest of size s.
ClosesBefore(s) ==
    IF perFile > 0 THEN count = perFile ELSE count > 0 /\ size + s > SizeBudget

\* A forest over the budget gets a chunk of its own.
ClosesAfter(s) == perFile = 0 /\ s > SizeBudget

\* A mistake: the start of a chunk is remembered from the one before.
StartAfterStale(closed) == start

\* current_start once a forest was added to an empty, or running, chunk.
StartAfter(closed) == IF closed \/ count = 0 THEN next ELSE start

Current == [start |-> start, count |-> count, size |-> size]

\* One turn of the loop of chunk_plan_builder_add_file_with_cost().
AddForest(s) ==
    LET closed == ClosesBefore(s)
        before == IF closed THEN Append(plan, Current) ELSE plan
        chunk  == [start |-> StartAfter(closed),
                   count |-> IF closed THEN 1 ELSE count + 1,
                   size  |-> IF closed THEN s ELSE size + s]
    IN  /\ ~finished
        /\ next' = next + 1
        /\ sizes' = Append(sizes, s)
        /\ start' = chunk.start
        /\ IF ClosesAfter(s)
             THEN plan' = Append(before, chunk) /\ count' = 0 /\ size' = 0
             ELSE plan' = before /\ count' = chunk.count /\ size' = chunk.size
        /\ UNCHANGED <<perFile, finished>>

\* chunk_plan_builder_finish()
FinishPlan ==
    /\ ~finished
    /\ finished' = TRUE
    /\ plan' = IF count = 0 THEN plan ELSE Append(plan, Current)
    /\ count' = 0 /\ size' = 0
    /\ UNCHANGED <<perFile, next, start, sizes>>

PlanNext == \/ next < MaxForests /\ \E s \in Sizes : AddForest(s)
            \/ FinishPlan

\* The shape of the state; no chunk of the plan is empty.
PlanTypeOK ==
    /\ perFile \in PerFiles
    /\ plan \in Seq(Chunk)
    /\ next \in Nat /\ start \in Nat /\ count \in Nat /\ size \in Nat
    /\ sizes \in Seq(Sizes) /\ Len(sizes) = next
    /\ finished \in BOOLEAN

-----------------------------------------------------------------------------
End(c) == c.start + c.count

\* The first forest that is in no chunk of plan p.
ClosedTo(p) == IF p = <<>> THEN 0 ELSE End(p[Len(p)])

\* Each chunk begins where the one before ends, the first at forest 0.
Chained(p) ==
    /\ p # <<>> => p[1].start = 0
    /\ \A k \in 1 .. (Len(p) - 1) : p[k + 1].start = End(p[k])

\* Chunks "are contiguous, global, and never empty" (chunk_plan.h:6): each
\* begins where the one before ends, the first at forest 0, and the forests
\* added so far are those of the chunks and of the one being filled.  So a
\* finished plan has every forest in one chunk, and GlobalForestOffset, the
\* start of a chunk, numbers the units of all chunks without a gap.
Contiguous ==
    /\ Chained(plan)
    /\ ClosedTo(plan) + count = next
    /\ count > 0 => start = ClosedTo(plan)

Total(a, b) ==
    LET sum[n \in Nat] == IF n <= a THEN 0 ELSE sum[n - 1] + sizes[n]
    IN  sum[b]

\* The size of a chunk is the size of its forests, and stays within the budget
\* unless the chunk is a single forest; with an override every chunk but the
\* last has that many forests.
WithinBudget ==
    \A k \in DOMAIN plan :
        LET c == plan[k]
        IN  /\ c.size = Total(c.start, End(c))
            /\ perFile = 0 => c.size <= SizeBudget \/ c.count = 1
            /\ perFile > 0 => c.count = perFile \/ (finished /\ k = Len(plan) /\ c.count < perFile)

\* The ways to cut n forests, each named by the forests that begin a chunk, in
\* which every chunk is within the budget or a single forest.
Cuts(n) ==
    {cut \in SUBSET (0 .. (n - 1)) :
        /\ 0 \in cut
        /\ \A a, b \in cut \cup {n} :
              a < b /\ (\A x \in cut : ~(a < x /\ x < b)) =>
                  Total(a, b) <= SizeBudget \/ b = a + 1}

\* Taking the forests as they come is no worse than planning ahead: no division
\* within the budget has fewer chunks.
FewestChunks ==
    finished /\ perFile = 0 /\ next > 0 =>
        \A cut \in Cuts(next) : Len(plan) <= Cardinality(cut)
=============================================================================
