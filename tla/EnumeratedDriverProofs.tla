----------------------- MODULE EnumeratedDriverProofs -----------------------
(***************************************************************************)
(* Proofs about the plan of chunks that the enumerated driver works from   *)
(* and about its division among the ranks, for every set of forest sizes,  *)
(* every size budget, every ForestsperFile and every number of ranks.      *)
(***************************************************************************)
EXTENDS EnumeratedDriver, NumberFacts, FiniteSetTheorems, SequenceTheorems

IInv == PlanTypeOK /\ Contiguous

\* Appending a chunk that begins where the plan ends keeps the plan chained.
LEMMA AppendChunk ==
    ASSUME NEW p \in Seq(Chunk), Chained(p), NEW c \in Chunk, c.start = ClosedTo(p)
    PROVE  /\ Append(p, c) \in Seq(Chunk)
           /\ Chained(Append(p, c))
           /\ ClosedTo(Append(p, c)) = End(c)
<1> DEFINE q == Append(p, c)
<1>1. q \in Seq(Chunk) /\ Len(q) = Len(p) + 1 /\ Len(p) \in Nat
  OBVIOUS
<1>2. q[Len(q)] = c /\ q # <<>>
  OBVIOUS
<1>3. \A k \in 1 .. Len(p) : q[k] = p[k]
  OBVIOUS
<1>4. q[1].start = 0
  <2>1. CASE p = <<>>
    BY <1>1, <1>2, <2>1 DEF ClosedTo
  <2>2. CASE p # <<>>
    <3>1. 1 \in 1 .. Len(p)
      BY <2>2
    <3> QED
      BY <1>3, <2>2, <3>1 DEF Chained
  <2> QED
    BY <2>1, <2>2
<1>5. ASSUME NEW k \in 1 .. (Len(q) - 1) PROVE q[k + 1].start = End(q[k])
  <2>1. k \in 1 .. Len(p) /\ q[k] = p[k]
    BY <1>1, <1>3
  <2>2. CASE k = Len(p)
    <3>1. q[k + 1] = c
      BY <1>1, <1>2, <2>2
    <3>2. p # <<>>
      BY <2>1
    <3> QED
      BY <2>1, <2>2, <3>1, <3>2 DEF ClosedTo
  <2>3. CASE k # Len(p)
    <3>1. k + 1 \in 1 .. Len(p) /\ k \in 1 .. (Len(p) - 1)
      BY <1>1, <2>1, <2>3
    <3>2. q[k + 1] = p[k + 1]
      BY <1>3, <3>1
    <3> QED
      BY <2>1, <3>1, <3>2 DEF Chained
  <2> QED
    BY <2>2, <2>3
<1> HIDE DEF q
<1>6. Chained(q)
  BY <1>4, <1>5 DEF Chained
<1>7. ClosedTo(q) = End(c)
  BY <1>2 DEF ClosedTo
<1> QED
  BY <1>1, <1>6, <1>7 DEF q

\* A plan ends at a forest number.
LEMMA ClosedToNat == ASSUME NEW p \in Seq(Chunk) PROVE ClosedTo(p) \in Nat
<1>1. CASE p = <<>>
  BY <1>1 DEF ClosedTo
<1>2. CASE p # <<>>
  <2>1. Len(p) \in DOMAIN p
    BY <1>2
  <2>2. p[Len(p)] \in Chunk
    BY <2>1
  <2> QED
    BY <1>2, <2>2 DEF ClosedTo, End, Chunk
<1> QED
  BY <1>1, <1>2

\* No forest was added yet.
LEMMA PlanInitInv == PlanInit => IInv
<1> SUFFICES ASSUME PlanInit PROVE IInv
  OBVIOUS
<1>1. /\ perFile \in PerFiles /\ plan = <<>> /\ next = 0 /\ start = 0
      /\ count = 0 /\ size = 0 /\ sizes = <<>> /\ finished = FALSE
  BY DEF PlanInit
<1>2. /\ plan \in Seq(Chunk) /\ Len(plan) = 0
      /\ sizes \in Seq(Sizes) /\ Len(sizes) = 0
  BY <1>1
<1>3. Chained(plan) /\ ClosedTo(plan) = 0
  BY <1>1, <1>2 DEF Chained, ClosedTo
<1>4. PlanTypeOK
  <2>1. next \in Nat /\ start \in Nat /\ count \in Nat /\ size \in Nat
    BY <1>1
  <2>2. Len(sizes) = next /\ finished \in BOOLEAN
    BY <1>1, <1>2
  <2> QED
    BY <1>1, <1>2, <2>1, <2>2, Zenon DEF PlanTypeOK
<1>5. Contiguous
  BY <1>1, <1>3 DEF Contiguous
<1> QED
  BY <1>4, <1>5 DEF IInv

\* One forest more: closing before it, or after it, keeps the plan contiguous.
LEMMA AddForestInv == ASSUME IInv, NEW s \in Sizes, AddForest(s) PROVE IInv'
<1> DEFINE closed == ClosesBefore(s)
           before == IF closed THEN Append(plan, Current) ELSE plan
           chunk  == [start |-> StartAfter(closed),
                      count |-> IF closed THEN 1 ELSE count + 1,
                      size  |-> IF closed THEN s ELSE size + s]
<1>1. /\ plan \in Seq(Chunk) /\ next \in Nat /\ start \in Nat /\ count \in Nat
      /\ size \in Nat /\ sizes \in Seq(Sizes) /\ Len(sizes) = next
      /\ perFile \in PerFiles /\ perFile \in Nat /\ s \in Nat
  BY SizesAssumption, BudgetAssumption DEF IInv, PlanTypeOK
<1>2. /\ Chained(plan) /\ ClosedTo(plan) + count = next
      /\ count > 0 => start = ClosedTo(plan)
  BY DEF IInv, Contiguous
<1>3. closed \in BOOLEAN
  BY DEF ClosesBefore
<1>4. closed => count > 0
  BY <1>1 DEF ClosesBefore
<1>5. ClosedTo(plan) \in Nat
  BY <1>1, ClosedToNat
<1>6. /\ before \in Seq(Chunk) /\ Chained(before)
      /\ ClosedTo(before) = IF closed THEN next ELSE ClosedTo(plan)
  <2>1. CASE closed
    <3>1. Current \in Chunk /\ Current.start = ClosedTo(plan) /\ End(Current) = next
      BY <1>1, <1>2, <1>4, <2>1 DEF Current, Chunk, End
    <3> QED
      BY <1>1, <1>2, <2>1, <3>1, AppendChunk
  <2>2. CASE ~closed
    BY <1>1, <1>2, <2>2
  <2> QED
    BY <2>1, <2>2
<1>7. chunk \in Chunk /\ chunk.start = ClosedTo(before) /\ End(chunk) = next + 1
  <2>1. CASE closed
    BY <1>1, <1>6, <2>1 DEF StartAfter, Chunk, End
  <2>2. CASE ~closed /\ count = 0
    BY <1>1, <1>2, <1>5, <1>6, <2>2 DEF StartAfter, Chunk, End
  <2>3. CASE ~closed /\ count # 0
    BY <1>1, <1>2, <1>5, <1>6, <2>3 DEF StartAfter, Chunk, End
  <2> QED
    BY <2>1, <2>2, <2>3
<1>8. /\ next' = next + 1 /\ sizes' = Append(sizes, s) /\ start' = chunk.start
      /\ IF ClosesAfter(s)
           THEN plan' = Append(before, chunk) /\ count' = 0 /\ size' = 0
           ELSE plan' = before /\ count' = chunk.count /\ size' = chunk.size
      /\ perFile' = perFile /\ finished' = finished
  BY DEF AddForest
<1> HIDE DEF before, chunk, closed
<1>9. /\ sizes' \in Seq(Sizes) /\ Len(sizes') = next'
      /\ next' \in Nat /\ start' \in Nat /\ finished' \in BOOLEAN
  BY <1>1, <1>7, <1>8 DEF Chunk, IInv, PlanTypeOK
<1>10. chunk.count \in Nat /\ chunk.size \in Nat /\ chunk.start + chunk.count = next + 1
  BY <1>7 DEF Chunk, End
<1>11. CASE ClosesAfter(s)
  <2>1. plan' \in Seq(Chunk) /\ Chained(plan') /\ ClosedTo(plan') = next + 1
    BY <1>6, <1>7, <1>8, <1>11, AppendChunk
  <2> QED
    BY <1>1, <1>8, <1>9, <1>11, <2>1 DEF IInv, PlanTypeOK, Contiguous
<1>12. CASE ~ClosesAfter(s)
  BY <1>1, <1>6, <1>7, <1>8, <1>9, <1>10, <1>12 DEF IInv, PlanTypeOK, Contiguous
<1> QED
  BY <1>11, <1>12

\* The chunk that was being filled is closed.
LEMMA FinishPlanInv == ASSUME IInv, FinishPlan PROVE IInv'
<1>1. /\ plan \in Seq(Chunk) /\ next \in Nat /\ start \in Nat /\ count \in Nat
      /\ size \in Nat
      /\ Chained(plan) /\ ClosedTo(plan) + count = next
      /\ count > 0 => start = ClosedTo(plan)
  BY DEF IInv, PlanTypeOK, Contiguous
<1>2. plan' \in Seq(Chunk) /\ Chained(plan') /\ ClosedTo(plan') = next
  <2>1. CASE count = 0
    <3>1. ClosedTo(plan) \in Nat
      BY <1>1, ClosedToNat
    <3> QED
      BY <1>1, <2>1, <3>1 DEF FinishPlan
  <2>2. CASE count # 0
    <3>1. Current \in Chunk /\ Current.start = ClosedTo(plan) /\ End(Current) = next
      BY <1>1, <2>2 DEF Current, Chunk, End
    <3>2. plan' = Append(plan, Current)
      BY <2>2 DEF FinishPlan
    <3> QED
      BY <1>1, <3>1, <3>2, AppendChunk
  <2> QED
    BY <2>1, <2>2
<1>3. /\ count' = 0 /\ size' = 0 /\ finished' = TRUE
      /\ perFile' = perFile /\ next' = next /\ start' = start /\ sizes' = sizes
  BY DEF FinishPlan
<1> QED
  BY <1>1, <1>2, <1>3 DEF IInv, PlanTypeOK, Contiguous

\* The planner keeps the plan chained.
LEMMA PlanStepInv == IInv /\ [PlanNext]_planVars => IInv'
<1> SUFFICES ASSUME IInv, [PlanNext]_planVars PROVE IInv'
  OBVIOUS
<1>1. CASE \E s \in Sizes : AddForest(s)
  BY <1>1, AddForestInv
<1>2. CASE FinishPlan
  BY <1>2, FinishPlanInv
<1>3. CASE UNCHANGED planVars
  BY <1>3 DEF planVars, IInv, PlanTypeOK, Contiguous
<1> QED
  BY <1>1, <1>2, <1>3 DEF PlanNext

\* The ranks work from the plan and leave it alone.
LEMMA RanksKeepPlan == [Next]_vars => [PlanNext]_planVars
<1>1. ASSUME NEW r \in Tasks,
             Sort(r) \/ Assign(r) \/ StartProcessing(r) \/ ProcessPartition(r) \/ Finish(r)
      PROVE  UNCHANGED planVars
  BY <1>1 DEF Sort, Assign, StartProcessing, ProcessPartition, Finish
<1>2. MakePlan => PlanNext
  BY DEF MakePlan
<1>3. UNCHANGED vars => UNCHANGED planVars
  BY DEF vars
<1> QED
  BY <1>1, <1>2, <1>3 DEF Next

\* The planner's state has its shape, and its chunks follow each other without
\* a gap or an overlap from forest 0 on (chunk_plan_builder_add_file_with_cost(),
\* chunk_plan_builder_finish()), whatever the ranks do with them.
THEOREM PlanIsContiguous == Spec => [](PlanTypeOK /\ Contiguous)
<1>1. IInv <=> PlanTypeOK /\ Contiguous
  BY DEF IInv
<1>2. Init => IInv
  BY PlanInitInv DEF Init
<1>3. IInv /\ [Next]_vars => IInv'
  BY PlanStepInv, RanksKeepPlan
<1> QED
  BY <1>1, <1>2, <1>3, PTL DEF Spec

-----------------------------------------------------------------------------
(***************************************************************************)
(* That every rank computes the same assignment.  Two ranks are compared   *)
(* by what both of them must have done: they have the same order, since a  *)
(* sorted order without ties is unique, and then the same sequence of loads *)
(* and assignments, of which each rank has reached some point.              *)
(***************************************************************************)

\* The task that is least loaded, and the assignment of one chunk to it.
Best(l) == CHOOSE t \in Tasks : \A u \in Tasks : l[t] < l[u] \/ (l[t] = l[u] /\ t <= u)

Placed(a, p) ==
    [load |-> [a.load EXCEPT ![Best(a.load)] = @ + ChunkCost(p)],
     task |-> [a.task EXCEPT ![p] = Best(a.load)]]

Assignment == [load : [Tasks -> Nat], task : [Partitions -> Tasks \cup {Unassigned}]]

Nothing == [load |-> [t \in Tasks |-> 0], task |-> [p \in Partitions |-> Unassigned]]

InCostOrder(o) ==
    /\ o \in SetToSeqs(Partitions)
    /\ \A j, k \in DOMAIN o : j < k => ~Before(o[k], o[j])

\* The assignments after the first 0, 1, ..., m chunks of the order o.
AreSteps(o, m, steps) ==
    /\ m \in 0 .. Len(plan)
    /\ steps \in [0 .. m -> Assignment]
    /\ steps[0] = Nothing
    /\ \A k \in 0 .. m - 1 : steps[k + 1] = Placed(steps[k], o[k + 1])

\* Rank r has assigned the first k chunks of the order o.
HasReached(r, k, o, steps) ==
    /\ Len(order[r]) = Len(plan) - k
    /\ \A i \in 1 .. Len(order[r]) : order[r][i] = o[k + i]
    /\ load[r] = steps[k].load
    /\ task[r] = steps[k].task
    /\ pc[r] # "assign" => k = Len(plan)

\* The ranks that have an order are somewhere on these steps.
OnSteps(o, m, steps) ==
    /\ InCostOrder(o)
    /\ AreSteps(o, m, steps)
    /\ \A r \in Tasks : pc[r] # "plan" => \E k \in 0 .. m : HasReached(r, k, o, steps)

AllAgree == (\E r \in Tasks : pc[r] # "plan") => \E o, m, steps : OnSteps(o, m, steps)

\* Where a rank is in its two loops.
RankProgress ==
    \A r \in Tasks :
        /\ pc[r] # "plan" => finished /\ plan # <<>>
        /\ pc[r] = "plan" => load[r] = [t \in Tasks |-> 0]
        /\ pc[r] \in {"plan", "assign"} => partition[r] = 0
        /\ pc[r] = "done" => partition[r] = Len(plan)
        /\ pc[r] = "assign" => order[r] \in Seq(Partitions)

\* What rank r has processed is what it gave itself of the partitions so far.
ProcessedSoFar ==
    \A r \in Tasks :
        /\ partition[r] \in 0 .. Len(plan)
        /\ processed[r] \in Seq(Partitions)
        /\ \A j \in 1 .. Len(processed[r]) :
              processed[r][j] < partition[r] /\ Mine(r, processed[r][j])
        /\ \A j, k \in 1 .. Len(processed[r]) : j < k => processed[r][j] < processed[r][k]
        /\ \A p \in Partitions : p < partition[r] /\ Mine(r, p) =>
              \E j \in 1 .. Len(processed[r]) : processed[r][j] = p

Shapes ==
    /\ scheme \in Schemes
    /\ pc \in [Tasks -> {"plan", "assign", "process", "done"}]
    /\ DOMAIN order = Tasks /\ DOMAIN load = Tasks /\ DOMAIN task = Tasks
    /\ partition \in [Tasks -> Nat]
    /\ DOMAIN processed = Tasks

RankInv == IInv /\ Shapes /\ RankProgress /\ ProcessedSoFar /\ AllAgree

\* What it comes to: the assignments of ranks that have finished theirs agree,
\* and leave no chunk out.
OneAssignment ==
    \A q, r \in Tasks : pc[q] \in {"process", "done"} /\ pc[r] \in {"process", "done"} =>
        /\ task[q] = task[r]
        /\ task[r] \in [Partitions -> Tasks]

\* Tasks are counted from 0, and there is one.
LEMMA TasksAreNumbers == Tasks \subseteq Nat /\ Tasks # {} /\ 0 \in Tasks
<1>1. 0 \in Tasks /\ Tasks \subseteq Nat
  BY TasksAssumption DEF Tasks
<1> QED
  BY <1>1

\* Every pricing gives whole numbers.
LEMMA ChunkCostNat ==
    ASSUME PlanTypeOK, scheme \in Schemes, NEW p \in Partitions
    PROVE  ChunkCost(p) \in Nat
<1>1. plan[p + 1] \in Chunk
  <2>1. plan \in Seq(Chunk) /\ p + 1 \in 1 .. Len(plan)
    BY DEF PlanTypeOK, Partitions
  <2> QED
    BY <2>1, ElementOfSeq
<1> QED
  BY <1>1 DEF ChunkCost, ChunkOf, Chunk, Schemes

\* An order lists every partition, once.
LEMMA OrderIsBijective ==
    ASSUME PlanTypeOK, NEW o, InCostOrder(o)
    PROVE  /\ Len(plan) \in Nat
           /\ o \in [1 .. Len(plan) -> Partitions]
           /\ \A i, j \in 1 .. Len(plan) : i # j => o[i] # o[j]
           /\ \A p \in Partitions : \E i \in 1 .. Len(plan) : o[i] = p
<1>1. Len(plan) \in Nat
  BY DEF PlanTypeOK
<1>2. IsFiniteSet(Partitions) /\ Cardinality(Partitions) = Len(plan)
  <2>1. 0 \in Int /\ Len(plan) - 1 \in Int
    BY <1>1
  <2>2. IsFiniteSet(Partitions)
        /\ Cardinality(Partitions) = IF 0 > Len(plan) - 1 THEN 0 ELSE (Len(plan) - 1) - 0 + 1
    BY <2>1, FS_Interval DEF Partitions
  <2> QED
    BY <1>1, <2>2
<1>3. o \in SetToSeqs(Partitions)
  BY DEF InCostOrder
<1>4. /\ o \in [1 .. Len(plan) -> Partitions]
      /\ \A i, j \in 1 .. Len(plan) : i # j => o[i] # o[j]
  BY <1>2, <1>3 DEF SetToSeqs
<1>5. o \in Injection(1 .. Len(plan), Partitions)
  BY <1>4 DEF Injection, IsInjective
<1>6. Cardinality(1 .. Len(plan)) = Len(plan)
  BY <1>1, FS_Interval, SMTT(30)
<1>7. o \in Surjection(1 .. Len(plan), Partitions)
  BY <1>2, <1>5, <1>6, FS_Injection
<1>8. \A p \in Partitions : \E i \in 1 .. Len(plan) : o[i] = p
  BY <1>7 DEF Surjection
<1> QED
  BY <1>1, <1>4, <1>8

\* compare_chunk_cost_desc() leaves qsort() no choice: ties are broken by the
\* index, so there is one order only.
LEMMA OneOrder ==
    ASSUME PlanTypeOK, scheme \in Schemes, NEW a, InCostOrder(a), NEW b, InCostOrder(b)
    PROVE  a = b
<1> DEFINE D == 1 .. Len(plan)
<1>1. /\ a \in [D -> Partitions]
      /\ \A i, j \in D : i # j => a[i] # a[j]
      /\ \A p \in Partitions : \E i \in D : a[i] = p
  BY OrderIsBijective
<1>2. /\ b \in [D -> Partitions]
      /\ \A i, j \in D : i # j => b[i] # b[j]
      /\ \A p \in Partitions : \E i \in D : b[i] = p
  BY OrderIsBijective
<1>3. D \subseteq Nat /\ Partitions \subseteq Nat
  BY OrderIsBijective DEF Partitions
<1>4. /\ \A i, j \in D : i < j => ~Before(a[j], a[i])
      /\ \A i, j \in D : i < j => ~Before(b[j], b[i])
  BY <1>1, <1>2 DEF InCostOrder
<1>5. \A p, q \in Partitions : p # q => Before(p, q) \/ Before(q, p)
  BY <1>3, ChunkCostNat DEF Before
<1> HIDE DEF D
<1> DEFINE Differs == {i \in D : a[i] # b[i]}
<1>6. SUFFICES ASSUME Differs # {} PROVE FALSE
  BY <1>1, <1>2
<1>7. PICK i \in Differs : \A j \in Differs : i <= j
  BY <1>3, <1>6, LeastElement
<1>8. PICK j \in D : b[j] = a[i]
  BY <1>1, <1>2
<1>9. PICK k \in D : a[k] = b[i]
  BY <1>1, <1>2
<1>10. i < j /\ i < k
  BY <1>1, <1>2, <1>3, <1>7, <1>8, <1>9
<1>11. ~Before(a[i], b[i]) /\ ~Before(b[i], a[i])
  BY <1>4, <1>8, <1>9, <1>10
<1> QED
  BY <1>1, <1>2, <1>5, <1>11

\* The search for the best task finds one, and no other has less.
LEMMA BestIsATask ==
    ASSUME NEW l \in [Tasks -> Nat]
    PROVE  Best(l) \in Tasks /\ \A u \in Tasks : l[Best(l)] <= l[u]
<1> DEFINE Values == {l[t] : t \in Tasks}
<1>1. PICK v \in Values : \A w \in Values : v <= w
  <2>1. Values \in SUBSET Nat /\ Values # {}
    BY TasksAreNumbers
  <2> QED
    BY <2>1, LeastElement
<1> DEFINE Lightest == {t \in Tasks : l[t] = v}
<1>2. Lightest # {} /\ Lightest \in SUBSET Nat
  BY TasksAreNumbers
<1>3. PICK t \in Lightest : \A u \in Lightest : t <= u
  BY <1>2, LeastElement
<1>4. \A u \in Tasks : l[t] < l[u] \/ (l[t] = l[u] /\ t <= u)
  <2> SUFFICES ASSUME NEW u \in Tasks PROVE l[t] < l[u] \/ (l[t] = l[u] /\ t <= u)
    OBVIOUS
  <2>1. l[t] = v /\ v <= l[u] /\ l[u] \in Nat /\ v \in Nat
    BY <1>1
  <2> QED
    BY <1>3, <2>1
<1>5. /\ Best(l) \in Tasks
      /\ \A u \in Tasks : l[Best(l)] < l[u] \/ (l[Best(l)] = l[u] /\ Best(l) <= u)
  BY <1>4 DEF Best
<1> QED
  BY <1>5

\* Placing a chunk gives it a task and leaves the others theirs.
LEMMA PlacedType ==
    ASSUME PlanTypeOK, scheme \in Schemes, NEW a \in Assignment, NEW p \in Partitions
    PROVE  /\ Placed(a, p) \in Assignment
           /\ Placed(a, p).task[p] \in Tasks
           /\ \A q \in Partitions : a.task[q] \in Tasks => Placed(a, p).task[q] \in Tasks
<1>1. a.load \in [Tasks -> Nat] /\ a.task \in [Partitions -> Tasks \cup {Unassigned}]
  BY DEF Assignment
<1>2. Best(a.load) \in Tasks
  BY <1>1, BestIsATask
<1>3. ChunkCost(p) \in Nat
  BY ChunkCostNat
<1> QED
  BY <1>1, <1>2, <1>3 DEF Placed, Assignment

\* As long as the plan stays, so does what is said about orders and steps.
LEMMA PlanStays ==
    ASSUME plan' = plan, scheme' = scheme
    PROVE  /\ Partitions' = Partitions
           /\ \A o : InCostOrder(o)' <=> InCostOrder(o)
           /\ \A o, m, steps : AreSteps(o, m, steps)' <=> AreSteps(o, m, steps)
<1>1. Partitions' = Partitions
  BY DEF Partitions
<1>2. \A p : ChunkCost(p)' = ChunkCost(p)
  BY DEF ChunkCost, ChunkOf
<1>3. \A p, q : Before(p, q)' <=> Before(p, q)
  BY <1>2 DEF Before
<1>4. ASSUME NEW o PROVE InCostOrder(o)' <=> InCostOrder(o)
  BY <1>1, <1>3 DEF InCostOrder
<1>5. Assignment' = Assignment /\ Nothing' = Nothing
  BY <1>1 DEF Assignment, Nothing
<1>6. \A a, p : Placed(a, p)' = Placed(a, p)
  BY <1>2 DEF Placed
<1>7. ASSUME NEW o, NEW m, NEW steps PROVE AreSteps(o, m, steps)' <=> AreSteps(o, m, steps)
  BY <1>5, <1>6 DEF AreSteps
<1> QED
  BY <1>1, <1>4, <1>7

\* Ranks that have processed nothing have nothing to answer for.
LEMMA NothingProcessed ==
    ASSUME \A r \in Tasks : partition[r] = 0 /\ processed[r] = <<>>, Len(plan) \in Nat
    PROVE  ProcessedSoFar
<1>1. ASSUME NEW r \in Tasks
      PROVE  processed[r] \in Seq(Partitions) /\ Len(processed[r]) = 0
  BY EmptySeq
<1>2. \A p \in Partitions : ~(p < 0)
  BY DEF Partitions
<1> QED
  BY <1>1, <1>2 DEF ProcessedSoFar

\* Before the plan is made.
LEMMA RankInit == Init => RankInv
<1> SUFFICES ASSUME Init PROVE RankInv
  OBVIOUS
<1>1. IInv
  BY PlanInitInv DEF Init
<1>2. Shapes
  BY DEF Init, Shapes
<1>3. RankProgress /\ AllAgree
  BY DEF Init, RankProgress, AllAgree
<1>4. ProcessedSoFar
  <2>1. \A r \in Tasks : partition[r] = 0 /\ processed[r] = <<>>
    BY DEF Init
  <2>2. Len(plan) \in Nat
    BY <1>1 DEF IInv, PlanTypeOK
  <2> QED
    BY <2>1, <2>2, NothingProcessed
<1> QED
  BY <1>1, <1>2, <1>3, <1>4 DEF RankInv

\* While the plan is made, no rank has begun.
LEMMA MakePlanInv == ASSUME RankInv, MakePlan PROVE RankInv'
<1>1. IInv'
  BY PlanStepInv DEF RankInv, MakePlan
<1>2. UNCHANGED rankVars /\ ~finished
  BY DEF MakePlan, PlanNext, AddForest, FinishPlan
<1>3. \A r \in Tasks : pc[r] = "plan" /\ partition[r] = 0
  BY <1>2 DEF RankInv, RankProgress
<1>4. \A r \in Tasks : processed[r] = <<>>
  BY <1>3 DEF RankInv, ProcessedSoFar, Partitions
<1>5. Shapes' /\ RankProgress' /\ AllAgree'
  BY <1>2, <1>3 DEF rankVars, RankInv, Shapes, RankProgress, AllAgree
<1>6. ProcessedSoFar'
  <2>1. Len(plan') \in Nat
    BY <1>1 DEF IInv, PlanTypeOK
  <2>2. \A r \in Tasks : partition'[r] = 0 /\ processed'[r] = <<>>
    BY <1>2, <1>3, <1>4 DEF rankVars
  <2>3. ASSUME NEW r \in Tasks
        PROVE  processed'[r] \in Seq(Partitions') /\ Len(processed'[r]) = 0
    BY <2>2, EmptySeq
  <2>4. \A p \in Partitions' : ~(p < 0)
    BY DEF Partitions
  <2> QED
    BY <2>1, <2>2, <2>3, <2>4 DEF ProcessedSoFar
<1> QED
  BY <1>1, <1>5, <1>6 DEF RankInv

\* What the steps of one rank on its order leave alone.
LEMMA PlanUntouched ==
    ASSUME RankInv, UNCHANGED planVars
    PROVE  IInv' /\ plan' = plan /\ finished' = finished
BY PlanStepInv DEF RankInv, planVars

\* A rank that has sorted is at the first step.
LEMMA SortInv == ASSUME RankInv, NEW r \in Tasks, Sort(r) PROVE RankInv'
<1>1. PICK o \in SetToSeqs(Partitions) :
          /\ \A j, k \in DOMAIN o : j < k => ~Before(o[k], o[j])
          /\ order' = [order EXCEPT ![r] = o]
  BY DEF Sort
<1>2. /\ finished /\ plan # <<>> /\ pc[r] = "plan"
      /\ task' = [task EXCEPT ![r] = [p \in Partitions |-> Unassigned]]
      /\ pc' = [pc EXCEPT ![r] = "assign"]
      /\ UNCHANGED <<planVars, scheme, load, partition, processed>>
  BY DEF Sort
<1>3. IInv' /\ plan' = plan /\ finished' = finished
  BY <1>2, PlanUntouched
<1>4. InCostOrder(o)
  BY <1>1 DEF InCostOrder
<1>5. PlanTypeOK /\ scheme \in Schemes
  BY DEF RankInv, IInv, Shapes
<1>6. o \in Seq(Partitions) /\ Len(o) = Len(plan) /\ Len(plan) \in Nat
  <2>1. Len(plan) \in Nat /\ o \in [1 .. Len(plan) -> Partitions]
    BY <1>4, <1>5, OrderIsBijective
  <2> QED
    BY <2>1
<1>7. Shapes' /\ RankProgress'
  <2>1. Shapes'
    BY <1>1, <1>2 DEF RankInv, Shapes
  <2>2. Partitions' = Partitions
    BY <1>3 DEF Partitions
  <2> QED
    BY <1>1, <1>2, <1>3, <1>6, <2>1, <2>2 DEF RankInv, Shapes, RankProgress
<1>8. ProcessedSoFar'
  <2>1. partition[r] = 0
    BY <1>2 DEF RankInv, RankProgress
  <2>2. processed[r] = <<>>
    BY <2>1 DEF RankInv, ProcessedSoFar, Partitions
  <2>3. Len(processed[r]) = 0 /\ \A p \in Partitions : ~(p < 0)
    BY <2>2 DEF Partitions
  <2>4. \A q \in Tasks : q # r => task'[q] = task[q]
    BY <1>2 DEF RankInv, Shapes
  <2>5. UNCHANGED <<processed, partition>> /\ Partitions' = Partitions
    BY <1>2, <1>3 DEF Partitions
  <2> QED
    BY <1>3, <2>1, <2>3, <2>4, <2>5 DEF RankInv, ProcessedSoFar, Mine
<1>9. AllAgree'
  <2>1. \A steps : steps[0] = Nothing => HasReached(r, 0, o, steps)'
    <3>1. load[r] = [t \in Tasks |-> 0]
      BY <1>2 DEF RankInv, RankProgress
    <3>2. order'[r] = o /\ load'[r] = load[r] /\ pc'[r] = "assign"
          /\ task'[r] = [p \in Partitions |-> Unassigned]
      BY <1>1, <1>2 DEF RankInv, Shapes
    <3> QED
      BY <1>3, <1>6, <3>1, <3>2 DEF HasReached, Nothing
  <2>2. \A q \in Tasks : \A k, steps :
            q # r /\ HasReached(q, k, o, steps) => HasReached(q, k, o, steps)'
    BY <1>1, <1>2, <1>3 DEF RankInv, Shapes, HasReached
  <2>3. \A q \in Tasks : q # r => pc'[q] = pc[q]
    BY <1>2 DEF RankInv, Shapes
  <2>4. CASE \E q \in Tasks : pc[q] # "plan"
    <3>1. PICK a, m, steps : OnSteps(a, m, steps)
      BY <2>4 DEF RankInv, AllAgree
    <3>2. a = o
      BY <1>4, <1>5, <3>1, OneOrder DEF OnSteps
    <3>3. 0 \in 0 .. m /\ steps[0] = Nothing
      BY <3>1 DEF OnSteps, AreSteps
    <3>4. \A q \in Tasks : pc'[q] # "plan" => \E k \in 0 .. m : HasReached(q, k, o, steps)'
      BY <2>1, <2>2, <2>3, <3>1, <3>2, <3>3 DEF OnSteps
    <3>5. OnSteps(o, m, steps)'
      BY <1>2, <1>3, <3>1, <3>2, <3>4, PlanStays DEF OnSteps
    <3> QED
      BY <3>5 DEF AllAgree
  <2>5. CASE \A q \in Tasks : pc[q] = "plan"
    <3>0. PICK steps : steps = [k \in 0 .. 0 |-> Nothing]
      OBVIOUS
    <3>1. AreSteps(o, 0, steps)
      <4>1. Nothing \in Assignment
        BY DEF Nothing, Assignment
      <4> QED
        BY <1>6, <3>0, <4>1 DEF AreSteps
    <3>2. steps[0] = Nothing
      BY <3>0
    <3>3. \A q \in Tasks : pc'[q] # "plan" => \E k \in 0 .. 0 : HasReached(q, k, o, steps)'
      <4> SUFFICES ASSUME NEW q \in Tasks, pc'[q] # "plan"
                   PROVE  HasReached(q, 0, o, steps)'
        OBVIOUS
      <4>1. q = r
        BY <2>3, <2>5
      <4> QED
        BY <2>1, <3>2, <4>1
    <3>4. OnSteps(o, 0, steps)'
      <4>1. InCostOrder(o)' /\ AreSteps(o, 0, steps)'
        BY <1>2, <1>3, <1>4, <3>1, PlanStays
      <4> QED
        BY <3>3, <4>1 DEF OnSteps
    <3> QED
      BY <3>4 DEF AllAgree
  <2> QED
    BY <2>4, <2>5
<1> QED
  BY <1>3, <1>7, <1>8, <1>9 DEF RankInv

\* A rank that assigns a chunk makes the next step, or follows one that was there.
LEMMA AssignInv == ASSUME RankInv, NEW r \in Tasks, Assign(r) PROVE RankInv'
<1> DEFINE p == Head(order[r])
           best == Best(load[r])
<1>1. /\ pc[r] = "assign" /\ order[r] # <<>>
      /\ task' = [task EXCEPT ![r][p] = best]
      /\ load' = [load EXCEPT ![r][best] = @ + ChunkCost(p)]
      /\ order' = [order EXCEPT ![r] = Tail(@)]
      /\ UNCHANGED <<planVars, scheme, pc, partition, processed>>
  BY DEF Assign, BestTask, Best
<1>2. IInv' /\ plan' = plan /\ finished' = finished
  BY <1>1, PlanUntouched
<1>3. PlanTypeOK /\ scheme \in Schemes /\ Partitions' = Partitions
  BY <1>2 DEF RankInv, IInv, Shapes, Partitions
<1>4. /\ order[r] \in Seq(Partitions) /\ Len(order[r]) \in Nat \ {0}
      /\ p \in Partitions /\ p = order[r][1]
      /\ order'[r] = Tail(order[r]) /\ order'[r] \in Seq(Partitions)
      /\ Len(order'[r]) = Len(order[r]) - 1
      /\ \A i \in 1 .. Len(order'[r]) : order'[r][i] = order[r][i + 1]
  <2>1. order[r] \in Seq(Partitions)
    BY <1>1 DEF RankInv, RankProgress
  <2>2. order'[r] = Tail(order[r])
    BY <1>1 DEF RankInv, Shapes
  <2>3. Len(order[r]) \in Nat \ {0}
    BY <1>1, <2>1, EmptySeq
  <2>4. p = order[r][1] /\ p \in Partitions
    BY <2>1, <2>3
  <2>5. /\ Tail(order[r]) \in Seq(Partitions)
        /\ Len(Tail(order[r])) = Len(order[r]) - 1
        /\ \A i \in 1 .. Len(Tail(order[r])) : Tail(order[r])[i] = order[r][i + 1]
    BY <1>1, <2>1, HeadTailProperties
  <2> HIDE DEF p
  <2> QED
    BY <2>1, <2>2, <2>3, <2>4, <2>5
<1>5. Shapes'
  BY <1>1 DEF RankInv, Shapes
<1>6. RankProgress'
  <2>1. \A q \in Tasks : q # r => order'[q] = order[q] /\ load'[q] = load[q]
    BY <1>1 DEF RankInv, Shapes
  <2> QED
    BY <1>1, <1>2, <1>3, <1>4, <2>1 DEF RankInv, RankProgress
<1>7. \A q \in Tasks : q # r => order'[q] = order[q] /\ load'[q] = load[q] /\ task'[q] = task[q]
  BY <1>1 DEF RankInv, Shapes
<1>8. ProcessedSoFar'
  <2>1. partition[r] = 0
    BY <1>1 DEF RankInv, RankProgress
  <2>2. \A x \in Partitions : ~(x < 0)
    BY DEF Partitions
  <2>3. processed[r] \in Seq(Partitions) /\ \A j \in 1 .. Len(processed[r]) : FALSE
    <3>1. processed[r] \in Seq(Partitions)
      BY DEF RankInv, ProcessedSoFar
    <3>2. ASSUME NEW j \in 1 .. Len(processed[r])
          PROVE  processed[r][j] < 0 /\ processed[r][j] \in Partitions
      BY <2>1, <3>1, <3>2, ElementOfSeq DEF RankInv, ProcessedSoFar
    <3> QED
      BY <2>2, <3>1, <3>2
  <2>4. UNCHANGED <<processed, partition>>
    BY <1>1
  <2> QED
    BY <1>2, <1>3, <1>7, <2>1, <2>2, <2>3, <2>4 DEF RankInv, ProcessedSoFar, Mine
<1>9. PICK o, m, steps : OnSteps(o, m, steps)
  BY <1>1 DEF RankInv, AllAgree
<1>10. PICK k \in 0 .. m : HasReached(r, k, o, steps)
  BY <1>1, <1>9 DEF OnSteps
<1>11. /\ m \in 0 .. Len(plan) /\ Len(plan) \in Nat
       /\ steps \in [0 .. m -> Assignment] /\ steps[0] = Nothing
       /\ \A i \in 0 .. m - 1 : steps[i + 1] = Placed(steps[i], o[i + 1])
  BY <1>3, <1>9 DEF OnSteps, AreSteps, PlanTypeOK
<1>12. k < Len(plan) /\ p = o[k + 1]
  BY <1>4, <1>10, <1>11 DEF HasReached
<1>13. /\ load'[r] = Placed(steps[k], p).load
       /\ task'[r] = Placed(steps[k], p).task
  <2>1. load[r] = steps[k].load /\ task[r] = steps[k].task
    BY <1>10 DEF HasReached
  <2>2. /\ load'[r] = [load[r] EXCEPT ![best] = @ + ChunkCost(p)]
        /\ task'[r] = [task[r] EXCEPT ![p] = best]
    BY <1>1 DEF RankInv, Shapes
  <2> QED
    BY <2>1, <2>2 DEF Placed
<1> HIDE DEF p, best
\* One more step of the steps some rank has already made, or a new one.
<1>14. \E n, more : /\ n \in k + 1 .. Len(plan) /\ m <= n
                    /\ AreSteps(o, n, more)
                    /\ \A i \in 0 .. m : more[i] = steps[i]
                    /\ more[k + 1] = Placed(steps[k], p)
  <2>1. CASE k < m
    <3>1. steps[k + 1] = Placed(steps[k], p)
      BY <1>11, <1>12, <2>1
    <3> QED
      BY <1>9, <1>11, <2>1, <3>1 DEF OnSteps
  <2>2. CASE k = m
    <3>0. PICK more : more = [i \in 0 .. m + 1 |-> IF i <= m THEN steps[i] ELSE Placed(steps[m], p)]
      OBVIOUS
    <3>1. Placed(steps[m], p) \in Assignment
      BY <1>3, <1>4, <1>11, PlacedType
    <3>2. more \in [0 .. m + 1 -> Assignment] /\ m + 1 \in 0 .. Len(plan)
      BY <1>11, <1>12, <2>2, <3>0, <3>1
    <3>3. /\ \A i \in 0 .. m : more[i] = steps[i]
          /\ more[m + 1] = Placed(steps[m], p)
      BY <1>11, <3>0
    <3>4. ASSUME NEW i \in 0 .. m PROVE more[i + 1] = Placed(more[i], o[i + 1])
      <4>1. CASE i < m
        <5>1. i \in 0 .. m - 1 /\ i + 1 \in 0 .. m
          BY <1>11, <4>1
        <5> QED
          BY <1>11, <3>3, <5>1
      <4>2. CASE i = m
        BY <1>12, <2>2, <3>3, <4>2
      <4> QED
        BY <1>11, <4>1, <4>2
    <3>5. more[0] = Nothing
      BY <1>11, <3>3
    <3>6. 0 .. (m + 1) - 1 = 0 .. m
      BY <1>11
    <3>7. AreSteps(o, m + 1, more)
      BY <3>2, <3>4, <3>5, <3>6 DEF AreSteps
    <3>8. m + 1 \in k + 1 .. Len(plan) /\ m <= m + 1
      BY <1>11, <1>12, <2>2
    <3> QED
      BY <2>2, <3>3, <3>7, <3>8
  <2> QED
    BY <1>11, <2>1, <2>2
<1>15. PICK n, more : /\ n \in k + 1 .. Len(plan) /\ m <= n
                      /\ AreSteps(o, n, more)
                      /\ \A i \in 0 .. m : more[i] = steps[i]
                      /\ more[k + 1] = Placed(steps[k], p)
  BY <1>14
<1>16. HasReached(r, k + 1, o, more)'
  <2>1. Len(order'[r]) = Len(plan) - (k + 1)
    BY <1>4, <1>10, <1>11 DEF HasReached
  <2>2. \A i \in 1 .. Len(order'[r]) : order'[r][i] = o[k + 1 + i]
    <3> SUFFICES ASSUME NEW i \in 1 .. Len(order'[r]) PROVE order'[r][i] = o[k + 1 + i]
      OBVIOUS
    <3>1. i + 1 \in 1 .. Len(order[r]) /\ k + (i + 1) = k + 1 + i
      BY <1>4, <1>11
    <3> QED
      BY <1>4, <1>10, <3>1 DEF HasReached
  <2> QED
    BY <1>1, <1>2, <1>13, <1>15, <2>1, <2>2 DEF HasReached
<1>17. ASSUME NEW q \in Tasks, pc'[q] # "plan"
       PROVE  \E i \in 0 .. n : HasReached(q, i, o, more)'
  <2>1. CASE q = r
    <3>1. k + 1 \in 0 .. n
      BY <1>11, <1>15
    <3> QED
      BY <1>16, <2>1, <3>1
  <2>2. CASE q # r
    <3>1. PICK i \in 0 .. m : HasReached(q, i, o, steps)
      BY <1>1, <1>9, <1>17 DEF OnSteps
    <3>2. i \in 0 .. n /\ more[i] = steps[i]
      BY <1>11, <1>15, <3>1
    <3>3. HasReached(q, i, o, more)'
      BY <1>1, <1>2, <1>7, <2>2, <3>1, <3>2 DEF HasReached
    <3> QED
      BY <3>2, <3>3
  <2> QED
    BY <2>1, <2>2
<1>18. OnSteps(o, n, more)'
  <2>1. InCostOrder(o)' /\ AreSteps(o, n, more)'
    BY <1>1, <1>2, <1>9, <1>15, PlanStays DEF OnSteps
  <2> QED
    BY <1>17, <2>1 DEF OnSteps
<1> QED
  BY <1>2, <1>5, <1>6, <1>8, <1>18 DEF RankInv, AllAgree

\* A rank with nothing left to assign is at the last step.
LEMMA StartProcessingInv ==
    ASSUME RankInv, NEW r \in Tasks, StartProcessing(r) PROVE RankInv'
<1>1. /\ pc[r] = "assign" /\ order[r] = <<>>
      /\ pc' = [pc EXCEPT ![r] = "process"]
      /\ UNCHANGED <<planVars, scheme, order, load, task, partition, processed>>
  BY DEF StartProcessing
<1>2. IInv' /\ plan' = plan /\ finished' = finished /\ Partitions' = Partitions
  BY <1>1, PlanUntouched DEF Partitions
<1>3. Shapes' /\ RankProgress' /\ ProcessedSoFar'
  <2>1. Shapes'
    BY <1>1, <1>2 DEF RankInv, Shapes
  <2>2. RankProgress'
    BY <1>1, <1>2 DEF RankInv, Shapes, RankProgress
  <2>3. ProcessedSoFar'
    BY <1>1, <1>2 DEF RankInv, Shapes, ProcessedSoFar, Mine
  <2> QED
    BY <2>1, <2>2, <2>3
<1>4. PICK o, m, steps : OnSteps(o, m, steps)
  BY <1>1 DEF RankInv, AllAgree
<1>5. ASSUME NEW q \in Tasks, pc'[q] # "plan"
      PROVE  \E k \in 0 .. m : HasReached(q, k, o, steps)'
  <2>1. pc[q] # "plan"
    BY <1>1, <1>5 DEF RankInv, Shapes
  <2>2. PICK k \in 0 .. m : HasReached(q, k, o, steps)
    BY <1>4, <2>1 DEF OnSteps
  <2>3. pc'[q] # "assign" => k = Len(plan)
    <3>1. CASE q = r
      <4>1. Len(order[r]) = 0 /\ Len(plan) \in Nat /\ m \in 0 .. Len(plan)
        BY <1>1, <1>4, EmptySeq DEF RankInv, IInv, PlanTypeOK, OnSteps, AreSteps
      <4> QED
        BY <2>2, <3>1, <4>1 DEF HasReached
    <3>2. CASE q # r
      BY <1>1, <2>2, <3>2 DEF RankInv, Shapes, HasReached
    <3> QED
      BY <3>1, <3>2
  <2> QED
    BY <1>1, <1>2, <2>2, <2>3 DEF HasReached
<1>6. OnSteps(o, m, steps)'
  <2>1. InCostOrder(o)' /\ AreSteps(o, m, steps)'
    BY <1>1, <1>2, <1>4, PlanStays DEF OnSteps
  <2> QED
    BY <1>5, <2>1 DEF OnSteps
<1> QED
  BY <1>2, <1>3, <1>6 DEF RankInv, AllAgree

\* In the loop over the partitions a rank's assignment does not change.
LEMMA LoopAgrees ==
    ASSUME RankInv, NEW r \in Tasks, pc[r] = "process",
           UNCHANGED <<planVars, scheme, order, load, task>>,
           \/ pc' = pc
           \/ pc' = [pc EXCEPT ![r] = "done"]
    PROVE  AllAgree'
<1>1. plan' = plan
  BY PlanUntouched
<1>2. PICK o, m, steps : OnSteps(o, m, steps)
  BY DEF RankInv, AllAgree
<1>3. ASSUME NEW q \in Tasks, pc'[q] # "plan"
      PROVE  \E k \in 0 .. m : HasReached(q, k, o, steps)'
  <2>1. pc[q] # "plan" /\ (pc[q] = "assign" => pc'[q] = "assign")
    BY <1>3 DEF RankInv, Shapes
  <2>2. PICK k \in 0 .. m : HasReached(q, k, o, steps)
    BY <1>2, <2>1 DEF OnSteps
  <2> QED
    BY <1>1, <2>1, <2>2 DEF HasReached
<1>4. InCostOrder(o)' /\ AreSteps(o, m, steps)'
  BY <1>1, <1>2, PlanStays DEF OnSteps
<1>5. OnSteps(o, m, steps)'
  BY <1>3, <1>4 DEF OnSteps
<1> QED
  BY <1>5 DEF AllAgree

\* A rank processes a partition, or passes one that is not its own.
LEMMA ProcessPartitionInv ==
    ASSUME RankInv, NEW r \in Tasks, ProcessPartition(r) PROVE RankInv'
<1> DEFINE x == partition[r]
<1>1. /\ pc[r] = "process" /\ x \in Partitions
      /\ processed' = [processed EXCEPT ![r] = IF Mine(r, x) THEN Append(@, x) ELSE @]
      /\ partition' = [partition EXCEPT ![r] = @ + 1]
      /\ UNCHANGED <<planVars, scheme, pc, order, load, task>>
  BY DEF ProcessPartition
<1>2. IInv' /\ plan' = plan /\ finished' = finished /\ Partitions' = Partitions
  BY <1>1, PlanUntouched DEF Partitions
<1>3. Shapes' /\ RankProgress'
  BY <1>1, <1>2 DEF RankInv, Shapes, RankProgress
<1>4. AllAgree'
  BY <1>1, LoopAgrees
<1>5. Len(plan) \in Nat /\ x \in 0 .. Len(plan) - 1
  BY <1>1 DEF RankInv, IInv, PlanTypeOK, Partitions
<1>6. /\ processed[r] \in Seq(Partitions)
      /\ \A j \in 1 .. Len(processed[r]) : processed[r][j] < x /\ Mine(r, processed[r][j])
      /\ \A j, k \in 1 .. Len(processed[r]) : j < k => processed[r][j] < processed[r][k]
      /\ \A p \in Partitions : p < x /\ Mine(r, p) =>
            \E j \in 1 .. Len(processed[r]) : processed[r][j] = p
  BY DEF RankInv, ProcessedSoFar
<1>7. /\ partition'[r] = x + 1
      /\ processed'[r] = IF Mine(r, x) THEN Append(processed[r], x) ELSE processed[r]
      /\ \A q \in Tasks : q # r => partition'[q] = partition[q] /\ processed'[q] = processed[q]
  BY <1>1 DEF RankInv, Shapes
<1>8. \A q, p : Mine(q, p)' <=> Mine(q, p)
  BY <1>1 DEF Mine
<1> HIDE DEF x
<1>9. /\ processed'[r] \in Seq(Partitions)
      /\ \A j \in 1 .. Len(processed'[r]) : processed'[r][j] < x + 1 /\ Mine(r, processed'[r][j])
      /\ \A j, k \in 1 .. Len(processed'[r]) : j < k => processed'[r][j] < processed'[r][k]
      /\ \A p \in Partitions : p < x + 1 /\ Mine(r, p) =>
            \E j \in 1 .. Len(processed'[r]) : processed'[r][j] = p
  <2>1. CASE ~Mine(r, x)
    <3>1. \A p \in Partitions : p < x + 1 /\ Mine(r, p) => p < x
      BY <1>5, <2>1 DEF Partitions
    <3>2. \A j \in 1 .. Len(processed[r]) : processed[r][j] < x + 1
      <4> SUFFICES ASSUME NEW j \in 1 .. Len(processed[r]) PROVE processed[r][j] < x + 1
        OBVIOUS
      <4>1. processed[r][j] \in Partitions
        BY <1>6, ElementOfSeq
      <4> QED
        BY <1>5, <1>6, <4>1 DEF Partitions
    <3>3. processed'[r] = processed[r]
      BY <1>7, <2>1
    <3> QED
      BY <1>6, <3>1, <3>2, <3>3
  <2>2. CASE Mine(r, x)
    <3> DEFINE n == Len(processed[r])
    <3>1. /\ processed'[r] \in Seq(Partitions) /\ n \in Nat
          /\ Len(processed'[r]) = n + 1
          /\ \A j \in 1 .. n : processed'[r][j] = processed[r][j]
          /\ processed'[r][n + 1] = x
      BY <1>1, <1>6, <1>7, <2>2, AppendProperties DEF x
    <3>2. \A j \in 1 .. n : processed[r][j] \in Partitions
      BY <1>6, ElementOfSeq
    <3> HIDE DEF n
    <3>3. \A j \in 1 .. n + 1 : j \in 1 .. n \/ j = n + 1
      BY <3>1
    <3>4. \A j \in 1 .. n : processed[r][j] < x /\ Mine(r, processed[r][j])
      BY <1>6 DEF n
    <3>5. \A j \in 1 .. n + 1 : processed'[r][j] < x + 1 /\ Mine(r, processed'[r][j])
      <4> SUFFICES ASSUME NEW j \in 1 .. n + 1
                   PROVE  processed'[r][j] < x + 1 /\ Mine(r, processed'[r][j])
        OBVIOUS
      <4>1. CASE j = n + 1
        BY <1>5, <2>2, <3>1, <4>1
      <4>2. CASE j \in 1 .. n
        <5>1. processed'[r][j] = processed[r][j] /\ processed[r][j] \in Nat
          BY <3>1, <3>2, <4>2 DEF Partitions
        <5> QED
          BY <1>5, <3>4, <4>2, <5>1
      <4> QED
        BY <3>3, <4>1, <4>2
    <3>6. \A j, k \in 1 .. n + 1 : j < k => processed'[r][j] < processed'[r][k]
      <4> SUFFICES ASSUME NEW j \in 1 .. n + 1, NEW k \in 1 .. n + 1, j < k
                   PROVE  processed'[r][j] < processed'[r][k]
        OBVIOUS
      <4>1. j \in 1 .. n
        BY <3>1
      <4>2. CASE k = n + 1
        BY <3>1, <3>4, <4>1, <4>2
      <4>3. CASE k \in 1 .. n
        BY <1>6, <3>1, <4>1, <4>3 DEF n
      <4> QED
        BY <3>3, <4>2, <4>3
    <3>7. ASSUME NEW p \in Partitions, p < x + 1, Mine(r, p)
          PROVE  \E j \in 1 .. n + 1 : processed'[r][j] = p
      <4>1. CASE p = x
        BY <3>1, <4>1
      <4>2. CASE p # x
        <5>1. p < x
          BY <1>5, <3>7, <4>2 DEF Partitions
        <5>2. PICK j \in 1 .. n : processed[r][j] = p
          BY <1>6, <3>7, <5>1 DEF n
        <5> QED
          BY <3>1, <5>2
      <4> QED
        BY <4>1, <4>2
    <3> QED
      BY <3>1, <3>5, <3>6, <3>7
  <2> QED
    BY <2>1, <2>2
<1>10. ProcessedSoFar'
  <2>1. x + 1 \in 0 .. Len(plan)
    BY <1>5
  <2>2. ASSUME NEW q \in Tasks, q # r
        PROVE  /\ partition'[q] = partition[q] /\ processed'[q] = processed[q]
               /\ partition[q] \in 0 .. Len(plan)
               /\ processed[q] \in Seq(Partitions)
               /\ \A j \in 1 .. Len(processed[q]) :
                     processed[q][j] < partition[q] /\ Mine(q, processed[q][j])
               /\ \A j, k \in 1 .. Len(processed[q]) : j < k => processed[q][j] < processed[q][k]
               /\ \A p \in Partitions : p < partition[q] /\ Mine(q, p) =>
                     \E j \in 1 .. Len(processed[q]) : processed[q][j] = p
    BY <1>7, <2>2 DEF RankInv, ProcessedSoFar
  <2>3. ASSUME NEW q \in Tasks
        PROVE  /\ partition'[q] \in 0 .. Len(plan)
               /\ processed'[q] \in Seq(Partitions)
               /\ \A j \in 1 .. Len(processed'[q]) :
                     processed'[q][j] < partition'[q] /\ Mine(q, processed'[q][j])
               /\ \A j, k \in 1 .. Len(processed'[q]) : j < k => processed'[q][j] < processed'[q][k]
               /\ \A p \in Partitions : p < partition'[q] /\ Mine(q, p) =>
                     \E j \in 1 .. Len(processed'[q]) : processed'[q][j] = p
    <3>1. CASE q = r
      BY <1>7, <1>9, <2>1, <3>1
    <3>2. CASE q # r
      BY <2>2, <3>2
    <3> QED
      BY <3>1, <3>2
  <2> QED
    BY <1>2, <1>8, <2>3 DEF ProcessedSoFar
<1> QED
  BY <1>2, <1>3, <1>4, <1>10 DEF RankInv

\* A rank has passed all partitions.
LEMMA FinishInv == ASSUME RankInv, NEW r \in Tasks, Finish(r) PROVE RankInv'
<1>1. /\ pc[r] = "process" /\ partition[r] \notin Partitions
      /\ pc' = [pc EXCEPT ![r] = "done"]
      /\ UNCHANGED <<planVars, scheme, order, load, task, partition, processed>>
  BY DEF Finish
<1>2. IInv' /\ plan' = plan /\ finished' = finished /\ Partitions' = Partitions
  BY <1>1, PlanUntouched DEF Partitions
<1>3. partition[r] = Len(plan)
  BY <1>1 DEF RankInv, ProcessedSoFar, Partitions, IInv, PlanTypeOK
<1>4. Shapes' /\ RankProgress' /\ ProcessedSoFar'
  BY <1>1, <1>2, <1>3 DEF RankInv, Shapes, RankProgress, ProcessedSoFar, Mine
<1>5. AllAgree'
  BY <1>1, LoopAgrees
<1> QED
  BY <1>2, <1>4, <1>5 DEF RankInv

\* Every step keeps the ranks in agreement.
LEMMA RankStep == RankInv /\ [Next]_vars => RankInv'
<1> SUFFICES ASSUME RankInv, [Next]_vars PROVE RankInv'
  OBVIOUS
<1>1. CASE MakePlan
  BY <1>1, MakePlanInv
<1>2. ASSUME NEW r \in Tasks,
             Sort(r) \/ Assign(r) \/ StartProcessing(r) \/ ProcessPartition(r) \/ Finish(r)
      PROVE  RankInv'
  BY <1>2, SortInv, AssignInv, StartProcessingInv, ProcessPartitionInv, FinishInv
<1>3. CASE UNCHANGED vars
  <2>1. IInv' /\ plan' = plan /\ finished' = finished /\ scheme' = scheme /\ Partitions' = Partitions
    BY <1>3, PlanUntouched DEF vars, rankVars, Partitions
  <2>2. Shapes' /\ RankProgress' /\ ProcessedSoFar'
    BY <1>3, <2>1 DEF vars, rankVars, RankInv, Shapes, RankProgress, ProcessedSoFar, Mine
  <2>3. ASSUME NEW o, NEW m, NEW steps, OnSteps(o, m, steps) PROVE OnSteps(o, m, steps)'
    BY <1>3, <2>1, <2>3, PlanStays DEF vars, rankVars, OnSteps, HasReached
  <2>4. AllAgree'
    BY <1>3, <2>3 DEF vars, rankVars, RankInv, AllAgree
  <2> QED
    BY <2>1, <2>2, <2>4 DEF RankInv
<1> QED
  BY <1>1, <1>2, <1>3 DEF Next

-----------------------------------------------------------------------------

\* Along the steps, every chunk that was placed is some task's.
LEMMA StepsAssign ==
    ASSUME PlanTypeOK, scheme \in Schemes, NEW o, NEW m, NEW steps,
           InCostOrder(o), AreSteps(o, m, steps)
    PROVE  \A k \in 0 .. m : \A j \in 1 .. k : steps[k].task[o[j]] \in Tasks
<1> DEFINE Bad == {k \in 0 .. m : ~(\A j \in 1 .. k : steps[k].task[o[j]] \in Tasks)}
<1>1. SUFFICES ASSUME Bad # {} PROVE FALSE
  OBVIOUS
<1>2. /\ m \in 0 .. Len(plan) /\ Len(plan) \in Nat
      /\ steps \in [0 .. m -> Assignment]
      /\ \A k \in 0 .. m - 1 : steps[k + 1] = Placed(steps[k], o[k + 1])
      /\ o \in [1 .. Len(plan) -> Partitions]
  BY OrderIsBijective DEF AreSteps
<1>3. Bad \in SUBSET Nat
  BY <1>2
<1>4. PICK k \in Bad : \A i \in Bad : k <= i
  BY <1>1, <1>3, LeastElement
<1>5. k - 1 \in 0 .. m - 1 /\ (k - 1) + 1 = k
  BY <1>2, <1>4
<1>6. \A j \in 1 .. k - 1 : steps[k - 1].task[o[j]] \in Tasks
  BY <1>2, <1>4, <1>5
<1>7. steps[k - 1] \in Assignment /\ o[k] \in Partitions /\ steps[k] = Placed(steps[k - 1], o[k])
  BY <1>2, <1>5
<1>8. ASSUME NEW j \in 1 .. k PROVE steps[k].task[o[j]] \in Tasks
  <2>1. CASE j = k
    BY <1>7, <2>1, PlacedType
  <2>2. CASE j # k
    <3>1. j \in 1 .. k - 1 /\ o[j] \in Partitions
      BY <1>2, <1>5, <2>2
    <3> QED
      BY <1>6, <1>7, <3>1, PlacedType
  <2> QED
    BY <2>1, <2>2
<1> QED
  BY <1>4, <1>8

\* Ranks at the last step have the same assignment.
LEMMA AgreementSuffices == ASSUME RankInv PROVE OneAssignment
<1> SUFFICES ASSUME NEW q \in Tasks, NEW r \in Tasks,
                    pc[q] \in {"process", "done"}, pc[r] \in {"process", "done"}
             PROVE  task[q] = task[r] /\ task[r] \in [Partitions -> Tasks]
  BY DEF OneAssignment
<1>1. PlanTypeOK /\ scheme \in Schemes
  BY DEF RankInv, IInv, Shapes
<1>2. PICK o, m, steps : OnSteps(o, m, steps)
  BY DEF RankInv, AllAgree
<1>3. InCostOrder(o) /\ AreSteps(o, m, steps)
  BY <1>2 DEF OnSteps
<1>4. /\ task[q] = steps[Len(plan)].task /\ task[r] = steps[Len(plan)].task
      /\ Len(plan) \in 0 .. m
  BY <1>2 DEF OnSteps, HasReached
<1>5. \A p \in Partitions : steps[Len(plan)].task[p] \in Tasks
  BY <1>1, <1>3, <1>4, StepsAssign, OrderIsBijective
<1>6. DOMAIN steps[Len(plan)].task = Partitions
  BY <1>3, <1>4 DEF AreSteps, Assignment
<1>7. steps[Len(plan)].task \in [Partitions -> Tasks]
  <2>1. steps[Len(plan)].task \in [Partitions -> Tasks \cup {Unassigned}]
    BY <1>3, <1>4 DEF AreSteps, Assignment
  <2> QED
    BY <1>5, <2>1
<1> QED
  BY <1>4, <1>7

\* Two chunks of the plan have no forest in common, and each forest of the
\* plan is in one of them.
LEMMA ChunkType ==
    ASSUME PlanTypeOK, NEW p \in Partitions
    PROVE  /\ ChunkOf(p).start \in Nat /\ ChunkOf(p).count \in Nat \ {0}
           /\ End(ChunkOf(p)) = ChunkOf(p).start + ChunkOf(p).count
           /\ p \in 0 .. Len(plan) - 1 /\ Len(plan) \in Nat
<1>1. plan \in Seq(Chunk) /\ Len(plan) \in Nat /\ p \in 0 .. Len(plan) - 1
  BY DEF PlanTypeOK, Partitions
<1>2. p + 1 \in 1 .. Len(plan)
  BY <1>1
<1>3. plan[p + 1] \in Chunk
  BY <1>1, <1>2, ElementOfSeq
<1> QED
  BY <1>1, <1>3 DEF ChunkOf, Chunk, End

\* A chunk begins where the one before ends.
LEMMA ChunksFollow ==
    ASSUME PlanTypeOK, Contiguous, NEW p \in Partitions, p + 1 \in Partitions
    PROVE  ChunkOf(p + 1).start = End(ChunkOf(p))
<1>1. p + 1 \in 1 .. (Len(plan) - 1)
  BY ChunkType DEF Partitions
<1> QED
  BY <1>1 DEF Contiguous, Chained, ChunkOf

\* So of two chunks the later begins where the earlier has ended, or after it.
LEMMA ChunksInOrder ==
    ASSUME PlanTypeOK, Contiguous, NEW p \in Partitions
    PROVE  \A q \in Partitions : p < q => End(ChunkOf(p)) <= ChunkOf(q).start
<1> DEFINE Bad == {q \in Partitions : p < q /\ ~(End(ChunkOf(p)) <= ChunkOf(q).start)}
<1>1. SUFFICES ASSUME Bad # {} PROVE FALSE
  OBVIOUS
<1>2. Bad \in SUBSET Nat
  BY DEF Partitions
<1>3. PICK q \in Bad : \A x \in Bad : q <= x
  BY <1>1, <1>2, LeastElement
<1>4. q - 1 \in Partitions /\ (q - 1) + 1 = q /\ q \in Partitions /\ p < q
  BY <1>3, ChunkType DEF Partitions
<1>5. ChunkOf(q).start = End(ChunkOf(q - 1))
  BY <1>4, ChunksFollow
<1>6. CASE q - 1 = p
  BY <1>3, <1>5, <1>6, ChunkType
<1>7. CASE q - 1 # p
  <2>1. q - 1 \notin Bad /\ p < q - 1
    BY <1>3, <1>4, <1>7, ChunkType
  <2>2. End(ChunkOf(p)) <= ChunkOf(q - 1).start
    BY <1>4, <2>1
  <2>3. ChunkOf(q - 1).start <= End(ChunkOf(q - 1))
    BY <1>4, ChunkType
  <2>4. End(ChunkOf(p)) \in Int /\ ChunkOf(q - 1).start \in Int /\ End(ChunkOf(q - 1)) \in Int
    BY <1>4, ChunkType
  <2> QED
    BY <1>3, <1>5, <2>2, <2>3, <2>4
<1> QED
  BY <1>6, <1>7

\* No forest is in two chunks.
LEMMA ChunksAreDisjoint ==
    ASSUME PlanTypeOK, Contiguous, NEW p \in Partitions, NEW q \in Partitions,
           ForestsOf(p) \cap ForestsOf(q) # {}
    PROVE  p = q
<1>1. PICK n : n \in ForestsOf(p) /\ n \in ForestsOf(q)
  OBVIOUS
<1>2. /\ ChunkOf(p).start <= n /\ n < End(ChunkOf(p))
      /\ ChunkOf(q).start <= n /\ n < End(ChunkOf(q))
      /\ n \in Int
  BY <1>1, ChunkType, SMTT(30) DEF ForestsOf
<1>3. ~(p < q) /\ ~(q < p)
  BY <1>2, ChunksInOrder, ChunkType
<1> QED
  BY <1>3, ChunkType

\* Every forest below the end of the plan is in a chunk.
LEMMA ChunksCover ==
    ASSUME PlanTypeOK, Contiguous
    PROVE  UNION {ForestsOf(p) : p \in Partitions} = 0 .. (ClosedTo(plan) - 1)
<1>1. ClosedTo(plan) \in Nat /\ Len(plan) \in Nat
  BY ClosedToNat DEF PlanTypeOK
<1>2. ASSUME NEW p \in Partitions, NEW n \in ForestsOf(p)
      PROVE  n \in 0 .. (ClosedTo(plan) - 1)
  <2> DEFINE last == Len(plan) - 1
  <2>1. last \in Partitions /\ last + 1 = Len(plan) /\ plan # <<>>
    BY ChunkType, EmptySeq DEF Partitions, PlanTypeOK
  <2>2. ClosedTo(plan) = End(ChunkOf(last))
    BY <2>1 DEF ClosedTo, ChunkOf
  <2>3. End(ChunkOf(p)) <= End(ChunkOf(last))
    <3>1. CASE p = last
      BY <3>1, ChunkType
    <3>2. CASE p # last
      <4>1. p < last
        BY <3>2, ChunkType
      <4>2. End(ChunkOf(p)) <= ChunkOf(last).start
        BY <2>1, <4>1, ChunksInOrder
      <4> QED
        BY <2>1, <4>2, ChunkType
    <3> QED
      BY <3>1, <3>2
  <2>4. n \in Int /\ ChunkOf(p).start <= n /\ n < End(ChunkOf(p))
    BY ChunkType DEF ForestsOf
  <2> QED
    BY <1>1, <2>2, <2>3, <2>4, ChunkType
<1>3. ASSUME NEW n \in 0 .. (ClosedTo(plan) - 1)
      PROVE  \E p \in Partitions : n \in ForestsOf(p)
  <2> DEFINE After == {p \in Partitions : n < End(ChunkOf(p))}
  <2>1. plan # <<>>
    BY <1>1 DEF ClosedTo
  <2>2. Len(plan) - 1 \in Partitions /\ (Len(plan) - 1) + 1 = Len(plan)
    BY <1>1, <2>1, EmptySeq DEF Partitions, PlanTypeOK
  <2>3. Len(plan) - 1 \in After
    BY <1>1, <2>1, <2>2 DEF ClosedTo, ChunkOf
  <2>4. PICK p \in After : \A q \in After : p <= q
    <3>1. After \in SUBSET Nat
      BY DEF Partitions
    <3> QED
      BY <2>3, <3>1, LeastElement
  <2>5. p \in Partitions /\ n < End(ChunkOf(p))
    BY <2>4
  <2>6. ChunkOf(p).start <= n
    <3>1. CASE p = 0
      <4>1. ChunkOf(p).start = 0
        BY <2>1, <3>1 DEF ChunkOf, Contiguous, Chained
      <4> QED
        BY <4>1
    <3>2. CASE p # 0
      <4>1. p - 1 \in Partitions /\ (p - 1) + 1 = p
        BY <2>5, <3>2 DEF Partitions
      <4>2. p - 1 \notin After
        BY <2>4, <4>1, ChunkType
      <4>3. ~(n < End(ChunkOf(p - 1)))
        BY <4>1, <4>2
      <4>4. ChunkOf(p).start = End(ChunkOf(p - 1))
        BY <2>5, <4>1, ChunksFollow
      <4> QED
        BY <4>1, <4>3, <4>4, ChunkType
    <3> QED
      BY <3>1, <3>2
  <2>7. n \in ForestsOf(p)
    BY <2>5, <2>6, ChunkType DEF ForestsOf
  <2> QED
    BY <2>5, <2>7
<1> QED
  BY <1>2, <1>3

\* A finished plan is closed: no forest waits in a chunk that is being filled.
PlanClosed == finished => count = 0

\* A finished plan has no chunk in hand.
LEMMA PlanClosedStep == PlanClosed /\ [Next]_vars => PlanClosed'
<1>1. [PlanNext]_planVars /\ PlanClosed => PlanClosed'
  BY DEF PlanNext, AddForest, FinishPlan, planVars, PlanClosed
<1> QED
  BY <1>1, RanksKeepPlan

\* What two ranks have processed is different, or the same by the same rank.
LEMMA NoForestTwice == ASSUME RankInv PROVE UniqueForests
<1> SUFFICES ASSUME NEW q \in Tasks, NEW r \in Tasks,
                    NEW j \in DOMAIN processed[q], NEW k \in DOMAIN processed[r],
                    ForestsOf(processed[q][j]) \cap ForestsOf(processed[r][k]) # {}
             PROVE  q = r /\ j = k
  BY DEF UniqueForests
<1>1. PlanTypeOK /\ Contiguous
  BY DEF RankInv, IInv
<1>2. /\ processed[q] \in Seq(Partitions) /\ j \in 1 .. Len(processed[q])
      /\ processed[r] \in Seq(Partitions) /\ k \in 1 .. Len(processed[r])
  BY LenProperties DEF RankInv, ProcessedSoFar
<1>3. processed[q][j] \in Partitions /\ processed[r][k] \in Partitions
  BY <1>2, ElementOfSeq
<1>4. processed[q][j] = processed[r][k]
  BY <1>1, <1>3, ChunksAreDisjoint
<1>5. /\ processed[q][j] < partition[q] /\ Mine(q, processed[q][j])
      /\ processed[r][k] < partition[r] /\ Mine(r, processed[r][k])
  BY <1>2 DEF RankInv, ProcessedSoFar
<1>6. pc[q] \in {"process", "done"} /\ pc[r] \in {"process", "done"}
  BY <1>3, <1>5 DEF RankInv, Shapes, RankProgress, Partitions
<1>7. q = r
  BY <1>4, <1>5, <1>6, AgreementSuffices DEF OneAssignment, Mine
<1>8. ~(j < k) /\ ~(k < j)
  <2>1. \A a, b \in 1 .. Len(processed[r]) : a < b => processed[r][a] < processed[r][b]
    BY DEF RankInv, ProcessedSoFar
  <2>2. processed[r][k] \in Nat
    BY <1>3 DEF Partitions
  <2> QED
    BY <1>2, <1>4, <1>7, <2>1, <2>2
<1> QED
  BY <1>2, <1>7, <1>8

\* When all ranks are done, each chunk was its task's.
LEMMA NoForestLeft == ASSUME RankInv, PlanClosed PROVE NoneLeftOut
<1> SUFFICES ASSUME \A r \in Tasks : pc[r] = "done"
             PROVE  UNION {ForestsOf(p) : p \in UNION {ToSet(processed[r]) : r \in Tasks}}
                        = 0 .. (next - 1)
  BY DEF NoneLeftOut
<1>1. PlanTypeOK /\ Contiguous
  BY DEF RankInv, IInv
<1>2. PICK z \in Tasks : TRUE
  BY TasksAreNumbers
<1>3. finished /\ count = 0
  BY <1>2 DEF RankInv, RankProgress, PlanClosed
<1>4. next = ClosedTo(plan)
  BY <1>1, <1>3, ClosedToNat DEF Contiguous, PlanTypeOK
<1>5. ASSUME NEW p \in Partitions
      PROVE  \E r \in Tasks : p \in ToSet(processed[r])
  <2>1. task[z] \in [Partitions -> Tasks] /\ \A r \in Tasks : task[r] = task[z]
    BY <1>2, AgreementSuffices DEF OneAssignment
  <2>2. Mine(task[z][p], p) /\ task[z][p] \in Tasks
    BY <2>1 DEF Mine
  <2>3. p < partition[task[z][p]]
    BY <2>2, ChunkType, <1>1 DEF RankInv, RankProgress
  <2>4. \E j \in 1 .. Len(processed[task[z][p]]) : processed[task[z][p]][j] = p
    BY <2>2, <2>3 DEF RankInv, ProcessedSoFar
  <2>5. processed[task[z][p]] \in Seq(Partitions)
    BY <2>2 DEF RankInv, ProcessedSoFar
  <2>6. DOMAIN processed[task[z][p]] = 1 .. Len(processed[task[z][p]])
    BY <2>5, LenProperties
  <2>7. p \in ToSet(processed[task[z][p]])
    BY <2>4, <2>6 DEF ToSet
  <2> QED
    BY <2>2, <2>7
<1>6. ASSUME NEW r \in Tasks, NEW p \in ToSet(processed[r])
      PROVE  p \in Partitions
  <2>1. processed[r] \in Seq(Partitions)
    BY DEF RankInv, ProcessedSoFar
  <2>2. DOMAIN processed[r] = 1 .. Len(processed[r])
    BY <2>1, LenProperties
  <2> QED
    BY <2>1, <2>2, ElementOfSeq DEF ToSet
<1>7. UNION {ToSet(processed[r]) : r \in Tasks} = Partitions
  BY <1>5, <1>6
<1> QED
  BY <1>1, <1>4, <1>7, ChunksCover

\* Between them the ranks process every forest of the input, and none twice,
\* although they exchange nothing: for every input, every pricing and number of
\* ranks, and whatever order qsort() makes of equal keys.
THEOREM ForestsAreSharedOut == Spec => []EveryForestOnce
<1>1. Init => RankInv /\ PlanClosed
  BY RankInit DEF Init, PlanInit, PlanClosed
<1>2. RankInv /\ PlanClosed /\ [Next]_vars => RankInv' /\ PlanClosed'
  BY RankStep, PlanClosedStep
<1>3. RankInv /\ PlanClosed => EveryForestOnce
  BY NoForestTwice, NoForestLeft DEF EveryForestOnce
<1> QED
  BY <1>1, <1>2, <1>3, PTL DEF Spec

-----------------------------------------------------------------------------
(***************************************************************************)
(* That the plan is as good as promised.  Total() is the last of a row of  *)
(* running sums; Packed says of every chunk why it was closed, and from    *)
(* that follows that every division within the budget begins a chunk of    *)
(* its own for each chunk of the plan.                                     *)
(***************************************************************************)

\* The running sums of q from position a on, as Total() computes them.
SumsUp(f, q, a) == f = [n \in Nat |-> IF n <= a THEN 0 ELSE f[n - 1] + q[n]]

Sums(q, a, b) == (CHOOSE f : SumsUp(f, q, a))[b]

\* Total() is the sum over the sizes added so far.
LEMMA TotalIsSum == ASSUME NEW a, NEW b PROVE Total(a, b) = Sums(sizes, a, b)
BY Zenon DEF Total, Sums, SumsUp

\* The running sums up to position n.
UpTo(f, n, q, a) ==
    /\ f = [i \in 0 .. n |-> f[i]]
    /\ \A i \in 0 .. n : f[i] = IF i <= a THEN 0 ELSE f[i - 1] + q[i]

\* Two running sums of one sequence from the same position agree.
LEMMA RunningSumsAgree ==
    ASSUME NEW a \in Nat, NEW n \in Nat, NEW q, NEW f, NEW h, UpTo(f, n, q, a), UpTo(h, n, q, a)
    PROVE  f[n] = h[n]
<1>0. /\ \A i \in 0 .. n : f[i] = IF i <= a THEN 0 ELSE f[i - 1] + q[i]
      /\ \A i \in 0 .. n : h[i] = IF i <= a THEN 0 ELSE h[i - 1] + q[i]
  BY DEF UpTo
<1> DEFINE Wrong == {i \in 0 .. n : f[i] # h[i]}
<1>1. SUFFICES ASSUME Wrong # {} PROVE FALSE
  OBVIOUS
<1>2. Wrong \in SUBSET Nat
  OBVIOUS
<1>3. PICK i \in Wrong : \A j \in Wrong : i <= j
  BY <1>1, <1>2, LeastElement
<1>4. i \in 0 .. n /\ f[i] # h[i]
  BY <1>3
<1>5. CASE i <= a
  BY <1>0, <1>4, <1>5
<1>6. CASE ~(i <= a)
  <2>1. i - 1 \in 0 .. n /\ ~(i <= i - 1)
    BY <1>4, <1>6
  <2>2. f[i - 1] = h[i - 1]
    BY <1>3, <2>1
  <2>3. f[i] = f[i - 1] + q[i] /\ h[i] = h[i - 1] + q[i]
    BY <1>0, <1>4, <1>6, <2>1
  <2> QED
    BY <1>4, <2>2, <2>3, Zenon
<1> QED
  BY <1>5, <1>6

\* There are running sums up to any position: take those up to the one before.
LEMMA UpToExists ==
    ASSUME NEW a \in Nat, NEW n \in Nat, NEW q
    PROVE  \E f : UpTo(f, n, q, a)
<1> DEFINE Missing == {i \in Nat : ~\E f : UpTo(f, i, q, a)}
<1>1. SUFFICES ASSUME Missing # {} PROVE FALSE
  OBVIOUS
<1>2. PICK i \in Missing : \A j \in Missing : i <= j
  BY <1>1, LeastElement
<1>3. CASE i = 0
  <2> DEFINE h == [j \in 0 .. i |-> 0]
  <2>1. h = [j \in 0 .. i |-> h[j]]
    OBVIOUS
  <2>2. \A j \in 0 .. i : h[j] = IF j <= a THEN 0 ELSE h[j - 1] + q[j]
    BY <1>3
  <2> HIDE DEF h
  <2>3. UpTo(h, i, q, a)
    BY <2>1, <2>2 DEF UpTo
  <2> QED
    BY <1>2, <2>3
<1>4. CASE i # 0
  <2>1. i - 1 \in Nat /\ i - 1 \notin Missing
    BY <1>2, <1>4
  <2>2. PICK f : UpTo(f, i - 1, q, a)
    BY <2>1
  <2> DEFINE here == IF i <= a THEN 0 ELSE f[i - 1] + q[i]
             h == [j \in 0 .. i |-> IF j = i THEN here ELSE f[j]]
  <2>3. h = [j \in 0 .. i |-> h[j]]
    OBVIOUS
  <2>4. \A j \in 0 .. i - 1 : h[j] = f[j]
    BY <1>4, <2>1
  <2>5. h[i] = here
    BY <2>1
  <2> HIDE DEF h
  <2>6. ASSUME NEW j \in 0 .. i PROVE h[j] = IF j <= a THEN 0 ELSE h[j - 1] + q[j]
    <3>1. CASE j = i
      <4>1. h[i - 1] = f[i - 1]
        BY <2>1, <2>4
      <4> QED
        BY <2>5, <3>1, <4>1
    <3>2. CASE j # i
      <4>1. j \in 0 .. i - 1
        BY <2>1, <3>2
      <4>2. f[j] = IF j <= a THEN 0 ELSE f[j - 1] + q[j]
        BY <2>2, <4>1 DEF UpTo
      <4>3. ~(j <= a) => j - 1 \in 0 .. i - 1
        BY <4>1
      <4> QED
        BY <2>4, <4>1, <4>2, <4>3
    <3> QED
      BY <3>1, <3>2
  <2>7. UpTo(h, i, q, a)
    BY <2>3, <2>6 DEF UpTo
  <2> QED
    BY <1>2, <2>7
<1> QED
  BY <1>3, <1>4

\* So there is the function that Total() means.
LEMMA SumsUpExists == ASSUME NEW a \in Nat, NEW q PROVE \E f : SumsUp(f, q, a)
<1> DEFINE g(n) == CHOOSE f : UpTo(f, n, q, a)
           h == [n \in Nat |-> g(n)[n]]
<1>1. \A n \in Nat : UpTo(g(n), n, q, a)
  BY UpToExists
<1>2. \A n \in Nat : h[n] = g(n)[n]
  OBVIOUS
<1> HIDE DEF g
<1>3. ASSUME NEW n \in Nat, ~(n <= a) PROVE g(n)[n - 1] = h[n - 1]
  <2>1. n - 1 \in Nat /\ n - 1 \in 0 .. n
    BY <1>3
  <2>2. h[n - 1] = g(n - 1)[n - 1]
    BY <1>2, <2>1
  <2> DEFINE f == g(n)
             e == [i \in 0 .. n - 1 |-> f[i]]
  <2>3. UpTo(f, n, q, a) /\ UpTo(g(n - 1), n - 1, q, a)
    BY <1>1, <2>1
  <2>4. e = [i \in 0 .. n - 1 |-> e[i]]
    OBVIOUS
  <2>5. ASSUME NEW i \in 0 .. n - 1 PROVE e[i] = IF i <= a THEN 0 ELSE e[i - 1] + q[i]
    <3>1. i \in 0 .. n /\ (~(i <= a) => i - 1 \in 0 .. n - 1)
      BY <2>1
    <3>2. f[i] = IF i <= a THEN 0 ELSE f[i - 1] + q[i]
      BY <2>3, <3>1 DEF UpTo
    <3> QED
      BY <3>1, <3>2
  <2>6. e[n - 1] = f[n - 1]
    BY <2>1
  <2> HIDE DEF e, f
  <2>7. UpTo(e, n - 1, q, a)
    BY <2>4, <2>5 DEF UpTo
  <2>8. e[n - 1] = g(n - 1)[n - 1]
    BY <2>1, <2>3, <2>7, RunningSumsAgree
  <2> QED
    BY <2>2, <2>6, <2>8 DEF f
<1>4. ASSUME NEW n \in Nat PROVE h[n] = IF n <= a THEN 0 ELSE h[n - 1] + q[n]
  <2>1. n \in 0 .. n
    OBVIOUS
  <2>2. g(n)[n] = IF n <= a THEN 0 ELSE g(n)[n - 1] + q[n]
    BY <1>1, <2>1 DEF UpTo
  <2> QED
    BY <1>2, <1>3, <2>2
<1>5. h = [n \in Nat |-> h[n]]
  OBVIOUS
<1> HIDE DEF h
<1>6. SumsUp(h, q, a)
  BY <1>4, <1>5 DEF SumsUp
<1> QED
  BY <1>6

\* What Total() does at each position, and that it is a number.
LEMMA TotalsStep ==
    ASSUME NEW a \in Nat, NEW b \in Nat, NEW q
    PROVE  Sums(q, a, b) = IF b <= a THEN 0 ELSE Sums(q, a, b - 1) + q[b]
<1>1. PICK f : f = (CHOOSE h : SumsUp(h, q, a))
  OBVIOUS
<1>2. SumsUp(f, q, a)
  BY <1>1, SumsUpExists
<1>3. f[b] = IF b <= a THEN 0 ELSE f[b - 1] + q[b]
  BY <1>2 DEF SumsUp
<1>4. Sums(q, a, b) = f[b] /\ Sums(q, a, b - 1) = f[b - 1]
  BY <1>1, Zenon DEF Sums
<1> QED
  BY <1>3, <1>4

\* The total depends on nothing but the sizes up to its end.
LEMMA TotalsAgree ==
    ASSUME NEW a \in Nat, NEW b \in Nat, NEW p, NEW q, \A i \in 1 .. b : p[i] = q[i]
    PROVE  Sums(p, a, b) = Sums(q, a, b)
<1>1. PICK f : f = [n \in Nat |-> Sums(p, a, n)]
  OBVIOUS
<1>2. PICK h : h = [n \in Nat |-> Sums(q, a, n)]
  OBVIOUS
<1> DEFINE Wrong == {i \in 0 .. b : f[i] # h[i]}
<1>3. CASE Wrong = {}
  BY <1>1, <1>2, <1>3
<1>4. CASE Wrong # {}
  <2>1. Wrong \in SUBSET Nat
    OBVIOUS
  <2>2. PICK i \in Wrong : \A j \in Wrong : i <= j
    BY <1>4, <2>1, LeastElement
  <2>3. i \in 0 .. b /\ i \in Nat /\ f[i] # h[i]
    BY <2>2
  <2>4. f[i] = (IF i <= a THEN 0 ELSE Sums(p, a, i - 1) + p[i])
    BY <1>1, <2>3, TotalsStep
  <2>5. h[i] = (IF i <= a THEN 0 ELSE Sums(q, a, i - 1) + q[i])
    BY <1>2, <2>3, TotalsStep
  <2>6. ~(i <= a)
    BY <2>3, <2>4, <2>5
  <2>7. i - 1 \in 0 .. b /\ i - 1 \in Nat /\ i \in 1 .. b /\ ~(i <= i - 1)
    BY <2>3, <2>6
  <2>8. f[i - 1] = h[i - 1]
    BY <2>2, <2>7
  <2>9. Sums(p, a, i - 1) = Sums(q, a, i - 1)
    BY <1>1, <1>2, <2>7, <2>8
  <2>10. p[i] = q[i]
    BY <2>7
  <2> QED
    BY <2>3, <2>4, <2>5, <2>6, <2>9, <2>10
<1> QED
  BY <1>3, <1>4

\* Totals of whole numbers are whole numbers.
LEMMA TotalsAreNat ==
    ASSUME NEW a \in Nat, NEW b \in Nat, NEW q, \A i \in 1 .. b : q[i] \in Nat
    PROVE  \A i \in 0 .. b : Sums(q, a, i) \in Nat
<1> DEFINE Wrong == {i \in 0 .. b : Sums(q, a, i) \notin Nat}
<1>1. SUFFICES ASSUME Wrong # {} PROVE FALSE
  OBVIOUS
<1>2. Wrong \in SUBSET Nat
  OBVIOUS
<1>3. PICK i \in Wrong : \A j \in Wrong : i <= j
  BY <1>1, <1>2, LeastElement
<1>4. i \in 0 .. b /\ i \in Nat /\ Sums(q, a, i) \notin Nat
  BY <1>3
<1>5. Sums(q, a, i) = IF i <= a THEN 0 ELSE Sums(q, a, i - 1) + q[i]
  BY <1>4, TotalsStep
<1>6. ~(i <= a)
  BY <1>4, <1>5
<1>7. i - 1 \in 0 .. b /\ i \in 1 .. b /\ ~(i <= i - 1)
  BY <1>4, <1>6
<1>8. Sums(q, a, i - 1) \in Nat /\ q[i] \in Nat
  BY <1>3, <1>7
<1> QED
  BY <1>4, <1>5, <1>6, <1>8

\* More forests, from an earlier one on or to a later one, are no smaller.
LEMMA TotalsGrow ==
    ASSUME NEW a \in Nat, NEW c \in Nat, NEW b \in Nat, NEW d \in Nat, NEW q,
           a <= c, b <= d, \A i \in 1 .. d : q[i] \in Nat
    PROVE  Sums(q, c, b) <= Sums(q, a, d)
<1>1. /\ \A i \in 0 .. d : Sums(q, a, i) \in Nat
      /\ \A i \in 0 .. d : Sums(q, c, i) \in Nat
  BY TotalsAreNat
<1>2. Sums(q, c, b) <= Sums(q, c, d)
  <2> DEFINE Wrong == {i \in b .. d : ~(Sums(q, c, b) <= Sums(q, c, i))}
  <2>1. SUFFICES ASSUME Wrong # {} PROVE FALSE
    OBVIOUS
  <2>2. Wrong \in SUBSET Nat
    OBVIOUS
  <2>3. PICK i \in Wrong : \A j \in Wrong : i <= j
    BY <2>1, <2>2, LeastElement
  <2>4. i \in b .. d /\ i \in Nat /\ ~(Sums(q, c, b) <= Sums(q, c, i))
    BY <2>3
  <2>5. i # b
    BY <1>1, <2>4
  <2>6. i - 1 \in b .. d /\ i \in 1 .. d /\ ~(i <= i - 1) /\ i - 1 \in 0 .. d /\ b \in 0 .. d
    BY <2>4, <2>5
  <2>7. Sums(q, c, b) <= Sums(q, c, i - 1)
    BY <2>3, <2>6
  <2>8. Sums(q, c, i) = IF i <= c THEN 0 ELSE Sums(q, c, i - 1) + q[i]
    BY <2>4, TotalsStep
  <2>9. i <= c => Sums(q, c, b) = 0
    <3>1. i <= c => b <= c
      BY <2>6
    <3> QED
      BY <3>1, TotalsStep
  <2>10. q[i] \in Nat /\ Sums(q, c, i - 1) \in Nat /\ Sums(q, c, b) \in Nat
    BY <1>1, <2>6
  <2> QED
    BY <2>4, <2>7, <2>8, <2>9, <2>10
<1>3. Sums(q, c, d) <= Sums(q, a, d)
  <2> DEFINE Wrong == {i \in 0 .. d : ~(Sums(q, c, i) <= Sums(q, a, i))}
  <2>1. SUFFICES ASSUME Wrong # {} PROVE FALSE
    OBVIOUS
  <2>2. Wrong \in SUBSET Nat
    OBVIOUS
  <2>3. PICK i \in Wrong : \A j \in Wrong : i <= j
    BY <2>1, <2>2, LeastElement
  <2>4. i \in 0 .. d /\ i \in Nat /\ ~(Sums(q, c, i) <= Sums(q, a, i))
    BY <2>3
  <2>5. /\ Sums(q, c, i) = IF i <= c THEN 0 ELSE Sums(q, c, i - 1) + q[i]
        /\ Sums(q, a, i) = IF i <= a THEN 0 ELSE Sums(q, a, i - 1) + q[i]
    BY <2>4, TotalsStep
  <2>6. ~(i <= c)
    BY <1>1, <2>4, <2>5
  <2>7. ~(i <= a) /\ i - 1 \in 0 .. d /\ i \in 1 .. d /\ ~(i <= i - 1)
    BY <2>4, <2>6
  <2>8. Sums(q, c, i - 1) <= Sums(q, a, i - 1)
    BY <2>3, <2>7
  <2>9. q[i] \in Nat /\ Sums(q, c, i - 1) \in Nat /\ Sums(q, a, i - 1) \in Nat
    BY <1>1, <2>7
  <2> QED
    BY <2>4, <2>5, <2>6, <2>7, <2>8, <2>9
<1>4. b \in 0 .. d /\ d \in 0 .. d
  OBVIOUS
<1> QED
  BY <1>1, <1>2, <1>3, <1>4

\* The same in the next state.
LEMMA TotalIsSumNext == ASSUME NEW a, NEW b PROVE Total(a, b)' = Sums(sizes', a, b)
BY Zenon DEF Total, Sums, SumsUp

\* Chunk c holds the forests of q from its start to its end, and with a size
\* budget is within it or a single forest.
Fits(c, q, f) ==
    /\ End(c) <= Len(q)
    /\ c.size = Sums(q, c.start, End(c))
    /\ f = 0 => c.size <= SizeBudget \/ c.count = 1

\* Chunk c had to be closed: it has its number of forests, or one forest of its
\* own that is over the budget, or the forest after it would overfill it.
Full(c, q, f) ==
    IF f > 0 THEN c.count = f
    ELSE \/ c.size > SizeBudget
         \/ End(c) < Len(q) /\ Sums(q, c.start, End(c) + 1) > SizeBudget

\* Every chunk of the plan fits, and all but the last one of a finished plan
\* had to be closed; so has the chunk that is being filled room left.
Packed ==
    /\ size = Sums(sizes, ClosedTo(plan), next)
    /\ perFile = 0 => size <= SizeBudget
    /\ perFile > 0 => count <= perFile
    /\ \A k \in 1 .. Len(plan) : Fits(plan[k], sizes, perFile)
    /\ \A k \in 1 .. Len(plan) :
          \/ Full(plan[k], sizes, perFile)
          \/ finished /\ k = Len(plan) /\ (perFile > 0 => plan[k].count < perFile)

\* Appending a forest does not change the sums before it.
LEMMA TotalsKeep ==
    ASSUME NEW q \in Seq(Nat), NEW s \in Nat, NEW a \in Nat, NEW b \in Nat, b <= Len(q)
    PROVE  Sums(Append(q, s), a, b) = Sums(q, a, b)
<1>1. \A i \in 1 .. b : Append(q, s)[i] = q[i]
  OBVIOUS
<1> QED
  BY <1>1, TotalsAgree

\* It adds its size to the sum behind it.
LEMMA TotalsAdd ==
    ASSUME NEW q \in Seq(Nat), NEW s \in Nat, NEW a \in Nat, a <= Len(q)
    PROVE  Sums(Append(q, s), a, Len(q) + 1) = Sums(q, a, Len(q)) + s
<1>1. Len(q) \in Nat /\ Len(q) + 1 \in Nat /\ ~(Len(q) + 1 <= a) /\ Len(q) + 1 - 1 = Len(q)
  OBVIOUS
<1>2. Append(q, s)[Len(q) + 1] = s
  OBVIOUS
<1>3. PICK n : n = Len(q) + 1
  OBVIOUS
<1>4. Sums(Append(q, s), a, n) = Sums(Append(q, s), a, n - 1) + Append(q, s)[n]
  BY <1>1, <1>3, TotalsStep
<1>5. Sums(Append(q, s), a, Len(q)) = Sums(q, a, Len(q))
  BY <1>1, TotalsKeep
<1> QED
  BY <1>1, <1>2, <1>3, <1>4, <1>5

\* No forests have no size.
LEMMA TotalOfNone == ASSUME NEW q, NEW a \in Nat PROVE Sums(q, a, a) = 0
BY TotalsStep

\* What is said of a chunk stays true when a forest is appended.
LEMMA ChunkKeeps ==
    ASSUME NEW c \in Chunk, NEW q \in Seq(Nat), NEW s \in Nat, NEW f \in Nat, Fits(c, q, f)
    PROVE  /\ Fits(c, Append(q, s), f)
           /\ Full(c, q, f) => Full(c, Append(q, s), f)
<1>1. /\ c.start \in Nat /\ c.count \in Nat /\ End(c) \in Nat /\ c.size \in Nat
      /\ Len(q) \in Nat /\ Len(Append(q, s)) = Len(q) + 1
  BY DEF Chunk, End
<1>2. End(c) <= Len(q)
  BY DEF Fits
<1>3. Sums(Append(q, s), c.start, End(c)) = Sums(q, c.start, End(c))
  BY <1>1, <1>2, TotalsKeep
<1>4. ASSUME End(c) < Len(q)
      PROVE  Sums(Append(q, s), c.start, End(c) + 1) = Sums(q, c.start, End(c) + 1)
  <2>1. PICK n : n = End(c) + 1
    OBVIOUS
  <2>2. n \in Nat /\ n <= Len(q)
    BY <1>1, <1>4, <2>1
  <2>3. Sums(Append(q, s), c.start, n) = Sums(q, c.start, n)
    BY <1>1, <2>2, TotalsKeep
  <2> QED
    BY <2>1, <2>3
<1>5. Fits(c, Append(q, s), f)
  BY <1>1, <1>2, <1>3 DEF Fits
<1>6. ASSUME Full(c, q, f) PROVE Full(c, Append(q, s), f)
  BY <1>1, <1>2, <1>4, <1>6 DEF Full
<1> QED
  BY <1>5, <1>6

\* The planner's numbers; the sizes are whole numbers.
LEMMA PlannerNumbers ==
    ASSUME IInv
    PROVE  /\ plan \in Seq(Chunk) /\ next \in Nat /\ start \in Nat /\ count \in Nat
           /\ size \in Nat /\ sizes \in Seq(Nat) /\ Len(sizes) = next
           /\ perFile \in Nat /\ SizeBudget \in Nat
<1>1. /\ plan \in Seq(Chunk) /\ next \in Nat /\ start \in Nat /\ count \in Nat
      /\ size \in Nat /\ sizes \in Seq(Sizes) /\ Len(sizes) = next
      /\ perFile \in PerFiles
  BY DEF IInv, PlanTypeOK
<1>2. perFile \in Nat /\ SizeBudget \in Nat
  BY <1>1, BudgetAssumption
<1>3. sizes \in Seq(Nat)
  <2>1. sizes \in [1 .. Len(sizes) -> Sizes] /\ Len(sizes) \in Nat
    BY <1>1, LenProperties
  <2>2. sizes \in [1 .. Len(sizes) -> Nat]
    BY <2>1, SizesAssumption
  <2> QED
    BY <2>1, <2>2
<1> QED
  BY <1>1, <1>2, <1>3

\* What Packed says of the chunks of plan p while it is being made.
Packs(p, q, f) ==
    \A k \in 1 .. Len(p) : Fits(p[k], q, f) /\ Full(p[k], q, f)

\* So does what is said of all chunks.
LEMMA PacksMore ==
    ASSUME NEW p \in Seq(Chunk), NEW q \in Seq(Nat), NEW s \in Nat, NEW f \in Nat, Packs(p, q, f)
    PROVE  Packs(p, Append(q, s), f)
<1> SUFFICES ASSUME NEW k \in 1 .. Len(p)
             PROVE  Fits(p[k], Append(q, s), f) /\ Full(p[k], Append(q, s), f)
  BY DEF Packs
<1>1. p[k] \in Chunk
  BY ElementOfSeq
<1>2. Fits(p[k], q, f) /\ Full(p[k], q, f)
  BY DEF Packs
<1> QED
  BY <1>1, <1>2, ChunkKeeps

\* A chunk that fits and had to be closed can be appended.
LEMMA PacksAppend ==
    ASSUME NEW p \in Seq(Chunk), NEW q, NEW f, Packs(p, q, f),
           NEW c \in Chunk, Fits(c, q, f), Full(c, q, f)
    PROVE  Packs(Append(p, c), q, f)
<1> SUFFICES ASSUME NEW k \in 1 .. Len(Append(p, c))
             PROVE  Fits(Append(p, c)[k], q, f) /\ Full(Append(p, c)[k], q, f)
  BY DEF Packs
<1>1. CASE k \in 1 .. Len(p)
  <2>1. Append(p, c)[k] = p[k]
    BY <1>1
  <2> QED
    BY <1>1, <2>1 DEF Packs
<1>2. CASE k \notin 1 .. Len(p)
  <2>1. Append(p, c)[k] = c
    BY <1>2
  <2> QED
    BY <2>1
<1> QED
  BY <1>1, <1>2

\* Nothing is packed yet.
LEMMA PackedInit == PlanInit => Packed
<1> SUFFICES ASSUME PlanInit PROVE Packed
  OBVIOUS
<1>1. /\ plan = <<>> /\ next = 0 /\ count = 0 /\ size = 0 /\ sizes = <<>> /\ perFile \in Nat
      /\ SizeBudget \in Nat
  BY BudgetAssumption DEF PlanInit
<1>2. Len(plan) = 0 /\ ClosedTo(plan) = 0
  BY <1>1 DEF ClosedTo
<1>3. Sums(sizes, ClosedTo(plan), next) = 0
  BY <1>1, <1>2, TotalOfNone
<1> QED
  BY <1>1, <1>2, <1>3 DEF Packed

\* While the plan is being made, Packed is Packs and three facts about the rest.
LEMMA PackedIsPacks ==
    ASSUME ~finished
    PROVE  Packed <=> /\ size = Sums(sizes, ClosedTo(plan), next)
                      /\ perFile = 0 => size <= SizeBudget
                      /\ perFile > 0 => count <= perFile
                      /\ Packs(plan, sizes, perFile)
BY DEF Packed, Packs

\* A forest more: the chunk closed before it would have been overfilled by it, the
\* chunk closed after it is over the budget by itself, any other has room for it.
LEMMA AddForestPacks == ASSUME IInv, Packed, NEW s \in Sizes, AddForest(s) PROVE Packed'
<1> DEFINE closed == ClosesBefore(s)
           before == IF closed THEN Append(plan, Current) ELSE plan
           chunk  == [start |-> StartAfter(closed),
                      count |-> IF closed THEN 1 ELSE count + 1,
                      size  |-> IF closed THEN s ELSE size + s]
<1>1. /\ plan \in Seq(Chunk) /\ next \in Nat /\ start \in Nat /\ count \in Nat
      /\ size \in Nat /\ sizes \in Seq(Nat) /\ Len(sizes) = next
      /\ perFile \in Nat /\ s \in Nat /\ SizeBudget \in Nat
  BY PlannerNumbers, SizesAssumption
<1>2. /\ ClosedTo(plan) \in Nat /\ ClosedTo(plan) + count = next
      /\ count > 0 => start = ClosedTo(plan)
      /\ Chained(plan)
  BY <1>1, ClosedToNat DEF IInv, Contiguous
<1>3. ~finished
  BY DEF AddForest
<1>4. /\ size = Sums(sizes, ClosedTo(plan), next)
      /\ perFile = 0 => size <= SizeBudget
      /\ perFile > 0 => count <= perFile
      /\ Packs(plan, sizes, perFile)
  BY <1>3, PackedIsPacks
<1>5. PICK q : q = Append(sizes, s)
  OBVIOUS
<1>6. q \in Seq(Nat) /\ Len(q) = next + 1 /\ Packs(plan, q, perFile)
  BY <1>1, <1>4, <1>5, PacksMore
<1>7. closed \in BOOLEAN
  BY DEF ClosesBefore
<1>8. closed => /\ count > 0
                /\ perFile > 0 => count = perFile
                /\ perFile = 0 => size + s > SizeBudget
  BY <1>1 DEF ClosesBefore
<1>9. ~closed => /\ perFile > 0 => count # perFile
                 /\ perFile = 0 => count = 0 \/ size + s <= SizeBudget
  BY <1>1 DEF ClosesBefore
<1>10. count = 0 => size = 0 /\ ClosedTo(plan) = next
  <2>1. count = 0 => ClosedTo(plan) = next
    BY <1>1, <1>2
  <2> QED
    BY <1>1, <1>4, <2>1, TotalOfNone
\* The sums over the forests of the running chunk, of the new one, and of both.
<1>11. /\ Sums(q, ClosedTo(plan), next) = size
       /\ Sums(q, ClosedTo(plan), next + 1) = size + s
       /\ Sums(q, next, next + 1) = s
  <2>1. ClosedTo(plan) <= Len(sizes) /\ next <= Len(sizes)
    BY <1>1, <1>2
  <2>2. Sums(q, ClosedTo(plan), Len(sizes)) = Sums(sizes, ClosedTo(plan), Len(sizes))
    BY <1>1, <1>2, <1>5, TotalsKeep
  <2>3. Sums(q, ClosedTo(plan), Len(sizes) + 1) = Sums(sizes, ClosedTo(plan), Len(sizes)) + s
    BY <1>1, <1>2, <1>5, <2>1, TotalsAdd
  <2>4. Sums(q, next, Len(sizes) + 1) = Sums(sizes, next, Len(sizes)) + s
    BY <1>1, <1>5, <2>1, TotalsAdd
  <2>5. Sums(sizes, next, Len(sizes)) = 0
    BY <1>1, TotalOfNone
  <2> QED
    BY <1>1, <1>4, <2>2, <2>3, <2>4, <2>5
<1>12. /\ before \in Seq(Chunk) /\ Packs(before, q, perFile)
       /\ ClosedTo(before) = IF closed THEN next ELSE ClosedTo(plan)
  <2>1. CASE closed
    <3>1. /\ Current \in Chunk /\ Current.start = ClosedTo(plan) /\ End(Current) = next
          /\ Current.size = size /\ Current.count = count
      BY <1>1, <1>2, <1>8, <2>1 DEF Current, Chunk, End
    <3>2. Fits(Current, q, perFile)
      BY <1>1, <1>4, <1>6, <1>11, <3>1 DEF Fits
    <3>3. Full(Current, q, perFile)
      BY <1>1, <1>6, <1>8, <1>11, <2>1, <3>1 DEF Full
    <3>4. Packs(Append(plan, Current), q, perFile)
      BY <1>1, <1>6, <3>1, <3>2, <3>3, PacksAppend
    <3>5. Append(plan, Current) \in Seq(Chunk) /\ ClosedTo(Append(plan, Current)) = next
      BY <1>1, <1>2, <3>1, AppendChunk
    <3> QED
      BY <2>1, <3>4, <3>5
  <2>2. CASE ~closed
    BY <1>1, <1>6, <2>2
  <2> QED
    BY <2>1, <2>2
<1>13. /\ chunk \in Chunk /\ chunk.start = ClosedTo(before) /\ End(chunk) = next + 1
       /\ chunk.size = Sums(q, ClosedTo(before), next + 1)
  <2>1. CASE closed
    <3>1. chunk.start = next /\ chunk.count = 1 /\ chunk.size = s
      BY <2>1 DEF StartAfter
    <3>2. chunk \in Chunk
      BY <1>1, <2>1 DEF StartAfter, Chunk
    <3> QED
      BY <1>11, <1>12, <2>1, <3>1, <3>2 DEF End
  <2>2. CASE ~closed
    <3>1. chunk.start = ClosedTo(plan) /\ chunk.count = count + 1 /\ chunk.size = size + s
      BY <1>1, <1>2, <1>10, <2>2 DEF StartAfter
    <3>2. chunk \in Chunk
      BY <1>1, <1>2, <2>2, <3>1 DEF StartAfter, Chunk
    <3>3. End(chunk) = next + 1
      BY <1>1, <1>2, <3>1 DEF End
    <3> QED
      BY <1>11, <1>12, <2>2, <3>1, <3>2, <3>3
  <2> QED
    BY <2>1, <2>2
<1>14. /\ closed => chunk.count = 1 /\ chunk.size = s
       /\ ~closed => chunk.count = count + 1 /\ chunk.size = size + s
  OBVIOUS
<1>15. /\ next' = next + 1 /\ sizes' = q
       /\ IF ClosesAfter(s)
            THEN plan' = Append(before, chunk) /\ count' = 0 /\ size' = 0
            ELSE plan' = before /\ count' = chunk.count /\ size' = chunk.size
       /\ perFile' = perFile /\ finished' = finished
  BY <1>5 DEF AddForest
<1> HIDE DEF before, chunk, closed
<1>16. chunk.count \in Nat /\ chunk.size \in Nat /\ chunk.start \in Nat
  BY <1>13 DEF Chunk
<1>17. /\ size' = Sums(sizes', ClosedTo(plan)', next')
       /\ (perFile = 0 => size' <= SizeBudget) /\ (perFile > 0 => count' <= perFile)
       /\ Packs(plan', sizes', perFile)
  <2>1. CASE ClosesAfter(s)
    <3>1. perFile = 0 /\ s > SizeBudget
      BY <2>1 DEF ClosesAfter
    <3>2. chunk.count = 1
      BY <1>1, <1>8, <1>9, <1>14, <3>1
    <3>3. chunk.size > SizeBudget
      BY <1>1, <1>14, <3>1
    <3>4. Fits(chunk, q, perFile) /\ Full(chunk, q, perFile)
      BY <1>1, <1>6, <1>13, <1>16, <3>1, <3>2, <3>3 DEF Fits, Full
    <3>5. Packs(Append(before, chunk), q, perFile)
      BY <1>12, <1>13, <3>4, PacksAppend
    <3>6. /\ plan' = Append(before, chunk) /\ count' = 0 /\ size' = 0
          /\ sizes' = q /\ next' = next + 1
      BY <1>15, <2>1
    <3>7. ClosedTo(plan') = End(chunk)
      <4>1. Chained(before)
        <5>1. CASE closed
          <6>1. Current \in Chunk /\ Current.start = ClosedTo(plan)
            BY <1>1, <1>2, <1>8, <5>1 DEF Current, Chunk
          <6> QED
            BY <1>1, <1>2, <5>1, <6>1, AppendChunk DEF before
        <5>2. CASE ~closed
          BY <1>2, <5>2 DEF before
        <5> QED
          BY <5>1, <5>2
      <4> QED
        BY <1>12, <1>13, <3>6, <4>1, AppendChunk
    <3>8. Sums(q, next + 1, next + 1) = 0
      BY <1>1, TotalOfNone
    <3>9. size' = Sums(sizes', ClosedTo(plan)', next')
      BY <1>13, <3>6, <3>7, <3>8
    <3> QED
      BY <1>1, <3>1, <3>5, <3>6, <3>9
  <2>2. CASE ~ClosesAfter(s)
    <3>1. perFile = 0 => s <= SizeBudget
      BY <1>1, <2>2 DEF ClosesAfter
    <3>2. /\ plan' = before /\ count' = chunk.count /\ size' = chunk.size
          /\ sizes' = q /\ next' = next + 1
      BY <1>15, <2>2
    <3>3. perFile = 0 => chunk.size <= SizeBudget
      BY <1>1, <1>9, <1>10, <1>14, <3>1
    <3>4. perFile > 0 => chunk.count <= perFile
      BY <1>1, <1>4, <1>9, <1>14
    <3> QED
      BY <1>12, <1>13, <3>2, <3>3, <3>4
  <2> QED
    BY <2>1, <2>2
<1>18. (~finished)' /\ perFile' = perFile
  BY <1>3, <1>15
<1> QED
  BY <1>17, <1>18 DEF Packed, Packs

\* The last chunk is closed because nothing follows.
LEMMA FinishPlanPacks == ASSUME IInv, Packed, FinishPlan PROVE Packed'
<1>1. /\ plan \in Seq(Chunk) /\ next \in Nat /\ start \in Nat /\ count \in Nat
      /\ size \in Nat /\ sizes \in Seq(Nat) /\ Len(sizes) = next
      /\ perFile \in Nat /\ SizeBudget \in Nat
  BY PlannerNumbers
<1>2. /\ ClosedTo(plan) \in Nat /\ ClosedTo(plan) + count = next
      /\ count > 0 => start = ClosedTo(plan)
      /\ Chained(plan)
  BY <1>1, ClosedToNat DEF IInv, Contiguous
<1>3. /\ ~finished /\ finished' = TRUE /\ count' = 0 /\ size' = 0
      /\ perFile' = perFile /\ next' = next /\ sizes' = sizes
      /\ plan' = IF count = 0 THEN plan ELSE Append(plan, Current)
  BY DEF FinishPlan
<1>4. /\ size = Sums(sizes, ClosedTo(plan), next)
      /\ perFile = 0 => size <= SizeBudget
      /\ perFile > 0 => count <= perFile
      /\ Packs(plan, sizes, perFile)
  BY <1>3, PackedIsPacks
<1>5. Sums(sizes, next, next) = 0
  BY <1>1, TotalOfNone
<1>6. CASE count = 0
  <2>1. plan' = plan /\ ClosedTo(plan) = next
    BY <1>1, <1>2, <1>3, <1>6
  <2>2. ClosedTo(plan)' = next
    BY <2>1 DEF ClosedTo
  <2> QED
    BY <1>1, <1>3, <1>4, <1>5, <2>1, <2>2 DEF Packed, Packs
<1>7. CASE count # 0
  <2>1. /\ Current \in Chunk /\ Current.start = ClosedTo(plan) /\ End(Current) = next
        /\ Current.size = size /\ Current.count = count
    BY <1>1, <1>2, <1>7 DEF Current, Chunk, End
  <2>2. plan' = Append(plan, Current)
    BY <1>3, <1>7
  <2>3. ClosedTo(Append(plan, Current)) = next
    BY <1>1, <1>2, <2>1, AppendChunk
  <2>4. ClosedTo(plan)' = next
    BY <2>2, <2>3 DEF ClosedTo
  <2>5. Fits(Current, sizes, perFile)
    BY <1>1, <1>4, <2>1 DEF Fits
  <2>6. /\ Len(plan') = Len(plan) + 1 /\ plan'[Len(plan) + 1] = Current
        /\ \A k \in 1 .. Len(plan) : plan'[k] = plan[k]
        /\ Len(plan) \in Nat
    BY <1>1, <2>2
  <2>7. ASSUME NEW k \in 1 .. Len(plan')
        PROVE  /\ Fits(plan'[k], sizes, perFile)
               /\ \/ Full(plan'[k], sizes, perFile)
                  \/ k = Len(plan') /\ (perFile > 0 => plan'[k].count < perFile)
    <3>1. CASE k = Len(plan')
      <4>1. plan'[k] = Current
        BY <2>6, <3>1
      <4>2. perFile > 0 => count = perFile \/ count < perFile
        BY <1>1, <1>4
      <4>3. perFile > 0 /\ count = perFile => Full(Current, sizes, perFile)
        BY <2>1 DEF Full
      <4> QED
        BY <2>1, <2>5, <3>1, <4>1, <4>2, <4>3
    <3>2. CASE k # Len(plan')
      <4>1. k \in 1 .. Len(plan) /\ plan'[k] = plan[k]
        BY <2>6, <3>2
      <4> QED
        BY <1>4, <4>1 DEF Packs
    <3> QED
      BY <3>1, <3>2
  <2> QED
    BY <1>1, <1>3, <1>5, <2>4, <2>7 DEF Packed
<1> QED
  BY <1>6, <1>7

\* So every step keeps the plan packed; the ranks do not touch it.
LEMMA PackedStep == IInv /\ Packed /\ [Next]_vars => Packed'
<1> SUFFICES ASSUME IInv, Packed, [PlanNext]_planVars PROVE Packed'
  BY RanksKeepPlan
<1>1. CASE \E s \in Sizes : AddForest(s)
  BY <1>1, AddForestPacks
<1>2. CASE FinishPlan
  BY <1>2, FinishPlanPacks
<1>3. CASE UNCHANGED planVars
  <2>1. /\ plan' = plan /\ next' = next /\ size' = size /\ sizes' = sizes
        /\ perFile' = perFile /\ count' = count /\ finished' = finished
    BY <1>3 DEF planVars
  <2>2. ClosedTo(plan)' = ClosedTo(plan)
    BY <2>1 DEF ClosedTo
  <2> QED
    BY <2>1, <2>2, Zenon DEF Packed
<1> QED
  BY <1>1, <1>2, <1>3 DEF PlanNext

\* What was promised of the chunks is what is known of them.
LEMMA PackedIsWithinBudget == ASSUME IInv, Packed PROVE WithinBudget
<1> SUFFICES ASSUME NEW k \in DOMAIN plan
             PROVE  /\ plan[k].size = Total(plan[k].start, End(plan[k]))
                    /\ perFile = 0 => plan[k].size <= SizeBudget \/ plan[k].count = 1
                    /\ perFile > 0 =>
                          \/ plan[k].count = perFile
                          \/ finished /\ k = Len(plan) /\ plan[k].count < perFile
  BY DEF WithinBudget
<1>1. plan \in Seq(Chunk)
  BY PlannerNumbers
<1>2. k \in 1 .. Len(plan)
  BY <1>1, LenProperties
<1>3. /\ Fits(plan[k], sizes, perFile)
      /\ \/ Full(plan[k], sizes, perFile)
         \/ finished /\ k = Len(plan) /\ (perFile > 0 => plan[k].count < perFile)
  BY <1>2 DEF Packed
<1>4. plan[k].size = Total(plan[k].start, End(plan[k]))
  BY <1>3, TotalIsSum DEF Fits
<1>5. perFile = 0 => plan[k].size <= SizeBudget \/ plan[k].count = 1
  BY <1>3 DEF Fits
<1>6. perFile > 0 => \/ plan[k].count = perFile
                     \/ finished /\ k = Len(plan) /\ plan[k].count < perFile
  BY <1>3 DEF Full
<1> QED
  BY <1>4, <1>5, <1>6

\* The chunks of a finished plan as numbers: where each starts and ends.
LEMMA ChunkNumbers ==
    ASSUME IInv, PlanClosed, finished, NEW k \in 1 .. Len(plan)
    PROVE  /\ plan[k] \in Chunk /\ plan[k].start \in Nat /\ End(plan[k]) \in Nat
           /\ plan[k].start < End(plan[k]) /\ End(plan[k]) <= next
           /\ k < Len(plan) => End(plan[k]) = plan[k + 1].start
           /\ k = 1 => plan[k].start = 0
           /\ \A j \in 1 .. Len(plan) : k < j => End(plan[k]) <= plan[j].start
<1>1. PlanTypeOK /\ Contiguous /\ count = 0 /\ next \in Nat
  BY PlannerNumbers DEF IInv, PlanClosed
<1>2. plan \in Seq(Chunk) /\ Len(plan) \in Nat /\ plan # <<>>
  BY PlannerNumbers
<1>3. ClosedTo(plan) = next
  <2>1. ClosedTo(plan) \in Nat
    BY <1>2, ClosedToNat
  <2> QED
    BY <1>1, <2>1 DEF Contiguous
<1>4. plan[k] \in Chunk
  BY <1>2, ElementOfSeq
<1>5. plan[k].start \in Nat /\ End(plan[k]) \in Nat /\ plan[k].start < End(plan[k])
  BY <1>4 DEF Chunk, End
<1>6. ASSUME NEW j \in 1 .. Len(plan), k < j PROVE End(plan[k]) <= plan[j].start
  <2>1. /\ k - 1 \in Partitions /\ j - 1 \in Partitions /\ k - 1 < j - 1
        /\ (k - 1) + 1 = k /\ (j - 1) + 1 = j
    BY <1>2, <1>6 DEF Partitions
  <2>2. End(ChunkOf(k - 1)) <= ChunkOf(j - 1).start
    BY <1>1, <2>1, ChunksInOrder
  <2> QED
    BY <2>1, <2>2 DEF ChunkOf
<1>7. End(plan[k]) <= next
  <2>1. Len(plan) \in 1 .. Len(plan) /\ End(plan[Len(plan)]) = next
    BY <1>2, <1>3 DEF ClosedTo
  <2>2. CASE k = Len(plan)
    BY <1>1, <2>1, <2>2
  <2>3. CASE k # Len(plan)
    <3>1. PICK last : last = plan[Len(plan)]
      OBVIOUS
    <3>2. last \in Chunk
      BY <1>2, <2>1, <3>1, ElementOfSeq
    <3>3. last.start \in Nat /\ last.start <= End(last)
      BY <3>2 DEF Chunk, End
    <3>4. End(plan[k]) <= last.start
      BY <1>2, <1>6, <2>1, <2>3, <3>1
    <3> QED
      BY <1>1, <1>5, <2>1, <3>1, <3>3, <3>4
  <2> QED
    BY <2>2, <2>3
<1>8. k < Len(plan) => End(plan[k]) = plan[k + 1].start
  <2>1. k < Len(plan) => k \in 1 .. (Len(plan) - 1)
    BY <1>2
  <2> QED
    BY <1>1, <2>1 DEF Contiguous, Chained
<1>9. k = 1 => plan[k].start = 0
  BY <1>1, <1>2 DEF Contiguous, Chained
<1> QED
  BY <1>4, <1>5, <1>6, <1>7, <1>8, <1>9

\* Every division within the budget begins a chunk after the start of each
\* chunk of the plan and no later than the start of the next one: if it did
\* not, one of its chunks would hold the plan's and the forest after it.
LEMMA CutBetween ==
    ASSUME IInv, Packed, PlanClosed, finished, perFile = 0,
           NEW cut \in Cuts(next), NEW k \in 1 .. Len(plan), k < Len(plan)
    PROVE  \E x \in cut : plan[k].start < x /\ x <= plan[k + 1].start
<1>1. /\ next \in Nat /\ sizes \in Seq(Nat) /\ Len(sizes) = next
      /\ SizeBudget \in Nat /\ Len(plan) \in Nat
  BY PlannerNumbers
<1>2. PICK c : c = plan[k]
  OBVIOUS
<1>3. PICK e : e = End(c)
  OBVIOUS
<1>4. /\ c.start \in Nat /\ e \in Nat /\ c.start < e /\ e = plan[k + 1].start
  BY <1>2, <1>3, ChunkNumbers
<1>5. e < next
  <2>1. k + 1 \in 1 .. Len(plan)
    BY <1>1
  <2>2. PICK d : d = plan[k + 1]
    OBVIOUS
  <2>3. d.start \in Nat /\ End(d) \in Nat /\ d.start < End(d) /\ End(d) <= next
    BY <2>1, <2>2, ChunkNumbers
  <2> QED
    BY <1>1, <1>4, <2>2, <2>3
<1>6. /\ cut \subseteq 0 .. (next - 1) /\ 0 \in cut
      /\ \A a, b \in cut \cup {next} :
            a < b /\ (\A x \in cut : ~(a < x /\ x < b)) =>
                Total(a, b) <= SizeBudget \/ b = a + 1
  BY DEF Cuts
<1>7. SUFFICES ASSUME \A x \in cut : ~(c.start < x /\ x <= e) PROVE FALSE
  BY <1>2, <1>4
<1>8. PICK a \in cut : a <= c.start /\ \A x \in cut : x <= c.start => x <= a
  <2> DEFINE Back == {next - x : x \in {y \in cut : y <= c.start}}
  <2>1. Back \in SUBSET Nat
    BY <1>1, <1>6
  <2>2. next - 0 \in Back
    BY <1>4, <1>6
  <2>3. PICK m \in Back : \A n \in Back : m <= n
    BY <2>1, <2>2, LeastElement
  <2>4. PICK a \in cut : a <= c.start /\ m = next - a
    BY <2>3
  <2>5. ASSUME NEW x \in cut, x <= c.start PROVE x <= a
    <3>1. next - x \in Back
      BY <2>5
    <3>2. m <= next - x
      BY <2>3, <3>1
    <3>3. x \in Int /\ a \in Int
      BY <1>6
    <3> QED
      BY <1>1, <2>4, <3>2, <3>3
  <2> QED
    BY <2>4, <2>5
<1>9. PICK b \in cut \cup {next} : c.start < b /\ \A x \in cut : c.start < x => b <= x
  <2> DEFINE After == {x \in cut \cup {next} : c.start < x}
  <2>1. \A x \in cut : x \in Nat
    BY <1>1, <1>6
  <2>2. After \in SUBSET Nat
    BY <1>1, <2>1
  <2>3. next \in After
    BY <1>1, <1>4, <1>5
  <2>4. PICK b \in After : \A x \in After : b <= x
    BY <2>2, <2>3, LeastElement
  <2> QED
    BY <2>4
<1>10. a \in Nat /\ b \in Nat /\ b <= next
  BY <1>1, <1>6
<1>11. e + 1 <= b
  <2>1. CASE b = next
    BY <1>1, <1>4, <1>5, <2>1
  <2>2. CASE b # next
    <3>1. b \in cut /\ ~(b <= e)
      BY <1>7, <1>9, <2>2
    <3> QED
      BY <1>4, <1>10, <3>1
  <2> QED
    BY <2>1, <2>2
<1>12. a < b /\ b # a + 1
  BY <1>4, <1>8, <1>10, <1>11
<1>13. ASSUME NEW x \in cut, a < x, x < b PROVE FALSE
  <2>1. x \in Nat
    BY <1>6
  <2>2. CASE x <= c.start
    BY <1>8, <1>10, <1>13, <2>1, <2>2
  <2>3. CASE c.start < x
    BY <1>9, <1>10, <1>13, <2>1, <2>3
  <2> QED
    BY <1>4, <2>1, <2>2, <2>3
<1>14. Total(a, b) <= SizeBudget
  BY <1>6, <1>8, <1>9, <1>12, <1>13
<1>15. Sums(sizes, a, b) <= SizeBudget
  BY <1>14, TotalIsSum
<1>16. \A i \in 1 .. next : sizes[i] \in Nat
  BY <1>1
<1>17. /\ \A i \in 0 .. next : Sums(sizes, a, i) \in Nat
       /\ \A i \in 0 .. next : Sums(sizes, c.start, i) \in Nat
  BY <1>1, <1>4, <1>10, <1>16, TotalsAreNat
<1>18. Fits(c, sizes, perFile) /\ Full(c, sizes, perFile)
  BY <1>2 DEF Packed
<1>19. \A i \in 1 .. b : sizes[i] \in Nat
  BY <1>1, <1>10, <1>16
<1>20. CASE c.size > SizeBudget
  <2>1. c.size = Sums(sizes, c.start, e)
    BY <1>3, <1>18 DEF Fits
  <2>2. e <= b
    BY <1>4, <1>10, <1>11
  <2>3. Sums(sizes, c.start, e) <= Sums(sizes, a, b)
    BY <1>4, <1>8, <1>10, <1>19, <2>2, TotalsGrow
  <2>4. Sums(sizes, c.start, e) \in Nat /\ Sums(sizes, a, b) \in Nat
    BY <1>1, <1>4, <1>5, <1>10, <1>17, SMTT(30)
  <2> QED
    BY <1>1, <1>15, <1>20, <2>1, <2>3, <2>4
<1>21. CASE Sums(sizes, c.start, e + 1) > SizeBudget
  <2>1. PICK n : n = e + 1
    OBVIOUS
  <2>2. n \in Nat /\ n <= b
    BY <1>4, <1>10, <1>11, <2>1
  <2>3. Sums(sizes, c.start, n) <= Sums(sizes, a, b)
    BY <1>4, <1>8, <1>10, <1>19, <2>2, TotalsGrow
  <2>4. Sums(sizes, c.start, n) \in Nat /\ Sums(sizes, a, b) \in Nat
    BY <1>1, <1>10, <1>17, <2>2
  <2> QED
    BY <1>1, <1>15, <1>21, <2>1, <2>3, <2>4
<1> QED
  BY <1>3, <1>18, <1>20, <1>21 DEF Full

\* So each chunk of the plan has one in the division that begins after the
\* chunk before it and no later than itself, and no two have the same.
LEMMA PackedIsFewest == ASSUME IInv, Packed, PlanClosed PROVE FewestChunks
<1> SUFFICES ASSUME finished, perFile = 0, NEW cut \in Cuts(next)
             PROVE  Len(plan) <= Cardinality(cut)
  BY DEF FewestChunks
<1>1. next \in Nat /\ Len(plan) \in Nat
  BY PlannerNumbers
<1>2. cut \subseteq 0 .. (next - 1) /\ 0 \in cut
  BY DEF Cuts
<1>3. IsFiniteSet(cut) /\ Cardinality(cut) \in Nat
  <2>1. PICK n : n = next - 1
    OBVIOUS
  <2>2. IsFiniteSet(0 .. n)
    BY <1>1, <2>1, FS_Interval
  <2>3. cut \in SUBSET (0 .. n)
    BY <1>2, <2>1
  <2>4. IsFiniteSet(cut)
    BY <2>2, <2>3, FS_Subset
  <2> QED
    BY <2>4, FS_CardinalityType
<1> DEFINE Begins(k, x) == /\ x <= plan[k].start
                           /\ k # 1 => plan[k - 1].start < x
           first == [k \in 1 .. Len(plan) |-> CHOOSE x \in cut : Begins(k, x)]
<1>4. ASSUME NEW k \in 1 .. Len(plan) PROVE \E x \in cut : Begins(k, x)
  <2>1. CASE k = 1
    BY <1>2, <2>1, ChunkNumbers
  <2>2. CASE k # 1
    <3>1. PICK j : j = k - 1
      OBVIOUS
    <3>2. j \in 1 .. Len(plan) /\ j < Len(plan) /\ j + 1 = k
      BY <1>1, <2>2, <3>1
    <3>3. \E x \in cut : plan[j].start < x /\ x <= plan[j + 1].start
      BY <3>2, CutBetween
    <3> QED
      BY <3>1, <3>2, <3>3
  <2> QED
    BY <2>1, <2>2
<1>5. \A k \in 1 .. Len(plan) : first[k] \in cut /\ Begins(k, first[k])
  BY <1>4
<1> HIDE DEF first
<1>6. ASSUME NEW j \in 1 .. Len(plan), NEW k \in 1 .. Len(plan), j < k
      PROVE  first[j] # first[k]
  <2>1. PICK i : i = k - 1
    OBVIOUS
  <2>2. i \in 1 .. Len(plan) /\ k # 1 /\ (i = j \/ j < i)
    BY <1>1, <1>6, <2>1
  <2>3. first[j] <= plan[j].start /\ plan[i].start < first[k]
    BY <1>5, <2>1, <2>2
  <2>4. plan[j].start \in Nat /\ plan[i].start \in Nat /\ End(plan[j]) \in Nat
        /\ plan[j].start < End(plan[j])
    BY <2>2, ChunkNumbers
  <2>5. plan[j].start <= plan[i].start
    <3>1. j < i => End(plan[j]) <= plan[i].start
      BY <2>2, ChunkNumbers
    <3> QED
      BY <2>2, <2>4, <3>1
  <2>6. first[j] \in Int /\ first[k] \in Int
    <3>1. \A x \in cut : x \in Int
      BY <1>1, <1>2
    <3>2. first[j] \in cut /\ first[k] \in cut
      BY <1>5
    <3> QED
      BY <3>1, <3>2
  <2> QED
    BY <2>3, <2>4, <2>5, <2>6
<1>7. first \in Injection(1 .. Len(plan), cut)
  <2>1. first \in [1 .. Len(plan) -> cut]
    BY <1>5 DEF first
  <2>2. \A j, k \in 1 .. Len(plan) : first[j] = first[k] => j = k
    BY <1>1, <1>6
  <2> QED
    BY <2>1, <2>2 DEF Injection, IsInjective
<1>8. Cardinality(1 .. Len(plan)) <= Cardinality(cut)
  BY <1>3, <1>7, FS_Injection
<1>9. Cardinality(1 .. Len(plan)) = Len(plan)
  <2>1. PICK n : n = Len(plan)
    OBVIOUS
  <2>2. n \in Int /\ 1 \in Int
    BY <1>1, <2>1
  <2>3. Cardinality(1 .. n) = IF 1 > n THEN 0 ELSE n - 1 + 1
    BY <2>2, FS_Interval, Zenon
  <2> QED
    BY <1>1, <2>1, <2>3
<1> QED
  BY <1>8, <1>9

\* What a rank still has to assign are chunks; a rank that has not sorted them
\* yet has none and has assigned none.
OrderTyped ==
    \A r \in Tasks : /\ order[r] \in Seq(Partitions)
                     /\ pc[r] = "plan" => order[r] = <<>> /\ task[r] = <<>>

\* What the ranks keep are functions.
RankFunctions ==
    /\ order = [r \in Tasks |-> order[r]]
    /\ load = [r \in Tasks |-> load[r]]
    /\ processed = [r \in Tasks |-> processed[r]]

\* Each step writes at one rank only.
LEMMA RankFunctionsStep ==
    ASSUME RankFunctions, [Next]_vars
    PROVE  RankFunctions'
<1>1. CASE MakePlan \/ UNCHANGED vars
  <2>1. order' = order /\ load' = load /\ processed' = processed
    BY <1>1 DEF MakePlan, vars, rankVars
  <2> QED
    BY <2>1 DEF RankFunctions
<1>2. ASSUME NEW r \in Tasks,
             Sort(r) \/ Assign(r) \/ StartProcessing(r) \/ ProcessPartition(r) \/ Finish(r)
      PROVE  RankFunctions'
  <2>1. order' = order \/ \E o : order' = [order EXCEPT ![r] = o]
    BY <1>2 DEF Sort, Assign, StartProcessing, ProcessPartition, Finish
  <2>2. load' = load \/ \E l : load' = [load EXCEPT ![r] = l]
    BY <1>2 DEF Sort, Assign, StartProcessing, ProcessPartition, Finish
  <2>3. processed' = processed \/ \E d : processed' = [processed EXCEPT ![r] = d]
    BY <1>2 DEF Sort, Assign, StartProcessing, ProcessPartition, Finish
  <2>4. order' = [u \in Tasks |-> order'[u]]
    BY <2>1 DEF RankFunctions
  <2>5. load' = [u \in Tasks |-> load'[u]]
    BY <2>2 DEF RankFunctions
  <2>6. processed' = [u \in Tasks |-> processed'[u]]
    BY <2>3 DEF RankFunctions
  <2> QED
    BY <2>4, <2>5, <2>6 DEF RankFunctions
<1> QED
  BY <1>1, <1>2 DEF Next

\* Chunks only leave the order once it is there.
LEMMA OrderTypedStep ==
    ASSUME RankInv, OrderTyped, [Next]_vars
    PROVE  OrderTyped'
<1>1. DOMAIN order = Tasks /\ DOMAIN task = Tasks /\ DOMAIN pc = Tasks
  BY DEF RankInv, Shapes
<1>2. CASE MakePlan
  <2>1. ASSUME NEW r \in Tasks PROVE order[r] = <<>> /\ task[r] = <<>> /\ pc[r] = "plan"
    <3>1. ~finished
      BY <1>2 DEF MakePlan, PlanNext, AddForest, FinishPlan
    <3>2. pc[r] = "plan"
      BY <3>1 DEF RankInv, RankProgress
    <3> QED
      BY <3>2 DEF OrderTyped
  <2>2. order' = order /\ task' = task /\ pc' = pc
    BY <1>2 DEF MakePlan, rankVars
  <2>3. <<>> \in Seq(Partitions')
    OBVIOUS
  <2> QED
    BY <2>1, <2>2, <2>3 DEF OrderTyped
<1>3. ASSUME NEW r \in Tasks,
             Sort(r) \/ Assign(r) \/ StartProcessing(r) \/ ProcessPartition(r) \/ Finish(r)
      PROVE  OrderTyped'
  <2>1. Partitions' = Partitions
    BY <1>3 DEF Partitions, Sort, Assign, StartProcessing, ProcessPartition, Finish, planVars
  <2> SUFFICES ASSUME NEW u \in Tasks
               PROVE  /\ order'[u] \in Seq(Partitions)
                      /\ pc'[u] = "plan" => order'[u] = <<>> /\ task'[u] = <<>>
    BY <2>1 DEF OrderTyped
  <2>2. /\ order[u] \in Seq(Partitions)
        /\ pc[u] = "plan" => order[u] = <<>> /\ task[u] = <<>>
    BY DEF OrderTyped
  <2>3. CASE Sort(r)
    <3>1. PICK o : InCostOrder(o) /\ order' = [order EXCEPT ![r] = o]
      BY <2>3 DEF Sort, InCostOrder
    <3>2. o \in Seq(Partitions)
      <4>1. Len(plan) \in Nat /\ o \in [1 .. Len(plan) -> Partitions]
        BY <3>1, OrderIsBijective DEF RankInv, IInv
      <4> QED
        BY <4>1
    <3>3. pc' = [pc EXCEPT ![r] = "assign"]
      BY <2>3 DEF Sort
    <3>4. u # r => task'[u] = task[u]
      BY <1>1, <2>3 DEF Sort
    <3> QED
      BY <1>1, <2>2, <3>1, <3>2, <3>3, <3>4
  <2>4. CASE Assign(r)
    <3>1. /\ order' = [order EXCEPT ![r] = Tail(@)] /\ order[r] # <<>>
          /\ pc[r] = "assign" /\ pc' = pc
      BY <2>4 DEF Assign
    <3>2. PICK p : task' = [task EXCEPT ![r][p] = BestTask(r)]
      BY <2>4 DEF Assign
    <3>3. u # r => task'[u] = task[u] /\ order'[u] = order[u]
      BY <1>1, <3>1, <3>2
    <3>4. u = r => order'[u] = Tail(order[u])
      BY <1>1, <3>1
    <3>5. order[u] # <<>> => Tail(order[u]) \in Seq(Partitions)
      BY <2>2
    <3> QED
      BY <2>2, <3>1, <3>3, <3>4, <3>5
  <2>5. CASE StartProcessing(r) \/ ProcessPartition(r) \/ Finish(r)
    <3>1. order' = order /\ task' = task
      BY <2>5 DEF StartProcessing, ProcessPartition, Finish
    <3>2. pc'[u] = "plan" => pc[u] = "plan"
      BY <1>1, <2>5 DEF StartProcessing, ProcessPartition, Finish
    <3> QED
      BY <2>2, <3>1, <3>2
  <2> QED
    BY <1>3, <2>3, <2>4, <2>5
<1>4. CASE UNCHANGED vars
  <2>1. order' = order /\ task' = task /\ pc' = pc /\ plan' = plan
    BY <1>4 DEF vars, rankVars, planVars
  <2>2. Partitions' = Partitions
    BY <2>1 DEF Partitions
  <2> QED
    BY <2>1, <2>2 DEF OrderTyped
<1> QED
  BY <1>2, <1>3, <1>4 DEF Next

\* The shape of the state follows: loads and assignments are those of a step on
\* the way that all ranks go.
LEMMA StateIsTyped == ASSUME RankInv, OrderTyped, RankFunctions PROVE TypeOK
<1>1. PlanTypeOK /\ scheme \in Schemes /\ pc \in [Tasks -> {"plan", "assign", "process", "done"}]
  BY DEF RankInv, IInv, Shapes
<1>2. /\ DOMAIN order = Tasks /\ DOMAIN load = Tasks /\ DOMAIN task = Tasks
      /\ DOMAIN processed = Tasks /\ partition \in [Tasks -> Nat]
  BY DEF RankInv, Shapes
<1>3. ASSUME NEW r \in Tasks
      PROVE  load[r] \in [Tasks -> Nat] /\ task[r] \in [DOMAIN task[r] -> Tasks \cup {Unassigned}]
  <2>1. CASE pc[r] = "plan"
    <3>1. load[r] = [t \in Tasks |-> 0] /\ task[r] = <<>>
      BY <2>1 DEF RankInv, RankProgress, OrderTyped
    <3>2. load[r] \in [Tasks -> Nat]
      BY <3>1
    <3>3. task[r] \in [DOMAIN task[r] -> Tasks \cup {Unassigned}]
      BY <3>1
    <3> QED
      BY <3>2, <3>3
  <2>2. CASE pc[r] # "plan"
    <3>1. PICK o, m, steps : OnSteps(o, m, steps)
      BY <2>2 DEF RankInv, AllAgree
    <3>2. PICK k \in 0 .. m : load[r] = steps[k].load /\ task[r] = steps[k].task
      BY <2>2, <3>1 DEF OnSteps, HasReached
    <3>3. steps[k] \in Assignment
      BY <3>1 DEF OnSteps, AreSteps
    <3>4. load[r] \in [Tasks -> Nat] /\ task[r] \in [Partitions -> Tasks \cup {Unassigned}]
      BY <3>2, <3>3 DEF Assignment
    <3> QED
      BY <3>4
  <2> QED
    BY <2>1, <2>2
<1>4. load \in [Tasks -> [Tasks -> Nat]]
  BY <1>3 DEF RankFunctions
<1>5. order \in [Tasks -> Seq(Partitions)]
  BY DEF RankFunctions, OrderTyped
<1>6. partition \in [Tasks -> 0 .. Len(plan)]
  BY <1>2 DEF RankInv, ProcessedSoFar
<1>7. processed \in [Tasks -> Seq(Partitions)]
  BY DEF RankFunctions, RankInv, ProcessedSoFar
<1> QED
  BY <1>1, <1>3, <1>4, <1>5, <1>6, <1>7, Zenon DEF TypeOK

\* The plan the readers work from is what chunk_plan.h promises, for every
\* input: within the budget, cut no finer than it must be
\* (chunk_plan_builder_add_file_with_cost()), and with no more chunks than any
\* division within the budget; and the ranks' state keeps its shape.
THEOREM PlanIsAsPromised == Spec => []PlanHolds
<1>1. Init => RankInv /\ PlanClosed /\ Packed
  BY RankInit, PackedInit DEF Init, PlanInit, PlanClosed
<1>2. Init => OrderTyped /\ RankFunctions
  BY DEF Init, OrderTyped, RankFunctions
<1>3. RankInv /\ PlanClosed /\ Packed /\ [Next]_vars => RankInv' /\ PlanClosed' /\ Packed'
  BY RankStep, PlanClosedStep, PackedStep DEF RankInv
<1>4. RankInv /\ OrderTyped /\ RankFunctions /\ [Next]_vars => OrderTyped' /\ RankFunctions'
  BY OrderTypedStep, RankFunctionsStep
<1>5. RankInv /\ PlanClosed /\ Packed /\ OrderTyped /\ RankFunctions => PlanHolds
  BY StateIsTyped, PackedIsWithinBudget, PackedIsFewest DEF PlanHolds, RankInv
<1> QED
  BY <1>1, <1>2, <1>3, <1>4, <1>5, PTL DEF Spec

-----------------------------------------------------------------------------
(***************************************************************************)
(* That the division is near the best (Graham's bound for "longest         *)
(* processing time first").  Suppose the task with the least load is given *)
(* the next chunk x, no dearer than those before.  If x is at most a third *)
(* of what the busiest task of some division has, the average is enough    *)
(* (SmallFits).  If it is more, all chunks are, and no task of that        *)
(* division has three.  Count a chunk twice if no other can join it there: *)
(* each task of the division then counts at most two, and each of ours     *)
(* already two before x if x were too much for it, so there would be more  *)
(* chunks than there are (LargeFits).                                      *)
(***************************************************************************)

\* What task t has of the chunks S, priced by w and divided by f.
Share(w, S, f, t) == SumFunctionOnSet(w, {p \in S : f[p] = t})

Weights(w, S) == IsFiniteSet(S) /\ \A p \in S : w[p] \in Nat

Divides(f, S) == \A p \in S : f[p] \in Tasks

\* Costs are numbers, so shares are.
LEMMA ShareIsNat ==
    ASSUME NEW w, NEW S, Weights(w, S), NEW f, NEW t
    PROVE  /\ Share(w, S, f, t) \in Nat /\ SumFunctionOnSet(w, S) \in Nat
           /\ IsFiniteSet({p \in S : f[p] = t})
           /\ \A p \in {q \in S : f[q] = t} : w[p] \in Nat
<1>1. PICK Q : Q = {p \in S : f[p] = t}
  OBVIOUS
<1>2. IsFiniteSet(Q) /\ \A p \in Q : w[p] \in Nat
  BY <1>1, FS_Subset DEF Weights
<1> QED
  BY <1>1, <1>2, SumIsNat DEF Share, Weights

\* The first n tasks together have what each of them has.
FirstShares(w, S, f, n) == SumFunctionOnSet(w, {p \in S : f[p] < n})

\* The next task adds its share.
LEMMA OneMoreShare ==
    ASSUME NEW w, NEW S, Weights(w, S), NEW f, Divides(f, S), NEW n \in Nat
    PROVE  /\ FirstShares(w, S, f, 0) = 0
           /\ FirstShares(w, S, f, n) \in Nat
           /\ FirstShares(w, S, f, n + 1) = FirstShares(w, S, f, n) + Share(w, S, f, n)
<1>1. \A p \in S : f[p] \in Nat
  BY TasksAreNumbers DEF Divides
<1>2. PICK A : A = {p \in S : f[p] < n}
  OBVIOUS
<1>3. PICK B : B = {p \in S : f[p] = n}
  OBVIOUS
<1>4. A \in SUBSET S /\ B \in SUBSET S /\ A \cap B = {}
  BY <1>1, <1>2, <1>3
<1>5. A \cup B = {p \in S : f[p] < n + 1}
  BY <1>1, <1>2, <1>3
<1>6. SumFunctionOnSet(w, A \cup B) = SumFunctionOnSet(w, A) + SumFunctionOnSet(w, B)
  <2>1. IsFiniteSet(S) /\ \A p \in S : w[p] \in Int
    BY DEF Weights
  <2> QED
    BY <1>4, <2>1, SumOfUnion
<1>7. SumFunctionOnSet(w, A) \in Nat
  <2>1. IsFiniteSet(A) /\ \A p \in A : w[p] \in Nat
    BY <1>4, FS_Subset DEF Weights
  <2> QED
    BY <2>1, SumIsNat
<1>8. {p \in S : f[p] < 0} = {}
  BY <1>1
<1> QED
  BY <1>2, <1>3, <1>5, <1>6, <1>7, <1>8, SumOfNone DEF FirstShares, Share

\* The tasks together have all of the chunks.
LEMMA AllShares ==
    ASSUME NEW w, NEW S, Weights(w, S), NEW f, Divides(f, S)
    PROVE  FirstShares(w, S, f, NumTasks) = SumFunctionOnSet(w, S)
<1>1. \A p \in S : f[p] < NumTasks
  BY TasksAssumption DEF Divides, Tasks
<1>2. {p \in S : f[p] < NumTasks} = S
  BY <1>1
<1> QED
  BY <1>2 DEF FirstShares

\* One time more.
LEMMA NextMultiple ==
    ASSUME NEW n \in Nat, NEW y \in Nat
    PROVE  n * y \in Nat /\ (n + 1) * y = n * y + y /\ 0 * y = 0
OBVIOUS

\* If each task has at least y, all have at least NumTasks times y.
LEMMA EachHasMore ==
    ASSUME NEW w, NEW S, Weights(w, S), NEW f, Divides(f, S), NEW y \in Nat,
           \A t \in Tasks : Share(w, S, f, t) >= y
    PROVE  NumTasks * y <= SumFunctionOnSet(w, S)
<1> DEFINE Short == {n \in Nat : n <= NumTasks /\ ~(n * y <= FirstShares(w, S, f, n))}
<1>1. SUFFICES ASSUME NumTasks \in Short PROVE FALSE
  <2>1. NumTasks \in Nat /\ NumTasks * y \in Nat /\ SumFunctionOnSet(w, S) \in Nat
    BY TasksAssumption, NextMultiple, ShareIsNat
  <2> QED
    BY <2>1, AllShares
<1>2. Short \in SUBSET Nat /\ Short # {}
  BY <1>1
<1>3. PICK n \in Short : \A k \in Short : n <= k
  BY <1>2, LeastElement
<1>4. n \in Nat /\ n <= NumTasks /\ n # 0
  BY <1>3, NextMultiple, OneMoreShare
<1>5. PICK k : k = n - 1
  OBVIOUS
<1>6. k \in Nat /\ k + 1 = n /\ k < n /\ k <= NumTasks /\ k \in Tasks
  BY <1>4, <1>5, TasksAssumption DEF Tasks
<1>7. k \notin Short
  <2> HIDE DEF Short
  <2> QED
    BY <1>2, <1>3, <1>6
<1>8. k * y <= FirstShares(w, S, f, k)
  BY <1>6, <1>7
<1>9. FirstShares(w, S, f, n) = FirstShares(w, S, f, k) + Share(w, S, f, k)
      /\ FirstShares(w, S, f, k) \in Nat
  BY <1>6, OneMoreShare
<1>10. n * y = k * y + y /\ k * y \in Nat
  BY <1>6, NextMultiple
<1>11. Share(w, S, f, k) >= y /\ Share(w, S, f, k) \in Nat
  BY <1>6, ShareIsNat
<1>12. n * y <= FirstShares(w, S, f, n)
  BY <1>8, <1>9, <1>10, <1>11
<1> QED
  BY <1>3, <1>12

\* If each task has at most y, all have at most NumTasks times y.
LEMMA EachHasLess ==
    ASSUME NEW w, NEW S, Weights(w, S), NEW f, Divides(f, S), NEW y \in Nat,
           \A t \in Tasks : Share(w, S, f, t) <= y
    PROVE  SumFunctionOnSet(w, S) <= NumTasks * y
<1> DEFINE Over == {n \in Nat : n <= NumTasks /\ ~(FirstShares(w, S, f, n) <= n * y)}
<1>1. SUFFICES ASSUME NumTasks \in Over PROVE FALSE
  <2>1. NumTasks \in Nat /\ NumTasks * y \in Nat /\ SumFunctionOnSet(w, S) \in Nat
    BY TasksAssumption, NextMultiple, ShareIsNat
  <2> QED
    BY <2>1, AllShares
<1>2. Over \in SUBSET Nat /\ Over # {}
  BY <1>1
<1>3. PICK n \in Over : \A k \in Over : n <= k
  BY <1>2, LeastElement
<1>4. n \in Nat /\ n <= NumTasks /\ n # 0
  BY <1>3, NextMultiple, OneMoreShare
<1>5. PICK k : k = n - 1
  OBVIOUS
<1>6. k \in Nat /\ k + 1 = n /\ k < n /\ k <= NumTasks /\ k \in Tasks
  BY <1>4, <1>5, TasksAssumption DEF Tasks
<1>7. k \notin Over
  <2> HIDE DEF Over
  <2> QED
    BY <1>2, <1>3, <1>6
<1>8. FirstShares(w, S, f, k) <= k * y
  BY <1>6, <1>7
<1>9. FirstShares(w, S, f, n) = FirstShares(w, S, f, k) + Share(w, S, f, k)
      /\ FirstShares(w, S, f, k) \in Nat
  BY <1>6, OneMoreShare
<1>10. n * y = k * y + y /\ k * y \in Nat
  BY <1>6, NextMultiple
<1>11. Share(w, S, f, k) <= y /\ Share(w, S, f, k) \in Nat
  BY <1>6, ShareIsNat
<1>12. FirstShares(w, S, f, n) <= n * y
  BY <1>8, <1>9, <1>10, <1>11
<1> QED
  BY <1>3, <1>12

\* Division f of the chunks S leaves no task with more than top.
AtMost(w, S, f, top) == Divides(f, S) /\ \A t \in Tasks : Share(w, S, f, t) <= top

AtLeast(w, S, f, low) == Divides(f, S) /\ \A t \in Tasks : low <= Share(w, S, f, t)

\* The guarantee, for a task that has a and is given a chunk of cost c.
LEMMA FourThirds ==
    ASSUME NEW n \in Nat \ {0}, NEW a \in Nat, NEW c \in Nat, NEW top \in Nat,
           n * a + c <= n * top, 3 * c <= top
    PROVE  3 * n * (a + c) <= (4 * n - 1) * top
<1>1. PICK na \in Nat : na = n * a
  BY NextMultiple
<1>2. PICK nc \in Nat : nc = n * c
  BY NextMultiple
<1>3. PICK nt \in Nat : nt = n * top
  BY NextMultiple
<1>4. 3 * n * (a + c) = 3 * na + 3 * nc
  BY <1>1, <1>2
<1>5. (4 * n - 1) * top = 4 * nt - top
  BY <1>3
<1>6. (n - 1) * (top - 3 * c) = nt - top - 3 * nc + 3 * c
  BY <1>2, <1>3
<1>7. (n - 1) * (top - 3 * c) \in Nat
  <2>1. n - 1 \in Nat /\ top - 3 * c \in Nat
    OBVIOUS
  <2> QED
    BY <2>1, NextMultiple
<1>8. na + c <= nt
  BY <1>1, <1>3
<1> HIDE <1>1, <1>2, <1>3
<1> QED
  BY <1>4, <1>5, <1>6, <1>7, <1>8

\* So it is if the task has no more than any division needs anyway.
LEMMA NoMoreThanTop ==
    ASSUME NEW n \in Nat \ {0}, NEW b \in Nat, NEW top \in Nat, b <= top
    PROVE  3 * n * b <= (4 * n - 1) * top
<1>1. PICK nb \in Nat : nb = n * b
  BY NextMultiple
<1>2. PICK nt \in Nat : nt = n * top
  BY NextMultiple
<1>3. nt - nb = n * (top - b) /\ n * (top - b) \in Nat
  <2>1. top - b \in Nat
    OBVIOUS
  <2> QED
    BY <1>1, <1>2, <2>1, NextMultiple
<1>4. nt - top = (n - 1) * top /\ (n - 1) * top \in Nat
  <2>1. n - 1 \in Nat
    OBVIOUS
  <2> QED
    BY <1>2, <2>1, NextMultiple
<1>5. 3 * n * b = 3 * nb
  BY <1>1
<1>6. (4 * n - 1) * top = 4 * nt - top
  BY <1>2
<1> QED
  BY <1>3, <1>4, <1>5, <1>6

\* The last chunk is small: before it no task had more than the average.
LEMMA SmallFits ==
    ASSUME NEW w, NEW D, NEW x, x \notin D, Weights(w, D \cup {x}),
           NEW h, NEW a \in Nat, AtLeast(w, D, h, a),
           NEW g, NEW top \in Nat, AtMost(w, D \cup {x}, g, top),
           3 * w[x] <= top
    PROVE  3 * NumTasks * (a + w[x]) <= (4 * NumTasks - 1) * top
<1>1. PICK E : E = D \cup {x}
  OBVIOUS
<1>2. Weights(w, E) /\ Weights(w, D) /\ w[x] \in Nat
  BY <1>1, FS_Subset DEF Weights
<1>3. NumTasks * a <= SumFunctionOnSet(w, D)
  BY <1>2, EachHasMore DEF AtLeast
<1>4. SumFunctionOnSet(w, E) <= NumTasks * top
  BY <1>1, <1>2, EachHasLess DEF AtMost
<1>5. SumFunctionOnSet(w, E) = SumFunctionOnSet(w, D) + w[x]
  <2>1. IsFiniteSet(D) /\ \A p \in D \cup {x} : w[p] \in Int
    BY <1>1, <1>2 DEF Weights
  <2> QED
    BY <1>1, <2>1, SumGrows
<1>6. SumFunctionOnSet(w, D) \in Nat
  BY <1>2, ShareIsNat
<1>7. NumTasks \in Nat \ {0}
  BY TasksAssumption
<1>8. NumTasks * a + w[x] <= NumTasks * top
  <2>1. NumTasks * a \in Nat /\ NumTasks * top \in Nat
    BY <1>7, NextMultiple
  <2> QED
    BY <1>2, <1>3, <1>4, <1>5, <1>6, <2>1
<1> QED
  BY <1>2, <1>7, <1>8, FourThirds

\* A chunk counts twice if no other can join it within top.
Count(w, D, x, top) == [p \in D \cup {x} |-> IF w[p] > top - w[x] THEN 2 ELSE 1]

\* If the task with the least load and the last chunk are too much together, the
\* chunks of every task count at least two.
LEMMA CountedTwice ==
    ASSUME NEW w, NEW D, NEW x, x \notin D, Weights(w, D \cup {x}),
           NEW h, NEW a \in Nat, AtLeast(w, D, h, a),
           NEW top \in Nat, a + w[x] > top, w[x] <= top
    PROVE  AtLeast(Count(w, D, x, top), D, h, 2)
<1>1. w[x] \in Nat /\ \A p \in D : w[p] \in Nat
  BY DEF Weights
<1>2. PICK v : v = Count(w, D, x, top)
  OBVIOUS
<1>3. \A p \in D : v[p] = IF w[p] > top - w[x] THEN 2 ELSE 1
  BY <1>2 DEF Count
<1>4. Weights(w, D) /\ Weights(v, D)
  BY <1>3, FS_Subset DEF Weights
<1> SUFFICES ASSUME NEW t \in Tasks PROVE 2 <= Share(v, D, h, t)
  BY <1>2 DEF AtLeast
<1>5. PICK Q : Q = {p \in D : h[p] = t}
  OBVIOUS
<1>6. IsFiniteSet(Q) /\ Q \in SUBSET D /\ \A p \in Q : w[p] \in Nat /\ v[p] \in Nat
  BY <1>4, <1>5, FS_Subset DEF Weights
<1>7. a <= SumFunctionOnSet(w, Q)
  BY <1>5 DEF AtLeast, Share
<1>8. Q # {}
  BY <1>1, <1>7, SumOfNone
<1>9. PICK p \in Q : TRUE
  BY <1>8
<1>10. SumFunctionOnSet(v, Q) \in Nat
  BY <1>6, SumIsNat
<1>11. 2 <= SumFunctionOnSet(v, Q)
  <2>1. CASE w[p] > top - w[x]
    <3>1. v[p] = 2
      BY <1>3, <1>6, <2>1
    <3>2. {p} \in SUBSET Q /\ SumFunctionOnSet(v, {p}) = v[p]
      BY <1>6, SumOfOne
    <3>3. SumFunctionOnSet(v, {p}) <= SumFunctionOnSet(v, Q)
      BY <1>6, <3>2, SumOfLess
    <3> QED
      BY <3>1, <3>2, <3>3
  <2>2. CASE ~(w[p] > top - w[x])
    <3>1. Q # {p}
      <4>1. SumFunctionOnSet(w, {p}) = w[p] /\ w[p] \in Nat
        BY <1>6, SumOfOne
      <4>2. Q = {p} => SumFunctionOnSet(w, Q) = w[p]
        BY <4>1, Zenon
      <4>3. ~(w[p] >= a)
        BY <1>1, <2>2, <4>1
      <4> QED
        BY <1>7, <4>2, <4>3
    <3>2. PICK q \in Q : q # p
      BY <3>1
    <3>3. v[p] \in Nat /\ v[q] \in Nat /\ v[p] >= 1 /\ v[q] >= 1
      BY <1>3, <1>6
    <3>4. {p, q} \in SUBSET Q /\ SumFunctionOnSet(v, {p, q}) = v[p] + v[q]
      BY <3>2, <3>3, SumOfTwo
    <3>5. SumFunctionOnSet(v, {p, q}) <= SumFunctionOnSet(v, Q)
      BY <1>6, <3>4, SumOfLess
    <3> QED
      BY <1>10, <3>3, <3>4, <3>5
  <2> QED
    BY <2>1, <2>2
<1> QED
  BY <1>5, <1>11 DEF Share

\* In a division within top of chunks over a third of it, those of every task
\* count at most two.
LEMMA CountedAtMostTwice ==
    ASSUME NEW w, NEW D, NEW x, x \notin D, Weights(w, D \cup {x}),
           \A p \in D : w[x] <= w[p],
           NEW g, NEW top \in Nat, AtMost(w, D \cup {x}, g, top),
           3 * w[x] > top
    PROVE  AtMost(Count(w, D, x, top), D \cup {x}, g, 2)
<1>1. PICK E : E = D \cup {x}
  OBVIOUS
<1>2. w[x] \in Nat /\ \A p \in E : w[p] \in Nat /\ w[x] <= w[p]
  BY <1>1 DEF Weights
<1>3. PICK v : v = Count(w, D, x, top)
  OBVIOUS
<1>4. \A p \in E : v[p] = IF w[p] > top - w[x] THEN 2 ELSE 1
  BY <1>1, <1>3 DEF Count
<1>5. Weights(w, E) /\ Weights(v, E)
  BY <1>1, <1>4 DEF Weights
<1> SUFFICES ASSUME NEW t \in Tasks PROVE Share(v, E, g, t) <= 2
  BY <1>1, <1>3 DEF AtMost
<1>6. PICK Q : Q = {p \in E : g[p] = t}
  OBVIOUS
<1>7. IsFiniteSet(Q) /\ Q \in SUBSET E /\ \A p \in Q : w[p] \in Nat /\ v[p] \in Nat
  BY <1>5, <1>6, FS_Subset DEF Weights
<1>8. SumFunctionOnSet(w, Q) <= top /\ SumFunctionOnSet(w, Q) \in Nat
  BY <1>1, <1>6, <1>7, SumIsNat DEF AtMost, Share
<1>9. ASSUME NEW p \in Q, NEW q \in Q, p # q
      PROVE  w[p] + w[q] <= top /\ \A s \in Q : s = p \/ s = q
  <2>1. {p, q} \in SUBSET Q /\ SumFunctionOnSet(w, {p, q}) = w[p] + w[q]
    BY <1>7, <1>9, SumOfTwo
  <2>2. SumFunctionOnSet(w, {p, q}) <= SumFunctionOnSet(w, Q)
    BY <1>7, <2>1, SumOfLess
  <2>3. ASSUME NEW s \in Q, s # p, s # q PROVE FALSE
    <3>1. {p, q, s} \in SUBSET Q /\ SumFunctionOnSet(w, {p, q, s}) = w[p] + w[q] + w[s]
      BY <1>7, <1>9, <2>3, SumOfThree
    <3>2. SumFunctionOnSet(w, {p, q, s}) <= SumFunctionOnSet(w, Q)
      BY <1>7, <3>1, SumOfLess
    <3> QED
      BY <1>2, <1>7, <1>8, <3>1, <3>2
  <2> QED
    BY <1>7, <1>8, <2>1, <2>2, <2>3
<1>10. SumFunctionOnSet(v, Q) <= 2
  <2>1. CASE Q = {}
    BY <2>1, SumOfNone
  <2>2. CASE Q # {}
    <3>1. PICK p \in Q : TRUE
      BY <2>2
    <3>2. CASE Q = {p}
      <4>1. SumFunctionOnSet(v, {p}) = v[p] /\ v[p] \in Nat
        BY <1>7, SumOfOne
      <4>2. v[p] <= 2
        BY <1>4, <1>7
      <4> QED
        BY <3>2, <4>1, <4>2
    <3>3. CASE Q # {p}
      <4>1. PICK q \in Q : q # p
        BY <3>1, <3>3
      <4>2. Q = {p, q} /\ w[p] + w[q] <= top
        BY <1>9, <4>1
      <4>3. v[p] = 1 /\ v[q] = 1
        BY <1>2, <1>4, <1>7, <4>2
      <4>4. SumFunctionOnSet(v, {p, q}) = v[p] + v[q]
        BY <1>7, <4>1, SumOfTwo
      <4> QED
        BY <4>2, <4>3, <4>4
    <3> QED
      BY <3>2, <3>3
  <2> QED
    BY <2>1, <2>2
<1> QED
  BY <1>6, <1>10 DEF Share

\* The last chunk is large, so all are: they could not be divided better.
LEMMA LargeFits ==
    ASSUME NEW w, NEW D, NEW x, x \notin D, Weights(w, D \cup {x}),
           \A p \in D : w[x] <= w[p],
           NEW h, NEW a \in Nat, AtLeast(w, D, h, a),
           NEW g, NEW top \in Nat, AtMost(w, D \cup {x}, g, top),
           3 * w[x] > top, w[x] <= top
    PROVE  a + w[x] <= top
<1> SUFFICES ASSUME a + w[x] > top PROVE FALSE
  BY DEF Weights
<1>1. PICK E : E = D \cup {x}
  OBVIOUS
<1>2. PICK v : v = Count(w, D, x, top)
  OBVIOUS
<1>3. w[x] \in Nat /\ \A p \in E : v[p] \in Nat /\ v[p] >= 1
  BY <1>1, <1>2 DEF Weights, Count
<1>4. Weights(v, E) /\ Weights(v, D)
  BY <1>1, <1>3, FS_Subset DEF Weights
<1>5. AtLeast(v, D, h, 2) /\ AtMost(v, E, g, 2)
  BY <1>1, <1>2, CountedTwice, CountedAtMostTwice
<1>6. NumTasks * 2 <= SumFunctionOnSet(v, D)
  BY <1>4, <1>5, EachHasMore DEF AtLeast
<1>7. SumFunctionOnSet(v, E) <= NumTasks * 2
  BY <1>4, <1>5, EachHasLess DEF AtMost
<1>8. SumFunctionOnSet(v, E) = SumFunctionOnSet(v, D) + v[x]
  <2>1. IsFiniteSet(D) /\ \A p \in D \cup {x} : v[p] \in Int
    BY <1>1, <1>4 DEF Weights
  <2> QED
    BY <1>1, <2>1, SumGrows
<1>9. SumFunctionOnSet(v, D) \in Nat /\ NumTasks \in Nat /\ v[x] \in Nat /\ v[x] >= 1
  BY <1>1, <1>3, <1>4, ShareIsNat, TasksAssumption
<1> QED
  BY <1>6, <1>7, <1>8, <1>9

\* No division gives every task less than the last chunk.
LEMMA OneFits ==
    ASSUME NEW w, NEW S, Weights(w, S), NEW f, NEW top \in Nat, AtMost(w, S, f, top), NEW x \in S
    PROVE  w[x] <= top
<1>1. PICK Q : Q = {p \in S : f[p] = f[x]}
  OBVIOUS
<1>2. IsFiniteSet(Q) /\ {x} \in SUBSET Q /\ \A p \in Q : w[p] \in Nat
  BY <1>1, FS_Subset DEF Weights
<1>3. SumFunctionOnSet(w, Q) <= top
  BY <1>1 DEF AtMost, Divides, Share
<1>4. SumFunctionOnSet(w, {x}) = w[x] /\ w[x] \in Nat
  BY <1>2, SumOfOne
<1>5. /\ SumFunctionOnSet(w, {x}) <= SumFunctionOnSet(w, Q)
      /\ SumFunctionOnSet(w, Q) \in Nat
  BY <1>2, SumOfLess
<1> QED
  BY <1>3, <1>4, <1>5

\* A division within top of some chunks is one of fewer of them.
LEMMA FewerFit ==
    ASSUME NEW w, NEW S, Weights(w, S), NEW f, NEW top \in Nat, AtMost(w, S, f, top),
           NEW R \in SUBSET S
    PROVE  Weights(w, R) /\ AtMost(w, R, f, top)
<1>1. Weights(w, R)
  BY FS_Subset DEF Weights
<1>2. ASSUME NEW t \in Tasks PROVE Share(w, R, f, t) <= top
  <2>1. PICK Q : Q = {p \in S : f[p] = t}
    OBVIOUS
  <2>2. PICK P : P = {p \in R : f[p] = t}
    OBVIOUS
  <2>3. IsFiniteSet(Q) /\ P \in SUBSET Q /\ \A p \in Q : w[p] \in Nat
    BY <2>1, <2>2, FS_Subset DEF Weights
  <2>4. SumFunctionOnSet(w, Q) <= top
    BY <2>1 DEF AtMost, Share
  <2>5. /\ SumFunctionOnSet(w, P) <= SumFunctionOnSet(w, Q)
        /\ SumFunctionOnSet(w, Q) \in Nat /\ SumFunctionOnSet(w, P) \in Nat
    BY <2>3, SumOfLess
  <2> QED
    BY <2>2, <2>4, <2>5 DEF Share
<1> QED
  BY <1>1, <1>2 DEF AtMost, Divides

\* The task with the least load may be given the next chunk: the chunks so far
\* are no cheaper than this one, and no division of them does much better.
LEMMA NextFits ==
    ASSUME NEW w, NEW S, Weights(w, S), NEW D \in SUBSET S, NEW x \in S, x \notin D,
           \A p \in D : w[x] <= w[p],
           NEW h, NEW a \in Nat, AtLeast(w, D, h, a),
           NEW g, NEW top \in Nat, AtMost(w, S, g, top)
    PROVE  3 * NumTasks * (a + w[x]) <= (4 * NumTasks - 1) * top
<1>1. D \cup {x} \in SUBSET S
  OBVIOUS
<1>2. Weights(w, D \cup {x}) /\ AtMost(w, D \cup {x}, g, top)
  BY <1>1, FewerFit
<1>3. w[x] \in Nat /\ w[x] <= top /\ NumTasks \in Nat \ {0}
  BY OneFits, TasksAssumption DEF Weights
<1>4. CASE 3 * w[x] <= top
  BY <1>2, <1>4, SmallFits
<1>5. CASE 3 * w[x] > top
  <2>1. a + w[x] <= top
    BY <1>2, <1>3, <1>5, LargeFits
  <2>2. a + w[x] \in Nat
    BY <1>3
  <2> QED
    BY <1>3, <2>1, <2>2, NoMoreThanTop
<1> QED
  BY <1>3, <1>4, <1>5

\* The costs of the chunks of a plan.
LEMMA CostsAreWeights ==
    ASSUME PlanTypeOK, scheme \in Schemes
    PROVE  /\ Weights(ChunkCosts, Partitions)
           /\ \A p \in Partitions : ChunkCosts[p] = ChunkCost(p)
<1>1. \A p \in Partitions : ChunkCosts[p] = ChunkCost(p)
  BY DEF ChunkCosts
<1>2. PICK n : n = Len(plan) - 1
  OBVIOUS
<1>3. n \in Int
  BY <1>2 DEF PlanTypeOK
<1>4. IsFiniteSet(0 .. n)
  BY <1>3, FS_Interval
<1>5. IsFiniteSet(Partitions)
  BY <1>2, <1>4 DEF Partitions
<1> QED
  BY <1>1, <1>5, ChunkCostNat DEF Weights

\* The busiest task of a division has its load, and no task has more.
LEMMA LongestIsMost ==
    ASSUME PlanTypeOK, scheme \in Schemes, NEW f
    PROVE  /\ \A t \in Tasks : LoadOf(f, t) \in Nat /\ LoadOf(f, t) <= LongestLoad(f)
           /\ \E t \in Tasks : LongestLoad(f) = LoadOf(f, t)
           /\ LongestLoad(f) \in Nat
<1>1. PICK w : w = ChunkCosts
  OBVIOUS
<1>2. Weights(w, Partitions)
  BY <1>1, CostsAreWeights
<1>3. PICK all : all = SumFunctionOnSet(w, Partitions)
  OBVIOUS
<1>4. all \in Nat /\ \A t \in Tasks : LoadOf(f, t) \in Nat /\ LoadOf(f, t) <= all
  <2>1. all \in Nat
    BY <1>2, <1>3, ShareIsNat
  <2>2. ASSUME NEW t \in Tasks PROVE LoadOf(f, t) \in Nat /\ LoadOf(f, t) <= all
    <3>1. PICK Q : Q = {p \in Partitions : f[p] = t}
      OBVIOUS
    <3>2. Q \in SUBSET Partitions
      BY <3>1
    <3>3. SumFunctionOnSet(w, Q) \in Nat /\ SumFunctionOnSet(w, Q) <= all
      BY <1>2, <1>3, <3>2, SumOfLess DEF Weights
    <3> QED
      BY <1>1, <3>1, <3>3 DEF LoadOf
  <2> QED
    BY <2>1, <2>2
<1> DEFINE Loads == {LoadOf(f, t) : t \in Tasks}
           Left == {all - LoadOf(f, t) : t \in Tasks}
<1>5. Left \in SUBSET Nat /\ Left # {}
  BY <1>4, TasksAreNumbers
<1>6. PICK least \in Left : \A n \in Left : least <= n
  <2> HIDE DEF Left
  <2> QED
    BY <1>5, LeastElement
<1>7. PICK u \in Tasks : least = all - LoadOf(f, u)
  BY <1>6
<1>8. \A t \in Tasks : LoadOf(f, u) >= LoadOf(f, t)
  <2> SUFFICES ASSUME NEW t \in Tasks PROVE LoadOf(f, u) >= LoadOf(f, t)
    OBVIOUS
  <2>1. least <= all - LoadOf(f, t)
    BY <1>6
  <2> QED
    BY <1>4, <1>7, <2>1
<1>9. LoadOf(f, u) \in Loads /\ \A y \in Loads : LoadOf(f, u) >= y
  BY <1>8
<1>10. Max(Loads) \in Loads /\ \A y \in Loads : Max(Loads) >= y
  <2> HIDE DEF Loads
  <2> QED
    BY <1>9, Zenon DEF Max
<1>11. LongestLoad(f) = Max(Loads)
  BY DEF LongestLoad
<1>12. /\ \E t \in Tasks : LongestLoad(f) = LoadOf(f, t)
       /\ \A t \in Tasks : LongestLoad(f) >= LoadOf(f, t)
  BY <1>10, <1>11
<1> QED
  BY <1>4, <1>12

-----------------------------------------------------------------------------
(* The ranks keep the bound at every step of the way they all go.            *)

\* The load of a task is what its chunks cost.
LoadsAreShares(a) == \A t \in Tasks : a.load[t] = LoadOf(a.task, t)

\* No task has more than the guarantee allows.
NearBest(l) ==
    \A f \in [Partitions -> Tasks] : \A t \in Tasks :
        3 * NumTasks * l[t] <= (4 * NumTasks - 1) * LongestLoad(f)

\* What is assigned after k chunks of the order o: these, and nothing else.
FirstOf(o, k) == {o[j] : j \in 1 .. k}

Assigned(a, o, k) == \A p \in Partitions : a.task[p] \in Tasks <=> p \in FirstOf(o, k)

Good(a, o, k) == LoadsAreShares(a) /\ NearBest(a.load) /\ Assigned(a, o, k)

\* In a division of the chunks no task has more than the busiest.
LEMMA DivisionFits ==
    ASSUME PlanTypeOK, scheme \in Schemes, NEW f \in [Partitions -> Tasks]
    PROVE  AtMost(ChunkCosts, Partitions, f, LongestLoad(f)) /\ LongestLoad(f) \in Nat
BY LongestIsMost DEF AtMost, Divides, Share, LoadOf

\* Before the first chunk.
LEMMA NothingIsGood ==
    ASSUME PlanTypeOK, scheme \in Schemes, NEW o
    PROVE  Good(Nothing, o, 0)
<1>1. Unassigned \notin Tasks
  BY TasksAreNumbers DEF Unassigned
<1>2. /\ \A t \in Tasks : Nothing.load[t] = 0
      /\ \A p \in Partitions : Nothing.task[p] = Unassigned
  BY DEF Nothing
<1>3. LoadsAreShares(Nothing)
  <2> SUFFICES ASSUME NEW t \in Tasks PROVE LoadOf(Nothing.task, t) = 0
    BY <1>2 DEF LoadsAreShares
  <2>1. {p \in Partitions : Nothing.task[p] = t} = {}
    BY <1>1, <1>2
  <2> QED
    BY <2>1, SumOfNone DEF LoadOf
<1>4. NearBest(Nothing.load)
  <2> SUFFICES ASSUME NEW f \in [Partitions -> Tasks], NEW t \in Tasks
               PROVE  3 * NumTasks * 0 <= (4 * NumTasks - 1) * LongestLoad(f)
    BY <1>2 DEF NearBest
  <2>1. LongestLoad(f) \in Nat /\ NumTasks \in Nat \ {0}
    BY DivisionFits, TasksAssumption
  <2> QED
    BY <2>1, NoMoreThanTop
<1>5. Assigned(Nothing, o, 0)
  BY <1>1, <1>2 DEF Assigned, FirstOf
<1> QED
  BY <1>3, <1>4, <1>5 DEF Good

\* One chunk more: the loads follow, and the guarantee holds on.
LEMMA PlacedIsGood ==
    ASSUME PlanTypeOK, scheme \in Schemes, NEW o, InCostOrder(o),
           NEW k \in Nat, k < Len(plan), NEW a \in Assignment, Good(a, o, k)
    PROVE  Good(Placed(a, o[k + 1]), o, k + 1)
<1>1. /\ Len(plan) \in Nat
      /\ o \in [1 .. Len(plan) -> Partitions]
      /\ \A i, j \in 1 .. Len(plan) : i # j => o[i] # o[j]
  BY OrderIsBijective
<1>2. PICK x : x = o[k + 1]
  OBVIOUS
<1>3. k + 1 \in 1 .. Len(plan) /\ x \in Partitions
  BY <1>1, <1>2
<1>4. PICK D : D = FirstOf(o, k)
  OBVIOUS
<1>5. D \in SUBSET Partitions /\ x \notin D /\ FirstOf(o, k + 1) = D \cup {x}
  <2>1. \A j \in 1 .. k : j \in 1 .. Len(plan) /\ j # k + 1
    BY <1>3
  <2>2. 1 .. k + 1 = (1 .. k) \cup {k + 1}
    OBVIOUS
  <2>3. FirstOf(o, k + 1) = D \cup {x}
    BY <1>2, <1>4, <2>2 DEF FirstOf
  <2> QED
    BY <1>1, <1>2, <1>3, <1>4, <2>1, <2>3 DEF FirstOf
<1>6. PICK w : w = ChunkCosts
  OBVIOUS
<1>7. Weights(w, Partitions) /\ \A p \in Partitions : w[p] = ChunkCost(p) /\ w[p] \in Nat
  BY <1>6, CostsAreWeights DEF Weights
<1>8. \A p \in D : w[x] <= w[p]
  <2> SUFFICES ASSUME NEW j \in 1 .. k PROVE w[x] <= w[o[j]]
    BY <1>4 DEF FirstOf
  <2>1. j \in 1 .. Len(plan) /\ j < k + 1 /\ o[j] \in Partitions
    BY <1>1, <1>3
  <2>2. DOMAIN o = 1 .. Len(plan)
    BY <1>1
  <2>3. ~Before(x, o[j])
    BY <1>2, <1>3, <2>1, <2>2 DEF InCostOrder
  <2>4. ~(w[x] > w[o[j]])
    BY <1>3, <1>7, <2>1, <2>3 DEF Before
  <2> QED
    BY <1>3, <1>7, <2>1, <2>4
<1>9. PICK best : best = Best(a.load)
  OBVIOUS
<1>10. /\ a.load \in [Tasks -> Nat] /\ a.task \in [Partitions -> Tasks \cup {Unassigned}]
       /\ best \in Tasks /\ \A t \in Tasks : a.load[best] <= a.load[t]
  BY <1>9, BestIsATask DEF Assignment
<1>11. PICK low \in Nat : low = a.load[best]
  BY <1>10
<1>12. PICK h : h = a.task
  OBVIOUS
<1>13. PICK b : b = Placed(a, x)
  OBVIOUS
<1>14. /\ b.load = [a.load EXCEPT ![best] = low + w[x]]
       /\ b.task = [h EXCEPT ![x] = best]
  BY <1>3, <1>7, <1>9, <1>11, <1>12, <1>13 DEF Placed
<1>15. \A p \in Partitions : h[p] \in Tasks <=> p \in D
  BY <1>4, <1>12 DEF Good, Assigned
<1>16. Assigned(b, o, k + 1)
  <2> SUFFICES ASSUME NEW p \in Partitions PROVE b.task[p] \in Tasks <=> p \in D \cup {x}
    BY <1>5 DEF Assigned
  <2>1. b.task[p] = IF p = x THEN best ELSE h[p]
    BY <1>10, <1>12, <1>14
  <2> QED
    BY <1>10, <1>15, <2>1
<1>17. LoadsAreShares(b)
  <2> SUFFICES ASSUME NEW t \in Tasks PROVE b.load[t] = LoadOf(b.task, t)
    BY DEF LoadsAreShares
  <2>1. PICK Q : Q = {p \in Partitions : h[p] = t}
    OBVIOUS
  <2>2. a.load[t] = SumFunctionOnSet(w, Q)
    BY <1>6, <1>12, <2>1 DEF Good, LoadsAreShares, LoadOf
  <2>3. x \notin Q
    BY <1>3, <1>5, <1>15, <2>1
  <2>4. \A p \in Partitions : b.task[p] = IF p = x THEN best ELSE h[p]
    BY <1>10, <1>12, <1>14
  <2>5. CASE t = best
    <3>1. {p \in Partitions : b.task[p] = t} = Q \cup {x}
      BY <1>3, <2>1, <2>4, <2>5
    <3>2. IsFiniteSet(Q) /\ \A p \in Q \cup {x} : w[p] \in Int
      BY <1>3, <1>7, <2>1, FS_Subset DEF Weights
    <3>3. SumFunctionOnSet(w, Q \cup {x}) = SumFunctionOnSet(w, Q) + w[x]
      BY <2>3, <3>2, SumGrows
    <3>4. b.load[t] = low + w[x]
      BY <1>10, <1>14, <2>5
    <3> QED
      BY <1>6, <1>11, <2>2, <2>5, <3>1, <3>3, <3>4 DEF LoadOf
  <2>6. CASE t # best
    <3>1. {p \in Partitions : b.task[p] = t} = Q
      BY <2>1, <2>3, <2>4, <2>6
    <3>2. b.load[t] = a.load[t]
      BY <1>10, <1>14, <2>6
    <3> QED
      BY <1>6, <2>2, <3>1, <3>2 DEF LoadOf
  <2> QED
    BY <2>5, <2>6
<1>18. AtLeast(w, D, h, low)
  <2>1. ASSUME NEW t \in Tasks PROVE low <= Share(w, D, h, t)
    <3>1. {p \in D : h[p] = t} = {p \in Partitions : h[p] = t}
      BY <1>5, <1>15
    <3>2. Share(w, D, h, t) = a.load[t]
      BY <1>6, <1>12, <3>1 DEF Share, Good, LoadsAreShares, LoadOf
    <3> QED
      BY <1>10, <1>11, <3>2
  <2>2. Divides(h, D)
    BY <1>5, <1>15 DEF Divides
  <2> QED
    BY <2>1, <2>2 DEF AtLeast
<1>19. NearBest(b.load)
  <2> SUFFICES ASSUME NEW f \in [Partitions -> Tasks], NEW t \in Tasks
               PROVE  3 * NumTasks * b.load[t] <= (4 * NumTasks - 1) * LongestLoad(f)
    BY DEF NearBest
  <2>1. CASE t = best
    <3>1. b.load[t] = low + w[x]
      BY <1>10, <1>14, <2>1
    <3>2. PICK top : top = LongestLoad(f)
      OBVIOUS
    <3>3. AtMost(w, Partitions, f, top) /\ top \in Nat
      BY <1>6, <3>2, DivisionFits
    <3>4. 3 * NumTasks * (low + w[x]) <= (4 * NumTasks - 1) * top
      BY <1>3, <1>5, <1>7, <1>8, <1>18, <3>3, NextFits
    <3> QED
      BY <3>1, <3>2, <3>4
  <2>2. CASE t # best
    <3>1. b.load[t] = a.load[t]
      BY <1>10, <1>14, <2>2
    <3> QED
      BY <3>1 DEF Good, NearBest
  <2> QED
    BY <2>1, <2>2
<1> QED
  BY <1>2, <1>13, <1>16, <1>17, <1>19 DEF Good

\* So along all the steps.
LEMMA StepsAreGood ==
    ASSUME PlanTypeOK, scheme \in Schemes, NEW o, NEW m, NEW steps,
           InCostOrder(o), AreSteps(o, m, steps)
    PROVE  \A k \in 0 .. m : Good(steps[k], o, k)
<1> DEFINE Bad == {k \in 0 .. m : ~Good(steps[k], o, k)}
<1>1. SUFFICES ASSUME Bad # {} PROVE FALSE
  OBVIOUS
<1>2. /\ m \in 0 .. Len(plan) /\ Len(plan) \in Nat
      /\ steps \in [0 .. m -> Assignment] /\ steps[0] = Nothing
      /\ \A k \in 0 .. m - 1 : steps[k + 1] = Placed(steps[k], o[k + 1])
  BY OrderIsBijective DEF AreSteps
<1>3. Bad \in SUBSET Nat
  BY <1>2
<1>4. PICK n \in Bad : \A i \in Bad : n <= i
  BY <1>1, <1>3, LeastElement
<1>5. n # 0
  BY <1>2, <1>4, NothingIsGood
<1>6. PICK k : k = n - 1
  OBVIOUS
<1>7. k \in Nat /\ k \in 0 .. m - 1 /\ k \in 0 .. m /\ k + 1 = n /\ k < n /\ k < Len(plan)
  BY <1>2, <1>4, <1>5, <1>6
<1>8. k \notin Bad
  <2> HIDE DEF Bad
  <2> QED
    BY <1>3, <1>4, <1>7
<1>9. Good(steps[k], o, k) /\ steps[k] \in Assignment
  BY <1>2, <1>7, <1>8
<1>10. Good(Placed(steps[k], o[k + 1]), o, k + 1)
  BY <1>7, <1>9, PlacedIsGood
<1> QED
  BY <1>2, <1>4, <1>7, <1>10

\* A rank that has assigned all chunks stays within the guarantee.
LEMMA AssignedNearBest == ASSUME RankInv PROVE NearBestDivision
<1>1. PlanTypeOK /\ scheme \in Schemes
  BY DEF RankInv, IInv, Shapes
<1> SUFFICES ASSUME NEW r \in Tasks, pc[r] = "process", NEW f \in [Partitions -> Tasks]
             PROVE  3 * NumTasks * LongestLoad(task[r]) <= (4 * NumTasks - 1) * LongestLoad(f)
  BY DEF NearBestDivision
<1>2. PICK o, m, steps : OnSteps(o, m, steps)
  BY DEF RankInv, AllAgree
<1>3. PICK k \in 0 .. m : task[r] = steps[k].task
  BY <1>2 DEF OnSteps, HasReached
<1>4. Good(steps[k], o, k)
  BY <1>1, <1>2, <1>3, StepsAreGood DEF OnSteps
<1>5. PICK t \in Tasks : LongestLoad(task[r]) = LoadOf(task[r], t)
  BY <1>1, LongestIsMost
<1>6. LoadOf(task[r], t) = steps[k].load[t]
  BY <1>3, <1>4 DEF Good, LoadsAreShares
<1> QED
  BY <1>4, <1>5, <1>6 DEF Good, NearBest

\* "Longest processing time first" keeps its guarantee (chunk_plan.h:6): for every
\* plan, pricing and number of ranks, no rank is given more than 4/3 - 1/(3 NumTasks)
\* of what the busiest rank has in the best division of the chunks.
THEOREM DivisionIsNearBest == Spec => []NearBestDivision
<1>1. Init => RankInv
  BY RankInit
<1>2. RankInv /\ [Next]_vars => RankInv'
  BY RankStep
<1>3. RankInv => NearBestDivision
  BY AssignedNearBest
<1> QED
  BY <1>1, <1>2, <1>3, PTL DEF Spec
=============================================================================
