---------------------------- MODULE JaxPartition ----------------------------
(***************************************************************************)
(* The partition driver of mimic_jax: evolve_lhalo_partition, and its      *)
(* linearized form linearize_lhalo_partition, which carries the tangents   *)
(* of the galaxies in arrays beside their states.  The host gathers every  *)
(* FoF group of a snapshot first, then runs the groups through the         *)
(* compiled kernel in batches of one shape, padding groups with Type 3     *)
(* slots and batches with copies of their last group, and marshals the     *)
(* results.  evolve_lhalo_tree, one group at a time, is the reference.     *)
(*                                                                         *)
(* What the kernel computes is abstracted to who is consumed and to which  *)
(* groups a state, or its tangent, depends on.                             *)
(***************************************************************************)
EXTENDS MergerTree, FiniteSets, Subsequences

CONSTANTS Jobs,         \* the calls: a job has the trees of the partition, the
                        \* satellites each will lose to a merger or disruption,
                        \* batch_size, max_batch_members, member_binning and
                        \* output_snapshots
          SmallShape    \* below it a shape is always compiled for full batches

ASSUME JobsAssumption ==
    \A j \in Jobs : /\ j.trees \in Seq({t \in Tree : WellFormed(t)})
                    /\ j.batchSize \in Nat \ {0} /\ j.maxMembers \in Nat \ {0}
                    /\ j.binning \in {"exact", "power_of_two"}

\* Halos have particles: behind an empty first progenitor,
\* _first_occupied_progenitor() takes none without.
ASSUME LenAssumption ==
    \A j \in Jobs : \A w \in DOMAIN j.trees : \A h \in Halos : j.trees[w].len[h] > 0

VARIABLES job,          \* the call
          snapshot,     \* the snapshot of the outer loop
          todo,         \* its FoF groups still to be gathered, as <<workspace, root>>
          processed,    \* processed[w][h]: the galaxies halo h of tree w ended with
          buckets,      \* the gathered groups by member count, in order of arrival
          batch,        \* the groups of a batch and their results, to be marshalled
          records,      \* records[w]: the galaxies kept for the catalogue
          evolved,      \* evolved[w]: the groups marshalled, in order
          status        \* "running", "finished" or "error"

callVars == <<job, snapshot, todo, processed, buckets, batch, records, evolved, status>>

Workspaces == DOMAIN job.trees

\* A GalaxyRecord: history has the groups the state depends on, tangent those
\* that the tangent kept with it says it depends on.
GalaxyRecord == [id : Halos, halo : Halos, type : 0 .. 3, central : Nat, snap : Int,
                 history : SUBSET Halos, tangent : SUBSET Halos]

-----------------------------------------------------------------------------

\* _first_occupied_progenitor()
FirstOccupied(t, out, h) ==
    LET progs    == t.progs[h]
        occupied == {k \in DOMAIN progs : out[progs[k]] # <<>> /\ t.len[progs[k]] > 0}
        longest  == {k \in occupied :
                        \A j \in occupied : t.len[progs[j]] <= t.len[progs[k]]}
    IN  IF occupied = {} \/ out[progs[1]] # <<>>
        THEN progs[1]
        ELSE progs[CHOOSE k \in longest : \A j \in longest : k <= j]

\* inherit_progenitor(): along the main branch a central or satellite takes the
\* descendant's place, along any other it becomes an orphan.
Inherited(t, g, h, root, main) ==
    [g EXCEPT !.halo = h,
              !.type = IF @ \in {2, 3} THEN @
                       ELSE IF ~main THEN 2
                       ELSE IF h = root THEN 0 ELSE 1]

\* initialise_new_central(): its tangent is zero.
NewCentral(t, h) ==
    [id |-> h, halo |-> h, type |-> 0, central |-> 0, snap |-> t.snap[h] - 1,
     history |-> {}, tangent |-> {}]

\* What progenitor p brings; a galaxy of Type 3 is not retained.
Brought(t, out, p, h, root) ==
    LET main == FirstOccupied(t, out, h)
        from == [n \in DOMAIN out[p] |-> Inherited(t, out[p][n], h, root, p = main)]
    IN  Kept(from, {n \in DOMAIN from : from[n].type # 3})

\* The galaxies of the progenitors, in the order of the two chains.
Arrivals(t, out, h, root) ==
    FlattenSeq([k \in DOMAIN t.progs[h] |-> Brought(t, out, t.progs[h][k], h, root)])

Slice(t, out, h, root) ==
    LET arrivals == Arrivals(t, out, h, root)
    IN  IF arrivals = <<>> /\ h = root THEN <<NewCentral(t, h)>> ELSE arrivals

LocalCentrals(slice) == {k \in DOMAIN slice : slice[k].type \in {0, 1}}

\* A mistake: the index within the slice.
LinkedInSlice(slice, start) ==
    [k \in DOMAIN slice |->
        [slice[k] EXCEPT !.central = CHOOSE c \in LocalCentrals(slice) : TRUE]]

\* set_local_central(): links into the workspace of the group.
Linked(slice, start) ==
    [k \in DOMAIN slice |->
        [slice[k] EXCEPT !.central = start + CHOOSE c \in LocalCentrals(slice) : TRUE]]

\* _prepare_group(): the workspace of a group, the tangents of its members
\* beside it, and the segment of every member halo as <<halo, first, last>>.
\* The tangents of the workspace's own records are not used from here on.
Task(w, t, out, root) ==
    LET members == t.members[root]
        slices  == [m \in DOMAIN members |-> Slice(t, out, members[m], root)]
        start   == [m \in DOMAIN slices |-> Len(FlattenSeq(SubSeq(slices, 1, m - 1)))]
    IN  [w |-> w, root |-> root,
         states   |-> FlattenSeq([m \in DOMAIN slices |-> Linked(slices[m], start[m])]),
         tangents |-> FlattenSeq([m \in DOMAIN slices |->
                          [n \in DOMAIN slices[m] |-> slices[m][n].tangent]]),
         segments |-> [m \in DOMAIN slices |->
                          <<members[m], start[m] + 1, start[m] + Len(slices[m])>>]]

\* The ValueErrors of _prepare_group().
Raises(t, out, root) ==
    \/ \E h \in MembersOf(t, root) :
          LET slice == Slice(t, out, h, root)
          IN  slice # <<>> /\ Cardinality(LocalCentrals(slice)) # 1
    \/ LET states == Task(1, t, out, root).states
           zeros  == {k \in DOMAIN states : states[k].type = 0}
       IN  Cardinality(zeros) # 1 \/ \E k \in zeros : states[k].halo # root

-----------------------------------------------------------------------------

\* The doomed satellites and every orphan are consumed.
Gone(states, doomed) ==
    {k \in DOMAIN states : \/ states[k].type = 2
                           \/ states[k].type = 1 /\ states[k].id \in doomed}

\* What the members depend on afterwards, where they depended on upon[k].
Depending(upon, states, root, gone) ==
    [k \in DOMAIN states |->
        CASE states[k].type = 3 -> upon[k]
          [] states[k].type = 0 -> upon[k] \cup {root} \cup UNION {upon[j] : j \in gone}
          [] OTHER              -> upon[k] \cup {root}]

\* evolve_upstream_sequential_group_final() on the members of a group: module
\* GroupBaryons has its steps.  The central takes over what the consumed depend
\* on, and every live member depends on the controls of this group.
Kernel(states, tangents, root, doomed) ==
    LET gone == Gone(states, doomed)
        now  == Depending([k \in DOMAIN states |-> states[k].history], states, root, gone)
    IN  [states   |-> [k \in DOMAIN states |->
                          [states[k] EXCEPT !.type = IF k \in gone THEN 3 ELSE @,
                                            !.history = now[k]]],
         tangents |-> Depending(tangents, states, root, gone)]

\* A mistake: the index counts the live records only.
TangentsOfLive(states, tangents) ==
    LET Rank(k) == Cardinality({j \in 1 .. k : states[j].type # 3})
    IN  [k \in DOMAIN states |-> tangents[IF states[k].type = 3 THEN k ELSE Rank(k)]]

\* _marshal_group(): the tangent of a record is the one at its own index.
TangentsOf(states, tangents) == tangents

\* _marshal_group(): what the halo of a segment is left with.
Segment(t, result, seg) ==
    LET tangents == TangentsOf(result.states, result.tangents)
        stamped  == [k \in DOMAIN result.states |->
                        [result.states[k] EXCEPT !.snap = t.snap[seg[1]], !.tangent = tangents[k]]]
    IN  Kept(stamped, {k \in seg[2] .. seg[3] : result.states[k].type # 3})

\* _marshal_group(): the segments of a group, and the records among them.
Segments(t, task, result) ==
    [n \in DOMAIN task.segments |-> Segment(t, result, task.segments[n])]

Marshalled(t, out, task, result) ==
    LET Of(h) == {seg \in Range(task.segments) : seg[1] = h}
    IN  [h \in Halos |-> IF Of(h) = {} THEN out[h]
                         ELSE Segment(t, result, CHOOSE seg \in Of(h) : TRUE)]

-----------------------------------------------------------------------------

\* _new_tree_workspace(): roots_by_snapshot
RootsAt(t, s) ==
    Kept([n \in 1 .. NumHalos |-> n - 1],
         {n \in 1 .. NumHalos : t.snap[n - 1] = s /\ t.fof[n - 1] = n - 1})

\* A mistake: the snapshots of the first tree.
SnapshotsOfFirst == {job.trees[1].snap[h] : h \in Halos}

Snapshots == {t.snap[h] : t \in Range(job.trees), h \in Halos}

Following == {s \in Snapshots : s > snapshot}

\* Every group of snapshot s, workspace by workspace.
GroupsAt(s) ==
    FlattenSeq([w \in Workspaces |->
        [n \in DOMAIN RootsAt(job.trees[w], s) |-> <<w, RootsAt(job.trees[w], s)[n]>>]])

\* 1 << (n - 1).bit_length()
PowerAtLeast(n) ==
    LET power[b \in 0 .. n] == IF b = 0 THEN 1 ELSE 2 * power[b - 1]
    IN  power[Min({b \in 0 .. n : power[b] >= n})]

\* _member_bin()
MemberBin(n) == IF job.binning = "exact" THEN n ELSE PowerAtLeast(n)

\* The batch size of a shape that the given number of groups wait for.
ShapeBatch(count, waiting) ==
    LET allowed == Max({1, Min({job.batchSize, job.maxMembers \div count})})
    IN  IF job.binning = "power_of_two" \/ count < SmallShape
        THEN allowed
        ELSE Min({allowed, PowerAtLeast(waiting)})

CallInit ==
    /\ job \in Jobs
    /\ snapshot = -1
    /\ todo = <<>> /\ buckets = <<>> /\ batch = <<>>
    /\ processed = [w \in DOMAIN job.trees |-> [h \in Halos |-> <<>>]]
    /\ records = [w \in DOMAIN job.trees |-> <<>>]
    /\ evolved = [w \in DOMAIN job.trees |-> <<>>]
    /\ status = "running"

NextSnapshot ==
    /\ status = "running"
    /\ todo = <<>> /\ buckets = <<>> /\ batch = <<>>
    /\ IF Following = {}
       THEN status' = "finished" /\ UNCHANGED <<snapshot, todo>>
       ELSE /\ snapshot' = Min(Following)
            /\ todo' = GroupsAt(snapshot')
            /\ UNCHANGED status
    /\ UNCHANGED <<job, processed, buckets, batch, records, evolved>>

\* buckets.setdefault(key, []).append(task)
Bucketed(task) ==
    LET count == MemberBin(Len(task.states))
        at    == SelectInSeq(buckets, LAMBDA b : b.count = count)
    IN  IF at = 0 THEN Append(buckets, [count |-> count, shape |-> 0, tasks |-> <<task>>])
                  ELSE [buckets EXCEPT ![at].tasks = Append(@, task)]

\* A mistake: the galaxies stay with their progenitors.
DiscardedNone(t, out, root) == out

\* The galaxies of progenitors that were inherited are discarded at once.
Discarded(t, out, root) ==
    LET used == UNION {Progenitors(t, h) : h \in MembersOf(t, root)}
    IN  [h \in Halos |-> IF h \in used THEN <<>> ELSE out[h]]

PrepareGroup ==
    LET w    == Head(todo)[1]
        root == Head(todo)[2]
        t    == job.trees[w]
    IN  /\ status = "running" /\ todo # <<>>
        /\ IF Raises(t, processed[w], root)
           THEN status' = "error" /\ UNCHANGED <<todo, processed, buckets>>
           ELSE /\ todo' = Tail(todo)
                /\ buckets' = Bucketed(Task(w, t, processed[w], root))
                /\ processed' = [processed EXCEPT ![w] = Discarded(t, @, root)]
                /\ UNCHANGED status
        /\ UNCHANGED <<job, snapshot, batch, records, evolved>>

\* _pad_inactive_members(), _pad_linearized_group()
Slot(task) ==
    [id |-> 0, halo |-> 0, type |-> 3, snap |-> -1, history |-> {}, tangent |-> {},
     central |-> SelectInSeq(task.states, LAMBDA g : g.type = 0)]

PaddedTo(task, count) ==
    LET more == count - Len(task.states)
    IN  [task EXCEPT !.states = @ \o [n \in 1 .. more |-> Slot(task)],
                     !.tangents = @ \o [n \in 1 .. more |-> {}]]

\* A mistake: the copies that fill the batch are marshalled as well.
TakenWithCopies(active, results) ==
    [n \in DOMAIN results |->
        [task |-> active[IF n > Len(active) THEN Len(active) ELSE n], result |-> results[n]]]

\* The results of the active groups, by their position in the batch.
Taken(active, results) ==
    [n \in DOMAIN active |-> [task |-> active[n], result |-> results[n]]]

\* One batch of the first bucket through the compiled kernel.  The shape's batch
\* size is settled before its first batch.
RunBatch ==
    LET b      == Head(buckets)
        shape  == IF b.shape = 0 THEN ShapeBatch(b.count, Len(b.tasks)) ELSE b.shape
        active == SubSeq(b.tasks, 1, IF shape < Len(b.tasks) THEN shape ELSE Len(b.tasks))
        rest   == SubSeq(b.tasks, Len(active) + 1, Len(b.tasks))
        padded == active \o [n \in 1 .. shape - Len(active) |-> Last(active)]
        Result(task) == LET p == PaddedTo(task, b.count)
                        IN  Kernel(p.states, p.tangents, p.root, job.doomed[p.w])
    IN  /\ status = "running" /\ todo = <<>> /\ batch = <<>> /\ buckets # <<>>
        /\ batch' = Taken(active, [n \in DOMAIN padded |-> Result(padded[n])])
        /\ buckets' = IF rest = <<>> THEN Tail(buckets)
                      ELSE <<[b EXCEPT !.tasks = rest, !.shape = shape]>> \o Tail(buckets)
        /\ UNCHANGED <<job, snapshot, todo, processed, records, evolved, status>>

MarshalGroup ==
    LET task == Head(batch).task
        t    == job.trees[task.w]
    IN  /\ status = "running" /\ batch # <<>>
        /\ batch' = Tail(batch)
        /\ processed' = [processed EXCEPT ![task.w] = Marshalled(t, @, task, Head(batch).result)]
        /\ records' = IF snapshot \in job.output
                      THEN [records EXCEPT ![task.w] =
                              @ \o FlattenSeq(Segments(t, task, Head(batch).result))]
                      ELSE records
        /\ evolved' = [evolved EXCEPT ![task.w] = Append(@, task.root)]
        /\ UNCHANGED <<job, snapshot, todo, buckets, status>>

Returned == status # "running" /\ UNCHANGED callVars

CallNext == NextSnapshot \/ PrepareGroup \/ RunBatch \/ MarshalGroup \/ Returned

CallSpec == CallInit /\ [][CallNext]_callVars

-----------------------------------------------------------------------------

\* One group of evolve_lhalo_tree(), from what the tree has so far.
AfterKernel(t, acc, task, result) ==
    LET Marshal(out, seg) == [out EXCEPT ![seg[1]] = Segment(t, result, seg)]
    IN  [out     |-> FoldLeft(Marshal, acc.out, task.segments),
         records |-> acc.records \o FlattenSeq(Segments(t, task, result))]

AfterTask(t, acc, task, doomed) ==
    AfterKernel(t, acc, task, Kernel(task.states, task.tangents, task.root, doomed))

\* evolve_lhalo_tree(): the groups of one tree, snapshot by snapshot, none
\* discarded, none padded.
TreeEvolution(w) ==
    LET t == job.trees[w]
        Before(f, g) == \/ t.snap[f] < t.snap[g]
                        \/ t.snap[f] = t.snap[g] /\ f < g
        Evolve(acc, root) == AfterTask(t, acc, Task(w, t, acc.out, root), job.doomed[w])
    IN  FoldLeft(Evolve, [out |-> [h \in Halos |-> <<>>], records |-> <<>>],
                 SetToSortSeq(Fofs(t), Before))

SameRecords(a, b) == Len(a) = Len(b) /\ Range(a) = Range(b)

\* Batches, shapes, padding and discarded progenitors change nothing: a tree
\* has the records, and keeps for the requested snapshots those, that it has
\* when it is evolved alone.  Only their order within a snapshot may differ.
BatchingIsNeutral ==
    status = "finished" =>
        \A w \in Workspaces :
            SameRecords(records[w], SelectSeq(TreeEvolution(w).records,
                                              LAMBDA g : g.snap \in job.output))

Waiting == (UNION {Range(buckets[n].tasks) : n \in DOMAIN buckets})
              \cup {batch[n].task : n \in DOMAIN batch}

\* A tangent stays with its galaxy: through gathering, padding, the kernel and
\* the marshalling it depends on the groups the galaxy's state depends on.
TangentsFollow ==
    \A w \in Workspaces : \A g \in Range(records[w]) : g.tangent = g.history

\* No group is gathered before the groups it inherits from were marshalled, none
\* is marshalled twice, no ValueError stops the call, and when it returns every
\* group of every tree has been evolved.
EveryGroupOnce ==
    /\ status # "error"
    /\ \A w \in Workspaces :
          /\ IsInjective(evolved[w])
          /\ \A task \in Waiting :
                task.w = w => Needs(job.trees[w], task.root) \subseteq Range(evolved[w])
          /\ status = "finished" => Range(evolved[w]) = Fofs(job.trees[w])
=============================================================================
