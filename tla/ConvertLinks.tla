---------------------------- MODULE ConvertLinks ----------------------------
(***************************************************************************)
(* How the offline converter computes, snapshot by snapshot, the links that *)
(* the Consistent-Trees reader (LinkBuild) builds forest by forest, and     *)
(* the checks of its validation battery on them.  The promise of the        *)
(* converter is that a snapshot-ordered run on its output cannot be told    *)
(* from a tree-ordered run on the catalogue, so both must find the same     *)
(* links for the same rows, in the same order.                              *)
(*                                                                          *)
(* A row of a slab is known by its id: slabs are sorted by id, so an index  *)
(* into a slab and an id say the same, and an id of another slab stands for *)
(* an index out of range.  The rows are those of one forest; that the       *)
(* stages keep forests apart is not modelled.                               *)
(***************************************************************************)
EXTENDS LinkBuild, FiniteSets

LOCAL INSTANCE SequencesExt

CONSTANT LastSnap       \* the last snapshot of the a_list

ASSUME LastSnapAssumption == \A f \in Forests : \A h \in Ids : f.snap[h] <= LastSnap

Slab(f, s) == {h \in Ids : f.snap[h] = s}
SlabOf(f, h) == Slab(f, f.snap[h])
MaxSnapOf(f) == CHOOSE s \in {f.snap[h] : h \in Ids} : \A h \in Ids : f.snap[h] <= s

-----------------------------------------------------------------------------
(* fixups.py *)

\* validate_adjacency(); a descendant that no row has is taken to claim the
\* scale of the next snapshot.
Adjacent(f) ==
    \A h \in Ids : f.desc[h] # None =>
        /\ f.snap[h] < LastSnap
        /\ f.desc[h] \in Ids => f.snap[f.desc[h]] = f.snap[h] + 1

\* The first row, in ascending id, with the largest Mvir.
SurvivorOf(f, centrals) ==
    CHOOSE h \in centrals : \A g \in centrals :
        f.mass[g] < f.mass[h] \/ (f.mass[g] = f.mass[h] /\ h <= g)

CentralRows(f) == {h \in Slab(f, MaxSnapOf(f)) : f.host[h] = None}

\* fix_flybys_snapshot(), at the last snapshot of the forest: the rows as read,
\* or with one central left.
FlybysFixed(f) ==
    LET centrals == CentralRows(f)
        survivor == SurvivorOf(f, centrals)
        demoted  == IF Cardinality(centrals) > 1 THEN centrals \ {survivor} ELSE {}
        others   == IF demoted = {} THEN {} ELSE Slab(f, MaxSnapOf(f)) \ {survivor}
    IN  [pid     |-> [h \in Ids |-> IF h \in demoted THEN survivor ELSE f.host[h]],
         upid    |-> [h \in Ids |-> IF h \in others THEN survivor ELSE f.host[h]],
         negated |-> demoted,
         failed  |-> {}]

\* _lookup() of the upid, then of the pid, in the slab only.
Target(f, r, cur) ==
    CASE r.upid[cur] \in SlabOf(f, cur) -> r.upid[cur]
      [] r.upid[cur] \notin SlabOf(f, cur) /\ r.pid[cur] \in SlabOf(f, cur) -> r.pid[cur]
      [] OTHER -> None

\* The central the chain of row leads to, None after MAX_UPID_CHAIN_DEPTH + 1
\* lookups.
UltimateCentral(f, r, row) ==
    LET walk[n \in 0 .. MaxHostDepth + 1, cur \in Ids] ==
          LET target == IF n = 0 THEN None ELSE Target(f, r, cur)
          IN  IF target = None \/ r.pid[target] = None THEN target ELSE walk[n - 1, target]
    IN  walk[MaxHostDepth + 1, row]

\* One turn of fix_upid_snapshot(): a later row sees what this one became.
ResolveRow(f, r, row) ==
    LET ultimate == UltimateCentral(f, r, row)
    IN  CASE r.pid[row] = None -> r
          [] r.pid[row] # None /\ ultimate # None ->
                 [r EXCEPT !.pid[row] = ultimate, !.upid[row] = ultimate]
          [] OTHER -> [r EXCEPT !.failed = @ \cup {row}]

\* fix_upid_snapshot() on every slab, rows in ascending id.
HostsFixed(f) ==
    LET fixed == FlybysFixed(f)
        start == [fixed EXCEPT !.upid = [h \in Ids |-> IF fixed.pid[h] = None THEN h ELSE @[h]]]
        scan[k \in 0 .. NumHalos] == IF k = 0 THEN start ELSE ResolveRow(f, scan[k - 1], k)
    IN  scan[NumHalos]

FixupsSucceed(f) == /\ Adjacent(f)
                    /\ CentralRows(f) # {}
                    /\ HostsFixed(f).failed = {}

-----------------------------------------------------------------------------
(* links.py, on fixed rows r *)

\* reference_order(): the key (upid, pid, id).
Encounter(r, a, b) ==
    \/ r.upid[a] < r.upid[b]
    \/ r.upid[a] = r.upid[b] /\ r.pid[a] < r.pid[b]
    \/ r.upid[a] = r.upid[b] /\ r.pid[a] = r.pid[b] /\ a < b

InOrder(r, S) == SetToSortSeq(S, LAMBDA a, b : Encounter(r, a, b))

\* A run of equal upid in the order.
Run(f, r, h) == InOrder(r, {g \in SlabOf(f, h) : r.upid[g] = r.upid[h]})

\* build_fof_chains()
HeadsAreCentrals(f, r) ==
    \A h \in Ids : LET head == Run(f, r, h)[1] IN r.pid[head] = None /\ r.upid[h] = head

\* The value after h in s, None after the last.
After(s, h) ==
    LET k == CHOOSE k \in DOMAIN s : s[k] = h
    IN  IF k = Len(s) THEN None ELSE s[k + 1]

\* build_descendants()
DescendantsFound(f) == \A h \in Ids : f.desc[h] \in {None} \cup Slab(f, f.snap[h] + 1)

\* A mistake: a heavier progenitor goes to the front, its predecessor to the
\* end ("max first, remainder in encounter order").
ChainedMaxFirst(f, chain, p) ==
    IF f.mass[chain[1]] < f.mass[p] THEN <<p>> \o Tail(chain) \o <<chain[1]>> ELSE Append(chain, p)

\* One turn of the insertion loop of build_progenitor_links().
Chained(f, chain, p) ==
    IF f.mass[chain[1]] < f.mass[p] THEN <<p>> \o chain ELSE Append(chain, p)

\* The chain of the progenitors of d.
ProgenitorChain(f, r, d) ==
    LET found == InOrder(r, {h \in Ids : f.desc[h] = d})
    IN  IF found = <<>> THEN <<>>
        ELSE FoldLeft(LAMBDA chain, p : Chained(f, chain, p), <<found[1]>>, Tail(found))

\* compute_identity(): the later snapshot first, then the order of the slab.
RankBefore(f, r, a, b) ==
    \/ f.snap[a] > f.snap[b]
    \/ f.snap[a] = f.snap[b] /\ Encounter(r, a, b)

LinksSucceed(f) == HeadsAreCentrals(f, HostsFixed(f)) /\ DescendantsFound(f)

Converts(f) == FixupsSucceed(f) /\ LinksSucceed(f)

\* link_one_snapshot() on every slab: the link arrays of the data set.
Dataset(f) ==
    LET r     == HostsFixed(f)
        chain == [d \in Ids |-> ProgenitorChain(f, r, d)]
    IN  [desc      |-> f.desc,
         firstProg |-> [d \in Ids |-> IF chain[d] = <<>> THEN None ELSE chain[d][1]],
         nextProg  |-> [h \in Ids |-> IF f.desc[h] = None THEN None ELSE After(chain[f.desc[h]], h)],
         fofFirst  |-> [h \in Ids |-> Run(f, r, h)[1]],
         fofNext   |-> [h \in Ids |-> After(Run(f, r, h), h)],
         rank      |-> [h \in Ids |-> Cardinality({g \in Ids : RankBefore(f, r, g, h)})],
         negated   |-> r.negated]

-----------------------------------------------------------------------------
(* validate.py, on the data set d of the slabs of f *)

LinkRangesHold(f, d) ==
    \A h \in Ids :
        /\ d.desc[h] \in {None} \cup Slab(f, f.snap[h] + 1)
        /\ d.firstProg[h] \in {None} \cup Slab(f, f.snap[h] - 1)
        /\ d.nextProg[h] \in {None} \cup SlabOf(f, h)
        /\ d.fofNext[h] \in {None} \cup SlabOf(f, h)
        /\ d.fofFirst[h] \in SlabOf(f, h)

\* A mistake: a halo that two chains reach at different times is not noticed.
WalkAllOnce(starts, next, owner) ==
    LET walk[visited \in SUBSET Ids, front \in SUBSET (Ids \X Ids)] ==
          LET nodes == {n[1] : n \in front}
          IN  IF front = {} \/ nodes \subseteq visited THEN visited
              ELSE IF \/ \E m, n \in front : m # n /\ m[1] = n[1]
                      \/ \E n \in front : owner[n[1]] # n[2]
              THEN {None}
              ELSE walk[visited \cup nodes, {<<next[n[1]], n[2]>> : n \in {m \in front : next[m[1]] # None}}]
    IN  walk[{}, starts]

\* All chains at once, step by step: the halos visited, {None} if two chains
\* meet, one comes back, or a halo names another owner.  A pair is a halo and
\* the owner of its chain.
Walk(starts, next, owner) ==
    LET walk[visited \in SUBSET Ids, front \in SUBSET (Ids \X Ids)] ==
          LET nodes == {n[1] : n \in front}
          IN  IF front = {} THEN visited
              ELSE IF \/ \E m, n \in front : m # n /\ m[1] = n[1]
                      \/ nodes \cap visited # {}
                      \/ \E n \in front : owner[n[1]] # n[2]
              THEN {None}
              ELSE walk[visited \cup nodes, {<<next[n[1]], n[2]>> : n \in {m \in front : next[m[1]] # None}}]
    IN  walk[{}, starts]

\* check_fof_chains()
FofChainsHold(d) ==
    LET centrals == {h \in Ids : d.fofFirst[h] = h}
    IN  /\ \A h \in Ids : d.fofFirst[h] \in centrals
        /\ Walk({<<c, c>> : c \in centrals}, d.fofNext, d.fofFirst) = Ids

\* check_progenitor_closure()
ProgenitorsClose(d) ==
    /\ \A h \in Ids : d.nextProg[h] # None =>
          d.desc[h] # None /\ d.desc[d.nextProg[h]] = d.desc[h]
    /\ LET owners == {h \in Ids : d.firstProg[h] # None}
           reached == Walk({<<d.firstProg[o], o>> : o \in owners}, d.nextProg, d.desc)
       IN  {h \in Ids : d.desc[h] # None} \subseteq reached /\ None \notin reached

\* check_identity(), for one forest and the maximal rank of the header.
IdentityHolds(d) == {d.rank[h] : h \in Ids} = Halos

\* run_battery(): chains are walked only when the ranges hold.
BatteryPasses(f, d) == /\ LinkRangesHold(f, d)
                       /\ FofChainsHold(d) /\ ProgenitorsClose(d)
                       /\ IdentityHolds(d)

-----------------------------------------------------------------------------
(* crosscheck.py, between a data set and the links of the reader *)

\* The id a link of the reader leads to.
IdAt(link) == IF link = None THEN None ELSE At(link)

\* check_topology_chains(): every halo, every link, the rank and the sign.
TopologyAgrees(d) ==
    \A k \in Halos :
        /\ d.desc[At(k)] = IdAt(descendant[k])
        /\ d.firstProg[At(k)] = IdAt(firstProg[k])
        /\ d.nextProg[At(k)] = IdAt(nextProg[k])
        /\ d.fofFirst[At(k)] = IdAt(fofFirst[k])
        /\ d.fofNext[At(k)] = IdAt(fofNext[k])
        /\ d.rank[At(k)] = k
        /\ At(k) \in d.negated <=> At(k) \in flybys

-----------------------------------------------------------------------------
\* Rows that both accept get the same links in the same order, however the
\* host chains run, the masses tie and the ids are given; the converter refuses
\* what the reader refuses, and of what the reader accepts only rows with hosts
\* or descendants that are not where the halo finder promises them.
ConverterAgrees ==
    /\ pc = "done" =>
          IF Converts(forest) THEN TopologyAgrees(Dataset(forest))
                              ELSE ~SoundHosts(forest) \/ ~Adjacent(forest)
    /\ pc = "failed" => ~Converts(forest)

\* The trees that the data set d describes, halos numbered from 0.
DescribedTree(f, d) ==
    LET next(l) == [k \in Halos |-> IF l[k + 1] = None THEN None ELSE l[k + 1] - 1]
        chain(l, first) == ChainFrom(next(l), first)
    IN  [snap    |-> [k \in Halos |-> f.snap[k + 1]],
         progs   |-> [k \in Halos |-> chain(d.nextProg, next(d.firstProg)[k])],
         fof     |-> next(d.fofFirst),
         members |-> [k \in Halos |-> IF d.fofFirst[k + 1] = k + 1 THEN chain(d.fofNext, k) ELSE <<>>],
         len     |-> [k \in Halos |-> 1]]

\* What a consumer of the data set needs: the well-formed tree of the traversal,
\* descendants that are the inverse of the progenitors, and no link besides.
Consistent(f, d) ==
    LET t == DescribedTree(f, d)
        into == [k \in Halos |-> Progenitors(t, k)]
    IN  /\ WellFormed(t)
        /\ \A h \in Ids : t.fof[t.fof[h - 1]] = t.fof[h - 1]
        /\ \A h, g \in Ids : (d.desc[h] = g) <=> (h - 1 \in into[g - 1])
        /\ \A h \in Ids : d.desc[h] = None => d.nextProg[h] = None
        /\ \A h, g \in Ids : d.rank[h] = d.rank[g] => h = g

\* The data set with one entry of one link array overwritten.
Damaged(f, d) ==
    UNION {{[d EXCEPT !.desc[h] = v] : v \in {None} \cup Slab(f, f.snap[h] + 1)}
           \cup {[d EXCEPT !.firstProg[h] = v] : v \in {None} \cup Slab(f, f.snap[h] - 1)}
           \cup {[d EXCEPT !.nextProg[h] = v] : v \in {None} \cup SlabOf(f, h)}
           \cup {[d EXCEPT !.fofNext[h] = v] : v \in {None} \cup SlabOf(f, h)}
           \cup {[d EXCEPT !.fofFirst[h] = v] : v \in SlabOf(f, h)}
           \cup {[d EXCEPT !.rank[h] = v] : v \in Halos} : h \in Ids}

\* The battery accepts what the converter made, and of what it became after any
\* one of its links was overwritten exactly what a consumer can still use.
BatteryIsExact ==
    pc = "done" /\ Converts(forest) =>
        LET d == Dataset(forest)
        IN  /\ BatteryPasses(forest, d)
            /\ \A e \in Damaged(forest, d) : BatteryPasses(forest, e) <=> Consistent(forest, e)
=============================================================================
