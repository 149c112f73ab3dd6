----------------------------- MODULE LinkBuild ------------------------------
(***************************************************************************)
(* How the Consistent-Trees reader builds the links of one forest from the *)
(* ids in the catalogue: fix_flybys(), fix_upid() and                      *)
(* assign_mergertree_indices(), in the order load_unit() calls them.       *)
(*                                                                         *)
(* A halo is known by its id; `order` is the array of the forest, which    *)
(* the three functions sort in place, and a position in it is the index    *)
(* the links speak of.  Of a halo's pid only "-1 or not" is ever read      *)
(* before it is overwritten, so the input gives one host for pid and upid. *)
(* Scales stand for the snapshots they belong to: a larger scale is a      *)
(* later snapshot, and distinct scales differ by more than the tolerance.  *)
(***************************************************************************)
EXTENDS MergerTree, TLC

CONSTANTS Forests,        \* the forests a reader may find
          MaxHostDepth    \* max_recursion_depth of find_fof_halo()

None == -1                \* no descendant; pid of a central; no link
Missing == 0              \* an id that no halo of the forest has

Ids == 1 .. NumHalos

Forest == [snap : [Ids -> Nat],                      \* SnapNum (and scale)
           mass : [Ids -> Nat],                      \* Mvir
           host : [Ids -> Ids \cup {None, Missing}], \* pid, upid
           desc : [Ids -> Ids \cup {None, Missing}]] \* descid

ASSUME ForestsAssumption ==
    /\ NumHalos > 0
    /\ Forests \subseteq Forest
    /\ \A f \in Forests : \A h \in Ids :
          /\ f.host[h] # h
          /\ f.desc[h] \in Ids => f.snap[h] < f.snap[f.desc[h]]

ASSUME HostDepthAssumption == MaxHostDepth \in Nat

VARIABLES pc,         \* the function, or the loop, that runs
          i,          \* its loop index
          forest,     \* the rows as read
          order,      \* the ids in array order
          pid, upid,  \* the two fields of info[] that are rewritten
          flybys,     \* halos whose MostBoundID is negated
          fofFirst,   \* FirstHaloInFOFgroup
          fofNext,    \* NextHaloInFOFgroup
          central,    \* position of the last central met (FirstHaloInFOFgroup)
          descendant, \* Descendant
          firstProg,  \* FirstProgenitor
          nextProg    \* NextProgenitor

rows  == <<order, pid, upid, flybys>>
fofs  == <<fofFirst, fofNext, central>>
progs == <<descendant, firstProg, nextProg>>
vars  == <<pc, i, forest, rows, fofs, progs>>

NoLinks == [h \in Halos |-> None]

\* The id of the halo at position k, and the snapshot it is in.
At(k)   == order[k + 1]
Snap(k) == forest.snap[At(k)]
Mass(k) == forest.mass[At(k)]

Init == /\ forest \in Forests
        /\ pc = "flybys" /\ i = 0
        /\ order = [k \in Ids |-> k]
        /\ pid = forest.host /\ upid = forest.host
        /\ flybys = {}
        /\ fofFirst = NoLinks /\ fofNext = NoLinks /\ central = None
        /\ descendant = NoLinks /\ firstProg = NoLinks /\ nextProg = NoLinks

\* XRETURN: the function gives up, and load_unit() is a fatal error.
Fail == /\ pc' = "failed"
        /\ UNCHANGED <<i, forest, rows, fofs, progs>>

\* The next halo of the loop `loop`, or the function after it.
Advance(loop, after) ==
    IF i + 1 < NumHalos THEN pc' = loop /\ i' = i + 1 ELSE pc' = after /\ i' = 0

-----------------------------------------------------------------------------
(* fix_flybys() *)

\* SCALE_ID_COMPARATOR: the latest snapshot first, then upwards in id.
ByScaleThenId(a, b) ==
    \/ forest.snap[a] > forest.snap[b]
    \/ forest.snap[a] = forest.snap[b] /\ a < b

\* The halos of the first, hence latest, scale of the forest.
LatestScale == {h \in Ids : \A g \in Ids : forest.snap[g] <= forest.snap[h]}

CentralsOf(S) == {h \in S : pid[h] = None}

\* The strictly heaviest central; among equals the first of the array.
Heaviest(S) ==
    CHOOSE h \in S : \A g \in S \ {h} :
        forest.mass[h] > forest.mass[g] \/ (forest.mass[h] = forest.mass[g] /\ h < g)

\* One central survives at the latest scale: the others become its satellites
\* and everybody there is hosted by it.
FixFlybys ==
    /\ pc = "flybys"
    /\ CentralsOf(LatestScale) # {}
    /\ order' = SortSeq(order, ByScaleThenId)
    /\ LET keep == Heaviest(CentralsOf(LatestScale))
           rest == LatestScale \ {keep}
       IN  IF CentralsOf(rest) = {}
             THEN UNCHANGED <<pid, upid, flybys>>
             ELSE /\ flybys' = CentralsOf(rest)
                  /\ pid'  = [h \in Ids |-> IF h \in CentralsOf(rest) THEN keep ELSE pid[h]]
                  /\ upid' = [h \in Ids |-> IF h \in rest THEN keep ELSE upid[h]]
    /\ pc' = "sort_ids"
    /\ UNCHANGED <<i, forest, fofs, progs>>

NoCentralAtLatest ==
    /\ pc = "flybys"
    /\ CentralsOf(LatestScale) = {}
    /\ Fail

-----------------------------------------------------------------------------
(* fix_upid() *)

\* The sort, and every central becomes its own upid.
SortById ==
    /\ pc = "sort_ids"
    /\ order' = SortSeq(order, ByScaleThenId)
    /\ upid' = [h \in Ids |-> IF pid[h] = None THEN h ELSE upid[h]]
    /\ pc' = "hosts"
    /\ UNCHANGED <<i, forest, pid, flybys, fofs, progs>>

\* Where the linear search of find_fof_halo() finds the host of the halo at s:
\* after s if its id is larger than that of s, before s if not.
SearchHost(s) ==
    LET ahead == upid[At(s)] > At(s)
    IN  {k \in Halos : At(k) = upid[At(s)] /\ (IF ahead THEN k > s ELSE k < s)}

\* A mistake: a host that is a satellite itself is given up.
FindFofHaloOneHop(start) ==
    IF \E k \in SearchHost(start) : pid[At(k)] = None
      THEN CHOOSE k \in SearchHost(start) : TRUE
      ELSE None

\* find_fof_halo(): from host to host, up to the depth limit; None when it
\* gives up.
FindFofHalo(start) ==
    LET find[depth \in 0 .. MaxHostDepth + 1, s \in Halos] ==
          IF pid[At(s)] = None THEN s
          ELSE IF depth > MaxHostDepth \/ SearchHost(s) = {} THEN None
          ELSE LET loc == CHOOSE k \in SearchHost(s) : TRUE
               IN  IF pid[At(loc)] = None THEN loc ELSE find[depth + 1, loc]
    IN  find[0, start]

SetHost(h, fof) == /\ upid' = [upid EXCEPT ![h] = fof]
                   /\ pid'  = [pid EXCEPT ![h] = fof]

HostLoop == /\ pc = "hosts"
            /\ UNCHANGED <<forest, order, flybys, fofs, progs>>

SkipCentral ==
    /\ HostLoop
    /\ pid[At(i)] = None
    /\ Advance("hosts", "sort_upid")
    /\ UNCHANGED <<pid, upid>>

ResolveHost ==
    /\ HostLoop
    /\ pid[At(i)] # None
    /\ FindFofHalo(i) # None
    /\ SetHost(At(i), At(FindFofHalo(i)))
    /\ Advance("hosts", "sort_upid")

HostNotFound ==
    /\ HostLoop
    /\ pid[At(i)] # None
    /\ FindFofHalo(i) = None
    /\ pc' = "locate"
    /\ UNCHANGED <<i, pid, upid>>

\* The loop that locates the host after all, with track_id = upid.
Locate ==
    /\ pc = "locate"
    /\ upid[At(i)] \in Ids
    /\ pid[upid[At(i)]] = None
    /\ SetHost(At(i), upid[At(i)])
    /\ Advance("hosts", "sort_upid")
    /\ UNCHANGED <<forest, order, flybys, fofs, progs>>

LocateNothing ==
    /\ pc = "locate"
    /\ upid[At(i)] \notin Ids
    /\ Fail

\* The halo found is no central: track_id moves on to its pid, and the inner
\* loop is left.
Track ==
    /\ pc = "locate"
    /\ upid[At(i)] \in Ids
    /\ pid[upid[At(i)]] # None
    /\ pc' = "retry"
    /\ UNCHANGED <<i, forest, rows, fofs, progs>>

\* loc is still negative: the loop runs again, and track_id starts at upid.
Retry ==
    /\ pc = "retry"
    /\ pc' = "locate"
    /\ UNCHANGED <<i, forest, rows, fofs, progs>>

-----------------------------------------------------------------------------
(* assign_mergertree_indices() *)

\* SCALE_UPID_COMPARATOR: the groups of a snapshot together, centrals first.
ByScaleThenGroup(a, b) ==
    \/ forest.snap[a] > forest.snap[b]
    \/ /\ forest.snap[a] = forest.snap[b]
       /\ \/ upid[a] < upid[b]
          \/ upid[a] = upid[b] /\ pid[a] < pid[b]
          \/ upid[a] = upid[b] /\ pid[a] = pid[b] /\ a < b

SortByGroup ==
    /\ pc = "sort_upid"
    /\ order' = SortSeq(order, ByScaleThenGroup)
    /\ pc' = "fofs"
    /\ UNCHANGED <<i, forest, pid, upid, flybys, fofs, progs>>

\* A mistake: the chain is not walked to its end.
TailOfNotWalked(next, k) == k

\* The last position of the chain from k.
TailOf(next, k) ==
    LET walk[p \in Halos] == IF next[p] = None THEN p ELSE walk[next[p]]
    IN  walk[k]

FofLoop == /\ pc = "fofs"
           /\ Advance("fofs", "links")
           /\ UNCHANGED <<forest, rows, progs>>

StartGroup ==
    /\ FofLoop
    /\ pid[At(i)] = None
    /\ fofFirst' = [fofFirst EXCEPT ![i] = i]
    /\ fofNext' = [fofNext EXCEPT ![i] = None]
    /\ central' = i

JoinGroup ==
    /\ FofLoop
    /\ pid[At(i)] # None
    /\ central # None
    /\ upid[At(i)] = At(central)
    /\ fofFirst' = [fofFirst EXCEPT ![i] = central]
    /\ fofNext' = [fofNext EXCEPT ![TailOf(fofNext, central)] = i]
    /\ UNCHANGED central

\* "the sort did not place the FOF before the subs"
NoGroup ==
    /\ pc = "fofs"
    /\ pid[At(i)] # None
    /\ central # None => upid[At(i)] # At(central)
    /\ Fail

LinkLoop == /\ pc = "links"
            /\ Advance("links", "done")
            /\ UNCHANGED <<forest, rows, fofs>>

NoDescendant ==
    /\ LinkLoop
    /\ forest.desc[At(i)] = None
    /\ descendant' = [descendant EXCEPT ![i] = None]
    /\ UNCHANGED <<firstProg, nextProg>>

\* Where the halo at position k is inserted among the progenitors of d: alone,
\* before a lighter first progenitor, or at the end of the chain.
Insert(d, k) ==
    LET first == firstProg[d]
    IN  \/ /\ first = None
          /\ firstProg' = [firstProg EXCEPT ![d] = k]
          /\ nextProg' = [nextProg EXCEPT ![k] = None]
       \/ /\ first # None
          /\ Mass(first) < Mass(k)
          /\ firstProg' = [firstProg EXCEPT ![d] = k]
          /\ nextProg' = [nextProg EXCEPT ![k] = first]
       \/ /\ first # None
          /\ Mass(first) >= Mass(k)
          /\ nextProg' = [nextProg EXCEPT ![TailOf(nextProg, first)] = k]
          /\ UNCHANGED firstProg

LinkDescendant ==
    /\ LinkLoop
    /\ \E d \in Halos :
          /\ At(d) = forest.desc[At(i)]
          /\ descendant' = [descendant EXCEPT ![i] = d]
          /\ Insert(d, i)

DescendantNotFound ==
    /\ pc = "links"
    /\ forest.desc[At(i)] = Missing
    /\ Fail

-----------------------------------------------------------------------------
Next == \/ FixFlybys \/ NoCentralAtLatest
        \/ SortById \/ SkipCentral \/ ResolveHost \/ HostNotFound
        \/ Locate \/ LocateNothing \/ Track \/ Retry
        \/ SortByGroup \/ StartGroup \/ JoinGroup \/ NoGroup
        \/ NoDescendant \/ LinkDescendant \/ DescendantNotFound

Spec == Init /\ [][Next]_vars

\* Sequential code that waits for nothing.
FairSpec == Spec /\ WF_vars(Next)

Links == [Halos -> Halos \cup {None}]

\* The shape of the state: the array is a permutation of the forest, and links
\* lead to positions of it.
TypeOK ==
    /\ pc \in {"flybys", "sort_ids", "hosts", "locate", "retry", "sort_upid",
               "fofs", "links", "done", "failed"}
    /\ i \in Halos
    /\ forest \in Forests
    /\ order \in [Ids -> Ids] /\ {order[k] : k \in Ids} = Ids
    /\ pid \in [Ids -> Ids \cup {None, Missing}]
    /\ upid \in [Ids -> Ids \cup {None, Missing}]
    /\ flybys \subseteq Ids
    /\ fofFirst \in Links /\ fofNext \in Links /\ central \in Halos \cup {None}
    /\ descendant \in Links /\ firstProg \in Links /\ nextProg \in Links
-----------------------------------------------------------------------------
(* What the links are for. *)

\* The hosts of the halos of f in the same snapshot: h and what h leads to.
HostsFrom(f, h) ==
    LET up[n \in Nat] ==
          IF n = 0 THEN {h}
          ELSE up[n - 1] \cup {f.host[g] : g \in up[n - 1] \cap Ids}
    IN  up[MaxHostDepth + 1]

\* The central that h belongs to in the catalogue.
TopHosts(f, h) == {g \in HostsFrom(f, h) \cap Ids : f.host[g] = None}

\* Catalogue rows as the halo finder promises them: every satellite leads, in
\* its own snapshot and within the depth limit, to a central.
SoundHosts(f) ==
    \A h \in Ids : /\ TopHosts(f, h) # {}
                   /\ \A g \in HostsFrom(f, h) \cap Ids : f.snap[g] = f.snap[h]

\* The halos a chain visits; longer than NumHalos only if it has a cycle.
ChainFrom(next, start) ==
    LET walk[n \in 0 .. NumHalos + 1, k \in Halos \cup {None}] ==
          IF k = None \/ n = 0 THEN <<>> ELSE <<k>> \o walk[n - 1, next[k]]
    IN  walk[NumHalos + 1, start]

\* The unit as the tree driver will walk it.
LinkedTree ==
    [snap    |-> [k \in Halos |-> Snap(k)],
     progs   |-> [k \in Halos |-> ChainFrom(nextProg, firstProg[k])],
     fof     |-> fofFirst,
     members |-> [k \in Halos |-> IF fofFirst[k] = k THEN ChainFrom(fofNext, k) ELSE <<>>],
     len     |-> [k \in Halos |-> 1]]

\* Whatever the order of the ids, links built from sound rows are what the
\* traversal relies on (the assumption of TreeBuild and GalaxyFlow).
LinksAreWellFormed ==
    pc = "done" /\ SoundHosts(forest) => WellFormed(LinkedTree)

\* The progenitor chain of a halo holds exactly the halos whose descid names
\* it, whichever branch of the insertion each of them took.
ProgenitorsComplete ==
    pc = "done" =>
        \A d \in Halos :
            LET chain == ChainFrom(nextProg, firstProg[d])
            IN  {chain[k] : k \in DOMAIN chain} =
                    {k \in Halos : forest.desc[At(k)] = At(d)}

\* FirstProgenitor is the heaviest progenitor; among equals the first in array
\* order (docs/dev/SNAPSHOT-HDF5-FORMAT.md:118, which inheritance relies on).
HeaviestProgenitorFirst ==
    pc = "done" =>
        \A d, k \in Halos : descendant[k] = d =>
            LET first == firstProg[d]
            IN  Mass(first) > Mass(k) \/ (Mass(first) = Mass(k) /\ first <= k)

\* Outside the latest snapshot a halo is in the group of the central that its
\* hosts lead to; in the latest one, of the heaviest central there is, and the
\* other centrals are the ones marked as flybys.
GroupsFollowHosts ==
    pc = "done" /\ SoundHosts(forest) =>
        LET centrals == {h \in LatestScale : forest.host[h] = None}
        IN  \E latest \in centrals :
              /\ \A h \in centrals : forest.mass[h] <= forest.mass[latest]
              /\ flybys = centrals \ {latest}
              /\ \A k \in Halos :
                    At(fofFirst[k]) \in
                        IF At(k) \in LatestScale THEN {latest} ELSE TopHosts(forest, At(k))

\* Sound rows whose descendants exist are never refused: the error paths are
\* for broken catalogues only.
RefusesOnlyBrokenRows ==
    pc = "failed" => \/ ~SoundHosts(forest)
                     \/ \E h \in Ids : forest.desc[h] = Missing

\* What the tree driver relies on, of any forest the reader accepts, and of none
\* it should not refuse.
LinksAreRight ==
    /\ TypeOK
    /\ LinksAreWellFormed
    /\ ProgenitorsComplete
    /\ HeaviestProgenitorFirst
    /\ GroupsFollowHosts
    /\ RefusesOnlyBrokenRows

\* On sound rows the reader finishes.
SoundRowsEnd == SoundHosts(forest) => <>(pc \in {"done", "failed"})

\* On any rows the reader finishes, if only with an error: "Likely caught in
\* infinite loop..exiting" (ctrees_utils.c:738).
RowsEnd == <>(pc \in {"done", "failed"})
=============================================================================
