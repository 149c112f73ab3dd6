---------------------------- MODULE MC_TreeBuild ----------------------------
(***************************************************************************)
(* Model values for TreeBuild: every merger tree of NumHalos halos over    *)
(* the snapshots 0 .. MaxSnap, in any index order.                         *)
(***************************************************************************)
EXTENDS TreeBuild, SequencesExt

CONSTANT MaxSnap

None == -1

\* The elements of S as a chain: upwards, or downwards.
Chain(S, up) == SetToSortSeq(S, LAMBDA a, b : IF up THEN a < b ELSE a > b)

\* The group of every halo, and the halo every halo descends to.
Groupings(snap) ==
    {fof \in [Halos -> Halos] :
        \A h \in Halos : fof[fof[h]] = fof[h] /\ snap[fof[h]] = snap[h]}

Descents(snap) ==
    {desc \in [Halos -> Halos \cup {None}] :
        \A h \in Halos : desc[h] # None => snap[h] < snap[desc[h]]}

Shapes ==
    UNION {[snap : {snap}, desc : Descents(snap), fof : Groupings(snap), up : BOOLEAN] :
              snap \in [Halos -> 0 .. MaxSnap]}

TreeOf(s) ==
    [snap    |-> s.snap,
     progs   |-> [h \in Halos |-> Chain({p \in Halos : s.desc[p] = h}, s.up)],
     fof     |-> s.fof,
     members |-> [f \in Halos |->
                    IF s.fof[f] # f THEN <<>>
                    ELSE <<f>> \o Chain({m \in Halos \ {f} : s.fof[m] = f}, ~s.up)],
     len     |-> [h \in Halos |-> 1]]

MCTrees == {TreeOf(s) : s \in Shapes}
=============================================================================
