---------------------------- MODULE MC_GalaxyFlow ---------------------------
(***************************************************************************)
(* Model values for GalaxyFlow: every merger tree over a fixed layout of   *)
(* halos on snapshots, with progenitor chains in either order and particle *)
(* counts that rise, fall or are equal along the index.                    *)
(***************************************************************************)
EXTENDS GalaxyFlow

CONSTANT Layout         \* the snapshot of every halo, as a sequence

None == -1

Snap == [h \in Halos |-> Layout[h + 1]]

Chain(S, up) == SetToSortSeq(S, LAMBDA a, b : IF up THEN a < b ELSE a > b)

\* Every FoF group is named by its smallest halo.
Groupings ==
    {fof \in [Halos -> Halos] :
        \A h \in Halos : /\ fof[fof[h]] = fof[h]
                         /\ fof[h] <= h
                         /\ Snap[fof[h]] = Snap[h]}

Descents ==
    {desc \in [Halos -> Halos \cup {None}] :
        \A h \in Halos : desc[h] # None => Snap[h] < Snap[desc[h]]}

Lens == {[h \in Halos |-> 1], [h \in Halos |-> h + 1], [h \in Halos |-> NumHalos - h]}

TreeOf(desc, fof, up, len) ==
    [snap    |-> Snap,
     progs   |-> [h \in Halos |-> Chain({p \in Halos : desc[p] = h}, up)],
     fof     |-> fof,
     members |-> [f \in Halos |->
                    IF fof[f] # f THEN <<>>
                    ELSE Chain({m \in Halos : fof[m] = f}, TRUE)],
     len     |-> len]

MCTrees == {TreeOf(desc, fof, up, len) :
               desc \in Descents, fof \in Groupings, up \in BOOLEAN, len \in Lens}

LayoutPairs == <<0, 0, 1, 1, 2, 2>>
LayoutFive == <<0, 0, 0, 1, 1>>
=============================================================================
