-------------------------- MODULE MC_JaxPartition ---------------------------
(***************************************************************************)
(* Calls for JaxPartition: a partition of two trees of five halos, every   *)
(* small tree with one of a few companions that reach one snapshot further *)
(* and share its shapes, and the batch settings that fill, split and pad   *)
(* the batches.                                                            *)
(***************************************************************************)
EXTENDS JaxGather

Chain(S, up) == SetToSortSeq(S, LAMBDA a, b : IF up THEN a < b ELSE a > b)

Rising == [h \in Halos |-> h + 1]
Falling == [h \in Halos |-> NumHalos - h]

\* desc[h] is the descendant of h, or -1.
TreeOf(snap, desc, fof, up, len) ==
    [snap    |-> snap,
     progs   |-> [h \in Halos |-> Chain({p \in Halos : desc[p] = h}, up)],
     fof     |-> fof,
     members |-> [f \in Halos |-> IF fof[f] = f THEN Chain({m \in Halos : fof[m] = f}, TRUE)
                                                ELSE <<>>],
     len     |-> len]

Over(seq) == [h \in Halos |-> seq[h + 1]]

Early == Over(<<0, 0, 0, 1, 1>>)
Late == Over(<<0, 1, 1, 1, 2>>)
Rushed == Over(<<0, 0, 0, 1, 2>>)

\* Every tree on the early layout, with the first two halos in one group or not
\* and the last two.
Firsts ==
    {TreeOf(Early, desc, fof, chain[1], chain[2]) :
        desc \in {d \in [Halos -> {-1, 3, 4}] : d[3] = -1 /\ d[4] = -1},
        fof \in {Over(<<0, m, 2, 3, n>>) : m \in {0, 1}, n \in {3, 4}},
        chain \in {<<TRUE, Rising>>, <<TRUE, Falling>>, <<FALSE, Rising>>}}

\* A progenitor two snapshots back, a chain of three snapshots, and three
\* galaxies that meet in one halo: a shape to be padded to four.
Seconds ==
    {TreeOf(Late, Over(<<4, 4, 4, 4, -1>>), Over(<<0, 1, 1, 3, 4>>), TRUE, Rising),
     TreeOf(Late, Over(<<1, 4, 4, -1, -1>>), Over(<<0, 1, 2, 3, 4>>), FALSE, Falling),
     TreeOf(Rushed, Over(<<3, 4, 4, 4, -1>>), Over(<<0, 1, 2, 3, 4>>), TRUE, Rising)}

MCJobs ==
    {[trees |-> <<t, u>>, doomed |-> <<d, {}>>, batchSize |-> b, maxMembers |-> 4,
      binning |-> bin, output |-> o] :
        t \in Firsts, u \in Seconds, d \in {{}, {1}}, b \in {1, 3},
        bin \in {"exact", "power_of_two"}, o \in {{2}, {0, 1, 2}}}
=============================================================================
