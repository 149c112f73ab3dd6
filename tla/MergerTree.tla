----------------------------- MODULE MergerTree -----------------------------
(***************************************************************************)
(* One unit of input: a merger tree (forest) as the tree driver sees it    *)
(* once load_unit() has filled InputTreeHalos.  The link arrays of the     *)
(* source are read-only while a unit is processed, so a chain is modelled  *)
(* by the sequence its walk visits:                                        *)
(*                                                                         *)
(*   t.progs[h]    FirstProgenitor(h), then NextProgenitor until -1        *)
(*   t.members[f]  the FoF central f, then NextHaloInFOFgroup until -1     *)
(*   t.fof[h]      FirstHaloInFOFgroup(h)                                  *)
(*   t.snap[h]     SnapNum(h)                                              *)
(*   t.len[h]      Len(h), the particle count                              *)
(***************************************************************************)
EXTENDS Integers, Sequences

CONSTANT NumHalos       \* InputTreeNHalos[unit]

ASSUME NumHalosAssumption == NumHalos \in Nat

Halos == 0 .. (NumHalos - 1)

Tree == [snap    : [Halos -> Nat],
         progs   : [Halos -> Seq(Halos)],
         fof     : [Halos -> Halos],
         members : [Halos -> Seq(Halos)],
         len     : [Halos -> Nat]]

\* The FoF groups of t, named by their central subhalo.
Fofs(t) == {t.fof[h] : h \in Halos}

Progenitors(t, h) == {t.progs[h][k] : k \in DOMAIN t.progs[h]}

MembersOf(t, f) == {t.members[f][m] : m \in DOMAIN t.members[f]}

\* The FoF groups whose galaxies group f inherits.
Needs(t, f) ==
    {t.fof[p] : p \in UNION {Progenitors(t, h) : h \in MembersOf(t, f)}}

\* A progenitor lives in an earlier snapshot than its descendant.
LinksGoBack(t) ==
    \A h \in Halos : \A k \in DOMAIN t.progs[h] :
        t.snap[t.progs[h][k]] < t.snap[h]

\* The FoF chain of every halo starts at its central, contains the halo, and
\* holds halos of that one group and of one snapshot.
GroupsAreChains(t) ==
    \A h \in Halos :
        /\ h \in MembersOf(t, t.fof[h])
        /\ t.members[t.fof[h]] # <<>>
        /\ t.members[t.fof[h]][1] = t.fof[h]
        /\ \A m \in DOMAIN t.members[t.fof[h]] :
              /\ t.fof[t.members[t.fof[h]][m]] = t.fof[h]
              /\ t.snap[t.members[t.fof[h]][m]] = t.snap[h]

\* The FoF chain visits no halo twice: it ends.
GroupsEnd(t) ==
    \A h \in Halos : \A j, k \in DOMAIN t.members[h] :
        t.members[h][j] = t.members[h][k] => j = k

\* No halo is the progenitor of two halos, or twice of one.
OneDescendant(t) ==
    \A g, h \in Halos : \A j \in DOMAIN t.progs[g], k \in DOMAIN t.progs[h] :
        t.progs[g][j] = t.progs[h][k] => g = h /\ j = k

\* What the readers and the converters promise of the links of one unit.
WellFormed(t) ==
    /\ t \in Tree
    /\ LinksGoBack(t)
    /\ GroupsAreChains(t)
    /\ GroupsEnd(t)
    /\ OneDescendant(t)
=============================================================================
