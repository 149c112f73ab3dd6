---------------------------- MODULE MC_LinkBuild ----------------------------
(***************************************************************************)
(* Model values for LinkBuild: light and heavy halos with any hosts inside *)
(* a snapshot, or any descendants in a later one (one of them may be       *)
(* missing); and broken catalogues with any hosts at all.                  *)
(***************************************************************************)
EXTENDS ConvertLinks

CONSTANT MaxSnap

Snaps == [Ids -> 0 .. MaxSnap]

HostsWithin(snap) ==
    {host \in [Ids -> Ids \cup {None}] :
        \A h \in Ids : host[h] # None => host[h] # h /\ snap[host[h]] = snap[h]}

Descents(snap) ==
    {desc \in [Ids -> Ids \cup {None, Missing}] :
        /\ \A h \in Ids : desc[h] \in Ids => snap[h] < snap[desc[h]]
        /\ \A g, h \in Ids : desc[g] = Missing /\ desc[h] = Missing => g = h}

Masses == [Ids -> {1, 2}]

NoDescents == [h \in Ids |-> None]

\* Any groups, before any links; and any links, with at most one satellite.
Grouped ==
    UNION {[snap : {snap}, mass : Masses, host : HostsWithin(snap), desc : {NoDescents}] :
              snap \in Snaps}

Linked ==
    UNION {[snap : {snap}, mass : Masses,
            host : {host \in HostsWithin(snap) :
                       \A g, h \in Ids : host[g] # None /\ host[h] # None => g = h},
            desc : Descents(snap)] : snap \in Snaps}

Broken ==
    [snap : Snaps, mass : {[h \in Ids |-> 1]},
     host : {host \in [Ids -> Ids \cup {None, Missing}] : \A h \in Ids : host[h] # h},
     desc : {NoDescents}]

\* Descendants that skip a snapshot.
Skipping ==
    [snap : [Ids -> 0 .. LastSnap], mass : {[h \in Ids |-> 1]}, host : {NoDescents},
     desc : {desc \in [Ids -> Ids \cup {None}] : Cardinality({h \in Ids : desc[h] # None}) = 1}]

MCForests == Grouped \cup Linked \cup Broken
             \cup {f \in Skipping : \A h \in Ids : f.desc[h] \in Ids => f.snap[h] < f.snap[f.desc[h]]}
=============================================================================
