--------------------------- MODULE MC_GroupBaryons --------------------------
(***************************************************************************)
(* FoF groups for GroupBaryons: a central, a satellite and its orphan, in  *)
(* both orders and with a padded slot, a satellite without a substep, an   *)
(* orphan and a host that are each other's home, and the first snapshot.   *)
(***************************************************************************)
EXTENDS GroupBaryons

With(m, z) ==
    [NoGalaxy EXCEPT !.mass = [r \in Masses |-> IF r \in DOMAIN m THEN m[r] ELSE 0],
                     !.metals = [r \in Tracked |-> IF r \in DOMAIN z THEN z[r] ELSE 0]]

Member(home, dt, supplies) == [home |-> home, dt |-> dt, supplies |-> supplies]

None == [r \in {} |-> 0]
Gas == With([hot |-> 1], [hot |-> 1])
Disk == With([cold |-> 1], None)
Seed == With([bh |-> 1, stars |-> 1], [stars |-> 1])
Old(g) == [g EXCEPT !.clock = 1]

\* The orphan comes after the local central it belongs to, or before it.
HostFirst ==
    [types |-> <<0, 1, 2>>,
     galaxies |-> <<NoGalaxy, With([ejected |-> 1], [ejected |-> 1]), Old(Disk)>>,
     halos |-> <<Member(1, "valid", {-1, 0}), Member(2, "valid", {}), Member(2, "valid", {})>>]

OrphanFirst ==
    [types |-> <<2, 1, 0>>,
     galaxies |-> <<Seed, Disk, With([ejected |-> 1], None)>>,
     halos |-> <<Member(2, "valid", {}), Member(2, "valid", {}), Member(3, "valid", {0})>>]

Padded ==
    [types |-> <<0, 1, 3>>,
     galaxies |-> <<NoGalaxy, Gas, Disk>>,
     halos |-> <<Member(1, "valid", {1}), Member(1, "valid", {}), Member(3, "valid", {})>>]

NoSubstep ==
    [types |-> <<0, 1>>,
     galaxies |-> <<With([cold |-> 1], [cold |-> 1]), Gas>>,
     halos |-> <<Member(1, "initial", {-1, 1}), Member(1, "invalid", {})>>]

\* Two links that lead to each other: CentralHalo is 0 where nobody sets it.
Linked ==
    [types |-> <<2, 1, 0>>,
     galaxies |-> <<Old(With([stars |-> 1], None)), NoGalaxy, NoGalaxy>>,
     halos |-> <<Member(2, "valid", {}), Member(1, "valid", {}), Member(3, "valid", {0})>>]

FirstSnapshot ==
    [types |-> <<0, 1>>,
     galaxies |-> <<NoGalaxy, NoGalaxy>>,
     halos |-> <<Member(1, "initial", {1}), Member(2, "initial", {})>>]

MCGroups == {HostFirst, OrphanFirst, Padded, NoSubstep, Linked, FirstSnapshot}

Half == <<1, 2>>
=============================================================================
