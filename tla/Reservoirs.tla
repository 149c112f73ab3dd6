----------------------------- MODULE Reservoirs -----------------------------
(***************************************************************************)
(* The sage16 processes of mimic_jax as maps between the reservoirs of a   *)
(* galaxy and of its FoF central.  Masses and metals are counted in whole  *)
(* quanta; what the physics computes (a rate, an efficiency, a threshold)  *)
(* is an argument, and what the code does with it - its caps, its order    *)
(* and its choice of the record that is written - is the definition.       *)
(***************************************************************************)
EXTENDS Integers, Functions

CONSTANT Yield          \* quanta of metals per quantum of stars formed

ASSUME YieldAssumption == Yield \in Nat

Tracked == {"cold", "hot", "ejected", "stars", "ics"}
Masses == Tracked \cup {"bh"}

Least(a, b) == IF a < b THEN a ELSE b

\* MergTime: 999.9 in the code; a clock runs in the object's own substeps.
Unset == 99

\* GalaxyState: nothing is negative, and the bulge is a part of the stars.
Galaxy ==
    {g \in [mass : [Masses -> Nat], metals : [Tracked -> Nat],
            bulge : Nat, bulgeMetals : Nat, newStars : Nat,
            trigger : BOOLEAN, clock : Int] :
        g.bulge <= g.mass["stars"] /\ g.bulgeMetals <= g.metals["stars"]}

NoGalaxy == [mass |-> [r \in Masses |-> 0], metals |-> [r \in Tracked |-> 0],
             bulge |-> 0, bulgeMetals |-> 0, newStars |-> 0,
             trigger |-> FALSE, clock |-> Unset]

BaryonsOf(g) == SumFunctionOnSet(g.mass, Masses)
MetalsOf(g) == SumFunctionOnSet(g.metals, Tracked)

-----------------------------------------------------------------------------

\* metallicity(mass, metals) * x: none from an empty reservoir, at most x.
Carried(g, r, x) ==
    IF g.mass[r] > 0 THEN (x * Least(g.metals[r], g.mass[r])) \div g.mass[r] ELSE 0

Credit(g, r, x, z) == [g EXCEPT !.mass[r] = @ + x, !.metals[r] = @ + z]
Debit(g, r, x, z) == Credit(g, r, -x, -z)

Moved(g, from, to, x) ==
    LET z == Carried(g, from, x)
    IN  Credit(Debit(g, from, x, z), to, x, z)

\* Growth of the black hole, which keeps no metals.
Accreted(g, from, x) == [Debit(g, from, x, Carried(g, from, x)) EXCEPT !.mass["bh"] = @ + x]

\* What a process returns: of a central, the galaxy and the central are one.
Both(galaxy, central, isCentral) ==
    [galaxy |-> IF isCentral THEN central ELSE galaxy, central |-> central]

-----------------------------------------------------------------------------

\* _validated_mass_metals(): the code's clamp of metals to the mass.
Validated(x, z) == Least(z, x)

\* A member whose ejected gas and ICS prepare_infall_budget() has set.
Holding(g, x, z, y, w) ==
    [g EXCEPT !.mass["ejected"] = x, !.metals["ejected"] = z,
              !.mass["ics"] = y, !.metals["ics"] = w]

\* apply_infall() of a supply x >= 0: pristine gas.
Supplied(g, x) == Credit(g, "hot", x, 0)

\* What is left of a reservoir that x is taken from, and of x.
Drained(g, r, x) ==
    IF x > g.mass[r] THEN [g EXCEPT !.mass[r] = 0, !.metals[r] = 0]
                     ELSE Debit(g, r, x, Carried(g, r, x))

\* apply_infall() of a deficit x > 0: first from the ejected, then from the hot gas.
Depleted(g, x) ==
    LET first == IF g.mass["ejected"] > 0 THEN Drained(g, "ejected", x) ELSE g
        rest  == x - Least(x, g.mass["ejected"])
    IN  Drained(first, "hot", rest)

\* apply_satellite_stripping(): the excess x may be more than the hot gas.
Stripped(g, c, x) ==
    LET gas   == Least(x, g.mass["hot"])
        metal == Least(Carried(g, "hot", x), g.metals["hot"])
    IN  [galaxy |-> Debit(g, "hot", gas, metal), central |-> Credit(c, "hot", gas, metal)]

\* apply_cooling(): all the metals go when all the gas does.
Cooled(g, x) ==
    IF x < g.mass["hot"]
    THEN Moved(g, "hot", "cold", x)
    ELSE LET gas == g.mass["hot"]
             metal == g.metals["hot"]
         IN  Credit(Debit(g, "hot", gas, metal), "cold", gas, metal)

-----------------------------------------------------------------------------

\* What star formation makes of the cold gas: formed, locked up, reheated and
\* proposed for ejection.  The budget is renormalised to the cold gas.
Recipes(cold, most) ==
    {r \in [formed : 0 .. cold, locked : 0 .. cold, reheated : 0 .. cold, ejected : 0 .. most] :
        /\ r.formed + r.reheated <= cold
        /\ r.locked <= r.formed
        /\ r.formed = 0 => r.reheated = 0 /\ r.ejected = 0}

\* A mistake: the feedback of a central starts from the record it was read as.
BlownFromRead(local, c, isCentral, r) ==
    LET metal == Carried(local, "cold", r.reheated)
        spent == Debit(local, "cold", r.reheated, metal)
        wind  == Credit(c, "hot", r.reheated, metal)
    IN  Both(spent, Moved(wind, "hot", "ejected", Least(r.ejected, wind.mass["hot"])), isCentral)

\* Supernova feedback: local cold gas to the hot gas of the destination, and
\* from there to its ejected gas.
Blown(local, c, isCentral, r) ==
    LET metal == Carried(local, "cold", r.reheated)
        spent == Debit(local, "cold", r.reheated, metal)
        wind  == Credit(IF isCentral THEN spent ELSE c, "hot", r.reheated, metal)
    IN  Both(spent, Moved(wind, "hot", "ejected", Least(r.ejected, wind.mass["hot"])), isCentral)

\* apply_star_formation_supernova()
StarsFormed(g, c, isCentral, r) ==
    LET local == [Moved(g, "cold", "stars", r.locked) EXCEPT !.newStars = r.formed]
    IN  IF r.formed = 0
        THEN Both(local, IF isCentral THEN local ELSE c, isCentral)
        ELSE Blown(local, c, isCentral, r)

\* The yield of new stars: part of it to the cold gas if there is any, the
\* rest to the hot gas of the destination.
Enriched(p, isCentral, produced, part) ==
    LET toCold == IF p.galaxy.mass["cold"] > 0 THEN part ELSE 0
        local  == Credit(p.galaxy, "cold", 0, toCold)
    IN  Both(local,
             Credit(IF isCentral THEN local ELSE p.central, "hot", 0, produced - toCold),
             isCentral)

\* apply_metal_enrichment(): the delayed yield of the disk.
DiskEnriched(g, c, isCentral, part) ==
    LET consumed == [g EXCEPT !.newStars = 0]
        pair     == [galaxy |-> consumed, central |-> IF isCentral THEN consumed ELSE c]
    IN  IF g.newStars = 0 THEN pair ELSE Enriched(pair, isCentral, Yield * g.newStars, part)

\* apply_collisional_starburst(): stars into the bulge, feedback and yield.
Burst(g, c, isCentral, r, part) ==
    LET local == [Moved(g, "cold", "stars", r.locked)
                    EXCEPT !.bulge = @ + r.locked,
                           !.bulgeMetals = @ + Carried(g, "cold", r.locked)]
    IN  Enriched(Blown(local, c, isCentral, r), isCentral, Yield * r.formed, part)

-----------------------------------------------------------------------------

DiskStars(g) == g.mass["stars"] - g.bulge

\* apply_disk_instability(): x unstable stars join the bulge; unstable gas
\* sets the trigger.
Destabilised(g, unstable, x) ==
    LET disk   == DiskStars(g)
        metals == g.metals["stars"] - g.bulgeMetals
        gained == IF disk > 0 THEN (x * Least(metals, disk)) \div disk ELSE 0
    IN  [g EXCEPT !.bulge = @ + x,
                  !.bulgeMetals = @ + gained,
                  !.trigger = unstable /\ g.mass["cold"] > 0]

\* A mistake: a share of all the stars, those of the bulge too.
InstabilitiesOfAll(g) ==
    {<<FALSE, 0>>} \cup
    IF g.mass["cold"] + DiskStars(g) > 0 THEN {TRUE} \X (0 .. g.mass["stars"]) ELSE {}

\* The unstable stars are a share of the stars of the disk.
Instabilities(g) ==
    {<<FALSE, 0>>} \cup
    IF g.mass["cold"] + DiskStars(g) > 0 THEN {TRUE} \X (0 .. DiskStars(g)) ELSE {}

\* apply_quasar_mode(): growth from cold gas, then the winds, cold before hot.
Winds == {"none", "cold", "hot"}

Blasted(g, wind) ==
    LET All(h, r) == LET x == h.mass[r]
                         z == h.metals[r]
                     IN  Credit(Debit(h, r, x, z), "ejected", x, z)
    IN  CASE wind = "none" -> g
          [] wind = "cold" -> All(g, "cold")
          [] wind = "hot"  -> All(All(g, "cold"), "hot")

Quasar(g, x, wind) == Blasted(Accreted(g, "cold", x), wind)

-----------------------------------------------------------------------------

\* _apply_merger_ownership(): reservoir by reservoir, the stars to the bulge.
MergedInto(t, s) ==
    [t EXCEPT !.mass = [r \in Masses |-> @[r] + s.mass[r]],
              !.metals = [r \in Tracked |-> @[r] + s.metals[r]],
              !.bulge = @ + s.mass["stars"],
              !.bulgeMetals = @ + s.metals["stars"]]

\* _apply_disruption_ownership(): gas to the hot gas, stars to the ICS; the
\* black hole is lost.
DisruptedInto(t, s) ==
    LET Into(u, from, to) == Credit(u, to, s.mass[from], s.metals[from])
    IN  Into(Into(Into(Into(Into(t, "cold", "hot"), "hot", "hot"), "ejected", "ejected"),
                  "ics", "ics"), "stars", "ics")
=============================================================================
