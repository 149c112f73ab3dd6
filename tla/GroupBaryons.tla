---------------------------- MODULE GroupBaryons ----------------------------
(***************************************************************************)
(* One FoF group of mimic_jax through one snapshot interval:               *)
(* prepare_upstream_sequential_group, then NumSubsteps times the infall    *)
(* and reincorporation of the central, every process of every live member  *)
(* in turn, and the merger and disruption scan.  All of it works on one    *)
(* array of records in which a process writes two, its galaxy and the FoF  *)
(* central; module Reservoirs has the processes.                           *)
(***************************************************************************)
EXTENDS Reservoirs, Sequences

CONSTANTS Groups,       \* the workspaces the interval may start from
          NumSubsteps,  \* num_substeps
          Clocks,       \* merger times a satellite may be given, in substeps
          Threshold     \* ThresholdMajorMerger, as <<numerator, denominator>>

ASSUME SubstepsAssumption == NumSubsteps \in Nat \ {0}
ASSUME ClocksAssumption == Clocks \subseteq Int
ASSUME ThresholdAssumption == Threshold \in (Nat \ {0}) \X (Nat \ {0})

\* One member is the central; the links of a workspace may lead anywhere.
ASSUME GroupsAssumption ==
    \A w \in Groups :
        /\ w.galaxies \in Seq(Galaxy)
        /\ w.types \in [DOMAIN w.galaxies -> 0 .. 3]
        /\ w.halos \in [DOMAIN w.galaxies -> [home : Int, dt : {"valid", "initial", "invalid"},
                                             supplies : SUBSET Int]]
        /\ \E c \in DOMAIN w.galaxies :
              \A i \in DOMAIN w.galaxies : w.types[i] = 0 <=> i = c

VARIABLES pc,           \* what happens next
          k,            \* the member the scan is at
          step,         \* substep_number
          gal,          \* states
          type,         \* the live types
          halo,         \* the other fields of halos: CentralHalo, dT, and what
                        \* the halo's mass may ask of a substep's supply
          supply,       \* InfallingGas / num_substeps
          prepared,     \* the clocks of prepared_states
          event,        \* the merger being consumed: its target and mass ratio
          halted,       \* the carry of the merger scan
          success,      \* success
          account       \* what the diagnostics declare, see Account

vars == <<pc, k, step, gal, type, halo, supply, prepared, event, halted, success, account>>

\* The baryons and metals the live members should have: those they started
\* with, the declared sources and less the declared sinks.  The account is
\* intact until an event gives its source to a record that is not live.
Account == [baryons : Int, metals : Int, intact : BOOLEAN]

-----------------------------------------------------------------------------

Members == DOMAIN gal
Central == CHOOSE i \in Members : type[i] = 0
Live == {i \in Members : type[i] # 3}

LiveBaryons == SumFunction([i \in Live |-> BaryonsOf(gal[i])])
LiveMetals == SumFunction([i \in Live |-> MetalsOf(gal[i])])

\* object_substep_dt(): "initial" is dT <= 0 of an object new at snapshot 0,
\* "invalid" is any other dT <= 0, a NaN which moves nothing.
Elapses(i) == halo[i].dt = "valid"

UpTo(i, n) == IF Elapses(i) THEN 0 .. n ELSE {0}

Declare(baryons, metals) ==
    account' = [account EXCEPT !.baryons = @ + baryons, !.metals = @ + metals]

\* A mistake the checks must notice: both records are written for a central too.
CommitBoth(i, p) == [gal EXCEPT ![i] = p.galaxy, ![Central] = p.central]

\* _set_galaxy_and_central(), _set_target_and_central()
Commit(i, p) ==
    IF i = Central THEN [gal EXCEPT ![i] = p.galaxy]
                   ELSE [gal EXCEPT ![i] = p.galaxy, ![Central] = p.central]

-----------------------------------------------------------------------------

Idle == [target |-> 0, ratio |-> "none"]

Init ==
    /\ \E g \in Groups : gal = g.galaxies /\ type = g.types /\ halo = g.halos
    /\ pc = "prepare" /\ k = 1 /\ step = 0
    /\ supply = 0
    /\ prepared = [i \in DOMAIN gal |-> gal[i].clock]
    /\ event = Idle
    /\ halted = FALSE /\ success = TRUE
    /\ account = [baryons |-> LiveBaryons, metals |-> LiveMetals, intact |-> TRUE]

\* What the live members have in reservoir r, its metals clamped to its mass.
PooledMass(r) == SumFunction([i \in Live |-> gal[i].mass[r]])
PooledMetals(r) == Validated(PooledMass(r), SumFunction([i \in Live |-> gal[i].metals[r]]))

\* prepare_infall_budget(): ejected gas and ICS of the live members to the central.
Consolidated ==
    [i \in Members |->
        CASE i = Central -> Holding(gal[i], PooledMass("ejected"), PooledMetals("ejected"),
                                            PooledMass("ics"), PooledMetals("ics"))
          [] i \in Live \ {Central} -> Holding(gal[i], 0, 0, 0, 0)
          [] OTHER -> gal[i]]

\* initialise_merger_clocks(): the clocks member i may have afterwards.
ClocksOf(i) ==
    CASE type[i] = 0                               -> {Unset}
      [] type[i] = 1 /\ gal[i].clock = Unset       -> Clocks
      [] type[i] = 2 /\ gal[i].clock = Unset       -> {0}
      [] OTHER                                     -> {gal[i].clock}

Prepare ==
    /\ pc = "prepare"
    /\ pc' = "infall"
    /\ supply' \in {q \in halo[Central].supplies : LiveBaryons + q * NumSubsteps >= 0}
    /\ \E clocks \in [Members -> UNION {ClocksOf(i) : i \in Members}] :
          /\ \A i \in Members : clocks[i] \in ClocksOf(i)
          /\ prepared' = clocks
          /\ gal' = [i \in Members |-> [Consolidated[i] EXCEPT !.clock = clocks[i]]]
    /\ LET clamped == SumFunction([i \in Live |-> MetalsOf(Consolidated[i])])
       IN  Declare(0, clamped - LiveMetals)
    /\ UNCHANGED <<k, step, type, halo, event, halted, success>>

\* apply_infall() of the central; what a deficit does not find is unfulfilled.
ApplyInfall ==
    LET c     == gal[Central]
        after == IF supply >= 0 THEN Supplied(c, supply) ELSE Depleted(c, -supply)
        found == Least(-supply, c.mass["ejected"] + c.mass["hot"])
    IN  /\ pc = "infall"
        /\ pc' = "reincorporate"
        /\ gal' = [gal EXCEPT ![Central] = after]
        /\ Declare(IF supply >= 0 THEN supply ELSE -found, MetalsOf(after) - MetalsOf(c))
        /\ UNCHANGED <<k, step, type, halo, supply, prepared, event, halted, success>>

\* apply_reincorporation() of the central.
Reincorporate ==
    /\ pc = "reincorporate"
    /\ pc' = "strip"
    /\ k' = 1
    /\ \E x \in UpTo(Central, gal[Central].mass["ejected"]) :
          gal' = [gal EXCEPT ![Central] = Moved(@, "ejected", "hot", x)]
    /\ UNCHANGED <<step, type, halo, supply, prepared, event, halted, success, account>>

-----------------------------------------------------------------------------

\* A mistake: the scan of the galaxies runs the slots of Type 3 too.
ActiveOrNot(i) == i \in Members

\* scan_galaxy(): active
Active(i) == type[i] # 3

\* The scan of the members, and after it the scan of the merger sources.
NextMember ==
    /\ k' = IF k < Len(gal) THEN k + 1 ELSE 1
    /\ pc' = IF k < Len(gal) THEN "strip" ELSE "resolve"

\* scan_galaxy() does nothing for a consumed member or a padded slot.
SkipMember ==
    /\ pc = "strip" /\ ~Active(k)
    /\ NextMember
    /\ UNCHANGED <<step, gal, type, halo, supply, prepared, event, halted, success, account>>

\* apply_satellite_stripping(); the excess may be more than the hot gas.
Strip ==
    /\ pc = "strip" /\ Active(k)
    /\ pc' = "stars"
    /\ \E x \in IF type[k] = 1 /\ gal[k].mass["hot"] > 0
                THEN 0 .. gal[k].mass["hot"] + 1 ELSE {0} :
          gal' = Commit(k, Stripped(gal[k], gal[Central], x))
    /\ UNCHANGED <<k, step, type, halo, supply, prepared, event, halted, success, account>>

\* What the cooling budget and the radio mode leave to cool, and what the black
\* hole takes of the hot gas: it takes some only where some would cool.
CoolingBudgets(i) ==
    LET hot == gal[i].mass["hot"]
    IN  {b \in UpTo(i, hot) \X (0 .. hot) : b[2] > 0 => b[1] > 0 /\ gal[i].mass["bh"] > 0}

StarRecipes(i, cold) == {r \in Recipes(cold, 1) : r.formed > 0 => Elapses(i)}

\* calculate_cooling_budget(), apply_radio_mode_heating(), apply_cooling(), the
\* star formation and supernova budgets, and apply_star_formation_supernova().
CoolAndFormStars ==
    /\ pc = "stars"
    /\ pc' = "burst"
    /\ \E b \in CoolingBudgets(k) :
          LET fed    == Accreted(gal[k], "hot", b[2])
              cooled == IF b[1] > 0 THEN Cooled(fed, b[1]) ELSE fed
          IN  /\ \E r \in StarRecipes(k, cooled.mass["cold"]) :
                    gal' = Commit(k, StarsFormed(cooled, gal[Central], k = Central, r))
              /\ Declare(0, -Carried(gal[k], "hot", b[2]))
    /\ UNCHANGED <<k, step, type, halo, supply, prepared, event, halted, success>>

\* The quasars a trigger may cause, as <<accreted, wind>>.
Quasars(g, triggered) ==
    IF triggered /\ g.mass["cold"] > 0 THEN (0 .. g.mass["cold"]) \X Winds ELSE {<<0, "none">>}

\* The bursts, as <<recipe, part of the yield for the cold gas>>.
Bursts(g, triggered, major) ==
    {b \in Recipes(g.mass["cold"], 1) \X (0 .. Yield * g.mass["cold"]) :
        /\ ~triggered => b[1].formed = 0
        /\ b[2] <= Yield * b[1].formed
        /\ major => b[2] = 0}

\* A quasar and then a burst in member i, committed together.  A disk's burst
\* that no time has passed for returns the central as it was read.
QuasarAndBurst(i, g, triggered, timed, major) ==
    \E q \in Quasars(g, triggered) :
       LET lit == Quasar(g, q[1], q[2])
           c   == gal[Central]
       IN  \E b \in Bursts(lit, triggered /\ timed, major) :
              /\ gal' = Commit(i, IF timed THEN Burst(lit, c, i = Central, b[1], b[2])
                                            ELSE [galaxy |-> lit, central |-> c])
              /\ Declare(0, Yield * b[1].formed - Carried(g, "cold", q[1]))

\* apply_disk_instability(), apply_quasar_mode(), apply_disk_instability_starburst()
DestabiliseAndBurst ==
    /\ pc = "burst"
    /\ pc' = "enrich"
    /\ \E u \in Instabilities(gal[k]), major \in BOOLEAN :
          LET g == Destabilised(gal[k], u[1], u[2])
          IN  QuasarAndBurst(k, g, g.trigger, Elapses(k), major)
    /\ UNCHANGED <<k, step, type, halo, supply, prepared, event, halted, success>>

\* apply_metal_enrichment() ends the member's turn.
Enrich ==
    /\ pc = "enrich"
    /\ NextMember
    /\ \E part \in 0 .. Yield * gal[k].newStars :
          gal' = Commit(k, DiskEnriched(gal[k], gal[Central], type[k] = 0, part))
    /\ Declare(0, Yield * gal[k].newStars)
    /\ UNCHANGED <<step, type, halo, supply, prepared, event, halted, success>>

-----------------------------------------------------------------------------

\* The source is done with, and h is the carry of the scan.  At its end the
\* substep is over, and success is kept only if the scan was not halted.
EndSource(h) ==
    IF k < Len(gal)
    THEN /\ k' = k + 1 /\ pc' = "resolve" /\ halted' = h
         /\ UNCHANGED <<step, success>>
    ELSE /\ k' = 1
         /\ step' = step + 1
         /\ pc' = IF step + 1 = NumSubsteps THEN "done" ELSE "infall"
         /\ halted' = FALSE
         /\ success' = (success /\ ~h)

\* A mistake: a source without a substep is passed over.
IsTimedSource(i) == type[i] \in {1, 2} /\ halo[i].dt = "valid" /\ ~halted

IsSource(i) == type[i] \in {1, 2} /\ halo[i].dt # "initial" /\ ~halted

\* skip_halted, skip_source, skip_initial
SkipSource ==
    /\ pc = "resolve" /\ ~IsSource(k)
    /\ EndSource(halted)
    /\ UNCHANGED <<gal, type, halo, supply, prepared, event, account>>

\* fail_dt, fail_unset
Fails(i) == halo[i].dt = "invalid" \/ gal[i].clock = Unset

FailSource ==
    /\ pc = "resolve" /\ IsSource(k) /\ Fails(k)
    /\ EndSource(TRUE)
    /\ UNCHANGED <<gal, type, halo, supply, prepared, event, account>>

\* process_clock: the source's clock runs whether or not it is eligible.
Ticked == [gal EXCEPT ![k].clock = @ - 1]

\* Without stars and cold gas a source is eligible, and so is an orphan, whose
\* mass has fallen to zero, in the last substep.  Otherwise its halo decides.
MustResolve(i) ==
    \/ gal[i].mass["stars"] + gal[i].mass["cold"] = 0
    \/ type[i] = 2 /\ step + 1 = NumSubsteps

\* skip_not_eligible
PassSource ==
    /\ pc = "resolve" /\ IsSource(k) /\ ~Fails(k) /\ ~MustResolve(k)
    /\ gal' = Ticked
    /\ EndSource(halted)
    /\ UNCHANGED <<type, halo, supply, prepared, event, account>>

\* _resolve_target(): the host of an orphan, else the FoF central; one hop on
\* if the target was consumed.
Target(i) ==
    LET home  == halo[i].home
        first == IF type[i] = 2 /\ home \in Members \ {i} THEN home ELSE Central
    IN  IF type[first] = 3 THEN halo[first].home ELSE first

\* The account of an event that sinks the given mass of a black hole.
DeclareEvent(sunk) ==
    account' = [account EXCEPT !.baryons = @ - sunk,
                               !.intact = @ /\ Target(k) \in Live]

\* valid_target: a member that is not the source itself.
ValidTarget(i) == Target(i) \in Members \ {i}

\* fail_target: the clock has run, and the scan halts.
FailTarget ==
    /\ pc = "resolve" /\ IsSource(k) /\ ~Fails(k) /\ ~ValidTarget(k)
    /\ gal' = Ticked
    /\ EndSource(TRUE)
    /\ UNCHANGED <<type, halo, supply, prepared, event, account>>

\* disrupt: the clock has not run out.
Disrupt ==
    /\ pc = "resolve" /\ IsSource(k) /\ ~Fails(k) /\ ValidTarget(k)
    /\ Ticked[k].clock > 0
    /\ gal' = [Ticked EXCEPT ![Target(k)] = DisruptedInto(@, gal[k])]
    /\ type' = [type EXCEPT ![k] = 3]
    /\ EndSource(halted)
    /\ DeclareEvent(gal[k].mass["bh"])
    /\ UNCHANGED <<halo, supply, prepared, event>>

\* _merger_mass_ratio() against the threshold for a major merger.
Ratio(s, t) ==
    LET a == s.mass["stars"] + s.mass["cold"]
        b == t.mass["stars"] + t.mass["cold"]
        smaller == IF a = 0 /\ b = 0 THEN 1 ELSE Least(a, b)
        larger  == IF a = 0 /\ b = 0 THEN 1 ELSE a + b - Least(a, b)
    IN  CASE smaller = 0 -> "zero"
          [] smaller > 0 /\ smaller * Threshold[2] < larger * Threshold[1] -> "minor"
          [] smaller * Threshold[2] = larger * Threshold[1] -> "equal"
          [] smaller * Threshold[2] > larger * Threshold[1] -> "major"

\* merge: the ownership map.  Its consumers read no type but the target's and
\* the central's.
Merge ==
    /\ pc = "resolve" /\ IsSource(k) /\ ~Fails(k) /\ ValidTarget(k)
    /\ Ticked[k].clock <= 0
    /\ gal' = [Ticked EXCEPT ![Target(k)] = MergedInto(@, gal[k])]
    /\ type' = [type EXCEPT ![k] = 3]
    /\ event' = [target |-> Target(k), ratio |-> Ratio(gal[k], gal[Target(k)])]
    /\ pc' = "merger"
    /\ DeclareEvent(0)
    /\ UNCHANGED <<k, step, halo, supply, prepared, halted, success>>

\* _apply_merger_consumers(): the quasar and the burst the merger triggers.
ConsumeMerger ==
    LET t    == event.target
        hits == event.ratio # "zero"
    IN  /\ pc = "merger"
        /\ pc' = IF event.ratio \in {"zero", "minor"} THEN "followup" ELSE "settle"
        /\ QuasarAndBurst(t, gal[t], hits, TRUE, event.ratio # "minor")
        /\ UNCHANGED <<k, step, type, halo, supply, prepared, event, halted, success>>

\* apply_minor_followup: the disk is looked at again, and what it triggers runs.
FollowUp ==
    LET t == event.target
    IN  /\ pc = "followup"
        /\ pc' = "settle"
        /\ \E u \in Instabilities(gal[t]), major \in BOOLEAN :
              LET g == Destabilised(gal[t], u[1], u[2])
              IN  QuasarAndBurst(t, g, g.trigger, TRUE, major)
        /\ UNCHANGED <<k, step, type, halo, supply, prepared, event, halted, success>>

\* The end of merge: after a major merger every star is in the bulge.
Settle ==
    LET Spheroid(g) == [g EXCEPT !.bulge = g.mass["stars"], !.bulgeMetals = g.metals["stars"]]
    IN  /\ pc = "settle"
        /\ gal' = IF event.ratio = "major" THEN [gal EXCEPT ![event.target] = Spheroid(@)] ELSE gal
        /\ event' = Idle
        /\ EndSource(halted)
        /\ UNCHANGED <<type, halo, supply, prepared, account>>

Next ==
    \/ Prepare \/ ApplyInfall \/ Reincorporate
    \/ SkipMember \/ Strip \/ CoolAndFormStars \/ DestabiliseAndBurst \/ Enrich
    \/ SkipSource \/ FailSource \/ PassSource \/ FailTarget
    \/ Disrupt \/ Merge \/ ConsumeMerger \/ FollowUp \/ Settle

Spec == Init /\ [][Next]_vars

-----------------------------------------------------------------------------

\* Types.  No process, in whatever order the members take their turns, drives a
\* reservoir below zero, and the bulge stays a part of the stars: it is bounded
\* where the disk is destabilised only, while stars come and go elsewhere.
ReservoirsSound ==
    /\ pc \in {"prepare", "infall", "reincorporate", "strip", "stars", "burst", "enrich",
               "resolve", "merger", "followup", "settle", "done"}
    /\ k \in Members /\ step \in 0 .. NumSubsteps
    /\ account \in Account
    /\ \A i \in Members : gal[i] \in Galaxy

\* docs/conservation.md: the live members hold the baryons they started with,
\* and the declared supply, less the declared sinks - the deficit that was found
\* and the black holes of disrupted satellites.  Every process writes two
\* records of the array, which may be the same one.
BaryonsBalance == account.intact => LiveBaryons = account.baryons

\* docs/conservation.md: the metals follow the gas they are in.  Their sources
\* are the yields of the stars formed, at once in a burst and delayed in the
\* disk; their sinks are infall deficits, black holes and the validity clamp.
MetalsBalance == account.intact => LiveMetals = account.metals

\* The two ledgers of docs/conservation.md close together.
LedgersBalance == BaryonsBalance /\ MetalsBalance

\* An interval reported as a success has resolved every orphan, and has run the
\* clock of every satellite that is left through all of its substeps, unless the
\* satellite is new at the first snapshot: a scan that was halted in any of the
\* substeps is remembered.
SuccessMeansResolved ==
    pc = "done" /\ success =>
        \A i \in Live : type[i] # 0 /\ halo[i].dt # "initial" =>
            type[i] = 1 /\ gal[i].clock = prepared[i] - NumSubsteps

\* test_trailing_inactive_member_padding_is_bitwise_neutral: a consumed record
\* or a padded slot is never changed again and never revived, unless an event
\* takes it for its target.
DeadStayAsTheyAre ==
    [][account'.intact =>
          \A i \in Members : type[i] = 3 => type'[i] = 3 /\ gal'[i] = gal[i]]_vars
=============================================================================
