----------------------------- MODULE GalaxyFlow -----------------------------
(***************************************************************************)
(* The galaxies of one unit, from group to group: the gather step of the   *)
(* tree driver (join_progenitor_halos), the inheritance service, the       *)
(* merger clock and the merger/disruption resolver of the sage16 pipeline, *)
(* and the marshalling of the workspace into ProcessedHalos.               *)
(*                                                                         *)
(* FoF groups are evolved in any order module FoFSchedule allows; module   *)
(* TreeBuild shows that the traversal keeps to it.  Reservoirs are         *)
(* abstracted to the set of galaxies whose tracked mass an object holds,   *)
(* the merger clock to whether it is unset, running or expired, and the    *)
(* mass comparison of the resolver to a choice, except where the code's    *)
(* arithmetic decides it.                                                  *)
(***************************************************************************)
EXTENDS MergerTree, FiniteSets, Subsequences

CONSTANTS Trees,        \* the merger trees a unit may hold
          NumSubsteps   \* ctx->num_substeps

ASSUME TreesAssumption == \A t \in Trees : WellFormed(t)
ASSUME SubstepsAssumption == NumSubsteps \in Nat \ {0}

\* find_most_massive_progenitor() takes only progenitors of at least one
\* particle for hosts of galaxies.
ASSUME LenAssumption == \A t \in Trees : \A h \in Halos : t.len[h] > 0

VARIABLES tree,         \* the unit being processed
          evolved,      \* the FoF groups evolved so far
          out,          \* out[h]: the slice of ProcessedHalos that HaloAux[h]
                        \* points to (FirstHalo, NHalos)
          pc,           \* "idle", or what happens to the group next:
                        \* "clock", "resolve", "marshal"
          group,        \* the FoF central whose workspace is in use
          ws,           \* FoFWorkspace
          i,            \* the resolver's loop index
          step,         \* ctx->substep_number
          status        \* "running", "finished" or "fatal"

vars == <<tree, evolved, out, pc, group, ws, i, step, status>>

-----------------------------------------------------------------------------

\* An object of the workspace or of the output buffer.  central indexes the
\* workspace the object was last in; holds names the galaxies whose mass it has.
Galaxy == [id : Halos, halo : Halos, type : 0 .. 3, central : Nat,
           clock : {"unset", "pos", "zero"}, snap : Int, holds : SUBSET Halos]

IsFofCentral(h) == tree.fof[h] = h

\* A mistake the checks must notice: the first progenitor, galaxies or not.
FirstProgenitorOnly(h) == tree.progs[h][1]

\* find_most_massive_progenitor(h): the first progenitor if it has galaxies,
\* otherwise the one of most particles among those that have, the first of
\* equals; the first progenitor again if none has.
FirstOccupied(h) ==
    LET progs    == tree.progs[h]
        occupied == {k \in DOMAIN progs : out[progs[k]] # <<>>}
        heaviest == {k \in occupied :
                        \A j \in occupied : tree.len[progs[j]] <= tree.len[progs[k]]}
    IN  IF occupied = {} \/ 1 \in occupied
        THEN progs[1]
        ELSE progs[CHOOSE k \in heaviest : \A j \in heaviest : k <= j]

\* apply_descendant_properties() and make_orphan(): what becomes of galaxy g
\* of progenitor p in descendant h.
Inherited(g, p, h) ==
    [g EXCEPT !.halo = h,
              !.type = IF @ \in {2, 3} THEN @
                       ELSE IF p # FirstOccupied(h) THEN 2
                       ELSE IF IsFofCentral(h) THEN 0 ELSE 1]

\* What gather_progenitor_galaxies() and the loop of inherit_descendant_halos()
\* bring from progenitor p; a Type 3 is discarded.
Brought(p, h) ==
    LET copied == [k \in DOMAIN out[p] |-> Inherited(out[p][k], p, h)]
    IN  Kept(copied, {k \in DOMAIN copied : copied[k].type # 3})

Arrivals(h) == FlattenSeq([k \in DOMAIN tree.progs[h] |-> Brought(tree.progs[h][k], h)])

\* init_new_halo()
NewGalaxy(h) ==
    [id |-> h, halo |-> h, type |-> 0, central |-> 0, clock |-> "unset",
     snap |-> tree.snap[h] - 1, holds |-> {h}]

Slice(h) == IF Arrivals(h) = <<>> /\ IsFofCentral(h)
            THEN <<NewGalaxy(h)>>
            ELSE Arrivals(h)

\* The positions of the Type 0 and Type 1 objects of a slice.
LocalCentrals(slice) == {k \in DOMAIN slice : slice[k].type \in {0, 1}}

\* set_local_centrals() on a slice that begins at workspace index start + 1.
Linked(slice, start) ==
    [k \in DOMAIN slice |->
        [slice[k] EXCEPT !.central = start + CHOOSE c \in LocalCentrals(slice) : TRUE]]

\* The slices of all members of group f, one after the other.
Workspace(f) ==
    LET slices == [m \in DOMAIN tree.members[f] |-> Slice(tree.members[f][m])]
        before == [m \in DOMAIN slices |-> Len(FlattenSeq(SubSeq(slices, 1, m - 1)))]
    IN  FlattenSeq([m \in DOMAIN slices |-> Linked(slices[m], before[m])])

\* The fatal errors of set_local_centrals() and process_halo_evolution().
BadSlice(h) == Slice(h) # <<>> /\ Cardinality(LocalCentrals(Slice(h))) # 1

FofCentral(w) == SelectInSeq(w, LAMBDA g : g.type = 0)

BadWorkspace(f, w) == FofCentral(w) = 0 \/ w[FofCentral(w)].halo # f

-----------------------------------------------------------------------------

Init == /\ tree \in Trees
        /\ evolved = {}
        /\ out = [h \in Halos |-> <<>>]
        /\ pc = "idle"
        /\ group = 0
        /\ ws = <<>>
        /\ i = 1
        /\ step = 0
        /\ status = "running"

\* build_halo_tree() from the first join_progenitor_halos() of the group up
\* to the start of the module pipeline.
Gather(f) ==
    /\ status = "running"
    /\ pc = "idle"
    /\ f \notin evolved
    /\ Needs(tree, f) \subseteq evolved
    /\ IF (\E h \in MembersOf(tree, f) : BadSlice(h)) \/ BadWorkspace(f, Workspace(f))
       THEN status' = "fatal" /\ UNCHANGED <<pc, group, ws, i, step>>
       ELSE /\ ws' = Workspace(f)
            /\ group' = f
            /\ pc' = "clock"
            /\ i' = 1
            /\ step' = 0
            /\ UNCHANGED status
    /\ UNCHANGED <<tree, evolved, out>>

\* A mistake: the clock of a satellite that became a central is kept.
SetClockKeep(k, now) ==
    LET g == ws[k] IN
    CASE g.type = 2 /\ g.clock = "unset"  -> "zero"
      [] g.type = 1 /\ g.clock = "unset"  -> IF k \in now THEN "zero" ELSE "pos"
      [] OTHER                            -> g.clock

\* sage_initialise_merger_clock_process(): a central has no clock, an orphan
\* without a clock merges at once, a satellite without one is given one (it
\* may have run out already).  now holds the satellites it runs out for.
SetClock(k, now) ==
    LET g == ws[k] IN
    CASE g.type = 0                       -> "unset"
      [] g.type = 2 /\ g.clock = "unset"  -> "zero"
      [] g.type = 1 /\ g.clock = "unset"  -> IF k \in now THEN "zero" ELSE "pos"
      [] OTHER                            -> g.clock

InitialiseMergerClock ==
    /\ pc = "clock"
    /\ \E now \in SUBSET {k \in DOMAIN ws : ws[k].type = 1 /\ ws[k].clock = "unset"} :
          ws' = [k \in DOMAIN ws |-> [ws[k] EXCEPT !.clock = SetClock(k, now)]]
    /\ pc' = "resolve"
    /\ UNCHANGED <<tree, evolved, out, group, i, step, status>>

-----------------------------------------------------------------------------

\* sage_resolve_mergers_and_disruption_process(): the loop over the workspace,
\* one step per object.  Only Type 1 and Type 2 objects are satellites.
IsSatellite(k) == ws[k].type \in {1, 2}

Resolving(k) == pc = "resolve" /\ i = k /\ k \in DOMAIN ws

\* mimic_object_substep_dt() refuses an object that is not of an earlier
\* snapshot, and the resolver one without a clock.
BadSatellite(k) == ws[k].snap >= tree.snap[group] \/ ws[k].clock = "unset"

\* The clock after one more substep.
TicksTo(c) == IF c = "pos" THEN {"pos", "zero"} ELSE {c}

\* A mistake: the fraction of the step is step / NumSubsteps.
MustGoLate(k) == ws[k].type = 2 /\ step = NumSubsteps

\* An orphan's halo mass is interpolated to zero in the last substep, which
\* is below any threshold; otherwise the masses decide.
MustGo(k) == ws[k].type = 2 /\ step + 1 = NumSubsteps

\* mimic_resolve_immediate_target_index(): the target of a Type 1 is the FoF
\* central, that of a Type 2 its CentralHalo; from a consumed target one hop
\* further along CentralHalo.
FirstTarget(k) ==
    IF ws[k].type = 2 /\ ws[k].central # k THEN ws[k].central ELSE FofCentral(ws)

Target(k) ==
    IF ws[FirstTarget(k)].type # 3 THEN FirstTarget(k) ELSE ws[FirstTarget(k)].central

Advance == i' = i + 1

SkipObject(k) ==
    /\ Resolving(k)
    /\ ~IsSatellite(k)
    /\ Advance
    /\ UNCHANGED <<tree, evolved, out, pc, group, ws, step, status>>

\* The satellite's halo still outweighs its baryons.
Survive(k) ==
    /\ Resolving(k)
    /\ IsSatellite(k)
    /\ ~BadSatellite(k)
    /\ ~MustGo(k)
    /\ \E c \in TicksTo(ws[k].clock) : ws' = [ws EXCEPT ![k].clock = c]
    /\ Advance
    /\ UNCHANGED <<tree, evolved, out, pc, group, step, status>>

\* Mistakes: the satellite is not marked Type 3; its mass is not handed over.
ConsumeAlive(k) ==
    /\ Resolving(k)
    /\ IsSatellite(k)
    /\ ws' = [ws EXCEPT ![Target(k)].holds = @ \cup ws[k].holds]
    /\ Advance
    /\ UNCHANGED <<tree, evolved, out, pc, group, step, status>>

ConsumeLost(k) ==
    /\ Resolving(k)
    /\ IsSatellite(k)
    /\ ws' = [ws EXCEPT ![k].type = 3]
    /\ Advance
    /\ UNCHANGED <<tree, evolved, out, pc, group, step, status>>

\* Disruption while the clock runs, merger once it has expired: either way
\* the tracked mass goes to the target and the satellite becomes Type 3.  A
\* satellite the resolver refuses ends the program.
Consume(k) ==
    /\ Resolving(k)
    /\ IsSatellite(k)
    /\ IF BadSatellite(k) \/ Target(k) = k
       THEN status' = "fatal" /\ pc' = "idle" /\ UNCHANGED <<ws, i>>
       ELSE /\ \E c \in TicksTo(ws[k].clock) :
                  ws' = [ws EXCEPT ![Target(k)].holds = @ \cup ws[k].holds,
                                   ![k].clock = c,
                                   ![k].type = 3]
            /\ Advance
            /\ UNCHANGED <<pc, status>>
    /\ UNCHANGED <<tree, evolved, out, group, step>>

\* The end of the pass: the next substep, or on to the output buffer.
EndPass ==
    /\ pc = "resolve"
    /\ i > Len(ws)
    /\ IF step + 1 < NumSubsteps
       THEN step' = step + 1 /\ i' = 1 /\ UNCHANGED pc
       ELSE pc' = "marshal" /\ UNCHANGED <<step, i>>
    /\ UNCHANGED <<tree, evolved, out, group, ws, status>>

-----------------------------------------------------------------------------

\* marshal_workspace_to_output_buffer() for the segment of halo h: everything
\* but Type 3, stamped with the snapshot of the segment.
Segment(h) ==
    LET stamped == [k \in DOMAIN ws |-> [ws[k] EXCEPT !.snap = tree.snap[h]]]
    IN  Kept(stamped, {k \in DOMAIN ws : ws[k].halo = h /\ ws[k].type # 3})

Marshal ==
    /\ pc = "marshal"
    /\ out' = [h \in Halos |-> IF h \in MembersOf(tree, group) THEN Segment(h) ELSE out[h]]
    /\ evolved' = evolved \cup {group}
    /\ pc' = "idle"
    /\ ws' = <<>>
    /\ i' = 1
    /\ step' = 0
    /\ UNCHANGED <<tree, group, status>>

Finish ==
    /\ status = "running"
    /\ pc = "idle"
    /\ evolved = Fofs(tree)
    /\ status' = "finished"
    /\ UNCHANGED <<tree, evolved, out, pc, group, ws, i, step>>

Next == \/ \E f \in Fofs(tree) : Gather(f)
        \/ InitialiseMergerClock
        \/ \E k \in DOMAIN ws : \/ SkipObject(k)
                                \/ Survive(k)
                                \/ Consume(k)
        \/ EndPass
        \/ Marshal
        \/ Finish

Spec == Init /\ [][Next]_vars

-----------------------------------------------------------------------------

\* The type invariant; no object is written out as Type 3.
TypeOK ==
    /\ tree \in Tree
    /\ evolved \subseteq Halos
    /\ out \in [Halos -> Seq({g \in Galaxy : g.type # 3})]
    /\ pc \in {"idle", "clock", "resolve", "marshal"}
    /\ group \in Nat
    /\ ws \in Seq(Galaxy)
    /\ i \in 1 .. Len(ws) + 1
    /\ step \in 0 .. NumSubsteps - 1
    /\ status \in {"running", "finished", "fatal"}

Live == {k \in DOMAIN ws : ws[k].type # 3}

\* The mass the live objects of the workspace hold between them.
Ledger == UNION {ws[k].holds : k \in Live}

\* None of the fatal errors on this path can fire: no slice without exactly
\* one Type 0/1 object, no group without its Type 0 central, no satellite
\* without a clock or an interval, no merger of an object with itself.
NeverFatal == status # "fatal"

\* No orphan reaches the output, so that a slice is written with its local
\* central or not at all and the next snapshot finds the central it needs:
\* orphans whose central was consumed before them go in the same pass.
OrphansEndHere ==
    \A h \in Halos : out[h] # <<>> => Len(out[h]) = 1 /\ out[h][1].type \in {0, 1}

\* Every slice and every group has the central it needs, now and a snapshot later.
CentralsFound == NeverFatal /\ OrphansEndHere

\* Galaxies are neither duplicated nor counted twice: nothing consumed is
\* written, and in one snapshot no two written objects have one id or hold the
\* mass of one galaxy.
CountedOnce ==
    /\ TypeOK
    /\ \A g, h \in Halos :
          \A j \in DOMAIN out[g], k \in DOMAIN out[h] :
              tree.snap[g] = tree.snap[h] /\ <<g, j>> # <<h, k>> =>
                  /\ out[g][j].id # out[h][k].id
                  /\ out[g][j].holds \cap out[h][k].holds = {}

\* While a group is in the workspace, CentralHalo of every object leads to an
\* object of its own slice which is its own central.
CentralsAreLocal ==
    \A k \in DOMAIN ws :
        LET c == ws[k].central IN
        c \in DOMAIN ws /\ ws[c].halo = ws[k].halo /\ ws[c].central = c

\* Between snapshots exactly the satellites have a clock: a galaxy that is
\* promoted loses its old one and gets a new one when it falls in again.
ClockMeansSatellite ==
    \A h \in Halos : \A k \in DOMAIN out[h] :
        out[h][k].clock = "unset" <=> out[h][k].type = 0

\* Until it is marshalled, every object of the workspace still carries the
\* SnapNum of the progenitor it comes from (setup_module_context reads its
\* age from it); a new object that of the snapshot before.
StillAtProgenitor ==
    \A k \in DOMAIN ws :
        LET earlier == {p \in Progenitors(tree, ws[k].halo) :
                          \E j \in DOMAIN out[p] : out[p][j].id = ws[k].id}
        IN  \/ \E p \in earlier : ws[k].snap = tree.snap[p]
            \/ ws[k].id = ws[k].halo /\ ws[k].snap = tree.snap[ws[k].halo] - 1

\* What a galaxy brings along from its progenitor is true where it arrives: its
\* central (inheritance.c:133), its clock and the snapshot its age is read from.
CarriedOver == CentralsAreLocal /\ ClockMeansSatellite /\ StillAtProgenitor

\* The only mass a resolver step may lose is that of an orphan whose local
\* central was consumed before it.
LossNeedsDeadHost ==
    [][pc = "resolve" /\ pc' = "resolve" /\ Ledger' # Ledger =>
          \E k \in DOMAIN ws : /\ ws[k].type = 2
                              /\ ws'[k].type = 3
                              /\ ws[ws[k].central].type = 3]_vars

\* What docs/mergers_and_disruption.md promises: the resolver finds the live
\* target, and mergers conserve the ledger of the live objects of the group.
MergersConserveLedger ==
    [][pc = "resolve" /\ pc' = "resolve" => Ledger' = Ledger]_vars
=============================================================================
