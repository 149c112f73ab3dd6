----------------------------- MODULE TreeBuild ------------------------------
(***************************************************************************)
(* build_halo_tree() and the loop over the halos of a unit that calls it.  *)
(*                                                                         *)
(* The recursion is a machine with an explicit call stack: a frame holds   *)
(* the halo a call was made for, the loop it is in and the positions of    *)
(* its chain walks.  HaloAux[].DoneFlag and HaloAux[].HaloFlag, which the  *)
(* nested calls share, are the variables doneFlag and haloFlag.  Evolving  *)
(* a FoF group (gather, inherit, physics, marshal) is one step here; what  *)
(* happens inside it is the subject of module GalaxyFlow.                  *)
(***************************************************************************)
EXTENDS MergerTree, FiniteSets

CONSTANTS Trees,        \* the merger trees a unit may hold
          MaxTreeDepth  \* MimicConfig.MaxTreeDepth

ASSUME TreesAssumption == \A t \in Trees : WellFormed(t)
ASSUME DepthAssumption == MaxTreeDepth \in Nat

VARIABLES tree,         \* the unit being processed
          halonr,       \* the driver's loop index over the halos of the unit
          doneFlag,     \* HaloAux[h].DoneFlag
          haloFlag,     \* HaloAux[f].HaloFlag: 0 new, 1 claimed, 2 evolved
          stack,        \* the active calls, outermost first
          status        \* "running", "finished" or "fatal"

vars == <<tree, halonr, doneFlag, haloFlag, stack, status>>

-----------------------------------------------------------------------------

\* A call of build_halo_tree(halo): pc tells which loop it is in, member is
\* its position in the FoF chain, prog its position in the progenitor chain.
Frame == [halo : Halos, pc : {"own", "group", "evolve"},
          member : Nat \ {0}, prog : Nat \ {0}]

NewFrame(h) == [halo |-> h, pc |-> "own", member |-> 1, prog |-> 1]

Top == stack[Len(stack)]

Callers == SubSeq(stack, 1, Len(stack) - 1)

TopFof == tree.fof[Top.halo]

\* The active call with its position moved, and the stack with it on top.
Moved(pc, m, k) == [halo |-> Top.halo, pc |-> pc, member |-> m, prog |-> k]

Resume(fr) == Append(Callers, fr)

Running(pc) == status = "running" /\ stack # <<>> /\ Top.pc = pc

-----------------------------------------------------------------------------

\* Mistakes the checks must notice (see README): the call forgets to set
\* DoneFlag; the depth is compared with >=.
EnterUnmarked(h, calls) ==
    /\ Len(calls) <= MaxTreeDepth
    /\ stack' = Append(calls, NewFrame(h))
    /\ UNCHANGED <<doneFlag, status>>

EnterTooStrict(h, calls) ==
    \/ /\ Len(calls) >= MaxTreeDepth
       /\ status' = "fatal"
       /\ UNCHANGED <<doneFlag, stack>>
    \/ /\ Len(calls) < MaxTreeDepth
       /\ doneFlag' = [doneFlag EXCEPT ![h] = 1]
       /\ stack' = Append(calls, NewFrame(h))
       /\ UNCHANGED status

\* build_halo_tree(h, unit, Len(calls)): the depth check comes first and ends
\* the program; otherwise the halo is marked done before anything is visited.
Enter(h, calls) ==
    \/ /\ Len(calls) > MaxTreeDepth
       /\ status' = "fatal"
       /\ UNCHANGED <<doneFlag, stack>>
    \/ /\ Len(calls) <= MaxTreeDepth
       /\ doneFlag' = [doneFlag EXCEPT ![h] = 1]
       /\ stack' = Append(calls, NewFrame(h))
       /\ UNCHANGED status

\* The walk reaches progenitor p: recurse unless it is done.
Visit(p, calls) ==
    \/ doneFlag[p] = 0 /\ Enter(p, calls)
    \/ doneFlag[p] # 0 /\ stack' = calls /\ UNCHANGED <<doneFlag, status>>

-----------------------------------------------------------------------------

Init == /\ tree \in Trees
        /\ halonr = 0
        /\ doneFlag = [h \in Halos |-> 0]
        /\ haloFlag = [h \in Halos |-> 0]
        /\ stack = <<>>
        /\ status = "running"

\* process_partition(): the loop body for one halo of the unit.
DriverStep == /\ status = "running"
              /\ stack = <<>>
              /\ halonr < NumHalos
              /\ Visit(halonr, <<>>)
              /\ halonr' = halonr + 1
              /\ UNCHANGED <<tree, haloFlag>>

\* A mistake: the loop over the unit ends one halo early.
DriverFinishEarly == /\ status = "running"
                     /\ stack = <<>>
                     /\ halonr = NumHalos - 1
                     /\ status' = "finished"
                     /\ UNCHANGED <<tree, halonr, doneFlag, haloFlag, stack>>

DriverFinish == /\ status = "running"
                /\ stack = <<>>
                /\ halonr = NumHalos
                /\ status' = "finished"
                /\ UNCHANGED <<tree, halonr, doneFlag, haloFlag, stack>>

\* A mistake: the walk moves on only after a recursive call.
VisitOwnStuck ==
    /\ Running("own")
    /\ Top.prog <= Len(tree.progs[Top.halo])
    /\ doneFlag[tree.progs[Top.halo][Top.prog]] = 0
    /\ Enter(tree.progs[Top.halo][Top.prog],
             Resume(Moved("own", Top.member, Top.prog + 1)))
    /\ UNCHANGED <<tree, halonr, haloFlag>>

\* The first loop: the progenitors of the halo of this call.
VisitOwn ==
    /\ Running("own")
    /\ Top.prog <= Len(tree.progs[Top.halo])
    /\ Visit(tree.progs[Top.halo][Top.prog],
             Resume(Moved("own", Top.member, Top.prog + 1)))
    /\ UNCHANGED <<tree, halonr, haloFlag>>

\* The first loop is over: the first call to come this far for a FoF group
\* claims it and walks the other members, later ones go straight on.
ClaimGroup ==
    /\ Running("own")
    /\ Top.prog > Len(tree.progs[Top.halo])
    /\ \/ /\ haloFlag[TopFof] = 0
          /\ haloFlag' = [haloFlag EXCEPT ![TopFof] = 1]
          /\ stack' = Resume(Moved("group", 1, 1))
       \/ /\ haloFlag[TopFof] # 0
          /\ stack' = Resume(Moved("evolve", 1, 1))
          /\ UNCHANGED haloFlag
    /\ UNCHANGED <<tree, halonr, doneFlag, status>>

\* The second loop: the progenitors of every member of the FoF group.
VisitGroup ==
    /\ Running("group")
    /\ LET member == tree.members[TopFof][Top.member] IN
          /\ Top.prog <= Len(tree.progs[member])
          /\ Visit(tree.progs[member][Top.prog],
                   Resume(Moved("group", Top.member, Top.prog + 1)))
    /\ UNCHANGED <<tree, halonr, haloFlag>>

\* A mistake: only the first member of the group is walked.
NextMemberNone ==
    /\ Running("group")
    /\ Top.prog > Len(tree.progs[tree.members[TopFof][Top.member]])
    /\ stack' = Resume(Moved("evolve", 1, 1))
    /\ UNCHANGED <<tree, halonr, doneFlag, haloFlag, status>>

NextMember ==
    /\ Running("group")
    /\ Top.prog > Len(tree.progs[tree.members[TopFof][Top.member]])
    /\ \/ /\ Top.member < Len(tree.members[TopFof])
          /\ stack' = Resume(Moved("group", Top.member + 1, 1))
       \/ /\ Top.member = Len(tree.members[TopFof])
          /\ stack' = Resume(Moved("evolve", 1, 1))
    /\ UNCHANGED <<tree, halonr, doneFlag, haloFlag, status>>

\* Gather, inherit, evolve and marshal the group, once; then return.
EvolveGroup ==
    /\ Running("evolve")
    /\ haloFlag[TopFof] = 1
    /\ haloFlag' = [haloFlag EXCEPT ![TopFof] = 2]
    /\ stack' = Callers
    /\ UNCHANGED <<tree, halonr, doneFlag, status>>

Return ==
    /\ Running("evolve")
    /\ haloFlag[TopFof] # 1
    /\ stack' = Callers
    /\ UNCHANGED <<tree, halonr, doneFlag, haloFlag, status>>

Next == \/ DriverStep
        \/ DriverFinish
        \/ VisitOwn
        \/ ClaimGroup
        \/ VisitGroup
        \/ NextMember
        \/ EvolveGroup
        \/ Return

Spec == Init /\ [][Next]_vars

\* The traversal is sequential code that never waits.
FairSpec == Spec /\ WF_vars(Next)

-----------------------------------------------------------------------------

\* The type invariant: every variable of the traversal has its type.
TypeOK ==
    /\ tree \in Tree
    /\ halonr \in 0 .. NumHalos
    /\ doneFlag \in [Halos -> 0 .. 1]
    /\ haloFlag \in [Halos -> 0 .. 2]
    /\ stack \in Seq(Frame)
    /\ status \in {"running", "finished", "fatal"}

\* The calls on the stack are for halos of strictly earlier and earlier
\* snapshots: no call can meet a FoF group that a caller is still working on.
StackDescends ==
    \A i, j \in DOMAIN stack :
        i < j => tree.snap[stack[j].halo] < tree.snap[stack[i].halo]

\* A halo whose DoneFlag a walk trusts really has its galaxies: the FoF group
\* of a done halo is evolved unless a call for that very halo is active.
DoneMeansEvolved ==
    \A h \in Halos :
        doneFlag[h] = 1 =>
            \/ haloFlag[tree.fof[h]] = 2
            \/ \E i \in DOMAIN stack : stack[i].halo = h

\* A FoF group is claimed (HaloFlag 1) exactly by one call in progress, whose
\* return evolves it: a claim is never left behind.
ClaimsAreHeld ==
    \A f \in Halos :
        haloFlag[f] = 1 =>
            \E i \in DOMAIN stack : /\ tree.fof[stack[i].halo] = f
                                    /\ stack[i].pc \in {"group", "evolve"}

\* The traversal gives up only on a tree that spans more snapshots than
\* MaxTreeDepth allows, however wide or entangled it is.
FatalOnlyIfDeep ==
    status = "fatal" =>
        Cardinality({tree.snap[h] : h \in Halos}) >= MaxTreeDepth + 2

\* A group is evolved in a step that finds the groups of all progenitors of
\* all of its members evolved already, and its own not.
EvolvesInOrder ==
    [][\A f \in Halos :
          haloFlag[f] # 2 /\ haloFlag'[f] = 2 =>
              \A g \in Needs(tree, f) : haloFlag[g] = 2]_vars

\* When the loop over the unit ends, every halo was visited and every FoF
\* group evolved.
AllEvolved ==
    status = "finished" =>
        \A h \in Halos : doneFlag[h] = 1 /\ haloFlag[tree.fof[h]] = 2

\* What a call in progress knows.  Its halo is done; the progenitors its walks
\* have passed are done; a claimed group stays claimed until the call evolves
\* it, and by then all progenitors of all of its members are done.
FrameOK(fr, t, done, claim) ==
    LET f == t.fof[fr.halo] IN
    /\ done[fr.halo] = 1
    /\ fr.pc = "own" =>
          \A k \in DOMAIN t.progs[fr.halo] :
              k < fr.prog => done[t.progs[fr.halo][k]] = 1
    /\ fr.pc = "group" =>
          /\ claim[f] = 1
          /\ fr.member \in DOMAIN t.members[f]
          /\ \A m \in DOMAIN t.members[f] :
                \A k \in DOMAIN t.progs[t.members[f][m]] :
                    (m < fr.member \/ (m = fr.member /\ k < fr.prog)) =>
                        done[t.progs[t.members[f][m]][k]] = 1
    /\ fr.pc = "evolve" =>
          \/ claim[f] = 2
          \/ /\ claim[f] = 1
             /\ \A m \in DOMAIN t.members[f] :
                   \A k \in DOMAIN t.progs[t.members[f][m]] :
                       done[t.progs[t.members[f][m]][k]] = 1

FramesOK ==
    \A i \in DOMAIN stack : FrameOK(stack[i], tree, doneFlag, haloFlag)

\* An evolved group rests on evolved groups.
EvolvedClosed ==
    \A f \in Halos :
        haloFlag[f] = 2 => \A g \in Needs(tree, f) : haloFlag[g] = 2

\* The driver's loop leaves no halo behind, and HaloFlag is kept on FoF
\* centrals only.
DriverOK ==
    /\ \A h \in Halos : h < halonr => doneFlag[h] = 1
    /\ \A f \in Halos : haloFlag[f] # 0 => tree.fof[f] = f
    /\ status = "finished" => stack = <<>> /\ halonr = NumHalos

\* The inductive invariant: whatever the tree and however the calls are
\* nested, the two flags and the stack agree on what has been built.
IInv == /\ TypeOK
        /\ WellFormed(tree)
        /\ StackDescends
        /\ FramesOK
        /\ DoneMeansEvolved
        /\ ClaimsAreHeld
        /\ EvolvedClosed
        /\ DriverOK

\* The traversal of a unit comes to an end.
Ends == <>(status # "running")

-----------------------------------------------------------------------------

\* The traversal implements the schedule: a group is evolved when its HaloFlag
\* becomes 2.
Schedule == INSTANCE FoFSchedule
                WITH evolved <- {f \in Halos : haloFlag[f] = 2}

ScheduleSpec == Schedule!Spec
=============================================================================
