--------------------------- MODULE TreeBuildProofs ---------------------------
(***************************************************************************)
(* Proofs about the tree traversal, for every number of halos, every       *)
(* well-formed merger tree and every MaxTreeDepth.                         *)
(***************************************************************************)
EXTENDS TreeBuild, FiniteSetTheorems, SequenceTheorems, TLAPS

\* The links of a well-formed tree lead to halos of the unit.
LEMMA TreeFacts ==
    ASSUME NEW t, WellFormed(t)
    PROVE  /\ t \in Tree
           /\ \A h \in Halos :
                /\ t.fof[h] \in Halos
                /\ t.snap[h] \in Nat
                /\ t.fof[t.fof[h]] = t.fof[h]
                /\ t.snap[t.fof[h]] = t.snap[h]
                /\ \E m \in DOMAIN t.members[t.fof[h]] : t.members[t.fof[h]][m] = h
                /\ 1 \in DOMAIN t.members[t.fof[h]]
           /\ \A h \in Halos : \A k \in DOMAIN t.progs[h] :
                /\ t.progs[h][k] \in Halos
                /\ t.snap[t.progs[h][k]] < t.snap[h]
           /\ \A h \in Halos : \A m \in DOMAIN t.members[h] : t.members[h][m] \in Halos
           /\ \A h \in Halos : \A m \in DOMAIN t.members[t.fof[h]] :
                /\ t.fof[t.members[t.fof[h]][m]] = t.fof[h]
                /\ t.snap[t.members[t.fof[h]][m]] = t.snap[h]
<1>1. t \in Tree
  BY DEF WellFormed
<1>2. \A h \in Halos : t.fof[h] \in Halos /\ t.snap[h] \in Nat
  BY <1>1 DEF Tree
<1>3. \A h \in Halos : t.progs[h] \in Seq(Halos) /\ t.members[h] \in Seq(Halos)
  BY <1>1 DEF Tree
<1>4. \A h \in Halos : \A k \in DOMAIN t.progs[h] :
         t.progs[h][k] \in Halos /\ t.snap[t.progs[h][k]] < t.snap[h]
  BY <1>3 DEF WellFormed, LinksGoBack
<1>5. \A h \in Halos : \A m \in DOMAIN t.members[h] : t.members[h][m] \in Halos
  BY <1>3
<1>6. \A h \in Halos : \A m \in DOMAIN t.members[t.fof[h]] :
         /\ t.fof[t.members[t.fof[h]][m]] = t.fof[h]
         /\ t.snap[t.members[t.fof[h]][m]] = t.snap[h]
  BY DEF WellFormed, GroupsAreChains
<1>7. \A h \in Halos : /\ 1 \in DOMAIN t.members[t.fof[h]]
                       /\ t.members[t.fof[h]][1] = t.fof[h]
  BY <1>2, <1>3 DEF WellFormed, GroupsAreChains
<1>8. \A h \in Halos : \E m \in DOMAIN t.members[t.fof[h]] : t.members[t.fof[h]][m] = h
  BY DEF WellFormed, GroupsAreChains, MembersOf
<1> QED
  BY <1>1, <1>2, <1>4, <1>5, <1>6, <1>7, <1>8

\* Returning drops the top of the stack and nothing else.
LEMMA CallersFacts ==
    ASSUME stack \in Seq(Frame), stack # <<>>
    PROVE  /\ Callers \in Seq(Frame)
           /\ Len(stack) \in Nat \ {0}
           /\ Len(Callers) = Len(stack) - 1
           /\ \A i \in DOMAIN stack : i # Len(stack) => Callers[i] = stack[i]
           /\ DOMAIN stack = 1 .. Len(stack)
           /\ DOMAIN Callers = 1 .. (Len(stack) - 1)
           /\ Len(stack) \in DOMAIN stack
           /\ \A i \in DOMAIN stack : stack[i] \in Frame /\ stack[i].halo \in Halos
           /\ Top \in Frame /\ Top.halo \in Halos /\ tree.fof[Top.halo] = TopFof
<1>1. Len(stack) \in Nat \ {0} /\ DOMAIN stack = 1 .. Len(stack)
  OBVIOUS
<1>2. \A i \in 1 .. Len(stack) : stack[i] \in Frame
  OBVIOUS
<1>3. /\ Callers \in Seq(Frame)
      /\ Len(Callers) = Len(stack) - 1
      /\ \A i \in 1 .. (Len(stack) - 1) : Callers[i] = stack[i]
  <2>1. /\ 1 \in Int /\ Len(stack) - 1 \in Int
        /\ \A i \in 1 .. (Len(stack) - 1) : stack[i] \in Frame
    BY <1>1, <1>2
  <2>2. /\ SubSeq(stack, 1, Len(stack) - 1) \in Seq(Frame)
        /\ Len(SubSeq(stack, 1, Len(stack) - 1)) =
              IF 1 <= Len(stack) - 1 THEN Len(stack) - 1 - 1 + 1 ELSE 0
        /\ \A i \in 1 .. (Len(stack) - 1 - 1 + 1) :
              SubSeq(stack, 1, Len(stack) - 1)[i] = stack[1 + i - 1]
    BY <2>1, SubSeqProperties
  <2> QED
    BY <1>1, <2>2 DEF Callers
<1>4. \A fr \in Frame : fr.halo \in Halos
  BY DEF Frame
<1> QED
  BY <1>1, <1>2, <1>3, <1>4 DEF Top, TopFof

\* Moving the active call changes the top of the stack and nothing below it.
LEMMA ResumeFacts ==
    ASSUME stack \in Seq(Frame), stack # <<>>, NEW fr \in Frame
    PROVE  /\ Resume(fr) \in Seq(Frame)
           /\ Len(Resume(fr)) = Len(stack)
           /\ DOMAIN Resume(fr) = DOMAIN stack
           /\ Resume(fr)[Len(stack)] = fr
           /\ \A i \in DOMAIN stack : i # Len(stack) => Resume(fr)[i] = stack[i]
BY CallersFacts DEF Resume

\* A call that moves is still a call for the same halo.
LEMMA FrameMoves ==
    ASSUME Top.halo \in Halos, NEW pc \in {"own", "group", "evolve"},
           NEW m \in Nat \ {0}, NEW k \in Nat \ {0}
    PROVE  /\ Moved(pc, m, k) \in Frame
           /\ Moved(pc, m, k).halo = Top.halo
           /\ Moved(pc, m, k).pc = pc
           /\ Moved(pc, m, k).member = m
           /\ Moved(pc, m, k).prog = k
BY SMTT(30) DEF Moved, Frame

\* What a call knows stays true while halos become done and its own group
\* keeps its HaloFlag.
LEMMA FrameMonotone ==
    ASSUME NEW t, WellFormed(t), NEW fr \in Frame,
           NEW done, NEW claim, NEW done2, NEW claim2,
           FrameOK(fr, t, done, claim),
           \A h \in Halos : done[h] = 1 => done2[h] = 1,
           claim2[t.fof[fr.halo]] = claim[t.fof[fr.halo]]
    PROVE  FrameOK(fr, t, done2, claim2)
<1>1. fr.halo \in Halos
  BY DEF Frame
<1>2. \A k \in DOMAIN t.progs[fr.halo] : t.progs[fr.halo][k] \in Halos
  BY <1>1, TreeFacts
<1>3. \A m \in DOMAIN t.members[t.fof[fr.halo]] :
         \A k \in DOMAIN t.progs[t.members[t.fof[fr.halo]][m]] :
            t.progs[t.members[t.fof[fr.halo]][m]][k] \in Halos
  BY <1>1, TreeFacts
<1> QED
  BY <1>1, <1>2, <1>3 DEF FrameOK

\* A visit marks its progenitor done and suspends or resumes the caller; it
\* keeps the invariant when the caller's new frame may rely on that mark.
LEMMA VisitPreserves ==
    ASSUME IInv, status = "running",
           NEW p \in Halos, NEW calls \in Seq(Frame), Visit(p, calls),
           UNCHANGED <<tree, haloFlag>>,
           halonr' \in 0 .. NumHalos,
           \A h \in Halos : h < halonr' => h < halonr \/ h = p,
           calls # <<>> => halonr' = halonr,
           Len(calls) = Len(stack),
           \A i \in DOMAIN stack :
              /\ calls[i].halo = stack[i].halo
              /\ calls[i].pc = stack[i].pc
              /\ tree.snap[p] < tree.snap[calls[i].halo]
              /\ \A done \in [Halos -> 0 .. 1] :
                    /\ \A h \in Halos : doneFlag[h] = 1 => done[h] = 1
                    /\ done[p] = 1
                    => FrameOK(calls[i], tree, done, haloFlag)
    PROVE  IInv'
<1> USE DEF IInv
<1>1. CASE Len(calls) > MaxTreeDepth /\ doneFlag[p] = 0
  <2>1. /\ status' = "fatal"
        /\ UNCHANGED <<doneFlag, stack>>
    BY <1>1, DepthAssumption DEF Visit, Enter
  <2>2. halonr' = halonr
    BY <1>1, DepthAssumption
  <2> QED
    BY <2>1, <2>2 DEF TypeOK, StackDescends, FramesOK, DoneMeansEvolved,
                      ClaimsAreHeld, EvolvedClosed, DriverOK
<1>2. CASE Len(calls) <= MaxTreeDepth /\ doneFlag[p] = 0
  <2>1. /\ doneFlag' = [doneFlag EXCEPT ![p] = 1]
        /\ stack' = Append(calls, NewFrame(p))
        /\ status' = status
    BY <1>2, DepthAssumption DEF Visit, Enter
  <2>2. /\ NewFrame(p) \in Frame
        /\ NewFrame(p).halo = p
        /\ NewFrame(p).pc = "own"
        /\ NewFrame(p).prog = 1
    BY DEF NewFrame, Frame
  <2>3. /\ stack' \in Seq(Frame)
        /\ DOMAIN stack = 1 .. Len(stack)
        /\ DOMAIN stack' = 1 .. (Len(stack) + 1)
        /\ Len(stack) \in Nat
        /\ \A i \in DOMAIN stack : stack'[i] = calls[i]
        /\ stack'[Len(stack) + 1] = NewFrame(p)
    BY <2>1, <2>2 DEF TypeOK
  <2>4. /\ doneFlag' \in [Halos -> 0 .. 1]
        /\ doneFlag'[p] = 1
        /\ \A h \in Halos : h # p => doneFlag'[h] = doneFlag[h]
    BY <2>1 DEF TypeOK
  <2>5. TypeOK'
    BY <2>1, <2>3, <2>4 DEF TypeOK
  <2>6. StackDescends'
    BY <2>2, <2>3, SMTT(30) DEF StackDescends
  <2>7. FramesOK'
    <3>1. FrameOK(NewFrame(p), tree', doneFlag', haloFlag')
      <4>1. tree' = tree /\ tree.progs[p] \in Seq(Halos)
        BY DEF WellFormed, Tree
      <4>2. \A k \in DOMAIN tree.progs[p] : ~ (k < 1)
        BY <4>1
      <4> QED
        BY <2>2, <2>4, <4>1, <4>2 DEF FrameOK
    <3>2. \A i \in DOMAIN stack : FrameOK(stack'[i], tree', doneFlag', haloFlag')
      BY <2>3, <2>4
    <3> QED
      BY <3>1, <3>2, <2>3 DEF FramesOK
  <2>8. DoneMeansEvolved'
    BY <2>2, <2>3, <2>4 DEF DoneMeansEvolved
  <2>9. ClaimsAreHeld'
    BY <2>3 DEF ClaimsAreHeld
  <2>10. EvolvedClosed' /\ WellFormed(tree)'
    BY DEF EvolvedClosed
  <2>11. DriverOK'
    BY <2>1, <2>4 DEF DriverOK
  <2> QED
    BY <2>5, <2>6, <2>7, <2>8, <2>9, <2>10, <2>11
<1>3. CASE doneFlag[p] # 0
  <2>1. /\ stack' = calls
        /\ UNCHANGED <<doneFlag, status>>
    BY <1>3 DEF Visit
  <2>2. /\ DOMAIN stack = 1 .. Len(stack)
        /\ DOMAIN stack' = DOMAIN stack
        /\ stack' \in Seq(Frame)
    BY <2>1 DEF TypeOK
  <2>3. doneFlag[p] = 1
    BY <1>3 DEF TypeOK
  <2>4. TypeOK'
    BY <2>1, <2>2 DEF TypeOK
  <2>5. StackDescends'
    BY <2>1, <2>2 DEF StackDescends
  <2>6. FramesOK'
    BY <2>1, <2>2, <2>3 DEF FramesOK, TypeOK
  <2>7. DoneMeansEvolved' /\ ClaimsAreHeld'
    BY <2>1, <2>2 DEF DoneMeansEvolved, ClaimsAreHeld
  <2>8. EvolvedClosed' /\ WellFormed(tree)' /\ DriverOK'
    BY <2>1, <2>3 DEF EvolvedClosed, DriverOK
  <2> QED
    BY <2>4, <2>5, <2>6, <2>7, <2>8
<1> QED
  <2>1. doneFlag[p] = 0 \/ doneFlag[p] # 0
    OBVIOUS
  <2>2. Len(calls) \in Nat
    OBVIOUS
  <2> QED
    BY <1>1, <1>2, <1>3, <2>1, <2>2, DepthAssumption

-----------------------------------------------------------------------------

\* The state load_unit() leaves behind: no flag set, no call active.
LEMMA InitIInv == Init => IInv
<1> SUFFICES ASSUME Init PROVE IInv
  OBVIOUS
<1>1. WellFormed(tree)
  BY TreesAssumption DEF Init
<1>2. TypeOK
  BY <1>1, NumHalosAssumption DEF Init, TypeOK, WellFormed
<1>3. StackDescends /\ FramesOK /\ DoneMeansEvolved /\ ClaimsAreHeld
  BY DEF Init, StackDescends, FramesOK, DoneMeansEvolved, ClaimsAreHeld
<1>4. EvolvedClosed /\ DriverOK
  BY DEF Init, EvolvedClosed, DriverOK, Halos
<1> QED
  BY <1>1, <1>2, <1>3, <1>4 DEF IInv

\* The driver's loop enters the tree or passes over a done halo.
LEMMA DriverStepIInv == IInv /\ DriverStep => IInv'
<1> SUFFICES ASSUME IInv, DriverStep PROVE IInv'
  OBVIOUS
<1>1. halonr \in Halos /\ halonr' \in 0 .. NumHalos
  BY NumHalosAssumption DEF IInv, TypeOK, DriverStep, Halos
<1>2. \A h \in Halos : h < halonr' => h < halonr \/ h = halonr
  BY <1>1, NumHalosAssumption DEF DriverStep, Halos, IInv, TypeOK
<1>3. Visit(halonr, <<>>) /\ UNCHANGED <<tree, haloFlag>> /\ status = "running"
  BY DEF DriverStep
<1>4. stack = <<>> /\ <<>> \in Seq(Frame) /\ Len(<<>>) = Len(stack) /\ DOMAIN stack = {}
  BY DEF DriverStep
<1> QED
  BY <1>1, <1>2, <1>3, <1>4, VisitPreserves

\* A walk over the progenitors of one member (or of the halo itself) meets
\* halos of earlier snapshots than any call in progress.
LEMMA VisitedIsEarlier ==
    ASSUME IInv, stack # <<>>, NEW h \in Halos, NEW k \in DOMAIN tree.progs[h],
           tree.snap[h] = tree.snap[Top.halo]
    PROVE  \A i \in DOMAIN stack :
              tree.snap[tree.progs[h][k]] < tree.snap[stack[i].halo]
<1>1. /\ DOMAIN stack = 1 .. Len(stack) /\ Len(stack) \in DOMAIN stack
      /\ \A i \in DOMAIN stack : stack[i].halo \in Halos
  BY CallersFacts DEF IInv, TypeOK
<1>2. \A i \in DOMAIN stack :
         i # Len(stack) => tree.snap[Top.halo] < tree.snap[stack[i].halo]
  BY <1>1 DEF IInv, StackDescends, Top
<1>3. tree.snap[tree.progs[h][k]] < tree.snap[h] /\ tree.progs[h][k] \in Halos
  BY TreeFacts DEF IInv
<1>4. \A g \in Halos : tree.snap[g] \in Nat
  BY TreeFacts DEF IInv
<1> QED
  BY <1>1, <1>2, <1>3, <1>4 DEF Top

\* The visits of a call in progress, whichever loop the call is in.
LEMMA VisitFromCall ==
    ASSUME IInv, status = "running", stack # <<>>,
           NEW p \in Halos, NEW fr \in Frame, Visit(p, Resume(fr)),
           UNCHANGED <<tree, halonr, haloFlag>>,
           fr.halo = Top.halo, fr.pc = Top.pc,
           \A i \in DOMAIN stack : tree.snap[p] < tree.snap[stack[i].halo],
           \A done \in [Halos -> 0 .. 1] :
              /\ \A h \in Halos : doneFlag[h] = 1 => done[h] = 1
              /\ done[p] = 1
              => FrameOK(fr, tree, done, haloFlag)
    PROVE  IInv'
<1>1. stack \in Seq(Frame) /\ halonr \in 0 .. NumHalos
  BY DEF IInv, TypeOK
<1> DEFINE calls == Resume(fr)
<1>2. /\ calls \in Seq(Frame)
      /\ Len(calls) = Len(stack)
      /\ Len(stack) \in DOMAIN stack
      /\ calls[Len(stack)] = fr
      /\ \A i \in DOMAIN stack : i # Len(stack) => calls[i] = stack[i]
      /\ Top = stack[Len(stack)]
  BY <1>1, ResumeFacts, CallersFacts DEF Top
<1>3. \A i \in DOMAIN stack :
         calls[i].halo = stack[i].halo /\ calls[i].pc = stack[i].pc
  BY <1>2
<1>4. ASSUME NEW i \in DOMAIN stack, NEW done \in [Halos -> 0 .. 1],
             \A h \in Halos : doneFlag[h] = 1 => done[h] = 1, done[p] = 1
      PROVE  FrameOK(calls[i], tree, done, haloFlag)
  <2>1. CASE i = Len(stack)
    BY <1>2, <1>4, <2>1
  <2>2. CASE i # Len(stack)
    <3>1. stack[i] \in Frame /\ FrameOK(stack[i], tree, doneFlag, haloFlag)
      BY <1>1, CallersFacts DEF IInv, FramesOK
    <3> QED
      BY <1>2, <1>4, <2>2, <3>1, FrameMonotone DEF IInv
  <2> QED
    BY <2>1, <2>2
<1>5. halonr' = halonr /\ \A h \in Halos : h < halonr' => h < halonr \/ h = p
  OBVIOUS
<1> HIDE DEF calls
<1>6. Visit(p, calls)
  BY DEF calls
<1> QED
  BY <1>1, <1>2, <1>3, <1>4, <1>5, <1>6, VisitPreserves

\* The first loop of a call keeps the invariant, recursion or not.
LEMMA VisitOwnIInv == IInv /\ VisitOwn => IInv'
<1> SUFFICES ASSUME IInv, VisitOwn PROVE IInv'
  OBVIOUS
<1> DEFINE fr == Moved("own", Top.member, Top.prog + 1)
           p == tree.progs[Top.halo][Top.prog]
<1>1. stack \in Seq(Frame) /\ stack # <<>> /\ Top.pc = "own" /\ status = "running"
  BY DEF VisitOwn, Running, IInv, TypeOK
<1>2. Top \in Frame /\ Top.halo \in Halos /\ Top.prog \in Nat \ {0}
  BY <1>1, CallersFacts DEF Frame
<1>3. /\ fr \in Frame /\ fr.halo = Top.halo /\ fr.pc = "own"
      /\ fr.prog = Top.prog + 1
  <2>1. Top.member \in Nat \ {0} /\ Top.prog + 1 \in Nat \ {0}
    BY <1>2 DEF Frame
  <2> QED
    BY <1>2, <2>1, FrameMoves
<1>4. FrameOK(Top, tree, doneFlag, haloFlag) /\ Top = stack[Len(stack)]
  BY <1>1, CallersFacts DEF IInv, FramesOK, Top
<1>5. Top.prog \in DOMAIN tree.progs[Top.halo] /\ p \in Halos
  <2>1. tree.progs[Top.halo] \in Seq(Halos) /\ Top.prog <= Len(tree.progs[Top.halo])
    BY <1>2 DEF IInv, TypeOK, Tree, VisitOwn
  <2> QED
    BY <1>2, <2>1
<1>6. \A i \in DOMAIN stack : tree.snap[p] < tree.snap[stack[i].halo]
  BY <1>1, <1>2, <1>5, VisitedIsEarlier, SMTT(30)
<1>7. ASSUME NEW done \in [Halos -> 0 .. 1],
             \A h \in Halos : doneFlag[h] = 1 => done[h] = 1, done[p] = 1
      PROVE  FrameOK(fr, tree, done, haloFlag)
  <2>1. FrameOK(Top, tree, done, haloFlag)
    BY <1>2, <1>4, <1>7, FrameMonotone DEF IInv
  <2>2. \A k \in DOMAIN tree.progs[Top.halo] :
           k < Top.prog + 1 => k < Top.prog \/ k = Top.prog
    <3>1. tree.progs[Top.halo] \in Seq(Halos)
      BY <1>2 DEF IInv, TypeOK, Tree
    <3> QED
      BY <1>2, <3>1
  <2> QED
    BY <1>1, <1>3, <1>7, <2>1, <2>2, ZenonT(40) DEF FrameOK
<1>8. Visit(p, Resume(fr)) /\ UNCHANGED <<tree, halonr, haloFlag>>
  BY DEF VisitOwn
<1> QED
  BY <1>1, <1>2, <1>3, <1>5, <1>6, <1>7, <1>8, VisitFromCall

\* The second loop of a call keeps the invariant, recursion or not.
LEMMA VisitGroupIInv == IInv /\ VisitGroup => IInv'
<1> SUFFICES ASSUME IInv, VisitGroup PROVE IInv'
  OBVIOUS
<1> DEFINE fr == Moved("group", Top.member, Top.prog + 1)
           member == tree.members[TopFof][Top.member]
           p == tree.progs[member][Top.prog]
<1>1. stack \in Seq(Frame) /\ stack # <<>> /\ Top.pc = "group" /\ status = "running"
  BY DEF VisitGroup, Running, IInv, TypeOK
<1>2. /\ Top \in Frame /\ Top.halo \in Halos /\ tree.fof[Top.halo] = TopFof
      /\ Top.prog \in Nat \ {0} /\ Top.member \in Nat \ {0}
  BY <1>1, CallersFacts DEF Frame
<1>3. /\ fr \in Frame /\ fr.halo = Top.halo /\ fr.pc = "group"
      /\ fr.prog = Top.prog + 1 /\ fr.member = Top.member
  BY <1>2, FrameMoves
<1>4. FrameOK(Top, tree, doneFlag, haloFlag)
  BY <1>1, CallersFacts DEF IInv, FramesOK, Top
<1>5. Top.member \in DOMAIN tree.members[TopFof]
  BY <1>1, <1>2, <1>4 DEF FrameOK
<1>6. member \in Halos /\ tree.snap[member] = tree.snap[Top.halo]
  BY <1>2, <1>5, TreeFacts DEF IInv
<1>7. Top.prog \in DOMAIN tree.progs[member] /\ p \in Halos
  <2>1. tree.progs[member] \in Seq(Halos)
    BY <1>6 DEF IInv, TypeOK, Tree
  <2>2. Top.prog <= Len(tree.progs[member])
    BY DEF VisitGroup
  <2> QED
    BY <1>2, <2>1, <2>2
<1>8. \A i \in DOMAIN stack : tree.snap[p] < tree.snap[stack[i].halo]
  BY <1>1, <1>6, <1>7, VisitedIsEarlier, SMTT(30)
<1>9. ASSUME NEW done \in [Halos -> 0 .. 1],
             \A h \in Halos : doneFlag[h] = 1 => done[h] = 1, done[p] = 1
      PROVE  FrameOK(fr, tree, done, haloFlag)
  <2>1. FrameOK(Top, tree, done, haloFlag)
    BY <1>2, <1>4, <1>9, FrameMonotone DEF IInv
  <2>2. \A k \in DOMAIN tree.progs[member] :
           k < Top.prog + 1 => k < Top.prog \/ k = Top.prog
    <3>1. tree.progs[member] \in Seq(Halos)
      BY <1>6 DEF IInv, TypeOK, Tree
    <3>2. \A k \in DOMAIN tree.progs[member] : k \in Nat
      BY <3>1
    <3> HIDE DEF member
    <3> QED
      BY <1>2, <3>2
  <2>3. ASSUME NEW m \in DOMAIN tree.members[TopFof],
               NEW k \in DOMAIN tree.progs[tree.members[TopFof][m]],
               m < Top.member \/ (m = Top.member /\ k < Top.prog + 1)
        PROVE  done[tree.progs[tree.members[TopFof][m]][k]] = 1
    <3>1. CASE m < Top.member \/ (m = Top.member /\ k < Top.prog)
      BY <1>1, <1>2, <2>1, <3>1 DEF FrameOK
    <3>2. CASE m = Top.member /\ k = Top.prog
      BY <1>9, <3>2
    <3> QED
      BY <2>2, <2>3, <3>1, <3>2
  <2>4. /\ done[fr.halo] = 1
        /\ haloFlag[tree.fof[fr.halo]] = 1
        /\ fr.member \in DOMAIN tree.members[tree.fof[fr.halo]]
    BY <1>1, <1>2, <1>3, <2>1 DEF FrameOK
  <2>5. \A m \in DOMAIN tree.members[tree.fof[fr.halo]] :
           \A k \in DOMAIN tree.progs[tree.members[tree.fof[fr.halo]][m]] :
               (m < fr.member \/ (m = fr.member /\ k < fr.prog)) =>
                   done[tree.progs[tree.members[tree.fof[fr.halo]][m]][k]] = 1
    <3>1. /\ tree.fof[fr.halo] = TopFof
          /\ fr.member = Top.member
          /\ fr.prog = Top.prog + 1
      BY <1>2, <1>3
    <3> HIDE DEF fr
    <3> QED
      BY <2>3, <3>1
  <2> HIDE DEF fr
  <2> QED
    BY <1>3, <2>4, <2>5 DEF FrameOK
<1>10. Visit(p, Resume(fr)) /\ UNCHANGED <<tree, halonr, haloFlag>>
  BY DEF VisitGroup
<1> QED
  BY <1>1, <1>3, <1>7, <1>8, <1>9, <1>10, VisitFromCall

\* A call that moves without visiting anything leaves every flag of the
\* halos alone; at most it claims its own group.
LEMMA MovePreserves ==
    ASSUME IInv, status = "running", stack # <<>>,
           NEW fr \in Frame, stack' = Resume(fr),
           fr.halo = Top.halo, fr.pc \in {"group", "evolve"},
           Top.pc = "group" \/ haloFlag' = haloFlag \/ haloFlag[TopFof] = 0,
           UNCHANGED <<tree, halonr, doneFlag, status>>,
           haloFlag' = haloFlag \/ (haloFlag[TopFof] = 0 /\
                                    haloFlag' = [haloFlag EXCEPT ![TopFof] = 1]),
           FrameOK(fr, tree, doneFlag, haloFlag')
    PROVE  IInv'
<1> USE DEF IInv
<1>1. /\ stack \in Seq(Frame)
      /\ stack' \in Seq(Frame)
      /\ Top = stack[Len(stack)]
      /\ Len(stack) \in DOMAIN stack
      /\ DOMAIN stack' = DOMAIN stack
      /\ stack'[Len(stack)] = fr
      /\ \A i \in DOMAIN stack : i # Len(stack) => stack'[i] = stack[i]
      /\ \A i \in DOMAIN stack : stack[i] \in Frame /\ stack[i].halo \in Halos
      /\ DOMAIN stack = 1 .. Len(stack)
  BY ResumeFacts, CallersFacts, SMTT(30) DEF TypeOK, Top
<1>2. TopFof \in Halos /\ TopFof = tree.fof[Top.halo] /\ tree.fof[TopFof] = TopFof
  BY <1>1, TreeFacts DEF TopFof
<1>3. \A i \in DOMAIN stack : stack'[i].halo = stack[i].halo
  BY <1>1
<1>4. \A f \in Halos : f # TopFof => haloFlag'[f] = haloFlag[f]
  BY DEF TypeOK
<1>5. haloFlag' \in [Halos -> 0 .. 2] /\ \A f \in Halos : haloFlag'[f] = 2 <=> haloFlag[f] = 2
  BY <1>2 DEF TypeOK
<1>6. TypeOK'
  BY <1>1, <1>5 DEF TypeOK
<1>7. StackDescends'
  BY <1>1, <1>3 DEF StackDescends
<1>8. \A i \in DOMAIN stack : i # Len(stack) => tree.fof[stack[i].halo] # TopFof
  <2>1. \A i \in DOMAIN stack : i # Len(stack) =>
           tree.snap[stack[i].halo] # tree.snap[Top.halo]
    <3>1. \A h \in Halos : tree.snap[h] \in Nat
      BY TreeFacts
    <3> QED
      BY <1>1, <3>1 DEF StackDescends
  <2>2. \A h \in Halos : tree.snap[tree.fof[h]] = tree.snap[h]
    BY TreeFacts
  <2> QED
    BY <1>1, <1>2, <2>1, <2>2
<1>9. FramesOK'
  <2>1. ASSUME NEW i \in DOMAIN stack, i # Len(stack)
        PROVE  FrameOK(stack[i], tree, doneFlag, haloFlag')
    <3>1. FrameOK(stack[i], tree, doneFlag, haloFlag) /\ stack[i] \in Frame
      BY <1>1 DEF FramesOK
    <3>2. tree.fof[stack[i].halo] \in Halos /\ tree.fof[stack[i].halo] # TopFof
      BY <1>1, <1>8, <2>1, TreeFacts
    <3> QED
      BY <1>4, <3>1, <3>2, FrameMonotone
  <2> QED
    BY <1>1, <2>1 DEF FramesOK
<1>10. DoneMeansEvolved'
  BY <1>1, <1>3, <1>5, TreeFacts DEF DoneMeansEvolved
<1>11. ClaimsAreHeld'
  BY <1>1, <1>2, <1>3, <1>4 DEF ClaimsAreHeld
<1>12. EvolvedClosed' /\ WellFormed(tree)'
  <2>1. \A f \in Halos : \A g \in Needs(tree, f) : g \in Halos
    BY TreeFacts DEF Needs, Progenitors, MembersOf
  <2> QED
    BY <1>5, <2>1 DEF EvolvedClosed
<1>13. DriverOK'
  BY <1>2, <1>4 DEF DriverOK
<1> QED
  BY <1>6, <1>7, <1>9, <1>10, <1>11, <1>12, <1>13

\* A claim is taken when nobody has it, and only by a call that keeps it.
LEMMA ClaimGroupIInv == IInv /\ ClaimGroup => IInv'
<1> SUFFICES ASSUME IInv, ClaimGroup PROVE IInv'
  OBVIOUS
<1>1. stack \in Seq(Frame) /\ stack # <<>> /\ Top.pc = "own" /\ status = "running"
  BY DEF ClaimGroup, Running, IInv, TypeOK
<1>2. /\ Top \in Frame /\ Top.halo \in Halos /\ tree.fof[Top.halo] = TopFof
      /\ TopFof \in Halos
  BY <1>1, CallersFacts, TreeFacts DEF IInv
<1>3. FrameOK(Top, tree, doneFlag, haloFlag)
  BY <1>1, CallersFacts DEF IInv, FramesOK, Top
<1>4. UNCHANGED <<tree, halonr, doneFlag, status>>
  BY DEF ClaimGroup
<1>5. CASE haloFlag[TopFof] = 0 /\ haloFlag' = [haloFlag EXCEPT ![TopFof] = 1]
           /\ stack' = Resume(Moved("group", 1, 1))
  <2> DEFINE fr == Moved("group", 1, 1)
  <2>1. fr \in Frame /\ fr.halo = Top.halo /\ fr.pc = "group" /\ fr.member = 1 /\ fr.prog = 1
    BY <1>2, FrameMoves
  <2>2. haloFlag'[TopFof] = 1
    BY <1>2, <1>5 DEF IInv, TypeOK
  <2>3. 1 \in DOMAIN tree.members[TopFof]
    BY <1>2, TreeFacts DEF IInv
  <2>4. ASSUME NEW m \in DOMAIN tree.members[TopFof],
               NEW k \in DOMAIN tree.progs[tree.members[TopFof][m]]
        PROVE  ~ (m < 1 \/ (m = 1 /\ k < 1))
    <3>1. tree.members[TopFof] \in Seq(Halos) /\ tree.members[TopFof][m] \in Halos
      BY <1>2 DEF IInv, TypeOK, Tree
    <3>2. tree.progs[tree.members[TopFof][m]] \in Seq(Halos)
      BY <3>1, SMTT(30) DEF IInv, TypeOK, Tree
    <3> QED
      BY <3>1, <3>2
  <2>5. doneFlag[Top.halo] = 1
    BY <1>3, SMTT(30) DEF FrameOK
  <2> HIDE DEF fr
  <2>6. FrameOK(fr, tree, doneFlag, haloFlag')
    BY <1>2, <2>1, <2>2, <2>3, <2>4, <2>5 DEF FrameOK
  <2>7. stack' = Resume(fr)
    BY <1>5 DEF fr
  <2> QED
    BY <1>1, <1>4, <1>5, <2>1, <2>6, <2>7, MovePreserves
<1>6. CASE haloFlag[TopFof] # 0 /\ UNCHANGED haloFlag
           /\ stack' = Resume(Moved("evolve", 1, 1))
  <2> DEFINE fr == Moved("evolve", 1, 1)
  <2>1. fr \in Frame /\ fr.halo = Top.halo /\ fr.pc = "evolve"
    BY <1>2, FrameMoves
  <2>2. haloFlag[TopFof] # 1
    <3>1. SUFFICES ASSUME haloFlag[TopFof] = 1 PROVE FALSE
      OBVIOUS
    <3>2. PICK i \in DOMAIN stack : /\ tree.fof[stack[i].halo] = TopFof
                                    /\ stack[i].pc \in {"group", "evolve"}
      BY <1>2, <3>1 DEF IInv, ClaimsAreHeld
    <3>3. i # Len(stack) /\ Len(stack) \in DOMAIN stack /\ stack[i].halo \in Halos
          /\ DOMAIN stack = 1 .. Len(stack) /\ Len(stack) \in Nat
      BY <1>1, <3>2, CallersFacts DEF Top
    <3>4. i < Len(stack)
      BY <3>2, <3>3
    <3>5. tree.snap[Top.halo] < tree.snap[stack[i].halo]
      BY <3>3, <3>4 DEF IInv, StackDescends, Top
    <3>6. /\ tree.snap[stack[i].halo] = tree.snap[TopFof]
          /\ tree.snap[Top.halo] = tree.snap[TopFof]
          /\ tree.snap[TopFof] \in Nat
      BY <1>2, <3>2, <3>3, TreeFacts, SMTT(30) DEF IInv
    <3> QED
      BY <3>5, <3>6
  <2>3. haloFlag[TopFof] = 2
    BY <1>2, <1>6, <2>2 DEF IInv, TypeOK
  <2>4. doneFlag[Top.halo] = 1
    BY <1>3 DEF FrameOK
  <2> HIDE DEF fr
  <2>5. FrameOK(fr, tree, doneFlag, haloFlag')
    BY <1>2, <1>6, <2>1, <2>3, <2>4 DEF FrameOK
  <2>6. stack' = Resume(fr)
    BY <1>6 DEF fr
  <2> QED
    BY <1>1, <1>4, <1>6, <2>1, <2>5, <2>6, MovePreserves
<1> QED
  BY <1>5, <1>6 DEF ClaimGroup

\* The walk over the FoF chain ends with every progenitor of every member done.
LEMMA NextMemberIInv == IInv /\ NextMember => IInv'
<1> SUFFICES ASSUME IInv, NextMember PROVE IInv'
  OBVIOUS
<1>1. stack \in Seq(Frame) /\ stack # <<>> /\ Top.pc = "group" /\ status = "running"
  BY DEF NextMember, Running, IInv, TypeOK
<1>2. /\ Top \in Frame /\ Top.halo \in Halos /\ tree.fof[Top.halo] = TopFof
      /\ TopFof \in Halos /\ Top.prog \in Nat \ {0} /\ Top.member \in Nat \ {0}
  BY <1>1, CallersFacts, TreeFacts DEF IInv, Frame
<1>3. FrameOK(Top, tree, doneFlag, haloFlag)
  BY <1>1, CallersFacts DEF IInv, FramesOK, Top
<1>4. UNCHANGED <<tree, halonr, doneFlag, haloFlag, status>>
  BY DEF NextMember
<1>5. /\ doneFlag[Top.halo] = 1
      /\ haloFlag[TopFof] = 1
      /\ Top.member \in DOMAIN tree.members[TopFof]
  BY <1>1, <1>2, <1>3 DEF FrameOK
<1>6. /\ tree.members[TopFof] \in Seq(Halos)
      /\ \A m \in DOMAIN tree.members[TopFof] :
            /\ m \in Nat
            /\ tree.members[TopFof][m] \in Halos
            /\ tree.progs[tree.members[TopFof][m]] \in Seq(Halos)
  <2>1. tree.members[TopFof] \in Seq(Halos)
    BY <1>2 DEF IInv, TypeOK, Tree
  <2>2. \A m \in DOMAIN tree.members[TopFof] :
           m \in Nat /\ tree.members[TopFof][m] \in Halos
    BY <2>1
  <2>3. \A h \in Halos : tree.progs[h] \in Seq(Halos)
    BY DEF IInv, TypeOK, Tree
  <2> QED
    BY <2>1, <2>2, <2>3
\* The walk of this member is over: all progenitors up to it are done.
<1>7. ASSUME NEW m \in DOMAIN tree.members[TopFof], m <= Top.member,
             NEW k \in DOMAIN tree.progs[tree.members[TopFof][m]]
      PROVE  doneFlag[tree.progs[tree.members[TopFof][m]][k]] = 1
  <2>1. CASE m < Top.member
    BY <1>1, <1>2, <1>3, <2>1 DEF FrameOK
  <2>2. CASE m = Top.member
    <3>1. k <= Len(tree.progs[tree.members[TopFof][m]])
      BY <1>6
    <3>2. k < Top.prog
      <4>1. Top.prog > Len(tree.progs[tree.members[TopFof][m]])
        BY <2>2 DEF NextMember
      <4>2. k \in Nat /\ Len(tree.progs[tree.members[TopFof][m]]) \in Nat
        BY <1>6
      <4> QED
        BY <1>2, <3>1, <4>1, <4>2
    <3> QED
      BY <1>1, <1>2, <1>3, <2>2, <3>2 DEF FrameOK
  <2> QED
    BY <1>2, <1>6, <1>7, <2>1, <2>2
<1>8. CASE Top.member < Len(tree.members[TopFof])
           /\ stack' = Resume(Moved("group", Top.member + 1, 1))
  <2> DEFINE fr == Moved("group", Top.member + 1, 1)
  <2>1. /\ fr \in Frame /\ fr.halo = Top.halo /\ fr.pc = "group"
        /\ fr.member = Top.member + 1 /\ fr.prog = 1
    <3>1. Top.member + 1 \in Nat \ {0}
      BY <1>2
    <3> QED
      BY <1>2, <3>1, FrameMoves
  <2>2. Top.member + 1 \in DOMAIN tree.members[TopFof]
    BY <1>2, <1>6, <1>8
  <2>3. ASSUME NEW m \in DOMAIN tree.members[TopFof],
               NEW k \in DOMAIN tree.progs[tree.members[TopFof][m]],
               m < Top.member + 1 \/ (m = Top.member + 1 /\ k < 1)
        PROVE  doneFlag[tree.progs[tree.members[TopFof][m]][k]] = 1
    <3>1. ~ (k < 1)
      BY <1>6
    <3>2. m <= Top.member
      BY <1>2, <1>6, <2>3, <3>1
    <3> QED
      BY <1>7, <3>2
  <2> HIDE DEF fr
  <2>4. FrameOK(fr, tree, doneFlag, haloFlag')
    <3>1. tree.fof[fr.halo] = TopFof
      BY <1>2, <2>1
    <3> QED
      BY <1>4, <1>5, <2>1, <2>2, <2>3, <3>1 DEF FrameOK
  <2>5. stack' = Resume(fr)
    BY <1>8 DEF fr
  <2> QED
    BY <1>1, <1>4, <2>1, <2>4, <2>5, MovePreserves
<1>9. CASE Top.member = Len(tree.members[TopFof])
           /\ stack' = Resume(Moved("evolve", 1, 1))
  <2> DEFINE fr == Moved("evolve", 1, 1)
  <2>1. fr \in Frame /\ fr.halo = Top.halo /\ fr.pc = "evolve"
    BY <1>2, FrameMoves
  <2>2. \A m \in DOMAIN tree.members[TopFof] : m <= Top.member
    BY <1>6, <1>9
  <2> HIDE DEF fr
  <2>3. FrameOK(fr, tree, doneFlag, haloFlag')
    <3>1. tree.fof[fr.halo] = TopFof
      BY <1>2, <2>1
    <3> QED
      BY <1>4, <1>5, <1>7, <2>1, <2>2, <3>1 DEF FrameOK
  <2>4. stack' = Resume(fr)
    BY <1>9 DEF fr
  <2> QED
    BY <1>1, <1>4, <2>1, <2>3, <2>4, MovePreserves
<1> QED
  BY <1>8, <1>9 DEF NextMember

\* The heart of the argument: when a call is about to evolve its group, every
\* progenitor of every member is done and, being of an earlier snapshot than
\* any call in progress, is not itself still being built.
LEMMA ReadyToEvolve ==
    ASSUME IInv, stack # <<>>, Top.pc = "evolve", haloFlag[TopFof] = 1
    PROVE  \A g \in Needs(tree, TopFof) : haloFlag[g] = 2
<1>1. stack \in Seq(Frame)
  BY DEF IInv, TypeOK
<1>2. /\ Top.halo \in Halos /\ tree.fof[Top.halo] = TopFof /\ TopFof \in Halos
      /\ FrameOK(Top, tree, doneFlag, haloFlag)
  BY <1>1, CallersFacts, TreeFacts DEF IInv, FramesOK, Top
<1>3. SUFFICES ASSUME NEW m \in DOMAIN tree.members[TopFof],
                      NEW k \in DOMAIN tree.progs[tree.members[TopFof][m]]
               PROVE  haloFlag[tree.fof[tree.progs[tree.members[TopFof][m]][k]]] = 2
  BY SMTT(30) DEF Needs, MembersOf, Progenitors
<1> DEFINE h == tree.members[TopFof][m]
           p == tree.progs[h][k]
<1>4. h \in Halos /\ tree.snap[h] = tree.snap[Top.halo] /\ p \in Halos
  BY <1>2, TreeFacts DEF IInv
<1>5. doneFlag[p] = 1
  <2>1. \A mm \in DOMAIN tree.members[TopFof] :
           \A kk \in DOMAIN tree.progs[tree.members[TopFof][mm]] :
               doneFlag[tree.progs[tree.members[TopFof][mm]][kk]] = 1
    BY <1>2 DEF FrameOK
  <2> QED
    BY <2>1
<1>6. \A i \in DOMAIN stack : tree.snap[p] < tree.snap[stack[i].halo]
  BY <1>4, VisitedIsEarlier
<1>7. ~ \E i \in DOMAIN stack : stack[i].halo = p
  <2>1. tree.snap[p] \in Nat
    BY <1>4, TreeFacts DEF IInv
  <2> QED
    BY <1>6, <2>1
<1> QED
  BY <1>4, <1>5, <1>7 DEF IInv, DoneMeansEvolved

\* A call returns when its group is evolved, by itself or by an earlier call.
LEMMA PopPreserves ==
    ASSUME IInv, status = "running", stack # <<>>, stack' = Callers,
           UNCHANGED <<tree, halonr, doneFlag, status>>,
           \/ haloFlag' = haloFlag /\ haloFlag[TopFof] = 2
           \/ /\ haloFlag' = [haloFlag EXCEPT ![TopFof] = 2]
              /\ haloFlag[TopFof] = 1
              /\ \A g \in Needs(tree, TopFof) : haloFlag[g] = 2
    PROVE  IInv'
<1> USE DEF IInv
<1>1. /\ stack' \in Seq(Frame)
      /\ Top = stack[Len(stack)]
      /\ Len(stack) \in DOMAIN stack /\ Len(stack) \in Nat
      /\ DOMAIN stack = 1 .. Len(stack)
      /\ DOMAIN stack' = 1 .. (Len(stack) - 1)
      /\ \A i \in DOMAIN stack' : /\ i \in DOMAIN stack /\ i # Len(stack)
                                   /\ i < Len(stack) /\ stack'[i] = stack[i]
      /\ \A i \in DOMAIN stack : stack[i] \in Frame /\ stack[i].halo \in Halos
  BY CallersFacts, SMTT(30) DEF TypeOK, Top
<1>2. TopFof \in Halos /\ TopFof = tree.fof[Top.halo] /\ tree.fof[TopFof] = TopFof
  BY <1>1, TreeFacts DEF TopFof
<1>3. /\ haloFlag' \in [Halos -> 0 .. 2]
      /\ haloFlag'[TopFof] = 2
      /\ \A f \in Halos : f # TopFof => haloFlag'[f] = haloFlag[f]
  BY <1>2 DEF TypeOK
<1>4. TypeOK'
  BY <1>1, <1>3 DEF TypeOK
<1>5. StackDescends'
  BY <1>1 DEF StackDescends
<1>6. \A i \in DOMAIN stack' : tree.fof[stack[i].halo] # TopFof
  <2>1. \A i \in DOMAIN stack' : tree.snap[stack[i].halo] # tree.snap[Top.halo]
    <3>1. \A h \in Halos : tree.snap[h] \in Nat
      BY TreeFacts
    <3> QED
      BY <1>1, <3>1 DEF StackDescends
  <2>2. \A h \in Halos : tree.snap[tree.fof[h]] = tree.snap[h]
    BY TreeFacts
  <2> QED
    BY <1>1, <1>2, <2>1, <2>2
<1>7. FramesOK'
  <2>1. ASSUME NEW i \in DOMAIN stack'
        PROVE  FrameOK(stack[i], tree, doneFlag, haloFlag')
    <3>1. FrameOK(stack[i], tree, doneFlag, haloFlag) /\ stack[i] \in Frame
      BY <1>1 DEF FramesOK
    <3>2. tree.fof[stack[i].halo] \in Halos /\ tree.fof[stack[i].halo] # TopFof
      BY <1>1, <1>6, <2>1, TreeFacts
    <3> QED
      BY <1>3, <3>1, <3>2, FrameMonotone
  <2> QED
    BY <1>1, <2>1 DEF FramesOK
<1>8. DoneMeansEvolved'
  <2>1. SUFFICES ASSUME NEW h \in Halos, doneFlag[h] = 1
                 PROVE  \/ haloFlag'[tree.fof[h]] = 2
                        \/ \E i \in DOMAIN stack' : stack'[i].halo = h
    BY DEF DoneMeansEvolved
  <2>2. CASE haloFlag[tree.fof[h]] = 2
    BY <1>3, <2>2, TreeFacts
  <2>3. ASSUME NEW i \in DOMAIN stack, stack[i].halo = h
        PROVE  haloFlag'[tree.fof[h]] = 2 \/ \E j \in DOMAIN stack' : stack'[j].halo = h
    <3>1. CASE i = Len(stack)
      BY <1>1, <1>2, <1>3, <2>3, <3>1
    <3>2. CASE i # Len(stack)
      <4>1. i \in DOMAIN stack'
        BY <1>1, <3>2
      <4> QED
        BY <1>1, <2>3, <4>1
    <3> QED
      BY <3>1, <3>2
  <2> QED
    BY <2>1, <2>2, <2>3 DEF DoneMeansEvolved
<1>9. ClaimsAreHeld'
  <2>1. SUFFICES ASSUME NEW f \in Halos, haloFlag'[f] = 1
                 PROVE  \E i \in DOMAIN stack' : /\ tree.fof[stack'[i].halo] = f
                                                 /\ stack'[i].pc \in {"group", "evolve"}
    BY DEF ClaimsAreHeld
  <2>2. f # TopFof /\ haloFlag[f] = 1
    BY <1>3, <2>1
  <2>3. PICK i \in DOMAIN stack : /\ tree.fof[stack[i].halo] = f
                                  /\ stack[i].pc \in {"group", "evolve"}
    BY <2>2 DEF ClaimsAreHeld
  <2>4. i # Len(stack)
    BY <1>1, <1>2, <2>2, <2>3
  <2>5. i \in DOMAIN stack'
    BY <1>1, <2>4
  <2> QED
    BY <1>1, <2>3, <2>5
<1>10. EvolvedClosed' /\ WellFormed(tree)'
  <2>1. \A f \in Halos : \A g \in Needs(tree, f) : g \in Halos
    BY TreeFacts DEF Needs, Progenitors, MembersOf
  <2>2. \A f \in Halos : haloFlag[f] = 2 => haloFlag'[f] = 2
    BY <1>3
  <2>3. ASSUME NEW f \in Halos, haloFlag'[f] = 2, NEW g \in Needs(tree, f)
        PROVE  haloFlag'[g] = 2
    <3>1. haloFlag[g] = 2
      BY <1>3, <2>3 DEF EvolvedClosed
    <3> QED
      BY <2>1, <2>2, <3>1
  <2> QED
    BY <2>3 DEF EvolvedClosed
<1>11. DriverOK'
  BY <1>2, <1>3 DEF DriverOK
<1> QED
  BY <1>4, <1>5, <1>7, <1>8, <1>9, <1>10, <1>11

\* Evolving the claimed group and returning keeps the invariant.
LEMMA EvolveGroupIInv == IInv /\ EvolveGroup => IInv'
<1> SUFFICES ASSUME IInv, EvolveGroup PROVE IInv'
  OBVIOUS
<1>1. stack # <<>> /\ Top.pc = "evolve" /\ status = "running" /\ haloFlag[TopFof] = 1
  BY DEF EvolveGroup, Running
<1> QED
  BY <1>1, ReadyToEvolve, PopPreserves DEF EvolveGroup

\* Returning from a group another call has evolved keeps the invariant.
LEMMA ReturnIInv == IInv /\ Return => IInv'
<1> SUFFICES ASSUME IInv, Return PROVE IInv'
  OBVIOUS
<1>1. stack # <<>> /\ Top.pc = "evolve" /\ status = "running" /\ haloFlag[TopFof] # 1
  BY DEF Return, Running
<1>2. haloFlag[TopFof] = 2
  <2>1. FrameOK(Top, tree, doneFlag, haloFlag) /\ tree.fof[Top.halo] = TopFof
    BY <1>1, CallersFacts DEF IInv, TypeOK, FramesOK, Top
  <2> QED
    BY <1>1, <2>1 DEF FrameOK
<1> QED
  BY <1>1, <1>2, PopPreserves DEF Return

\* The end of the driver's loop keeps the invariant.
LEMMA DriverFinishIInv == IInv /\ DriverFinish => IInv'
<1> SUFFICES ASSUME IInv, DriverFinish PROVE IInv'
  OBVIOUS
<1> QED
  BY DEF DriverFinish, IInv, TypeOK, StackDescends, FramesOK, DoneMeansEvolved,
         ClaimsAreHeld, EvolvedClosed, DriverOK

-----------------------------------------------------------------------------

\* The flags and the call stack always agree on what has been built: IInv is
\* an invariant of the traversal of every tree.
THEOREM Invariance == Spec => []IInv
<1>1. Init => IInv
  BY InitIInv
<1>2. IInv /\ [Next]_vars => IInv'
  <2> SUFFICES ASSUME IInv, [Next]_vars PROVE IInv'
    OBVIOUS
  <2>1. CASE DriverStep
    BY <2>1, DriverStepIInv
  <2>2. CASE DriverFinish
    BY <2>2, DriverFinishIInv
  <2>3. CASE VisitOwn
    BY <2>3, VisitOwnIInv
  <2>4. CASE ClaimGroup
    BY <2>4, ClaimGroupIInv
  <2>5. CASE VisitGroup
    BY <2>5, VisitGroupIInv
  <2>6. CASE NextMember
    BY <2>6, NextMemberIInv
  <2>7. CASE EvolveGroup
    BY <2>7, EvolveGroupIInv
  <2>8. CASE Return
    BY <2>8, ReturnIInv
  <2>9. CASE UNCHANGED vars
    BY <2>9 DEF vars, IInv, TypeOK, StackDescends, FramesOK, DoneMeansEvolved,
                ClaimsAreHeld, EvolvedClosed, DriverOK
  <2> QED
    BY <2>1, <2>2, <2>3, <2>4, <2>5, <2>6, <2>7, <2>8, <2>9 DEF Next
<1> QED
  BY <1>1, <1>2, PTL DEF Spec

\* The variables of the traversal keep their types.
THEOREM TypeCorrect == Spec => []TypeOK
<1>1. IInv => TypeOK
  BY DEF IInv
<1> QED
  BY <1>1, Invariance, PTL

\* No walk ever skips a progenitor whose galaxies are not there yet: a done
\* halo is either still being built by an active call or fully evolved.
THEOREM DoneIsTrusted == Spec => [](DoneMeansEvolved /\ ClaimsAreHeld)
<1>1. IInv => DoneMeansEvolved /\ ClaimsAreHeld
  BY DEF IInv
<1> QED
  BY <1>1, Invariance, PTL

\* When the loop over the unit ends, every FoF group of it was evolved.
THEOREM NothingLeftBehind == Spec => []AllEvolved
<1>1. IInv => AllEvolved
  <2> SUFFICES ASSUME IInv, status = "finished", NEW h \in Halos
               PROVE  doneFlag[h] = 1 /\ haloFlag[tree.fof[h]] = 2
    BY DEF AllEvolved
  <2>1. stack = <<>> /\ halonr = NumHalos
    BY DEF IInv, DriverOK
  <2>2. h < halonr
    BY <2>1, NumHalosAssumption DEF Halos
  <2>3. doneFlag[h] = 1
    BY <2>2 DEF IInv, DriverOK
  <2> QED
    BY <2>1, <2>3 DEF IInv, DoneMeansEvolved
<1> QED
  BY <1>1, Invariance, PTL

\* The only step that makes a HaloFlag 2 is EvolveGroup, for the group on top.
LEMMA WhoEvolves ==
    ASSUME IInv, [Next]_vars, NEW f \in Halos, haloFlag[f] # 2, haloFlag'[f] = 2
    PROVE  EvolveGroup /\ f = TopFof
<1>1. haloFlag \in [Halos -> 0 .. 2]
  BY DEF IInv, TypeOK
<1>2. CASE DriverStep \/ DriverFinish \/ VisitOwn \/ VisitGroup \/ NextMember
             \/ Return \/ UNCHANGED vars
  <2>1. haloFlag' = haloFlag
    BY <1>2 DEF DriverStep, DriverFinish, VisitOwn, VisitGroup, NextMember, Return, vars
  <2> QED
    BY <2>1
<1>3. CASE ClaimGroup
  BY <1>1, <1>3 DEF ClaimGroup
<1>4. CASE EvolveGroup
  BY <1>1, <1>4 DEF EvolveGroup
<1> QED
  BY <1>2, <1>3, <1>4 DEF Next

\* A FoF group is evolved only when the groups of all progenitors of all its
\* members are.
THEOREM EvolvesInOrderHolds == Spec => EvolvesInOrder
<1>1. IInv /\ [Next]_vars =>
         \A f \in Halos :
            haloFlag[f] # 2 /\ haloFlag'[f] = 2 =>
                \A g \in Needs(tree, f) : haloFlag[g] = 2
  <2> SUFFICES ASSUME IInv, [Next]_vars, NEW f \in Halos,
                      haloFlag[f] # 2, haloFlag'[f] = 2
               PROVE  \A g \in Needs(tree, f) : haloFlag[g] = 2
    OBVIOUS
  <2>1. EvolveGroup /\ f = TopFof
    BY WhoEvolves
  <2> QED
    BY <2>1, ReadyToEvolve DEF EvolveGroup, Running
<1> QED
  BY <1>1, Invariance, PTL DEF Spec, EvolvesInOrder

-----------------------------------------------------------------------------
(* When the traversal gives up. *)

\* Where the traversal gives up: too many calls in progress, and one that is
\* about to recurse into a still earlier snapshot.
GaveUp ==
    status = "fatal" =>
        /\ stack # <<>> /\ Len(stack) >= MaxTreeDepth + 1
        /\ \E p \in Halos : \A i \in DOMAIN stack :
              tree.snap[p] < tree.snap[stack[i].halo]

\* A visit that gives up does so in a call that is deep enough.
LEMMA VisitGivesUp ==
    ASSUME IInv, stack # <<>>, status = "running",
           NEW p \in Halos, NEW fr \in Frame, Visit(p, Resume(fr)),
           UNCHANGED tree,
           \A i \in DOMAIN stack : tree.snap[p] < tree.snap[stack[i].halo]
    PROVE  GaveUp'
<1> SUFFICES ASSUME status' = "fatal"
             PROVE  /\ stack' = stack /\ Len(stack) >= MaxTreeDepth + 1
  BY DEF GaveUp
<1>1. stack \in Seq(Frame)
  BY DEF IInv, TypeOK
<1>2. Len(Resume(fr)) = Len(stack) /\ Len(stack) \in Nat
  BY <1>1, ResumeFacts, CallersFacts
<1>3. Len(Resume(fr)) > MaxTreeDepth /\ stack' = stack
  BY DEF Visit, Enter
<1> QED
  BY <1>2, <1>3, DepthAssumption

\* Giving up on a progenitor of the halo itself means that the tree is too deep.
LEMMA VisitOwnGivesUp == IInv /\ VisitOwn => GaveUp'
<1> SUFFICES ASSUME IInv, VisitOwn PROVE GaveUp'
  OBVIOUS
<1> DEFINE fr == Moved("own", Top.member, Top.prog + 1)
           p == tree.progs[Top.halo][Top.prog]
<1>1. stack \in Seq(Frame) /\ stack # <<>> /\ status = "running" /\ tree' = tree
  BY DEF VisitOwn, Running, IInv, TypeOK
<1>2. /\ Top \in Frame /\ Top.halo \in Halos
      /\ Top.prog \in Nat \ {0} /\ Top.member \in Nat \ {0}
  BY <1>1, CallersFacts DEF Frame
<1>3. fr \in Frame
  BY <1>2, FrameMoves
<1>4. Top.prog \in DOMAIN tree.progs[Top.halo] /\ p \in Halos
  <2>1. tree.progs[Top.halo] \in Seq(Halos)
    BY <1>2 DEF IInv, TypeOK, Tree
  <2>2. Top.prog <= Len(tree.progs[Top.halo])
    BY DEF VisitOwn
  <2> QED
    BY <1>2, <2>1, <2>2
<1>5. \A i \in DOMAIN stack : tree.snap[p] < tree.snap[stack[i].halo]
  BY <1>1, <1>2, <1>4, VisitedIsEarlier
<1>6. Visit(p, Resume(fr))
  BY DEF VisitOwn
<1> HIDE DEF fr, p
<1> QED
  BY <1>1, <1>3, <1>4, <1>5, <1>6, VisitGivesUp

\* Giving up on a progenitor of another member means the same.
LEMMA VisitGroupGivesUp == IInv /\ VisitGroup => GaveUp'
<1> SUFFICES ASSUME IInv, VisitGroup PROVE GaveUp'
  OBVIOUS
<1> DEFINE fr == Moved("group", Top.member, Top.prog + 1)
           member == tree.members[TopFof][Top.member]
           p == tree.progs[member][Top.prog]
<1>1. stack \in Seq(Frame) /\ stack # <<>> /\ Top.pc = "group" /\ status = "running" /\ tree' = tree
  BY DEF VisitGroup, Running, IInv, TypeOK
<1>2. /\ Top \in Frame /\ Top.halo \in Halos /\ tree.fof[Top.halo] = TopFof
      /\ Top.prog \in Nat \ {0} /\ Top.member \in Nat \ {0}
  BY <1>1, CallersFacts DEF Frame
<1>3. fr \in Frame
  BY <1>2, FrameMoves
<1>4. FrameOK(Top, tree, doneFlag, haloFlag)
  BY <1>1, CallersFacts DEF IInv, FramesOK, Top
<1>5. Top.member \in DOMAIN tree.members[TopFof]
  BY <1>1, <1>2, <1>4 DEF FrameOK
<1>6. member \in Halos /\ tree.snap[member] = tree.snap[Top.halo]
  BY <1>2, <1>5, TreeFacts DEF IInv
<1>7. Top.prog \in DOMAIN tree.progs[member] /\ p \in Halos
  <2>1. tree.progs[member] \in Seq(Halos)
    BY <1>6 DEF IInv, TypeOK, Tree
  <2>2. Top.prog <= Len(tree.progs[member])
    BY DEF VisitGroup
  <2> QED
    BY <1>2, <2>1, <2>2
<1>8. \A i \in DOMAIN stack : tree.snap[p] < tree.snap[stack[i].halo]
  BY <1>1, <1>6, <1>7, VisitedIsEarlier
<1>9. Visit(p, Resume(fr))
  BY DEF VisitGroup
<1> HIDE DEF fr, p, member
<1> QED
  BY <1>1, <1>3, <1>7, <1>8, <1>9, VisitGivesUp

\* Who gives up has as many snapshots as calls, and one more: the snapshots
\* of the calls in progress differ, and the progenitor it was about to visit is
\* earlier than them all.
LEMMA DeepMeansManySnapshots == IInv /\ GaveUp => FatalOnlyIfDeep
<1> SUFFICES ASSUME IInv, GaveUp, status = "fatal"
             PROVE  Cardinality({tree.snap[h] : h \in Halos}) >= MaxTreeDepth + 2
  BY DEF FatalOnlyIfDeep
<1> DEFINE Snaps == {tree.snap[h] : h \in Halos}
           n == Len(stack)
<1>1. stack \in Seq(Frame) /\ stack # <<>> /\ n >= MaxTreeDepth + 1
  BY DEF GaveUp, IInv, TypeOK
<1>2. PICK p \in Halos : \A i \in DOMAIN stack : tree.snap[p] < tree.snap[stack[i].halo]
  BY DEF GaveUp
<1>3. /\ n \in Nat /\ DOMAIN stack = 1 .. n
      /\ \A i \in 1 .. n : stack[i].halo \in Halos
  BY <1>1, CallersFacts
<1>4. \A h \in Halos : tree.snap[h] \in Nat
  BY TreeFacts DEF IInv
<1> DEFINE f == [i \in 1 .. n + 1 |-> IF i = n + 1 THEN tree.snap[p] ELSE tree.snap[stack[i].halo]]
<1>5. f \in [1 .. n + 1 -> Snaps]
  BY <1>2, <1>3
<1>6. \A i, j \in 1 .. n + 1 : i < j => f[j] < f[i]
  <2> SUFFICES ASSUME NEW i \in 1 .. n + 1, NEW j \in 1 .. n + 1, i < j
               PROVE  f[j] < f[i]
    OBVIOUS
  <2>1. i \in 1 .. n
    BY <1>3
  <2>2. CASE j = n + 1
    BY <1>2, <1>3, <2>1, <2>2
  <2>3. CASE j # n + 1
    <3>1. j \in 1 .. n
      BY <1>3, <2>3
    <3> QED
      BY <1>3, <2>1, <3>1 DEF IInv, StackDescends
  <2> QED
    BY <2>2, <2>3
<1>7. f \in Injection(1 .. n + 1, Snaps)
  <2>1. \A i \in 1 .. n + 1 : f[i] \in Nat
    BY <1>2, <1>3, <1>4
  <2>2. ASSUME NEW i \in 1 .. n + 1, NEW j \in 1 .. n + 1, f[i] = f[j]
        PROVE  i = j
    <3> HIDE DEF f
    <3>1. i < j \/ j < i \/ i = j
      BY <1>3
    <3> QED
      BY <1>6, <2>1, <2>2, <3>1
  <2> HIDE DEF f
  <2> QED
    BY <1>5, <2>2 DEF Injection, IsInjective
<1>8. IsFiniteSet(Snaps)
  <2>1. IsFiniteSet(Halos)
    BY FS_Interval, NumHalosAssumption DEF Halos
  <2> DEFINE r == [h \in Halos |-> tree.snap[h]]
  <2>2. r \in Surjection(Halos, Snaps)
    BY DEF Surjection
  <2> QED
    BY <2>1, <2>2, FS_Surjection
<1>9. Cardinality(1 .. n + 1) = n + 1
  BY <1>3, FS_Interval
<1>10. Cardinality(1 .. n + 1) <= Cardinality(Snaps)
  <2> HIDE DEF f, Snaps
  <2> QED
    BY <1>7, <1>8, FS_Injection
<1>11. Cardinality(Snaps) \in Nat
  BY <1>8, FS_CardinalityType
<1> HIDE DEF Snaps, n
<1>12. Cardinality(Snaps) >= MaxTreeDepth + 2
  BY ONLY <1>1, <1>3, <1>9, <1>10, <1>11, DepthAssumption
<1> QED
  BY <1>12 DEF Snaps

\* The depth check ends a run only when the unit spans MaxTreeDepth + 2 snapshots
\* or more, however wide or entangled it is: the walks that alternate between the
\* progenitors of a halo and those of its group never go deeper than the tree.
THEOREM GivesUpOnDeepTrees == Spec => []FatalOnlyIfDeep
<1>1. Init => GaveUp
  BY DEF Init, GaveUp
<1>2. IInv /\ GaveUp /\ [Next]_vars => GaveUp'
  <2> SUFFICES ASSUME IInv, GaveUp, [Next]_vars PROVE GaveUp'
    OBVIOUS
  <2>1. CASE DriverStep
    <3>1. Len(<<>>) = 0
      OBVIOUS
    <3>2. status' # "fatal"
      BY <2>1, <3>1, DepthAssumption DEF DriverStep, Visit, Enter
    <3> QED
      BY <3>2 DEF GaveUp
  <2>2. CASE DriverFinish \/ ClaimGroup \/ NextMember \/ EvolveGroup \/ Return
    <3>1. status' # "fatal"
      BY <2>2 DEF DriverFinish, ClaimGroup, NextMember, EvolveGroup, Return, Running
    <3> QED
      BY <3>1 DEF GaveUp
  <2>3. CASE UNCHANGED vars
    BY <2>3 DEF GaveUp, vars
  <2> QED
    BY <2>1, <2>2, <2>3, VisitOwnGivesUp, VisitGroupGivesUp DEF Next
<1> QED
  BY <1>1, <1>2, Invariance, DeepMeansManySnapshots, PTL DEF Spec

-----------------------------------------------------------------------------
(* The refinement. *)

\* The definitions the schedule takes from the merger tree are the same ones.
LEMMA SameTree ==
    /\ Schedule!WellFormed(tree) <=> WellFormed(tree)
    /\ Schedule!Fofs(tree) = Fofs(tree)
    /\ \A f : Schedule!Needs(tree, f) = Needs(tree, f)
BY DEF Schedule!WellFormed, Schedule!Tree, Schedule!LinksGoBack, Schedule!GroupsEnd, GroupsEnd,
       Schedule!GroupsAreChains, Schedule!OneDescendant, Schedule!Halos,
       Schedule!MembersOf, Schedule!Progenitors, Schedule!Fofs, Schedule!Needs,
       WellFormed, Tree, LinksGoBack, GroupsAreChains, OneDescendant, Halos,
       MembersOf, Progenitors, Fofs, Needs

\* The recursion implements the schedule: whatever order it takes, every FoF
\* group is evolved once, after the groups it inherits from, and the unit is
\* finished only when all are.
THEOREM ImplementsSchedule == Spec => ScheduleSpec
<1> DEFINE E == {f \in Halos : haloFlag[f] = 2}
<1>1. Init => Schedule!Init
  <2> SUFFICES ASSUME Init PROVE Schedule!Init
    OBVIOUS
  <2>1. WellFormed(tree)
    BY TreesAssumption DEF Init
  <2>2. E = {}
    BY DEF Init
  <2> QED
    BY <2>1, <2>2, SameTree DEF Init, Schedule!Init
<1>2. IInv /\ IInv' /\ [Next]_vars => [Schedule!Next]_(Schedule!vars)
  <2> SUFFICES ASSUME IInv, IInv', [Next]_vars
               PROVE  [Schedule!Next]_(Schedule!vars)
    OBVIOUS
  <2>1. haloFlag \in [Halos -> 0 .. 2] /\ tree' = tree
    BY DEF IInv, TypeOK, Next, vars, DriverStep, DriverFinish, VisitOwn, ClaimGroup,
           VisitGroup, NextMember, EvolveGroup, Return
  <2>2. CASE EvolveGroup
    <3>1. /\ stack # <<>> /\ Top.pc = "evolve" /\ haloFlag[TopFof] = 1
          /\ status = "running" /\ status' = status
          /\ haloFlag' = [haloFlag EXCEPT ![TopFof] = 2]
      BY <2>2 DEF EvolveGroup, Running
    <3>2. Top.halo \in Halos /\ TopFof = tree.fof[Top.halo] /\ TopFof \in Halos
      BY <3>1, CallersFacts, TreeFacts DEF IInv, TypeOK
    <3>3. TopFof \in Fofs(tree) /\ TopFof \notin E
      BY <3>1, <3>2 DEF Fofs
    <3>4. Needs(tree, TopFof) \subseteq E
      <4>1. \A g \in Needs(tree, TopFof) : g \in Halos
        BY <3>2, TreeFacts DEF IInv, Needs, Progenitors, MembersOf
      <4> QED
        BY <3>1, <4>1, ReadyToEvolve
    <3>5. {f \in Halos : haloFlag'[f] = 2} = E \cup {TopFof}
      BY <2>1, <3>1, <3>2
    <3>6. PICK f \in Halos : f = TopFof
      BY <3>2
    <3>7. Schedule!Evolve(f)
      BY <2>1, <3>1, <3>3, <3>4, <3>5, <3>6, SameTree DEF Schedule!Evolve
    <3>8. f \in Schedule!Fofs(tree)
      BY <3>3, <3>6, SameTree
    <3> QED
      BY <3>7, <3>8 DEF Schedule!Next
  <2>3. CASE DriverFinish
    <3>1. /\ status = "running" /\ status' = "finished" /\ haloFlag' = haloFlag
          /\ stack = <<>> /\ halonr = NumHalos
      BY <2>3 DEF DriverFinish
    <3>2. \A h \in Halos : haloFlag[tree.fof[h]] = 2 /\ tree.fof[h] \in Halos
      <4>1. \A h \in Halos : h < halonr
        BY <3>1, NumHalosAssumption DEF Halos
      <4> QED
        BY <3>1, <4>1, TreeFacts DEF IInv, DriverOK, DoneMeansEvolved
    <3>3. \A f \in E : f \in Fofs(tree)
      BY DEF IInv, DriverOK, Fofs
    <3>4. E = Fofs(tree)
      BY <3>2, <3>3 DEF Fofs
    <3> QED
      BY <2>1, <3>1, <3>4, SameTree DEF Schedule!Next, Schedule!Finish
  <2>4. CASE DriverStep \/ VisitOwn \/ VisitGroup
    <3>1. haloFlag' = haloFlag /\ status = "running"
      BY <2>4, SMTT(30) DEF DriverStep, VisitOwn, VisitGroup, Running
    <3>2. status' = status \/ status' = "fatal"
      BY <2>4 DEF DriverStep, VisitOwn, VisitGroup, Visit, Enter
    <3>3. {f \in Halos : haloFlag'[f] = 2} = E
      BY <3>1
    <3>4. CASE status' = "fatal"
      <4>1. Schedule!GiveUp
        BY <2>1, <3>1, <3>3, <3>4 DEF Schedule!GiveUp
      <4> QED
        BY <4>1 DEF Schedule!Next
    <3>5. CASE status' = status
      BY <2>1, <3>3, <3>5 DEF Schedule!vars
    <3> QED
      BY <3>2, <3>4, <3>5
  <2>5. CASE ClaimGroup \/ NextMember \/ Return \/ UNCHANGED vars
    <3>1. status' = status
      BY <2>5 DEF ClaimGroup, NextMember, Return, vars
    <3>2. \A f \in Halos : haloFlag'[f] = 2 <=> haloFlag[f] = 2
      BY <2>1, <2>5 DEF ClaimGroup, NextMember, Return, vars
    <3>3. {f \in Halos : haloFlag'[f] = 2} = E
      BY <3>2
    <3> QED
      BY <2>1, <3>1, <3>3 DEF Schedule!vars
  <2> QED
    BY <2>2, <2>3, <2>4, <2>5 DEF Next
<1> QED
  BY <1>1, <1>2, Invariance, PTL DEF Spec, ScheduleSpec, Schedule!Spec

=============================================================================
