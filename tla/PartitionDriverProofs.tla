----------------------- MODULE PartitionDriverProofs ------------------------
(***************************************************************************)
(* Proofs about the output files of a run, for every number of ranks and   *)
(* partitions, every set of inputs that exist, and any number of runs into *)
(* one directory that fail or succeed.                                     *)
(***************************************************************************)
EXTENDS PartitionDriver, NumberFacts

\* What a rank holds: paths are recorded for all of a partition's files, from
\* the claim until it is closed or cleaned up; without them nothing is undone.
Holdings ==
    \A r \in Ranks :
        /\ paths[r] \in {{}, wanted}
        /\ paths[r] # {} => pc[r] \in {"claim", "process", "exit"} /\ exitfail[r]
        /\ pc[r] \in {"claim", "process"} => paths[r] = wanted
        /\ pc[r] \in {"claim", "process"} \/ paths[r] # {} => next[r] \in Present
        /\ pc[r] \in {"loop", "claim", "process", "barrier"} => exitfail[r]

\* Rank r takes every NTask-th partition, beginning with r.
Turn(r, p) == \E k \in 0 .. p : p = r + k * NTask

InTurn == \A r \in Ranks : Turn(r, next[r])

\* A partial file belongs to the partition some rank has in progress.
PartialIsHeld ==
    \A p \in Partitions, n \in OutputFiles :
        file[p][n] = "partial" => \E r \in Ranks : next[r] = p /\ n \in paths[r]

\* The files of the partition in progress that are already finalized.
FinalizedSoFar ==
    \A r \in Ranks : pc[r] = "process" =>
        \A n \in wanted \ todo[r] : file[next[r]][n] = "complete"

\* Behind a rank everything is complete, and nobody is past the barrier while
\* a rank still has something ahead.
Behind ==
    \A r \in Ranks : \A p \in Present :
        Turn(r, p) /\ p < next[r] => AllOf(p, "complete")

PastTheBarrier(r) == pc[r] = "output" \/ (pc[r] = "exit" /\ ~exitfail[r])

NobodyAhead ==
    \A r \in Ranks :
        /\ pc[r] \in {"barrier", "output"} => next[r] >= NPartitions
        /\ PastTheBarrier(r) => \A q \in Ranks : next[q] >= NPartitions

\* The invariant of every run whose job is not killed from outside.
BarrierInv ==
    /\ TypeOK
    /\ Holdings
    /\ InTurn
    /\ PartialIsHeld
    /\ FinalizedSoFar
    /\ Behind
    /\ NobodyAhead

\* Under --skip a partition in progress had no output when the run began.
ClaimsAreNew ==
    skip => \A r \in Ranks : paths[r] # {} =>
                \A n \in OutputFiles : <<next[r], n>> \notin earlier

\* The invariant when, besides, every run asks for the same files.
WholeInv ==
    /\ BarrierInv
    /\ wanted = OutputFiles
    /\ WholePartitions
    /\ ClaimsAreNew
    /\ SkipKeepsComplete

-----------------------------------------------------------------------------

\* Ranks and partitions are counted.
LEMMA Sizes == NTask \in Nat \ {0} /\ NPartitions \in Nat /\ Ranks \subseteq Nat
BY SizesAssumption DEF Ranks

\* A turn is its rank and a number of rounds; the bound on the rounds is no bound.
LEMMA TurnIntro ==
    ASSUME NEW r \in Ranks, NEW k \in Nat
    PROVE  r + k * NTask \in Nat /\ Turn(r, r + k * NTask)
<1>1. NTask * k >= k /\ NTask * k \in Nat
  BY Sizes, MultipleAtLeast
<1>2. NTask * k = k * NTask
  BY Sizes
<1>3. k \in 0 .. r + k * NTask /\ r + k * NTask \in Nat
  BY <1>1, <1>2, Sizes
<1> QED
  BY <1>3 DEF Turn

\* A partition is the turn of one rank only.
LEMMA TurnUnique ==
    ASSUME NEW q \in Ranks, NEW r \in Ranks, NEW p \in Nat, Turn(q, p), Turn(r, p)
    PROVE  q = r
<1>1. PICK j \in 0 .. p : p = q + j * NTask
  BY DEF Turn
<1>2. PICK k \in 0 .. p : p = r + k * NTask
  BY DEF Turn
<1>3. q \in 0 .. NTask - 1 /\ r \in 0 .. NTask - 1 /\ j \in Nat /\ k \in Nat
  BY DEF Ranks
<1>4. q + j * NTask = r + k * NTask
  BY <1>1, <1>2
<1> QED
  BY <1>3, <1>4, Sizes, SameRemainder

\* The next turn of a rank is NTask further on.
LEMMA TurnNext ==
    ASSUME NEW r \in Ranks, NEW p \in Nat, Turn(r, p)
    PROVE  Turn(r, p + NTask)
<1>1. PICK k \in 0 .. p : p = r + k * NTask
  BY DEF Turn
<1>2. (k + 1) * NTask = k * NTask + NTask
  BY Sizes
<1>3. r + (k + 1) * NTask = p + NTask
  BY <1>1, <1>2, Sizes
<1>4. Turn(r, r + (k + 1) * NTask)
  BY TurnIntro
<1> QED
  BY <1>3, <1>4

\* A rank's first turn is its own number.
LEMMA TurnAtLeast ==
    ASSUME NEW r \in Ranks, NEW p \in Nat, Turn(r, p)
    PROVE  r <= p
<1>1. PICK k \in 0 .. p : p = r + k * NTask
  BY DEF Turn
<1>2. k * NTask >= 0 /\ k * NTask \in Nat
  BY Sizes
<1> QED
  BY <1>1, <1>2, Sizes

\* That number is a turn of the rank.
LEMMA TurnFirst ==
    ASSUME NEW r \in Ranks
    PROVE  Turn(r, r)
<1>1. r + 0 * NTask = r
  BY Sizes
<1> QED
  BY <1>1, TurnIntro

\* There is no turn of a rank between two that follow each other.
LEMMA TurnGap ==
    ASSUME NEW r \in Ranks, NEW a \in Nat, NEW p \in Nat, Turn(r, a), Turn(r, p),
           a <= p, p < a + NTask
    PROVE  p = a
<1>1. PICK j \in 0 .. a : a = r + j * NTask
  BY DEF Turn
<1>2. PICK k \in 0 .. p : p = r + k * NTask
  BY DEF Turn
<1>3. j * NTask \in Int /\ k * NTask \in Int /\ (k - j) * NTask = k * NTask - j * NTask
  BY Sizes
<1>4. CASE k > j
  <2>1. (k - j) * NTask >= NTask
    BY <1>4, Sizes, MultipleAtLeast
  <2> QED
    BY <1>1, <1>2, <1>3, <2>1, Sizes
<1>5. CASE k < j
  <2>1. (j - k) * NTask >= NTask /\ (j - k) * NTask = j * NTask - k * NTask
    BY <1>5, Sizes, MultipleAtLeast
  <2> QED
    BY <1>1, <1>2, <1>3, <2>1, Sizes
<1>6. CASE k = j
  BY <1>1, <1>2, <1>6
<1> QED
  BY <1>4, <1>5, <1>6

\* Every partition is some rank's turn.
LEMMA SomebodysTurn ==
    ASSUME NEW p \in Nat
    PROVE  \E r \in Ranks : Turn(r, p)
<1>1. PICK r \in Ranks, k \in Nat : p = r + k * NTask
  BY SizesAssumption, QuotientAndRemainder DEF Ranks
<1> QED
  BY <1>1, TurnIntro

\* The next file to claim or to finalize is one of those that are left.
LEMMA NextFile ==
    ASSUME NEW S, S \subseteq OutputFiles, S # {}
    PROVE  Min(S) \in S
<1>1. S \in SUBSET Nat
  BY FilesAssumption
<1>2. \E x \in S : \A y \in S : x <= y
  BY <1>1, LeastElement
<1> QED
  BY <1>2 DEF Min

-----------------------------------------------------------------------------

\* The invariant holds before the first run.
LEMMA BarrierInit == Init => BarrierInv
<1> SUFFICES ASSUME Init PROVE BarrierInv
  OBVIOUS
<1> USE Sizes DEF Init
<1>1. TypeOK
  <2>1. next \in [Ranks -> 0 .. NPartitions + NTask - 1]
    BY DEF Ranks
  <2>2. run \in 0 .. MaxRuns
    BY SizesAssumption
  <2> QED
    BY <2>1, <2>2 DEF TypeOK
<1>2. Holdings
  BY DEF Holdings
<1>3. InTurn
  BY TurnFirst DEF InTurn
<1>4. PartialIsHeld
  BY DEF PartialIsHeld
<1>5. FinalizedSoFar
  BY DEF FinalizedSoFar
<1>6. Behind
  BY TurnAtLeast, PresentAssumption DEF Behind, Partitions
<1>7. NobodyAhead
  BY DEF NobodyAhead, PastTheBarrier
<1> QED
  BY <1>1, <1>2, <1>3, <1>4, <1>5, <1>6, <1>7 DEF BarrierInv

\* A rank at work on a partition is the only one.
LEMMA Exclusive ==
    ASSUME TypeOK, InTurn, NEW q \in Ranks, NEW r \in Ranks, next[q] = next[r]
    PROVE  q = r
<1>1. next[r] \in Nat
  BY Sizes DEF TypeOK
<1> QED
  BY <1>1, TurnUnique DEF InTurn

\* What is behind the ranks stays complete while one of them works on its own
\* partition.
LEMMA BehindKept ==
    ASSUME BarrierInv, NEW r \in Ranks, next' = next, wanted' = wanted,
           \A p \in Partitions \ {next[r]} : file'[p] = file[p]
    PROVE  Behind'
<1> SUFFICES ASSUME NEW q \in Ranks, NEW p \in Present, Turn(q, p), p < next[q]
             PROVE  AllOf(p, "complete")'
  BY DEF Behind, Turn
<1>1. p \in Partitions /\ p \in Nat
  BY Sizes, PresentAssumption DEF Partitions
<1>2. AllOf(p, "complete")
  BY DEF BarrierInv, Behind
<1>3. p # next[r]
  <2> SUFFICES ASSUME p = next[r] PROVE FALSE
    OBVIOUS
  <2>1. q = r
    BY <1>1, TurnUnique DEF BarrierInv, InTurn
  <2> QED
    BY <1>1, <2>1
<1> QED
  BY <1>1, <1>2, <1>3 DEF AllOf

\* A rank leaves nothing incomplete behind when it goes on.
LEMMA BehindAdvances ==
    ASSUME BarrierInv, NEW r \in Ranks, next' = [next EXCEPT ![r] = @ + NTask],
           wanted' = wanted, file' = file,
           next[r] \in Present => AllOf(next[r], "complete")
    PROVE  Behind'
<1> SUFFICES ASSUME NEW q \in Ranks, NEW p \in Present, Turn(q, p), p < next'[q]
             PROVE  AllOf(p, "complete")
  BY DEF Behind, Turn, AllOf
<1>1. p \in Nat /\ next \in [Ranks -> Nat]
  BY Sizes, PresentAssumption DEF Partitions, BarrierInv, TypeOK
<1>2. CASE p < next[q]
  BY <1>2 DEF BarrierInv, Behind
<1>3. CASE p >= next[q]
  <2>1. q = r /\ p < next[r] + NTask
    BY <1>1, <1>3, Sizes
  <2>2. p = next[r]
    BY <1>1, <1>3, <2>1, TurnGap DEF BarrierInv, InTurn
  <2> QED
    BY <2>2
<1> QED
  BY <1>1, <1>2, <1>3

\* Nothing of what a rank between two partitions looks at is partial.
LEMMA NothingPartialAhead ==
    ASSUME BarrierInv, NEW r \in Ranks, pc[r] = "loop", next[r] \in Present,
           NEW n \in OutputFiles
    PROVE  file[next[r]][n] # "partial"
<1>1. next[r] \in Partitions /\ paths[r] = {}
  BY PresentAssumption DEF BarrierInv, Holdings
<1>2. ASSUME NEW q \in Ranks, next[q] = next[r], n \in paths[q] PROVE FALSE
  BY <1>1, <1>2, Exclusive DEF BarrierInv
<1> QED
  BY <1>1, <1>2 DEF BarrierInv, PartialIsHeld

\* Every step keeps it, if the job is not killed from outside.
LEMMA BarrierStep ==
    ASSUME ~JobMayBeKilled, BarrierInv, [Next]_vars
    PROVE  BarrierInv'
<1> USE Sizes, PresentAssumption DEF BarrierInv, Goto, NextPartition, AtPartition
<1>1. ASSUME NEW r \in Ranks, NoInput(r) PROVE BarrierInv'
  <2> USE <1>1 DEF NoInput
  <2>1. TypeOK'
    BY DEF TypeOK, Holdings, Partitions
  <2>2. Holdings'
    BY DEF TypeOK, Holdings
  <2>3. InTurn'
    BY TurnNext, TurnFirst DEF TypeOK, InTurn
  <2>4. PartialIsHeld'
    BY DEF TypeOK, PartialIsHeld, Holdings
  <2>5. FinalizedSoFar'
    BY DEF TypeOK, FinalizedSoFar, Holdings
  <2>6. Behind'
    BY BehindAdvances DEF AllOf
  <2>7. NobodyAhead'
    BY DEF TypeOK, NobodyAhead, PastTheBarrier, Holdings
  <2> QED
    BY <2>1, <2>2, <2>3, <2>4, <2>5, <2>6, <2>7
<1>2. ASSUME NEW r \in Ranks, SkipDone(r) PROVE BarrierInv'
  <2> USE <1>2 DEF SkipDone
  <2>1. TypeOK'
    BY DEF TypeOK, Holdings, Partitions
  <2>2. Holdings'
    BY DEF TypeOK, Holdings
  <2>3. InTurn'
    BY TurnNext, TurnFirst DEF TypeOK, InTurn
  <2>4. PartialIsHeld'
    BY DEF TypeOK, PartialIsHeld, Holdings
  <2>5. FinalizedSoFar'
    BY DEF TypeOK, FinalizedSoFar, Holdings
  <2>6. Behind'
    <3>1. ASSUME NEW n \in wanted PROVE file[next[r]][n] = "complete"
      BY <3>1, NothingPartialAhead, SMTT(30) DEF TypeOK, Existing, Partitions
    <3> QED
      BY <3>1, BehindAdvances DEF AllOf
  <2>7. NobodyAhead'
    BY DEF TypeOK, NobodyAhead, PastTheBarrier, Holdings
  <2> QED
    BY <2>1, <2>2, <2>3, <2>4, <2>5, <2>6, <2>7
<1>3. ASSUME NEW r \in Ranks, StartClaim(r) PROVE BarrierInv'
  <2> USE <1>3 DEF StartClaim
  <2>1. TypeOK'
    BY ZenonT(40) DEF TypeOK, Holdings, Partitions
  <2>2. Holdings'
    BY DEF TypeOK, Holdings
  <2>3. InTurn'
    BY TurnNext, TurnFirst DEF TypeOK, InTurn
  <2>4. PartialIsHeld'
    BY DEF TypeOK, PartialIsHeld, Holdings
  <2>5. FinalizedSoFar'
    BY DEF TypeOK, FinalizedSoFar, Holdings
  <2>6. Behind'
    BY DEF TypeOK, Behind, Holdings, AllOf
  <2>7. NobodyAhead'
    BY DEF TypeOK, NobodyAhead, PastTheBarrier, Holdings
  <2> QED
    BY <2>1, <2>2, <2>3, <2>4, <2>5, <2>6, <2>7
<1>4. ASSUME NEW r \in Ranks, ClaimFile(r) PROVE BarrierInv'
  <2> USE <1>4 DEF ClaimFile
  <2>1. TypeOK'
    BY DEF TypeOK, Holdings, Partitions
  <2>2. Holdings'
    BY DEF TypeOK, Holdings
  <2>3. InTurn'
    BY TurnNext, TurnFirst DEF TypeOK, InTurn
  <2>4. PartialIsHeld'
    <3>1. Min(todo[r]) \in wanted /\ wanted = paths[r]
      BY NextFile DEF TypeOK, Holdings
    <3> QED
      BY <3>1 DEF TypeOK, PartialIsHeld
  <2>5. FinalizedSoFar'
    <3>1. \A q \in Ranks : pc[q] = "process" => next[q] # next[r]
      BY Exclusive
    <3> QED
      BY <3>1 DEF TypeOK, FinalizedSoFar, Holdings
  <2>6. Behind'
    BY BehindKept DEF TypeOK
  <2>7. NobodyAhead'
    BY DEF TypeOK, NobodyAhead, PastTheBarrier, Holdings
  <2> QED
    BY <2>1, <2>2, <2>3, <2>4, <2>5, <2>6, <2>7
<1>5. ASSUME NEW r \in Ranks, ProcessUnits(r) PROVE BarrierInv'
  <2> USE <1>5 DEF ProcessUnits
  <2>1. TypeOK'
    BY DEF TypeOK, Holdings, Partitions
  <2>2. Holdings'
    BY DEF TypeOK, Holdings
  <2>3. InTurn'
    BY TurnNext, TurnFirst DEF TypeOK, InTurn
  <2>4. PartialIsHeld'
    BY DEF TypeOK, PartialIsHeld, Holdings
  <2>5. FinalizedSoFar'
    BY DEF TypeOK, FinalizedSoFar, Holdings
  <2>6. Behind'
    BY DEF TypeOK, Behind, Holdings, AllOf
  <2>7. NobodyAhead'
    BY DEF TypeOK, NobodyAhead, PastTheBarrier, Holdings
  <2> QED
    BY <2>1, <2>2, <2>3, <2>4, <2>5, <2>6, <2>7
<1>6. ASSUME NEW r \in Ranks, FinalizeFile(r) PROVE BarrierInv'
  <2> USE <1>6 DEF FinalizeFile
  <2>1. TypeOK'
    BY DEF TypeOK, Holdings, Partitions
  <2>2. Holdings'
    BY DEF TypeOK, Holdings
  <2>3. InTurn'
    BY TurnNext, TurnFirst DEF TypeOK, InTurn
  <2>4. PartialIsHeld'
    BY DEF TypeOK, PartialIsHeld, Holdings
  <2>5. FinalizedSoFar'
    BY DEF TypeOK, FinalizedSoFar, Holdings
  <2>6. Behind'
    BY BehindKept DEF TypeOK
  <2>7. NobodyAhead'
    BY DEF TypeOK, NobodyAhead, PastTheBarrier, Holdings
  <2> QED
    BY <2>1, <2>2, <2>3, <2>4, <2>5, <2>6, <2>7
<1>7. ASSUME NEW r \in Ranks, ClosePartition(r) PROVE BarrierInv'
  <2> USE <1>7 DEF ClosePartition
  <2>1. TypeOK'
    BY DEF TypeOK, Holdings, Partitions
  <2>2. Holdings'
    BY DEF TypeOK, Holdings
  <2>3. InTurn'
    BY TurnNext, TurnFirst DEF TypeOK, InTurn
  <2>4. PartialIsHeld'
    <3> SUFFICES ASSUME NEW p \in Partitions, NEW n \in OutputFiles, file[p][n] = "partial"
                 PROVE  \E q \in Ranks : next'[q] = p /\ n \in paths'[q]
      BY DEF PartialIsHeld
    <3>1. PICK q \in Ranks : next[q] = p /\ n \in paths[q]
      BY DEF PartialIsHeld
    <3>2. q # r
      BY <3>1 DEF TypeOK, FinalizedSoFar
    <3> QED
      BY <3>1, <3>2 DEF TypeOK
  <2>5. FinalizedSoFar'
    BY DEF TypeOK, FinalizedSoFar, Holdings
  <2>6. Behind'
    BY BehindAdvances DEF AllOf, FinalizedSoFar
  <2>7. NobodyAhead'
    BY DEF TypeOK, NobodyAhead, PastTheBarrier, Holdings
  <2> QED
    BY <2>1, <2>2, <2>3, <2>4, <2>5, <2>6, <2>7
<1>8. ASSUME NEW r \in Ranks, EndLoop(r) PROVE BarrierInv'
  <2> USE <1>8 DEF EndLoop
  <2>1. TypeOK'
    BY DEF TypeOK, Holdings, Partitions
  <2>2. Holdings'
    BY DEF TypeOK, Holdings
  <2>3. InTurn'
    BY TurnNext, TurnFirst DEF TypeOK, InTurn
  <2>4. PartialIsHeld'
    BY DEF TypeOK, PartialIsHeld, Holdings
  <2>5. FinalizedSoFar'
    BY DEF TypeOK, FinalizedSoFar, Holdings
  <2>6. Behind'
    BY DEF TypeOK, Behind, Holdings, AllOf
  <2>7. NobodyAhead'
    BY DEF TypeOK, NobodyAhead, PastTheBarrier, Holdings
  <2> QED
    BY <2>1, <2>2, <2>3, <2>4, <2>5, <2>6, <2>7
<1>9. ASSUME NEW r \in Ranks, FinishRun(r) PROVE BarrierInv'
  <2> USE <1>9 DEF FinishRun
  <2>1. TypeOK'
    BY DEF TypeOK, Holdings, Partitions
  <2>2. Holdings'
    BY DEF TypeOK, Holdings
  <2>3. InTurn'
    BY TurnNext, TurnFirst DEF TypeOK, InTurn
  <2>4. PartialIsHeld'
    BY DEF TypeOK, PartialIsHeld, Holdings
  <2>5. FinalizedSoFar'
    BY DEF TypeOK, FinalizedSoFar, Holdings
  <2>6. Behind'
    BY DEF TypeOK, Behind, Holdings, AllOf
  <2>7. NobodyAhead'
    BY DEF TypeOK, NobodyAhead, PastTheBarrier, Holdings
  <2> QED
    BY <2>1, <2>2, <2>3, <2>4, <2>5, <2>6, <2>7
<1>10. ASSUME NEW r \in Ranks, Fail(r) PROVE BarrierInv'
  <2> USE <1>10 DEF Fail
  <2>1. TypeOK'
    BY DEF TypeOK, Holdings, Partitions
  <2>2. Holdings'
    BY DEF TypeOK, Holdings
  <2>3. InTurn'
    BY TurnNext, TurnFirst DEF TypeOK, InTurn
  <2>4. PartialIsHeld'
    BY DEF TypeOK, PartialIsHeld, Holdings
  <2>5. FinalizedSoFar'
    BY DEF TypeOK, FinalizedSoFar, Holdings
  <2>6. Behind'
    BY DEF TypeOK, Behind, Holdings, AllOf
  <2>7. NobodyAhead'
    BY DEF TypeOK, NobodyAhead, PastTheBarrier, Holdings
  <2> QED
    BY <2>1, <2>2, <2>3, <2>4, <2>5, <2>6, <2>7
<1>11. ASSUME NEW r \in Ranks, Bye(r) PROVE BarrierInv'
  <2> USE <1>11 DEF Bye
  <2>1. TypeOK'
    <3>1. file' \in [Partitions -> [OutputFiles -> {"absent", "partial", "complete"}]]
      BY DEF TypeOK
    <3> QED
      BY <3>1 DEF TypeOK
  <2>2. Holdings'
    BY DEF TypeOK, Holdings
  <2>3. InTurn'
    BY TurnNext, TurnFirst DEF TypeOK, InTurn
  <2>4. PartialIsHeld'
    BY DEF TypeOK, PartialIsHeld, Holdings
  <2>5. FinalizedSoFar'
    <3> SUFFICES ASSUME NEW q \in Ranks, pc'[q] = "process", NEW n \in wanted \ todo[q]
                 PROVE  file'[next[q]][n] = "complete"
      BY DEF FinalizedSoFar
    <3>1. pc[q] = "process" /\ q # r
      BY DEF TypeOK
    <3>2. next[q] # next[r]
      BY <3>1, Exclusive
    <3> QED
      BY <3>1, <3>2 DEF TypeOK, FinalizedSoFar, Holdings
  <2>6. Behind'
    BY BehindKept DEF TypeOK
  <2>7. NobodyAhead'
    BY DEF TypeOK, NobodyAhead, PastTheBarrier, Holdings
  <2> QED
    BY <2>1, <2>2, <2>3, <2>4, <2>5, <2>6, <2>7
<1>12. CASE StartRun
  <2> USE <1>12 DEF StartRun
  <2>1. TypeOK'
    <3>1. next' \in [Ranks -> 0 .. NPartitions + NTask - 1]
      BY DEF Ranks
    <3>2. run' \in 0 .. MaxRuns
      BY SizesAssumption DEF TypeOK
    <3>3. earlier' \subseteq Partitions \X OutputFiles
      OBVIOUS
    <3>4. wanted' \in SUBSET OutputFiles
      OBVIOUS
    <3> QED
      BY <3>1, <3>2, <3>3, <3>4 DEF TypeOK
  <2>2. Holdings'
    BY DEF TypeOK, Holdings
  <2>3. InTurn'
    BY TurnNext, TurnFirst DEF TypeOK, InTurn
  <2>4. PartialIsHeld'
    <3>1. \A q \in Ranks : paths[q] = {}
      BY DEF Idle, Holdings
    <3> QED
      BY <3>1 DEF PartialIsHeld
  <2>5. FinalizedSoFar'
    BY DEF TypeOK, FinalizedSoFar, Holdings
  <2>6. Behind'
    <3> SUFFICES ASSUME NEW q \in Ranks, NEW p \in Present, Turn(q, p), p < q
                 PROVE  FALSE
      BY DEF Behind, Turn
    <3>1. p \in Nat
      BY DEF Partitions
    <3> QED
      BY <3>1, TurnAtLeast
  <2>7. NobodyAhead'
    BY DEF TypeOK, NobodyAhead, PastTheBarrier, Holdings
  <2> QED
    BY <2>1, <2>2, <2>3, <2>4, <2>5, <2>6, <2>7
<1>13. CASE Barrier
  <2> USE <1>13 DEF Barrier
  <2>1. TypeOK'
    BY DEF TypeOK, Holdings, Partitions
  <2>2. Holdings'
    BY DEF TypeOK, Holdings
  <2>3. InTurn'
    BY TurnNext, TurnFirst DEF TypeOK, InTurn
  <2>4. PartialIsHeld'
    BY DEF TypeOK, PartialIsHeld, Holdings
  <2>5. FinalizedSoFar'
    BY DEF TypeOK, FinalizedSoFar, Holdings
  <2>6. Behind'
    BY DEF TypeOK, Behind, Holdings, AllOf
  <2>7. NobodyAhead'
    BY DEF TypeOK, NobodyAhead, PastTheBarrier, Holdings
  <2> QED
    BY <2>1, <2>2, <2>3, <2>4, <2>5, <2>6, <2>7
<1>14. CASE Kill
  <2> USE <1>14 DEF Kill
  <2>1. TypeOK'
    BY DEF TypeOK, Holdings, Partitions
  <2>2. Holdings'
    BY DEF TypeOK, Holdings
  <2>3. InTurn'
    BY TurnNext, TurnFirst DEF TypeOK, InTurn
  <2>4. PartialIsHeld'
    <3>1. \A q \in Ranks : paths[q] = {}
      BY DEF Stranded, Holdings
    <3> QED
      BY <3>1 DEF PartialIsHeld
  <2>5. FinalizedSoFar'
    BY DEF TypeOK, FinalizedSoFar, Holdings
  <2>6. Behind'
    BY DEF TypeOK, Behind, Holdings, AllOf
  <2>7. NobodyAhead'
    BY DEF TypeOK, NobodyAhead, PastTheBarrier, Holdings
  <2> QED
    BY <2>1, <2>2, <2>3, <2>4, <2>5, <2>6, <2>7
<1>15. CASE UNCHANGED vars
  BY <1>15 DEF vars, TypeOK, Holdings, InTurn, PartialIsHeld, FinalizedSoFar, Behind, AllOf,
        NobodyAhead, PastTheBarrier, Turn
<1> QED
  BY <1>1, <1>2, <1>3, <1>4, <1>5, <1>6, <1>7, <1>8, <1>9, <1>10, <1>11, <1>12, <1>13, <1>14, <1>15 DEF Next, Step

\* At the barrier every partition is behind some rank, and complete.
LEMMA BarrierInvSuffices ==
    ASSUME BarrierInv
    PROVE  CompleteAtBarrier
<1> SUFFICES ASSUME NEW r \in Ranks, PastTheBarrier(r), NEW p \in Present
             PROVE  AllOf(p, "complete")
  BY DEF CompleteAtBarrier, PastTheBarrier
<1>1. p \in Nat /\ p < NPartitions
  BY Sizes, PresentAssumption DEF Partitions
<1>2. PICK q \in Ranks : Turn(q, p)
  BY <1>1, SomebodysTurn
<1>3. next[q] \in Nat /\ next[q] >= NPartitions
  BY Sizes DEF BarrierInv, NobodyAhead, TypeOK
<1> QED
  BY <1>1, <1>2, <1>3, Sizes DEF BarrierInv, Behind

\* No rank reaches the master file or a successful exit while any output of the
\* run is missing or partial, however runs before it have failed, with and
\* without --skip, even if the list of snapshots was edited between the runs.
THEOREM BarrierMeansComplete ==
    ASSUME ~JobMayBeKilled
    PROVE  Spec => []CompleteAtBarrier
<1>1. BarrierInv /\ [Next]_vars => BarrierInv'
  BY BarrierStep
<1> QED
  BY <1>1, BarrierInit, BarrierInvSuffices, PTL DEF Spec

-----------------------------------------------------------------------------

\* The stronger invariant holds before the first run.
LEMMA WholeInit == Init => WholeInv
BY BarrierInit DEF Init, WholeInv, WholePartitions, BarrierInv, AllOf, ClaimsAreNew,
                   SkipKeepsComplete

\* --skip claims a partition only if none of its output is there.
LEMMA ClaimsOnlyAbsent ==
    ASSUME WholeInv, NEW r \in Ranks, AtPartition(r), skip, Existing(next[r]) # wanted
    PROVE  AllOf(next[r], "absent")
<1>1. next[r] \in Partitions
  BY PresentAssumption DEF AtPartition
<1>2. ~InProgress(next[r])
  BY <1>1, Exclusive DEF WholeInv, BarrierInv, Holdings, AtPartition, InProgress
<1>3. ~AllOf(next[r], "complete")
  BY <1>1 DEF AllOf, Existing
<1> QED
  BY <1>1, <1>2, <1>3 DEF WholeInv, WholePartitions

\* Every step keeps it, if besides the outputs asked for do not change.
LEMMA WholeStep ==
    ASSUME ~JobMayBeKilled, ~OutputsMayChange, WholeInv, [Next]_vars
    PROVE  WholeInv'
<1> USE Sizes, PresentAssumption DEF WholeInv, BarrierInv, Goto, NextPartition, AtPartition
<1>0. BarrierInv'
  BY BarrierStep
<1>1. ASSUME NEW r \in Ranks, NoInput(r) PROVE WholeInv'
  <2> USE <1>1 DEF NoInput
  <2>1. wanted' = OutputFiles
    OBVIOUS
  <2>2. WholePartitions'
    BY <1>0 DEF TypeOK, WholePartitions, InProgress, AllOf, Holdings
  <2>3. ClaimsAreNew'
    BY DEF TypeOK, ClaimsAreNew, Holdings
  <2>4. SkipKeepsComplete'
    BY DEF TypeOK, SkipKeepsComplete
  <2> QED
    BY <1>0, <2>1, <2>2, <2>3, <2>4
<1>2. ASSUME NEW r \in Ranks, SkipDone(r) PROVE WholeInv'
  <2> USE <1>2 DEF SkipDone
  <2>1. wanted' = OutputFiles
    OBVIOUS
  <2>2. WholePartitions'
    BY <1>0 DEF TypeOK, WholePartitions, InProgress, AllOf, Holdings
  <2>3. ClaimsAreNew'
    BY DEF TypeOK, ClaimsAreNew, Holdings
  <2>4. SkipKeepsComplete'
    BY DEF TypeOK, SkipKeepsComplete
  <2> QED
    BY <1>0, <2>1, <2>2, <2>3, <2>4
<1>3. ASSUME NEW r \in Ranks, StartClaim(r) PROVE WholeInv'
  <2> USE <1>3 DEF StartClaim
  <2>1. wanted' = OutputFiles
    OBVIOUS
  <2>2. WholePartitions'
    BY <1>0 DEF TypeOK, WholePartitions, InProgress, AllOf, Holdings
  <2>3. ClaimsAreNew'
    <3> SUFFICES ASSUME skip, NEW q \in Ranks, paths'[q] # {}, NEW n \in OutputFiles,
                        <<next[q], n>> \in earlier
                 PROVE  FALSE
      BY DEF ClaimsAreNew
    <3>1. q = r
      BY DEF TypeOK, ClaimsAreNew
    <3>2. AllOf(next[r], "absent")
      BY ClaimsOnlyAbsent
    <3>3. file[next[r]][n] = "complete"
      BY <3>1 DEF SkipKeepsComplete
    <3> QED
      BY <3>2, <3>3 DEF AllOf
  <2>4. SkipKeepsComplete'
    BY DEF TypeOK, SkipKeepsComplete
  <2> QED
    BY <1>0, <2>1, <2>2, <2>3, <2>4
<1>4. ASSUME NEW r \in Ranks, ClaimFile(r) PROVE WholeInv'
  <2> USE <1>4 DEF ClaimFile
  <2>1. wanted' = OutputFiles
    OBVIOUS
  <2>2. WholePartitions'
    BY <1>0 DEF TypeOK, WholePartitions, InProgress, AllOf, Holdings
  <2>3. ClaimsAreNew'
    BY DEF TypeOK, ClaimsAreNew, Holdings
  <2>4. SkipKeepsComplete'
    <3> SUFFICES ASSUME skip, NEW f \in earlier
                 PROVE  file'[f[1]][f[2]] = "complete"
      BY DEF SkipKeepsComplete
    <3>1. f[1] \in Partitions /\ f[2] \in OutputFiles /\ f = <<f[1], f[2]>>
      BY DEF TypeOK
    <3>2. file[f[1]][f[2]] = "complete"
      BY DEF SkipKeepsComplete
    <3>3. paths[r] # {} => f[1] # next[r]
      BY <3>1 DEF ClaimsAreNew
    <3> QED
      BY <3>1, <3>2, <3>3 DEF TypeOK, Holdings
  <2> QED
    BY <1>0, <2>1, <2>2, <2>3, <2>4
<1>5. ASSUME NEW r \in Ranks, ProcessUnits(r) PROVE WholeInv'
  <2> USE <1>5 DEF ProcessUnits
  <2>1. wanted' = OutputFiles
    OBVIOUS
  <2>2. WholePartitions'
    BY <1>0 DEF TypeOK, WholePartitions, InProgress, AllOf, Holdings
  <2>3. ClaimsAreNew'
    BY DEF TypeOK, ClaimsAreNew, Holdings
  <2>4. SkipKeepsComplete'
    BY DEF TypeOK, SkipKeepsComplete
  <2> QED
    BY <1>0, <2>1, <2>2, <2>3, <2>4
<1>6. ASSUME NEW r \in Ranks, FinalizeFile(r) PROVE WholeInv'
  <2> USE <1>6 DEF FinalizeFile
  <2>1. wanted' = OutputFiles
    OBVIOUS
  <2>2. WholePartitions'
    BY <1>0 DEF TypeOK, WholePartitions, InProgress, AllOf, Holdings
  <2>3. ClaimsAreNew'
    BY DEF TypeOK, ClaimsAreNew, Holdings
  <2>4. SkipKeepsComplete'
    BY DEF TypeOK, SkipKeepsComplete
  <2> QED
    BY <1>0, <2>1, <2>2, <2>3, <2>4
<1>7. ASSUME NEW r \in Ranks, ClosePartition(r) PROVE WholeInv'
  <2> USE <1>7 DEF ClosePartition
  <2>1. wanted' = OutputFiles
    OBVIOUS
  <2>2. WholePartitions'
    <3>1. AllOf(next[r], "complete")
      BY DEF FinalizedSoFar, AllOf
    <3>2. \A p \in Partitions : InProgress(p) => p = next[r] \/ InProgress(p)'
      BY DEF TypeOK, InProgress
    <3> QED
      BY <1>0, <3>1, <3>2 DEF WholePartitions, AllOf
  <2>3. ClaimsAreNew'
    BY DEF TypeOK, ClaimsAreNew, Holdings
  <2>4. SkipKeepsComplete'
    BY DEF TypeOK, SkipKeepsComplete
  <2> QED
    BY <1>0, <2>1, <2>2, <2>3, <2>4
<1>8. ASSUME NEW r \in Ranks, EndLoop(r) PROVE WholeInv'
  <2> USE <1>8 DEF EndLoop
  <2>1. wanted' = OutputFiles
    OBVIOUS
  <2>2. WholePartitions'
    BY <1>0 DEF TypeOK, WholePartitions, InProgress, AllOf, Holdings
  <2>3. ClaimsAreNew'
    BY DEF TypeOK, ClaimsAreNew, Holdings
  <2>4. SkipKeepsComplete'
    BY DEF TypeOK, SkipKeepsComplete
  <2> QED
    BY <1>0, <2>1, <2>2, <2>3, <2>4
<1>9. ASSUME NEW r \in Ranks, FinishRun(r) PROVE WholeInv'
  <2> USE <1>9 DEF FinishRun
  <2>1. wanted' = OutputFiles
    OBVIOUS
  <2>2. WholePartitions'
    BY <1>0 DEF TypeOK, WholePartitions, InProgress, AllOf, Holdings
  <2>3. ClaimsAreNew'
    BY DEF TypeOK, ClaimsAreNew, Holdings
  <2>4. SkipKeepsComplete'
    BY DEF TypeOK, SkipKeepsComplete
  <2> QED
    BY <1>0, <2>1, <2>2, <2>3, <2>4
<1>10. ASSUME NEW r \in Ranks, Fail(r) PROVE WholeInv'
  <2> USE <1>10 DEF Fail
  <2>1. wanted' = OutputFiles
    OBVIOUS
  <2>2. WholePartitions'
    BY <1>0 DEF TypeOK, WholePartitions, InProgress, AllOf, Holdings
  <2>3. ClaimsAreNew'
    BY DEF TypeOK, ClaimsAreNew, Holdings
  <2>4. SkipKeepsComplete'
    BY DEF TypeOK, SkipKeepsComplete
  <2> QED
    BY <1>0, <2>1, <2>2, <2>3, <2>4
<1>11. ASSUME NEW r \in Ranks, Bye(r) PROVE WholeInv'
  <2> USE <1>11 DEF Bye
  <2>1. wanted' = OutputFiles
    OBVIOUS
  <2>2. WholePartitions'
    BY <1>0 DEF TypeOK, WholePartitions, InProgress, AllOf, Holdings
  <2>3. ClaimsAreNew'
    BY DEF TypeOK, ClaimsAreNew, Holdings
  <2>4. SkipKeepsComplete'
    <3> SUFFICES ASSUME skip, NEW f \in earlier
                 PROVE  file'[f[1]][f[2]] = "complete"
      BY DEF SkipKeepsComplete
    <3>1. f[1] \in Partitions /\ f[2] \in OutputFiles /\ f = <<f[1], f[2]>>
      BY DEF TypeOK
    <3>2. file[f[1]][f[2]] = "complete"
      BY DEF SkipKeepsComplete
    <3>3. paths[r] # {} => f[1] # next[r]
      BY <3>1 DEF ClaimsAreNew
    <3> QED
      BY <3>1, <3>2, <3>3 DEF TypeOK, Holdings
  <2> QED
    BY <1>0, <2>1, <2>2, <2>3, <2>4
<1>12. CASE StartRun
  <2> USE <1>12 DEF StartRun
  <2>1. wanted' = OutputFiles
    OBVIOUS
  <2>2. WholePartitions'
    <3>1. \A p \in Partitions : ~InProgress(p)
      BY DEF Idle, InProgress, Holdings
    <3> QED
      BY <1>0, <3>1 DEF WholePartitions, AllOf
  <2>3. ClaimsAreNew'
    BY DEF TypeOK, ClaimsAreNew, Holdings
  <2>4. SkipKeepsComplete'
    BY DEF TypeOK, SkipKeepsComplete
  <2> QED
    BY <1>0, <2>1, <2>2, <2>3, <2>4
<1>13. CASE Barrier
  <2> USE <1>13 DEF Barrier
  <2>1. wanted' = OutputFiles
    OBVIOUS
  <2>2. WholePartitions'
    BY <1>0 DEF TypeOK, WholePartitions, InProgress, AllOf, Holdings
  <2>3. ClaimsAreNew'
    BY DEF TypeOK, ClaimsAreNew, Holdings
  <2>4. SkipKeepsComplete'
    BY DEF TypeOK, SkipKeepsComplete
  <2> QED
    BY <1>0, <2>1, <2>2, <2>3, <2>4
<1>14. CASE Kill
  <2> USE <1>14 DEF Kill
  <2>1. wanted' = OutputFiles
    OBVIOUS
  <2>2. WholePartitions'
    <3>1. \A p \in Partitions : ~InProgress(p)
      BY DEF Stranded, InProgress, Holdings
    <3> QED
      BY <1>0, <3>1 DEF WholePartitions, AllOf
  <2>3. ClaimsAreNew'
    BY DEF TypeOK, ClaimsAreNew, Holdings
  <2>4. SkipKeepsComplete'
    BY DEF TypeOK, SkipKeepsComplete
  <2> QED
    BY <1>0, <2>1, <2>2, <2>3, <2>4
<1>15. CASE UNCHANGED vars
  BY <1>0, <1>15 DEF vars, TypeOK, WholePartitions, InProgress, AllOf, ClaimsAreNew, SkipKeepsComplete
<1> QED
  BY <1>1, <1>2, <1>3, <1>4, <1>5, <1>6, <1>7, <1>8, <1>9, <1>10, <1>11, <1>12, <1>13, <1>14, <1>15 DEF Next, Step

\* Whatever fails and whenever, the output of a partition that nobody works on
\* is there as a whole or not at all, and a run with --skip leaves finished
\* output of earlier runs alone, for any number of ranks, partitions and runs
\* that ask for the same snapshots.
THEOREM OutputsStayWhole ==
    ASSUME ~JobMayBeKilled, ~OutputsMayChange
    PROVE  Spec => []OutputsWhole
<1>1. WholeInv /\ [Next]_vars => WholeInv'
  BY WholeStep
<1>2. WholeInv => OutputsWhole
  BY DEF WholeInv, OutputsWhole
<1> QED
  BY <1>1, <1>2, WholeInit, PTL DEF Spec
=============================================================================
