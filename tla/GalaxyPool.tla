----------------------------- MODULE GalaxyPool -----------------------------
(***************************************************************************)
(* The pool that owns the galaxies of the unit being processed: chunks in  *)
(* a list that only grows, filled one after the other, rewound when the    *)
(* unit is finished.  A rewind resets the first chunk only; a later chunk  *)
(* keeps its old fill until the pool comes to it again.                    *)
(***************************************************************************)
EXTENDS Integers, Sequences

CONSTANTS Capacity,      \* PoolChunkCapacity
          MaxGalaxies,   \* bound of the model: galaxies of one unit
          MaxResets      \* bound of the model: units

ASSUME CapacityAssumption == Capacity \in Nat \ {0}

VARIABLES used,       \* the fill of every chunk of the list
          current,    \* PoolCurrent, as a position in it; 0 for NULL
          handed,     \* history: the slots given to the unit, in order
          largest,    \* history: the most slots a unit ever held
          resets      \* units finished so far

poolVars == <<used, current, handed, largest, resets>>

Slot == [chunk : Nat \ {0}, index : 0 .. (Capacity - 1)]

NoPool == /\ used = <<>> /\ current = 0
          /\ handed = <<>> /\ largest = 0 /\ resets = 0

\* galaxy_pool_init(); a pool that exists is left alone.
PoolInit == /\ used = <<>>
            /\ used' = <<0>> /\ current' = 1
            /\ UNCHANGED <<handed, largest, resets>>

\* Hands out the next slot of chunk c, which holds n galaxies already.
HandOut(c, n) ==
    /\ handed' = Append(handed, [chunk |-> c, index |-> n])
    /\ largest' = IF Len(handed) < largest THEN largest ELSE Len(handed) + 1
    /\ current' = c
    /\ UNCHANGED resets

AllocInCurrent ==
    /\ current # 0
    /\ used[current] < Capacity
    /\ HandOut(current, used[current])
    /\ used' = [used EXCEPT ![current] = @ + 1]

\* A mistake: the slot handed out is not counted.
AllocInNextNotCounted ==
    /\ current # 0
    /\ used[current] >= Capacity
    /\ current < Len(used)
    /\ HandOut(current + 1, 0)
    /\ used' = [used EXCEPT ![current + 1] = 0]

\* A chunk left over from a larger unit.
AllocInNext ==
    /\ current # 0
    /\ used[current] >= Capacity
    /\ current < Len(used)
    /\ HandOut(current + 1, 0)
    /\ used' = [used EXCEPT ![current + 1] = 1]

AllocInNewChunk ==
    /\ current # 0
    /\ used[current] >= Capacity
    /\ current = Len(used)
    /\ HandOut(current + 1, 0)
    /\ used' = Append(used, 1)

\* The first allocation without galaxy_pool_init().
AllocUninitialised ==
    /\ current = 0
    /\ HandOut(1, 0)
    /\ used' = <<1>>

Alloc == /\ Len(handed) < MaxGalaxies
         /\ \/ AllocInCurrent
            \/ AllocInNext
            \/ AllocInNewChunk
            \/ AllocUninitialised

\* A mistake: the pool goes on in the chunk it has come to.
ResetInPlace == /\ resets < MaxResets
                /\ current # 0
                /\ used' = [used EXCEPT ![current] = 0]
                /\ handed' = <<>>
                /\ resets' = resets + 1
                /\ UNCHANGED <<current, largest>>

\* galaxy_pool_reset(), when the unit's galaxies are gone.
Reset == /\ resets < MaxResets
         /\ current' = IF used = <<>> THEN 0 ELSE 1
         /\ used' = IF used = <<>> THEN used ELSE [used EXCEPT ![1] = 0]
         /\ handed' = <<>>
         /\ resets' = resets + 1
         /\ UNCHANGED largest

\* galaxy_pool_destroy(), at the end of the run.
Destroy == /\ used # <<>>
           /\ used' = <<>> /\ current' = 0
           /\ handed' = <<>> /\ largest' = 0
           /\ UNCHANGED resets

PoolNext == PoolInit \/ Alloc \/ Reset \/ Destroy

PoolSpec == NoPool /\ [][PoolNext]_poolVars

\* The shape of the state: every slot lies inside its chunk.
PoolTypeOK ==
    /\ used \in Seq(0 .. Capacity)
    /\ current \in 0 .. Len(used)
    /\ handed \in Seq(Slot)
    /\ largest \in Nat
    /\ resets \in Nat

-----------------------------------------------------------------------------
\* The slots handed out are exactly the filled part of the list up to the
\* current chunk, in order: the n-th galaxy of a unit is in chunk n \div
\* Capacity, whatever earlier units left behind.
Filled ==
    /\ current = 0 <=> used = <<>>
    /\ current = 0 => handed = <<>>
    /\ current # 0 => Len(handed) = (current - 1) * Capacity + used[current]
    /\ \A n \in DOMAIN handed :
          n - 1 = (handed[n].chunk - 1) * Capacity + handed[n].index

\* No two galaxies of a unit share a slot: writing one never changes another.
NoSharedSlot ==
    \A j, k \in DOMAIN handed : handed[j] = handed[k] => j = k

\* The pool is no larger than the largest unit so far needs, one chunk at least
\* ("bounds memory by the largest single tree", galaxy_pool.h:14).
SizedByLargest ==
    Len(used) > 1 => (Len(used) - 1) * Capacity < largest
=============================================================================
