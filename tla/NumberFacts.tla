---------------------------- MODULE NumberFacts -----------------------------
(***************************************************************************)
(* Facts about numbers, sums and FlattenSeq() that several proofs need.    *)
(* The least element of a set stands in for induction: to prove a          *)
(* statement for every number, look at the least number it fails for.      *)
(***************************************************************************)
EXTENDS Integers, Subsequences, FiniteSetTheorems, SequenceTheorems, WellFoundedInduction, TLAPS

\* Every set of numbers that is not empty has a least element.
LEMMA LeastElement ==
    ASSUME NEW S \in SUBSET Nat, S # {}
    PROVE  \E m \in S : \A n \in S : m <= n
<1> DEFINE R == {ss \in Nat \X Nat : ss[1] < ss[2]}
<1>1. IsWellFoundedOn(R, Nat)
  BY NatLessThanWellFounded DEF OpToRel
<1>2. \A a, b \in Nat : <<a, b>> \in R <=> a < b
  OBVIOUS
<1> HIDE DEF R
<1>3. PICK m \in S : \A n \in S : ~(<<n, m>> \in R)
  BY <1>1, WFMin
<1>4. \A n \in S : ~(n < m)
  BY <1>2, <1>3
<1> QED
  BY <1>4

\* A multiple of n that is not zero is at least n.
LEMMA MultipleAtLeast ==
    ASSUME NEW n \in Nat, NEW d \in Nat \ {0}
    PROVE  d * n \in Nat /\ d * n >= n
<1>1. d - 1 \in Nat /\ (d - 1) * n \in Nat
  OBVIOUS
<1>2. d * n = (d - 1) * n + n
  OBVIOUS
<1> QED
  BY <1>1, <1>2

\* The ranks that share out partitions by turns never share one.
LEMMA SameRemainder ==
    ASSUME NEW n \in Nat \ {0}, NEW q \in 0 .. n - 1, NEW r \in 0 .. n - 1,
           NEW j \in Nat, NEW k \in Nat, q + j * n = r + k * n
    PROVE  q = r
<1>1. ASSUME NEW a \in 0 .. n - 1, NEW b \in 0 .. n - 1, NEW x \in Nat, NEW y \in Nat,
             x > y, a + x * n = b + y * n
      PROVE  FALSE
  <2>1. (x - y) * n >= n
    BY <1>1, MultipleAtLeast
  <2>2. (x - y) * n = x * n - y * n
    BY <1>1
  <2>3. x * n \in Int /\ y * n \in Int
    BY <1>1
  <2> QED
    BY <1>1, <2>1, <2>2, <2>3
<1>2. j = k
  BY <1>1
<1>3. j * n \in Int
  OBVIOUS
<1> QED
  BY <1>2, <1>3

\* Every number is some rank's turn.
LEMMA QuotientAndRemainder ==
    ASSUME NEW n \in Nat \ {0}, NEW p \in Nat
    PROVE  \E r \in 0 .. n - 1, k \in Nat : p = r + k * n
<1>1. p % n \in 0 .. n - 1 /\ p \div n \in Nat
  OBVIOUS
<1>2. p = n * (p \div n) + (p % n)
  OBVIOUS
<1>3. p = (p % n) + (p \div n) * n
  BY <1>1, <1>2
<1> WITNESS p % n \in 0 .. n - 1, p \div n \in Nat
<1> QED
  BY <1>3

-----------------------------------------------------------------------------
(* Sums over a finite set: SumFunctionOnSet() takes the elements in the      *)
(* order of CHOOSE, and the facts below say that no order matters.           *)

Chosen(T) == CHOOSE x \in T : TRUE

\* F has the sum of f over every subset of S.
Adds(F, f, S) ==
    F = [T \in SUBSET S |-> IF T = {} THEN 0 ELSE f[Chosen(T)] + F[T \ {Chosen(T)}]]

\* What SumFunctionOnSet() means, with its recursive function named.
LEMMA SumIsChosen ==
    ASSUME NEW f, NEW S
    PROVE  SumFunctionOnSet(f, S) = (CHOOSE F : Adds(F, f, S))[S]
BY Zenon DEF SumFunctionOnSet, FoldFunctionOnSet, MapThenFoldSet, Adds, Chosen

\* A part of a finite set, and what is left without one of its elements.
LEMMA Without ==
    ASSUME NEW S, IsFiniteSet(S), NEW T \in SUBSET S, NEW x \in T
    PROVE  /\ IsFiniteSet(T) /\ Cardinality(T) \in Nat /\ T \ {x} \in SUBSET S
           /\ Cardinality(T \ {x}) \in Nat
           /\ Cardinality(T \ {x}) = Cardinality(T) - 1
<1>1. IsFiniteSet(T)
  BY FS_Subset
<1>2. IsFiniteSet(T \ {x}) /\ Cardinality(T \ {x}) = Cardinality(T) - 1
  BY <1>1, FS_RemoveElement
<1> QED
  BY <1>1, <1>2, FS_CardinalityType

\* The element that is taken is one of the set.
LEMMA ChosenIn == ASSUME NEW T, T # {} PROVE Chosen(T) \in T
BY DEF Chosen

\* There is such a function for a finite set: it is there for the subsets of
\* each size if it is there for the smaller ones.
LEMMA AddsExists ==
    ASSUME NEW S, IsFiniteSet(S), NEW f
    PROVE  \E F : Adds(F, f, S)
<1> DEFINE NextSum(F, T) == IF T = {} THEN 0 ELSE f[Chosen(T)] + F[T \ {Chosen(T)}]
           Upto(F, n) == /\ F = [T \in SUBSET S |-> F[T]]
                         /\ \A T \in SUBSET S : Cardinality(T) <= n => F[T] = NextSum(F, T)
           Missing == {n \in Nat : ~\E F : Upto(F, n)}
<1>1. \A T \in SUBSET S : IsFiniteSet(T) /\ Cardinality(T) \in Nat
  BY FS_Subset, FS_CardinalityType
<1>2. ASSUME NEW n \in Nat, \A m \in Nat : m < n => m \notin Missing
      PROVE  n \notin Missing
  <2>1. CASE n = 0
    <3> DEFINE F == [T \in SUBSET S |-> 0]
    <3>1. \A T \in SUBSET S : Cardinality(T) <= 0 => T = {}
      BY <1>1, FS_EmptySet
    <3>2. \A T \in SUBSET S : Cardinality(T) <= n => F[T] = NextSum(F, T)
      BY <2>1, <3>1
    <3>3. Upto(F, n)
      BY <3>2
    <3> QED
      BY <3>3
  <2>2. CASE n > 0
    <3>0. n - 1 \in Nat /\ n - 1 < n
      BY <2>2
    <3>1. PICK F : Upto(F, n - 1)
      BY <1>2, <3>0
    <3> DEFINE G == [T \in SUBSET S |-> IF Cardinality(T) <= n - 1 THEN F[T] ELSE NextSum(F, T)]
    <3>2. ASSUME NEW T \in SUBSET S, Cardinality(T) <= n
          PROVE  G[T] = NextSum(G, T)
      <4>1. CASE T = {}
        BY <3>1, <4>1
      <4>2. CASE T # {}
        <5>1. Chosen(T) \in T
          BY <4>2, ChosenIn
        <5>2. Cardinality(T \ {Chosen(T)}) <= n - 1 /\ T \ {Chosen(T)} \in SUBSET S
          BY <3>2, <5>1, Without
        <5>3. G[T \ {Chosen(T)}] = F[T \ {Chosen(T)}]
          BY <5>2
        <5>4. NextSum(G, T) = NextSum(F, T)
          BY <5>3
        <5>5. Cardinality(T) <= n - 1 => F[T] = NextSum(F, T)
          BY <3>1
        <5>6. G[T] = NextSum(F, T)
          BY <5>5
        <5> QED
          BY <5>4, <5>6
      <4> QED
        BY <4>1, <4>2
    <3>3. Upto(G, n)
      BY <3>2
    <3> QED
      BY <3>3
  <2>3. n = 0 \/ n > 0
    OBVIOUS
  <2> QED
    BY <2>1, <2>2, <2>3
<1>3. Missing = {}
  <2> HIDE DEF Missing
  <2>1. Missing \in SUBSET Nat
    BY DEF Missing
  <2> QED
    BY <1>2, <2>1, LeastElement
<1>4. PICK F : Upto(F, Cardinality(S))
  BY <1>1, <1>3
<1>5. \A T \in SUBSET S : Cardinality(T) <= Cardinality(S)
  BY FS_Subset
<1>6. \A T \in SUBSET S : F[T] = NextSum(F, T)
  BY <1>4, <1>5
<1>7. F = [T \in SUBSET S |-> NextSum(F, T)]
  BY <1>4, <1>6
<1>8. Adds(F, f, S)
  BY <1>7 DEF Adds
<1> QED
  BY <1>8

\* Whatever such functions there are, they agree where both are defined, if
\* what they add is the same there.
LEMMA AddsAgree ==
    ASSUME NEW R, NEW S, IsFiniteSet(R), IsFiniteSet(S), NEW e, NEW f, NEW E, NEW F,
           Adds(E, e, R), Adds(F, f, S),
           NEW T, T \subseteq R, T \subseteq S, \A x \in T : e[x] = f[x]
    PROVE  E[T] = F[T]
<1> DEFINE Wrong == {n \in Nat : \E U \in SUBSET T : Cardinality(U) = n /\ E[U] # F[U]}
<1>1. ASSUME NEW n \in Nat, \A m \in Nat : m < n => m \notin Wrong
      PROVE  n \notin Wrong
  <2> SUFFICES ASSUME NEW U \in SUBSET T, Cardinality(U) = n
               PROVE  E[U] = F[U]
    OBVIOUS
  <2>1. CASE U = {}
    BY <2>1 DEF Adds
  <2>2. CASE U # {}
    <3>1. Chosen(U) \in U
      BY <2>2, ChosenIn
    <3>2. Cardinality(U \ {Chosen(U)}) \in Nat /\ Cardinality(U \ {Chosen(U)}) < n
      BY <3>1, Without
    <3>3. E[U \ {Chosen(U)}] = F[U \ {Chosen(U)}]
      BY <1>1, <3>2
    <3>4. E[U] = e[Chosen(U)] + E[U \ {Chosen(U)}] /\ F[U] = f[Chosen(U)] + F[U \ {Chosen(U)}]
      BY <2>2 DEF Adds
    <3> QED
      BY <3>1, <3>3, <3>4
  <2> QED
    BY <2>1, <2>2
<1>2. Wrong = {}
  <2> HIDE DEF Wrong
  <2>1. Wrong \in SUBSET Nat
    BY DEF Wrong
  <2> QED
    BY <1>1, <2>1, LeastElement
<1>3. Cardinality(T) \in Nat
  BY FS_Subset, FS_CardinalityType
<1> QED
  BY <1>2, <1>3

\* So the sum over a part is what the function of the whole set has for it.
LEMMA SumOfPart ==
    ASSUME NEW S, IsFiniteSet(S), NEW f, NEW F, Adds(F, f, S), NEW T \in SUBSET S
    PROVE  SumFunctionOnSet(f, T) = F[T]
<1>1. IsFiniteSet(T)
  BY FS_Subset
<1>2. Adds(CHOOSE G : Adds(G, f, T), f, T)
  BY <1>1, AddsExists
<1>3. (CHOOSE G : Adds(G, f, T))[T] = F[T]
  BY <1>1, <1>2, AddsAgree
<1> QED
  BY <1>3, SumIsChosen

\* A sum depends on what is added only.
LEMMA SumsAgree ==
    ASSUME NEW S, IsFiniteSet(S), NEW e, NEW f, \A x \in S : e[x] = f[x]
    PROVE  SumFunctionOnSet(e, S) = SumFunctionOnSet(f, S)
<1>1. PICK E, F : Adds(E, e, S) /\ Adds(F, f, S)
  BY AddsExists
<1>2. E[S] = F[S]
  BY <1>1, AddsAgree
<1> QED
  BY <1>1, <1>2, SumOfPart

\* Nothing adds up to zero.
LEMMA SumOfNone == ASSUME NEW f PROVE SumFunctionOnSet(f, {}) = 0
<1>1. IsFiniteSet({})
  BY FS_EmptySet
<1>2. PICK F : Adds(F, f, {})
  BY <1>1, AddsExists
<1>3. F[{}] = 0
  BY <1>2 DEF Adds
<1> QED
  BY <1>1, <1>2, <1>3, SumOfPart

\* Whichever element of the set is taken first.
LEMMA SumTakes ==
    ASSUME NEW S, IsFiniteSet(S), NEW f, \A x \in S : f[x] \in Int, NEW a \in S
    PROVE  /\ SumFunctionOnSet(f, S) \in Int /\ SumFunctionOnSet(f, S \ {a}) \in Int
           /\ SumFunctionOnSet(f, S) = f[a] + SumFunctionOnSet(f, S \ {a})
<1>1. PICK F : Adds(F, f, S)
  BY AddsExists
<1> DEFINE Right(U) == F[U] \in Int /\ \A x \in U : F[U] = f[x] + F[U \ {x}]
           Wrong == {n \in Nat : \E U \in SUBSET S : Cardinality(U) = n /\ ~Right(U)}
<1>2. ASSUME NEW n \in Nat, \A m \in Nat : m < n => m \notin Wrong
      PROVE  n \notin Wrong
  <2> SUFFICES ASSUME NEW U \in SUBSET S, Cardinality(U) = n
               PROVE  Right(U)
    OBVIOUS
  <2>1. CASE U = {}
    BY <1>1, <2>1 DEF Adds
  <2>2. CASE U # {}
    <3>1. PICK c : c = Chosen(U)
      OBVIOUS
    <3>2. c \in U
      BY <2>2, <3>1, ChosenIn
    <3>3. F[U] = f[c] + F[U \ {c}]
      BY <1>1, <2>2, <3>1 DEF Adds
    <3>4. \A x \in U : Right(U \ {x})
      <4> SUFFICES ASSUME NEW x \in U PROVE Right(U \ {x})
        OBVIOUS
      <4>1. Cardinality(U \ {x}) \in Nat /\ Cardinality(U \ {x}) < n /\ U \ {x} \in SUBSET S
        BY Without
      <4>2. Cardinality(U \ {x}) \notin Wrong
        BY <1>2, <4>1
      <4> QED
        BY <4>1, <4>2
    <3>5. F[U] \in Int
      <4>1. F[U \ {c}] \in Int
        BY <3>2, <3>4
      <4>2. f[c] \in Int
        BY <3>2
      <4> QED
        BY <3>3, <4>1, <4>2
    <3>6. ASSUME NEW x \in U, x # c PROVE F[U] = f[x] + F[U \ {x}]
      <4>1. F[U \ {c}] = f[x] + F[(U \ {c}) \ {x}]
        BY <3>2, <3>4, <3>6
      <4>2. F[U \ {x}] = f[c] + F[(U \ {x}) \ {c}]
        BY <3>2, <3>4, <3>6
      <4>3. (U \ {c}) \ {x} = (U \ {x}) \ {c}
        OBVIOUS
      <4>4. PICK r : r = F[(U \ {x}) \ {c}]
        OBVIOUS
      <4>5. r \in Int
        <5>1. (U \ {x}) \ {c} \in SUBSET S
          OBVIOUS
        <5>2. Cardinality((U \ {x}) \ {c}) \in Nat /\ Cardinality((U \ {x}) \ {c}) < n
          <6>1. /\ U \ {x} \in SUBSET S /\ c \in U \ {x}
                /\ Cardinality(U \ {x}) \in Nat /\ Cardinality(U \ {x}) < n
            BY <3>2, <3>6, Without
          <6> QED
            BY <6>1, Without
        <5>3. Cardinality((U \ {x}) \ {c}) \notin Wrong
          BY <1>2, <5>2
        <5> QED
          BY <4>4, <5>1, <5>2, <5>3
      <4>6. F[U] = f[c] + (f[x] + r) /\ F[U \ {x}] = f[c] + r
        BY <3>3, <4>1, <4>2, <4>3, <4>4
      <4>7. f[c] \in Int /\ f[x] \in Int
        BY <3>2
      <4> QED
        BY <4>5, <4>6, <4>7
    <3> QED
      BY <3>3, <3>5, <3>6
  <2> QED
    BY <2>1, <2>2
<1>3. Wrong = {}
  <2> HIDE DEF Wrong
  <2>1. Wrong \in SUBSET Nat
    BY DEF Wrong
  <2> QED
    BY <1>2, <2>1, LeastElement
<1>4. \A U \in SUBSET S : Right(U)
  BY <1>3, FS_Subset, FS_CardinalityType
<1>5. Right(S) /\ Right(S \ {a})
  BY <1>4
<1>6. SumFunctionOnSet(f, S) = F[S] /\ SumFunctionOnSet(f, S \ {a}) = F[S \ {a}]
  BY <1>1, SumOfPart
<1> QED
  BY <1>5, <1>6

\* A sum of whole numbers is one.
LEMMA SumIsInt ==
    ASSUME NEW S, IsFiniteSet(S), NEW f, \A x \in S : f[x] \in Int
    PROVE  SumFunctionOnSet(f, S) \in Int
<1>1. CASE S = {}
  BY <1>1, SumOfNone
<1>2. CASE S # {}
  BY <1>2, SumTakes
<1> QED
  BY <1>1, <1>2

\* Two summands that differ in one element, and in none.
LEMMA SumChanges ==
    ASSUME NEW S, IsFiniteSet(S), NEW e, NEW f, NEW a \in S,
           \A x \in S : e[x] \in Int /\ f[x] \in Int,
           \A x \in S \ {a} : e[x] = f[x]
    PROVE  SumFunctionOnSet(e, S) = SumFunctionOnSet(f, S) + (e[a] - f[a])
<1>1. SumFunctionOnSet(e, S \ {a}) = SumFunctionOnSet(f, S \ {a})
  BY SumsAgree, FS_Subset, S \ {a} \subseteq S
<1>2. /\ SumFunctionOnSet(e, S \ {a}) \in Int
      /\ SumFunctionOnSet(e, S) = e[a] + SumFunctionOnSet(e, S \ {a})
      /\ SumFunctionOnSet(f, S) = f[a] + SumFunctionOnSet(f, S \ {a})
  BY SumTakes
<1> QED
  BY <1>1, <1>2

\* An element that is new to the set adds its summand.
LEMMA SumGrows ==
    ASSUME NEW S, IsFiniteSet(S), NEW f, NEW a, a \notin S,
           \A x \in S \cup {a} : f[x] \in Int
    PROVE  /\ IsFiniteSet(S \cup {a})
           /\ SumFunctionOnSet(f, S \cup {a}) \in Int
           /\ SumFunctionOnSet(f, S \cup {a}) = SumFunctionOnSet(f, S) + f[a]
<1>1. IsFiniteSet(S \cup {a})
  BY FS_AddElement
<1>2. (S \cup {a}) \ {a} = S
  OBVIOUS
<1>3. /\ SumFunctionOnSet(f, S \cup {a}) \in Int /\ SumFunctionOnSet(f, S) \in Int
      /\ SumFunctionOnSet(f, S \cup {a}) = f[a] + SumFunctionOnSet(f, S)
  BY <1>1, <1>2, SumTakes
<1> QED
  BY <1>1, <1>3

\* The sum of sums is the sum of both.
LEMMA SumOfBoth ==
    ASSUME NEW S, IsFiniteSet(S), NEW e, NEW f, NEW h,
           \A x \in S : e[x] \in Int /\ f[x] \in Int /\ h[x] = e[x] + f[x]
    PROVE  SumFunctionOnSet(h, S) = SumFunctionOnSet(e, S) + SumFunctionOnSet(f, S)
<1> DEFINE Wrong == {n \in Nat : \E U \in SUBSET S :
                        /\ Cardinality(U) = n
                        /\ SumFunctionOnSet(h, U) # SumFunctionOnSet(e, U) + SumFunctionOnSet(f, U)}
<1>1. ASSUME NEW n \in Nat, \A m \in Nat : m < n => m \notin Wrong
      PROVE  n \notin Wrong
  <2> SUFFICES ASSUME NEW U \in SUBSET S, Cardinality(U) = n
               PROVE  SumFunctionOnSet(h, U) = SumFunctionOnSet(e, U) + SumFunctionOnSet(f, U)
    OBVIOUS
  <2>1. CASE U = {}
    BY <2>1, SumOfNone
  <2>2. CASE U # {}
    <3>1. PICK c : c \in U
      BY <2>2
    <3>2. /\ IsFiniteSet(U) /\ U \ {c} \in SUBSET S
          /\ Cardinality(U \ {c}) \in Nat /\ Cardinality(U \ {c}) < n
      BY <3>1, Without
    <3>3. Cardinality(U \ {c}) \notin Wrong
      BY <1>1, <3>2
    <3>4. SumFunctionOnSet(h, U \ {c}) = SumFunctionOnSet(e, U \ {c}) + SumFunctionOnSet(f, U \ {c})
      BY <3>2, <3>3
    <3>5. /\ SumFunctionOnSet(e, U \ {c}) \in Int
          /\ SumFunctionOnSet(e, U) = e[c] + SumFunctionOnSet(e, U \ {c})
      BY <3>1, <3>2, SumTakes
    <3>6. /\ SumFunctionOnSet(f, U \ {c}) \in Int
          /\ SumFunctionOnSet(f, U) = f[c] + SumFunctionOnSet(f, U \ {c})
      BY <3>1, <3>2, SumTakes
    <3>7. \A x \in U : h[x] \in Int
      OBVIOUS
    <3>8. SumFunctionOnSet(h, U) = h[c] + SumFunctionOnSet(h, U \ {c})
      BY <3>1, <3>2, <3>7, SumTakes
    <3>9. h[c] = e[c] + f[c] /\ e[c] \in Int /\ f[c] \in Int
      BY <3>1
    <3> QED
      BY <3>4, <3>5, <3>6, <3>8, <3>9
  <2> QED
    BY <2>1, <2>2
<1>2. Wrong = {}
  <2> HIDE DEF Wrong
  <2>1. Wrong \in SUBSET Nat
    BY DEF Wrong
  <2> QED
    BY <1>1, <2>1, LeastElement
<1>3. Cardinality(S) \in Nat
  BY FS_CardinalityType
<1> QED
  BY <1>2, <1>3

\* No sum of numbers is negative.
LEMMA SumIsNat ==
    ASSUME NEW S, IsFiniteSet(S), NEW f, \A x \in S : f[x] \in Nat
    PROVE  SumFunctionOnSet(f, S) \in Nat
<1> DEFINE Wrong == {n \in Nat : \E U \in SUBSET S :
                        Cardinality(U) = n /\ SumFunctionOnSet(f, U) \notin Nat}
<1>1. ASSUME NEW n \in Nat, \A m \in Nat : m < n => m \notin Wrong
      PROVE  n \notin Wrong
  <2> SUFFICES ASSUME NEW U \in SUBSET S, Cardinality(U) = n
               PROVE  SumFunctionOnSet(f, U) \in Nat
    OBVIOUS
  <2>1. CASE U = {}
    BY <2>1, SumOfNone
  <2>2. CASE U # {}
    <3>1. PICK c : c \in U
      BY <2>2
    <3>2. /\ IsFiniteSet(U) /\ U \ {c} \in SUBSET S
          /\ Cardinality(U \ {c}) \in Nat /\ Cardinality(U \ {c}) < n
      BY <3>1, Without
    <3>3. Cardinality(U \ {c}) \notin Wrong
      BY <1>1, <3>2
    <3>4. SumFunctionOnSet(f, U \ {c}) \in Nat
      BY <3>2, <3>3
    <3>5. SumFunctionOnSet(f, U) = f[c] + SumFunctionOnSet(f, U \ {c})
      BY <3>1, <3>2, SumTakes
    <3>6. f[c] \in Nat
      BY <3>1
    <3> QED
      BY <3>4, <3>5, <3>6
  <2> QED
    BY <2>1, <2>2
<1>2. Wrong = {}
  <2> HIDE DEF Wrong
  <2>1. Wrong \in SUBSET Nat
    BY DEF Wrong
  <2> QED
    BY <1>1, <2>1, LeastElement
<1>3. Cardinality(S) \in Nat
  BY FS_CardinalityType
<1> QED
  BY <1>2, <1>3

\* Two parts that have nothing in common add up.
LEMMA SumOfUnion ==
    ASSUME NEW S, IsFiniteSet(S), NEW A \in SUBSET S, NEW B \in SUBSET S, A \cap B = {},
           NEW f, \A x \in S : f[x] \in Int
    PROVE  SumFunctionOnSet(f, A \cup B) = SumFunctionOnSet(f, A) + SumFunctionOnSet(f, B)
<1> DEFINE AddsUp(U) ==
               SumFunctionOnSet(f, A \cup U) = SumFunctionOnSet(f, A) + SumFunctionOnSet(f, U)
           Wrong == {n \in Nat : \E U \in SUBSET B : Cardinality(U) = n /\ ~AddsUp(U)}
<1>1. \A U \in SUBSET B : IsFiniteSet(U) /\ Cardinality(U) \in Nat /\ IsFiniteSet(A \cup U)
  BY FS_Subset, FS_CardinalityType
<1>2. SumFunctionOnSet(f, A) \in Int
  BY SumIsInt, FS_Subset
<1>3. ASSUME NEW n \in Nat, \A k \in Nat : k < n => k \notin Wrong
      PROVE  n \notin Wrong
  <2> SUFFICES ASSUME NEW U \in SUBSET B, Cardinality(U) = n PROVE AddsUp(U)
    OBVIOUS
  <2>1. CASE U = {}
    <3>1. A \cup U = A
      BY <2>1
    <3> QED
      BY <1>2, <2>1, <3>1, SumOfNone
  <2>2. CASE U # {}
    <3>1. PICK b \in U : TRUE
      BY <2>2
    <3>2. PICK V : V = U \ {b}
      OBVIOUS
    <3>3. V \in SUBSET B /\ Cardinality(V) \in Nat /\ Cardinality(V) < n
      BY <1>1, <3>2, Without
    <3>4. AddsUp(V)
      <4>1. Cardinality(V) \notin Wrong
        <5> HIDE DEF Wrong
        <5> QED
          BY <1>3, <3>3
      <4> HIDE DEF AddsUp
      <4> QED
        BY <3>3, <4>1
    <3>5. (A \cup U) \ {b} = A \cup V /\ b \in A \cup U
      BY <3>2
    <3>6. /\ SumFunctionOnSet(f, U) \in Int /\ SumFunctionOnSet(f, V) \in Int
          /\ SumFunctionOnSet(f, U) = f[b] + SumFunctionOnSet(f, V)
      BY <1>1, <3>2, SumTakes
    <3>7. PICK T : T = A \cup U
      OBVIOUS
    <3>8. IsFiniteSet(T) /\ b \in T /\ T \ {b} = A \cup V /\ \A x \in T : f[x] \in Int
      BY <1>1, <3>5, <3>7
    <3>9. SumFunctionOnSet(f, T) = f[b] + SumFunctionOnSet(f, A \cup V)
      BY <3>8, SumTakes
    <3>10. f[b] \in Int
      OBVIOUS
    <3> QED
      BY <1>2, <3>4, <3>6, <3>7, <3>9, <3>10
  <2> QED
    BY <2>1, <2>2
<1> HIDE DEF Wrong
<1>4. Wrong = {}
  <2> SUFFICES ASSUME Wrong # {} PROVE FALSE
    OBVIOUS
  <2>1. Wrong \in SUBSET Nat
    BY DEF Wrong
  <2>2. PICK n \in Wrong : \A k \in Wrong : n <= k
    BY <2>1, LeastElement
  <2> QED
    BY <1>3, <2>1, <2>2
<1> QED
  BY <1>1, <1>4 DEF Wrong

\* A part of a set adds up to no more than the set, if nothing is below zero.
LEMMA SumOfLess ==
    ASSUME NEW S, IsFiniteSet(S), NEW T \in SUBSET S, NEW f, \A x \in S : f[x] \in Nat
    PROVE  /\ SumFunctionOnSet(f, S) \in Nat /\ SumFunctionOnSet(f, T) \in Nat
           /\ SumFunctionOnSet(f, T) <= SumFunctionOnSet(f, S)
<1>1. PICK R : R = S \ T
  OBVIOUS
<1>2. R \in SUBSET S /\ T \cap R = {} /\ T \cup R = S
  BY <1>1
<1>3. IsFiniteSet(T) /\ IsFiniteSet(R)
  BY <1>2, FS_Subset
<1>4. /\ SumFunctionOnSet(f, S) \in Nat /\ SumFunctionOnSet(f, T) \in Nat
      /\ SumFunctionOnSet(f, R) \in Nat
  BY <1>2, <1>3, SumIsNat
<1>5. SumFunctionOnSet(f, T \cup R) = SumFunctionOnSet(f, T) + SumFunctionOnSet(f, R)
  <2>1. \A x \in S : f[x] \in Int
    OBVIOUS
  <2> QED
    BY <1>2, <2>1, SumOfUnion
<1> QED
  BY <1>2, <1>4, <1>5

\* The sum over one element.
LEMMA SumOfOne ==
    ASSUME NEW f, NEW a, f[a] \in Nat
    PROVE  IsFiniteSet({a}) /\ SumFunctionOnSet(f, {a}) = f[a]
<1>1. IsFiniteSet({}) /\ a \notin {} /\ {} \cup {a} = {a}
  BY FS_EmptySet
<1>2. SumFunctionOnSet(f, {}) = 0
  BY SumOfNone
<1>3. /\ IsFiniteSet({} \cup {a})
      /\ SumFunctionOnSet(f, {} \cup {a}) = SumFunctionOnSet(f, {}) + f[a]
  <2>1. \A x \in {} \cup {a} : f[x] \in Int
    OBVIOUS
  <2> QED
    BY <1>1, <2>1, SumGrows
<1> QED
  BY <1>1, <1>2, <1>3

\* Two elements.
LEMMA SumOfTwo ==
    ASSUME NEW f, NEW a, NEW b, a # b, f[a] \in Nat, f[b] \in Nat
    PROVE  IsFiniteSet({a, b}) /\ SumFunctionOnSet(f, {a, b}) = f[a] + f[b]
<1>1. PICK S : S = {a}
  OBVIOUS
<1>2. IsFiniteSet(S) /\ SumFunctionOnSet(f, S) = f[a]
  BY <1>1, SumOfOne
<1>3. b \notin S /\ S \cup {b} = {a, b} /\ \A x \in S \cup {b} : f[x] \in Int
  BY <1>1
<1>4. IsFiniteSet(S \cup {b}) /\ SumFunctionOnSet(f, S \cup {b}) = SumFunctionOnSet(f, S) + f[b]
  BY <1>2, <1>3, SumGrows
<1> QED
  BY <1>2, <1>3, <1>4

\* Three elements.
LEMMA SumOfThree ==
    ASSUME NEW f, NEW a, NEW b, NEW c, a # b, a # c, b # c,
           f[a] \in Nat, f[b] \in Nat, f[c] \in Nat
    PROVE  IsFiniteSet({a, b, c}) /\ SumFunctionOnSet(f, {a, b, c}) = f[a] + f[b] + f[c]
<1>1. /\ c \notin {a, b} /\ {a, b} \cup {c} = {a, b, c}
      /\ \A x \in {a, b} \cup {c} : f[x] \in Int
  OBVIOUS
<1>2. PICK S : S = {a, b}
  OBVIOUS
<1>3. IsFiniteSet(S) /\ SumFunctionOnSet(f, S) = f[a] + f[b]
  BY <1>2, SumOfTwo
<1>4. c \notin S /\ S \cup {c} = {a, b, c} /\ \A x \in S \cup {c} : f[x] \in Int
  BY <1>1, <1>2
<1>5. IsFiniteSet(S \cup {c}) /\ SumFunctionOnSet(f, S \cup {c}) = SumFunctionOnSet(f, S) + f[c]
  BY <1>3, <1>4, SumGrows
<1> QED
  BY <1>3, <1>4, <1>5

-----------------------------------------------------------------------------
(* FlattenSeq(): the sequences of s, one after the other.                    *)

Flattens(F, s) == F = [i \in 1 .. Len(s) |-> IF i = 1 THEN s[i] ELSE F[i - 1] \o s[i]]

\* What FlattenSeq() means, with its recursive function named.
LEMMA FlattenIsChosen ==
    ASSUME NEW s
    PROVE  FlattenSeq(s) = IF Len(s) = 0 THEN s ELSE (CHOOSE F : Flattens(F, s))[Len(s)]
BY Zenon DEF FlattenSeq, Flattens

\* There is such a function: up to each position if there is one up to the
\* position before.
LEMMA FlattensExists ==
    ASSUME NEW S, NEW s \in Seq(Seq(S))
    PROVE  \E F : Flattens(F, s)
<1> DEFINE Upto(F, n) == /\ F \in [1 .. n -> Seq(S)]
                         /\ \A i \in 1 .. n : F[i] = IF i = 1 THEN s[i] ELSE F[i - 1] \o s[i]
           Missing == {n \in Nat : n <= Len(s) /\ ~\E F : Upto(F, n)}
<1>1. ASSUME NEW n \in Nat, \A k \in Nat : k < n => k \notin Missing
      PROVE  n \notin Missing
  <2> SUFFICES ASSUME n <= Len(s) PROVE \E F : Upto(F, n)
    OBVIOUS
  <2>1. CASE n = 0
    <3>1. Upto([i \in 1 .. n |-> <<>>], n)
      BY <2>1
    <3> QED
      BY <3>1
  <2>2. CASE n > 0
    <3>1. n - 1 \in Nat /\ n - 1 < n /\ n - 1 <= Len(s)
      BY <2>2, LenProperties
    <3>2. PICK F : Upto(F, n - 1)
      BY <1>1, <3>1
    <3> DEFINE last == IF n = 1 THEN s[n] ELSE F[n - 1] \o s[n]
               H == [i \in 1 .. n |-> IF i = n THEN last ELSE F[i]]
    <3>3. last \in Seq(S)
      <4>1. s[n] \in Seq(S)
        BY <2>2, ElementOfSeq
      <4>2. n # 1 => F[n - 1] \in Seq(S)
        BY <2>2, <3>2
      <4> QED
        BY <4>1, <4>2, ConcatProperties
    <3>4. H \in [1 .. n -> Seq(S)]
      BY <2>2, <3>2, <3>3
    <3>5. ASSUME NEW i \in 1 .. n
          PROVE  H[i] = IF i = 1 THEN s[i] ELSE H[i - 1] \o s[i]
      <4>1. CASE i = n
        <5>1. i # 1 => H[i - 1] = F[n - 1]
          BY <4>1
        <5> QED
          BY <4>1, <5>1
      <4>2. CASE i # n
        <5>1. i \in 1 .. n - 1 /\ (i # 1 => i - 1 \in 1 .. n /\ i - 1 # n)
          BY <4>2
        <5>2. F[i] = IF i = 1 THEN s[i] ELSE F[i - 1] \o s[i]
          BY <3>2, <5>1
        <5>3. H[i] = F[i] /\ (i # 1 => H[i - 1] = F[i - 1])
          BY <4>2, <5>1
        <5> HIDE DEF H
        <5> QED
          BY <5>2, <5>3
      <4> QED
        BY <4>1, <4>2
    <3>6. Upto(H, n)
      <4> HIDE DEF H
      <4> QED
        BY <3>4, <3>5
    <3> QED
      BY <3>6
  <2>3. n = 0 \/ n > 0
    OBVIOUS
  <2> QED
    BY <2>1, <2>2, <2>3
<1>2. Missing = {}
  <2> HIDE DEF Missing
  <2>1. Missing \in SUBSET Nat
    BY DEF Missing
  <2> QED
    BY <1>1, <2>1, LeastElement
<1>3. PICK F : Upto(F, Len(s))
  <2>1. Len(s) \in Nat /\ Len(s) <= Len(s)
    BY LenProperties
  <2>2. Len(s) \notin Missing
    BY <1>2
  <2> QED
    BY <2>1, <2>2
<1>4. F = [i \in 1 .. Len(s) |-> F[i]]
  BY <1>3
<1>5. F = [i \in 1 .. Len(s) |-> IF i = 1 THEN s[i] ELSE F[i - 1] \o s[i]]
  BY <1>3, <1>4
<1> QED
  BY <1>5 DEF Flattens

\* F[n]: the first n sequences of s, one after the other.
Concatenations(F, s, S) == /\ F \in [0 .. Len(s) -> Seq(S)]
                     /\ F[0] = <<>>
                     /\ \A n \in 1 .. Len(s) : F[n] = F[n - 1] \o s[n]

\* FlattenSeq() returns the last of them.
LEMMA FlattenIsPrefix ==
    ASSUME NEW S, NEW s \in Seq(Seq(S))
    PROVE  \E F : Concatenations(F, s, S) /\ FlattenSeq(s) = F[Len(s)]
<1>1. Len(s) \in Nat /\ \A n \in 1 .. Len(s) : s[n] \in Seq(S)
  BY LenProperties, ElementOfSeq
<1>2. CASE Len(s) = 0
  <2>1. s = <<>>
    BY <1>2, EmptySeq
  <2>2. FlattenSeq(s) = <<>>
    BY <1>2, <2>1, FlattenIsChosen
  <2>3. Concatenations([n \in 0 .. Len(s) |-> <<>>], s, S)
    BY <1>2 DEF Concatenations
  <2> QED
    BY <1>2, <2>2, <2>3
<1>3. CASE Len(s) # 0
  <2>1. PICK G : G = (CHOOSE H : Flattens(H, s))
    OBVIOUS
  <2>2. Flattens(G, s)
    BY <2>1, FlattensExists, Zenon
  <2>3. ASSUME NEW n \in 1 .. Len(s)
        PROVE  G[n] = IF n = 1 THEN s[n] ELSE G[n - 1] \o s[n]
    BY <2>2 DEF Flattens
  <2> DEFINE Wrong == {n \in Nat : n \in 1 .. Len(s) /\ G[n] \notin Seq(S)}
  <2>4. ASSUME NEW n \in Nat, \A k \in Nat : k < n => k \notin Wrong
        PROVE  n \notin Wrong
    <3> SUFFICES ASSUME n \in 1 .. Len(s) PROVE G[n] \in Seq(S)
      OBVIOUS
    <3>1. CASE n = 1
      BY <1>1, <2>3, <3>1
    <3>2. CASE n # 1
      <4>1. n - 1 \in Nat /\ n - 1 < n /\ n - 1 \in 1 .. Len(s)
        BY <1>1, <3>2
      <4>2. G[n - 1] \in Seq(S)
        BY <2>4, <4>1
      <4>3. G[n] = G[n - 1] \o s[n]
        BY <2>3, <3>2
      <4> QED
        BY <1>1, <4>2, <4>3, ConcatProperties
    <3> QED
      BY <3>1, <3>2
  <2>5. Wrong = {}
    <3> HIDE DEF Wrong
    <3>1. Wrong \in SUBSET Nat
      BY DEF Wrong
    <3> QED
      BY <2>4, <3>1, LeastElement
  <2>6. ASSUME NEW n \in 1 .. Len(s) PROVE G[n] \in Seq(S)
    <3>1. n \in Nat
      BY <1>1
    <3> QED
      BY <2>5, <3>1
  <2> DEFINE F == [n \in 0 .. Len(s) |-> IF n = 0 THEN <<>> ELSE G[n]]
  <2>7. F \in [0 .. Len(s) -> Seq(S)]
    BY <1>1, <2>6
  <2>8. ASSUME NEW n \in 1 .. Len(s)
        PROVE  F[n] = F[n - 1] \o s[n]
    <3>1. F[n] = G[n]
      BY <1>1
    <3>2. CASE n = 1
      <4>1. F[n - 1] = <<>> /\ G[n] = s[n] /\ s[n] \in Seq(S)
        BY <1>1, <2>3, <3>2
      <4>2. <<>> \o s[n] = s[n]
        BY <4>1, ConcatEmptySeq
      <4> QED
        BY <3>1, <4>1, <4>2
    <3>3. CASE n # 1
      <4>1. F[n - 1] = G[n - 1]
        BY <1>1, <3>3
      <4> QED
        BY <2>3, <3>1, <3>3, <4>1
    <3> QED
      BY <3>2, <3>3
  <2>9. F[0] = <<>> /\ F[Len(s)] = G[Len(s)]
    BY <1>1, <1>3
  <2> HIDE DEF F
  <2>10. Concatenations(F, s, S)
    BY <2>7, <2>8, <2>9 DEF Concatenations
  <2>11. FlattenSeq(s) = G[Len(s)]
    BY <1>3, <2>1, FlattenIsChosen
  <2> QED
    BY <2>9, <2>10, <2>11
<1> QED
  BY <1>2, <1>3

\* What is concatenated from sequences over S is a sequence over S.
LEMMA FlattenIsSeq ==
    ASSUME NEW S, NEW s \in Seq(Seq(S))
    PROVE  FlattenSeq(s) \in Seq(S)
<1>1. Len(s) \in 0 .. Len(s)
  BY LenProperties
<1>2. PICK F : Concatenations(F, s, S) /\ FlattenSeq(s) = F[Len(s)]
  BY FlattenIsPrefix
<1>3. F[Len(s)] \in Seq(S)
  BY <1>1, <1>2 DEF Concatenations
<1> QED
  BY <1>2, <1>3

\* o[n]: the length of the first n sequences of s together.
Offsets(o, s) == /\ o \in [0 .. Len(s) -> Nat]
                 /\ o[0] = 0
                 /\ \A n \in 1 .. Len(s) : o[n] = o[n - 1] + Len(s[n])

\* r has every element of every sequence of s at the place its offset gives it.
LaidOut(o, s, r) == /\ Offsets(o, s)
                    /\ Len(r) = o[Len(s)]
                    /\ \A n \in 1 .. Len(s) : \A j \in 1 .. Len(s[n]) :
                          o[n - 1] + j \in 1 .. Len(r) /\ r[o[n - 1] + j] = s[n][j]

\* Offsets do not fall.
LEMMA OffsetsRise ==
    ASSUME NEW S, NEW s \in Seq(Seq(S)), NEW o, Offsets(o, s),
           NEW a \in 0 .. Len(s), NEW b \in 0 .. Len(s), a <= b
    PROVE  o[a] <= o[b]
<1>1. Len(s) \in Nat /\ \A n \in 1 .. Len(s) : Len(s[n]) \in Nat
  BY LenProperties, ElementOfSeq
<1>2. /\ \A n \in 0 .. Len(s) : o[n] \in Nat
      /\ \A n \in 1 .. Len(s) : o[n] = o[n - 1] + Len(s[n])
  BY DEF Offsets
<1> DEFINE Wrong == {n \in Nat : n \in a .. Len(s) /\ ~(o[a] <= o[n])}
<1>3. ASSUME NEW n \in Nat, \A k \in Nat : k < n => k \notin Wrong
      PROVE  n \notin Wrong
  <2> SUFFICES ASSUME n \in a .. Len(s) PROVE o[a] <= o[n]
    OBVIOUS
  <2>1. CASE n = a
    BY <1>2, <2>1
  <2>2. CASE n # a
    <3>1. n - 1 \in Nat /\ n - 1 < n /\ n - 1 \in a .. Len(s) /\ n \in 1 .. Len(s) /\ n - 1 \in 0 .. Len(s)
      BY <1>1, <2>2
    <3>2. o[a] <= o[n - 1]
      BY <1>3, <3>1
    <3>3. o[n] = o[n - 1] + Len(s[n]) /\ Len(s[n]) \in Nat /\ o[n - 1] \in Nat /\ o[a] \in Nat
      BY <1>1, <1>2, <3>1
    <3> QED
      BY <3>2, <3>3
  <2> QED
    BY <2>1, <2>2
<1>4. Wrong = {}
  <2> HIDE DEF Wrong
  <2>1. Wrong \in SUBSET Nat
    BY DEF Wrong
  <2> QED
    BY <1>3, <2>1, LeastElement, SMTT(30)
<1> QED
  BY <1>1, <1>4

\* The sequences of t are as long as the first ones of s.
StartsAsLong(t, s) == /\ Len(t) <= Len(s)
                      /\ \A n \in 1 .. Len(t) : Len(t[n]) = Len(s[n])

\* There is one way to lay sequences of the same lengths out.
LEMMA OffsetsAgree ==
    ASSUME NEW S, NEW s \in Seq(Seq(S)), NEW t \in Seq(Seq(S)), NEW o, NEW u,
           Offsets(o, s), Offsets(u, t), StartsAsLong(t, s), NEW a \in 0 .. Len(t)
    PROVE  o[a] = u[a]
<1>1. /\ Len(s) \in Nat /\ Len(t) \in Nat /\ Len(t) <= Len(s)
      /\ \A n \in 1 .. Len(t) : Len(t[n]) = Len(s[n])
  BY LenProperties DEF StartsAsLong
<1>2. /\ o[0] = u[0]
      /\ \A n \in 1 .. Len(t) : o[n] = o[n - 1] + Len(s[n]) /\ u[n] = u[n - 1] + Len(t[n])
  BY <1>1 DEF Offsets
<1> DEFINE Wrong == {n \in Nat : n \in 0 .. Len(t) /\ o[n] # u[n]}
<1>3. ASSUME NEW n \in Nat, \A k \in Nat : k < n => k \notin Wrong
      PROVE  n \notin Wrong
  <2> SUFFICES ASSUME n \in 0 .. Len(t) PROVE o[n] = u[n]
    OBVIOUS
  <2>1. CASE n = 0
    BY <1>2, <2>1
  <2>2. CASE n # 0
    <3>1. n - 1 \in Nat /\ n - 1 < n /\ n - 1 \in 0 .. Len(t) /\ n \in 1 .. Len(t)
      BY <1>1, <2>2
    <3>2. o[n - 1] = u[n - 1]
      BY <1>3, <3>1
    <3> QED
      BY <1>1, <1>2, <3>1, <3>2
  <2> QED
    BY <2>1, <2>2
<1>4. Wrong = {}
  <2> HIDE DEF Wrong
  <2>1. Wrong \in SUBSET Nat
    BY DEF Wrong
  <2> SUFFICES ASSUME Wrong # {} PROVE FALSE
    OBVIOUS
  <2>2. PICK n \in Wrong : \A k \in Wrong : n <= k
    BY <2>1, LeastElement
  <2>3. \A k \in Nat : k < n => k \notin Wrong
    BY <2>1, <2>2
  <2> QED
    BY <1>3, <2>1, <2>2, <2>3
<1> QED
  BY <1>1, <1>4

\* FlattenSeq() puts every element where the lengths before it say.
LEMMA FlattenLaysOut ==
    ASSUME NEW S, NEW s \in Seq(Seq(S))
    PROVE  \E o : LaidOut(o, s, FlattenSeq(s))
<1>1. Len(s) \in Nat /\ \A n \in 1 .. Len(s) : s[n] \in Seq(S) /\ Len(s[n]) \in Nat
  BY LenProperties, ElementOfSeq
<1>2. PICK F : Concatenations(F, s, S) /\ FlattenSeq(s) = F[Len(s)]
  BY FlattenIsPrefix
<1>3. /\ \A n \in 0 .. Len(s) : F[n] \in Seq(S) /\ Len(F[n]) \in Nat
      /\ F[0] = <<>> /\ Len(F[0]) = 0
  BY <1>2, LenProperties, EmptySeq DEF Concatenations
<1>4. ASSUME NEW n \in 1 .. Len(s)
      PROVE  /\ n - 1 \in 0 .. Len(s)
             /\ Len(F[n]) = Len(F[n - 1]) + Len(s[n])
             /\ \A x \in 1 .. Len(F[n - 1]) : F[n][x] = F[n - 1][x]
             /\ \A j \in 1 .. Len(s[n]) : F[n][Len(F[n - 1]) + j] = s[n][j]
  <2>1. n - 1 \in 0 .. Len(s)
    BY <1>1
  <2>2. F[n - 1] \in Seq(S) /\ s[n] \in Seq(S) /\ Len(F[n - 1]) \in Nat /\ Len(s[n]) \in Nat
    BY <1>1, <1>3, <2>1
  <2>3. F[n] = F[n - 1] \o s[n]
    BY <1>2 DEF Concatenations
  <2> DEFINE r == F[n - 1] \o s[n]
  <2>4. /\ Len(r) = Len(F[n - 1]) + Len(s[n])
        /\ \A x \in 1 .. Len(F[n - 1]) + Len(s[n]) :
              r[x] = IF x <= Len(F[n - 1]) THEN F[n - 1][x] ELSE s[n][x - Len(F[n - 1])]
    BY <2>2, ConcatProperties
  <2>5. r = F[n]
    BY <2>3
  <2> HIDE DEF r
  <2>6. PICK b \in Nat, c \in Nat : b = Len(F[n - 1]) /\ c = Len(s[n])
    BY <2>2
  <2>7. ASSUME NEW x \in 1 .. b PROVE r[x] = F[n - 1][x]
    <3>1. x \in 1 .. b + c /\ x <= b
      OBVIOUS
    <3> QED
      BY <2>4, <2>6, <3>1
  <2>8. ASSUME NEW j \in 1 .. c PROVE r[b + j] = s[n][j]
    <3>1. b + j \in 1 .. b + c /\ ~(b + j <= b) /\ (b + j) - b = j
      OBVIOUS
    <3> QED
      BY <2>4, <2>6, <3>1
  <2> QED
    BY <2>1, <2>4, <2>5, <2>6, <2>7, <2>8
<1> DEFINE o == [n \in 0 .. Len(s) |-> Len(F[n])]
<1>5. \A n \in 0 .. Len(s) : o[n] = Len(F[n])
  OBVIOUS
<1>6. Offsets(o, s)
  <2>1. o \in [0 .. Len(s) -> Nat]
    BY <1>3
  <2>2. o[0] = 0
    BY <1>1, <1>3
  <2>3. ASSUME NEW n \in 1 .. Len(s) PROVE o[n] = o[n - 1] + Len(s[n])
    <3>1. n \in 0 .. Len(s) /\ n - 1 \in 0 .. Len(s)
      BY <1>1
    <3> QED
      BY <1>4, <1>5, <3>1
  <2> HIDE DEF o
  <2> QED
    BY <2>1, <2>2, <2>3 DEF Offsets
<1> HIDE DEF o
<1>7. ASSUME NEW n \in 1 .. Len(s), NEW x \in 1 .. o[n]
      PROVE  x \in 1 .. o[Len(s)] /\ F[Len(s)][x] = F[n][x]
  <2>0. Len(s) \in 0 .. Len(s) /\ n \in 0 .. Len(s) /\ n <= Len(s)
    BY <1>1
  <2>1. o[n] \in Nat /\ o[Len(s)] \in Nat
    BY <1>3, <1>5, <2>0
  <2> DEFINE Wrong == {k \in Nat : k \in n .. Len(s) /\ F[k][x] # F[n][x]}
  <2>2. ASSUME NEW k \in Nat, \A l \in Nat : l < k => l \notin Wrong
        PROVE  k \notin Wrong
    <3> SUFFICES ASSUME k \in n .. Len(s), k # n PROVE F[k][x] = F[n][x]
      OBVIOUS
    <3>1. k - 1 \in Nat /\ k - 1 < k /\ k - 1 \in n .. Len(s) /\ k \in 1 .. Len(s)
          /\ k - 1 \in 0 .. Len(s) /\ n <= k - 1
      BY <1>1
    <3>2. F[k - 1][x] = F[n][x]
      BY <2>2, <3>1
    <3>3. o[n] <= o[k - 1] /\ o[k - 1] = Len(F[k - 1]) /\ o[k - 1] \in Nat
      BY <1>3, <1>5, <1>6, <2>0, <3>1, OffsetsRise
    <3>4. x \in 1 .. Len(F[k - 1])
      BY <2>1, <3>3
    <3> QED
      BY <1>4, <3>1, <3>2, <3>4
  <2>3. Wrong = {}
    <3> HIDE DEF Wrong
    <3>1. Wrong \in SUBSET Nat
      BY DEF Wrong
    <3> QED
      BY <2>2, <3>1, LeastElement
  <2>4. F[Len(s)][x] = F[n][x]
    BY <1>1, <2>3
  <2>5. o[n] <= o[Len(s)]
    BY <1>6, <2>0, OffsetsRise
  <2> QED
    BY <2>1, <2>4, <2>5
<1>8. ASSUME NEW n \in 1 .. Len(s), NEW j \in 1 .. Len(s[n])
      PROVE  o[n - 1] + j \in 1 .. o[Len(s)] /\ F[Len(s)][o[n - 1] + j] = s[n][j]
  <2>1. n - 1 \in 0 .. Len(s) /\ n \in 0 .. Len(s)
    BY <1>1
  <2>2. PICK b \in Nat, c \in Nat, e \in Nat :
             b = o[n - 1] /\ c = Len(s[n]) /\ e = o[n] /\ e = b + c /\ b = Len(F[n - 1])
    BY <1>1, <1>3, <1>4, <1>5, <2>1
  <2>3. b + j \in 1 .. e
    <3>1. j \in 1 .. c
      BY <2>2
    <3>2. e = b + c
      BY <2>2
    <3> QED
      BY <3>1, <3>2
  <2>4. F[n][b + j] = s[n][j]
    BY <1>4, <2>2
  <2> QED
    BY <1>7, <2>2, <2>3, <2>4
<1>9. o[Len(s)] = Len(FlattenSeq(s))
  BY <1>1, <1>2, <1>5
<1> QED
  BY <1>2, <1>6, <1>8, <1>9 DEF LaidOut

\* Position x is the place of an element of one of the sequences of s.
LaidDown(o, s, x) == \E n \in 1 .. Len(s) : \E j \in 1 .. Len(s[n]) : x = o[n - 1] + j

\* Every position of the result is the place of one element.
LEMMA EveryPositionIsPlaced ==
    ASSUME NEW S, NEW s \in Seq(Seq(S)), NEW r, NEW o, LaidOut(o, s, r),
           NEW x \in 1 .. Len(r)
    PROVE  LaidDown(o, s, x)
<1>1. Len(s) \in Nat /\ \A n \in 1 .. Len(s) : Len(s[n]) \in Nat
  BY LenProperties, ElementOfSeq
<1>2. /\ \A n \in 0 .. Len(s) : o[n] \in Nat
      /\ \A n \in 1 .. Len(s) : o[n] = o[n - 1] + Len(s[n])
      /\ o[0] = 0 /\ Len(r) = o[Len(s)]
  BY DEF LaidOut, Offsets
<1> DEFINE Reached == {n \in Nat : n \in 0 .. Len(s) /\ x <= o[n]}
<1>3. Len(s) \in Reached
  BY <1>1, <1>2
<1>4. PICK n \in Reached : \A k \in Reached : n <= k
  <2> HIDE DEF Reached
  <2>1. Reached \in SUBSET Nat
    BY DEF Reached
  <2> QED
    BY <1>3, <2>1, LeastElement
<1>5. n \in 1 .. Len(s) /\ n - 1 \in 0 .. Len(s)
  BY <1>1, <1>2
<1>6. o[n - 1] < x
  BY <1>2, <1>4, <1>5
<1>7. PICK b \in Nat, c \in Nat, e \in Nat : b = o[n - 1] /\ c = Len(s[n]) /\ e = o[n] /\ e = b + c
  <2>1. Len(s[n]) \in Nat /\ o[n - 1] \in Nat /\ o[n] \in Nat /\ o[n] = o[n - 1] + Len(s[n])
    BY <1>1, <1>2, <1>5
  <2> QED
    BY <2>1
<1>8. x <= e /\ b < x /\ x \in Nat
  BY <1>2, <1>4, <1>6, <1>7
<1>9. x - b \in 1 .. c /\ x = b + (x - b)
  <2>1. e = b + c /\ x <= e /\ b < x /\ x \in Nat
    BY <1>7, <1>8, Zenon
  <2> HIDE DEF Reached
  <2>2. x - b \in Nat /\ x - b <= c /\ x - b >= 1
    BY ONLY <2>1, <1>7, SMTT(30)
  <2>3. x = b + (x - b)
    BY ONLY <2>1, SMTT(30)
  <2> QED
    BY <2>2, <2>3
<1> QED
  BY <1>5, <1>7, <1>9 DEF LaidDown

\* No two elements are put at the same position.
LEMMA PlacesDiffer ==
    ASSUME NEW S, NEW s \in Seq(Seq(S)), NEW o, Offsets(o, s),
           NEW n \in 1 .. Len(s), NEW j \in 1 .. Len(s[n]),
           NEW m \in 1 .. Len(s), NEW k \in 1 .. Len(s[m]),
           o[n - 1] + j = o[m - 1] + k
    PROVE  n = m /\ j = k
<1>1. Len(s) \in Nat /\ \A a \in 1 .. Len(s) : Len(s[a]) \in Nat
  BY LenProperties, ElementOfSeq
<1>2. /\ \A a \in 0 .. Len(s) : o[a] \in Nat
      /\ \A a \in 1 .. Len(s) : o[a] = o[a - 1] + Len(s[a])
  BY DEF Offsets
<1>3. ASSUME NEW a \in 1 .. Len(s), NEW x \in 1 .. Len(s[a]),
             NEW b \in 1 .. Len(s), NEW y \in 1 .. Len(s[b]), a < b
      PROVE  o[a - 1] + x < o[b - 1] + y
  <2>1. a \in 0 .. Len(s) /\ b - 1 \in 0 .. Len(s) /\ a <= b - 1 /\ a - 1 \in 0 .. Len(s)
    BY <1>1, <1>3, SMTT(30)
  <2>2. o[a] <= o[b - 1]
    BY <2>1, OffsetsRise
  <2>3. PICK c \in Nat, d \in Nat, e \in Nat :
             c = o[a - 1] /\ d = Len(s[a]) /\ e = o[b - 1] /\ o[a] = c + d
    BY <1>1, <1>2, <2>1
  <2>4. c + d <= e
    BY <2>2, <2>3
  <2>5. x \in 1 .. d /\ y \in Nat /\ y >= 1
    BY <1>1, <2>3
  <2>6. c + x < e + y
    BY <2>4, <2>5
  <2> QED
    BY <2>3, <2>6
<1>4. n - 1 \in 0 .. Len(s) /\ m - 1 \in 0 .. Len(s)
  BY <1>1
<1>5. o[n - 1] \in Nat /\ o[m - 1] \in Nat
  BY <1>2, <1>4
<1>6. n = m
  BY <1>1, <1>3, <1>5, SMTT(30)
<1> QED
  BY <1>1, <1>5, <1>6

\* Every element of r is that of one sequence of s.
TakenFrom(from, s, r) ==
    /\ from \in [1 .. Len(r) -> 1 .. Len(s)]
    /\ \A x \in 1 .. Len(r) : Len(s[from[x]]) = 1 /\ r[x] = s[from[x]][1]
    /\ \A x, y \in 1 .. Len(r) : from[x] = from[y] => x = y
    /\ \A n \in 1 .. Len(s) : s[n] # <<>> => \E x \in 1 .. Len(r) : from[x] = n

\* From sequences of at most one element the result takes each of those that
\* are not empty, once and in turn.
LEMMA FlattenOfSingles ==
    ASSUME NEW S, NEW s \in Seq(Seq(S)), \A n \in 1 .. Len(s) : Len(s[n]) <= 1
    PROVE  \E from : TakenFrom(from, s, FlattenSeq(s))
<1> DEFINE r == FlattenSeq(s)
<1>1. Len(s) \in Nat /\ \A n \in 1 .. Len(s) : Len(s[n]) \in Nat
  BY LenProperties, ElementOfSeq
<1>2. PICK o : LaidOut(o, s, r)
  BY FlattenLaysOut
<1>3. Offsets(o, s)
  BY <1>2 DEF LaidOut
<1> HIDE DEF r
<1> DEFINE At(x, n) == 1 \in 1 .. Len(s[n]) /\ x = o[n - 1] + 1
<1>4. ASSUME NEW x \in 1 .. Len(r)
      PROVE  \E n \in 1 .. Len(s) : At(x, n)
  <2>1. PICK n \in 1 .. Len(s) : \E j \in 1 .. Len(s[n]) : x = o[n - 1] + j
    <3>1. LaidDown(o, s, x)
      BY <1>2, EveryPositionIsPlaced
    <3> QED
      BY <3>1 DEF LaidDown
  <2>2. PICK j \in 1 .. Len(s[n]) : x = o[n - 1] + j
    BY <2>1
  <2>3. j = 1
    BY <1>1, <2>2
  <2> QED
    BY <2>2, <2>3
<1> DEFINE from == [x \in 1 .. Len(r) |-> CHOOSE n \in 1 .. Len(s) : At(x, n)]
<1>5. ASSUME NEW x \in 1 .. Len(r)
      PROVE  from[x] \in 1 .. Len(s) /\ At(x, from[x])
  <2>1. from[x] = CHOOSE n \in 1 .. Len(s) : At(x, n)
    OBVIOUS
  <2> HIDE DEF At, from
  <2> QED
    BY <1>4, <2>1
<1>6. from \in [1 .. Len(r) -> 1 .. Len(s)]
  <2>1. from = [x \in 1 .. Len(r) |-> from[x]]
    OBVIOUS
  <2> HIDE DEF from
  <2> QED
    BY <1>5, <2>1
<1> HIDE DEF from
<1>7. ASSUME NEW x \in 1 .. Len(r)
      PROVE  Len(s[from[x]]) = 1 /\ r[x] = s[from[x]][1]
  <2>1. PICK n \in 1 .. Len(s) : n = from[x]
    BY <1>5
  <2>2. 1 \in 1 .. Len(s[n]) /\ x = o[n - 1] + 1
    BY <1>5, <2>1
  <2>3. Len(s[n]) = 1
    <3>1. PICK c \in Nat : c = Len(s[n])
      BY <1>1
    <3>2. c <= 1 /\ 1 <= c
      BY <2>2, <3>1
    <3>3. c = 1
      BY <3>2
    <3> QED
      BY <3>1, <3>3, Zenon
  <2>4. r[o[n - 1] + 1] = s[n][1]
    BY <1>2, <2>2 DEF LaidOut
  <2> QED
    BY <2>1, <2>2, <2>3, <2>4
<1>8. \A x, y \in 1 .. Len(r) : from[x] = from[y] => x = y
  BY <1>5
<1>9. ASSUME NEW n \in 1 .. Len(s), s[n] # <<>>
      PROVE  \E x \in 1 .. Len(r) : from[x] = n
  <2>1. Len(s[n]) # 0 /\ Len(s[n]) \in Nat /\ s[n] \in Seq(S)
    BY <1>9, ElementOfSeq, EmptySeq
  <2>2. 1 \in 1 .. Len(s[n])
    BY <2>1
  <2>3. PICK x : x = o[n - 1] + 1 /\ x \in 1 .. Len(r)
    BY <1>2, <2>2 DEF LaidOut
  <2>4. At(x, from[x]) /\ from[x] \in 1 .. Len(s)
    BY <1>5, <2>3
  <2>5. from[x] = n
    BY <1>3, <2>2, <2>3, <2>4, PlacesDiffer
  <2> QED
    BY <2>3, <2>5
<1>10. TakenFrom(from, s, r)
  BY <1>6, <1>7, <1>8, <1>9 DEF TakenFrom
<1> QED
  BY <1>10 DEF r

\* r has the elements of s at the positions K, each once.
KeptAs(at, s, K, r) ==
    /\ at \in [1 .. Len(r) -> 1 .. Len(s)]
    /\ \A x \in 1 .. Len(r) : at[x] \in K /\ r[x] = s[at[x]]
    /\ \A x, y \in 1 .. Len(r) : at[x] = at[y] => x = y
    /\ \A k \in 1 .. Len(s) : k \in K => \E x \in 1 .. Len(r) : at[x] = k

\* Kept(s, K) has the elements of s at K, each once.
LEMMA KeptFacts ==
    ASSUME NEW S, NEW s \in Seq(S), NEW K
    PROVE  Kept(s, K) \in Seq(S) /\ \E at : KeptAs(at, s, K, Kept(s, K))
<1> DEFINE t == [k \in DOMAIN s |-> IF k \in K THEN <<s[k]>> ELSE <<>>]
<1>1. Len(s) \in Nat /\ DOMAIN s = 1 .. Len(s) /\ \A k \in 1 .. Len(s) : s[k] \in S
  BY LenProperties, ElementOfSeq
<1>2. t \in Seq(Seq(S)) /\ Len(t) = Len(s)
  <2>1. t \in [1 .. Len(s) -> Seq(S)]
    BY <1>1
  <2> QED
    BY <1>1, <2>1
<1>3. \A k \in 1 .. Len(s) : t[k] = IF k \in K THEN <<s[k]>> ELSE <<>>
  BY <1>1
<1>4. Kept(s, K) = FlattenSeq(t)
  BY DEF Kept
<1> HIDE DEF t
<1>5. \A k \in 1 .. Len(s) : /\ Len(t[k]) <= 1
                             /\ Len(t[k]) = 1 => k \in K /\ t[k][1] = s[k]
                             /\ k \in K => t[k] # <<>>
  <2> SUFFICES ASSUME NEW k \in 1 .. Len(s)
               PROVE  /\ Len(t[k]) <= 1
                      /\ Len(t[k]) = 1 => k \in K /\ t[k][1] = s[k]
                      /\ k \in K => t[k] # <<>>
    OBVIOUS
  <2>1. CASE k \in K
    <3>1. t[k] = <<s[k]>>
      BY <1>3, <2>1
    <3> QED
      BY <2>1, <3>1
  <2>2. CASE k \notin K
    <3>1. t[k] = <<>>
      BY <1>3, <2>2
    <3> QED
      BY <2>2, <3>1
  <2> QED
    BY <2>1, <2>2
<1>6. \A k \in 1 .. Len(t) : Len(t[k]) <= 1
  BY <1>2, <1>5
<1>7. PICK from : TakenFrom(from, t, FlattenSeq(t))
  BY <1>2, <1>6, FlattenOfSingles
<1>8. KeptAs(from, s, K, FlattenSeq(t))
  BY <1>2, <1>5, <1>7 DEF TakenFrom, KeptAs
<1> QED
  BY <1>2, <1>4, <1>8, FlattenIsSeq

-----------------------------------------------------------------------------
(* One sequence behind another, one element in place of another, powers of   *)
(* two, and the largest of a few.                                           *)

\* Of the elements of a finite set one has the largest number.
LEMMA OneIsLargest ==
    ASSUME NEW n \in Nat, NEW K \in SUBSET (1 .. n), K # {}, NEW f, \A x \in K : f[x] \in Nat
    PROVE  \E x \in K : \A y \in K : f[y] <= f[x]
<1> DEFINE Largest(m, x) == x \in K /\ \A y \in K : y <= m => f[y] <= f[x]
           Wrong == {m \in Nat : ~\E x : Largest(m, x)}
<1>1. ASSUME NEW m \in Nat, \A l \in Nat : l < m => l \notin Wrong
      PROVE  m \notin Wrong
  <2>1. CASE m = 0
    <3>1. PICK x \in K : TRUE
      OBVIOUS
    <3>2. Largest(m, x)
      BY <2>1
    <3> QED
      BY <3>2
  <2>2. CASE m # 0
    <3>1. m - 1 \in Nat /\ m - 1 < m
      BY <2>2
    <3>2. PICK x : Largest(m - 1, x)
      BY <1>1, <3>1
    <3>3. x \in K /\ \A y \in K : y <= m - 1 => f[y] <= f[x]
      BY <3>2
    <3>4. \A y \in K : y \in Int
      OBVIOUS
    <3>5. CASE m \in K /\ f[x] <= f[m]
      <4>1. ASSUME NEW y \in K, y <= m PROVE f[y] <= f[m]
        <5>1. y = m \/ y <= m - 1
          BY <3>4, <4>1
        <5>2. f[y] \in Nat /\ f[m] \in Nat /\ f[x] \in Nat
          BY <3>3, <3>5
        <5>3. CASE y = m
          BY <5>2, <5>3
        <5>4. CASE y <= m - 1
          BY <3>3, <3>5, <5>2, <5>4
        <5> QED
          BY <5>1, <5>3, <5>4
      <4>2. Largest(m, m)
        BY <3>5, <4>1
      <4> QED
        BY <4>2
    <3>6. CASE ~(m \in K /\ f[x] <= f[m])
      <4>1. ASSUME NEW y \in K, y <= m PROVE f[y] <= f[x]
        <5>1. y = m \/ y <= m - 1
          BY <3>4, <4>1
        <5>2. f[y] \in Nat /\ f[x] \in Nat
          BY <3>3
        <5>3. CASE y = m
          <6>1. ~(f[x] <= f[y])
            BY <3>6, <5>3
          <6> QED
            BY <5>2, <6>1
        <5>4. CASE y <= m - 1
          BY <3>3, <5>4
        <5> QED
          BY <5>1, <5>3, <5>4
      <4>2. Largest(m, x)
        BY <3>3, <4>1
      <4> QED
        BY <4>2
    <3> QED
      BY <3>5, <3>6
  <2> QED
    BY <2>1, <2>2
<1>2. Wrong = {}
  <2> HIDE DEF Wrong
  <2>1. Wrong \in SUBSET Nat
    BY DEF Wrong
  <2> QED
    BY <1>1, <2>1, LeastElement
<1>3. PICK x : Largest(n, x)
  BY <1>2
<1> QED
  BY <1>3

\* q has the elements of s and behind them those of r.
Joins(q, s, r, S) == /\ q \in Seq(S) /\ Len(q) = Len(s) + Len(r)
                     /\ \A n \in 1 .. Len(s) : q[n] = s[n]
                     /\ \A n \in 1 .. Len(r) : q[Len(s) + n] = r[n]

\* Two sequences, one behind the other.
LEMMA ConcatJoins ==
    ASSUME NEW S, NEW s \in Seq(S), NEW r \in Seq(S)
    PROVE  Joins(s \o r, s, r, S)
<1>1. Len(s) \in Nat /\ Len(r) \in Nat
  BY LenProperties
<1>2. s \o r \in Seq(S) /\ Len(s \o r) = Len(s) + Len(r)
  OBVIOUS
<1>3. \A n \in 1 .. Len(s) : (s \o r)[n] = s[n]
  BY <1>1
<1>4. \A n \in 1 .. Len(r) : (s \o r)[Len(s) + n] = r[n]
  BY <1>1
<1> QED
  BY <1>2, <1>3, <1>4 DEF Joins

\* F has the powers of two.
Doubles(F, n) == F = [b \in 0 .. n |-> IF b = 0 THEN 1 ELSE 2 * F[b - 1]]

\* There is such a function, and its last power exceeds n.
LEMMA DoublesExists ==
    ASSUME NEW n \in Nat
    PROVE  \E F : Doubles(F, n)
<1> DEFINE Missing == {m \in Nat : ~\E F \in [0 .. m -> Nat] : Doubles(F, m)}
<1>1. ASSUME NEW m \in Nat, \A l \in Nat : l < m => l \notin Missing
      PROVE  m \notin Missing
  <2>1. CASE m = 0
    <3> DEFINE F == [b \in 0 .. m |-> 1]
    <3>1. F \in [0 .. m -> Nat] /\ Doubles(F, m)
      BY <2>1 DEF Doubles
    <3> QED
      BY <3>1
  <2>2. CASE m # 0
    <3>1. m - 1 \in Nat /\ m - 1 < m
      BY <2>2
    <3>2. PICK F \in [0 .. m - 1 -> Nat] : Doubles(F, m - 1)
      BY <1>1, <3>1
    <3> DEFINE G == [b \in 0 .. m |-> IF b = m THEN 2 * F[m - 1] ELSE F[b]]
    <3>3. \A b \in 0 .. m - 1 : F[b] = IF b = 0 THEN 1 ELSE 2 * F[b - 1]
      BY <3>2 DEF Doubles
    <3>4. F[m - 1] \in Nat
      BY <3>1, <3>2
    <3>5. \A b \in 0 .. m : b # m => b \in 0 .. m - 1
      OBVIOUS
    <3>6. G \in [0 .. m -> Nat]
      BY <3>2, <3>4, <3>5
    <3>7. ASSUME NEW b \in 0 .. m PROVE G[b] = IF b = 0 THEN 1 ELSE 2 * G[b - 1]
      <4>1. CASE b = m
        <5>1. b - 1 \in 0 .. m /\ b - 1 # m
          BY <2>2, <4>1
        <5>2. G[b] = 2 * F[m - 1] /\ G[b - 1] = F[m - 1]
          BY <4>1, <5>1
        <5> HIDE DEF G
        <5> QED
          BY <2>2, <4>1, <5>2
      <4>2. CASE b # m
        <5>1. G[b] = F[b] /\ (b # 0 => G[b - 1] = F[b - 1])
          BY <4>2
        <5> HIDE DEF G
        <5> QED
          BY <3>3, <3>5, <4>2, <5>1
      <4> QED
        BY <4>1, <4>2
    <3>8. G = [b \in 0 .. m |-> G[b]]
      OBVIOUS
    <3> HIDE DEF G
    <3>9. Doubles(G, m)
      BY <3>7, <3>8 DEF Doubles
    <3> QED
      BY <3>6, <3>9
  <2> QED
    BY <2>1, <2>2
<1>2. Missing = {}
  <2> HIDE DEF Missing
  <2>1. Missing \in SUBSET Nat
    BY DEF Missing
  <2> QED
    BY <1>1, <2>1, LeastElement
<1> QED
  BY <1>2

\* The powers of two are numbers, and the one of n exceeds n.
LEMMA DoublesFacts ==
    ASSUME NEW n \in Nat, NEW F, Doubles(F, n)
    PROVE  (\A b \in 0 .. n : F[b] \in Nat /\ F[b] > b)
<1>1. \A b \in 0 .. n : F[b] = IF b = 0 THEN 1 ELSE 2 * F[b - 1]
  BY DEF Doubles
<1> DEFINE Wrong == {b \in Nat : b \in 0 .. n /\ ~(F[b] \in Nat /\ F[b] > b)}
<1>2. ASSUME NEW b \in Nat, \A c \in Nat : c < b => c \notin Wrong
      PROVE  b \notin Wrong
  <2> SUFFICES ASSUME b \in 0 .. n PROVE F[b] \in Nat /\ F[b] > b
    OBVIOUS
  <2>1. CASE b = 0
    BY <1>1, <2>1
  <2>2. CASE b # 0
    <3>1. b - 1 \in Nat /\ b - 1 < b /\ b - 1 \in 0 .. n
      BY <2>2
    <3>2. PICK v \in Nat : v = F[b - 1] /\ v > b - 1
      BY <1>2, <3>1
    <3>3. F[b] = 2 * v
      BY <1>1, <2>2, <3>2
    <3> QED
      BY <2>2, <3>2, <3>3
  <2> QED
    BY <2>1, <2>2
<1>3. Wrong = {}
  <2> HIDE DEF Wrong
  <2>1. Wrong \in SUBSET Nat
    BY DEF Wrong
  <2> QED
    BY <1>2, <2>1, LeastElement
<1> QED
  BY <1>3

\* The sequences before the m-th are as long together as its offset.
LEMMA LengthBefore ==
    ASSUME NEW S, NEW s \in Seq(Seq(S)), NEW o, Offsets(o, s), NEW m \in 1 .. Len(s)
    PROVE  Len(FlattenSeq(SubSeq(s, 1, m - 1))) = o[m - 1]
<1> DEFINE sub == SubSeq(s, 1, m - 1)
<1>1. Len(s) \in Nat /\ \A n \in 1 .. Len(s) : s[n] \in Seq(S)
  BY LenProperties, ElementOfSeq
<1>2. m - 1 \in Int /\ (1 <= m - 1 => m - 1 - 1 + 1 = m - 1) /\ (~(1 <= m - 1) => m - 1 = 0)
  BY <1>1
<1>3. \A n \in 1 .. m - 1 : s[n] \in Seq(S)
  BY <1>1
<1>4. /\ sub \in Seq(Seq(S))
      /\ Len(sub) = IF 1 <= m - 1 THEN m - 1 - 1 + 1 ELSE 0
      /\ \A n \in 1 .. m - 1 - 1 + 1 : sub[n] = s[1 + n - 1]
  BY <1>2, <1>3, SubSeqProperties
<1> HIDE DEF sub
<1>5. Len(sub) = m - 1
  BY <1>2, <1>4
<1>6. ASSUME NEW n \in 1 .. m - 1 PROVE sub[n] = s[n]
  <2>1. n \in 1 .. m - 1 - 1 + 1 /\ 1 + n - 1 = n
    BY <1>2
  <2> QED
    BY <1>4, <2>1
<1>7. PICK u : LaidOut(u, sub, FlattenSeq(sub))
  BY <1>4, FlattenLaysOut
<1>8. Offsets(u, sub) /\ Len(FlattenSeq(sub)) = u[m - 1]
  BY <1>5, <1>7 DEF LaidOut
<1>9. Len(sub) <= Len(s) /\ m - 1 \in 0 .. Len(sub)
  BY <1>1, <1>5
<1>10. StartsAsLong(sub, s)
  BY <1>5, <1>6, <1>9 DEF StartsAsLong
<1>11. PICK a \in 0 .. Len(sub) : a = m - 1
  BY <1>9
<1>12. o[a] = u[a]
  BY <1>4, <1>8, <1>10, OffsetsAgree
<1> QED
  BY <1>8, <1>11, <1>12, Zenon DEF sub

\* Sequences of the same lengths have the same offsets.
LEMMA OffsetsOfOther ==
    ASSUME NEW s, NEW r, NEW o, Offsets(o, s), Len(r) = Len(s),
           \A m \in 1 .. Len(s) : Len(r[m]) = Len(s[m])
    PROVE  Offsets(o, r)
BY DEF Offsets

\* What is laid out by the same offsets has the same length.
LEMMA LaidOutBy ==
    ASSUME NEW S, NEW s \in Seq(Seq(S)), NEW o, Offsets(o, s)
    PROVE  LaidOut(o, s, FlattenSeq(s))
<1>1. PICK u : LaidOut(u, s, FlattenSeq(s))
  BY FlattenLaysOut
<1>2. Offsets(u, s)
  BY <1>1 DEF LaidOut
<1>3. StartsAsLong(s, s) /\ Len(s) \in Nat
  BY LenProperties DEF StartsAsLong
<1>4. \A a \in 0 .. Len(s) : o[a] = u[a]
  BY <1>2, <1>3, OffsetsAgree
<1>5. \A n \in 1 .. Len(s) : n - 1 \in 0 .. Len(s)
  BY <1>3
<1>6. Len(s) \in 0 .. Len(s)
  BY <1>3
<1> QED
  BY <1>1, <1>4, <1>5, <1>6 DEF LaidOut

\* The head of a sequence replaced.
LEMMA HeadReplaced ==
    ASSUME NEW S, NEW s \in Seq(S), s # <<>>, NEW c \in S
    PROVE  <<c>> \o Tail(s) = [s EXCEPT ![1] = c]
<1> DEFINE q == <<c>> \o Tail(s)
           r == [s EXCEPT ![1] = c]
<1>1. /\ Len(s) \in Nat /\ Len(s) # 0 /\ Tail(s) \in Seq(S) /\ Len(Tail(s)) = Len(s) - 1
      /\ \A n \in 1 .. Len(Tail(s)) : Tail(s)[n] = s[n + 1]
  BY LenProperties, EmptySeq, HeadTailProperties
<1>2. <<c>> \in Seq(S) /\ Len(<<c>>) = 1 /\ <<c>>[1] = c
  OBVIOUS
<1>3. PICK u, v : u = <<c>> /\ v = Tail(s)
  OBVIOUS
<1>4. Joins(q, u, v, S)
  BY <1>1, <1>2, <1>3, ConcatJoins
<1> HIDE DEF q
<1>5. PICK b \in Nat : b = Len(Tail(s))
  BY <1>1, LenProperties
<1>13. Len(s) = 1 + b
  BY <1>1, <1>5
<1>6. q \in Seq(S) /\ Len(q) = 1 + b /\ Len(s) = 1 + b
  BY <1>2, <1>3, <1>4, <1>5, <1>13 DEF Joins
<1>7. q[1] = c
  BY <1>2, <1>3, <1>4 DEF Joins
<1>8. \A n \in 1 .. b : q[1 + n] = s[1 + n]
  <2>1. \A n \in 1 .. Len(v) : q[1 + n] = v[n]
    BY <1>2, <1>3, <1>4 DEF Joins
  <2>2. Len(v) = b /\ \A n \in 1 .. b : v[n] = s[n + 1]
    BY <1>1, <1>3, <1>5
  <2> SUFFICES ASSUME NEW n \in 1 .. b PROVE q[1 + n] = s[1 + n]
    OBVIOUS
  <2>3. PICK m : m = n + 1 /\ m = 1 + n
    OBVIOUS
  <2>4. q[m] = v[n] /\ v[n] = s[m]
    BY <2>1, <2>2, <2>3
  <2> QED
    BY <2>3, <2>4
<1>9. r \in Seq(S) /\ Len(r) = 1 + b /\ r[1] = c /\ \A n \in 1 .. 1 + b : n # 1 => r[n] = s[n]
  BY <1>1, <1>6, ExceptSeq
<1> HIDE DEF r
<1>10. ASSUME NEW n \in 1 .. 1 + b PROVE q[n] = r[n]
  <2>1. CASE n = 1
    BY <1>7, <1>9, <2>1
  <2>2. CASE n # 1
    <3>1. n - 1 \in 1 .. b /\ 1 + (n - 1) = n
      BY <2>2
    <3>2. q[n] = s[n]
      BY <1>8, <3>1
    <3> QED
      BY <1>9, <2>2, <3>2
  <2> QED
    BY <2>1, <2>2
<1>11. q = [n \in 1 .. 1 + b |-> q[n]] /\ r = [n \in 1 .. 1 + b |-> r[n]]
  BY <1>6, <1>9, LenProperties
<1>12. q = r
  BY <1>10, <1>11
<1> QED
  BY <1>12 DEF q, r
=============================================================================
