------------------------------ MODULE JaxProofs ------------------------------
(***************************************************************************)
(* The proofs about mimic_jax.                                             *)
(*                                                                         *)
(* First what holds of one FoF group through one snapshot interval (module *)
(* GroupBaryons), for every group, number of substeps, yield, set of       *)
(* merger clocks and threshold: what each process of module Reservoirs     *)
(* does to a galaxy, or to a galaxy and its central (it leaves galaxies,   *)
(* and brings them together x baryons and z metals: Gains, Shares), what   *)
(* that means for the sum over the members, where the process writes one   *)
(* record or two (Balance), then the invariant IInv, action by action, and *)
(* the theorems.                                                           *)
(*                                                                         *)
(* Then what holds of the partition driver (module JaxPartition), for      *)
(* every partition of well-formed trees and all settings of the batches:   *)
(* what a task gathers (TaskOK), what the kernel and the marshalling make  *)
(* of it (ResultOK, MarshalledOK), which groups wait where (Accounted),    *)
(* then the invariant CallInv, action by action, and the theorems.         *)
(***************************************************************************)
EXTENDS GroupBaryons, JaxPartition, NumberFacts

-----------------------------------------------------------------------------
(* The reservoirs of a galaxy. *)

\* There are six reservoirs.
LEMMA ReservoirsAreFinite == IsFiniteSet(Masses) /\ IsFiniteSet(Tracked)
<1>1. IsFiniteSet({}) /\ IsFiniteSet({} \cup {"cold"})
  BY FS_EmptySet, FS_AddElement
<1>2. IsFiniteSet((({} \cup {"cold"}) \cup {"hot"}) \cup {"ejected"})
  BY <1>1, FS_AddElement
<1>3. IsFiniteSet(((((({} \cup {"cold"}) \cup {"hot"}) \cup {"ejected"}) \cup {"stars"}) \cup {"ics"}))
  BY <1>2, FS_AddElement
<1>4. IsFiniteSet(Tracked)
  <2>1. (((({} \cup {"cold"}) \cup {"hot"}) \cup {"ejected"}) \cup {"stars"}) \cup {"ics"} = Tracked
    BY DEF Tracked
  <2> QED
    BY <1>3, <2>1
<1>5. IsFiniteSet(Masses)
  BY <1>4, FS_AddElement DEF Masses
<1> QED
  BY <1>4, <1>5

\* The sum over the five reservoirs with metals, and over all six.
LEMMA SumOfTracked ==
    ASSUME NEW f, \A r \in Tracked : f[r] \in Int
    PROVE  /\ SumFunctionOnSet(f, Tracked) \in Int
           /\ SumFunctionOnSet(f, Tracked)
                 = f["cold"] + f["hot"] + f["ejected"] + f["stars"] + f["ics"]
<1>0. /\ f["cold"] \in Int /\ f["hot"] \in Int /\ f["ejected"] \in Int
      /\ f["stars"] \in Int /\ f["ics"] \in Int
  BY DEF Tracked
<1> DEFINE S0 == {}
           S1 == S0 \cup {"cold"}
           S2 == S1 \cup {"hot"}
           S3 == S2 \cup {"ejected"}
           S4 == S3 \cup {"stars"}
           S5 == S4 \cup {"ics"}
<1>a. /\ "cold" \notin S0 /\ "hot" \notin S1 /\ "ejected" \notin S2
      /\ "stars" \notin S3 /\ "ics" \notin S4
  OBVIOUS
<1>b. S1 \subseteq Tracked /\ S2 \subseteq Tracked /\ S3 \subseteq Tracked /\ S4 \subseteq Tracked
      /\ S5 \subseteq Tracked
  BY DEF Tracked
<1>c. S5 = Tracked
  BY DEF Tracked
<1>d. IsFiniteSet(S0) /\ SumFunctionOnSet(f, S0) = 0
  BY SumOfNone, FS_EmptySet
<1>1. IsFiniteSet(S1) /\ SumFunctionOnSet(f, S1) = SumFunctionOnSet(f, S0) + f["cold"]
  <2> HIDE DEF S0
  <2> QED
    BY <1>d, <1>a, <1>b, SumGrows
<1>2. IsFiniteSet(S2) /\ SumFunctionOnSet(f, S2) = SumFunctionOnSet(f, S1) + f["hot"]
  <2> HIDE DEF S1
  <2> QED
    BY <1>1, <1>a, <1>b, SumGrows
<1>3. IsFiniteSet(S3) /\ SumFunctionOnSet(f, S3) = SumFunctionOnSet(f, S2) + f["ejected"]
  <2> HIDE DEF S2
  <2> QED
    BY <1>2, <1>a, <1>b, SumGrows
<1>4. IsFiniteSet(S4) /\ SumFunctionOnSet(f, S4) = SumFunctionOnSet(f, S3) + f["stars"]
  <2> HIDE DEF S3
  <2> QED
    BY <1>3, <1>a, <1>b, SumGrows
<1>5. IsFiniteSet(S5) /\ SumFunctionOnSet(f, S5) = SumFunctionOnSet(f, S4) + f["ics"]
  <2> HIDE DEF S4
  <2> QED
    BY <1>4, <1>a, <1>b, SumGrows
<1> HIDE DEF S0, S1, S2, S3, S4, S5
<1>6. SumFunctionOnSet(f, S5) = f["cold"] + f["hot"] + f["ejected"] + f["stars"] + f["ics"]
  BY <1>0, <1>d, <1>1, <1>2, <1>3, <1>4, <1>5
<1> QED
  BY <1>0, <1>6, <1>c

\* The sum over all six reservoirs.
LEMMA SumOfMasses ==
    ASSUME NEW f, \A r \in Masses : f[r] \in Int
    PROVE  /\ SumFunctionOnSet(f, Masses) \in Int
           /\ SumFunctionOnSet(f, Masses) = SumFunctionOnSet(f, Tracked) + f["bh"]
           /\ SumFunctionOnSet(f, Masses) = f["cold"] + f["hot"] + f["ejected"]
                                             + f["stars"] + f["ics"] + f["bh"]
<1>1. IsFiniteSet(Tracked) /\ "bh" \notin Tracked /\ Masses = Tracked \cup {"bh"}
  BY ReservoirsAreFinite DEF Masses, Tracked
<1>2. SumFunctionOnSet(f, Masses) = SumFunctionOnSet(f, Tracked) + f["bh"]
  BY <1>1, SumGrows
<1>3. (\A r \in Tracked : f[r] \in Int) /\ f["bh"] \in Int
  BY <1>1
<1>4. /\ f["cold"] \in Int /\ f["hot"] \in Int /\ f["ejected"] \in Int
      /\ f["stars"] \in Int /\ f["ics"] \in Int
  BY <1>3 DEF Tracked
<1> QED
  BY <1>2, <1>3, <1>4, SumOfTracked

\* What a galaxy holds is the sum of its six reservoirs, five of them with metals.
LEMMA BaryonsAre ==
    ASSUME NEW g, \A r \in Masses : g.mass[r] \in Int
    PROVE  /\ BaryonsOf(g) \in Int
           /\ BaryonsOf(g) = g.mass["cold"] + g.mass["hot"] + g.mass["ejected"]
                              + g.mass["stars"] + g.mass["ics"] + g.mass["bh"]
BY SumOfMasses DEF BaryonsOf

\* The metals of a galaxy, reservoir by reservoir.
LEMMA MetalsAre ==
    ASSUME NEW g, \A r \in Tracked : g.metals[r] \in Int
    PROVE  /\ MetalsOf(g) \in Int
           /\ MetalsOf(g) = g.metals["cold"] + g.metals["hot"] + g.metals["ejected"]
                             + g.metals["stars"] + g.metals["ics"]
BY SumOfTracked DEF MetalsOf

\* The fields of a galaxy.
LEMMA GalaxyFields ==
    ASSUME NEW g \in Galaxy
    PROVE  /\ \A r \in Masses : g.mass[r] \in Nat
           /\ \A r \in Tracked : g.metals[r] \in Nat /\ g.mass[r] \in Nat
           /\ g.mass \in [Masses -> Nat] /\ g.metals \in [Tracked -> Nat]
           /\ g.bulge \in Nat /\ g.bulgeMetals \in Nat /\ g.newStars \in Nat
           /\ g.trigger \in BOOLEAN /\ g.clock \in Int
           /\ g.bulge <= g.mass["stars"] /\ g.bulgeMetals <= g.metals["stars"]
           /\ BaryonsOf(g) \in Int /\ MetalsOf(g) \in Int
           /\ g = [mass |-> g.mass, metals |-> g.metals, bulge |-> g.bulge,
                   bulgeMetals |-> g.bulgeMetals, newStars |-> g.newStars,
                   trigger |-> g.trigger, clock |-> g.clock]
<1>1. /\ g.mass \in [Masses -> Nat] /\ g.metals \in [Tracked -> Nat]
      /\ g.bulge \in Nat /\ g.bulgeMetals \in Nat /\ g.newStars \in Nat
      /\ g.trigger \in BOOLEAN /\ g.clock \in Int
      /\ g.bulge <= g.mass["stars"] /\ g.bulgeMetals <= g.metals["stars"]
      /\ g = [mass |-> g.mass, metals |-> g.metals, bulge |-> g.bulge,
              bulgeMetals |-> g.bulgeMetals, newStars |-> g.newStars,
              trigger |-> g.trigger, clock |-> g.clock]
  BY DEF Galaxy
<1>2. /\ \A r \in Masses : g.mass[r] \in Nat
      /\ \A r \in Tracked : g.metals[r] \in Nat /\ g.mass[r] \in Nat
  BY <1>1 DEF Masses
<1>3. (\A r \in Masses : g.mass[r] \in Int) /\ (\A r \in Tracked : g.metals[r] \in Int)
  BY <1>2
<1>4. BaryonsOf(g) \in Int /\ MetalsOf(g) \in Int
  BY <1>3, BaryonsAre, MetalsAre
<1> QED
  BY <1>1, <1>2, <1>4

\* A reservoir that is credited, or debited with what it has: the others stay.
LEMMA CreditFields ==
    ASSUME NEW g \in Galaxy, NEW r \in Tracked, NEW x \in Int, NEW z \in Int,
           g.mass[r] + x >= 0, g.metals[r] + z >= 0,
           r = "stars" => x >= 0 /\ z >= 0
    PROVE  LET h == Credit(g, r, x, z)
           IN  /\ h \in Galaxy
               /\ h.mass = [g.mass EXCEPT ![r] = g.mass[r] + x]
               /\ h.metals = [g.metals EXCEPT ![r] = g.metals[r] + z]
               /\ h.bulge = g.bulge /\ h.bulgeMetals = g.bulgeMetals
               /\ h.newStars = g.newStars /\ h.trigger = g.trigger /\ h.clock = g.clock
               /\ BaryonsOf(h) = BaryonsOf(g) + x
               /\ MetalsOf(h) = MetalsOf(g) + z
<1> DEFINE h == Credit(g, r, x, z)
           m == [g.mass EXCEPT ![r] = g.mass[r] + x]
           n == [g.metals EXCEPT ![r] = g.metals[r] + z]
<1>1. h = [mass |-> m, metals |-> n, bulge |-> g.bulge,
           bulgeMetals |-> g.bulgeMetals, newStars |-> g.newStars,
           trigger |-> g.trigger, clock |-> g.clock]
  <2>1. g \in [mass : [Masses -> Nat], metals : [Tracked -> Nat], bulge : Nat,
               bulgeMetals : Nat, newStars : Nat, trigger : BOOLEAN, clock : Int]
    BY DEF Galaxy
  <2>2. h.mass = m /\ h.metals = n
    BY <2>1 DEF Credit
  <2>3. /\ h.bulge = g.bulge /\ h.bulgeMetals = g.bulgeMetals /\ h.newStars = g.newStars
        /\ h.trigger = g.trigger /\ h.clock = g.clock
    BY <2>1 DEF Credit
  <2>4. h = [f \in {"mass", "metals", "bulge", "bulgeMetals", "newStars", "trigger", "clock"} |-> h[f]]
    BY <2>1 DEF Credit
  <2> HIDE DEF h, m, n
  <2> QED
    BY <2>2, <2>3, <2>4
<1>3. "stars" \in Tracked /\ r \in Masses
  BY DEF Masses, Tracked
<1>2. m \in [Masses -> Nat] /\ n \in [Tracked -> Nat]
  <2>1. g.mass[r] + x \in Nat /\ g.metals[r] + z \in Nat
    BY <1>3, GalaxyFields
  <2>2. g.mass \in [Masses -> Nat] /\ g.metals \in [Tracked -> Nat]
    BY GalaxyFields
  <2> QED
    BY <2>1, <2>2
<1>4. g.bulge <= m["stars"] /\ g.bulgeMetals <= n["stars"]
  <2>1. CASE r = "stars"
    BY <1>3, <2>1, GalaxyFields
  <2>2. CASE r # "stars"
    BY <1>3, <2>2, GalaxyFields
  <2> QED
    BY <2>1, <2>2
<1>5. h \in Galaxy
  BY <1>1, <1>2, <1>4, GalaxyFields DEF Galaxy
<1>6. BaryonsOf(h) = BaryonsOf(g) + x
  <2>1. h.mass = m
    BY <1>1
  <2>2. IsFiniteSet(Masses)
    BY ReservoirsAreFinite
  <2>3. \A s \in Masses : m[s] \in Int /\ g.mass[s] \in Int
    BY <1>2, GalaxyFields
  <2>4. \A s \in Masses \ {r} : m[s] = g.mass[s]
    BY GalaxyFields
  <2>5. SumFunctionOnSet(m, Masses) = SumFunctionOnSet(g.mass, Masses) + (m[r] - g.mass[r])
    <3>1. PICK e, f : e = m /\ f = g.mass
      OBVIOUS
    <3>2. /\ \A s \in Masses : e[s] \in Int /\ f[s] \in Int
          /\ \A s \in Masses \ {r} : e[s] = f[s]
      BY <2>3, <2>4, <3>1
    <3>3. SumFunctionOnSet(e, Masses) = SumFunctionOnSet(f, Masses) + (e[r] - f[r])
      BY ONLY <1>3, <2>2, <3>2, SumChanges
    <3> QED
      BY <3>1, <3>3
  <2>6. m[r] - g.mass[r] = x
    BY <1>3, GalaxyFields
  <2> HIDE DEF m, h
  <2> QED
    BY <2>1, <2>5, <2>6 DEF BaryonsOf
<1>7. MetalsOf(h) = MetalsOf(g) + z
  <2>1. h.metals = n
    BY <1>1
  <2>2. IsFiniteSet(Tracked)
    BY ReservoirsAreFinite
  <2>3. \A s \in Tracked : n[s] \in Int /\ g.metals[s] \in Int
    BY <1>2, GalaxyFields
  <2>4. \A s \in Tracked \ {r} : n[s] = g.metals[s]
    BY GalaxyFields
  <2>5. SumFunctionOnSet(n, Tracked) = SumFunctionOnSet(g.metals, Tracked) + (n[r] - g.metals[r])
    <3>1. PICK e, f : e = n /\ f = g.metals
      OBVIOUS
    <3>2. /\ \A s \in Tracked : e[s] \in Int /\ f[s] \in Int
          /\ \A s \in Tracked \ {r} : e[s] = f[s]
      BY <2>3, <2>4, <3>1
    <3>3. SumFunctionOnSet(e, Tracked) = SumFunctionOnSet(f, Tracked) + (e[r] - f[r])
      BY ONLY <2>2, <3>2, r \in Tracked, SumChanges
    <3> QED
      BY <3>1, <3>3
  <2>6. n[r] - g.metals[r] = z
    BY GalaxyFields
  <2> HIDE DEF n, h
  <2> QED
    BY <2>1, <2>5, <2>6 DEF MetalsOf
<1> QED
  BY <1>1, <1>5, <1>6, <1>7
-----------------------------------------------------------------------------
(* The processes. *)

\* A share x of m takes no more than all of w along.
LEMMA ShareIsPart ==
    ASSUME NEW m \in Nat \ {0}, NEW w \in Nat, NEW x \in Nat
    PROVE  /\ (x * w) \div m \in Nat
           /\ x <= m => (x * w) \div m <= w
<1>1. PICK a : a = x * w
  OBVIOUS
<1>2. a \in Nat
  BY <1>1
<1>3. PICK q : q = a \div m
  OBVIOUS
<1>4. q \in Nat
  BY <1>2, <1>3
<1>5. m * q <= a
  BY <1>2, <1>3
<1>6. ASSUME x <= m, q > w PROVE FALSE
  <2>1. m * q = m * w + m * (q - w)
    BY <1>4
  <2>2. m * (q - w) >= m
    <3>1. q - w - 1 \in Nat
      BY <1>4, <1>6
    <3>2. m * (q - w) = m * (q - w - 1) + m
      BY <1>4
    <3>3. m * (q - w - 1) \in Nat
      BY <3>1
    <3> QED
      BY <3>2, <3>3
  <2>3. m * w = x * w + (m - x) * w
    OBVIOUS
  <2>4. m - x \in Nat
    BY <1>6
  <2>5. (m - x) * w \in Nat
    BY <2>4
  <2>6. m * w \in Nat
    OBVIOUS
  <2>7. m * q >= m * w + m
    <3>1. PICK u, v : u = m * w /\ v = m * (q - w)
      OBVIOUS
    <3>2. u \in Nat /\ v >= m /\ v \in Int /\ m * q = u + v
      BY <1>4, <2>1, <2>2, <2>6, <3>1
    <3>3. m * q >= u + m
      BY <3>2
    <3> QED
      BY <3>1, <3>3
  <2>8. m * w >= a
    <3>1. PICK u, v : u = m * w /\ v = (m - x) * w
      OBVIOUS
    <3>2. u \in Nat /\ v \in Nat /\ u = a + v
      BY <1>1, <2>3, <2>5, <2>6, <3>1
    <3> QED
      BY <1>2, <3>1, <3>2
  <2>9. PICK u, v : u = m * w /\ v = m * q
    OBVIOUS
  <2>10. u \in Nat /\ v >= u + m /\ u >= a /\ v <= a /\ v \in Int
    BY <1>4, <1>5, <2>6, <2>7, <2>8, <2>9
  <2> QED
    BY <1>2, <2>10
<1> QED
  BY <1>1, <1>3, <1>4, <1>6

\* The metals that come along are there.
LEMMA CarriedIsThere ==
    ASSUME NEW g \in Galaxy, NEW r \in Tracked, NEW x \in Nat
    PROVE  /\ Carried(g, r, x) \in Nat
           /\ x <= g.mass[r] => Carried(g, r, x) <= g.metals[r]
<1>1. g.mass[r] \in Nat /\ g.metals[r] \in Nat
  BY GalaxyFields
<1>2. CASE g.mass[r] > 0
  <2>1. PICK w : w = Least(g.metals[r], g.mass[r])
    OBVIOUS
  <2>2. w \in Nat /\ w <= g.metals[r]
    BY <1>1, <2>1 DEF Least
  <2>3. Carried(g, r, x) = (x * w) \div g.mass[r]
    BY <1>2, <2>1 DEF Carried
  <2>4. (x * w) \div g.mass[r] \in Nat /\ (x <= g.mass[r] => (x * w) \div g.mass[r] <= w)
    BY <1>1, <1>2, <2>2, ShareIsPart
  <2> QED
    BY <1>1, <2>2, <2>3, <2>4
<1>3. CASE ~(g.mass[r] > 0)
  BY <1>1, <1>3 DEF Carried
<1> QED
  BY <1>2, <1>3

\* h is g after a process: sound, on the same clock, with x more baryons and z
\* more metals.
Gains(g, h, x, z) ==
    /\ h \in Galaxy
    /\ h.clock = g.clock
    /\ BaryonsOf(h) = BaryonsOf(g) + x
    /\ MetalsOf(h) = MetalsOf(g) + z

\* The other fields of a galaxy weigh nothing.
LEMMA OtherFields ==
    ASSUME NEW g \in Galaxy
    PROVE  /\ \A n \in Nat : LET h == [g EXCEPT !.newStars = n]
                             IN  /\ Gains(g, h, 0, 0)
                                 /\ h.mass = g.mass /\ h.metals = g.metals /\ h.newStars = n
           /\ \A c \in Int : LET h == [g EXCEPT !.clock = c]
                             IN  /\ h \in Galaxy /\ h.clock = c
                                 /\ BaryonsOf(h) = BaryonsOf(g) /\ MetalsOf(h) = MetalsOf(g)
                                 /\ h.mass = g.mass /\ h.metals = g.metals
           /\ \A b \in 0 .. g.mass["stars"], z \in 0 .. g.metals["stars"] :
                 LET h == [g EXCEPT !.bulge = b, !.bulgeMetals = z]
                 IN  /\ Gains(g, h, 0, 0)
                     /\ h.mass = g.mass /\ h.metals = g.metals
                     /\ \A t \in BOOLEAN :
                           LET u == [g EXCEPT !.bulge = b, !.bulgeMetals = z, !.trigger = t]
                           IN  /\ Gains(g, u, 0, 0)
                               /\ u.mass = g.mass /\ u.metals = g.metals
<1>1. BaryonsOf(g) \in Int /\ MetalsOf(g) \in Int
  BY GalaxyFields
<1>2. ASSUME NEW n \in Nat
      PROVE  LET h == [g EXCEPT !.newStars = n]
             IN  /\ Gains(g, h, 0, 0)
                 /\ h.mass = g.mass /\ h.metals = g.metals /\ h.newStars = n
  <2> DEFINE h == [g EXCEPT !.newStars = n]
  <2>1. h \in Galaxy /\ h.mass = g.mass /\ h.metals = g.metals /\ h.clock = g.clock /\ h.newStars = n
    BY DEF Galaxy
  <2> HIDE DEF h
  <2>2. Gains(g, h, 0, 0)
    BY <1>1, <2>1 DEF Gains, BaryonsOf, MetalsOf
  <2> QED
    BY <2>1, <2>2 DEF h
<1>3. ASSUME NEW c \in Int
      PROVE  LET h == [g EXCEPT !.clock = c]
             IN  /\ h \in Galaxy /\ h.clock = c
                 /\ BaryonsOf(h) = BaryonsOf(g) /\ MetalsOf(h) = MetalsOf(g)
                 /\ h.mass = g.mass /\ h.metals = g.metals
  <2> DEFINE h == [g EXCEPT !.clock = c]
  <2>1. h \in Galaxy /\ h.mass = g.mass /\ h.metals = g.metals /\ h.clock = c
    BY DEF Galaxy
  <2> HIDE DEF h
  <2>2. BaryonsOf(h) = BaryonsOf(g) /\ MetalsOf(h) = MetalsOf(g)
    BY <1>1, <2>1 DEF BaryonsOf, MetalsOf
  <2> QED
    BY <2>1, <2>2 DEF h
<1>4. ASSUME NEW b \in 0 .. g.mass["stars"], NEW z \in 0 .. g.metals["stars"]
      PROVE  LET h == [g EXCEPT !.bulge = b, !.bulgeMetals = z]
             IN  /\ Gains(g, h, 0, 0)
                 /\ h.mass = g.mass /\ h.metals = g.metals
  <2> DEFINE h == [g EXCEPT !.bulge = b, !.bulgeMetals = z]
  <2>a. /\ b \in Nat /\ b <= g.mass["stars"] /\ z \in Nat /\ z <= g.metals["stars"]
    BY GalaxyFields DEF Masses, Tracked
  <2>b. h.mass = g.mass /\ h.metals = g.metals /\ h.clock = g.clock /\ h.bulge = b /\ h.bulgeMetals = z
    BY DEF Galaxy
  <2>c. h \in [mass : [Masses -> Nat], metals : [Tracked -> Nat], bulge : Nat,
               bulgeMetals : Nat, newStars : Nat, trigger : BOOLEAN, clock : Int]
    BY <2>a DEF Galaxy
  <2>1. h \in Galaxy /\ h.mass = g.mass /\ h.metals = g.metals /\ h.clock = g.clock
    <3> HIDE DEF h
    <3> QED
      BY <2>a, <2>b, <2>c DEF Galaxy
  <2> HIDE DEF h
  <2>2. Gains(g, h, 0, 0)
    BY <1>1, <2>1 DEF Gains, BaryonsOf, MetalsOf
  <2> QED
    BY <2>1, <2>2 DEF h
<1>5. ASSUME NEW b \in 0 .. g.mass["stars"], NEW z \in 0 .. g.metals["stars"], NEW t \in BOOLEAN
      PROVE  LET u == [g EXCEPT !.bulge = b, !.bulgeMetals = z, !.trigger = t]
             IN  /\ Gains(g, u, 0, 0)
                 /\ u.mass = g.mass /\ u.metals = g.metals
  <2> DEFINE h == [g EXCEPT !.bulge = b, !.bulgeMetals = z, !.trigger = t]
  <2>a. /\ b \in Nat /\ b <= g.mass["stars"] /\ z \in Nat /\ z <= g.metals["stars"]
    BY GalaxyFields DEF Masses, Tracked
  <2>b. h.mass = g.mass /\ h.metals = g.metals /\ h.clock = g.clock /\ h.bulge = b /\ h.bulgeMetals = z
    BY DEF Galaxy
  <2>c. h \in [mass : [Masses -> Nat], metals : [Tracked -> Nat], bulge : Nat,
               bulgeMetals : Nat, newStars : Nat, trigger : BOOLEAN, clock : Int]
    BY <2>a DEF Galaxy
  <2>1. h \in Galaxy /\ h.mass = g.mass /\ h.metals = g.metals /\ h.clock = g.clock
    <3> HIDE DEF h
    <3> QED
      BY <2>a, <2>b, <2>c DEF Galaxy
  <2> HIDE DEF h
  <2>2. Gains(g, h, 0, 0)
    BY <1>1, <2>1 DEF Gains, BaryonsOf, MetalsOf
  <2> QED
    BY <2>1, <2>2 DEF h
<1> QED
  BY <1>2, <1>3, <1>4, <1>5

\* What is credited and debited.
LEMMA CreditGains ==
    ASSUME NEW g \in Galaxy, NEW r \in Tracked, NEW x \in Nat, NEW z \in Nat
    PROVE  /\ Gains(g, Credit(g, r, x, z), x, z)
           /\ Credit(g, r, x, z).mass = [g.mass EXCEPT ![r] = g.mass[r] + x]
           /\ Credit(g, r, x, z).metals = [g.metals EXCEPT ![r] = g.metals[r] + z]
           /\ Credit(g, r, x, z).bulge = g.bulge
           /\ Credit(g, r, x, z).bulgeMetals = g.bulgeMetals
           /\ Credit(g, r, x, z).newStars = g.newStars
<1>1. /\ x \in Int /\ z \in Int /\ g.mass[r] + x >= 0 /\ g.metals[r] + z >= 0
      /\ x >= 0 /\ z >= 0
  BY GalaxyFields
<1> QED
  BY <1>1, CreditFields DEF Gains

\* A reservoir without a bulge gives up what it has; no other field changes.
LEMMA DebitLoses ==
    ASSUME NEW g \in Galaxy, NEW r \in Tracked \ {"stars"},
           NEW x \in 0 .. g.mass[r], NEW z \in 0 .. g.metals[r]
    PROVE  /\ Gains(g, Debit(g, r, x, z), -x, -z)
           /\ Debit(g, r, x, z).mass = [g.mass EXCEPT ![r] = g.mass[r] - x]
           /\ Debit(g, r, x, z).metals = [g.metals EXCEPT ![r] = g.metals[r] - z]
           /\ Debit(g, r, x, z).bulge = g.bulge
           /\ Debit(g, r, x, z).bulgeMetals = g.bulgeMetals
           /\ Debit(g, r, x, z).newStars = g.newStars
<1>1. g.mass[r] \in Nat /\ g.metals[r] \in Nat
  BY GalaxyFields
<1>2. /\ x \in Int /\ -x \in Int /\ g.mass[r] + (-x) >= 0 /\ g.mass[r] + (-x) = g.mass[r] - x
      /\ z \in Int /\ -z \in Int /\ g.metals[r] + (-z) >= 0 /\ g.metals[r] + (-z) = g.metals[r] - z
  BY <1>1
<1> QED
  BY <1>1, <1>2, GalaxyFields, CreditFields DEF Gains, Debit

\* To move a part of a reservoir to another one loses nothing.
LEMMA MovedGains ==
    ASSUME NEW g \in Galaxy, NEW from \in Tracked \ {"stars"}, NEW to \in Tracked \ {from},
           NEW x \in 0 .. g.mass[from]
    PROVE  LET h == Moved(g, from, to, x)
               z == Carried(g, from, x)
           IN  /\ Gains(g, h, 0, 0)
               /\ z \in Nat
               /\ \A r \in Masses : h.mass[r] = CASE r = from -> g.mass[r] - x
                                                  [] r = to -> g.mass[r] + x
                                                  [] OTHER -> g.mass[r]
               /\ h.metals[to] = g.metals[to] + z
               /\ h.bulge = g.bulge /\ h.bulgeMetals = g.bulgeMetals
               /\ h.newStars = g.newStars
<1>1. PICK z : z = Carried(g, from, x)
  OBVIOUS
<1>2. x \in Nat /\ z \in Nat /\ z \in 0 .. g.metals[from]
  <2>1. g.mass[from] \in Nat /\ g.metals[from] \in Nat /\ x \in Nat /\ x <= g.mass[from]
    BY GalaxyFields
  <2> QED
    BY <1>1, <2>1, CarriedIsThere
<1>3. PICK u : u = Debit(g, from, x, z)
  OBVIOUS
<1>4. /\ Gains(g, u, -x, -z)
      /\ u.mass = [g.mass EXCEPT ![from] = g.mass[from] - x]
      /\ u.metals = [g.metals EXCEPT ![from] = g.metals[from] - z]
      /\ u.bulge = g.bulge /\ u.bulgeMetals = g.bulgeMetals /\ u.newStars = g.newStars
  BY <1>2, <1>3, DebitLoses
<1>5. PICK h : h = Credit(u, to, x, z)
  OBVIOUS
<1>6. /\ Gains(u, h, x, z)
      /\ h.mass = [u.mass EXCEPT ![to] = u.mass[to] + x]
      /\ h.metals = [u.metals EXCEPT ![to] = u.metals[to] + z]
      /\ h.bulge = u.bulge /\ h.bulgeMetals = u.bulgeMetals /\ h.newStars = u.newStars
  BY <1>2, <1>4, <1>5, CreditGains DEF Gains
<1>7. h = Moved(g, from, to, x)
  BY <1>1, <1>3, <1>5 DEF Moved
<1>8. Gains(g, h, 0, 0)
  BY <1>2, <1>4, <1>6, GalaxyFields DEF Gains
<1>9. \A r \in Masses : h.mass[r] = CASE r = from -> g.mass[r] - x
                                      [] r = to -> g.mass[r] + x
                                      [] OTHER -> g.mass[r]
  <2>1. g.mass \in [Masses -> Nat] /\ from \in Masses /\ to \in Masses
    BY GalaxyFields DEF Masses
  <2> QED
    BY <1>4, <1>6, <2>1
<1>10. h.metals[to] = g.metals[to] + z
  <2>1. g.metals \in [Tracked -> Nat]
    BY GalaxyFields
  <2> QED
    BY <1>4, <1>6, <2>1
<1> QED
  BY <1>1, <1>2, <1>4, <1>6, <1>7, <1>8, <1>9, <1>10

\* The pair p is what a process makes of a galaxy g and of the central c, which
\* are one record if it is the central's own turn.
Shares(g, c, isCentral, p, x, z) ==
    /\ p.galaxy \in Galaxy /\ p.galaxy.clock = g.clock
    /\ isCentral => Gains(g, p.galaxy, x, z)
    /\ ~isCentral => /\ p.central \in Galaxy /\ p.central.clock = c.clock
                     /\ BaryonsOf(p.galaxy) + BaryonsOf(p.central)
                           = BaryonsOf(g) + BaryonsOf(c) + x
                     /\ MetalsOf(p.galaxy) + MetalsOf(p.central)
                           = MetalsOf(g) + MetalsOf(c) + z

\* One process after another.
LEMMA GainsAfter ==
    ASSUME NEW g \in Galaxy, NEW u, NEW h, NEW x \in Int, NEW z \in Int, NEW y \in Int, NEW w \in Int,
           Gains(g, u, x, z), Gains(u, h, y, w)
    PROVE  Gains(g, h, x + y, z + w)
BY GalaxyFields DEF Gains

\* A process of two records after one that changed the galaxy only.
LEMMA SharesAfter ==
    ASSUME NEW g \in Galaxy, NEW c \in Galaxy, NEW isCentral \in BOOLEAN, NEW u, NEW p,
           NEW x \in Int, NEW z \in Int, NEW y \in Int, NEW w \in Int,
           Gains(g, u, x, z), Shares(u, c, isCentral, p, y, w)
    PROVE  Shares(g, c, isCentral, p, x + y, z + w)
<1>1. CASE isCentral
  BY <1>1, GalaxyFields DEF Gains, Shares
<1>2. CASE ~isCentral
  <2>1. /\ p.galaxy \in Galaxy /\ p.central \in Galaxy /\ u \in Galaxy
        /\ p.galaxy.clock = g.clock /\ p.central.clock = c.clock
    BY <1>2 DEF Gains, Shares
  <2>2. BaryonsOf(p.galaxy) + BaryonsOf(p.central) = BaryonsOf(g) + BaryonsOf(c) + (x + y)
    BY <1>2, <2>1, GalaxyFields DEF Gains, Shares
  <2>3. MetalsOf(p.galaxy) + MetalsOf(p.central) = MetalsOf(g) + MetalsOf(c) + (z + w)
    BY <1>2, <2>1, GalaxyFields DEF Gains, Shares
  <2> QED
    BY <1>2, <2>1, <2>2, <2>3 DEF Shares
<1> QED
  BY <1>1, <1>2

\* The black hole grows out of the cold or the hot gas and swallows its metals.
LEMMA AccretedGains ==
    ASSUME NEW g \in Galaxy, NEW from \in Tracked \ {"stars"}, NEW x \in 0 .. g.mass[from]
    PROVE  /\ Gains(g, Accreted(g, from, x), 0, -Carried(g, from, x))
           /\ Carried(g, from, x) \in Nat
<1>1. PICK z : z = Carried(g, from, x)
  OBVIOUS
<1>2. x \in Nat /\ z \in Nat /\ z \in 0 .. g.metals[from]
  <2>1. g.mass[from] \in Nat /\ g.metals[from] \in Nat /\ x \in Nat /\ x <= g.mass[from]
    BY GalaxyFields
  <2> QED
    BY <1>1, <2>1, CarriedIsThere
<1>3. PICK u : u = Debit(g, from, x, z)
  OBVIOUS
<1>4. Gains(g, u, -x, -z)
  BY <1>2, <1>3, DebitLoses
<1>5. u \in Galaxy /\ u.mass["bh"] \in Nat /\ u.mass["bh"] + x \in Nat /\ "bh" \in Masses
  <2>1. "bh" \in Masses
    BY DEF Masses
  <2>2. u \in Galaxy
    BY <1>4 DEF Gains
  <2> QED
    BY <1>2, <2>1, <2>2, GalaxyFields
<1> DEFINE h == [u EXCEPT !.mass["bh"] = @ + x]
           m == [u.mass EXCEPT !["bh"] = u.mass["bh"] + x]
<1>6. h.mass = m /\ h.metals = u.metals /\ h.clock = u.clock
  BY <1>5 DEF Galaxy
<1>7. h \in Galaxy
  <2>1. m \in [Masses -> Nat] /\ m["stars"] = u.mass["stars"]
    BY <1>5, GalaxyFields DEF Masses, Tracked
  <2>2. h = [u EXCEPT !.mass = m]
    BY <1>5 DEF Galaxy
  <2> HIDE DEF m, h
  <2> QED
    BY <1>5, <2>1, <2>2 DEF Galaxy
<1>8. BaryonsOf(h) = BaryonsOf(u) + x /\ MetalsOf(h) = MetalsOf(u)
  <2>1. \A s \in Masses : m[s] \in Int /\ u.mass[s] \in Int
    BY <1>5, GalaxyFields
  <2>2. \A s \in Masses \ {"bh"} : m[s] = u.mass[s]
    BY <1>5, GalaxyFields
  <2>3. m["bh"] - u.mass["bh"] = x
    BY <1>2, <1>5, GalaxyFields
  <2> HIDE DEF m, h
  <2>4. SumFunctionOnSet(m, Masses) = SumFunctionOnSet(u.mass, Masses) + (m["bh"] - u.mass["bh"])
    BY <1>5, <2>1, <2>2, ReservoirsAreFinite, SumChanges
  <2> QED
    BY <1>6, <2>3, <2>4 DEF BaryonsOf, MetalsOf
<1>9. h = Accreted(g, from, x)
  BY <1>1, <1>3 DEF Accreted
<1> HIDE DEF h
<1> QED
  BY <1>1, <1>2, <1>4, <1>5, <1>6, <1>7, <1>8, <1>9, GalaxyFields DEF Gains

\* apply_quasar_mode(): the winds move all there is of the cold and the hot gas.
LEMMA QuasarGains ==
    ASSUME NEW g \in Galaxy, NEW x \in 0 .. g.mass["cold"], NEW wind \in Winds
    PROVE  Gains(g, Quasar(g, x, wind), 0, -Carried(g, "cold", x))
<1> DEFINE All(h, r) == Credit(Debit(h, r, h.mass[r], h.metals[r]), "ejected", h.mass[r], h.metals[r])
<1>1. /\ "cold" \in Tracked \ {"stars"} /\ "hot" \in Tracked \ {"stars"} /\ "ejected" \in Tracked
      /\ "cold" # "ejected" /\ "hot" # "ejected"
  BY DEF Tracked
<1>2. ASSUME NEW h \in Galaxy, NEW r \in {"cold", "hot"}
      PROVE  Gains(h, All(h, r), 0, 0)
  <2>1. PICK x1, z1 : x1 = h.mass[r] /\ z1 = h.metals[r]
    OBVIOUS
  <2>2. x1 \in Nat /\ z1 \in Nat /\ x1 \in 0 .. h.mass[r] /\ z1 \in 0 .. h.metals[r]
    BY <1>1, <2>1, GalaxyFields
  <2>3. PICK u : u = Debit(h, r, x1, z1)
    OBVIOUS
  <2>4. Gains(h, u, -x1, -z1) /\ u \in Galaxy
    <3>1. r \in Tracked \ {"stars"}
      BY <1>1
    <3>2. Gains(h, u, -x1, -z1)
      BY <2>2, <2>3, <3>1, DebitLoses
    <3> QED
      BY <3>2 DEF Gains
  <2>5. Gains(u, Credit(u, "ejected", x1, z1), x1, z1)
    BY <1>1, <2>2, <2>4, CreditGains
  <2>6. Gains(h, Credit(u, "ejected", x1, z1), -x1 + x1, -z1 + z1)
    BY <2>2, <2>4, <2>5, GainsAfter
  <2>7. -x1 + x1 = 0 /\ -z1 + z1 = 0
    BY <2>2
  <2> QED
    BY <2>1, <2>3, <2>6, <2>7
<1>3. PICK u : u = Accreted(g, "cold", x)
  OBVIOUS
<1>4. /\ Gains(g, u, 0, -Carried(g, "cold", x)) /\ u \in Galaxy
      /\ Carried(g, "cold", x) \in Nat
  BY <1>1, <1>3, AccretedGains DEF Gains
<1>5. Gains(u, Blasted(u, wind), 0, 0)
  <2>1. CASE wind = "none"
    BY <1>4, <2>1, GalaxyFields DEF Blasted, Gains
  <2>2. CASE wind = "cold"
    BY <1>2, <1>4, <2>2 DEF Blasted
  <2>3. CASE wind = "hot"
    <3>1. PICK v : v = All(u, "cold")
      OBVIOUS
    <3>2. Gains(u, v, 0, 0) /\ v \in Galaxy
      BY <1>2, <1>4, <3>1 DEF Gains
    <3>3. Gains(v, All(v, "hot"), 0, 0)
      BY <1>2, <3>2
    <3>4. Blasted(u, wind) = All(v, "hot")
      BY <2>3, <3>1 DEF Blasted
    <3>5. Gains(u, All(v, "hot"), 0 + 0, 0 + 0)
      <4> HIDE DEF All
      <4> QED
        BY <1>4, <3>2, <3>3, GainsAfter
    <3> QED
      BY <3>4, <3>5
  <2> QED
    BY <2>1, <2>2, <2>3 DEF Winds
<1>6. Gains(g, Blasted(u, wind), 0 + 0, -Carried(g, "cold", x) + 0)
  BY <1>4, <1>5, GainsAfter
<1> QED
  BY <1>3, <1>4, <1>6 DEF Quasar

\* apply_cooling()
LEMMA CooledGains ==
    ASSUME NEW g \in Galaxy, NEW x \in Nat
    PROVE  Gains(g, Cooled(g, x), 0, 0)
<1>1. "hot" \in Tracked \ {"stars"} /\ "cold" \in Tracked \ {"hot"}
  BY DEF Tracked
<1>2. g.mass["hot"] \in Nat /\ g.metals["hot"] \in Nat
  BY <1>1, GalaxyFields
<1>3. CASE x < g.mass["hot"]
  <2>1. x \in 0 .. g.mass["hot"]
    BY <1>2, <1>3
  <2> QED
    BY <1>1, <1>3, <2>1, MovedGains DEF Cooled
<1>4. CASE ~(x < g.mass["hot"])
  <2>1. PICK y, z : y = g.mass["hot"] /\ z = g.metals["hot"]
    OBVIOUS
  <2>2. y \in Nat /\ z \in Nat /\ y \in 0 .. g.mass["hot"] /\ z \in 0 .. g.metals["hot"]
    BY <1>2, <2>1
  <2>3. PICK u : u = Debit(g, "hot", y, z)
    OBVIOUS
  <2>4. Gains(g, u, -y, -z) /\ u \in Galaxy
    <3>1. Gains(g, u, -y, -z)
      BY <1>1, <2>2, <2>3, DebitLoses
    <3> QED
      BY <3>1 DEF Gains
  <2>5. Gains(u, Credit(u, "cold", y, z), y, z)
    BY <1>1, <2>2, <2>4, CreditGains
  <2>6. Gains(g, Credit(u, "cold", y, z), -y + y, -z + z)
    BY <2>2, <2>4, <2>5, GainsAfter
  <2>7. Cooled(g, x) = Credit(u, "cold", y, z) /\ -y + y = 0 /\ -z + z = 0
    BY <1>4, <2>1, <2>2, <2>3 DEF Cooled
  <2> QED
    BY <2>6, <2>7
<1> QED
  BY <1>3, <1>4

\* apply_satellite_stripping(): nothing is stripped off the central itself.
LEMMA StrippedShares ==
    ASSUME NEW g \in Galaxy, NEW c \in Galaxy, NEW isCentral \in BOOLEAN,
           NEW x \in Nat, isCentral => x = 0
    PROVE  Shares(g, c, isCentral, Stripped(g, c, x), 0, 0)
<1>1. "hot" \in Tracked \ {"stars"}
  BY DEF Tracked
<1>2. g.mass["hot"] \in Nat /\ g.metals["hot"] \in Nat
  BY <1>1, GalaxyFields
<1>3. PICK y, z : y = Least(x, g.mass["hot"]) /\ z = Least(Carried(g, "hot", x), g.metals["hot"])
  OBVIOUS
<1>4. /\ y \in Nat /\ y \in 0 .. g.mass["hot"]
      /\ z \in Nat /\ z \in 0 .. g.metals["hot"]
  BY <1>1, <1>2, <1>3, CarriedIsThere DEF Least
<1>5. PICK u, v : u = Debit(g, "hot", y, z) /\ v = Credit(c, "hot", y, z)
  OBVIOUS
<1>6. Gains(g, u, -y, -z) /\ Gains(c, v, y, z)
  BY <1>1, <1>4, <1>5, DebitLoses, CreditGains
<1>7. Stripped(g, c, x) = [galaxy |-> u, central |-> v]
  BY <1>3, <1>5 DEF Stripped
<1>8. ASSUME isCentral PROVE y = 0 /\ z = 0
  <2>1. x = 0
    BY <1>8
  <2>2. y = 0
    BY <1>2, <1>3, <2>1 DEF Least
  <2>3. Carried(g, "hot", 0) = 0
    <3>1. PICK w : w = Least(g.metals["hot"], g.mass["hot"])
      OBVIOUS
    <3>2. w \in Nat /\ 0 * w = 0
      BY <1>2, <3>1 DEF Least
    <3>3. g.mass["hot"] > 0 => 0 \div g.mass["hot"] = 0
      BY <1>2
    <3> QED
      BY <1>2, <3>1, <3>2, <3>3 DEF Carried
  <2>4. z = 0
    BY <1>2, <1>3, <2>1, <2>3 DEF Least
  <2> QED
    BY <2>2, <2>4
<1>9. CASE isCentral
  <2>1. y = 0 /\ z = 0
    BY <1>8, <1>9
  <2>2. Gains(g, u, 0, 0)
    BY <1>6, <2>1, GalaxyFields DEF Gains
  <2>3. Stripped(g, c, x).galaxy = u
    BY <1>7
  <2> QED
    BY <1>9, <2>2, <2>3 DEF Shares, Gains
<1>10. CASE ~isCentral
  BY <1>4, <1>6, <1>7, <1>10, GalaxyFields DEF Shares, Gains
<1> QED
  BY <1>9, <1>10

\* apply_infall(): a supply is added to the hot gas; a deficit takes what there
\* is of the ejected and then of the hot gas.
LEMMA SuppliedGains ==
    ASSUME NEW g \in Galaxy, NEW x \in Nat
    PROVE  Gains(g, Supplied(g, x), x, 0)
BY CreditGains DEF Supplied, Tracked

\* A reservoir gives up what is asked of it, or all it has.
LEMMA DrainedGains ==
    ASSUME NEW g \in Galaxy, NEW r \in Tracked \ {"stars"}, NEW x \in Nat
    PROVE  LET h == Drained(g, r, x)
           IN  /\ \E z \in Int : Gains(g, h, -Least(x, g.mass[r]), z)
               /\ \A s \in Masses \ {r} : h.mass[s] = g.mass[s]
<1>1. r \in Masses /\ g.mass \in [Masses -> Nat] /\ g.mass[r] \in Nat /\ g.metals[r] \in Nat
  BY GalaxyFields DEF Masses
<1>2. PICK y : y = Least(x, g.mass[r])
  OBVIOUS
<1>3. PICK z : z = IF x > g.mass[r] THEN g.metals[r] ELSE Carried(g, r, x)
  OBVIOUS
<1>4. y \in Nat /\ y \in 0 .. g.mass[r]
  BY <1>1, <1>2 DEF Least
<1>5. z \in Nat /\ z \in 0 .. g.metals[r]
  BY <1>1, <1>3, CarriedIsThere
<1>6. Drained(g, r, x) = Debit(g, r, y, z)
  <2>1. CASE x > g.mass[r]
    <3>1. y = g.mass[r] /\ z = g.metals[r]
      BY <1>1, <1>2, <1>3, <2>1 DEF Least
    <3>2. Drained(g, r, x) = [g EXCEPT !.mass[r] = 0, !.metals[r] = 0]
      BY <2>1 DEF Drained
    <3>3. g.mass[r] + (-y) = 0 /\ g.metals[r] + (-z) = 0
      BY <1>1, <3>1
    <3>4. Debit(g, r, y, z) = [g EXCEPT !.mass[r] = g.mass[r] + (-y), !.metals[r] = g.metals[r] + (-z)]
      BY DEF Debit, Credit, Galaxy
    <3> QED
      BY <3>2, <3>3, <3>4
  <2>2. CASE ~(x > g.mass[r])
    <3>1. y = x
      BY <1>1, <1>2, <2>2 DEF Least
    <3> QED
      BY <1>3, <2>2, <3>1 DEF Drained
  <2> QED
    BY <2>1, <2>2
<1>7. Gains(g, Drained(g, r, x), -y, -z)
  <2>1. PICK u : u = Debit(g, r, y, z)
    OBVIOUS
  <2>2. Gains(g, u, -y, -z)
    BY <1>1, <1>4, <1>5, <2>1, DebitLoses
  <2> QED
    BY <1>6, <2>1, <2>2
<1>8. \A s \in Masses \ {r} : Drained(g, r, x).mass[s] = g.mass[s]
  <2>1. Drained(g, r, x).mass = [g.mass EXCEPT ![r] = g.mass[r] + (-y)]
    BY <1>6 DEF Debit, Credit, Galaxy
  <2> QED
    BY <1>1, <2>1
<1>9. -z \in Int
  BY <1>5
<1> QED
  BY <1>2, <1>7, <1>8, <1>9

\* apply_infall() of a deficit takes no more than the ejected and the hot gas.
LEMMA DepletedGains ==
    ASSUME NEW g \in Galaxy, NEW x \in Nat
    PROVE  LET h == Depleted(g, x)
           IN  Gains(g, h, -Least(x, g.mass["ejected"] + g.mass["hot"]), MetalsOf(h) - MetalsOf(g))
<1>1. /\ "ejected" \in Tracked \ {"stars"} /\ "hot" \in Tracked \ {"stars"}
      /\ "hot" \in Masses \ {"ejected"}
  BY DEF Masses, Tracked
<1>2. g.mass["ejected"] \in Nat /\ g.mass["hot"] \in Nat
  BY <1>1, GalaxyFields
<1>3. PICK first : first = IF g.mass["ejected"] > 0 THEN Drained(g, "ejected", x) ELSE g
  OBVIOUS
<1>4. PICK y : y = Least(x, g.mass["ejected"])
  OBVIOUS
<1>5. y \in Nat /\ y <= x
  BY <1>2, <1>4 DEF Least
<1>6. (\E z \in Int : Gains(g, first, -y, z)) /\ first.mass["hot"] = g.mass["hot"]
  <2>1. CASE g.mass["ejected"] > 0
    BY <1>1, <1>3, <1>4, <2>1, DrainedGains
  <2>2. CASE ~(g.mass["ejected"] > 0)
    <3>1. y = 0 /\ first = g
      BY <1>2, <1>3, <1>4, <2>2 DEF Least
    <3>2. Gains(g, first, -y, 0)
      BY <3>1, GalaxyFields DEF Gains
    <3> QED
      BY <3>1, <3>2
  <2> QED
    BY <2>1, <2>2
<1>7. PICK z \in Int : Gains(g, first, -y, z)
  BY <1>6
<1>8. first \in Galaxy /\ x - y \in Nat /\ -y \in Int
  BY <1>5, <1>7 DEF Gains
<1>9. PICK h : h = Drained(first, "hot", x - y)
  OBVIOUS
<1>10. PICK w \in Int : Gains(first, h, -Least(x - y, g.mass["hot"]), w)
  BY <1>1, <1>6, <1>8, <1>9, DrainedGains
<1>11. Least(x - y, g.mass["hot"]) \in Nat /\ -Least(x - y, g.mass["hot"]) \in Int
  BY <1>2, <1>8 DEF Least
<1>12. Gains(g, h, -y + (-Least(x - y, g.mass["hot"])), z + w)
  BY <1>7, <1>8, <1>10, <1>11, GainsAfter
<1>13. -y + (-Least(x - y, g.mass["hot"])) = -Least(x, g.mass["ejected"] + g.mass["hot"])
  BY <1>2, <1>4 DEF Least
<1>14. h = Depleted(g, x)
  BY <1>3, <1>4, <1>9 DEF Depleted
<1>15. h \in Galaxy /\ z + w = MetalsOf(h) - MetalsOf(g)
  BY <1>12, GalaxyFields DEF Gains
<1> QED
  BY <1>12, <1>13, <1>14, <1>15

-----------------------------------------------------------------------------
(* Star formation, bursts and mergers. *)

\* The star formation budget is one of the cold gas.
LEMMA RecipeFields ==
    ASSUME NEW cold \in Nat, NEW most \in Nat, NEW r \in Recipes(cold, most)
    PROVE  /\ r.formed \in Nat /\ r.locked \in Nat /\ r.reheated \in Nat /\ r.ejected \in Nat
           /\ r.formed + r.reheated <= cold /\ r.locked <= r.formed
           /\ r.formed = 0 => r.reheated = 0 /\ r.ejected = 0
BY DEF Recipes

\* A process that changes the galaxy and then the central: of a central, one record.
LEMMA BothShare ==
    ASSUME NEW g \in Galaxy, NEW c \in Galaxy, NEW isCentral \in BOOLEAN,
           NEW u, NEW v, NEW x1 \in Int, NEW z1 \in Int, NEW x2 \in Int, NEW z2 \in Int,
           Gains(g, u, x1, z1), Gains(IF isCentral THEN u ELSE c, v, x2, z2)
    PROVE  Shares(g, c, isCentral, Both(u, v, isCentral), x1 + x2, z1 + z2)
<1>1. CASE isCentral
  <2>1. Gains(u, v, x2, z2)
    BY <1>1
  <2>2. Gains(g, v, x1 + x2, z1 + z2)
    BY <2>1, GainsAfter
  <2>3. Both(u, v, isCentral).galaxy = v
    BY <1>1 DEF Both
  <2> QED
    BY <1>1, <2>2, <2>3 DEF Shares, Gains
<1>2. CASE ~isCentral
  <2>1. Gains(c, v, x2, z2)
    BY <1>2
  <2>2. Both(u, v, isCentral) = [galaxy |-> u, central |-> v]
    BY <1>2 DEF Both
  <2> QED
    BY <1>2, <2>1, <2>2, GalaxyFields DEF Shares, Gains
<1> QED
  BY <1>1, <1>2

\* Supernova feedback: reheated cold gas of the galaxy is hot gas of the central.
LEMMA BlownShares ==
    ASSUME NEW g \in Galaxy, NEW c \in Galaxy, NEW isCentral \in BOOLEAN,
           NEW r, r.reheated \in 0 .. g.mass["cold"], r.ejected \in Nat
    PROVE  Shares(g, c, isCentral, Blown(g, c, isCentral, r), 0, 0)
<1>1. /\ "cold" \in Tracked \ {"stars"} /\ "hot" \in Tracked \ {"stars"}
      /\ "ejected" \in Tracked \ {"hot"} /\ "hot" \in Masses
  BY DEF Masses, Tracked
<1>2. PICK x, z : x = r.reheated /\ z = Carried(g, "cold", r.reheated)
  OBVIOUS
<1>3. x \in Nat /\ z \in Nat /\ x \in 0 .. g.mass["cold"] /\ z \in 0 .. g.metals["cold"]
  <2>1. g.mass["cold"] \in Nat /\ g.metals["cold"] \in Nat
    BY <1>1, GalaxyFields
  <2>2. x \in Nat /\ x <= g.mass["cold"]
    BY <1>2, <2>1
  <2> QED
    BY <1>1, <1>2, <2>1, <2>2, CarriedIsThere
<1>4. PICK u : u = Debit(g, "cold", x, z)
  OBVIOUS
<1>5. Gains(g, u, -x, -z)
  BY <1>1, <1>3, <1>4, DebitLoses
<1>6. PICK d : d = IF isCentral THEN u ELSE c
  OBVIOUS
<1>7. d \in Galaxy
  BY <1>5, <1>6 DEF Gains
<1>8. PICK wind : wind = Credit(d, "hot", x, z)
  OBVIOUS
<1>9. Gains(d, wind, x, z)
  BY <1>1, <1>3, <1>7, <1>8, CreditGains
<1>10. wind \in Galaxy
  BY <1>9 DEF Gains
<1>11. Least(r.ejected, wind.mass["hot"]) \in 0 .. wind.mass["hot"]
  <2>1. wind.mass["hot"] \in Nat
    BY <1>1, <1>10, GalaxyFields
  <2> QED
    BY <2>1 DEF Least
<1>12. PICK v : v = Moved(wind, "hot", "ejected", Least(r.ejected, wind.mass["hot"]))
  OBVIOUS
<1>13. Gains(wind, v, 0, 0)
  BY <1>1, <1>10, <1>11, <1>12, MovedGains
<1>14. Gains(d, v, x + 0, z + 0)
  BY <1>3, <1>7, <1>9, <1>13, GainsAfter
<1>15. Shares(g, c, isCentral, Both(u, v, isCentral), -x + (x + 0), -z + (z + 0))
  BY <1>3, <1>5, <1>6, <1>14, BothShare
<1>16. -x + (x + 0) = 0 /\ -z + (z + 0) = 0
  BY <1>3
<1>17. Blown(g, c, isCentral, r) = Both(u, v, isCentral)
  BY <1>2, <1>4, <1>6, <1>8, <1>12 DEF Blown
<1> QED
  BY <1>15, <1>16, <1>17

\* The stars that stay locked up, and what is left to blow out.
LEMMA LockedGains ==
    ASSUME NEW g \in Galaxy, NEW r \in Recipes(g.mass["cold"], 1)
    PROVE  LET h == Moved(g, "cold", "stars", r.locked)
           IN  /\ Gains(g, h, 0, 0)
               /\ r.reheated \in 0 .. h.mass["cold"] /\ r.ejected \in Nat /\ r.formed \in Nat
               /\ Carried(g, "cold", r.locked) \in Nat
               /\ h.mass["stars"] = g.mass["stars"] + r.locked /\ r.locked \in Nat
               /\ h.metals["stars"] = g.metals["stars"] + Carried(g, "cold", r.locked)
               /\ h.bulge = g.bulge /\ h.bulgeMetals = g.bulgeMetals
<1>1. /\ "cold" \in Tracked \ {"stars"} /\ "stars" \in Tracked \ {"cold"}
      /\ "cold" \in Masses /\ "stars" \in Masses /\ "cold" # "stars"
  BY DEF Masses, Tracked
<1>2. g.mass["cold"] \in Nat
  BY <1>1, GalaxyFields
<1>3. /\ r.formed \in Nat /\ r.locked \in Nat /\ r.reheated \in Nat /\ r.ejected \in Nat
      /\ r.formed + r.reheated <= g.mass["cold"] /\ r.locked <= r.formed
  BY <1>2, RecipeFields
<1>4. r.locked \in 0 .. g.mass["cold"] /\ r.reheated <= g.mass["cold"] - r.locked
  BY <1>2, <1>3
<1>5. PICK h : h = Moved(g, "cold", "stars", r.locked)
  OBVIOUS
<1>6. /\ Gains(g, h, 0, 0) /\ Carried(g, "cold", r.locked) \in Nat
      /\ h.mass["cold"] = g.mass["cold"] - r.locked
      /\ h.mass["stars"] = g.mass["stars"] + r.locked
      /\ h.metals["stars"] = g.metals["stars"] + Carried(g, "cold", r.locked)
      /\ h.bulge = g.bulge /\ h.bulgeMetals = g.bulgeMetals
  BY <1>1, <1>4, <1>5, MovedGains
<1> QED
  BY <1>2, <1>3, <1>4, <1>5, <1>6

\* apply_star_formation_supernova()
LEMMA StarsShare ==
    ASSUME NEW g \in Galaxy, NEW c \in Galaxy, NEW isCentral \in BOOLEAN,
           NEW r \in Recipes(g.mass["cold"], 1)
    PROVE  Shares(g, c, isCentral, StarsFormed(g, c, isCentral, r), 0, 0)
<1>1. PICK h : h = Moved(g, "cold", "stars", r.locked)
  OBVIOUS
<1>2. /\ Gains(g, h, 0, 0) /\ h \in Galaxy /\ r.formed \in Nat
      /\ r.reheated \in 0 .. h.mass["cold"] /\ r.ejected \in Nat
  BY <1>1, LockedGains DEF Gains
<1>3. PICK local : local = [h EXCEPT !.newStars = r.formed]
  OBVIOUS
<1>4. Gains(h, local, 0, 0) /\ local \in Galaxy /\ local.mass = h.mass
  BY <1>2, <1>3, OtherFields DEF Gains
<1>5. Gains(g, local, 0 + 0, 0 + 0)
  BY <1>2, <1>4, GainsAfter
<1>6. CASE r.formed = 0
  <2>1. Gains(IF isCentral THEN local ELSE c, IF isCentral THEN local ELSE c, 0, 0)
    BY <1>4, GalaxyFields DEF Gains
  <2>2. Shares(g, c, isCentral, Both(local, IF isCentral THEN local ELSE c, isCentral), 0 + 0, 0 + 0)
    BY <1>5, <2>1, BothShare
  <2>3. StarsFormed(g, c, isCentral, r) = Both(local, IF isCentral THEN local ELSE c, isCentral)
    BY <1>1, <1>3, <1>6 DEF StarsFormed
  <2> QED
    BY <2>2, <2>3
<1>7. CASE r.formed # 0
  <2>1. Shares(local, c, isCentral, Blown(local, c, isCentral, r), 0, 0)
    BY <1>2, <1>4, BlownShares
  <2>2. Shares(g, c, isCentral, Blown(local, c, isCentral, r), 0 + 0, 0 + 0)
    BY <1>5, <2>1, SharesAfter
  <2>3. StarsFormed(g, c, isCentral, r) = Blown(local, c, isCentral, r)
    BY <1>1, <1>3, <1>7 DEF StarsFormed
  <2> QED
    BY <2>2, <2>3
<1> QED
  BY <1>6, <1>7

\* The yield goes to the two records in two parts, and all of it.
LEMMA EnrichedShares ==
    ASSUME NEW p, p.galaxy \in Galaxy, NEW isCentral \in BOOLEAN,
           ~isCentral => p.central \in Galaxy,
           NEW produced \in Nat, NEW part \in 0 .. produced
    PROVE  Shares(p.galaxy, p.central, isCentral, Enriched(p, isCentral, produced, part),
                  0, produced)
<1>1. "cold" \in Tracked /\ "hot" \in Tracked
  BY DEF Tracked
<1>2. PICK a : a = IF p.galaxy.mass["cold"] > 0 THEN part ELSE 0
  OBVIOUS
<1>3. a \in Nat /\ produced - a \in Nat
  BY <1>2
<1>4. PICK u : u = Credit(p.galaxy, "cold", 0, a)
  OBVIOUS
<1>5. Gains(p.galaxy, u, 0, a) /\ u \in Galaxy
  <2>1. Gains(p.galaxy, u, 0, a)
    BY <1>1, <1>3, <1>4, CreditGains
  <2> QED
    BY <2>1 DEF Gains
<1>6. PICK d : d = IF isCentral THEN u ELSE p.central
  OBVIOUS
<1>7. d \in Galaxy
  BY <1>5, <1>6
<1>8. PICK v : v = Credit(d, "hot", 0, produced - a)
  OBVIOUS
<1>9. Gains(d, v, 0, produced - a)
  BY <1>1, <1>3, <1>7, <1>8, CreditGains
<1>10. Enriched(p, isCentral, produced, part) = Both(u, v, isCentral)
  BY <1>2, <1>4, <1>6, <1>8 DEF Enriched
<1>11. a + (produced - a) = produced
  BY <1>3
<1>12. CASE isCentral
  <2>0. Gains(u, v, 0, produced - a)
    BY <1>6, <1>9, <1>12
  <2>1. Gains(p.galaxy, v, 0 + 0, a + (produced - a))
    BY <1>3, <1>5, <2>0, GainsAfter
  <2>3. Gains(p.galaxy, v, 0, produced)
    BY <1>11, <2>1
  <2>2. Both(u, v, isCentral).galaxy = v
    BY <1>12 DEF Both
  <2> QED
    BY <1>10, <1>12, <2>2, <2>3 DEF Shares, Gains
<1>13. CASE ~isCentral
  <2>1. Shares(p.galaxy, p.central, isCentral, Both(u, v, isCentral), 0 + 0, a + (produced - a))
    BY <1>3, <1>5, <1>6, <1>9, <1>13, BothShare
  <2> QED
    BY <1>10, <1>11, <2>1
<1> QED
  BY <1>12, <1>13

\* A pair that a process made and the next one goes on with.
LEMMA SharesTwice ==
    ASSUME NEW g \in Galaxy, NEW c \in Galaxy, NEW isCentral \in BOOLEAN, NEW p, NEW q,
           NEW x \in Int, NEW z \in Int, NEW y \in Int, NEW w \in Int,
           Shares(g, c, isCentral, p, x, z), Shares(p.galaxy, p.central, isCentral, q, y, w)
    PROVE  Shares(g, c, isCentral, q, x + y, z + w)
<1>1. p.galaxy \in Galaxy /\ q.galaxy \in Galaxy /\ q.galaxy.clock = g.clock
  BY DEF Shares
<1>2. CASE isCentral
  <2>1. Gains(g, q.galaxy, x + y, z + w)
    BY <1>2, GainsAfter DEF Shares
  <2> QED
    BY <1>1, <1>2, <2>1 DEF Shares
<1>3. CASE ~isCentral
  <2>1. p.central \in Galaxy /\ q.central \in Galaxy /\ q.central.clock = c.clock
    BY <1>3 DEF Shares
  <2>2. BaryonsOf(q.galaxy) + BaryonsOf(q.central) = BaryonsOf(g) + BaryonsOf(c) + (x + y)
    BY <1>1, <1>3, <2>1, GalaxyFields DEF Shares
  <2>3. MetalsOf(q.galaxy) + MetalsOf(q.central) = MetalsOf(g) + MetalsOf(c) + (z + w)
    BY <1>1, <1>3, <2>1, GalaxyFields DEF Shares
  <2> QED
    BY <1>1, <1>3, <2>1, <2>2, <2>3 DEF Shares
<1> QED
  BY <1>2, <1>3

\* apply_metal_enrichment()
LEMMA DiskEnrichedShares ==
    ASSUME NEW g \in Galaxy, NEW c \in Galaxy, NEW isCentral \in BOOLEAN,
           NEW part \in 0 .. Yield * g.newStars
    PROVE  /\ Shares(g, c, isCentral, DiskEnriched(g, c, isCentral, part), 0, Yield * g.newStars)
           /\ Yield * g.newStars \in Nat
<1>1. Yield * g.newStars \in Nat /\ g.newStars \in Nat
  BY YieldAssumption, GalaxyFields
<1>2. PICK u : u = [g EXCEPT !.newStars = 0]
  OBVIOUS
<1>3. Gains(g, u, 0, 0) /\ u \in Galaxy
  BY <1>2, OtherFields DEF Gains
<1>4. PICK p : p = [galaxy |-> u, central |-> IF isCentral THEN u ELSE c]
  OBVIOUS
<1>5. Shares(g, c, isCentral, p, 0, 0) /\ p.galaxy \in Galaxy /\ p.central \in Galaxy
  BY <1>3, <1>4, GalaxyFields DEF Shares, Gains
<1>6. CASE g.newStars = 0
  <2>1. DiskEnriched(g, c, isCentral, part) = p
    BY <1>2, <1>4, <1>6 DEF DiskEnriched
  <2>2. Yield * g.newStars = 0
    BY <1>6, YieldAssumption
  <2> QED
    BY <1>5, <2>1, <2>2
<1>7. CASE g.newStars # 0
  <2>1. PICK produced : produced = Yield * g.newStars
    OBVIOUS
  <2>2. produced \in Nat /\ part \in 0 .. produced
    BY <1>1, <2>1
  <2>3. PICK q : q = Enriched(p, isCentral, produced, part)
    OBVIOUS
  <2>4. Shares(p.galaxy, p.central, isCentral, q, 0, produced)
    BY <1>5, <2>2, <2>3, EnrichedShares
  <2>5. Shares(g, c, isCentral, q, 0 + 0, 0 + produced)
    BY <1>5, <2>2, <2>4, SharesTwice
  <2>6. DiskEnriched(g, c, isCentral, part) = q
    BY <1>2, <1>4, <1>7, <2>1, <2>3 DEF DiskEnriched
  <2> QED
    BY <2>1, <2>2, <2>5, <2>6
<1> QED
  BY <1>6, <1>7

\* apply_collisional_starburst(): the stars are in the bulge at once, and so is
\* their yield in the gas.
LEMMA BurstShares ==
    ASSUME NEW g \in Galaxy, NEW c \in Galaxy, NEW isCentral \in BOOLEAN,
           NEW r \in Recipes(g.mass["cold"], 1), NEW part \in 0 .. Yield * r.formed
    PROVE  /\ Shares(g, c, isCentral, Burst(g, c, isCentral, r, part), 0, Yield * r.formed)
           /\ Yield * r.formed \in Nat
<1>1. PICK h : h = Moved(g, "cold", "stars", r.locked)
  OBVIOUS
<1>2. PICK z : z = Carried(g, "cold", r.locked)
  OBVIOUS
<1>3. /\ Gains(g, h, 0, 0) /\ h \in Galaxy
      /\ r.reheated \in 0 .. h.mass["cold"] /\ r.ejected \in Nat /\ r.formed \in Nat
      /\ r.locked \in Nat /\ z \in Nat
      /\ h.mass["stars"] = g.mass["stars"] + r.locked
      /\ h.metals["stars"] = g.metals["stars"] + z
      /\ h.bulge = g.bulge /\ h.bulgeMetals = g.bulgeMetals
  BY <1>1, <1>2, LockedGains DEF Gains
<1>4. PICK produced : produced = Yield * r.formed
  OBVIOUS
<1>5. produced \in Nat /\ part \in 0 .. produced
  BY <1>3, <1>4, YieldAssumption
<1>6. PICK local : local = [h EXCEPT !.bulge = h.bulge + r.locked, !.bulgeMetals = h.bulgeMetals + z]
  OBVIOUS
<1>7. h.bulge + r.locked \in 0 .. h.mass["stars"] /\ h.bulgeMetals + z \in 0 .. h.metals["stars"]
  <2>1. /\ g.bulge \in Nat /\ g.bulgeMetals \in Nat
        /\ g.bulge <= g.mass["stars"] /\ g.bulgeMetals <= g.metals["stars"]
        /\ g.mass["stars"] \in Nat /\ g.metals["stars"] \in Nat
    BY GalaxyFields DEF Masses, Tracked
  <2> QED
    BY <1>3, <2>1
<1>8. Gains(h, local, 0, 0) /\ local \in Galaxy /\ local.mass = h.mass
  <2>1. Gains(h, local, 0, 0) /\ local.mass = h.mass
    BY <1>3, <1>6, <1>7, OtherFields, ZenonT(40)
  <2> QED
    BY <2>1 DEF Gains
<1>9. Gains(g, local, 0 + 0, 0 + 0)
  BY <1>3, <1>8, GainsAfter
<1>10. PICK p : p = Blown(local, c, isCentral, r)
  OBVIOUS
<1>11. Shares(local, c, isCentral, p, 0, 0)
  BY <1>3, <1>8, <1>10, BlownShares
<1>12. Shares(g, c, isCentral, p, 0 + 0, 0 + 0)
  BY <1>9, <1>11, SharesAfter
<1>13. p.galaxy \in Galaxy /\ (~isCentral => p.central \in Galaxy)
  BY <1>12 DEF Shares
<1>14. PICK q : q = Enriched(p, isCentral, produced, part)
  OBVIOUS
<1>15. Shares(p.galaxy, p.central, isCentral, q, 0, produced)
  BY <1>5, <1>13, <1>14, EnrichedShares
<1>16. Shares(g, c, isCentral, q, 0 + 0, 0 + produced)
  BY <1>5, <1>12, <1>15, SharesTwice
<1>17. Burst(g, c, isCentral, r, part) = q
  <2>1. local = [Moved(g, "cold", "stars", r.locked)
                    EXCEPT !.bulge = @ + r.locked,
                           !.bulgeMetals = @ + Carried(g, "cold", r.locked)]
    BY <1>1, <1>2, <1>3, <1>6 DEF Galaxy
  <2> QED
    BY <1>4, <1>10, <1>14, <2>1 DEF Burst
<1> QED
  BY <1>4, <1>5, <1>16, <1>17

\* apply_disk_instability(): no more stars join the bulge than the disk has.
LEMMA DestabilisedGains ==
    ASSUME NEW g \in Galaxy, NEW u \in Instabilities(g)
    PROVE  Gains(g, Destabilised(g, u[1], u[2]), 0, 0)
<1>1. /\ g.bulge \in Nat /\ g.bulgeMetals \in Nat
      /\ g.bulge <= g.mass["stars"] /\ g.bulgeMetals <= g.metals["stars"]
      /\ g.mass["stars"] \in Nat /\ g.metals["stars"] \in Nat
      /\ g.mass["cold"] \in Nat
  BY GalaxyFields DEF Masses, Tracked
<1>2. PICK disk, x : disk = DiskStars(g) /\ x = u[2]
  OBVIOUS
<1>3. disk \in Nat /\ disk = g.mass["stars"] - g.bulge
  BY <1>1, <1>2 DEF DiskStars
<1>4. u[1] \in BOOLEAN /\ x \in Nat /\ x <= disk
  <2>1. u = <<FALSE, 0>> \/ u \in {TRUE} \X (0 .. disk)
    BY <1>2 DEF Instabilities
  <2>2. CASE u = <<FALSE, 0>>
    BY <1>2, <1>3, <2>2
  <2>3. CASE u \in {TRUE} \X (0 .. disk)
    <3>1. u[2] \in 0 .. disk
      BY <2>3, Zenon
    <3>2. u[1] \in {TRUE}
      BY <2>3, Zenon
    <3>3. x \in Nat /\ x <= disk
      BY <1>2, <1>3, <3>1
    <3>4. u[1] \in BOOLEAN
      BY <3>2, Zenon
    <3> QED
      BY <3>3, <3>4
  <2> QED
    BY <2>1, <2>2, <2>3
<1>5. PICK metals : metals = g.metals["stars"] - g.bulgeMetals
  OBVIOUS
<1>6. PICK gained : gained = IF disk > 0 THEN (x * Least(metals, disk)) \div disk ELSE 0
  OBVIOUS
<1>7. gained \in Nat /\ gained <= metals /\ metals \in Nat
  <2>1. metals \in Nat
    BY <1>1, <1>5
  <2>2. CASE disk > 0
    <3>1. PICK w : w = Least(metals, disk)
      OBVIOUS
    <3>2. w \in Nat /\ w <= metals
      BY <1>3, <2>1, <3>1 DEF Least
    <3>3. (x * w) \div disk \in Nat /\ (x * w) \div disk <= w
      BY <1>3, <1>4, <2>2, <3>2, ShareIsPart
    <3>4. gained = (x * w) \div disk
      BY <1>6, <2>2, <3>1
    <3> QED
      BY <2>1, <3>2, <3>3, <3>4
  <2>3. CASE ~(disk > 0)
    BY <1>6, <2>1, <2>3
  <2> QED
    BY <2>2, <2>3
<1>8. g.bulge + x \in 0 .. g.mass["stars"] /\ g.bulgeMetals + gained \in 0 .. g.metals["stars"]
  BY <1>1, <1>3, <1>4, <1>5, <1>7
<1>9. PICK t : t = (u[1] /\ g.mass["cold"] > 0)
  OBVIOUS
<1>10. t \in BOOLEAN
  BY <1>9
<1>11. Gains(g, [g EXCEPT !.bulge = g.bulge + x, !.bulgeMetals = g.bulgeMetals + gained, !.trigger = t], 0, 0)
  BY <1>8, <1>10, OtherFields
<1>12. Destabilised(g, u[1], u[2])
         = [g EXCEPT !.bulge = g.bulge + x, !.bulgeMetals = g.bulgeMetals + gained, !.trigger = t]
  BY <1>2, <1>5, <1>6, <1>9 DEF Destabilised
<1> QED
  BY <1>11, <1>12

\* _apply_merger_ownership(): the target has what both had.
LEMMA MergedGains ==
    ASSUME NEW t \in Galaxy, NEW s \in Galaxy
    PROVE  Gains(t, MergedInto(t, s), BaryonsOf(s), MetalsOf(s))
<1> DEFINE h == MergedInto(t, s)
           m == [r \in Masses |-> t.mass[r] + s.mass[r]]
           n == [r \in Tracked |-> t.metals[r] + s.metals[r]]
<1>1. t \in [mass : [Masses -> Nat], metals : [Tracked -> Nat], bulge : Nat,
             bulgeMetals : Nat, newStars : Nat, trigger : BOOLEAN, clock : Int]
  BY DEF Galaxy
<1>2. /\ h.mass = m /\ h.metals = n /\ h.clock = t.clock
      /\ h.bulge = t.bulge + s.mass["stars"] /\ h.bulgeMetals = t.bulgeMetals + s.metals["stars"]
  BY <1>1 DEF MergedInto
<1>3. "stars" \in Masses /\ "stars" \in Tracked
  BY DEF Masses, Tracked
<1>4. /\ \A r \in Masses : t.mass[r] \in Nat /\ s.mass[r] \in Nat
      /\ \A r \in Tracked : t.metals[r] \in Nat /\ s.metals[r] \in Nat
      /\ t.bulge \in Nat /\ t.bulgeMetals \in Nat
      /\ t.bulge <= t.mass["stars"] /\ t.bulgeMetals <= t.metals["stars"]
  BY GalaxyFields
<1>5. m \in [Masses -> Nat] /\ n \in [Tracked -> Nat]
  BY <1>4
<1>6. /\ h.bulge \in Nat /\ h.bulge <= m["stars"]
      /\ h.bulgeMetals \in Nat /\ h.bulgeMetals <= n["stars"]
  BY <1>2, <1>3, <1>4
<1>7. h \in Galaxy
  <2>1. h \in [mass : [Masses -> Nat], metals : [Tracked -> Nat], bulge : Nat,
               bulgeMetals : Nat, newStars : Nat, trigger : BOOLEAN, clock : Int]
    <3>1. t.bulge + s.mass["stars"] \in Nat /\ t.bulgeMetals + s.metals["stars"] \in Nat
      BY <1>3, <1>4
    <3> QED
      BY <1>1, <1>5, <3>1 DEF MergedInto
  <2> HIDE DEF h, m, n
  <2> QED
    BY <1>2, <1>6, <2>1 DEF Galaxy
<1>8. BaryonsOf(h) = BaryonsOf(t) + BaryonsOf(s)
  <2>1. \A r \in Masses : t.mass[r] \in Int /\ s.mass[r] \in Int /\ m[r] = t.mass[r] + s.mass[r]
    BY <1>4
  <2> HIDE DEF h, m, n
  <2>2. SumFunctionOnSet(m, Masses) = SumFunctionOnSet(t.mass, Masses) + SumFunctionOnSet(s.mass, Masses)
    BY <2>1, ReservoirsAreFinite, SumOfBoth
  <2> QED
    BY <1>2, <2>2 DEF BaryonsOf
<1>9. MetalsOf(h) = MetalsOf(t) + MetalsOf(s)
  <2>1. \A r \in Tracked : t.metals[r] \in Int /\ s.metals[r] \in Int /\ n[r] = t.metals[r] + s.metals[r]
    BY <1>4
  <2> HIDE DEF h, m, n
  <2>2. SumFunctionOnSet(n, Tracked) = SumFunctionOnSet(t.metals, Tracked) + SumFunctionOnSet(s.metals, Tracked)
    BY <2>1, ReservoirsAreFinite, SumOfBoth
  <2> QED
    BY <1>2, <2>2 DEF MetalsOf
<1> QED
  BY <1>2, <1>7, <1>8, <1>9 DEF Gains

\* _apply_disruption_ownership(): all but the black hole.
LEMMA DisruptedGains ==
    ASSUME NEW t \in Galaxy, NEW s \in Galaxy
    PROVE  Gains(t, DisruptedInto(t, s), BaryonsOf(s) - s.mass["bh"], MetalsOf(s))
<1> DEFINE Into(u, from, to) == Credit(u, to, s.mass[from], s.metals[from])
<1>1. ASSUME NEW u \in Galaxy, NEW from \in Tracked, NEW to \in Tracked
      PROVE  Gains(u, Into(u, from, to), s.mass[from], s.metals[from]) /\ Into(u, from, to) \in Galaxy
  <2>1. s.mass[from] \in Nat /\ s.metals[from] \in Nat
    BY GalaxyFields
  <2>2. Gains(u, Into(u, from, to), s.mass[from], s.metals[from])
    BY <2>1, CreditGains
  <2> QED
    BY <2>2 DEF Gains
<1>2. /\ "cold" \in Tracked /\ "hot" \in Tracked /\ "ejected" \in Tracked
      /\ "ics" \in Tracked /\ "stars" \in Tracked
  BY DEF Tracked
<1>3. PICK u1, u2, u3, u4, u5 :
         /\ u1 = Into(t, "cold", "hot") /\ u2 = Into(u1, "hot", "hot")
         /\ u3 = Into(u2, "ejected", "ejected") /\ u4 = Into(u3, "ics", "ics")
         /\ u5 = Into(u4, "stars", "ics")
  OBVIOUS
<1>4. u5 = DisruptedInto(t, s)
  BY <1>3 DEF DisruptedInto
<1> HIDE DEF Into
<1>5. Gains(t, u1, s.mass["cold"], s.metals["cold"]) /\ u1 \in Galaxy
  BY <1>1, <1>2, <1>3
<1>6. Gains(u1, u2, s.mass["hot"], s.metals["hot"]) /\ u2 \in Galaxy
  BY <1>1, <1>2, <1>3, <1>5
<1>7. Gains(u2, u3, s.mass["ejected"], s.metals["ejected"]) /\ u3 \in Galaxy
  BY <1>1, <1>2, <1>3, <1>6
<1>8. Gains(u3, u4, s.mass["ics"], s.metals["ics"]) /\ u4 \in Galaxy
  BY <1>1, <1>2, <1>3, <1>7
<1>9. Gains(u4, u5, s.mass["stars"], s.metals["stars"]) /\ u5 \in Galaxy
  BY <1>1, <1>2, <1>3, <1>8
<1>10. /\ s.mass["cold"] \in Int /\ s.mass["hot"] \in Int /\ s.mass["ejected"] \in Int
       /\ s.mass["ics"] \in Int /\ s.mass["stars"] \in Int /\ s.mass["bh"] \in Int
       /\ s.metals["cold"] \in Int /\ s.metals["hot"] \in Int /\ s.metals["ejected"] \in Int
       /\ s.metals["ics"] \in Int /\ s.metals["stars"] \in Int
  BY GalaxyFields DEF Masses, Tracked
<1>11. /\ BaryonsOf(s) = s.mass["cold"] + s.mass["hot"] + s.mass["ejected"]
                          + s.mass["stars"] + s.mass["ics"] + s.mass["bh"]
       /\ MetalsOf(s) = s.metals["cold"] + s.metals["hot"] + s.metals["ejected"]
                         + s.metals["stars"] + s.metals["ics"]
  <2>1. (\A r \in Masses : s.mass[r] \in Int) /\ (\A r \in Tracked : s.metals[r] \in Int)
    BY GalaxyFields
  <2> QED
    BY <2>1, BaryonsAre, MetalsAre
<1>12. BaryonsOf(t) \in Int /\ MetalsOf(t) \in Int
  BY GalaxyFields
<1>13. BaryonsOf(u5) = BaryonsOf(t) + (BaryonsOf(s) - s.mass["bh"])
  BY <1>5, <1>6, <1>7, <1>8, <1>9, <1>10, <1>11, <1>12 DEF Gains
<1>14. MetalsOf(u5) = MetalsOf(t) + MetalsOf(s)
  BY <1>5, <1>6, <1>7, <1>8, <1>9, <1>10, <1>11, <1>12 DEF Gains
<1> QED
  BY <1>4, <1>5, <1>6, <1>7, <1>8, <1>9, <1>13, <1>14 DEF Gains

-----------------------------------------------------------------------------
(* The members of a group together. *)

\* What the members in L have, if G are the galaxies.
BaryonsIn(G, L) == SumFunctionOnSet([i \in L |-> BaryonsOf(G[i])], L)
MetalsIn(G, L) == SumFunctionOnSet([i \in L |-> MetalsOf(G[i])], L)

\* The live members are finitely many.
LEMMA MembersAreFinite ==
    ASSUME NEW n \in Nat, NEW L \in SUBSET (1 .. n)
    PROVE  IsFiniteSet(L)
<1>1. IsFiniteSet(1 .. n)
  BY FS_Interval, n \in Int, 1 \in Int
<1> QED
  BY <1>1, FS_Subset

\* A sum over members is one, and depends on what they hold only.
LEMMA LedgersAre ==
    ASSUME NEW n \in Nat, NEW L \in SUBSET (1 .. n), NEW G \in [1 .. n -> Galaxy]
    PROVE  /\ BaryonsIn(G, L) \in Int /\ MetalsIn(G, L) \in Int
           /\ \A H \in [1 .. n -> Galaxy] :
                 /\ (\A i \in L : BaryonsOf(H[i]) = BaryonsOf(G[i])) => BaryonsIn(H, L) = BaryonsIn(G, L)
                 /\ (\A i \in L : MetalsOf(H[i]) = MetalsOf(G[i])) => MetalsIn(H, L) = MetalsIn(G, L)
<1>1. IsFiniteSet(L)
  BY MembersAreFinite
<1>2. \A i \in L : BaryonsOf(G[i]) \in Int /\ MetalsOf(G[i]) \in Int
  BY GalaxyFields
<1>3. BaryonsIn(G, L) \in Int
  BY <1>1, <1>2, SumIsInt DEF BaryonsIn
<1>4. MetalsIn(G, L) \in Int
  BY <1>1, <1>2, SumIsInt DEF MetalsIn
<1>5. ASSUME NEW H \in [1 .. n -> Galaxy], \A i \in L : BaryonsOf(H[i]) = BaryonsOf(G[i])
      PROVE  BaryonsIn(H, L) = BaryonsIn(G, L)
  BY <1>5 DEF BaryonsIn
<1>6. ASSUME NEW H \in [1 .. n -> Galaxy], \A i \in L : MetalsOf(H[i]) = MetalsOf(G[i])
      PROVE  MetalsIn(H, L) = MetalsIn(G, L)
  BY <1>6 DEF MetalsIn
<1> QED
  BY <1>3, <1>4, <1>5, <1>6

\* The members in L have x baryons and z metals more in H than in G.
Balance(G, H, L, x, z) ==
    /\ BaryonsIn(H, L) = BaryonsIn(G, L) + x
    /\ MetalsIn(H, L) = MetalsIn(G, L) + z

\* One member changes.
LEMMA OneChanges ==
    ASSUME NEW n \in Nat, NEW L \in SUBSET (1 .. n), NEW G \in [1 .. n -> Galaxy],
           NEW H \in [1 .. n -> Galaxy], NEW i \in L, \A j \in L \ {i} : H[j] = G[j]
    PROVE  Balance(G, H, L, BaryonsOf(H[i]) - BaryonsOf(G[i]), MetalsOf(H[i]) - MetalsOf(G[i]))
<1>1. \A j \in L \ {i} : H[j] = G[j]
  OBVIOUS
<1>2. IsFiniteSet(L)
  BY MembersAreFinite
<1>3. /\ \A j \in L : BaryonsOf(G[j]) \in Int /\ MetalsOf(G[j]) \in Int
      /\ \A j \in L : BaryonsOf(H[j]) \in Int /\ MetalsOf(H[j]) \in Int
  BY <1>1, GalaxyFields
<1>4. BaryonsIn(H, L) = BaryonsIn(G, L) + (BaryonsOf(H[i]) - BaryonsOf(G[i]))
  <2>1. PICK e, f : e = [j \in L |-> BaryonsOf(H[j])] /\ f = [j \in L |-> BaryonsOf(G[j])]
    OBVIOUS
  <2>2. /\ \A j \in L : e[j] \in Int /\ f[j] \in Int
        /\ \A j \in L \ {i} : e[j] = f[j]
    BY <1>1, <1>3, <2>1
  <2>3. \A j \in L : e[j] \in Int /\ f[j] \in Int
    BY <2>2
  <2>4. \A j \in L \ {i} : e[j] = f[j]
    BY <2>2
  <2>5. SumFunctionOnSet(e, L) = SumFunctionOnSet(f, L) + (e[i] - f[i])
    <3>1. SumFunctionOnSet(e, L \ {i}) = SumFunctionOnSet(f, L \ {i})
      BY <1>2, <2>4, MembersAreFinite, SumsAgree, L \ {i} \in SUBSET (1 .. n)
    <3>2. /\ SumFunctionOnSet(e, L \ {i}) \in Int
          /\ SumFunctionOnSet(e, L) = e[i] + SumFunctionOnSet(e, L \ {i})
      BY <1>2, <2>3, SumTakes
    <3>3. SumFunctionOnSet(f, L) = f[i] + SumFunctionOnSet(f, L \ {i})
      BY <1>2, <2>3, SumTakes
    <3> QED
      BY <2>3, <3>1, <3>2, <3>3
  <2> QED
    BY <2>1, <2>5 DEF BaryonsIn
<1>5. MetalsIn(H, L) = MetalsIn(G, L) + (MetalsOf(H[i]) - MetalsOf(G[i]))
  <2>1. PICK e, f : e = [j \in L |-> MetalsOf(H[j])] /\ f = [j \in L |-> MetalsOf(G[j])]
    OBVIOUS
  <2>2. /\ \A j \in L : e[j] \in Int /\ f[j] \in Int
        /\ \A j \in L \ {i} : e[j] = f[j]
    BY <1>1, <1>3, <2>1
  <2>3. \A j \in L : e[j] \in Int /\ f[j] \in Int
    BY <2>2
  <2>4. \A j \in L \ {i} : e[j] = f[j]
    BY <2>2
  <2>5. SumFunctionOnSet(e, L) = SumFunctionOnSet(f, L) + (e[i] - f[i])
    <3>1. SumFunctionOnSet(e, L \ {i}) = SumFunctionOnSet(f, L \ {i})
      BY <1>2, <2>4, MembersAreFinite, SumsAgree, L \ {i} \in SUBSET (1 .. n)
    <3>2. /\ SumFunctionOnSet(e, L \ {i}) \in Int
          /\ SumFunctionOnSet(e, L) = e[i] + SumFunctionOnSet(e, L \ {i})
      BY <1>2, <2>3, SumTakes
    <3>3. SumFunctionOnSet(f, L) = f[i] + SumFunctionOnSet(f, L \ {i})
      BY <1>2, <2>3, SumTakes
    <3> QED
      BY <2>3, <3>1, <3>2, <3>3
  <2> QED
    BY <2>1, <2>5 DEF MetalsIn
<1> QED
  BY <1>4, <1>5 DEF Balance

\* One member is consumed.
LEMMA OneLeaves ==
    ASSUME NEW n \in Nat, NEW L \in SUBSET (1 .. n), NEW G \in [1 .. n -> Galaxy], NEW i \in L
    PROVE  /\ BaryonsIn(G, L \ {i}) = BaryonsIn(G, L) - BaryonsOf(G[i])
           /\ MetalsIn(G, L \ {i}) = MetalsIn(G, L) - MetalsOf(G[i])
<1>1. IsFiniteSet(L) /\ IsFiniteSet(L \ {i})
  BY MembersAreFinite, L \ {i} \in SUBSET (1 .. n)
<1>2. \A j \in L : BaryonsOf(G[j]) \in Int /\ MetalsOf(G[j]) \in Int
  BY GalaxyFields
<1>3. BaryonsIn(G, L \ {i}) = BaryonsIn(G, L) - BaryonsOf(G[i])
  <2>1. PICK e, f : e = [j \in L |-> BaryonsOf(G[j])] /\ f = [j \in L \ {i} |-> BaryonsOf(G[j])]
    OBVIOUS
  <2>2. (\A j \in L : e[j] \in Int) /\ (\A j \in L \ {i} : f[j] = e[j]) /\ e[i] = BaryonsOf(G[i])
    BY <1>2, <2>1
  <2>3. SumFunctionOnSet(f, L \ {i}) = SumFunctionOnSet(e, L \ {i})
    BY <1>1, <2>2, SumsAgree
  <2>4. /\ SumFunctionOnSet(e, L \ {i}) \in Int
        /\ SumFunctionOnSet(e, L) = e[i] + SumFunctionOnSet(e, L \ {i})
    BY <1>1, <2>2, SumTakes
  <2> QED
    BY <1>2, <2>1, <2>2, <2>3, <2>4 DEF BaryonsIn
<1>4. MetalsIn(G, L \ {i}) = MetalsIn(G, L) - MetalsOf(G[i])
  <2>1. PICK e, f : e = [j \in L |-> MetalsOf(G[j])] /\ f = [j \in L \ {i} |-> MetalsOf(G[j])]
    OBVIOUS
  <2>2. (\A j \in L : e[j] \in Int) /\ (\A j \in L \ {i} : f[j] = e[j]) /\ e[i] = MetalsOf(G[i])
    BY <1>2, <2>1
  <2>3. SumFunctionOnSet(f, L \ {i}) = SumFunctionOnSet(e, L \ {i})
    BY <1>1, <2>2, SumsAgree
  <2>4. /\ SumFunctionOnSet(e, L \ {i}) \in Int
        /\ SumFunctionOnSet(e, L) = e[i] + SumFunctionOnSet(e, L \ {i})
    BY <1>1, <2>2, SumTakes
  <2> QED
    BY <1>2, <2>1, <2>2, <2>3, <2>4 DEF MetalsIn
<1> QED
  BY <1>3, <1>4

\* Of the galaxies G, the pair p is committed for member i and the central c, as
\* H: _set_galaxy_and_central() writes one record or two.
Committed(n, G, H, i, c, p) ==
    /\ G \in [1 .. n -> Galaxy] /\ H \in [1 .. n -> Galaxy]
    /\ \A j \in 1 .. n : H[j] = CASE j = i -> p.galaxy
                                   [] j = c /\ j # i -> p.central
                                   [] OTHER -> G[j]

\* The ledgers of the live members move by what the process brings the pair.
LEMMA CommitBalances ==
    ASSUME NEW n \in Nat, NEW L \in SUBSET (1 .. n), NEW i \in L, NEW c \in L,
           NEW G, NEW H, NEW p, NEW x \in Int, NEW z \in Int,
           Committed(n, G, H, i, c, p), Shares(G[i], G[c], i = c, p, x, z)
    PROVE  Balance(G, H, L, x, z)
<1>0. /\ G \in [1 .. n -> Galaxy] /\ H \in [1 .. n -> Galaxy]
      /\ H[i] = p.galaxy /\ (i # c => H[c] = p.central)
      /\ \A j \in (1 .. n) \ {i, c} : H[j] = G[j]
  BY DEF Committed
<1>1. CASE i = c
  <2>1. /\ p.galaxy \in Galaxy /\ p.galaxy.clock = G[i].clock
        /\ BaryonsOf(p.galaxy) = BaryonsOf(G[i]) + x /\ MetalsOf(p.galaxy) = MetalsOf(G[i]) + z
    BY <1>1 DEF Shares, Gains
  <2>2. H[i] = p.galaxy /\ \A j \in (1 .. n) \ {i} : H[j] = G[j]
    BY <1>0, <1>1
  <2>3. BaryonsIn(H, L) = BaryonsIn(G, L) + x /\ MetalsIn(H, L) = MetalsIn(G, L) + z
    <3>1. /\ BaryonsIn(H, L) = BaryonsIn(G, L) + (BaryonsOf(p.galaxy) - BaryonsOf(G[i]))
          /\ MetalsIn(H, L) = MetalsIn(G, L) + (MetalsOf(p.galaxy) - MetalsOf(G[i]))
      <4>1. H \in [1 .. n -> Galaxy] /\ H[i] = p.galaxy /\ \A j \in L \ {i} : H[j] = G[j]
        BY <1>0, <2>1, <2>2
      <4>2. H \in [1 .. n -> Galaxy] /\ (\A j \in L \ {i} : H[j] = G[j]) /\ i \in L
        BY <4>1
      <4>3. Balance(G, H, L, BaryonsOf(H[i]) - BaryonsOf(G[i]), MetalsOf(H[i]) - MetalsOf(G[i]))
        BY <1>0, <4>2, OneChanges
      <4> QED
        BY <4>1, <4>3 DEF Balance
    <3>2. BaryonsOf(G[i]) \in Int /\ MetalsOf(G[i]) \in Int
      BY <1>0, GalaxyFields
    <3> QED
      BY <2>1, <3>1, <3>2
  <2> QED
    BY <2>3 DEF Balance
<1>2. CASE i # c
  <2>1. PICK a, b : a = p.galaxy /\ b = p.central
    OBVIOUS
  <2>2. /\ a \in Galaxy /\ a.clock = G[i].clock
        /\ b \in Galaxy /\ b.clock = G[c].clock
        /\ BaryonsOf(a) + BaryonsOf(b) = BaryonsOf(G[i]) + BaryonsOf(G[c]) + x
        /\ MetalsOf(a) + MetalsOf(b) = MetalsOf(G[i]) + MetalsOf(G[c]) + z
    BY <1>2, <2>1 DEF Shares
  <2>3. PICK F : F = [G EXCEPT ![i] = a]
    OBVIOUS
  <2>4. /\ F \in [1 .. n -> Galaxy] /\ F[c] = G[c]
        /\ H[c] = b /\ \A j \in (1 .. n) \ {c} : H[j] = F[j]
    BY <1>0, <1>2, <2>1, <2>2, <2>3
  <2>5. BaryonsIn(H, L) = BaryonsIn(G, L) + x /\ MetalsIn(H, L) = MetalsIn(G, L) + z
    <3>1. a \in Galaxy /\ b \in Galaxy
      BY <2>2
    <3>2. /\ BaryonsIn(F, L) = BaryonsIn(G, L) + (BaryonsOf(a) - BaryonsOf(G[i]))
          /\ MetalsIn(F, L) = MetalsIn(G, L) + (MetalsOf(a) - MetalsOf(G[i]))
      <4>1. F[i] = a /\ \A j \in L \ {i} : F[j] = G[j]
        BY <1>0, <2>3
      <4>2. F \in [1 .. n -> Galaxy] /\ i \in L
        BY <2>4
      <4>3. Balance(G, F, L, BaryonsOf(F[i]) - BaryonsOf(G[i]), MetalsOf(F[i]) - MetalsOf(G[i]))
        BY <1>0, <4>1, <4>2, OneChanges
      <4> QED
        BY <4>1, <4>3 DEF Balance
    <3>3. /\ BaryonsIn(H, L) = BaryonsIn(F, L) + (BaryonsOf(b) - BaryonsOf(F[c]))
          /\ MetalsIn(H, L) = MetalsIn(F, L) + (MetalsOf(b) - MetalsOf(F[c]))
      <4>1. H[c] = b /\ H \in [1 .. n -> Galaxy] /\ \A j \in L \ {c} : H[j] = F[j]
        BY <1>0, <2>2, <2>4
      <4>2. F \in [1 .. n -> Galaxy] /\ c \in L
        BY <2>4
      <4>3. Balance(F, H, L, BaryonsOf(H[c]) - BaryonsOf(F[c]), MetalsOf(H[c]) - MetalsOf(F[c]))
        BY <1>0, <4>1, <4>2, OneChanges
      <4> QED
        BY <4>1, <4>3 DEF Balance
    <3>4. /\ BaryonsOf(G[i]) \in Int /\ MetalsOf(G[i]) \in Int
          /\ BaryonsOf(G[c]) \in Int /\ MetalsOf(G[c]) \in Int
          /\ BaryonsOf(a) \in Int /\ MetalsOf(a) \in Int
          /\ BaryonsOf(b) \in Int /\ MetalsOf(b) \in Int
      BY <1>0, <3>1, GalaxyFields
    <3>5. /\ BaryonsIn(G, L) \in Int /\ MetalsIn(G, L) \in Int
          /\ BaryonsIn(F, L) \in Int /\ MetalsIn(F, L) \in Int
      BY <1>0, <2>4, LedgersAre
    <3>6. BaryonsOf(F[c]) = BaryonsOf(G[c]) /\ MetalsOf(F[c]) = MetalsOf(G[c])
      BY <2>4
    <3>7. BaryonsIn(H, L) = BaryonsIn(G, L) + x
      <4>1. PICK ra, rb, ri, rc :
               /\ ra = BaryonsOf(a) /\ rb = BaryonsOf(b) /\ ri = BaryonsOf(G[i]) /\ rc = BaryonsOf(G[c])
        OBVIOUS
      <4>2. PICK sg, sf : sg = BaryonsIn(G, L) /\ sf = BaryonsIn(F, L)
        OBVIOUS
      <4>3. ra \in Int /\ rb \in Int /\ ri \in Int /\ rc \in Int /\ sg \in Int /\ sf \in Int
        BY <3>4, <3>5, <4>1, <4>2
      <4>4. ra + rb = ri + rc + x /\ sf = sg + (ra - ri) /\ BaryonsIn(H, L) = sf + (rb - rc)
        BY <2>2, <3>2, <3>3, <3>6, <4>1, <4>2
      <4>5. sf + (rb - rc) = sg + x
        BY ONLY <4>3, <4>4, x \in Int
      <4> QED
        BY <4>2, <4>4, <4>5
    <3>8. MetalsIn(H, L) = MetalsIn(G, L) + z
      <4>1. PICK ra, rb, ri, rc :
               /\ ra = MetalsOf(a) /\ rb = MetalsOf(b) /\ ri = MetalsOf(G[i]) /\ rc = MetalsOf(G[c])
        OBVIOUS
      <4>2. PICK sg, sf : sg = MetalsIn(G, L) /\ sf = MetalsIn(F, L)
        OBVIOUS
      <4>3. ra \in Int /\ rb \in Int /\ ri \in Int /\ rc \in Int /\ sg \in Int /\ sf \in Int
        BY <3>4, <3>5, <4>1, <4>2
      <4>4. ra + rb = ri + rc + z /\ sf = sg + (ra - ri) /\ MetalsIn(H, L) = sf + (rb - rc)
        BY <2>2, <3>2, <3>3, <3>6, <4>1, <4>2
      <4>5. sf + (rb - rc) = sg + z
        BY ONLY <4>3, <4>4, z \in Int
      <4> QED
        BY <4>2, <4>4, <4>5
    <3> QED
      BY <3>7, <3>8
  <2> QED
    BY <2>5 DEF Balance
<1> QED
  BY <1>1, <1>2
-----------------------------------------------------------------------------
(* The inductive invariant. *)

\* The other fields of a member's halo.
Halo == [home : Int, dt : {"valid", "initial", "invalid"}, supplies : SUBSET Int]

\* The group keeps its members, and one of them is its central.
Shape ==
    /\ Len(gal) \in Nat
    /\ gal \in [1 .. Len(gal) -> Galaxy]
    /\ type \in [1 .. Len(gal) -> 0 .. 3]
    /\ halo \in [1 .. Len(gal) -> Halo]
    /\ prepared \in [1 .. Len(gal) -> Int]
    /\ \E c \in 1 .. Len(gal) : \A i \in 1 .. Len(gal) : type[i] = 0 <=> i = c

\* An event is being consumed.
Consuming == {"merger", "followup", "settle"}

\* Where the interval is.
Counters ==
    /\ pc \in {"prepare", "infall", "reincorporate", "strip", "stars", "burst", "enrich",
               "resolve", "done"} \cup Consuming
    /\ k \in 1 .. Len(gal)
    /\ step \in 0 .. NumSubsteps
    /\ pc # "done" => step < NumSubsteps
    /\ pc = "done" => step = NumSubsteps /\ ~halted
    /\ pc = "prepare" => step = 0
    /\ supply \in Int /\ halted \in BOOLEAN /\ success \in BOOLEAN
    /\ account \in Account

\* Whose records are written: a live member's, and while an event is consumed
\* those of its target, which is live while the account is intact.
Turn ==
    /\ pc \in {"stars", "burst", "enrich"} => type[k] # 3
    /\ pc \in Consuming => /\ type[k] = 3
                           /\ event.target \in 1 .. Len(gal)
                           /\ account.intact => type[event.target] # 3

\* How often the scans of a successful interval have run the clock of member i.
Ticks(i) == IF pc \in {"resolve"} \cup Consuming /\ i < k THEN step + 1 ELSE step

\* The clocks so far, if no scan was halted; a satellite left at the end has a halo.
ClocksRun ==
    success /\ ~halted /\ pc # "prepare" =>
        \A i \in 1 .. Len(gal) : type[i] \notin {0, 3} /\ halo[i].dt # "initial" =>
            /\ gal[i].clock = prepared[i] - Ticks(i)
            /\ Ticks(i) = NumSubsteps => type[i] = 1

\* What every step keeps.
IInv == Shape /\ Counters /\ Turn /\ ClocksRun /\ LedgersBalance

\* The length of a sequence given as a function.
LEMMA Sized ==
    ASSUME NEW n \in Nat, NEW S, NEW s \in [1 .. n -> S]
    PROVE  Len(s) = n
OBVIOUS

\* The ledgers of the model are the sums above.
LEMMA LedgersOf ==
    ASSUME NEW G, NEW L
    PROVE  /\ SumFunction([i \in L |-> BaryonsOf(G[i])]) = BaryonsIn(G, L)
           /\ SumFunction([i \in L |-> MetalsOf(G[i])]) = MetalsIn(G, L)
<1>1. DOMAIN [i \in L |-> BaryonsOf(G[i])] = L /\ DOMAIN [i \in L |-> MetalsOf(G[i])] = L
  OBVIOUS
<1> QED
  BY <1>1, Zenon DEF SumFunction, BaryonsIn, MetalsIn

\* There is one central.
LEMMA CentralIs ==
    ASSUME Shape
    PROVE  /\ Members = 1 .. Len(gal) /\ Live \in SUBSET (1 .. Len(gal))
           /\ Central \in 1 .. Len(gal) /\ Central \in Live
           /\ \A i \in 1 .. Len(gal) : type[i] = 0 <=> i = Central
           /\ LiveBaryons = BaryonsIn(gal, Live) /\ LiveMetals = MetalsIn(gal, Live)
<1>1. Members = 1 .. Len(gal) /\ Live \in SUBSET (1 .. Len(gal))
  BY DEF Shape, Members, Live
<1>2. PICK c \in 1 .. Len(gal) : \A i \in 1 .. Len(gal) : type[i] = 0 <=> i = c
  BY DEF Shape
<1>3. Central \in 1 .. Len(gal) /\ type[Central] = 0
  BY <1>1, <1>2 DEF Central
<1>4. Central = c
  BY <1>2, <1>3
<1>5. Central \in Live
  BY <1>1, <1>3 DEF Live
<1> QED
  BY <1>1, <1>2, <1>3, <1>4, <1>5, LedgersOf DEF LiveBaryons, LiveMetals

\* An event or a process leaves a consumed record or a padded slot alone.
DeadKept ==
    account'.intact => \A i \in Members : type[i] = 3 => type'[i] = 3 /\ gal'[i] = gal[i]

\* A process runs no clock.
SameClocks == \A i \in 1 .. Len(gal) : gal'[i].clock = gal[i].clock

\* The members as a process leaves them that brings the live ones x baryons and
\* z metals.
Wrote(x, z) ==
    /\ gal' \in [1 .. Len(gal) -> Galaxy]
    /\ account.intact =>
          /\ BaryonsIn(gal', Live) = BaryonsIn(gal, Live) + x
          /\ MetalsIn(gal', Live) = MetalsIn(gal, Live) + z
          /\ \A i \in 1 .. Len(gal) : type[i] = 3 => gal'[i] = gal[i]

\* The same of an action that declares x and z.
Worked(x, z) ==
    /\ Wrote(x, z)
    /\ Declare(x, z)
    /\ prepared' \in [1 .. Len(gal) -> Int]
    /\ UNCHANGED <<type, halo>>

\* The group's shape depends on the galaxies being galaxies only.
LEMMA ShapeKept ==
    ASSUME Shape, gal' \in [1 .. Len(gal) -> Galaxy], type' = type, halo' = halo,
           prepared' \in [1 .. Len(gal) -> Int]
    PROVE  /\ Shape' /\ Len(gal') = Len(gal) /\ Live' = Live
           /\ LiveBaryons' = BaryonsIn(gal', Live) /\ LiveMetals' = MetalsIn(gal', Live)
<1>1. PICK n : n = Len(gal)
  OBVIOUS
<1>2. n \in Nat /\ gal' \in [1 .. n -> Galaxy] /\ gal \in [1 .. n -> Galaxy]
  BY <1>1 DEF Shape
<1>3. Len(gal') = n
  BY <1>2, Sized
<1>4. DOMAIN gal' = DOMAIN gal
  BY <1>2
<1>5. Live' = Live
  BY <1>4 DEF Live, Members
<1>6. Shape'
  BY <1>1, <1>2, <1>3 DEF Shape
<1>7. LiveBaryons' = BaryonsIn(gal', Live') /\ LiveMetals' = MetalsIn(gal', Live')
  BY LedgersOf DEF LiveBaryons, LiveMetals
<1> QED
  BY <1>1, <1>3, <1>5, <1>6, <1>7

\* A process that declares what it brings keeps the balance of the ledgers.
LEMMA WorkedKeeps ==
    ASSUME Shape, account \in Account, LedgersBalance,
           NEW x \in Int, NEW z \in Int, Worked(x, z)
    PROVE  /\ Shape' /\ Len(gal') = Len(gal) /\ account' \in Account
           /\ account'.intact = account.intact
           /\ LedgersBalance' /\ DeadKept
<1>1. /\ Shape' /\ Len(gal') = Len(gal) /\ Live' = Live
      /\ LiveBaryons' = BaryonsIn(gal', Live) /\ LiveMetals' = MetalsIn(gal', Live)
  <2>1. gal' \in [1 .. Len(gal) -> Galaxy] /\ type' = type /\ halo' = halo
        /\ prepared' \in [1 .. Len(gal) -> Int]
    BY DEF Worked, Wrote
  <2> QED
    BY <2>1, ShapeKept
<1>2. /\ account.baryons \in Int /\ account.metals \in Int /\ account.intact \in BOOLEAN
      /\ account'.baryons = account.baryons + x /\ account'.metals = account.metals + z
      /\ account'.intact = account.intact /\ account' \in Account
  <2>1. PICK a : a = account
    OBVIOUS
  <2>2. /\ a = [baryons |-> a.baryons, metals |-> a.metals, intact |-> a.intact]
        /\ a.baryons \in Int /\ a.metals \in Int /\ a.intact \in BOOLEAN
    BY <2>1 DEF Account
  <2>3. PICK b : b = [a EXCEPT !.baryons = @ + x, !.metals = @ + z]
    OBVIOUS
  <2>4. b = [baryons |-> a.baryons + x, metals |-> a.metals + z, intact |-> a.intact]
    BY <2>2, <2>3
  <2>5. b = account'
    BY <2>1, <2>3 DEF Worked, Declare
  <2> QED
    BY <2>1, <2>2, <2>4, <2>5 DEF Account
<1>3. LedgersBalance'
  <2> SUFFICES ASSUME account'.intact
               PROVE  LiveBaryons' = account'.baryons /\ LiveMetals' = account'.metals
    BY DEF LedgersBalance, BaryonsBalance, MetalsBalance
  <2>1. LiveBaryons = account.baryons /\ LiveMetals = account.metals
    BY <1>2 DEF LedgersBalance, BaryonsBalance, MetalsBalance
  <2>2. BaryonsIn(gal, Live) = account.baryons /\ MetalsIn(gal, Live) = account.metals
    BY <2>1, CentralIs
  <2>3. /\ BaryonsIn(gal', Live) = BaryonsIn(gal, Live) + x
        /\ MetalsIn(gal', Live) = MetalsIn(gal, Live) + z
    BY <1>2 DEF Worked, Wrote
  <2> QED
    BY <1>1, <1>2, <2>2, <2>3
<1>4. DeadKept
  BY <1>2, CentralIs DEF DeadKept, Worked, Wrote
<1> QED
  BY <1>1, <1>2, <1>3, <1>4

\* _set_galaxy_and_central() and _set_target_and_central() write what a process
\* returns, whichever of the two records it is.
LEMMA CommitWrites ==
    ASSUME Shape, NEW i \in 1 .. Len(gal), account.intact => type[i] # 3,
           NEW p, NEW x \in Int, NEW z \in Int,
           Shares(gal[i], gal[Central], i = Central, p, x, z), gal' = Commit(i, p)
    PROVE  Wrote(x, z) /\ SameClocks
<1>1. PICK n, c, G, L, H : n = Len(gal) /\ c = Central /\ G = gal /\ L = Live /\ H = gal'
  OBVIOUS
<1>2. /\ n \in Nat /\ L \in SUBSET (1 .. n) /\ G \in [1 .. n -> Galaxy] /\ i \in 1 .. n /\ c \in 1 .. n
      /\ c \in L /\ (account.intact => i \in L)
      /\ \A j \in L : type[j] # 3
  BY <1>1, CentralIs DEF Shape, Live
<1>3. Shares(G[i], G[c], i = c, p, x, z)
  BY <1>1
<1>4. /\ p.galaxy \in Galaxy /\ p.galaxy.clock = G[i].clock
      /\ i # c => p.central \in Galaxy /\ p.central.clock = G[c].clock
  BY <1>3 DEF Shares
<1>5. Committed(n, G, H, i, c, p)
  <2>1. H = IF i = c THEN [G EXCEPT ![i] = p.galaxy]
                     ELSE [G EXCEPT ![i] = p.galaxy, ![c] = p.central]
    BY <1>1 DEF Commit
  <2>2. H \in [1 .. n -> Galaxy]
    BY <1>2, <1>4, <2>1
  <2>3. \A j \in 1 .. n : H[j] = CASE j = i -> p.galaxy
                                    [] j = c /\ j # i -> p.central
                                    [] OTHER -> G[j]
    BY <1>2, <2>1
  <2> QED
    BY <1>2, <2>2, <2>3 DEF Committed
<1>6. \A j \in 1 .. n : H[j].clock = G[j].clock
  BY <1>4, <1>5 DEF Committed
<1>7. ASSUME account.intact
      PROVE  /\ Balance(G, H, L, x, z)
             /\ \A j \in 1 .. n : type[j] = 3 => H[j] = G[j]
  <2>1. i \in L /\ c \in L
    BY <1>2, <1>7
  <2>2. Balance(G, H, L, x, z)
    BY <1>2, <1>3, <1>5, <2>1, CommitBalances
  <2>3. \A j \in 1 .. n : type[j] = 3 => H[j] = G[j]
    BY <1>2, <1>5, <2>1 DEF Committed
  <2> QED
    BY <2>2, <2>3
<1> QED
  BY <1>1, <1>5, <1>6, <1>7 DEF Wrote, SameClocks, Committed, Balance

\* A process that writes the record of one live member.
LEMMA OneWrites ==
    ASSUME Shape, NEW i \in 1 .. Len(gal), account.intact => type[i] # 3,
           NEW h, NEW x \in Int, NEW z \in Int,
           Gains(gal[i], h, x, z), gal' = [gal EXCEPT ![i] = h]
    PROVE  Wrote(x, z) /\ SameClocks
<1>1. PICK n, G, L, H : n = Len(gal) /\ G = gal /\ L = Live /\ H = gal'
  OBVIOUS
<1>2. /\ n \in Nat /\ L \in SUBSET (1 .. n) /\ G \in [1 .. n -> Galaxy] /\ i \in 1 .. n
      /\ account.intact => i \in L
      /\ \A j \in L : type[j] # 3
  BY <1>1, CentralIs DEF Shape, Live
<1>3. /\ H = [G EXCEPT ![i] = h] /\ h \in Galaxy /\ h.clock = G[i].clock
      /\ BaryonsOf(h) = BaryonsOf(G[i]) + x /\ MetalsOf(h) = MetalsOf(G[i]) + z
  BY <1>1 DEF Gains
<1>4. /\ H \in [1 .. n -> Galaxy] /\ H[i] = h /\ \A j \in (1 .. n) \ {i} : H[j] = G[j]
  BY <1>2, <1>3
<1>5. \A j \in 1 .. n : H[j].clock = G[j].clock
  BY <1>3, <1>4
<1>6. ASSUME account.intact
      PROVE  /\ Balance(G, H, L, x, z)
             /\ \A j \in 1 .. n : type[j] = 3 => H[j] = G[j]
  <2>1. i \in L /\ \A j \in L \ {i} : H[j] = G[j]
    BY <1>2, <1>4, <1>6
  <2>2. Balance(G, H, L, BaryonsOf(H[i]) - BaryonsOf(G[i]), MetalsOf(H[i]) - MetalsOf(G[i]))
    BY <1>2, <1>4, <2>1, OneChanges
  <2>3. BaryonsOf(H[i]) - BaryonsOf(G[i]) = x /\ MetalsOf(H[i]) - MetalsOf(G[i]) = z
    <3>1. BaryonsOf(G[i]) \in Int /\ MetalsOf(G[i]) \in Int
      BY <1>2, GalaxyFields
    <3> QED
      BY <1>3, <1>4, <3>1
  <2>4. \A j \in 1 .. n : type[j] = 3 => H[j] = G[j]
    BY <1>2, <1>4, <2>1
  <2> QED
    BY <2>2, <2>3, <2>4
<1> QED
  BY <1>1, <1>4, <1>5, <1>6 DEF Wrote, SameClocks, Balance

\* The carry of the scans after an action that runs no clock.
LEMMA ClocksStay ==
    ASSUME Shape, ClocksRun, SameClocks, Len(gal') = Len(gal),
           UNCHANGED <<type, halo, prepared, step, success, halted>>, pc # "prepare",
           \A i \in 1 .. Len(gal) : type[i] # 3 => Ticks(i)' = Ticks(i)
    PROVE  ClocksRun'
BY DEF ClocksRun, SameClocks, Shape

\* A process that declares nothing.
LEMMA DeclaresNothing ==
    ASSUME account \in Account, account' = account
    PROVE  Declare(0, 0)
<1>1. PICK a : a = account
  OBVIOUS
<1>2. /\ a = [baryons |-> a.baryons, metals |-> a.metals, intact |-> a.intact]
      /\ a.baryons \in Int /\ a.metals \in Int
  BY <1>1 DEF Account
<1>3. a.baryons + 0 = a.baryons /\ a.metals + 0 = a.metals
  BY <1>2
<1>4. a = [a EXCEPT !.baryons = @ + 0, !.metals = @ + 0]
  BY <1>2, <1>3
<1> QED
  BY <1>1, <1>4 DEF Declare

\* apply_infall(): the supply, or the part of a deficit that was found.
LEMMA ApplyInfallKeeps ==
    ASSUME IInv, ApplyInfall
    PROVE  IInv' /\ DeadKept
<1>0. Shape /\ Counters /\ ClocksRun /\ LedgersBalance
  BY DEF IInv
<1>1. PICK c, after, found :
        /\ c = gal[Central]
        /\ after = IF supply >= 0 THEN Supplied(c, supply) ELSE Depleted(c, -supply)
        /\ found = Least(-supply, c.mass["ejected"] + c.mass["hot"])
  OBVIOUS
<1>2. /\ pc = "infall" /\ pc' = "reincorporate" /\ gal' = [gal EXCEPT ![Central] = after]
      /\ account' = [account EXCEPT !.baryons = @ + (IF supply >= 0 THEN supply ELSE -found),
                                    !.metals = @ + (MetalsOf(after) - MetalsOf(c))]
      /\ UNCHANGED <<k, step, type, halo, supply, prepared, event, halted, success>>
  BY <1>1 DEF ApplyInfall, Declare
<1>3. Central \in 1 .. Len(gal) /\ type[Central] # 3 /\ c \in Galaxy /\ supply \in Int
  BY <1>0, <1>1, CentralIs DEF Shape, Counters, Live
<1>4. PICK x, z : x = (IF supply >= 0 THEN supply ELSE -found) /\ z = MetalsOf(after) - MetalsOf(c)
  OBVIOUS
<1>5. x \in Int /\ z \in Int /\ Gains(c, after, x, z)
  <2>1. c.mass["ejected"] \in Nat /\ c.mass["hot"] \in Nat /\ MetalsOf(c) \in Int
    BY <1>3, GalaxyFields DEF Masses, Tracked
  <2>2. CASE supply >= 0
    <3>1. Gains(c, after, supply, 0)
      BY <1>1, <1>3, <2>2, SuppliedGains
    <3>2. MetalsOf(after) = MetalsOf(c) + 0
      BY <3>1 DEF Gains
    <3>3. x = supply /\ z = 0
      BY <1>4, <2>1, <2>2, <3>2
    <3> QED
      BY <1>3, <3>1, <3>3
  <2>3. CASE ~(supply >= 0)
    <3>1. -supply \in Nat /\ after = Depleted(c, -supply)
      BY <1>1, <1>3, <2>3
    <3>2. Gains(c, after, -found, z)
      BY <1>1, <1>3, <1>4, <3>1, DepletedGains
    <3>3. found \in Int
      BY <1>1, <1>3, <2>1 DEF Least
    <3>4. MetalsOf(after) \in Int
      BY <3>2, GalaxyFields DEF Gains
    <3> QED
      BY <1>4, <2>1, <2>3, <3>2, <3>3, <3>4
  <2> QED
    BY <2>2, <2>3
<1>6. Wrote(x, z) /\ SameClocks
  BY <1>0, <1>1, <1>2, <1>3, <1>5, OneWrites
<1>7. Worked(x, z)
  BY <1>0, <1>2, <1>4, <1>6 DEF Worked, Shape, Declare
<1>8. /\ Shape' /\ Len(gal') = Len(gal) /\ account' \in Account /\ LedgersBalance' /\ DeadKept
  BY <1>0, <1>5, <1>7, WorkedKeeps DEF Counters
<1>9. Counters' /\ Turn'
  BY <1>0, <1>2, <1>8 DEF Counters, Turn, Consuming
<1>10. ClocksRun'
  <2>1. \A i \in 1 .. Len(gal) : Ticks(i)' = Ticks(i)
    BY <1>2 DEF Ticks, Consuming
  <2> QED
    BY <1>0, <1>2, <1>6, <1>8, <2>1, ClocksStay
<1> QED
  BY <1>8, <1>9, <1>10 DEF IInv

\* A process of the pipeline, or of an event that is consumed, keeps the
\* invariant if it keeps the group, the turns and the counts of the clocks.
LEMMA ProcessKeeps ==
    ASSUME IInv, NEW x \in Int, NEW z \in Int, Wrote(x, z), SameClocks,
           Declare(x, z),
           UNCHANGED <<step, type, halo, supply, prepared, event, halted, success>>,
           pc \notin {"prepare", "done"}, k' \in 1 .. Len(gal),
           pc' \in {"reincorporate", "strip", "stars", "burst", "enrich", "resolve"} \cup Consuming,
           pc' \in {"stars", "burst", "enrich"} => type[k'] # 3,
           pc' \in Consuming => pc \in Consuming /\ k' = k,
           \A i \in 1 .. Len(gal) : type[i] # 3 => Ticks(i)' = Ticks(i)
    PROVE  IInv' /\ DeadKept
<1>0. Shape /\ Counters /\ Turn /\ ClocksRun /\ LedgersBalance
  BY DEF IInv
<1>1. Worked(x, z)
  BY <1>0 DEF Worked, Shape
<1>2. /\ Shape' /\ Len(gal') = Len(gal) /\ account' \in Account
      /\ account'.intact = account.intact /\ LedgersBalance' /\ DeadKept
  BY <1>0, <1>1, WorkedKeeps DEF Counters
<1>3. Counters'
  BY <1>0, <1>2 DEF Counters, Consuming
<1>4. Turn'
  BY <1>0, <1>2 DEF Turn, Consuming
<1>5. ClocksRun'
  BY <1>0, <1>2, ClocksStay
<1> QED
  BY <1>2, <1>3, <1>4, <1>5 DEF IInv

\* The same of the pair that a process returns for member i and the central.
LEMMA PairKeeps ==
    ASSUME IInv, NEW i \in 1 .. Len(gal), account.intact => type[i] # 3, NEW p, NEW x \in Int, NEW z \in Int,
           Shares(gal[i], gal[Central], i = Central, p, x, z), gal' = Commit(i, p),
           Declare(x, z),
           UNCHANGED <<step, type, halo, supply, prepared, event, halted, success>>,
           pc \notin {"prepare", "done"}, k' \in 1 .. Len(gal),
           pc' \in {"reincorporate", "strip", "stars", "burst", "enrich", "resolve"} \cup Consuming,
           pc' \in {"stars", "burst", "enrich"} => type[k'] # 3,
           pc' \in Consuming => pc \in Consuming /\ k' = k,
           \A j \in 1 .. Len(gal) : type[j] # 3 => Ticks(j)' = Ticks(j)
    PROVE  IInv' /\ DeadKept
<1>1. Wrote(x, z) /\ SameClocks
  BY CommitWrites DEF IInv
<1> QED
  BY <1>1, ProcessKeeps

\* apply_reincorporation(): ejected gas becomes hot gas of the central.
LEMMA ReincorporateKeeps ==
    ASSUME IInv, Reincorporate
    PROVE  IInv' /\ DeadKept
<1>0. Shape /\ Counters
  BY DEF IInv
<1>1. PICK x \in UpTo(Central, gal[Central].mass["ejected"]) :
         gal' = [gal EXCEPT ![Central] = Moved(gal[Central], "ejected", "hot", x)]
  BY DEF Reincorporate
<1>2. Central \in 1 .. Len(gal) /\ type[Central] # 3 /\ gal[Central] \in Galaxy
  BY <1>0, CentralIs DEF Shape, Live
<1>3. x \in 0 .. gal[Central].mass["ejected"]
  BY <1>2, GalaxyFields, SMTT(30) DEF UpTo, Masses, Tracked
<1>4. Gains(gal[Central], Moved(gal[Central], "ejected", "hot", x), 0, 0)
  BY <1>2, <1>3, MovedGains DEF Tracked
<1>5. Wrote(0, 0) /\ SameClocks
  <2>1. PICK h, o : h = Moved(gal[Central], "ejected", "hot", x) /\ o = 0
    OBVIOUS
  <2>2. gal' = [gal EXCEPT ![Central] = h] /\ Gains(gal[Central], h, o, o) /\ o \in Int
    BY <1>1, <1>4, <2>1
  <2>3. Wrote(o, o) /\ SameClocks
    BY <1>0, <1>2, <2>2, OneWrites
  <2> QED
    BY <2>1, <2>3
<1>6. Declare(0, 0)
  BY <1>0, DeclaresNothing DEF Reincorporate, Counters
<1>7. /\ pc = "reincorporate" /\ pc' = "strip" /\ k' = 1 /\ 1 \in 1 .. Len(gal)
      /\ UNCHANGED <<step, type, halo, supply, prepared, event, halted, success>>
  BY <1>0 DEF Reincorporate, Counters, Shape
<1>8. \A i \in 1 .. Len(gal) : Ticks(i)' = Ticks(i)
  BY <1>7 DEF Ticks, Consuming
<1> QED
  <2>1. PICK o : o = 0
    OBVIOUS
  <2>2. /\ o \in Int /\ Wrote(o, o) /\ SameClocks
        /\ Declare(o, o)
    BY <1>5, <1>6, <2>1
  <2> QED
    BY <1>7, <1>8, <2>2, ProcessKeeps DEF Consuming

\* The scan of the members goes on, and turns to the merger sources at its end.
LEMMA NextMemberCounts ==
    ASSUME Shape, Counters, NextMember, pc \in {"strip", "enrich"}, step' = step
    PROVE  /\ k' \in 1 .. Len(gal) /\ pc' \in {"strip", "resolve"}
           /\ \A i \in 1 .. Len(gal) : Ticks(i)' = Ticks(i)
<1>1. k' \in 1 .. Len(gal) /\ pc' \in {"strip", "resolve"} /\ (pc' = "resolve" => k' = 1)
  BY DEF Shape, Counters, NextMember
<1>2. \A i \in 1 .. Len(gal) : ~(pc' = "resolve" /\ i < k')
  BY <1>1
<1> QED
  BY <1>1, <1>2 DEF Ticks, Consuming

\* scan_galaxy() passes over a consumed record or a padded slot.
LEMMA SkipMemberKeeps ==
    ASSUME IInv, SkipMember
    PROVE  IInv' /\ DeadKept
<1>0. Shape /\ Counters /\ Turn /\ ClocksRun /\ LedgersBalance
  BY DEF IInv
<1>1. /\ k' \in 1 .. Len(gal) /\ pc' \in {"strip", "resolve"}
      /\ \A i \in 1 .. Len(gal) : Ticks(i)' = Ticks(i)
  BY <1>0, NextMemberCounts DEF SkipMember
<1>2. UNCHANGED <<step, gal, type, halo, supply, prepared, event, halted, success, account>> /\ pc = "strip"
  BY DEF SkipMember
<1>3. Shape' /\ LedgersBalance' /\ DeadKept
  BY <1>0, <1>2 DEF Shape, LedgersBalance, BaryonsBalance, MetalsBalance, LiveBaryons, LiveMetals,
                    Live, Members, DeadKept
<1>4. Counters' /\ Turn'
  BY <1>0, <1>1, <1>2 DEF Counters, Turn, Consuming
<1>5. ClocksRun'
  BY <1>0, <1>1, <1>2, ClocksStay DEF SameClocks
<1> QED
  BY <1>3, <1>4, <1>5 DEF IInv

\* apply_satellite_stripping(): from a satellite to the central.
LEMMA StripKeeps ==
    ASSUME IInv, Strip
    PROVE  IInv' /\ DeadKept
<1>0. Shape /\ Counters
  BY DEF IInv
<1>1. PICK x \in IF type[k] = 1 /\ gal[k].mass["hot"] > 0 THEN 0 .. gal[k].mass["hot"] + 1 ELSE {0} :
         gal' = Commit(k, Stripped(gal[k], gal[Central], x))
  BY DEF Strip
<1>2. /\ k \in 1 .. Len(gal) /\ type[k] # 3 /\ gal[k] \in Galaxy /\ gal[Central] \in Galaxy
      /\ type[k] = 0 <=> k = Central
  BY <1>0, CentralIs DEF Shape, Counters, Strip, Active
<1>3. x \in Nat /\ (k = Central => x = 0)
  <2>1. gal[k].mass["hot"] \in Nat
    BY <1>2, GalaxyFields DEF Tracked
  <2>2. x \in Nat
    BY <1>1, <2>1
  <2> QED
    BY <1>1, <1>2, <2>2
<1>4. Shares(gal[k], gal[Central], k = Central, Stripped(gal[k], gal[Central], x), 0, 0)
  <2>1. PICK isCentral \in BOOLEAN : isCentral = (k = Central)
    OBVIOUS
  <2>2. Shares(gal[k], gal[Central], isCentral, Stripped(gal[k], gal[Central], x), 0, 0)
    BY <1>2, <1>3, <2>1, StrippedShares
  <2> QED
    BY <2>1, <2>2
<1>5. Declare(0, 0)
  BY <1>0, DeclaresNothing DEF Strip, Counters
<1>6. /\ pc = "strip" /\ pc' = "stars" /\ k' = k
      /\ UNCHANGED <<step, type, halo, supply, prepared, event, halted, success>>
  BY DEF Strip
<1>7. \A i \in 1 .. Len(gal) : Ticks(i)' = Ticks(i)
  BY <1>6 DEF Ticks, Consuming
<1> QED
  <2>1. PICK o, p : o = 0 /\ p = Stripped(gal[k], gal[Central], x)
    OBVIOUS
  <2>2. /\ o \in Int /\ Shares(gal[k], gal[Central], k = Central, p, o, o) /\ gal' = Commit(k, p)
        /\ Declare(o, o)
    BY <1>1, <1>4, <1>5, <2>1
  <2> QED
    BY <1>2, <1>6, <1>7, <2>2, PairKeeps DEF Consuming

\* Cooling, star formation and supernovae of one member.
LEMMA CoolAndFormStarsKeeps ==
    ASSUME IInv, CoolAndFormStars
    PROVE  IInv' /\ DeadKept
<1>0. Shape /\ Counters /\ Turn
  BY DEF IInv
<1>1. PICK b \in CoolingBudgets(k) :
         LET fed    == Accreted(gal[k], "hot", b[2])
             cooled == IF b[1] > 0 THEN Cooled(fed, b[1]) ELSE fed
         IN  /\ \E r \in StarRecipes(k, cooled.mass["cold"]) :
                   gal' = Commit(k, StarsFormed(cooled, gal[Central], k = Central, r))
             /\ Declare(0, -Carried(gal[k], "hot", b[2]))
  BY DEF CoolAndFormStars
<1>2. PICK g, c, fed, cooled :
         /\ g = gal[k] /\ c = gal[Central]
         /\ fed = Accreted(g, "hot", b[2])
         /\ cooled = IF b[1] > 0 THEN Cooled(fed, b[1]) ELSE fed
  OBVIOUS
<1>3. PICK r \in StarRecipes(k, cooled.mass["cold"]) :
         gal' = Commit(k, StarsFormed(cooled, c, k = Central, r))
  BY <1>1, <1>2
<1>4. PICK p, z, o, isCentral :
         /\ isCentral = (k = Central) /\ isCentral \in BOOLEAN
         /\ p = StarsFormed(cooled, c, isCentral, r)
         /\ z = -Carried(g, "hot", b[2]) /\ o = 0
  OBVIOUS
<1>5. /\ k \in 1 .. Len(gal) /\ type[k] # 3 /\ g \in Galaxy /\ c \in Galaxy
      /\ pc = "stars" /\ pc' = "burst" /\ k' = k
      /\ UNCHANGED <<step, type, halo, supply, prepared, event, halted, success>>
  BY <1>0, <1>2, CentralIs DEF Shape, Counters, Turn, CoolAndFormStars
<1>6. b[1] \in Nat /\ b[2] \in 0 .. g.mass["hot"]
  <2>1. g.mass["hot"] \in Nat
    BY <1>5, GalaxyFields DEF Tracked
  <2>2. b \in UpTo(k, g.mass["hot"]) \X (0 .. g.mass["hot"])
    BY <1>2 DEF CoolingBudgets
  <2>3. b[1] \in UpTo(k, g.mass["hot"]) /\ b[2] \in 0 .. g.mass["hot"]
    BY <2>2
  <2> QED
    BY <2>1, <2>3 DEF UpTo
<1>7. Gains(g, fed, o, z) /\ z \in Int
  <2>1. Gains(g, fed, 0, -Carried(g, "hot", b[2])) /\ Carried(g, "hot", b[2]) \in Nat
    BY <1>2, <1>5, <1>6, AccretedGains DEF Tracked
  <2> QED
    BY <1>4, <2>1
<1>8. Gains(fed, cooled, o, o)
  <2>1. fed \in Galaxy
    BY <1>7 DEF Gains
  <2>2. CASE b[1] > 0
    <3>1. Gains(fed, Cooled(fed, b[1]), 0, 0)
      BY <1>6, <2>1, CooledGains
    <3> QED
      BY <1>2, <1>4, <2>2, <3>1
  <2>3. CASE ~(b[1] > 0)
    <3>1. BaryonsOf(fed) \in Int /\ MetalsOf(fed) \in Int
      BY <2>1, GalaxyFields
    <3> QED
      BY <1>2, <1>4, <2>1, <2>3, <3>1 DEF Gains
  <2> QED
    BY <2>2, <2>3
<1>9. Gains(g, cooled, o, z)
  <2>1. Gains(g, cooled, o + o, z + o)
    BY <1>4, <1>5, <1>7, <1>8, GainsAfter
  <2>2. o + o = o /\ z + o = z
    BY <1>4, <1>7
  <2> QED
    BY <2>1, <2>2
<1>10. Shares(cooled, c, isCentral, p, o, o)
  <2>1. cooled \in Galaxy
    BY <1>8 DEF Gains
  <2>2. r \in Recipes(cooled.mass["cold"], 1)
    BY DEF StarRecipes
  <2>3. Shares(cooled, c, isCentral, p, 0, 0)
    BY <1>4, <1>5, <2>1, <2>2, StarsShare
  <2> QED
    BY <1>4, <2>3
<1>11. Shares(g, c, isCentral, p, o, z)
  <2>1. Shares(g, c, isCentral, p, o + o, z + o)
    <3>1. o \in Int /\ z \in Int /\ isCentral \in BOOLEAN
      BY <1>4, <1>7
    <3> QED
      BY <1>5, <1>9, <1>10, <3>1, SharesAfter
  <2>2. o + o = o /\ z + o = z
    BY <1>4, <1>7
  <2> QED
    BY <2>1, <2>2
<1>12. /\ Shares(gal[k], gal[Central], k = Central, p, o, z) /\ gal' = Commit(k, p)
       /\ o \in Int /\ Declare(o, z)
  BY <1>1, <1>2, <1>3, <1>4, <1>11
<1>13. \A i \in 1 .. Len(gal) : Ticks(i)' = Ticks(i)
  BY <1>5 DEF Ticks, Consuming
<1> QED
  BY <1>5, <1>7, <1>12, <1>13, PairKeeps DEF Consuming

\* apply_metal_enrichment() ends the turn of a member.
LEMMA EnrichKeeps ==
    ASSUME IInv, Enrich
    PROVE  IInv' /\ DeadKept
<1>0. Shape /\ Counters /\ Turn
  BY DEF IInv
<1>1. PICK part \in 0 .. Yield * gal[k].newStars :
         gal' = Commit(k, DiskEnriched(gal[k], gal[Central], type[k] = 0, part))
  BY DEF Enrich
<1>2. PICK g, c, p, z, o, isCentral :
         /\ g = gal[k] /\ c = gal[Central]
         /\ isCentral = (k = Central) /\ isCentral \in BOOLEAN
         /\ p = DiskEnriched(g, c, isCentral, part)
         /\ z = Yield * g.newStars /\ o = 0
  OBVIOUS
<1>3. /\ k \in 1 .. Len(gal) /\ type[k] # 3 /\ g \in Galaxy /\ c \in Galaxy
      /\ type[k] = 0 <=> k = Central
      /\ pc = "enrich"
      /\ UNCHANGED <<step, type, halo, supply, prepared, event, halted, success>>
      /\ Declare(o, z)
  BY <1>0, <1>2, CentralIs DEF Shape, Counters, Turn, Enrich
<1>4. Shares(g, c, isCentral, p, o, z) /\ z \in Int
  <2>1. isCentral \in BOOLEAN /\ g \in Galaxy /\ c \in Galaxy /\ part \in 0 .. Yield * g.newStars
    BY <1>2, <1>3
  <2>2. /\ Shares(g, c, isCentral, DiskEnriched(g, c, isCentral, part), 0, Yield * g.newStars)
        /\ Yield * g.newStars \in Nat
    BY <2>1, DiskEnrichedShares
  <2> QED
    BY <1>2, <2>2
<1>5. Shares(gal[k], gal[Central], k = Central, p, o, z) /\ o \in Int
  BY <1>2, <1>4
<1>6. gal' = Commit(k, p)
  <2>1. (type[k] = 0) = (k = Central)
    BY <1>3
  <2> QED
    BY <1>1, <1>2, <2>1
<1>7. /\ k' \in 1 .. Len(gal) /\ pc' \in {"strip", "resolve"}
      /\ \A i \in 1 .. Len(gal) : Ticks(i)' = Ticks(i)
  BY <1>0, <1>3, NextMemberCounts DEF Enrich
<1> QED
  BY <1>3, <1>4, <1>5, <1>6, <1>7, PairKeeps DEF Consuming

\* A quasar and a burst, of whatever the disk's instability made of the galaxy.
LEMMA QuasarAndBurstShare ==
    ASSUME Shape, NEW i \in 1 .. Len(gal), NEW g, Gains(gal[i], g, 0, 0),
           NEW triggered \in BOOLEAN, NEW timed \in BOOLEAN, NEW major \in BOOLEAN,
           QuasarAndBurst(i, g, triggered, timed, major)
    PROVE  \E x \in Int, z \in Int : \E p :
              /\ Shares(gal[i], gal[Central], i = Central, p, x, z) /\ gal' = Commit(i, p)
              /\ Declare(x, z)
<1>1. PICK q \in Quasars(g, triggered) :
         LET lit == Quasar(g, q[1], q[2])
             c   == gal[Central]
         IN  \E b \in Bursts(lit, triggered /\ timed, major) :
                /\ gal' = Commit(i, IF timed THEN Burst(lit, c, i = Central, b[1], b[2])
                                              ELSE [galaxy |-> lit, central |-> c])
                /\ Declare(0, Yield * b[1].formed - Carried(g, "cold", q[1]))
  BY DEF QuasarAndBurst
<1>2. PICK c, lit, isCentral :
         /\ c = gal[Central] /\ lit = Quasar(g, q[1], q[2])
         /\ isCentral = (i = Central) /\ isCentral \in BOOLEAN
  OBVIOUS
<1>3. PICK b \in Bursts(lit, triggered /\ timed, major) :
         /\ gal' = Commit(i, IF timed THEN Burst(lit, c, isCentral, b[1], b[2])
                                       ELSE [galaxy |-> lit, central |-> c])
         /\ Declare(0, Yield * b[1].formed - Carried(g, "cold", q[1]))
  BY <1>1, <1>2
<1>4. PICK p, o, y, z :
         /\ p = (IF timed THEN Burst(lit, c, isCentral, b[1], b[2])
                          ELSE [galaxy |-> lit, central |-> c])
         /\ o = 0 /\ y = Yield * b[1].formed /\ z = -Carried(g, "cold", q[1])
  OBVIOUS
<1>5. gal[i] \in Galaxy /\ c \in Galaxy /\ g \in Galaxy
  BY <1>2, CentralIs DEF Shape, Gains
<1>6. q[1] \in 0 .. g.mass["cold"] /\ q[2] \in Winds
  <2>1. g.mass["cold"] \in Nat
    BY <1>5, GalaxyFields DEF Tracked
  <2> QED
    BY <2>1 DEF Quasars, Winds
<1>7. Gains(gal[i], lit, o, z) /\ z \in Int /\ o \in Int
  <2>1. Gains(g, lit, 0, -Carried(g, "cold", q[1]))
    BY <1>2, <1>5, <1>6, QuasarGains
  <2>2. Carried(g, "cold", q[1]) \in Nat
    BY <1>5, <1>6, AccretedGains DEF Tracked
  <2>3. z \in Int /\ o \in Int /\ Gains(g, lit, o, z) /\ Gains(gal[i], g, o, o)
    BY <1>4, <2>1, <2>2
  <2>4. Gains(gal[i], lit, o + o, o + z)
    BY <1>5, <2>3, GainsAfter
  <2>5. o + o = o /\ o + z = z
    BY <1>4, <2>3
  <2> QED
    BY <2>3, <2>4, <2>5
<1>8. lit \in Galaxy
  BY <1>7 DEF Gains
<1>9. /\ b[1] \in Recipes(lit.mass["cold"], 1) /\ b[2] \in Nat
      /\ b[2] <= Yield * b[1].formed /\ (~timed => b[1].formed = 0)
  <2>1. lit.mass["cold"] \in Nat
    BY <1>8, GalaxyFields DEF Tracked
  <2>2. /\ b \in Recipes(lit.mass["cold"], 1) \X (0 .. Yield * lit.mass["cold"])
        /\ b[2] <= Yield * b[1].formed /\ (~(triggered /\ timed) => b[1].formed = 0)
    BY <1>3 DEF Bursts
  <2>3. b[1] \in Recipes(lit.mass["cold"], 1) /\ b[2] \in Nat
    BY <2>1, <2>2
  <2> QED
    BY <2>2, <2>3
<1>10. b[1].formed \in Nat /\ y \in Nat /\ b[2] \in 0 .. y
  <2>1. b[1].formed \in Nat
    BY <1>9 DEF Recipes
  <2>2. y \in Nat
    BY <1>4, <2>1, YieldAssumption
  <2> QED
    BY <1>4, <1>9, <2>1, <2>2
<1>11. Shares(lit, c, isCentral, p, o, y)
  <2>1. CASE timed
    <3>1. Shares(lit, c, isCentral, Burst(lit, c, isCentral, b[1], b[2]), 0, Yield * b[1].formed)
      BY <1>2, <1>4, <1>5, <1>8, <1>9, <1>10, BurstShares
    <3> QED
      BY <1>4, <2>1, <3>1
  <2>2. CASE ~timed
    <3>1. y = 0
      BY <1>4, <1>9, <2>2, YieldAssumption
    <3>2. /\ BaryonsOf(lit) \in Int /\ MetalsOf(lit) \in Int
          /\ BaryonsOf(c) \in Int /\ MetalsOf(c) \in Int
      BY <1>5, <1>8, GalaxyFields
    <3>3. p.galaxy = lit /\ p.central = c
      BY <1>4, <2>2
    <3>4. Gains(lit, p.galaxy, o, y)
      BY <1>4, <1>8, <3>1, <3>2, <3>3 DEF Gains
    <3> QED
      BY <1>4, <1>5, <1>8, <3>1, <3>2, <3>3, <3>4 DEF Shares
  <2> QED
    BY <2>1, <2>2
<1>12. Shares(gal[i], c, isCentral, p, o, z + y)
  <2>1. Shares(gal[i], c, isCentral, p, o + o, z + y)
    <3>1. o \in Int /\ z \in Int /\ y \in Int /\ isCentral \in BOOLEAN
      BY <1>2, <1>7, <1>10
    <3> QED
      BY <1>5, <1>7, <1>11, <3>1, SharesAfter
  <2>2. o + o = o
    BY <1>4
  <2> QED
    BY <2>1, <2>2
<1>13. Declare(o, z + y)
  <2>1. y - Carried(g, "cold", q[1]) = z + y
    <3>1. Carried(g, "cold", q[1]) \in Nat
      BY <1>5, <1>6, AccretedGains DEF Tracked
    <3> QED
      BY <1>4, <1>10, <3>1
  <2> QED
    BY <1>3, <1>4, <2>1
<1>14. gal' = Commit(i, p)
  BY <1>3, <1>4
<1>15. PICK w : w = z + y
  OBVIOUS
<1>16. /\ o \in Int /\ w \in Int
       /\ Shares(gal[i], gal[Central], i = Central, p, o, w)
       /\ Declare(o, w)
  BY <1>2, <1>7, <1>10, <1>12, <1>13, <1>15
<1> QED
  BY <1>14, <1>16

\* The instability of a disk, and the quasar and burst it triggers.
LEMMA DestabiliseAndBurstKeeps ==
    ASSUME IInv, DestabiliseAndBurst
    PROVE  IInv' /\ DeadKept
<1>0. Shape /\ Counters /\ Turn
  BY DEF IInv
<1>1. PICK u \in Instabilities(gal[k]), major \in BOOLEAN :
         LET g == Destabilised(gal[k], u[1], u[2])
         IN  QuasarAndBurst(k, g, g.trigger, Elapses(k), major)
  BY DEF DestabiliseAndBurst
<1>2. /\ k \in 1 .. Len(gal) /\ type[k] # 3 /\ gal[k] \in Galaxy
      /\ pc = "burst" /\ pc' = "enrich" /\ k' = k
      /\ UNCHANGED <<step, type, halo, supply, prepared, event, halted, success>>
  BY <1>0 DEF Shape, Counters, Turn, DestabiliseAndBurst
<1>3. PICK g, triggered, timed :
         /\ g = Destabilised(gal[k], u[1], u[2]) /\ triggered = g.trigger /\ timed = Elapses(k)
  OBVIOUS
<1>4. Gains(gal[k], g, 0, 0) /\ triggered \in BOOLEAN /\ timed \in BOOLEAN
  <2>1. Gains(gal[k], g, 0, 0)
    BY <1>2, <1>3, DestabilisedGains
  <2>2. triggered \in BOOLEAN
    BY <1>3, <2>1, GalaxyFields DEF Gains
  <2> QED
    BY <1>3, <2>1, <2>2 DEF Elapses
<1>5. QuasarAndBurst(k, g, triggered, timed, major)
  BY <1>1, <1>3
<1>8. PICK x \in Int, z \in Int : \E p :
         /\ Shares(gal[k], gal[Central], k = Central, p, x, z) /\ gal' = Commit(k, p)
         /\ Declare(x, z)
  BY <1>0, <1>2, <1>4, <1>5, QuasarAndBurstShare
<1>6. PICK p :
         /\ Shares(gal[k], gal[Central], k = Central, p, x, z) /\ gal' = Commit(k, p)
         /\ Declare(x, z)
  BY <1>8
<1>7. \A i \in 1 .. Len(gal) : Ticks(i)' = Ticks(i)
  BY <1>2 DEF Ticks, Consuming
<1> QED
  BY <1>2, <1>6, <1>7, PairKeeps DEF Consuming

\* What a merger triggers, or the disk that it disturbed, works on its target.
LEMMA TargetKeeps ==
    ASSUME IInv, NEW g, Gains(gal[event.target], g, 0, 0),
           NEW triggered \in BOOLEAN, NEW major \in BOOLEAN,
           QuasarAndBurst(event.target, g, triggered, TRUE, major),
           pc \in Consuming, pc' \in Consuming,
           UNCHANGED <<k, step, type, halo, supply, prepared, event, halted, success>>
    PROVE  IInv' /\ DeadKept
<1>0. Shape /\ Counters /\ Turn
  BY DEF IInv
<1>1. PICK t : t = event.target
  OBVIOUS
<1>2. t \in 1 .. Len(gal) /\ (account.intact => type[t] # 3) /\ k \in 1 .. Len(gal)
  BY <1>0, <1>1 DEF Counters, Turn
<1>3. Gains(gal[t], g, 0, 0) /\ QuasarAndBurst(t, g, triggered, TRUE, major)
  BY <1>1
<1>9. PICK x \in Int, z \in Int : \E p :
         /\ Shares(gal[t], gal[Central], t = Central, p, x, z) /\ gal' = Commit(t, p)
         /\ Declare(x, z)
  BY <1>0, <1>2, <1>3, QuasarAndBurstShare
<1>4. PICK p :
         /\ Shares(gal[t], gal[Central], t = Central, p, x, z) /\ gal' = Commit(t, p)
         /\ Declare(x, z)
  BY <1>9
<1>5. \A i \in 1 .. Len(gal) : Ticks(i)' = Ticks(i)
  BY DEF Ticks
<1> QED
  BY <1>2, <1>4, <1>5, PairKeeps DEF Consuming

\* The quasar and the burst of a merger.
LEMMA ConsumeMergerKeeps ==
    ASSUME IInv, ConsumeMerger
    PROVE  IInv' /\ DeadKept
<1>0. Shape /\ Turn /\ pc = "merger" /\ pc' \in {"followup", "settle"}
  BY DEF IInv, ConsumeMerger
<1>1. PICK g, hits, major :
         /\ g = gal[event.target] /\ hits = (event.ratio # "zero") /\ hits \in BOOLEAN
         /\ major = (event.ratio # "minor") /\ major \in BOOLEAN
  OBVIOUS
<1>2. QuasarAndBurst(event.target, g, hits, TRUE, major)
  BY <1>1 DEF ConsumeMerger
<1>3. Gains(gal[event.target], g, 0, 0)
  <2>1. g \in Galaxy
    BY <1>0, <1>1 DEF Shape, Turn, Consuming
  <2>2. BaryonsOf(g) \in Int /\ MetalsOf(g) \in Int
    BY <2>1, GalaxyFields
  <2> QED
    BY <1>1, <2>1, <2>2 DEF Gains
<1>4. UNCHANGED <<k, step, type, halo, supply, prepared, event, halted, success>>
  BY DEF ConsumeMerger
<1> QED
  BY <1>0, <1>1, <1>2, <1>3, <1>4, TargetKeeps DEF Consuming

\* The disk of a minor merger's target is looked at again.
LEMMA FollowUpKeeps ==
    ASSUME IInv, FollowUp
    PROVE  IInv' /\ DeadKept
<1>0. Shape /\ Turn /\ pc = "followup" /\ pc' = "settle"
  BY DEF IInv, FollowUp
<1>1. PICK u \in Instabilities(gal[event.target]), major \in BOOLEAN :
         LET g == Destabilised(gal[event.target], u[1], u[2])
         IN  QuasarAndBurst(event.target, g, g.trigger, TRUE, major)
  BY DEF FollowUp
<1>2. PICK g, triggered :
         g = Destabilised(gal[event.target], u[1], u[2]) /\ triggered = g.trigger
  OBVIOUS
<1>3. Gains(gal[event.target], g, 0, 0) /\ triggered \in BOOLEAN
  <2>1. gal[event.target] \in Galaxy
    BY <1>0 DEF Shape, Turn, Consuming
  <2>2. Gains(gal[event.target], g, 0, 0)
    BY <1>2, <2>1, DestabilisedGains
  <2> QED
    BY <1>2, <2>2, GalaxyFields DEF Gains
<1>4. QuasarAndBurst(event.target, g, triggered, TRUE, major)
  BY <1>1, <1>2
<1>5. UNCHANGED <<k, step, type, halo, supply, prepared, event, halted, success>>
  BY DEF FollowUp
<1> QED
  BY <1>0, <1>3, <1>4, <1>5, TargetKeeps DEF Consuming

-----------------------------------------------------------------------------
(* The scan of the merger sources. *)

\* The source at k is done with: the counters go on, no member's turn is left
\* open, and the clocks are as the scan says, if those of the other sources are
\* as they were, and that of this one has run or the scan is halted.
LEMMA SourceEnds ==
    ASSUME Shape, Counters, ClocksRun, NEW h \in BOOLEAN, EndSource(h), halted => h,
           pc \in {"resolve"} \cup Consuming, Len(gal') = Len(gal), account' \in Account,
           UNCHANGED <<halo, supply, prepared>>,
           \A i \in 1 .. Len(gal) : i # k /\ type[i] \notin {0, 3} =>
               type'[i] = type[i] /\ gal'[i].clock = gal[i].clock,
           \A i \in 1 .. Len(gal) : i # k /\ type[i] \in {0, 3} => type'[i] \in {0, 3},
           success /\ ~h /\ type'[k] \notin {0, 3} /\ halo[k].dt # "initial" =>
               /\ gal'[k].clock = prepared[k] - (step + 1)
               /\ step + 1 = NumSubsteps => type'[k] = 1
    PROVE  Counters' /\ Turn' /\ ClocksRun'
<1>1. /\ Len(gal) \in Nat /\ k \in 1 .. Len(gal) /\ step \in Nat /\ step < NumSubsteps
      /\ success \in BOOLEAN /\ halted \in BOOLEAN /\ NumSubsteps \in Nat
  BY SubstepsAssumption DEF Shape, Counters, Consuming
<1>2. /\ k < Len(gal) => /\ k' = k + 1 /\ pc' = "resolve" /\ halted' = h
                          /\ step' = step /\ success' = success
      /\ k = Len(gal) => /\ k' = 1 /\ step' = step + 1 /\ halted' = FALSE
                          /\ pc' = (IF step + 1 = NumSubsteps THEN "done" ELSE "infall")
                          /\ success' = (success /\ ~h)
      /\ k < Len(gal) \/ k = Len(gal)
  BY <1>1 DEF EndSource
<1>3. pc' \in {"resolve", "infall", "done"}
  BY <1>2
<1>4. Counters'
  <2>1. /\ k' \in 1 .. Len(gal') /\ step' \in 0 .. NumSubsteps
        /\ pc' # "done" => step' < NumSubsteps
        /\ pc' = "done" => step' = NumSubsteps /\ ~halted'
    <3>1. CASE k < Len(gal)
      <4>1. k' = k + 1 /\ step' = step /\ pc' = "resolve"
        BY <1>1, <1>2, <3>1
      <4> QED
        BY <1>1, <3>1, <4>1
    <3>2. CASE k = Len(gal)
      <4>1. /\ k' = 1 /\ step' = step + 1 /\ halted' = FALSE
            /\ pc' # "done" => step + 1 # NumSubsteps
            /\ pc' = "done" => step + 1 = NumSubsteps
        BY <1>1, <1>2, <3>2
      <4> QED
        BY <1>1, <3>2, <4>1
    <3> QED
      BY <1>1, <3>1, <3>2
  <2>2. halted' \in BOOLEAN /\ success' \in BOOLEAN /\ supply' \in Int
    BY <1>1, <1>2 DEF Counters
  <2> QED
    BY <1>3, <2>1, <2>2 DEF Counters
<1>5. Turn'
  BY <1>3 DEF Turn, Consuming
<1>6. ClocksRun'
  <2> SUFFICES ASSUME success', ~halted', NEW i \in 1 .. Len(gal),
                      type'[i] \notin {0, 3}, halo[i].dt # "initial"
               PROVE  /\ gal'[i].clock = prepared[i] - Ticks(i)'
                      /\ Ticks(i)' = NumSubsteps => type'[i] = 1
    BY DEF ClocksRun
  <2>1. success /\ ~h /\ ~halted
    <3>1. CASE k < Len(gal)
      <4>1. success' = success /\ halted' = h
        BY <1>2, <3>1
      <4>2. success /\ ~h
        BY <4>1
      <4> QED
        BY <4>2
    <3>2. CASE k = Len(gal)
      BY <1>2, <3>2, Zenon
    <3> QED
      BY <1>2, <3>1, <3>2
  <2>2. /\ Ticks(i)' = (IF i < k \/ i = k \/ k = Len(gal) THEN step + 1 ELSE step)
        /\ Ticks(i) = (IF i < k THEN step + 1 ELSE step)
    <3>1. Ticks(i) = (IF i < k THEN step + 1 ELSE step)
      BY DEF Ticks
    <3>2. CASE k < Len(gal)
      <4>0. k' = k + 1 /\ pc' = "resolve" /\ step' = step
        BY <1>1, <1>2, <3>2
      <4>1. Ticks(i)' = (IF i < k + 1 THEN step + 1 ELSE step)
        BY <4>0 DEF Ticks
      <4> QED
        BY <1>1, <3>1, <3>2, <4>1
    <3>3. CASE k = Len(gal)
      <4>0. step' = step + 1 /\ pc' \notin {"resolve"} \cup Consuming
        BY <1>1, <1>2, <3>3 DEF Consuming
      <4>1. Ticks(i)' = step + 1
        BY <4>0 DEF Ticks
      <4> QED
        BY <3>1, <3>3, <4>1
    <3> QED
      BY <1>1, <3>2, <3>3
  <2>3. CASE i = k
    BY <2>1, <2>2, <2>3
  <2>4. CASE i # k
    <3>1. type[i] \notin {0, 3} /\ type'[i] = type[i] /\ gal'[i].clock = gal[i].clock
      BY <2>4
    <3>2. gal[i].clock = prepared[i] - Ticks(i) /\ (Ticks(i) = NumSubsteps => type[i] = 1)
      BY <1>1, <2>1, <3>1 DEF ClocksRun, Consuming
    <3>3. Ticks(i)' = Ticks(i)
      BY <1>1, <2>2, <2>4
    <3> QED
      BY <3>1, <3>2, <3>3
  <2> QED
    BY <2>3, <2>4
<1> QED
  BY <1>4, <1>5, <1>6

\* Records that hold as much as they did.
LEMMA LedgersAgree ==
    ASSUME NEW n \in Nat, NEW L \in SUBSET (1 .. n), NEW G \in [1 .. n -> Galaxy], NEW H,
           \A i \in L : BaryonsOf(H[i]) = BaryonsOf(G[i]) /\ MetalsOf(H[i]) = MetalsOf(G[i])
    PROVE  Balance(G, H, L, 0, 0)
<1>1. BaryonsIn(H, L) = BaryonsIn(G, L) /\ MetalsIn(H, L) = MetalsIn(G, L)
  BY DEF BaryonsIn, MetalsIn
<1>2. BaryonsIn(G, L) \in Int /\ MetalsIn(G, L) \in Int
  BY LedgersAre
<1> QED
  BY <1>1, <1>2 DEF Balance

\* The source's clock has run, and nothing else has changed.
LEMMA TickWrites ==
    ASSUME Shape, k \in 1 .. Len(gal), type[k] # 3, gal' = Ticked
    PROVE  /\ Wrote(0, 0) /\ gal'[k].clock = gal[k].clock - 1
           /\ \A i \in 1 .. Len(gal) : i # k => gal'[i] = gal[i]
<1>1. PICK n, G, L, H, j : n = Len(gal) /\ G = gal /\ L = Live /\ H = gal' /\ j = k
  OBVIOUS
<1>2. /\ n \in Nat /\ L \in SUBSET (1 .. n) /\ G \in [1 .. n -> Galaxy] /\ j \in 1 .. n
      /\ H = [G EXCEPT ![j].clock = @ - 1] /\ type[j] # 3 /\ gal = G
  BY <1>1, CentralIs DEF Shape, Ticked
<1>3. PICK h : h = [G[j] EXCEPT !.clock = G[j].clock - 1]
  OBVIOUS
<1>4. /\ h \in Galaxy /\ h.clock = G[j].clock - 1
      /\ BaryonsOf(h) = BaryonsOf(G[j]) /\ MetalsOf(h) = MetalsOf(G[j])
  <2>1. G[j] \in Galaxy /\ G[j].clock - 1 \in Int
    BY <1>2, GalaxyFields
  <2> QED
    BY <1>3, <2>1, OtherFields
<1>5. H = [G EXCEPT ![j] = h]
  BY <1>2, <1>3
<1>6. /\ H \in [1 .. n -> Galaxy] /\ H[j] = h
      /\ \A i \in 1 .. n : i # j => H[i] = G[i]
  BY <1>2, <1>4, <1>5
<1>7. \A i \in L : BaryonsOf(H[i]) = BaryonsOf(G[i]) /\ MetalsOf(H[i]) = MetalsOf(G[i])
  BY <1>2, <1>4, <1>6
<1>8. /\ BaryonsIn(H, L) = BaryonsIn(G, L) + 0 /\ MetalsIn(H, L) = MetalsIn(G, L) + 0
  <2>1. Balance(G, H, L, 0, 0)
    BY <1>2, <1>6, <1>7, LedgersAgree
  <2> QED
    BY <2>1 DEF Balance
<1>9. \A i \in 1 .. n : type[i] = 3 => H[i] = G[i]
  BY <1>2, <1>6
<1>10. Wrote(0, 0)
  BY <1>1, <1>6, <1>8, <1>9 DEF Wrote
<1> QED
  BY <1>1, <1>4, <1>6, <1>10

\* A source that is passed over, or whose target is not valid.
LEMMA TickKeeps ==
    ASSUME IInv, NEW h \in BOOLEAN, EndSource(h), halted => h, pc = "resolve", IsSource(k),
           gal' = Ticked, ~h => ~MustResolve(k),
           UNCHANGED <<type, halo, supply, prepared, event, account>>
    PROVE  IInv' /\ DeadKept
<1>0. Shape /\ Counters /\ ClocksRun /\ LedgersBalance
  BY DEF IInv
<1>1. k \in 1 .. Len(gal) /\ type[k] \in {1, 2} /\ type[k] # 3 /\ halo[k].dt # "initial" /\ ~halted
  BY <1>0 DEF Counters, IsSource
<1>2. /\ Wrote(0, 0) /\ gal'[k].clock = gal[k].clock - 1
      /\ \A i \in 1 .. Len(gal) : i # k => gal'[i] = gal[i]
  BY <1>0, <1>1, TickWrites
<1>3. PICK o : o = 0 /\ o \in Int
  OBVIOUS
<1>4. Worked(o, o)
  <2>1. Declare(0, 0)
    BY <1>0, DeclaresNothing DEF Counters
  <2>2. Wrote(o, o) /\ Declare(o, o)
    BY <1>2, <1>3, <2>1
  <2> QED
    BY <1>0, <2>2 DEF Worked, Shape
<1>5. /\ Shape' /\ Len(gal') = Len(gal) /\ account' \in Account /\ LedgersBalance' /\ DeadKept
  BY <1>0, <1>3, <1>4, WorkedKeeps DEF Counters
<1>6. ASSUME success, ~h
      PROVE  /\ gal'[k].clock = prepared[k] - (step + 1)
             /\ step + 1 = NumSubsteps => type'[k] = 1
  <2>1. gal[k].clock = prepared[k] - step
    <3>1. Ticks(k) = step
      BY <1>0, <1>1 DEF Ticks, Counters, Shape
    <3>2. pc # "prepare"
      OBVIOUS
    <3> QED
      BY <1>0, <1>1, <1>6, <3>1, <3>2 DEF ClocksRun
  <2>2. step \in Int /\ prepared[k] \in Int
    BY <1>0, <1>1, SubstepsAssumption DEF Counters, Shape
  <2>3. step + 1 = NumSubsteps => type[k] = 1
    BY <1>1, <1>6 DEF MustResolve
  <2> QED
    BY <1>2, <2>1, <2>2, <2>3
<1>7. Counters' /\ Turn' /\ ClocksRun'
  <2>1. \A i \in 1 .. Len(gal) : i # k /\ type[i] \notin {0, 3} =>
           type'[i] = type[i] /\ gal'[i].clock = gal[i].clock
    BY <1>2
  <2>2. \A i \in 1 .. Len(gal) : i # k /\ type[i] \in {0, 3} => type'[i] \in {0, 3}
    OBVIOUS
  <2> QED
    BY <1>0, <1>5, <1>6, <2>1, <2>2, SourceEnds
<1> QED
  BY <1>5, <1>7 DEF IInv

\* A source that is not eligible: its clock runs.
LEMMA PassSourceKeeps ==
    ASSUME IInv, PassSource
    PROVE  IInv' /\ DeadKept
<1>1. halted \in BOOLEAN
  BY DEF IInv, Counters
<1> QED
  BY <1>1, TickKeeps DEF PassSource

\* A source without a target: its clock runs, and the scan halts.
LEMMA FailTargetKeeps ==
    ASSUME IInv, FailTarget
    PROVE  IInv' /\ DeadKept
BY TickKeeps DEF FailTarget

\* A source that is skipped, or fails before its clock has run.
LEMMA UntouchedKeeps ==
    ASSUME IInv, NEW h \in BOOLEAN, EndSource(h), halted => h, pc = "resolve",
           h \/ ~IsSource(k),
           UNCHANGED <<gal, type, halo, supply, prepared, event, account>>
    PROVE  IInv' /\ DeadKept
<1>0. Shape /\ Counters /\ ClocksRun /\ LedgersBalance
  BY DEF IInv
<1>1. Shape' /\ LedgersBalance' /\ DeadKept
  BY <1>0 DEF Shape, LedgersBalance, BaryonsBalance, MetalsBalance, LiveBaryons, LiveMetals,
              Live, Members, DeadKept
<1>2. k \in 1 .. Len(gal) /\ type[k] \in 0 .. 3 /\ account \in Account
  BY <1>0 DEF Counters, Shape
<1>3. ASSUME ~h, type'[k] \notin {0, 3}, halo[k].dt # "initial"
      PROVE  FALSE
  BY <1>2, <1>3 DEF IsSource
<1>4. Counters' /\ Turn' /\ ClocksRun'
  <2>1. \A i \in 1 .. Len(gal) : i # k /\ type[i] \in {0, 3} => type'[i] \in {0, 3}
    OBVIOUS
  <2> QED
    BY <1>0, <1>2, <1>3, <2>1, SourceEnds
<1> QED
  BY <1>1, <1>4 DEF IInv

\* A member that is no source.
LEMMA SkipSourceKeeps ==
    ASSUME IInv, SkipSource
    PROVE  IInv' /\ DeadKept
<1>1. halted \in BOOLEAN
  BY DEF IInv, Counters
<1> QED
  BY <1>1, UntouchedKeeps DEF SkipSource

\* A source without a substep or a clock halts the scan.
LEMMA FailSourceKeeps ==
    ASSUME IInv, FailSource
    PROVE  IInv' /\ DeadKept
BY UntouchedKeeps DEF FailSource

\* The end of a merger, and of its source's turn.
LEMMA SettleKeeps ==
    ASSUME IInv, Settle
    PROVE  IInv' /\ DeadKept
<1>0. Shape /\ Counters /\ Turn /\ ClocksRun /\ LedgersBalance
  BY DEF IInv
<1>1. PICK t, g, h, o : /\ t = event.target /\ g = gal[t] /\ o = 0
                        /\ h = [g EXCEPT !.bulge = g.mass["stars"], !.bulgeMetals = g.metals["stars"]]
  OBVIOUS
<1>2. /\ pc = "settle" /\ EndSource(halted)
      /\ gal' = IF event.ratio = "major" THEN [gal EXCEPT ![t] = h] ELSE gal
      /\ UNCHANGED <<type, halo, supply, prepared, account>>
  BY <1>1 DEF Settle
<1>3. t \in 1 .. Len(gal) /\ g \in Galaxy /\ (account.intact => type[t] # 3) /\ type[k] = 3
  BY <1>0, <1>1, <1>2 DEF Turn, Shape, Consuming
<1>4. Gains(g, h, o, o) /\ Gains(g, g, o, o)
  <2>1. g.mass["stars"] \in 0 .. g.mass["stars"] /\ g.metals["stars"] \in 0 .. g.metals["stars"]
    BY <1>3, GalaxyFields DEF Tracked
  <2>2. BaryonsOf(g) \in Int /\ MetalsOf(g) \in Int
    BY <1>3, GalaxyFields
  <2>3. Gains(g, h, 0, 0)
    BY <1>1, <1>3, <2>1, OtherFields
  <2> QED
    BY <1>1, <1>3, <2>2, <2>3 DEF Gains
<1>5. PICK f : f = (IF event.ratio = "major" THEN h ELSE g)
  OBVIOUS
<1>6. Gains(gal[t], f, o, o) /\ gal' = [gal EXCEPT ![t] = f]
  BY <1>0, <1>1, <1>2, <1>3, <1>4, <1>5 DEF Shape
<1>7. Wrote(o, o) /\ SameClocks
  <2>1. o \in Int
    BY <1>1
  <2> QED
    BY <1>0, <1>3, <1>6, <2>1, OneWrites
<1>8. Worked(o, o)
  <2>1. Declare(o, o)
    BY <1>0, <1>1, <1>2, DeclaresNothing DEF Counters
  <2> QED
    BY <1>0, <1>2, <1>7, <2>1 DEF Worked, Shape
<1>9. /\ Shape' /\ Len(gal') = Len(gal) /\ account' \in Account /\ LedgersBalance' /\ DeadKept
  <2>1. o \in Int
    BY <1>1
  <2> QED
    BY <1>0, <1>8, <2>1, WorkedKeeps DEF Counters
<1>10. Counters' /\ Turn' /\ ClocksRun'
  <2>1. \A i \in 1 .. Len(gal) : i # k /\ type[i] \notin {0, 3} =>
           type'[i] = type[i] /\ gal'[i].clock = gal[i].clock
    BY <1>2, <1>7 DEF SameClocks
  <2>2. \A i \in 1 .. Len(gal) : i # k /\ type[i] \in {0, 3} => type'[i] \in {0, 3}
    BY <1>2
  <2>3. type'[k] = 3 /\ halted \in BOOLEAN /\ pc \in {"resolve"} \cup Consuming
    BY <1>0, <1>2, <1>3 DEF Counters, Consuming
  <2>4. UNCHANGED <<halo, supply, prepared>> /\ EndSource(halted)
    BY <1>2
  <2> QED
    BY <1>0, <1>9, <2>1, <2>2, <2>3, <2>4, SourceEnds
<1> QED
  BY <1>9, <1>10 DEF IInv

\* What the members in L have once the source j is consumed and its target has
\* gained x baryons and z metals.
Consumed(G, H, L, j, x, z) ==
    /\ BaryonsIn(H, L \ {j}) = BaryonsIn(G, L) + x - BaryonsOf(G[j])
    /\ MetalsIn(H, L \ {j}) = MetalsIn(G, L) + z - MetalsOf(G[j])

\* What an event leaves: the target t has gained x baryons and z metals from the
\* source j, which is consumed.
LEMMA EventBalances ==
    ASSUME NEW n \in Nat, NEW L \in SUBSET (1 .. n), NEW G \in [1 .. n -> Galaxy],
           NEW H \in [1 .. n -> Galaxy], NEW j \in L, NEW t \in L \ {j},
           NEW x \in Int, NEW z \in Int, Gains(G[t], H[t], x, z),
           \A i \in (1 .. n) \ {j, t} : H[i] = G[i]
    PROVE  Consumed(G, H, L, j, x, z)
<1>1. PICK K : K = L \ {j}
  OBVIOUS
<1>2. K \in SUBSET (1 .. n) /\ t \in K /\ \A i \in K \ {t} : H[i] = G[i]
  BY <1>1
<1>3. Balance(G, H, K, BaryonsOf(H[t]) - BaryonsOf(G[t]), MetalsOf(H[t]) - MetalsOf(G[t]))
  BY <1>2, OneChanges
<1>4. /\ BaryonsIn(G, K) = BaryonsIn(G, L) - BaryonsOf(G[j])
      /\ MetalsIn(G, K) = MetalsIn(G, L) - MetalsOf(G[j])
  BY <1>1, OneLeaves
<1>5. BaryonsIn(G, L) \in Int /\ MetalsIn(G, L) \in Int
  BY LedgersAre
<1>6. G[j] \in Galaxy /\ G[t] \in Galaxy
  OBVIOUS
<1>7. /\ BaryonsOf(G[j]) \in Int /\ MetalsOf(G[j]) \in Int
      /\ BaryonsOf(G[t]) \in Int /\ MetalsOf(G[t]) \in Int
  BY <1>6, GalaxyFields
<1>8. /\ BaryonsOf(H[t]) = BaryonsOf(G[t]) + x /\ MetalsOf(H[t]) = MetalsOf(G[t]) + z
  BY DEF Gains
<1>9. BaryonsOf(H[t]) - BaryonsOf(G[t]) = x /\ MetalsOf(H[t]) - MetalsOf(G[t]) = z
  BY <1>7, <1>8
<1>10. BaryonsIn(H, K) = BaryonsIn(G, K) + x /\ MetalsIn(H, K) = MetalsIn(G, K) + z
  BY <1>3, <1>9 DEF Balance
<1> QED
  BY <1>1, <1>4, <1>5, <1>7, <1>10 DEF Consumed

\* The members and their ledgers after the merger or the disruption of the
\* source at k: sunk is the mass that the account gives up.
EventWorked(h, sunk) ==
    /\ gal' = [Ticked EXCEPT ![Target(k)] = h]
    /\ Gains(gal[Target(k)], h, BaryonsOf(gal[k]) - sunk, MetalsOf(gal[k]))
    /\ type' = [type EXCEPT ![k] = 3]
    /\ DeclareEvent(sunk)
    /\ UNCHANGED <<halo, prepared>>

\* An event consumes its source and gives what it had to the target.
LEMMA EventKeeps ==
    ASSUME Shape, account \in Account, LedgersBalance, k \in 1 .. Len(gal), type[k] \in {1, 2},
           ValidTarget(k), NEW h, NEW sunk \in Int, EventWorked(h, sunk)
    PROVE  /\ Shape' /\ Len(gal') = Len(gal) /\ account' \in Account /\ LedgersBalance' /\ DeadKept
           /\ type'[k] = 3 /\ \A i \in 1 .. Len(gal) : i # k => type'[i] = type[i]
           /\ \A i \in 1 .. Len(gal) : i # k => gal'[i].clock = gal[i].clock
           /\ Target(k) \in 1 .. Len(gal) /\ Target(k) # k
           /\ account'.intact => type'[Target(k)] # 3
<1>1. PICK n, G, L, H, j, t : /\ n = Len(gal) /\ G = gal /\ L = Live /\ H = gal' /\ j = k
                              /\ t = Target(k)
  OBVIOUS
<1>2. /\ n \in Nat /\ L \in SUBSET (1 .. n) /\ G \in [1 .. n -> Galaxy] /\ j \in L
      /\ t \in (1 .. n) \ {j} /\ Members = 1 .. n
      /\ L = {i \in 1 .. n : type[i] # 3}
  BY <1>1, CentralIs DEF Shape, ValidTarget, Live
<1>3. PICK g : g = [G[j] EXCEPT !.clock = G[j].clock - 1]
  OBVIOUS
<1>4. g \in Galaxy
  <2>1. G[j] \in Galaxy /\ G[j].clock - 1 \in Int
    BY <1>2, GalaxyFields
  <2> QED
    BY <1>3, <2>1, OtherFields
<1>5. h \in Galaxy /\ h.clock = G[t].clock /\ Gains(G[t], h, BaryonsOf(G[j]) - sunk, MetalsOf(G[j]))
  BY <1>1 DEF EventWorked, Gains
<1>6. H = [[G EXCEPT ![j] = g] EXCEPT ![t] = h]
  <2>1. Ticked = [G EXCEPT ![j] = g]
    BY <1>1, <1>2, <1>3 DEF Ticked
  <2> QED
    BY <1>1, <2>1 DEF EventWorked
<1>7. /\ H \in [1 .. n -> Galaxy] /\ H[t] = h /\ H[j] = g
      /\ \A i \in (1 .. n) \ {j, t} : H[i] = G[i]
  BY <1>2, <1>4, <1>5, <1>6
<1>8. /\ type \in [1 .. n -> 0 .. 3] /\ type[j] \in {1, 2}
      /\ type' = [type EXCEPT ![j] = 3]
  BY <1>1 DEF Shape, EventWorked
<1>9. /\ type' \in [1 .. n -> 0 .. 3] /\ type'[j] = 3
      /\ \A i \in 1 .. n : i # j => type'[i] = type[i]
  BY <1>2, <1>8
<1>10. Len(gal') = n
  BY <1>1, <1>2, <1>7, Sized
<1>11. Shape'
  <2>1. \E c \in 1 .. n : \A i \in 1 .. n : type'[i] = 0 <=> i = c
    <3>1. PICK c \in 1 .. n : \A i \in 1 .. n : type[i] = 0 <=> i = c
      BY <1>1 DEF Shape
    <3>2. \A i \in 1 .. n : type'[i] = 0 <=> i = c
      BY <1>8, <1>9, <3>1
    <3> QED
      BY <3>2
  <2>2. halo' \in [1 .. n -> Halo] /\ prepared' \in [1 .. n -> Int]
    BY <1>1 DEF Shape, EventWorked
  <2> QED
    <3>1. Len(gal') = n /\ gal' \in [1 .. n -> Galaxy] /\ n \in Nat
      BY <1>1, <1>2, <1>7, <1>10
    <3>2. gal' \in [1 .. Len(gal') -> Galaxy] /\ Len(gal') \in Nat
      BY <3>1
    <3>3. /\ type' \in [1 .. Len(gal') -> 0 .. 3] /\ halo' \in [1 .. Len(gal') -> Halo]
          /\ prepared' \in [1 .. Len(gal') -> Int]
      BY <1>9, <2>2, <3>1
    <3>4. \E c \in 1 .. Len(gal') : \A i \in 1 .. Len(gal') : type'[i] = 0 <=> i = c
      BY <2>1, <3>1
    <3> QED
      BY <3>2, <3>3, <3>4 DEF Shape
<1>12. Live' = L \ {j}
  <2>1. Members' = 1 .. n
    BY <1>1, <1>7 DEF Members
  <2> QED
    BY <1>2, <1>8, <1>9, <2>1 DEF Live
<1>13. PICK a : a = account
  OBVIOUS
<1>14. /\ a.baryons \in Int /\ a.metals \in Int /\ a.intact \in BOOLEAN
       /\ a = [baryons |-> a.baryons, metals |-> a.metals, intact |-> a.intact]
  BY <1>13 DEF Account
<1>15. account' = [a EXCEPT !.baryons = a.baryons - sunk, !.intact = a.intact /\ t \in L]
  BY <1>1, <1>13 DEF EventWorked, DeclareEvent
<1>16. account' = [baryons |-> a.baryons - sunk, metals |-> a.metals, intact |-> a.intact /\ t \in L]
  BY <1>14, <1>15
<1>17. account' \in Account
  BY <1>14, <1>16 DEF Account
<1>18. ASSUME account'.intact
       PROVE  a.intact /\ t \in L
  BY <1>16, <1>18
<1>19. ASSUME account'.intact
       PROVE  LiveBaryons' = account'.baryons /\ LiveMetals' = account'.metals
  <2>1. a.intact /\ t \in L
    BY <1>18, <1>19
  <2>2. BaryonsIn(G, L) = a.baryons /\ MetalsIn(G, L) = a.metals
    BY <1>1, <1>13, <2>1, CentralIs DEF LedgersBalance, BaryonsBalance, MetalsBalance
  <2>3. LiveBaryons' = BaryonsIn(H, L \ {j}) /\ LiveMetals' = MetalsIn(H, L \ {j})
    BY <1>1, <1>12, LedgersOf DEF LiveBaryons, LiveMetals
  <2>4. PICK x, z : x = BaryonsOf(G[j]) - sunk /\ z = MetalsOf(G[j])
    OBVIOUS
  <2>5. G[j] \in Galaxy
    BY <1>2
  <2>6. BaryonsOf(G[j]) \in Int /\ MetalsOf(G[j]) \in Int
    BY <2>5, GalaxyFields
  <2>7. x \in Int /\ z \in Int /\ Gains(G[t], H[t], x, z) /\ t \in L \ {j}
    BY <1>2, <1>5, <1>7, <2>1, <2>4, <2>6
  <2>8. Consumed(G, H, L, j, x, z)
    BY <1>2, <1>7, <2>7, EventBalances
  <2>9. BaryonsIn(H, L \ {j}) = a.baryons - sunk /\ MetalsIn(H, L \ {j}) = a.metals
    BY <1>14, <2>2, <2>4, <2>6, <2>8 DEF Consumed
  <2> QED
    BY <1>16, <2>3, <2>9
<1>20. LedgersBalance'
  BY <1>19 DEF LedgersBalance, BaryonsBalance, MetalsBalance
<1>21. DeadKept
  <2> SUFFICES ASSUME account'.intact, NEW i \in 1 .. n, type[i] = 3
               PROVE  type'[i] = 3 /\ H[i] = G[i]
    BY <1>1, <1>2 DEF DeadKept
  <2>1. i # j /\ i # t
    BY <1>2, <1>18
  <2> QED
    BY <1>7, <1>9, <2>1
<1>22. \A i \in 1 .. n : i # j => H[i].clock = G[i].clock
  BY <1>5, <1>7
<1>23. account'.intact => type'[t] # 3
  BY <1>2, <1>9, <1>18
<1> QED
  BY <1>1, <1>2, <1>9, <1>10, <1>11, <1>17, <1>20, <1>21, <1>22, <1>23

\* A disruption loses the black hole, which the account gives up.
LEMMA DisruptKeeps ==
    ASSUME IInv, Disrupt
    PROVE  IInv' /\ DeadKept
<1>0. Shape /\ Counters /\ ClocksRun /\ LedgersBalance
  BY DEF IInv
<1>1. /\ k \in 1 .. Len(gal) /\ type[k] \in {1, 2} /\ ValidTarget(k) /\ account \in Account
      /\ halted \in BOOLEAN /\ pc = "resolve" /\ EndSource(halted)
      /\ UNCHANGED <<halo, supply, prepared>>
  BY <1>0 DEF Disrupt, Counters, IsSource
<1>2. Target(k) \in 1 .. Len(gal) /\ gal[k] \in Galaxy /\ gal[Target(k)] \in Galaxy /\ Target(k) # k
  BY <1>0, <1>1, CentralIs DEF ValidTarget, Shape
<1>3. PICK h, sunk : h = DisruptedInto(gal[Target(k)], gal[k]) /\ sunk = gal[k].mass["bh"]
  OBVIOUS
<1>4. EventWorked(h, sunk) /\ sunk \in Int
  <2>1. Gains(gal[Target(k)], h, BaryonsOf(gal[k]) - sunk, MetalsOf(gal[k]))
    BY <1>2, <1>3, DisruptedGains
  <2>2. sunk \in Int
    BY <1>2, <1>3, GalaxyFields DEF Masses
  <2>3. Ticked[Target(k)] = gal[Target(k)]
    BY <1>0, <1>1, <1>2 DEF Ticked, Shape
  <2>4. gal' = [Ticked EXCEPT ![Target(k)] = h]
    BY <1>3, <2>3 DEF Disrupt
  <2>5. DeclareEvent(sunk) /\ type' = [type EXCEPT ![k] = 3]
    BY <1>3 DEF Disrupt
  <2> QED
    BY <1>1, <2>1, <2>2, <2>4, <2>5 DEF EventWorked
<1>5. /\ Shape' /\ Len(gal') = Len(gal) /\ account' \in Account /\ LedgersBalance' /\ DeadKept
      /\ type'[k] = 3 /\ \A i \in 1 .. Len(gal) : i # k => type'[i] = type[i]
      /\ \A i \in 1 .. Len(gal) : i # k => gal'[i].clock = gal[i].clock
  BY <1>0, <1>1, <1>4, EventKeeps
<1>6. Counters' /\ Turn' /\ ClocksRun'
  BY <1>0, <1>1, <1>5, SourceEnds
<1> QED
  BY <1>5, <1>6 DEF IInv

\* A merger loses nothing, and its target is live while the account is intact.
LEMMA MergeKeeps ==
    ASSUME IInv, Merge
    PROVE  IInv' /\ DeadKept
<1>0. Shape /\ Counters /\ ClocksRun /\ LedgersBalance
  BY DEF IInv
<1>1. /\ k \in 1 .. Len(gal) /\ type[k] \in {1, 2} /\ ValidTarget(k) /\ account \in Account
      /\ pc = "resolve" /\ pc' = "merger" /\ event'.target = Target(k)
      /\ UNCHANGED <<k, step, halo, supply, prepared, halted, success>>
  BY <1>0 DEF Merge, Counters, IsSource
<1>2. Target(k) \in 1 .. Len(gal) /\ gal[k] \in Galaxy /\ gal[Target(k)] \in Galaxy /\ Target(k) # k
  BY <1>0, <1>1, CentralIs DEF ValidTarget, Shape
<1>3. PICK h, o : h = MergedInto(gal[Target(k)], gal[k]) /\ o = 0
  OBVIOUS
<1>4. EventWorked(h, o) /\ o \in Int
  <2>1. BaryonsOf(gal[k]) \in Int
    BY <1>2, GalaxyFields
  <2>2. Gains(gal[Target(k)], h, BaryonsOf(gal[k]), MetalsOf(gal[k]))
    BY <1>2, <1>3, MergedGains
  <2>3. BaryonsOf(gal[k]) - o = BaryonsOf(gal[k])
    BY <1>3, <2>1
  <2>4. Ticked[Target(k)] = gal[Target(k)]
    BY <1>0, <1>1, <1>2 DEF Ticked, Shape
  <2>5. gal' = [Ticked EXCEPT ![Target(k)] = h]
    BY <1>3, <2>4 DEF Merge
  <2>6. DeclareEvent(o) /\ type' = [type EXCEPT ![k] = 3] /\ o \in Int
    BY <1>3 DEF Merge
  <2> QED
    BY <1>1, <2>2, <2>3, <2>5, <2>6 DEF EventWorked
<1>5. /\ Shape' /\ Len(gal') = Len(gal) /\ account' \in Account /\ LedgersBalance' /\ DeadKept
      /\ type'[k] = 3 /\ \A i \in 1 .. Len(gal) : i # k => type'[i] = type[i]
      /\ \A i \in 1 .. Len(gal) : i # k => gal'[i].clock = gal[i].clock
      /\ account'.intact => type'[Target(k)] # 3
  BY <1>0, <1>1, <1>4, EventKeeps
<1>6. Counters'
  BY <1>0, <1>1, <1>5 DEF Counters, Consuming
<1>7. Turn'
  BY <1>1, <1>2, <1>5 DEF Turn, Consuming
<1>8. ClocksRun'
  <2>1. \A i \in 1 .. Len(gal) : Ticks(i)' = Ticks(i)
    BY <1>1 DEF Ticks, Consuming
  <2>2. \A i \in 1 .. Len(gal) : type'[i] \notin {0, 3} => type[i] \notin {0, 3} /\ i # k
    BY <1>5
  <2> QED
    BY <1>0, <1>1, <1>5, <2>1, <2>2 DEF ClocksRun
<1> QED
  BY <1>5, <1>6, <1>7, <1>8 DEF IInv
-----------------------------------------------------------------------------
(* The start of the interval. *)

\* A record whose ejected gas and ICS are set.
LEMMA HoldingFields ==
    ASSUME NEW g \in Galaxy, NEW x \in Nat, NEW z \in Nat, NEW y \in Nat, NEW w \in Nat
    PROVE  /\ Holding(g, x, z, y, w) \in Galaxy
           /\ BaryonsOf(Holding(g, x, z, y, w))
                 = BaryonsOf(g) - (g.mass["ejected"] + g.mass["ics"]) + (x + y)
<1>1. PICK m, n : /\ m = [g.mass EXCEPT !["ejected"] = x, !["ics"] = y]
                  /\ n = [g.metals EXCEPT !["ejected"] = z, !["ics"] = w]
  OBVIOUS
<1>2. /\ g = [mass |-> g.mass, metals |-> g.metals, bulge |-> g.bulge,
              bulgeMetals |-> g.bulgeMetals, newStars |-> g.newStars,
              trigger |-> g.trigger, clock |-> g.clock]
      /\ g.mass \in [Masses -> Nat] /\ g.metals \in [Tracked -> Nat]
      /\ g.bulge \in Nat /\ g.bulgeMetals \in Nat /\ g.newStars \in Nat
      /\ g.trigger \in BOOLEAN /\ g.clock \in Int
      /\ g.bulge <= g.mass["stars"] /\ g.bulgeMetals <= g.metals["stars"]
  BY GalaxyFields
<1>3. PICK h : h = [mass |-> m, metals |-> n, bulge |-> g.bulge,
                    bulgeMetals |-> g.bulgeMetals, newStars |-> g.newStars,
                    trigger |-> g.trigger, clock |-> g.clock]
  OBVIOUS
<1>4. Holding(g, x, z, y, w) = h
  <2>1. PICK a, p : /\ p = [g.mass EXCEPT !["ejected"] = x]
                    /\ a = [mass |-> p, metals |-> g.metals, bulge |-> g.bulge,
                            bulgeMetals |-> g.bulgeMetals, newStars |-> g.newStars,
                            trigger |-> g.trigger, clock |-> g.clock]
    OBVIOUS
  <2>2. PICK b, q : /\ q = [g.metals EXCEPT !["ejected"] = z]
                    /\ b = [mass |-> p, metals |-> q, bulge |-> g.bulge,
                            bulgeMetals |-> g.bulgeMetals, newStars |-> g.newStars,
                            trigger |-> g.trigger, clock |-> g.clock]
    OBVIOUS
  <2>3. PICK c : c = [mass |-> m, metals |-> q, bulge |-> g.bulge,
                      bulgeMetals |-> g.bulgeMetals, newStars |-> g.newStars,
                      trigger |-> g.trigger, clock |-> g.clock]
    OBVIOUS
  <2>4. [g EXCEPT !.mass["ejected"] = x] = a
    BY <1>2, <2>1
  <2>5. [a EXCEPT !.metals["ejected"] = z] = b
    BY <2>1, <2>2
  <2>6. [b EXCEPT !.mass["ics"] = y] = c
    <3>1. m = [p EXCEPT !["ics"] = y]
      BY <1>1, <2>1
    <3> QED
      BY <2>2, <2>3, <3>1
  <2>7. [c EXCEPT !.metals["ics"] = w] = h
    <3>1. n = [q EXCEPT !["ics"] = w]
      BY <1>1, <2>2
    <3> QED
      BY <1>3, <2>3, <3>1
  <2>8. Holding(g, x, z, y, w)
           = [[[[g EXCEPT !.mass["ejected"] = x] EXCEPT !.metals["ejected"] = z]
                  EXCEPT !.mass["ics"] = y] EXCEPT !.metals["ics"] = w]
    BY DEF Holding
  <2> QED
    BY <2>4, <2>5, <2>6, <2>7, <2>8
<1>5. /\ m \in [Masses -> Nat] /\ n \in [Tracked -> Nat]
      /\ m["stars"] = g.mass["stars"] /\ n["stars"] = g.metals["stars"]
      /\ m["cold"] = g.mass["cold"] /\ m["hot"] = g.mass["hot"] /\ m["bh"] = g.mass["bh"]
      /\ m["ejected"] = x /\ m["ics"] = y
  BY <1>1, <1>2 DEF Masses, Tracked
<1>6. h \in Galaxy
  BY <1>2, <1>3, <1>5 DEF Galaxy
<1>7. h.mass = m
  BY ONLY <1>3
<1>8. (\A r \in Masses : g.mass[r] \in Int) /\ (\A r \in Masses : h.mass[r] \in Int)
  BY <1>6, GalaxyFields
<1>9. BaryonsOf(g) = g.mass["cold"] + g.mass["hot"] + g.mass["ejected"]
                       + g.mass["stars"] + g.mass["ics"] + g.mass["bh"]
  BY <1>8, BaryonsAre
<1>10. BaryonsOf(h) = h.mass["cold"] + h.mass["hot"] + h.mass["ejected"]
                       + h.mass["stars"] + h.mass["ics"] + h.mass["bh"]
  BY <1>8, BaryonsAre
<1>11. PICK c, t, e, s, i, b :
          /\ c = g.mass["cold"] /\ t = g.mass["hot"] /\ e = g.mass["ejected"]
          /\ s = g.mass["stars"] /\ i = g.mass["ics"] /\ b = g.mass["bh"]
  OBVIOUS
<1>12. c \in Int /\ t \in Int /\ e \in Int /\ s \in Int /\ i \in Int /\ b \in Int
  BY <1>8, <1>11 DEF Masses, Tracked
<1>13. BaryonsOf(g) = c + t + e + s + i + b
  BY <1>9, <1>11
<1>14. BaryonsOf(h) = c + t + x + s + y + b
  BY <1>5, <1>7, <1>10, <1>11
<1>15. BaryonsOf(h) = BaryonsOf(g) - (e + i) + (x + y)
  BY ONLY <1>12, <1>13, <1>14, x \in Nat, y \in Nat
<1> QED
  BY <1>4, <1>6, <1>11, <1>15

\* prepare_infall_budget() moves gas and stars between members: what the group
\* has stays, and no reservoir becomes negative.
LEMMA ConsolidatedBalances ==
    ASSUME Shape
    PROVE  /\ Consolidated \in [1 .. Len(gal) -> Galaxy]
           /\ BaryonsIn(Consolidated, Live) = BaryonsIn(gal, Live)
           /\ \A i \in 1 .. Len(gal) : type[i] = 3 => Consolidated[i] = gal[i]
<1>1. PICK n, G, L, c, C : /\ n = Len(gal) /\ G = gal /\ L = Live /\ c = Central
                           /\ C = Consolidated
  OBVIOUS
<1>2. /\ n \in Nat /\ L \in SUBSET (1 .. n) /\ G \in [1 .. n -> Galaxy] /\ c \in L
      /\ Members = 1 .. n /\ \A i \in 1 .. n : i \in L <=> type[i] # 3
  BY <1>1, CentralIs DEF Shape, Live
<1>3. PICK x, z, y, w : /\ x = PooledMass("ejected") /\ z = PooledMetals("ejected")
                        /\ y = PooledMass("ics") /\ w = PooledMetals("ics")
  OBVIOUS
<1>4. C = [i \in 1 .. n |-> CASE i = c -> Holding(G[i], x, z, y, w)
                              [] i \in L \ {c} -> Holding(G[i], 0, 0, 0, 0)
                              [] OTHER -> G[i]]
  BY <1>1, <1>2, <1>3 DEF Consolidated
<1>5. IsFiniteSet(L)
  BY <1>2, MembersAreFinite
<1>6. \A i \in L : /\ G[i].mass["ejected"] \in Nat /\ G[i].mass["ics"] \in Nat
                   /\ G[i].metals["ejected"] \in Nat /\ G[i].metals["ics"] \in Nat
  BY <1>2, GalaxyFields DEF Tracked
<1>7. \A r : /\ PooledMass(r) = SumFunctionOnSet([i \in L |-> G[i].mass[r]], L)
             /\ PooledMetals(r) = Validated(PooledMass(r),
                                            SumFunctionOnSet([i \in L |-> G[i].metals[r]], L))
  <2>1. \A r : /\ DOMAIN [i \in L |-> G[i].mass[r]] = L
               /\ DOMAIN [i \in L |-> G[i].metals[r]] = L
    OBVIOUS
  <2> QED
    BY <1>1, <2>1, Zenon DEF SumFunction, PooledMass, PooledMetals
<1>8. x \in Nat /\ z \in Nat /\ y \in Nat /\ w \in Nat
  <2>1. SumFunctionOnSet([i \in L |-> G[i].mass["ejected"]], L) \in Nat
    BY <1>5, <1>6, SumIsNat
  <2>2. SumFunctionOnSet([i \in L |-> G[i].mass["ics"]], L) \in Nat
    BY <1>5, <1>6, SumIsNat
  <2>3. SumFunctionOnSet([i \in L |-> G[i].metals["ejected"]], L) \in Nat
    BY <1>5, <1>6, SumIsNat
  <2>4. SumFunctionOnSet([i \in L |-> G[i].metals["ics"]], L) \in Nat
    BY <1>5, <1>6, SumIsNat
  <2> QED
    BY <1>3, <1>7, <2>1, <2>2, <2>3, <2>4 DEF Validated, Least
<1>9. PICK o, D : o = 0 /\ D = [i \in 1 .. n |-> IF i \in L THEN Holding(G[i], o, o, o, o) ELSE G[i]]
  OBVIOUS
<1>10. ASSUME NEW i \in L
       PROVE  /\ Holding(G[i], o, o, o, o) \in Galaxy
              /\ BaryonsOf(G[i]) = BaryonsOf(Holding(G[i], o, o, o, o))
                                     + (G[i].mass["ejected"] + G[i].mass["ics"])
              /\ BaryonsOf(Holding(G[i], o, o, o, o)) \in Int
  <2>1. PICK g, h : g = G[i] /\ h = Holding(g, o, o, o, o)
    OBVIOUS
  <2>2. g \in Galaxy /\ o \in Nat
    BY <1>2, <1>9, <2>1
  <2>3. h \in Galaxy
    BY <2>1, <2>2, HoldingFields
  <2>4. BaryonsOf(h) = BaryonsOf(g) - (g.mass["ejected"] + g.mass["ics"]) + (o + o)
    BY <2>1, <2>2, HoldingFields
  <2>5. BaryonsOf(g) \in Int /\ BaryonsOf(h) \in Int
    BY <2>2, <2>3, GalaxyFields
  <2>6. g.mass["ejected"] \in Int /\ g.mass["ics"] \in Int
    BY <1>6, <2>1
  <2>7. BaryonsOf(g) = BaryonsOf(h) + (g.mass["ejected"] + g.mass["ics"])
    BY <1>9, <2>4, <2>5, <2>6
  <2> QED
    BY <2>1, <2>3, <2>5, <2>7
<1>11. PICK h : h = Holding(G[c], x, z, y, w)
  OBVIOUS
<1>12. h \in Galaxy
  BY <1>2, <1>8, <1>11, HoldingFields
<1>13. BaryonsOf(h) = BaryonsOf(G[c]) - (G[c].mass["ejected"] + G[c].mass["ics"]) + (x + y)
  <2>1. PICK g : g = G[c]
    OBVIOUS
  <2>2. g \in Galaxy /\ h = Holding(g, x, z, y, w)
    BY <1>2, <1>11, <2>1
  <2>3. BaryonsOf(h) = BaryonsOf(g) - (g.mass["ejected"] + g.mass["ics"]) + (x + y)
    BY ONLY <1>8, <2>2, HoldingFields
  <2> QED
    BY <2>1, <2>3
<1>14. /\ \A i \in L : D[i] = Holding(G[i], o, o, o, o)
       /\ \A i \in (1 .. n) \ L : D[i] = G[i]
  BY <1>2, <1>9
<1>15. D \in [1 .. n -> Galaxy]
  <2>1. \A i \in 1 .. n : D[i] \in Galaxy
    BY <1>2, <1>10, <1>14
  <2> QED
    BY <1>9, <2>1
<1>16. /\ C[c] = h /\ (\A i \in L \ {c} : C[i] = D[i])
       /\ \A i \in (1 .. n) \ L : C[i] = G[i]
  <2>1. C[c] = h
    BY <1>2, <1>4, <1>11
  <2>2. \A i \in L \ {c} : C[i] = D[i]
    BY <1>2, <1>4, <1>9, <1>14
  <2>3. \A i \in (1 .. n) \ L : C[i] = G[i]
    BY <1>2, <1>4
  <2> QED
    BY <2>1, <2>2, <2>3
<1>17. C \in [1 .. n -> Galaxy]
  <2>1. \A i \in 1 .. n : C[i] \in Galaxy
    BY <1>2, <1>12, <1>15, <1>16
  <2> QED
    BY <1>4, <2>1
<1>18. BaryonsIn(G, L) = BaryonsIn(D, L) + (x + y)
  <2>1. PICK e, f, b, u, v :
           /\ e = [i \in L |-> BaryonsOf(D[i])]
           /\ f = [i \in L |-> G[i].mass["ejected"] + G[i].mass["ics"]]
           /\ b = [i \in L |-> BaryonsOf(G[i])]
           /\ u = [i \in L |-> G[i].mass["ejected"]]
           /\ v = [i \in L |-> G[i].mass["ics"]]
    OBVIOUS
  <2>2. \A i \in L : e[i] \in Int /\ f[i] \in Int /\ b[i] = e[i] + f[i]
    BY <1>6, <1>10, <1>14, <2>1
  <2>3. SumFunctionOnSet(b, L) = SumFunctionOnSet(e, L) + SumFunctionOnSet(f, L)
    BY <1>5, <2>2, SumOfBoth
  <2>4. \A i \in L : u[i] \in Int /\ v[i] \in Int /\ f[i] = u[i] + v[i]
    BY <1>6, <2>1
  <2>5. SumFunctionOnSet(f, L) = SumFunctionOnSet(u, L) + SumFunctionOnSet(v, L)
    BY <1>5, <2>4, SumOfBoth
  <2>6. SumFunctionOnSet(u, L) = x /\ SumFunctionOnSet(v, L) = y
    BY <1>3, <1>7, <2>1
  <2>7. BaryonsIn(G, L) = SumFunctionOnSet(b, L) /\ BaryonsIn(D, L) = SumFunctionOnSet(e, L)
    BY <2>1 DEF BaryonsIn
  <2> QED
    BY <2>3, <2>5, <2>6, <2>7
<1>19. BaryonsIn(C, L) = BaryonsIn(D, L) + (BaryonsOf(h) - BaryonsOf(D[c]))
  <2>1. Balance(D, C, L, BaryonsOf(C[c]) - BaryonsOf(D[c]), MetalsOf(C[c]) - MetalsOf(D[c]))
    BY <1>2, <1>15, <1>16, <1>17, OneChanges
  <2> QED
    BY <1>16, <2>1 DEF Balance
<1>20. BaryonsOf(h) - BaryonsOf(D[c]) = x + y
  <2>1. BaryonsOf(G[c]) = BaryonsOf(D[c]) + (G[c].mass["ejected"] + G[c].mass["ics"])
    BY <1>2, <1>10, <1>14
  <2>2. BaryonsOf(D[c]) \in Int /\ G[c].mass["ejected"] \in Int /\ G[c].mass["ics"] \in Int
    BY <1>2, <1>6, <1>10, <1>14
  <2> QED
    BY <1>8, <1>13, <2>1, <2>2
<1>21. BaryonsIn(C, L) = BaryonsIn(G, L)
  BY <1>18, <1>19, <1>20
<1>22. \A i \in 1 .. n : type[i] = 3 => C[i] = G[i]
  BY <1>2, <1>16
<1> QED
  BY <1>1, <1>17, <1>21, <1>22

\* Whatever clock a member is given, it is a whole number, and a consumed record
\* or a padded slot keeps the one it has.
LEMMA ClocksGiven ==
    ASSUME Shape, NEW i \in Members
    PROVE  /\ ClocksOf(i) \in SUBSET Int
           /\ type[i] = 3 => ClocksOf(i) = {gal[i].clock}
<1>1. gal[i].clock \in Int /\ type[i] \in 0 .. 3
  BY CentralIs, GalaxyFields DEF Shape
<1>2. Unset \in Int /\ 0 \in Int
  BY DEF Unset
<1> QED
  BY <1>1, <1>2, ClocksAssumption DEF ClocksOf

\* The start of the interval: consolidation, the clamp of metals and the clocks.
LEMMA PrepareKeeps ==
    ASSUME IInv, Prepare
    PROVE  IInv' /\ DeadKept
<1>0. Shape /\ Counters /\ Turn /\ LedgersBalance
  BY DEF IInv
<1>1. PICK clocks \in [Members -> UNION {ClocksOf(i) : i \in Members}] :
        /\ \A i \in Members : clocks[i] \in ClocksOf(i)
        /\ prepared' = clocks
        /\ gal' = [i \in Members |-> [Consolidated[i] EXCEPT !.clock = clocks[i]]]
  BY DEF Prepare
<1>2. PICK n, G, L, C, H : /\ n = Len(gal) /\ G = gal /\ L = Live /\ C = Consolidated
                           /\ H = gal'
  OBVIOUS
<1>3. /\ n \in Nat /\ L \in SUBSET (1 .. n) /\ G \in [1 .. n -> Galaxy]
      /\ C \in [1 .. n -> Galaxy] /\ BaryonsIn(C, L) = BaryonsIn(G, L)
      /\ Members = 1 .. n /\ (\A i \in 1 .. n : i \in L <=> type[i] # 3)
      /\ \A i \in 1 .. n : type[i] = 3 => C[i] = G[i]
  BY <1>0, <1>2, CentralIs, ConsolidatedBalances DEF Shape, Live
<1>4. clocks \in [1 .. n -> Int] /\ \A i \in 1 .. n : type[i] = 3 => clocks[i] = G[i].clock
  <2>1. \A i \in 1 .. n : clocks[i] \in Int
    BY <1>0, <1>1, <1>3, ClocksGiven
  <2>2. \A i \in 1 .. n : type[i] = 3 => clocks[i] = G[i].clock
    BY <1>0, <1>1, <1>2, <1>3, ClocksGiven
  <2> QED
    BY <1>1, <1>3, <2>1, <2>2
<1>5. ASSUME NEW i \in 1 .. n
      PROVE  /\ H[i] \in Galaxy /\ H[i].clock = clocks[i]
             /\ BaryonsOf(H[i]) = BaryonsOf(C[i]) /\ MetalsOf(H[i]) = MetalsOf(C[i])
             /\ type[i] = 3 => H[i] = G[i]
  <2>1. PICK g, h, t : g = C[i] /\ t = clocks[i] /\ h = [g EXCEPT !.clock = t]
    OBVIOUS
  <2>2. g \in Galaxy /\ t \in Int /\ H[i] = h
    BY <1>1, <1>2, <1>3, <1>4, <2>1
  <2>3. /\ h \in Galaxy /\ h.clock = t
        /\ BaryonsOf(h) = BaryonsOf(g) /\ MetalsOf(h) = MetalsOf(g)
    <3>1. \A c \in Int : LET f == [g EXCEPT !.clock = c]
                         IN  /\ f \in Galaxy /\ f.clock = c
                             /\ BaryonsOf(f) = BaryonsOf(g) /\ MetalsOf(f) = MetalsOf(g)
                             /\ f.mass = g.mass /\ f.metals = g.metals
      BY <2>2, OtherFields, Zenon
    <3> QED
      BY <2>1, <2>2, <3>1, Zenon
  <2>4. ASSUME type[i] = 3
        PROVE  H[i] = G[i]
    <3>1. g = G[i] /\ t = g.clock
      BY <1>3, <1>4, <2>1, <2>4
    <3>2. g = [mass |-> g.mass, metals |-> g.metals, bulge |-> g.bulge,
               bulgeMetals |-> g.bulgeMetals, newStars |-> g.newStars,
               trigger |-> g.trigger, clock |-> g.clock]
      BY <2>2, GalaxyFields
    <3>3. h = g
      BY ONLY <2>1, <3>1, <3>2
    <3> QED
      BY <2>2, <3>1, <3>3
  <2> QED
    BY <2>1, <2>2, <2>3, <2>4
<1>6. H \in [1 .. n -> Galaxy]
  BY <1>1, <1>2, <1>3, <1>5
<1>7. /\ BaryonsIn(H, L) = BaryonsIn(G, L) /\ MetalsIn(H, L) = MetalsIn(C, L)
      /\ MetalsIn(G, L) \in Int /\ MetalsIn(C, L) \in Int
  <2>1. \A i \in L : BaryonsOf(H[i]) = BaryonsOf(C[i])
    BY <1>3, <1>5
  <2>2. \A i \in L : MetalsOf(H[i]) = MetalsOf(C[i])
    BY <1>3, <1>5
  <2>3. BaryonsIn(H, L) = BaryonsIn(C, L)
    <3>1. \A K \in [1 .. n -> Galaxy] :
             /\ (\A i \in L : BaryonsOf(K[i]) = BaryonsOf(C[i])) => BaryonsIn(K, L) = BaryonsIn(C, L)
             /\ (\A i \in L : MetalsOf(K[i]) = MetalsOf(C[i])) => MetalsIn(K, L) = MetalsIn(C, L)
      BY <1>3, LedgersAre, Zenon
    <3> QED
      BY <1>6, <2>1, <3>1
  <2>4. MetalsIn(H, L) = MetalsIn(C, L)
    <3>1. \A K \in [1 .. n -> Galaxy] :
             /\ (\A i \in L : BaryonsOf(K[i]) = BaryonsOf(C[i])) => BaryonsIn(K, L) = BaryonsIn(C, L)
             /\ (\A i \in L : MetalsOf(K[i]) = MetalsOf(C[i])) => MetalsIn(K, L) = MetalsIn(C, L)
      BY <1>3, LedgersAre, Zenon
    <3> QED
      BY <1>6, <2>2, <3>1
  <2>5. MetalsIn(G, L) \in Int
    BY <1>3, LedgersAre
  <2>6. MetalsIn(C, L) \in Int
    BY <1>3, LedgersAre
  <2>7. BaryonsIn(C, L) = BaryonsIn(G, L)
    BY <1>3
  <2> QED
    BY <2>3, <2>4, <2>5, <2>6, <2>7
<1>8. PICK o, z : o = 0 /\ z = MetalsIn(C, L) - MetalsIn(G, L)
  OBVIOUS
<1>9. o \in Int /\ z \in Int
  BY <1>7, <1>8
<1>10. Declare(o, z)
  <2>1. SumFunction([i \in Live |-> MetalsOf(Consolidated[i])]) = MetalsIn(C, L)
    BY <1>2, LedgersOf
  <2>2. LiveMetals = MetalsIn(G, L)
    BY <1>0, <1>2, CentralIs
  <2>3. Declare(0, SumFunction([i \in Live |-> MetalsOf(Consolidated[i])]) - LiveMetals)
    BY DEF Prepare
  <2> QED
    BY <1>8, <2>1, <2>2, <2>3
<1>11. Worked(o, z)
  <2>1. BaryonsIn(H, L) = BaryonsIn(G, L) + o
    <3>1. BaryonsIn(G, L) \in Int
      BY <1>3, LedgersAre
    <3> QED
      BY <1>7, <1>8, <3>1
  <2>2. MetalsIn(H, L) = MetalsIn(G, L) + z
    BY <1>7, <1>8
  <2>3. \A i \in 1 .. n : type[i] = 3 => H[i] = G[i]
    BY <1>5
  <2>4. Wrote(o, z)
    BY <1>2, <1>6, <2>1, <2>2, <2>3 DEF Wrote
  <2>5. prepared' \in [1 .. Len(gal) -> Int] /\ type' = type /\ halo' = halo
    BY <1>1, <1>2, <1>4 DEF Prepare
  <2> QED
    BY <1>10, <2>4, <2>5 DEF Worked
<1>12. /\ Shape' /\ Len(gal') = Len(gal) /\ account' \in Account /\ LedgersBalance' /\ DeadKept
  BY <1>0, <1>9, <1>11, WorkedKeeps DEF Counters
<1>13. /\ pc = "prepare" /\ pc' = "infall" /\ supply' \in halo[Central].supplies
       /\ UNCHANGED <<k, step, type, halo, event, halted, success>>
  BY DEF Prepare
<1>14. Counters'
  <2>1. supply' \in Int
    <3>1. halo[Central] \in Halo
      BY <1>0, CentralIs DEF Shape
    <3> QED
      BY <1>13, <3>1 DEF Halo
  <2> QED
    BY <1>0, <1>12, <1>13, <2>1 DEF Counters, Consuming
<1>15. Turn'
  BY <1>13 DEF Turn, Consuming
<1>16. ClocksRun'
  <2>1. step = 0 /\ NumSubsteps # 0
    BY <1>0, <1>13, SubstepsAssumption DEF Counters
  <2>2. \A i \in 1 .. Len(gal) : Ticks(i)' = 0
    BY <1>13, <2>1 DEF Ticks, Consuming
  <2>3. \A i \in 1 .. Len(gal) : gal'[i].clock = prepared'[i] /\ prepared'[i] \in Int
    BY <1>1, <1>2, <1>4, <1>5
  <2>4. \A i \in 1 .. Len(gal) : gal'[i].clock = prepared'[i] - Ticks(i)' /\ Ticks(i)' # NumSubsteps
    BY <2>1, <2>2, <2>3
  <2> QED
    BY <1>12, <2>4 DEF ClocksRun
<1> QED
  BY <1>12, <1>14, <1>15, <1>16 DEF IInv

-----------------------------------------------------------------------------
(* The theorems. *)

\* The workspace an interval starts from.
LEMMA InitKeeps == Init => IInv
<1> SUFFICES ASSUME Init PROVE IInv
  OBVIOUS
<1>1. PICK w \in Groups : gal = w.galaxies /\ type = w.types /\ halo = w.halos
  BY DEF Init
<1>2. PICK n : n = Len(gal)
  OBVIOUS
<1>3. /\ n \in Nat /\ DOMAIN gal = 1 .. n /\ gal \in [1 .. n -> Galaxy]
      /\ type \in [1 .. n -> 0 .. 3] /\ halo \in [1 .. n -> Halo]
      /\ \E c \in 1 .. n : \A i \in 1 .. n : type[i] = 0 <=> i = c
  <2>1. gal \in Seq(Galaxy)
    BY <1>1, GroupsAssumption
  <2>2. DOMAIN gal = 1 .. n /\ n \in Nat /\ gal \in [1 .. n -> Galaxy]
    BY <1>2, <2>1
  <2>3. type \in [DOMAIN gal -> 0 .. 3] /\ halo \in [DOMAIN gal -> Halo]
    BY <1>1, GroupsAssumption DEF Halo
  <2>4. \E c \in DOMAIN gal : \A i \in DOMAIN gal : type[i] = 0 <=> i = c
    BY <1>1, GroupsAssumption
  <2> QED
    <3>1. n \in Nat /\ DOMAIN gal = 1 .. n /\ gal \in [1 .. n -> Galaxy]
      BY <2>2
    <3>2. type \in [1 .. n -> 0 .. 3] /\ halo \in [1 .. n -> Halo]
      BY <2>2, <2>3
    <3>3. \E c \in 1 .. n : \A i \in 1 .. n : type[i] = 0 <=> i = c
      BY <2>2, <2>4
    <3> QED
      BY <3>1, <3>2, <3>3
<1>4. /\ prepared \in [1 .. n -> Int] /\ pc = "prepare" /\ k = 1 /\ step = 0 /\ supply = 0
      /\ halted = FALSE /\ success = TRUE
      /\ account = [baryons |-> LiveBaryons, metals |-> LiveMetals, intact |-> TRUE]
  BY <1>3, GalaxyFields DEF Init
<1>5. Shape
  BY <1>2, <1>3, <1>4 DEF Shape
<1>6. LiveBaryons \in Int /\ LiveMetals \in Int
  <2>1. PICK G, L : G = gal /\ L = Live
    OBVIOUS
  <2>2. /\ L \in SUBSET (1 .. n) /\ G \in [1 .. n -> Galaxy] /\ n \in Nat
        /\ LiveBaryons = BaryonsIn(G, L) /\ LiveMetals = MetalsIn(G, L)
    BY <1>2, <1>3, <1>5, <2>1, CentralIs
  <2>3. BaryonsIn(G, L) \in Int
    BY <2>2, LedgersAre
  <2>4. MetalsIn(G, L) \in Int
    BY <2>2, LedgersAre
  <2> QED
    BY <2>2, <2>3, <2>4
<1>7. Counters
  <2>1. account \in Account
    BY <1>4, <1>6 DEF Account
  <2>2. NumSubsteps \in Nat /\ 0 < NumSubsteps
    BY SubstepsAssumption
  <2>3. 1 \in 1 .. Len(gal)
    BY <1>2, <1>3
  <2>4. pc \in {"prepare"} /\ k \in 1 .. Len(gal) /\ step \in 0 .. NumSubsteps
    BY <1>4, <2>2, <2>3
  <2>5. /\ pc = "prepare" /\ step = 0 /\ step < NumSubsteps
        /\ supply \in Int /\ halted \in BOOLEAN /\ success \in BOOLEAN
    <3>1. pc = "prepare" /\ step = 0 /\ supply = 0
      BY <1>4
    <3>2. halted \in BOOLEAN /\ success \in BOOLEAN
      BY <1>4, Zenon
    <3> QED
      BY <2>2, <3>1, <3>2
  <2> QED
    BY <2>1, <2>4, <2>5 DEF Counters, Consuming
<1>8. Turn /\ ClocksRun
  BY <1>4 DEF Turn, ClocksRun, Consuming
<1>9. LedgersBalance
  BY <1>4 DEF LedgersBalance, BaryonsBalance, MetalsBalance
<1> QED
  BY <1>5, <1>7, <1>8, <1>9 DEF IInv

\* No step of the interval leaves the invariant, or touches a consumed record.
LEMMA StepKeeps ==
    ASSUME IInv, [Next]_vars
    PROVE  IInv' /\ (account'.intact =>
                       \A i \in Members : type[i] = 3 => type'[i] = 3 /\ gal'[i] = gal[i])
<1>1. CASE UNCHANGED vars
  <2>1. UNCHANGED <<pc, k, step, gal, type, halo, supply, prepared, event, halted, success, account>>
    BY <1>1 DEF vars
  <2>2. Shape' /\ Counters' /\ Turn'
    BY <2>1 DEF IInv, Shape, Counters, Turn, Consuming
  <2>3. ClocksRun'
    BY <2>1 DEF IInv, ClocksRun, Ticks, Consuming
  <2>4. LedgersBalance'
    BY <2>1 DEF IInv, LedgersBalance, BaryonsBalance, MetalsBalance, LiveBaryons, LiveMetals,
                Live, Members
  <2> QED
    BY <2>1, <2>2, <2>3, <2>4 DEF IInv
<1>2. CASE Next
  <2>1. IInv' /\ DeadKept
    BY <1>2, PrepareKeeps, ApplyInfallKeeps, ReincorporateKeeps, SkipMemberKeeps, StripKeeps,
       CoolAndFormStarsKeeps, DestabiliseAndBurstKeeps, EnrichKeeps, SkipSourceKeeps,
       FailSourceKeeps, PassSourceKeeps, FailTargetKeeps, DisruptKeeps, MergeKeeps,
       ConsumeMergerKeeps, FollowUpKeeps, SettleKeeps DEF Next
  <2> QED
    BY <2>1 DEF DeadKept
<1> QED
  BY <1>1, <1>2

\* The group keeps its shape, the scans their place, the clocks their count and
\* the account its balance, in every interval that GroupBaryons allows.
THEOREM InvariantHolds == Spec => []IInv
<1>1. Init => IInv
  BY InitKeeps
<1>2. IInv /\ [Next]_vars => IInv'
  BY StepKeeps
<1> QED
  BY <1>1, <1>2, PTL DEF Spec

\* No process, in whatever order the members take their turns, drives a reservoir
\* of a galaxy below zero or makes the bulge more than the stars: the caps of the
\* sage16 processes and the recomputations of _apply_merger_ownership() suffice,
\* whatever the group, the number of substeps and the yield.
THEOREM NoReservoirRunsDry == Spec => []ReservoirsSound
<1>1. IInv => ReservoirsSound
  <2> SUFFICES ASSUME IInv PROVE ReservoirsSound
    OBVIOUS
  <2>1. Members = 1 .. Len(gal)
    BY CentralIs DEF IInv
  <2> QED
    BY <2>1 DEF IInv, Shape, Counters, Consuming, ReservoirsSound
<1> QED
  BY <1>1, InvariantHolds, PTL

\* The live members of the group have the baryons and metals they started with
\* and those that the diagnostics declare, as docs/conservation.md promises, while
\* no event was given to a record that is not live: also where a process writes
\* two records of the array and the two are one.
THEOREM NothingIsLost == Spec => []LedgersBalance
<1>1. IInv => LedgersBalance
  BY DEF IInv
<1> QED
  BY <1>1, InvariantHolds, PTL

\* An interval that the resolver reports as a success has run the clock of every
\* satellite that is left once in each substep, and has resolved every orphan: a
\* scan that halts is remembered, however the substeps after it end.
THEOREM HaltIsRemembered == Spec => []SuccessMeansResolved
<1>1. IInv => SuccessMeansResolved
  <2> SUFFICES ASSUME IInv, pc = "done", success, NEW i \in Live,
                      type[i] # 0, halo[i].dt # "initial"
               PROVE  type[i] = 1 /\ gal[i].clock = prepared[i] - NumSubsteps
    BY DEF SuccessMeansResolved
  <2>1. i \in 1 .. Len(gal) /\ type[i] # 3 /\ NumSubsteps \in Nat \ {0}
    BY CentralIs, SubstepsAssumption DEF IInv, Live
  <2>2. step = NumSubsteps /\ ~halted
    BY DEF IInv, Counters
  <2>3. Ticks(i) = NumSubsteps
    BY <2>2 DEF Ticks, Consuming
  <2> QED
    BY <2>1, <2>2, <2>3 DEF IInv, ClocksRun
<1> QED
  BY <1>1, InvariantHolds, PTL

\* A consumed record or a padded slot of the workspace is never written or revived
\* again, while no event was given to a record that is not live.
THEOREM PaddingIsNeutral == Spec => DeadStayAsTheyAre
<1>1. IInv /\ [Next]_vars =>
        [account'.intact =>
           \A i \in Members : type[i] = 3 => type'[i] = 3 /\ gal'[i] = gal[i]]_vars
  BY StepKeeps
<1> QED
  BY <1>1, InvariantHolds, PTL DEF Spec, DeadStayAsTheyAre

-----------------------------------------------------------------------------
(* The shapes.                                                               *)

\* The power of two is named.
LEMMA PowerIsChosen ==
    ASSUME NEW n
    PROVE  PowerAtLeast(n) = LET F == CHOOSE F : Doubles(F, n)
                             IN  F[Min({b \in 0 .. n : F[b] >= n})]
BY Zenon DEF PowerAtLeast, Doubles

\* _member_bin() pads to a number, and never below the members there are.
LEMMA PowerIsEnough ==
    ASSUME NEW n \in Nat
    PROVE  PowerAtLeast(n) \in Nat /\ PowerAtLeast(n) >= n
<1>1. PICK F : F = CHOOSE G : Doubles(G, n)
  OBVIOUS
<1>2. Doubles(F, n)
  BY <1>1, DoublesExists, Zenon
<1>3. \A b \in 0 .. n : F[b] \in Nat /\ F[b] > b
  BY <1>2, DoublesFacts
<1> DEFINE S == {b \in 0 .. n : F[b] >= n}
<1>4. n \in S /\ S \in SUBSET Nat
  BY <1>3
<1>5. PowerAtLeast(n) = F[Min(S)]
  BY <1>1, PowerIsChosen
<1>6. \A b \in S : F[b] \in Nat /\ F[b] >= n
  BY <1>3
<1> HIDE DEF S
<1>7. Min(S) \in S
  <2>1. \E b \in S : \A c \in S : b <= c
    BY <1>4, LeastElement
  <2> QED
    BY <2>1 DEF Min
<1> QED
  BY <1>5, <1>6, <1>7

-----------------------------------------------------------------------------
(* The gather of one group.                                                  *)

\* A tree of the partition.
TreeOK(t) == WellFormed(t) /\ \A h \in Halos : t.len[h] > 0

\* A record whose tangent is the one of its state; one that may be left to the
\* next snapshot.
Sound == {g \in GalaxyRecord : g.tangent = g.history}
Placed == {g \in Sound : g.type \in {0, 1}}

\* The galaxies of the halos of a tree between two snapshots.
OutOK(out) == out \in [Halos -> Seq(Placed)] /\ \A h \in Halos : Len(out[h]) <= 1

\* What the readers promise.
LEMMA LinksOfTree ==
    ASSUME NEW t, TreeOK(t)
    PROVE  /\ t.snap \in [Halos -> Nat] /\ t.progs \in [Halos -> Seq(Halos)]
           /\ t.fof \in [Halos -> Halos] /\ t.members \in [Halos -> Seq(Halos)]
           /\ t.len \in [Halos -> Nat] /\ \A h \in Halos : t.len[h] > 0
           /\ LinksGoBack(t) /\ GroupsAreChains(t) /\ GroupsEnd(t) /\ OneDescendant(t)
BY DEF TreeOK, WellFormed, Tree

\* The progenitors of a halo are halos, each once.
LEMMA LinksOfHalo ==
    ASSUME NEW t, TreeOK(t), NEW h \in Halos
    PROVE  /\ t.progs[h] \in Seq(Halos) /\ Len(t.progs[h]) \in Nat
           /\ DOMAIN t.progs[h] = 1 .. Len(t.progs[h])
           /\ \A n \in 1 .. Len(t.progs[h]) : t.progs[h][n] \in Halos
           /\ \A n, m \in 1 .. Len(t.progs[h]) : t.progs[h][n] = t.progs[h][m] => n = m
<1>1. t.progs[h] \in Seq(Halos)
  BY LinksOfTree
<1>2. /\ Len(t.progs[h]) \in Nat /\ DOMAIN t.progs[h] = 1 .. Len(t.progs[h])
      /\ \A n \in 1 .. Len(t.progs[h]) : t.progs[h][n] \in Halos
  BY <1>1, LenProperties, ElementOfSeq
<1>3. OneDescendant(t)
  BY LinksOfTree
<1> QED
  BY <1>1, <1>2, <1>3 DEF OneDescendant

\* A sequence of at most one element that is not empty.
LEMMA Alone ==
    ASSUME NEW S, NEW s \in Seq(S), Len(s) <= 1, s # <<>>
    PROVE  Len(s) = 1 /\ DOMAIN s = {1} /\ s[1] \in S /\ s = <<s[1]>>
<1>1. Len(s) \in Nat /\ Len(s) # 0 /\ s \in [1 .. Len(s) -> S]
  BY EmptySeq, LenProperties
<1>2. Len(s) = 1
  BY <1>1
<1>3. 1 .. 1 = {1}
  OBVIOUS
<1> QED
  BY <1>1, <1>2, <1>3

\* A halo holds one galaxy or none.
LEMMA HeldFacts ==
    ASSUME NEW out, OutOK(out), NEW h \in Halos, out[h] # <<>>
    PROVE  DOMAIN out[h] = {1} /\ out[h][1] \in Placed
BY Alone DEF OutOK

\* The host of the galaxies is a progenitor that has one, if any has.
LEMMA HostHolds ==
    ASSUME NEW t, TreeOK(t), NEW out, NEW h \in Halos, NEW q \in DOMAIN t.progs[h],
           out[t.progs[h][q]] # <<>>
    PROVE  \E c \in DOMAIN t.progs[h] : /\ FirstOccupied(t, out, h) = t.progs[h][c]
                                        /\ out[t.progs[h][c]] # <<>>
<1> DEFINE progs == t.progs[h]
           occupied == {n \in DOMAIN progs : out[progs[n]] # <<>> /\ t.len[progs[n]] > 0}
           weight == [n \in DOMAIN progs |-> t.len[progs[n]]]
           longest == {n \in occupied : \A m \in occupied : t.len[progs[m]] <= t.len[progs[n]]}
<1>1. /\ progs \in Seq(Halos) /\ Len(progs) \in Nat /\ DOMAIN progs = 1 .. Len(progs)
      /\ \A n \in 1 .. Len(progs) : progs[n] \in Halos
  BY LinksOfHalo
<1>2. t.len \in [Halos -> Nat] /\ \A p \in Halos : t.len[p] > 0
  BY LinksOfTree
<1>3. q \in occupied
  BY <1>1, <1>2
<1>4. FirstOccupied(t, out, h) =
        IF occupied = {} \/ out[progs[1]] # <<>> THEN progs[1]
        ELSE progs[CHOOSE n \in longest : \A m \in longest : n <= m]
  BY DEF FirstOccupied
<1>5. occupied \in SUBSET (1 .. Len(progs)) /\ \A n \in occupied : weight[n] \in Nat
  BY <1>1, <1>2
<1>6. PICK x \in occupied : \A y \in occupied : weight[y] <= weight[x]
  <2> HIDE DEF occupied, weight, longest, progs
  <2> QED
    BY <1>1, <1>3, <1>5, OneIsLargest
<1>7. x \in longest
  BY <1>6
<1>8. longest \in SUBSET Nat
  BY <1>1
<1>9. PICK c : c = CHOOSE n \in longest : \A m \in longest : n <= m
  OBVIOUS
<1>10. c \in longest
  <2> HIDE DEF longest
  <2>1. \E n \in longest : \A m \in longest : n <= m
    BY <1>7, <1>8, LeastElement
  <2> QED
    BY <1>9, <2>1
<1>11. c \in DOMAIN progs /\ out[progs[c]] # <<>>
  BY <1>10
<1>12. 1 \in DOMAIN progs
  BY <1>1
<1>13. FirstOccupied(t, out, h) = IF out[progs[1]] # <<>> THEN progs[1] ELSE progs[c]
  <2> HIDE DEF longest, occupied
  <2> QED
    BY <1>3, <1>4, <1>9
<1> HIDE DEF occupied, weight, longest
<1> QED
  BY <1>11, <1>12, <1>13

\* A galaxy after inheritance: it keeps its tangent.
LEMMA InheritedRecord ==
    ASSUME NEW t, NEW g \in Placed, NEW h \in Halos, NEW root, NEW main \in BOOLEAN
    PROVE  /\ Inherited(t, g, h, root, main) \in Sound
           /\ Inherited(t, g, h, root, main).halo = h
           /\ Inherited(t, g, h, root, main).type \in {0, 1, 2}
           /\ Inherited(t, g, h, root, main).type \in {0, 1} <=> main
           /\ main => (Inherited(t, g, h, root, main).type = 0 <=> h = root)
<1> DEFINE ty == IF g.type \in {2, 3} THEN g.type
                 ELSE IF ~main THEN 2
                 ELSE IF h = root THEN 0 ELSE 1
<1>1. Inherited(t, g, h, root, main) = [g EXCEPT !.halo = h, !.type = ty]
  BY DEF Inherited
<1>2. ty = IF ~main THEN 2 ELSE IF h = root THEN 0 ELSE 1
  <2>1. g.type \notin {2, 3}
    BY DEF Placed
  <2> QED
    BY <2>1
<1> HIDE DEF ty
<1>3. ty \in {0, 1, 2} /\ (ty \in {0, 1} <=> main) /\ (main => (ty = 0 <=> h = root))
  BY <1>2
<1>4. ty \in 0 .. 3
  BY <1>3
<1> DEFINE r == [g EXCEPT !.halo = h, !.type = ty]
<1>5. g \in GalaxyRecord /\ g.tangent = g.history
  BY DEF Placed, Sound
<1>6. r.halo = h /\ r.type = ty /\ r.tangent = g.tangent /\ r.history = g.history
  BY <1>5 DEF GalaxyRecord
<1>7. r \in GalaxyRecord
  BY <1>4, <1>5 DEF GalaxyRecord
<1> HIDE DEF r
<1>8. Inherited(t, g, h, root, main) = r /\ r \in Sound
  BY <1>1, <1>5, <1>6, <1>7 DEF r, Sound
<1> QED
  BY <1>3, <1>6, <1>8

\* A progenitor brings its one galaxy.
LEMMA BroughtAlone ==
    ASSUME NEW t, NEW out, OutOK(out), NEW h \in Halos, NEW p \in Halos, NEW root
    PROVE  /\ Brought(t, out, p, h, root) \in Seq(Sound)
           /\ out[p] = <<>> => Brought(t, out, p, h, root) = <<>>
           /\ out[p] # <<>> =>
                Brought(t, out, p, h, root)
                   = <<Inherited(t, out[p][1], h, root, p = FirstOccupied(t, out, h))>>
<1> DEFINE main == FirstOccupied(t, out, h)
           c == [n \in DOMAIN out[p] |-> Inherited(t, out[p][n], h, root, p = main)]
           K == {n \in DOMAIN c : c[n].type # 3}
           r == Kept(c, K)
<1>1. Brought(t, out, p, h, root) = r
  BY DEF Brought
<1>2. CASE out[p] = <<>>
  <2>1. DOMAIN out[p] = {}
    BY <1>2
  <2>2. c = <<>>
    BY <2>1
  <2>3. c \in Seq(Sound) /\ Len(c) = 0
    BY <2>2, EmptySeq
  <2> HIDE DEF c, K
  <2>4. PICK at : r \in Seq(Sound) /\ KeptAs(at, c, K, r)
    BY <2>3, KeptFacts
  <2>5. Len(r) \in Nat /\ at \in [1 .. Len(r) -> {}]
    BY <2>3, <2>4, LenProperties DEF KeptAs
  <2>6. 1 .. Len(r) = {}
    BY <2>5
  <2>7. Len(r) = 0
    BY <2>5, <2>6
  <2>8. r = <<>>
    BY <2>4, <2>7, EmptySeq
  <2> QED
    BY <1>1, <1>2, <2>4, <2>8
<1>3. CASE out[p] # <<>>
  <2>1. DOMAIN out[p] = {1} /\ out[p][1] \in Placed
    BY <1>3, HeldFacts
  <2> DEFINE g == Inherited(t, out[p][1], h, root, p = main)
  <2>2. g \in Sound /\ g.type # 3
    <3> DEFINE own == p = main
    <3>1. own \in BOOLEAN /\ g = Inherited(t, out[p][1], h, root, own)
      OBVIOUS
    <3> HIDE DEF own, g
    <3>2. g \in Sound /\ g.type \in {0, 1, 2}
      BY <2>1, <3>1, InheritedRecord
    <3> QED
      BY <3>2
  <2>3. c = [n \in {1} |-> g]
    BY <2>1
  <2>4. c = <<g>>
    BY <2>3
  <2> HIDE DEF g
  <2>5. c \in Seq(Sound) /\ Len(c) = 1 /\ c[1] = g
    BY <2>2, <2>4
  <2>6. 1 \in K
    BY <2>2, <2>4
  <2> HIDE DEF c, K
  <2>7. PICK at : r \in Seq(Sound) /\ KeptAs(at, c, K, r)
    BY <2>5, KeptFacts
  <2>8. PICK x \in 1 .. Len(r) : at[x] = 1
    BY <2>5, <2>6, <2>7 DEF KeptAs
  <2>9. \A y \in 1 .. Len(r) : at[y] \in 1 .. 1
    BY <2>5, <2>7 DEF KeptAs
  <2>10. \A y, z \in 1 .. Len(r) : y = z
    BY <2>7, <2>9 DEF KeptAs
  <2>11. Len(r) \in Nat
    BY <2>7, LenProperties
  <2>12. Len(r) <= 1 /\ r # <<>>
    <3>1. 1 \in 1 .. Len(r) /\ Len(r) \in 1 .. Len(r)
      BY <2>8, <2>11
    <3>2. Len(r) = 1
      BY <2>10, <3>1
    <3> QED
      BY <2>8, <3>2
  <2>13. r = <<r[1]>> /\ Len(r) = 1
    BY <2>7, <2>12, Alone
  <2>14. r[1] = g
    <3>1. 1 \in 1 .. Len(r)
      BY <2>13
    <3>2. at[1] \in 1 .. 1 /\ r[1] = c[at[1]]
      BY <2>7, <2>9, <3>1 DEF KeptAs
    <3> QED
      BY <2>5, <3>2
  <2> QED
    BY <1>1, <1>3, <2>7, <2>13, <2>14 DEF g
<1> QED
  BY <1>2, <1>3

\* Arrival x comes from progenitor place src[x], one from each that has a galaxy.
SourcedFrom(a, t, out, h, root, src) ==
    /\ src \in [1 .. Len(a) -> DOMAIN t.progs[h]]
    /\ \A x \in 1 .. Len(a) :
          LET p == t.progs[h][src[x]]
          IN  /\ out[p] # <<>>
              /\ a[x] = Inherited(t, out[p][1], h, root, p = FirstOccupied(t, out, h))
    /\ \A x, y \in 1 .. Len(a) : src[x] = src[y] => x = y
    /\ \A n \in DOMAIN t.progs[h] : out[t.progs[h][n]] # <<>> => \E x \in 1 .. Len(a) : src[x] = n

\* The arrivals are the galaxies of the progenitors, one by one.
LEMMA ArrivalsOneByOne ==
    ASSUME NEW t, TreeOK(t), NEW out, OutOK(out), NEW h \in Halos, NEW root
    PROVE  /\ Arrivals(t, out, h, root) \in Seq(Sound)
           /\ \E src : SourcedFrom(Arrivals(t, out, h, root), t, out, h, root, src)
<1> DEFINE progs == t.progs[h]
           b == [n \in DOMAIN progs |-> Brought(t, out, progs[n], h, root)]
           G(n) == Inherited(t, out[progs[n]][1], h, root, progs[n] = FirstOccupied(t, out, h))
<1>1. /\ progs \in Seq(Halos) /\ Len(progs) \in Nat /\ DOMAIN progs = 1 .. Len(progs)
      /\ \A n \in 1 .. Len(progs) : progs[n] \in Halos
  BY LinksOfHalo
<1>2. \A n \in 1 .. Len(progs) : b[n] = Brought(t, out, progs[n], h, root)
  BY <1>1
<1>3. b \in Seq(Seq(Sound)) /\ Len(b) = Len(progs)
  <2>1. b \in [1 .. Len(progs) -> Seq(Sound)]
    BY <1>1, BroughtAlone
  <2> QED
    BY <1>1, <2>1
<1>4. Arrivals(t, out, h, root) = FlattenSeq(b)
  BY DEF Arrivals
<1> HIDE DEF b
<1>5. ASSUME NEW n \in 1 .. Len(progs)
      PROVE  /\ Len(b[n]) <= 1
             /\ Len(b[n]) = 1 => out[progs[n]] # <<>> /\ b[n][1] = G(n)
             /\ out[progs[n]] # <<>> => b[n] # <<>>
  <2>1. progs[n] \in Halos
    BY <1>1
  <2>2. CASE out[progs[n]] = <<>>
    <3>1. b[n] = <<>>
      BY <1>2, <2>1, <2>2, BroughtAlone
    <3> QED
      BY <2>2, <3>1
  <2>3. CASE out[progs[n]] # <<>>
    <3>1. b[n] = <<G(n)>>
      BY <1>2, <2>1, <2>3, BroughtAlone
    <3> HIDE DEF G
    <3>2. Len(b[n]) = 1 /\ b[n][1] = G(n) /\ b[n] # <<>>
      BY <3>1
    <3> QED
      BY <2>3, <3>2
  <2> QED
    BY <2>2, <2>3
<1>6. \A n \in 1 .. Len(b) : Len(b[n]) <= 1
  BY <1>3, <1>5
<1> DEFINE a == FlattenSeq(b)
<1>7. PICK from : TakenFrom(from, b, a)
  BY <1>3, <1>6, FlattenOfSingles
<1> HIDE DEF a, G
<1>8. /\ from \in [1 .. Len(a) -> 1 .. Len(progs)]
      /\ \A x \in 1 .. Len(a) : Len(b[from[x]]) = 1 /\ a[x] = b[from[x]][1]
      /\ \A x, y \in 1 .. Len(a) : from[x] = from[y] => x = y
      /\ \A n \in 1 .. Len(progs) : b[n] # <<>> => \E x \in 1 .. Len(a) : from[x] = n
  BY <1>3, <1>7 DEF TakenFrom
<1>9. \A x \in 1 .. Len(a) : out[progs[from[x]]] # <<>> /\ a[x] = G(from[x])
  BY <1>5, <1>8
<1>10. SourcedFrom(a, t, out, h, root, from)
  BY <1>1, <1>5, <1>8, <1>9 DEF SourcedFrom, G
<1>11. a \in Seq(Sound)
  BY <1>3, FlattenIsSeq DEF a
<1> QED
  BY <1>4, <1>10, <1>11 DEF a

\* The slice of halo h of group root: its galaxies are in that halo, one of them
\* is its central, and the root has one.
SliceOK(a, h, root) ==
    /\ a \in Seq(Sound)
    /\ \A x \in 1 .. Len(a) : /\ a[x].halo = h /\ a[x].type \in {0, 1, 2}
                              /\ a[x].type = 0 => h = root
    /\ a # <<>> => \E c \in 1 .. Len(a) : LocalCentrals(a) = {c}
    /\ h = root => \E c \in 1 .. Len(a) : a[c].type = 0

\* What comes to a halo, when anything does, is a slice of the workspace.
LEMMA ArrivalsAreASlice ==
    ASSUME NEW t, TreeOK(t), NEW out, OutOK(out), NEW h \in Halos, NEW root,
           Arrivals(t, out, h, root) # <<>>
    PROVE  SliceOK(Arrivals(t, out, h, root), h, root)
<1> DEFINE a == Arrivals(t, out, h, root)
           host == FirstOccupied(t, out, h)
<1>1. a \in Seq(Sound) /\ Len(a) \in Nat /\ DOMAIN a = 1 .. Len(a) /\ Len(a) # 0
  BY ArrivalsOneByOne, LenProperties, EmptySeq
<1>2. PICK src : SourcedFrom(a, t, out, h, root, src)
  BY ArrivalsOneByOne
<1> HIDE DEF a
<1>0. /\ DOMAIN t.progs[h] = 1 .. Len(t.progs[h])
      /\ \A n \in 1 .. Len(t.progs[h]) : t.progs[h][n] \in Halos
      /\ \A n, m \in 1 .. Len(t.progs[h]) : t.progs[h][n] = t.progs[h][m] => n = m
  BY LinksOfHalo
<1>3. ASSUME NEW x \in 1 .. Len(a)
      PROVE  /\ src[x] \in DOMAIN t.progs[h] /\ out[t.progs[h][src[x]]] # <<>>
             /\ a[x].halo = h /\ a[x].type \in {0, 1, 2}
             /\ a[x].type \in {0, 1} <=> t.progs[h][src[x]] = host
             /\ t.progs[h][src[x]] = host => (a[x].type = 0 <=> h = root)
  <2> DEFINE p == t.progs[h][src[x]]
             main == p = host
  <2>1. /\ src[x] \in DOMAIN t.progs[h] /\ out[p] # <<>>
        /\ a[x] = Inherited(t, out[p][1], h, root, main)
    BY <1>2 DEF SourcedFrom
  <2>2. p \in Halos
    BY <1>0, <2>1
  <2>3. out[p][1] \in Placed /\ main \in BOOLEAN
    BY <2>1, <2>2, HeldFacts
  <2>4. main <=> p = host
    OBVIOUS
  <2> HIDE DEF main, host
  <2>5. /\ a[x].halo = h /\ a[x].type \in {0, 1, 2}
        /\ a[x].type \in {0, 1} <=> main
        /\ main => (a[x].type = 0 <=> h = root)
    BY <2>1, <2>3, InheritedRecord
  <2> QED
    BY <2>1, <2>4, <2>5
<1>4. 1 \in 1 .. Len(a)
  BY <1>1
<1>5. PICK v \in DOMAIN t.progs[h] : host = t.progs[h][v] /\ out[t.progs[h][v]] # <<>>
  BY <1>3, <1>4, HostHolds
<1> HIDE DEF host
<1>6. PICK c \in 1 .. Len(a) : src[c] = v
  BY <1>2, <1>5 DEF SourcedFrom
<1>7. \A x \in 1 .. Len(a) : t.progs[h][src[x]] = host <=> x = c
  BY <1>0, <1>2, <1>3, <1>5, <1>6 DEF SourcedFrom
<1>8. \A x \in 1 .. Len(a) : a[x].type \in {0, 1} <=> x = c
  BY <1>3, <1>7
<1>9. LocalCentrals(a) = {c}
  BY <1>1, <1>8 DEF LocalCentrals
<1>10. \A x \in 1 .. Len(a) : a[x].type = 0 => h = root
  BY <1>3
<1>11. h = root => a[c].type = 0
  BY <1>3, <1>7
<1> QED
  BY <1>1, <1>3, <1>9, <1>10, <1>11 DEF SliceOK, a

\* Every slice is one: a root whose progenitors have no galaxies gets a new one.
LEMMA SlicesOK ==
    ASSUME NEW t, TreeOK(t), NEW out, OutOK(out), NEW h \in Halos, NEW root
    PROVE  SliceOK(Slice(t, out, h, root), h, root)
<1>1. CASE Arrivals(t, out, h, root) # <<>>
  BY <1>1, ArrivalsAreASlice DEF Slice
<1>2. CASE Arrivals(t, out, h, root) = <<>> /\ h # root
  <2>1. Slice(t, out, h, root) = <<>>
    BY <1>2 DEF Slice
  <2> QED
    BY <1>2, <2>1 DEF SliceOK
<1>3. CASE Arrivals(t, out, h, root) = <<>> /\ h = root
  <2> DEFINE g == NewCentral(t, h)
             a == <<g>>
  <2>1. Slice(t, out, h, root) = a
    BY <1>3 DEF Slice
  <2>2. t.snap[h] \in Nat
    BY LinksOfTree
  <2>3. g \in GalaxyRecord /\ g.halo = h /\ g.type = 0 /\ g.tangent = g.history
    BY <2>2 DEF GalaxyRecord, NewCentral
  <2> HIDE DEF g
  <2>4. a \in Seq(Sound) /\ Len(a) = 1 /\ a[1] = g /\ DOMAIN a = {1}
    BY <2>3 DEF Sound
  <2> HIDE DEF a
  <2>5. LocalCentrals(a) = {1}
    BY <2>3, <2>4 DEF LocalCentrals
  <2>6. 1 \in 1 .. Len(a) /\ \A x \in 1 .. Len(a) : x = 1
    BY <2>4
  <2> QED
    BY <1>3, <2>1, <2>3, <2>4, <2>5, <2>6 DEF SliceOK
<1> QED
  BY <1>1, <1>2, <1>3

\* The chain of a group: its root first, no halo twice.
LEMMA ChainOfGroup ==
    ASSUME NEW t, TreeOK(t), NEW root \in Fofs(t)
    PROVE  /\ root \in Halos /\ t.fof[root] = root
           /\ t.members[root] \in Seq(Halos) /\ Len(t.members[root]) \in Nat
           /\ DOMAIN t.members[root] = 1 .. Len(t.members[root])
           /\ 1 \in 1 .. Len(t.members[root]) /\ t.members[root][1] = root
           /\ \A m \in 1 .. Len(t.members[root]) :
                 /\ t.members[root][m] \in Halos /\ t.members[root][m] \in MembersOf(t, root)
                 /\ t.snap[t.members[root][m]] = t.snap[root]
           /\ \A m, n \in 1 .. Len(t.members[root]) :
                 t.members[root][m] = t.members[root][n] => m = n
<1>1. PICK h \in Halos : root = t.fof[h]
  BY DEF Fofs
<1>2. root \in Halos /\ GroupsAreChains(t) /\ GroupsEnd(t)
  BY <1>1, LinksOfTree
<1>3. t.members[root] \in Seq(Halos) /\ t.members[root] # <<>>
  BY <1>1, <1>2, LinksOfTree DEF GroupsAreChains
<1>4. /\ Len(t.members[root]) \in Nat /\ Len(t.members[root]) # 0
      /\ DOMAIN t.members[root] = 1 .. Len(t.members[root])
      /\ \A m \in 1 .. Len(t.members[root]) : t.members[root][m] \in Halos
  BY <1>3, LenProperties, EmptySeq, ElementOfSeq
<1>5. 1 \in 1 .. Len(t.members[root])
  BY <1>4
<1>6. /\ t.members[root][1] = root
      /\ \A m \in DOMAIN t.members[root] : /\ t.fof[t.members[root][m]] = root
                                           /\ t.snap[t.members[root][m]] = t.snap[h]
  BY <1>1, <1>2 DEF GroupsAreChains
<1>7. t.fof[root] = root /\ t.snap[root] = t.snap[h]
  BY <1>4, <1>5, <1>6
<1>8. \A m \in 1 .. Len(t.members[root]) : t.members[root][m] \in MembersOf(t, root)
  BY <1>4 DEF MembersOf
<1>9. \A m, n \in 1 .. Len(t.members[root]) : t.members[root][m] = t.members[root][n] => m = n
  BY <1>2, <1>4 DEF GroupsEnd
<1> QED
  BY <1>2, <1>3, <1>4, <1>5, <1>6, <1>7, <1>8, <1>9

\* Links change nothing else.
LEMMA LinkedRecords ==
    ASSUME NEW a, NEW h, NEW root, SliceOK(a, h, root), NEW b \in Nat
    PROVE  /\ Linked(a, b) \in Seq(Sound) /\ Len(Linked(a, b)) = Len(a)
           /\ \A x \in 1 .. Len(a) : /\ Linked(a, b)[x].type = a[x].type
                                     /\ Linked(a, b)[x].halo = a[x].halo
                                     /\ Linked(a, b)[x].history = a[x].tangent
<1> DEFINE cc == CHOOSE c \in LocalCentrals(a) : TRUE
           r == [x \in DOMAIN a |-> [a[x] EXCEPT !.central = b + cc]]
<1>1. a \in Seq(Sound) /\ Len(a) \in Nat /\ DOMAIN a = 1 .. Len(a)
      /\ \A x \in 1 .. Len(a) : a[x] \in Sound
  BY LenProperties, ElementOfSeq DEF SliceOK
<1>2. Linked(a, b) = r
  BY DEF Linked
<1>3. ASSUME NEW x \in 1 .. Len(a)
      PROVE  cc \in 1 .. Len(a)
  <2>1. a # <<>>
    BY <1>1, <1>3
  <2>2. PICK c \in 1 .. Len(a) : LocalCentrals(a) = {c}
    BY <2>1 DEF SliceOK
  <2> QED
    BY <2>2
<1> HIDE DEF cc
<1>4. ASSUME NEW x \in 1 .. Len(a)
      PROVE  /\ r[x] \in Sound /\ r[x].type = a[x].type /\ r[x].halo = a[x].halo
             /\ r[x].history = a[x].tangent
  <2> DEFINE c == b + cc
             g == a[x]
             v == [g EXCEPT !.central = c]
  <2>1. c \in Nat /\ g \in GalaxyRecord /\ g.tangent = g.history
    BY <1>1, <1>3 DEF Sound
  <2>2. r[x] = v
    BY <1>1
  <2> HIDE DEF c, g, r
  <2>3. /\ v.type = g.type /\ v.halo = g.halo
        /\ v.history = g.history /\ v.tangent = g.tangent
    BY <2>1 DEF GalaxyRecord
  <2>4. v \in GalaxyRecord
    BY <2>1 DEF GalaxyRecord
  <2> HIDE DEF v
  <2>5. v \in Sound /\ v.history = g.tangent
    BY <2>1, <2>3, <2>4 DEF Sound
  <2> QED
    BY <2>2, <2>3, <2>5 DEF g
<1>5. r \in [1 .. Len(a) -> Sound]
  <2>1. r = [x \in 1 .. Len(a) |-> r[x]]
    BY <1>1
  <2> HIDE DEF r
  <2> QED
    BY <1>4, <2>1
<1> HIDE DEF r
<1>6. r \in Seq(Sound) /\ Len(r) = Len(a)
  BY <1>1, <1>5
<1> QED
  BY <1>2, <1>4, <1>6

\* The tangents beside the states are those of the states.
Beside(tangents, states) ==
    /\ tangents \in Seq(SUBSET Halos) /\ Len(tangents) = Len(states)
    /\ \A x \in 1 .. Len(states) : tangents[x] = states[x].history

\* A segment is the place of a halo, with at most one central.
SegmentOK(seg, states) ==
    /\ seg[1] \in Halos /\ seg[2] \in Nat \ {0} /\ seg[3] \in 0 .. Len(states)
    /\ \A x, y \in seg[2] .. seg[3] :
          states[x].type \in {0, 1} /\ states[y].type \in {0, 1} => x = y

\* A gathered group.
TaskOK(task) ==
    /\ task = [w |-> task.w, root |-> task.root, states |-> task.states,
               tangents |-> task.tangents, segments |-> task.segments]
    /\ task.states \in Seq(Sound)
    /\ Beside(task.tangents, task.states)
    /\ task.segments \in Seq(Halos \X Nat \X Nat)
    /\ \A n \in DOMAIN task.segments : SegmentOK(task.segments[n], task.states)

\* Its one Type 0 is that of its root.
Rooted(states, root) ==
    \E z \in 1 .. Len(states) : /\ {x \in 1 .. Len(states) : states[x].type = 0} = {z}
                                /\ states[z].halo = root

\* What _prepare_group() gathers.
LEMMA TaskIsOK ==
    ASSUME NEW t, TreeOK(t), NEW out, OutOK(out), NEW root \in Fofs(t), NEW w
    PROVE  /\ TaskOK(Task(w, t, out, root)) /\ Rooted(Task(w, t, out, root).states, root)
           /\ Task(w, t, out, root).w = w /\ Task(w, t, out, root).root = root
<1> DEFINE members == t.members[root]
           slices == [m \in DOMAIN members |-> Slice(t, out, members[m], root)]
           start == [m \in DOMAIN slices |-> Len(FlattenSeq(SubSeq(slices, 1, m - 1)))]
           linked == [m \in DOMAIN slices |-> Linked(slices[m], start[m])]
           beside == [m \in DOMAIN slices |-> [n \in DOMAIN slices[m] |-> slices[m][n].tangent]]
           segments == [m \in DOMAIN slices |->
                           <<members[m], start[m] + 1, start[m] + Len(slices[m])>>]
           states == FlattenSeq(linked)
           tangents == FlattenSeq(beside)
           task == [w |-> w, root |-> root, states |-> states, tangents |-> tangents,
                    segments |-> segments]
<1>1. Task(w, t, out, root) = task
  BY DEF Task
<1>2. /\ Len(members) \in Nat /\ DOMAIN members = 1 .. Len(members)
      /\ 1 \in 1 .. Len(members) /\ members[1] = root
      /\ \A m \in 1 .. Len(members) : members[m] \in Halos
      /\ \A m, n \in 1 .. Len(members) : members[m] = members[n] => m = n
  BY ChainOfGroup
<1> HIDE DEF members
<1>3. ASSUME NEW m \in 1 .. Len(members)
      PROVE  /\ SliceOK(slices[m], members[m], root)
             /\ slices[m] \in Seq(Sound) /\ Len(slices[m]) \in Nat
             /\ DOMAIN slices[m] = 1 .. Len(slices[m])
             /\ \A n \in 1 .. Len(slices[m]) : slices[m][n] \in Sound
  <2>1. slices[m] = Slice(t, out, members[m], root)
    BY <1>2
  <2>2. SliceOK(slices[m], members[m], root)
    BY <1>2, <2>1, SlicesOK
  <2>3. slices[m] \in Seq(Sound)
    BY <2>2 DEF SliceOK
  <2> QED
    BY <2>2, <2>3, LenProperties, ElementOfSeq
<1>4. slices \in Seq(Seq(Sound)) /\ Len(slices) = Len(members) /\ DOMAIN slices = 1 .. Len(members)
  <2>1. slices = [m \in 1 .. Len(members) |-> slices[m]]
    BY <1>2
  <2> HIDE DEF slices
  <2>2. slices \in [1 .. Len(members) -> Seq(Sound)]
    BY <1>3, <2>1
  <2> QED
    BY <1>2, <2>2
<1> HIDE DEF slices
<1>5. PICK o : Offsets(o, slices)
  BY <1>4, FlattenLaysOut DEF LaidOut
<1>6. ASSUME NEW m \in 1 .. Len(members)
      PROVE  start[m] = o[m - 1] /\ o[m - 1] \in Nat /\ o[m] \in Nat
             /\ o[m] = o[m - 1] + Len(slices[m])
  <2>1. start[m] = Len(FlattenSeq(SubSeq(slices, 1, m - 1)))
    BY <1>4
  <2>2. m - 1 \in 0 .. Len(slices) /\ m \in 1 .. Len(slices) /\ m \in 0 .. Len(slices)
    BY <1>2, <1>4
  <2>3. start[m] = o[m - 1]
    BY <1>4, <1>5, <2>1, <2>2, LengthBefore
  <2> QED
    BY <1>5, <2>2, <2>3 DEF Offsets
<1> HIDE DEF start
<1>7. ASSUME NEW m \in 1 .. Len(members)
      PROVE  /\ linked[m] \in Seq(Sound) /\ Len(linked[m]) = Len(slices[m])
             /\ \A x \in 1 .. Len(slices[m]) : /\ linked[m][x].type = slices[m][x].type
                                               /\ linked[m][x].halo = slices[m][x].halo
                                               /\ linked[m][x].history = slices[m][x].tangent
  <2>1. linked[m] = Linked(slices[m], start[m]) /\ start[m] \in Nat
    BY <1>4, <1>6
  <2> HIDE DEF linked
  <2>2. PICK b \in Nat : b = start[m]
    BY <2>1
  <2>6. PICK a : a = slices[m]
    OBVIOUS
  <2>3. SliceOK(a, members[m], root)
    BY <1>3, <2>6
  <2>4. linked[m] = Linked(a, b)
    BY <2>1, <2>2, <2>6
  <2>5. /\ Linked(a, b) \in Seq(Sound) /\ Len(Linked(a, b)) = Len(a)
        /\ \A x \in 1 .. Len(a) : /\ Linked(a, b)[x].type = a[x].type
                                  /\ Linked(a, b)[x].halo = a[x].halo
                                  /\ Linked(a, b)[x].history = a[x].tangent
    BY <2>3, LinkedRecords
  <2> QED
    BY <2>4, <2>5, <2>6, Zenon
<1>8. linked \in Seq(Seq(Sound)) /\ Len(linked) = Len(members)
  <2>1. linked = [m \in 1 .. Len(members) |-> linked[m]]
    BY <1>4
  <2> HIDE DEF linked
  <2>2. linked \in [1 .. Len(members) -> Seq(Sound)]
    BY <1>7, <2>1
  <2> QED
    BY <1>2, <2>2
<1> HIDE DEF linked
<1>9. ASSUME NEW m \in 1 .. Len(members)
      PROVE  /\ beside[m] \in Seq(SUBSET Halos) /\ Len(beside[m]) = Len(slices[m])
             /\ \A x \in 1 .. Len(slices[m]) : beside[m][x] = slices[m][x].tangent
  <2> DEFINE u == [n \in 1 .. Len(slices[m]) |-> slices[m][n].tangent]
  <2>1. beside[m] = u
    BY <1>3, <1>4
  <2> HIDE DEF beside
  <2>2. \A n \in 1 .. Len(slices[m]) : slices[m][n].tangent \in SUBSET Halos
    BY <1>3 DEF Sound, GalaxyRecord
  <2>3. u \in [1 .. Len(slices[m]) -> SUBSET Halos]
    BY <2>2
  <2>4. \A n \in 1 .. Len(slices[m]) : u[n] = slices[m][n].tangent
    OBVIOUS
  <2> HIDE DEF u
  <2>5. u \in Seq(SUBSET Halos) /\ Len(u) = Len(slices[m])
    <3>1. PICK c \in Nat : c = Len(slices[m])
      BY <1>3
    <3>2. u \in [1 .. c -> SUBSET Halos]
      BY <2>3, <3>1, Zenon
    <3>3. u \in Seq(SUBSET Halos) /\ Len(u) = c
      BY <3>2
    <3> QED
      BY <3>1, <3>3
  <2> QED
    BY <2>1, <2>4, <2>5
<1>10. beside \in Seq(Seq(SUBSET Halos)) /\ Len(beside) = Len(members)
  <2>1. beside = [m \in 1 .. Len(members) |-> beside[m]]
    BY <1>4
  <2> HIDE DEF beside
  <2>2. beside \in [1 .. Len(members) -> Seq(SUBSET Halos)]
    BY <1>9, <2>1
  <2> QED
    BY <1>2, <2>2
<1> HIDE DEF beside
<1>11. LaidOut(o, linked, states) /\ LaidOut(o, beside, tangents)
  <2>1. Offsets(o, linked) /\ Offsets(o, beside)
    BY <1>4, <1>5, <1>7, <1>8, <1>9, <1>10, OffsetsOfOther
  <2> QED
    BY <1>8, <1>10, <2>1, LaidOutBy
<1>12. states \in Seq(Sound) /\ tangents \in Seq(SUBSET Halos)
  BY <1>8, <1>10, FlattenIsSeq
<1> HIDE DEF states, tangents
<1>13. Len(states) = o[Len(members)] /\ Len(tangents) = Len(states) /\ Len(states) \in Nat
  BY <1>8, <1>10, <1>11, <1>12, LenProperties DEF LaidOut
<1> DEFINE At(x, m, j) == m \in 1 .. Len(members) /\ j \in 1 .. Len(slices[m]) /\ x = o[m - 1] + j
<1>14. ASSUME NEW x \in 1 .. Len(states)
       PROVE  \E m, j : At(x, m, j)
  <2>1. PICK m \in 1 .. Len(linked) : \E j \in 1 .. Len(linked[m]) : x = o[m - 1] + j
    <3>1. LaidDown(o, linked, x)
      BY <1>8, <1>11, EveryPositionIsPlaced
    <3> QED
      BY <3>1 DEF LaidDown
  <2>2. m \in 1 .. Len(members) /\ Len(linked[m]) = Len(slices[m])
    BY <1>7, <1>8, <2>1
  <2> QED
    BY <2>1, <2>2
<1>15. ASSUME NEW x, NEW m, NEW j, At(x, m, j)
       PROVE  /\ x \in 1 .. Len(states)
              /\ states[x].type = slices[m][j].type
              /\ states[x].halo = slices[m][j].halo
              /\ tangents[x] = states[x].history
  <2>1. m \in 1 .. Len(linked) /\ j \in 1 .. Len(linked[m]) /\ x = o[m - 1] + j
        /\ m \in 1 .. Len(beside) /\ j \in 1 .. Len(beside[m])
    BY <1>7, <1>8, <1>9, <1>10, <1>15
  <2>2. x \in 1 .. Len(states) /\ states[x] = linked[m][j] /\ tangents[x] = beside[m][j]
    BY <1>11, <2>1 DEF LaidOut
  <2> QED
    BY <1>7, <1>9, <1>15, <2>2
<1>16. Beside(tangents, states)
  <2>1. \A x \in 1 .. Len(states) : tangents[x] = states[x].history
    BY <1>14, <1>15
  <2> QED
    BY <1>12, <1>13, <2>1 DEF Beside
<1>17. ASSUME NEW m \in 1 .. Len(members), NEW x \in 1 .. Len(slices[m]), NEW y \in 1 .. Len(slices[m]),
              slices[m][x].type \in {0, 1}, slices[m][y].type \in {0, 1}
       PROVE  x = y
  <2>1. slices[m] # <<>>
    BY <1>3, <1>17
  <2>2. PICK c : LocalCentrals(slices[m]) = {c}
    BY <1>3, <2>1 DEF SliceOK
  <2>3. x \in LocalCentrals(slices[m]) /\ y \in LocalCentrals(slices[m])
    BY <1>3, <1>17 DEF LocalCentrals
  <2> QED
    BY <2>2, <2>3
<1>18. ASSUME NEW m \in 1 .. Len(members)
       PROVE  SegmentOK(segments[m], states)
  <2>1. segments[m] = <<members[m], start[m] + 1, start[m] + Len(slices[m])>>
    BY <1>4
  <2> HIDE DEF segments
  <2>2. PICK b \in Nat, c \in Nat : b = o[m - 1] /\ c = Len(slices[m]) /\ b = start[m] /\ o[m] = b + c
    BY <1>3, <1>6
  <2>3. segments[m] = <<members[m], b + 1, b + c>>
    BY <2>1, <2>2
  <2>4. segments[m][1] = members[m] /\ segments[m][2] = b + 1 /\ segments[m][3] = b + c
    BY <2>3
  <2>5. b + c <= Len(states)
    <3>1. m \in 0 .. Len(slices) /\ Len(members) \in 0 .. Len(slices) /\ m <= Len(members)
      BY <1>2, <1>4
    <3>2. o[m] <= o[Len(members)]
      BY <1>4, <1>5, <3>1, OffsetsRise
    <3> QED
      BY <1>13, <2>2, <3>2
  <2>6. ASSUME NEW x \in b + 1 .. b + c, NEW y \in b + 1 .. b + c,
               states[x].type \in {0, 1}, states[y].type \in {0, 1}
        PROVE  x = y
    <3>1. x - b \in 1 .. c /\ y - b \in 1 .. c /\ x = b + (x - b) /\ y = b + (y - b)
      OBVIOUS
    <3>2. PICK i \in 1 .. c, j \in 1 .. c : x = b + i /\ y = b + j
      BY <3>1
    <3>3. At(x, m, i) /\ At(y, m, j)
      BY <2>2, <3>2
    <3>4. slices[m][i].type \in {0, 1} /\ slices[m][j].type \in {0, 1}
      <4> HIDE DEF At
      <4>1. states[x].type = slices[m][i].type /\ states[y].type = slices[m][j].type
        BY <1>15, <3>3
      <4> QED
        BY <2>6, <4>1
    <3>5. i \in 1 .. Len(slices[m]) /\ j \in 1 .. Len(slices[m])
      BY <2>2
    <3>6. i = j
      BY <1>17, <3>4, <3>5
    <3> QED
      BY <3>2, <3>6
  <2>7. b + 1 \in Nat \ {0} /\ b + c \in 0 .. Len(states)
    BY <1>13, <2>5
  <2> QED
    BY <1>2, <2>4, <2>6, <2>7 DEF SegmentOK
<1>19. segments \in Seq(Halos \X Nat \X Nat) /\ DOMAIN segments = 1 .. Len(members)
  <2>1. segments = [m \in 1 .. Len(members) |-> segments[m]]
    BY <1>2, <1>4
  <2>2. ASSUME NEW m \in 1 .. Len(members)
        PROVE  segments[m] \in Halos \X Nat \X Nat
    <3>1. PICK b \in Nat, c \in Nat : b = start[m] /\ c = Len(slices[m])
      BY <1>3, <1>6
    <3>2. segments[m] = <<members[m], b + 1, b + c>>
      BY <1>4, <3>1
    <3> HIDE DEF segments
    <3> QED
      BY <1>2, <3>2
  <2> HIDE DEF segments
  <2>3. PICK c \in Nat : c = Len(members)
    BY <1>2
  <2>4. segments \in [1 .. c -> Halos \X Nat \X Nat]
    BY <2>1, <2>2, <2>3
  <2> QED
    BY <1>2, <2>3, <2>4
<1>20. Rooted(states, root)
  <2>1. PICK c \in 1 .. Len(slices[1]) : slices[1][c].type = 0
    BY <1>2, <1>3 DEF SliceOK
  <2> DEFINE z == o[0] + c
  <2>2. At(z, 1, c)
    <3>1. 1 - 1 = 0
      OBVIOUS
    <3> QED
      BY <1>2, <3>1
  <2> HIDE DEF z
  <2>3. z \in 1 .. Len(states) /\ states[z].type = 0 /\ states[z].halo = root
    <3>1. slices[1][c].halo = root
      BY <1>2, <1>3 DEF SliceOK
    <3> QED
      BY <1>15, <2>1, <2>2, <3>1
  <2>4. ASSUME NEW x \in 1 .. Len(states), states[x].type = 0
        PROVE  x = z
    <3>1. PICK m, j : At(x, m, j)
      BY <1>14
    <3>2. slices[m][j].type = 0 /\ m \in 1 .. Len(members) /\ j \in 1 .. Len(slices[m])
      <4>1. m \in 1 .. Len(members) /\ j \in 1 .. Len(slices[m])
        BY <3>1
      <4> HIDE DEF At
      <4>2. states[x].type = slices[m][j].type
        BY <1>15, <3>1
      <4> QED
        BY <2>4, <4>1, <4>2
    <3>3. members[m] = root
      BY <1>3, <3>2 DEF SliceOK
    <3>4. m = 1
      BY <1>2, <3>2, <3>3
    <3>5. j = c
      BY <1>17, <2>1, <3>2, <3>4
    <3> QED
      BY <2>2, <3>1, <3>4, <3>5
  <2> QED
    BY <2>3, <2>4 DEF Rooted
<1> HIDE DEF segments, At
<1>21. TaskOK(task)
  BY <1>12, <1>16, <1>18, <1>19 DEF TaskOK
<1> QED
  BY <1>1, <1>20, <1>21

\* No ValueError stops the gather.
LEMMA NothingRaises ==
    ASSUME NEW t, TreeOK(t), NEW out, OutOK(out), NEW root \in Fofs(t)
    PROVE  ~Raises(t, out, root)
<1>1. ASSUME NEW h \in MembersOf(t, root), Slice(t, out, h, root) # <<>>
      PROVE  Cardinality(LocalCentrals(Slice(t, out, h, root))) = 1
  <2>1. h \in Halos
    BY ChainOfGroup DEF MembersOf
  <2>2. PICK a : a = Slice(t, out, h, root)
    OBVIOUS
  <2>3. SliceOK(a, h, root) /\ a # <<>>
    BY <1>1, <2>1, <2>2, SlicesOK
  <2>4. PICK c : LocalCentrals(a) = {c}
    BY <2>3 DEF SliceOK
  <2> QED
    BY <2>2, <2>4, FS_Singleton
<1> DEFINE states == Task(1, t, out, root).states
           zeros == {x \in DOMAIN states : states[x].type = 0}
<1>2. TaskOK(Task(1, t, out, root)) /\ Rooted(states, root)
  BY TaskIsOK
<1>3. states \in Seq(Sound)
  BY <1>2 DEF TaskOK
<1> HIDE DEF states
<1>4. DOMAIN states = 1 .. Len(states)
  BY <1>3, LenProperties
<1>5. PICK z : zeros = {z} /\ states[z].halo = root
  BY <1>2, <1>4 DEF Rooted
<1> HIDE DEF zeros
<1>6. Cardinality(zeros) = 1 /\ \A x \in zeros : states[x].halo = root
  BY <1>5, FS_Singleton
<1> QED
  BY <1>1, <1>6 DEF Raises, states, zeros

-----------------------------------------------------------------------------
(* The kernel.                                                               *)

\* The slots are galaxies that are gone.
LEMMA SlotFacts ==
    ASSUME NEW task, task.states \in Seq(Sound), NEW root \in Halos
    PROVE  Slot(task) \in Sound /\ Slot(task).type = 3 /\ Slot(task).history = {}
<1> DEFINE s == task.states
           I == {x \in 1 .. Len(s) : s[x].type = 0}
           c == IF I # {} THEN Min(I) ELSE 0
           g == Slot(task)
<1>1. SelectInSeq(task.states, LAMBDA r : r.type = 0) = c
  BY DEF SelectInSeq
<1>2. g = [id |-> 0, halo |-> 0, type |-> 3, snap |-> -1, history |-> {}, tangent |-> {},
           central |-> c]
  BY <1>1 DEF Slot
<1>3. Len(s) \in Nat
  BY LenProperties
<1>4. c \in Nat
  <2>1. CASE I # {}
    <3>1. I \in SUBSET Nat
      BY <1>3
    <3> HIDE DEF I
    <3>2. \E x \in I : \A y \in I : x <= y
      BY <2>1, <3>1, LeastElement
    <3>3. Min(I) \in I
      BY <3>2 DEF Min
    <3> QED
      BY <2>1, <3>1, <3>3
  <2>2. CASE I = {}
    BY <2>2
  <2> QED
    BY <2>1, <2>2
<1>5. 0 \in Halos
  BY NumHalosAssumption DEF Halos
<1> HIDE DEF c, g
<1>6. g \in GalaxyRecord /\ g.type = 3 /\ g.history = {} /\ g.tangent = {}
  BY <1>2, <1>4, <1>5 DEF GalaxyRecord
<1> QED
  BY <1>6 DEF g, Sound

\* A group's members are those of another and nothing live more.
Extends(p, task) ==
    /\ p.states \in Seq(Sound) /\ Beside(p.tangents, p.states)
    /\ Len(task.states) <= Len(p.states)
    /\ \A x \in 1 .. Len(task.states) : p.states[x] = task.states[x]
    /\ p.w = task.w /\ p.root = task.root

\* The slots are padded behind the members, in both arrays.
LEMMA PaddedFacts ==
    ASSUME NEW task, TaskOK(task), NEW root \in Halos, NEW count \in Nat
    PROVE  Extends(PaddedTo(task, count), task)
<1> DEFINE s == task.states
           d == task.tangents
           more == count - Len(s)
           sp == [n \in 1 .. more |-> Slot(task)]
           dp == [n \in 1 .. more |-> {}]
           p == PaddedTo(task, count)
<1>1. s \in Seq(Sound) /\ d \in Seq(SUBSET Halos) /\ Len(d) = Len(s) /\ Len(s) \in Nat
      /\ \A x \in 1 .. Len(s) : d[x] = s[x].history
  BY LenProperties DEF TaskOK, Beside
<1>2. PICK e \in Nat : 1 .. more = 1 .. e
  <2>1. CASE more < 0
    <3>1. 1 .. more = 1 .. 0
      BY <1>1, <2>1
    <3> QED
      BY <3>1
  <2>2. CASE ~(more < 0)
    <3>1. more \in Nat
      BY <1>1, <2>2
    <3> QED
      BY <3>1
  <2> QED
    BY <2>1, <2>2
<1>3. sp \in Seq(Sound) /\ dp \in Seq(SUBSET Halos) /\ Len(sp) = e /\ Len(dp) = e
      /\ \A n \in 1 .. e : sp[n].history = {} /\ dp[n] = {}
  <2>1. Slot(task) \in Sound /\ Slot(task).history = {}
    BY <1>1, SlotFacts
  <2>2. sp = [n \in 1 .. e |-> Slot(task)] /\ dp = [n \in 1 .. e |-> {}]
    BY <1>2
  <2> HIDE DEF sp, dp, more, s, d
  <2>3. sp \in [1 .. e -> Sound] /\ dp \in [1 .. e -> SUBSET Halos]
    BY <2>1, <2>2
  <2>4. \A n \in 1 .. e : sp[n] = Slot(task) /\ dp[n] = {}
    BY <2>2
  <2>5. sp \in Seq(Sound) /\ dp \in Seq(SUBSET Halos) /\ Len(sp) = e /\ Len(dp) = e
    BY <2>3
  <2> QED
    BY <2>1, <2>4, <2>5
<1>4. p.states = s \o sp /\ p.tangents = d \o dp /\ p.w = task.w /\ p.root = task.root
  <2> DEFINE u == s \o sp
             v == d \o dp
  <2>1. p = [task EXCEPT !.states = u, !.tangents = v]
    BY DEF PaddedTo
  <2> HIDE DEF u, v, p
  <2>3. task = [w |-> task.w, root |-> task.root, states |-> task.states,
                tangents |-> task.tangents, segments |-> task.segments]
    BY DEF TaskOK
  <2>2. p.states = u /\ p.tangents = v /\ p.w = task.w /\ p.root = task.root
    BY <2>1, <2>3
  <2> QED
    BY <2>2 DEF u, v
<1> HIDE DEF sp, dp, p, more, s, d
<1>9. Joins(p.states, s, sp, Sound) /\ Joins(p.tangents, d, dp, SUBSET Halos)
  BY <1>1, <1>3, <1>4, ConcatJoins, Zenon
<1>5. /\ p.states \in Seq(Sound) /\ Len(p.states) = Len(s) + e
      /\ \A n \in 1 .. Len(s) : p.states[n] = s[n]
      /\ \A n \in 1 .. e : p.states[Len(s) + n] = sp[n]
  BY <1>3, <1>9 DEF Joins
<1>6. /\ p.tangents \in Seq(SUBSET Halos) /\ Len(p.tangents) = Len(s) + e
      /\ \A n \in 1 .. Len(s) : p.tangents[n] = d[n]
      /\ \A n \in 1 .. e : p.tangents[Len(s) + n] = dp[n]
  BY <1>1, <1>3, <1>9 DEF Joins
<1>7. ASSUME NEW x \in 1 .. Len(s) + e
      PROVE  p.tangents[x] = p.states[x].history
  <2>1. CASE x <= Len(s)
    <3>1. x \in 1 .. Len(s)
      BY <1>1, <2>1
    <3> QED
      BY <1>1, <1>5, <1>6, <3>1
  <2>2. CASE ~(x <= Len(s))
    <3>1. x - Len(s) \in 1 .. e /\ x = Len(s) + (x - Len(s))
      BY <1>1, <2>2
    <3>2. PICK n \in 1 .. e : x = Len(s) + n
      BY <3>1
    <3> QED
      BY <1>3, <1>5, <1>6, <3>2
  <2> QED
    BY <2>1, <2>2
<1>8. Len(s) <= Len(s) + e
  BY <1>1
<1> QED
  BY <1>4, <1>5, <1>6, <1>7, <1>8 DEF Extends, Beside, s, p

\* What the kernel leaves of a group: the tangents beside the states, and nothing
\* live but what was live as a central.
LEMMA KernelFacts ==
    ASSUME NEW states, NEW tangents, states \in Seq(Sound), Beside(tangents, states),
           NEW root \in Halos, NEW doomed
    PROVE  /\ Kernel(states, tangents, root, doomed).states \in Seq(GalaxyRecord)
           /\ Beside(Kernel(states, tangents, root, doomed).tangents,
                     Kernel(states, tangents, root, doomed).states)
           /\ Len(Kernel(states, tangents, root, doomed).states) = Len(states)
           /\ \A x \in 1 .. Len(states) :
                 Kernel(states, tangents, root, doomed).states[x].type # 3 =>
                    /\ Kernel(states, tangents, root, doomed).states[x].type \in {0, 1}
                    /\ states[x].type \in {0, 1}
<1> DEFINE gone == Gone(states, doomed)
           own == [x \in DOMAIN states |-> states[x].history]
           now == Depending(own, states, root, gone)
           after == [x \in DOMAIN states |->
                        [states[x] EXCEPT !.type = IF x \in gone THEN 3 ELSE @,
                                          !.history = now[x]]]
           beside == Depending(tangents, states, root, gone)
           result == [states |-> after, tangents |-> beside]
<1>1. Kernel(states, tangents, root, doomed) = result
  BY DEF Kernel
<1>2. /\ Len(states) \in Nat /\ DOMAIN states = 1 .. Len(states)
      /\ \A x \in 1 .. Len(states) : states[x] \in GalaxyRecord
  BY LenProperties, ElementOfSeq DEF Sound
<1>3. tangents = own
  <2>1. tangents \in Seq(SUBSET Halos) /\ Len(tangents) = Len(states)
        /\ \A x \in 1 .. Len(states) : tangents[x] = states[x].history
    BY DEF Beside
  <2>2. tangents = [x \in 1 .. Len(states) |-> tangents[x]]
    BY <2>1, LenProperties
  <2> QED
    BY <1>2, <2>1, <2>2
<1>4. beside = now
  BY <1>3
<1>5. gone \subseteq 1 .. Len(states) /\ \A x \in 1 .. Len(states) : states[x].type = 2 => x \in gone
  BY <1>2 DEF Gone
<1>6. \A x \in 1 .. Len(states) : own[x] \subseteq Halos
  BY <1>2 DEF GalaxyRecord
<1>7. now = [x \in 1 .. Len(states) |-> now[x]] /\ \A x \in 1 .. Len(states) : now[x] \in SUBSET Halos
  <2> HIDE DEF own, gone
  <2>1. now = [x \in 1 .. Len(states) |->
                  CASE states[x].type = 3 -> own[x]
                    [] states[x].type = 0 -> own[x] \cup {root} \cup UNION {own[j] : j \in gone}
                    [] OTHER              -> own[x] \cup {root}]
    BY <1>2 DEF Depending
  <2>2. UNION {own[j] : j \in gone} \subseteq Halos
    BY <1>5, <1>6
  <2> DEFINE add == UNION {own[j] : j \in gone}
  <2> HIDE DEF now, add
  <2>3. ASSUME NEW x \in 1 .. Len(states) PROVE now[x] \in SUBSET Halos
    <3>1. now[x] = CASE states[x].type = 3 -> own[x]
                     [] states[x].type = 0 -> own[x] \cup {root} \cup add
                     [] OTHER              -> own[x] \cup {root}
      BY <2>1 DEF add
    <3>2. add \subseteq Halos /\ own[x] \subseteq Halos
      BY <1>6, <2>2 DEF add
    <3>3. CASE states[x].type = 3
      BY <3>1, <3>2, <3>3
    <3>4. CASE states[x].type = 0
      BY <3>1, <3>2, <3>4
    <3>5. CASE states[x].type # 3 /\ states[x].type # 0
      BY <3>1, <3>2, <3>5
    <3> QED
      BY <3>3, <3>4, <3>5
  <2> QED
    BY <2>1, <2>3
<1> HIDE DEF now, own
<1>8. ASSUME NEW x \in 1 .. Len(states)
      PROVE  /\ after[x] \in GalaxyRecord /\ after[x].history = now[x]
             /\ after[x].type # 3 => after[x].type \in {0, 1} /\ states[x].type \in {0, 1}
  <2> DEFINE g == states[x]
             ty == IF x \in gone THEN 3 ELSE g.type
             hi == now[x]
             r == [g EXCEPT !.type = ty, !.history = hi]
  <2>1. after[x] = r
    BY <1>2
  <2>2. g \in GalaxyRecord /\ ty \in 0 .. 3 /\ hi \in SUBSET Halos
        /\ (ty # 3 => ty \in {0, 1} /\ g.type \in {0, 1})
    <3>1. g \in GalaxyRecord /\ g.type \in 0 .. 3
      BY <1>2 DEF GalaxyRecord
    <3> QED
      BY <1>5, <1>7, <3>1
  <2> HIDE DEF g, ty, hi
  <2>3. r.type = ty /\ r.history = hi /\ r \in GalaxyRecord
    BY <2>2 DEF GalaxyRecord
  <2> HIDE DEF r, after
  <2> QED
    BY <2>1, <2>2, <2>3 DEF g, hi
<1>9. after \in Seq(GalaxyRecord) /\ Len(after) = Len(states)
  <2>1. after = [x \in 1 .. Len(states) |-> after[x]]
    BY <1>2
  <2> HIDE DEF after
  <2>2. PICK c \in Nat : c = Len(states)
    BY <1>2
  <2>3. after \in [1 .. c -> GalaxyRecord]
    BY <1>8, <2>1, <2>2
  <2> QED
    BY <2>2, <2>3
<1> HIDE DEF after
<1>10. now \in Seq(SUBSET Halos) /\ Len(now) = Len(states)
  <2>1. PICK c \in Nat : c = Len(states)
    BY <1>2
  <2>2. now \in [1 .. c -> SUBSET Halos]
    BY <1>7, <2>1
  <2> QED
    BY <2>1, <2>2
<1>11. Beside(beside, after)
  BY <1>4, <1>8, <1>9, <1>10 DEF Beside
<1> HIDE DEF beside
<1>12. result.states = after /\ result.tangents = beside
  OBVIOUS
<1> QED
  BY <1>1, <1>8, <1>9, <1>11, <1>12

\* The result of a group: the tangents beside the states, and at most one live
\* galaxy, a central, in each of its segments.
ResultOK(result, task) ==
    /\ result.states \in Seq(GalaxyRecord) /\ Beside(result.tangents, result.states)
    /\ Len(task.states) <= Len(result.states)
    /\ \A x \in 1 .. Len(task.states) :
          result.states[x].type # 3 => /\ result.states[x].type \in {0, 1}
                                       /\ task.states[x].type \in {0, 1}

\* What the kernel returns for a task that was padded is a result for the task.
LEMMA KernelResult ==
    ASSUME NEW task, NEW p, Extends(p, task), NEW root \in Halos, NEW doomed
    PROVE  ResultOK(Kernel(p.states, p.tangents, root, doomed), task)
<1> DEFINE states == p.states
           tangents == p.tangents
           result == Kernel(states, tangents, root, doomed)
<1>1. /\ states \in Seq(Sound) /\ Beside(tangents, states) /\ Len(task.states) <= Len(states)
      /\ \A x \in 1 .. Len(task.states) : states[x] = task.states[x]
  BY DEF Extends
<1> HIDE DEF states, tangents
<1>2. /\ result.states \in Seq(GalaxyRecord) /\ Beside(result.tangents, result.states)
      /\ Len(result.states) = Len(states)
      /\ \A x \in 1 .. Len(states) :
            result.states[x].type # 3 => /\ result.states[x].type \in {0, 1}
                                         /\ states[x].type \in {0, 1}
  BY <1>1, KernelFacts
<1> HIDE DEF result
<1>3. Len(states) \in Nat
  BY <1>1, LenProperties
<1>4. \A x \in 1 .. Len(task.states) : x \in 1 .. Len(states)
  BY <1>1, <1>3
<1>5. ResultOK(result, task)
  BY <1>1, <1>2, <1>4 DEF ResultOK
<1> QED
  BY <1>5 DEF result, states, tangents

-----------------------------------------------------------------------------
(* The marshalling.                                                          *)

\* The halo of a segment is left with one galaxy or none, its own tangent at it.
LEMMA SegmentFacts ==
    ASSUME NEW t, TreeOK(t), NEW task, NEW result, ResultOK(result, task),
           NEW seg, SegmentOK(seg, task.states), Len(task.states) \in Nat
    PROVE  /\ Segment(t, result, seg) \in Seq(Placed)
           /\ Len(Segment(t, result, seg)) <= 1
<1> DEFINE states == result.states
           tangents == result.tangents
           stamp == t.snap[seg[1]]
           c == [x \in DOMAIN states |->
                    [states[x] EXCEPT !.snap = stamp, !.tangent = tangents[x]]]
           K == {x \in seg[2] .. seg[3] : states[x].type # 3}
           r == Kept(c, K)
<1>1. Segment(t, result, seg) = r
  BY DEF Segment, TangentsOf
<1>2. /\ states \in Seq(GalaxyRecord) /\ Len(states) \in Nat /\ DOMAIN states = 1 .. Len(states)
      /\ \A x \in 1 .. Len(states) : states[x] \in GalaxyRecord
      /\ \A x \in 1 .. Len(states) : tangents[x] = states[x].history
      /\ Len(task.states) <= Len(states)
      /\ \A x \in 1 .. Len(task.states) :
            states[x].type # 3 => states[x].type \in {0, 1} /\ task.states[x].type \in {0, 1}
  BY LenProperties, ElementOfSeq DEF ResultOK, Beside
<1>3. /\ stamp \in Int /\ seg[2] \in Nat \ {0} /\ seg[3] \in 0 .. Len(task.states)
      /\ \A x, y \in seg[2] .. seg[3] :
            task.states[x].type \in {0, 1} /\ task.states[y].type \in {0, 1} => x = y
  <2>1. seg[1] \in Halos /\ t.snap \in [Halos -> Nat]
    BY LinksOfTree DEF SegmentOK
  <2> QED
    BY <2>1 DEF SegmentOK
<1> HIDE DEF stamp, states, tangents
<1>4. ASSUME NEW x \in 1 .. Len(states)
      PROVE  c[x] \in Sound /\ c[x].type = states[x].type
  <2> DEFINE g == states[x]
             tg == tangents[x]
             v == [g EXCEPT !.snap = stamp, !.tangent = tg]
  <2>1. c[x] = v
    BY <1>2
  <2>2. g \in GalaxyRecord /\ tg = g.history /\ tg \in SUBSET Halos
    BY <1>2 DEF GalaxyRecord
  <2> HIDE DEF g, tg, c
  <2>3. v.type = g.type /\ v.history = g.history /\ v.tangent = tg /\ v \in GalaxyRecord
    BY <1>3, <2>2 DEF GalaxyRecord
  <2> HIDE DEF v
  <2>4. v \in Sound
    BY <2>2, <2>3 DEF Sound
  <2> QED
    BY <2>1, <2>3, <2>4 DEF g
<1>5. c \in Seq(Sound) /\ Len(c) = Len(states)
  <2>1. c = [x \in 1 .. Len(states) |-> c[x]]
    BY <1>2
  <2> HIDE DEF c
  <2>2. PICK b \in Nat : b = Len(states)
    BY <1>2
  <2>3. c \in [1 .. b -> Sound]
    BY <1>4, <2>1, <2>2
  <2> QED
    BY <2>2, <2>3
<1> HIDE DEF c, K
<1>6. PICK at : r \in Seq(Sound) /\ KeptAs(at, c, K, r)
  BY <1>5, KeptFacts
<1> HIDE DEF r
<1>7. ASSUME NEW x \in 1 .. Len(r)
      PROVE  /\ r[x] \in Placed
             /\ at[x] \in seg[2] .. seg[3] /\ task.states[at[x]].type \in {0, 1}
  <2>1. at[x] \in K /\ r[x] = c[at[x]]
    BY <1>6 DEF KeptAs
  <2>2. at[x] \in seg[2] .. seg[3] /\ states[at[x]].type # 3
    BY <2>1 DEF K
  <2>3. PICK m : m = at[x]
    OBVIOUS
  <2>4. m \in 1 .. Len(task.states) /\ m \in 1 .. Len(states)
    BY <1>2, <1>3, <2>2, <2>3
  <2>5. states[m].type \in {0, 1} /\ task.states[m].type \in {0, 1}
    BY <1>2, <2>2, <2>3, <2>4
  <2>6. r[x] \in Sound /\ r[x].type \in {0, 1}
    BY <1>4, <2>1, <2>3, <2>4, <2>5
  <2> QED
    BY <2>2, <2>3, <2>5, <2>6 DEF Placed
<1>8. \A x, y \in 1 .. Len(r) : x = y
  <2> SUFFICES ASSUME NEW x \in 1 .. Len(r), NEW y \in 1 .. Len(r) PROVE x = y
    OBVIOUS
  <2>1. at[x] = at[y]
    BY <1>3, <1>7
  <2> QED
    BY <1>6, <2>1 DEF KeptAs
<1>9. Len(r) \in Nat /\ Len(r) <= 1
  <2>1. Len(r) \in Nat
    BY <1>6, LenProperties
  <2>2. CASE Len(r) = 0
    BY <2>2
  <2>3. CASE Len(r) # 0
    <3>1. 1 \in 1 .. Len(r) /\ Len(r) \in 1 .. Len(r)
      BY <2>1, <2>3
    <3> QED
      BY <1>8, <3>1
  <2> QED
    BY <2>1, <2>2, <2>3
<1>10. r \in Seq(Placed)
  <2>1. PICK b \in Nat : b = Len(r)
    BY <1>9
  <2>2. r \in [1 .. b -> Sound]
    BY <1>6, <2>1, LenProperties
  <2>3. r \in [1 .. b -> Placed]
    BY <1>7, <2>1, <2>2
  <2> QED
    BY <2>3
<1> QED
  BY <1>1, <1>9, <1>10

\* The segments of a group and the records among them.
LEMMA SegmentsFacts ==
    ASSUME NEW t, TreeOK(t), NEW task, TaskOK(task), NEW result, ResultOK(result, task)
    PROVE  /\ \A n \in DOMAIN task.segments :
                 /\ Segment(t, result, task.segments[n]) \in Seq(Placed)
                 /\ Len(Segment(t, result, task.segments[n])) <= 1
           /\ FlattenSeq(Segments(t, task, result)) \in Seq(Sound)
<1>1. /\ Len(task.states) \in Nat /\ Len(task.segments) \in Nat
      /\ DOMAIN task.segments = 1 .. Len(task.segments)
  BY LenProperties DEF TaskOK
<1>2. \A n \in DOMAIN task.segments : SegmentOK(task.segments[n], task.states)
  BY DEF TaskOK
<1>3. \A n \in DOMAIN task.segments :
         /\ Segment(t, result, task.segments[n]) \in Seq(Placed)
         /\ Len(Segment(t, result, task.segments[n])) <= 1
  BY <1>1, <1>2, SegmentFacts
<1> DEFINE s == [n \in DOMAIN task.segments |-> Segment(t, result, task.segments[n])]
<1>4. s = Segments(t, task, result)
  BY DEF Segments
<1>5. s \in Seq(Seq(Placed))
  <2>1. PICK b \in Nat : b = Len(task.segments)
    BY <1>1
  <2>2. s \in [1 .. b -> Seq(Placed)]
    BY <1>1, <1>3, <2>1
  <2> QED
    BY <2>2
<1> HIDE DEF s
<1>6. FlattenSeq(s) \in Seq(Placed)
  BY <1>5, FlattenIsSeq
<1>7. FlattenSeq(s) \in Seq(Sound)
  BY <1>6 DEF Placed
<1> QED
  BY <1>3, <1>4, <1>7

\* The halos are left as they must be.
LEMMA MarshalledOK ==
    ASSUME NEW t, TreeOK(t), NEW out, OutOK(out), NEW task, TaskOK(task),
           NEW result, ResultOK(result, task)
    PROVE  OutOK(Marshalled(t, out, task, result))
<1> DEFINE Of(h) == {seg \in Range(task.segments) : seg[1] = h}
           left == [h \in Halos |-> IF Of(h) = {} THEN out[h]
                                    ELSE Segment(t, result, CHOOSE seg \in Of(h) : TRUE)]
<1>1. Marshalled(t, out, task, result) = left
  BY DEF Marshalled
<1>2. ASSUME NEW h \in Halos
      PROVE  left[h] \in Seq(Placed) /\ Len(left[h]) <= 1
  <2>1. CASE Of(h) = {}
    BY <2>1 DEF OutOK
  <2>2. CASE Of(h) # {}
    <3>1. PICK seg : seg = CHOOSE g \in Of(h) : TRUE
      OBVIOUS
    <3>2. seg \in Range(task.segments)
      BY <2>2, <3>1
    <3>3. PICK n \in DOMAIN task.segments : seg = task.segments[n]
      BY <3>2 DEF Range
    <3>4. left[h] = Segment(t, result, task.segments[n])
      BY <2>2, <3>1, <3>3
    <3> QED
      BY <3>4, SegmentsFacts
  <2> QED
    BY <2>1, <2>2
<1>3. left = [h \in Halos |-> left[h]]
  OBVIOUS
<1> HIDE DEF left
<1> QED
  BY <1>1, <1>2, <1>3 DEF OutOK

\* So are those whose galaxies were inherited.
LEMMA DiscardedOK ==
    ASSUME NEW t, NEW out, OutOK(out), NEW root
    PROVE  OutOK(Discarded(t, out, root))
<1> DEFINE used == UNION {Progenitors(t, h) : h \in MembersOf(t, root)}
           left == [h \in Halos |-> IF h \in used THEN <<>> ELSE out[h]]
<1>1. Discarded(t, out, root) = left
  BY DEF Discarded
<1> HIDE DEF used
<1>2. \A h \in Halos : left[h] \in Seq(Placed) /\ Len(left[h]) <= 1
  <2>1. <<>> \in Seq(Placed) /\ Len(<<>>) = 0
    BY EmptySeq
  <2> QED
    BY <2>1 DEF OutOK
<1>3. left = [h \in Halos |-> left[h]]
  OBVIOUS
<1> HIDE DEF left
<1> QED
  BY <1>1, <1>2, <1>3 DEF OutOK

-----------------------------------------------------------------------------
(* The groups of a call.                                                     *)

\* A group is named by its workspace and its root.
GroupsIn(j) == {g \in (DOMAIN j.trees) \X Halos : g[2] \in Fofs(j.trees[g[1]])}

SnapOf(j, g) == j.trees[g[1]].snap[g[2]]

\* The trees of a call.
LEMMA TreesOfJob ==
    ASSUME NEW j \in Jobs
    PROVE  /\ Len(j.trees) \in Nat /\ DOMAIN j.trees = 1 .. Len(j.trees)
           /\ \A w \in DOMAIN j.trees : TreeOK(j.trees[w])
           /\ \A g \in GroupsIn(j) : SnapOf(j, g) \in Nat
<1> DEFINE T == {t \in Tree : WellFormed(t)}
<1>1. j.trees \in Seq(T)
  BY JobsAssumption
<1>2. /\ Len(j.trees) \in Nat /\ DOMAIN j.trees = 1 .. Len(j.trees)
      /\ \A w \in DOMAIN j.trees : j.trees[w] \in T
  BY <1>1, LenProperties, ElementOfSeq
<1>3. \A w \in DOMAIN j.trees : TreeOK(j.trees[w])
  BY <1>2, LenAssumption DEF TreeOK
<1>4. ASSUME NEW g \in GroupsIn(j) PROVE SnapOf(j, g) \in Nat
  <2>1. g[1] \in DOMAIN j.trees /\ g[2] \in Halos
    BY DEF GroupsIn
  <2>2. TreeOK(j.trees[g[1]])
    BY <1>3, <2>1
  <2>3. j.trees[g[1]].snap \in [Halos -> Nat]
    BY <2>2, LinksOfTree
  <2> QED
    BY <2>1, <2>3 DEF SnapOf
<1> QED
  BY <1>2, <1>3, <1>4

\* roots_by_snapshot has the groups of a snapshot, each once.
LEMMA RootsFacts ==
    ASSUME NEW t, TreeOK(t), NEW s
    PROVE  /\ RootsAt(t, s) \in Seq(Halos)
           /\ \A x \in 1 .. Len(RootsAt(t, s)) :
                 RootsAt(t, s)[x] \in Fofs(t) /\ t.snap[RootsAt(t, s)[x]] = s
           /\ \A x, y \in 1 .. Len(RootsAt(t, s)) : RootsAt(t, s)[x] = RootsAt(t, s)[y] => x = y
           /\ \A f \in Fofs(t) : t.snap[f] = s =>
                 \E x \in 1 .. Len(RootsAt(t, s)) : RootsAt(t, s)[x] = f
<1> DEFINE c == [n \in 1 .. NumHalos |-> n - 1]
           K == {n \in 1 .. NumHalos : t.snap[n - 1] = s /\ t.fof[n - 1] = n - 1}
           r == Kept(c, K)
<1>1. RootsAt(t, s) = r
  BY DEF RootsAt
<1>2. NumHalos \in Nat /\ \A n \in 1 .. NumHalos : n - 1 \in Halos
  BY NumHalosAssumption DEF Halos
<1>3. c \in Seq(Halos) /\ Len(c) = NumHalos /\ \A n \in 1 .. NumHalos : c[n] = n - 1
  <2>1. c \in [1 .. NumHalos -> Halos]
    BY <1>2
  <2> QED
    BY <1>2, <2>1
<1> HIDE DEF c
<1>4. \A n \in K : n \in 1 .. NumHalos /\ t.snap[n - 1] = s /\ t.fof[n - 1] = n - 1
  OBVIOUS
<1>5. \A n \in 1 .. NumHalos : t.snap[n - 1] = s /\ t.fof[n - 1] = n - 1 => n \in K
  OBVIOUS
<1> HIDE DEF K
<1>6. PICK at : r \in Seq(Halos) /\ KeptAs(at, c, K, r)
  BY <1>3, KeptFacts
<1> HIDE DEF r
<1>7. ASSUME NEW x \in 1 .. Len(r)
      PROVE  /\ at[x] \in 1 .. NumHalos /\ r[x] = at[x] - 1
             /\ r[x] \in Fofs(t) /\ t.snap[r[x]] = s
  <2>1. at[x] \in K /\ r[x] = c[at[x]]
    BY <1>6 DEF KeptAs
  <2>2. at[x] \in 1 .. NumHalos /\ r[x] = at[x] - 1
    BY <1>3, <1>4, <2>1
  <2>3. t.snap[r[x]] = s /\ t.fof[r[x]] = r[x] /\ r[x] \in Halos
    BY <1>2, <1>4, <2>1, <2>2
  <2> QED
    BY <2>2, <2>3 DEF Fofs
<1>8. \A x, y \in 1 .. Len(r) : r[x] = r[y] => x = y
  <2> SUFFICES ASSUME NEW x \in 1 .. Len(r), NEW y \in 1 .. Len(r), r[x] = r[y] PROVE x = y
    OBVIOUS
  <2>1. at[x] = at[y]
    BY <1>7
  <2> QED
    BY <1>6, <2>1 DEF KeptAs
<1>9. ASSUME NEW f \in Fofs(t), t.snap[f] = s
      PROVE  \E x \in 1 .. Len(r) : r[x] = f
  <2>1. f \in Halos /\ t.fof[f] = f
    BY ChainOfGroup
  <2>2. PICK n \in 1 .. NumHalos : n - 1 = f
    <3>2. PICK a \in 0 .. NumHalos - 1 : a = f
      BY <2>1 DEF Halos
    <3>1. a + 1 \in 1 .. NumHalos /\ a + 1 - 1 = f
      BY <1>2, <3>2
    <3> QED
      BY <3>1
  <2>3. n \in K
    BY <1>5, <1>9, <2>1, <2>2
  <2>4. PICK x \in 1 .. Len(r) : at[x] = n
    BY <1>3, <1>6, <2>3 DEF KeptAs
  <2>5. r[x] = f
    BY <1>7, <2>2, <2>4
  <2> QED
    BY <2>5
<1> QED
  BY <1>1, <1>6, <1>7, <1>8, <1>9

\* r has every group of snapshot s, each once.
GroupsOf(r, j, s) ==
    /\ r \in Seq(GroupsIn(j))
    /\ \A x \in 1 .. Len(r) : SnapOf(j, r[x]) = s
    /\ \A x, y \in 1 .. Len(r) : r[x] = r[y] => x = y
    /\ \A g \in GroupsIn(j) : SnapOf(j, g) = s => \E x \in 1 .. Len(r) : r[x] = g

\* The work list of a snapshot has its groups.
LEMMA GroupsAtFacts ==
    ASSUME job \in Jobs, NEW s
    PROVE  GroupsOf(GroupsAt(s), job, s)
<1> DEFINE roots(w) == RootsAt(job.trees[w], s)
           lists == [w \in Workspaces |-> [n \in DOMAIN roots(w) |-> <<w, roots(w)[n]>>]]
           r == FlattenSeq(lists)
           G == GroupsIn(job)
<1>1. GroupsAt(s) = r
  BY DEF GroupsAt
<1>2. /\ Len(job.trees) \in Nat /\ Workspaces = 1 .. Len(job.trees)
      /\ \A w \in 1 .. Len(job.trees) : TreeOK(job.trees[w])
  BY TreesOfJob DEF Workspaces
<1>3. ASSUME NEW w \in 1 .. Len(job.trees)
      PROVE  /\ roots(w) \in Seq(Halos) /\ Len(roots(w)) \in Nat
             /\ DOMAIN roots(w) = 1 .. Len(roots(w))
             /\ \A x \in 1 .. Len(roots(w)) : /\ roots(w)[x] \in Fofs(job.trees[w])
                                              /\ roots(w)[x] \in Halos
                                              /\ job.trees[w].snap[roots(w)[x]] = s
             /\ \A x, y \in 1 .. Len(roots(w)) : roots(w)[x] = roots(w)[y] => x = y
             /\ \A f \in Fofs(job.trees[w]) : job.trees[w].snap[f] = s =>
                   \E x \in 1 .. Len(roots(w)) : roots(w)[x] = f
  <2>1. TreeOK(job.trees[w])
    BY <1>2
  <2>2. roots(w) \in Seq(Halos)
    BY <2>1, RootsFacts
  <2>3. /\ Len(roots(w)) \in Nat /\ DOMAIN roots(w) = 1 .. Len(roots(w))
        /\ \A x \in 1 .. Len(roots(w)) : roots(w)[x] \in Halos
    BY <2>2, LenProperties, ElementOfSeq
  <2> QED
    BY <2>1, <2>2, <2>3, RootsFacts
<1> HIDE DEF roots
<1>4. ASSUME NEW w \in 1 .. Len(job.trees)
      PROVE  /\ lists[w] \in Seq(G) /\ Len(lists[w]) = Len(roots(w))
             /\ \A n \in 1 .. Len(roots(w)) : lists[w][n] = <<w, roots(w)[n]>>
  <2> DEFINE l == [n \in 1 .. Len(roots(w)) |-> <<w, roots(w)[n]>>]
  <2>1. lists[w] = l
    BY <1>2, <1>3
  <2>2. ASSUME NEW n \in 1 .. Len(roots(w)) PROVE <<w, roots(w)[n]>> \in G
    BY <1>2, <1>3 DEF GroupsIn, Workspaces
  <2>3. PICK b \in Nat : b = Len(roots(w))
    BY <1>3
  <2>4. l \in [1 .. b -> G]
    <3> HIDE DEF G
    <3> QED
      BY <2>2, <2>3
  <2>5. l \in Seq(G) /\ Len(l) = b
    <3> HIDE DEF l, G
    <3> QED
      BY <2>4
  <2>6. \A n \in 1 .. Len(roots(w)) : l[n] = <<w, roots(w)[n]>>
    OBVIOUS
  <2> HIDE DEF l, lists
  <2> QED
    BY <2>1, <2>3, <2>5, <2>6
<1>5. lists \in Seq(Seq(G)) /\ Len(lists) = Len(job.trees)
  <2>1. lists = [w \in 1 .. Len(job.trees) |-> lists[w]]
    BY <1>2
  <2> HIDE DEF lists, G
  <2>2. PICK b \in Nat : b = Len(job.trees)
    BY <1>2
  <2>3. lists \in [1 .. b -> Seq(G)]
    BY <1>4, <2>1, <2>2
  <2> QED
    BY <2>2, <2>3
<1> HIDE DEF lists
<1>6. r \in Seq(G)
  <2> HIDE DEF G
  <2> QED
    BY <1>5, FlattenIsSeq
<1>7. PICK o : LaidOut(o, lists, r)
  <2> HIDE DEF G
  <2> QED
    BY <1>5, FlattenLaysOut
<1> HIDE DEF r
<1> DEFINE At(x, w, n) == w \in 1 .. Len(job.trees) /\ n \in 1 .. Len(roots(w)) /\ x = o[w - 1] + n
<1>8. ASSUME NEW x \in 1 .. Len(r) PROVE \E w, n : At(x, w, n)
  <2>1. LaidDown(o, lists, x)
    <3> HIDE DEF G
    <3> QED
      BY <1>5, <1>7, EveryPositionIsPlaced
  <2> QED
    BY <1>4, <1>5, <2>1 DEF LaidDown
<1>9. ASSUME NEW x, NEW w, NEW n, At(x, w, n)
      PROVE  x \in 1 .. Len(r) /\ r[x] = <<w, roots(w)[n]>>
  <2>1. w \in 1 .. Len(lists) /\ n \in 1 .. Len(lists[w])
    BY <1>4, <1>5, <1>9
  <2> QED
    BY <1>4, <1>7, <1>9, <2>1 DEF LaidOut
<1>10. ASSUME NEW x \in 1 .. Len(r) PROVE SnapOf(job, r[x]) = s
  <2>1. PICK w, n : At(x, w, n)
    BY <1>8
  <2>2. r[x] = <<w, roots(w)[n]>>
    <3> HIDE DEF At
    <3> QED
      BY <1>9, <2>1
  <2> QED
    BY <1>3, <2>1, <2>2 DEF SnapOf
<1>11. ASSUME NEW x \in 1 .. Len(r), NEW y \in 1 .. Len(r), r[x] = r[y] PROVE x = y
  <2>1. PICK w, n : At(x, w, n)
    BY <1>8
  <2>2. PICK v, m : At(y, v, m)
    BY <1>8
  <2>3. r[x] = <<w, roots(w)[n]>> /\ r[y] = <<v, roots(v)[m]>>
    <3> HIDE DEF At
    <3> QED
      BY <1>9, <2>1, <2>2
  <2>4. w = v /\ roots(w)[n] = roots(w)[m]
    <3>1. PICK a, b : a = roots(w)[n] /\ b = roots(v)[m]
      OBVIOUS
    <3>2. <<w, a>> = <<v, b>>
      BY <1>11, <2>3, <3>1
    <3>3. w = v /\ a = b
      BY <3>2
    <3> QED
      BY <3>1, <3>3
  <2>5. n = m
    BY <1>3, <2>1, <2>2, <2>4
  <2> QED
    BY <2>1, <2>2, <2>4, <2>5
<1>12. ASSUME NEW g \in GroupsIn(job), SnapOf(job, g) = s PROVE \E x \in 1 .. Len(r) : r[x] = g
  <2>1. PICK w \in 1 .. Len(job.trees), f \in Halos : g = <<w, f>> /\ f \in Fofs(job.trees[w])
    BY <1>2 DEF GroupsIn, Workspaces
  <2>2. job.trees[w].snap[f] = s
    BY <1>12, <2>1 DEF SnapOf
  <2>3. PICK n \in 1 .. Len(roots(w)) : roots(w)[n] = f
    BY <1>3, <2>1, <2>2
  <2>4. At(o[w - 1] + n, w, n)
    BY <2>1, <2>3
  <2>5. o[w - 1] + n \in 1 .. Len(r) /\ r[o[w - 1] + n] = <<w, f>>
    <3> HIDE DEF At
    <3> QED
      BY <1>9, <2>3, <2>4
  <2> QED
    BY <2>1, <2>5
<1> QED
  BY <1>1, <1>6, <1>10, <1>11, <1>12 DEF GroupsOf

-----------------------------------------------------------------------------
(* What waits.                                                               *)

Key(task) == <<task.w, task.root>>

\* A gathered group of a call; a bucket of them; a group with its result.
Gathered(j) ==
    {task \in [w : DOMAIN j.trees, root : Halos, states : Seq(Sound),
               tangents : Seq(SUBSET Halos), segments : Seq(Halos \X Nat \X Nat)] :
        TaskOK(task) /\ Key(task) \in GroupsIn(j) /\ Len(task.states) > 0}

BucketOf(j) == [count : Nat \ {0}, shape : Nat, tasks : Seq(Gathered(j))]

RunOf(j) ==
    {r \in [task : Gathered(j), result : [states : Seq(GalaxyRecord), tangents : Seq(SUBSET Halos)]] :
        ResultOK(r.result, r.task)}

\* The groups of a list of tasks; no two of them are of one group.
KeysOf(ts) == {Key(ts[n]) : n \in 1 .. Len(ts)}

Once(ts) == \A m, n \in 1 .. Len(ts) : Key(ts[m]) = Key(ts[n]) => m = n

\* The same of the buckets.
BucketKeys(bs) == UNION {KeysOf(bs[n].tasks) : n \in 1 .. Len(bs)}

Sorted(bs) ==
    /\ \A n \in 1 .. Len(bs) : Once(bs[n].tasks)
    /\ \A m, n \in 1 .. Len(bs) : m # n => KeysOf(bs[m].tasks) \cap KeysOf(bs[n].tasks) = {}

\* The same of a batch.
RunKeys(q) == {Key(q[n].task) : n \in 1 .. Len(q)}

RunOnce(q) == \A m, n \in 1 .. Len(q) : Key(q[m].task) = Key(q[n].task) => m = n

\* A group that is new to a list.
LEMMA AppendOnce ==
    ASSUME NEW S, NEW ts \in Seq(S), Once(ts), NEW task \in S, Key(task) \notin KeysOf(ts)
    PROVE  /\ Append(ts, task) \in Seq(S) /\ Once(Append(ts, task))
           /\ KeysOf(Append(ts, task)) = KeysOf(ts) \cup {Key(task)}
<1> DEFINE r == Append(ts, task)
<1>1. /\ Len(ts) \in Nat /\ r \in Seq(S) /\ Len(r) = Len(ts) + 1
      /\ \A n \in 1 .. Len(ts) : r[n] = ts[n]
      /\ r[Len(ts) + 1] = task
  BY LenProperties, AppendProperties
<1> HIDE DEF r
<1>2. PICK a \in Nat : a = Len(ts)
  BY <1>1
<1>3. \A n \in 1 .. Len(r) : n \in 1 .. a \/ n = a + 1
  BY <1>1, <1>2
<1>4. \A n \in 1 .. a : n \in 1 .. Len(r) /\ Key(r[n]) = Key(ts[n]) /\ Key(r[n]) # Key(task)
  BY <1>1, <1>2 DEF KeysOf
<1>5. a + 1 \in 1 .. Len(r) /\ Key(r[a + 1]) = Key(task)
  BY <1>1, <1>2
<1>6. Once(r)
  BY <1>2, <1>3, <1>4, <1>5 DEF Once
<1>7. KeysOf(r) = KeysOf(ts) \cup {Key(task)}
  BY <1>2, <1>3, <1>4, <1>5 DEF KeysOf
<1> QED
  BY <1>1, <1>6, <1>7 DEF r

\* A list with one group.
LEMMA OneOnce ==
    ASSUME NEW S, NEW task \in S
    PROVE  <<task>> \in Seq(S) /\ Once(<<task>>) /\ KeysOf(<<task>>) = {Key(task)}
<1> DEFINE r == <<task>>
<1>1. r \in Seq(S) /\ Len(r) = 1 /\ r[1] = task
  OBVIOUS
<1> HIDE DEF r
<1>2. \A n \in 1 .. Len(r) : n = 1
  BY <1>1
<1>3. 1 \in 1 .. Len(r)
  BY <1>1
<1>4. Once(r)
  BY <1>2 DEF Once
<1>5. KeysOf(r) = {Key(task)}
  BY <1>1, <1>2, <1>3 DEF KeysOf
<1> QED
  BY <1>1, <1>4, <1>5 DEF r

\* One bucket more, or another in the place of one.
LEMMA AppendSorted ==
    ASSUME NEW S, NEW bs \in Seq(S), Sorted(bs), NEW b \in S, Once(b.tasks),
           KeysOf(b.tasks) \cap BucketKeys(bs) = {}
    PROVE  /\ Append(bs, b) \in Seq(S) /\ Sorted(Append(bs, b))
           /\ BucketKeys(Append(bs, b)) = BucketKeys(bs) \cup KeysOf(b.tasks)
<1> DEFINE r == Append(bs, b)
<1>1. /\ Len(bs) \in Nat /\ r \in Seq(S) /\ Len(r) = Len(bs) + 1
      /\ \A n \in 1 .. Len(bs) : r[n] = bs[n]
      /\ r[Len(bs) + 1] = b
  BY LenProperties, AppendProperties
<1> HIDE DEF r
<1>2. PICK a \in Nat : a = Len(bs)
  BY <1>1
<1>3. \A n \in 1 .. Len(r) : n \in 1 .. a \/ n = a + 1
  BY <1>1, <1>2
<1>4. \A n \in 1 .. a : /\ n \in 1 .. Len(r) /\ r[n] = bs[n]
                        /\ KeysOf(bs[n].tasks) \cap KeysOf(b.tasks) = {}
  BY <1>1, <1>2 DEF BucketKeys
<1>5. a + 1 \in 1 .. Len(r) /\ r[a + 1] = b
  BY <1>1, <1>2
<1>6. \A n \in 1 .. a : Once(bs[n].tasks)
  BY <1>2 DEF Sorted
<1>7. \A m, n \in 1 .. a : m # n => KeysOf(bs[m].tasks) \cap KeysOf(bs[n].tasks) = {}
  BY <1>2 DEF Sorted
<1>8. \A n \in 1 .. Len(r) : Once(r[n].tasks)
  BY <1>3, <1>4, <1>5, <1>6
<1>9. \A m, n \in 1 .. Len(r) : m # n => KeysOf(r[m].tasks) \cap KeysOf(r[n].tasks) = {}
  BY <1>3, <1>4, <1>5, <1>7
<1>10. BucketKeys(r) = BucketKeys(bs) \cup KeysOf(b.tasks)
  BY <1>2, <1>3, <1>4, <1>5 DEF BucketKeys
<1> QED
  BY <1>1, <1>8, <1>9, <1>10 DEF r, Sorted

\* No group of b is in a bucket but the p-th.
Away(b, bs, p) ==
    \A n \in 1 .. Len(bs) : n # p => KeysOf(b.tasks) \cap KeysOf(bs[n].tasks) = {}

\* r has bucket b in the place of the p-th.
Replaces(r, bs, p, b, S) ==
    /\ r \in Seq(S) /\ Sorted(r)
    /\ BucketKeys(r) = (BucketKeys(bs) \ KeysOf(bs[p].tasks)) \cup KeysOf(b.tasks)

\* A bucket replaced by one whose tasks are in no other.
LEMMA ReplaceSorted ==
    ASSUME NEW S, NEW bs \in Seq(S), Sorted(bs), NEW p \in 1 .. Len(bs), NEW b \in S, Once(b.tasks),
           Away(b, bs, p), NEW r, r = [bs EXCEPT ![p] = b]
    PROVE  Replaces(r, bs, p, b, S)
<1>1. Len(bs) \in Nat /\ r \in Seq(S) /\ Len(r) = Len(bs)
  BY LenProperties, ExceptSeq
<1>2. \A n \in 1 .. Len(bs) : r[n] = IF n = p THEN b ELSE bs[n]
  BY ExceptSeq
<1>3. \A n \in 1 .. Len(bs) : Once(bs[n].tasks)
  BY DEF Sorted
<1>4. \A m, n \in 1 .. Len(bs) : m # n => KeysOf(bs[m].tasks) \cap KeysOf(bs[n].tasks) = {}
  BY DEF Sorted
<1>5. \A n \in 1 .. Len(r) : Once(r[n].tasks)
  BY <1>1, <1>2, <1>3
<1>6. ASSUME NEW m \in 1 .. Len(r), NEW n \in 1 .. Len(r), m # n
      PROVE  KeysOf(r[m].tasks) \cap KeysOf(r[n].tasks) = {}
  <2>1. m \in 1 .. Len(bs) /\ n \in 1 .. Len(bs)
    BY <1>1
  <2>2. CASE m # p /\ n # p
    <3>1. r[m] = bs[m] /\ r[n] = bs[n]
      BY <1>2, <2>1, <2>2
    <3> QED
      BY <1>4, <1>6, <2>1, <3>1
  <2>3. CASE m = p
    <3>1. r[m] = b /\ r[n] = bs[n]
      BY <1>2, <1>6, <2>1, <2>3
    <3> QED
      BY <1>6, <2>1, <2>3, <3>1 DEF Away
  <2>4. CASE n = p
    <3>1. r[m] = bs[m] /\ r[n] = b
      BY <1>2, <1>6, <2>1, <2>4
    <3> QED
      BY <1>6, <2>1, <2>4, <3>1 DEF Away
  <2> QED
    BY <2>2, <2>3, <2>4
<1>7. BucketKeys(r) = (BucketKeys(bs) \ KeysOf(bs[p].tasks)) \cup KeysOf(b.tasks)
  <2>1. ASSUME NEW y \in BucketKeys(r)
        PROVE  y \in (BucketKeys(bs) \ KeysOf(bs[p].tasks)) \cup KeysOf(b.tasks)
    <3>1. PICK n \in 1 .. Len(bs) : y \in KeysOf(r[n].tasks)
      BY <1>1 DEF BucketKeys
    <3>2. CASE n = p
      BY <1>2, <3>1, <3>2
    <3>3. CASE n # p
      <4>1. y \in KeysOf(bs[n].tasks)
        BY <1>2, <3>1, <3>3
      <4>2. y \notin KeysOf(bs[p].tasks)
        BY <1>4, <3>3, <4>1
      <4> QED
        BY <4>1, <4>2 DEF BucketKeys
    <3> QED
      BY <3>2, <3>3
  <2>2. ASSUME NEW y \in KeysOf(b.tasks) PROVE y \in BucketKeys(r)
    BY <1>1, <1>2 DEF BucketKeys
  <2>3. ASSUME NEW y \in BucketKeys(bs), y \notin KeysOf(bs[p].tasks) PROVE y \in BucketKeys(r)
    BY <1>1, <1>2, <2>3 DEF BucketKeys
  <2> QED
    BY <2>1, <2>2, <2>3
<1> QED
  BY <1>1, <1>5, <1>6, <1>7 DEF Replaces, Sorted

\* One bucket less.
LEMMA TailSorted ==
    ASSUME NEW S, NEW bs \in Seq(S), Sorted(bs), bs # <<>>
    PROVE  /\ Tail(bs) \in Seq(S) /\ Sorted(Tail(bs))
           /\ BucketKeys(Tail(bs)) = BucketKeys(bs) \ KeysOf(bs[1].tasks)
<1> DEFINE r == Tail(bs)
<1>1. /\ Len(bs) \in Nat /\ Len(bs) # 0 /\ r \in Seq(S) /\ Len(r) = Len(bs) - 1
      /\ \A n \in 1 .. Len(r) : r[n] = bs[n + 1]
  BY LenProperties, EmptySeq, HeadTailProperties
<1> HIDE DEF r
<1>2. \A n \in 1 .. Len(r) : n + 1 \in 1 .. Len(bs) /\ n + 1 # 1 /\ n \in Int
  BY <1>1
<1>3. \A m \in 1 .. Len(bs) : m # 1 => m - 1 \in 1 .. Len(r) /\ r[m - 1] = bs[m]
  <2> SUFFICES ASSUME NEW m \in 1 .. Len(bs), m # 1
               PROVE  m - 1 \in 1 .. Len(r) /\ r[m - 1] = bs[m]
    OBVIOUS
  <2>1. m - 1 \in 1 .. Len(r) /\ m - 1 + 1 = m
    BY <1>1
  <2> QED
    BY <1>1, <2>1
<1>4. \A n \in 1 .. Len(bs) : Once(bs[n].tasks)
  BY DEF Sorted
<1>5. \A m, n \in 1 .. Len(bs) : m # n => KeysOf(bs[m].tasks) \cap KeysOf(bs[n].tasks) = {}
  BY DEF Sorted
<1>6. \A n \in 1 .. Len(r) : Once(r[n].tasks)
  BY <1>1, <1>2, <1>4
<1>7. \A m, n \in 1 .. Len(r) : m # n => KeysOf(r[m].tasks) \cap KeysOf(r[n].tasks) = {}
  <2> SUFFICES ASSUME NEW m \in 1 .. Len(r), NEW n \in 1 .. Len(r), m # n
               PROVE  KeysOf(r[m].tasks) \cap KeysOf(r[n].tasks) = {}
    OBVIOUS
  <2>1. m + 1 # n + 1
    BY <1>2
  <2> QED
    BY <1>1, <1>2, <1>5, <2>1
<1>8. BucketKeys(r) = BucketKeys(bs) \ KeysOf(bs[1].tasks)
  <2>0. 1 \in 1 .. Len(bs)
    BY <1>1
  <2>1. ASSUME NEW y \in BucketKeys(r)
        PROVE  y \in BucketKeys(bs) \ KeysOf(bs[1].tasks)
    <3>1. PICK n \in 1 .. Len(r) : y \in KeysOf(r[n].tasks)
      BY DEF BucketKeys
    <3>2. PICK m \in 1 .. Len(bs) : m = n + 1 /\ m # 1
      BY <1>2
    <3>3. y \in KeysOf(bs[m].tasks)
      BY <1>1, <3>1, <3>2
    <3> QED
      BY <1>5, <2>0, <3>2, <3>3 DEF BucketKeys
  <2>2. ASSUME NEW y \in BucketKeys(bs), y \notin KeysOf(bs[1].tasks) PROVE y \in BucketKeys(r)
    <3>1. PICK m \in 1 .. Len(bs) : y \in KeysOf(bs[m].tasks)
      BY DEF BucketKeys
    <3>2. m # 1
      BY <2>2, <3>1
    <3> QED
      BY <1>3, <3>1, <3>2 DEF BucketKeys
  <2> QED
    BY <2>1, <2>2
<1> QED
  BY <1>1, <1>6, <1>7, <1>8 DEF r, Sorted

\* A list is taken apart.
LEMMA SplitOnce ==
    ASSUME NEW S, NEW ts \in Seq(S), Once(ts), NEW a \in 0 .. Len(ts)
    PROVE  /\ SubSeq(ts, 1, a) \in Seq(S) /\ SubSeq(ts, a + 1, Len(ts)) \in Seq(S)
           /\ Len(SubSeq(ts, 1, a)) = a
           /\ Once(SubSeq(ts, 1, a)) /\ Once(SubSeq(ts, a + 1, Len(ts)))
           /\ KeysOf(SubSeq(ts, 1, a)) \cap KeysOf(SubSeq(ts, a + 1, Len(ts))) = {}
           /\ KeysOf(ts) = KeysOf(SubSeq(ts, 1, a)) \cup KeysOf(SubSeq(ts, a + 1, Len(ts)))
<1> DEFINE r == SubSeq(ts, 1, a)
           q == SubSeq(ts, a + 1, Len(ts))
<1>1. PICK b \in Nat : b = Len(ts)
  BY LenProperties
<1>2. a \in Nat /\ a <= b /\ 1 .. a \subseteq 1 .. b /\ a + 1 .. b \subseteq 1 .. b
  BY <1>1
<1>3. \A n \in 1 .. b : ts[n] \in S
  BY <1>1, ElementOfSeq
<1>4. r \in Seq(S) /\ Len(r) = a /\ \A n \in 1 .. a : r[n] = ts[n]
  <2>1. \A n \in 1 .. a : ts[n] \in S
    BY <1>2, <1>3
  <2>2. /\ r \in Seq(S)
        /\ Len(r) = IF 1 <= a THEN a - 1 + 1 ELSE 0
        /\ \A n \in 1 .. a - 1 + 1 : r[n] = ts[1 + n - 1]
    BY <1>2, <2>1, SubSeqProperties
  <2>3. Len(r) = a
    BY <1>2, <2>2
  <2>4. \A n \in 1 .. a : n \in 1 .. a - 1 + 1 /\ 1 + n - 1 = n
    BY <1>2
  <2> QED
    BY <2>2, <2>3, <2>4
<1>5. q \in Seq(S) /\ Len(q) = b - a /\ \A n \in 1 .. b - a : q[n] = ts[a + n]
  <2> DEFINE c == a + 1
  <2>1. c \in Nat /\ \A n \in c .. b : ts[n] \in S
    BY <1>2, <1>3
  <2> HIDE DEF c
  <2>5. q = SubSeq(ts, c, b)
    BY <1>1 DEF c
  <2>2. /\ q \in Seq(S)
        /\ Len(q) = IF c <= b THEN b - c + 1 ELSE 0
        /\ \A n \in 1 .. b - c + 1 : q[n] = ts[c + n - 1]
    BY <1>1, <2>1, <2>5, SubSeqProperties
  <2>3. Len(q) = b - a
    BY <1>1, <1>2, <2>2 DEF c
  <2>4. \A n \in 1 .. b - a : n \in 1 .. b - c + 1 /\ c + n - 1 = a + n
    BY <1>1, <1>2 DEF c
  <2> QED
    BY <2>2, <2>3, <2>4
<1> HIDE DEF r, q
<1>6. \A m, n \in 1 .. b : Key(ts[m]) = Key(ts[n]) => m = n
  BY <1>1 DEF Once
<1>7. \A n \in 1 .. b - a : a + n \in 1 .. b /\ ~(a + n \in 1 .. a) /\ n \in Int
  BY <1>1, <1>2
<1>8. \A n \in 1 .. b : n \in 1 .. a \/ (n - a \in 1 .. b - a /\ a + (n - a) = n)
  BY <1>1, <1>2
<1>9. Once(r)
  BY <1>2, <1>4, <1>6 DEF Once
<1>10. Once(q)
  <2> SUFFICES ASSUME NEW m \in 1 .. b - a, NEW n \in 1 .. b - a, Key(q[m]) = Key(q[n])
               PROVE  m = n
    BY <1>5 DEF Once
  <2>1. a + m = a + n
    BY <1>5, <1>6, <1>7
  <2> QED
    BY <1>2, <1>7, <2>1
<1>11. KeysOf(r) = {Key(ts[n]) : n \in 1 .. a}
  BY <1>4 DEF KeysOf
<1>12. KeysOf(q) = {Key(ts[a + n]) : n \in 1 .. b - a}
  BY <1>5 DEF KeysOf
<1>13. KeysOf(r) \cap KeysOf(q) = {}
  BY <1>2, <1>6, <1>7, <1>11, <1>12
<1>14. KeysOf(ts) = KeysOf(r) \cup KeysOf(q)
  <2>1. KeysOf(ts) = {Key(ts[n]) : n \in 1 .. b}
    BY <1>1 DEF KeysOf
  <2>2. ASSUME NEW y \in KeysOf(ts) PROVE y \in KeysOf(r) \cup KeysOf(q)
    <3>1. PICK n \in 1 .. b : y = Key(ts[n])
      BY <2>1
    <3>2. CASE n \in 1 .. a
      BY <1>11, <3>1, <3>2
    <3>3. CASE n \notin 1 .. a
      <4>1. PICK m \in 1 .. b - a : a + m = n
        BY <1>8, <3>3
      <4> QED
        BY <1>12, <3>1, <4>1
    <3> QED
      BY <3>2, <3>3
  <2> QED
    BY <1>2, <1>7, <1>11, <1>12, <2>1, <2>2
<1> QED
  BY <1>4, <1>5, <1>9, <1>10, <1>13, <1>14 DEF r, q

\* A gathered group is one.
LEMMA TaskGathered ==
    ASSUME NEW j \in Jobs, NEW w \in DOMAIN j.trees, NEW out, OutOK(out),
           NEW root \in Fofs(j.trees[w])
    PROVE  /\ Task(w, j.trees[w], out, root) \in Gathered(j)
           /\ Key(Task(w, j.trees[w], out, root)) = <<w, root>>
           /\ <<w, root>> \in GroupsIn(j)
<1> DEFINE task == Task(w, j.trees[w], out, root)
<1>1. TreeOK(j.trees[w])
  BY TreesOfJob
<1>2. TaskOK(task) /\ Rooted(task.states, root) /\ task.w = w /\ task.root = root
  BY <1>1, TaskIsOK
<1>3. root \in Halos
  BY <1>1, ChainOfGroup
<1> HIDE DEF task
<1>4. <<w, root>> \in GroupsIn(j) /\ Key(task) = <<w, root>>
  BY <1>2, <1>3 DEF GroupsIn, Key
<1>5. task.states \in Seq(Sound) /\ Len(task.states) \in Nat
  BY <1>2, LenProperties DEF TaskOK
<1>6. Len(task.states) > 0
  BY <1>2, <1>5 DEF Rooted
<1>7. task \in [w : DOMAIN j.trees, root : Halos, states : Seq(Sound),
                tangents : Seq(SUBSET Halos), segments : Seq(Halos \X Nat \X Nat)]
  BY <1>2, <1>3 DEF TaskOK, Beside
<1> QED
  BY <1>2, <1>4, <1>6, <1>7 DEF Gathered, task

\* The padded count of a group is a number of members.
LEMMA BinIsCount ==
    ASSUME job \in Jobs, NEW n \in Nat, n > 0
    PROVE  MemberBin(n) \in Nat \ {0}
<1>1. MemberBin(n) = n \/ MemberBin(n) = PowerAtLeast(n)
  BY DEF MemberBin
<1>2. PowerAtLeast(n) \in Nat /\ PowerAtLeast(n) >= n
  BY PowerIsEnough
<1> QED
  BY <1>1, <1>2

\* The lesser of two numbers, and the greater.
LEMMA MinOfTwo ==
    ASSUME NEW a \in Int, NEW b \in Int
    PROVE  Min({a, b}) \in {a, b} /\ Max({a, b}) \in {a, b} /\ Max({a, b}) >= a
<1>1. Min({a, b}) \in {a, b}
  <2>1. \E x \in {a, b} : \A y \in {a, b} : x <= y
    OBVIOUS
  <2> QED
    BY <2>1 DEF Min
<1>2. Max({a, b}) \in {a, b} /\ \A y \in {a, b} : Max({a, b}) >= y
  <2>1. \E x \in {a, b} : \A y \in {a, b} : x >= y
    OBVIOUS
  <2> QED
    BY <2>1 DEF Max
<1> QED
  BY <1>1, <1>2

\* A batch has room for one group at least.
LEMMA ShapeIsNat ==
    ASSUME job \in Jobs, NEW count \in Nat \ {0}, NEW waiting \in Nat
    PROVE  ShapeBatch(count, waiting) \in Nat
<1> DEFINE share == job.maxMembers \div count
           least == Min({job.batchSize, share})
           allowed == Max({1, least})
<1>1. job.batchSize \in Nat /\ job.maxMembers \in Nat
  BY JobsAssumption
<1>2. share \in Int
  BY <1>1
<1> HIDE DEF share
<1>3. least \in Int
  <2>1. PICK a \in Int, b \in Int : a = job.batchSize /\ b = share
    BY <1>1, <1>2
  <2>2. Min({a, b}) \in {a, b}
    BY MinOfTwo
  <2> QED
    BY <2>1, <2>2
<1> HIDE DEF least
<1>4. allowed \in Nat
  <2>1. allowed \in {1, least} /\ allowed >= 1
    BY <1>3, MinOfTwo
  <2> HIDE DEF allowed
  <2> QED
    BY <1>3, <2>1
<1>5. ShapeBatch(count, waiting) = allowed \/ ShapeBatch(count, waiting) = Min({allowed, PowerAtLeast(waiting)})
  BY DEF ShapeBatch, allowed, least, share
<1> HIDE DEF allowed
<1>6. PowerAtLeast(waiting) \in Nat
  BY PowerIsEnough
<1>7. Min({allowed, PowerAtLeast(waiting)}) \in Nat
  <2>1. PICK a \in Nat, b \in Nat : a = allowed /\ b = PowerAtLeast(waiting)
    BY <1>4, <1>6
  <2>2. Min({a, b}) \in {a, b}
    BY MinOfTwo
  <2> QED
    BY <2>1, <2>2
<1> QED
  BY <1>4, <1>5, <1>7

\* A group joins the bucket of its count.
LEMMA BucketedFacts ==
    ASSUME job \in Jobs, buckets \in Seq(BucketOf(job)), Sorted(buckets),
           NEW task \in Gathered(job), Key(task) \notin BucketKeys(buckets)
    PROVE  /\ Bucketed(task) \in Seq(BucketOf(job)) /\ Sorted(Bucketed(task))
           /\ BucketKeys(Bucketed(task)) = BucketKeys(buckets) \cup {Key(task)}
<1> DEFINE count == MemberBin(Len(task.states))
           I == {n \in 1 .. Len(buckets) : buckets[n].count = count}
           at == IF I # {} THEN Min(I) ELSE 0
           new == [count |-> count, shape |-> 0, tasks |-> <<task>>]
           B == BucketOf(job)
<1>1. SelectInSeq(buckets, LAMBDA b : b.count = count) = at
  BY DEF SelectInSeq
<1>2. Bucketed(task) = IF at = 0 THEN Append(buckets, new)
                       ELSE [buckets EXCEPT ![at].tasks = Append(@, task)]
  <2> HIDE DEF I
  <2> QED
    BY <1>1 DEF Bucketed
<1>3. Len(buckets) \in Nat
  BY LenProperties
<1>4. count \in Nat \ {0}
  <2>1. task.states \in Seq(Sound) /\ Len(task.states) > 0
    BY DEF Gathered
  <2>2. Len(task.states) \in Nat
    BY <2>1, LenProperties
  <2> QED
    BY <2>1, <2>2, BinIsCount
<1> HIDE DEF count
<1>5. at = 0 \/ at \in 1 .. Len(buckets)
  <2>1. CASE I # {}
    <3>1. I \in SUBSET Nat
      BY <1>3
    <3>2. \A n \in I : n \in 1 .. Len(buckets)
      OBVIOUS
    <3> HIDE DEF I
    <3>3. \E x \in I : \A y \in I : x <= y
      BY <2>1, <3>1, LeastElement
    <3>4. Min(I) \in I
      BY <3>3 DEF Min
    <3> QED
      BY <2>1, <3>2, <3>4
  <2>2. CASE I = {}
    BY <2>2
  <2> QED
    BY <2>1, <2>2
<1> HIDE DEF at
<1>6. CASE at = 0
  <2>1. <<task>> \in Seq(Gathered(job)) /\ Once(<<task>>) /\ KeysOf(<<task>>) = {Key(task)}
    BY OneOnce
  <2> DEFINE ts == <<task>>
  <2> HIDE DEF ts
  <2>2. new.tasks = ts /\ new \in B
    BY <1>4, <2>1 DEF BucketOf, ts
  <2>3. Once(new.tasks) /\ KeysOf(new.tasks) = {Key(task)}
    BY <2>1, <2>2 DEF ts
  <2> HIDE DEF new, B
  <2>4. KeysOf(new.tasks) \cap BucketKeys(buckets) = {}
    BY <2>3
  <2>5. buckets \in Seq(B)
    BY DEF B
  <2>6. /\ Append(buckets, new) \in Seq(B) /\ Sorted(Append(buckets, new))
        /\ BucketKeys(Append(buckets, new)) = BucketKeys(buckets) \cup KeysOf(new.tasks)
    BY <2>2, <2>3, <2>4, <2>5, AppendSorted
  <2> QED
    BY <1>2, <1>6, <2>3, <2>6 DEF B
<1>7. CASE at \in 1 .. Len(buckets)
  <2> DEFINE b == buckets[at]
             ts == b.tasks
             us == Append(ts, task)
             c == [b EXCEPT !.tasks = us]
  <2>1. at # 0
    BY <1>3, <1>7
  <2>2. Bucketed(task) = [buckets EXCEPT ![at] = c]
    BY <1>2, <2>1
  <2>3. b \in B
    BY <1>7, ElementOfSeq
  <2> HIDE DEF b
  <2>4. ts \in Seq(Gathered(job))
    BY <2>3 DEF BucketOf
  <2>5. Once(ts) /\ Key(task) \notin KeysOf(ts)
    <3>1. Once(buckets[at].tasks) /\ KeysOf(buckets[at].tasks) \subseteq BucketKeys(buckets)
      BY <1>7 DEF Sorted, BucketKeys
    <3> QED
      BY <3>1 DEF b
  <2>6. us \in Seq(Gathered(job)) /\ Once(us) /\ KeysOf(us) = KeysOf(ts) \cup {Key(task)}
    <3> HIDE DEF ts
    <3> QED
      BY <2>4, <2>5, AppendOnce
  <2> HIDE DEF us
  <2>7. c \in B /\ c.tasks = us
    BY <2>3, <2>6 DEF BucketOf
  <2> HIDE DEF c
  <2>8. Away(c, buckets, at)
    <3> SUFFICES ASSUME NEW n \in 1 .. Len(buckets), n # at
                 PROVE  KeysOf(c.tasks) \cap KeysOf(buckets[n].tasks) = {}
      BY DEF Away
    <3>1. KeysOf(buckets[n].tasks) \cap KeysOf(buckets[at].tasks) = {}
      BY <1>7 DEF Sorted
    <3>2. Key(task) \notin KeysOf(buckets[n].tasks)
      BY DEF BucketKeys
    <3>3. KeysOf(c.tasks) = KeysOf(buckets[at].tasks) \cup {Key(task)}
      BY <2>6, <2>7 DEF b
    <3> QED
      BY <3>1, <3>2, <3>3
  <2>9. Once(c.tasks)
    BY <2>6, <2>7
  <2> HIDE DEF B
  <2>10. buckets \in Seq(B)
    BY DEF B
  <2>11. PICK r : r = [buckets EXCEPT ![at] = c]
    OBVIOUS
  <2>15. Replaces(r, buckets, at, c, B)
    BY <1>7, <2>7, <2>8, <2>9, <2>10, <2>11, ReplaceSorted
  <2>12. KeysOf(buckets[at].tasks) \subseteq BucketKeys(buckets)
    BY <1>7 DEF BucketKeys
  <2>13. KeysOf(c.tasks) = KeysOf(buckets[at].tasks) \cup {Key(task)}
    BY <2>6, <2>7 DEF b
  <2>14. (BucketKeys(buckets) \ KeysOf(buckets[at].tasks)) \cup KeysOf(c.tasks)
            = BucketKeys(buckets) \cup {Key(task)}
    BY <2>12, <2>13
  <2> QED
    BY <2>2, <2>11, <2>14, <2>15, Zenon DEF B, Replaces
<1> QED
  BY <1>5, <1>6, <1>7

\* What a list of tasks becomes in the kernel.
LEMMA ResultInRuns ==
    ASSUME NEW j, NEW task \in Gathered(j), NEW count \in Nat, NEW doomed
    PROVE  [task |-> task,
            result |-> Kernel(PaddedTo(task, count).states, PaddedTo(task, count).tangents,
                              PaddedTo(task, count).root, doomed)] \in RunOf(j)
<1> DEFINE p == PaddedTo(task, count)
           result == Kernel(p.states, p.tangents, p.root, doomed)
           r == [task |-> task, result |-> result]
<1>1. TaskOK(task) /\ task.root \in Halos
  BY DEF Gathered
<1>2. Extends(p, task)
  BY <1>1, PaddedFacts
<1>3. p.root = task.root
  BY <1>2 DEF Extends
<1> HIDE DEF p
<1>4. ResultOK(result, task)
  BY <1>1, <1>2, <1>3, KernelResult
<1>5. DOMAIN result = {"states", "tangents"} /\ result = [states |-> result.states, tangents |-> result.tangents]
  BY DEF Kernel
<1> HIDE DEF result
<1>6. result.states \in Seq(GalaxyRecord) /\ result.tangents \in Seq(SUBSET Halos)
  BY <1>4 DEF ResultOK, Beside
<1>7. result \in [states : Seq(GalaxyRecord), tangents : Seq(SUBSET Halos)]
  BY <1>5, <1>6
<1>8. r.task = task /\ r.result = result /\ r \in [task : Gathered(j),
           result : [states : Seq(GalaxyRecord), tangents : Seq(SUBSET Halos)]]
  BY <1>7
<1> HIDE DEF r
<1>9. r \in RunOf(j)
  BY <1>4, <1>8 DEF RunOf
<1> QED
  BY <1>9 DEF r, result, p

\* One batch: it takes groups of the first bucket, and leaves the others.
LEMMA BatchRuns ==
    ASSUME job \in Jobs, buckets \in Seq(BucketOf(job)), Sorted(buckets), RunBatch
    PROVE  /\ batch' \in Seq(RunOf(job)) /\ RunOnce(batch')
           /\ buckets' \in Seq(BucketOf(job)) /\ Sorted(buckets')
           /\ BucketKeys(buckets') \cap RunKeys(batch') = {}
           /\ BucketKeys(buckets) = BucketKeys(buckets') \cup RunKeys(batch')
<1> DEFINE b == Head(buckets)
           ts == b.tasks
           shape == IF b.shape = 0 THEN ShapeBatch(b.count, Len(ts)) ELSE b.shape
           a == IF shape < Len(ts) THEN shape ELSE Len(ts)
           active == SubSeq(ts, 1, a)
           rest == SubSeq(ts, Len(active) + 1, Len(ts))
           fill == [n \in 1 .. shape - Len(active) |-> Last(active)]
           padded == active \o fill
           Result(task) == Kernel(PaddedTo(task, b.count).states, PaddedTo(task, b.count).tangents,
                                  PaddedTo(task, b.count).root, job.doomed[PaddedTo(task, b.count).w])
           results == [n \in DOMAIN padded |-> Result(padded[n])]
           taken == [n \in DOMAIN active |-> [task |-> active[n], result |-> results[n]]]
           c == [b EXCEPT !.tasks = rest, !.shape = shape]
           B == BucketOf(job)
           T == Gathered(job)
<1>1. buckets # <<>> /\ batch' = taken
      /\ buckets' = IF rest = <<>> THEN Tail(buckets) ELSE <<c>> \o Tail(buckets)
  BY DEF RunBatch, Taken
<1>2. /\ Len(buckets) \in Nat /\ 1 \in 1 .. Len(buckets) /\ b = buckets[1] /\ b \in B
  <2>1. buckets \in Seq(B)
    OBVIOUS
  <2> HIDE DEF B
  <2>2. Len(buckets) \in Nat /\ Len(buckets) # 0 /\ b = buckets[1]
    <3>1. buckets # <<>>
      BY <1>1, Zenon
    <3>2. Len(buckets) \in Nat
      BY <2>1, LenProperties
    <3>3. Len(buckets) # 0
      BY <2>1, <3>1, EmptySeq
    <3> QED
      BY <2>1, <3>1, <3>2, <3>3, HeadTailProperties
  <2>3. 1 \in 1 .. Len(buckets)
    BY <2>2
  <2>4. buckets[1] \in B
    BY <2>1, <2>3, ElementOfSeq
  <2> QED
    BY <2>2, <2>3, <2>4
<1>3. Once(ts)
  BY <1>2 DEF Sorted
<1>4. ts \in Seq(T) /\ b.count \in Nat \ {0} /\ b.shape \in Nat
  <2> HIDE DEF b
  <2> QED
    BY <1>2 DEF BucketOf
<1> HIDE DEF b
<1>5. Len(ts) \in Nat /\ shape \in Nat
  <2>1. Len(ts) \in Nat
    <3> HIDE DEF ts, T
    <3> QED
      BY <1>4, LenProperties
  <2>2. ShapeBatch(b.count, Len(ts)) \in Nat
    BY <1>4, <2>1, ShapeIsNat
  <2> QED
    BY <1>4, <2>1, <2>2
<1> HIDE DEF shape
<1>6. a \in 0 .. Len(ts) /\ (a = shape \/ a = Len(ts)) /\ a <= shape
  BY <1>5
<1> HIDE DEF a
<1>7. /\ active \in Seq(T) /\ SubSeq(ts, a + 1, Len(ts)) \in Seq(T) /\ Len(active) = a
      /\ Once(active) /\ Once(SubSeq(ts, a + 1, Len(ts)))
      /\ KeysOf(active) \cap KeysOf(SubSeq(ts, a + 1, Len(ts))) = {}
      /\ KeysOf(ts) = KeysOf(active) \cup KeysOf(SubSeq(ts, a + 1, Len(ts)))
  <2> HIDE DEF ts, T
  <2> QED
    BY <1>3, <1>4, <1>6, SplitOnce
<1>8. rest = SubSeq(ts, a + 1, Len(ts))
  <2> HIDE DEF active
  <2> QED
    BY <1>7
<1> HIDE DEF active, rest
<1>9. /\ rest \in Seq(T) /\ Once(rest) /\ KeysOf(active) \cap KeysOf(rest) = {}
      /\ KeysOf(ts) = KeysOf(active) \cup KeysOf(rest)
  BY <1>7, <1>8
<1>10. /\ DOMAIN active = 1 .. a /\ a \in Nat
       /\ \A n \in 1 .. a : active[n] \in T
  <2> HIDE DEF T
  <2> QED
    BY <1>7, LenProperties, ElementOfSeq
<1>11. ASSUME NEW n \in 1 .. a PROVE n \in DOMAIN padded /\ padded[n] = active[n]
  <2> DEFINE U == T \cup {Last(active)}
  <2>1. active \in Seq(U)
    <3>1. active \in [1 .. a -> U]
      BY <1>7, <1>10, LenProperties
    <3> QED
      BY <1>10, <3>1
  <2>2. PICK e \in Nat : e = shape - a
    BY <1>5, <1>6
  <2>3. fill \in Seq(U) /\ Len(fill) = e
    <3>1. fill = [m \in 1 .. e |-> Last(active)]
      BY <1>7, <2>2
    <3> HIDE DEF fill
    <3>2. fill \in [1 .. e -> U]
      BY <3>1
    <3> QED
      BY <3>2
  <2> HIDE DEF fill, U
  <2>4. Joins(padded, active, fill, U)
    BY <2>1, <2>3, ConcatJoins
  <2> HIDE DEF padded
  <2>5. padded \in Seq(U) /\ Len(padded) = a + e /\ padded[n] = active[n]
    BY <1>7, <2>3, <2>4 DEF Joins
  <2>6. n \in 1 .. a + e /\ DOMAIN padded = 1 .. Len(padded)
    BY <1>10, <2>5, LenProperties
  <2> QED
    BY <2>5, <2>6
<1> HIDE DEF padded
<1>12. ASSUME NEW n \in 1 .. a
       PROVE  taken[n] \in RunOf(job) /\ taken[n].task = active[n]
  <2>1. taken[n] = [task |-> active[n], result |-> Result(active[n])]
    BY <1>10, <1>11
  <2>2. active[n] \in T
    BY <1>10
  <2>3. [task |-> active[n], result |-> Result(active[n])] \in RunOf(job)
    BY <1>4, <2>2, ResultInRuns
  <2> HIDE DEF taken, Result
  <2> QED
    BY <2>1, <2>3
<1>13. taken \in Seq(RunOf(job)) /\ Len(taken) = a
  <2>1. taken = [n \in 1 .. a |-> taken[n]]
    BY <1>10
  <2> HIDE DEF taken
  <2>2. taken \in [1 .. a -> RunOf(job)]
    BY <1>12, <2>1
  <2> QED
    BY <1>10, <2>2
<1> HIDE DEF taken
<1>14. RunOnce(taken) /\ RunKeys(taken) = KeysOf(active)
  <2>1. RunOnce(taken)
    BY <1>7, <1>12, <1>13 DEF RunOnce, Once
  <2>2. RunKeys(taken) = KeysOf(active)
    BY <1>7, <1>12, <1>13 DEF RunKeys, KeysOf
  <2> QED
    BY <2>1, <2>2
<1>15. KeysOf(ts) \subseteq BucketKeys(buckets) /\ ts = buckets[1].tasks
  BY <1>2 DEF BucketKeys
<1>16. CASE rest = <<>>
  <2>1. KeysOf(rest) = {}
    <3>1. Len(rest) = 0
      BY <1>16
    <3>2. 1 .. 0 = {}
      OBVIOUS
    <3> QED
      BY <3>1, <3>2 DEF KeysOf
  <2>2. buckets' = Tail(buckets)
    BY <1>1, <1>16
  <2> HIDE DEF B, ts
  <2>3. /\ Tail(buckets) \in Seq(B) /\ Sorted(Tail(buckets))
        /\ BucketKeys(Tail(buckets)) = BucketKeys(buckets) \ KeysOf(buckets[1].tasks)
    <3>1. buckets \in Seq(B)
      BY DEF B
    <3> QED
      BY <1>1, <3>1, TailSorted
  <2>4. BucketKeys(buckets') = BucketKeys(buckets) \ KeysOf(ts)
    BY <1>15, <2>2, <2>3
  <2>5. KeysOf(ts) = RunKeys(batch')
    BY <1>1, <1>9, <1>14, <2>1
  <2> QED
    BY <1>1, <1>13, <1>14, <1>15, <2>2, <2>3, <2>4, <2>5 DEF B
<1>17. CASE rest # <<>>
  <2>1. c \in B /\ c.tasks = rest
    BY <1>2, <1>5, <1>9 DEF BucketOf
  <2> HIDE DEF c, B, ts
  <2>2. buckets \in Seq(B)
    BY DEF B
  <2>3. buckets' = [buckets EXCEPT ![1] = c]
    <3>1. buckets' = <<c>> \o Tail(buckets)
      BY <1>1, <1>17
    <3> QED
      BY <1>1, <2>1, <2>2, <3>1, HeadReplaced
  <2>4. Away(c, buckets, 1)
    <3> SUFFICES ASSUME NEW n \in 1 .. Len(buckets), n # 1
                 PROVE  KeysOf(c.tasks) \cap KeysOf(buckets[n].tasks) = {}
      BY DEF Away
    <3>1. KeysOf(buckets[n].tasks) \cap KeysOf(buckets[1].tasks) = {}
      BY <1>2 DEF Sorted
    <3> QED
      BY <1>9, <1>15, <2>1, <3>1
  <2>5. PICK r : r = [buckets EXCEPT ![1] = c]
    OBVIOUS
  <2>6. Replaces(r, buckets, 1, c, B)
    BY <1>2, <1>9, <2>1, <2>2, <2>4, <2>5, ReplaceSorted
  <2>7. BucketKeys(buckets') = (BucketKeys(buckets) \ KeysOf(ts)) \cup KeysOf(rest)
        /\ Sorted(buckets') /\ buckets' \in Seq(B)
    BY <1>15, <2>1, <2>3, <2>5, <2>6 DEF Replaces
  <2>8. RunKeys(batch') = KeysOf(active)
    BY <1>1, <1>14
  <2> QED
    BY <1>1, <1>9, <1>13, <1>14, <1>15, <2>7, <2>8 DEF B
<1> QED
  BY <1>16, <1>17, Zenon

-----------------------------------------------------------------------------
(* The inductive invariant of a call.                                        *)

TodoKeys(q) == {q[n] : n \in 1 .. Len(q)}

TodoOnce(q) == \A m, n \in 1 .. Len(q) : q[m] = q[n] => m = n

DoneKeys(j, e) == {g \in (DOMAIN j.trees) \X Halos : g[2] \in Range(e[g[1]])}

\* Every group up to snapshot s is in one of four places: to be gathered, in a
\* bucket, in the batch, or done; the first three are for groups of s only.
Accounted(j, s, T, B, R, D) ==
    /\ T \cap B = {} /\ T \cap R = {} /\ T \cap D = {}
    /\ B \cap R = {} /\ B \cap D = {} /\ R \cap D = {}
    /\ T \cup B \cup R \cup D \subseteq GroupsIn(j)
    /\ \A g \in T \cup B \cup R : SnapOf(j, g) = s
    /\ \A g \in GroupsIn(j) : SnapOf(j, g) <= s <=> g \in T \cup B \cup R \cup D

HalosHold ==
    /\ processed = [w \in Workspaces |-> processed[w]]
    /\ \A w \in Workspaces : OutOK(processed[w])

CallTypes ==
    /\ job \in Jobs /\ snapshot \in Int
    /\ todo \in Seq(GroupsIn(job))
    /\ buckets \in Seq(BucketOf(job)) /\ batch \in Seq(RunOf(job))
    /\ records \in [Workspaces -> Seq(Sound)]
    /\ evolved \in [Workspaces -> Seq(Halos)]
    /\ status \in {"running", "finished"}

CallOnce ==
    /\ TodoOnce(todo) /\ Sorted(buckets) /\ RunOnce(batch)
    /\ \A w \in Workspaces : IsInjective(evolved[w])

CallAccount ==
    Accounted(job, snapshot, TodoKeys(todo), BucketKeys(buckets), RunKeys(batch),
              DoneKeys(job, evolved))

CallEnds == status = "finished" => GroupsIn(job) \subseteq DoneKeys(job, evolved)

CallInv == HalosHold /\ CallTypes /\ CallOnce /\ CallAccount /\ CallEnds

\* Nothing is anywhere at first.
LEMMA NoKeys ==
    ASSUME NEW S
    PROVE  /\ <<>> \in Seq(S) /\ TodoKeys(<<>>) = {} /\ BucketKeys(<<>>) = {} /\ RunKeys(<<>>) = {}
           /\ TodoOnce(<<>>) /\ Sorted(<<>>) /\ RunOnce(<<>>)
<1>1. PICK q : q = <<>>
  OBVIOUS
<1>2. q \in Seq(S) /\ Len(q) = 0
  BY <1>1, EmptySeq
<1>3. \A n \in 1 .. Len(q) : FALSE
  BY <1>2
<1>4. TodoKeys(q) = {} /\ BucketKeys(q) = {} /\ RunKeys(q) = {}
  BY <1>3 DEF TodoKeys, BucketKeys, RunKeys
<1>5. TodoOnce(q) /\ Sorted(q) /\ RunOnce(q)
  BY <1>3 DEF TodoOnce, Sorted, RunOnce
<1> QED
  BY <1>1, <1>2, <1>4, <1>5

\* The invariant holds of a call's first state.
LEMMA CallBegins ==
    ASSUME CallInit
    PROVE  CallInv
<1>1. /\ job \in Jobs /\ snapshot = -1 /\ todo = <<>> /\ buckets = <<>> /\ batch = <<>>
      /\ processed = [w \in Workspaces |-> [h \in Halos |-> <<>>]]
      /\ records = [w \in Workspaces |-> <<>>] /\ evolved = [w \in Workspaces |-> <<>>]
      /\ status = "running"
  BY DEF CallInit, Workspaces
<1>2. HalosHold
  <2> DEFINE none == [h \in Halos |-> <<>>]
  <2>1. OutOK(none)
    <3>1. <<>> \in Seq(Placed) /\ Len(<<>>) = 0
      BY EmptySeq
    <3>2. \A h \in Halos : none[h] = <<>>
      OBVIOUS
    <3>3. none \in [Halos -> Seq(Placed)]
      BY <3>1
    <3> HIDE DEF none
    <3> QED
      BY <3>1, <3>2, <3>3 DEF OutOK
  <2>2. processed = [w \in Workspaces |-> none]
    BY <1>1
  <2> HIDE DEF none
  <2>3. \A w \in Workspaces : processed[w] = none
    BY <2>2
  <2>4. processed = [w \in Workspaces |-> processed[w]]
    BY <2>2
  <2> QED
    BY <2>1, <2>3, <2>4 DEF HalosHold
<1>3. CallTypes
  <2>1. records \in [Workspaces -> Seq(Sound)]
    BY <1>1, EmptySeq
  <2>2. evolved \in [Workspaces -> Seq(Halos)]
    BY <1>1, EmptySeq
  <2>3. todo \in Seq(GroupsIn(job)) /\ buckets \in Seq(BucketOf(job)) /\ batch \in Seq(RunOf(job))
    BY <1>1, NoKeys
  <2>4. snapshot \in Int
    BY <1>1
  <2> QED
    BY <1>1, <2>1, <2>2, <2>3, <2>4 DEF CallTypes
<1>4. CallOnce
  <2>1. \A w \in Workspaces : evolved[w] = <<>>
    BY <1>1
  <2>2. IsInjective(<<>>)
    BY DEF IsInjective
  <2>3. \A w \in Workspaces : IsInjective(evolved[w])
    BY <2>1, <2>2
  <2> QED
    BY <1>1, <2>3, NoKeys DEF CallOnce
<1>5. CallAccount
  <2>1. \A w \in Workspaces : Range(evolved[w]) = {}
    <3>1. \A w \in Workspaces : evolved[w] = <<>>
      BY <1>1
    <3>2. Range(<<>>) = {}
      BY DEF Range
    <3> QED
      BY <3>1, <3>2
  <2>2. DoneKeys(job, evolved) = {}
    BY <2>1 DEF DoneKeys, Workspaces
  <2>3. \A g \in GroupsIn(job) : SnapOf(job, g) \in Nat
    BY <1>1, TreesOfJob
  <2>4. TodoKeys(todo) = {} /\ BucketKeys(buckets) = {} /\ RunKeys(batch) = {}
    BY <1>1, NoKeys
  <2>5. \A g \in GroupsIn(job) : ~(SnapOf(job, g) <= snapshot)
    BY <1>1, <2>3
  <2> QED
    BY <2>2, <2>4, <2>5 DEF CallAccount, Accounted
<1>6. CallEnds
  BY <1>1 DEF CallEnds
<1> QED
  BY <1>2, <1>3, <1>4, <1>5, <1>6 DEF CallInv

\* The least of the following snapshots.
LEMMA NextIsLeast ==
    ASSUME CallInv, Following # {}
    PROVE  /\ Min(Following) \in Int /\ Min(Following) > snapshot
           /\ \A g \in GroupsIn(job) : SnapOf(job, g) > snapshot => SnapOf(job, g) >= Min(Following)
<1>1. job \in Jobs /\ snapshot \in Int
  BY DEF CallInv, CallTypes
<1>2. \A w \in DOMAIN job.trees : job.trees[w].snap \in [Halos -> Nat]
  BY <1>1, TreesOfJob, LinksOfTree
<1>3. Snapshots \in SUBSET Nat
  <2> SUFFICES ASSUME NEW s \in Snapshots PROVE s \in Nat
    OBVIOUS
  <2>1. PICK t \in Range(job.trees), h \in Halos : s = t.snap[h]
    BY DEF Snapshots
  <2>2. PICK w \in DOMAIN job.trees : t = job.trees[w]
    BY <2>1 DEF Range
  <2> QED
    BY <1>2, <2>1, <2>2
<1>4. Following \in SUBSET Nat
  BY <1>3 DEF Following
<1>5. \E s \in Following : \A r \in Following : s <= r
  BY <1>4, LeastElement
<1>6. Min(Following) \in Following /\ \A r \in Following : Min(Following) <= r
  BY <1>5 DEF Min
<1>7. Min(Following) \in Int /\ Min(Following) > snapshot
  BY <1>4, <1>6 DEF Following
<1>8. ASSUME NEW g \in GroupsIn(job), SnapOf(job, g) > snapshot
      PROVE  SnapOf(job, g) >= Min(Following)
  <2>1. g[1] \in DOMAIN job.trees /\ g[2] \in Halos
    BY DEF GroupsIn
  <2>2. job.trees[g[1]] \in Range(job.trees)
    BY <2>1 DEF Range
  <2>3. SnapOf(job, g) \in Following
    BY <1>8, <2>1, <2>2 DEF SnapOf, Snapshots, Following
  <2>4. SnapOf(job, g) \in Nat
    BY <1>1, TreesOfJob
  <2> QED
    BY <1>6, <1>7, <2>3, <2>4
<1> QED
  BY <1>7, <1>8

\* Every group has a snapshot that follows or was done.
LEMMA NothingFollows ==
    ASSUME CallInv, Following = {}, NEW g \in GroupsIn(job)
    PROVE  SnapOf(job, g) <= snapshot
<1>1. job \in Jobs /\ snapshot \in Int
  BY DEF CallInv, CallTypes
<1>2. SnapOf(job, g) \in Nat
  BY <1>1, TreesOfJob
<1>3. g[1] \in DOMAIN job.trees /\ g[2] \in Halos
  BY DEF GroupsIn
<1>4. job.trees[g[1]] \in Range(job.trees)
  BY <1>3 DEF Range
<1>5. SnapOf(job, g) \in Snapshots
  BY <1>3, <1>4 DEF SnapOf, Snapshots
<1>6. ~(SnapOf(job, g) > snapshot)
  BY <1>5 DEF Following
<1> QED
  BY <1>1, <1>2, <1>6

\* The next snapshot: nothing waits, and every group before it is done.
LEMMA NextSnapshotKeeps ==
    ASSUME CallInv, NextSnapshot
    PROVE  CallInv'
<1>1. /\ status = "running" /\ todo = <<>> /\ buckets = <<>> /\ batch = <<>>
      /\ UNCHANGED <<job, processed, buckets, batch, records, evolved>>
  BY DEF NextSnapshot
<1>2. TodoKeys(todo) = {} /\ BucketKeys(buckets) = {} /\ RunKeys(batch) = {}
  BY <1>1, NoKeys
<1>3. Workspaces' = Workspaces
  BY <1>1 DEF Workspaces
<1>4. HalosHold'
  BY <1>1, <1>3 DEF CallInv, HalosHold
<1>5. CASE Following = {}
  <2>1. status' = "finished" /\ UNCHANGED <<snapshot, todo>>
    BY <1>5 DEF NextSnapshot
  <2>2. CallTypes'
    BY <1>1, <1>3, <2>1 DEF CallInv, CallTypes
  <2>3. CallOnce'
    BY <1>1, <1>3, <2>1 DEF CallInv, CallOnce
  <2>4. CallAccount'
    BY <1>1, <2>1 DEF CallInv, CallAccount
  <2>5. GroupsIn(job) \subseteq DoneKeys(job, evolved)
    <3>1. \A g \in GroupsIn(job) : SnapOf(job, g) <= snapshot
      BY <1>5, NothingFollows
    <3> QED
      BY <1>2, <3>1 DEF CallInv, CallAccount, Accounted
  <2>6. CallEnds'
    BY <1>1, <2>5 DEF CallEnds
  <2> QED
    BY <1>4, <2>2, <2>3, <2>4, <2>6 DEF CallInv
<1>6. CASE Following # {}
  <2>1. snapshot' = Min(Following) /\ todo' = GroupsAt(snapshot') /\ status' = status
    BY <1>6 DEF NextSnapshot
  <2>2. /\ snapshot' \in Int /\ snapshot' > snapshot
        /\ \A g \in GroupsIn(job) : SnapOf(job, g) > snapshot => SnapOf(job, g) >= snapshot'
    BY <1>6, <2>1, NextIsLeast
  <2>3. job \in Jobs /\ snapshot \in Int
    BY DEF CallInv, CallTypes
  <2>4. PICK s : s = snapshot'
    OBVIOUS
  <2>5. GroupsOf(todo', job, s)
    <3>1. todo' = GroupsAt(s)
      BY <2>1, <2>4
    <3> QED
      BY <2>3, <3>1, GroupsAtFacts
  <2>6. CallTypes'
    BY <1>1, <1>3, <2>1, <2>2, <2>5 DEF CallInv, CallTypes, GroupsOf
  <2>7. CallOnce'
    BY <1>1, <1>3, <2>5 DEF CallInv, CallOnce, GroupsOf, TodoOnce
  <2>8. CallAccount'
    <3> DEFINE T == TodoKeys(todo')
               D == DoneKeys(job, evolved)
    <3>1. Accounted(job, snapshot, {}, {}, {}, D)
      BY <1>2 DEF CallInv, CallAccount
    <3>2. T = {g \in GroupsIn(job) : SnapOf(job, g) = s}
      <4>1. \A n \in 1 .. Len(todo') : todo'[n] \in GroupsIn(job)
        BY <2>5, ElementOfSeq DEF GroupsOf
      <4> QED
        BY <2>5, <4>1 DEF GroupsOf, TodoKeys
    <3> HIDE DEF T, D
    <3>3. D \subseteq GroupsIn(job) /\ \A g \in GroupsIn(job) : SnapOf(job, g) <= snapshot <=> g \in D
      BY <3>1 DEF Accounted
    <3>4. \A g \in GroupsIn(job) : SnapOf(job, g) \in Int
      BY <2>3, TreesOfJob
    <3>5. \A g \in GroupsIn(job) : SnapOf(job, g) <= s <=> g \in T \cup D
      BY <2>2, <2>3, <2>4, <3>2, <3>3, <3>4
    <3>6. T \cap D = {}
      BY <2>2, <2>3, <2>4, <3>2, <3>3, <3>4
    <3>7. Accounted(job, s, T, {}, {}, D)
      BY <3>2, <3>3, <3>5, <3>6 DEF Accounted
    <3>8. T = TodoKeys(todo') /\ D = DoneKeys(job', evolved') /\ job' = job
          /\ BucketKeys(buckets') = {} /\ RunKeys(batch') = {}
      BY <1>1, <1>2 DEF T, D
    <3> QED
      BY <2>4, <3>7, <3>8 DEF CallAccount
  <2>9. CallEnds'
    BY <1>1, <2>1 DEF CallEnds
  <2> QED
    BY <1>4, <2>6, <2>7, <2>8, <2>9 DEF CallInv
<1> QED
  BY <1>5, <1>6

\* The first of a list of groups is taken from it.
LEMMA TodoTail ==
    ASSUME NEW S, NEW q \in Seq(S), TodoOnce(q), q # <<>>
    PROVE  /\ Head(q) \in S /\ Head(q) \in TodoKeys(q)
           /\ Tail(q) \in Seq(S) /\ TodoOnce(Tail(q))
           /\ TodoKeys(Tail(q)) = TodoKeys(q) \ {Head(q)}
<1> DEFINE r == Tail(q)
<1>1. /\ Len(q) \in Nat /\ Len(q) # 0 /\ r \in Seq(S) /\ Len(r) = Len(q) - 1
      /\ \A n \in 1 .. Len(r) : r[n] = q[n + 1]
      /\ Head(q) = q[1]
  BY LenProperties, EmptySeq, HeadTailProperties
<1> HIDE DEF r
<1>2. 1 \in 1 .. Len(q)
  BY <1>1
<1>3. Head(q) \in S /\ Head(q) \in TodoKeys(q)
  BY <1>1, <1>2, ElementOfSeq DEF TodoKeys
<1>4. \A n \in 1 .. Len(r) : n + 1 \in 1 .. Len(q) /\ n + 1 # 1 /\ n \in Int
  BY <1>1
<1>5. \A m \in 1 .. Len(q) : m # 1 => \E n \in 1 .. Len(r) : r[n] = q[m]
  <2> SUFFICES ASSUME NEW m \in 1 .. Len(q), m # 1
               PROVE  \E n \in 1 .. Len(r) : r[n] = q[m]
    OBVIOUS
  <2>1. m - 1 \in 1 .. Len(r) /\ m - 1 + 1 = m
    BY <1>1
  <2>2. r[m - 1] = q[m]
    BY <1>1, <2>1
  <2> QED
    BY <2>1, <2>2
<1>6. TodoOnce(r)
  <2> SUFFICES ASSUME NEW m \in 1 .. Len(r), NEW n \in 1 .. Len(r), r[m] = r[n] PROVE m = n
    BY DEF TodoOnce
  <2>1. m + 1 = n + 1
    BY <1>1, <1>4 DEF TodoOnce
  <2> QED
    BY <1>4, <2>1
<1>7. TodoKeys(r) = TodoKeys(q) \ {Head(q)}
  <2>1. ASSUME NEW g \in TodoKeys(r) PROVE g \in TodoKeys(q) /\ g # Head(q)
    <3>1. PICK n \in 1 .. Len(r) : g = r[n]
      BY DEF TodoKeys
    <3>2. PICK m \in 1 .. Len(q) : m = n + 1 /\ m # 1
      BY <1>4
    <3>3. g = q[m]
      BY <1>1, <3>1, <3>2
    <3> QED
      BY <1>1, <1>2, <3>2, <3>3 DEF TodoKeys, TodoOnce
  <2>2. ASSUME NEW g \in TodoKeys(q), g # Head(q) PROVE g \in TodoKeys(r)
    <3>1. PICK m \in 1 .. Len(q) : g = q[m]
      BY DEF TodoKeys
    <3>2. m # 1
      BY <1>1, <2>2, <3>1
    <3> QED
      BY <1>5, <3>1, <3>2 DEF TodoKeys
  <2> QED
    BY <2>1, <2>2
<1> QED
  BY <1>1, <1>3, <1>6, <1>7 DEF r

\* The first of a batch is taken from it.
LEMMA RunTail ==
    ASSUME NEW S, NEW q \in Seq(S), RunOnce(q), q # <<>>
    PROVE  /\ Head(q) \in S /\ Key(Head(q).task) \in RunKeys(q)
           /\ Tail(q) \in Seq(S) /\ RunOnce(Tail(q))
           /\ RunKeys(Tail(q)) = RunKeys(q) \ {Key(Head(q).task)}
<1> DEFINE r == Tail(q)
<1>1. /\ Len(q) \in Nat /\ Len(q) # 0 /\ r \in Seq(S) /\ Len(r) = Len(q) - 1
      /\ \A n \in 1 .. Len(r) : r[n] = q[n + 1]
      /\ Head(q) = q[1]
  BY LenProperties, EmptySeq, HeadTailProperties
<1> HIDE DEF r
<1>2. 1 \in 1 .. Len(q)
  BY <1>1
<1>3. Head(q) \in S /\ Key(Head(q).task) \in RunKeys(q)
  BY <1>1, <1>2, ElementOfSeq DEF RunKeys
<1>4. \A n \in 1 .. Len(r) : n + 1 \in 1 .. Len(q) /\ n + 1 # 1 /\ n \in Int
  BY <1>1
<1>5. \A m \in 1 .. Len(q) : m # 1 => \E n \in 1 .. Len(r) : r[n] = q[m]
  <2> SUFFICES ASSUME NEW m \in 1 .. Len(q), m # 1
               PROVE  \E n \in 1 .. Len(r) : r[n] = q[m]
    OBVIOUS
  <2>1. m - 1 \in 1 .. Len(r) /\ m - 1 + 1 = m
    BY <1>1
  <2>2. r[m - 1] = q[m]
    BY <1>1, <2>1
  <2> QED
    BY <2>1, <2>2
<1>6. RunOnce(r)
  <2> SUFFICES ASSUME NEW m \in 1 .. Len(r), NEW n \in 1 .. Len(r),
                      Key(r[m].task) = Key(r[n].task)
               PROVE  m = n
    BY DEF RunOnce
  <2>1. m + 1 = n + 1
    BY <1>1, <1>4 DEF RunOnce
  <2> QED
    BY <1>4, <2>1
<1>7. RunKeys(r) = RunKeys(q) \ {Key(Head(q).task)}
  <2>1. ASSUME NEW g \in RunKeys(r) PROVE g \in RunKeys(q) /\ g # Key(Head(q).task)
    <3>1. PICK n \in 1 .. Len(r) : g = Key(r[n].task)
      BY DEF RunKeys
    <3>2. PICK m \in 1 .. Len(q) : m = n + 1 /\ m # 1
      BY <1>4
    <3>3. g = Key(q[m].task)
      BY <1>1, <3>1, <3>2
    <3> QED
      BY <1>1, <1>2, <3>2, <3>3 DEF RunKeys, RunOnce
  <2>2. ASSUME NEW g \in RunKeys(q), g # Key(Head(q).task) PROVE g \in RunKeys(r)
    <3>1. PICK m \in 1 .. Len(q) : g = Key(q[m].task)
      BY DEF RunKeys
    <3>2. m # 1
      BY <1>1, <2>2, <3>1
    <3>3. PICK n \in 1 .. Len(r) : r[n] = q[m]
      BY <1>5, <3>2
    <3> QED
      BY <3>1, <3>3 DEF RunKeys
  <2> QED
    BY <2>1, <2>2
<1> QED
  BY <1>1, <1>3, <1>6, <1>7 DEF r

\* _prepare_group(): a group goes from the list into its bucket.
LEMMA PrepareGroupKeeps ==
    ASSUME CallInv, PrepareGroup
    PROVE  CallInv'
<1> DEFINE w == Head(todo)[1]
           root == Head(todo)[2]
           t == job.trees[w]
           task == Task(w, t, processed[w], root)
<1>0. status = "running"
  BY DEF PrepareGroup
<1>1. /\ status = "running" /\ todo # <<>>
      /\ IF Raises(t, processed[w], root)
         THEN status' = "error" /\ UNCHANGED <<todo, processed, buckets>>
         ELSE /\ todo' = Tail(todo)
              /\ buckets' = Bucketed(task)
              /\ processed' = [processed EXCEPT ![w] = Discarded(t, @, root)]
              /\ UNCHANGED status
      /\ UNCHANGED <<job, snapshot, batch, records, evolved>>
  BY DEF PrepareGroup
<1>2. job \in Jobs /\ todo \in Seq(GroupsIn(job)) /\ TodoOnce(todo)
  BY DEF CallInv, CallTypes, CallOnce
<1>3. /\ Head(todo) \in GroupsIn(job) /\ Head(todo) \in TodoKeys(todo)
      /\ Tail(todo) \in Seq(GroupsIn(job)) /\ TodoOnce(Tail(todo))
      /\ TodoKeys(Tail(todo)) = TodoKeys(todo) \ {Head(todo)}
  BY <1>1, <1>2, TodoTail
<1>4. /\ w \in DOMAIN job.trees /\ w \in Workspaces /\ root \in Fofs(job.trees[w])
      /\ Head(todo) = <<w, root>>
  BY <1>3 DEF GroupsIn, Workspaces
<1> HIDE DEF w, root
<1>5. TreeOK(t) /\ OutOK(processed[w])
  BY <1>2, <1>4, TreesOfJob DEF CallInv, HalosHold
<1>6. ~Raises(t, processed[w], root)
  BY <1>4, <1>5, NothingRaises
<1>7. task \in Gathered(job) /\ Key(task) = Head(todo)
  BY <1>2, <1>4, <1>5, TaskGathered
<1> HIDE DEF task
<1>8. /\ todo' = Tail(todo) /\ buckets' = Bucketed(task)
      /\ processed' = [processed EXCEPT ![w] = Discarded(t, @, root)] /\ status' = status
  BY <1>1, <1>6
<1>9. Accounted(job, snapshot, TodoKeys(todo), BucketKeys(buckets), RunKeys(batch),
                DoneKeys(job, evolved))
  BY DEF CallInv, CallAccount
<1>10. Key(task) \notin BucketKeys(buckets)
  BY <1>3, <1>7, <1>9 DEF Accounted
<1>11. /\ buckets' \in Seq(BucketOf(job)) /\ Sorted(buckets')
       /\ BucketKeys(buckets') = BucketKeys(buckets) \cup {Head(todo)}
  <2>1. buckets \in Seq(BucketOf(job)) /\ Sorted(buckets)
    BY DEF CallInv, CallTypes, CallOnce
  <2> QED
    BY <1>2, <1>7, <1>8, <1>10, <2>1, BucketedFacts
<1>12. Workspaces' = Workspaces
  BY <1>1 DEF Workspaces
<1>13. HalosHold'
  <2>1. OutOK(Discarded(t, processed[w], root))
    BY <1>5, DiscardedOK
  <2>2. PICK out : out = Discarded(t, processed[w], root)
    OBVIOUS
  <2>3. processed' = [processed EXCEPT ![w] = out]
    BY <1>8, <2>2
  <2> QED
    BY <1>4, <1>12, <2>1, <2>2, <2>3 DEF CallInv, HalosHold
<1>14. CallTypes'
  BY <1>1, <1>3, <1>8, <1>11, <1>12 DEF CallInv, CallTypes
<1>15. CallOnce'
  BY <1>1, <1>3, <1>8, <1>11, <1>12 DEF CallInv, CallOnce
<1>16. CallAccount'
  <2>1. PICK T, B, R, D : /\ T = TodoKeys(todo) /\ B = BucketKeys(buckets) /\ R = RunKeys(batch)
                          /\ D = DoneKeys(job, evolved)
    OBVIOUS
  <2>2. PICK g : g = Head(todo)
    OBVIOUS
  <2>3. Accounted(job, snapshot, T, B, R, D) /\ g \in T
    BY <1>3, <1>9, <2>1, <2>2
  <2>4. Accounted(job, snapshot, T \ {g}, B \cup {g}, R, D)
    BY <2>3 DEF Accounted
  <2> QED
    BY <1>1, <1>3, <1>8, <1>11, <2>1, <2>2, <2>4 DEF CallAccount
<1>17. CallEnds'
  BY <1>0, <1>8, Zenon DEF CallEnds
<1> QED
  BY <1>13, <1>14, <1>15, <1>16, <1>17 DEF CallInv

\* _run_group_batch(): groups go from the first bucket into the batch.
LEMMA RunBatchKeeps ==
    ASSUME CallInv, RunBatch
    PROVE  CallInv'
<1>1. /\ status = "running" /\ batch = <<>>
      /\ UNCHANGED <<job, snapshot, todo, processed, records, evolved, status>>
  BY DEF RunBatch
<1>2. job \in Jobs /\ buckets \in Seq(BucketOf(job)) /\ Sorted(buckets)
  BY DEF CallInv, CallTypes, CallOnce
<1>3. /\ batch' \in Seq(RunOf(job)) /\ RunOnce(batch')
      /\ buckets' \in Seq(BucketOf(job)) /\ Sorted(buckets')
      /\ BucketKeys(buckets') \cap RunKeys(batch') = {}
      /\ BucketKeys(buckets) = BucketKeys(buckets') \cup RunKeys(batch')
  BY <1>2, BatchRuns
<1>4. RunKeys(batch) = {}
  BY <1>1, NoKeys
<1>5. Workspaces' = Workspaces
  BY <1>1 DEF Workspaces
<1>6. HalosHold'
  BY <1>1, <1>5 DEF CallInv, HalosHold
<1>7. CallTypes'
  BY <1>1, <1>3, <1>5 DEF CallInv, CallTypes
<1>8. CallOnce'
  BY <1>1, <1>3, <1>5 DEF CallInv, CallOnce
<1>9. CallAccount'
  <2>1. PICK T, B, R, D : /\ T = TodoKeys(todo) /\ B = BucketKeys(buckets') /\ R = RunKeys(batch')
                          /\ D = DoneKeys(job, evolved)
    OBVIOUS
  <2>2. Accounted(job, snapshot, T, B \cup R, {}, D) /\ B \cap R = {}
    BY <1>3, <1>4, <2>1 DEF CallInv, CallAccount
  <2>3. Accounted(job, snapshot, T, B, R, D)
    BY <2>2 DEF Accounted
  <2> QED
    BY <1>1, <2>1, <2>3 DEF CallAccount
<1>10. CallEnds'
  BY <1>1 DEF CallEnds
<1> QED
  BY <1>6, <1>7, <1>8, <1>9, <1>10 DEF CallInv

\* A root that is not in a list of roots is appended to it.
LEMMA AppendRoot ==
    ASSUME NEW S, NEW e \in Seq(S), IsInjective(e), NEW f \in S, f \notin Range(e)
    PROVE  /\ Append(e, f) \in Seq(S) /\ IsInjective(Append(e, f))
           /\ Range(Append(e, f)) = Range(e) \cup {f}
<1> DEFINE r == Append(e, f)
<1>1. /\ Len(e) \in Nat /\ DOMAIN e = 1 .. Len(e)
      /\ r \in Seq(S) /\ Len(r) = Len(e) + 1
      /\ \A n \in 1 .. Len(e) : r[n] = e[n]
      /\ r[Len(e) + 1] = f
  BY LenProperties, AppendProperties
<1> HIDE DEF r
<1>2. PICK a \in Nat : a = Len(e)
  BY <1>1
<1>3. DOMAIN r = 1 .. a + 1 /\ \A n \in 1 .. a + 1 : n \in 1 .. a \/ n = a + 1
  BY <1>1, <1>2, LenProperties
<1>4. \A n \in 1 .. a : n \in 1 .. a + 1 /\ r[n] = e[n] /\ r[n] # f
  BY <1>1, <1>2 DEF Range
<1>5. a + 1 \in 1 .. a + 1 /\ r[a + 1] = f
  BY <1>1, <1>2
<1>6. \A m, n \in 1 .. a : e[m] = e[n] => m = n
  BY <1>1, <1>2 DEF IsInjective
<1>7. IsInjective(r)
  BY <1>3, <1>4, <1>5, <1>6 DEF IsInjective
<1>8. Range(r) = Range(e) \cup {f}
  BY <1>1, <1>2, <1>3, <1>4, <1>5 DEF Range
<1> QED
  BY <1>1, <1>7, <1>8 DEF r

\* _marshal_group(): a group of the batch is done.
LEMMA MarshalGroupKeeps ==
    ASSUME CallInv, MarshalGroup
    PROVE  CallInv'
<1> DEFINE task == Head(batch).task
           result == Head(batch).result
           w == task.w
           root == task.root
           t == job.trees[w]
           more == FlattenSeq(Segments(t, task, result))
<1>1. /\ status = "running" /\ batch # <<>> /\ batch' = Tail(batch)
      /\ processed' = [processed EXCEPT ![w] = Marshalled(t, @, task, result)]
      /\ records' = IF snapshot \in job.output THEN [records EXCEPT ![w] = @ \o more] ELSE records
      /\ evolved' = [evolved EXCEPT ![w] = Append(@, root)]
      /\ UNCHANGED <<job, snapshot, todo, buckets, status>>
  BY DEF MarshalGroup
<1>2. job \in Jobs /\ batch \in Seq(RunOf(job)) /\ RunOnce(batch)
  BY DEF CallInv, CallTypes, CallOnce
<1>3. /\ Head(batch) \in RunOf(job) /\ Key(task) \in RunKeys(batch)
      /\ Tail(batch) \in Seq(RunOf(job)) /\ RunOnce(Tail(batch))
      /\ RunKeys(Tail(batch)) = RunKeys(batch) \ {Key(task)}
  BY <1>1, <1>2, RunTail
<1>4. ResultOK(result, task) /\ task \in Gathered(job)
  BY <1>3 DEF RunOf
<1> HIDE DEF task, result
<1>5. TaskOK(task) /\ Key(task) \in GroupsIn(job) /\ w \in DOMAIN job.trees /\ root \in Halos
  BY <1>4 DEF Gathered
<1>6. w \in Workspaces /\ TreeOK(t) /\ OutOK(processed[w])
  BY <1>2, <1>5, TreesOfJob DEF CallInv, HalosHold, Workspaces
<1>7. Accounted(job, snapshot, TodoKeys(todo), BucketKeys(buckets), RunKeys(batch),
                DoneKeys(job, evolved))
  BY DEF CallInv, CallAccount
<1>8. Workspaces' = Workspaces
  BY <1>1 DEF Workspaces
<1>9. HalosHold'
  <2>1. OutOK(Marshalled(t, processed[w], task, result))
    BY <1>4, <1>5, <1>6, MarshalledOK
  <2>2. PICK out : out = Marshalled(t, processed[w], task, result)
    OBVIOUS
  <2>3. processed' = [processed EXCEPT ![w] = out]
    BY <1>1, <2>2
  <2> HIDE DEF w
  <2> QED
    BY <1>6, <1>8, <2>1, <2>2, <2>3 DEF CallInv, HalosHold
<1>10. records' \in [Workspaces -> Seq(Sound)]
  <2>1. more \in Seq(Sound)
    BY <1>4, <1>5, <1>6, SegmentsFacts
  <2>2. records \in [Workspaces -> Seq(Sound)]
    BY DEF CallInv, CallTypes
  <2> HIDE DEF more, w
  <2>3. records[w] \o more \in Seq(Sound)
    <3>1. PICK a \in Seq(Sound) : a = records[w]
      BY <1>6, <2>2
    <3>2. a \o more \in Seq(Sound)
      BY <2>1, <3>1, ConcatJoins DEF Joins
    <3> QED
      BY <3>1, <3>2
  <2>4. PICK all \in Seq(Sound) : all = records[w] \o more
    BY <2>3
  <2>5. [records EXCEPT ![w] = all] \in [Workspaces -> Seq(Sound)]
    BY <2>2
  <2>6. [records EXCEPT ![w] = all] = [records EXCEPT ![w] = @ \o more]
    BY <2>4
  <2> QED
    BY <1>1, <2>2, <2>5, <2>6
<1>11. Key(task) \notin DoneKeys(job, evolved)
  BY <1>3, <1>7 DEF Accounted
<1>12. Key(task) = <<w, root>>
  BY DEF Key
<1> HIDE DEF w, root
<1>13. evolved \in [Workspaces -> Seq(Halos)] /\ \A v \in Workspaces : IsInjective(evolved[v])
  BY DEF CallInv, CallTypes, CallOnce
<1>14. root \notin Range(evolved[w])
  BY <1>5, <1>11, <1>12 DEF DoneKeys
<1>15. PICK e : e = Append(evolved[w], root)
  OBVIOUS
<1>16. /\ e \in Seq(Halos) /\ IsInjective(e) /\ Range(e) = Range(evolved[w]) \cup {root}
  <2>1. evolved[w] \in Seq(Halos) /\ IsInjective(evolved[w])
    BY <1>6, <1>13
  <2>2. PICK d : d = evolved[w]
    OBVIOUS
  <2>3. Append(d, root) \in Seq(Halos) /\ IsInjective(Append(d, root))
        /\ Range(Append(d, root)) = Range(d) \cup {root}
    BY <1>5, <1>14, <2>1, <2>2, AppendRoot
  <2> QED
    BY <1>15, <2>2, <2>3
<1>17. evolved' = [evolved EXCEPT ![w] = e]
  BY <1>1, <1>15
<1>18. /\ evolved' \in [Workspaces -> Seq(Halos)] /\ evolved'[w] = e
       /\ \A v \in Workspaces : v # w => evolved'[v] = evolved[v]
  BY <1>6, <1>13, <1>16, <1>17
<1>19. CallTypes'
  BY <1>1, <1>3, <1>8, <1>10, <1>18 DEF CallInv, CallTypes
<1>20. CallOnce'
  <2>1. \A v \in Workspaces : IsInjective(evolved'[v])
    BY <1>13, <1>16, <1>18
  <2> QED
    BY <1>1, <1>3, <1>8, <2>1 DEF CallInv, CallOnce
<1>21. DoneKeys(job, evolved') = DoneKeys(job, evolved) \cup {Key(task)}
  <2>1. ASSUME NEW g \in (DOMAIN job.trees) \X Halos
        PROVE  g[2] \in Range(evolved'[g[1]]) <=> g[2] \in Range(evolved[g[1]]) \/ g = Key(task)
    <3>1. PICK v \in DOMAIN job.trees, f \in Halos : g = <<v, f>>
      OBVIOUS
    <3>2. v \in Workspaces /\ g[1] = v /\ g[2] = f
      BY <3>1 DEF Workspaces
    <3>3. CASE v = w
      <4>1. Range(evolved'[v]) = Range(evolved[v]) \cup {root}
        BY <1>16, <1>18, <3>3
      <4>2. f = root <=> g = Key(task)
        BY <1>12, <3>1, <3>3
      <4> QED
        BY <3>2, <4>1, <4>2
    <3>4. CASE v # w
      <4>1. evolved'[v] = evolved[v] /\ g # Key(task)
        BY <1>12, <1>18, <3>1, <3>2, <3>4
      <4> QED
        BY <3>2, <4>1
    <3> QED
      BY <3>3, <3>4
  <2>2. Key(task) \in (DOMAIN job.trees) \X Halos
    BY <1>5 DEF GroupsIn
  <2> QED
    BY <2>1, <2>2 DEF DoneKeys
<1>22. CallAccount'
  <2>1. PICK T, B, R, D : /\ T = TodoKeys(todo) /\ B = BucketKeys(buckets) /\ R = RunKeys(batch)
                          /\ D = DoneKeys(job, evolved)
    OBVIOUS
  <2>2. PICK g : g = Key(task)
    OBVIOUS
  <2>3. Accounted(job, snapshot, T, B, R, D) /\ g \in R
    BY <1>3, <1>7, <2>1, <2>2
  <2>4. Accounted(job, snapshot, T, B, R \ {g}, D \cup {g})
    BY <2>3 DEF Accounted
  <2> QED
    BY <1>1, <1>3, <1>21, <2>1, <2>2, <2>4 DEF CallAccount
<1>23. CallEnds'
  BY <1>1 DEF CallEnds
<1> QED
  BY <1>9, <1>19, <1>20, <1>22, <1>23 DEF CallInv

\* A step that changes nothing.
LEMMA CallStays ==
    ASSUME CallInv, UNCHANGED callVars
    PROVE  CallInv'
BY DEF callVars, CallInv, HalosHold, CallTypes, CallOnce, CallAccount, CallEnds, Workspaces

\* The invariant is one.
LEMMA CallInvariance == CallSpec => []CallInv
<1>1. CallInit => CallInv
  BY CallBegins
<1>2. CallInv /\ [CallNext]_callVars => CallInv'
  BY NextSnapshotKeeps, PrepareGroupKeeps, RunBatchKeeps, MarshalGroupKeeps, CallStays
     DEF CallNext, Returned
<1> QED
  BY <1>1, <1>2, PTL DEF CallSpec

-----------------------------------------------------------------------------

\* A tangent stays with its galaxy.
LEMMA SoundFollow ==
    ASSUME CallInv
    PROVE  TangentsFollow
<1>1. \A w \in Workspaces : records[w] \in Seq(Sound)
  BY DEF CallInv, CallTypes
<1>2. \A w \in Workspaces : \A g \in Range(records[w]) : g \in Sound
  BY <1>1, LenProperties, ElementOfSeq DEF Range
<1> QED
  BY <1>2 DEF TangentsFollow, Sound

\* In every call, for every partition of well-formed trees and every setting of
\* the batches, the tangent written beside a galaxy names the groups its state
\* depends on: _prepare_group(), the padding, the kernel and _marshal_group()
\* index the same galaxy in both arrays.
THEOREM EveryTangentFollows == CallSpec => []TangentsFollow
BY CallInvariance, SoundFollow, PTL

\* What a group inherits from is of an earlier snapshot.
LEMMA NeedsAreEarlier ==
    ASSUME NEW t, TreeOK(t), NEW root \in Fofs(t), NEW f \in Needs(t, root)
    PROVE  f \in Fofs(t) /\ t.snap[f] < t.snap[root]
<1>1. PICK h \in MembersOf(t, root) : \E p \in Progenitors(t, h) : f = t.fof[p]
  BY DEF Needs
<1>2. PICK p \in Progenitors(t, h) : f = t.fof[p]
  BY <1>1
<1>3. h \in Halos /\ t.snap[h] = t.snap[root]
  BY ChainOfGroup DEF MembersOf
<1>4. PICK n \in DOMAIN t.progs[h] : p = t.progs[h][n]
  BY DEF Progenitors
<1>5. p \in Halos /\ t.snap[p] < t.snap[h]
  BY <1>3, <1>4, LinksOfTree, LinksOfHalo DEF LinksGoBack
<1>6. f \in Fofs(t)
  BY <1>2, <1>5 DEF Fofs
<1>7. t.snap[f] = t.snap[p]
  <2>1. p \in MembersOf(t, t.fof[p])
    BY <1>5, LinksOfTree DEF GroupsAreChains
  <2>2. PICK m \in DOMAIN t.members[f] : p = t.members[f][m]
    BY <1>2, <2>1 DEF MembersOf
  <2>3. /\ DOMAIN t.members[f] = 1 .. Len(t.members[f])
        /\ \A x \in 1 .. Len(t.members[f]) : t.snap[t.members[f][x]] = t.snap[f]
    BY <1>6, ChainOfGroup, Zenon
  <2> QED
    BY <2>2, <2>3
<1> QED
  BY <1>3, <1>5, <1>6, <1>7

\* With every group in one place, none is evolved too early or twice.
LEMMA AccountIsOnce ==
    ASSUME CallInv
    PROVE  EveryGroupOnce
<1>1. /\ job \in Jobs /\ snapshot \in Int /\ status \in {"running", "finished"}
      /\ buckets \in Seq(BucketOf(job)) /\ batch \in Seq(RunOf(job))
      /\ \A w \in Workspaces : IsInjective(evolved[w])
      /\ evolved \in [Workspaces -> Seq(Halos)]
  BY DEF CallInv, CallTypes, CallOnce
<1>2. Accounted(job, snapshot, TodoKeys(todo), BucketKeys(buckets), RunKeys(batch),
                DoneKeys(job, evolved))
  BY DEF CallInv, CallAccount
<1>3. ASSUME NEW task \in Waiting
      PROVE  Key(task) \in GroupsIn(job) /\ SnapOf(job, Key(task)) = snapshot
  <2>1. CASE \E n \in DOMAIN buckets : task \in Range(buckets[n].tasks)
    <3>1. PICK n \in DOMAIN buckets : task \in Range(buckets[n].tasks)
      BY <2>1
    <3>2. n \in 1 .. Len(buckets) /\ buckets[n] \in BucketOf(job)
      BY <1>1, LenProperties, ElementOfSeq
    <3>3. buckets[n].tasks \in Seq(Gathered(job))
      BY <3>2 DEF BucketOf
    <3>4. PICK m \in DOMAIN buckets[n].tasks : task = buckets[n].tasks[m]
      BY <3>1 DEF Range
    <3>5. m \in 1 .. Len(buckets[n].tasks)
      BY <3>3, LenProperties
    <3>6. Key(task) \in BucketKeys(buckets)
      BY <3>2, <3>4, <3>5 DEF BucketKeys, KeysOf
    <3> QED
      BY <1>2, <3>6 DEF Accounted
  <2>2. CASE \E n \in DOMAIN batch : task = batch[n].task
    <3>1. PICK n \in DOMAIN batch : task = batch[n].task
      BY <2>2
    <3>2. n \in 1 .. Len(batch)
      BY <1>1, LenProperties
    <3>3. Key(task) \in RunKeys(batch)
      BY <3>1, <3>2 DEF RunKeys
    <3> QED
      BY <1>2, <3>3 DEF Accounted
  <2> QED
    BY <2>1, <2>2 DEF Waiting
<1>4. ASSUME NEW w \in Workspaces, NEW task \in Waiting, task.w = w
      PROVE  Needs(job.trees[w], task.root) \subseteq Range(evolved[w])
  <2> SUFFICES ASSUME NEW f \in Needs(job.trees[w], task.root) PROVE f \in Range(evolved[w])
    OBVIOUS
  <2>1. Key(task) = <<w, task.root>>
    BY <1>4 DEF Key
  <2>2. /\ w \in DOMAIN job.trees /\ task.root \in Fofs(job.trees[w])
        /\ job.trees[w].snap[task.root] = snapshot
    BY <1>3, <2>1 DEF GroupsIn, SnapOf, Workspaces
  <2>3. TreeOK(job.trees[w])
    BY <1>1, <2>2, TreesOfJob
  <2>4. f \in Fofs(job.trees[w]) /\ job.trees[w].snap[f] < snapshot
    BY <2>2, <2>3, NeedsAreEarlier
  <2>5. f \in Halos
    BY <2>3, <2>4, ChainOfGroup
  <2>6. PICK g : g = <<w, f>>
    OBVIOUS
  <2>7. g \in GroupsIn(job) /\ SnapOf(job, g) < snapshot
    BY <2>2, <2>4, <2>5, <2>6 DEF GroupsIn, SnapOf
  <2>8. SnapOf(job, g) \in Nat
    BY <1>1, <2>7, TreesOfJob
  <2>9. SnapOf(job, g) <= snapshot /\ SnapOf(job, g) # snapshot
    BY <1>1, <2>7, <2>8
  <2>10. g \in DoneKeys(job, evolved)
    BY <1>2, <2>7, <2>9 DEF Accounted
  <2> QED
    BY <2>6, <2>10 DEF DoneKeys
<1>5. ASSUME NEW w \in Workspaces, status = "finished"
      PROVE  Range(evolved[w]) = Fofs(job.trees[w])
  <2>1. GroupsIn(job) \subseteq DoneKeys(job, evolved) /\ DoneKeys(job, evolved) \subseteq GroupsIn(job)
    BY <1>2, <1>5 DEF CallInv, CallEnds, Accounted
  <2>2. w \in DOMAIN job.trees /\ TreeOK(job.trees[w])
    BY <1>1, TreesOfJob DEF Workspaces
  <2>3. ASSUME NEW f \in Fofs(job.trees[w]) PROVE f \in Range(evolved[w])
    <3>1. f \in Halos
      BY <2>2, ChainOfGroup
    <3>2. PICK g : g = <<w, f>>
      OBVIOUS
    <3>3. g \in GroupsIn(job)
      BY <2>2, <3>1, <3>2 DEF GroupsIn
    <3>4. g \in DoneKeys(job, evolved)
      BY <2>1, <3>3
    <3> QED
      BY <3>2, <3>4 DEF DoneKeys
  <2>4. ASSUME NEW f \in Range(evolved[w]) PROVE f \in Fofs(job.trees[w])
    <3>1. evolved[w] \in Seq(Halos)
      BY <1>1
    <3>2. f \in Halos
      BY <3>1, LenProperties, ElementOfSeq DEF Range
    <3>3. PICK g : g = <<w, f>>
      OBVIOUS
    <3>4. g \in DoneKeys(job, evolved)
      BY <2>2, <3>2, <3>3 DEF DoneKeys
    <3>5. g \in GroupsIn(job)
      BY <2>1, <3>4
    <3> QED
      BY <3>3, <3>5 DEF GroupsIn
  <2> QED
    BY <2>3, <2>4
<1>6. status # "error"
  BY <1>1
<1> QED
  BY <1>1, <1>4, <1>5, <1>6 DEF EveryGroupOnce

\* In every call no group is gathered before the groups it inherits from were
\* marshalled, none is marshalled twice, no ValueError of _prepare_group() stops
\* the call, and a call that returns has evolved every group of every tree.
THEOREM EveryGroupIsEvolvedOnce == CallSpec => []EveryGroupOnce
BY CallInvariance, AccountIsOnce, PTL
=============================================================================
