---------------------------- MODULE GalaxyProofs ----------------------------
(***************************************************************************)
(* Proofs about the galaxies of a unit, for every set of merger trees, any *)
(* number of halos and substeps: the flow from group to group (module      *)
(* GalaxyFlow) and the pool the galaxies are in (module GalaxyPool).       *)
(***************************************************************************)
EXTENDS GalaxyFlow, GalaxyPool, NumberFacts

-----------------------------------------------------------------------------
(* The merger tree.                                                          *)

\* Group f inherits the galaxies of halo q.
Feeds(t, q, f) == \E h \in MembersOf(t, f) : q \in Progenitors(t, h)

\* With a group in S every group that inherits from it is in S.
ClosedForward(t, S) ==
    \A g \in S : \A f \in Fofs(t) : g \in Needs(t, f) => f \in S

\* The mass that halo q held can have come to group f: f is among the groups
\* that follow from the one q feeds.
Before(t, q, f) ==
    \A S \in SUBSET Fofs(t) :
        ClosedForward(t, S) /\ (\A e \in Fofs(t) : Feeds(t, q, e) => e \in S) => f \in S

\* A set of groups evolved in an order FoFSchedule allows.
ClosedBackward(t, E) == E \in SUBSET Fofs(t) /\ \A f \in E : Needs(t, f) \subseteq E

\* What the readers promise, in the form the proofs use.
LEMMA TreeFacts ==
    ASSUME NEW t \in Trees
    PROVE  /\ t \in Tree /\ t.snap \in [Halos -> Nat] /\ t.progs \in [Halos -> Seq(Halos)]
           /\ t.fof \in [Halos -> Halos] /\ t.members \in [Halos -> Seq(Halos)]
           /\ t.len \in [Halos -> Nat]
           /\ LinksGoBack(t) /\ GroupsAreChains(t) /\ GroupsEnd(t) /\ OneDescendant(t)
BY TreesAssumption DEF WellFormed, Tree

\* A progenitor is a halo of an earlier snapshot.
LEMMA ProgenitorFacts ==
    ASSUME NEW t \in Trees, NEW h \in Halos, NEW p \in Progenitors(t, h)
    PROVE  p \in Halos /\ t.snap[p] < t.snap[h] /\ t.snap[p] \in Nat /\ t.snap[h] \in Nat
<1>1. t.progs[h] \in Seq(Halos)
  BY TreeFacts
<1>2. PICK k \in DOMAIN t.progs[h] : p = t.progs[h][k]
  BY DEF Progenitors
<1>3. p \in Halos
  BY <1>1, <1>2
<1>4. t.snap[p] < t.snap[h]
  BY <1>2, TreeFacts DEF LinksGoBack
<1> QED
  BY <1>3, <1>4, TreeFacts

\* A halo is the progenitor of one halo.
LEMMA OneHeir ==
    ASSUME NEW t \in Trees, NEW g \in Halos, NEW h \in Halos, NEW p,
           p \in Progenitors(t, g), p \in Progenitors(t, h)
    PROVE  g = h
<1>1. PICK j \in DOMAIN t.progs[g] : p = t.progs[g][j]
  BY DEF Progenitors
<1>2. PICK k \in DOMAIN t.progs[h] : p = t.progs[h][k]
  BY DEF Progenitors
<1>3. OneDescendant(t)
  BY TreeFacts
<1>4. t.progs[g][j] = t.progs[h][k]
  BY <1>1, <1>2
<1> QED
  BY <1>3, <1>4 DEF OneDescendant

\* A group and its members.
LEMMA GroupFacts ==
    ASSUME NEW t \in Trees, NEW f \in Fofs(t)
    PROVE  /\ f \in Halos /\ t.fof[f] = f /\ f \in MembersOf(t, f)
           /\ t.members[f] \in Seq(Halos)
           /\ \A h \in MembersOf(t, f) :
                 h \in Halos /\ t.fof[h] = f /\ t.snap[h] = t.snap[f]
<1>1. PICK x \in Halos : f = t.fof[x]
  BY DEF Fofs
<1>2. f \in Halos /\ t.members[f] \in Seq(Halos)
  BY <1>1, TreeFacts
<1>3. /\ t.members[f] # <<>> /\ t.members[f][1] = f
      /\ \A m \in DOMAIN t.members[f] :
            t.fof[t.members[f][m]] = f /\ t.snap[t.members[f][m]] = t.snap[x]
  BY <1>1, TreeFacts DEF GroupsAreChains
<1>4. 1 \in DOMAIN t.members[f]
  BY <1>2, <1>3
<1>5. t.fof[f] = f /\ t.snap[f] = t.snap[x] /\ f \in MembersOf(t, f)
  BY <1>3, <1>4 DEF MembersOf
<1>6. ASSUME NEW h \in MembersOf(t, f)
      PROVE  h \in Halos /\ t.fof[h] = f /\ t.snap[h] = t.snap[f]
  BY <1>2, <1>3, <1>5 DEF MembersOf
<1> QED
  BY <1>2, <1>5, <1>6

\* Every halo is a member of its group.
LEMMA HaloIsMember ==
    ASSUME NEW t \in Trees, NEW h \in Halos
    PROVE  t.fof[h] \in Fofs(t) /\ h \in MembersOf(t, t.fof[h])
BY TreeFacts DEF GroupsAreChains, Fofs

\* A halo feeds one group.
LEMMA FeedsOnce ==
    ASSUME NEW t \in Trees, NEW e \in Fofs(t), NEW f \in Fofs(t), NEW q,
           Feeds(t, q, e), Feeds(t, q, f)
    PROVE  e = f
<1>1. PICK g \in MembersOf(t, e) : q \in Progenitors(t, g)
  BY DEF Feeds
<1>2. PICK h \in MembersOf(t, f) : q \in Progenitors(t, h)
  BY DEF Feeds
<1>3. g \in Halos /\ h \in Halos /\ t.fof[g] = e /\ t.fof[h] = f
  BY GroupFacts
<1> QED
  BY <1>1, <1>2, <1>3, OneHeir

\* A group needs the groups of the halos that feed it.
LEMMA NeedsAreFed ==
    ASSUME NEW t \in Trees, NEW f \in Fofs(t), NEW g
    PROVE  g \in Needs(t, f) <=> \E p \in Halos : Feeds(t, p, f) /\ g = t.fof[p]
<1>1. ASSUME NEW p, Feeds(t, p, f) PROVE p \in Halos
  BY <1>1, GroupFacts, ProgenitorFacts DEF Feeds
<1> QED
  BY <1>1 DEF Needs, Feeds

\* The group a halo feeds is the first its mass can come to ...
LEMMA FeedsBefore ==
    ASSUME NEW t \in Trees, NEW f \in Fofs(t), NEW q, Feeds(t, q, f)
    PROVE  Before(t, q, f)
BY DEF Before

\* ... and from each group it goes on to the one that inherits from it.
LEMMA BeforeGoesOn ==
    ASSUME NEW t \in Trees, NEW f \in Fofs(t), NEW q, NEW p \in Halos,
           Before(t, q, t.fof[p]), Feeds(t, p, f)
    PROVE  Before(t, q, f)
<1>1. t.fof[p] \in Needs(t, f)
  BY NeedsAreFed
<1> QED
  BY <1>1 DEF Before, ClosedForward

\* Mass that waits for a group not yet evolved has come to none that was.
LEMMA NotYetBefore ==
    ASSUME NEW t \in Trees, NEW E, ClosedBackward(t, E), NEW f \in Fofs(t), f \notin E,
           NEW q, Feeds(t, q, f), NEW g \in E
    PROVE  ~Before(t, q, g)
<1> DEFINE S == Fofs(t) \ E
<1>1. ClosedForward(t, S)
  BY DEF ClosedForward, ClosedBackward
<1>2. \A e \in Fofs(t) : Feeds(t, q, e) => e \in S
  BY FeedsOnce
<1>3. S \in SUBSET Fofs(t) /\ g \notin S
  OBVIOUS
<1> QED
  BY <1>1, <1>2, <1>3 DEF Before

\* Mass only goes to later snapshots.
LEMMA BeforeIsEarlier ==
    ASSUME NEW t \in Trees, NEW q \in Halos, NEW f \in Fofs(t), Before(t, q, f)
    PROVE  t.snap[q] < t.snap[f]
<1> DEFINE S == {e \in Fofs(t) : t.snap[q] < t.snap[e]}
<1>1. ASSUME NEW p \in Halos, NEW e \in Fofs(t), Feeds(t, p, e)
      PROVE  /\ t.snap[p] < t.snap[e] /\ t.snap[t.fof[p]] = t.snap[p]
             /\ t.snap[p] \in Nat /\ t.snap[e] \in Nat
  <2>1. PICK h \in MembersOf(t, e) : p \in Progenitors(t, h)
    BY <1>1 DEF Feeds
  <2>2. h \in Halos /\ t.snap[h] = t.snap[e]
    BY GroupFacts
  <2>3. t.snap[p] < t.snap[h] /\ t.snap[p] \in Nat /\ t.snap[h] \in Nat
    BY <2>1, <2>2, ProgenitorFacts
  <2>4. t.snap[p] = t.snap[t.fof[p]]
    BY HaloIsMember, GroupFacts
  <2> QED
    BY <2>2, <2>3, <2>4
<1>2. t.snap[q] \in Nat
  BY TreeFacts
<1>3. ClosedForward(t, S)
  <2> SUFFICES ASSUME NEW g \in S, NEW e \in Fofs(t), g \in Needs(t, e)
               PROVE  t.snap[q] < t.snap[e]
    BY DEF ClosedForward
  <2>1. PICK p \in Halos : Feeds(t, p, e) /\ g = t.fof[p]
    BY NeedsAreFed
  <2>2. t.snap[p] < t.snap[e] /\ t.snap[g] = t.snap[p] /\ t.snap[p] \in Nat /\ t.snap[e] \in Nat
    BY <1>1, <2>1
  <2>3. t.snap[q] < t.snap[g]
    OBVIOUS
  <2> QED
    BY <1>2, <2>2, <2>3
<1>4. \A e \in Fofs(t) : Feeds(t, q, e) => e \in S
  BY <1>1
<1>5. S \in SUBSET Fofs(t)
  OBVIOUS
<1>6. f \in S
  <2> HIDE DEF S
  <2> QED
    BY <1>3, <1>4, <1>5 DEF Before
<1> QED
  BY <1>6

-----------------------------------------------------------------------------
(* Sequences of objects.                                                     *)

\* A sequence of which every element is the first has at most that one.
LEMMA OnlyOne ==
    ASSUME NEW S, NEW s \in Seq(S), s # <<>>, \A x, y \in 1 .. Len(s) : x = y
    PROVE  Len(s) = 1 /\ s = <<s[1]>>
<1>1. Len(s) \in Nat /\ Len(s) # 0 /\ s \in [1 .. Len(s) -> S]
  BY EmptySeq, LenProperties
<1>2. 1 \in 1 .. Len(s) /\ Len(s) \in 1 .. Len(s)
  BY <1>1
<1>3. Len(s) = 1
  BY <1>2
<1> QED
  BY <1>1, <1>3

-----------------------------------------------------------------------------
(* The gather step.                                                          *)

\* ProcessedHalos as the gather step finds it.
OutIsReady == /\ tree \in Trees
              /\ out \in [Halos -> Seq(Galaxy)]
              /\ \A h \in Halos :
                    out[h] # <<>> => Len(out[h]) = 1 /\ out[h][1].type \in {0, 1}

\* What is written of a halo is one object, a central of its own halo.
LEMMA OutFacts ==
    ASSUME OutIsReady, NEW h \in Halos, out[h] # <<>>
    PROVE  DOMAIN out[h] = {1} /\ out[h][1] \in Galaxy /\ out[h][1].type \in {0, 1}
<1>1. out[h] \in Seq(Galaxy) /\ Len(out[h]) = 1 /\ out[h][1].type \in {0, 1}
  BY DEF OutIsReady
<1> QED
  BY <1>1

\* The host of the galaxies is a progenitor that has some, if one has.
LEMMA HostIsOccupied ==
    ASSUME OutIsReady, NEW h \in Halos, NEW p \in Progenitors(tree, h), out[p] # <<>>
    PROVE  FirstOccupied(h) \in Progenitors(tree, h) /\ out[FirstOccupied(h)] # <<>>
<1> DEFINE progs == tree.progs[h]
           occupied == {k \in DOMAIN progs : out[progs[k]] # <<>>}
           Weight(k) == tree.len[progs[k]]
           heaviest == {k \in occupied : \A j \in occupied : Weight(j) <= Weight(k)}
<1>1. progs \in Seq(Halos) /\ Len(progs) \in Nat /\ DOMAIN progs = 1 .. Len(progs)
  BY TreeFacts, LenProperties DEF OutIsReady
<1>2. ASSUME NEW k \in DOMAIN progs PROVE Weight(k) \in Nat
  <2>1. progs[k] \in Halos
    BY <1>1, ElementOfSeq
  <2>2. tree.len \in [Halos -> Nat]
    BY TreeFacts DEF OutIsReady
  <2> QED
    BY <2>1, <2>2
<1>3. PICK q \in occupied : p = progs[q]
  BY DEF Progenitors
<1>4. FirstOccupied(h) = IF occupied = {} \/ 1 \in occupied THEN progs[1]
                         ELSE progs[CHOOSE k \in heaviest : \A j \in heaviest : k <= j]
  BY DEF FirstOccupied
<1>5. ASSUME NEW k \in occupied
      PROVE  progs[k] \in Progenitors(tree, h) /\ out[progs[k]] # <<>>
  BY DEF Progenitors
<1>6. heaviest # {}
  <2> DEFINE Heaviest(n, k) == /\ k \in occupied
                               /\ \A j \in occupied : j <= n => Weight(j) <= Weight(k)
             Wrong == {n \in Nat : ~\E k : Heaviest(n, k)}
  <2>1. ASSUME NEW n \in Nat, \A m \in Nat : m < n => m \notin Wrong
        PROVE  n \notin Wrong
    <3>1. CASE n = 0
      <4>1. Heaviest(n, q)
        BY <1>1, <3>1
      <4> QED
        BY <4>1
    <3>2. CASE n # 0
      <4>1. n - 1 \in Nat /\ n - 1 < n
        BY <3>2
      <4>2. PICK k : Heaviest(n - 1, k)
        BY <2>1, <4>1
      <4>3. \A j \in occupied : j \in Int /\ Weight(j) \in Nat
        BY <1>1, <1>2
      <4>4. k \in occupied /\ \A j \in occupied : j <= n - 1 => Weight(j) <= Weight(k)
        BY <4>2
      <4> HIDE DEF occupied, Weight
      <4>5. CASE n \in occupied /\ Weight(k) <= Weight(n)
        <5>1. ASSUME NEW j \in occupied, j <= n PROVE Weight(j) <= Weight(n)
          <6>1. j = n \/ j <= n - 1
            BY <4>3, <5>1
          <6>2. CASE j = n
            BY <4>3, <4>5, <6>2
          <6>3. CASE j <= n - 1
            BY <4>3, <4>4, <4>5, <6>3
          <6> QED
            BY <6>1, <6>2, <6>3
        <5> QED
          BY <4>5, <5>1
      <4>6. CASE ~(n \in occupied /\ Weight(k) <= Weight(n))
        <5>1. ASSUME NEW j \in occupied, j <= n PROVE Weight(j) <= Weight(k)
          <6>1. j = n \/ j <= n - 1
            BY <4>3, <5>1
          <6>2. CASE j = n
            <7>1. Weight(j) \in Nat /\ Weight(k) \in Nat /\ ~(Weight(k) <= Weight(j))
              BY <4>3, <4>4, <4>6, <6>2
            <7> QED
              BY <7>1
          <6>3. CASE j <= n - 1
            BY <4>4, <6>3
          <6> QED
            BY <6>1, <6>2, <6>3
        <5> QED
          BY <4>4, <5>1
      <4> QED
        BY <4>5, <4>6
    <3> QED
      BY <3>1, <3>2
  <2>2. Wrong = {}
    <3> HIDE DEF Wrong
    <3>1. Wrong \in SUBSET Nat
      BY DEF Wrong
    <3> QED
      BY <2>1, <3>1, LeastElement
  <2>3. PICK k : Heaviest(Len(progs), k)
    BY <1>1, <2>2
  <2>4. k \in heaviest
    BY <1>1, <2>3
  <2> QED
    BY <2>4
<1>7. \E k \in heaviest : \A j \in heaviest : k <= j
  <2>1. heaviest \in SUBSET Nat
    BY <1>1
  <2> HIDE DEF heaviest
  <2> QED
    BY <1>6, <2>1, LeastElement
<1>8. PICK c : c = CHOOSE k \in heaviest : \A j \in heaviest : k <= j
  OBVIOUS
<1>9. c \in heaviest
  <2> HIDE DEF heaviest
  <2> QED
    BY <1>7, <1>8
<1>10. c \in occupied
  BY <1>9
<1>11. FirstOccupied(h) = IF 1 \in occupied THEN progs[1] ELSE progs[c]
  <2> HIDE DEF heaviest, occupied
  <2> QED
    BY <1>3, <1>4, <1>8
<1> HIDE DEF occupied
<1> QED
  BY <1>5, <1>10, <1>11

\* A central or satellite after inheritance.
LEMMA InheritedFacts ==
    ASSUME NEW g \in Galaxy, g.type \in {0, 1}, NEW p, NEW h \in Halos
    PROVE  /\ Inherited(g, p, h) \in Galaxy
           /\ Inherited(g, p, h).halo = h
           /\ Inherited(g, p, h).id = g.id /\ Inherited(g, p, h).snap = g.snap
           /\ Inherited(g, p, h).holds = g.holds
           /\ Inherited(g, p, h).type \in {0, 1, 2}
           /\ Inherited(g, p, h).type \in {0, 1} <=> p = FirstOccupied(h)
           /\ p = FirstOccupied(h) => (Inherited(g, p, h).type = 0 <=> IsFofCentral(h))
<1> DEFINE type == IF g.type \in {2, 3} THEN g.type
                   ELSE IF p # FirstOccupied(h) THEN 2
                   ELSE IF IsFofCentral(h) THEN 0 ELSE 1
<1>1. Inherited(g, p, h) = [g EXCEPT !.halo = h, !.type = type]
  BY DEF Inherited
<1>2. type = IF p # FirstOccupied(h) THEN 2 ELSE IF IsFofCentral(h) THEN 0 ELSE 1
  <2>1. g.type \notin {2, 3}
    OBVIOUS
  <2> QED
    BY <2>1
<1> HIDE DEF type
<1>3. type \in {0, 1, 2} /\ (type \in {0, 1} <=> p = FirstOccupied(h))
      /\ (p = FirstOccupied(h) => (type = 0 <=> IsFofCentral(h)))
  BY <1>2
<1>4. type \in 0 .. 3
  BY <1>3
<1> DEFINE r == [g EXCEPT !.halo = h, !.type = type]
<1>5. r.halo = h /\ r.id = g.id /\ r.snap = g.snap /\ r.holds = g.holds
  BY DEF Galaxy
<1>6. r.type = type
  BY DEF Galaxy
<1>7. r \in Galaxy
  BY <1>4 DEF Galaxy
<1> HIDE DEF r
<1>8. Inherited(g, p, h) = r
  BY <1>1 DEF r
<1> QED
  BY <1>3, <1>5, <1>6, <1>7, <1>8

\* Object g of the slice of h is what has become of the galaxy of progenitor p.
CameFrom(g, p, h) == /\ p \in Progenitors(tree, h)
                     /\ out[p] # <<>>
                     /\ g = Inherited(out[p][1], p, h)

\* Object x of slice a comes from progenitor src[x], one from each that has one.
Sourced(a, h, src) ==
    /\ src \in [1 .. Len(a) -> Halos]
    /\ \A x \in 1 .. Len(a) : CameFrom(a[x], src[x], h)
    /\ \A x, y \in 1 .. Len(a) : src[x] = src[y] => x = y
    /\ \A p \in Progenitors(tree, h) : out[p] # <<>> => \E x \in 1 .. Len(a) : src[x] = p

\* A progenitor brings its one galaxy.
LEMMA BroughtFacts ==
    ASSUME OutIsReady, NEW h \in Halos, NEW p \in Halos
    PROVE  /\ Brought(p, h) \in Seq(Galaxy)
           /\ out[p] = <<>> => Brought(p, h) = <<>>
           /\ out[p] # <<>> => Brought(p, h) = <<Inherited(out[p][1], p, h)>>
<1> DEFINE c == [k \in DOMAIN out[p] |-> Inherited(out[p][k], p, h)]
           K == {k \in DOMAIN c : c[k].type # 3}
           r == Kept(c, K)
<1>1. Brought(p, h) = r
  BY DEF Brought
<1>2. CASE out[p] = <<>>
  <2>1. DOMAIN out[p] = {}
    BY <1>2
  <2>2. c = <<>>
    BY <2>1
  <2>3. c \in Seq(Galaxy) /\ Len(c) = 0
    BY <2>2, EmptySeq
  <2> HIDE DEF c, K
  <2>4. PICK at : r \in Seq(Galaxy) /\ KeptAs(at, c, K, r)
    BY <2>3, KeptFacts
  <2>5. Len(r) \in Nat /\ at \in [1 .. Len(r) -> {}]
    BY <2>3, <2>4, LenProperties DEF KeptAs
  <2>6. 1 .. Len(r) = {}
    BY <2>5
  <2>7. Len(r) = 0
    BY <2>5, <2>6
  <2>8. r = <<>>
    BY <2>4, <2>7, EmptySeq
  <2> QED
    BY <1>1, <1>2, <2>4, <2>8
<1>3. CASE out[p] # <<>>
  <2>1. DOMAIN out[p] = {1} /\ out[p][1] \in Galaxy /\ out[p][1].type \in {0, 1}
    BY <1>3, OutFacts
  <2> DEFINE g == Inherited(out[p][1], p, h)
  <2>2. g \in Galaxy /\ g.type # 3
    BY <2>1, InheritedFacts
  <2>3. c = [k \in {1} |-> g]
    BY <2>1
  <2>4. c = <<g>>
    BY <2>3
  <2> HIDE DEF g
  <2>5. c \in Seq(Galaxy) /\ Len(c) = 1 /\ c[1] = g
    BY <2>2, <2>4
  <2>6. 1 \in K
    BY <2>2, <2>4
  <2> HIDE DEF c, K
  <2>7. PICK at : r \in Seq(Galaxy) /\ KeptAs(at, c, K, r)
    BY <2>5, KeptFacts
  <2>8. PICK x \in 1 .. Len(r) : at[x] = 1
    BY <2>5, <2>6, <2>7 DEF KeptAs
  <2>9. \A y \in 1 .. Len(r) : at[y] \in 1 .. 1
    BY <2>5, <2>7 DEF KeptAs
  <2>10. \A y, z \in 1 .. Len(r) : y = z
    BY <2>7, <2>9 DEF KeptAs
  <2>11. r # <<>>
    BY <2>8
  <2>12. Len(r) = 1 /\ r = <<r[1]>>
    BY <2>7, <2>10, <2>11, OnlyOne
  <2>13. r[1] = g
    BY <2>5, <2>7, <2>9, <2>12 DEF KeptAs
  <2> QED
    BY <1>1, <1>3, <2>7, <2>12, <2>13 DEF g
<1> QED
  BY <1>2, <1>3

\* The arrivals are the galaxies of the progenitors, one by one.
LEMMA ArrivalsFacts ==
    ASSUME OutIsReady, NEW h \in Halos
    PROVE  Arrivals(h) \in Seq(Galaxy) /\ \E src : Sourced(Arrivals(h), h, src)
<1> DEFINE progs == tree.progs[h]
           t == [k \in DOMAIN progs |-> Brought(progs[k], h)]
<1>1. progs \in Seq(Halos) /\ Len(progs) \in Nat /\ DOMAIN progs = 1 .. Len(progs)
      /\ \A k \in 1 .. Len(progs) : progs[k] \in Halos
  BY TreeFacts, LenProperties DEF OutIsReady
<1>2. \A k \in 1 .. Len(progs) : t[k] = Brought(progs[k], h)
  BY <1>1
<1>3. t \in Seq(Seq(Galaxy)) /\ Len(t) = Len(progs)
  <2>1. t \in [1 .. Len(progs) -> Seq(Galaxy)]
    BY <1>1, BroughtFacts
  <2> QED
    BY <1>1, <2>1
<1>4. Arrivals(h) = FlattenSeq(t)
  BY DEF Arrivals
<1> HIDE DEF t, progs
<1>5. ASSUME NEW k \in 1 .. Len(progs)
      PROVE  /\ Len(t[k]) <= 1
             /\ Len(t[k]) = 1 => CameFrom(t[k][1], progs[k], h)
             /\ out[progs[k]] # <<>> => t[k] # <<>>
  <2>1. progs[k] \in Halos /\ progs[k] \in Progenitors(tree, h)
    BY <1>1 DEF Progenitors, progs
  <2>2. CASE out[progs[k]] = <<>>
    <3>1. t[k] = <<>>
      BY <1>2, <2>1, <2>2, BroughtFacts
    <3> QED
      BY <2>2, <3>1
  <2>3. CASE out[progs[k]] # <<>>
    <3>1. t[k] = <<Inherited(out[progs[k]][1], progs[k], h)>>
      BY <1>2, <2>1, <2>3, BroughtFacts
    <3>2. Len(t[k]) = 1 /\ t[k][1] = Inherited(out[progs[k]][1], progs[k], h) /\ t[k] # <<>>
      BY <3>1
    <3> QED
      BY <2>1, <2>3, <3>2 DEF CameFrom
  <2> QED
    BY <2>2, <2>3
<1>6. \A k \in 1 .. Len(t) : Len(t[k]) <= 1
  BY <1>3, <1>5
<1> DEFINE a == FlattenSeq(t)
<1>7. PICK from : TakenFrom(from, t, a)
  BY <1>3, <1>6, FlattenOfSingles
<1> HIDE DEF a
<1>8. /\ from \in [1 .. Len(a) -> 1 .. Len(progs)]
      /\ \A x \in 1 .. Len(a) : Len(t[from[x]]) = 1 /\ a[x] = t[from[x]][1]
      /\ \A x, y \in 1 .. Len(a) : from[x] = from[y] => x = y
      /\ \A k \in 1 .. Len(progs) : t[k] # <<>> => \E x \in 1 .. Len(a) : from[x] = k
  BY <1>3, <1>7 DEF TakenFrom
<1>9. \A j, k \in 1 .. Len(progs) : progs[j] = progs[k] => j = k
  <2>1. OneDescendant(tree)
    BY TreeFacts DEF OutIsReady
  <2> QED
    BY <1>1, <2>1 DEF OneDescendant, progs
<1> DEFINE src == [x \in 1 .. Len(a) |-> progs[from[x]]]
<1>10. src \in [1 .. Len(a) -> Halos]
  BY <1>1, <1>8
<1>11. \A x \in 1 .. Len(a) : CameFrom(a[x], src[x], h)
  BY <1>5, <1>8
<1>12. \A x, y \in 1 .. Len(a) : src[x] = src[y] => x = y
  BY <1>8, <1>9
<1>13. ASSUME NEW p \in Progenitors(tree, h), out[p] # <<>>
       PROVE  \E x \in 1 .. Len(a) : src[x] = p
  <2>1. PICK k \in 1 .. Len(progs) : p = progs[k]
    BY <1>1 DEF Progenitors, progs
  <2> QED
    BY <1>5, <1>8, <1>13, <2>1
<1> HIDE DEF src
<1>14. Sourced(a, h, src)
  BY <1>10, <1>11, <1>12, <1>13 DEF Sourced
<1>15. a \in Seq(Galaxy)
  BY <1>3, FlattenIsSeq DEF a
<1> QED
  BY <1>4, <1>14, <1>15 DEF a

\* The slice of a halo has one central, its objects are in that halo, and the
\* central of the group has one.
GoodSlice(a, h) ==
    /\ a \in Seq(Galaxy)
    /\ \A x \in 1 .. Len(a) : /\ a[x].halo = h /\ a[x].type \in {0, 1, 2}
                              /\ a[x].type = 0 => IsFofCentral(h)
    /\ a # <<>> => \E c \in 1 .. Len(a) : LocalCentrals(a) = {c}
    /\ IsFofCentral(h) => \E c \in 1 .. Len(a) : a[c].type = 0

\* A halo whose progenitors have galaxies gets a slice with one local central:
\* the galaxy of the occupied progenitor; all others arrive as orphans.
LEMMA ArrivalsAreGood ==
    ASSUME OutIsReady, NEW h \in Halos, Arrivals(h) # <<>>
    PROVE  GoodSlice(Arrivals(h), h)
<1> DEFINE a == Arrivals(h)
<1>1. a \in Seq(Galaxy) /\ Len(a) \in Nat /\ DOMAIN a = 1 .. Len(a) /\ Len(a) # 0
  BY ArrivalsFacts, LenProperties, EmptySeq
<1>2. PICK src : Sourced(a, h, src)
  BY ArrivalsFacts
<1> HIDE DEF a
<1>3. ASSUME NEW x \in 1 .. Len(a)
      PROVE  /\ src[x] \in Progenitors(tree, h) /\ out[src[x]] # <<>>
             /\ a[x].halo = h /\ a[x].type \in {0, 1, 2}
             /\ a[x].type \in {0, 1} <=> src[x] = FirstOccupied(h)
             /\ src[x] = FirstOccupied(h) => (a[x].type = 0 <=> IsFofCentral(h))
  <2>1. /\ src[x] \in Progenitors(tree, h) /\ out[src[x]] # <<>> /\ src[x] \in Halos
        /\ a[x] = Inherited(out[src[x]][1], src[x], h)
    BY <1>2 DEF Sourced, CameFrom
  <2>2. out[src[x]][1] \in Galaxy /\ out[src[x]][1].type \in {0, 1}
    BY <2>1, OutFacts
  <2> QED
    BY <2>1, <2>2, InheritedFacts
<1>4. 1 \in 1 .. Len(a)
  BY <1>1
<1>5. FirstOccupied(h) \in Progenitors(tree, h) /\ out[FirstOccupied(h)] # <<>>
  BY <1>3, <1>4, HostIsOccupied
<1>6. PICK c \in 1 .. Len(a) : src[c] = FirstOccupied(h)
  BY <1>2, <1>5 DEF Sourced
<1>7. \A x \in 1 .. Len(a) : a[x].type \in {0, 1} <=> x = c
  BY <1>2, <1>3, <1>6 DEF Sourced
<1>8. LocalCentrals(a) = {c}
  BY <1>1, <1>7 DEF LocalCentrals
<1>9. \A x \in 1 .. Len(a) : a[x].type = 0 => IsFofCentral(h)
  BY <1>3
<1>10. IsFofCentral(h) => a[c].type = 0
  BY <1>3, <1>6
<1> QED
  BY <1>1, <1>3, <1>8, <1>9, <1>10 DEF GoodSlice, a

\* So does a central halo without such progenitors, and other slices are empty.
LEMMA SlicesAreGood ==
    ASSUME OutIsReady, NEW h \in Halos
    PROVE  GoodSlice(Slice(h), h)
<1>1. CASE Arrivals(h) # <<>>
  BY <1>1, ArrivalsAreGood DEF Slice
<1>2. CASE Arrivals(h) = <<>> /\ ~IsFofCentral(h)
  <2>1. Slice(h) = <<>>
    BY <1>2 DEF Slice
  <2> QED
    BY <1>2, <2>1 DEF GoodSlice
<1>3. CASE Arrivals(h) = <<>> /\ IsFofCentral(h)
  <2> DEFINE g == NewGalaxy(h)
             a == <<g>>
  <2>1. Slice(h) = a
    BY <1>3 DEF Slice
  <2>2. tree.snap[h] \in Nat
    BY TreeFacts DEF OutIsReady
  <2>3. g \in Galaxy /\ g.halo = h /\ g.type = 0
    BY <2>2 DEF Galaxy, NewGalaxy
  <2> HIDE DEF g
  <2>4. a \in Seq(Galaxy) /\ Len(a) = 1 /\ a[1] = g /\ DOMAIN a = {1}
    BY <2>3
  <2> HIDE DEF a
  <2>5. LocalCentrals(a) = {1}
    BY <2>3, <2>4 DEF LocalCentrals
  <2>6. 1 \in 1 .. Len(a) /\ \A x \in 1 .. Len(a) : x = 1
    BY <2>4
  <2> QED
    BY <1>3, <2>1, <2>3, <2>4, <2>5, <2>6 DEF GoodSlice
<1> QED
  BY <1>1, <1>2, <1>3

-----------------------------------------------------------------------------
(* The workspace of a group.                                                 *)

\* g is the object v, linked to another central.
SameObject(g, v) == /\ g.id = v.id /\ g.halo = v.halo /\ g.type = v.type
                    /\ g.clock = v.clock /\ g.snap = v.snap /\ g.holds = v.holds

\* Links change nothing else.
LEMMA LinkedFacts ==
    ASSUME NEW h, NEW s, GoodSlice(s, h), NEW start \in Nat
    PROVE  /\ Linked(s, start) \in Seq(Galaxy) /\ Len(Linked(s, start)) = Len(s)
           /\ \A k \in 1 .. Len(s) :
                 /\ SameObject(Linked(s, start)[k], s[k])
                 /\ \E c \in 1 .. Len(s) :
                       LocalCentrals(s) = {c} /\ Linked(s, start)[k].central = start + c
<1> DEFINE cc == CHOOSE c \in LocalCentrals(s) : TRUE
           r == [k \in DOMAIN s |-> [s[k] EXCEPT !.central = start + cc]]
<1>1. s \in Seq(Galaxy) /\ Len(s) \in Nat /\ DOMAIN s = 1 .. Len(s)
      /\ \A k \in 1 .. Len(s) : s[k] \in Galaxy
  BY LenProperties, ElementOfSeq DEF GoodSlice
<1>2. Linked(s, start) = r
  BY DEF Linked
<1>3. ASSUME NEW k \in 1 .. Len(s)
      PROVE  cc \in 1 .. Len(s) /\ LocalCentrals(s) = {cc}
  <2>1. s # <<>>
    BY <1>1, <1>3
  <2>2. PICK c \in 1 .. Len(s) : LocalCentrals(s) = {c}
    BY <2>1 DEF GoodSlice
  <2> QED
    BY <2>2
<1> HIDE DEF cc
<1>4. ASSUME NEW k \in 1 .. Len(s)
      PROVE  r[k] \in Galaxy /\ SameObject(r[k], s[k]) /\ r[k].central = start + cc
  <2> DEFINE c == start + cc
             g == s[k]
             v == [g EXCEPT !.central = c]
  <2>1. c \in Nat /\ g \in Galaxy
    BY <1>1, <1>3
  <2>2. r[k] = v
    BY <1>1
  <2> HIDE DEF c, g, r
  <2>3. v.id = g.id /\ v.halo = g.halo /\ v.type = g.type /\ v.central = c
        /\ v.clock = g.clock /\ v.snap = g.snap /\ v.holds = g.holds
    BY <2>1 DEF Galaxy
  <2>4. v \in Galaxy
    BY <2>1 DEF Galaxy
  <2> HIDE DEF v
  <2> QED
    BY <2>2, <2>3, <2>4 DEF SameObject, g, c
<1>5. r \in [1 .. Len(s) -> Galaxy]
  <2>1. r = [k \in 1 .. Len(s) |-> r[k]]
    BY <1>1
  <2> HIDE DEF r
  <2> QED
    BY <1>4, <2>1
<1> HIDE DEF r
<1>6. r \in Seq(Galaxy) /\ Len(r) = Len(s)
  BY <1>1, <1>5
<1> QED
  BY <1>2, <1>3, <1>4, <1>6

\* Object x of workspace w is object jx[x] of the slice of halo hm[x], linked to
\* the local central of that slice, and no object is missing.
Assembled(w, f, hm, jx) ==
    /\ w \in Seq(Galaxy)
    /\ \A x \in 1 .. Len(w) :
          /\ hm[x] \in MembersOf(tree, f) /\ jx[x] \in 1 .. Len(Slice(hm[x]))
          /\ SameObject(w[x], Slice(hm[x])[jx[x]])
          /\ w[x].central \in 1 .. Len(w)
          /\ hm[w[x].central] = hm[x]
          /\ LocalCentrals(Slice(hm[x])) = {jx[w[x].central]}
    /\ \A x, y \in 1 .. Len(w) : hm[x] = hm[y] /\ jx[x] = jx[y] => x = y
    /\ \A h \in MembersOf(tree, f) : \A j \in 1 .. Len(Slice(h)) :
          \E x \in 1 .. Len(w) : hm[x] = h /\ jx[x] = j

\* The workspace has the slices of the group's members, each object once, with
\* CentralHalo set to the local central of its slice.
LEMMA WorkspaceFacts ==
    ASSUME OutIsReady, NEW f \in Fofs(tree)
    PROVE  \E hm, jx : Assembled(Workspace(f), f, hm, jx)
<1> DEFINE members == tree.members[f]
           slices == [m \in DOMAIN members |-> Slice(members[m])]
           before == [m \in DOMAIN slices |-> Len(FlattenSeq(SubSeq(slices, 1, m - 1)))]
           linked == [m \in DOMAIN slices |-> Linked(slices[m], before[m])]
           w == FlattenSeq(linked)
<1>1. Workspace(f) = w
  BY DEF Workspace
<1>2. members \in Seq(Halos) /\ Len(members) \in Nat /\ DOMAIN members = 1 .. Len(members)
      /\ \A m \in 1 .. Len(members) : members[m] \in Halos /\ members[m] \in MembersOf(tree, f)
  BY GroupFacts, LenProperties, ElementOfSeq DEF OutIsReady, MembersOf
<1>3. \A h \in MembersOf(tree, f) : \E m \in 1 .. Len(members) : h = members[m]
  BY <1>2 DEF MembersOf
<1>4. \A m, n \in 1 .. Len(members) : members[m] = members[n] => m = n
  <2>1. GroupsEnd(tree) /\ f \in Halos
    BY TreeFacts, GroupFacts DEF OutIsReady
  <2> QED
    BY <1>2, <2>1 DEF GroupsEnd
<1> HIDE DEF members
<1>5. ASSUME NEW m \in 1 .. Len(members)
      PROVE  /\ slices[m] = Slice(members[m]) /\ GoodSlice(slices[m], members[m])
             /\ slices[m] \in Seq(Galaxy) /\ Len(slices[m]) \in Nat
  <2>1. slices[m] = Slice(members[m]) /\ GoodSlice(Slice(members[m]), members[m])
    BY <1>2, SlicesAreGood
  <2>2. slices[m] \in Seq(Galaxy)
    BY <2>1 DEF GoodSlice
  <2> QED
    BY <2>1, <2>2, LenProperties
<1>6. slices \in Seq(Seq(Galaxy)) /\ Len(slices) = Len(members) /\ DOMAIN slices = 1 .. Len(members)
  <2>1. slices = [m \in 1 .. Len(members) |-> slices[m]]
    BY <1>2
  <2> HIDE DEF slices
  <2>2. slices \in [1 .. Len(members) -> Seq(Galaxy)]
    BY <1>5, <2>1
  <2> QED
    BY <1>2, <2>2
<1> HIDE DEF slices
<1>7. ASSUME NEW m \in 1 .. Len(members)
      PROVE  /\ SubSeq(slices, 1, m - 1) \in Seq(Seq(Galaxy))
             /\ Len(SubSeq(slices, 1, m - 1)) = m - 1
             /\ \A n \in 1 .. m - 1 : SubSeq(slices, 1, m - 1)[n] = slices[n]
             /\ before[m] = Len(FlattenSeq(SubSeq(slices, 1, m - 1)))
             /\ before[m] \in Nat
  <2>1. m - 1 \in Int /\ (1 <= m - 1 => m - 1 - 1 + 1 = m - 1) /\ (~(1 <= m - 1) => m - 1 = 0)
    BY <1>2
  <2>2. \A n \in 1 .. m - 1 : slices[n] \in Seq(Galaxy)
    BY <1>2, <1>5
  <2>3. /\ SubSeq(slices, 1, m - 1) \in Seq(Seq(Galaxy))
        /\ Len(SubSeq(slices, 1, m - 1)) = IF 1 <= m - 1 THEN m - 1 - 1 + 1 ELSE 0
        /\ \A n \in 1 .. m - 1 - 1 + 1 : SubSeq(slices, 1, m - 1)[n] = slices[1 + n - 1]
    BY <2>1, <2>2, SubSeqProperties
  <2>4. Len(SubSeq(slices, 1, m - 1)) = m - 1
    BY <2>1, <2>3
  <2>5. ASSUME NEW n \in 1 .. m - 1 PROVE SubSeq(slices, 1, m - 1)[n] = slices[n]
    <3>1. n \in 1 .. m - 1 - 1 + 1 /\ 1 + n - 1 = n
      BY <2>1
    <3> QED
      BY <2>3, <3>1
  <2>6. before[m] = Len(FlattenSeq(SubSeq(slices, 1, m - 1)))
    BY <1>6
  <2>7. FlattenSeq(SubSeq(slices, 1, m - 1)) \in Seq(Galaxy)
    BY <2>3, FlattenIsSeq
  <2> QED
    BY <2>3, <2>4, <2>5, <2>6, <2>7, LenProperties
<1>8. ASSUME NEW m \in 1 .. Len(members)
      PROVE  /\ linked[m] \in Seq(Galaxy) /\ Len(linked[m]) = Len(slices[m])
             /\ \A k \in 1 .. Len(slices[m]) :
                   /\ SameObject(linked[m][k], slices[m][k])
                   /\ \E c \in 1 .. Len(slices[m]) :
                         LocalCentrals(slices[m]) = {c} /\ linked[m][k].central = before[m] + c
  <2>1. linked[m] = Linked(slices[m], before[m])
    BY <1>6
  <2> HIDE DEF linked, before
  <2>2. before[m] \in Nat /\ GoodSlice(slices[m], members[m])
    BY <1>5, <1>7
  <2>3. PICK b \in Nat : b = before[m]
    BY <2>2
  <2>4. PICK s : s = slices[m]
    OBVIOUS
  <2>5. GoodSlice(s, members[m])
    BY <2>2, <2>4
  <2>6. PICK r : r = Linked(s, b)
    OBVIOUS
  <2>7. r = linked[m]
    BY <2>1, <2>3, <2>4, <2>6, Zenon
  <2>8. /\ r \in Seq(Galaxy) /\ Len(r) = Len(s)
        /\ \A k \in 1 .. Len(s) :
              /\ SameObject(r[k], s[k])
              /\ \E c \in 1 .. Len(s) : LocalCentrals(s) = {c} /\ r[k].central = b + c
    <3>1. /\ Linked(s, b) \in Seq(Galaxy) /\ Len(Linked(s, b)) = Len(s)
          /\ \A k \in 1 .. Len(s) :
                /\ SameObject(Linked(s, b)[k], s[k])
                /\ \E c \in 1 .. Len(s) :
                      LocalCentrals(s) = {c} /\ Linked(s, b)[k].central = b + c
      BY <2>5, LinkedFacts
    <3> QED
      BY <2>6, <3>1, Zenon
  <2> QED
    BY <2>3, <2>4, <2>7, <2>8, Zenon
<1>9. linked \in Seq(Seq(Galaxy)) /\ Len(linked) = Len(members)
  <2>1. linked = [m \in 1 .. Len(members) |-> linked[m]]
    BY <1>6
  <2> HIDE DEF linked
  <2>2. linked \in [1 .. Len(members) -> Seq(Galaxy)]
    BY <1>8, <2>1
  <2> QED
    BY <1>2, <2>2
<1> HIDE DEF linked, before
<1>10. PICK o : LaidOut(o, linked, w)
  BY <1>9, FlattenLaysOut
<1>11. w \in Seq(Galaxy) /\ Offsets(o, linked)
  BY <1>9, <1>10, FlattenIsSeq DEF LaidOut
<1> HIDE DEF w
<1>12. ASSUME NEW m \in 1 .. Len(members)
       PROVE  before[m] = o[m - 1]
  <2> DEFINE sub == SubSeq(slices, 1, m - 1)
  <2>1. sub \in Seq(Seq(Galaxy)) /\ Len(sub) = m - 1
        /\ (\A n \in 1 .. m - 1 : sub[n] = slices[n]) /\ before[m] = Len(FlattenSeq(sub))
    BY <1>7
  <2> HIDE DEF sub
  <2>2. PICK u : LaidOut(u, sub, FlattenSeq(sub))
    BY <2>1, FlattenLaysOut
  <2>3. Offsets(u, sub) /\ before[m] = u[m - 1]
    BY <2>1, <2>2 DEF LaidOut
  <2>4. Len(sub) <= Len(linked) /\ m - 1 \in 0 .. Len(sub)
    BY <1>2, <1>9, <2>1
  <2>5. ASSUME NEW n \in 1 .. Len(sub) PROVE Len(sub[n]) = Len(linked[n])
    <3>1. n \in 1 .. m - 1 /\ n \in 1 .. Len(members)
      BY <1>2, <2>1
    <3> QED
      BY <1>8, <2>1, <3>1
  <2>6. o[m - 1] = u[m - 1]
    <3>1. PICK a \in 0 .. Len(sub) : a = m - 1
      BY <2>4
    <3>2. StartsAsLong(sub, linked)
      BY <2>4, <2>5 DEF StartsAsLong
    <3>3. o[a] = u[a]
      BY <1>9, <1>11, <2>1, <2>3, <2>4, <3>2, OffsetsAgree
    <3> QED
      BY <3>1, <3>3, Zenon
  <2> QED
    BY <2>3, <2>6
<1> DEFINE At(x, m, j) == m \in 1 .. Len(members) /\ j \in 1 .. Len(slices[m]) /\ x = o[m - 1] + j
<1>13. ASSUME NEW x \in 1 .. Len(w)
       PROVE  \E m, j : At(x, m, j)
  <2>1. PICK m \in 1 .. Len(linked) : \E j \in 1 .. Len(linked[m]) : x = o[m - 1] + j
    <3>1. LaidDown(o, linked, x)
      BY <1>9, <1>10, EveryPositionIsPlaced
    <3> QED
      BY <3>1 DEF LaidDown
  <2>2. m \in 1 .. Len(members) /\ Len(linked[m]) = Len(slices[m])
    BY <1>8, <1>9, <2>1
  <2> QED
    BY <2>1, <2>2
<1>14. ASSUME NEW x, NEW m, NEW j, At(x, m, j)
       PROVE  x \in 1 .. Len(w) /\ w[x] = linked[m][j]
  <2>1. m \in 1 .. Len(linked) /\ j \in 1 .. Len(linked[m]) /\ x = o[m - 1] + j
    BY <1>8, <1>9, <1>14
  <2> QED
    BY <1>10, <2>1 DEF LaidOut
<1>15. ASSUME NEW x, NEW m, NEW j, NEW n, NEW k, At(x, m, j), At(x, n, k)
       PROVE  m = n /\ j = k
  <2>1. /\ m \in 1 .. Len(linked) /\ j \in 1 .. Len(linked[m])
        /\ n \in 1 .. Len(linked) /\ k \in 1 .. Len(linked[n])
        /\ o[m - 1] + j = o[n - 1] + k
    BY <1>8, <1>9, <1>15
  <2> QED
    BY <1>9, <1>11, <2>1, PlacesDiffer
<1> DEFINE mx == [x \in 1 .. Len(w) |-> CHOOSE m : \E j : At(x, m, j)]
           jx == [x \in 1 .. Len(w) |-> CHOOSE j : At(x, mx[x], j)]
           hm == [x \in 1 .. Len(w) |-> members[mx[x]]]
<1> HIDE DEF At
<1>16. ASSUME NEW x \in 1 .. Len(w)
       PROVE  At(x, mx[x], jx[x])
  <2>1. mx[x] = CHOOSE m : \E j : At(x, m, j)
    OBVIOUS
  <2>2. jx[x] = CHOOSE j : At(x, mx[x], j)
    OBVIOUS
  <2> HIDE DEF mx, jx
  <2>3. \E j : At(x, mx[x], j)
    BY <1>13, <2>1
  <2> QED
    BY <2>2, <2>3
<1>17. \A x \in 1 .. Len(w) : hm[x] = members[mx[x]]
  OBVIOUS
<1> HIDE DEF mx, jx, hm
<1>18. ASSUME NEW x \in 1 .. Len(w)
       PROVE  /\ mx[x] \in 1 .. Len(members) /\ hm[x] \in MembersOf(tree, f)
              /\ Slice(hm[x]) = slices[mx[x]]
              /\ jx[x] \in 1 .. Len(slices[mx[x]])
              /\ w[x] = linked[mx[x]][jx[x]]
  <2>1. At(x, mx[x], jx[x])
    BY <1>16
  <2>2. mx[x] \in 1 .. Len(members) /\ jx[x] \in 1 .. Len(slices[mx[x]])
    BY <2>1 DEF At
  <2>3. w[x] = linked[mx[x]][jx[x]]
    BY <1>14, <2>1
  <2> QED
    BY <1>2, <1>5, <1>17, <2>2, <2>3
<1>19. ASSUME NEW x \in 1 .. Len(w)
       PROVE  /\ SameObject(w[x], Slice(hm[x])[jx[x]])
              /\ w[x].central \in 1 .. Len(w)
              /\ hm[w[x].central] = hm[x]
              /\ LocalCentrals(Slice(hm[x])) = {jx[w[x].central]}
  <2> DEFINE m == mx[x]
             j == jx[x]
  <2>1. m \in 1 .. Len(members) /\ j \in 1 .. Len(slices[m]) /\ w[x] = linked[m][j]
        /\ Slice(hm[x]) = slices[m] /\ hm[x] = members[m]
    BY <1>17, <1>18
  <2> HIDE DEF m, j
  <2>2. SameObject(w[x], slices[m][j])
    BY <1>8, <2>1
  <2>3. PICK c \in 1 .. Len(slices[m]) :
             LocalCentrals(slices[m]) = {c} /\ linked[m][j].central = before[m] + c
    BY <1>8, <2>1
  <2> DEFINE y == w[x].central
  <2>4. y = o[m - 1] + c
    BY <1>12, <2>1, <2>3
  <2> HIDE DEF y
  <2>5. At(y, m, c)
    BY <2>1, <2>3, <2>4 DEF At
  <2>6. y \in 1 .. Len(w)
    BY <1>14, <2>5
  <2>7. mx[y] = m /\ jx[y] = c
    BY <1>15, <1>16, <2>5, <2>6
  <2>8. hm[y] = hm[x]
    BY <1>17, <2>1, <2>6, <2>7
  <2> QED
    BY <2>1, <2>2, <2>3, <2>6, <2>7, <2>8 DEF y, j
<1>20. ASSUME NEW x \in 1 .. Len(w), NEW y \in 1 .. Len(w), hm[x] = hm[y], jx[x] = jx[y]
       PROVE  x = y
  <2>1. mx[x] = mx[y]
    BY <1>4, <1>17, <1>18, <1>20
  <2>2. At(x, mx[x], jx[x]) /\ At(y, mx[x], jx[x])
    BY <1>16, <1>20, <2>1
  <2> QED
    BY <2>2 DEF At
<1>21. ASSUME NEW h \in MembersOf(tree, f), NEW j \in 1 .. Len(Slice(h))
       PROVE  \E x \in 1 .. Len(w) : hm[x] = h /\ jx[x] = j
  <2>1. PICK m \in 1 .. Len(members) : h = members[m]
    BY <1>3
  <2>2. slices[m] = Slice(h)
    BY <1>5, <2>1
  <2> DEFINE x == o[m - 1] + j
  <2>3. At(x, m, j)
    BY <2>1, <2>2 DEF At
  <2> HIDE DEF x
  <2>4. x \in 1 .. Len(w)
    BY <1>14, <2>3
  <2>5. mx[x] = m /\ jx[x] = j
    BY <1>15, <1>16, <2>3, <2>4
  <2> QED
    BY <1>17, <2>1, <2>4, <2>5
<1>22. Assembled(w, f, hm, jx)
  BY <1>11, <1>18, <1>19, <1>20, <1>21 DEF Assembled
<1> QED
  BY <1>1, <1>22

\* The central of a group that has one.
LEMMA FofCentralFacts ==
    ASSUME NEW w \in Seq(Galaxy), \E k \in DOMAIN w : w[k].type = 0
    PROVE  FofCentral(w) \in DOMAIN w /\ w[FofCentral(w)].type = 0
<1> DEFINE I == {k \in 1 .. Len(w) : w[k].type = 0}
<1>1. Len(w) \in Nat /\ DOMAIN w = 1 .. Len(w)
  BY LenProperties
<1>2. FofCentral(w) = IF I # {} THEN Min(I) ELSE 0
  BY DEF FofCentral, SelectInSeq
<1>3. I # {} /\ I \in SUBSET Nat
  BY <1>1
<1>4. \A x \in I : x \in DOMAIN w /\ w[x].type = 0
  BY <1>1
<1> HIDE DEF I
<1>5. \E x \in I : \A y \in I : x <= y
  BY <1>3, LeastElement
<1>6. Min(I) \in I
  BY <1>5 DEF Min
<1> QED
  BY <1>2, <1>3, <1>4, <1>6

-----------------------------------------------------------------------------
(* Where the objects of a workspace come from.                               *)

\* Object g is the galaxy of progenitor p of its halo, in group f.
FromProgenitor(g, p, f) ==
    /\ p \in Progenitors(tree, g.halo) /\ Feeds(tree, p, f) /\ out[p] # <<>>
    /\ g.id = out[p][1].id /\ g.snap = out[p][1].snap /\ g.holds = out[p][1].holds

\* Object g is the new galaxy of the central halo of group f.
NewIn(g, f) == /\ g.halo = f /\ g.id = f
               /\ g.snap = tree.snap[f] - 1 /\ g.holds = {f}

\* Object x of w comes from progenitor from[x], one from each, or is the new
\* one; from[x] is f itself then.
Origins(w, f, from) ==
    /\ from \in [1 .. Len(w) -> Halos]
    /\ \A x \in 1 .. Len(w) : from[x] # f => FromProgenitor(w[x], from[x], f)
    /\ \A x \in 1 .. Len(w) : from[x] = f => NewIn(w[x], f)
    /\ \A x, y \in 1 .. Len(w) : from[x] = from[y] => x = y

\* The progenitors the arrivals of halo h come from.
SourcesOf(h) == CHOOSE src : Sourced(Arrivals(h), h, src)

\* Different objects of the workspace come from different progenitors.
LEMMA OriginsFound ==
    ASSUME OutIsReady, NEW f \in Fofs(tree), NEW w, NEW hm, NEW jx, Assembled(w, f, hm, jx)
    PROVE  \E from : Origins(w, f, from)
<1> DEFINE from == [x \in 1 .. Len(w) |->
                      IF Arrivals(hm[x]) # <<>> THEN SourcesOf(hm[x])[jx[x]] ELSE f]
<1>1. ASSUME NEW x \in 1 .. Len(w)
      PROVE  /\ hm[x] \in MembersOf(tree, f) /\ hm[x] \in Halos /\ tree.fof[hm[x]] = f
             /\ jx[x] \in 1 .. Len(Slice(hm[x]))
             /\ SameObject(w[x], Slice(hm[x])[jx[x]])
             /\ w[x].halo = hm[x]
  <2>1. /\ hm[x] \in MembersOf(tree, f) /\ jx[x] \in 1 .. Len(Slice(hm[x]))
        /\ SameObject(w[x], Slice(hm[x])[jx[x]])
    BY DEF Assembled
  <2>2. hm[x] \in Halos /\ tree.fof[hm[x]] = f
    BY <2>1, GroupFacts DEF OutIsReady
  <2>3. GoodSlice(Slice(hm[x]), hm[x])
    BY <2>2, SlicesAreGood
  <2>4. Slice(hm[x])[jx[x]].halo = hm[x]
    BY <2>1, <2>3 DEF GoodSlice
  <2> QED
    BY <2>1, <2>2, <2>4 DEF SameObject
<1>2. ASSUME NEW x \in 1 .. Len(w), Arrivals(hm[x]) # <<>>
      PROVE  /\ from[x] = SourcesOf(hm[x])[jx[x]]
             /\ Sourced(Arrivals(hm[x]), hm[x], SourcesOf(hm[x]))
             /\ jx[x] \in 1 .. Len(Arrivals(hm[x]))
             /\ from[x] \in Halos /\ from[x] # f /\ FromProgenitor(w[x], from[x], f)
  <2>1. Slice(hm[x]) = Arrivals(hm[x])
    BY <1>2 DEF Slice
  <2>2. Sourced(Arrivals(hm[x]), hm[x], SourcesOf(hm[x]))
    BY <1>1, ArrivalsFacts DEF SourcesOf
  <2>3. from[x] = SourcesOf(hm[x])[jx[x]]
    BY <1>2
  <2> DEFINE p == from[x]
             g == Slice(hm[x])[jx[x]]
  <2>4. p \in Halos /\ CameFrom(g, p, hm[x])
    BY <1>1, <2>1, <2>2, <2>3 DEF Sourced
  <2> HIDE DEF from
  <2>5. p \in Progenitors(tree, hm[x]) /\ out[p] # <<>> /\ g = Inherited(out[p][1], p, hm[x])
    BY <2>4 DEF CameFrom
  <2>6. out[p][1] \in Galaxy /\ out[p][1].type \in {0, 1}
    BY <2>4, <2>5, OutFacts
  <2>7. g.id = out[p][1].id /\ g.snap = out[p][1].snap /\ g.holds = out[p][1].holds
    BY <1>1, <2>5, <2>6, InheritedFacts
  <2>8. Feeds(tree, p, f)
    BY <1>1, <2>5 DEF Feeds
  <2>9. FromProgenitor(w[x], p, f)
    BY <1>1, <2>5, <2>7, <2>8 DEF FromProgenitor, SameObject
  <2>10. p # f
    <3>1. tree \in Trees
      BY DEF OutIsReady
    <3>2. tree.snap[p] < tree.snap[hm[x]] /\ tree.snap[p] \in Nat
      BY <1>1, <2>5, <3>1, ProgenitorFacts
    <3>3. tree.snap[hm[x]] = tree.snap[f]
      BY <1>1, <3>1, GroupFacts
    <3> QED
      BY <3>2, <3>3
  <2> QED
    BY <1>1, <2>1, <2>2, <2>3, <2>4, <2>9, <2>10
<1>3. ASSUME NEW x \in 1 .. Len(w), Arrivals(hm[x]) = <<>>
      PROVE  from[x] = f /\ hm[x] = f /\ jx[x] = 1 /\ NewIn(w[x], f)
  <2>1. from[x] = f
    BY <1>3
  <2>2. IsFofCentral(hm[x])
    <3>1. Slice(hm[x]) # <<>>
      BY <1>1
    <3> QED
      BY <1>3, <3>1 DEF Slice
  <2>3. hm[x] = f
    BY <1>1, <2>2 DEF IsFofCentral
  <2>4. Slice(hm[x]) = <<NewGalaxy(f)>>
    BY <1>3, <2>2, <2>3 DEF Slice
  <2>5. jx[x] = 1
    BY <1>1, <2>4
  <2>6. SameObject(w[x], NewGalaxy(f))
    BY <1>1, <2>4, <2>5
  <2>7. NewIn(w[x], f)
    BY <2>6 DEF SameObject, NewGalaxy, NewIn
  <2> QED
    BY <2>1, <2>3, <2>5, <2>7
<1> HIDE DEF from
<1>4. from \in [1 .. Len(w) -> Halos]
  <2>1. from = [x \in 1 .. Len(w) |-> from[x]]
    BY DEF from
  <2>2. \A x \in 1 .. Len(w) : from[x] \in Halos
    <3> SUFFICES ASSUME NEW x \in 1 .. Len(w) PROVE from[x] \in Halos
      OBVIOUS
    <3>1. f \in Halos
      BY GroupFacts DEF OutIsReady
    <3> QED
      BY <1>2, <1>3, <3>1
  <2> QED
    BY <2>1, <2>2
<1>5. ASSUME NEW x \in 1 .. Len(w), NEW y \in 1 .. Len(w), from[x] = from[y]
      PROVE  x = y
  <2>1. CASE Arrivals(hm[x]) # <<>> /\ Arrivals(hm[y]) # <<>>
    <3>1. from[x] \in Progenitors(tree, hm[x]) /\ from[x] \in Progenitors(tree, hm[y])
      BY <1>1, <1>2, <1>5, <2>1 DEF FromProgenitor
    <3>2. hm[x] = hm[y]
      BY <1>1, <3>1, OneHeir DEF OutIsReady
    <3>3. jx[x] = jx[y]
      BY <1>2, <1>5, <2>1, <3>2 DEF Sourced
    <3> QED
      BY <3>2, <3>3 DEF Assembled
  <2>2. CASE Arrivals(hm[x]) = <<>> /\ Arrivals(hm[y]) = <<>>
    <3>1. hm[x] = hm[y] /\ jx[x] = jx[y]
      BY <1>3, <2>2
    <3> QED
      BY <3>1 DEF Assembled
  <2>3. CASE Arrivals(hm[x]) = <<>> /\ Arrivals(hm[y]) # <<>>
    BY <1>2, <1>3, <1>5, <2>3
  <2>4. CASE Arrivals(hm[x]) # <<>> /\ Arrivals(hm[y]) = <<>>
    BY <1>2, <1>3, <1>5, <2>4
  <2> QED
    BY <2>1, <2>2, <2>3, <2>4
<1>6. Origins(w, f, from)
  BY <1>2, <1>3, <1>4, <1>5 DEF Origins
<1> QED
  BY <1>6

-----------------------------------------------------------------------------
(* The inductive invariant.                                                  *)

\* What is written of a halo is written with its group, has the clock of a
\* satellite exactly if it is one, and holds mass that was written before.
OutIsTrue ==
    \A h \in Halos : out[h] # <<>> =>
        /\ tree.fof[h] \in evolved
        /\ out[h][1].snap = tree.snap[h]
        /\ out[h][1].clock = "unset" <=> out[h][1].type = 0
        /\ out[h][1].id \in out[h][1].holds
        /\ \A x \in out[h][1].holds : tree.fof[x] \in evolved

\* Of two halos of which none can have come to the group of the other the
\* galaxies hold nothing together.
OutIsApart ==
    \A p, q \in Halos :
        /\ p # q /\ out[p] # <<>> /\ out[q] # <<>>
        /\ ~Before(tree, p, tree.fof[q]) /\ ~Before(tree, q, tree.fof[p])
        => out[p][1].holds \cap out[q][1].holds = {}

\* The group in the workspace is the one that is due.
GroupIsDue ==
    /\ tree \in Trees /\ ClosedBackward(tree, evolved)
    /\ status # "fatal"
    /\ pc = "idle" => ws = <<>>
    /\ pc # "idle" => /\ status = "running"
                      /\ group \in Fofs(tree) \ evolved
                      /\ Needs(tree, group) \subseteq evolved
                      /\ \E k \in DOMAIN ws : ws[k].type = 0

\* The objects of w are halos of group f; the objects of a halo are linked to
\* one of them, and a central or satellite is that one.
Linkage(w, f) ==
    /\ \A k \in DOMAIN w :
          /\ w[k].halo \in MembersOf(tree, f)
          /\ w[k].central \in DOMAIN w
          /\ w[w[k].central].halo = w[k].halo
          /\ w[k].type \in {0, 1} => w[k].central = k
          /\ w[k].type = 2 => w[k].central # k
          /\ w[k].type = 0 => w[k].halo = f
    /\ \A j, k \in DOMAIN w : w[j].halo = w[k].halo => w[j].central = w[k].central

\* An object is of an earlier snapshot, and holds its own mass and mass that
\* was written before or is the group's own.
ObjectsAreTrue ==
    \A k \in DOMAIN ws :
        /\ ws[k].snap < tree.snap[group]
        /\ ws[k].id \in ws[k].holds
        /\ \A x \in ws[k].holds : tree.fof[x] \in evolved \cup {group}

\* No mass is in two live objects, or in one and in a galaxy whose mass has
\* not come to this group.
MassIsApart ==
    /\ \A j, k \in Live : j # k => ws[j].holds \cap ws[k].holds = {}
    /\ \A k \in DOMAIN ws : \A q \in Halos :
          out[q] # <<>> /\ ~Before(tree, q, group) => ws[k].holds \cap out[q][1].holds = {}

\* Once the clocks are set exactly the satellites have one.
ClocksAreSet ==
    pc \in {"resolve", "marshal"} =>
        \A k \in Live : ws[k].clock = "unset" <=> ws[k].type = 0

\* The last substep leaves no orphan behind.
OrphansAreGone ==
    /\ pc = "clock" => i = 1
    /\ pc = "resolve" /\ step + 1 = NumSubsteps =>
          \A k \in DOMAIN ws : k < i => ws[k].type # 2
    /\ pc = "marshal" => \A k \in DOMAIN ws : ws[k].type # 2

FlowInv == /\ TypeOK /\ OutIsReady /\ OutIsTrue /\ OutIsApart /\ GroupIsDue
           /\ Linkage(ws, group) /\ ObjectsAreTrue /\ MassIsApart
           /\ ClocksAreSet /\ OrphansAreGone /\ StillAtProgenitor

-----------------------------------------------------------------------------
(* The gather step.                                                          *)

\* The slices linked by set_local_centrals() make a linked workspace with a
\* central of the group.
LEMMA WorkspaceIsLinked ==
    ASSUME OutIsReady, NEW f \in Fofs(tree), NEW w, NEW hm, NEW jx, Assembled(w, f, hm, jx)
    PROVE  /\ Linkage(w, f)
           /\ \E k \in DOMAIN w : w[k].type = 0
           /\ \A k \in DOMAIN w : w[k].type # 3
<1>1. w \in Seq(Galaxy) /\ Len(w) \in Nat /\ DOMAIN w = 1 .. Len(w)
  BY LenProperties DEF Assembled
<1>2. ASSUME NEW x \in 1 .. Len(w)
      PROVE  /\ hm[x] \in MembersOf(tree, f) /\ hm[x] \in Halos /\ tree.fof[hm[x]] = f
             /\ jx[x] \in 1 .. Len(Slice(hm[x])) /\ GoodSlice(Slice(hm[x]), hm[x])
             /\ DOMAIN Slice(hm[x]) = 1 .. Len(Slice(hm[x]))
             /\ w[x].halo = hm[x] /\ w[x].type = Slice(hm[x])[jx[x]].type
             /\ w[x].type \in {0, 1, 2} /\ (w[x].type = 0 => IsFofCentral(hm[x]))
             /\ w[x].central \in 1 .. Len(w) /\ hm[w[x].central] = hm[x]
             /\ LocalCentrals(Slice(hm[x])) = {jx[w[x].central]}
  <2>1. /\ hm[x] \in MembersOf(tree, f) /\ jx[x] \in 1 .. Len(Slice(hm[x]))
        /\ SameObject(w[x], Slice(hm[x])[jx[x]])
        /\ w[x].central \in 1 .. Len(w) /\ hm[w[x].central] = hm[x]
        /\ LocalCentrals(Slice(hm[x])) = {jx[w[x].central]}
    BY DEF Assembled
  <2>2. hm[x] \in Halos /\ tree.fof[hm[x]] = f
    BY <2>1, GroupFacts DEF OutIsReady
  <2>3. GoodSlice(Slice(hm[x]), hm[x])
    BY <2>2, SlicesAreGood
  <2>4. DOMAIN Slice(hm[x]) = 1 .. Len(Slice(hm[x]))
    BY <2>3, LenProperties DEF GoodSlice
  <2>5. /\ Slice(hm[x])[jx[x]].halo = hm[x] /\ Slice(hm[x])[jx[x]].type \in {0, 1, 2}
        /\ Slice(hm[x])[jx[x]].type = 0 => IsFofCentral(hm[x])
    BY <2>1, <2>3 DEF GoodSlice
  <2>6. w[x].halo = hm[x] /\ w[x].type = Slice(hm[x])[jx[x]].type
    BY <2>1, <2>5 DEF SameObject
  <2> QED
    BY <2>1, <2>2, <2>3, <2>4, <2>5, <2>6
<1>3. ASSUME NEW x \in 1 .. Len(w)
      PROVE  w[x].type \in {0, 1} <=> jx[x] = jx[w[x].central]
  <2> DEFINE s == Slice(hm[x])
  <2>1. jx[x] \in DOMAIN s /\ w[x].type = s[jx[x]].type /\ LocalCentrals(s) = {jx[w[x].central]}
    BY <1>2
  <2> HIDE DEF s
  <2>2. s[jx[x]].type \in {0, 1} <=> jx[x] \in LocalCentrals(s)
    BY <2>1 DEF LocalCentrals
  <2> QED
    BY <2>1, <2>2
<1>4. ASSUME NEW x \in 1 .. Len(w), NEW y \in 1 .. Len(w), hm[x] = hm[y], jx[x] = jx[y]
      PROVE  x = y
  BY <1>4 DEF Assembled
<1>5. ASSUME NEW x \in 1 .. Len(w), NEW y \in 1 .. Len(w), hm[x] = hm[y]
      PROVE  w[x].central = w[y].central
  <2>1. {jx[w[x].central]} = {jx[w[y].central]}
    BY <1>2, <1>5
  <2>2. jx[w[x].central] = jx[w[y].central]
    BY <2>1
  <2>3. PICK a \in 1 .. Len(w) : a = w[x].central /\ hm[a] = hm[x]
    BY <1>2
  <2>4. PICK b \in 1 .. Len(w) : b = w[y].central /\ hm[b] = hm[y]
    BY <1>2
  <2>5. hm[a] = hm[b] /\ jx[a] = jx[b]
    BY <1>5, <2>2, <2>3, <2>4, Zenon
  <2>6. a = b
    BY <1>4, <2>5
  <2> QED
    BY <2>3, <2>4, <2>6
<1>6. ASSUME NEW x \in 1 .. Len(w)
      PROVE  w[x].type \in {0, 1} <=> w[x].central = x
  BY <1>2, <1>3, <1>4, SMTT(30)
<1>7. ASSUME NEW x \in 1 .. Len(w)
      PROVE  /\ w[x].halo \in MembersOf(tree, f)
             /\ w[x].central \in DOMAIN w
             /\ w[w[x].central].halo = w[x].halo
             /\ w[x].type \in {0, 1} => w[x].central = x
             /\ w[x].type = 2 => w[x].central # x
             /\ w[x].type = 0 => w[x].halo = f
  BY <1>1, <1>2, <1>6 DEF IsFofCentral
<1>8. Linkage(w, f)
  BY <1>1, <1>2, <1>5, <1>7 DEF Linkage
<1>9. \E k \in DOMAIN w : w[k].type = 0
  <2>1. f \in Halos /\ f \in MembersOf(tree, f) /\ IsFofCentral(f)
    BY GroupFacts DEF IsFofCentral, OutIsReady
  <2>2. PICK c \in 1 .. Len(Slice(f)) : Slice(f)[c].type = 0
    BY <2>1, SlicesAreGood DEF GoodSlice
  <2>3. PICK x \in 1 .. Len(w) : hm[x] = f /\ jx[x] = c
    BY <2>1 DEF Assembled
  <2>4. w[x].type = 0
    BY <1>2, <2>2, <2>3
  <2> QED
    BY <1>1, <2>4
<1>10. ASSUME NEW x \in DOMAIN w PROVE w[x].type # 3
  <2>1. x \in 1 .. Len(w)
    BY <1>1
  <2>2. w[x].type \in {0, 1, 2}
    BY <1>2, <2>1
  <2> QED
    BY <2>2
<1> QED
  BY <1>8, <1>9, <1>10

\* What the invariant says while no workspace is in use.
GatherReady(f) ==
    /\ OutIsReady /\ OutIsTrue /\ OutIsApart
    /\ ClosedBackward(tree, evolved)
    /\ f \in Fofs(tree) \ evolved /\ Needs(tree, f) \subseteq evolved

\* A galaxy that is gathered: it is younger than the group, and its mass is in
\* no galaxy that stays behind.
LEMMA GatheredFacts ==
    ASSUME NEW f, GatherReady(f), NEW p \in Halos, Feeds(tree, p, f), out[p] # <<>>
    PROVE  /\ tree.fof[p] \in evolved
           /\ out[p][1].snap = tree.snap[p] /\ tree.snap[p] < tree.snap[f]
           /\ out[p][1].id \in out[p][1].holds
           /\ \A x \in out[p][1].holds : tree.fof[x] \in evolved /\ x # f
           /\ \A q \in Halos : /\ out[q] # <<>>
                               /\ ~Before(tree, q, f) \/ (Feeds(tree, q, f) /\ q # p)
                 => out[p][1].holds \cap out[q][1].holds = {}
<1>1. tree \in Trees /\ f \in Fofs(tree) /\ f \notin evolved /\ ClosedBackward(tree, evolved)
  BY DEF GatherReady, OutIsReady
<1>2. /\ tree.fof[p] \in evolved
      /\ out[p][1].snap = tree.snap[p]
      /\ out[p][1].id \in out[p][1].holds
      /\ \A x \in out[p][1].holds : tree.fof[x] \in evolved
  BY DEF GatherReady, OutIsTrue
<1>3. tree.snap[p] < tree.snap[f]
  BY <1>1, FeedsBefore, BeforeIsEarlier
<1>4. tree.fof[f] = f
  BY <1>1, GroupFacts
<1>5. ASSUME NEW q \in Halos, out[q] # <<>>,
             ~Before(tree, q, f) \/ (Feeds(tree, q, f) /\ q # p)
      PROVE  out[p][1].holds \cap out[q][1].holds = {}
  <2>1. tree.fof[q] \in evolved
    BY <1>5 DEF GatherReady, OutIsTrue
  <2>2. ~Before(tree, p, tree.fof[q])
    BY <1>1, <2>1, NotYetBefore
  <2>3. p # q /\ ~Before(tree, q, tree.fof[p])
    <3>1. CASE ~Before(tree, q, f)
      <4>1. p # q
        BY <1>1, <3>1, FeedsBefore
      <4>2. ~Before(tree, q, tree.fof[p])
        BY <1>1, <3>1, BeforeGoesOn
      <4> QED
        BY <4>1, <4>2
    <3>2. CASE Feeds(tree, q, f) /\ q # p
      BY <1>1, <1>2, <3>2, NotYetBefore
    <3> QED
      BY <1>5, <3>1, <3>2
  <2> QED
    BY <1>5, <2>2, <2>3 DEF GatherReady, OutIsApart
<1> QED
  BY <1>1, <1>2, <1>3, <1>4, <1>5

\* The mass of a gathered workspace w.
GatheredMass(w, f) ==
    /\ \A k \in DOMAIN w :
          /\ w[k].snap < tree.snap[f]
          /\ w[k].id \in w[k].holds
          /\ \A x \in w[k].holds : tree.fof[x] \in evolved \cup {f}
    /\ \A j, k \in DOMAIN w : j # k => w[j].holds \cap w[k].holds = {}
    /\ \A k \in DOMAIN w : \A q \in Halos :
          out[q] # <<>> /\ ~Before(tree, q, f) => w[k].holds \cap out[q][1].holds = {}
    /\ \A k \in DOMAIN w :
          \/ \E p \in Progenitors(tree, w[k].halo) :
                /\ \E j \in DOMAIN out[p] : out[p][j].id = w[k].id
                /\ w[k].snap = tree.snap[p]
          \/ w[k].id = w[k].halo /\ w[k].snap = tree.snap[w[k].halo] - 1

\* Every object of the workspace brings its own mass.
LEMMA WorkspaceMass ==
    ASSUME NEW f, GatherReady(f), NEW w \in Seq(Galaxy), NEW from, Origins(w, f, from)
    PROVE  GatheredMass(w, f)
<1>1. DOMAIN w = 1 .. Len(w)
  BY LenProperties
<1>2. tree \in Trees /\ f \in Fofs(tree) /\ f \in Halos /\ tree.fof[f] = f /\ tree.snap[f] \in Nat
      /\ f \notin evolved
  BY GroupFacts, TreeFacts DEF GatherReady, OutIsReady
<1>3. ASSUME NEW x \in 1 .. Len(w), from[x] # f
      PROVE  /\ from[x] \in Halos /\ from[x] \in Progenitors(tree, w[x].halo)
             /\ Feeds(tree, from[x], f) /\ out[from[x]] # <<>>
             /\ w[x].id = out[from[x]][1].id /\ w[x].snap = out[from[x]][1].snap
             /\ w[x].holds = out[from[x]][1].holds
  BY <1>3 DEF Origins, FromProgenitor
<1>4. ASSUME NEW x \in 1 .. Len(w), from[x] = f
      PROVE  /\ w[x].halo = f /\ w[x].id = f
             /\ w[x].snap = tree.snap[f] - 1 /\ w[x].holds = {f}
  BY <1>4 DEF Origins, NewIn
<1>5. ASSUME NEW x \in 1 .. Len(w)
      PROVE  /\ w[x].snap < tree.snap[f]
             /\ w[x].id \in w[x].holds
             /\ \A z \in w[x].holds : tree.fof[z] \in evolved \cup {f}
  <2>1. CASE from[x] # f
    <3> DEFINE p == from[x]
    <3>1. /\ p \in Halos /\ Feeds(tree, p, f) /\ out[p] # <<>>
          /\ w[x].id = out[p][1].id /\ w[x].snap = out[p][1].snap
          /\ w[x].holds = out[p][1].holds
      BY <1>3, <2>1
    <3> HIDE DEF p
    <3>2. /\ out[p][1].snap = tree.snap[p] /\ tree.snap[p] < tree.snap[f]
          /\ out[p][1].id \in out[p][1].holds
          /\ \A z \in out[p][1].holds : tree.fof[z] \in evolved /\ z # f
      BY <3>1, GatheredFacts
    <3> QED
      BY <3>1, <3>2
  <2>2. CASE from[x] = f
    BY <1>2, <1>4, <2>2
  <2> QED
    BY <2>1, <2>2
<1>6. ASSUME NEW x \in 1 .. Len(w), NEW q \in Halos, out[q] # <<>>,
             ~Before(tree, q, f) \/ (Feeds(tree, q, f) /\ q # from[x])
      PROVE  w[x].holds \cap out[q][1].holds = {}
  <2>1. CASE from[x] # f
    <3> DEFINE p == from[x]
    <3>1. /\ p \in Halos /\ Feeds(tree, p, f) /\ out[p] # <<>>
          /\ w[x].holds = out[p][1].holds
          /\ ~Before(tree, q, f) \/ (Feeds(tree, q, f) /\ q # p)
      BY <1>3, <1>6, <2>1
    <3> HIDE DEF p
    <3>2. out[p][1].holds \cap out[q][1].holds = {}
      BY <1>6, <3>1, GatheredFacts
    <3> QED
      BY <3>1, <3>2
  <2>2. CASE from[x] = f
    <3>1. \A z \in out[q][1].holds : tree.fof[z] \in evolved
      BY <1>6 DEF GatherReady, OutIsTrue
    <3> QED
      BY <1>2, <1>4, <2>2, <3>1
  <2> QED
    BY <2>1, <2>2
<1>7. ASSUME NEW x \in 1 .. Len(w), NEW y \in 1 .. Len(w), x # y
      PROVE  w[x].holds \cap w[y].holds = {}
  <2>1. from[x] # from[y]
    BY <1>7 DEF Origins
  <2>2. CASE from[y] # f
    <3>1. /\ from[y] \in Halos /\ Feeds(tree, from[y], f) /\ out[from[y]] # <<>>
          /\ w[y].holds = out[from[y]][1].holds
      BY <1>3, <2>2
    <3>2. w[x].holds \cap out[from[y]][1].holds = {}
      BY <1>6, <2>1, <3>1
    <3> QED
      BY <3>1, <3>2
  <2>3. CASE from[x] # f
    <3>1. /\ from[x] \in Halos /\ Feeds(tree, from[x], f) /\ out[from[x]] # <<>>
          /\ w[x].holds = out[from[x]][1].holds
      BY <1>3, <2>3
    <3>2. w[y].holds \cap out[from[x]][1].holds = {}
      BY <1>6, <2>1, <3>1
    <3> QED
      BY <3>1, <3>2
  <2> QED
    BY <2>1, <2>2, <2>3
<1>8. ASSUME NEW x \in 1 .. Len(w)
      PROVE  \/ \E p \in Progenitors(tree, w[x].halo) :
                   /\ \E j \in DOMAIN out[p] : out[p][j].id = w[x].id
                   /\ w[x].snap = tree.snap[p]
             \/ w[x].id = w[x].halo /\ w[x].snap = tree.snap[w[x].halo] - 1
  <2>1. CASE from[x] # f
    <3> DEFINE p == from[x]
    <3>1. /\ p \in Halos /\ p \in Progenitors(tree, w[x].halo) /\ out[p] # <<>>
          /\ Feeds(tree, p, f)
          /\ w[x].id = out[p][1].id /\ w[x].snap = out[p][1].snap
      BY <1>3, <2>1
    <3> HIDE DEF p
    <3>2. out[p][1].snap = tree.snap[p]
      BY <3>1, GatheredFacts
    <3>3. 1 \in DOMAIN out[p]
      BY <3>1, OutFacts DEF GatherReady
    <3> QED
      BY <3>1, <3>2, <3>3
  <2>2. CASE from[x] = f
    BY <1>4, <2>2
  <2> QED
    BY <2>1, <2>2
<1> QED
  BY <1>1, <1>5, <1>6, <1>7, <1>8 DEF GatheredMass

-----------------------------------------------------------------------------
(* The invariant is kept.                                                    *)

\* A unit starts with nothing written.
LEMMA FlowInvInit == Init => FlowInv
<1> SUFFICES ASSUME Init PROVE FlowInv
  OBVIOUS
<1>1. /\ tree \in Trees /\ evolved = {} /\ pc = "idle" /\ group = 0 /\ ws = <<>>
      /\ i = 1 /\ step = 0 /\ status = "running"
      /\ out = [h \in Halos |-> <<>>]
  BY DEF Init
<1>2. \A h \in Halos : out[h] = <<>>
  BY <1>1
<1>3. Len(ws) = 0 /\ DOMAIN ws = {} /\ ws \in Seq(Galaxy)
  BY <1>1
<1>4. out \in [Halos -> Seq({g \in Galaxy : g.type # 3})] /\ out \in [Halos -> Seq(Galaxy)]
  BY <1>1
<1>5. NumSubsteps \in Nat \ {0}
  BY SubstepsAssumption
<1>6. TypeOK
  BY <1>1, <1>3, <1>4, <1>5, TreeFacts DEF TypeOK
<1>7. OutIsReady /\ OutIsTrue /\ OutIsApart
  BY <1>1, <1>2, <1>4 DEF OutIsReady, OutIsTrue, OutIsApart
<1>8. GroupIsDue
  BY <1>1 DEF GroupIsDue, ClosedBackward
<1>9. Live = {}
  BY <1>3 DEF Live
<1>10. Linkage(ws, group) /\ ObjectsAreTrue /\ MassIsApart /\ StillAtProgenitor
  BY <1>3, <1>9 DEF Linkage, ObjectsAreTrue, MassIsApart, StillAtProgenitor
<1>11. ClocksAreSet /\ OrphansAreGone
  BY <1>1 DEF ClocksAreSet, OrphansAreGone
<1> QED
  BY <1>6, <1>7, <1>8, <1>10, <1>11 DEF FlowInv

\* What is written does not change while a group is in the workspace.
LEMMA OutStays ==
    ASSUME FlowInv, UNCHANGED <<tree, evolved, out>>
    PROVE  /\ OutIsReady' /\ OutIsTrue' /\ OutIsApart'
           /\ tree' \in Trees /\ ClosedBackward(tree', evolved')
<1>1. /\ OutIsReady /\ OutIsTrue /\ OutIsApart
      /\ tree \in Trees /\ ClosedBackward(tree, evolved)
  BY DEF FlowInv, GroupIsDue
<1>2. OutIsReady'
  BY <1>1 DEF OutIsReady
<1>3. OutIsTrue'
  BY <1>1 DEF OutIsTrue
<1>4. OutIsApart'
  BY <1>1 DEF OutIsApart
<1> QED
  BY <1>1, <1>2, <1>3, <1>4

\* The gather step, with the errors of build_halo_tree() ruled out.
LEMMA GatherInv ==
    ASSUME FlowInv, NEW f \in Fofs(tree), Gather(f)
    PROVE  FlowInv'
<1>1. /\ status = "running" /\ pc = "idle" /\ f \notin evolved /\ Needs(tree, f) \subseteq evolved
      /\ UNCHANGED <<tree, evolved, out>>
  BY DEF Gather
<1>2. GatherReady(f) /\ OutIsReady
  BY <1>1 DEF FlowInv, GroupIsDue, GatherReady
<1> DEFINE w == Workspace(f)
<1>3. PICK hm, jx : Assembled(w, f, hm, jx)
  BY <1>2, WorkspaceFacts
<1>4. ASSUME NEW h \in MembersOf(tree, f)
      PROVE  ~BadSlice(h)
  <2>1. h \in Halos
    BY <1>2, GroupFacts DEF OutIsReady
  <2> DEFINE s == Slice(h)
  <2>2. GoodSlice(s, h)
    BY <1>2, <2>1, SlicesAreGood
  <2>3. BadSlice(h) <=> s # <<>> /\ Cardinality(LocalCentrals(s)) # 1
    BY DEF BadSlice
  <2> HIDE DEF s
  <2>4. CASE s # <<>>
    <3>1. PICK c \in 1 .. Len(s) : LocalCentrals(s) = {c}
      BY <2>2, <2>4 DEF GoodSlice
    <3>2. Cardinality(LocalCentrals(s)) = 1
      BY <3>1, FS_Singleton
    <3> QED
      BY <2>3, <3>2
  <2> QED
    BY <2>3, <2>4
<1> HIDE DEF w
<1>5. w \in Seq(Galaxy) /\ Len(w) \in Nat /\ DOMAIN w = 1 .. Len(w)
  BY <1>3, LenProperties DEF Assembled
<1>6. /\ Linkage(w, f) /\ (\E k \in DOMAIN w : w[k].type = 0)
      /\ \A k \in DOMAIN w : w[k].type # 3
  BY <1>2, <1>3, WorkspaceIsLinked
<1>7. ~BadWorkspace(f, w)
  <2>1. FofCentral(w) \in DOMAIN w /\ w[FofCentral(w)].type = 0
    BY <1>5, <1>6, FofCentralFacts
  <2>2. w[FofCentral(w)].halo = f
    BY <1>6, <2>1 DEF Linkage
  <2>3. FofCentral(w) # 0
    BY <1>5, <2>1
  <2> QED
    BY <2>2, <2>3 DEF BadWorkspace
<1>8. ws' = w /\ group' = f /\ pc' = "clock" /\ i' = 1 /\ step' = 0 /\ status' = status
  <2>1. ~((\E h \in MembersOf(tree, f) : BadSlice(h)) \/ BadWorkspace(f, Workspace(f)))
    BY <1>4, <1>7 DEF w
  <2> QED
    BY <2>1 DEF Gather, w
<1>9. PICK from : Origins(w, f, from)
  BY <1>2, <1>3, OriginsFound
<1>10. GatheredMass(w, f)
  BY <1>2, <1>5, <1>9, WorkspaceMass
<1>11. /\ OutIsReady' /\ OutIsTrue' /\ OutIsApart'
       /\ tree' \in Trees /\ ClosedBackward(tree', evolved')
  BY <1>1, OutStays
<1>12. TypeOK'
  <2>1. /\ tree \in Tree /\ evolved \subseteq Halos
        /\ out \in [Halos -> Seq({g \in Galaxy : g.type # 3})]
    BY DEF FlowInv, TypeOK
  <2>2. f \in Nat
    BY <1>2, GroupFacts, NumHalosAssumption DEF OutIsReady, Halos
  <2>3. 1 \in 1 .. Len(w) + 1 /\ 0 \in 0 .. NumSubsteps - 1
    BY <1>5, SubstepsAssumption
  <2>4. status' = "running"
    BY <1>1, <1>8
  <2> QED
    BY <1>1, <1>5, <1>8, <2>1, <2>2, <2>3, <2>4 DEF TypeOK
<1>13. GroupIsDue'
  <2>1. status = "running" /\ f \in Fofs(tree) \ evolved /\ Needs(tree, f) \subseteq evolved
    BY <1>1
  <2> QED
    BY <1>1, <1>6, <1>8, <1>11, <2>1 DEF GroupIsDue
<1>14. Linkage(ws, group)'
  BY <1>1, <1>6, <1>8 DEF Linkage
<1>15. ObjectsAreTrue'
  BY <1>1, <1>8, <1>10 DEF ObjectsAreTrue, GatheredMass
<1>16. MassIsApart'
  <2>1. Live' = {k \in DOMAIN w : w[k].type # 3}
    BY <1>8 DEF Live
  <2>2. Live' \subseteq DOMAIN w
    BY <2>1
  <2> HIDE DEF Live
  <2> QED
    BY <1>1, <1>8, <1>10, <2>2 DEF MassIsApart, GatheredMass
<1>17. StillAtProgenitor'
  <2> SUFFICES ASSUME NEW k \in DOMAIN w
               PROVE  LET earlier == {p \in Progenitors(tree, w[k].halo) :
                                        \E j \in DOMAIN out[p] : out[p][j].id = w[k].id}
                      IN  \/ \E p \in earlier : w[k].snap = tree.snap[p]
                          \/ w[k].id = w[k].halo /\ w[k].snap = tree.snap[w[k].halo] - 1
    BY <1>1, <1>8 DEF StillAtProgenitor
  <2> QED
    BY <1>10 DEF GatheredMass
<1>18. ClocksAreSet' /\ OrphansAreGone'
  BY <1>8 DEF ClocksAreSet, OrphansAreGone
<1> QED
  BY <1>11, <1>12, <1>13, <1>14, <1>15, <1>16, <1>17, <1>18 DEF FlowInv

-----------------------------------------------------------------------------
(* The steps on the workspace.                                               *)

\* Object g after a step: it may have been consumed, and nothing else about
\* where it is and what it is has changed.
Stays(g, was) ==
    /\ g.id = was.id /\ g.halo = was.halo /\ g.central = was.central /\ g.snap = was.snap
    /\ g.type = was.type \/ (was.type \in {1, 2} /\ g.type = 3)

\* w2 is the workspace after such a step on w.
SameObjects(w2, w) == /\ w2 \in Seq(Galaxy) /\ Len(w2) = Len(w)
                      /\ \A k \in DOMAIN w : Stays(w2[k], w[k])

\* The facts that a step on the workspace leaves alone.
LEMMA FrameKept ==
    ASSUME FlowInv, pc # "idle", UNCHANGED <<tree, evolved, out, group, status>>,
           SameObjects(ws', ws)
    PROVE  /\ OutIsReady' /\ OutIsTrue' /\ OutIsApart'
           /\ DOMAIN ws' = DOMAIN ws /\ (GroupIsDue' \/ pc' = "idle")
           /\ Linkage(ws, group)' /\ StillAtProgenitor'
<1>1. /\ OutIsReady' /\ OutIsTrue' /\ OutIsApart'
      /\ tree' \in Trees /\ ClosedBackward(tree', evolved')
  BY OutStays
<1>2. /\ ws \in Seq(Galaxy) /\ ws' \in Seq(Galaxy) /\ Len(ws') = Len(ws)
      /\ \A k \in DOMAIN ws : Stays(ws'[k], ws[k])
  BY DEF FlowInv, TypeOK, SameObjects
<1>3. DOMAIN ws' = DOMAIN ws
  BY <1>2, LenProperties
<1>4. \A k \in DOMAIN ws :
         /\ ws'[k].id = ws[k].id /\ ws'[k].halo = ws[k].halo
         /\ ws'[k].central = ws[k].central /\ ws'[k].snap = ws[k].snap
         /\ ws'[k].type = ws[k].type \/ (ws[k].type \in {1, 2} /\ ws'[k].type = 3)
  BY <1>2 DEF Stays
<1>5. Linkage(ws, group)'
  <2>1. Linkage(ws, group)
    BY DEF FlowInv
  <2>2. ASSUME NEW k \in DOMAIN ws
        PROVE  /\ ws'[k].halo \in MembersOf(tree, group)
               /\ ws'[k].central \in DOMAIN ws
               /\ ws'[ws'[k].central].halo = ws'[k].halo
               /\ ws'[k].type \in {0, 1} => ws'[k].central = k
               /\ ws'[k].type = 2 => ws'[k].central # k
               /\ ws'[k].type = 0 => ws'[k].halo = group
    <3>1. /\ ws[k].halo \in MembersOf(tree, group)
          /\ ws[k].central \in DOMAIN ws
          /\ ws[ws[k].central].halo = ws[k].halo
          /\ ws[k].type \in {0, 1} => ws[k].central = k
          /\ ws[k].type = 2 => ws[k].central # k
          /\ ws[k].type = 0 => ws[k].halo = group
      BY <2>1 DEF Linkage
    <3>2. ws'[ws[k].central].halo = ws[ws[k].central].halo
      BY <1>4, <3>1
    <3> QED
      BY <1>4, <3>1, <3>2
  <2>3. \A j, k \in DOMAIN ws : ws'[j].halo = ws'[k].halo => ws'[j].central = ws'[k].central
    BY <1>4, <2>1 DEF Linkage
  <2>4. tree' = tree /\ group' = group
    OBVIOUS
  <2> QED
    BY <1>3, <2>2, <2>3, <2>4 DEF Linkage
<1>6. StillAtProgenitor'
  <2>1. StillAtProgenitor
    BY DEF FlowInv
  <2> QED
    BY <1>3, <1>4, <2>1 DEF StillAtProgenitor
<1>7. GroupIsDue' \/ pc' = "idle"
  <2>1. PICK k \in DOMAIN ws : ws[k].type = 0
    BY DEF FlowInv, GroupIsDue
  <2>2. ws'[k].type = 0
    BY <1>4, <2>1
  <2> QED
    BY <1>1, <1>3, <2>1, <2>2 DEF FlowInv, GroupIsDue
<1> QED
  BY <1>1, <1>3, <1>5, <1>6, <1>7

\* The clocks are set.
LEMMA ClockInv ==
    ASSUME FlowInv, InitialiseMergerClock
    PROVE  FlowInv'
<1>1. pc = "clock" /\ pc' = "resolve" /\ UNCHANGED <<tree, evolved, out, group, i, step, status>>
  BY DEF InitialiseMergerClock
<1>2. PICK now : ws' = [k \in DOMAIN ws |-> [ws[k] EXCEPT !.clock = SetClock(k, now)]]
  BY DEF InitialiseMergerClock
<1>3. TypeOK /\ ws \in Seq(Galaxy) /\ Len(ws) \in Nat /\ DOMAIN ws = 1 .. Len(ws)
      /\ \A k \in DOMAIN ws : ws[k] \in Galaxy
  BY LenProperties, ElementOfSeq DEF FlowInv, TypeOK
<1>4. ASSUME NEW k \in DOMAIN ws
      PROVE  /\ ws'[k] \in Galaxy
             /\ ws'[k].id = ws[k].id /\ ws'[k].halo = ws[k].halo /\ ws'[k].type = ws[k].type
             /\ ws'[k].central = ws[k].central /\ ws'[k].snap = ws[k].snap
             /\ ws'[k].holds = ws[k].holds
             /\ ws[k].type # 3 => (ws'[k].clock = "unset" <=> ws[k].type = 0)
  <2> DEFINE g == ws[k]
             c == SetClock(k, now)
             r == [g EXCEPT !.clock = c]
  <2>1. g \in Galaxy /\ g.type \in 0 .. 3 /\ g.clock \in {"unset", "pos", "zero"}
    BY <1>3 DEF Galaxy
  <2>2. c \in {"unset", "pos", "zero"} /\ (g.type # 3 => (c = "unset" <=> g.type = 0))
    <3>1. c = CASE g.type = 0                       -> "unset"
                [] g.type = 2 /\ g.clock = "unset"  -> "zero"
                [] g.type = 1 /\ g.clock = "unset"  -> IF k \in now THEN "zero" ELSE "pos"
                [] OTHER                            -> g.clock
      BY DEF SetClock
    <3> HIDE DEF c, g
    <3>2. CASE g.type = 0
      BY <3>1, <3>2
    <3>3. CASE g.type = 2 /\ g.clock = "unset"
      BY <3>1, <3>3
    <3>4. CASE g.type = 1 /\ g.clock = "unset"
      BY <3>1, <3>4
    <3>5. CASE g.type # 0 /\ ~(g.type = 2 /\ g.clock = "unset")
               /\ ~(g.type = 1 /\ g.clock = "unset")
      <4>1. c = g.clock
        BY <3>1, <3>5
      <4> QED
        BY <2>1, <3>5, <4>1
    <3> QED
      BY <3>2, <3>3, <3>4, <3>5
  <2>3. ws'[k] = r
    BY <1>2
  <2> HIDE DEF c, g
  <2>4. /\ r.id = g.id /\ r.halo = g.halo /\ r.type = g.type /\ r.central = g.central
        /\ r.snap = g.snap /\ r.holds = g.holds /\ r.clock = c
    BY <2>1 DEF Galaxy
  <2>5. r \in Galaxy
    BY <2>1, <2>2 DEF Galaxy
  <2> HIDE DEF r
  <2> QED
    BY <2>2, <2>3, <2>4, <2>5 DEF g
<1>5. ws' \in Seq(Galaxy) /\ Len(ws') = Len(ws) /\ DOMAIN ws' = DOMAIN ws
  <2>1. ws' = [k \in 1 .. Len(ws) |-> ws'[k]]
    BY <1>2, <1>3
  <2>2. ws' \in [1 .. Len(ws) -> Galaxy]
    BY <1>3, <1>4, <2>1
  <2> QED
    BY <1>3, <2>2
<1>6. SameObjects(ws', ws)
  BY <1>4, <1>5 DEF SameObjects, Stays
<1>7. /\ OutIsReady' /\ OutIsTrue' /\ OutIsApart' /\ GroupIsDue'
      /\ Linkage(ws, group)' /\ StillAtProgenitor'
  BY <1>1, <1>6, FrameKept
<1>8. TypeOK'
  BY <1>1, <1>3, <1>5 DEF TypeOK
<1>9. ObjectsAreTrue'
  BY <1>1, <1>4, <1>5 DEF FlowInv, ObjectsAreTrue
<1>10. Live' = Live
  BY <1>4, <1>5 DEF Live
<1>11. MassIsApart'
  <2>1. MassIsApart /\ Live \subseteq DOMAIN ws
    BY DEF FlowInv, Live
  <2> QED
    BY <1>1, <1>4, <1>5, <1>10, <2>1 DEF MassIsApart
<1>12. ClocksAreSet'
  BY <1>4, <1>10 DEF ClocksAreSet, Live
<1>13. OrphansAreGone'
  <2>1. i = 1 /\ DOMAIN ws \subseteq Nat
    BY <1>1, <1>3 DEF FlowInv, OrphansAreGone
  <2> QED
    BY <1>1, <1>5, <2>1 DEF OrphansAreGone
<1> QED
  BY <1>7, <1>8, <1>9, <1>11, <1>12, <1>13 DEF FlowInv

\* An object that is not a satellite is passed over.
LEMMA SkipInv ==
    ASSUME FlowInv, NEW k \in DOMAIN ws, SkipObject(k)
    PROVE  FlowInv'
<1>1. /\ pc = "resolve" /\ i = k /\ ws[k].type \notin {1, 2} /\ i' = i + 1
      /\ UNCHANGED <<tree, evolved, out, pc, group, ws, step, status>>
  BY DEF SkipObject, Resolving, IsSatellite, Advance
<1>2. Len(ws) \in Nat /\ DOMAIN ws = 1 .. Len(ws) /\ ws \in Seq(Galaxy)
  BY LenProperties DEF FlowInv, TypeOK
<1>3. TypeOK'
  BY <1>1, <1>2 DEF FlowInv, TypeOK
<1>4. SameObjects(ws', ws)
  BY <1>1, <1>2 DEF SameObjects, Stays
<1>5. /\ OutIsReady' /\ OutIsTrue' /\ OutIsApart' /\ GroupIsDue'
      /\ Linkage(ws, group)' /\ StillAtProgenitor'
  BY <1>1, <1>4, FrameKept
<1>6. ObjectsAreTrue' /\ MassIsApart' /\ ClocksAreSet'
  BY <1>1 DEF FlowInv, ObjectsAreTrue, MassIsApart, ClocksAreSet, Live
<1>7. OrphansAreGone'
  BY <1>1, <1>2 DEF FlowInv, OrphansAreGone
<1> QED
  BY <1>3, <1>5, <1>6, <1>7 DEF FlowInv

\* The clock ticks, and nothing else happens to the satellite.
LEMMA SurviveInv ==
    ASSUME FlowInv, NEW k \in DOMAIN ws, Survive(k)
    PROVE  FlowInv'
<1>1. /\ pc = "resolve" /\ i = k /\ ws[k].type \in {1, 2} /\ ~MustGo(k) /\ i' = i + 1
      /\ UNCHANGED <<tree, evolved, out, pc, group, step, status>>
  BY DEF Survive, Resolving, IsSatellite, Advance
<1>2. PICK c \in TicksTo(ws[k].clock) : ws' = [ws EXCEPT ![k].clock = c]
  BY DEF Survive
<1>3. TypeOK /\ ws \in Seq(Galaxy) /\ Len(ws) \in Nat /\ DOMAIN ws = 1 .. Len(ws)
      /\ \A x \in DOMAIN ws : ws[x] \in Galaxy
  BY LenProperties, ElementOfSeq DEF FlowInv, TypeOK
<1>4. k \in Live /\ ws[k].clock # "unset" /\ ws[k].clock \in {"unset", "pos", "zero"}
  <2>1. k \in Live
    BY <1>1 DEF Live
  <2>2. ws[k].clock = "unset" <=> ws[k].type = 0
    BY <1>1, <2>1 DEF FlowInv, ClocksAreSet
  <2>3. ws[k].clock \in {"unset", "pos", "zero"}
    BY <1>3 DEF Galaxy
  <2> QED
    BY <1>1, <2>1, <2>2, <2>3
<1>5. c \in {"pos", "zero"}
  BY <1>4 DEF TicksTo
<1>6. ASSUME NEW x \in DOMAIN ws
      PROVE  /\ ws'[x] \in Galaxy
             /\ ws'[x].id = ws[x].id /\ ws'[x].halo = ws[x].halo /\ ws'[x].type = ws[x].type
             /\ ws'[x].central = ws[x].central /\ ws'[x].snap = ws[x].snap
             /\ ws'[x].holds = ws[x].holds
             /\ x # k => ws'[x] = ws[x]
             /\ x = k => ws'[x].clock = c
  <2>1. CASE x # k
    BY <1>2, <1>3, <2>1
  <2>2. CASE x = k
    <3> DEFINE g == ws[k]
               r == [g EXCEPT !.clock = c]
    <3>1. ws'[x] = r
      BY <1>2, <1>3, <2>2
    <3>2. g \in Galaxy
      BY <1>3
    <3> HIDE DEF g
    <3>3. /\ r.id = g.id /\ r.halo = g.halo /\ r.type = g.type /\ r.central = g.central
          /\ r.snap = g.snap /\ r.holds = g.holds /\ r.clock = c
      BY <3>2 DEF Galaxy
    <3>4. r \in Galaxy
      BY <1>5, <3>2 DEF Galaxy
    <3> HIDE DEF r
    <3> QED
      BY <2>2, <3>1, <3>3, <3>4 DEF g
  <2> QED
    BY <2>1, <2>2
<1>7. ws' \in Seq(Galaxy) /\ Len(ws') = Len(ws) /\ DOMAIN ws' = DOMAIN ws
  <2>1. ws' = [x \in 1 .. Len(ws) |-> ws'[x]]
    BY <1>2, <1>3
  <2>2. ws' \in [1 .. Len(ws) -> Galaxy]
    BY <1>3, <1>6, <2>1
  <2> QED
    BY <1>3, <2>2
<1>8. SameObjects(ws', ws)
  BY <1>6, <1>7 DEF SameObjects, Stays
<1>9. /\ OutIsReady' /\ OutIsTrue' /\ OutIsApart' /\ GroupIsDue'
      /\ Linkage(ws, group)' /\ StillAtProgenitor'
  BY <1>1, <1>8, FrameKept
<1>10. TypeOK'
  BY <1>1, <1>3, <1>7 DEF TypeOK
<1>11. ObjectsAreTrue'
  BY <1>1, <1>6, <1>7 DEF FlowInv, ObjectsAreTrue
<1>12. Live' = Live /\ Live \subseteq DOMAIN ws
  BY <1>6, <1>7 DEF Live
<1>13. MassIsApart'
  <2>1. MassIsApart
    BY DEF FlowInv
  <2> QED
    BY <1>1, <1>6, <1>7, <1>12, <2>1 DEF MassIsApart
<1>14. ClocksAreSet'
  <2>1. ASSUME NEW x \in Live PROVE ws'[x].clock = "unset" <=> ws'[x].type = 0
    <3>1. x \in DOMAIN ws /\ (ws[x].clock = "unset" <=> ws[x].type = 0)
      BY <1>1, <1>12 DEF FlowInv, ClocksAreSet
    <3> QED
      BY <1>1, <1>5, <1>6, <3>1
  <2> QED
    BY <1>12, <2>1 DEF ClocksAreSet
<1>15. OrphansAreGone'
  <2>1. step + 1 = NumSubsteps => \A x \in DOMAIN ws : x < i + 1 => ws'[x].type # 2
    <3> SUFFICES ASSUME step + 1 = NumSubsteps, NEW x \in DOMAIN ws, x < i + 1
                 PROVE  ws[x].type # 2
      BY <1>6
    <3>1. CASE x = k
      BY <3>1 , <1>1 DEF MustGo
    <3>2. CASE x # k
      <4>1. x < i
        BY <1>1, <1>3, <3>2
      <4> QED
        BY <1>1, <4>1 DEF FlowInv, OrphansAreGone
    <3> QED
      BY <3>1, <3>2
  <2> QED
    BY <1>1, <1>7, <2>1 DEF OrphansAreGone
<1> QED
  BY <1>9, <1>10, <1>11, <1>13, <1>14, <1>15 DEF FlowInv

\* The end of a pass: after the last one no orphan is left.
LEMMA EndPassInv ==
    ASSUME FlowInv, EndPass
    PROVE  FlowInv'
<1>1. /\ pc = "resolve" /\ i > Len(ws)
      /\ UNCHANGED <<tree, evolved, out, group, ws, status>>
      /\ \/ step + 1 < NumSubsteps /\ step' = step + 1 /\ i' = 1 /\ pc' = pc
         \/ ~(step + 1 < NumSubsteps) /\ pc' = "marshal" /\ step' = step /\ i' = i
  BY DEF EndPass
<1>2. /\ Len(ws) \in Nat /\ DOMAIN ws = 1 .. Len(ws) /\ ws \in Seq(Galaxy)
      /\ step \in 0 .. NumSubsteps - 1 /\ NumSubsteps \in Nat /\ TypeOK
  BY LenProperties, SubstepsAssumption DEF FlowInv, TypeOK
<1>3. TypeOK'
  <2>1. i' \in 1 .. Len(ws) + 1 /\ step' \in 0 .. NumSubsteps - 1
        /\ pc' \in {"resolve", "marshal"}
    BY <1>1, <1>2 DEF TypeOK
  <2> QED
    BY <1>1, <1>2, <2>1 DEF TypeOK
<1>4. SameObjects(ws', ws)
  BY <1>1, <1>2 DEF SameObjects, Stays
<1>5. pc' # "idle" /\ pc' # "clock"
  BY <1>1
<1>6. /\ OutIsReady' /\ OutIsTrue' /\ OutIsApart' /\ GroupIsDue'
      /\ Linkage(ws, group)' /\ StillAtProgenitor'
  BY <1>1, <1>4, <1>5, FrameKept
<1>7. ObjectsAreTrue' /\ MassIsApart' /\ ClocksAreSet'
  BY <1>1 DEF FlowInv, ObjectsAreTrue, MassIsApart, ClocksAreSet, Live
<1>8. OrphansAreGone'
  <2>1. CASE step + 1 < NumSubsteps
    <3>1. i' = 1 /\ pc' = "resolve" /\ ws' = ws
      BY <1>1, <2>1
    <3>2. \A x \in DOMAIN ws : ~(x < 1)
      BY <1>2
    <3> QED
      BY <3>1, <3>2 DEF OrphansAreGone
  <2>2. CASE ~(step + 1 < NumSubsteps)
    <3>1. step + 1 = NumSubsteps /\ pc' = "marshal" /\ ws' = ws
      BY <1>1, <1>2, <2>2
    <3>2. \A x \in DOMAIN ws : x < i
      BY <1>1, <1>2 DEF TypeOK
    <3>3. \A x \in DOMAIN ws : ws[x].type # 2
      BY <1>1, <3>1, <3>2 DEF FlowInv, OrphansAreGone
    <3> QED
      BY <3>1, <3>3 DEF OrphansAreGone
  <2> QED
    BY <2>1, <2>2
<1> QED
  BY <1>3, <1>6, <1>7, <1>8 DEF FlowInv

\* The resolver finds a target, and not the satellite itself; a dead one only
\* for an orphan whose central is dead.
LEMMA TargetFacts ==
    ASSUME FlowInv, pc = "resolve", NEW k \in DOMAIN ws, IsSatellite(k)
    PROVE  /\ Target(k) \in DOMAIN ws /\ Target(k) # k
           /\ Target(k) \in Live \/ (ws[k].type = 2 /\ ws[ws[k].central].type = 3)
<1>1. Linkage(ws, group) /\ ws \in Seq(Galaxy) /\ \E x \in DOMAIN ws : ws[x].type = 0
  BY DEF FlowInv, TypeOK, GroupIsDue
<1>2. FofCentral(ws) \in DOMAIN ws /\ ws[FofCentral(ws)].type = 0
  BY <1>1, FofCentralFacts
<1>3. CASE ws[k].type = 1
  <2>1. FirstTarget(k) = FofCentral(ws)
    BY <1>3 DEF FirstTarget
  <2>2. Target(k) = FofCentral(ws)
    BY <1>2, <2>1 DEF Target
  <2> QED
    BY <1>2, <1>3, <2>2 DEF Live
<1>4. CASE ws[k].type = 2
  <2> DEFINE c == ws[k].central
  <2>1. c \in DOMAIN ws /\ c # k /\ ws[c].halo = ws[k].halo /\ ws[c].central = c
    <3>1. c \in DOMAIN ws /\ c # k /\ ws[c].halo = ws[k].halo
      BY <1>1, <1>4 DEF Linkage
    <3>2. ws[c].central = c
      BY <1>1, <3>1 DEF Linkage
    <3> QED
      BY <3>1, <3>2
  <2>2. FirstTarget(k) = c
    BY <1>4, <2>1 DEF FirstTarget
  <2>3. Target(k) = c
    BY <2>1, <2>2 DEF Target
  <2> QED
    BY <1>4, <2>1, <2>3 DEF Live
<1> QED
  BY <1>3, <1>4 DEF IsSatellite

\* What a merger or disruption does to the workspace.
Handover(k, t, c) ==
    /\ ws' = [ws EXCEPT ![t].holds = @ \cup ws[k].holds, ![k].clock = c, ![k].type = 3]
    /\ c \in {"pos", "zero"}

\* A satellite is never refused.
LEMMA ConsumeSteps ==
    ASSUME FlowInv, NEW k \in DOMAIN ws, Consume(k)
    PROVE  /\ pc = "resolve" /\ i = k /\ i' = i + 1 /\ ws[k].type \in {1, 2}
           /\ UNCHANGED <<tree, evolved, out, pc, group, step, status>>
           /\ \E c : Handover(k, Target(k), c)
<1>1. pc = "resolve" /\ i = k /\ ws[k].type \in {1, 2} /\ IsSatellite(k)
  <2>1. Resolving(k) /\ IsSatellite(k)
    BY Zenon DEF Consume
  <2> QED
    BY <2>1 DEF Resolving, IsSatellite
<1>2. /\ ws[k].snap < tree.snap[group] /\ ws[k].snap \in Int
      /\ ws[k].clock \in {"unset", "pos", "zero"}
  <2>1. ws \in Seq(Galaxy) /\ ObjectsAreTrue
    BY DEF FlowInv, TypeOK
  <2>2. ws[k] \in Galaxy
    BY <2>1, ElementOfSeq
  <2> QED
    BY <2>1, <2>2 DEF ObjectsAreTrue, Galaxy
<1>3. ws[k].clock # "unset" /\ ws[k].clock \in {"unset", "pos", "zero"}
  <2>1. k \in Live
    BY <1>1 DEF Live
  <2>2. ws[k].clock = "unset" <=> ws[k].type = 0
    BY <1>1, <2>1 DEF FlowInv, ClocksAreSet
  <2> QED
    BY <1>1, <1>2, <2>2
<1>4. tree.snap[group] \in Int
  <2>1. tree \in Trees /\ group \in Fofs(tree)
    BY <1>1 DEF FlowInv, GroupIsDue
  <2> QED
    BY <2>1, GroupFacts, TreeFacts
<1>5. ~BadSatellite(k)
  BY <1>2, <1>3, <1>4 DEF BadSatellite
<1>6. Target(k) # k
  BY <1>1, TargetFacts
<1>7. /\ \E c \in TicksTo(ws[k].clock) :
            ws' = [ws EXCEPT ![Target(k)].holds = @ \cup ws[k].holds,
                             ![k].clock = c, ![k].type = 3]
      /\ i' = i + 1 /\ UNCHANGED <<tree, evolved, out, pc, group, step, status>>
  BY <1>5, <1>6, Zenon DEF Consume, Advance
<1>8. PICK c \in TicksTo(ws[k].clock) :
         ws' = [ws EXCEPT ![Target(k)].holds = @ \cup ws[k].holds,
                          ![k].clock = c, ![k].type = 3]
  BY <1>7, Zenon
<1>9. c \in {"pos", "zero"}
  BY <1>2, <1>3 DEF TicksTo
<1>10. Handover(k, Target(k), c)
  BY <1>8, <1>9 DEF Handover
<1> QED
  BY <1>1, <1>7, <1>10

\* The satellite is Type 3, the target has its mass, all else is as it was.
LEMMA HandoverFacts ==
    ASSUME ws \in Seq(Galaxy), NEW k \in DOMAIN ws, NEW t \in DOMAIN ws, t # k,
           NEW c, Handover(k, t, c)
    PROVE  /\ ws' \in Seq(Galaxy) /\ Len(ws') = Len(ws) /\ DOMAIN ws' = DOMAIN ws
           /\ \A x \in DOMAIN ws :
                 /\ ws'[x].id = ws[x].id /\ ws'[x].halo = ws[x].halo
                 /\ ws'[x].central = ws[x].central /\ ws'[x].snap = ws[x].snap
                 /\ x # k => ws'[x].type = ws[x].type /\ ws'[x].clock = ws[x].clock
                 /\ x # t => ws'[x].holds = ws[x].holds
           /\ ws'[k].type = 3
           /\ ws'[t].holds = ws[t].holds \cup ws[k].holds
<1>1. Len(ws) \in Nat /\ DOMAIN ws = 1 .. Len(ws) /\ \A x \in DOMAIN ws : ws[x] \in Galaxy
  BY LenProperties, ElementOfSeq
<1> DEFINE gt == [ws[t] EXCEPT !.holds = @ \cup ws[k].holds]
           gk == [ws[k] EXCEPT !.clock = c, !.type = 3]
           r == [ws EXCEPT ![t] = gt, ![k] = gk]
<1>2. ws' = r
  BY <1>1 DEF Handover
<1>3. r[k] = gk /\ r[t] = gt /\ \A x \in DOMAIN ws : x # k /\ x # t => r[x] = ws[x]
  BY <1>1
<1>4. DOMAIN r = DOMAIN ws /\ r = [x \in DOMAIN ws |-> r[x]]
  BY <1>1
<1> HIDE DEF r
<1>5. /\ gt \in Galaxy /\ gt.id = ws[t].id /\ gt.halo = ws[t].halo /\ gt.central = ws[t].central
      /\ gt.snap = ws[t].snap /\ gt.type = ws[t].type /\ gt.clock = ws[t].clock
      /\ gt.holds = ws[t].holds \cup ws[k].holds
  <2> DEFINE g == ws[t]
             m == ws[t].holds \cup ws[k].holds
             v == [g EXCEPT !.holds = m]
  <2>1. gt = v
    OBVIOUS
  <2>2. ws[t] \in Galaxy /\ ws[k] \in Galaxy
    BY <1>1
  <2>3. g \in Galaxy /\ m \in SUBSET Halos
    BY <2>2 DEF Galaxy
  <2> HIDE DEF m, g, gt
  <2>4. /\ v.id = g.id /\ v.halo = g.halo /\ v.central = g.central
        /\ v.snap = g.snap /\ v.type = g.type /\ v.clock = g.clock /\ v.holds = m
    BY <2>3 DEF Galaxy
  <2>5. v \in Galaxy
    BY <2>3 DEF Galaxy
  <2> HIDE DEF v
  <2> QED
    BY <2>1, <2>4, <2>5 DEF g, m
<1>6. /\ gk \in Galaxy /\ gk.id = ws[k].id /\ gk.halo = ws[k].halo /\ gk.central = ws[k].central
      /\ gk.snap = ws[k].snap /\ gk.type = 3 /\ gk.holds = ws[k].holds
  <2> DEFINE g == ws[k]
             u == [g EXCEPT !.clock = c]
  <2> PICK three \in 0 .. 3 : three = 3
    OBVIOUS
  <2> DEFINE v == [u EXCEPT !.type = three]
  <2>1. gk = v
    OBVIOUS
  <2>2. g \in Galaxy /\ c \in {"unset", "pos", "zero"}
    BY <1>1 DEF Handover
  <2> HIDE DEF g, gk
  <2>3. u \in Galaxy
    BY <2>2 DEF Galaxy
  <2>4. /\ u.id = g.id /\ u.halo = g.halo /\ u.central = g.central
        /\ u.snap = g.snap /\ u.holds = g.holds
    BY <2>2 DEF Galaxy
  <2> HIDE DEF u
  <2>5. /\ v.id = u.id /\ v.halo = u.halo /\ v.central = u.central
        /\ v.snap = u.snap /\ v.type = three /\ v.holds = u.holds
    BY <2>3 DEF Galaxy
  <2>6. v \in Galaxy
    BY <2>3 DEF Galaxy
  <2> HIDE DEF v
  <2> QED
    BY <2>1, <2>4, <2>5, <2>6 DEF g
<1> HIDE DEF gt, gk
<1>7. \A x \in 1 .. Len(ws) : r[x] \in Galaxy
  BY <1>1, <1>3, <1>5, <1>6
<1>8. r \in Seq(Galaxy) /\ Len(r) = Len(ws)
  <2>1. r \in [1 .. Len(ws) -> Galaxy]
    BY <1>1, <1>4, <1>7
  <2> QED
    BY <1>1, <2>1
<1>9. ASSUME NEW x \in DOMAIN ws
      PROVE  /\ r[x].id = ws[x].id /\ r[x].halo = ws[x].halo
             /\ r[x].central = ws[x].central /\ r[x].snap = ws[x].snap
             /\ x # k => r[x].type = ws[x].type /\ r[x].clock = ws[x].clock
             /\ x # t => r[x].holds = ws[x].holds
  <2>1. CASE x = k
    BY <1>3, <1>6, <2>1
  <2>2. CASE x = t
    BY <1>3, <1>5, <2>2
  <2>3. CASE x # k /\ x # t
    BY <1>3, <2>3
  <2> QED
    BY <2>1, <2>2, <2>3
<1> QED
  BY <1>2, <1>3, <1>4, <1>5, <1>6, <1>8, <1>9

\* A merger or a disruption.
LEMMA ConsumeInv ==
    ASSUME FlowInv, NEW k \in DOMAIN ws, Consume(k)
    PROVE  FlowInv'
<1>1. /\ pc = "resolve" /\ i = k /\ i' = i + 1 /\ ws[k].type \in {1, 2}
      /\ UNCHANGED <<tree, evolved, out, pc, group, step, status>>
  BY ConsumeSteps
<1>2. PICK t : t = Target(k)
  OBVIOUS
<1>3. t \in DOMAIN ws /\ t # k
  BY <1>1, <1>2, TargetFacts DEF IsSatellite
<1>4. PICK c : Handover(k, t, c)
  BY <1>2, ConsumeSteps
<1>5. Len(ws) \in Nat /\ DOMAIN ws = 1 .. Len(ws) /\ ws \in Seq(Galaxy) /\ TypeOK
  BY LenProperties DEF FlowInv, TypeOK
<1>6. /\ ws' \in Seq(Galaxy) /\ Len(ws') = Len(ws) /\ DOMAIN ws' = DOMAIN ws
      /\ \A x \in DOMAIN ws :
            /\ ws'[x].id = ws[x].id /\ ws'[x].halo = ws[x].halo
            /\ ws'[x].central = ws[x].central /\ ws'[x].snap = ws[x].snap
            /\ x # k => ws'[x].type = ws[x].type /\ ws'[x].clock = ws[x].clock
            /\ x # t => ws'[x].holds = ws[x].holds
      /\ ws'[k].type = 3
      /\ ws'[t].holds = ws[t].holds \cup ws[k].holds
  BY <1>3, <1>4, <1>5, HandoverFacts
<1>7. SameObjects(ws', ws)
  BY <1>1, <1>6 DEF SameObjects, Stays
<1>8. /\ OutIsReady' /\ OutIsTrue' /\ OutIsApart' /\ GroupIsDue'
      /\ Linkage(ws, group)' /\ StillAtProgenitor'
  BY <1>1, <1>7, FrameKept
<1>9. TypeOK'
  BY <1>1, <1>5, <1>6 DEF TypeOK
<1>10. ObjectsAreTrue'
  <2>1. ASSUME NEW x \in DOMAIN ws
        PROVE  /\ ws'[x].snap < tree.snap[group]
               /\ ws'[x].id \in ws'[x].holds
               /\ \A z \in ws'[x].holds : tree.fof[z] \in evolved \cup {group}
    <3>1. \A y \in DOMAIN ws : /\ ws[y].snap < tree.snap[group] /\ ws[y].id \in ws[y].holds
                               /\ \A z \in ws[y].holds : tree.fof[z] \in evolved \cup {group}
      BY DEF FlowInv, ObjectsAreTrue
    <3>2. CASE x = t
      BY <1>3, <1>6, <3>1, <3>2
    <3>3. CASE x # t
      BY <1>6, <3>1, <3>3
    <3> QED
      BY <3>2, <3>3
  <2> QED
    BY <1>1, <1>6, <2>1 DEF ObjectsAreTrue
<1>11. Live' = Live \ {k} /\ k \in Live /\ Live \subseteq DOMAIN ws
  BY <1>1, <1>6 DEF Live
<1>12. MassIsApart'
  <2>1. /\ \A x, y \in Live : x # y => ws[x].holds \cap ws[y].holds = {}
        /\ \A x \in DOMAIN ws : \A q \in Halos :
              out[q] # <<>> /\ ~Before(tree, q, group) => ws[x].holds \cap out[q][1].holds = {}
    BY DEF FlowInv, MassIsApart
  <2>2. ASSUME NEW x \in Live', NEW y \in Live', x # y
        PROVE  ws'[x].holds \cap ws'[y].holds = {}
    <3>1. /\ x \in Live /\ y \in Live /\ x # k /\ y # k
          /\ x \in DOMAIN ws /\ y \in DOMAIN ws
          /\ ws[x].holds \cap ws[y].holds = {}
          /\ ws[k].holds \cap ws[y].holds = {} /\ ws[k].holds \cap ws[x].holds = {}
      BY <1>11, <2>1, <2>2
    <3>2. CASE x = t
      <4>1. ws'[x].holds = ws[x].holds \cup ws[k].holds /\ ws'[y].holds = ws[y].holds
        BY <1>6, <2>2, <3>1, <3>2
      <4> QED
        BY <3>1, <4>1
    <3>3. CASE y = t
      <4>1. ws'[y].holds = ws[y].holds \cup ws[k].holds /\ ws'[x].holds = ws[x].holds
        BY <1>6, <2>2, <3>1, <3>3
      <4> QED
        BY <3>1, <4>1
    <3>4. CASE x # t /\ y # t
      BY <1>6, <3>1, <3>4
    <3> QED
      BY <3>2, <3>3, <3>4
  <2>3. ASSUME NEW x \in DOMAIN ws, NEW q \in Halos, out[q] # <<>>, ~Before(tree, q, group)
        PROVE  ws'[x].holds \cap out[q][1].holds = {}
    <3>1. ws[x].holds \cap out[q][1].holds = {} /\ ws[k].holds \cap out[q][1].holds = {}
      BY <2>1, <2>3
    <3>2. CASE x = t
      BY <1>6, <3>1, <3>2
    <3>3. CASE x # t
      BY <1>6, <3>1, <3>3
    <3> QED
      BY <3>2, <3>3
  <2> HIDE DEF Live
  <2> QED
    BY <1>1, <1>6, <2>2, <2>3 DEF MassIsApart
<1>13. ClocksAreSet'
  <2>1. ASSUME NEW x \in Live' PROVE ws'[x].clock = "unset" <=> ws'[x].type = 0
    <3>1. x \in Live /\ x \in DOMAIN ws /\ x # k
      BY <1>11
    <3>2. ws[x].clock = "unset" <=> ws[x].type = 0
      BY <1>1, <3>1 DEF FlowInv, ClocksAreSet
    <3> QED
      BY <1>6, <3>1, <3>2
  <2> QED
    BY <2>1 DEF ClocksAreSet
<1>14. OrphansAreGone'
  <2>1. step + 1 = NumSubsteps => \A x \in DOMAIN ws : x < i + 1 => ws'[x].type # 2
    <3> SUFFICES ASSUME step + 1 = NumSubsteps, NEW x \in DOMAIN ws, x < i + 1
                 PROVE  ws'[x].type # 2
      OBVIOUS
    <3>1. CASE x = k
      BY <1>6, <3>1
    <3>2. CASE x # k
      <4>1. x < i
        BY <1>1, <1>5, <3>2
      <4>2. ws[x].type # 2
        BY <1>1, <4>1 DEF FlowInv, OrphansAreGone
      <4> QED
        BY <1>6, <3>2, <4>2
    <3> QED
      BY <3>1, <3>2
  <2> QED
    BY <1>1, <1>6, <2>1 DEF OrphansAreGone
<1> QED
  BY <1>8, <1>9, <1>10, <1>12, <1>13, <1>14 DEF FlowInv

-----------------------------------------------------------------------------
(* The marshalling step.                                                     *)

\* What is written of halo h: nothing, or the one live object of that halo.
Written(h, k) ==
    /\ k \in DOMAIN ws /\ ws[k].halo = h /\ ws[k].type \in {0, 1}
    /\ Len(Segment(h)) = 1 /\ Segment(h)[1] \in Galaxy
    /\ Segment(h)[1].id = ws[k].id /\ Segment(h)[1].type = ws[k].type
    /\ Segment(h)[1].clock = ws[k].clock /\ Segment(h)[1].holds = ws[k].holds
    /\ Segment(h)[1].snap = tree.snap[h]

\* At most one live object of a halo is left for the output buffer.
LEMMA SegmentFacts ==
    ASSUME FlowInv, pc = "marshal", NEW h \in Halos
    PROVE  /\ Segment(h) \in Seq({g \in Galaxy : g.type # 3})
           /\ Segment(h) = <<>> \/ \E k : Written(h, k)
<1> DEFINE stamped == [k \in DOMAIN ws |-> [ws[k] EXCEPT !.snap = tree.snap[h]]]
           K == {k \in DOMAIN ws : ws[k].halo = h /\ ws[k].type # 3}
           r == Kept(stamped, K)
<1>1. Segment(h) = r
  BY DEF Segment
<1>2. /\ ws \in Seq(Galaxy) /\ Len(ws) \in Nat /\ DOMAIN ws = 1 .. Len(ws)
      /\ \A k \in DOMAIN ws : ws[k] \in Galaxy
  BY LenProperties, ElementOfSeq DEF FlowInv, TypeOK
<1>3. tree.snap[h] \in Int
  BY TreeFacts DEF FlowInv, GroupIsDue
<1>4. ASSUME NEW k \in DOMAIN ws
      PROVE  /\ stamped[k] \in Galaxy
             /\ stamped[k].id = ws[k].id /\ stamped[k].type = ws[k].type
             /\ stamped[k].clock = ws[k].clock /\ stamped[k].holds = ws[k].holds
             /\ stamped[k].snap = tree.snap[h]
  <2> DEFINE g == ws[k]
             n == tree.snap[h]
             v == [g EXCEPT !.snap = n]
  <2>1. stamped[k] = v
    OBVIOUS
  <2>2. g \in Galaxy /\ n \in Int
    BY <1>2, <1>3
  <2> HIDE DEF g, n, stamped
  <2>3. v.id = g.id /\ v.type = g.type /\ v.clock = g.clock /\ v.holds = g.holds /\ v.snap = n
    BY <2>2 DEF Galaxy
  <2>4. v \in Galaxy
    BY <2>2 DEF Galaxy
  <2> HIDE DEF v
  <2> QED
    BY <2>1, <2>3, <2>4 DEF g, n
<1>5. stamped \in Seq(Galaxy) /\ Len(stamped) = Len(ws)
  <2>1. stamped = [k \in 1 .. Len(ws) |-> stamped[k]]
    BY <1>2
  <2> HIDE DEF stamped
  <2>2. stamped \in [1 .. Len(ws) -> Galaxy]
    BY <1>2, <1>4, <2>1
  <2> QED
    BY <1>2, <2>2
<1>6. ASSUME NEW k \in K
      PROVE  /\ k \in DOMAIN ws /\ ws[k].halo = h /\ ws[k].type \in {0, 1}
             /\ ws[k].central = k
  <2>1. k \in DOMAIN ws /\ ws[k].halo = h /\ ws[k].type # 3
    OBVIOUS
  <2>2. ws[k].type # 2
    BY <2>1 DEF FlowInv, OrphansAreGone
  <2>3. ws[k].type \in 0 .. 3
    BY <1>2, <2>1 DEF Galaxy
  <2>4. ws[k].type \in {0, 1}
    BY <2>1, <2>2, <2>3
  <2> QED
    BY <2>1, <2>4 DEF FlowInv, Linkage
<1>7. \A j, k \in K : j = k
  <2> SUFFICES ASSUME NEW j \in K, NEW k \in K PROVE j = k
    OBVIOUS
  <2>1. ws[j].central = ws[k].central
    BY <1>6 DEF FlowInv, Linkage
  <2> QED
    BY <1>6, <2>1
<1> HIDE DEF stamped, K, r
<1>8. PICK at : r \in Seq(Galaxy) /\ KeptAs(at, stamped, K, r)
  BY <1>5, KeptFacts DEF r
<1>9. Len(r) \in Nat /\ DOMAIN r = 1 .. Len(r)
  BY <1>8, LenProperties
<1>10. ASSUME NEW x \in 1 .. Len(r)
       PROVE  at[x] \in K /\ at[x] \in DOMAIN ws /\ r[x] = stamped[at[x]]
              /\ r[x] \in Galaxy /\ r[x].type # 3
  <2>1. at[x] \in K /\ r[x] = stamped[at[x]]
    BY <1>8 DEF KeptAs
  <2>2. at[x] \in DOMAIN ws /\ ws[at[x]].type \in {0, 1}
    BY <1>6, <2>1
  <2> QED
    BY <1>4, <2>1, <2>2
<1>11. \A x, y \in 1 .. Len(r) : x = y
  BY <1>7, <1>8, <1>10 DEF KeptAs
<1>12. r \in Seq({g \in Galaxy : g.type # 3})
  <2>1. r \in [1 .. Len(r) -> Galaxy]
    BY <1>8, <1>9
  <2>2. r = [x \in 1 .. Len(r) |-> r[x]]
    BY <2>1
  <2>3. r \in [1 .. Len(r) -> {g \in Galaxy : g.type # 3}]
    BY <1>10, <2>2
  <2> QED
    BY <1>9, <2>3
<1>13. ASSUME r # <<>>
       PROVE  \E k : Written(h, k)
  <2>1. Len(r) = 1
    BY <1>8, <1>11, <1>13, OnlyOne
  <2>2. 1 \in 1 .. Len(r)
    BY <2>1
  <2> DEFINE k == at[1]
  <2>3. k \in K /\ r[1] = stamped[k] /\ r[1] \in Galaxy
    BY <1>10, <2>2
  <2> HIDE DEF k
  <2>4. k \in DOMAIN ws /\ ws[k].halo = h /\ ws[k].type \in {0, 1}
    BY <1>6, <2>3
  <2>5. Written(h, k)
    BY <1>1, <1>4, <2>1, <2>3, <2>4 DEF Written
  <2> QED
    BY <2>5
<1> QED
  BY <1>1, <1>12, <1>13

\* The workspace becomes part of what is written.
LEMMA MarshalInv ==
    ASSUME FlowInv, Marshal
    PROVE  FlowInv'
<1>1. /\ pc = "marshal" /\ evolved' = evolved \cup {group}
      /\ pc' = "idle" /\ ws' = <<>> /\ i' = 1 /\ step' = 0
      /\ UNCHANGED <<tree, group, status>>
      /\ out' = [h \in Halos |-> IF h \in MembersOf(tree, group) THEN Segment(h) ELSE out[h]]
  BY DEF Marshal
<1>2. /\ tree \in Trees /\ ClosedBackward(tree, evolved) /\ status = "running"
      /\ group \in Fofs(tree) /\ group \notin evolved /\ Needs(tree, group) \subseteq evolved
  BY <1>1 DEF FlowInv, GroupIsDue
<1>3. OutIsReady /\ OutIsTrue /\ OutIsApart
  BY DEF FlowInv
<1>4. /\ group \in Halos
      /\ \A h \in MembersOf(tree, group) :
            h \in Halos /\ tree.fof[h] = group /\ tree.snap[h] = tree.snap[group]
  BY <1>2, GroupFacts
<1>5. ASSUME NEW h \in Halos, h \notin MembersOf(tree, group)
      PROVE  out'[h] = out[h]
  BY <1>1, <1>5
<1>6. ASSUME NEW h \in Halos, h \in MembersOf(tree, group)
      PROVE  /\ out'[h] \in Seq({g \in Galaxy : g.type # 3})
             /\ out'[h] # <<>> => \E k : Written(h, k) /\ out'[h] = Segment(h)
  <2>1. out'[h] = Segment(h)
    BY <1>1, <1>6
  <2> QED
    BY <1>1, <2>1, SegmentFacts
<1>7. out' \in [Halos -> Seq({g \in Galaxy : g.type # 3})]
  <2>1. out \in [Halos -> Seq({g \in Galaxy : g.type # 3})]
    BY DEF FlowInv, TypeOK
  <2>2. out' = [h \in Halos |-> out'[h]]
    BY <1>1
  <2>3. ASSUME NEW h \in Halos PROVE out'[h] \in Seq({g \in Galaxy : g.type # 3})
    BY <1>5, <1>6, <2>1
  <2> QED
    BY <2>2, <2>3
<1>8. ASSUME NEW h \in Halos, out'[h] # <<>>
      PROVE  /\ Len(out'[h]) = 1 /\ out'[h][1].type \in {0, 1} /\ out'[h] \in Seq(Galaxy)
             /\ tree.fof[h] \in evolved'
             /\ out'[h][1].snap = tree.snap[h]
             /\ out'[h][1].clock = "unset" <=> out'[h][1].type = 0
             /\ out'[h][1].id \in out'[h][1].holds
             /\ \A x \in out'[h][1].holds : tree.fof[x] \in evolved'
  <2>1. CASE h \notin MembersOf(tree, group)
    <3>1. out'[h] = out[h] /\ out[h] # <<>>
      BY <1>5, <1>8, <2>1
    <3> QED
      BY <1>1, <1>3, <3>1 DEF OutIsReady, OutIsTrue
  <2>2. CASE h \in MembersOf(tree, group)
    <3>1. PICK k : Written(h, k) /\ out'[h] = Segment(h)
      BY <1>6, <1>8, <2>2
    <3>2. /\ k \in DOMAIN ws /\ ws[k].type \in {0, 1}
          /\ Len(out'[h]) = 1 /\ out'[h][1].id = ws[k].id /\ out'[h][1].type = ws[k].type
          /\ out'[h][1].clock = ws[k].clock /\ out'[h][1].holds = ws[k].holds
          /\ out'[h][1].snap = tree.snap[h]
      BY <3>1 DEF Written
    <3>3. /\ ws[k].id \in ws[k].holds
          /\ \A x \in ws[k].holds : tree.fof[x] \in evolved \cup {group}
      BY <3>2 DEF FlowInv, ObjectsAreTrue
    <3>4. ws[k].clock = "unset" <=> ws[k].type = 0
      <4>1. k \in Live
        BY <3>2 DEF Live
      <4> QED
        BY <1>1, <4>1 DEF FlowInv, ClocksAreSet
    <3>5. out'[h] \in Seq(Galaxy)
      <4>1. out'[h] \in Seq({g \in Galaxy : g.type # 3})
        BY <1>6, <2>2
      <4> QED
        BY <4>1
    <3>6. tree.fof[h] \in evolved'
      BY <1>1, <1>4, <2>2
    <3> QED
      BY <1>1, <3>2, <3>3, <3>4, <3>5, <3>6
  <2> QED
    BY <2>1, <2>2
<1>9. OutIsReady'
  <2>1. out' \in [Halos -> Seq(Galaxy)]
    <3>1. out' = [h \in Halos |-> out'[h]]
      BY <1>1
    <3>2. ASSUME NEW h \in Halos PROVE out'[h] \in Seq(Galaxy)
      <4>1. CASE out'[h] # <<>>
        BY <1>8, <4>1
      <4>2. CASE out'[h] = <<>>
        BY <4>2
      <4> QED
        BY <4>1, <4>2
    <3> QED
      BY <3>1, <3>2
  <2> QED
    BY <1>1, <1>2, <1>8, <2>1 DEF OutIsReady
<1>10. OutIsTrue'
  BY <1>1, <1>8 DEF OutIsTrue
<1>11. ASSUME NEW p \in Halos, NEW q \in Halos, p # q, out'[p] # <<>>, out'[q] # <<>>,
              ~Before(tree, p, tree.fof[q]), ~Before(tree, q, tree.fof[p])
       PROVE  out'[p][1].holds \cap out'[q][1].holds = {}
  <2>1. ASSUME NEW g \in Halos, NEW h \in Halos, g \in MembersOf(tree, group),
               h \notin MembersOf(tree, group), out'[g] # <<>>, out'[h] # <<>>,
               ~Before(tree, h, tree.fof[g])
        PROVE  out'[g][1].holds \cap out'[h][1].holds = {}
    <3>1. PICK k : Written(g, k) /\ out'[g] = Segment(g)
      BY <1>6, <2>1
    <3>2. k \in DOMAIN ws /\ out'[g][1].holds = ws[k].holds
      BY <3>1 DEF Written
    <3>3. out'[h] = out[h] /\ tree.fof[g] = group
      BY <1>4, <1>5, <2>1
    <3> QED
      BY <2>1, <3>2, <3>3 DEF FlowInv, MassIsApart
  <2>2. CASE p \in MembersOf(tree, group) /\ q \in MembersOf(tree, group)
    <3>1. PICK j : Written(p, j) /\ out'[p] = Segment(p)
      BY <1>6, <1>11, <2>2
    <3>2. PICK k : Written(q, k) /\ out'[q] = Segment(q)
      BY <1>6, <1>11, <2>2
    <3>3. /\ j \in DOMAIN ws /\ ws[j].halo = p /\ ws[j].type \in {0, 1}
          /\ out'[p][1].holds = ws[j].holds
      BY <3>1 DEF Written
    <3>4. /\ k \in DOMAIN ws /\ ws[k].halo = q /\ ws[k].type \in {0, 1}
          /\ out'[q][1].holds = ws[k].holds
      BY <3>2 DEF Written
    <3>5. j # k /\ j \in Live /\ k \in Live
      BY <1>11, <3>3, <3>4 DEF Live
    <3>6. ws[j].holds \cap ws[k].holds = {}
      BY <3>5 DEF FlowInv, MassIsApart
    <3> QED
      BY <3>3, <3>4, <3>6
  <2>3. CASE p \in MembersOf(tree, group) /\ q \notin MembersOf(tree, group)
    BY <1>11, <2>1, <2>3
  <2>4. CASE p \notin MembersOf(tree, group) /\ q \in MembersOf(tree, group)
    <3>1. out'[q][1].holds \cap out'[p][1].holds = {}
      BY <1>11, <2>1, <2>4
    <3> QED
      BY <3>1
  <2>5. CASE p \notin MembersOf(tree, group) /\ q \notin MembersOf(tree, group)
    BY <1>3, <1>5, <1>11, <2>5 DEF OutIsApart
  <2> QED
    BY <2>2, <2>3, <2>4, <2>5
<1>12. OutIsApart'
  BY <1>1, <1>11 DEF OutIsApart
<1>13. ClosedBackward(tree', evolved')
  <2>1. evolved' \in SUBSET Fofs(tree)
    BY <1>1, <1>2 DEF ClosedBackward
  <2>2. \A f \in evolved' : Needs(tree, f) \subseteq evolved'
    BY <1>1, <1>2 DEF ClosedBackward
  <2> QED
    BY <1>1, <2>1, <2>2 DEF ClosedBackward
<1>14. Len(ws') = 0 /\ DOMAIN ws' = {} /\ ws' \in Seq(Galaxy)
  BY <1>1
<1>15. TypeOK'
  <2>1. tree \in Tree /\ evolved \subseteq Halos /\ group \in Nat
    BY DEF FlowInv, TypeOK
  <2>2. 0 \in 0 .. NumSubsteps - 1
    BY SubstepsAssumption
  <2> QED
    BY <1>1, <1>2, <1>4, <1>7, <1>14, <2>1, <2>2 DEF TypeOK
<1>16. GroupIsDue'
  BY <1>1, <1>2, <1>13 DEF GroupIsDue
<1>17. Live' = {}
  BY <1>14 DEF Live
<1>18. Linkage(ws, group)' /\ ObjectsAreTrue' /\ MassIsApart' /\ StillAtProgenitor'
  BY <1>14, <1>17 DEF Linkage, ObjectsAreTrue, MassIsApart, StillAtProgenitor
<1>19. ClocksAreSet' /\ OrphansAreGone'
  BY <1>1 DEF ClocksAreSet, OrphansAreGone
<1> QED
  BY <1>9, <1>10, <1>12, <1>15, <1>16, <1>18, <1>19 DEF FlowInv

-----------------------------------------------------------------------------
(* The galaxies of a unit.                                                   *)

\* The end of the unit changes nothing that is written.
LEMMA FinishInv ==
    ASSUME FlowInv, Finish
    PROVE  FlowInv'
<1>1. /\ pc = "idle" /\ status' = "finished"
      /\ UNCHANGED <<tree, evolved, out, pc, group, ws, i, step>>
  BY DEF Finish
<1>2. /\ OutIsReady' /\ OutIsTrue' /\ OutIsApart'
      /\ tree' \in Trees /\ ClosedBackward(tree', evolved')
  BY <1>1, OutStays
<1>3. TypeOK'
  BY <1>1 DEF FlowInv, TypeOK
<1>4. GroupIsDue'
  BY <1>1, <1>2 DEF FlowInv, GroupIsDue
<1>5. Linkage(ws, group)' /\ ObjectsAreTrue' /\ MassIsApart' /\ StillAtProgenitor'
  BY <1>1 DEF FlowInv, Linkage, ObjectsAreTrue, MassIsApart, StillAtProgenitor, Live
<1>6. ClocksAreSet' /\ OrphansAreGone'
  BY <1>1 DEF ClocksAreSet, OrphansAreGone
<1> QED
  BY <1>2, <1>3, <1>4, <1>5, <1>6 DEF FlowInv

\* Every step keeps the invariant.
LEMMA FlowInvNext == FlowInv /\ [Next]_vars => FlowInv'
<1> SUFFICES ASSUME FlowInv, [Next]_vars PROVE FlowInv'
  OBVIOUS
<1>1. ASSUME NEW f \in Fofs(tree), Gather(f) PROVE FlowInv'
  BY <1>1, GatherInv
<1>2. CASE InitialiseMergerClock
  BY <1>2, ClockInv
<1>3. ASSUME NEW k \in DOMAIN ws, SkipObject(k) PROVE FlowInv'
  BY <1>3, SkipInv
<1>4. ASSUME NEW k \in DOMAIN ws, Survive(k) PROVE FlowInv'
  BY <1>4, SurviveInv
<1>5. ASSUME NEW k \in DOMAIN ws, Consume(k) PROVE FlowInv'
  BY <1>5, ConsumeInv
<1>6. CASE EndPass
  BY <1>6, EndPassInv
<1>7. CASE Marshal
  BY <1>7, MarshalInv
<1>8. CASE Finish
  BY <1>8, FinishInv
<1>9. CASE UNCHANGED vars
  <2>1. /\ tree' = tree /\ evolved' = evolved /\ out' = out /\ pc' = pc /\ group' = group
        /\ ws' = ws /\ i' = i /\ step' = step /\ status' = status
    BY <1>9 DEF vars
  <2>2. OutIsReady' /\ OutIsTrue' /\ OutIsApart'
    BY <2>1, OutStays
  <2>3. TypeOK' /\ GroupIsDue'
    BY <2>1 DEF FlowInv, TypeOK, GroupIsDue
  <2>4. Linkage(ws, group)' /\ ObjectsAreTrue' /\ MassIsApart' /\ StillAtProgenitor'
    BY <2>1 DEF FlowInv, Linkage, ObjectsAreTrue, MassIsApart, StillAtProgenitor, Live
  <2>5. ClocksAreSet' /\ OrphansAreGone'
    BY <2>1 DEF FlowInv, ClocksAreSet, OrphansAreGone, Live
  <2> QED
    BY <2>2, <2>3, <2>4, <2>5 DEF FlowInv
<1> QED
  BY <1>1, <1>2, <1>3, <1>4, <1>5, <1>6, <1>7, <1>8, <1>9 DEF Next

\* FlowInv holds in every state.
THEOREM FlowInvariant == Spec => []FlowInv
BY FlowInvInit, FlowInvNext, PTL DEF Spec

\* No group is refused and no satellite is: every slice and every group has the
\* central it needs, now and a snapshot later (set_local_centrals(),
\* process_halo_evolution(), the resolver's checks).
THEOREM EveryCentralIsFound == Spec => []CentralsFound
<1>1. FlowInv => CentralsFound
  BY DEF FlowInv, GroupIsDue, OutIsReady, CentralsFound, NeverFatal, OrphansEndHere
<1> QED
  BY <1>1, FlowInvariant, PTL

\* In one snapshot no galaxy is written twice and no mass is in two galaxies.
THEOREM NothingIsCountedTwice == Spec => []CountedOnce
<1>1. FlowInv => CountedOnce
  <2> SUFFICES ASSUME FlowInv, NEW g \in Halos, NEW h \in Halos,
                      NEW j \in DOMAIN out[g], NEW k \in DOMAIN out[h],
                      tree.snap[g] = tree.snap[h], <<g, j>> # <<h, k>>
               PROVE  /\ out[g][j].id # out[h][k].id
                      /\ out[g][j].holds \cap out[h][k].holds = {}
    BY DEF FlowInv, CountedOnce
  <2>1. OutIsReady /\ OutIsTrue /\ OutIsApart /\ tree \in Trees
    BY DEF FlowInv, OutIsReady
  <2>2. out[g] # <<>> /\ out[h] # <<>>
    BY <2>1 DEF OutIsReady
  <2>3. j = 1 /\ k = 1 /\ g # h
    BY <2>1, <2>2, OutFacts
  <2>4. ASSUME NEW p \in Halos, NEW q \in Halos, tree.snap[p] = tree.snap[q]
        PROVE  ~Before(tree, p, tree.fof[q])
    <3>1. tree.fof[q] \in Fofs(tree) /\ tree.snap[q] = tree.snap[tree.fof[q]]
      BY <2>1, HaloIsMember, GroupFacts
    <3>2. tree.snap[p] \in Nat
      BY <2>1, TreeFacts
    <3>3. Before(tree, p, tree.fof[q]) => tree.snap[p] < tree.snap[tree.fof[q]]
      BY <2>1, <3>1, BeforeIsEarlier
    <3> QED
      BY <2>4, <3>1, <3>2, <3>3
  <2>5. ~Before(tree, g, tree.fof[h]) /\ ~Before(tree, h, tree.fof[g])
    BY <2>4
  <2>6. out[g][1].holds \cap out[h][1].holds = {}
    BY <2>1, <2>2, <2>3, <2>5 DEF OutIsApart
  <2>7. out[g][1].id \in out[g][1].holds /\ out[h][1].id \in out[h][1].holds
    BY <2>1, <2>2 DEF OutIsTrue
  <2> QED
    BY <2>3, <2>6, <2>7
<1> QED
  BY <1>1, FlowInvariant, PTL

\* The central, the clock and the age of a galaxy are true where it arrives.
THEOREM WhatIsCarriedIsTrue == Spec => []CarriedOver
<1>1. FlowInv => CentralsAreLocal
  <2> SUFFICES ASSUME FlowInv, NEW k \in DOMAIN ws
               PROVE  LET c == ws[k].central IN
                      c \in DOMAIN ws /\ ws[c].halo = ws[k].halo /\ ws[c].central = c
    BY DEF CentralsAreLocal
  <2>1. Linkage(ws, group)
    BY DEF FlowInv
  <2>2. PICK c : c = ws[k].central
    OBVIOUS
  <2>3. c \in DOMAIN ws /\ ws[c].halo = ws[k].halo
    BY <2>1, <2>2 DEF Linkage
  <2>4. ws[c].central = c
    BY <2>1, <2>2, <2>3 DEF Linkage
  <2> QED
    BY <2>2, <2>3, <2>4
<1>2. FlowInv => ClockMeansSatellite
  <2> SUFFICES ASSUME FlowInv, NEW h \in Halos, NEW k \in DOMAIN out[h]
               PROVE  out[h][k].clock = "unset" <=> out[h][k].type = 0
    BY DEF ClockMeansSatellite
  <2>1. OutIsReady /\ OutIsTrue
    BY DEF FlowInv
  <2>2. out[h] # <<>>
    BY <2>1 DEF OutIsReady
  <2>3. k = 1
    BY <2>1, <2>2, OutFacts
  <2> QED
    BY <2>1, <2>2, <2>3 DEF OutIsTrue
<1>3. FlowInv => StillAtProgenitor
  BY DEF FlowInv
<1>4. FlowInv => CarriedOver
  BY <1>1, <1>2, <1>3 DEF CarriedOver
<1> QED
  BY <1>4, FlowInvariant, PTL

\* A merger or disruption keeps the ledger of the group, but for the orphan
\* whose central was consumed before it.
LEMMA ConsumeLedger ==
    ASSUME FlowInv, NEW k \in DOMAIN ws, Consume(k), Ledger' # Ledger
    PROVE  ws[k].type = 2 /\ ws'[k].type = 3 /\ ws[ws[k].central].type = 3
<1>1. pc = "resolve" /\ ws[k].type \in {1, 2} /\ ws \in Seq(Galaxy)
  BY ConsumeSteps DEF FlowInv, TypeOK
<1>2. PICK t : t = Target(k)
  OBVIOUS
<1>3. /\ t \in DOMAIN ws /\ t # k
      /\ t \in Live \/ (ws[k].type = 2 /\ ws[ws[k].central].type = 3)
  BY <1>1, <1>2, TargetFacts DEF IsSatellite
<1>4. PICK c : Handover(k, t, c)
  BY <1>2, ConsumeSteps
<1>5. /\ DOMAIN ws' = DOMAIN ws
      /\ \A x \in DOMAIN ws : /\ x # k => ws'[x].type = ws[x].type
                              /\ x # t => ws'[x].holds = ws[x].holds
      /\ ws'[k].type = 3
      /\ ws'[t].holds = ws[t].holds \cup ws[k].holds
  BY <1>1, <1>3, <1>4, HandoverFacts
<1>6. CASE t \in Live
  <2>1. Live' = Live \ {k} /\ k \in Live /\ Live \subseteq DOMAIN ws
    BY <1>1, <1>5 DEF Live
  <2>2. Ledger = UNION {ws[x].holds : x \in Live} /\ Ledger' = UNION {ws'[x].holds : x \in Live'}
    BY DEF Ledger
  <2> HIDE DEF Live, Ledger
  <2>3. ASSUME NEW z \in Ledger PROVE z \in Ledger'
    <3>1. PICK x \in Live : z \in ws[x].holds
      BY <2>2
    <3>2. CASE x = k \/ x = t
      <4>1. t \in Live' /\ z \in ws'[t].holds
        BY <1>3, <1>5, <1>6, <2>1, <3>1, <3>2
      <4> QED
        BY <2>2, <4>1
    <3>3. CASE x # k /\ x # t
      <4>1. x \in Live' /\ z \in ws'[x].holds
        BY <1>5, <2>1, <3>1, <3>3
      <4> QED
        BY <2>2, <4>1
    <3> QED
      BY <3>2, <3>3
  <2>4. ASSUME NEW z \in Ledger' PROVE z \in Ledger
    <3>1. PICK x \in Live' : z \in ws'[x].holds
      BY <2>2
    <3>2. x \in Live /\ x \in DOMAIN ws
      BY <2>1
    <3>3. z \in ws[x].holds \/ z \in ws[k].holds
      BY <1>5, <3>1, <3>2
    <3> QED
      BY <2>1, <2>2, <3>2, <3>3
  <2>5. Ledger' = Ledger
    BY <2>3, <2>4
  <2> QED
    BY <2>5
<1> QED
  BY <1>3, <1>5, <1>6

\* A satellite that survives keeps its mass.
LEMMA SurviveLedger ==
    ASSUME FlowInv, NEW k \in DOMAIN ws, Survive(k)
    PROVE  Ledger' = Ledger
<1>1. PICK c : ws' = [ws EXCEPT ![k].clock = c]
  BY DEF Survive
<1>2. DOMAIN ws' = DOMAIN ws
  BY <1>1
<1>3. ASSUME NEW x \in DOMAIN ws
      PROVE  ws'[x].type = ws[x].type /\ ws'[x].holds = ws[x].holds
  <2> DEFINE g == ws[k]
             v == [g EXCEPT !.clock = c]
  <2>1. g \in Galaxy
    BY ElementOfSeq DEF FlowInv, TypeOK
  <2>2. x = k => ws'[x] = v
    BY <1>1
  <2>3. x # k => ws'[x] = ws[x]
    BY <1>1
  <2> HIDE DEF g
  <2>4. v.type = g.type /\ v.holds = g.holds
    BY <2>1 DEF Galaxy
  <2> HIDE DEF v
  <2> QED
    BY <2>2, <2>3, <2>4 DEF g
<1>4. Live' = Live /\ Live \subseteq DOMAIN ws
  BY <1>2, <1>3 DEF Live
<1> QED
  BY <1>3, <1>4 DEF Ledger

\* The only mass that a resolver step loses is that of such an orphan.
THEOREM LossesAreExplained == Spec => LossNeedsDeadHost
<1>1. FlowInv /\ [Next]_vars =>
        [pc = "resolve" /\ pc' = "resolve" /\ Ledger' # Ledger =>
            \E k \in DOMAIN ws : /\ ws[k].type = 2
                                /\ ws'[k].type = 3
                                /\ ws[ws[k].central].type = 3]_vars
  <2> SUFFICES ASSUME FlowInv, [Next]_vars, pc = "resolve", pc' = "resolve", Ledger' # Ledger
               PROVE  \E k \in DOMAIN ws : /\ ws[k].type = 2
                                          /\ ws'[k].type = 3
                                          /\ ws[ws[k].central].type = 3
    OBVIOUS
  <2>1. ws' # ws
    BY DEF Ledger, Live
  <2>2. ASSUME NEW f, Gather(f) PROVE FALSE
    BY <2>2 DEF Gather
  <2>3. ~InitialiseMergerClock /\ ~Marshal
    BY DEF InitialiseMergerClock, Marshal
  <2>4. ASSUME NEW k, SkipObject(k) PROVE FALSE
    BY <2>1, <2>4 DEF SkipObject
  <2>5. ~EndPass /\ ~Finish
    BY <2>1 DEF EndPass, Finish
  <2>6. ASSUME NEW k \in DOMAIN ws, Survive(k) PROVE FALSE
    <3>1. Ledger' = Ledger
      BY <2>6, SurviveLedger
    <3> QED
      BY <3>1
  <2>7. PICK k \in DOMAIN ws : Consume(k)
    BY <2>1, <2>2, <2>3, <2>4, <2>5, <2>6 DEF Next, vars
  <2> QED
    BY <2>7, ConsumeLedger
<1> QED
  BY <1>1, FlowInvariant, PTL DEF Spec, LossNeedsDeadHost

-----------------------------------------------------------------------------
(* The galaxy pool.                                                          *)

\* The history of the largest unit covers the unit in hand.
LargestCovers == Len(handed) <= largest

\* SizedByLargest is inductive only with the fill of the chunks (a chunk is
\* added when all before it are full) and with what the largest unit was.
PoolInv == PoolTypeOK /\ Filled /\ LargestCovers /\ SizedByLargest

\* A full chunk more is Capacity slots more.
LEMMA OneMoreChunk ==
    ASSUME NEW n \in Int
    PROVE  (n - 1) * Capacity + Capacity = n * Capacity
BY CapacityAssumption

\* The pool is empty at first.
LEMMA PoolInitInv == NoPool => PoolInv
<1> SUFFICES ASSUME NoPool PROVE PoolInv
  OBVIOUS
<1>1. used = <<>> /\ current = 0 /\ handed = <<>> /\ largest = 0 /\ resets = 0
  BY DEF NoPool
<1>2. Len(used) = 0 /\ Len(handed) = 0
  BY <1>1
<1> QED
  BY <1>1, <1>2 DEF PoolInv, PoolTypeOK, Filled, LargestCovers, SizedByLargest

\* Handing out the slot that the fill of the pool names keeps the history right.
LEMMA HandOutFacts ==
    ASSUME PoolInv, NEW c \in Nat \ {0}, NEW n \in 0 .. (Capacity - 1), HandOut(c, n),
           Len(handed) = (c - 1) * Capacity + n
    PROVE  /\ handed' \in Seq(Slot) /\ Len(handed') = Len(handed) + 1
           /\ Len(handed') = (c - 1) * Capacity + (n + 1)
           /\ \A k \in DOMAIN handed' :
                k - 1 = (handed'[k].chunk - 1) * Capacity + handed'[k].index
           /\ largest' \in Nat /\ largest <= largest' /\ Len(handed') <= largest'
           /\ resets' \in Nat /\ current' = c
<1> DEFINE s == [chunk |-> c, index |-> n]
<1>1. handed \in Seq(Slot) /\ largest \in Nat /\ resets \in Nat /\ Len(handed) \in Nat
  BY DEF PoolInv, PoolTypeOK
<1>2. s \in Slot
  BY DEF Slot
<1>3. handed' = Append(handed, s)
  BY DEF HandOut
<1>4. handed' \in Seq(Slot) /\ Len(handed') = Len(handed) + 1
  BY <1>1, <1>2, <1>3
<1>5. ASSUME NEW k \in DOMAIN handed'
      PROVE  k - 1 = (handed'[k].chunk - 1) * Capacity + handed'[k].index
  <2>1. k \in 1 .. (Len(handed) + 1)
    BY <1>4
  <2>2. CASE k \in DOMAIN handed
    <3>1. handed'[k] = handed[k]
      BY <1>1, <1>2, <1>3, <2>2
    <3> QED
      BY <2>2, <3>1 DEF PoolInv, Filled
  <2>3. CASE k = Len(handed) + 1
    <3>1. handed'[k] = s
      BY <1>1, <1>2, <1>3, <2>3
    <3>2. handed'[k].chunk = c /\ handed'[k].index = n
      BY <3>1
    <3> QED
      BY <1>1, <2>3, <3>2
  <2> QED
    BY <1>1, <2>1, <2>2, <2>3
<1>6. (c - 1) * Capacity \in Int
  BY CapacityAssumption
<1>7. Len(handed') = (c - 1) * Capacity + (n + 1)
  BY <1>1, <1>4, <1>6
<1>8. largest' \in Nat /\ largest <= largest' /\ Len(handed') <= largest'
  BY <1>1, <1>4 DEF HandOut, PoolInv, LargestCovers
<1> QED
  BY <1>1, <1>4, <1>5, <1>7, <1>8 DEF HandOut

\* An allocation hands out the next slot.
LEMMA AllocInv == ASSUME PoolInv, Alloc PROVE PoolInv'
<1>1. /\ used \in Seq(0 .. Capacity) /\ Len(used) \in Nat /\ current \in 0 .. Len(used)
      /\ largest \in Nat /\ Capacity \in Nat \ {0}
      /\ current = 0 <=> used = <<>>
      /\ current # 0 => /\ Len(handed) = (current - 1) * Capacity + used[current]
                        /\ used[current] \in 0 .. Capacity
                        /\ current \in DOMAIN used
  BY CapacityAssumption DEF PoolInv, PoolTypeOK, Filled
<1>2. ASSUME NEW c \in Nat \ {0}, NEW n \in 0 .. (Capacity - 1), HandOut(c, n),
             Len(handed) = (c - 1) * Capacity + n,
             used' \in Seq(0 .. Capacity), c \in 1 .. Len(used'), used'[c] = n + 1,
             SizedByLargest'
      PROVE  PoolInv'
  <2>1. /\ handed' \in Seq(Slot) /\ Len(handed') = (c - 1) * Capacity + (n + 1)
        /\ \A k \in DOMAIN handed' :
             k - 1 = (handed'[k].chunk - 1) * Capacity + handed'[k].index
        /\ largest' \in Nat /\ Len(handed') <= largest'
        /\ resets' \in Nat /\ current' = c
    BY <1>2, HandOutFacts
  <2>2. PoolTypeOK'
    BY <1>2, <2>1 DEF PoolTypeOK
  <2>3. used' # <<>>
    BY <1>2
  <2>4. Filled'
    BY <1>2, <2>1, <2>3 DEF Filled
  <2> QED
    BY <1>2, <2>1, <2>2, <2>4 DEF PoolInv, LargestCovers
<1>3. CASE AllocInCurrent
  <2>1. /\ current \in Nat \ {0} /\ used[current] \in 0 .. (Capacity - 1)
        /\ HandOut(current, used[current])
        /\ used' = [used EXCEPT ![current] = @ + 1]
    BY <1>1, <1>3 DEF AllocInCurrent
  <2>2. /\ used' \in Seq(0 .. Capacity) /\ Len(used') = Len(used)
        /\ used'[current] = used[current] + 1
    BY <1>1, <2>1
  <2>3. largest <= largest' /\ largest' \in Nat
    BY <1>1, <2>1, HandOutFacts
  <2>4. (Len(used) - 1) * Capacity \in Int
    BY <1>1
  <2>5. SizedByLargest'
    BY <1>1, <2>2, <2>3, <2>4 DEF PoolInv, SizedByLargest
  <2> QED
    BY <1>1, <1>2, <2>1, <2>2, <2>5
<1>4. CASE AllocInNext \/ AllocInNewChunk
  <2>1. /\ current # 0 /\ current + 1 \in Nat \ {0} /\ current \in Int
        /\ used[current] = Capacity
        /\ HandOut(current + 1, 0)
    BY <1>1, <1>4 DEF AllocInNext, AllocInNewChunk
  <2>2. Len(handed) = ((current + 1) - 1) * Capacity + 0
    <3>1. Len(handed) = current * Capacity
      BY <1>1, <2>1, OneMoreChunk
    <3>2. current * Capacity \in Int /\ (current + 1) - 1 = current
      BY <1>1, <2>1
    <3> QED
      BY <3>1, <3>2
  <2>3. 0 \in 0 .. (Capacity - 1)
    BY <1>1
  <2>4. /\ largest <= largest' /\ largest' \in Nat
        /\ Len(handed) + 1 <= largest'
    BY <2>1, <2>2, <2>3, HandOutFacts
  <2>5. CASE AllocInNext
    <3>1. /\ current + 1 \in 1 .. Len(used)
          /\ used' = [used EXCEPT ![current + 1] = 1]
      BY <1>1, <2>5 DEF AllocInNext
    <3>2. /\ used' \in Seq(0 .. Capacity) /\ Len(used') = Len(used)
          /\ used'[current + 1] = 0 + 1
      BY <1>1, <3>1
    <3>3. (Len(used) - 1) * Capacity \in Int
      BY <1>1
    <3>4. SizedByLargest'
      BY <1>1, <2>4, <3>2, <3>3 DEF PoolInv, SizedByLargest
    <3> QED
      BY <1>2, <2>1, <2>2, <2>3, <3>1, <3>2, <3>4
  <2>6. CASE AllocInNewChunk
    <3>1. current = Len(used) /\ used' = Append(used, 1)
      BY <2>6 DEF AllocInNewChunk
    <3>2. /\ used' \in Seq(0 .. Capacity) /\ Len(used') = current + 1
          /\ used'[current + 1] = 0 + 1
      BY <1>1, <3>1
    <3>3. current + 1 \in 1 .. Len(used')
      BY <2>1, <3>2, <1>1
    <3>4. (Len(used') - 1) * Capacity = Len(handed)
      <4>1. Len(used') - 1 = (current + 1) - 1
        BY <3>2
      <4>2. ((current + 1) - 1) * Capacity \in Int
        BY <1>1, <2>1
      <4> QED
        BY <2>2, <4>1, <4>2
    <3>5. Len(handed) \in Nat
      BY DEF PoolInv, PoolTypeOK
    <3>6. SizedByLargest'
      BY <2>4, <3>4, <3>5 DEF SizedByLargest
    <3> QED
      BY <1>2, <2>1, <2>2, <2>3, <3>2, <3>3, <3>6
  <2> QED
    BY <1>4, <2>5, <2>6
<1>5. CASE AllocUninitialised
  <2>1. current = 0 /\ HandOut(1, 0) /\ used' = <<1>>
    BY <1>5 DEF AllocUninitialised
  <2>2. used' \in Seq(0 .. Capacity) /\ Len(used') = 1 /\ used'[1] = 0 + 1
    BY <1>1, <2>1
  <2>3. Len(handed) = (1 - 1) * Capacity + 0
    <3>1. Len(handed) = 0
      BY <2>1 DEF PoolInv, Filled
    <3> QED
      BY <1>1, <3>1
  <2>4. SizedByLargest'
    BY <2>2 DEF SizedByLargest
  <2> QED
    BY <1>1, <1>2, <2>1, <2>2, <2>3, <2>4
<1> QED
  BY <1>3, <1>4, <1>5 DEF Alloc

\* Every step keeps the invariant.
LEMMA PoolStepInv == PoolInv /\ [PoolNext]_poolVars => PoolInv'
<1> SUFFICES ASSUME PoolInv, [PoolNext]_poolVars PROVE PoolInv'
  OBVIOUS
<1>1. CASE PoolInit
  <2>1. used = <<>> /\ used' = <<0>> /\ current' = 1 /\ UNCHANGED <<handed, largest, resets>>
    BY <1>1 DEF PoolInit
  <2>2. handed = <<>>
    BY <2>1 DEF PoolInv, Filled
  <2>3. used' \in Seq(0 .. Capacity) /\ Len(used') = 1 /\ used'[1] = 0 /\ used' # <<>>
    BY <2>1, CapacityAssumption
  <2>4. Len(handed') = (1 - 1) * Capacity + 0
    BY <2>1, <2>2, CapacityAssumption
  <2> QED
    BY <2>1, <2>2, <2>3, <2>4 DEF PoolInv, PoolTypeOK, Filled, LargestCovers, SizedByLargest
<1>2. CASE Alloc
  BY <1>2, AllocInv
<1>3. CASE Reset
  <2>1. /\ handed' = <<>> /\ resets' = resets + 1 /\ largest' = largest
        /\ current' = IF used = <<>> THEN 0 ELSE 1
        /\ used' = IF used = <<>> THEN used ELSE [used EXCEPT ![1] = 0]
    BY <1>3 DEF Reset
  <2>2. used \in Seq(0 .. Capacity) /\ largest \in Nat /\ resets \in Nat
    BY DEF PoolInv, PoolTypeOK
  <2>3. Len(handed') = 0 /\ handed' \in Seq(Slot) /\ DOMAIN handed' = {}
    BY <2>1
  <2>4. CASE used = <<>>
    BY <2>1, <2>2, <2>3, <2>4 DEF PoolInv, PoolTypeOK, Filled, LargestCovers, SizedByLargest
  <2>5. CASE used # <<>>
    <3>1. 1 \in DOMAIN used /\ Len(used) \in Nat \ {0}
      BY <2>2, <2>5
    <3>2. /\ used' \in Seq(0 .. Capacity) /\ Len(used') = Len(used) /\ used'[1] = 0
          /\ used' # <<>> /\ current' = 1
      BY <2>1, <2>2, <2>5, <3>1, CapacityAssumption
    <3>3. Len(handed') = (1 - 1) * Capacity + 0
      BY <2>3, CapacityAssumption
    <3> QED
      BY <2>1, <2>2, <2>3, <3>1, <3>2, <3>3
      DEF PoolInv, PoolTypeOK, Filled, LargestCovers, SizedByLargest
  <2> QED
    BY <2>4, <2>5
<1>4. CASE Destroy
  <2>1. /\ used' = <<>> /\ current' = 0 /\ handed' = <<>> /\ largest' = 0
        /\ resets' = resets
    BY <1>4 DEF Destroy
  <2>2. Len(used') = 0 /\ Len(handed') = 0 /\ DOMAIN handed' = {} /\ handed' \in Seq(Slot)
    BY <2>1
  <2> QED
    BY <2>1, <2>2 DEF PoolInv, PoolTypeOK, Filled, LargestCovers, SizedByLargest
<1>5. CASE UNCHANGED poolVars
  BY <1>5 DEF poolVars, PoolInv, PoolTypeOK, Filled, LargestCovers, SizedByLargest
<1> QED
  BY <1>1, <1>2, <1>3, <1>4, <1>5 DEF PoolNext

\* PoolInv holds in every state.
THEOREM PoolInvariant == PoolSpec => []PoolInv
BY PoolInitInv, PoolStepInv, PTL DEF PoolSpec

\* Slots are where the order in which they were handed out says, so no two
\* galaxies of a unit share one (galaxy_pool_alloc(), galaxy_pool_reset()).
THEOREM SlotsAreDistinct == PoolSpec => []NoSharedSlot
<1>1. PoolInv => NoSharedSlot
  <2> SUFFICES ASSUME PoolInv, NEW j \in DOMAIN handed, NEW k \in DOMAIN handed,
                      handed[j] = handed[k]
               PROVE  j = k
    BY DEF NoSharedSlot
  <2>1. j - 1 = k - 1
    BY DEF PoolInv, Filled
  <2>2. j \in Int /\ k \in Int
    BY DEF PoolInv, PoolTypeOK
  <2> QED
    BY <2>1, <2>2
<1> QED
  BY <1>1, PoolInvariant, PTL

\* The pool never holds a chunk that the largest unit did not need.
THEOREM PoolIsBounded == PoolSpec => []SizedByLargest
<1>1. PoolInv => SizedByLargest
  BY DEF PoolInv
<1> QED
  BY <1>1, PoolInvariant, PTL
=============================================================================
