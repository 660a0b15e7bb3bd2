-------------------------- MODULE SelectionProofs ---------------------------
(***************************************************************************)
(* Proofs about best-path selection, for any candidates and metrics: the   *)
(* winner of the groups by neighbouring AS is the route that RFC 4271's    *)
(* elimination leaves, and through every handler of Rib the best route is  *)
(* that of the current candidates.                                         *)
(***************************************************************************)
EXTENDS RibProofs, FiniteSetTheorems

-----------------------------------------------------------------------------
(* Numbers, and the length of a path.                                      *)

LEMMA LeastOf ==
  ASSUME NEW S \in SUBSET Nat, S # {}
  PROVE  \E m \in S : \A y \in S : m <= y
<1> DEFINE R == OpToRel(<, Nat)
<1>1. IsWellFoundedOn(R, Nat)
  BY NatLessThanWellFounded, Zenon
<1>2. \A x, y \in Nat : x < y => <<x, y>> \in R
  BY DEF OpToRel
<1> HIDE DEF R
<1>3. PICK m \in S : \A y \in S : ~(<<y, m>> \in R)
  BY <1>1, WFMin, Zenon
<1>4. \A y \in S : ~(y < m)
  BY <1>2, <1>3, Zenon
<1>q. QED BY <1>4

LEMMA GreatestOf ==
  ASSUME NEW S \in SUBSET Nat, S # {}, NEW k \in Nat, \A s \in S : s <= k
  PROVE  \E m \in S : \A y \in S : y <= m
<1> DEFINE T == {x \in Nat : \E s \in S : x = k - s}
<1>1. T \in SUBSET Nat /\ T # {}
  <2>1. PICK s \in S : TRUE
    BY Zenon
  <2>2. k - s \in T
    BY <2>1
  <2>q. QED BY <2>2, Zenon
<1>2. PICK t \in T : \A y \in T : t <= y
  BY <1>1, LeastOf, Zenon
<1>3. PICK m \in S : t = k - m
  BY <1>2
<1>4. ASSUME NEW y \in S PROVE y <= m
  <2>1. k - y \in T
    OBVIOUS
  <2>2. t <= k - y
    BY <1>2, <2>1, Zenon
  <2>q. QED BY <1>3, <2>2
<1>q. QED BY <1>3, <1>4

\* What PathLength counts.
Crossed(path) == UNION {{i} \X (1..SegmentLength(path[i])) : i \in DOMAIN path}

LEMMA SegmentLengthIs ==
  ASSUME NEW seg \in Segment
  PROVE  SegmentLength(seg) \in Nat /\ (IsConfed(seg) => SegmentLength(seg) = 0)
BY DEF Segment, SegmentKinds, SegmentLength, IsConfed

LEMMA CrossedFinite ==
  ASSUME NEW path \in Seq(Segment)
  PROVE  IsFiniteSet(Crossed(path))
<1> DEFINE D == 1..Len(path)
           F == [i \in D |-> {i} \X (1..SegmentLength(path[i]))]
           T == {F[i] : i \in D}
<1>1. D = DOMAIN path /\ IsFiniteSet(D)
  BY FS_Interval
<1>2. F \in Surjection(D, T)
  BY Zenon DEF Surjection
<1>3. IsFiniteSet(T)
  <2> HIDE DEF F, T, D
  <2>q. QED BY <1>1, <1>2, FS_Surjection
<1>4. ASSUME NEW i \in D PROVE IsFiniteSet(F[i])
  <2>1. SegmentLength(path[i]) \in Nat
    <3>1. path[i] \in Segment
      OBVIOUS
    <3>q. QED BY <3>1, SegmentLengthIs, Zenon
  <2>2. IsFiniteSet(1..SegmentLength(path[i]))
    BY <2>1, FS_Interval
  <2>3. IsFiniteSet({i})
    BY FS_Singleton, Zenon
  <2>q. QED BY <2>2, <2>3, FS_Product, Zenon
<1>5. \A t \in T : IsFiniteSet(t)
  BY <1>4
<1>6. Crossed(path) = UNION T
  BY <1>1 DEF Crossed
<1> HIDE DEF T
<1>q. QED BY <1>3, <1>5, <1>6, FS_UNION

-----------------------------------------------------------------------------
(* Best-path selection. The winner of the groups by neighbouring AS is the *)
(* route that the elimination of RFC 4271 section 9.1.2.2 leaves.          *)

\* A route whose attributes can be compared, to a next hop that is reachable.
Rated(a, m) ==
  /\ a.stale \in BOOLEAN /\ a.path \in Seq(Segment) /\ a.origin \in Nat /\ a.age \in Nat
  /\ a.pref \in Nat \cup {None} /\ a.med \in Nat \cup {None}
  /\ a.src \in Sources
  /\ m[a.nh] \in Nat /\ m[a.nh] # None

\* What prefer compares, and the elimination.
Pref(a) == OrElse(a.pref, 100)
Med(a) == OrElse(a.med, 0)
Age(a) == IF Rank(a.src) = 1 THEN a.age ELSE 0
Id(a) == IF a.src = Local THEN 0 ELSE BgpId[a.src]

LEMMA RatedFields ==
  ASSUME NEW m, NEW a, Rated(a, m)
  PROVE  /\ Bit(a.stale) \in Nat /\ Pref(a) \in Nat /\ PathLength(a.path) \in Nat
         /\ a.origin \in Nat /\ Med(a) \in Nat
         /\ Rank(a.src) \in 0..2 /\ (Rank(a.src) = 2 <=> a.src = Local)
         /\ m[a.nh] \in Nat /\ m[a.nh] # None
         /\ Age(a) \in Nat /\ Id(a) \in Nat /\ Address[a.src] \in Nat
<1>1. PathLength(a.path) \in Nat
  <2>1. IsFiniteSet(Crossed(a.path))
    BY CrossedFinite DEF Rated
  <2>q. QED BY <2>1, FS_CardinalityType DEF PathLength, Crossed
<1>2. Bit(a.stale) \in Nat /\ Pref(a) \in Nat /\ Med(a) \in Nat /\ a.origin \in Nat
  BY DEF Rated, Bit, Pref, Med, OrElse
<1>3. Rank(a.src) \in 0..2 /\ (Rank(a.src) = 2 <=> a.src = Local)
  BY DEF Rank
<1>4. Id(a) \in Nat /\ Address[a.src] \in Nat
  BY BestPathAssumption DEF Rated, Id, Sources
<1>5. Age(a) \in Nat
  BY DEF Rated, Age
<1>q. QED BY <1>1, <1>2, <1>3, <1>4, <1>5 DEF Rated

\* The steps before the MED decide for a; none of them decides.
Fore(a, b) ==
  \/ Bit(a.stale) < Bit(b.stale)
  \/ /\ Bit(a.stale) = Bit(b.stale)
     /\ \/ Pref(a) > Pref(b)
        \/ /\ Pref(a) = Pref(b)
           /\ \/ PathLength(a.path) < PathLength(b.path)
              \/ PathLength(a.path) = PathLength(b.path) /\ a.origin < b.origin
Even(a, b) ==
  /\ Bit(a.stale) = Bit(b.stale) /\ Pref(a) = Pref(b)
  /\ PathLength(a.path) = PathLength(b.path) /\ a.origin = b.origin

\* The steps after the MED decide for a.
Rear(a, b, m) ==
  \/ Rank(a.src) > Rank(b.src)
  \/ /\ Rank(a.src) = Rank(b.src)
     /\ \/ m[a.nh] < m[b.nh]
        \/ /\ m[a.nh] = m[b.nh]
           /\ \/ Age(a) < Age(b)
              \/ /\ Age(a) = Age(b)
                 /\ \/ Id(a) < Id(b)
                    \/ Id(a) = Id(b) /\ Address[a.src] < Address[b.src]

\* The first step that is not a draw.
LEMMA FirstDecides ==
  ASSUME NEW s \in [1..10 -> Int]
  PROVE  (\E i \in DOMAIN s : s[i] > 0 /\ \A j \in 1..(i - 1) : s[j] = 0) <=>
         \/ s[1] > 0
         \/ s[1] = 0 /\ s[2] > 0
         \/ s[1] = 0 /\ s[2] = 0 /\ s[3] > 0
         \/ s[1] = 0 /\ s[2] = 0 /\ s[3] = 0 /\ s[4] > 0
         \/ s[1] = 0 /\ s[2] = 0 /\ s[3] = 0 /\ s[4] = 0 /\
            \/ s[5] > 0
            \/ s[5] = 0 /\ s[6] > 0
            \/ s[5] = 0 /\ s[6] = 0 /\ s[7] > 0
            \/ s[5] = 0 /\ s[6] = 0 /\ s[7] = 0 /\ s[8] > 0
            \/ s[5] = 0 /\ s[6] = 0 /\ s[7] = 0 /\ s[8] = 0 /\ s[9] > 0
            \/ s[5] = 0 /\ s[6] = 0 /\ s[7] = 0 /\ s[8] = 0 /\ s[9] = 0 /\ s[10] > 0
<1> DEFINE D(i) == s[i] > 0 /\ \A j \in 1..(i - 1) : s[j] = 0
<1>1. (\E i \in DOMAIN s : D(i)) <=>
        D(1) \/ D(2) \/ D(3) \/ D(4) \/ D(5) \/ D(6) \/ D(7) \/ D(8) \/ D(9) \/ D(10)
  <2> HIDE DEF D
  <2>1. \A i \in DOMAIN s : i = 1 \/ i = 2 \/ i = 3 \/ i = 4 \/ i = 5 \/ i = 6 \/ i = 7
                            \/ i = 8 \/ i = 9 \/ i = 10
    OBVIOUS
  <2>q. QED BY <2>1
<1>2. /\ D(1) <=> s[1] > 0
      /\ D(2) <=> s[1] = 0 /\ s[2] > 0
      /\ D(3) <=> s[1] = 0 /\ s[2] = 0 /\ s[3] > 0
      /\ D(4) <=> s[1] = 0 /\ s[2] = 0 /\ s[3] = 0 /\ s[4] > 0
  OBVIOUS
<1>3. /\ D(5) <=> s[1] = 0 /\ s[2] = 0 /\ s[3] = 0 /\ s[4] = 0 /\ s[5] > 0
      /\ D(6) <=> s[1] = 0 /\ s[2] = 0 /\ s[3] = 0 /\ s[4] = 0 /\ s[5] = 0 /\ s[6] > 0
      /\ D(7) <=> s[1] = 0 /\ s[2] = 0 /\ s[3] = 0 /\ s[4] = 0 /\ s[5] = 0 /\ s[6] = 0
                  /\ s[7] > 0
  OBVIOUS
<1>4. /\ D(8) <=> s[1] = 0 /\ s[2] = 0 /\ s[3] = 0 /\ s[4] = 0 /\ s[5] = 0 /\ s[6] = 0
                  /\ s[7] = 0 /\ s[8] > 0
      /\ D(9) <=> s[1] = 0 /\ s[2] = 0 /\ s[3] = 0 /\ s[4] = 0 /\ s[5] = 0 /\ s[6] = 0
                  /\ s[7] = 0 /\ s[8] = 0 /\ s[9] > 0
      /\ D(10) <=> s[1] = 0 /\ s[2] = 0 /\ s[3] = 0 /\ s[4] = 0 /\ s[5] = 0 /\ s[6] = 0
                   /\ s[7] = 0 /\ s[8] = 0 /\ s[9] = 0 /\ s[10] > 0
  OBVIOUS
<1> HIDE DEF D
<1>q. QED BY <1>1, <1>2, <1>3, <1>4 DEF D

LEMMA DifferenceIs ==
  ASSUME NEW x \in Nat, NEW y \in Nat, NEW d, d = y - x
  PROVE  (d > 0 <=> x < y) /\ (d = 0 <=> x = y)
OBVIOUS

\* prefer, in three parts.
LEMMA PreferIs ==
  ASSUME NEW m, NEW a, NEW b, Rated(a, m), Rated(b, m)
  PROVE  Prefer(a, b, m) <=>
           \/ Fore(a, b)
           \/ /\ Even(a, b)
              /\ \/ SameNeighbor(a, b) /\ Med(a) < Med(b)
                 \/ (SameNeighbor(a, b) => Med(a) = Med(b)) /\ Rear(a, b, m)
<1>1. PICK s : s = Steps(a, b, m)
  OBVIOUS
<1>2. /\ Bit(a.stale) \in Nat /\ Pref(a) \in Nat /\ PathLength(a.path) \in Nat
      /\ a.origin \in Nat /\ Med(a) \in Nat /\ Rank(a.src) \in 0..2
      /\ m[a.nh] \in Nat /\ m[a.nh] # None
      /\ Age(a) \in Nat /\ Id(a) \in Nat /\ Address[a.src] \in Nat
  BY RatedFields
<1>3. /\ Bit(b.stale) \in Nat /\ Pref(b) \in Nat /\ PathLength(b.path) \in Nat
      /\ b.origin \in Nat /\ Med(b) \in Nat /\ Rank(b.src) \in 0..2
      /\ m[b.nh] \in Nat /\ m[b.nh] # None
      /\ Age(b) \in Nat /\ Id(b) \in Nat /\ Address[b.src] \in Nat
  BY RatedFields
<1>4. a.age \in Nat /\ b.age \in Nat
  BY DEF Rated
<1>5. /\ Local \notin {a.src, b.src} => BgpId[a.src] = Id(a) /\ BgpId[b.src] = Id(b)
  BY DEF Id
<1>6. PICK e8, e9 : /\ e8 = IF Rank(a.src) = 1 THEN b.age - a.age ELSE 0
                    /\ e9 = IF Local \in {a.src, b.src} THEN 0 ELSE BgpId[b.src] - BgpId[a.src]
  OBVIOUS
<1>7. s = << Bit(b.stale) - Bit(a.stale), Pref(a) - Pref(b),
             PathLength(b.path) - PathLength(a.path), b.origin - a.origin,
             IF SameNeighbor(a, b) THEN Med(b) - Med(a) ELSE 0,
             Rank(a.src) - Rank(b.src), m[b.nh] - m[a.nh], e8, e9,
             Address[b.src] - Address[a.src] >>
  BY <1>1, <1>2, <1>3, <1>6 DEF Steps, Pref, Med
<1>8. e8 \in Int /\ e9 \in Int
  BY <1>2, <1>3, <1>4, <1>5, <1>6
<1>9. s \in [1..10 -> Int]
  BY <1>2, <1>3, <1>7, <1>8
<1>10. Rank(a.src) = Rank(b.src) => e8 = Age(b) - Age(a) /\ e9 = Id(b) - Id(a)
  <2>1. Rank(a.src) = Rank(b.src) => e8 = Age(b) - Age(a)
    BY <1>6 DEF Age
  <2>2. Rank(a.src) = Rank(b.src) => (a.src = Local <=> b.src = Local)
    BY RatedFields
  <2>3. Rank(a.src) = Rank(b.src) => e9 = Id(b) - Id(a)
    BY <1>6, <2>2 DEF Id
  <2>q. QED BY <2>1, <2>3
<1>11. Prefer(a, b, m) <=> \E i \in DOMAIN s : s[i] > 0 /\ \A j \in 1..(i - 1) : s[j] = 0
  BY <1>1 DEF Prefer
<1>12. /\ s[1] = Bit(b.stale) - Bit(a.stale) /\ s[2] = Pref(a) - Pref(b)
       /\ s[3] = PathLength(b.path) - PathLength(a.path) /\ s[4] = b.origin - a.origin
       /\ s[5] = IF SameNeighbor(a, b) THEN Med(b) - Med(a) ELSE 0
       /\ s[6] = Rank(a.src) - Rank(b.src) /\ s[7] = m[b.nh] - m[a.nh]
       /\ s[8] = e8 /\ s[9] = e9 /\ s[10] = Address[b.src] - Address[a.src]
  BY <1>7
<1>13. Fore(a, b) <=> \/ s[1] > 0
                      \/ s[1] = 0 /\ s[2] > 0
                      \/ s[1] = 0 /\ s[2] = 0 /\ s[3] > 0
                      \/ s[1] = 0 /\ s[2] = 0 /\ s[3] = 0 /\ s[4] > 0
  <2>1. /\ (s[1] > 0 <=> Bit(a.stale) < Bit(b.stale)) /\ (s[1] = 0 <=> Bit(a.stale) = Bit(b.stale))
        /\ (s[2] > 0 <=> Pref(b) < Pref(a)) /\ (s[2] = 0 <=> Pref(b) = Pref(a))
        /\ s[3] > 0 <=> PathLength(a.path) < PathLength(b.path)
        /\ s[3] = 0 <=> PathLength(a.path) = PathLength(b.path)
        /\ s[4] > 0 <=> a.origin < b.origin
    BY <1>2, <1>3, <1>12, DifferenceIs, SMTT(40), ZenonT(40)
  <2>2. Pref(a) > Pref(b) <=> Pref(b) < Pref(a)
    BY <1>2, <1>3
  <2>q. QED BY Zenon, <2>1, <2>2 DEF Fore
<1>14. Even(a, b) <=> s[1] = 0 /\ s[2] = 0 /\ s[3] = 0 /\ s[4] = 0
  <2>1. /\ s[1] = 0 <=> Bit(a.stale) = Bit(b.stale)
        /\ s[2] = 0 <=> Pref(b) = Pref(a)
        /\ s[3] = 0 <=> PathLength(a.path) = PathLength(b.path)
        /\ s[4] = 0 <=> a.origin = b.origin
    BY <1>2, <1>3, <1>12, DifferenceIs, SMTT(40)
  <2>q. QED BY Zenon, <2>1 DEF Even
<1>15. /\ SameNeighbor(a, b) /\ Med(a) < Med(b) <=> s[5] > 0
       /\ (SameNeighbor(a, b) => Med(a) = Med(b)) <=> s[5] = 0
  BY <1>2, <1>3, <1>12
<1>16. Rear(a, b, m) <=> \/ s[6] > 0
                         \/ s[6] = 0 /\ s[7] > 0
                         \/ s[6] = 0 /\ s[7] = 0 /\ s[8] > 0
                         \/ s[6] = 0 /\ s[7] = 0 /\ s[8] = 0 /\ s[9] > 0
                         \/ s[6] = 0 /\ s[7] = 0 /\ s[8] = 0 /\ s[9] = 0 /\ s[10] > 0
  <2>1. CASE s[6] = 0
    <3>1. Rank(a.src) = Rank(b.src) /\ s[8] = Age(b) - Age(a) /\ s[9] = Id(b) - Id(a)
      BY <1>2, <1>3, <1>10, <1>12, <2>1
    <3>2. /\ (s[7] > 0 <=> m[a.nh] < m[b.nh]) /\ (s[7] = 0 <=> m[a.nh] = m[b.nh])
          /\ (s[8] > 0 <=> Age(a) < Age(b)) /\ (s[8] = 0 <=> Age(a) = Age(b))
          /\ (s[9] > 0 <=> Id(a) < Id(b)) /\ (s[9] = 0 <=> Id(a) = Id(b))
          /\ s[10] > 0 <=> Address[a.src] < Address[b.src]
      <4>1. (s[7] > 0 <=> m[a.nh] < m[b.nh]) /\ (s[7] = 0 <=> m[a.nh] = m[b.nh])
        BY <1>2, <1>3, <1>12, DifferenceIs, SMTT(40)
      <4>2. (s[8] > 0 <=> Age(a) < Age(b)) /\ (s[8] = 0 <=> Age(a) = Age(b))
        BY <1>2, <1>3, <3>1, DifferenceIs
      <4>3. (s[9] > 0 <=> Id(a) < Id(b)) /\ (s[9] = 0 <=> Id(a) = Id(b))
        BY <1>2, <1>3, <3>1, DifferenceIs
      <4>4. s[10] > 0 <=> Address[a.src] < Address[b.src]
        BY <1>2, <1>3, <1>12, DifferenceIs
      <4>q. QED BY <4>1, <4>2, <4>3, <4>4
    <3>3. ~(Rank(a.src) > Rank(b.src)) /\ ~(s[6] > 0)
      BY <1>2, <1>3, <2>1, <3>1
    <3>q. QED BY Zenon, <2>1, <3>1, <3>2, <3>3 DEF Rear
  <2>2. CASE s[6] # 0
    BY <1>2, <1>3, <1>12, <2>2 DEF Rear
  <2>q. QED BY <2>1, <2>2
<1>q. QED BY <1>9, <1>11, <1>13, <1>14, <1>15, <1>16, FirstDecides

\* A set of routes that can be told apart.
Field(R, m) ==
  /\ IsFiniteSet(R)
  /\ \A a \in R : Rated(a, m)
  /\ \A a, b \in R : a.src = b.src => a = b

\* No route of R with the same neighbouring AS has a lower MED.
LowMed(a, R) == \A b \in R : Even(a, b) /\ SameNeighbor(a, b) => Med(a) <= Med(b)

\* What the elimination makes of w, against all of R.
Chosen(w, R, m) ==
  /\ w \in R
  /\ \A b \in R : Fore(w, b) \/ Even(w, b)
  /\ LowMed(w, R)
  /\ \A b \in R \ {w} : Even(w, b) /\ LowMed(b, R) => Rear(w, b, m)

LEMMA LowestOf ==
  ASSUME NEW T, T # {}, NEW f \in [T -> Nat]
  PROVE  \E a \in T : \A b \in T : f[a] <= f[b]
<1> DEFINE V == {f[a] : a \in T}
<1>1. V \in SUBSET Nat /\ V # {}
  OBVIOUS
<1>2. PICK v \in V : \A y \in V : v <= y
  BY <1>1, LeastOf, Zenon
<1>3. PICK a \in T : v = f[a]
  BY <1>2
<1>q. QED BY <1>2, <1>3

LEMMA FiniteIsBounded ==
  ASSUME NEW V \in SUBSET Nat, IsFiniteSet(V)
  PROVE  \E k \in Nat : \A v \in V : v <= k
<1>1. PICK n \in Nat : ExistsSurjection(1..n, V)
  BY FS_NatSurjection
<1>2. PICK g \in Surjection(1..n, V) : TRUE
  BY <1>1 DEF ExistsSurjection
<1>3. g \in [1..n -> V] /\ \A v \in V : \E i \in 1..n : g[i] = v
  BY <1>2 DEF Surjection
<1>4. \A j \in 1..n : g[j] \in Nat
  BY <1>3, Zenon
<1> DEFINE Above(i, k) == \E j \in 1..i : g[j] > k
           Unbounded == {i \in 0..n : \A k \in Nat : Above(i, k)}
<1>5. Unbounded = {}
  <2>1. SUFFICES ASSUME Unbounded # {} PROVE FALSE
    BY Zenon
  <2>2. PICK i \in Unbounded : \A j \in Unbounded : i <= j
    <3>1. Unbounded \in SUBSET Nat
      OBVIOUS
    <3> HIDE DEF Unbounded
    <3>q. QED BY <2>1, <3>1, LeastOf
  <2>3. i \in 0..n /\ \A k \in Nat : Above(i, k)
    BY <2>2
  <2>4. Above(i, 0)
    BY <2>3, Zenon
  <2>5. i \in 1..n
    BY <2>3, <2>4
  <2>6. i - 1 \in 0..n /\ i - 1 \notin Unbounded
    <3> HIDE DEF Unbounded
    <3>q. QED BY <2>2, <2>5
  <2>7. PICK k \in Nat : ~Above(i - 1, k)
    <3> HIDE DEF Above
    <3>q. QED BY <2>6
  <2>8. PICK x : x = g[i]
    BY Zenon
  <2>9. x \in Nat
    BY <1>4, <2>5, <2>8
  <2>10. PICK k2 \in Nat : k <= k2 /\ x <= k2
    <3>1. k \in Nat
      BY <2>7
    <3>2. \/ k <= k /\ x <= k
          \/ k <= x /\ x <= x
      BY <2>9, <3>1
    <3> HIDE DEF Unbounded, Above
    <3>q. QED BY <2>9, <3>1, <3>2
  <2>11. Above(i, k2)
    BY <2>3, Zenon
  <2>12. PICK j \in 1..i : g[j] > k2
    BY <2>11, Zenon
  <2>13. PICK y : y = g[j]
    BY Zenon
  <2>14. j \in 1..n
    BY <2>5, <2>12
  <2>15. y \in Nat /\ y > k2
    BY <1>4, <2>12, <2>13, <2>14, Zenon
  <2>16. y > k /\ ~(y <= x)
    <3> HIDE DEF Unbounded, Above
    <3>q. QED BY <2>7, <2>9, <2>10, <2>15
  <2>17. j # i
    <3>1. x <= x
      BY <2>9
    <3>q. QED BY Zenon, <2>8, <2>13, <2>16, <3>1
  <2>18. j \in 1..(i - 1)
    <3> HIDE DEF Unbounded, Above
    <3>q. QED BY <2>5, <2>12, <2>17
  <2>19. Above(i - 1, k)
    BY Zenon, <2>13, <2>16, <2>18
  <2>q. QED BY Zenon, <2>7, <2>19
<1>6. PICK k \in Nat : ~Above(n, k)
  <2>1. n \in 0..n
    BY <1>1
  <2>2. n \notin Unbounded
    BY Zenon, <1>5
  <2> HIDE DEF Above
  <2>q. QED BY <2>1, <2>2
<1>7. ASSUME NEW v \in V PROVE v <= k
  <2>1. PICK j \in 1..n : g[j] = v
    BY <1>3
  <2>2. ~(g[j] > k)
    BY <1>6, <2>1
  <2>q. QED BY <2>1, <2>2
<1> HIDE DEF Above, Unbounded
<1>q. QED BY <1>6, <1>7, Zenon

LEMMA HighestOf ==
  ASSUME NEW T, T # {}, IsFiniteSet(T), NEW f \in [T -> Nat]
  PROVE  \E a \in T : \A b \in T : f[b] <= f[a]
<1> DEFINE V == {f[a] : a \in T}
<1>1. V \in SUBSET Nat /\ V # {}
  OBVIOUS
<1>2. f \in Surjection(T, V)
  BY DEF Surjection
<1>3. IsFiniteSet(V)
  <2> HIDE DEF V
  <2>q. QED BY <1>2, FS_Surjection
<1>4. PICK k \in Nat : \A v \in V : v <= k
  <2> HIDE DEF V
  <2>q. QED BY <1>1, <1>3, FiniteIsBounded
<1>5. PICK v \in V : \A y \in V : y <= v
  <2> HIDE DEF V
  <2>q. QED BY <1>1, <1>4, GreatestOf, Zenon
<1>6. PICK a \in T : v = f[a]
  BY <1>5
<1>q. QED BY <1>5, <1>6

\* One round of the elimination keeps the routes with the lowest rating f.
Round(T, U, f) ==
  /\ f \in [T -> Nat]
  /\ U = {a \in T : \A b \in T : f[a] <= f[b]}

LEMMA RoundKeeps ==
  ASSUME NEW T, NEW U, NEW f, Round(T, U, f)
  PROVE  /\ U \subseteq T
         /\ T # {} => U # {}
         /\ \A a \in U, b \in T : f[a] < f[b] \/ (f[a] = f[b] /\ b \in U)
<1>1. U \subseteq T
  BY DEF Round
<1>2. T # {} => U # {}
  BY LowestOf DEF Round
<1>3. ASSUME NEW a \in U, NEW b \in T PROVE f[a] < f[b] \/ (f[a] = f[b] /\ b \in U)
  <2>1. f[a] \in Nat /\ f[b] \in Nat /\ f[a] <= f[b]
    BY <1>1 DEF Round
  <2>2. CASE f[a] = f[b]
    <3>1. \A c \in T : f[b] <= f[c]
      BY <2>2 DEF Round
    <3>q. QED BY <2>2, <3>1 DEF Round
  <2>q. QED BY <2>1, <2>2
<1>q. QED BY <1>1, <1>2, <1>3

\* The rounds of the elimination before and after the MED.
Leading(R) ==
  LET fresh == Unbeaten(R, LAMBDA a, b : ~a.stale /\ b.stale)
      liked == Unbeaten(fresh, LAMBDA a, b : OrElse(a.pref, 100) > OrElse(b.pref, 100))
      short == Unbeaten(liked, LAMBDA a, b : PathLength(a.path) < PathLength(b.path))
  IN  Unbeaten(short, LAMBDA a, b : a.origin < b.origin)

ByMed(T) ==
  Unbeaten(T, LAMBDA a, b : SameNeighbor(a, b) /\ OrElse(a.med, 0) < OrElse(b.med, 0))

Closing(T, m) ==
  LET outer == Unbeaten(T, LAMBDA a, b : Rank(a.src) > Rank(b.src))
      near  == Unbeaten(outer, LAMBDA a, b : m[a.nh] < m[b.nh])
      old   == Unbeaten(near, LAMBDA a, b : Rank(a.src) = 1 /\ a.age < b.age)
      id    == Unbeaten(old, LAMBDA a, b :
                 Local \notin {a.src, b.src} /\ BgpId[a.src] < BgpId[b.src])
  IN  Unbeaten(id, LAMBDA a, b : Address[a.src] < Address[b.src])

LEMMA MostPreferredIs ==
  ASSUME NEW S, NEW m
  PROVE  MostPreferred(S, m) = Closing(ByMed(Leading(Reachable(S, m))), m)
BY DEF MostPreferred, Closing, ByMed, Leading

\* What the rounds after the MED leave.
LEMMA RearRounds ==
  ASSUME NEW m, NEW T, T # {}, \A a \in T : Rated(a, m),
         \A a, b \in T : a.src = b.src => a = b
  PROVE  \E w \in T : Closing(T, m) = {w} /\ \A b \in T \ {w} : Rear(w, b, m)
<1> DEFINE outer == Unbeaten(T, LAMBDA a, b : Rank(a.src) > Rank(b.src))
           near  == Unbeaten(outer, LAMBDA a, b : m[a.nh] < m[b.nh])
           old   == Unbeaten(near, LAMBDA a, b : Rank(a.src) = 1 /\ a.age < b.age)
           id    == Unbeaten(old, LAMBDA a, b :
                      Local \notin {a.src, b.src} /\ BgpId[a.src] < BgpId[b.src])
           last  == Unbeaten(id, LAMBDA a, b : Address[a.src] < Address[b.src])
<1>0. \A a \in T : /\ Rank(a.src) \in 0..2 /\ (Rank(a.src) = 2 <=> a.src = Local)
                   /\ m[a.nh] \in Nat /\ a.age \in Nat
                   /\ Age(a) \in Nat /\ Id(a) \in Nat /\ Address[a.src] \in Nat
  BY RatedFields, ZenonT(40) DEF Rated
<1>1. PICK f1 : f1 = [a \in T |-> 2 - Rank(a.src)]
  BY Zenon
<1>2. Round(T, outer, f1)
  <2>1. f1 \in [T -> Nat]
    BY <1>0, <1>1
  <2>2. outer = {a \in T : \A b \in T : ~(Rank(b.src) > Rank(a.src))}
    BY DEF Unbeaten
  <2>3. \A a, b \in T : ~(Rank(b.src) > Rank(a.src)) <=> f1[a] <= f1[b]
    BY <1>0, <1>1
  <2> HIDE DEF outer
  <2>q. QED BY <2>1, <2>2, <2>3 DEF Round
<1>3. /\ outer \subseteq T /\ outer # {}
      /\ \A a \in outer, b \in T : Rank(a.src) > Rank(b.src) \/ (Rank(a.src) = Rank(b.src) /\ b \in outer)
  <2> HIDE DEF outer
  <2>1. /\ outer \subseteq T /\ outer # {}
        /\ \A a \in outer, b \in T : f1[a] < f1[b] \/ (f1[a] = f1[b] /\ b \in outer)
    BY <1>2, RoundKeeps
  <2>2. \A a \in T, b \in T : /\ f1[a] < f1[b] => Rank(a.src) > Rank(b.src)
                              /\ f1[a] = f1[b] => Rank(a.src) = Rank(b.src)
    BY <1>0, <1>1
  <2>3. ASSUME NEW a \in outer, NEW b \in T
        PROVE  Rank(a.src) > Rank(b.src) \/ (Rank(a.src) = Rank(b.src) /\ b \in outer)
    <3>1. a \in T /\ (f1[a] < f1[b] \/ (f1[a] = f1[b] /\ b \in outer))
      BY Zenon, <2>1, <2>3
    <3>q. QED BY <2>2, <2>3, <3>1
  <2>q. QED BY Zenon, <2>1, <2>3
<1>4. PICK f2 : f2 = [a \in outer |-> m[a.nh]]
  BY Zenon
<1> HIDE DEF outer
<1>5. Round(outer, near, f2)
  <2>1. f2 \in [outer -> Nat]
    BY <1>0, <1>3, <1>4
  <2>2. near = {a \in outer : \A b \in outer : ~(m[b.nh] < m[a.nh])}
    BY DEF Unbeaten
  <2>3. \A a, b \in outer : ~(m[b.nh] < m[a.nh]) <=> f2[a] <= f2[b]
    BY <1>0, <1>3, <1>4
  <2> HIDE DEF near
  <2>q. QED BY <2>1, <2>2, <2>3 DEF Round
<1>6. /\ near \subseteq outer /\ near # {}
      /\ \A a \in near, b \in outer : m[a.nh] < m[b.nh] \/ (m[a.nh] = m[b.nh] /\ b \in near)
  <2> HIDE DEF near
  <2>q. QED BY <1>3, <1>4, <1>5, RoundKeeps
<1> HIDE DEF near
<1>7. PICK f3 : f3 = [a \in near |-> Age(a)]
  BY Zenon
<1>8. \A a, b \in near : Rank(a.src) = Rank(b.src)
  BY <1>0, <1>3, <1>6
<1>9. Round(near, old, f3)
  <2>1. f3 \in [near -> Nat]
    BY <1>0, <1>3, <1>6, <1>7
  <2>2. old = {a \in near : \A b \in near : ~(Rank(b.src) = 1 /\ b.age < a.age)}
    BY DEF Unbeaten
  <2>3. \A a, b \in near : ~(Rank(b.src) = 1 /\ b.age < a.age) <=> f3[a] <= f3[b]
    BY <1>0, <1>3, <1>6, <1>7, <1>8 DEF Age
  <2> HIDE DEF old
  <2>q. QED BY <2>1, <2>2, <2>3 DEF Round
<1>10. /\ old \subseteq near /\ old # {}
       /\ \A a \in old, b \in near : Age(a) < Age(b) \/ (Age(a) = Age(b) /\ b \in old)
  <2> HIDE DEF old
  <2>q. QED BY <1>6, <1>7, <1>9, RoundKeeps
<1> HIDE DEF old
<1>11. PICK f4 : f4 = [a \in old |-> Id(a)]
  BY Zenon
<1>12. Round(old, id, f4)
  <2>1. f4 \in [old -> Nat]
    BY <1>0, <1>3, <1>6, <1>10, <1>11
  <2>2. id = {a \in old : \A b \in old :
                ~(Local \notin {b.src, a.src} /\ BgpId[b.src] < BgpId[a.src])}
    BY DEF Unbeaten
  <2>3. ASSUME NEW a \in old, NEW b \in old
        PROVE  ~(Local \notin {b.src, a.src} /\ BgpId[b.src] < BgpId[a.src]) <=> f4[a] <= f4[b]
    <3>1. a.src = Local <=> b.src = Local
      BY <1>0, <1>3, <1>6, <1>8, <1>10
    <3>2. f4[a] = Id(a) /\ f4[b] = Id(b) /\ Id(a) \in Nat /\ Id(b) \in Nat
      BY <1>0, <1>3, <1>6, <1>10, <1>11, SMTT(40), ZenonT(40)
    <3>q. QED BY <3>1, <3>2 DEF Id
  <2> HIDE DEF id
  <2>q. QED BY <2>1, <2>2, <2>3, SMTT(40), ZenonT(40) DEF Round
<1>13. /\ id \subseteq old /\ id # {}
       /\ \A a \in id, b \in old : Id(a) < Id(b) \/ (Id(a) = Id(b) /\ b \in id)
  <2> HIDE DEF id
  <2>q. QED BY <1>10, <1>11, <1>12, RoundKeeps
<1> HIDE DEF id
<1>14. PICK f5 : f5 = [a \in id |-> Address[a.src]]
  BY Zenon
<1>15. Round(id, last, f5)
  <2>1. f5 \in [id -> Nat]
    BY <1>0, <1>3, <1>6, <1>10, <1>13, <1>14
  <2>2. last = {a \in id : \A b \in id : ~(Address[b.src] < Address[a.src])}
    BY DEF Unbeaten
  <2>3. \A a, b \in id : ~(Address[b.src] < Address[a.src]) <=> f5[a] <= f5[b]
    BY <1>0, <1>3, <1>6, <1>10, <1>13, <1>14
  <2> HIDE DEF last
  <2>q. QED BY <2>1, <2>2, <2>3 DEF Round
<1>16. /\ last \subseteq id /\ last # {}
       /\ \A a \in last, b \in id : Address[a.src] < Address[b.src] \/ Address[a.src] = Address[b.src]
  <2> HIDE DEF last
  <2>q. QED BY <1>13, <1>14, <1>15, RoundKeeps
<1> HIDE DEF last
<1>17. \A a, b \in T : Address[a.src] = Address[b.src] => a = b
  BY BestPathAssumption DEF Rated, Sources
<1>18. PICK w \in last : TRUE
  BY <1>16
<1>19. w \in id /\ w \in old /\ w \in near /\ w \in outer /\ w \in T
  BY <1>3, <1>6, <1>10, <1>13, <1>16, <1>18
<1>20. ASSUME NEW u \in last PROVE u = w
  <2>1. u \in id /\ u \in T
    BY <1>3, <1>6, <1>10, <1>13, <1>16
  <2>2. Address[u.src] \in Nat /\ Address[w.src] \in Nat
    BY <1>0, <1>19, <2>1
  <2>3. Address[u.src] = Address[w.src]
    BY <1>16, <1>18, <1>19, <2>1, <2>2
  <2>q. QED BY <1>17, <1>19, <2>1, <2>3
<1>21. last = {w}
  BY <1>18, <1>20
<1>22. ASSUME NEW b \in T, b # w PROVE Rear(w, b, m)
  <2>1. CASE b \notin outer
    BY <1>3, <1>19, <2>1 DEF Rear
  <2>2. CASE b \in outer /\ b \notin near
    BY <1>3, <1>6, <1>19, <2>2 DEF Rear
  <2>3. CASE b \in near /\ b \notin old
    BY <1>6, <1>8, <1>10, <1>19, <2>3 DEF Rear
  <2>4. CASE b \in old /\ b \notin id
    BY <1>6, <1>8, <1>10, <1>13, <1>19, <2>4 DEF Rear
  <2>5. CASE b \in id
    <3>1. Address[w.src] < Address[b.src]
      BY <1>16, <1>17, <1>18, <1>19, <1>22, <2>5
    <3>q. QED BY <1>6, <1>8, <1>10, <1>13, <1>19, <2>5, <3>1 DEF Rear
  <2>q. QED BY <1>6, <1>10, <1>13, <2>1, <2>2, <2>3, <2>4, <2>5, SMTT(40), ZenonT(40)
<1>23. Closing(T, m) = {w}
  BY <1>21, Zenon DEF Closing, last, id, old, near, outer
<1>q. QED BY <1>19, <1>22, <1>23

LEMMA ForeOrEven ==
  ASSUME NEW m, NEW a, NEW b, Rated(a, m), Rated(b, m)
  PROVE  /\ Fore(a, b) => ~Fore(b, a) /\ ~Even(a, b) /\ ~Even(b, a)
         /\ Even(a, b) <=> Even(b, a)
<1>1. /\ Bit(a.stale) \in Nat /\ Pref(a) \in Nat /\ PathLength(a.path) \in Nat /\ a.origin \in Nat
      /\ Bit(b.stale) \in Nat /\ Pref(b) \in Nat /\ PathLength(b.path) \in Nat /\ b.origin \in Nat
  BY RatedFields
<1>q. QED BY <1>1 DEF Fore, Even

\* What the rounds before the MED leave: nothing of R is ahead of it.
LEMMA ForeRounds ==
  ASSUME NEW m, NEW R, R # {}, Field(R, m)
  PROVE  /\ Leading(R) \subseteq R /\ Leading(R) # {}
         /\ \A a \in Leading(R), b \in R : Fore(a, b) \/ (Even(a, b) /\ b \in Leading(R))
<1> DEFINE fresh == Unbeaten(R, LAMBDA a, b : ~a.stale /\ b.stale)
           liked == Unbeaten(fresh, LAMBDA a, b : OrElse(a.pref, 100) > OrElse(b.pref, 100))
           short == Unbeaten(liked, LAMBDA a, b : PathLength(a.path) < PathLength(b.path))
           first == Unbeaten(short, LAMBDA a, b : a.origin < b.origin)
<1>0. \A a \in R : /\ a.stale \in BOOLEAN /\ Bit(a.stale) \in Nat /\ Pref(a) \in Nat
                   /\ PathLength(a.path) \in Nat /\ a.origin \in Nat
  BY RatedFields, Zenon DEF Field, Rated
<1>1. PICK f1 : f1 = [a \in R |-> Bit(a.stale)]
  BY Zenon
<1>2. Round(R, fresh, f1)
  <2>1. f1 \in [R -> Nat]
    BY <1>0, <1>1
  <2>2. fresh = {a \in R : \A b \in R : ~(~b.stale /\ a.stale)}
    BY DEF Unbeaten
  <2>3. \A a, b \in R : ~(~b.stale /\ a.stale) <=> f1[a] <= f1[b]
    BY <1>0, <1>1 DEF Bit
  <2> HIDE DEF fresh
  <2>q. QED BY <2>1, <2>2, <2>3 DEF Round
<1>3. /\ fresh \subseteq R /\ fresh # {}
      /\ \A a \in fresh, b \in R :
           Bit(a.stale) < Bit(b.stale) \/ (Bit(a.stale) = Bit(b.stale) /\ b \in fresh)
  <2> HIDE DEF fresh
  <2>q. QED BY <1>1, <1>2, RoundKeeps
<1> HIDE DEF fresh
<1>4. PICK h \in fresh : \A a \in fresh : Pref(a) <= Pref(h)
  <2>1. IsFiniteSet(fresh)
    BY <1>3, FS_Subset DEF Field
  <2>2. PICK g : g = [a \in fresh |-> Pref(a)]
    BY Zenon
  <2>3. g \in [fresh -> Nat]
    BY <1>0, <1>3, <2>2
  <2>4. PICK h \in fresh : \A a \in fresh : g[a] <= g[h]
    BY <1>3, <2>1, <2>3, HighestOf
  <2>q. QED BY <2>2, <2>4
<1>5. PICK f2 : f2 = [a \in fresh |-> Pref(h) - Pref(a)]
  BY Zenon
<1>6. \A a \in fresh : Pref(a) \in Nat
  BY <1>0, <1>3
<1>7. Round(fresh, liked, f2)
  <2>1. f2 \in [fresh -> Nat]
    BY <1>4, <1>5, <1>6
  <2>2. liked = {a \in fresh : \A b \in fresh : ~(Pref(b) > Pref(a))}
    BY DEF Unbeaten, Pref
  <2>3. \A a, b \in fresh : ~(Pref(b) > Pref(a)) <=> f2[a] <= f2[b]
    BY <1>4, <1>5, <1>6
  <2> HIDE DEF liked
  <2>q. QED BY <2>1, <2>2, <2>3 DEF Round
<1>8. /\ liked \subseteq fresh /\ liked # {}
      /\ \A a \in liked, b \in fresh : Pref(a) > Pref(b) \/ (Pref(a) = Pref(b) /\ b \in liked)
  <2> HIDE DEF liked
  <2>1. /\ liked \subseteq fresh /\ liked # {}
        /\ \A a \in liked, b \in fresh : f2[a] < f2[b] \/ (f2[a] = f2[b] /\ b \in liked)
    BY <1>3, <1>7, RoundKeeps
  <2>2. \A a, b \in fresh : (f2[a] < f2[b] => Pref(a) > Pref(b)) /\ (f2[a] = f2[b] => Pref(a) = Pref(b))
    BY <1>4, <1>5, <1>6
  <2>3. ASSUME NEW a \in liked, NEW b \in fresh
        PROVE  Pref(a) > Pref(b) \/ (Pref(a) = Pref(b) /\ b \in liked)
    <3>1. a \in fresh /\ (f2[a] < f2[b] \/ (f2[a] = f2[b] /\ b \in liked))
      BY Zenon, <2>1, <2>3
    <3>q. QED BY <2>2, <2>3, <3>1
  <2>q. QED BY Zenon, <2>1, <2>3
<1> HIDE DEF liked
<1>9. PICK f3 : f3 = [a \in liked |-> PathLength(a.path)]
  BY Zenon
<1>10. Round(liked, short, f3)
  <2>1. f3 \in [liked -> Nat]
    BY <1>0, <1>3, <1>8, <1>9
  <2>2. short = {a \in liked : \A b \in liked : ~(PathLength(b.path) < PathLength(a.path))}
    BY DEF Unbeaten
  <2>3. \A a, b \in liked : ~(PathLength(b.path) < PathLength(a.path)) <=> f3[a] <= f3[b]
    BY <1>0, <1>3, <1>8, <1>9, SMTT(40), ZenonT(40)
  <2> HIDE DEF short
  <2>q. QED BY <2>1, <2>2, <2>3 DEF Round
<1>11. /\ short \subseteq liked /\ short # {}
       /\ \A a \in short, b \in liked :
            PathLength(a.path) < PathLength(b.path) \/ (PathLength(a.path) = PathLength(b.path) /\ b \in short)
  <2> HIDE DEF short
  <2>q. QED BY <1>8, <1>9, <1>10, RoundKeeps
<1> HIDE DEF short
<1>12. PICK f4 : f4 = [a \in short |-> a.origin]
  BY Zenon
<1>13. Round(short, first, f4)
  <2>1. f4 \in [short -> Nat]
    BY <1>0, <1>3, <1>8, <1>11, <1>12
  <2>2. first = {a \in short : \A b \in short : ~(b.origin < a.origin)}
    BY DEF Unbeaten
  <2>3. \A a, b \in short : ~(b.origin < a.origin) <=> f4[a] <= f4[b]
    BY <1>0, <1>3, <1>8, <1>11, <1>12
  <2> HIDE DEF first
  <2>q. QED BY <2>1, <2>2, <2>3 DEF Round
<1>14. /\ first \subseteq short /\ first # {}
       /\ \A a \in first, b \in short : a.origin < b.origin \/ (a.origin = b.origin /\ b \in first)
  <2> HIDE DEF first
  <2>q. QED BY <1>11, <1>12, <1>13, RoundKeeps
<1>15. Leading(R) = first
  BY Zenon DEF Leading, first, short, liked, fresh
<1> HIDE DEF first
<1>16. ASSUME NEW a \in first, NEW b \in R PROVE Fore(a, b) \/ (Even(a, b) /\ b \in first)
  <2>1. a \in short /\ a \in liked /\ a \in fresh
    BY <1>8, <1>11, <1>14
  <2>2. CASE b \notin fresh
    BY <1>3, <2>1, <2>2 DEF Fore
  <2>3. CASE b \in fresh /\ b \notin liked
    BY <1>3, <1>8, <2>1, <2>3 DEF Fore
  <2>4. CASE b \in liked /\ b \notin short
    BY <1>3, <1>8, <1>11, <2>1, <2>4 DEF Fore
  <2>5. CASE b \in short
    BY <1>3, <1>8, <1>11, <1>14, <2>1, <2>5 DEF Fore, Even
  <2>q. QED BY <2>2, <2>3, <2>4, <2>5
<1>q. QED BY <1>3, <1>8, <1>11, <1>14, <1>15, <1>16

LEMMA EvenJoins ==
  ASSUME NEW a, NEW b, NEW c, Even(a, b), Even(b, c)
  PROVE  Even(a, c)
BY DEF Even

\* The elimination leaves one route, and what it is.
LEMMA EliminationChooses ==
  ASSUME NEW m, NEW R, R # {}, Field(R, m)
  PROVE  \E w \in R : Closing(ByMed(Leading(R)), m) = {w} /\ Chosen(w, R, m)
<1>1. PICK L, M : L = Leading(R) /\ M = ByMed(L)
  OBVIOUS
<1>2. /\ L \subseteq R /\ L # {}
      /\ \A a \in L, b \in R : Fore(a, b) \/ (Even(a, b) /\ b \in L)
  BY <1>1, ForeRounds
<1>3. \A a \in R : Rated(a, m) /\ Med(a) \in Nat
  BY RatedFields DEF Field
<1>4. M = {a \in L : \A b \in L : ~(SameNeighbor(b, a) /\ Med(b) < Med(a))}
  BY <1>1 DEF ByMed, Unbeaten, Med
<1>5. M # {}
  <2>1. PICK f : f = [a \in L |-> Med(a)]
    BY Zenon
  <2>2. f \in [L -> Nat]
    BY <1>2, <1>3, <2>1
  <2>3. PICK a \in L : \A b \in L : f[a] <= f[b]
    BY <1>2, <2>2, LowestOf
  <2>4. \A b \in L : ~(Med(b) < Med(a))
    BY <1>2, <1>3, <2>1, <2>3
  <2>q. QED BY <1>4, <2>4
<1>6. M \subseteq L /\ M \subseteq R
  BY <1>2, <1>4
<1>7. PICK w \in M : Closing(M, m) = {w} /\ \A b \in M \ {w} : Rear(w, b, m)
  <2>1. (\A a \in M : Rated(a, m)) /\ \A a, b \in M : a.src = b.src => a = b
    BY <1>6 DEF Field
  <2>q. QED BY <1>5, <2>1, RearRounds
<1>8. w \in L /\ w \in R
  BY <1>6, <1>7
<1>9. \A b \in R : Fore(w, b) \/ Even(w, b)
  BY <1>2, <1>8
<1>10. ASSUME NEW b \in R, Even(w, b), SameNeighbor(w, b) PROVE Med(w) <= Med(b)
  <2>1. ~Fore(w, b)
    BY <1>3, <1>8, <1>10, ForeOrEven
  <2>2. b \in L
    BY <1>2, <1>8, <2>1
  <2>3. SameNeighbor(b, w)
    BY <1>10 DEF SameNeighbor
  <2>4. ~(Med(b) < Med(w))
    BY <1>4, <1>7, <2>2, <2>3
  <2>q. QED BY <1>3, <1>8, <2>4
<1>11. ASSUME NEW b \in R \ {w}, Even(w, b), LowMed(b, R) PROVE Rear(w, b, m)
  <2>1. b \in R /\ b # w
    BY <1>11
  <2>2. ~Fore(w, b)
    BY <1>3, <1>8, <1>11, <2>1, ForeOrEven
  <2>3. b \in L
    BY <1>2, <1>8, <2>1, <2>2
  <2>4. ASSUME NEW c \in L, SameNeighbor(c, b) PROVE ~(Med(c) < Med(b))
    <3>1. c \in R
      BY <1>2, <2>4
    <3>2. ~(Fore(b, c) /\ Fore(c, b)) /\ (Even(b, c) <=> Even(c, b)) /\ ~(Fore(b, c) /\ Even(c, b))
      BY <1>3, <2>1, <3>1, ForeOrEven
    <3>3. Even(b, c)
      BY <1>2, <2>1, <2>3, <2>4, <3>1, <3>2
    <3>4. SameNeighbor(b, c)
      BY <2>4 DEF SameNeighbor
    <3>5. Med(b) <= Med(c)
      BY <1>11, <3>1, <3>3, <3>4 DEF LowMed
    <3>q. QED BY <1>3, <2>1, <3>1, <3>5
  <2>5. b \in M
    BY <1>4, <2>3, <2>4
  <2>q. QED BY <1>7, <2>1, <2>5
<1>12. Chosen(w, R, m)
  BY <1>8, <1>9, <1>10, <1>11 DEF Chosen, LowMed
<1>q. QED BY <1>1, <1>7, <1>8, <1>12

LEMMA RearOneWay ==
  ASSUME NEW m, NEW a, NEW b, Rated(a, m), Rated(b, m), Rear(a, b, m)
  PROVE  ~Rear(b, a, m)
<1>1. /\ Rank(a.src) \in Nat /\ m[a.nh] \in Nat /\ Age(a) \in Nat /\ Id(a) \in Nat /\ Address[a.src] \in Nat
      /\ Rank(b.src) \in Nat /\ m[b.nh] \in Nat /\ Age(b) \in Nat /\ Id(b) \in Nat /\ Address[b.src] \in Nat
  BY RatedFields
<1>q. QED BY <1>1 DEF Rear

\* prefer never prefers each of two routes to the other.
LEMMA PreferOneWay ==
  ASSUME NEW m, NEW a, NEW b, Rated(a, m), Rated(b, m), Prefer(a, b, m)
  PROVE  ~Prefer(b, a, m)
<1>1. /\ Fore(a, b) => ~Fore(b, a) /\ ~Even(a, b) /\ ~Even(b, a)
      /\ Fore(b, a) => ~Fore(a, b) /\ ~Even(a, b) /\ ~Even(b, a)
  BY ForeOrEven
<1>2. Rear(a, b, m) => ~Rear(b, a, m)
  BY RearOneWay
<1>3. SameNeighbor(a, b) <=> SameNeighbor(b, a)
  BY DEF SameNeighbor
<1>4. Med(a) \in Nat /\ Med(b) \in Nat
  BY RatedFields
<1>5. /\ ~(Med(a) < Med(b) /\ Med(b) < Med(a)) /\ ~(Med(a) < Med(b) /\ Med(b) = Med(a))
      /\ ~(Med(a) = Med(b) /\ Med(b) < Med(a))
  BY <1>4
<1>6. \/ Fore(a, b)
      \/ /\ Even(a, b)
         /\ \/ SameNeighbor(a, b) /\ Med(a) < Med(b)
            \/ (SameNeighbor(a, b) => Med(a) = Med(b)) /\ Rear(a, b, m)
  BY PreferIs
<1>7. Prefer(b, a, m) <=>
           \/ Fore(b, a)
           \/ /\ Even(b, a)
              /\ \/ SameNeighbor(b, a) /\ Med(b) < Med(a)
                 \/ (SameNeighbor(b, a) => Med(b) = Med(a)) /\ Rear(b, a, m)
  BY PreferIs
<1>q. QED BY Zenon, <1>1, <1>2, <1>3, <1>5, <1>6, <1>7

\* A route preferred to all others is the only outcome of max_by.
LEMMA MaxByIs ==
  ASSUME NEW m, NEW G, \A a \in G : Rated(a, m),
         NEW v \in G, \A b \in G \ {v} : Prefer(v, b, m)
  PROVE  MaxBy(G, m) = {v}
<1> DEFINE first == {a \in G : \A b \in G \ {a} : Prefer(a, b, m)}
<1>1. v \in first
  OBVIOUS
<1>2. ASSUME NEW a \in first PROVE a = v
  <2>1. SUFFICES ASSUME a # v PROVE FALSE
    OBVIOUS
  <2>2. Prefer(a, v, m) /\ Prefer(v, a, m) /\ Rated(a, m) /\ Rated(v, m)
    BY <2>1
  <2>q. QED BY <2>2, PreferOneWay
<1>3. first = {v}
  BY <1>1, <1>2
<1>4. MaxBy(G, m) = IF first # {} THEN first ELSE {a \in G : \E b \in G : Prefer(a, b, m)}
  BY DEF MaxBy
<1> HIDE DEF first
<1>q. QED BY <1>3, <1>4

\* The routes of R from one neighbouring AS.
Neighbours(s, R) == {r \in R : NeighboringAs(r.path) = NeighboringAs(s.path)}

\* The chosen route is preferred to the others of its neighbouring AS.
LEMMA ChosenAtHome ==
  ASSUME NEW m, NEW R, Field(R, m), NEW w, Chosen(w, R, m),
         NEW b \in R, b # w, NeighboringAs(b.path) = NeighboringAs(w.path)
  PROVE  Prefer(w, b, m)
<1>1. /\ w \in R /\ Rated(w, m) /\ Rated(b, m) /\ Med(w) \in Nat /\ Med(b) \in Nat
      /\ \A c \in R : Med(c) \in Nat
  BY RatedFields DEF Field, Chosen
<1>2. CASE Fore(w, b)
  BY <1>1, <1>2, PreferIs
<1>3. CASE Even(w, b)
  <2>1. SameNeighbor(w, b) => Med(w) <= Med(b)
    BY <1>3 DEF Chosen, LowMed
  <2>2. CASE SameNeighbor(w, b) /\ Med(w) < Med(b)
    BY <1>1, <1>3, <2>2, PreferIs
  <2>3. CASE ~(SameNeighbor(w, b) /\ Med(w) < Med(b))
    <3>1. SameNeighbor(w, b) => Med(w) = Med(b)
      BY <1>1, <2>1, <2>3
    <3>2. ASSUME NEW c \in R, Even(b, c), SameNeighbor(b, c) PROVE Med(b) <= Med(c)
      <4>1. SameNeighbor(w, b) /\ SameNeighbor(w, c)
        BY <3>2 DEF SameNeighbor
      <4>2. Even(w, c)
        BY <1>3, <3>2, EvenJoins
      <4>3. Med(w) <= Med(c)
        BY <4>1, <4>2 DEF Chosen, LowMed
      <4>q. QED BY <3>1, <4>1, <4>3
    <3>3. Rear(w, b, m)
      BY <1>3, <3>2 DEF Chosen, LowMed
    <3>q. QED BY <1>1, <1>3, <3>1, <3>3, PreferIs
  <2>q. QED BY <2>2, <2>3
<1>q. QED BY <1>2, <1>3, ZenonT(40) DEF Chosen

\* It is preferred to the route chosen among those of another neighbouring AS.
LEMMA ChosenAbroad ==
  ASSUME NEW m, NEW R, Field(R, m), NEW w, Chosen(w, R, m),
         NEW v, Chosen(v, Neighbours(v, R), m),
         NeighboringAs(v.path) # NeighboringAs(w.path)
  PROVE  Prefer(w, v, m)
<1>1. v \in R /\ w \in R /\ Rated(w, m) /\ Rated(v, m) /\ v # w
  BY DEF Field, Chosen, Neighbours
<1>2. CASE Fore(w, v)
  BY <1>1, <1>2, PreferIs
<1>3. CASE Even(w, v)
  <2>1. ~SameNeighbor(w, v)
    BY DEF SameNeighbor
  <2>2. ASSUME NEW c \in R, Even(v, c), SameNeighbor(v, c) PROVE Med(v) <= Med(c)
    <3>1. c \in Neighbours(v, R)
      BY <2>2 DEF SameNeighbor, Neighbours
    <3>q. QED BY <2>2, <3>1, ZenonT(40) DEF Chosen, LowMed
  <2>3. Rear(w, v, m)
    BY <1>1, <1>3, <2>2 DEF Chosen, LowMed
  <2>q. QED BY <1>1, <1>3, <2>1, <2>3, PreferIs
<1>q. QED BY <1>1, <1>2, <1>3 DEF Chosen

LEMMA PartOfField ==
  ASSUME NEW m, NEW R, Field(R, m), NEW G \in SUBSET R
  PROVE  Field(G, m)
<1>1. IsFiniteSet(G)
  BY FS_Subset DEF Field
<1>q. QED BY <1>1 DEF Field

\* There is one way to pick a member of every set of a set of singletons.
LEMMA PicksOfSingletons ==
  ASSUME NEW SS, \A S \in SS : \E v : S = {v}
  PROVE  Picks(SS) = {UNION SS}
<1>1. ASSUME NEW T \in SUBSET UNION SS
      PROVE  (\A S \in SS : Cardinality(T \cap S) = 1) <=> T = UNION SS
  <2>1. ASSUME NEW S \in SS PROVE Cardinality(T \cap S) = 1 <=> S \subseteq T
    <3>1. PICK v : S = {v}
      BY <2>1, Zenon
    <3>2. CASE v \in T
      <4>1. T \cap S = {v}
        BY <3>1, <3>2
      <4>q. QED BY <3>1, <3>2, <4>1, FS_Singleton
    <3>3. CASE v \notin T
      <4>1. T \cap S = {}
        BY <3>1, <3>3
      <4>2. Cardinality({}) = 0
        BY FS_EmptySet
      <4>3. Cardinality(T \cap S) # 1
        <5>1. Cardinality(T \cap S) = 0
          BY Zenon, <4>1, <4>2
        <5>2. 0 # 1
          OBVIOUS
        <5>q. QED BY Zenon, <5>1, <5>2
      <4>4. ~(S \subseteq T)
        BY <3>1, <3>3
      <4>q. QED BY <4>3, <4>4
    <3>q. QED BY <3>2, <3>3
  <2>2. (\A S \in SS : S \subseteq T) <=> T = UNION SS
    OBVIOUS
  <2>q. QED BY Zenon, <2>1, <2>2
<1>2. UNION SS \in SUBSET UNION SS
  OBVIOUS
<1>3. \A T : T \in Picks(SS) <=>
             T \in SUBSET UNION SS /\ \A S \in SS : Cardinality(T \cap S) = 1
  BY DEF Picks
<1>4. \A T : T \in Picks(SS) <=> T = UNION SS
  BY Zenon, <1>1, <1>2, <1>3
<1>q. QED BY <1>4

\* select_best_with_oracle computes what the elimination of RFC 4271 section
\* 9.1.2.2 leaves, whatever order the hash map yields the candidates in.
LEMMA SelectBestIs ==
  ASSUME NEW m, NEW S, Field(Reachable(S, m), m)
  PROVE  \/ /\ Reachable(S, m) = {}
            /\ SelectBest(S, m) = {None} /\ MostPreferred(S, m) = {}
         \/ \E w \in Reachable(S, m) : SelectBest(S, m) = {w} /\ MostPreferred(S, m) = {w}
<1>1. PICK R : R = Reachable(S, m)
  OBVIOUS
<1>2. CASE R = {}
  <2>1. SelectBest(S, m) = {None}
    BY <1>1, <1>2, SMTT(40) DEF SelectBest
  <2>2. MostPreferred(S, m) = {}
    BY <1>1, <1>2, ZenonT(40) DEF MostPreferred, Unbeaten
  <2>q. QED BY <1>1, <1>2, <2>1, <2>2
<1>3. CASE R # {}
  <2>1. PICK w \in R : Closing(ByMed(Leading(R)), m) = {w} /\ Chosen(w, R, m)
    BY <1>1, <1>3, EliminationChooses
  <2>2. MostPreferred(S, m) = {w}
    BY <1>1, <2>1, MostPreferredIs
  <2>3. PICK groups, SS : /\ groups = {Neighbours(s, R) : s \in R}
                          /\ SS = {MaxBy(g, m) : g \in groups}
    BY Zenon
  <2>4. ASSUME NEW s \in R
        PROVE  \E v \in R : /\ MaxBy(Neighbours(s, R), m) = {v}
                            /\ NeighboringAs(v.path) = NeighboringAs(s.path)
                            /\ Chosen(v, Neighbours(v, R), m)
    <3>1. PICK G : G = Neighbours(s, R)
      OBVIOUS
    <3>2. G \in SUBSET R /\ s \in G
      BY <3>1 DEF Neighbours
    <3>3. Field(G, m)
      BY <1>1, <3>2, PartOfField
    <3>4. PICK v \in G : Chosen(v, G, m)
      BY <3>2, <3>3, EliminationChooses
    <3>5. NeighboringAs(v.path) = NeighboringAs(s.path) /\ v \in R
      BY <3>1, <3>4 DEF Neighbours
    <3>6. Neighbours(v, R) = G
      BY <3>1, <3>5 DEF Neighbours
    <3>7. \A b \in G : NeighboringAs(b.path) = NeighboringAs(v.path)
      BY <3>1, <3>5 DEF Neighbours
    <3>8. \A b \in G \ {v} : Prefer(v, b, m)
      BY <3>3, <3>4, <3>7, ChosenAtHome
    <3>9. MaxBy(G, m) = {v}
      BY <3>3, <3>4, <3>8, MaxByIs DEF Field
    <3>q. QED BY <3>1, <3>4, <3>5, <3>6, <3>9
  <2>5. MaxBy(Neighbours(w, R), m) = {w}
    <3>1. \A b \in Neighbours(w, R) \ {w} : Prefer(w, b, m)
      BY <1>1, <2>1, ChosenAtHome DEF Neighbours
    <3>2. w \in Neighbours(w, R) /\ \A a \in Neighbours(w, R) : Rated(a, m)
      BY <1>1, <2>1 DEF Neighbours, Field
    <3>q. QED BY <3>1, <3>2, MaxByIs
  <2>6. \A T \in SS : \E v : T = {v}
    BY <2>3, <2>4, ZenonT(40)
  <2>7. Picks(SS) = {UNION SS}
    BY <2>6, PicksOfSingletons
  <2>8. ASSUME NEW v \in UNION SS PROVE Rated(v, m) /\ (v = w \/ Prefer(w, v, m))
    <3>1. PICK s \in R : v \in MaxBy(Neighbours(s, R), m)
      BY <2>3, <2>8
    <3>2. PICK u \in R : /\ MaxBy(Neighbours(s, R), m) = {u}
                         /\ NeighboringAs(u.path) = NeighboringAs(s.path)
                         /\ Chosen(u, Neighbours(u, R), m)
      BY <2>4
    <3>3. u = v
      BY <3>1, <3>2
    <3>4. Rated(v, m)
      BY <1>1, <3>2, <3>3 DEF Field
    <3>5. CASE NeighboringAs(v.path) = NeighboringAs(w.path)
      <4>1. Neighbours(s, R) = Neighbours(w, R)
        BY <3>2, <3>3, <3>5 DEF Neighbours
      <4>q. QED BY <2>5, <3>1, <3>4, <4>1
    <3>6. CASE NeighboringAs(v.path) # NeighboringAs(w.path)
      BY <1>1, <2>1, <3>2, <3>3, <3>4, <3>6, ChosenAbroad
    <3>q. QED BY <3>5, <3>6
  <2>9. w \in UNION SS
    BY <2>1, <2>3, <2>5
  <2>10. MaxBy(UNION SS, m) = {w}
    BY <2>8, <2>9, MaxByIs
  <2>11. SelectBest(S, m) = UNION {MaxBy(x, m) : x \in Picks(SS)}
    <3>1. groups = {{r \in R : NeighboringAs(r.path) = NeighboringAs(s.path)} : s \in R}
      BY <2>3 DEF Neighbours
    <3>2. R # {}
      BY <1>3
    <3>3. SelectBest(S, m) =
            IF R = {} THEN {None}
            ELSE UNION {MaxBy(x, m) : x \in Picks({MaxBy(g, m) : g \in
              {{r \in R : NeighboringAs(r.path) = NeighboringAs(s.path)} : s \in R}})}
      BY <1>1 DEF SelectBest
    <3>4. Picks(SS) = Picks({MaxBy(g, m) : g \in
            {{r \in R : NeighboringAs(r.path) = NeighboringAs(s.path)} : s \in R}})
      BY <2>3, <3>1, Zenon
    <3>q. QED BY <3>2, <3>3, <3>4, Zenon
  <2>12. SelectBest(S, m) = {w}
    BY <2>7, <2>10, <2>11, Zenon
  <2>q. QED BY <1>1, <2>1, <2>2, <2>12
<1>q. QED BY <1>2, <1>3

-----------------------------------------------------------------------------
(* Selection through the handlers.                                         *)

\* best is the source of what the elimination leaves of the candidates in c.
Sound(c, b, m) ==
  LET left == MostPreferred(Candidates(c), m)
  IN  IF left = {} THEN b = None ELSE left = {c[b]}

\* A Loc-RIB whose candidates are in their places.
Filled(c) ==
  /\ c \in [Sources -> Routing]
  /\ \A q \in Sources : c[q] # None => c[q].src = q

\* lpm_v4 and lpm_v6 find a most specific route, and it has a metric.
LEMMA IgpType ==
  ASSUME snapshot \subseteq KernelRoutes, NEW h \in Hops
  PROVE  Igp[h] = None \/ Igp[h] \in Nat \ {None}
<1> DEFINE covering == {k \in snapshot : h \in k.covers}
           lengths == {k.len : k \in covering}
<1>1. Igp[h] = IF covering = {} THEN None
               ELSE (CHOOSE k \in covering : \A j \in covering : j.len <= k.len).metric
  BY DEF Igp
<1>2. CASE covering = {}
  BY <1>1, <1>2
<1>3. CASE covering # {}
  <2>1. lengths \in SUBSET Nat /\ lengths # {} /\ \A l \in lengths : l <= 128
    <3>0. \A k \in KernelRoutes : k.len \in 0..128
      BY Zenon, RibAssumption
    <3>1. \A k \in covering : k.len \in Nat /\ k.len <= 128
      BY <3>0
    <3> HIDE DEF covering
    <3>q. QED BY <1>3, <3>1
  <2>2. PICK l \in lengths : \A y \in lengths : y <= l
    <3> HIDE DEF lengths
    <3>1. 128 \in Nat
      OBVIOUS
    <3>q. QED BY <2>1, <3>1, GreatestOf, Zenon
  <2>3. PICK k \in covering : \A j \in covering : j.len <= k.len
    BY <2>2
  <2>4. (CHOOSE x \in covering : \A j \in covering : j.len <= x.len) \in covering
    <3> HIDE DEF covering
    <3>q. QED BY <2>3
  <2>5. \A x \in covering : x.metric \in Nat \ {None}
    BY RibAssumption
  <2> HIDE DEF covering
  <2>q. QED BY <1>1, <1>3, <2>4, <2>5
<1>q. QED BY <1>2, <1>3

LEMMA RouteRated ==
  ASSUME NEW r \in Routes, NEW m, m[r.nh] \in Nat \ {None}
  PROVE  Rated(r, m)
<1>1. PICK p \in Sources :
        r \in {RouteOf(p, a, t, s) : a \in Announcements[p], t \in Ages[p], s \in BOOLEAN}
  BY DEF Routes
<1>2. PICK a \in Announcements[p], t \in Ages[p], s \in BOOLEAN : r = RouteOf(p, a, t, s)
  BY <1>1
<1>3. /\ a.path \in Seq(Segment) /\ a.pref \in Nat \cup {None} /\ a.med \in Nat \cup {None}
      /\ a.origin \in Nat /\ t \in Nat
  BY <1>2, RibAssumption, ZenonT(40) DEF Sources
<1>4. /\ r.stale = s /\ r.path = a.path /\ r.origin = a.origin /\ r.age = t
      /\ r.pref = LocalPref(p, a) /\ r.med = a.med /\ r.src = p
  BY <1>2 DEF RouteOf
<1>5. r.pref \in Nat \cup {None}
  BY <1>3, <1>4 DEF LocalPref
<1>q. QED BY <1>3, <1>4, <1>5 DEF Rated

\* The reachable candidates can be told apart and compared.
LEMMA CandidatesField ==
  ASSUME snapshot \subseteq KernelRoutes, NEW c, Filled(c)
  PROVE  Field(Reachable(Candidates(c), Igp), Igp)
<1>1. PICK R : R = Reachable(Candidates(c), Igp)
  OBVIOUS
<1>2. ASSUME NEW a \in R PROVE a \in Routes /\ Rated(a, Igp) /\ c[a.src] = a
  <2>1. PICK q \in Sources : a = c[q] /\ a # None /\ Igp[a.nh] # None
    BY <1>1, <1>2 DEF Reachable, Candidates
  <2>2. a \in Routes /\ a.src = q
    BY <2>1 DEF Filled, Routing
  <2>3. a.nh \in Hops
    BY <2>2, RouteFields, Zenon
  <2>4. Igp[a.nh] \in Nat \ {None}
    BY <2>1, <2>3, IgpType
  <2>q. QED BY <2>1, <2>2, <2>4, RouteRated, ZenonT(40)
<1>3. IsFiniteSet(R)
  <2>1. IsFiniteSet(Sources)
    BY RibAssumption, FS_AddElement DEF Sources
  <2>2. PICK V : V = {c[q] : q \in Sources}
    BY Zenon
  <2>3. c \in Surjection(Sources, V)
    BY <2>2 DEF Surjection, Filled
  <2>4. IsFiniteSet(V)
    BY <2>1, <2>3, FS_Surjection
  <2>5. R \subseteq V
    BY <1>1, <2>2 DEF Reachable, Candidates
  <2>q. QED BY <2>4, <2>5, FS_Subset
<1>4. \A a, b \in R : a.src = b.src => a = b
  BY <1>2
<1>5. Field(R, Igp)
  BY <1>2, <1>3, <1>4 DEF Field
<1>q. QED BY <1>1, <1>5

\* insert, withdraw and recompute_all select anew from all candidates.
LEMMA SelectedSound ==
  ASSUME snapshot \subseteq KernelRoutes, NEW c, Filled(c),
         NEW w \in SelectBest(Candidates(c), Igp)
  PROVE  Sound(c, SrcOf(w), Igp)
<1>1. PICK S, R : S = Candidates(c) /\ R = Reachable(S, Igp)
  OBVIOUS
<1>2. Field(R, Igp)
  BY <1>1, CandidatesField
<1>3. \/ R = {} /\ SelectBest(S, Igp) = {None} /\ MostPreferred(S, Igp) = {}
      \/ \E u \in R : SelectBest(S, Igp) = {u} /\ MostPreferred(S, Igp) = {u}
  BY <1>1, <1>2, SelectBestIs, ZenonT(40)
<1>4. CASE SelectBest(S, Igp) = {None} /\ MostPreferred(S, Igp) = {}
  BY <1>1, <1>4 DEF Sound, SrcOf
<1>5. CASE \E u \in R : SelectBest(S, Igp) = {u} /\ MostPreferred(S, Igp) = {u}
  <2>1. w \in R /\ MostPreferred(S, Igp) = {w}
    BY <1>1, <1>5
  <2>2. PICK q \in Sources : w = c[q] /\ w # None
    BY <1>1, <2>1 DEF Reachable, Candidates
  <2>3. SrcOf(w) = q
    BY <2>2 DEF SrcOf, Filled
  <2>q. QED BY <1>1, <2>1, <2>2, <2>3 DEF Sound
<1>q. QED BY <1>3, <1>4, <1>5

\* A handler that gives p the candidate r.
LEMMA PutSound ==
  ASSUME Tables, SelectionSound, NEW p \in Sources, NEW r \in Routing, r # None => r.src = p,
         NEW w \in Winners(p, r), Put(p, r, w), UNCHANGED <<snapshot, changed>>
  PROVE  SelectionSound'
<1>1. Filled(cand) /\ snapshot \subseteq KernelRoutes
  BY ZenonT(40) DEF Tables, TypeOK, Placed, Filled, Routing
<1>2. Igp' = Igp
  BY DEF Igp
<1>3. cand' = [cand EXCEPT ![p] = r] /\ best' = SrcOf(w)
  BY DEF Put
<1>4. Filled(cand')
  BY <1>1, <1>3 DEF Filled
<1>5. ASSUME ~changed PROVE Sound(cand', best', Igp)
  <2>1. CASE r = None /\ cand[p] = None
    <3>1. cand' = cand
      BY <1>1, <1>3, <2>1 DEF Filled
    <3>2. w = IF best = None THEN None ELSE cand[best]
      BY <2>1 DEF Winners
    <3>3. best' = best
      BY <1>3, <3>2 DEF SrcOf, Tables, TypeOK, Placed
    <3>4. Sound(cand, best, Igp)
      BY <1>5 DEF SelectionSound, Sound
    <3>q. QED BY <3>1, <3>3, <3>4
  <2>2. CASE ~(r = None /\ cand[p] = None)
    <3>1. w \in SelectBest(Candidates(cand'), Igp)
      BY <1>3, <2>2 DEF Winners
    <3>q. QED BY <1>1, <1>3, <1>4, <3>1, SelectedSound
  <2>q. QED BY <2>1, <2>2
<1>6. SelectionSound' <=> (~changed' => Sound(cand', best', Igp'))
  BY DEF SelectionSound, Sound
<1>q. QED BY <1>2, <1>5, <1>6

\* Neither the candidates nor the kernel's routes move.
LEMMA StillSound ==
  ASSUME SelectionSound, UNCHANGED <<cand, best, snapshot, changed>>
  PROVE  SelectionSound'
<1>1. Igp' = Igp
  BY DEF Igp
<1>q. QED BY <1>1 DEF SelectionSound

\* Nothing is best in an empty Loc-RIB.
LEMMA EmptySound ==
  ASSUME NEW c, NEW m, c = [p \in Sources |-> None]
  PROVE  Sound(c, None, m)
<1>1. Candidates(c) = {}
  BY DEF Candidates
<1>2. Reachable(Candidates(c), m) = {}
  BY <1>1, SMTT(40) DEF Reachable
<1>3. MostPreferred(Candidates(c), m) = {}
  BY <1>2, ZenonT(40) DEF MostPreferred, Unbeaten
<1>q. QED BY <1>3 DEF Sound

LEMMA AnnounceSound ==
  ASSUME IInv, SelectionSound, NEW p \in Peers, NEW a \in Announcements[p], NEW t \in Ages[p],
         NEW over \in BOOLEAN, Announce(p, a, t, over)
  PROVE  SelectionSound'
<1>0. Tables /\ p \in Sources /\ None \in Routing
  BY Disassemble DEF Sources, Routing
<1>1. PICK r : r = Received(p, a, t)
  BY SMTT(40)
<1>2. r \in Routing /\ r.src = p /\ r # None
  BY <1>0, <1>1, ReceivedFields, RouteIsSome, SMTT(40) DEF Routing
<1>3. UNCHANGED <<snapshot, changed>>
  BY ZenonT(40) DEF Announce
<1>4. CASE UNCHANGED <<tables, writer, kept>>
  BY <1>3, <1>4, StillSound, SMTT(40), ZenonT(40) DEF tables
<1>5. CASE Remove(p, over) \/ Hole(p, r, over)
  <2>1. PICK w \in Winners(p, None) : Put(p, None, w)
    BY <1>5, ZenonT(40) DEF Remove, Hole
  <2>q. QED BY <1>0, <1>3, <2>1, PutSound, SMTT(40)
<1>6. CASE Accepted(p, r, over)
  <2>1. PICK w \in Winners(p, r) : Put(p, r, w)
    BY <1>6, SMTT(40) DEF Accepted
  <2>q. QED BY <1>0, <1>2, <1>3, <2>1, PutSound, ZenonT(40)
<1>7. CASE Rejected(p, r)
  BY <1>3, <1>7, StillSound, ZenonT(40) DEF Rejected
<1>q. QED BY <1>1, <1>4, <1>5, <1>6, <1>7, ZenonT(40) DEF Announce

LEMMA StepSound == IInv /\ SelectionSound /\ [Next]_vars => SelectionSound'
<1> SUFFICES ASSUME IInv, SelectionSound, [Next]_vars PROVE SelectionSound'
  BY SMTT(40), ZenonT(40)
<1>0. /\ Tables /\ None \in Routing /\ Peers \subseteq Sources /\ Local \in Sources
      /\ Filled(cand) /\ snapshot \subseteq KernelRoutes
  BY Disassemble DEF Sources, Routing, Filled, Tables, TypeOK, Placed
<1>1. ASSUME NEW p \in Peers, Established(p) PROVE SelectionSound'
  BY <1>1, StillSound DEF Established, tables
<1>2. ASSUME NEW p \in Peers, Terminated(p) \/ Prune(p) \/ Expired(p) PROVE SelectionSound'
  <2>1. Forget(p)
    BY <1>2 DEF Terminated, Prune, Expired
  <2>2. PICK w \in Winners(p, None) : Put(p, None, w) /\ UNCHANGED <<snapshot, changed>>
    BY <2>1 DEF Forget
  <2>q. QED BY <1>0, <2>2, PutSound
<1>3. ASSUME NEW p \in Peers, Held(p) PROVE SelectionSound'
  <2>1. PICK r : r = RouteOf(p, adjIn[p], adjIn[p].age, TRUE)
    BY Zenon
  <2>2. adjIn[p] \in Routes /\ adjIn[p].src = p
    BY <1>0, <1>3 DEF Held, Tables, TypeOK, Placed
  <2>3. r \in Routing /\ r.src = p
    BY <2>1, <2>2, RouteFields DEF Routing, RouteOf
  <2>4. PICK w \in Winners(p, r) : Put(p, r, w)
    BY <1>3, <2>1, Zenon DEF Held
  <2>5. UNCHANGED <<snapshot, changed>>
    BY <1>3 DEF Held
  <2>q. QED BY <1>0, <2>3, <2>4, <2>5, PutSound
<1>4. ASSUME NEW p \in Peers, NEW over \in BOOLEAN, WithdrawRoute(p, over) PROVE SelectionSound'
  <2>1. PICK w \in Winners(p, None) : Put(p, None, w)
    BY <1>4 DEF WithdrawRoute, Remove
  <2>2. UNCHANGED <<snapshot, changed>>
    BY <1>4, SMTT(40) DEF WithdrawRoute
  <2>q. QED BY <1>0, <2>1, <2>2, PutSound
<1>5. ASSUME NEW p \in Peers, NEW over \in BOOLEAN,
             NEW a \in Announcements[p], NEW t \in Ages[p], Announce(p, a, t, over)
      PROVE  SelectionSound'
  BY <1>5, AnnounceSound, SMTT(40)
<1>6. ASSUME NEW a \in Announcements[Local], NEW t \in Ages[Local],
             OriginateV4(a, t) \/ OriginateV6(a, t)
      PROVE  SelectionSound'
  <2>1. PICK r : r = Received(Local, a, t)
    BY SMTT(40), ZenonT(40)
  <2>2. r \in Routing /\ r.src = Local
    BY <1>0, <2>1, ReceivedFields, SMTT(40) DEF Routing
  <2>3. PICK w \in Winners(Local, r) : Put(Local, r, w)
    BY <1>6, <2>1, ZenonT(40) DEF OriginateV4, OriginateV6
  <2>4. UNCHANGED <<snapshot, changed>>
    BY <1>6, Zenon DEF OriginateV4, OriginateV6
  <2>q. QED BY <1>0, <2>2, <2>3, <2>4, PutSound, Zenon
<1>7. CASE WithdrawOriginated
  <2>1. PICK w \in Winners(Local, None) : Put(Local, None, w)
    BY <1>7, SMTT(40) DEF WithdrawOriginated
  <2>2. UNCHANGED <<snapshot, changed>>
    BY <1>7 DEF WithdrawOriginated
  <2>q. QED BY <1>0, <2>1, <2>2, PutSound, SMTT(40)
<1>8. ASSUME NEW p \in Tuned, NEW yes \in BOOLEAN, SetImportDefault(p, yes) PROVE SelectionSound'
  <2>1. PICK r : r = IF yes THEN adjIn[p] ELSE None
    BY SMTT(40)
  <2>2. UNCHANGED <<snapshot, changed>> /\ p \in Peers
    BY <1>8, RibAssumption, ZenonT(40) DEF SetImportDefault
  <2>3. r \in Routing /\ (r # None => r.src = p)
    BY <1>0, <2>1, <2>2, SMTT(40), ZenonT(40) DEF Tables, TypeOK, Placed, Routing
  <2>4. CASE adjIn[p] = None
    BY <1>8, <2>2, <2>4, StillSound, SMTT(40), ZenonT(40) DEF SetImportDefault
  <2>5. CASE adjIn[p] # None
    <3>1. PICK w \in Winners(p, r) : Put(p, r, w)
      BY <1>8, <2>1, <2>5, ZenonT(40) DEF SetImportDefault
    <3>q. QED BY <1>0, <2>2, <2>3, <3>1, PutSound, SMTT(40)
  <2>q. QED BY <2>4, <2>5
<1>9. ASSUME NEW k \in KernelRoutes, NewRoute(k) \/ DelRoute(k) PROVE SelectionSound'
  BY <1>9 DEF NewRoute, DelRoute, SelectionSound
<1>10. CASE OnFibChange
  <2>1. PICK w \in SelectBest(Candidates(cand), Igp) : best' = SrcOf(w)
    BY <1>10 DEF OnFibChange
  <2>2. UNCHANGED <<cand, snapshot>>
    BY <1>10, SMTT(40) DEF OnFibChange
  <2>3. Igp' = Igp
    BY <2>2, SMTT(40) DEF Igp
  <2>4. Sound(cand, best', Igp)
    BY <1>0, <2>1, SelectedSound, SMTT(40), ZenonT(40)
  <2>q. QED BY <2>2, <2>3, <2>4 DEF SelectionSound, Sound
<1>11. CASE Restart
  <2>1. cand' = [p \in Sources |-> None] /\ best' = None
    BY <1>11 DEF Restart
  <2>2. Sound(cand', None, Igp')
    BY <2>1, EmptySound, SMTT(40)
  <2>q. QED BY <2>1, <2>2, SMTT(40) DEF SelectionSound, Sound
<1>12. ASSUME NEW ok \in BOOLEAN, Write(ok) PROVE SelectionSound'
  BY <1>12, StillSound, SMTT(40) DEF Write, tables
<1>13. CASE UNCHANGED vars
  BY <1>13, StillSound DEF vars, tables
<1>q. QED
  BY <1>1, <1>2, <1>3, <1>4, <1>5, <1>6, <1>7, <1>8, <1>9, <1>10, <1>11, <1>12, <1>13
  DEF Next

\* For any peers, routes, metrics and times of receipt: when no change of the
\* kernel's routes is waiting, the best route is the one that the elimination
\* of RFC 4271 section 9.1.2.2 leaves of all candidates, though the code
\* compares pairs, groups by neighbouring AS and meets the candidates in the
\* order of a hash map (select_best_with_oracle, LocRib::insert, withdraw and
\* recompute_all).
THEOREM SelectionAlwaysSound == Spec => []SelectionSound
<1>1. Init => SelectionSound
  <2>1. Init => Sound(cand, None, Igp)
    BY EmptySound DEF Init
  <2>q. QED BY <2>1 DEF Init, SelectionSound, Sound
<1>q. QED BY <1>1, StepSound, Invariance, PTL DEF Spec
=============================================================================
