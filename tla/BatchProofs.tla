---------------------------- MODULE BatchProofs -----------------------------
(***************************************************************************)
(* Proofs about what Outbound puts into the channel of one peer: the       *)
(* attributes an UPDATE carries, the UPDATEs of a batch, and that every    *)
(* way to tell a peer leaves its neighbour with what Adj-RIB-Out records.  *)
(* ChannelProofs has the handlers, OutboundProofs the Adj-RIB-Out side.    *)
(***************************************************************************)
EXTENDS OutboundProofs, FiniteSetTheorems

-----------------------------------------------------------------------------
(* Numbers and sequences.                                                  *)

LEMMA LeastOf ==
  ASSUME NEW S \in SUBSET Nat, S # {}
  PROVE  \E m \in S : \A y \in S : m <= y
<1> DEFINE R == OpToRel(<, Nat)
<1>1. IsWellFoundedOn(R, Nat)
  BY NatLessThanWellFounded, Zenon
<1>2. \A x, y \in Nat : x < y => <<x, y>> \in R
  BY DEF OpToRel
<1> HIDE DEF R
<1>3. PICK m \in S : \A y \in S : ~(<<y, m>> \in R)
  BY <1>1, WFMin, Zenon
<1>4. \A y \in S : ~(y < m)
  BY <1>2, <1>3, Zenon
<1>q. QED BY <1>4

LEMMA ElementOfSeq ==
  ASSUME NEW S, NEW s \in Seq(S), NEW n \in 1..Len(s)
  PROVE  s[n] \in S
BY SMT

LEMMA EmptySeq == \A S : <<>> \in Seq(S)
BY SMT

LEMMA IsSequence ==
  ASSUME NEW S, NEW n \in Nat, NEW f \in [1..n -> S]
  PROVE  f \in Seq(S) /\ Len(f) = n
BY SMT

LEMMA GreatestOf ==
  ASSUME NEW S \in SUBSET Nat, S # {}, NEW k \in Nat, \A s \in S : s <= k
  PROVE  \E m \in S : \A y \in S : y <= m
<1> DEFINE T == {x \in Nat : \E s \in S : x = k - s}
<1>1. T \in SUBSET Nat /\ T # {}
  <2>1. PICK s \in S : TRUE
    BY Zenon
  <2>2. k - s \in T
    BY <2>1
  <2>q. QED BY <2>2, Zenon
<1>2. PICK t \in T : \A y \in T : t <= y
  BY <1>1, LeastOf, Zenon
<1>3. PICK m \in S : t = k - m
  BY <1>2
<1>4. ASSUME NEW y \in S PROVE y <= m
  <2>1. k - y \in T
    OBVIOUS
  <2>2. t <= k - y
    BY <1>2, <2>1, Zenon
  <2>q. QED BY <1>3, <2>2
<1>q. QED BY <1>3, <1>4

-----------------------------------------------------------------------------
(* AS paths.                                                               *)

Kept(path) == {i \in DOMAIN path : ~IsConfed(path[i])}

Nth(path, k) == CHOOSE i \in Kept(path) : Cardinality({j \in Kept(path) : j <= i}) = k

\* The segments that are kept are numbered from 1.
LEMMA NthIs ==
  ASSUME NEW path \in Seq(Segment)
  PROVE  /\ Cardinality(Kept(path)) \in Nat
         /\ \A k \in 1..Cardinality(Kept(path)) : Nth(path, k) \in Kept(path)
         /\ \A k, m \in 1..Cardinality(Kept(path)) : Nth(path, k) = Nth(path, m) => k = m
         /\ \A i \in Kept(path) : \E k \in 1..Cardinality(Kept(path)) : Nth(path, k) = i
<1> DEFINE K == Kept(path)
           c == Cardinality(K)
           rank == [i \in K |-> Cardinality({j \in K : j <= i})]
<1>1. K \in SUBSET (1..Len(path)) /\ Len(path) \in Nat
  BY DEF Kept
<1>2. IsFiniteSet(K) /\ c \in Nat
  <2>1. IsFiniteSet(1..Len(path))
    BY <1>1, FS_Interval
  <2>q. QED BY <1>1, <2>1, FS_Subset, FS_CardinalityType
<1> HIDE DEF K
<1>3. ASSUME NEW i \in K
      PROVE  IsFiniteSet({j \in K : j <= i}) /\ rank[i] \in 1..c
  <2> DEFINE B == {j \in K : j <= i}
  <2>1. IsFiniteSet(B) /\ Cardinality(B) <= c /\ Cardinality(B) \in Nat
    BY <1>2, FS_Subset, FS_CardinalityType
  <2>2. i \in B
    BY <1>1
  <2>3. Cardinality(B) # 0
    BY <2>1, <2>2, FS_EmptySet, Zenon
  <2>4. rank[i] = Cardinality(B)
    OBVIOUS
  <2> HIDE DEF B, rank
  <2>q. QED BY <1>2, <2>1, <2>3, <2>4 DEF B
<1>4. ASSUME NEW i \in K, NEW m \in K, i < m PROVE rank[i] # rank[m]
  <2> DEFINE A == {j \in K : j <= i}
             B == {j \in K : j <= m}
  <2>0. i \in Nat /\ m \in Nat /\ K \subseteq Nat
    BY <1>1
  <2>1. A \in SUBSET B /\ m \in B /\ m \notin A
    <3>1. \A j \in K : j <= i => j <= m
      BY <1>4, <2>0
    <3>2. ~(m <= i) /\ m <= m
      BY <1>4, <2>0
    <3>q. QED BY <3>1, <3>2
  <2>2. IsFiniteSet(B)
    BY <1>3
  <2>3. Cardinality(A) # Cardinality(B)
    BY <2>1, <2>2, FS_Subset, SMTT(40)
  <2>q. QED BY <2>3
<1>5. rank \in Injection(K, 1..c)
  <2>1. rank \in [K -> 1..c]
    BY <1>3, Zenon
  <2>2. ASSUME NEW i \in K, NEW m \in K, rank[i] = rank[m] PROVE i = m
    <3>1. i < m \/ m < i \/ i = m
      BY <1>1
    <3> HIDE DEF rank
    <3>q. QED BY <1>4, <2>2, <3>1
  <2> HIDE DEF rank
  <2>q. QED BY <2>1, <2>2 DEF Injection, IsInjective
<1>6. rank \in Surjection(K, 1..c)
  <2>1. Cardinality(1..c) = c /\ IsFiniteSet(1..c)
    BY <1>2, FS_Interval
  <2> HIDE DEF rank, c
  <2>q. QED BY <1>5, <2>1, FS_Injection DEF c
<1>7. ASSUME NEW k \in 1..c PROVE Nth(path, k) \in K /\ rank[Nth(path, k)] = k
  <2>1. PICK i \in K : rank[i] = k
    BY <1>6, <1>7, Zenon DEF Surjection
  <2>2. Cardinality({j \in K : j <= i}) = k
    BY <2>1
  <2>q. QED BY <2>2, Zenon DEF Nth, K
<1>8. ASSUME NEW i \in K PROVE \E k \in 1..c : Nth(path, k) = i
  <2>1. rank[i] \in 1..c
    BY <1>3, Zenon
  <2>2. Nth(path, rank[i]) \in K /\ rank[Nth(path, rank[i])] = rank[i]
    BY <1>7, <2>1, Zenon
  <2>3. Nth(path, rank[i]) = i
    BY <1>5, <2>2, Zenon DEF Injection, IsInjective
  <2>q. QED BY <2>1, <2>3
<1> HIDE DEF rank, c
<1>9. \A k, m \in 1..c : Nth(path, k) = Nth(path, m) => k = m
  BY <1>7
<1>q. QED BY <1>2, <1>7, <1>8, <1>9 DEF K, c

LEMMA StripConfedIs ==
  ASSUME NEW path \in Seq(Segment), NEW s, s = StripConfed(path)
  PROVE  /\ s \in Seq(Segment)
         /\ Len(s) = Cardinality(Kept(path))
         /\ \A k \in 1..Len(s) : s[k] = path[Nth(path, k)]
         /\ ~HasConfed(s)
<1> DEFINE c == Cardinality(Kept(path))
<1>1. s = [k \in 1..c |-> path[Nth(path, k)]]
  BY DEF StripConfed, Kept, Nth
<1>2. c \in Nat /\ \A k \in 1..c : Nth(path, k) \in Kept(path)
  BY NthIs
<1> HIDE DEF c
<1>3. \A i \in Kept(path) : path[i] \in Segment /\ ~IsConfed(path[i])
  BY ElementOfSeq DEF Kept
<1>4. s \in Seq(Segment) /\ Len(s) = c
  BY <1>1, <1>2, <1>3, IsSequence, SMTT(40)
<1>q. QED BY <1>1, <1>2, <1>3, <1>4 DEF HasConfed, c

\* What PathLength counts.
Crossed(path) == UNION {{i} \X (1..SegmentLength(path[i])) : i \in DOMAIN path}

LEMMA CrossedAre ==
  ASSUME NEW path, NEW x
  PROVE  x \in Crossed(path) <=> \E i \in DOMAIN path : \E j \in 1..SegmentLength(path[i]) : x = <<i, j>>
BY DEF Crossed

LEMMA SegmentLengthIs ==
  ASSUME NEW seg \in Segment
  PROVE  SegmentLength(seg) \in Nat /\ (IsConfed(seg) => SegmentLength(seg) = 0)
BY DEF Segment, SegmentKinds, SegmentLength, IsConfed

LEMMA CrossedFinite ==
  ASSUME NEW path \in Seq(Segment)
  PROVE  IsFiniteSet(Crossed(path))
<1> DEFINE D == 1..Len(path)
           F == [i \in D |-> {i} \X (1..SegmentLength(path[i]))]
           T == {F[i] : i \in D}
<1>1. D = DOMAIN path /\ IsFiniteSet(D)
  BY FS_Interval
<1>2. F \in Surjection(D, T)
  BY Zenon DEF Surjection
<1>3. IsFiniteSet(T)
  <2> HIDE DEF F, T, D
  <2>q. QED BY <1>1, <1>2, FS_Surjection
<1>4. ASSUME NEW i \in D PROVE IsFiniteSet(F[i])
  <2>1. SegmentLength(path[i]) \in Nat
    BY SegmentLengthIs, ElementOfSeq
  <2>2. IsFiniteSet(1..SegmentLength(path[i]))
    BY <2>1, FS_Interval
  <2>3. IsFiniteSet({i})
    BY FS_Singleton, Zenon
  <2>q. QED BY <2>2, <2>3, FS_Product, Zenon
<1>5. \A t \in T : IsFiniteSet(t)
  BY <1>4
<1>6. Crossed(path) = UNION T
  BY <1>1 DEF Crossed
<1> HIDE DEF T
<1>q. QED BY <1>3, <1>5, <1>6, FS_UNION

\* Without its confederation segments a path is as long as with them.
LEMMA StrippedLength ==
  ASSUME NEW path \in Seq(Segment)
  PROVE  PathLength(StripConfed(path)) = PathLength(path)
<1> DEFINE s == StripConfed(path)
           g == [x \in Crossed(s) |-> <<Nth(path, x[1]), x[2]>>]
<1>1. /\ s \in Seq(Segment) /\ Len(s) = Cardinality(Kept(path)) /\ Len(s) \in Nat
      /\ DOMAIN s = 1..Len(s)
      /\ \A k \in 1..Len(s) : s[k] = path[Nth(path, k)]
  BY StripConfedIs, NthIs
<1> HIDE DEF s
<1>2. /\ \A k \in 1..Len(s) : Nth(path, k) \in Kept(path)
      /\ \A k, m \in 1..Len(s) : Nth(path, k) = Nth(path, m) => k = m
      /\ \A i \in Kept(path) : \E k \in 1..Len(s) : Nth(path, k) = i
  BY <1>1, NthIs
<1>3. ASSUME NEW x \in Crossed(s)
      PROVE  \E k \in 1..Len(s) : \E j \in 1..SegmentLength(path[Nth(path, k)]) : x = <<k, j>>
  BY <1>1, CrossedAre, SMTT(40)
<1>4. g \in [Crossed(s) -> Crossed(path)]
  <2>1. ASSUME NEW x \in Crossed(s) PROVE <<Nth(path, x[1]), x[2]>> \in Crossed(path)
    <3>0. PICK k \in 1..Len(s) : \E j \in 1..SegmentLength(path[Nth(path, k)]) : x = <<k, j>>
      BY <1>3
    <3>1. PICK j \in 1..SegmentLength(path[Nth(path, k)]) : x = <<k, j>>
      BY <3>0
    <3>2. Nth(path, k) \in DOMAIN path
      BY <1>2 DEF Kept
    <3>3. x[1] = k /\ x[2] = j
      BY <3>1
    <3>q. QED BY <3>2, <3>3, CrossedAre
  <2>q. QED BY <2>1
<1>5. ASSUME NEW x \in Crossed(s), NEW y \in Crossed(s), g[x] = g[y] PROVE x = y
  <2>0. PICK k \in 1..Len(s) : \E j \in 1..SegmentLength(path[Nth(path, k)]) : x = <<k, j>>
    BY <1>3
  <2>1. PICK j \in 1..SegmentLength(path[Nth(path, k)]) : x = <<k, j>>
    BY <2>0
  <2>2. PICK m \in 1..Len(s) : \E l \in 1..SegmentLength(path[Nth(path, m)]) : y = <<m, l>>
    BY <1>3
  <2>4. PICK l \in 1..SegmentLength(path[Nth(path, m)]) : y = <<m, l>>
    BY <2>2
  <2>3. Nth(path, k) = Nth(path, m) /\ j = l
    BY <1>5, <2>1, <2>4
  <2>q. QED BY <1>2, <2>1, <2>3, <2>4
<1>6. ASSUME NEW y \in Crossed(path) PROVE \E x \in Crossed(s) : g[x] = y
  <2>0. PICK i \in DOMAIN path : \E j \in 1..SegmentLength(path[i]) : y = <<i, j>>
    BY CrossedAre
  <2>1. PICK j \in 1..SegmentLength(path[i]) : y = <<i, j>>
    BY <2>0
  <2>2. path[i] \in Segment
    BY ElementOfSeq
  <2>3. i \in Kept(path)
    BY <2>1, <2>2, SegmentLengthIs DEF Kept
  <2>4. PICK k \in 1..Len(s) : Nth(path, k) = i
    BY <1>2, <2>3
  <2>5. <<k, j>> \in Crossed(s)
    BY <1>1, <2>4, CrossedAre, SMTT(40)
  <2>6. g[<<k, j>>] = y
    BY <2>1, <2>4, <2>5
  <2>q. QED BY <2>5, <2>6
<1>7. g \in Bijection(Crossed(s), Crossed(path))
  <2> HIDE DEF g
  <2>q. QED BY <1>4, <1>5, <1>6 DEF Bijection, Injection, Surjection, IsInjective
<1>8. IsFiniteSet(Crossed(s))
  BY <1>1, CrossedFinite
<1> HIDE DEF g
<1>9. Cardinality(Crossed(path)) = Cardinality(Crossed(s))
  BY <1>7, <1>8, FS_Bijection DEF ExistsBijection
<1>q. QED BY <1>9 DEF PathLength, Crossed, s

\* d is the path with AS_TRANS for four-octet AS numbers, and is no shorter.
Downgraded(path, d) ==
  /\ d.path \in Seq(Segment) /\ Len(d.path) = Len(path)
  /\ \A i \in 1..Len(path) :
       /\ d.path[i].kind = path[i].kind
       /\ Len(d.path[i].asns) = Len(path[i].asns)
       /\ \A j \in 1..Len(path[i].asns) :
            d.path[i].asns[j] = IF path[i].asns[j] > 65535 THEN Trans ELSE path[i].asns[j]
  /\ ~HasFourByte(d.path)
  /\ PathLength(d.path) = PathLength(path)
  /\ d.as4 \in {None, path}

LEMMA DowngradeIs ==
  ASSUME NEW path \in Seq(Segment), NEW d, d = Downgrade(path)
  PROVE  Downgraded(path, d)
<1> DEFINE A(i) == [j \in DOMAIN path[i].asns |->
                      IF path[i].asns[j] > 65535 THEN Trans ELSE path[i].asns[j]]
           q == [i \in DOMAIN path |-> [kind |-> path[i].kind, asns |-> A(i)]]
<1>1. d.path = q /\ d.as4 \in {None, path}
  BY DEF Downgrade
<1>2. Len(path) \in Nat /\ DOMAIN path = 1..Len(path)
  OBVIOUS
<1>3. ASSUME NEW i \in 1..Len(path)
      PROVE  /\ A(i) \in Seq(Nat) /\ Len(A(i)) = Len(path[i].asns)
             /\ \A j \in 1..Len(path[i].asns) :
                  A(i)[j] = IF path[i].asns[j] > 65535 THEN Trans ELSE path[i].asns[j]
             /\ \A j \in DOMAIN A(i) : ~(A(i)[j] > 65535)
             /\ path[i].kind \in SegmentKinds
  <2>1. path[i] \in Segment
    BY ElementOfSeq
  <2> DEFINE s == path[i].asns
  <2>2. s \in Seq(Nat) /\ path[i].kind \in SegmentKinds
    BY <2>1 DEF Segment
  <2> HIDE DEF s
  <2>3. Len(s) \in Nat /\ DOMAIN s = 1..Len(s) /\ \A j \in 1..Len(s) : s[j] \in Nat
    BY <2>2
  <2> DEFINE two(j) == IF s[j] > 65535 THEN Trans ELSE s[j]
  <2>4. A(i) = [j \in 1..Len(s) |-> two(j)]
    BY <2>3 DEF s
  <2>5. \A j \in 1..Len(s) : two(j) \in Nat /\ ~(two(j) > 65535)
    BY <2>3 DEF Trans
  <2> HIDE DEF A, two
  <2>6. /\ A(i) \in [1..Len(s) -> Nat]
        /\ DOMAIN A(i) = 1..Len(s) /\ \A j \in 1..Len(s) : A(i)[j] = two(j)
    BY <2>4, <2>5
  <2>7. A(i) \in Seq(Nat) /\ Len(A(i)) = Len(s)
    BY <2>3, <2>6, IsSequence, Zenon
  <2>8. \A j \in DOMAIN A(i) : ~(A(i)[j] > 65535)
    BY <2>5, <2>6
  <2>q. QED BY <2>2, <2>6, <2>7, <2>8, SMT DEF s, two
<1> HIDE DEF A
<1>4. q \in [1..Len(path) -> Segment]
  BY <1>2, <1>3 DEF Segment
<1>5. q \in Seq(Segment) /\ Len(q) = Len(path)
  BY <1>2, <1>4, IsSequence, Zenon
<1>6. \A i \in 1..Len(path) : q[i].kind = path[i].kind /\ q[i].asns = A(i)
  BY <1>2
<1> HIDE DEF q
<1>7. DOMAIN q = DOMAIN path /\ DOMAIN q = 1..Len(path)
  BY <1>2, <1>4
<1>8. ~HasFourByte(q)
  BY <1>3, <1>6, <1>7 DEF HasFourByte
<1>9. \A i \in DOMAIN path : SegmentLength(q[i]) = SegmentLength(path[i])
  BY <1>2, <1>3, <1>6 DEF SegmentLength
<1>10. Crossed(q) = Crossed(path)
  BY <1>7, <1>9 DEF Crossed
<1>11. PathLength(q) = PathLength(path)
  BY <1>10, Zenon DEF PathLength, Crossed
<1>12. \A i \in 1..Len(path) :
         /\ q[i].kind = path[i].kind
         /\ Len(q[i].asns) = Len(path[i].asns)
         /\ \A j \in 1..Len(path[i].asns) :
              q[i].asns[j] = IF path[i].asns[j] > 65535 THEN Trans ELSE path[i].asns[j]
  BY <1>3, <1>6, SMT
<1>q. QED BY <1>1, <1>5, <1>8, <1>11, <1>12, SMT DEF Downgraded

LEMMA InFrontIs ==
  ASSUME NEW path \in Seq(Segment), NEW kind \in SegmentKinds, NEW asn \in Nat,
         NEW q, q = InFront(path, kind, asn)
  PROVE  /\ q \in Seq(Segment) /\ Len(q) >= 1
         /\ q[1].kind = kind /\ Len(q[1].asns) >= 1 /\ q[1].asns[1] = asn
         /\ kind = "Sequence" /\ ~HasConfed(path) => ~HasConfed(q)
<1> DEFINE whole == <<[kind |-> kind, asns |-> <<asn>>]>> \o path
           h     == Head(path)
           more  == [kind |-> kind, asns |-> <<asn>> \o h.asns]
           grown == <<more>> \o Tail(path)
<1>1. CASE q = whole
  <2> DEFINE x == [kind |-> kind, asns |-> <<asn>>]
  <2>1. x \in Segment /\ x.kind = kind /\ Len(x.asns) >= 1 /\ x.asns[1] = asn
    BY DEF Segment
  <2> HIDE DEF x
  <2>2. /\ q \in Seq(Segment) /\ Len(q) = Len(path) + 1 /\ q[1] = x
        /\ \A i \in 2..Len(q) : q[i] = path[i - 1]
    BY <1>1, <2>1 DEF x
  <2>3. ASSUME kind = "Sequence", ~HasConfed(path), NEW i \in 1..Len(q) PROVE ~IsConfed(q[i])
    <3>1. CASE i = 1
      BY <2>1, <2>2, <2>3, <3>1 DEF IsConfed
    <3>2. CASE i # 1
      <4>1. i - 1 \in DOMAIN path /\ q[i] = path[i - 1]
        BY <2>2, <3>2
      <4>q. QED BY <2>3, <4>1 DEF HasConfed
    <3>q. QED BY <3>1, <3>2
  <2>q. QED BY <2>1, <2>2, <2>3 DEF HasConfed
<1>2. CASE path # <<>> /\ q = grown
  <2>1. /\ h \in Segment /\ Tail(path) \in Seq(Segment) /\ Len(Tail(path)) = Len(path) - 1
        /\ Len(path) \in Nat /\ \A i \in 1..Len(Tail(path)) : Tail(path)[i] = path[i + 1]
    BY <1>2, SMT
  <2>2. h.asns \in Seq(Nat)
    BY <2>1 DEF Segment
  <2> HIDE DEF h
  <2>3. <<asn>> \o h.asns \in Seq(Nat) /\ Len(<<asn>> \o h.asns) >= 1 /\ (<<asn>> \o h.asns)[1] = asn
    BY <2>2
  <2>4. more \in Segment /\ more.kind = kind /\ Len(more.asns) >= 1 /\ more.asns[1] = asn
    BY <2>3 DEF Segment
  <2> HIDE DEF more
  <2> DEFINE t == Tail(path)
  <2> HIDE DEF t
  <2>5. /\ q \in Seq(Segment) /\ Len(q) = Len(t) + 1 /\ q[1] = more
        /\ \A i \in 2..Len(q) : q[i] = t[i - 1]
    BY <1>2, <2>1, <2>4 DEF t
  <2>6. ASSUME kind = "Sequence", ~HasConfed(path), NEW i \in 1..Len(q) PROVE ~IsConfed(q[i])
    <3>1. CASE i = 1
      BY <2>4, <2>5, <2>6, <3>1 DEF IsConfed
    <3>2. CASE i # 1
      <4>1. i \in DOMAIN path /\ q[i] = path[i]
        BY <2>1, <2>5, <3>2 DEF t
      <4>q. QED BY <2>6, <4>1 DEF HasConfed
    <3>q. QED BY <3>1, <3>2
  <2>q. QED BY <2>4, <2>5, <2>6 DEF HasConfed
<1>3. q = whole \/ (path # <<>> /\ q = grown)
  BY DEF InFront
<1>q. QED BY <1>1, <1>2, <1>3, Zenon

-----------------------------------------------------------------------------
(* The AS path and the other attributes that go on the wire.               *)

\* The AS number we put in front of a path for p.
FrontAs(p) == IF PeerType[p] = "External" THEN PublicAs ELSE LocalAs

LEMMA OutgoingPathIs ==
  ASSUME NEW p \in Peers, NEW path \in Seq(Segment), NEW q, q = OutgoingPath(p, path)
  PROVE  /\ q \in Seq(Segment)
         /\ PeerType[p] = "External" => ~HasConfed(q)
         /\ PeerType[p] = "ConfedMember" => q[1].kind = "ConfedSequence"
         /\ PeerType[p] # "Internal" =>
              Len(q) >= 1 /\ Len(q[1].asns) >= 1 /\ q[1].asns[1] = FrontAs(p)
<1>1. CASE PeerType[p] = "External"
  <2>1. q = InFront(StripConfed(path), "Sequence", PublicAs)
    BY <1>1 DEF OutgoingPath, Prepend
  <2>2. StripConfed(path) \in Seq(Segment) /\ ~HasConfed(StripConfed(path))
    BY StripConfedIs
  <2>3. "Sequence" \in SegmentKinds /\ PublicAs \in Nat
    BY PolicyAssumption DEF SegmentKinds
  <2>q. QED BY <1>1, <2>1, <2>2, <2>3, InFrontIs DEF FrontAs
<1>2. CASE PeerType[p] = "ConfedMember"
  <2>1. q = InFront(path, "ConfedSequence", LocalAs)
    BY <1>2 DEF OutgoingPath, PrependConfed
  <2>2. "ConfedSequence" \in SegmentKinds /\ LocalAs \in Nat
    BY PolicyAssumption DEF SegmentKinds
  <2>q. QED BY <1>2, <2>1, <2>2, InFrontIs DEF FrontAs
<1>3. CASE PeerType[p] \notin {"External", "ConfedMember"}
  <2>1. PeerType[p] = "Internal"
    BY <1>3, PolicyAssumption DEF PeerTypes
  <2>q. QED BY <1>3, <2>1 DEF OutgoingPath
<1>q. QED BY <1>1, <1>2, <1>3

\* What Presentable says of one table entry of a neighbour.
Fits(p, m) ==
  m # None =>
    /\ PeerType[p] = "External" =>
         ~HasConfed(m.path) /\ m.pref = None /\ m.med = None
    /\ PeerType[p] = "ConfedMember" => Head(m.path).kind = "ConfedSequence"
    /\ PeerType[p] # "Internal" =>
         /\ ~m.rr
         /\ Head(Head(m.path).asns) \in
              {Trans, IF PeerType[p] = "External" THEN PublicAs ELSE LocalAs}
    /\ p \in TwoByte => ~HasFourByte(m.path)
    /\ m.as4 # None => ~HasConfed(m.as4) /\ PathLength(m.as4) = PathLength(m.path)

LEMMA WireFits ==
  ASSUME NEW p \in Peers, NEW path \in Seq(Segment), NEW e, e.path = OutgoingPath(p, path),
         PeerType[p] = "External" => e.pref = None
  PROVE  Fits(p, Wire(p, e))
<1> SUFFICES ASSUME e # None PROVE Fits(p, Wire(p, e))
  BY Zenon DEF Fits, Wire
<1> DEFINE q == OutgoingPath(p, path)
           d == IF p \in TwoByte THEN Downgrade(q) ELSE [path |-> q, as4 |-> None]
           w == Wire(p, e)
<1>1. /\ w.path = d.path
      /\ w.as4 = IF d.as4 = None THEN None ELSE StripConfed(d.as4)
      /\ w.pref = e.pref
      /\ w.med = IF PeerType[p] = "External" THEN None ELSE e.med
      /\ w.rr = (e.rr /\ PeerType[p] = "Internal")
  BY DEF Wire
<1>2. /\ q \in Seq(Segment)
      /\ PeerType[p] = "External" => ~HasConfed(q)
      /\ PeerType[p] = "ConfedMember" => q[1].kind = "ConfedSequence"
      /\ PeerType[p] # "Internal" =>
           Len(q) >= 1 /\ Len(q[1].asns) >= 1 /\ q[1].asns[1] = FrontAs(p)
  BY OutgoingPathIs, ZenonT(40)
<1> HIDE DEF q, w
<1> DEFINE x == d.path
<1>3. /\ x \in Seq(Segment) /\ Len(x) = Len(q)
      /\ \A i \in 1..Len(q) :
           /\ x[i].kind = q[i].kind
           /\ Len(x[i].asns) = Len(q[i].asns)
           /\ \A j \in 1..Len(q[i].asns) : x[i].asns[j] \in {Trans, q[i].asns[j]}
      /\ p \in TwoByte => ~HasFourByte(x)
      /\ PathLength(x) = PathLength(q)
      /\ d.as4 \in {None, q}
  <2>1. CASE p \in TwoByte
    <3>1. d = Downgrade(q)
      BY <2>1
    <3> HIDE DEF d
    <3>2. Downgraded(q, d)
      BY <1>2, <3>1, DowngradeIs, ZenonT(40)
    <3>3. \A i \in 1..Len(q) : \A j \in 1..Len(q[i].asns) : x[i].asns[j] \in {Trans, q[i].asns[j]}
      BY <3>2, SMTT(40) DEF Downgraded
    <3>4. \A i \in 1..Len(q) : x[i].kind = q[i].kind /\ Len(x[i].asns) = Len(q[i].asns)
      BY <3>2, SMTT(40) DEF Downgraded
    <3>5. /\ x \in Seq(Segment) /\ Len(x) = Len(q) /\ ~HasFourByte(x)
          /\ PathLength(x) = PathLength(q) /\ d.as4 \in {None, q}
      BY <3>2, SMTT(40) DEF Downgraded
    <3> HIDE DEF x
    <3>q. QED BY <3>3, <3>4, <3>5, SMTT(40)
  <2>2. CASE p \notin TwoByte
    <3>1. x = q /\ d.as4 = None
      BY <2>2
    <3> HIDE DEF d
    <3>q. QED BY <1>2, <2>2, <3>1
  <2>q. QED BY <2>1, <2>2
<1> HIDE DEF d
<1>4. PeerType[p] = "External" => ~HasConfed(x)
  <2>1. DOMAIN x = 1..Len(q) /\ DOMAIN q = 1..Len(q)
    BY <1>2, <1>3
  <2>2. \A i \in 1..Len(q) : IsConfed(x[i]) <=> IsConfed(q[i])
    BY <1>3 DEF IsConfed
  <2> HIDE DEF x
  <2>q. QED BY <1>2, <2>1, <2>2, SMTT(40), ZenonT(40) DEF HasConfed
<1>5. PeerType[p] # "Internal" =>
        /\ Head(x).kind = q[1].kind
        /\ Head(Head(x).asns) \in {Trans, FrontAs(p)}
  <2> SUFFICES ASSUME PeerType[p] # "Internal"
               PROVE  Head(x).kind = q[1].kind /\ Head(Head(x).asns) \in {Trans, FrontAs(p)}
    OBVIOUS
  <2>1. Len(q) \in Nat /\ 1 \in 1..Len(q)
    BY <1>2
  <2>2. x[1] \in Segment /\ q[1] \in Segment
    BY <1>2, <1>3, <2>1, ElementOfSeq
  <2>3. x[1].asns \in Seq(Nat) /\ q[1].asns \in Seq(Nat)
    BY <2>2, SMTT(40) DEF Segment
  <2>4. 1 \in 1..Len(q[1].asns) /\ Len(x[1].asns) >= 1
    BY <1>2, <1>3, <2>1, <2>3, SMTT(40), ZenonT(40)
  <2>5. x[1].asns[1] \in {Trans, FrontAs(p)} /\ x[1].kind = q[1].kind
    BY <1>2, <1>3, <2>1, <2>4, SMTT(40), ZenonT(40)
  <2>6. Head(x) = x[1] /\ Head(x[1].asns) = x[1].asns[1]
    BY <1>3, <2>1, <2>3, <2>4, SMTT(40), ZenonT(40)
  <2>q. QED BY <2>5, <2>6
<1>6. w.as4 # None => ~HasConfed(w.as4) /\ PathLength(w.as4) = PathLength(x)
  <2>1. w.as4 # None => w.as4 = StripConfed(q)
    BY <1>1, <1>3
  <2>2. ~HasConfed(StripConfed(q)) /\ PathLength(StripConfed(q)) = PathLength(q)
    BY <1>2, StripConfedIs, StrippedLength
  <2>q. QED BY <1>3, <2>1, <2>2, SMTT(40), ZenonT(40)
<1> HIDE DEF x
<1>7. w.path = x
  BY <1>1 DEF x
<1>8. PeerType[p] # "Internal" => ~w.rr
  BY <1>1, ZenonT(40)
<1>9. Fits(p, w)
  BY <1>1, <1>2, <1>3, <1>4, <1>5, <1>6, <1>7, <1>8 DEF Fits, FrontAs
<1>q. QED BY <1>9, SMTT(40) DEF w

-----------------------------------------------------------------------------
(* Numbers and finite sets.                                                *)

LEMMA MinOf ==
  ASSUME NEW S \in SUBSET Nat, S # {}
  PROVE  Min(S) \in S /\ \A y \in S : Min(S) <= y
BY LeastOf, Zenon DEF Min

\* A sequence made of a finite set has every element once.
LEMMA SequenceOf ==
  ASSUME NEW S, IsFiniteSet(S),
         NEW s, s = CHOOSE x \in Injection(1..Cardinality(S), S) : TRUE
  PROVE  /\ s \in Seq(S)
         /\ \A x \in S : \E i \in DOMAIN s : s[i] = x
         /\ \A i, j \in DOMAIN s : s[i] = s[j] => i = j
<1> DEFINE k == Cardinality(S)
<1>1. k \in Nat /\ ExistsBijection(1..k, S)
  BY FS_CardinalityType
<1>2. PICK g \in Bijection(1..k, S) : TRUE
  BY <1>1 DEF ExistsBijection
<1>3. g \in Injection(1..k, S)
  BY <1>2, Zenon DEF Bijection
<1>4. s \in Injection(1..k, S)
  BY <1>3, Zenon
<1>5. s \in [1..k -> S] /\ IsInjective(s)
  BY <1>4, Zenon DEF Injection
<1>6. Cardinality(1..k) = k
  BY <1>1, FS_Interval, SMTT(40)
<1>7. s \in Surjection(1..k, S)
  BY <1>4, <1>6, FS_Injection, SMTT(40)
<1>q. QED BY <1>1, <1>5, <1>7, IsSequence, ZenonT(40) DEF IsInjective, Surjection

-----------------------------------------------------------------------------
(* Routes and entries.                                                     *)

LEMMA RoutesHavePaths ==
  ASSUME NEW n \in Nlris, NEW r \in RoutesOf(Peers, n)
  PROVE  r.path \in Seq(Segment)
<1>1. CASE r \in Originated[n]
  <2>1. PICK a \in Announcements[Local][n] : r = WithSrc(a, Local)
    BY <1>1, SMTT(40) DEF Originated
  <2>2. r.path = a.path
    BY <2>1 DEF WithSrc
  <2>q. QED BY <2>2, OutboundAssumption, SMTT(40) DEF Nlris
<1>2. ASSUME NEW p \in Peers, r \in Learned[p][n] PROVE r.path \in Seq(Segment)
  <2>1. PICK a \in Announcements[p][n] : r = ImportPolicy(p, WithSrc(a, p), FALSE, TRUE)
    BY <1>2, Zenon DEF Learned
  <2> DEFINE w == WithSrc(a, p)
  <2>2. w.path = a.path /\ DOMAIN w = RouteFields
    BY WithSrcFields, ZenonT(40) DEF WithSrc
  <2>3. r # None
    BY <1>2 DEF Learned
  <2>4. r \in {w, SetOtc(w, Asn[p])}
    BY <2>1, <2>3 DEF ImportPolicy
  <2> HIDE DEF w
  <2>5. SetOtc(w, Asn[p]).path = w.path
    BY <2>2 DEF SetOtc, RouteFields
  <2>q. QED BY <2>2, <2>4, <2>5, OutboundAssumption, SMTT(40) DEF Nlris
<1>q. QED BY <1>1, <1>2, SMTT(40) DEF RoutesOf

\* Whatever is exported fits.
LEMMA EntryFits ==
  ASSUME NEW p \in Peers, NEW n \in Nlris, NEW b, b[n] \in {None} \cup RoutesOf(Peers, n),
         NEW acc, NEW addr
  PROVE  Fits(p, Wire(p, Entry(p, n, b, acc, addr)))
<1> DEFINE e == Entry(p, n, b, acc, addr)
           r == b[n]
<1> SUFFICES ASSUME e # None PROVE Fits(p, Wire(p, e))
  BY Zenon DEF Fits, Wire
<1>1. r # None
  BY SMTT(40), ZenonT(40) DEF Entry, Exported, ExportedV6
<1>2. PICK o \in {Outgoing(p, r, addr), OutgoingV6(p, r, addr)} :
        e = Filter(p, ExportPolicy(p, o, acc))
  BY <1>1 DEF Entry, Exported, ExportedV6
<1>3. DOMAIN r = RouteFields /\ r.path \in Seq(Segment)
  BY <1>1, RoutesAreLocRoutes, RoutesHavePaths, SMTT(40) DEF LocRoute
<1> DEFINE u == OutgoingUnnumbered(p, r)
<1> HIDE DEF r, e
<1>4. /\ DOMAIN u = RouteFields /\ u.path = OutgoingPath(p, r.path)
      /\ PeerType[p] = "External" => u.pref = None
  BY <1>3 DEF OutgoingUnnumbered, RouteFields
<1> HIDE DEF u
<1>5. PICK nh : o \in {u, [u EXCEPT !.nh = nh]}
  BY DEF Outgoing, OutgoingV6, u
<1>6. DOMAIN o = RouteFields /\ o.path = u.path /\ o.pref = u.pref
  BY <1>4, <1>5, SMTT(40), ZenonT(40) DEF RouteFields
<1>7. e \in {o, SetOtc(o, LocalAs)}
  BY <1>2 DEF Filter, ExportPolicy
<1>8. SetOtc(o, LocalAs).path = o.path /\ SetOtc(o, LocalAs).pref = o.pref
  BY <1>6 DEF SetOtc, RouteFields
<1>9. e.path = OutgoingPath(p, r.path) /\ (PeerType[p] = "External" => e.pref = None)
  BY <1>4, <1>6, <1>7, <1>8, SMTT(40)
<1>q. QED BY <1>3, <1>9, WireFits, SMTT(40)

-----------------------------------------------------------------------------
(* Batches and their UPDATEs.                                              *)

Of(f) == IF f = "v6" THEN V6 ELSE V4

\* The entries an Adj-RIB-Out of p can get, and the decisions about them.
Exports(p) ==
  {Entry(p, n, b, acc, addr) : n \in Nlris, b \in Outcomes(Nlris, Peers),
                               acc \in BOOLEAN, addr \in {"self", "id"}}

Decision(p, f) == [n : Of(f), e : Exports(p)]

LEMMA ExportsFit ==
  ASSUME NEW p \in Peers, NEW e \in Exports(p)
  PROVE  Fits(p, Wire(p, e))
<1>1. PICK n \in Nlris, b \in Outcomes(Nlris, Peers), acc \in BOOLEAN, addr \in {"self", "id"} :
        e = Entry(p, n, b, acc, addr)
  BY DEF Exports
<1>2. b[n] \in {None} \cup RoutesOf(Peers, n)
  BY DEF Outcomes
<1>q. QED BY <1>1, <1>2, EntryFits, SMTT(40)

\* Two routes of one group with one next hop look alike on the wire.
LEMMA KeyTells ==
  ASSUME NEW p, NEW f, NEW d, NEW e, d # None, e # None,
         Key(f, Wire(p, d)) = Key(f, Wire(p, e)), f = "v6" => d.nh = e.nh
  PROVE  Wire(p, d) = Wire(p, e)
<1>1. CASE f # "v6"
  BY <1>1 DEF Key
<1>2. CASE f = "v6"
  <2> DEFINE F == {"path", "as4", "nh", "pref", "med", "otc", "comms", "rr", "rest"}
             w == Wire(p, d)
             x == Wire(p, e)
  <2>1. /\ DOMAIN w = F /\ w = [k \in F |-> w[k]] /\ w.nh = d.nh
        /\ DOMAIN x = F /\ x = [k \in F |-> x[k]] /\ x.nh = e.nh
    BY ZenonT(40) DEF Wire
  <2>2. [w EXCEPT !.nh = None] = [x EXCEPT !.nh = None]
    BY <1>2 DEF Key
  <2> HIDE DEF w, x
  <2>3. \A k \in F \ {"nh"} : w[k] = [w EXCEPT !.nh = None][k] /\ x[k] = [x EXCEPT !.nh = None][k]
    BY <2>1, Zenon
  <2>4. \A k \in F : w[k] = x[k]
    BY <1>2, <2>1, <2>2, <2>3
  <2> HIDE DEF F
  <2>5. w = x
    BY <2>1, <2>4
  <2>q. QED BY <2>5, ZenonT(40) DEF w, x
<1>q. QED BY <1>1, <1>2

LEMMA GroupsAre ==
  ASSUME NEW p, NEW f, NEW D, NEW ds \in Seq(D), NEW g, g = Groups(p, f, ds)
  PROVE  /\ DOMAIN g = DOMAIN ds
         /\ \A i \in DOMAIN ds :
              /\ ds[i].e = None => g[i] = 0
              /\ ds[i].e # None =>
                   /\ g[i] \in DOMAIN ds /\ g[i] # 0
                   /\ ds[g[i]].e # None
                   /\ Key(f, Wire(p, ds[g[i]].e)) = Key(f, Wire(p, ds[i].e))
<1> DEFINE T(i) == {j \in DOMAIN ds : ds[j].e # None /\ Key(f, Wire(p, ds[j].e)) = Key(f, Wire(p, ds[i].e))}
<1>1. g = [i \in DOMAIN ds |-> IF ds[i].e = None THEN 0 ELSE Min(T(i))]
  BY DEF Groups
<1>2. ASSUME NEW i \in DOMAIN ds, ds[i].e # None PROVE Min(T(i)) \in T(i)
  <2>1. T(i) \in SUBSET Nat /\ i \in T(i)
    BY <1>2
  <2> HIDE DEF T
  <2>q. QED BY <2>1, MinOf
<1>3. \A i \in DOMAIN ds : i # 0
  OBVIOUS
<1>q. QED BY <1>1, <1>2, <1>3, SMTT(40)

\* What the sender may rely on.
IsMessages(ms) == ms.len \in Nat /\ \A s \in ms.says : s.at \in Nat /\ s.at <= ms.len

LEMMA EndOfRibIs == IsMessages(EndOfRib) /\ EndOfRib.says = {} /\ EndOfRib.len = 1
BY DEF IsMessages, EndOfRib

LEMMA MessagesAre ==
  ASSUME NEW p, NEW f, NEW D, NEW ds \in Seq(D), NEW ms, ms = Messages(p, f, ds),
         NEW g, g = Groups(p, f, ds)
  PROVE  /\ IsMessages(ms)
         /\ ds = <<>> => ms.len = 0
         /\ \A i \in DOMAIN ds : \E s \in ms.says : s.n = ds[i].n
         /\ \A s \in ms.says : \E i \in DOMAIN ds :
              /\ s.n = ds[i].n
              /\ s.wire = IF g[i] = 0 THEN None ELSE Wire(p, ds[g[i]].e)
<1> DEFINE O == Openers(f, g)
           B(i) == {j \in O : g[j] < g[i] \/ (g[j] = g[i] /\ j <= i)}
           S(i) == [at |-> Cardinality(B(i)), n |-> ds[i].n,
                    wire |-> IF g[i] = 0 THEN None ELSE Wire(p, ds[g[i]].e)]
<1>1. ms = [len |-> Cardinality(O), says |-> {S(i) : i \in DOMAIN ds}]
  BY DEF Messages
<1>2. DOMAIN g = 1..Len(ds) /\ Len(ds) \in Nat
  BY GroupsAre
<1>3. O \in SUBSET (1..Len(ds))
  BY <1>2 DEF Openers
<1>4. IsFiniteSet(O)
  <2>1. IsFiniteSet(1..Len(ds))
    BY <1>2, FS_Interval
  <2>q. QED BY <1>3, <2>1, FS_Subset
<1> HIDE DEF O
<1>5. Cardinality(O) \in Nat
  BY <1>4, FS_CardinalityType
<1>6. ASSUME NEW i \in DOMAIN ds PROVE Cardinality(B(i)) \in Nat /\ Cardinality(B(i)) <= Cardinality(O)
  <2>1. B(i) \in SUBSET O
    OBVIOUS
  <2> HIDE DEF B
  <2>q. QED BY <1>4, <2>1, FS_Subset, FS_CardinalityType
<1>7. ASSUME ds = <<>> PROVE Cardinality(O) = 0
  <2>1. Len(ds) = 0
    BY <1>7
  <2>2. O = {}
    BY <1>3, <2>1
  <2>q. QED BY <2>2, FS_EmptySet
<1> HIDE DEF B
<1>8. \A i \in DOMAIN ds : /\ S(i).at = Cardinality(B(i)) /\ S(i).n = ds[i].n
                          /\ S(i).wire = IF g[i] = 0 THEN None ELSE Wire(p, ds[g[i]].e)
  OBVIOUS
<1> HIDE DEF S
<1>9. ms.len = Cardinality(O) /\ ms.says = {S(i) : i \in DOMAIN ds}
  BY <1>1
<1>q. QED BY <1>5, <1>6, <1>7, <1>8, <1>9, ZenonT(40) DEF IsMessages

\* The table v became a on hearing messages of ms, all of them if k is ms.len.
Heard(v, ms, k, a) ==
  /\ DOMAIN a = Nlris
  /\ \A n \in Nlris :
       /\ (\A s \in ms.says : s.n # n) => a[n] = v[n]
       /\ a[n] = v[n] \/ \E s \in ms.says : s.n = n /\ a[n] = s.wire
       /\ k = ms.len /\ (\E s \in ms.says : s.n = n) =>
            \E s \in ms.says : s.n = n /\ a[n] = s.wire

LEMMA ApplyIs ==
  ASSUME NEW v, NEW ms, IsMessages(ms), NEW k, NEW a, a = Apply(v, ms, k)
  PROVE  Heard(v, ms, k, a)
<1> DEFINE H(n) == {s \in ms.says : s.n = n /\ s.at <= k}
<1>1. a = [n \in Nlris |-> IF H(n) = {} THEN v[n]
                           ELSE (CHOOSE s \in H(n) : \A t \in H(n) : t.at <= s.at).wire]
  BY DEF Apply
<1>2. ASSUME NEW n \in Nlris, H(n) # {}
      PROVE  (CHOOSE s \in H(n) : \A t \in H(n) : t.at <= s.at) \in H(n)
  <2> DEFINE T == {s.at : s \in H(n)}
  <2>1. T \in SUBSET Nat /\ T # {} /\ \A t \in T : t <= ms.len
    BY <1>2 DEF IsMessages
  <2>2. PICK m \in T : \A y \in T : y <= m
    BY <2>1, GreatestOf, Zenon DEF IsMessages
  <2>3. PICK s \in H(n) : s.at = m
    BY <2>2
  <2>4. \A t \in H(n) : t.at <= s.at
    BY <2>2, <2>3
  <2> HIDE DEF H
  <2>q. QED BY <2>4
<1>3. ASSUME NEW n \in Nlris, H(n) # {}
      PROVE  \E s \in ms.says : s.n = n /\ a[n] = s.wire
  BY <1>1, <1>2, <1>3, Zenon
<1>4. \A n \in Nlris : H(n) = {} => a[n] = v[n]
  BY <1>1
<1>5. \A n \in Nlris : k = ms.len /\ (\E s \in ms.says : s.n = n) => H(n) # {}
  BY DEF IsMessages
<1>6. \A n \in Nlris : (\A s \in ms.says : s.n # n) => H(n) = {}
  OBVIOUS
<1>7. DOMAIN a = Nlris
  BY <1>1
<1> HIDE DEF H
<1>q. QED BY <1>3, <1>4, <1>5, <1>6, <1>7 DEF Heard

-----------------------------------------------------------------------------
(* Sending.                                                                *)

Marks == {"closed", "ok", "stalled", "stopping"}

\* The types of one peer's record; what its neighbour was told fits.
Shape(p, o) ==
  /\ IsOut(o)
  /\ o.mark \in Marks
  /\ o.window \subseteq V4 /\ o.held \subseteq V4
  /\ o.queued \in 0..Capacity
  /\ DOMAIN o.pending = Family
  /\ \A f \in Family : o.pending[f] \in Seq(Decision(p, f))
  /\ \A n \in Nlris : Fits(p, o.view[n])

Buffered(o, n) ==
  \E i \in DOMAIN o.pending[FamilyOf(n)] : o.pending[FamilyOf(n)][i].n = n

\* The neighbour of a healthy session believes the Adj-RIB-Out, but for X.
Agree(p, o, X) ==
  o.mark = "ok" =>
    \A n \in Nlris \ X :
      \/ n \in V6 /\ p \notin V6Peers
      \/ n \in o.held \cup o.skew
      \/ Buffered(o, n)
      \/ o.view[n] = Wire(p, o.adj[n])

\* Sending leaves the tables and timers alone, and a closed channel closed.
Same(o, o2) ==
  /\ o2.adj = o.adj /\ o2.window = o.window /\ o2.held = o.held
  /\ o2.pending = o.pending /\ o2.owed = o.owed

Linked(o, o2) ==
  /\ o2.mark = "closed" <=> o.mark = "closed"
  /\ o.mark = "closed" => o2.view = o.view

LEMMA LinkedTwice ==
  ASSUME NEW o, NEW o1, NEW o2, Linked(o, o1), Linked(o1, o2)
  PROVE  Linked(o, o2)
BY SMTT(40), ZenonT(40) DEF Linked

\* A healthy channel was healthy before, and its neighbour heard of the
\* prefixes of ms and of no other.
Conveyed(o, ms, o2) ==
  o2.mark = "ok" =>
    /\ o.mark = "ok"
    /\ \A n \in Nlris :
         IF \E s \in ms.says : s.n = n
         THEN \E s \in ms.says : s.n = n /\ o2.view[n] = s.wire
         ELSE o2.view[n] = o.view[n]

LEMMA SendIs ==
  ASSUME NEW p, NEW o, Shape(p, o), NEW ms, IsMessages(ms), \A s \in ms.says : Fits(p, s.wire),
         NEW o2, o2 = TrySend(o, ms)
  PROVE  /\ Shape(p, o2) /\ Same(o, o2) /\ Linked(o, o2) /\ o2.skew = o.skew
         /\ Overflows(o, ms) => o2.mark = "stalled"
         /\ Conveyed(o, ms, o2)
<1>1. CASE o.mark = "closed"
  <2>1. o2 = o /\ ~Overflows(o, ms)
    BY <1>1, SMTT(40), ZenonT(40) DEF TrySend, Overflows
  <2>q. QED BY <1>1, <2>1, SMTT(40) DEF Same, Linked, Conveyed
<1>2. CASE o.mark # "closed"
  <2> DEFINE k == IF Overflows(o, ms) THEN Capacity - o.queued ELSE ms.len
             a == Apply(o.view, ms, k)
             q == o.queued + k
             m == IF Overflows(o, ms) THEN "stalled" ELSE o.mark
  <2>1. o2 = [o EXCEPT !.queued = q, !.view = a, !.mark = m]
    BY <1>2, SMTT(40) DEF TrySend
  <2>2. q \in 0..Capacity
    BY <1>2, OutboundAssumption, SMTT(40), ZenonT(40) DEF Shape, IsMessages, Overflows
  <2>3. m \in Marks /\ m # "closed"
    BY <1>2, SMTT(40) DEF Shape, Marks
  <2>4. Heard(o.view, ms, k, a)
    BY ApplyIs, SMTT(40)
  <2>5. Overflows(o, ms) => m = "stalled"
    OBVIOUS
  <2>6. m = "ok" => o.mark = "ok" /\ k = ms.len
    OBVIOUS
  <2> HIDE DEF k, a, q, m
  <2>7. /\ DOMAIN o2 = OutFields
        /\ o2.queued = q /\ o2.view = a /\ o2.mark = m /\ o2.skew = o.skew
        /\ o2.adj = o.adj /\ o2.window = o.window /\ o2.held = o.held
        /\ o2.pending = o.pending /\ o2.owed = o.owed
    BY <2>1 DEF Shape, IsOut, OutFields
  <2>8. \A n \in Nlris : Fits(p, a[n])
    BY <2>4, SMTT(40), ZenonT(40) DEF Shape, Heard
  <2>9. Shape(p, o2)
    BY <2>2, <2>3, <2>7, <2>8, SMTT(40), ZenonT(40) DEF Shape, IsOut
  <2>10. Same(o, o2) /\ Linked(o, o2)
    BY <1>2, <2>3, <2>7, SMTT(40), ZenonT(40) DEF Same, Linked
  <2>11. Conveyed(o, ms, o2)
    BY <2>4, <2>6, <2>7 DEF Heard, Conveyed
  <2>q. QED BY <2>5, <2>6, <2>7, <2>9, <2>10, <2>11, SMTT(40), ZenonT(40)
<1>q. QED BY <1>1, <1>2, SMTT(40), ZenonT(40)

Named(ds) == {ds[i].n : i \in DOMAIN ds}

\* What the UPDATEs of a batch say of a prefix that is not Bad is its entry.
LEMMA MessagesSayEntries ==
  ASSUME NEW p, NEW f, NEW D, NEW ds \in Seq(D), NEW o,
         NEW s \in Messages(p, f, ds).says, s.n \in Nlris, s.n \notin Bad(p, f, o, ds)
  PROVE  s.wire = Wire(p, o.adj[s.n])
<1> DEFINE g == Groups(p, f, ds)
<1>1. PICK i \in DOMAIN ds : /\ s.n = ds[i].n
                             /\ s.wire = IF g[i] = 0 THEN None ELSE Wire(p, ds[g[i]].e)
  BY MessagesAre
<1>2. ds[i].e = o.adj[s.n] /\ ~(f = "v6" /\ g[i] # 0 /\ ds[g[i]].e.nh # ds[i].e.nh)
  BY <1>1, ZenonT(40) DEF Bad
<1>3. /\ ds[i].e = None => g[i] = 0
      /\ ds[i].e # None =>
           /\ g[i] \in DOMAIN ds /\ g[i] # 0
           /\ ds[g[i]].e # None
           /\ Key(f, Wire(p, ds[g[i]].e)) = Key(f, Wire(p, ds[i].e))
  BY GroupsAre, SMTT(40)
<1> HIDE DEF g
<1>4. CASE ds[i].e = None
  BY <1>1, <1>2, <1>3, <1>4, ZenonT(40) DEF Wire
<1>5. CASE ds[i].e # None
  <2>1. Wire(p, ds[g[i]].e) = Wire(p, ds[i].e)
    BY <1>2, <1>3, <1>5, KeyTells
  <2>q. QED BY <1>1, <1>2, <1>3, <1>5, <2>1, ZenonT(40)
<1>q. QED BY <1>4, <1>5, ZenonT(40)

LEMMA MessagesFit ==
  ASSUME NEW p \in Peers, NEW f, NEW ds \in Seq(Decision(p, f)), NEW s \in Messages(p, f, ds).says
  PROVE  Fits(p, s.wire)
<1> DEFINE g == Groups(p, f, ds)
<1>1. PICK i \in DOMAIN ds : s.wire = IF g[i] = 0 THEN None ELSE Wire(p, ds[g[i]].e)
  BY MessagesAre
<1>2. g[i] = 0 \/ g[i] \in DOMAIN ds
  BY GroupsAre
<1> HIDE DEF g
<1>3. CASE g[i] = 0
  BY <1>1, <1>3 DEF Fits
<1>4. CASE g[i] # 0
  <2>1. ds[g[i]] \in Decision(p, f)
    BY <1>2, <1>4, ElementOfSeq
  <2>2. ds[g[i]].e \in Exports(p)
    BY <2>1 DEF Decision
  <2>q. QED BY <1>1, <1>4, <2>2, ExportsFit
<1>q. QED BY <1>3, <1>4, ZenonT(40)

\* A flushed batch settles its prefixes.
LEMMA FlushUpdatesIs ==
  ASSUME NEW p \in Peers, NEW f, NEW ds \in Seq(Decision(p, f)), NEW o, Shape(p, o),
         NEW X, Agree(p, o, X \cup Named(ds)), NEW o2, o2 = FlushUpdates(p, f, o, ds)
  PROVE  /\ Shape(p, o2) /\ Same(o, o2) /\ Linked(o, o2) /\ Agree(p, o2, X)
         /\ Overflows(o, Messages(p, f, ds)) => o2.mark = "stalled"
<1> DEFINE ms == Messages(p, f, ds)
           sk == (o.skew \ Named(ds)) \cup Bad(p, f, o, ds)
           o1 == [o EXCEPT !.skew = sk]
<1>1. /\ IsMessages(ms)
      /\ ds = <<>> => ms.len = 0
      /\ \A i \in DOMAIN ds : \E s \in ms.says : s.n = ds[i].n
      /\ \A s \in ms.says : s.n \in Named(ds)
  BY MessagesAre DEF Named
<1>2. CASE ds = <<>>
  <2>1. o2 = o /\ Named(ds) = {}
    BY <1>2 DEF FlushUpdates, Named
  <2>2. ~Overflows(o, ms)
    BY <1>1, <1>2, OutboundAssumption DEF Overflows, Shape
  <2>3. Agree(p, o, X)
    BY <2>1 DEF Agree
  <2> HIDE DEF ms
  <2>q. QED BY <2>1, <2>2, <2>3 DEF Same, Linked, ms
<1>3. CASE ds # <<>>
  <2>1. o2 = TrySend(o1, ms)
    BY <1>3 DEF FlushUpdates, Named
  <2>2. \A s \in ms.says : Fits(p, s.wire)
    BY MessagesFit
  <2>3. \A s \in ms.says : s.n \in Nlris /\ s.n \notin Bad(p, f, o, ds) => s.wire = Wire(p, o.adj[s.n])
    BY MessagesSayEntries
  <2> HIDE DEF ms, sk
  <2>4. /\ DOMAIN o1 = OutFields
        /\ o1.queued = o.queued /\ o1.view = o.view /\ o1.mark = o.mark /\ o1.skew = sk
        /\ o1.adj = o.adj /\ o1.window = o.window /\ o1.held = o.held
        /\ o1.pending = o.pending /\ o1.owed = o.owed
    BY DEF Shape, IsOut, OutFields
  <2> HIDE DEF o1
  <2>5. Shape(p, o1) /\ Same(o, o1) /\ Linked(o, o1)
    BY <2>4 DEF Shape, IsOut, Same, Linked
  <2>6. /\ Shape(p, o2) /\ Same(o1, o2) /\ Linked(o1, o2) /\ o2.skew = o1.skew
        /\ Overflows(o1, ms) => o2.mark = "stalled"
        /\ Conveyed(o1, ms, o2)
    BY <1>1, <2>1, <2>2, <2>5, SendIs, ZenonT(40)
  <2>7. Same(o, o2) /\ Linked(o, o2)
    BY <2>5, <2>6, LinkedTwice, ZenonT(40) DEF Same
  <2>8. Overflows(o, ms) => o2.mark = "stalled"
    BY <2>4, <2>6 DEF Overflows
  <2>9. Agree(p, o2, X)
    <3> SUFFICES ASSUME o2.mark = "ok", NEW n \in Nlris \ X, n \notin o2.skew
                 PROVE  \/ n \in V6 /\ p \notin V6Peers
                        \/ n \in o2.held
                        \/ Buffered(o2, n)
                        \/ o2.view[n] = Wire(p, o2.adj[n])
      BY DEF Agree
    <3>1. CASE n \in Named(ds)
      <4>1. PICK s \in ms.says : s.n = n /\ o2.view[n] = s.wire
        <5>1. \E s \in ms.says : s.n = n
          BY <1>1, <3>1, ZenonT(40) DEF Named
        <5>q. QED BY <2>6, <5>1, ZenonT(40) DEF Conveyed
      <4>2. n \notin Bad(p, f, o, ds)
        BY <2>4, <2>6, ZenonT(40) DEF sk
      <4>q. QED BY <2>3, <2>7, <4>1, <4>2, ZenonT(40) DEF Same
    <3>2. CASE n \notin Named(ds)
      <4>1. o2.view[n] = o.view[n] /\ o.mark = "ok"
        <5>1. ~\E s \in ms.says : s.n = n
          BY <1>1, <3>2, ZenonT(40)
        <5>2. o2.view[n] = o1.view[n] /\ o1.mark = "ok"
          BY <2>6, <5>1, ZenonT(40) DEF Conveyed
        <5>q. QED BY <2>4, <5>2, ZenonT(40)
      <4>2. n \notin o.skew
        BY <2>4, <2>6, <3>2, ZenonT(40) DEF sk
      <4>3. \/ n \in V6 /\ p \notin V6Peers
            \/ n \in o.held
            \/ Buffered(o, n)
            \/ o.view[n] = Wire(p, o.adj[n])
        BY <3>2, <4>1, <4>2, ZenonT(40) DEF Agree
      <4>4. Buffered(o, n) => Buffered(o2, n)
        BY <2>7 DEF Same, Buffered
      <4>q. QED BY <2>7, <4>1, <4>3, <4>4, ZenonT(40) DEF Same
    <3>q. QED BY <3>1, <3>2
  <2>q. QED BY <2>6, <2>7, <2>8, <2>9 DEF ms
<1>q. QED BY <1>2, <1>3, ZenonT(40)

-----------------------------------------------------------------------------
(* The ways to tell a peer.                                                *)

\* New entries for the prefixes of one family.
IsEntries(p, f, e) ==
  f \in Family /\ DOMAIN e \subseteq Of(f) /\ \A n \in DOMAIN e : e[n] \in Exports(p)

LEMMA DecisionsAre ==
  ASSUME NEW p, NEW f, NEW e, IsEntries(p, f, e), NEW o
  PROVE  Decisions(o, e) \in Seq(Decision(p, f)) /\ Named(Decisions(o, e)) = Changed(o, e)
<1> DEFINE D == {[n |-> n, e |-> e[n]] : n \in Changed(o, e)}
           ds == Decisions(o, e)
<1>1. Changed(o, e) \subseteq DOMAIN e /\ DOMAIN e \subseteq V4 \cup V6
  BY DEF Changed, IsEntries, Of
<1>2. IsFiniteSet(Changed(o, e))
  BY <1>1, OutboundAssumption, FS_Subset
<1>3. IsFiniteSet(D)
  <2> DEFINE h == [n \in Changed(o, e) |-> [n |-> n, e |-> e[n]]]
  <2>1. h \in Surjection(Changed(o, e), D)
    BY DEF Surjection
  <2> HIDE DEF D, h
  <2>q. QED BY <1>2, <2>1, FS_Surjection
<1>4. ds = CHOOSE x \in Injection(1..Cardinality(D), D) : TRUE
  BY DEF Decisions
<1>5. \A d \in D : d.n \in Changed(o, e) /\ d \in Decision(p, f)
  BY <1>1 DEF Decision, IsEntries
<1>6. ASSUME NEW n \in Changed(o, e) PROVE \E d \in D : d.n = n
  <2> DEFINE d == [n |-> n, e |-> e[n]]
  <2>1. d \in D /\ d.n = n
    OBVIOUS
  <2> HIDE DEF D, d
  <2>q. QED BY <2>1
<1> HIDE DEF D
<1>7. ds \in Seq(D) /\ \A d \in D : \E i \in DOMAIN ds : ds[i] = d
  BY <1>3, <1>4, SequenceOf, ZenonT(40)
<1> HIDE DEF ds
<1>8. \A i \in DOMAIN ds : ds[i] \in D
  BY <1>7, ElementOfSeq
<1>9. ds \in Seq(Decision(p, f))
  BY <1>5, <1>7
<1>10. Named(ds) = Changed(o, e)
  BY <1>5, <1>6, <1>7, <1>8, ZenonT(40) DEF Named
<1>q. QED BY <1>9, <1>10 DEF ds

\* Put writes the entries that change, and nothing of the channel.
Written(o, e, u) ==
  /\ u.mark = o.mark /\ u.queued = o.queued /\ u.view = o.view /\ u.skew = o.skew
  /\ u.pending = o.pending /\ u.held = o.held /\ u.window = o.window
  /\ \A n \in Nlris : u.adj[n] = IF n \in Changed(o, e) THEN e[n] ELSE o.adj[n]

LEMMA PutAgrees ==
  ASSUME NEW p, NEW o, Shape(p, o), NEW X, Agree(p, o, X), NEW e, DOMAIN e \subseteq Nlris,
         NEW u, u = Put(o, e)
  PROVE  /\ Shape(p, u) /\ Linked(o, u) /\ Agree(p, u, X \cup Changed(o, e))
         /\ Written(o, e, u)
<1> DEFINE a == Updated(o.adj, e)
           w == o.owed \ DOMAIN e
<1>1. u = [o EXCEPT !.adj = a, !.owed = w]
  BY ZenonT(40) DEF Put
<1>2. /\ DOMAIN a = Nlris /\ a = [n \in Nlris |-> a[n]]
      /\ \A n \in Nlris : a[n] = IF n \in Changed(o, e) THEN e[n] ELSE o.adj[n]
  BY DEF Updated, Shape, IsOut, Changed
<1> HIDE DEF a, w
<1>3. /\ DOMAIN u = OutFields
      /\ u.adj = a /\ u.mark = o.mark /\ u.queued = o.queued /\ u.view = o.view /\ u.skew = o.skew
      /\ u.pending = o.pending /\ u.held = o.held /\ u.window = o.window
  BY <1>1 DEF Shape, IsOut, OutFields
<1>4. Shape(p, u) /\ Linked(o, u)
  BY <1>2, <1>3, SMTT(40), ZenonT(40) DEF Shape, IsOut, Linked
<1>5. Agree(p, u, X \cup Changed(o, e))
  BY <1>2, <1>3, SMTT(40) DEF Agree, Buffered
<1>q. QED BY <1>2, <1>3, <1>4, <1>5 DEF Written

\* What is sent at once leaves nothing open.
LEMMA SentAgrees ==
  ASSUME NEW p \in Peers, NEW o, Shape(p, o), NEW X, Agree(p, o, X), NEW f, NEW e, IsEntries(p, f, e),
         NEW o2, o2 = FlushUpdates(p, f, Put(o, e), Decisions(o, e))
  PROVE  /\ Shape(p, o2) /\ Linked(o, o2) /\ Agree(p, o2, X) /\ o2.pending = o.pending
         /\ Overflows(o, Messages(p, f, Decisions(o, e))) => o2.mark = "stalled"
<1> DEFINE u == Put(o, e)
           ds == Decisions(o, e)
<1>1. DOMAIN e \subseteq Nlris
  BY SMTT(40) DEF IsEntries, Of, Nlris
<1>2. /\ Shape(p, u) /\ Linked(o, u) /\ Agree(p, u, X \cup Changed(o, e))
      /\ u.mark = o.mark /\ u.queued = o.queued /\ u.pending = o.pending
  <2>1. u = Put(o, e)
    BY Zenon
  <2> HIDE DEF u, ds
  <2>2. Shape(p, u) /\ Linked(o, u) /\ Agree(p, u, X \cup Changed(o, e)) /\ Written(o, e, u)
    BY <1>1, <2>1, PutAgrees, ZenonT(40)
  <2>q. QED BY <2>2, ZenonT(40) DEF Written
<1>3. ds \in Seq(Decision(p, f)) /\ Named(ds) = Changed(o, e)
  BY DecisionsAre
<1>4. o2 = FlushUpdates(p, f, u, ds)
  OBVIOUS
<1> HIDE DEF u, ds
<1>5. /\ Shape(p, o2) /\ Same(u, o2) /\ Linked(u, o2) /\ Agree(p, o2, X)
      /\ Overflows(u, Messages(p, f, ds)) => o2.mark = "stalled"
  BY <1>2, <1>3, <1>4, FlushUpdatesIs, Zenon
<1>6. Linked(o, o2)
  BY <1>2, <1>5, LinkedTwice
<1>7. Overflows(o, Messages(p, f, ds)) => Overflows(u, Messages(p, f, ds))
  BY <1>2 DEF Overflows
<1>q. QED BY <1>2, <1>5, <1>6, <1>7, ZenonT(40) DEF Same, ds

\* A prefix that joins a buffer is buffered, and so is what was before.
Appended(o, f, ds, o2) ==
  /\ DOMAIN o2.pending = Family
  /\ \A g \in Family : o2.pending[g] = IF g = f THEN o.pending[f] \o ds ELSE o.pending[g]

\* The buffers keep their types, and hold what they held and S.
Buffers(p, o, S, o2) ==
  /\ \A g \in Family : o2.pending[g] \in Seq(Decision(p, g))
  /\ \A n \in Nlris : Buffered(o, n) \/ n \in S => Buffered(o2, n)

LEMMA BufferedMore ==
  ASSUME NEW p, NEW o, Shape(p, o), NEW f \in Family, NEW ds \in Seq(Decision(p, f)),
         NEW o2, Appended(o, f, ds, o2)
  PROVE  Buffers(p, o, Named(ds), o2)
<1> DEFINE s == o.pending[f]
<1>1. s \in Seq(Decision(p, f))
  BY DEF Shape
<1>2. s \o ds \in Seq(Decision(p, f))
  BY <1>1, SMTT(40), ZenonT(40)
<1>3. /\ \A i \in DOMAIN s : i \in DOMAIN (s \o ds) /\ (s \o ds)[i] = s[i]
      /\ \A i \in DOMAIN ds : Len(s) + i \in DOMAIN (s \o ds) /\ (s \o ds)[Len(s) + i] = ds[i]
  BY <1>1, SMTT(40), ZenonT(40)
<1>4. \A g \in Family : o2.pending[g] \in Seq(Decision(p, g))
  BY <1>2, ZenonT(40) DEF Shape, Appended
<1>5. \A n \in Nlris : FamilyOf(n) \in Family
  BY DEF FamilyOf, Family
<1>6. ASSUME NEW n \in Nlris, Buffered(o, n) PROVE Buffered(o2, n)
  BY <1>3, <1>5, <1>6, Zenon DEF Buffered, Appended
<1>7. ASSUME NEW n \in Nlris, n \in Named(ds) PROVE Buffered(o2, n)
  <2>1. PICK i \in DOMAIN ds : ds[i].n = n
    BY <1>7 DEF Named
  <2>2. ds[i] \in Decision(p, f)
    BY ElementOfSeq
  <2>3. n \in Of(f)
    BY <2>1, <2>2, SMTT(40) DEF Decision
  <2>4. FamilyOf(n) = f
    BY <2>3, OutboundAssumption, SMTT(40) DEF Of, FamilyOf, Family
  <2>5. Len(s) + i \in DOMAIN o2.pending[f] /\ o2.pending[f][Len(s) + i].n = n
    BY <1>3, <2>1, Zenon DEF Appended
  <2>q. QED BY <2>4, <2>5 DEF Buffered
<1>q. QED BY <1>4, <1>6, <1>7 DEF Buffers

LEMMA AgreeMore ==
  ASSUME NEW p, NEW o, NEW X, NEW Y, X \subseteq Y, Agree(p, o, X)
  PROVE  Agree(p, o, Y)
BY DEF Agree

LEMMA EntriesAre ==
  ASSUME accept \in [Peers -> BOOLEAN], NEW p \in Peers, NEW f \in Family, NEW S \in SUBSET Of(f),
         NEW b \in Outcomes(Nlris, Peers), NEW addr \in {"self", "id"}
  PROVE  IsEntries(p, f, Entries(p, S, b, addr)) /\ DOMAIN Entries(p, S, b, addr) = S
<1>1. S \subseteq Nlris
  BY DEF Of, Nlris
<1>2. accept[p] \in BOOLEAN
  OBVIOUS
<1>3. \A n \in S : Entry(p, n, b, accept[p], addr) \in Exports(p)
  BY <1>1, <1>2 DEF Exports
<1>4. /\ DOMAIN Entries(p, S, b, addr) = S
      /\ \A n \in S : Entries(p, S, b, addr)[n] = Entry(p, n, b, accept[p], addr)
  BY DEF Entries
<1>q. QED BY <1>3, <1>4 DEF IsEntries

\* A prefix of X is settled once its entry changes.
StillOpen(X, o, o2) == {n \in X : o2.adj[n] = o.adj[n]}

LEMMA PropagateV4Agrees ==
  ASSUME accept \in [Peers -> BOOLEAN], NEW p \in Peers, NEW o, Shape(p, o), NEW X, Agree(p, o, X),
         NEW ns, NEW b \in Outcomes(Nlris, Peers), NEW live, NEW o2, o2 = PropagateV4(o, p, ns, b, live)
  PROVE  /\ Shape(p, o2) /\ Linked(o, o2)
         /\ Agree(p, o2, StillOpen(X, o, o2))
<1> DEFINE S   == Reflected(p, ns \cap V4, b, live)
           e   == Entries(p, S, b, "self")
           C   == Changed(o, e)
           ann == {n \in C : e[n] # None}
           lim == PeerType[p] = "External"
           L   == IF lim THEN ann \cap o.window ELSE {}
           r   == Restrict(e, DOMAIN e \ L)
           ds  == Decisions(o, r)
           u   == Put(o, e)
           h   == (u.held \ C) \cup L
           w   == IF lim THEN (u.window \cup ann) \ (C \ ann) ELSE u.window
           q   == u.pending["v4"] \o ds
<1>1. o2 = [u EXCEPT !.pending["v4"] = q, !.held = h, !.window = w]
  BY DEF PropagateV4
<1>2. "v4" \in Family /\ Of("v4") = V4 /\ S \in SUBSET V4
  BY SMTT(40) DEF Family, Of, Reflected
<1>3. IsEntries(p, "v4", e) /\ DOMAIN e = S
  <2> HIDE DEF S
  <2>q. QED BY <1>2, EntriesAre, ZenonT(40)
<1> HIDE DEF e, S
<1>4. DOMAIN e \subseteq Nlris /\ C \subseteq V4 /\ ann \subseteq V4 /\ L \subseteq C
  BY <1>2, <1>3, ZenonT(40) DEF Nlris, Changed
<1>5. DOMAIN r = DOMAIN e \ L /\ \A n \in DOMAIN r : r[n] = e[n]
  BY ZenonT(40) DEF Restrict
<1>6. IsEntries(p, "v4", r) /\ Changed(o, r) = C \ L
  <2> HIDE DEF L, r
  <2>q. QED BY <1>3, <1>5, ZenonT(40) DEF IsEntries, Changed
<1> HIDE DEF r, L
<1>7. ds \in Seq(Decision(p, "v4")) /\ Named(ds) = C \ L
  BY <1>6, DecisionsAre, ZenonT(40)
<1>8. /\ Shape(p, u) /\ Linked(o, u) /\ Agree(p, u, X \cup C)
      /\ u.held = o.held /\ u.window = o.window
      /\ \A n \in Nlris : u.adj[n] = IF n \in C THEN e[n] ELSE o.adj[n]
  <2>1. u = Put(o, e) /\ C = Changed(o, e)
    BY Zenon
  <2> HIDE DEF u, C
  <2>2. Shape(p, u) /\ Linked(o, u) /\ Agree(p, u, X \cup Changed(o, e)) /\ Written(o, e, u)
    BY <1>4, <2>1, PutAgrees, ZenonT(40)
  <2>q. QED BY <2>1, <2>2, ZenonT(40) DEF Written
<1>9. h \subseteq V4 /\ w \subseteq V4
  BY <1>4, <1>8, Zenon DEF Shape
<1> HIDE DEF u, ds, h, w, q
<1>10. /\ DOMAIN o2 = OutFields
       /\ o2.adj = u.adj /\ o2.mark = u.mark /\ o2.queued = u.queued /\ o2.view = u.view
       /\ o2.skew = u.skew /\ o2.held = h /\ o2.window = w
       /\ o2.pending = [u.pending EXCEPT !["v4"] = q]
  BY <1>1, <1>8, ZenonT(40) DEF Shape, IsOut, OutFields
<1>11. Appended(u, "v4", ds, o2)
  BY <1>8, <1>10, ZenonT(40) DEF Shape, q, Appended
<1>12. /\ \A g \in Family : o2.pending[g] \in Seq(Decision(p, g))
       /\ \A n \in Nlris : Buffered(u, n) \/ n \in C \ L => Buffered(o2, n)
  <2>1. Buffers(p, u, Named(ds), o2)
    BY <1>2, <1>7, <1>8, <1>11, BufferedMore, ZenonT(40)
  <2>q. QED BY <1>7, <2>1, ZenonT(40) DEF Buffers
<1>13. Shape(p, o2)
  BY <1>8, <1>9, <1>10, <1>11, <1>12, ZenonT(40) DEF Shape, IsOut, Appended
<1>14. Linked(o, o2)
  BY <1>8, <1>10, ZenonT(40) DEF Linked
<1>15. Agree(p, o2, StillOpen(X, o, o2))
  <2> SUFFICES ASSUME o2.mark = "ok", NEW n \in Nlris, ~(n \in X /\ o2.adj[n] = o.adj[n])
               PROVE  \/ n \in V6 /\ p \notin V6Peers
                      \/ n \in o2.held \cup o2.skew
                      \/ Buffered(o2, n)
                      \/ o2.view[n] = Wire(p, o2.adj[n])
    BY ZenonT(40) DEF Agree, StillOpen
  <2>1. CASE n \in L
    BY <1>10, <2>1, ZenonT(40) DEF h
  <2>2. CASE n \in C \ L
    BY <1>12, <2>2, ZenonT(40)
  <2>3. CASE n \notin C
    <3>1. n \notin X \cup C
      BY <1>8, <1>10, <2>3, ZenonT(40)
    <3>2. \/ n \in V6 /\ p \notin V6Peers
          \/ n \in u.held \cup u.skew
          \/ Buffered(u, n)
          \/ u.view[n] = Wire(p, u.adj[n])
      BY <1>8, <1>10, <3>1, ZenonT(40) DEF Agree
    <3>3. n \in u.held => n \in o2.held
      BY <1>10, <2>3, SMTT(40) DEF h
    <3>q. QED BY <1>10, <1>12, <3>2, <3>3, ZenonT(40)
  <2>q. QED BY <1>4, <2>1, <2>2, <2>3, ZenonT(40)
<1>q. QED BY <1>13, <1>14, <1>15

LEMMA PropagateV6Agrees ==
  ASSUME accept \in [Peers -> BOOLEAN], NEW p \in Peers, NEW o, Shape(p, o), NEW X, Agree(p, o, X),
         NEW ns, NEW b \in Outcomes(Nlris, Peers), NEW live, p \in V6Peers,
         NEW o2, o2 = PropagateV6(o, p, ns, b, live)
  PROVE  /\ Shape(p, o2) /\ Linked(o, o2)
         /\ Agree(p, o2, StillOpen(X, o, o2))
<1> DEFINE S  == Reflected(p, ns \cap V6, b, live)
           e  == Entries(p, S, b, "self")
           C  == Changed(o, e)
           ds == Decisions(o, e)
           u  == Put(o, e)
           q  == u.pending["v6"] \o ds
<1>1. o2 = [u EXCEPT !.pending["v6"] = q]
  BY DEF PropagateV6
<1>2. "v6" \in Family /\ Of("v6") = V6 /\ S \in SUBSET V6
  BY ZenonT(40) DEF Family, Of, Reflected
<1>3. IsEntries(p, "v6", e) /\ DOMAIN e = S
  <2> HIDE DEF S
  <2>q. QED BY <1>2, EntriesAre, ZenonT(40)
<1> HIDE DEF e, S
<1>4. DOMAIN e \subseteq Nlris
  BY <1>2, <1>3 DEF Nlris
<1>7. ds \in Seq(Decision(p, "v6")) /\ Named(ds) = C
  BY <1>3, DecisionsAre, ZenonT(40)
<1>8. /\ Shape(p, u) /\ Linked(o, u) /\ Agree(p, u, X \cup C)
      /\ \A n \in Nlris : u.adj[n] = IF n \in C THEN e[n] ELSE o.adj[n]
  <2>1. u = Put(o, e) /\ C = Changed(o, e)
    BY Zenon
  <2> HIDE DEF u, C
  <2>2. Shape(p, u) /\ Linked(o, u) /\ Agree(p, u, X \cup Changed(o, e)) /\ Written(o, e, u)
    BY <1>4, <2>1, PutAgrees, ZenonT(40)
  <2>q. QED BY <2>1, <2>2, ZenonT(40) DEF Written
<1> HIDE DEF u, ds, q, C
<1>10. /\ DOMAIN o2 = OutFields
       /\ o2.adj = u.adj /\ o2.mark = u.mark /\ o2.queued = u.queued /\ o2.view = u.view
       /\ o2.skew = u.skew /\ o2.held = u.held /\ o2.window = u.window
       /\ o2.pending = [u.pending EXCEPT !["v6"] = q]
  BY <1>1, <1>8, SMTT(40) DEF Shape, IsOut, OutFields
<1>11. Appended(u, "v6", ds, o2)
  BY <1>8, <1>10, ZenonT(40) DEF Shape, q, Appended
<1>12. /\ \A g \in Family : o2.pending[g] \in Seq(Decision(p, g))
       /\ \A n \in Nlris : Buffered(u, n) \/ n \in C => Buffered(o2, n)
  <2>1. Buffers(p, u, Named(ds), o2)
    BY <1>2, <1>7, <1>8, <1>11, BufferedMore, ZenonT(40)
  <2>q. QED BY <1>7, <2>1, ZenonT(40) DEF Buffers
<1>13. Shape(p, o2)
  BY <1>8, <1>10, <1>11, <1>12, ZenonT(40) DEF Shape, IsOut, Appended
<1>14. Linked(o, o2)
  BY <1>8, <1>10, ZenonT(40) DEF Linked
<1>15. Agree(p, o2, StillOpen(X, o, o2))
  BY <1>8, <1>10, <1>12, ZenonT(40) DEF Agree, StillOpen
<1>q. QED BY <1>13, <1>14, <1>15, SMTT(40)

LEMMA PropagateAgrees ==
  ASSUME accept \in [Peers -> BOOLEAN], NEW p \in Peers, NEW o, Shape(p, o), NEW X, Agree(p, o, X),
         NEW ns, NEW b \in Outcomes(Nlris, Peers), NEW live,
         NEW o2, o2 = Propagate(o, p, ns, b, live)
  PROVE  /\ Shape(p, o2) /\ Linked(o, o2)
         /\ Agree(p, o2, StillOpen(X, o, o2))
<1> DEFINE o1 == PropagateV4(o, p, ns, b, live)
           Y  == StillOpen(X, o, o1)
<1>1. Shape(p, o1) /\ Linked(o, o1) /\ Agree(p, o1, Y)
  BY PropagateV4Agrees, ZenonT(40)
<1>2. CASE p \notin live
  <2>1. o2 = o
    BY <1>2 DEF Propagate
  <2>2. Agree(p, o2, StillOpen(X, o, o2))
    BY <2>1, AgreeMore, ZenonT(40) DEF StillOpen
  <2>q. QED BY <2>1, <2>2 DEF Linked
<1>3. CASE p \in live /\ p \notin V6Peers
  <2>1. o2 = o1
    BY <1>3 DEF Propagate, PropagateV6
  <2>q. QED BY <1>1, <2>1
<1>4. CASE p \in live /\ p \in V6Peers
  <2>1. o2 = PropagateV6(o1, p, ns, b, live)
    BY <1>4, SMTT(40) DEF Propagate
  <2> HIDE DEF o1, Y
  <2>2. /\ Shape(p, o2) /\ Linked(o1, o2)
        /\ Agree(p, o2, StillOpen(Y, o1, o2))
    BY <1>1, <1>4, <2>1, PropagateV6Agrees, ZenonT(40)
  <2>3. StillOpen(Y, o1, o2) \subseteq StillOpen(X, o, o2)
    BY ZenonT(40) DEF Y, StillOpen
  <2>4. Agree(p, o2, StillOpen(X, o, o2))
    BY <2>2, <2>3, AgreeMore, ZenonT(40)
  <2>5. Linked(o, o2)
    BY <1>1, <2>2, LinkedTwice
  <2>q. QED BY <2>2, <2>4, <2>5, SMTT(40), ZenonT(40)
<1>q. QED BY <1>2, <1>3, <1>4, ZenonT(40)

LEMMA FreshPending ==
  DOMAIN Fresh.pending = Family /\ \A f \in Family : Fresh.pending[f] = <<>>
BY DEF Fresh

LEMMA FlushPendingAgrees ==
  ASSUME NEW p \in Peers, NEW o, Shape(p, o), NEW X, Agree(p, o, X), NEW o2, o2 = FlushPending(p, o)
  PROVE  /\ Shape(p, o2) /\ Linked(o, o2) /\ Agree(p, o2, X)
         /\ o2.adj = o.adj /\ o2.pending = Fresh.pending
<1> DEFINE d4 == o.pending["v4"]
           d6 == o.pending["v6"]
           e  == Fresh.pending
           o1 == [o EXCEPT !.pending = e]
           a  == FlushUpdates(p, "v4", o1, d4)
           Y  == X \cup Named(d6)
<1>1. CASE o.pending = Fresh.pending
  <2>1. o2 = o
    BY <1>1, ZenonT(40) DEF FlushPending
  <2>q. QED BY <1>1, <2>1 DEF Linked
<1>2. CASE o.pending # Fresh.pending
  <2>1. /\ Overflows(o, Messages(p, "v4", d4)) => o2 = a
        /\ ~Overflows(o, Messages(p, "v4", d4)) => o2 = FlushUpdates(p, "v6", a, d6)
    BY <1>2, ZenonT(40) DEF FlushPending
  <2>2. d4 \in Seq(Decision(p, "v4")) /\ d6 \in Seq(Decision(p, "v6"))
    BY DEF Shape, Family
  <2>3. DOMAIN e = Family /\ \A f \in Family : e[f] \in Seq(Decision(p, f))
    BY FreshPending, EmptySeq, Zenon
  <2> HIDE DEF e
  <2>4. /\ DOMAIN o1 = OutFields
        /\ o1.adj = o.adj /\ o1.mark = o.mark /\ o1.queued = o.queued /\ o1.view = o.view
        /\ o1.skew = o.skew /\ o1.held = o.held /\ o1.window = o.window
        /\ o1.pending = e
    BY ZenonT(40) DEF Shape, IsOut, OutFields
  <2> HIDE DEF o1
  <2>5. Shape(p, o1) /\ Linked(o, o1)
    BY <2>3, <2>4, ZenonT(40) DEF Shape, IsOut, Linked
  <2>6. \A n \in Nlris : Buffered(o, n) => n \in Named(d4) \cup Named(d6)
    BY ZenonT(40) DEF Buffered, Named, FamilyOf
  <2>7. Agree(p, o1, Y \cup Named(d4))
    BY <2>4, <2>6 DEF Agree
  <2> HIDE DEF d4, d6
  <2>8. a = FlushUpdates(p, "v4", o1, d4)
    OBVIOUS
  <2> HIDE DEF a, Y
  <2>9. /\ Shape(p, a) /\ Same(o1, a) /\ Linked(o1, a) /\ Agree(p, a, Y)
        /\ Overflows(o1, Messages(p, "v4", d4)) => a.mark = "stalled"
    BY <2>2, <2>5, <2>7, <2>8, FlushUpdatesIs, ZenonT(40)
  <2>10. Linked(o, a) /\ a.adj = o.adj /\ a.pending = e
    BY <2>4, <2>5, <2>9, LinkedTwice, ZenonT(40) DEF Same
  <2>11. CASE Overflows(o, Messages(p, "v4", d4))
    <3>1. a.mark = "stalled"
      BY <2>4, <2>9, <2>11 DEF Overflows
    <3>2. Agree(p, a, X)
      BY <3>1, ZenonT(40) DEF Agree
    <3>q. QED BY <2>1, <2>9, <2>10, <2>11, <3>2, ZenonT(40) DEF e
  <2>12. CASE ~Overflows(o, Messages(p, "v4", d4))
    <3>1. Agree(p, a, X \cup Named(d6))
      BY <2>9 DEF Y
    <3>2. o2 = FlushUpdates(p, "v6", a, d6)
      BY <2>1, <2>12
    <3>3. Shape(p, o2) /\ Same(a, o2) /\ Linked(a, o2) /\ Agree(p, o2, X)
      BY <2>2, <2>9, <3>1, <3>2, FlushUpdatesIs, SMTT(40), ZenonT(40)
    <3>4. Linked(o, o2)
      BY <2>10, <3>3, LinkedTwice
    <3>q. QED BY <2>10, <3>3, <3>4 DEF Same, e
  <2>q. QED BY <2>11, <2>12
<1>q. QED BY <1>1, <1>2

LEMMA TakeStalledAgrees ==
  ASSUME NEW p, NEW o, Shape(p, o), NEW X, Agree(p, o, X), NEW o2, o2 = TakeStalled(o)
  PROVE  /\ Shape(p, o2) /\ Linked(o, o2) /\ Agree(p, o2, X)
         /\ o2.adj = o.adj /\ o2.pending = o.pending
<1>1. CASE o.mark # "stalled"
  BY <1>1, ZenonT(40) DEF TakeStalled, Linked
<1>2. CASE o.mark = "stalled"
  <2>1. o2 = [o EXCEPT !.mark = "stopping"]
    BY <1>2 DEF TakeStalled
  <2>2. /\ DOMAIN o2 = OutFields
        /\ o2.adj = o.adj /\ o2.mark = "stopping" /\ o2.queued = o.queued /\ o2.view = o.view
        /\ o2.skew = o.skew /\ o2.held = o.held /\ o2.window = o.window
        /\ o2.pending = o.pending
    BY <2>1 DEF Shape, IsOut, OutFields
  <2>q. QED BY <1>2, <2>2 DEF Shape, IsOut, Linked, Agree, Marks
<1>q. QED BY <1>1, <1>2

\* An edit of what Shape and Agree do not depend on.
LEMMA OwedAgrees ==
  ASSUME NEW p, NEW o, Shape(p, o), NEW X, Agree(p, o, X), NEW w, NEW o2, o2 = [o EXCEPT !.owed = w]
  PROVE  Shape(p, o2) /\ Linked(o, o2) /\ Agree(p, o2, X) /\ o2.pending = o.pending
<1>1. /\ DOMAIN o2 = OutFields
      /\ o2.adj = o.adj /\ o2.mark = o.mark /\ o2.queued = o.queued /\ o2.view = o.view
      /\ o2.skew = o.skew /\ o2.held = o.held /\ o2.window = o.window
      /\ o2.pending = o.pending
  BY DEF Shape, IsOut, OutFields
<1>q. QED BY <1>1 DEF Shape, IsOut, Linked, Agree, Buffered

LEMMA DirectV4Agrees ==
  ASSUME accept \in [Peers -> BOOLEAN], NEW p \in Peers, NEW o, Shape(p, o), Agree(p, o, {}),
         NEW ns, NEW b \in Outcomes(Nlris, Peers), NEW o2, o2 = DirectV4(o, p, ns, b, "self")
  PROVE  Shape(p, o2) /\ Linked(o, o2) /\ Agree(p, o2, {}) /\ o2.pending = o.pending
<1> DEFINE e == Entries(p, ns \cap V4, b, "self")
<1>1. o2 = FlushUpdates(p, "v4", Put(o, e), Decisions(o, e))
  BY DEF DirectV4
<1>2. "v4" \in Family /\ ns \cap V4 \in SUBSET Of("v4")
  BY DEF Family, Of
<1>3. IsEntries(p, "v4", e)
  BY <1>2, EntriesAre
<1> HIDE DEF e
<1>q. QED BY <1>1, <1>3, SentAgrees

LEMMA DirectV6Agrees ==
  ASSUME accept \in [Peers -> BOOLEAN], NEW p \in Peers, NEW o, Shape(p, o), Agree(p, o, {}),
         NEW ns, NEW b \in Outcomes(Nlris, Peers), NEW o2, o2 = DirectV6(o, p, ns, b)
  PROVE  Shape(p, o2) /\ Linked(o, o2) /\ Agree(p, o2, {}) /\ o2.pending = o.pending
<1> DEFINE e == Entries(p, ns \cap V6, b, "self")
<1>1. CASE p \in V6Peers
  <2>1. o2 = FlushUpdates(p, "v6", Put(o, e), Decisions(o, e))
    BY <1>1 DEF DirectV6
  <2>2. "v6" \in Family /\ ns \cap V6 \in SUBSET Of("v6")
    BY DEF Family, Of
  <2>3. IsEntries(p, "v6", e)
    BY <2>2, EntriesAre
  <2> HIDE DEF e
  <2>q. QED BY <2>1, <2>3, SentAgrees, SMTT(40), ZenonT(40)
<1>2. CASE p \notin V6Peers
  BY <1>2 DEF DirectV6, Linked
<1>q. QED BY <1>1, <1>2

\* The neighbour knows the table again, and no buffer has moved.
UpToDate(p, o, o2) ==
  Shape(p, o2) /\ Linked(o, o2) /\ Agree(p, o2, {}) /\ o2.pending = o.pending

LEMMA DirectAgrees ==
  ASSUME accept \in [Peers -> BOOLEAN], NEW p \in Peers, NEW o, Shape(p, o), Agree(p, o, {}),
         NEW ns, NEW b \in Outcomes(Nlris, Peers),
         NEW o2, o2 = DirectV6(DirectV4(o, p, ns, b, "self"), p, ns, b)
  PROVE  UpToDate(p, o, o2)
<1> DEFINE o1 == DirectV4(o, p, ns, b, "self")
<1>1. Shape(p, o1) /\ Linked(o, o1) /\ Agree(p, o1, {}) /\ o1.pending = o.pending
  BY DirectV4Agrees
<1>2. o2 = DirectV6(o1, p, ns, b)
  OBVIOUS
<1> HIDE DEF o1
<1>3. Shape(p, o2) /\ Linked(o1, o2) /\ Agree(p, o2, {}) /\ o2.pending = o1.pending
  BY <1>1, <1>2, DirectV6Agrees
<1>4. Linked(o, o2)
  BY <1>1, <1>3, LinkedTwice, SMTT(40)
<1>q. QED BY <1>1, <1>3, <1>4 DEF UpToDate

LEMMA EndOfRibAgrees ==
  ASSUME NEW p, NEW o, Shape(p, o), NEW X, Agree(p, o, X), NEW o2, o2 = TrySend(o, EndOfRib)
  PROVE  Shape(p, o2) /\ Linked(o, o2) /\ Agree(p, o2, X) /\ o2.pending = o.pending
<1>1. IsMessages(EndOfRib) /\ EndOfRib.says = {}
  BY EndOfRibIs
<1>2. \A s \in EndOfRib.says : Fits(p, s.wire)
  BY <1>1, SMTT(40)
<1>3. /\ Shape(p, o2) /\ Same(o, o2) /\ Linked(o, o2) /\ o2.skew = o.skew
      /\ Conveyed(o, EndOfRib, o2)
  BY <1>1, <1>2, SendIs, ZenonT(40)
<1>4. o2.mark = "ok" => o.mark = "ok" /\ \A n \in Nlris : o2.view[n] = o.view[n]
  BY <1>1, <1>3, ZenonT(40) DEF Conveyed
<1>5. ASSUME NEW n \in Nlris PROVE Buffered(o, n) => Buffered(o2, n)
  BY <1>3, ZenonT(40) DEF Same, Buffered
<1>6. Agree(p, o2, X)
  BY <1>3, <1>4, <1>5, ZenonT(40) DEF Agree, Same
<1>q. QED BY <1>3, <1>6, ZenonT(40) DEF Same

LEMMA DumpV4Agrees ==
  ASSUME accept \in [Peers -> BOOLEAN], NEW p \in Peers, NEW o, Shape(p, o), Agree(p, o, {}),
         NEW b \in Outcomes(Nlris, Peers), NEW live, NEW o2, o2 = DumpV4(o, p, b, live)
  PROVE  Shape(p, o2) /\ Linked(o, o2) /\ Agree(p, o2, {}) /\ o2.pending = o.pending
<1> DEFINE S == Reflected(p, {n \in V4 : b[n] # None}, b, live)
           e == Entries(p, S, b, "self")
           o1 == FlushUpdates(p, "v4", Put(o, e), Decisions(o, e))
<1>1. o2 \in {o1, TrySend(o1, EndOfRib)}
  BY ZenonT(40) DEF DumpV4
<1>2. "v4" \in Family /\ S \in SUBSET Of("v4")
  BY DEF Family, Of, Reflected
<1> HIDE DEF S
<1>3. IsEntries(p, "v4", e)
  BY <1>2, EntriesAre, ZenonT(40)
<1> HIDE DEF e
<1>4. Shape(p, o1) /\ Linked(o, o1) /\ Agree(p, o1, {}) /\ o1.pending = o.pending
  BY <1>3, SentAgrees
<1> HIDE DEF o1
<1>5. CASE o2 = o1
  BY <1>4, <1>5, SMTT(40)
<1>6. CASE o2 = TrySend(o1, EndOfRib)
  BY <1>4, <1>6, EndOfRibAgrees, LinkedTwice, ZenonT(40)
<1>q. QED BY <1>1, <1>5, <1>6, SMTT(40), ZenonT(40)

LEMMA DumpV6Agrees ==
  ASSUME accept \in [Peers -> BOOLEAN], NEW p \in Peers, NEW o, Shape(p, o), Agree(p, o, {}),
         NEW b \in Outcomes(Nlris, Peers), NEW live, NEW o2, o2 = DumpV6(o, p, b, live)
  PROVE  Shape(p, o2) /\ Linked(o, o2) /\ Agree(p, o2, {}) /\ o2.pending = o.pending
<1> DEFINE S == Reflected(p, {n \in V6 : b[n] # None}, b, live)
           e == Entries(p, S, b, "self")
           o1 == FlushUpdates(p, "v6", Put(o, e), Decisions(o, e))
<1>1. o2 \in {o, o1, TrySend(o1, EndOfRib)}
  BY Zenon DEF DumpV6
<1>2. "v6" \in Family /\ S \in SUBSET Of("v6")
  BY DEF Family, Of, Reflected
<1> HIDE DEF S
<1>3. IsEntries(p, "v6", e)
  BY <1>2, EntriesAre, SMTT(40), ZenonT(40)
<1> HIDE DEF e
<1>4. Shape(p, o1) /\ Linked(o, o1) /\ Agree(p, o1, {}) /\ o1.pending = o.pending
  BY <1>3, SentAgrees
<1> HIDE DEF o1
<1>5. CASE o2 \in {o, o1}
  BY <1>4, <1>5, SMTT(40), ZenonT(40) DEF Linked
<1>6. CASE o2 = TrySend(o1, EndOfRib)
  BY <1>4, <1>6, EndOfRibAgrees, LinkedTwice
<1>q. QED BY <1>1, <1>5, <1>6, SMTT(40)
=============================================================================
