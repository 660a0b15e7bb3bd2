------------------------------- MODULE AsPath -------------------------------
(***************************************************************************)
(* AS paths (pathvector-types, aspath.rs): a sequence of segments, the     *)
(* most recent first, each a record [kind, asns]; what the daemon reads    *)
(* from a path and what it does to one. AS numbers are numbers.            *)
(***************************************************************************)
EXTENDS Integers, Sequences, FiniteSets

CONSTANTS None,        \* Rust's Option::None
          MaxSegment   \* AS numbers that one segment holds, 255 in the code

ASSUME AsPathAssumption == MaxSegment \in Nat \ {0}

SegmentKinds == {"Sequence", "Set", "ConfedSequence", "ConfedSet"}
Segment == [kind : SegmentKinds, asns : Seq(Nat)]

IsConfed(seg) == seg.kind \in {"ConfedSequence", "ConfedSet"}

HasConfed(path) == \E i \in DOMAIN path : IsConfed(path[i])

\* contains, in a segment of any kind.
Traverses(path, asn) ==
  \E i \in DOMAIN path : \E j \in DOMAIN path[i].asns : path[i].asns[j] = asn

\* A set counts as one AS, a confederation segment as none.
SegmentLength(seg) ==
  CASE seg.kind = "Sequence" -> Len(seg.asns)
    [] seg.kind = "Set" -> 1
    [] OTHER -> 0

\* path_length: the sum over the segments, by counting.
PathLength(path) ==
  Cardinality(UNION {{i} \X (1..SegmentLength(path[i])) : i \in DOMAIN path})

\* neighboring_as: the first AS of the first plain sequence.
NeighboringAs(path) ==
  LET plain == {i \in DOMAIN path : path[i].kind = "Sequence" /\ path[i].asns # <<>>}
  IN  IF plain = {} THEN None ELSE Head(path[CHOOSE i \in plain : \A j \in plain : i <= j].asns)

\* origin_as: where the route started, None when that is one AS of a set.
OriginAs(path, local) ==
  LET last == path[Len(path)]
  IN  IF path = <<>> THEN local
      ELSE IF IsConfed(last) THEN local
      ELSE IF last.kind = "Set" \/ last.asns = <<>> THEN None
      ELSE last.asns[Len(last.asns)]

\* A full first segment, or one of another kind, gets a new one in front.
InFront(path, kind, asn) ==
  IF path # <<>> /\ Head(path).kind = kind /\ Len(Head(path).asns) < MaxSegment
  THEN <<[kind |-> kind, asns |-> <<asn>> \o Head(path).asns]>> \o Tail(path)
  ELSE <<[kind |-> kind, asns |-> <<asn>>]>> \o path

Prepend(path, asn) == InFront(path, "Sequence", asn)

PrependConfed(path, asn) == InFront(path, "ConfedSequence", asn)

\* strip_confed_segments: the other segments, in their order.
StripConfed(path) ==
  LET kept   == {i \in DOMAIN path : ~IsConfed(path[i])}
      nth(k) == CHOOSE i \in kept : Cardinality({j \in kept : j <= i}) = k
  IN  [k \in 1..Cardinality(kept) |-> path[nth(k)]]

\* Asn::TRANS stands for an AS number of four octets.
Trans == 23456

HasFourByte(path) ==
  \E i \in DOMAIN path : \E j \in DOMAIN path[i].asns : path[i].asns[j] > 65535

\* downgrade_for_two_byte_peer: the path, and the original when it needs one.
Downgrade(path) ==
  [path |-> [i \in DOMAIN path |->
               [kind |-> path[i].kind,
                asns |-> [j \in DOMAIN path[i].asns |->
                            IF path[i].asns[j] > 65535 THEN Trans ELSE path[i].asns[j]]]],
   as4  |-> IF HasFourByte(path) THEN path ELSE None]
=============================================================================
