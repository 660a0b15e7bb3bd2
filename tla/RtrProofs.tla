------------------------------ MODULE RtrProofs ------------------------------
(***************************************************************************)
(* Proofs about RtrSync: the table of the RTR client holds what the cache  *)
(* published, and judges a route as RFC 6811 does, and its serial never    *)
(* steps back, for any ROAs, sessions, serials and number of faults.       *)
(***************************************************************************)
EXTENDS RtrSync, TLAPS, SequenceTheorems

-----------------------------------------------------------------------------
(* The invariant.                                                          *)

Vrps == [prefix : Seq(Bits), max_len : Nat, asn : Nat]

\* A table that validate can search: no prefix in it is without entries.
IsTable(t) ==
  /\ t = [p \in DOMAIN t |-> t[p]]
  /\ \A p \in DOMAIN t :
       /\ p \in Seq(Bits)
       /\ t[p] # {}
       /\ t[p] \subseteq [max_len : Nat, asn : Nat]

\* PDUs outside of an answer.
Noisy(pdu) == pdu.type \in {"SerialNotify", "Malformed"}
Noise(w) == \A i \in 1 .. Len(w) : Noisy(w[i])

\* The cache has published under serial n of session s; it will not do so
\* again.
KnownAt(s, n, ses, lat) ==
  /\ s \in Sessions /\ n \in Serials
  /\ s < ses \/ (s = ses /\ n <= lat)
Known(s, n) == KnownAt(s, n, session, latest)

\* e, the End of Data of an answer of session s, finds the ROAs roas as they
\* were published under its serial, given that the answer was built on what
\* the table held (sound) and that its session is still that of the cache.
Closes(e, s, sound, roas) ==
  /\ Known(e.session_id, e.serial)
  /\ sound /\ e.session_id = s => roas = published[s][e.serial]

\* w is the end of an answer of session s that makes a table of roas.
Ends(w, s, sound, roas) ==
  /\ s \in Sessions /\ s <= session
  /\ \/ w = <<>> /\ ending # None /\ Closes(ending, s, sound, roas)
     \/ /\ w # <<>> /\ ending = None /\ Noise(Tail(w))
        /\ \/ Head(w).type = "CacheReset"
           \/ Head(w).type = "EndOfData" /\ Closes(Head(w), s, sound, roas)

\* w is what is left of an answer after its Cache Response.
Body(w, s, sound, roas) ==
  \/ Ends(w, s, sound, roas)
  \/ /\ w # <<>> /\ Head(w).type = "Prefixes"
     /\ Head(w).announce \cap Head(w).withdraw = {}
     /\ Ends(Tail(w), s, sound, (roas \cup Head(w).announce) \ Head(w).withdraw)

\* w is an answer. A Cache Response of another session than the client's
\* finds no serial, or has the table cleared.
Answers(w) ==
  \/ /\ Head(w).type \in {"ErrorReport", "CacheReset"}
     /\ ending = None /\ Noise(Tail(w))
  \/ /\ Head(w).type = "CacheResponse"
     /\ force_reset \/ serial = None \/ Head(w).session_id = session_id
     /\ Body(Tail(w), Head(w).session_id, force_reset \/ ~torn,
             IF force_reset THEN {} ELSE Contents(table))

\* The query on its way asks for what follows the client's table.
Asks ==
  IF query.type = "SerialQuery"
  THEN ~force_reset /\ query.session_id = session_id /\ query.serial = serial
  ELSE force_reset \/ serial = None

\* The conversation when w is on the wire: at most one answer is on its way.
TalkOf(w) ==
  /\ phase \in {"Down", "Query", "Idle"} => query = None /\ ending = None /\ Noise(w)
  /\ phase = "Down" => w = <<>>
  /\ phase = "Reply" =>
       \/ query # None /\ ending = None /\ Noise(w) /\ Asks
       \/ query = None /\ w # <<>> /\ (Noisy(Head(w)) \/ Answers(w))
  /\ phase = "Diff" => query = None /\ Body(w, session_id, ~torn, Contents(table))
Talk == TalkOf(wire)

\* The serial is one the cache has published in the client's session.
Resumes == serial # None => Known(session_id, serial)

Typed == TypeOK /\ IsTable(table) /\ IsTable(judged)

IInv == Typed /\ Talk /\ Resumes /\ TableSound /\ StatusHonest /\ JudgedByTable

-----------------------------------------------------------------------------
(* The table.                                                              *)

Entry(roa) == [max_len |-> roa.max_len, asn |-> roa.asn]

\* A ROA is in the table exactly when its entry is in the node of its prefix.
LEMMA ContentsMember ==
  ASSUME NEW t, NEW r
  PROVE  r \in Contents(t) <=>
           \E p \in DOMAIN t : \E e \in t[p] :
             r = [prefix |-> p, max_len |-> e.max_len, asn |-> e.asn]
BY DEF Contents

LEMMA ContentsEntry ==
  ASSUME NEW t, IsTable(t), NEW r \in Vrps
  PROVE  r \in Contents(t) <=> r.prefix \in DOMAIN t /\ Entry(r) \in t[r.prefix]
<1>1. ASSUME NEW p \in DOMAIN t, NEW e \in t[p]
      PROVE  e = [max_len |-> e.max_len, asn |-> e.asn]
  BY DEF IsTable
<1>2. ASSUME r \in Contents(t)
      PROVE  r.prefix \in DOMAIN t /\ Entry(r) \in t[r.prefix]
  <2>0. PICK p \in DOMAIN t : \E e \in t[p] : r = [prefix |-> p, max_len |-> e.max_len, asn |-> e.asn]
    BY <1>2, ContentsMember
  <2>1. PICK e \in t[p] : r = [prefix |-> p, max_len |-> e.max_len, asn |-> e.asn]
    BY <2>0
  <2>2. r.prefix = p /\ Entry(r) = [max_len |-> e.max_len, asn |-> e.asn]
    BY <2>1 DEF Entry
  <2>q. QED BY <2>2, <1>1
<1>3. ASSUME r.prefix \in DOMAIN t, Entry(r) \in t[r.prefix]
      PROVE  r \in Contents(t)
  <2>1. r = [prefix |-> r.prefix, max_len |-> Entry(r).max_len, asn |-> Entry(r).asn]
    BY DEF Entry, Vrps
  <2>q. QED BY <2>1, <1>3, ContentsMember
<1>q. QED BY <1>2, <1>3

\* The ROAs of a table are ROAs.
LEMMA ContentsTyped ==
  ASSUME NEW t, IsTable(t)
  PROVE  Contents(t) \subseteq Vrps
<1> SUFFICES ASSUME NEW r \in Contents(t) PROVE r \in Vrps
  OBVIOUS
<1>0. PICK p \in DOMAIN t : \E e \in t[p] : r = [prefix |-> p, max_len |-> e.max_len, asn |-> e.asn]
  BY ContentsMember
<1>1. PICK e \in t[p] : r = [prefix |-> p, max_len |-> e.max_len, asn |-> e.asn]
  BY <1>0
<1>2. p \in Seq(Bits) /\ e \in [max_len : Nat, asn : Nat]
  BY DEF IsTable
<1>q. QED BY <1>1, <1>2 DEF Vrps

\* insert adds a ROA, once.
LEMMA InsertAdds ==
  ASSUME NEW t, IsTable(t), NEW roa \in Vrps
  PROVE  /\ IsTable(Insert(t, roa.prefix, Entry(roa)))
         /\ Contents(Insert(t, roa.prefix, Entry(roa))) = Contents(t) \cup {roa}
<1> DEFINE u == Insert(t, roa.prefix, Entry(roa))
<1>1. Entry(roa) \in [max_len : Nat, asn : Nat] /\ roa.prefix \in Seq(Bits)
  BY DEF Entry, Vrps
<1>2. /\ DOMAIN u = DOMAIN t \cup {roa.prefix}
      /\ u = [p \in DOMAIN u |-> u[p]]
      /\ u[roa.prefix] = Entries(t, roa.prefix) \cup {Entry(roa)}
      /\ \A p \in DOMAIN t : p # roa.prefix => u[p] = t[p]
  BY DEF Insert, With
<1> HIDE DEF u
<1>3. Entries(t, roa.prefix) \subseteq [max_len : Nat, asn : Nat]
  BY DEF Entries, IsTable
<1>4. IsTable(u)
  BY <1>1, <1>2, <1>3, Zenon DEF IsTable
<1>5. ASSUME NEW r \in Vrps
      PROVE  r \in Contents(u) <=> r \in Contents(t) \/ r = roa
  <2>1. CASE r.prefix = roa.prefix
    <3>1. r = roa <=> Entry(r) = Entry(roa)
      BY <2>1 DEF Entry, Vrps
    <3>2. Entry(r) \in u[r.prefix] <=> Entry(r) \in Entries(t, roa.prefix) \/ Entry(r) = Entry(roa)
      BY <2>1, <1>2
    <3>3. Entry(r) \in Entries(t, roa.prefix) <=> r.prefix \in DOMAIN t /\ Entry(r) \in t[r.prefix]
      BY <2>1 DEF Entries
    <3>4. r.prefix \in DOMAIN u
      BY <2>1, <1>2
    <3>q. QED BY <3>1, <3>2, <3>3, <3>4, <1>4, ContentsEntry
  <2>2. CASE r.prefix # roa.prefix
    <3>1. r.prefix \in DOMAIN u <=> r.prefix \in DOMAIN t
      BY <2>2, <1>2
    <3>2. r.prefix \in DOMAIN t => u[r.prefix] = t[r.prefix]
      BY <2>2, <1>2
    <3>q. QED BY <3>1, <3>2, <2>2, <1>4, ContentsEntry
  <2>q. QED BY <2>1, <2>2
<1>6. Contents(u) = Contents(t) \cup {roa}
  BY <1>4, <1>5, ContentsTyped
<1>q. QED BY <1>4, <1>6 DEF u

\* remove takes a ROA out, and its prefix with the last one.
LEMMA RemoveDrops ==
  ASSUME NEW t, IsTable(t), NEW roa \in Vrps
  PROVE  /\ IsTable(Remove(t, roa.prefix, Entry(roa)))
         /\ Contents(Remove(t, roa.prefix, Entry(roa))) = Contents(t) \ {roa}
<1> DEFINE u == Remove(t, roa.prefix, Entry(roa))
<1>2. /\ u = [p \in DOMAIN u |-> u[p]]
      /\ \A p : p # roa.prefix => (p \in DOMAIN u <=> p \in DOMAIN t)
      /\ \A p \in DOMAIN t : p # roa.prefix => u[p] = t[p]
      /\ roa.prefix \in DOMAIN u =>
           /\ roa.prefix \in DOMAIN t
           /\ u[roa.prefix] = t[roa.prefix] \ {Entry(roa)}
           /\ u[roa.prefix] # {}
      /\ roa.prefix \in DOMAIN t /\ roa.prefix \notin DOMAIN u => t[roa.prefix] \ {Entry(roa)} = {}
  <2>1. CASE roa.prefix \notin DOMAIN t
    BY <2>1 DEF Remove, IsTable
  <2>2. CASE roa.prefix \in DOMAIN t /\ t[roa.prefix] \ {Entry(roa)} = {}
    BY <2>2 DEF Remove, Without
  <2>3. CASE roa.prefix \in DOMAIN t /\ t[roa.prefix] \ {Entry(roa)} # {}
    BY <2>3 DEF Remove, With
  <2>q. QED BY <2>1, <2>2, <2>3
<1> HIDE DEF u
<1>4. IsTable(u)
  <2> SUFFICES ASSUME NEW p \in DOMAIN u
               PROVE  p \in Seq(Bits) /\ u[p] # {} /\ u[p] \subseteq [max_len : Nat, asn : Nat]
    BY <1>2 DEF IsTable
  <2>1. CASE p = roa.prefix
    BY <2>1, <1>2 DEF IsTable
  <2>2. CASE p # roa.prefix
    <3>1. p \in DOMAIN t /\ u[p] = t[p]
      BY <2>2, <1>2
    <3>q. QED BY <3>1 DEF IsTable
  <2>q. QED BY <2>1, <2>2
<1>5. ASSUME NEW r \in Vrps
      PROVE  r \in Contents(u) <=> r \in Contents(t) /\ r # roa
  <2>1. CASE r.prefix = roa.prefix
    <3>1. r = roa <=> Entry(r) = Entry(roa)
      BY <2>1 DEF Entry, Vrps
    <3>2. r.prefix \in DOMAIN u /\ Entry(r) \in u[r.prefix]
            <=> r.prefix \in DOMAIN t /\ Entry(r) \in t[r.prefix] /\ Entry(r) # Entry(roa)
      BY <2>1, <1>2
    <3>q. QED BY <3>1, <3>2, <1>4, ContentsEntry
  <2>2. CASE r.prefix # roa.prefix
    <3>1. r.prefix \in DOMAIN u <=> r.prefix \in DOMAIN t
      BY <2>2, <1>2
    <3>2. r.prefix \in DOMAIN t => u[r.prefix] = t[r.prefix]
      BY <2>2, <1>2
    <3>q. QED BY <3>1, <3>2, <2>2, <1>4, ContentsEntry
  <2>q. QED BY <2>1, <2>2
<1>6. Contents(u) = Contents(t) \ {roa}
  BY <1>4, <1>5, ContentsTyped
<1>q. QED BY <1>4, <1>6 DEF u

LEMMA EmptyTableHoldsNothing == IsTable(EmptyTable) /\ Contents(EmptyTable) = {}
<1>1. DOMAIN EmptyTable = {}
  BY DEF EmptyTable
<1>2. EmptyTable = [p \in DOMAIN EmptyTable |-> EmptyTable[p]]
  BY DEF EmptyTable
<1>3. IsTable(EmptyTable)
  BY <1>1, <1>2 DEF IsTable
<1>4. Contents(EmptyTable) = {}
  BY <1>1, ContentsMember
<1>q. QED BY <1>3, <1>4

\* apply_prefix_pdu does to the set of ROAs what its PDU says.
LEMMA ApplyPrefixApplies ==
  ASSUME NEW t, IsTable(t), NEW roa \in Vrps, NEW announce
  PROVE  /\ IsTable(ApplyPrefix(t, roa, announce))
         /\ Contents(ApplyPrefix(t, roa, announce)) =
              IF announce THEN Contents(t) \cup {roa} ELSE Contents(t) \ {roa}
<1>1. ApplyPrefix(t, roa, announce) =
        IF announce THEN Insert(t, roa.prefix, Entry(roa)) ELSE Remove(t, roa.prefix, Entry(roa))
  BY DEF ApplyPrefix, Entry
<1>2. CASE announce
  BY <1>1, <1>2, InsertAdds
<1>3. CASE ~announce
  BY <1>1, <1>3, RemoveDrops
<1>q. QED BY <1>2, <1>3

\* The prefixes of every length up to that of p are those p extends.
LEMMA Ancestors ==
  ASSUME NEW p \in Seq(Bits), NEW a \in Seq(Bits)
  PROVE  a \in {SubSeq(p, 1, len) : len \in 0 .. Len(p)} <=> IsPrefixOf(a, p)
<1>1. ASSUME IsPrefixOf(a, p) PROVE a = SubSeq(p, 1, Len(a)) /\ Len(a) \in 0 .. Len(p)
  <2>1. Len(a) \in Nat /\ Len(p) \in Nat /\ Len(a) <= Len(p)
    BY <1>1, LenProperties DEF IsPrefixOf
  <2>2. a = [i \in 1 .. Len(a) |-> a[i]]
    BY LenProperties
  <2>3. SubSeq(p, 1, Len(a)) = [i \in 1 .. Len(a) |-> p[i]]
    BY <2>1
  <2>4. \A i \in 1 .. Len(a) : a[i] = p[i]
    BY <1>1 DEF IsPrefixOf
  <2>q. QED BY <2>1, <2>2, <2>3, <2>4
<1>2. ASSUME NEW len \in 0 .. Len(p), a = SubSeq(p, 1, len) PROVE IsPrefixOf(a, p)
  <2>1. Len(p) \in Nat /\ len \in Nat /\ len <= Len(p)
    BY <1>2, LenProperties
  <2>2. a = [i \in 1 .. len |-> p[i]] /\ Len(a) = len
    BY <1>2, <2>1
  <2>q. QED BY <2>1, <2>2 DEF IsPrefixOf
<1>q. QED BY <1>1, <1>2

\* A prefix that p extends matches the address p starts with: the shortcut
\* of validate skips nothing.
LEMMA BaseMatches ==
  ASSUME NEW p \in Seq(Bits), Len(p) <= Width, NEW a \in Seq(Bits), IsPrefixOf(a, p)
  PROVE  IsPrefixOf(a, Base(p))
<1>1. Len(a) \in Nat /\ Len(p) \in Nat /\ Width \in Nat
  BY LenProperties, RoaAssumption
<1>2. Len(Base(p)) = Width
  BY <1>1 DEF Base
<1>3. \A i \in 1 .. Len(a) : Base(p)[i] = p[i]
  BY <1>1 DEF Base, IsPrefixOf
<1>q. QED BY <1>1, <1>2, <1>3 DEF IsPrefixOf

\* validate computes the verdict of RFC 6811 over the ROAs of the table.
LEMMA ValidateIsRfc6811 ==
  ASSUME NEW t, IsTable(t), NEW p \in Seq(Bits), Len(p) <= Width, NEW path
  PROVE  Validate(t, p, OriginAsn(path)) = Rfc6811(Contents(t), p, OriginAs(path, LocalAs))
<1> DEFINE ancestors == {SubSeq(p, 1, len) : len \in 0 .. Len(p)} \cap DOMAIN t
           matched == \E a \in ancestors : \E e \in t[a] :
                        e.asn # 0 /\ e.asn = OriginAsn(path) /\ Len(p) <= e.max_len
           covering == {r \in Contents(t) : IsPrefixOf(r.prefix, p)}
           matching == {r \in covering : /\ Len(p) <= r.max_len
                                         /\ r.asn = OriginAs(path, LocalAs) /\ r.asn # 0}
<1>1. \A a \in DOMAIN t : a \in ancestors <=> IsPrefixOf(a, p)
  BY Ancestors DEF IsTable
<1>2. ASSUME NEW n \in Nat
      PROVE  n # 0 /\ n = OriginAsn(path) <=> n # 0 /\ n = OriginAs(path, LocalAs)
  BY RtrAssumption DEF OriginAsn
<1>3. \A a \in ancestors : IsPrefixOf(a, p) /\ a \in DOMAIN t
  BY <1>1
<1>4. ancestors # {} => HasMatch(t, Base(p))
  <2> SUFFICES ASSUME NEW a \in ancestors PROVE HasMatch(t, Base(p))
    OBVIOUS
  <2>1. a \in DOMAIN t /\ IsPrefixOf(a, p) /\ a \in Seq(Bits)
    BY <1>3 DEF IsTable
  <2>2. IsPrefixOf(a, Base(p))
    BY <2>1, BaseMatches
  <2>q. QED BY <2>1, <2>2 DEF HasMatch
<1> HIDE DEF ancestors
<1>5. covering # {} <=> ancestors # {}
  <2>1. ASSUME NEW r \in covering PROVE ancestors # {}
    <3>1. r \in Vrps /\ IsPrefixOf(r.prefix, p)
      BY ContentsTyped
    <3>2. r.prefix \in DOMAIN t
      BY <3>1, ContentsEntry
    <3>q. QED BY <3>1, <3>2, <1>1
  <2>2. ASSUME NEW a \in ancestors PROVE covering # {}
    <3>1. PICK e \in t[a] : TRUE
      BY <1>3 DEF IsTable
    <3> DEFINE r == [prefix |-> a, max_len |-> e.max_len, asn |-> e.asn]
    <3>2. r \in Contents(t)
      BY <1>3, ContentsMember
    <3>3. IsPrefixOf(r.prefix, p)
      BY <1>3
    <3>q. QED BY <3>2, <3>3
  <2>q. QED BY <2>1, <2>2
<1>6. matched <=> matching # {}
  <2>1. ASSUME NEW a \in ancestors, NEW e \in t[a],
               e.asn # 0, e.asn = OriginAsn(path), Len(p) <= e.max_len
        PROVE  matching # {}
    <3> DEFINE r == [prefix |-> a, max_len |-> e.max_len, asn |-> e.asn]
    <3>1. e.asn \in Nat
      BY <1>3 DEF IsTable
    <3>2. r \in Contents(t)
      BY <1>3, ContentsMember
    <3>3. r.asn = OriginAs(path, LocalAs)
      BY <3>1, <2>1, <1>2
    <3>4. IsPrefixOf(r.prefix, p)
      BY <1>3
    <3>q. QED BY <2>1, <3>2, <3>3, <3>4
  <2>2. ASSUME NEW r \in matching PROVE matched
    <3>1. r \in Vrps /\ r \in Contents(t) /\ IsPrefixOf(r.prefix, p)
      BY ContentsTyped
    <3>2. r.prefix \in DOMAIN t /\ Entry(r) \in t[r.prefix]
      BY <3>1, ContentsEntry
    <3>3. r.prefix \in ancestors
      BY <3>1, <3>2, <1>1
    <3>4. Entry(r).asn = r.asn /\ Entry(r).max_len = r.max_len /\ r.asn \in Nat
      BY <3>1 DEF Entry, Vrps
    <3>5. r.asn # 0 /\ r.asn = OriginAsn(path) /\ Len(p) <= r.max_len
      BY <3>4, <1>2
    <3>q. QED BY <3>2, <3>3, <3>4, <3>5
  <2>q. QED BY <2>1, <2>2
<1>7. Validate(t, p, OriginAsn(path)) =
        IF ~HasMatch(t, Base(p)) THEN "NotFound"
        ELSE IF matched THEN "Valid"
        ELSE IF ancestors # {} THEN "Invalid" ELSE "NotFound"
  BY DEF Validate, ancestors
<1>8. Rfc6811(Contents(t), p, OriginAs(path, LocalAs)) =
        IF covering = {} THEN "NotFound" ELSE IF matching = {} THEN "Invalid" ELSE "Valid"
  BY DEF Rfc6811
<1>9. matched => ancestors # {}
  OBVIOUS
<1> HIDE DEF matched, covering, matching
<1>q. QED BY <1>4, <1>5, <1>6, <1>7, <1>8, <1>9

\* OriginValidated is a property of the table alone.
LEMMA TableValidates == IsTable(table) => OriginValidated
BY ValidateIsRfc6811, RtrSyncAssumption DEF OriginValidated, Validity

-----------------------------------------------------------------------------
(* The wire.                                                               *)

LEMMA HeadAndTail ==
  ASSUME NEW w \in Seq(Pdus), w # <<>>
  PROVE  /\ Head(w) \in Pdus /\ Tail(w) \in Seq(Pdus)
         /\ Head(w) = w[1] /\ 1 \in 1 .. Len(w)
         /\ \A i \in 1 .. Len(Tail(w)) : Tail(w)[i] = w[i + 1] /\ i + 1 \in 1 .. Len(w)
BY HeadTailProperties, LenProperties, ElementOfSeq, EmptySeq

LEMMA RunIsPdu ==
  ASSUME NEW a \in SUBSET Roas, NEW w \in SUBSET Roas
  PROVE  [type |-> "Prefixes", announce |-> a, withdraw |-> w] \in Pdus
BY DEF Pdus

LEMMA ResponseIsPdu ==
  ASSUME NEW v \in Version, NEW s \in Sessions
  PROVE  [type |-> "CacheResponse", version |-> v, session_id |-> s] \in Pdus
BY DEF Pdus

LEMMA AppendToWire ==
  ASSUME NEW w \in Seq(Pdus), NEW e \in Pdus
  PROVE  /\ Append(w, e) \in Seq(Pdus) /\ Append(w, e) # <<>>
         /\ w # <<>> => /\ Head(Append(w, e)) = Head(w)
                        /\ Tail(Append(w, e)) = Append(Tail(w), e)
         /\ w = <<>> => Head(Append(w, e)) = e /\ Tail(Append(w, e)) = <<>>
<1>1. Append(w, e) \in Seq(Pdus) /\ Append(w, e) # <<>>
  BY AppendProperties
<1>2. CASE w = <<>>
  BY <1>2
<1>3. CASE w # <<>>
  BY <1>1, <1>3, HeadTailAppend
<1>q. QED BY <1>1, <1>2, <1>3

LEMMA PutInFront ==
  ASSUME NEW w \in Seq(Pdus), NEW e \in Pdus
  PROVE  /\ <<e>> \o w \in Seq(Pdus) /\ <<e>> \o w # <<>>
         /\ Head(<<e>> \o w) = e /\ Tail(<<e>> \o w) = w
<1>1. <<e>> \in Seq(Pdus)
  OBVIOUS
<1> DEFINE v == <<e>> \o w
<1>2. v \in Seq(Pdus) /\ Len(v) = 1 + Len(w) /\ v # <<>>
  BY <1>1, ConcatProperties, LenProperties
<1>3. v[1] = e /\ \A i \in 1 .. Len(w) : v[i + 1] = w[i]
  BY <1>1, ConcatProperties, LenProperties
<1> HIDE DEF v
<1>4. Tail(v) \in Seq(Pdus) /\ Len(Tail(v)) = Len(w)
  BY <1>2, HeadTailProperties, LenProperties
<1>5. \A i \in 1 .. Len(w) : Tail(v)[i] = w[i]
  BY <1>2, <1>3, <1>4, HeadAndTail
<1>6. Tail(v) = w
  BY <1>4, <1>5, SeqEqual
<1>q. QED BY <1>2, <1>3, <1>6, HeadAndTail DEF v

LEMMA JoinWires ==
  ASSUME NEW w \in Seq(Pdus), NEW v \in Seq(Pdus), v # <<>>
  PROVE  /\ w \o v \in Seq(Pdus) /\ w \o v # <<>>
         /\ w # <<>> => Head(w \o v) = Head(w)
         /\ w = <<>> => w \o v = v
<1>1. w \o v \in Seq(Pdus) /\ Len(w \o v) = Len(w) + Len(v)
  BY ConcatProperties
<1>2. w \o v # <<>>
  BY <1>1, EmptySeq, LenProperties
<1>3. w = <<>> => w \o v = v
  BY ConcatEmptySeq
<1>4. w # <<>> => Head(w \o v) = Head(w)
  BY <1>1, <1>2, ConcatProperties, HeadAndTail
<1>q. QED BY <1>1, <1>2, <1>3, <1>4

LEMMA NoiseIsNoisy ==
  ASSUME NEW w \in Seq(Pdus), Noise(w), w # <<>>
  PROVE  Noisy(Head(w)) /\ Noise(Tail(w))
BY HeadAndTail DEF Noise

LEMMA NoNoise == Noise(<<>>)
BY DEF Noise

LEMMA MoreNoise ==
  ASSUME NEW w \in Seq(Pdus), Noise(w), NEW e \in Pdus, Noisy(e)
  PROVE  Noise(Append(w, e))
BY AppendProperties, LenProperties DEF Noise

LEMMA NoiseInFront ==
  ASSUME NEW w \in Seq(Pdus), Noise(w), NEW e \in Pdus, Noisy(e)
  PROVE  Noise(<<e>> \o w)
<1> DEFINE v == <<e>> \o w
<1>1. v \in Seq(Pdus) /\ v # <<>> /\ Head(v) = e /\ Tail(v) = w
  BY PutInFront
<1> HIDE DEF v
<1>2. Len(v) = Len(w) + 1
  BY <1>1, HeadTailProperties, LenProperties
<1>3. ASSUME NEW i \in 1 .. Len(v) PROVE Noisy(v[i])
  <2>1. CASE i = 1
    BY <2>1, <1>1, HeadAndTail
  <2>2. CASE i # 1
    <3>1. i - 1 \in 1 .. Len(w) /\ (i - 1) + 1 = i
      BY <2>2, <1>2, LenProperties
    <3>2. v[i] = w[i - 1]
      BY <3>1, <1>1, HeadAndTail
    <3>q. QED BY <3>1, <3>2 DEF Noise
  <2>q. QED BY <2>1, <2>2
<1>q. QED BY <1>3 DEF Noise, v

Runs == [type : {"Prefixes"}, announce : SUBSET Roas, withdraw : SUBSET Roas]

\* What a PDU of each type carries.
LEMMA PduFields ==
  ASSUME NEW e \in Pdus
  PROVE  /\ e.type = "CacheResponse" => e.version \in Version /\ e.session_id \in Sessions
         /\ e.type = "EndOfData" => e.session_id \in Sessions /\ e.serial \in Serials
         /\ e.type = "Prefixes" => /\ e \in Runs
                                   /\ e.announce \subseteq Roas /\ e.withdraw \subseteq Roas
BY DEF Pdus, Runs

\* A run of Prefix PDUs without one of them.
LEMMA RestOfPrefixes ==
  ASSUME NEW e \in Runs, NEW roa
  PROVE  LET rest == [e EXCEPT !.announce = @ \ {roa}, !.withdraw = @ \ {roa}]
         IN  /\ rest \in Runs /\ rest \in Pdus /\ rest.type = "Prefixes"
             /\ rest.announce = e.announce \ {roa} /\ rest.withdraw = e.withdraw \ {roa}
<1> DEFINE rest == [e EXCEPT !.announce = @ \ {roa}, !.withdraw = @ \ {roa}]
<1>1. /\ rest \in Runs /\ rest.type = "Prefixes"
      /\ rest.announce = e.announce \ {roa} /\ rest.withdraw = e.withdraw \ {roa}
  BY Zenon DEF Runs
<1> HIDE DEF rest
<1>2. rest \in Pdus
  BY <1>1 DEF Runs, Pdus
<1>q. QED BY <1>1, <1>2 DEF rest

-----------------------------------------------------------------------------
(* Types.                                                                  *)

\* What the cache and the daemon own.
CacheTyped ==
  /\ session \in Sessions /\ latest \in Serials
  /\ published \in [Sessions -> [Serials -> SUBSET Roas]]
  /\ loading \in BOOLEAN
  /\ speaks \in Version
  /\ ending \in [session_id : Sessions, serial : Serials] \cup {None}
  /\ faults \in 0 .. MaxFaults

LEMMA TypedSplit == Typed <=> ClientType /\ IsTable(table) /\ CacheTyped
                              /\ Contents(judged) \subseteq Roas /\ IsTable(judged)
                              /\ reevaluating \in BOOLEAN
BY DEF Typed, TypeOK, CacheTyped

LEMMA TypedInit == Init => Typed
<1> SUFFICES ASSUME Init PROVE Typed
  OBVIOUS
<1>1. ClientType /\ IsTable(table)
  <2>1. <<>> \in Seq(Pdus)
    BY EmptySeq
  <2>q. QED BY <2>1, EmptyTableHoldsNothing, Zenon DEF Init, ClientInit, ClientType, Phase, Version
<1>2. CacheTyped
  BY RtrSyncAssumption DEF Init, CacheTyped
<1>q. QED BY <1>1, <1>2, EmptyTableHoldsNothing, TypedSplit, Zenon DEF Init

\* One step of the client.
LEMMA TypedClient ==
  ASSUME ClientType, IsTable(table), ClientStep \/ LoseConnection
  PROVE  ClientType' /\ IsTable(table)'
<1> USE DEF ClientType, Phase, Version
<1>1. CASE Connect
  BY <1>1, Zenon DEF Connect, StartSync, FreshLocals, KeepTable
<1>2. CASE SendQuery
  <2>1. query' \in Queries
    BY <1>2 DEF SendQuery, Queries
  <2>q. QED BY <2>1, <1>2 DEF SendQuery, KeepTable
<1> DEFINE Hung == HangUp /\ session_id' = session_id /\ torn' \in BOOLEAN
                   /\ (UNCHANGED <<table, serial>> \/ (table' = EmptyTable /\ serial' = None))
<1>3. ASSUME Hung PROVE ClientType' /\ IsTable(table)'
  <2>1. <<>> \in Seq(Pdus)
    BY EmptySeq
  <2>2. IsTable(table') /\ Contents(table') \subseteq Roas /\ serial' \in Serials \cup {None}
    BY <1>3, EmptyTableHoldsNothing
  <2>q. QED BY <1>3, <2>1, <2>2, Zenon DEF HangUp, FreshLocals
<1>4. ASSUME wire # <<>>
      PROVE  Received \in Pdus /\ Tail(wire) \in Seq(Pdus)
  BY <1>4, HeadAndTail DEF Received
<1>5. CASE ReadCacheResponse
  <2>1. Received \in Pdus /\ Tail(wire) \in Seq(Pdus) /\ Received.type = "CacheResponse"
    BY <1>4, <1>5 DEF ReadCacheResponse, Reads
  <2>2. Received.version \in Version /\ Received.session_id \in Sessions
    BY <2>1, PduFields
  <2>q. QED BY <2>1, <2>2, <1>5, EmptyTableHoldsNothing, Zenon
            DEF ReadCacheResponse, Consume, FreshLocals, Clear, KeepTable
<1>6. CASE FallBack
  <2>1. Tail(wire) \in Seq(Pdus)
    BY <1>4, <1>6 DEF FallBack, UnsupportedVersion, Reads
  <2>q. QED BY <2>1, <1>6, EmptyTableHoldsNothing, Zenon DEF FallBack, Consume, Clear
<1>7. CASE RetryAfterNoData
  <2>1. Tail(wire) \in Seq(Pdus)
    BY <1>4, <1>7 DEF RetryAfterNoData, NoData, Reads
  <2>q. QED BY <2>1, <1>7 DEF RetryAfterNoData, Consume, KeepTable
<1>8. CASE ReadPrefix
  <2>1. Received \in Pdus /\ Tail(wire) \in Seq(Pdus) /\ Received.type = "Prefixes"
    BY <1>4, <1>8, SMTT(40) DEF ReadPrefix, Reads
  <2>2. PICK roa \in Received.announce \cup Received.withdraw :
          LET rest == [Received EXCEPT !.announce = @ \ {roa}, !.withdraw = @ \ {roa}]
              done == rest.announce \cup rest.withdraw = {}
          IN /\ table' = ApplyPrefix(table, roa, roa \in Received.announce)
             /\ wire' = (IF done THEN <<>> ELSE <<rest>>) \o Tail(wire)
    BY <1>8, ZenonT(40) DEF ReadPrefix
  <2> DEFINE rest == [Received EXCEPT !.announce = @ \ {roa}, !.withdraw = @ \ {roa}]
  <2>3. rest \in Pdus /\ roa \in Roas
    <3>1. Received \in Runs /\ Received.announce \subseteq Roas /\ Received.withdraw \subseteq Roas
      BY <2>1, PduFields
    <3>q. QED BY <3>1, RestOfPrefixes, Zenon
  <2> HIDE DEF rest
  <2>4. wire' \in Seq(Pdus)
    <3>1. <<>> \o Tail(wire) \in Seq(Pdus)
      BY <2>1, ConcatEmptySeq
    <3>2. <<rest>> \o Tail(wire) \in Seq(Pdus)
      BY <2>1, <2>3, PutInFront
    <3>q. QED BY <2>2, <3>1, <3>2 DEF rest
  <2>5. IsTable(table') /\ Contents(table') \subseteq Roas
    <3>1. roa \in Vrps
      BY <2>3, RtrAssumption DEF Vrps
    <3>q. QED BY <3>1, <2>2, <2>3, ApplyPrefixApplies
  <2>q. QED BY <2>4, <2>5, <1>8 DEF ReadPrefix
<1>9. CASE ReadCacheReset
  <2>1. Tail(wire) \in Seq(Pdus)
    BY <1>4, <1>9 DEF ReadCacheReset, Reads
  <2>q. QED BY <2>1, <1>9, EmptyTableHoldsNothing, Zenon DEF ReadCacheReset, Consume, Clear, StartSync, FreshLocals
<1>10. CASE ReadEndOfData
  <2>1. Received \in Pdus /\ Tail(wire) \in Seq(Pdus) /\ Received.type = "EndOfData"
    BY <1>4, <1>10 DEF ReadEndOfData, Reads
  <2>2. Received.serial \in Serials
    BY <2>1, PduFields
  <2>q. QED BY <2>1, <2>2, <1>10 DEF ReadEndOfData, Consume, Notify
<1>11. CASE ReadOtherSession
  BY <1>3, <1>11, Zenon DEF ReadOtherSession, Clear
<1>12. CASE Refresh
  <2>1. wire' \in Seq(Pdus)
    <3>1. CASE UNCHANGED wire
      BY <3>1
    <3>2. CASE wire # <<>> /\ wire' = <<[type |-> "Malformed"]>> \o Tail(wire)
      <4>1. [type |-> "Malformed"] \in Pdus
        BY DEF Pdus
      <4>q. QED BY <3>2, <4>1, <1>4, PutInFront
    <3>q. QED BY <3>1, <3>2, <1>12 DEF Refresh
  <2>q. QED BY <2>1, <1>12, Zenon DEF Refresh, StartSync, FreshLocals, KeepTable
<1>13. CASE ReadSerialNotify
  <2>1. Tail(wire) \in Seq(Pdus)
    BY <1>4, <1>13 DEF ReadSerialNotify, Reads
  <2>q. QED BY <2>1, <1>13, Zenon DEF ReadSerialNotify, Consume, KeepTable, StartSync, FreshLocals
<1>14. CASE ReadUnexpected
  BY <1>3, <1>14 DEF ReadUnexpected, AbandonTable
<1>15. CASE LoseConnection
  BY <1>3, <1>15 DEF LoseConnection, AbandonTable
<1>q. QED BY <1>1, <1>2, <1>5, <1>6, <1>7, <1>8, <1>9, <1>10, <1>11, <1>12, <1>13, <1>14, <1>15
          DEF ClientStep

\* One step of anyone.
LEMMA TypedStep ==
  ASSUME Typed, [Next]_vars
  PROVE  Typed'
<1>0. ClientType /\ IsTable(table) /\ CacheTyped
      /\ Contents(judged) \subseteq Roas /\ IsTable(judged) /\ reevaluating \in BOOLEAN
  BY TypedSplit
<1>1. SUFFICES /\ ClientType' /\ IsTable(table)' /\ CacheTyped'
               /\ Contents(judged)' \subseteq Roas /\ IsTable(judged)' /\ reevaluating' \in BOOLEAN
  BY DEF Typed, TypeOK, CacheTyped
<1>2. CASE Client \/ Disconnect
  <2>1. ClientType' /\ IsTable(table)'
    BY <1>0, <1>2, TypedClient DEF Client, Disconnect
  <2>2. CacheTyped'
    BY <1>0, <1>2, RtrSyncAssumption DEF Client, Disconnect, CacheTyped
  <2>q. QED BY <1>0, <1>2, <2>1, <2>2 DEF Client, Disconnect
<1>3. ASSUME UNCHANGED client, wire' \in Seq(Pdus), query' \in Queries \cup {None}, CacheTyped',
             judged' \in {judged, table}, reevaluating' \in BOOLEAN
      PROVE  Typed'
  <2>1. ClientType' /\ IsTable(table)'
    BY <1>0, <1>3 DEF client, ClientType
  <2>2. Contents(judged') \subseteq Roas /\ IsTable(judged')
    BY <1>0, <1>3 DEF ClientType
  <2>q. QED BY <1>3, <2>1, <2>2 DEF Typed, TypeOK, CacheTyped
<1>w. wire \in Seq(Pdus) /\ query \in Queries \cup {None}
  BY <1>0 DEF ClientType
<1>4. CASE Publish
  <2>1. CacheTyped'
    BY <1>0, <1>4, RtrSyncAssumption DEF Publish, CacheTyped
  <2>2. [type |-> "SerialNotify"] \in Pdus
    BY DEF Pdus
  <2>3. wire' \in Seq(Pdus)
    BY <1>w, <2>2, <1>4, AppendToWire, SMTT(40) DEF Publish
  <2>q. QED BY <1>0, <1>w, <1>3, <1>4, <2>1, <2>3, TypedSplit DEF Publish, Typed, TypeOK, CacheTyped
<1>5. CASE Restart
  <2>1. CacheTyped'
    BY <1>0, <1>5, RtrSyncAssumption DEF Restart, CacheTyped
  <2>q. QED BY <1>0, <1>w, <1>3, <1>5, <2>1 DEF Restart, Typed, TypeOK, CacheTyped
<1>6. CASE Loaded
  <2>1. CacheTyped'
    BY <1>0, <1>6, Zenon DEF Loaded, CacheTyped
  <2>q. QED BY <1>0, <1>w, <1>3, <1>6, <2>1 DEF Loaded, Typed, TypeOK, CacheTyped
<1>7. ASSUME NEW pdus \in Seq(Pdus), pdus # <<>>, Reply(pdus), CacheTyped' PROVE Typed'
  <2>1. wire' \in Seq(Pdus)
    BY <1>w, <1>7, JoinWires DEF Reply
  <2>q. QED BY <1>0, <1>3, <1>7, <2>1 DEF Reply
<1>8. CASE RejectVersion
  <2>1. <<[type |-> "ErrorReport", code |-> 4]>> \in Seq(Pdus)
    BY DEF Pdus
  <2>2. CacheTyped'
    BY <1>0, <1>8 DEF RejectVersion, Reply, CacheTyped
  <2>q. QED BY <1>7, <1>8, <2>1, <2>2, Zenon DEF RejectVersion, Typed, TypeOK, CacheTyped
<1>9. CASE ReportNoData
  <2>1. <<[type |-> "ErrorReport", code |-> 2]>> \in Seq(Pdus)
    BY DEF Pdus
  <2>2. CacheTyped'
    BY <1>0, <1>9 DEF ReportNoData, Reply, CacheTyped
  <2>q. QED BY <1>7, <1>9, <2>1, <2>2, Zenon DEF ReportNoData, Typed, TypeOK, CacheTyped
<1>10. CASE Answer
  <2> DEFINE from == IF query.type = "SerialQuery" THEN published[session][query.serial] ELSE {}
             response == [type |-> "CacheResponse", version |-> AnswerVersion, session_id |-> session]
  <2>1. response \in Pdus
    BY <1>0, <1>w, <1>10 DEF Answer, AnswerVersion, Pdus, Queries, Version, CacheTyped
  <2>2. from \subseteq Roas
    BY <1>0, <1>w, <1>10 DEF Answer, Queries, CacheTyped
  <2> HIDE DEF response, from
  <2>3. Diff(from) \in Seq(Pdus)
    <3> DEFINE to == published[session][latest]
               pdu == [type |-> "Prefixes", announce |-> to \ from, withdraw |-> from \ to]
    <3>1. to \subseteq Roas
      BY <1>0 DEF CacheTyped
    <3>2. pdu \in Pdus
      BY <3>1, <2>2 DEF Pdus
    <3>3. Diff(from) = IF from = to THEN <<>> ELSE <<pdu>>
      BY DEF Diff
    <3> HIDE DEF to, pdu
    <3>q. QED BY <3>2, <3>3, EmptySeq
  <2>4. <<response>> \o Diff(from) \in Seq(Pdus) /\ <<response>> \o Diff(from) # <<>>
    BY <2>1, <2>3, PutInFront, SMTT(40)
  <2>5. CacheTyped'
    BY <1>0, <1>10 DEF Answer, Reply, CacheTyped
  <2>q. QED BY <1>7, <1>10, <2>4, <2>5, Zenon DEF Answer, response, from, Typed, TypeOK, CacheTyped
<1>11. CASE Finish
  <2>1. [type |-> "EndOfData", session_id |-> ending.session_id, serial |-> ending.serial] \in Pdus
    BY <1>0, <1>11 DEF Finish, CacheTyped, Pdus
  <2>2. wire' \in Seq(Pdus)
    BY <1>w, <2>1, <1>11, AppendToWire DEF Finish
  <2>3. CacheTyped'
    BY <1>0, <1>11 DEF Finish, CacheTyped
  <2>q. QED BY <1>0, <1>w, <1>3, <1>11, <2>2, <2>3 DEF Finish, Typed, TypeOK, CacheTyped
<1>12. CASE ResetClient
  <2>1. <<[type |-> "CacheReset"]>> \in Seq(Pdus)
    BY DEF Pdus
  <2>2. CacheTyped'
    BY <1>0, <1>12, RtrSyncAssumption DEF ResetClient, Reply, CacheTyped
  <2>q. QED BY <1>7, <1>12, <2>1, <2>2, Zenon DEF ResetClient, Typed, TypeOK, CacheTyped
<1>13. CASE GiveUp
  <2>1. [type |-> "CacheReset"] \in Pdus
    BY DEF Pdus
  <2>2. wire' \in Seq(Pdus)
    BY <1>w, <2>1, <1>13, AppendToWire DEF GiveUp
  <2>3. CacheTyped'
    BY <1>0, <1>13, RtrSyncAssumption, SMTT(40) DEF GiveUp, CacheTyped
  <2>q. QED BY <1>0, <1>w, <1>3, <1>13, <2>2, <2>3 DEF GiveUp, Typed, TypeOK, CacheTyped
<1>14. CASE TakeChange
  BY <1>0, <1>14, Zenon DEF TakeChange, cache, ClientType, CacheTyped
<1>15. CASE Reevaluate \/ JudgeRoute
  <2>1. CacheTyped'
    BY <1>0, <1>15 DEF Reevaluate, JudgeRoute, cache, CacheTyped
  <2>q. QED BY <1>0, <1>w, <1>3, <1>15, <2>1, ZenonT(40) DEF Reevaluate, JudgeRoute, Typed, TypeOK, CacheTyped
<1>16. CASE UNCHANGED vars
  BY <1>0, <1>16 DEF vars, client, cache, ClientType, CacheTyped
<1>q. QED BY <1>2, <1>4, <1>5, <1>6, <1>8, <1>9, <1>10, <1>11, <1>12, <1>13, <1>14, <1>15, <1>16
          DEF Next, CacheStep

-----------------------------------------------------------------------------
(* The conversation, step by step.                                         *)

Safe == Talk /\ Resumes /\ TableSound /\ StatusHonest /\ JudgedByTable

LEMMA SafeInit == Init => Safe
BY NoNoise, EmptyTableHoldsNothing
   DEF Init, ClientInit, Safe, Talk, TalkOf, Resumes, TableSound, Resumable, StatusHonest, JudgedByTable

\* What a client that reads has before it.
LEMMA InReply ==
  ASSUME Typed, Talk, phase = "Reply", wire # <<>>, ~Noisy(Head(wire))
  PROVE  query = None /\ Answers(wire)
<1>1. wire \in Seq(Pdus)
  BY DEF Typed, TypeOK, ClientType
<1>2. ~Noise(wire)
  BY <1>1, NoiseIsNoisy
<1>q. QED BY <1>2 DEF Talk, TalkOf

\* A connection that ends leaves no trace but the table, and the table only
\* if it is sound, cleared, or marked as torn.
LEMMA SafeHangUp ==
  ASSUME Typed, Safe, HangUp, ending' = None, Clear \/ AbandonTable,
         UNCHANGED <<session_id, session, latest, published>>
  PROVE  Safe'
<1> USE DEF HangUp
<1>1. Talk'
  BY NoNoise DEF Talk, TalkOf
<1>2. Resumes'
  BY DEF Safe, Resumes, Clear, AbandonTable, Known, KnownAt
<1>3. TableSound'
  <2>1. CASE Clear
    BY <2>1, EmptyTableHoldsNothing DEF Clear, TableSound, Resumable
  <2>2. CASE AbandonTable
    BY <2>2, Zenon DEF AbandonTable, Safe, TableSound, Resumable, Typed, TypeOK, ClientType
  <2>q. QED BY <2>1, <2>2
<1>4. StatusHonest' /\ JudgedByTable'
  BY DEF StatusHonest, JudgedByTable
<1>q. QED BY <1>1, <1>2, <1>3, <1>4 DEF Safe

\* A sync starts, or starts over, with nothing under way.
LEMMA SafeQuery ==
  ASSUME Typed, Safe, phase' = "Query", query' = None, ending' = None, Noise(wire'),
         Clear \/ (KeepTable /\ phase # "Diff"), connected' = connected,
         UNCHANGED <<session_id, session, latest, published>>
  PROVE  Safe'
<1>1. Talk'
  BY DEF Talk, TalkOf, Noise
<1>2. Resumes'
  BY DEF Safe, Resumes, Clear, KeepTable, Known, KnownAt
<1>3. TableSound'
  <2>1. CASE Clear
    BY <2>1, EmptyTableHoldsNothing DEF Clear, TableSound, Resumable
  <2>2. CASE KeepTable /\ phase # "Diff"
    BY <2>2 DEF KeepTable, Safe, TableSound, Resumable
  <2>q. QED BY <2>1, <2>2
<1>4. StatusHonest' /\ JudgedByTable'
  BY DEF StatusHonest, JudgedByTable
<1>q. QED BY <1>1, <1>2, <1>3, <1>4 DEF Safe

LEMMA SafeClient ==
  ASSUME Typed, Safe, Client \/ Disconnect
  PROVE  Safe'
<1> DEFINE Still == UNCHANGED <<session, latest, published, judged, reevaluating>>
                    /\ ending' = IF phase' = "Down" THEN None ELSE ending
<1>0. Still /\ (ClientStep \/ LoseConnection)
  BY DEF Client, Disconnect, LoseConnection, HangUp
<1>w. /\ wire \in Seq(Pdus)
      /\ wire # <<>> => Received \in Pdus /\ Tail(wire) \in Seq(Pdus) /\ Received = Head(wire)
  BY HeadAndTail, SMTT(40) DEF Typed, TypeOK, ClientType, Received
<1>1. CASE Connect
  BY <1>0, <1>1, SafeQuery DEF Connect, StartSync, Safe, Talk, TalkOf
<1>2. CASE SendQuery
  <2>1. query' # None /\ Asks'
    <3>1. session_id = None => serial = None
      BY RtrAssumption DEF Safe, Resumes, Known, KnownAt
    <3>2. UNCHANGED <<force_reset, session_id, serial>>
      BY <1>2 DEF SendQuery, KeepTable
    <3>3. CASE ~force_reset /\ serial # None /\ session_id # None
      <4>1. query' = [type |-> "SerialQuery", version |-> version,
                      session_id |-> session_id, serial |-> serial]
        BY <1>2, <3>3 DEF SendQuery
      <4>2. query' \in Queries
        BY <4>1, <3>3 DEF Queries, Typed, TypeOK, ClientType
      <4>q. QED BY <3>2, <3>3, <4>1, <4>2, RtrSyncAssumption DEF Asks
    <3>4. CASE ~(~force_reset /\ serial # None /\ session_id # None)
      <4>1. query' = [type |-> "ResetQuery", version |-> version]
        BY <1>2, <3>4 DEF SendQuery
      <4>2. query' \in Queries
        BY <4>1 DEF Queries, Typed, TypeOK, ClientType
      <4>q. QED BY <3>1, <3>2, <3>4, <4>1, <4>2, RtrSyncAssumption DEF Asks
    <3>q. QED BY <3>3, <3>4
  <2>2. Talk'
    BY <1>0, <1>2, <2>1 DEF SendQuery, Safe, Talk, TalkOf, Noise
  <2>q. QED BY <1>0, <1>2, <2>2
            DEF SendQuery, KeepTable, Safe, Resumes, Known, KnownAt, TableSound, Resumable, StatusHonest, JudgedByTable
<1>3. CASE ReadCacheResponse
  <2>1. Received.type = "CacheResponse" /\ wire # <<>> /\ phase = "Reply"
    BY <1>3 DEF ReadCacheResponse, Reads
  <2>2. query = None /\ Answers(wire)
    BY <1>w, <2>1, InReply DEF Noisy, Safe
  <2>3. Received.session_id \in Sessions
    BY <1>w, <2>1, PduFields
  <2>4. /\ force_reset \/ serial = None \/ Received.session_id = session_id
        /\ Body(Tail(wire), Received.session_id, force_reset \/ ~torn,
                IF force_reset THEN {} ELSE Contents(table))
    BY <1>w, <2>1, <2>2 DEF Answers
  <2>5. /\ phase' = "Diff" /\ wire' = Tail(wire) /\ query' = None /\ session_id' = Received.session_id
        /\ ending' = ending /\ connected' = connected
        /\ force_reset => Contents(table') = {} /\ serial' = None /\ torn' = FALSE
        /\ ~force_reset => UNCHANGED <<table, serial, torn>>
    BY <1>0, <1>3, <2>2, EmptyTableHoldsNothing DEF ReadCacheResponse, Consume, Clear, KeepTable
  <2>6. Body(wire, session_id, ~torn, Contents(table))'
    <3>1. CASE force_reset
      BY <1>0, <2>4, <2>5, <3>1, ZenonT(40) DEF Body, Ends, Closes, Known, KnownAt, Noise
    <3>2. CASE ~force_reset
      <4>1. Body(Tail(wire), Received.session_id, ~torn, Contents(table))
        BY <2>4, <3>2, Zenon DEF Body, Ends, Closes
      <4>2. Contents(table') = Contents(table) /\ torn' = torn
        BY <2>5, <3>2
      <4>q. QED BY <1>0, <2>5, <4>1, <4>2, ZenonT(40) DEF Body, Ends, Closes, Known, KnownAt, Noise
    <3>q. QED BY <3>1, <3>2, SMTT(40)
  <2>7. Talk'
    BY <2>5, <2>6 DEF Talk, TalkOf
  <2>8. Resumes'
    BY <1>0, <2>4, <2>5 DEF Safe, Resumes, Known, KnownAt
  <2>9. TableSound' /\ StatusHonest' /\ JudgedByTable'
    BY <2>5 DEF Safe, TableSound, StatusHonest, JudgedByTable
  <2>q. QED BY <2>7, <2>8, <2>9 DEF Safe
<1>4. CASE FallBack \/ RetryAfterNoData
  <2>1. Received.type = "ErrorReport" /\ wire # <<>> /\ phase = "Reply"
    BY <1>4 DEF FallBack, RetryAfterNoData, UnsupportedVersion, NoData, Reads
  <2>2. query = None /\ ending = None /\ Noise(Tail(wire))
    BY <1>w, <2>1, InReply DEF Noisy, Safe, Answers
  <2>q. QED BY <1>0, <1>4, <2>1, <2>2, SafeQuery, Zenon DEF FallBack, RetryAfterNoData, Consume
<1>5. CASE ReadCacheReset
  <2>1. Received.type = "CacheReset" /\ wire # <<>> /\ phase = "Diff"
    BY <1>5 DEF ReadCacheReset, Reads
  <2>2. query = None /\ ending = None /\ Noise(Tail(wire))
    BY <1>w, <2>1 DEF Safe, Talk, TalkOf, Body, Ends
  <2>q. QED BY <1>0, <1>5, <2>1, <2>2, SafeQuery DEF ReadCacheReset, Consume, StartSync
<1>6. CASE ReadEndOfData
  <2>1. /\ Received.type = "EndOfData" /\ wire # <<>> /\ phase = "Diff"
        /\ Received.session_id = session_id
    BY <1>6 DEF ReadEndOfData, Reads
  <2>2. /\ query = None /\ ending = None /\ Noise(Tail(wire))
        /\ Closes(Received, session_id, ~torn, Contents(table))
    BY <1>w, <2>1 DEF Safe, Talk, TalkOf, Body, Ends
  <2>3. /\ phase' = "Idle" /\ wire' = Tail(wire) /\ query' = None /\ ending' = None
        /\ serial' = Received.serial /\ connected' = TRUE /\ changed' = TRUE
        /\ UNCHANGED <<session_id, table, torn>>
    BY <1>0, <1>6, <2>2 DEF ReadEndOfData, Consume, Notify
  <2>4. Received.serial \in Serials /\ session_id \in Sessions
    BY <1>w, <2>1, PduFields
  <2>5. Talk'
    BY <2>2, <2>3 DEF Talk, TalkOf, Noise
  <2>6. Resumes'
    BY <1>0, <2>1, <2>2, <2>3 DEF Resumes, Closes, Known, KnownAt
  <2>7. TableSound'
    BY <1>0, <2>1, <2>2, <2>3, <2>4, RtrAssumption DEF TableSound, Resumable, Closes
  <2>8. StatusHonest' /\ JudgedByTable'
    BY <2>3, <2>4, RtrAssumption DEF StatusHonest, JudgedByTable
  <2>q. QED BY <2>5, <2>6, <2>7, <2>8 DEF Safe
<1>7. CASE ReadOtherSession
  BY <1>0, <1>7, SafeHangUp, Zenon DEF ReadOtherSession, HangUp
<1>8. CASE Refresh
  <2>1. Noise(wire')
    <3>1. Noise(wire)
      BY <1>8 DEF Refresh, Safe, Talk, TalkOf
    <3>2. CASE UNCHANGED wire
      BY <3>1, <3>2 DEF Noise
    <3>3. CASE wire # <<>> /\ wire' = <<[type |-> "Malformed"]>> \o Tail(wire)
      <4>1. [type |-> "Malformed"] \in Pdus /\ Noisy([type |-> "Malformed"])
        BY DEF Pdus, Noisy
      <4>2. Noise(Tail(wire))
        BY <1>w, <3>1, <3>3, NoiseIsNoisy
      <4>q. QED BY <1>w, <3>3, <4>1, <4>2, NoiseInFront, Zenon
    <3>q. QED BY <3>2, <3>3, <1>8 DEF Refresh
  <2>q. QED BY <1>0, <1>8, <2>1, SafeQuery DEF Refresh, StartSync, Safe, Talk, TalkOf
<1>9. CASE ReadSerialNotify
  <2>1. wire # <<>> /\ Noise(wire) /\ query = None /\ ending = None
    BY <1>9 DEF ReadSerialNotify, Reads, Safe, Talk, TalkOf
  <2>2. Noise(Tail(wire))
    BY <1>w, <2>1, NoiseIsNoisy
  <2>q. QED BY <1>0, <1>9, <2>1, <2>2, SafeQuery DEF ReadSerialNotify, Consume, StartSync
<1>10. CASE ReadUnexpected
  BY <1>0, <1>10, SafeHangUp, Zenon DEF ReadUnexpected, HangUp, AbandonTable
<1>11. CASE LoseConnection
  BY <1>0, <1>11, SafeHangUp, Zenon DEF LoseConnection, HangUp, AbandonTable
<1>12. CASE ReadPrefix
  <2>1. Received.type = "Prefixes" /\ wire # <<>> /\ phase = "Diff"
    BY <1>12, SMTT(40) DEF ReadPrefix, Reads
  <2>2. PICK roa \in Received.announce \cup Received.withdraw :
          LET rest == [Received EXCEPT !.announce = @ \ {roa}, !.withdraw = @ \ {roa}]
              done == rest.announce \cup rest.withdraw = {}
          IN /\ table' = ApplyPrefix(table, roa, roa \in Received.announce)
             /\ wire' = (IF done THEN <<>> ELSE <<rest>>) \o Tail(wire)
    BY <1>12, ZenonT(40) DEF ReadPrefix
  <2> DEFINE rest == [Received EXCEPT !.announce = @ \ {roa}, !.withdraw = @ \ {roa}]
             A == Received.announce
             W == Received.withdraw
  <2>3. /\ rest \in Pdus /\ rest.type = "Prefixes" /\ roa \in Vrps
        /\ rest.announce = A \ {roa} /\ rest.withdraw = W \ {roa}
    <3>1. Received \in Runs /\ A \subseteq Roas /\ W \subseteq Roas
      BY <1>w, <2>1, PduFields
    <3>q. QED BY <3>1, RestOfPrefixes, RtrAssumption, Zenon DEF Vrps
  <2>4. wire' = (IF rest.announce \cup rest.withdraw = {} THEN <<>> ELSE <<rest>>) \o Tail(wire)
    BY <2>2, SMTT(40)
  <2> HIDE DEF rest
  <2>5. /\ query = None /\ A \cap W = {}
        /\ Ends(Tail(wire), session_id, ~torn, (Contents(table) \cup A) \ W)
    BY <1>w, <2>1, Zenon DEF Safe, Talk, TalkOf, Body, Ends
  <2>6. (Contents(table') \cup (A \ {roa})) \ (W \ {roa}) = (Contents(table) \cup A) \ W
    <3>1. Contents(table') = IF roa \in A THEN Contents(table) \cup {roa} ELSE Contents(table) \ {roa}
      BY <2>2, <2>3, ApplyPrefixApplies, ZenonT(40) DEF Typed
    <3>2. CASE roa \in A
      BY <3>1, <3>2, <2>5
    <3>3. CASE roa \in W
      BY <3>1, <3>3, <2>5
    <3>q. QED BY <3>2, <3>3
  <2>7. /\ phase' = "Diff" /\ query' = None /\ ending' = ending
        /\ UNCHANGED <<session_id, torn, serial, connected>>
    BY <1>0, <1>12, <2>1, <2>5 DEF ReadPrefix
  <2>8. Ends(Tail(wire), session_id, ~torn, (Contents(table') \cup rest.announce) \ rest.withdraw)
    BY <2>3, <2>5, <2>6, SMTT(40)
  <2>9. Body(wire, session_id, ~torn, Contents(table))'
    <3>1. CASE rest.announce \cup rest.withdraw = {}
      <4>1. wire' = Tail(wire)
        BY <3>1, <2>4, <1>w, <2>1, ConcatEmptySeq
      <4>2. Contents(table') = (Contents(table') \cup rest.announce) \ rest.withdraw
        BY <3>1
      <4>q. QED BY <1>0, <4>1, <4>2, <2>7, <2>8, Zenon DEF Body, Ends, Closes, Known, KnownAt, Noise
    <3>2. CASE rest.announce \cup rest.withdraw # {}
      <4>1. wire' # <<>> /\ Head(wire') = rest /\ Tail(wire') = Tail(wire)
        BY <3>2, <2>3, <2>4, <1>w, <2>1, PutInFront
      <4>2. rest.announce \cap rest.withdraw = {}
        BY <2>3, <2>5
      <4>3. Ends(Tail(wire'), session_id', ~torn', (Contents(table') \cup rest.announce) \ rest.withdraw)
        BY <4>1, <2>7, <2>8, Zenon
      <4>q. QED BY <1>0, <4>1, <4>2, <4>3, <2>3, <2>7, ZenonT(40) DEF Body, Ends, Closes, Known, KnownAt, Noise
    <3>q. QED BY <3>1, <3>2, SMTT(40)
  <2>10. Talk'
    BY <2>1, <2>7, <2>9 DEF Talk, TalkOf, Safe
  <2>11. Resumes' /\ TableSound' /\ StatusHonest' /\ JudgedByTable'
    BY <1>0, <2>1, <2>7 DEF Safe, Resumes, Known, KnownAt, TableSound, StatusHonest, JudgedByTable
  <2>q. QED BY <2>10, <2>11 DEF Safe
<1>q. QED BY <1>0, <1>1, <1>2, <1>3, <1>4, <1>5, <1>6, <1>7, <1>8, <1>9, <1>10, <1>11, <1>12 DEF ClientStep

\* The cache only adds to what it has published.
Grows ==
  /\ session <= session'
  /\ \A s, n : KnownAt(s, n, session, latest) =>
               KnownAt(s, n, session', latest') /\ published'[s][n] = published[s][n]

LEMMA KnownIsTyped ==
  ASSUME NEW s, NEW n, NEW ses, NEW lat, KnownAt(s, n, ses, lat)
  PROVE  s \in Sessions /\ n \in Serials
BY DEF KnownAt

LEMMA PublishGrows == ASSUME CacheTyped, Publish PROVE Grows
<1> USE RtrSyncAssumption DEF CacheTyped
<1>1. session' = session /\ latest' = latest + 1 /\ latest + 1 \in Serials
  BY DEF Publish
<1>2. PICK d : published' = [published EXCEPT ![session][latest + 1] = d]
  BY ZenonT(40) DEF Publish
<1>3. ASSUME NEW s, NEW n, KnownAt(s, n, session, latest)
      PROVE  KnownAt(s, n, session', latest') /\ published'[s][n] = published[s][n]
  BY <1>1, <1>2, <1>3 DEF KnownAt
<1>q. QED BY <1>1, <1>3 DEF Grows

LEMMA RestartGrows == ASSUME CacheTyped, Restart PROVE Grows
<1> USE RtrSyncAssumption DEF CacheTyped
<1>1. session' = session + 1 /\ latest' = 0 /\ session + 1 \in Sessions
  BY DEF Restart
<1>2. PICK d : published' = [published EXCEPT ![session + 1][0] = d]
  BY Zenon DEF Restart
<1>3. ASSUME NEW s, NEW n, KnownAt(s, n, session, latest)
      PROVE  KnownAt(s, n, session', latest') /\ published'[s][n] = published[s][n]
  BY <1>1, <1>2, <1>3 DEF KnownAt
<1>q. QED BY <1>1, <1>3 DEF Grows

LEMMA StillGrows ==
  ASSUME CacheTyped, UNCHANGED <<session, latest, published>>
  PROVE  Grows
BY RtrSyncAssumption DEF Grows, CacheTyped

\* Noise after an answer does not matter.
LEMMA BodyBeforeNoise ==
  ASSUME NEW w \in Seq(Pdus), NEW e \in Pdus, Noisy(e), ending = None,
         NEW s, NEW sound, NEW roas, Body(w, s, sound, roas)
  PROVE  Body(Append(w, e), s, sound, roas)
<1>1. ASSUME NEW v \in Seq(Pdus), NEW r, Ends(v, s, sound, r)
      PROVE  Ends(Append(v, e), s, sound, r)
  <2>1. v # <<>> /\ Noise(Tail(v))
    BY <1>1 DEF Ends
  <2>2. Tail(v) \in Seq(Pdus)
    BY <2>1, HeadAndTail
  <2>3. /\ Append(v, e) # <<>> /\ Head(Append(v, e)) = Head(v)
        /\ Tail(Append(v, e)) = Append(Tail(v), e)
    BY <2>1, AppendToWire
  <2>4. Noise(Tail(Append(v, e)))
    BY <2>1, <2>2, <2>3, MoreNoise, Zenon
  <2>q. QED BY <1>1, <2>3, <2>4 DEF Ends
<1>2. CASE Ends(w, s, sound, roas)
  BY <1>1, <1>2 DEF Body
<1>3. CASE /\ w # <<>> /\ Head(w).type = "Prefixes"
           /\ Head(w).announce \cap Head(w).withdraw = {}
           /\ Ends(Tail(w), s, sound, (roas \cup Head(w).announce) \ Head(w).withdraw)
  <2>1. Tail(w) \in Seq(Pdus)
    BY <1>3, HeadAndTail
  <2>2. /\ Append(w, e) # <<>> /\ Head(Append(w, e)) = Head(w)
        /\ Tail(Append(w, e)) = Append(Tail(w), e)
    BY <1>3, AppendToWire, SMTT(40)
  <2>3. Ends(Tail(Append(w, e)), s, sound,
             (roas \cup Head(Append(w, e)).announce) \ Head(Append(w, e)).withdraw)
    BY <1>1, <1>3, <2>1, <2>2, ZenonT(40)
  <2>q. QED BY <1>3, <2>2, <2>3, ZenonT(40) DEF Body
<1>q. QED BY <1>2, <1>3, Zenon DEF Body

LEMMA BodyGrows ==
  ASSUME Typed, Typed', Grows, UNCHANGED ending, NEW w, NEW s, NEW sound, NEW roas,
         Body(w, s, sound, roas)
  PROVE  Body(w, s, sound, roas)'
<1>1. ASSUME NEW v, NEW r, Ends(v, s, sound, r) PROVE Ends(v, s, sound, r)'
  <2>1. s <= session'
    BY <1>1, RtrSyncAssumption, SMTT(40) DEF Ends, Grows, Typed, TypeOK
  <2>q. QED BY <1>1, <2>1, ZenonT(40) DEF Ends, Closes, Known, Grows, Noise
<1>q. QED BY <1>1, ZenonT(40) DEF Body

\* What the cache publishes does not touch the conversation.
LEMMA TalkGrows ==
  ASSUME Typed, Typed', TalkOf(wire'), Grows, UNCHANGED <<client, query, ending>>
  PROVE  Talk'
<1> USE DEF client
<1>2. ASSUME phase' = "Diff" PROVE Body(wire, session_id, ~torn, Contents(table))'
  BY <1>2, BodyGrows DEF TalkOf
<1>3. ASSUME phase' = "Reply", Answers(wire') PROVE Answers(wire)'
  <2>1. CASE Head(wire').type \in {"ErrorReport", "CacheReset"} /\ ending = None /\ Noise(Tail(wire'))
    BY <2>1, ZenonT(40) DEF Answers, Noise
  <2>2. CASE /\ Head(wire').type = "CacheResponse"
             /\ force_reset \/ serial = None \/ Head(wire').session_id = session_id
             /\ Body(Tail(wire'), Head(wire').session_id, force_reset \/ ~torn,
                     IF force_reset THEN {} ELSE Contents(table))
    <3> DEFINE sound == force_reset \/ ~torn
               roas == IF force_reset THEN {} ELSE Contents(table)
    <3>1. sound' = sound /\ roas' = roas
      BY SMTT(40)
    <3>2. Body(Tail(wire'), Head(wire').session_id, sound, roas)
      BY <2>2, SMTT(40), ZenonT(40)
    <3> HIDE DEF sound, roas
    <3>3. Body(Tail(wire), Head(wire).session_id, sound, roas)'
      BY <3>1, <3>2, BodyGrows
    <3>q. QED BY <2>2, <3>3, Zenon DEF Answers, sound, roas
  <2>q. QED BY <1>3, <2>1, <2>2, ZenonT(40) DEF Answers
<1>4. ASSUME Asks PROVE Asks'
  BY <1>4 DEF Asks
<1>5. ASSUME Noise(wire') PROVE Noise(wire)'
  BY <1>5, SMTT(40) DEF Noise
<1>q. QED BY <1>2, <1>3, <1>4, <1>5, Zenon DEF Talk, TalkOf

LEMMA TalkBeforeNoise ==
  ASSUME Typed, Talk, phase # "Down", ending = None, NEW e \in Pdus, Noisy(e)
  PROVE  TalkOf(Append(wire, e))
<1>0. wire \in Seq(Pdus)
  BY DEF Typed, TypeOK, ClientType
<1>1. Noise(wire) => Noise(Append(wire, e))
  BY <1>0, MoreNoise
<1>2. wire # <<>> => /\ Append(wire, e) # <<>> /\ Head(Append(wire, e)) = Head(wire)
                     /\ Tail(Append(wire, e)) = Append(Tail(wire), e)
                     /\ Tail(wire) \in Seq(Pdus)
  BY <1>0, AppendToWire, HeadAndTail, SMTT(40), ZenonT(40)
<1>3. ASSUME wire # <<>>, Answers(wire) PROVE Answers(Append(wire, e))
  <2>1. CASE Head(wire).type \in {"ErrorReport", "CacheReset"} /\ ending = None /\ Noise(Tail(wire))
    BY <1>2, <1>3, <2>1, MoreNoise, ZenonT(40) DEF Answers
  <2>2. CASE /\ Head(wire).type = "CacheResponse"
             /\ force_reset \/ serial = None \/ Head(wire).session_id = session_id
             /\ Body(Tail(wire), Head(wire).session_id, force_reset \/ ~torn,
                     IF force_reset THEN {} ELSE Contents(table))
    <3>1. Body(Append(Tail(wire), e), Head(wire).session_id, force_reset \/ ~torn,
               IF force_reset THEN {} ELSE Contents(table))
      BY <1>2, <1>3, <2>2, BodyBeforeNoise, ZenonT(40)
    <3>q. QED BY <1>2, <1>3, <2>2, <3>1, Zenon DEF Answers
  <2>q. QED BY <1>3, <2>1, <2>2, SMTT(40) DEF Answers
<1>4. ASSUME phase = "Diff" PROVE Body(Append(wire, e), session_id, ~torn, Contents(table))
  <2>1. Body(wire, session_id, ~torn, Contents(table))
    BY <1>4 DEF Talk, TalkOf
  <2>q. QED BY <1>0, <2>1, BodyBeforeNoise
<1>q. QED BY <1>1, <1>2, <1>3, <1>4 DEF Talk, TalkOf

\* Whoever keeps the conversation and leaves the client alone is safe.
LEMMA SafeOtherwise ==
  ASSUME Typed, Safe, Talk', Grows, UNCHANGED <<client, judged, reevaluating>>
  PROVE  Safe'
<1> USE DEF client
<1>1. Resumes'
  BY SMTT(40) DEF Safe, Resumes, Known, Grows
<1>2. TableSound'
  BY ZenonT(40) DEF Safe, TableSound, Resumable, Resumes, Known, Grows
<1>3. StatusHonest' /\ JudgedByTable'
  BY SMTT(40) DEF Safe, StatusHonest, JudgedByTable
<1>q. QED BY <1>1, <1>2, <1>3 DEF Safe

LEMMA SafePublish == ASSUME Typed, Typed', Safe, Publish PROVE Safe'
<1>1. Grows
  BY PublishGrows, SMTT(40) DEF Typed, TypeOK, CacheTyped
<1>2. TalkOf(wire')
  <2>1. [type |-> "SerialNotify"] \in Pdus /\ Noisy([type |-> "SerialNotify"])
    BY DEF Pdus, Noisy
  <2>2. CASE UNCHANGED wire
    BY <2>2 DEF Safe, Talk
  <2>3. CASE phase # "Down" /\ ending = None /\ wire' = Append(wire, [type |-> "SerialNotify"])
    BY <2>1, <2>3, TalkBeforeNoise, SMTT(40) DEF Safe
  <2>q. QED BY <2>2, <2>3, SMTT(40) DEF Publish
<1>3. Talk'
  BY <1>1, <1>2, TalkGrows DEF Publish
<1>q. QED BY <1>1, <1>3, SafeOtherwise, SMTT(40) DEF Publish

LEMMA SafeLoaded == ASSUME Typed, Typed', Safe, Loaded PROVE Safe'
<1>1. Grows
  BY StillGrows DEF Loaded, Typed, TypeOK, CacheTyped
<1>2. TalkOf(wire')
  BY SMTT(40) DEF Loaded, Safe, Talk
<1>3. Talk'
  BY <1>1, <1>2, TalkGrows DEF Loaded
<1>q. QED BY <1>1, <1>3, SafeOtherwise, SMTT(40) DEF Loaded

\* An End of Data still owed is that of the new session from now on; the
\* client will find that it is not the one of its answer.
LEMMA SafeRestart == ASSUME Typed, Typed', Safe, Restart PROVE Safe'
<1>1. Grows
  BY RestartGrows DEF Typed, TypeOK, CacheTyped
<1>2. CASE ending = None
  <2>1. Talk'
    BY <1>1, <1>2, TalkGrows DEF Restart, Safe, Talk
  <2>q. QED BY <1>1, <2>1, SafeOtherwise, SMTT(40) DEF Restart
<1>3. CASE ending # None
  <2>1. /\ session' = session + 1 /\ session' \in Sessions /\ session \in Nat
        /\ ending' = [session_id |-> session + 1, serial |-> 0]
    BY <1>3, RtrSyncAssumption, SMTT(40) DEF Restart, Typed, TypeOK
  <2>2. ending' # None
    BY <2>1, RtrSyncAssumption, SMTT(40) DEF Typed, TypeOK
  <2>3. KnownAt(ending'.session_id, ending'.serial, session', latest')
    BY <2>1, RtrSyncAssumption, SMTT(40) DEF KnownAt, Restart
  <2>4. ASSUME NEW w, NEW s, NEW sound, NEW roas, Body(w, s, sound, roas)
        PROVE  Body(w, s, sound, roas)'
    <3>1. ASSUME NEW v, NEW r, Ends(v, s, sound, r) PROVE Ends(v, s, sound, r)'
      <4>1. v = <<>> /\ s \in Sessions /\ s <= session
        BY <1>3, <3>1, SMTT(40) DEF Ends
      <4>2. s <= session' /\ ending'.session_id # s
        BY <2>1, <4>1, RtrSyncAssumption, SMTT(40)
      <4>q. QED BY <2>2, <2>3, <4>1, <4>2, Zenon DEF Ends, Closes, Known
    <3>q. QED BY <2>4, <3>1, ZenonT(40) DEF Body
  <2>5. UNCHANGED <<client, wire, query>>
    BY SMTT(40) DEF Restart
  <2>6. CASE phase = "Diff"
    <3>1. query = None /\ Body(wire, session_id, ~torn, Contents(table))
      BY <2>6 DEF Safe, Talk, TalkOf
    <3>2. Body(wire, session_id, ~torn, Contents(table))'
      <4> DEFINE sound == ~torn
                 roas == Contents(table)
      <4>1. sound' = sound /\ roas' = roas /\ wire' = wire /\ session_id' = session_id
        BY <2>5 DEF client
      <4>2. Body(wire, session_id, sound, roas)
        BY <3>1
      <4> HIDE DEF sound, roas
      <4>3. Body(wire, session_id, sound, roas)'
        BY <2>4, <4>1, <4>2
      <4>q. QED BY <4>3 DEF sound, roas
    <3>3. phase' = "Diff" /\ query' = None
      BY <2>5, <2>6, <3>1, SMTT(40) DEF client
    <3>4. Talk'
      BY <3>2, <3>3, SMTT(40) DEF Talk, TalkOf
    <3>q. QED BY <1>1, <2>5, <3>4, SafeOtherwise, SMTT(40) DEF Restart
  <2>7. CASE phase # "Diff"
    <3>1. phase = "Reply" /\ query = None /\ wire # <<>> /\ (Noisy(Head(wire)) \/ Answers(wire))
      BY <1>3, <2>7, ZenonT(40) DEF Safe, Talk, TalkOf, Typed, TypeOK, ClientType, Phase
    <3>2. ASSUME Answers(wire) PROVE Answers(wire)'
      <4> DEFINE sound == force_reset \/ ~torn
                 roas == IF force_reset THEN {} ELSE Contents(table)
      <4>1. sound' = sound /\ roas' = roas
        BY <2>5, SMTT(40) DEF client
      <4>2. /\ Head(wire).type = "CacheResponse"
            /\ force_reset \/ serial = None \/ Head(wire).session_id = session_id
            /\ Body(Tail(wire), Head(wire).session_id, sound, roas)
        BY <1>3, <3>2, SMTT(40), ZenonT(40) DEF Answers
      <4> HIDE DEF sound, roas
      <4>3. Body(Tail(wire), Head(wire).session_id, sound, roas)'
        BY <2>4, <2>5, <4>1, <4>2
      <4>q. QED BY <2>5, <4>2, <4>3, Zenon DEF Answers, sound, roas, client
    <3>3. Noisy(Head(wire)) => Noisy(Head(wire))'
      BY <2>5 DEF Noisy
    <3>4. phase' = "Reply" /\ query' = None /\ wire' # <<>>
      BY <2>5, <3>1 DEF client
    <3>5. Talk'
      BY <3>1, <3>2, <3>3, <3>4, ZenonT(40) DEF Talk, TalkOf
    <3>q. QED BY <1>1, <2>5, <3>5, SafeOtherwise DEF Restart
  <2>q. QED BY <2>6, <2>7, SMTT(40), ZenonT(40)
<1>q. QED BY <1>2, <1>3, SMTT(40)

\* Whatever the cache answers, it answers the query the client waits on.
LEMMA Awaited ==
  ASSUME Typed, Talk, query # None
  PROVE  phase = "Reply" /\ ending = None /\ Noise(wire) /\ Asks
BY ZenonT(40) DEF Talk, TalkOf, Typed, TypeOK, ClientType, Phase

LEMMA SafeReply ==
  ASSUME Typed, Safe, query # None, NEW pdus \in Seq(Pdus), pdus # <<>>,
         wire' = wire \o pdus, query' = None, UNCHANGED <<client, session, latest, published, judged, reevaluating>>,
         wire = <<>> => Answers(wire)'
  PROVE  Safe'
<1>1. phase' = "Reply" /\ Noise(wire) /\ wire \in Seq(Pdus)
  BY Awaited, Zenon DEF Safe, client, Typed, TypeOK, ClientType
<1>2. wire' # <<>> /\ (wire # <<>> => Head(wire') = Head(wire))
  BY <1>1, JoinWires
<1>3. wire # <<>> => Noisy(Head(wire))
  BY <1>1, NoiseIsNoisy
<1>4. Talk'
  BY <1>1, <1>2, <1>3 DEF Talk, TalkOf, Noisy
<1>5. Grows
  BY StillGrows DEF Typed, TypeOK, CacheTyped
<1>q. QED BY <1>4, <1>5, SafeOtherwise, SMTT(40)

\* An answer of one PDU.
LEMMA SafeShortReply ==
  ASSUME Typed, Safe, query # None, NEW e \in Pdus, e.type \in {"ErrorReport", "CacheReset"},
         Reply(<<e>>), UNCHANGED ending
  PROVE  Safe'
<1>1. <<e>> \in Seq(Pdus) /\ <<e>> # <<>> /\ Head(<<e>>) = e /\ Tail(<<e>>) = <<>>
  OBVIOUS
<1>2. ending' = None
  BY Awaited DEF Safe
<1>3. wire \in Seq(Pdus)
  BY DEF Typed, TypeOK, ClientType
<1>4. wire = <<>> => Answers(wire)'
  <2> SUFFICES ASSUME wire = <<>> PROVE Answers(wire)'
    OBVIOUS
  <2>1. wire' = <<e>>
    BY <1>1, <1>3, JoinWires, SMTT(40) DEF Reply
  <2>q. QED BY <2>1, <1>1, <1>2, NoNoise DEF Answers, Noise
<1>q. QED BY <1>1, <1>4, SafeReply, Zenon DEF Reply

\* The answer to a query: applied to the table it starts from, which is the
\* one published under the serial of a Serial Query and empty for a Reset
\* Query, it makes the table published last.
LEMMA SafeAnswer == ASSUME Typed, Typed', Safe, Answer PROVE Safe'
<1> DEFINE from == IF query.type = "SerialQuery" THEN published[session][query.serial] ELSE {}
           to == published[session][latest]
           run == [type |-> "Prefixes", announce |-> to \ from, withdraw |-> from \ to]
           response == [type |-> "CacheResponse", version |-> AnswerVersion, session_id |-> session]
           sound == force_reset \/ ~torn
           roas == IF force_reset THEN {} ELSE Contents(table)
<1>0. query \in Queries /\ CacheTyped /\ session \in Nat /\ latest \in Nat
  BY RtrSyncAssumption, Zenon DEF Answer, Typed, TypeOK, ClientType, CacheTyped
<1>1. phase = "Reply" /\ Asks /\ query # None
  BY Awaited, SMTT(40) DEF Answer, Safe
<1>2. sound => roas = from
  <2>1. CASE query.type = "SerialQuery"
    <3>1. query.session_id = session /\ query.serial \in Serials
      BY <1>0, <2>1 DEF Answer, Queries
    <3>2. ~force_reset /\ session_id = session /\ serial = query.serial /\ serial # None
      BY <1>1, <2>1, <3>1, RtrAssumption DEF Asks
    <3>q. QED BY <1>1, <2>1, <3>1, <3>2, SMTT(40) DEF Safe, TableSound, Resumable
  <2>2. CASE query.type # "SerialQuery"
    BY <1>1, <2>2, SMTT(40) DEF Asks, Safe, TableSound, Resumable
  <2>q. QED BY <2>1, <2>2, SMTT(40)
<1>3. from \subseteq Roas /\ to \subseteq Roas
  BY <1>0, ZenonT(40) DEF Answer, Queries, CacheTyped
<1>4. response \in Pdus
  <2>1. AnswerVersion \in Version /\ session \in Sessions
    BY <1>0 DEF AnswerVersion, Queries, Version, CacheTyped
  <2>q. QED BY <2>1, ResponseIsPdu
<1>5. force_reset \/ serial = None \/ session = session_id
  BY <1>1, <1>0, SMTT(40) DEF Asks, Answer
<1>6. Diff(from) = IF from = to THEN <<>> ELSE <<run>>
  BY ZenonT(40) DEF Diff
<1>7. run \in Pdus
  BY <1>3, SMTT(40), ZenonT(40) DEF Pdus
<1>8. /\ wire' = wire \o (<<response>> \o Diff(from))
      /\ query' = None /\ ending' = [session_id |-> session, serial |-> latest]
      /\ UNCHANGED <<client, session, latest, published, judged, reevaluating>>
  BY DEF Answer, Reply
<1>9. ending' # None
  BY <1>0, <1>8, RtrSyncAssumption, SMTT(40), ZenonT(40) DEF CacheTyped
<1>10. KnownAt(session, latest, session', latest')
  BY <1>0, <1>8 DEF KnownAt, CacheTyped
<1>11. sound' = sound /\ roas' = roas
  BY <1>8 DEF client
<1>12. response.type = "CacheResponse" /\ response.session_id = session
  BY SMTT(40)
<1>13. /\ run.type = "Prefixes" /\ run.announce = to \ from /\ run.withdraw = from \ to
       /\ run.announce \cap run.withdraw = {} /\ (from \cup run.announce) \ run.withdraw = to
  BY ZenonT(40)
<1> HIDE DEF from, to, run, response, sound, roas
<1>14. ASSUME NEW d, d = Diff(from) PROVE Body(d, session, sound, roas)'
  <2>1. ASSUME NEW r, sound => r = to PROVE Ends(<<>>, session, sound, r)'
    BY <1>0, <1>8, <1>9, <1>10, <1>11, <2>1, SMTT(40) DEF Ends, Closes, Known, CacheTyped, to
  <2>2. CASE from = to
    <3>1. Ends(<<>>, session, sound, roas)'
      BY <1>2, <1>11, <2>1, <2>2
    <3>2. d = <<>>
      BY <1>6, <1>14, <2>2, SMTT(40)
    <3>q. QED BY <3>1, <3>2 DEF Body
  <2>3. CASE from # to
    <3>1. ASSUME NEW r, sound => r = to, NEW e, e = <<>> PROVE Ends(e, session, sound, r)'
      BY <2>1, <3>1
    <3>2. d # <<>> /\ Head(d) = run /\ Tail(d) = <<>>
      BY <1>6, <1>14, <2>3
    <3>3. sound => (roas \cup Head(d).announce) \ Head(d).withdraw = to
      BY <1>2, <1>13, <3>2, SMTT(40)
    <3>4. Ends(Tail(d), session, sound, (roas \cup Head(d).announce) \ Head(d).withdraw)'
      BY <1>11, <3>1, <3>2, <3>3, Zenon
    <3>q. QED BY <1>13, <3>2, <3>4, Zenon DEF Body
  <2>q. QED BY <2>2, <2>3, SMTT(40)
<1>15. Diff(from) \in Seq(Pdus)
  BY <1>6, <1>7, EmptySeq
<1>16. /\ <<response>> \o Diff(from) \in Seq(Pdus) /\ <<response>> \o Diff(from) # <<>>
       /\ Head(<<response>> \o Diff(from)) = response /\ Tail(<<response>> \o Diff(from)) = Diff(from)
  BY <1>4, <1>15, PutInFront
<1>17. wire = <<>> => Answers(wire)'
  <2> SUFFICES ASSUME wire = <<>> PROVE Answers(wire)'
    BY SMTT(40)
  <2>1. wire \in Seq(Pdus)
    BY ZenonT(40) DEF Typed, TypeOK, ClientType
  <2>2. wire' = <<response>> \o Diff(from)
    BY <1>8, <1>16, <2>1, JoinWires
  <2>3. /\ Head(wire') = response /\ Head(wire').type = "CacheResponse"
        /\ Head(wire').session_id = session /\ Tail(wire') = Diff(from)
    BY <1>12, <1>16, <2>2, SMTT(40)
  <2>4. Body(Tail(wire), Head(wire).session_id, sound, roas)'
    BY <1>8, <1>14, <2>3, ZenonT(40)
  <2>5. (force_reset \/ serial = None \/ Head(wire).session_id = session_id)'
    BY <1>5, <1>8, <2>3 DEF client
  <2>q. QED BY <2>3, <2>4, <2>5, ZenonT(40) DEF Answers, sound, roas
<1>q. QED BY <1>1, <1>8, <1>16, <1>17, SafeReply, ZenonT(40)

\* The last PDU of an answer arrives.
LEMMA SafeEnding ==
  ASSUME Typed, Safe, ending # None, ending' = None,
         NEW e \in Pdus,
         \/ e.type = "CacheReset"
         \/ e.type = "EndOfData" /\ e.session_id = ending.session_id /\ e.serial = ending.serial,
         wire' = Append(wire, e),
         UNCHANGED <<client, query, session, latest, published, judged, reevaluating>>
  PROVE  Safe'
<1>0. wire \in Seq(Pdus)
  BY SMTT(40) DEF Typed, TypeOK, ClientType
<1>1. ASSUME NEW v \in Seq(Pdus), NEW s, NEW sound, NEW r, Ends(v, s, sound, r),
             NEW u, u = Append(v, e)
      PROVE  Ends(u, s, sound, r)'
  <2>1. v = <<>>
    BY <1>1, SMTT(40) DEF Ends
  <2>2. u # <<>> /\ Head(u) = e /\ Tail(u) = <<>>
    BY <1>1, <2>1, AppendToWire, Zenon
  <2>3. Noise(Tail(u))'
    BY <2>2, NoNoise, SMTT(40) DEF Noise
  <2>q. QED BY <1>1, <2>2, <2>3, ZenonT(40) DEF Ends, Closes, Known
<1>2. ASSUME NEW v \in Seq(Pdus), NEW s, NEW sound, NEW r, Body(v, s, sound, r),
             NEW u, u = Append(v, e)
      PROVE  Body(u, s, sound, r)'
  <2>1. CASE Ends(v, s, sound, r)
    BY <1>1, <1>2, <2>1, Zenon DEF Body
  <2>2. CASE /\ v # <<>> /\ Head(v).type = "Prefixes"
             /\ Head(v).announce \cap Head(v).withdraw = {}
             /\ Ends(Tail(v), s, sound, (r \cup Head(v).announce) \ Head(v).withdraw)
    <3>1. u # <<>> /\ Head(u) = Head(v) /\ Tail(u) = Append(Tail(v), e) /\ Tail(v) \in Seq(Pdus)
      BY <1>2, <2>2, AppendToWire, HeadAndTail, ZenonT(40)
    <3>2. Ends(Tail(u), s, sound, (r \cup Head(u).announce) \ Head(u).withdraw)'
      BY <1>1, <2>2, <3>1, ZenonT(40)
    <3>q. QED BY <2>2, <3>1, <3>2, SMTT(40) DEF Body
  <2>q. QED BY <1>2, <2>1, <2>2, Zenon DEF Body
<1>3. ASSUME phase = "Diff" PROVE Talk'
  <2> DEFINE sound == ~torn
             roas == Contents(table)
  <2>1. query = None /\ Body(wire, session_id, sound, roas)
    BY <1>3, ZenonT(40) DEF Safe, Talk, TalkOf
  <2>2. sound' = sound /\ roas' = roas /\ session_id' = session_id /\ phase' = "Diff" /\ query' = None
    BY <1>3, <2>1, ZenonT(40) DEF client
  <2> HIDE DEF sound, roas
  <2>3. Body(wire, session_id, sound, roas)'
    BY <1>0, <1>2, <2>1, <2>2, ZenonT(40)
  <2>q. QED BY <2>2, <2>3, ZenonT(40) DEF Talk, TalkOf, sound, roas
<1>4. ASSUME phase # "Diff" PROVE Talk'
  <2>1. phase = "Reply" /\ query = None /\ wire # <<>> /\ (Noisy(Head(wire)) \/ Answers(wire))
    BY <1>4, ZenonT(40) DEF Safe, Talk, TalkOf, Typed, TypeOK, ClientType, Phase
  <2>2. wire' # <<>> /\ Head(wire') = Head(wire) /\ Tail(wire') = Append(Tail(wire), e)
        /\ Tail(wire) \in Seq(Pdus)
    BY <1>0, <2>1, AppendToWire, HeadAndTail, SMTT(40)
  <2>3. ASSUME Answers(wire) PROVE Answers(wire)'
    <3> DEFINE sound == force_reset \/ ~torn
               roas == IF force_reset THEN {} ELSE Contents(table)
    <3>1. sound' = sound /\ roas' = roas
      BY ZenonT(40) DEF client
    <3>2. /\ Head(wire).type = "CacheResponse"
          /\ force_reset \/ serial = None \/ Head(wire).session_id = session_id
          /\ Body(Tail(wire), Head(wire).session_id, sound, roas)
      BY <2>3, ZenonT(40) DEF Answers
    <3> HIDE DEF sound, roas
    <3>3. Body(Tail(wire), Head(wire).session_id, sound, roas)'
      BY <1>2, <2>2, <3>1, <3>2, ZenonT(40)
    <3>q. QED BY <2>2, <3>2, <3>3, ZenonT(40) DEF Answers, sound, roas, client
  <2>4. Noisy(Head(wire)) => Noisy(Head(wire))'
    BY <2>2, SMTT(40) DEF Noisy
  <2>5. phase' = "Reply" /\ query' = None
    BY <2>1, SMTT(40) DEF client
  <2>q. QED BY <2>1, <2>2, <2>3, <2>4, <2>5, ZenonT(40) DEF Talk, TalkOf
<1>5. Talk'
  BY <1>3, <1>4, SMTT(40)
<1>6. Grows
  BY StillGrows DEF Typed, TypeOK, CacheTyped
<1>q. QED BY <1>5, <1>6, SafeOtherwise

\* The daemon.
LEMMA SafeDaemon ==
  ASSUME Typed, Typed', Safe, TakeChange \/ Reevaluate \/ JudgeRoute
  PROVE  Safe'
<1>1. /\ UNCHANGED <<wire, query, cache, phase, force_reset, session_id, table, serial, connected, torn>>
      /\ UNCHANGED <<session, latest, published, ending>>
  BY SMTT(40) DEF TakeChange, Reevaluate, JudgeRoute, client, cache
<1>2. JudgedByTable'
  BY SMTT(40) DEF TakeChange, Reevaluate, JudgeRoute, client, Safe, JudgedByTable
<1>3. Resumes' /\ TableSound' /\ StatusHonest'
  BY <1>1, ZenonT(40) DEF Safe, Resumes, Known, TableSound, Resumable, StatusHonest
<1>4. Talk'
  BY <1>1, ZenonT(40) DEF Safe, Talk, TalkOf, Asks, Answers, Body, Ends, Closes, Known, Noise, Noisy
<1>q. QED BY <1>2, <1>3, <1>4, SMTT(40), ZenonT(40) DEF Safe

LEMMA SafeStep == ASSUME Typed, Typed', Safe, [Next]_vars PROVE Safe'
<1>1. CASE Client \/ Disconnect
  BY <1>1, SafeClient, SMTT(40)
<1>2. CASE RejectVersion
  <2>1. [type |-> "ErrorReport", code |-> 4] \in Pdus
    BY ZenonT(40) DEF Pdus
  <2>q. QED BY <1>2, <2>1, SafeShortReply, SMTT(40) DEF RejectVersion
<1>3. CASE ReportNoData
  <2>1. [type |-> "ErrorReport", code |-> 2] \in Pdus
    BY SMTT(40) DEF Pdus
  <2>q. QED BY <1>3, <2>1, SafeShortReply, SMTT(40) DEF ReportNoData
<1>4. CASE ResetClient
  <2>1. [type |-> "CacheReset"] \in Pdus
    BY SMTT(40) DEF Pdus
  <2>q. QED BY <1>4, <2>1, SafeShortReply, SMTT(40), ZenonT(40) DEF ResetClient
<1>5. CASE Finish
  <2>1. [type |-> "EndOfData", session_id |-> ending.session_id, serial |-> ending.serial] \in Pdus
    BY <1>5, ZenonT(40) DEF Finish, Typed, TypeOK, Pdus
  <2>q. QED BY <1>5, <2>1, SafeEnding, ZenonT(40) DEF Finish
<1>6. CASE GiveUp
  <2>1. [type |-> "CacheReset"] \in Pdus
    BY DEF Pdus
  <2>q. QED BY <1>6, <2>1, SafeEnding, ZenonT(40) DEF GiveUp
<1>7. CASE UNCHANGED vars
  <2>1. Talk'
    BY <1>7, ZenonT(40) DEF Safe, Talk, TalkOf, Asks, Answers, Body, Ends, Closes, Known, Noise, Noisy, vars, client, cache
  <2>2. Grows
    BY <1>7, StillGrows, Zenon DEF Typed, TypeOK, CacheTyped, vars, cache
  <2>q. QED BY <1>7, <2>1, <2>2, SafeOtherwise, SMTT(40) DEF vars
<1>q. QED BY <1>1, <1>2, <1>3, <1>4, <1>5, <1>6, <1>7,
             SafePublish, SafeRestart, SafeLoaded, SafeAnswer, SafeDaemon DEF Next, CacheStep

-----------------------------------------------------------------------------
(* Serials.                                                                *)

\* An End of Data e does not take a client at serial n of session s back.
Later(e, s, n) == e.session_id = s => n <= e.serial
Coming(w, s, n) == \A i \in 1 .. Len(w) : w[i].type = "EndOfData" => Later(w[i], s, n)

\* No End of Data under way takes the client back, unless the table is
\* cleared before it is read.
Ahead ==
  /\ phase \in {"Down", "Diff", "Idle"} => ~force_reset
  /\ serial # None /\ ~force_reset =>
       /\ Coming(wire, session_id, serial)
       /\ ending # None => Later(ending, session_id, serial)

Forward == serial # None /\ serial' # None => session_id' = session_id /\ serial <= serial'

LEMMA NoiseIsComing ==
  ASSUME NEW w, NEW s, NEW n, Noise(w)
  PROVE  Coming(w, s, n)
BY DEF Noise, Noisy, Coming

LEMMA ComingJoins ==
  ASSUME NEW w \in Seq(Pdus), NEW v \in Seq(Pdus), NEW s, NEW n, Coming(w, s, n), Coming(v, s, n)
  PROVE  Coming(w \o v, s, n)
<1> DEFINE u == w \o v
<1>1. /\ Len(u) = Len(w) + Len(v) /\ Len(w) \in Nat /\ Len(v) \in Nat
      /\ \A i \in 1 .. Len(u) : u[i] = IF i <= Len(w) THEN w[i] ELSE v[i - Len(w)]
  BY ConcatProperties, LenProperties
<1> HIDE DEF u
<1>2. ASSUME NEW i \in 1 .. Len(u), u[i].type = "EndOfData" PROVE Later(u[i], s, n)
  <2>1. CASE i <= Len(w)
    BY <1>1, <1>2, <2>1 DEF Coming
  <2>2. CASE ~(i <= Len(w))
    <3>1. i - Len(w) \in 1 .. Len(v) /\ u[i] = v[i - Len(w)]
      BY <1>1, <2>2
    <3>q. QED BY <1>2, <3>1 DEF Coming
  <2>q. QED BY <2>1, <2>2
<1>q. QED BY <1>2 DEF Coming, u

LEMMA ComingOne ==
  ASSUME NEW e, NEW s, NEW n, e.type = "EndOfData" => Later(e, s, n)
  PROVE  Coming(<<e>>, s, n)
BY DEF Coming

LEMMA ComingTail ==
  ASSUME NEW w \in Seq(Pdus), w # <<>>, NEW s, NEW n, Coming(w, s, n)
  PROVE  Coming(Tail(w), s, n) /\ (Head(w).type = "EndOfData" => Later(Head(w), s, n))
BY HeadAndTail DEF Coming

LEMMA ComingAppend ==
  ASSUME NEW w \in Seq(Pdus), NEW e \in Pdus, NEW s, NEW n, Coming(w, s, n),
         e.type = "EndOfData" => Later(e, s, n)
  PROVE  Coming(Append(w, e), s, n)
<1>1. <<e>> \in Seq(Pdus) /\ Append(w, e) = w \o <<e>>
  BY AppendIsConcat
<1>q. QED BY <1>1, ComingOne, ComingJoins, Zenon

\* Between two answers there is nothing under way.
LEMMA AheadQuiet ==
  ASSUME Talk', phase' \in {"Down", "Query", "Idle"}, phase' # "Query" => ~force_reset'
  PROVE  Ahead'
<1>1. Noise(wire') /\ ending' = None
  BY DEF Talk, TalkOf, Noise
<1>2. Coming(wire', session_id', serial')
  BY <1>1, NoiseIsComing
<1>q. QED BY <1>1, <1>2 DEF Ahead, Coming

\* The client reads on, or starts over.
LEMMA AheadClient ==
  ASSUME IInv, IInv', Ahead, Client \/ Disconnect
  PROVE  Ahead' /\ Forward
<1>0. /\ ending' = IF phase' = "Down" THEN None ELSE ending
      /\ ClientStep \/ LoseConnection
  BY DEF Client, Disconnect, LoseConnection, HangUp
<1>w. /\ wire \in Seq(Pdus)
      /\ wire # <<>> => Received \in Pdus /\ Tail(wire) \in Seq(Pdus) /\ Received = Head(wire)
  <2>1. wire \in Seq(Pdus)
    BY ZenonT(40) DEF IInv, Typed, TypeOK, ClientType
  <2>q. QED BY <2>1, HeadAndTail, ZenonT(40) DEF Received
<1>n. serial # None => serial \in Nat
  BY RtrSyncAssumption DEF IInv, Typed, TypeOK, ClientType
<1>1. CASE \/ Connect \/ FallBack \/ RetryAfterNoData \/ ReadCacheReset \/ ReadOtherSession
           \/ Refresh \/ ReadSerialNotify \/ ReadUnexpected \/ LoseConnection
  <2>1. /\ phase' \in {"Down", "Query"} /\ (phase' # "Query" => ~force_reset')
        /\ UNCHANGED session_id /\ (serial' = serial \/ serial' = None)
    BY <1>1, ZenonT(40) DEF Connect, FallBack, RetryAfterNoData, ReadCacheReset, ReadOtherSession, Refresh,
                ReadSerialNotify, ReadUnexpected, LoseConnection, HangUp, StartSync, FreshLocals,
                Clear, KeepTable, AbandonTable
  <2>2. Ahead'
    BY <2>1, AheadQuiet DEF IInv
  <2>q. QED BY <1>n, <2>1, <2>2 DEF Forward
<1>2. CASE SendQuery
  <2>1. /\ phase = "Query" /\ phase' = "Reply"
        /\ UNCHANGED <<wire, ending, force_reset, session_id, serial>>
    BY <1>0, <1>2, ZenonT(40) DEF SendQuery, KeepTable
  <2>2. Ahead'
    BY <2>1, ZenonT(40) DEF Ahead, Coming, Later
  <2>q. QED BY <1>n, <2>1, <2>2 DEF Forward
<1>3. CASE ReadCacheResponse
  <2>1. Received.type = "CacheResponse" /\ wire # <<>> /\ phase = "Reply"
    BY <1>3 DEF ReadCacheResponse, Reads
  <2>2. force_reset \/ serial = None \/ Received.session_id = session_id
    BY <1>w, <2>1, InReply DEF Noisy, IInv, Answers
  <2>3. /\ ~force_reset' /\ wire' = Tail(wire) /\ session_id' = Received.session_id
        /\ ending' = ending
        /\ force_reset => serial' = None
        /\ ~force_reset => serial' = serial
    BY <1>0, <1>3, ZenonT(40) DEF ReadCacheResponse, Consume, Clear, KeepTable, FreshLocals
  <2>4. CASE serial' = None
    BY <2>3, <2>4, Zenon DEF Ahead, Forward
  <2>5. CASE serial' # None
    <3>1. ~force_reset /\ serial' = serial /\ session_id' = session_id
      BY <2>2, <2>3, <2>5
    <3>2. Coming(wire, session_id, serial) /\ (ending # None => Later(ending, session_id, serial))
      BY <2>5, <3>1 DEF Ahead
    <3>3. Coming(wire', session_id', serial')
      BY <1>w, <2>1, <2>3, <3>1, <3>2, ComingTail
    <3>4. Ahead'
      BY <2>3, <3>1, <3>2, <3>3 DEF Ahead, Coming, Later
    <3>q. QED BY <1>n, <2>5, <3>1, <3>4 DEF Forward
  <2>q. QED BY <2>4, <2>5
<1>4. CASE ReadEndOfData
  <2>1. /\ Received.type = "EndOfData" /\ wire # <<>> /\ phase = "Diff"
        /\ Received.session_id = session_id
        /\ phase' = "Idle" /\ serial' = Received.serial /\ UNCHANGED <<session_id, force_reset>>
    BY <1>4 DEF ReadEndOfData, Reads
  <2>2. ~force_reset /\ (serial # None => Coming(wire, session_id, serial))
    BY <2>1 DEF Ahead
  <2>3. serial # None => Later(Received, session_id, serial)
    BY <1>w, <2>1, <2>2, ComingTail
  <2>4. Ahead'
    BY <2>1, <2>2, AheadQuiet DEF IInv
  <2>q. QED BY <2>1, <2>3, <2>4 DEF Forward, Later
<1>5. CASE ReadPrefix
  <2>1. /\ Received.type = "Prefixes" /\ wire # <<>> /\ phase = "Diff"
        /\ UNCHANGED <<phase, force_reset, session_id, serial, ending>>
    BY <1>0, <1>5, SMTT(40) DEF ReadPrefix, Reads
  <2>2. PICK roa \in Received.announce \cup Received.withdraw :
          LET rest == [Received EXCEPT !.announce = @ \ {roa}, !.withdraw = @ \ {roa}]
              done == rest.announce \cup rest.withdraw = {}
          IN wire' = (IF done THEN <<>> ELSE <<rest>>) \o Tail(wire)
    BY <1>5, ZenonT(40) DEF ReadPrefix
  <2> DEFINE rest == [Received EXCEPT !.announce = @ \ {roa}, !.withdraw = @ \ {roa}]
             first == IF rest.announce \cup rest.withdraw = {} THEN <<>> ELSE <<rest>>
  <2>3. rest \in Pdus /\ rest.type = "Prefixes"
    <3>1. Received \in Runs
      BY <1>w, <2>1, PduFields
    <3>q. QED BY <3>1, RestOfPrefixes, Zenon
  <2>4. wire' = first \o Tail(wire)
    BY <2>2, ZenonT(40)
  <2> HIDE DEF rest
  <2>5. ASSUME Coming(wire, session_id, serial) PROVE Coming(wire', session_id, serial)
    <3>1. Coming(Tail(wire), session_id, serial)
      BY <1>w, <2>1, <2>5, ComingTail
    <3>2. first \in Seq(Pdus)
      BY <2>3, EmptySeq
    <3>3. Coming(<<rest>>, session_id, serial) /\ Coming(<<>>, session_id, serial)
      BY <2>3, ComingOne, NoNoise, NoiseIsComing
    <3>4. Coming(first, session_id, serial)
      BY <3>3, ZenonT(40)
    <3>q. QED BY <1>w, <2>1, <2>4, <3>1, <3>2, <3>4, ComingJoins, Zenon
  <2>6. Ahead'
    BY <2>1, <2>5 DEF Ahead, Coming, Later
  <2>q. QED BY <1>n, <2>1, <2>6 DEF Forward
<1>q. QED BY <1>0, <1>1, <1>2, <1>3, <1>4, <1>5 DEF ClientStep

\* Nobody else touches the client; what they put on the wire comes after.
LEMMA AheadOtherwise ==
  ASSUME Ahead, UNCHANGED client,
         ASSUME serial # None, Coming(wire, session_id, serial)
         PROVE  Coming(wire', session_id, serial),
         ASSUME serial # None, ~force_reset, ending' # None, ending' # ending
         PROVE  Later(ending', session_id, serial)
  PROVE  Ahead'
<1>1. UNCHANGED <<phase, force_reset, session_id, serial>>
  BY DEF client
<1>2. ASSUME serial # None, ~force_reset
      PROVE  /\ Coming(wire', session_id, serial)
             /\ ending' # None => Later(ending', session_id, serial)
  BY <1>2, Zenon DEF Ahead
<1>q. QED BY <1>1, <1>2 DEF Ahead, Coming, Later

\* The cache answers, publishes or restarts: its serial is not behind that of
\* a client of its session, and a client of the session that ended has none
\* of the one that begins.
LEMMA AheadCache ==
  ASSUME IInv, IInv', Ahead, Publish \/ Restart \/ Loaded \/ CacheStep \/ GiveUp
  PROVE  Ahead'
<1>w. /\ wire \in Seq(Pdus) /\ wire' \in Seq(Pdus) /\ session \in Nat /\ latest \in Nat
      /\ ending # None => ending \in [session_id : Sessions, serial : Serials]
  BY RtrSyncAssumption, Zenon DEF IInv, Typed, TypeOK, ClientType
<1>n. serial # None => /\ Known(session_id, serial) /\ serial \in Nat /\ session_id \in Nat
  BY RtrSyncAssumption, ZenonT(40) DEF IInv, Resumes, Known, KnownAt
<1>1. CASE Publish
  <2>1. UNCHANGED client /\ UNCHANGED ending
    BY <1>1 DEF Publish
  <2>2. wire' = wire \/ wire' = Append(wire, [type |-> "SerialNotify"])
    BY <1>1 DEF Publish
  <2>3. [type |-> "SerialNotify"] \in Pdus
    BY DEF Pdus
  <2>4. ASSUME Coming(wire, session_id, serial) PROVE Coming(wire', session_id, serial)
    BY <1>w, <2>2, <2>3, <2>4, ComingAppend, ZenonT(40)
  <2>q. QED BY <2>1, <2>4, AheadOtherwise, ZenonT(40)
<1>2. CASE Restart
  <2>1. UNCHANGED client /\ UNCHANGED wire
    BY <1>2 DEF Restart
  <2>2. ending' = None \/ ending' = [session_id |-> session + 1, serial |-> 0]
    BY <1>2 DEF Restart
  <2>3. ASSUME serial # None, ending' # None PROVE Later(ending', session_id, serial)
    BY <1>w, <1>n, <2>2, <2>3 DEF Later, Known, KnownAt
  <2>q. QED BY <2>1, <2>3, AheadOtherwise, ZenonT(40)
<1>3. CASE Loaded
  BY <1>3, AheadOtherwise, ZenonT(40) DEF Loaded
<1>4. CASE RejectVersion \/ ReportNoData \/ ResetClient
  <2>1. UNCHANGED client /\ UNCHANGED ending
    BY <1>4 DEF RejectVersion, ReportNoData, ResetClient, Reply
  <2>2. PICK e \in Pdus : e.type # "EndOfData" /\ wire' = wire \o <<e>>
    <3>1. \A c \in {2, 4} : [type |-> "ErrorReport", code |-> c] \in Pdus
      BY DEF Pdus
    <3>2. [type |-> "CacheReset"] \in Pdus
      BY DEF Pdus
    <3>q. QED BY <1>4, <3>1, <3>2, ZenonT(40) DEF RejectVersion, ReportNoData, ResetClient, Reply
  <2>3. ASSUME Coming(wire, session_id, serial) PROVE Coming(wire', session_id, serial)
    <3>1. <<e>> \in Seq(Pdus) /\ Coming(<<e>>, session_id, serial)
      BY <2>2, ComingOne
    <3>q. QED BY <1>w, <2>2, <2>3, <3>1, ComingJoins, ZenonT(40)
  <2>q. QED BY <2>1, <2>3, AheadOtherwise, ZenonT(40)
<1>5. CASE Answer
  <2> DEFINE from == IF query.type = "SerialQuery" THEN published[session][query.serial] ELSE {}
             to == published[session][latest]
             run == [type |-> "Prefixes", announce |-> to \ from, withdraw |-> from \ to]
             response == [type |-> "CacheResponse", version |-> AnswerVersion, session_id |-> session]
  <2>0. query \in Queries /\ CacheTyped
    BY <1>5, Zenon DEF Answer, IInv, Typed, TypeOK, ClientType, CacheTyped
  <2>1. query # None /\ Asks
    BY <1>5, Awaited, SMTT(40) DEF Answer, IInv
  <2>2. /\ wire' = wire \o (<<response>> \o Diff(from))
        /\ ending' = [session_id |-> session, serial |-> latest] /\ UNCHANGED client
    BY <1>5 DEF Answer, Reply
  <2>3. ASSUME serial # None, ~force_reset PROVE Later(ending', session_id, serial)
    BY <1>w, <1>n, <2>1, <2>2, <2>3 DEF Later, Known, KnownAt, Asks
  <2>4. Diff(from) = <<>> \/ Diff(from) = <<run>>
    BY ZenonT(40) DEF Diff
  <2>5. response \in Pdus /\ response.type = "CacheResponse"
    <3>1. AnswerVersion \in Version /\ session \in Sessions
      BY <2>0 DEF AnswerVersion, Queries, Version, CacheTyped
    <3>q. QED BY <3>1, ResponseIsPdu
  <2>6. run \in Pdus /\ run.type = "Prefixes"
    <3>1. from \subseteq Roas /\ to \subseteq Roas
      BY <2>0, ZenonT(40) DEF Answer, Queries, CacheTyped
    <3>2. to \ from \in SUBSET Roas /\ from \ to \in SUBSET Roas
      BY <3>1, Zenon
    <3>q. QED BY <3>2, RunIsPdu, Zenon
  <2> HIDE DEF from, run, response
  <2>7. ASSUME Coming(wire, session_id, serial) PROVE Coming(wire', session_id, serial)
    <3>1. <<response>> \in Seq(Pdus) /\ Coming(<<response>>, session_id, serial)
      BY <2>5, ComingOne
    <3>2. Diff(from) \in Seq(Pdus) /\ Coming(Diff(from), session_id, serial)
      <4>1. <<run>> \in Seq(Pdus) /\ <<>> \in Seq(Pdus)
        BY <2>6, EmptySeq
      <4>2. Coming(<<run>>, session_id, serial) /\ Coming(<<>>, session_id, serial)
        BY <2>6, ComingOne, NoNoise, NoiseIsComing
      <4>q. QED BY <2>4, <4>1, <4>2, Zenon
    <3>3. Coming(<<response>> \o Diff(from), session_id, serial)
      BY <3>1, <3>2, ComingJoins, Zenon
    <3>4. <<response>> \o Diff(from) \in Seq(Pdus)
      BY <3>2, <2>5, PutInFront
    <3>q. QED BY <1>w, <2>2, <2>7, <3>3, <3>4, ComingJoins, Zenon
  <2>q. QED BY <2>2, <2>3, <2>7, AheadOtherwise, ZenonT(40)
<1>6. CASE Finish \/ GiveUp
  <2>1. UNCHANGED client /\ ending # None /\ ending' = None
    BY <1>6 DEF Finish, GiveUp
  <2> DEFINE last == [type |-> "EndOfData", session_id |-> ending.session_id, serial |-> ending.serial]
             reset == [type |-> "CacheReset"]
  <2>2. (Finish /\ wire' = Append(wire, last)) \/ wire' = Append(wire, reset)
    BY <1>6 DEF Finish, GiveUp
  <2>3. last \in Pdus /\ reset \in Pdus /\ reset.type = "CacheReset"
    BY <1>w, <2>1, ZenonT(40) DEF Pdus
  <2>4. last.session_id = ending.session_id /\ last.serial = ending.serial
    OBVIOUS
  <2> HIDE DEF last, reset
  <2>5. ASSUME serial # None, ~force_reset PROVE Coming(wire', session_id, serial)
    <3>1. Coming(wire, session_id, serial) /\ Later(ending, session_id, serial)
      BY <2>1, <2>5 DEF Ahead
    <3>2. Later(last, session_id, serial)
      BY <2>4, <3>1 DEF Later
    <3>q. QED BY <1>w, <2>2, <2>3, <3>1, <3>2, ComingAppend, ZenonT(40)
  <2>q. QED BY <2>1, <2>5 DEF Ahead, Coming, Later, client
<1>q. QED BY <1>1, <1>2, <1>3, <1>4, <1>5, <1>6, AheadOtherwise, ZenonT(40) DEF CacheStep

LEMMA AheadStep ==
  ASSUME IInv, IInv', Ahead, [Next]_vars
  PROVE  Ahead' /\ Forward
<1>n. serial # None => serial \in Nat
  BY RtrSyncAssumption DEF IInv, Typed, TypeOK, ClientType
<1>1. CASE Client \/ Disconnect
  BY <1>1, AheadClient
<1>2. CASE Publish \/ Restart \/ Loaded \/ CacheStep \/ GiveUp
  <2>1. UNCHANGED <<session_id, serial>>
    BY <1>2, ZenonT(40) DEF Publish, Restart, Loaded, CacheStep, RejectVersion, ReportNoData, Answer, Finish,
                ResetClient, Reply, GiveUp, client
  <2>q. QED BY <1>2, <1>n, <2>1, AheadCache DEF Forward
<1>3. CASE TakeChange \/ Reevaluate \/ JudgeRoute \/ UNCHANGED vars
  <2>1. UNCHANGED <<phase, force_reset, session_id, serial, wire, ending>>
    BY <1>3 DEF TakeChange, Reevaluate, JudgeRoute, vars, client, cache
  <2>2. Ahead'
    BY <2>1, ZenonT(40) DEF Ahead, Coming, Later
  <2>q. QED BY <1>n, <2>1, <2>2 DEF Forward
<1>q. QED BY <1>1, <1>2, <1>3 DEF Next

-----------------------------------------------------------------------------
(* The theorems.                                                           *)

\* In every state one conversation is going on: the query on its way asks
\* for what follows the client's table, the answer on its way turns that
\* table into what its End of Data announces, and the serial the client
\* keeps is one the cache has published (run_session, sync, wait_next).
THEOREM Invariance == Spec => []IInv
<1>1. Init => IInv
  BY TypedInit, SafeInit DEF IInv, Safe
<1>2. IInv /\ [Next]_vars => IInv'
  BY TypedStep, SafeStep DEF IInv, Safe
<1>q. QED BY <1>1, <1>2, PTL DEF Spec

\* The state of the client, of the cache and of the daemon stays within its
\* types, and the table within the ROAs of the cache (client.rs, table.rs).
THEOREM TypeCorrect == Spec => []TypeOK
<1>1. IInv => TypeOK
  BY DEF IInv, Typed
<1>q. QED BY <1>1, Invariance, PTL

\* Whatever the number of restarts of the cache, of faults and of
\* publications, the serial and the session the client resumes from name the
\* data in its table, unless an answer broke off since the table was last
\* cleared (sync, apply_diff_stream).
THEOREM TableAlwaysSound == Spec => []TableSound
<1>1. IInv => TableSound
  BY DEF IInv
<1>q. QED BY <1>1, Invariance, PTL

\* The status task's flag says connected only while there is a connection,
\* and the client waits for the refresh timer only with a serial and a
\* session to resume from (run_session, wait_next).
THEOREM StatusAlwaysHonest == Spec => []StatusHonest
<1>1. IInv => StatusHonest
  BY DEF IInv
<1>q. QED BY <1>1, Invariance, PTL

\* No change of the table is missed by the task that has the routes judged
\* again: once it has nothing to do and the client rests between two syncs,
\* the routes were judged by the table as it is (notify_change, install_rpki).
THEOREM AlwaysJudged == Spec => []JudgedByTable
<1>1. IInv => JudgedByTable
  BY DEF IInv
<1>q. QED BY <1>1, Invariance, PTL

\* The search of validate, its shortcut for prefixes without an ancestor in
\* the table and its treatment of AS 0 agree with RFC 6811 on every table
\* that a run of the client can produce, for any set of ROAs and of routes
\* (RoaTable::validate, insert, remove, clear).
THEOREM OriginsValidated == Spec => []OriginValidated
<1>1. IInv => OriginValidated
  BY TableValidates DEF IInv, Typed
<1>q. QED BY <1>1, Invariance, PTL

\* Whatever the number of restarts, of faults and of publications, the client
\* stays in its session and takes up no serial older than the one it has,
\* until it clears the table together with the serial (sync_once,
\* apply_diff_stream, RoaTable::clear).
THEOREM SerialsAlwaysAdvance == Spec => SerialsAdvance
<1>1. Init => Ahead
  BY DEF Init, ClientInit, Ahead
<1>2. IInv /\ IInv' /\ Ahead /\ [Next]_vars => Ahead' /\ [Forward]_vars
  BY AheadStep
<1>3. [Forward]_vars => [serial # None /\ serial' # None
                           => session_id' = session_id /\ serial <= serial']_vars
  BY DEF Forward
<1>q. QED BY <1>1, <1>2, <1>3, Invariance, PTL DEF Spec, SerialsAdvance
=============================================================================
