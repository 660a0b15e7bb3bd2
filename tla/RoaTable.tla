------------------------------ MODULE RoaTable ------------------------------
(***************************************************************************)
(* The ROA table of one address family and RFC 6811 origin validation      *)
(* (pathvector-rpki table.rs, pathvector-policy rpki.rs).                  *)
(*                                                                         *)
(* A prefix is a sequence of bits.  The table is a function from the       *)
(* prefixes that have ROAs to their entries [max_len, asn]; the routemap   *)
(* library it is built on offers exact lookup (application), insertion,    *)
(* removal and the longest match of an address.  The two families differ   *)
(* only in Width.                                                          *)
(***************************************************************************)
EXTENDS AsPath

CONSTANTS Width,      \* bits of an address
          LocalAs     \* our AS number

ASSUME RoaAssumption == Width \in Nat

Bits == {0, 1}
IsPrefixOf(p, q) == Len(p) <= Len(q) /\ \A i \in 1..Len(p) : p[i] = q[i]

EmptyTable == [p \in {} |-> {}]

Entries(t, p) == IF p \in DOMAIN t THEN t[p] ELSE {}
With(t, p, es) == [q \in DOMAIN t \cup {p} |-> IF q = p THEN es ELSE t[q]]
Without(t, p) == [q \in DOMAIN t \ {p} |-> t[q]]

\* FamilyTable::insert: an entry that is there already is not added again.
Insert(t, p, e) == With(t, p, Entries(t, p) \cup {e})

\* A slip: the last entry leaves its node behind.
RemoveKeepsNode(t, p, e) ==
  IF p \in DOMAIN t THEN With(t, p, t[p] \ {e}) ELSE t

\* FamilyTable::remove: a prefix without entries leaves the table.
Remove(t, p, e) ==
  IF p \notin DOMAIN t THEN t
  ELSE IF t[p] \ {e} = {} THEN Without(t, p) ELSE With(t, p, t[p] \ {e})

\* apply_prefix_pdu: one Prefix PDU.
ApplyPrefix(t, roa, announce) ==
  LET e == [max_len |-> roa.max_len, asn |-> roa.asn]
  IN  IF announce THEN Insert(t, roa.prefix, e) ELSE Remove(t, roa.prefix, e)

\* The address a prefix starts with.
Base(p) == [i \in 1..Width |-> IF i <= Len(p) THEN p[i] ELSE 0]

\* longest_match_entry finds something.
HasMatch(t, addr) == \E p \in DOMAIN t : IsPrefixOf(p, addr)

\* FamilyTable::validate: nothing at all around the base address settles it;
\* otherwise the exact prefixes of every length from the announced one down.
Validate(t, p, asn) ==
  LET ancestors == {SubSeq(p, 1, len) : len \in 0..Len(p)} \cap DOMAIN t
      matched   == \E a \in ancestors : \E e \in t[a] :
                     e.asn # 0 /\ e.asn = asn /\ Len(p) <= e.max_len
  IN  IF ~HasMatch(t, Base(p)) THEN "NotFound"
      ELSE IF matched THEN "Valid"
      ELSE IF ancestors # {} THEN "Invalid" ELSE "NotFound"

\* RoaValidityCondition: a path without a single origin is looked up as AS 0.
OriginAsn(path) ==
  LET asn == OriginAs(path, LocalAs) IN IF asn = None THEN 0 ELSE asn

Validity(t, route) == Validate(t, route.prefix, OriginAsn(route.path))

-----------------------------------------------------------------------------
(* RFC 6811 section 2, over the set of validated ROA payloads. *)

\* The ROAs in a table.
Contents(t) ==
  UNION {{[prefix |-> p, max_len |-> e.max_len, asn |-> e.asn] : e \in t[p]} : p \in DOMAIN t}

\* A route without a single origin (None) matches no ROA, nor does one of AS 0.
Rfc6811(roas, p, origin) ==
  LET covering == {r \in roas : IsPrefixOf(r.prefix, p)}
      matching == {r \in covering : Len(p) <= r.max_len /\ r.asn = origin /\ r.asn # 0}
  IN  IF covering = {} THEN "NotFound" ELSE IF matching = {} THEN "Invalid" ELSE "Valid"
=============================================================================
