--------------------------- MODULE OutboundProofs ---------------------------
(***************************************************************************)
(* Proofs about Outbound: every Adj-RIB-Out follows the best routes, and   *)
(* holds nothing its peer may not have, for any peers, roles, communities, *)
(* reflection clients and bounds.                                          *)
(*                                                                         *)
(* What a batch puts into the channel is of no account here: a message     *)
(* never changes an Adj-RIB-Out. The records out[p] are therefore only     *)
(* known by their fields, and each operation on them by what it leaves in  *)
(* adj and owed (Tells).                                                   *)
(***************************************************************************)
EXTENDS Outbound, TLAPS

-----------------------------------------------------------------------------
(* Routes and entries.                                                     *)

RouteFields == {"src", "path", "nh", "pref", "med", "otc", "comms", "rr", "rest", "tag"}

\* What NoLeak says of one entry.
Proper(p, e) ==
  e # None =>
    /\ e.src # p
    /\ ~SplitHorizon(p, e.src)
    /\ ~Suppressed(p, e.comms)
    /\ ~(e.src \in Peers /\ Role[e.src] \in Upward /\ Role[p] \in Upward)

\* A route of the Loc-RIB: one of a provider, lateral peer or route server
\* carries ONLY_TO_CUSTOMER.
LocRoute(r) ==
  /\ DOMAIN r = RouteFields
  /\ r.src \in Peers /\ Role[r.src] \in Upward => r.otc # None

LEMMA SetOtcFields ==
  ASSUME NEW r, DOMAIN r = RouteFields, NEW asn
  PROVE  /\ DOMAIN SetOtc(r, asn) = RouteFields
         /\ SetOtc(r, asn).src = r.src
         /\ SetOtc(r, asn).comms = r.comms
         /\ SetOtc(r, asn).otc = IF r.otc = None THEN asn ELSE r.otc
BY DEF SetOtc, RouteFields

LEMMA WithSrcFields ==
  ASSUME NEW a, NEW s
  PROVE  DOMAIN WithSrc(a, s) = RouteFields /\ WithSrc(a, s).src = s
BY DEF WithSrc, RouteFields

\* Import and origination give such routes.
LEMMA RoutesAreLocRoutes ==
  ASSUME NEW n \in Nlris, NEW r \in RoutesOf(Peers, n)
  PROVE  LocRoute(r)
<1>1. CASE r \in Originated[n]
  <2>1. PICK a \in Announcements[Local][n] : r = WithSrc(a, Local)
    BY <1>1 DEF Originated
  <2>2. r.src \notin Peers /\ DOMAIN r = RouteFields
    BY <2>1, WithSrcFields, PolicyAssumption
  <2>q. QED BY <2>2 DEF LocRoute
<1>2. ASSUME NEW p \in Peers, r \in Learned[p][n] PROVE LocRoute(r)
  <2>1. PICK a \in Announcements[p][n] : r = ImportPolicy(p, WithSrc(a, p), FALSE, TRUE)
    BY <1>2, Zenon DEF Learned
  <2> DEFINE w == WithSrc(a, p)
  <2>2. r # None
    BY <1>2 DEF Learned
  <2>3. DOMAIN w = RouteFields /\ w.src = p
    BY WithSrcFields
  <2>4. Asn[p] # None
    BY PolicyAssumption
  <2>5. r = IF Role[p] \in Upward THEN SetOtc(w, Asn[p]) ELSE w
    BY <2>1, <2>2 DEF ImportPolicy
  <2> HIDE DEF w
  <2>6. CASE Role[p] \in Upward
    BY <2>3, <2>4, <2>5, <2>6, SetOtcFields DEF LocRoute
  <2>7. CASE Role[p] \notin Upward
    BY <2>3, <2>5, <2>7 DEF LocRoute
  <2>q. QED BY <2>6, <2>7
<1>q. QED BY <1>1, <1>2 DEF RoutesOf

LEMMA OutgoingFields ==
  ASSUME NEW p, NEW r, DOMAIN r = RouteFields, NEW addr
  PROVE  \A o \in {Outgoing(p, r, addr), OutgoingV6(p, r, addr)} :
           DOMAIN o = RouteFields /\ o.src = r.src /\ o.comms = r.comms /\ o.otc = r.otc
<1> DEFINE u == OutgoingUnnumbered(p, r)
<1>1. DOMAIN u = RouteFields /\ u.src = r.src /\ u.comms = r.comms /\ u.otc = r.otc
  BY DEF OutgoingUnnumbered, RouteFields
<1> HIDE DEF u
<1>2. PICK nh : Outgoing(p, r, addr) = [u EXCEPT !.nh = nh]
  BY Zenon DEF Outgoing, u
<1> DEFINE o == [u EXCEPT !.nh = nh]
<1>3. DOMAIN o = RouteFields /\ o.src = r.src /\ o.comms = r.comms /\ o.otc = r.otc
  BY <1>1 DEF RouteFields
<1> HIDE DEF o
<1>4. Outgoing(p, r, addr) = o /\ OutgoingV6(p, r, addr) \in {o, u}
  BY <1>2 DEF OutgoingV6, u, o
<1>q. QED BY <1>1, <1>3, <1>4

LEMMA EntryIsProper ==
  ASSUME NEW p \in Peers, NEW n, NEW b, b[n] # None => LocRoute(b[n]), NEW acc, NEW addr
  PROVE  Proper(p, Entry(p, n, b, acc, addr))
<1> DEFINE e == Entry(p, n, b, acc, addr)
           r == b[n]
<1> SUFFICES ASSUME e # None PROVE Proper(p, e)
  BY DEF Proper
<1>1. r # None /\ r.src # p
  BY DEF Entry, Exported, ExportedV6
<1>2. PICK o \in {Outgoing(p, r, addr), OutgoingV6(p, r, addr)} :
        e = Filter(p, ExportPolicy(p, o, acc))
  BY <1>1 DEF Entry, Exported, ExportedV6
<1>3. /\ DOMAIN o = RouteFields /\ o.src = r.src /\ o.comms = r.comms
      /\ r.src \in Peers /\ Role[r.src] \in Upward => o.otc # None
  BY <1>1, OutgoingFields DEF LocRoute
<1> DEFINE x == ExportPolicy(p, o, acc)
<1>4. e = x /\ x # None /\ ~Suppressed(p, x.comms) /\ ~SplitHorizon(p, x.src)
  BY <1>2 DEF Filter
<1>5. ~(Role[p] \in Upward /\ o.otc # None) /\ x \in {o, SetOtc(o, LocalAs)}
  BY <1>4 DEF ExportPolicy
<1>6. x.src = o.src /\ x.comms = o.comms
  BY <1>3, <1>5, SetOtcFields
<1> HIDE DEF e, x, r
<1>q. QED BY <1>1, <1>3, <1>4, <1>5, <1>6 DEF Proper

-----------------------------------------------------------------------------
(* Operations on one peer's record.                                        *)

OutFields ==
  {"adj", "window", "held", "pending", "queued", "mark", "view", "skew", "owed"}

IsOut(o) == DOMAIN o = OutFields /\ DOMAIN o.adj = Nlris /\ o.adj = [n \in Nlris |-> o.adj[n]]

\* Nothing but the channel and the timers moves.
Keeps(o, o2) == IsOut(o2) /\ o2.adj = o.adj /\ o2.owed = o.owed

\* The entries of the prefixes S, and no others, become exports of b.
Tells(p, o, o2, S, b, acc) ==
  /\ IsOut(o2)
  /\ o2.owed = o.owed \ S
  /\ \A n \in Nlris \ S : o2.adj[n] = o.adj[n]
  /\ \A n \in S \cap Nlris : \E addr \in {"self", "id"} :
       o2.adj[n] = Entry(p, n, b, acc, addr)

LEMMA FreshIsOut == IsOut(Fresh)
BY DEF Fresh, IsOut, OutFields

LEMMA KeepsSelf == ASSUME NEW o, IsOut(o) PROVE Keeps(o, o)
BY DEF Keeps

LEMMA KeepsTwice ==
  ASSUME NEW o, NEW o1, NEW o2, Keeps(o, o1), Keeps(o1, o2)
  PROVE  Keeps(o, o2)
BY DEF Keeps

LEMMA TrySendKeeps ==
  ASSUME NEW o, IsOut(o), NEW ms
  PROVE  Keeps(o, TrySend(o, ms))
<1> DEFINE k == IF Overflows(o, ms) THEN Capacity - o.queued ELSE ms.len
           o2 == [o EXCEPT !.queued = @ + k, !.view = Apply(@, ms, k),
                           !.mark = IF Overflows(o, ms) THEN "stalled" ELSE @]
<1>1. Keeps(o, o2)
  BY DEF Keeps, IsOut, OutFields
<1>2. TrySend(o, ms) \in {o, o2}
  BY DEF TrySend
<1> HIDE DEF o2
<1>q. QED BY <1>1, <1>2, KeepsSelf

LEMMA FlushUpdatesKeeps ==
  ASSUME NEW p, NEW f, NEW o, IsOut(o), NEW ds
  PROVE  Keeps(o, FlushUpdates(p, f, o, ds))
<1> DEFINE o1 == [o EXCEPT !.skew = (@ \ {ds[i].n : i \in DOMAIN ds}) \cup Bad(p, f, o, ds)]
<1>1. Keeps(o, o1)
  BY DEF Keeps, IsOut, OutFields
<1>2. FlushUpdates(p, f, o, ds) \in {o, TrySend(o1, Messages(p, f, ds))}
  BY DEF FlushUpdates
<1> HIDE DEF o1
<1>3. Keeps(o, TrySend(o1, Messages(p, f, ds)))
  BY <1>1, TrySendKeeps, KeepsTwice DEF Keeps
<1>q. QED BY <1>2, <1>3, KeepsSelf

LEMMA FlushPendingKeeps ==
  ASSUME NEW p, NEW o, IsOut(o)
  PROVE  Keeps(o, FlushPending(p, o))
<1> DEFINE o1 == [o EXCEPT !.pending = Fresh.pending]
           v4 == FlushUpdates(p, "v4", o1, o.pending["v4"])
           v6 == FlushUpdates(p, "v6", v4, o.pending["v6"])
<1>1. Keeps(o, o1)
  BY DEF Keeps, IsOut, OutFields
<1>2. FlushPending(p, o) \in {o, v4, v6}
  BY DEF FlushPending
<1> HIDE DEF o1
<1>3. Keeps(o, v4)
  BY <1>1, FlushUpdatesKeeps, KeepsTwice DEF Keeps
<1> HIDE DEF v4
<1>4. Keeps(o, v6)
  BY <1>3, FlushUpdatesKeeps, KeepsTwice DEF Keeps
<1> HIDE DEF v6
<1>q. QED BY <1>2, <1>3, <1>4, KeepsSelf

LEMMA TakeStalledKeeps ==
  ASSUME NEW o, IsOut(o)
  PROVE  Keeps(o, TakeStalled(o))
<1> DEFINE o1 == [o EXCEPT !.mark = "stopping"]
<1>1. Keeps(o, o1)
  BY DEF Keeps, IsOut, OutFields
<1>q. QED BY <1>1, KeepsSelf DEF TakeStalled

\* Puts say the entries e, and what keeps the record after them does.
LEMMA PutTells ==
  ASSUME NEW p, NEW o, IsOut(o), NEW S, NEW b, NEW acc, NEW addr \in {"self", "id"}, NEW e,
         e = [n \in S |-> Entry(p, n, b, acc, addr)]
  PROVE  Tells(p, o, Put(o, e), S, b, acc)
<1> DEFINE a == Updated(o.adj, e)
           o2 == [o EXCEPT !.adj = a, !.owed = @ \ S]
<1>1. /\ DOMAIN a = Nlris /\ a = [n \in Nlris |-> a[n]]
      /\ \A n \in Nlris : a[n] = IF n \in S THEN Entry(p, n, b, acc, addr) ELSE o.adj[n]
  BY DEF Updated, IsOut
<1> HIDE DEF a
<1>2. DOMAIN o2 = OutFields /\ o2.adj = a /\ o2.owed = o.owed \ S
  BY DEF IsOut, OutFields
<1>3. Put(o, e) = o2
  BY DEF Put, a
<1> HIDE DEF o2
<1>q. QED BY <1>1, <1>2, <1>3 DEF Tells, IsOut

LEMMA TellsThenKeeps ==
  ASSUME NEW p, NEW o, NEW o1, NEW o2, NEW S, NEW b, NEW acc,
         Tells(p, o, o1, S, b, acc), Keeps(o1, o2)
  PROVE  Tells(p, o, o2, S, b, acc)
BY DEF Tells, Keeps

LEMMA KeepsThenTells ==
  ASSUME NEW p, NEW o, NEW o1, NEW o2, NEW S, NEW b, NEW acc,
         Keeps(o, o1), Tells(p, o1, o2, S, b, acc)
  PROVE  Tells(p, o, o2, S, b, acc)
BY DEF Tells, Keeps

LEMMA TellsTwice ==
  ASSUME NEW p, NEW o, NEW o1, NEW o2, NEW S, NEW R, NEW b, NEW acc,
         Tells(p, o, o1, S, b, acc), Tells(p, o1, o2, R, b, acc)
  PROVE  Tells(p, o, o2, S \cup R, b, acc)
<1>1. IsOut(o2) /\ o2.owed = o.owed \ (S \cup R)
  BY DEF Tells
<1>2. \A n \in Nlris \ (S \cup R) : o2.adj[n] = o.adj[n]
  BY DEF Tells
<1>3. ASSUME NEW n \in (S \cup R) \cap Nlris
      PROVE  \E addr \in {"self", "id"} : o2.adj[n] = Entry(p, n, b, acc, addr)
  <2>1. CASE n \in R
    BY <2>1 DEF Tells
  <2>2. CASE n \notin R
    <3>1. o2.adj[n] = o1.adj[n] /\ n \in S
      BY <1>3, <2>2 DEF Tells
    <3>q. QED BY <1>3, <3>1 DEF Tells
  <2>q. QED BY <2>1, <2>2
<1>q. QED BY <1>1, <1>2, <1>3 DEF Tells

LEMMA KeepsTells ==
  ASSUME NEW p, NEW o, NEW o2, NEW b, NEW acc, Keeps(o, o2)
  PROVE  Tells(p, o, o2, {}, b, acc)
BY DEF Tells, Keeps

LEMMA TellsIsOut ==
  ASSUME NEW p, NEW o, NEW o1, NEW S, NEW b, NEW acc, Tells(p, o, o1, S, b, acc)
  PROVE  IsOut(o1)
BY DEF Tells

LEMMA TellsThenSends ==
  ASSUME NEW p, NEW o, NEW o1, NEW S, NEW b, NEW acc, Tells(p, o, o1, S, b, acc),
         NEW f, NEW ds, NEW ms
  PROVE  /\ Tells(p, o, FlushUpdates(p, f, o1, ds), S, b, acc)
         /\ Tells(p, o, TrySend(o1, ms), S, b, acc)
<1>1. Keeps(o1, FlushUpdates(p, f, o1, ds)) /\ Keeps(o1, TrySend(o1, ms))
  BY TellsIsOut, FlushUpdatesKeeps, TrySendKeeps
<1>q. QED BY <1>1, TellsThenKeeps

-----------------------------------------------------------------------------
(* The ways to tell a peer.                                                *)

\* The prefixes of ns a peer hears about when each family is gone through.
Spoken(p, ns) == (ns \cap V4) \cup (IF p \in V6Peers THEN ns \cap V6 ELSE {})

LEMMA PropagateV4Tells ==
  ASSUME NEW p, NEW o, IsOut(o), NEW ns, NEW b, NEW live
  PROVE  Tells(p, o, PropagateV4(o, p, ns, b, live), Reflected(p, ns \cap V4, b, live), b, accept[p])
<1> DEFINE S == Reflected(p, ns \cap V4, b, live)
           e == Entries(p, S, b, "self")
           u == Put(o, e)
<1>1. Tells(p, o, u, S, b, accept[p])
  BY PutTells DEF Entries
<1> HIDE DEF S
<1>2. PICK x, y, z :
        PropagateV4(o, p, ns, b, live) = [u EXCEPT !.pending["v4"] = x, !.held = y, !.window = z]
  BY Zenon DEF PropagateV4, S
<1> HIDE DEF u
<1> DEFINE o2 == [u EXCEPT !.pending["v4"] = x, !.held = y, !.window = z]
<1>3. Keeps(u, o2)
  BY <1>1 DEF Tells, Keeps, IsOut, OutFields
<1> HIDE DEF o2
<1>4. Tells(p, o, o2, S, b, accept[p])
  BY <1>1, <1>3, TellsThenKeeps
<1>q. QED BY <1>2, <1>4 DEF o2, S

LEMMA PropagateV6Tells ==
  ASSUME NEW p, NEW o, IsOut(o), NEW ns, NEW b, NEW live, p \in V6Peers
  PROVE  Tells(p, o, PropagateV6(o, p, ns, b, live), Reflected(p, ns \cap V6, b, live), b, accept[p])
<1> DEFINE S == Reflected(p, ns \cap V6, b, live)
           e == Entries(p, S, b, "self")
           u == Put(o, e)
<1>1. Tells(p, o, u, S, b, accept[p])
  BY PutTells DEF Entries
<1> HIDE DEF S
<1>2. PICK x : PropagateV6(o, p, ns, b, live) = [u EXCEPT !.pending["v6"] = x]
  BY Zenon DEF PropagateV6, S
<1> HIDE DEF u
<1> DEFINE o2 == [u EXCEPT !.pending["v6"] = x]
<1>3. Keeps(u, o2)
  BY <1>1 DEF Tells, Keeps, IsOut, OutFields
<1> HIDE DEF o2
<1>4. Tells(p, o, o2, S, b, accept[p])
  BY <1>1, <1>3, TellsThenKeeps
<1>q. QED BY <1>2, <1>4 DEF o2, S

LEMMA PropagateTells ==
  ASSUME NEW p, NEW o, IsOut(o), NEW ns, NEW b, NEW live, p \in live
  PROVE  Tells(p, o, Propagate(o, p, ns, b, live), Reflected(p, Spoken(p, ns), b, live), b, accept[p])
<1> DEFINE o1 == PropagateV4(o, p, ns, b, live)
           o2 == PropagateV6(o1, p, ns, b, live)
           S4 == Reflected(p, ns \cap V4, b, live)
           S6 == Reflected(p, ns \cap V6, b, live)
<1>1. Tells(p, o, o1, S4, b, accept[p])
  BY PropagateV4Tells
<1>2. Propagate(o, p, ns, b, live) = o2
  BY DEF Propagate
<1> HIDE DEF o1
<1>3. CASE p \in V6Peers
  <2>1. Tells(p, o1, o2, S6, b, accept[p])
    BY <1>1, <1>3, TellsIsOut, PropagateV6Tells
  <2>2. Reflected(p, Spoken(p, ns), b, live) = S4 \cup S6
    BY <1>3 DEF Reflected, Spoken
  <2> HIDE DEF o2, S4, S6
  <2>q. QED BY <1>1, <1>2, <2>1, <2>2, TellsTwice
<1>4. CASE p \notin V6Peers
  <2>1. o2 = o1 /\ Spoken(p, ns) = ns \cap V4
    BY <1>4 DEF PropagateV6, Spoken
  <2>q. QED BY <1>1, <1>2, <2>1
<1>q. QED BY <1>3, <1>4

LEMMA DirectTells ==
  ASSUME NEW p, NEW o, IsOut(o), NEW ns, NEW b
  PROVE  /\ Tells(p, o, DirectV4(o, p, ns, b, "self"), ns \cap V4, b, accept[p])
         /\ Tells(p, o, DirectV6(DirectV4(o, p, ns, b, "self"), p, ns, b),
                  Spoken(p, ns), b, accept[p])
<1> DEFINE e4 == Entries(p, ns \cap V4, b, "self")
           u4 == Put(o, e4)
           o1 == DirectV4(o, p, ns, b, "self")
<1>1. Tells(p, o, u4, ns \cap V4, b, accept[p])
  BY PutTells DEF Entries
<1>2. o1 = FlushUpdates(p, "v4", u4, Decisions(o, e4))
  BY DEF DirectV4
<1> HIDE DEF u4, o1
<1>3. Tells(p, o, o1, ns \cap V4, b, accept[p])
  BY <1>1, <1>2, TellsThenSends
<1> DEFINE e6 == Entries(p, ns \cap V6, b, "self")
           u6 == Put(o1, e6)
           o2 == DirectV6(o1, p, ns, b)
<1>4. CASE p \in V6Peers
  <2>1. Tells(p, o1, u6, ns \cap V6, b, accept[p])
    BY <1>3, TellsIsOut, PutTells DEF Entries
  <2>2. o2 = FlushUpdates(p, "v6", u6, Decisions(o1, e6))
    BY <1>4 DEF DirectV6
  <2> HIDE DEF u6, o2
  <2>3. Tells(p, o1, o2, ns \cap V6, b, accept[p])
    BY <2>1, <2>2, TellsThenSends
  <2>4. Spoken(p, ns) = (ns \cap V4) \cup (ns \cap V6)
    BY <1>4 DEF Spoken
  <2>q. QED BY <1>3, <2>3, <2>4, TellsTwice DEF o1, o2
<1>5. CASE p \notin V6Peers
  <2>1. o2 = o1 /\ Spoken(p, ns) = ns \cap V4
    BY <1>5 DEF DirectV6, Spoken
  <2>q. QED BY <1>3, <2>1 DEF o1
<1>q. QED BY <1>4, <1>5

\* The prefixes with a route.
Routed(b) == {n \in Nlris : b[n] # None}

LEMMA DumpTells ==
  ASSUME NEW p, NEW o, IsOut(o), NEW b, NEW live
  PROVE  Tells(p, o, DumpV6(DumpV4(o, p, b, live), p, b, live),
               Reflected(p, Spoken(p, Routed(b)), b, live), b, accept[p])
<1> DEFINE S4 == Reflected(p, {n \in V4 : b[n] # None}, b, live)
           S6 == Reflected(p, {n \in V6 : b[n] # None}, b, live)
           e4 == Entries(p, S4, b, "self")
           u4 == Put(o, e4)
           f4 == FlushUpdates(p, "v4", u4, Decisions(o, e4))
           o1 == DumpV4(o, p, b, live)
<1>1. Tells(p, o, u4, S4, b, accept[p])
  BY PutTells DEF Entries
<1>2. o1 \in {f4, TrySend(f4, EndOfRib)}
  BY DEF DumpV4
<1> HIDE DEF u4, o1, S4, S6
<1>3. Tells(p, o, f4, S4, b, accept[p])
  BY <1>1, TellsThenSends
<1> HIDE DEF f4
<1>4. Tells(p, o, TrySend(f4, EndOfRib), S4, b, accept[p])
  BY <1>3, TellsThenSends
<1>5. Tells(p, o, o1, S4, b, accept[p])
  BY <1>2, <1>3, <1>4
<1> DEFINE e6 == Entries(p, S6, b, "self")
           u6 == Put(o1, e6)
           f6 == FlushUpdates(p, "v6", u6, Decisions(o1, e6))
           o2 == DumpV6(o1, p, b, live)
<1>6. CASE p \in V6Peers
  <2>1. Tells(p, o1, u6, S6, b, accept[p])
    BY <1>5, TellsIsOut, PutTells DEF Entries
  <2>2. o2 \in {f6, TrySend(f6, EndOfRib)}
    BY <1>6 DEF DumpV6, S6
  <2> HIDE DEF u6, o2
  <2>3. Tells(p, o1, f6, S6, b, accept[p])
    BY <2>1, TellsThenSends
  <2> HIDE DEF f6
  <2>4. Tells(p, o1, TrySend(f6, EndOfRib), S6, b, accept[p])
    BY <2>3, TellsThenSends
  <2>5. Tells(p, o1, o2, S6, b, accept[p])
    BY <2>2, <2>3, <2>4
  <2>6. Reflected(p, Spoken(p, Routed(b)), b, live) = S4 \cup S6
    BY <1>6 DEF Reflected, Spoken, Routed, S4, S6, Nlris
  <2>q. QED BY <1>5, <2>5, <2>6, TellsTwice DEF o1, o2
<1>7. CASE p \notin V6Peers
  <2>1. o2 = o1
    BY <1>7 DEF DumpV6
  <2>2. Reflected(p, Spoken(p, Routed(b)), b, live) = S4
    BY <1>7 DEF Reflected, Spoken, Routed, S4, Nlris
  <2>q. QED BY <1>5, <2>1, <2>2 DEF o1
<1>q. QED BY <1>6, <1>7

-----------------------------------------------------------------------------
(* The invariant.                                                          *)

\* What Tracks says of one peer and prefix.
Follows(p, n, b, acc, live, o) ==
  Unreflected(p, b[n], live) \/ n \in o.owed \/ (n \in V6 /\ p \notin V6Peers) \/
    \E addr \in {"self", "id"} : o.adj[n] = Entry(p, n, b, acc, addr)

\* One peer's record: nothing leaks, and while the peer is established every
\* entry follows its best route.
Healthy(p, b, acc, live, o) ==
  /\ IsOut(o)
  /\ \A n \in Nlris : Proper(p, o.adj[n])
  /\ p \in live => \A n \in Nlris : Follows(p, n, b, acc, live, o)

\* A table of best routes, each of them imported or originated.
IsTable(b) ==
  DOMAIN b = Nlris /\ \A n \in Nlris : b[n] \in {None} \cup RoutesOf(Peers, n)

Sources == up \subseteq Peers /\ holding \subseteq Peers /\ up \cap holding = {}

IInv ==
  /\ IsTable(best)
  /\ Sources
  /\ accept \in [Peers -> BOOLEAN]
  /\ DOMAIN out = Watched
  /\ \A p \in Watched : Healthy(p, best, accept[p], up, out[p])

LEMMA UpdatedIsTable ==
  ASSUME NEW b, IsTable(b), NEW ns, NEW S \in SUBSET Peers, NEW c \in Outcomes(ns, S)
  PROVE  /\ IsTable(Updated(b, c))
         /\ \A n \in Nlris \ ns : Updated(b, c)[n] = b[n]
<1>1. DOMAIN c = ns /\ \A n \in ns : c[n] \in {None} \cup RoutesOf(S, n)
  BY DEF Outcomes
<1>2. \A n : RoutesOf(S, n) \subseteq RoutesOf(Peers, n)
  BY DEF RoutesOf
<1> HIDE DEF Outcomes
<1>3. /\ DOMAIN Updated(b, c) = Nlris
      /\ \A n \in Nlris : Updated(b, c)[n] = IF n \in ns THEN c[n] ELSE b[n]
  BY <1>1 DEF Updated, IsTable
<1>q. QED BY <1>1, <1>2, <1>3 DEF IsTable

\* An entry without a route is None for every peer and default.
LEMMA NoRouteNoEntry ==
  ASSUME NEW p, NEW n, NEW b, b[n] = None, NEW acc, NEW addr
  PROVE  Entry(p, n, b, acc, addr) = None
BY DEF Entry, Exported, ExportedV6

LEMMA FollowsStill ==
  ASSUME NEW p, NEW n, NEW b, NEW acc, NEW live, NEW o, Follows(p, n, b, acc, live, o),
         NEW b2, b2[n] = b[n], NEW live2,
         b[n] # None => (b[n].src \in live => b[n].src \in live2)
  PROVE  Follows(p, n, b2, acc, live2, o)
<1>1. \A addr : Entry(p, n, b2, acc, addr) = Entry(p, n, b, acc, addr)
  BY DEF Entry
<1>2. Unreflected(p, b[n], live) => Unreflected(p, b2[n], live2)
  BY DEF Unreflected
<1>q. QED BY <1>1, <1>2 DEF Follows

LEMMA FollowsNothing ==
  ASSUME NEW p, NEW n, NEW b, NEW acc, NEW live, NEW o, Follows(p, n, b, acc, live, o),
         NEW b2, b[n] = None, b2[n] = None, NEW live2, NEW acc2
  PROVE  Follows(p, n, b2, acc2, live2, o)
<1>1. ~Unreflected(p, b[n], live)
  BY DEF Unreflected
<1>2. \A addr : Entry(p, n, b2, acc2, addr) = Entry(p, n, b, acc, addr)
  BY NoRouteNoEntry
<1>q. QED BY <1>1, <1>2 DEF Follows

\* Telling a peer keeps its record healthy, if what is not told still follows.
LEMMA TellsHealthy ==
  ASSUME NEW p \in Watched, NEW b, NEW acc, NEW live, NEW o, Healthy(p, b, acc, live, o),
         NEW b2, IsTable(b2), NEW acc2, NEW live2, NEW o2, NEW S, Tells(p, o, o2, S, b2, acc2),
         p \in live2 => \A n \in Nlris \ S : Follows(p, n, b2, acc2, live2, o)
  PROVE  Healthy(p, b2, acc2, live2, o2)
<1> p \in Peers
  BY OutboundAssumption
<1>1. ASSUME NEW n \in Nlris PROVE Proper(p, o2.adj[n])
  <2>1. CASE n \in S
    <3>1. PICK addr \in {"self", "id"} : o2.adj[n] = Entry(p, n, b2, acc2, addr)
      BY <2>1 DEF Tells
    <3>2. b2[n] # None => LocRoute(b2[n])
      BY RoutesAreLocRoutes DEF IsTable
    <3>q. QED BY <3>1, <3>2, EntryIsProper
  <2>2. CASE n \notin S
    BY <2>2 DEF Tells, Healthy
  <2>q. QED BY <2>1, <2>2
<1>2. ASSUME p \in live2, NEW n \in Nlris PROVE Follows(p, n, b2, acc2, live2, o2)
  <2>1. CASE n \in S
    BY <2>1 DEF Tells, Follows
  <2>2. CASE n \notin S
    <3>1. o2.adj[n] = o.adj[n] /\ (n \in o.owed => n \in o2.owed)
      BY <2>2 DEF Tells
    <3>2. Follows(p, n, b2, acc2, live2, o)
      BY <1>2, <2>2
    <3>q. QED BY <3>1, <3>2 DEF Follows
  <2>q. QED BY <2>1, <2>2
<1>q. QED BY <1>1, <1>2 DEF Healthy, Tells

LEMMA KeepsHealthy ==
  ASSUME NEW p, NEW b, NEW acc, NEW live, NEW o, Healthy(p, b, acc, live, o),
         NEW o2, Keeps(o, o2)
  PROVE  Healthy(p, b, acc, live, o2)
BY DEF Keeps, Healthy, Follows

\* More owed is no harm.
Owes(o, o2, S) == IsOut(o2) /\ o2.adj = o.adj /\ o2.owed = o.owed \cup S

LEMMA OwedHealthy ==
  ASSUME NEW p, NEW b, NEW acc, NEW live, NEW o,
         \A n \in Nlris : Proper(p, o.adj[n]), NEW S,
         \A n \in Nlris \ S : p \in live => Follows(p, n, b, acc, live, o),
         NEW o2, Owes(o, o2, S)
  PROVE  Healthy(p, b, acc, live, o2)
BY DEF Healthy, Follows, Owes

\* Without a session only leaks matter.
LEMMA DownHealthy ==
  ASSUME NEW p, NEW b, NEW acc, NEW live, p \notin live, NEW o, Healthy(p, b, acc, live, o),
         NEW b2, NEW acc2
  PROVE  Healthy(p, b2, acc2, live, o)
BY DEF Healthy

-----------------------------------------------------------------------------
(* One lemma per action.                                                   *)

\* What the handlers that go through the buffers do to one peer.
LEMMA PropagateHealthy ==
  ASSUME IInv, NEW p \in Watched, NEW o, Keeps(out[p], o), NEW ns, NEW b, IsTable(b),
         \A n \in Nlris \ ns : b[n] = best[n]
  PROVE  Healthy(p, b, accept[p], up, Propagate(o, p, ns, b, up))
<1>1. Healthy(p, best, accept[p], up, o) /\ IsOut(o)
  BY KeepsHealthy DEF IInv, Keeps
<1>2. CASE p \in up
  <2> DEFINE S == Reflected(p, Spoken(p, ns), b, up)
  <2>1. Tells(p, o, Propagate(o, p, ns, b, up), S, b, accept[p])
    BY <1>1, <1>2, PropagateTells
  <2>2. ASSUME NEW n \in Nlris \ S PROVE Follows(p, n, b, accept[p], up, o)
    <3>1. CASE n \in ns
      BY <2>2, <3>1 DEF Follows, Reflected, Spoken, Nlris
    <3>2. CASE n \notin ns
      BY <1>1, <1>2, <3>2, FollowsStill DEF Healthy
    <3>q. QED BY <3>1, <3>2
  <2> HIDE DEF S
  <2>q. QED BY <1>1, <2>1, <2>2, TellsHealthy
<1>3. CASE p \notin up
  BY <1>1, <1>3, DownHealthy DEF Propagate
<1>q. QED BY <1>2, <1>3

LEMMA FlushHealthy ==
  ASSUME NEW p, NEW b, NEW acc, NEW live, NEW o, Healthy(p, b, acc, live, o)
  PROVE  /\ Healthy(p, b, acc, live, FlushPending(p, o))
         /\ Healthy(p, b, acc, live, TakeStalled(o))
         /\ Healthy(p, b, acc, live, TakeStalled(FlushPending(p, o)))
<1>1. Healthy(p, b, acc, live, FlushPending(p, o))
  BY FlushPendingKeeps, KeepsHealthy, Zenon DEF Healthy
<1>2. ASSUME NEW o1, Healthy(p, b, acc, live, o1) PROVE Healthy(p, b, acc, live, TakeStalled(o1))
  BY <1>2, TakeStalledKeeps, KeepsHealthy, Zenon DEF Healthy
<1>q. QED BY <1>1, <1>2

\* RouteUpdate, FibChange, Originate, WithdrawOriginated, ReevaluateImport.
Redecision(ns) ==
  /\ \E S \in SUBSET Peers : \E c \in Outcomes(ns, S) : best' = Updated(best, c)
  /\ DOMAIN out' = Watched
  /\ \A q \in Watched :
       LET o == Propagate(out[q], q, ns, best', up)
       IN  out'[q] \in {o, FlushPending(q, o), TakeStalled(FlushPending(q, o))}
  /\ UNCHANGED <<up, holding, accept>>

LEMMA RedecisionKeeps ==
  ASSUME IInv, NEW ns, Redecision(ns) PROVE IInv'
<1>1. IsTable(best') /\ \A n \in Nlris \ ns : best'[n] = best[n]
  BY UpdatedIsTable DEF Redecision, IInv
<1>2. ASSUME NEW q \in Watched PROVE Healthy(q, best', accept'[q], up', out'[q])
  <2> DEFINE o == Propagate(out[q], q, ns, best', up)
  <2>1. Keeps(out[q], out[q])
    BY KeepsSelf DEF IInv, Healthy
  <2>2. Healthy(q, best', accept[q], up, o)
    BY <1>1, <2>1, PropagateHealthy
  <2>3. out'[q] \in {o, FlushPending(q, o), TakeStalled(FlushPending(q, o))}
    BY DEF Redecision
  <2> HIDE DEF o
  <2>4. Healthy(q, best', accept[q], up, out'[q])
    BY <2>2, <2>3, FlushHealthy
  <2>q. QED BY <2>4 DEF Redecision
<1>q. QED BY <1>1, <1>2 DEF IInv, Sources, Redecision

LEMMA DecisionsAreRedecisions ==
  ASSUME IInv, NEW ns,
         RouteUpdate(ns) \/ FibChange(ns) \/ Originate(ns) \/ WithdrawOriginated(ns)
           \/ ReevaluateImport(ns)
  PROVE  Redecision(ns)
<1>1. up \cup holding \in SUBSET Peers /\ {} \in SUBSET Peers
  BY DEF IInv, Sources
<1>2. \E S \in SUBSET Peers : \E c \in Outcomes(ns, S) : best' = Updated(best, c)
  BY <1>1 DEF RouteUpdate, FibChange, Originate, WithdrawOriginated, ReevaluateImport
<1>3. UNCHANGED <<up, holding, accept>>
  BY DEF RouteUpdate, FibChange, Originate, WithdrawOriginated, ReevaluateImport
<1>4. \/ out' = [q \in Watched |-> Propagate(out[q], q, ns, best', up)]
      \/ out' = [q \in Watched |-> FlushPending(q, Propagate(out[q], q, ns, best', up))]
      \/ out' = [q \in Watched |-> TakeStalled(FlushPending(q, Propagate(out[q], q, ns, best', up)))]
  BY DEF RouteUpdate, FibChange, Originate, WithdrawOriginated, ReevaluateImport, Redecided
<1>5. /\ DOMAIN out' = Watched
      /\ \A q \in Watched :
           LET o == Propagate(out[q], q, ns, best', up)
           IN  out'[q] \in {o, FlushPending(q, o), TakeStalled(FlushPending(q, o))}
  BY <1>4
<1>q. QED BY <1>2, <1>3, <1>5 DEF Redecision

\* A step that only moves messages and timers.
LEMMA QuietKeeps ==
  ASSUME IInv, UNCHANGED <<best, up, holding, accept>>, DOMAIN out' = Watched,
         \A q \in Watched : Healthy(q, best, accept[q], up, out'[q])
  PROVE  IInv'
BY DEF IInv, Sources, IsTable

LEMMA FlushKeeps == ASSUME IInv, Flush PROVE IInv'
<1>1. DOMAIN out' = Watched /\ \A q \in Watched : out'[q] = TakeStalled(FlushPending(q, out[q]))
  BY DEF Flush
<1>2. \A q \in Watched : Healthy(q, best, accept[q], up, out'[q])
  BY <1>1, FlushHealthy DEF IInv
<1>q. QED BY <1>1, <1>2, QuietKeeps DEF Flush

LEMMA BadUpdateKeeps == ASSUME IInv, NEW p, BadUpdate(p) PROVE IInv'
<1>1. /\ DOMAIN out' = Watched
      /\ \A q \in Watched : LET o == TakeStalled(FlushPending(q, out[q]))
                           IN  out'[q] \in {o, [o EXCEPT !.mark = "stopping"]}
  BY DEF BadUpdate
<1>2. ASSUME NEW q \in Watched PROVE Healthy(q, best, accept[q], up, out'[q])
  <2> DEFINE o == TakeStalled(FlushPending(q, out[q]))
             o2 == [o EXCEPT !.mark = "stopping"]
  <2>1. Healthy(q, best, accept[q], up, o)
    BY FlushHealthy DEF IInv
  <2> HIDE DEF o
  <2>2. Keeps(o, o2)
    BY <2>1 DEF Healthy, Keeps, IsOut, OutFields
  <2>3. out'[q] \in {o, o2}
    BY <1>1 DEF o
  <2> HIDE DEF o2
  <2>q. QED BY <2>1, <2>2, <2>3, KeepsHealthy
<1>q. QED BY <1>1, <1>2, QuietKeeps DEF BadUpdate

\* A step that changes the channel or the timers of one peer.
LEMMA OneKeeps ==
  ASSUME IInv, UNCHANGED <<best, up, holding, accept>>, NEW p \in Watched,
         NEW o, Keeps(out[p], o), out' = [out EXCEPT ![p] = o]
  PROVE  IInv'
<1>1. DOMAIN out' = Watched /\ \A q \in Watched : out'[q] = IF q = p THEN o ELSE out[q]
  BY DEF IInv
<1>2. \A q \in Watched : Healthy(q, best, accept[q], up, out'[q])
  BY <1>1, KeepsHealthy DEF IInv
<1>q. QED BY <1>1, <1>2, QuietKeeps

LEMMA DeliverKeeps == ASSUME IInv, NEW p, Deliver(p) PROVE IInv'
<1> DEFINE u == out[p]
           o == [u EXCEPT !.queued = @ - 1]
<1>1. p \in Watched /\ UNCHANGED <<best, up, holding, accept>> /\ out' = [out EXCEPT ![p] = o]
  BY DEF Deliver
<1>2. IsOut(u)
  BY <1>1 DEF IInv, Healthy
<1> HIDE DEF u
<1>3. Keeps(u, o)
  BY <1>2 DEF Keeps, IsOut, OutFields
<1> HIDE DEF o
<1>q. QED BY <1>1, <1>3, OneKeeps, Zenon DEF u

LEMMA MraiElapsesKeeps == ASSUME IInv, NEW p, NEW n, MraiElapses(p, n) PROVE IInv'
<1> DEFINE u == out[p]
           o == [u EXCEPT !.window = @ \ {n}]
<1>1. p \in Watched /\ UNCHANGED <<best, up, holding, accept>> /\ out' = [out EXCEPT ![p] = o]
  BY DEF MraiElapses
<1>2. IsOut(u)
  BY <1>1 DEF IInv, Healthy
<1> HIDE DEF u
<1>3. Keeps(u, o)
  BY <1>2 DEF Keeps, IsOut, OutFields
<1> HIDE DEF o
<1>q. QED BY <1>1, <1>3, OneKeeps, Zenon DEF u

LEMMA SessionEndsKeeps == ASSUME IInv, NEW p, SessionEnds(p) PROVE IInv'
<1> DEFINE u == out[p]
           o == [u EXCEPT !.queued = 0, !.view = Fresh.view, !.skew = {}, !.mark = "closed"]
<1>1. p \in Watched /\ UNCHANGED <<best, up, holding, accept>>
  BY DEF SessionEnds
<1>2. IsOut(u)
  BY <1>1 DEF IInv, Healthy
<1>3. out' = [out EXCEPT ![p] = o]
  BY <1>1, Zenon DEF SessionEnds, IInv
<1> HIDE DEF u
<1>4. Keeps(u, o)
  BY <1>2 DEF Keeps, IsOut, OutFields
<1> HIDE DEF o
<1>q. QED BY <1>1, <1>3, <1>4, OneKeeps, Zenon DEF u

LEMMA MraiTickKeeps == ASSUME IInv, MraiTick PROVE IInv'
<1> DEFINE ready == UNION {Ready(out[p]) : p \in Watched}
           H(p)  == [out[p] EXCEPT !.held = @ \ Ready(out[p])]
           P(p)  == Propagate(H(p), p, ready, best, up)
           F(p)  == TakeStalled(FlushPending(p, P(p)))
           X(p)  == {n \in Ready(out[p]) : P(p).adj[n] = out[p].adj[n]}
<1>1. UNCHANGED <<best, up, holding, accept>>
  BY DEF MraiTick
<1>2. out' = [p \in Watched |-> [F(p) EXCEPT !.skew = @ \cup X(p)]]
  BY DEF MraiTick
<1> HIDE DEF ready
<1>3. ASSUME NEW p \in Watched PROVE Healthy(p, best, accept[p], up, out'[p])
  <2> DEFINE u == out[p]
             h == [u EXCEPT !.held = @ \ Ready(u)]
             f == TakeStalled(FlushPending(p, Propagate(h, p, ready, best, up)))
             x == X(p)
             g == [f EXCEPT !.skew = @ \cup x]
  <2>1. IsOut(u)
    BY DEF IInv, Healthy
  <2>2. out'[p] = g
    BY <1>2
  <2> HIDE DEF u, x
  <2>3. Keeps(u, h)
    BY <2>1 DEF Keeps, IsOut, OutFields
  <2> HIDE DEF h
  <2>4. Healthy(p, best, accept[p], up, Propagate(h, p, ready, best, up))
    BY <2>3, PropagateHealthy DEF u, IInv
  <2>5. Healthy(p, best, accept[p], up, f)
    BY <2>4, FlushHealthy
  <2> HIDE DEF f
  <2>6. Keeps(f, g)
    BY <2>5 DEF Keeps, IsOut, OutFields, Healthy
  <2> HIDE DEF g
  <2>q. QED BY <2>2, <2>5, <2>6, KeepsHealthy
<1>4. DOMAIN out' = Watched
  BY <1>2
<1>q. QED BY <1>1, <1>3, <1>4, QuietKeeps

LEMMA EstablishedKeeps == ASSUME IInv, NEW p \in Peers, Established(p) PROVE IInv'
<1> DEFINE live == up \cup {p}
           u    == out[p]
           o    == [u EXCEPT !.adj = Fresh.adj, !.mark = "ok"]
           S    == Reflected(p, Spoken(p, Routed(best)), best, live)
<1>1. up' = live /\ holding' = holding \ {p} /\ UNCHANGED <<best, accept>>
  BY ZenonT(40) DEF Established
<1>2. /\ DOMAIN out' = Watched
      /\ \A q \in Watched :
           out'[q] = IF q = p THEN DumpV6(DumpV4(o, p, best, live), p, best, live) ELSE out[q]
  BY <1>1, Zenon DEF Established
<1>3. ASSUME NEW q \in Watched \ {p} PROVE Healthy(q, best, accept[q], live, out[q])
  <2>1. Healthy(q, best, accept[q], up, out[q])
    BY DEF IInv
  <2>2. ASSUME q \in live, NEW n \in Nlris PROVE Follows(q, n, best, accept[q], live, out[q])
    BY <2>1, <2>2, FollowsStill DEF Healthy
  <2>q. QED BY <2>1, <2>2 DEF Healthy
<1>4. ASSUME p \in Watched
      PROVE  Healthy(p, best, accept[p], live, DumpV6(DumpV4(o, p, best, live), p, best, live))
  <2>1. IsOut(u)
    BY <1>4 DEF IInv, Healthy
  <2> HIDE DEF u
  <2>2. IsOut(o) /\ \A n \in Nlris : o.adj[n] = None
    BY <2>1 DEF IsOut, OutFields, Fresh
  <2> HIDE DEF o
  <2>3. Healthy(p, best, accept[p], {}, o)
    BY <2>2 DEF Healthy, Proper
  <2>4. Tells(p, o, DumpV6(DumpV4(o, p, best, live), p, best, live), S, best, accept[p])
    BY <2>2, DumpTells
  <2>5. ASSUME NEW n \in Nlris \ S PROVE Follows(p, n, best, accept[p], live, o)
    <3>1. CASE best[n] = None
      BY <2>2, <3>1, NoRouteNoEntry DEF Follows
    <3>2. CASE best[n] # None
      BY <2>5, <3>2 DEF Follows, Reflected, Spoken, Routed, Nlris
    <3>q. QED BY <3>1, <3>2
  <2> HIDE DEF S, live
  <2>6. IsTable(best)
    BY DEF IInv
  <2>q. QED BY <1>4, <2>3, <2>4, <2>5, <2>6, TellsHealthy, SMTT(40)
<1>5. \A q \in Watched : Healthy(q, best', accept'[q], up', out'[q])
  BY <1>1, <1>2, <1>3, <1>4, SMTT(40)
<1>q. QED BY <1>1, <1>2, <1>5, SMTT(40) DEF IInv, Sources, IsTable

\* What the handlers that send at once do to one peer.
LEMMA DirectHealthy ==
  ASSUME IInv, NEW p \in Watched, NEW ns, NEW b, IsTable(b), NEW live,
         \A n \in Nlris \ ns : Follows(p, n, b, accept[p], live, out[p])
  PROVE  Healthy(p, b, accept[p], live, DirectV6(DirectV4(out[p], p, ns, b, "self"), p, ns, b))
<1> DEFINE o == out[p]
           o2 == DirectV6(DirectV4(o, p, ns, b, "self"), p, ns, b)
<1>1. Healthy(p, best, accept[p], up, o) /\ IsOut(o)
  BY SMTT(40) DEF IInv, Healthy
<1>2. Tells(p, o, o2, Spoken(p, ns), b, accept[p])
  BY <1>1, DirectTells, ZenonT(40)
<1>3. \A n \in Nlris \ Spoken(p, ns) : Follows(p, n, b, accept[p], live, o)
  BY DEF Spoken, Follows, Nlris
<1> HIDE DEF o, o2
<1>4. Healthy(p, b, accept[p], live, o2)
  BY <1>1, <1>2, <1>3, TellsHealthy
<1>q. QED BY <1>4 DEF o, o2

\* A prefix that had no best route, or whose route stays and is of a peer that
\* is up as before, follows as before.
LEMMA StaysFollowing ==
  ASSUME IInv, NEW p \in Watched, p \in up, NEW n \in Nlris, NEW b, b[n] = best[n], NEW live,
         best[n] # None => (best[n].src \in up => best[n].src \in live)
  PROVE  Follows(p, n, b, accept[p], live, out[p])
<1>1. Follows(p, n, best, accept[p], up, out[p])
  BY SMTT(40) DEF IInv, Healthy
<1>q. QED BY <1>1, FollowsStill, SMTT(40)

LEMMA EorPruneKeeps == ASSUME IInv, NEW p, NEW ns, EorPrune(p, ns) PROVE IInv'
<1> DEFINE mine == {n \in ns : best[n] # None /\ best[n].src = p}
<1>1. UNCHANGED <<up, holding, accept>>
  BY DEF EorPrune
<1>2. PICK c \in Outcomes(mine, (up \cup holding) \ {p}) :
        /\ best' = Updated(best, c)
        /\ out' = [q \in Watched |->
                     IF q \in up \ {p}
                     THEN DirectV6(DirectV4(out[q], q, ns, best', "self"), q, ns, best')
                     ELSE IF q = p THEN [out[p] EXCEPT !.owed = @ \cup mine]
                     ELSE out[q]]
  BY Zenon DEF EorPrune
<1>3. (up \cup holding) \ {p} \in SUBSET Peers
  BY DEF IInv, Sources
<1>4. IsTable(best') /\ \A n \in Nlris \ mine : best'[n] = best[n]
  BY <1>2, <1>3, UpdatedIsTable DEF IInv
<1>5. ASSUME NEW q \in Watched PROVE Healthy(q, best', accept[q], up, out'[q])
  <2>1. CASE q \in up \ {p}
    <3>1. \A n \in Nlris \ ns : Follows(q, n, best', accept[q], up, out[q])
      BY <1>4, <2>1, StaysFollowing, SMTT(40)
    <3>q. QED BY <1>2, <1>4, <2>1, <3>1, DirectHealthy, SMTT(40)
  <2>2. CASE q = p
    <3>1. \A n \in Nlris \ mine : q \in up => Follows(q, n, best', accept[q], up, out[q])
      BY <1>4, StaysFollowing, SMTT(40)
    <3>2. IsOut(out[q]) /\ \A n \in Nlris : Proper(q, out[q].adj[n])
      BY DEF IInv, Healthy
    <3> HIDE DEF mine
    <3> DEFINE o == out[q]
               o2 == [o EXCEPT !.owed = @ \cup mine]
    <3>3. out'[q] = o2
      BY <1>2, <2>2
    <3> HIDE DEF o
    <3>4. Owes(o, o2, mine)
      BY <3>2, SMTT(40) DEF o, Owes, IsOut, OutFields
    <3> HIDE DEF o2
    <3>5. Healthy(q, best', accept[q], up, o2)
      BY <3>1, <3>2, <3>4, OwedHealthy, SMTT(40) DEF o
    <3>q. QED BY <3>3, <3>5, SMTT(40)
  <2>3. CASE q \notin up /\ q # p
    BY <1>2, <2>3, DownHealthy DEF IInv
  <2>q. QED BY <2>1, <2>2, <2>3
<1>6. DOMAIN out' = Watched
  BY <1>2, SMTT(40)
<1>q. QED BY <1>1, <1>4, <1>5, <1>6, SMTT(40) DEF IInv, Sources

LEMMA FreshHealthy ==
  ASSUME NEW p, NEW b, NEW acc, NEW live, p \notin live
  PROVE  Healthy(p, b, acc, live, Fresh)
<1>1. \A n \in Nlris : Fresh.adj[n] = None
  BY DEF Fresh
<1>q. QED BY <1>1, FreshIsOut DEF Healthy, Proper

LEMMA TerminatedCleanKeeps == ASSUME IInv, NEW p, TerminatedClean(p) PROVE IInv'
<1> DEFINE mine == {n \in Nlris : best[n] # None /\ best[n].src = p}
           had  == {n \in V4 : best[n] # None}
           live == up \ {p}
<1>1. up' = live /\ UNCHANGED <<holding, accept>>
  BY DEF TerminatedClean, Terminated
<1>2. PICK c \in Outcomes(mine, (live \cup holding) \ {p}) :
        /\ best' = Updated(best, c)
        /\ out' = [q \in Watched |->
                     IF q = p THEN Fresh
                     ELSE IF q \in live
                     THEN [DirectV4(out[q], q, had, best', "self") EXCEPT
                             !.owed = @ \cup (mine \cap V6)]
                     ELSE out[q]]
  BY <1>1 DEF TerminatedClean
<1>3. (live \cup holding) \ {p} \in SUBSET Peers
  BY DEF IInv, Sources
<1>4. IsTable(best') /\ \A n \in Nlris \ mine : best'[n] = best[n]
  BY <1>2, <1>3, UpdatedIsTable, SMTT(40) DEF IInv
<1>5. ASSUME NEW q \in Watched PROVE Healthy(q, best', accept[q], live, out'[q])
  <2>1. CASE q = p
    BY <1>2, <2>1, FreshHealthy, SMTT(40)
  <2>2. CASE q \in live
    <3> DEFINE o == DirectV4(out[q], q, had, best', "self")
               X == mine \cap V6
    <3>1. IsOut(out[q]) /\ Healthy(q, best, accept[q], up, out[q])
      BY SMTT(40) DEF IInv, Healthy
    <3>2. Tells(q, out[q], o, had \cap V4, best', accept[q])
      BY <3>1, DirectTells, Zenon
    <3>3. out'[q] = [o EXCEPT !.owed = @ \cup X]
      BY <1>2, <2>2
    <3> HIDE DEF o
    <3>4. ASSUME NEW n \in Nlris \ ((had \cap V4) \cup X)
          PROVE  Follows(q, n, best', accept[q], live, out[q])
      <4>1. n \notin mine
        BY <3>4 DEF Nlris
      <4>q. QED BY <1>4, <2>2, <3>4, <4>1, StaysFollowing, ZenonT(40)
    <3>5. Healthy(q, best', accept[q], {}, o)
      BY <1>4, <3>1, <3>2, TellsHealthy, SMTT(40)
    <3>6. ASSUME NEW n \in Nlris \ X PROVE Follows(q, n, best', accept[q], live, o)
      <4>1. CASE n \in had \cap V4
        BY <3>2, <4>1, SMTT(40) DEF Tells, Follows
      <4>2. CASE n \notin had \cap V4
        BY <3>2, <3>4, <3>6, <4>2, Zenon DEF Tells, Follows
      <4>q. QED BY <4>1, <4>2, SMTT(40), ZenonT(40)
    <3>7. IsOut(o) /\ \A n \in Nlris : Proper(q, o.adj[n])
      BY <3>5 DEF Healthy
    <3> HIDE DEF X, live
    <3> DEFINE o2 == [o EXCEPT !.owed = @ \cup X]
    <3>8. Owes(o, o2, X)
      BY <3>7 DEF Owes, IsOut, OutFields
    <3>9. out'[q] = o2
      BY <3>3, SMTT(40), ZenonT(40)
    <3> HIDE DEF o2
    <3>10. Healthy(q, best', accept[q], live, o2)
      BY <3>6, <3>7, <3>8, OwedHealthy, SMTT(40)
    <3>q. QED BY <3>9, <3>10, SMTT(40)
  <2>3. CASE q \notin live /\ q # p
    BY <1>2, <2>3 DEF IInv, Healthy
  <2>q. QED BY <2>1, <2>2, <2>3
<1>6. DOMAIN out' = Watched
  BY <1>2, SMTT(40)
<1>q. QED BY <1>1, <1>4, <1>5, <1>6 DEF IInv, Sources

LEMMA TerminatedHeldKeeps == ASSUME IInv, NEW p \in Peers, TerminatedHeld(p) PROVE IInv'
<1> DEFINE mine == {n \in Nlris : best[n] # None /\ best[n].src = p}
           had  == Routed(best)
           live == up \ {p}
           gone == [Fresh EXCEPT !.adj = out[p].adj]
<1>1. up' = live /\ holding' = holding \cup {p} /\ UNCHANGED accept
  BY DEF TerminatedHeld, Terminated
<1>2. PICK c \in Outcomes(mine, live \cup holding') :
        /\ best' = Updated(best, c)
        /\ out' = [q \in Watched |->
                     IF q = p THEN gone
                     ELSE IF q \in live
                     THEN DirectV6(DirectV4(out[q], q, had, best', "self"), q, had, best')
                     ELSE out[q]]
  BY <1>1, ZenonT(40) DEF TerminatedHeld, Routed
<1>3. live \cup holding' \in SUBSET Peers
  BY <1>1 DEF IInv, Sources
<1>4. IsTable(best') /\ \A n \in Nlris \ mine : best'[n] = best[n]
  BY <1>2, <1>3, UpdatedIsTable DEF IInv
<1>5. ASSUME NEW q \in Watched PROVE Healthy(q, best', accept[q], live, out'[q])
  <2>1. CASE q = p
    <3>1. IsOut(out[q]) /\ \A n \in Nlris : Proper(q, out[q].adj[n])
      BY DEF IInv, Healthy
    <3>2. IsOut(gone) /\ gone.adj = out[q].adj
      BY <2>1, <3>1 DEF IsOut, OutFields, Fresh
    <3>3. out'[q] = gone
      BY <1>2, <2>1, SMTT(40), ZenonT(40)
    <3> HIDE DEF gone
    <3>q. QED BY <2>1, <3>1, <3>2, <3>3, SMTT(40) DEF Healthy
  <2>2. CASE q \in live
    <3>1. \A n \in Nlris \ had : Follows(q, n, best', accept[q], live, out[q])
      BY <1>4, <2>2, StaysFollowing DEF Routed
    <3> HIDE DEF live, had, mine
    <3>2. q # p /\ out'[q] = DirectV6(DirectV4(out[q], q, had, best', "self"), q, had, best')
      BY <1>2, <2>2 DEF live
    <3>q. QED BY <1>4, <3>1, <3>2, DirectHealthy, SMTT(40)
  <2>3. CASE q \notin live /\ q # p
    BY <1>2, <2>3 DEF IInv, Healthy
  <2>q. QED BY <2>1, <2>2, <2>3, SMTT(40)
<1>6. DOMAIN out' = Watched
  BY <1>2, SMTT(40)
<1>7. Sources'
  BY <1>1, SMTT(40) DEF IInv, Sources
<1>q. QED BY <1>1, <1>4, <1>5, <1>6, <1>7, Zenon DEF IInv

LEMMA GrExpiresKeeps == ASSUME IInv, NEW p, GrExpires(p) PROVE IInv'
<1> DEFINE mine == {n \in Nlris : best[n] # None /\ best[n].src = p}
           had  == Routed(best)
           D(q) == DirectV6(DirectV4(out[q], q, had, best', "self"), q, had, best')
<1>1. holding' = holding \ {p} /\ UNCHANGED <<up, accept>>
  BY DEF GrExpires
<1>2. PICK c \in Outcomes(mine, up \cup holding') :
        /\ best' = Updated(best, c)
        /\ out' = [q \in Watched |->
                     IF q = p THEN [TakeStalled(out[p]) EXCEPT !.adj = Fresh.adj]
                     ELSE TakeStalled(IF q \in up THEN D(q) ELSE out[q])]
  BY Zenon DEF GrExpires, Routed
<1>3. up \cup holding' \in SUBSET Peers /\ p \notin up
  BY <1>1 DEF IInv, Sources, GrExpires
<1>4. IsTable(best') /\ \A n \in Nlris \ mine : best'[n] = best[n]
  BY <1>2, <1>3, UpdatedIsTable DEF IInv
<1> HIDE DEF D
<1>5. ASSUME NEW q \in Watched PROVE Healthy(q, best', accept[q], up, out'[q])
  <2>1. CASE q = p
    <3> DEFINE t == TakeStalled(out[p])
               o2 == [t EXCEPT !.adj = Fresh.adj]
    <3>1. IsOut(t)
      BY <2>1, TakeStalledKeeps DEF IInv, Healthy, Keeps
    <3>2. out'[q] = o2
      BY <1>2, <2>1
    <3> HIDE DEF t
    <3>3. IsOut(o2) /\ \A n \in Nlris : o2.adj[n] = None
      BY <3>1 DEF IsOut, OutFields, Fresh
    <3> HIDE DEF o2
    <3>q. QED BY <1>3, <2>1, <3>2, <3>3 DEF Healthy, Proper
  <2>2. CASE q \in up
    <3>1. \A n \in Nlris \ had : Follows(q, n, best', accept[q], up, out[q])
      BY <1>4, <2>2, StaysFollowing DEF Routed
    <3> HIDE DEF had, mine
    <3>2. out'[q] = TakeStalled(D(q))
      BY <1>2, <1>3, <2>2
    <3>3. Healthy(q, best', accept[q], up, D(q))
      BY <1>4, <3>1, DirectHealthy DEF D
    <3>q. QED BY <3>2, <3>3, FlushHealthy
  <2>3. CASE q \notin up /\ q # p
    <3>1. out'[q] = TakeStalled(out[q])
      BY <1>2, <2>3
    <3>2. Healthy(q, best', accept[q], up, out[q])
      BY <2>3, DownHealthy DEF IInv
    <3>q. QED BY <3>1, <3>2, FlushHealthy
  <2>q. QED BY <2>1, <2>2, <2>3
<1>6. DOMAIN out' = Watched
  BY <1>2
<1>7. Sources'
  BY <1>1 DEF IInv, Sources
<1>q. QED BY <1>1, <1>4, <1>5, <1>6, <1>7, SMTT(40) DEF IInv

\* What set_export_default does to the peer it names.
LEMMA ReexportTells ==
  ASSUME NEW p, NEW o, IsOut(o), NEW b, NEW v, NEW had \in SUBSET Nlris, NEW e,
         e = [n \in had |-> Entry(p, n, b, v, IF n \in V4 THEN "id" ELSE "self")],
         NEW o4, o4 = FlushUpdates(p, "v4", Put(o, Restrict(e, had \cap V4)),
                                   Decisions(o, Restrict(e, had \cap V4))),
         NEW o6, o6 = IF p \in V6Peers
                      THEN FlushUpdates(p, "v6", Put(o4, Restrict(e, had \cap V6)),
                                        Decisions(o4, Restrict(e, had \cap V6)))
                      ELSE o4
  PROVE  Tells(p, o, o6, Spoken(p, had), b, v)
<1> DEFINE e4 == Restrict(e, had \cap V4)
           e6 == Restrict(e, had \cap V6)
<1>1. e4 = [n \in had \cap V4 |-> Entry(p, n, b, v, "id")]
  BY DEF Restrict
<1>2. e6 = [n \in had \cap V6 |-> Entry(p, n, b, v, "self")]
  BY OutboundAssumption DEF Restrict
<1> HIDE DEF e4, e6
<1>3. Tells(p, o, Put(o, e4), had \cap V4, b, v)
  BY <1>1, PutTells
<1>4. Tells(p, o, o4, had \cap V4, b, v)
  BY <1>3, TellsThenSends DEF e4
<1>5. CASE p \in V6Peers
  <2>1. Tells(p, o4, Put(o4, e6), had \cap V6, b, v)
    BY <1>2, <1>4, TellsIsOut, PutTells
  <2>2. Tells(p, o4, o6, had \cap V6, b, v)
    BY <1>5, <2>1, TellsThenSends DEF e6
  <2>3. Spoken(p, had) = (had \cap V4) \cup (had \cap V6)
    BY <1>5 DEF Spoken
  <2>q. QED BY <1>4, <2>2, <2>3, TellsTwice
<1>6. CASE p \notin V6Peers
  BY <1>4, <1>6 DEF Spoken
<1>q. QED BY <1>5, <1>6

LEMMA SetExportDefaultKeeps ==
  ASSUME IInv, NEW p, NEW v \in BOOLEAN, SetExportDefault(p, v) PROVE IInv'
<1> DEFINE had == Routed(best)
           e   == [n \in had |-> Entry(p, n, best, v, IF n \in V4 THEN "id" ELSE "self")]
           o4  == FlushUpdates(p, "v4", Put(out[p], Restrict(e, had \cap V4)),
                               Decisions(out[p], Restrict(e, had \cap V4)))
           o6  == IF p \in V6Peers
                  THEN FlushUpdates(p, "v6", Put(o4, Restrict(e, had \cap V6)),
                                    Decisions(o4, Restrict(e, had \cap V6)))
                  ELSE o4
<1>1. /\ p \in Watched /\ accept' = [accept EXCEPT ![p] = v]
      /\ UNCHANGED <<best, up, holding>>
  BY SMTT(40) DEF SetExportDefault
<1>2. out' = IF p \in up THEN [out EXCEPT ![p] = o6] ELSE out
  BY ZenonT(40) DEF SetExportDefault, Routed
<1>3. /\ accept' \in [Peers -> BOOLEAN] /\ accept'[p] = v
      /\ \A q \in Watched \ {p} : accept'[q] = accept[q]
  BY <1>1, OutboundAssumption, ZenonT(40) DEF IInv
<1>4. Tells(p, out[p], o6, Spoken(p, had), best, v)
  <2>1. IsOut(out[p]) /\ had \in SUBSET Nlris
    BY <1>1, ZenonT(40) DEF IInv, Healthy, Routed
  <2> HIDE DEF had
  <2>q. QED BY <2>1, ReexportTells, ZenonT(40)
<1> HIDE DEF o6
<1>5. ASSUME NEW q \in Watched PROVE Healthy(q, best, accept'[q], up, out'[q])
  <2>1. CASE q # p
    BY <1>2, <1>3, <2>1 DEF IInv
  <2>2. CASE q = p /\ p \notin up
    BY <1>2, <2>2, DownHealthy, SMTT(40) DEF IInv
  <2>3. CASE q = p /\ p \in up
    <3>1. Healthy(p, best, accept[p], up, out[p]) /\ IsTable(best)
      BY <1>1 DEF IInv
    <3>2. ASSUME NEW n \in Nlris \ Spoken(p, had) PROVE Follows(p, n, best, v, up, out[p])
      <4>1. CASE n \in had
        BY <3>2, <4>1, SMTT(40), ZenonT(40) DEF Spoken, Follows, Nlris
      <4>2. CASE n \notin had
        BY <2>3, <3>1, <3>2, <4>2, FollowsNothing, SMTT(40) DEF Healthy, Routed
      <4>q. QED BY <4>1, <4>2, SMTT(40)
    <3>3. Healthy(p, best, v, up, o6)
      BY <1>1, <1>4, <3>1, <3>2, TellsHealthy, SMTT(40)
    <3>4. out'[p] = o6
      BY <1>1, <1>2, <2>3 DEF IInv
    <3>q. QED BY <1>3, <2>3, <3>3, <3>4, SMTT(40), ZenonT(40)
  <2>q. QED BY <2>1, <2>2, <2>3
<1>6. DOMAIN out' = Watched
  BY <1>2 DEF IInv
<1>q. QED BY <1>1, <1>3, <1>5, <1>6, SMTT(40), ZenonT(40) DEF IInv, Sources, IsTable

-----------------------------------------------------------------------------
(* The theorems.                                                           *)

LEMMA InitIsHealthy == Init => IInv
<1> SUFFICES ASSUME Init PROVE IInv
  OBVIOUS
<1>1. IsTable(best) /\ Sources /\ accept \in [Peers -> BOOLEAN] /\ DOMAIN out = Watched
  BY DEF Init, IsTable, Sources
<1>2. \A p \in Watched : Healthy(p, best, accept[p], up, out[p])
  BY FreshHealthy, Zenon DEF Init
<1>q. QED BY <1>1, <1>2 DEF IInv

LEMMA StepKeeps == IInv /\ [Next]_vars => IInv'
<1> SUFFICES ASSUME IInv, [Next]_vars PROVE IInv'
  OBVIOUS
<1>1. CASE UNCHANGED vars
  BY <1>1 DEF vars, IInv, Sources, IsTable
<1>2. ASSUME NEW p \in Peers,
             \/ Established(p) \/ SessionEnds(p) \/ TerminatedClean(p) \/ TerminatedHeld(p)
             \/ BadUpdate(p) \/ GrExpires(p) \/ Deliver(p)
      PROVE  IInv'
  BY <1>2, EstablishedKeeps, SessionEndsKeeps, TerminatedCleanKeeps, TerminatedHeldKeeps,
     BadUpdateKeeps, GrExpiresKeeps, DeliverKeeps, SMTT(40)
<1>3. ASSUME NEW p \in Peers, NEW v \in BOOLEAN, SetExportDefault(p, v) PROVE IInv'
  BY <1>3, SetExportDefaultKeeps
<1>4. ASSUME NEW p \in Peers, NEW n \in V4, MraiElapses(p, n) PROVE IInv'
  BY <1>4, MraiElapsesKeeps
<1>5. ASSUME NEW p \in Peers, NEW ns \in OneFamily, EorPrune(p, ns) PROVE IInv'
  BY <1>5, EorPruneKeeps
<1>6. ASSUME NEW ns, \/ RouteUpdate(ns) \/ FibChange(ns) \/ Originate(ns)
                     \/ WithdrawOriginated(ns) \/ ReevaluateImport(ns)
      PROVE  IInv'
  BY <1>6, DecisionsAreRedecisions, RedecisionKeeps
<1>7. CASE Flush
  BY <1>7, FlushKeeps
<1>8. CASE MraiTick
  BY <1>8, MraiTickKeeps
<1>q. QED BY <1>1, <1>2, <1>3, <1>4, <1>5, <1>6, <1>7, <1>8 DEF Next

\* IInv is inductive.
THEOREM Invariance == Spec => []IInv
BY InitIsHealthy, StepKeeps, PTL DEF Spec

\* The Adj-RIB-Out of every established peer is the export of the best
\* routes, whichever of the handlers that change a best route, an export
\* default or a session ran last.
THEOREM AdjRibOutFollows == Spec => []Tracks
<1>1. IInv => Tracks
  BY SMTT(40), ZenonT(40) DEF IInv, Healthy, Follows, Tracks
<1>q. QED BY <1>1, Invariance, PTL

\* No Adj-RIB-Out holds a route of the peer itself, of an internal peer past
\* split horizon, past NO_ADVERTISE, NO_EXPORT or NO_EXPORT_SUBCONFED, or up
\* from a provider, lateral peer or route server: import marking and export
\* rejection make every path through the daemon valley-free.
THEOREM NothingLeaks == Spec => []NoLeak
<1>1. IInv => NoLeak
  BY DEF IInv, Healthy, Proper, NoLeak
<1>q. QED BY <1>1, Invariance, PTL
=============================================================================
