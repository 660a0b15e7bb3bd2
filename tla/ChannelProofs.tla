--------------------------- MODULE ChannelProofs ----------------------------
(***************************************************************************)
(* Proofs about the channels of Outbound, handler by handler: the types,   *)
(* that a neighbour believes what its Adj-RIB-Out records, and that        *)
(* whatever it is told it can take from us, for any peers, prefixes,       *)
(* announcements and bounds. BatchProofs has what one peer is sent.        *)
(***************************************************************************)
EXTENDS BatchProofs

-----------------------------------------------------------------------------
(* The invariant.                                                          *)

\* One peer's record, when its session is lk and bu events were handled since
\* the last flush.
Fine(p, o, lk, bu) ==
  /\ Shape(p, o)
  /\ Agree(p, o, {})
  /\ o.mark = "closed" <=> lk # "up"
  /\ o.mark = "closed" => o.view = Fresh.view
  /\ bu = 0 => o.pending = Fresh.pending

\* The sessions as the peers and as the daemon have them.
Linking == link \in [Peers -> {"down", "up", "ended"}] /\ up = {p \in Peers : link[p] # "down"}

CInv ==
  /\ best \in Outcomes(Nlris, Peers)
  /\ Linking
  /\ burst \in 0..MaxBurst
  /\ \A p \in Watched : Fine(p, out[p], link[p], burst)

LEMMA UpdatedIsOutcome ==
  ASSUME NEW b \in Outcomes(Nlris, Peers), NEW ns, NEW S \in SUBSET Peers, NEW c \in Outcomes(ns, S)
  PROVE  Updated(b, c) \in Outcomes(Nlris, Peers)
<1> DEFINE u == Updated(b, c)
           may == [n \in Nlris |-> {None} \cup RoutesOf(Peers, n)]
<1>1. DOMAIN c = ns /\ \A n \in ns : c[n] \in {None} \cup RoutesOf(S, n)
  BY DEF Outcomes
<1>2. \A n : RoutesOf(S, n) \subseteq RoutesOf(Peers, n)
  BY DEF RoutesOf
<1>3. DOMAIN b = Nlris /\ \A n \in Nlris : b[n] \in {None} \cup RoutesOf(Peers, n)
  BY DEF Outcomes
<1>4. u = [n \in Nlris |-> IF n \in ns THEN c[n] ELSE b[n]]
  BY <1>1, <1>3, SMTT(40) DEF Updated
<1>5. \A n \in Nlris : u[n] \in {None} \cup RoutesOf(Peers, n)
  BY <1>1, <1>2, <1>3, <1>4, SMTT(40)
<1>6. \A n \in Nlris : u[n] \in may[n]
  BY <1>5
<1>7. u \in [Nlris -> UNION {may[n] : n \in Nlris}]
  <2> HIDE DEF may
  <2>q. QED BY <1>4, <1>6
<1> HIDE DEF u
<1>q. QED BY <1>6, <1>7 DEF Outcomes, u

\* What the lemmas above give, put together.
LEMMA MovesFine ==
  ASSUME NEW p, NEW o, NEW lk, NEW bu, Fine(p, o, lk, bu), NEW o2, Shape(p, o2), Linked(o, o2),
         Agree(p, o2, {}), NEW bu2, bu2 = 0 => o2.pending = Fresh.pending
  PROVE  Fine(p, o2, lk, bu2)
BY DEF Fine, Linked

LEMMA FreshFine ==
  ASSUME NEW p, NEW lk, lk # "up", NEW bu, NEW o, IsOut(o), o.window = {}, o.held = {},
         o.pending = Fresh.pending, o.queued = 0, o.mark = "closed", o.view = Fresh.view
  PROVE  Fine(p, o, lk, bu)
<1>1. \A n \in Nlris : o.view[n] = None
  BY DEF Fresh
<1>2. DOMAIN o.pending = Family /\ \A f \in Family : o.pending[f] \in Seq(Decision(p, f))
  BY FreshPending, EmptySeq, ZenonT(40)
<1>3. \A n \in Nlris : Fits(p, o.view[n])
  BY <1>1 DEF Fits
<1>4. 0 \in 0..Capacity
  BY OutboundAssumption
<1>5. Shape(p, o)
  BY <1>2, <1>3, <1>4 DEF Shape, Marks
<1>6. Agree(p, o, {})
  BY DEF Agree
<1>q. QED BY <1>5, <1>6, SMTT(40) DEF Fine

LEMMA PropagateFine ==
  ASSUME IInv, NEW p \in Watched, NEW o, Shape(p, o), Agree(p, o, {}), NEW ns,
         NEW b \in Outcomes(Nlris, Peers), NEW o2, o2 = Propagate(o, p, ns, b, up)
  PROVE  Shape(p, o2) /\ Linked(o, o2) /\ Agree(p, o2, {})
<1>1. p \in Peers /\ accept \in [Peers -> BOOLEAN]
  BY OutboundAssumption, SMTT(40) DEF IInv
<1>2. StillOpen({}, o, o2) = {}
  BY SMTT(40) DEF StillOpen
<1>3. Shape(p, o2) /\ Linked(o, o2) /\ Agree(p, o2, StillOpen({}, o, o2))
  BY <1>1, PropagateAgrees, ZenonT(40)
<1>q. QED BY <1>2, <1>3, SMTT(40)

LEMMA FlushFine ==
  ASSUME NEW p \in Watched, NEW o, Shape(p, o), NEW X, Agree(p, o, X), NEW o1, o1 = FlushPending(p, o),
         NEW o2 \in {o1, TakeStalled(o1)}
  PROVE  /\ Shape(p, o2) /\ Linked(o, o2) /\ Agree(p, o2, X)
         /\ o2.adj = o.adj /\ o2.pending = Fresh.pending
<1>1. p \in Peers
  BY OutboundAssumption
<1>2. /\ Shape(p, o1) /\ Linked(o, o1) /\ Agree(p, o1, X)
      /\ o1.adj = o.adj /\ o1.pending = Fresh.pending
  BY <1>1, FlushPendingAgrees
<1>3. CASE o2 = o1
  BY <1>2, <1>3, SMTT(40)
<1>4. CASE o2 = TakeStalled(o1)
  <2>1. /\ Shape(p, o2) /\ Linked(o1, o2) /\ Agree(p, o2, X)
        /\ o2.adj = o1.adj /\ o2.pending = o1.pending
    BY <1>2, <1>4, TakeStalledAgrees
  <2>q. QED BY <1>2, <2>1, LinkedTwice
<1>q. QED BY <1>3, <1>4

LEMMA DrainedBurst ==
  ASSUME burst \in 0..MaxBurst, Drained
  PROVE  burst' \in 0..MaxBurst /\ burst' # 0
BY OutboundAssumption DEF Drained

-----------------------------------------------------------------------------
(* One lemma per action.                                                   *)

LEMMA RouteUpdateFine == ASSUME IInv, CInv, NEW ns, RouteUpdate(ns) PROVE CInv'
<1>1. PICK c \in Outcomes(ns, up \cup holding) :
        /\ best' = Updated(best, c)
        /\ out' = [q \in Watched |-> Propagate(out[q], q, ns, best', up)]
  BY DEF RouteUpdate
<1>2. best' \in Outcomes(Nlris, Peers)
  BY <1>1, UpdatedIsOutcome, ZenonT(40) DEF IInv, Sources, CInv
<1>3. burst' \in 0..MaxBurst /\ burst' # 0 /\ UNCHANGED <<link, up>>
  BY DrainedBurst DEF RouteUpdate, CInv
<1>4. ASSUME NEW q \in Watched PROVE Fine(q, out'[q], link[q], burst')
  <2>1. Fine(q, out[q], link[q], burst)
    BY DEF CInv
  <2>2. out'[q] = Propagate(out[q], q, ns, best', up)
    BY <1>1, SMTT(40)
  <2>3. Shape(q, out'[q]) /\ Linked(out[q], out'[q]) /\ Agree(q, out'[q], {})
    BY <1>2, <2>1, <2>2, PropagateFine, SMTT(40), ZenonT(40) DEF Fine
  <2>q. QED BY <1>3, <2>1, <2>3, MovesFine
<1>q. QED BY <1>2, <1>3, <1>4 DEF CInv, Linking

\* FibChange, Originate, WithdrawOriginated, ReevaluateImport.
LEMMA RedecidedFine ==
  ASSUME IInv, CInv, NEW ns,
         FibChange(ns) \/ Originate(ns) \/ WithdrawOriginated(ns) \/ ReevaluateImport(ns)
  PROVE  CInv'
<1>1. up \cup holding \in SUBSET Peers /\ {} \in SUBSET Peers
  BY SMTT(40) DEF IInv, Sources
<1>2. PICK S \in SUBSET Peers : \E c \in Outcomes(ns, S) : best' = Updated(best, c)
  BY <1>1, SMTT(40) DEF FibChange, Originate, WithdrawOriginated, ReevaluateImport
<1>3. best' \in Outcomes(Nlris, Peers)
  BY <1>2, UpdatedIsOutcome, SMTT(40), ZenonT(40) DEF CInv
<1>4. burst' = burst /\ UNCHANGED <<link, up>>
  BY DEF FibChange, Originate, WithdrawOriginated, ReevaluateImport
<1>5. \/ out' = [q \in Watched |-> Redecided(ns, q, best')]
      \/ out' = [q \in Watched |-> TakeStalled(Redecided(ns, q, best'))]
  BY DEF FibChange, Originate, WithdrawOriginated, ReevaluateImport
<1>6. ASSUME NEW q \in Watched PROVE Fine(q, out'[q], link[q], burst)
  <2> DEFINE o == Propagate(out[q], q, ns, best', up)
             o1 == FlushPending(q, o)
  <2>1. Fine(q, out[q], link[q], burst)
    BY DEF CInv
  <2>2. out'[q] \in {o1, TakeStalled(o1)}
    BY <1>5, SMTT(40) DEF Redecided
  <2>3. Shape(q, o) /\ Linked(out[q], o) /\ Agree(q, o, {})
    BY <1>3, <2>1, PropagateFine, SMTT(40), ZenonT(40) DEF Fine
  <2> HIDE DEF o
  <2>4. /\ Shape(q, out'[q]) /\ Linked(o, out'[q]) /\ Agree(q, out'[q], {})
        /\ out'[q].pending = Fresh.pending
    BY <2>2, <2>3, FlushFine, SMTT(40), ZenonT(40)
  <2>5. Linked(out[q], out'[q])
    BY <2>3, <2>4, LinkedTwice, SMTT(40)
  <2>q. QED BY <2>1, <2>4, <2>5, MovesFine
<1>q. QED BY <1>3, <1>4, <1>6, SMTT(40), ZenonT(40) DEF CInv, Linking

LEMMA FlushStepFine == ASSUME IInv, CInv, Flush PROVE CInv'
<1>1. burst' = 0 /\ UNCHANGED <<best, link, up>>
  BY DEF Flush
<1>2. burst' \in 0..MaxBurst
  BY <1>1, OutboundAssumption, SMTT(40)
<1>3. ASSUME NEW q \in Watched PROVE Fine(q, out'[q], link[q], burst')
  <2> DEFINE o1 == FlushPending(q, out[q])
  <2>1. Fine(q, out[q], link[q], burst)
    BY DEF CInv
  <2>2. out'[q] = TakeStalled(o1)
    BY SMTT(40) DEF Flush
  <2>3. /\ Shape(q, out'[q]) /\ Linked(out[q], out'[q]) /\ Agree(q, out'[q], {})
        /\ out'[q].pending = Fresh.pending
    BY <2>1, <2>2, FlushFine, SMTT(40) DEF Fine
  <2>q. QED BY <2>1, <2>3, MovesFine, SMTT(40)
<1>q. QED BY <1>1, <1>2, <1>3 DEF CInv, Linking

LEMMA BadUpdateFine == ASSUME IInv, CInv, NEW p, BadUpdate(p) PROVE CInv'
<1>1. burst' = 0 /\ UNCHANGED <<best, link, up>>
  BY DEF BadUpdate
<1>2. burst' \in 0..MaxBurst
  BY <1>1, OutboundAssumption, SMTT(40)
<1>3. ASSUME NEW q \in Watched PROVE Fine(q, out'[q], link[q], burst')
  <2> DEFINE o1 == FlushPending(q, out[q])
             o  == TakeStalled(o1)
             o2 == [o EXCEPT !.mark = "stopping"]
  <2>1. Fine(q, out[q], link[q], burst)
    BY DEF CInv
  <2>2. out'[q] = IF q = p /\ o.mark # "closed" THEN o2 ELSE o
    BY SMTT(40) DEF BadUpdate
  <2>3. /\ Shape(q, o) /\ Linked(out[q], o) /\ Agree(q, o, {})
        /\ o.pending = Fresh.pending
    BY <2>1, FlushFine, SMTT(40) DEF Fine
  <2> HIDE DEF o
  <2>4. CASE q = p /\ o.mark # "closed"
    <3>1. /\ DOMAIN o2 = OutFields
          /\ o2.adj = o.adj /\ o2.mark = "stopping" /\ o2.queued = o.queued /\ o2.view = o.view
          /\ o2.skew = o.skew /\ o2.held = o.held /\ o2.window = o.window
          /\ o2.pending = o.pending
      BY <2>3, SMTT(40), ZenonT(40) DEF Shape, IsOut, OutFields
    <3> HIDE DEF o2
    <3>2. Shape(q, o2) /\ Agree(q, o2, {}) /\ Linked(o, o2)
      BY <2>3, <2>4, <3>1, SMTT(40), ZenonT(40) DEF Shape, IsOut, Agree, Marks, Linked
    <3>3. Linked(out[q], o2)
      BY <2>3, <3>2, LinkedTwice, SMTT(40), ZenonT(40)
    <3>4. Fine(q, o2, link[q], burst')
      BY <2>1, <2>3, <3>1, <3>2, <3>3, MovesFine, SMTT(40), ZenonT(40)
    <3>q. QED BY <2>2, <2>4, <3>4
  <2>5. CASE ~(q = p /\ o.mark # "closed")
    <3>1. Fine(q, o, link[q], burst')
      BY <2>1, <2>3, MovesFine
    <3>q. QED BY <2>2, <2>5, <3>1, SMTT(40), ZenonT(40)
  <2>q. QED BY <2>4, <2>5
<1>q. QED BY <1>1, <1>2, <1>3 DEF CInv, Linking

\* A step of one peer's channel or timer.
LEMMA OneFine ==
  ASSUME IInv, CInv, UNCHANGED <<best, link, up, burst>>, NEW p \in Watched, NEW o,
         out' = [out EXCEPT ![p] = o], Fine(p, o, link[p], burst)
  PROVE  CInv'
<1>1. \A q \in Watched : out'[q] = IF q = p THEN o ELSE out[q]
  BY DEF IInv
<1>2. \A q \in Watched : Fine(q, out'[q], link[q], burst)
  BY <1>1 DEF CInv
<1>q. QED BY <1>2 DEF CInv, Linking

LEMMA DeliverFine == ASSUME IInv, CInv, NEW p, Deliver(p) PROVE CInv'
<1> DEFINE u == out[p]
           k == u.queued - 1
           o == [u EXCEPT !.queued = k]
<1>1. p \in Watched /\ u.queued > 0 /\ UNCHANGED <<best, link, up, burst>> /\ out' = [out EXCEPT ![p] = o]
  BY DEF Deliver
<1>2. Fine(p, u, link[p], burst)
  BY <1>1 DEF CInv
<1>3. k \in 0..Capacity
  BY <1>1, <1>2, OutboundAssumption DEF Fine, Shape
<1> HIDE DEF u, k
<1>4. /\ DOMAIN o = OutFields
      /\ o.adj = u.adj /\ o.mark = u.mark /\ o.queued = k /\ o.view = u.view
      /\ o.skew = u.skew /\ o.held = u.held /\ o.window = u.window
      /\ o.pending = u.pending
  BY <1>2, SMTT(40), ZenonT(40) DEF Fine, Shape, IsOut, OutFields
<1> HIDE DEF o
<1>5. Shape(p, o) /\ Linked(u, o) /\ Agree(p, o, {})
  BY <1>2, <1>3, <1>4, SMTT(40) DEF Fine, Shape, IsOut, Linked, Agree, Buffered
<1>6. Fine(p, o, link[p], burst)
  BY <1>2, <1>4, <1>5, MovesFine, Zenon DEF Fine
<1>q. QED BY <1>1, <1>6, OneFine, Zenon

LEMMA MraiElapsesFine == ASSUME IInv, CInv, NEW p, NEW n, MraiElapses(p, n) PROVE CInv'
<1> DEFINE u == out[p]
           w == u.window \ {n}
           o == [u EXCEPT !.window = w]
<1>1. p \in Watched /\ UNCHANGED <<best, link, up, burst>> /\ out' = [out EXCEPT ![p] = o]
  BY DEF MraiElapses
<1>2. Fine(p, u, link[p], burst)
  BY <1>1 DEF CInv
<1>3. w \subseteq V4
  BY <1>2 DEF Fine, Shape
<1> HIDE DEF u, w
<1>4. /\ DOMAIN o = OutFields
      /\ o.adj = u.adj /\ o.mark = u.mark /\ o.queued = u.queued /\ o.view = u.view
      /\ o.skew = u.skew /\ o.held = u.held /\ o.window = w
      /\ o.pending = u.pending
  BY <1>2, SMTT(40) DEF Fine, Shape, IsOut, OutFields
<1> HIDE DEF o
<1>5. Shape(p, o) /\ Linked(u, o) /\ Agree(p, o, {})
  BY <1>2, <1>3, <1>4, ZenonT(40) DEF Fine, Shape, IsOut, Linked, Agree, Buffered
<1>6. Fine(p, o, link[p], burst)
  BY <1>2, <1>4, <1>5, MovesFine DEF Fine
<1>q. QED BY <1>1, <1>6, OneFine, Zenon

LEMMA SessionEndsFine == ASSUME IInv, CInv, NEW p, SessionEnds(p) PROVE CInv'
<1> DEFINE u == out[p]
           v == Fresh.view
           o == [u EXCEPT !.queued = 0, !.view = v, !.skew = {}, !.mark = "closed"]
<1>1. /\ p \in Watched /\ p \in Peers /\ UNCHANGED <<best, up, burst>>
      /\ link[p] = "up" /\ link' = [link EXCEPT ![p] = "ended"]
  BY OutboundAssumption DEF SessionEnds
<1>2. Fine(p, u, link[p], burst)
  BY <1>1 DEF CInv
<1>3. out' = [out EXCEPT ![p] = o]
  BY <1>1, Zenon DEF SessionEnds, IInv
<1>4. \A n \in Nlris : Fits(p, v[n])
  BY DEF Fresh, Fits
<1> HIDE DEF u, v
<1>5. /\ DOMAIN o = OutFields
      /\ o.adj = u.adj /\ o.mark = "closed" /\ o.queued = 0 /\ o.view = v
      /\ o.held = u.held /\ o.window = u.window /\ o.pending = u.pending
  BY <1>2 DEF Fine, Shape, IsOut, OutFields
<1> HIDE DEF o
<1>6. 0 \in 0..Capacity
  BY OutboundAssumption, SMTT(40)
<1>7. Shape(p, o) /\ Agree(p, o, {})
  BY <1>2, <1>4, <1>5, <1>6, ZenonT(40) DEF Fine, Shape, IsOut, Agree, Marks
<1>8. Fine(p, o, "ended", burst)
  BY <1>2, <1>5, <1>7, ZenonT(40) DEF Fine, v
<1>9. \A q \in Watched : /\ out'[q] = IF q = p THEN o ELSE out[q]
                         /\ link'[q] = IF q = p THEN "ended" ELSE link[q]
  BY <1>1, <1>3, OutboundAssumption, ZenonT(40) DEF IInv, CInv, Linking
<1>10. \A q \in Watched : Fine(q, out'[q], link'[q], burst)
  BY <1>8, <1>9 DEF CInv
<1>11. Linking'
  BY <1>1 DEF CInv, Linking
<1>q. QED BY <1>1, <1>10, <1>11, SMTT(40) DEF CInv

LEMMA MraiTickFine == ASSUME IInv, CInv, MraiTick PROVE CInv'
<1> DEFINE ready == UNION {Ready(out[p]) : p \in Watched}
           H(p)  == [out[p] EXCEPT !.held = @ \ Ready(out[p])]
           P(p)  == Propagate(H(p), p, ready, best, up)
           F(p)  == TakeStalled(FlushPending(p, P(p)))
           X(p)  == {n \in Ready(out[p]) : P(p).adj[n] = out[p].adj[n]}
<1>1. UNCHANGED <<best, link, up, burst>>
  BY DEF MraiTick
<1>2. out' = [p \in Watched |-> [F(p) EXCEPT !.skew = @ \cup X(p)]]
  BY DEF MraiTick
<1> HIDE DEF ready
<1>3. ASSUME NEW p \in Watched PROVE Fine(p, out'[p], link[p], burst)
  <2> DEFINE u == out[p]
             r == Ready(u)
             t == u.held \ r
             h == [u EXCEPT !.held = t]
             w == Propagate(h, p, ready, best, up)
             g == FlushPending(p, w)
             f == TakeStalled(g)
             x == StillOpen(r, h, w)
             k == f.skew \cup x
             o == [f EXCEPT !.skew = k]
  <2>1. Fine(p, u, link[p], burst)
    BY DEF CInv
  <2>2. h.adj = u.adj
    <3> HIDE DEF u, t
    <3>q. QED BY <2>1 DEF Fine, Shape, IsOut, OutFields
  <2>3. out'[p] = o
    BY <1>2, <2>2, SMTT(40), ZenonT(40) DEF StillOpen
  <2>4. t \subseteq V4
    BY <2>1 DEF Fine, Shape
  <2>5. /\ DOMAIN h = OutFields
        /\ h.mark = u.mark /\ h.queued = u.queued /\ h.view = u.view
        /\ h.skew = u.skew /\ h.held = t /\ h.window = u.window
        /\ h.pending = u.pending
    <3> HIDE DEF u, t
    <3>q. QED BY <2>1, SMTT(40) DEF Fine, Shape, IsOut, OutFields
  <2> HIDE DEF u, r, h
  <2>6. Shape(p, h) /\ Linked(u, h)
    BY <2>1, <2>2, <2>4, <2>5, ZenonT(40) DEF Fine, Shape, IsOut, Linked
  <2>7. Agree(p, h, r)
    BY <2>1, <2>2, <2>5, SMTT(40), ZenonT(40) DEF Fine, Agree, Buffered
  <2>8. p \in Peers /\ accept \in [Peers -> BOOLEAN] /\ best \in Outcomes(Nlris, Peers)
    BY OutboundAssumption, SMTT(40) DEF IInv, CInv
  <2>9. Shape(p, w) /\ Linked(h, w) /\ Agree(p, w, x)
    BY <2>6, <2>7, <2>8, PropagateAgrees, ZenonT(40)
  <2> HIDE DEF w, x
  <2>10. /\ Shape(p, f) /\ Linked(w, f) /\ Agree(p, f, x)
         /\ f.pending = Fresh.pending
    BY <2>9, FlushFine, SMTT(40), ZenonT(40)
  <2>11. Linked(u, f)
    BY <2>6, <2>9, <2>10, LinkedTwice
  <2> HIDE DEF f, k
  <2>12. /\ DOMAIN o = OutFields
         /\ o.adj = f.adj /\ o.mark = f.mark /\ o.queued = f.queued /\ o.view = f.view
         /\ o.skew = k /\ o.held = f.held /\ o.window = f.window
         /\ o.pending = f.pending
    BY <2>10 DEF Shape, IsOut, OutFields
  <2> HIDE DEF o
  <2>13. Shape(p, o) /\ Linked(u, o)
    BY <2>10, <2>11, <2>12, ZenonT(40) DEF Shape, IsOut, Linked
  <2>14. Agree(p, o, {})
    BY <2>10, <2>12, ZenonT(40) DEF Agree, Buffered, k
  <2>15. Fine(p, o, link[p], burst)
    BY <2>1, <2>10, <2>12, <2>13, <2>14, MovesFine, SMTT(40), ZenonT(40)
  <2>q. QED BY <2>3, <2>15
<1>q. QED BY <1>1, <1>3 DEF CInv, Linking

LEMMA EstablishedFine == ASSUME IInv, CInv, NEW p \in Peers, Established(p) PROVE CInv'
<1> DEFINE live == up \cup {p}
           u  == out[p]
           z  == Fresh.adj
           o  == [u EXCEPT !.adj = z, !.mark = "ok"]
           o1 == DumpV4(o, p, best, live)
           o2 == DumpV6(o1, p, best, live)
<1>1. /\ UNCHANGED best /\ up' = live
      /\ link[p] = "down" /\ link' = [link EXCEPT ![p] = "up"]
  BY ZenonT(40) DEF Established
<1>2. burst' \in 0..MaxBurst /\ burst' # 0
  BY DrainedBurst, ZenonT(40) DEF Established, CInv
<1>3. \A q \in Watched : /\ out'[q] = IF q = p THEN o2 ELSE out[q]
                         /\ link'[q] = IF q = p THEN "up" ELSE link[q]
  BY <1>1, OutboundAssumption, Zenon DEF Established, CInv, Linking
<1>4. Linking'
  BY <1>1 DEF CInv, Linking
<1> HIDE DEF live
<1>5. ASSUME p \in Watched PROVE Fine(p, o2, "up", burst')
  <2>1. Fine(p, u, "down", burst)
    BY <1>1, <1>5 DEF CInv
  <2>2. u.mark = "closed" /\ u.view = Fresh.view
    BY <2>1, ZenonT(40) DEF Fine
  <2>3. DOMAIN z = Nlris /\ z = [n \in Nlris |-> z[n]] /\ \A n \in Nlris : z[n] = None /\ u.view[n] = None
    BY <2>2 DEF Fresh
  <2> HIDE DEF u, z
  <2>4. /\ DOMAIN o = OutFields
        /\ o.adj = z /\ o.mark = "ok" /\ o.queued = u.queued /\ o.view = u.view
        /\ o.skew = u.skew /\ o.held = u.held /\ o.window = u.window
        /\ o.pending = u.pending
    BY <2>1 DEF Fine, Shape, IsOut, OutFields
  <2> HIDE DEF o
  <2>5. Shape(p, o)
    BY <2>1, <2>3, <2>4, ZenonT(40) DEF Fine, Shape, IsOut, Marks
  <2>6. Agree(p, o, {})
    BY <2>3, <2>4, SMTT(40), ZenonT(40) DEF Agree, Wire
  <2>7. accept \in [Peers -> BOOLEAN] /\ best \in Outcomes(Nlris, Peers)
    BY DEF IInv, CInv
  <2>8. Shape(p, o1) /\ Linked(o, o1) /\ Agree(p, o1, {})
    BY <2>5, <2>6, <2>7, DumpV4Agrees, SMTT(40), ZenonT(40)
  <2> HIDE DEF o1
  <2>9. Shape(p, o2) /\ Linked(o1, o2) /\ Agree(p, o2, {})
    BY <2>7, <2>8, DumpV6Agrees
  <2> HIDE DEF o2
  <2>10. o2.mark # "closed"
    BY <2>4, <2>8, <2>9, ZenonT(40) DEF Linked
  <2>q. QED BY <1>2, <2>9, <2>10 DEF Fine
<1> HIDE DEF o2
<1>6. \A q \in Watched : q # p => Fine(q, out[q], link[q], burst')
  BY <1>2 DEF CInv, Fine
<1>7. \A q \in Watched : Fine(q, out'[q], link'[q], burst')
  BY <1>3, <1>5, <1>6, ZenonT(40)
<1>q. QED BY <1>1, <1>2, <1>4, <1>7, SMTT(40), ZenonT(40) DEF CInv

LEMMA FreshFields ==
  /\ DOMAIN Fresh = OutFields /\ Fresh.window = {} /\ Fresh.held = {}
  /\ Fresh.queued = 0 /\ Fresh.mark = "closed"
BY DEF Fresh, OutFields

LEMMA TerminatedLinks ==
  ASSUME CInv, NEW p \in Peers, Terminated(p), TerminatedBurst
  PROVE  /\ Linking' /\ burst' \in 0..MaxBurst /\ (burst' = 0 => burst = 0)
         /\ link' = [link EXCEPT ![p] = "down"] /\ link'[p] = "down"
         /\ \A q \in Peers \ {p} : link'[q] = link[q]
<1>1. /\ link' = [link EXCEPT ![p] = "down"] /\ up' = up \ {p}
      /\ link[p] \in {"ended", "up"}
  BY DEF Terminated
<1>2. burst' \in 0..MaxBurst /\ (burst' = 0 => burst = 0)
  BY DrainedBurst DEF TerminatedBurst, CInv
<1>3. Linking'
  BY <1>1 DEF CInv, Linking
<1>q. QED BY <1>1, <1>2, <1>3 DEF CInv, Linking

LEMMA TerminatedCleanFine == ASSUME IInv, CInv, NEW p \in Peers, TerminatedClean(p) PROVE CInv'
<1> DEFINE mine == {n \in Nlris : best[n] # None /\ best[n].src = p}
           had  == {n \in V4 : best[n] # None}
           live == up \ {p}
<1>1. up' = live /\ Terminated(p) /\ TerminatedBurst
  BY DEF TerminatedClean, Terminated
<1>2. /\ Linking' /\ burst' \in 0..MaxBurst /\ (burst' = 0 => burst = 0) /\ link'[p] = "down"
      /\ \A q \in Peers \ {p} : link'[q] = link[q]
  BY <1>1, TerminatedLinks
<1>3. PICK c \in Outcomes(mine, (live \cup holding) \ {p}) :
        /\ best' = Updated(best, c)
        /\ out' = [q \in Watched |->
                     IF q = p THEN Fresh
                     ELSE IF q \in live
                     THEN [DirectV4(out[q], q, had, best', "self") EXCEPT
                             !.owed = @ \cup (mine \cap V6)]
                     ELSE out[q]]
  BY <1>1, Zenon DEF TerminatedClean
<1>4. (live \cup holding) \ {p} \in SUBSET Peers
  BY DEF IInv, Sources
<1>5. best' \in Outcomes(Nlris, Peers)
  BY <1>3, <1>4, UpdatedIsOutcome, ZenonT(40) DEF CInv
<1>6. ASSUME NEW q \in Watched PROVE Fine(q, out'[q], link'[q], burst')
  <2>1. CASE q = p
    <3>1. out'[q] = Fresh
      BY <1>3, <2>1, SMTT(40), ZenonT(40)
    <3>2. Fine(q, Fresh, link'[q], burst')
      BY <1>2, <2>1, FreshIsOut, FreshFields, FreshFine, SMTT(40), ZenonT(40)
    <3>q. QED BY <3>1, <3>2
  <2>2. CASE q # p
    <3>1. q \in Peers /\ accept \in [Peers -> BOOLEAN]
      BY OutboundAssumption DEF IInv
    <3>2. Fine(q, out[q], link'[q], burst) /\ Shape(q, out[q]) /\ Agree(q, out[q], {})
      BY <1>2, <2>2, <3>1 DEF CInv, Fine
    <3>3. burst' = 0 => out[q].pending = Fresh.pending
      BY <1>2, <3>2 DEF Fine
    <3>4. CASE q \in live
      <4> DEFINE o == DirectV4(out[q], q, had, best', "self")
                 w == o.owed \cup (mine \cap V6)
                 o2 == [o EXCEPT !.owed = w]
      <4>1. out'[q] = o2
        BY <1>3, <2>2, <3>4, ZenonT(40)
      <4> HIDE DEF had
      <4>2. /\ Shape(q, o) /\ Linked(out[q], o) /\ Agree(q, o, {})
            /\ o.pending = out[q].pending
        BY <1>5, <3>1, <3>2, DirectV4Agrees
      <4> HIDE DEF o, w
      <4>3. /\ Shape(q, o2) /\ Linked(o, o2) /\ Agree(q, o2, {})
            /\ o2.pending = o.pending
        BY <4>2, OwedAgrees
      <4> HIDE DEF o2
      <4>4. Linked(out[q], o2)
        BY <4>2, <4>3, LinkedTwice, SMTT(40), ZenonT(40)
      <4>5. Fine(q, o2, link'[q], burst')
        BY <3>2, <3>3, <4>2, <4>3, <4>4, MovesFine
      <4>q. QED BY <4>1, <4>5
    <3>5. CASE q \notin live
      <4>1. out'[q] = out[q]
        BY <1>3, <2>2, <3>5, ZenonT(40)
      <4>2. Fine(q, out[q], link'[q], burst')
        BY <3>2, <3>3 DEF Fine
      <4>q. QED BY <4>1, <4>2
    <3>q. QED BY <3>4, <3>5
  <2>q. QED BY <2>1, <2>2
<1>q. QED BY <1>2, <1>5, <1>6 DEF CInv

LEMMA TerminatedHeldFine == ASSUME IInv, CInv, NEW p \in Peers, TerminatedHeld(p) PROVE CInv'
<1> DEFINE mine == {n \in Nlris : best[n] # None /\ best[n].src = p}
           had  == {n \in Nlris : best[n] # None}
           live == up \ {p}
<1>1. up' = live /\ holding' = holding \cup {p} /\ Terminated(p) /\ TerminatedBurst
  BY DEF TerminatedHeld, Terminated
<1>2. /\ Linking' /\ burst' \in 0..MaxBurst /\ (burst' = 0 => burst = 0) /\ link'[p] = "down"
      /\ \A q \in Peers \ {p} : link'[q] = link[q]
  BY <1>1, TerminatedLinks
<1>3. PICK c \in Outcomes(mine, live \cup (holding \cup {p})) :
        /\ best' = Updated(best, c)
        /\ out' = [q \in Watched |->
                     IF q = p THEN [Fresh EXCEPT !.adj = out[p].adj]
                     ELSE IF q \in live
                     THEN DirectV6(DirectV4(out[q], q, had, best', "self"), q, had, best')
                     ELSE out[q]]
  BY <1>1, Zenon DEF TerminatedHeld
<1>4. live \cup (holding \cup {p}) \in SUBSET Peers
  BY DEF IInv, Sources
<1>5. best' \in Outcomes(Nlris, Peers)
  BY <1>3, <1>4, UpdatedIsOutcome, ZenonT(40) DEF CInv
<1>6. ASSUME NEW q \in Watched PROVE Fine(q, out'[q], link'[q], burst')
  <2>1. CASE q = p
    <3> DEFINE a == out[p].adj
               f == Fresh
               o == [f EXCEPT !.adj = a]
    <3>1. out'[q] = o
      BY <1>3, <2>1, ZenonT(40)
    <3>2. DOMAIN a = Nlris /\ a = [n \in Nlris |-> a[n]]
      BY <2>1 DEF IInv, Healthy, IsOut
    <3>3. /\ DOMAIN f = OutFields /\ f.window = {} /\ f.held = {}
          /\ f.queued = 0 /\ f.mark = "closed"
      BY FreshFields
    <3> HIDE DEF a, f
    <3>4. /\ DOMAIN o = OutFields /\ o.adj = a /\ o.window = {} /\ o.held = {}
          /\ o.queued = 0 /\ o.mark = "closed" /\ o.pending = f.pending /\ o.view = f.view
      BY <3>3 DEF OutFields
    <3> HIDE DEF o
    <3>5. IsOut(o) /\ o.pending = Fresh.pending /\ o.view = Fresh.view
      BY <3>2, <3>4, ZenonT(40) DEF IsOut, f
    <3>6. Fine(q, o, link'[q], burst')
      BY <1>2, <2>1, <3>4, <3>5, FreshFine, SMTT(40), ZenonT(40)
    <3>q. QED BY <3>1, <3>6
  <2>2. CASE q # p
    <3>1. q \in Peers /\ accept \in [Peers -> BOOLEAN]
      BY OutboundAssumption, SMTT(40) DEF IInv
    <3>2. Fine(q, out[q], link'[q], burst) /\ Shape(q, out[q]) /\ Agree(q, out[q], {})
      BY <1>2, <2>2, <3>1, ZenonT(40) DEF CInv, Fine
    <3>3. burst' = 0 => out[q].pending = Fresh.pending
      BY <1>2, <3>2 DEF Fine
    <3>4. CASE q \in live
      <4> DEFINE o2 == DirectV6(DirectV4(out[q], q, had, best', "self"), q, had, best')
      <4>1. out'[q] = o2
        BY <1>3, <2>2, <3>4, SMTT(40)
      <4> HIDE DEF had
      <4>2. /\ Shape(q, o2) /\ Linked(out[q], o2) /\ Agree(q, o2, {})
            /\ o2.pending = out[q].pending
        <5>1. UpToDate(q, out[q], o2)
          BY <1>5, <3>1, <3>2, DirectAgrees, ZenonT(40)
        <5> HIDE DEF o2
        <5>q. QED BY <5>1, ZenonT(40) DEF UpToDate
      <4> HIDE DEF o2
      <4>3. Fine(q, o2, link'[q], burst')
        BY <3>2, <3>3, <4>2, MovesFine
      <4>q. QED BY <4>1, <4>3
    <3>5. CASE q \notin live
      <4>1. out'[q] = out[q]
        BY <1>3, <2>2, <3>5, ZenonT(40)
      <4>2. Fine(q, out[q], link'[q], burst')
        BY <3>2, <3>3, ZenonT(40) DEF Fine
      <4>q. QED BY <4>1, <4>2
    <3>q. QED BY <3>4, <3>5, ZenonT(40)
  <2>q. QED BY <2>1, <2>2
<1>q. QED BY <1>2, <1>5, <1>6 DEF CInv

LEMMA EorPruneFine == ASSUME IInv, CInv, NEW p, NEW ns, EorPrune(p, ns) PROVE CInv'
<1> DEFINE mine == {n \in ns : best[n] # None /\ best[n].src = p}
<1>1. burst' \in 0..MaxBurst /\ burst' # 0 /\ UNCHANGED <<link, up>>
  BY DrainedBurst DEF EorPrune, CInv
<1>2. PICK c \in Outcomes(mine, (up \cup holding) \ {p}) :
        /\ best' = Updated(best, c)
        /\ out' = [q \in Watched |->
                     IF q \in up \ {p}
                     THEN DirectV6(DirectV4(out[q], q, ns, best', "self"), q, ns, best')
                     ELSE IF q = p THEN [out[p] EXCEPT !.owed = @ \cup mine]
                     ELSE out[q]]
  BY Zenon DEF EorPrune
<1>3. (up \cup holding) \ {p} \in SUBSET Peers
  BY DEF IInv, Sources
<1>4. best' \in Outcomes(Nlris, Peers)
  BY <1>2, <1>3, UpdatedIsOutcome, ZenonT(40) DEF CInv
<1>5. ASSUME NEW q \in Watched PROVE Fine(q, out'[q], link[q], burst')
  <2>1. q \in Peers /\ accept \in [Peers -> BOOLEAN]
    BY OutboundAssumption, SMTT(40), ZenonT(40) DEF IInv
  <2>2. Fine(q, out[q], link[q], burst) /\ Shape(q, out[q]) /\ Agree(q, out[q], {})
    BY DEF CInv, Fine
  <2>3. CASE q \in up \ {p}
    <3> DEFINE o2 == DirectV6(DirectV4(out[q], q, ns, best', "self"), q, ns, best')
    <3>1. out'[q] = o2
      BY <1>2, <2>3, SMTT(40)
    <3>2. Shape(q, o2) /\ Linked(out[q], o2) /\ Agree(q, o2, {})
      <4>1. UpToDate(q, out[q], o2)
        BY <1>4, <2>1, <2>2, DirectAgrees, ZenonT(40)
      <4> HIDE DEF o2
      <4>q. QED BY <4>1, ZenonT(40) DEF UpToDate
    <3> HIDE DEF o2
    <3>3. Fine(q, o2, link[q], burst')
      BY <1>1, <2>2, <3>2, MovesFine
    <3>q. QED BY <3>1, <3>3
  <2>4. CASE q = p
    <3> DEFINE o == out[q]
               w == o.owed \cup mine
               o2 == [o EXCEPT !.owed = w]
    <3>1. out'[q] = o2
      BY <1>2, <2>4
    <3> HIDE DEF w
    <3>2. Shape(q, o2) /\ Linked(o, o2) /\ Agree(q, o2, {})
      BY <2>2, OwedAgrees, SMTT(40), ZenonT(40)
    <3> HIDE DEF o2
    <3>3. Fine(q, o2, link[q], burst')
      BY <1>1, <2>2, <3>2, MovesFine, SMTT(40), ZenonT(40)
    <3>q. QED BY <3>1, <3>3
  <2>5. CASE q \notin up /\ q # p
    <3>1. out'[q] = out[q]
      BY <1>2, <2>5
    <3>q. QED BY <1>1, <2>2, <3>1 DEF Fine
  <2>q. QED BY <2>3, <2>4, <2>5, ZenonT(40)
<1>q. QED BY <1>1, <1>4, <1>5 DEF CInv, Linking

LEMMA GrExpiresFine == ASSUME IInv, CInv, NEW p, GrExpires(p) PROVE CInv'
<1> DEFINE mine == {n \in Nlris : best[n] # None /\ best[n].src = p}
           had  == {n \in Nlris : best[n] # None}
<1>1. /\ p \in holding /\ holding' = holding \ {p} /\ burst = 0
      /\ UNCHANGED <<link, up, burst>>
  BY DEF GrExpires
<1>2. PICK c \in Outcomes(mine, up \cup (holding \ {p})) :
        /\ best' = Updated(best, c)
        /\ out' = [q \in Watched |->
                     IF q = p THEN [TakeStalled(out[p]) EXCEPT !.adj = Fresh.adj]
                     ELSE TakeStalled(
                       IF q \in up
                       THEN DirectV6(DirectV4(out[q], q, had, best', "self"), q, had, best')
                       ELSE out[q])]
  BY <1>1, Zenon DEF GrExpires
<1>3. up \cup (holding \ {p}) \in SUBSET Peers
  BY DEF IInv, Sources
<1>4. best' \in Outcomes(Nlris, Peers)
  BY <1>2, <1>3, UpdatedIsOutcome, ZenonT(40) DEF CInv
<1>5. ASSUME NEW q \in Watched PROVE Fine(q, out'[q], link[q], burst)
  <2>1. q \in Peers /\ accept \in [Peers -> BOOLEAN]
    BY OutboundAssumption DEF IInv
  <2>2. Fine(q, out[q], link[q], burst) /\ Shape(q, out[q]) /\ Agree(q, out[q], {})
    BY DEF CInv, Fine
  <2>3. out[q].pending = Fresh.pending
    BY <1>1, <2>2 DEF Fine
  <2>4. CASE q = p
    <3> DEFINE u == out[q]
               z == Fresh.adj
               o == [u EXCEPT !.adj = z]
    <3>1. u.mark = "closed"
      BY <1>1, <2>1, <2>2, <2>4 DEF IInv, Sources, CInv, Linking, Fine
    <3>2. out'[q] = o
      BY <1>2, <2>4, <3>1, ZenonT(40) DEF TakeStalled
    <3>3. DOMAIN z = Nlris /\ z = [n \in Nlris |-> z[n]]
      BY DEF Fresh
    <3>4. Shape(q, u) /\ u.pending = Fresh.pending /\ Fine(q, u, link[q], burst)
      BY <2>2, <2>3
    <3> HIDE DEF u, z
    <3>5. /\ DOMAIN o = OutFields
          /\ o.adj = z /\ o.mark = "closed" /\ o.queued = u.queued /\ o.view = u.view
          /\ o.held = u.held /\ o.window = u.window /\ o.pending = u.pending
      BY <3>1, <3>4 DEF Shape, IsOut, OutFields
    <3> HIDE DEF o
    <3>6. Shape(q, o) /\ Agree(q, o, {}) /\ Linked(u, o)
      BY <3>1, <3>3, <3>4, <3>5, SMTT(40), ZenonT(40) DEF Shape, IsOut, Agree, Linked
    <3>7. Fine(q, o, link[q], burst)
      BY <3>4, <3>5, <3>6, MovesFine, ZenonT(40)
    <3>q. QED BY <3>2, <3>7, ZenonT(40)
  <2>5. CASE q # p
    <3> DEFINE o == IF q \in up
                    THEN DirectV6(DirectV4(out[q], q, had, best', "self"), q, had, best')
                    ELSE out[q]
    <3>1. out'[q] = TakeStalled(o)
      BY <1>2, <2>5, SMTT(40), ZenonT(40)
    <3> HIDE DEF had
    <3>2. Shape(q, o) /\ Linked(out[q], o) /\ Agree(q, o, {}) /\ o.pending = out[q].pending
      <4>1. CASE q \in up
        <5> DEFINE d == DirectV6(DirectV4(out[q], q, had, best', "self"), q, had, best')
        <5>1. o = d
          BY <4>1, Zenon
        <5> HIDE DEF o
        <5>2. UpToDate(q, out[q], d)
          BY <1>4, <2>1, <2>2, DirectAgrees, ZenonT(40)
        <5> HIDE DEF d
        <5>q. QED BY <5>1, <5>2, ZenonT(40) DEF UpToDate
      <4>2. CASE q \notin up
        BY <2>2, <4>2, ZenonT(40) DEF Linked
      <4>q. QED BY <4>1, <4>2, ZenonT(40)
    <3> HIDE DEF o
    <3>3. /\ Shape(q, out'[q]) /\ Linked(o, out'[q]) /\ Agree(q, out'[q], {})
          /\ out'[q].pending = o.pending
      BY <3>1, <3>2, TakeStalledAgrees, ZenonT(40)
    <3>4. Linked(out[q], out'[q])
      BY <3>2, <3>3, LinkedTwice
    <3>q. QED BY <2>2, <2>3, <3>2, <3>3, <3>4, MovesFine
  <2>q. QED BY <2>4, <2>5
<1>q. QED BY <1>1, <1>4, <1>5 DEF CInv, Linking

LEMMA SetExportDefaultFine ==
  ASSUME IInv, CInv, NEW p, NEW v \in BOOLEAN, SetExportDefault(p, v) PROVE CInv'
<1> DEFINE had == {n \in Nlris : best[n] # None}
           e   == [n \in had |-> Entry(p, n, best, v, IF n \in V4 THEN "id" ELSE "self")]
           r4  == Restrict(e, had \cap V4)
           r6  == Restrict(e, had \cap V6)
           u   == out[p]
           o4  == FlushUpdates(p, "v4", Put(u, r4), Decisions(u, r4))
           o6  == IF p \in V6Peers THEN FlushUpdates(p, "v6", Put(o4, r6), Decisions(o4, r6)) ELSE o4
<1>1. p \in Watched /\ UNCHANGED <<best, link, up, burst>>
  BY ZenonT(40) DEF SetExportDefault
<1>2. out' = IF p \in up THEN [out EXCEPT ![p] = o6] ELSE out
  BY DEF SetExportDefault
<1>3. p \in Peers /\ best \in Outcomes(Nlris, Peers)
  BY <1>1, OutboundAssumption DEF CInv
<1>4. had \subseteq Nlris /\ DOMAIN e = had /\ \A n \in had : e[n] \in Exports(p)
  BY <1>3 DEF Exports
<1> HIDE DEF e, had
<1>5. IsEntries(p, "v4", r4)
  BY <1>4 DEF IsEntries, Of, Family, Restrict
<1>6. IsEntries(p, "v6", r6)
  BY <1>4 DEF IsEntries, Of, Family, Restrict
<1> HIDE DEF r4, r6
<1>7. Fine(p, u, link[p], burst) /\ Shape(p, u) /\ Agree(p, u, {})
  BY <1>1 DEF CInv, Fine
<1> HIDE DEF u
<1>8. Shape(p, o4) /\ Linked(u, o4) /\ Agree(p, o4, {}) /\ o4.pending = u.pending
  BY <1>3, <1>5, <1>7, SentAgrees, SMTT(40), ZenonT(40)
<1> HIDE DEF o4
<1>9. Shape(p, o6) /\ Linked(u, o6) /\ Agree(p, o6, {}) /\ o6.pending = u.pending
  <2>1. CASE p \in V6Peers
    <3>1. o6 = FlushUpdates(p, "v6", Put(o4, r6), Decisions(o4, r6))
      BY <2>1
    <3> HIDE DEF o6
    <3>2. Shape(p, o6) /\ Linked(o4, o6) /\ Agree(p, o6, {}) /\ o6.pending = o4.pending
      BY <1>3, <1>6, <1>8, <3>1, SentAgrees, SMTT(40), ZenonT(40)
    <3>q. QED BY <1>8, <3>2, LinkedTwice
  <2>2. CASE p \notin V6Peers
    BY <1>8, <2>2, ZenonT(40)
  <2>q. QED BY <2>1, <2>2, ZenonT(40)
<1> HIDE DEF o6
<1>10. Fine(p, o6, link[p], burst)
  <2>1. burst = 0 => o6.pending = Fresh.pending
    BY <1>7, <1>9 DEF Fine
  <2>q. QED BY <1>7, <1>9, <2>1, MovesFine, ZenonT(40)
<1>11. CASE p \in up
  BY <1>1, <1>2, <1>10, <1>11, OneFine, Zenon
<1>12. CASE p \notin up
  <2>1. UNCHANGED <<best, link, up, burst, out>>
    BY <1>1, <1>2, <1>12
  <2>q. QED BY <2>1 DEF CInv, Linking
<1>q. QED BY <1>11, <1>12

-----------------------------------------------------------------------------
(* The theorems.                                                           *)

LEMMA InitIsFine == Init => CInv
<1> SUFFICES ASSUME Init PROVE CInv
  OBVIOUS
<1>1. best \in Outcomes(Nlris, Peers)
  <2> DEFINE may == [n \in Nlris |-> {None} \cup RoutesOf(Peers, n)]
  <2>1. \A n \in Nlris : best[n] \in may[n]
    BY DEF Init
  <2>2. best = [n \in Nlris |-> best[n]]
    BY DEF Init
  <2>3. best \in [Nlris -> UNION {may[n] : n \in Nlris}]
    <3> HIDE DEF may
    <3>q. QED BY <2>1, <2>2
  <2>q. QED BY <2>1, <2>3 DEF Outcomes
<1>2. Linking
  BY DEF Init, Linking
<1>3. burst \in 0..MaxBurst
  BY OutboundAssumption DEF Init
<1>4. ASSUME NEW p \in Watched PROVE Fine(p, out[p], link[p], burst)
  <2>1. out[p] = Fresh /\ link[p] # "up"
    BY OutboundAssumption DEF Init
  <2>2. Fine(p, Fresh, link[p], burst)
    BY <2>1, FreshIsOut, FreshFields, FreshFine
  <2>q. QED BY <2>1, <2>2
<1>q. QED BY <1>1, <1>2, <1>3, <1>4, ZenonT(40) DEF CInv

LEMMA StepFine == IInv /\ CInv /\ [Next]_vars => CInv'
<1> SUFFICES ASSUME IInv, CInv, [Next]_vars PROVE CInv'
  OBVIOUS
<1>1. CASE UNCHANGED vars
  BY <1>1 DEF vars, CInv, Linking
<1>2. ASSUME NEW p \in Peers,
             \/ Established(p) \/ SessionEnds(p) \/ TerminatedClean(p) \/ TerminatedHeld(p)
             \/ BadUpdate(p) \/ GrExpires(p) \/ Deliver(p)
      PROVE  CInv'
  BY <1>2, EstablishedFine, SessionEndsFine, TerminatedCleanFine, TerminatedHeldFine,
     BadUpdateFine, GrExpiresFine, DeliverFine
<1>3. ASSUME NEW p \in Peers, NEW v \in BOOLEAN, SetExportDefault(p, v) PROVE CInv'
  BY <1>3, SetExportDefaultFine
<1>4. ASSUME NEW p \in Peers, NEW n \in V4, MraiElapses(p, n) PROVE CInv'
  BY <1>4, MraiElapsesFine
<1>5. ASSUME NEW p \in Peers, NEW ns \in OneFamily, EorPrune(p, ns) PROVE CInv'
  BY <1>5, EorPruneFine
<1>6. ASSUME NEW ns, FibChange(ns) \/ Originate(ns) \/ WithdrawOriginated(ns) \/ ReevaluateImport(ns)
      PROVE  CInv'
  BY <1>6, RedecidedFine
<1>7. ASSUME NEW ns, RouteUpdate(ns) PROVE CInv'
  BY <1>7, RouteUpdateFine
<1>8. CASE Flush
  BY <1>8, FlushStepFine
<1>9. CASE MraiTick
  BY <1>9, MraiTickFine
<1>q. QED BY <1>1, <1>2, <1>3, <1>4, <1>5, <1>6, <1>7, <1>8, <1>9, SMTT(40), ZenonT(40) DEF Next

\* With IInv, CInv is inductive: the channels, buffers and timers of every
\* watched peer are in order after each handler.
THEOREM ChannelInvariance == Spec => []CInv
BY InitIsFine, StepFine, Invariance, PTL DEF Spec

\* The tables are tables of routes, no channel exceeds its slots, a channel is
\* closed exactly while there is no session, and outside a burst the
\* coalescing buffers are empty.
THEOREM OutboundTyped == Spec => []TypeOK
<1>1. IInv /\ CInv => TypeOK
  <2> SUFFICES ASSUME IInv, CInv PROVE TypeOK
    OBVIOUS
  <2>1. up \subseteq Peers /\ holding \subseteq Peers \ up /\ accept \in [Peers -> BOOLEAN]
    BY ZenonT(40) DEF IInv, Sources
  <2>2. ASSUME NEW p \in Watched
        PROVE  /\ out[p].mark \in {"closed", "ok", "stalled", "stopping"}
               /\ out[p].mark = "closed" <=> link[p] # "up"
               /\ out[p].window \subseteq V4 /\ out[p].held \subseteq V4
               /\ out[p].queued \in 0..Capacity
               /\ burst = 0 => out[p].pending = Fresh.pending
    BY DEF CInv, Fine, Shape, Marks
  <2>q. QED BY <2>1, <2>2 DEF CInv, Linking, TypeOK
<1>q. QED BY <1>1, Invariance, ChannelInvariance, PTL

\* The neighbour of a healthy session believes what the Adj-RIB-Out records,
\* once what is queued has arrived: grouping, chunking, the order of the
\* UPDATEs of a batch, coalescing, overflow and session loss lose nothing but
\* what held, the buffers and skew name.
THEOREM NeighbourConverges == Spec => []Converged
<1>1. CInv => Converged
  <2> SUFFICES ASSUME CInv, NEW p \in up \cap Watched, NEW n \in Nlris,
                      out[p].mark = "ok", n \in V6 => p \in V6Peers,
                      n \notin out[p].held \cup out[p].skew,
                      \A d \in Range(out[p].pending[FamilyOf(n)]) : d.n # n
               PROVE  out[p].view[n] = Wire(p, out[p].adj[n])
    BY DEF Converged
  <2>1. Agree(p, out[p], {})
    BY DEF CInv, Fine
  <2>2. ~Buffered(out[p], n)
    BY ZenonT(40) DEF Buffered, Range
  <2>q. QED BY <2>1, <2>2, ZenonT(40) DEF Agree
<1>q. QED BY <1>1, ChannelInvariance, PTL

\* Whatever reaches a neighbour, through whichever handler and batch, it can
\* take from us: no confederation segment, LOCAL_PREF or MED outside, our AS
\* in front, no four-octet AS number it cannot read unless AS4_PATH has it.
THEOREM AlwaysPresentable == Spec => []Presentable
<1>1. CInv => Presentable
  <2>1. CInv => \A p \in Watched, n \in Nlris : Fits(p, out[p].view[n])
    BY DEF CInv, Fine, Shape
  <2>2. (\A p \in Watched, n \in Nlris : Fits(p, out[p].view[n])) => Presentable
    BY Zenon DEF Fits, Presentable
  <2>q. QED BY <2>1, <2>2, ZenonT(40)
<1>q. QED BY <1>1, ChannelInvariance, PTL
=============================================================================
