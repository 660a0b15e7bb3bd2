----------------------------- MODULE RibProofs ------------------------------
(***************************************************************************)
(* Proofs about Rib, for any peers, announcements, next hops, metrics and  *)
(* times: the tables keep their types, the candidates are what policy made *)
(* of the Adj-RIB-In, and the kernel follows the best route.               *)
(***************************************************************************)
EXTENDS Rib, TLAPS

Routing == Routes \cup {None}

\* What the kernel is to have for the prefix.
Target(c, b) == IF b = None THEN None ELSE Install(c[b].nh)

Targets == {None} \cup {Install(h) : h \in Hops}

\* The operation that leads there from any state without a null route.
Asks(t) == IF t = None THEN Withdraw ELSE t

\* The slot pe, written to a kernel that has k, leaves t there.
Served(pe, k, e, t) == ~e => IF pe = None THEN k = t ELSE Written(pe, k) = t

\* Each candidate is in the place of the peer it came from, the best route is
\* one of them, and the writer is awake while there is something to write.
Placed ==
  /\ \A p \in Peers : adjIn[p] # None => adjIn[p].src = p
  /\ \A p \in Sources : cand[p] # None => cand[p].src = p
  /\ best # None => cand[best] # None
  /\ permit <=> pending # None

IInv == TypeOK /\ Placed /\ Served(pending, kernel, excused, Target(cand, best)) /\ Judged

-----------------------------------------------------------------------------
(* Routes and operations.                                                  *)

LEMMA RouteOfIsRoute ==
  ASSUME NEW p \in Sources, NEW a \in Announcements[p], NEW t \in Ages[p], NEW s \in BOOLEAN
  PROVE  RouteOf(p, a, t, s) \in Routes
<1> DEFINE Mine == {RouteOf(p, b, u, v) : b \in Announcements[p], u \in Ages[p], v \in BOOLEAN}
<1>1. RouteOf(p, a, t, s) \in Mine
  OBVIOUS
<1>q. QED BY <1>1 DEF Routes

\* What is known of a route, and of the same route marked stale.
LEMMA RouteFields ==
  ASSUME NEW r \in Routes
  PROVE  /\ r.src \in Sources /\ r.nh \in Hops /\ r.hole \in BOOLEAN
         /\ RouteOf(r.src, r, r.age, TRUE) \in Routes
<1>1. PICK p \in Sources :
        r \in {RouteOf(p, a, t, s) : a \in Announcements[p], t \in Ages[p], s \in BOOLEAN}
  BY DEF Routes
<1>2. PICK a \in Announcements[p], t \in Ages[p], s \in BOOLEAN : r = RouteOf(p, a, t, s)
  BY <1>1
<1>3. a.nh \in Hops /\ a.hole \in BOOLEAN
  BY RibAssumption DEF Sources
<1>4. r.src = p /\ r.nh = a.nh /\ r.hole = a.hole
  BY <1>2 DEF RouteOf
<1>5. RouteOf(r.src, r, r.age, TRUE) = RouteOf(p, a, t, TRUE)
  BY <1>2, Zenon DEF RouteOf, LocalPref
<1>q. QED BY <1>3, <1>4, <1>5, RouteOfIsRoute, Zenon

\* The route handle_update makes of an announcement.
LEMMA ReceivedFields ==
  ASSUME NEW p \in Sources, NEW a \in Announcements[p], NEW t \in Ages[p]
  PROVE  /\ Received(p, a, t) \in Routes
         /\ Received(p, a, t).src = p
         /\ Received(p, a, t).hole = a.hole
<1>1. Received(p, a, t) \in Routes
  BY RouteOfIsRoute, Zenon DEF Received
<1>q. QED BY <1>1 DEF Received, RouteOf

LEMMA RouteIsSome == \A r \in Routes : r # None
BY NoneAssumption

LEMMA SourceIsSome == \A p \in Sources : p # None
BY NoneAssumption

LEMMA OperationIsSome ==
  /\ Blackhole # None /\ Withdraw # None /\ WithdrawBlackhole # None /\ Null # None
  /\ \A h \in Hops : Install(h) # None
BY NoneAssumption DEF Blackhole, Withdraw, WithdrawBlackhole, Null, Install

LEMMA OperationsDiffer ==
  /\ Withdraw # Blackhole /\ Withdraw # WithdrawBlackhole /\ Blackhole # WithdrawBlackhole
  /\ Withdraw.op = "Withdraw" /\ Blackhole.op = "Blackhole"
  /\ WithdrawBlackhole.op = "WithdrawBlackhole"
  /\ \A h : /\ Install(h).op = "Install" /\ Install(h) # Null
            /\ Install(h) \notin {Withdraw, Blackhole, WithdrawBlackhole}
BY DEF Blackhole, Withdraw, WithdrawBlackhole, Null, Install

\* What each operation leaves in the kernel.
LEMMA WrittenTypes ==
  ASSUME NEW op \in Operations \ {None}, NEW k \in {Null} \cup Targets
  PROVE  /\ Written(op, k) \in {Null} \cup Targets
         /\ op.op = "Install" => Written(op, k) = op
         /\ op = Withdraw /\ k # Null => Written(op, k) = None
BY OperationsDiffer DEF Operations, Targets, Written

\* select_best_with_oracle returns a candidate or nothing.
LEMMA SelectsCandidate ==
  ASSUME NEW S, NEW m, NEW w \in SelectBest(S, m)
  PROVE  w = None \/ w \in S
<1>1. \A T : MaxBy(T, m) \subseteq T
  BY DEF MaxBy
<1>2. Reachable(S, m) \subseteq S
  BY DEF Reachable
<1>3. CASE Reachable(S, m) = {}
  BY <1>3 DEF SelectBest
<1>4. CASE Reachable(S, m) # {}
  <2> DEFINE R == Reachable(S, m)
             groups == {{r \in R : NeighboringAs(r.path) = NeighboringAs(q.path)} : q \in R}
  <2>1. PICK v \in Picks({MaxBy(g, m) : g \in groups}) : w \in MaxBy(v, m)
    BY <1>4, Zenon DEF SelectBest
  <2>2. w \in v
    BY <2>1, <1>1
  <2>3. v \subseteq UNION {MaxBy(g, m) : g \in groups}
    BY <2>1 DEF Picks
  <2>4. PICK g \in groups : w \in MaxBy(g, m)
    BY <2>2, <2>3
  <2>5. w \in R
    BY <2>4, <1>1
  <2>q. QED BY <2>5, <1>2
<1>q. QED BY <1>3, <1>4

-----------------------------------------------------------------------------
(* The FIB manager.                                                        *)

\* What a request comes to: the last operation is in the slot and the writer
\* is awake, or there is no operation and nothing happens.
Effect(op, lost) ==
  /\ kernel' = kernel
  /\ op = None => pending' = pending /\ permit' = permit /\ excused' = (excused \/ lost)
  /\ op # None =>
       /\ pending' = op /\ permit' = TRUE /\ excused' \in BOOLEAN
       /\ ~excused' => \/ op.op = "Install"
                       \/ kernel # Null /\ op \notin {Blackhole, WithdrawBlackhole}

LEMMA LastOfNone == LastAsked(<<>>) = None
BY DEF LastAsked

LEMMA LastOfOne == ASSUME NEW a PROVE LastAsked(<<a>>) = a
BY DEF LastAsked

LEMMA LastOfTwo ==
  ASSUME NEW a, NEW b
  PROVE  LastAsked(<<a, b>>) = IF b # None THEN b ELSE a
BY DEF LastAsked

LEMMA LastOfThree ==
  ASSUME NEW a, NEW b, NEW c
  PROVE  LastAsked(<<a, b, c>>) = IF c # None THEN c ELSE IF b # None THEN b ELSE a
BY DEF LastAsked

LEMMA RequestEffect ==
  ASSUME NEW ops, NEW lost \in BOOLEAN, excused \in BOOLEAN, Request(ops, lost),
         LastAsked(ops) # None => \E i \in DOMAIN ops : LastAsked(ops) = ops[i]
  PROVE  Effect(LastAsked(ops), lost)
<1> DEFINE op == LastAsked(ops)
           hole == \/ \E i \in DOMAIN ops : ops[i] \in {Blackhole, WithdrawBlackhole}
                   \/ kernel = Null
<1>1. CASE op = None
  BY <1>1, Zenon DEF Request, Effect
<1>2. CASE op # None
  <2>1. op \in {Blackhole, WithdrawBlackhole} \/ kernel = Null => hole
    BY <1>2
  <2>2. /\ pending' = op /\ permit' = TRUE /\ kernel' = kernel
        /\ excused' = IF op.op = "Install" THEN FALSE ELSE excused \/ lost \/ hole
    BY <1>2, Zenon DEF Request, NotifyOne
  <2> HIDE DEF op, hole
  <2>3. excused' \in BOOLEAN
    BY <2>2, Zenon
  <2>4. ~excused' => op.op = "Install" \/ ~hole
    BY <2>2, Zenon
  <2>q. QED BY <1>2, <2>1, <2>2, <2>3, <2>4, Zenon DEF Effect, op
<1>q. QED BY <1>1, <1>2

\* The writer's side of the invariant, for a target t.
WriterOK(t) ==
  /\ pending \in Operations /\ kernel \in {Null} \cup Targets
  /\ permit \in BOOLEAN /\ excused \in BOOLEAN
  /\ permit <=> pending # None
  /\ Served(pending, kernel, excused, t)

WriterOKNext(t) ==
  /\ pending' \in Operations /\ kernel' \in {Null} \cup Targets
  /\ permit' \in BOOLEAN /\ excused' \in BOOLEAN
  /\ permit' <=> pending' # None
  /\ Served(pending', kernel', excused', t)

\* Whatever the writer had still to write, it ends at the target t when the
\* operation in the slot asks for t, or when nothing was asked or lost and t
\* is still the target.
LEMMA EffectServes ==
  ASSUME NEW op \in Operations, NEW lost \in BOOLEAN, NEW t0 \in Targets, NEW t \in Targets,
         WriterOK(t0), Effect(op, lost),
         op = None /\ ~lost => t = t0,
         op \notin {None, Blackhole, WithdrawBlackhole} => op = Asks(t)
  PROVE  WriterOKNext(t)
<1>1. CASE op = None
  BY <1>1 DEF WriterOK, WriterOKNext, Effect, Served
<1>2. CASE op # None
  <2>1. /\ pending' = op /\ permit' = TRUE /\ kernel' = kernel /\ excused' \in BOOLEAN
    BY <1>2 DEF Effect
  <2>2. ASSUME ~excused' PROVE Written(op, kernel) = t
    <3>1. op \notin {Blackhole, WithdrawBlackhole}
      BY <2>2, <1>2, OperationsDiffer DEF Effect
    <3>2. op = Asks(t)
      BY <1>2, <3>1
    <3>3. CASE t = None
      <4>1. op = Withdraw
        BY <3>2, <3>3 DEF Asks
      <4>2. kernel # Null
        BY <2>2, <1>2, <4>1, OperationsDiffer, SMTT(40) DEF Effect
      <4>q. QED BY <4>1, <4>2, <3>3, <1>2, WrittenTypes DEF WriterOK
    <3>4. CASE t # None
      <4>1. op = t /\ op.op = "Install"
        BY <3>2, <3>4, OperationsDiffer, SMTT(40) DEF Asks, Targets
      <4>q. QED BY <4>1, <1>2, WrittenTypes DEF WriterOK
    <3>q. QED BY <3>3, <3>4
  <2>q. QED BY <1>2, <2>1, <2>2 DEF WriterOK, WriterOKNext, Served
<1>q. QED BY <1>1, <1>2

-----------------------------------------------------------------------------
(* The decision process.                                                   *)

Tables == TypeOK /\ Placed

\* The next state of the Loc-RIB is well-formed.
LocRibNext ==
  /\ cand' \in [Sources -> Routing]
  /\ best' \in Sources \cup {None}
  /\ \A q \in Sources : cand'[q] # None => cand'[q].src = q
  /\ best' # None => cand'[best'] # None

\* What comes of putting r in the place of p when w is then best: the
\* operation, if any, asks for the new target, and without one the target
\* stays, but for the silent loss of the best route in LocRib::insert.
Decided(p, r, w) ==
  LET op == Operation(Change(p, r, w))
      t  == Target(cand', best')
  IN  /\ LocRibNext
      /\ w \in Routing
      /\ t \in Targets
      /\ w # None => t = Install(w.nh)
      /\ w = None => t = None
      /\ op \in Operations
      /\ op # None => op = Asks(t)
      /\ op = None /\ ~(r # None /\ Silent(w)) => t = Target(cand, best)

LEMMA TargetType == Tables => Target(cand, best) \in Targets
<1> SUFFICES ASSUME Tables, best # None PROVE Install(cand[best].nh) \in Targets
  BY DEF Targets, Target
<1>1. best \in Sources /\ cand[best] \in Routes
  BY DEF Tables, TypeOK, Placed
<1>q. QED BY <1>1, RouteFields, Zenon DEF Targets

LEMMA OperationOf ==
  /\ Operation(Unchanged) = None
  /\ Operation(Withdrawn) = Withdraw
  /\ \A r : Operation(Announced(r)) = Install(r.nh)
BY DEF Operation, Unchanged, Withdrawn, Announced

LEMMA Decides ==
  ASSUME Tables, NEW p \in Sources, NEW r \in Routing, r # None => r.src = p,
         NEW w \in Winners(p, r), Put(p, r, w)
  PROVE  Decided(p, r, w)
<1> DEFINE op == Operation(Change(p, r, w))
           t  == Target(cand', best')
<1>0. /\ cand \in [Sources -> Routing] /\ best \in Sources \cup {None}
      /\ \A q \in Sources : cand[q] # None => cand[q].src = q
      /\ best # None => cand[best] # None
  BY DEF Tables, TypeOK, Placed, Routing
<1>1. /\ cand' = [cand EXCEPT ![p] = r] /\ cand' \in [Sources -> Routing]
      /\ best' = SrcOf(w)
  BY <1>0 DEF Put
<1>2. \A q \in Sources : cand'[q] # None => cand'[q].src = q
  BY <1>0, <1>1
<1>3. w # None => w \in Routes /\ w.src \in Sources /\ cand'[w.src] = w
  <2>1. CASE r = None /\ cand[p] = None
    <3>1. cand' = cand
      BY <1>0, <1>1, <2>1
    <3>2. w = IF best = None THEN None ELSE cand[best]
      BY <2>1 DEF Winners
    <3>q. QED BY <1>0, <3>1, <3>2 DEF Routing
  <2>2. CASE ~(r = None /\ cand[p] = None)
    <3>1. w \in SelectBest(Candidates([cand EXCEPT ![p] = r]), Igp)
      BY <2>2 DEF Winners
    <3>2. w = None \/ w \in Candidates(cand')
      BY <1>1, <3>1, SelectsCandidate
    <3>3. w # None => \E q \in Sources : w = cand'[q]
      BY <3>2 DEF Candidates
    <3>q. QED BY <1>1, <1>2, <3>3 DEF Routing
  <2>q. QED BY <2>1, <2>2
<1>4. LocRibNext /\ w \in Routing
  BY <1>1, <1>2, <1>3 DEF LocRibNext, SrcOf, Routing
<1>5. /\ w # None => best' = w.src /\ best' # None /\ t = Install(w.nh) /\ t \in Targets
      /\ w = None => best' = None /\ t = None /\ t \in Targets
  BY <1>1, <1>3, SourceIsSome, RouteFields, Zenon DEF Target, Targets, SrcOf
<1>6. op \in {None, Asks(t)}
  <2>1. w = None => Change(p, r, w) \in {Unchanged, Withdrawn}
    BY DEF Change, InsertChange, WithdrawChange
  <2>2. w # None => Change(p, r, w) \in {Unchanged, Announced(w)}
    BY DEF Change, InsertChange, WithdrawChange
  <2>3. w # None => t # None
    BY <1>5, <1>3, RouteFields, OperationIsSome, Zenon
  <2>q. QED BY <1>5, <2>1, <2>2, <2>3, OperationOf DEF Asks
<1>7. Asks(t) \in Operations
  BY <1>5 DEF Asks, Targets, Operations
<1>8. ASSUME op = None, ~(r # None /\ Silent(w)) PROVE t = Target(cand, best)
  <2>1. Change(p, r, w) = Unchanged
    <3>1. Withdraw # None /\ (w # None => Install(w.nh) # None)
      BY <1>3, RouteFields, OperationIsSome, ZenonT(40)
    <3>2. Change(p, r, w) \in {Unchanged, Withdrawn} \cup {x \in {Announced(w)} : w # None}
      BY DEF Change, InsertChange, WithdrawChange
    <3>q. QED BY <1>8, <3>1, <3>2, OperationOf
  <2>2. CASE r # None
    <3>1. w = None \/ (w.src = best /\ w.src # p)
      BY <2>1, <2>2 DEF Change, InsertChange, Unchanged, Announced
    <3>2. CASE w = None
      BY <1>5, <1>8, <2>2, <3>2, SMTT(40) DEF Silent, Target
    <3>3. CASE w # None
      BY <1>0, <1>1, <1>5, <3>1, <3>3 DEF Target
    <3>q. QED BY <3>2, <3>3
  <2>3. CASE r = None /\ cand[p] = None
    <3>1. w = IF best = None THEN None ELSE cand[best]
      BY <2>3 DEF Winners
    <3>q. QED BY <1>0, <1>5, <3>1 DEF Target
  <2>4. CASE r = None /\ cand[p] # None
    <3>1. \/ w = None /\ best = None
          \/ w # None /\ w.src = best /\ best # p
      BY <2>1, <2>4 DEF Change, WithdrawChange, Unchanged, Announced, Withdrawn
    <3>q. QED BY <1>0, <1>1, <1>5, <3>1, SMTT(40) DEF Target
  <2>q. QED BY <2>2, <2>3, <2>4
<1>9. None \in Operations
  BY DEF Operations
<1>q. QED BY <1>4, <1>5, <1>6, <1>7, <1>8, <1>9 DEF Decided

-----------------------------------------------------------------------------
(* Handlers.                                                               *)

\* ops ends in an operation that leads to the target t, or in one for a null
\* route; it is empty of operations only when t is the target already or the
\* loss of the best route was silent.
Leads(ops, silent, t) ==
  /\ LastAsked(ops) \in Operations
  /\ LastAsked(ops) # None => \E i \in DOMAIN ops : LastAsked(ops) = ops[i]
  /\ LastAsked(ops) = None => \A i \in DOMAIN ops : ops[i] = None
  /\ LastAsked(ops) \notin {None, Blackhole, WithdrawBlackhole} => LastAsked(ops) = Asks(t)
  /\ LastAsked(ops) = None /\ ~silent => t = Target(cand, best)

LEMMA RequestServes ==
  ASSUME Tables, WriterOK(Target(cand, best)), NEW t \in Targets,
         NEW ops, NEW silent \in BOOLEAN, Leads(ops, silent, t), Request(ops, silent)
  PROVE  WriterOKNext(t)
<1>1. Effect(LastAsked(ops), silent)
  BY RequestEffect DEF Leads, WriterOK
<1>q. QED BY <1>1, TargetType, EffectServes DEF Leads

\* An UPDATE over the maximum-prefix limit is excused if it had a request.
LEMMA FinishServes ==
  ASSUME Tables, WriterOK(Target(cand, best)), NEW t \in Targets, NEW over \in BOOLEAN,
         NEW ops, NEW silent \in BOOLEAN, Leads(ops, silent, t), Finish(ops, over, silent)
  PROVE  WriterOKNext(t)
<1>1. CASE ~over
  BY <1>1, RequestServes DEF Finish
<1>2. CASE over
  <2> DEFINE lost == silent \/ \E i \in DOMAIN ops : ops[i] # None
  <2>1. lost \in BOOLEAN
    OBVIOUS
  <2>2. Request(<<>>, lost)
    BY <1>2 DEF Finish
  <2>3. ~lost => t = Target(cand, best)
    BY DEF Leads
  <2> HIDE DEF lost
  <2>4. Leads(<<>>, lost, t)
    BY <2>3, LastOfNone DEF Leads, Operations
  <2>q. QED BY <2>1, <2>2, <2>4, RequestServes
<1>q. QED BY <1>1, <1>2

LEMMA LeadsOne ==
  ASSUME NEW p, NEW r, NEW w, Decided(p, r, w), NEW silent,
         r # None /\ Silent(w) => silent
  PROVE  Leads(<<Operation(Change(p, r, w))>>, silent, Target(cand', best'))
<1> DEFINE op == Operation(Change(p, r, w))
<1>1. LastAsked(<<op>>) = op
  BY LastOfOne
<1>2. /\ op \in Operations
      /\ op # None => op = Asks(Target(cand', best'))
      /\ op = None /\ ~(r # None /\ Silent(w)) => Target(cand', best') = Target(cand, best)
  BY DEF Decided
<1> HIDE DEF op
<1>3. Leads(<<op>>, silent, Target(cand', best'))
  BY <1>1, <1>2 DEF Leads
<1>q. QED BY <1>3 DEF op

LEMMA LeadsRemove ==
  ASSUME NEW p, NEW w, Decided(p, None, w), NEW h \in Routing
  PROVE  Leads(<<Operation(Change(p, None, w)), IfHole(h, WithdrawBlackhole),
                 IfHole(h, IF w = None THEN None ELSE Install(w.nh))>>,
               FALSE, Target(cand', best'))
<1> DEFINE a == Operation(Change(p, None, w))
           b == IfHole(h, WithdrawBlackhole)
           c == IfHole(h, IF w = None THEN None ELSE Install(w.nh))
           t == Target(cand', best')
<1>1. LastAsked(<<a, b, c>>) = IF c # None THEN c ELSE IF b # None THEN b ELSE a
  BY LastOfThree
<1>2. /\ a \in Operations /\ (a # None => a = Asks(t))
      /\ a = None => t = Target(cand, best)
  BY DEF Decided
<1>3. b \in {None, WithdrawBlackhole}
  BY DEF IfHole
<1>4. c # None => c \in Operations /\ c = Asks(t)
  <2> SUFFICES ASSUME c # None PROVE c \in Operations /\ c = Asks(t)
    OBVIOUS
  <2>1. w # None /\ c = Install(w.nh)
    BY DEF IfHole
  <2>2. w \in Routes /\ t = Install(w.nh)
    BY <2>1 DEF Decided, Routing
  <2>3. w.nh \in Hops
    BY <2>2, RouteFields, Zenon
  <2>q. QED BY <2>1, <2>2, <2>3, OperationIsSome DEF Asks, Operations
<1>5. WithdrawBlackhole \in Operations
  BY DEF Operations
<1> HIDE DEF a, b, c, t
<1>6. Leads(<<a, b, c>>, FALSE, t)
  <2> DEFINE ops == <<a, b, c>>
  <2>1. DOMAIN ops = {1, 2, 3} /\ ops[1] = a /\ ops[2] = b /\ ops[3] = c
    OBVIOUS
  <2>2. LastAsked(ops) = IF c # None THEN c ELSE IF b # None THEN b ELSE a
    BY <1>1
  <2> HIDE DEF ops
  <2>3. Leads(ops, FALSE, t)
    BY <1>2, <1>3, <1>4, <1>5, <2>1, <2>2 DEF Leads
  <2>q. QED BY <2>3, Zenon DEF ops
<1>q. QED BY <1>6, Zenon DEF a, b, c, t

LEMMA LeadsForget ==
  ASSUME NEW p, NEW w, Decided(p, None, w), NEW h \in Routing
  PROVE  Leads(<<IfHole(h, WithdrawBlackhole), Operation(Change(p, None, w))>>,
               FALSE, Target(cand', best'))
<1> DEFINE b == Operation(Change(p, None, w))
           a == IfHole(h, WithdrawBlackhole)
           t == Target(cand', best')
<1>1. LastAsked(<<a, b>>) = IF b # None THEN b ELSE a
  BY LastOfTwo
<1>2. /\ b \in Operations /\ (b # None => b = Asks(t))
      /\ b = None => t = Target(cand, best)
  BY DEF Decided
<1>3. a \in {None, WithdrawBlackhole} /\ WithdrawBlackhole \in Operations
  BY DEF IfHole, Operations
<1> HIDE DEF a, b, t
<1>4. Leads(<<a, b>>, FALSE, t)
  <2> DEFINE ops == <<a, b>>
  <2>1. DOMAIN ops = {1, 2} /\ ops[1] = a /\ ops[2] = b
    OBVIOUS
  <2>2. LastAsked(ops) = IF b # None THEN b ELSE a
    BY <1>1
  <2> HIDE DEF ops
  <2>3. Leads(ops, FALSE, t)
    BY <1>2, <1>3, <2>1, <2>2 DEF Leads
  <2>q. QED BY <2>3, Zenon DEF ops
<1>q. QED BY <1>4, Zenon DEF a, b, t

LEMMA LeadsHole ==
  ASSUME NEW p, NEW w, Decided(p, None, w)
  PROVE  Leads(<<Operation(Change(p, None, w)), Blackhole>>, FALSE, Target(cand', best'))
<1> DEFINE a == Operation(Change(p, None, w))
           t == Target(cand', best')
<1>1. LastAsked(<<a, Blackhole>>) = Blackhole
  BY LastOfTwo, OperationIsSome
<1> HIDE DEF a, t
<1>2. Leads(<<a, Blackhole>>, FALSE, t)
  BY <1>1, OperationIsSome DEF Leads, Operations
<1>q. QED BY <1>2, Zenon DEF a, t

-----------------------------------------------------------------------------
(* The invariant.                                                          *)

\* Everything but Loc-RIB, writer and judgement.
FrameNext ==
  /\ v6' \in BOOLEAN /\ held' \subseteq Peers
  /\ adjIn' \in [Peers -> Routing]
  /\ \A p \in Peers : adjIn'[p] # None => adjIn'[p].src = p
  /\ snapshot' \subseteq KernelRoutes
  /\ changed' \in BOOLEAN /\ accept' \subseteq Peers /\ kept' \subseteq Peers

LEMMA Assemble ==
  ASSUME FrameNext, LocRibNext, WriterOKNext(Target(cand', best')), Judged'
  PROVE  IInv'
<1>1. TypeOK'
  BY DEF TypeOK, FrameNext, LocRibNext, WriterOKNext, Routing, Targets
<1>2. Placed'
  BY DEF Placed, FrameNext, LocRibNext, WriterOKNext
<1>3. Served(pending, kernel, excused, Target(cand, best))'
  BY SMTT(40) DEF WriterOKNext, Served, Target
<1>q. QED BY <1>1, <1>2, <1>3 DEF IInv

LEMMA Disassemble ==
  ASSUME IInv
  PROVE  Tables /\ WriterOK(Target(cand, best)) /\ Judged
BY DEF IInv, Tables, WriterOK, TypeOK, Placed, Targets

LEMMA FrameOf ==
  ASSUME IInv, NEW p \in Peers, NEW r \in Routing, r # None => r.src = p,
         adjIn' = [adjIn EXCEPT ![p] = r], kept' \subseteq kept \cup {p},
         held' \subseteq Peers, accept' \subseteq Peers, UNCHANGED <<v6, snapshot, changed>>
  PROVE  FrameNext
BY DEF IInv, TypeOK, Placed, FrameNext, Routing

\* The judgement of the other peers is not touched by a change for p.
LEMMA JudgedFor ==
  ASSUME Judged, Tables, NEW p \in Peers, NEW r, NEW c,
         adjIn' = [adjIn EXCEPT ![p] = r], cand' = [cand EXCEPT ![p] = c],
         \A q \in Peers \ {p} : (q \in kept' <=> q \in kept) /\ (q \in accept' <=> q \in accept),
         p \notin kept' =>
           c = IF r = None THEN None ELSE IF r.hole \/ p \notin accept' THEN None ELSE r
  PROVE  Judged'
<1>1. adjIn \in [Peers -> Routing] /\ cand \in [Sources -> Routing] /\ Peers \subseteq Sources
  BY DEF Tables, TypeOK, Routing, Sources
<1>2. ASSUME NEW q \in Peers, q \notin kept'
      PROVE  cand'[q] = IF adjIn'[q] = None THEN None
                        ELSE IF adjIn'[q].hole \/ q \notin accept' THEN None ELSE adjIn'[q]
  <2>1. CASE q = p
    BY <1>1, <1>2, <2>1
  <2>2. CASE q # p
    BY <1>1, <1>2, <2>2 DEF Judged, Accepts
  <2>q. QED BY <2>1, <2>2
<1>q. QED BY <1>2 DEF Judged, Accepts

LEMMA RemoveInv ==
  ASSUME IInv, NEW p \in Peers, NEW over \in BOOLEAN, Remove(p, over),
         UNCHANGED <<v6, held, snapshot, changed, accept>>
  PROVE  IInv'
<1>0. Tables /\ WriterOK(Target(cand, best)) /\ Judged
  BY Disassemble
<1>1. p \in Sources /\ None \in Routing /\ adjIn[p] \in Routing
  BY <1>0 DEF Sources, Routing, Tables, TypeOK
<1>2. PICK w \in Winners(p, None) :
        /\ adjIn' = [adjIn EXCEPT ![p] = None]
        /\ Put(p, None, w)
        /\ kept' = kept \ {p}
        /\ Finish(<<Operation(Change(p, None, w)), IfHole(adjIn[p], WithdrawBlackhole),
                    IfHole(adjIn[p], IF w = None THEN None ELSE Install(w.nh))>>, over, FALSE)
  BY Zenon DEF Remove
<1>3. Decided(p, None, w)
  BY <1>0, <1>1, <1>2, Decides
<1>4. LocRibNext /\ Target(cand', best') \in Targets
  BY <1>3 DEF Decided
<1>5. WriterOKNext(Target(cand', best'))
  BY <1>0, <1>1, <1>2, <1>3, <1>4, LeadsRemove, FinishServes, Zenon
<1>6. FrameNext
  BY <1>1, <1>2, FrameOf, Zenon DEF IInv, TypeOK
<1>7. Judged'
  BY <1>0, <1>2, JudgedFor, Zenon DEF Put
<1>q. QED BY <1>4, <1>5, <1>6, <1>7, Assemble

LEMMA ForgetInv ==
  ASSUME IInv, NEW p \in Peers, Forget(p), held' \subseteq held
  PROVE  IInv'
<1>0. Tables /\ WriterOK(Target(cand, best)) /\ Judged
  BY Disassemble
<1>1. p \in Sources /\ None \in Routing /\ adjIn[p] \in Routing
  BY <1>0 DEF Sources, Routing, Tables, TypeOK
<1>2. PICK w \in Winners(p, None) :
        /\ adjIn' = [adjIn EXCEPT ![p] = None]
        /\ Put(p, None, w)
        /\ kept' = kept \ {p}
        /\ Request(<<IfHole(adjIn[p], WithdrawBlackhole), Operation(Change(p, None, w))>>, FALSE)
        /\ UNCHANGED <<v6, snapshot, changed, accept>>
  BY Zenon DEF Forget
<1>3. Decided(p, None, w)
  BY <1>0, <1>1, <1>2, Decides
<1>4. LocRibNext /\ Target(cand', best') \in Targets
  BY <1>3 DEF Decided
<1>5. WriterOKNext(Target(cand', best'))
  BY <1>0, <1>1, <1>2, <1>3, <1>4, LeadsForget, RequestServes, Zenon
<1>6. FrameNext
  BY <1>1, <1>2, FrameOf, Zenon DEF IInv, TypeOK
<1>7. Judged'
  BY <1>0, <1>2, JudgedFor, Zenon DEF Put
<1>q. QED BY <1>4, <1>5, <1>6, <1>7, Assemble

LEMMA AnnounceInv ==
  ASSUME IInv, NEW p \in Peers, NEW a \in Announcements[p], NEW t \in Ages[p],
         NEW over \in BOOLEAN, Announce(p, a, t, over)
  PROVE  IInv'
<1> DEFINE r == Received(p, a, t)
<1>0. Tables /\ WriterOK(Target(cand, best)) /\ Judged
  BY Disassemble, SMTT(40)
<1>1. p \in Sources /\ None \in Routing /\ adjIn[p] \in Routing
  BY <1>0, ZenonT(40) DEF Sources, Routing, Tables, TypeOK
<1>2. r \in Routes /\ r \in Routing /\ r.src = p /\ r.hole = a.hole /\ r # None
  BY <1>1, ReceivedFields, RouteIsSome, SMTT(40) DEF Routing
<1>u. UNCHANGED <<v6, held, snapshot, changed, accept>>
  BY SMTT(40) DEF Announce
<1>h. held \subseteq Peers /\ accept \subseteq Peers
  BY DEF IInv, TypeOK
<1> HIDE DEF r
<1>3. CASE UNCHANGED <<tables, writer, kept>>
  BY <1>3, <1>u DEF IInv, TypeOK, Placed, Judged, Accepts, tables, writer, Target
<1>4. CASE Remove(p, over)
  BY <1>4, <1>u, RemoveInv, SMTT(40)
<1>5. CASE a.hole /\ Hole(p, r, over)
  <2>1. PICK w \in Winners(p, None) :
          /\ adjIn' = [adjIn EXCEPT ![p] = r]
          /\ Put(p, None, w)
          /\ kept' = kept \ {p}
          /\ Finish(<<Operation(Change(p, None, w)), Blackhole>>, over, FALSE)
    BY <1>5, ZenonT(40) DEF Hole
  <2>2. Decided(p, None, w)
    BY <1>0, <1>1, <2>1, Decides
  <2>3. LocRibNext /\ Target(cand', best') \in Targets
    BY <2>2 DEF Decided
  <2>4. WriterOKNext(Target(cand', best'))
    BY <1>0, <2>1, <2>2, <2>3, LeadsHole, FinishServes, Zenon
  <2>5. FrameNext
    BY <1>2, <1>u, <1>h, <2>1, FrameOf, Zenon
  <2>6. Judged'
    BY <1>0, <1>2, <1>5, <1>u, <2>1, JudgedFor, ZenonT(40) DEF Put
  <2>q. QED BY <2>3, <2>4, <2>5, <2>6, Assemble, SMTT(40)
<1>6. CASE ~a.hole /\ Accepts(p) /\ Accepted(p, r, over)
  <2>1. PICK w \in Winners(p, r) :
          /\ adjIn' = [adjIn EXCEPT ![p] = r]
          /\ Put(p, r, w)
          /\ kept' = kept \ {p}
          /\ Finish(<<Operation(Change(p, r, w))>>, over, Silent(w))
    BY <1>6 DEF Accepted
  <2>2. Decided(p, r, w)
    BY <1>0, <1>1, <1>2, <2>1, Decides, SMTT(40)
  <2>3. LocRibNext /\ Target(cand', best') \in Targets
    BY <2>2 DEF Decided
  <2>4. Silent(w) \in BOOLEAN
    BY SMTT(40) DEF Silent
  <2>5. WriterOKNext(Target(cand', best'))
    BY <1>0, <2>1, <2>2, <2>3, <2>4, LeadsOne, FinishServes, ZenonT(40)
  <2>6. FrameNext
    BY <1>2, <1>u, <1>h, <2>1, FrameOf, Zenon
  <2>7. Judged'
    BY <1>0, <1>2, <1>6, <1>u, <2>1, JudgedFor, Zenon DEF Put, Accepts
  <2>q. QED BY <2>3, <2>5, <2>6, <2>7, Assemble
<1>7. CASE ~a.hole /\ ~Accepts(p) /\ Rejected(p, r)
  <2>1. /\ adjIn' = [adjIn EXCEPT ![p] = r] /\ UNCHANGED <<cand, best, writer>>
        /\ kept' = IF cand[p] = None THEN kept ELSE kept \cup {p}
    BY <1>7 DEF Rejected
  <2>2. LocRibNext
    BY <1>0, <2>1, SMTT(40) DEF LocRibNext, Tables, TypeOK, Placed, Routing
  <2>3. WriterOKNext(Target(cand', best'))
    BY <1>0, <2>1 DEF WriterOKNext, WriterOK, writer, Target
  <2>4. FrameNext
    BY <1>2, <1>u, <1>h, <2>1, FrameOf, Zenon
  <2>5. cand' = [cand EXCEPT ![p] = cand[p]]
    BY <1>0, <2>1 DEF Tables, TypeOK
  <2>6. Judged'
    BY <1>0, <1>2, <1>7, <1>u, <2>1, <2>5, JudgedFor, ZenonT(40) DEF Accepts
  <2>q. QED BY <2>2, <2>3, <2>4, <2>6, Assemble
<1>q. QED BY <1>3, <1>4, <1>5, <1>6, <1>7, Zenon DEF Announce, r

\* Routes of the Adj-RIB-In go to the Loc-RIB marked stale.
LEMMA HeldInv ==
  ASSUME IInv, NEW p \in Peers, Held(p)
  PROVE  IInv'
<1> DEFINE r == RouteOf(p, adjIn[p], adjIn[p].age, TRUE)
<1>0. Tables /\ WriterOK(Target(cand, best)) /\ Judged
  BY Disassemble
<1>1. p \in Sources /\ adjIn[p] \in Routes /\ adjIn[p].src = p
  BY <1>0 DEF Held, Sources, Routing, Tables, TypeOK, Placed
<1>2. r \in Routes /\ r \in Routing /\ r.src = p /\ r # None
  <2>1. r \in Routes
    BY <1>1, RouteFields, Zenon
  <2>q. QED BY <2>1, RouteIsSome, Zenon DEF Routing, RouteOf
<1>3. PICK w \in Winners(p, r) :
        /\ adjIn' = [adjIn EXCEPT ![p] = r]
        /\ Put(p, r, w)
        /\ kept' = IF r.hole \/ ~Accepts(p) THEN kept \cup {p} ELSE kept \ {p}
        /\ Request(<<Operation(Change(p, r, w))>>, Silent(w))
  BY Zenon DEF Held
<1>u. /\ UNCHANGED <<v6, snapshot, changed, accept>> /\ held' \subseteq Peers
      /\ accept \subseteq Peers
  BY Zenon DEF Held, IInv, TypeOK
<1> HIDE DEF r
<1>4. Decided(p, r, w)
  BY <1>0, <1>1, <1>2, <1>3, Decides, SMTT(40)
<1>5. LocRibNext /\ Target(cand', best') \in Targets
  BY <1>4, SMTT(40) DEF Decided
<1>6. WriterOKNext(Target(cand', best'))
  <2>1. Silent(w) \in BOOLEAN
    BY DEF Silent
  <2>q. QED BY <1>0, <1>3, <1>4, <1>5, <2>1, LeadsOne, RequestServes
<1>7. FrameNext
  BY <1>2, <1>3, <1>u, FrameOf, Zenon
<1>8. Judged'
  BY <1>0, <1>2, <1>3, <1>u, JudgedFor, ZenonT(40) DEF Put, Accepts
<1>q. QED BY <1>5, <1>6, <1>7, <1>8, Assemble

\* Routes of our own have no Adj-RIB-In and no policy.
LEMMA LocalInv ==
  ASSUME IInv, NEW r \in Routing, r # None => r.src = Local, NEW w \in Winners(Local, r),
         Put(Local, r, w), NEW ops, NEW lost \in BOOLEAN, Request(ops, lost),
         Decided(Local, r, w) => Leads(ops, lost, Target(cand', best')),
         UNCHANGED <<v6, held, adjIn, snapshot, changed, accept, kept>>
  PROVE  IInv'
<1>0. Tables /\ WriterOK(Target(cand, best)) /\ Judged
  BY Disassemble
<1>1. Local \in Sources /\ Peers \subseteq Sources /\ Local \notin Peers
  BY BestPathAssumption DEF Sources
<1>2. Decided(Local, r, w)
  BY <1>0, <1>1, Decides, SMTT(40)
<1>3. LocRibNext /\ Target(cand', best') \in Targets
  BY <1>2 DEF Decided
<1>4. WriterOKNext(Target(cand', best'))
  BY <1>0, <1>2, <1>3, RequestServes, SMTT(40)
<1>5. FrameNext
  BY SMTT(40) DEF IInv, TypeOK, Placed, FrameNext, Routing
<1>6. \A q \in Peers : cand'[q] = cand[q]
  BY <1>0, <1>1 DEF Put, Tables, TypeOK
<1>7. Judged'
  BY <1>0, <1>6 DEF Judged, Accepts
<1>q. QED BY <1>3, <1>4, <1>5, <1>7, Assemble

LEMMA OriginateInv ==
  ASSUME IInv, NEW a \in Announcements[Local], NEW t \in Ages[Local],
         OriginateV4(a, t) \/ OriginateV6(a, t)
  PROVE  IInv'
<1> DEFINE r == Received(Local, a, t)
<1>1. r \in Routing /\ r.src = Local /\ r # None
  <2>1. Local \in Sources
    BY SMTT(40) DEF Sources
  <2>q. QED BY <2>1, ReceivedFields, RouteIsSome DEF Routing
<1> HIDE DEF r
<1>2. CASE OriginateV4(a, t)
  <2>1. PICK w \in Winners(Local, r) :
          /\ Put(Local, r, w)
          /\ Request(<<>>, Operation(Change(Local, r, w)) # None \/ Silent(w))
    BY <1>2 DEF OriginateV4, r
  <2> DEFINE lost == Operation(Change(Local, r, w)) # None \/ Silent(w)
  <2>2. lost \in BOOLEAN
    BY SMTT(40) DEF Silent
  <2>3. Decided(Local, r, w) => Leads(<<>>, lost, Target(cand', best'))
    <3>1. Decided(Local, r, w) /\ ~lost => Target(cand', best') = Target(cand, best)
      BY SMTT(40) DEF Decided
    <3> HIDE DEF lost
    <3>q. QED BY <3>1, LastOfNone DEF Leads, Operations
  <2>4. UNCHANGED <<v6, held, adjIn, snapshot, changed, accept, kept>>
    BY <1>2, SMTT(40), ZenonT(40) DEF OriginateV4
  <2>q. QED BY <1>1, <2>1, <2>2, <2>3, <2>4, LocalInv, Zenon
<1>3. CASE OriginateV6(a, t)
  <2>1. PICK w \in Winners(Local, r) :
          /\ Put(Local, r, w)
          /\ Request(<<Operation(Change(Local, r, w))>>, Silent(w))
    BY <1>3 DEF OriginateV6, r
  <2>2. Silent(w) \in BOOLEAN
    BY SMTT(40) DEF Silent
  <2>3. UNCHANGED <<v6, held, adjIn, snapshot, changed, accept, kept>>
    BY <1>3 DEF OriginateV6
  <2>q. QED BY <1>1, <2>1, <2>2, <2>3, LeadsOne, LocalInv, SMTT(40), ZenonT(40)
<1>q. QED BY <1>2, <1>3

LEMMA WithdrawOriginatedInv ==
  ASSUME IInv, WithdrawOriginated
  PROVE  IInv'
<1>1. PICK w \in Winners(Local, None) :
        /\ Put(Local, None, w)
        /\ Request(<<Operation(Change(Local, None, w))>>, FALSE)
  BY Zenon DEF WithdrawOriginated
<1>2. None \in Routing /\ UNCHANGED <<v6, held, adjIn, snapshot, changed, accept, kept>>
  BY DEF WithdrawOriginated, Routing
<1>q. QED BY <1>1, <1>2, LeadsOne, LocalInv, Zenon

LEMMA SetImportDefaultInv ==
  ASSUME IInv, NEW p \in Peers, NEW yes \in BOOLEAN, SetImportDefault(p, yes)
  PROVE  IInv'
<1> DEFINE r == IF yes THEN adjIn[p] ELSE None
<1>0. Tables /\ WriterOK(Target(cand, best)) /\ Judged
  BY Disassemble, SMTT(40)
<1>1. /\ p \in Sources /\ adjIn[p] \in Routing /\ None \in Routing
      /\ adjIn[p] # None => adjIn[p].src = p
      /\ adjIn' = [adjIn EXCEPT ![p] = adjIn[p]]
  BY <1>0, Zenon DEF SetImportDefault, Sources, Routing, Tables, TypeOK, Placed
<1>2. r \in Routing /\ (r # None => r.src = p /\ yes /\ r = adjIn[p])
  BY <1>1, SMTT(40)
<1>u. /\ UNCHANGED <<v6, held, snapshot, changed>> /\ held \subseteq Peers
      /\ accept' = IF yes THEN accept \cup {p} ELSE accept \ {p}
      /\ accept' \subseteq Peers
  BY Zenon DEF SetImportDefault, IInv, TypeOK
<1>3. CASE adjIn[p] = None
  <2>1. UNCHANGED <<cand, best, writer, kept>>
    BY <1>3 DEF SetImportDefault
  <2>2. LocRibNext
    BY <1>0, <2>1 DEF LocRibNext, Tables, TypeOK, Placed, Routing
  <2>3. WriterOKNext(Target(cand', best'))
    BY <1>0, <2>1 DEF WriterOKNext, WriterOK, writer, Target
  <2>4. FrameNext
    BY <1>1, <1>u, <2>1, FrameOf, Zenon
  <2>5. Judged'
    BY <1>0, <1>3, <1>1, <1>u, <2>1 DEF Judged, Accepts
  <2>q. QED BY <2>2, <2>3, <2>4, <2>5, Assemble
<1>4. CASE adjIn[p] # None
  <2>1. PICK w \in Winners(p, r) :
          /\ Put(p, r, w)
          /\ kept' = IF r # None /\ r.hole THEN kept \cup {p} ELSE kept \ {p}
          /\ Request(<<Operation(Change(p, r, w))>>, r # None /\ Silent(w))
    BY <1>4 DEF SetImportDefault
  <2>0. adjIn[p] \in Routes /\ adjIn[p].hole \in BOOLEAN
    BY <1>1, <1>4, RouteFields, ZenonT(40) DEF Routing
  <2>8. r = None => ~yes
    BY <1>4
  <2> HIDE DEF r
  <2>2. Decided(p, r, w)
    BY <1>0, <1>1, <1>2, <2>1, Decides
  <2>3. LocRibNext /\ Target(cand', best') \in Targets
    BY <2>2 DEF Decided
  <2>4. (r # None /\ Silent(w)) \in BOOLEAN
    BY DEF Silent
  <2>5. WriterOKNext(Target(cand', best'))
    BY <1>0, <2>1, <2>2, <2>3, <2>4, LeadsOne, RequestServes, Zenon
  <2>6. FrameNext
    BY <1>1, <1>u, <2>1, FrameOf, Zenon
  <2>7. Judged'
    BY <1>0, <1>1, <1>2, <1>4, <1>u, <2>0, <2>1, <2>8, JudgedFor, Zenon DEF Put
  <2>q. QED BY <2>3, <2>5, <2>6, <2>7, Assemble
<1>q. QED BY <1>3, <1>4

\* recompute_all tells of every change of the winner.
LEMMA OnFibChangeInv ==
  ASSUME IInv, OnFibChange
  PROVE  IInv'
<1>0. Tables /\ WriterOK(Target(cand, best)) /\ Judged
  BY Disassemble
<1>1. /\ cand \in [Sources -> Routing]
      /\ \A q \in Sources : cand[q] # None => cand[q].src = q
      /\ best \in Sources \cup {None} /\ (best # None => cand[best] # None)
  BY <1>0 DEF Tables, TypeOK, Placed, Routing
<1>2. PICK w \in SelectBest(Candidates(cand), Igp) :
        best' = SrcOf(w) /\ Request(<<Operation(RecomputeChange(w))>>, FALSE)
  BY Zenon DEF OnFibChange
<1>u. UNCHANGED <<v6, held, adjIn, cand, snapshot, accept, kept>> /\ changed' = FALSE
  BY DEF OnFibChange
<1>3. w = None \/ w \in Candidates(cand)
  BY SelectsCandidate
<1>4. w # None => \E q \in Sources : w = cand[q]
  BY <1>3 DEF Candidates
<1>5. w # None => w \in Routes /\ w.src \in Sources /\ cand[w.src] = w
  BY <1>1, <1>4 DEF Routing
<1> DEFINE t == Target(cand', best')
           op == Operation(RecomputeChange(w))
<1>6. /\ w # None => best' = w.src /\ best' # None /\ t = Install(w.nh) /\ t \in Targets
                     /\ t # None
      /\ w = None => best' = None /\ t = None /\ t \in Targets
  BY <1>2, <1>5, <1>u, SourceIsSome, RouteFields, OperationIsSome, Zenon DEF Target, Targets, SrcOf
<1>7. LocRibNext
  BY <1>1, <1>5, <1>6, <1>u DEF LocRibNext
<1>8. ASSUME best' = best PROVE WriterOKNext(t)
  <2>1. op = None
    BY <1>2, <1>8, OperationOf DEF RecomputeChange
  <2>2. t = Target(cand, best)
    BY <1>8, <1>u
  <2>3. LastAsked(<<op>>) = op
    BY LastOfOne
  <2>4. Request(<<op>>, FALSE)
    BY <1>2, Zenon
  <2> HIDE DEF op, t
  <2>5. Leads(<<op>>, FALSE, t)
    BY <2>1, <2>2, <2>3 DEF Leads, Operations
  <2>6. WriterOKNext(t)
    BY <1>0, <1>6, <2>4, <2>5, RequestServes, ZenonT(40)
  <2>q. QED BY <2>6
<1>9. ASSUME best' # best PROVE WriterOKNext(t)
  <2>1. op = Asks(t)
    BY <1>2, <1>6, <1>9, OperationOf DEF RecomputeChange, Asks
  <2>2. op \in Operations /\ op # None
    BY <2>1, <1>6, OperationIsSome, SMTT(40) DEF Asks, Operations, Targets
  <2>3. LastAsked(<<op>>) = op
    BY LastOfOne
  <2>4. Request(<<op>>, FALSE)
    BY <1>2, Zenon
  <2> HIDE DEF op, t
  <2>5. Leads(<<op>>, FALSE, t)
    BY <2>1, <2>2, <2>3, SMTT(40) DEF Leads
  <2>6. WriterOKNext(t)
    BY <1>0, <1>6, <2>4, <2>5, RequestServes, Zenon
  <2>q. QED BY <2>6
<1>10. FrameNext
  BY <1>u, Zenon DEF IInv, TypeOK, Placed, FrameNext, Routing
<1>11. Judged'
  BY <1>0, <1>u DEF Judged, Accepts
<1> HIDE DEF t
<1>q. QED BY <1>7, <1>8, <1>9, <1>10, <1>11, Assemble DEF t

\* The writer brings the kernel to what the slot asks for.
LEMMA WriteInv ==
  ASSUME IInv, NEW ok \in BOOLEAN, Write(ok)
  PROVE  IInv'
<1>0. Tables /\ WriterOK(Target(cand, best)) /\ Judged
  BY Disassemble
<1>1. /\ permit /\ permit' = FALSE /\ pending' = None
      /\ kernel' = IF ok THEN Written(pending, kernel) ELSE kernel
      /\ excused' = (excused \/ ~ok)
      /\ UNCHANGED <<v6, held, tables, snapshot, changed, accept, kept>>
  BY DEF Write
<1>2. UNCHANGED <<adjIn, cand, best>>
  BY <1>1 DEF tables
<1>3. pending \in Operations \ {None}
  BY <1>0, <1>1 DEF WriterOK
<1>4. Written(pending, kernel) \in {Null} \cup Targets
  BY <1>0, <1>3, WrittenTypes DEF WriterOK
<1>5. ~excused' => kernel' = Target(cand', best')
  BY <1>0, <1>1, <1>2, <1>3, Zenon DEF WriterOK, Served
<1>6. WriterOKNext(Target(cand', best'))
  BY <1>0, <1>1, <1>4, <1>5, ZenonT(40) DEF WriterOKNext, WriterOK, Served, Operations
<1>7. FrameNext /\ LocRibNext
  BY <1>1, <1>2 DEF IInv, TypeOK, Placed, FrameNext, LocRibNext, Routing
<1>8. Judged'
  BY <1>0, <1>1, <1>2, SMTT(40) DEF Judged, Accepts
<1>q. QED BY <1>6, <1>7, <1>8, Assemble

\* What a new run finds: empty tables and whatever it could not delete.
LEMMA EmptyInv ==
  ASSUME v6' \in BOOLEAN, held' = {}, adjIn' = [p \in Peers |-> None],
         cand' = [p \in Sources |-> None], best' = None, snapshot' = {},
         changed' = FALSE, accept' = Peers, pending' = None, permit' = FALSE,
         kernel' \in {Null} \cup Targets, excused' = (kernel' # None), kept' = {}
  PROVE  IInv'
<1>1. FrameNext
  BY Zenon DEF FrameNext, Routing
<1>2. LocRibNext
  BY DEF LocRibNext, Routing
<1>3. WriterOKNext(Target(cand', best'))
  BY Zenon DEF WriterOKNext, Served, Target, Operations
<1>4. Judged'
  BY DEF Judged, Sources
<1>q. QED BY <1>1, <1>2, <1>3, <1>4, Assemble

LEMMA RestartInv == ASSUME IInv, Restart PROVE IInv'
<1>1. kernel \in {Null} \cup Targets /\ v6 \in BOOLEAN
  BY DEF IInv, TypeOK, Targets
<1>2. Withdraw \in Operations \ {None} /\ None \in Targets
  BY OperationIsSome DEF Operations, Targets
<1>3. Written(Withdraw, kernel) \in {Null} \cup Targets
  BY <1>1, <1>2, WrittenTypes
<1>q. QED BY <1>1, <1>2, <1>3, EmptyInv, Zenon DEF Restart

LEMMA InitInv == Init => IInv
<1> SUFFICES ASSUME Init PROVE IInv
  OBVIOUS
<1>1. TypeOK
  BY ZenonT(40) DEF Init, TypeOK, Operations
<1>2. Placed
  BY DEF Init, Placed
<1>3. Served(pending, kernel, excused, Target(cand, best))
  BY DEF Init, Served, Target
<1>4. Judged
  BY DEF Init, Judged, Sources
<1>q. QED BY <1>1, <1>2, <1>3, <1>4 DEF IInv

\* Nothing in the tables moves.
LEMMA StillInv ==
  ASSUME IInv, UNCHANGED <<v6, tables, accept, writer, kept>>, held' \subseteq Peers,
         snapshot' \subseteq KernelRoutes, changed' \in BOOLEAN
  PROVE  IInv'
BY ZenonT(40) DEF IInv, TypeOK, Placed, Judged, Accepts, tables, writer, Target

LEMMA StepInv == IInv /\ [Next]_vars => IInv'
<1> SUFFICES ASSUME IInv, [Next]_vars PROVE IInv'
  BY SMTT(40)
<1>0. held \subseteq Peers /\ snapshot \subseteq KernelRoutes /\ changed \in BOOLEAN
  BY DEF IInv, TypeOK
<1>1. ASSUME NEW p \in Peers, Established(p) PROVE IInv'
  BY <1>0, <1>1, StillInv DEF Established
<1>2. ASSUME NEW p \in Peers, Terminated(p) \/ Prune(p) \/ Expired(p) PROVE IInv'
  BY <1>2, ForgetInv DEF Terminated, Prune, Expired
<1>3. ASSUME NEW p \in Peers, Held(p) PROVE IInv'
  BY <1>3, HeldInv
<1>4. ASSUME NEW p \in Peers, NEW over \in BOOLEAN, WithdrawRoute(p, over) PROVE IInv'
  BY <1>4, RemoveInv DEF WithdrawRoute
<1>5. ASSUME NEW p \in Peers, NEW over \in BOOLEAN,
             NEW a \in Announcements[p], NEW t \in Ages[p], Announce(p, a, t, over)
      PROVE  IInv'
  BY <1>5, AnnounceInv
<1>6. ASSUME NEW a \in Announcements[Local], NEW t \in Ages[Local],
             OriginateV4(a, t) \/ OriginateV6(a, t)
      PROVE  IInv'
  BY <1>6, OriginateInv
<1>7. CASE WithdrawOriginated
  BY <1>7, WithdrawOriginatedInv
<1>8. ASSUME NEW p \in Tuned, NEW yes \in BOOLEAN, SetImportDefault(p, yes) PROVE IInv'
  BY <1>8, SetImportDefaultInv, RibAssumption
<1>9. ASSUME NEW k \in KernelRoutes, NewRoute(k) \/ DelRoute(k) PROVE IInv'
  <2>1. snapshot' \subseteq KernelRoutes /\ changed' \in BOOLEAN
    BY <1>0, <1>9, Zenon DEF NewRoute, DelRoute
  <2>q. QED BY <1>0, <1>9, <2>1, StillInv DEF NewRoute, DelRoute
<1>10. CASE OnFibChange
  BY <1>10, OnFibChangeInv
<1>11. CASE Restart
  BY <1>11, RestartInv
<1>12. ASSUME NEW ok \in BOOLEAN, Write(ok) PROVE IInv'
  BY <1>12, WriteInv
<1>13. CASE UNCHANGED vars
  BY <1>0, <1>13, StillInv DEF vars
<1>q. QED
  BY <1>1, <1>2, <1>3, <1>4, <1>5, <1>6, <1>7, <1>8, <1>9, <1>10, <1>11, <1>12, <1>13, ZenonT(40)
  DEF Next

\* The inductive invariant holds for any peers, announcements, next hops and
\* metrics: the types, the places of routes in the tables, the pending slot
\* or the kernel serving the best route, and the candidates as policy judges
\* them (LocRib, FibManager, handle_update).
THEOREM Invariance == Spec => []IInv
<1>q. QED BY InitInv, StepInv, PTL DEF Spec

\* The tables, the slot and the kernel hold what they should hold.
THEOREM TypeCorrect == Spec => []TypeOK
<1>1. IInv => TypeOK
  BY DEF IInv
<1>q. QED BY <1>1, Invariance, PTL

\* For any peers, routes, next hops and metrics, whatever order UPDATEs, ends
\* of sessions, restarts, policy changes, kernel changes and writes come in:
\* with an empty slot and outside the known gaps the kernel has the best
\* route (FibManager, LocRib::insert, withdraw and recompute_all).
THEOREM KernelAlwaysFollows == Spec => []KernelFollows
<1>1. IInv => KernelFollows
  BY DEF IInv, KernelFollows, Served, Target
<1>q. QED BY <1>1, Invariance, PTL

\* For any peers and routes a candidate is what policy makes of the
\* Adj-RIB-In, or its peer is in kept (handle_update, reapply_import_policy,
\* mark_stale_and_repropagate).
THEOREM CandidatesAlwaysJudged == Spec => []Judged
<1>1. IInv => Judged
  BY DEF IInv
<1>q. QED BY <1>1, Invariance, PTL
=============================================================================
