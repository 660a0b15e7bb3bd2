-------------------------------- MODULE Rib --------------------------------
(***************************************************************************)
(* The road of one prefix from the UPDATE messages of the peers to the     *)
(* kernel: Adj-RIB-In, import accept, Loc-RIB, best path, and the FIB      *)
(* writer with its one pending slot per prefix, while next hops come and   *)
(* go in the kernel, policy changes, writes fail and the daemon restarts.  *)
(*                                                                         *)
(* Prefixes do not interact in these tables, so one is enough. The variable *)
(* v6 says of which family it is, for the places where the code differs.   *)
(***************************************************************************)
EXTENDS BestPath

CONSTANTS Announcements,  \* Announcements[p]: what p, or Local, may announce
          Hops,           \* next hops, none of them link-local
          Ages,           \* Ages[p]: times of receipt (SystemTime, which may jump)
          KernelRoutes,   \* routes the kernel may have besides those of BGP: a
                          \* prefix net of length len with a metric, and the
                          \* next hops it covers
          LocalAs,        \* our AS number
          ConfederationId,\* that of our confederation, or None
          Helped,         \* peers that negotiated graceful restart
          Tuned,          \* peers whose import default is changed at run time
          Reflector       \* whether this daemon reflects routes (RFC 4456)

(***************************************************************************)
(* An announcement has the fields pref, path, origin, med and nh, and      *)
(*   hole    - it carries the BLACKHOLE community (RFC 7999)               *)
(*   marks   - what else handle_update looks at, below                     *)
(***************************************************************************)

\* A mandatory attribute is missing; a useless NEXT_HOP; our identifier or
\* cluster among those the route was reflected by.
Marks == {"missing", "hop", "reflected"}

ASSUME RibAssumption ==
  /\ Helped \cup Tuned \subseteq Peers
  /\ Reflector \in BOOLEAN
  /\ IsFiniteSet(Peers)
  /\ \A k \in KernelRoutes : k.len \in 0..128 /\ k.metric \in Nat \ {None}
  /\ \A p \in Peers \cup {Local} : Ages[p] \subseteq Nat
  /\ \A p \in Peers \cup {Local} : \A a \in Announcements[p] :
       /\ a.path \in Seq(Segment)
       /\ a.pref \in Nat \cup {None}
       /\ a.med \in Nat \cup {None}
       /\ a.origin \in Nat
       /\ a.nh \in Hops
       /\ a.hole \in BOOLEAN
       /\ a.marks \subseteq Marks

VARIABLES v6,        \* the family of the prefix
          held,      \* peers that are down in graceful restart
          adjIn,     \* adjIn[p]: the route p announced, before policy
          cand,      \* cand[p]: the Loc-RIB candidate from p, or from Local
          best,      \* whose candidate is best
          snapshot,  \* FibSnapshot: the kernel's other routes
          changed,   \* a FIB change notification is waiting for the event loop
          accept,    \* peers whose import policy accepts by default
          pending,   \* FibManager: the slot of the prefix
          permit,    \* FibManager: the Notify permit
          kernel,    \* what the kernel has for the prefix
          excused,   \* history: the kernel was left behind by a known gap
          kept       \* history: peers whose candidate the policy did not give

tables == <<adjIn, cand, best>>
writer == <<pending, permit, kernel, excused>>
vars == <<v6, held, tables, snapshot, changed, accept, writer, kept>>

Sources == Peers \cup {Local}

\* LOCAL_PREF of an external peer is ignored.
LocalPref(p, a) == IF p \in Peers /\ PeerType[p] = "External" THEN None ELSE a.pref

RouteOf(p, a, t, stale) ==
  [pref |-> LocalPref(p, a), path |-> a.path, origin |-> a.origin, med |-> a.med, nh |-> a.nh,
   hole |-> a.hole, age |-> t, stale |-> stale, src |-> p]

\* The route handle_update builds from announcement a of p at time t.
Received(p, a, t) == RouteOf(p, a, t, FALSE)

Routes ==
  UNION {{RouteOf(p, a, t, s) : a \in Announcements[p], t \in Ages[p], s \in BOOLEAN} :
           p \in Sources}

\* None is neither a source, a route, nor an operation.
ASSUME NoneAssumption ==
  /\ None \notin Sources \cup Routes
  /\ \A op \in {"Install", "Blackhole", "Withdraw", "WithdrawBlackhole", "null"} :
       \A h \in Hops \cup {None} : [op |-> op, via |-> h] # None

\* Policy::evaluate, for the default action. (The RPKI term reads the ROA
\* table of RtrSync; the RFC 9234 terms are in Policy.)
Accepts(p) == p \in accept

Install(h) == [op |-> "Install", via |-> h]
Blackhole == [op |-> "Blackhole", via |-> None]
Withdraw == [op |-> "Withdraw", via |-> None]
WithdrawBlackhole == [op |-> "WithdrawBlackhole", via |-> None]
Null == [op |-> "null", via |-> None]

\* The oracle, lpm_v4 and lpm_v6: the metric of the most specific kernel route
\* to each next hop, None for one that is not reachable.
Igp ==
  [h \in Hops |->
     LET covering == {k \in snapshot : h \in k.covers}
     IN  IF covering = {} THEN None
         ELSE (CHOOSE k \in covering : \A j \in covering : j.len <= k.len).metric]

(***************************************************************************)
(* LocRib: what an operation leaves as best, and the BestPathChange it     *)
(* reports. A change is a record [kind |-> ..., via |-> the next hop].     *)
(***************************************************************************)

Candidates(c) == {c[p] : p \in Sources} \ {None}

SrcOf(r) == IF r = None THEN None ELSE r.src

Unchanged == [kind |-> "Unchanged", via |-> None]
Withdrawn == [kind |-> "Withdrawn", via |-> None]
Announced(r) == [kind |-> "Announced", via |-> r.nh]

\* LocRib::insert after recompute_best has found w. It reports no change
\* when the insertion leaves the prefix without a best route.
InsertChange(p, w) ==
  IF w = None \/ (w.src = best /\ w.src # p) THEN Unchanged ELSE Announced(w)

\* Mutant: losing the winner is reported only when no other takes its place.
WithdrawChangeLastOnly(p, w) ==
  IF w = None /\ best # None THEN Withdrawn ELSE Unchanged

\* LocRib::withdraw of a candidate of p, likewise.
WithdrawChange(p, w) ==
  IF w = None THEN IF best = None THEN Unchanged ELSE Withdrawn
  ELSE IF w.src = best /\ best # p THEN Unchanged
  ELSE Announced(w)

\* LocRib::recompute_all: the same winner is no change.
RecomputeChange(w) ==
  IF SrcOf(w) = best THEN Unchanged
  ELSE IF w = None THEN Withdrawn ELSE Announced(w)

\* What may be best once the candidate of p is r, or gone when r is None. To
\* withdraw a candidate that is not there selects nothing anew.
Winners(p, r) ==
  IF r = None /\ cand[p] = None THEN {IF best = None THEN None ELSE cand[best]}
  ELSE SelectBest(Candidates([cand EXCEPT ![p] = r]), Igp)

\* The Loc-RIB after that, with w best, and the change it reports.
Put(p, r, w) == cand' = [cand EXCEPT ![p] = r] /\ best' = SrcOf(w)

Change(p, r, w) ==
  IF r # None THEN InsertChange(p, w)
  ELSE IF cand[p] = None THEN Unchanged ELSE WithdrawChange(p, w)

(***************************************************************************)
(* FibManager.                                                             *)
(***************************************************************************)

\* apply_v4, apply_v6: the operation a change asks for, None for no change.
Operation(change) ==
  CASE change.kind = "Announced" -> Install(change.via)
    [] change.kind = "Withdrawn" -> Withdraw
    [] OTHER -> None

\* Mutant: the slot is filled and the writer is not woken.
NotifyNobody == UNCHANGED permit

\* Notify::notify_one
NotifyOne == permit' = TRUE

\* The last of the operations a handler asks for in turn, None for none.
LastAsked(ops) ==
  LET asked == {i \in DOMAIN ops : ops[i] # None}
  IN  IF asked = {} THEN None ELSE ops[CHOOSE i \in asked : \A j \in asked : j <= i]

\* The slot keeps the last operation and the writer is woken. lost says that
\* the handler changed the best route without telling the FIB manager. Only
\* an Install makes the kernel right again whatever it had: a Withdraw leaves
\* a null route where it is, also when it has overtaken the Install that
\* would have replaced it.
Request(ops, lost) ==
  LET op   == LastAsked(ops)
      hole == \/ \E i \in DOMAIN ops : ops[i] \in {Blackhole, WithdrawBlackhole}
              \/ kernel = Null
  IN  IF op = None
      THEN /\ UNCHANGED <<pending, permit, kernel>>
           /\ excused' = (excused \/ lost)
      ELSE /\ pending' = op
           /\ NotifyOne
           /\ excused' = IF op.op = "Install" THEN FALSE ELSE excused \/ lost \/ hole
           /\ UNCHANGED kernel

\* The gap in LocRib::insert: the best route is gone and nobody is told.
Silent(w) == w = None /\ best # None

IfHole(r, op) == IF r # None /\ r.hole THEN op ELSE None

(***************************************************************************)
(* Sessions and UPDATE messages. The event loop handles one event at a     *)
(* time.                                                                   *)
(***************************************************************************)

Init ==
  /\ v6 \in BOOLEAN
  /\ held = {}
  /\ adjIn = [p \in Peers |-> None]
  /\ cand = [p \in Sources |-> None]
  /\ best = None
  /\ snapshot = {}
  /\ changed = FALSE
  /\ accept = Peers
  /\ pending = None /\ permit = FALSE /\ kernel = None
  /\ excused = FALSE
  /\ kept = {}

\* on_established of a peer that returns within its restart time, for a
\* family whose routes it keeps. (A peer that was not held has nothing in
\* these tables while it is down, and its new session brings nothing.)
Established(p) ==
  /\ p \in held
  /\ held' = held \ {p}
  /\ UNCHANGED <<v6, tables, snapshot, changed, accept, writer, kept>>

\* on_route_update past handle_update: an UPDATE that takes the peer over its
\* maximum-prefix limit (over) returns before the FIB manager is called.
Finish(ops, over, silent) ==
  IF over THEN Request(<<>>, silent \/ \E i \in DOMAIN ops : ops[i] # None)
  ELSE Request(ops, silent)

\* A withdrawal, or an announcement treated as one. Removing a BLACKHOLE
\* route puts the surviving best route back.
Remove(p, over) ==
  \E w \in Winners(p, None) :
    /\ adjIn' = [adjIn EXCEPT ![p] = None]
    /\ Put(p, None, w)
    /\ kept' = kept \ {p}
    /\ Finish(<<Operation(Change(p, None, w)), IfHole(adjIn[p], WithdrawBlackhole),
                IfHole(adjIn[p], IF w = None THEN None ELSE Install(w.nh))>>, over, FALSE)

WithdrawRoute(p, over) ==
  /\ p \notin held
  /\ Remove(p, over)
  /\ UNCHANGED <<v6, held, snapshot, changed, accept>>

\* Mutant: the unicast route of the peer stays in the Loc-RIB.
HoleBesides(p, r, over) ==
  /\ adjIn' = [adjIn EXCEPT ![p] = r]
  /\ Finish(<<Blackhole>>, over, FALSE)
  /\ kept' = kept \ {p}
  /\ UNCHANGED <<cand, best>>

\* A BLACKHOLE route goes past the Loc-RIB into the kernel.
Hole(p, r, over) ==
  \E w \in Winners(p, None) :
    /\ adjIn' = [adjIn EXCEPT ![p] = r]
    /\ Put(p, None, w)
    /\ kept' = kept \ {p}
    /\ Finish(<<Operation(Change(p, None, w)), Blackhole>>, over, FALSE)

\* A route the import policy accepts.
Accepted(p, r, over) ==
  \E w \in Winners(p, r) :
    /\ adjIn' = [adjIn EXCEPT ![p] = r]
    /\ Put(p, r, w)
    /\ kept' = kept \ {p}
    /\ Finish(<<Operation(Change(p, r, w))>>, over, Silent(w))

\* A route it rejects: what the Loc-RIB had from p stays.
Rejected(p, r) ==
  /\ adjIn' = [adjIn EXCEPT ![p] = r]
  /\ kept' = IF cand[p] = None THEN kept ELSE kept \cup {p}
  /\ UNCHANGED <<cand, best, writer>>

\* on_route_update discards an UPDATE that this reflector has passed on.
Reflected(p, a) == Reflector /\ PeerType[p] = "Internal" /\ "reflected" \in a.marks

\* RFC 7607, and RFC 4271 section 9.1.2: the announcement is skipped.
Looped(a) == \E asn \in {0, LocalAs, ConfederationId} : Traverses(a.path, asn)

\* RFC 5065 section 5: the AS_PATH does not suit the relation to the peer.
Malformed(p, a) ==
  \/ PeerType[p] = "External" /\ HasConfed(a.path)
  \/ /\ PeerType[p] = "ConfedMember"
     /\ a.path = <<>> \/ Head(a.path).kind # "ConfedSequence"

\* RFC 7606 section 3, treat-as-withdraw. The loop checks run first, and
\* empty the lists of MP_REACH_NLRI: such a route is skipped after all.
AsWithdrawn(p, a) ==
  \/ "missing" \in a.marks
  \/ Malformed(p, a) /\ ~(v6 /\ Looped(a))

Skipped(p, a) ==
  Reflected(p, a) \/ (~AsWithdrawn(p, a) /\ (Looped(a) \/ "hop" \in a.marks))

Announce(p, a, t, over) ==
  LET r     == Received(p, a, t)
      valid == ~Skipped(p, a) /\ ~AsWithdrawn(p, a)
  IN  /\ p \notin held
      /\ \/ Skipped(p, a) /\ UNCHANGED <<tables, writer, kept>>
         \/ ~Skipped(p, a) /\ AsWithdrawn(p, a) /\ Remove(p, over)
         \/ valid /\ a.hole /\ Hole(p, r, over)
         \/ valid /\ ~a.hole /\ Accepts(p) /\ Accepted(p, r, over)
         \/ valid /\ ~a.hole /\ ~Accepts(p) /\ Rejected(p, r)
      /\ UNCHANGED <<v6, held, snapshot, changed, accept>>

\* on_terminated and on_gr_deadline_expired: everything p gave is forgotten.
Forget(p) ==
  \E w \in Winners(p, None) :
    /\ adjIn' = [adjIn EXCEPT ![p] = None]
    /\ Put(p, None, w)
    /\ kept' = kept \ {p}
    /\ Request(<<IfHole(adjIn[p], WithdrawBlackhole), Operation(Change(p, None, w))>>, FALSE)
    /\ UNCHANGED <<v6, snapshot, changed, accept>>

\* on_terminated outside graceful restart.
Terminated(p) ==
  /\ p \notin held
  /\ Forget(p)
  /\ UNCHANGED held

\* on_terminated entering graceful restart, mark_stale_and_repropagate: the
\* routes of the Adj-RIB-In go into the Loc-RIB again, marked stale, without
\* a look at the import policy or the BLACKHOLE community.
Held(p) ==
  /\ p \in Helped \ held /\ adjIn[p] # None
  /\ held' = held \cup {p}
  /\ LET r == RouteOf(p, adjIn[p], adjIn[p].age, TRUE)
     IN  \E w \in Winners(p, r) :
           /\ adjIn' = [adjIn EXCEPT ![p] = r]
           /\ Put(p, r, w)
           /\ kept' = IF r.hole \/ ~Accepts(p) THEN kept \cup {p} ELSE kept \ {p}
           /\ Request(<<Operation(Change(p, r, w))>>, Silent(w))
  /\ UNCHANGED <<v6, snapshot, changed, accept>>

Stale(p) == adjIn[p] # None /\ adjIn[p].stale

\* prune_stale_nlri at the End-of-RIB of the new session.
Prune(p) ==
  /\ p \notin held /\ Stale(p)
  /\ Forget(p)
  /\ UNCHANGED held

\* on_gr_deadline_expired
Expired(p) ==
  /\ p \in held
  /\ Forget(p)
  /\ held' = held \ {p}

(***************************************************************************)
(* Routes of our own.                                                      *)
(***************************************************************************)

\* originate_routes: the change for the FIB is dropped.
OriginateV4(a, t) ==
  /\ ~v6
  /\ LET r == Received(Local, a, t)
     IN  \E w \in Winners(Local, r) :
           /\ Put(Local, r, w)
           /\ Request(<<>>, Operation(Change(Local, r, w)) # None \/ Silent(w))
  /\ UNCHANGED <<v6, held, adjIn, snapshot, changed, accept, kept>>

\* originate_routes_v6
OriginateV6(a, t) ==
  /\ v6
  /\ LET r == Received(Local, a, t)
     IN  \E w \in Winners(Local, r) :
           /\ Put(Local, r, w)
           /\ Request(<<Operation(Change(Local, r, w))>>, Silent(w))
  /\ UNCHANGED <<v6, held, adjIn, snapshot, changed, accept, kept>>

\* withdraw_originated_routes
WithdrawOriginated ==
  /\ \E w \in Winners(Local, None) :
       /\ Put(Local, None, w)
       /\ Request(<<Operation(Change(Local, None, w))>>, FALSE)
  /\ UNCHANGED <<v6, held, adjIn, snapshot, changed, accept, kept>>

(***************************************************************************)
(* Import policy.                                                          *)
(***************************************************************************)

\* set_import_default and reapply_import_policy: the Adj-RIB-In of p is judged
\* again, its BLACKHOLE routes like any other.
SetImportDefault(p, yes) ==
  LET r == IF yes THEN adjIn[p] ELSE None
  IN  /\ accept' = IF yes THEN accept \cup {p} ELSE accept \ {p}
      /\ IF adjIn[p] = None THEN UNCHANGED <<cand, best, writer, kept>>
         ELSE \E w \in Winners(p, r) :
                /\ Put(p, r, w)
                /\ kept' = IF r # None /\ r.hole THEN kept \cup {p} ELSE kept \ {p}
                /\ Request(<<Operation(Change(p, r, w))>>, r # None /\ Silent(w))
      /\ UNCHANGED <<v6, held, adjIn, snapshot, changed>>

(***************************************************************************)
(* The kernel: its other routes, and the writer task.                      *)
(***************************************************************************)

\* apply_new: one entry per prefix. (The dump that fills the snapshot at the
\* start is a run of these.)
NewRoute(k) ==
  /\ k \notin snapshot
  /\ snapshot' = {j \in snapshot : j.net # k.net \/ j.len # k.len} \cup {k}
  /\ changed' = TRUE
  /\ UNCHANGED <<v6, held, tables, accept, writer, kept>>

\* apply_del
DelRoute(k) ==
  /\ k \in snapshot
  /\ snapshot' = snapshot \ {k}
  /\ changed' = TRUE
  /\ UNCHANGED <<v6, held, tables, accept, writer, kept>>

\* on_fib_change: recompute_all.
OnFibChange ==
  /\ changed
  /\ changed' = FALSE
  /\ \E w \in SelectBest(Candidates(cand), Igp) :
       /\ best' = SrcOf(w)
       /\ Request(<<Operation(RecomputeChange(w))>>, FALSE)
  /\ UNCHANGED <<v6, held, adjIn, cand, snapshot, accept, kept>>

\* Mutant: the kernel keeps the operation, not its effect.
WrittenVerbatim(op, k) == op

\* The kernel: an install replaces what is there, a delete takes only a route
\* of its own type.
Written(op, k) ==
  CASE op.op = "Install" -> op
    [] op.op = "Blackhole" -> Null
    [] op.op = "Withdraw" -> IF k = Null THEN Null ELSE None
    [] OTHER -> IF k = Null THEN None ELSE k

\* spawn_writer and process_batch: the permit is consumed, the slot emptied
\* and its operation written; a failure is logged and forgotten. Operations
\* are written one after the other and only the writer touches the kernel's
\* BGP routes, so the time one takes is of no account.
Write(ok) ==
  /\ permit
  /\ permit' = FALSE
  /\ pending' = None
  /\ kernel' = IF ok THEN Written(pending, kernel) ELSE kernel
  /\ excused' = (excused \/ ~ok)
  /\ UNCHANGED <<v6, held, tables, snapshot, changed, accept, kept>>

\* A crash and a new start: run_with deletes the BGP routes of the previous
\* run with withdraw_stale_bgp_routes, which may fail, before anything else.
Restart ==
  /\ held' = {}
  /\ adjIn' = [p \in Peers |-> None]
  /\ cand' = [p \in Sources |-> None]
  /\ best' = None
  /\ snapshot' = {}
  /\ changed' = FALSE
  /\ accept' = Peers
  /\ pending' = None /\ permit' = FALSE
  /\ kernel' \in {kernel, IF kernel = None THEN None ELSE Written(Withdraw, kernel)}
  /\ excused' = (kernel' # None)
  /\ kept' = {}
  /\ UNCHANGED v6

Next ==
  \/ \E p \in Peers :
       \/ Established(p) \/ Terminated(p) \/ Held(p) \/ Prune(p) \/ Expired(p)
       \/ \E over \in BOOLEAN :
            \/ WithdrawRoute(p, over)
            \/ \E a \in Announcements[p], t \in Ages[p] : Announce(p, a, t, over)
  \/ \E a \in Announcements[Local], t \in Ages[Local] : OriginateV4(a, t) \/ OriginateV6(a, t)
  \/ WithdrawOriginated
  \/ \E p \in Tuned, yes \in BOOLEAN : SetImportDefault(p, yes)
  \/ \E k \in KernelRoutes : NewRoute(k) \/ DelRoute(k)
  \/ OnFibChange \/ Restart
  \/ \E ok \in BOOLEAN : Write(ok)

\* The writer is a task of its own that awaits nothing but netlink.
Spec == Init /\ [][Next]_vars /\ WF_vars(\E ok \in BOOLEAN : Write(ok))

(***************************************************************************)
(* Properties.                                                             *)
(***************************************************************************)

Operations ==
  {Blackhole, Withdraw, WithdrawBlackhole, None} \cup {Install(h) : h \in Hops}

\* Every variable holds a value of its type.
TypeOK ==
  /\ v6 \in BOOLEAN /\ held \subseteq Peers
  /\ adjIn \in [Peers -> Routes \cup {None}]
  /\ cand \in [Sources -> Routes \cup {None}]
  /\ best \in Sources \cup {None}
  /\ snapshot \subseteq KernelRoutes
  /\ {changed, permit, excused} \subseteq BOOLEAN
  /\ accept \subseteq Peers /\ kept \subseteq Peers
  /\ pending \in Operations
  /\ kernel \in {None, Null} \cup {Install(h) : h \in Hops}

\* Whatever order peers, next hops and policies changed in, the best route is
\* the one RFC 4271's elimination leaves, unless a change of the kernel's
\* routes is still to be handled (LocRib::insert, withdraw, recompute_all and
\* the grouping by neighbouring AS of select_best_with_oracle).
SelectionSound ==
  ~changed =>
    LET left == MostPreferred(Candidates(cand), Igp)
    IN  IF left = {} THEN best = None ELSE left = {cand[best]}

\* Once the writer has nothing left to do, the kernel has the next hop of the
\* best route, and nothing when there is none: no sequence of coalesced,
\* overtaken or replaced operations leaves another state ("the kernel always
\* converges to the correct final state", fib.rs). Excused are the known
\* gaps: a failed write, BLACKHOLE routes over the same prefix, an
\* insertion that leaves no reachable route, an UPDATE over the prefix limit,
\* and IPv4 routes of our own.
KernelFollows ==
  pending = None /\ ~excused =>
    kernel = IF best = None THEN None ELSE Install(cand[best].nh)

\* What policy judges now is what the Loc-RIB has: through changes of the
\* default action, each candidate of a peer is the accepted route of its
\* Adj-RIB-In, except where a rejected replacement, a stale mark or a judged
\* BLACKHOLE route left another (handle_update, reapply_import_policy).
Judged ==
  \A p \in Peers \ kept :
    cand[p] = IF adjIn[p] = None THEN None
              ELSE IF adjIn[p].hole \/ ~Accepts(p) THEN None ELSE adjIn[p]

\* Every operation handed to the FIB manager is taken up by the writer ("no
\* updates are ever dropped", fib.rs), though the permit holds one wake-up
\* and the writer may be busy when the operation comes.
Drains == pending # None ~> pending = None
=============================================================================
