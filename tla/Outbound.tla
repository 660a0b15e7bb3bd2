------------------------------ MODULE Outbound ------------------------------
(***************************************************************************)
(* From the Loc-RIB to what a neighbour believes: Adj-RIB-Out, the MRAI    *)
(* window, the coalescing buffers, the batched UPDATEs, the bounded        *)
(* channel to the session and the neighbour's own table.                   *)
(*                                                                         *)
(* The decision process is an environment here: best changes to any route  *)
(* of a source that may still have routes (module Rib has the decision     *)
(* process itself).  The selection-deferral gate is open (module Peers).   *)
(* No handler reads one peer's outbound state to change another's, so the  *)
(* peers outside Watched are sources of routes only.                       *)
(*                                                                         *)
(* One step is one handler run by the event loop, or one gRPC call, under  *)
(* the state's write lock.  The loop handles an event, then drains what    *)
(* has queued up meanwhile, then flushes: burst counts the events handled  *)
(* since the last flush, and only events of the drain come in between.     *)
(***************************************************************************)
EXTENDS Policy, FiniteSetsExt

CONSTANTS Watched,        \* peers whose outbound side is modelled
          V4, V6,         \* prefixes of the two families
          V6Peers,        \* peers that negotiate IPv6 unicast
          Announcements,  \* Announcements[p][n]: what p announces for n, and
                          \* what operators originate for Local
          Capacity,       \* slots of an update channel
          PerMessage,     \* NLRIs that fit one UPDATE
          MaxBurst        \* bound on the events one drain handles

ASSUME OutboundAssumption ==
  /\ Watched \subseteq Peers
  /\ V4 \cap V6 = {}
  /\ IsFiniteSet(V4 \cup V6)
  /\ V6Peers \subseteq Peers
  /\ Capacity \in Nat \ {0}
  /\ PerMessage \in Nat \ {0}
  /\ MaxBurst \in Nat \ {0}
  /\ \A s \in Peers \cup {Local}, n \in V4 \cup V6 :
       \A a \in Announcements[s][n] : a.path \in Seq(Segment)

Nlris == V4 \cup V6

VARIABLES best,     \* best[n]: the Loc-RIB's best route, or None
          link,     \* link[p]: "down", "up", or "ended": Terminated is queued
          up,       \* peers the daemon has as established (peer_types)
          holding,  \* peers whose routes are kept by graceful restart
          accept,   \* accept[p]: the export default is to accept
          burst,    \* events handled since the last flush
          out       \* out[p]: everything outbound of one peer, below

vars == <<best, link, up, holding, accept, burst, out>>

Family == {"v4", "v6"}
FamilyOf(n) == IF n \in V4 THEN "v4" ELSE "v6"

\* out[p] of a peer without a session.
Fresh == [adj     |-> [n \in Nlris |-> None],      \* Adj-RIB-Out
          window  |-> {},       \* prefixes sent within MRAI (mrai_last_sent)
          held    |-> {},       \* mrai_pending
          pending |-> [f \in Family |-> <<>>],        \* pending_decisions
          queued  |-> 0,        \* UPDATEs in the channel to the session
          mark    |-> "closed", \* no session, else "ok", "stalled": overflowed,
                                \* "stopping": told to stop
          view    |-> [n \in Nlris |-> None],  \* the neighbour's table once all
                                \* that is queued has arrived
          skew    |-> {},       \* history, see Bad
          owed    |-> {}]       \* history: changes the peer was not told of

\* on_route_update of a reflector adds the attributes of RFC 4456 to what an
\* internal peer sends, and handle_update ignores LOCAL_PREF of an external one.
WithSrc(a, s) ==
  [src |-> s, path |-> a.path, nh |-> a.nh, med |-> a.med, otc |-> a.otc,
   pref |-> IF TypeOf(s) = "External" THEN None ELSE a.pref,
   rr |-> a.rr \/ (IsRr /\ TypeOf(s) = "Internal"),
   comms |-> a.comms, rest |-> a.rest, tag |-> a.tag]

\* The routes for n the Loc-RIB may hold of a peer, and of our own.
Learned ==
  [p \in Peers |-> [n \in Nlris |->
     {ImportPolicy(p, WithSrc(a, p), FALSE, TRUE) : a \in Announcements[p][n]} \ {None}]]

Originated == [n \in Nlris |-> {WithSrc(a, Local) : a \in Announcements[Local][n]}]

RoutesOf(S, n) == Originated[n] \cup UNION {Learned[p][n] : p \in S}

\* The outcomes of the decision process for the prefixes ns when the peers S
\* may have routes in the Loc-RIB.
Outcomes(ns, S) ==
  LET may == [n \in ns |-> {None} \cup RoutesOf(S, n)]
  IN  {c \in [ns -> UNION {may[n] : n \in ns}] : \A n \in ns : c[n] \in may[n]}

Updated(f, g) == [n \in DOMAIN f |-> IF n \in DOMAIN g THEN g[n] ELSE f[n]]

(***************************************************************************)
(* Decisions, messages and the channel.                                    *)
(***************************************************************************)

Entry(p, n, b, acc, addr) ==
  IF n \in V6 THEN ExportedV6(p, b[n], acc, addr) ELSE Exported(p, b[n], acc, addr)

\* The decisions that turn o's Adj-RIB-Out entries into e: announce where the
\* entry is another route, withdraw where it is gone.
Changed(o, e) == {n \in DOMAIN e : e[n] # o.adj[n]}

Decisions(o, e) ==
  LET ds == {[n |-> n, e |-> e[n]] : n \in Changed(o, e)}
  IN  CHOOSE s \in Injection(1..Cardinality(ds), ds) : TRUE

\* Announcements with the same attributes share a group, which has the number
\* of the decision that opens it; the withdrawals are group 0. The IPv6 key
\* leaves the next hop out.
Key(f, w) == IF f = "v6" THEN [w EXCEPT !.nh = None] ELSE w

Groups(p, f, ds) ==
  LET key(i) == Key(f, Wire(p, ds[i].e))
  IN  [i \in DOMAIN ds |->
         IF ds[i].e = None THEN 0
         ELSE Min({j \in DOMAIN ds : ds[j].e # None /\ key(j) = key(i)})]

\* The decisions that open an UPDATE: those that find the last one of their
\* group full. An IPv6 group is one UPDATE whatever its size.
Openers(f, g) ==
  LET ahead(i) == Cardinality({j \in 1..(i - 1) : g[j] = g[i]})
  IN  {i \in DOMAIN g : IF f = "v6" /\ g[i] # 0 THEN ahead(i) = 0
                        ELSE ahead(i) % PerMessage = 0}

\* The UPDATEs flush_updates and flush_updates_v6 make of a batch, all the
\* withdrawals and then group after group: how many there are, and what number
\* at says of the prefix n.
Messages(p, f, ds) ==
  LET g     == Groups(p, f, ds)
      opens == Openers(f, g)
      at(i) == Cardinality({j \in opens : g[j] < g[i] \/ (g[j] = g[i] /\ j <= i)})
  IN  [len  |-> Cardinality(opens),
       says |-> {[at |-> at(i), n |-> ds[i].n,
                  wire |-> IF g[i] = 0 THEN None ELSE Wire(p, ds[g[i]].e)] : i \in DOMAIN ds}]

EndOfRib == [len |-> 1, says |-> {}]

\* The neighbour's table v after the first k UPDATEs of ms: of those that name
\* a prefix the last one counts.
Apply(v, ms, k) ==
  LET heard(n) == {s \in ms.says : s.n = n /\ s.at <= k}
  IN  [n \in Nlris |->
         IF heard(n) = {} THEN v[n]
         ELSE (CHOOSE s \in heard(n) : \A t \in heard(n) : t.at <= s.at).wire]

Overflows(o, ms) == o.mark # "closed" /\ o.queued + ms.len > Capacity

\* Mutant: the channel is taken to be unbounded.
TrySendUnbounded(o, ms) ==
  IF o.mark = "closed" THEN o
  ELSE [o EXCEPT !.queued = @ + ms.len, !.view = Apply(@, ms, ms.len)]

\* try_send of each message in turn, up to the first that finds the channel
\* full. A session that is over discards what it finds in the channel.
TrySend(o, ms) ==
  LET sent == IF Overflows(o, ms) THEN Capacity - o.queued ELSE ms.len
  IN  IF o.mark = "closed" THEN o
      ELSE [o EXCEPT !.queued = @ + sent,
                     !.view   = Apply(@, ms, sent),
                     !.mark   = IF Overflows(o, ms) THEN "stalled" ELSE @]

\* History: the prefixes of a batch whose UPDATEs need not say what the entry
\* is: a later decision has overtaken the one in the batch, or the next hop is
\* taken from another prefix's route.
Bad(p, f, o, ds) ==
  LET g == Groups(p, f, ds)
  IN  {n \in Nlris : \E i \in DOMAIN ds :
         /\ ds[i].n = n
         /\ \/ ds[i].e # o.adj[n]
            \/ f = "v6" /\ g[i] # 0 /\ ds[g[i]].e.nh # ds[i].e.nh}

\* flush_updates / flush_updates_v6 of one batch.
FlushUpdates(p, f, o, ds) ==
  IF ds = <<>> THEN o
  ELSE TrySend([o EXCEPT !.skew = (@ \ {ds[i].n : i \in DOMAIN ds}) \cup Bad(p, f, o, ds)],
               Messages(p, f, ds))

(***************************************************************************)
(* What a change of best routes does to one peer's outbound state o. live  *)
(* is the set of established peers, b the best routes after the change.    *)
(***************************************************************************)

Put(o, e) == [o EXCEPT !.adj = Updated(@, e), !.owed = @ \ DOMAIN e]

Entries(p, ns, b, addr) == [n \in ns |-> Entry(p, n, b, accept[p], addr)]

Reflected(p, ns, b, live) == {n \in ns : ~Unreflected(p, b[n], live)}

\* Mutant: a prefix that lost its last route is skipped.
PropagateV4OnlyBest(o, p, ns, b, live) ==
  LET e == Entries(p, Reflected(p, {n \in ns \cap V4 : b[n] # None}, b, live), b, "self")
  IN  [Put(o, e) EXCEPT !.pending["v4"] = @ \o Decisions(o, e)]

\* propagate_to_all_peers: towards an external peer an announcement within
\* MRAI of the last one is held back, its Adj-RIB-Out entry already made; a
\* withdrawal goes out at once.
PropagateV4(o, p, ns, b, live) ==
  LET e         == Entries(p, Reflected(p, ns \cap V4, b, live), b, "self")
      changed   == Changed(o, e)
      announced == {n \in changed : e[n] # None}
      limited   == PeerType[p] = "External"
      late      == IF limited THEN announced \cap o.window ELSE {}
  IN  [Put(o, e) EXCEPT
         !.pending["v4"] = @ \o Decisions(o, Restrict(e, DOMAIN e \ late)),
         !.held   = (@ \ changed) \cup late,
         !.window = IF limited THEN (@ \cup announced) \ (changed \ announced) ELSE @]

\* propagate_to_all_peers_v6: no MRAI.
PropagateV6(o, p, ns, b, live) ==
  LET e == Entries(p, Reflected(p, ns \cap V6, b, live), b, "self")
  IN  IF p \notin V6Peers THEN o
      ELSE [Put(o, e) EXCEPT !.pending["v6"] = @ \o Decisions(o, e)]

Propagate(o, p, ns, b, live) ==
  IF p \in live THEN PropagateV6(PropagateV4(o, p, ns, b, live), p, ns, b, live) ELSE o

\* The callers that send at once, without reflection rules, MRAI or buffer.
DirectV4(o, p, ns, b, addr) ==
  LET e == Entries(p, ns \cap V4, b, addr)
  IN  FlushUpdates(p, "v4", Put(o, e), Decisions(o, e))

DirectV6(o, p, ns, b) ==
  LET e == Entries(p, ns \cap V6, b, "self")
  IN  IF p \in V6Peers THEN FlushUpdates(p, "v6", Put(o, e), Decisions(o, e)) ELSE o

\* Mutant: a stalled channel drops the batch without a trace.
FlushPendingLossy(p, o) ==
  LET ds == o.pending
      o1 == [o EXCEPT !.pending = Fresh.pending]
  IN  IF Overflows(o, Messages(p, "v4", ds["v4"])) THEN o1
      ELSE FlushUpdates(p, "v6", FlushUpdates(p, "v4", o1, ds["v4"]), ds["v6"])

\* flush_pending for one peer: the IPv6 decisions are dropped when the IPv4
\* ones overflow the channel.
FlushPending(p, o) ==
  LET ds == o.pending
      v4 == FlushUpdates(p, "v4", [o EXCEPT !.pending = Fresh.pending], ds["v4"])
  IN  IF ds = Fresh.pending THEN o
      ELSE IF Overflows(o, Messages(p, "v4", ds["v4"])) THEN v4
      ELSE FlushUpdates(p, "v6", v4, ds["v6"])

\* take_stalled_peers and the Stop the loop sends to each of them.
TakeStalled(o) == IF o.mark = "stalled" THEN [o EXCEPT !.mark = "stopping"] ELSE o

\* dump_family_v4 and dump_family_v6: the whole table, then End-of-RIB.
DumpV4(o, p, b, live) ==
  LET e  == Entries(p, Reflected(p, {n \in V4 : b[n] # None}, b, live), b, "self")
      ds == Decisions(o, e)
      o1 == FlushUpdates(p, "v4", Put(o, e), ds)
  IN  IF Overflows(o, Messages(p, "v4", ds)) THEN o1 ELSE TrySend(o1, EndOfRib)

DumpV6(o, p, b, live) ==
  LET e  == Entries(p, Reflected(p, {n \in V6 : b[n] # None}, b, live), b, "self")
      ds == Decisions(o, e)
      o1 == FlushUpdates(p, "v6", Put(o, e), ds)
  IN  IF p \notin V6Peers THEN o
      ELSE IF Overflows(o, Messages(p, "v6", ds)) THEN o1 ELSE TrySend(o1, EndOfRib)

(***************************************************************************)
(* Session events.                                                         *)
(***************************************************************************)

Init ==
  /\ best = [n \in Nlris |-> None]
  /\ link = [p \in Peers |-> "down"]
  /\ up = {}
  /\ holding = {}
  /\ accept = [p \in Peers |-> TRUE]
  /\ burst = 0
  /\ out = [p \in Watched |-> Fresh]

\* An event of the drain, or the one that starts it.
Drained == burst < MaxBurst /\ burst' = burst + 1

\* The session comes up and on_established dumps both tables to it.
Established(p) ==
  /\ link[p] = "down"
  /\ Drained
  /\ link' = [link EXCEPT ![p] = "up"]
  /\ up' = up \cup {p}
  /\ holding' = holding \ {p}
  /\ out' = [q \in Watched |->
               LET o == [out[q] EXCEPT !.adj = Fresh.adj, !.mark = "ok"]
               IN  IF q = p THEN DumpV6(DumpV4(o, p, best, up'), p, best, up') ELSE out[q]]
  /\ UNCHANGED <<best, accept>>

\* The session ends: what the neighbour knew is gone, and the daemon will be
\* told by a Terminated event.
SessionEnds(p) ==
  /\ p \in Watched
  /\ link[p] = "up"
  /\ link' = [link EXCEPT ![p] = "ended"]
  /\ out' = [out EXCEPT ![p].queued = 0, ![p].view = Fresh.view,
                        ![p].skew = {}, ![p].mark = "closed"]
  /\ UNCHANGED <<best, up, holding, accept, burst>>

\* The daemon takes a Terminated event. For a peer that is a source only, the
\* end of the session is part of the step.
Terminated(p) ==
  /\ link[p] = IF p \in Watched THEN "ended" ELSE "up"
  /\ link' = [link EXCEPT ![p] = "down"]
  /\ up' = up \ {p}

\* A Terminated event taken as the first of a burst starts no drain.
TerminatedBurst == IF burst = 0 THEN UNCHANGED burst ELSE Drained

\* on_terminated without graceful restart: the peer's routes leave the
\* Loc-RIB and the other peers are told of the IPv4 ones only.
TerminatedClean(p) ==
  /\ Terminated(p)
  /\ TerminatedBurst
  /\ LET mine == {n \in Nlris : best[n] # None /\ best[n].src = p}
         had  == {n \in V4 : best[n] # None}
     IN  \E c \in Outcomes(mine, (up' \cup holding) \ {p}) :
           /\ best' = Updated(best, c)
           /\ out' = [q \in Watched |->
                        IF q = p THEN Fresh
                        ELSE IF q \in up'
                        THEN [DirectV4(out[q], q, had, best', "self") EXCEPT
                                !.owed = @ \cup (mine \cap V6)]
                        ELSE out[q]]
  /\ UNCHANGED <<holding, accept>>

\* on_terminated with graceful restart: the peer's routes stay, marked stale,
\* and the others are told of what that changes.
TerminatedHeld(p) ==
  /\ Terminated(p)
  /\ TerminatedBurst
  /\ holding' = holding \cup {p}
  /\ LET mine == {n \in Nlris : best[n] # None /\ best[n].src = p}
         had  == {n \in Nlris : best[n] # None}
     IN  \E c \in Outcomes(mine, up' \cup holding') :
           /\ \A n \in mine : c[n] # None
           /\ best' = Updated(best, c)
           /\ out' = [q \in Watched |->
                        IF q = p THEN [Fresh EXCEPT !.adj = out[p].adj]
                        ELSE IF q \in up'
                        THEN DirectV6(DirectV4(out[q], q, had, best', "self"), q, had, best')
                        ELSE out[q]]
  /\ UNCHANGED accept

\* An UPDATE of an established peer: the decision process runs for the
\* prefixes it names, and the results go to the buffers.
RouteUpdate(ns) ==
  /\ up # {}
  /\ Drained
  /\ \E c \in Outcomes(ns, up \cup holding) :
       /\ best' = Updated(best, c)
       /\ out' = [q \in Watched |-> Propagate(out[q], q, ns, best', up)]
  /\ UNCHANGED <<link, up, holding, accept>>

\* An End-of-RIB of p: its routes that it has not repeated are withdrawn and
\* the others are told at once, p itself is not.
EorPrune(p, ns) ==
  /\ p \in up
  /\ Drained
  /\ LET mine == {n \in ns : best[n] # None /\ best[n].src = p}
     IN  \E c \in Outcomes(mine, (up \cup holding) \ {p}) :
           /\ best' = Updated(best, c)
           /\ out' = [q \in Watched |->
                        IF q \in up \ {p}
                        THEN DirectV6(DirectV4(out[q], q, ns, best', "self"), q, ns, best')
                        ELSE IF q = p THEN [out[p] EXCEPT !.owed = @ \cup mine]
                        ELSE out[q]]
  /\ UNCHANGED <<link, up, holding, accept>>

\* An UPDATE that resets its session: the buffers are flushed first.
BadUpdate(p) ==
  /\ p \in up
  /\ burst < MaxBurst
  /\ burst' = 0
  /\ out' = [q \in Watched |->
               LET o == TakeStalled(FlushPending(q, out[q]))
               IN  IF q = p /\ o.mark # "closed" THEN [o EXCEPT !.mark = "stopping"] ELSE o]
  /\ UNCHANGED <<best, link, up, holding, accept>>

\* The event channel is empty: the buffers are flushed.
Flush ==
  /\ burst > 0
  /\ burst' = 0
  /\ out' = [q \in Watched |-> TakeStalled(FlushPending(q, out[q]))]
  /\ UNCHANGED <<best, link, up, holding, accept>>
(***************************************************************************)
(* Timers, the kernel's routing table and gRPC calls: never inside a burst. *)
(***************************************************************************)

\* The best routes of ns change, and the buffers are flushed at once.
Redecided(ns, q, b) == FlushPending(q, Propagate(out[q], q, ns, b, up))

\* on_fib_change: next hops became reachable or unreachable, and the best
\* routes of ns changed with them.
FibChange(ns) ==
  /\ burst = 0
  /\ \E c \in Outcomes(ns, up \cup holding) :
       /\ \A n \in ns : c[n] # best[n]
       /\ best' = Updated(best, c)
       /\ out' = [q \in Watched |-> TakeStalled(Redecided(ns, q, best'))]
  /\ UNCHANGED <<link, up, holding, accept, burst>>

\* originate_routes and originate_routes_v6: the originated route wins or
\* leaves the best route as it was.
Originate(ns) ==
  /\ burst = 0
  /\ \E c \in Outcomes(ns, {}) :
       /\ \A n \in ns : c[n] # None
       /\ best' = Updated(best, c)
       /\ out' = [q \in Watched |-> Redecided(ns, q, best')]
  /\ UNCHANGED <<link, up, holding, accept, burst>>

\* withdraw_originated_routes and withdraw_originated_routes_v6.
WithdrawOriginated(ns) ==
  /\ burst = 0
  /\ \A n \in ns : best[n] # None /\ best[n].src = Local
  /\ \E c \in Outcomes(ns, up \cup holding) :
       /\ \A n \in ns : c[n] \notin Originated[n]
       /\ best' = Updated(best, c)
       /\ out' = [q \in Watched |-> Redecided(ns, q, best')]
  /\ UNCHANGED <<link, up, holding, accept, burst>>

\* set_import_default, and the re-evaluation after a change of the ROA table.
ReevaluateImport(ns) ==
  /\ burst = 0
  /\ \E c \in Outcomes(ns, up \cup holding) :
       /\ best' = Updated(best, c)
       /\ out' = [q \in Watched |-> Redecided(ns, q, best')]
  /\ UNCHANGED <<link, up, holding, accept, burst>>

\* set_export_default: the peer's whole table again, under the new default
\* and with the BGP identifier for next hop.
SetExportDefault(p, v) ==
  /\ p \in Watched
  /\ burst = 0
  /\ accept' = [accept EXCEPT ![p] = v]
  /\ LET had == {n \in Nlris : best[n] # None}
         e   == [n \in had |-> Entry(p, n, best, v, IF n \in V4 THEN "id" ELSE "self")]
         o4  == FlushUpdates(p, "v4", Put(out[p], Restrict(e, had \cap V4)),
                             Decisions(out[p], Restrict(e, had \cap V4)))
         o6  == IF p \in V6Peers
                THEN FlushUpdates(p, "v6", Put(o4, Restrict(e, had \cap V6)),
                                  Decisions(o4, Restrict(e, had \cap V6)))
                ELSE o4
     IN  out' = IF p \in up THEN [out EXCEPT ![p] = o6] ELSE out
  /\ UNCHANGED <<best, link, up, holding, burst>>

\* on_gr_deadline_expired: the routes kept for p go, for both families.
GrExpires(p) ==
  /\ p \in holding
  /\ burst = 0
  /\ holding' = holding \ {p}
  /\ LET mine == {n \in Nlris : best[n] # None /\ best[n].src = p}
         had  == {n \in Nlris : best[n] # None}
     IN  \E c \in Outcomes(mine, up \cup holding') :
           /\ best' = Updated(best, c)
           /\ out' = [q \in Watched |->
                        IF q = p THEN [TakeStalled(out[p]) EXCEPT !.adj = Fresh.adj]
                        ELSE TakeStalled(
                          IF q \in up
                          THEN DirectV6(DirectV4(out[q], q, had, best', "self"), q, had, best')
                          ELSE out[q])]
  /\ UNCHANGED <<link, up, accept, burst>>

\* MRAI passes since the last announcement of n to p.
MraiElapses(p, n) ==
  /\ p \in Watched
  /\ n \in out[p].window
  /\ out' = [out EXCEPT ![p].window = @ \ {n}]
  /\ UNCHANGED <<best, link, up, holding, accept, burst>>

Ready(o) == o.held \ o.window

\* The MRAI timer: flush_mrai_pending propagates what was held back and is
\* outside its window again. History: what propagates to nothing, because
\* the Adj-RIB-Out entry is there already, joins skew.
MraiTick ==
  LET ready == UNION {Ready(out[p]) : p \in Watched}
      o1    == [p \in Watched |-> [out[p] EXCEPT !.held = @ \ Ready(out[p])]]
      o2    == [p \in Watched |-> Propagate(o1[p], p, ready, best, up)]
  IN  /\ burst = 0
      /\ ready # {}
      /\ out' = [p \in Watched |->
                   [TakeStalled(FlushPending(p, o2[p])) EXCEPT
                      !.skew = @ \cup {n \in Ready(out[p]) : o2[p].adj[n] = out[p].adj[n]}]]
      /\ UNCHANGED <<best, link, up, holding, accept, burst>>

\* The session writes the next UPDATE to the wire, in order and without loss.
Deliver(p) ==
  /\ p \in Watched
  /\ out[p].queued > 0
  /\ out' = [out EXCEPT ![p].queued = @ - 1]
  /\ UNCHANGED <<best, link, up, holding, accept, burst>>

\* Nonempty sets of prefixes of one family: what an UPDATE or a call names.
OneFamily == (SUBSET V4 \cup SUBSET V6) \ {{}}

Next ==
  \/ \E p \in Peers : \/ Established(p) \/ SessionEnds(p)
                      \/ TerminatedClean(p) \/ TerminatedHeld(p)
                      \/ BadUpdate(p) \/ GrExpires(p) \/ Deliver(p)
                      \/ \E v \in BOOLEAN : SetExportDefault(p, v)
                      \/ \E n \in V4 : MraiElapses(p, n)
                      \/ \E ns \in OneFamily : EorPrune(p, ns)
  \/ \E ns \in SUBSET Nlris \ {{}} : FibChange(ns) \/ ReevaluateImport(ns)
  \/ \E ns \in OneFamily : RouteUpdate(ns) \/ Originate(ns) \/ WithdrawOriginated(ns)
  \/ Flush
  \/ MraiTick

Spec == Init /\ [][Next]_vars

(***************************************************************************)
(* Properties.                                                             *)
(***************************************************************************)

\* Every table holds routes of its kind, a channel never exceeds its slots,
\* and outside a burst nothing waits in the coalescing buffers.
TypeOK ==
  /\ best \in Outcomes(Nlris, Peers)
  /\ up \subseteq Peers /\ holding \subseteq Peers \ up
  /\ accept \in [Peers -> BOOLEAN]
  /\ burst \in 0..MaxBurst
  /\ link \in [Peers -> {"down", "up", "ended"}]
  /\ up = {p \in Peers : link[p] # "down"}
  /\ \A p \in Watched :
       /\ out[p].mark \in {"closed", "ok", "stalled", "stopping"}
       /\ out[p].mark = "closed" <=> link[p] # "up"
       /\ out[p].window \subseteq V4 /\ out[p].held \subseteq V4
       /\ out[p].queued \in 0..Capacity
       /\ burst = 0 => out[p].pending = Fresh.pending

\* Whatever handler changed the best route last (UPDATE, End-of-RIB, session
\* loss, timer, kernel change, origination, policy change), the Adj-RIB-Out
\* of every established peer is the export of the best route: no path of the
\* daemon forgets a peer. Exempt are what a reflector may not pass on, which
\* the code leaves as it was, and the two changes it never tells (owed).
Tracks ==
  \A p \in up \cap Watched, n \in Nlris :
    Unreflected(p, best[n], up) \/ n \in out[p].owed \/ (n \in V6 /\ p \notin V6Peers) \/
      \E addr \in {"self", "id"} : out[p].adj[n] = Entry(p, n, best, accept[p], addr)

\* No Adj-RIB-Out ever holds a route towards the peer it came from, from one
\* internal peer to another without reflection, past a community that forbids
\* it, or from a provider, lateral peer or route server to another one (the
\* RFC 9234 valley-free rule the import and export terms implement together).
NoLeak ==
  \A p \in Watched, n \in Nlris :
    LET e == out[p].adj[n]
    IN  e # None =>
          /\ e.src # p
          /\ ~SplitHorizon(p, e.src)
          /\ ~Suppressed(p, e.comms)
          /\ ~(e.src \in Peers /\ Role[e.src] \in Upward /\ Role[p] \in Upward)

\* A healthy session's neighbour believes exactly what Adj-RIB-Out records,
\* counting what is queued: through bursts, overflow and session loss, but
\* for prefixes still buffered, held back by MRAI, or out of order (skew).
Converged ==
  \A p \in up \cap Watched, n \in Nlris :
    (/\ out[p].mark = "ok"
     /\ n \in V6 => p \in V6Peers
     /\ n \notin out[p].held \cup out[p].skew
     /\ \A d \in Range(out[p].pending[FamilyOf(n)]) : d.n # n)
    => out[p].view[n] = Wire(p, out[p].adj[n])

\* What a neighbour is told it can take from us, whichever handler and batch
\* the route came through: towards an external peer no confederation segment,
\* LOCAL_PREF or MED and our public AS in front, towards a member AS a
\* confederation sequence in front that starts with our own (the conditions
\* on which handle_update itself would treat the route as withdrawn), no
\* reflection attributes outside the AS, and no four-octet AS number for a
\* peer that cannot read it unless AS4_PATH has it.
Presentable ==
  \A p \in Watched, n \in Nlris :
    LET m == out[p].view[n]
    IN  m # None =>
          /\ PeerType[p] = "External" =>
               ~HasConfed(m.path) /\ m.pref = None /\ m.med = None
          /\ PeerType[p] = "ConfedMember" => Head(m.path).kind = "ConfedSequence"
          /\ PeerType[p] # "Internal" =>
               /\ ~m.rr
               /\ Head(Head(m.path).asns) \in
                    {Trans, IF PeerType[p] = "External" THEN PublicAs ELSE LocalAs}
          /\ p \in TwoByte => ~HasFourByte(m.path)
          /\ m.as4 # None => ~HasConfed(m.as4) /\ PathLength(m.as4) = PathLength(m.path)

\* What the documentation of flush_mrai_pending says: what MRAI held back
\* reaches the peer after the suppression window closes.
ReachesPeer ==
  \A p \in up \cap Watched, n \in V4 :
    (/\ out[p].mark = "ok"
     /\ n \notin out[p].held
     /\ \A d \in Range(out[p].pending["v4"]) : d.n # n)
    => out[p].view[n] = Wire(p, out[p].adj[n])
=============================================================================
