-------------------------------- MODULE Peers --------------------------------
(***************************************************************************)
(* The life of a neighbour in the daemon: added, established, restarting,  *)
(* held back, terminated, removed; what graceful restart (RFC 4724, RFC    *)
(* 8538) keeps of its routes meanwhile; and the selection-deferral gate    *)
(* that decides when an established neighbour gets our table.              *)
(*                                                                         *)
(* A session actor (module Session) belongs to one address; it sends the   *)
(* daemon events, in order, and gets commands back. The daemon knows       *)
(* addresses only, so an actor that outlives the removal of its peer still *)
(* speaks for the address. One step is one event, timer or command handled *)
(* under the state's write lock.                                           *)
(***************************************************************************)
EXTENDS Naturals, FiniteSets

CONSTANTS None,
          Peers,         \* addresses of neighbours
          Plans,         \* sets of neighbours configured together
          Managed,       \* neighbours that are removed, or stall
          Actors,        \* Actors[p]: actors that may be spawned for p, in order
          Offers,        \* Offers[p]: capabilities p may send in an OPEN
          V4, V6,        \* prefixes of the two families
          Announces,     \* Announces[p]: prefixes p may announce
          How,           \* How[p]: what may become of p's announcements
          Limit,         \* Limit[p][f]: max_prefixes, or None
          IdleHolds,     \* neighbours with max_prefixes_restart
          WeNotify,      \* we advertise the N-bit of RFC 8538
          Deferring      \* whether there is a selection_deferral_time: BOOLEANs

Family == {"v4", "v6"}
Nlris == V4 \cup V6
Of(f) == IF f = "v4" THEN V4 ELSE V6

\* How an announcement fares: import policy accepts it, carried in the NLRI
\* field or in MP_REACH_NLRI; rejects it; or a loop or next-hop check skips it.
Fates == {"accepted", "mp", "rejected", "skipped"}

\* What extract_gr_capability and on_established take from an OPEN: GR at all,
\* with a restart time, for which families, N-bit, R-bit; IPv6 unicast.
Capabilities ==
  [gr : BOOLEAN, time : BOOLEAN, families : SUBSET Family, n : BOOLEAN, r : BOOLEAN,
   v6 : BOOLEAN]
NoCapabilities ==
  [gr |-> FALSE, time |-> FALSE, families |-> {}, n |-> FALSE, r |-> FALSE, v6 |-> FALSE]

Reasons == {"Unclean", "Notification", "HardReset", "OperatorStop"}

ASSUME PeersAssumption ==
  /\ IdleHolds \subseteq Peers
  /\ Plans \subseteq SUBSET Peers
  /\ \A p \in Peers : Actors[p] \subseteq Nat
  /\ \A p, q \in Peers : p # q => Actors[p] \cap Actors[q] = {}
  /\ \A p \in Peers : Offers[p] \subseteq Capabilities
  /\ \A p \in Peers : Announces[p] \subseteq Nlris
  /\ \A p \in Peers : How[p] \subseteq Fates
  /\ V4 \cap V6 = {}
  /\ None \notin {"fresh", "mp", "stale"}

VARIABLES peer,      \* peer[p]: the daemon's state of one address, below
          released,  \* families whose selection-deferral gate is open
          rejected,  \* idle_hold_rejected of the drain that is going on
          actor      \* actor[a]: link, events on their way, commands

vars == <<peer, released, rejected, actor>>

Actor == UNION {Actors[p] : p \in Peers}
PeerOf(a) == CHOOSE p \in Peers : a \in Actors[p]

\* Nothing is known of the address.
Absent ==
  [configured |-> FALSE,       \* adj_ribs_in, peer_remote_as and the policies
   pending    |-> FALSE,       \* pending_removal
   up         |-> FALSE,       \* peer_types
   cap        |-> NoCapabilities,  \* gr_*_peers, ipv6_capable_peers
   families   |-> {},          \* gr.peer_families
   nbit       |-> FALSE,       \* gr.notification_capable_peers
   eor        |-> {},          \* eor_received, eor_received_v6
   adj        |-> {},          \* Adj-RIB-In
   loc        |-> [n \in Nlris |-> None],  \* the address's Loc-RIB entries:
                               \* "stale", "fresh", or "mp": fresh, MP-encoded
   stale      |-> {},          \* gr.stale_nlri, gr.stale_nlri_v6
   armed      |-> FALSE,       \* gr.deadlines
   idle       |-> FALSE,       \* max_prefix_idle
   dumped     |-> [f \in Family |-> 0],    \* dumps and End-of-RIBs sent
   left       |-> {},          \* history: Loc-RIB entries that the current
                               \* Adj-RIB-In entry did not make
   orphan     |-> {},          \* history: those of a removed peer
   shared     |-> FALSE,       \* history: added while an actor was left over
   lost       |-> FALSE]       \* history: a Stop for its session was dropped

NoActor == [link |-> "none", cmd |-> None]

\* The actor the daemon can send commands to: the youngest one.
Current(p) == {a \in Actors[p] : actor[a].link # "none" /\
                 \A b \in Actors[p] : b > a => actor[b].link = "none"}

\* Stop or Notification on its way to the sessions of ps; Stop does more.
Command(acts, ps, c) ==
  [a \in Actor |-> IF \E p \in ps : a \in Current(p)
                   THEN [acts[a] EXCEPT !.cmd = IF @ = "Stop" THEN @ ELSE c] ELSE acts[a]]

(***************************************************************************)
(* The selection-deferral gate.                                            *)
(***************************************************************************)

\* family_blocks: p keeps the gate of f closed.
Blocks(d, f) ==
  \/ ~d.up
  \/ /\ f = "v6" => d.cap.v6
     /\ d.cap.gr
     /\ ~d.cap.r
     /\ f \notin d.eor

\* dump_family_v4, dump_family_v6: the table and the End-of-RIB of f.
Dump(d, f) ==
  IF d.configured /\ d.up /\ (f = "v6" => d.cap.v6) THEN [d EXCEPT !.dumped[f] = @ + 1] ELSE d

DumpAll(d, fs) ==
  LET v4 == IF "v4" \in fs THEN Dump(d, "v4") ELSE d
  IN  IF "v6" \in fs THEN Dump(v4, "v6") ELSE v4

\* Opens the gate of the families fs and catches up whoever is established.
Release(ds, fs) ==
  /\ released' = released \cup fs
  /\ peer' = [p \in Peers |-> DumpAll(ds[p], fs \ released)]

OpenFor(ds) == {f \in Family : \A p \in Peers : ds[p].configured => ~Blocks(ds[p], f)}

\* Mutant: the gate opens and nobody is caught up.
RecomputeSilent(ds) ==
  /\ released' = released \cup OpenFor(ds)
  /\ peer' = ds

\* recompute_selection_deferral.
Recompute(ds) == Release(ds, OpenFor(ds))

(***************************************************************************)
(* Established and terminated.                                             *)
(***************************************************************************)

\* The families whose routes are held, and those routes.
Covered(d) == IF d.armed THEN d.families ELSE {}
HeldRoutes(d) == {n \in d.adj : \E f \in Covered(d) : n \in Of(f)}

\* stale_nlri, stale_nlri_v6: a list is replaced only by one that is not empty.
Listed(d) ==
  HeldRoutes(d) \cup {n \in d.stale : \A f \in Family : n \in Of(f) => Of(f) \cap HeldRoutes(d) = {}}

\* Mutant: the deadline of the window runs on.
ResumedArmed(d) == [d EXCEPT !.stale = Listed(d)]

\* A window that is open ends; what it kept is to be refreshed before the
\* End-of-RIB of its family.
Resumed(d) == [d EXCEPT !.armed = FALSE, !.stale = Listed(d)]

\* on_established. For an address that is not configured it stops half-way.
OnEstablished(d, c) ==
  LET adj == IF "v6" \in Covered(d) THEN d.adj ELSE d.adj \ V6
      d1  == [Resumed(d) EXCEPT
                !.eor = {}, !.up = TRUE, !.adj = adj, !.dumped = Absent.dumped,
                !.left = {n \in Nlris : d.loc[n] # None /\ (n \in @ \/ n \notin adj)}]
  IN  IF ~d.configured THEN d1
      ELSE [DumpAll([d1 EXCEPT !.cap = c], released) EXCEPT
              !.families = IF c.time THEN c.families ELSE {},
              !.nbit = c.time /\ c.n]

\* on_terminated keeps the peer's routes. (It also asks that the peer is not
\* in pending_removal, from which the event loop has just taken it.)
EntersGr(d, r) ==
  d.cap.time /\ (r = "Unclean" \/ (r = "Notification" /\ WeNotify /\ d.nbit))

Ended(d) ==
  [d EXCEPT !.pending = FALSE, !.up = FALSE, !.cap = NoCapabilities, !.eor = {}, !.lost = FALSE]

\* Mutant: the window has no deadline.
HeldForever(d) ==
  [Ended(d) EXCEPT !.loc = [n \in Nlris |-> IF n \in d.adj THEN "stale" ELSE @[n]]]

\* The window opens: the Adj-RIB-In of the families that the peer's
\* capability covers is kept and marked stale, and goes to the Loc-RIB as it
\* is; that of other families is cleared, their Loc-RIB entries stay.
Held(d) ==
  LET kept == {n \in d.adj : \E f \in d.families : n \in Of(f)}
  IN  [Ended(d) EXCEPT
         !.armed = TRUE, !.adj = kept,
         !.loc   = [n \in Nlris |-> IF n \in kept THEN "stale" ELSE @[n]],
         !.left  = {n \in Nlris \ kept : d.loc[n] # None},
         !.orphan = @ \ kept]

\* Everything learned from the peer is withdrawn.
Flushed(d) == [d EXCEPT !.adj = {}, !.loc = Absent.loc, !.left = {}, !.orphan = {}]

\* Mutant: the bookkeeping of graceful restart is left.
RemovedPartly(d) ==
  [d EXCEPT !.configured = FALSE, !.pending = FALSE, !.adj = {}, !.armed = FALSE]

\* remove_peer: the Loc-RIB is none of its business.
Removed(d) ==
  LET ns == {n \in Nlris : d.loc[n] # None}
  IN  [Absent EXCEPT !.loc = d.loc, !.left = ns, !.orphan = ns]

OnTerminated(d, r) ==
  LET d1 == IF EntersGr(d, r) THEN Held(d) ELSE Flushed(Ended(d))
  IN  IF d.pending THEN Removed(d1) ELSE d1

(***************************************************************************)
(* Routes.                                                                 *)
(***************************************************************************)

\* Mutant: a route announced again stays on the list.
RefreshedNever(d, n) == d

\* A route announced again, in the NLRI field or for IPv6, is not stale; this
\* is decided before the announcement is looked at.
Refreshed(d, n) == [d EXCEPT !.stale = @ \ {n}]

Announced(d, n, how) ==
  LET d1 == IF how = "mp" /\ n \in V4 THEN d ELSE Refreshed(d, n)
  IN  CASE how = "accepted" ->
             [d1 EXCEPT !.adj = @ \cup {n}, !.loc[n] = "fresh",
                        !.left = @ \ {n}, !.orphan = @ \ {n}]
        [] how = "mp" ->
             [d1 EXCEPT !.adj = @ \cup {n}, !.loc[n] = IF n \in V4 THEN "mp" ELSE "fresh",
                        !.left = @ \ {n}, !.orphan = @ \ {n}]
        [] how = "rejected" ->
             [d1 EXCEPT !.adj = @ \cup {n}, !.left = @ \cup {m \in {n} : d.loc[n] # None}]
        [] how = "skipped" ->
             [d1 EXCEPT !.left = @ \cup {m \in {n} : d.loc[n] # None}]

Withdrawn(d, ns) ==
  [d EXCEPT !.adj = @ \ ns, !.loc = [n \in Nlris |-> IF n \in ns THEN None ELSE @[n]],
            !.left = @ \ ns, !.orphan = @ \ ns]

OverLimit(p, d) ==
  \E f \in Family : Limit[p][f] # None /\ Cardinality(d.adj \cap Of(f)) > Limit[p][f]

\* Mutant: one End-of-RIB ends the restart of both families.
EndOfRibBoth(d, f) ==
  [Withdrawn(d, d.stale) EXCEPT !.eor = @ \cup {f}, !.stale = {}]

\* prune_stale_nlri and prune_stale_nlri_v6 at the End-of-RIB of f.
EndOfRib(d, f) ==
  LET gone == d.stale \cap Of(f)
  IN  [Withdrawn(d, gone) EXCEPT !.eor = @ \cup {f}, !.stale = @ \ gone]

(***************************************************************************)
(* Session actors (module Session). An actor is idle, up, or over: it has  *)
(* ended and the event that says so is on its way, after which it is idle  *)
(* again ("ended") or gone for good ("stopping"). Its other events are     *)
(* handled in the step that makes them: the daemon cannot tell, and until  *)
(* it has handled them no command depends on them.                         *)
(***************************************************************************)

GoesDown(a) ==
  /\ actor[a].link = "up"
  /\ actor' = [actor EXCEPT ![a].link = "ended"]
  /\ UNCHANGED <<peer, released, rejected>>

\* An established session ends with a NOTIFICATION and is not started again.
\* Before that Stop ends the attempt, or finds Idle and is ignored.
TakesCommand(a) ==
  /\ actor[a].cmd # None
  /\ \E l \in CASE actor[a].link = "up" -> {"stopping"}
                [] actor[a].link = "idle" /\ actor[a].cmd = "Stop" -> {"idle", "stopped"}
                [] actor[a].link = "ended" /\ actor[a].cmd = "Stop" -> {"ended", "stopping"}
                [] OTHER -> {actor[a].link} :
       actor' = [actor EXCEPT ![a].link = l, ![a].cmd = None]
  /\ UNCHANGED <<peer, released, rejected>>

(***************************************************************************)
(* The event loop.                                                         *)
(***************************************************************************)

Established(a) ==
  LET p == PeerOf(a)
  IN  /\ actor[a].link = "idle"
      /\ ~peer[p].idle
      /\ \E c \in Offers[p] :
           LET ds == [peer EXCEPT ![p] = OnEstablished(@, c)]
           IN  IF peer[p].configured THEN Recompute(ds)
               ELSE peer' = ds /\ UNCHANGED released
      /\ actor' = [actor EXCEPT ![a].link = "up"]
      /\ UNCHANGED rejected

\* During the idle hold the session is told to stop: at once, or, inside a
\* drain, when the drain is over.
EstablishedRejected(a) ==
  LET p == PeerOf(a)
      acts == [actor EXCEPT ![a].link = "up"]
  IN  /\ actor[a].link = "idle"
      /\ peer[p].idle
      /\ \/ rejected = {} /\ actor' = Command(acts, {p}, "Stop") /\ UNCHANGED rejected
         \/ rejected' = rejected \cup {p} /\ actor' = acts
      /\ UNCHANGED <<peer, released>>

EndDrain ==
  /\ rejected # {}
  /\ rejected' = {}
  /\ actor' = Command(actor, rejected, "Stop")
  /\ UNCHANGED <<peer, released>>

\* A session that failed in OpenConfirm is reported as terminated too, with
\* whatever reason the last one ended for.
Terminated(a) ==
  LET p == PeerOf(a)
      l == actor[a].link
  IN  /\ l \in {"idle", "ended", "stopping"}
      /\ \E r \in IF l = "stopping" THEN {"OperatorStop"} ELSE Reasons :
           LET ds == [peer EXCEPT ![p] = OnTerminated(@, r)]
           IN  IF peer[p].pending THEN Recompute(ds) ELSE peer' = ds /\ UNCHANGED released
      /\ actor' = [actor EXCEPT ![a].link = IF l = "stopping" THEN "stopped" ELSE "idle"]
      /\ UNCHANGED rejected

\* The session is reset; stops the drain was to send are forgotten.
ResetSession(p, ds) ==
  /\ actor' = Command(actor, {p}, "Notification")
  /\ rejected' = {}
  /\ peer' = [q \in Peers |-> [ds[q] EXCEPT !.lost = @ \/ q \in rejected \ {p}]]

\* on_route_update. Over the limit the routes are in the tables already.
RouteUpdate(a) ==
  LET p == PeerOf(a)
  IN  /\ actor[a].link = "up"
      /\ peer[p].configured
      /\ \E n \in Announces[p] :
           \E d \in {Announced(peer[p], n, how) : how \in How[p]} \cup {Withdrawn(peer[p], {n})} :
             IF OverLimit(p, d) THEN ResetSession(p, [peer EXCEPT ![p] = [d EXCEPT !.idle = p \in IdleHolds]])
             ELSE peer' = [peer EXCEPT ![p] = d] /\ UNCHANGED <<actor, rejected>>
      /\ UNCHANGED released

\* An UPDATE that handle_update answers with a NOTIFICATION.
Malformed(a) ==
  /\ actor[a].link = "up"
  /\ peer[PeerOf(a)].configured
  /\ ResetSession(PeerOf(a), peer)
  /\ UNCHANGED released

\* A neighbour sends the End-of-RIB of the families it has negotiated.
EorReceived(a, f) ==
  LET p == PeerOf(a)
  IN  /\ actor[a].link = "up"
      /\ f = "v4" \/ \E c \in Offers[p] : c.v6
      /\ Recompute([peer EXCEPT ![p] = EndOfRib(@, f)])
      /\ UNCHANGED <<actor, rejected>>

\* A peer whose update channel overflowed (module Outbound) is stopped.
StopStalled(p) ==
  /\ p \in Managed
  /\ peer[p].up
  /\ rejected = {}
  /\ actor' = Command(actor, {p}, "Stop")
  /\ UNCHANGED <<peer, released, rejected>>

\* Mutant: the deadline waits for the list that on_established makes.
GrDeadlineIfListed(p) ==
  /\ peer[p].armed /\ peer[p].stale # {}
  /\ rejected = {}
  /\ peer' = [peer EXCEPT ![p] = [Flushed(@) EXCEPT !.armed = FALSE, !.stale = {}]]
  /\ UNCHANGED <<released, rejected, actor>>

\* on_gr_deadline_expired.
GrDeadline(p) ==
  /\ peer[p].armed
  /\ rejected = {}
  /\ peer' = [peer EXCEPT ![p] = [Flushed(@) EXCEPT !.armed = FALSE, !.stale = {}]]
  /\ UNCHANGED <<released, rejected, actor>>

IdleHoldExpires(p) ==
  /\ peer[p].idle
  /\ rejected = {}
  /\ peer' = [peer EXCEPT ![p].idle = FALSE]
  /\ UNCHANGED <<released, rejected, actor>>

\* The Selection_Deferral_Timer.
DeferralTimer ==
  /\ released # Family
  /\ rejected = {}
  /\ Release(peer, Family)
  /\ UNCHANGED <<rejected, actor>>

(***************************************************************************)
(* The command processor, a task of its own.                               *)
(***************************************************************************)

AddPeer(p) ==
  /\ ~peer[p].configured
  /\ \E a \in Actors[p] :
       /\ actor[a].link = "none"
       /\ \A b \in Actors[p] : b < a => actor[b].link # "none"
       /\ actor' = [actor EXCEPT ![a].link = "idle"]
  /\ peer' = [peer EXCEPT ![p].configured = TRUE, ![p].adj = {},
                          ![p].left = {n \in Nlris : peer[p].loc[n] # None},
                          ![p].shared = \E a \in Actors[p] :
                                          actor[a].link \notin {"none", "stopped"}]
  /\ UNCHANGED <<released, rejected>>

\* The peer goes when its session reports the end; with a shutdown message
\* the session gets a NOTIFICATION, else Stop.
RemovePeer(p) ==
  /\ p \in Managed
  /\ peer[p].configured
  /\ ~peer[p].pending
  /\ peer' = [peer EXCEPT ![p].pending = TRUE]
  /\ \E c \in {"Stop", "Notification"} : actor' = Command(actor, {p}, c)
  /\ UNCHANGED <<released, rejected>>

(***************************************************************************)
(* The specification.                                                      *)
(***************************************************************************)

\* The neighbours of one plan are configured at start, each with an actor;
\* further actors of theirs are spawned when a removed peer is added again.
Init ==
  /\ \E plan \in Plans :
       /\ peer = [p \in Peers |-> [Absent EXCEPT !.configured = p \in plan]]
       /\ actor = [a \in Actor |->
                     [NoActor EXCEPT !.link =
                        IF PeerOf(a) \notin plan THEN "stopped"
                        ELSE IF \A b \in Actors[PeerOf(a)] : a <= b THEN "idle" ELSE "none"]]
  /\ released \in {IF w THEN {} ELSE Family : w \in Deferring}
  /\ rejected = {}

Next ==
  \/ \E a \in Actor : \/ GoesDown(a) \/ TakesCommand(a)
                      \/ Established(a) \/ EstablishedRejected(a) \/ Terminated(a)
                      \/ RouteUpdate(a) \/ Malformed(a)
                      \/ \E f \in Family : EorReceived(a, f)
  \/ \E p \in Peers : \/ StopStalled(p) \/ GrDeadline(p) \/ IdleHoldExpires(p)
                      \/ AddPeer(p) \/ RemovePeer(p)
  \/ EndDrain
  \/ DeferralTimer

Spec == Init /\ [][Next]_vars

\* The loop polls every event channel and timer, and so does a session.
FairSpec ==
  /\ Spec
  /\ \A a \in Actor : WF_vars(Terminated(a) /\ actor[a].link # "idle") /\ WF_vars(TakesCommand(a))
  /\ \A p \in Peers : WF_vars(GrDeadline(p))
  /\ WF_vars(EndDrain)

(***************************************************************************)
(* Properties.                                                             *)
(***************************************************************************)

\* Every variable has its type, and nothing is kept about the sessions, the
\* restarts or the idle hold of an address that is not configured.
TypeOK ==
  /\ \A p \in Peers :
       LET d == peer[p]
       IN  /\ {d.configured, d.pending, d.up, d.nbit, d.armed, d.idle, d.shared, d.lost} \subseteq BOOLEAN
           /\ d.cap \in Capabilities
           /\ d.families \subseteq Family /\ d.eor \subseteq Family
           /\ d.loc \in [Nlris -> {None, "fresh", "mp", "stale"}]
           /\ d.adj \cup d.stale \cup d.left \cup d.orphan \subseteq Nlris
           /\ d.dumped \in [Family -> Nat]
           /\ ~d.configured => /\ ~(d.pending \/ d.armed \/ d.idle \/ d.nbit)
                               /\ d.adj = {} /\ d.stale = {} /\ d.families = {}
  /\ released \subseteq Family
  /\ rejected \subseteq Peers
  /\ \A a \in Actor :
       /\ actor[a].link \in {"none", "idle", "up", "ended", "stopping", "stopped"}
       /\ actor[a].cmd \in {None, "Stop", "Notification"}

\* Someone will clear away the routes of p: a session that is up or whose end
\* is on its way, or the graceful-restart deadline.
Answered(p) == peer[p].armed \/ \E a \in Actors[p] : actor[a].link \in {"up", "ended", "stopping"}

\* No route of a configured peer is forgotten in the Loc-RIB: each is backed
\* by the peer's Adj-RIB-In, apart from those in left, and none, those
\* included, outlives session and restart window together.
Accountable ==
  \A p \in Peers, n \in Nlris :
    (peer[p].configured /\ peer[p].loc[n] # None) =>
      /\ n \in peer[p].adj \/ n \in peer[p].left
      /\ Answered(p) \/ n \in peer[p].orphan

\* While a session is up, the routes left from before a restart are exactly
\* those on the list that End-of-RIB withdraws: none is forgotten, so none is
\* left after End-of-RIB, and none that was announced again is withdrawn.
\* Exempt are left, IPv4 routes announced again in MP_REACH_NLRI, and a peer
\* added again while an old actor of its address was left.
StaleListed ==
  \A p \in Peers, n \in Nlris :
    (peer[p].up /\ ~peer[p].shared) =>
      /\ peer[p].loc[n] = "stale" => n \in peer[p].stale \cup peer[p].left
      /\ n \in peer[p].stale => peer[p].loc[n] # "fresh"

\* The End-of-RIB of one family completes the restart of that family: every
\* route announced again since the restart outlives it, none from before is
\* left, and the routes of the other family, whose End-of-RIB is still to
\* come, stay as they are (eor_received, prune_stale_nlri). Exempt are left
\* and a peer added again while an old actor of its address was left.
RestartCompletes ==
  [][\A p \in Peers, f \in Family :
       (peer[p].up /\ ~peer[p].shared /\ f \in peer'[p].eor \ peer[p].eor) =>
         /\ \A n \in Of(f) :
              /\ peer[p].loc[n] = "fresh" => peer'[p].loc[n] = "fresh"
              /\ peer'[p].loc[n] = "stale" => n \in peer'[p].left
         /\ \A n \in Nlris \ Of(f) : peer'[p].loc[n] = peer[p].loc[n]]_vars

\* The restart deadline, which flushes all routes of an address, never runs
\* while a session of the address is up or its peer is gone.
DeadlineOnlyWhileDown ==
  \A p \in Peers : peer[p].armed => peer[p].configured /\ ~peer[p].up

\* An established peer has had exactly one table dump and End-of-RIB of each
\* released family it negotiated and none of the others, whether it came up
\* before or after the gate opened ("never both, never neither"). Exempt is a
\* peer added again while an old actor of its address was left.
OneDump ==
  \A p \in Peers, f \in Family :
    (peer[p].configured /\ peer[p].up /\ ~peer[p].shared) =>
      peer[p].dumped[f] = IF f \in released /\ (f = "v6" => peer[p].cap.v6) THEN 1 ELSE 0

\* p has a route in the Loc-RIB though the daemon takes it to be down.
Limbo(p, n) ==
  /\ peer[p].configured /\ ~peer[p].up /\ ~peer[p].lost /\ ~peer[p].shared
  /\ peer[p].loc[n] # None /\ n \notin peer[p].orphan

\* No route stays in the Loc-RIB for ever while its peer is down: the restart
\* deadline, the end of a rejected session or a new session sees to it.
\* Exempt are orphans, sessions whose Stop was dropped, and a peer added again
\* while an old actor of its address was left.
LimboEnds == \A p \in Peers, n \in Nlris : []<>~Limbo(p, n)
=============================================================================
