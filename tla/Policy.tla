------------------------------- MODULE Policy -------------------------------
(***************************************************************************)
(* What a route becomes on its way through the daemon: the import policy   *)
(* of the peer it came from (RFC 9234 leak detection and marking, RFC 6811 *)
(* rejection, default action), and the outbound transform, export policy,  *)
(* well-known communities and split horizon towards another peer.          *)
(*                                                                         *)
(* An announcement is a record                                             *)
(*    [path |-> AS_PATH, nh |-> NEXT_HOP,                                  *)
(*     pref |-> LOCAL_PREF, med |-> MULTI_EXIT_DISC, or None,              *)
(*     otc  |-> ONLY_TO_CUSTOMER or None,                                  *)
(*     comms |-> its well-known communities,                               *)
(*     rr   |-> whether it has ORIGINATOR_ID and CLUSTER_LIST,             *)
(*     rest |-> what both sides of the wire see alike,                     *)
(*     tag  |-> what tells two routes apart in the tables but is not sent: *)
(*              the time of receipt and the stale mark]                    *)
(* and a Loc-RIB route is an announcement with the field src: the peer it  *)
(* was learned from, or Local for a route this daemon originates.          *)
(***************************************************************************)
EXTENDS AsPath

CONSTANTS Peers,        \* configured neighbours
          Local,        \* the source of originated routes
          PeerType,     \* PeerType[p]: "Internal", "External" or "ConfedMember"
          Role,         \* Role[p]: our RFC 9234 role on the session, or None
          Asn,          \* Asn[p]: the neighbour's AS number
          LocalAs,      \* our AS number
          PublicAs,     \* that of our confederation, LocalAs outside of one
          TwoByte,      \* peers without the four-octet AS number capability
          RrClients,    \* peers this daemon reflects routes to (RFC 4456)
          NextHopSelf,  \* peers configured with next_hop_self
          LocalV6       \* whether the daemon has an IPv6 address of its own

PeerTypes == {"Internal", "External", "ConfedMember"}
Roles     == {"Provider", "RouteServer", "RsClient", "Customer", "Peer"}

ASSUME PolicyAssumption ==
  /\ Local \notin Peers
  /\ PeerType \in [Peers -> PeerTypes]
  /\ Role \in [Peers -> Roles \cup {None}]
  /\ None \notin Roles
  /\ \A p \in Peers : PeerType[p] = "Internal" => Role[p] = None
  /\ None \notin {Asn[p] : p \in Peers} \cup {LocalAs}
  /\ {LocalAs, PublicAs} \subseteq Nat
  /\ RrClients \cup TwoByte \subseteq Peers
  /\ NextHopSelf \subseteq Peers
  /\ LocalV6 \in BOOLEAN

(***************************************************************************)
(* Import.                                                                 *)
(***************************************************************************)

\* Our role towards a provider, a lateral peer or a route server.
Upward == {"Customer", "Peer", "RsClient"}

\* OtcLeakCondition: the route was leaked to us.
OtcLeak(role, asn, otc) ==
  \/ role \in {"Provider", "RouteServer"} /\ otc # None
  \/ role = "Peer" /\ otc \notin {None, asn}

\* SetOtc: attach asn unless the route is marked already.
SetOtc(r, asn) == IF r.otc = None THEN [r EXCEPT !.otc = asn] ELSE r

\* The route that peer p's import policy makes of r, or None when a term
\* rejects it (a leak, or an origin the ROA table finds invalid) or when the
\* default action is to reject.
ImportPolicy(p, r, invalid, accept) ==
  IF OtcLeak(Role[p], Asn[p], r.otc) \/ invalid \/ ~accept
  THEN None
  ELSE IF Role[p] \in Upward THEN SetOtc(r, Asn[p]) ELSE r

(***************************************************************************)
(* Export.                                                                 *)
(***************************************************************************)

TypeOf(src) == IF src = Local THEN "Local" ELSE PeerType[src]

IsRr == RrClients # {}

\* is_export_suppressed: the RFC 1997 communities that forbid sending to p.
Suppressed(p, comms) ==
  \/ "NO_ADVERTISE" \in comms
  \/ "NO_EXPORT" \in comms /\ PeerType[p] = "External"
  \/ "NO_EXPORT_SUBCONFED" \in comms /\ PeerType[p] \in {"External", "ConfedMember"}

\* Mutant: the segments of the confederation leave it.
OutgoingPathUnstripped(p, path) ==
  IF PeerType[p] = "External" THEN Prepend(path, PublicAs) ELSE path

\* The AS_PATH towards p.
OutgoingPath(p, path) ==
  CASE PeerType[p] = "External"     -> Prepend(StripConfed(path), PublicAs)
    [] PeerType[p] = "ConfedMember" -> PrependConfed(path, LocalAs)
    [] OTHER -> path

\* prepare_outbound_v6 without an address of our own.
OutgoingUnnumbered(p, r) ==
  [r EXCEPT !.path = OutgoingPath(p, @),
            !.pref = IF PeerType[p] = "External" THEN None ELSE @]

\* prepare_outbound: besides, the next hop becomes ours towards an external
\* peer and where next_hop_self says so.
Outgoing(p, r, addr) ==
  [OutgoingUnnumbered(p, r) EXCEPT
     !.nh = IF PeerType[p] = "External" \/ p \in NextHopSelf THEN addr ELSE @]

OutgoingV6(p, r, addr) ==
  IF LocalV6 THEN Outgoing(p, r, addr) ELSE OutgoingUnnumbered(p, r)

\* The terms install_otc_export_term installs, then the default action.
ExportPolicy(p, r, accept) ==
  IF (Role[p] \in Upward /\ r.otc # None) \/ ~accept
  THEN None
  ELSE IF Role[p] \in {"Provider", "Peer", "RouteServer"} THEN SetOtc(r, LocalAs) ELSE r

\* AdjRibOut::insert filters a route between two internal peers, unless the
\* table was made for a route reflector (make_adj_ribs_out_pair).
SplitHorizon(p, src) ==
  ~IsRr /\ PeerType[p] = "Internal" /\ TypeOf(src) = "Internal"

\* Mutant: the communities of the route are not looked at.
FilterUnsuppressed(p, r) ==
  IF r = None THEN None ELSE IF SplitHorizon(p, r.src) THEN None ELSE r

\* The entry the Adj-RIB-Out of p is left with once the export policy has
\* given r: r itself, or None when a community or split horizon stops it.
Filter(p, r) ==
  IF r = None THEN None
  ELSE IF Suppressed(p, r.comms) \/ SplitHorizon(p, r.src) THEN None ELSE r

\* propagate_prefix: the entry for the best route, None when there is none,
\* when p is where it came from, or when it may not be sent.
Exported(p, best, accept, addr) ==
  IF best = None THEN None
  ELSE IF best.src = p THEN None
  ELSE Filter(p, ExportPolicy(p, Outgoing(p, best, addr), accept))

\* propagate_prefix_v6: an external peer needs a next hop of our own.
ExportedV6(p, best, accept, addr) ==
  IF best = None \/ (PeerType[p] = "External" /\ ~LocalV6) THEN None
  ELSE IF best.src = p THEN None
  ELSE Filter(p, ExportPolicy(p, OutgoingV6(p, best, addr), accept))

\* RFC 4456: a reflector does not pass a route between two non-clients. The
\* source counts as internal only while its session is up.
Unreflected(p, best, up) ==
  /\ IsRr
  /\ PeerType[p] = "Internal"
  /\ best # None
  /\ best.src \in up
  /\ PeerType[best.src] = "Internal"
  /\ {p, best.src} \cap RrClients = {}

\* route_to_attributes, route_v6_to_attributes: what goes on the wire to p for
\* an Adj-RIB-Out entry.
Wire(p, e) ==
  LET d == IF p \in TwoByte THEN Downgrade(e.path) ELSE [path |-> e.path, as4 |-> None]
  IN  IF e = None THEN None
      ELSE [path |-> d.path,
            as4  |-> IF d.as4 = None THEN None ELSE StripConfed(d.as4),
            nh   |-> e.nh, pref |-> e.pref,
            med  |-> IF PeerType[p] = "External" THEN None ELSE e.med,
            otc  |-> e.otc, comms |-> e.comms,
            rr   |-> e.rr /\ PeerType[p] = "Internal",
            rest |-> e.rest]
=============================================================================
