-------------------------------- MODULE BgpFsm --------------------------------
(***************************************************************************)
(* The BGP session state machine of pathvector-session/src/fsm/mod.rs      *)
(* (RFC 4271 section 8) as pure operators: Process(f, in) is               *)
(* Fsm::process, one operator per on_<state> handler.                      *)
(*                                                                         *)
(* An FSM value f is a record                                              *)
(*   state      the six RFC states                                         *)
(*   peer_open  the OPEN accepted in OpenSent, or None                     *)
(*   hold_time  negotiated_hold_time, 0 when disabled                      *)
(*   caps       config.capabilities, the only part of the configuration    *)
(*              that changes at run time (set_capabilities)                *)
(*                                                                         *)
(* A handler returns a Vec<FsmOutput> that the transport executes in       *)
(* order and abandons at the first write that fails.  No vector holds      *)
(* more than one SendMessage, and the other outputs of one vector write    *)
(* different fields, so a vector is modelled by what stands before its     *)
(* message, the message, and what stands after it.                         *)
(***************************************************************************)
EXTENDS Integers, FiniteSets

CONSTANTS
  None,            \* an absent Option
  Opens,           \* the OPEN messages a remote may send
  LocalAs,         \* FsmConfig::local_as
  LocalId,         \* FsmConfig::local_bgp_id, as a number
  PeerAs,          \* FsmConfig::peer_as, or None when any AS is accepted
  HoldTime,        \* FsmConfig::hold_time
  RequiredCaps,    \* codes of FsmConfig::required_capabilities
  LocalRole,       \* the Role capability we advertise, or None
  NonUnicastIds,   \* 0.0.0.0, multicast and broadcast identifiers
  CapSets          \* the capability sets the daemon installs

State == {"Idle", "Connect", "Active", "OpenSent", "OpenConfirm", "Established"}

Role == {"Provider", "RouteServer", "RsClient", "Customer", "Peer"}

Capability == {"RouteRefresh", "GracefulRestart", "Restarting", "FourByteAsn"}

U16 == 0 .. 65535

\* roles holds the values of all Role capabilities of the OPEN: several equal
\* ones count as one (RFC 9234 section 4.2).
OpenMessage ==
  [version: Nat, bgp_id: Nat, my_as: Nat, four_byte_as: Nat \cup {None},
   hold_time: U16, caps: SUBSET Capability, roles: SUBSET Role]

ASSUME OpensAssumption ==
  /\ Opens \subseteq OpenMessage
  /\ None \notin Opens /\ None \notin Role
ASSUME ConfigAssumption ==
  /\ LocalId \in Nat /\ LocalAs \in Nat /\ HoldTime \in U16
  /\ LocalRole \in Role \cup {None}
  /\ CapSets \subseteq SUBSET Capability /\ CapSets # {}

Message == {"Open", "Keepalive", "Update", "Notification", "RouteRefresh"}

InputKind ==
  Message \cup
  {"ManualStart", "ManualStop", "ConnectRetryTimerExpired", "HoldTimerExpired",
   "KeepaliveTimerExpired", "TcpConnected", "TcpFailed", "CollisionDetected",
   "NotificationToSend", "ProtocolErrorNotificationToSend"}

\* Only a received OPEN carries data that a handler looks at.
FsmInput ==
  [kind: {"Open"}, open: Opens] \cup [kind: InputKind \ {"Open"}, open: {None}]

Input(kind) == [kind |-> kind, open |-> None]
OpenReceived(open) == [kind |-> "Open", open |-> open]

FsmOutput ==
  {"InitiateTcpConnect", "CloseTcpConnection", "StartRetry", "StopRetry",
   "StartHold", "StopHold", "StartKeepalive", "StopKeepalive",
   "SessionEstablished", "SessionTerminated", "RouteUpdate"}

FsmType ==
  [state: State, peer_open: Opens \cup {None}, hold_time: U16,
   caps: CapSets]

-----------------------------------------------------------------------------
(* validate_open and its helpers.                                          *)

ResolveAs(open) == IF open.four_byte_as # None THEN open.four_byte_as ELSE open.my_as

IsCompatibleWith(local, peer) ==
  <<local, peer>> \in
    {<<"Provider", "Customer">>, <<"Customer", "Provider">>,
     <<"RouteServer", "RsClient">>, <<"RsClient", "RouteServer">>,
     <<"Peer", "Peer">>}

\* validate_open returned Ok.  Which NOTIFICATION an Err carries is not
\* modelled, so the order of the checks does not matter.
OpenValid(open) ==
  /\ open.version = 4
  /\ open.bgp_id \notin NonUnicastIds
  /\ ~(ResolveAs(open) = LocalAs /\ open.bgp_id = LocalId)
  /\ PeerAs # None => ResolveAs(open) = PeerAs
  /\ open.hold_time \notin {1, 2}
  /\ RequiredCaps \subseteq open.caps
  /\ Cardinality(open.roles) <= 1
  /\ LocalRole # None => \A r \in open.roles : IsCompatibleWith(LocalRole, r)

\* Off by one, and no case for a disabled timer.
NegotiatedUnderflows(open) ==
  IF HoldTime < open.hold_time THEN HoldTime ELSE open.hold_time - 1

\* The value validate_open returns on success.
Negotiated(open) ==
  IF HoldTime = 0 \/ open.hold_time = 0 THEN 0
  ELSE IF HoldTime < open.hold_time THEN HoldTime ELSE open.hold_time

PeerHasGracefulRestart(f) ==
  f.peer_open # None /\ "GracefulRestart" \in f.peer_open.caps

-----------------------------------------------------------------------------
(* Handler results.                                                        *)

Outputs(f, before, msg, after) ==
  [fsm |-> f, before |-> before, msg |-> msg, after |-> after]

Quiet(f, acts) == Outputs(f, acts, "Nothing", {})
Ignore(f) == Quiet(f, {})

To(f, st) == [f EXCEPT !.state = st]
Forget(f, st) == [f EXCEPT !.state = st, !.peer_open = None, !.hold_time = 0]

\* The negotiated hold time is not stored.
AcceptKeepsHoldTime(f, open) == [f EXCEPT !.state = "OpenConfirm", !.peer_open = open]

Accept(f, open) ==
  [f EXCEPT !.state = "OpenConfirm", !.peer_open = open, !.hold_time = Negotiated(open)]

\* push_timer_actions
TimerActions(hold) ==
  IF hold > 0 THEN {"StartHold", "StartKeepalive"} ELSE {"StopHold", "StopKeepalive"}

ResetHoldIfActive(f) == IF f.hold_time > 0 THEN {"StartHold"} ELSE {}

\* The hold timer that covers the wait for the OPEN is forgotten.
DoTcpConnectedUntimed(f) == Outputs(To(f, "OpenSent"), {"StopRetry"}, "Open", {})

DoTcpConnected(f) == Outputs(To(f, "OpenSent"), {"StopRetry"}, "Open", {"StartHold"})

DoStopPreOpen(f) == Quiet(To(f, "Idle"), {"StopRetry", "CloseTcpConnection"})

StopTimers == {"StopHold", "StopKeepalive"}

SendKeepalive(f) ==
  Outputs(f, {}, "Keepalive", IF f.hold_time > 0 THEN {"StartKeepalive"} ELSE {})

-----------------------------------------------------------------------------
(* One operator per state handler.                                         *)

OnIdle(f, in) ==
  IF in.kind \in {"ManualStart", "ConnectRetryTimerExpired"}
  THEN Quiet(To(f, "Connect"), {"StartRetry", "InitiateTcpConnect"})
  ELSE Ignore(f)

OnConnect(f, in) ==
  CASE in.kind = "TcpConnected" -> DoTcpConnected(f)
    [] in.kind = "TcpFailed" -> Quiet(To(f, "Active"), {"StartRetry"})
    [] in.kind = "ConnectRetryTimerExpired" -> Quiet(f, {"InitiateTcpConnect", "StartRetry"})
    [] in.kind = "ManualStop" -> DoStopPreOpen(f)
    [] OTHER -> Ignore(f)

OnActive(f, in) ==
  CASE in.kind = "TcpConnected" -> DoTcpConnected(f)
    [] in.kind = "ConnectRetryTimerExpired" ->
         Quiet(To(f, "Connect"), {"InitiateTcpConnect", "StartRetry"})
    [] in.kind = "ManualStop" -> DoStopPreOpen(f)
    [] OTHER -> Ignore(f)

OnOpenSent(f, in) ==
  CASE in.kind = "Open" /\ OpenValid(in.open) ->
         Outputs(Accept(f, in.open), {}, "Keepalive", TimerActions(Negotiated(in.open)))
    [] in.kind = "Notification" ->
         Quiet(To(f, "Idle"), {"StopHold", "CloseTcpConnection", "StartRetry"})
    [] in.kind = "TcpFailed" -> Quiet(To(f, "Active"), {"StopHold", "StartRetry"})
    [] in.kind = "HoldTimerExpired" ->
         Outputs(To(f, "Idle"), {}, "Notification", {"CloseTcpConnection", "StartRetry"})
    [] in.kind = "ManualStop" ->
         Outputs(To(f, "Idle"), {"StopHold"}, "Notification", {"CloseTcpConnection"})
    [] in.kind = "CollisionDetected" ->
         Outputs([f EXCEPT !.state = "Active", !.peer_open = None],
                 {"StopHold"}, "Notification", {"CloseTcpConnection"})
    \* an OPEN that fails validation, and every other message
    [] in.kind \in {"Keepalive", "Update", "RouteRefresh"}
         \/ (in.kind = "Open" /\ ~OpenValid(in.open)) ->
         Outputs(To(f, "Idle"), {}, "Notification", {"StopHold", "CloseTcpConnection"})
    [] OTHER -> Ignore(f)

OnOpenConfirm(f, in) ==
  CASE in.kind = "Keepalive" /\ f.peer_open # None ->
         Quiet(To(f, "Established"),
               {"SessionEstablished"} \cup
               IF f.hold_time > 0 THEN {"StartHold", "StartKeepalive"} ELSE {})
    [] in.kind = "Keepalive" /\ f.peer_open = None ->
         Quiet(To(f, "Idle"), StopTimers \cup {"CloseTcpConnection"})
    [] in.kind \in {"Notification", "TcpFailed"} ->
         Quiet(Forget(f, "Idle"),
               StopTimers \cup {"CloseTcpConnection", "SessionTerminated", "StartRetry"})
    [] in.kind = "KeepaliveTimerExpired" -> SendKeepalive(f)
    [] in.kind = "HoldTimerExpired" ->
         Outputs(To(f, "Idle"), {}, "Notification",
                 {"StopKeepalive", "CloseTcpConnection", "StartRetry"})
    [] in.kind = "ManualStop" ->
         Outputs(To(f, "Idle"), StopTimers, "Notification", {"CloseTcpConnection"})
    [] in.kind = "CollisionDetected" ->
         Outputs(Forget(f, "Active"), StopTimers, "Notification", {"CloseTcpConnection"})
    [] in.kind \in {"Open", "Update", "RouteRefresh"} ->
         Outputs(To(f, "Idle"), {}, "Notification", StopTimers \cup {"CloseTcpConnection"})
    [] OTHER -> Ignore(f)

RouteRefreshNegotiated(f) ==
  /\ f.peer_open # None
  /\ "RouteRefresh" \in f.peer_open.caps
  /\ "RouteRefresh" \in f.caps

OnEstablished(f, in) ==
  CASE in.kind = "Keepalive" -> Quiet(f, ResetHoldIfActive(f))
    [] in.kind = "Update" -> Quiet(f, ResetHoldIfActive(f) \cup {"RouteUpdate"})
    [] in.kind \in {"Notification", "TcpFailed"} ->
         Quiet(Forget(f, "Idle"),
               StopTimers \cup {"CloseTcpConnection", "SessionTerminated", "StartRetry"})
    [] in.kind = "KeepaliveTimerExpired" -> SendKeepalive(f)
    [] in.kind = "HoldTimerExpired" ->
         Outputs(To(f, "Idle"), {}, "Notification",
                 {"StopKeepalive", "CloseTcpConnection", "SessionTerminated", "StartRetry"})
    [] in.kind \in {"ManualStop", "NotificationToSend"} ->
         Outputs(To(f, "Idle"), StopTimers, "Notification",
                 {"CloseTcpConnection", "SessionTerminated"})
    [] in.kind = "RouteRefresh" /\ RouteRefreshNegotiated(f) -> Ignore(f)
    [] in.kind = "Open" \/ (in.kind = "RouteRefresh" /\ ~RouteRefreshNegotiated(f)) ->
         Outputs(To(f, "Idle"), {}, "Notification",
                 StopTimers \cup {"CloseTcpConnection", "SessionTerminated"})
    [] in.kind = "CollisionDetected" ->
         Quiet(Forget(f, "Connect"),
               StopTimers \cup {"CloseTcpConnection", "SessionTerminated", "StartRetry"})
    [] in.kind = "ProtocolErrorNotificationToSend" ->
         Outputs(To(f, "Idle"), StopTimers, "Notification",
                 {"CloseTcpConnection", "SessionTerminated", "StartRetry"})
    [] OTHER -> Ignore(f)

\* The timers are restarted when the hold timer expires in OpenSent.
ProcessWaitsForOpen(f, in) ==
  CASE f.state = "Idle" -> OnIdle(f, in)
    [] f.state = "Connect" -> OnConnect(f, in)
    [] f.state = "Active" -> OnActive(f, in)
    [] f.state = "OpenSent" /\ in.kind = "HoldTimerExpired" ->
         Quiet(f, {"StartHold", "StartKeepalive"})
    [] f.state = "OpenSent" /\ in.kind # "HoldTimerExpired" -> OnOpenSent(f, in)
    [] f.state = "OpenConfirm" -> OnOpenConfirm(f, in)
    [] f.state = "Established" -> OnEstablished(f, in)

Process(f, in) ==
  CASE f.state = "Idle" -> OnIdle(f, in)
    [] f.state = "Connect" -> OnConnect(f, in)
    [] f.state = "Active" -> OnActive(f, in)
    [] f.state = "OpenSent" -> OnOpenSent(f, in)
    [] f.state = "OpenConfirm" -> OnOpenConfirm(f, in)
    [] f.state = "Established" -> OnEstablished(f, in)

NewFsm(caps) ==
  [state |-> "Idle", peer_open |-> None, hold_time |-> 0, caps |-> caps]
=============================================================================
