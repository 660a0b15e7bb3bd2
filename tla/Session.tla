-------------------------------- MODULE Session --------------------------------
(***************************************************************************)
(* One BGP session task (pathvector-session/src/transport/mod.rs): the     *)
(* select loop of wait_for_input, the execution of the FSM's outputs, the  *)
(* outbound connect task, the three timers, and the second inbound         *)
(* connection that is staged while a collision is being decided.           *)
(*                                                                         *)
(* The task is sequential, so one action is one round of run(): an arm of  *)
(* the select, the FSM transition, its outputs and the resolution of a     *)
(* staged candidate.  The operators on the record s below are the methods  *)
(* of struct Session; the actions supply their inputs.                     *)
(*                                                                         *)
(* The environment is a remote that may send anything, connections that    *)
(* may fail at any read or write, and the daemon: it sends commands, it    *)
(* queues UPDATEs while it believes the session is up, and it learns of    *)
(* session events some time after they were sent.                          *)
(***************************************************************************)
EXTENDS BgpFsm

CONSTANTS
  LocalAddrs,     \* local addresses of this speaker
  MaxStarts,      \* how many Start commands the daemon sends (one per handle)
  MaxQueued       \* bound on the UPDATEs waiting in update_rx

ASSUME BoundsAssumption ==
  /\ None \notin LocalAddrs
  /\ MaxStarts \in Nat /\ MaxQueued \in Nat

VARIABLES
  ses,       \* struct Session
  queued,    \* number of UPDATEs in update_rx
  view,      \* the daemon has processed an Established event and no later Terminated
  starts     \* Start commands sent so far

vars == <<ses, queued, view, starts>>

\* A TCP connection is its ConnectionIdentity without the peer address, which
\* is always the configured one.
Conn == [origin: {"Outbound", "Inbound"}, local: LocalAddrs]
NewConn(origin, local) == [origin |-> origin, local |-> local]

Purpose == {"Collision", "GracefulRestart"}
Candidate == [conn: Conn, open: Opens \cup {None}, purpose: Purpose]

TerminationReason == {"Unclean", "Notification", "OperatorStop"}

ASSUME NoneAssumption ==
  None \notin Conn /\ None \notin Candidate /\ None \notin Nat

\* A timer is TRUE while its deadline is set; connecting stands for
\* connect_task; up says whether the last lifecycle event sent to the daemon
\* was Established (RouteUpdate events are not recorded).
SessionType ==
  [fsm: FsmType, hold: BOOLEAN, keepalive: BOOLEAN, retry: BOOLEAN,
   transport: Conn \cup {None}, connecting: BOOLEAN,
   candidate: Candidate \cup {None}, deadline: BOOLEAN,
   reason: TerminationReason, up: BOOLEAN]

NewSession(caps) ==
  [fsm |-> NewFsm(caps), hold |-> FALSE, keepalive |-> FALSE, retry |-> FALSE,
   transport |-> None, connecting |-> FALSE, candidate |-> None,
   deadline |-> FALSE, reason |-> "Unclean", up |-> FALSE]

-----------------------------------------------------------------------------
(* execute() and drop_connection().                                        *)

\* The dial in progress is not given up.
DropTransportOnly(s) == [s EXCEPT !.transport = None]

DropConnection(s) == [s EXCEPT !.transport = None, !.connecting = FALSE]

\* The write of the message of r fails; lost is {} when the socket takes it.
SendFails(s, r, lost) == r.msg # "Nothing" /\ s.transport # None /\ lost # {}

\* The outputs that are executed: a failed write abandons those after it.
Executed(s, r, lost) == IF SendFails(s, r, lost) THEN r.before ELSE r.before \cup r.after

\* A started timer runs, a stopped one does not, any other is left alone.
Switch(on, acts, start, stop) == start \in acts \/ (on /\ stop \notin acts)

Execute(s, r, lost) ==
  LET acts == Executed(s, r, lost)
      closed == SendFails(s, r, lost) \/ "CloseTcpConnection" \in acts
  IN [s EXCEPT
        !.fsm = r.fsm,
        !.hold = Switch(@, acts, "StartHold", "StopHold"),
        !.keepalive = Switch(@, acts, "StartKeepalive", "StopKeepalive"),
        !.retry = Switch(@, acts, "StartRetry", "StopRetry"),
        !.transport = IF closed THEN None ELSE @,
        !.connecting = "InitiateTcpConnect" \in acts \/ (@ /\ ~closed),
        !.up = Switch(@, acts, "SessionEstablished", "SessionTerminated")]

Apply(s, in, lost) == Execute(s, Process(s.fsm, in), lost)

-----------------------------------------------------------------------------
(* The staged candidate.                                                   *)

\* The writes of one round that may fail: the message of the FSM's answer to
\* the input, and the OPEN and KEEPALIVE on a candidate that is adopted.  (A
\* Cease on a connection that loses a collision may fail too, but the next
\* output closes that connection anyway.)
Writes(s) == {"primary"} \cup (IF s.candidate = None THEN {} ELSE {"open", "keepalive"})

\* The identifier of the candidate is not compared with that of the session.
VerdictWithoutIdentity(s) ==
  LET f == s.fsm
      c == s.candidate
      collision == c.purpose = "Collision"
  IN CASE f.state = "OpenSent" /\ collision -> "wait"
       [] f.state = "OpenConfirm" /\ collision ->
            IF f.peer_open = None THEN "wait"
            ELSE IF LocalId < c.open.bgp_id THEN "adopt" ELSE "drop"
       [] f.state = "Established" /\ ~collision /\ PeerHasGracefulRestart(f) -> "adopt"
       [] f.state \in {"Idle", "Connect", "Active"} -> "adopt"
       [] OTHER -> "drop"

\* try_resolve_pending_candidate: what to do with a candidate whose OPEN was
\* accepted.
Verdict(s) ==
  LET f == s.fsm
      c == s.candidate
      sameId == f.peer_open # None /\ f.peer_open.bgp_id = c.open.bgp_id
      collision == c.purpose = "Collision"
  IN CASE f.state = "OpenSent" /\ collision -> "wait"
       [] f.state = "OpenConfirm" /\ collision ->
            IF f.peer_open = None THEN "wait"
            ELSE IF sameId /\ LocalId < c.open.bgp_id THEN "adopt" ELSE "drop"
       [] f.state = "Established" /\ ~collision /\ PeerHasGracefulRestart(f) ->
            IF sameId THEN "adopt" ELSE "drop"
       [] f.state \in {"Idle", "Connect", "Active"} -> "adopt"
       [] OTHER -> "drop"

\* The existing connection, if any, is closed by CollisionDetected; then the
\* candidate becomes the transport and TcpConnected and its OPEN are fed to
\* the FSM.  The results of these three execute() calls are ignored.
Adopt(s, failed) ==
  LET c == s.candidate
      taken == [s EXCEPT !.candidate = None,
                  !.reason = IF s.fsm.state = "Established" THEN "Unclean" ELSE @]
      cleared == IF s.fsm.state \in {"OpenConfirm", "Established"}
                 THEN Apply(taken, Input("CollisionDetected"), {})
                 ELSE taken
      switched == [cleared EXCEPT !.transport = c.conn]
      opened == Apply(switched, Input("TcpConnected"), failed \cap {"open"})
  IN Apply(opened, OpenReceived(c.open), failed \cap {"keepalive"})

TryResolve(s, failed) ==
  IF s.candidate = None THEN s
  ELSE IF s.candidate.open = None THEN s
  ELSE CASE Verdict(s) = "wait" -> s
         [] Verdict(s) = "drop" -> [s EXCEPT !.candidate = None]
         [] Verdict(s) = "adopt" -> Adopt(s, failed)

\* Two inbound connections pass for a collision.
IsSameAddress(a, b) == a # None /\ a.local = b.local

IsReversedPair(a, b) == a # None /\ a.local = b.local /\ a.origin # b.origin

\* handle_collision_candidate_message; open is None for anything that is not
\* an OPEN, a framing error and the end of the stream included.
HandleCandidateMessage(s, open, failed) ==
  LET c == s.candidate
      taken == [s EXCEPT !.candidate = None, !.deadline = FALSE]
  IN IF \/ open = None
        \/ open # None /\ ~OpenValid(open)
        \/ c.purpose = "Collision" /\ ~IsReversedPair(s.transport, c.conn)
     THEN taken
     ELSE TryResolve([taken EXCEPT !.candidate = [c EXCEPT !.open = open]], failed)

StageCandidate(s, conn, purpose) ==
  [s EXCEPT !.candidate = [conn |-> conn, open |-> None, purpose |-> purpose],
            !.deadline = TRUE]

-----------------------------------------------------------------------------
(* run(): one FSM input.                                                   *)

ReasonFor(in) ==
  CASE in.kind = "Notification" -> "Notification"
    [] in.kind \in {"ManualStop", "NotificationToSend",
                    "ProtocolErrorNotificationToSend"} -> "OperatorStop"
    [] OTHER -> "Unclean"

\* What run() does before it hands the input to the FSM.
Prepare(s, in) ==
  LET evict == in.kind \in {"ManualStop", "NotificationToSend"} /\ s.candidate # None
  IN [s EXCEPT !.reason = IF s.fsm.state = "Established" THEN ReasonFor(in) ELSE @,
               !.candidate = IF evict THEN None ELSE @,
               !.deadline = @ /\ ~evict]

\* The FSM's answer to one input; a failed write is fed back as TcpFailed.
Step(s, in, lost) ==
  LET r == Process(s.fsm, in)
      done == Execute(s, r, lost)
  IN IF SendFails(s, r, lost) THEN Apply(done, Input("TcpFailed"), {}) ELSE done

Run(s, in, failed) ==
  TryResolve(Step(Prepare(s, in), in, failed \cap {"primary"}), failed)

Loop(s, in) == \E failed \in SUBSET Writes(s) : ses' = Run(s, in, failed)

-----------------------------------------------------------------------------
(* The arms of the select in wait_for_input.                               *)

Init ==
  /\ \E caps \in CapSets : ses = NewSession(caps)
  /\ queued = 0 /\ view = FALSE /\ starts = 0

CmdStart ==
  /\ starts < MaxStarts
  /\ starts' = starts + 1
  /\ Loop(ses, Input("ManualStart"))
  /\ UNCHANGED <<queued, view>>

\* Stop, or the daemon dropped its handle.
CmdStop ==
  /\ Loop(ses, Input("ManualStop"))
  /\ UNCHANGED <<queued, view, starts>>

CmdNotification ==
  /\ Loop(ses, Input("NotificationToSend"))
  /\ UNCHANGED <<queued, view, starts>>

\* handle_incoming_connection: with a candidate already staged, or a running
\* session without Graceful Restart, the connection is dropped.
CmdIncoming ==
  /\ \E local \in LocalAddrs :
       LET conn == NewConn("Inbound", local)
           st == ses.fsm.state
       IN CASE ses.candidate # None -> UNCHANGED ses
            [] ses.candidate = None /\ st \in {"Idle", "Connect", "Active"} ->
                 Loop([ses EXCEPT !.transport = conn], Input("TcpConnected"))
            [] ses.candidate = None /\ st \in {"OpenSent", "OpenConfirm"} ->
                 ses' = StageCandidate(ses, conn, "Collision")
            [] ses.candidate = None /\ st = "Established" ->
                 IF PeerHasGracefulRestart(ses.fsm)
                 THEN ses' = StageCandidate(ses, conn, "GracefulRestart")
                 ELSE UNCHANGED ses
  /\ UNCHANGED <<queued, view, starts>>

\* Written to whatever transport there is; a failed write is a TcpFailed.
CmdRouteRefresh ==
  /\ IF ses.transport = None THEN UNCHANGED ses
     ELSE UNCHANGED ses \/ Loop(DropConnection(ses), Input("TcpFailed"))
  /\ UNCHANGED <<queued, view, starts>>

CmdSetCapabilities ==
  /\ ses.fsm.state # "Established"
  /\ \E caps \in CapSets : ses' = [ses EXCEPT !.fsm.caps = caps]
  /\ UNCHANGED <<queued, view, starts>>

ConnectSucceeds ==
  /\ ses.connecting
  /\ \E local \in LocalAddrs :
       Loop([ses EXCEPT !.connecting = FALSE, !.transport = NewConn("Outbound", local)],
            Input("TcpConnected"))
  /\ UNCHANGED <<queued, view, starts>>

ConnectFails ==
  /\ ses.connecting
  /\ Loop([ses EXCEPT !.connecting = FALSE], Input("TcpFailed"))
  /\ UNCHANGED <<queued, view, starts>>

\* handle_primary_message: a well-formed message.
RecvMessage ==
  /\ ses.transport # None
  /\ \/ \E kind \in Message \ {"Open"} : Loop(ses, Input(kind))
     \/ \E open \in Opens : Loop(ses, OpenReceived(open))
  /\ UNCHANGED <<queued, view, starts>>

\* handle_malformed_update: errors that reset the session become an FSM
\* input, all others are forwarded as a (cleaned or withdrawing) RouteUpdate
\* without asking the FSM.
RecvMalformedUpdate ==
  /\ ses.transport # None
  /\ \/ Loop(ses, Input("ProtocolErrorNotificationToSend"))
     \/ UNCHANGED ses
  /\ UNCHANGED <<queued, view, starts>>

\* A framing error or the end of the stream.
RecvFailed ==
  /\ ses.transport # None
  /\ Loop(DropConnection(ses), Input("TcpFailed"))
  /\ UNCHANGED <<queued, view, starts>>

RecvCandidateMessage ==
  /\ ses.candidate # None
  /\ ses.candidate.open = None
  /\ \E open \in Opens \cup {None}, failed \in SUBSET Writes(ses) :
       ses' = HandleCandidateMessage(ses, open, failed)
  /\ UNCHANGED <<queued, view, starts>>

CollisionDeadline ==
  /\ ses.deadline
  /\ ses' = [ses EXCEPT !.candidate = None, !.deadline = FALSE]
  /\ UNCHANGED <<queued, view, starts>>

HoldTimer ==
  /\ ses.hold
  /\ Loop([ses EXCEPT !.hold = FALSE], Input("HoldTimerExpired"))
  /\ UNCHANGED <<queued, view, starts>>

KeepaliveTimer ==
  /\ ses.keepalive
  /\ Loop([ses EXCEPT !.keepalive = FALSE], Input("KeepaliveTimerExpired"))
  /\ UNCHANGED <<queued, view, starts>>

RetryTimer ==
  /\ ses.retry
  /\ Loop([ses EXCEPT !.retry = FALSE], Input("ConnectRetryTimerExpired"))
  /\ UNCHANGED <<queued, view, starts>>

\* An UPDATE of the daemon is written to whatever transport there is, or
\* discarded when there is none.
ForwardUpdate ==
  /\ queued > 0
  /\ queued' = queued - 1
  /\ IF ses.transport = None THEN UNCHANGED ses
     ELSE UNCHANGED ses \/ Loop(DropConnection(ses), Input("TcpFailed"))
  /\ UNCHANGED <<view, starts>>

\* The daemon: it queues UPDATEs for a session it believes is up, and takes
\* the session's lifecycle events from the channel in order.
DaemonQueuesUpdate ==
  /\ view /\ queued < MaxQueued
  /\ queued' = queued + 1
  /\ UNCHANGED <<ses, view, starts>>

DaemonTakesEvent ==
  /\ view # ses.up
  /\ view' = ses.up
  /\ UNCHANGED <<ses, queued, starts>>

Next ==
  \/ CmdStart \/ CmdStop \/ CmdNotification \/ CmdIncoming \/ CmdRouteRefresh
  \/ CmdSetCapabilities \/ ConnectSucceeds \/ ConnectFails
  \/ RecvMessage \/ RecvMalformedUpdate \/ RecvFailed
  \/ RecvCandidateMessage \/ CollisionDeadline
  \/ HoldTimer \/ KeepaliveTimer \/ RetryTimer \/ ForwardUpdate
  \/ DaemonQueuesUpdate \/ DaemonTakesEvent

Spec == Init /\ [][Next]_vars

\* Deadlines that are set fire: the runtime polls them on every round.  This
\* is weak fairness of the two arms; for HoldTimer it is written out with its
\* guard, which is when the arm is enabled (every expiry changes the state).
FairSpec ==
  /\ Spec
  /\ WF_vars(CollisionDeadline)
  /\ []<>(~ses.hold) \/ []<><<HoldTimer>>_vars

\* The retry timer alone is fair: nothing else leads out of Idle.
RetrySpec == Spec /\ WF_vars(RetryTimer)

-----------------------------------------------------------------------------
(* Properties.                                                             *)

\* Every field of struct Session, the update channel and the daemon's view
\* keep their types.
TypeOK ==
  /\ ses \in SessionType
  /\ queued \in 0 .. MaxQueued
  /\ view \in BOOLEAN
  /\ starts \in 0 .. MaxStarts

\* Outside Idle the session never waits without a timer that ends the wait,
\* although a failed write abandons the rest of an output vector, the timer
\* starts and stops in it included (execute()): Connect and Active have the
\* retry timer, OpenSent the hold timer, and so have OpenConfirm and
\* Established when a hold time was negotiated.  A session that negotiated
\* hold time 0 is not torn down by a timer left over from its handshake or
\* from an earlier session, and no retry timer runs under a live connection.
SupervisedIn(s) ==
  LET st == s.fsm.state
      timed == s.fsm.hold_time > 0
  IN /\ st \in {"Connect", "Active"} => s.retry
     /\ s.retry => st \in {"Idle", "Connect", "Active"}
     /\ st = "OpenSent" => s.hold
     /\ st = "OpenConfirm" /\ timed => s.hold
     /\ st = "Established" => (s.hold <=> timed) /\ (s.keepalive <=> timed)
Supervised == SupervisedIn(ses)

\* The session is past OpenSent only with an OPEN of the remote that passes
\* validate_open and whose hold time is the negotiated one, and Established
\* only with a connection: the branch of on_open_confirm for a missing
\* peer_open is never taken, also when a candidate connection was swapped in
\* halfway through the handshake.
HandshakeIn(s) ==
  LET f == s.fsm
  IN /\ f.state \in {"OpenConfirm", "Established"} =>
          /\ f.peer_open # None
          /\ OpenValid(f.peer_open)
          /\ f.hold_time = Negotiated(f.peer_open)
     /\ f.state \in {"OpenSent", "Established"} => s.transport # None
HandshakeSound == HandshakeIn(ses)

\* A staged candidate is under its own deadline until its OPEN is accepted,
\* and only then; an accepted one waits for nothing but an OPEN of the
\* current connection, and the two are a connection we dialled and one we
\* accepted on the same local address (RFC 4271 section 6.8).
CandidateIn(s) ==
  LET c == s.candidate
  IN /\ s.deadline <=> c # None /\ c.open = None
     /\ c # None /\ c.open # None =>
          /\ s.fsm.state = "OpenSent"
          /\ c.purpose = "Collision"
          /\ OpenValid(c.open)
          /\ s.transport.origin = "Outbound" /\ c.conn.origin = "Inbound"
          /\ s.transport.local = c.conn.local
CandidateHeld == CandidateIn(ses)

\* What the invariants above rest on.  A connection we dialled never shares
\* the session with a dial in progress, a dial is in progress only in Connect
\* or behind an accepted connection, and a handshake that lost its connection
\* while a candidate was adopted has no timer of a session without hold time.
ConnectionsIn(s) ==
  LET st == s.fsm.state
      live == {"OpenSent", "OpenConfirm", "Established"}
  IN /\ s.transport # None /\ s.transport.origin = "Outbound" =>
          ~s.connecting /\ st \in live
     /\ s.connecting => st \in {"Connect"} \cup live
     /\ s.candidate # None => s.candidate.conn.origin = "Inbound"
     /\ st = "OpenConfirm" /\ s.transport = None => ~s.connecting
     /\ st = "OpenConfirm" /\ s.fsm.hold_time = 0 /\ s.transport # None =>
          ~s.hold /\ ~s.keepalive
Connections == ConnectionsIn(ses)

\* Whatever connections race, fail and replace each other underneath, the
\* session keeps the contract on the identity of its remote.
Phase ==
  CASE ses.fsm.state \in {"Idle", "Connect", "Active"} -> "Down"
    [] ses.fsm.state \in {"OpenSent", "OpenConfirm"} -> "Handshake"
    [] ses.fsm.state = "Established" -> "Up"

PeerIdentity ==
  IF ses.fsm.state \in {"OpenConfirm", "Established"}
  THEN ses.fsm.peer_open.bgp_id ELSE None

Contract == INSTANCE SessionContract
              WITH phase <- Phase, peer <- PeerIdentity,
                   Ids <- {open.bgp_id : open \in Opens}, NoId <- None

\* The session implements SessionContract: an accepted identity is never
\* exchanged for another one without the session going down in between
\* (try_resolve_pending_candidate compares the BGP Identifiers before it
\* lets a candidate take over).
KeepsContract == Contract!Spec

\* A staged candidate is decided on or given up in the end: it cannot occupy
\* the only candidate slot, and so block every further inbound connection,
\* for ever.
CandidateResolved == ses.candidate # None ~> ses.candidate = None

\* "[the channel overflows:] close the session and let it re-establish"
\* (stop_sender): a session that was stopped leaves Idle again.
StoppedSessionRetries ==
  (ses.fsm.state = "Idle" /\ ses.reason = "OperatorStop") ~> ses.fsm.state # "Idle"

\* "Messages sent here are written to the TCP connection when the session is
\* in the Established state" (update_sender): an UPDATE taken from the
\* channel is written only then.
UpdatesWhenEstablished ==
  [][queued' < queued /\ ses.transport # None => ses.fsm.state = "Established"]_vars

\* A session that has reported Established and is torn down reports
\* Terminated: the daemon is never left with a session it takes to be up.
TerminationReported == ses.up => ses.fsm.state = "Established"

\* "No active outbound attempt -- accept the incoming connection directly"
\* (handle_incoming_connection, for Connect too): as long as a session is
\* established it runs on the connection it was established on.
EstablishedKeepsConnection ==
  [][ses.fsm.state = "Established" /\ ses'.fsm.state = "Established"
       => ses'.transport = ses.transport]_vars

=============================================================================
