----------------------------- MODULE SessionProofs -----------------------------
(***************************************************************************)
(* Proofs about Session.  The inductive invariant IInv is the conjunction  *)
(* of the invariants of the model; a round of the session task is          *)
(* followed through its parts: Ready says what holds of the session record *)
(* when the FSM gets its input (an arm of the select may have cleared a    *)
(* timer, dropped a connection or installed one), Good what holds of it    *)
(* after every step of the FSM, Pending what holds of the candidate before *)
(* it is resolved.                                                         *)
(***************************************************************************)
EXTENDS Session, TLAPS

Good(s) == SupervisedIn(s) /\ HandshakeIn(s) /\ ConnectionsIn(s)

IInv == TypeOK /\ Good(ses) /\ CandidateIn(ses)

\* Phase and PeerIdentity of an FSM record.
PhaseOf(f) ==
  CASE f.state \in {"Idle", "Connect", "Active"} -> "Down"
    [] f.state \in {"OpenSent", "OpenConfirm"} -> "Handshake"
    [] f.state = "Established" -> "Up"
PeerOf(f) ==
  IF f.state \in {"OpenConfirm", "Established"} THEN f.peer_open.bgp_id ELSE None

\* A step of SessionContract, or none, from the FSM record f to the record g.
Moves(f, g) ==
  \/ PhaseOf(g) = PhaseOf(f) /\ PeerOf(g) = PeerOf(f)
  \/ PhaseOf(g) = "Down" /\ PeerOf(g) = None
  \/ /\ PhaseOf(f) = "Down" /\ PhaseOf(g) = "Handshake"
     /\ PeerOf(g) \in {open.bgp_id : open \in Opens} \cup {None}
  \/ /\ PhaseOf(f) = "Handshake" /\ PeerOf(f) = None /\ PhaseOf(g) = "Handshake"
     /\ PeerOf(g) \in {open.bgp_id : open \in Opens}
  \/ /\ PhaseOf(f) = "Handshake" /\ PeerOf(f) # None /\ PhaseOf(g) = "Up"
     /\ PeerOf(g) = PeerOf(f)
  \/ PhaseOf(f) = "Up" /\ PhaseOf(g) = "Handshake" /\ PeerOf(g) = PeerOf(f)

\* The invariant after a step, and what the step means for the contract.
Kept == IInv' /\ Moves(ses.fsm, ses'.fsm)

-----------------------------------------------------------------------------
(* Records.                                                                *)

\* Zero is a hold time, and hold times are natural numbers.
LEMMA HoldTimes == 0 \in U16 /\ U16 \subseteq Nat
BY DEF U16

\* What a change of state does to the FSM record.
LEMMA ToFields ==
  ASSUME NEW f \in FsmType, NEW st \in State
  PROVE  /\ To(f, st) \in FsmType
         /\ To(f, st).state = st
         /\ To(f, st).peer_open = f.peer_open
         /\ To(f, st).hold_time = f.hold_time
BY DEF FsmType, To

\* What a teardown that forgets the remote's OPEN does to the FSM record.
LEMMA ForgetFields ==
  ASSUME NEW f \in FsmType, NEW st \in State
  PROVE  /\ Forget(f, st) \in FsmType
         /\ Forget(f, st).state = st
         /\ Forget(f, st).peer_open = None
         /\ Forget(f, st).hold_time = 0
BY Zenon, HoldTimes DEF FsmType, Forget

\* The parts of a handler's result.
LEMMA OutputsFields ==
  ASSUME NEW f, NEW before, NEW msg, NEW after
  PROVE  /\ Outputs(f, before, msg, after).fsm = f
         /\ Outputs(f, before, msg, after).before = before
         /\ Outputs(f, before, msg, after).msg = msg
         /\ Outputs(f, before, msg, after).after = after
BY DEF Outputs

\* A negotiated hold time is a hold time.
LEMMA NegotiatedType ==
  ASSUME NEW open \in Opens
  PROVE  Negotiated(open) \in U16
<1>1. open.hold_time \in U16
  BY OpensAssumption DEF OpenMessage
<1>2. HoldTime \in U16
  BY ConfigAssumption
<1>q. QED BY <1>1, <1>2, HoldTimes DEF Negotiated

\* A timer flag stays a Boolean under the start and stop outputs of execute().
LEMMA SwitchType ==
  ASSUME NEW on, NEW acts, NEW start, NEW stop
  PROVE  Switch(on, acts, start, stop) \in BOOLEAN
BY DEF Switch

\* What execute() does to every field of the session.
LEMMA ExecuteFields ==
  ASSUME NEW s \in SessionType, NEW r, NEW lost, r.fsm \in FsmType,
         NEW e, e = Execute(s, r, lost), NEW x, x = Executed(s, r, lost)
  PROVE  /\ e \in SessionType
         /\ e.fsm = r.fsm
         /\ e.hold <=> "StartHold" \in x \/ (s.hold /\ "StopHold" \notin x)
         /\ e.keepalive <=> "StartKeepalive" \in x \/ (s.keepalive /\ "StopKeepalive" \notin x)
         /\ e.retry <=> "StartRetry" \in x \/ (s.retry /\ "StopRetry" \notin x)
         /\ e.transport = IF SendFails(s, r, lost) \/ "CloseTcpConnection" \in x
                          THEN None ELSE s.transport
         /\ e.connecting <=> \/ "InitiateTcpConnect" \in x
                             \/ /\ s.connecting
                                /\ ~(SendFails(s, r, lost) \/ "CloseTcpConnection" \in x)
         /\ e.candidate = s.candidate
         /\ e.deadline = s.deadline
<1> DEFINE closed == SendFails(s, r, lost) \/ "CloseTcpConnection" \in x
           hold == Switch(s.hold, x, "StartHold", "StopHold")
           keepalive == Switch(s.keepalive, x, "StartKeepalive", "StopKeepalive")
           retry == Switch(s.retry, x, "StartRetry", "StopRetry")
           transport == IF closed THEN None ELSE s.transport
           connecting == "InitiateTcpConnect" \in x \/ (s.connecting /\ ~closed)
           up == Switch(s.up, x, "SessionEstablished", "SessionTerminated")
<1>1. e = [s EXCEPT !.fsm = r.fsm, !.hold = hold, !.keepalive = keepalive,
                    !.retry = retry, !.transport = transport,
                    !.connecting = connecting, !.up = up]
  BY Zenon DEF Execute
<1>2. /\ hold \in BOOLEAN /\ keepalive \in BOOLEAN /\ retry \in BOOLEAN
      /\ connecting \in BOOLEAN /\ up \in BOOLEAN
  BY SwitchType
<1>3. transport \in Conn \cup {None}
  BY DEF SessionType
<1>4. /\ hold <=> "StartHold" \in x \/ (s.hold /\ "StopHold" \notin x)
      /\ keepalive <=> "StartKeepalive" \in x \/ (s.keepalive /\ "StopKeepalive" \notin x)
      /\ retry <=> "StartRetry" \in x \/ (s.retry /\ "StopRetry" \notin x)
  BY DEF Switch
<1>5. /\ transport = IF closed THEN None ELSE s.transport
      /\ connecting <=> "InitiateTcpConnect" \in x \/ (s.connecting /\ ~closed)
  OBVIOUS
<1> HIDE DEF hold, keepalive, retry, transport, connecting, up
<1>6. e \in SessionType
  BY Zenon, <1>1, <1>2, <1>3 DEF SessionType
<1>7. /\ e.fsm = r.fsm /\ e.hold = hold /\ e.keepalive = keepalive /\ e.retry = retry
      /\ e.transport = transport /\ e.connecting = connecting
      /\ e.candidate = s.candidate /\ e.deadline = s.deadline
  BY <1>1 DEF SessionType
<1>q. QED BY <1>4, <1>5, <1>6, <1>7

\* The same of a step that neither loses nor closes the transport.
Unbroken(s, e, x) ==
  /\ e \in SessionType
  /\ e.hold <=> "StartHold" \in x \/ (s.hold /\ "StopHold" \notin x)
  /\ e.keepalive <=> "StartKeepalive" \in x \/ (s.keepalive /\ "StopKeepalive" \notin x)
  /\ e.retry <=> "StartRetry" \in x \/ (s.retry /\ "StopRetry" \notin x)
  /\ e.transport = s.transport
  /\ e.connecting <=> "InitiateTcpConnect" \in x \/ s.connecting
  /\ e.candidate = s.candidate
  /\ e.deadline = s.deadline

LEMMA ExecuteKeeps ==
  ASSUME NEW s \in SessionType, NEW r, NEW lost, r.fsm \in FsmType,
         NEW e, e = Execute(s, r, lost), NEW x, x = Executed(s, r, lost),
         ~SendFails(s, r, lost), "CloseTcpConnection" \notin x
  PROVE  e.fsm = r.fsm /\ Unbroken(s, e, x)
BY ExecuteFields, SMT DEF Unbroken

-----------------------------------------------------------------------------
(* One input of the FSM.                                                   *)

\* The session record when the FSM gets an input of this kind: Good, except
\* for what the arm of the select that produced the input has changed.
Ready(s, kind) ==
  LET f == s.fsm
      live == {"OpenSent", "OpenConfirm", "Established"}
  IN /\ f.state \in {"Connect", "Active"} /\ kind # "ConnectRetryTimerExpired" => s.retry
     /\ s.retry => f.state \in {"Idle", "Connect", "Active"}
     /\ f.state = "OpenSent" /\ kind # "HoldTimerExpired" => s.hold
     /\ f.state = "OpenConfirm" /\ f.hold_time > 0 /\ kind # "HoldTimerExpired" => s.hold
     /\ f.state = "Established" /\ kind # "HoldTimerExpired" =>
          /\ s.hold <=> f.hold_time > 0
          /\ s.keepalive \/ kind = "KeepaliveTimerExpired" <=> f.hold_time > 0
     /\ f.state \in {"OpenConfirm", "Established"} =>
          /\ f.peer_open # None
          /\ OpenValid(f.peer_open)
          /\ f.hold_time = Negotiated(f.peer_open)
     /\ f.state \in {"OpenSent", "Established"} /\ kind # "TcpFailed" => s.transport # None
     /\ kind \in Message \cup {"TcpConnected"} => s.transport # None
     /\ s.transport # None /\ s.transport.origin = "Outbound" =>
          /\ ~s.connecting /\ kind # "TcpFailed"
          /\ f.state \in live \cup (IF kind = "TcpConnected" THEN {"Connect", "Active"} ELSE {})
     /\ s.connecting => f.state \in {"Connect"} \cup live
     /\ kind = "TcpFailed" => ~s.connecting
     /\ s.candidate # None => s.candidate.conn.origin = "Inbound"
     /\ f.state = "OpenConfirm" /\ s.transport = None => ~s.connecting
     /\ f.state = "OpenConfirm" /\ f.hold_time = 0 /\ s.transport # None =>
          ~s.hold /\ ~s.keepalive

\* The session record t that one input of the FSM makes of s.
Stepped(s, t) ==
  /\ t \in SessionType
  /\ Good(t)
  /\ t.candidate = s.candidate
  /\ t.deadline = s.deadline
  /\ s.fsm.state = "OpenSent" /\ t.fsm.state = "OpenSent" => t.transport = s.transport

\* A handler's result that closes the connection and goes to Idle.
Closing(r) ==
  /\ r.fsm \in FsmType
  /\ r.fsm.state = "Idle"
  /\ "CloseTcpConnection" \in r.before \cup r.after
  /\ "InitiateTcpConnect" \notin r.before \cup r.after

\* A round in which no write fails executes all outputs.
LEMMA StepDone ==
  ASSUME NEW s, NEW in, NEW lost, NEW r, r = Process(s.fsm, in), ~SendFails(s, r, lost)
  PROVE  /\ Step(s, in, lost) = Execute(s, r, lost)
         /\ Executed(s, r, lost) = r.before \cup r.after
BY DEF Step, Executed

\* A round with a failed write executes what precedes it, then a TcpFailed.
LEMMA StepFailed ==
  ASSUME NEW s, NEW in, NEW lost, NEW r, r = Process(s.fsm, in), SendFails(s, r, lost),
         NEW d, d = Execute(s, r, lost)
  PROVE  /\ Step(s, in, lost) = Execute(d, Process(d.fsm, Input("TcpFailed")), {})
         /\ Executed(s, r, lost) = r.before
BY DEF Step, Executed, Apply

\* A write cannot fail where execute() writes nothing.
LEMMA QuietNeverFails ==
  ASSUME NEW s, NEW r, NEW lost, r.msg = "Nothing" \/ s.transport = None \/ lost = {}
  PROVE  ~SendFails(s, r, lost)
BY DEF SendFails

\* An ignored input changes nothing.
LEMMA IgnoreFields ==
  ASSUME NEW s \in SessionType, NEW r, r = Ignore(s.fsm), NEW lost,
         NEW e, e = Execute(s, r, lost)
  PROVE  /\ e \in SessionType
         /\ e.fsm = s.fsm
         /\ e.hold <=> s.hold
         /\ e.keepalive <=> s.keepalive
         /\ e.retry <=> s.retry
         /\ e.transport = s.transport
         /\ e.connecting <=> s.connecting
         /\ e.candidate = s.candidate
         /\ e.deadline = s.deadline
<1>1. r.fsm = s.fsm /\ r.before = {} /\ r.after = {} /\ r.msg = "Nothing"
  BY OutputsFields DEF Ignore, Quiet
<1>2. ~SendFails(s, r, lost)
  BY <1>1, QuietNeverFails
<1>3. Executed(s, r, lost) = {}
  BY <1>1, <1>2 DEF Executed
<1>4. s.fsm \in FsmType
  BY DEF SessionType
<1>q. QED BY <1>1, <1>2, <1>3, <1>4, ExecuteFields

\* process() dispatches on the state (here and in the next five lemmas).
LEMMA ProcessIdle ==
  ASSUME NEW f, NEW in, f.state = "Idle" PROVE Process(f, in) = OnIdle(f, in)
BY DEF Process
\* process() in Connect.
LEMMA ProcessConnect ==
  ASSUME NEW f, NEW in, f.state = "Connect" PROVE Process(f, in) = OnConnect(f, in)
BY DEF Process
\* process() in Active.
LEMMA ProcessActive ==
  ASSUME NEW f, NEW in, f.state = "Active" PROVE Process(f, in) = OnActive(f, in)
BY DEF Process
\* process() in OpenSent.
LEMMA ProcessOpenSent ==
  ASSUME NEW f, NEW in, f.state = "OpenSent" PROVE Process(f, in) = OnOpenSent(f, in)
BY DEF Process
\* process() in OpenConfirm.
LEMMA ProcessOpenConfirm ==
  ASSUME NEW f, NEW in, f.state = "OpenConfirm" PROVE Process(f, in) = OnOpenConfirm(f, in)
BY DEF Process
\* process() in Established.
LEMMA ProcessEstablished ==
  ASSUME NEW f, NEW in, f.state = "Established" PROVE Process(f, in) = OnEstablished(f, in)
BY DEF Process

\* Every input but an OPEN is determined by its kind.
LEMMA InputKinds ==
  ASSUME NEW kind \in InputKind \ {"Open"}
  PROVE  Input(kind) \in FsmInput /\ Input(kind).kind = kind
BY DEF Input, FsmInput

\* Outputs that close the connection and dial no other one are a closing result.
LEMMA ClosingOutputs ==
  ASSUME NEW g \in FsmType, g.state = "Idle", NEW before, NEW msg, NEW after,
         "CloseTcpConnection" \in before \cup after,
         "InitiateTcpConnect" \notin before \cup after
  PROVE  Closing(Outputs(g, before, msg, after))
BY OutputsFields DEF Closing

\* A closing result leaves an Idle session without any connection, also when
\* its write fails and TcpFailed is fed back.
LEMMA ClosingStep ==
  ASSUME NEW s \in SessionType, NEW in, NEW lost,
         Closing(Process(s.fsm, in)),
         s.candidate # None => s.candidate.conn.origin = "Inbound"
  PROVE  Stepped(s, Step(s, in, lost))
<1> DEFINE r == Process(s.fsm, in)
           t == Step(s, in, lost)
           d == Execute(s, r, lost)
<1>0. r.fsm \in FsmType /\ r.fsm.state = "Idle"
  BY DEF Closing
<1>1. /\ d \in SessionType /\ d.fsm.state = "Idle" /\ d.transport = None
      /\ ~d.connecting /\ d.candidate = s.candidate /\ d.deadline = s.deadline
  <2>1. CASE SendFails(s, r, lost)
    <3>1. Executed(s, r, lost) = r.before
      BY <2>1 DEF Executed
    <3>q. QED BY <1>0, <2>1, <3>1, ExecuteFields DEF Closing
  <2>2. CASE ~SendFails(s, r, lost)
    <3>1. Executed(s, r, lost) = r.before \cup r.after
      BY <2>2 DEF Executed
    <3>q. QED BY <1>0, <3>1, ExecuteFields DEF Closing
  <2>q. QED BY <2>1, <2>2
<1>2. /\ t \in SessionType /\ t.fsm.state = "Idle" /\ t.transport = None
      /\ ~t.connecting /\ t.candidate = s.candidate /\ t.deadline = s.deadline
  <2>1. CASE SendFails(s, r, lost)
    <3>1. t = Execute(d, Process(d.fsm, Input("TcpFailed")), {})
      BY <2>1 DEF Step, Apply
    <3>2. Process(d.fsm, Input("TcpFailed")) = Ignore(d.fsm)
      BY <1>1, ProcessIdle DEF OnIdle, Input
    <3>3. t = Execute(d, Ignore(d.fsm), {})
      BY <3>1, <3>2
    <3> HIDE DEF d, t
    <3>q. QED BY <1>1, <3>3, IgnoreFields DEF SessionType
  <2>2. CASE ~SendFails(s, r, lost)
    <3>1. t = d
      BY <2>2, StepDone
    <3>q. QED BY <1>1, <3>1
  <2>q. QED BY <2>1, <2>2
<1> HIDE DEF t, d, r
<1>3. Good(t)
  BY <1>2 DEF Good, SupervisedIn, HandshakeIn, ConnectionsIn
<1>q. QED BY <1>2, <1>3 DEF Stepped, t

\* What a round without a failed write does to the session.
LEMMA StepFields ==
  ASSUME NEW s \in SessionType, NEW in, NEW lost,
         NEW r, r = Process(s.fsm, in), r.fsm \in FsmType, ~SendFails(s, r, lost),
         NEW t, t = Step(s, in, lost), NEW x, x = r.before \cup r.after
  PROVE  /\ t \in SessionType
         /\ t.fsm = r.fsm
         /\ t.hold <=> "StartHold" \in x \/ (s.hold /\ "StopHold" \notin x)
         /\ t.keepalive <=> "StartKeepalive" \in x \/ (s.keepalive /\ "StopKeepalive" \notin x)
         /\ t.retry <=> "StartRetry" \in x \/ (s.retry /\ "StopRetry" \notin x)
         /\ t.transport = IF "CloseTcpConnection" \in x THEN None ELSE s.transport
         /\ t.connecting <=> \/ "InitiateTcpConnect" \in x
                             \/ s.connecting /\ "CloseTcpConnection" \notin x
         /\ t.candidate = s.candidate
         /\ t.deadline = s.deadline
<1>1. t = Execute(s, r, lost) /\ Executed(s, r, lost) = x
  BY StepDone
<1>q. QED BY <1>1, ExecuteFields

\* The same for a handler that sends nothing.
LEMMA QuietFields ==
  ASSUME NEW s \in SessionType, NEW in, NEW lost,
         NEW g \in FsmType, NEW x, Process(s.fsm, in) = Quiet(g, x),
         NEW t, t = Step(s, in, lost)
  PROVE  /\ t \in SessionType
         /\ t.fsm = g
         /\ t.hold <=> "StartHold" \in x \/ (s.hold /\ "StopHold" \notin x)
         /\ t.keepalive <=> "StartKeepalive" \in x \/ (s.keepalive /\ "StopKeepalive" \notin x)
         /\ t.retry <=> "StartRetry" \in x \/ (s.retry /\ "StopRetry" \notin x)
         /\ t.transport = IF "CloseTcpConnection" \in x THEN None ELSE s.transport
         /\ t.connecting <=> \/ "InitiateTcpConnect" \in x
                             \/ s.connecting /\ "CloseTcpConnection" \notin x
         /\ t.candidate = s.candidate
         /\ t.deadline = s.deadline
<1> DEFINE r == Process(s.fsm, in)
<1>1. r.fsm = g /\ r.before = x /\ r.after = {} /\ r.msg = "Nothing"
  BY OutputsFields DEF Quiet
<1>2. ~SendFails(s, r, lost)
  BY <1>1, QuietNeverFails
<1>3. x = r.before \cup r.after
  BY <1>1
<1> HIDE DEF r
<1>q. QED BY <1>1, <1>2, <1>3, StepFields DEF r

\* An ignored input keeps a good session good.
LEMMA IgnoredStep ==
  ASSUME NEW s \in SessionType, NEW in, NEW lost, Good(s),
         Process(s.fsm, in) = Ignore(s.fsm)
  PROVE  Stepped(s, Step(s, in, lost))
<1>1. s.fsm \in FsmType
  BY DEF SessionType
<1>2. PICK t : t = Step(s, in, lost)
  OBVIOUS
<1>3. Process(s.fsm, in) = Quiet(s.fsm, {})
  BY DEF Ignore
<1>4. /\ t \in SessionType /\ t.fsm = s.fsm /\ (t.hold <=> s.hold)
      /\ (t.keepalive <=> s.keepalive) /\ (t.retry <=> s.retry)
      /\ t.transport = s.transport /\ (t.connecting <=> s.connecting)
      /\ t.candidate = s.candidate /\ t.deadline = s.deadline
  BY <1>1, <1>2, <1>3, QuietFields DEF SessionType
<1>5. Good(t)
  BY <1>4 DEF Good, SupervisedIn, HandshakeIn, ConnectionsIn, SessionType
<1>q. QED BY <1>2, <1>4, <1>5 DEF Stepped

\* One pass of the loop of run() that finds the FSM in Idle keeps the session good.
LEMMA IdleStep ==
  ASSUME NEW s \in SessionType, NEW in \in FsmInput, NEW lost,
         Ready(s, in.kind), s.fsm.state = "Idle"
  PROVE  Stepped(s, Step(s, in, lost))
<1>0. s.fsm \in FsmType /\ Process(s.fsm, in) = OnIdle(s.fsm, in)
  BY ProcessIdle DEF SessionType
<1>1. CASE in.kind \in {"ManualStart", "ConnectRetryTimerExpired"}
  <2>1. Process(s.fsm, in) = Quiet(To(s.fsm, "Connect"), {"StartRetry", "InitiateTcpConnect"})
    BY <1>0, <1>1 DEF OnIdle
  <2>2. To(s.fsm, "Connect") \in FsmType /\ To(s.fsm, "Connect").state = "Connect"
    BY <1>0, ToFields DEF State
  <2>3. PICK t : t = Step(s, in, lost)
    OBVIOUS
  <2>4. /\ t \in SessionType /\ t.fsm.state = "Connect" /\ t.retry
        /\ t.transport = s.transport
        /\ t.candidate = s.candidate /\ t.deadline = s.deadline
    BY <2>1, <2>2, <2>3, QuietFields DEF SessionType
  <2>5. Good(t)
    BY <1>1, <2>4 DEF Ready, Good, SupervisedIn, HandshakeIn, ConnectionsIn, SessionType
  <2>q. QED BY <2>3, <2>4, <2>5 DEF Stepped
<1>2. CASE in.kind \notin {"ManualStart", "ConnectRetryTimerExpired"}
  <2>1. Process(s.fsm, in) = Ignore(s.fsm)
    BY <1>0, <1>2 DEF OnIdle
  <2>2. Good(s)
    BY DEF Ready, Good, SupervisedIn, HandshakeIn, ConnectionsIn
  <2>q. QED BY <2>1, <2>2, IgnoredStep
<1>q. QED BY <1>1, <1>2

\* How a session under way answers a lost connection.
LEMMA TcpFailedAnswers ==
  ASSUME NEW f
  PROVE  /\ OnOpenSent(f, Input("TcpFailed")) =
              Quiet(To(f, "Active"), {"StopHold", "StartRetry"})
         /\ OnOpenConfirm(f, Input("TcpFailed")) =
              Quiet(Forget(f, "Idle"),
                    StopTimers \cup {"CloseTcpConnection", "SessionTerminated", "StartRetry"})
         /\ OnEstablished(f, Input("TcpFailed")) =
              Quiet(Forget(f, "Idle"),
                    StopTimers \cup {"CloseTcpConnection", "SessionTerminated", "StartRetry"})
<1>1. PICK in : in = Input("TcpFailed")
  OBVIOUS
<1>2. in.kind = "TcpFailed"
  BY <1>1 DEF Input
<1>3. OnOpenSent(f, in) = Quiet(To(f, "Active"), {"StopHold", "StartRetry"})
  BY <1>2 DEF OnOpenSent
<1>4. OnOpenConfirm(f, in) =
        Quiet(Forget(f, "Idle"),
              StopTimers \cup {"CloseTcpConnection", "SessionTerminated", "StartRetry"})
  BY <1>2 DEF OnOpenConfirm
<1>5. OnEstablished(f, in) =
        Quiet(Forget(f, "Idle"),
              StopTimers \cup {"CloseTcpConnection", "SessionTerminated", "StartRetry"})
  BY <1>2 DEF OnEstablished
<1>q. QED BY <1>1, <1>3, <1>4, <1>5

\* A new connection: our OPEN goes out under the hold timer; when it cannot be
\* written the session waits in Active under the retry timer.
LEMMA TcpConnectedStep ==
  ASSUME NEW s \in SessionType, NEW in \in FsmInput, NEW lost,
         Ready(s, "TcpConnected"), s.fsm.state \in {"Connect", "Active"},
         Process(s.fsm, in) = DoTcpConnected(s.fsm)
  PROVE  Stepped(s, Step(s, in, lost))
<1>0. s.fsm \in FsmType
  BY DEF SessionType
<1>1. PICK r : r = Process(s.fsm, in)
  OBVIOUS
<1>2. PICK g : g = To(s.fsm, "OpenSent")
  OBVIOUS
<1>3. g \in FsmType /\ g.state = "OpenSent"
  BY <1>0, <1>2, ToFields DEF State
<1>4. r.fsm = g /\ r.before = {"StopRetry"} /\ r.msg = "Open" /\ r.after = {"StartHold"}
  BY <1>1, <1>2, OutputsFields DEF DoTcpConnected
<1>5. PICK t : t = Step(s, in, lost)
  OBVIOUS
<1>6. CASE ~SendFails(s, r, lost)
  <2>1. PICK x : x = r.before \cup r.after
    BY Zenon
  <2>2. x = {"StopRetry", "StartHold"}
    BY <1>4, <2>1
  <2>3. /\ t \in SessionType /\ t.fsm.state = "OpenSent" /\ t.hold /\ ~t.retry
        /\ t.transport = s.transport /\ (t.connecting <=> s.connecting)
        /\ t.candidate = s.candidate /\ t.deadline = s.deadline
    BY <1>1, <1>3, <1>4, <1>5, <1>6, <2>1, <2>2, StepFields DEF SessionType
  <2>4. Good(t)
    BY <2>3 DEF Ready, Good, SupervisedIn, HandshakeIn, ConnectionsIn, SessionType
  <2>q. QED BY <1>5, <2>3, <2>4 DEF Stepped
<1>7. CASE SendFails(s, r, lost)
  <2>1. PICK d : d = Execute(s, r, lost)
    OBVIOUS
  <2>2. Executed(s, r, lost) = {"StopRetry"}
    BY SMTT(30), Z3T(30), <1>1, <1>4, <1>7, <2>1, StepFailed
  <2>3. /\ d \in SessionType /\ d.fsm = g /\ ~d.retry
        /\ d.transport = None /\ ~d.connecting
        /\ d.candidate = s.candidate /\ d.deadline = s.deadline
    BY SMTT(30), Z3T(30), <1>3, <1>4, <1>7, <2>1, <2>2, ExecuteFields DEF SessionType
  <2>4. PICK q : q = Process(d.fsm, Input("TcpFailed"))
    OBVIOUS
  <2>5. t = Execute(d, q, {})
    BY <1>1, <1>5, <1>7, <2>1, <2>4, StepFailed
  <2>6. q = Quiet(To(g, "Active"), {"StopHold", "StartRetry"})
    BY <1>3, <2>3, <2>4, TcpFailedAnswers, ProcessOpenSent
  <2>7. /\ q.fsm = To(g, "Active") /\ q.before = {"StopHold", "StartRetry"}
        /\ q.msg = "Nothing" /\ q.after = {}
    BY <2>6, OutputsFields DEF Quiet
  <2>8. To(g, "Active") \in FsmType /\ To(g, "Active").state = "Active"
    BY <1>3, ToFields DEF State
  <2>9. ~SendFails(d, q, {}) /\ Executed(d, q, {}) = {"StopHold", "StartRetry"}
    BY <2>7 DEF SendFails, Executed
  <2>10. /\ t \in SessionType /\ t.fsm.state = "Active" /\ t.retry
         /\ t.transport = None /\ ~t.connecting
         /\ t.candidate = s.candidate /\ t.deadline = s.deadline
    BY SMTT(30), Z3T(30), <2>3, <2>5, <2>7, <2>8, <2>9, ExecuteFields DEF SessionType
  <2>11. Good(t)
    BY <2>10 DEF Ready, Good, SupervisedIn, HandshakeIn, ConnectionsIn, SessionType
  <2>q. QED BY <1>5, <2>10, <2>11 DEF Stepped
<1>q. QED BY <1>6, <1>7

\* The same in Connect: the dial and the retry timer follow the state.
LEMMA ConnectStep ==
  ASSUME NEW s \in SessionType, NEW in \in FsmInput, NEW lost,
         Ready(s, in.kind), s.fsm.state = "Connect"
  PROVE  Stepped(s, Step(s, in, lost))
<1>0. s.fsm \in FsmType /\ Process(s.fsm, in) = OnConnect(s.fsm, in)
  BY ProcessConnect DEF SessionType
<1>1. CASE in.kind = "TcpConnected"
  <2>1. Process(s.fsm, in) = DoTcpConnected(s.fsm)
    BY <1>0, <1>1 DEF OnConnect
  <2>q. QED BY <1>1, <2>1, TcpConnectedStep
<1>2. CASE in.kind = "TcpFailed"
  <2>1. Process(s.fsm, in) = Quiet(To(s.fsm, "Active"), {"StartRetry"})
    BY <1>0, <1>2 DEF OnConnect
  <2>2. To(s.fsm, "Active") \in FsmType /\ To(s.fsm, "Active").state = "Active"
    BY <1>0, ToFields DEF State
  <2>3. PICK t : t = Step(s, in, lost)
    OBVIOUS
  <2>4. /\ t \in SessionType /\ t.fsm.state = "Active" /\ t.retry
        /\ t.transport = s.transport /\ (t.connecting <=> s.connecting)
        /\ t.candidate = s.candidate /\ t.deadline = s.deadline
    BY <2>1, <2>2, <2>3, QuietFields DEF SessionType
  <2>5. Good(t)
    BY <1>2, <2>4 DEF Ready, Good, SupervisedIn, HandshakeIn, ConnectionsIn, SessionType
  <2>q. QED BY <2>3, <2>4, <2>5 DEF Stepped
<1>3. CASE in.kind = "ConnectRetryTimerExpired"
  <2>1. Process(s.fsm, in) = Quiet(s.fsm, {"InitiateTcpConnect", "StartRetry"})
    BY <1>0, <1>3 DEF OnConnect
  <2>3. PICK t : t = Step(s, in, lost)
    OBVIOUS
  <2>4. /\ t \in SessionType /\ t.fsm.state = "Connect" /\ t.retry
        /\ t.transport = s.transport
        /\ t.candidate = s.candidate /\ t.deadline = s.deadline
    BY SMTT(30), Z3T(30), <1>0, <2>1, <2>3, QuietFields DEF SessionType
  <2>5. Good(t)
    BY SMTT(30), ZenonT(30), <1>3, <2>4 DEF Ready, Good, SupervisedIn, HandshakeIn, ConnectionsIn, SessionType
  <2>q. QED BY <2>3, <2>4, <2>5 DEF Stepped
<1>4. CASE in.kind = "ManualStop"
  <2>1. Process(s.fsm, in) = Quiet(To(s.fsm, "Idle"), {"StopRetry", "CloseTcpConnection"})
    BY <1>0, <1>4 DEF OnConnect, DoStopPreOpen
  <2>2. Closing(Process(s.fsm, in))
    BY <1>0, <2>1, ToFields, OutputsFields DEF Closing, Quiet, State
  <2>q. QED BY <2>2, ClosingStep DEF Ready
<1>5. CASE in.kind \notin {"TcpConnected", "TcpFailed", "ConnectRetryTimerExpired", "ManualStop"}
  <2>1. Process(s.fsm, in) = Ignore(s.fsm)
    BY <1>0, <1>5 DEF OnConnect
  <2>2. Good(s)
    BY <1>5 DEF Ready, Good, SupervisedIn, HandshakeIn, ConnectionsIn
  <2>q. QED BY <2>1, <2>2, IgnoredStep
<1>q. QED BY <1>1, <1>2, <1>3, <1>4, <1>5

\* The same in Active.
LEMMA ActiveStep ==
  ASSUME NEW s \in SessionType, NEW in \in FsmInput, NEW lost,
         Ready(s, in.kind), s.fsm.state = "Active"
  PROVE  Stepped(s, Step(s, in, lost))
<1>0. s.fsm \in FsmType /\ Process(s.fsm, in) = OnActive(s.fsm, in)
  BY ProcessActive DEF SessionType
<1>1. CASE in.kind = "TcpConnected"
  <2>1. Process(s.fsm, in) = DoTcpConnected(s.fsm)
    BY <1>0, <1>1 DEF OnActive
  <2>q. QED BY <1>1, <2>1, TcpConnectedStep
<1>2. CASE in.kind = "ConnectRetryTimerExpired"
  <2>1. Process(s.fsm, in) = Quiet(To(s.fsm, "Connect"), {"InitiateTcpConnect", "StartRetry"})
    BY <1>0, <1>2 DEF OnActive
  <2>2. To(s.fsm, "Connect") \in FsmType /\ To(s.fsm, "Connect").state = "Connect"
    BY <1>0, ToFields DEF State
  <2>3. PICK t : t = Step(s, in, lost)
    OBVIOUS
  <2>4. /\ t \in SessionType /\ t.fsm.state = "Connect" /\ t.retry
        /\ t.transport = s.transport
        /\ t.candidate = s.candidate /\ t.deadline = s.deadline
    BY SMTT(30), Z3T(30), <2>1, <2>2, <2>3, QuietFields DEF SessionType
  <2>5. Good(t)
    BY SMTT(30), ZenonT(30), <1>2, <2>4 DEF Ready, Good, SupervisedIn, HandshakeIn, ConnectionsIn, SessionType
  <2>q. QED BY <2>3, <2>4, <2>5 DEF Stepped
<1>3. CASE in.kind = "ManualStop"
  <2>1. Process(s.fsm, in) = Quiet(To(s.fsm, "Idle"), {"StopRetry", "CloseTcpConnection"})
    BY <1>0, <1>3 DEF OnActive, DoStopPreOpen
  <2>2. Closing(Process(s.fsm, in))
    BY <1>0, <2>1, ToFields, OutputsFields DEF Closing, Quiet, State
  <2>q. QED BY <2>2, ClosingStep DEF Ready
<1>4. CASE in.kind \notin {"TcpConnected", "ConnectRetryTimerExpired", "ManualStop"}
  <2>1. Process(s.fsm, in) = Ignore(s.fsm)
    BY SMTT(30), ZenonT(30), <1>0, <1>4 DEF OnActive
  <2>2. Good(s)
    BY <1>4 DEF Ready, Good, SupervisedIn, HandshakeIn, ConnectionsIn
  <2>q. QED BY <2>1, <2>2, IgnoredStep
<1>q. QED BY <1>1, <1>2, <1>3, <1>4

\* A write that fails past OpenSent takes the session down to Idle: the
\* TcpFailed that is fed back finds it in OpenConfirm or Established.
LEMMA LostConnectionStep ==
  ASSUME NEW s \in SessionType, NEW in, NEW lost,
         NEW r, r = Process(s.fsm, in), SendFails(s, r, lost),
         r.fsm \in FsmType, r.fsm.state \in {"OpenConfirm", "Established"},
         s.candidate # None => s.candidate.conn.origin = "Inbound",
         "InitiateTcpConnect" \notin r.before
  PROVE  Stepped(s, Step(s, in, lost))
<1>1. PICK d, q, t : /\ d = Execute(s, r, lost)
                     /\ q = Process(d.fsm, Input("TcpFailed"))
                     /\ t = Step(s, in, lost)
  OBVIOUS
<1>2. t = Execute(d, q, {}) /\ Executed(s, r, lost) = r.before
  BY <1>1, StepFailed
<1>3. /\ d \in SessionType /\ d.fsm = r.fsm /\ ~d.connecting
      /\ d.candidate = s.candidate /\ d.deadline = s.deadline
  BY SMTT(30), Z3T(30), <1>1, <1>2, ExecuteFields DEF SessionType
<1>4. q = Quiet(Forget(r.fsm, "Idle"),
                StopTimers \cup {"CloseTcpConnection", "SessionTerminated", "StartRetry"})
  BY <1>1, <1>3, TcpFailedAnswers, ProcessOpenConfirm, ProcessEstablished
<1>5. Forget(r.fsm, "Idle") \in FsmType /\ Forget(r.fsm, "Idle").state = "Idle"
  BY ForgetFields DEF State
<1>6. /\ q.fsm = Forget(r.fsm, "Idle") /\ q.msg = "Nothing" /\ q.after = {}
      /\ q.before = StopTimers \cup {"CloseTcpConnection", "SessionTerminated", "StartRetry"}
  BY <1>4, OutputsFields DEF Quiet
<1>7. PICK x : x = Executed(d, q, {})
  OBVIOUS
<1>8. /\ ~SendFails(d, q, {})
      /\ "CloseTcpConnection" \in x /\ "InitiateTcpConnect" \notin x
  BY SMTT(30), ZenonT(30), <1>6, <1>7 DEF SendFails, Executed, StopTimers
<1>9. /\ t \in SessionType /\ t.fsm.state = "Idle" /\ t.transport = None
      /\ ~t.connecting /\ t.candidate = s.candidate /\ t.deadline = s.deadline
  BY SMTT(30), Z3T(30), <1>2, <1>3, <1>5, <1>6, <1>7, <1>8, ExecuteFields DEF SessionType
<1>10. Good(t)
  BY <1>9 DEF Good, SupervisedIn, HandshakeIn, ConnectionsIn, SessionType
<1>q. QED BY <1>1, <1>9, <1>10 DEF Stepped

\* The FSM record that accepts an OPEN.
LEMMA AcceptFields ==
  ASSUME NEW f \in FsmType, NEW open \in Opens
  PROVE  /\ Accept(f, open) \in FsmType
         /\ Accept(f, open).state = "OpenConfirm"
         /\ Accept(f, open).peer_open = open
         /\ Accept(f, open).hold_time = Negotiated(open)
BY Zenon, NegotiatedType DEF FsmType, Accept, State

\* What on_open_sent answers to an OPEN that passes validate_open.
LEMMA OpenAnswer ==
  ASSUME NEW f, NEW in, in.kind = "Open", OpenValid(in.open)
  PROVE  OnOpenSent(f, in) = Outputs(Accept(f, in.open), {}, "Keepalive",
                                     TimerActions(Negotiated(in.open)))
BY DEF OnOpenSent

\* The same in OpenSent: an accepted OPEN starts the negotiated timers.
LEMMA OpenSentStep ==
  ASSUME NEW s \in SessionType, NEW in \in FsmInput, NEW lost,
         Ready(s, in.kind), s.fsm.state = "OpenSent", in.kind # "CollisionDetected"
  PROVE  Stepped(s, Step(s, in, lost))
<1>0. s.fsm \in FsmType /\ Process(s.fsm, in) = OnOpenSent(s.fsm, in)
  BY ProcessOpenSent DEF SessionType
<1>1. CASE in.kind = "Open" /\ OpenValid(in.open)
  <2>0. in.open \in Opens /\ in.open # None
    BY <1>1, OpensAssumption DEF FsmInput
  <2>1. PICK r, g, n, t : /\ r = Process(s.fsm, in) /\ g = Accept(s.fsm, in.open)
                          /\ n = Negotiated(in.open) /\ t = Step(s, in, lost)
    OBVIOUS
  <2>2. /\ g \in FsmType /\ g.state = "OpenConfirm"
        /\ g.peer_open = in.open /\ g.hold_time = n /\ n \in Nat
    BY ZenonT(60), <1>0, <2>0, <2>1, AcceptFields, NegotiatedType, HoldTimes
  <2>3. r.fsm = g /\ r.before = {} /\ r.msg = "Keepalive" /\ r.after = TimerActions(n)
    BY SMTT(30), ZenonT(40), Z3T(30), <1>0, <1>1, <2>1, OpenAnswer, OutputsFields
  <2>4. CASE SendFails(s, r, lost)
    BY <2>1, <2>2, <2>3, <2>4, LostConnectionStep DEF Ready
  <2>5. CASE ~SendFails(s, r, lost)
    <3>1. PICK x : x = r.before \cup r.after
      BY ZenonT(60)
    <3>2. x = TimerActions(n)
      BY <2>3, <3>1
    <3>3. /\ n > 0 => "StartHold" \in x /\ "StartKeepalive" \in x
          /\ n = 0 => /\ "StartHold" \notin x /\ "StartKeepalive" \notin x
                      /\ "StopHold" \in x /\ "StopKeepalive" \in x
          /\ "StartRetry" \notin x /\ "CloseTcpConnection" \notin x
          /\ "InitiateTcpConnect" \notin x
      BY SMTT(30), Z3T(30), <2>2, <3>2 DEF TimerActions
    <3>4. /\ t \in SessionType /\ t.fsm = g
          /\ n > 0 => t.hold
          /\ n = 0 => ~t.hold /\ ~t.keepalive
          /\ t.retry => s.retry
          /\ t.transport = s.transport /\ (t.connecting <=> s.connecting)
          /\ t.candidate = s.candidate /\ t.deadline = s.deadline
      BY SMTT(30), ZenonT(40), Z3T(30), <2>1, <2>2, <2>3, <2>5, <3>1, <3>3, StepFields DEF SessionType
    <3>5. Good(t)
      BY SMTT(30), ZenonT(30), <1>1, <2>0, <2>1, <2>2, <3>4
      DEF Ready, Good, SupervisedIn, HandshakeIn, ConnectionsIn, SessionType
    <3>q. QED BY <2>1, <2>2, <3>4, <3>5 DEF Stepped
  <2>q. QED BY <2>4, <2>5
<1>2. CASE in.kind = "TcpFailed"
  <2>1. Process(s.fsm, in) = Quiet(To(s.fsm, "Active"), {"StopHold", "StartRetry"})
    BY <1>0, <1>2 DEF OnOpenSent
  <2>2. To(s.fsm, "Active") \in FsmType /\ To(s.fsm, "Active").state = "Active"
    BY <1>0, ToFields DEF State
  <2>3. PICK t : t = Step(s, in, lost)
    OBVIOUS
  <2>4. /\ t \in SessionType /\ t.fsm.state = "Active" /\ t.retry
        /\ t.transport = s.transport /\ (t.connecting <=> s.connecting)
        /\ t.candidate = s.candidate /\ t.deadline = s.deadline
    BY SMTT(30), Z3T(30), <2>1, <2>2, <2>3, QuietFields DEF SessionType
  <2>5. Good(t)
    BY SMTT(30), ZenonT(30), <1>2, <2>4 DEF Ready, Good, SupervisedIn, HandshakeIn, ConnectionsIn, SessionType
  <2>q. QED BY <2>3, <2>4, <2>5 DEF Stepped
<1>3. CASE \/ in.kind \in {"Notification", "HoldTimerExpired", "ManualStop",
                           "Keepalive", "Update", "RouteRefresh"}
           \/ in.kind = "Open" /\ ~OpenValid(in.open)
  <2>1. PICK r, g : r = Process(s.fsm, in) /\ g = To(s.fsm, "Idle")
    BY SMTT(30), ZenonT(30)
  <2>2. g \in FsmType /\ g.state = "Idle"
    BY <1>0, <2>1, ToFields DEF State
  <2>3. ASSUME in.kind = "Notification" PROVE Closing(r)
    <3>1. r = Outputs(g, {"StopHold", "CloseTcpConnection", "StartRetry"}, "Nothing", {})
      BY <1>0, <2>1, <2>3 DEF OnOpenSent, Quiet
    <3>q. QED BY <2>2, <3>1, ClosingOutputs
  <2>4. ASSUME in.kind = "HoldTimerExpired" PROVE Closing(r)
    <3>1. r = Outputs(g, {}, "Notification", {"CloseTcpConnection", "StartRetry"})
      BY <1>0, <2>1, <2>4 DEF OnOpenSent
    <3>q. QED BY <2>2, <3>1, ClosingOutputs
  <2>5. ASSUME in.kind = "ManualStop" PROVE Closing(r)
    <3>1. r = Outputs(g, {"StopHold"}, "Notification", {"CloseTcpConnection"})
      BY <1>0, <2>1, <2>5 DEF OnOpenSent
    <3>q. QED BY <2>2, <3>1, ClosingOutputs
  <2>6. ASSUME \/ in.kind \in {"Keepalive", "Update", "RouteRefresh"}
               \/ in.kind = "Open" /\ ~OpenValid(in.open)
        PROVE  Closing(r)
    <3>1. r = Outputs(g, {}, "Notification", {"StopHold", "CloseTcpConnection"})
      BY <1>0, <2>1, <2>6 DEF OnOpenSent
    <3>q. QED BY <2>2, <3>1, ClosingOutputs
  <2>7. Closing(r)
    BY <1>3, <2>3, <2>4, <2>5, <2>6
  <2>q. QED BY SMTT(30), ZenonT(30), <2>1, <2>7, ClosingStep DEF Ready
<1>4. CASE in.kind \notin Message \cup {"TcpFailed", "HoldTimerExpired", "ManualStop"}
  <2>1. Process(s.fsm, in) = Ignore(s.fsm)
    BY SMTT(30), ZenonT(30), <1>0, <1>4 DEF OnOpenSent, Message
  <2>2. Good(s)
    BY <1>4 DEF Ready, Good, SupervisedIn, HandshakeIn, ConnectionsIn
  <2>q. QED BY <2>1, <2>2, IgnoredStep
<1>q. QED BY <1>1, <1>2, <1>3, <1>4 DEF Message

\* The keepalive timer of a session under way.
LEMMA KeepaliveTimerStep ==
  ASSUME NEW s \in SessionType, NEW in \in FsmInput, NEW lost,
         Ready(s, "KeepaliveTimerExpired"),
         s.fsm.state \in {"OpenConfirm", "Established"},
         Process(s.fsm, in) = SendKeepalive(s.fsm)
  PROVE  Stepped(s, Step(s, in, lost))
<1>0. s.fsm \in FsmType /\ s.fsm.hold_time \in Nat
  BY Zenon, HoldTimes DEF SessionType, FsmType
<1>1. PICK r, t : r = Process(s.fsm, in) /\ t = Step(s, in, lost)
  OBVIOUS
<1>2. /\ r.fsm = s.fsm /\ r.before = {}
      /\ r.after = IF s.fsm.hold_time > 0 THEN {"StartKeepalive"} ELSE {}
  BY SMTT(30), Z3T(30), <1>1, OutputsFields DEF SendKeepalive
<1>3. CASE SendFails(s, r, lost)
  BY <1>0, <1>1, <1>2, <1>3, LostConnectionStep DEF Ready
<1>4. CASE ~SendFails(s, r, lost)
  <2>1. PICK x : x = r.before \cup r.after
    BY ZenonT(60)
  <2>2. /\ "StartKeepalive" \in x <=> s.fsm.hold_time > 0
        /\ x \subseteq {"StartKeepalive"}
    BY SMTT(30), ZenonT(30), <1>0, <1>2, <2>1
  <2>3. /\ t \in SessionType /\ t.fsm = s.fsm /\ (t.hold <=> s.hold)
        /\ t.keepalive <=> s.fsm.hold_time > 0 \/ s.keepalive
        /\ (t.retry <=> s.retry)
        /\ t.transport = s.transport /\ (t.connecting <=> s.connecting)
        /\ t.candidate = s.candidate /\ t.deadline = s.deadline
    BY SMTT(30), ZenonT(40), Z3T(30), <1>0, <1>1, <1>2, <1>4, <2>1, <2>2, StepFields DEF SessionType
  <2>4. Good(t)
    BY SMTT(30), ZenonT(30), <1>0, <2>3 DEF Ready, Good, SupervisedIn, HandshakeIn, ConnectionsIn, SessionType
  <2>q. QED BY <1>1, <2>3, <2>4 DEF Stepped
<1>q. QED BY <1>3, <1>4

\* The same in OpenConfirm, whether or not a hold time was negotiated.
LEMMA OpenConfirmStep ==
  ASSUME NEW s \in SessionType, NEW in \in FsmInput, NEW lost,
         Ready(s, in.kind), s.fsm.state = "OpenConfirm", in.kind # "CollisionDetected"
  PROVE  Stepped(s, Step(s, in, lost))
<1>0. /\ s.fsm \in FsmType /\ s.fsm.hold_time \in Nat
      /\ Process(s.fsm, in) = OnOpenConfirm(s.fsm, in)
  BY Zenon, ProcessOpenConfirm, HoldTimes DEF SessionType, FsmType
<1>1. CASE in.kind = "Keepalive"
  <2>1. PICK t, g, x : /\ t = Step(s, in, lost) /\ g = To(s.fsm, "Established")
                       /\ x = {"SessionEstablished"} \cup
                              IF s.fsm.hold_time > 0 THEN {"StartHold", "StartKeepalive"} ELSE {}
    BY Zenon
  <2>2. Process(s.fsm, in) = Quiet(g, x)
    BY <1>0, <1>1, <2>1 DEF OnOpenConfirm, Ready
  <2>3. /\ g \in FsmType /\ g.state = "Established"
        /\ g.peer_open = s.fsm.peer_open /\ g.hold_time = s.fsm.hold_time
    BY <1>0, <2>1, ToFields DEF State
  <2>4. /\ "StartHold" \in x <=> s.fsm.hold_time > 0
        /\ "StartKeepalive" \in x <=> s.fsm.hold_time > 0
        /\ x \subseteq {"SessionEstablished", "StartHold", "StartKeepalive"}
    BY <1>0, <2>1
  <2>5. /\ t \in SessionType /\ t.fsm = g
        /\ t.hold <=> s.fsm.hold_time > 0 \/ s.hold
        /\ t.keepalive <=> s.fsm.hold_time > 0 \/ s.keepalive
        /\ (t.retry <=> s.retry)
        /\ t.transport = s.transport /\ (t.connecting <=> s.connecting)
        /\ t.candidate = s.candidate /\ t.deadline = s.deadline
    BY SMTT(30), Z3T(30), <2>1, <2>2, <2>3, <2>4, QuietFields DEF SessionType
  <2>6. Good(t)
    BY SMTT(30), Z3T(30), <1>0, <1>1, <2>3, <2>5
    DEF Ready, Message, Good, SupervisedIn, HandshakeIn, ConnectionsIn, SessionType
  <2>q. QED BY <2>1, <2>5, <2>6 DEF Stepped
<1>2. CASE in.kind = "KeepaliveTimerExpired"
  <2>1. Process(s.fsm, in) = SendKeepalive(s.fsm)
    BY SMTT(30), ZenonT(30), <1>0, <1>2 DEF OnOpenConfirm
  <2>q. QED BY <1>2, <2>1, KeepaliveTimerStep
<1>3. CASE in.kind \in {"Notification", "TcpFailed", "HoldTimerExpired", "ManualStop",
                        "Open", "Update", "RouteRefresh"}
  <2>1. PICK r, g, h : /\ r = Process(s.fsm, in)
                       /\ g = To(s.fsm, "Idle") /\ h = Forget(s.fsm, "Idle")
    OBVIOUS
  <2>2. g \in FsmType /\ g.state = "Idle" /\ h \in FsmType /\ h.state = "Idle"
    BY SMTT(30), ZenonT(30), <1>0, <2>1, ToFields, ForgetFields DEF State
  <2>3. ASSUME in.kind \in {"Notification", "TcpFailed"} PROVE Closing(r)
    <3>1. r = Outputs(h, StopTimers \cup {"CloseTcpConnection", "SessionTerminated", "StartRetry"},
                      "Nothing", {})
      BY <1>0, <2>1, <2>3 DEF OnOpenConfirm, Quiet
    <3>q. QED BY <2>2, <3>1, ClosingOutputs DEF StopTimers
  <2>4. ASSUME in.kind = "HoldTimerExpired" PROVE Closing(r)
    <3>1. r = Outputs(g, {}, "Notification",
                      {"StopKeepalive", "CloseTcpConnection", "StartRetry"})
      BY <1>0, <2>1, <2>4 DEF OnOpenConfirm
    <3>q. QED BY <2>2, <3>1, ClosingOutputs
  <2>5. ASSUME in.kind = "ManualStop" PROVE Closing(r)
    <3>1. r = Outputs(g, StopTimers, "Notification", {"CloseTcpConnection"})
      BY <1>0, <2>1, <2>5 DEF OnOpenConfirm
    <3>q. QED BY <2>2, <3>1, ClosingOutputs DEF StopTimers
  <2>6. ASSUME in.kind \in {"Open", "Update", "RouteRefresh"} PROVE Closing(r)
    <3>1. r = Outputs(g, {}, "Notification", StopTimers \cup {"CloseTcpConnection"})
      BY <1>0, <2>1, <2>6 DEF OnOpenConfirm
    <3>q. QED BY <2>2, <3>1, ClosingOutputs DEF StopTimers
  <2>7. Closing(r)
    BY SMTT(30), ZenonT(30), <1>3, <2>3, <2>4, <2>5, <2>6
  <2>q. QED BY <2>1, <2>7, ClosingStep DEF Ready
<1>4. CASE in.kind \notin Message \cup {"KeepaliveTimerExpired", "TcpFailed",
                                        "HoldTimerExpired", "ManualStop"}
  <2>1. Process(s.fsm, in) = Ignore(s.fsm)
    BY SMTT(30), ZenonT(30), <1>0, <1>4 DEF OnOpenConfirm, Message
  <2>2. Good(s)
    BY <1>4 DEF Ready, Good, SupervisedIn, HandshakeIn, ConnectionsIn
  <2>q. QED BY <2>1, <2>2, IgnoredStep
<1>q. QED BY <1>1, <1>2, <1>3, <1>4 DEF Message

\* The same in Established.
LEMMA EstablishedStep ==
  ASSUME NEW s \in SessionType, NEW in \in FsmInput, NEW lost,
         Ready(s, in.kind), s.fsm.state = "Established", in.kind # "CollisionDetected"
  PROVE  Stepped(s, Step(s, in, lost))
<1>0. /\ s.fsm \in FsmType /\ s.fsm.hold_time \in Nat
      /\ Process(s.fsm, in) = OnEstablished(s.fsm, in)
  BY ZenonT(60), ProcessEstablished, HoldTimes DEF SessionType, FsmType
<1>1. CASE in.kind \in {"Keepalive", "Update"}
  <2>1. PICK t : t = Step(s, in, lost)
    OBVIOUS
  <2>2. PICK x : /\ Process(s.fsm, in) = Quiet(s.fsm, x)
                 /\ x \subseteq {"StartHold", "RouteUpdate"}
                 /\ "StartHold" \in x <=> s.fsm.hold_time > 0
    <3>1. CASE in.kind = "Keepalive"
      BY <1>0, <3>1 DEF OnEstablished, ResetHoldIfActive
    <3>2. CASE in.kind = "Update"
      <4>1. Process(s.fsm, in) = Quiet(s.fsm, ResetHoldIfActive(s.fsm) \cup {"RouteUpdate"})
        BY <1>0, <3>2 DEF OnEstablished
      <4>q. QED BY <1>0, <4>1 DEF ResetHoldIfActive
    <3>q. QED BY <1>1, <3>1, <3>2
  <2>3. /\ t \in SessionType /\ t.fsm = s.fsm
        /\ t.hold <=> s.fsm.hold_time > 0 \/ s.hold
        /\ (t.keepalive <=> s.keepalive) /\ (t.retry <=> s.retry)
        /\ t.transport = s.transport /\ (t.connecting <=> s.connecting)
        /\ t.candidate = s.candidate /\ t.deadline = s.deadline
    BY SMTT(30), ZenonT(40), Z3T(30), <1>0, <2>1, <2>2, QuietFields DEF SessionType
  <2>4. Good(t)
    BY SMTT(30), ZenonT(30), <1>0, <1>1, <2>3
    DEF Ready, Good, SupervisedIn, HandshakeIn, ConnectionsIn, SessionType
  <2>q. QED BY <2>1, <2>3, <2>4 DEF Stepped
<1>2. CASE in.kind = "KeepaliveTimerExpired"
  <2>1. Process(s.fsm, in) = SendKeepalive(s.fsm)
    BY SMTT(30), ZenonT(30), <1>0, <1>2 DEF OnEstablished
  <2>q. QED BY <1>2, <2>1, KeepaliveTimerStep
<1>3. CASE \/ in.kind \in {"Notification", "TcpFailed", "HoldTimerExpired", "ManualStop",
                           "NotificationToSend", "Open", "ProtocolErrorNotificationToSend"}
           \/ in.kind = "RouteRefresh" /\ ~RouteRefreshNegotiated(s.fsm)
  <2>1. PICK r, g, h : /\ r = Process(s.fsm, in)
                       /\ g = To(s.fsm, "Idle") /\ h = Forget(s.fsm, "Idle")
    OBVIOUS
  <2>2. g \in FsmType /\ g.state = "Idle" /\ h \in FsmType /\ h.state = "Idle"
    BY SMTT(30), ZenonT(30), <1>0, <2>1, ToFields, ForgetFields DEF State
  <2>3. ASSUME in.kind \in {"Notification", "TcpFailed"} PROVE Closing(r)
    <3>1. r = Outputs(h, StopTimers \cup {"CloseTcpConnection", "SessionTerminated", "StartRetry"},
                      "Nothing", {})
      BY <1>0, <2>1, <2>3 DEF OnEstablished, Quiet
    <3>q. QED BY <2>2, <3>1, ClosingOutputs DEF StopTimers
  <2>4. ASSUME in.kind = "HoldTimerExpired" PROVE Closing(r)
    <3>1. r = Outputs(g, {}, "Notification",
                      {"StopKeepalive", "CloseTcpConnection", "SessionTerminated", "StartRetry"})
      BY <1>0, <2>1, <2>4 DEF OnEstablished
    <3>q. QED BY <2>2, <3>1, ClosingOutputs
  <2>5. ASSUME in.kind \in {"ManualStop", "NotificationToSend"} PROVE Closing(r)
    <3>1. r = Outputs(g, StopTimers, "Notification",
                      {"CloseTcpConnection", "SessionTerminated"})
      BY <1>0, <2>1, <2>5 DEF OnEstablished
    <3>q. QED BY <2>2, <3>1, ClosingOutputs DEF StopTimers
  <2>6. ASSUME in.kind = "Open" \/ (in.kind = "RouteRefresh" /\ ~RouteRefreshNegotiated(s.fsm))
        PROVE  Closing(r)
    <3>1. r = Outputs(g, {}, "Notification",
                      StopTimers \cup {"CloseTcpConnection", "SessionTerminated"})
      BY <1>0, <2>1, <2>6 DEF OnEstablished
    <3>q. QED BY <2>2, <3>1, ClosingOutputs DEF StopTimers
  <2>7. ASSUME in.kind = "ProtocolErrorNotificationToSend" PROVE Closing(r)
    <3>1. r = Outputs(g, StopTimers, "Notification",
                      {"CloseTcpConnection", "SessionTerminated", "StartRetry"})
      BY <1>0, <2>1, <2>7 DEF OnEstablished
    <3>q. QED BY <2>2, <3>1, ClosingOutputs DEF StopTimers
  <2>8. Closing(r)
    BY SMTT(30), ZenonT(30), <1>3, <2>3, <2>4, <2>5, <2>6, <2>7
  <2>q. QED BY <2>1, <2>8, ClosingStep DEF Ready
<1>4. CASE \/ in.kind \in {"ManualStart", "ConnectRetryTimerExpired", "TcpConnected"}
           \/ in.kind = "RouteRefresh" /\ RouteRefreshNegotiated(s.fsm)
  <2>1. Process(s.fsm, in) = Ignore(s.fsm)
    BY SMTT(30), ZenonT(30), <1>0, <1>4 DEF OnEstablished
  <2>2. Good(s)
    BY <1>4 DEF Ready, Good, SupervisedIn, HandshakeIn, ConnectionsIn
  <2>q. QED BY <2>1, <2>2, IgnoredStep
<1>5. in.kind \in InputKind
  BY SMTT(30), ZenonT(30) DEF FsmInput, InputKind, Message
<1>q. QED BY <1>1, <1>2, <1>3, <1>4, <1>5 DEF InputKind, Message

\* Whatever the state, an input the session is ready for keeps it good.
LEMMA StepGood ==
  ASSUME NEW s \in SessionType, NEW in \in FsmInput, NEW lost,
         Ready(s, in.kind), in.kind # "CollisionDetected"
  PROVE  Stepped(s, Step(s, in, lost))
<1>1. s.fsm.state \in State
  BY DEF SessionType, FsmType
<1>q. QED BY <1>1, IdleStep, ConnectStep, ActiveStep, OpenSentStep, OpenConfirmStep,
             EstablishedStep DEF State

-----------------------------------------------------------------------------
(* Where one input may take the FSM.                                       *)

\* The FSM record g that one input, and a TcpFailed after a failed write,
\* make of f: the handshake is gone through in order, with one OPEN.
Follows(f, g) ==
  \/ g.state \in {"Idle", "Connect", "Active"}
  \/ g.state = f.state /\ g.peer_open = f.peer_open
  \/ f.state \in {"Idle", "Connect", "Active"} /\ g.state = "OpenSent"
  \/ f.state = "OpenSent" /\ g.state = "OpenConfirm" /\ g.peer_open \in Opens
  \/ f.state = "OpenConfirm" /\ g.state = "Established" /\ g.peer_open = f.peer_open

\* on_idle, on_connect and on_active.
LEMMA DownFollows ==
  ASSUME NEW f \in FsmType, NEW in \in FsmInput, NEW r, r = Process(f, in),
         f.state \in {"Idle", "Connect", "Active"}
  PROVE  r.fsm \in FsmType /\ Follows(f, r.fsm)
<1>1. r.fsm \in {f, To(f, "Idle"), To(f, "Connect"), To(f, "Active"), To(f, "OpenSent")}
  <2>1. CASE f.state = "Idle"
    <3>1. r = OnIdle(f, in)
      BY <2>1, ProcessIdle
    <3>q. QED BY <3>1, OutputsFields DEF OnIdle, Quiet, Ignore
  <2>2. CASE f.state = "Connect"
    <3>1. r = OnConnect(f, in)
      BY <2>2, ProcessConnect
    <3>q. QED BY <3>1, OutputsFields DEF OnConnect, Quiet, Ignore, DoTcpConnected, DoStopPreOpen
  <2>3. CASE f.state = "Active"
    <3>1. r = OnActive(f, in)
      BY <2>3, ProcessActive
    <3>q. QED BY <3>1, OutputsFields DEF OnActive, Quiet, Ignore, DoTcpConnected, DoStopPreOpen
  <2>q. QED BY <2>1, <2>2, <2>3
<1>q. QED BY <1>1, ToFields DEF Follows, State

\* on_open_sent.
LEMMA OpenSentFollows ==
  ASSUME NEW f \in FsmType, NEW in \in FsmInput, NEW r, r = Process(f, in),
         f.state = "OpenSent"
  PROVE  r.fsm \in FsmType /\ Follows(f, r.fsm)
<1>0. r = OnOpenSent(f, in)
  BY ProcessOpenSent
<1>1. CASE in.kind = "Open" /\ OpenValid(in.open)
  <2>1. in.open \in Opens
    BY <1>1 DEF FsmInput
  <2>2. r.fsm = Accept(f, in.open)
    BY <1>0, <1>1, OpenAnswer, OutputsFields
  <2>q. QED BY <2>1, <2>2, AcceptFields DEF Follows
<1>2. CASE ~(in.kind = "Open" /\ OpenValid(in.open))
  <2>1. PICK g : g = [f EXCEPT !.state = "Active", !.peer_open = None]
    OBVIOUS
  <2>2. g \in FsmType /\ g.state = "Active"
    BY <2>1, Zenon DEF FsmType, State
  <2>3. r.fsm \in {f, To(f, "Idle"), To(f, "Active"), g}
    BY <1>0, <1>2, <2>1, OutputsFields DEF OnOpenSent, Quiet, Ignore
  <2>q. QED BY <2>2, <2>3, ToFields DEF Follows, State
<1>q. QED BY <1>1, <1>2

\* on_open_confirm.
LEMMA OpenConfirmFollows ==
  ASSUME NEW f \in FsmType, NEW in \in FsmInput, NEW r, r = Process(f, in),
         f.state = "OpenConfirm"
  PROVE  r.fsm \in FsmType /\ Follows(f, r.fsm)
<1>1. r = OnOpenConfirm(f, in)
  BY ProcessOpenConfirm
<1>2. r.fsm \in {f, To(f, "Idle"), To(f, "Established"), Forget(f, "Idle"), Forget(f, "Active")}
  BY <1>1, OutputsFields DEF OnOpenConfirm, Quiet, Ignore, SendKeepalive
<1>q. QED BY <1>2, ToFields, ForgetFields DEF Follows, State

\* on_established.
LEMMA EstablishedFollows ==
  ASSUME NEW f \in FsmType, NEW in \in FsmInput, NEW r, r = Process(f, in),
         f.state = "Established"
  PROVE  r.fsm \in FsmType /\ Follows(f, r.fsm)
<1>1. r = OnEstablished(f, in)
  BY ProcessEstablished
<1>2. r.fsm \in {f, To(f, "Idle"), Forget(f, "Idle"), Forget(f, "Connect")}
  BY <1>1, OutputsFields DEF OnEstablished, Quiet, Ignore, SendKeepalive
<1>q. QED BY <1>2, ToFields, ForgetFields DEF Follows, State

\* process(), whatever the state.
LEMMA ProcessFollows ==
  ASSUME NEW f \in FsmType, NEW in \in FsmInput, NEW r, r = Process(f, in)
  PROVE  r.fsm \in FsmType /\ Follows(f, r.fsm)
<1>1. f.state \in State
  BY DEF FsmType
<1>q. QED BY <1>1, DownFollows, OpenSentFollows, OpenConfirmFollows, EstablishedFollows DEF State

\* TcpFailed leaves no handshake and no session behind.
LEMMA TcpFailedEnds ==
  ASSUME NEW f \in FsmType, NEW r, r = Process(f, Input("TcpFailed"))
  PROVE  r.fsm \in FsmType /\ r.fsm.state \in {"Idle", "Active"}
<1>1. PICK in : in = Input("TcpFailed")
  OBVIOUS
<1>2. in.kind = "TcpFailed" /\ f.state \in State
  BY <1>1 DEF Input, FsmType
<1>3. r.fsm \in {To(f, "Active"), Forget(f, "Idle")} \/ (r.fsm = f /\ f.state \in {"Idle", "Active"})
  <2>1. CASE f.state = "Idle"
    BY <1>1, <1>2, <2>1, ProcessIdle, OutputsFields DEF OnIdle, Ignore, Quiet
  <2>2. CASE f.state = "Connect"
    BY <1>1, <1>2, <2>2, ProcessConnect, OutputsFields DEF OnConnect, Quiet
  <2>3. CASE f.state = "Active"
    BY <1>1, <1>2, <2>3, ProcessActive, OutputsFields DEF OnActive, Ignore, Quiet
  <2>4. CASE f.state = "OpenSent"
    <3>1. r = OnOpenSent(f, in)
      BY <1>1, <2>4, ProcessOpenSent
    <3>2. r = Quiet(To(f, "Active"), {"StopHold", "StartRetry"})
      BY Zenon, <1>2, <3>1 DEF OnOpenSent
    <3>q. QED BY <3>2, OutputsFields DEF Quiet
  <2>5. CASE f.state = "OpenConfirm"
    <3>1. r = OnOpenConfirm(f, in)
      BY <1>1, <2>5, ProcessOpenConfirm
    <3>2. r = Quiet(Forget(f, "Idle"),
                  StopTimers \cup {"CloseTcpConnection", "SessionTerminated", "StartRetry"})
      BY Zenon, <1>2, <3>1 DEF OnOpenConfirm
    <3>q. QED BY <3>2, OutputsFields DEF Quiet
  <2>6. CASE f.state = "Established"
    <3>1. r = OnEstablished(f, in)
      BY <1>1, <2>6, ProcessEstablished
    <3>2. r = Quiet(Forget(f, "Idle"),
                  StopTimers \cup {"CloseTcpConnection", "SessionTerminated", "StartRetry"})
      BY Zenon, <1>2, <3>1 DEF OnEstablished
    <3>q. QED BY <3>2, OutputsFields DEF Quiet
  <2>q. QED BY <1>2, <2>1, <2>2, <2>3, <2>4, <2>5, <2>6 DEF State
<1>q. QED BY <1>3, ToFields, ForgetFields DEF State

\* One input of the FSM, its outputs executed.
LEMMA StepFollows ==
  ASSUME NEW s \in SessionType, NEW in \in FsmInput, NEW lost,
         NEW t, t = Step(s, in, lost)
  PROVE  Follows(s.fsm, t.fsm)
<1>1. PICK r : r = Process(s.fsm, in)
  OBVIOUS
<1>2. s.fsm \in FsmType /\ r.fsm \in FsmType /\ Follows(s.fsm, r.fsm)
  BY <1>1, ProcessFollows DEF SessionType
<1>3. CASE SendFails(s, r, lost)
  <2>1. PICK d, q : d = Execute(s, r, lost) /\ q = Process(d.fsm, Input("TcpFailed"))
    OBVIOUS
  <2>2. d \in SessionType /\ d.fsm = r.fsm
    BY <1>2, <2>1, ExecuteFields
  <2>3. q.fsm \in FsmType /\ q.fsm.state \in {"Idle", "Active"}
    BY <1>2, <2>1, <2>2, TcpFailedEnds
  <2>4. t = Execute(d, q, {})
    BY <1>1, <1>3, <2>1, StepFailed
  <2>5. t.fsm = q.fsm
    BY <2>2, <2>3, <2>4, ExecuteFields
  <2>q. QED BY <2>3, <2>5 DEF Follows
<1>4. CASE ~SendFails(s, r, lost)
  <2>1. t = Execute(s, r, lost)
    BY <1>1, <1>4, StepDone
  <2>2. t.fsm = r.fsm
    BY <1>2, <2>1, ExecuteFields
  <2>q. QED BY <1>2, <2>2
<1>q. QED BY <1>3, <1>4

-----------------------------------------------------------------------------
(* The staged candidate.                                                   *)

\* A candidate that is about to be resolved.
Pending(s) ==
  LET c == s.candidate
  IN /\ s.deadline <=> c # None /\ c.open = None
     /\ c # None /\ c.open # None =>
          /\ OpenValid(c.open)
          /\ c.purpose = "Collision" /\ s.fsm.state = "OpenSent" /\ s.transport # None =>
               /\ s.transport.origin = "Outbound" /\ c.conn.origin = "Inbound"
               /\ s.transport.local = c.conn.local

\* A candidate while the FSM gets an input; the connection it waits for may
\* have been lost.
Waiting(s) ==
  /\ Pending(s)
  /\ s.candidate # None /\ s.candidate.open # None =>
       s.fsm.state = "OpenSent" /\ s.candidate.purpose = "Collision"

\* An Idle session ignores an adopted connection.
LEMMA AdoptedInIdle ==
  ASSUME NEW w \in SessionType, w.fsm.state = "Idle", NEW open, NEW l1, NEW l2,
         NEW t, t = Apply(Apply(w, Input("TcpConnected"), l1), OpenReceived(open), l2)
  PROVE  /\ t \in SessionType /\ t.fsm = w.fsm /\ t.transport = w.transport
         /\ t.connecting <=> w.connecting
         /\ t.candidate = w.candidate /\ t.deadline = w.deadline
<1>1. PICK o : o = Apply(w, Input("TcpConnected"), l1)
  OBVIOUS
<1>2. Process(w.fsm, Input("TcpConnected")) = Ignore(w.fsm)
  BY SMTT(30), ZenonT(30), ProcessIdle DEF OnIdle, Input
<1>3. /\ o \in SessionType /\ o.fsm = w.fsm /\ o.transport = w.transport
      /\ (o.connecting <=> w.connecting)
      /\ o.candidate = w.candidate /\ o.deadline = w.deadline
  BY SMTT(30), Z3T(30), <1>1, <1>2, IgnoreFields DEF Apply, SessionType
<1>4. Process(o.fsm, OpenReceived(open)) = Ignore(o.fsm)
  BY <1>3, ProcessIdle DEF OnIdle, OpenReceived
<1>5. t = Execute(o, Ignore(o.fsm), l2)
  BY <1>1, <1>4 DEF Apply
<1>6. /\ t \in SessionType /\ t.fsm = o.fsm /\ t.transport = o.transport
      /\ (t.connecting <=> o.connecting)
      /\ t.candidate = o.candidate /\ t.deadline = o.deadline
  BY SMTT(30), Z3T(30), <1>3, <1>5, IgnoreFields DEF SessionType
<1>q. QED BY <1>3, <1>6 DEF SessionType

\* An adopted connection in Connect or Active: our OPEN goes out.
LEMMA AdoptedConnection ==
  ASSUME NEW w \in SessionType, w.fsm.state \in {"Connect", "Active"}, NEW lost,
         NEW o, o = Apply(w, Input("TcpConnected"), lost), w.transport # None
  PROVE  /\ o \in SessionType /\ o.fsm.state = "OpenSent" /\ ~o.retry
         /\ o.transport # None => o.hold /\ o.transport = w.transport
         /\ o.transport = None => ~o.connecting
         /\ o.candidate = w.candidate /\ o.deadline = w.deadline
<1>1. PICK r : r = Process(w.fsm, Input("TcpConnected"))
  OBVIOUS
<1>2. r = DoTcpConnected(w.fsm)
  BY <1>1, ProcessConnect, ProcessActive DEF OnConnect, OnActive, Input
<1>3. /\ r.before = {"StopRetry"} /\ r.after = {"StartHold"}
      /\ r.fsm = To(w.fsm, "OpenSent")
  BY <1>2, OutputsFields DEF DoTcpConnected
<1>4. r.fsm \in FsmType /\ r.fsm.state = "OpenSent"
  BY <1>3, ToFields DEF SessionType, State
<1>5. PICK x : x = Executed(w, r, lost)
  OBVIOUS
<1>6. o = Execute(w, r, lost)
  BY <1>1 DEF Apply
<1>7. CASE SendFails(w, r, lost)
  <2>1. x = {"StopRetry"}
    BY SMTT(30), ZenonT(30), <1>3, <1>5, <1>7 DEF Executed
  <2>2. /\ o \in SessionType /\ o.fsm = r.fsm /\ ~o.retry
        /\ o.transport = None /\ ~o.connecting
        /\ o.candidate = w.candidate /\ o.deadline = w.deadline
    BY ZenonT(120), <1>4, <1>5, <1>6, <1>7, <2>1, ExecuteFields DEF SessionType
  <2>q. QED BY <1>4, <2>2
<1>8. CASE ~SendFails(w, r, lost)
  <2>1. x = {"StopRetry", "StartHold"}
    BY <1>3, <1>5, <1>8 DEF Executed
  <2>2. /\ o \in SessionType /\ o.fsm = r.fsm /\ ~o.retry /\ o.hold
        /\ o.transport = w.transport
        /\ o.candidate = w.candidate /\ o.deadline = w.deadline
    <3>1. /\ "StartHold" \in x /\ "StopRetry" \in x /\ "StartRetry" \notin x
          /\ "CloseTcpConnection" \notin x
      BY <2>1
    <3>q. QED BY <1>4, <1>5, <1>6, <1>8, <3>1, ExecuteFields DEF SessionType
  <2>q. QED BY <1>4, <2>2
<1>q. QED BY <1>7, <1>8

\* The session record o after the candidate's OPEN was accepted: t.
Accepted(o, t, open) ==
  /\ t \in SessionType /\ t.fsm.state = "OpenConfirm" /\ ~t.retry
  /\ t.fsm.peer_open = open /\ t.fsm.hold_time = Negotiated(open)
  /\ t.fsm.hold_time > 0 => t.hold
  /\ t.fsm.hold_time = 0 /\ t.transport # None => ~t.hold /\ ~t.keepalive
  /\ t.transport = None => o.transport = None \/ ~t.connecting
  /\ t.transport # None => t.transport = o.transport
  /\ t.connecting => o.connecting
  /\ t.candidate = o.candidate /\ t.deadline = o.deadline

\* The candidate's OPEN, read before, is then accepted.
LEMMA AdoptedOpen ==
  ASSUME NEW o \in SessionType, o.fsm.state = "OpenSent", ~o.retry,
         o.transport # None => o.hold,
         NEW open \in Opens, OpenValid(open), NEW lost,
         NEW t, t = Apply(o, OpenReceived(open), lost)
  PROVE  Accepted(o, t, open)
<1>1. PICK in, r, n : /\ in = OpenReceived(open) /\ r = Process(o.fsm, in)
                      /\ n = Negotiated(open)
  OBVIOUS
<1>2. in.kind = "Open" /\ in.open = open
  BY SMTT(30), ZenonT(30), <1>1 DEF OpenReceived
<1>3. /\ r.fsm = Accept(o.fsm, open) /\ r.before = {} /\ r.msg = "Keepalive"
      /\ r.after = TimerActions(n)
  BY <1>1, <1>2, ProcessOpenSent, OpenAnswer, OutputsFields, SMTT(40)
<1>4. /\ r.fsm \in FsmType /\ r.fsm.state = "OpenConfirm" /\ r.fsm.peer_open = open
      /\ r.fsm.hold_time = n /\ n \in Nat
  <2>1. o.fsm \in FsmType
    BY DEF SessionType
  <2>2. PICK g : g = Accept(o.fsm, open)
    OBVIOUS
  <2>3. /\ g \in FsmType /\ g.state = "OpenConfirm" /\ g.peer_open = open
        /\ g.hold_time = Negotiated(open)
    BY <2>1, <2>2, AcceptFields
  <2>4. n \in Nat
    BY Zenon, <1>1, NegotiatedType, HoldTimes
  <2>q. QED BY <1>1, <1>3, <2>2, <2>3, <2>4
<1>5. t = Execute(o, r, lost)
  BY <1>1 DEF Apply
<1>6. PICK x : x = Executed(o, r, lost)
  BY SMTT(30), ZenonT(30)
<1>7. CASE SendFails(o, r, lost)
  <2>1. x = {} /\ o.transport # None
    BY <1>3, <1>6, <1>7 DEF Executed, SendFails
  <2>2. o.hold
    BY SMTT(30), ZenonT(30), <2>1
  <2>3. /\ t \in SessionType /\ t.fsm = r.fsm /\ ~t.retry
        /\ t.hold <=> o.hold
        /\ t.transport = None /\ ~t.connecting
        /\ t.candidate = o.candidate /\ t.deadline = o.deadline
    <3>1. /\ "StartHold" \notin x /\ "StopHold" \notin x /\ "StartRetry" \notin x
          /\ "InitiateTcpConnect" \notin x
      BY SMTT(30), ZenonT(30), <2>1
    <3>q. QED BY <1>4, <1>5, <1>6, <1>7, <3>1, ExecuteFields DEF SessionType
  <2>q. QED BY SMTT(30), ZenonT(30), <1>1, <1>4, <2>2, <2>3 DEF Accepted
<1>8. CASE ~SendFails(o, r, lost)
  <2>1. x = TimerActions(n)
    BY <1>3, <1>6, <1>8 DEF Executed
  <2>2. /\ n > 0 => "StartHold" \in x
        /\ n = 0 => /\ "StartHold" \notin x /\ "StartKeepalive" \notin x
                    /\ "StopHold" \in x /\ "StopKeepalive" \in x
        /\ "StartRetry" \notin x /\ "CloseTcpConnection" \notin x
        /\ "InitiateTcpConnect" \notin x
    BY <1>4, <2>1 DEF TimerActions
  <2>3. t.fsm = r.fsm /\ Unbroken(o, t, x)
    BY <1>4, <1>5, <1>6, <1>8, <2>2, ExecuteKeeps, ZenonT(40)
  <2>q. QED BY <1>1, <1>4, <2>2, <2>3, ZenonT(40) DEF Accepted, Unbroken
<1>q. QED BY <1>7, <1>8

\* CollisionDetected takes the existing connection of a session under way
\* out of the candidate's way.
LEMMA CollisionClears ==
  ASSUME NEW s \in SessionType, s.fsm.state \in {"OpenConfirm", "Established"}, ~s.retry,
         NEW d, d = Apply(s, Input("CollisionDetected"), {})
  PROVE  /\ d \in SessionType /\ d.fsm.state \in {"Connect", "Active"}
         /\ ~d.connecting
         /\ d.candidate = s.candidate /\ d.deadline = s.deadline
<1>1. PICK in, r : in = Input("CollisionDetected") /\ r = Process(s.fsm, in)
  OBVIOUS
<1>2. in.kind = "CollisionDetected" /\ s.fsm \in FsmType
  BY <1>1 DEF Input, SessionType
<1>3. d = Execute(s, r, {})
  BY <1>1 DEF Apply
<1>4. PICK x : x = Executed(s, r, {})
  OBVIOUS
<1>5. ~SendFails(s, r, {}) /\ x = r.before \cup r.after
  BY SMTT(30), ZenonT(30), <1>4 DEF SendFails, Executed
<1>6. CASE s.fsm.state = "OpenConfirm"
  <2>1. r = Outputs(Forget(s.fsm, "Active"), StopTimers, "Notification", {"CloseTcpConnection"})
    BY Zenon, <1>1, <1>2, <1>6, ProcessOpenConfirm DEF OnOpenConfirm
  <2>2. r.fsm \in FsmType /\ r.fsm.state = "Active"
    BY SMTT(30), Z3T(30), <1>2, <2>1, OutputsFields, ForgetFields DEF State
  <2>3. "CloseTcpConnection" \in x /\ "InitiateTcpConnect" \notin x
    BY SMTT(30), ZenonT(40), Z3T(30), <1>5, <2>1, OutputsFields DEF StopTimers
  <2>q. QED BY <1>3, <1>4, <1>5, <2>2, <2>3, ExecuteFields DEF SessionType
<1>7. CASE s.fsm.state = "Established"
  <2>1. r = Outputs(Forget(s.fsm, "Connect"),
                    StopTimers \cup {"CloseTcpConnection", "SessionTerminated", "StartRetry"},
                    "Nothing", {})
    BY Zenon, <1>1, <1>2, <1>7, ProcessEstablished DEF OnEstablished, Quiet
  <2>2. r.fsm \in FsmType /\ r.fsm.state = "Connect"
    BY SMTT(30), ZenonT(40), Z3T(30), <1>2, <2>1, OutputsFields, ForgetFields DEF State
  <2>3. "CloseTcpConnection" \in x /\ "InitiateTcpConnect" \notin x
    BY SMTT(30), ZenonT(40), Z3T(30), <1>5, <2>1, OutputsFields DEF StopTimers
  <2>q. QED BY <1>3, <1>4, <1>5, <2>2, <2>3, ExecuteFields DEF SessionType
<1>q. QED BY <1>6, <1>7

\* An adopted candidate leaves a session in OpenConfirm on the candidate's
\* connection, or in Idle.
LEMMA AdoptGood ==
  ASSUME NEW s \in SessionType, Good(s), s.fsm.state # "OpenSent",
         s.candidate # None, s.candidate.open # None, OpenValid(s.candidate.open),
         NEW failed
  PROVE  /\ Adopt(s, failed) \in SessionType
         /\ Good(Adopt(s, failed))
         /\ Adopt(s, failed).candidate = None
         /\ Adopt(s, failed).deadline = s.deadline
         /\ \/ Adopt(s, failed).fsm.state = "Idle"
            \/ /\ Adopt(s, failed).fsm.state = "OpenConfirm"
               /\ Adopt(s, failed).fsm.peer_open = s.candidate.open
<1>0. PICK c : c = s.candidate
  BY SMTT(30), ZenonT(30)
<1>1. /\ c \in Candidate /\ c.conn \in Conn /\ c.conn # None /\ c.open \in Opens
      /\ c.conn.origin = "Inbound" /\ OpenValid(c.open) /\ c.open # None
  BY <1>0, NoneAssumption DEF Candidate, SessionType, Good, ConnectionsIn
<1>2. PICK taken : taken = [s EXCEPT !.candidate = None,
                              !.reason = IF s.fsm.state = "Established" THEN "Unclean" ELSE @]
  OBVIOUS
<1>3. /\ taken \in SessionType /\ taken.candidate = None
      /\ taken.fsm = s.fsm /\ taken.transport = s.transport
      /\ (taken.connecting <=> s.connecting) /\ (taken.retry <=> s.retry)
      /\ taken.deadline = s.deadline
  BY Zenon, <1>2 DEF SessionType, TerminationReason
<1>4. PICK cleared : cleared = IF s.fsm.state \in {"OpenConfirm", "Established"}
                               THEN Apply(taken, Input("CollisionDetected"), {})
                               ELSE taken
  BY SMTT(30), ZenonT(30)
<1>5. /\ cleared \in SessionType /\ cleared.candidate = None
      /\ cleared.fsm.state \in {"Idle", "Connect", "Active"}
      /\ cleared.connecting => cleared.fsm.state = "Connect"
      /\ cleared.deadline = s.deadline
  <2>1. CASE s.fsm.state \in {"OpenConfirm", "Established"}
    <3>1. ~taken.retry
      BY <1>3, <2>1 DEF Good, SupervisedIn
    <3>2. cleared = Apply(taken, Input("CollisionDetected"), {})
      BY SMTT(30), ZenonT(30), <1>4, <2>1
    <3>q. QED BY SMTT(30), ZenonT(30), <1>3, <2>1, <3>1, <3>2, CollisionClears DEF SessionType
  <2>2. CASE s.fsm.state \notin {"OpenConfirm", "Established"}
    <3>1. s.fsm.state \in {"Idle", "Connect", "Active"}
      BY <2>2 DEF SessionType, FsmType, State
    <3>q. QED BY SMTT(30), ZenonT(30), <1>3, <1>4, <2>2, <3>1 DEF Good, ConnectionsIn, SessionType
  <2>q. QED BY SMTT(30), ZenonT(30), <2>1, <2>2
<1>6. PICK w : w = [cleared EXCEPT !.transport = c.conn]
  BY ZenonT(60)
<1>7. /\ w \in SessionType /\ w.candidate = None /\ w.fsm = cleared.fsm
      /\ w.transport = c.conn /\ (w.connecting <=> cleared.connecting)
      /\ w.deadline = s.deadline
  BY <1>1, <1>5, <1>6 DEF SessionType
<1>8. PICK o, l1, l2, t : /\ o = Apply(w, Input("TcpConnected"), l1)
                          /\ t = Apply(o, OpenReceived(c.open), l2)
                          /\ t = Adopt(s, failed)
  <2>1. Adopt(s, failed) = Apply(Apply(w, Input("TcpConnected"), failed \cap {"open"}),
                                 OpenReceived(c.open), failed \cap {"keepalive"})
    BY SMTT(30), ZenonT(30), <1>0, <1>2, <1>4, <1>6 DEF Adopt
  <2>q. QED BY <2>1
<1>9. CASE w.fsm.state = "Idle"
  <2>1. /\ t \in SessionType /\ t.fsm = w.fsm /\ t.transport = w.transport
        /\ t.connecting <=> w.connecting
        /\ t.candidate = w.candidate /\ t.deadline = w.deadline
    BY SMTT(30), Z3T(30), <1>7, <1>8, <1>9, AdoptedInIdle
  <2>2. Good(t)
    BY ZenonT(40), <1>1, <1>5, <1>7, <1>9, <2>1
    DEF Good, SupervisedIn, HandshakeIn, ConnectionsIn, SessionType
  <2>q. QED BY SMTT(30), ZenonT(30), <1>7, <1>8, <1>9, <2>1, <2>2
<1>10. CASE w.fsm.state \in {"Connect", "Active"}
  <2>1. /\ o \in SessionType /\ o.fsm.state = "OpenSent" /\ ~o.retry
        /\ o.transport # None => o.hold /\ o.transport = c.conn
        /\ o.transport = None => ~o.connecting
        /\ o.candidate = None /\ o.deadline = s.deadline
    <3>1. w.transport # None
      BY SMTT(30), ZenonT(30), <1>1, <1>7
    <3>2. /\ o \in SessionType /\ o.fsm.state = "OpenSent" /\ ~o.retry
          /\ o.transport # None => o.hold /\ o.transport = w.transport
          /\ o.transport = None => ~o.connecting
          /\ o.candidate = w.candidate /\ o.deadline = w.deadline
      BY <1>7, <1>8, <1>10, <3>1, AdoptedConnection, ZenonT(120)
    <3>q. QED BY <1>7, <3>2, ZenonT(40)
  <2>2. Accepted(o, t, c.open)
    BY Zenon, <1>1, <1>8, <2>1, AdoptedOpen
  <2>3. /\ t.transport = None => ~t.connecting
        /\ t.transport # None => t.transport.origin = "Inbound"
    BY SMTT(30), ZenonT(30), <1>1, <2>1, <2>2 DEF Accepted
  <2>4. Good(t)
    BY <1>1, <2>1, <2>2, <2>3
    DEF Accepted, Good, SupervisedIn, HandshakeIn, ConnectionsIn, SessionType
  <2>q. QED BY SMTT(30), ZenonT(30), <1>0, <1>8, <2>1, <2>2, <2>4 DEF Accepted
<1>q. QED BY <1>5, <1>7, <1>9, <1>10

\* The session record t that the resolution makes of s: the candidate is
\* decided on or waits, and where it was adopted the session is Idle or talks
\* to the remote whose OPEN the candidate brought.
Resolved(s, t) ==
  /\ t \in SessionType /\ Good(t) /\ CandidateIn(t)
  /\ \/ t.fsm = s.fsm
     \/ /\ s.candidate # None /\ s.candidate.open # None /\ Verdict(s) = "adopt"
        /\ \/ t.fsm.state = "Idle"
           \/ t.fsm.state = "OpenConfirm" /\ t.fsm.peer_open = s.candidate.open

\* try_resolve_pending_candidate keeps the session good and decides every
\* candidate that does not have to wait, whichever of its writes fail.
LEMMA ResolveGood ==
  ASSUME NEW s \in SessionType, Good(s), Pending(s), NEW failed
  PROVE  Resolved(s, TryResolve(s, failed))
<1>1. CASE s.candidate = None
  <2>1. TryResolve(s, failed) = s
    BY <1>1 DEF TryResolve
  <2>2. CandidateIn(s)
    BY <1>1 DEF Pending, CandidateIn
  <2>q. QED BY <2>1, <2>2 DEF Resolved
<1>2. CASE s.candidate # None /\ s.candidate.open = None
  <2>1. TryResolve(s, failed) = s
    BY <1>2 DEF TryResolve
  <2>2. CandidateIn(s)
    BY <1>2 DEF Pending, CandidateIn
  <2>q. QED BY <2>1, <2>2 DEF Resolved
<1>3. CASE s.candidate # None /\ s.candidate.open # None
  <2>1. OpenValid(s.candidate.open) /\ ~s.deadline
    BY <1>3 DEF Pending, SessionType
  <2>2. CASE Verdict(s) = "wait"
    <3>1. TryResolve(s, failed) = s
      BY <1>3, <2>2 DEF TryResolve
    <3>2. s.fsm.state = "OpenSent" /\ s.candidate.purpose = "Collision"
      <4>1. s.fsm.state = "OpenConfirm" => s.fsm.peer_open # None
        BY DEF Good, HandshakeIn
      <4>2. s.candidate.purpose = "Collision" \/ s.candidate.purpose # "Collision"
        BY SMTT(30), ZenonT(30)
      <4>q. QED BY SMTT(30), ZenonT(30), <2>2, <4>1, <4>2 DEF Verdict
    <3>3. CandidateIn(s)
      BY <1>3, <2>1, <3>2 DEF Pending, CandidateIn, Good, HandshakeIn
    <3>q. QED BY <3>1, <3>3 DEF Resolved
  <2>3. CASE Verdict(s) = "drop"
    <3>1. PICK t : t = [s EXCEPT !.candidate = None]
      BY Zenon
    <3>2. TryResolve(s, failed) = t
      BY <1>3, <2>3, <3>1 DEF TryResolve
    <3>3. /\ t \in SessionType /\ t.candidate = None /\ t.fsm = s.fsm
          /\ (t.hold <=> s.hold) /\ (t.keepalive <=> s.keepalive) /\ (t.retry <=> s.retry)
          /\ t.transport = s.transport /\ (t.connecting <=> s.connecting)
          /\ (t.deadline <=> s.deadline)
      BY SMTT(30), ZenonT(30), <3>1 DEF SessionType
    <3>4. Good(t)
      BY SMTT(30), ZenonT(30), <3>3 DEF Good, SupervisedIn, HandshakeIn, ConnectionsIn, SessionType
    <3>5. CandidateIn(t)
      BY <2>1, <3>3 DEF CandidateIn
    <3>q. QED BY <3>2, <3>3, <3>4, <3>5 DEF Resolved
  <2>4. CASE Verdict(s) = "adopt"
    <3>1. TryResolve(s, failed) = Adopt(s, failed)
      BY <1>3, <2>4 DEF TryResolve
    <3>2. s.fsm.state # "OpenSent"
      BY <2>4 DEF Verdict
    <3>3. PICK t : t = Adopt(s, failed)
      BY SMTT(30), ZenonT(30)
    <3>4. /\ t \in SessionType /\ Good(t) /\ t.candidate = None /\ t.deadline = s.deadline
          /\ \/ t.fsm.state = "Idle"
             \/ t.fsm.state = "OpenConfirm" /\ t.fsm.peer_open = s.candidate.open
      BY SMTT(30), ZenonT(30), <1>3, <2>1, <3>2, <3>3, AdoptGood
    <3>5. CandidateIn(t)
      BY <2>1, <3>4 DEF CandidateIn
    <3>q. QED BY <1>3, <2>4, <3>1, <3>3, <3>4, <3>5 DEF Resolved
  <2>5. Verdict(s) \in {"wait", "drop", "adopt"}
    BY SMTT(30), ZenonT(30) DEF Verdict
  <2>q. QED BY SMTT(30), ZenonT(30), <2>2, <2>3, <2>4, <2>5
<1>q. QED BY <1>1, <1>2, <1>3

\* The session record t after a round that began with the FSM record f.
Settled(f, t) == t \in SessionType /\ Good(t) /\ CandidateIn(t) /\ Moves(f, t.fsm)

\* Phase and identity of an FSM record, state by state.
LEMMA PhasePeer ==
  ASSUME NEW f \in FsmType
  PROVE  /\ f.state \in {"Idle", "Connect", "Active"} => PhaseOf(f) = "Down" /\ PeerOf(f) = None
         /\ f.state = "OpenSent" => PhaseOf(f) = "Handshake" /\ PeerOf(f) = None
         /\ f.state = "OpenConfirm" => PhaseOf(f) = "Handshake" /\ PeerOf(f) = f.peer_open.bgp_id
         /\ f.state = "Established" => PhaseOf(f) = "Up" /\ PeerOf(f) = f.peer_open.bgp_id
BY DEF PhaseOf, PeerOf, FsmType, State

\* A learned identity is one, never the absent one.
LEMMA OpenIds ==
  ASSUME NEW open \in Opens
  PROVE  open.bgp_id \in {o.bgp_id : o \in Opens} /\ open.bgp_id # None
<1>1. open.bgp_id \in Nat
  BY OpensAssumption DEF OpenMessage
<1>q. QED BY <1>1, NoneAssumption

\* What the FSM does with one input is a step of the contract.
LEMMA FollowsMoves ==
  ASSUME NEW f \in FsmType, NEW g \in FsmType, Follows(f, g),
         f.state = "OpenConfirm" => f.peer_open \in Opens
  PROVE  Moves(f, g)
<1>1. CASE g.state \in {"Idle", "Connect", "Active"}
  BY <1>1, PhasePeer DEF Moves
<1>2. CASE g.state = f.state /\ g.peer_open = f.peer_open
  BY <1>2 DEF Moves, PhaseOf, PeerOf
<1>3. CASE f.state \in {"Idle", "Connect", "Active"} /\ g.state = "OpenSent"
  BY <1>3, PhasePeer DEF Moves
<1>4. CASE f.state = "OpenSent" /\ g.state = "OpenConfirm" /\ g.peer_open \in Opens
  BY <1>4, PhasePeer, OpenIds DEF Moves
<1>5. CASE f.state = "OpenConfirm" /\ g.state = "Established" /\ g.peer_open = f.peer_open
  <2>1. f.peer_open.bgp_id # None
    BY <1>5, OpenIds
  <2>q. QED BY <1>5, <2>1, PhasePeer DEF Moves
<1>q. QED BY <1>1, <1>2, <1>3, <1>4, <1>5 DEF Follows

\* A step back to Idle ends what there was; an adopted candidate brings the
\* identity where none was known.
LEMMA AdoptMoves ==
  ASSUME NEW f \in FsmType, NEW g \in FsmType, NEW open \in Opens,
         \/ g.state = "Idle"
         \/ g.state = "OpenConfirm" /\ g.peer_open = open,
         \/ f.state \in {"Idle", "Connect", "Active", "OpenSent"}
         \/ f.state \in {"OpenConfirm", "Established"} /\ f.peer_open.bgp_id = open.bgp_id
  PROVE  Moves(f, g)
<1>1. CASE g.state = "Idle"
  BY <1>1, PhasePeer DEF Moves
<1>2. CASE g.state = "OpenConfirm" /\ g.peer_open = open
  <2>1. PhaseOf(g) = "Handshake" /\ PeerOf(g) = open.bgp_id
    BY <1>2, PhasePeer
  <2>2. CASE f.state \in {"Idle", "Connect", "Active", "OpenSent"}
    BY <2>1, <2>2, PhasePeer, OpenIds DEF Moves
  <2>3. CASE f.state \in {"OpenConfirm", "Established"} /\ f.peer_open.bgp_id = open.bgp_id
    BY <2>1, <2>3, PhasePeer DEF Moves
  <2>q. QED BY <2>2, <2>3
<1>q. QED BY <1>1, <1>2

\* A record of the same state with the same OPEN is the same to the contract.
LEMMA StaysMoves ==
  ASSUME NEW f, NEW g, g.state = f.state, g.peer_open = f.peer_open
  PROVE  Moves(f, g)
BY DEF Moves, PhaseOf, PeerOf

\* try_resolve_pending_candidate lets a candidate take the place of a
\* connection only when its OPEN bears the identifier of the session.
LEMMA AdoptVerdict ==
  ASSUME NEW s \in SessionType, Verdict(s) = "adopt"
  PROVE  \/ s.fsm.state \in {"Idle", "Connect", "Active"}
         \/ /\ s.fsm.state \in {"OpenConfirm", "Established"}
            /\ s.fsm.peer_open.bgp_id = s.candidate.open.bgp_id
<1>1. s.fsm.state \in State
  BY DEF SessionType, FsmType
<1>q. QED BY <1>1 DEF Verdict, State

\* One round of run().  The candidate, when it waits for our connection's
\* OPEN, waits in OpenSent.
LEMMA RunGood ==
  ASSUME NEW s \in SessionType, NEW in \in FsmInput, Ready(s, in.kind),
         in.kind # "CollisionDetected", Waiting(s), NEW failed
  PROVE  Settled(s.fsm, Run(s, in, failed))
<1>1. PICK p : p = Prepare(s, in)
  OBVIOUS
<1>2. /\ p \in SessionType /\ p.fsm = s.fsm
      /\ (p.hold <=> s.hold) /\ (p.keepalive <=> s.keepalive) /\ (p.retry <=> s.retry)
      /\ p.transport = s.transport /\ (p.connecting <=> s.connecting)
      /\ \/ p.candidate = None /\ ~p.deadline
         \/ p.candidate = s.candidate /\ (p.deadline <=> s.deadline)
  <2>1. PICK reason, candidate, deadline :
          /\ reason = IF s.fsm.state = "Established" THEN ReasonFor(in) ELSE s.reason
          /\ candidate = IF in.kind \in {"ManualStop", "NotificationToSend"} /\ s.candidate # None
                         THEN None ELSE s.candidate
          /\ deadline = (s.deadline /\ ~(in.kind \in {"ManualStop", "NotificationToSend"}
                                          /\ s.candidate # None))
    OBVIOUS
  <2>2. p = [s EXCEPT !.reason = reason, !.candidate = candidate, !.deadline = deadline]
    BY <1>1, <2>1, Zenon DEF Prepare
  <2>3. /\ reason \in TerminationReason /\ candidate \in Candidate \cup {None}
        /\ deadline \in BOOLEAN
    BY <2>1 DEF ReasonFor, TerminationReason, SessionType
  <2>4. \/ candidate = None /\ ~deadline
        \/ candidate = s.candidate /\ (deadline <=> s.deadline)
    BY ZenonT(60), <2>1
  <2>q. QED BY Zenon, <2>2, <2>3, <2>4 DEF SessionType
<1>3. Ready(p, in.kind)
  BY <1>2, ZenonT(120) DEF Ready, SessionType
<1>4. PICK t : t = Step(p, in, failed \cap {"primary"})
  OBVIOUS
<1>5. Stepped(p, t)
  BY SMTT(30), ZenonT(30), <1>2, <1>3, <1>4, StepGood
<1>6. Pending(t)
  BY <1>2, <1>5 DEF Stepped, Pending, Waiting, SessionType
<1>7. PICK u : u = TryResolve(t, failed)
  OBVIOUS
<1>8. Run(s, in, failed) = u /\ Resolved(t, u)
  BY <1>1, <1>4, <1>5, <1>6, <1>7, ResolveGood, ZenonT(40) DEF Run, Stepped
<1>9. /\ s.fsm \in FsmType /\ t.fsm \in FsmType /\ u.fsm \in FsmType
      /\ Follows(s.fsm, t.fsm)
  BY <1>2, <1>4, <1>5, <1>8, StepFollows, ZenonT(40) DEF SessionType, Stepped, Resolved
<1>10. s.fsm.state = "OpenConfirm" => s.fsm.peer_open \in Opens
  BY <1>9, Zenon DEF Ready, FsmType
<1>11. Moves(s.fsm, u.fsm)
  <2>1. CASE u.fsm = t.fsm
    BY <1>9, <1>10, <2>1, FollowsMoves
  <2>2. CASE u.fsm # t.fsm
    <3>1. PICK c : c = t.candidate
      OBVIOUS
    <3>2. /\ c # None /\ c.open # None
          /\ \/ u.fsm.state = "Idle"
             \/ u.fsm.state = "OpenConfirm" /\ u.fsm.peer_open = c.open
      BY <1>8, <2>2, <3>1 DEF Resolved
    <3>3. c = s.candidate /\ c \in Candidate
      BY <1>2, <1>5, <3>1, <3>2 DEF Stepped, SessionType
    <3>4. c.open \in Opens
      BY <3>2, <3>3 DEF Candidate
    <3>5. s.fsm.state = "OpenSent"
      BY <3>2, <3>3 DEF Waiting
    <3>q. QED BY <1>9, <3>2, <3>4, <3>5, AdoptMoves
  <2>q. QED BY <2>1, <2>2, ZenonT(40)
<1>q. QED BY <1>8, <1>11 DEF Resolved, Settled

-----------------------------------------------------------------------------
(* The actions.                                                            *)

\* An action that runs the loop on one input leaves a settled session.
LEMMA LoopGood ==
  ASSUME NEW s \in SessionType, NEW in \in FsmInput, Ready(s, in.kind),
         in.kind # "CollisionDetected", Waiting(s), Loop(s, in)
  PROVE  Settled(s.fsm, ses')
<1>1. PICK failed : ses' = Run(s, in, failed)
  BY SMTT(30), ZenonT(30) DEF Loop
<1>q. QED BY <1>1, RunGood

\* A good session is ready for every input that comes with no change of its
\* own: commands and received messages.
LEMMA GoodIsReady ==
  ASSUME NEW s \in SessionType, Good(s),
         NEW kind, kind \notin {"TcpConnected", "TcpFailed", "HoldTimerExpired",
                                "KeepaliveTimerExpired", "ConnectRetryTimerExpired"},
         kind \in Message => s.transport # None
  PROVE  Ready(s, kind)
BY DEF Ready, Good, SupervisedIn, HandshakeIn, ConnectionsIn

\* Between two inputs a staged candidate is one that may wait.
LEMMA HeldIsWaiting ==
  ASSUME NEW s, CandidateIn(s)
  PROVE  Waiting(s)
BY DEF Waiting, Pending, CandidateIn

\* Commands and messages.
LEMMA PlainInput ==
  ASSUME ses \in SessionType, Good(ses), CandidateIn(ses), NEW in \in FsmInput,
         in.kind \notin {"TcpConnected", "TcpFailed", "HoldTimerExpired", "CollisionDetected",
                         "KeepaliveTimerExpired", "ConnectRetryTimerExpired"},
         in.kind \in Message => ses.transport # None,
         Loop(ses, in)
  PROVE  Settled(ses.fsm, ses')
<1>1. Ready(ses, in.kind)
  BY GoodIsReady
<1>2. Waiting(ses)
  BY HeldIsWaiting
<1>q. QED BY <1>1, <1>2, LoopGood

\* The end of the connection: a failed read or write outside the FSM.
LEMMA DroppedInput ==
  ASSUME ses \in SessionType, Good(ses), CandidateIn(ses),
         Loop(DropConnection(ses), Input("TcpFailed"))
  PROVE  Settled(ses.fsm, ses')
<1>1. PICK s : s = DropConnection(ses)
  OBVIOUS
<1>2. /\ s \in SessionType /\ s.fsm = ses.fsm
      /\ (s.hold <=> ses.hold) /\ (s.keepalive <=> ses.keepalive) /\ (s.retry <=> ses.retry)
      /\ s.transport = None /\ ~s.connecting
      /\ s.candidate = ses.candidate /\ (s.deadline <=> ses.deadline)
  BY Zenon, <1>1 DEF DropConnection, SessionType
<1>3. Input("TcpFailed") \in FsmInput /\ Input("TcpFailed").kind = "TcpFailed"
  BY InputKinds DEF InputKind
<1>4. Ready(s, "TcpFailed")
  BY ZenonT(60), <1>2 DEF Ready, Message, Good, SupervisedIn, HandshakeIn, ConnectionsIn, SessionType
<1>5. Waiting(s)
  BY Zenon, <1>2 DEF Waiting, Pending, CandidateIn, SessionType
<1>q. QED BY <1>1, <1>2, <1>3, <1>4, <1>5, LoopGood

\* A settled session satisfies the inductive invariant, by a step of the
\* contract.
LEMMA SettledKept ==
  ASSUME TypeOK, Settled(ses.fsm, ses'),
         queued' \in 0 .. MaxQueued, view' \in BOOLEAN, starts' \in 0 .. MaxStarts
  PROVE  Kept
BY DEF IInv, TypeOK, Settled, Kept

\* A step that leaves the session alone.
LEMMA SessionUnchanged ==
  ASSUME IInv, UNCHANGED ses,
         queued' \in 0 .. MaxQueued, view' \in BOOLEAN, starts' \in 0 .. MaxStarts
  PROVE  Kept
<1>1. IInv'
  BY Zenon DEF IInv, TypeOK, Good, SupervisedIn, HandshakeIn, ConnectionsIn, CandidateIn
<1>2. Moves(ses.fsm, ses'.fsm)
  BY StaysMoves
<1>q. QED BY <1>1, <1>2 DEF Kept

\* A command that stages an inbound connection, adopts it, or drops it.
LEMMA IncomingInv == IInv /\ CmdIncoming => Kept
<1> SUFFICES ASSUME IInv, CmdIncoming PROVE Kept
  OBVIOUS
<1> USE DEF IInv
<1>1. /\ ses \in SessionType /\ Good(ses) /\ CandidateIn(ses)
      /\ queued' \in 0 .. MaxQueued /\ view' \in BOOLEAN /\ starts' \in 0 .. MaxStarts
  BY DEF TypeOK, CmdIncoming
<1>2. PICK local \in LocalAddrs :
        \/ UNCHANGED ses
        \/ /\ ses.candidate = None /\ ses.fsm.state \in {"Idle", "Connect", "Active"}
           /\ Loop([ses EXCEPT !.transport = NewConn("Inbound", local)], Input("TcpConnected"))
        \/ /\ ses.candidate = None
           /\ \E purpose \in Purpose : ses' = StageCandidate(ses, NewConn("Inbound", local), purpose)
  <2>1. PICK local \in LocalAddrs :
          LET conn == NewConn("Inbound", local)
              st == ses.fsm.state
          IN CASE ses.candidate # None -> UNCHANGED ses
               [] ses.candidate = None /\ st \in {"Idle", "Connect", "Active"} ->
                    Loop([ses EXCEPT !.transport = conn], Input("TcpConnected"))
               [] ses.candidate = None /\ st \in {"OpenSent", "OpenConfirm"} ->
                    ses' = StageCandidate(ses, conn, "Collision")
               [] ses.candidate = None /\ st = "Established" ->
                    IF PeerHasGracefulRestart(ses.fsm)
                    THEN ses' = StageCandidate(ses, conn, "GracefulRestart")
                    ELSE UNCHANGED ses
    BY Zenon DEF CmdIncoming
  <2>2. ses.fsm.state \in State
    BY <1>1 DEF SessionType, FsmType
  <2>q. QED BY Zenon, <2>1, <2>2 DEF State, Purpose
<1>3. PICK conn : conn = NewConn("Inbound", local)
  OBVIOUS
<1>4. conn \in Conn /\ conn # None /\ conn.origin = "Inbound"
  BY SMTT(30), Z3T(30), <1>3, NoneAssumption DEF NewConn, Conn
<1>5. CASE UNCHANGED ses
  BY <1>1, <1>5, SessionUnchanged
<1>6. CASE /\ ses.candidate = None /\ ses.fsm.state \in {"Idle", "Connect", "Active"}
           /\ Loop([ses EXCEPT !.transport = conn], Input("TcpConnected"))
  <2>1. PICK s : s = [ses EXCEPT !.transport = conn]
    BY Zenon
  <2>2. /\ s \in SessionType /\ s.fsm = ses.fsm
        /\ (s.hold <=> ses.hold) /\ (s.keepalive <=> ses.keepalive) /\ (s.retry <=> ses.retry)
        /\ s.transport = conn /\ (s.connecting <=> ses.connecting)
        /\ s.candidate = None /\ (s.deadline <=> ses.deadline)
    BY <1>1, <1>4, <1>6, <2>1 DEF SessionType
  <2>3. Input("TcpConnected") \in FsmInput /\ Input("TcpConnected").kind = "TcpConnected"
    BY InputKinds DEF InputKind, Message
  <2>4. Ready(s, "TcpConnected")
    BY <1>1, <1>4, <1>6, <2>2
    DEF Ready, Good, SupervisedIn, HandshakeIn, ConnectionsIn, SessionType
  <2>5. Waiting(s)
    BY <1>1, <1>6, <2>2 DEF Waiting, Pending, CandidateIn, SessionType
  <2>6. Settled(ses.fsm, ses')
    BY <1>6, <2>1, <2>2, <2>3, <2>4, <2>5, LoopGood, ZenonT(40)
  <2>q. QED BY <1>1, <2>6, SettledKept
<1>7. CASE /\ ses.candidate = None
           /\ \E purpose \in Purpose : ses' = StageCandidate(ses, conn, purpose)
  <2>0. PICK purpose \in Purpose : ses' = StageCandidate(ses, conn, purpose)
    BY <1>7
  <2>1. PICK c : /\ c = [conn |-> conn, open |-> None, purpose |-> purpose]
                 /\ ses' = [ses EXCEPT !.candidate = c, !.deadline = TRUE]
    BY Zenon, <2>0 DEF StageCandidate
  <2>2. c \in Candidate /\ c # None /\ c.open = None /\ c.conn = conn
    BY <1>4, <2>0, <2>1, NoneAssumption DEF Candidate
  <2>3. PICK t : t = ses'
    OBVIOUS
  <2>4. /\ t \in SessionType /\ t.fsm = ses.fsm
        /\ (t.hold <=> ses.hold) /\ (t.keepalive <=> ses.keepalive) /\ (t.retry <=> ses.retry)
        /\ t.transport = ses.transport /\ (t.connecting <=> ses.connecting)
        /\ t.candidate = c /\ t.deadline
    BY Zenon, <1>1, <2>1, <2>2, <2>3 DEF SessionType
  <2>5. Good(t)
    BY ZenonT(60), <1>1, <1>4, <2>2, <2>4
    DEF Good, SupervisedIn, HandshakeIn, ConnectionsIn, SessionType
  <2>6. CandidateIn(t)
    BY <2>2, <2>4 DEF CandidateIn
  <2>7. Settled(ses.fsm, ses')
    BY <2>3, <2>4, <2>5, <2>6, StaysMoves DEF Settled
  <2>q. QED BY <1>1, <2>7, SettledKept
<1>q. QED BY <1>2, <1>3, <1>5, <1>6, <1>7

\* The outbound dial: a connection that succeeds becomes the transport, one
\* that fails is a TcpFailed.
LEMMA DialInv == IInv /\ (ConnectSucceeds \/ ConnectFails) => Kept
<1> SUFFICES ASSUME IInv, ConnectSucceeds \/ ConnectFails PROVE Kept
  BY SMTT(30), ZenonT(30)
<1>1. /\ ses \in SessionType /\ Good(ses) /\ CandidateIn(ses) /\ ses.connecting
      /\ queued' \in 0 .. MaxQueued /\ view' \in BOOLEAN /\ starts' \in 0 .. MaxStarts
  BY Zenon DEF IInv, TypeOK, ConnectSucceeds, ConnectFails
<1>2. CASE ConnectSucceeds
  <2>1. PICK local \in LocalAddrs :
          Loop([ses EXCEPT !.connecting = FALSE, !.transport = NewConn("Outbound", local)],
               Input("TcpConnected"))
    BY Zenon, <1>2 DEF ConnectSucceeds
  <2>2. PICK conn : conn = NewConn("Outbound", local)
    OBVIOUS
  <2>3. conn \in Conn /\ conn # None /\ conn.origin = "Outbound"
    BY <2>2, NoneAssumption DEF NewConn, Conn
  <2>4. PICK s : s = [ses EXCEPT !.connecting = FALSE, !.transport = conn]
    OBVIOUS
  <2>5. /\ s \in SessionType /\ s.fsm = ses.fsm
        /\ (s.hold <=> ses.hold) /\ (s.keepalive <=> ses.keepalive) /\ (s.retry <=> ses.retry)
        /\ s.transport = conn /\ ~s.connecting
        /\ s.candidate = ses.candidate /\ (s.deadline <=> ses.deadline)
    BY Zenon, <1>1, <2>3, <2>4 DEF SessionType
  <2>6. Input("TcpConnected") \in FsmInput /\ Input("TcpConnected").kind = "TcpConnected"
    BY InputKinds DEF InputKind, Message
  <2>7. Ready(s, "TcpConnected")
    BY ZenonT(60), <1>1, <2>3, <2>5 DEF Ready, Good, SupervisedIn, HandshakeIn, ConnectionsIn, SessionType
  <2>8. Waiting(s)
    BY Zenon, <1>1, <2>5 DEF Waiting, Pending, CandidateIn, Good, HandshakeIn, ConnectionsIn, SessionType
  <2>9. Settled(ses.fsm, ses')
    BY <2>1, <2>2, <2>4, <2>5, <2>6, <2>7, <2>8, LoopGood, ZenonT(40)
  <2>q. QED BY SMTT(30), ZenonT(30), <1>1, <2>9, SettledKept DEF IInv
<1>3. CASE ConnectFails
  <2>1. PICK s : s = [ses EXCEPT !.connecting = FALSE]
    BY Zenon
  <2>2. /\ s \in SessionType /\ s.fsm = ses.fsm
        /\ (s.hold <=> ses.hold) /\ (s.keepalive <=> ses.keepalive) /\ (s.retry <=> ses.retry)
        /\ s.transport = ses.transport /\ ~s.connecting
        /\ s.candidate = ses.candidate /\ (s.deadline <=> ses.deadline)
    BY Zenon, <1>1, <2>1 DEF SessionType
  <2>3. Input("TcpFailed") \in FsmInput /\ Input("TcpFailed").kind = "TcpFailed"
    BY SMTT(30), ZenonT(30), InputKinds DEF InputKind, Message
  <2>4. Ready(s, "TcpFailed")
    BY ZenonT(60), <1>1, <2>2
    DEF Ready, Message, Good, SupervisedIn, HandshakeIn, ConnectionsIn, SessionType
  <2>5. Waiting(s)
    BY ZenonT(60), <1>1, <2>2 DEF Waiting, Pending, CandidateIn, SessionType
  <2>6. Settled(ses.fsm, ses')
    BY <1>3, <2>1, <2>2, <2>3, <2>4, <2>5, LoopGood, Zenon DEF ConnectFails
  <2>q. QED BY <1>1, <2>6, SettledKept DEF IInv
<1>q. QED BY <1>2, <1>3

\* A timer that fires is cleared before the FSM hears of it.
LEMMA TimersInv == IInv /\ (HoldTimer \/ KeepaliveTimer \/ RetryTimer) => Kept
<1> SUFFICES ASSUME IInv, HoldTimer \/ KeepaliveTimer \/ RetryTimer PROVE Kept
  OBVIOUS
<1>1. /\ ses \in SessionType /\ Good(ses) /\ CandidateIn(ses)
      /\ queued' \in 0 .. MaxQueued /\ view' \in BOOLEAN /\ starts' \in 0 .. MaxStarts
  BY DEF IInv, TypeOK, HoldTimer, KeepaliveTimer, RetryTimer
<1>2. CASE HoldTimer
  <2>1. PICK s : s = [ses EXCEPT !.hold = FALSE]
    BY Zenon
  <2>2. /\ s \in SessionType /\ s.fsm = ses.fsm /\ ~s.hold
        /\ (s.keepalive <=> ses.keepalive) /\ (s.retry <=> ses.retry)
        /\ s.transport = ses.transport /\ (s.connecting <=> ses.connecting)
        /\ s.candidate = ses.candidate /\ (s.deadline <=> ses.deadline)
    BY Zenon, <1>1, <2>1 DEF SessionType
  <2>3. /\ Input("HoldTimerExpired") \in FsmInput
        /\ Input("HoldTimerExpired").kind = "HoldTimerExpired"
    BY SMTT(30), ZenonT(30), InputKinds DEF InputKind, Message
  <2>4. Ready(s, "HoldTimerExpired")
    BY ZenonT(60), <1>1, <2>2
    DEF Ready, Message, Good, SupervisedIn, HandshakeIn, ConnectionsIn, SessionType
  <2>5. Waiting(s)
    BY <1>1, <2>2 DEF Waiting, Pending, CandidateIn, SessionType
  <2>6. Settled(ses.fsm, ses')
    BY <1>2, <2>1, <2>2, <2>3, <2>4, <2>5, LoopGood, Zenon DEF HoldTimer
  <2>q. QED BY <1>1, <2>6, SettledKept DEF IInv
<1>3. CASE KeepaliveTimer
  <2>1. PICK s : s = [ses EXCEPT !.keepalive = FALSE]
    BY Zenon
  <2>2. /\ s \in SessionType /\ s.fsm = ses.fsm /\ (s.hold <=> ses.hold)
        /\ ~s.keepalive /\ ses.keepalive /\ (s.retry <=> ses.retry)
        /\ s.transport = ses.transport /\ (s.connecting <=> ses.connecting)
        /\ s.candidate = ses.candidate /\ (s.deadline <=> ses.deadline)
    BY Zenon, <1>1, <1>3, <2>1 DEF SessionType, KeepaliveTimer
  <2>3. /\ Input("KeepaliveTimerExpired") \in FsmInput
        /\ Input("KeepaliveTimerExpired").kind = "KeepaliveTimerExpired"
    BY SMTT(30), ZenonT(30), InputKinds DEF InputKind, Message
  <2>4. Ready(s, "KeepaliveTimerExpired")
    BY ZenonT(60), <1>1, <2>2
    DEF Ready, Message, Good, SupervisedIn, HandshakeIn, ConnectionsIn, SessionType
  <2>5. Waiting(s)
    BY Zenon, <1>1, <2>2 DEF Waiting, Pending, CandidateIn, SessionType
  <2>6. Settled(ses.fsm, ses')
    BY <1>3, <2>1, <2>2, <2>3, <2>4, <2>5, LoopGood, Zenon DEF KeepaliveTimer
  <2>q. QED BY <1>1, <2>6, SettledKept DEF IInv
<1>4. CASE RetryTimer
  <2>1. PICK s : s = [ses EXCEPT !.retry = FALSE]
    BY Zenon
  <2>2. /\ s \in SessionType /\ s.fsm = ses.fsm /\ (s.hold <=> ses.hold)
        /\ (s.keepalive <=> ses.keepalive) /\ ~s.retry
        /\ s.transport = ses.transport /\ (s.connecting <=> ses.connecting)
        /\ s.candidate = ses.candidate /\ (s.deadline <=> ses.deadline)
    BY Zenon, <1>1, <2>1 DEF SessionType
  <2>3. /\ Input("ConnectRetryTimerExpired") \in FsmInput
        /\ Input("ConnectRetryTimerExpired").kind = "ConnectRetryTimerExpired"
    BY InputKinds DEF InputKind, Message
  <2>4. Ready(s, "ConnectRetryTimerExpired")
    BY ZenonT(60), <1>1, <2>2
    DEF Ready, Message, Good, SupervisedIn, HandshakeIn, ConnectionsIn, SessionType
  <2>5. Waiting(s)
    BY <1>1, <2>2 DEF Waiting, Pending, CandidateIn, SessionType
  <2>6. Settled(ses.fsm, ses')
    BY <1>4, <2>1, <2>2, <2>3, <2>4, <2>5, LoopGood, Zenon DEF RetryTimer
  <2>q. QED BY <1>1, <2>6, SettledKept DEF IInv
<1>q. QED BY <1>2, <1>3, <1>4

\* A message, an error or the end of the stream on the candidate, and its
\* deadline.
LEMMA CandidateInv == IInv /\ (RecvCandidateMessage \/ CollisionDeadline) => Kept
<1> SUFFICES ASSUME IInv, RecvCandidateMessage \/ CollisionDeadline PROVE Kept
  OBVIOUS
<1>1. /\ ses \in SessionType /\ Good(ses) /\ CandidateIn(ses)
      /\ queued' \in 0 .. MaxQueued /\ view' \in BOOLEAN /\ starts' \in 0 .. MaxStarts
  BY DEF IInv, TypeOK, RecvCandidateMessage, CollisionDeadline
<1>2. PICK taken : taken = [ses EXCEPT !.candidate = None, !.deadline = FALSE]
  OBVIOUS
<1>3. /\ taken \in SessionType /\ taken.fsm = ses.fsm /\ (taken.hold <=> ses.hold)
      /\ (taken.keepalive <=> ses.keepalive) /\ (taken.retry <=> ses.retry)
      /\ taken.transport = ses.transport /\ (taken.connecting <=> ses.connecting)
      /\ taken.candidate = None /\ ~taken.deadline
  BY Zenon, <1>1, <1>2 DEF SessionType
<1>4. ASSUME ses' = taken PROVE Kept
  <2>1. Good(taken)
    BY ZenonT(60), <1>1, <1>3 DEF Good, SupervisedIn, HandshakeIn, ConnectionsIn, SessionType
  <2>2. CandidateIn(taken)
    BY SMTT(30), ZenonT(30), <1>3 DEF CandidateIn
  <2>3. Settled(ses.fsm, ses')
    BY <1>3, <1>4, <2>1, <2>2, StaysMoves DEF Settled
  <2>q. QED BY <1>1, <2>3, SettledKept DEF IInv
<1>5. CASE CollisionDeadline
  BY <1>2, <1>4, <1>5 DEF CollisionDeadline
<1>6. CASE RecvCandidateMessage
  <2>1. PICK open \in Opens \cup {None}, failed \in SUBSET Writes(ses) :
          ses' = HandleCandidateMessage(ses, open, failed)
    BY <1>6 DEF RecvCandidateMessage
  <2>2. PICK c : c = ses.candidate
    BY SMTT(30), ZenonT(30)
  <2>3. c \in Candidate /\ c # None /\ c.conn \in Conn /\ c.conn.origin = "Inbound"
    BY Zenon, <1>1, <1>6, <2>2, NoneAssumption
    DEF RecvCandidateMessage, SessionType, Candidate, Good, ConnectionsIn
  <2>4. CASE \/ open = None
             \/ open # None /\ ~OpenValid(open)
             \/ c.purpose = "Collision" /\ ~IsReversedPair(ses.transport, c.conn)
    <3>1. ses' = taken
      BY SMTT(30), ZenonT(30), <1>2, <2>1, <2>2, <2>4 DEF HandleCandidateMessage
    <3>q. QED BY <1>4, <3>1
  <2>5. CASE ~(\/ open = None
               \/ open # None /\ ~OpenValid(open)
               \/ c.purpose = "Collision" /\ ~IsReversedPair(ses.transport, c.conn))
    <3>1. PICK d, s : d = [c EXCEPT !.open = open] /\ s = [taken EXCEPT !.candidate = d]
      BY Zenon
    <3>2. ses' = TryResolve(s, failed)
      BY <1>2, <2>1, <2>2, <2>5, <3>1 DEF HandleCandidateMessage
    <3>3. /\ d \in Candidate /\ d # None /\ d.open = open /\ d.conn = c.conn
          /\ d.purpose = c.purpose
      BY <2>3, <2>5, <3>1, NoneAssumption DEF Candidate
    <3>4. /\ s \in SessionType /\ s.fsm = ses.fsm /\ (s.hold <=> ses.hold)
          /\ (s.keepalive <=> ses.keepalive) /\ (s.retry <=> ses.retry)
          /\ s.transport = ses.transport /\ (s.connecting <=> ses.connecting)
          /\ s.candidate = d /\ ~s.deadline
      BY <1>3, <3>1, <3>3 DEF SessionType
    <3>5. Good(s)
      BY ZenonT(60), <1>1, <2>3, <3>3, <3>4 DEF Good, SupervisedIn, HandshakeIn, ConnectionsIn, SessionType
    <3>6. Pending(s)
      <4>1. ASSUME c.purpose = "Collision", ses.transport # None
            PROVE  ses.transport.origin = "Outbound" /\ ses.transport.local = c.conn.local
        BY ZenonT(60), <1>1, <2>3, <2>5, <4>1 DEF IsReversedPair, Conn, SessionType
      <4>q. QED BY ZenonT(60), <2>3, <2>5, <3>3, <3>4, <4>1 DEF Pending
    <3>7. PICK t : t = ses'
      OBVIOUS
    <3>8. Resolved(s, t)
      BY <3>2, <3>4, <3>5, <3>6, <3>7, ResolveGood
    <3>9. ses.fsm \in FsmType /\ t.fsm \in FsmType
      BY <1>1, <3>8 DEF SessionType, Resolved
    <3>10. Moves(ses.fsm, t.fsm)
      <4>1. CASE t.fsm = s.fsm
        BY <3>4, <4>1, StaysMoves
      <4>2. CASE t.fsm # s.fsm
        <5>1. /\ Verdict(s) = "adopt"
              /\ \/ t.fsm.state = "Idle"
                 \/ t.fsm.state = "OpenConfirm" /\ t.fsm.peer_open = open
          BY <3>3, <3>4, <3>8, <4>2 DEF Resolved
        <5>2. \/ ses.fsm.state \in {"Idle", "Connect", "Active"}
              \/ /\ ses.fsm.state \in {"OpenConfirm", "Established"}
                 /\ ses.fsm.peer_open.bgp_id = open.bgp_id
          BY <3>3, <3>4, <5>1, AdoptVerdict
        <5>3. open \in Opens
          BY <2>1, <2>5
        <5>q. QED BY <3>9, <5>1, <5>2, <5>3, AdoptMoves
      <4>q. QED BY <4>1, <4>2
    <3>11. Settled(ses.fsm, ses')
      BY <3>7, <3>8, <3>10 DEF Resolved, Settled
    <3>q. QED BY <1>1, <3>11, SettledKept DEF IInv
  <2>q. QED BY SMTT(30), ZenonT(30), <2>4, <2>5
<1>q. QED BY <1>5, <1>6

\* Only the capabilities change.
LEMMA CapabilitiesInv == IInv /\ CmdSetCapabilities => Kept
<1> SUFFICES ASSUME IInv, CmdSetCapabilities PROVE Kept
  OBVIOUS
<1>1. /\ ses \in SessionType /\ Good(ses) /\ CandidateIn(ses)
      /\ queued' \in 0 .. MaxQueued /\ view' \in BOOLEAN /\ starts' \in 0 .. MaxStarts
  BY DEF IInv, TypeOK, CmdSetCapabilities
<1>2. PICK caps \in CapSets : ses' = [ses EXCEPT !.fsm.caps = caps]
  BY DEF CmdSetCapabilities
<1>3. PICK g, t : g = [ses.fsm EXCEPT !.caps = caps] /\ t = [ses EXCEPT !.fsm = g]
  BY Zenon
<1>4. ses' = t
  BY <1>2, <1>3
<1>5. /\ g \in FsmType /\ g.state = ses.fsm.state /\ g.peer_open = ses.fsm.peer_open
      /\ g.hold_time = ses.fsm.hold_time
  <2>1. ses.fsm \in FsmType
    BY <1>1 DEF SessionType
  <2>q. QED BY <1>3, <2>1 DEF FsmType
<1>6. /\ t \in SessionType /\ t.fsm = g /\ (t.hold <=> ses.hold)
      /\ (t.keepalive <=> ses.keepalive) /\ (t.retry <=> ses.retry)
      /\ t.transport = ses.transport /\ (t.connecting <=> ses.connecting)
      /\ t.candidate = ses.candidate /\ (t.deadline <=> ses.deadline)
  BY <1>1, <1>3, <1>5 DEF SessionType
<1>7. Good(t)
  BY ZenonT(60), <1>1, <1>5, <1>6 DEF Good, SupervisedIn, HandshakeIn, ConnectionsIn, SessionType
<1>8. CandidateIn(t)
  BY ZenonT(40), <1>1, <1>5, <1>6 DEF CandidateIn, SessionType
<1>9. Settled(ses.fsm, ses')
  BY ZenonT(40), <1>4, <1>5, <1>6, <1>7, <1>8, StaysMoves DEF Settled
<1>q. QED BY <1>1, <1>9, SettledKept DEF IInv

\* Every step of the session, and every step that changes nothing, preserves
\* the inductive invariant.
LEMMA NextInv == IInv /\ [Next]_vars => Kept
<1> SUFFICES ASSUME IInv, [Next]_vars PROVE Kept
  OBVIOUS
<1>0. /\ ses \in SessionType /\ Good(ses) /\ CandidateIn(ses) /\ TypeOK
      /\ queued \in 0 .. MaxQueued /\ view \in BOOLEAN /\ starts \in 0 .. MaxStarts
      /\ MaxQueued \in Nat /\ MaxStarts \in Nat
  BY BoundsAssumption DEF IInv, TypeOK
<1>1. CASE CmdStart
  <2>1. starts' \in 0 .. MaxStarts /\ queued' = queued /\ view' = view
    BY <1>0, <1>1 DEF CmdStart
  <2>2. Input("ManualStart") \in FsmInput /\ Input("ManualStart").kind = "ManualStart"
    BY SMTT(30), ZenonT(30), InputKinds DEF InputKind, Message
  <2>3. Settled(ses.fsm, ses')
    BY SMTT(30), ZenonT(30), <1>0, <1>1, <2>2, PlainInput DEF CmdStart, Message
  <2>q. QED BY <1>0, <2>1, <2>3, SettledKept
<1>2. CASE CmdStop
  <2>1. Input("ManualStop") \in FsmInput /\ Input("ManualStop").kind = "ManualStop"
    BY InputKinds DEF InputKind, Message
  <2>2. Settled(ses.fsm, ses')
    BY <1>0, <1>2, <2>1, PlainInput DEF CmdStop, Message
  <2>q. QED BY <1>0, <1>2, <2>2, SettledKept DEF CmdStop
<1>3. CASE CmdNotification
  <2>1. /\ Input("NotificationToSend") \in FsmInput
        /\ Input("NotificationToSend").kind = "NotificationToSend"
    BY InputKinds DEF InputKind, Message
  <2>2. Settled(ses.fsm, ses')
    BY <1>0, <1>3, <2>1, PlainInput DEF CmdNotification, Message
  <2>q. QED BY <1>0, <1>3, <2>2, SettledKept DEF CmdNotification
<1>4. CASE CmdIncoming
  BY <1>4, IncomingInv
<1>5. CASE CmdRouteRefresh
  <2>1. CASE UNCHANGED ses
    BY <1>0, <1>5, <2>1, SessionUnchanged DEF CmdRouteRefresh
  <2>2. CASE ~UNCHANGED ses
    <3>1. Settled(ses.fsm, ses')
      BY <1>0, <1>5, <2>2, DroppedInput DEF CmdRouteRefresh
    <3>q. QED BY <1>0, <1>5, <3>1, SettledKept DEF CmdRouteRefresh
  <2>q. QED BY <2>1, <2>2
<1>6. CASE CmdSetCapabilities
  BY <1>6, CapabilitiesInv
<1>7. CASE ConnectSucceeds \/ ConnectFails
  BY <1>7, DialInv
<1>8. CASE RecvMessage
  <2>1. ASSUME NEW kind \in Message \ {"Open"}, Loop(ses, Input(kind)) PROVE Settled(ses.fsm, ses')
    <3>1. Input(kind) \in FsmInput /\ Input(kind).kind = kind
      BY SMTT(30), ZenonT(30), InputKinds DEF InputKind, Message
    <3>q. QED BY <1>0, <1>8, <2>1, <3>1, PlainInput DEF RecvMessage, Message
  <2>2. ASSUME NEW open \in Opens, Loop(ses, OpenReceived(open)) PROVE Settled(ses.fsm, ses')
    <3>1. OpenReceived(open) \in FsmInput /\ OpenReceived(open).kind = "Open"
      BY DEF OpenReceived, FsmInput
    <3>q. QED BY SMTT(30), ZenonT(30), <1>0, <1>8, <2>2, <3>1, PlainInput DEF RecvMessage
  <2>3. Settled(ses.fsm, ses')
    BY <1>8, <2>1, <2>2 DEF RecvMessage
  <2>q. QED BY SMTT(30), ZenonT(30), <1>0, <1>8, <2>3, SettledKept DEF RecvMessage
<1>9. CASE RecvMalformedUpdate
  <2>1. CASE UNCHANGED ses
    BY <1>0, <1>9, <2>1, SessionUnchanged DEF RecvMalformedUpdate
  <2>2. CASE ~UNCHANGED ses
    <3>1. /\ Input("ProtocolErrorNotificationToSend") \in FsmInput
          /\ Input("ProtocolErrorNotificationToSend").kind = "ProtocolErrorNotificationToSend"
      BY InputKinds DEF InputKind, Message
    <3>2. Settled(ses.fsm, ses')
      BY <1>0, <1>9, <2>2, <3>1, PlainInput DEF RecvMalformedUpdate, Message
    <3>q. QED BY <1>0, <1>9, <3>2, SettledKept DEF RecvMalformedUpdate
  <2>q. QED BY <2>1, <2>2
<1>10. CASE RecvFailed
  <2>1. Settled(ses.fsm, ses')
    BY <1>0, <1>10, DroppedInput DEF RecvFailed
  <2>q. QED BY <1>0, <1>10, <2>1, SettledKept DEF RecvFailed
<1>11. CASE RecvCandidateMessage \/ CollisionDeadline
  BY <1>11, CandidateInv
<1>12. CASE HoldTimer \/ KeepaliveTimer \/ RetryTimer
  BY <1>12, TimersInv
<1>13. CASE ForwardUpdate
  <2>1. queued' \in 0 .. MaxQueued /\ view' = view /\ starts' = starts
    BY <1>0, <1>13 DEF ForwardUpdate
  <2>2. CASE UNCHANGED ses
    BY <1>0, <2>1, <2>2, SessionUnchanged
  <2>3. CASE ~UNCHANGED ses
    <3>1. Settled(ses.fsm, ses')
      BY <1>0, <1>13, <2>3, DroppedInput DEF ForwardUpdate
    <3>q. QED BY <1>0, <2>1, <3>1, SettledKept
  <2>q. QED BY <2>2, <2>3
<1>14. CASE DaemonQueuesUpdate
  <2>1. queued' \in 0 .. MaxQueued
    BY <1>0, <1>14 DEF DaemonQueuesUpdate
  <2>q. QED BY <1>0, <1>14, <2>1, SessionUnchanged DEF DaemonQueuesUpdate
<1>15. CASE DaemonTakesEvent
  <2>1. view' \in BOOLEAN
    BY <1>0, <1>15 DEF DaemonTakesEvent, SessionType
  <2>q. QED BY <1>0, <1>15, <2>1, SessionUnchanged DEF DaemonTakesEvent
<1>16. CASE UNCHANGED vars
  BY <1>0, <1>16, SessionUnchanged DEF vars
<1>q. QED
  BY SMTT(30), ZenonT(30), <1>1, <1>2, <1>3, <1>4, <1>5, <1>6, <1>7, <1>8, <1>9, <1>10, <1>11, <1>12, <1>13,
     <1>14, <1>15, <1>16 DEF Next

\* spawn() establishes the inductive invariant.
LEMMA InitInv == Init => IInv
<1> SUFFICES ASSUME Init PROVE IInv
  OBVIOUS
<1>1. PICK caps \in CapSets : ses = NewSession(caps)
  BY DEF Init
<1>2. NewFsm(caps) \in FsmType /\ NewFsm(caps).state = "Idle"
  BY SMTT(30), ZenonT(30), HoldTimes DEF NewFsm, FsmType, State
<1>3. ses \in SessionType
  BY SMTT(30), ZenonT(30), <1>1, <1>2 DEF NewSession, SessionType, TerminationReason
<1>4. /\ ses.fsm = NewFsm(caps) /\ ~ses.retry /\ ses.transport = None
      /\ ~ses.connecting /\ ses.candidate = None /\ ~ses.deadline
  BY SMTT(30), ZenonT(30), <1>1 DEF NewSession
<1>5. Good(ses) /\ CandidateIn(ses)
  BY <1>2, <1>4 DEF Good, SupervisedIn, HandshakeIn, ConnectionsIn, CandidateIn
<1>6. view \in BOOLEAN
  BY Zenon DEF Init
<1>7. queued \in 0 .. MaxQueued /\ starts \in 0 .. MaxStarts
  <2>1. queued = 0 /\ starts = 0
    BY DEF Init
  <2>q. QED BY <2>1, BoundsAssumption
<1>q. QED BY <1>3, <1>5, <1>6, <1>7 DEF IInv, TypeOK

-----------------------------------------------------------------------------
(* Theorems.                                                               *)

\* The inductive invariant holds in every reachable state.
LEMMA Invariance == Spec => []IInv
<1>1. Init => IInv
  BY InitInv
<1>2. IInv /\ [Next]_vars => IInv'
  BY NextInv DEF Kept
<1>q. QED BY <1>1, <1>2, PTL DEF Spec

\* Type correctness of struct Session, for every set of OPENs and addresses.
THEOREM TypeCorrect == Spec => []TypeOK
<1>1. IInv => TypeOK
  BY DEF IInv
<1>q. QED BY <1>1, Invariance, PTL

\* Whatever races, fails and expires, a session outside Idle waits under a
\* timer that ends the wait, and a session without hold time is never under
\* one (execute() abandons the outputs after a failed write).
THEOREM AlwaysSupervised == Spec => []Supervised
<1>1. IInv => Supervised
  BY DEF IInv, Good, Supervised
<1>q. QED BY <1>1, Invariance, PTL

\* No session gets past OpenSent without a validated OPEN and its negotiated
\* hold time, none is Established without a connection (on_open_sent,
\* on_open_confirm, try_resolve_pending_candidate).
THEOREM HandshakeAlwaysSound == Spec => []HandshakeSound
<1>1. IInv => HandshakeSound
  BY DEF IInv, Good, HandshakeSound
<1>q. QED BY <1>1, Invariance, PTL

\* A connection we dialled never shares the session with a dial in progress,
\* and a dial is in progress only in Connect or behind an accepted connection
\* (handle_incoming_connection, on_connect, execute).
THEOREM ConnectionsAlwaysOwned == Spec => []Connections
<1>1. IInv => Connections
  BY DEF IInv, Good, Connections
<1>q. QED BY <1>1, Invariance, PTL

\* A staged inbound connection is under its deadline until its OPEN is
\* accepted; an accepted one only waits for the OPEN on the connection we
\* dialled on the same local address (handle_incoming_connection,
\* handle_collision_candidate_message, try_resolve_pending_candidate).
THEOREM CandidateAlwaysHeld == Spec => []CandidateHeld
<1>1. IInv => CandidateHeld
  BY DEF IInv, CandidateHeld
<1>q. QED BY <1>1, Invariance, PTL

\* The phase and the identity that the contract sees are those of the FSM.
LEMMA ContractView ==
  /\ Phase = PhaseOf(ses.fsm) /\ PeerIdentity = PeerOf(ses.fsm)
  /\ Phase' = PhaseOf(ses'.fsm) /\ PeerIdentity' = PeerOf(ses'.fsm)
BY Zenon DEF Phase, PeerIdentity, PhaseOf, PeerOf

\* A new session is down and knows nobody.
LEMMA ContractInit == Init => Contract!Init
<1> SUFFICES ASSUME Init PROVE Contract!Init
  OBVIOUS
<1>1. PICK caps \in CapSets : ses = NewSession(caps)
  BY DEF Init
<1>2. ses.fsm.state = "Idle"
  BY <1>1 DEF NewSession, NewFsm
<1>q. QED BY <1>2 DEF Contract!Init, Phase, PeerIdentity

\* Every step of the session is a step of the contract, or none.
LEMMA ContractStep == Kept => [Contract!Next]_(Contract!cvars)
<1> SUFFICES ASSUME Kept PROVE [Contract!Next]_(Contract!cvars)
  OBVIOUS
<1>1. PICK p, i, q, j : /\ p = PhaseOf(ses.fsm) /\ i = PeerOf(ses.fsm)
                        /\ q = PhaseOf(ses'.fsm) /\ j = PeerOf(ses'.fsm)
  OBVIOUS
<1>2. Phase = p /\ PeerIdentity = i /\ Phase' = q /\ PeerIdentity' = j
  BY <1>1, ContractView
<1>3. p = "Down" => i = None
  BY <1>1 DEF PhaseOf, PeerOf
<1>4. CASE q = p /\ j = i
  BY <1>2, <1>4 DEF Contract!cvars
<1>5. CASE q = "Down" /\ j = None
  BY <1>2, <1>3, <1>5 DEF Contract!cvars, Contract!Next, Contract!GoDown
<1>6. CASE p = "Down" /\ q = "Handshake" /\ j \in {open.bgp_id : open \in Opens} \cup {None}
  BY <1>2, <1>6 DEF Contract!Next, Contract!Begin
<1>7. CASE /\ p = "Handshake" /\ i = None /\ q = "Handshake"
           /\ j \in {open.bgp_id : open \in Opens}
  BY <1>2, <1>7 DEF Contract!Next, Contract!Learn
<1>8. CASE p = "Handshake" /\ i # None /\ q = "Up" /\ j = i
  BY <1>2, <1>8 DEF Contract!Next, Contract!Complete
<1>9. CASE p = "Up" /\ q = "Handshake" /\ j = i
  BY <1>2, <1>9 DEF Contract!Next, Contract!TakeOver
<1>q. QED BY <1>1, <1>4, <1>5, <1>6, <1>7, <1>8, <1>9 DEF Kept, Moves

\* The session task implements SessionContract, whatever OPENs a remote sends
\* and whichever connections race and fail: an identity, once accepted, is
\* never exchanged for another without the session going down in between
\* (on_open_sent, try_resolve_pending_candidate).
THEOREM ImplementsContract == Spec => KeepsContract
<1>1. IInv /\ [Next]_vars => [Contract!Next]_(Contract!cvars)
  BY NextInv, ContractStep
<1>q. QED BY <1>1, ContractInit, Invariance, PTL DEF Spec, KeepsContract, Contract!Spec
=============================================================================
