---------------------------- MODULE SessionContract ----------------------------
(***************************************************************************)
(* What one BGP session promises about the remote it talks to, whatever    *)
(* connections it opens, accepts, races and drops underneath:              *)
(*   - it comes up only out of a handshake in which the remote's identity  *)
(*     was learned;                                                        *)
(*   - an identity, once learned, stays until the session goes down: a     *)
(*     connection that takes the place of the current one (RFC 4271        *)
(*     section 6.8, RFC 4724 section 4.2) belongs to the same remote;      *)
(*   - a session that is up and is taken over by such a connection goes    *)
(*     back to its handshake, it does not stay up.                         *)
(***************************************************************************)
CONSTANTS Ids, NoId

VARIABLES phase, peer

cvars == <<phase, peer>>

Init == phase = "Down" /\ peer = NoId

\* A connection is there and our OPEN goes out; a connection accepted with
\* its OPEN already read brings the identity along.
Begin == phase = "Down" /\ phase' = "Handshake" /\ peer' \in Ids \cup {NoId}

\* The remote's OPEN is accepted.
Learn == phase = "Handshake" /\ peer = NoId /\ peer' \in Ids /\ UNCHANGED phase

Complete == phase = "Handshake" /\ peer # NoId /\ phase' = "Up" /\ UNCHANGED peer

\* A reconnection of the same remote displaces the running session.
TakeOver == phase = "Up" /\ phase' = "Handshake" /\ UNCHANGED peer

GoDown == phase # "Down" /\ phase' = "Down" /\ peer' = NoId

Next == Begin \/ Learn \/ Complete \/ TakeOver \/ GoDown

Spec == Init /\ [][Next]_cvars
=============================================================================
