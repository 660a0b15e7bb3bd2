------------------------------- MODULE MCPeers -------------------------------
(* An instance of Peers for TLC. p1 restarts gracefully, with routes of both   *)
(* families and every fate; p2 may have no route at all, so that it is held    *)
(* idle, and waits at the gate together with p3; p4 is removed and added again. *)
EXTENDS Peers

CONSTANTS p1, p2, p3, p4, x, y

Cap(gr, time, fams, n, r, v6) ==
  [gr |-> gr, time |-> time, families |-> fams, n |-> n, r |-> r, v6 |-> v6]

MCActors ==
  [p \in Peers |-> CASE p = p1 -> {1} [] p = p2 -> {2} [] p = p3 -> {3} [] p = p4 -> {4, 5}]
MCOffers ==
  [p \in Peers |->
     CASE p = p1 -> {Cap(TRUE, TRUE, {"v4", "v6"}, TRUE, FALSE, TRUE),
                     Cap(TRUE, TRUE, {"v4"}, FALSE, TRUE, TRUE)}
       [] p = p2 -> {Cap(TRUE, FALSE, {}, FALSE, FALSE, FALSE)}
       [] p = p3 -> {Cap(TRUE, FALSE, {}, FALSE, FALSE, TRUE)}
       [] p = p4 -> {Cap(TRUE, TRUE, {"v4"}, FALSE, FALSE, FALSE)}]
MCAnnounces ==
  [p \in Peers |-> CASE p = p1 -> {x, y} [] p = p3 -> {} [] OTHER -> {x}]
MCHow == [p \in Peers |-> IF p = p1 THEN Fates ELSE {"accepted"}]
MCLimit == [p \in Peers |-> [f \in Family |-> IF p = p2 THEN 0 ELSE None]]
=============================================================================
