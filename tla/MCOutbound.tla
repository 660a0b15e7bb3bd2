----------------------------- MODULE MCOutbound -----------------------------
(***************************************************************************)
(* Instances of Outbound for TLC: an external peer that reads two-octet AS *)
(* numbers only, and a member of our confederation.                        *)
(***************************************************************************)
EXTENDS Outbound

CONSTANTS p1, p2, x, y, h

MCPeerType == [p \in Peers |-> IF p = p1 THEN "External" ELSE "ConfedMember"]
MCRole == [p \in Peers |-> IF p = p1 THEN "Peer" ELSE None]
MCNoRole == [p \in Peers |-> None]
MCAsn == [p \in Peers |-> IF p = p1 THEN 1 ELSE 70000]

Seg(kind, asns) == [kind |-> kind, asns |-> asns]

\* An external peer's path, and one that entered through another member AS.
Paths(p) ==
  CASE p = Local -> <<>>
    [] p = p1    -> <<Seg("Sequence", <<1>>)>>
    [] OTHER     -> <<Seg("ConfedSequence", <<70000>>), Seg("Sequence", <<80000, 2>>)>>

\* Routes of our own stay inside the confederation.
Ann(p, rest) ==
  [path |-> Paths(p), nh |-> h, pref |-> 200, med |-> 5, otc |-> None,
   comms |-> IF p = Local THEN {"NO_EXPORT"} ELSE {}, rr |-> FALSE, rest |-> rest, tag |-> 0]

\* p1 announces the one prefix and we originate the other; p2 has both.
MCOne == [p \in Peers \cup {Local} |-> [n \in Nlris |->
            IF <<p, n>> \in {<<p1, y>>, <<Local, x>>} THEN {} ELSE {Ann(p, 0)}]]
MCTwo == [p \in Peers \cup {Local} |-> [n \in Nlris |-> {Ann(p, 0), Ann(p, 1)}]]
=============================================================================
