------------------------------- MODULE MCRib -------------------------------
(***************************************************************************)
(* Instances of Rib for TLC: two peers in AS 1, which send MEDs, one in    *)
(* AS 2, and a reflector of our own cluster that sends back what it got    *)
(* from us. We are AS 9 and member of the confederation 8.                 *)
(***************************************************************************)
EXTENDS Rib, TLC

CONSTANTS p1, p2, p3, p4, h1, h2

MCPeerType == [p \in Peers |-> IF p = p4 THEN "Internal" ELSE "External"]
MCBgpId == (p1 :> 3) @@ (p2 :> 1) @@ (p3 :> 2) @@ (p4 :> 4)
MCAddress == (Local :> 0) @@ (p1 :> 3) @@ (p2 :> 2) @@ (p3 :> 1) @@ (p4 :> 4)

Seg(kind, asns) == [kind |-> kind, asns |-> asns]
Via(as) == <<Seg("Sequence", <<as>>)>>

Ann(path, med, h) ==
  [pref |-> None, path |-> path, origin |-> 0, med |-> med, nh |-> h,
   hole |-> FALSE, marks |-> {}]

\* p2 announces a path that starts with a confederation segment and, in
\* another announcement, one that has been through our own AS.
MCAnnouncements ==
  (p1 :> {Ann(Via(1), 1, h1)})
  @@ (p2 :> {Ann(Via(1), None, h2), [Ann(Via(1), 1, h2) EXCEPT !.hole = TRUE],
             [Ann(Via(1), 1, h2) EXCEPT !.marks = {"hop"}],
             Ann(<<Seg("ConfedSequence", <<9>>)>> \o Via(1), 1, h2),
             Ann(<<Seg("Sequence", <<1, 9>>)>>, 1, h2)})
  @@ (p3 :> {Ann(Via(2), None, h1)})
  @@ (p4 :> {[Ann(Via(2), None, h1) EXCEPT !.marks = {m}] : m \in {"reflected", "missing"}})
  @@ (Local :> {Ann(<<>>, None, h1)})

MCAges == [p \in Peers \cup {Local} |-> IF p = p1 THEN {0} ELSE {1}]

\* A default route, and one to the second next hop alone.
MCKernelRoutes ==
  {[net |-> 0, len |-> 0, metric |-> 1, covers |-> {h1, h2}],
   [net |-> 2, len |-> 1, metric |-> 2, covers |-> {h2}]}
=============================================================================
