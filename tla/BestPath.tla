------------------------------ MODULE BestPath ------------------------------
(***************************************************************************)
(* Best-path selection for one prefix (pathvector-rib, best_path.rs): the  *)
(* pairwise preference, the selection grouped by neighbouring AS that the  *)
(* code runs, and the elimination procedure of RFC 4271 section 9.1.2.2 it *)
(* is meant to compute.                                                    *)
(*                                                                         *)
(* A candidate is a record                                                 *)
(*   [src |-> the peer it was learned from or Local, stale, pref, path,    *)
(*    origin, med, nh, age]                                                *)
(* where pref and med may be None. igp is what the next-hop oracle         *)
(* answers: igp[nh] is the metric of the route to nh, None when there is   *)
(* none.                                                                   *)
(***************************************************************************)
EXTENDS AsPath

CONSTANTS Peers,      \* configured neighbours
          Local,      \* the source of originated routes
          PeerType,   \* PeerType[p]: "Internal", "External" or "ConfedMember"
          BgpId,      \* BgpId[p]: the BGP identifier of the session
          Address     \* Address[p]: the peer's address; Local's is the lowest

ASSUME BestPathAssumption ==
  /\ Local \notin Peers
  /\ PeerType \in [Peers -> {"Internal", "External", "ConfedMember"}]
  /\ BgpId \in [Peers -> Nat]
  /\ Address \in [Peers \cup {Local} -> Nat]
  /\ \A p, q \in Peers \cup {Local} : Address[p] = Address[q] => p = q

OrElse(opt, default) == IF opt = None THEN default ELSE opt

\* peer_type_rank
Rank(src) ==
  IF src = Local THEN 2 ELSE IF PeerType[src] = "External" THEN 1 ELSE 0

Bit(b) == IF b THEN 1 ELSE 0

\* MEDs are compared only between routes of one neighbouring AS.
SameNeighbor(a, b) ==
  NeighboringAs(a.path) # None /\ NeighboringAs(a.path) = NeighboringAs(b.path)

\* What each step of prefer says of a against b: positive when a wins.
Steps(a, b, igp) ==
  << Bit(b.stale) - Bit(a.stale),
     OrElse(a.pref, 100) - OrElse(b.pref, 100),
     PathLength(b.path) - PathLength(a.path),
     b.origin - a.origin,
     IF SameNeighbor(a, b) THEN OrElse(b.med, 0) - OrElse(a.med, 0) ELSE 0,
     Rank(a.src) - Rank(b.src),
     IF igp[a.nh] = None \/ igp[b.nh] = None THEN 0 ELSE igp[b.nh] - igp[a.nh],
     IF Rank(a.src) = 1 THEN b.age - a.age ELSE 0,
     IF Local \in {a.src, b.src} THEN 0 ELSE BgpId[b.src] - BgpId[a.src],
     Address[b.src] - Address[a.src] >>

\* prefer(a, b) = Ordering::Greater: the first step that tells a and b apart
\* decides.
Prefer(a, b, igp) ==
  LET s == Steps(a, b, igp)
  IN  \E i \in DOMAIN s : s[i] > 0 /\ \A j \in 1..(i - 1) : s[j] = 0

\* max_by over a hash map meets the candidates in no fixed order. One that is
\* preferred to all the others wins in every order; when there is none the
\* order decides among those that are preferred to some other.
MaxBy(S, igp) ==
  LET first == {a \in S : \A b \in S \ {a} : Prefer(a, b, igp)}
  IN  IF first # {} THEN first ELSE {a \in S : \E b \in S : Prefer(a, b, igp)}

Reachable(S, igp) == {r \in S : igp[r.nh] # None}

\* The ways to pick one member of every set of the set SS.
Picks(SS) == {T \in SUBSET UNION SS : \A S \in SS : Cardinality(T \cap S) = 1}

\* Mutant: one max_by over all candidates.
SelectBestFlat(S, igp) ==
  IF Reachable(S, igp) = {} THEN {None} ELSE MaxBy(Reachable(S, igp), igp)

\* select_best_with_oracle: the winners of the groups by neighbouring AS are
\* compared with each other. The set of results the code can return; None
\* when no next hop is reachable.
SelectBest(S, igp) ==
  LET reachable == Reachable(S, igp)
      groups    == {{r \in reachable : NeighboringAs(r.path) = NeighboringAs(s.path)} : s \in reachable}
      winners   == Picks({MaxBy(g, igp) : g \in groups})
  IN  IF reachable = {} THEN {None} ELSE UNION {MaxBy(w, igp) : w \in winners}

(***************************************************************************)
(* RFC 4271 section 9.1.2.2, as a procedure that eliminates candidates.    *)
(***************************************************************************)

\* The candidates of S no other one of S beats.
Unbeaten(S, Beats(_, _)) == {a \in S : \A b \in S : ~Beats(b, a)}

MostPreferred(S, igp) ==
  LET fresh   == Unbeaten(Reachable(S, igp), LAMBDA a, b : ~a.stale /\ b.stale)
      liked   == Unbeaten(fresh, LAMBDA a, b : OrElse(a.pref, 100) > OrElse(b.pref, 100))
      short   == Unbeaten(liked, LAMBDA a, b : PathLength(a.path) < PathLength(b.path))
      origin  == Unbeaten(short, LAMBDA a, b : a.origin < b.origin)
      med     == Unbeaten(origin, LAMBDA a, b :
                   SameNeighbor(a, b) /\ OrElse(a.med, 0) < OrElse(b.med, 0))
      outer   == Unbeaten(med, LAMBDA a, b : Rank(a.src) > Rank(b.src))
      near    == Unbeaten(outer, LAMBDA a, b : igp[a.nh] < igp[b.nh])
      old     == Unbeaten(near, LAMBDA a, b : Rank(a.src) = 1 /\ a.age < b.age)
      id      == Unbeaten(old, LAMBDA a, b :
                   Local \notin {a.src, b.src} /\ BgpId[a.src] < BgpId[b.src])
  IN  Unbeaten(id, LAMBDA a, b : Address[a.src] < Address[b.src])
=============================================================================
