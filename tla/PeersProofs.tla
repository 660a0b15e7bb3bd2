---------------------------- MODULE PeersProofs -----------------------------
(***************************************************************************)
(* Proofs about Peers, for any neighbours, actors, capabilities, prefixes  *)
(* and limits: the restart deadline runs only while its peer is down,      *)
(* every route of a peer is accounted for, an established peer has had one *)
(* table dump of every released family, what End-of-RIB prunes is what is  *)
(* left from before the restart, and it completes the restart of its       *)
(* family.                                                                 *)
(***************************************************************************)
EXTENDS Peers, TLAPS

LocMarks == {None, "fresh", "mp", "stale"}

PeerRecord ==
  [configured : BOOLEAN, pending : BOOLEAN, up : BOOLEAN, cap : Capabilities,
   families : SUBSET Family, nbit : BOOLEAN, eor : SUBSET Family, adj : SUBSET Nlris,
   loc : [Nlris -> LocMarks], stale : SUBSET Nlris, armed : BOOLEAN, idle : BOOLEAN,
   dumped : [Family -> Nat], left : SUBSET Nlris, orphan : SUBSET Nlris,
   shared : BOOLEAN, lost : BOOLEAN]

\* What holds of the daemon's record of one address.
Sound(d) ==
  /\ d.armed => d.configured /\ ~d.up
  /\ d.cap.time => d.configured
  /\ d.configured => \A n \in Nlris : d.loc[n] # None => n \in d.adj \cup d.left
  /\ ~d.configured =>
       /\ ~d.pending /\ ~d.armed /\ ~d.idle /\ ~d.nbit
       /\ d.adj = {} /\ d.stale = {} /\ d.families = {}
       /\ \A n \in Nlris : d.loc[n] # None => n \in d.orphan

\* Someone answers for the record: live says whether an actor does.
Covers(d, live) ==
  /\ d.up => live
  /\ d.configured => d.armed \/ live \/ \A n \in Nlris : d.loc[n] # None => n \in d.orphan

\* It has had one dump of the families of rel.
Served(d, rel) ==
  d.configured /\ d.up /\ ~d.shared =>
    \A f \in Family : d.dumped[f] = IF f \in rel /\ (f = "v6" => d.cap.v6) THEN 1 ELSE 0

Live(acts, p) == \E a \in Actors[p] : acts[a].link \in {"up", "ended", "stopping"}

ActorRecord ==
  [link : {"none", "idle", "up", "ended", "stopping", "stopped"},
   cmd : {None, "Stop", "Notification"}]

Good(ds, rel, acts) ==
  /\ ds \in [Peers -> PeerRecord]
  /\ \A p \in Peers : Sound(ds[p]) /\ Covers(ds[p], Live(acts, p)) /\ Served(ds[p], rel)

IInv ==
  /\ Good(peer, released, actor)
  /\ released \subseteq Family
  /\ rejected \subseteq Peers
  /\ actor \in [Actor -> ActorRecord]

-----------------------------------------------------------------------------
(* Dumps.                                                                  *)

\* d with other counts of dumps.
LEMMA Redumped ==
  ASSUME NEW d \in PeerRecord, NEW k \in [Family -> Nat]
  PROVE  /\ [d EXCEPT !.dumped = k] \in PeerRecord
         /\ [d EXCEPT !.dumped = k].dumped = k
         /\ Sound(d) => Sound([d EXCEPT !.dumped = k])
         /\ \A live : Covers(d, live) => Covers([d EXCEPT !.dumped = k], live)
<1> DEFINE e == [d EXCEPT !.dumped = k]
<1>1. e \in PeerRecord /\ e.dumped = k
  BY DEF PeerRecord
<1>2. /\ e.configured = d.configured /\ e.pending = d.pending /\ e.up = d.up
      /\ e.cap = d.cap /\ e.families = d.families /\ e.nbit = d.nbit
      /\ e.adj = d.adj /\ e.loc = d.loc /\ e.stale = d.stale /\ e.armed = d.armed
      /\ e.idle = d.idle /\ e.left = d.left /\ e.orphan = d.orphan
  BY DEF PeerRecord
<1> HIDE DEF e
<1>3. Sound(d) => Sound(e)
  BY <1>2 DEF Sound
<1>4. \A live : Covers(d, live) => Covers(e, live)
  BY <1>2 DEF Covers
<1>q. QED BY <1>1, <1>3, <1>4 DEF e

\* The counts of d after a dump of the families fs.
Counts(d, fs) ==
  [f \in Family |->
     IF f \in fs /\ d.configured /\ d.up /\ (f = "v6" => d.cap.v6)
     THEN d.dumped[f] + 1 ELSE d.dumped[f]]

LEMMA OneDumpCounts ==
  ASSUME NEW d \in PeerRecord, NEW f \in Family
  PROVE  Dump(d, f) = [d EXCEPT !.dumped = Counts(d, {f})] /\ Dump(d, f) \in PeerRecord
<1> DEFINE e == [d EXCEPT !.dumped = Counts(d, {f})]
<1>1. Counts(d, {f}) \in [Family -> Nat]
  BY DEF Counts, PeerRecord
<1>2. CASE d.configured /\ d.up /\ (f = "v6" => d.cap.v6)
  <2>1. Counts(d, {f}) = [d.dumped EXCEPT ![f] = @ + 1]
    BY <1>2 DEF Counts, PeerRecord
  <2>2. Dump(d, f) = [d EXCEPT !.dumped = [d.dumped EXCEPT ![f] = @ + 1]]
    BY <1>2 DEF Dump, PeerRecord
  <2>q. QED BY <2>1, <2>2, <1>1, Redumped
<1>3. CASE ~(d.configured /\ d.up /\ (f = "v6" => d.cap.v6))
  <2>1. Counts(d, {f}) = d.dumped
    BY <1>3 DEF Counts, PeerRecord
  <2>2. d = [d EXCEPT !.dumped = d.dumped]
    BY DEF PeerRecord
  <2>3. Dump(d, f) = d
    BY <1>3 DEF Dump
  <2>q. QED BY <2>1, <2>2, <2>3
<1>q. QED BY <1>2, <1>3

LEMMA DumpAllCounts ==
  ASSUME NEW d \in PeerRecord, NEW fs
  PROVE  DumpAll(d, fs) = [d EXCEPT !.dumped = Counts(d, fs)]
<1>0. d.dumped \in [Family -> Nat] /\ Family = {"v4", "v6"}
  BY DEF PeerRecord, Family
<1> DEFINE e == IF "v4" \in fs THEN Dump(d, "v4") ELSE d
           k == IF "v4" \in fs THEN Counts(d, {"v4"}) ELSE d.dumped
<1>1. k \in [Family -> Nat]
  BY <1>0 DEF Counts
<1>2. e = [d EXCEPT !.dumped = k] /\ e \in PeerRecord
  <2>1. d = [d EXCEPT !.dumped = d.dumped]
    BY DEF PeerRecord
  <2>q. QED BY <2>1, <1>0, OneDumpCounts, Zenon
<1>3. /\ e.dumped = k /\ e.configured = d.configured /\ e.up = d.up /\ e.cap = d.cap
  BY <1>1, <1>2 DEF PeerRecord
<1> HIDE DEF e
<1>4. CASE "v6" \in fs
  <2>1. DumpAll(d, fs) = [e EXCEPT !.dumped = Counts(e, {"v6"})]
    BY <1>0, <1>2, <1>4, OneDumpCounts, Zenon DEF DumpAll, e
  <2>2. Counts(e, {"v6"}) = Counts(d, fs)
    BY <1>0, <1>3, <1>4 DEF Counts
  <2>3. \A j : [[d EXCEPT !.dumped = k] EXCEPT !.dumped = j] = [d EXCEPT !.dumped = j]
    BY Zenon DEF PeerRecord
  <2>q. QED BY <1>2, <2>1, <2>2, <2>3, Zenon
<1>5. CASE "v6" \notin fs
  <2>1. k = Counts(d, fs)
    BY <1>0, <1>5 DEF Counts
  <2>q. QED BY <1>2, <1>5, <2>1 DEF DumpAll, e
<1>q. QED BY <1>4, <1>5

\* A dump of the families that were not released yet serves the record.
LEMMA DumpAllServes ==
  ASSUME NEW d \in PeerRecord, Sound(d), NEW live, Covers(d, live), NEW fs, NEW rel
  PROVE  /\ DumpAll(d, fs) \in PeerRecord
         /\ Sound(DumpAll(d, fs))
         /\ Covers(DumpAll(d, fs), live)
         /\ Served(d, rel) => Served(DumpAll(d, fs \ rel), rel \cup fs)
<1>1. \A gs : Counts(d, gs) \in [Family -> Nat]
  BY DEF Counts, PeerRecord
<1>2. DumpAll(d, fs) \in PeerRecord /\ Sound(DumpAll(d, fs)) /\ Covers(DumpAll(d, fs), live)
  BY <1>1, DumpAllCounts, Redumped
<1>3. ASSUME Served(d, rel) PROVE Served(DumpAll(d, fs \ rel), rel \cup fs)
  <2> DEFINE k == Counts(d, fs \ rel)
             e == [d EXCEPT !.dumped = k]
  <2>1. e = DumpAll(d, fs \ rel)
    BY DumpAllCounts
  <2>2. /\ e.configured = d.configured /\ e.up = d.up /\ e.cap = d.cap
        /\ e.shared = d.shared /\ e.dumped = k
    BY <1>1 DEF PeerRecord
  <2> HIDE DEF e
  <2>3. Served(e, rel \cup fs)
    BY <1>3, <2>2, SMTT(40), ZenonT(40) DEF Served, Counts
  <2>q. QED BY <2>1, <2>3
<1>q. QED BY <1>2, <1>3

-----------------------------------------------------------------------------
(* Sessions.                                                               *)

LEMMA AbsentFields ==
  /\ Absent \in PeerRecord
  /\ Absent.dumped = [f \in Family |-> 0] /\ Absent.loc = [n \in Nlris |-> None]
  /\ ~Absent.configured /\ ~Absent.pending /\ ~Absent.up /\ Absent.cap = NoCapabilities
  /\ Absent.families = {} /\ ~Absent.nbit /\ Absent.adj = {} /\ Absent.stale = {}
  /\ ~Absent.armed /\ ~Absent.idle /\ Absent.left = {} /\ Absent.orphan = {}
  /\ NoCapabilities \in Capabilities /\ ~NoCapabilities.time
BY DEF Absent, PeerRecord, NoCapabilities, Capabilities, LocMarks

\* The record once the session is up and before the peer's capabilities are
\* looked at.
Opened(d) ==
  LET adj == IF "v6" \in Covered(d) THEN d.adj ELSE d.adj \ V6
  IN  [Resumed(d) EXCEPT
         !.eor = {}, !.up = TRUE, !.adj = adj, !.dumped = Absent.dumped,
         !.left = {n \in Nlris : d.loc[n] # None /\ (n \in @ \/ n \notin adj)}]

LEMMA OpenedSound ==
  ASSUME NEW d \in PeerRecord, Sound(d)
  PROVE  /\ Opened(d) \in PeerRecord /\ Sound(Opened(d))
         /\ Opened(d).up /\ Opened(d).configured = d.configured
         /\ Opened(d).dumped = [f \in Family |-> 0] /\ ~Opened(d).armed
<1> DEFINE adj == IF "v6" \in Covered(d) THEN d.adj ELSE d.adj \ V6
           left == {n \in Nlris : d.loc[n] # None /\ (n \in d.left \/ n \notin adj)}
           r == Resumed(d)
           e == Opened(d)
<1>1. d.adj \subseteq Nlris /\ d.stale \subseteq Nlris
  BY DEF PeerRecord
<1>2. Listed(d) \subseteq Nlris /\ (d.adj = {} /\ d.stale = {} => Listed(d) = {})
  BY <1>1 DEF Listed, HeldRoutes
<1>3. r \in PeerRecord /\ r.left = d.left /\ r.stale = Listed(d) /\ r.armed = FALSE
  BY <1>2, Zenon DEF Resumed, PeerRecord
<1>4. /\ r.configured = d.configured /\ r.pending = d.pending /\ r.cap = d.cap
      /\ r.families = d.families /\ r.nbit = d.nbit /\ r.loc = d.loc /\ r.idle = d.idle
      /\ r.orphan = d.orphan
  BY <1>2 DEF Resumed, PeerRecord
<1>5. adj \subseteq Nlris /\ left \subseteq Nlris /\ adj \subseteq d.adj
  BY <1>1
<1>6. Absent.dumped \in [Family -> Nat]
  BY AbsentFields DEF PeerRecord
<1>7. e = [r EXCEPT !.eor = {}, !.up = TRUE, !.adj = adj, !.dumped = Absent.dumped, !.left = left]
  BY <1>3 DEF Opened, PeerRecord
<1> HIDE DEF r, adj, left, e
<1>8. /\ e \in PeerRecord /\ e.up = TRUE /\ e.adj = adj /\ e.left = left
      /\ e.dumped = Absent.dumped /\ e.armed = r.armed /\ e.stale = r.stale
      /\ e.configured = r.configured /\ e.pending = r.pending /\ e.cap = r.cap
      /\ e.families = r.families /\ e.nbit = r.nbit /\ e.loc = r.loc /\ e.idle = r.idle
      /\ e.orphan = r.orphan
  BY ONLY <1>3, <1>5, <1>6, <1>7, Zenon DEF PeerRecord
<1>9. \A n \in Nlris : d.configured /\ d.loc[n] # None => n \in adj \cup left
  BY DEF left
<1>10. Sound(e)
  BY <1>2, <1>3, <1>4, <1>5, <1>8, <1>9 DEF Sound
<1>q. QED BY <1>3, <1>4, <1>8, <1>10, AbsentFields DEF e

\* on_established leaves a sound record that has its dumps.
LEMMA EstablishedSound ==
  ASSUME NEW d \in PeerRecord, Sound(d), NEW c \in Capabilities
  PROVE  /\ OnEstablished(d, c) \in PeerRecord /\ Sound(OnEstablished(d, c))
         /\ Served(OnEstablished(d, c), released)
         /\ Covers(OnEstablished(d, c), TRUE)
<1> DEFINE o == Opened(d)
           b == [o EXCEPT !.cap = c]
           k == Counts(b, released)
           fams == IF c.time THEN c.families ELSE {}
           n == c.time /\ c.n
           e == [b EXCEPT !.dumped = k]
           g == [e EXCEPT !.families = fams, !.nbit = n]
<1>1. /\ o \in PeerRecord /\ Sound(o) /\ o.up /\ o.configured = d.configured
      /\ o.dumped = [f \in Family |-> 0] /\ ~o.armed
  BY OpenedSound
<1>2. CASE ~d.configured
  <2>1. OnEstablished(d, c) = o
    BY <1>2 DEF OnEstablished, Opened
  <2> HIDE DEF o
  <2>q. QED BY <1>1, <1>2, <2>1 DEF Served, Covers
<1>3. CASE d.configured
  <2>1. /\ b \in PeerRecord /\ b.cap = c /\ b.up = o.up /\ b.configured = o.configured
        /\ b.dumped = o.dumped /\ b.armed = o.armed /\ b.loc = o.loc /\ b.adj = o.adj
        /\ b.left = o.left
    BY <1>1, Zenon DEF PeerRecord
  <2>2. OnEstablished(d, c) = g
    <3>1. DumpAll(b, released) = e
      BY <2>1, DumpAllCounts, Zenon
    <3>2. OnEstablished(d, c) = [DumpAll(b, released) EXCEPT !.families = fams, !.nbit = n]
      BY <1>3 DEF OnEstablished, Opened
    <3>q. QED BY <3>1, <3>2, Zenon
  <2> HIDE DEF o, b
  <2>3. k \in [Family -> Nat]
    BY <2>1 DEF Counts, PeerRecord
  <2>4. /\ e \in PeerRecord /\ e.dumped = k /\ e.cap = b.cap /\ e.up = b.up
        /\ e.configured = b.configured /\ e.armed = b.armed /\ e.loc = b.loc
        /\ e.adj = b.adj /\ e.left = b.left
    BY <2>1, <2>3, SMTT(40) DEF PeerRecord
  <2>5. fams \in SUBSET Family /\ n \in BOOLEAN
    BY DEF Capabilities
  <2> HIDE DEF e, fams, n
  <2>6. /\ g \in PeerRecord /\ g.dumped = k /\ g.cap = c /\ g.up = TRUE
        /\ g.configured = TRUE /\ g.armed = FALSE /\ g.loc = o.loc
        /\ g.adj = o.adj /\ g.left = o.left
    BY <1>1, <1>3, <2>1, <2>4, <2>5, ZenonT(40) DEF PeerRecord
  <2> HIDE DEF g
  <2>7. Sound(g)
    BY <1>1, <1>3, <2>6 DEF Sound
  <2>8. Served(g, released)
    BY <1>1, <1>3, <2>1, <2>6 DEF Served, Counts
  <2>9. Covers(g, TRUE)
    BY DEF Covers
  <2>q. QED BY <2>2, <2>6, <2>7, <2>8, <2>9, Zenon
<1>q. QED BY <1>2, <1>3, Zenon

\* on_terminated leaves a record that needs no session to answer for it.
Down(e) == e \in PeerRecord /\ Sound(e) /\ Covers(e, FALSE) /\ ~e.up

LEMMA DownServed == \A e, rel : Down(e) => Served(e, rel)
BY DEF Down, Served

LEMMA EndedFields ==
  ASSUME NEW d \in PeerRecord
  PROVE  /\ Ended(d) \in PeerRecord /\ ~Ended(d).pending /\ ~Ended(d).up
         /\ Ended(d).cap = NoCapabilities
         /\ Ended(d).configured = d.configured /\ Ended(d).families = d.families
         /\ Ended(d).nbit = d.nbit /\ Ended(d).adj = d.adj /\ Ended(d).loc = d.loc
         /\ Ended(d).stale = d.stale /\ Ended(d).armed = d.armed /\ Ended(d).idle = d.idle
         /\ Ended(d).left = d.left /\ Ended(d).orphan = d.orphan
<1>1. NoCapabilities \in Capabilities
  BY AbsentFields
<1>q. QED BY <1>1, ZenonT(40) DEF Ended, PeerRecord

LEMMA HeldDown ==
  ASSUME NEW d \in PeerRecord, Sound(d), d.configured
  PROVE  Down(Held(d)) /\ Held(d).configured
<1> DEFINE b == Ended(d)
           kept == {n \in d.adj : \E f \in d.families : n \in Of(f)}
           loc == [n \in Nlris |-> IF n \in kept THEN "stale" ELSE b.loc[n]]
           left == {n \in Nlris \ kept : d.loc[n] # None}
           orphan == b.orphan \ kept
           e == Held(d)
<1>1. b \in PeerRecord /\ b.loc = d.loc /\ b.cap = NoCapabilities /\ ~b.up /\ b.configured
  BY EndedFields
<1>2. kept \in SUBSET Nlris /\ left \in SUBSET Nlris /\ orphan \in SUBSET Nlris
  BY <1>1 DEF PeerRecord
<1>3. loc \in [Nlris -> LocMarks]
  BY <1>1 DEF PeerRecord, LocMarks
<1>4. e = [b EXCEPT !.armed = TRUE, !.adj = kept, !.loc = loc, !.left = left, !.orphan = orphan]
  BY <1>1 DEF Held, PeerRecord
<1>5. \A n \in Nlris : loc[n] # None => n \in kept \cup left
  BY <1>1
<1> HIDE DEF b, kept, loc, left, orphan, e
<1>6. /\ e \in PeerRecord /\ e.armed = TRUE /\ e.adj = kept /\ e.loc = loc /\ e.left = left
      /\ e.cap = b.cap /\ e.up = b.up /\ e.configured = b.configured
  BY ONLY <1>1, <1>2, <1>3, <1>4, ZenonT(40) DEF PeerRecord
<1>7. Sound(e)
  BY <1>1, <1>5, <1>6, AbsentFields DEF Sound
<1>q. QED BY <1>1, <1>6, <1>7 DEF Down, Covers, e

\* Nothing of the peer is left in the tables.
LEMMA FlushedFields ==
  ASSUME NEW d \in PeerRecord
  PROVE  /\ Flushed(d) \in PeerRecord /\ Flushed(d).loc = [n \in Nlris |-> None]
         /\ Flushed(d).adj = {} /\ Flushed(d).cap = d.cap /\ Flushed(d).up = d.up
         /\ Flushed(d).configured = d.configured /\ Flushed(d).armed = d.armed
         /\ Flushed(d).pending = d.pending /\ Flushed(d).idle = d.idle
         /\ Flushed(d).nbit = d.nbit /\ Flushed(d).stale = d.stale
         /\ Flushed(d).families = d.families /\ Flushed(d).dumped = d.dumped
         /\ Flushed(d).shared = d.shared
<1>1. Absent.loc \in [Nlris -> LocMarks] /\ Absent.loc = [n \in Nlris |-> None]
  BY AbsentFields DEF PeerRecord
<1>q. QED BY <1>1, Zenon DEF Flushed, PeerRecord

LEMMA FlushedDown ==
  ASSUME NEW d \in PeerRecord, Sound(d)
  PROVE  Down(Flushed(Ended(d))) /\ Flushed(Ended(d)).configured = d.configured
<1> DEFINE b == Ended(d)
           e == Flushed(b)
<1>1. /\ b \in PeerRecord /\ ~b.pending /\ ~b.up /\ b.cap = NoCapabilities
      /\ b.configured = d.configured /\ b.families = d.families /\ b.nbit = d.nbit
      /\ b.stale = d.stale /\ b.armed = d.armed /\ b.idle = d.idle
  BY EndedFields
<1> HIDE DEF b
<1>2. /\ e \in PeerRecord /\ e.loc = [n \in Nlris |-> None]
      /\ e.adj = {} /\ e.cap = b.cap /\ e.up = b.up
      /\ e.configured = b.configured /\ e.armed = b.armed /\ e.pending = b.pending
      /\ e.idle = b.idle /\ e.nbit = b.nbit /\ e.stale = b.stale /\ e.families = b.families
  BY <1>1, FlushedFields
<1> HIDE DEF e
<1>3. Sound(e)
  BY <1>1, <1>2, AbsentFields DEF Sound
<1>4. Down(e) /\ e.configured = d.configured
  BY <1>1, <1>2, <1>3 DEF Down, Covers
<1>q. QED BY <1>4 DEF e, b

LEMMA RemovedDown ==
  ASSUME NEW d \in PeerRecord
  PROVE  Down(Removed(d))
<1> DEFINE ns == {n \in Nlris : d.loc[n] # None}
           e == Removed(d)
<1>1. ns \in SUBSET Nlris /\ d.loc \in [Nlris -> LocMarks]
  BY DEF PeerRecord
<1>2. e = [Absent EXCEPT !.loc = d.loc, !.left = ns, !.orphan = ns]
  BY DEF Removed
<1> DEFINE z == Absent
<1>3. z \in PeerRecord /\ e = [z EXCEPT !.loc = d.loc, !.left = ns, !.orphan = ns]
  BY <1>2, AbsentFields
<1>4. \A n \in Nlris : d.loc[n] # None => n \in ns
  OBVIOUS
<1>5. /\ ~z.configured /\ ~z.pending /\ ~z.up /\ z.cap = NoCapabilities
      /\ z.families = {} /\ ~z.nbit /\ z.adj = {} /\ z.stale = {} /\ ~z.armed /\ ~z.idle
  BY AbsentFields
<1> HIDE DEF z, e, ns
<1>6. /\ e \in PeerRecord /\ e.loc = d.loc /\ e.orphan = ns
      /\ e.configured = z.configured /\ e.pending = z.pending /\ e.up = z.up
      /\ e.cap = z.cap /\ e.families = z.families /\ e.nbit = z.nbit /\ e.adj = z.adj
      /\ e.stale = z.stale /\ e.armed = z.armed /\ e.idle = z.idle
  BY ONLY <1>1, <1>3, Zenon DEF PeerRecord
<1>7. Sound(e) /\ Covers(e, FALSE) /\ ~e.up
  BY <1>4, <1>5, <1>6, AbsentFields DEF Sound, Covers
<1>q. QED BY <1>6, <1>7, Zenon DEF Down, e

LEMMA TerminatedDown ==
  ASSUME NEW d \in PeerRecord, Sound(d), NEW r
  PROVE  Down(OnTerminated(d, r))
<1>1. EntersGr(d, r) => d.configured
  BY DEF EntersGr, Sound
<1> DEFINE b == IF EntersGr(d, r) THEN Held(d) ELSE Flushed(Ended(d))
<1>2. Down(b)
  BY <1>1, HeldDown, FlushedDown
<1>3. OnTerminated(d, r) = IF d.pending THEN Removed(b) ELSE b
  BY DEF OnTerminated
<1> HIDE DEF b
<1>q. QED BY <1>2, <1>3, RemovedDown, Zenon DEF Down

-----------------------------------------------------------------------------
(* Routes and flags.                                                       *)

\* e is as good as d whoever answers for it.
Same(d, e) ==
  /\ e \in PeerRecord /\ Sound(e)
  /\ \A live : Covers(d, live) => Covers(e, live)
  /\ \A rel : Served(d, rel) => Served(e, rel)

\* e is as good as d while a session is up.
Routed(d, e) ==
  /\ e \in PeerRecord /\ Sound(e)
  /\ e.configured = d.configured
  /\ \A rel : Served(d, rel) => Served(e, rel)

LEMMA FlagSame ==
  ASSUME NEW d \in PeerRecord, Sound(d)
  PROVE  /\ \A x \in BOOLEAN : Same(d, [d EXCEPT !.lost = x])
         /\ d.configured => \A x \in BOOLEAN : Same(d, [d EXCEPT !.idle = x])
         /\ Same(d, [d EXCEPT !.idle = FALSE])
         /\ d.configured => Same(d, [d EXCEPT !.pending = TRUE])
<1>1. ASSUME NEW x \in BOOLEAN PROVE Same(d, [d EXCEPT !.lost = x])
  <2> DEFINE e == [d EXCEPT !.lost = x]
  <2>1. /\ e \in PeerRecord /\ e.configured = d.configured /\ e.pending = d.pending
        /\ e.up = d.up /\ e.cap = d.cap /\ e.families = d.families /\ e.nbit = d.nbit
        /\ e.adj = d.adj /\ e.loc = d.loc /\ e.stale = d.stale /\ e.armed = d.armed
        /\ e.idle = d.idle /\ e.left = d.left /\ e.orphan = d.orphan
        /\ e.dumped = d.dumped /\ e.shared = d.shared
    BY DEF PeerRecord
  <2> HIDE DEF e
  <2>2. Sound(e) /\ (\A live : Covers(d, live) => Covers(e, live))
    BY <2>1 DEF Sound, Covers
  <2>3. \A rel : Served(d, rel) => Served(e, rel)
    BY <2>1 DEF Served
  <2>q. QED BY <2>1, <2>2, <2>3 DEF Same, e
<1>2. ASSUME NEW x \in BOOLEAN, d.configured \/ ~x PROVE Same(d, [d EXCEPT !.idle = x])
  <2> DEFINE e == [d EXCEPT !.idle = x]
  <2>1. /\ e \in PeerRecord /\ e.configured = d.configured /\ e.pending = d.pending
        /\ e.up = d.up /\ e.cap = d.cap /\ e.families = d.families /\ e.nbit = d.nbit
        /\ e.adj = d.adj /\ e.loc = d.loc /\ e.stale = d.stale /\ e.armed = d.armed
        /\ e.idle = x /\ e.left = d.left /\ e.orphan = d.orphan
        /\ e.dumped = d.dumped /\ e.shared = d.shared
    BY DEF PeerRecord
  <2> HIDE DEF e
  <2>2. Sound(e) /\ (\A live : Covers(d, live) => Covers(e, live))
    BY <1>2, <2>1 DEF Sound, Covers
  <2>3. \A rel : Served(d, rel) => Served(e, rel)
    BY <2>1 DEF Served
  <2>q. QED BY <2>1, <2>2, <2>3 DEF Same, e
<1>3. ASSUME d.configured PROVE Same(d, [d EXCEPT !.pending = TRUE])
  <2> DEFINE e == [d EXCEPT !.pending = TRUE]
  <2>1. /\ e \in PeerRecord /\ e.configured = d.configured
        /\ e.up = d.up /\ e.cap = d.cap /\ e.families = d.families /\ e.nbit = d.nbit
        /\ e.adj = d.adj /\ e.loc = d.loc /\ e.stale = d.stale /\ e.armed = d.armed
        /\ e.idle = d.idle /\ e.left = d.left /\ e.orphan = d.orphan
        /\ e.dumped = d.dumped /\ e.shared = d.shared
    BY Zenon DEF PeerRecord
  <2> HIDE DEF e
  <2>2. Sound(e) /\ (\A live : Covers(d, live) => Covers(e, live))
    BY <1>3, <2>1 DEF Sound, Covers
  <2>3. \A rel : Served(d, rel) => Served(e, rel)
    BY <2>1 DEF Served
  <2>q. QED BY <2>1, <2>2, <2>3, Zenon DEF Same, e
<1>q. QED BY <1>1, <1>2, <1>3, Zenon

\* Other routes, the bookkeeping of which is in order.
LEMMA EditRouted ==
  ASSUME NEW d \in PeerRecord, Sound(d), NEW e \in PeerRecord,
         e.configured = d.configured, e.pending = d.pending, e.up = d.up, e.cap = d.cap,
         e.families = d.families, e.nbit = d.nbit, e.armed = d.armed, e.idle = d.idle,
         e.dumped = d.dumped, e.shared = d.shared,
         d.configured => \A n \in Nlris : e.loc[n] # None => n \in e.adj \cup e.left,
         ~d.configured => /\ e.adj = {} /\ e.stale = {}
                          /\ \A n \in Nlris : e.loc[n] # None => n \in e.orphan
  PROVE  Routed(d, e)
<1>1. Sound(e)
  BY DEF Sound
<1>2. \A rel : Served(d, rel) => Served(e, rel)
  BY DEF Served
<1>q. QED BY <1>1, <1>2 DEF Routed

LEMMA WithdrawnRouted ==
  ASSUME NEW d \in PeerRecord, Sound(d), NEW ns \in SUBSET Nlris
  PROVE  /\ Routed(d, Withdrawn(d, ns))
         /\ Withdrawn(d, ns).stale = d.stale /\ Withdrawn(d, ns).eor = d.eor
<1> DEFINE loc == [n \in Nlris |-> IF n \in ns THEN None ELSE d.loc[n]]
           e == Withdrawn(d, ns)
           left == d.left \ ns
           orphan == d.orphan \ ns
           adj == d.adj \ ns
<1>0. /\ d.left \in SUBSET Nlris /\ d.orphan \in SUBSET Nlris /\ d.adj \in SUBSET Nlris
      /\ d.stale \in SUBSET Nlris /\ d.loc \in [Nlris -> LocMarks]
  BY DEF PeerRecord
<1>1. loc \in [Nlris -> LocMarks]
  BY <1>0 DEF LocMarks
<1>2. e = [d EXCEPT !.adj = adj, !.loc = loc, !.left = left, !.orphan = orphan]
  BY DEF Withdrawn, PeerRecord
<1>3. \A n \in Nlris : loc[n] # None => d.loc[n] # None /\ n \notin ns
  OBVIOUS
<1>4. adj \in SUBSET Nlris /\ left \in SUBSET Nlris /\ orphan \in SUBSET Nlris
  BY <1>0
<1> HIDE DEF loc, e, left, orphan, adj
<1>5. /\ e \in PeerRecord /\ e.adj = adj /\ e.loc = loc /\ e.left = left /\ e.orphan = orphan
      /\ e.stale = d.stale /\ e.eor = d.eor
      /\ e.configured = d.configured /\ e.pending = d.pending /\ e.up = d.up
      /\ e.cap = d.cap /\ e.families = d.families /\ e.nbit = d.nbit
      /\ e.armed = d.armed /\ e.idle = d.idle /\ e.dumped = d.dumped /\ e.shared = d.shared
  BY ONLY <1>1, <1>2, <1>4, d \in PeerRecord, Zenon DEF PeerRecord
<1>6. d.configured => \A n \in Nlris : loc[n] # None => n \in adj \cup left
  BY <1>3 DEF Sound, adj, left
<1>7. ~d.configured => /\ adj = {} /\ d.stale = {}
                       /\ \A n \in Nlris : loc[n] # None => n \in orphan
  BY <1>3 DEF Sound, adj, orphan
<1>8. Routed(d, e)
  BY <1>0, <1>1, <1>4, <1>5, <1>6, <1>7, EditRouted
<1>q. QED BY <1>5, <1>8 DEF e

LEMMA EndOfRibRouted ==
  ASSUME NEW d \in PeerRecord, Sound(d), NEW f \in Family
  PROVE  Routed(d, EndOfRib(d, f))
<1> DEFINE gone == d.stale \cap Of(f)
           b == Withdrawn(d, gone)
           eor == b.eor \cup {f}
           stale == b.stale \ gone
           e == EndOfRib(d, f)
<1>1. gone \in SUBSET Nlris /\ d.eor \in SUBSET Family /\ d.stale \in SUBSET Nlris
  BY DEF PeerRecord
<1>2. Routed(d, b) /\ b.eor = d.eor /\ b.stale = d.stale
  BY <1>1, WithdrawnRouted
<1>3. b \in PeerRecord /\ Sound(b)
  BY <1>2 DEF Routed
<1>4. e = [b EXCEPT !.eor = eor, !.stale = stale]
  BY <1>3 DEF EndOfRib, PeerRecord
<1>5. eor \in SUBSET Family /\ stale \in SUBSET Nlris
  BY <1>1, <1>2
<1>6. b.stale = {} => stale = {}
  OBVIOUS
<1> HIDE DEF gone, b, eor, stale, e
<1>7. /\ e \in PeerRecord /\ e.adj = b.adj /\ e.loc = b.loc /\ e.left = b.left
      /\ e.orphan = b.orphan /\ e.stale = stale
      /\ e.configured = b.configured /\ e.pending = b.pending /\ e.up = b.up
      /\ e.cap = b.cap /\ e.families = b.families /\ e.nbit = b.nbit
      /\ e.armed = b.armed /\ e.idle = b.idle /\ e.dumped = b.dumped /\ e.shared = b.shared
  BY ONLY <1>3, <1>4, <1>5, Zenon DEF PeerRecord
<1>8. /\ b.left \in SUBSET Nlris /\ b.orphan \in SUBSET Nlris /\ b.adj \in SUBSET Nlris
      /\ b.loc \in [Nlris -> LocMarks]
  BY <1>3 DEF PeerRecord
<1>9. /\ b.configured => \A n \in Nlris : b.loc[n] # None => n \in b.adj \cup b.left
      /\ ~b.configured => /\ b.adj = {} /\ stale = {}
                          /\ \A n \in Nlris : b.loc[n] # None => n \in b.orphan
  BY <1>3, <1>6 DEF Sound
<1>10. Routed(b, e)
  BY <1>3, <1>5, <1>7, <1>8, <1>9, EditRouted
<1>q. QED BY <1>2, <1>10 DEF Routed, e

LEMMA AnnouncedRouted ==
  ASSUME NEW d \in PeerRecord, Sound(d), d.configured, NEW n \in Nlris, NEW how \in Fates
  PROVE  Routed(d, Announced(d, n, how))
<1> DEFINE b == IF how = "mp" /\ n \in V4 THEN d ELSE Refreshed(d, n)
           e == Announced(d, n, how)
<1>0. /\ d.left \in SUBSET Nlris /\ d.orphan \in SUBSET Nlris /\ d.adj \in SUBSET Nlris
      /\ d.stale \in SUBSET Nlris /\ d.loc \in [Nlris -> LocMarks]
  BY DEF PeerRecord
<1>1. d.stale \ {n} \in SUBSET Nlris
  BY <1>0
<1>2. Refreshed(d, n) = [d EXCEPT !.stale = d.stale \ {n}]
  BY DEF Refreshed, PeerRecord
<1>3. /\ b \in PeerRecord /\ b.adj = d.adj /\ b.loc = d.loc /\ b.left = d.left
      /\ b.orphan = d.orphan
      /\ b.configured = d.configured /\ b.pending = d.pending /\ b.up = d.up
      /\ b.cap = d.cap /\ b.families = d.families /\ b.nbit = d.nbit
      /\ b.armed = d.armed /\ b.idle = d.idle /\ b.dumped = d.dumped /\ b.shared = d.shared
  BY <1>1, <1>2, ZenonT(40) DEF PeerRecord
<1>4. b.stale \in SUBSET Nlris
  BY <1>3 DEF PeerRecord
<1>5. how \in {"accepted", "mp", "rejected", "skipped"}
  BY DEF Fates
<1> DEFINE mark == IF how = "mp" /\ n \in V4 THEN "mp" ELSE "fresh"
           more == {m \in {n} : d.loc[n] # None}
           adj == d.adj \cup {n}
           loc == [d.loc EXCEPT ![n] = mark]
           less == d.left \ {n}
           orphan == d.orphan \ {n}
           left == d.left \cup more
<1>6. /\ adj \in SUBSET Nlris /\ loc \in [Nlris -> LocMarks] /\ less \in SUBSET Nlris
      /\ orphan \in SUBSET Nlris /\ left \in SUBSET Nlris
  BY <1>0 DEF LocMarks
<1>7. /\ \A m \in Nlris : d.loc[m] # None => m \in d.adj \cup left
      /\ \A m \in Nlris : d.loc[m] # None => m \in adj \cup left
      /\ \A m \in Nlris : loc[m] # None => m \in adj \cup less
  BY <1>0 DEF Sound
<1>8. CASE how \in {"accepted", "mp"}
  <2>1. e = [b EXCEPT !.adj = adj, !.loc = loc, !.left = less, !.orphan = orphan]
    <3>1. CASE how = "accepted"
      <4>1. e = [b EXCEPT !.adj = b.adj \cup {n}, !.loc = [b.loc EXCEPT ![n] = "fresh"],
                          !.left = b.left \ {n}, !.orphan = b.orphan \ {n}]
        <5> HIDE DEF b
        <5>q. QED BY <1>3, <3>1 DEF Announced, PeerRecord, b
      <4>q. QED BY <4>1, <3>1, <1>3, Zenon
    <3>2. CASE how = "mp"
      <4>1. e = [b EXCEPT !.adj = b.adj \cup {n}, !.loc = [b.loc EXCEPT ![n] = IF n \in V4 THEN "mp" ELSE "fresh"],
                          !.left = b.left \ {n}, !.orphan = b.orphan \ {n}]
        <5> HIDE DEF b
        <5>q. QED BY <1>3, <3>2 DEF Announced, PeerRecord, b
      <4>q. QED BY <4>1, <3>2, <1>3, Zenon
    <3>q. QED BY <1>8, <3>1, <3>2
  <2> HIDE DEF b, e, adj, loc, less, orphan
  <2>2. /\ e \in PeerRecord /\ e.adj = adj /\ e.loc = loc /\ e.left = less /\ e.orphan = orphan
        /\ e.stale = b.stale
        /\ e.configured = b.configured /\ e.pending = b.pending /\ e.up = b.up
        /\ e.cap = b.cap /\ e.families = b.families /\ e.nbit = b.nbit
        /\ e.armed = b.armed /\ e.idle = b.idle /\ e.dumped = b.dumped /\ e.shared = b.shared
    BY ONLY <1>3, <1>6, <2>1, ZenonT(40) DEF PeerRecord
  <2>3. /\ e.configured = d.configured /\ e.pending = d.pending /\ e.up = d.up
        /\ e.cap = d.cap /\ e.families = d.families /\ e.nbit = d.nbit
        /\ e.armed = d.armed /\ e.idle = d.idle /\ e.dumped = d.dumped /\ e.shared = d.shared
    BY ONLY <1>3, <2>2
  <2>4. \A m \in Nlris : e.loc[m] # None => m \in e.adj \cup e.left
    BY <1>3, <1>7, <2>2
  <2>5. Routed(d, e)
    BY <2>2, <2>3, <2>4, EditRouted, Zenon
  <2>q. QED BY <2>5 DEF e
<1>9. CASE how = "rejected"
  <2>1. e = [b EXCEPT !.adj = adj, !.left = left]
    BY <1>3, <1>9, Zenon DEF Announced, PeerRecord
  <2> HIDE DEF b, e, adj, left
  <2>2. /\ e \in PeerRecord /\ e.adj = adj /\ e.loc = b.loc /\ e.left = left /\ e.orphan = b.orphan
        /\ e.stale = b.stale
        /\ e.configured = b.configured /\ e.pending = b.pending /\ e.up = b.up
        /\ e.cap = b.cap /\ e.families = b.families /\ e.nbit = b.nbit
        /\ e.armed = b.armed /\ e.idle = b.idle /\ e.dumped = b.dumped /\ e.shared = b.shared
    BY ONLY <1>3, <1>6, <2>1, ZenonT(40) DEF PeerRecord
  <2>3. /\ e.configured = d.configured /\ e.pending = d.pending /\ e.up = d.up
        /\ e.cap = d.cap /\ e.families = d.families /\ e.nbit = d.nbit
        /\ e.armed = d.armed /\ e.idle = d.idle /\ e.dumped = d.dumped /\ e.shared = d.shared
    BY ONLY <1>3, <2>2
  <2>4. \A m \in Nlris : e.loc[m] # None => m \in e.adj \cup e.left
    BY <1>3, <1>7, <2>2
  <2>5. Routed(d, e)
    BY <2>2, <2>3, <2>4, EditRouted, Zenon
  <2>q. QED BY <2>5 DEF e
<1>10. CASE how = "skipped"
  <2>1. e = [b EXCEPT !.left = left]
    BY <1>3, <1>10, Zenon DEF Announced, PeerRecord
  <2> HIDE DEF b, e, left
  <2>2. /\ e \in PeerRecord /\ e.adj = b.adj /\ e.loc = b.loc /\ e.left = left /\ e.orphan = b.orphan
        /\ e.stale = b.stale
        /\ e.configured = b.configured /\ e.pending = b.pending /\ e.up = b.up
        /\ e.cap = b.cap /\ e.families = b.families /\ e.nbit = b.nbit
        /\ e.armed = b.armed /\ e.idle = b.idle /\ e.dumped = b.dumped /\ e.shared = b.shared
    BY ONLY <1>3, <1>6, <2>1 DEF PeerRecord
  <2>3. /\ e.configured = d.configured /\ e.pending = d.pending /\ e.up = d.up
        /\ e.cap = d.cap /\ e.families = d.families /\ e.nbit = d.nbit
        /\ e.armed = d.armed /\ e.idle = d.idle /\ e.dumped = d.dumped /\ e.shared = d.shared
    BY ONLY <1>3, <2>2
  <2>4. \A m \in Nlris : e.loc[m] # None => m \in e.adj \cup e.left
    BY <1>3, <1>7, <2>2
  <2>5. Routed(d, e)
    BY <2>2, <2>3, <2>4, EditRouted, Zenon
  <2>q. QED BY <2>5 DEF e
<1>q. QED BY <1>5, <1>8, <1>9, <1>10

\* The deadline of the restart window.
LEMMA DeadlineDown ==
  ASSUME NEW d \in PeerRecord, Sound(d), d.armed
  PROVE  Down([Flushed(d) EXCEPT !.armed = FALSE, !.stale = {}])
<1> DEFINE b == Flushed(d)
           e == [b EXCEPT !.armed = FALSE, !.stale = {}]
<1>1. /\ b \in PeerRecord /\ b.loc = [n \in Nlris |-> None] /\ b.cap = d.cap /\ b.up = d.up
      /\ b.configured = d.configured
  BY FlushedFields
<1>2. d.configured /\ ~d.up
  BY DEF Sound
<1> HIDE DEF b
<1>3. /\ e \in PeerRecord /\ e.loc = b.loc /\ e.cap = b.cap /\ e.up = b.up
      /\ e.configured = b.configured /\ e.armed = FALSE
  BY <1>1, ZenonT(40) DEF PeerRecord
<1> HIDE DEF e
<1>4. Sound(e) /\ Covers(e, FALSE) /\ ~e.up
  BY <1>1, <1>2, <1>3 DEF Sound, Covers
<1>q. QED BY <1>3, <1>4, Zenon DEF Down, e, b

\* A peer added: whoever is up already belongs to an older actor.
LEMMA AddedServed ==
  ASSUME NEW d \in PeerRecord, Sound(d), ~d.configured, NEW live, Covers(d, live),
         NEW e \in PeerRecord, e.configured, e.left = {n \in Nlris : d.loc[n] # None},
         live => e.shared, e.loc = d.loc, e.up = d.up, e.armed = d.armed, e.cap = d.cap,
         e.orphan = d.orphan
  PROVE  Sound(e) /\ Covers(e, live) /\ \A rel : Served(e, rel)
<1>1. Sound(e)
  BY DEF Sound
<1>2. Covers(e, live)
  BY DEF Covers, Sound
<1>3. \A rel : Served(e, rel)
  BY DEF Covers, Served
<1>q. QED BY <1>1, <1>2, <1>3

-----------------------------------------------------------------------------
(* All peers.                                                              *)

LEMMA LiveCovers == \A d, l, m : Covers(d, l) /\ (l => m) => Covers(d, m)
BY DEF Covers

\* One record changes; the actors may too.
LEMMA OneGood ==
  ASSUME NEW ds, NEW rel, NEW acts, NEW next, Good(ds, rel, acts), NEW p \in Peers, NEW e,
         e \in PeerRecord, Sound(e), Covers(e, Live(next, p)), Served(e, rel),
         \A q \in Peers \ {p} : Live(acts, q) => Live(next, q)
  PROVE  Good([ds EXCEPT ![p] = e], rel, next)
<1>1. ds \in [Peers -> PeerRecord]
  BY DEF Good
<1>2. [ds EXCEPT ![p] = e] \in [Peers -> PeerRecord]
  BY <1>1
<1>3. ASSUME NEW q \in Peers
      PROVE  /\ Sound([ds EXCEPT ![p] = e][q]) /\ Covers([ds EXCEPT ![p] = e][q], Live(next, q))
             /\ Served([ds EXCEPT ![p] = e][q], rel)
  <2>1. CASE q = p
    BY <1>1, <2>1
  <2>2. CASE q # p
    <3>1. [ds EXCEPT ![p] = e][q] = ds[q]
      BY <1>1, <2>2
    <3>2. Sound(ds[q]) /\ Covers(ds[q], Live(acts, q)) /\ Served(ds[q], rel)
      BY DEF Good
    <3>3. Covers(ds[q], Live(next, q))
      BY <2>2, <3>2, LiveCovers
    <3>q. QED BY <3>1, <3>2, <3>3
  <2>q. QED BY <2>1, <2>2
<1>q. QED BY <1>2, <1>3 DEF Good

\* The actors change and nobody stops answering.
LEMMA ActorsGood ==
  ASSUME NEW ds, NEW rel, NEW acts, NEW next, Good(ds, rel, acts),
         \A q \in Peers : Live(acts, q) => Live(next, q)
  PROVE  Good(ds, rel, next)
<1>1. ASSUME NEW q \in Peers
      PROVE  Sound(ds[q]) /\ Covers(ds[q], Live(next, q)) /\ Served(ds[q], rel)
  <2>1. Sound(ds[q]) /\ Covers(ds[q], Live(acts, q)) /\ Served(ds[q], rel)
    BY DEF Good
  <2>q. QED BY <2>1, LiveCovers
<1>q. QED BY <1>1 DEF Good

\* The gate opens for the families fs.
LEMMA ReleaseGood ==
  ASSUME NEW ds, NEW acts, Good(ds, released, acts), NEW fs, Release(ds, fs)
  PROVE  Good(peer', released', acts)
<1>1. ASSUME NEW q \in Peers
      PROVE  /\ DumpAll(ds[q], fs \ released) \in PeerRecord
             /\ Sound(DumpAll(ds[q], fs \ released))
             /\ Covers(DumpAll(ds[q], fs \ released), Live(acts, q))
             /\ Served(DumpAll(ds[q], fs \ released), released \cup fs)
  <2> DEFINE d == ds[q]
             gs == fs \ released
  <2>1. /\ d \in PeerRecord /\ Sound(d) /\ Covers(d, Live(acts, q)) /\ Served(d, released)
    BY DEF Good
  <2> HIDE DEF d, gs
  <2>2. /\ DumpAll(d, gs) \in PeerRecord /\ Sound(DumpAll(d, gs))
        /\ Covers(DumpAll(d, gs), Live(acts, q))
    BY <2>1, DumpAllServes, Zenon
  <2>3. Served(DumpAll(d, fs \ released), released \cup fs)
    BY <2>1, DumpAllServes
  <2>q. QED BY <2>2, <2>3 DEF d, gs
<1>2. released' = released \cup fs /\ peer' = [q \in Peers |-> DumpAll(ds[q], fs \ released)]
  BY DEF Release
<1>q. QED BY <1>1, <1>2 DEF Good

LEMMA LostGood ==
  ASSUME NEW ds, NEW rel, NEW acts, Good(ds, rel, acts), NEW ps
  PROVE  Good([q \in Peers |-> [ds[q] EXCEPT !.lost = @ \/ q \in ps]], rel, acts)
<1> DEFINE es == [q \in Peers |-> [ds[q] EXCEPT !.lost = @ \/ q \in ps]]
<1>1. ASSUME NEW q \in Peers
      PROVE  es[q] \in PeerRecord /\ Sound(es[q]) /\ Covers(es[q], Live(acts, q)) /\ Served(es[q], rel)
  <2> DEFINE d == ds[q]
             x == d.lost \/ q \in ps
  <2>1. /\ d \in PeerRecord /\ Sound(d) /\ Covers(d, Live(acts, q)) /\ Served(d, rel)
    BY DEF Good
  <2>2. x \in BOOLEAN
    OBVIOUS
  <2>3. es[q] = [d EXCEPT !.lost = x]
    BY <2>1 DEF PeerRecord
  <2> HIDE DEF d, x, es
  <2>4. Same(d, [d EXCEPT !.lost = x])
    BY <2>1, <2>2, FlagSame, Zenon
  <2>q. QED BY <2>1, <2>3, <2>4 DEF Same
<1>2. es \in [Peers -> PeerRecord]
  BY <1>1
<1> HIDE DEF es
<1>3. Good(es, rel, acts)
  BY <1>1, <1>2 DEF Good
<1>q. QED BY <1>3 DEF es

-----------------------------------------------------------------------------
(* Actors.                                                                 *)

Links == {"none", "idle", "up", "ended", "stopping", "stopped"}

LEMMA Owner ==
  ASSUME NEW a \in Actor
  PROVE  /\ PeerOf(a) \in Peers /\ a \in Actors[PeerOf(a)]
         /\ \A q \in Peers \ {PeerOf(a)} : a \notin Actors[q]
<1>1. \E p \in Peers : a \in Actors[p]
  BY DEF Actor
<1>2. PeerOf(a) \in Peers /\ a \in Actors[PeerOf(a)]
  BY <1>1 DEF PeerOf
<1>3. ASSUME NEW q \in Peers, q # PeerOf(a) PROVE a \notin Actors[q]
  <2>1. Actors[PeerOf(a)] \cap Actors[q] = {}
    BY <1>2, <1>3, PeersAssumption
  <2>q. QED BY <1>2, <2>1
<1>q. QED BY <1>2, <1>3

LEMMA ActorOf == \A p \in Peers : Actors[p] \subseteq Actor
BY DEF Actor

\* One actor moves on.
LEMMA Moved ==
  ASSUME NEW acts \in [Actor -> ActorRecord], NEW a \in Actor, NEW l \in Links
  PROVE  /\ [acts EXCEPT ![a].link = l] \in [Actor -> ActorRecord]
         /\ [acts EXCEPT ![a].link = l][a].link = l
         /\ \A b \in Actor \ {a} : [acts EXCEPT ![a].link = l][b] = acts[b]
         /\ \A q \in Peers \ {PeerOf(a)} : Live(acts, q) => Live([acts EXCEPT ![a].link = l], q)
         /\ l \in {"up", "ended", "stopping"} => Live([acts EXCEPT ![a].link = l], PeerOf(a))
         /\ acts[a].link \notin {"up", "ended", "stopping"} \/ l \in {"up", "ended", "stopping"} =>
              \A q \in Peers : Live(acts, q) => Live([acts EXCEPT ![a].link = l], q)
<1> DEFINE next == [acts EXCEPT ![a].link = l]
<1>1. acts[a] \in ActorRecord
  OBVIOUS
<1>2. /\ next \in [Actor -> ActorRecord] /\ next[a].link = l
      /\ \A b \in Actor \ {a} : next[b] = acts[b]
  BY <1>1 DEF ActorRecord, Links
<1> HIDE DEF next
<1>3. \A q \in Peers \ {PeerOf(a)} : Live(acts, q) => Live(next, q)
  BY <1>2, Owner, ActorOf DEF Live
<1>4. l \in {"up", "ended", "stopping"} => Live(next, PeerOf(a))
  BY <1>2, Owner DEF Live
<1>5. acts[a].link \notin {"up", "ended", "stopping"} \/ l \in {"up", "ended", "stopping"} =>
        \A q \in Peers : Live(acts, q) => Live(next, q)
  BY <1>2, ActorOf DEF Live
<1>q. QED BY <1>2, <1>3, <1>4, <1>5, Zenon DEF next

LEMMA Commanded ==
  ASSUME NEW acts \in [Actor -> ActorRecord], NEW ps, NEW c \in {"Stop", "Notification"}
  PROVE  /\ Command(acts, ps, c) \in [Actor -> ActorRecord]
         /\ \A a \in Actor : Command(acts, ps, c)[a].link = acts[a].link
         /\ \A q \in Peers : Live(acts, q) => Live(Command(acts, ps, c), q)
<1> DEFINE next == Command(acts, ps, c)
<1>1. ASSUME NEW a \in Actor PROVE next[a] \in ActorRecord /\ next[a].link = acts[a].link
  <2> DEFINE r == acts[a]
  <2>1. r \in ActorRecord
    OBVIOUS
  <2>2. next[a] = r \/ next[a] = [r EXCEPT !.cmd = IF @ = "Stop" THEN @ ELSE c]
    BY DEF Command
  <2> HIDE DEF r, next
  <2>3. [r EXCEPT !.cmd = IF @ = "Stop" THEN @ ELSE c] \in ActorRecord
        /\ [r EXCEPT !.cmd = IF @ = "Stop" THEN @ ELSE c].link = r.link
    BY <2>1 DEF ActorRecord
  <2>q. QED BY <2>1, <2>2, <2>3, Zenon DEF r
<1>2. next = [a \in Actor |-> next[a]]
  BY DEF Command
<1> HIDE DEF next
<1>3. next \in [Actor -> ActorRecord]
  BY <1>1, <1>2
<1>4. \A q \in Peers : Live(acts, q) => Live(next, q)
  BY <1>1, ActorOf DEF Live
<1>q. QED BY <1>1, <1>3, <1>4 DEF next

-----------------------------------------------------------------------------
(* The steps.                                                              *)

LEMMA InitInv == Init => IInv
<1> SUFFICES ASSUME Init PROVE IInv
  OBVIOUS
<1> PICK plan \in Plans :
       /\ peer = [p \in Peers |-> [Absent EXCEPT !.configured = p \in plan]]
       /\ actor = [a \in Actor |->
                     [NoActor EXCEPT !.link =
                        IF PeerOf(a) \notin plan THEN "stopped"
                        ELSE IF \A b \in Actors[PeerOf(a)] : a <= b THEN "idle" ELSE "none"]]
  BY Zenon DEF Init
<1>1. ASSUME NEW p \in Peers
      PROVE  /\ peer[p] \in PeerRecord /\ Sound(peer[p])
             /\ Covers(peer[p], Live(actor, p)) /\ Served(peer[p], released)
  <2> DEFINE z == Absent
             x == p \in plan
             e == [z EXCEPT !.configured = x]
  <2>1. peer[p] = e /\ z \in PeerRecord /\ x \in BOOLEAN
    BY AbsentFields
  <2>2. /\ z.loc = [n \in Nlris |-> None] /\ ~z.pending /\ ~z.up /\ z.cap = NoCapabilities
        /\ z.families = {} /\ ~z.nbit /\ z.adj = {} /\ z.stale = {} /\ ~z.armed /\ ~z.idle
    BY AbsentFields
  <2> HIDE DEF z, x
  <2>3. /\ e \in PeerRecord /\ e.configured = x /\ e.pending = z.pending /\ e.up = z.up
        /\ e.cap = z.cap /\ e.families = z.families /\ e.nbit = z.nbit /\ e.adj = z.adj
        /\ e.loc = z.loc /\ e.stale = z.stale /\ e.armed = z.armed /\ e.idle = z.idle
    BY <2>1, Zenon DEF PeerRecord
  <2> HIDE DEF e
  <2>4. Sound(e)
    BY <2>2, <2>3, AbsentFields DEF Sound
  <2>5. Covers(e, Live(actor, p)) /\ Served(e, released)
    BY <2>2, <2>3 DEF Covers, Served
  <2>q. QED BY <2>1, <2>3, <2>4, <2>5, Zenon
<1>2. peer \in [Peers -> PeerRecord]
  BY <1>1, Zenon
<1>3. Good(peer, released, actor)
  BY <1>1, <1>2, Zenon DEF Good
<1>4. actor \in [Actor -> ActorRecord]
  <2>1. ASSUME NEW l \in Links PROVE [NoActor EXCEPT !.link = l] \in ActorRecord
    BY DEF NoActor, ActorRecord, Links
  <2>2. ASSUME NEW a \in Actor PROVE actor[a] \in ActorRecord
    <3> DEFINE l == IF PeerOf(a) \notin plan THEN "stopped"
                    ELSE IF \A b \in Actors[PeerOf(a)] : a <= b THEN "idle" ELSE "none"
    <3>1. l \in Links
      BY DEF Links
    <3>2. actor[a] = [NoActor EXCEPT !.link = l]
      OBVIOUS
    <3> HIDE DEF l
    <3>q. QED BY <2>1, <3>1, <3>2
  <2>q. QED BY <2>2, SMTT(40)
<1>5. released \subseteq Family /\ rejected = {}
  BY DEF Init
<1>q. QED BY <1>3, <1>4, <1>5, Zenon DEF IInv

LEMMA RecordOf ==
  ASSUME IInv, NEW p \in Peers
  PROVE  /\ peer[p] \in PeerRecord /\ Sound(peer[p]) /\ Covers(peer[p], Live(actor, p))
         /\ Served(peer[p], released)
BY DEF IInv, Good

LEMMA ActorSteps ==
  ASSUME IInv, NEW a \in Actor, GoesDown(a) \/ TakesCommand(a)
  PROVE  IInv'
<1>1. actor \in [Actor -> ActorRecord] /\ Good(peer, released, actor)
  BY DEF IInv
<1>2. /\ actor' \in [Actor -> ActorRecord]
      /\ \A q \in Peers : Live(actor, q) => Live(actor', q)
  <2>1. CASE GoesDown(a)
    BY <1>1, <2>1, Moved, ZenonT(40) DEF GoesDown, Links
  <2>2. CASE TakesCommand(a)
    <3>1. PICK l \in CASE actor[a].link = "up" -> {"stopping"}
                       [] actor[a].link = "idle" /\ actor[a].cmd = "Stop" -> {"idle", "stopped"}
                       [] actor[a].link = "ended" /\ actor[a].cmd = "Stop" -> {"ended", "stopping"}
                       [] OTHER -> {actor[a].link} :
                 actor' = [actor EXCEPT ![a].link = l, ![a].cmd = None]
      BY <2>2, Zenon DEF TakesCommand
    <3>2. actor[a] \in ActorRecord
      BY <1>1
    <3>3. /\ l \in Links
          /\ actor[a].link \in {"up", "ended", "stopping"} => l \in {"up", "ended", "stopping"}
      BY <3>1, <3>2 DEF ActorRecord, Links
    <3>4. /\ actor' \in [Actor -> ActorRecord] /\ actor'[a].link = l
          /\ \A b \in Actor \ {a} : actor'[b] = actor[b]
      BY <1>1, <3>1, <3>2, <3>3, ZenonT(40) DEF ActorRecord, Links
    <3>q. QED BY <3>3, <3>4, ActorOf DEF Live
  <2>q. QED BY <2>1, <2>2, SMTT(40)
<1>3. UNCHANGED <<peer, released, rejected>>
  BY DEF GoesDown, TakesCommand
<1>4. Good(peer, released, actor')
  BY <1>1, <1>2, ActorsGood
<1>q. QED BY <1>2, <1>3, <1>4 DEF IInv

LEMMA EstablishedStep ==
  ASSUME IInv, NEW a \in Actor, Established(a)
  PROVE  IInv'
<1> DEFINE p == PeerOf(a)
<1>1. p \in Peers /\ actor \in [Actor -> ActorRecord] /\ Good(peer, released, actor)
  BY Owner DEF IInv
<1>2. PICK c \in Offers[p] :
        LET ds == [peer EXCEPT ![p] = OnEstablished(@, c)]
        IN  IF peer[p].configured THEN Recompute(ds) ELSE peer' = ds /\ UNCHANGED released
  BY DEF Established
<1>3. c \in Capabilities
  BY <1>1, <1>2, PeersAssumption
<1> DEFINE e == OnEstablished(peer[p], c)
           ds == [peer EXCEPT ![p] = e]
<1>4. actor' = [actor EXCEPT ![a].link = "up"] /\ rejected' = rejected
  BY DEF Established
<1>5. /\ actor' \in [Actor -> ActorRecord] /\ Live(actor', p)
      /\ \A q \in Peers \ {p} : Live(actor, q) => Live(actor', q)
  BY <1>1, <1>4, Moved, ZenonT(90) DEF Links
<1>6. e \in PeerRecord /\ Sound(e) /\ Served(e, released) /\ Covers(e, TRUE)
  BY <1>1, <1>3, RecordOf, EstablishedSound, Zenon
<1>7. ds = [peer EXCEPT ![p] = OnEstablished(@, c)]
  BY <1>1 DEF Good
<1>8. (peer[p].configured => Recompute(ds)) /\ (~peer[p].configured => peer' = ds /\ released' = released)
  BY <1>2, <1>7
<1> HIDE DEF p, e
<1>9. Covers(e, Live(actor', p))
  BY <1>5, <1>6, LiveCovers, Zenon
<1>10. Good(ds, released, actor')
  BY <1>1, <1>5, <1>6, <1>9, OneGood, Zenon
<1> HIDE DEF ds
<1>11. Good(peer', released', actor')
  BY <1>8, <1>10, ReleaseGood DEF Recompute
<1>12. released' \subseteq Family
  BY <1>8 DEF Recompute, Release, OpenFor, IInv
<1>q. QED BY <1>4, <1>5, <1>11, <1>12 DEF IInv

LEMMA EstablishedRejectedStep ==
  ASSUME IInv, NEW a \in Actor, EstablishedRejected(a)
  PROVE  IInv'
<1> DEFINE p == PeerOf(a)
           acts == [actor EXCEPT ![a].link = "up"]
<1>1. p \in Peers /\ actor \in [Actor -> ActorRecord] /\ Good(peer, released, actor)
  BY Owner DEF IInv
<1>2. acts \in [Actor -> ActorRecord] /\ \A q \in Peers : Live(actor, q) => Live(acts, q)
  BY <1>1, Moved, ZenonT(90) DEF Links
<1>3. /\ actor' = Command(acts, {p}, "Stop") \/ actor' = acts
      /\ rejected' = rejected \/ rejected' = rejected \cup {p}
      /\ UNCHANGED <<peer, released>>
  BY DEF EstablishedRejected
<1> HIDE DEF acts
<1>4. actor' \in [Actor -> ActorRecord] /\ \A q \in Peers : Live(actor, q) => Live(actor', q)
  BY <1>2, <1>3, Commanded
<1>5. Good(peer, released, actor')
  BY <1>1, <1>4, ActorsGood
<1>q. QED BY <1>1, <1>3, <1>4, <1>5, SMTT(40) DEF IInv

LEMMA TerminatedStep ==
  ASSUME IInv, NEW a \in Actor, Terminated(a)
  PROVE  IInv'
<1> DEFINE p == PeerOf(a)
           l == IF actor[a].link = "stopping" THEN "stopped" ELSE "idle"
<1>1. p \in Peers /\ actor \in [Actor -> ActorRecord] /\ Good(peer, released, actor)
  BY Owner DEF IInv
<1>2. PICK r : LET ds == [peer EXCEPT ![p] = OnTerminated(@, r)]
               IN  IF peer[p].pending THEN Recompute(ds) ELSE peer' = ds /\ UNCHANGED released
  BY DEF Terminated
<1> DEFINE e == OnTerminated(peer[p], r)
           ds == [peer EXCEPT ![p] = e]
<1>3. actor' = [actor EXCEPT ![a].link = l] /\ rejected' = rejected /\ l \in Links
  BY DEF Terminated, Links
<1> HIDE DEF l
<1>4. /\ actor' \in [Actor -> ActorRecord]
      /\ \A q \in Peers \ {p} : Live(actor, q) => Live(actor', q)
  BY <1>1, <1>3, Moved, Zenon
<1>5. Down(e)
  BY <1>1, RecordOf, TerminatedDown
<1>6. ds = [peer EXCEPT ![p] = OnTerminated(@, r)]
  BY <1>1 DEF Good
<1>7. (peer[p].pending => Recompute(ds)) /\ (~peer[p].pending => peer' = ds /\ released' = released)
  BY <1>2, <1>6
<1> HIDE DEF p, e
<1>8. e \in PeerRecord /\ Sound(e) /\ Covers(e, Live(actor', p)) /\ Served(e, released)
  BY <1>5, DownServed, LiveCovers, Zenon DEF Down
<1>9. Good(ds, released, actor')
  BY <1>1, <1>4, <1>8, OneGood
<1> HIDE DEF ds
<1>10. Good(peer', released', actor')
  BY <1>7, <1>9, ReleaseGood DEF Recompute
<1>11. released' \subseteq Family
  BY <1>7 DEF Recompute, Release, OpenFor, IInv
<1>q. QED BY <1>3, <1>4, <1>10, <1>11 DEF IInv

LEMMA ResetStep ==
  ASSUME IInv, NEW p \in Peers, NEW ds, ResetSession(p, ds), Good(ds, released, actor),
         released' = released
  PROVE  IInv'
<1>1. actor \in [Actor -> ActorRecord]
  BY DEF IInv
<1>2. /\ actor' = Command(actor, {p}, "Notification") /\ rejected' = {}
      /\ peer' = [q \in Peers |-> [ds[q] EXCEPT !.lost = @ \/ q \in rejected \ {p}]]
  BY DEF ResetSession
<1>3. actor' \in [Actor -> ActorRecord] /\ \A q \in Peers : Live(actor, q) => Live(actor', q)
  BY <1>1, <1>2, Commanded
<1>4. Good(peer', released, actor)
  BY <1>2, LostGood, Zenon
<1>5. Good(peer', released, actor')
  BY <1>3, <1>4, ActorsGood
<1>q. QED BY <1>2, <1>3, <1>5, Zenon DEF IInv

\* The records after an UPDATE that leaves d of p, with an actor of p up.
LEMMA RoutedGood ==
  ASSUME IInv, NEW p \in Peers, Live(actor, p), NEW d, Routed(peer[p], d)
  PROVE  Good([peer EXCEPT ![p] = d], released, actor)
<1>1. d \in PeerRecord /\ Sound(d) /\ Served(d, released)
  BY RecordOf DEF Routed
<1>2. Covers(d, Live(actor, p))
  BY DEF Covers
<1>q. QED BY <1>1, <1>2, OneGood, Zenon DEF IInv

LEMMA RouteStep ==
  ASSUME IInv, NEW a \in Actor, RouteUpdate(a)
  PROVE  IInv'
<1> DEFINE p == PeerOf(a)
<1>1. /\ p \in Peers /\ actor \in [Actor -> ActorRecord] /\ Live(actor, p)
      /\ peer[p].configured /\ released' = released
  BY Owner DEF IInv, Live, RouteUpdate
<1>2. PICK n \in Announces[p] :
        \E d \in {Announced(peer[p], n, how) : how \in How[p]} \cup {Withdrawn(peer[p], {n})} :
          IF OverLimit(p, d) THEN ResetSession(p, [peer EXCEPT ![p] = [d EXCEPT !.idle = p \in IdleHolds]])
          ELSE peer' = [peer EXCEPT ![p] = d] /\ UNCHANGED <<actor, rejected>>
  BY Zenon DEF RouteUpdate
<1>3. PICK d \in {Announced(peer[p], n, how) : how \in How[p]} \cup {Withdrawn(peer[p], {n})} :
          IF OverLimit(p, d) THEN ResetSession(p, [peer EXCEPT ![p] = [d EXCEPT !.idle = p \in IdleHolds]])
          ELSE peer' = [peer EXCEPT ![p] = d] /\ UNCHANGED <<actor, rejected>>
  BY <1>2, ZenonT(40)
<1> HIDE DEF p
<1>4. n \in Nlris /\ How[p] \subseteq Fates
  BY <1>1, <1>2, PeersAssumption
<1>5. peer[p] \in PeerRecord /\ Sound(peer[p])
  BY <1>1, RecordOf
<1>6. Routed(peer[p], d)
  <2>1. CASE d = Withdrawn(peer[p], {n})
    BY <1>4, <1>5, <2>1, WithdrawnRouted
  <2>2. CASE d \in {Announced(peer[p], n, how) : how \in How[p]}
    <3>1. PICK how \in How[p] : d = Announced(peer[p], n, how)
      BY <2>2
    <3>2. how \in Fates
      BY <1>4
    <3>q. QED BY <1>1, <1>4, <1>5, <3>1, <3>2, AnnouncedRouted
  <2>q. QED BY <1>3, <2>1, <2>2
<1>7. CASE ~OverLimit(p, d)
  <2>1. peer' = [peer EXCEPT ![p] = d] /\ actor' = actor /\ rejected' = rejected
    BY <1>3, <1>7
  <2>2. Good(peer', released, actor)
    BY <1>1, <1>6, <2>1, RoutedGood, Zenon
  <2>q. QED BY <1>1, <2>1, <2>2 DEF IInv
<1>8. CASE OverLimit(p, d)
  <2> DEFINE x == p \in IdleHolds
             e == [d EXCEPT !.idle = x]
             ds == [peer EXCEPT ![p] = e]
  <2>1. d \in PeerRecord /\ Sound(d) /\ d.configured
    BY <1>1, <1>6 DEF Routed
  <2>2. x \in BOOLEAN
    OBVIOUS
  <2>3. ResetSession(p, ds)
    BY <1>3, <1>8
  <2> HIDE DEF x
  <2>4. Same(d, e)
    BY <2>1, <2>2, FlagSame, ZenonT(40)
  <2> HIDE DEF e
  <2>5. e \in PeerRecord /\ Sound(e) /\ \A rel : Served(d, rel) => Served(e, rel)
    BY <2>4 DEF Same
  <2>6. Served(e, released)
    BY <1>1, <1>6, <2>5, RecordOf DEF Routed
  <2>7. Covers(e, Live(actor, p))
    BY <1>1 DEF Covers
  <2>8. Good(ds, released, actor)
    BY <1>1, <2>5, <2>6, <2>7, OneGood, Zenon DEF IInv
  <2> HIDE DEF ds
  <2>q. QED BY <1>1, <2>3, <2>8, ResetStep
<1>q. QED BY <1>7, <1>8

LEMMA MalformedStep ==
  ASSUME IInv, NEW a \in Actor, Malformed(a)
  PROVE  IInv'
<1>1. /\ PeerOf(a) \in Peers /\ ResetSession(PeerOf(a), peer) /\ released' = released
      /\ Good(peer, released, actor)
  BY Owner DEF Malformed, IInv
<1>q. QED BY <1>1, ResetStep

LEMMA EorStep ==
  ASSUME IInv, NEW a \in Actor, NEW f \in Family, EorReceived(a, f)
  PROVE  IInv'
<1> DEFINE p == PeerOf(a)
           e == EndOfRib(peer[p], f)
           ds == [peer EXCEPT ![p] = e]
<1>1. /\ p \in Peers /\ actor \in [Actor -> ActorRecord] /\ Live(actor, p)
      /\ peer \in [Peers -> PeerRecord] /\ actor' = actor /\ rejected' = rejected
  BY Owner DEF IInv, Live, EorReceived, Good
<1>2. Recompute(ds)
  BY <1>1 DEF EorReceived
<1>3. Routed(peer[p], e)
  BY <1>1, RecordOf, EndOfRibRouted
<1> HIDE DEF p, e
<1>4. Good(ds, released, actor)
  BY <1>1, <1>3, RoutedGood, Zenon
<1> HIDE DEF ds
<1>5. Good(peer', released', actor)
  BY <1>2, <1>4, ReleaseGood DEF Recompute
<1>6. released' \subseteq Family
  BY <1>2 DEF Recompute, Release, OpenFor, IInv
<1>q. QED BY <1>1, <1>5, <1>6 DEF IInv

LEMMA CommandSteps ==
  ASSUME IInv, NEW ps, NEW c \in {"Stop", "Notification"}, actor' = Command(actor, ps, c),
         rejected' \subseteq Peers, released' = released, Good(peer', released, actor)
  PROVE  IInv'
<1>1. actor \in [Actor -> ActorRecord]
  BY DEF IInv
<1>2. actor' \in [Actor -> ActorRecord] /\ \A q \in Peers : Live(actor, q) => Live(actor', q)
  BY <1>1, Commanded
<1>3. Good(peer', released, actor')
  BY <1>2, ActorsGood
<1>q. QED BY <1>2, <1>3 DEF IInv

LEMMA DeadlineStep ==
  ASSUME IInv, NEW p \in Peers, GrDeadline(p)
  PROVE  IInv'
<1> DEFINE e == [Flushed(peer[p]) EXCEPT !.armed = FALSE, !.stale = {}]
<1>1. peer \in [Peers -> PeerRecord] /\ Good(peer, released, actor)
  BY DEF IInv, Good
<1>2. /\ peer[p].armed /\ UNCHANGED <<released, rejected, actor>>
      /\ peer' = [peer EXCEPT ![p] = e]
  BY <1>1 DEF GrDeadline
<1>3. Down(e)
  BY <1>2, RecordOf, DeadlineDown, Zenon
<1> HIDE DEF e
<1>4. e \in PeerRecord /\ Sound(e) /\ Covers(e, Live(actor, p)) /\ Served(e, released)
  BY <1>3, DownServed, LiveCovers, Zenon DEF Down
<1>5. Good(peer', released, actor)
  BY <1>1, <1>2, <1>4, OneGood, Zenon
<1>q. QED BY <1>2, <1>5 DEF IInv

\* A flag of one record changes.
LEMMA SameGood ==
  ASSUME IInv, NEW p \in Peers, NEW e, Same(peer[p], e)
  PROVE  Good([peer EXCEPT ![p] = e], released, actor)
<1>1. e \in PeerRecord /\ Sound(e) /\ Covers(e, Live(actor, p)) /\ Served(e, released)
  BY RecordOf DEF Same
<1>q. QED BY <1>1, OneGood DEF IInv

LEMMA IdleStep ==
  ASSUME IInv, NEW p \in Peers, IdleHoldExpires(p)
  PROVE  IInv'
<1>1. peer \in [Peers -> PeerRecord]
  BY DEF IInv, Good
<1>2. UNCHANGED <<released, rejected, actor>> /\ peer' = [peer EXCEPT ![p] = [peer[p] EXCEPT !.idle = FALSE]]
  BY <1>1 DEF IdleHoldExpires
<1>3. Same(peer[p], [peer[p] EXCEPT !.idle = FALSE])
  BY RecordOf, FlagSame, Zenon
<1>4. Good(peer', released, actor)
  BY <1>2, <1>3, SameGood, Zenon
<1>q. QED BY <1>2, <1>4 DEF IInv

LEMMA RemoveStep ==
  ASSUME IInv, NEW p \in Peers, RemovePeer(p)
  PROVE  IInv'
<1>1. peer \in [Peers -> PeerRecord] /\ rejected \subseteq Peers
  BY DEF IInv, Good
<1>2. /\ peer[p].configured /\ UNCHANGED <<released, rejected>>
      /\ peer' = [peer EXCEPT ![p] = [peer[p] EXCEPT !.pending = TRUE]]
  BY <1>1 DEF RemovePeer
<1>3. PICK c \in {"Stop", "Notification"} : actor' = Command(actor, {p}, c)
  BY DEF RemovePeer
<1>4. Same(peer[p], [peer[p] EXCEPT !.pending = TRUE])
  BY <1>2, RecordOf, FlagSame, Zenon
<1>5. Good(peer', released, actor)
  BY <1>2, <1>4, SameGood, ZenonT(40)
<1>q. QED BY <1>1, <1>2, <1>3, <1>5, CommandSteps, Zenon

LEMMA AddStep ==
  ASSUME IInv, NEW p \in Peers, AddPeer(p)
  PROVE  IInv'
<1> DEFINE d == peer[p]
           old == \E a \in Actors[p] : actor[a].link \notin {"none", "stopped"}
           left == {n \in Nlris : d.loc[n] # None}
           e == [d EXCEPT !.configured = TRUE, !.adj = {}, !.left = left, !.shared = old]
<1>1. peer \in [Peers -> PeerRecord] /\ Good(peer, released, actor) /\ actor \in [Actor -> ActorRecord]
  BY DEF IInv, Good
<1>2. ~d.configured /\ UNCHANGED <<released, rejected>>
  BY Zenon DEF AddPeer
<1>3. peer' = [peer EXCEPT ![p] = e]
  BY <1>1, ZenonT(40) DEF AddPeer, PeerRecord
<1>4. PICK a \in Actors[p] : actor[a].link = "none" /\ actor' = [actor EXCEPT ![a].link = "idle"]
  BY Zenon DEF AddPeer
<1>5. a \in Actor
  BY ActorOf, SMTT(40)
<1>6. actor' \in [Actor -> ActorRecord] /\ \A q \in Peers : Live(actor, q) => Live(actor', q)
  BY <1>1, <1>4, <1>5, Moved, ZenonT(90) DEF Links
<1>7. (Live(actor, p) => old) /\ old \in BOOLEAN
  BY DEF Live
<1>8. d \in PeerRecord /\ Sound(d) /\ Covers(d, Live(actor, p))
  BY RecordOf
<1>e. left \in SUBSET Nlris /\ left = {n \in Nlris : d.loc[n] # None}
  OBVIOUS
<1> HIDE DEF d, old, left
<1>f. /\ e \in PeerRecord /\ e.configured = TRUE /\ e.left = left /\ e.shared = old
      /\ e.loc = d.loc /\ e.up = d.up /\ e.armed = d.armed /\ e.cap = d.cap
      /\ e.orphan = d.orphan
  BY <1>7, <1>8, <1>e, ZenonT(40) DEF PeerRecord
<1> HIDE DEF e
<1>9. e \in PeerRecord /\ Sound(e) /\ Covers(e, Live(actor, p)) /\ \A rel : Served(e, rel)
  BY <1>2, <1>7, <1>8, <1>e, <1>f, AddedServed
<1>10. Good(peer', released, actor)
  BY <1>1, <1>3, <1>9, OneGood, Zenon
<1>11. Good(peer', released, actor')
  BY <1>6, <1>10, ActorsGood
<1>q. QED BY <1>2, <1>6, <1>11 DEF IInv

LEMMA StepInv == IInv /\ [Next]_vars => IInv'
<1> SUFFICES ASSUME IInv, [Next]_vars PROVE IInv'
  OBVIOUS
<1>1. CASE UNCHANGED vars
  BY <1>1, Zenon DEF vars, IInv, Good, Live
<1>2. ASSUME NEW a \in Actor,
             \/ GoesDown(a) \/ TakesCommand(a)
             \/ Established(a) \/ EstablishedRejected(a) \/ Terminated(a)
             \/ RouteUpdate(a) \/ Malformed(a)
             \/ \E f \in Family : EorReceived(a, f)
      PROVE  IInv'
  BY <1>2, ActorSteps, EstablishedStep, EstablishedRejectedStep, TerminatedStep, RouteStep,
     MalformedStep, EorStep
<1>3. ASSUME NEW p \in Peers,
             \/ StopStalled(p) \/ GrDeadline(p) \/ IdleHoldExpires(p)
             \/ AddPeer(p) \/ RemovePeer(p)
      PROVE  IInv'
  <2>1. CASE StopStalled(p)
    <3>1. /\ actor' = Command(actor, {p}, "Stop") /\ rejected' \subseteq Peers
          /\ released' = released /\ peer' = peer
      BY <2>1 DEF StopStalled, IInv
    <3>2. Good(peer', released, actor)
      BY <3>1 DEF IInv
    <3>q. QED BY <3>1, <3>2, CommandSteps
  <2>q. QED BY <1>3, <2>1, DeadlineStep, IdleStep, AddStep, RemoveStep
<1>4. CASE EndDrain
  <2>1. /\ actor' = Command(actor, rejected, "Stop") /\ rejected' \subseteq Peers
        /\ released' = released /\ peer' = peer
    BY <1>4 DEF EndDrain
  <2>2. Good(peer', released, actor)
    BY <2>1 DEF IInv
  <2>q. QED BY <2>1, <2>2, CommandSteps
<1>5. CASE DeferralTimer
  <2>1. Release(peer, Family) /\ actor' = actor /\ rejected' = rejected
    BY <1>5 DEF DeferralTimer
  <2>2. Good(peer', released', actor)
    BY <2>1, ReleaseGood DEF IInv
  <2>3. released' \subseteq Family
    BY <2>1 DEF Release, IInv
  <2>q. QED BY <2>1, <2>2, <2>3 DEF IInv
<1>q. QED BY <1>1, <1>2, <1>3, <1>4, <1>5 DEF Next

-----------------------------------------------------------------------------
(* The theorems.                                                           *)

\* The inductive invariant: what the handlers of the event loop and of the
\* command processor keep true of every address.
THEOREM Invariance == Spec => []IInv
<1>1. Init => IInv
  BY InitInv
<1>2. IInv /\ [Next]_vars => IInv'
  BY StepInv
<1>q. QED BY <1>1, <1>2, PTL DEF Spec

\* Nothing is kept about the sessions, restarts or idle hold of an address
\* once remove_peer has run, and every record has its type.
THEOREM TypeCorrect == Spec => []TypeOK
<1>1. IInv => TypeOK
  <2> SUFFICES ASSUME IInv PROVE TypeOK
    OBVIOUS
  <2>1. ASSUME NEW p \in Peers
        PROVE  LET d == peer[p]
               IN  /\ {d.configured, d.pending, d.up, d.nbit, d.armed, d.idle, d.shared, d.lost} \subseteq BOOLEAN
                   /\ d.cap \in Capabilities
                   /\ d.families \subseteq Family /\ d.eor \subseteq Family
                   /\ d.loc \in [Nlris -> {None, "fresh", "mp", "stale"}]
                   /\ d.adj \cup d.stale \cup d.left \cup d.orphan \subseteq Nlris
                   /\ d.dumped \in [Family -> Nat]
                   /\ ~d.configured => /\ ~(d.pending \/ d.armed \/ d.idle \/ d.nbit)
                                       /\ d.adj = {} /\ d.stale = {} /\ d.families = {}
    <3> DEFINE d == peer[p]
    <3>1. d \in PeerRecord /\ Sound(d)
      BY RecordOf
    <3> HIDE DEF d
    <3>2. /\ {d.configured, d.pending, d.up, d.nbit, d.armed, d.idle, d.shared, d.lost} \subseteq BOOLEAN
          /\ d.cap \in Capabilities
          /\ d.families \subseteq Family /\ d.eor \subseteq Family
          /\ d.loc \in [Nlris -> {None, "fresh", "mp", "stale"}]
          /\ d.adj \cup d.stale \cup d.left \cup d.orphan \subseteq Nlris
          /\ d.dumped \in [Family -> Nat]
      BY <3>1 DEF PeerRecord, LocMarks
    <3>3. ~d.configured => /\ ~(d.pending \/ d.armed \/ d.idle \/ d.nbit)
                           /\ d.adj = {} /\ d.stale = {} /\ d.families = {}
      BY <3>1 DEF Sound
    <3>q. QED BY <3>2, <3>3 DEF d
  <2>2. \A a \in Actor : /\ actor[a].link \in {"none", "idle", "up", "ended", "stopping", "stopped"}
                         /\ actor[a].cmd \in {None, "Stop", "Notification"}
    BY DEF IInv, ActorRecord
  <2>q. QED BY <2>1, <2>2 DEF TypeOK, IInv
<1>q. QED BY <1>1, Invariance, PTL

\* on_gr_deadline_expired never flushes the routes of an address whose session
\* is up or whose peer is gone: on_established and remove_peer disarm it.
THEOREM DeadlineNeverWhileUp == Spec => []DeadlineOnlyWhileDown
<1>1. IInv => DeadlineOnlyWhileDown
  BY RecordOf DEF DeadlineOnlyWhileDown, Sound
<1>q. QED BY <1>1, Invariance, PTL

\* Whatever the session and the restarts of a peer do, each of its Loc-RIB
\* entries has someone who will withdraw it: an actor whose end is to be
\* reported or the restart deadline.
THEOREM RoutesAccountedFor == Spec => []Accountable
<1>1. IInv => Accountable
  <2> SUFFICES ASSUME IInv, NEW p \in Peers, NEW n \in Nlris,
                      peer[p].configured, peer[p].loc[n] # None
               PROVE  /\ n \in peer[p].adj \/ n \in peer[p].left
                      /\ Answered(p) \/ n \in peer[p].orphan
    BY DEF Accountable
  <2>q. QED BY RecordOf DEF Sound, Covers, Answered, Live
<1>q. QED BY <1>1, Invariance, PTL

\* An established peer gets the table of a released family once, from
\* on_established or from catch_up, "never both, never neither".
THEOREM DumpedOnce == Spec => []OneDump
<1>1. IInv => OneDump
  BY RecordOf DEF OneDump, Served
<1>q. QED BY <1>1, Invariance, PTL

-----------------------------------------------------------------------------
(***************************************************************************)
(* Graceful restart: the list that End-of-RIB prunes holds the routes from *)
(* before the restart, all of them and no other.                           *)
(***************************************************************************)

-----------------------------------------------------------------------------
(* The invariant.                                                          *)

\* Actors that work for p, and whether one of them may be established next.
Working(acts, p) == {a \in Actors[p] : acts[a].link \notin {"none", "stopped"}}
Ready(acts, p) == \E a \in Actors[p] : acts[a].link = "idle"
Single(acts, p) == \A a, b \in Working(acts, p) : a = b

\* A stale route is on the list while the session is up; while it is down the
\* window that will make the list covers it. No route that was announced
\* again is on the list, nor, when a session may come up, covered by the
\* window.
Kept(d, ready) ==
  /\ ~d.configured => \A n \in Nlris : d.loc[n] # None => n \in d.left
  /\ d.configured /\ ready => ~d.up /\ \A n \in HeldRoutes(d) : d.loc[n] # "fresh"
  /\ \A n \in d.stale : d.loc[n] # "fresh"
  /\ \A n \in Nlris : d.loc[n] = "stale" =>
       n \in d.left \cup (IF d.up THEN d.stale ELSE HeldRoutes(d))

\* A configured peer has one actor, unless it is shared with its past.
KeptAt(d, acts, p) ==
  ~d.shared => (d.configured => Single(acts, p)) /\ Kept(d, Ready(acts, p))

AllKept(ds, acts) == \A p \in Peers : KeptAt(ds[p], acts, p)

KInv == IInv /\ AllKept(peer, actor)

-----------------------------------------------------------------------------
(* One record.                                                             *)

\* e differs from d in nothing that matters here.
Alike(d, e) ==
  /\ e \in PeerRecord
  /\ e.configured = d.configured /\ e.up = d.up /\ e.armed = d.armed
  /\ e.families = d.families /\ e.adj = d.adj /\ e.loc = d.loc
  /\ e.stale = d.stale /\ e.left = d.left /\ e.shared = d.shared

LEMMA AlikeKept ==
  ASSUME NEW d, NEW e, Alike(d, e)
  PROVE  /\ \A ready : Kept(d, ready) => Kept(e, ready)
         /\ \A acts, p : KeptAt(d, acts, p) => KeptAt(e, acts, p)
<1>1. HeldRoutes(e) = HeldRoutes(d)
  BY DEF Alike, HeldRoutes, Covered
<1>2. \A ready : Kept(d, ready) => Kept(e, ready)
  BY <1>1 DEF Alike, Kept
<1>q. QED BY <1>2 DEF Alike, KeptAt

LEMMA AlikeEdits ==
  ASSUME NEW d \in PeerRecord
  PROVE  /\ \A x \in BOOLEAN : Alike(d, [d EXCEPT !.lost = x])
         /\ \A x \in BOOLEAN : Alike(d, [d EXCEPT !.idle = x])
         /\ Alike(d, [d EXCEPT !.pending = TRUE])
         /\ \A fs : Alike(d, DumpAll(d, fs))
<1>1. ASSUME NEW fs PROVE Alike(d, DumpAll(d, fs))
  <2> DEFINE k == Counts(d, fs)
  <2>1. k \in [Family -> Nat] /\ DumpAll(d, fs) = [d EXCEPT !.dumped = k]
    BY DumpAllCounts DEF Counts, PeerRecord
  <2> HIDE DEF k
  <2>2. Alike(d, [d EXCEPT !.dumped = k])
    BY <2>1 DEF Alike, PeerRecord
  <2>q. QED BY <2>1, <2>2
<1>2. \A x \in BOOLEAN : Alike(d, [d EXCEPT !.lost = x])
  BY DEF Alike, PeerRecord
<1>3. \A x \in BOOLEAN : Alike(d, [d EXCEPT !.idle = x])
  BY DEF Alike, PeerRecord
<1>4. Alike(d, [d EXCEPT !.pending = TRUE])
  BY Zenon DEF Alike, PeerRecord
<1>q. QED BY <1>1, <1>2, <1>3, <1>4

\* The record once the session is up: what the window covered is on the list.
LEMMA OpenedKept ==
  ASSUME NEW d \in PeerRecord, Sound(d), Kept(d, TRUE)
  PROVE  /\ Opened(d) \in PeerRecord
         /\ Opened(d).configured = d.configured /\ Opened(d).shared = d.shared
         /\ Kept(Opened(d), FALSE)
<1> DEFINE adj == IF "v6" \in Covered(d) THEN d.adj ELSE d.adj \ V6
           left == {n \in Nlris : d.loc[n] # None /\ (n \in d.left \/ n \notin adj)}
           stale == Listed(d)
           r == Resumed(d)
           e == Opened(d)
<1>1. d.adj \subseteq Nlris /\ d.stale \subseteq Nlris /\ d.loc \in [Nlris -> LocMarks]
  BY DEF PeerRecord
<1>2. Listed(d) \subseteq Nlris
  BY <1>1 DEF Listed, HeldRoutes
<1>3. /\ r \in PeerRecord /\ r.left = d.left /\ r.stale = stale /\ r.loc = d.loc
      /\ r.configured = d.configured /\ r.shared = d.shared
  BY <1>2, Zenon DEF Resumed, PeerRecord
<1>4. adj \subseteq d.adj /\ left \subseteq Nlris /\ adj \subseteq Nlris
  BY <1>1
<1>5. Absent.dumped \in [Family -> Nat]
  BY AbsentFields DEF PeerRecord
<1>6. e = [r EXCEPT !.eor = {}, !.up = TRUE, !.adj = adj, !.dumped = Absent.dumped, !.left = left]
  BY <1>3 DEF Opened, PeerRecord
<1>7. /\ stale \subseteq HeldRoutes(d) \cup d.stale
      /\ HeldRoutes(d) \subseteq stale /\ HeldRoutes(d) \subseteq d.adj
  BY DEF Listed, HeldRoutes
<1>8. ~d.configured => stale = {} /\ adj = {}
  BY <1>4, <1>7 DEF Sound
<1>9. d.configured => \A n \in stale : d.loc[n] # "fresh"
  BY <1>7 DEF Kept
<1>10. d.configured => \A n \in Nlris : d.loc[n] = "stale" => n \in left \cup stale
  <2> SUFFICES ASSUME d.configured, NEW n \in Nlris, d.loc[n] = "stale", n \notin stale
               PROVE  n \in left
    OBVIOUS
  <2>1. n \in d.left \/ n \in HeldRoutes(d)
    BY DEF Kept
  <2>2. n \in d.left /\ d.loc[n] # None
    BY <1>7, <2>1, PeersAssumption
  <2>q. QED BY <2>2
<1>11. \A n \in Nlris : ~d.configured /\ d.loc[n] # None => n \in left
  BY <1>8 DEF Kept
<1> HIDE DEF r, adj, left, stale, e
<1>12. /\ e \in PeerRecord /\ e.up = TRUE /\ e.left = left /\ e.stale = r.stale
       /\ e.configured = r.configured /\ e.shared = r.shared /\ e.loc = r.loc
  BY ONLY <1>3, <1>4, <1>5, <1>6, Zenon DEF PeerRecord
<1>13. Kept(e, FALSE)
  <2>1. CASE d.configured
    <3>1. \A n \in e.stale : e.loc[n] # "fresh"
      BY <1>3, <1>9, <1>12, <2>1
    <3>2. \A n \in Nlris : e.loc[n] = "stale" => n \in e.left \cup e.stale
      BY <1>3, <1>10, <1>12, <2>1
    <3>q. QED BY <1>3, <1>12, <2>1, <3>1, <3>2 DEF Kept
  <2>2. CASE ~d.configured
    BY <1>3, <1>8, <1>11, <1>12, <2>2, PeersAssumption DEF Kept
  <2>q. QED BY <2>1, <2>2, Zenon
<1>q. QED BY <1>3, <1>12, <1>13, Zenon DEF e

\* on_established.
LEMMA EstablishedKept ==
  ASSUME NEW d \in PeerRecord, Sound(d), Kept(d, TRUE), NEW c \in Capabilities
  PROVE  Kept(OnEstablished(d, c), FALSE) /\ OnEstablished(d, c).shared = d.shared
         /\ OnEstablished(d, c).configured = d.configured
<1> DEFINE o == Opened(d)
           b == [o EXCEPT !.cap = c]
           z == DumpAll(b, released)
           fams == IF c.time THEN c.families ELSE {}
           n == c.time /\ c.n
           g == [z EXCEPT !.families = fams, !.nbit = n]
<1>1. o \in PeerRecord /\ o.configured = d.configured /\ o.shared = d.shared /\ Kept(o, FALSE) /\ o.up
  BY OpenedKept, OpenedSound, Zenon
<1>2. CASE ~d.configured
  <2>1. OnEstablished(d, c) = o
    BY <1>2 DEF OnEstablished, Opened
  <2>q. QED BY <1>1, <2>1, Zenon
<1>3. CASE d.configured
  <2>1. OnEstablished(d, c) = g
    BY <1>3 DEF OnEstablished, Opened
  <2> HIDE DEF o
  <2>2. Alike(o, b)
    BY <1>1, Zenon DEF PeerRecord, Alike
  <2> HIDE DEF b
  <2>3. Alike(b, z) /\ z \in PeerRecord
    <3>1. b \in PeerRecord
      BY <2>2 DEF Alike
    <3>2. Alike(b, z)
      BY <3>1, AlikeEdits, Zenon
    <3>q. QED BY <3>2 DEF Alike
  <2>4. fams \in SUBSET Family /\ n \in BOOLEAN
    BY DEF Capabilities
  <2> HIDE DEF z, fams, n
  <2>5. /\ g \in PeerRecord /\ g.configured = z.configured /\ g.up = z.up /\ g.loc = z.loc
        /\ g.stale = z.stale /\ g.left = z.left /\ g.shared = z.shared
    BY <2>3, <2>4, ZenonT(40) DEF PeerRecord
  <2>6. Kept(z, FALSE) /\ z.up /\ z.shared = d.shared /\ z.configured = d.configured
    BY <1>1, <2>2, <2>3, AlikeKept, Zenon DEF Alike
  <2> HIDE DEF g
  <2>7. Kept(g, FALSE)
    BY <2>5, <2>6 DEF Kept
  <2>q. QED BY <2>1, <2>5, <2>6, <2>7, Zenon
<1>q. QED BY <1>2, <1>3, Zenon

\* A record that Kept holds of whether an actor is ready or not.
Settled(e) == e \in PeerRecord /\ Kept(e, TRUE) /\ ~e.up

LEMMA SettledKept == \A e, ready : Settled(e) => Kept(e, ready)
BY DEF Settled, Kept

\* The window opens: what it keeps is stale, the rest is left.
LEMMA HeldSettled ==
  ASSUME NEW d \in PeerRecord, d.configured, \A n \in d.stale : d.loc[n] # "fresh"
  PROVE  Settled(Held(d)) /\ Held(d).shared = d.shared /\ Held(d).configured = d.configured
<1> DEFINE b == Ended(d)
           kept == {n \in d.adj : \E f \in d.families : n \in Of(f)}
           loc == [n \in Nlris |-> IF n \in kept THEN "stale" ELSE b.loc[n]]
           left == {n \in Nlris \ kept : d.loc[n] # None}
           orphan == b.orphan \ kept
           e == Held(d)
<1>1. /\ b \in PeerRecord /\ b.loc = d.loc /\ ~b.up /\ b.configured = d.configured
      /\ b.stale = d.stale /\ b.families = d.families
  BY EndedFields, Zenon
<1>2. b.shared = d.shared
  BY AbsentFields DEF Ended, PeerRecord
<1>3. kept \in SUBSET Nlris /\ left \in SUBSET Nlris /\ orphan \in SUBSET Nlris
  BY <1>1 DEF PeerRecord
<1>4. loc \in [Nlris -> LocMarks]
  BY <1>1 DEF PeerRecord, LocMarks
<1>5. e = [b EXCEPT !.armed = TRUE, !.adj = kept, !.loc = loc, !.left = left, !.orphan = orphan]
  BY <1>1 DEF Held, PeerRecord
<1>6. /\ \A n \in kept : loc[n] = "stale" /\ \E f \in d.families : n \in Of(f)
      /\ \A n \in Nlris : loc[n] = "stale" => n \in left \cup kept
      /\ \A n \in d.stale : n \in Nlris => loc[n] # "fresh"
  BY <1>1, <1>3, PeersAssumption
<1> HIDE DEF b, kept, loc, left, orphan, e
<1>7. /\ e \in PeerRecord /\ e.armed = TRUE /\ e.adj = kept /\ e.loc = loc /\ e.left = left
      /\ e.up = b.up /\ e.configured = b.configured /\ e.stale = b.stale
      /\ e.families = b.families /\ e.shared = b.shared
  BY ONLY <1>1, <1>3, <1>4, <1>5, ZenonT(40) DEF PeerRecord
<1>8. HeldRoutes(e) = kept
  BY <1>1, <1>6, <1>7 DEF HeldRoutes, Covered
<1>9. d.stale \subseteq Nlris
  BY DEF PeerRecord
<1>10. \A n \in HeldRoutes(e) : e.loc[n] # "fresh"
  BY <1>6, <1>7, <1>8
<1>11. \A n \in e.stale : e.loc[n] # "fresh"
  BY <1>1, <1>6, <1>7, <1>9
<1>12. \A n \in Nlris : e.loc[n] = "stale" => n \in e.left \cup HeldRoutes(e)
  BY <1>6, <1>7, <1>8
<1>13. Kept(e, TRUE)
  BY <1>1, <1>7, <1>10, <1>11, <1>12 DEF Kept
<1>q. QED BY <1>1, <1>2, <1>7, <1>13, Zenon DEF Settled, e

\* A record without routes.
LEMMA EmptySettled ==
  ASSUME NEW e \in PeerRecord, e.loc = [n \in Nlris |-> None], ~e.up
  PROVE  Settled(e)
<1>1. \A n \in Nlris : e.loc[n] = None /\ e.loc[n] # "fresh" /\ e.loc[n] # "stale"
  BY PeersAssumption
<1>2. HeldRoutes(e) \subseteq Nlris /\ e.stale \subseteq Nlris
  BY DEF HeldRoutes, PeerRecord
<1>q. QED BY <1>1, <1>2 DEF Settled, Kept

LEMMA RemovedSettled ==
  ASSUME NEW d \in PeerRecord
  PROVE  Settled(Removed(d)) /\ ~Removed(d).configured
<1> DEFINE ns == {n \in Nlris : d.loc[n] # None}
           z == Absent
           e == [z EXCEPT !.loc = d.loc, !.left = ns, !.orphan = ns]
<1>1. ns \in SUBSET Nlris /\ d.loc \in [Nlris -> LocMarks]
  BY DEF PeerRecord
<1>2. Removed(d) = e
  BY DEF Removed
<1>3. z \in PeerRecord /\ ~z.configured /\ ~z.up /\ z.stale = {}
  BY AbsentFields
<1>4. \A n \in Nlris : /\ d.loc[n] # None => n \in ns
                       /\ d.loc[n] = "stale" => n \in ns
  BY PeersAssumption
<1> HIDE DEF z, ns
<1>5. /\ e \in PeerRecord /\ e.loc = d.loc /\ e.left = ns /\ e.configured = z.configured
      /\ e.up = z.up /\ e.stale = z.stale
  BY <1>1, <1>3, Zenon DEF PeerRecord
<1> HIDE DEF e
<1>6. Kept(e, TRUE)
  BY <1>3, <1>4, <1>5 DEF Kept
<1>q. QED BY <1>2, <1>3, <1>5, <1>6, Zenon DEF Settled

\* on_terminated.
LEMMA TerminatedSettled ==
  ASSUME NEW d \in PeerRecord, Sound(d), NEW r, NEW ready, ~d.shared => Kept(d, ready)
  PROVE  /\ ~OnTerminated(d, r).shared => Settled(OnTerminated(d, r))
         /\ OnTerminated(d, r).configured /\ ~OnTerminated(d, r).shared => d.configured /\ ~d.shared
<1> DEFINE b == IF EntersGr(d, r) THEN Held(d) ELSE Flushed(Ended(d))
<1>1. OnTerminated(d, r) = IF d.pending THEN Removed(b) ELSE b
  BY DEF OnTerminated
<1>2. b \in PeerRecord /\ b.configured = d.configured /\ b.shared = d.shared /\ (~d.shared => Settled(b))
  <2>1. CASE EntersGr(d, r)
    <3>1. d.configured
      BY <2>1 DEF EntersGr, Sound
    <3>2. b = Held(d)
      BY <2>1
    <3>3. Held(d) \in PeerRecord
      BY <3>1, HeldDown, Zenon DEF Down
    <3>4. Held(d).shared = d.shared /\ Held(d).configured = d.configured
      <4>1. /\ Ended(d) \in PeerRecord /\ Ended(d).configured = d.configured
        BY EndedFields
      <4>2. Ended(d).shared = d.shared
        BY AbsentFields DEF Ended, PeerRecord
      <4> DEFINE w == Ended(d)
      <4>3. Held(d).shared = w.shared /\ Held(d).configured = w.configured
        <5> HIDE DEF w
        <5>q. QED BY <4>1 DEF Held, PeerRecord, w
      <4>q. QED BY <4>1, <4>2, <4>3
    <3>5. ~d.shared => Settled(Held(d))
      BY <3>1, HeldSettled DEF Kept
    <3>q. QED BY <3>2, <3>3, <3>4, <3>5
  <2>2. CASE ~EntersGr(d, r)
    <3> DEFINE w == Ended(d)
    <3>1. w \in PeerRecord /\ ~w.up /\ w.configured = d.configured
      BY EndedFields
    <3>2. w.shared = d.shared
      BY AbsentFields DEF Ended, PeerRecord
    <3>3. b = Flushed(w)
      BY <2>2
    <3> HIDE DEF w, b
    <3>4. /\ b \in PeerRecord /\ b.loc = [n \in Nlris |-> None] /\ ~b.up
          /\ b.configured = d.configured /\ b.shared = d.shared
      BY <3>1, <3>2, <3>3, FlushedFields
    <3>q. QED BY <3>4, EmptySettled
  <2>q. QED BY <2>1, <2>2
<1> HIDE DEF b
<1>q. QED BY <1>1, <1>2, RemovedSettled

\* on_gr_deadline_expired.
LEMMA DeadlineSettled ==
  ASSUME NEW d \in PeerRecord, Sound(d), d.armed
  PROVE  /\ Settled([Flushed(d) EXCEPT !.armed = FALSE, !.stale = {}])
         /\ [Flushed(d) EXCEPT !.armed = FALSE, !.stale = {}].configured = d.configured
         /\ [Flushed(d) EXCEPT !.armed = FALSE, !.stale = {}].shared = d.shared
<1> DEFINE b == Flushed(d)
           e == [b EXCEPT !.armed = FALSE, !.stale = {}]
<1>1. /\ b \in PeerRecord /\ b.loc = [n \in Nlris |-> None] /\ b.up = d.up
      /\ b.configured = d.configured /\ b.shared = d.shared
  BY FlushedFields
<1>2. ~d.up
  BY DEF Sound
<1> HIDE DEF b
<1>3. /\ e \in PeerRecord /\ e.loc = b.loc /\ e.up = b.up /\ e.configured = b.configured
      /\ e.shared = b.shared
  BY <1>1, ZenonT(40) DEF PeerRecord
<1> HIDE DEF e
<1>4. Settled(e)
  BY <1>1, <1>2, <1>3, EmptySettled
<1>q. QED BY <1>1, <1>3, <1>4 DEF e, b

-----------------------------------------------------------------------------
(* Routes.                                                                 *)

\* e says of m what d does, or at least nothing wrong.
Untouched(d, e, m) ==
  /\ e.loc[m] = d.loc[m]
  /\ m \in d.left => m \in e.left
  /\ m \in d.adj => m \in e.adj
  /\ m \in d.stale <=> m \in e.stale

Settles(e, m) ==
  /\ ~e.configured /\ e.loc[m] # None => m \in e.left
  /\ m \in e.stale => e.loc[m] # "fresh"
  /\ e.loc[m] = "stale" => m \in e.left

\* Only what the record says of the prefixes ns changes.
LEMMA RoutesKept ==
  ASSUME NEW d \in PeerRecord, NEW e \in PeerRecord, NEW ns, Kept(d, FALSE),
         e.configured = d.configured, e.up = d.up, e.armed = d.armed, e.families = d.families,
         \A m \in Nlris : m \notin ns => Untouched(d, e, m),
         \A m \in Nlris : m \in ns => Settles(e, m)
  PROVE  Kept(e, FALSE)
<1> USE DEF Untouched, Settles
<1>1. HeldRoutes(d) \ ns \subseteq HeldRoutes(e) /\ HeldRoutes(d) \subseteq Nlris /\ e.stale \subseteq Nlris
  BY DEF HeldRoutes, Covered, PeerRecord
<1>2. ~e.configured => \A n \in Nlris : e.loc[n] # None => n \in e.left
  BY DEF Kept
<1>3. \A n \in e.stale : e.loc[n] # "fresh"
  BY <1>1 DEF Kept
<1>4. \A n \in Nlris : e.loc[n] = "stale" => n \in e.left \cup (IF e.up THEN e.stale ELSE HeldRoutes(e))
  <2> SUFFICES ASSUME NEW n \in Nlris, e.loc[n] = "stale", n \notin ns
               PROVE  n \in e.left \cup (IF e.up THEN e.stale ELSE HeldRoutes(e))
    OBVIOUS
  <2>1. n \in d.left \cup (IF d.up THEN d.stale ELSE HeldRoutes(d))
    BY DEF Kept
  <2>q. QED BY <1>1, <2>1
<1>q. QED BY <1>2, <1>3, <1>4 DEF Kept

LEMMA WithdrawnKept ==
  ASSUME NEW d \in PeerRecord, Kept(d, FALSE), NEW ns \in SUBSET Nlris
  PROVE  /\ Withdrawn(d, ns) \in PeerRecord /\ Kept(Withdrawn(d, ns), FALSE)
         /\ Withdrawn(d, ns).configured = d.configured /\ Withdrawn(d, ns).shared = d.shared
         /\ Withdrawn(d, ns).stale = d.stale /\ Withdrawn(d, ns).eor = d.eor
         /\ \A n \in ns : Withdrawn(d, ns).loc[n] = None
<1> DEFINE loc == [n \in Nlris |-> IF n \in ns THEN None ELSE d.loc[n]]
           e == Withdrawn(d, ns)
           left == d.left \ ns
           orphan == d.orphan \ ns
           adj == d.adj \ ns
<1>0. /\ d.left \in SUBSET Nlris /\ d.orphan \in SUBSET Nlris /\ d.adj \in SUBSET Nlris
      /\ d.loc \in [Nlris -> LocMarks]
  BY DEF PeerRecord
<1>1. loc \in [Nlris -> LocMarks]
  BY <1>0 DEF LocMarks
<1>2. e = [d EXCEPT !.adj = adj, !.loc = loc, !.left = left, !.orphan = orphan]
  BY DEF Withdrawn, PeerRecord
<1>3. /\ \A n \in Nlris : n \notin ns =>
           /\ loc[n] = d.loc[n]
           /\ n \in d.left => n \in left
           /\ n \in d.adj => n \in adj
      /\ \A n \in Nlris : n \in ns => loc[n] = None
  OBVIOUS
<1>4. adj \in SUBSET Nlris /\ left \in SUBSET Nlris /\ orphan \in SUBSET Nlris
  BY <1>0
<1> HIDE DEF loc, e, left, orphan, adj
<1>5. /\ e \in PeerRecord /\ e.adj = adj /\ e.loc = loc /\ e.left = left
      /\ e.stale = d.stale /\ e.eor = d.eor /\ e.configured = d.configured /\ e.up = d.up
      /\ e.families = d.families /\ e.armed = d.armed /\ e.shared = d.shared
  BY ONLY <1>1, <1>2, <1>4, d \in PeerRecord, Zenon DEF PeerRecord
<1>6. Kept(e, FALSE)
  <2>1. \A m \in Nlris : m \notin ns => Untouched(d, e, m)
    BY <1>3, <1>5 DEF Untouched
  <2>2. \A m \in Nlris : m \in ns => Settles(e, m)
    BY <1>3, <1>5, PeersAssumption DEF Settles
  <2>q. QED BY <1>5, <2>1, <2>2, RoutesKept, Zenon
<1>q. QED BY <1>3, <1>5, <1>6, Zenon DEF e

LEMMA EndOfRibKept ==
  ASSUME NEW d \in PeerRecord, Kept(d, FALSE), NEW f \in Family
  PROVE  /\ Kept(EndOfRib(d, f), FALSE)
         /\ EndOfRib(d, f).configured = d.configured /\ EndOfRib(d, f).shared = d.shared
<1> DEFINE gone == d.stale \cap Of(f)
           b == Withdrawn(d, gone)
           eor == b.eor \cup {f}
           stale == b.stale \ gone
           e == EndOfRib(d, f)
<1>1. gone \in SUBSET Nlris /\ d.eor \in SUBSET Family /\ d.stale \in SUBSET Nlris
  BY DEF PeerRecord
<1>2. /\ b \in PeerRecord /\ Kept(b, FALSE) /\ b.configured = d.configured
      /\ b.shared = d.shared /\ b.stale = d.stale /\ b.eor = d.eor
      /\ \A n \in gone : b.loc[n] = None
  BY <1>1, WithdrawnKept, Zenon
<1>3. e = [b EXCEPT !.eor = eor, !.stale = stale]
  BY <1>2 DEF EndOfRib, PeerRecord
<1>4. eor \in SUBSET Family /\ stale \in SUBSET Nlris
  BY <1>1, <1>2
<1>5. \A m \in Nlris : m \notin gone => (m \in b.stale <=> m \in stale)
  OBVIOUS
<1> HIDE DEF gone, b, eor, stale, e
<1>6. /\ e \in PeerRecord /\ e.adj = b.adj /\ e.loc = b.loc /\ e.left = b.left
      /\ e.stale = stale /\ e.configured = b.configured /\ e.up = b.up
      /\ e.families = b.families /\ e.armed = b.armed /\ e.shared = b.shared
  BY ONLY <1>2, <1>3, <1>4, ZenonT(40) DEF PeerRecord
<1>7. Kept(e, FALSE)
  <2>1. \A m \in Nlris : m \in gone => Settles(e, m)
    BY <1>2, <1>6, PeersAssumption DEF Settles
  <2>2. \A m \in Nlris : m \notin gone => Untouched(b, e, m)
    BY <1>5, <1>6 DEF Untouched
  <2>q. QED BY <1>2, <1>6, <2>1, <2>2, RoutesKept, Zenon
<1>q. QED BY <1>2, <1>6, <1>7, Zenon DEF e

LEMMA AnnouncedKept ==
  ASSUME NEW d \in PeerRecord, Kept(d, FALSE), d.configured, NEW n \in Nlris, NEW how \in Fates
  PROVE  /\ Kept(Announced(d, n, how), FALSE)
         /\ Announced(d, n, how).configured = d.configured
         /\ Announced(d, n, how).shared = d.shared
<1> DEFINE b == IF how = "mp" /\ n \in V4 THEN d ELSE Refreshed(d, n)
           e == Announced(d, n, how)
           mark == IF how = "mp" /\ n \in V4 THEN "mp" ELSE "fresh"
           more == {m \in {n} : d.loc[n] # None}
           adj == d.adj \cup {n}
           loc == [d.loc EXCEPT ![n] = mark]
           less == d.left \ {n}
           orphan == d.orphan \ {n}
           left == d.left \cup more
<1>0. /\ d.left \in SUBSET Nlris /\ d.orphan \in SUBSET Nlris /\ d.adj \in SUBSET Nlris
      /\ d.stale \in SUBSET Nlris /\ d.loc \in [Nlris -> LocMarks]
  BY DEF PeerRecord
<1>1. d.stale \ {n} \in SUBSET Nlris
  BY <1>0
<1>2. Refreshed(d, n) = [d EXCEPT !.stale = d.stale \ {n}]
  BY DEF Refreshed, PeerRecord
<1>3. /\ b \in PeerRecord /\ b.adj = d.adj /\ b.loc = d.loc /\ b.left = d.left
      /\ b.orphan = d.orphan /\ b.configured = d.configured /\ b.up = d.up
      /\ b.families = d.families /\ b.armed = d.armed /\ b.shared = d.shared
      /\ b.stale = IF how = "mp" /\ n \in V4 THEN d.stale ELSE d.stale \ {n}
  BY <1>1, <1>2, ZenonT(40) DEF PeerRecord
<1>4. how \in {"accepted", "mp", "rejected", "skipped"}
  BY DEF Fates
<1>5. /\ adj \in SUBSET Nlris /\ loc \in [Nlris -> LocMarks] /\ less \in SUBSET Nlris
      /\ orphan \in SUBSET Nlris /\ left \in SUBSET Nlris
  BY <1>0 DEF LocMarks
<1>6. /\ \A m \in Nlris : m \notin {n} =>
           /\ loc[m] = d.loc[m]
           /\ m \in d.left => m \in less /\ m \in left
           /\ m \in d.adj => m \in adj
           /\ m \in d.stale <=> m \in b.stale
      /\ loc[n] # "stale" /\ (n \in b.stale => loc[n] # "fresh")
      /\ d.loc[n] = "stale" => n \in left
      /\ how # "mp" => n \notin b.stale
  BY <1>0, <1>3, PeersAssumption
<1>7. CASE how \in {"accepted", "mp"}
  <2>1. e = [b EXCEPT !.adj = adj, !.loc = loc, !.left = less, !.orphan = orphan]
    <3>1. CASE how = "accepted"
      <4>1. e = [b EXCEPT !.adj = b.adj \cup {n}, !.loc = [b.loc EXCEPT ![n] = "fresh"],
                          !.left = b.left \ {n}, !.orphan = b.orphan \ {n}]
        <5> HIDE DEF b
        <5>q. QED BY <1>3, <3>1 DEF Announced, PeerRecord, b
      <4>q. QED BY <4>1, <3>1, <1>3, Zenon
    <3>2. CASE how = "mp"
      <4>1. e = [b EXCEPT !.adj = b.adj \cup {n}, !.loc = [b.loc EXCEPT ![n] = IF n \in V4 THEN "mp" ELSE "fresh"],
                          !.left = b.left \ {n}, !.orphan = b.orphan \ {n}]
        <5> HIDE DEF b
        <5>q. QED BY <1>3, <3>2 DEF Announced, PeerRecord, b
      <4>q. QED BY <4>1, <3>2, <1>3, Zenon
    <3>q. QED BY <1>7, <3>1, <3>2
  <2> HIDE DEF b, e, adj, loc, less, orphan
  <2>2. /\ e \in PeerRecord /\ e.adj = adj /\ e.loc = loc /\ e.left = less
        /\ e.stale = b.stale /\ e.configured = b.configured /\ e.up = b.up
        /\ e.families = b.families /\ e.armed = b.armed /\ e.shared = b.shared
    BY ONLY <1>3, <1>5, <2>1, ZenonT(40) DEF PeerRecord
  <2>3. Kept(e, FALSE)
    <3>1. \A m \in Nlris : m \notin {n} => Untouched(d, e, m)
      BY <1>6, <2>2 DEF Untouched
    <3>2. \A m \in Nlris : m \in {n} => Settles(e, m)
      BY <1>3, <1>6, <2>2 DEF Settles
    <3>q. QED BY <1>3, <2>2, <3>1, <3>2, RoutesKept, Zenon
  <2>q. QED BY <1>3, <2>2, <2>3, Zenon DEF e
<1>8. CASE how \in {"rejected", "skipped"}
  <2> DEFINE some == IF how = "rejected" THEN adj ELSE b.adj
  <2>0. some \in SUBSET Nlris /\ d.adj \subseteq some
    BY <1>0, <1>3, <1>5
  <2>1. e = [b EXCEPT !.adj = some, !.left = left]
    <3>1. CASE how = "rejected"
      BY <1>3, <3>1, Zenon DEF Announced, PeerRecord
    <3>2. CASE how = "skipped"
      <4>1. e = [b EXCEPT !.left = left]
        BY <1>3, <3>2, Zenon DEF Announced, PeerRecord
      <4>2. some = b.adj
        BY <3>2
      <4> HIDE DEF b, e, left, some
      <4>3. [b EXCEPT !.left = left] = [b EXCEPT !.adj = b.adj, !.left = left]
        BY <1>3, <1>5, Zenon DEF PeerRecord
      <4>q. QED BY <4>1, <4>2, <4>3
    <3>q. QED BY <1>8, <3>1, <3>2
  <2> HIDE DEF b, e, some, left
  <2>2. /\ e \in PeerRecord /\ e.adj = some /\ e.loc = b.loc /\ e.left = left
        /\ e.stale = b.stale /\ e.configured = b.configured /\ e.up = b.up
        /\ e.families = b.families /\ e.armed = b.armed /\ e.shared = b.shared
    BY ONLY <1>3, <1>5, <2>0, <2>1, Zenon DEF PeerRecord
  <2>3. Kept(e, FALSE)
    <3>1. \A m \in Nlris : m \notin {n} => Untouched(d, e, m)
      BY <1>3, <1>6, <2>0, <2>2 DEF Untouched
    <3>2. \A m \in Nlris : m \in {n} => Settles(e, m)
      BY <1>3, <1>6, <1>8, <2>2 DEF Settles
    <3>q. QED BY <1>3, <2>2, <3>1, <3>2, RoutesKept, Zenon
  <2>q. QED BY <1>3, <2>2, <2>3, Zenon DEF e
<1>q. QED BY <1>4, <1>7, <1>8, Zenon

-----------------------------------------------------------------------------
(* All peers.                                                              *)

\* No actor of p starts to work or becomes ready.
Calms(acts, next, p) ==
  \A a \in Actors[p] :
    /\ next[a].link \notin {"none", "stopped"} => acts[a].link \notin {"none", "stopped"}
    /\ next[a].link = "idle" => acts[a].link = "idle"

Eases(k, l) ==
  /\ l \notin {"none", "stopped"} => k \notin {"none", "stopped"}
  /\ l = "idle" => k = "idle"

LEMMA CalmKept ==
  ASSUME NEW d, NEW acts, NEW next, NEW p, KeptAt(d, acts, p), Calms(acts, next, p)
  PROVE  KeptAt(d, next, p)
<1>1. Single(acts, p) => Single(next, p)
  BY DEF Single, Working, Calms
<1>2. Ready(next, p) => Ready(acts, p)
  BY DEF Ready, Calms
<1>3. Kept(d, Ready(acts, p)) => Kept(d, Ready(next, p))
  BY <1>2 DEF Kept
<1>q. QED BY <1>1, <1>3 DEF KeptAt

\* Actors move; the record of p changes.
LEMMA OneKept ==
  ASSUME NEW ds \in [Peers -> PeerRecord], NEW acts, NEW next, AllKept(ds, acts),
         NEW p \in Peers, NEW e, KeptAt(e, next, p),
         \A q \in Peers \ {p} : Calms(acts, next, q)
  PROVE  AllKept([ds EXCEPT ![p] = e], next)
<1> SUFFICES ASSUME NEW q \in Peers PROVE KeptAt([ds EXCEPT ![p] = e][q], next, q)
  BY DEF AllKept
<1>1. CASE q = p
  <2>1. [ds EXCEPT ![p] = e][q] = e
    BY <1>1
  <2>q. QED BY <1>1, <2>1
<1>2. CASE q # p
  <2>1. [ds EXCEPT ![p] = e][q] = ds[q]
    BY <1>2
  <2>2. KeptAt(ds[q], acts, q) /\ Calms(acts, next, q)
    BY <1>2 DEF AllKept
  <2>q. QED BY <2>1, <2>2, CalmKept
<1>q. QED BY <1>1, <1>2

LEMMA ActorsKept ==
  ASSUME NEW ds, NEW acts, NEW next, AllKept(ds, acts), \A q \in Peers : Calms(acts, next, q)
  PROVE  AllKept(ds, next)
BY CalmKept DEF AllKept

LEMMA AllAlike ==
  ASSUME NEW ds, NEW es, NEW acts, AllKept(ds, acts), \A q \in Peers : Alike(ds[q], es[q])
  PROVE  AllKept(es, acts)
BY AlikeKept DEF AllKept

LEMMA ReleaseKept ==
  ASSUME NEW ds \in [Peers -> PeerRecord], NEW acts, AllKept(ds, acts), NEW fs, Release(ds, fs)
  PROVE  AllKept(peer', acts)
<1> DEFINE es == [q \in Peers |-> DumpAll(ds[q], fs \ released)]
<1>1. peer' = es
  BY DEF Release
<1>2. ASSUME NEW q \in Peers PROVE Alike(ds[q], es[q])
  BY AlikeEdits, Zenon
<1> HIDE DEF es
<1>q. QED BY <1>1, <1>2, AllAlike

LEMMA MovedCalm ==
  ASSUME NEW acts \in [Actor -> ActorRecord], NEW a \in Actor, NEW l \in Links
  PROVE  /\ \A q \in Peers \ {PeerOf(a)} : Calms(acts, [acts EXCEPT ![a].link = l], q)
         /\ Eases(acts[a].link, l) => \A q \in Peers : Calms(acts, [acts EXCEPT ![a].link = l], q)
<1> DEFINE next == [acts EXCEPT ![a].link = l]
<1>1. next[a].link = l /\ \A b \in Actor \ {a} : next[b] = acts[b]
  BY Moved
<1> HIDE DEF next
<1>2. \A q \in Peers \ {PeerOf(a)} : Calms(acts, next, q)
  BY <1>1, Owner, ActorOf DEF Calms
<1>3. Eases(acts[a].link, l) => \A q \in Peers : Calms(acts, next, q)
  BY <1>1, ActorOf DEF Calms, Eases
<1>q. QED BY <1>2, <1>3, Zenon DEF next

LEMMA CommandedCalm ==
  ASSUME NEW acts \in [Actor -> ActorRecord], NEW ps, NEW c \in {"Stop", "Notification"}
  PROVE  \A q \in Peers : Calms(acts, Command(acts, ps, c), q)
<1>1. \A a \in Actor : Command(acts, ps, c)[a].link = acts[a].link
  BY Commanded
<1>q. QED BY <1>1, ActorOf DEF Calms

\* A working actor of a configured peer that is not shared is its only one;
\* once it is up, none is ready.
LEMMA OnlyActor ==
  ASSUME NEW acts, NEW p, NEW a \in Actors[p], Single(acts, p), acts[a].link \notin {"none", "stopped"},
         NEW b \in Actors[p], b # a
  PROVE  acts[b].link \in {"none", "stopped"}
BY DEF Single, Working

LEMMA UpNotReady ==
  ASSUME NEW acts, NEW p, NEW a \in Actors[p], acts[a].link = "up", Single(acts, p)
  PROVE  ~Ready(acts, p)
BY OnlyActor DEF Ready

\* Announcements do not change who the record belongs to.
LEMMA AnnouncedShared ==
  ASSUME NEW d \in PeerRecord, NEW n \in Nlris, NEW how \in Fates
  PROVE  Announced(d, n, how).shared = d.shared
<1> DEFINE b == IF how = "mp" /\ n \in V4 THEN d ELSE Refreshed(d, n)
<1>1. Refreshed(d, n) = [d EXCEPT !.stale = d.stale \ {n}] /\ d.stale \ {n} \in SUBSET Nlris
  BY DEF Refreshed, PeerRecord
<1>2. b \in PeerRecord /\ b.shared = d.shared
  BY <1>1 DEF PeerRecord
<1>3. how \in {"accepted", "mp", "rejected", "skipped"}
  BY DEF Fates
<1> HIDE DEF b
<1>4. CASE how = "accepted"
  BY <1>2, <1>4, Zenon DEF Announced, PeerRecord, b
<1>5. CASE how = "mp"
  BY <1>2, <1>5, Zenon DEF Announced, PeerRecord, b
<1>6. CASE how = "rejected"
  BY <1>2, <1>6, ZenonT(40) DEF Announced, PeerRecord, b
<1>7. CASE how = "skipped"
  BY <1>2, <1>7 DEF Announced, PeerRecord, b
<1>q. QED BY <1>3, <1>4, <1>5, <1>6, <1>7

\* A record changed by an actor that is up.
LEMMA UpKept ==
  ASSUME NEW d, NEW e, NEW acts, NEW p, NEW a \in Actors[p], acts[a].link = "up", KeptAt(d, acts, p),
         e.shared = d.shared, e.configured = d.configured,
         Kept(d, FALSE) => Kept(e, FALSE)
  PROVE  KeptAt(e, acts, p)
<1> SUFFICES ASSUME ~d.shared PROVE (d.configured => Single(acts, p)) /\ Kept(e, Ready(acts, p))
  BY DEF KeptAt
<1>1. (d.configured => Single(acts, p)) /\ Kept(d, Ready(acts, p))
  BY ZenonT(40) DEF KeptAt
<1>2. Kept(d, FALSE)
  BY <1>1, ZenonT(40) DEF Kept
<1>3. Kept(e, FALSE)
  BY <1>2, Zenon
<1>4. d.configured => ~Ready(acts, p)
  BY <1>1, UpNotReady, Zenon
<1>5. Kept(e, Ready(acts, p))
  BY <1>3, <1>4 DEF Kept
<1>q. QED BY <1>1, <1>5

-----------------------------------------------------------------------------
(* The steps.                                                              *)

LEMMA KeptInit == Init => AllKept(peer, actor)
<1> SUFFICES ASSUME Init, NEW p \in Peers PROVE KeptAt(peer[p], actor, p)
  BY DEF AllKept
<1> PICK plan \in Plans :
       /\ peer = [q \in Peers |-> [Absent EXCEPT !.configured = q \in plan]]
       /\ actor = [a \in Actor |->
                     [NoActor EXCEPT !.link =
                        IF PeerOf(a) \notin plan THEN "stopped"
                        ELSE IF \A b \in Actors[PeerOf(a)] : a <= b THEN "idle" ELSE "none"]]
  BY Zenon DEF Init
<1>1. Settled(peer[p])
  <2> DEFINE z == Absent
             x == p \in plan
             e == [z EXCEPT !.configured = x]
  <2>1. peer[p] = e /\ z \in PeerRecord /\ x \in BOOLEAN /\ z.loc = [n \in Nlris |-> None] /\ ~z.up
    BY AbsentFields
  <2> HIDE DEF z, x
  <2>2. e \in PeerRecord /\ e.up = z.up /\ e.loc = z.loc
    BY <2>1, ZenonT(40) DEF PeerRecord
  <2> HIDE DEF e
  <2>3. Settled(e)
    BY <2>1, <2>2, EmptySettled
  <2>q. QED BY <2>1, <2>3
<1>2. Single(actor, p)
  <2> SUFFICES ASSUME NEW a \in Working(actor, p), NEW b \in Working(actor, p) PROVE a = b
    BY Zenon DEF Single
  <2>1. a \in Actors[p] /\ b \in Actors[p] /\ a \in Actor /\ b \in Actor
    BY ActorOf DEF Working
  <2>2. PeerOf(a) = p /\ PeerOf(b) = p
    BY <2>1, Owner
  <2>3. ASSUME NEW c \in Actor, PeerOf(c) = p, actor[c].link \notin {"none", "stopped"}
        PROVE  \A k \in Actors[p] : c <= k
    BY <2>3 DEF NoActor
  <2>4. a <= b /\ b <= a
    BY <2>1, <2>2, <2>3 DEF Working
  <2>5. a \in Nat /\ b \in Nat
    BY <2>1, PeersAssumption
  <2>q. QED BY ONLY <2>4, <2>5
<1>q. QED BY <1>1, <1>2, SettledKept DEF KeptAt

LEMMA KeptActorSteps ==
  ASSUME KInv, NEW a \in Actor, GoesDown(a) \/ TakesCommand(a)
  PROVE  AllKept(peer', actor')
<1>1. actor \in [Actor -> ActorRecord] /\ AllKept(peer, actor) /\ peer' = peer
  BY DEF KInv, IInv, GoesDown, TakesCommand
<1>2. \A q \in Peers : Calms(actor, actor', q)
  <2>1. CASE GoesDown(a)
    <3>1. actor' = [actor EXCEPT ![a].link = "ended"] /\ actor[a].link = "up" /\ "ended" \in Links
      BY <2>1 DEF GoesDown, Links
    <3>2. Eases("up", "ended")
      BY DEF Eases
    <3>q. QED BY <1>1, <3>1, <3>2, MovedCalm, Zenon
  <2>2. CASE TakesCommand(a)
    <3>1. PICK l \in CASE actor[a].link = "up" -> {"stopping"}
                       [] actor[a].link = "idle" /\ actor[a].cmd = "Stop" -> {"idle", "stopped"}
                       [] actor[a].link = "ended" /\ actor[a].cmd = "Stop" -> {"ended", "stopping"}
                       [] OTHER -> {actor[a].link} :
                 actor' = [actor EXCEPT ![a].link = l, ![a].cmd = None]
      BY <2>2, ZenonT(40) DEF TakesCommand
    <3>2. actor[a] \in ActorRecord
      BY <1>1
    <3>3. /\ l \in Links
          /\ l \notin {"none", "stopped"} => actor[a].link \notin {"none", "stopped"}
          /\ l = "idle" => actor[a].link = "idle"
      BY <3>1, <3>2 DEF ActorRecord, Links
    <3>4. /\ actor'[a].link = l
          /\ \A b \in Actor \ {a} : actor'[b] = actor[b]
      BY <1>1, <3>1, <3>2, <3>3 DEF ActorRecord, Links
    <3>q. QED BY <3>3, <3>4, ActorOf DEF Calms
  <2>q. QED BY <2>1, <2>2
<1>q. QED BY <1>1, <1>2, ActorsKept

LEMMA KeptEstablished ==
  ASSUME KInv, NEW a \in Actor, Established(a)
  PROVE  AllKept(peer', actor')
<1> DEFINE p == PeerOf(a)
<1>1. /\ p \in Peers /\ a \in Actors[p] /\ actor \in [Actor -> ActorRecord] /\ IInv
      /\ AllKept(peer, actor) /\ peer \in [Peers -> PeerRecord] /\ KeptAt(peer[p], actor, p)
  BY Owner, ZenonT(40) DEF KInv, IInv, Good, AllKept
<1>2. PICK c \in Offers[p] :
        LET ds == [peer EXCEPT ![p] = OnEstablished(@, c)]
        IN  IF peer[p].configured THEN Recompute(ds) ELSE peer' = ds /\ UNCHANGED released
  BY DEF Established
<1>3. c \in Capabilities
  BY <1>1, <1>2, PeersAssumption
<1> DEFINE d == peer[p]
           e == OnEstablished(d, c)
           ds == [peer EXCEPT ![p] = e]
<1>4. actor' = [actor EXCEPT ![a].link = "up"] /\ actor[a].link = "idle" /\ "up" \in Links
  BY DEF Established, Links
<1>5. actor'[a].link = "up" /\ \A q \in Peers : Calms(actor, actor', q)
  <2>1. Eases("idle", "up")
    BY DEF Eases
  <2>2. actor'[a].link = "up"
    BY <1>1, <1>4, Moved
  <2>3. \A q \in Peers : Calms(actor, actor', q)
    BY <1>1, <1>4, <2>1, MovedCalm, Zenon
  <2>q. QED BY <2>2, <2>3
<1>6. d \in PeerRecord /\ Sound(d) /\ e \in PeerRecord
  BY <1>1, <1>3, RecordOf, EstablishedSound, Zenon
<1>7. ds = [peer EXCEPT ![p] = OnEstablished(@, c)]
  BY <1>1
<1>8. Recompute(ds) \/ peer' = ds
  BY <1>2, <1>7
<1>9. KeptAt(e, actor', p)
  <2>1. Ready(actor, p) = TRUE
    BY <1>1, <1>4 DEF Ready
  <2>2. KeptAt(d, actor', p)
    BY <1>1, <1>5, CalmKept
  <2>3. ~d.shared => Kept(d, TRUE)
    BY <1>1, <2>1, Zenon DEF KeptAt
  <2>4. ~d.shared => Kept(e, FALSE) /\ e.shared = d.shared /\ e.configured = d.configured
    BY <1>3, <1>6, <2>3, EstablishedKept, Zenon
  <2>5. d.shared => e.shared
    <3> DEFINE o == Opened(d)
               b == [o EXCEPT !.cap = c]
    <3>1. o \in PeerRecord /\ o.shared = d.shared
      <4> DEFINE r == Resumed(d)
      <4>1. Listed(d) \subseteq Nlris
        BY <1>6 DEF Listed, HeldRoutes, PeerRecord
      <4>2. r \in PeerRecord /\ r.shared = d.shared
        BY <1>6, <4>1, Zenon DEF Resumed, PeerRecord
      <4>3. o \in PeerRecord
        BY <1>6, OpenedSound
      <4> HIDE DEF r
      <4>4. o.shared = r.shared
        BY <4>2 DEF Opened, PeerRecord, r
      <4>q. QED BY <4>2, <4>3, <4>4, SMTT(40), ZenonT(40)
    <3>2. CASE ~d.configured
      BY <3>1, <3>2, Zenon DEF OnEstablished, Opened
    <3>3. CASE d.configured
      <4>1. e = [DumpAll(b, released) EXCEPT
                   !.families = IF c.time THEN c.families ELSE {}, !.nbit = c.time /\ c.n]
        BY <3>3 DEF OnEstablished, Opened
      <4> HIDE DEF o
      <4>2. b \in PeerRecord /\ b.shared = o.shared
        BY <1>3, <3>1 DEF PeerRecord
      <4> HIDE DEF b
      <4>3. Alike(b, DumpAll(b, released))
        BY <4>2, AlikeEdits, Zenon
      <4> DEFINE z == DumpAll(b, released)
      <4>4. z \in PeerRecord /\ z.shared = b.shared
        BY <4>3 DEF Alike
      <4> HIDE DEF z
      <4>5. [z EXCEPT !.families = IF c.time THEN c.families ELSE {}, !.nbit = c.time /\ c.n].shared = z.shared
        BY <4>4 DEF PeerRecord
      <4>q. QED BY <3>1, <4>1, <4>2, <4>4, <4>5, Zenon DEF z
    <3>q. QED BY <3>2, <3>3
  <2> HIDE DEF e, d, p
  <2>6. ASSUME ~e.shared PROVE (e.configured => Single(actor', p)) /\ Kept(e, Ready(actor', p))
    <3>1. ~d.shared /\ Kept(e, FALSE) /\ e.configured = d.configured
      BY <2>4, <2>5, <2>6, Zenon
    <3>2. d.configured => Single(actor', p)
      BY <2>2, <3>1 DEF KeptAt
    <3>3. d.configured => ~Ready(actor', p)
      BY <1>1, <1>5, <3>2, UpNotReady, Zenon
    <3>4. Kept(e, Ready(actor', p))
      BY <3>1, <3>3 DEF Kept
    <3>q. QED BY <3>1, <3>2, <3>4
  <2>q. QED BY <2>6 DEF KeptAt
<1> HIDE DEF p, d, e
<1>10. AllKept(ds, actor') /\ ds \in [Peers -> PeerRecord]
  BY <1>1, <1>5, <1>6, <1>9, OneKept, Zenon
<1> HIDE DEF ds
<1>q. QED BY <1>8, <1>10, ReleaseKept, ZenonT(40) DEF Recompute

LEMMA KeptRejected ==
  ASSUME KInv, NEW a \in Actor, EstablishedRejected(a)
  PROVE  AllKept(peer', actor')
<1> DEFINE p == PeerOf(a)
           acts == [actor EXCEPT ![a].link = "up"]
<1>1. /\ p \in Peers /\ actor \in [Actor -> ActorRecord] /\ AllKept(peer, actor)
  BY Owner DEF KInv, IInv
<1>2. actor[a].link = "idle" /\ Eases("idle", "up") /\ "up" \in Links
  BY DEF EstablishedRejected, Eases, Links
<1>3. acts \in [Actor -> ActorRecord] /\ \A q \in Peers : Calms(actor, acts, q)
  <2>1. acts \in [Actor -> ActorRecord]
    BY <1>1, <1>2, Moved, Zenon
  <2>2. \A q \in Peers : Calms(actor, acts, q)
    BY <1>1, <1>2, MovedCalm, Zenon
  <2>q. QED BY <2>1, <2>2, Zenon
<1>4. (actor' = Command(acts, {p}, "Stop") \/ actor' = acts) /\ peer' = peer
  BY DEF EstablishedRejected
<1> HIDE DEF acts
<1>5. AllKept(peer, acts)
  BY <1>1, <1>3, ActorsKept
<1>6. AllKept(peer, Command(acts, {p}, "Stop"))
  BY <1>3, <1>5, CommandedCalm, ActorsKept
<1>q. QED BY <1>4, <1>5, <1>6

LEMMA KeptTerminated ==
  ASSUME KInv, NEW a \in Actor, Terminated(a)
  PROVE  AllKept(peer', actor')
<1> DEFINE p == PeerOf(a)
           l == IF actor[a].link = "stopping" THEN "stopped" ELSE "idle"
<1>1. /\ p \in Peers /\ a \in Actors[p] /\ actor \in [Actor -> ActorRecord] /\ IInv
      /\ AllKept(peer, actor) /\ peer \in [Peers -> PeerRecord] /\ KeptAt(peer[p], actor, p)
  BY Owner, ZenonT(40) DEF KInv, IInv, Good, AllKept
<1>2. PICK r : LET ds == [peer EXCEPT ![p] = OnTerminated(@, r)]
               IN  IF peer[p].pending THEN Recompute(ds) ELSE peer' = ds /\ UNCHANGED released
  BY DEF Terminated
<1> DEFINE d == peer[p]
           e == OnTerminated(d, r)
           ds == [peer EXCEPT ![p] = e]
<1>3. actor' = [actor EXCEPT ![a].link = l] /\ l \in Links /\ actor[a].link \in {"idle", "ended", "stopping"}
  BY DEF Terminated, Links
<1> HIDE DEF l
<1>4. /\ \A q \in Peers \ {p} : Calms(actor, actor', q)
      /\ \A b \in Actor \ {a} : actor'[b] = actor[b]
  BY <1>1, <1>3, Moved, MovedCalm, ZenonT(40)
<1>5. d \in PeerRecord /\ Sound(d) /\ e \in PeerRecord
  BY <1>1, RecordOf, TerminatedDown, Zenon DEF Down
<1>6. ds = [peer EXCEPT ![p] = OnTerminated(@, r)]
  BY <1>1
<1>7. Recompute(ds) \/ peer' = ds
  BY <1>2, <1>6, ZenonT(40)
<1>8. ~d.shared => Kept(d, Ready(actor, p))
  BY <1>1 DEF KeptAt
<1>9. (~e.shared => Settled(e)) /\ (e.configured /\ ~e.shared => d.configured /\ ~d.shared)
  BY <1>5, <1>8, TerminatedSettled
<1>10. Working(actor', p) \subseteq Working(actor, p)
  BY <1>1, <1>3, <1>4, ActorOf DEF Working
<1> HIDE DEF p, d, e
<1>11. Single(actor, p) => Single(actor', p)
  BY <1>10, ZenonT(40) DEF Single
<1>12. KeptAt(e, actor', p)
  BY <1>1, <1>9, <1>11, SettledKept, ZenonT(40) DEF KeptAt, d
<1>13. AllKept(ds, actor') /\ ds \in [Peers -> PeerRecord]
  BY <1>1, <1>4, <1>5, <1>12, OneKept, Zenon
<1> HIDE DEF ds
<1>q. QED BY <1>7, <1>13, ReleaseKept, ZenonT(40) DEF Recompute

LEMMA KeptReset ==
  ASSUME KInv, NEW p \in Peers, NEW ds \in [Peers -> PeerRecord], ResetSession(p, ds), AllKept(ds, actor)
  PROVE  AllKept(peer', actor')
<1> DEFINE es == [q \in Peers |-> [ds[q] EXCEPT !.lost = @ \/ q \in rejected \ {p}]]
<1>1. actor \in [Actor -> ActorRecord] /\ actor' = Command(actor, {p}, "Notification") /\ peer' = es
  BY DEF KInv, IInv, ResetSession
<1>2. ASSUME NEW q \in Peers PROVE Alike(ds[q], es[q])
  <2> DEFINE d == ds[q]
             x == d.lost \/ q \in rejected \ {p}
  <2>1. d \in PeerRecord /\ x \in BOOLEAN
    OBVIOUS
  <2>2. es[q] = [d EXCEPT !.lost = x]
    BY DEF PeerRecord
  <2> HIDE DEF d, x, es
  <2>q. QED BY <2>1, <2>2, AlikeEdits, Zenon DEF d
<1> HIDE DEF es
<1>3. AllKept(es, actor)
  BY <1>2, AllAlike
<1>q. QED BY <1>1, <1>3, CommandedCalm, ActorsKept

LEMMA KeptUpdate ==
  ASSUME KInv, NEW a \in Actor, RouteUpdate(a)
  PROVE  AllKept(peer', actor')
<1> DEFINE p == PeerOf(a)
<1>1. /\ p \in Peers /\ a \in Actors[p] /\ actor[a].link = "up" /\ peer[p].configured
      /\ AllKept(peer, actor) /\ peer \in [Peers -> PeerRecord] /\ KeptAt(peer[p], actor, p)
      /\ peer[p] \in PeerRecord /\ Sound(peer[p])
  BY Owner, RecordOf DEF KInv, IInv, Good, AllKept, RouteUpdate
<1>2. PICK n \in Announces[p] :
        \E d \in {Announced(peer[p], n, how) : how \in How[p]} \cup {Withdrawn(peer[p], {n})} :
          IF OverLimit(p, d) THEN ResetSession(p, [peer EXCEPT ![p] = [d EXCEPT !.idle = p \in IdleHolds]])
          ELSE peer' = [peer EXCEPT ![p] = d] /\ UNCHANGED <<actor, rejected>>
  BY Zenon DEF RouteUpdate
<1>3. PICK d \in {Announced(peer[p], n, how) : how \in How[p]} \cup {Withdrawn(peer[p], {n})} :
          IF OverLimit(p, d) THEN ResetSession(p, [peer EXCEPT ![p] = [d EXCEPT !.idle = p \in IdleHolds]])
          ELSE peer' = [peer EXCEPT ![p] = d] /\ UNCHANGED <<actor, rejected>>
  BY <1>2, Zenon
<1> HIDE DEF p
<1>4. n \in Nlris /\ {n} \in SUBSET Nlris /\ How[p] \subseteq Fates
  BY <1>1, <1>2, PeersAssumption
<1>5. d \in PeerRecord /\ KeptAt(d, actor, p)
  <2> DEFINE c == peer[p]
  <2> HIDE DEF c
  <2>1. CASE d = Withdrawn(c, {n})
    <3>1. d \in PeerRecord
      BY <1>1, <1>4, <2>1, WithdrawnRouted, ZenonT(40) DEF Routed, c
    <3>2. d.shared = c.shared /\ d.configured = c.configured
      <4>1. c \in PeerRecord /\ d \in PeerRecord
        BY <1>1, <3>1 DEF c
      <4>q. QED BY <2>1, <4>1, Zenon DEF Withdrawn, PeerRecord
    <3>3. Kept(c, FALSE) => Kept(d, FALSE)
      BY <1>1, <1>4, <2>1, WithdrawnKept, Zenon DEF c
    <3>4. KeptAt(c, actor, p)
      BY <1>1 DEF c
    <3>5. KeptAt(d, actor, p)
      BY <1>1, <3>2, <3>3, <3>4, UpKept, Zenon
    <3>q. QED BY <3>1, <3>5, SMTT(40)
  <2>2. CASE d \in {Announced(c, n, how) : how \in How[p]}
    <3>1. PICK how \in How[p] : d = Announced(c, n, how)
      BY <2>2
    <3>2. how \in Fates
      BY <1>4
    <3>3. c \in PeerRecord /\ Sound(c) /\ c.configured /\ KeptAt(c, actor, p)
      BY <1>1 DEF c
    <3>4. d \in PeerRecord /\ d.configured = c.configured
      BY <1>4, <3>1, <3>2, <3>3, AnnouncedRouted, Zenon DEF Routed
    <3>5. d.shared = c.shared
      BY <1>4, <3>1, <3>2, <3>3, AnnouncedShared
    <3>6. Kept(c, FALSE) => Kept(d, FALSE)
      BY <1>4, <3>1, <3>2, <3>3, AnnouncedKept, Zenon
    <3>7. KeptAt(d, actor, p)
      BY <1>1, <3>3, <3>4, <3>5, <3>6, UpKept, Zenon
    <3>q. QED BY <3>4, <3>7
  <2>q. QED BY <1>3, <2>1, <2>2 DEF c
<1>6. CASE ~OverLimit(p, d)
  <2>1. peer' = [peer EXCEPT ![p] = d] /\ actor' = actor
    BY <1>3, <1>6, ZenonT(40)
  <2>2. \A q \in Peers : Calms(actor, actor, q)
    BY ZenonT(40) DEF Calms
  <2>q. QED BY <1>1, <1>5, <2>1, <2>2, OneKept, Zenon
<1>7. CASE OverLimit(p, d)
  <2> DEFINE x == p \in IdleHolds
             e == [d EXCEPT !.idle = x]
             ds == [peer EXCEPT ![p] = e]
  <2>1. ResetSession(p, ds) /\ x \in BOOLEAN
    BY <1>3, <1>7
  <2> HIDE DEF x
  <2>2. Alike(d, e)
    BY <1>5, <2>1, AlikeEdits, Zenon
  <2> HIDE DEF e
  <2>3. e \in PeerRecord /\ KeptAt(e, actor, p)
    BY <1>5, <2>2, AlikeKept DEF Alike
  <2>4. \A q \in Peers : Calms(actor, actor, q)
    BY DEF Calms
  <2>5. AllKept(ds, actor) /\ ds \in [Peers -> PeerRecord]
    BY <1>1, <2>3, <2>4, OneKept, ZenonT(40)
  <2> HIDE DEF ds
  <2>q. QED BY <1>1, <2>1, <2>5, KeptReset
<1>q. QED BY <1>6, <1>7

LEMMA KeptMalformed ==
  ASSUME KInv, NEW a \in Actor, Malformed(a)
  PROVE  AllKept(peer', actor')
<1>1. /\ PeerOf(a) \in Peers /\ ResetSession(PeerOf(a), peer)
      /\ peer \in [Peers -> PeerRecord] /\ AllKept(peer, actor)
  BY Owner DEF Malformed, KInv, IInv, Good
<1>q. QED BY <1>1, KeptReset, ZenonT(40)

LEMMA KeptEor ==
  ASSUME KInv, NEW a \in Actor, NEW f \in Family, EorReceived(a, f)
  PROVE  AllKept(peer', actor')
<1> DEFINE p == PeerOf(a)
           d == peer[p]
           e == EndOfRib(d, f)
           ds == [peer EXCEPT ![p] = e]
<1>1. /\ p \in Peers /\ a \in Actors[p] /\ actor[a].link = "up" /\ actor' = actor
      /\ AllKept(peer, actor) /\ peer \in [Peers -> PeerRecord] /\ KeptAt(d, actor, p)
      /\ d \in PeerRecord /\ Sound(d)
  BY Owner, RecordOf, ZenonT(40) DEF KInv, IInv, Good, AllKept, EorReceived
<1>2. Recompute(ds)
  BY <1>1 DEF EorReceived
<1> HIDE DEF p, d
<1>3. e \in PeerRecord
  BY <1>1, EndOfRibRouted DEF Routed
<1>4. e.configured = d.configured /\ e.shared = d.shared
  <2> DEFINE gone == d.stale \cap Of(f)
             b == Withdrawn(d, gone)
  <2>1. gone \in SUBSET Nlris
    BY <1>1 DEF PeerRecord
  <2>2. b \in PeerRecord
    BY <1>1, <2>1, WithdrawnRouted, ZenonT(40) DEF Routed
  <2>3. b.configured = d.configured /\ b.shared = d.shared
    BY <1>1, <2>2, Zenon DEF Withdrawn, PeerRecord
  <2>4. e.configured = b.configured /\ e.shared = b.shared
    <3> HIDE DEF b
    <3>q. QED BY <2>2 DEF EndOfRib, PeerRecord, b
  <2>q. QED BY <2>3, <2>4, ZenonT(40)
<1>5. Kept(d, FALSE) => Kept(e, FALSE)
  BY <1>1, EndOfRibKept, Zenon
<1> HIDE DEF e
<1>6. KeptAt(e, actor, p)
  BY <1>1, <1>4, <1>5, UpKept, Zenon
<1>7. \A q \in Peers : Calms(actor, actor, q)
  BY DEF Calms
<1>8. AllKept(ds, actor) /\ ds \in [Peers -> PeerRecord]
  BY <1>1, <1>3, <1>6, <1>7, OneKept, Zenon
<1> HIDE DEF ds
<1>q. QED BY <1>1, <1>2, <1>8, ReleaseKept DEF Recompute

LEMMA KeptDeadline ==
  ASSUME KInv, NEW p \in Peers, GrDeadline(p)
  PROVE  AllKept(peer', actor')
<1> DEFINE d == peer[p]
           e == [Flushed(d) EXCEPT !.armed = FALSE, !.stale = {}]
<1>1. /\ peer \in [Peers -> PeerRecord] /\ AllKept(peer, actor) /\ KeptAt(d, actor, p)
      /\ d \in PeerRecord /\ Sound(d) /\ d.armed
  BY RecordOf DEF KInv, IInv, Good, AllKept, GrDeadline
<1>2. peer' = [peer EXCEPT ![p] = e] /\ actor' = actor
  BY <1>1 DEF GrDeadline
<1>3. Settled(e) /\ e.configured = d.configured /\ e.shared = d.shared
  BY <1>1, DeadlineSettled, Zenon
<1> HIDE DEF d, e
<1>4. KeptAt(e, actor, p)
  BY <1>1, <1>3, SettledKept DEF KeptAt
<1>5. \A q \in Peers : Calms(actor, actor, q)
  BY DEF Calms
<1>q. QED BY <1>1, <1>2, <1>4, <1>5, OneKept, ZenonT(40)

\* Flags of one record change.
LEMMA KeptFlags ==
  ASSUME KInv, NEW p \in Peers, NEW e, Alike(peer[p], e)
  PROVE  AllKept([peer EXCEPT ![p] = e], actor)
<1>1. /\ peer \in [Peers -> PeerRecord] /\ AllKept(peer, actor) /\ KeptAt(peer[p], actor, p)
  BY DEF KInv, IInv, Good, AllKept
<1>2. KeptAt(e, actor, p)
  BY <1>1, AlikeKept
<1>3. \A q \in Peers : Calms(actor, actor, q)
  BY DEF Calms
<1>q. QED BY <1>1, <1>2, <1>3, OneKept, Zenon

LEMMA KeptCommand ==
  ASSUME KInv, NEW ps, NEW c \in {"Stop", "Notification"}, actor' = Command(actor, ps, c),
         AllKept(peer', actor)
  PROVE  AllKept(peer', actor')
<1>1. actor \in [Actor -> ActorRecord]
  BY DEF KInv, IInv
<1>q. QED BY <1>1, CommandedCalm, ActorsKept

LEMMA KeptPlain ==
  ASSUME KInv, NEW p \in Peers, IdleHoldExpires(p) \/ RemovePeer(p) \/ StopStalled(p)
  PROVE  AllKept(peer', actor')
<1>1. peer \in [Peers -> PeerRecord] /\ peer[p] \in PeerRecord /\ AllKept(peer, actor)
  BY DEF KInv, IInv, Good
<1>2. CASE IdleHoldExpires(p)
  <2>1. peer' = [peer EXCEPT ![p] = [peer[p] EXCEPT !.idle = FALSE]] /\ actor' = actor
    BY <1>1, <1>2 DEF IdleHoldExpires
  <2>q. QED BY <1>1, <2>1, AlikeEdits, KeptFlags, Zenon
<1>3. CASE RemovePeer(p)
  <2>1. peer' = [peer EXCEPT ![p] = [peer[p] EXCEPT !.pending = TRUE]]
    BY <1>1, <1>3 DEF RemovePeer
  <2>2. PICK c \in {"Stop", "Notification"} : actor' = Command(actor, {p}, c)
    BY <1>3 DEF RemovePeer
  <2>3. AllKept(peer', actor)
    BY <1>1, <2>1, AlikeEdits, KeptFlags, Zenon
  <2>q. QED BY <2>2, <2>3, KeptCommand
<1>4. CASE StopStalled(p)
  BY <1>1, <1>4, KeptCommand DEF StopStalled
<1>q. QED BY <1>2, <1>3, <1>4

\* A peer is added: with no other actor at work, none of its address is up,
\* and what is left of it in the Loc-RIB is in left.
LEMMA KeptAdd ==
  ASSUME KInv, NEW p \in Peers, AddPeer(p)
  PROVE  AllKept(peer', actor')
<1> DEFINE d == peer[p]
           old == \E a \in Actors[p] : actor[a].link \notin {"none", "stopped"}
           left == {n \in Nlris : d.loc[n] # None}
           e == [d EXCEPT !.configured = TRUE, !.adj = {}, !.left = left, !.shared = old]
<1>1. /\ peer \in [Peers -> PeerRecord] /\ AllKept(peer, actor) /\ actor \in [Actor -> ActorRecord]
      /\ d \in PeerRecord /\ Sound(d) /\ Covers(d, Live(actor, p)) /\ ~d.configured
  BY RecordOf, Zenon DEF KInv, IInv, Good, AddPeer
<1>2. peer' = [peer EXCEPT ![p] = e]
  BY <1>1, ZenonT(40) DEF AddPeer, PeerRecord
<1>3. PICK a \in Actors[p] : actor[a].link = "none" /\ actor' = [actor EXCEPT ![a].link = "idle"]
  BY Zenon DEF AddPeer
<1>4. a \in Actor /\ PeerOf(a) = p
  BY ActorOf, Owner
<1>5. /\ actor'[a].link = "idle" /\ \A b \in Actor \ {a} : actor'[b] = actor[b]
  <2>1. "idle" \in Links
    BY DEF Links
  <2>q. QED BY <1>1, <1>3, <1>4, <2>1, Moved
<1>6. \A q \in Peers \ {p} : Calms(actor, actor', q)
  <2>1. "idle" \in Links
    BY DEF Links
  <2>q. QED BY <1>1, <1>3, <1>4, <2>1, MovedCalm, Zenon
<1>7. ASSUME ~old PROVE ~d.up /\ Single(actor', p)
  <2>1. ~Live(actor, p)
    BY <1>7 DEF Live
  <2>2. ~d.up
    BY <1>1, <2>1 DEF Covers
  <2>3. \A b \in Actors[p] : b # a => actor'[b].link \in {"none", "stopped"}
    BY <1>5, <1>7, ActorOf
  <2>4. Single(actor', p)
    BY <2>3 DEF Single, Working
  <2>q. QED BY <2>2, <2>4
<1>8. left \in SUBSET Nlris /\ old \in BOOLEAN
  OBVIOUS
<1>9. \A n \in Nlris : d.loc[n] = "stale" => n \in left
  BY PeersAssumption
<1> HIDE DEF d, old, left
<1>10. /\ e \in PeerRecord /\ e.configured = TRUE /\ e.left = left /\ e.shared = old
       /\ e.loc = d.loc /\ e.up = d.up /\ e.armed = d.armed /\ e.stale = d.stale /\ e.adj = {}
  BY <1>1, <1>8, Zenon DEF PeerRecord
<1> HIDE DEF e
<1>11. d.stale = {}
  BY <1>1 DEF Sound
<1>12. KeptAt(e, actor', p)
  <2>1. HeldRoutes(e) = {}
    BY <1>10 DEF HeldRoutes
  <2>2. ~d.up => Kept(e, Ready(actor', p))
    BY <1>9, <1>10, <1>11, <2>1 DEF Kept
  <2>q. QED BY <1>7, <1>10, <2>2 DEF KeptAt
<1>q. QED BY <1>1, <1>2, <1>6, <1>10, <1>12, OneKept, ZenonT(40)

LEMMA KeptStep == ASSUME KInv, [Next]_vars PROVE AllKept(peer', actor')
<1>1. CASE UNCHANGED vars
  BY <1>1 DEF vars, KInv
<1>2. ASSUME NEW a \in Actor,
             \/ GoesDown(a) \/ TakesCommand(a)
             \/ Established(a) \/ EstablishedRejected(a) \/ Terminated(a)
             \/ RouteUpdate(a) \/ Malformed(a)
             \/ \E f \in Family : EorReceived(a, f)
      PROVE  AllKept(peer', actor')
  BY <1>2, KeptActorSteps, KeptEstablished, KeptRejected, KeptTerminated, KeptUpdate,
     KeptMalformed, KeptEor
<1>3. ASSUME NEW p \in Peers,
             \/ StopStalled(p) \/ GrDeadline(p) \/ IdleHoldExpires(p)
             \/ AddPeer(p) \/ RemovePeer(p)
      PROVE  AllKept(peer', actor')
  <2>1. CASE GrDeadline(p)
    BY <2>1, KeptDeadline
  <2>2. CASE AddPeer(p)
    BY <2>2, KeptAdd
  <2>3. CASE IdleHoldExpires(p) \/ RemovePeer(p) \/ StopStalled(p)
    BY <2>3, KeptPlain
  <2>q. QED BY <1>3, <2>1, <2>2, <2>3
<1>4. CASE EndDrain
  <2>1. actor' = Command(actor, rejected, "Stop") /\ AllKept(peer', actor)
    BY <1>4 DEF EndDrain, KInv
  <2>q. QED BY <2>1, KeptCommand
<1>5. CASE DeferralTimer
  <2>1. Release(peer, Family) /\ actor' = actor /\ peer \in [Peers -> PeerRecord] /\ AllKept(peer, actor)
    BY <1>5 DEF DeferralTimer, KInv, IInv, Good
  <2>q. QED BY <2>1, ReleaseKept
<1>q. QED BY <1>1, <1>2, <1>3, <1>4, <1>5 DEF Next

-----------------------------------------------------------------------------
(* End-of-RIB.                                                             *)

\* No End-of-RIB is counted in e that is not in d.
NoMore(d, e) == e.eor \subseteq d.eor

\* A dump changes nothing of the routes.
LEMMA DumpedRoutes ==
  ASSUME NEW d \in PeerRecord, NEW fs
  PROVE  /\ DumpAll(d, fs).eor = d.eor
         /\ DumpAll(d, fs).loc = d.loc /\ DumpAll(d, fs).left = d.left
<1> DEFINE k == Counts(d, fs)
<1>1. k \in [Family -> Nat] /\ DumpAll(d, fs) = [d EXCEPT !.dumped = k]
  BY DumpAllCounts DEF Counts, PeerRecord
<1> HIDE DEF k
<1>q. QED BY <1>1, Zenon DEF PeerRecord

\* on_established and on_terminated forget which End-of-RIBs have come.
LEMMA EstablishedForgets ==
  ASSUME NEW d \in PeerRecord, Sound(d), NEW c \in Capabilities
  PROVE  OnEstablished(d, c).eor = {}
<1> DEFINE r == Resumed(d)
           o == Opened(d)
           b == [o EXCEPT !.cap = c]
           fams == IF c.time THEN c.families ELSE {}
           n == c.time /\ c.n
           e == DumpAll(b, released)
<1>1. o \in PeerRecord
  BY OpenedSound
<1>2. o.eor = {}
  <2>1. r = [d EXCEPT !.armed = FALSE, !.stale = Listed(d)]
    BY DEF Resumed
  <2>2. DOMAIN r = DOMAIN d
    BY <2>1, Zenon
  <2>3. "eor" \in DOMAIN d
    BY DEF PeerRecord
  <2> HIDE DEF r
  <2>q. QED BY <2>2, <2>3, ZenonT(40) DEF Opened, r
<1>3. CASE ~d.configured
  <2>1. OnEstablished(d, c) = o
    BY <1>3 DEF OnEstablished, Opened
  <2>q. QED BY <1>2, <2>1, Zenon
<1>4. CASE d.configured
  <2>1. OnEstablished(d, c) = [e EXCEPT !.families = fams, !.nbit = n]
    BY <1>4 DEF OnEstablished, Opened
  <2> HIDE DEF o
  <2>2. b \in PeerRecord /\ b.eor = {}
    BY <1>1, <1>2, Zenon DEF PeerRecord
  <2> HIDE DEF b
  <2>3. e.eor = {} /\ e \in PeerRecord
    <3>1. e.eor = b.eor
      BY <2>2, DumpedRoutes
    <3>2. Alike(b, e)
      BY <2>2, AlikeEdits, ZenonT(40)
    <3>q. QED BY <2>2, <3>1, <3>2 DEF Alike
  <2> HIDE DEF e, fams, n
  <2>q. QED BY <2>1, <2>3, Zenon DEF PeerRecord
<1>q. QED BY <1>3, <1>4, Zenon

LEMMA TerminatedForgets ==
  ASSUME NEW d \in PeerRecord, NEW r
  PROVE  OnTerminated(d, r).eor = {}
<1> DEFINE b == Ended(d)
           g == IF EntersGr(d, r) THEN Held(d) ELSE Flushed(b)
<1>1. b \in PeerRecord
  BY EndedFields
<1>2. b.eor = {}
  BY Zenon DEF Ended, PeerRecord
<1> HIDE DEF b
<1>3. Held(d).eor = {} /\ Flushed(b).eor = {}
  BY <1>1, <1>2, Zenon DEF Held, Flushed, PeerRecord, b
<1>4. g.eor = {}
  BY <1>3, Zenon
<1>5. OnTerminated(d, r) = IF d.pending THEN Removed(g) ELSE g
  BY Zenon DEF OnTerminated, b
<1> HIDE DEF g
<1>6. Removed(g).eor = {}
  <2> DEFINE z == Absent
  <2>1. z \in PeerRecord /\ z.eor = {}
    BY AbsentFields, ZenonT(40) DEF Absent
  <2> HIDE DEF z
  <2>2. Removed(g) = LET ns == {n \in Nlris : g.loc[n] # None}
                     IN  [z EXCEPT !.loc = g.loc, !.left = ns, !.orphan = ns]
    BY DEF Removed, z
  <2>q. QED BY <2>1, <2>2, Zenon DEF PeerRecord
<1>q. QED BY <1>4, <1>5, <1>6, Zenon

LEMMA AnnouncedNoMore ==
  ASSUME NEW d \in PeerRecord, NEW n \in Nlris, NEW how \in Fates
  PROVE  Announced(d, n, how).eor = d.eor
<1> DEFINE b == IF how = "mp" /\ n \in V4 THEN d ELSE Refreshed(d, n)
<1>1. Refreshed(d, n) = [d EXCEPT !.stale = d.stale \ {n}] /\ d.stale \ {n} \in SUBSET Nlris
  BY DEF Refreshed, PeerRecord
<1>2. b \in PeerRecord /\ b.eor = d.eor
  BY <1>1 DEF PeerRecord
<1>3. how \in {"accepted", "mp", "rejected", "skipped"}
  BY DEF Fates
<1> HIDE DEF b
<1>4. CASE how = "accepted"
  BY <1>2, <1>4, ZenonT(40) DEF Announced, PeerRecord, b
<1>5. CASE how = "mp"
  BY <1>2, <1>5, ZenonT(40) DEF Announced, PeerRecord, b
<1>6. CASE how = "rejected"
  BY <1>2, <1>6, ZenonT(40) DEF Announced, PeerRecord, b
<1>7. CASE how = "skipped"
  BY <1>2, <1>7, ZenonT(40) DEF Announced, PeerRecord, b
<1>q. QED BY <1>3, <1>4, <1>5, <1>6, <1>7

\* The End-of-RIB of f counts, withdraws what is on the list of f, and
\* leaves the other routes alone.
LEMMA EndOfRibFields ==
  ASSUME NEW d \in PeerRecord, Sound(d), NEW f \in Family
  PROVE  LET gone == d.stale \cap Of(f)
             e == EndOfRib(d, f)
         IN  /\ e \in PeerRecord /\ e.eor = d.eor \cup {f} /\ e.left = d.left \ gone
             /\ \A n \in Nlris : e.loc[n] = IF n \in gone THEN None ELSE d.loc[n]
<1> DEFINE gone == d.stale \cap Of(f)
           loc == [n \in Nlris |-> IF n \in gone THEN None ELSE d.loc[n]]
           left == d.left \ gone
           b == Withdrawn(d, gone)
           e == EndOfRib(d, f)
<1>1. gone \in SUBSET Nlris
  BY DEF PeerRecord
<1>2. b \in PeerRecord /\ b.eor = d.eor
  BY <1>1, WithdrawnRouted, Zenon DEF Routed
<1>3. b.loc = loc /\ b.left = left
  BY Zenon DEF Withdrawn, PeerRecord
<1>4. e \in PeerRecord
  BY EndOfRibRouted, Zenon DEF Routed
<1>5. e = [b EXCEPT !.eor = b.eor \cup {f}, !.stale = b.stale \ gone]
  BY <1>2 DEF EndOfRib, PeerRecord
<1>6. \A n \in Nlris : loc[n] = IF n \in gone THEN None ELSE d.loc[n]
  OBVIOUS
<1> HIDE DEF gone, loc, left, b, e
<1>7. e.eor = b.eor \cup {f} /\ e.loc = b.loc /\ e.left = b.left
  BY <1>2, <1>5, Zenon DEF PeerRecord
<1>8. e.eor = d.eor \cup {f} /\ e.left = left /\ e.loc = loc
  BY <1>2, <1>3, <1>7, Zenon
<1>9. \A n \in Nlris : e.loc[n] = IF n \in gone THEN None ELSE d.loc[n]
  BY <1>6, <1>8, Zenon
<1>q. QED BY <1>4, <1>8, <1>9, ZenonT(40) DEF e, left, gone

\* One record, a dump, a reset.
LEMMA OneNoMore ==
  ASSUME NEW p \in Peers, NEW e, peer \in [Peers -> PeerRecord], NoMore(peer[p], e)
  PROVE  \A q \in Peers : NoMore(peer[q], [peer EXCEPT ![p] = e][q])
BY DEF NoMore

LEMMA ReleasedRoutes ==
  ASSUME NEW ds \in [Peers -> PeerRecord], NEW fs, Release(ds, fs), NEW q \in Peers
  PROVE  peer'[q].eor = ds[q].eor /\ peer'[q].loc = ds[q].loc /\ peer'[q].left = ds[q].left
<1>1. peer'[q] = DumpAll(ds[q], fs \ released) /\ ds[q] \in PeerRecord
  BY DEF Release
<1>q. QED BY <1>1, DumpedRoutes

LEMMA ResetNoMore ==
  ASSUME NEW ds \in [Peers -> PeerRecord], NEW p, ResetSession(p, ds), NEW q \in Peers
  PROVE  peer'[q].eor = ds[q].eor
<1> DEFINE d == ds[q]
<1>1. d \in PeerRecord /\ peer'[q] = [d EXCEPT !.lost = @ \/ q \in rejected \ {p}]
  BY DEF ResetSession
<1> HIDE DEF d
<1>2. peer'[q].eor = d.eor
  BY <1>1, Zenon DEF PeerRecord
<1>q. QED BY <1>2 DEF d

\* No step but the handling of an End-of-RIB counts one.
Unheard == \A q \in Peers : NoMore(peer[q], peer'[q])

LEMMA UnheardSame == peer' = peer => Unheard
BY DEF Unheard, NoMore

LEMMA UnheardOne ==
  ASSUME IInv, NEW p \in Peers, NEW e, NoMore(peer[p], e), peer' = [peer EXCEPT ![p] = e]
  PROVE  Unheard
<1>1. peer \in [Peers -> PeerRecord]
  BY DEF IInv, Good
<1>q. QED BY <1>1, OneNoMore DEF Unheard

LEMMA UnheardRelease ==
  ASSUME IInv, NEW p \in Peers, NEW e \in PeerRecord, NoMore(peer[p], e),
         NEW fs, Release([peer EXCEPT ![p] = e], fs)
  PROVE  Unheard
<1> DEFINE ds == [peer EXCEPT ![p] = e]
<1>1. peer \in [Peers -> PeerRecord] /\ ds \in [Peers -> PeerRecord]
  BY DEF IInv, Good
<1>2. \A q \in Peers : NoMore(peer[q], ds[q])
  BY <1>1, OneNoMore
<1>3. \A q \in Peers : peer'[q].eor = ds[q].eor
  BY <1>1, ReleasedRoutes, Zenon
<1> HIDE DEF ds
<1>q. QED BY <1>2, <1>3 DEF Unheard, NoMore

LEMMA UnheardEstablished ==
  ASSUME IInv, NEW a \in Actor, Established(a)
  PROVE  Unheard
<1> DEFINE p == PeerOf(a)
<1>1. p \in Peers /\ peer \in [Peers -> PeerRecord]
  BY Owner DEF IInv, Good
<1>2. PICK c \in Offers[p] :
        LET ds == [peer EXCEPT ![p] = OnEstablished(@, c)]
        IN  IF peer[p].configured THEN Recompute(ds) ELSE peer' = ds /\ UNCHANGED released
  BY DEF Established
<1> DEFINE e == OnEstablished(peer[p], c)
           ds == [peer EXCEPT ![p] = e]
<1>3. c \in Capabilities
  BY <1>1, <1>2, PeersAssumption
<1>4. e \in PeerRecord /\ e.eor = {}
  BY <1>1, <1>3, RecordOf, EstablishedSound, EstablishedForgets, Zenon
<1>5. ds = [peer EXCEPT ![p] = OnEstablished(@, c)]
  BY <1>1
<1>6. Recompute(ds) \/ peer' = ds
  BY <1>2, <1>5, ZenonT(40)
<1> HIDE DEF p, e
<1>7. NoMore(peer[p], e)
  BY <1>4 DEF NoMore
<1>8. CASE Recompute(ds)
  BY <1>1, <1>4, <1>7, <1>8, UnheardRelease, ZenonT(40) DEF Recompute
<1>9. CASE peer' = ds
  BY <1>1, <1>7, <1>9, UnheardOne, ZenonT(40)
<1>q. QED BY <1>6, <1>8, <1>9

LEMMA UnheardTerminated ==
  ASSUME IInv, NEW a \in Actor, Terminated(a)
  PROVE  Unheard
<1> DEFINE p == PeerOf(a)
<1>1. p \in Peers /\ peer \in [Peers -> PeerRecord]
  BY Owner DEF IInv, Good
<1>2. PICK r : LET ds == [peer EXCEPT ![p] = OnTerminated(@, r)]
               IN  IF peer[p].pending THEN Recompute(ds) ELSE peer' = ds /\ UNCHANGED released
  BY DEF Terminated
<1> DEFINE e == OnTerminated(peer[p], r)
           ds == [peer EXCEPT ![p] = e]
<1>3. e \in PeerRecord /\ e.eor = {}
  BY <1>1, RecordOf, TerminatedDown, TerminatedForgets, ZenonT(40) DEF Down
<1>4. ds = [peer EXCEPT ![p] = OnTerminated(@, r)]
  BY <1>1
<1>5. Recompute(ds) \/ peer' = ds
  BY <1>2, <1>4
<1> HIDE DEF p, e
<1>6. NoMore(peer[p], e)
  BY <1>3 DEF NoMore
<1>7. CASE Recompute(ds)
  BY <1>1, <1>3, <1>6, <1>7, UnheardRelease, ZenonT(40) DEF Recompute
<1>8. CASE peer' = ds
  BY <1>1, <1>6, <1>8, UnheardOne, ZenonT(40)
<1>q. QED BY <1>5, <1>7, <1>8

LEMMA UnheardUpdate ==
  ASSUME IInv, NEW a \in Actor, RouteUpdate(a)
  PROVE  Unheard
<1> DEFINE p == PeerOf(a)
<1>1. /\ p \in Peers /\ peer \in [Peers -> PeerRecord] /\ peer[p] \in PeerRecord
      /\ Sound(peer[p]) /\ peer[p].configured
  BY Owner, RecordOf DEF IInv, Good, RouteUpdate
<1>2. PICK n \in Announces[p] :
        \E d \in {Announced(peer[p], n, how) : how \in How[p]} \cup {Withdrawn(peer[p], {n})} :
          IF OverLimit(p, d) THEN ResetSession(p, [peer EXCEPT ![p] = [d EXCEPT !.idle = p \in IdleHolds]])
          ELSE peer' = [peer EXCEPT ![p] = d] /\ UNCHANGED <<actor, rejected>>
  BY Zenon DEF RouteUpdate
<1>3. PICK d \in {Announced(peer[p], n, how) : how \in How[p]} \cup {Withdrawn(peer[p], {n})} :
          IF OverLimit(p, d) THEN ResetSession(p, [peer EXCEPT ![p] = [d EXCEPT !.idle = p \in IdleHolds]])
          ELSE peer' = [peer EXCEPT ![p] = d] /\ UNCHANGED <<actor, rejected>>
  BY <1>2, Zenon
<1> HIDE DEF p
<1>4. n \in Nlris /\ {n} \in SUBSET Nlris /\ How[p] \subseteq Fates
  BY <1>1, <1>2, PeersAssumption
<1>5. d \in PeerRecord /\ d.eor = peer[p].eor
  <2> DEFINE c == peer[p]
  <2>0. c \in PeerRecord /\ Sound(c) /\ c.configured
    BY <1>1
  <2> HIDE DEF c
  <2>1. CASE d = Withdrawn(c, {n})
    BY <1>4, <2>0, <2>1, WithdrawnRouted, Zenon DEF Routed, c
  <2>2. CASE d \in {Announced(c, n, how) : how \in How[p]}
    <3>1. PICK how \in How[p] : d = Announced(c, n, how)
      BY <2>2
    <3>2. how \in Fates
      BY <1>4
    <3>3. d \in PeerRecord
      BY <1>4, <2>0, <3>1, <3>2, AnnouncedRouted, Zenon DEF Routed
    <3>4. d.eor = c.eor
      BY <1>4, <2>0, <3>1, <3>2, AnnouncedNoMore, Zenon
    <3>q. QED BY <3>3, <3>4 DEF c
  <2>q. QED BY <1>3, <2>1, <2>2 DEF c
<1>6. CASE ~OverLimit(p, d)
  <2>1. peer' = [peer EXCEPT ![p] = d] /\ NoMore(peer[p], d)
    BY <1>3, <1>5, <1>6 DEF NoMore
  <2>q. QED BY <1>1, <2>1, UnheardOne, ZenonT(40)
<1>7. CASE OverLimit(p, d)
  <2> DEFINE x == p \in IdleHolds
             e == [d EXCEPT !.idle = x]
             ds == [peer EXCEPT ![p] = e]
  <2>1. ResetSession(p, ds) /\ x \in BOOLEAN
    BY <1>3, <1>7
  <2> HIDE DEF x
  <2>2. e \in PeerRecord /\ e.eor = d.eor
    BY <1>5, <2>1, Zenon DEF PeerRecord
  <2> HIDE DEF e
  <2>3. ds \in [Peers -> PeerRecord] /\ NoMore(peer[p], e)
    BY <1>1, <1>5, <2>2 DEF NoMore
  <2>4. \A q \in Peers : NoMore(peer[q], ds[q])
    BY <1>1, <2>3, OneNoMore
  <2> HIDE DEF ds
  <2>5. \A q \in Peers : peer'[q].eor = ds[q].eor
    BY <2>1, <2>3, ResetNoMore
  <2>q. QED BY <2>4, <2>5 DEF Unheard, NoMore
<1>q. QED BY <1>6, <1>7

LEMMA UnheardFlags ==
  ASSUME IInv, NEW p \in Peers,
         GrDeadline(p) \/ IdleHoldExpires(p) \/ AddPeer(p) \/ RemovePeer(p)
  PROVE  Unheard
<1> DEFINE d == peer[p]
<1>1. d \in PeerRecord /\ peer \in [Peers -> PeerRecord]
  BY DEF IInv, Good
<1>2. ASSUME NEW e, peer' = [peer EXCEPT ![p] = e], e.eor = d.eor PROVE Unheard
  <2>1. NoMore(peer[p], e)
    BY <1>2, ZenonT(40) DEF NoMore
  <2>q. QED BY <1>2, <2>1, UnheardOne, ZenonT(40)
<1>3. CASE GrDeadline(p)
  <2> DEFINE b == Flushed(d)
             e == [b EXCEPT !.armed = FALSE, !.stale = {}]
  <2>1. peer' = [peer EXCEPT ![p] = e]
    BY <1>1, <1>3 DEF GrDeadline
  <2> HIDE DEF d
  <2>2. b \in PeerRecord /\ b.eor = d.eor
    BY <1>1, FlushedFields, Zenon DEF Flushed, PeerRecord
  <2> HIDE DEF b
  <2>3. e.eor = d.eor
    BY <2>2, Zenon DEF PeerRecord
  <2> HIDE DEF e
  <2>q. QED BY <1>2, <2>1, <2>3, ZenonT(40)
<1>4. CASE IdleHoldExpires(p)
  <2> DEFINE e == [d EXCEPT !.idle = FALSE]
  <2>1. peer' = [peer EXCEPT ![p] = e]
    BY <1>1, <1>4 DEF IdleHoldExpires
  <2> HIDE DEF d
  <2>2. e.eor = d.eor
    BY <1>1, Zenon DEF PeerRecord
  <2> HIDE DEF e
  <2>q. QED BY <1>2, <2>1, <2>2, ZenonT(40)
<1>5. CASE AddPeer(p)
  <2> DEFINE old == \E a \in Actors[p] : actor[a].link \notin {"none", "stopped"}
             left == {n \in Nlris : d.loc[n] # None}
             e == [d EXCEPT !.configured = TRUE, !.adj = {}, !.left = left, !.shared = old]
  <2>1. peer' = [peer EXCEPT ![p] = e]
    BY <1>1, <1>5, ZenonT(40) DEF AddPeer, PeerRecord
  <2> HIDE DEF d, left, old
  <2>2. e.eor = d.eor
    BY <1>1, Zenon DEF PeerRecord
  <2> HIDE DEF e
  <2>q. QED BY <1>2, <2>1, <2>2, ZenonT(40)
<1>6. CASE RemovePeer(p)
  <2> DEFINE e == [d EXCEPT !.pending = TRUE]
  <2>1. peer' = [peer EXCEPT ![p] = e]
    BY <1>1, <1>6 DEF RemovePeer
  <2> HIDE DEF d
  <2>2. e.eor = d.eor
    BY <1>1, Zenon DEF PeerRecord
  <2> HIDE DEF e
  <2>q. QED BY <1>2, <2>1, <2>2, ZenonT(40)
<1>q. QED BY <1>3, <1>4, <1>5, <1>6

LEMMA UnheardStep ==
  ASSUME IInv, [Next]_vars, \A a \in Actor, f \in Family : ~EorReceived(a, f)
  PROVE  Unheard
<1>1. CASE UNCHANGED vars
  BY <1>1, UnheardSame DEF vars
<1>2. ASSUME NEW a \in Actor,
             \/ GoesDown(a) \/ TakesCommand(a)
             \/ Established(a) \/ EstablishedRejected(a) \/ Terminated(a)
             \/ RouteUpdate(a) \/ Malformed(a)
      PROVE  Unheard
  <2>1. CASE GoesDown(a) \/ TakesCommand(a) \/ EstablishedRejected(a)
    BY <2>1, UnheardSame DEF GoesDown, TakesCommand, EstablishedRejected
  <2>2. CASE Malformed(a)
    <3>1. peer \in [Peers -> PeerRecord] /\ ResetSession(PeerOf(a), peer)
      BY <2>2 DEF IInv, Good, Malformed
    <3>2. \A q \in Peers : peer'[q].eor = peer[q].eor
      BY <3>1, ResetNoMore
    <3>q. QED BY <3>2 DEF Unheard, NoMore
  <2>q. QED BY <1>2, <2>1, <2>2, UnheardEstablished, UnheardTerminated, UnheardUpdate
<1>3. ASSUME NEW p \in Peers,
             \/ StopStalled(p) \/ GrDeadline(p) \/ IdleHoldExpires(p)
             \/ AddPeer(p) \/ RemovePeer(p)
      PROVE  Unheard
  <2>1. CASE StopStalled(p)
    BY <2>1, UnheardSame DEF StopStalled
  <2>q. QED BY <1>3, <2>1, UnheardFlags
<1>4. CASE EndDrain
  BY <1>4, UnheardSame DEF EndDrain
<1>5. CASE DeferralTimer
  <2>1. peer \in [Peers -> PeerRecord] /\ Release(peer, Family)
    BY <1>5 DEF IInv, Good, DeferralTimer
  <2>2. \A q \in Peers : peer'[q].eor = peer[q].eor
    BY <2>1, ReleasedRoutes
  <2>q. QED BY <2>2 DEF Unheard, NoMore
<1>q. QED BY <1>1, <1>2, <1>3, <1>4, <1>5 DEF Next

\* An End-of-RIB of g: what p's record says of the routes of the family that
\* it is news for.
LEMMA EorCompletes ==
  ASSUME IInv, StaleListed, NEW a \in Actor, NEW g \in Family, EorReceived(a, g),
         NEW p \in Peers, NEW f \in Family,
         peer[p].up, ~peer[p].shared, f \in peer'[p].eor \ peer[p].eor
  PROVE  /\ \A n \in Of(f) : /\ peer[p].loc[n] = "fresh" => peer'[p].loc[n] = "fresh"
                             /\ peer'[p].loc[n] = "stale" => n \in peer'[p].left
         /\ \A n \in Nlris \ Of(f) : peer'[p].loc[n] = peer[p].loc[n]
<1> DEFINE o == PeerOf(a)
           d == peer[o]
           e == EndOfRib(d, g)
           ds == [peer EXCEPT ![o] = e]
           gone == d.stale \cap Of(g)
<1>1. /\ o \in Peers /\ peer \in [Peers -> PeerRecord] /\ d \in PeerRecord /\ Sound(d)
  BY Owner, RecordOf, ZenonT(40) DEF IInv, Good
<1>2. Recompute(ds)
  BY <1>1, ZenonT(40) DEF EorReceived
<1> HIDE DEF o, d
<1>3. /\ e \in PeerRecord /\ e.eor = d.eor \cup {g} /\ e.left = d.left \ gone
      /\ \A n \in Nlris : e.loc[n] = IF n \in gone THEN None ELSE d.loc[n]
  BY <1>1, EndOfRibFields
<1> HIDE DEF e, gone
<1>4. ds \in [Peers -> PeerRecord] /\ ds[o] = e /\ (p # o => ds[p] = peer[p])
  BY <1>1, <1>3
<1> HIDE DEF ds
<1>5. peer'[p].eor = ds[p].eor /\ peer'[p].loc = ds[p].loc /\ peer'[p].left = ds[p].left
  BY <1>2, <1>4, ReleasedRoutes, Zenon DEF Recompute
<1>6. p = o
  BY <1>4, <1>5
<1>7. d = peer[p] /\ f = g
  BY <1>3, <1>4, <1>5, <1>6 DEF d
<1>8. /\ peer'[p].left = d.left \ gone
      /\ \A n \in Nlris : peer'[p].loc[n] = IF n \in gone THEN None ELSE d.loc[n]
  BY <1>3, <1>4, <1>5, <1>6
<1>9. \A n \in Nlris : /\ d.loc[n] = "stale" => n \in d.stale \cup d.left
                       /\ n \in d.stale => d.loc[n] # "fresh"
  BY <1>7 DEF StaleListed
<1>10. Of(f) \subseteq Nlris /\ None # "stale"
  BY PeersAssumption DEF Of, Nlris, Family
<1>q. QED BY <1>7, <1>8, <1>9, <1>10 DEF gone

-----------------------------------------------------------------------------
(* The theorems.                                                           *)

\* The inductive invariant: a configured peer that shares its address with no
\* older actor has one session at a time, and the routes from before its
\* restart are on the stale list, or will be when the session comes up again
\* (on_established, on_terminated, on_route_update, on_gr_deadline_expired).
THEOREM RestartInvariance == Spec => []KInv
<1>1. Init => KInv
  BY InitInv, KeptInit DEF KInv
<1>2. KInv /\ [Next]_vars => KInv'
  BY StepInv, KeptStep DEF KInv
<1>q. QED BY <1>1, <1>2, PTL DEF Spec

\* End-of-RIB withdraws the routes that were not announced again, all of them
\* and no other (prune_stale_nlri), through restarts that follow each other
\* before End-of-RIB, windows that expire, idle holds and removals.
THEOREM StaleAlwaysListed == Spec => []StaleListed
<1>1. KInv => StaleListed
  <2> SUFFICES ASSUME KInv, NEW p \in Peers, NEW n \in Nlris, peer[p].up, ~peer[p].shared
               PROVE  /\ peer[p].loc[n] = "stale" => n \in peer[p].stale \cup peer[p].left
                      /\ n \in peer[p].stale => peer[p].loc[n] # "fresh"
    BY DEF StaleListed
  <2>1. Kept(peer[p], Ready(actor, p))
    BY DEF KInv, AllKept, KeptAt
  <2>q. QED BY <2>1 DEF Kept
<1>q. QED BY <1>1, RestartInvariance, PTL

\* The End-of-RIB of a family completes its restart whatever came before: no
\* route that was announced again is lost, none from before the restart
\* stays, and the other family goes on with its own (prune_stale_nlri,
\* prune_stale_nlri_v6). No other handler counts an End-of-RIB.
THEOREM RestartAlwaysCompletes == Spec => RestartCompletes
<1>1. IInv /\ StaleListed /\ [Next]_vars =>
        [\A p \in Peers, f \in Family :
           (peer[p].up /\ ~peer[p].shared /\ f \in peer'[p].eor \ peer[p].eor) =>
             /\ \A n \in Of(f) :
                  /\ peer[p].loc[n] = "fresh" => peer'[p].loc[n] = "fresh"
                  /\ peer'[p].loc[n] = "stale" => n \in peer'[p].left
             /\ \A n \in Nlris \ Of(f) : peer'[p].loc[n] = peer[p].loc[n]]_vars
  <2> SUFFICES ASSUME IInv, StaleListed, [Next]_vars, NEW p \in Peers, NEW f \in Family,
                      peer[p].up, ~peer[p].shared, f \in peer'[p].eor \ peer[p].eor
               PROVE  /\ \A n \in Of(f) :
                           /\ peer[p].loc[n] = "fresh" => peer'[p].loc[n] = "fresh"
                           /\ peer'[p].loc[n] = "stale" => n \in peer'[p].left
                      /\ \A n \in Nlris \ Of(f) : peer'[p].loc[n] = peer[p].loc[n]
    BY Zenon
  <2>1. ~Unheard
    BY DEF Unheard, NoMore
  <2>2. \E a \in Actor, g \in Family : EorReceived(a, g)
    BY <2>1, UnheardStep
  <2>q. QED BY <2>2, EorCompletes, Zenon
<1>q. QED BY <1>1, Invariance, StaleAlwaysListed, PTL DEF Spec, RestartCompletes
=============================================================================
