------------------------------ MODULE RtrSync -------------------------------
(***************************************************************************)
(* The RTR client together with the cache it follows and with the daemon   *)
(* that judges routes by its table.                                        *)
(*                                                                         *)
(* The cache is not part of the repository.  It does what client.rs, its   *)
(* tests and its comments say of one: it publishes a new set of ROAs under *)
(* each serial of a session, answers a Serial Query with the net change    *)
(* since that serial and a Reset Query with everything, resets a client it *)
(* cannot serve, has no data for a while after it restarts under a new     *)
(* session identifier, and may speak only version 0.                       *)
(***************************************************************************)
EXTENDS RtrClient

CONSTANTS Datasets,    \* the sets of ROAs the cache may publish
          Routes,      \* routes the daemon judges: [prefix, path]
          MaxFaults    \* bounds connections lost and answers given up

ASSUME RtrSyncAssumption ==
  /\ 0 \in Sessions /\ Sessions \subseteq Nat
  /\ 0 \in Serials /\ Serials \subseteq Nat
  /\ MaxFaults \in Nat
  /\ None \notin Queries \cup [session_id : Sessions, serial : Serials]
  /\ Datasets \subseteq SUBSET Roas
  /\ \A route \in Routes : route.prefix \in Seq(Bits) /\ Len(route.prefix) <= Width

VARIABLES
  session,             \* the cache's session identifier,
  latest,              \* its serial,
  published,           \* what it published in each session under each serial,
  loading,             \* whether it has no data yet,
  speaks,              \* the highest version it speaks,
  ending,              \* the End of Data that it still owes the client
  faults,
  judged,              \* the table by which a route was last judged
  reevaluating         \* a change is seen and not yet acted upon

cache == <<session, latest, published, loading, speaks, ending>>
vars == <<client, wire, query, cache, faults, judged, reevaluating>>

TypeOK ==
  /\ ClientType
  /\ session \in Sessions /\ latest \in Serials
  /\ published \in [Sessions -> [Serials -> SUBSET Roas]]
  /\ loading \in BOOLEAN
  /\ speaks \in Version
  /\ ending \in [session_id : Sessions, serial : Serials] \cup {None}
  /\ faults \in 0 .. MaxFaults
  /\ Contents(judged) \subseteq Roas
  /\ reevaluating \in BOOLEAN

Init ==
  /\ ClientInit
  /\ session = 0 /\ latest = 0
  /\ published = [s \in Sessions |-> [n \in Serials |-> {}]]
  /\ loading = TRUE
  /\ speaks \in Version
  /\ ending = None
  /\ faults = 0
  /\ judged = EmptyTable /\ reevaluating = FALSE

-----------------------------------------------------------------------------
(* The cache *)

Publish ==
  /\ ~loading /\ latest + 1 \in Serials
  /\ latest' = latest + 1
  /\ \E d \in Datasets \ {published[session][latest]} :
       published' = [published EXCEPT ![session][latest + 1] = d]
  /\ \/ UNCHANGED wire
     \/ /\ phase # "Down" /\ ending = None
        /\ wire' = Append(wire, [type |-> "SerialNotify"])
  /\ UNCHANGED <<client, query, session, loading, speaks, ending, faults, judged, reevaluating>>

Restart ==
  /\ session + 1 \in Sessions
  /\ session' = session + 1
  /\ latest' = 0
  /\ \E d \in Datasets : published' = [published EXCEPT ![session + 1][0] = d]
  /\ loading' = TRUE
  /\ speaks' \in Version
  /\ ending' = IF ending = None THEN None ELSE [session_id |-> session + 1, serial |-> 0]
  /\ UNCHANGED <<client, wire, query, faults, judged, reevaluating>>

Loaded ==
  /\ loading
  /\ loading' = FALSE
  /\ UNCHANGED <<client, wire, query, session, latest, published, speaks,
                 ending, faults, judged, reevaluating>>

Reply(pdus) ==
  /\ query' = None
  /\ wire' = wire \o pdus
  /\ UNCHANGED <<client, session, latest, published, loading, speaks, judged, reevaluating>>

AnswerVersion == IF speaks = "V0" THEN "V0" ELSE query.version

RejectVersion ==
  /\ query # None
  /\ query.version # AnswerVersion
  /\ Reply(<<[type |-> "ErrorReport", code |-> 4]>>)
  /\ UNCHANGED <<ending, faults>>

ReportNoData ==
  /\ query # None
  /\ loading
  /\ Reply(<<[type |-> "ErrorReport", code |-> 2]>>)
  /\ UNCHANGED <<ending, faults>>

\* The change that takes a client from one set of ROAs to the latest one.
Diff(from) ==
  LET to == published[session][latest]
      pdu == [type |-> "Prefixes", announce |-> to \ from, withdraw |-> from \ to]
  IN IF from = to THEN <<>> ELSE <<pdu>>

Answer ==
  /\ query # None
  /\ ~loading
  /\ query.type = "SerialQuery" => query.session_id = session
  /\ Reply(<<[type |-> "CacheResponse", version |-> AnswerVersion, session_id |-> session]>>
             \o Diff(IF query.type = "SerialQuery" THEN published[session][query.serial] ELSE {}))
  /\ ending' = [session_id |-> session, serial |-> latest]
  /\ UNCHANGED faults

Finish ==
  /\ ending # None
  /\ wire' = Append(wire, [type |-> "EndOfData", session_id |-> ending.session_id,
                           serial |-> ending.serial])
  /\ ending' = None
  /\ UNCHANGED <<client, query, session, latest, published, loading, speaks,
                 faults, judged, reevaluating>>

\* A Serial Query the cache cannot serve: that of another session, or one
\* whose changes it no longer has.
ResetClient ==
  /\ query # None
  /\ ~loading
  /\ query.type = "SerialQuery"
  /\ \/ query.session_id # session /\ UNCHANGED faults
     \/ query.session_id = session /\ faults < MaxFaults /\ faults' = faults + 1
  /\ Reply(<<[type |-> "CacheReset"]>>)
  /\ UNCHANGED ending

\* ... or one it gives up on halfway.
GiveUp ==
  /\ ending # None
  /\ faults < MaxFaults /\ faults' = faults + 1
  /\ wire' = Append(wire, [type |-> "CacheReset"])
  /\ ending' = None
  /\ UNCHANGED <<client, query, session, latest, published, loading, speaks, judged, reevaluating>>

CacheStep == RejectVersion \/ ReportNoData \/ Answer \/ Finish \/ ResetClient

-----------------------------------------------------------------------------
(* The daemon *)

\* The task of install_rpki marks the change as seen, waits for the lock on
\* the daemon's state, and judges the routes by the table as it is then.
TakeChange ==
  /\ changed /\ ~reevaluating
  /\ changed' = FALSE
  /\ reevaluating' = TRUE
  /\ UNCHANGED <<phase, force_reset, attempted_fallback, version, session_id,
                 table, serial, connected, torn, wire, query, cache, faults, judged>>

Reevaluate ==
  /\ reevaluating
  /\ reevaluating' = FALSE
  /\ judged' = table
  /\ UNCHANGED <<client, wire, query, cache, faults>>

\* The route is announced again, and judged by RoaValidityCondition.
JudgeRoute ==
  /\ judged' = table
  /\ UNCHANGED <<client, wire, query, cache, faults, reevaluating>>

-----------------------------------------------------------------------------

\* The end of a connection takes the rest of an answer with it.
Client ==
  /\ ClientStep
  /\ ending' = IF phase' = "Down" THEN None ELSE ending
  /\ UNCHANGED <<session, latest, published, loading, speaks, faults, judged, reevaluating>>

Disconnect ==
  /\ faults < MaxFaults /\ faults' = faults + 1
  /\ LoseConnection
  /\ ending' = None
  /\ UNCHANGED <<session, latest, published, loading, speaks, judged, reevaluating>>

Next ==
  \/ Client
  \/ Disconnect
  \/ Publish
  \/ Restart
  \/ Loaded
  \/ CacheStep
  \/ GiveUp
  \/ TakeChange
  \/ Reevaluate
  \/ JudgeRoute

Spec == Init /\ [][Next]_vars

\* The task runs for ever: run_session_loop retries after every error, and
\* its timers fire.  The cache loads its data and answers what it is asked.
FairSpec ==
  Spec /\ WF_vars(Client) /\ WF_vars(CacheStep) /\ WF_vars(Loaded)
       /\ WF_vars(TakeChange) /\ WF_vars(Reevaluate)

-----------------------------------------------------------------------------

\* What the next Serial Query builds on.
Resumable == IF serial = None THEN {} ELSE published[session_id][serial]

\* Between two answers the table is exactly what the cache published under
\* the session and the serial that the next Serial Query names -- empty
\* before the first load -- unless an answer broke off since the table was
\* last cleared: through restarts of the cache, No Data, version fallback
\* and resets, client.rs never resumes from a serial of other data.
TableSound == ~torn /\ phase # "Diff" => Contents(table) = Resumable

\* The status says connected only while there is a connection, and a
\* connection rests between two syncs only with a serial to resume from.
StatusHonest ==
  /\ connected => phase # "Down"
  /\ phase = "Idle" => connected /\ serial # None /\ session_id # None

\* Between two syncs every route has been judged by the table as it is now,
\* or a notification that has it judged again is on its way: tables
\* cleared or filled without a notification never stay unnoticed once the
\* sync is complete (subscribe, reevaluate_all_import_policies).
JudgedByTable == phase = "Idle" /\ ~changed /\ ~reevaluating => judged = table

\* Whatever PDUs made the table, duplicates, withdrawals and answers broken
\* off included, the search of validate with its shortcut, and AS 0 as the
\* stand-in for a path without a single origin, give each route the verdict
\* that RFC 6811 defines over the ROAs the table holds.
OriginValidated ==
  \A route \in Routes :
    Validity(table, route) =
      Rfc6811(Contents(table), route.prefix, OriginAs(route.path, LocalAs))

\* Until it forgets its serial, with which the table is cleared, the client
\* keeps its session and never takes up an older serial: no answer to an
\* earlier question, of a cache that has restarted or fallen back, moves it
\* to data it has already left behind (sync_once, apply_diff_stream).
SerialsAdvance ==
  [][serial # None /\ serial' # None => session_id' = session_id /\ serial <= serial']_vars

\* The client completes a sync again and again, through No Data, version
\* fallback, malformed PDUs, lost connections and answers given up -- or the
\* cache answers its Serial Queries with Cache Reset over and over.
Reset == phase = "Reply" /\ Reads("CacheReset")
SyncsAgain == []<>(phase = "Idle") \/ []<>Reset

\* "Reached EndOfData; the table now reflects the server's current state"
\* (DiffOutcome::Complete): after a sync the table is what the cache
\* published under the serial of that End of Data.
TableReflectsCache == phase = "Idle" => Contents(table) = published[session_id][serial]

\* "Cache Reset in response to Serial Query ... router MUST issue a Reset
\* Query (full resync)" (RFC_AUDIT.md): after a Cache Reset the client
\* completes a sync.
ResetResyncs == Reset ~> phase = "Idle"

=============================================================================
