----------------------------- MODULE RtrClient ------------------------------
(***************************************************************************)
(* The RPKI-to-Router client of pathvector-rpki (client.rs, table.rs): one *)
(* background task that connects to a cache, asks it for the ROAs it       *)
(* publishes, applies the answer to the shared table as it arrives, and    *)
(* starts over on any error.  The PDUs of the cache come in through wire,  *)
(* the last query of the client goes out through query.                    *)
(*                                                                         *)
(* A run of Prefix PDUs is one element of wire that holds the two sets of  *)
(* ROAs; the client still reads them one by one, in any order.  Router Key *)
(* PDUs are read and discarded, and leave no trace here.  One table stands *)
(* for those of the two address families.                                  *)
(***************************************************************************)
EXTENDS RoaTable

CONSTANTS Roas,        \* the ROAs a cache may publish: [prefix, max_len, asn]
          Sessions,    \* RTR session identifiers
          Serials      \* serial numbers

ASSUME RtrAssumption ==
  /\ Roas \subseteq [prefix : Seq(Bits), max_len : Nat, asn : Nat]
  /\ \A r \in Roas : Len(r.prefix) <= Width
  /\ None \notin Sessions \cup Serials \cup Nat

Version == {"V0", "V1"}

\* Where the task is: sleeping or connecting; about to write a query (also
\* the pause after No Data); waiting in sync_once for the answer; inside
\* apply_diff_stream; between two syncs.
Phase == {"Down", "Query", "Reply", "Diff", "Idle"}

VARIABLES
  phase,
  force_reset,         \* locals of sync_once
  attempted_fallback,
  version,             \* negotiated_version of run_session_loop
  session_id,          \* session_id of run_session_loop
  table,               \* RoaTable: the ROAs ...
  serial,              \* ... and the serial, None while has_serial is false
  connected,           \* RtrStatus::connected
  changed,             \* the watch channel holds a change not yet seen
  wire,                \* PDUs of the cache not yet read
  query,               \* the query the cache has not yet answered
  torn                 \* history: since the last clear, an answer broke off

client == <<phase, force_reset, attempted_fallback, version, session_id,
            table, serial, connected, changed, torn>>

Queries ==
  [type : {"SerialQuery"}, version : Version, session_id : Sessions, serial : Serials]
    \cup [type : {"ResetQuery"}, version : Version]

Pdus ==
  [type : {"CacheResponse"}, version : Version, session_id : Sessions]
    \cup [type : {"Prefixes"}, announce : SUBSET Roas, withdraw : SUBSET Roas]
    \cup [type : {"EndOfData"}, session_id : Sessions, serial : Serials]
    \cup [type : {"ErrorReport"}, code : {2, 4}]
    \cup [type : {"CacheReset", "SerialNotify", "Malformed"}]

ClientType ==
  /\ phase \in Phase
  /\ {force_reset, attempted_fallback, connected, changed, torn} \subseteq BOOLEAN
  /\ version \in Version
  /\ session_id \in Sessions \cup {None}
  /\ Contents(table) \subseteq Roas
  /\ serial \in Serials \cup {None}
  /\ wire \in Seq(Pdus)
  /\ query \in Queries \cup {None}

ClientInit ==
  /\ phase = "Down"
  /\ force_reset = FALSE /\ attempted_fallback = FALSE
  /\ version = "V1"
  /\ session_id = None
  /\ table = EmptyTable /\ serial = None
  /\ connected = FALSE /\ changed = FALSE
  /\ wire = <<>> /\ query = None
  /\ torn = FALSE

-----------------------------------------------------------------------------
(* RoaTable *)

Clear ==
  /\ table' = EmptyTable
  /\ serial' = None
  /\ torn' = FALSE

KeepTable == UNCHANGED <<table, serial, torn>>

-----------------------------------------------------------------------------
(* run_session_loop *)

\* The locals of sync_once, fresh in each call.
FreshLocals == force_reset' = FALSE /\ attempted_fallback' = FALSE

StartSync ==
  /\ phase' = "Query"
  /\ FreshLocals

Connect ==
  /\ phase = "Down"
  /\ StartSync
  /\ UNCHANGED <<version, session_id, connected, changed, wire, query>>
  /\ KeepTable

\* A slip: the error is logged, the status is not updated.
HangUpQuietly ==
  /\ phase' = "Down"
  /\ wire' = <<>> /\ query' = None
  /\ FreshLocals
  /\ UNCHANGED <<version, connected, changed>>

\* run_one_connection returns an error: set_disconnected, and the stream with
\* everything in it is dropped.
HangUp ==
  /\ phase' = "Down"
  /\ connected' = FALSE
  /\ wire' = <<>> /\ query' = None
  /\ FreshLocals
  /\ UNCHANGED <<version, changed>>

\* The table of an answer that breaks off is kept as it is.
AbandonTable ==
  /\ torn' = (torn \/ phase = "Diff")
  /\ UNCHANGED <<table, serial, session_id>>

-----------------------------------------------------------------------------
(* sync_once *)

\* A slip: a known session is resumed without a look at the serial, which a
\* clear has taken back.
SendQueryUnchecked ==
  /\ phase = "Query"
  /\ phase' = "Reply"
  /\ query' = IF ~force_reset /\ session_id # None
              THEN [type |-> "SerialQuery", version |-> version,
                    session_id |-> session_id, serial |-> serial]
              ELSE [type |-> "ResetQuery", version |-> version]
  /\ UNCHANGED <<force_reset, attempted_fallback, version, session_id,
                 connected, changed, wire>>
  /\ KeepTable

SendQuery ==
  /\ phase = "Query"
  /\ phase' = "Reply"
  /\ query' = IF ~force_reset /\ serial # None /\ session_id # None
              THEN [type |-> "SerialQuery", version |-> version,
                    session_id |-> session_id, serial |-> serial]
              ELSE [type |-> "ResetQuery", version |-> version]
  /\ UNCHANGED <<force_reset, attempted_fallback, version, session_id,
                 connected, changed, wire>>
  /\ KeepTable

Received == Head(wire)
Reads(type) == wire # <<>> /\ Received.type = type
Consume == wire' = Tail(wire) /\ UNCHANGED query

\* A slip: the load that answers a forced Reset Query is added to the old one.
ReadCacheResponseOnTop ==
  /\ phase = "Reply" /\ Reads("CacheResponse")
  /\ Consume
  /\ version' = Received.version
  /\ session_id' = Received.session_id
  /\ KeepTable
  /\ phase' = "Diff"
  /\ FreshLocals
  /\ UNCHANGED <<connected, changed>>

\* The cache answers: its version is adopted, and the table is cleared only
\* now if the query was a Reset Query forced by No Data.
ReadCacheResponse ==
  /\ phase = "Reply" /\ Reads("CacheResponse")
  /\ Consume
  /\ version' = Received.version
  /\ session_id' = Received.session_id
  /\ IF force_reset THEN Clear ELSE KeepTable
  /\ phase' = "Diff"
  /\ FreshLocals
  /\ UNCHANGED <<connected, changed>>

UnsupportedVersion == Reads("ErrorReport") /\ Received.code = 4
NoData == Reads("ErrorReport") /\ Received.code = 2

\* A slip: the query is sent again in the version that was rejected.
FallBackSameVersion ==
  /\ phase = "Reply" /\ UnsupportedVersion /\ ~attempted_fallback
  /\ Consume
  /\ Clear
  /\ attempted_fallback' = TRUE
  /\ phase' = "Query"
  /\ UNCHANGED <<version, force_reset, session_id, connected, changed>>

FallBack ==
  /\ phase = "Reply" /\ UnsupportedVersion /\ ~attempted_fallback
  /\ Consume
  /\ version' = "V0"
  /\ Clear
  /\ attempted_fallback' = TRUE
  /\ phase' = "Query"
  /\ UNCHANGED <<force_reset, session_id, connected, changed>>

RetryAfterNoData ==
  /\ phase = "Reply" /\ NoData
  /\ Consume
  /\ force_reset' = TRUE
  /\ phase' = "Query"
  /\ UNCHANGED <<attempted_fallback, version, session_id, connected, changed>>
  /\ KeepTable

-----------------------------------------------------------------------------
(* apply_diff_stream *)

\* One Prefix PDU.
ReadPrefix ==
  /\ phase = "Diff" /\ Reads("Prefixes")
  /\ \E roa \in Received.announce \cup Received.withdraw :
       LET rest == [Received EXCEPT !.announce = @ \ {roa}, !.withdraw = @ \ {roa}]
           done == rest.announce \cup rest.withdraw = {}
       IN /\ table' = ApplyPrefix(table, roa, roa \in Received.announce)
          /\ wire' = (IF done THEN <<>> ELSE <<rest>>) \o Tail(wire)
  /\ UNCHANGED <<phase, force_reset, attempted_fallback, version, session_id,
                 serial, connected, changed, query, torn>>

ReadCacheReset ==
  /\ phase = "Diff" /\ Reads("CacheReset")
  /\ Consume
  /\ Clear
  /\ StartSync
  /\ UNCHANGED <<version, session_id, connected, changed>>

\* A slip: only the first load is announced on the watch channel.
NotifyFirstLoad == changed' = (changed \/ serial = None)
Notify == changed' = TRUE

ReadEndOfData ==
  /\ phase = "Diff" /\ Reads("EndOfData")
  /\ Received.session_id = session_id
  /\ Consume
  /\ serial' = Received.serial
  /\ Notify
  /\ connected' = TRUE
  /\ phase' = "Idle"
  /\ UNCHANGED <<force_reset, attempted_fallback, version, session_id, table, torn>>

\* The answer turns out to belong to another session than it began with.
ReadOtherSession ==
  /\ phase = "Diff" /\ Reads("EndOfData")
  /\ Received.session_id # session_id
  /\ HangUp
  /\ Clear
  /\ UNCHANGED session_id

-----------------------------------------------------------------------------
(* run_one_connection, between two syncs *)

\* The refresh timer drops the read_pdu future that it races in select!.  What
\* the future had read of a PDU is lost, and the rest of that PDU is garbage.
Refresh ==
  /\ phase = "Idle"
  /\ StartSync
  /\ \/ UNCHANGED wire
     \/ wire # <<>> /\ wire' = <<[type |-> "Malformed"]>> \o Tail(wire)
  /\ UNCHANGED <<version, session_id, connected, changed, query>>
  /\ KeepTable

ReadSerialNotify ==
  /\ phase = "Idle" /\ Reads("SerialNotify")
  /\ Consume
  /\ StartSync
  /\ UNCHANGED <<version, session_id, connected, changed>>
  /\ KeepTable

Expected ==
  CASE phase = "Reply" -> {"CacheResponse"}
    [] phase = "Diff" -> {"Prefixes", "CacheReset", "EndOfData"}
    [] phase = "Idle" -> {"SerialNotify"}
    [] OTHER -> {}

\* Any PDU the three readers do not expect, or cannot decode, is an error.
ReadUnexpected ==
  /\ phase \in {"Reply", "Diff", "Idle"}
  /\ wire # <<>>
  /\ Received.type \notin Expected
  /\ phase = "Reply" => ~NoData /\ ~(UnsupportedVersion /\ ~attempted_fallback)
  /\ HangUp
  /\ AbandonTable

\* The connection fails under a read or a write.
LoseConnection ==
  /\ phase # "Down"
  /\ HangUp
  /\ AbandonTable

ClientStep ==
  \/ Connect
  \/ SendQuery
  \/ ReadCacheResponse
  \/ FallBack
  \/ RetryAfterNoData
  \/ ReadPrefix
  \/ ReadCacheReset
  \/ ReadEndOfData
  \/ ReadOtherSession
  \/ Refresh
  \/ ReadSerialNotify
  \/ ReadUnexpected

=============================================================================
