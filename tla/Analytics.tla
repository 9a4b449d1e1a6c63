----------------------------- MODULE Analytics -----------------------------
(***************************************************************************)
(* The analytics service: the consumer of analytics.events, the ingestion  *)
(* of an event in three commits (the event row, its metric rows, the       *)
(* aggregated totals) followed by a cache flush, and the dashboards that   *)
(* count event rows and keep their answer in the shared cache.  The        *)
(* container runs one process, whose consumer is one thread; dashboards    *)
(* run on the server's threads.                                            *)
(***************************************************************************)
EXTENDS EventBus, FiniteSets, FiniteSetsExt

CONSTANTS
  Identified,  \* events whose message carries an event_id or a timestamp
  Readers,     \* threads that answer dashboard requests
  MaxFaults    \* bound: failed statements, crashes and cache errors

VARIABLES
  event_rows,  \* rows of analytics_events, per event
  metrics,     \* rows of analytics_metrics named event_volume_total
  stats,       \* aggregated_stats' value of event_volume_total
  cache,       \* the cached dashboard: << >>, or the count it shows
  ingest,      \* the consumer thread and the message it holds
  reader,      \* each dashboard request and what it has counted
  resent,      \* history: publications of a failed event again, per event
  failures     \* faults so far

analyticsVars == <<event_rows, metrics, stats, cache, ingest, reader, resent, failures>>

tableVars == <<event_rows, metrics, stats>>

Nothing == [event |-> CHOOSE e \in BusEvents : TRUE,
            key |-> CHOOSE k \in Keys : TRUE, retries |-> 0]
Rest == [pc |-> "idle", msg |-> Nothing]
RowCount == MapThenSumSet(LAMBDA e : event_rows[e], BusEvents)

AnalyticsInit ==
  /\ event_rows = [e \in BusEvents |-> 0] /\ metrics = 0 /\ stats = 0
  /\ cache = <<>> /\ failures = 0
  /\ resent = [e \in BusEvents |-> 0]
  /\ ingest = Rest
  /\ reader = [r \in Readers |-> [pc |-> "idle", seen |-> 0]]

Fault == failures < MaxFaults /\ failures' = failures + 1
IngestAt(pc) == ingest.pc = pc
IngestGo(pc) == ingest' = [ingest EXCEPT !.pc = pc]

(* ----------------------------- ingestion ------------------------------- *)

IngestTake ==
  /\ IngestAt("idle") /\ Waiting("analytics")
  /\ ingest' = [pc |-> "check", msg |-> Head(boxes["analytics"])]
  /\ Get("analytics")
  /\ UNCHANGED <<dead, published, tableVars, cache, reader, resent, failures>>

\* A mistake in the place of EventKeyExists: every key holds the time of arrival.
EventKeyIsNew ==
  /\ IngestAt("check") /\ IngestGo("row")
  /\ UNCHANGED <<busVars, tableVars, cache, reader, resent, failures>>

\* The key is the event's id or a digest over its timestamp.  A message that
\* carries neither is stamped on arrival, so each delivery of it has a new key.
EventKeyExists ==
  /\ IngestAt("check")
  /\ IngestGo(IF ingest.msg.event \in Identified /\ event_rows[ingest.msg.event] > 0
              THEN "ack" ELSE "row")
  /\ UNCHANGED <<busVars, tableVars, cache, reader, resent, failures>>

CreateEvent ==
  /\ IngestAt("row") /\ IngestGo("metrics")
  /\ event_rows' = [event_rows EXCEPT ![ingest.msg.event] = @ + 1]
  /\ UNCHANGED <<busVars, metrics, stats, cache, reader, resent, failures>>

CreateMetrics ==
  /\ IngestAt("metrics") /\ IngestGo("stats")
  /\ metrics' = metrics + 1
  /\ UNCHANGED <<busVars, event_rows, stats, cache, reader, resent, failures>>

IncrementStats ==
  /\ IngestAt("stats") /\ IngestGo("flush")
  /\ stats' = stats + 1
  /\ UNCHANGED <<busVars, event_rows, metrics, cache, reader, resent, failures>>

ClearCache ==
  /\ IngestAt("flush") /\ IngestGo("ack")
  /\ cache' = <<>>
  /\ UNCHANGED <<busVars, tableVars, reader, resent, failures>>

\* Redis answers with an error: only the process's own store is cleared.
ClearCacheMisses ==
  /\ IngestAt("flush") /\ Fault /\ IngestGo("ack")
  /\ UNCHANGED <<busVars, tableVars, cache, reader, resent>>

IngestAck ==
  /\ IngestAt("ack") /\ ingest' = Rest
  /\ UNCHANGED <<busVars, tableVars, cache, reader, resent, failures>>

\* A statement fails: what is committed stays.
IngestError ==
  /\ ingest.pc \in {"check", "row", "metrics", "stats"} /\ Fault
  /\ IngestGo("failed")
  /\ UNCHANGED <<busVars, tableVars, cache, reader, resent>>

\* Under the key it came with, so every queue bound under that key has it again.
IngestRetry ==
  /\ IngestAt("failed") /\ IngestGo("ack")
  /\ Again("analytics", ingest.msg, ingest.msg.key)
  /\ resent' = [resent EXCEPT ![ingest.msg.event] = @ + 1]
  /\ UNCHANGED <<tableVars, cache, reader, failures>>

\* The process or its connection dies; the message is delivered again.
IngestCrash ==
  /\ ~IngestAt("idle") /\ Fault
  /\ PutBack("analytics", ingest.msg) /\ ingest' = Rest
  /\ UNCHANGED <<dead, published, tableVars, cache, reader, resent>>

(* ----------------------------- dashboards ------------------------------ *)

ReaderGo(r, pc, seen) == reader' = [reader EXCEPT ![r] = [pc |-> pc, seen |-> seen]]

\* A cached answer is returned as it is; otherwise the rows are counted.
GetDashboard(r) ==
  /\ reader[r].pc = "idle" /\ cache = <<>>
  /\ ReaderGo(r, "store", RowCount)
  /\ UNCHANGED <<busVars, tableVars, cache, ingest, resent, failures>>

StoreDashboard(r) ==
  /\ reader[r].pc = "store"
  /\ cache' = <<reader[r].seen>>
  /\ ReaderGo(r, "idle", 0)
  /\ UNCHANGED <<busVars, tableVars, ingest, resent, failures>>

\* A mistake in the place of CacheExpires: an entry stored without a time to live.
CacheKeeps ==
  /\ cache # <<>> /\ cache[1] = RowCount
  /\ cache' = <<>>
  /\ UNCHANGED <<busVars, tableVars, ingest, reader, resent, failures>>

CacheExpires ==
  /\ cache # <<>>
  /\ cache' = <<>>
  /\ UNCHANGED <<busVars, tableVars, ingest, reader, resent, failures>>

IngestStep ==
  \/ IngestTake \/ EventKeyExists \/ CreateEvent \/ CreateMetrics
  \/ IncrementStats \/ ClearCache \/ IngestAck \/ IngestRetry

AnalyticsNext ==
  \/ IngestStep \/ ClearCacheMisses \/ IngestError \/ IngestCrash
  \/ \E r \in Readers : GetDashboard(r) \/ StoreDashboard(r)
  \/ CacheExpires

-----------------------------------------------------------------------------

AnalyticsTypeOK ==
  /\ event_rows \in [BusEvents -> Nat] /\ metrics \in Nat /\ stats \in Nat
  /\ ingest.msg \in BusMessage
  /\ ingest.pc \in {"idle", "check", "row", "metrics", "stats", "flush", "ack", "failed"}
  /\ cache = <<>> \/ cache[1] \in 0..RowCount
  /\ \A r \in Readers : reader[r].pc \in {"idle", "store"} /\ reader[r].seen <= RowCount

\* The three commits of an event are cut by a failure, and its redelivery finds the
\* event row and stops: the metric rows and the totals lag behind the event rows, by
\* at most one event per failure (and the one being ingested), and never lead.
TotalsTrailRows ==
  LET inHand == IF ingest.pc \in {"metrics", "stats"} THEN 1 ELSE 0 IN
  /\ stats <= metrics /\ metrics <= RowCount
  /\ RowCount - stats <= failures + inHand

\* Redeliveries and the copies that other consumers' failures put on the queue are
\* counted once if the message carries an id or a time.  Those of a message without
\* (PAYOUT_COMPLETED) are counted again, at most once per failure.
CountedOnce ==
  \A e \in BusEvents :
    event_rows[e] <= IF e \in Identified THEN 1 ELSE 1 + failures

\* Once that many events are ingested, from some time on every dashboard shows them,
\* although an answer counted before may be stored after the flush, and a flush may
\* fail: only the time to live makes up for both.
DashboardCatchesUp ==
  LET n == Cardinality(BusEvents) IN
    RowCount >= n ~> [](cache = <<>> \/ cache[1] >= n)
=============================================================================
