------------------------------ MODULE Reports ------------------------------
(***************************************************************************)
(* What the analytics service derives from an event it ingests, and the    *)
(* reports it computes: the dashboard, the zones, the time series and the  *)
(* health report.  A report is not a snapshot: each of its queries sees    *)
(* what is committed when it runs.  The cache in front of the reports, and *)
(* redeliveries, are modelled in Analytics.                                *)
(***************************************************************************)
EXTENDS Integers, Sequences, FiniteSets, FiniteSetsExt

CONSTANTS
  None,         \* no zone, no user, no severity, no date
  Produced,     \* events published: id, type, zone, user, amount, severity and time
  Admins,       \* threads that answer reports
  Dates,        \* dates a request may carry
  BucketSize,   \* ticks in an hour and in a day
  Lookback,     \* settings.default_lookback_days, in ticks
  MaxTime,      \* bound: ticks
  MaxCuts       \* bound: failures between the commits of an ingestion

RiskMetric == [HIGH |-> "risk_high_count", MEDIUM |-> "risk_medium_count", LOW |-> "risk_low_count"]

\* A disruption has a zone and a severity, of which every other counts as LOW.
ASSUME ReportsAssumption ==
  /\ BucketSize \in [{"hour", "day"} -> Nat \ {0}]
  /\ Lookback \in Nat /\ MaxTime \in Nat /\ MaxCuts \in Nat
  /\ None \notin Int /\ Dates \subseteq Int /\ Produced # {}
  /\ \A e \in Produced :
       /\ e.at \in 0..MaxTime /\ e.amount \in Nat
       /\ e.type = "DISRUPTION_DETECTED" => e.zone # None /\ e.severity \in DOMAIN RiskMetric

VARIABLES
  clock,
  rows,         \* analytics_events
  metric_rows,  \* analytics_metrics: the sum of each metric's rows
  stats,        \* aggregated_stats
  ingest,       \* the consumer thread
  cuts,         \* events left without metrics or totals by a failure
  report        \* what each admin's thread is doing, and its last answer

reportVars == <<clock, rows, metric_rows, stats, ingest, cuts, report>>

-----------------------------------------------------------------------------
(* What is derived from an event.                                          *)

OfType(e) ==
  CASE e.type = "CLAIM_INITIATED" -> [claims_total |-> 1]
    [] e.type = "CLAIM_APPROVED" -> [claims_approved |-> 1, claims_approved_amount |-> e.amount]
    [] e.type = "PAYOUT_COMPLETED" -> [payout_total_count |-> 1, payout_total_amount |-> e.amount]
    [] e.type = "FRAUD_DETECTED" -> [fraud_detected_count |-> 1]
    [] e.type = "POLICY_CREATED" -> [policy_created_count |-> 1, policy_premium_total |-> e.amount]
    [] e.type = "DISRUPTION_DETECTED" ->
         [name \in {"disruption_total_count", RiskMetric[e.severity]} |-> 1]
    [] OTHER -> <<>>

\* One for each of these names, and what the type of the event adds.
Counting(names, e) ==
  [name \in names \cup DOMAIN OfType(e) |-> IF name \in names THEN 1 ELSE OfType(e)[name]]

\* A mistake in the place of DerivedMetrics: an event of a zone is not counted in the total.
DerivedByZone(e) ==
  Counting({IF e.zone = None THEN "event_volume_total" ELSE "zone_event_count"}, e)

DerivedMetrics(e) ==
  Counting({"event_volume_total"} \cup (IF e.zone = None THEN {} ELSE {"zone_event_count"}), e)

ValueOf(totals, name) == IF name \in DOMAIN totals THEN totals[name] ELSE 0

Increased(totals, increments) ==
  [name \in DOMAIN totals \cup DOMAIN increments |-> ValueOf(totals, name) + ValueOf(increments, name)]

-----------------------------------------------------------------------------
(* Queries, over a set of event rows.                                      *)

Within(S, w) == {e \in S : w.start <= e.at /\ e.at <= w.end}

Typed(S, type) == {e \in S : e.type = type}

Amount(S) == SumFunction([e \in S |-> e.amount])

UsersIn(S) == {e.user : e \in S} \ {None}

Severe(S, severity) == Cardinality({e \in Typed(S, "DISRUPTION_DETECTED") : e.severity = severity})

RiskDistribution(S) == [r \in {"LOW", "MEDIUM", "HIGH"} |-> Severe(S, r)]

\* The average of 1, 2 and 3 for each disruption, against 2.3 and 1.6.
ZoneRiskLevel(S) ==
  LET n == RiskDistribution(S)
      total == n["LOW"] + n["MEDIUM"] + n["HIGH"]
      score == 10 * (n["LOW"] + 2 * n["MEDIUM"] + 3 * n["HIGH"])
  IN  CASE total = 0 -> "LOW"
        [] total > 0 /\ score >= 23 * total -> "HIGH"
        [] total > 0 /\ score < 23 * total /\ score >= 16 * total -> "MEDIUM"
        [] OTHER -> "LOW"

\* Ordering and the cut after five zones are left out.
ZoneAnalytics(S) ==
  [z \in {e.zone : e \in S} \ {None} |->
     LET Z == {e \in S : e.zone = z} IN
       [claims |-> Cardinality(Typed(Z, "CLAIM_INITIATED")),
        payout |-> Amount(Typed(Z, "PAYOUT_COMPLETED")),
        disruptions |-> Cardinality(Typed(Z, "DISRUPTION_DETECTED")),
        fraud |-> Cardinality(Typed(Z, "FRAUD_DETECTED")),
        users |-> Cardinality(UsersIn(Z)),
        level |-> ZoneRiskLevel(Z)]]

Counted ==
  <<"CLAIM_INITIATED", "CLAIM_APPROVED", "POLICY_CREATED", "FRAUD_DETECTED", "PAYOUT_COMPLETED">>

\* A mistake in the place of DashboardQueries: the volume is counted first.
DashboardQueriesEarly == <<"volume">> \o Counted \o <<"payout", "users", "sessions", "risk", "zones">>

DashboardQueries == Counted \o <<"volume", "payout", "users", "sessions", "risk", "zones">>

HealthQueries == <<"ingested", "latest">>

Figure(query, S, w, now) ==
  LET V == Within(S, w) IN
  CASE query = "volume" -> Cardinality(V)
    [] query = "payout" -> Amount(Typed(V, "PAYOUT_COMPLETED"))
    [] query = "users" -> Cardinality(UsersIn(V))
    [] query = "sessions" -> Cardinality(UsersIn({e \in S : e.at >= now - BucketSize.hour}))
    [] query = "risk" -> RiskDistribution(V)
    [] query = "zones" -> ZoneAnalytics(V)
    [] query = "ingested" -> Cardinality(S)
    [] query = "latest" -> IF S = {} THEN None ELSE Max({e.at : e \in S})
    [] OTHER -> Cardinality(Typed(V, query))

Bucket(t, interval) == t - (t % BucketSize[interval])

MetricEventType ==
  [claims |-> "CLAIM_INITIATED", payout |-> "PAYOUT_COMPLETED", fraud |-> "FRAUD_DETECTED",
   policy |-> "POLICY_CREATED", disruption |-> "DISRUPTION_DETECTED"]

Point(metric, S) ==
  CASE metric = "active_users" -> Cardinality(UsersIn(S))
    [] metric = "payout" -> Amount(Typed(S, MetricEventType.payout))
    [] OTHER -> Cardinality(Typed(S, MetricEventType[metric]))

Points(metric, interval, S, w) ==
  [b \in {Bucket(t, interval) : t \in w.start..w.end} |->
     Point(metric, {e \in Within(S, w) : Bucket(e.at, interval) = b})]

-----------------------------------------------------------------------------

NoReport == [op |-> "none", query |-> 1, window |-> [start |-> 0, end |-> 0], seen |-> {},
             dated |-> TRUE, figures |-> <<>>]

ReportsInit ==
  /\ clock = 0 /\ rows = {} /\ metric_rows = <<>> /\ stats = <<>>
  /\ ingest = [pc |-> "idle", event |-> CHOOSE e \in Produced : TRUE]
  /\ cuts = {}
  /\ report = [a \in Admins |-> NoReport]

Clock ==
  /\ clock < MaxTime /\ clock' = clock + 1
  /\ UNCHANGED <<rows, metric_rows, stats, ingest, cuts, report>>

(* ------------------------------- ingestion ------------------------------ *)

\* Events are stamped when they are published and may arrive in any order.
CreateEvent(e) ==
  /\ ingest.pc = "idle" /\ e \notin rows /\ e.at <= clock
  /\ rows' = rows \cup {e}
  /\ ingest' = [pc |-> "metrics", event |-> e]
  /\ UNCHANGED <<clock, metric_rows, stats, cuts, report>>

CreateMetrics ==
  /\ ingest.pc = "metrics"
  /\ metric_rows' = Increased(metric_rows, DerivedMetrics(ingest.event))
  /\ ingest' = [ingest EXCEPT !.pc = "stats"]
  /\ UNCHANGED <<clock, rows, stats, cuts, report>>

IncrementStats ==
  /\ ingest.pc = "stats"
  /\ stats' = Increased(stats, DerivedMetrics(ingest.event))
  /\ ingest' = [ingest EXCEPT !.pc = "idle"]
  /\ UNCHANGED <<clock, rows, metric_rows, cuts, report>>

\* A commit fails, or the process dies; the redelivery finds the row and stops.
IngestCut ==
  /\ ingest.pc # "idle" /\ Cardinality(cuts) < MaxCuts
  /\ cuts' = cuts \cup {ingest.event}
  /\ ingest' = [ingest EXCEPT !.pc = "idle"]
  /\ UNCHANGED <<clock, rows, metric_rows, stats, report>>

(* -------------------------------- reports ------------------------------- *)

Reported(a, r) ==
  report' = [report EXCEPT ![a] = r] /\ UNCHANGED <<clock, rows, metric_rows, stats, ingest, cuts>>

Free(a) == report[a].op = "none"

Complete(a) == report[a].query > Len(CASE report[a].op = "dashboard" -> DashboardQueries
                                       [] report[a].op = "health" -> HealthQueries
                                       [] OTHER -> <<>>)

EndDate(date) == IF date = None THEN clock ELSE date

\* Without a start date a dashboard starts at the earliest event.
FirstDate(end) == IF rows = {} THEN end - Lookback ELSE Min({e.at : e \in rows})

\* A range that is the wrong way round is refused.
Window(start, end) == [start |-> start, end |-> end]

GetDashboard(a, start, end) ==
  LET w == Window(IF start = None THEN FirstDate(EndDate(end)) ELSE start, EndDate(end)) IN
  /\ Free(a) /\ w.start <= w.end
  /\ Reported(a, [NoReport EXCEPT !.op = "dashboard", !.window = w, !.seen = rows,
                                  !.dated = start # None \/ end # None])

GetHealth(a) == Free(a) /\ Reported(a, [NoReport EXCEPT !.op = "health", !.seen = rows])

\* One query of the report under way.
Query(a) ==
  LET r == report[a]
      queries == IF r.op = "dashboard" THEN DashboardQueries ELSE HealthQueries
  IN  /\ ~Complete(a)
      /\ Reported(a, [r EXCEPT !.query = @ + 1,
                       !.figures = Append(@, Figure(queries[r.query], rows, r.window, clock))])

\* Time series and zones come from one query each.
GetTimeseries(a, metric, interval, start, end) ==
  LET w == Window(IF start = None THEN EndDate(end) - Lookback ELSE start, EndDate(end)) IN
  /\ Free(a) /\ w.start <= w.end
  /\ Reported(a, [NoReport EXCEPT !.op = metric, !.window = w, !.seen = rows,
                    !.figures = <<Points(metric, interval, rows, w)>>])

GetZones(a, days) ==
  LET w == Window(clock - days * BucketSize.day, clock) IN
  /\ Free(a)
  /\ Reported(a, [NoReport EXCEPT !.op = "zones", !.window = w, !.seen = rows,
                    !.figures = <<ZoneAnalytics(Within(rows, w))>>])

\* success_response
Respond(a) == ~Free(a) /\ Complete(a) /\ Reported(a, NoReport)

TimeSeriesMetric == {"claims", "payout", "fraud", "policy", "disruption", "active_users"}

Ask(a) ==
  \/ \E start, end \in Dates \cup {None} :
       \/ GetDashboard(a, start, end)
       \/ \E metric \in TimeSeriesMetric, interval \in DOMAIN BucketSize :
            GetTimeseries(a, metric, interval, start, end)
  \/ GetHealth(a) \/ GetZones(a, 1)

ReportsNext ==
  \/ Clock \/ \E e \in Produced : CreateEvent(e)
  \/ CreateMetrics \/ IncrementStats \/ IngestCut
  \/ \E a \in Admins : Ask(a) \/ Query(a) \/ Respond(a)

ReportsSpec == ReportsInit /\ [][ReportsNext]_reportVars

-----------------------------------------------------------------------------

Ready(a, op) == Complete(a) /\ report[a].op = op

Answered(a, query) ==
  report[a].figures[CHOOSE i \in DOMAIN DashboardQueries : DashboardQueries[i] = query]

\* The figures of one dashboard are taken at different times, but its volume is never
\* below the sum of the five counts it shows beside it, which are read before.
DashboardOrdered ==
  \A a \in Admins : Ready(a, "dashboard") =>
    Answered(a, "volume") >=
      SumFunction([i \in DOMAIN Counted |-> Answered(a, Counted[i])])

\* Each figure is one the tables had at some time between the request and the answer,
\* for the same window.
FiguresTimely ==
  \A a \in Admins : Ready(a, "dashboard") =>
    \A query \in {"volume", "payout", "users"} \cup {Counted[i] : i \in DOMAIN Counted} :
      /\ Answered(a, query) >= Figure(query, report[a].seen, report[a].window, clock)
      /\ Answered(a, query) <= Figure(query, rows, report[a].window, clock)

\* A dashboard asked for without dates leaves out no event that was there before.
DefaultShowsAll ==
  \A a \in Admins : report[a].op = "dashboard" /\ ~report[a].dated =>
    report[a].seen \subseteq Within(rows, report[a].window)

\* The health report names the time of the latest event if it counts any.
HealthConsistent ==
  \A a \in Admins : Ready(a, "health") /\ report[a].figures[1] > 0 => report[a].figures[2] # None

\* Every event of the window is in one bucket of the series, and only there: the points
\* add up to what the window holds; a user is counted once a bucket at most.
SeriesComplete ==
  \A a \in Admins, metric \in TimeSeriesMetric : Ready(a, metric) =>
    LET points == report[a].figures[1]
        total == SumFunction(points)
        V == Within(report[a].seen, report[a].window)
    IN  IF metric = "active_users"
        THEN total >= Cardinality(UsersIn(V)) /\ total <= Cardinality({e \in V : e.user # None})
        ELSE total = Point(metric, V)

SeverityRank == [LOW |-> 1, MEDIUM |-> 2, HIGH |-> 3]

\* The risk level of a zone lies between the least and the worst severity of its
\* disruptions, and the zones' disruptions are those of the window.
ZonesSound ==
  \A a \in Admins : Ready(a, "zones") =>
    LET zones == report[a].figures[1]
        D == Typed(Within(report[a].seen, report[a].window), "DISRUPTION_DETECTED")
    IN  /\ SumFunction([z \in DOMAIN zones |-> zones[z].disruptions]) = Cardinality(D)
        /\ \A z \in {e.zone : e \in D} :
             LET ranks == {SeverityRank[e.severity] : e \in {d \in D : d.zone = z}} IN
               SeverityRank[zones[z].level] \in Min(ranks)..Max(ranks)

\* What reports answer while events are being ingested.
ReportsSound ==
  DashboardOrdered /\ FiguresTimely /\ DefaultShowsAll /\ HealthConsistent /\ SeriesComplete /\ ZonesSound

\* The totals agree with each other and with the tables: a disruption is counted at one
\* risk level, no event in a zone but in the volume, and the totals lag behind the metric
\* rows and these behind the event rows by the events cut off and the one in hand only.
TotalsAgree ==
  /\ \A t \in {stats, metric_rows} :
       /\ ValueOf(t, "disruption_total_count") =
            SumFunction([r \in DOMAIN RiskMetric |-> ValueOf(t, RiskMetric[r])])
       /\ ValueOf(t, "zone_event_count") <= ValueOf(t, "event_volume_total")
  /\ \A name \in DOMAIN stats : stats[name] <= ValueOf(metric_rows, name)
  /\ LET inHand == IF ingest.pc = "idle" THEN {} ELSE {ingest.event} IN
       Cardinality(rows) - ValueOf(stats, "event_volume_total") <= Cardinality(cuts \cup inHand)
=============================================================================
