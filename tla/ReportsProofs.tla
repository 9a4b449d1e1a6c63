--------------------------- MODULE ReportsProofs ---------------------------
(***************************************************************************)
(* Proofs about the derived totals and the reports of the analytics        *)
(* service, for any events, any number of administrators, any dates and    *)
(* any number of failures.                                                 *)
(***************************************************************************)
EXTENDS Reports, Sums

-----------------------------------------------------------------------------
(* The tables.                                                             *)

InHand == IF ingest.pc = "idle" THEN {} ELSE {ingest.event}

TablesSound ==
  /\ clock \in Nat
  /\ rows \subseteq Produced /\ IsFiniteSet(rows) /\ \A e \in rows : e.at <= clock
  /\ ingest \in [pc : {"idle", "metrics", "stats"}, event : Produced]
  /\ InHand \subseteq rows /\ cuts \subseteq rows

\* A total counts a disruption at one risk level and no event in a zone but in the volume.
Counts(t) == \A name \in DOMAIN t : t[name] \in Nat

Levels(t) ==
  ValueOf(t, "disruption_total_count") =
    ValueOf(t, "risk_high_count") + ValueOf(t, "risk_medium_count") + ValueOf(t, "risk_low_count")

Zoned(t) == ValueOf(t, "zone_event_count") <= ValueOf(t, "event_volume_total")

Balanced(t) == Counts(t) /\ Levels(t) /\ Zoned(t)

\* What the metric rows hold and the totals do not yet.
Pending(name) == IF ingest.pc = "stats" THEN ValueOf(DerivedMetrics(ingest.event), name) ELSE 0

TotalsTrail ==
  \A name \in DOMAIN stats \cup DOMAIN DerivedMetrics(ingest.event) :
    ValueOf(stats, name) + Pending(name) <= ValueOf(metric_rows, name)

VolumeTrails ==
  Cardinality(rows) <= ValueOf(stats, "event_volume_total") + Cardinality(cuts \cup InHand)

TotalsInv ==
  /\ TablesSound
  /\ Balanced(stats) /\ Balanced(metric_rows)
  /\ TotalsTrail /\ VolumeTrails

-----------------------------------------------------------------------------
(* Totals.                                                                 *)

(* A value that is missing counts as zero. *)
LEMMA ValueType ==
  ASSUME NEW t, Counts(t), NEW name
  PROVE  ValueOf(t, name) \in Nat
BY DEF Counts, ValueOf

(* Increasing totals adds them up, name by name. *)
LEMMA IncreasedAdds ==
  ASSUME NEW t, NEW i, Counts(t), Counts(i)
  PROVE  /\ Counts(Increased(t, i))
         /\ DOMAIN Increased(t, i) = DOMAIN t \cup DOMAIN i
         /\ \A name : ValueOf(Increased(t, i), name) = ValueOf(t, name) + ValueOf(i, name)
<1>1. \A name : ValueOf(t, name) \in Nat /\ ValueOf(i, name) \in Nat
  BY ValueType
<1>2. DOMAIN Increased(t, i) = DOMAIN t \cup DOMAIN i
  BY DEF Increased
<1>3. \A name \in DOMAIN Increased(t, i) :
        Increased(t, i)[name] = ValueOf(t, name) + ValueOf(i, name)
  BY DEF Increased
<1>4. Counts(Increased(t, i))
  BY <1>1, <1>3 DEF Counts
<1>5. ASSUME NEW name PROVE ValueOf(Increased(t, i), name) = ValueOf(t, name) + ValueOf(i, name)
  <2>1. CASE name \in DOMAIN Increased(t, i)
    BY <1>3, <2>1 DEF ValueOf
  <2>2. CASE name \notin DOMAIN Increased(t, i)
    BY <1>2, <2>2 DEF ValueOf
  <2> QED
    BY <2>1, <2>2
<1> QED
  BY <1>2, <1>4, <1>5

(* Balanced totals stay balanced when balanced increments are added. *)
LEMMA IncreasedBalanced ==
  ASSUME NEW t, NEW i, Balanced(t), Balanced(i)
  PROVE  Balanced(Increased(t, i))
<1>1. /\ Counts(Increased(t, i))
      /\ \A name : ValueOf(Increased(t, i), name) = ValueOf(t, name) + ValueOf(i, name)
  BY IncreasedAdds DEF Balanced
<1>2. \A name : ValueOf(t, name) \in Nat /\ ValueOf(i, name) \in Nat
  BY ValueType DEF Balanced
<1>3. Levels(Increased(t, i))
  BY <1>1, <1>2 DEF Balanced, Levels
<1>4. Zoned(Increased(t, i))
  BY <1>1, <1>2 DEF Balanced, Zoned
<1> QED
  BY <1>1, <1>3, <1>4 DEF Balanced

(* What an event adds of its own kind: amounts, and a disruption at its risk level. *)
LEMMA OfTypeBalanced ==
  ASSUME NEW e \in Produced
  PROVE  /\ Counts(OfType(e)) /\ Levels(OfType(e))
         /\ "event_volume_total" \notin DOMAIN OfType(e)
         /\ "zone_event_count" \notin DOMAIN OfType(e)
<1>1. e.amount \in Nat
  BY ReportsAssumption
<1>2. CASE e.type = "CLAIM_INITIATED"
  <2>1. OfType(e) = [claims_total |-> 1]
    BY <1>2 DEF OfType
  <2> QED
    BY <2>1 DEF Counts, Levels, ValueOf
<1>3. CASE e.type = "CLAIM_APPROVED"
  <2>1. OfType(e) = [claims_approved |-> 1, claims_approved_amount |-> e.amount]
    BY <1>3 DEF OfType
  <2> QED
    BY <1>1, <2>1 DEF Counts, Levels, ValueOf
<1>4. CASE e.type = "PAYOUT_COMPLETED"
  <2>1. OfType(e) = [payout_total_count |-> 1, payout_total_amount |-> e.amount]
    BY <1>4 DEF OfType
  <2> QED
    BY <1>1, <2>1 DEF Counts, Levels, ValueOf
<1>5. CASE e.type = "FRAUD_DETECTED"
  <2>1. OfType(e) = [fraud_detected_count |-> 1]
    BY <1>5 DEF OfType
  <2> QED
    BY <2>1 DEF Counts, Levels, ValueOf
<1>6. CASE e.type = "POLICY_CREATED"
  <2>1. OfType(e) = [policy_created_count |-> 1, policy_premium_total |-> e.amount]
    BY <1>6 DEF OfType
  <2> QED
    BY <1>1, <2>1 DEF Counts, Levels, ValueOf
<1>7. CASE e.type = "DISRUPTION_DETECTED"
  <2>1. e.severity \in {"HIGH", "MEDIUM", "LOW"}
    BY <1>7, ReportsAssumption DEF RiskMetric
  <2>2. OfType(e) = [name \in {"disruption_total_count", RiskMetric[e.severity]} |-> 1]
    BY <1>7 DEF OfType
  <2>3. CASE e.severity = "HIGH"
    BY <2>2, <2>3 DEF Counts, Levels, ValueOf, RiskMetric
  <2>4. CASE e.severity = "MEDIUM"
    BY <2>2, <2>4 DEF Counts, Levels, ValueOf, RiskMetric
  <2>5. CASE e.severity = "LOW"
    BY <2>2, <2>5 DEF Counts, Levels, ValueOf, RiskMetric
  <2> QED
    BY <2>1, <2>3, <2>4, <2>5
<1>8. CASE e.type \notin {"CLAIM_INITIATED", "CLAIM_APPROVED", "PAYOUT_COMPLETED",
                          "FRAUD_DETECTED", "POLICY_CREATED", "DISRUPTION_DETECTED"}
  <2>1. OfType(e) = <<>>
    BY <1>8 DEF OfType
  <2>2. DOMAIN OfType(e) = {}
    BY <2>1
  <2> QED
    BY <2>2 DEF Counts, Levels, ValueOf
<1> QED
  BY <1>2, <1>3, <1>4, <1>5, <1>6, <1>7, <1>8

(* What is derived from an event is balanced, and counts it in the volume. *)
LEMMA DerivedBalanced ==
  ASSUME NEW e \in Produced
  PROVE  /\ Balanced(DerivedMetrics(e))
         /\ ValueOf(DerivedMetrics(e), "event_volume_total") = 1
<1> DEFINE names == {"event_volume_total"} \cup (IF e.zone = None THEN {} ELSE {"zone_event_count"})
           d == DerivedMetrics(e)
<1>1. /\ DOMAIN d = names \cup DOMAIN OfType(e)
      /\ \A name \in DOMAIN d : d[name] = IF name \in names THEN 1 ELSE OfType(e)[name]
  BY DEF DerivedMetrics, Counting
<1> HIDE DEF d
<1>2. /\ Counts(OfType(e)) /\ Levels(OfType(e))
      /\ "event_volume_total" \notin DOMAIN OfType(e)
      /\ "zone_event_count" \notin DOMAIN OfType(e)
  BY OfTypeBalanced
<1>3. Counts(d)
  BY <1>1, <1>2 DEF Counts
<1>4. \A name : name \notin {"event_volume_total", "zone_event_count"} =>
        ValueOf(d, name) = ValueOf(OfType(e), name)
  BY <1>1 DEF ValueOf
<1>5. Levels(d)
  BY <1>2, <1>4 DEF Levels
<1>6. ValueOf(d, "event_volume_total") = 1
  BY <1>1 DEF ValueOf
<1>7. ValueOf(d, "zone_event_count") \in {0, 1}
  BY <1>1, <1>2 DEF ValueOf
<1>8. Zoned(d)
  BY <1>6, <1>7 DEF Zoned
<1> QED
  BY <1>3, <1>5, <1>6, <1>8 DEF Balanced, d

(* The totals trail the metric rows for every name, those of neither included. *)
LEMMA TotalsTrailAll ==
  ASSUME TotalsInv, NEW name
  PROVE  ValueOf(stats, name) + Pending(name) <= ValueOf(metric_rows, name)
<1>1. ValueOf(metric_rows, name) \in Nat
  BY ValueType DEF TotalsInv, Balanced
<1>2. CASE name \in DOMAIN stats \cup DOMAIN DerivedMetrics(ingest.event)
  BY <1>2 DEF TotalsInv, TotalsTrail
<1>3. CASE name \notin DOMAIN stats \cup DOMAIN DerivedMetrics(ingest.event)
  <2>1. ValueOf(stats, name) = 0 /\ Pending(name) = 0
    BY <1>3 DEF ValueOf, Pending
  <2> QED
    BY <1>1, <2>1
<1> QED
  BY <1>2, <1>3

(* It holds of empty tables. *)
LEMMA TotalsInit == ReportsInit => TotalsInv
<1> SUFFICES ASSUME ReportsInit PROVE TotalsInv
  OBVIOUS
<1>1. /\ clock = 0 /\ rows = {} /\ metric_rows = <<>> /\ stats = <<>> /\ cuts = {}
      /\ ingest.pc = "idle" /\ ingest.event \in Produced
      /\ ingest \in [pc : {"idle", "metrics", "stats"}, event : Produced]
  BY ReportsAssumption DEF ReportsInit
<1>2. TablesSound
  BY <1>1, FS_EmptySet DEF TablesSound, InHand
<1>3. \A t : t = <<>> => Balanced(t)
  BY DEF Balanced, Counts, Levels, Zoned, ValueOf
<1>4. TotalsTrail
  BY <1>1 DEF TotalsTrail, Pending, ValueOf
<1>5. VolumeTrails
  BY <1>1, FS_EmptySet DEF VolumeTrails, InHand, ValueOf
<1> QED
  BY <1>1, <1>2, <1>3, <1>4, <1>5 DEF TotalsInv

(* A new row is the event in hand: nothing has been added to any total for it yet. *)
LEMMA CreateEventKeeps ==
  ASSUME TotalsInv, NEW e \in Produced, CreateEvent(e)
  PROVE  TotalsInv'
<1>1. /\ ingest.pc = "idle" /\ e \notin rows /\ e.at <= clock /\ rows' = rows \cup {e}
      /\ ingest' = [pc |-> "metrics", event |-> e]
      /\ UNCHANGED <<clock, metric_rows, stats, cuts>>
  BY DEF CreateEvent
<1>2. InHand = {} /\ InHand' = {e}
  BY <1>1 DEF InHand
<1>3. rows \subseteq Produced /\ IsFiniteSet(rows) /\ cuts \subseteq rows
  BY DEF TotalsInv, TablesSound
<1>4. TablesSound'
  <2>1. IsFiniteSet(rows')
    BY <1>1, <1>3, FS_AddElement
  <2>2. clock' \in Nat /\ \A x \in rows' : x.at <= clock'
    BY <1>1 DEF TotalsInv, TablesSound
  <2> QED
    BY <1>1, <1>2, <1>3, <2>1, <2>2 DEF TablesSound
<1>5. VolumeTrails'
  <2>1. Cardinality(rows') = Cardinality(rows) + 1
    BY <1>1, <1>3, FS_AddElement
  <2>2. IsFiniteSet(cuts) /\ cuts \cup InHand = cuts /\ e \notin cuts
    BY <1>1, <1>2, <1>3, FS_Subset
  <2>3. Cardinality(cuts' \cup InHand') = Cardinality(cuts) + 1
    BY <1>1, <1>2, <2>2, FS_AddElement
  <2>4. /\ Cardinality(rows) \in Nat /\ Cardinality(cuts) \in Nat
        /\ ValueOf(stats, "event_volume_total") \in Nat
    BY <1>3, <2>2, FS_CardinalityType, ValueType DEF TotalsInv, Balanced
  <2>5. Cardinality(rows) <= ValueOf(stats, "event_volume_total") + Cardinality(cuts)
    BY <2>2 DEF TotalsInv, VolumeTrails
  <2> QED
    BY <1>1, <2>1, <2>3, <2>4, <2>5 DEF VolumeTrails
<1>6. TotalsTrail'
  <2>1. \A name : Pending(name)' = 0 /\ Pending(name) = 0
    BY <1>1 DEF Pending
  <2>2. \A name : ValueOf(stats, name) + 0 <= ValueOf(metric_rows, name)
    BY <2>1, TotalsTrailAll
  <2> QED
    BY <1>1, <2>1, <2>2 DEF TotalsTrail
<1> QED
  BY <1>1, <1>4, <1>5, <1>6 DEF TotalsInv

(* The metric rows run ahead of the totals by what the event in hand yields. *)
LEMMA CreateMetricsKeeps ==
  ASSUME TotalsInv, CreateMetrics
  PROVE  TotalsInv'
<1> DEFINE d == DerivedMetrics(ingest.event)
<1>1. /\ ingest.pc = "metrics" /\ ingest \in [pc : {"idle", "metrics", "stats"}, event : Produced]
      /\ metric_rows' = Increased(metric_rows, d)
      /\ ingest' = [ingest EXCEPT !.pc = "stats"]
      /\ UNCHANGED <<clock, rows, stats, cuts>>
  BY DEF CreateMetrics, TotalsInv, TablesSound
<1>2. /\ ingest'.pc = "stats" /\ ingest'.event = ingest.event
      /\ ingest' \in [pc : {"idle", "metrics", "stats"}, event : Produced]
  BY <1>1
<1>3. InHand' = InHand
  BY <1>1, <1>2 DEF InHand
<1>4. TablesSound' /\ VolumeTrails'
  BY <1>1, <1>2, <1>3 DEF TotalsInv, TablesSound, VolumeTrails
<1> HIDE DEF d
<1>5. Balanced(d)
  BY <1>1, DerivedBalanced DEF d
<1>6. Balanced(metric_rows)'
  BY <1>1, <1>5, IncreasedBalanced DEF TotalsInv
<1>7. \A name : ValueOf(metric_rows', name) = ValueOf(metric_rows, name) + ValueOf(d, name)
  BY <1>1, <1>5, IncreasedAdds DEF TotalsInv, Balanced
<1>8. TotalsTrail'
  <2> SUFFICES ASSUME NEW name
               PROVE  ValueOf(stats', name) + Pending(name)' <= ValueOf(metric_rows', name)
    BY DEF TotalsTrail
  <2>1. Pending(name) = 0 /\ Pending(name)' = ValueOf(d, name)
    BY <1>1, <1>2 DEF Pending, d
  <2>2. ValueOf(stats, name) + 0 <= ValueOf(metric_rows, name)
    BY <2>1, TotalsTrailAll
  <2>3. ValueOf(stats, name) \in Nat /\ ValueOf(metric_rows, name) \in Nat /\ ValueOf(d, name) \in Nat
    BY <1>5, ValueType DEF TotalsInv, Balanced
  <2>4. ValueOf(metric_rows', name) = ValueOf(metric_rows, name) + ValueOf(d, name)
    BY <1>7
  <2> QED
    BY <1>1, <2>1, <2>2, <2>3, <2>4
<1> QED
  BY <1>1, <1>4, <1>6, <1>8 DEF TotalsInv

(* The totals take up what was pending, and the event is no longer in hand. *)
LEMMA IncrementStatsKeeps ==
  ASSUME TotalsInv, IncrementStats
  PROVE  TotalsInv'
<1> DEFINE d == DerivedMetrics(ingest.event)
<1>1. /\ ingest.pc = "stats" /\ ingest \in [pc : {"idle", "metrics", "stats"}, event : Produced]
      /\ stats' = Increased(stats, d)
      /\ ingest' = [ingest EXCEPT !.pc = "idle"]
      /\ UNCHANGED <<clock, rows, metric_rows, cuts>>
  BY DEF IncrementStats, TotalsInv, TablesSound
<1>2. /\ ingest'.pc = "idle" /\ ingest'.event = ingest.event
      /\ ingest' \in [pc : {"idle", "metrics", "stats"}, event : Produced]
  BY <1>1
<1>3. InHand = {ingest.event} /\ InHand' = {}
  BY <1>1, <1>2 DEF InHand
<1>4. TablesSound'
  BY <1>1, <1>2, <1>3 DEF TotalsInv, TablesSound
<1> HIDE DEF d
<1>5. Balanced(d) /\ ValueOf(d, "event_volume_total") = 1
  BY <1>1, DerivedBalanced DEF d
<1>6. Balanced(stats)'
  BY <1>1, <1>5, IncreasedBalanced DEF TotalsInv
<1>7. \A name : ValueOf(stats', name) = ValueOf(stats, name) + ValueOf(d, name)
  BY <1>1, <1>5, IncreasedAdds DEF TotalsInv, Balanced
<1>8. TotalsTrail'
  <2> SUFFICES ASSUME NEW name
               PROVE  ValueOf(stats', name) + Pending(name)' <= ValueOf(metric_rows', name)
    BY DEF TotalsTrail
  <2>1. Pending(name)' = 0 /\ Pending(name) = ValueOf(d, name)
    BY <1>1, <1>2 DEF Pending, d
  <2>2. ValueOf(stats, name) + ValueOf(d, name) <= ValueOf(metric_rows, name)
    BY <2>1, TotalsTrailAll
  <2>3. ValueOf(stats, name) \in Nat /\ ValueOf(d, name) \in Nat
    BY <1>5, ValueType DEF TotalsInv, Balanced
  <2>4. ValueOf(stats', name) = ValueOf(stats, name) + ValueOf(d, name)
    BY <1>7
  <2> QED
    BY <1>1, <2>1, <2>2, <2>3, <2>4
<1>9. VolumeTrails'
  <2>1. ValueOf(stats', "event_volume_total") = ValueOf(stats, "event_volume_total") + 1
    BY <1>5, <1>7
  <2>2. IsFiniteSet(cuts)
    BY FS_Subset DEF TotalsInv, TablesSound
  <2>3. /\ Cardinality(cuts \cup InHand) <= Cardinality(cuts) + 1
        /\ Cardinality(cuts) \in Nat /\ Cardinality(cuts \cup InHand) \in Nat
    <3>1. /\ IsFiniteSet(cuts \cup {ingest.event}) /\ Cardinality(cuts) \in Nat
          /\ \/ Cardinality(cuts \cup {ingest.event}) = Cardinality(cuts)
             \/ Cardinality(cuts \cup {ingest.event}) = Cardinality(cuts) + 1
      BY <2>2, FS_AddElement, FS_CardinalityType
    <3>2. Cardinality(cuts \cup {ingest.event}) \in Nat
      BY <3>1
    <3> QED
      BY <1>3, <3>1, <3>2
  <2>4. cuts' \cup InHand' = cuts
    BY <1>1, <1>3
  <2>5. Cardinality(rows) \in Nat /\ ValueOf(stats, "event_volume_total") \in Nat
    BY FS_CardinalityType, ValueType DEF TotalsInv, TablesSound, Balanced
  <2>6. Cardinality(rows) <= ValueOf(stats, "event_volume_total") + Cardinality(cuts \cup InHand)
    BY DEF TotalsInv, VolumeTrails
  <2>7. Cardinality(rows) <= ValueOf(stats', "event_volume_total") + Cardinality(cuts)
    BY <2>1, <2>3, <2>5, <2>6
  <2> QED
    BY <1>1, <2>4, <2>7 DEF VolumeTrails
<1> QED
  BY <1>1, <1>4, <1>6, <1>8, <1>9 DEF TotalsInv

(* What was pending is lost, and the event counts as cut off from now on. *)
LEMMA IngestCutKeeps ==
  ASSUME TotalsInv, IngestCut
  PROVE  TotalsInv'
<1>1. /\ ingest.pc # "idle" /\ ingest \in [pc : {"idle", "metrics", "stats"}, event : Produced]
      /\ cuts' = cuts \cup {ingest.event}
      /\ ingest' = [ingest EXCEPT !.pc = "idle"]
      /\ UNCHANGED <<clock, rows, metric_rows, stats>>
  BY DEF IngestCut, TotalsInv, TablesSound
<1>2. /\ ingest'.pc = "idle" /\ ingest'.event = ingest.event
      /\ ingest' \in [pc : {"idle", "metrics", "stats"}, event : Produced]
  BY <1>1
<1>3. InHand = {ingest.event} /\ InHand' = {} /\ cuts' \cup InHand' = cuts \cup InHand
  BY <1>1, <1>2 DEF InHand
<1>4. TablesSound' /\ VolumeTrails'
  BY <1>1, <1>2, <1>3 DEF TotalsInv, TablesSound, VolumeTrails
<1>5. TotalsTrail'
  <2> SUFFICES ASSUME NEW name
               PROVE  ValueOf(stats', name) + Pending(name)' <= ValueOf(metric_rows', name)
    BY DEF TotalsTrail
  <2>1. Pending(name)' = 0
    BY <1>2 DEF Pending
  <2>2. ValueOf(stats, name) + Pending(name) <= ValueOf(metric_rows, name)
    BY TotalsTrailAll
  <2>3. Balanced(DerivedMetrics(ingest.event))
    BY <1>1, DerivedBalanced
  <2>4. /\ ValueOf(stats, name) \in Nat /\ ValueOf(metric_rows, name) \in Nat
        /\ ValueOf(DerivedMetrics(ingest.event), name) \in Nat
    BY <2>3, ValueType DEF TotalsInv, Balanced
  <2>5. Pending(name) \in Nat
    BY <2>4 DEF Pending
  <2> QED
    BY <1>1, <2>1, <2>2, <2>4, <2>5
<1> QED
  BY <1>1, <1>4, <1>5 DEF TotalsInv

(* A step that leaves the tables and the consumer alone, time aside. *)
LEMMA OthersKeepTotals ==
  ASSUME TotalsInv, clock' \in Nat, clock <= clock',
         UNCHANGED <<rows, metric_rows, stats, ingest, cuts>>
  PROVE  TotalsInv'
<1>1. TablesSound'
  <2>1. InHand' = InHand
    BY DEF InHand
  <2>2. \A e \in rows : e.at \in Nat /\ e.at <= clock
    BY ReportsAssumption DEF TotalsInv, TablesSound
  <2>3. \A e \in rows' : e.at <= clock'
    BY <2>2 DEF TotalsInv, TablesSound
  <2> QED
    BY <2>1, <2>3 DEF TotalsInv, TablesSound
<1>2. TotalsTrail' /\ VolumeTrails'
  BY DEF TotalsInv, TotalsTrail, VolumeTrails, Pending, InHand
<1> QED
  BY <1>1, <1>2 DEF TotalsInv

\* What an administrator's thread does.
AdminStep == \E a \in Admins : Ask(a) \/ Query(a) \/ Respond(a)

(* A thread that answers reports writes no table. *)
LEMMA AdminReads ==
  ASSUME AdminStep
  PROVE  UNCHANGED <<clock, rows, metric_rows, stats, ingest, cuts>>
<1> PICK a \in Admins : Ask(a) \/ Query(a) \/ Respond(a)
  BY DEF AdminStep
<1>1. ASSUME NEW start, NEW end, GetDashboard(a, start, end)
      PROVE  UNCHANGED <<clock, rows, metric_rows, stats, ingest, cuts>>
  BY <1>1 DEF GetDashboard, Reported
<1>2. ASSUME NEW metric, NEW interval, NEW start, NEW end, GetTimeseries(a, metric, interval, start, end)
      PROVE  UNCHANGED <<clock, rows, metric_rows, stats, ingest, cuts>>
  BY <1>2 DEF GetTimeseries, Reported
<1>3. CASE GetHealth(a)
  BY <1>3 DEF GetHealth, Reported
<1>4. CASE GetZones(a, 1)
  BY <1>4 DEF GetZones, Reported
<1>5. CASE Query(a)
  BY <1>5 DEF Query, Reported
<1>6. CASE Respond(a)
  BY <1>6 DEF Respond, Reported
<1> QED
  BY <1>1, <1>2, <1>3, <1>4, <1>5, <1>6 DEF Ask

(* The inductive invariant of the tables and the derived totals, whose writes are three *)
(* commits of one ingestion that a failure may cut short after any of them.             *)
THEOREM TotalsInductive == TotalsInv /\ [ReportsNext]_reportVars => TotalsInv'
<1> SUFFICES ASSUME TotalsInv, [ReportsNext]_reportVars PROVE TotalsInv'
  OBVIOUS
<1>1. clock \in Nat
  BY DEF TotalsInv, TablesSound
<1>2. CASE Clock
  <2>1. clock' = clock + 1 /\ UNCHANGED <<rows, metric_rows, stats, ingest, cuts>>
    BY <1>2 DEF Clock
  <2>2. clock' \in Nat /\ clock <= clock'
    BY <1>1, <2>1
  <2> QED
    BY <2>1, <2>2, OthersKeepTotals
<1>3. CASE AdminStep
  <2>1. UNCHANGED <<clock, rows, metric_rows, stats, ingest, cuts>>
    BY <1>3, AdminReads
  <2>2. clock' \in Nat /\ clock <= clock'
    BY <1>1, <2>1
  <2> QED
    BY <2>1, <2>2, OthersKeepTotals
<1>4. CASE UNCHANGED reportVars
  <2>1. UNCHANGED <<clock, rows, metric_rows, stats, ingest, cuts>>
    BY <1>4 DEF reportVars
  <2>2. clock' \in Nat /\ clock <= clock'
    BY <1>1, <2>1
  <2> QED
    BY <2>1, <2>2, OthersKeepTotals
<1>5. CASE \E e \in Produced : CreateEvent(e)
  BY <1>5, CreateEventKeeps
<1> QED
  BY <1>2, <1>3, <1>4, <1>5, CreateMetricsKeeps, IncrementStatsKeeps, IngestCutKeeps
  DEF ReportsNext, AdminStep

(* A sum over the risk levels. *)
LEMMA SumOverLevels ==
  ASSUME NEW f, \A r \in {"HIGH", "MEDIUM", "LOW"} : f[r] \in Int,
         DOMAIN f = {"HIGH", "MEDIUM", "LOW"}
  PROVE  SumFunction(f) = f["HIGH"] + f["MEDIUM"] + f["LOW"]
<1>1. /\ IsFiniteSet({"HIGH", "MEDIUM", "LOW"}) /\ IsFiniteSet({"MEDIUM", "LOW"})
      /\ IsFiniteSet({"LOW"})
  <2>1. /\ {"MEDIUM", "LOW"} = {"LOW"} \cup {"MEDIUM"}
        /\ {"HIGH", "MEDIUM", "LOW"} = {"MEDIUM", "LOW"} \cup {"HIGH"}
    OBVIOUS
  <2>2. IsFiniteSet({"LOW"})
    BY FS_Singleton
  <2>3. IsFiniteSet({"MEDIUM", "LOW"})
    BY <2>1, <2>2, FS_AddElement
  <2>4. IsFiniteSet({"HIGH", "MEDIUM", "LOW"})
    BY <2>1, <2>3, FS_AddElement
  <2> QED
    BY <2>2, <2>3, <2>4
<1>2. /\ {"HIGH", "MEDIUM", "LOW"} \ {"HIGH"} = {"MEDIUM", "LOW"}
      /\ {"MEDIUM", "LOW"} \ {"MEDIUM"} = {"LOW"} /\ {"LOW"} \ {"LOW"} = {}
  OBVIOUS
<1>3. Total(f, {"LOW"}) = f["LOW"] + 0
  BY <1>1, <1>2, TotalRemoves, TotalOfNone
<1>4. Total(f, {"MEDIUM", "LOW"}) = f["MEDIUM"] + Total(f, {"LOW"})
  BY <1>1, <1>2, TotalRemoves
<1>5. Total(f, {"HIGH", "MEDIUM", "LOW"}) = f["HIGH"] + Total(f, {"MEDIUM", "LOW"})
  BY <1>1, <1>2, TotalRemoves
<1> QED
  BY <1>3, <1>4, <1>5, SumIsTotal

(* What is balanced adds up as the property says. *)
LEMMA BalancedAgrees ==
  ASSUME NEW t, Balanced(t)
  PROVE  /\ ValueOf(t, "disruption_total_count") =
              SumFunction([r \in DOMAIN RiskMetric |-> ValueOf(t, RiskMetric[r])])
         /\ ValueOf(t, "zone_event_count") <= ValueOf(t, "event_volume_total")
<1> DEFINE f == [r \in DOMAIN RiskMetric |-> ValueOf(t, RiskMetric[r])]
<1>1. DOMAIN RiskMetric = {"HIGH", "MEDIUM", "LOW"}
  BY DEF RiskMetric
<1>2. \A name : ValueOf(t, name) \in Nat
  BY ValueType DEF Balanced
<1>3. /\ f["HIGH"] = ValueOf(t, "risk_high_count") /\ f["MEDIUM"] = ValueOf(t, "risk_medium_count")
      /\ f["LOW"] = ValueOf(t, "risk_low_count")
  BY DEF RiskMetric
<1>4. DOMAIN f = {"HIGH", "MEDIUM", "LOW"} /\ \A r \in {"HIGH", "MEDIUM", "LOW"} : f[r] \in Int
  BY <1>1, <1>2
<1> HIDE DEF f
<1>5. SumFunction(f) = f["HIGH"] + f["MEDIUM"] + f["LOW"]
  BY <1>4, SumOverLevels
<1> QED
  BY <1>3, <1>5 DEF Balanced, Levels, Zoned, f

(* The invariant has what the totals promise. *)
LEMMA TotalsInvAgrees == TotalsInv => TotalsAgree
<1> SUFFICES ASSUME TotalsInv PROVE TotalsAgree
  OBVIOUS
<1>1. \A t \in {stats, metric_rows} :
        /\ ValueOf(t, "disruption_total_count") =
             SumFunction([r \in DOMAIN RiskMetric |-> ValueOf(t, RiskMetric[r])])
        /\ ValueOf(t, "zone_event_count") <= ValueOf(t, "event_volume_total")
  BY BalancedAgrees DEF TotalsInv
<1>2. ASSUME NEW name \in DOMAIN stats PROVE stats[name] <= ValueOf(metric_rows, name)
  <2>1. ValueOf(stats, name) + Pending(name) <= ValueOf(metric_rows, name)
    BY TotalsTrailAll
  <2>2. ingest.event \in Produced
    BY DEF TotalsInv, TablesSound
  <2>3. Balanced(DerivedMetrics(ingest.event))
    BY <2>2, DerivedBalanced
  <2>4. /\ ValueOf(stats, name) \in Nat /\ ValueOf(metric_rows, name) \in Nat
        /\ ValueOf(DerivedMetrics(ingest.event), name) \in Nat
    BY <2>3, ValueType DEF TotalsInv, Balanced
  <2>5. Pending(name) \in Nat
    BY <2>4 DEF Pending
  <2>6. ValueOf(stats, name) = stats[name]
    BY <1>2 DEF ValueOf
  <2> QED
    BY <2>1, <2>4, <2>5, <2>6
<1>3. Cardinality(rows) - ValueOf(stats, "event_volume_total") <= Cardinality(cuts \cup InHand)
  <2>1. IsFiniteSet(cuts \cup InHand)
    BY FS_Subset DEF TotalsInv, TablesSound
  <2>2. /\ Cardinality(rows) \in Nat /\ Cardinality(cuts \cup InHand) \in Nat
        /\ ValueOf(stats, "event_volume_total") \in Nat
    BY <2>1, FS_CardinalityType, ValueType DEF TotalsInv, TablesSound, Balanced
  <2> QED
    BY <2>2 DEF TotalsInv, VolumeTrails
<1> QED
  BY <1>1, <1>2, <1>3 DEF TotalsAgree, InHand

(* For any events and failures the totals of the analytics service agree with each other *)
(* and lag behind the tables by the events cut off and the one in hand only.             *)
THEOREM TotalsCorrect == ReportsSpec => []TotalsAgree
BY TotalsInit, TotalsInductive, TotalsInvAgrees, PTL DEF ReportsSpec

-----------------------------------------------------------------------------
(* Queries.                                                                *)

Amounts == [e \in Produced |-> e.amount]

(* An amount is a total, and grows with the set of events. *)
LEMMA AmountIsTotal ==
  ASSUME NEW S \in SUBSET Produced, IsFiniteSet(S)
  PROVE  Amount(S) = Total(Amounts, S) /\ Amount(S) \in Nat
<1> DEFINE f == [e \in S |-> e.amount]
<1>1. \A e \in S : f[e] \in Nat /\ f[e] = e.amount /\ Amounts[e] = e.amount
  BY ReportsAssumption DEF Amounts
<1>2. DOMAIN f = S
  OBVIOUS
<1>3. Amount(S) = SumFunction(f)
  BY DEF Amount
<1> HIDE DEF f
<1>4. SumFunction(f) = Total(f, S)
  BY <1>2, SumIsTotal
<1>5. \A e \in S : f[e] \in Int /\ Amounts[e] = f[e]
  BY <1>1
<1>6. Total(Amounts, S) = Total(f, S)
  BY <1>5, TotalSame
<1>7. Total(f, S) \in Nat
  BY <1>1, TotalIsNat
<1> QED
  BY <1>3, <1>4, <1>6, <1>7

(* More events amount to no less: amounts are natural numbers. *)
LEMMA AmountGrows ==
  ASSUME NEW R \in SUBSET Produced, IsFiniteSet(R), NEW S \in SUBSET R
  PROVE  Amount(S) \in Nat /\ Amount(R) \in Nat /\ Amount(S) <= Amount(R)
<1>1. IsFiniteSet(S) /\ S \in SUBSET Produced
  BY FS_Subset
<1>2. Amount(S) = Total(Amounts, S) /\ Amount(R) = Total(Amounts, R)
  BY <1>1, AmountIsTotal
<1>3. \A e \in R : Amounts[e] \in Nat
  BY ReportsAssumption DEF Amounts
<1>4. Total(Amounts, S) \in Nat /\ Total(Amounts, R) \in Nat /\ Total(Amounts, S) <= Total(Amounts, R)
  BY <1>3, TotalOfSubset
<1> QED
  BY <1>2, <1>4

OfUsers(S) == {e \in S : e.user # None}

(* There are no more users than events of users, and no fewer in a larger set. *)
LEMMA UsersAreFew ==
  ASSUME NEW S, IsFiniteSet(S)
  PROVE  /\ IsFiniteSet(UsersIn(S)) /\ Cardinality(UsersIn(S)) \in Nat
         /\ IsFiniteSet(OfUsers(S)) /\ Cardinality(OfUsers(S)) \in Nat
         /\ Cardinality(UsersIn(S)) <= Cardinality(OfUsers(S))
<1>1. IsFiniteSet(OfUsers(S)) /\ Cardinality(OfUsers(S)) \in Nat
  BY FS_Subset, FS_CardinalityType DEF OfUsers
<1> DEFINE u == [e \in OfUsers(S) |-> e.user]
<1>2. {u[e] : e \in OfUsers(S)} = UsersIn(S)
  BY DEF OfUsers, UsersIn
<1> HIDE DEF u
<1>3. /\ IsFiniteSet({u[e] : e \in OfUsers(S)})
      /\ Cardinality({u[e] : e \in OfUsers(S)}) <= Cardinality(OfUsers(S))
  BY <1>1, SizeOfImage
<1> QED
  BY <1>1, <1>2, <1>3, FS_CardinalityType

\* The queries whose answer only more events can change, and only raise.
Growing == {"volume", "payout", "users"} \cup {Counted[i] : i \in DOMAIN Counted}

(* The five counted types are distinct and none is the name of another query. *)
LEMMA CountedTypes ==
  /\ DOMAIN Counted = 1..5
  /\ \A i, j \in 1..5 : Counted[i] = Counted[j] => i = j
  /\ \A i \in 1..5 :
       Counted[i] \notin {"volume", "payout", "users", "sessions", "risk", "zones", "ingested", "latest"}
BY DEF Counted

(* Each of the five is the number of events of its type in the window. *)
LEMMA FigureOfCounted ==
  ASSUME NEW i \in 1..5, NEW S, NEW w, NEW now
  PROVE  Figure(Counted[i], S, w, now) = Cardinality(Typed(Within(S, w), Counted[i]))
<1> DEFINE q == Counted[i]
<1>1. /\ q # "volume" /\ q # "payout" /\ q # "users" /\ q # "sessions" /\ q # "risk"
      /\ q # "zones" /\ q # "ingested" /\ q # "latest"
  BY CountedTypes
<1> HIDE DEF q
<1>2. Figure(q, S, w, now) = Cardinality(Typed(Within(S, w), q))
  BY <1>1 DEF Figure
<1> QED
  BY <1>2 DEF q

(* Such a figure is no smaller for more events, whenever it is taken. *)
LEMMA FigureGrows ==
  ASSUME NEW R \in SUBSET Produced, IsFiniteSet(R), NEW S \in SUBSET R,
         NEW query \in Growing, NEW w, NEW m, NEW n
  PROVE  /\ Figure(query, S, w, m) \in Nat /\ Figure(query, R, w, n) \in Nat
         /\ Figure(query, S, w, m) <= Figure(query, R, w, n)
<1> DEFINE V == Within(S, w)
           W == Within(R, w)
<1>1. /\ V \subseteq W /\ IsFiniteSet(W) /\ W \in SUBSET Produced
      /\ IsFiniteSet(V)
  <2>1. V \subseteq W /\ W \subseteq R /\ V \subseteq R
    BY DEF Within
  <2> HIDE DEF V, W
  <2> QED
    BY <2>1, FS_Subset
<1> HIDE DEF V, W
<1>2. CASE query = "volume"
  <2>1. Figure(query, S, w, m) = Cardinality(V) /\ Figure(query, R, w, n) = Cardinality(W)
    BY <1>2 DEF Figure, V, W
  <2> QED
    BY <1>1, <2>1, FS_Subset, FS_CardinalityType
<1>3. CASE query = "payout"
  <2> DEFINE type == "PAYOUT_COMPLETED"
  <2>1. /\ Figure(query, S, w, m) = Amount(Typed(V, type))
        /\ Figure(query, R, w, n) = Amount(Typed(W, type))
    BY <1>3 DEF Figure, V, W
  <2>2. Typed(V, type) \in SUBSET Typed(W, type) /\ Typed(W, type) \in SUBSET W
    BY <1>1 DEF Typed
  <2>3. IsFiniteSet(Typed(W, type)) /\ Typed(W, type) \in SUBSET Produced
    BY <1>1, <2>2, FS_Subset
  <2> HIDE DEF type
  <2> QED
    BY <2>1, <2>2, <2>3, AmountGrows
<1>4. CASE query = "users"
  <2>1. Figure(query, S, w, m) = Cardinality(UsersIn(V)) /\ Figure(query, R, w, n) = Cardinality(UsersIn(W))
    BY <1>4 DEF Figure, V, W
  <2>2. UsersIn(V) \in SUBSET UsersIn(W)
    BY <1>1 DEF UsersIn
  <2>3. IsFiniteSet(UsersIn(W))
    BY <1>1, UsersAreFew
  <2> QED
    BY <2>1, <2>2, <2>3, FS_Subset, FS_CardinalityType
<1>5. ASSUME NEW i \in 1..5, query = Counted[i]
      PROVE  /\ Figure(query, S, w, m) \in Nat /\ Figure(query, R, w, n) \in Nat
             /\ Figure(query, S, w, m) <= Figure(query, R, w, n)
  <2>1. /\ Figure(query, S, w, m) = Cardinality(Typed(V, query))
        /\ Figure(query, R, w, n) = Cardinality(Typed(W, query))
    BY <1>5, FigureOfCounted DEF V, W
  <2>2. Typed(V, query) \in SUBSET Typed(W, query) /\ Typed(W, query) \in SUBSET W
    BY <1>1 DEF Typed
  <2>3. IsFiniteSet(Typed(W, query))
    BY <1>1, <2>2, FS_Subset
  <2> QED
    BY <2>1, <2>2, <2>3, FS_Subset, FS_CardinalityType
<1> QED
  BY <1>2, <1>3, <1>4, <1>5, CountedTypes DEF Growing

\* The figures of the counted types, at one time.
CountFigures(S, w, now) == [i \in 1..5 |-> Figure(Counted[i], S, w, now)]

(* At one time, the volume is at least the sum of the five counts. *)
LEMMA VolumeCoversCounts ==
  ASSUME NEW S \in SUBSET Produced, IsFiniteSet(S), NEW w, NEW now
  PROVE  /\ \A i \in 1..5 : CountFigures(S, w, now)[i] \in Nat
         /\ Total(CountFigures(S, w, now), 1..5) <= Figure("volume", S, w, now)
         /\ Total(CountFigures(S, w, now), 1..5) \in Nat
<1> DEFINE V == Within(S, w)
           C == {e \in V : \E i \in 1..5 : Counted[i] = e.type}
           k == [e \in C |-> CHOOSE i \in 1..5 : Counted[i] = e.type]
           figures == CountFigures(S, w, now)
<1>1. IsFiniteSet(V) /\ IsFiniteSet(C) /\ Cardinality(C) <= Cardinality(V) /\ C \subseteq V
  <2>1. V \in SUBSET S /\ C \in SUBSET V
    BY DEF Within
  <2> HIDE DEF V, C
  <2> QED
    BY <2>1, FS_Subset
<1>2. \A e \in C : k[e] \in 1..5 /\ Counted[k[e]] = e.type
  OBVIOUS
<1>3. \A i \in 1..5 : Part(C, k, i) = Typed(V, Counted[i])
  <2> SUFFICES ASSUME NEW i \in 1..5 PROVE Part(C, k, i) = Typed(V, Counted[i])
    OBVIOUS
  <2>1. \A e \in Typed(V, Counted[i]) : e \in C /\ Counted[i] = e.type
    BY DEF Typed
  <2>2. Typed(V, Counted[i]) = {e \in C : e.type = Counted[i]}
    BY DEF Typed
  <2> HIDE DEF V, C, k
  <2>3. \A e \in C : k[e] = i <=> e.type = Counted[i]
    BY <1>2, CountedTypes
  <2> QED
    BY <2>2, <2>3 DEF Part
<1>4. Figure("volume", S, w, now) = Cardinality(V)
  BY DEF Figure
<1> HIDE DEF V, C, k
<1>5. figures = PartSizes(C, k, 1..5)
  BY <1>3, FigureOfCounted DEF CountFigures, PartSizes, V
<1>6. IsFiniteSet(1..5)
  <2>1. PICK n \in Int : n = 5
    OBVIOUS
  <2>2. IsFiniteSet(1..n)
    BY FS_Interval
  <2> QED
    BY <2>1, <2>2
<1>7. /\ \A i \in 1..5 : Cardinality(Part(C, k, i)) \in Nat
      /\ Total(PartSizes(C, k, 1..5), 1..5) = Cardinality(C)
  BY <1>1, <1>2, <1>6, SizeOfParts
<1>8. \A i \in 1..5 : figures[i] \in Nat
  BY <1>5, <1>7 DEF PartSizes
<1> QED
  BY <1>1, <1>4, <1>5, <1>7, <1>8, FS_CardinalityType

-----------------------------------------------------------------------------
(* The least and the greatest of a set of numbers.                         *)

(* A set of natural numbers that is not empty has a least element. *)
LEMMA LeastExists ==
  ASSUME NEW S \in SUBSET Nat, S # {}
  PROVE  Min(S) \in S /\ \A x \in S : Min(S) <= x
<1> DEFINE A == {n \in Nat : \A x \in S : n < x}
<1>1. \E x \in S : \A y \in S : x <= y
  <2> SUFFICES ASSUME \A x \in S : \E y \in S : y < x PROVE FALSE
    OBVIOUS
  <2>1. 0 \in A
    OBVIOUS
  <2>2. ASSUME NEW n \in Nat, n \in A PROVE n + 1 \in A
    <3>1. \A x \in S : n + 1 <= x
      BY <2>2
    <3>2. n + 1 \notin S
      BY <2>2
    <3> QED
      BY <3>1, <3>2
  <2> HIDE DEF A
  <2>3. Nat \subseteq A
    BY <2>1, <2>2, NaturalInduction
  <2>4. PICK x \in S : x \in Nat
    OBVIOUS
  <2> QED
    BY <2>3, <2>4 DEF A
<1> QED
  BY <1>1 DEF Min

(* A bounded set of natural numbers that is not empty has a greatest element. *)
LEMMA GreatestExists ==
  ASSUME NEW S \in SUBSET Nat, S # {}, NEW n \in Nat, \A x \in S : x <= n
  PROVE  Max(S) \in S /\ \A x \in S : x <= Max(S)
<1> DEFINE T == {n - x : x \in S}
<1>1. T \in SUBSET Nat /\ T # {}
  <2>1. \A x \in S : x \in Nat /\ n - x \in Nat
    OBVIOUS
  <2>2. PICK x \in S : TRUE
    OBVIOUS
  <2>3. n - x \in T
    BY <2>2
  <2> QED
    BY <2>1, <2>3
<1>2. Min(T) \in T /\ \A t \in T : Min(T) <= t
  BY <1>1, LeastExists
<1>3. PICK x \in S : Min(T) = n - x
  BY <1>2
<1>4. \A y \in S : n - x <= n - y
  BY <1>2, <1>3
<1>5. \A y \in S : y <= x
  BY <1>4
<1> QED
  BY <1>5 DEF Max

-----------------------------------------------------------------------------
(* The series: every event of the window is in one bucket of it.           *)

BucketOf(V, interval) == [e \in V |-> Bucket(e.at, interval)]

Buckets(interval, w) == {Bucket(t, interval) : t \in w.start..w.end}

Windows == [start : Int, end : Int]

(* The buckets of a series are finite in number and every event of the window is in one. *)
LEMMA BucketsCover ==
  ASSUME NEW S \in SUBSET Produced, IsFiniteSet(S), NEW w \in Windows, NEW interval
  PROVE  /\ IsFiniteSet(Buckets(interval, w))
         /\ IsFiniteSet(Within(S, w)) /\ Within(S, w) \in SUBSET Produced
         /\ \A e \in Within(S, w) : BucketOf(Within(S, w), interval)[e] \in Buckets(interval, w)
<1>1. w.start \in Int /\ w.end \in Int
  BY DEF Windows
<1> DEFINE I == w.start..w.end
           f == [t \in I |-> Bucket(t, interval)]
<1>2. IsFiniteSet(I)
  BY <1>1, FS_Interval
<1>3. {f[t] : t \in I} = Buckets(interval, w)
  BY DEF Buckets
<1> HIDE DEF I, f
<1>4. IsFiniteSet(Buckets(interval, w))
  BY <1>2, <1>3, SizeOfImage
<1>5. Within(S, w) \in SUBSET S
  BY DEF Within
<1>6. ASSUME NEW e \in Within(S, w) PROVE e.at \in w.start..w.end
  BY <1>1, ReportsAssumption DEF Within
<1> QED
  BY <1>4, <1>5, <1>6, FS_Subset DEF BucketOf, Buckets

\* Events of a bucket and of a type are events of the type and of the bucket.
LEMMA PartOfTyped ==
  ASSUME NEW V, NEW type, NEW interval, NEW b
  PROVE  Typed(Part(V, BucketOf(V, interval), b), type) =
           Part(Typed(V, type), BucketOf(V, interval), b)
BY DEF Typed, Part

\* A series, with the buckets as parts of the window.
PointsOf(metric, interval, V, T) ==
  [b \in T |-> Point(metric, Part(V, BucketOf(V, interval), b))]

(* A series has a point for each bucket, taken over the events in it. *)
LEMMA PointsAreOfParts ==
  ASSUME NEW metric, NEW interval, NEW S, NEW w
  PROVE  Points(metric, interval, S, w) = PointsOf(metric, interval, Within(S, w), Buckets(interval, w))
<1>1. \A b : {e \in Within(S, w) : Bucket(e.at, interval) = b} =
               Part(Within(S, w), BucketOf(Within(S, w), interval), b)
  BY DEF Part, BucketOf
<1> QED
  BY <1>1 DEF Points, PointsOf, Buckets

\* What the points of a series over V add up to.
SeriesSum(metric, V, total) ==
  IF metric = "active_users"
  THEN total >= Cardinality(UsersIn(V)) /\ total <= Cardinality(OfUsers(V))
  ELSE total = Point(metric, V)

(* For any events, window, interval and metric the points add up to the window's events: *)
(* an event in no bucket, or in two, would break this.                                    *)
LEMMA SeriesAddsUp ==
  ASSUME NEW S \in SUBSET Produced, IsFiniteSet(S), NEW w \in Windows,
         NEW interval, NEW metric \in TimeSeriesMetric
  PROVE  SeriesSum(metric, Within(S, w), SumFunction(Points(metric, interval, S, w)))
<1> DEFINE V == Within(S, w)
           T == Buckets(interval, w)
           k == BucketOf(V, interval)
           P == PointsOf(metric, interval, V, T)
<1>1. IsFiniteSet(T) /\ IsFiniteSet(V) /\ V \in SUBSET Produced /\ \A e \in V : k[e] \in T
  BY BucketsCover
<1>2. Points(metric, interval, S, w) = P /\ DOMAIN P = T
  BY PointsAreOfParts DEF PointsOf
<1>3. SumFunction(P) = Total(P, T)
  BY <1>2, SumIsTotal
<1> HIDE DEF V, T, k, P
<1>4. CASE metric = "active_users"
  <2> DEFINE N == OfUsers(V)
             F == [b \in T |-> UsersIn(Part(V, k, b))]
  <2>1. \A b : IsFiniteSet(Part(V, k, b))
    BY <1>1, FS_Subset DEF Part
  <2>2. \A b \in T : F[b] = UsersIn(Part(V, k, b)) /\ IsFiniteSet(F[b])
    BY <2>1, UsersAreFew
  <2>3. P = Sizes(F, T)
    BY <1>4, <2>2 DEF P, PointsOf, Point, Sizes, k
  <2>4. UNION {F[b] : b \in T} = UsersIn(V)
    <3>1. ASSUME NEW b \in T PROVE F[b] \subseteq UsersIn(V)
      BY DEF UsersIn, Part
    <3>2. ASSUME NEW u \in UsersIn(V) PROVE \E b \in T : u \in F[b]
      <4>1. PICK e \in V : u = e.user /\ u # None
        BY DEF UsersIn
      <4>2. k[e] \in T /\ e \in Part(V, k, k[e])
        BY <1>1 DEF Part
      <4>3. u \in UsersIn(Part(V, k, k[e]))
        BY <4>1, <4>2 DEF UsersIn
      <4> QED
        BY <4>2, <4>3
    <3> HIDE DEF F
    <3> QED
      BY <3>1, <3>2
  <2> HIDE DEF F
  <2>5. Cardinality(UsersIn(V)) <= Total(P, T)
    BY <1>1, <2>2, <2>3, <2>4, SizeOfUnion
  <2>6. IsFiniteSet(N) /\ \A e \in N : k[e] \in T
    BY <1>1, UsersAreFew DEF OfUsers
  <2>7. /\ \A b \in T : Cardinality(Part(N, k, b)) \in Nat
        /\ Total(PartSizes(N, k, T), T) = Cardinality(N)
    BY <1>1, <2>6, SizeOfParts
  <2>8. ASSUME NEW b \in T
        PROVE  P[b] \in Int /\ PartSizes(N, k, T)[b] \in Int /\ P[b] <= PartSizes(N, k, T)[b]
    <3>1. OfUsers(Part(V, k, b)) = Part(N, k, b)
      BY DEF OfUsers, Part
    <3>2. P[b] = Cardinality(UsersIn(Part(V, k, b)))
      BY <2>2, <2>3 DEF Sizes
    <3>3. PartSizes(N, k, T)[b] = Cardinality(Part(N, k, b))
      BY DEF PartSizes
    <3> QED
      BY <2>1, <2>7, <3>1, <3>2, <3>3, UsersAreFew
  <2>9. Total(P, T) <= Total(PartSizes(N, k, T), T)
    BY <1>1, <2>8, TotalMonotone
  <2>10. Total(P, T) \in Int
    BY <1>1, <2>8, TotalMonotone
  <2>11. Cardinality(UsersIn(V)) \in Nat /\ Cardinality(N) \in Nat
    BY <1>1, UsersAreFew
  <2> QED
    BY <1>2, <1>3, <1>4, <2>5, <2>7, <2>9, <2>10, <2>11 DEF SeriesSum, V
<1>5. CASE metric = "payout"
  <2> DEFINE W == Typed(V, MetricEventType.payout)
  <2>1. W \in SUBSET V /\ IsFiniteSet(W) /\ W \in SUBSET Produced
    <3>1. W \in SUBSET V
      BY DEF Typed
    <3> HIDE DEF W
    <3> QED
      BY <1>1, <3>1, FS_Subset
  <2>2. \A b : Part(W, k, b) \in SUBSET W
    BY DEF Part
  <2>3. ASSUME NEW b \in T PROVE P[b] = Total(Amounts, Part(W, k, b))
    <3>1. P[b] = Amount(Part(W, k, b))
      BY <1>5, PartOfTyped DEF P, PointsOf, Point, k
    <3>2. IsFiniteSet(Part(W, k, b)) /\ Part(W, k, b) \in SUBSET Produced
      BY <2>1, <2>2, FS_Subset
    <3> QED
      BY <3>1, <3>2, AmountIsTotal
  <2>4. P = PartTotals(Amounts, W, k, T)
    BY <2>3 DEF PartTotals, P, PointsOf
  <2>5. Point(metric, V) = Amount(W)
    BY <1>5 DEF Point
  <2>6. /\ \A e \in W : Amounts[e] \in Int
        /\ \A e \in W : k[e] \in T
    BY <1>1, <2>1, ReportsAssumption DEF Amounts
  <2> HIDE DEF W
  <2>7. Total(PartTotals(Amounts, W, k, T), T) = Total(Amounts, W)
    BY <1>1, <2>1, <2>6, TotalOfParts
  <2>8. Amount(W) = Total(Amounts, W)
    BY <2>1, AmountIsTotal
  <2> QED
    BY <1>2, <1>3, <1>5, <2>4, <2>5, <2>7, <2>8 DEF SeriesSum, V
<1>6. CASE metric \notin {"active_users", "payout"}
  <2> DEFINE W == Typed(V, MetricEventType[metric])
  <2>1. IsFiniteSet(W) /\ \A e \in W : k[e] \in T
    <3>1. W \in SUBSET V
      BY DEF Typed
    <3> HIDE DEF W
    <3> QED
      BY <1>1, <3>1, FS_Subset
  <2>2. Point(metric, V) = Cardinality(W)
    BY <1>6 DEF Point
  <2>3. ASSUME NEW b \in T PROVE P[b] = Cardinality(Part(W, k, b))
    BY <1>6, PartOfTyped DEF P, PointsOf, Point, k
  <2>4. P = PartSizes(W, k, T)
    BY <2>3 DEF PartSizes, P, PointsOf
  <2> HIDE DEF W
  <2>5. Total(PartSizes(W, k, T), T) = Cardinality(W)
    BY <1>1, <2>1, SizeOfParts
  <2> QED
    BY <1>2, <1>3, <1>6, <2>2, <2>4, <2>5 DEF SeriesSum, V
<1> QED
  BY <1>4, <1>5, <1>6

-----------------------------------------------------------------------------
(* The zones: a disruption is in one zone, and at the level of some severity. *)

(* Every disruption has a zone, so the zones' disruptions are those of the window. *)
LEMMA ZonesAddUp ==
  ASSUME NEW V \in SUBSET Produced, IsFiniteSet(V)
  PROVE  LET zones == ZoneAnalytics(V) IN
           SumFunction([z \in DOMAIN zones |-> zones[z].disruptions]) =
             Cardinality(Typed(V, "DISRUPTION_DETECTED"))
<1> DEFINE D == Typed(V, "DISRUPTION_DETECTED")
           T == {e.zone : e \in V} \ {None}
           k == [e \in D |-> e.zone]
           zones == ZoneAnalytics(V)
           sizes == [z \in DOMAIN zones |-> zones[z].disruptions]
<1>1. IsFiniteSet(D) /\ D \subseteq V
  <2>1. D \in SUBSET V
    BY DEF Typed
  <2> HIDE DEF D
  <2> QED
    BY <2>1, FS_Subset
<1>2. \A e \in D : k[e] \in T
  BY ReportsAssumption DEF Typed
<1>3. IsFiniteSet(T)
  <2> DEFINE f == [e \in V |-> e.zone]
             A == {f[e] : e \in V}
  <2>1. T \in SUBSET A
    OBVIOUS
  <2>2. IsFiniteSet(A)
    <3> HIDE DEF f
    <3> QED
      BY SizeOfImage
  <2> HIDE DEF T, A
  <2> QED
    BY <2>1, <2>2, FS_Subset
<1>4. DOMAIN zones = T
  BY DEF ZoneAnalytics
<1>5. ASSUME NEW z \in T PROVE zones[z].disruptions = Cardinality(Part(D, k, z))
  <2>1. Typed({e \in V : e.zone = z}, "DISRUPTION_DETECTED") = Part(D, k, z)
    BY DEF Typed, Part
  <2>2. zones[z].disruptions = Cardinality(Typed({e \in V : e.zone = z}, "DISRUPTION_DETECTED"))
    BY DEF ZoneAnalytics
  <2> QED
    BY <2>1, <2>2
<1> HIDE DEF zones, T, D, k
<1>6. sizes = PartSizes(D, k, T)
  BY <1>4, <1>5 DEF PartSizes
<1>7. Total(PartSizes(D, k, T), T) = Cardinality(D)
  BY <1>1, <1>2, <1>3, SizeOfParts
<1>8. DOMAIN sizes = T
  BY <1>4
<1> HIDE DEF sizes
<1>9. SumFunction(sizes) = Total(sizes, T)
  BY <1>8, SumIsTotal
<1>10. SumFunction(sizes) = Cardinality(D)
  BY <1>6, <1>7, <1>9
<1> QED
  BY <1>10 DEF sizes, zones, D

\* The severities of a set of disruptions, as numbers.
Ranks(D) == {SeverityRank[e.severity] : e \in D}

(* A severity is counted exactly when some disruption has it. *)
LEMMA SevereIsSome ==
  ASSUME NEW Z, IsFiniteSet(Z), NEW s
  PROVE  /\ Severe(Z, s) \in Nat
         /\ Severe(Z, s) > 0 <=> \E e \in Typed(Z, "DISRUPTION_DETECTED") : e.severity = s
<1> DEFINE A == {e \in Typed(Z, "DISRUPTION_DETECTED") : e.severity = s}
<1>1. A \in SUBSET Z
  BY DEF Typed
<1>2. Severe(Z, s) = Cardinality(A)
  BY DEF Severe
<1>3. A # {} <=> \E e \in Typed(Z, "DISRUPTION_DETECTED") : e.severity = s
  OBVIOUS
<1> HIDE DEF A
<1>4. IsFiniteSet(A)
  BY <1>1, FS_Subset
<1>5. Cardinality(A) \in Nat /\ (Cardinality(A) = 0 <=> A = {})
  BY <1>4, FS_CardinalityType, FS_EmptySet
<1> QED
  BY <1>2, <1>3, <1>5

(* Whatever the mix of severities, the level of a zone is between the least and the *)
(* worst of them: the thresholds 1.6 and 2.3 leave no gap.                          *)
LEMMA LevelBetween ==
  ASSUME NEW Z \in SUBSET Produced, IsFiniteSet(Z), Typed(Z, "DISRUPTION_DETECTED") # {}
  PROVE  SeverityRank[ZoneRiskLevel(Z)] \in
           Min(Ranks(Typed(Z, "DISRUPTION_DETECTED")))..Max(Ranks(Typed(Z, "DISRUPTION_DETECTED")))
<1> DEFINE D == Typed(Z, "DISRUPTION_DETECTED")
           R == Ranks(D)
           low == Severe(Z, "LOW")
           medium == Severe(Z, "MEDIUM")
           high == Severe(Z, "HIGH")
<1>1. \A e \in D : e.severity \in {"HIGH", "MEDIUM", "LOW"}
  BY ReportsAssumption DEF Typed, RiskMetric
<1>2. /\ SeverityRank["LOW"] = 1 /\ SeverityRank["MEDIUM"] = 2 /\ SeverityRank["HIGH"] = 3
      /\ R \in SUBSET Nat /\ R # {} /\ \A x \in R : 1 <= x /\ x <= 3
  <2>1. SeverityRank["LOW"] = 1 /\ SeverityRank["MEDIUM"] = 2 /\ SeverityRank["HIGH"] = 3
    BY DEF SeverityRank
  <2>2. \A e \in D : SeverityRank[e.severity] \in {1, 2, 3}
    BY <1>1, <2>1
  <2>3. \A x \in R : x \in {1, 2, 3}
    BY <2>2 DEF Ranks
  <2>4. R # {}
    BY DEF Ranks
  <2> QED
    BY <2>1, <2>3, <2>4
<1>3. /\ low \in Nat /\ (low > 0 <=> \E e \in D : e.severity = "LOW")
      /\ medium \in Nat /\ (medium > 0 <=> \E e \in D : e.severity = "MEDIUM")
      /\ high \in Nat /\ (high > 0 <=> \E e \in D : e.severity = "HIGH")
  BY SevereIsSome
<1>4. low > 0 \/ medium > 0 \/ high > 0
  BY <1>1, <1>3
<1>5. (low > 0 => 1 \in R) /\ (medium > 0 => 2 \in R) /\ (high > 0 => 3 \in R)
  BY <1>2, <1>3 DEF Ranks
<1>6. ZoneRiskLevel(Z) =
        LET total == low + medium + high
            score == 10 * (low + 2 * medium + 3 * high)
        IN  CASE total = 0 -> "LOW"
              [] total > 0 /\ score >= 23 * total -> "HIGH"
              [] total > 0 /\ score < 23 * total /\ score >= 16 * total -> "MEDIUM"
              [] OTHER -> "LOW"
  BY DEF ZoneRiskLevel, RiskDistribution
<1> DEFINE level == ZoneRiskLevel(Z)
<1> HIDE DEF low, medium, high, R, D
<1>7. \/ level = "HIGH" /\ high > 0
      \/ level = "MEDIUM" /\ (high > 0 \/ medium > 0) /\ (low > 0 \/ medium > 0)
      \/ level = "LOW" /\ low > 0
  <2> DEFINE total == low + medium + high
             score == 10 * (low + 2 * medium + 3 * high)
  <2>1. total \in Nat /\ total > 0 /\ score \in Nat
    BY <1>3, <1>4
  <2>2. score >= 23 * total => high > 0
    BY <1>3, <1>4
  <2>3. score < 16 * total => low > 0
    BY <1>3, <1>4
  <2>4. score < 23 * total => low > 0 \/ medium > 0
    BY <1>3, <1>4
  <2>5. score >= 16 * total => high > 0 \/ medium > 0
    BY <1>3, <1>4
  <2>6. /\ score >= 23 * total => level = "HIGH"
        /\ score < 23 * total /\ score >= 16 * total => level = "MEDIUM"
        /\ score < 23 * total /\ score < 16 * total => level = "LOW"
    <3> HIDE DEF level
    <3>1. level = CASE total = 0 -> "LOW"
                    [] total > 0 /\ score >= 23 * total -> "HIGH"
                    [] total > 0 /\ score < 23 * total /\ score >= 16 * total -> "MEDIUM"
                    [] OTHER -> "LOW"
      BY <1>6 DEF level
    <3> HIDE DEF total, score
    <3> QED
      BY <2>1, <3>1
  <2>7. (score >= 23 * total \/ score < 23 * total) /\ (score >= 16 * total \/ score < 16 * total)
    BY <2>1
  <2> HIDE DEF total, score, level
  <2> QED
    BY <2>2, <2>3, <2>4, <2>5, <2>6, <2>7
<1>8. Min(R) \in R /\ \A x \in R : Min(R) <= x
  BY <1>2, LeastExists
<1>9. Max(R) \in R /\ \A x \in R : x <= Max(R)
  <2>1. PICK n \in Nat : n = 3
    OBVIOUS
  <2>2. \A x \in R : x <= n
    BY <1>2, <2>1
  <2> QED
    BY <1>2, <2>2, GreatestExists
<1> HIDE DEF level
<1>10. Min(R) \in Nat /\ Max(R) \in Nat /\ 1 <= Min(R) /\ Max(R) <= 3
  BY <1>2, <1>8, <1>9
<1>11. SeverityRank[level] \in Min(R)..Max(R)
  <2>1. CASE level = "HIGH" /\ high > 0
    <3>1. Min(R) <= 3 /\ 3 <= Max(R)
      BY <1>5, <1>8, <1>9, <2>1
    <3> QED
      BY <1>2, <1>10, <2>1, <3>1
  <2>2. CASE level = "MEDIUM" /\ (high > 0 \/ medium > 0) /\ (low > 0 \/ medium > 0)
    <3>1. (2 \in R \/ 3 \in R) /\ (1 \in R \/ 2 \in R)
      BY <1>5, <2>2
    <3>2. Min(R) <= 2 /\ 2 <= Max(R)
      BY <1>8, <1>9, <1>10, <3>1
    <3> QED
      BY <1>2, <1>10, <2>2, <3>2
  <2>3. CASE level = "LOW" /\ low > 0
    <3>1. Min(R) <= 1 /\ 1 <= Max(R)
      BY <1>5, <1>8, <1>9, <2>3
    <3> QED
      BY <1>2, <1>10, <2>3, <3>1
  <2> QED
    BY <1>7, <2>1, <2>2, <2>3
<1> QED
  BY <1>11 DEF R, D, level

-----------------------------------------------------------------------------
(* What is known of a report, whose queries were answered while the event  *)
(* rows grew from r.seen to R.                                             *)

Fields(r) ==
  r = [op |-> r.op, query |-> r.query, window |-> r.window, seen |-> r.seen,
       dated |-> r.dated, figures |-> r.figures]

\* A sequence of anything.
IsSequence(s) == s \in Seq({s[i] : i \in DOMAIN s})

Answers(r, n) == IsSequence(r.figures) /\ r.query \in 1..(n + 1) /\ Len(r.figures) = r.query - 1

\* The i-th figure of a dashboard lies between its values before and after.
Timely(r, R, i) ==
  DashboardQueries[i] \in Growing =>
    /\ r.figures[i] \in Nat
    /\ Figure(DashboardQueries[i], r.seen, r.window, 0) <= r.figures[i]
    /\ r.figures[i] <= Figure(DashboardQueries[i], R, r.window, 0)

DashboardSound(r, R) ==
  /\ Answers(r, 11)
  /\ \A i \in 1..(r.query - 1) : Timely(r, R, i)
  /\ r.query > 6 => Total(r.figures, 1..5) <= r.figures[6]
  /\ ~r.dated => r.seen \subseteq Within(r.seen, r.window)

HealthSound(r, R) ==
  /\ Answers(r, 2)
  /\ r.query > 1 => r.figures[1] \in Nat /\ (r.figures[1] > 0 => R # {})
  /\ r.query > 2 => (r.figures[1] > 0 => r.figures[2] # None)

SeriesSound(r) ==
  r.query = 1 /\ \E interval \in DOMAIN BucketSize :
                   r.figures = <<Points(r.op, interval, r.seen, r.window)>>

ZonesReportSound(r) == r.query = 1 /\ r.figures = <<ZoneAnalytics(Within(r.seen, r.window))>>

ReportSound(r, R) ==
  /\ Fields(r)
  /\ r.op \in {"none", "dashboard", "health", "zones"} \cup TimeSeriesMetric
  /\ r.window \in Windows /\ r.seen \subseteq R
  /\ r.op = "none" => r.query = 1
  /\ r.op = "dashboard" => DashboardSound(r, R)
  /\ r.op = "health" => HealthSound(r, R)
  /\ r.op = "zones" => ZonesReportSound(r)
  /\ r.op \in TimeSeriesMetric => SeriesSound(r)

ReportsInv ==
  /\ report = [a \in Admins |-> report[a]]
  /\ \A a \in Admins : ReportSound(report[a], rows)

-----------------------------------------------------------------------------
(* Steps of a report.                                                      *)

(* What a sequence is after one more element, whatever its elements are. *)
LEMMA AppendFacts ==
  ASSUME NEW s, IsSequence(s), NEW x
  PROVE  /\ IsSequence(Append(s, x)) /\ Len(s) \in Nat
         /\ Len(Append(s, x)) = Len(s) + 1
         /\ Append(s, x)[Len(s) + 1] = x
         /\ \A i \in 1..Len(s) : Append(s, x)[i] = s[i]
<1> DEFINE S == {s[i] : i \in DOMAIN s} \cup {x}
           t == Append(s, x)
<1>1. s \in Seq(S) /\ x \in S
  BY DEF IsSequence
<1> HIDE DEF S
<1>2. /\ t \in Seq(S) /\ Len(s) \in Nat /\ Len(t) = Len(s) + 1
      /\ t[Len(s) + 1] = x /\ \A i \in 1..Len(s) : t[i] = s[i]
  BY <1>1
<1> HIDE DEF t
<1>3. DOMAIN t = 1..Len(t) /\ Len(t) \in Nat
  BY <1>2
<1>4. t \in [1..Len(t) -> {t[i] : i \in DOMAIN t}]
  BY <1>2, <1>3
<1>5. IsSequence(t)
  BY <1>3, <1>4 DEF IsSequence
<1> QED
  BY <1>2, <1>5 DEF t

(* A report that has just been asked for has no figures. *)
LEMMA NothingAnswered ==
  ASSUME NEW r, r.figures = <<>>, r.query = 1, NEW R
  PROVE  Answers(r, 11) /\ HealthSound(r, R)
<1>1. <<>> \in Seq({<<>>[i] : i \in DOMAIN <<>>}) /\ Len(<<>>) = 0
  OBVIOUS
<1>2. IsSequence(<<>>)
  BY <1>1 DEF IsSequence
<1> QED
  BY <1>1, <1>2 DEF Answers, HealthSound

(* The metrics of the time series are none of the other reports. *)
LEMMA OpsDistinct ==
  /\ TimeSeriesMetric = {"claims", "payout", "fraud", "policy", "disruption", "active_users"}
  /\ "none" \notin TimeSeriesMetric /\ "dashboard" \notin TimeSeriesMetric
  /\ "health" \notin TimeSeriesMetric /\ "zones" \notin TimeSeriesMetric
BY DEF TimeSeriesMetric

(* The eight growing figures of a dashboard come first. *)
LEMMA DashboardIndex ==
  /\ Len(DashboardQueries) = 11 /\ DOMAIN DashboardQueries = 1..11
  /\ \A i \in 1..5 : DashboardQueries[i] = Counted[i] /\ Counted[i] \in Growing
  /\ DashboardQueries[6] = "volume" /\ DashboardQueries[7] = "payout"
  /\ DashboardQueries[8] = "users"
  /\ \A i, j \in 1..11 : DashboardQueries[i] = DashboardQueries[j] => i = j
<1>1. /\ Len(DashboardQueries) = 11 /\ DOMAIN DashboardQueries = 1..11
      /\ DashboardQueries[1] = "CLAIM_INITIATED" /\ DashboardQueries[2] = "CLAIM_APPROVED"
      /\ DashboardQueries[3] = "POLICY_CREATED" /\ DashboardQueries[4] = "FRAUD_DETECTED"
      /\ DashboardQueries[5] = "PAYOUT_COMPLETED" /\ DashboardQueries[6] = "volume"
      /\ DashboardQueries[7] = "payout" /\ DashboardQueries[8] = "users"
      /\ DashboardQueries[9] = "sessions" /\ DashboardQueries[10] = "risk"
      /\ DashboardQueries[11] = "zones"
  BY DEF DashboardQueries, Counted
<1>2. \A i \in 1..5 : DashboardQueries[i] = Counted[i]
  BY <1>1 DEF Counted
<1>3. \A i \in 1..5 : Counted[i] \in Growing
  BY CountedTypes DEF Growing
<1>4. \A i, j \in 1..11 : DashboardQueries[i] = DashboardQueries[j] => i = j
  BY <1>1
<1> QED
  BY <1>1, <1>2, <1>3, <1>4

(* The two queries of a health report. *)
LEMMA HealthIndex ==
  Len(HealthQueries) = 2 /\ HealthQueries[1] = "ingested" /\ HealthQueries[2] = "latest"
BY DEF HealthQueries

(* What is known of a report stays so when the rows grow. *)
LEMMA SoundGrows ==
  ASSUME NEW R \in SUBSET Produced, IsFiniteSet(R), NEW S \in SUBSET R,
         NEW r, ReportSound(r, S)
  PROVE  ReportSound(r, R)
<1>1. r.seen \subseteq R
  BY DEF ReportSound
<1>2. ASSUME DashboardSound(r, S) PROVE DashboardSound(r, R)
  <2>1. ASSUME NEW i \in 1..(r.query - 1) PROVE Timely(r, R, i)
    <3>1. Timely(r, S, i)
      BY <1>2 DEF DashboardSound
    <3>2. ASSUME DashboardQueries[i] \in Growing PROVE Timely(r, R, i)
      <4> DEFINE q == DashboardQueries[i]
      <4>1. /\ Figure(q, S, r.window, 0) \in Nat /\ Figure(q, R, r.window, 0) \in Nat
            /\ Figure(q, S, r.window, 0) <= Figure(q, R, r.window, 0)
        BY <3>2, FigureGrows
      <4>2. /\ r.figures[i] \in Nat
            /\ Figure(q, r.seen, r.window, 0) <= r.figures[i]
            /\ r.figures[i] <= Figure(q, S, r.window, 0)
        BY <3>1, <3>2 DEF Timely
      <4>3. r.figures[i] <= Figure(q, R, r.window, 0)
        BY <4>1, <4>2
      <4> QED
        BY <4>2, <4>3 DEF Timely
    <3> QED
      BY <3>2 DEF Timely
  <2> QED
    BY <1>2, <2>1 DEF DashboardSound
<1>3. ASSUME HealthSound(r, S) PROVE HealthSound(r, R)
  BY <1>3 DEF HealthSound
<1> QED
  BY <1>1, <1>2, <1>3 DEF ReportSound

(* A thread that does nothing has a sound report. *)
LEMMA NoReportSound ==
  ASSUME NEW R
  PROVE  ReportSound(NoReport, R)
<1>1. Fields(NoReport) /\ NoReport.op = "none" /\ NoReport.query = 1 /\ NoReport.seen = {}
  BY DEF NoReport, Fields
<1>2. NoReport.window \in Windows
  BY DEF NoReport, Windows
<1> QED
  BY <1>1, <1>2, OpsDistinct DEF ReportSound

(* A dashboard begins soundly: without dates its window is that of all the events. *)
LEMMA DashboardAsked ==
  ASSUME TablesSound, NEW start \in Dates \cup {None}, NEW end \in Dates \cup {None}, NEW r,
         NEW w, w = Window(IF start = None THEN FirstDate(EndDate(end)) ELSE start, EndDate(end)),
         r = [NoReport EXCEPT !.op = "dashboard", !.window = w, !.seen = rows,
                              !.dated = start # None \/ end # None]
  PROVE  ReportSound(r, rows)
<1>1. /\ Fields(r) /\ r.op = "dashboard" /\ r.query = 1 /\ r.window = w /\ r.seen = rows
      /\ r.figures = <<>> /\ r.dated = (start # None \/ end # None)
  BY DEF NoReport, Fields
<1>2. EndDate(end) \in Int
  BY ReportsAssumption DEF EndDate, TablesSound
<1> DEFINE times == {e.at : e \in rows}
<1>3. \A e \in rows : e.at \in Nat
  BY ReportsAssumption DEF TablesSound
<1>4. ASSUME rows # {} PROVE Min(times) \in times /\ \A x \in times : Min(times) <= x
  <2>1. times \in SUBSET Nat /\ times # {}
    BY <1>3, <1>4
  <2> HIDE DEF times
  <2> QED
    BY <2>1, LeastExists
<1>5. FirstDate(EndDate(end)) \in Int
  <2>1. CASE rows = {}
    BY <1>2, <2>1, ReportsAssumption DEF FirstDate
  <2>2. CASE rows # {}
    BY <1>3, <1>4, <2>2 DEF FirstDate
  <2> QED
    BY <2>1, <2>2
<1>6. w \in Windows
  BY <1>2, <1>5, ReportsAssumption DEF Window, Windows
<1>7. ASSUME ~r.dated PROVE rows \subseteq Within(rows, w)
  <2>1. start = None /\ end = None
    BY <1>1, <1>7
  <2>2. w.start = FirstDate(clock) /\ w.end = clock
    BY <2>1 DEF Window, EndDate
  <2>3. ASSUME NEW e \in rows PROVE w.start <= e.at /\ e.at <= w.end
    <3>1. FirstDate(clock) = Min(times) /\ e.at \in times
      BY <2>3 DEF FirstDate
    <3>2. e.at <= clock
      BY DEF TablesSound
    <3> QED
      BY <1>4, <2>2, <3>1, <3>2
  <2> QED
    BY <2>3 DEF Within
<1>8. Answers(r, 11)
  BY <1>1, NothingAnswered
<1>9. DashboardSound(r, rows)
  BY <1>1, <1>7, <1>8 DEF DashboardSound
<1> QED
  BY <1>1, <1>6, <1>9, OpsDistinct DEF ReportSound

(* A health report begins soundly. *)
LEMMA HealthAsked ==
  ASSUME NEW r, r = [NoReport EXCEPT !.op = "health", !.seen = rows]
  PROVE  ReportSound(r, rows)
<1>1. /\ Fields(r) /\ r.op = "health" /\ r.query = 1 /\ r.seen = rows /\ r.figures = <<>>
      /\ r.window = [start |-> 0, end |-> 0]
  BY DEF NoReport, Fields
<1>2. HealthSound(r, rows)
  BY <1>1, NothingAnswered
<1> QED
  BY <1>1, <1>2, OpsDistinct DEF ReportSound, Windows

(* A time series is answered by its one query. *)
LEMMA SeriesAsked ==
  ASSUME NEW metric \in TimeSeriesMetric, NEW interval \in DOMAIN BucketSize, NEW w \in Windows, NEW r,
         r = [NoReport EXCEPT !.op = metric, !.window = w, !.seen = rows,
                              !.figures = <<Points(metric, interval, rows, w)>>]
  PROVE  ReportSound(r, rows)
<1>1. /\ Fields(r) /\ r.op = metric /\ r.query = 1 /\ r.window = w /\ r.seen = rows
      /\ r.figures = <<Points(metric, interval, rows, w)>>
  BY DEF NoReport, Fields
<1>2. SeriesSound(r)
  BY <1>1 DEF SeriesSound
<1> QED
  BY <1>1, <1>2, OpsDistinct DEF ReportSound

(* The zones are answered by their one query. *)
LEMMA ZonesAsked ==
  ASSUME NEW w \in Windows, NEW r,
         r = [NoReport EXCEPT !.op = "zones", !.window = w, !.seen = rows,
                              !.figures = <<ZoneAnalytics(Within(rows, w))>>]
  PROVE  ReportSound(r, rows)
<1>1. /\ Fields(r) /\ r.op = "zones" /\ r.query = 1 /\ r.window = w /\ r.seen = rows
      /\ r.figures = <<ZoneAnalytics(Within(rows, w))>>
  BY DEF NoReport, Fields
<1>2. ZonesReportSound(r)
  BY <1>1 DEF ZonesReportSound
<1> QED
  BY <1>1, <1>2, OpsDistinct DEF ReportSound

\* s is r with one more figure.
OneMore(r, s, figure) ==
  /\ s.op = r.op /\ s.window = r.window /\ s.seen = r.seen /\ s.dated = r.dated
  /\ s.query = r.query + 1 /\ s.figures = Append(r.figures, figure)

\* The reports whose fields lie in these sets.
Records(O, Q, W, S, D, F) == [op : O, query : Q, window : W, seen : S, dated : D, figures : F]

(* What a query changes of a report: its position and one figure. *)
LEMMA QueryAmends ==
  ASSUME NEW r, Fields(r), NEW figure
  PROVE  LET s == [r EXCEPT !.query = @ + 1, !.figures = Append(@, figure)] IN
           OneMore(r, s, figure) /\ Fields(s)
<1>1. r \in Records({r.op}, {r.query}, {r.window}, {r.seen}, {r.dated}, {r.figures})
  BY DEF Fields, Records
<1>2. ASSUME NEW O, NEW Q, NEW W, NEW S, NEW D, NEW F, NEW o \in Records(O, Q, W, S, D, F),
             NEW x, NEW g
      PROVE  LET s == [o EXCEPT !.query = x, !.figures = g] IN
               /\ s.op = o.op /\ s.window = o.window /\ s.seen = o.seen /\ s.dated = o.dated
               /\ s.query = x /\ s.figures = g
               /\ s \in Records(O, {x}, W, S, D, {g})
  BY Zenon DEF Records
<1>3. ASSUME NEW O, NEW Q, NEW W, NEW S, NEW D, NEW F, NEW o \in Records(O, Q, W, S, D, F)
      PROVE  Fields(o)
  BY DEF Records, Fields
<1> DEFINE s == [r EXCEPT !.query = r.query + 1, !.figures = Append(r.figures, figure)]
<1>4. /\ s.op = r.op /\ s.window = r.window /\ s.seen = r.seen /\ s.dated = r.dated
      /\ s.query = r.query + 1 /\ s.figures = Append(r.figures, figure)
      /\ s \in Records({r.op}, {r.query + 1}, {r.window}, {r.seen}, {r.dated},
                        {Append(r.figures, figure)})
  BY <1>1, <1>2, Zenon
<1> HIDE DEF s
<1>5. OneMore(r, s, figure) /\ Fields(s)
  BY <1>3, <1>4, Zenon DEF OneMore
<1> QED
  BY <1>5, Zenon DEF s

(* One more figure is the answer to the current query, and the others stay. *)
LEMMA OneMoreAnswers ==
  ASSUME NEW m \in Nat, NEW r, Answers(r, m), r.query <= m, NEW s, NEW figure, OneMore(r, s, figure)
  PROVE  /\ Answers(s, m)
         /\ r.query \in 1..m /\ s.query = r.query + 1
         /\ s.figures[r.query] = figure
         /\ \A i \in 1..(r.query - 1) : s.figures[i] = r.figures[i]
<1> DEFINE old == r.figures
           n == r.query
<1>1. IsSequence(old) /\ n \in 1..m /\ Len(old) = n - 1
  BY DEF Answers
<1>2. s.query = n + 1 /\ s.figures = Append(old, figure)
  BY DEF OneMore
<1> HIDE DEF old, n
<1>3. /\ IsSequence(Append(old, figure)) /\ Len(Append(old, figure)) = Len(old) + 1
      /\ Append(old, figure)[Len(old) + 1] = figure
      /\ \A i \in 1..Len(old) : Append(old, figure)[i] = old[i]
  BY <1>1, AppendFacts
<1> DEFINE new == Append(old, figure)
<1> HIDE DEF new
<1>4. /\ IsSequence(new) /\ Len(new) = n /\ new[n] = figure
      /\ \A i \in 1..(n - 1) : new[i] = old[i]
  <2>1. Len(old) + 1 = n
    BY <1>1
  <2> QED
    BY <1>1, <1>3, <2>1 DEF new
<1>5. s.query \in 1..(m + 1) /\ Len(new) = s.query - 1
  BY <1>1, <1>2, <1>4
<1>6. Answers(s, m)
  BY <1>2, <1>4, <1>5 DEF Answers, new
<1> QED
  BY <1>1, <1>2, <1>4, <1>6 DEF old, n, new

(* One more figure of a dashboard: it is what the rows are now, and the volume covers *)
(* the five counts that were taken before it.                                         *)
LEMMA DashboardAnswered ==
  ASSUME NEW R \in SUBSET Produced, IsFiniteSet(R), NEW r, ReportSound(r, R), NEW now,
         r.op = "dashboard", r.query <= 11, NEW s, NEW figure, OneMore(r, s, figure),
         figure = Figure(DashboardQueries[r.query], R, r.window, now)
  PROVE  DashboardSound(s, R)
<1> DEFINE n == r.query
           q == DashboardQueries[n]
           w == r.window
<1>1. /\ Answers(r, 11) /\ n \in 1..11
      /\ \A i \in 1..(n - 1) : Timely(r, R, i)
      /\ n > 6 => Total(r.figures, 1..5) <= r.figures[6]
      /\ ~r.dated => r.seen \subseteq Within(r.seen, w)
      /\ r.seen \in SUBSET R
  BY DEF ReportSound, DashboardSound, Answers
<1>2. s.window = w /\ s.seen = r.seen /\ s.dated = r.dated /\ s.query = n + 1
  BY DEF OneMore
<1> HIDE DEF n, q, w
<1>3. /\ Answers(s, 11) /\ s.figures[n] = figure
      /\ \A i \in 1..(n - 1) : s.figures[i] = r.figures[i]
  <2>1. PICK m \in Nat : m = 11
    OBVIOUS
  <2>2. Answers(r, m) /\ r.query <= m
    BY <1>1, <2>1
  <2> QED
    BY <2>1, <2>2, OneMoreAnswers DEF n
<1>4. Timely(s, R, n)
  <2> SUFFICES ASSUME q \in Growing
               PROVE  /\ figure \in Nat /\ Figure(q, r.seen, w, 0) <= figure
                      /\ figure <= Figure(q, R, w, 0)
    BY <1>2, <1>3 DEF Timely, q
  <2>1. /\ Figure(q, r.seen, w, 0) <= Figure(q, R, w, now)
        /\ Figure(q, R, w, now) \in Nat
    BY <1>1, FigureGrows
  <2>2. Figure(q, R, w, now) <= Figure(q, R, w, 0)
    BY FigureGrows
  <2>3. figure = Figure(q, R, w, now)
    BY DEF q, n, w
  <2> QED
    BY <2>1, <2>2, <2>3
<1>5. ASSUME NEW i \in 1..(n - 1) PROVE Timely(s, R, i)
  <2>1. Timely(r, R, i) /\ s.figures[i] = r.figures[i]
    BY <1>1, <1>3
  <2> QED
    BY <1>2, <2>1 DEF Timely, w
<1>6. \A i \in 1..n : Timely(s, R, i)
  <2>1. \A i \in 1..n : i = n \/ i \in 1..(n - 1)
    BY <1>1
  <2> QED
    BY <1>4, <1>5, <2>1
<1>7. s.query - 1 = n /\ s.query = n + 1
  BY <1>1, <1>2
<1>8. ASSUME n >= 6 PROVE Total(s.figures, 1..5) <= s.figures[6]
  <2>1. IsFiniteSet(1..5)
    <3>1. PICK m \in Int : m = 5
      OBVIOUS
    <3>2. IsFiniteSet(1..m)
      BY FS_Interval
    <3> QED
      BY <3>1, <3>2
  <2> DEFINE figures == CountFigures(R, w, 0)
  <2>2. \A i \in 1..5 : s.figures[i] \in Int /\ figures[i] \in Int /\ s.figures[i] <= figures[i]
    <3> SUFFICES ASSUME NEW i \in 1..5
                 PROVE  s.figures[i] \in Int /\ figures[i] \in Int /\ s.figures[i] <= figures[i]
      OBVIOUS
    <3>1. Timely(s, R, i)
      BY <1>1, <1>6, <1>8
    <3>2. DashboardQueries[i] = Counted[i] /\ Counted[i] \in Growing
      BY DashboardIndex
    <3>3. s.figures[i] \in Nat /\ s.figures[i] <= Figure(Counted[i], R, w, 0)
      BY <1>2, <3>1, <3>2 DEF Timely
    <3>4. figures[i] = Figure(Counted[i], R, w, 0)
      BY DEF CountFigures
    <3>5. figures[i] \in Nat
      BY VolumeCoversCounts
    <3> HIDE DEF figures
    <3> QED
      BY <3>3, <3>4, <3>5
  <2>3. CASE n = 6
    <3>1. Total(figures, 1..5) <= Figure("volume", R, w, 0)
      BY VolumeCoversCounts
    <3>2. /\ Total(s.figures, 1..5) \in Int /\ Total(figures, 1..5) \in Int
          /\ Total(s.figures, 1..5) <= Total(figures, 1..5)
      <4> HIDE DEF figures
      <4> QED
        BY <2>1, <2>2, TotalMonotone
    <3>3. q = "volume"
      BY <2>3, DashboardIndex DEF q
    <3>4. "volume" \in Growing
      BY DEF Growing
    <3>5. Figure("volume", R, w, 0) <= Figure("volume", R, w, now)
      BY <3>4, FigureGrows
    <3>6. /\ Figure("volume", R, w, 0) \in Nat
          /\ Figure("volume", R, w, now) \in Nat
      BY <3>4, FigureGrows
    <3>7. s.figures[6] = Figure("volume", R, w, now)
      <4>1. figure = Figure(q, R, w, now)
        BY DEF q, n, w
      <4> QED
        BY <1>3, <2>3, <3>3, <4>1
    <3> HIDE DEF figures
    <3> QED
      BY <3>1, <3>2, <3>5, <3>6, <3>7
  <2>4. CASE n > 6
    <3>1. \A i \in 1..5 : r.figures[i] \in Int /\ s.figures[i] = r.figures[i]
      <4>1. \A i \in 1..5 : s.figures[i] = r.figures[i]
        BY <1>1, <1>3, <2>4
      <4> QED
        BY <2>2, <4>1
    <3>2. Total(s.figures, 1..5) = Total(r.figures, 1..5)
      BY <2>1, <3>1, TotalSame
    <3>3. s.figures[6] = r.figures[6]
      BY <1>1, <1>3, <2>4
    <3> QED
      BY <1>1, <2>4, <3>2, <3>3
  <2> QED
    BY <1>1, <1>8, <2>3, <2>4
<1>9. ~s.dated => s.seen \subseteq Within(s.seen, s.window)
  BY <1>1, <1>2
<1>10. s.query > 6 => n >= 6
  BY <1>1, <1>7
<1> QED
  BY <1>3, <1>6, <1>7, <1>8, <1>9, <1>10 DEF DashboardSound

(* One more figure of a health report. *)
LEMMA HealthAnswered ==
  ASSUME NEW R \in SUBSET Produced, IsFiniteSet(R), NEW r, ReportSound(r, R), NEW now,
         r.op = "health", r.query <= 2, NEW s, NEW figure, OneMore(r, s, figure),
         figure = Figure(HealthQueries[r.query], R, r.window, now)
  PROVE  HealthSound(s, R)
<1> DEFINE n == r.query
<1>1. /\ Answers(r, 2) /\ n \in 1..2
      /\ n > 1 => r.figures[1] \in Nat /\ (r.figures[1] > 0 => R # {})
  BY DEF ReportSound, HealthSound, Answers
<1>2. s.query = n + 1
  BY DEF OneMore
<1>3. /\ Answers(s, 2) /\ s.figures[n] = figure
      /\ \A i \in 1..(n - 1) : s.figures[i] = r.figures[i]
  <2>1. PICK m \in Nat : m = 2
    OBVIOUS
  <2>2. Answers(r, m) /\ r.query <= m
    BY <1>1, <2>1
  <2> QED
    BY <2>1, <2>2, OneMoreAnswers
<1>4. CASE n = 1
  <2>1. figure = Cardinality(R)
    BY <1>4, HealthIndex DEF Figure
  <2>2. Cardinality(R) \in Nat /\ (Cardinality(R) = 0 <=> R = {})
    BY FS_CardinalityType, FS_EmptySet
  <2>3. s.query = 2 /\ s.figures[1] = figure
    BY <1>2, <1>3, <1>4
  <2> HIDE DEF n
  <2> QED
    BY <1>3, <2>1, <2>2, <2>3 DEF HealthSound
<1>5. CASE n = 2
  <2>1. figure = IF R = {} THEN None ELSE Max({e.at : e \in R})
    BY <1>5, HealthIndex DEF Figure
  <2>2. ASSUME R # {} PROVE figure # None
    <3> DEFINE times == {e.at : e \in R}
    <3>1. \A e \in R : e.at \in Nat /\ e.at <= MaxTime
      BY ReportsAssumption
    <3>2. times \in SUBSET Nat /\ times # {} /\ (\A x \in times : x <= MaxTime) /\ MaxTime \in Nat
      BY <2>2, <3>1, ReportsAssumption
    <3> HIDE DEF times
    <3>3. Max(times) \in Nat
      BY <3>2, GreatestExists
    <3> QED
      BY <2>1, <2>2, <3>3, ReportsAssumption DEF times
  <2>3. s.query = 3 /\ s.figures[2] = figure /\ s.figures[1] = r.figures[1]
    BY <1>2, <1>3, <1>5
  <2>4. r.figures[1] \in Nat /\ (r.figures[1] > 0 => R # {})
    BY <1>1, <1>5
  <2> HIDE DEF n
  <2> QED
    BY <1>3, <2>2, <2>3, <2>4 DEF HealthSound
<1> QED
  BY <1>1, <1>4, <1>5

-----------------------------------------------------------------------------
(* The invariant of all reports.                                           *)

(* In the beginning nothing is asked for. *)
LEMMA ReportsInit0 == ReportsInit => ReportsInv
<1> SUFFICES ASSUME ReportsInit PROVE ReportsInv
  OBVIOUS
<1>1. report = [a \in Admins |-> NoReport]
  BY DEF ReportsInit
<1>2. \A a \in Admins : ReportSound(report[a], rows)
  BY <1>1, NoReportSound
<1> QED
  BY <1>1, <1>2 DEF ReportsInv

(* The rows grow and nothing is reported. *)
LEMMA OthersKeepReports ==
  ASSUME ReportsInv, rows \subseteq rows', rows' \subseteq Produced, IsFiniteSet(rows'),
         report' = report
  PROVE  ReportsInv'
<1>1. ASSUME NEW a \in Admins PROVE ReportSound(report[a], rows')
  <2>1. ReportSound(report[a], rows)
    BY DEF ReportsInv
  <2> QED
    BY <2>1, SoundGrows
<1> QED
  BY <1>1 DEF ReportsInv

(* One administrator's report is replaced by a sound one. *)
LEMMA ReportedKeeps ==
  ASSUME ReportsInv, NEW a \in Admins, NEW r, Reported(a, r), ReportSound(r, rows)
  PROVE  ReportsInv'
<1>1. report' = [report EXCEPT ![a] = r] /\ rows' = rows
  BY DEF Reported
<1>2. report = [b \in Admins |-> report[b]] /\ \A b \in Admins : ReportSound(report[b], rows)
  BY DEF ReportsInv
<1>3. report' = [b \in Admins |-> report'[b]] /\ report'[a] = r
      /\ \A b \in Admins : b # a => report'[b] = report[b]
  BY <1>1, <1>2
<1>4. \A b \in Admins : ReportSound(report'[b], rows')
  BY <1>1, <1>2, <1>3
<1> QED
  BY <1>3, <1>4 DEF ReportsInv

(* A query is only made for a report that has one left. *)
LEMMA QueryKeeps ==
  ASSUME TablesSound, ReportsInv, NEW a \in Admins, Query(a)
  PROVE  ReportsInv'
<1> DEFINE r == report[a]
           queries == IF r.op = "dashboard" THEN DashboardQueries ELSE HealthQueries
           figure == Figure(queries[r.query], rows, r.window, clock)
           s == [r EXCEPT !.query = @ + 1, !.figures = Append(@, figure)]
<1>1. ReportSound(r, rows) /\ Fields(r)
  BY DEF ReportsInv, ReportSound
<1>2. Reported(a, s) /\ ~Complete(a)
  BY DEF Query
<1>3. rows \in SUBSET Produced /\ IsFiniteSet(rows)
  BY DEF TablesSound
<1>4. OneMore(r, s, figure) /\ Fields(s)
  <2> HIDE DEF r, figure
  <2> QED
    BY <1>1, QueryAmends, Zenon
<1>5. CASE r.op = "dashboard"
  <2>1. r.query <= 11
    <3>1. ~(r.query > 11)
      BY <1>2, <1>5, DashboardIndex DEF Complete
    <3>2. r.query \in 1..12
      BY <1>1, <1>5 DEF ReportSound, DashboardSound, Answers
    <3> HIDE DEF r
    <3> QED
      BY <3>1, <3>2
  <2>2. figure = Figure(DashboardQueries[r.query], rows, r.window, clock)
    BY <1>5
  <2> HIDE DEF r, s, figure
  <2>3. DashboardSound(s, rows)
    BY <1>1, <1>3, <1>4, <1>5, <2>1, <2>2, DashboardAnswered
  <2>4. ReportSound(s, rows)
    BY <1>1, <1>4, <1>5, <2>3, OpsDistinct DEF ReportSound, OneMore
  <2> QED
    BY <1>2, <2>4, ReportedKeeps
<1>6. CASE r.op = "health"
  <2>1. r.query <= 2
    <3>1. ~(r.query > 2)
      BY <1>2, <1>6, HealthIndex DEF Complete
    <3>2. r.query \in 1..3
      BY <1>1, <1>6 DEF ReportSound, HealthSound, Answers
    <3> HIDE DEF r
    <3> QED
      BY <3>1, <3>2
  <2>2. figure = Figure(HealthQueries[r.query], rows, r.window, clock)
    BY <1>6
  <2> HIDE DEF r, s, figure
  <2>3. HealthSound(s, rows)
    BY <1>1, <1>3, <1>4, <1>6, <2>1, <2>2, HealthAnswered
  <2>4. ReportSound(s, rows)
    BY <1>1, <1>4, <1>6, <2>3, OpsDistinct DEF ReportSound, OneMore
  <2> QED
    BY <1>2, <2>4, ReportedKeeps
<1>7. CASE r.op \notin {"dashboard", "health"}
  <2>1. r.query = 1
    BY <1>1, <1>7 DEF ReportSound, SeriesSound, ZonesReportSound
  <2>2. ~(r.query > Len(<<>>))
    BY <1>2, <1>7 DEF Complete
  <2> HIDE DEF r, s, figure
  <2> QED
    BY <2>1, <2>2
<1> QED
  BY <1>5, <1>6, <1>7

(* Whatever is asked for begins soundly. *)
LEMMA AskKeeps ==
  ASSUME TablesSound, ReportsInv, NEW a \in Admins, Ask(a)
  PROVE  ReportsInv'
<1>1. ASSUME NEW start \in Dates \cup {None}, NEW end \in Dates \cup {None}, GetDashboard(a, start, end)
      PROVE  ReportsInv'
  <2> DEFINE w == Window(IF start = None THEN FirstDate(EndDate(end)) ELSE start, EndDate(end))
             r == [NoReport EXCEPT !.op = "dashboard", !.window = w, !.seen = rows,
                                   !.dated = start # None \/ end # None]
  <2>1. Reported(a, r)
    BY <1>1 DEF GetDashboard
  <2>2. ReportSound(r, rows)
    BY DashboardAsked
  <2> HIDE DEF r
  <2> QED
    BY <2>1, <2>2, ReportedKeeps
<1>2. ASSUME NEW start \in Dates \cup {None}, NEW end \in Dates \cup {None},
             NEW metric \in TimeSeriesMetric, NEW interval \in DOMAIN BucketSize,
             GetTimeseries(a, metric, interval, start, end)
      PROVE  ReportsInv'
  <2> DEFINE w == Window(IF start = None THEN EndDate(end) - Lookback ELSE start, EndDate(end))
             r == [NoReport EXCEPT !.op = metric, !.window = w, !.seen = rows,
                     !.figures = <<Points(metric, interval, rows, w)>>]
  <2>1. Reported(a, r)
    BY <1>2 DEF GetTimeseries
  <2>2. w \in Windows
    <3>1. EndDate(end) \in Int
      BY ReportsAssumption DEF EndDate, TablesSound
    <3> QED
      BY <3>1, ReportsAssumption DEF Window, Windows
  <2> HIDE DEF w
  <2>3. ReportSound(r, rows)
    BY <2>2, SeriesAsked
  <2> HIDE DEF r
  <2> QED
    BY <2>1, <2>3, ReportedKeeps
<1>3. CASE GetHealth(a)
  <2> DEFINE r == [NoReport EXCEPT !.op = "health", !.seen = rows]
  <2>1. Reported(a, r)
    BY <1>3 DEF GetHealth
  <2>2. ReportSound(r, rows)
    BY HealthAsked
  <2> HIDE DEF r
  <2> QED
    BY <2>1, <2>2, ReportedKeeps
<1>4. CASE GetZones(a, 1)
  <2> DEFINE w == Window(clock - 1 * BucketSize.day, clock)
             r == [NoReport EXCEPT !.op = "zones", !.window = w, !.seen = rows,
                                   !.figures = <<ZoneAnalytics(Within(rows, w))>>]
  <2>1. Reported(a, r)
    BY <1>4 DEF GetZones
  <2>2. w \in Windows
    <3>1. BucketSize.day \in Nat /\ clock \in Nat
      BY ReportsAssumption DEF TablesSound
    <3> QED
      BY <3>1 DEF Window, Windows
  <2> HIDE DEF w
  <2>3. ReportSound(r, rows)
    BY <2>2, ZonesAsked
  <2> HIDE DEF r
  <2> QED
    BY <2>1, <2>3, ReportedKeeps
<1> QED
  BY <1>1, <1>2, <1>3, <1>4 DEF Ask

(* What the invariant says of every report under way is kept by every step, however the *)
(* queries of one report and the commits of the ingestion interleave.                   *)
THEOREM ReportsInductive ==
  TotalsInv /\ ReportsInv /\ [ReportsNext]_reportVars => TotalsInv' /\ ReportsInv'
<1> SUFFICES ASSUME TotalsInv, ReportsInv, [ReportsNext]_reportVars PROVE TotalsInv' /\ ReportsInv'
  OBVIOUS
<1>1. TotalsInv'
  BY TotalsInductive
<1>2. TablesSound /\ IsFiniteSet(rows') /\ rows' \subseteq Produced
  BY <1>1 DEF TotalsInv, TablesSound
<1>3. ASSUME NEW e \in Produced, CreateEvent(e) PROVE ReportsInv'
  <2>1. rows' = rows \cup {e} /\ report' = report
    BY <1>3 DEF CreateEvent
  <2> QED
    BY <1>2, <2>1, OthersKeepReports
<1>4. ASSUME Clock \/ CreateMetrics \/ IncrementStats \/ IngestCut \/ UNCHANGED reportVars
      PROVE  ReportsInv'
  <2>1. rows' = rows /\ report' = report
    BY <1>4 DEF Clock, CreateMetrics, IncrementStats, IngestCut, reportVars
  <2> QED
    BY <1>2, <2>1, OthersKeepReports
<1>5. ASSUME NEW a \in Admins, Respond(a) PROVE ReportsInv'
  <2>1. Reported(a, NoReport)
    BY <1>5 DEF Respond
  <2> QED
    BY <2>1, NoReportSound, ReportedKeeps
<1>6. ASSUME NEW a \in Admins, Ask(a) \/ Query(a) \/ Respond(a) PROVE ReportsInv'
  BY <1>2, <1>5, <1>6, AskKeeps, QueryKeeps
<1>7. ReportsInv'
  BY <1>3, <1>4, <1>6 DEF ReportsNext
<1> QED
  BY <1>1, <1>7

-----------------------------------------------------------------------------
(* What the reports answer.                                                *)

(* What the answer to a query of a dashboard is. *)
LEMMA AnsweredIndex ==
  ASSUME NEW a \in Admins, NEW i \in 1..11
  PROVE  Answered(a, DashboardQueries[i]) = report[a].figures[i]
<1>1. \A j \in DOMAIN DashboardQueries : DashboardQueries[j] = DashboardQueries[i] => j = i
  BY DashboardIndex
<1>2. i \in DOMAIN DashboardQueries
  BY DashboardIndex
<1>3. (CHOOSE j \in DOMAIN DashboardQueries : DashboardQueries[j] = DashboardQueries[i]) = i
  BY <1>1, <1>2
<1> QED
  BY <1>3 DEF Answered

(* A dashboard that is complete has all its figures. *)
LEMMA DashboardReady ==
  ASSUME ReportsInv, NEW a \in Admins, Ready(a, "dashboard")
  PROVE  /\ DashboardSound(report[a], rows)
         /\ \A i \in 1..11 : Timely(report[a], rows, i)
         /\ Total(report[a].figures, 1..5) <= report[a].figures[6]
         /\ report[a].seen \subseteq rows
<1> DEFINE r == report[a]
<1>1. DashboardSound(r, rows) /\ r.seen \subseteq rows
  BY DEF ReportsInv, ReportSound, Ready
<1>2. r.query \in 1..12 /\ (\A i \in 1..(r.query - 1) : Timely(r, rows, i))
      /\ (r.query > 6 => Total(r.figures, 1..5) <= r.figures[6])
  BY <1>1 DEF DashboardSound, Answers
<1>3. r.query > 11
  BY DashboardIndex DEF Ready, Complete
<1> HIDE DEF r
<1>4. r.query = 12
  BY <1>2, <1>3
<1>5. r.query - 1 = 11
  BY <1>4
<1>6. \A i \in 1..11 : Timely(r, rows, i)
  BY <1>2, <1>5
<1>7. r.query > 6
  BY <1>4
<1> QED
  BY <1>1, <1>2, <1>6, <1>7 DEF r

(* The volume is read after the five counts, and rows are never deleted. *)
LEMMA DashboardsOrdered ==
  ASSUME TablesSound, ReportsInv
  PROVE  DashboardOrdered
<1> SUFFICES ASSUME NEW a \in Admins, Ready(a, "dashboard")
             PROVE  Answered(a, "volume") >=
                      SumFunction([i \in DOMAIN Counted |-> Answered(a, Counted[i])])
  BY DEF DashboardOrdered
<1> DEFINE figures == report[a].figures
           counts == [i \in DOMAIN Counted |-> Answered(a, Counted[i])]
<1>1. /\ \A i \in 1..11 : Timely(report[a], rows, i)
      /\ Total(figures, 1..5) <= figures[6]
  BY DashboardReady
<1>2. Answered(a, "volume") = figures[6]
  BY AnsweredIndex, DashboardIndex
<1>3. ASSUME NEW i \in 1..5 PROVE figures[i] \in Int /\ counts[i] = figures[i]
  <2>1. DashboardQueries[i] = Counted[i] /\ Counted[i] \in Growing /\ i \in 1..11
    BY DashboardIndex
  <2>2. figures[i] \in Nat
    BY <1>1, <2>1 DEF Timely
  <2>3. counts[i] = Answered(a, Counted[i])
    BY CountedTypes
  <2>4. Answered(a, DashboardQueries[i]) = figures[i]
    BY <2>1, AnsweredIndex
  <2> QED
    BY <2>1, <2>2, <2>3, <2>4
<1>4. DOMAIN counts = 1..5
  BY CountedTypes
<1> HIDE DEF figures, counts
<1>5. IsFiniteSet(1..5)
  <2>1. PICK m \in Int : m = 5
    OBVIOUS
  <2>2. IsFiniteSet(1..m)
    BY FS_Interval
  <2> QED
    BY <2>1, <2>2
<1>6. Total(counts, 1..5) = Total(figures, 1..5) /\ Total(figures, 1..5) \in Int
  BY <1>3, <1>5, TotalSame
<1>7. SumFunction(counts) = Total(counts, 1..5)
  BY <1>4, SumIsTotal
<1>8. Timely(report[a], rows, 6) /\ "volume" \in Growing
  BY <1>1 DEF Growing
<1>9. figures[6] \in Nat
  BY <1>8, DashboardIndex DEF Timely, figures
<1>10. figures[6] >= SumFunction(counts)
  BY <1>1, <1>6, <1>7, <1>9
<1> QED
  BY <1>2, <1>10 DEF counts

(* Every figure that grows with the rows is one of a dashboard. *)
LEMMA GrowingIndex ==
  ASSUME NEW query \in Growing
  PROVE  \E i \in 1..11 : DashboardQueries[i] = query
<1>1. CASE query \in {"volume", "payout", "users"}
  BY <1>1, DashboardIndex
<1>2. CASE query \in {Counted[i] : i \in DOMAIN Counted}
  <2>1. PICK i \in 1..5 : query = Counted[i]
    BY <1>2, CountedTypes
  <2>2. i \in 1..11 /\ DashboardQueries[i] = query
    BY <2>1, DashboardIndex
  <2> QED
    BY <2>2
<1> QED
  BY <1>1, <1>2 DEF Growing

(* A figure that grows lies between its values at the request and at the answer. *)
LEMMA FiguresAreTimely ==
  ASSUME TablesSound, ReportsInv
  PROVE  FiguresTimely
<1> SUFFICES ASSUME NEW a \in Admins, Ready(a, "dashboard"), NEW query \in Growing
             PROVE  /\ Answered(a, query) >= Figure(query, report[a].seen, report[a].window, clock)
                    /\ Answered(a, query) <= Figure(query, rows, report[a].window, clock)
  BY DEF FiguresTimely, Growing
<1> DEFINE S == report[a].seen
           w == report[a].window
<1>1. PICK i \in 1..11 : DashboardQueries[i] = query
  BY GrowingIndex
<1>2. Timely(report[a], rows, i) /\ S \subseteq rows
  BY DashboardReady
<1>3. Answered(a, query) = report[a].figures[i]
  BY <1>1, AnsweredIndex
<1>4. /\ report[a].figures[i] \in Nat
      /\ Figure(query, S, w, 0) <= report[a].figures[i]
      /\ report[a].figures[i] <= Figure(query, rows, w, 0)
  BY <1>1, <1>2 DEF Timely
<1> HIDE DEF S, w
<1>5. rows \in SUBSET Produced /\ IsFiniteSet(rows) /\ S \in SUBSET rows
  BY <1>2 DEF TablesSound
<1>6. S \in SUBSET Produced /\ IsFiniteSet(S) /\ S \in SUBSET S
  BY <1>5, FS_Subset
<1>7. /\ Figure(query, S, w, clock) \in Nat /\ Figure(query, S, w, 0) \in Nat
      /\ Figure(query, S, w, clock) <= Figure(query, S, w, 0)
  BY <1>6, FigureGrows
<1>8. /\ Figure(query, rows, w, 0) \in Nat /\ Figure(query, rows, w, clock) \in Nat
      /\ Figure(query, rows, w, 0) <= Figure(query, rows, w, clock)
  BY <1>5, FigureGrows
<1>9. /\ Answered(a, query) >= Figure(query, S, w, clock)
      /\ Answered(a, query) <= Figure(query, rows, w, clock)
  BY <1>3, <1>4, <1>7, <1>8
<1> QED
  BY <1>9 DEF S, w

(* What was there when a dashboard without dates was asked for is in its window. *)
LEMMA DefaultsShowAll ==
  ASSUME ReportsInv
  PROVE  DefaultShowsAll
<1> SUFFICES ASSUME NEW a \in Admins, report[a].op = "dashboard", ~report[a].dated
             PROVE  report[a].seen \subseteq Within(rows, report[a].window)
  BY DEF DefaultShowsAll
<1>1. report[a].seen \subseteq rows /\ DashboardSound(report[a], rows)
  BY DEF ReportsInv, ReportSound
<1>2. report[a].seen \subseteq Within(report[a].seen, report[a].window)
  BY <1>1 DEF DashboardSound
<1> QED
  BY <1>1, <1>2 DEF Within

(* Rows counted by the first query are still there for the second. *)
LEMMA HealthIsConsistent ==
  ASSUME ReportsInv
  PROVE  HealthConsistent
<1> SUFFICES ASSUME NEW a \in Admins, Ready(a, "health"), report[a].figures[1] > 0
             PROVE  report[a].figures[2] # None
  BY DEF HealthConsistent
<1> DEFINE r == report[a]
<1>1. HealthSound(r, rows)
  BY DEF ReportsInv, ReportSound, Ready
<1>2. r.query > 2
  BY HealthIndex DEF Ready, Complete
<1> QED
  BY <1>1, <1>2 DEF HealthSound

(* A series was taken from the rows that were there, over buckets that share out its window. *)
LEMMA SeriesAreComplete ==
  ASSUME TablesSound, ReportsInv
  PROVE  SeriesComplete
<1> SUFFICES ASSUME NEW a \in Admins, NEW metric \in TimeSeriesMetric, Ready(a, metric)
             PROVE  SeriesSum(metric, Within(report[a].seen, report[a].window),
                              SumFunction(report[a].figures[1]))
  BY DEF SeriesComplete, SeriesSum, OfUsers
<1> DEFINE S == report[a].seen
           w == report[a].window
<1>1. SeriesSound(report[a]) /\ report[a].op = metric /\ w \in Windows /\ S \subseteq rows
  BY DEF ReportsInv, ReportSound, Ready
<1>2. PICK interval \in DOMAIN BucketSize : report[a].figures = <<Points(metric, interval, S, w)>>
  BY <1>1 DEF SeriesSound
<1>3. report[a].figures[1] = Points(metric, interval, S, w)
  BY <1>2
<1>4. S \in SUBSET Produced /\ IsFiniteSet(S)
  BY <1>1, FS_Subset DEF TablesSound
<1> HIDE DEF S, w
<1>5. SeriesSum(metric, Within(S, w), SumFunction(Points(metric, interval, S, w)))
  BY <1>1, <1>4, SeriesAddsUp
<1> QED
  BY <1>3, <1>5 DEF S, w

(* The zones share out the disruptions, and the level of each lies between two of them. *)
LEMMA ZonesAreSound ==
  ASSUME TablesSound, ReportsInv
  PROVE  ZonesSound
<1> SUFFICES ASSUME NEW a \in Admins, Ready(a, "zones")
             PROVE  LET zones == report[a].figures[1]
                        D == Typed(Within(report[a].seen, report[a].window), "DISRUPTION_DETECTED")
                    IN  /\ SumFunction([z \in DOMAIN zones |-> zones[z].disruptions]) = Cardinality(D)
                        /\ \A z \in {e.zone : e \in D} :
                             LET ranks == {SeverityRank[e.severity] : e \in {d \in D : d.zone = z}} IN
                               SeverityRank[zones[z].level] \in Min(ranks)..Max(ranks)
  BY DEF ZonesSound
<1> DEFINE V == Within(report[a].seen, report[a].window)
           D == Typed(V, "DISRUPTION_DETECTED")
           zones == ZoneAnalytics(V)
<1>1. /\ ZonesReportSound(report[a]) /\ report[a].seen \subseteq rows
  BY DEF ReportsInv, ReportSound, Ready
<1>2. report[a].figures[1] = zones
  BY <1>1 DEF ZonesReportSound
<1>3. V \in SUBSET Produced /\ IsFiniteSet(V)
  <2>1. V \in SUBSET rows
    BY <1>1 DEF Within
  <2> QED
    BY <2>1, FS_Subset DEF TablesSound
<1> HIDE DEF V
<1>4. SumFunction([z \in DOMAIN zones |-> zones[z].disruptions]) = Cardinality(D)
  BY <1>3, ZonesAddUp
<1>5. ASSUME NEW d \in D
      PROVE  SeverityRank[zones[d.zone].level] \in
               Min(Ranks({e \in D : e.zone = d.zone}))..Max(Ranks({e \in D : e.zone = d.zone}))
  <2> DEFINE z == d.zone
             Z == {e \in V : e.zone = z}
  <2>1. d \in V /\ d \in Produced /\ d.type = "DISRUPTION_DETECTED" /\ z # None
    BY <1>3, ReportsAssumption DEF Typed
  <2>2. zones[z].level = ZoneRiskLevel(Z)
    BY <2>1 DEF ZoneAnalytics
  <2>3. Typed(Z, "DISRUPTION_DETECTED") = {e \in D : e.zone = z} /\ d \in {e \in D : e.zone = z}
    BY <2>1 DEF Typed
  <2>4. Z \in SUBSET Produced /\ IsFiniteSet(Z)
    BY <1>3, FS_Subset
  <2> HIDE DEF Z, zones, D
  <2>5. SeverityRank[ZoneRiskLevel(Z)] \in
          Min(Ranks(Typed(Z, "DISRUPTION_DETECTED")))..Max(Ranks(Typed(Z, "DISRUPTION_DETECTED")))
    BY <2>3, <2>4, LevelBetween
  <2> QED
    BY <2>2, <2>3, <2>5
<1> HIDE DEF D, zones
<1>6. \A z \in {e.zone : e \in D} :
        SeverityRank[zones[z].level] \in Min(Ranks({e \in D : e.zone = z}))..Max(Ranks({e \in D : e.zone = z}))
  BY <1>5
<1>7. \A z \in {e.zone : e \in D} :
        LET ranks == {SeverityRank[e.severity] : e \in {d \in D : d.zone = z}} IN
          SeverityRank[zones[z].level] \in Min(ranks)..Max(ranks)
  BY <1>6 DEF Ranks
<1> QED
  BY <1>2, <1>4, <1>7 DEF D, V

(* Reports are right while events are ingested: the figures of a dashboard were true   *)
(* between the request and the answer and its volume covers its counts, the health     *)
(* report is consistent, a series leaves out no event of its window and counts none    *)
(* twice, and the zones share out the disruptions of the window.                       *)
THEOREM ReportsCorrect == ReportsSpec => []ReportsSound
<1>1. ReportsInit => TotalsInv /\ ReportsInv
  BY TotalsInit, ReportsInit0
<1>2. TotalsInv /\ ReportsInv /\ [ReportsNext]_reportVars => TotalsInv' /\ ReportsInv'
  BY ReportsInductive
<1>3. TotalsInv /\ ReportsInv => ReportsSound
  BY DashboardsOrdered, FiguresAreTimely, DefaultsShowAll, HealthIsConsistent,
     SeriesAreComplete, ZonesAreSound DEF TotalsInv, ReportsSound
<1> QED
  BY <1>1, <1>2, <1>3, PTL DEF ReportsSpec
=============================================================================
