-------------------------------- MODULE Risk --------------------------------
(***************************************************************************)
(* The ai-risk service (src/backend/services/ai-risk-service): the model   *)
(* loaded at the first request, the hybrid of its prediction and a rule,   *)
(* the premium multiplier and the log of predictions.                      *)
(*                                                                         *)
(* Metrics and scores are integers in units of 1/10000; weights are in     *)
(* hundredths, so weighted sums come in millionths.  The trained forest is *)
(* an artifact of no known shape: a table.                                 *)
(***************************************************************************)
EXTENDS Integers, Sequences, FiniteSets

CONSTANTS
  TrainedScore,  \* what the artifact's model predicts, per zone
  Consultations, \* other requests to evaluate: the zone and the metrics
  MaxEvals,      \* bound: requests to evaluate
  MaxFaults      \* bound: failures of any kind

VARIABLES
  bundle,       \* the model in memory: "none", "trained" or "fallback"
  evals,        \* requests to evaluate, each with its thread and its result
  predictions,  \* prediction_logs: the evaluations logged
  faults

riskVars == <<bundle, evals, predictions>>

Fault == faults < MaxFaults /\ faults' = faults + 1

-----------------------------------------------------------------------------
(* Scores.                                                                 *)

Unit == 10000
Features == {"disruption_freq", "duration", "traffic", "order_drop", "activity", "claims"}

\* RiskEvaluateRequest admits no negative metric.
ASSUME RiskAssumption ==
  /\ MaxEvals \in Nat /\ MaxFaults \in Nat
  /\ \A z \in DOMAIN TrainedScore : TrainedScore[z] \in 0..Unit
  /\ \A c \in Consultations : c.zone \in DOMAIN TrainedScore /\ c.metrics \in [Features -> Nat]

Between(low, high, n) == IF n < low THEN low ELSE IF n > high THEN high ELSE n

\* Above 1 a metric is taken for a percentage, above 100 for 1.
Normalized(raw) == IF raw <= Unit THEN raw ELSE IF raw <= 100 * Unit THEN raw \div 100 ELSE Unit

Bias(zone) == CASE zone = "HR-3" -> 600 [] zone = "LR-1" -> -400 [] OTHER -> 0

\* The model used when no artifact can be read.
Heuristic(m) ==
  Between(0, Unit, (24 * m["disruption_freq"] + 16 * m["duration"] + 18 * m["traffic"]
                    + 20 * m["order_drop"] + 14 * m["claims"] + 8 * (Unit - m["activity"])) \div 100)

\* No caller sends a temporal context: the rolling frequency is the present one and
\* the trend one half.
Temporal(m) == [rolling |-> m["disruption_freq"], trend |-> Unit \div 2]

RuleScore(m, zone) ==
  LET sum == 24 * m["disruption_freq"] + 18 * m["duration"] + 17 * m["traffic"]
             + 18 * m["order_drop"] + 15 * m["claims"] + 8 * Temporal(m).rolling
             + 5 * Temporal(m).trend - 7 * m["activity"]
  IN  Between(0, Unit, sum \div 100 + Bias(zone))

Hybrid(model, m, zone) ==
  LET ml == Between(0, Unit, Bias(zone) + IF model = "trained" THEN TrainedScore[zone] ELSE Heuristic(m))
  IN  (7 * ml + 3 * RuleScore(m, zone)) \div 10

\* 1 + 0.3 * score in hundredths, at most 1.5.
Multiplier(score) == Between(100, 150, (Unit + (3 * score) \div 10 + 50) \div 100)

\* AIRiskServiceClient._build_metrics of the claims service.
ClaimMetrics(severity, type) ==
  LET sev == CASE severity = "LOW" -> 2000 [] severity = "HIGH" -> 8000 [] OTHER -> 5000
      evt == CASE type = "weather" -> 7500 [] type = "traffic" -> 6500 [] OTHER -> 5500
      base == (sev + evt) \div 2
  IN  [disruption_freq |-> base, duration |-> (9 * base) \div 10, traffic |-> evt,
       order_drop |-> Between(0, Unit, (11 * sev) \div 10),
       activity |-> Unit - (4 * sev) \div 10, claims |-> (6 * base) \div 10]

\* get_premium_multiplier of the policy service sends the same metrics for everyone.
PolicyMetrics ==
  [disruption_freq |-> 4000, duration |-> 4000, traffic |-> 4000, order_drop |-> 4000,
   activity |-> 6000, claims |-> 3000]

-----------------------------------------------------------------------------
(* One request per thread of the service.                                  *)

RiskInit == bundle = "none" /\ evals = <<>> /\ predictions = {}

EvalAt(k, pc) == evals[k].pc = pc

\* get_bundle: no lock around the first load.
NewEval(zone, metrics) ==
  [pc |-> IF bundle = "none" THEN "load" ELSE "log", zone |-> zone,
   metrics |-> [f \in Features |-> Normalized(metrics[f])], model |-> bundle]

ScoreOf(k) == Hybrid(evals[k].model, evals[k].metrics, evals[k].zone)

StartEval(zone, metrics) ==
  /\ Len(evals) < MaxEvals
  /\ evals' = Append(evals, NewEval(zone, metrics))
  /\ UNCHANGED <<bundle, predictions>>

\* The artifact is read; one that is missing or broken is replaced by the heuristic.
LoadBundle(k, model) ==
  /\ EvalAt(k, "load")
  /\ bundle' = model
  /\ evals' = [evals EXCEPT ![k].pc = "log", ![k].model = model]
  /\ UNCHANGED <<predictions>>

LoadModel(k) == LoadBundle(k, "trained") /\ UNCHANGED faults
LoadFallback(k) == LoadBundle(k, "fallback") /\ Fault

LogPrediction(k) ==
  /\ EvalAt(k, "log")
  /\ evals' = [evals EXCEPT ![k].pc = "answered"]
  /\ predictions' = predictions \cup {k}
  /\ UNCHANGED <<bundle, faults>>

\* The database refuses: the caller is answered 500 and gets no score.
LogFails(k) ==
  /\ EvalAt(k, "log") /\ Fault
  /\ evals' = [evals EXCEPT ![k].pc = "error"]
  /\ UNCHANGED <<bundle, predictions>>

RiskStep(k) == LoadModel(k) \/ LoadFallback(k) \/ LogPrediction(k) \/ LogFails(k)

RiskNext == \E k \in DOMAIN evals : RiskStep(k)

-----------------------------------------------------------------------------

RiskTypeOK ==
  /\ bundle \in {"none", "trained", "fallback"}
  /\ \A k \in DOMAIN evals : evals[k].pc \in {"load", "log", "answered", "error"}
  /\ predictions \subseteq DOMAIN evals
  /\ faults \in 0..MaxFaults

WorseRisk(a, b) ==
  /\ Bias(a.zone) >= Bias(b.zone) /\ a.metrics["activity"] <= b.metrics["activity"]
  /\ \A f \in Features \ {"activity"} : a.metrics[f] >= b.metrics[f]

\* What the other services may ask, and what the fallback answers.
Askable ==
  {[zone |-> z, metrics |-> m, score |-> Hybrid("fallback", m, z)] :
     z \in {"LR-1", "MR-2", "HR-3"},
     m \in {PolicyMetrics} \cup {ClaimMetrics(severity, type) :
              severity \in {"LOW", "HIGH"}, type \in {"weather", "platform"}}}

\* Nobody with worse metrics in no better a zone is scored, or pays, less than a logged
\* prediction, nor anybody with better ones more.  That is asked of the fallback; of an
\* artifact it is the training's affair.
RiskOrdered ==
  \A k \in predictions : evals[k].model = "fallback" =>
    LET score == ScoreOf(k) IN
    \A r \in Askable :
      /\ r.score < score => ~WorseRisk(r, evals[k])
      /\ r.score > score => ~WorseRisk(evals[k], r)
      /\ r.score <= score => Multiplier(r.score) <= Multiplier(score)
      /\ r.score >= score => Multiplier(r.score) >= Multiplier(score)
=============================================================================
