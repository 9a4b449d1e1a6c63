------------------------- MODULE UnderwritingProofs -------------------------
(***************************************************************************)
(* Proofs about the policy service, its gate and the ai-risk service it    *)
(* prices by: rounding never turns the order of two premiums, nothing is   *)
(* covered that is not, activations are logged, surcharges are explained,  *)
(* and the gate lets through what its limit and its threads allow, for any *)
(* applications, threads, failures and trained model.                      *)
(***************************************************************************)
EXTENDS Underwriting, Sums, FiniteSetTheorems, TLAPS

\* Rounding half up keeps the order.
LEMMA RoundMonotone ==
  ASSUME NEW m \in Nat, NEW n \in Nat, m <= n
  PROVE  /\ RoundHalfUp(m, 400000) <= RoundHalfUp(n, 400000)
         /\ RoundHalfUp(m, 100) <= RoundHalfUp(n, 100)
  BY DEF RoundHalfUp

\* A product of naturals keeps the order of its factors.
LEMMA ProductMonotone ==
  ASSUME NEW a \in Nat, NEW b \in Nat, NEW c \in Nat, NEW d \in Nat, a <= b, c <= d
  PROVE  a * c \in Nat /\ b * d \in Nat /\ a * c <= b * d
<1>1. b = a + (b - a) /\ b - a \in Nat /\ d = c + (d - c) /\ d - c \in Nat
  OBVIOUS
<1>2. \A x, y \in Nat : (a + x) * (c + y) = a * c + a * y + x * c + x * y
  OBVIOUS
<1>3. \A x, y \in Nat : x * y \in Nat
  OBVIOUS
<1> QED
  BY <1>1, <1>2, <1>3

\* A worker who earns no more, in a zone no dearer, in no earlier a week and at no
\* higher a risk pays no more: PricingService.calculate.
THEOREM PremiumMonotone ==
  ASSUME NEW i \in Nat, NEW j \in Nat, i <= j,
         NEW y \in Zones, NEW z \in Zones, ZoneRate[y] <= ZoneRate[z],
         NEW v \in Nat, NEW w \in Nat, w <= v,
         NEW q \in Nat, NEW r \in Nat, q <= r
  PROVE  TotalPremium(i, y, v, q) <= TotalPremium(j, z, w, r)
<1>1. ZoneRate[y] \in Nat /\ ZoneRate[z] \in Nat
  BY DEF ZoneRate, Zones
<1>2. /\ StabilizationFactor(v) \in Nat /\ StabilizationFactor(w) \in Nat
      /\ StabilizationFactor(v) <= StabilizationFactor(w)
  BY DEF StabilizationFactor
<1>3. /\ i * ZoneRate[y] \in Nat /\ j * ZoneRate[z] \in Nat
      /\ i * ZoneRate[y] <= j * ZoneRate[z]
  BY <1>1, ProductMonotone
<1> DEFINE low == i * ZoneRate[y] * StabilizationFactor(v)
           high == j * ZoneRate[z] * StabilizationFactor(w)
<1>4. low \in Nat /\ high \in Nat /\ low <= high
  BY <1>2, <1>3, ProductMonotone
<1>5. low * q \in Nat /\ high * r \in Nat /\ low * q <= high * r
  <2> HIDE DEF low, high
  <2> QED BY <1>4, ProductMonotone
<1> DEFINE base == BasePremium(i, y, v, q)
           dear == BasePremium(j, z, w, r)
<1>6. base = RoundHalfUp(low * q, 400000) /\ dear = RoundHalfUp(high * r, 400000)
  BY DEF BasePremium
<1>7. base \in Nat /\ dear \in Nat /\ base <= dear
  <2> HIDE DEF low, high
  <2>1. base <= dear
    <3> HIDE DEF base, dear
    <3> QED BY <1>5, <1>6, RoundMonotone
  <2>2. \A n \in Nat : RoundHalfUp(n, 400000) \in Nat
    BY DEF RoundHalfUp
  <2> HIDE DEF base, dear
  <2> QED BY <1>5, <1>6, <2>1, <2>2
<1>8. Gst(base) \in Nat /\ Gst(dear) \in Nat /\ Gst(base) <= Gst(dear)
  <2> HIDE DEF base, dear
  <2>1. 18 * base \in Nat /\ 18 * dear \in Nat /\ 18 * base <= 18 * dear
    BY <1>7
  <2>2. RoundHalfUp(18 * base, 100) <= RoundHalfUp(18 * dear, 100)
    BY <2>1, RoundMonotone
  <2>3. \A n \in Nat : RoundHalfUp(n, 100) \in Nat
    BY DEF RoundHalfUp
  <2> QED BY <2>1, <2>2, <2>3 DEF Gst
<1>9. TotalPremium(i, y, v, q) = base + Gst(base) /\ TotalPremium(j, z, w, r) = dear + Gst(dear)
  BY DEF TotalPremium
<1> QED
  <2> HIDE DEF base, dear
  <2> QED BY <1>7, <1>8, <1>9

-----------------------------------------------------------------------------
(* Scores.                                                                 *)

Models == {"none", "trained", "fallback"}
Metrics == [Features -> Int]

(* The unit of a probability is a natural number. *)
LEMMA UnitType == Unit \in Nat
BY DEF Unit

\* A value between 0 and 1 stays between them, and in order.
LEMMA BetweenOrdered ==
  \A m, n \in Int : /\ Between(0, Unit, m) \in 0..Unit
                    /\ m <= n => Between(0, Unit, m) <= Between(0, Unit, n)
BY DEF Between, Unit

\* Dividing keeps the order.
LEMMA QuotientOrdered ==
  ASSUME NEW m \in Int, NEW n \in Int, m <= n
  PROVE  m \div 100 \in Int /\ m \div 10 \in Int /\ m \div 100 <= n \div 100 /\ m \div 10 <= n \div 10
OBVIOUS

\* The zone's bias is a number.
LEMMA BiasType == \A z : Bias(z) \in Int
BY DEF Bias

\* The rule's and the fallback's scores are between 0 and 1 and grow with the risk.
LEMMA RuleScoreOrdered ==
  ASSUME NEW a \in Metrics, NEW b \in Metrics, NEW y, NEW z
  PROVE  /\ RuleScore(a, y) \in 0..Unit
         /\ WorseRisk([zone |-> z, metrics |-> b], [zone |-> y, metrics |-> a])
              => RuleScore(a, y) <= RuleScore(b, z)
<1> DEFINE Sum(m) == 24 * m["disruption_freq"] + 18 * m["duration"] + 17 * m["traffic"]
             + 18 * m["order_drop"] + 15 * m["claims"] + 8 * m["disruption_freq"]
             + 5 * 5000 - 7 * m["activity"]
<1>1. \A m, x : RuleScore(m, x) = Between(0, Unit, Sum(m) \div 100 + Bias(x))
  BY DEF RuleScore, Temporal, Unit
<1>2. \A m \in Metrics : Sum(m) \in Int
  BY DEF Metrics, Features
<1>3. Sum(a) \div 100 + Bias(y) \in Int /\ Sum(b) \div 100 + Bias(z) \in Int
  <2> HIDE DEF Sum
  <2> QED BY <1>2, BiasType
<1>4. RuleScore(a, y) \in 0..Unit
  <2> HIDE DEF Sum
  <2> QED BY <1>1, <1>3, BetweenOrdered
<1>5. ASSUME WorseRisk([zone |-> z, metrics |-> b], [zone |-> y, metrics |-> a])
      PROVE  RuleScore(a, y) <= RuleScore(b, z)
  <2>1. Sum(a) <= Sum(b)
    BY <1>5 DEF Metrics, Features, WorseRisk
  <2>2. Bias(y) <= Bias(z)
    BY <1>5 DEF WorseRisk
  <2> HIDE DEF Sum
  <2>3. Sum(a) \div 100 <= Sum(b) \div 100 /\ Sum(a) \div 100 \in Int /\ Sum(b) \div 100 \in Int
    BY <1>2, <2>1, QuotientOrdered
  <2>4. Sum(a) \div 100 + Bias(y) <= Sum(b) \div 100 + Bias(z)
    BY <2>2, <2>3, BiasType
  <2>5. QED
    BY <1>1, <1>3, <2>4, BetweenOrdered
<1>6. QED
  BY <1>4, <1>5

\* The same of the model used without an artifact.
LEMMA HeuristicType == \A m \in Metrics : Heuristic(m) \in 0..Unit
<1> TAKE m \in Metrics
<1> DEFINE sum == 24 * m["disruption_freq"] + 16 * m["duration"] + 18 * m["traffic"]
                    + 20 * m["order_drop"] + 14 * m["claims"] + 8 * (Unit - m["activity"])
<1>1. sum \in Int
  BY DEF Metrics, Features, Unit
<1>2. Heuristic(m) = Between(0, Unit, sum \div 100)
  BY DEF Heuristic
<1> HIDE DEF sum
<1>3. sum \div 100 \in Int
  BY <1>1
<1>4. QED
  BY <1>2, <1>3, BetweenOrdered

(* The heuristic score grows with each metric. *)
LEMMA HeuristicOrdered ==
  ASSUME NEW a \in Metrics, NEW b \in Metrics, NEW y, NEW z,
         WorseRisk([zone |-> z, metrics |-> b], [zone |-> y, metrics |-> a])
  PROVE  Heuristic(a) <= Heuristic(b)
<1> DEFINE Sum(m) == 24 * m["disruption_freq"] + 16 * m["duration"] + 18 * m["traffic"]
                    + 20 * m["order_drop"] + 14 * m["claims"] + 8 * (Unit - m["activity"])
<1>1. Heuristic(a) = Between(0, Unit, Sum(a) \div 100) /\ Heuristic(b) = Between(0, Unit, Sum(b) \div 100)
  BY DEF Heuristic
<1>2. Sum(a) \in Int /\ Sum(b) \in Int
  BY DEF Metrics, Features, Unit
<1>3. Sum(a) <= Sum(b)
  BY DEF Metrics, Features, WorseRisk, Unit
<1> HIDE DEF Sum
<1>4. Sum(a) \div 100 <= Sum(b) \div 100 /\ Sum(a) \div 100 \in Int /\ Sum(b) \div 100 \in Int
  BY <1>2, <1>3, QuotientOrdered
<1>5. QED
  BY <1>1, <1>4, BetweenOrdered

\* What one model adds to the hybrid, and the hybrid of two scores.
ModelScore(model, m, zone) ==
  Between(0, Unit, Bias(zone) + IF model = "trained" THEN TrainedScore[zone] ELSE Heuristic(m))

Mixed(ml, rule) == (7 * ml + 3 * rule) \div 10

(* A mix of two scores grows with each of them. *)
LEMMA MixedOrdered ==
  \A i, j, k, l \in 0..Unit : /\ Mixed(i, k) \in 0..Unit
                              /\ i <= j /\ k <= l => Mixed(i, k) <= Mixed(j, l)
BY DEF Mixed, Unit

(* The hybrid score is such a mix. *)
LEMMA HybridIsMixed ==
  \A model, m, zone : Hybrid(model, m, zone) = Mixed(ModelScore(model, m, zone), RuleScore(m, zone))
BY DEF Hybrid, Mixed, ModelScore

(* The model's score is a probability. *)
LEMMA ModelScoreType ==
  ASSUME NEW m \in Metrics, NEW y \in DOMAIN TrainedScore, NEW model
  PROVE  ModelScore(model, m, y) \in 0..Unit
<1> DEFINE sum == Bias(y) + IF model = "trained" THEN TrainedScore[y] ELSE Heuristic(m)
<1>1. TrainedScore[y] \in Int
  BY RiskAssumption, UnitType
<1>2. Heuristic(m) \in Int
  BY HeuristicType, UnitType
<1>3. sum \in Int /\ ModelScore(model, m, y) = Between(0, Unit, sum)
  BY <1>1, <1>2, BiasType DEF ModelScore
<1> HIDE DEF sum
<1>4. QED
  BY <1>3, BetweenOrdered

\* A score is between 0 and 1, whatever model made it.
LEMMA HybridType ==
  ASSUME NEW m \in Metrics, NEW y \in DOMAIN TrainedScore, NEW model
  PROVE  Hybrid(model, m, y) \in 0..Unit
<1>1. ModelScore(model, m, y) \in 0..Unit
  BY ModelScoreType
<1>2. RuleScore(m, y) \in 0..Unit
  BY RuleScoreOrdered
<1>3. QED
  BY <1>1, <1>2, HybridIsMixed, MixedOrdered

\* Without an artifact a worse risk is scored no lower.
LEMMA HybridOrdered ==
  ASSUME NEW a \in Metrics, NEW b \in Metrics,
         NEW y \in DOMAIN TrainedScore, NEW z \in DOMAIN TrainedScore,
         WorseRisk([zone |-> z, metrics |-> b], [zone |-> y, metrics |-> a])
  PROVE  Hybrid("fallback", a, y) <= Hybrid("fallback", b, z)
<1> DEFINE f == "fallback"
<1>1. /\ RuleScore(a, y) \in 0..Unit /\ RuleScore(b, z) \in 0..Unit
      /\ RuleScore(a, y) <= RuleScore(b, z)
  BY RuleScoreOrdered
<1>2. Heuristic(a) <= Heuristic(b)
  BY HeuristicOrdered
<1>3. Heuristic(a) \in Int /\ Heuristic(b) \in Int
  BY HeuristicType, UnitType
<1>4. Bias(y) <= Bias(z) /\ Bias(y) \in Int /\ Bias(z) \in Int
  BY BiasType DEF WorseRisk
<1>5. /\ Bias(y) + Heuristic(a) \in Int /\ Bias(z) + Heuristic(b) \in Int
      /\ Bias(y) + Heuristic(a) <= Bias(z) + Heuristic(b)
  BY <1>2, <1>3, <1>4
<1>6. /\ ModelScore(f, a, y) = Between(0, Unit, Bias(y) + Heuristic(a))
      /\ ModelScore(f, b, z) = Between(0, Unit, Bias(z) + Heuristic(b))
  BY DEF ModelScore
<1>7. ModelScore(f, a, y) <= ModelScore(f, b, z)
  BY <1>5, <1>6, BetweenOrdered
<1>8. ModelScore(f, a, y) \in 0..Unit /\ ModelScore(f, b, z) \in 0..Unit
  BY ModelScoreType
<1>9. QED
  BY <1>1, <1>7, <1>8, HybridIsMixed, MixedOrdered

\* Multipliers keep the order of the scores; none is below 1 or above 1.3.
LEMMA MultiplierOrdered ==
  \A m, n \in 0..Unit : /\ Multiplier(m) \in 100..130
                        /\ m <= n => Multiplier(m) <= Multiplier(n)
BY DEF Multiplier, Between, Unit

\* Metrics sent are normalized to something between 0 and 1.
LEMMA NormalizedType == \A n \in Nat : Normalized(n) \in 0..Unit
BY DEF Normalized, Unit

-----------------------------------------------------------------------------
(* The inductive invariant.                                                *)

JobPoints == {"idle", "gate", "resolve", "risk", "wait", "insert", "created", "latest", "find",
              "save", "log", "refreshed", "found", "fraud", "save2", "log2", "answered"}
GatePoints == {"out", "test", "pop", "append", "in", "refused", "broken"}
Status == {"waiting_period", "active"}
Multipliers == 100..130

Job == [pc : JobPoints, op : {"cover", "buy", "validate"}, app : Applications, eval : Nat,
        mult : Multipliers, row : Nat, seen : Status,
        cover : {"none", "unchecked", "degraded", "invalid", "valid"}]
PolicyRow == [status : Status, app : Applications, risk : Multipliers, paid : BOOLEAN,
              premium : Nat, created : Nat, waiting_end : Nat]
LogCounts == [waiting_period : Nat, active : Nat]
Evaluation == [pc : {"load", "log", "answered", "error"}, zone : DOMAIN TrainedScore,
               metrics : [Features -> 0..Unit], model : Models]

RateSound ==
  /\ RateTypeOK
  /\ gate \in [Threads -> [pc : GatePoints, now : Nat]]

RiskSound ==
  /\ bundle \in Models /\ evals \in Seq(Evaluation) /\ faults \in 0..MaxFaults
  /\ predictions = {k \in DOMAIN evals : evals[k].pc = "answered"}

\* A surcharge comes from a prediction for the zone that is logged.
Backed(zone, mult, logged, list) ==
  mult > 100 => \E k \in logged :
    list[k].zone = zone /\ Multiplier(Hybrid(list[k].model, list[k].metrics, list[k].zone)) = mult

Explained(zone, mult) == Backed(zone, mult, predictions, evals)

PolicyTables ==
  /\ policies \in Seq(PolicyRow)
  /\ policy_logs \in [1..MaxPolicies -> LogCounts]
  /\ job \in [Threads -> Job]
  /\ buys \in 0..MaxPolicies

PoliciesPriced ==
  \A p \in DOMAIN policies :
    LET a == policies[p].app IN
      /\ policies[p].premium = TotalPremium(a.income, a.zone, a.week, policies[p].risk)
      /\ Explained(a.zone, policies[p].risk)

Holds(t) == job[t].row \in DOMAIN policies
Own(t) == policies[job[t].row]

\* What a thread knows at its point still holds when it acts on it: a policy once active
\* stays active, and its application, its payment and its waiting period never change.
ThreadSound(t) ==
  LET pc == job[t].pc IN
  /\ gate[t].pc # "out" => pc = "gate"
  /\ pc \in {"resolve", "risk", "wait", "insert"} => job[t].op = "buy"
  /\ job[t].op = "buy" /\ pc \in {"gate", "resolve", "risk", "wait"} => job[t].mult = 100
  /\ job[t].eval <= Len(evals) /\ job[t].row <= Len(policies)
  /\ pc = "wait" => job[t].eval > 0 /\ evals[job[t].eval].zone = job[t].app.zone
  /\ pc = "insert" => Explained(job[t].app.zone, job[t].mult)
  /\ pc = "gate" /\ job[t].op = "validate" => Holds(t)
  /\ pc \in {"created", "find", "save", "log", "refreshed", "found", "fraud", "save2", "log2"} => Holds(t)
  /\ pc \in {"save", "log"} => job[t].seen = "active"
  /\ pc \in {"log", "log2"} => Own(t).status = "active"
  /\ pc \in {"refreshed", "fraud"} /\ job[t].seen = "active" => Own(t).status = "active"
  /\ pc \in {"fraud", "save2", "log2"} => Own(t).app.days >= 3 /\ clock >= Own(t).waiting_end
  /\ pc \in {"save2", "log2"} => Own(t).paid
  /\ pc = "answered" /\ job[t].cover = "valid" =>
       /\ Holds(t) /\ Own(t).status = "active" /\ Own(t).paid
       /\ Own(t).app.days >= 3 /\ clock >= Own(t).waiting_end

\* Threads that will still insert a policy: each was counted when it began.
Buying == {t \in Threads : job[t].op = "buy" /\ job[t].pc \in {"gate", "resolve", "risk", "wait", "insert"}}

PoliciesCounted == Len(policies) + Cardinality(Buying) <= buys

\* Threads that have seen policy p waiting and may still enter its activation.
WillEnter(j) ==
  \/ j.pc \in {"save", "log", "save2", "log2"}
  \/ j.pc \in {"refreshed", "fraud"} /\ j.seen = "waiting_period"

Activating(p) == {t \in Threads : job[t].row = p /\ WillEnter(job[t])}

LoggingNow(p) == \E t \in Threads : job[t].row = p /\ job[t].pc \in {"log", "log2"}

\* While a policy waits nothing is entered; afterwards no further thread sees it waiting,
\* so that the entries and those still to come are never more than the threads.
EntriesCounted(p) ==
  /\ policies[p].status = "waiting_period" => policy_logs[p].active = 0
  /\ policies[p].status = "active" /\ policy_logs[p].active = 0 => faults > 0 \/ LoggingNow(p)
  /\ policy_logs[p].active + Cardinality(Activating(p)) <= Cardinality(Threads)

ActivationsCounted ==
  /\ \A p \in 1..MaxPolicies : p > Len(policies) => policy_logs[p].active = 0
  /\ \A p \in DOMAIN policies : EntriesCounted(p)

UnderwritingInv ==
  /\ RateSound /\ RiskSound /\ PolicyTables /\ PoliciesPriced
  /\ \A t \in Threads : ThreadSound(t)
  /\ PoliciesCounted /\ ActivationsCounted

-----------------------------------------------------------------------------
(* What one step may do to what the others rely on.                        *)

(* The multipliers are natural numbers, the neutral one among them. *)
LEMMA MultipliersType == Multipliers \subseteq Nat /\ 100 \in Multipliers
BY DEF Multipliers

\* Nothing a thread relies on is taken back: time passes, policies and requests to
\* evaluate are added, an active policy stays active and a prediction logged.
Growth ==
  /\ clock <= clock' /\ Len(policies) <= Len(policies') /\ Len(evals) <= Len(evals')
  /\ \A p \in DOMAIN policies :
       /\ p \in DOMAIN policies'
       /\ policies'[p].app = policies[p].app /\ policies'[p].paid = policies[p].paid
       /\ policies'[p].risk = policies[p].risk /\ policies'[p].premium = policies[p].premium
       /\ policies'[p].waiting_end = policies[p].waiting_end
       /\ policies[p].status = "active" => policies'[p].status = "active"
  /\ \A k \in DOMAIN evals : evals'[k].zone = evals[k].zone
  /\ \A k \in predictions : k \in predictions' /\ evals'[k] = evals[k]

SameBut(t) == \A u \in Threads \ {t} : job'[u] = job[u] /\ gate'[u] = gate[u]

(* A price that some consultation backs stays backed. *)
LEMMA BackedKept ==
  ASSUME Growth
  PROVE  \A z, m : Backed(z, m, predictions, evals) => Backed(z, m, predictions', evals')
BY DEF Growth, Backed

\* What holds of a thread that does not move goes on to hold.
LEMMA ThreadKept ==
  ASSUME UnderwritingInv, Growth, clock' \in Int, Len(policies') \in Nat, Len(evals') \in Nat,
         NEW u \in Threads, job'[u] = job[u], gate'[u] = gate[u]
  PROVE  ThreadSound(u)'
<1>1. ThreadSound(u) /\ policies \in Seq(PolicyRow) /\ evals \in Seq(Evaluation) /\ job[u] \in Job
  BY DEF UnderwritingInv, PolicyTables, RiskSound
<1>2. clock \in Int /\ job[u].row \in Nat /\ job[u].eval \in Nat /\ Len(policies) \in Nat /\ Len(evals) \in Nat
  BY <1>1 DEF UnderwritingInv, RateSound, RateTypeOK, Job
<1>3. Holds(u) => /\ Holds(u)' /\ Own(u)'.app = Own(u).app /\ Own(u)'.paid = Own(u).paid
                  /\ Own(u)'.waiting_end = Own(u).waiting_end
                  /\ Own(u).status = "active" => Own(u)'.status = "active"
  BY DEF Holds, Own, Growth
<1>4. Holds(u) => Own(u).waiting_end \in Nat
  <2>1. \A p \in DOMAIN policies : policies[p] \in PolicyRow
    BY <1>1
  <2>2. QED
    BY <2>1 DEF Holds, Own, PolicyRow
<1>5. job[u].pc = "wait" => evals'[job[u].eval].zone = evals[job[u].eval].zone
  <2>1. job[u].pc = "wait" => job[u].eval \in DOMAIN evals
    BY <1>1, <1>2 DEF ThreadSound
  <2>2. QED
    BY <2>1 DEF Growth
<1>6. Explained(job[u].app.zone, job[u].mult) => Explained(job[u].app.zone, job[u].mult)'
  BY BackedKept DEF Explained
<1>7. job[u].row <= Len(policies') /\ job[u].eval <= Len(evals')
  BY <1>1, <1>2 DEF Growth, ThreadSound
<1>8. clock <= clock'
  BY DEF Growth
<1>9. Own(u).status = "active" /\ Holds(u) => Own(u)'.status = "active"
  BY <1>3
<1>10. Holds(u) /\ clock >= Own(u).waiting_end => clock' >= Own(u)'.waiting_end
  BY <1>2, <1>3, <1>4, <1>8
<1> DEFINE j == job[u]
<1>11. job'[u] = job[u] /\ gate'[u] = gate[u]
  OBVIOUS
<1>12. /\ j.pc = "insert" => Explained(j.app.zone, j.mult)'
       /\ j.pc = "gate" /\ j.op = "validate" => Holds(u)'
       /\ j.pc \in {"created", "find", "save", "log", "refreshed", "found", "fraud", "save2", "log2"}
            => Holds(u)'
  BY <1>1, <1>3, <1>6 DEF ThreadSound
<1>13. /\ j.pc \in {"log", "log2"} => Own(u)'.status = "active"
       /\ j.pc \in {"refreshed", "fraud"} /\ j.seen = "active" => Own(u)'.status = "active"
       /\ j.pc \in {"fraud", "save2", "log2"} => Own(u)'.app.days >= 3 /\ clock' >= Own(u)'.waiting_end
       /\ j.pc \in {"save2", "log2"} => Own(u)'.paid
  BY <1>1, <1>3, <1>9, <1>10 DEF ThreadSound
<1>14. j.pc = "answered" /\ j.cover = "valid" =>
         /\ Holds(u)' /\ Own(u)'.status = "active" /\ Own(u)'.paid
         /\ Own(u)'.app.days >= 3 /\ clock' >= Own(u)'.waiting_end
  BY <1>1, <1>3, <1>9, <1>10 DEF ThreadSound
<1>15. QED
  BY <1>1, <1>5, <1>7, <1>11, <1>12, <1>13, <1>14 DEF ThreadSound

\* So does what holds of the prices while no policy is added.
LEMMA PricedKept ==
  ASSUME PoliciesPriced, Growth, DOMAIN policies' = DOMAIN policies
  PROVE  PoliciesPriced'
BY BackedKept DEF PoliciesPriced, Growth, Explained

\* A thread moves, and neither the clock, the policies, their logs nor the evaluations
\* change: what has to be shown of it is what it now knows, and that it has not begun to
\* buy or to activate.
Moves(t) ==
  /\ job' \in [Threads -> Job] /\ SameBut(t) /\ RateSound' /\ ThreadSound(t)'
  /\ UNCHANGED <<clock, policies, policy_logs, riskVars>>
  /\ faults' = faults \/ Fault
  /\ WillEnter(job'[t]) =>
       \/ WillEnter(job[t]) /\ job[t].row = job'[t].row
       \/ policies[job'[t].row].status = "waiting_period"
  /\ job[t].pc \in {"log", "log2"} => Fault

\* A step that changes a thread keeps the threads' knowledge.
LEMMA ThreadsKept ==
  ASSUME UnderwritingInv, Growth, clock' \in Int, Len(policies') \in Nat, Len(evals') \in Nat,
         NEW t \in Threads, SameBut(t), ThreadSound(t)'
  PROVE  \A u \in Threads : ThreadSound(u)'
BY ThreadKept DEF SameBut

\* The policies, and the one a buying thread will add, have log counters.
LEMMA PolicyIds ==
  ASSUME UnderwritingInv
  PROVE  /\ DOMAIN policies \subseteq 1..MaxPolicies /\ Len(policies) \in Nat
         /\ DOMAIN policies = 1..Len(policies)
         /\ IsFiniteSet(Buying) /\ Cardinality(Buying) \in Nat
         /\ Buying # {} => Len(policies) + 1 \in 1..MaxPolicies
<1>1. IsFiniteSet(Buying)
  BY RateAssumption, FS_Subset DEF Buying
<1>2. Cardinality(Buying) \in Nat /\ (Buying # {} => Cardinality(Buying) > 0)
  BY <1>1, FS_CardinalityType, FS_EmptySet
<1>3. Len(policies) \in Nat /\ buys \in 0..MaxPolicies /\ MaxPolicies \in Nat
      /\ DOMAIN policies = 1..Len(policies)
  BY PolicyAssumption DEF UnderwritingInv, PolicyTables
<1>4. QED
  BY <1>1, <1>2, <1>3 DEF UnderwritingInv, PoliciesCounted

\* No more threads are going to insert a policy unless one begins to.
LEMMA PoliciesCountedKept ==
  ASSUME UnderwritingInv, Len(policies') = Len(policies), buys' = buys, Buying' \subseteq Buying
  PROVE  PoliciesCounted'
<1>1. IsFiniteSet(Buying)
  BY RateAssumption, FS_Subset DEF Buying
<1>2. Cardinality(Buying') <= Cardinality(Buying) /\ IsFiniteSet(Buying')
  BY <1>1, FS_Subset
<1>3. Cardinality(Buying) \in Nat /\ Cardinality(Buying') \in Nat
  BY <1>1, <1>2, FS_CardinalityType
<1>4. Len(policies) \in Nat /\ buys \in Nat
  BY DEF UnderwritingInv, PolicyTables
<1>5. QED
  BY <1>2, <1>3, <1>4 DEF UnderwritingInv, PoliciesCounted

\* The entries of a policy go on to be counted while none is made and nobody begins to
\* activate it except from having seen it waiting.
LEMMA EntriesKept ==
  ASSUME UnderwritingInv, NEW p \in DOMAIN policies, policy_logs'[p] = policy_logs[p],
         policies'[p].status = policies[p].status,
         Activating(p)' \subseteq Activating(p) \/ policies[p].status = "waiting_period",
         LoggingNow(p) => LoggingNow(p)' \/ faults' > 0, faults > 0 => faults' > 0
  PROVE  EntriesCounted(p)'
<1>1. EntriesCounted(p) /\ p \in 1..MaxPolicies
  BY PolicyIds DEF UnderwritingInv, ActivationsCounted
<1>2. policies[p].status \in Status /\ policy_logs[p].active \in Nat
  <2>1. policies[p] \in PolicyRow /\ policy_logs[p] \in LogCounts
    BY <1>1 DEF UnderwritingInv, PolicyTables
  <2>2. QED
    BY <2>1 DEF PolicyRow, LogCounts
<1>3. /\ IsFiniteSet(Threads) /\ Cardinality(Threads) \in Nat
      /\ IsFiniteSet(Activating(p)) /\ Cardinality(Activating(p)) \in Nat
      /\ IsFiniteSet(Activating(p)') /\ Cardinality(Activating(p)') \in Nat
      /\ Cardinality(Activating(p)') <= Cardinality(Threads)
  <2>1. Activating(p) \subseteq Threads /\ Activating(p)' \subseteq Threads
    BY DEF Activating
  <2>2. QED
    BY <2>1, RateAssumption, FS_Subset, FS_CardinalityType
<1>4. policy_logs[p].active + Cardinality(Activating(p)') <= Cardinality(Threads)
  <2>1. CASE policies[p].status = "waiting_period"
    BY <1>1, <1>3, <2>1 DEF EntriesCounted
  <2>2. CASE Activating(p)' \subseteq Activating(p)
    <3>1. Cardinality(Activating(p)') <= Cardinality(Activating(p))
      BY <1>3, <2>2, FS_Subset
    <3>2. QED
      BY <1>1, <1>2, <1>3, <3>1 DEF EntriesCounted
  <2>3. QED
    BY <2>1, <2>2
<1>5. QED
  BY <1>1, <1>4 DEF EntriesCounted

\* No other thread begins to buy.
LEMMA BuyingKept ==
  ASSUME NEW t \in Threads, SameBut(t), t \in Buying' => t \in Buying
  PROVE  Buying' \subseteq Buying
BY DEF SameBut, Buying

\* A failure is counted.
LEMMA FaultCounted ==
  ASSUME UnderwritingInv, faults' = faults \/ Fault
  PROVE  /\ faults' \in 0..MaxFaults
         /\ faults > 0 => faults' > 0
         /\ Fault => faults' > 0
BY RiskAssumption DEF UnderwritingInv, RiskSound, Fault

(* A step that moves a thread keeps the invariant if it keeps the count of the policies. *)
LEMMA MovesKeep ==
  ASSUME UnderwritingInv, NEW t \in Threads, Moves(t), buys' \in 0..MaxPolicies, PoliciesCounted'
  PROVE  UnderwritingInv'
<1>1. /\ RateSound /\ RiskSound /\ PolicyTables /\ PoliciesPriced
      /\ PoliciesCounted /\ ActivationsCounted
  BY DEF UnderwritingInv
<1>2. UNCHANGED <<clock, policies, policy_logs, bundle, evals, predictions>> /\ SameBut(t)
  BY DEF Moves, riskVars
<1>3. Growth
  <2>1. clock \in Int /\ Len(policies) \in Int /\ Len(evals) \in Int
    BY <1>1 DEF RateSound, RateTypeOK, RiskSound, PolicyTables
  <2>2. predictions \subseteq DOMAIN evals
    BY <1>1 DEF RiskSound
  <2>3. QED
    BY <1>2, <2>1, <2>2 DEF Growth
<1>4. faults' \in 0..MaxFaults /\ (faults > 0 => faults' > 0) /\ (Fault => faults' > 0)
  BY FaultCounted DEF Moves
<1>5. RiskSound'
  BY <1>1, <1>2, <1>4 DEF RiskSound
<1>6. PolicyTables' /\ RateSound'
  BY <1>1, <1>2 DEF PolicyTables, Moves
<1>7. PoliciesPriced'
  BY <1>1, <1>2, <1>3, PricedKept
<1>8. \A u \in Threads : ThreadSound(u)'
  <2>1. clock' \in Int /\ Len(policies') \in Nat /\ Len(evals') \in Nat
    BY <1>5, <1>6 DEF RateSound, RateTypeOK, RiskSound, PolicyTables
  <2>2. ThreadSound(t)'
    BY DEF Moves
  <2>3. QED
    BY <1>2, <1>3, <2>1, <2>2, ThreadsKept
<1>9. ActivationsCounted'
  <2>1. ASSUME NEW p \in DOMAIN policies
        PROVE  EntriesCounted(p)'
    <3>1. LoggingNow(p) => LoggingNow(p)' \/ faults' > 0
      BY <1>2, <1>4 DEF LoggingNow, SameBut, Moves
    <3>2. Activating(p)' \subseteq Activating(p) \/ policies[p].status = "waiting_period"
      BY <1>2 DEF Activating, SameBut, Moves
    <3>3. QED
      BY <1>2, <1>4, <3>1, <3>2, EntriesKept
  <2>2. QED
    BY <1>1, <1>2, <2>1 DEF ActivationsCounted
<1>10. QED
  BY <1>5, <1>6, <1>7, <1>8, <1>9 DEF UnderwritingInv

-----------------------------------------------------------------------------
(* How a step changes its thread.                                          *)

\* Thread t's request becomes j, and nobody else's changes.
Becomes(t, j) == j \in Job /\ job'[t] = j /\ \A u \in Threads \ {t} : job'[u] = job[u]

(* A thread with nothing to do is of its type, and which its fields are. *)
LEMMA NoJobType ==
  /\ NoJob \in Job /\ NoJob.pc = "idle" /\ NoJob.op = "cover" /\ NoJob.eval = 0
  /\ NoJob.mult = 100 /\ NoJob.row = 0 /\ NoJob.cover = "none" /\ NoJob.app \in Applications
<1>1. (CHOOSE a \in Applications : TRUE) \in Applications
  BY PolicyAssumption
<1>2. QED
  BY <1>1, MultipliersType DEF NoJob, Job, JobPoints, Status

(* A thread given a new record becomes that record. *)
LEMMA UpdateType ==
  ASSUME job \in [Threads -> Job], NEW t \in Threads, NEW j \in Job, job' = [job EXCEPT ![t] = j]
  PROVE  job' \in [Threads -> Job] /\ Becomes(t, j)
BY DEF Becomes

(* A thread that only moves is of its type and keeps its other fields. *)
LEMMA ToType ==
  ASSUME job \in [Threads -> Job], NEW t \in Threads, NEW pc \in JobPoints, To(t, pc)
  PROVE  /\ job' \in [Threads -> Job] /\ Becomes(t, [job[t] EXCEPT !.pc = pc])
         /\ job'[t].pc = pc /\ job'[t].op = job[t].op /\ job'[t].app = job[t].app
         /\ job'[t].eval = job[t].eval /\ job'[t].mult = job[t].mult /\ job'[t].row = job[t].row
         /\ job'[t].seen = job[t].seen
<1> DEFINE j == [job[t] EXCEPT !.pc = pc]
<1>1. job' = [job EXCEPT ![t] = j]
  BY DEF To
<1>2. j \in Job
  BY DEF Job
<1>3. /\ j.pc = pc /\ j.op = job[t].op /\ j.app = job[t].app /\ j.eval = job[t].eval
      /\ j.mult = job[t].mult /\ j.row = job[t].row /\ j.seen = job[t].seen
  BY DEF Job
<1> HIDE DEF j
<1>4. job' \in [Threads -> Job] /\ job'[t] = j /\ Becomes(t, j)
  BY <1>1, <1>2, UpdateType DEF Becomes
<1>5. QED
  BY <1>3, <1>4 DEF j

(* A thread that answers is of its type, and which its fields are. *)
LEMMA AnswerType ==
  ASSUME job \in [Threads -> Job], NEW t \in Threads,
         NEW cover \in {"none", "unchecked", "degraded", "invalid", "valid"}, Answer(t, cover)
  PROVE  /\ job' \in [Threads -> Job] /\ \E j \in Job : Becomes(t, j)
         /\ job'[t].pc = "answered" /\ job'[t].op = "cover" /\ job'[t].eval = 0
         /\ job'[t].row = job[t].row /\ job'[t].cover = cover
<1> DEFINE j == [NoJob EXCEPT !.pc = "answered", !.row = job[t].row, !.cover = cover]
<1>1. job' = [job EXCEPT ![t] = j]
  BY DEF Answer
<1>2. job[t].row \in Nat
  BY DEF Job
<1>3. j \in Job
  BY <1>2, NoJobType DEF Job, JobPoints
<1>4. j.pc = "answered" /\ j.op = "cover" /\ j.eval = 0 /\ j.row = job[t].row /\ j.cover = cover
  BY NoJobType DEF Job
<1> HIDE DEF j
<1>5. QED
  BY <1>1, <1>3, <1>4, UpdateType DEF Becomes

(* A thread that has refreshed a policy is of its type, and what it has seen. *)
LEMMA RefreshType ==
  ASSUME job \in [Threads -> Job], NEW t \in Threads, NEW p \in Nat, policies[p].status \in Status,
         Refresh(t, p)
  PROVE  /\ job' \in [Threads -> Job] /\ \E j \in Job : Becomes(t, j)
         /\ job'[t].pc = IF policies[p].status = "waiting_period" /\ Due(p) THEN "save" ELSE "refreshed"
         /\ job'[t].seen = IF policies[p].status = "waiting_period" /\ Due(p)
                             THEN "active" ELSE policies[p].status
         /\ job'[t].op = job[t].op /\ job'[t].eval = job[t].eval /\ job'[t].row = p
<1> DEFINE due == policies[p].status = "waiting_period" /\ Due(p)
           pc == IF due THEN "save" ELSE "refreshed"
           seen == IF due THEN "active" ELSE policies[p].status
           j == [job[t] EXCEPT !.row = p, !.pc = pc, !.seen = seen]
<1>1. job' = [job EXCEPT ![t] = j]
  BY DEF Refresh
<1>2. pc \in JobPoints /\ seen \in Status
  BY DEF JobPoints, Status
<1> HIDE DEF pc, seen
<1>3. j \in Job
  BY <1>2 DEF Job
<1>4. j.pc = pc /\ j.seen = seen /\ j.op = job[t].op /\ j.eval = job[t].eval /\ j.row = p
  BY DEF Job
<1> HIDE DEF j
<1>5. job' \in [Threads -> Job] /\ job'[t] = j /\ Becomes(t, j)
  BY <1>1, <1>3, UpdateType DEF Becomes
<1>6. QED
  BY <1>3, <1>4, <1>5 DEF pc, seen

\* The gate moves one thread.
LEMMA GateSteps ==
  ASSUME RateSound, NEW t \in Threads, UNCHANGED clock
  PROVE  /\ UNCHANGED rateVars => RateSound'
         /\ LeaveGate(t) /\ UNCHANGED <<bucket, passed>> =>
              /\ RateSound' /\ gate'[t].pc = "out" /\ \A u \in Threads \ {t} : gate'[u] = gate[u]
         /\ EnterGate(t) =>
              /\ RateSound' /\ \A u \in Threads \ {t} : gate'[u] = gate[u]
<1>1. /\ clock \in 0..MaxTime /\ bucket \in Seq(0..MaxTime) /\ passed \in [0..MaxTime -> Nat]
      /\ gate \in [Threads -> [pc : GatePoints, now : Nat]] /\ MaxTime \in Nat
      /\ \A u \in Threads : gate[u].now \in 0..clock
  BY RateAssumption DEF RateSound, RateTypeOK
<1>2. UNCHANGED rateVars => RateSound'
  BY DEF RateSound, RateTypeOK, rateVars
<1>3. ASSUME NEW g \in [pc : GatePoints, now : Nat], g.now \in 0..clock, gate' = [gate EXCEPT ![t] = g],
             UNCHANGED <<bucket, passed>>
      PROVE  RateSound' /\ gate'[t] = g /\ \A u \in Threads \ {t} : gate'[u] = gate[u]
  <2>1. \A u \in Threads : gate'[u].pc \in GatePoints /\ gate'[u].now \in 0..clock
    BY <1>1, <1>3
  <2>2. QED
    BY <1>1, <1>3, <2>1 DEF RateSound, RateTypeOK, GatePoints
<1>4. ASSUME LeaveGate(t), UNCHANGED <<bucket, passed>>
      PROVE  RateSound' /\ gate'[t].pc = "out" /\ \A u \in Threads \ {t} : gate'[u] = gate[u]
  <2> DEFINE g == [pc |-> "out", now |-> 0]
  <2>1. g \in [pc : GatePoints, now : Nat] /\ g.now \in 0..clock /\ g.pc = "out"
    BY <1>1 DEF GatePoints
  <2>2. gate' = [gate EXCEPT ![t] = g]
    BY <1>4 DEF LeaveGate, Pass
  <2> HIDE DEF g
  <2>3. QED
    BY <1>3, <1>4, <2>1, <2>2
<1>5. ASSUME EnterGate(t)
      PROVE  RateSound' /\ \A u \in Threads \ {t} : gate'[u] = gate[u]
  <2> DEFINE g == [pc |-> "test", now |-> clock]
  <2>1. g \in [pc : GatePoints, now : Nat] /\ g.now \in 0..clock
    BY <1>1 DEF GatePoints
  <2>2. gate' = [gate EXCEPT ![t] = g] /\ UNCHANGED <<bucket, passed>>
    BY <1>5 DEF EnterGate
  <2> HIDE DEF g
  <2>3. QED
    BY <1>3, <2>1, <2>2
<1>6. QED
  BY <1>2, <1>4, <1>5

\* Testing the bucket, dropping its head and entering an arrival keep the gate's tables in
\* shape, and the thread in the gate.
LEMMA EnforceKeeps ==
  ASSUME RateSound, NEW t \in Threads, EnforceRateLimit(t), UNCHANGED clock
  PROVE  /\ RateSound' /\ gate[t].pc # "out"
         /\ \A u \in Threads \ {t} : gate'[u] = gate[u]
<1>1. /\ clock \in 0..MaxTime /\ bucket \in Seq(0..MaxTime) /\ passed \in [0..MaxTime -> Nat]
      /\ gate \in [Threads -> [pc : GatePoints, now : Nat]] /\ MaxTime \in Nat
      /\ \A u \in Threads : gate[u].now \in 0..clock
  BY RateAssumption DEF RateSound, RateTypeOK
<1>2. PICK g \in [pc : GatePoints, now : Nat] : g.now \in 0..clock /\ gate' = [gate EXCEPT ![t] = g]
  <2>1. CASE \E pc \in GatePoints : Pass(t, pc)
    <3>1. PICK pc \in GatePoints : Pass(t, pc)
      BY <2>1
    <3> DEFINE g == [pc |-> pc, now |-> 0]
    <3>2. g \in [pc : GatePoints, now : Nat] /\ g.now \in 0..clock
      BY <1>1
    <3>3. gate' = [gate EXCEPT ![t] = g]
      BY <3>1 DEF Pass
    <3> HIDE DEF g
    <3>4. QED
      BY <3>2, <3>3
  <2>2. CASE \E pc \in GatePoints : GateTo(t, pc)
    <3>1. PICK pc \in GatePoints : GateTo(t, pc)
      BY <2>2
    <3> DEFINE g == [gate[t] EXCEPT !.pc = pc]
    <3>2. g \in [pc : GatePoints, now : Nat] /\ g.now = gate[t].now
      BY <1>1
    <3>3. gate' = [gate EXCEPT ![t] = g]
      BY <3>1 DEF GateTo
    <3> HIDE DEF g
    <3>4. QED
      BY <1>1, <3>2, <3>3
  <2>3. QED
    <3>1. TestBucket(t) => (\E pc \in GatePoints : Pass(t, pc)) \/ (\E pc \in GatePoints : GateTo(t, pc))
      BY DEF TestBucket, GatePoints
    <3>2. PopHead(t) => (\E pc \in GatePoints : Pass(t, pc)) \/ (\E pc \in GatePoints : GateTo(t, pc))
      BY DEF PopHead, GatePoints
    <3>3. AppendRequest(t) => \E pc \in GatePoints : Pass(t, pc)
      BY DEF AppendRequest, GatePoints
    <3>4. QED
      BY <2>1, <2>2, <3>1, <3>2, <3>3 DEF EnforceRateLimit
<1>3. bucket' \in Seq(0..MaxTime)
  <2>1. PopHead(t) => bucket' \in Seq(0..MaxTime)
    <3>1. bucket # <<>> => Tail(bucket) \in Seq(0..MaxTime)
      BY <1>1
    <3>2. QED
      BY <1>1, <3>1 DEF PopHead
  <2>2. gate[t].now \in 0..MaxTime
    BY <1>1
  <2>3. AppendRequest(t) => bucket' \in Seq(0..MaxTime)
    BY <1>1, <2>2 DEF AppendRequest
  <2>4. TestBucket(t) => bucket' \in Seq(0..MaxTime)
    BY <1>1 DEF TestBucket
  <2>5. QED
    BY <2>1, <2>3, <2>4 DEF EnforceRateLimit
<1>4. passed' \in [0..MaxTime -> Nat]
  <2>1. gate[t].now \in 0..MaxTime
    BY <1>1
  <2>2. AppendRequest(t) => passed' \in [0..MaxTime -> Nat]
    <3>1. passed[gate[t].now] + 1 \in Nat
      BY <1>1, <2>1
    <3>2. QED
      BY <1>1, <2>1, <3>1 DEF AppendRequest
  <2>3. QED
    BY <1>1, <2>2 DEF EnforceRateLimit, TestBucket, PopHead
<1>5. gate[t].pc # "out"
  BY DEF EnforceRateLimit, TestBucket, PopHead, AppendRequest, GateAt
<1>6. \A u \in Threads : gate'[u].pc \in GatePoints /\ gate'[u].now \in 0..clock
  BY <1>1, <1>2
<1>7. gate' \in [Threads -> [pc : GatePoints, now : Nat]] /\ \A u \in Threads \ {t} : gate'[u] = gate[u]
  BY <1>1, <1>2
<1>8. QED
  BY <1>1, <1>3, <1>4, <1>5, <1>6, <1>7 DEF RateSound, RateTypeOK, GatePoints

-----------------------------------------------------------------------------
(* The steps that change nothing but a thread.                             *)

\* What is known of a thread, of the policy it is about and of the counters.
LEMMA ThreadFacts ==
  ASSUME UnderwritingInv, NEW t \in Threads
  PROVE  /\ job \in [Threads -> Job] /\ job[t] \in Job /\ ThreadSound(t) /\ RateSound
         /\ gate[t].pc \in GatePoints /\ (job[t].pc # "gate" => gate[t].pc = "out")
         /\ clock \in Nat /\ Len(policies) \in Nat /\ Len(evals) \in Nat /\ buys \in 0..MaxPolicies
         /\ job[t].row \in Nat /\ job[t].eval \in Nat
         /\ \A p \in DOMAIN policies : policies[p] \in PolicyRow
         /\ Holds(t) => Own(t) \in PolicyRow
         /\ Holds(t) <=> job[t].row \in 1..Len(policies)
<1>1. RateSound /\ RiskSound /\ PolicyTables /\ ThreadSound(t)
  BY DEF UnderwritingInv
<1>2. job \in [Threads -> Job] /\ policies \in Seq(PolicyRow) /\ buys \in 0..MaxPolicies /\ evals \in Seq(Evaluation)
  BY <1>1 DEF PolicyTables, RiskSound
<1>3. gate[t].pc \in GatePoints
  BY <1>1 DEF RateSound
<1>4. clock \in Nat
  BY <1>1, RateAssumption DEF RateSound, RateTypeOK
<1>5. job[t].row \in Nat /\ job[t].eval \in Nat
  BY <1>2 DEF Job
<1>6. \A p \in DOMAIN policies : policies[p] \in PolicyRow
  BY <1>2
<1>7. DOMAIN policies = 1..Len(policies) /\ Len(policies) \in Nat /\ Len(evals) \in Nat
  BY <1>2
<1>8. job[t].pc # "gate" => gate[t].pc = "out"
  BY <1>1 DEF ThreadSound
<1>9. QED
  BY <1>1, <1>2, <1>3, <1>4, <1>5, <1>6, <1>7, <1>8 DEF Holds, Own

Kept(t) == Moves(t) /\ buys' = buys /\ (t \in Buying' => t \in Buying)

(* A step of a thread that leaves the tables alone keeps the invariant. *)
LEMMA KeptKeeps ==
  ASSUME UnderwritingInv, NEW t \in Threads, Kept(t)
  PROVE  UnderwritingInv'
<1>1. Moves(t) /\ buys' = buys /\ Buying' \subseteq Buying
  BY BuyingKept DEF Kept, Moves
<1>2. Len(policies') = Len(policies)
  BY <1>1 DEF Moves
<1>3. PoliciesCounted' /\ buys' \in 0..MaxPolicies
  BY <1>1, <1>2, PoliciesCountedKept, ThreadFacts
<1>4. QED
  BY <1>1, <1>3, MovesKeep

\* The gate is left, or was not entered.
Outside(t) ==
  RateSound' /\ gate'[t].pc = "out" /\ \A u \in Threads \ {t} : gate'[u] = gate[u]

(* A thread is outside the rate limit unless it is at the gate. *)
LEMMA OutsideAnyway ==
  ASSUME UnderwritingInv, NEW t \in Threads, UNCHANGED clock,
         \/ LeaveGate(t) /\ UNCHANGED <<bucket, passed>>
         \/ job[t].pc # "gate" /\ UNCHANGED rateVars
  PROVE  Outside(t)
<1>1. RateSound /\ (job[t].pc # "gate" => gate[t].pc = "out")
  BY ThreadFacts
<1>2. CASE LeaveGate(t) /\ UNCHANGED <<bucket, passed>>
  BY <1>1, <1>2, GateSteps DEF Outside
<1>3. CASE job[t].pc # "gate" /\ UNCHANGED rateVars
  BY <1>1, <1>3, GateSteps DEF Outside, rateVars
<1>4. QED
  BY <1>2, <1>3

\* An answer ends what a thread knows, unless it says that the policy is valid.
LEMMA AnswerKeeps ==
  ASSUME UnderwritingInv, NEW t \in Threads,
         NEW cover \in {"none", "unchecked", "degraded", "invalid", "valid"}, Answer(t, cover),
         Outside(t), UNCHANGED <<clock, policies, policy_logs, riskVars, buys>>,
         faults' = faults \/ Fault, job[t].pc \in {"log", "log2"} => Fault,
         cover = "valid" => /\ Holds(t) /\ Own(t).status = "active" /\ Own(t).paid
                            /\ Own(t).app.days >= 3 /\ clock >= Own(t).waiting_end
  PROVE  Kept(t)
<1>1. /\ job' \in [Threads -> Job] /\ job'[t].pc = "answered" /\ job'[t].op = "cover"
      /\ job'[t].eval = 0 /\ job'[t].row = job[t].row /\ job'[t].cover = cover
      /\ \A u \in Threads \ {t} : job'[u] = job[u]
  BY AnswerType, ThreadFacts DEF Becomes
<1>2. job[t].row <= Len(policies) /\ Len(evals) \in Nat
  BY ThreadFacts DEF ThreadSound
<1>3. ThreadSound(t)'
  BY <1>1, <1>2 DEF ThreadSound, Outside, Holds, Own, riskVars
<1>4. ~ WillEnter(job'[t]) /\ t \notin Buying'
  BY <1>1 DEF WillEnter, Buying
<1>5. SameBut(t)
  BY <1>1 DEF SameBut, Outside
<1>6. QED
  BY <1>1, <1>3, <1>4, <1>5 DEF Kept, Moves, Outside

\* A step to another point, for which everything it needs is known.
LEMMA ToKeeps ==
  ASSUME UnderwritingInv, NEW t \in Threads, NEW pc \in JobPoints, To(t, pc), Outside(t),
         UNCHANGED <<clock, policies, policy_logs, riskVars, buys>>,
         faults' = faults \/ Fault, job[t].pc \notin {"log", "log2"}, ThreadSound(t)',
         pc \in {"resolve", "risk", "wait", "insert"} => t \in Buying, pc # "gate",
         pc \notin {"save", "log", "save2", "log2"}
           \/ WillEnter(job[t]) \/ policies[job[t].row].status = "waiting_period",
         pc \in {"refreshed", "fraud"} => WillEnter(job[t]) \/ job[t].seen = "active"
  PROVE  Kept(t)
<1>1. /\ job' \in [Threads -> Job] /\ job'[t].pc = pc /\ job'[t].op = job[t].op
      /\ job'[t].row = job[t].row /\ job'[t].seen = job[t].seen
      /\ \A u \in Threads \ {t} : job'[u] = job[u]
  BY ToType, ThreadFacts DEF Becomes
<1>2. SameBut(t)
  BY <1>1 DEF SameBut, Outside
<1>3. t \in Buying' => t \in Buying
  BY <1>1 DEF Buying
<1>4. WillEnter(job'[t]) =>
        \/ WillEnter(job[t]) /\ job[t].row = job'[t].row
        \/ policies[job'[t].row].status = "waiting_period"
  BY <1>1 DEF WillEnter
<1>5. QED
  BY <1>1, <1>2, <1>3, <1>4 DEF Kept, Moves, Outside

\* What a step to another point leaves as it was.
LEMMA ToFacts ==
  ASSUME UnderwritingInv, NEW t \in Threads, NEW pc \in JobPoints, To(t, pc), Outside(t),
         UNCHANGED <<clock, policies, riskVars>>
  PROVE  /\ job'[t].pc = pc /\ job'[t].op = job[t].op /\ job'[t].app = job[t].app
         /\ job'[t].eval = job[t].eval /\ job'[t].mult = job[t].mult /\ job'[t].row = job[t].row
         /\ job'[t].seen = job[t].seen /\ gate'[t].pc = "out"
         /\ Holds(t)' = Holds(t) /\ Own(t)' = Own(t) /\ clock' = clock /\ Len(policies') = Len(policies)
         /\ evals' = evals /\ predictions' = predictions /\ ThreadSound(t)
<1>1. /\ job'[t].pc = pc /\ job'[t].op = job[t].op /\ job'[t].app = job[t].app
      /\ job'[t].eval = job[t].eval /\ job'[t].mult = job[t].mult /\ job'[t].row = job[t].row
      /\ job'[t].seen = job[t].seen
  BY ToType, ThreadFacts
<1>2. QED
  BY <1>1, ThreadFacts DEF Holds, Own, Outside, riskVars

(* The choice of the zone leaves the tables alone. *)
LEMMA ResolveZoneKeeps ==
  ASSUME UnderwritingInv, NEW t \in Threads, ResolveZone(t)
  PROVE  Kept(t)
<1>1. /\ job[t].pc = "resolve" /\ To(t, "risk") /\ UNCHANGED <<clock, riskVars, faults, rateVars, buys>>
      /\ UNCHANGED <<policies, policy_logs>>
  BY DEF ResolveZone, At, quiet, apart, counters, tableVars
<1>2. Outside(t) /\ "risk" \in JobPoints
  BY <1>1, OutsideAnyway DEF JobPoints
<1>3. ThreadSound(t)'
  BY <1>1, <1>2, ToFacts DEF ThreadSound
<1>4. t \in Buying
  BY <1>1, ThreadFacts DEF ThreadSound, Buying
<1>5. QED
  BY <1>1, <1>2, <1>3, <1>4, ToKeeps

(* A risk service that does not answer leaves the tables alone. *)
LEMMA RiskUnknownKeeps ==
  ASSUME UnderwritingInv, NEW t \in Threads, RiskUnknown(t)
  PROVE  Kept(t)
<1>1. /\ job[t].pc = "wait" /\ To(t, "insert") /\ UNCHANGED <<clock, riskVars, rateVars, buys>>
      /\ UNCHANGED <<policies, policy_logs>> /\ (faults' = faults \/ Fault)
  BY DEF RiskUnknown, At, counters, tableVars
<1>2. Outside(t) /\ "insert" \in JobPoints
  BY <1>1, OutsideAnyway DEF JobPoints
<1>3. job'[t].mult = 100 /\ job[t].op = "buy"
  BY <1>1, <1>2, ToFacts DEF ThreadSound
<1>4. Explained(job[t].app.zone, job[t].mult)'
  BY <1>3 DEF Explained, Backed
<1>5. ThreadSound(t)'
  BY <1>1, <1>2, <1>3, <1>4, ToFacts DEF ThreadSound
<1>6. t \in Buying
  BY <1>1, <1>3 DEF Buying
<1>7. QED
  BY <1>1, <1>2, <1>5, <1>6, ToKeeps

(* The answer to a read leaves the tables alone. *)
LEMMA GetAnsweredKeeps ==
  ASSUME UnderwritingInv, NEW t \in Threads, GetAnswered(t)
  PROVE  Kept(t)
<1>1. /\ job[t].pc = "refreshed" /\ To(t, "found") /\ UNCHANGED <<clock, riskVars, faults, rateVars, buys>>
      /\ UNCHANGED <<policies, policy_logs>>
  BY DEF GetAnswered, At, quiet, apart, counters, tableVars
<1>2. Outside(t) /\ "found" \in JobPoints
  BY <1>1, OutsideAnyway DEF JobPoints
<1>3. ThreadSound(t)'
  BY <1>1, <1>2, ToFacts DEF ThreadSound
<1>4. QED
  BY <1>1, <1>2, <1>3, ToKeeps

\* The policy is checked for activity and its waiting period, and stays so.
LEMMA CheckPolicyKeeps ==
  ASSUME UnderwritingInv, NEW t \in Threads, CheckPolicy(t)
  PROVE  Kept(t)
<1>1. /\ job[t].pc = "refreshed" /\ UNCHANGED <<clock, riskVars, faults, rateVars, buys>>
      /\ UNCHANGED <<policies, policy_logs>>
  BY DEF CheckPolicy, At, quiet, apart, counters, tableVars
<1>2. Outside(t) /\ "fraud" \in JobPoints
  BY <1>1, OutsideAnyway DEF JobPoints
<1>3. CASE Answer(t, "invalid")
  BY <1>1, <1>2, <1>3, AnswerKeeps
<1>4. CASE To(t, "fraud") /\ ~ (Own(t).app.days < 3 \/ clock < Own(t).waiting_end)
  <2>1. Holds(t) /\ Own(t).app \in Applications /\ Own(t).waiting_end \in Nat /\ clock \in Nat
    BY <1>1, ThreadFacts DEF ThreadSound, PolicyRow
  <2>2. Own(t).app.days \in Nat
    BY <2>1, PolicyAssumption
  <2>3. Own(t).app.days >= 3 /\ clock >= Own(t).waiting_end
    BY <1>4, <2>1, <2>2
  <2>4. ThreadSound(t)'
    BY <1>1, <1>2, <1>4, <2>3, ToFacts DEF ThreadSound
  <2>5. WillEnter(job[t]) \/ job[t].seen = "active"
    BY <1>1, ThreadFacts DEF WillEnter, Job, Status
  <2>6. QED
    BY <1>1, <1>2, <1>4, <2>4, <2>5, ToKeeps
<1>5. QED
  BY <1>3, <1>4 DEF CheckPolicy, Own

(* The answer of the fraud service leaves the tables alone. *)
LEMMA FraudAnswersKeeps ==
  ASSUME UnderwritingInv, NEW t \in Threads, FraudAnswers(t)
  PROVE  Kept(t)
<1>1. /\ job[t].pc = "fraud" /\ UNCHANGED <<clock, riskVars, faults, rateVars, buys>>
      /\ UNCHANGED <<policies, policy_logs>>
  BY DEF FraudAnswers, At, quiet, apart, counters, tableVars
<1>2. Outside(t) /\ "save2" \in JobPoints
  BY <1>1, OutsideAnyway DEF JobPoints
<1>3. CASE Answer(t, "invalid")
  BY <1>1, <1>2, <1>3, AnswerKeeps
<1>4. CASE Own(t).paid /\ job[t].seen = "waiting_period" /\ To(t, "save2")
  <2>1. ThreadSound(t)'
    BY <1>1, <1>2, <1>4, ToFacts DEF ThreadSound
  <2>2. WillEnter(job[t])
    BY <1>1, <1>4 DEF WillEnter
  <2>3. QED
    BY <1>1, <1>2, <1>4, <2>1, <2>2, ToKeeps
<1>5. CASE Own(t).paid /\ job[t].seen # "waiting_period" /\ Answer(t, "valid")
  <2>1. job[t].seen = "active" /\ ThreadSound(t)
    BY <1>5, ThreadFacts DEF Job, Status
  <2>2. /\ Holds(t) /\ Own(t).status = "active" /\ Own(t).paid
        /\ Own(t).app.days >= 3 /\ clock >= Own(t).waiting_end
    BY <1>1, <1>5, <2>1 DEF ThreadSound
  <2>3. QED
    BY <1>1, <1>2, <1>5, <2>2, AnswerKeeps
<1>6. QED
  BY <1>3, <1>4, <1>5 DEF FraudAnswers, Own

\* Requests that end without a policy being called valid.
LEMMA FailuresKeep ==
  ASSUME UnderwritingInv, NEW t \in Threads,
         TurnedAway(t) \/ ResolveFails(t) \/ AnswerLost(t) \/ StatementFails(t)
  PROVE  Kept(t)
<1>1. CASE TurnedAway(t)
  <2>1. /\ gate[t].pc # "out" /\ LeaveGate(t) /\ UNCHANGED <<bucket, passed, clock, riskVars, faults, buys>>
        /\ UNCHANGED <<policies, policy_logs>> /\ (Answer(t, "unchecked") \/ Answer(t, "degraded"))
    BY <1>1 DEF TurnedAway, apart, counters, tableVars, GateAt
  <2>2. job[t].pc = "gate" /\ Outside(t)
    BY <2>1, ThreadFacts, OutsideAnyway
  <2>3. QED
    BY <2>1, <2>2, AnswerKeeps
<1>2. CASE ResolveFails(t) \/ AnswerLost(t) \/ StatementFails(t)
  <2>1. /\ job[t].pc # "gate" /\ UNCHANGED <<clock, riskVars, rateVars, buys>> /\ Fault
        /\ UNCHANGED <<policies, policy_logs>> /\ (Answer(t, "none") \/ Answer(t, "degraded"))
    BY <1>2 DEF ResolveFails, AnswerLost, StatementFails, At, counters, tableVars
  <2>2. Outside(t)
    BY <2>1, OutsideAnyway
  <2>3. QED
    BY <2>1, <2>2, AnswerKeeps
<1>3. QED
  BY <1>1, <1>2

\* The thread takes a policy that waits for one it may activate, and no other.
LEMMA RefreshKeeps ==
  ASSUME UnderwritingInv, NEW t \in Threads, NEW p \in DOMAIN policies, Refresh(t, p),
         job[t].pc \in {"latest", "find"}, UNCHANGED <<clock, riskVars, faults, rateVars, buys>>,
         UNCHANGED <<policies, policy_logs>>
  PROVE  Kept(t)
<1>1. policies[p] \in PolicyRow /\ p \in Nat /\ p <= Len(policies)
  BY ThreadFacts, PolicyIds
<1>2. policies[p].status \in Status
  BY <1>1 DEF PolicyRow
<1>3. /\ job' \in [Threads -> Job] /\ \A u \in Threads \ {t} : job'[u] = job[u]
      /\ job'[t].pc = IF policies[p].status = "waiting_period" /\ Due(p) THEN "save" ELSE "refreshed"
      /\ job'[t].seen = IF policies[p].status = "waiting_period" /\ Due(p)
                          THEN "active" ELSE policies[p].status
      /\ job'[t].op = job[t].op /\ job'[t].eval = job[t].eval /\ job'[t].row = p
  BY <1>1, <1>2, RefreshType, ThreadFacts DEF Becomes
<1>4. Outside(t)
  BY OutsideAnyway
<1>5. ThreadSound(t) /\ Len(evals) \in Nat /\ evals' = evals
  BY ThreadFacts DEF riskVars
<1>6. Holds(t)' /\ Own(t)' = policies[p]
  BY <1>3 DEF Holds, Own
<1>7. ThreadSound(t)'
  BY <1>1, <1>2, <1>3, <1>4, <1>5, <1>6 DEF ThreadSound, Outside, Status
<1>8. WillEnter(job'[t]) => policies[p].status = "waiting_period"
  BY <1>3 DEF WillEnter
<1>9. t \notin Buying'
  BY <1>3 DEF Buying
<1>10. SameBut(t)
  BY <1>3, <1>4 DEF SameBut, Outside
<1>11. QED
  BY <1>3, <1>4, <1>7, <1>8, <1>9, <1>10 DEF Kept, Moves, Outside

(* A look for a policy leaves the tables alone. *)
LEMMA LooksKeep ==
  ASSUME UnderwritingInv, NEW t \in Threads, GetLatest(t) \/ FindPolicy(t)
  PROVE  Kept(t)
<1>1. /\ job[t].pc \in {"latest", "find"} /\ UNCHANGED <<clock, riskVars, faults, rateVars, buys>>
      /\ UNCHANGED <<policies, policy_logs>>
  BY DEF GetLatest, FindPolicy, At, quiet, apart, counters, tableVars
<1>2. CASE Answer(t, "unchecked")
  BY <1>1, <1>2, OutsideAnyway, AnswerKeeps
<1>3. ASSUME NEW p \in DOMAIN policies, Refresh(t, p)
      PROVE  Kept(t)
  BY <1>1, <1>3, RefreshKeeps
<1>4. GetLatest(t) => Answer(t, "unchecked") \/ \E p \in DOMAIN policies : Refresh(t, p)
  BY DEF GetLatest, Latest
<1>5. FindPolicy(t) => Refresh(t, job[t].row) /\ job[t].row \in DOMAIN policies
  BY ThreadFacts DEF FindPolicy, At, ThreadSound, Holds
<1>6. QED
  BY <1>2, <1>3, <1>4, <1>5

\* A logged score for the zone makes the multiplier.
LEMMA RiskAnswersKeeps ==
  ASSUME UnderwritingInv, NEW t \in Threads, RiskAnswers(t)
  PROVE  Kept(t)
<1> DEFINE k == job[t].eval
           m == Multiplier(ScoreOf(k))
           j == [job[t] EXCEPT !.pc = "insert", !.eval = 0, !.mult = m]
<1>1. /\ job[t].pc = "wait" /\ evals[k].pc = "answered" /\ job' = [job EXCEPT ![t] = j]
      /\ UNCHANGED <<clock, riskVars, faults, rateVars, buys>> /\ UNCHANGED <<policies, policy_logs>>
  BY DEF RiskAnswers, At, quiet, apart, counters, tableVars
<1>2. Outside(t)
  BY <1>1, OutsideAnyway
<1>3. job \in [Threads -> Job] /\ job[t] \in Job /\ ThreadSound(t) /\ Len(evals) \in Nat
  BY ThreadFacts
<1>4. /\ k \in DOMAIN evals /\ evals[k].zone = job[t].app.zone /\ evals[k] \in Evaluation
      /\ k \in predictions
  <2>1. evals \in Seq(Evaluation) /\ k \in Nat
    BY ThreadFacts DEF UnderwritingInv, RiskSound
  <2>2. k \in DOMAIN evals /\ evals[k].zone = job[t].app.zone
    BY <1>1, <1>3, <2>1 DEF ThreadSound
  <2>3. QED
    BY <1>1, <2>1, <2>2 DEF UnderwritingInv, RiskSound
<1>5. m \in Multipliers
  <2>1. evals[k].metrics \in Metrics /\ evals[k].zone \in DOMAIN TrainedScore
    BY <1>4, UnitType DEF Evaluation, Metrics
  <2>2. ScoreOf(k) \in 0..Unit
    BY <2>1, HybridType DEF ScoreOf
  <2>3. QED
    BY <2>2, MultiplierOrdered DEF Multipliers
<1>6. Backed(job[t].app.zone, m, predictions, evals)
  BY <1>4 DEF Backed, ScoreOf
<1> HIDE DEF m
<1>7. j \in Job
  BY <1>3, <1>5 DEF Job, JobPoints
<1>8. /\ j.pc = "insert" /\ j.op = job[t].op /\ j.app = job[t].app /\ j.eval = 0 /\ j.mult = m
      /\ j.row = job[t].row
  BY <1>3 DEF Job
<1> HIDE DEF j
<1>9. job' \in [Threads -> Job] /\ job'[t] = j /\ \A u \in Threads \ {t} : job'[u] = job[u]
  BY <1>1, <1>3, <1>7, UpdateType DEF Becomes
<1>11. ThreadSound(t)'
  <2>1. job[t].op = "buy" /\ job[t].row <= Len(policies)
    BY <1>1, <1>3 DEF ThreadSound
  <2>2. Explained(job[t].app.zone, job[t].mult)'
    BY <1>1, <1>6, <1>8, <1>9 DEF Explained, riskVars
  <2>3. QED
    BY <1>1, <1>2, <1>3, <1>8, <1>9, <2>1, <2>2 DEF ThreadSound, Outside, riskVars
<1>12. t \in Buying /\ ~ WillEnter(job'[t])
  BY <1>1, <1>3, <1>8, <1>9 DEF Buying, ThreadSound, WillEnter
<1>13. SameBut(t)
  BY <1>2, <1>9 DEF SameBut, Outside
<1>14. QED
  BY <1>1, <1>2, <1>9, <1>11, <1>12, <1>13 DEF Kept, Moves, Outside

\* Enforcing the limit moves the thread in the gate only.
LEMMA InGateKeeps ==
  ASSUME UnderwritingInv, NEW t \in Threads, InGate(t)
  PROVE  Kept(t)
<1>1. /\ EnforceRateLimit(t) /\ UNCHANGED <<clock, riskVars, faults, policies, policy_logs, job, buys>>
  BY DEF InGate, apart, policyVars, tableVars, counters
<1>2. ThreadSound(t) /\ RateSound /\ job \in [Threads -> Job]
  BY ThreadFacts
<1>3. RateSound' /\ gate[t].pc # "out" /\ \A u \in Threads \ {t} : gate'[u] = gate[u]
  BY <1>1, <1>2, EnforceKeeps
<1>4. job[t].pc = "gate" /\ job'[t] = job[t]
  BY <1>1, <1>2, <1>3 DEF ThreadSound
<1>5. ThreadSound(t)'
  BY <1>1, <1>2, <1>4 DEF ThreadSound, Holds, Own, riskVars
<1>6. SameBut(t) /\ ~ WillEnter(job'[t]) /\ Buying' = Buying
  BY <1>1, <1>3, <1>4 DEF SameBut, WillEnter, Buying
<1>7. QED
  BY <1>1, <1>2, <1>3, <1>4, <1>5, <1>6 DEF Kept, Moves

(* A request the rate limit lets through leaves the tables alone. *)
LEMMA PassGateKeeps ==
  ASSUME UnderwritingInv, NEW t \in Threads, PassGate(t)
  PROVE  Kept(t)
<1> DEFINE pc == FirstStep(job[t])
<1>1. /\ gate[t].pc # "out" /\ LeaveGate(t) /\ To(t, pc)
      /\ UNCHANGED <<clock, riskVars, faults, bucket, passed, policies, policy_logs, buys>>
  BY DEF PassGate, GateAt, apart, tableVars, counters
<1>2. job[t].pc = "gate" /\ Outside(t) /\ job[t] \in Job
  BY <1>1, ThreadFacts, OutsideAnyway
<1>3. /\ pc \in {"risk", "resolve", "find", "latest"}
      /\ pc \in {"risk", "resolve"} <=> job[t].op = "buy"
      /\ pc = "find" <=> job[t].op = "validate"
  BY <1>2 DEF FirstStep, Job
<1> HIDE DEF pc
<1>4. pc \in JobPoints
  BY <1>3 DEF JobPoints
<1>5. ThreadSound(t)'
  BY <1>1, <1>2, <1>3, <1>4, ToFacts DEF ThreadSound
<1>6. job[t].op = "buy" => t \in Buying
  BY <1>2 DEF Buying
<1>7. QED
  BY <1>1, <1>2, <1>3, <1>4, <1>5, <1>6, ToKeeps

(* The start of a validation leaves the tables alone. *)
LEMMA BeginValidateKeeps ==
  ASSUME UnderwritingInv, NEW t \in Threads, BeginValidate(t)
  PROVE  Kept(t)
<1> DEFINE j == [job[t] EXCEPT !.pc = "gate", !.op = "validate"]
<1>1. /\ job[t].pc = "found" /\ job' = [job EXCEPT ![t] = j] /\ EnterGate(t)
      /\ UNCHANGED <<clock, riskVars, faults, policies, policy_logs, buys>>
  BY DEF BeginValidate, At, apart, tableVars
<1>2. job \in [Threads -> Job] /\ job[t] \in Job /\ ThreadSound(t) /\ RateSound
  BY ThreadFacts
<1>3. RateSound' /\ \A u \in Threads \ {t} : gate'[u] = gate[u]
  BY <1>1, <1>2, GateSteps
<1>4. j \in Job /\ j.pc = "gate" /\ j.op = "validate" /\ j.eval = job[t].eval /\ j.row = job[t].row
  BY <1>2 DEF Job, JobPoints
<1> HIDE DEF j
<1>5. job' \in [Threads -> Job] /\ job'[t] = j /\ \A u \in Threads \ {t} : job'[u] = job[u]
  BY <1>1, <1>2, <1>4, UpdateType DEF Becomes
<1>6. ThreadSound(t)'
  BY <1>1, <1>2, <1>4, <1>5 DEF ThreadSound, Holds, riskVars
<1>7. SameBut(t) /\ ~ WillEnter(job'[t]) /\ t \notin Buying'
  BY <1>3, <1>4, <1>5 DEF SameBut, WillEnter, Buying
<1>8. QED
  BY <1>1, <1>3, <1>5, <1>6, <1>7 DEF Kept, Moves

\* A request begins; one to buy is counted, so that its policy has its place.
LEMMA BeginKeeps ==
  ASSUME UnderwritingInv, NEW t \in Threads, NEW op \in {"cover", "buy"}, NEW app \in Applications,
         Begin(t, op, app)
  PROVE  UnderwritingInv'
<1> DEFINE j == [NoJob EXCEPT !.pc = "gate", !.op = op, !.app = app]
<1>1. /\ job[t].pc \in {"idle", "answered"} /\ job' = [job EXCEPT ![t] = j] /\ EnterGate(t)
      /\ UNCHANGED <<clock, riskVars, faults, policies, policy_logs>>
      /\ op = "buy" => buys < MaxPolicies
      /\ buys' = IF op = "buy" THEN buys + 1 ELSE buys
  BY DEF Begin, apart, tableVars
<1>2. /\ job \in [Threads -> Job] /\ RateSound /\ buys \in 0..MaxPolicies
      /\ Len(policies) \in Nat /\ Len(evals) \in Nat /\ MaxPolicies \in Nat
  BY ThreadFacts, PolicyAssumption
<1>3. RateSound' /\ \A u \in Threads \ {t} : gate'[u] = gate[u]
  BY <1>1, <1>2, GateSteps
<1>4. j \in Job /\ j.pc = "gate" /\ j.op = op /\ j.eval = 0 /\ j.row = 0 /\ j.mult = 100
  BY NoJobType DEF Job, JobPoints
<1> HIDE DEF j
<1>5. job' \in [Threads -> Job] /\ job'[t] = j /\ \A u \in Threads \ {t} : job'[u] = job[u]
  BY <1>1, <1>2, <1>4, UpdateType DEF Becomes
<1>6. ThreadSound(t)'
  BY <1>1, <1>2, <1>4, <1>5 DEF ThreadSound, riskVars
<1>7. SameBut(t) /\ ~ WillEnter(job'[t])
  BY <1>3, <1>4, <1>5 DEF SameBut, WillEnter
<1>8. Moves(t)
  BY <1>1, <1>3, <1>5, <1>6, <1>7 DEF Moves
<1>9. buys' \in 0..MaxPolicies
  BY <1>1, <1>2
<1>10. PoliciesCounted'
  <2>1. CASE op = "cover"
    <3>1. t \notin Buying' /\ buys' = buys /\ Len(policies') = Len(policies)
      BY <1>1, <1>4, <1>5, <2>1 DEF Buying
    <3>2. QED
      BY <1>7, <3>1, BuyingKept, PoliciesCountedKept
  <2>2. CASE op = "buy"
    <3>1. Buying' = Buying \cup {t}
      BY <1>1, <1>4, <1>5, <2>2 DEF Buying
    <3>2. IsFiniteSet(Buying) /\ Cardinality(Buying) \in Nat /\ Len(policies) + Cardinality(Buying) <= buys
      BY PolicyIds DEF UnderwritingInv, PoliciesCounted
    <3>3. Cardinality(Buying') <= Cardinality(Buying) + 1 /\ Cardinality(Buying') \in Nat
      <4>1. Cardinality(Buying \cup {t}) = IF t \in Buying THEN Cardinality(Buying) ELSE Cardinality(Buying) + 1
        BY <3>2, FS_AddElement
      <4>2. QED
        BY <3>1, <3>2, <4>1
    <3>4. QED
      BY <1>1, <1>2, <2>2, <3>2, <3>3 DEF PoliciesCounted
  <2>3. QED
    BY <2>1, <2>2
<1>11. QED
  BY <1>8, <1>9, <1>10, MovesKeep

-----------------------------------------------------------------------------
(* The steps that change the tables.                                       *)

\* The invariant after a step of thread t that changes the tables, or starts an
\* evaluation: what the parts are that have to be shown.
LEMMA PartsKeep ==
  ASSUME UnderwritingInv, NEW t \in Threads, Growth, RateSound', RiskSound', PolicyTables',
         SameBut(t), ThreadSound(t)', PoliciesPriced', PoliciesCounted', ActivationsCounted'
  PROVE  UnderwritingInv'
<1>1. clock' \in Int /\ Len(policies') \in Nat /\ Len(evals') \in Nat
  BY DEF RateSound, RateTypeOK, RiskSound, PolicyTables
<1>2. \A u \in Threads : ThreadSound(u)'
  BY <1>1, ThreadsKept
<1>3. QED
  BY <1>2 DEF UnderwritingInv

\* Starting an evaluation keeps the ones there are.
LEMMA StartEvalKeeps ==
  ASSUME UnderwritingInv, NEW zone \in DOMAIN TrainedScore, NEW metrics \in [Features -> Nat],
         StartEval(zone, metrics), UNCHANGED <<clock, faults, policies>>
  PROVE  /\ RiskSound' /\ Growth /\ Len(evals') = Len(evals) + 1
         /\ evals'[Len(evals) + 1].zone = zone
<1> DEFINE e == NewEval(zone, metrics)
<1>1. /\ bundle \in Models /\ evals \in Seq(Evaluation) /\ faults \in 0..MaxFaults
      /\ predictions = {k \in DOMAIN evals : evals[k].pc = "answered"}
  BY DEF UnderwritingInv, RiskSound
<1>2. evals' = Append(evals, e) /\ UNCHANGED <<bundle, predictions>>
  BY DEF StartEval
<1>3. e \in Evaluation /\ e.zone = zone /\ e.pc # "answered"
  <2>1. [f \in Features |-> Normalized(metrics[f])] \in [Features -> 0..Unit]
    BY NormalizedType
  <2>2. QED
    BY <1>1, <2>1 DEF NewEval, Evaluation, Models
<1> HIDE DEF e
<1>4. /\ evals' \in Seq(Evaluation) /\ Len(evals') = Len(evals) + 1 /\ evals'[Len(evals) + 1] = e
      /\ \A k \in DOMAIN evals : evals'[k] = evals[k]
      /\ DOMAIN evals' = DOMAIN evals \cup {Len(evals) + 1}
  BY <1>1, <1>2, <1>3
<1>5. predictions' = {k \in DOMAIN evals' : evals'[k].pc = "answered"}
  BY <1>1, <1>2, <1>3, <1>4
<1>6. RiskSound'
  BY <1>1, <1>2, <1>4, <1>5 DEF RiskSound
<1>7. Growth
  <2>1. clock \in Int /\ Len(policies) \in Int /\ Len(evals) \in Int
    BY <1>1 DEF UnderwritingInv, RateSound, RateTypeOK, PolicyTables
  <2>2. QED
    BY <1>1, <1>2, <1>4, <2>1 DEF Growth
<1>8. QED
  BY <1>3, <1>4, <1>6, <1>7

\* The entries of every policy while none is made and no thread begins to activate one.
LEMMA ActivationsKept ==
  ASSUME UnderwritingInv, NEW t \in Threads, SameBut(t), UNCHANGED <<policies, policy_logs>>,
         ~ WillEnter(job'[t]), job[t].pc \notin {"log", "log2"}, faults > 0 => faults' > 0
  PROVE  ActivationsCounted'
<1>1. ASSUME NEW p \in DOMAIN policies PROVE EntriesCounted(p)'
  <2>1. Activating(p)' \subseteq Activating(p)
    BY DEF SameBut, Activating
  <2>2. LoggingNow(p) => LoggingNow(p)'
    BY DEF SameBut, LoggingNow
  <2>3. QED
    BY <2>1, <2>2, EntriesKept
<1>2. QED
  BY <1>1 DEF UnderwritingInv, ActivationsCounted

(* The question to the risk service keeps the invariant. *)
LEMMA AskRiskKeeps ==
  ASSUME UnderwritingInv, NEW t \in Threads, AskRisk(t)
  PROVE  UnderwritingInv'
<1> DEFINE j == [job[t] EXCEPT !.pc = "wait", !.eval = Len(evals) + 1]
           zone == job[t].app.zone
<1>1. /\ job[t].pc = "risk" /\ StartEval(zone, PolicyMetrics) /\ job' = [job EXCEPT ![t] = j]
      /\ UNCHANGED <<clock, faults, rateVars, policies, policy_logs, buys>>
  BY DEF AskRisk, At, tableVars, counters
<1>2. /\ job \in [Threads -> Job] /\ job[t] \in Job /\ ThreadSound(t) /\ RateSound
      /\ Len(policies) \in Nat /\ Len(evals) \in Nat /\ buys \in 0..MaxPolicies
  BY ThreadFacts
<1>3. zone \in DOMAIN TrainedScore
  BY <1>2, PolicyAssumption DEF Job
<1>4. PolicyMetrics \in [Features -> Nat]
  BY DEF PolicyMetrics, Features
<1>5. RiskSound' /\ Growth /\ Len(evals') = Len(evals) + 1 /\ evals'[Len(evals) + 1].zone = zone
  BY <1>1, <1>3, <1>4, StartEvalKeeps
<1>6. /\ j \in Job /\ j.pc = "wait" /\ j.eval = Len(evals) + 1 /\ j.op = job[t].op
      /\ j.row = job[t].row /\ j.app = job[t].app /\ j.mult = job[t].mult
  <2> DEFINE n == Len(evals) + 1
  <2>1. n \in Nat
    BY <1>2
  <2> HIDE DEF n
  <2>2. j \in Job
    BY <1>2, <2>1 DEF Job, JobPoints, n
  <2>3. /\ j.pc = "wait" /\ j.eval = n /\ j.op = job[t].op
        /\ j.row = job[t].row /\ j.app = job[t].app /\ j.mult = job[t].mult
    BY <1>2 DEF Job, n
  <2>4. QED
    BY <2>2, <2>3 DEF n
<1> HIDE DEF j
<1>7. job' \in [Threads -> Job] /\ job'[t] = j /\ \A u \in Threads \ {t} : job'[u] = job[u]
  BY <1>1, <1>2, <1>6, UpdateType DEF Becomes
<1>8. Outside(t)
  BY <1>1, OutsideAnyway
<1>9. ThreadSound(t)'
  <2>1. job[t].op = "buy" /\ job[t].mult = 100 /\ job[t].row <= Len(policies)
    BY <1>1, <1>2 DEF ThreadSound
  <2>2. Len(evals) + 1 <= Len(evals') /\ Len(policies') = Len(policies) /\ gate'[t].pc = "out"
    BY <1>1, <1>2, <1>5, <1>8 DEF Outside
  <2>3. evals'[j.eval].zone = j.app.zone /\ j.eval > 0
    BY <1>2, <1>5, <1>6
  <2>4. QED
    BY <1>6, <1>7, <2>1, <2>2, <2>3 DEF ThreadSound
<1>10. SameBut(t)
  BY <1>7, <1>8 DEF SameBut, Outside
<1>11. PolicyTables' /\ RateSound'
  BY <1>1, <1>7, <1>8 DEF UnderwritingInv, PolicyTables, Outside
<1>12. PoliciesPriced'
  BY <1>1, <1>5, PricedKept DEF UnderwritingInv
<1>13. PoliciesCounted'
  <2>1. t \in Buying
    BY <1>1, <1>2 DEF Buying, ThreadSound
  <2>2. QED
    BY <1>1, <1>10, <2>1, BuyingKept, PoliciesCountedKept
<1>14. ActivationsCounted'
  BY <1>1, <1>6, <1>7, <1>10, ActivationsKept DEF WillEnter
<1>15. QED
  BY <1>5, <1>9, <1>10, <1>11, <1>12, <1>13, <1>14, PartsKeep

\* Steps that are no policy thread's: the clock and the ai-risk service.
LEMMA AsideKeeps ==
  ASSUME UnderwritingInv, Growth, RateSound', RiskSound', faults > 0 => faults' > 0,
         UNCHANGED <<job, gate, policies, policy_logs, buys>>
  PROVE  UnderwritingInv'
<1>1. PolicyTables' /\ PoliciesPriced'
  BY PricedKept DEF UnderwritingInv, PolicyTables
<1>2. clock' \in Int /\ Len(policies') \in Nat /\ Len(evals') \in Nat
  BY <1>1 DEF RateSound, RateTypeOK, RiskSound, PolicyTables
<1>3. \A u \in Threads : ThreadSound(u)'
  BY <1>2, ThreadKept
<1>4. PoliciesCounted'
  BY DEF UnderwritingInv, PoliciesCounted, Buying
<1>5. ASSUME NEW p \in DOMAIN policies PROVE EntriesCounted(p)'
  <2>1. Activating(p)' = Activating(p) /\ LoggingNow(p)' = LoggingNow(p)
    BY DEF Activating, LoggingNow
  <2>2. QED
    BY <2>1, EntriesKept
<1>6. ActivationsCounted'
  BY <1>5 DEF UnderwritingInv, ActivationsCounted
<1>7. QED
  BY <1>1, <1>3, <1>4, <1>6 DEF UnderwritingInv

(* A step of the risk service keeps its part of the invariant and takes nothing back. *)
LEMMA RiskStepKeeps ==
  ASSUME UnderwritingInv, NEW k \in DOMAIN evals, RiskStep(k), UNCHANGED <<clock, policies>>
  PROVE  RiskSound' /\ Growth /\ (faults > 0 => faults' > 0)
<1>1. /\ bundle \in Models /\ evals \in Seq(Evaluation) /\ faults \in 0..MaxFaults
      /\ predictions = {n \in DOMAIN evals : evals[n].pc = "answered"}
  BY DEF UnderwritingInv, RiskSound
<1>2. faults' \in 0..MaxFaults /\ (faults > 0 => faults' > 0)
  <2>1. faults' = faults \/ Fault
    BY DEF RiskStep, LoadModel, LoadFallback, LogPrediction, LogFails
  <2>2. QED
    BY <2>1, FaultCounted
<1>3. evals[k] \in Evaluation
  BY <1>1
<1>4. PICK e \in Evaluation :
        /\ evals' = [evals EXCEPT ![k] = e] /\ e.zone = evals[k].zone /\ evals[k].pc # "answered"
        /\ bundle' \in Models
        /\ predictions' = IF e.pc = "answered" THEN predictions \cup {k} ELSE predictions
  <2>1. CASE LoadModel(k) \/ LoadFallback(k)
    <3>1. PICK model \in {"trained", "fallback"} : LoadBundle(k, model)
      BY <2>1 DEF LoadModel, LoadFallback
    <3> DEFINE e == [evals[k] EXCEPT !.pc = "log", !.model = model]
    <3>2. /\ evals' = [evals EXCEPT ![k] = e] /\ evals[k].pc # "answered" /\ bundle' \in Models
          /\ predictions' = predictions
      BY <3>1 DEF LoadBundle, EvalAt, Models
    <3>3. e \in Evaluation /\ e.zone = evals[k].zone /\ e.pc = "log"
      BY <1>3 DEF Evaluation, Models
    <3> HIDE DEF e
    <3>4. QED
      BY <3>2, <3>3
  <2>2. CASE LogPrediction(k) \/ LogFails(k)
    <3>1. PICK pc \in {"answered", "error"} :
            /\ evals' = [evals EXCEPT ![k].pc = pc] /\ evals[k].pc # "answered" /\ bundle' \in Models
            /\ predictions' = IF pc = "answered" THEN predictions \cup {k} ELSE predictions
      BY <1>1, <2>2 DEF LogPrediction, LogFails, EvalAt
    <3> DEFINE e == [evals[k] EXCEPT !.pc = pc]
    <3>2. evals' = [evals EXCEPT ![k] = e]
      BY <3>1
    <3>3. e \in Evaluation /\ e.zone = evals[k].zone /\ e.pc = pc
      BY <1>3 DEF Evaluation
    <3> HIDE DEF e
    <3>4. QED
      BY <3>1, <3>2, <3>3
  <2>3. QED
    BY <2>1, <2>2 DEF RiskStep
<1>5. /\ evals' \in Seq(Evaluation) /\ DOMAIN evals' = DOMAIN evals /\ evals'[k] = e
      /\ Len(evals') = Len(evals)
      /\ \A n \in DOMAIN evals \ {k} : evals'[n] = evals[n]
  BY <1>1, <1>4
<1>6. predictions' = {n \in DOMAIN evals' : evals'[n].pc = "answered"}
  BY <1>1, <1>4, <1>5
<1>7. RiskSound'
  BY <1>2, <1>4, <1>5, <1>6 DEF RiskSound
<1>8. Growth
  <2>1. clock \in Int /\ Len(policies) \in Int /\ Len(evals) \in Int
    BY <1>1 DEF UnderwritingInv, RateSound, RateTypeOK, PolicyTables
  <2>2. k \notin predictions
    BY <1>1, <1>4
  <2>3. QED
    BY <1>1, <1>4, <1>5, <2>1, <2>2 DEF Growth
<1>9. QED
  BY <1>2, <1>7, <1>8

(* A premium is a natural number. *)
LEMMA PremiumType ==
  ASSUME NEW a \in Applications, NEW r \in Multipliers
  PROVE  TotalPremium(a.income, a.zone, a.week, r) \in Nat
<1>1. a.income \in Nat /\ a.zone \in Zones /\ a.week \in Nat /\ r \in Nat
  BY PolicyAssumption, MultipliersType
<1>2. ZoneRate[a.zone] \in Nat /\ StabilizationFactor(a.week) \in Nat
  BY <1>1 DEF ZoneRate, Zones, StabilizationFactor
<1>3. a.income * ZoneRate[a.zone] \in Nat
  BY <1>1, <1>2, ProductMonotone
<1>4. a.income * ZoneRate[a.zone] * StabilizationFactor(a.week) \in Nat
  <2> DEFINE n == a.income * ZoneRate[a.zone]
  <2> HIDE DEF n
  <2> QED BY <1>2, <1>3, ProductMonotone DEF n
<1> DEFINE n == a.income * ZoneRate[a.zone] * StabilizationFactor(a.week)
<1>5. n * r \in Nat
  <2> HIDE DEF n
  <2> QED BY <1>1, <1>4, ProductMonotone DEF n
<1>6. \A k \in Nat : RoundHalfUp(k, 400000) \in Nat /\ RoundHalfUp(18 * k, 100) \in Nat
  BY DEF RoundHalfUp
<1>7. BasePremium(a.income, a.zone, a.week, r) \in Nat
  BY <1>5, <1>6 DEF BasePremium
<1>8. Gst(BasePremium(a.income, a.zone, a.week, r)) \in Nat
  BY <1>6, <1>7 DEF Gst
<1>9. QED
  BY <1>7, <1>8 DEF TotalPremium

\* The policy takes the place that was counted for it, waits and has no entry yet.
LEMMA InsertPolicyKeeps ==
  ASSUME UnderwritingInv, NEW t \in Threads, InsertPolicy(t)
  PROVE  UnderwritingInv'
<1> DEFINE a == job[t].app
           r == job[t].mult
           n == Len(policies) + 1
           row == [status |-> "waiting_period", app |-> a, risk |-> r, paid |-> a.paid,
                   premium |-> TotalPremium(a.income, a.zone, a.week, r),
                   created |-> clock, waiting_end |-> clock + Waiting]
           j == [job[t] EXCEPT !.pc = "created", !.row = n]
<1>1. /\ job[t].pc = "insert" /\ policies' = Append(policies, row) /\ job' = [job EXCEPT ![t] = j]
      /\ UNCHANGED <<clock, riskVars, faults, rateVars, buys, policy_logs>>
  BY DEF InsertPolicy, At, quiet, apart, counters
<1>2. /\ job \in [Threads -> Job] /\ job[t] \in Job /\ ThreadSound(t) /\ RateSound
      /\ Len(policies) \in Nat /\ Len(evals) \in Nat /\ buys \in 0..MaxPolicies /\ clock \in Nat
      /\ \A p \in DOMAIN policies : policies[p] \in PolicyRow
  BY ThreadFacts
<1>3. t \in Buying /\ Explained(a.zone, r)
  BY <1>1, <1>2 DEF ThreadSound, Buying
<1>4. n \in 1..MaxPolicies /\ DOMAIN policies = 1..Len(policies)
  BY <1>3, PolicyIds
<1>5. row \in PolicyRow
  <2>1. a \in Applications /\ r \in Multipliers
    BY <1>2 DEF Job
  <2>2. TotalPremium(a.income, a.zone, a.week, r) \in Nat
    BY <2>1, PremiumType
  <2>3. a.paid \in BOOLEAN /\ clock + Waiting \in Nat
    BY <1>2, <2>1, PolicyAssumption
  <2> HIDE DEF a, r
  <2>4. QED
    BY <1>2, <2>1, <2>2, <2>3 DEF PolicyRow, Status
<1>6. /\ row.status = "waiting_period" /\ row.app = a /\ row.risk = r
      /\ row.premium = TotalPremium(a.income, a.zone, a.week, r)
  OBVIOUS
<1> HIDE DEF row
<1>7. /\ policies' \in Seq(PolicyRow) /\ Len(policies') = n /\ policies'[n] = row
      /\ \A p \in DOMAIN policies : policies'[p] = policies[p]
      /\ DOMAIN policies' = DOMAIN policies \cup {n}
  <2>1. policies \in Seq(PolicyRow)
    BY DEF UnderwritingInv, PolicyTables
  <2>2. QED
    BY <1>1, <1>5, <2>1
<1>8. j \in Job /\ j.pc = "created" /\ j.row = n /\ j.eval = job[t].eval
  <2>1. n \in Nat
    BY <1>2
  <2> HIDE DEF n
  <2>2. j \in Job
    BY <1>2, <2>1 DEF Job, JobPoints
  <2>3. QED
    BY <1>2, <2>2 DEF Job
<1> HIDE DEF j
<1>9. job' \in [Threads -> Job] /\ job'[t] = j /\ \A u \in Threads \ {t} : job'[u] = job[u]
  BY <1>1, <1>2, <1>8, UpdateType DEF Becomes
<1>10. Outside(t)
  BY <1>1, OutsideAnyway
<1>11. SameBut(t)
  BY <1>9, <1>10 DEF SameBut, Outside
<1>12. Growth
  <2>1. predictions \subseteq DOMAIN evals
    BY DEF UnderwritingInv, RiskSound
  <2>2. QED
    BY <1>1, <1>2, <1>7, <2>1 DEF Growth, riskVars
<1>13. RiskSound' /\ PolicyTables' /\ RateSound'
  BY <1>1, <1>7, <1>9, <1>10 DEF UnderwritingInv, RiskSound, PolicyTables, Outside, riskVars
<1>14. ThreadSound(t)'
  <2>1. job[t].eval <= Len(evals') /\ n <= Len(policies') /\ n \in DOMAIN policies'
    BY <1>1, <1>2, <1>7 DEF ThreadSound, riskVars
  <2>2. QED
    BY <1>8, <1>9, <1>10, <2>1 DEF ThreadSound, Outside, Holds
<1>15. PoliciesPriced'
  <2>1. ASSUME NEW p \in DOMAIN policies'
        PROVE  LET b == policies'[p].app IN
                 /\ policies'[p].premium = TotalPremium(b.income, b.zone, b.week, policies'[p].risk)
                 /\ Backed(b.zone, policies'[p].risk, predictions', evals')
    <3>1. CASE p = n
      BY <1>1, <1>3, <1>6, <1>7, <3>1 DEF Explained, riskVars
    <3>2. CASE p \in DOMAIN policies
      BY <1>1, <1>7, <3>2 DEF UnderwritingInv, PoliciesPriced, Explained, riskVars
    <3>3. QED
      BY <1>7, <3>1, <3>2
  <2>2. QED
    BY <2>1 DEF PoliciesPriced, Explained
<1>16. PoliciesCounted'
  <2>1. Buying' = Buying \ {t}
    BY <1>8, <1>9 DEF Buying
  <2>2. IsFiniteSet(Buying) /\ Cardinality(Buying) \in Nat /\ Len(policies) + Cardinality(Buying) <= buys
    BY PolicyIds DEF UnderwritingInv, PoliciesCounted
  <2>3. Cardinality(Buying \ {t}) = IF t \in Buying THEN Cardinality(Buying) - 1 ELSE Cardinality(Buying)
    BY <2>2, FS_RemoveElement
  <2>4. Cardinality(Buying') = Cardinality(Buying) - 1
    BY <1>3, <2>1, <2>3
  <2>5. QED
    BY <1>1, <1>2, <1>7, <2>2, <2>4 DEF PoliciesCounted
<1>17. ActivationsCounted'
  <2>1. ASSUME NEW p \in DOMAIN policies PROVE EntriesCounted(p)'
    <3>1. Activating(p)' \subseteq Activating(p)
      BY <1>8, <1>9 DEF Activating, WillEnter
    <3>2. LoggingNow(p) => LoggingNow(p)'
      BY <1>1, <1>9 DEF LoggingNow
    <3>3. QED
      BY <1>1, <1>7, <3>1, <3>2, EntriesKept
  <2>2. policy_logs[n].active = 0
    BY <1>2, <1>4 DEF UnderwritingInv, ActivationsCounted
  <2>3. ASSUME NEW p, p = n PROVE EntriesCounted(p)'
    <3>1. Activating(p)' = {}
      <4>1. ASSUME NEW u \in Threads, u # t PROVE job'[u].row # p
        <5>1. job[u].row <= Len(policies) /\ job[u].row \in Nat
          BY ThreadFacts DEF ThreadSound
        <5>2. QED
          BY <1>2, <1>9, <2>3, <4>1, <5>1
      <4>2. ~ WillEnter(job'[t])
        BY <1>8, <1>9 DEF WillEnter
      <4>3. QED
        BY <4>1, <4>2 DEF Activating
    <3>2. Cardinality({}) = 0 /\ Cardinality(Threads) \in Nat
      BY RateAssumption, FS_EmptySet, FS_CardinalityType
    <3>3. Cardinality(Activating(p)') = 0
      BY <3>1, <3>2
    <3>4. policies'[p].status = "waiting_period" /\ policy_logs'[p].active = 0
      BY <1>1, <1>6, <1>7, <2>2, <2>3
    <3>5. QED
      BY <3>2, <3>3, <3>4 DEF EntriesCounted
  <2>4. \A p \in DOMAIN policies' : EntriesCounted(p)'
    BY <1>7, <2>1, <2>3
  <2>5. \A p \in 1..MaxPolicies : p > Len(policies') => policy_logs'[p].active = 0
    BY <1>1, <1>2, <1>7 DEF UnderwritingInv, ActivationsCounted
  <2>6. QED
    BY <2>4, <2>5 DEF ActivationsCounted
<1>18. QED
  BY <1>11, <1>12, <1>13, <1>14, <1>15, <1>16, <1>17, PartsKeep

\* The entry of a policy's creation is no activation.
LEMMA LogCreatedKeeps ==
  ASSUME UnderwritingInv, NEW t \in Threads, LogCreated(t)
  PROVE  UnderwritingInv'
<1> DEFINE row == job[t].row
<1>1. /\ job[t].pc = "created" /\ Answer(t, "none")
      /\ policy_logs' = [policy_logs EXCEPT ![row].waiting_period = @ + 1]
      /\ UNCHANGED <<clock, riskVars, faults, rateVars, buys, policies>>
  BY DEF LogCreated, At, quiet, apart, counters
<1>2. /\ job \in [Threads -> Job] /\ ThreadSound(t) /\ policy_logs \in [1..MaxPolicies -> LogCounts]
      /\ row \in 1..MaxPolicies /\ Len(evals) \in Nat /\ clock \in Int /\ Len(policies) \in Nat
  BY <1>1, ThreadFacts, PolicyIds DEF UnderwritingInv, PolicyTables, ThreadSound, Holds
<1>3. /\ policy_logs' \in [1..MaxPolicies -> LogCounts]
      /\ \A p \in 1..MaxPolicies : policy_logs'[p].active = policy_logs[p].active
  <2>1. policy_logs[row] \in LogCounts
    BY <1>2
  <2> DEFINE e == [policy_logs[row] EXCEPT !.waiting_period = @ + 1]
  <2>2. e \in LogCounts /\ e.active = policy_logs[row].active
    BY <2>1 DEF LogCounts
  <2>3. policy_logs' = [policy_logs EXCEPT ![row] = e]
    BY <1>1
  <2> HIDE DEF e
  <2>4. QED
    BY <1>2, <2>2, <2>3
<1>4. /\ job' \in [Threads -> Job] /\ job'[t].pc = "answered" /\ job'[t].op = "cover"
      /\ job'[t].eval = 0 /\ job'[t].row = row /\ job'[t].cover = "none"
      /\ \A u \in Threads \ {t} : job'[u] = job[u]
  BY <1>1, <1>2, AnswerType DEF Becomes
<1>5. Outside(t)
  BY <1>1, OutsideAnyway
<1>6. SameBut(t)
  BY <1>4, <1>5 DEF SameBut, Outside
<1>7. Growth
  BY <1>1, <1>2 DEF UnderwritingInv, RiskSound, Growth, riskVars
<1>8. RiskSound' /\ PolicyTables' /\ RateSound'
  BY <1>1, <1>3, <1>4, <1>5 DEF UnderwritingInv, RiskSound, PolicyTables, Outside, riskVars
<1>9. ThreadSound(t)'
  BY <1>1, <1>2, <1>4, <1>5 DEF ThreadSound, Outside, riskVars
<1>10. PoliciesPriced' /\ PoliciesCounted'
  <2>1. Buying' \subseteq Buying
    BY <1>4, <1>6, BuyingKept DEF Buying
  <2>2. QED
    BY <1>1, <1>7, <2>1, PricedKept, PoliciesCountedKept DEF UnderwritingInv
<1>11. ActivationsCounted'
  <2>1. ASSUME NEW p \in DOMAIN policies PROVE EntriesCounted(p)'
    <3>1. EntriesCounted(p) /\ policy_logs'[p].active = policy_logs[p].active
      BY <1>3, PolicyIds DEF UnderwritingInv, ActivationsCounted
    <3>2. Activating(p)' = Activating(p) /\ LoggingNow(p)' = LoggingNow(p)
      BY <1>1, <1>4 DEF Activating, WillEnter, LoggingNow
    <3>3. QED
      BY <1>1, <3>1, <3>2 DEF EntriesCounted
  <2>2. QED
    BY <1>1, <1>3, <2>1 DEF UnderwritingInv, ActivationsCounted
<1>12. QED
  BY <1>6, <1>7, <1>8, <1>9, <1>10, <1>11, PartsKeep

\* A policy is activated by a thread that is about to enter it.
LEMMA SavesKeep ==
  ASSUME UnderwritingInv, NEW t \in Threads, SaveActive(t) \/ SaveValidated(t)
  PROVE  UnderwritingInv'
<1> DEFINE row == job[t].row
<1>1. PICK pc \in {"log", "log2"} :
        /\ job[t].pc = (IF pc = "log" THEN "save" ELSE "save2") /\ To(t, pc)
        /\ policies' = [policies EXCEPT ![row].status = "active"]
        /\ UNCHANGED <<clock, riskVars, faults, rateVars, buys, policy_logs>>
  BY DEF SaveActive, SaveValidated, At, quiet, apart, counters
<1>2. /\ job \in [Threads -> Job] /\ ThreadSound(t) /\ Holds(t) /\ Own(t) \in PolicyRow
      /\ Len(evals) \in Nat /\ clock \in Int /\ Len(policies) \in Nat
  BY <1>1, ThreadFacts DEF ThreadSound
<1>3. /\ policies' \in Seq(PolicyRow) /\ DOMAIN policies' = DOMAIN policies /\ Len(policies') = Len(policies)
      /\ policies'[row].status = "active"
      /\ \A p \in DOMAIN policies \ {row} : policies'[p] = policies[p]
      /\ policies'[row].app = policies[row].app /\ policies'[row].paid = policies[row].paid
      /\ policies'[row].risk = policies[row].risk /\ policies'[row].premium = policies[row].premium
      /\ policies'[row].waiting_end = policies[row].waiting_end
  <2> DEFINE e == [Own(t) EXCEPT !.status = "active"]
  <2>1. /\ e \in PolicyRow /\ e.status = "active" /\ e.app = Own(t).app /\ e.paid = Own(t).paid
        /\ e.risk = Own(t).risk /\ e.premium = Own(t).premium /\ e.waiting_end = Own(t).waiting_end
    BY <1>2 DEF PolicyRow, Status
  <2>2. policies' = [policies EXCEPT ![row] = e]
    BY <1>1 DEF Own
  <2>3. policies \in Seq(PolicyRow) /\ row \in DOMAIN policies
    BY <1>2 DEF UnderwritingInv, PolicyTables, Holds
  <2> HIDE DEF e
  <2>4. QED
    BY <2>1, <2>2, <2>3 DEF Own
<1>4. Outside(t)
  BY <1>1, OutsideAnyway
<1>5. /\ job' \in [Threads -> Job] /\ job'[t].pc = pc /\ job'[t].op = job[t].op
      /\ job'[t].row = row /\ job'[t].eval = job[t].eval /\ job'[t].seen = job[t].seen
      /\ \A u \in Threads \ {t} : job'[u] = job[u]
  BY <1>1, <1>2, ToType DEF Becomes, JobPoints
<1>6. SameBut(t)
  BY <1>4, <1>5 DEF SameBut, Outside
<1>7. Growth
  BY <1>1, <1>2, <1>3 DEF UnderwritingInv, RiskSound, Growth, riskVars
<1>8. RiskSound' /\ PolicyTables' /\ RateSound'
  BY <1>1, <1>3, <1>4, <1>5 DEF UnderwritingInv, RiskSound, PolicyTables, Outside, riskVars
<1>9. ThreadSound(t)'
  <2>1. /\ Holds(t)' /\ Own(t)'.status = "active" /\ Own(t)'.app = Own(t).app
        /\ Own(t)'.paid = Own(t).paid /\ Own(t)'.waiting_end = Own(t).waiting_end
    BY <1>2, <1>3, <1>5 DEF Holds, Own
  <2>2. QED
    BY <1>1, <1>2, <1>3, <1>4, <1>5, <2>1 DEF ThreadSound, Outside, riskVars
<1>10. PoliciesPriced' /\ PoliciesCounted'
  <2>1. Buying' \subseteq Buying
    BY <1>5, <1>6, BuyingKept DEF Buying
  <2>2. QED
    BY <1>1, <1>3, <1>7, <2>1, PricedKept, PoliciesCountedKept DEF UnderwritingInv
<1>11. ActivationsCounted'
  <2>1. ASSUME NEW p \in DOMAIN policies PROVE EntriesCounted(p)'
    <3>1. EntriesCounted(p)
      BY DEF UnderwritingInv, ActivationsCounted
    <3>2. Activating(p)' = Activating(p)
      BY <1>1, <1>5 DEF Activating, WillEnter
    <3>3. CASE p = row
      <4>1. LoggingNow(p)'
        BY <1>5, <3>3 DEF LoggingNow
      <4>2. policies'[p].status = "active"
        BY <1>3, <3>3
      <4>3. QED
        BY <1>1, <3>1, <3>2, <4>1, <4>2 DEF EntriesCounted
    <3>4. CASE p # row
      <4>1. LoggingNow(p) => LoggingNow(p)'
        BY <1>1, <1>5 DEF LoggingNow
      <4>2. QED
        BY <1>1, <1>3, <3>1, <3>2, <3>4, <4>1 DEF EntriesCounted
    <3>5. QED
      BY <3>3, <3>4
  <2>2. QED
    BY <1>1, <1>3, <2>1 DEF UnderwritingInv, ActivationsCounted
<1>12. QED
  BY <1>6, <1>7, <1>8, <1>9, <1>10, <1>11, PartsKeep

\* Entering an activation uses up what the thread had seen.
LEMMA LogsKeep ==
  ASSUME UnderwritingInv, NEW t \in Threads, LogActive(t) \/ LogValidated(t)
  PROVE  UnderwritingInv'
<1> DEFINE row == job[t].row
<1>1. /\ \/ job[t].pc = "log" /\ To(t, "refreshed")
         \/ job[t].pc = "log2" /\ Answer(t, "valid")
      /\ policy_logs' = [policy_logs EXCEPT ![row].active = @ + 1]
      /\ UNCHANGED <<clock, riskVars, faults, rateVars, buys, policies>>
  BY DEF LogActive, LogValidated, At, quiet, apart, counters
<1>2. /\ job \in [Threads -> Job] /\ ThreadSound(t) /\ policy_logs \in [1..MaxPolicies -> LogCounts]
      /\ row \in 1..MaxPolicies /\ Holds(t)
      /\ Len(evals) \in Nat /\ clock \in Int /\ Len(policies) \in Nat
  BY <1>1, ThreadFacts, PolicyIds DEF UnderwritingInv, PolicyTables, ThreadSound, Holds
<1>3. /\ policy_logs' \in [1..MaxPolicies -> LogCounts]
      /\ policy_logs[row].active \in Nat /\ policy_logs'[row].active = policy_logs[row].active + 1
      /\ \A p \in 1..MaxPolicies \ {row} : policy_logs'[p] = policy_logs[p]
  <2>1. policy_logs[row] \in LogCounts
    BY <1>2
  <2> DEFINE e == [policy_logs[row] EXCEPT !.active = @ + 1]
  <2>2. e \in LogCounts /\ e.active = policy_logs[row].active + 1 /\ policy_logs[row].active \in Nat
    BY <2>1 DEF LogCounts
  <2>3. policy_logs' = [policy_logs EXCEPT ![row] = e]
    BY <1>1
  <2> HIDE DEF e
  <2>4. QED
    BY <1>2, <2>2, <2>3
<1>4. Outside(t)
  BY <1>1, OutsideAnyway
<1>5. /\ job' \in [Threads -> Job] /\ \A u \in Threads \ {t} : job'[u] = job[u]
      /\ job'[t].row = row /\ job'[t].eval <= Len(evals)
      /\ \/ job'[t].pc = "refreshed" /\ job'[t].seen = "active" /\ job'[t].op = job[t].op
         \/ job'[t].pc = "answered" /\ job'[t].op = "cover" /\ job[t].pc = "log2"
  <2>1. CASE job[t].pc = "log" /\ To(t, "refreshed")
    BY <1>2, <2>1, ToType DEF Becomes, JobPoints, ThreadSound
  <2>2. CASE job[t].pc = "log2" /\ Answer(t, "valid")
    BY <1>2, <2>2, AnswerType DEF Becomes
  <2>3. QED
    BY <1>1, <2>1, <2>2
<1>6. SameBut(t)
  BY <1>4, <1>5 DEF SameBut, Outside
<1>7. Growth
  BY <1>1, <1>2 DEF UnderwritingInv, RiskSound, Growth, riskVars
<1>8. RiskSound' /\ PolicyTables' /\ RateSound'
  BY <1>1, <1>3, <1>4, <1>5 DEF UnderwritingInv, RiskSound, PolicyTables, Outside, riskVars
<1>9. ThreadSound(t)'
  <2>1. Holds(t)' /\ Own(t)' = Own(t)
    BY <1>1, <1>2, <1>5 DEF Holds, Own
  <2>2. Own(t).status = "active" /\ row <= Len(policies)
    BY <1>1, <1>2 DEF ThreadSound
  <2>3. job'[t].pc = "answered" => Own(t).app.days >= 3 /\ clock >= Own(t).waiting_end /\ Own(t).paid
    BY <1>2, <1>5 DEF ThreadSound
  <2>4. QED
    BY <1>1, <1>4, <1>5, <2>1, <2>2, <2>3 DEF ThreadSound, Outside, riskVars
<1>10. PoliciesPriced' /\ PoliciesCounted'
  <2>1. Buying' \subseteq Buying
    BY <1>5, <1>6, BuyingKept DEF Buying
  <2>2. QED
    BY <1>1, <1>7, <2>1, PricedKept, PoliciesCountedKept DEF UnderwritingInv
<1>11. ~ WillEnter(job'[t]) /\ WillEnter(job[t])
  BY <1>1, <1>5 DEF WillEnter
<1>12. ActivationsCounted'
  <2>1. ASSUME NEW p \in DOMAIN policies PROVE EntriesCounted(p)'
    <3>1. EntriesCounted(p)
      BY DEF UnderwritingInv, ActivationsCounted
    <3>2. CASE p # row
      <4>1. Activating(p)' \subseteq Activating(p)
        BY <1>5, <1>11 DEF Activating
      <4>2. LoggingNow(p) => LoggingNow(p)'
        BY <1>5, <3>2 DEF LoggingNow
      <4>3. QED
        BY <1>1, <1>3, <3>2, <4>1, <4>2, EntriesKept, PolicyIds
    <3>3. CASE p = row
      <4>1. Activating(p)' = Activating(p) \ {t} /\ t \in Activating(p)
        BY <1>5, <1>11, <3>3 DEF Activating
      <4>2. IsFiniteSet(Activating(p)) /\ Cardinality(Activating(p)) \in Nat /\ Cardinality(Threads) \in Nat
        BY RateAssumption, FS_Subset, FS_CardinalityType DEF Activating
      <4>3. Cardinality(Activating(p) \ {t}) =
              IF t \in Activating(p) THEN Cardinality(Activating(p)) - 1 ELSE Cardinality(Activating(p))
        BY <4>2, FS_RemoveElement
      <4>4. Cardinality(Activating(p)') = Cardinality(Activating(p)) - 1
        BY <4>1, <4>3
      <4>5. policies[p].status = "active"
        BY <1>1, <1>2, <3>3 DEF ThreadSound, Own
      <4>6. policy_logs'[p].active = policy_logs[p].active + 1 /\ policy_logs[p].active \in Nat
        BY <1>3, <3>3
      <4>7. QED
        BY <1>1, <3>1, <4>2, <4>4, <4>5, <4>6 DEF EntriesCounted
    <3>4. QED
      BY <3>2, <3>3
  <2>2. \A p \in 1..MaxPolicies : p > Len(policies') => policy_logs'[p].active = 0
    <3>1. row <= Len(policies)
      BY <1>2 DEF ThreadSound
    <3>2. QED
      BY <1>1, <1>2, <1>3, <3>1 DEF UnderwritingInv, ActivationsCounted
  <2>3. QED
    BY <1>1, <2>1, <2>2 DEF ActivationsCounted
<1>13. QED
  BY <1>6, <1>7, <1>8, <1>9, <1>10, <1>12, PartsKeep

\* When the process dies its requests end, and the failure is counted.
LEMMA PolicyCrashKeeps ==
  ASSUME UnderwritingInv, PolicyCrash
  PROVE  UnderwritingInv'
<1>1. /\ Fault /\ bucket' = <<>> /\ passed' = [i \in 0..MaxTime |-> 0]
      /\ gate' = [t \in Threads |-> [pc |-> "out", now |-> 0]]
      /\ UNCHANGED <<clock, riskVars, policies, policy_logs, buys>>
  BY DEF PolicyCrash, tableVars, counters
<1>2. faults' \in 0..MaxFaults /\ faults' > 0
  BY <1>1, FaultCounted
<1>3. /\ clock \in 0..MaxTime /\ clock \in Nat /\ MaxTime \in Nat /\ job \in [Threads -> Job]
      /\ Len(policies) \in Nat /\ Len(evals) \in Nat
  BY RateAssumption DEF UnderwritingInv, RateSound, RateTypeOK, PolicyTables, RiskSound
<1>4. RateSound'
  BY <1>1, <1>3 DEF RateSound, RateTypeOK, GatePoints
<1>5. RiskSound'
  BY <1>1, <1>2 DEF UnderwritingInv, RiskSound, riskVars
<1>6. \A t \in Threads :
        \/ job[t].pc \in {"idle", "answered"} /\ job'[t] = job[t]
        \/ /\ job'[t] \in Job /\ job'[t].pc = "answered" /\ job'[t].row = 0 /\ job'[t].eval = 0
           /\ job'[t].cover = "degraded" /\ job'[t].op = "cover"
  <2> DEFINE j == [NoJob EXCEPT !.pc = "answered", !.cover = "degraded"]
  <2>1. j \in Job /\ j.pc = "answered" /\ j.row = 0 /\ j.eval = 0 /\ j.cover = "degraded" /\ j.op = "cover"
    BY NoJobType DEF Job, JobPoints
  <2>2. job' = [t \in Threads |-> IF job[t].pc \in {"idle", "answered"} THEN job[t] ELSE j]
    BY DEF PolicyCrash
  <2> HIDE DEF j
  <2>3. QED
    BY <2>1, <2>2
<1>7. PolicyTables'
  <2>1. job' \in [Threads -> Job]
    <3>1. \A t \in Threads : job'[t] \in Job
      BY <1>3, <1>6
    <3>2. DOMAIN job' = Threads /\ job' = [t \in Threads |-> job'[t]]
      BY DEF PolicyCrash
    <3>3. QED
      BY <3>1, <3>2
  <2>2. QED
    BY <1>1, <2>1 DEF UnderwritingInv, PolicyTables
<1>8. Growth
  BY <1>1, <1>3 DEF UnderwritingInv, RiskSound, Growth, riskVars
<1>9. ASSUME NEW t \in Threads PROVE ThreadSound(t)'
  <2>1. gate'[t].pc = "out"
    BY <1>1
  <2>2. CASE job[t].pc \in {"idle", "answered"} /\ job'[t] = job[t]
    <3>1. ThreadSound(t)
      BY DEF UnderwritingInv
    <3>2. QED
      BY <1>1, <2>1, <2>2, <3>1 DEF ThreadSound, Holds, Own, riskVars
  <2>3. CASE /\ job'[t].pc = "answered" /\ job'[t].row = 0 /\ job'[t].eval = 0
             /\ job'[t].cover = "degraded" /\ job'[t].op = "cover"
    BY <1>1, <1>3, <2>1, <2>3 DEF ThreadSound, riskVars
  <2>4. QED
    BY <1>6, <2>2, <2>3
<1>10. PoliciesPriced' /\ PoliciesCounted'
  <2>1. Buying' \subseteq Buying
    BY <1>6 DEF Buying
  <2>2. QED
    BY <1>1, <1>8, <2>1, PricedKept, PoliciesCountedKept DEF UnderwritingInv
<1>11. ActivationsCounted'
  <2>1. ASSUME NEW p \in DOMAIN policies PROVE EntriesCounted(p)'
    <3>1. Activating(p)' \subseteq Activating(p)
      BY <1>6 DEF Activating, WillEnter
    <3>2. QED
      BY <1>1, <1>2, <3>1, EntriesKept
  <2>2. QED
    BY <1>1, <2>1 DEF UnderwritingInv, ActivationsCounted
<1>12. QED
  BY <1>4, <1>5, <1>7, <1>9, <1>10, <1>11 DEF UnderwritingInv

-----------------------------------------------------------------------------
(* The theorems.                                                           *)

(* The composition starts in its invariant. *)
LEMMA UnderwritingInitInv ==
  ASSUME UnderwritingInit
  PROVE  UnderwritingInv
<1>1. RateSound
  BY RateAssumption DEF UnderwritingInit, RateInit, RateSound, RateTypeOK, GatePoints
<1>2. RiskSound
  BY RiskAssumption DEF UnderwritingInit, RiskInit, RiskSound, Models
<1>3. /\ policies = <<>> /\ DOMAIN policies = {} /\ Len(policies) = 0 /\ buys = 0 /\ evals = <<>>
      /\ Len(evals) = 0 /\ \A t \in Threads : job[t] = NoJob /\ gate[t].pc = "out"
  BY DEF UnderwritingInit, PolicyInit, RiskInit, RateInit
<1>4. PolicyTables
  <2>1. job \in [Threads -> Job]
    BY NoJobType DEF UnderwritingInit, PolicyInit
  <2>2. policy_logs \in [1..MaxPolicies -> LogCounts]
    BY DEF UnderwritingInit, PolicyInit, LogCounts
  <2>3. policies \in Seq(PolicyRow) /\ buys \in 0..MaxPolicies
    BY <1>3, PolicyAssumption
  <2>4. QED
    BY <2>1, <2>2, <2>3 DEF PolicyTables
<1>5. \A t \in Threads : ThreadSound(t)
  BY <1>3, NoJobType DEF ThreadSound
<1>6. PoliciesCounted
  <2>1. Buying = {}
    BY <1>3, NoJobType DEF Buying
  <2>2. Cardinality(Buying) = 0
    BY <2>1, FS_EmptySet
  <2>3. QED
    BY <1>3, <2>2 DEF PoliciesCounted
<1>7. ActivationsCounted
  BY <1>3 DEF UnderwritingInit, PolicyInit, ActivationsCounted
<1>8. PoliciesPriced
  BY <1>3 DEF PoliciesPriced
<1>9. QED
  BY <1>1, <1>2, <1>4, <1>5, <1>6, <1>7, <1>8 DEF UnderwritingInv

(* The clock keeps the invariant. *)
LEMMA TickKeeps ==
  ASSUME UnderwritingInv, Tick, UNCHANGED <<faults, rateVars, riskVars, policyVars>>
  PROVE  UnderwritingInv'
<1>1. /\ clock' = clock + 1 /\ clock < MaxTime
      /\ UNCHANGED <<faults, bucket, gate, passed, bundle, evals, predictions>>
      /\ UNCHANGED <<policies, policy_logs, job, buys>>
  BY DEF Tick, rateVars, riskVars, policyVars, tableVars, counters
<1>2. /\ clock \in 0..MaxTime /\ clock \in Nat /\ MaxTime \in Nat
      /\ Len(policies) \in Nat /\ Len(evals) \in Nat
  BY RateAssumption DEF UnderwritingInv, RateSound, RateTypeOK, PolicyTables, RiskSound
<1>3. RateSound'
  <2>1. \A t \in Threads : gate'[t].now \in 0..clock'
    BY <1>1, <1>2 DEF UnderwritingInv, RateSound, RateTypeOK
  <2>2. clock' \in 0..MaxTime
    BY <1>1, <1>2
  <2>3. QED
    BY <1>1, <2>1, <2>2 DEF UnderwritingInv, RateSound, RateTypeOK
<1>4. RiskSound'
  BY <1>1 DEF UnderwritingInv, RiskSound
<1>5. Growth
  BY <1>1, <1>2 DEF UnderwritingInv, RiskSound, Growth
<1>6. QED
  BY <1>1, <1>3, <1>4, <1>5, AsideKeeps

\* Every step keeps the invariant.
LEMMA UnderwritingStep ==
  ASSUME UnderwritingInv, [UnderwritingNext]_uvars
  PROVE  UnderwritingInv'
<1>1. CASE Tick /\ UNCHANGED <<faults, rateVars, riskVars, policyVars>>
  BY <1>1, TickKeeps
<1>2. ASSUME NEW t \in Threads, Request(t)
      PROVE  UnderwritingInv'
  BY <1>2, NoJobType, BeginKeeps DEF Request
<1>3. ASSUME NEW t \in Threads, PolicyStep(t)
      PROVE  UnderwritingInv'
  <2>1. CASE InGate(t) \/ PassGate(t) \/ BeginValidate(t)
    BY <2>1, InGateKeeps, PassGateKeeps, BeginValidateKeeps, KeptKeeps
  <2>2. CASE TurnedAway(t) \/ ResolveFails(t) \/ AnswerLost(t) \/ StatementFails(t)
    BY <2>2, FailuresKeep, KeptKeeps
  <2>3. CASE ResolveZone(t) \/ RiskAnswers(t) \/ RiskUnknown(t)
    BY <2>3, ResolveZoneKeeps, RiskAnswersKeeps, RiskUnknownKeeps, KeptKeeps
  <2>4. CASE AskRisk(t)
    BY <2>4, AskRiskKeeps
  <2>5. CASE InsertPolicy(t)
    BY <2>5, InsertPolicyKeeps
  <2>6. CASE LogCreated(t)
    BY <2>6, LogCreatedKeeps
  <2>7. CASE GetLatest(t) \/ FindPolicy(t)
    BY <2>7, LooksKeep, KeptKeeps
  <2>8. CASE SaveActive(t) \/ SaveValidated(t)
    BY <2>8, SavesKeep
  <2>9. CASE LogActive(t) \/ LogValidated(t)
    BY <2>9, LogsKeep
  <2>10. CASE GetAnswered(t) \/ CheckPolicy(t) \/ FraudAnswers(t)
    BY <2>10, GetAnsweredKeeps, CheckPolicyKeeps, FraudAnswersKeeps, KeptKeeps
  <2>11. QED
    BY <1>3, <2>1, <2>2, <2>3, <2>4, <2>5, <2>6, <2>7, <2>8, <2>9, <2>10 DEF PolicyStep
<1>4. CASE PolicyCrash
  BY <1>4, PolicyCrashKeeps
<1>5. CASE Consult
  <2>1. PICK c \in Consultations :
          StartEval(c.zone, c.metrics) /\ UNCHANGED <<clock, faults, rateVars, policyVars>>
    BY <1>5 DEF Consult
  <2>2. c.zone \in DOMAIN TrainedScore /\ c.metrics \in [Features -> Nat]
    BY RiskAssumption
  <2>3. UNCHANGED <<clock, faults, job, policies, policy_logs, buys>> /\ UNCHANGED rateVars
    BY <2>1 DEF policyVars, tableVars, counters
  <2>4. RiskSound' /\ Growth
    BY <2>1, <2>2, <2>3, StartEvalKeeps
  <2>5. RateSound' /\ gate' = gate
    BY <2>3 DEF UnderwritingInv, RateSound, RateTypeOK, rateVars
  <2>6. QED
    BY <2>3, <2>4, <2>5, AsideKeeps
<1>6. CASE RiskNext /\ UNCHANGED <<clock, rateVars, policyVars>>
  <2>1. UNCHANGED <<clock, job, policies, policy_logs, buys>> /\ UNCHANGED rateVars
    BY <1>6 DEF policyVars, tableVars, counters
  <2>2. RiskSound' /\ Growth /\ (faults > 0 => faults' > 0)
    BY <1>6, <2>1, RiskStepKeeps DEF RiskNext
  <2>3. RateSound' /\ gate' = gate
    BY <2>1 DEF UnderwritingInv, RateSound, RateTypeOK, rateVars
  <2>4. QED
    BY <2>1, <2>2, <2>3, AsideKeeps
<1>7. CASE UNCHANGED uvars
  <2>1. /\ UNCHANGED <<clock, faults, bucket, gate, passed, bundle, evals, predictions>>
        /\ UNCHANGED <<policies, policy_logs, job, buys>>
    BY <1>7 DEF uvars, rateVars, riskVars, policyVars, tableVars, counters
  <2>2. RateSound' /\ RiskSound'
    BY <2>1 DEF UnderwritingInv, RateSound, RateTypeOK, RiskSound
  <2>3. clock \in Int /\ Len(policies) \in Int /\ Len(evals) \in Int
    BY DEF UnderwritingInv, RateSound, RateTypeOK, PolicyTables, RiskSound
  <2>4. Growth
    BY <2>1, <2>3 DEF UnderwritingInv, RiskSound, Growth
  <2>5. QED
    BY <2>1, <2>2, <2>4, AsideKeeps
<1>8. QED
  BY <1>1, <1>2, <1>3, <1>4, <1>5, <1>6, <1>7 DEF UnderwritingNext

\* What the threads of the policy service know, and the counts of buying and of
\* activating threads, hold in every state.
THEOREM UnderwritingInductive == UnderwritingSpec => []UnderwritingInv
<1>1. UnderwritingInit => UnderwritingInv
  BY UnderwritingInitInv
<1>2. UnderwritingInv /\ [UnderwritingNext]_uvars => UnderwritingInv'
  BY UnderwritingStep
<1>3. QED
  BY <1>1, <1>2, PTL DEF UnderwritingSpec

\* The claims service is told that a policy is valid only when it is active, paid, past its
\* waiting period and backed by three days of activity (PolicyService.validate_policy),
\* whoever activated it, whatever failed and however late the answer is.
THEOREM CoverageIsLawful == UnderwritingSpec => []CoverageLawful
<1>1. UnderwritingInv => CoverageLawful
  BY DEF UnderwritingInv, ThreadSound, CoverageLawful, At, Own
<1>2. QED
  BY <1>1, UnderwritingInductive, PTL

\* Every active policy has its entry unless a request is between the two commits or was
\* cut there, and threads that race for it enter it at most once each
\* (PolicyService._refresh_status_if_eligible).
THEOREM ActivationsAreLogged == UnderwritingSpec => []ActivationsLogged
<1>1. UnderwritingInv => ActivationsLogged
  <2> SUFFICES ASSUME UnderwritingInv, NEW p \in DOMAIN policies
               PROVE  LET entries == policy_logs[p].active IN
                        /\ policies[p].status = "active" /\ entries = 0 =>
                             faults > 0 \/ \E t \in Threads : job[t].row = p /\ job[t].pc \in {"log", "log2"}
                        /\ entries > 0 => policies[p].status = "active"
                        /\ entries <= Cardinality(Threads)
    BY DEF ActivationsLogged
  <2>1. EntriesCounted(p) /\ p \in 1..MaxPolicies
    BY PolicyIds DEF UnderwritingInv, ActivationsCounted
  <2>2. policies[p].status \in Status /\ policy_logs[p].active \in Nat
    <3>1. policies[p] \in PolicyRow /\ policy_logs[p] \in LogCounts
      BY <2>1 DEF UnderwritingInv, PolicyTables
    <3>2. QED
      BY <3>1 DEF PolicyRow, LogCounts
  <2>3. Cardinality(Activating(p)) \in Nat /\ Cardinality(Threads) \in Nat
    BY RateAssumption, FS_Subset, FS_CardinalityType DEF Activating
  <2>4. QED
    BY <2>1, <2>2, <2>3 DEF EntriesCounted, LoggingNow, Status
<1>2. QED
  BY <1>1, UnderwritingInductive, PTL

(* The metrics a claim is assessed with are metrics the risk service takes. *)
LEMMA ClaimMetricsType ==
  /\ PolicyMetrics \in Metrics
  /\ \A severity, type : ClaimMetrics(severity, type) \in Metrics
<1>1. PolicyMetrics \in Metrics
  BY DEF PolicyMetrics, Metrics, Features
<1>2. ASSUME NEW severity, NEW type PROVE ClaimMetrics(severity, type) \in Metrics
  <2> DEFINE sev == CASE severity = "LOW" -> 2000 [] severity = "HIGH" -> 8000 [] OTHER -> 5000
             evt == CASE type = "weather" -> 7500 [] type = "traffic" -> 6500 [] OTHER -> 5500
             base == (sev + evt) \div 2
  <2>1. sev \in Int /\ evt \in Int
    OBVIOUS
  <2>2. ClaimMetrics(severity, type) =
          [disruption_freq |-> base, duration |-> (9 * base) \div 10, traffic |-> evt,
           order_drop |-> Between(0, Unit, (11 * sev) \div 10),
           activity |-> Unit - (4 * sev) \div 10, claims |-> (6 * base) \div 10]
    BY DEF ClaimMetrics
  <2> HIDE DEF sev, evt
  <2>3. base \in Int
    BY <2>1
  <2> HIDE DEF base
  <2>4. /\ (9 * base) \div 10 \in Int /\ (6 * base) \div 10 \in Int
        /\ (11 * sev) \div 10 \in Int /\ (4 * sev) \div 10 \in Int
    BY <2>1, <2>3
  <2>5. Unit - (4 * sev) \div 10 \in Int
    BY <2>4, UnitType
  <2>6. Between(0, Unit, (11 * sev) \div 10) \in Int
    BY <2>4, BetweenOrdered, UnitType
  <2>7. QED
    BY <2>1, <2>2, <2>3, <2>4, <2>5, <2>6 DEF Metrics, Features
<1>3. QED
  BY <1>1, <1>2

\* Prices and logged scores keep the order of what they were computed from
\* (PricingService.calculate and RiskService.evaluate), and every surcharge is backed by a
\* logged prediction, whatever the trained model answers.
THEOREM PricesAreLawful == UnderwritingSpec => []PricesLawful
<1>1. UnderwritingInv => UnderwritingTypeOK
  <2> SUFFICES ASSUME UnderwritingInv PROVE UnderwritingTypeOK
    OBVIOUS
  <2>1. RateTypeOK /\ RiskTypeOK
    <3>1. RateTypeOK
      BY DEF UnderwritingInv, RateSound
    <3>2. \A k \in DOMAIN evals : evals[k] \in Evaluation
      BY DEF UnderwritingInv, RiskSound
    <3>3. QED
      BY <3>1, <3>2 DEF UnderwritingInv, RiskSound, RiskTypeOK, Models, Evaluation
  <2>2. ASSUME NEW p \in DOMAIN policies
        PROVE  /\ policies[p].status \in {"waiting_period", "active"}
               /\ policies[p].premium \in Nat /\ policies[p].risk \in 100..130
    <3>1. policies[p] \in PolicyRow
      BY DEF UnderwritingInv, PolicyTables
    <3>2. policies[p].risk \in Multipliers
      BY <3>1 DEF PolicyRow
    <3>3. QED
      BY <3>1, <3>2 DEF PolicyRow, Status, Multipliers
  <2>3. ASSUME NEW t \in Threads
        PROVE  /\ job[t].pc \in JobPoints
               /\ job[t].row \in 0..Len(policies) /\ job[t].eval \in 0..Len(evals)
               /\ job[t].cover \in {"none", "unchecked", "degraded", "invalid", "valid"}
    <3>1. job[t].row <= Len(policies) /\ job[t].eval <= Len(evals)
      BY ThreadFacts DEF ThreadSound
    <3>2. QED
      BY <3>1, ThreadFacts DEF Job
  <2>4. QED
    BY <2>1, <2>2, <2>3 DEF UnderwritingTypeOK, JobPoints
<1>2. UnderwritingInv => PremiumsOrdered
  <2> SUFFICES ASSUME UnderwritingInv, NEW p \in DOMAIN policies, NEW b \in Applications,
                      policies[p].app.income >= b.income,
                      ZoneRate[policies[p].app.zone] >= ZoneRate[b.zone],
                      policies[p].app.week <= b.week,
                      NEW risk \in {100, policies[p].risk}
               PROVE  policies[p].premium >= TotalPremium(b.income, b.zone, b.week, risk)
    BY DEF PremiumsOrdered
  <2> DEFINE a == policies[p].app
             r == policies[p].risk
  <2>1. policies[p] \in PolicyRow
    BY DEF UnderwritingInv, PolicyTables
  <2>2. a \in Applications /\ r \in Multipliers
    BY <2>1 DEF PolicyRow
  <2>3. r \in Nat /\ 100 <= r
    BY <2>2 DEF Multipliers
  <2>4. risk \in Multipliers /\ risk \in Nat /\ risk <= r
    BY <2>2, <2>3, MultipliersType
  <2>5. /\ a.income \in Nat /\ a.zone \in Zones /\ a.week \in Nat
        /\ b.income \in Nat /\ b.zone \in Zones /\ b.week \in Nat
    BY <2>2, PolicyAssumption
  <2>6. ZoneRate[b.zone] <= ZoneRate[a.zone] /\ b.income <= a.income
    BY <2>5 DEF ZoneRate, Zones
  <2>7. TotalPremium(b.income, b.zone, b.week, risk) <= TotalPremium(a.income, a.zone, a.week, r)
    BY <2>3, <2>4, <2>5, <2>6, PremiumMonotone
  <2>8. TotalPremium(b.income, b.zone, b.week, risk) \in Nat
    BY <2>4, PremiumType
  <2>9. policies[p].premium = TotalPremium(a.income, a.zone, a.week, r)
    BY DEF UnderwritingInv, PoliciesPriced
  <2> HIDE DEF a, r
  <2>10. TotalPremium(a.income, a.zone, a.week, r) \in Nat
    BY <2>2, PremiumType
  <2>11. QED
    BY <2>7, <2>8, <2>9, <2>10
<1>3. UnderwritingInv => SurchargesExplained
  BY DEF UnderwritingInv, PoliciesPriced, Explained, Backed, SurchargesExplained, ScoreOf
<1>4. UnderwritingInv => RiskOrdered
  <2> SUFFICES ASSUME UnderwritingInv, NEW k \in predictions, evals[k].model = "fallback",
                      NEW r \in Askable
               PROVE  /\ r.score < ScoreOf(k) => ~WorseRisk(r, evals[k])
                      /\ r.score > ScoreOf(k) => ~WorseRisk(evals[k], r)
                      /\ r.score <= ScoreOf(k) => Multiplier(r.score) <= Multiplier(ScoreOf(k))
                      /\ r.score >= ScoreOf(k) => Multiplier(r.score) >= Multiplier(ScoreOf(k))
    BY DEF RiskOrdered
  <2> DEFINE e == evals[k]
             score == ScoreOf(k)
  <2>1. e \in Evaluation
    BY DEF UnderwritingInv, RiskSound
  <2>2. e.metrics \in Metrics /\ e.zone \in DOMAIN TrainedScore
    BY <2>1, UnitType DEF Evaluation, Metrics
  <2>3. r.metrics \in Metrics /\ r.zone \in DOMAIN TrainedScore
    <3>1. r.zone \in Zones
      BY DEF Askable, Zones
    <3>2. r.metrics \in Metrics
      BY ClaimMetricsType DEF Askable
    <3>3. QED
      BY <3>1, <3>2, PolicyAssumption
  <2>4. r.score = Hybrid("fallback", r.metrics, r.zone)
    BY DEF Askable
  <2>5. score = Hybrid("fallback", e.metrics, e.zone)
    BY DEF ScoreOf
  <2>6. r.score \in 0..Unit /\ score \in 0..Unit
    BY <2>2, <2>3, <2>4, <2>5, HybridType
  <2>7. WorseRisk(r, e) => score <= r.score
    <3>1. WorseRisk(r, e) => WorseRisk([zone |-> r.zone, metrics |-> r.metrics],
                                       [zone |-> e.zone, metrics |-> e.metrics])
      BY DEF WorseRisk
    <3>2. QED
      BY <2>2, <2>3, <2>4, <2>5, <3>1, HybridOrdered
  <2>8. WorseRisk(e, r) => r.score <= score
    <3>1. WorseRisk(e, r) => WorseRisk([zone |-> e.zone, metrics |-> e.metrics],
                                       [zone |-> r.zone, metrics |-> r.metrics])
      BY DEF WorseRisk
    <3>2. QED
      BY <2>2, <2>3, <2>4, <2>5, <3>1, HybridOrdered
  <2> HIDE DEF e, score
  <2>9. /\ r.score <= score => Multiplier(r.score) <= Multiplier(score)
        /\ score <= r.score => Multiplier(score) <= Multiplier(r.score)
    BY <2>6, MultiplierOrdered
  <2>10. r.score \in Int /\ score \in Int
    BY <2>6, UnitType
  <2>11. Multiplier(r.score) \in Int /\ Multiplier(score) \in Int
    <3>1. Multiplier(r.score) \in Multipliers /\ Multiplier(score) \in Multipliers
      BY <2>6, MultiplierOrdered DEF Multipliers
    <3>2. Multipliers \subseteq Int
      BY MultipliersType
    <3>3. QED
      BY <3>1, <3>2
  <2>12. /\ r.score < score => ~ WorseRisk(r, e)
         /\ r.score > score => ~ WorseRisk(e, r)
         /\ r.score <= score => Multiplier(r.score) <= Multiplier(score)
         /\ r.score >= score => Multiplier(r.score) >= Multiplier(score)
    BY <2>7, <2>8, <2>9, <2>10, <2>11
  <2>13. QED
    BY <2>12 DEF e, score
<1>5. UnderwritingInv => PricesLawful
  BY <1>1, <1>2, <1>3, <1>4 DEF PricesLawful
<1>6. QED
  BY <1>5, UnderwritingInductive, PTL

-----------------------------------------------------------------------------
(* The gate.  Arrivals are appended in the order of time, so that of each  *)
(* window the older ones form the head of the bucket; only when none of    *)
(* them is left can a thread that tested one drop an arrival of the window.*)

Gating(pc) == {t \in Threads : GateAt(t, pc)}
Others == Cardinality(Threads) - 1
PassedFrom(s) == Total(passed, s..s + Window)

\* Threads pass the gate within the tick they arrive in.
InTime ==
  /\ \A t \in Threads : gate[t].pc \in {"test", "pop", "append"} => gate[t].now = clock
  /\ \A i \in 1..Len(bucket) : bucket[i] <= clock

AdmittedBounded == Len(bucket) + Cardinality(Gating("append")) <= Limit + Others

\* The first k requests in bucket b came before s, the others in the window from s on;
\* total have passed in that window, and so many threads are about to pop.
Split(b, total, pops, s, k) ==
  /\ \A i \in 1..Len(b) : b[i] < s <=> i <= k
  /\ k > 0 => total = Len(b) - k
  /\ k = 0 => total + pops <= Len(b) + Others

Counted(b, total, pops, now, s) ==
  /\ now < s => total = 0
  /\ now <= s + Window => \E k \in 0..Len(b) : Split(b, total, pops, s, k)
  /\ now > s + Window => total <= Limit + 2 * Others

WindowCounted(s) == Counted(bucket, PassedFrom(s), Cardinality(Gating("pop")), clock, s)

WindowInv == InTime /\ AdmittedBounded /\ \A s \in 0..MaxTime - Window : WindowCounted(s)

(* The counts are natural numbers, those of threads at most all of them. *)
LEMMA GateCounts ==
  ASSUME RateSound
  PROVE  /\ clock \in Nat /\ Window \in Nat /\ Limit \in Nat /\ MaxTime \in Nat /\ Others \in Nat
         /\ Len(bucket) \in Nat /\ \A i \in 1..Len(bucket) : bucket[i] \in Nat
         /\ \A pc : IsFiniteSet(Gating(pc)) /\ Cardinality(Gating(pc)) \in 0..Others + 1
         /\ \A s \in 0..MaxTime - Window : s \in Nat /\ PassedFrom(s) \in Nat
<1>1. /\ clock \in 0..MaxTime /\ bucket \in Seq(0..MaxTime) /\ passed \in [0..MaxTime -> Nat]
      /\ MaxTime \in Nat /\ Window \in Nat /\ Limit \in Nat
  BY RateAssumption DEF RateSound, RateTypeOK
<1>2. Others \in Nat /\ Cardinality(Threads) = Others + 1
  BY RateAssumption, FS_CardinalityType, FS_EmptySet DEF Others
<1>3. ASSUME NEW pc PROVE IsFiniteSet(Gating(pc)) /\ Cardinality(Gating(pc)) \in 0..Others + 1
  <2>1. Gating(pc) \in SUBSET Threads
    BY DEF Gating
  <2>2. QED
    BY <1>2, <2>1, RateAssumption, FS_Subset, FS_CardinalityType
<1>4. ASSUME NEW s \in 0..MaxTime - Window PROVE s \in Nat /\ PassedFrom(s) \in Nat
  <2> DEFINE S == s..s + Window
  <2>1. s \in Nat /\ s + Window \in Int /\ s + Window <= MaxTime
    BY <1>1
  <2>2. IsFiniteSet(S)
    BY <2>1, FS_Interval
  <2>3. \A i \in S : passed[i] \in Nat
    BY <1>1, <2>1
  <2> HIDE DEF S
  <2>4. Total(passed, S) \in Nat
    BY <2>2, <2>3, TotalIsNat
  <2>5. QED
    BY <2>1, <2>4 DEF PassedFrom, S
<1>5. Len(bucket) \in Nat /\ \A i \in 1..Len(bucket) : bucket[i] \in Nat
  BY <1>1
<1>6. QED
  BY <1>1, <1>2, <1>3, <1>4, <1>5

(* A thread that moves is counted where it goes and no longer where it was. *)
LEMMA GateMoves ==
  ASSUME RateSound, NEW t \in Threads, NEW pc, \A u \in Threads \ {t} : gate'[u].pc = gate[u].pc
  PROVE  /\ gate[t].pc = pc /\ gate'[t].pc # pc =>
              /\ Cardinality(Gating(pc)') = Cardinality(Gating(pc)) - 1
              /\ Cardinality(Gating(pc)') <= Others
         /\ gate[t].pc # pc /\ gate'[t].pc # pc => Cardinality(Gating(pc)') = Cardinality(Gating(pc))
         /\ gate[t].pc # pc /\ gate'[t].pc = pc =>
              Cardinality(Gating(pc)') = Cardinality(Gating(pc)) + 1
<1>1. IsFiniteSet(Gating(pc)) /\ Cardinality(Gating(pc)) \in 0..Others + 1 /\ Others \in Nat
  BY GateCounts
<1>2. CASE gate[t].pc = pc /\ gate'[t].pc # pc
  <2>1. Gating(pc)' = Gating(pc) \ {t} /\ t \in Gating(pc)
    BY <1>2 DEF Gating, GateAt
  <2>2. Cardinality(Gating(pc) \ {t}) = Cardinality(Gating(pc)) - 1
    BY <1>1, <2>1, FS_RemoveElement
  <2>3. QED
    BY <1>1, <1>2, <2>1, <2>2
<1>3. CASE gate[t].pc # pc /\ gate'[t].pc # pc
  <2>1. Gating(pc)' = Gating(pc)
    BY <1>3 DEF Gating, GateAt
  <2>2. QED
    BY <1>3, <2>1
<1>4. CASE gate[t].pc # pc /\ gate'[t].pc = pc
  <2>1. Gating(pc)' = Gating(pc) \cup {t} /\ t \notin Gating(pc)
    BY <1>4 DEF Gating, GateAt
  <2>2. QED
    BY <1>1, <1>4, <2>1, FS_AddElement
<1>5. QED
  BY <1>2, <1>3, <1>4

(* More threads may be about to pop only while there is something old to pop. *)
LEMMA CountedStill ==
  ASSUME NEW b \in Seq(Nat), NEW total \in Nat, NEW pops \in Nat, NEW now \in Nat, NEW s \in Nat,
         Counted(b, total, pops, now, s),
         NEW after \in Nat, after <= pops \/ now > s + Window \/ (b # <<>> /\ b[1] < s)
  PROVE  Counted(b, total, after, now, s)
<1>1. CASE now <= s + Window
  <2>1. PICK k \in 0..Len(b) : Split(b, total, pops, s, k)
    BY <1>1 DEF Counted
  <2>2. Others \in Int
    BY RateAssumption, FS_CardinalityType DEF Others
  <2>3. Split(b, total, after, s, k)
    BY <1>1, <2>1, <2>2, RateAssumption DEF Split
  <2>4. QED
    BY <1>1, <2>1, <2>3, RateAssumption DEF Counted
<1>2. QED
  BY <1>1, RateAssumption DEF Counted

(* The thread that drops the last old request is itself not about to pop any more. *)
LEMMA CountedPopped ==
  ASSUME NEW b \in Seq(Nat), b # <<>>, NEW total \in Nat, NEW pops \in Nat \ {0},
         NEW now \in Nat, NEW s \in Nat, pops - 1 <= Others, Counted(b, total, pops, now, s)
  PROVE  Counted(Tail(b), total, pops - 1, now, s)
<1> DEFINE c == Tail(b)
<1>1. /\ Len(b) \in Nat \ {0} /\ Len(c) = Len(b) - 1
      /\ \A i \in 1..Len(c) : c[i] = b[i + 1] /\ i + 1 \in 1..Len(b)
  OBVIOUS
<1> HIDE DEF c
<1>2. CASE now <= s + Window
  <2>1. PICK k \in 0..Len(b) : Split(b, total, pops, s, k)
    BY <1>2 DEF Counted
  <2>2. Others \in Int
    BY RateAssumption, FS_CardinalityType DEF Others
  <2>3. PICK j \in 0..Len(c) : j = IF k = 0 THEN 0 ELSE k - 1
    BY <1>1
  <2>4. ASSUME NEW i \in 1..Len(c) PROVE c[i] < s <=> i <= j
    <3>1. b[i + 1] \in Nat /\ c[i] = b[i + 1] /\ i + 1 \in 1..Len(b)
      BY <1>1
    <3>2. c[i] < s <=> i + 1 <= k
      BY <2>1, <3>1 DEF Split
    <3>3. QED
      BY <2>3, <3>2
  <2>5. j > 0 => total = Len(c) - j
    BY <1>1, <2>1, <2>3 DEF Split
  <2>6. j = 0 => total + (pops - 1) <= Len(c) + Others
    BY <1>1, <2>1, <2>2, <2>3 DEF Split
  <2>7. QED
    BY <1>2, <2>4, <2>5, <2>6, RateAssumption DEF Counted, Split, c
<1>3. QED
  BY <1>2, RateAssumption DEF Counted

(* An arrival is kept, and counted if it is of the window. *)
LEMMA CountedAppended ==
  ASSUME NEW b \in Seq(Nat), NEW total \in Nat, NEW pops \in Nat, NEW now \in Nat, NEW s \in Nat,
         Counted(b, total, pops, now, s), \A i \in 1..Len(b) : b[i] <= now
  PROVE  Counted(Append(b, now), total + IF now \in s..s + Window THEN 1 ELSE 0, pops, now, s)
<1> DEFINE c == Append(b, now)
<1>1. /\ Len(b) \in Nat /\ Len(c) = Len(b) + 1 /\ c[Len(b) + 1] = now
      /\ \A i \in 1..Len(b) : c[i] = b[i]
  OBVIOUS
<1> HIDE DEF c
<1>2. CASE now <= s + Window
  <2>1. PICK k \in 0..Len(b) : Split(b, total, pops, s, k)
    BY <1>2 DEF Counted
  <2>2. Others \in Int
    BY RateAssumption, FS_CardinalityType DEF Others
  <2>3. CASE now < s
    <3>1. total = 0 /\ k = Len(b)
      <4>1. total = 0
        BY <2>3 DEF Counted
      <4>2. CASE Len(b) = 0
        BY <4>1, <4>2
      <4>3. CASE Len(b) > 0
        <5>1. b[Len(b)] < s /\ Len(b) \in 1..Len(b)
          BY <1>1, <2>3, <4>3
        <5>2. QED
          BY <1>1, <2>1, <4>1, <5>1 DEF Split
      <4>4. QED
        BY <1>1, <4>2, <4>3
    <3>2. \A i \in 1..Len(c) : c[i] < s
      BY <1>1, <2>3
    <3>3. Split(c, 0, pops, s, Len(c))
      BY <1>1, <3>2 DEF Split
    <3>4. now \notin s..s + Window
      BY <2>3
    <3>5. QED
      BY <1>1, <1>2, <3>1, <3>3, <3>4, RateAssumption DEF Counted, c
  <2>4. CASE now >= s
    <3>1. now \in s..s + Window /\ k \in 0..Len(c)
      BY <1>1, <1>2, <2>4, RateAssumption
    <3>2. ASSUME NEW i \in 1..Len(c) PROVE c[i] < s <=> i <= k
      BY <1>1, <2>1, <2>4 DEF Split
    <3>3. Split(c, total + 1, pops, s, k)
      BY <1>1, <2>1, <2>2, <3>2 DEF Split
    <3>4. QED
      BY <1>2, <2>4, <3>1, <3>3, RateAssumption DEF Counted, c
  <2>5. QED
    BY <2>3, <2>4
<1>3. CASE now > s + Window
  BY <1>3, RateAssumption DEF Counted
<1>4. QED
  BY <1>2, <1>3, RateAssumption

(* When a window closes no more have passed in it than the bucket holds and each of the
   other threads has dropped; the bucket holds the limit and one more for each of them. *)
LEMMA CountedClosed ==
  ASSUME NEW b \in Seq(Nat), NEW total \in Nat, NEW pops \in Nat, NEW now \in Nat, NEW s \in Nat,
         Counted(b, total, pops, now, s), Len(b) <= Limit + Others
  PROVE  /\ Counted(b, total, pops, now + 1, s)
         /\ total <= Limit + 2 * Others
<1>1. Others \in Nat
  BY RateAssumption, FS_CardinalityType, FS_EmptySet DEF Others
<1>2. CASE now <= s + Window
  <2>1. PICK k \in 0..Len(b) : Split(b, total, pops, s, k)
    BY <1>2 DEF Counted
  <2>2. total <= Len(b) + Others
    BY <1>1, <2>1 DEF Split
  <2>3. total <= Limit + 2 * Others
    BY <1>1, <2>2, RateAssumption
  <2>4. QED
    BY <1>2, <2>1, <2>3, RateAssumption DEF Counted
<1>3. QED
  BY <1>1, <1>2, RateAssumption DEF Counted

(* What the lemmas above need to know of the gate. *)
LEMMA GateNumbers ==
  ASSUME RateSound
  PROVE  /\ bucket \in Seq(Nat) /\ passed \in [0..MaxTime -> Nat]
         /\ gate \in [Threads -> [pc : GatePoints, now : Nat]]
<1>1. bucket \in Seq(0..MaxTime) /\ MaxTime \in Nat
  BY RateAssumption DEF RateSound, RateTypeOK
<1>2. QED
  BY <1>1 DEF RateSound, RateTypeOK

(* A thread that neither appends nor pops leaves the counts as they are. *)
LEMMA EnteringCounts ==
  ASSUME WindowInv, RateSound, NEW t \in Threads, UNCHANGED <<clock, bucket, passed>>,
         \A u \in Threads \ {t} : gate'[u] = gate[u],
         gate[t].pc \notin {"pop", "append"}, gate'[t].pc \notin {"pop", "append"},
         gate'[t].pc = "test" => gate'[t].now = clock
  PROVE  WindowInv'
<1>1. \A u \in Threads \ {t} : gate'[u].pc = gate[u].pc
  OBVIOUS
<1>2. Cardinality(Gating("pop")') = Cardinality(Gating("pop"))
  BY <1>1, GateMoves
<1>3. Cardinality(Gating("append")') = Cardinality(Gating("append"))
  BY <1>1, GateMoves
<1>4. InTime'
  BY DEF WindowInv, InTime
<1>5. AdmittedBounded'
  BY <1>3 DEF WindowInv, AdmittedBounded
<1>6. ASSUME NEW s \in 0..MaxTime - Window PROVE WindowCounted(s)'
  BY <1>2 DEF WindowInv, WindowCounted, PassedFrom
<1>7. QED
  BY <1>4, <1>5, <1>6 DEF WindowInv

(* A thread that tests the bucket finds something old in it, or room, or none. *)
LEMMA TestCounts ==
  ASSUME WindowInv, RateSound, NEW t \in Threads, UNCHANGED clock,
         \A u \in Threads \ {t} : gate'[u] = gate[u], TestBucket(t)
  PROVE  WindowInv'
<1>1. /\ clock \in Nat /\ Window \in Nat /\ Limit \in Nat /\ MaxTime \in Nat /\ Others \in Nat
      /\ Len(bucket) \in Nat /\ \A i \in 1..Len(bucket) : bucket[i] \in Nat
      /\ \A pc : Cardinality(Gating(pc)) \in 0..Others + 1
      /\ \A s \in 0..MaxTime - Window : s \in Nat /\ PassedFrom(s) \in Nat
  BY GateCounts
<1>2. /\ bucket \in Seq(Nat) /\ gate \in [Threads -> [pc : GatePoints, now : Nat]]
  BY GateNumbers
<1>3. /\ gate[t].pc = "test" /\ gate[t].now = clock /\ UNCHANGED <<bucket, passed>>
  BY DEF TestBucket, GateAt, WindowInv, InTime
<1>4. \A u \in Threads \ {t} : gate'[u].pc = gate[u].pc
  OBVIOUS
<1>5. /\ gate'[t].pc \in {"refused", "pop", "append"}
      /\ gate'[t].pc \in {"pop", "append"} => gate'[t].now = clock
      /\ gate'[t].pc = "pop" <=> Outdated(t)
      /\ gate'[t].pc = "append" => Len(bucket) < Limit
  BY <1>1, <1>2, <1>3 DEF TestBucket, Pass, GateTo
<1>6. CASE gate'[t].pc = "refused"
  BY <1>3, <1>5, <1>6, EnteringCounts
<1>7. InTime'
  BY <1>3, <1>5 DEF WindowInv, InTime
<1>8. CASE gate'[t].pc = "pop"
  <2>1. Cardinality(Gating("pop")') = Cardinality(Gating("pop")) + 1
    BY <1>3, <1>4, <1>8, GateMoves
  <2>2. Cardinality(Gating("append")') = Cardinality(Gating("append"))
    BY <1>3, <1>4, <1>8, GateMoves
  <2>3. bucket # <<>> /\ bucket[1] \in Nat /\ clock - bucket[1] > Window
    BY <1>2, <1>3, <1>5, <1>8 DEF Outdated
  <2>4. ASSUME NEW s \in 0..MaxTime - Window PROVE WindowCounted(s)'
    <3>1. clock > s + Window \/ (bucket # <<>> /\ bucket[1] < s)
      BY <1>1, <2>3
    <3>2. Counted(bucket, PassedFrom(s), Cardinality(Gating("pop")) + 1, clock, s)
      BY <1>1, <1>2, <3>1, CountedStill DEF WindowInv, WindowCounted
    <3>3. QED
      BY <1>3, <2>1, <3>2 DEF WindowCounted, PassedFrom
  <2>5. AdmittedBounded'
    BY <1>3, <2>2 DEF WindowInv, AdmittedBounded
  <2>6. QED
    BY <1>7, <2>4, <2>5 DEF WindowInv
<1>9. CASE gate'[t].pc = "append"
  <2>1. Cardinality(Gating("pop")') = Cardinality(Gating("pop"))
    BY <1>3, <1>4, <1>9, GateMoves
  <2>2. Cardinality(Gating("append")') \in 0..Others + 1
    <3>1. Gating("append")' \in SUBSET Threads /\ Cardinality(Threads) = Others + 1
      BY RateAssumption, FS_CardinalityType DEF Gating, Others
    <3>2. QED
      BY <3>1, RateAssumption, FS_Subset, FS_CardinalityType
  <2>3. AdmittedBounded'
    BY <1>1, <1>3, <1>5, <1>9, <2>2 DEF AdmittedBounded, Others
  <2>4. ASSUME NEW s \in 0..MaxTime - Window PROVE WindowCounted(s)'
    BY <1>3, <2>1 DEF WindowInv, WindowCounted, PassedFrom
  <2>5. QED
    BY <1>7, <2>3, <2>4 DEF WindowInv
<1>10. QED
  BY <1>5, <1>6, <1>8, <1>9

(* A thread that pops drops the head, whatever it is by now. *)
LEMMA PopCounts ==
  ASSUME WindowInv, RateSound, NEW t \in Threads, UNCHANGED clock,
         \A u \in Threads \ {t} : gate'[u] = gate[u], PopHead(t)
  PROVE  WindowInv'
<1> DEFINE pops == Cardinality(Gating("pop"))
<1>1. /\ clock \in Nat /\ Window \in Nat /\ Limit \in Nat /\ MaxTime \in Nat /\ Others \in Nat
      /\ Len(bucket) \in Nat /\ \A i \in 1..Len(bucket) : bucket[i] \in Nat
      /\ \A pc : Cardinality(Gating(pc)) \in 0..Others + 1
      /\ \A s \in 0..MaxTime - Window : s \in Nat /\ PassedFrom(s) \in Nat
  BY GateCounts
<1>2. /\ bucket \in Seq(Nat) /\ gate \in [Threads -> [pc : GatePoints, now : Nat]]
  BY GateNumbers
<1>3. gate[t].pc = "pop" /\ gate[t].now = clock /\ UNCHANGED passed
  BY DEF PopHead, GateAt, WindowInv, InTime
<1>4. \A u \in Threads \ {t} : gate'[u].pc = gate[u].pc
  OBVIOUS
<1>5. /\ gate'[t].pc \in {"broken", "test"} /\ (gate'[t].pc = "test" => gate'[t].now = clock)
      /\ IF bucket = <<>> THEN UNCHANGED bucket ELSE bucket' = Tail(bucket)
  BY <1>2, <1>3 DEF PopHead, Pass, GateTo
<1>6. /\ Cardinality(Gating("pop")') = pops - 1 /\ pops - 1 <= Others
      /\ pops \in Nat \ {0} /\ pops - 1 \in Nat
  <2>1. Cardinality(Gating("pop")') = pops - 1 /\ Cardinality(Gating("pop")') <= Others
    BY <1>3, <1>4, <1>5, GateMoves
  <2>2. IsFiniteSet(Gating("pop")) /\ Gating("pop") # {}
    BY <1>3, GateCounts DEF Gating, GateAt
  <2>3. QED
    BY <1>1, <2>1, <2>2, FS_EmptySet
<1>7. Cardinality(Gating("append")') = Cardinality(Gating("append"))
  BY <1>3, <1>4, <1>5, GateMoves
<1>8. Len(bucket') \in 0..Len(bucket) /\ \A i \in 1..Len(bucket') : bucket'[i] <= clock
  <2>1. \A i \in 1..Len(bucket) : bucket[i] <= clock
    BY DEF WindowInv, InTime
  <2>2. CASE bucket = <<>>
    BY <1>1, <1>5, <2>1, <2>2
  <2>3. CASE bucket # <<>>
    <3>1. /\ Len(Tail(bucket)) = Len(bucket) - 1
          /\ \A i \in 1..Len(Tail(bucket)) : Tail(bucket)[i] = bucket[i + 1] /\ i + 1 \in 1..Len(bucket)
      BY <1>2, <2>3
    <3>2. bucket' = Tail(bucket) /\ Len(bucket) > 0
      BY <1>2, <1>5, <2>3
    <3>3. QED
      BY <1>1, <2>1, <3>1, <3>2
  <2>4. QED
    BY <2>2, <2>3
<1>9. InTime'
  BY <1>5, <1>8 DEF WindowInv, InTime
<1>10. AdmittedBounded'
  BY <1>1, <1>7, <1>8 DEF WindowInv, AdmittedBounded, Others
<1>11. ASSUME NEW s \in 0..MaxTime - Window PROVE WindowCounted(s)'
  <2>1. Counted(bucket, PassedFrom(s), pops, clock, s)
    BY DEF WindowInv, WindowCounted
  <2> HIDE DEF pops
  <2>2. Counted(bucket', PassedFrom(s), pops - 1, clock, s)
    <3>1. CASE bucket = <<>>
      <4>1. pops - 1 <= pops
        BY <1>6
      <4>2. Counted(bucket, PassedFrom(s), pops - 1, clock, s)
        BY <1>1, <1>2, <1>6, <2>1, <4>1, CountedStill
      <4>3. QED
        BY <1>5, <3>1, <4>2
    <3>2. CASE bucket # <<>>
      <4>1. Counted(Tail(bucket), PassedFrom(s), pops - 1, clock, s)
        BY <1>1, <1>2, <1>6, <2>1, <3>2, CountedPopped
      <4>2. QED
        BY <1>5, <3>2, <4>1
    <3>3. QED
      BY <3>1, <3>2
  <2>3. QED
    BY <1>3, <1>6, <2>2 DEF WindowCounted, PassedFrom, pops
<1>12. QED
  BY <1>9, <1>10, <1>11 DEF WindowInv

(* A thread that appends its arrival counts it in every window it is of. *)
LEMMA AppendCounts ==
  ASSUME WindowInv, RateSound, NEW t \in Threads, UNCHANGED clock,
         \A u \in Threads \ {t} : gate'[u] = gate[u], AppendRequest(t)
  PROVE  WindowInv'
<1>1. /\ clock \in Nat /\ Window \in Nat /\ Limit \in Nat /\ MaxTime \in Nat /\ Others \in Nat
      /\ Len(bucket) \in Nat /\ \A i \in 1..Len(bucket) : bucket[i] \in Nat
      /\ \A pc : Cardinality(Gating(pc)) \in 0..Others + 1
      /\ \A s \in 0..MaxTime - Window : s \in Nat /\ PassedFrom(s) \in Nat
  BY GateCounts
<1>2. /\ bucket \in Seq(Nat) /\ gate \in [Threads -> [pc : GatePoints, now : Nat]]
      /\ passed \in [0..MaxTime -> Nat]
  BY GateNumbers
<1>3. /\ gate[t].pc = "append" /\ gate[t].now = clock /\ clock \in 0..MaxTime
      /\ bucket' = Append(bucket, clock) /\ passed' = [passed EXCEPT ![clock] = @ + 1]
  BY DEF AppendRequest, GateAt, WindowInv, InTime, RateSound, RateTypeOK
<1>4. \A u \in Threads \ {t} : gate'[u].pc = gate[u].pc
  OBVIOUS
<1>5. gate'[t].pc = "in"
  BY <1>2 DEF AppendRequest, Pass
<1>6. Cardinality(Gating("pop")') = Cardinality(Gating("pop"))
  BY <1>3, <1>4, <1>5, GateMoves
<1>7. Cardinality(Gating("append")') = Cardinality(Gating("append")) - 1
  BY <1>3, <1>4, <1>5, GateMoves
<1>8. \A i \in 1..Len(bucket) : bucket[i] <= clock
  BY DEF WindowInv, InTime
<1>9. InTime'
  <2>1. \A i \in 1..Len(bucket') : bucket'[i] <= clock
    BY <1>1, <1>2, <1>3, <1>8
  <2>2. QED
    BY <1>5, <2>1 DEF WindowInv, InTime
<1>10. AdmittedBounded'
  <2>1. Len(bucket') = Len(bucket) + 1
    BY <1>2, <1>3
  <2>2. QED
    BY <1>1, <1>7, <2>1 DEF WindowInv, AdmittedBounded, Others
<1>11. ASSUME NEW s \in 0..MaxTime - Window PROVE WindowCounted(s)'
  <2> DEFINE S == s..s + Window
  <2>1. s \in Nat /\ s + Window \in Int /\ s + Window <= MaxTime
    BY <1>1
  <2>2. IsFiniteSet(S)
    BY <2>1, FS_Interval
  <2>3. S \subseteq 0..MaxTime
    BY <1>1, <2>1
  <2>4. clock \in S <=> clock \in s..s + Window
    OBVIOUS
  <2> HIDE DEF S
  <2>5. Total(passed', S) = Total(passed, S) + IF clock \in S THEN 1 ELSE 0
    <3>1. Raised(passed, passed', S, clock, 1)
      <4>1. \A i \in S : passed[i] \in Int /\ i \in 0..MaxTime
        BY <1>2, <2>3
      <4>2. passed'[clock] = passed[clock] + 1 /\ \A i \in 0..MaxTime \ {clock} : passed'[i] = passed[i]
        BY <1>2, <1>3
      <4>3. QED
        BY <4>1, <4>2 DEF Raised
    <3>2. /\ Total(passed, S) \in Int
          /\ clock \in S => Total(passed', S) = Total(passed, S) + 1
          /\ clock \notin S => Total(passed', S) = Total(passed, S)
      BY <2>2, <3>1, TotalRaised
    <3>3. QED
      BY <3>2
  <2>6. PassedFrom(s)' = PassedFrom(s) + IF clock \in s..s + Window THEN 1 ELSE 0
    BY <2>4, <2>5 DEF PassedFrom, S
  <2> DEFINE pops == Cardinality(Gating("pop"))
             more == IF clock \in s..s + Window THEN 1 ELSE 0
  <2>7. Counted(bucket', PassedFrom(s)', pops, clock, s)
    <3>1. Counted(bucket, PassedFrom(s), pops, clock, s) /\ pops \in Nat
      BY <1>1 DEF WindowInv, WindowCounted
    <3> HIDE DEF pops
    <3>2. Counted(Append(bucket, clock), PassedFrom(s) + more, pops, clock, s)
      BY <1>1, <1>2, <1>8, <3>1, CountedAppended
    <3>3. QED
      BY <1>3, <2>6, <3>2
  <2>8. QED
    BY <1>6, <2>7 DEF WindowCounted
<1>12. QED
  BY <1>9, <1>10, <1>11 DEF WindowInv

(* The clock moves on when no thread is between its test and its append. *)
LEMMA TickCounts ==
  ASSUME WindowInv, RateSound, Tick, UNCHANGED rateVars
  PROVE  WindowInv'
<1>1. /\ clock \in Nat /\ Window \in Nat /\ Limit \in Nat /\ MaxTime \in Nat /\ Others \in Nat
      /\ Len(bucket) \in Nat /\ \A i \in 1..Len(bucket) : bucket[i] \in Nat
      /\ \A pc : Cardinality(Gating(pc)) \in 0..Others + 1
      /\ \A s \in 0..MaxTime - Window : s \in Nat /\ PassedFrom(s) \in Nat
  BY GateCounts
<1>2. bucket \in Seq(Nat)
  BY GateNumbers
<1>3. /\ clock' = clock + 1 /\ UNCHANGED <<bucket, gate, passed>>
      /\ \A t \in Threads : gate[t].pc \notin {"test", "pop", "append"}
  BY DEF Tick, rateVars
<1>4. InTime' /\ AdmittedBounded'
  BY <1>1, <1>3 DEF WindowInv, InTime, AdmittedBounded, Gating, GateAt
<1>5. Len(bucket) <= Limit + Others
  BY <1>1 DEF WindowInv, AdmittedBounded
<1>6. ASSUME NEW s \in 0..MaxTime - Window PROVE WindowCounted(s)'
  <2>1. Counted(bucket, PassedFrom(s), Cardinality(Gating("pop")), clock + 1, s)
    BY <1>1, <1>2, <1>5, CountedClosed DEF WindowInv, WindowCounted
  <2>2. QED
    BY <1>3, <2>1 DEF WindowCounted, PassedFrom, Gating, GateAt
<1>7. QED
  BY <1>4, <1>6 DEF WindowInv

\* A gate that starts, or starts again, has counted nothing.
EmptyGate ==
  /\ bucket = <<>> /\ clock \in Nat /\ passed = [i \in 0..MaxTime |-> 0]
  /\ \A t \in Threads : gate[t].pc = "out"

(* A gate nobody has come to satisfies the counts. *)
LEMMA EmptyCounts == EmptyGate => WindowInv
<1> SUFFICES ASSUME EmptyGate PROVE WindowInv
  OBVIOUS
<1>1. /\ Window \in Nat /\ Limit \in Nat /\ MaxTime \in Nat /\ Others \in Nat /\ Len(bucket) = 0
  BY RateAssumption, FS_CardinalityType, FS_EmptySet DEF Others, EmptyGate
<1>2. \A pc \in {"pop", "append"} : Cardinality(Gating(pc)) = 0
  <2>1. \A pc \in {"pop", "append"} : Gating(pc) = {}
    BY DEF Gating, GateAt, EmptyGate
  <2>2. QED
    BY <2>1, FS_EmptySet
<1>3. InTime /\ AdmittedBounded
  BY <1>1, <1>2 DEF InTime, AdmittedBounded, EmptyGate
<1>4. ASSUME NEW s \in 0..MaxTime - Window PROVE WindowCounted(s)
  <2> DEFINE S == s..s + Window
  <2>1. s \in Nat /\ s + Window \in Int /\ s + Window <= MaxTime
    BY <1>1
  <2>2. IsFiniteSet(S)
    BY <2>1, FS_Interval
  <2>3. \A i \in S : passed[i] = 0
    BY <1>1, <2>1 DEF EmptyGate
  <2> HIDE DEF S
  <2>4. Total(passed, S) = 0
    BY <2>2, <2>3, TotalOfZeros
  <2>5. PassedFrom(s) = 0
    BY <2>4 DEF PassedFrom, S
  <2>6. Split(bucket, 0, 0, s, 0) /\ 0 \in 0..Len(bucket)
    BY <1>1 DEF Split, EmptyGate
  <2>7. QED
    BY <1>1, <1>2, <2>5, <2>6 DEF WindowCounted, Counted, EmptyGate
<1>5. QED
  BY <1>3, <1>4 DEF WindowInv

(* A step that leaves the gate alone leaves its counts. *)
LEMMA CountsKept ==
  ASSUME WindowInv, UNCHANGED <<clock, bucket, gate, passed>>
  PROVE  WindowInv'
BY DEF WindowInv, InTime, AdmittedBounded, WindowCounted, PassedFrom, Gating, GateAt

(* A thread that has passed the gate, or was turned away, leaves it. *)
LEMMA LeavingCounts ==
  ASSUME WindowInv, RateSound, NEW t \in Threads, LeaveGate(t), UNCHANGED <<clock, bucket, passed>>,
         gate[t].pc \in {"in", "refused", "broken"}
  PROVE  WindowInv'
<1>1. /\ gate'[t].pc = "out" /\ \A u \in Threads \ {t} : gate'[u] = gate[u]
  BY GateNumbers DEF LeaveGate, Pass
<1>2. QED
  BY <1>1, EnteringCounts

(* A thread enters the gate with the time of its arrival. *)
LEMMA ArrivalCounts ==
  ASSUME WindowInv, RateSound, NEW t \in Threads, EnterGate(t), UNCHANGED clock
  PROVE  WindowInv'
<1>1. /\ gate'[t].pc = "test" /\ gate'[t].now = clock /\ gate[t].pc = "out"
      /\ \A u \in Threads \ {t} : gate'[u] = gate[u]
  BY GateNumbers DEF EnterGate, GateAt
<1>2. UNCHANGED <<bucket, passed>>
  BY DEF EnterGate
<1>3. QED
  BY <1>1, <1>2, EnteringCounts

(* Every step keeps the counts of the windows. *)
LEMMA WindowStep ==
  ASSUME WindowInv, UnderwritingInv, [UnderwritingNext]_uvars
  PROVE  WindowInv'
<1>1. RateSound
  BY DEF UnderwritingInv
<1>2. CASE Tick /\ UNCHANGED <<faults, rateVars, riskVars, policyVars>>
  BY <1>1, <1>2, TickCounts
<1>3. ASSUME NEW t \in Threads, Request(t)
      PROVE  WindowInv'
  <2>1. EnterGate(t) /\ UNCHANGED clock
    BY <1>3 DEF Request, Begin, apart
  <2>2. QED
    BY <1>1, <2>1, ArrivalCounts
<1>4. ASSUME NEW t \in Threads, PolicyStep(t)
      PROVE  WindowInv'
  <2>1. CASE InGate(t)
    <3>1. EnforceRateLimit(t) /\ UNCHANGED clock
      BY <2>1 DEF InGate, apart
    <3>2. \A u \in Threads \ {t} : gate'[u] = gate[u]
      BY <1>1, <3>1, EnforceKeeps
    <3>3. QED
      BY <1>1, <3>1, <3>2, TestCounts, PopCounts, AppendCounts DEF EnforceRateLimit
  <2>2. CASE PassGate(t) \/ TurnedAway(t)
    <3>1. LeaveGate(t) /\ UNCHANGED <<clock, bucket, passed>> /\ gate[t].pc \in {"in", "refused", "broken"}
      BY <2>2 DEF PassGate, TurnedAway, GateAt, apart
    <3>2. QED
      BY <1>1, <3>1, LeavingCounts
  <2>3. CASE BeginValidate(t)
    <3>1. EnterGate(t) /\ UNCHANGED clock
      BY <2>3 DEF BeginValidate, apart
    <3>2. QED
      BY <1>1, <3>1, ArrivalCounts
  <2>4. CASE UNCHANGED <<clock, rateVars>>
    BY <2>4, CountsKept DEF rateVars
  <2>5. QED
    BY <1>4, <2>1, <2>2, <2>3, <2>4
       DEF PolicyStep, ResolveZone, ResolveFails, AskRisk, RiskAnswers, RiskUnknown, InsertPolicy,
           LogCreated, GetLatest, FindPolicy, SaveActive, LogActive, GetAnswered, AnswerLost,
           CheckPolicy, FraudAnswers, SaveValidated, LogValidated, StatementFails, quiet, apart
<1>5. CASE PolicyCrash
  <2>1. clock \in Nat
    BY <1>1, GateCounts
  <2>2. EmptyGate'
    BY <1>5, <2>1 DEF PolicyCrash, EmptyGate
  <2>3. EmptyGate' => WindowInv'
    BY EmptyCounts, PTL
  <2>4. QED
    BY <2>2, <2>3
<1>6. CASE UNCHANGED <<clock, rateVars>>
  BY <1>6, CountsKept DEF rateVars
<1>7. QED
  BY <1>2, <1>3, <1>4, <1>5, <1>6 DEF UnderwritingNext, Consult, uvars

\* However the threads interleave, a window passes at most two requests more than the limit for
\* each thread but one: one that passed the count together with others, and one whose arrival
\* another thread dropped in the place of an older one (enforce_rate_limit).
THEOREM WindowIsBounded == UnderwritingSpec => []WindowBound
<1>1. UnderwritingInit => WindowInv
  <2>1. SUFFICES ASSUME UnderwritingInit PROVE WindowInv
    OBVIOUS
  <2>2. EmptyGate
    BY <2>1 DEF UnderwritingInit, RateInit, EmptyGate
  <2>3. QED
    BY <2>2, EmptyCounts
<1>2. WindowInv /\ UnderwritingInv /\ [UnderwritingNext]_uvars => WindowInv'
  BY WindowStep
<1>3. WindowInv /\ UnderwritingInv => WindowBound
  <2>1. SUFFICES ASSUME WindowInv, RateSound, NEW s \in 0..MaxTime - Window
                 PROVE  PassedFrom(s) <= Limit + 2 * Others
    BY DEF UnderwritingInv, WindowBound, PassedFrom, Total, Others
  <2>2. /\ clock \in Nat /\ Limit \in Nat /\ Others \in Nat /\ Len(bucket) \in Nat
        /\ Cardinality(Gating("append")) \in Nat /\ Cardinality(Gating("pop")) \in Nat
        /\ s \in Nat /\ PassedFrom(s) \in Nat
    BY <2>1, GateCounts
  <2>3. Len(bucket) <= Limit + Others
    BY <2>1, <2>2 DEF WindowInv, AdmittedBounded
  <2>4. bucket \in Seq(Nat)
    BY <2>1, GateNumbers
  <2>5. QED
    BY <2>1, <2>2, <2>3, <2>4, CountedClosed DEF WindowInv, WindowCounted
<1>4. QED
  BY <1>1, <1>2, <1>3, UnderwritingInductive, PTL DEF UnderwritingSpec
=============================================================================
