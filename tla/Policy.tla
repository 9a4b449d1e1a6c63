------------------------------- MODULE Policy -------------------------------
(***************************************************************************)
(* The policy service (src/backend/services/policy-pricing-service) and    *)
(* the claims service's client of it: a worker buys policies, looks at the *)
(* newest, and the claims service asks whether it covers a claim.  One     *)
(* action per database statement and remote call; one worker.              *)
(***************************************************************************)
EXTENDS Pricing, RateLimit, Risk

CONSTANTS
  Applications,  \* POST /policy/create: income, zone, week, days of activity, paid, and
                 \* whether the request names the zone and the days itself
  Waiting,       \* settings.waiting_period_hours, in ticks
  MaxRequests,   \* bound: requests
  MaxPolicies    \* bound: policies

ASSUME PolicyAssumption ==
  /\ Waiting \in Nat /\ MaxRequests \in Nat /\ MaxPolicies \in Nat
  /\ Applications # {} /\ Zones \subseteq DOMAIN TrainedScore
  /\ Applications \subseteq [income : Nat \ {0}, zone : Zones, week : Nat \ {0}, days : 0..7,
                            paid : BOOLEAN, complete : BOOLEAN]

VARIABLES
  policies,     \* the table policies, in the order of the inserts
  policy_logs,  \* entries of policy_logs, per policy and status
  job,          \* what each thread is doing
  requests, buys

tableVars == <<policies, policy_logs>>
counters == <<requests, buys>>
policyVars == <<tableVars, job, counters>>

NoJob == [pc |-> "idle", op |-> "cover", app |-> CHOOSE a \in Applications : TRUE, eval |-> 0,
          mult |-> 100, row |-> 0, seen |-> "active", cover |-> "none"]

PolicyInit ==
  /\ policies = <<>>
  /\ policy_logs = [p \in 1..MaxPolicies |-> [waiting_period |-> 0, active |-> 0]]
  /\ job = [t \in Threads |-> NoJob]
  /\ requests = 0 /\ buys = 0

At(t, pc) == job[t].pc = pc
To(t, pc) == job' = [job EXCEPT ![t].pc = pc]
\* Of a request that was answered only the answer and the policy matter.
Answer(t, cover) ==
  job' = [job EXCEPT ![t] = [NoJob EXCEPT !.pc = "answered", !.row = job[t].row, !.cover = cover]]

\* get_latest_by_user: the order of rows inserted in the same instant is open.
Latest == {p \in DOMAIN policies : \A q \in DOMAIN policies : policies[q].created <= policies[p].created}

Due(p) == policies[p].paid /\ clock >= policies[p].waiting_end

apart == <<clock, riskVars, faults>>

-----------------------------------------------------------------------------
(* Requests and the gate.                                                  *)

\* A request to buy, or of the claims service, which looks at the newest policy and
\* then asks about it; the worker's app only looks, the first half of that.
Begin(t, op, app) ==
  /\ job[t].pc \in {"idle", "answered"} /\ requests < MaxRequests
  /\ op = "buy" => buys < MaxPolicies
  /\ buys' = IF op = "buy" THEN buys + 1 ELSE buys
  /\ job' = [job EXCEPT ![t] = [NoJob EXCEPT !.pc = "gate", !.op = op, !.app = app]]
  /\ requests' = requests + 1
  /\ EnterGate(t) /\ UNCHANGED <<apart, tableVars>>

\* The second request of the claims service names the policy the first answered.
BeginValidate(t) ==
  /\ At(t, "found") /\ requests < MaxRequests
  /\ job' = [job EXCEPT ![t].pc = "gate", ![t].op = "validate"]
  /\ requests' = requests + 1
  /\ EnterGate(t) /\ UNCHANGED <<apart, tableVars, buys>>

InGate(t) == EnforceRateLimit(t) /\ UNCHANGED <<apart, policyVars>>

\* _resolve_zone_and_activity asks the identity service only for what is missing.
FirstStep(s) ==
  CASE s.op = "buy" -> IF s.app.complete THEN "risk" ELSE "resolve"
    [] s.op = "validate" -> "find"
    [] OTHER -> "latest"

PassGate(t) ==
  /\ GateAt(t, "in") /\ LeaveGate(t) /\ To(t, FirstStep(job[t]))
  /\ UNCHANGED <<apart, bucket, passed, tableVars, counters>>

\* 429, or 500 when the bucket was emptied between test and pop.  The claims service
\* takes a 4xx for valid and a 5xx for degraded.
TurnedAway(t) ==
  /\ gate[t].pc \in {"refused", "broken"} /\ LeaveGate(t)
  /\ Answer(t, IF GateAt(t, "refused") THEN "unchecked" ELSE "degraded")
  /\ UNCHANGED <<apart, bucket, passed, tableVars, counters>>

-----------------------------------------------------------------------------
(* create_policy.                                                          *)

quiet == <<apart, rateVars, counters>>

ResolveZone(t) ==
  /\ At(t, "resolve") /\ To(t, "risk")
  /\ UNCHANGED <<quiet, tableVars>>

\* The identity service cannot be asked: the request fails.
ResolveFails(t) ==
  /\ At(t, "resolve") /\ Fault /\ Answer(t, "none")
  /\ UNCHANGED <<clock, riskVars, rateVars, tableVars, counters>>

\* get_premium_multiplier.
AskRisk(t) ==
  /\ At(t, "risk") /\ StartEval(job[t].app.zone, PolicyMetrics)
  /\ job' = [job EXCEPT ![t].pc = "wait", ![t].eval = Len(evals) + 1]
  /\ UNCHANGED <<clock, faults, rateVars, tableVars, counters>>

RiskAnswers(t) ==
  /\ At(t, "wait") /\ evals[job[t].eval].pc = "answered"
  /\ job' = [job EXCEPT ![t].pc = "insert", ![t].eval = 0,
                     ![t].mult = Multiplier(ScoreOf(job[t].eval))]
  /\ UNCHANGED <<quiet, tableVars>>

\* Refused, failed or timed out, while the ai-risk service may go on: no surcharge.
RiskUnknown(t) ==
  /\ At(t, "wait") /\ To(t, "insert")
  /\ \/ EvalAt(job[t].eval, "error") /\ UNCHANGED faults
     \/ Fault
  /\ UNCHANGED <<clock, riskVars, rateVars, tableVars, counters>>

InsertPolicy(t) ==
  LET a == job[t].app IN
  /\ At(t, "insert")
  /\ policies' = Append(policies,
       [status |-> "waiting_period", app |-> a, risk |-> job[t].mult, paid |-> a.paid,
        premium |-> TotalPremium(a.income, a.zone, a.week, job[t].mult),
        created |-> clock, waiting_end |-> clock + Waiting])
  /\ job' = [job EXCEPT ![t].pc = "created", ![t].row = Len(policies) + 1]
  /\ UNCHANGED <<quiet, policy_logs>>

\* Then POLICY_CREATED is published, or the broker's error swallowed: no service
\* listens to it.
LogCreated(t) ==
  /\ At(t, "created") /\ Answer(t, "none")
  /\ policy_logs' = [policy_logs EXCEPT ![job[t].row].waiting_period = @ + 1]
  /\ UNCHANGED <<quiet, policies>>

-----------------------------------------------------------------------------
(* get_policy_by_user and validate_policy.                                 *)

\* A mistake in the place of Refresh: whatever the status was.
RefreshAgain(t, p) ==
  job' = [job EXCEPT ![t].row = p, ![t].pc = IF Due(p) THEN "save" ELSE "refreshed",
                     ![t].seen = IF Due(p) THEN "active" ELSE policies[p].status]

\* _refresh_status_if_eligible, up to its decision.
Refresh(t, p) ==
  LET due == policies[p].status = "waiting_period" /\ Due(p) IN
  job' = [job EXCEPT ![t].row = p, ![t].pc = IF due THEN "save" ELSE "refreshed",
                     ![t].seen = IF due THEN "active" ELSE policies[p].status]

GetLatest(t) ==
  /\ At(t, "latest")
  /\ IF policies = <<>> THEN Answer(t, "unchecked") ELSE \E p \in Latest : Refresh(t, p)
  /\ UNCHANGED <<quiet, tableVars>>

FindPolicy(t) ==
  /\ At(t, "find") /\ Refresh(t, job[t].row)
  /\ UNCHANGED <<quiet, tableVars>>

\* policy_repo.save and log_repo.create are two commits.
SaveActive(t) ==
  /\ At(t, "save") /\ To(t, "log")
  /\ policies' = [policies EXCEPT ![job[t].row].status = "active"]
  /\ UNCHANGED <<quiet, policy_logs>>

LogActive(t) ==
  /\ At(t, "log") /\ To(t, "refreshed")
  /\ policy_logs' = [policy_logs EXCEPT ![job[t].row].active = @ + 1]
  /\ UNCHANGED <<quiet, policies>>

GetAnswered(t) ==
  /\ At(t, "refreshed") /\ job[t].op = "cover" /\ To(t, "found")
  /\ UNCHANGED <<quiet, tableVars>>

\* The answer to either request is lost, or late: the claims service goes on as degraded.
AnswerLost(t) ==
  /\ At(t, "refreshed") /\ Fault /\ Answer(t, "degraded")
  /\ UNCHANGED <<clock, riskVars, rateVars, tableVars, counters>>

\* The checks before the call of the fraud service.
CheckPolicy(t) ==
  /\ At(t, "refreshed") /\ job[t].op = "validate"
  /\ IF policies[job[t].row].app.days < 3 \/ clock < policies[job[t].row].waiting_end
       THEN Answer(t, "invalid") ELSE To(t, "fraud")
  /\ UNCHANGED <<quiet, tableVars>>

\* A mistake in the place of FraudAnswers: the premium is not asked for.
FraudAnswersUnpaid(t) ==
  /\ At(t, "fraud")
  /\ \/ Answer(t, "invalid")
     \/ IF job[t].seen = "waiting_period" THEN To(t, "save2") ELSE Answer(t, "valid")
  /\ UNCHANGED <<quiet, tableVars>>

\* is_user_flagged, for which an error is a pass; then the premium; then a policy that
\* came due after the refresh is activated here.
FraudAnswers(t) ==
  /\ At(t, "fraud")
  /\ \/ Answer(t, "invalid")
     \/ /\ ~policies[job[t].row].paid /\ Answer(t, "invalid")
     \/ /\ policies[job[t].row].paid
        /\ IF job[t].seen = "waiting_period" THEN To(t, "save2") ELSE Answer(t, "valid")
  /\ UNCHANGED <<quiet, tableVars>>

SaveValidated(t) ==
  /\ At(t, "save2") /\ To(t, "log2")
  /\ policies' = [policies EXCEPT ![job[t].row].status = "active"]
  /\ UNCHANGED <<quiet, policy_logs>>

LogValidated(t) ==
  /\ At(t, "log2") /\ Answer(t, "valid")
  /\ policy_logs' = [policy_logs EXCEPT ![job[t].row].active = @ + 1]
  /\ UNCHANGED <<quiet, policies>>

\* A statement fails and is rolled back; what was committed before stays.
StatementFails(t) ==
  /\ job[t].pc \in {"insert", "created", "latest", "find", "save", "log", "save2", "log2"}
  /\ Fault /\ Answer(t, "degraded")
  /\ UNCHANGED <<clock, riskVars, rateVars, tableVars, counters>>

\* The process dies: its requests end and the buckets are forgotten.
PolicyCrash ==
  /\ Fault
  /\ job' = [t \in Threads |->
               IF job[t].pc \in {"idle", "answered"} THEN job[t]
               ELSE [NoJob EXCEPT !.pc = "answered", !.cover = "degraded"]]
  /\ bucket' = <<>> /\ passed' = [i \in 0..MaxTime |-> 0]
  /\ gate' = [t \in Threads |-> [pc |-> "out", now |-> 0]]
  /\ UNCHANGED <<clock, riskVars, tableVars, counters>>

PolicyStep(t) ==
  \/ InGate(t) \/ PassGate(t) \/ TurnedAway(t) \/ BeginValidate(t)
  \/ ResolveZone(t) \/ ResolveFails(t) \/ AskRisk(t) \/ RiskAnswers(t) \/ RiskUnknown(t)
  \/ InsertPolicy(t) \/ LogCreated(t)
  \/ GetLatest(t) \/ FindPolicy(t) \/ SaveActive(t) \/ LogActive(t) \/ GetAnswered(t)
  \/ AnswerLost(t) \/ CheckPolicy(t) \/ FraudAnswers(t) \/ SaveValidated(t) \/ LogValidated(t)
  \/ StatementFails(t)

-----------------------------------------------------------------------------

\* What the claims service is told, and what it may rely on: a policy it is told is
\* valid by a check that was made is active, paid, past its waiting period and backed
\* by enough days of activity, whoever activated it and however late the answer is.
CoverageLawful ==
  \A t \in Threads :
    At(t, "answered") /\ job[t].cover = "valid" =>
      LET p == policies[job[t].row] IN
        /\ p.status = "active" /\ p.paid /\ p.app.days >= 3
        /\ clock >= p.waiting_end

\* Activation and its log entry are two commits.  Every active policy has its entry
\* unless a request is between the two or was cut there; readers that race for one
\* policy enter it again, at most once each, and none is entered that is not active.
ActivationsLogged ==
  \A p \in DOMAIN policies :
    LET entries == policy_logs[p].active IN
    /\ policies[p].status = "active" /\ entries = 0 =>
         faults > 0 \/ \E t \in Threads : job[t].row = p /\ job[t].pc \in {"log", "log2"}
    /\ entries > 0 => policies[p].status = "active"
    /\ entries <= Cardinality(Threads)

\* A policy costs no less than any application that earns no more, in no dearer a
\* zone and in no earlier a week would have cost at the same risk or at a neutral one:
\* rounding never turns the order of two premiums.
PremiumsOrdered ==
  \A p \in DOMAIN policies : \A b \in Applications :
    LET a == policies[p].app IN
      a.income >= b.income /\ ZoneRate[a.zone] >= ZoneRate[b.zone] /\ a.week <= b.week
      => \A risk \in {100, policies[p].risk} :
           policies[p].premium >= TotalPremium(b.income, b.zone, b.week, risk)

\* A surcharge can be explained: a policy priced above the neutral multiplier has a
\* logged prediction for its zone that says so.
SurchargesExplained ==
  \A p \in DOMAIN policies :
    policies[p].risk > 100 =>
      \E k \in predictions :
        evals[k].zone = policies[p].app.zone /\ Multiplier(ScoreOf(k)) = policies[p].risk
=============================================================================
