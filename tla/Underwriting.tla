---------------------------- MODULE Underwriting ----------------------------
(***************************************************************************)
(* The policy service behind its gate, the ai-risk service it prices by,   *)
(* and the clock that runs out waiting periods and windows of the gate.    *)
(***************************************************************************)
EXTENDS Policy

uvars == <<clock, faults, rateVars, riskVars, policyVars>>

UnderwritingInit == RateInit /\ RiskInit /\ PolicyInit /\ faults = 0

Request(t) ==
  \/ Begin(t, "cover", NoJob.app)
  \/ \E a \in Applications : Begin(t, "buy", a)

\* The claims and fraud services, which evaluate risks by themselves.
Consult ==
  \E c \in Consultations :
    StartEval(c.zone, c.metrics) /\ UNCHANGED <<clock, faults, rateVars, policyVars>>

UnderwritingNext ==
  \/ Tick /\ UNCHANGED <<faults, rateVars, riskVars, policyVars>>
  \/ \E t \in Threads : Request(t) \/ PolicyStep(t)
  \/ PolicyCrash
  \/ Consult
  \/ RiskNext /\ UNCHANGED <<clock, rateVars, policyVars>>

UnderwritingSpec == UnderwritingInit /\ [][UnderwritingNext]_uvars

-----------------------------------------------------------------------------

\* The policy tables, the predictions and the request threads have their shape.
UnderwritingTypeOK ==
  /\ RateTypeOK /\ RiskTypeOK
  /\ \A p \in DOMAIN policies :
       /\ policies[p].status \in {"waiting_period", "active"}
       /\ policies[p].premium \in Nat /\ policies[p].risk \in 100..130
  /\ \A t \in Threads :
       /\ job[t].pc \in {"idle", "gate", "resolve", "risk", "wait", "insert", "created",
                         "latest", "find", "save", "log", "refreshed", "found", "fraud",
                         "save2", "log2", "answered"}
       /\ job[t].row \in 0..Len(policies) /\ job[t].eval \in 0..Len(evals)
       /\ job[t].cover \in {"none", "unchecked", "degraded", "invalid", "valid"}

\* Stored premiums and logged scores keep the order of what they were computed from,
\* and every surcharge is backed by a logged prediction, whatever model answered.
PricesLawful ==
  UnderwritingTypeOK /\ PremiumsOrdered /\ SurchargesExplained /\ RiskOrdered
=============================================================================
