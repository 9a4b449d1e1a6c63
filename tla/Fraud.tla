-------------------------------- MODULE Fraud --------------------------------
(***************************************************************************)
(* The fraud service (src/backend/services/fraud-service): claims are      *)
(* scored for POST /fraud/check, which the claims service calls while it   *)
(* processes a claim, and for CLAIM_INITIATED; an administrator may        *)
(* override.  Every check is a row of the log, and the log is an input of  *)
(* later checks.                                                           *)
(*                                                                         *)
(* Scores are in hundredths.  A row carries, as a history, the parts of    *)
(* its score that came with the request and from the ML scorer.            *)
(***************************************************************************)
EXTENDS Naturals, Sequences, FiniteSets

CONSTANTS
  FraudClaims,     \* claims
  FraudUserOf,     \* FraudClaims -> users
  Profiles,        \* activity reports of POST /fraud/check
  Signals,         \* what identity and ai-risk may add: subsets of {"zone", "risk"}
  ModelShares,     \* report -> what the ML scorer may add for it, 0 when it is off
  FraudApi,        \* API threads
  FraudConsumers,  \* consumer threads of the queue fraud.claims
  FraudRetries,    \* settings.retry_limit
  MaxCalls,        \* bound: API requests
  MaxFraudFaults   \* bound: failing statements and crashes

ASSUME FraudThreadAssumption == FraudApi \cap FraudConsumers = {}

\* check_claim_from_event reads activity from a payload that has none.
EventProfile ==
  [gps |-> TRUE, activity |-> 80, device |-> TRUE, severity |-> "none", type |-> "none"]

\* The scorer's answer, from 0 to 1, counts for a quarter.
ASSUME FraudValueAssumption ==
  /\ ModelShares \in [Profiles \cup {EventProfile} -> SUBSET (0 .. 25)]
  /\ Signals \subseteq SUBSET {"zone", "risk"}
  /\ FraudRetries \in Nat /\ MaxCalls \in Nat /\ MaxFraudFaults \in Nat

ASSUME FraudInputAssumption ==
  FraudClaims # {} /\ \A p \in Profiles : p.activity \in 0 .. 100

VARIABLES
  logs,        \* fraud_checks, in the order of created_at
  audits,      \* rows of the log that have an entry in fraud_audit_trail
  detected,    \* rows whose FRAUD_DETECTED was handed to the broker
  abandoned,   \* rows whose audit or event was lost to a fault or the broker
  check,       \* what each thread is doing
  queued,      \* unacknowledged CLAIM_INITIATED messages not in flight
  deadChecks,  \* claims whose message went to the DLQ
  calls, faults

fvars == <<logs, audits, detected, abandoned, check, queued, deadChecks, calls, faults>>

-----------------------------------------------------------------------------
(* Scoring.                                                                *)

FailThreshold == 70
MaxDuplicateClaims == 1
RecentWindow == 5

\* The most that the ML scorer can add to a score of 65 without failing it.
QuietShare == 4

If(condition, weight) == IF condition THEN weight ELSE 0

AtMost(bound, n) == IF n > bound THEN bound ELSE n

EventPenalty(p) ==
  AtMost(20, If(p.severity = "HIGH" /\ p.activity > 95, 10)
           + If(p.severity = "LOW" /\ p.activity < 20, 5)
           + If(p.type = "platform" /\ ~ p.gps, 5))

\* The part of _score_payload that looks at the request alone.
Evidence(p) ==
  If(~ p.gps, 60) + If(p.activity < 50, 50 - p.activity) + If(~ p.device, 20)
  + EventPenalty(p)

HistoryScore(count, fails) ==
  If(count >= MaxDuplicateClaims, 45) + If(fails >= 2, 20)

\* A mistake in the place of Verdict: the threshold at 65.
VerdictEarly(score) == IF score >= FailThreshold - 5 THEN "FAIL" ELSE "PASS"

Verdict(score) == IF score >= FailThreshold THEN "FAIL" ELSE "PASS"

-----------------------------------------------------------------------------
FraudThreads == FraudApi \cup FraudConsumers

FraudUsers == {FraudUserOf[c] : c \in FraudClaims}

CheckMessage == FraudClaims \X (0 .. FraudRetries)

RowsOfClaim(c) == {i \in DOMAIN logs : logs[i].claim = c}

RowsOfUser(u) == {i \in DOMAIN logs : FraudUserOf[logs[i].claim] = u}

\* latest_for_user(limit=5)
RecentRows(u) ==
  {i \in RowsOfUser(u) : Cardinality({j \in RowsOfUser(u) : j > i}) < RecentWindow}

RecentFails(u) == Cardinality({i \in RecentRows(u) : logs[i].status = "FAIL"})

NoCheck == [pc |-> "idle", source |-> "api", claim |-> CHOOSE c \in FraudClaims : TRUE,
            evidence |-> 0, signals |-> 0, share |-> 0, count |-> 0, status |-> "PASS",
            row |-> 0, retries |-> 0]

On(t, point) == check[t].pc = point
Now(t, record) == check' = [check EXCEPT ![t] = record]
Move(t, point) == Now(t, [check[t] EXCEPT !.pc = point])

\* A row whose audit entry or event is still to come and will not, if t stops.
Owed(t) == IF check[t].pc \in {"audit", "publish"} THEN {check[t].row} ELSE {}

reports == <<audits, detected, abandoned>>
queueVars == <<queued, deadChecks>>
fraudBounds == <<calls, faults>>

FraudInit ==
  /\ logs = <<>>
  /\ audits = {} /\ detected = {} /\ abandoned = {}
  /\ check = [t \in FraudThreads |-> NoCheck]
  /\ queued = [m \in CheckMessage |-> IF m[2] = 0 THEN 1 ELSE 0]
  /\ deadChecks = {}
  /\ calls = 0 /\ faults = 0

-----------------------------------------------------------------------------
(* Plausible mistakes, each in the place of the action it is named after.  *)

\* WriteAudit, for failures of the event consumer only.
WriteAuditOfEvents(t) ==
  /\ On(t, "audit") /\ Move(t, "publish")
  /\ audits' = IF check[t].source = "event" THEN audits \cup {check[t].row} ELSE audits
  /\ UNCHANGED <<logs, detected, abandoned, queueVars, fraudBounds>>

\* FailedMessage, with the limit never reached and the message not published.
FailedMessageDropped(t) ==
  /\ On(t, "failed") /\ t \in FraudConsumers /\ Move(t, "done")
  /\ UNCHANGED <<logs, reports, queueVars, fraudBounds>>

-----------------------------------------------------------------------------
(* check_claim and override_claim.                                         *)

\* POST /fraud/check, past _collect_external_signals.
CheckRequested(t, c, p, signals, share) ==
  /\ t \in FraudApi /\ On(t, "idle") /\ calls < MaxCalls
  /\ Now(t, [NoCheck EXCEPT !.pc = "count", !.claim = c, !.evidence = Evidence(p),
                            !.signals = 10 * Cardinality(signals), !.share = share])
  /\ calls' = calls + 1
  /\ UNCHANGED <<logs, reports, queueVars, faults>>

\* count_for_claim
CountLogs(t) ==
  /\ On(t, "count")
  /\ Now(t, [check[t] EXCEPT !.pc = "recent",
                             !.count = AtMost(MaxDuplicateClaims,
                                              Cardinality(RowsOfClaim(check[t].claim)))])
  /\ UNCHANGED <<logs, reports, queueVars, fraudBounds>>

\* latest_for_user, and the score
ReadRecent(t) ==
  LET s == check[t]
      score == AtMost(100, s.evidence + s.signals + s.share
                           + HistoryScore(s.count, RecentFails(FraudUserOf[s.claim])))
  IN  /\ On(t, "recent")
      /\ Now(t, [s EXCEPT !.pc = "log", !.status = Verdict(score)])
      /\ UNCHANGED <<logs, reports, queueVars, fraudBounds>>

\* POST /fraud/override: refused for a claim that was never checked.
OverrideRequested(t, c, status) ==
  /\ t \in FraudApi /\ On(t, "idle") /\ calls < MaxCalls
  /\ RowsOfClaim(c) # {}
  /\ Now(t, [NoCheck EXCEPT !.pc = "log", !.source = "override", !.claim = c,
                            !.status = status])
  /\ calls' = calls + 1
  /\ UNCHANGED <<logs, reports, queueVars, faults>>

\* create_log: a check that passed is over, an override always has an audit entry.
WriteLog(t) ==
  LET s == check[t] IN
  /\ On(t, "log")
  /\ logs' = Append(logs, [claim |-> s.claim, status |-> s.status, source |-> s.source,
                           evidence |-> s.evidence, share |-> s.share])
  /\ Now(t, [s EXCEPT !.row = Len(logs'),
                      !.pc = IF s.status = "FAIL" \/ s.source = "override"
                             THEN "audit" ELSE "done"])
  /\ UNCHANGED <<reports, queueVars, fraudBounds>>

WriteAudit(t) ==
  /\ On(t, "audit")
  /\ Move(t, IF check[t].status = "FAIL" THEN "publish" ELSE "done")
  /\ audits' = audits \cup {check[t].row}
  /\ UNCHANGED <<logs, detected, abandoned, queueVars, fraudBounds>>

\* publish_fraud_detected swallows broker errors.
PublishDetected(t) ==
  /\ On(t, "publish") /\ Move(t, "done")
  /\ detected' = detected \cup {check[t].row}
  /\ UNCHANGED <<logs, audits, abandoned, queueVars, fraudBounds>>

DetectedLost(t) ==
  /\ On(t, "publish") /\ Move(t, "done")
  /\ abandoned' = abandoned \cup {check[t].row}
  /\ UNCHANGED <<logs, audits, detected, queueVars, fraudBounds>>

-----------------------------------------------------------------------------
(* The consumer of CLAIM_INITIATED.                                        *)

\* check_claim_from_event has no token and so no signals; the ML scorer it asks, too.
TakeInitiated(t, c, r, share) ==
  /\ t \in FraudConsumers /\ On(t, "idle") /\ queued[<<c, r>>] > 0
  /\ queued' = [queued EXCEPT ![<<c, r>>] = @ - 1]
  /\ Now(t, [NoCheck EXCEPT !.pc = "count", !.source = "event", !.claim = c,
                            !.evidence = Evidence(EventProfile), !.share = share,
                            !.retries = r])
  /\ UNCHANGED <<logs, reports, deadChecks, fraudBounds>>

\* An exception publishes the message again, or to the dead-letter queue.
FailedMessage(t) ==
  LET c == check[t].claim
      r == check[t].retries
  IN  /\ On(t, "failed") /\ t \in FraudConsumers /\ Move(t, "done")
      /\ IF r < FraudRetries
         THEN queued' = [queued EXCEPT ![<<c, r + 1>>] = @ + 1] /\ UNCHANGED deadChecks
         ELSE deadChecks' = deadChecks \cup {c} /\ UNCHANGED queued
      /\ UNCHANGED <<logs, reports, fraudBounds>>

\* The response is sent, or the message acknowledged.
Finish(t) ==
  /\ On(t, "done") \/ (On(t, "failed") /\ t \in FraudApi)
  /\ Now(t, NoCheck)
  /\ UNCHANGED <<logs, reports, queueVars, fraudBounds>>

-----------------------------------------------------------------------------
(* Faults.                                                                 *)

CheckFails(t) ==
  /\ faults < MaxFraudFaults /\ faults' = faults + 1
  /\ check[t].pc \in {"count", "recent", "log", "audit"}
  /\ abandoned' = abandoned \cup Owed(t) /\ Move(t, "failed")
  /\ UNCHANGED <<logs, audits, detected, queueVars, calls>>

\* A worker's message is delivered again.
FraudCrash(t) ==
  /\ faults < MaxFraudFaults /\ faults' = faults + 1
  /\ ~ On(t, "idle") /\ Now(t, NoCheck)
  /\ abandoned' = abandoned \cup Owed(t)
  /\ queued' = IF t \in FraudConsumers
               THEN [queued EXCEPT ![<<check[t].claim, check[t].retries>>] = @ + 1]
               ELSE queued
  /\ UNCHANGED <<logs, audits, detected, deadChecks, calls>>

-----------------------------------------------------------------------------
CheckStep(t) ==
  \/ CountLogs(t) \/ ReadRecent(t) \/ WriteLog(t) \/ WriteAudit(t)
  \/ PublishDetected(t) \/ DetectedLost(t) \/ FailedMessage(t) \/ Finish(t)

TakeMessage(t) ==
  \E c \in FraudClaims, r \in 0 .. FraudRetries, share \in ModelShares[EventProfile] :
    TakeInitiated(t, c, r, share)

Called(t) ==
  \E c \in FraudClaims :
    \/ \E p \in Profiles, x \in Signals :
         \E share \in ModelShares[p] : CheckRequested(t, c, p, x, share)
    \/ \E status \in {"PASS", "FAIL"} : OverrideRequested(t, c, status)

FraudNext ==
  \E t \in FraudThreads :
    CheckStep(t) \/ TakeMessage(t) \/ Called(t) \/ CheckFails(t) \/ FraudCrash(t)

\* Consumer threads keep running; callers, administrators and faults may do nothing.
FraudSpec ==
  /\ FraudInit /\ [][FraudNext]_fvars
  /\ \A t \in FraudConsumers : WF_fvars(CheckStep(t)) /\ WF_fvars(TakeMessage(t))

-----------------------------------------------------------------------------
(* Properties.                                                             *)

\* The state has the shape of the two tables, the queue and the threads.
FraudTypeOK ==
  /\ logs \in Seq([claim : FraudClaims, status : {"PASS", "FAIL"},
                   source : {"api", "event", "override"}, evidence : Nat,
                   share : 0 .. 25])
  /\ audits \subseteq DOMAIN logs /\ detected \subseteq DOMAIN logs
  /\ abandoned \subseteq DOMAIN logs
  /\ \A t \in FraudThreads : check[t].claim \in FraudClaims /\ check[t].row \in 0 .. Len(logs)
  /\ queued \in [CheckMessage -> Nat] /\ deadChecks \subseteq FraudClaims

\* A user of whom no request carried suspicious activity, whom nobody failed by hand and
\* for whose checks the ML scorer added less than 0.05 never fails a check: duplicates of
\* a claim (its event, its retries, its redeliveries), zone and risk signals do not add
\* up to the threshold.
CleanUsersPass ==
  \A u \in FraudUsers :
    (\A i \in RowsOfUser(u) : /\ logs[i].evidence = 0 /\ logs[i].source # "override"
                              /\ logs[i].share <= QuietShare)
    => \A i \in RowsOfUser(u) : logs[i].status = "PASS"

\* The consumer of CLAIM_INITIATED, which has no activity to go by, fails a claim only if
\* the claim was scored before and the ML scorer adds 0.05 or more: no history of the
\* user and no answer of the scorer alone fails a claim at its first check.
EventsFailOnlyAgain ==
  \A i \in DOMAIN logs : logs[i].source = "event" /\ logs[i].status = "FAIL" =>
    /\ logs[i].share > QuietShare
    /\ \E j \in 1 .. i - 1 : logs[j].claim = logs[i].claim

\* A FAIL in the log has its audit entry and then its FRAUD_DETECTED, unless its
\* thread is on the way or a fault or the broker cut the sequence short; nothing is
\* announced that is not audited, and no PASS is announced at all.
FailsAreReported ==
  /\ detected \subseteq audits
  /\ \A i \in detected : logs[i].status = "FAIL"
  /\ \A i \in DOMAIN logs : logs[i].status = "FAIL" =>
       \/ i \in detected
       \/ i \in abandoned
       \/ \E t \in FraudThreads : i \in Owed(t)

\* Every initiated claim is scored by the consumer or ends in the dead-letter queue,
\* also when statements fail after the log was written.
InitiatedIsChecked ==
  \A c \in FraudClaims :
    <>(c \in deadChecks \/ \E i \in RowsOfClaim(c) : logs[i].source = "event")

\* Whatever checks of a user overlap or are repeated, only suspicious activity that a
\* request carried, an administrator or the ML scorer fails a claim: duplicates never do.
FraudSafe == FraudTypeOK /\ CleanUsersPass /\ EventsFailOnlyAgain
=============================================================================
