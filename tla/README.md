# Carbon: a TLA+ model of the insurance backend

Carbon is a parametric insurance for delivery workers: a disruption (weather,
traffic, a platform outage) creates claims, a claim is checked by several
services, and an approved claim is paid. The backend is a set of FastAPI
services under `src/backend/services`, each with a PostgreSQL database of its
own, that call each other over HTTP and exchange messages over a RabbitMQ topic
exchange, `devtrails.events`; clients reach them through a gateway. The system's
README expects several replicas of a service (`src/README.md:245`), and every
service runs its API threads and its consumer thread side by side. This
directory models the state every one of these services keeps and the steps
that change it.

## Inventory

| component | state | operations | interacts by | modelled in |
|---|---|---|---|---|
| payout service | tables `payouts`, `ledger` | `process_payout`, `retry_failed_payout`, `_create_ledger_entry_if_missing` | HTTP from claims and operators, `CLAIM_APPROVED` in, `PAYOUT_*` out | `Payout` |
| claims service, processing | table `claims` | `process_claim`, `process_claim_async`, `_finalize_approved_claim` | `CLAIM_PROCESSING` to itself; HTTP to policy, risk, fraud, payout; `CLAIM_APPROVED` out | `Claims` |
| claims service, intake | table `claims` | `auto_create_claim`, `create_claims_from_disruption` | `DISRUPTION_DETECTED` in, `CLAIM_INITIATED` out | `Intake`, `Disruptions` |
| trigger service | table of disruptions, scheduler lock | `create_if_absent`, `create_manual_trigger`, `stop_trigger`, `run_detection_cycle` | `DISRUPTION_DETECTED` out | `Trigger`, `Disruptions` |
| fraud service | fraud logs, audit trail | `check_claim`, `override_claim` | HTTP from claims, `CLAIM_INITIATED` in, `FRAUD_DETECTED` out | `Fraud` |
| policy and pricing service | policies, policy logs, rate buckets | `create_policy`, `get_policy_by_user`, `validate_policy`, `calculate`, `enforce_rate_limit` | HTTP from claims, to ai-risk and fraud | `Policy`, `Pricing`, `RateLimit`, `Underwriting` |
| ai-risk service | loaded model, prediction logs, training files, registry | `evaluate_risk`, `submit_feedback`, `build_feedback_dataset`, `train_model`, drift report | HTTP from claims, policy and fraud; files between processes | `Risk`, `Learning` |
| notification service | notifications, Celery queue | `queue_notification`, `deliver_notification`, `retry_notification`, bus consumer | every event in, Celery tasks | `Notifications`, `Events` |
| analytics service | events, metrics, aggregates, cache | `process_event`, dashboard, zones, time series, health | every event in | `Analytics`, `Events`, `Reports` |
| identity service | users, refresh tokens, revoked tokens | register, login, refresh, logout | HTTP | `Sessions`, `Access` |
| API gateway | circuit states, rate counters | rate limit, `safe_request` | HTTP to all | `Gateway`, `Access` |
| event bus | exchange, queues, dead-letter queues | publish, deliver, acknowledge | RabbitMQ, external | `EventBus`, `Events` |
| mobile app | session, screens | token refresh on 401 | HTTP through the gateway | no |

What is hard in this code is the same in most services: a check and the write
it justifies are separate database statements; a database commit and the
publication or remote call that follows it are not atomic, and publications
are either lost silently (claims, trigger) or turn a success into an error
(payout); a message that fails is published again to the shared exchange rather
than returned to its queue; a row is read, a remote call is made, and the row is
then written from what was read. `PROJECT.json` lists these hazards line by line.

What makes each component correct:

- *payout*: one payout per claim, money moved once per claim by first attempts,
  the status says what the gateway did, the ledger credits exactly the completed
  payouts, a published approval is not lost;
- *claims*: only a claim that passed every check is announced, paid for and
  shown as paid, a queued claim reaches a decision;
- *trigger, intake*: one active disruption per polled condition, one claim per
  worker and disruption, an announced disruption covers every insured worker;
- *fraud*: repeated messages never turn into evidence, a FAIL is reported;
- *policy, pricing, risk*: coverage only after the waiting period and the
  payment, ordered premiums, surcharges that the log explains;
- *notification, analytics*: told and counted once, more often only after a
  failure or a retry, and not lost;
- *identity, gateway*: a token that was rotated or logged out yields nothing, an
  open circuit lets nothing through, every call is answered;
- *learning*: what is served, registered and reported is one training.

## Modules

| module | content |
|---|---|
| `Payout` | the payout service: tables, threads, queue, faults; properties |
| `PayoutBook` | the abstract specification: what the service promises about one claim |
| `PayoutRefinement` | the refinement mapping from `Payout` to `PayoutBook` |
| `PayoutProofs` | the inductive invariant, the safety theorems, and the refinement |
| `Claims` | the processing of a claim |
| `Trigger` | replicas, pooled connections and the advisory lock; detection cycles, manual triggers |
| `Intake` | creation of claims by API calls and by the disruption consumer |
| `Disruptions` | `Trigger` and `Intake` joined by the queue of `DISRUPTION_DETECTED` |
| `ClaimsProofs` | from a disruption to a paid claim: the proofs about `Trigger`, `Intake`, `Disruptions` and `Claims` |
| `Fraud` | checks and overrides over the log they read and write |
| `Gateway` | rate limit, circuit breaker, attempts of one upstream |
| `Sessions` | refresh tokens, rotation, logout, registration |
| `Access` | `Gateway` and `Sessions` joined: every attempt is a request thread of the identity service |
| `Notifications` | rows, Celery tasks, deliveries and retries |
| `EdgeProofs` | the services a client's request or message passes last: the proofs about `Gateway`, `Sessions`, `Access` and `Notifications` |
| `EventBus` | the exchange, its queues, and how every consumer republishes what it could not handle |
| `Analytics` | ingestion in three commits, totals, the cache |
| `Events` | `Analytics`, the notification service's bus thread and the payout queue on one exchange |
| `ConsumersProofs` | what messages that come again do to their consumers: the proofs about `Fraud` and `Events` |
| `Reports`, `ReportsProofs` | the metrics an event yields and the queries of every report, while events arrive; the proofs about both |
| `RateLimit` | the sliding window that every service puts before its routes |
| `Pricing` | the premium in exact decimal arithmetic |
| `Risk` | metrics, heuristic, hybrid score, multiplier, prediction log |
| `Policy` | purchase, activation, validation, and the claims service's client of it |
| `Underwriting`, `UnderwritingProofs` | the policy service behind its limiter with the ai-risk service and the clock; the proofs about prices, coverage, activation and the limiter |
| `Learning`, `LearningProofs` | reviews, feedback export, training, registry, activation, drift; the proofs about them |
| `Sums` | lemmas about the sums of the community modules' folds, used by the proofs |
| `MC*` | instances for TLC |

Every state machine is built the same way. A thread, worker or coroutine is a
record with a program counter; between two program points lies one database
statement, remote call or broker call (in the gateway, which is one asyncio
process, what runs between two awaits). Tables are sequences whose rows are
appended and updated in place; a row's index stands for its UUID. A failing
statement and a dying process are actions of their own, bounded in number.
Definitions whose comment says what they are a variant of ("a mistake in the
place of ...", or the original's name and what is changed) are alternatives
that no specification uses: each is a plausible error in the code that the
property of a run notices.

### Payout

A thread is a record with a program counter and is idle, an HTTP request of
`process_payout`, a message being consumed, or an HTTP request of
`retry_failed_payout`. Between two program points lies one database statement,
gateway call or broker call; the tables are sequences whose rows are appended,
updated in place and never deleted, and a row's index stands for its UUID.

| code | actions |
|---|---|
| `POST /payout/process`, `Consumer` loop, `POST /payout/retry` | `ReceiveProcess`, `Deliver`, `RetryFailed` |
| lookups by key and by claim, INSERT, the IntegrityError path | `LookupKey`, `LookupClaim`, `Insert`, `Raced` |
| `PaymentGatewayClient.process_payout` | `Gateway` |
| `PayoutRepository.save` of the verdict | `SaveCompleted`, `SaveFailed` |
| `_create_ledger_entry_if_missing`, `create_entry` | `LedgerCheck`, `LedgerBalance`, `LedgerInsert` |
| `publish_payout_event` | `AnnounceCompleted`, `AnnounceFailed` |
| response; `_handle_message` and its ack | `Return`; `Conclude`, `Ack` |
| process death; a failing statement | `Crash`, `DatabaseError` |

`charged`, `recharged`, `sent` and `faults` are history: the gateway's successes
for first attempts and for retries, the approvals published, the faults so far.

### Claims

`Callers` serve `POST /claims/process` (`ReadClaim`, `SaveProcessing`,
`PublishProcessing`), `Workers` run the consumer of `CLAIM_PROCESSING`: `Take`,
`Load`, `Start`, `Policy`, `Risk`, `Evaluated`, `Fraud`, `Announce*`, `Pay`,
`Pay*` (the outcome of the payout call), `Paid`, then `Failed` and `Done`, which
are `_handle_message`. The status column is what every thread overwrites, so the
model keeps, per thread, the status the ORM session has loaded: an assignment
of the value already loaded writes nothing, anything else overwrites the row
whatever it holds by now, and where the commit of a log entry has expired the
row the write is unconditional (`Put`). The answers of the policy, risk, fraud
and payout services are free choices among valid, refusing and degraded.

### Trigger, Intake, Disruptions

`StartCycle` takes the advisory lock on whatever connection the pool hands out.
A commit gives the connection back, so the next statement may run on another
one, and the unlock at the end may find that its connection does not hold the
lock: `lock` remembers connection and depth, `LoseConnection` frees it. A cycle
is `Detect` or `NothingNew`, `InsertDisruption`, then `DisruptionPublished` or
`DisruptionLost` per condition, and `EndCycle`;
`POST /trigger/mock` inserts and publishes by itself. `Intake` has the steps of
`auto_create_claim` (`LookupKey`, `Lookup`, `InsertClaim`, `RacedClaim`,
`LogClaim`, `AnnounceInitiated`, `InitiatedLost`) for API threads and for the
consumer, which runs them for one user after the other (`next`) and publishes
the event again when one of them raises (`Retry`). `Disruptions` makes the
trigger's publication and the arrival of the event at the queue one step.

### Fraud

A check reads the user's history, is scored from it and from what the request
and the remote services said, and writes the log, then the audit entry of a
FAIL, then publishes. Scores are integer hundredths; each log row carries, as a
history, the parts of its score that came with the request and from the ML scorer,
which is asked for every check, a message's too.

### Gateway, Sessions, Access

`CheckCircuit`, `SendAttempt`, `AnswerArrives` and `AttemptFails` are the loop of
`safe_request`; an attempt that the gateway no longer waits for stays `sent` and
may still be served. `Sessions` has one action per statement of register, login,
refresh and logout. In `Access` an attempt that arrives starts a session thread,
and the thread's last step serves the attempt.

### Notifications, EventBus, Analytics, Events

`Notifications` keeps the row, the copy of it each worker loaded and the tasks in
the broker apart, since Celery acknowledges a task when it is taken.
`Again` in `EventBus` is what every consumer does with a message it could not
handle: publish with the retry header raised, or to its dead-letter exchange.
`Analytics` publishes under the original routing key, the notification service
under its binding `#`, which is no key any other queue but `#` matches; both
share one header. `Events` puts them side by side with the payout queue.

### Reports

`CreateEvent`, `CreateMetrics` and `IncrementStats` are the commits of an
ingestion, `DerivedMetrics` what `_derive_metrics` makes of an event. A dashboard or
health report is a list of queries (`DashboardQueries`, `HealthQueries`) that
`Query` answers one by one from what is committed by then, zones and time series
are one query each (`GetZones`, `GetTimeseries`); `Respond` sends the answer.

### Pricing, RateLimit, Risk, Policy, Underwriting

Money and rates are integers with the code's scale (`RoundHalfUp` is `_money`'s
quantize). `Risk` computes the normalised metrics, the fallback model's score, its
blend with the rule score and the zone's bias, and the multiplier as the code does;
category, confidence and explanation are left out, and a trained artifact's score per
zone is a constant. `Policy` has the requests to buy, to look at the
newest policy and to validate, the two commits of an activation (status, log) in
each of its two places, and the claims service's reading of the answer.

### Learning

Trainings (`Fit`, then `OpenFile`/`WriteFile` per file, `ReadRegistry`,
`WriteRegistry`), the feedback export (`ReadFeedback`, `OpenDataset`,
`WriteDataset`) and the service (`ServiceStarts`, `ModelLoads`) are processes that
share files and take no lock. A file is cut off from when it is opened until it
is written; a model is the number of the training that made it. `TrainingStarts` reads
the dataset file, drops its duplicates (`Distinct`: the file does not say whose
prediction a row is) and holds some rows out to test with, any of them.

## Runs

| run | instance | shows |
|---|---|---|
| `payout_race` | 1 HTTP thread, 1 consumer, 2 operators, 1 claim, 2 keys, 1 fault, retry limit 1, fairness | `ChargesSound`: one charge per claim by first attempts, owned rows, completed implies charged; `LedgerSound`; `AuditComplete` before a fault; refinement of `PayoutBook`; completed is final, and failed too but for an operator's retry; an approval ends in a payout or the dead-letter queue |
| `payout_keys` | 2 HTTP threads, 2 claims of one worker, 4 keys | unique payouts per claim and key; a reply is about its request's claim; a balance extends an earlier one |
| `claims_race` | 2 callers, 2 workers on 1 claim, retry limit 1, 1 crash, fairness | `ClaimsSafe`: only approved claims are announced and paid for; paid implies settled; a queued message settles |
| `trigger` | 2 replicas, 3 connections, 1 condition, 3 rows, 2 lost connections or restarts | `TriggerSafe`: a running cycle has the lock, one active disruption per condition |
| `disruptions` | 1 replica, 1 disruption, 2 users, 2 API threads, 1 consumer, 2 failing statements, retry limit 1 | `IntakeSafe`: one claim per user, no undeserved dead letter; answers fit; announced once; what was announced has a message or a consumer until it is dealt with, and every insured user is covered in the end |
| `fraud` | 2 claims of one worker, 1 API thread, 1 consumer, clean and spoofed activity, the ML scorer on, 1 fault | `FraudSafe`: repetition is no evidence, and a message alone fails no claim; every FAIL is reported; every initiated claim is checked |
| `access` | 2 calls of 2 attempts, 2 phones, threshold 1, 2 moments, 1 death | `GatewaySafe`, `AccessSafe`; who closes a circuit early; every call is answered |
| `notifications` | 2 callers, 2 workers, 2 rows, 2 retries, 1 manual retry, 1 fault | sent twice only by a manual retry; `NotificationsSafe`: row and broker agree; every notification settles |
| `events` | an approval and a completed payout, 3 queues, 2 faults, retry limit 1, 1 reader | `EventsCounted`, `CopiesBounded`: counts and copies exceed the events only by failures; events arrive; dashboards catch up |
| `underwriting` | 2 threads, 2 applications, 1 policy, 2 evaluations, 3 moments, 1 fault | the limiter's bound; lawful coverage; logged activations; `PricesLawful`: ordered premiums and scores, explained surcharges |
| `reports` | 5 events of 2 days, 1 reader, 1 cut ingestion | what the numbers of one report may say of each other and of the events; totals agree between reports |
| `learning` | 2 predictions of one zone or two, 2 reviews or 2 trainings, 3 of both, 2 exports, 1 start, 1 kill | files, registry and served model fit together where nothing overlapped or was killed; what a training is given represents the reviews |

A property named `...Safe`, `...Sound`, `...Lawful`, `...Counted`, `...Bounded` or
`ModelsAgree` is a conjunction of named parts (and of the module's type
invariant), each stated and commented next to it.

### What the code does not guarantee

While modelling, statements were found that one would expect of this system and
that the code does not keep. The properties above are the strongest that hold;
these are their limits.

- *Double payment.* `retry_failed_payout` checks the status it read
  (`payout_service.py:136`) and calls the gateway without a lock or a key: two
  retries of one failed payout both pay, although `src/README.md:264` says
  idempotency keys prevent it. `ChargesSound` bounds first attempts only.
- *Running balance.* Two payouts of one user read the same latest balance
  (`ledger_repository.py:40`), and the ledger loses an amount;
  `BalanceExtends` says it loses no more than that.
- *Ledger gap.* A crash after the COMPLETED commit (`payout_service.py:75`) leaves
  a payout without an entry for ever; `AuditComplete` is therefore about
  behaviours in which nothing has failed yet.
- *Claims.* A caller's stale save turns a PAID claim back to PROCESSING
  (`claim_service.py:172`); a lost `CLAIM_PROCESSING` leaves a claim PROCESSING
  for ever, because requests for such a claim publish nothing.
- *Payout replies.* The loser of an INSERT race (`payout_service.py:54`) is answered
  without comparing the amount, and a key lost to another claim is answered
  `DUPLICATE_PAYOUT` although this claim has no payout.
- *Trigger.* A disruption whose publication is lost is never announced, and
  while it stays active it keeps later cycles from recording the condition.
- *Sessions.* Two refreshes of one token both succeed; a refresh that the gateway
  repeats after a lost answer is refused and ends the client's session.
  Logout puts the token it is called with on the list of revoked tokens, and no
  other: the access token of the session is not ended by it
  (`auth_service.py:86`; the model has refresh tokens only).
- *Fraud.* While the ML scorer is on, a second check of the same claim may fail a
  user whom only the zone and risk signals and the scorer speak against, and a
  message, with two failures in the history, a claim that was scored before:
  the scorer adds up to 0.25 to checks of every source (`fraud_service.py:207-216`).
  `CleanUsersPass` and `EventsFailOnlyAgain` say that it takes 0.05 of it.
- *Gateway.* There is no half-open state: when the period ends all waiting calls
  go through. It forwards `x-idempotency-key`, which no service reads: they read
  `Idempotency-Key`.
- *Events.* `PAYOUT_COMPLETED` carries neither id nor time and is counted again
  when it is delivered again. A crash between an event row and its metrics leaves
  the totals behind. A dashboard counted before a flush may be cached after it.
- *Reports.* Zones never show claims or payouts, whose events carry no zone.
- *Learning.* The registry in the repository names a path of another machine:
  until a training has run, the service serves the heuristic under the
  configured version. Overlapping or killed trainings leave registry,
  configured artifact and metadata naming different models; two trainings in
  one second share an artifact name. Alike reviews of two predictions count twice for
  `min_rows` and are learnt as one; a row may be tested with although one that differs
  only in the zone, which is no feature, was fitted on.

### Bounds

- One claim is enough where claims only meet through keys or through a user's
  balance; `payout_keys`, `fraud` and `disruptions` have two claims.
- Two threads of a kind are the smallest number that race; the interesting
  races are pairs, and the theorems hold for any number of threads.
- Retry limits are 1 or 2 instead of 3 or 5: they only have to be reached, and
  `disruptions` and `events` have the failures it takes to pass them.
- `MaxEvents`, `MaxRequests`, `MaxAuto`, `MaxCalls`, `MaxNotes`, `MaxPolicies`,
  `MaxTrainings` and the like bound what arrives; `MaxFaults`, `MaxCrashes`,
  `MaxBreaks`, `MaxDeaths`, `MaxCuts` what fails. Duplicates do not need a second
  publication: a crash before an acknowledgement produces them.
- `learning` bounds reviews and trainings together (`MaxTurns`), so that two reviews
  meet one training and two trainings one review: a training reads the dataset file and
  not the reviews, and what a second training adds concerns the files it writes.
- `trigger` has three rows, so that a stop, a second detection and a manual
  trigger of one condition fit into a behaviour; `MaxTime` lets the circuit's
  period, a window and the waiting period begin and end.
- `underwriting` takes the two threads as interchangeable and `learning` the two zones;
  no property names one.

Deadlock checking is off where requests are bounded and a service with nothing
to do stops; the payout runs and `reports` leave it on, as there the system
always has a step.

### Fairness

Weak fairness is assumed of the steps of threads that hold work and of the
consumers' taking of a waiting message: threads are scheduled, every remote
call of the code has a timeout, and the consumer loops reconnect for ever. In
`access` it is assumed of the gateway's coroutines alone, whose timers are its
own, and not of the upstream; in `events` also of the cache's time to live;
in `disruptions` of the intake's threads, not of the trigger service. Nothing
obliges callers, operators, publishers, providers or faults, no verdict is
preferred, and a publication may always be lost. Fairness is per thread and not
per message.

## Abstractions

- A commit and the refresh that follows it are one step; the database
  isolation is READ COMMITTED, so each statement sees what is committed.
- Ledger rows are ordered by `created_at`, modelled as commit order.
- The user of a payout is determined by the claim (`UserOf`).
- The mock gateway fails when its replica is configured to
  (`mock_gateway_force_failure`); a call may therefore go either way. A real
  provider would add nothing to the outcomes, only to their meaning.
- A crash in a request loses its answer; the caller's next request is one more
  request. Requests that change nothing (404, `RETRY_NOT_ALLOWED`, an already
  decided claim) are left out.
- A broker error while a failed message is published again closes the
  consumer's connection, and the message is delivered again: the same as a
  crash.
- Log entries, metrics, audit columns and amounts other than the payout's are
  not modelled; a save and the log entry after it count as one step.
- The answers of policy, risk and fraud are free choices in `Claims`; the services
  themselves are modelled in modules of their own.
- `Trigger`: what a source reports is a choice per condition; severities do not
  matter to what is recorded. `Disruptions` has one detection at a time.
- `Fraud`: identity's and ai-risk's answers are the set `Signals`, what the ML scorer
  adds is the set `ModelShares` of each activity report. The instance has it on and
  next to the threshold: 0.04 and 0.05 for a message, 0.04 for a clean report.
- `Gateway`: one client address, one upstream, one process. `Sessions`: tokens do
  not expire, `get_by_id` is part of `FindToken`; profiles are left out.
- `Notifications`: channels and templates are left out, a provider accepts or
  refuses; a countdown is the freedom to take a task later.
- `Analytics`: the cache holds one dashboard and one process runs, as in the
  container; `Reports` has neither cache nor redeliveries, one clock, no
  ranking of zones and no cut to the top five; a disruption carries a severity.
- `Policy`: one worker (the rate bucket and the newest policy are per worker);
  publications of the policy service have no consumer with state but analytics.
- `Risk`: weights are the code's in hundredths, scores in ten-thousandths; the
  forest is a table, so what is said of ordered risks is said of the heuristic.
- `Learning`: the two files of the split are written as one, features are one level, the
  rows held out are any (the code draws them with a fixed seed), synthetic rows, which
  are never like a reviewed one, are left out; the evaluation and the drift report are
  functions of the state; the files of raw and processed data and the reports, which
  nothing reads, are left out.

## Proofs

Proofs are in modules of their own, one for each component or for components that
go together. A theorem holds for all
values of the constants that satisfy the named `ASSUME`s of the modules (all of
them are evaluated by the runs). Every invariant the proofs add was first checked by
TLC on the constants of the run it belongs to.

| module | theorem | statement |
|---|---|---|
| `PayoutProofs` | `Inductive` | `Spec => []IInv` |
| | `TypeCorrect`, `RowsOwned`, `ChargeAtMostOnce`, `CompletedImpliesCharged`, `ChargesAreSound` | `[]TypeOK`, `[]OwnershipInv`, `[]ChargedOnce`, `[]CompletedWasCharged`, and all together `[]ChargesSound` |
| | `OnePayoutPerClaim`, `LedgerIsSound` | `[]UniquePayouts`, `[]LedgerSound` |
| | `CompletedStays` | `Spec => CompletedIsFinal` |
| | `RepliesNameRequests`, `BalancesExtend`, `LedgerIsComplete` | `[]ReplyNamesRequest`, `[]BalanceExtends`, `[]AuditComplete` |
| | `Refinement` | `Spec => ImplementsBook` |
| `ClaimsProofs` | `ClaimsInductive` | `ClaimsSpec => []ClaimsInv` |
| | `ClaimsAreSafe`, `PaidAreSettled` | `[]ClaimsSafe` (`ClaimsTypeOK` and `PayOnlyApproved`), `[]PaidWasSettled` |
| | `TriggerInductive` | `TriggerInv /\ [TriggerNext]_tvars => TriggerInv'` |
| | `TriggerCorrect` | `TriggerSpec => []TriggerSafe` |
| | `DisruptionsImplementTrigger`, `TriggerCorrectInComposition` | `DisruptionsSpec => TriggerSpec`, and so the one above |
| | `IntakeCorrect`, `AnswersFit`, `ClaimsInitiatedOnce` | `DisruptionsSpec => []IntakeSafe`, `[]AnswerFits`, `[]InitiatedOnce` |
| | `NothingForgotten` | `DisruptionsSpec => []AnnouncedNotForgotten` |
| `EdgeProofs` | `DeliveryInductive` | `DeliveryInv /\ [NotificationsNext]_notifVars => DeliveryInv'` |
| | `NotificationsCorrect`, `DeliveredOnce` | `NotificationsSpec => []NotificationsSafe`, `[]TwiceOnlyByRetry` |
| `ConsumersProofs` | `FraudInductive` | `FraudSpec => []FraudInv` |
| | `EveryFailIsReported`, `EventsFailOnlyRepeats` | `[]FailsAreReported`, `[](FraudTypeOK /\ EventsFailOnlyAgain)` |
| | `OnlyEvidenceFails` | `[]FraudSafe` |
| | `EventsAreCounted`, `CopiesAreBounded` | `EventsSpec => []EventsCounted`, `[]CopiesBounded` |
| `EdgeProofs` | `GatewayInductive`, `AccessInductive` | `AccessSpec => []GatewayInv`, `[]Invariants` |
| | `GatewayCorrect`, `SessionsCorrect` | `AccessSpec => []GatewaySafe`, `[]AccessSafe` |
| | `ClosedByOlderCalls` | `AccessSpec => ClosedEarlyByOlderCall` |
| `UnderwritingProofs` | `PremiumMonotone` | the premium grows with each of its factors |
| | `UnderwritingInductive` | `UnderwritingSpec => []UnderwritingInv` |
| | `CoverageIsLawful`, `ActivationsAreLogged`, `PricesAreLawful` | `[]CoverageLawful`, `[]ActivationsLogged`, `[]PricesLawful` |
| | `WindowIsBounded` | `UnderwritingSpec => []WindowBound` |
| `LearningProofs` | `LearningInductive` | `LearningSpec => [](DataTyped /\ ModelsInv)` |
| | `ModelsDoAgree`, `TrainedAsReviewed` | `[]ModelsAgree`, `[]TrainedOnReviews` |
| `ReportsProofs` | `TotalsInductive` | `TotalsInv /\ [ReportsNext]_reportVars => TotalsInv'` |
| | `TotalsCorrect` | `ReportsSpec => []TotalsAgree` |
| | `ReportsInductive` | `TotalsInv /\ ReportsInv /\ [ReportsNext]_reportVars => TotalsInv' /\ ReportsInv'` |
| | `ReportsCorrect` | `ReportsSpec => []ReportsSound` |

### Payout

From `DomainAssumption` (each claim has an owner and an event key, amounts are
positive), `ThreadAssumption` (the three kinds of threads are disjoint) and
`BoundAssumption`.

`ChargedOnce` is not inductive: nothing in it says that a thread before its
INSERT cannot reach the gateway for a claim already charged. `OwnershipInv` adds
it: a request past its INSERT owns an existing row that still has the status it
needs (`Fits`), two first attempts never own the same row (`Exclusive`), and a
charged claim has a row (`ChargedHasRow`), so that a later INSERT for it fails.
The invariant `IInv` is the conjunction of `TypeOK`, `OwnershipInv`,
`UniquePayouts`, `ChargedOnce` and `CompletedWasCharged`; `LedgerSound` is
inductive relative to it. The proof that a step preserves `IInv` separates the
steps that only move a program counter (`QuietStep` and its relatives) from the
four that touch a table or the gateway; `TableSteps` says what those may do to
the tables, and the ledger and action properties follow from it alone.
`CompletedStays` needs the invariant because a first attempt writes FAILED only
over a row that is still pending, and because only an operator's retry reaches
the gateway for a row that is not. `Refinement` maps every step to the book's
step for the row's claim or to a stutter, using `UniquePayouts` to know that a
claim has one row.

What a thread remembers is added to `IInv` for replies, balances and the
refinement. `RequestsNamed`: a request past its INSERT works on a row of its own
claim and key, and one about to answer with a payout's status has such a row;
rows never change claim or key (`RowsKept`), so another thread's step cannot
disturb it. `BalanceRead`: the balance a thread has read is zero or that of an
entry of its worker, and entries never change (`LedgerExtended`), so it may be
outdated but not wrong when it is used. `Announcing`: a thread that announces a
completed payout has found or made its entry; without it the thread that leaves
the ledger's program points could leave the payout uncredited.

### Claims

From `JobAssumption` (callers and workers are disjoint) and `LimitAssumption`.
`PaidWasSettled` alone is not inductive: a worker about to save PAID must be
known to have its answer. `ClaimsInv` adds `JobsBacked`: a busy thread works on
a claim, one at a point that only approved claims reach works on an approved
claim, and one about to save PAID on a settled one. Every step moves one thread
and writes at most the row of its claim (`StepKeeps`), so it is enough to see
that the record and the status it installs are backed by that history.

### Trigger and Intake

`PoolAssumption`, `PollsAssumption` and `TriggerBoundAssumption` say that each
connection belongs to one replica's pool and that what is polled is a condition;
`UsersAssumption`, `IntakeThreadAssumption` and `IntakeValueAssumption` that a
batch lists insured users, that callers and workers are disjoint, and that `Nil`
is no value of the tables; `EventsAssumption` that every row of the disruption
table is an event.

`OneDetection` needs to know that a cycle that has looked for an active
disruption and found none finds, when it inserts, at most one that `POST
/trigger/mock` has made since (`InsertFree`), which holds because a running
cycle has the lock (`LockHeld`) and the other replicas' inserts need it too.
`LockHeld` must speak of the connection and not of the replica: a lock stays
behind on a pooled connection, and a later cycle that is given this connection
takes it once more. `RowsOwned` says that two cycles never work on one row.

Every step of `Disruptions` is a step of `Trigger` or leaves its variables alone
(`DisruptionsImplementTrigger`); the theorems about `Trigger` are thereby
theorems about the composition. `IntakeInv` adds to the properties of `Intake`
what a thread may rely on (`TasksFit`: between INSERT and log the row it has
made is its own user's and event's), that no two threads announce one row
(`OwnRows`), and how a message ages (`InboxAged`: a message or task that has
been retried r times has cost r failures), without which
`DeadEventsNeedFailures` is not inductive.

`AnnouncedNotForgotten` says where an announced disruption is at any moment. A batch
may leave the consumer only to the queue, to the dead letters or because it is
through; the last needs to know what the consumer has done so far. `ConsumersPassed`
adds it: a consumer works without an idempotency key, and every user it is past has a
claim for its event, made by whoever it was (`Passed`). A lost INSERT race keeps this
because, without a key, the row it lost to is this user's for this event, and
because claims are never deleted (`ClaimsStay`). `ConsumerSteps` goes through the
steps of a consumer, `QueueFalls` through those that take a message.

### Notifications

A row's status is written in one step and its task is given to the broker in
another, by callers, workers and operators. `RowInOrder` says, row by row, what
the two must tell of each other: a waiting row has a carrier (a task or a thread
on its way) or lost it; a row nobody retried by hand has at most one carrier
(`Single`); and the retry count a worker has loaded is the one in the row while
it carries it alone (`InStep`). A step touches one row; the others stay in order
because everything `RowInOrder(i)` mentions is unchanged (`UntouchedKept`).

### Fraud

`FraudValueAssumption` and `FraudInputAssumption` say that there is a claim,
that levels of activity are percentages and that the shares of the ML scorer are
at most 25. `FraudInv` says what a thread at each program point knows of the row
it has logged (`ThreadsSound`). `CleanUsersPass` is about *all* earlier checks
of a user: `CleanInv` adds that a thread whose score would fail its user carries
evidence, or the table holds some (`Explained`), which a step of another thread
cannot take away (`BlameKept`), since rows are only added. What counts as evidence
includes a share of the ML scorer of 0.05 or more (`QuietShare`): from there on zone and
risk signals and a duplicate of the check add up to the threshold. A message carries no
signals, and duplicates and two failures leave it exactly this share; without a
duplicate even the scorer's largest does not reach the threshold, hence
`EventsFailOnlyAgain`. A thread that has counted an earlier row of its claim still finds
it when it logs (`Seen`).

### The consumers on the exchange

`ExchangeAssumption` says that there are finitely many events and at least one,
that the three queues exist, that the notification service's queue matches some
key and that the payout queue's binding does not match `#`; `EventBusAssumption`
that every queue has a binding. Neither property says anything of a message on
its way, so neither is inductive. `CopiesCounted` counts, event by event, what
may still be told (`ToTell`: copies in the notification queue, in the bus
thread's hand before it has created the row, in the hand of the analytics
consumer when it is about to publish again, and the publication by the producer
if it is still to come), what may still be counted (`ToCount`) and what may
still be paid (`ToPay`). Together with what has become of the other copies, each
of these grows by a failure only: a consumer that publishes again gives up the
copy it holds, but the exchange makes one for each queue that matches, which is
why the copy in the hand of one consumer counts for the other as well.
`RetriesCounted` bounds the retry header by the failures, of whichever consumer,
so that a message that is buried has seen more of them than the limit.
`TablesTrail` says where the three commits of an ingestion stand: each total
lags behind the one before by the event in hand and those cut off.

`EventsCounted` speaks of the sum of all event rows. A sum over a set is a fold
of the community modules, defined as the value of a function that is chosen
because it satisfies the recursion; `Sums` proves that such a function exists
(`AddsExists`), and by induction over the subsets of a finite set that the sum
is a natural number (`TotalIsNat`) and changes by as much as one of its summands
(`TotalRaised`). The induction is stated for a set in the place of a predicate
(`SubsetInduction`), as the provers cannot instantiate the library's.

### Gateway and Sessions

`GatewayInv` adds how far the attempts of a call have come (`Reached`: none of
them is sent before the call is admitted, none beyond the current one) and that
while the circuit is open every call on the way is one that was when it opened
(`OlderCalls`). `SessionsInv` adds, for every thread, what it knows of the
tokens, users and denials it has seen (`JobSound`), which other threads cannot
take back because tokens keep owner and origin and never become usable again
(`Grown`); and that two registrations of a phone do not both pass the unique
constraint (`OneRegistration`). `AccessInv` links the two: an attempt that the
gateway has sent is a thread with the phone its client asked for (`Linked`), and
the answer of a thread reaches a client only through its own call. The
composition's clients, attempts and threads may be any number.

### Policy, Risk, Pricing and the limiter

`PolicyAssumption` and `RiskAssumption` bound the inputs as the request schemas
do. `RoundHalfUp` is monotone, products of ordered naturals are ordered, and the
tax is added to an ordered base (`PremiumMonotone`); `HybridOrdered` and
`MultiplierOrdered` say the same of scores and surcharges. `UnderwritingInv`
carries this to what is stored: each policy has the premium of its application
and multiplier, and the multiplier is neutral or backed by a logged prediction
of its zone (`PoliciesPriced`), because a thread waiting for an evaluation holds
the number of one for its own zone (`ThreadSound`). `ThreadSound` also says that
what a thread has seen of a policy is what the row says or said: policies only
go from waiting to active and only after the waiting period, so a late answer is
still right. `PoliciesCounted` and `ActivationsCounted` count: rows and threads
still buying are at most the purchases begun, and the log entries of a policy
and the threads still activating it are at most the threads, which gives the
bound of `ActivationsLogged`.

`WindowBound` is about every window at once, and the bucket only holds the
requests of the current one. Arrivals are appended in the order of time
(`InTime`), so that for every start of a window the older arrivals form the head
of the bucket (`Split`). While one of them is left, nothing of the window has
been dropped and what has passed in it is in the bucket; when none is left, only
a thread that tested an older arrival which another has dropped since can drop
one of the window, and there are at most as many such threads as there are
others (`WindowCounted`). The bucket itself holds at most the limit and one for
each thread that passed the count together with others (`AdmittedBounded`). This
gives the limit and two for each further thread. `RateAssumption` asks for at
least one thread.

### Learning

`NamesAssumption` says that artifacts are named after a second and no other file
is named so, `ValuesAssumption` that a model's number is not one of the two
markers. `ModelsInv` follows a name through the processes: a whole artifact was
written by a training of that name (`ArtifactsOwned`), which two trainings of
one second make ambiguous (`Collides`); the registry names the artifact of the
last training in its history (`RegistryNames`); and the service was told such a
name (`ServiceNames`). What holds only while nothing is disturbed is a second
part: all trainings but the last are done, the files show how far the last one
is (`Written`), and the history is a chain up to it or up to its predecessor,
while the registry is cut off the chain is in the training's memory (`History`).
A service started when no training ran was therefore told of the last one
(`Started`). `TrainedOnReviews` is about the data: a prediction's row carries
what its last review said (`ReviewsKept`), so the rows an export reads are the
labels of the reviews so far (`RowsAreLabels`), and later reviews do not change
what the first n of them said (`LabelsKept`). There are as many rows as labels, but a
training drops the rows that are like another (`Distinct`): `DistinctRepresents` shows
that each label still has its row, the first that is alike (`DistinctCovers`), and
that rows which remain differ in zone, level or score. `StillRepresents` carries this
on, since zone and level of a prediction never change (`LogsGrow`). That a prediction
has a last review, and a row a first one like it, is shown by a least element under the
well-founded order of the naturals.

### Reports

From `ReportsAssumption`: times and amounts are natural numbers, buckets are not
empty, dates are integers, and a disruption has a zone and a severity, as the
trigger service's schema and publisher give it; `_severity_to_risk` turns every
other severity into LOW. Neither `TotalsAgree` nor `ReportsSound` is inductive.

`TotalsInv` balances each total on its own (`Levels`, `Zoned`), which an
ingestion keeps because what `_derive_metrics` makes of one event is balanced
(`DerivedBalanced`) and totals are added name by name (`IncreasedAdds`). It says
what lies between the three commits: the metric rows run ahead of the totals by
what the event in hand yields (`TotalsTrail`), and the volume lags behind the
event rows by the events cut off and the one in hand (`VolumeTrails`).

`ReportsInv` follows every report query by query (`ReportSound`). Rows are never
deleted, so a figure taken in between lies between its values at the request and
now (`Timely`, `FigureGrows`), and this stays true when rows are added
(`SoundGrows`). The volume is the sixth query of a dashboard: at that moment it
covers the five counts (`VolumeCoversCounts`: no event is of two types), which
were taken earlier and are no larger. Swapping the order would break the step
`DashboardAnswered`. The second query of a health report finds the rows the
first one counted.

That series and zones leave nothing out is a fact about sums over a partition,
which `Sums` proves by induction over the subsets of a finite set: a total over a
set is the sum of its totals over the parts (`TotalOfParts`, `SizeOfParts`). The
buckets of a window are finite in number and every event of it is in one
(`BucketsCover`), and every disruption is in one zone. A user may be in several
buckets, of which the union gives the lower bound (`SizeOfUnion`). A zone's
level is an average of ranks against two thresholds: `LevelBetween` shows that
it never leaves the range of the zone's own severities. What is proved of a
series or of zones at the time of the query stays true of the answer.

### Only model-checked

- Liveness: all of it (fairness and ENABLED are outside the prover). These are
  `ApprovalsSettle`, `MessagesSettle`, `AnnouncedIsCovered`, `InitiatedIsChecked`,
  `CallsAnswered`, `NotificationsSettle`, `EventsArrive` and `DashboardCatchesUp`.
- What recursive definitions compute for every input.

Every invariant and every action property of the runs is a theorem.

## Not modelled

- The payout and claims services composed over the approval and the payout call:
  what a claim is told when its key replays a pending or failed payout. Each side
  is checked against every answer of the other.
- Authentication and token claims, history endpoints, Prometheus metrics and
  health checks: they change no state another step reads.
- Worker profiles of the identity service: one upsert of independent columns.
- What a forest learns, data generation, notebooks and plots: floating point and
  random numbers.
- The mobile app: user interface; its calls are the clients' calls of `Access`.

## Plan

`ClaimPayout`: `Claims` and `Payout` composed, the payout call and the approval
becoming joint steps.
