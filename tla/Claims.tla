------------------------------- MODULE Claims -------------------------------
(***************************************************************************)
(* The claims service (src/backend/services/claims-service): the life of a *)
(* claim from POST /claims/process to its decision and payout.             *)
(*                                                                         *)
(*   - Callers  serve POST /claims/process: they mark the claim PROCESSING *)
(*     and publish CLAIM_PROCESSING                                        *)
(*   - Workers  handle CLAIM_PROCESSING messages: policy, risk and fraud   *)
(*     checks, decision, CLAIM_APPROVED, call of the payout service        *)
(*                                                                         *)
(* Every save is one committed statement.  The ORM writes a column only if *)
(* it differs from the value the session has loaded, and nothing checks    *)
(* that the row still has that value: this is what "loaded" is for.        *)
(***************************************************************************)
EXTENDS Naturals

CONSTANTS
  Claims,       \* claim ids
  Callers,      \* API threads
  Workers,      \* consumer threads of the processing queue
  RetryLimit,   \* settings.retry_limit of the consumer
  MaxRequests,  \* bound: processing requests per claim that change something
  MaxCrashes,   \* bound: crashes and database errors in a behaviour
  None          \* "no value"

ASSUME JobAssumption == Callers \cap Workers = {}

ASSUME LimitAssumption ==
  RetryLimit \in Nat /\ MaxRequests \in Nat /\ MaxCrashes \in Nat

VARIABLES
  status,      \* column claims.status
  job,         \* what each thread is doing
  queue,       \* unacknowledged CLAIM_PROCESSING messages not in flight
  deadClaims,  \* claims whose message went to the DLQ
  requests,    \* processing requests so far, per claim
  published,   \* CLAIM_APPROVED messages handed to the broker, per claim
  approved,    \* history: claims that passed policy, risk and fraud checks
  settled,     \* history: claims whose payout call was answered with success
  crashes      \* crashes and database errors so far

cvars == <<status, job, queue, deadClaims, requests, published, approved,
           settled, crashes>>

-----------------------------------------------------------------------------
ClaimStatus == {"initiated", "processing", "validated", "evaluated", "approved",
                "paid", "rejected"}

Jobs == Callers \cup Workers

ProcessingMessage == Claims \X (0 .. RetryLimit)

\* Program points of a caller and of a worker.
CallerPoints == {"idle", "save", "publish"}
WorkerPoints == {"idle", "load", "start", "policy", "risk", "evaluated",
                 "fraud", "announce", "pay", "waiting", "paid", "failed", "done"}

JobState ==
  [pc : CallerPoints \cup WorkerPoints, claim : Claims \cup {None},
   loaded : ClaimStatus \cup {None}, retries : 0 .. RetryLimit]

Free == [pc |-> "idle", claim |-> None, loaded |-> None, retries |-> 0]

On(t, point) == job[t].pc = point

Move(t, point) == job' = [job EXCEPT ![t] = [@ EXCEPT !.pc = point]]

\* Move on with the row's current status loaded into the session.
MoveLoaded(t, point) ==
  job' = [job EXCEPT ![t] =
    [@ EXCEPT !.pc = point, !.loaded = status[job[t].claim]]]

\* UPDATE whatever the row holds by now.
Put(t, s) == status' = [status EXCEPT ![job[t].claim] = s]

\* The same, where the session knows a status and writes only a changed one.
Save(t, s) == IF s # job[t].loaded THEN Put(t, s) ELSE UNCHANGED status

mail == <<queue, deadClaims, requests, published>>
past == <<approved, settled, crashes>>

ClaimsInit ==
  /\ status = [c \in Claims |-> "initiated"]
  /\ job = [t \in Jobs |-> Free]
  /\ queue = [m \in ProcessingMessage |-> 0]
  /\ deadClaims = {}
  /\ requests = [c \in Claims |-> 0]
  /\ published = [c \in Claims |-> 0]
  /\ approved = {}
  /\ settled = {}
  /\ crashes = 0

-----------------------------------------------------------------------------
(* Plausible mistakes, each in the place of the action it is named after:  *)
(* the properties below must tell them from the code.                      *)

\* Fraud, taking an unreachable fraud service for a pass.
FraudDegradedPasses(t) ==
  /\ On(t, "fraud")
  /\ \/ Move(t, "announce") /\ Save(t, "approved") /\ UNCHANGED approved
     \/ Move(t, "done") /\ Save(t, "rejected") /\ UNCHANGED approved
     \/ /\ Move(t, "announce") /\ Save(t, "approved")
        /\ approved' = approved \cup {job[t].claim}
  /\ UNCHANGED <<mail, settled, crashes>>

\* PayRefused, taking an error answer for a success.
PayRefusedPaid(t) ==
  /\ On(t, "waiting") /\ Move(t, "paid")
  /\ UNCHANGED <<status, mail, past>>

\* Failed, dropping the message instead of dead-lettering it.
FailedDropping(t) ==
  LET c == job[t].claim
      r == job[t].retries
  IN  /\ On(t, "failed") /\ Move(t, "done")
      /\ IF r < RetryLimit
         THEN queue' = [queue EXCEPT ![<<c, r + 1>>] = @ + 1]
         ELSE UNCHANGED queue
      /\ UNCHANGED <<deadClaims, status, requests, published, past>>

-----------------------------------------------------------------------------
(* process_claim, in the API.                                              *)

\* SELECT.  A claim that is paid, rejected or processing is answered at once
\* and nothing changes; an approved one is queued again for its payout; any
\* other is marked PROCESSING first.
ReadClaim(t, c) ==
  /\ t \in Callers /\ On(t, "idle") /\ requests[c] < MaxRequests
  /\ status[c] \notin {"paid", "rejected", "processing"}
  /\ requests' = [requests EXCEPT ![c] = @ + 1]
  /\ job' = [job EXCEPT ![t] =
       [Free EXCEPT !.pc = IF status[c] = "approved" THEN "publish" ELSE "save",
                    !.claim = c, !.loaded = status[c]]]
  /\ UNCHANGED <<status, queue, deadClaims, published, past>>

SaveProcessing(t) ==
  /\ On(t, "save") /\ Save(t, "processing") /\ Move(t, "publish")
  /\ UNCHANGED <<mail, past>>

\* publish_claim_processing: a broker error is logged and swallowed, and the
\* caller is answered "processing" all the same.
PublishProcessing(t) ==
  /\ On(t, "publish")
  /\ \/ queue' = [queue EXCEPT ![<<job[t].claim, 0>>] = @ + 1]
     \/ UNCHANGED queue
  /\ job' = [job EXCEPT ![t] = Free]
  /\ UNCHANGED <<status, deadClaims, requests, published, past>>

-----------------------------------------------------------------------------
(* process_claim_async, in the consumer.                                   *)

Take(t, c, r) ==
  /\ t \in Workers /\ On(t, "idle") /\ queue[<<c, r>>] > 0
  /\ queue' = [queue EXCEPT ![<<c, r>>] = @ - 1]
  /\ job' = [job EXCEPT ![t] =
       [Free EXCEPT !.pc = "load", !.claim = c, !.retries = r]]
  /\ UNCHANGED <<status, deadClaims, requests, published, past>>

\* A decided claim is left alone, an approved one goes straight to its payout,
\* and anything else is evaluated from the start.
Load(t) ==
  LET s == status[job[t].claim] IN
  /\ On(t, "load")
  /\ \/ s \in {"paid", "rejected"} /\ MoveLoaded(t, "done")
     \/ s = "approved" /\ MoveLoaded(t, "pay")
     \/ s = "processing" /\ MoveLoaded(t, "policy")
     \/ s \in {"initiated", "validated", "evaluated"} /\ MoveLoaded(t, "start")
  /\ UNCHANGED <<status, mail, past>>

Start(t) ==
  /\ On(t, "start") /\ Save(t, "processing")
  /\ job' = [job EXCEPT ![t] =
       [@ EXCEPT !.pc = "policy", !.loaded = "processing"]]
  /\ UNCHANGED <<mail, past>>

\* The policy service answers degraded, invalid or valid.
Policy(t) ==
  /\ On(t, "policy")
  /\ \/ Move(t, "failed") /\ UNCHANGED status
     \/ Move(t, "done") /\ Save(t, "rejected")
     \/ Move(t, "risk") /\ Save(t, "validated")
  /\ UNCHANGED <<mail, past>>

\* The commit of the log entry has expired the loaded row: EVALUATED is written
\* whatever the row holds.
Risk(t) ==
  /\ On(t, "risk")
  /\ \/ Move(t, "failed") /\ UNCHANGED status
     \/ Move(t, "evaluated") /\ Put(t, "evaluated")
  /\ UNCHANGED <<mail, past>>

\* A high risk is rejected; otherwise the claim's id is read for the fraud
\* check, which loads the row again.
Evaluated(t) ==
  /\ On(t, "evaluated")
  /\ \/ Move(t, "done") /\ Put(t, "rejected")
     \/ MoveLoaded(t, "fraud") /\ UNCHANGED status
  /\ UNCHANGED <<mail, past>>

Fraud(t) ==
  /\ On(t, "fraud")
  /\ \/ Move(t, "failed") /\ UNCHANGED <<status, approved>>
     \/ Move(t, "done") /\ Save(t, "rejected") /\ UNCHANGED approved
     \/ /\ Move(t, "announce") /\ Save(t, "approved")
        /\ approved' = approved \cup {job[t].claim}
  /\ UNCHANGED <<mail, settled, crashes>>

\* publish_claim_approved loads the row once more; its broker errors are
\* swallowed too.
AnnounceDelivered(t) ==
  /\ On(t, "announce") /\ MoveLoaded(t, "pay")
  /\ published' = [published EXCEPT ![job[t].claim] = @ + 1]
  /\ UNCHANGED <<status, queue, deadClaims, requests, past>>

AnnounceLost(t) ==
  /\ On(t, "announce") /\ MoveLoaded(t, "pay")
  /\ UNCHANGED <<status, mail, past>>

\* _finalize_approved_claim: POST /payout/process leaves the service.
Pay(t) ==
  /\ On(t, "pay") /\ Move(t, "waiting")
  /\ UNCHANGED <<status, mail, past>>

\* Any answer below 400 counts as success, whatever payout status it carries.
PaySettled(t) ==
  /\ On(t, "waiting") /\ Move(t, "paid")
  /\ settled' = settled \cup {job[t].claim}
  /\ UNCHANGED <<status, mail, approved, crashes>>

\* An error answer leaves the claim approved and ends the attempt.
PayRefused(t) ==
  /\ On(t, "waiting") /\ Move(t, "done")
  /\ UNCHANGED <<status, mail, past>>

\* No answer (timeout, connection error): PAYOUT_REQUEST_FAILED, an exception.
PayUnreachable(t) ==
  /\ On(t, "waiting") /\ Move(t, "failed")
  /\ UNCHANGED <<status, mail, past>>

Paid(t) ==
  /\ On(t, "paid") /\ Move(t, "done") /\ Save(t, "paid")
  /\ UNCHANGED <<mail, past>>

-----------------------------------------------------------------------------
(* _handle_message around it.                                              *)

\* An exception publishes the message again with a higher retry count, or to
\* the dead-letter queue.
Failed(t) ==
  LET c == job[t].claim
      r == job[t].retries
  IN  /\ On(t, "failed") /\ Move(t, "done")
      /\ IF r < RetryLimit
         THEN /\ queue' = [queue EXCEPT ![<<c, r + 1>>] = @ + 1]
              /\ UNCHANGED deadClaims
         ELSE /\ deadClaims' = deadClaims \cup {c}
              /\ UNCHANGED queue
      /\ UNCHANGED <<status, requests, published, past>>

\* message.ack()
Done(t) ==
  /\ On(t, "done") /\ job' = [job EXCEPT ![t] = Free]
  /\ UNCHANGED <<status, mail, past>>

\* The thread dies with its process; a worker's message is delivered again.
JobCrash(t) ==
  /\ ~ On(t, "idle") /\ crashes < MaxCrashes
  /\ crashes' = crashes + 1
  /\ job' = [job EXCEPT ![t] = Free]
  /\ queue' = IF t \in Workers
              THEN [queue EXCEPT ![<<job[t].claim, job[t].retries>>] = @ + 1]
              ELSE queue
  /\ UNCHANGED <<status, deadClaims, requests, published, approved, settled>>

\* A statement fails: no effect, and the request or the attempt is over.
JobDatabaseError(t) ==
  /\ crashes < MaxCrashes /\ crashes' = crashes + 1
  /\ \/ On(t, "save") /\ job' = [job EXCEPT ![t] = Free]
     \/ /\ job[t].pc \in
             WorkerPoints \ {"idle", "pay", "waiting", "failed", "done"}
        /\ Move(t, "failed")
  /\ UNCHANGED <<status, mail, approved, settled>>

-----------------------------------------------------------------------------
\* Steps of a thread that do not wait for another service's answer.
OwnStep(t) ==
  \/ SaveProcessing(t) \/ PublishProcessing(t)
  \/ Load(t) \/ Start(t) \/ Policy(t) \/ Risk(t) \/ Evaluated(t) \/ Fraud(t)
  \/ Paid(t) \/ Failed(t) \/ Done(t)

Announce(t) == AnnounceDelivered(t) \/ AnnounceLost(t)

Answered(t) == PaySettled(t) \/ PayRefused(t) \/ PayUnreachable(t)

JobStep(t) == OwnStep(t) \/ Announce(t) \/ Pay(t) \/ Answered(t)

TakeSome(t) == \E c \in Claims, r \in 0 .. RetryLimit : Take(t, c, r)

ClaimsNext ==
  \E t \in Jobs :
    \/ \E c \in Claims : ReadClaim(t, c)
    \/ TakeSome(t) \/ JobStep(t) \/ JobCrash(t) \/ JobDatabaseError(t)

ClaimsSpec == ClaimsInit /\ [][ClaimsNext]_cvars

\* Server and consumer threads keep running, and the payout call ends, by an
\* answer or by the client's timeout.  No verdict is preferred to another, and a
\* publication may always be lost.
ClaimsFairness ==
  /\ \A t \in Jobs : WF_cvars(JobStep(t))
  /\ \A t \in Workers : WF_cvars(TakeSome(t))

ClaimsFairSpec == ClaimsSpec /\ ClaimsFairness

-----------------------------------------------------------------------------
(* Properties.                                                             *)

\* The state has the shape of the claims table, the queue and the threads.
ClaimsTypeOK ==
  /\ status \in [Claims -> ClaimStatus]
  /\ job \in [Jobs -> JobState]
  /\ queue \in [ProcessingMessage -> Nat]
  /\ deadClaims \subseteq Claims
  /\ requests \in [Claims -> Nat]
  /\ published \in [Claims -> Nat]
  /\ approved \subseteq Claims /\ settled \subseteq Claims
  /\ crashes \in Nat

\* Money is asked for and approvals are announced only for claims that did pass
\* the policy, risk and fraud checks, whatever overwrites whatever.
PayOnlyApproved ==
  /\ \A t \in Workers :
       job[t].pc \in {"announce", "pay", "waiting", "paid"}
         => job[t].claim \in approved
  /\ \A c \in Claims :
       published[c] > 0 \/ status[c] \in {"approved", "paid"}
         => c \in approved

\* A claim is shown as paid only after the payout service answered a call for
\* it with success.
PaidWasSettled == \A c \in Claims : status[c] = "paid" => c \in settled

\* A queued message is not lost: the claim reaches a decision, or its message
\* the dead-letter queue.
MessagesSettle ==
  \A c \in Claims :
    (\E r \in 0 .. RetryLimit : queue[<<c, r>>] > 0) ~>
      (status[c] \in {"approved", "paid", "rejected"} \/ c \in deadClaims)

\* However callers, workers, redeliveries and stale saves interleave, the claims table
\* keeps its shape and only a claim that passed its checks is announced or paid for.
ClaimsSafe == ClaimsTypeOK /\ PayOnlyApproved
=============================================================================
