-------------------------------- MODULE Intake --------------------------------
(***************************************************************************)
(* The claims service's intake (src/backend/services/claims-service):      *)
(* claims are created for every insured user when a disruption is          *)
(* announced, and one at a time by POST /claims/auto.                      *)
(***************************************************************************)
EXTENDS Naturals, Sequences

CONSTANTS
  Events,         \* ids of disruptions
  Users,          \* default_claim_users, in order
  Keys,           \* idempotency keys of POST /claims/auto
  AutoCallers,    \* API threads
  IntakeWorkers,  \* consumer threads of the disruption queue
  IntakeRetries,  \* settings.retry_limit
  MaxAuto,        \* bound: POST /claims/auto requests
  MaxFailures,    \* bound: failing statements and crashes
  Nil            \* "no value"

ASSUME IntakeThreadAssumption == AutoCallers \cap IntakeWorkers = {}

ASSUME IntakeValueAssumption ==
  /\ Nil \notin Keys \cup Events
  /\ IntakeRetries \in Nat /\ MaxAuto \in Nat /\ MaxFailures \in Nat

VARIABLES
  claims,      \* table of claims; a row's index stands for its UUID
  task,        \* what each thread is doing
  inbox,       \* unacknowledged DISRUPTION_DETECTED messages not in flight
  deadEvents,  \* disruptions whose message went to the DLQ
  initiated,   \* CLAIM_INITIATED messages handed to the broker, per claim
  silent,      \* claims whose CLAIM_INITIATED was lost or never sent
  autos,       \* POST /claims/auto requests so far
  failures     \* failing statements and crashes so far

ivars == <<claims, task, inbox, deadEvents, initiated, silent, autos, failures>>

-----------------------------------------------------------------------------
InsuredUsers == {Users[i] : i \in DOMAIN Users}

ASSUME UsersAssumption == Users \in Seq(InsuredUsers)

IntakeThreads == AutoCallers \cup IntakeWorkers

Message == Events \X (0 .. IntakeRetries)

Claim == [user : InsuredUsers, event : Events, key : Keys \cup {Nil}]

TaskPoints == {"idle", "key", "lookup", "insert", "raced", "log", "announce",
               "answered", "failed", "done"}

NoTask == [pc |-> "idle", event |-> Nil, next |-> 0, key |-> Nil,
           row |-> 0, retries |-> 0]

At(t, point) == task[t].pc = point

UserOfTask(t) == Users[task[t].next]

Set(t, record) == task' = [task EXCEPT ![t] = record]

Goto(t, point) == Set(t, [task[t] EXCEPT !.pc = point])

\* get_by_user_event, get_by_idempotency_key
RowsFor(u, e) == {i \in DOMAIN claims : claims[i].user = u /\ claims[i].event = e}
RowsWithKey(k) == {i \in DOMAIN claims : k # Nil /\ claims[i].key = k}

\* A mistake in the place of Conflicts: no UNIQUE (user_id, disruption_event_id).
ConflictsOfKeyOnly(t) == RowsWithKey(task[t].key)

\* The rows a uniqueness constraint would hold against an INSERT of t.
Conflicts(t) == RowsFor(UserOfTask(t), task[t].event) \cup RowsWithKey(task[t].key)

\* auto_create_claim returns row i: the API answers, the consumer goes on with
\* the next user.
Created(t, i) ==
  IF t \in AutoCallers
  THEN Set(t, [task[t] EXCEPT !.pc = "answered", !.row = i])
  ELSE Set(t, [task[t] EXCEPT !.row = 0, !.next = @ + 1,
                              !.pc = IF task[t].next = Len(Users) THEN "done" ELSE "lookup"])

post == <<inbox, deadEvents, initiated, silent>>
bounds == <<autos, failures>>

IntakeInit ==
  /\ claims = <<>>
  /\ task = [t \in IntakeThreads |-> NoTask]
  /\ inbox = [m \in Message |-> 0]
  /\ deadEvents = {} /\ silent = {}
  /\ initiated = <<>>
  /\ autos = 0 /\ failures = 0

\* The exchange puts DISRUPTION_DETECTED of e into the queue.
ReceiveEvent(e) == inbox' = [inbox EXCEPT ![<<e, 0>>] = @ + 1]

-----------------------------------------------------------------------------
(* Plausible mistakes, each in the place of the definition it is named for. *)

\* Lookup, announcing a claim it finds.
LookupAnnounces(t) ==
  LET found == RowsFor(UserOfTask(t), task[t].event) IN
  /\ At(t, "lookup")
  /\ IF found = {} THEN Goto(t, "insert")
     ELSE \E i \in found : Set(t, [task[t] EXCEPT !.pc = "announce", !.row = i])
  /\ UNCHANGED <<claims, post, bounds>>

\* Retry, with the message dropped.
RetryDrops(t) ==
  /\ At(t, "failed") /\ t \in IntakeWorkers /\ Goto(t, "done")
  /\ UNCHANGED <<claims, post, bounds>>

\* RacedClaim, answered from any claim of the event.
RacedByEvent(t) ==
  /\ At(t, "raced")
  /\ \E i \in DOMAIN claims : claims[i].event = task[t].event /\ Created(t, i)
  /\ UNCHANGED <<claims, post, bounds>>

\* RacedClaim, taking a lost race for the end of the batch.
RacedEndsBatch(t) ==
  /\ At(t, "raced") /\ Goto(t, IF t \in AutoCallers THEN "failed" ELSE "done")
  /\ UNCHANGED <<claims, post, bounds>>

-----------------------------------------------------------------------------
(* auto_create_claim.                                                      *)

AutoCreate(t, n, e, k) ==
  /\ t \in AutoCallers /\ At(t, "idle") /\ autos < MaxAuto
  /\ Set(t, [NoTask EXCEPT !.pc = "key", !.event = e, !.next = n, !.key = k])
  /\ autos' = autos + 1
  /\ UNCHANGED <<claims, post, failures>>

\* A key used for another user or event is refused with IDEMPOTENCY_KEY_REUSED.
LookupKey(t) ==
  LET found == RowsWithKey(task[t].key) IN
  /\ At(t, "key")
  /\ IF found = {} THEN Goto(t, "lookup")
     ELSE \E i \in found :
            IF claims[i].user = UserOfTask(t) /\ claims[i].event = task[t].event
            THEN Created(t, i) ELSE Set(t, NoTask)
  /\ UNCHANGED <<claims, post, bounds>>

\* get_by_user_event; create_claims_from_disruption asks the same question
\* right before it, and skips a user for whom the answer is yes.
Lookup(t) ==
  LET found == RowsFor(UserOfTask(t), task[t].event) IN
  /\ At(t, "lookup")
  /\ IF found = {} THEN Goto(t, "insert") ELSE \E i \in found : Created(t, i)
  /\ UNCHANGED <<claims, post, bounds>>

InsertClaim(t) ==
  /\ At(t, "insert")
  /\ IF Conflicts(t) = {}
     THEN /\ claims' = Append(claims, [user |-> UserOfTask(t), event |-> task[t].event,
                                       key |-> task[t].key])
          /\ initiated' = Append(initiated, 0)
          /\ Set(t, [task[t] EXCEPT !.pc = "log", !.row = Len(claims')])
     ELSE Goto(t, "raced") /\ UNCHANGED <<claims, initiated>>
  /\ UNCHANGED <<inbox, deadEvents, silent, bounds>>

\* IntegrityError: answered from a row with the same key, whatever it is about,
\* and else from one of the same user and event.
RacedClaim(t) ==
  LET byKey == RowsWithKey(task[t].key)
      byEvent == RowsFor(UserOfTask(t), task[t].event)
  IN  /\ At(t, "raced")
      /\ CASE byKey # {} -> \E i \in byKey : Created(t, i)
           [] byKey = {} /\ byEvent # {} -> \E i \in byEvent : Created(t, i)
           [] OTHER -> Goto(t, "failed")
      /\ UNCHANGED <<claims, post, bounds>>

LogClaim(t) ==
  /\ At(t, "log") /\ Goto(t, "announce")
  /\ UNCHANGED <<claims, post, bounds>>

\* publish_claim_initiated swallows broker errors.
AnnounceInitiated(t) ==
  /\ At(t, "announce") /\ Created(t, task[t].row)
  /\ initiated' = [initiated EXCEPT ![task[t].row] = @ + 1]
  /\ UNCHANGED <<claims, inbox, deadEvents, silent, bounds>>

InitiatedLost(t) ==
  /\ At(t, "announce") /\ Created(t, task[t].row)
  /\ silent' = silent \cup {task[t].row}
  /\ UNCHANGED <<claims, inbox, deadEvents, initiated, bounds>>

\* The answer to POST /claims/auto: a claim, or an error for a failed one.
Answer(t) ==
  /\ t \in AutoCallers /\ task[t].pc \in {"answered", "failed"} /\ Set(t, NoTask)
  /\ UNCHANGED <<claims, post, bounds>>

-----------------------------------------------------------------------------
(* _handle_message and create_claims_from_disruption.                      *)

TakeEvent(t, e, r) ==
  /\ t \in IntakeWorkers /\ At(t, "idle") /\ inbox[<<e, r>>] > 0
  /\ inbox' = [inbox EXCEPT ![<<e, r>>] = @ - 1]
  /\ Set(t, [NoTask EXCEPT !.event = e, !.retries = r, !.next = 1,
                           !.pc = IF Users = <<>> THEN "done" ELSE "lookup"])
  /\ UNCHANGED <<claims, deadEvents, initiated, silent, bounds>>

\* An exception publishes the whole event again, or to the dead-letter queue.
Retry(t) ==
  LET e == task[t].event
      r == task[t].retries
  IN  /\ At(t, "failed") /\ t \in IntakeWorkers /\ Goto(t, "done")
      /\ IF r < IntakeRetries
         THEN /\ inbox' = [inbox EXCEPT ![<<e, r + 1>>] = @ + 1]
              /\ UNCHANGED deadEvents
         ELSE deadEvents' = deadEvents \cup {e} /\ UNCHANGED inbox
      /\ UNCHANGED <<claims, initiated, silent, bounds>>

AckEvent(t) ==
  /\ At(t, "done") /\ Set(t, NoTask)
  /\ UNCHANGED <<claims, post, bounds>>

-----------------------------------------------------------------------------
\* The row of a claim that was committed and will not be announced any more.
Unannounced(t) == IF task[t].pc \in {"log", "announce"} THEN {task[t].row} ELSE {}

\* A statement fails: the claim may be there already, its log entry is not, and
\* the rest of the batch is left to the next attempt.
StatementFails(t) ==
  /\ failures < MaxFailures /\ failures' = failures + 1
  /\ task[t].pc \in {"key", "lookup", "insert", "raced", "log"}
  /\ silent' = silent \cup Unannounced(t) /\ Goto(t, "failed")
  /\ UNCHANGED <<claims, inbox, deadEvents, initiated, autos>>

\* The thread dies with its process; a worker's message is delivered again.
IntakeCrash(t) ==
  /\ failures < MaxFailures /\ failures' = failures + 1
  /\ ~ At(t, "idle") /\ Set(t, NoTask)
  /\ silent' = silent \cup Unannounced(t)
  /\ inbox' = IF t \in IntakeWorkers
              THEN [inbox EXCEPT ![<<task[t].event, task[t].retries>>] = @ + 1] ELSE inbox
  /\ UNCHANGED <<claims, deadEvents, initiated, autos>>

-----------------------------------------------------------------------------
IntakeStep(t) ==
  \/ LookupKey(t) \/ Lookup(t) \/ InsertClaim(t) \/ RacedClaim(t) \/ LogClaim(t)
  \/ AnnounceInitiated(t) \/ InitiatedLost(t) \/ Answer(t) \/ Retry(t) \/ AckEvent(t)

TakeAny(t) == \E e \in Events, r \in 0 .. IntakeRetries : TakeEvent(t, e, r)

-----------------------------------------------------------------------------
(* Properties.                                                             *)

\* The state has the shape of the claims table, the queue and the threads.
IntakeTypeOK ==
  /\ claims \in Seq(Claim)
  /\ task \in [IntakeThreads ->
       [pc : TaskPoints, event : Events \cup {Nil}, next : 0 .. Len(Users) + 1,
        key : Keys \cup {Nil}, row : 0 .. Len(claims), retries : 0 .. IntakeRetries]]
  /\ inbox \in [Message -> Nat]
  /\ deadEvents \subseteq Events /\ silent \subseteq DOMAIN claims
  /\ initiated \in Seq(Nat) /\ Len(initiated) = Len(claims)
  /\ autos \in Nat /\ failures \in Nat

\* A user has one claim per disruption, for all redeliveries, republished
\* batches and simultaneous POST /claims/auto.
OneClaimPerUser ==
  \A i, j \in DOMAIN claims :
    claims[i].user = claims[j].user /\ claims[i].event = claims[j].event => i = j

\* The claim a caller is told about is the one it asked for, or the one that has
\* taken its key.
AnswerFits ==
  \A t \in AutoCallers : At(t, "answered") =>
    LET c == claims[task[t].row] IN
    c.key = task[t].key \/ (c.user = UserOfTask(t) /\ c.event = task[t].event)

\* CLAIM_INITIATED, which starts the fraud check, is sent at most once for a
\* claim, whoever loses the race for its row; and it is sent, unless its
\* publication or its log entry failed or its thread is still on the way.
InitiatedOnce ==
  \A i \in DOMAIN claims :
    \/ initiated[i] = 1 /\ i \notin silent
    \/ initiated[i] = 0 /\ \/ i \in silent
                           \/ \E t \in IntakeThreads : i \in Unannounced(t)

\* An event is dead-lettered only after that many failing statements: losing a
\* race is not a failure.
DeadEventsNeedFailures == deadEvents # {} => failures > IntakeRetries

\* Every insured user has a claim for e.
Covered(e) == \A u \in InsuredUsers : RowsFor(u, e) # {}

\* Racing intakes, redelivered events and failing statements leave one claim per user
\* and event, and dead-letter no event that did not fail too often.
IntakeSafe == IntakeTypeOK /\ OneClaimPerUser /\ DeadEventsNeedFailures
=============================================================================
