--------------------------- MODULE Notifications ---------------------------
(***************************************************************************)
(* The notification service's deliveries: NotificationService (queue,      *)
(* retry, deliver), the repository it writes through, and the Celery queue *)
(* between the API process and the workers.  Callers are the threads that  *)
(* run POST /notify/send and /notify/retry and the event-bus thread, which *)
(* queues a notification for one user; workers run                         *)
(* deliver_notification_task.  A row is loaded, the provider is called and *)
(* the row is written back from the loaded copy: SQLAlchemy writes only    *)
(* the columns that differ from it.  Celery acknowledges a task when a     *)
(* worker takes it.                                                        *)
(***************************************************************************)
EXTENDS Naturals, Sequences, FiniteSets

CONSTANTS
  Callers,     \* threads of the API process
  Workers,     \* slots of the Celery worker (--concurrency)
  MaxRetries,  \* settings.max_retries
  MaxTargets,  \* users named by one send request
  MaxNotes,    \* bound: rows created
  MaxManual,   \* bound: manual retries
  MaxFaults    \* bound: broker, database and process failures

ASSUME NotificationsAssumption ==
  /\ MaxRetries \in Nat /\ MaxNotes \in Nat \ {0} /\ MaxFaults \in Nat
  /\ MaxTargets \in Nat \ {0} /\ MaxManual \in Nat

VARIABLES
  rows,     \* the notifications table; a row's id is its position
  tasks,    \* deliveries waiting in the Celery queue, per row
  caller,   \* what each caller is doing
  worker,   \* what each worker is doing
  sent,     \* external: messages the provider has accepted, per row
  retried,  \* history: rows an operator has asked to retry
  lost,     \* history: rows one of whose deliveries never reached a worker's end
  manual, failures  \* bounds

notifVars == <<rows, tasks, caller, worker, sent, retried, lost, manual, failures>>

Ids == 1..MaxNotes
NotificationStatus == {"queued", "sent", "failed", "retry_scheduled"}
Notification == [status : NotificationStatus, retry_count : Nat]
NewRow == [status |-> "queued", retry_count |-> 0]
Resting == [pc |-> "idle", id |-> 0, left |-> 0, item |-> NewRow]

NotificationsInit ==
  /\ rows = <<>> /\ tasks = [i \in Ids |-> 0]
  /\ caller = [c \in Callers |-> Resting]
  /\ worker = [w \in Workers |-> Resting]
  /\ sent = [i \in Ids |-> 0]
  /\ retried = {} /\ lost = {} /\ manual = 0 /\ failures = 0

Fault == failures < MaxFaults /\ failures' = failures + 1
Publish(id) == tasks' = [tasks EXCEPT ![id] = @ + 1]

\* save of a loaded item: a column equal to its loaded value is not written
WriteStatus(id, item, status) ==
  IF item.status = status THEN rows[id].status ELSE status
MarkSent(id, item) ==
  rows' = [rows EXCEPT ![id].status = WriteStatus(id, item, "sent")]
MarkFailed(id, item) ==
  rows' = [rows EXCEPT ![id].status = WriteStatus(id, item, "failed")]
MarkRetryScheduled(id, item) ==
  rows' = [rows EXCEPT ![id] =
             [status |-> WriteStatus(id, item, "retry_scheduled"),
              retry_count |-> item.retry_count + 1]]

(* ------------------------ queue_notification --------------------------- *)

Send(c) ==
  /\ caller[c].pc = "idle"
  /\ \E n \in 1..MaxTargets :
       /\ Len(rows) + n <= MaxNotes
       /\ caller' = [caller EXCEPT ![c] = [Resting EXCEPT !.pc = "create", !.left = n]]
  /\ UNCHANGED <<rows, tasks, worker, sent, retried, lost, manual, failures>>

Create(c) ==
  /\ caller[c].pc = "create" /\ Len(rows) < MaxNotes
  /\ rows' = Append(rows, NewRow)
  /\ caller' = [caller EXCEPT ![c] = [@ EXCEPT !.pc = "enqueue", !.id = Len(rows) + 1]]
  /\ UNCHANGED <<tasks, worker, sent, retried, lost, manual, failures>>

Enqueue(c) ==
  /\ caller[c].pc = "enqueue"
  /\ Publish(caller[c].id)
  /\ caller' = [caller EXCEPT ![c] =
                  IF @.left = 1 THEN Resting
                  ELSE [Resting EXCEPT !.pc = "create", !.left = caller[c].left - 1]]
  /\ UNCHANGED <<rows, worker, sent, retried, lost, manual, failures>>

(* ------------------------ retry_notification --------------------------- *)

RequestRetry(c) ==
  /\ caller[c].pc = "idle" /\ manual < MaxManual
  /\ \E id \in DOMAIN rows :
       /\ rows[id].retry_count < MaxRetries
       /\ caller' = [caller EXCEPT ![c] =
                       [Resting EXCEPT !.pc = "mark", !.id = id, !.item = rows[id]]]
       /\ retried' = retried \cup {id}
  /\ manual' = manual + 1
  /\ UNCHANGED <<rows, tasks, worker, sent, lost, failures>>

MarkForRetry(c) ==
  /\ caller[c].pc = "mark"
  /\ MarkRetryScheduled(caller[c].id, caller[c].item)
  /\ caller' = [caller EXCEPT ![c].pc = "republish"]
  /\ UNCHANGED <<tasks, worker, sent, retried, lost, manual, failures>>

RepublishRetry(c) ==
  /\ caller[c].pc = "republish"
  /\ Publish(caller[c].id)
  /\ caller' = [caller EXCEPT ![c] = Resting]
  /\ UNCHANGED <<rows, worker, sent, retried, lost, manual, failures>>

\* The request ends with an error: the targets not reached yet are not created,
\* and a row already written keeps its status without a task.
CallerFails(c) ==
  /\ caller[c].pc # "idle" /\ Fault
  /\ lost' = IF caller[c].pc \in {"enqueue", "republish"}
             THEN lost \cup {caller[c].id} ELSE lost
  /\ caller' = [caller EXCEPT ![c] = Resting]
  /\ UNCHANGED <<rows, tasks, worker, sent, retried, manual>>

(* ----------------------- deliver_notification -------------------------- *)

Deliver(w) ==
  /\ worker[w].pc = "idle"
  /\ \E id \in DOMAIN rows :
       /\ tasks[id] > 0
       /\ tasks' = [tasks EXCEPT ![id] = @ - 1]
       /\ worker' = [worker EXCEPT ![w] =
                       [Resting EXCEPT !.pc = "send", !.id = id, !.item = rows[id]]]
  /\ UNCHANGED <<rows, caller, sent, retried, lost, manual, failures>>

ProviderAccepts(w) ==
  /\ worker[w].pc = "send"
  /\ sent' = [sent EXCEPT ![worker[w].id] = @ + 1]
  /\ worker' = [worker EXCEPT ![w].pc = "accepted"]
  /\ UNCHANGED <<rows, tasks, caller, retried, lost, manual, failures>>

\* SMSProviderClient and PushProviderClient raise without an API key.
ProviderRefuses(w) ==
  /\ worker[w].pc = "send"
  /\ worker' = [worker EXCEPT ![w].pc = "refused"]
  /\ UNCHANGED <<rows, tasks, caller, sent, retried, lost, manual, failures>>

SaveSent(w) ==
  /\ worker[w].pc = "accepted"
  /\ MarkSent(worker[w].id, worker[w].item)
  /\ worker' = [worker EXCEPT ![w] = Resting]
  /\ UNCHANGED <<tasks, caller, sent, retried, lost, manual, failures>>

\* A mistake in the place of SaveRetry: the new task not published.
SaveRetryOnly(w) ==
  /\ worker[w].pc = "refused" /\ worker[w].item.retry_count < MaxRetries
  /\ MarkRetryScheduled(worker[w].id, worker[w].item)
  /\ worker' = [worker EXCEPT ![w] = Resting]
  /\ UNCHANGED <<tasks, caller, sent, retried, lost, manual, failures>>

SaveRetry(w) ==
  /\ worker[w].pc = "refused" /\ worker[w].item.retry_count < MaxRetries
  /\ MarkRetryScheduled(worker[w].id, worker[w].item)
  /\ worker' = [worker EXCEPT ![w].pc = "republish"]
  /\ UNCHANGED <<tasks, caller, sent, retried, lost, manual, failures>>

SaveFailed(w) ==
  /\ worker[w].pc = "refused" /\ worker[w].item.retry_count >= MaxRetries
  /\ MarkFailed(worker[w].id, worker[w].item)
  /\ worker' = [worker EXCEPT ![w] = Resting]
  /\ UNCHANGED <<tasks, caller, sent, retried, lost, manual, failures>>

\* A mistake in the place of PublishRetry: nothing published.
PublishNothing(w) ==
  /\ worker[w].pc = "republish"
  /\ worker' = [worker EXCEPT ![w] = Resting]
  /\ UNCHANGED <<rows, tasks, caller, sent, retried, lost, manual, failures>>

PublishRetry(w) ==
  /\ worker[w].pc = "republish"
  /\ Publish(worker[w].id)
  /\ worker' = [worker EXCEPT ![w] = Resting]
  /\ UNCHANGED <<rows, caller, sent, retried, lost, manual, failures>>

\* A mistake in the place of WorkerFails: a task acknowledged after its delivery.
WorkerFailsLate(w) ==
  /\ worker[w].pc # "idle" /\ Fault
  /\ Publish(worker[w].id)
  /\ worker' = [worker EXCEPT ![w] = Resting]
  /\ UNCHANGED <<rows, caller, sent, retried, lost, manual>>

\* The worker dies, the database refuses the write (the except branch then
\* uses a session that must be rolled back first, and raises), or the broker
\* refuses the new task: the old one is acknowledged already.
WorkerFails(w) ==
  /\ worker[w].pc # "idle" /\ Fault
  /\ lost' = lost \cup {worker[w].id}
  /\ worker' = [worker EXCEPT ![w] = Resting]
  /\ UNCHANGED <<rows, tasks, caller, sent, retried, manual>>

CallerStep(c) ==
  \/ Create(c) \/ Enqueue(c)
  \/ MarkForRetry(c) \/ RepublishRetry(c)
WorkerStep(w) ==
  \/ Deliver(w) \/ ProviderAccepts(w) \/ ProviderRefuses(w)
  \/ SaveSent(w) \/ SaveRetry(w) \/ SaveFailed(w) \/ PublishRetry(w)

NotificationsNext ==
  \/ \E c \in Callers :
       Send(c) \/ RequestRetry(c) \/ CallerStep(c) \/ CallerFails(c)
  \/ \E w \in Workers : WorkerStep(w) \/ WorkerFails(w)

\* Threads run on and a worker that is up takes the next task; requests,
\* provider answers and failures are not forced.
NotificationsSpec ==
  /\ NotificationsInit /\ [][NotificationsNext]_notifVars
  /\ \A c \in Callers : WF_notifVars(CallerStep(c))
  /\ \A w \in Workers : WF_notifVars(WorkerStep(w))

-----------------------------------------------------------------------------

(* The table, the broker's tasks and the threads have their shape, and no   *)
(* row counts more retries than the limit.                                  *)
NotificationsTypeOK ==
  /\ rows \in Seq(Notification) /\ Len(rows) <= MaxNotes
  /\ tasks \in [Ids -> Nat] /\ sent \in [Ids -> Nat]
  /\ retried \subseteq DOMAIN rows /\ lost \subseteq DOMAIN rows
  /\ \A i \in DOMAIN rows : rows[i].retry_count <= MaxRetries
  /\ \A c \in Callers : caller[c].pc \in {"idle", "create", "enqueue", "mark", "republish"}
  /\ \A w \in Workers :
       worker[w].pc \in {"idle", "send", "accepted", "refused", "republish"}

Pending(id) ==
  \/ tasks[id] > 0
  \/ \E c \in Callers : caller[c].id = id /\ caller[c].pc \in {"enqueue", "republish"}
  \/ \E w \in Workers : worker[w].id = id /\ worker[w].pc # "idle"

(* A row still waiting (queued, or scheduled for a retry) has a delivery on *)
(* its way, unless one was lost: the status in the database and the task in *)
(* the broker are written in two steps by three kinds of thread, and        *)
(* nothing scans the table for rows left behind.                            *)
WaitingIsPending ==
  \A id \in DOMAIN rows :
    rows[id].status \in {"queued", "retry_scheduled"} => Pending(id) \/ id \in lost

(* Unless an operator retries it, a notification reaches its user at most    *)
(* once, through any number of refusals, retries and worker deaths.          *)
TwiceOnlyByRetry == \A id \in DOMAIN rows : sent[id] > 1 => id \in retried

(* The delivery does not look at the status it finds, so deliveries of one  *)
(* row overlap; still a row shown as sent was accepted by the provider, and *)
(* one no operator retried shows sent once it has been, or lost its worker. *)
SentWasAccepted ==
  \A id \in DOMAIN rows :
    /\ rows[id].status = "sent" => sent[id] > 0
    /\ sent[id] > 0 /\ ~Pending(id) /\ id \notin retried \cup lost
         => rows[id].status = "sent"

(* A failed row has used up its retries: the last refusal was counted.      *)
FailedWasRetried ==
  \A id \in DOMAIN rows \ retried :
    rows[id].status = "failed" => rows[id].retry_count = MaxRetries /\ sent[id] = 0

(* Every notification no delivery of which is lost ends as sent or failed,  *)
(* however the provider answers.                                            *)
NotificationsSettle ==
  \A id \in Ids :
    id \in DOMAIN rows ~>
      id \in lost \/ (id \in DOMAIN rows /\ rows[id].status \in {"sent", "failed"})

(* The row of a notification and its tasks in the broker, which no step       *)
(* writes together, agree on whether it waits, was sent or has failed.       *)
NotificationsSafe ==
  NotificationsTypeOK /\ WaitingIsPending /\ SentWasAccepted /\ FailedWasRetried
=============================================================================
