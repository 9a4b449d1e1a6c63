------------------------------- MODULE Payout -------------------------------
(***************************************************************************)
(* The payout service (src/backend/services/payout-service).               *)
(*                                                                         *)
(* Three kinds of threads execute PayoutService against one database:      *)
(*   - ApiThreads serve  POST /payout/process                              *)
(*   - Consumers  handle CLAIM_APPROVED messages of the payout queue       *)
(*   - Operators  serve  POST /payout/retry                                *)
(* A thread is a record with a program counter; between two program points *)
(* lies exactly one database statement, one gateway call or one broker     *)
(* call, so every interleaving of two requests at those points is a        *)
(* behaviour.  The two tables are sequences: rows are appended, updated in *)
(* place and never deleted, and a row's index stands for its UUID.         *)
(***************************************************************************)
EXTENDS Naturals, Sequences

CONSTANTS
  Claims,       \* claim ids
  Keys,         \* Idempotency-Key header values
  Amounts,      \* payout amounts a request may carry
  Users,        \* claim owners
  UserOf,       \* the owner of each claim
  EventKey,     \* the key the consumer derives from a claim id
  EventAmount,  \* the amount CLAIM_APPROVED carries
  ApiThreads, Consumers, Operators,
  RetryLimit,   \* settings.retry_limit of the consumer
  MaxEvents,    \* bound: CLAIM_APPROVED publications per claim
  MaxFaults,    \* bound: crashes and database errors in a behaviour
  None          \* "no value"

ASSUME DomainAssumption ==
  /\ UserOf \in [Claims -> Users]
  /\ EventKey \in [Claims -> Keys]
  /\ Amounts \subseteq Nat \ {0}
  /\ EventAmount \in Amounts

ASSUME ThreadAssumption ==
  /\ ApiThreads \cap Operators = {}
  /\ Consumers \cap (ApiThreads \cup Operators) = {}

ASSUME BoundAssumption ==
  RetryLimit \in Nat /\ MaxEvents \in Nat /\ MaxFaults \in Nat

VARIABLES
  payouts,    \* table payouts
  ledger,     \* table ledger
  thread,     \* the request each thread is executing
  inbox,      \* unacknowledged messages of the payout queue not in flight
  deadLetter, \* messages moved to the payout DLQ
  announced,  \* payout events handed to the broker
  sent,       \* CLAIM_APPROVED publications so far, per claim
  charged,    \* history: gateway successes of process_payout, per claim
  recharged,  \* history: gateway successes of retry_failed_payout, per claim
  faults      \* crashes and database errors so far

vars == <<payouts, ledger, thread, inbox, deadLetter, announced, sent,
          charged, recharged, faults>>

-----------------------------------------------------------------------------
Threads == ApiThreads \cup Consumers \cup Operators

PayoutStatus == {"pending", "completed", "failed"}

\* SERVER_ERROR stands for every 5xx other than PAYOUT_FAILED.
ErrorCodes == {"DUPLICATE_PAYOUT", "IDEMPOTENCY_KEY_REUSED", "PAYOUT_FAILED",
               "SERVER_ERROR"}

\* A success reply carries the status of the row it found or produced.
Replies == PayoutStatus \cup ErrorCodes

\* Replies the consumer treats as success.
Settled == PayoutStatus \cup {"DUPLICATE_PAYOUT", "IDEMPOTENCY_KEY_REUSED"}

Row == [claim : Claims, key : Keys, amount : Amounts, status : PayoutStatus]

Entry == [tx : Nat, user : Users, amount : Amounts, balance : Nat]

Message == Claims \X (0 .. RetryLimit)

\* Program points at which the thread works on a row of its own.
Paying == {"gateway", "save_completed", "save_failed"}
Crediting == {"ledger_check", "ledger_balance", "ledger_insert",
              "announce_completed"}
Owning == Paying \cup Crediting \cup {"announce_failed"}
Looking == {"lookup_key", "lookup_claim", "insert", "raced"}
Points == {"idle", "reply", "ack"} \cup Looking \cup Owning

ThreadState ==
  [pc : Points, claim : Claims \cup {None}, key : Keys \cup {None},
   amount : Amounts \cup {0}, tx : Nat, balance : Nat,
   retries : 0 .. RetryLimit, reply : Replies \cup {None}]

Idle == [pc |-> "idle", claim |-> None, key |-> None, amount |-> 0, tx |-> 0,
         balance |-> 0, retries |-> 0, reply |-> None]

At(t, point) == thread[t].pc = point

Go(t, point) == thread' = [thread EXCEPT ![t] = [@ EXCEPT !.pc = point]]

Answer(t, r) ==
  thread' = [thread EXCEPT ![t] = [@ EXCEPT !.pc = "reply", !.reply = r]]

Write(i, s) == payouts' = [payouts EXCEPT ![i] = [@ EXCEPT !.status = s]]

RowsByKey(k) == {i \in DOMAIN payouts : payouts[i].key = k}

RowsByClaim(c) == {i \in DOMAIN payouts : payouts[i].claim = c}

EntriesOfTx(i) == {n \in DOMAIN ledger : ledger[n].tx = i}

EntriesOfUser(u) == {n \in DOMAIN ledger : ledger[n].user = u}

Owner(i) == UserOf[payouts[i].claim]

-----------------------------------------------------------------------------
Init ==
  /\ payouts = << >>
  /\ ledger = << >>
  /\ thread = [t \in Threads |-> Idle]
  /\ inbox = [m \in Message |-> 0]
  /\ deadLetter = {}
  /\ announced = {}
  /\ sent = [c \in Claims |-> 0]
  /\ charged = [c \in Claims |-> 0]
  /\ recharged = [c \in Claims |-> 0]
  /\ faults = 0

tables == <<payouts, ledger>>
broker == <<inbox, deadLetter, announced, sent>>
history == <<charged, recharged, faults>>

-----------------------------------------------------------------------------
(* Plausible mistakes.  None of these is part of the specification: each is *)
(* what the action named in its first word would be with one bug in it, and *)
(* shows which property notices that bug.                                   *)

\* A key hit is answered without comparing the stored request.
LookupKeyBlind(t) ==
  /\ At(t, "lookup_key")
  /\ \/ RowsByKey(thread[t].key) = {} /\ Go(t, "lookup_claim")
     \/ \E i \in RowsByKey(thread[t].key) : Answer(t, payouts[i].status)
  /\ UNCHANGED <<tables, broker, history>>

\* The table lacks its unique constraints.
InsertUnconstrained(t) ==
  /\ At(t, "insert")
  /\ payouts' = Append(payouts,
       [claim |-> thread[t].claim, key |-> thread[t].key,
        amount |-> thread[t].amount, status |-> "pending"])
  /\ thread' = [thread EXCEPT ![t] =
       [@ EXCEPT !.pc = "gateway", !.tx = Len(payouts) + 1]]
  /\ UNCHANGED <<ledger, broker, history>>

\* The loser of an insert race goes on with the winner's row.
RacedProceeds(t) ==
  /\ At(t, "raced")
  /\ \E i \in RowsByClaim(thread[t].claim) :
       thread' = [thread EXCEPT ![t] = [@ EXCEPT !.pc = "gateway", !.tx = i]]
  /\ UNCHANGED <<tables, broker, history>>

\* The ledger step is forgotten.
SaveCompletedOnly(t) ==
  /\ At(t, "save_completed")
  /\ Write(thread[t].tx, "completed")
  /\ Go(t, "announce_completed")
  /\ UNCHANGED <<ledger, broker, history>>

\* A failed retry writes its status unconditionally.
SaveFailedAlways(t) ==
  /\ At(t, "save_failed")
  /\ Write(thread[t].tx, "failed")
  /\ IF t \in Operators THEN Answer(t, "PAYOUT_FAILED")
                         ELSE Go(t, "announce_failed")
  /\ UNCHANGED <<ledger, broker, history>>

\* ledger.transaction_id is not unique.
LedgerInsertTwice(t) ==
  LET i == thread[t].tx IN
  /\ At(t, "ledger_insert")
  /\ ledger' = Append(ledger,
       [tx |-> i, user |-> Owner(i), amount |-> payouts[i].amount,
        balance |-> thread[t].balance + payouts[i].amount])
  /\ Go(t, "announce_completed")
  /\ UNCHANGED <<payouts, broker, history>>

\* The latest entry's amount is added to a balance that includes it.
LedgerBalanceAgain(t) ==
  LET mine == EntriesOfUser(Owner(thread[t].tx))
      read(b) == thread' = [thread EXCEPT ![t] =
                   [@ EXCEPT !.pc = "ledger_insert", !.balance = b]]
  IN  /\ At(t, "ledger_balance")
      /\ \/ mine = {} /\ read(0)
         \/ \E n \in mine : (\A m \in mine : m <= n)
                          /\ read(ledger[n].balance + ledger[n].amount)
      /\ UNCHANGED <<tables, broker, history>>

\* A failed message is acknowledged without being published again.
ConcludeDropping(t) ==
  /\ t \in Consumers /\ At(t, "reply")
  /\ thread' = [thread EXCEPT ![t] = Idle]
  /\ UNCHANGED <<tables, broker, history>>

-----------------------------------------------------------------------------
(* Where requests come from.                                               *)

\* POST /payout/process arrives with claim c, key k and amount a.
ReceiveProcess(t, c, k, a) ==
  /\ t \in ApiThreads /\ At(t, "idle")
  /\ thread' = [thread EXCEPT ![t] =
       [Idle EXCEPT !.pc = "lookup_key", !.claim = c, !.key = k, !.amount = a]]
  /\ UNCHANGED <<tables, broker, history>>

\* The claims service publishes CLAIM_APPROVED for c.
PublishApproved(c) ==
  /\ sent[c] < MaxEvents
  /\ sent' = [sent EXCEPT ![c] = @ + 1]
  /\ inbox' = [inbox EXCEPT ![<<c, 0>>] = @ + 1]
  /\ UNCHANGED <<tables, thread, deadLetter, announced, history>>

\* The broker hands a message to a consumer, which keeps it unacknowledged.
Deliver(t, c, r) ==
  /\ t \in Consumers /\ At(t, "idle")
  /\ inbox[<<c, r>>] > 0
  /\ inbox' = [inbox EXCEPT ![<<c, r>>] = @ - 1]
  /\ thread' = [thread EXCEPT ![t] =
       [Idle EXCEPT !.pc = "lookup_key", !.claim = c, !.key = EventKey[c],
                    !.amount = EventAmount, !.retries = r]]
  /\ UNCHANGED <<tables, deadLetter, announced, sent, history>>

\* POST /payout/retry: only a row read as failed is retried; any other status
\* is answered RETRY_NOT_ALLOWED and changes nothing.
RetryFailed(t, i) ==
  /\ t \in Operators /\ At(t, "idle")
  /\ i \in DOMAIN payouts /\ payouts[i].status = "failed"
  /\ thread' = [thread EXCEPT ![t] = [Idle EXCEPT !.pc = "gateway", !.tx = i]]
  /\ UNCHANGED <<tables, broker, history>>

-----------------------------------------------------------------------------
(* process_payout up to its INSERT.                                        *)

\* SELECT by idempotency key: a hit answers the row's current status, or
\* refuses the key if the row belongs to a different request.
LookupKey(t) ==
  /\ At(t, "lookup_key")
  /\ \/ /\ RowsByKey(thread[t].key) = {}
        /\ Go(t, "lookup_claim")
     \/ \E i \in RowsByKey(thread[t].key) :
          IF /\ payouts[i].claim = thread[t].claim
             /\ payouts[i].amount = thread[t].amount
          THEN Answer(t, payouts[i].status)
          ELSE Answer(t, "IDEMPOTENCY_KEY_REUSED")
  /\ UNCHANGED <<tables, broker, history>>

\* SELECT by claim id.
LookupClaim(t) ==
  /\ At(t, "lookup_claim")
  /\ IF RowsByClaim(thread[t].claim) = {}
     THEN Go(t, "insert")
     ELSE Answer(t, "DUPLICATE_PAYOUT")
  /\ UNCHANGED <<tables, broker, history>>

\* INSERT ... COMMIT: both columns are unique, so a lost race is rolled back.
Insert(t) ==
  /\ At(t, "insert")
  /\ IF RowsByKey(thread[t].key) \cup RowsByClaim(thread[t].claim) = {}
     THEN /\ payouts' = Append(payouts,
               [claim |-> thread[t].claim, key |-> thread[t].key,
                amount |-> thread[t].amount, status |-> "pending"])
          /\ thread' = [thread EXCEPT ![t] =
               [@ EXCEPT !.pc = "gateway", !.tx = Len(payouts) + 1]]
     ELSE Go(t, "raced") /\ UNCHANGED payouts
  /\ UNCHANGED <<ledger, broker, history>>

\* The IntegrityError path: the winner's row is answered if it has this key
\* and this claim, whatever its amount; else the claim is a duplicate.
Raced(t) ==
  /\ At(t, "raced")
  /\ \/ \E i \in RowsByKey(thread[t].key) :
          /\ payouts[i].claim = thread[t].claim
          /\ Answer(t, payouts[i].status)
     \/ /\ \A i \in RowsByKey(thread[t].key) :
             payouts[i].claim # thread[t].claim
        /\ Answer(t, "DUPLICATE_PAYOUT")
  /\ UNCHANGED <<tables, broker, history>>

-----------------------------------------------------------------------------
(* The gateway call and what follows it, in process_payout and in          *)
(* retry_failed_payout.                                                    *)

\* The mock gateway fails exactly when its replica is configured to; replicas
\* differ and are redeployed between calls, so each call may go either way.
Gateway(t) ==
  LET c == payouts[thread[t].tx].claim IN
  /\ At(t, "gateway")
  /\ \/ /\ IF t \in Operators
           THEN recharged' = [recharged EXCEPT ![c] = @ + 1]
                /\ UNCHANGED charged
           ELSE charged' = [charged EXCEPT ![c] = @ + 1]
                /\ UNCHANGED recharged
        /\ Go(t, "save_completed")
     \/ /\ Go(t, "save_failed")
        /\ UNCHANGED <<charged, recharged>>
  /\ UNCHANGED <<tables, broker, faults>>

SaveCompleted(t) ==
  /\ At(t, "save_completed")
  /\ Write(thread[t].tx, "completed")
  /\ Go(t, "ledger_check")
  /\ UNCHANGED <<ledger, broker, history>>

\* A first attempt turns its pending row failed.  A retry loaded the row as
\* failed, so the session sees no change of status and writes none.
SaveFailed(t) ==
  /\ At(t, "save_failed")
  /\ IF t \in Operators
     THEN Answer(t, "PAYOUT_FAILED") /\ UNCHANGED payouts
     ELSE /\ Write(thread[t].tx, "failed")
          /\ Go(t, "announce_failed")
  /\ UNCHANGED <<ledger, broker, history>>

\* publish_payout_event, then the reply: a broker error surfaces as a 5xx.
Publish(t, event, reply) ==
  \/ /\ announced' = announced \cup {<<event, thread[t].tx>>}
     /\ Answer(t, reply)
  \/ Answer(t, "SERVER_ERROR") /\ UNCHANGED announced

AnnounceFailed(t) ==
  /\ At(t, "announce_failed")
  /\ Publish(t, "PAYOUT_FAILED", "PAYOUT_FAILED")
  /\ UNCHANGED <<tables, inbox, deadLetter, sent, history>>

\* _create_ledger_entry_if_missing, first SELECT.
LedgerCheck(t) ==
  /\ At(t, "ledger_check")
  /\ IF EntriesOfTx(thread[t].tx) = {}
     THEN Go(t, "ledger_balance")
     ELSE Go(t, "announce_completed")
  /\ UNCHANGED <<tables, broker, history>>

\* create_entry reads the balance of the user's latest entry.
LedgerBalance(t) ==
  LET mine == EntriesOfUser(Owner(thread[t].tx))
      read(b) == thread' = [thread EXCEPT ![t] =
                   [@ EXCEPT !.pc = "ledger_insert", !.balance = b]]
  IN  /\ At(t, "ledger_balance")
      /\ \/ mine = {} /\ read(0)
         \/ \E n \in mine : (\A m \in mine : m <= n) /\ read(ledger[n].balance)
      /\ UNCHANGED <<tables, broker, history>>

\* INSERT of the credit; transaction_id is unique, so the second of two
\* concurrent inserts, which can only be a retry's, raises an IntegrityError
\* that the service's error handler answers with DUPLICATE_PAYOUT.
LedgerInsert(t) ==
  LET i == thread[t].tx IN
  /\ At(t, "ledger_insert")
  /\ IF EntriesOfTx(i) = {}
     THEN /\ ledger' = Append(ledger,
               [tx |-> i, user |-> Owner(i), amount |-> payouts[i].amount,
                balance |-> thread[t].balance + payouts[i].amount])
          /\ Go(t, "announce_completed")
     ELSE Answer(t, "DUPLICATE_PAYOUT") /\ UNCHANGED ledger
  /\ UNCHANGED <<payouts, broker, history>>

\* Here the money has moved when the broker fails, and nothing publishes the
\* event again.  A retry's success reply, "retry_initiated", is modelled as
\* "completed".
AnnounceCompleted(t) ==
  /\ At(t, "announce_completed")
  /\ Publish(t, "PAYOUT_COMPLETED", "completed")
  /\ UNCHANGED <<tables, inbox, deadLetter, sent, history>>

-----------------------------------------------------------------------------
(* How a request ends.                                                     *)

\* The HTTP response leaves the service.
Return(t) ==
  /\ t \notin Consumers /\ At(t, "reply")
  /\ thread' = [thread EXCEPT ![t] = Idle]
  /\ UNCHANGED <<tables, broker, history>>

\* _handle_message: success and the two swallowed errors are acknowledged;
\* anything else is published again with a higher retry count, or dead-lettered,
\* and only then acknowledged.
Conclude(t) ==
  LET c == thread[t].claim
      r == thread[t].retries
  IN  /\ t \in Consumers /\ At(t, "reply")
      /\ IF thread[t].reply \in Settled
         THEN /\ thread' = [thread EXCEPT ![t] = Idle]
              /\ UNCHANGED <<inbox, deadLetter>>
         ELSE /\ Go(t, "ack")
              /\ IF r < RetryLimit
                 THEN /\ inbox' = [inbox EXCEPT ![<<c, r + 1>>] = @ + 1]
                      /\ UNCHANGED deadLetter
                 ELSE /\ deadLetter' = deadLetter \cup {c}
                      /\ UNCHANGED inbox
      /\ UNCHANGED <<tables, announced, sent, history>>

Ack(t) ==
  /\ At(t, "ack")
  /\ thread' = [thread EXCEPT ![t] = Idle]
  /\ UNCHANGED <<tables, broker, history>>

-----------------------------------------------------------------------------
(* Faults.                                                                 *)

\* The thread dies with its process.  Committed rows stay; a message it had
\* not acknowledged goes back to the queue.
Crash(t) ==
  /\ ~ At(t, "idle") /\ faults < MaxFaults
  /\ faults' = faults + 1
  /\ thread' = [thread EXCEPT ![t] = Idle]
  /\ inbox' = IF t \in Consumers
              THEN [inbox EXCEPT ![<<thread[t].claim, thread[t].retries>>] = @ + 1]
              ELSE inbox
  /\ UNCHANGED <<tables, deadLetter, announced, sent, charged, recharged>>

\* A statement fails (SQLAlchemyError other than the handled IntegrityError):
\* it has no effect, and the request ends with a 5xx.
DatabaseError(t) ==
  /\ thread[t].pc \in Points \ {"idle", "reply", "ack", "gateway",
                                "announce_failed", "announce_completed"}
  /\ faults < MaxFaults
  /\ faults' = faults + 1
  /\ Answer(t, "SERVER_ERROR")
  /\ UNCHANGED <<tables, broker, charged, recharged>>

-----------------------------------------------------------------------------
\* What a thread does next by itself, once it has a request.
Step(t) ==
  \/ LookupKey(t) \/ LookupClaim(t) \/ Insert(t) \/ Raced(t)
  \/ Gateway(t) \/ SaveCompleted(t) \/ SaveFailed(t) \/ AnnounceFailed(t)
  \/ LedgerCheck(t) \/ LedgerBalance(t) \/ LedgerInsert(t)
  \/ AnnounceCompleted(t)
  \/ Return(t) \/ Conclude(t) \/ Ack(t)

Receive(t) ==
  \/ \E c \in Claims, k \in Keys, a \in Amounts : ReceiveProcess(t, c, k, a)
  \/ \E c \in Claims, r \in 0 .. RetryLimit : Deliver(t, c, r)
  \/ \E i \in DOMAIN payouts : RetryFailed(t, i)

Next ==
  \/ \E c \in Claims : PublishApproved(c)
  \/ \E t \in Threads : Receive(t) \/ Step(t) \/ Crash(t) \/ DatabaseError(t)

Spec == Init /\ [][Next]_vars

\* The server threads and the consumer loop keep running: a thread that holds a
\* request takes its next step, and an idle consumer takes a waiting message.
\* Callers, operators, publications and faults are under no obligation.
Fairness ==
  /\ \A t \in Threads : WF_vars(Step(t))
  /\ \A t \in Consumers :
       WF_vars(\E c \in Claims, r \in 0 .. RetryLimit : Deliver(t, c, r))

FairSpec == Spec /\ Fairness

-----------------------------------------------------------------------------
(* Properties.                                                             *)

\* The state has the shape the tables, messages and threads of the service
\* have (models/payout.py, models/ledger.py, events/consumer.py).
TypeOK ==
  /\ payouts \in Seq(Row)
  /\ ledger \in Seq(Entry)
  /\ thread \in [Threads -> ThreadState]
  /\ inbox \in [Message -> Nat]
  /\ deadLetter \subseteq Claims
  /\ announced \subseteq {"PAYOUT_COMPLETED", "PAYOUT_FAILED"} \X Nat
  /\ sent \in [Claims -> Nat]
  /\ charged \in [Claims -> Nat]
  /\ recharged \in [Claims -> Nat]
  /\ faults \in Nat

\* However the HTTP path and the event path race, under whatever keys, a claim
\* has at most one payout and a key names at most one payout.
UniquePayouts ==
  \A i, j \in DOMAIN payouts :
    (payouts[i].claim = payouts[j].claim \/ payouts[i].key = payouts[j].key)
      => i = j

\* process_payout moves money at most once per claim, over all its callers,
\* keys, redelivered or republished messages, crashes and database errors.
ChargedOnce == \A c \in Claims : charged[c] <= 1

\* What a thread with record r may count on: a consumer that is not idle holds
\* the claim of the message it has not acknowledged; a request before its INSERT
\* is complete; a thread past it has an existing row, whose status still permits
\* what the thread is about to write.
Fits(t, r) ==
  /\ r.pc \in Looking =>
       /\ t \notin Operators
       /\ r.claim \in Claims /\ r.key \in Keys /\ r.amount \in Amounts
  /\ (t \in Consumers /\ r.pc # "idle") => r.claim \in Claims
  /\ r.pc \in Owning => r.tx \in DOMAIN payouts
  /\ r.pc \in Paying =>
       payouts[r.tx].status \in
         (IF t \in Operators THEN {"failed", "completed"} ELSE {"pending"})
  /\ (r.pc \in {"gateway", "save_failed"} /\ t \notin Operators) =>
       charged[payouts[r.tx].claim] = 0
  /\ r.pc = "save_completed" =>
       (IF t \in Operators THEN recharged ELSE charged)[payouts[r.tx].claim] > 0
  /\ r.pc \in Crediting => payouts[r.tx].status = "completed"

\* Two first attempts never work on one payout.
Exclusive ==
  \A t, u \in Threads \ Operators :
    (thread[t].pc \in Paying /\ thread[u].pc \in Paying
       /\ thread[t].tx = thread[u].tx) => t = u

\* A claim that was charged has a row, so that no later request gets past the
\* claim lookup.
ChargedHasRow == \A c \in Claims : charged[c] > 0 => RowsByClaim(c) # {}

\* What ties the requests in progress to the tables and to the money moved:
\* the reason why process_payout never charges twice.
OwnershipInv ==
  (\A t \in Threads : Fits(t, thread[t])) /\ Exclusive /\ ChargedHasRow

\* A payout is completed only if the gateway did accept its claim.
CompletedWasCharged ==
  \A i \in DOMAIN payouts :
    payouts[i].status = "completed" =>
      charged[payouts[i].claim] + recharged[payouts[i].claim] > 0

\* The ledger credits completed payouts only, each of them at most once, with
\* the payout's amount and to the claim's owner, even when two retries of one
\* payout reach the ledger together.
LedgerSound ==
  /\ \A n \in DOMAIN ledger :
       /\ ledger[n].tx \in DOMAIN payouts
       /\ payouts[ledger[n].tx].status = "completed"
       /\ ledger[n].amount = payouts[ledger[n].tx].amount
       /\ ledger[n].user = Owner(ledger[n].tx)
  /\ \A m, n \in DOMAIN ledger : ledger[m].tx = ledger[n].tx => m = n

\* Until a thread dies or a statement fails, a completed payout is in the ledger
\* unless the thread that completed it is still on its way there.  (A crash right
\* after the COMPLETED commit leaves it without an entry for ever: every later
\* request is answered by the completed row.)
AuditComplete ==
  faults = 0 =>
  \A i \in DOMAIN payouts :
    payouts[i].status = "completed" =>
      \/ EntriesOfTx(i) # {}
      \/ \E t \in Threads : thread[t].tx = i /\ thread[t].pc \in Crediting

\* A success reply of process_payout names a payout made for this claim under
\* this key: a replayed key never yields somebody else's transaction.
ReplyNamesRequest ==
  \A t \in ApiThreads \cup Consumers :
    (At(t, "reply") /\ thread[t].reply \in PayoutStatus) =>
      \E i \in RowsByKey(thread[t].key) : payouts[i].claim = thread[t].claim

\* Once a payout is completed no later or concurrent request undoes it, and no
\* request deletes a payout or moves it to another claim, key or amount; a
\* retry that loses its race and fails must not mark the payout failed.  A failed
\* payout comes back by an operator's retry only: the consumer publishes a failed
\* approval again, but no message, like no repeated call, ever pays what failed once.
CompletedIsFinal ==
  [][\A i \in DOMAIN payouts :
       /\ i \in DOMAIN payouts'
       /\ payouts'[i] = [payouts[i] EXCEPT !.status = payouts'[i].status]
       /\ payouts[i].status = "completed" => payouts'[i].status = "completed"
       /\ payouts[i].status = "failed" /\ payouts'[i].status # "failed" =>
            \E o \in Operators : At(o, "save_completed") /\ thread[o].tx = i
    ]_payouts

\* Every published approval ends with a payout for the claim (or for the
\* claim's event key) or in the dead-letter queue: no redelivery, retry or
\* crash loses it.
ApprovalsSettle ==
  \A c \in Claims :
    (sent[c] > 0) ~>
      (RowsByClaim(c) \cup RowsByKey(EventKey[c]) # {} \/ c \in deadLetter)

\* Payouts of one worker that complete together read the same latest balance, and
\* the running balance loses an amount.  It never does worse: every entry's
\* balance is its amount on top of an earlier balance of the same worker.
BalanceExtends ==
  \A n \in DOMAIN ledger :
    \/ ledger[n].balance = ledger[n].amount
    \/ \E m \in EntriesOfUser(ledger[n].user) :
         m < n /\ ledger[n].balance = ledger[m].balance + ledger[n].amount

\* Money moves at most once per claim through process_payout, and only a payout whose
\* money moved is shown as completed: because, beside the shape of the state, every
\* request past its INSERT owns the row it is about to write.
ChargesSound == TypeOK /\ OwnershipInv /\ ChargedOnce /\ CompletedWasCharged
=============================================================================
