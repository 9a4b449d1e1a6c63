---------------------------- MODULE PayoutProofs ----------------------------
(***************************************************************************)
(* Proofs about the payout service, for any sets of claims, keys, amounts  *)
(* and threads and any bounds: what it charges, books and answers, and     *)
(* that it implements PayoutBook.                                          *)
(***************************************************************************)
EXTENDS PayoutRefinement, TLAPS

\* The inductive invariant: the types, the link between threads and rows, and
\* the two safety properties that are not inductive without it.
IInv == TypeOK /\ OwnershipInv /\ UniquePayouts /\ ChargedOnce
                /\ CompletedWasCharged

(* The payout service starts in its invariant. *)
LEMMA InitIInv == Init => IInv
<1> SUFFICES ASSUME Init PROVE IInv
  OBVIOUS
<1> USE DomainAssumption, BoundAssumption DEF Init
<1>1. TypeOK
  BY DEF TypeOK, Idle, ThreadState, Points, Message
<1>2. OwnershipInv
  BY DEF OwnershipInv, Fits, Exclusive, ChargedHasRow, Idle, Looking, Owning,
         Paying, Crediting
<1>3. UniquePayouts /\ ChargedOnce /\ CompletedWasCharged
  BY DEF UniquePayouts, ChargedOnce, CompletedWasCharged
<1>4. QED
  BY <1>1, <1>2, <1>3 DEF IInv

-----------------------------------------------------------------------------
(* How a step moves a thread, and what that does to the types.             *)

(* The program points of a request, spelled out. *)
LEMMA PointsAre ==
  {"idle", "lookup_key", "lookup_claim", "insert", "raced", "gateway",
   "save_completed", "save_failed", "announce_failed", "ledger_check",
   "ledger_balance", "ledger_insert", "announce_completed", "reply", "ack"}
    = Points
BY DEF Points, Looking, Owning, Paying, Crediting

(* The replies of a request, spelled out. *)
LEMMA RepliesAre ==
  {"pending", "completed", "failed", "DUPLICATE_PAYOUT",
   "IDEMPOTENCY_KEY_REUSED", "PAYOUT_FAILED", "SERVER_ERROR"} = Replies
BY DEF Replies, PayoutStatus, ErrorCodes

(* An idle thread is a thread. *)
LEMMA IdleIsState == Idle \in ThreadState
BY BoundAssumption, PointsAre DEF Idle, ThreadState

\* Giving a thread any well-typed record keeps the types of threads.
LEMMA SetType ==
  ASSUME thread \in [Threads -> ThreadState], NEW t \in Threads,
         NEW s \in ThreadState, thread' = [thread EXCEPT ![t] = s]
  PROVE  thread' \in [Threads -> ThreadState]
OBVIOUS

\* So does moving it to another point.
LEMMA GoType ==
  ASSUME thread \in [Threads -> ThreadState], NEW t \in Threads,
         NEW p \in Points, Go(t, p)
  PROVE  thread' \in [Threads -> ThreadState]
<1>1. [thread[t] EXCEPT !.pc = p] \in ThreadState
  BY DEF ThreadState
<1>2. QED
  BY <1>1 DEF Go

\* So does answering its request.
LEMMA AnswerType ==
  ASSUME thread \in [Threads -> ThreadState], NEW t \in Threads,
         NEW r \in Replies, Answer(t, r)
  PROVE  thread' \in [Threads -> ThreadState]
<1>1. [thread[t] EXCEPT !.pc = "reply", !.reply = r] \in ThreadState
  BY PointsAre DEF ThreadState
<1>2. QED
  BY <1>1 DEF Answer

\* So does ending its request.
LEMMA IdleType ==
  ASSUME thread \in [Threads -> ThreadState], NEW t \in Threads,
         thread' = [thread EXCEPT ![t] = Idle]
  PROVE  thread' \in [Threads -> ThreadState]
BY IdleIsState, SetType

\* Counting a message up keeps the type of the queue.
LEMMA InboxType ==
  ASSUME inbox \in [Message -> Nat], NEW m \in Message,
         inbox' = [inbox EXCEPT ![m] = @ + 1]
  PROVE  inbox' \in [Message -> Nat]
OBVIOUS

\* Writing a status keeps the type of the table and its rows' identity.
LEMMA WriteType ==
  ASSUME payouts \in Seq(Row), NEW i, NEW s \in PayoutStatus, Write(i, s)
  PROVE  /\ payouts' \in Seq(Row)
         /\ Len(payouts') = Len(payouts)
         /\ \A j \in DOMAIN payouts :
              payouts'[j] = IF j = i THEN [payouts[j] EXCEPT !.status = s]
                                     ELSE payouts[j]
<1>1. /\ Len(payouts) \in Nat
      /\ payouts \in [1 .. Len(payouts) -> Row]
  OBVIOUS
<1>2. /\ payouts' \in [1 .. Len(payouts) -> Row]
      /\ \A j \in DOMAIN payouts :
           payouts'[j] = IF j = i THEN [payouts[j] EXCEPT !.status = s]
                                  ELSE payouts[j]
  BY <1>1 DEF Write, Row
<1>3. payouts' \in Seq(Row)
  BY <1>1, <1>2
<1>4. QED
  BY <1>1, <1>2, <1>3

\* What writing a status into a row changes, and what not.
LEMMA RowFacts ==
  ASSUME NEW r \in Row, NEW s
  PROVE  /\ [r EXCEPT !.status = s].status = s
         /\ [r EXCEPT !.status = s].claim = r.claim
         /\ [r EXCEPT !.status = s].amount = r.amount
         /\ [r EXCEPT !.status = r.status] = r
BY DEF Row

\* A step that only moves threads keeps all types if it keeps theirs.
LEMMA OnlyThread ==
  ASSUME TypeOK, UNCHANGED <<tables, broker, history>>,
         thread' \in [Threads -> ThreadState]
  PROVE  TypeOK'
BY DEF TypeOK, tables, broker, history

\* The rows and entries a thread meets are well typed.
LEMMA RowTypes ==
  ASSUME TypeOK
  PROVE  /\ \A i \in DOMAIN payouts : payouts[i] \in Row /\ i \in Nat
         /\ \A n \in DOMAIN ledger : ledger[n] \in Entry
         /\ \A t \in Threads : thread[t] \in ThreadState
BY DEF TypeOK

-----------------------------------------------------------------------------
\* Every step keeps the types.
LEMMA NextTypeOK ==
  ASSUME IInv, [Next]_vars PROVE TypeOK'
<1>0. TypeOK /\ OwnershipInv
  BY DEF IInv
<1>a. thread \in [Threads -> ThreadState] /\ inbox \in [Message -> Nat]
  BY <1>0 DEF TypeOK
<1>b. /\ \A i \in DOMAIN payouts : payouts[i] \in Row /\ i \in Nat
      /\ \A n \in DOMAIN ledger : ledger[n] \in Entry
      /\ \A t \in Threads : thread[t] \in ThreadState
  BY <1>0, RowTypes
<1>1. ASSUME NEW c \in Claims, PublishApproved(c) PROVE TypeOK'
  <2>1. <<c, 0>> \in Message
    BY BoundAssumption DEF Message
  <2>2. inbox' \in [Message -> Nat] /\ sent' \in [Claims -> Nat]
    BY <1>0, <1>1, <2>1, <1>a, InboxType DEF PublishApproved, TypeOK
  <2>3. QED
    BY <1>0, <1>1, <2>2 DEF PublishApproved, TypeOK, tables, history
<1>2. ASSUME NEW t \in Threads, NEW c \in Claims, NEW k \in Keys,
             NEW a \in Amounts, ReceiveProcess(t, c, k, a) PROVE TypeOK'
  <2>1. [Idle EXCEPT !.pc = "lookup_key", !.claim = c, !.key = k, !.amount = a]
          \in ThreadState
    BY IdleIsState, PointsAre DEF ThreadState
  <2>2. thread' \in [Threads -> ThreadState]
    BY <1>2, <1>a, <2>1, SetType DEF ReceiveProcess
  <2>3. QED
    BY <1>0, <1>2, <2>2, OnlyThread DEF ReceiveProcess
<1>3. ASSUME NEW t \in Threads, NEW c \in Claims, NEW r \in 0 .. RetryLimit,
             Deliver(t, c, r) PROVE TypeOK'
  <2>1. [Idle EXCEPT !.pc = "lookup_key", !.claim = c, !.key = EventKey[c],
                     !.amount = EventAmount, !.retries = r] \in ThreadState
    BY IdleIsState, PointsAre, DomainAssumption DEF ThreadState
  <2>2. thread' \in [Threads -> ThreadState]
    BY <1>3, <1>a, <2>1, SetType DEF Deliver
  <2>3. <<c, r>> \in Message
    BY DEF Message
  <2>4. inbox' \in [Message -> Nat]
    BY <1>3, <1>a, <2>3 DEF Deliver
  <2>5. QED
    BY <1>0, <1>3, <2>2, <2>4 DEF Deliver, TypeOK, tables, history
<1>4. ASSUME NEW t \in Threads, NEW i \in DOMAIN payouts, RetryFailed(t, i)
      PROVE TypeOK'
  <2>1. [Idle EXCEPT !.pc = "gateway", !.tx = i] \in ThreadState
    BY IdleIsState, PointsAre, <1>b DEF ThreadState
  <2>2. thread' \in [Threads -> ThreadState]
    BY <1>4, <1>a, <2>1, SetType DEF RetryFailed
  <2>3. QED
    BY <1>0, <1>4, <2>2, OnlyThread DEF RetryFailed
<1>5. ASSUME NEW t \in Threads, LookupKey(t) PROVE TypeOK'
  <2>1. \A i \in DOMAIN payouts : payouts[i].status \in Replies
    BY <1>b DEF Row, Replies
  <2>2. thread' \in [Threads -> ThreadState]
    BY <1>5, <1>a, <2>1, GoType, AnswerType, PointsAre, RepliesAre
    DEF LookupKey, RowsByKey
  <2>3. QED
    BY <1>0, <1>5, <2>2, OnlyThread DEF LookupKey
<1>6. ASSUME NEW t \in Threads, LookupClaim(t) PROVE TypeOK'
  <2>1. thread' \in [Threads -> ThreadState]
    BY <1>6, <1>a, GoType, AnswerType, PointsAre, RepliesAre DEF LookupClaim
  <2>2. QED
    BY <1>0, <1>6, <2>1, OnlyThread DEF LookupClaim
<1>7. ASSUME NEW t \in Threads, Insert(t) PROVE TypeOK'
  <2>1. CASE UNCHANGED payouts /\ Go(t, "raced")
    <3>1. thread' \in [Threads -> ThreadState]
      BY <2>1, <1>a, GoType, PointsAre
    <3>2. QED
      BY <1>0, <1>7, <2>1, <3>1, OnlyThread DEF Insert, tables
  <2>2. CASE ~ (UNCHANGED payouts /\ Go(t, "raced"))
    <3> DEFINE row == [claim |-> thread[t].claim, key |-> thread[t].key,
                       amount |-> thread[t].amount, status |-> "pending"]
               s == [thread[t] EXCEPT !.pc = "gateway", !.tx = Len(payouts) + 1]
    <3>1. payouts' = Append(payouts, row) /\ thread' = [thread EXCEPT ![t] = s]
      BY <1>7, <2>2 DEF Insert
    <3>2. row \in Row
      BY <1>0, <1>7 DEF OwnershipInv, Fits, Insert, At, Looking, Row, PayoutStatus
    <3>3. payouts' \in Seq(Row) /\ Len(payouts) \in Nat
      BY <1>0, <3>1, <3>2 DEF TypeOK
    <3>4. s \in ThreadState
      <4>1. thread[t] \in ThreadState /\ "gateway" \in Points
        BY <1>b, PointsAre
      <4>2. Len(payouts) + 1 \in Nat
        BY <3>3
      <4>3. QED
        BY ONLY <4>1, <4>2 DEF ThreadState
    <3>5. thread' \in [Threads -> ThreadState]
      BY <1>a, <3>1, <3>4, SetType
    <3>6. QED
      BY <1>0, <1>7, <3>3, <3>5 DEF Insert, TypeOK, broker, history
  <2>3. QED
    BY <2>1, <2>2
<1>8. ASSUME NEW t \in Threads, Raced(t) PROVE TypeOK'
  <2>1. \A i \in DOMAIN payouts : payouts[i].status \in Replies
    BY <1>b DEF Row, Replies
  <2>2. thread' \in [Threads -> ThreadState]
    BY <1>8, <1>a, <2>1, AnswerType, RepliesAre DEF Raced, RowsByKey
  <2>3. QED
    BY <1>0, <1>8, <2>2, OnlyThread DEF Raced
<1>9. ASSUME NEW t \in Threads, Gateway(t) PROVE TypeOK'
  <2>1. thread' \in [Threads -> ThreadState]
    BY <1>9, <1>a, GoType, PointsAre DEF Gateway
  <2> DEFINE c == payouts[thread[t].tx].claim
  <2>a. c \in Claims
    BY <1>0, <1>9, <1>b DEF OwnershipInv, Fits, Gateway, At, Owning, Paying, Row
  <2>b. charged \in [Claims -> Nat] /\ recharged \in [Claims -> Nat]
    BY <1>0 DEF TypeOK
  <2>c. /\ charged' = [charged EXCEPT ![c] = @ + 1] \/ UNCHANGED charged
        /\ recharged' = [recharged EXCEPT ![c] = @ + 1] \/ UNCHANGED recharged
    BY <1>9 DEF Gateway
  <2> HIDE DEF c
  <2>2. charged' \in [Claims -> Nat] /\ recharged' \in [Claims -> Nat]
    BY ONLY <2>a, <2>b, <2>c
  <2>3. QED
    BY <1>0, <1>9, <2>1, <2>2 DEF Gateway, TypeOK, tables, broker
<1>10. ASSUME NEW t \in Threads, SaveCompleted(t) PROVE TypeOK'
  <2>1. thread' \in [Threads -> ThreadState]
    BY <1>10, <1>a, GoType, PointsAre DEF SaveCompleted
  <2>2. payouts' \in Seq(Row)
    BY <1>0, <1>10, WriteType DEF SaveCompleted, TypeOK, PayoutStatus
  <2>3. QED
    BY <1>0, <1>10, <2>1, <2>2 DEF SaveCompleted, TypeOK, broker, history
<1>11. ASSUME NEW t \in Threads, SaveFailed(t) PROVE TypeOK'
  <2>1. thread' \in [Threads -> ThreadState]
    BY <1>11, <1>a, GoType, AnswerType, PointsAre, RepliesAre DEF SaveFailed
  <2>2. payouts' \in Seq(Row)
    BY <1>0, <1>11, WriteType DEF SaveFailed, TypeOK, PayoutStatus
  <2>3. QED
    BY <1>0, <1>11, <2>1, <2>2 DEF SaveFailed, TypeOK, broker, history
<1>12. ASSUME NEW t \in Threads, AnnounceFailed(t) PROVE TypeOK'
  <2>1. thread' \in [Threads -> ThreadState]
    BY <1>12, <1>a, AnswerType, RepliesAre DEF AnnounceFailed, Publish
  <2>2. thread[t].tx \in Nat
    BY <1>b DEF ThreadState
  <2>3. announced' \subseteq {"PAYOUT_COMPLETED", "PAYOUT_FAILED"} \X Nat
    BY <1>0, <1>12, <2>2 DEF AnnounceFailed, Publish, TypeOK
  <2>4. QED
    BY <1>0, <1>12, <2>1, <2>3 DEF AnnounceFailed, Publish, TypeOK, tables, history
<1>13. ASSUME NEW t \in Threads, LedgerCheck(t) PROVE TypeOK'
  <2>1. thread' \in [Threads -> ThreadState]
    BY <1>13, <1>a, GoType, PointsAre DEF LedgerCheck
  <2>2. QED
    BY <1>0, <1>13, <2>1, OnlyThread DEF LedgerCheck
<1>14. ASSUME NEW t \in Threads, LedgerBalance(t) PROVE TypeOK'
  <2> DEFINE s(b) == [thread[t] EXCEPT !.pc = "ledger_insert", !.balance = b]
  <2>1. PICK b : b \in Nat /\ thread' = [thread EXCEPT ![t] = s(b)]
    BY <1>14, <1>b DEF LedgerBalance, EntriesOfUser, Entry
  <2>2. s(b) \in ThreadState
    BY <1>b, <2>1, PointsAre DEF ThreadState
  <2>3. thread' \in [Threads -> ThreadState]
    BY <1>a, <2>1, <2>2, SetType
  <2>4. QED
    BY <1>0, <1>14, <2>3, OnlyThread DEF LedgerBalance
<1>15. ASSUME NEW t \in Threads, LedgerInsert(t) PROVE TypeOK'
  <2>1. thread' \in [Threads -> ThreadState]
    BY <1>15, <1>a, GoType, AnswerType, PointsAre, RepliesAre DEF LedgerInsert
  <2>2. ledger' \in Seq(Entry)
    <3> DEFINE i == thread[t].tx
               e == [tx |-> i, user |-> Owner(i), amount |-> payouts[i].amount,
                     balance |-> thread[t].balance + payouts[i].amount]
    <3>1. i \in DOMAIN payouts
      BY <1>0, <1>15 DEF OwnershipInv, Fits, LedgerInsert, At, Owning, Crediting
    <3>2. payouts[i] \in Row /\ i \in Nat /\ thread[t].balance \in Nat
      BY <1>b, <3>1 DEF ThreadState
    <3>3. payouts[i].amount \in Amounts /\ Owner(i) \in Users
      BY <3>2, DomainAssumption DEF Row, Owner
    <3>4. e \in Entry
      <4>1. thread[t].balance \in Nat /\ payouts[i].amount \in Nat
        BY <3>2, <3>3, DomainAssumption
      <4>2. thread[t].balance + payouts[i].amount \in Nat
        BY ONLY <4>1
      <4>3. QED
        BY <3>2, <3>3, <4>2 DEF Entry
    <3>5. ledger' = Append(ledger, e) \/ UNCHANGED ledger
      BY <1>15 DEF LedgerInsert
    <3>6. ledger \in Seq(Entry)
      BY <1>0 DEF TypeOK
    <3> HIDE DEF e
    <3>7. QED
      BY ONLY <3>4, <3>5, <3>6
  <2>3. QED
    BY <1>0, <1>15, <2>1, <2>2 DEF LedgerInsert, TypeOK, broker, history
<1>16. ASSUME NEW t \in Threads, AnnounceCompleted(t) PROVE TypeOK'
  <2>1. thread' \in [Threads -> ThreadState]
    BY <1>16, <1>a, AnswerType, RepliesAre DEF AnnounceCompleted, Publish
  <2>2. thread[t].tx \in Nat
    BY <1>b DEF ThreadState
  <2>3. announced' \subseteq {"PAYOUT_COMPLETED", "PAYOUT_FAILED"} \X Nat
    BY <1>0, <1>16, <2>2 DEF AnnounceCompleted, Publish, TypeOK
  <2>4. QED
    BY <1>0, <1>16, <2>1, <2>3 DEF AnnounceCompleted, Publish, TypeOK, tables, history
<1>17. ASSUME NEW t \in Threads, Return(t) PROVE TypeOK'
  BY <1>0, <1>a, <1>17, IdleType, OnlyThread DEF Return
<1>18. ASSUME NEW t \in Threads, Conclude(t) PROVE TypeOK'
  <2>1. thread' \in [Threads -> ThreadState]
    BY <1>18, <1>a, IdleType, GoType, PointsAre DEF Conclude
  <2>2. thread[t].claim \in Claims
    BY <1>0, <1>18 DEF OwnershipInv, Fits, Conclude, At
  <2>3. thread[t].retries \in 0 .. RetryLimit
    BY <1>b DEF ThreadState
  <2>4. inbox' \in [Message -> Nat]
    <3>1. CASE UNCHANGED inbox
      BY <1>a, <3>1
    <3>2. CASE ~ UNCHANGED inbox
      <4>1. <<thread[t].claim, thread[t].retries + 1>> \in Message
        BY <1>18, <2>2, <2>3, <3>2, BoundAssumption DEF Conclude, Message
      <4>2. QED
        BY <1>18, <1>a, <3>2, <4>1, InboxType DEF Conclude
    <3>3. QED
      BY <3>1, <3>2
  <2>5. deadLetter' \subseteq Claims
    BY <1>0, <1>18, <2>2 DEF Conclude, TypeOK
  <2>6. QED
    BY <1>0, <1>18, <2>1, <2>4, <2>5 DEF Conclude, TypeOK, tables, history
<1>19. ASSUME NEW t \in Threads, Ack(t) PROVE TypeOK'
  BY <1>0, <1>a, <1>19, IdleType, OnlyThread DEF Ack
<1>20. ASSUME NEW t \in Threads, Crash(t) PROVE TypeOK'
  <2>1. thread' \in [Threads -> ThreadState]
    BY <1>20, <1>a, IdleType DEF Crash
  <2>2. inbox' \in [Message -> Nat]
    <3>1. CASE t \in Consumers
      <4>1. <<thread[t].claim, thread[t].retries>> \in Message
        BY <1>0, <1>20, <1>b, <3>1 DEF OwnershipInv, Fits, Crash, At, Message, ThreadState
      <4>2. QED
        BY <1>20, <1>a, <3>1, <4>1, InboxType DEF Crash
    <3>2. CASE t \notin Consumers
      BY <1>20, <1>a, <3>2 DEF Crash
    <3>3. QED
      BY <3>1, <3>2
  <2>3. QED
    BY <1>0, <1>20, <2>1, <2>2 DEF Crash, TypeOK, tables
<1>21. ASSUME NEW t \in Threads, DatabaseError(t) PROVE TypeOK'
  <2>1. thread' \in [Threads -> ThreadState]
    BY <1>21, <1>a, AnswerType, RepliesAre DEF DatabaseError
  <2>2. QED
    BY <1>0, <1>21, <2>1 DEF DatabaseError, TypeOK, tables, broker
<1>22. CASE UNCHANGED vars
  BY <1>0, <1>22 DEF vars, TypeOK
<1>23. QED
  BY <1>1, <1>2, <1>3, <1>4, <1>5, <1>6, <1>7, <1>8, <1>9, <1>10, <1>11, <1>12,
     <1>13, <1>14, <1>15, <1>16, <1>17, <1>18, <1>19, <1>20, <1>21, <1>22
  DEF Next, Receive, Step

-----------------------------------------------------------------------------
(* Ownership: how requests are tied to rows.                               *)

rows == <<payouts, charged, recharged>>

\* A step that leaves rows and money alone keeps the ownership if the moved
\* thread's new record is one it may count on and claims no other row.
LEMMA QuietStep ==
  ASSUME TypeOK, OwnershipInv, NEW t \in Threads, NEW r,
         UNCHANGED rows, thread' = [thread EXCEPT ![t] = r], Fits(t, r),
         (t \notin Operators /\ r.pc \in Paying) =>
            (thread[t].pc \in Paying /\ r.tx = thread[t].tx)
  PROVE  OwnershipInv'
<1>1. /\ thread \in [Threads -> ThreadState]
      /\ thread'[t] = r
      /\ \A u \in Threads : u # t => thread'[u] = thread[u]
  BY DEF TypeOK
<1>2. ASSUME NEW u \in Threads PROVE Fits(u, thread[u])'
  <2>1. Fits(u, thread'[u])
    BY <1>1 DEF OwnershipInv
  <2>2. QED
    BY <2>1 DEF Fits, rows
<1>3. Exclusive'
  BY <1>1 DEF OwnershipInv, Exclusive
<1>4. ChargedHasRow'
  BY DEF OwnershipInv, ChargedHasRow, RowsByClaim, rows
<1>5. QED
  BY <1>2, <1>3, <1>4 DEF OwnershipInv

\* Answering a request, or ending it, claims no row at all.
LEMMA QuietAnswer ==
  ASSUME TypeOK, OwnershipInv, NEW t \in Threads, NEW x,
         UNCHANGED rows, ~ At(t, "idle"), Answer(t, x)
  PROVE  OwnershipInv'
<1> DEFINE r == [thread[t] EXCEPT !.pc = "reply", !.reply = x]
<1>1. r.pc = "reply" /\ r.claim = thread[t].claim
  BY DEF TypeOK, ThreadState
<1>2. Fits(t, r)
  BY <1>1 DEF OwnershipInv, Fits, At, Looking, Owning, Paying, Crediting
<1>3. r.pc \notin Paying
  BY <1>1 DEF Paying
<1>4. QED
  BY <1>2, <1>3, QuietStep DEF Answer

(* An idle thread claims nothing of any row. *)
LEMMA QuietIdle ==
  ASSUME TypeOK, OwnershipInv, NEW t \in Threads, UNCHANGED rows,
         thread' = [thread EXCEPT ![t] = Idle]
  PROVE  OwnershipInv'
<1>1. Fits(t, Idle)
  BY DEF Idle, Fits, Looking, Owning, Paying, Crediting
<1>2. Idle.pc \notin Paying
  BY DEF Idle, Paying
<1>3. QED
  BY <1>1, <1>2, QuietStep

\* So does moving on, before the INSERT or after the payment.
LEMMA QuietGo ==
  ASSUME TypeOK, OwnershipInv, NEW t \in Threads, NEW p, UNCHANGED rows, Go(t, p),
         ~ At(t, "idle"), p \notin Paying,
         p \in Looking => thread[t].pc \in Looking,
         p \in Owning => thread[t].pc \in Crediting /\ p \in Crediting
  PROVE  OwnershipInv'
<1> DEFINE r == [thread[t] EXCEPT !.pc = p]
<1>1. /\ r.pc = p /\ r.claim = thread[t].claim /\ r.key = thread[t].key
      /\ r.amount = thread[t].amount /\ r.tx = thread[t].tx
  BY DEF TypeOK, ThreadState
<1>2. Fits(t, r)
  BY <1>1 DEF OwnershipInv, Fits, At, Looking, Owning, Paying, Crediting
<1>3. QED
  BY <1>1, <1>2, QuietStep DEF Go

-----------------------------------------------------------------------------
\* A thread at its INSERT that meets no row of its key or claim creates one.
LEMMA InsertOwnership ==
  ASSUME IInv, NEW t \in Threads, Insert(t)
  PROVE  OwnershipInv' /\ UniquePayouts' /\ CompletedWasCharged' /\ ChargedOnce'
<1> DEFINE row == [claim |-> thread[t].claim, key |-> thread[t].key,
                   amount |-> thread[t].amount, status |-> "pending"]
           n == Len(payouts) + 1
           r == [thread[t] EXCEPT !.pc = "gateway", !.tx = n]
<1>0. TypeOK /\ OwnershipInv /\ At(t, "insert") /\ ~ At(t, "idle")
      /\ UNCHANGED <<charged, recharged>>
  BY DEF IInv, Insert, At, history
<1>1. CASE UNCHANGED payouts /\ Go(t, "raced")
  <2>1. OwnershipInv'
    BY <1>0, <1>1, QuietGo DEF rows, At, Looking, Owning, Paying, Crediting
  <2>2. QED
    BY <1>0, <1>1, <2>1
    DEF IInv, UniquePayouts, ChargedOnce, CompletedWasCharged
<1>2. CASE ~ (UNCHANGED payouts /\ Go(t, "raced"))
  <2>1. /\ RowsByKey(thread[t].key) = {} /\ RowsByClaim(thread[t].claim) = {}
        /\ payouts' = Append(payouts, row)
        /\ thread' = [thread EXCEPT ![t] = r]
    BY <1>2 DEF Insert
  <2>2. /\ Len(payouts) \in Nat /\ DOMAIN payouts = 1 .. Len(payouts)
        /\ DOMAIN payouts' = 1 .. n
        /\ payouts'[n] = row
        /\ \A i \in DOMAIN payouts : payouts'[i] = payouts[i]
    BY <1>0, <2>1 DEF TypeOK
  <2>3. t \notin Operators /\ thread[t].claim \in Claims
    BY <1>0 DEF OwnershipInv, Fits, At, Looking
  <2>4. charged[thread[t].claim] = 0
    <3>1. charged[thread[t].claim] \in Nat
      BY <1>0, <2>3 DEF TypeOK
    <3>2. ~ (charged[thread[t].claim] > 0)
      BY <1>0, <2>1, <2>3 DEF OwnershipInv, ChargedHasRow
    <3>3. QED
      BY ONLY <3>1, <3>2
  <2>5. /\ thread'[t] = r /\ r.pc = "gateway" /\ r.tx = n
        /\ r.claim = thread[t].claim
        /\ \A u \in Threads : u # t => thread'[u] = thread[u]
    BY <1>0, <2>1, <2>2 DEF TypeOK, ThreadState
  <2> HIDE DEF r, n
  <2>6. ASSUME NEW u \in Threads PROVE Fits(u, thread[u])'
    <3>1. CASE u = t
      BY <1>0, <2>2, <2>3, <2>4, <2>5, <3>1
      DEF Fits, Looking, Owning, Paying, Crediting, n
    <3>2. CASE u # t
      <4>1. Fits(u, thread[u]) /\ thread'[u] = thread[u]
        BY <1>0, <2>5, <3>2 DEF OwnershipInv
      <4>2. thread[u].pc \in Owning =>
               /\ thread[u].tx \in DOMAIN payouts
               /\ thread[u].tx \in DOMAIN payouts'
               /\ payouts'[thread[u].tx] = payouts[thread[u].tx]
        BY <2>2, <4>1 DEF Fits, n
      <4>3. QED
        BY <1>0, <4>1, <4>2 DEF Fits, Owning, Paying, Crediting
    <3>3. QED
      BY <3>1, <3>2
  <2>7. Exclusive'
    <3>1. \A u \in Threads : u # t /\ thread[u].pc \in Paying => thread[u].tx # n
      BY <1>0, <2>2 DEF OwnershipInv, Fits, Owning, n
    <3>2. QED
      BY <1>0, <2>5, <3>1 DEF OwnershipInv, Exclusive
  <2>8. ChargedHasRow'
    BY <1>0, <2>2 DEF OwnershipInv, ChargedHasRow, RowsByClaim, n
  <2>9. UniquePayouts'
    BY <2>1, <2>2 DEF IInv, UniquePayouts, RowsByKey, RowsByClaim, n
  <2>10. CompletedWasCharged'
    BY <1>0, <2>2 DEF IInv, CompletedWasCharged, n
  <2>11. QED
    BY <1>0, <2>6, <2>7, <2>8, <2>9, <2>10 DEF IInv, OwnershipInv, ChargedOnce
<1>3. QED
  BY <1>1, <1>2

\* A gateway success counts for a claim that no other first attempt can charge.
LEMMA GatewayOwnership ==
  ASSUME IInv, NEW t \in Threads, Gateway(t)
  PROVE  OwnershipInv' /\ UniquePayouts' /\ CompletedWasCharged' /\ ChargedOnce'
<1> DEFINE i == thread[t].tx
           c == payouts[i].claim
<1>0. /\ TypeOK /\ OwnershipInv /\ UniquePayouts /\ ChargedOnce
      /\ CompletedWasCharged /\ At(t, "gateway") /\ UNCHANGED payouts
  BY DEF IInv, Gateway, tables
<1>1. /\ i \in DOMAIN payouts
      /\ payouts[i].status \in
           (IF t \in Operators THEN {"failed", "completed"} ELSE {"pending"})
      /\ t \notin Operators => charged[c] = 0
  BY <1>0 DEF OwnershipInv, Fits, At, Owning, Paying
<1>2. /\ c \in Claims
      /\ charged \in [Claims -> Nat] /\ recharged \in [Claims -> Nat]
  BY <1>0, <1>1, RowTypes DEF TypeOK, Row
<1>3. PICK p \in {"save_completed", "save_failed"} : Go(t, p)
  BY DEF Gateway
<1>4. /\ \A u \in Threads : u # t => thread'[u] = thread[u]
      /\ thread'[t].pc = p
      /\ thread'[t].tx = i /\ thread'[t].claim = thread[t].claim
  BY <1>0, <1>3 DEF Go, TypeOK, ThreadState
<1>5. /\ charged' \in [Claims -> Nat] /\ recharged' \in [Claims -> Nat]
      /\ \A d \in Claims : d # c => charged'[d] = charged[d]
                                    /\ recharged'[d] = recharged[d]
      /\ charged'[c] >= charged[c] /\ recharged'[c] >= recharged[c]
      /\ p = "save_completed" =>
           (IF t \in Operators THEN recharged' ELSE charged')[c] > 0
      /\ p = "save_failed" => UNCHANGED <<charged, recharged>>
      /\ t \in Operators => charged'[c] = charged[c]
      /\ t \notin Operators => charged'[c] <= 1
  <2> HIDE DEF c
  <2>1. CASE UNCHANGED <<charged, recharged>> /\ Go(t, "save_failed")
    <3>1. p = "save_failed"
      BY <1>0, <1>3, <2>1 DEF Go, TypeOK, ThreadState
    <3>2. QED
      BY <1>1, <1>2, <2>1, <3>1
  <2>2. CASE /\ t \in Operators /\ UNCHANGED charged /\ Go(t, "save_completed")
             /\ recharged' = [recharged EXCEPT ![c] = @ + 1]
    <3>1. p = "save_completed"
      BY <1>0, <1>3, <2>2 DEF Go, TypeOK, ThreadState
    <3>2. QED
      BY <1>2, <2>2, <3>1
  <2>3. CASE /\ t \notin Operators /\ UNCHANGED recharged
             /\ Go(t, "save_completed")
             /\ charged' = [charged EXCEPT ![c] = @ + 1]
    <3>1. p = "save_completed"
      BY <1>0, <1>3, <2>3 DEF Go, TypeOK, ThreadState
    <3>2. QED
      BY <1>1, <1>2, <2>3, <3>1
  <2>4. QED
    BY <2>1, <2>2, <2>3 DEF Gateway, c
<1>6. ASSUME NEW u \in Threads PROVE Fits(u, thread[u])'
  <2>0. Fits(u, thread[u])
    BY <1>0 DEF OwnershipInv
  <2>1. CASE u = t
    BY <1>0, <1>1, <1>4, <1>5, <2>0, <2>1
    DEF Fits, At, Looking, Owning, Paying, Crediting
  <2>2. CASE u # t
    <3> DEFINE j == thread[u].tx
               d == payouts[j].claim
    <3>1. thread[u].pc \in Owning => j \in DOMAIN payouts /\ d \in Claims
      BY <1>0, <2>0, RowTypes DEF Fits, Row
    <3>2. (thread[u].pc \in {"gateway", "save_failed"} /\ u \notin Operators)
            => charged'[d] = 0
      <4> SUFFICES ASSUME thread[u].pc \in {"gateway", "save_failed"},
                          u \notin Operators
                   PROVE  charged'[d] = 0
        OBVIOUS
      <4>1. charged[d] = 0 /\ d \in Claims /\ j \in DOMAIN payouts
            /\ payouts[j].status = "pending"
        BY <2>0, <3>1 DEF Fits, Owning, Paying
      <4>2. CASE d # c
        BY <1>5, <4>1, <4>2
      <4>3. CASE d = c
        <5>1. j = i
          BY <1>0, <1>1, <4>1, <4>3 DEF UniquePayouts
        <5>2. t \in Operators
          BY <1>0, <2>2, <5>1 DEF OwnershipInv, Exclusive, Paying, At
        <5>3. QED
          BY <1>5, <4>1, <4>3, <5>2
      <4>4. QED
        BY <4>2, <4>3
    <3>3. thread[u].pc = "save_completed" =>
            (IF u \in Operators THEN recharged' ELSE charged')[d] > 0
      <4> SUFFICES ASSUME thread[u].pc = "save_completed"
                   PROVE  (IF u \in Operators THEN recharged' ELSE charged')[d] > 0
        OBVIOUS
      <4>1. (IF u \in Operators THEN recharged ELSE charged)[d] > 0 /\ d \in Claims
        BY <2>0, <3>1 DEF Fits, Owning, Paying
      <4> HIDE DEF d, c
      <4>2. charged'[d] >= charged[d] /\ recharged'[d] >= recharged[d]
        BY <1>2, <1>5, <4>1
      <4>3. QED
        BY <1>2, <1>5, <4>1, <4>2
    <3>4. QED
      BY <1>0, <1>4, <2>0, <2>2, <3>2, <3>3 DEF Fits
  <2>3. QED
    BY <2>1, <2>2
<1>7. Exclusive'
  BY <1>0, <1>4 DEF OwnershipInv, Exclusive, Paying, At
<1>8. ChargedHasRow'
  <2>1. c \in Claims /\ RowsByClaim(c) # {}
    BY <1>1, <1>2 DEF RowsByClaim
  <2>2. QED
    BY <1>0, <1>5, <2>1 DEF OwnershipInv, ChargedHasRow, RowsByClaim
<1>9. CompletedWasCharged'
  <2>1. \A d \in Claims : charged[d] + recharged[d] > 0
                            => charged'[d] + recharged'[d] > 0
    <3> HIDE DEF c
    <3>1. QED
      BY <1>2, <1>5
  <2>2. QED
    BY <1>0, <2>1, RowTypes DEF CompletedWasCharged, Row
<1>10. ChargedOnce'
  BY <1>0, <1>1, <1>5 DEF ChargedOnce
<1>11. UniquePayouts'
  BY <1>0 DEF UniquePayouts
<1>12. QED
  BY <1>6, <1>7, <1>8, <1>9, <1>10, <1>11 DEF OwnershipInv

\* A thread that writes the verdict into its row disturbs no other thread.
LEMMA SaveOwnership ==
  ASSUME IInv, NEW t \in Threads, SaveCompleted(t) \/ SaveFailed(t)
  PROVE  OwnershipInv' /\ UniquePayouts' /\ CompletedWasCharged' /\ ChargedOnce'
<1> DEFINE i == thread[t].tx
<1>0. /\ TypeOK /\ OwnershipInv /\ UniquePayouts /\ ChargedOnce
      /\ CompletedWasCharged /\ UNCHANGED <<charged, recharged>>
      /\ thread[t].pc \in {"save_completed", "save_failed"} /\ ~ At(t, "idle")
  BY DEF IInv, SaveCompleted, SaveFailed, At, history
<1>1. /\ i \in DOMAIN payouts /\ payouts[i] \in Row
      /\ payouts[i].status \in
           (IF t \in Operators THEN {"failed", "completed"} ELSE {"pending"})
      /\ thread[t].pc = "save_completed" =>
           charged[payouts[i].claim] + recharged[payouts[i].claim] > 0
  <2>1. /\ i \in DOMAIN payouts
        /\ payouts[i].status \in
             (IF t \in Operators THEN {"failed", "completed"} ELSE {"pending"})
        /\ thread[t].pc = "save_completed" =>
             (IF t \in Operators THEN recharged ELSE charged)[payouts[i].claim] > 0
    BY <1>0 DEF OwnershipInv, Fits, Owning, Paying
  <2>2. payouts[i] \in Row /\ payouts[i].claim \in Claims
    BY <1>0, <2>1, RowTypes DEF Row
  <2>3. charged[payouts[i].claim] \in Nat /\ recharged[payouts[i].claim] \in Nat
    BY <1>0, <2>2 DEF TypeOK
  <2>4. QED
    BY <2>1, <2>2, <2>3
<1>2. CASE UNCHANGED payouts /\ Answer(t, "PAYOUT_FAILED")
  BY <1>0, <1>2, QuietAnswer
  DEF UniquePayouts, ChargedOnce, CompletedWasCharged, rows
<1>3. CASE ~ (UNCHANGED payouts /\ Answer(t, "PAYOUT_FAILED"))
  <2>1. PICK s \in {"completed", "failed"},
             p \in {"ledger_check", "announce_failed"} :
          /\ Write(i, s) /\ Go(t, p)
          /\ \/ /\ s = "completed" /\ p = "ledger_check"
                /\ thread[t].pc = "save_completed"
             \/ s = "failed" /\ p = "announce_failed" /\ t \notin Operators
    BY <1>3 DEF SaveCompleted, SaveFailed, At
  <2>2. /\ DOMAIN payouts' = DOMAIN payouts
        /\ payouts'[i] = [payouts[i] EXCEPT !.status = s]
        /\ \A j \in DOMAIN payouts : j # i => payouts'[j] = payouts[j]
    <3>1. payouts \in Seq(Row) /\ s \in PayoutStatus
      BY <1>0 DEF TypeOK, PayoutStatus
    <3>2. DOMAIN payouts' = DOMAIN payouts
      BY <2>1 DEF Write
    <3>3. QED
      BY <1>1, <2>1, <3>1, <3>2, WriteType
  <2>3. /\ \A u \in Threads : u # t => thread'[u] = thread[u]
        /\ thread'[t].pc = p /\ thread'[t].tx = i
        /\ thread'[t].claim = thread[t].claim
    BY <1>0, <2>1 DEF Go, TypeOK, ThreadState
  <2>4. /\ payouts'[i].status = s /\ payouts'[i].claim = payouts[i].claim
        /\ payouts'[i].key = payouts[i].key
    BY <1>1, <2>2 DEF Row
  <2>5. ASSUME NEW u \in Threads PROVE Fits(u, thread[u])'
    <3>0. Fits(u, thread[u])
      BY <1>0 DEF OwnershipInv
    <3>1. CASE u = t
      BY <1>0, <1>1, <2>1, <2>2, <2>3, <2>4, <3>0, <3>1
      DEF Fits, Looking, Owning, Paying, Crediting
    <3>2. CASE u # t
      <4>1. thread'[u] = thread[u]
        BY <2>3, <3>2
      <4>2. CASE thread[u].tx # i
        BY <1>0, <2>2, <3>0, <4>1, <4>2 DEF Fits, Owning, Paying, Crediting
      <4>3. CASE thread[u].tx = i
        <5>1. thread[u].pc \in Paying =>
                 u \in Operators /\ t \in Operators
          <6>1. thread[u].pc \in Paying /\ u \in Operators => t \in Operators
            BY <1>1, <3>0, <4>3 DEF Fits
          <6>2. thread[u].pc \in Paying /\ u \notin Operators => t \notin Operators
            BY <1>1, <3>0, <4>3 DEF Fits
          <6>3. thread[t].pc \in Paying
            BY <1>0 DEF Paying
          <6>4. QED
            BY <1>0, <3>2, <4>3, <6>1, <6>2, <6>3 DEF OwnershipInv, Exclusive
        <5>2. thread[u].pc \in Crediting => t \in Operators
          BY <1>1, <3>0, <4>3 DEF Fits
        <5>3. QED
          BY <1>0, <1>1, <2>1, <2>2, <2>4, <3>0, <4>1, <4>3, <5>1, <5>2
          DEF Fits, Owning, Paying, Crediting
      <4>4. QED
        BY <4>2, <4>3
    <3>3. QED
      BY <3>1, <3>2
  <2>6. Exclusive'
    BY <1>0, <2>1, <2>3 DEF OwnershipInv, Exclusive, Paying
  <2>7. \A j \in DOMAIN payouts : /\ payouts'[j].claim = payouts[j].claim
                                  /\ payouts'[j].key = payouts[j].key
    BY <2>2, <2>4
  <2>8. ChargedHasRow'
    BY <1>0, <2>2, <2>7 DEF OwnershipInv, ChargedHasRow, RowsByClaim
  <2>9. UniquePayouts'
    BY <1>0, <2>2, <2>7 DEF UniquePayouts
  <2>10. CompletedWasCharged'
    BY <1>0, <1>1, <2>1, <2>2, <2>4 DEF CompletedWasCharged
  <2>11. QED
    BY <1>0, <2>5, <2>6, <2>8, <2>9, <2>10 DEF OwnershipInv, ChargedOnce
<1>4. QED
  BY <1>2, <1>3

-----------------------------------------------------------------------------
\* Every step keeps the ownership of rows and what follows from it.
LEMMA NextOwnership ==
  ASSUME IInv, [Next]_vars
  PROVE  OwnershipInv' /\ UniquePayouts' /\ CompletedWasCharged' /\ ChargedOnce'
<1>0. TypeOK /\ OwnershipInv
  BY DEF IInv
<1> SUFFICES ASSUME ~ (\E t \in Threads : Insert(t) \/ Gateway(t)
                                          \/ SaveCompleted(t) \/ SaveFailed(t))
             PROVE  OwnershipInv' /\ UNCHANGED rows
  BY InsertOwnership, GatewayOwnership, SaveOwnership
  DEF IInv, UniquePayouts, CompletedWasCharged, ChargedOnce, rows
<1> USE DEF tables, history, rows
<1>1. ASSUME NEW c \in Claims, PublishApproved(c)
      PROVE OwnershipInv' /\ UNCHANGED rows
  BY <1>0, <1>1
  DEF PublishApproved, OwnershipInv, Fits, Exclusive, ChargedHasRow, RowsByClaim
<1>2. ASSUME NEW t \in Threads, NEW c \in Claims, NEW k \in Keys,
             NEW a \in Amounts, ReceiveProcess(t, c, k, a)
      PROVE OwnershipInv' /\ UNCHANGED rows
  <2> DEFINE r == [Idle EXCEPT !.pc = "lookup_key", !.claim = c, !.key = k,
                               !.amount = a]
  <2>1. t \notin Operators
    BY <1>2, ThreadAssumption DEF ReceiveProcess
  <2>2. Fits(t, r) /\ r.pc \notin Paying
    BY <2>1 DEF Fits, Idle, Looking, Owning, Paying, Crediting
  <2>3. QED
    BY <1>0, <1>2, <2>2, QuietStep DEF ReceiveProcess
<1>3. ASSUME NEW t \in Threads, NEW c \in Claims, NEW n \in 0 .. RetryLimit,
             Deliver(t, c, n) PROVE OwnershipInv' /\ UNCHANGED rows
  <2> DEFINE r == [Idle EXCEPT !.pc = "lookup_key", !.claim = c,
                               !.key = EventKey[c], !.amount = EventAmount,
                               !.retries = n]
  <2>1. t \notin Operators
    BY <1>3, ThreadAssumption DEF Deliver
  <2>2. Fits(t, r) /\ r.pc \notin Paying
    BY <2>1, DomainAssumption DEF Fits, Idle, Looking, Owning, Paying, Crediting
  <2>3. QED
    BY <1>0, <1>3, <2>2, QuietStep DEF Deliver
<1>4. ASSUME NEW t \in Threads, NEW i \in DOMAIN payouts, RetryFailed(t, i)
      PROVE OwnershipInv' /\ UNCHANGED rows
  <2> DEFINE r == [Idle EXCEPT !.pc = "gateway", !.tx = i]
  <2>1. t \in Operators /\ t \notin Consumers /\ payouts[i].status = "failed"
    BY <1>4, ThreadAssumption DEF RetryFailed
  <2>2. Fits(t, r)
    BY <2>1 DEF Fits, Idle, Looking, Owning, Paying, Crediting
  <2>3. QED
    BY <1>0, <1>4, <2>1, <2>2, QuietStep DEF RetryFailed
<1>5. ASSUME NEW t \in Threads, LookupKey(t) PROVE OwnershipInv' /\ UNCHANGED rows
  BY <1>0, <1>5, QuietGo, QuietAnswer
  DEF LookupKey, At, Looking, Owning, Paying, Crediting
<1>6. ASSUME NEW t \in Threads, LookupClaim(t)
      PROVE OwnershipInv' /\ UNCHANGED rows
  BY <1>0, <1>6, QuietGo, QuietAnswer
  DEF LookupClaim, At, Looking, Owning, Paying, Crediting
<1>7. ASSUME NEW t \in Threads, Raced(t) PROVE OwnershipInv' /\ UNCHANGED rows
  BY <1>0, <1>7, QuietAnswer DEF Raced, At
<1>8. ASSUME NEW t \in Threads, AnnounceFailed(t)
      PROVE OwnershipInv' /\ UNCHANGED rows
  BY <1>0, <1>8, QuietAnswer DEF AnnounceFailed, Publish, At
<1>9. ASSUME NEW t \in Threads, LedgerCheck(t)
      PROVE OwnershipInv' /\ UNCHANGED rows
  BY <1>0, <1>9, QuietGo DEF LedgerCheck, At, Looking, Owning, Paying, Crediting
<1>10. ASSUME NEW t \in Threads, LedgerBalance(t)
       PROVE OwnershipInv' /\ UNCHANGED rows
  <2> DEFINE s(b) == [thread[t] EXCEPT !.pc = "ledger_insert", !.balance = b]
  <2>1. PICK b : thread' = [thread EXCEPT ![t] = s(b)]
    BY <1>10 DEF LedgerBalance
  <2>2. /\ s(b).pc = "ledger_insert" /\ s(b).claim = thread[t].claim
        /\ s(b).tx = thread[t].tx
    BY <1>0 DEF TypeOK, ThreadState
  <2>3. Fits(t, s(b)) /\ s(b).pc \notin Paying
    BY <1>0, <1>10, <2>2
    DEF LedgerBalance, At, OwnershipInv, Fits, Looking, Owning, Paying, Crediting
  <2>4. QED
    BY <1>0, <1>10, <2>1, <2>3, QuietStep DEF LedgerBalance
<1>11. ASSUME NEW t \in Threads, LedgerInsert(t)
       PROVE OwnershipInv' /\ UNCHANGED rows
  BY <1>0, <1>11, QuietGo, QuietAnswer
  DEF LedgerInsert, At, Looking, Owning, Paying, Crediting
<1>12. ASSUME NEW t \in Threads, AnnounceCompleted(t)
       PROVE OwnershipInv' /\ UNCHANGED rows
  BY <1>0, <1>12, QuietAnswer DEF AnnounceCompleted, Publish, At
<1>13. ASSUME NEW t \in Threads, Return(t) \/ Ack(t)
       PROVE OwnershipInv' /\ UNCHANGED rows
  BY <1>0, <1>13, QuietIdle DEF Return, Ack
<1>14. ASSUME NEW t \in Threads, Conclude(t) PROVE OwnershipInv' /\ UNCHANGED rows
  BY <1>0, <1>14, QuietIdle, QuietGo
  DEF Conclude, At, Looking, Owning, Paying, Crediting
<1>15. ASSUME NEW t \in Threads, Crash(t) PROVE OwnershipInv' /\ UNCHANGED rows
  BY <1>0, <1>15, QuietIdle DEF Crash
<1>16. ASSUME NEW t \in Threads, DatabaseError(t)
       PROVE OwnershipInv' /\ UNCHANGED rows
  BY <1>0, <1>16, QuietAnswer DEF DatabaseError, At
<1>17. CASE UNCHANGED vars
  BY <1>0, <1>17
  DEF vars, OwnershipInv, Fits, Exclusive, ChargedHasRow, RowsByClaim
<1>18. QED
  BY <1>1, <1>2, <1>3, <1>4, <1>5, <1>6, <1>7, <1>8, <1>9, <1>10, <1>11, <1>12,
     <1>13, <1>14, <1>15, <1>16, <1>17
  DEF Next, Receive, Step

-----------------------------------------------------------------------------
(* What one step does to the tables.                                       *)

\* A step appends a pending row for a claim without one, writes the verdict of a
\* charge into a row, credits a completed payout that has no credit, charges, or
\* leaves the tables and the money alone.
money == <<charged, recharged>>

RowAppended ==
  \E row \in Row : /\ row.status = "pending" /\ RowsByClaim(row.claim) = {}
                   /\ payouts' = Append(payouts, row)

VerdictWritten(i, s) ==
  /\ i \in DOMAIN payouts /\ Write(i, s)
  /\ \/ /\ s = "completed" /\ payouts[i].status = "pending"
        /\ charged[payouts[i].claim] > 0
     \/ /\ s = "completed" /\ payouts[i].status \in {"failed", "completed"}
        /\ recharged[payouts[i].claim] > 0
        /\ \E o \in Operators : At(o, "save_completed") /\ thread[o].tx = i
     \/ /\ s = "failed" /\ payouts[i].status = "pending"
        /\ charged[payouts[i].claim] = 0

Credited(i, b) ==
  /\ i \in DOMAIN payouts /\ payouts[i].status = "completed" /\ EntriesOfTx(i) = {}
  /\ ledger' = Append(ledger, [tx |-> i, user |-> Owner(i),
                               amount |-> payouts[i].amount, balance |-> b])

MoneyMoved(i, c) ==
  /\ i \in DOMAIN payouts /\ c = payouts[i].claim
  /\ \/ /\ payouts[i].status = "pending" /\ charged[c] = 0
        /\ charged' = [charged EXCEPT ![c] = @ + 1] /\ UNCHANGED recharged
     \/ /\ payouts[i].status \in {"failed", "completed"}
        /\ recharged' = [recharged EXCEPT ![c] = @ + 1] /\ UNCHANGED charged

(* What each step does to the table of payouts. *)
LEMMA TableSteps ==
  ASSUME IInv, [Next]_vars
  PROVE  \/ UNCHANGED <<tables, money>>
         \/ RowAppended /\ UNCHANGED <<ledger, money>>
         \/ (\E i, s : VerdictWritten(i, s)) /\ UNCHANGED <<ledger, money>>
         \/ (\E i, b : Credited(i, b)) /\ UNCHANGED <<payouts, money>>
         \/ (\E i, c : MoneyMoved(i, c)) /\ UNCHANGED tables
<1>0. TypeOK /\ OwnershipInv
  BY DEF IInv
<1> USE DEF money
<1>1. ASSUME NEW t \in Threads, Insert(t), ~ UNCHANGED payouts
      PROVE  RowAppended
  <2> DEFINE row == [claim |-> thread[t].claim, key |-> thread[t].key,
                     amount |-> thread[t].amount, status |-> "pending"]
  <2>1. row \in Row
    BY <1>0, <1>1 DEF OwnershipInv, Fits, Insert, At, Looking, Row, PayoutStatus
  <2>2. payouts' = Append(payouts, row) /\ RowsByClaim(row.claim) = {}
    BY <1>1 DEF Insert
  <2>3. QED
    BY <2>1, <2>2 DEF RowAppended
<1>2. ASSUME NEW t \in Threads, SaveCompleted(t) \/ SaveFailed(t),
             ~ UNCHANGED payouts
      PROVE  \E i, s : VerdictWritten(i, s)
  <2>1. /\ thread[t].pc \in Paying /\ Fits(t, thread[t])
        /\ \/ thread[t].pc = "save_completed" /\ Write(thread[t].tx, "completed")
           \/ /\ thread[t].pc = "save_failed" /\ Write(thread[t].tx, "failed")
              /\ t \notin Operators
    BY <1>0, <1>2 DEF OwnershipInv, SaveCompleted, SaveFailed, At, Paying
  <2>2. /\ thread[t].tx \in DOMAIN payouts
        /\ payouts[thread[t].tx].status \in
             (IF t \in Operators THEN {"failed", "completed"} ELSE {"pending"})
    BY <2>1 DEF Fits, Owning
  <2>3. CASE thread[t].pc = "save_completed"
    <3>1. VerdictWritten(thread[t].tx, "completed")
      <4>1. CASE t \in Operators
        BY <2>1, <2>2, <2>3, <4>1 DEF VerdictWritten, Fits, At
      <4>2. CASE t \notin Operators
        BY <2>1, <2>2, <2>3, <4>2 DEF VerdictWritten, Fits
      <4>3. QED
        BY <4>1, <4>2
    <3>2. QED
      BY <3>1
  <2>4. CASE thread[t].pc = "save_failed"
    <3>1. VerdictWritten(thread[t].tx, "failed")
      BY <2>1, <2>2, <2>4 DEF VerdictWritten, Fits
    <3>2. QED
      BY <3>1
  <2>5. QED
    BY <2>1, <2>3, <2>4
<1>3. ASSUME NEW t \in Threads, LedgerInsert(t), ~ UNCHANGED ledger
      PROVE  \E i, b : Credited(i, b)
  <2>1. thread[t].pc \in Crediting /\ Fits(t, thread[t])
    BY <1>0, <1>3 DEF OwnershipInv, LedgerInsert, At, Crediting
  <2>2. /\ thread[t].tx \in DOMAIN payouts
        /\ payouts[thread[t].tx].status = "completed"
    BY <2>1 DEF Fits, Owning
  <2>3. Credited(thread[t].tx,
                 thread[t].balance + payouts[thread[t].tx].amount)
    BY <1>3, <2>2 DEF LedgerInsert, Credited
  <2>4. QED
    BY <2>3
<1>4. ASSUME NEW t \in Threads, Gateway(t), ~ UNCHANGED money
      PROVE  \E i, c : MoneyMoved(i, c)
  <2>1. thread[t].pc = "gateway" /\ Fits(t, thread[t])
    BY <1>0, <1>4 DEF OwnershipInv, Gateway, At
  <2>2. MoneyMoved(thread[t].tx, payouts[thread[t].tx].claim)
    BY <1>4, <2>1 DEF Gateway, Fits, Owning, Paying, MoneyMoved
  <2>3. QED
    BY <2>2
<1>5. ASSUME NEW t \in Threads, Receive(t) PROVE UNCHANGED <<tables, money>>
  BY <1>5 DEF Receive, ReceiveProcess, Deliver, RetryFailed, history
<1>6. ASSUME NEW t \in Threads, Step(t) PROVE
        \/ UNCHANGED <<tables, money>>
        \/ Insert(t) /\ UNCHANGED <<ledger, money>>
        \/ (SaveCompleted(t) \/ SaveFailed(t)) /\ UNCHANGED <<ledger, money>>
        \/ LedgerInsert(t) /\ UNCHANGED <<payouts, money>>
        \/ Gateway(t) /\ UNCHANGED tables
  BY <1>6
  DEF Step, LookupKey, LookupClaim, Insert, Raced, Gateway, SaveCompleted,
      SaveFailed, AnnounceFailed, LedgerCheck, LedgerBalance, LedgerInsert,
      AnnounceCompleted, Publish, Return, Conclude, Ack, tables, history
<1>7. ASSUME NEW t \in Threads, Crash(t) \/ DatabaseError(t)
      PROVE  UNCHANGED <<tables, money>>
  BY <1>7 DEF Crash, DatabaseError
<1>8. ASSUME NEW c \in Claims, PublishApproved(c) PROVE UNCHANGED <<tables, money>>
  BY <1>8 DEF PublishApproved, history
<1>9. CASE UNCHANGED vars
  BY <1>9 DEF vars, tables
<1>10. QED
  BY <1>1, <1>2, <1>3, <1>4, <1>5, <1>6, <1>7, <1>8, <1>9 DEF Next, tables

-----------------------------------------------------------------------------
\* Every step keeps the ledger sound.
LEMMA NextLedger ==
  ASSUME IInv, LedgerSound, [Next]_vars PROVE LedgerSound'
<1>0. payouts \in Seq(Row) /\ ledger \in Seq(Entry)
  BY DEF IInv, TypeOK
<1>1. CASE UNCHANGED tables
  BY <1>1 DEF tables, LedgerSound, Owner
<1>2. CASE RowAppended /\ UNCHANGED ledger
  <2>1. PICK row \in Row : payouts' = Append(payouts, row)
    BY <1>2 DEF RowAppended
  <2>2. \A i \in DOMAIN payouts : i \in DOMAIN payouts' /\ payouts'[i] = payouts[i]
    BY <1>0, <2>1
  <2>3. QED
    BY <1>2, <2>2 DEF LedgerSound, Owner
<1>3. CASE (\E i, s : VerdictWritten(i, s)) /\ UNCHANGED ledger
  <2>1. PICK i \in DOMAIN payouts, s \in {"completed", "failed"} :
          /\ Write(i, s)
          /\ s = "failed" => payouts[i].status = "pending"
    BY <1>3 DEF VerdictWritten
  <2>2. /\ DOMAIN payouts' = DOMAIN payouts
        /\ \A j \in DOMAIN payouts :
             payouts'[j] = IF j = i THEN [payouts[j] EXCEPT !.status = s]
                                    ELSE payouts[j]
    <3>1. s \in PayoutStatus
      BY DEF PayoutStatus
    <3>2. DOMAIN payouts' = DOMAIN payouts
      BY <2>1 DEF Write
    <3>3. QED
      BY <1>0, <2>1, <3>1, <3>2, WriteType
  <2>3. \A j \in DOMAIN payouts :
          /\ payouts'[j].claim = payouts[j].claim
          /\ payouts'[j].amount = payouts[j].amount
          /\ payouts[j].status = "completed" => payouts'[j].status = "completed"
    <3> SUFFICES ASSUME NEW j \in DOMAIN payouts
                 PROVE  /\ payouts'[j].claim = payouts[j].claim
                        /\ payouts'[j].amount = payouts[j].amount
                        /\ payouts[j].status = "completed"
                             => payouts'[j].status = "completed"
      OBVIOUS
    <3>1. payouts[j] \in Row
      BY <1>0
    <3>2. CASE j # i
      BY <2>2, <3>2
    <3>3. CASE j = i
      <4>1. payouts'[j] = [payouts[j] EXCEPT !.status = s]
        BY <2>2, <3>3
      <4>2. /\ payouts'[j].status = s /\ payouts'[j].claim = payouts[j].claim
            /\ payouts'[j].amount = payouts[j].amount
        BY <3>1, <4>1, RowFacts
      <4>3. QED
        BY <2>1, <3>3, <4>2
    <3>4. QED
      BY <3>2, <3>3
  <2>4. QED
    BY <1>3, <2>2, <2>3 DEF LedgerSound, Owner
<1>4. CASE (\E i, b : Credited(i, b)) /\ UNCHANGED payouts
  <2>1. PICK i, b : Credited(i, b)
    BY <1>4
  <2> DEFINE e == [tx |-> i, user |-> Owner(i), amount |-> payouts[i].amount,
                   balance |-> b]
             m == Len(ledger) + 1
  <2>2. ledger' = Append(ledger, e)
    BY <2>1 DEF Credited
  <2>3. /\ DOMAIN ledger' = DOMAIN ledger \cup {m} /\ ledger'[m] = e
        /\ \A n \in DOMAIN ledger : ledger'[n] = ledger[n]
    BY <1>0, <2>2
  <2>4. /\ e.tx = i /\ e.user = Owner(i) /\ e.amount = payouts[i].amount
        /\ \A n \in DOMAIN ledger : ledger[n].tx # i
        /\ i \in DOMAIN payouts /\ payouts[i].status = "completed"
    BY <2>1 DEF Credited, EntriesOfTx
  <2> HIDE DEF e, m
  <2>5. QED
    BY <1>4, <2>3, <2>4 DEF LedgerSound, Owner
<1>5. QED
  BY <1>1, <1>2, <1>3, <1>4, TableSteps DEF tables

-----------------------------------------------------------------------------
(* Theorems.                                                               *)

\* The inductive invariant holds in every reachable state.
THEOREM Inductive == Spec => []IInv
<1>1. Init => IInv
  BY InitIInv
<1>2. IInv /\ [Next]_vars => IInv'
  BY NextTypeOK, NextOwnership DEF IInv
<1>3. QED
  BY <1>1, <1>2, PTL DEF Spec

\* The service's tables, messages and requests keep their types.
THEOREM TypeCorrect == Spec => []TypeOK
BY Inductive, PTL DEF IInv

\* A request in progress keeps the row it works on to itself: no interleaving
\* of process_payout and retry_failed_payout takes it away.
THEOREM RowsOwned == Spec => []OwnershipInv
BY Inductive, PTL DEF IInv

\* A claim has at most one payout and an idempotency key names at most one.
THEOREM OnePayoutPerClaim == Spec => []UniquePayouts
BY Inductive, PTL DEF IInv

\* process_payout charges the gateway at most once per claim.
THEOREM ChargeAtMostOnce == Spec => []ChargedOnce
BY Inductive, PTL DEF IInv

\* A completed payout was accepted by the gateway.
THEOREM CompletedImpliesCharged == Spec => []CompletedWasCharged
BY Inductive, PTL DEF IInv

\* The ledger credits only completed payouts, each at most once.
THEOREM LedgerIsSound == Spec => []LedgerSound
<1>1. Init => LedgerSound
  BY DEF Init, LedgerSound
<1>2. IInv /\ LedgerSound /\ [Next]_vars => LedgerSound'
  BY NextLedger
<1>3. QED
  BY <1>1, <1>2, Inductive, PTL DEF Spec

\* No request undoes a completed payout or changes what a payout is for.
THEOREM CompletedStays == Spec => CompletedIsFinal
<1> DEFINE Kept == \A i \in DOMAIN payouts :
       /\ i \in DOMAIN payouts'
       /\ payouts'[i] = [payouts[i] EXCEPT !.status = payouts'[i].status]
       /\ payouts[i].status = "completed" => payouts'[i].status = "completed"
       /\ payouts[i].status = "failed" /\ payouts'[i].status # "failed" =>
            \E o \in Operators : At(o, "save_completed") /\ thread[o].tx = i
<1>1. ASSUME IInv, [Next]_vars PROVE [Kept]_payouts
  <2>0. payouts \in Seq(Row)
    BY <1>1 DEF IInv, TypeOK
  <2>a. \A j \in DOMAIN payouts : payouts[j] \in Row
    BY <2>0
  <2>1. CASE RowAppended
    <3>1. PICK row \in Row : payouts' = Append(payouts, row)
      BY <2>1 DEF RowAppended
    <3>2. \A i \in DOMAIN payouts : i \in DOMAIN payouts' /\ payouts'[i] = payouts[i]
      BY <2>0, <3>1
    <3>3. \A i \in DOMAIN payouts :
            payouts[i] = [payouts[i] EXCEPT !.status = payouts[i].status]
      BY <2>a, RowFacts
    <3>4. QED
      BY <3>2, <3>3
  <2>2. CASE \E i, s : VerdictWritten(i, s)
    <3>1. PICK i \in DOMAIN payouts, s \in {"completed", "failed"} :
            /\ Write(i, s)
            /\ s = "failed" => payouts[i].status = "pending"
            /\ payouts[i].status = "failed" =>
                 \E o \in Operators : At(o, "save_completed") /\ thread[o].tx = i
      BY <2>2 DEF VerdictWritten
    <3>2. DOMAIN payouts' = DOMAIN payouts /\ s \in PayoutStatus
      BY <3>1 DEF Write, PayoutStatus
    <3>3. \A j \in DOMAIN payouts :
            payouts'[j] = IF j = i THEN [payouts[j] EXCEPT !.status = s]
                                   ELSE payouts[j]
      BY <2>0, <3>1, <3>2, WriteType
    <3>4. \A j \in DOMAIN payouts :
            payouts'[j] = [payouts[j] EXCEPT !.status = payouts'[j].status]
      BY <2>a, <3>3, RowFacts
    <3>5. \A j \in DOMAIN payouts :
            payouts[j].status = "completed" => payouts'[j].status = "completed"
      <4>0. payouts'[i] = [payouts[i] EXCEPT !.status = s] /\ payouts[i] \in Row
        BY <2>a, <3>3
      <4>1. payouts'[i].status = s
        BY <4>0, RowFacts
      <4>2. QED
        BY <3>1, <3>3, <4>1
    <3>6. \A j \in DOMAIN payouts :
            payouts[j].status = "failed" /\ payouts'[j].status # "failed" =>
              \E o \in Operators : At(o, "save_completed") /\ thread[o].tx = j
      BY <3>1, <3>3
    <3>7. QED
      BY <3>2, <3>4, <3>5, <3>6
  <2>3. CASE UNCHANGED payouts
    BY <2>3
  <2>4. QED
    BY <1>1, <2>1, <2>2, <2>3, TableSteps DEF tables
<1>2. IInv /\ [Next]_vars => [Kept]_payouts
  BY <1>1
<1>3. [][Kept]_payouts <=> CompletedIsFinal
  BY DEF CompletedIsFinal
<1>4. QED
  BY <1>2, <1>3, Inductive, PTL DEF Spec

\* What the runs check of charges, in one statement: the shape of the state, the rows
\* owned by requests, one charge per claim, and a charge behind every completed payout.
THEOREM ChargesAreSound == Spec => []ChargesSound
BY TypeCorrect, RowsOwned, ChargeAtMostOnce, CompletedImpliesCharged, PTL DEF ChargesSound

-----------------------------------------------------------------------------
(* Replies: a request keeps the identity of the row it works on.           *)

Requests == ApiThreads \cup Consumers

\* A request past its INSERT works on a row of its claim and key in the table p; one
\* that is about to reply with a payout's status has such a row.
Named(r, p) ==
  /\ r.pc \in Owning => p[r.tx].claim = r.claim /\ p[r.tx].key = r.key
  /\ r.pc = "reply" /\ r.reply \in PayoutStatus =>
       \E i \in DOMAIN p : p[i].claim = r.claim /\ p[i].key = r.key

RequestsNamed == \A t \in Requests : Named(thread[t], payouts)

\* Rows keep their place, their claim and their key.
Keeps(p, q) ==
  \A i \in DOMAIN p : i \in DOMAIN q /\ q[i].claim = p[i].claim /\ q[i].key = p[i].key

(* A reply that names a payout of its request does so after any step. *)
LEMMA NamedKept ==
  ASSUME NEW r, NEW p, NEW q, Keeps(p, q), Named(r, p),
         r.pc \in Owning => r.tx \in DOMAIN p
  PROVE  Named(r, q)
BY DEF Keeps, Named

(* No step changes the claim, the key or the amount of a payout. *)
LEMMA RowsKept == ASSUME IInv, [Next]_vars PROVE Keeps(payouts, payouts')
<1>1. payouts \in Seq(Row) /\ \A j \in DOMAIN payouts : payouts[j] \in Row
  <2>1. payouts \in Seq(Row)
    BY DEF IInv, TypeOK
  <2>2. QED
    BY <2>1
<1>2. CASE RowAppended
  BY <1>1, <1>2 DEF RowAppended, Keeps
<1>3. CASE \E i, s : VerdictWritten(i, s)
  <2>1. PICK i \in DOMAIN payouts, s \in PayoutStatus : Write(i, s)
    BY <1>3 DEF VerdictWritten, PayoutStatus
  <2>2. /\ DOMAIN payouts' = DOMAIN payouts
        /\ \A j \in DOMAIN payouts :
             payouts'[j] = IF j = i THEN [payouts[j] EXCEPT !.status = s]
                                    ELSE payouts[j]
    <3>1. DOMAIN payouts' = DOMAIN payouts
      BY <2>1 DEF Write
    <3>2. QED
      BY <1>1, <2>1, <3>1, WriteType
  <2>3. ASSUME NEW row \in Row
        PROVE  /\ [row EXCEPT !.status = s].claim = row.claim
               /\ [row EXCEPT !.status = s].key = row.key
    BY DEF Row
  <2>4. QED
    BY <1>1, <2>2, <2>3 DEF Keeps
<1>4. CASE UNCHANGED payouts
  BY <1>4 DEF Keeps
<1>5. QED
  BY <1>2, <1>3, <1>4, TableSteps DEF tables

-----------------------------------------------------------------------------
(* What a step makes of the request that takes it.                         *)

\* Ended, or not at a point that matters.
LEMMA NamedElsewhere ==
  ASSUME NEW r, NEW p, r.pc \notin Owning \cup {"reply"} PROVE Named(r, p)
BY DEF Named

\* An error is no payout's status.
LEMMA NamedError ==
  ASSUME TypeOK, NEW t \in Threads, NEW x \in ErrorCodes, Answer(t, x), NEW p
  PROVE  Named(thread'[t], p)
<1>1. thread'[t].pc = "reply" /\ thread'[t].reply = x
  BY DEF TypeOK, ThreadState, Answer
<1>2. x \notin PayoutStatus /\ "reply" \notin Owning
  BY DEF ErrorCodes, PayoutStatus, Owning, Paying, Crediting
<1>3. QED
  BY <1>1, <1>2 DEF Named

\* A status is answered of a row of the request's claim and key.
LEMMA NamedStatus ==
  ASSUME TypeOK, NEW t \in Threads, NEW x, Answer(t, x), NEW i \in DOMAIN payouts,
         payouts[i].claim = thread[t].claim, payouts[i].key = thread[t].key
  PROVE  Named(thread'[t], payouts)
<1>1. /\ thread'[t].pc = "reply" /\ thread'[t].claim = thread[t].claim
      /\ thread'[t].key = thread[t].key
  BY DEF TypeOK, ThreadState, Answer
<1>2. "reply" \notin Owning
  BY DEF Owning, Paying, Crediting
<1>3. QED
  BY <1>1, <1>2 DEF Named

\* A request that moves on keeps its row.
LEMMA NamedGo ==
  ASSUME TypeOK, NEW t \in Threads, NEW pt, Go(t, pt), pt # "reply", NEW p,
         pt \in Owning => thread[t].pc \in Owning, Named(thread[t], p)
  PROVE  Named(thread'[t], p)
<1>1. /\ thread'[t].pc = pt /\ thread'[t].claim = thread[t].claim
      /\ thread'[t].key = thread[t].key /\ thread'[t].tx = thread[t].tx
  BY DEF TypeOK, ThreadState, Go
<1>2. QED
  BY <1>1 DEF Named

-----------------------------------------------------------------------------
\* Every step keeps requests named.
LEMMA NextNamed ==
  ASSUME IInv, RequestsNamed, [Next]_vars PROVE RequestsNamed'
<1>0. TypeOK /\ OwnershipInv /\ Keeps(payouts, payouts')
  BY RowsKept DEF IInv
<1>a. Requests \subseteq Threads /\ Requests \cap Operators = {}
  BY ThreadAssumption DEF Requests, Threads
<1>b. ASSUME NEW t \in Requests, thread'[t] = thread[t]
      PROVE  Named(thread'[t], payouts')
  BY <1>0, <1>a, <1>b, NamedKept DEF RequestsNamed, OwnershipInv, Fits
<1>c. /\ "idle" \notin Owning /\ "ack" \notin Owning /\ "reply" \notin Owning
      /\ Looking \cap Owning = {} /\ "reply" \notin Looking
      /\ {"gateway", "save_completed", "save_failed", "announce_failed", "ledger_check",
          "ledger_balance", "ledger_insert", "announce_completed"} \subseteq Owning
  BY DEF Owning, Paying, Crediting, Looking
\* Each disjunct of Next moves one thread and leaves it named.
<1>2. ASSUME NEW t \in Threads, Receive(t)
      PROVE  t \in Requests => Named(thread'[t], payouts')
  <2>1. CASE \E c \in Claims, k \in Keys, a \in Amounts : ReceiveProcess(t, c, k, a)
    <3>1. thread'[t].pc = "lookup_key"
      BY <1>0, <2>1 DEF ReceiveProcess, TypeOK, Idle
    <3>2. QED
      BY <1>c, <3>1, NamedElsewhere DEF Looking
  <2>2. CASE \E c \in Claims, r \in 0 .. RetryLimit : Deliver(t, c, r)
    <3>1. thread'[t].pc = "lookup_key"
      BY <1>0, <2>2 DEF Deliver, TypeOK, Idle
    <3>2. QED
      BY <1>c, <3>1, NamedElsewhere DEF Looking
  <2>3. CASE \E i \in DOMAIN payouts : RetryFailed(t, i)
    BY <1>a, <2>3 DEF RetryFailed
  <2>4. QED
    BY <1>2, <2>1, <2>2, <2>3 DEF Receive
<1>3. ASSUME NEW t \in Threads, Crash(t) \/ DatabaseError(t)
      PROVE  Named(thread'[t], payouts')
  <2>1. CASE Crash(t)
    <3>1. thread'[t].pc = "idle"
      BY <1>0, <2>1 DEF Crash, TypeOK, Idle
    <3>2. QED
      BY <1>c, <3>1, NamedElsewhere
  <2>2. CASE DatabaseError(t)
    BY <1>0, <2>2, NamedError DEF DatabaseError, ErrorCodes
  <2>3. QED
    BY <1>3, <2>1, <2>2
<1>4. ASSUME NEW t \in Requests, Step(t) PROVE Named(thread'[t], payouts')
  <2>0. /\ Named(thread[t], payouts) /\ t \in Threads /\ t \notin Operators
        /\ Fits(t, thread[t])
    BY <1>0, <1>a DEF RequestsNamed, OwnershipInv
  <2>1. Named(thread[t], payouts')
    BY <1>0, <2>0, NamedKept DEF Fits
  <2>2. CASE LookupKey(t)
    <3>1. CASE Go(t, "lookup_claim")
      BY <1>0, <1>c, <2>0, <2>1, <3>1, NamedGo DEF Looking
    <3>2. CASE \E i \in RowsByKey(thread[t].key) :
                 payouts[i].claim = thread[t].claim /\ Answer(t, payouts[i].status)
      BY <1>0, <2>0, <2>2, <3>2, NamedStatus DEF RowsByKey, LookupKey, tables
    <3>3. CASE Answer(t, "IDEMPOTENCY_KEY_REUSED")
      BY <1>0, <2>0, <3>3, NamedError DEF ErrorCodes
    <3>4. QED
      BY <2>2, <3>1, <3>2, <3>3 DEF LookupKey
  <2>3. CASE LookupClaim(t)
    <3>1. CASE Go(t, "insert")
      BY <1>0, <1>c, <2>0, <2>1, <3>1, NamedGo DEF Looking
    <3>2. CASE Answer(t, "DUPLICATE_PAYOUT")
      BY <1>0, <2>0, <3>2, NamedError DEF ErrorCodes
    <3>3. QED
      BY <2>3, <3>1, <3>2 DEF LookupClaim
  <2>4. CASE Insert(t)
    <3>1. CASE Go(t, "raced")
      BY <1>0, <1>c, <2>0, <2>1, <3>1, NamedGo DEF Looking
    <3>2. CASE ~ Go(t, "raced")
      <4> DEFINE row == [claim |-> thread[t].claim, key |-> thread[t].key,
                         amount |-> thread[t].amount, status |-> "pending"]
                 n == Len(payouts) + 1
      <4>1. /\ payouts' = Append(payouts, row)
            /\ thread' = [thread EXCEPT ![t] =
                 [thread[t] EXCEPT !.pc = "gateway", !.tx = n]]
        BY <2>4, <3>2 DEF Insert
      <4>2. payouts \in Seq(Row)
        BY <1>0 DEF TypeOK
      <4>3. payouts'[n] = row
        BY <4>1, <4>2
      <4>4. /\ thread'[t].pc = "gateway" /\ thread'[t].tx = n
            /\ thread'[t].claim = thread[t].claim /\ thread'[t].key = thread[t].key
        BY <1>0, <2>0, <4>1 DEF TypeOK, ThreadState
      <4>5. QED
        BY <4>3, <4>4 DEF Named
    <3>3. QED
      BY <3>1, <3>2
  <2>5. CASE Raced(t)
    <3>1. CASE \E i \in RowsByKey(thread[t].key) :
                 payouts[i].claim = thread[t].claim /\ Answer(t, payouts[i].status)
      BY <1>0, <2>0, <2>5, <3>1, NamedStatus DEF RowsByKey, Raced, tables
    <3>2. CASE Answer(t, "DUPLICATE_PAYOUT")
      BY <1>0, <2>0, <3>2, NamedError DEF ErrorCodes
    <3>3. QED
      BY <2>5, <3>1, <3>2 DEF Raced
  <2>6. CASE Gateway(t) \/ SaveCompleted(t) \/ LedgerCheck(t)
    <3>1. PICK pt \in Owning : Go(t, pt) /\ thread[t].pc \in Owning
      BY <1>c, <2>6 DEF Gateway, SaveCompleted, LedgerCheck, At
    <3>2. QED
      BY <1>0, <1>c, <2>0, <2>1, <3>1, NamedGo
  <2>7. CASE SaveFailed(t)
    <3>1. Go(t, "announce_failed") /\ thread[t].pc \in Owning
      BY <1>c, <2>0, <2>7 DEF SaveFailed, At
    <3>2. QED
      BY <1>0, <1>c, <2>0, <2>1, <3>1, NamedGo
  <2>8. CASE AnnounceFailed(t)
    BY <1>0, <2>0, <2>8, NamedError DEF AnnounceFailed, Publish, ErrorCodes
  <2>9. CASE LedgerBalance(t)
    <3>1. PICK b : thread' = [thread EXCEPT ![t] =
                     [thread[t] EXCEPT !.pc = "ledger_insert", !.balance = b]]
      BY <2>9 DEF LedgerBalance
    <3>2. /\ thread'[t].pc = "ledger_insert" /\ thread'[t].claim = thread[t].claim
          /\ thread'[t].key = thread[t].key /\ thread'[t].tx = thread[t].tx
      BY <1>0, <2>0, <3>1 DEF TypeOK, ThreadState
    <3>3. thread[t].pc \in Owning
      BY <1>c, <2>9 DEF LedgerBalance, At
    <3>4. QED
      BY <2>1, <3>2, <3>3 DEF Named
  <2>10. CASE LedgerInsert(t)
    <3>1. CASE Go(t, "announce_completed")
      <4>1. thread[t].pc \in Owning
        BY <1>c, <2>10 DEF LedgerInsert, At
      <4>2. QED
        BY <1>0, <1>c, <2>0, <2>1, <3>1, <4>1, NamedGo
    <3>2. CASE Answer(t, "DUPLICATE_PAYOUT")
      BY <1>0, <2>0, <3>2, NamedError DEF ErrorCodes
    <3>3. QED
      BY <2>10, <3>1, <3>2 DEF LedgerInsert
  <2>11. CASE AnnounceCompleted(t)
    <3>1. /\ thread[t].tx \in DOMAIN payouts
          /\ payouts[thread[t].tx].claim = thread[t].claim
          /\ payouts[thread[t].tx].key = thread[t].key
      BY <1>c, <2>0, <2>11 DEF AnnounceCompleted, At, Fits, Named
    <3>2. payouts' = payouts
      BY <2>11 DEF AnnounceCompleted, tables
    <3>3. QED
      BY <1>0, <2>0, <2>11, <3>1, <3>2, NamedStatus, NamedError
      DEF AnnounceCompleted, Publish, ErrorCodes
  <2>12. CASE Return(t) \/ Conclude(t) \/ Ack(t)
    <3>1. thread'[t].pc \in {"idle", "ack"}
      BY <1>0, <2>0, <2>12 DEF Return, Conclude, Ack, Go, TypeOK, ThreadState, Idle
    <3>2. QED
      BY <1>c, <3>1, NamedElsewhere
  <2>13. QED
    BY <1>4, <2>2, <2>3, <2>4, <2>5, <2>6, <2>7, <2>8, <2>9, <2>10, <2>11, <2>12 DEF Step
<1>5. ASSUME NEW t \in Threads, Receive(t) \/ Step(t) \/ Crash(t) \/ DatabaseError(t)
      PROVE  \A u \in Threads : u # t => thread'[u] = thread[u]
  <2>1. \A r : thread' = [thread EXCEPT ![t] = r] =>
                 \A u \in Threads : u # t => thread'[u] = thread[u]
    BY <1>0 DEF TypeOK
  <2>2. thread' = thread \/ \E r : thread' = [thread EXCEPT ![t] = r]
    BY <1>5
    DEF Receive, ReceiveProcess, Deliver, RetryFailed, Step, LookupKey, LookupClaim, Insert,
        Raced, Gateway, SaveCompleted, SaveFailed, AnnounceFailed, LedgerCheck, LedgerBalance,
        LedgerInsert, AnnounceCompleted, Publish, Return, Conclude, Ack, Crash, DatabaseError,
        Go, Answer
  <2>3. QED
    BY <2>1, <2>2
<1>6. ASSUME thread' = thread PROVE RequestsNamed'
  BY <1>b, <1>6 DEF RequestsNamed
<1>7. QED
  BY <1>a, <1>b, <1>2, <1>3, <1>4, <1>5, <1>6
  DEF Next, vars, PublishApproved, RequestsNamed

\* No success reply of process_payout, be it to a replayed key, a lost race or the first
\* attempt itself, names another claim's payout or one made under another key.
THEOREM RepliesNameRequests == Spec => []ReplyNamesRequest
<1>1. Init => RequestsNamed
  BY ThreadAssumption
  DEF Init, RequestsNamed, Named, Requests, Threads, Idle, Owning, Paying, Crediting
<1>2. IInv /\ RequestsNamed /\ [Next]_vars => RequestsNamed'
  BY NextNamed
<1>3. RequestsNamed => ReplyNamesRequest
  BY DEF RequestsNamed, Named, Requests, ReplyNamesRequest, RowsByKey, At
<1>4. QED
  BY <1>1, <1>2, <1>3, Inductive, PTL DEF Spec

-----------------------------------------------------------------------------
(* The ledger.                                                             *)

\* Entries are appended and never change.
Extended ==
  \A n \in DOMAIN ledger : n \in DOMAIN ledger' /\ ledger'[n] = ledger[n]

(* The ledger only grows, at its end. *)
LEMMA LedgerExtended == ASSUME IInv, [Next]_vars PROVE Extended
<1>1. ledger \in Seq(Entry)
  BY DEF IInv, TypeOK
<1>2. ASSUME NEW e, ledger' = Append(ledger, e) PROVE Extended
  BY <1>1, <1>2 DEF Extended
<1>3. UNCHANGED ledger => Extended
  BY DEF Extended
<1>4. QED
  BY <1>2, <1>3, TableSteps DEF tables, Credited

\* What is known of the thread that takes a step, and of all the others.
LEMMA OneMoves ==
  ASSUME IInv, NEW t \in Threads, Receive(t) \/ Step(t) \/ Crash(t) \/ DatabaseError(t)
  PROVE  \A u \in Threads : u # t => thread'[u] = thread[u]
<1>1. \A r : thread' = [thread EXCEPT ![t] = r] =>
               \A u \in Threads : u # t => thread'[u] = thread[u]
  BY DEF IInv, TypeOK
<1>2. thread' = thread \/ \E r : thread' = [thread EXCEPT ![t] = r]
  BY DEF Receive, ReceiveProcess, Deliver, RetryFailed, Step, LookupKey, LookupClaim, Insert,
         Raced, Gateway, SaveCompleted, SaveFailed, AnnounceFailed, LedgerCheck, LedgerBalance,
         LedgerInsert, AnnounceCompleted, Publish, Return, Conclude, Ack, Crash, DatabaseError,
         Go, Answer
<1>3. QED
  BY <1>1, <1>2

\* The steps that bring a thread to the points of the ledger.
LEMMA Arrivals ==
  ASSUME IInv, NEW t \in Threads, Receive(t) \/ Step(t) \/ Crash(t) \/ DatabaseError(t)
  PROVE  /\ thread'[t].pc = "ledger_insert" => LedgerBalance(t)
         /\ thread'[t].pc = "announce_completed" => LedgerCheck(t) \/ LedgerInsert(t)
<1>1. \A r : thread' = [thread EXCEPT ![t] = r] => thread'[t] = r
  BY DEF IInv, TypeOK
<1>2. thread[t] \in ThreadState
  BY DEF IInv, TypeOK
<1>3. /\ \A x : Answer(t, x) => thread'[t].pc = "reply"
      /\ \A x : Go(t, x) => thread'[t].pc = x
  BY <1>1, <1>2 DEF Answer, Go, ThreadState
<1>4. CASE Receive(t)
  <2>1. ASSUME NEW c \in Claims, NEW k \in Keys, NEW a \in Amounts,
               ReceiveProcess(t, c, k, a)
        PROVE  thread'[t].pc = "lookup_key"
    BY <1>1, <2>1 DEF ReceiveProcess, Idle
  <2>2. ASSUME NEW c \in Claims, NEW r \in 0 .. RetryLimit, Deliver(t, c, r)
        PROVE  thread'[t].pc = "lookup_key"
    BY <1>1, <2>2 DEF Deliver, Idle
  <2>3. ASSUME NEW i \in DOMAIN payouts, RetryFailed(t, i)
        PROVE  thread'[t].pc = "gateway"
    BY <1>1, <2>3 DEF RetryFailed, Idle
  <2>4. QED
    BY <1>4, <2>1, <2>2, <2>3 DEF Receive
<1>5. CASE Crash(t) \/ DatabaseError(t)
  BY <1>1, <1>3, <1>5 DEF Crash, DatabaseError, Idle
<1>6. CASE LookupKey(t) \/ LookupClaim(t) \/ Raced(t)
  BY <1>3, <1>6 DEF LookupKey, LookupClaim, Raced
<1>7. CASE Insert(t)
  <2>1. Go(t, "raced") \/ thread'[t].pc = "gateway"
    BY <1>1, <1>2, <1>7 DEF Insert, ThreadState
  <2>2. QED
    BY <1>3, <2>1
<1>8. CASE Gateway(t) \/ SaveCompleted(t) \/ SaveFailed(t) \/ AnnounceFailed(t)
  BY <1>3, <1>8 DEF Gateway, SaveCompleted, SaveFailed, AnnounceFailed, Publish
<1>9. CASE LedgerCheck(t) \/ LedgerInsert(t)
  BY <1>3, <1>9 DEF LedgerCheck, LedgerInsert
<1>10. CASE LedgerBalance(t)
  <2>1. thread'[t].pc = "ledger_insert"
    BY <1>1, <1>2, <1>10 DEF LedgerBalance, ThreadState
  <2>2. QED
    BY <1>10, <2>1
<1>11. CASE AnnounceCompleted(t) \/ Return(t) \/ Conclude(t) \/ Ack(t)
  BY <1>1, <1>3, <1>11 DEF AnnounceCompleted, Publish, Return, Conclude, Ack, Idle
<1>12. QED
  BY <1>4, <1>5, <1>6, <1>7, <1>8, <1>9, <1>10, <1>11 DEF Step

\* Only LedgerInsert writes the ledger.
LEMMA LedgerSteps ==
  ASSUME [Next]_vars
  PROVE  UNCHANGED ledger \/ \E t \in Threads : LedgerInsert(t)
BY DEF Next, vars, PublishApproved, Receive, ReceiveProcess, Deliver, RetryFailed, Step,
       LookupKey, LookupClaim, Insert, Raced, Gateway, SaveCompleted, SaveFailed,
       AnnounceFailed, LedgerCheck, LedgerBalance, AnnounceCompleted, Return, Conclude, Ack,
       Crash, DatabaseError, tables

\* A thread other than the one that takes a step stays, and so do all when an approval
\* is published.
LEMMA StaysOrMoves ==
  ASSUME IInv, [Next]_vars, NEW u \in Threads, thread'[u] # thread[u]
  PROVE  Receive(u) \/ Step(u) \/ Crash(u) \/ DatabaseError(u)
<1>1. thread' # thread
  OBVIOUS
<1>2. PICK t \in Threads : Receive(t) \/ Step(t) \/ Crash(t) \/ DatabaseError(t)
  BY <1>1 DEF Next, vars, PublishApproved
<1>3. t = u
  BY <1>2, OneMoves
<1>4. QED
  BY <1>2, <1>3

-----------------------------------------------------------------------------
(* Balances.                                                               *)

\* The balance a thread has read is still one of its worker's, or none was there.
BalanceRead ==
  \A t \in Threads : At(t, "ledger_insert") =>
    \/ thread[t].balance = 0
    \/ \E m \in EntriesOfUser(Owner(thread[t].tx)) : ledger[m].balance = thread[t].balance

\* Every step keeps what was read valid.
LEMMA NextBalanceRead ==
  ASSUME IInv, BalanceRead, [Next]_vars PROVE BalanceRead'
<1>0. TypeOK /\ OwnershipInv /\ Keeps(payouts, payouts') /\ Extended
  BY RowsKept, LedgerExtended DEF IInv
<1> SUFFICES ASSUME NEW u \in Threads, thread'[u].pc = "ledger_insert"
             PROVE  \/ thread'[u].balance = 0
                    \/ \E m \in EntriesOfUser(Owner(thread[u].tx))' :
                         /\ ledger'[m].balance = thread'[u].balance
                         /\ thread'[u].tx = thread[u].tx
  BY DEF BalanceRead, At, Owner, EntriesOfUser
<1>1. CASE thread'[u] = thread[u]
  <2>1. thread[u].tx \in DOMAIN payouts
    BY <1>0, <1>1 DEF OwnershipInv, Fits, Owning, Crediting
  <2>2. \A m \in EntriesOfUser(Owner(thread[u].tx)) :
          m \in EntriesOfUser(Owner(thread[u].tx))' /\ ledger'[m] = ledger[m]
    BY <1>0, <1>1, <2>1 DEF EntriesOfUser, Owner, Extended, Keeps
  <2>3. QED
    BY <1>1, <2>2 DEF BalanceRead, At
<1>2. CASE thread'[u] # thread[u]
  <2>1. LedgerBalance(u)
    BY <1>2, StaysOrMoves, Arrivals
  <2>2. UNCHANGED <<payouts, ledger>>
    BY <2>1 DEF LedgerBalance, tables
  <2>3. PICK b : /\ thread' = [thread EXCEPT ![u] =
                      [thread[u] EXCEPT !.pc = "ledger_insert", !.balance = b]]
                 /\ \/ b = 0
                    \/ \E n \in EntriesOfUser(Owner(thread[u].tx)) : b = ledger[n].balance
    BY <2>1 DEF LedgerBalance
  <2>4. thread'[u].balance = b /\ thread'[u].tx = thread[u].tx
    BY <1>0, <2>3 DEF TypeOK, ThreadState
  <2>5. QED
    BY <2>2, <2>3, <2>4 DEF EntriesOfUser, Owner
<1>3. QED
  BY <1>1, <1>2

\* An entry is made of the balance its thread has read.
LEMMA NextBalance ==
  ASSUME IInv, BalanceRead, BalanceExtends, [Next]_vars PROVE BalanceExtends'
<1>0. ledger \in Seq(Entry) /\ TypeOK /\ OwnershipInv /\ Extended
  BY LedgerExtended DEF IInv, TypeOK
<1>1. ASSUME NEW n \in DOMAIN ledger
      PROVE  (\/ ledger[n].balance = ledger[n].amount
              \/ \E m \in EntriesOfUser(ledger[n].user) :
                   m < n /\ ledger[n].balance = ledger[m].balance + ledger[n].amount)'
  BY <1>0, <1>1 DEF BalanceExtends, Extended, EntriesOfUser
<1>2. CASE UNCHANGED ledger
  BY <1>1, <1>2 DEF BalanceExtends
<1>3. ASSUME NEW t \in Threads, LedgerInsert(t), ~ UNCHANGED ledger PROVE BalanceExtends'
  <2> DEFINE i == thread[t].tx
             n == Len(ledger) + 1
             e == [tx |-> i, user |-> Owner(i), amount |-> payouts[i].amount,
                   balance |-> thread[t].balance + payouts[i].amount]
  <2>1. ledger' = Append(ledger, e)
    BY <1>3 DEF LedgerInsert
  <2>2. /\ DOMAIN ledger' = DOMAIN ledger \cup {n} /\ ledger'[n] = e
        /\ \A m \in DOMAIN ledger : ledger'[m] = ledger[m] /\ m < n
    <3> HIDE DEF e
    <3>1. QED
      BY <1>0, <2>1
  <2>3. payouts[i].amount \in Nat /\ thread[t].balance \in Nat
    <3>1. i \in DOMAIN payouts
      BY <1>0, <1>3 DEF OwnershipInv, Fits, LedgerInsert, At, Owning, Crediting
    <3>2. payouts[i] \in Row /\ thread[t] \in ThreadState
      BY <1>0, <3>1 DEF TypeOK
    <3>3. QED
      BY <3>2, DomainAssumption DEF Row, ThreadState
  <2>4. \/ thread[t].balance = 0
        \/ \E m \in EntriesOfUser(Owner(i)) : ledger[m].balance = thread[t].balance
    BY <1>3 DEF BalanceRead, LedgerInsert
  <2>5. \/ ledger'[n].balance = ledger'[n].amount
        \/ \E m \in DOMAIN ledger' :
             /\ ledger'[m].user = ledger'[n].user /\ m < n
             /\ ledger'[n].balance = ledger'[m].balance + ledger'[n].amount
    <3>1. e.amount = payouts[i].amount /\ e.balance = thread[t].balance + e.amount
          /\ e.user = Owner(i)
      OBVIOUS
    <3> HIDE DEF e
    <3>2. QED
      BY <2>2, <2>3, <2>4, <3>1 DEF EntriesOfUser
  <2>6. QED
    BY <1>1, <2>2, <2>5 DEF BalanceExtends, EntriesOfUser
<1>4. QED
  BY <1>2, <1>3, LedgerSteps

\* Payouts of one worker that complete together may lose an amount, but no balance is
\* made up: each is its amount on top of an earlier one of the same worker.
THEOREM BalancesExtend == Spec => []BalanceExtends
<1>1. Init => BalanceRead /\ BalanceExtends
  BY DEF Init, BalanceRead, BalanceExtends, At, Idle
<1>2. IInv /\ BalanceRead /\ BalanceExtends /\ [Next]_vars => BalanceRead' /\ BalanceExtends'
  BY NextBalanceRead, NextBalance
<1>3. QED
  BY <1>1, <1>2, Inductive, PTL DEF Spec

-----------------------------------------------------------------------------
(* Completeness.                                                           *)

\* A thread that announces a completed payout has left it in the ledger.
Announcing ==
  \A t \in Threads : At(t, "announce_completed") => EntriesOfTx(thread[t].tx) # {}

\* Entries stay with their payouts.
LEMMA EntriesStay ==
  ASSUME Extended, NEW i, EntriesOfTx(i) # {} PROVE EntriesOfTx(i)' # {}
BY DEF Extended, EntriesOfTx

\* Every step keeps that.
LEMMA NextAnnouncing == ASSUME IInv, Announcing, [Next]_vars PROVE Announcing'
<1>0. TypeOK /\ OwnershipInv /\ Extended
  BY LedgerExtended DEF IInv
<1> SUFFICES ASSUME NEW u \in Threads, thread'[u].pc = "announce_completed"
             PROVE  \E n \in DOMAIN ledger' : ledger'[n].tx = thread'[u].tx
  BY DEF Announcing, At, EntriesOfTx
<1>1. CASE thread'[u] = thread[u]
  <2>1. EntriesOfTx(thread[u].tx) # {}
    BY <1>1 DEF Announcing, At
  <2>2. QED
    BY <1>0, <1>1, <2>1 DEF EntriesOfTx, Extended
<1>2. CASE thread'[u] # thread[u]
  <2>1. \A x : Go(u, x) => thread'[u].pc = x /\ thread'[u].tx = thread[u].tx
    BY <1>0 DEF Go, TypeOK, ThreadState
  <2>2. CASE LedgerCheck(u)
    <3>1. EntriesOfTx(thread[u].tx) # {} /\ Go(u, "announce_completed")
      BY <2>1, <2>2 DEF LedgerCheck
    <3>2. QED
      BY <1>0, <2>1, <3>1 DEF EntriesOfTx, Extended
  <2>3. CASE LedgerInsert(u)
    <3> DEFINE e == [tx |-> thread[u].tx, user |-> Owner(thread[u].tx),
                     amount |-> payouts[thread[u].tx].amount,
                     balance |-> thread[u].balance + payouts[thread[u].tx].amount]
    <3>1. \A x : Answer(u, x) => thread'[u].pc = "reply"
      BY <1>0 DEF Answer, TypeOK, ThreadState
    <3>2. ledger' = Append(ledger, e) /\ Go(u, "announce_completed")
      BY <2>3, <3>1 DEF LedgerInsert
    <3>3. e.tx = thread[u].tx /\ ledger \in Seq(Entry)
      BY <1>0 DEF TypeOK
    <3> HIDE DEF e
    <3>4. Len(ledger) + 1 \in DOMAIN ledger' /\ ledger'[Len(ledger) + 1] = e
      BY <3>2, <3>3
    <3>5. QED
      BY <2>1, <3>2, <3>3, <3>4 DEF EntriesOfTx
  <2>4. QED
    BY <1>2, <2>2, <2>3, StaysOrMoves, Arrivals
<1>3. QED
  BY <1>1, <1>2

\* Only SaveCompleted completes a payout, and it is its thread's next business to
\* credit it.
LEMMA Completions ==
  ASSUME IInv, [Next]_vars, NEW i \in DOMAIN payouts', payouts'[i].status = "completed",
         ~ (i \in DOMAIN payouts /\ payouts[i].status = "completed")
  PROVE  \E t \in Threads : thread'[t].tx = i /\ thread'[t].pc = "ledger_check"
<1>0. TypeOK
  BY DEF IInv
<1>1. payouts \in Seq(Row)
  BY <1>0 DEF TypeOK
<1>2. PICK t \in Threads : Insert(t) \/ SaveCompleted(t) \/ SaveFailed(t)
  BY DEF Next, vars, PublishApproved, Receive, ReceiveProcess, Deliver, RetryFailed, Step,
         LookupKey, LookupClaim, Raced, Gateway, AnnounceFailed, LedgerCheck, LedgerBalance,
         LedgerInsert, AnnounceCompleted, Return, Conclude, Ack, Crash, DatabaseError, tables
<1>3. ~ UNCHANGED payouts
  OBVIOUS
<1>4. CASE Insert(t)
  <2> DEFINE row == [claim |-> thread[t].claim, key |-> thread[t].key,
                     amount |-> thread[t].amount, status |-> "pending"]
  <2>1. payouts' = Append(payouts, row) /\ row.status = "pending"
    BY <1>3, <1>4 DEF Insert
  <2> HIDE DEF row
  <2>2. \A j \in DOMAIN payouts' :
          (j \in DOMAIN payouts /\ payouts'[j] = payouts[j]) \/ payouts'[j] = row
    BY <1>1, <2>1
  <2>3. QED
    BY <2>1, <2>2
<1>5. CASE SaveFailed(t)
  <2>1. Write(thread[t].tx, "failed")
    BY <1>3, <1>5 DEF SaveFailed
  <2>2. i \in DOMAIN payouts
    BY <2>1 DEF Write
  <2>3. payouts[i] \in Row
    BY <1>1, <2>2
  <2>4. payouts' = [payouts EXCEPT ![thread[t].tx].status = "failed"]
    BY <2>1 DEF Write
  <2>5. payouts'[i].status = "failed" \/ payouts'[i] = payouts[i]
    BY <1>1, <2>2, <2>3, <2>4 DEF Row
  <2>6. QED
    BY <2>2, <2>5
<1>6. CASE SaveCompleted(t)
  <2>1. Write(thread[t].tx, "completed") /\ Go(t, "ledger_check")
    BY <1>6 DEF SaveCompleted
  <2>2. i \in DOMAIN payouts
    BY <2>1 DEF Write
  <2>3. i = thread[t].tx
    BY <1>1, <2>1, <2>2, WriteType DEF PayoutStatus
  <2>4. thread'[t].pc = "ledger_check" /\ thread'[t].tx = thread[t].tx
    BY <1>0, <2>1 DEF Go, TypeOK, ThreadState
  <2>5. QED
    BY <2>3, <2>4
<1>7. QED
  BY <1>2, <1>4, <1>5, <1>6

\* A thread on its way to the ledger stays on it, or its payout is there.
LEMMA CreditGoesOn ==
  ASSUME IInv, Announcing, NEW t \in Threads, thread[t].pc \in Crediting,
         Receive(t) \/ Step(t)
  PROVE  \/ thread'[t].pc \in Crediting /\ thread'[t].tx = thread[t].tx
         \/ EntriesOfTx(thread[t].tx) # {}
<1>0. TypeOK
  BY DEF IInv
<1>1. \A x : Go(t, x) => thread'[t].pc = x /\ thread'[t].tx = thread[t].tx
  BY <1>0 DEF Go, TypeOK, ThreadState
<1>2. LedgerCheck(t) \/ LedgerBalance(t) \/ LedgerInsert(t) \/ AnnounceCompleted(t)
  BY DEF Receive, ReceiveProcess, Deliver, RetryFailed, Step, LookupKey, LookupClaim, Insert,
         Raced, Gateway, SaveCompleted, SaveFailed, AnnounceFailed, Return, Conclude, Ack, At,
         Crediting
<1>3. CASE LedgerCheck(t)
  BY <1>1, <1>3 DEF LedgerCheck, Crediting
<1>4. CASE LedgerBalance(t)
  <2>1. PICK b : thread' = [thread EXCEPT ![t] =
                   [thread[t] EXCEPT !.pc = "ledger_insert", !.balance = b]]
    BY <1>4 DEF LedgerBalance
  <2>2. thread'[t].pc = "ledger_insert" /\ thread'[t].tx = thread[t].tx
    BY <1>0, <2>1 DEF TypeOK, ThreadState
  <2>3. QED
    BY <2>2 DEF Crediting
<1>5. CASE LedgerInsert(t)
  BY <1>1, <1>5 DEF LedgerInsert, Crediting
<1>6. CASE AnnounceCompleted(t)
  BY <1>6 DEF AnnounceCompleted, Announcing
<1>7. QED
  BY <1>2, <1>3, <1>4, <1>5, <1>6

\* Every step without a fault keeps the completed payouts credited or on their way.
LEMMA NextAudit ==
  ASSUME IInv, Announcing, AuditComplete, [Next]_vars PROVE AuditComplete'
<1>0. TypeOK /\ Extended
  BY LedgerExtended DEF IInv
<1> SUFFICES ASSUME faults' = 0, NEW i \in DOMAIN payouts', payouts'[i].status = "completed"
             PROVE  \/ EntriesOfTx(i)' # {}
                    \/ \E t \in Threads : thread'[t].tx = i /\ thread'[t].pc \in Crediting
  BY DEF AuditComplete
<1>1. /\ faults = 0
      /\ \A t \in Threads : ~ Crash(t) /\ ~ DatabaseError(t)
  <2>1. faults \in Nat
    BY <1>0 DEF TypeOK
  <2>2. \A t \in Threads : ~ Crash(t) /\ ~ DatabaseError(t)
    BY <2>1 DEF Crash, DatabaseError
  <2>3. faults' = faults
    BY <2>2
    DEF Next, vars, PublishApproved, Receive, ReceiveProcess, Deliver, RetryFailed, Step,
        LookupKey, LookupClaim, Insert, Raced, Gateway, SaveCompleted, SaveFailed,
        AnnounceFailed, LedgerCheck, LedgerBalance, LedgerInsert, AnnounceCompleted, Return,
        Conclude, Ack, history
  <2>4. QED
    BY <2>2, <2>3
<1>2. CASE i \in DOMAIN payouts /\ payouts[i].status = "completed"
  <2>1. CASE EntriesOfTx(i) # {}
    BY <1>0, <2>1, EntriesStay
  <2>2. CASE \E t \in Threads : thread[t].tx = i /\ thread[t].pc \in Crediting
    <3>1. PICK t \in Threads : thread[t].tx = i /\ thread[t].pc \in Crediting
      BY <2>2
    <3>2. CASE thread'[t] = thread[t]
      BY <3>1, <3>2
    <3>3. CASE thread'[t] # thread[t]
      <4>1. Receive(t) \/ Step(t)
        BY <1>1, <3>3, StaysOrMoves
      <4>2. \/ thread'[t].pc \in Crediting /\ thread'[t].tx = thread[t].tx
            \/ EntriesOfTx(thread[t].tx) # {}
        BY <3>1, <4>1, CreditGoesOn
      <4>3. QED
        BY <1>0, <3>1, <4>2, EntriesStay
    <3>4. QED
      BY <3>2, <3>3
  <2>3. QED
    BY <1>1, <1>2, <2>1, <2>2 DEF AuditComplete
<1>3. CASE ~ (i \in DOMAIN payouts /\ payouts[i].status = "completed")
  <2>1. PICK t \in Threads : thread'[t].tx = i /\ thread'[t].pc = "ledger_check"
    BY <1>3, Completions
  <2>2. QED
    BY <2>1 DEF Crediting
<1>4. QED
  BY <1>2, <1>3

\* As long as no thread dies and no statement fails, a completed payout is in the ledger
\* or a thread is on its way to put it there.
THEOREM LedgerIsComplete == Spec => []AuditComplete
<1>1. Init => Announcing /\ AuditComplete
  BY DEF Init, Announcing, AuditComplete, At, Idle
<1>2. IInv /\ Announcing /\ AuditComplete /\ [Next]_vars => Announcing' /\ AuditComplete'
  BY NextAnnouncing, NextAudit
<1>3. QED
  BY <1>1, <1>2, Inductive, PTL DEF Spec

-----------------------------------------------------------------------------
(* The refinement: initial states map to initial states, and every step    *)
(* maps to a step of the book or leaves the book alone.                    *)

\* As claims have at most one row, the book's state of a claim is its status.
LEMMA BookOfRow ==
  ASSUME UniquePayouts, NEW i \in DOMAIN payouts
  PROVE  BookOf(payouts[i].claim) = payouts[i].status
<1> DEFINE c == payouts[i].claim
<1>1. RowsByClaim(c) = {i}
  BY DEF UniquePayouts, RowsByClaim
<1>2. (CHOOSE j \in RowsByClaim(c) : TRUE) = i
  BY <1>1
<1>3. QED
  BY <1>1, <1>2 DEF BookOf

(* An empty table is an empty book. *)
LEMMA BookOfNone ==
  ASSUME NEW c, RowsByClaim(c) = {} PROVE BookOf(c) = "none"
BY DEF BookOf

\* A claim whose row and rows' claims stay the same keeps its state.
LEMMA SameBook ==
  ASSUME UniquePayouts, UniquePayouts', NEW c,
         (RowsByClaim(c))' = RowsByClaim(c),
         \A i \in RowsByClaim(c) : payouts'[i].status = payouts[i].status
  PROVE  (BookOf(c))' = BookOf(c)
BY DEF BookOf

-----------------------------------------------------------------------------
(* The first state of the service is a first state of the book. *)
LEMMA BookInitHolds == Init => Book!BookInit
<1> SUFFICES ASSUME Init PROVE Book!BookInit
  OBVIOUS
<1>1. \A c \in Claims : BookOf(c) = "none"
  <2>1. DOMAIN payouts = {}
    BY DEF Init
  <2>2. \A c \in Claims : RowsByClaim(c) = {}
    BY <2>1 DEF RowsByClaim
  <2>3. QED
    BY <2>2 DEF BookOf
<1>2. CreditedClaims = {}
  BY DEF Init, CreditedClaims
<1>3. QED
  BY <1>1, <1>2 DEF Init, Book!BookInit

\* Rows appended: the claim's payout is opened.
LEMMA AppendOpens ==
  ASSUME TypeOK, UniquePayouts, UniquePayouts', LedgerSound, RowAppended,
         UNCHANGED <<ledger, money>>
  PROVE  Book!BookNext
<1>1. PICK row \in Row :
        /\ row.status = "pending" /\ RowsByClaim(row.claim) = {}
        /\ payouts' = Append(payouts, row)
  BY DEF RowAppended
<1> DEFINE c == row.claim
           n == Len(payouts) + 1
<1>2. c \in Claims
  BY DEF Row
<1>3. /\ DOMAIN payouts' = DOMAIN payouts \cup {n} /\ payouts'[n] = row
      /\ n \notin DOMAIN payouts
      /\ \A i \in DOMAIN payouts : payouts'[i] = payouts[i]
  BY <1>1 DEF TypeOK
<1>4. BookOf(c) = "none"
  BY <1>1, BookOfNone
<1>5. (BookOf(c))' = "pending"
  <2>1. (RowsByClaim(c))' = {n}
    BY <1>1, <1>3 DEF RowsByClaim
  <2>2. (CHOOSE i \in (RowsByClaim(c))' : TRUE) = n
    BY <2>1
  <2>3. QED
    BY <1>1, <1>3, <2>1, <2>2 DEF BookOf
<1>6. ASSUME NEW d \in Claims, d # c PROVE (BookOf(d))' = BookOf(d)
  <2>1. (RowsByClaim(d))' = RowsByClaim(d)
    BY <1>3, <1>6 DEF RowsByClaim
  <2>2. \A i \in RowsByClaim(d) : payouts'[i].status = payouts[i].status
    BY <1>3 DEF RowsByClaim
  <2>3. QED
    BY <2>1, <2>2, SameBook
<1>7. CreditedClaims' = CreditedClaims
  BY <1>3 DEF CreditedClaims, LedgerSound
<1>8. Book!Open(c)
  BY <1>2, <1>4, <1>5, <1>6, <1>7 DEF Book!Open, money
<1>9. QED
  BY <1>2, <1>8 DEF Book!BookNext

\* A verdict written: the payout completes or fails, or was complete already.
LEMMA VerdictCompletes ==
  ASSUME TypeOK, ChargedOnce, UniquePayouts, UniquePayouts', LedgerSound,
         NEW i, NEW s, VerdictWritten(i, s), UNCHANGED <<ledger, money>>
  PROVE  [Book!BookNext]_(Book!bookVars)
<1>1. /\ i \in DOMAIN payouts /\ s \in PayoutStatus /\ Write(i, s)
      /\ payouts \in Seq(Row)
  BY DEF VerdictWritten, PayoutStatus, TypeOK
<1>2. /\ DOMAIN payouts' = DOMAIN payouts
      /\ payouts'[i] = [payouts[i] EXCEPT !.status = s]
      /\ \A j \in DOMAIN payouts : j # i => payouts'[j] = payouts[j]
  <2>1. DOMAIN payouts' = DOMAIN payouts
    BY <1>1 DEF Write
  <2>2. QED
    BY <1>1, <2>1, WriteType
<1>3. payouts[i] \in Row
  BY <1>1, RowTypes
<1>c. PICK c \in Claims : c = payouts[i].claim
  BY <1>3 DEF Row
<1>4. payouts'[i].status = s /\ payouts'[i].claim = c
  BY <1>2, <1>3, <1>c, RowFacts
<1>5. /\ BookOf(c) = payouts[i].status
      /\ (BookOf(c))' = s
  <2>1. RowsByClaim(c) = {i} /\ (RowsByClaim(c))' = {i}
    BY <1>1, <1>2, <1>4, <1>c DEF UniquePayouts, RowsByClaim
  <2>2. (CHOOSE j \in {i} : TRUE) = i
    OBVIOUS
  <2>3. QED
    BY <1>4, <1>c, <2>1, <2>2 DEF BookOf
<1>6. ASSUME NEW d \in Claims, d # c PROVE (BookOf(d))' = BookOf(d)
  <2>1. (RowsByClaim(d))' = RowsByClaim(d)
    BY <1>2, <1>4, <1>6, <1>c DEF RowsByClaim
  <2>2. \A j \in RowsByClaim(d) : payouts'[j].status = payouts[j].status
    BY <1>2, <1>6, <1>c DEF RowsByClaim
  <2>3. QED
    BY <2>1, <2>2, SameBook
<1>7. CreditedClaims' = CreditedClaims
  <2>1. \A j \in DOMAIN payouts : payouts'[j].claim = payouts[j].claim
    BY <1>2, <1>4, <1>c
  <2>2. ledger' = ledger /\ \A n \in DOMAIN ledger : ledger[n].tx \in DOMAIN payouts
    BY DEF LedgerSound
  <2>3. QED
    BY <2>1, <2>2 DEF CreditedClaims
<1>a. [d \in Claims |-> BookOf(d)]' = [[d \in Claims |-> BookOf(d)] EXCEPT ![c] = s]
  <2>1. \A d \in Claims : (BookOf(d))' = IF d = c THEN s ELSE BookOf(d)
    BY <1>5, <1>6
  <2>2. QED
    BY <1>3, <2>1
<1>b. UNCHANGED <<charged, recharged>>
  BY DEF money
<1>8. CASE s = "completed" /\ payouts[i].status = "pending"
  <2>1. charged[c] = 1
    <3>1. charged[c] \in Nat
      BY <1>3 DEF TypeOK
    <3>2. charged[c] > 0 /\ charged[c] <= 1
      BY <1>c, <1>8 DEF VerdictWritten, ChargedOnce
    <3>3. QED
      BY <3>1, <3>2
  <2>2. Book!Complete(c)
    BY <1>3, <1>5, <1>7, <1>8, <1>a, <1>b, <2>1 DEF Book!Complete
  <2>3. QED
    BY <1>3, <2>2 DEF Book!BookNext
<1>9. CASE s = "completed" /\ payouts[i].status = "failed"
  <2>1. recharged[c] > 0
    BY <1>9, <1>c DEF VerdictWritten
  <2>2. Book!Complete(c)
    BY <1>3, <1>5, <1>7, <1>9, <1>a, <1>b, <2>1 DEF Book!Complete
  <2>3. QED
    BY <1>3, <2>2 DEF Book!BookNext
<1>10. CASE s = "completed" /\ payouts[i].status = "completed"
  <2>1. [d \in Claims |-> BookOf(d)]' = [d \in Claims |-> BookOf(d)]
    BY <1>3, <1>5, <1>10, <1>a
  <2>2. QED
    BY <1>7, <1>b, <2>1 DEF Book!bookVars
<1>11. CASE s = "failed"
  <2>1. charged[c] = 0 /\ payouts[i].status = "pending"
    BY <1>11, <1>c DEF VerdictWritten
  <2>2. Book!Fail(c)
    BY <1>3, <1>5, <1>7, <1>11, <1>a, <1>b, <2>1 DEF Book!Fail
  <2>3. QED
    BY <1>3, <2>2 DEF Book!BookNext
<1>12. QED
  BY <1>8, <1>9, <1>10, <1>11 DEF VerdictWritten

\* A ledger entry appended: the claim is credited, for the first time.
LEMMA EntryCredits ==
  ASSUME TypeOK, UniquePayouts, LedgerSound, NEW i, NEW b, Credited(i, b),
         UNCHANGED <<payouts, money>>
  PROVE  Book!BookNext
<1> DEFINE c == payouts[i].claim
           e == [tx |-> i, user |-> Owner(i), amount |-> payouts[i].amount,
                 balance |-> b]
           m == Len(ledger) + 1
<1>1. /\ i \in DOMAIN payouts /\ payouts[i].status = "completed"
      /\ \A n \in DOMAIN ledger : ledger[n].tx # i
      /\ ledger' = Append(ledger, e)
  BY DEF Credited, EntriesOfTx
<1>2. c \in Claims
  BY <1>1, RowTypes DEF Row
<1>3. BookOf(c) = "completed"
  BY <1>1, BookOfRow
<1>4. c \notin CreditedClaims
  BY <1>1 DEF CreditedClaims, LedgerSound, UniquePayouts
<1>5. /\ DOMAIN ledger' = DOMAIN ledger \cup {m} /\ ledger'[m] = e
      /\ \A n \in DOMAIN ledger : ledger'[n] = ledger[n]
  BY <1>1 DEF TypeOK
<1>6. CreditedClaims' = CreditedClaims \cup {c}
  <2>1. e.tx = i
    OBVIOUS
  <2> HIDE DEF e, m
  <2>2. QED
    BY <1>5, <2>1 DEF CreditedClaims
<1>7. \A d \in Claims : (BookOf(d))' = BookOf(d)
  BY DEF BookOf, RowsByClaim
<1>8. Book!Credit(c)
  BY <1>2, <1>3, <1>4, <1>6, <1>7 DEF Book!Credit, money
<1>9. QED
  BY <1>2, <1>8 DEF Book!BookNext

\* A gateway success: the claim is charged, or charged again.
LEMMA GatewayCharges ==
  ASSUME TypeOK, UniquePayouts, NEW i, NEW c, MoneyMoved(i, c), UNCHANGED tables
  PROVE  Book!BookNext
<1>1. i \in DOMAIN payouts /\ c = payouts[i].claim
  BY DEF MoneyMoved
<1>2. c \in Claims
  BY <1>1, RowTypes DEF Row
<1>3. BookOf(c) = payouts[i].status
  BY <1>1, BookOfRow
<1>4. (\A d \in Claims : (BookOf(d))' = BookOf(d)) /\ CreditedClaims' = CreditedClaims
  BY DEF BookOf, RowsByClaim, CreditedClaims, tables
<1>5. CASE /\ payouts[i].status = "pending" /\ charged[c] = 0
           /\ charged' = [charged EXCEPT ![c] = @ + 1] /\ UNCHANGED recharged
  <2>1. charged' = [charged EXCEPT ![c] = 1]
    BY <1>5
  <2>2. Book!Charge(c)
    BY <1>2, <1>3, <1>4, <1>5, <2>1 DEF Book!Charge
  <2>3. QED
    BY <1>2, <2>2 DEF Book!BookNext
<1>6. CASE /\ payouts[i].status \in {"failed", "completed"}
           /\ recharged' = [recharged EXCEPT ![c] = @ + 1] /\ UNCHANGED charged
  <2>1. Book!ChargeAgain(c)
    BY <1>2, <1>3, <1>4, <1>6 DEF Book!ChargeAgain
  <2>2. QED
    BY <1>2, <2>1 DEF Book!BookNext
<1>7. QED
  BY <1>5, <1>6 DEF MoneyMoved

-----------------------------------------------------------------------------
\* The service implements the book: whatever the threads, keys, messages and
\* crashes, per claim there is one payout, charged once by its first attempt,
\* completed after a charge and for ever, and credited at most once.
THEOREM Refinement == Spec => ImplementsBook
<1>1. Init => Book!BookInit
  BY BookInitHolds
<1>2. ASSUME IInv, IInv', LedgerSound, [Next]_vars
      PROVE  [Book!BookNext]_(Book!bookVars)
  <2>1. TypeOK /\ UniquePayouts /\ UniquePayouts' /\ ChargedOnce
    BY <1>2 DEF IInv
  <2>2. CASE UNCHANGED <<tables, money>>
    BY <2>2 DEF tables, money, Book!bookVars, BookOf, RowsByClaim, CreditedClaims
  <2>3. CASE RowAppended /\ UNCHANGED <<ledger, money>>
    BY <1>2, <2>1, <2>3, AppendOpens
  <2>4. CASE (\E i, s : VerdictWritten(i, s)) /\ UNCHANGED <<ledger, money>>
    BY <1>2, <2>1, <2>4, VerdictCompletes
  <2>5. CASE (\E i, b : Credited(i, b)) /\ UNCHANGED <<payouts, money>>
    BY <1>2, <2>1, <2>5, EntryCredits
  <2>6. CASE (\E i, c : MoneyMoved(i, c)) /\ UNCHANGED tables
    BY <1>2, <2>1, <2>6, GatewayCharges
  <2>7. QED
    BY <1>2, <2>2, <2>3, <2>4, <2>5, <2>6, TableSteps
<1>3. QED
  BY <1>1, <1>2, Inductive, LedgerIsSound, PTL
  DEF Spec, ImplementsBook, Book!BookSpec
=============================================================================
