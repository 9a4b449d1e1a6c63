-------------------------- MODULE ConsumersProofs ---------------------------
(***************************************************************************)
(* Proofs about what messages that come again do to those who consume      *)
(* them: to the log of the fraud service and what is reported from it, for *)
(* any claims, users, threads, activity reports, retry limit and number of *)
(* requests and faults; and to the analytics service, the notification     *)
(* service and the payout queue on one exchange, for any events, queues,   *)
(* bindings, retry limit and number of failures: each failure puts one     *)
(* more copy of an event on the way, and what is counted, told and buried  *)
(* is bounded by that.                                                     *)
(***************************************************************************)
EXTENDS Fraud, Events, Sums, FiniteSetTheorems, TLAPS

-----------------------------------------------------------------------------
(* The fraud service.                                                      *)

CheckPoints == {"idle", "count", "recent", "log", "audit", "publish", "failed", "done"}
Sources == {"api", "event", "override"}
Verdicts == {"PASS", "FAIL"}

CheckState ==
  [pc : CheckPoints, source : Sources, claim : FraudClaims, evidence : Nat, signals : Nat,
   share : 0 .. 25, count : Nat, status : Verdicts, row : Nat, retries : 0 .. FraudRetries]

LogRow == [claim : FraudClaims, status : Verdicts, source : Sources, evidence : Nat,
           share : 0 .. 25]

\* Claim c has a row.
Seen(table, c) == \E j \in DOMAIN table : table[j].claim = c

\* What a thread in state s knows of the table it works on and of the audit entries: a
\* claim it counted checks of has one, a consumer adds nothing to a score but history
\* and the share of the scorer and fails a claim only on both, a thread that is to
\* audit or to announce a row has written it with the verdict it still holds, and it
\* announces only a failure that it has audited.
Sound(s, table, audited) ==
  /\ s.row \in 0 .. Len(table)
  /\ s.count # 0 => Seen(table, s.claim)
  /\ s.pc = "count" => s.status = "PASS"
  /\ s.source = "event" => s.evidence = 0 /\ s.signals = 0
  /\ s.source = "event" /\ s.status = "FAIL" => s.share > QuietShare /\ s.count # 0
  /\ s.pc \in {"audit", "publish"} =>
       s.row \in DOMAIN table /\ table[s.row].status = s.status
  /\ s.pc = "publish" => s.status = "FAIL" /\ s.row \in audited

Tables ==
  /\ logs \in Seq(LogRow)
  /\ audits \subseteq DOMAIN logs /\ detected \subseteq DOMAIN logs
  /\ abandoned \subseteq DOMAIN logs

ThreadsSound ==
  /\ check \in [FraudThreads -> CheckState]
  /\ \A t \in FraudThreads : Sound(check[t], logs, audits)

Messages == queued \in [CheckMessage -> Nat] /\ deadChecks \subseteq FraudClaims

FraudInv == Tables /\ ThreadsSound /\ Messages /\ EventsFailOnlyAgain /\ FailsAreReported

\* The row that a thread in state s is still to report.
OwedBy(s) == IF s.pc \in {"audit", "publish"} THEN {s.row} ELSE {}

\* Rows keep their place and their contents.
Kept(table, other) ==
  \A i \in DOMAIN table : i \in DOMAIN other /\ other[i] = table[i]

-----------------------------------------------------------------------------
(* Scores.                                                                 *)

\* A thread at rest knows nothing.
LEMMA RestingCheck ==
  /\ NoCheck \in CheckState /\ NoCheck.pc = "idle"
  /\ \A table \in Seq(LogRow) : \A audited : Sound(NoCheck, table, audited)
<1>1. (CHOOSE c \in FraudClaims : TRUE) \in FraudClaims
  BY FraudInputAssumption
<1>2. /\ NoCheck \in CheckState /\ NoCheck.pc = "idle" /\ NoCheck.row = 0
      /\ NoCheck.source = "api" /\ NoCheck.count = 0
  BY <1>1, FraudValueAssumption
  DEF NoCheck, CheckState, CheckPoints, Sources, Verdicts
<1>3. \A table \in Seq(LogRow) : Len(table) \in Nat
  OBVIOUS
<1>4. QED
  BY <1>2, <1>3 DEF Sound

\* What a report adds to a score is a number, and the report of an event adds nothing.
LEMMA EvidenceIs ==
  /\ \A p \in Profiles : Evidence(p) \in Nat
  /\ Evidence(EventProfile) = 0
<1>1. ASSUME NEW p \in Profiles PROVE Evidence(p) \in Nat
  <2>1. p.activity \in 0 .. 100
    BY FraudInputAssumption
  <2>2. EventPenalty(p) \in Nat
    BY DEF EventPenalty, AtMost, If
  <2>3. If(p.activity < 50, 50 - p.activity) \in Nat
    BY <2>1 DEF If
  <2>4. If(~ p.gps, 60) \in Nat /\ If(~ p.device, 20) \in Nat
    BY DEF If
  <2>5. QED
    BY <2>2, <2>3, <2>4 DEF Evidence
<1>2. Evidence(EventProfile) = 0
  BY DEF Evidence, EventPenalty, AtMost, If, EventProfile
<1>3. QED
  BY <1>1, <1>2

\* Two signals at most add ten hundredths each.
LEMMA SignalsAdd ==
  ASSUME NEW signals \in Signals
  PROVE  Cardinality(signals) \in 0 .. 2
<1>1. signals \subseteq {"zone", "risk"}
  BY FraudValueAssumption
<1>2. IsFiniteSet({"zone"}) /\ Cardinality({"zone"}) = 1
  BY FS_Singleton
<1>3. {"zone"} \cup {"risk"} = {"zone", "risk"}
  OBVIOUS
<1>4. IsFiniteSet({"zone", "risk"}) /\ Cardinality({"zone", "risk"}) <= 2
  <2>1. /\ IsFiniteSet({"zone"} \cup {"risk"})
        /\ Cardinality({"zone"} \cup {"risk"}) =
             IF "risk" \in {"zone"} THEN Cardinality({"zone"}) ELSE Cardinality({"zone"}) + 1
    BY <1>2, FS_AddElement
  <2>2. QED
    BY <2>1, <1>2, <1>3
<1>5. IsFiniteSet(signals) /\ Cardinality(signals) <= Cardinality({"zone", "risk"})
  BY <1>1, <1>4, FS_Subset
<1>6. Cardinality(signals) \in Nat /\ Cardinality({"zone", "risk"}) \in Nat
  BY <1>4, <1>5, FS_CardinalityType
<1>7. QED
  BY <1>4, <1>5, <1>6

\* The number of a claim's checks is counted up to the limit that matters.
LEMMA CountIs ==
  ASSUME Tables, NEW c
  PROVE  LET n == AtMost(MaxDuplicateClaims, Cardinality(RowsOfClaim(c))) IN
         n \in Nat /\ (n # 0 => Seen(logs, c))
<1>1. DOMAIN logs = 1 .. Len(logs) /\ Len(logs) \in Nat
  BY DEF Tables
<1>2. IsFiniteSet(DOMAIN logs)
  BY <1>1, FS_Interval
<1>3. IsFiniteSet(RowsOfClaim(c))
  BY <1>2, FS_Subset DEF RowsOfClaim
<1>4. Cardinality(RowsOfClaim(c)) # 0 => Seen(logs, c)
  BY <1>3, FS_EmptySet DEF RowsOfClaim, Seen
<1>5. Cardinality(RowsOfClaim(c)) \in Nat
  BY <1>3, FS_CardinalityType
<1>6. QED
  BY <1>4, <1>5 DEF AtMost, MaxDuplicateClaims

-----------------------------------------------------------------------------
(* Steps.                                                                  *)

\* A thread's new state leaves what the other threads know in place, as rows are kept
\* and audit entries are only added.
LEMMA ThreadMoves ==
  ASSUME FraudInv, NEW t \in FraudThreads, NEW s \in CheckState, Now(t, s),
         logs' \in Seq(LogRow), Kept(logs, logs'), Len(logs) <= Len(logs'),
         audits \subseteq audits', Sound(s, logs', audits')
  PROVE  ThreadsSound'
<1>1. check' \in [FraudThreads -> CheckState]
  BY DEF FraudInv, ThreadsSound, Now
<1>2. ASSUME NEW u \in FraudThreads PROVE Sound(check'[u], logs', audits')
  <2>1. CASE u = t
    BY <2>1 DEF FraudInv, ThreadsSound, Now
  <2>2. CASE u # t
    <3>1. check'[u] = check[u] /\ Sound(check[u], logs, audits)
      BY <2>2 DEF FraudInv, ThreadsSound, Now
    <3>2. Len(logs) \in Nat /\ Len(logs') \in Nat
      BY DEF FraudInv, Tables
    <3>3. check[u].row \in 0 .. Len(logs')
      BY <3>1, <3>2 DEF Sound
    <3>4. check[u].pc \in {"audit", "publish"} =>
            check[u].row \in DOMAIN logs' /\ logs'[check[u].row].status = check[u].status
      BY <3>1 DEF Sound, Kept
    <3>5. check[u].count # 0 => Seen(logs', check[u].claim)
      BY <3>1 DEF Sound, Kept, Seen
    <3>6. QED
      BY <3>1, <3>3, <3>4, <3>5 DEF Sound
  <2>3. QED
    BY <2>1, <2>2
<1>3. QED
  BY <1>1, <1>2 DEF ThreadsSound

\* A step that writes no row keeps the invariant if what its thread owed is still owed,
\* was announced or is known to be lost.
LEMMA MoveKeeps ==
  ASSUME FraudInv, NEW t \in FraudThreads, NEW s \in CheckState, Now(t, s),
         logs' = logs, Sound(s, logs, audits'), Messages',
         audits \subseteq audits', audits' \subseteq DOMAIN logs,
         detected \subseteq detected', detected' \subseteq audits',
         \A i \in detected' : logs[i].status = "FAIL",
         abandoned \subseteq abandoned', abandoned' \subseteq DOMAIN logs,
         \A i \in Owed(t) : logs[i].status = "FAIL" =>
           i \in OwedBy(s) \/ i \in detected' \/ i \in abandoned'
  PROVE  FraudInv'
<1>1. Tables'
  BY DEF FraudInv, Tables
<1>2. ThreadsSound'
  <2>1. logs \in Seq(LogRow) /\ Len(logs) \in Nat
    BY DEF FraudInv, Tables
  <2>2. Kept(logs, logs') /\ Len(logs) <= Len(logs')
    BY <2>1 DEF Kept
  <2>3. QED
    BY <2>1, <2>2, ThreadMoves
<1>3. EventsFailOnlyAgain'
  BY DEF FraudInv, EventsFailOnlyAgain
<1>4. FailsAreReported'
  <2>1. ASSUME NEW i \in DOMAIN logs, logs[i].status = "FAIL"
        PROVE  \/ i \in detected' \/ i \in abandoned'
               \/ \E u \in FraudThreads : i \in Owed(u)'
    <3>1. CASE i \in detected \/ i \in abandoned
      BY <3>1
    <3>2. CASE \E u \in FraudThreads : i \in Owed(u)
      <4>1. PICK u \in FraudThreads : i \in Owed(u)
        BY <3>2
      <4>2. check' = [check EXCEPT ![t] = s] /\ check \in [FraudThreads -> CheckState]
        BY DEF Now, FraudInv, ThreadsSound
      <4>3. CASE u = t
        <5>1. Owed(t)' = OwedBy(s)
          BY <4>2 DEF Owed, OwedBy
        <5>2. QED
          BY <4>1, <4>3, <5>1, <2>1
      <4>4. CASE u # t
        <5>1. Owed(u)' = Owed(u)
          BY <4>2, <4>4 DEF Owed
        <5>2. QED
          BY <4>1, <5>1
      <4>5. QED
        BY <4>3, <4>4
    <3>3. QED
      BY <3>1, <3>2, <2>1 DEF FraudInv, FailsAreReported
  <2>2. QED
    BY <2>1 DEF FailsAreReported
<1>5. QED
  BY <1>1, <1>2, <1>3, <1>4 DEF FraudInv

\* In particular a step that changes no table and begins with a thread that owes nothing.
LEMMA QuietMove ==
  ASSUME FraudInv, NEW t \in FraudThreads, NEW s \in CheckState, Now(t, s),
         logs' = logs, audits' = audits, detected' = detected, abandoned' = abandoned,
         check[t].pc \notin {"audit", "publish"}, Sound(s, logs, audits), Messages'
  PROVE  FraudInv'
<1>1. Owed(t) = {}
  BY DEF Owed
<1>2. /\ detected \subseteq audits /\ audits \subseteq DOMAIN logs
      /\ abandoned \subseteq DOMAIN logs /\ \A i \in detected : logs[i].status = "FAIL"
  BY DEF FraudInv, Tables, FailsAreReported
<1>3. QED
  BY <1>1, <1>2, MoveKeeps

\* What the state of a thread says, and what stays of it when the thread goes on.
LEMMA CheckOf ==
  ASSUME FraudInv, NEW t \in FraudThreads
  PROVE  /\ check[t] \in CheckState /\ Sound(check[t], logs, audits)
         /\ check[t].claim \in FraudClaims /\ check[t].evidence \in Nat
         /\ check[t].signals \in Nat /\ check[t].share \in 0 .. 25
         /\ check[t].count \in Nat /\ check[t].row \in Nat
         /\ check[t].status \in Verdicts /\ check[t].retries \in 0 .. FraudRetries
<1>1. check[t] \in CheckState /\ Sound(check[t], logs, audits)
  BY DEF FraudInv, ThreadsSound
<1>2. QED
  BY <1>1 DEF CheckState

(* What a thread that only moves its program point keeps. *)
LEMMA PointMoves ==
  ASSUME NEW s \in CheckState, NEW point \in CheckPoints
  PROVE  LET r == [s EXCEPT !.pc = point] IN
         /\ r \in CheckState /\ r.pc = point /\ r.source = s.source /\ r.claim = s.claim
         /\ r.evidence = s.evidence /\ r.signals = s.signals /\ r.status = s.status
         /\ r.share = s.share /\ r.count = s.count
         /\ r.row = s.row
BY DEF CheckState

\* A thread that goes to a point at which it owes nothing.
LEMMA PointKeeps ==
  ASSUME FraudInv, NEW t \in FraudThreads, NEW point \in CheckPoints \ {"count", "audit", "publish"},
         Move(t, point), logs' = logs, Messages',
         audits \subseteq audits', audits' \subseteq DOMAIN logs,
         detected \subseteq detected', detected' \subseteq audits',
         \A i \in detected' : logs[i].status = "FAIL",
         abandoned \subseteq abandoned', abandoned' \subseteq DOMAIN logs,
         \A i \in Owed(t) : logs[i].status = "FAIL" => i \in detected' \/ i \in abandoned'
  PROVE  FraudInv'
<1> DEFINE s == [check[t] EXCEPT !.pc = point]
<1>1. /\ s \in CheckState /\ s.pc = point /\ s.source = check[t].source
      /\ s.evidence = check[t].evidence /\ s.signals = check[t].signals
      /\ s.share = check[t].share /\ s.count = check[t].count /\ s.claim = check[t].claim
      /\ s.status = check[t].status /\ s.row = check[t].row
  BY CheckOf, PointMoves
<1>2. Sound(s, logs, audits')
  BY <1>1, CheckOf DEF Sound
<1>3. Now(t, s)
  BY DEF Move
<1> HIDE DEF s
<1>4. QED
  BY <1>1, <1>2, <1>3, MoveKeeps

-----------------------------------------------------------------------------
(* Actions.                                                                *)

(* The count of earlier checks of the claim keeps the invariant. *)
LEMMA CountKeeps ==
  ASSUME FraudInv, NEW t \in FraudThreads, CountLogs(t)
  PROVE  FraudInv'
<1> DEFINE n == AtMost(MaxDuplicateClaims, Cardinality(RowsOfClaim(check[t].claim)))
           s == [check[t] EXCEPT !.pc = "recent", !.count = n]
<1>1. n \in Nat /\ (n # 0 => Seen(logs, check[t].claim))
  BY CountIs DEF FraudInv
<1> HIDE DEF n
<1>2. /\ s \in CheckState /\ s.pc = "recent" /\ s.source = check[t].source
      /\ s.evidence = check[t].evidence /\ s.signals = check[t].signals
      /\ s.share = check[t].share /\ s.count = n /\ s.claim = check[t].claim
      /\ s.status = check[t].status /\ s.row = check[t].row
  BY <1>1, CheckOf DEF CheckState, CheckPoints
<1>3. Sound(s, logs, audits)
  <2>1. check[t].pc = "count" /\ Sound(check[t], logs, audits)
    BY CheckOf DEF CountLogs, On
  <2>2. s.status = "PASS"
    BY <1>2, <2>1 DEF Sound
  <2> HIDE DEF s
  <2>3. QED
    BY <1>1, <1>2, <2>1, <2>2 DEF Sound
<1>4. Now(t, s) /\ check[t].pc \notin {"audit", "publish"}
  BY DEF CountLogs, On, n
<1>5. /\ logs' = logs /\ audits' = audits /\ detected' = detected /\ abandoned' = abandoned
      /\ Messages'
  BY DEF CountLogs, reports, queueVars, FraudInv, Messages
<1> HIDE DEF s
<1>6. QED
  BY <1>2, <1>3, <1>4, <1>5, QuietMove

\* What history adds to a score, and how little of it without a check of the same claim.
LEMMA HistoryBelow ==
  ASSUME NEW count \in Nat, NEW fails
  PROVE  /\ HistoryScore(count, fails) \in 0 .. 65
         /\ count = 0 => HistoryScore(count, fails) \in 0 .. 20
BY DEF HistoryScore, If, MaxDuplicateClaims

(* The look for recent failures of the user keeps the invariant. *)
LEMMA RecentKeeps ==
  ASSUME FraudInv, NEW t \in FraudThreads, ReadRecent(t)
  PROVE  FraudInv'
<1> DEFINE h == HistoryScore(check[t].count, RecentFails(FraudUserOf[check[t].claim]))
           verdict == Verdict(AtMost(100, check[t].evidence + check[t].signals + check[t].share + h))
           s == [check[t] EXCEPT !.pc = "log", !.status = verdict]
<1>1. verdict \in Verdicts
  BY DEF Verdict, Verdicts
<1>2. check[t].source = "event" /\ verdict = "FAIL" =>
        check[t].share > QuietShare /\ check[t].count # 0
  <2>1. check[t].count \in Nat /\ check[t].share \in 0 .. 25
    BY CheckOf
  <2>2. h \in 0 .. 65 /\ (check[t].count = 0 => h \in 0 .. 20)
    BY <2>1, HistoryBelow
  <2> HIDE DEF h
  <2>3. check[t].source = "event" => check[t].evidence = 0 /\ check[t].signals = 0
    BY CheckOf DEF Sound
  <2> DEFINE n == AtMost(100, check[t].evidence + check[t].signals + check[t].share + h)
  <2>4. check[t].source = "event" =>
          /\ n \in Int /\ (check[t].share <= QuietShare => n < 70)
          /\ check[t].count = 0 => n < 70
    <3>1. ASSUME check[t].source = "event"
          PROVE  n = AtMost(100, check[t].share + h)
      BY <3>1, <2>1, <2>2, <2>3 DEF AtMost
    <3> HIDE DEF n
    <3>2. QED
      BY <2>1, <2>2, <3>1 DEF AtMost, QuietShare
  <2> HIDE DEF n
  <2>5. n \in Int /\ n < 70 => Verdict(n) = "PASS"
    BY DEF Verdict, FailThreshold
  <2>6. check[t].share <= QuietShare \/ check[t].share > QuietShare
    BY <2>1 DEF QuietShare
  <2>7. QED
    BY <2>4, <2>5, <2>6 DEF n
<1>3. Now(t, s) /\ check[t].pc \notin {"audit", "publish"}
  BY DEF ReadRecent, On
<1> HIDE DEF verdict
<1>4. /\ s \in CheckState /\ s.pc = "log" /\ s.source = check[t].source
      /\ s.evidence = check[t].evidence /\ s.signals = check[t].signals
      /\ s.share = check[t].share /\ s.count = check[t].count /\ s.claim = check[t].claim
      /\ s.status = verdict /\ s.row = check[t].row
  BY <1>1, CheckOf DEF CheckState, CheckPoints
<1>5. Sound(s, logs, audits)
  BY <1>2, <1>4, CheckOf DEF Sound
<1>6. /\ logs' = logs /\ audits' = audits /\ detected' = detected /\ abandoned' = abandoned
      /\ Messages'
  BY DEF ReadRecent, reports, queueVars, FraudInv, Messages
<1> HIDE DEF s
<1>7. QED
  BY <1>3, <1>4, <1>5, <1>6, QuietMove

\* A request, of a worker's claim or of an administrator, and a message taken.
LEMMA BeginKeeps ==
  ASSUME FraudInv, NEW t \in FraudThreads, NEW c \in FraudClaims,
         \/ \E p \in Profiles, x \in Signals :
              \E share \in ModelShares[p] : CheckRequested(t, c, p, x, share)
         \/ \E status \in {"PASS", "FAIL"} : OverrideRequested(t, c, status)
         \/ \E r \in 0 .. FraudRetries, share \in ModelShares[EventProfile] :
              TakeInitiated(t, c, r, share)
  PROVE  FraudInv'
<1>1. logs \in Seq(LogRow) /\ Len(logs) \in Nat
  BY DEF FraudInv, Tables
<1>2. CASE \E p \in Profiles, x \in Signals :
             \E share \in ModelShares[p] : CheckRequested(t, c, p, x, share)
  <2> PICK p \in Profiles, x \in Signals :
             \E share \in ModelShares[p] : CheckRequested(t, c, p, x, share)
    BY <1>2
  <2>1. PICK share \in ModelShares[p] : CheckRequested(t, c, p, x, share)
    OBVIOUS
  <2> DEFINE e == Evidence(p)
             n == 10 * Cardinality(x)
             s == [NoCheck EXCEPT !.pc = "count", !.claim = c, !.evidence = e,
                                  !.signals = n, !.share = share]
  <2>2. e \in Nat /\ n \in Nat /\ share \in 0 .. 25
    BY EvidenceIs, SignalsAdd, FraudValueAssumption
  <2>3. Now(t, s) /\ check[t].pc \notin {"audit", "publish"}
    BY <2>1 DEF CheckRequested, On
  <2> HIDE DEF e, n
  <2>4. /\ s \in CheckState /\ s.pc = "count" /\ s.source = "api" /\ s.row = 0
        /\ s.status = "PASS" /\ s.count = 0
    BY <2>2, RestingCheck DEF CheckState, CheckPoints, NoCheck
  <2>5. Sound(s, logs, audits)
    BY <1>1, <2>4 DEF Sound
  <2>6. /\ logs' = logs /\ audits' = audits /\ detected' = detected
        /\ abandoned' = abandoned /\ Messages'
    BY <2>1 DEF CheckRequested, reports, queueVars, FraudInv, Messages
  <2> HIDE DEF s
  <2>7. QED
    BY <2>3, <2>4, <2>5, <2>6, QuietMove
<1>3. CASE \E status \in {"PASS", "FAIL"} : OverrideRequested(t, c, status)
  <2>1. PICK status \in {"PASS", "FAIL"} : OverrideRequested(t, c, status)
    BY <1>3
  <2> DEFINE s == [NoCheck EXCEPT !.pc = "log", !.source = "override", !.claim = c,
                                  !.status = status]
  <2>2. Now(t, s) /\ check[t].pc \notin {"audit", "publish"}
    BY <2>1 DEF OverrideRequested, On
  <2>3. /\ s \in CheckState /\ s.pc = "log" /\ s.source = "override" /\ s.row = 0
        /\ s.count = 0
    BY RestingCheck DEF CheckState, CheckPoints, NoCheck, Sources, Verdicts
  <2>4. Sound(s, logs, audits)
    BY <1>1, <2>3 DEF Sound
  <2>5. /\ logs' = logs /\ audits' = audits /\ detected' = detected
        /\ abandoned' = abandoned /\ Messages'
    BY <2>1 DEF OverrideRequested, reports, queueVars, FraudInv, Messages
  <2> HIDE DEF s
  <2>6. QED
    BY <2>2, <2>3, <2>4, <2>5, QuietMove
<1>4. CASE \E r \in 0 .. FraudRetries, share \in ModelShares[EventProfile] :
             TakeInitiated(t, c, r, share)
  <2>1. PICK r \in 0 .. FraudRetries, share \in ModelShares[EventProfile] :
               TakeInitiated(t, c, r, share)
    BY <1>4
  <2> DEFINE e == Evidence(EventProfile)
             s == [NoCheck EXCEPT !.pc = "count", !.source = "event", !.claim = c,
                                  !.evidence = e, !.share = share, !.retries = r]
  <2>2. e = 0 /\ share \in 0 .. 25
    BY EvidenceIs, FraudValueAssumption
  <2>3. Now(t, s) /\ check[t].pc \notin {"audit", "publish"}
    BY <2>1 DEF TakeInitiated, On
  <2> HIDE DEF e
  <2>4. /\ s \in CheckState /\ s.pc = "count" /\ s.source = "event" /\ s.row = 0
        /\ s.evidence = 0 /\ s.signals = 0 /\ s.status = "PASS" /\ s.count = 0
    BY <2>2, RestingCheck DEF CheckState, CheckPoints, NoCheck, Sources
  <2>5. Sound(s, logs, audits)
    BY <1>1, <2>4 DEF Sound
  <2>6. Messages'
    <3>1. <<c, r>> \in CheckMessage
      BY DEF CheckMessage
    <3>2. queued \in [CheckMessage -> Nat] /\ deadChecks \subseteq FraudClaims
      BY DEF FraudInv, Messages
    <3>3. /\ queued[<<c, r>>] > 0 /\ deadChecks' = deadChecks
          /\ queued' = [queued EXCEPT ![<<c, r>>] = queued[<<c, r>>] - 1]
      BY <2>1 DEF TakeInitiated
    <3>4. queued[<<c, r>>] - 1 \in Nat
      BY <3>1, <3>2, <3>3
    <3>5. QED
      BY <3>2, <3>3, <3>4 DEF Messages
  <2>7. logs' = logs /\ audits' = audits /\ detected' = detected /\ abandoned' = abandoned
    BY <2>1 DEF TakeInitiated, reports
  <2> HIDE DEF s
  <2>8. QED
    BY <2>3, <2>4, <2>5, <2>6, <2>7, QuietMove
<1>5. QED
  BY <1>2, <1>3, <1>4

\* A message of a thread that failed goes on with one retry more, or to the dead letters.
LEMMA AgainKeeps ==
  ASSUME FraudInv, NEW t \in FraudThreads, FailedMessage(t)
  PROVE  FraudInv'
<1>1. check[t].claim \in FraudClaims /\ check[t].retries \in 0 .. FraudRetries
  BY CheckOf
<1>2. Messages'
  <2>1. CASE check[t].retries < FraudRetries
    <3>1. <<check[t].claim, check[t].retries + 1>> \in CheckMessage
      BY <1>1, <2>1, FraudValueAssumption DEF CheckMessage
    <3>2. /\ queued' = [queued EXCEPT ![<<check[t].claim, check[t].retries + 1>>] = @ + 1]
          /\ deadChecks' = deadChecks
      BY <2>1 DEF FailedMessage
    <3>3. QED
      BY <3>1, <3>2 DEF FraudInv, Messages
  <2>2. CASE ~ (check[t].retries < FraudRetries)
    BY <1>1, <2>2 DEF FailedMessage, FraudInv, Messages
  <2>3. QED
    BY <2>1, <2>2
<1>3. /\ logs' = logs /\ audits' = audits /\ detected' = detected /\ abandoned' = abandoned
      /\ Move(t, "done") /\ Owed(t) = {}
  BY DEF FailedMessage, reports, On, Owed
<1>4. /\ detected \subseteq audits /\ audits \subseteq DOMAIN logs
      /\ abandoned \subseteq DOMAIN logs /\ \A i \in detected : logs[i].status = "FAIL"
  BY DEF FraudInv, Tables, FailsAreReported
<1>5. "done" \in CheckPoints \ {"count", "audit", "publish"}
  BY DEF CheckPoints
<1>6. QED
  BY <1>2, <1>3, <1>4, <1>5, PointKeeps

\* A row is written: the rows before it stay, and a failure is the writer's to report.
LEMMA LogKeeps ==
  ASSUME FraudInv, NEW t \in FraudThreads, WriteLog(t)
  PROVE  FraudInv'
<1> DEFINE row == [claim |-> check[t].claim, status |-> check[t].status,
                   source |-> check[t].source, evidence |-> check[t].evidence,
                   share |-> check[t].share]
           point == IF check[t].status = "FAIL" \/ check[t].source = "override"
                    THEN "audit" ELSE "done"
           s == [check[t] EXCEPT !.row = Len(logs) + 1, !.pc = point]
<1>1. /\ row \in LogRow /\ row.status = check[t].status /\ row.source = check[t].source
      /\ row.share = check[t].share /\ row.claim = check[t].claim
  BY CheckOf DEF CheckState, LogRow
<1>2. logs' = Append(logs, row) /\ logs \in Seq(LogRow)
  BY DEF WriteLog, FraudInv, Tables
<1> HIDE DEF row
<1>3. /\ logs' \in Seq(LogRow) /\ Len(logs') = Len(logs) + 1 /\ Len(logs) \in Nat
      /\ DOMAIN logs = 1 .. Len(logs) /\ DOMAIN logs' = 1 .. Len(logs')
      /\ logs'[Len(logs) + 1] = row /\ \A i \in DOMAIN logs : logs'[i] = logs[i]
  BY <1>1, <1>2
<1>4. Kept(logs, logs')
  BY <1>3 DEF Kept
<1>5. Now(t, s) /\ check[t].pc = "log"
  BY <1>3 DEF WriteLog, On
<1>6. /\ point \in CheckPoints /\ point # "publish" /\ Len(logs) + 1 \in Nat
      /\ check[t].status = "FAIL" => point = "audit"
      /\ point # "count"
  BY <1>3 DEF CheckPoints
<1> HIDE DEF point
<1>7. /\ s \in CheckState /\ s.source = check[t].source /\ s.pc = point
      /\ s.evidence = check[t].evidence /\ s.signals = check[t].signals
      /\ s.share = check[t].share /\ s.count = check[t].count /\ s.claim = check[t].claim
      /\ s.status = check[t].status /\ s.row = Len(logs) + 1
  <2>1. check[t] \in CheckState /\ Len(logs) + 1 \in Nat /\ point \in CheckPoints
    BY <1>6, CheckOf
  <2>2. s.source = check[t].source /\ s.pc = point /\ s.status = check[t].status
    BY <2>1 DEF CheckState
  <2>3. /\ s.evidence = check[t].evidence /\ s.signals = check[t].signals
        /\ s.share = check[t].share /\ s.count = check[t].count /\ s.claim = check[t].claim
        /\ s.row = Len(logs) + 1
    BY <2>1 DEF CheckState
  <2>4. s \in CheckState
    BY <2>1 DEF CheckState
  <2>5. QED
    BY <2>2, <2>3, <2>4
<1> HIDE DEF s
<1>8. Sound(s, logs', audits')
  <2>1. Sound(check[t], logs, audits)
    BY CheckOf
  <2>2. s.count # 0 => Seen(logs', s.claim)
    BY <1>4, <1>7, <2>1 DEF Sound, Seen, Kept
  <2>3. QED
    BY <1>1, <1>3, <1>6, <1>7, <2>1, <2>2 DEF Sound
<1>9. /\ audits' = audits /\ detected' = detected /\ abandoned' = abandoned
      /\ queued' = queued /\ deadChecks' = deadChecks
  BY DEF WriteLog, reports, queueVars
<1>10. s.status = "FAIL" => OwedBy(s) = {Len(logs) + 1}
  BY <1>7, <1>6 DEF OwedBy
<1>11. ThreadsSound'
  BY <1>3, <1>4, <1>5, <1>7, <1>8, <1>9, ThreadMoves
<1>12. Tables' /\ Messages'
  BY <1>3, <1>9 DEF Tables, Messages, FraudInv
<1>13. EventsFailOnlyAgain'
  <2>1. ASSUME NEW i \in DOMAIN logs', logs'[i].source = "event", logs'[i].status = "FAIL"
        PROVE  /\ logs'[i].share > QuietShare
               /\ \E j \in 1 .. i - 1 : logs'[j].claim = logs'[i].claim
    <3>1. CASE i = Len(logs) + 1
      <4>1. check[t].share > QuietShare /\ Seen(logs, check[t].claim)
        BY <2>1, <3>1, <1>1, <1>3, CheckOf DEF Sound
      <4>2. PICK j \in DOMAIN logs : logs[j].claim = check[t].claim
        BY <4>1 DEF Seen
      <4>3. j \in 1 .. i - 1 /\ logs'[j] = logs[j]
        BY <3>1, <1>3
      <4>4. QED
        BY <3>1, <4>1, <4>2, <4>3, <1>1, <1>3
    <3>2. CASE i # Len(logs) + 1
      <4>1. i \in DOMAIN logs /\ logs'[i] = logs[i]
        BY <3>2, <2>1, <1>3
      <4>2. PICK j \in 1 .. i - 1 : logs[j].claim = logs[i].claim
        BY <2>1, <4>1 DEF EventsFailOnlyAgain, FraudInv
      <4>3. logs'[j] = logs[j]
        BY <4>1, <1>3
      <4>4. logs[i].share > QuietShare
        BY <2>1, <4>1 DEF EventsFailOnlyAgain, FraudInv
      <4>5. QED
        BY <4>1, <4>2, <4>3, <4>4
    <3>3. QED
      BY <3>1, <3>2
  <2>2. QED
    BY <2>1 DEF EventsFailOnlyAgain
<1>14. FailsAreReported'
  <2>1. check \in [FraudThreads -> CheckState] /\ check' = [check EXCEPT ![t] = s]
    BY <1>5 DEF Now, FraudInv, ThreadsSound
  <2>2. ASSUME NEW i \in DOMAIN logs', logs'[i].status = "FAIL"
        PROVE  i \in detected \/ i \in abandoned \/ \E u \in FraudThreads : i \in Owed(u)'
    <3>1. CASE i = Len(logs) + 1
      <4>1. Owed(t)' = OwedBy(s)
        BY <2>1 DEF Owed, OwedBy
      <4>2. QED
        BY <4>1, <3>1, <2>2, <1>1, <1>3, <1>7, <1>10
    <3>2. CASE i # Len(logs) + 1
      <4>1. i \in DOMAIN logs /\ logs[i].status = "FAIL"
        BY <3>2, <2>2, <1>3
      <4>2. CASE \E u \in FraudThreads : i \in Owed(u)
        <5>1. PICK u \in FraudThreads : i \in Owed(u)
          BY <4>2
        <5>2. u # t
          BY <5>1, <1>5 DEF Owed
        <5>3. Owed(u)' = Owed(u)
          BY <5>2, <2>1 DEF Owed
        <5>4. QED
          BY <5>1, <5>3
      <4>3. QED
        BY <4>1, <4>2 DEF FraudInv, FailsAreReported
    <3>3. QED
      BY <3>1, <3>2
  <2>3. detected \subseteq audits /\ \A i \in detected : logs'[i].status = "FAIL"
    BY <1>3 DEF FraudInv, FailsAreReported, Tables
  <2>4. QED
    BY <2>2, <2>3, <1>9 DEF FailsAreReported
<1>15. QED
  BY <1>11, <1>12, <1>13, <1>14 DEF FraudInv

\* The row of a thread that reports is a row of the log.
LEMMA OwedRows ==
  ASSUME FraudInv, NEW t \in FraudThreads
  PROVE  Owed(t) \subseteq DOMAIN logs
BY CheckOf DEF Owed, Sound

(* The audit row keeps the invariant. *)
LEMMA AuditKeeps ==
  ASSUME FraudInv, NEW t \in FraudThreads, WriteAudit(t)
  PROVE  FraudInv'
<1>1. /\ check[t].pc = "audit" /\ check[t].row \in DOMAIN logs
      /\ logs[check[t].row].status = check[t].status
  BY CheckOf DEF WriteAudit, On, Sound
<1>2. /\ logs' = logs /\ detected' = detected /\ abandoned' = abandoned
      /\ audits' = audits \cup {check[t].row} /\ Messages'
  BY DEF WriteAudit, queueVars, FraudInv, Messages
<1>3. /\ detected \subseteq audits /\ audits \subseteq DOMAIN logs
      /\ abandoned \subseteq DOMAIN logs /\ \A i \in detected : logs[i].status = "FAIL"
  BY DEF FraudInv, Tables, FailsAreReported
<1>4. Owed(t) = {check[t].row}
  BY <1>1 DEF Owed
<1>5. CASE check[t].status = "FAIL"
  <2> DEFINE s == [check[t] EXCEPT !.pc = "publish"]
  <2>1. /\ s \in CheckState /\ s.pc = "publish" /\ s.source = check[t].source
        /\ s.evidence = check[t].evidence /\ s.signals = check[t].signals
        /\ s.share = check[t].share /\ s.count = check[t].count /\ s.claim = check[t].claim
        /\ s.status = check[t].status /\ s.row = check[t].row
    BY CheckOf, PointMoves DEF CheckPoints
  <2>2. Now(t, s)
    BY <1>5 DEF WriteAudit, Move
  <2>3. Sound(s, logs, audits')
    BY <1>1, <1>2, <1>5, <2>1, CheckOf DEF Sound
  <2>4. OwedBy(s) = {check[t].row}
    BY <2>1 DEF OwedBy
  <2> HIDE DEF s
  <2>5. QED
    BY <1>1, <1>2, <1>3, <1>4, <2>1, <2>2, <2>3, <2>4, MoveKeeps
<1>6. CASE check[t].status # "FAIL"
  <2>1. Move(t, "done") /\ "done" \in CheckPoints \ {"count", "audit", "publish"}
    BY <1>6 DEF WriteAudit, CheckPoints
  <2>2. QED
    BY <1>1, <1>2, <1>3, <1>4, <1>6, <2>1, PointKeeps
<1>7. QED
  BY <1>5, <1>6

\* The announcement of a failure is handed to the broker or lost with it.
LEMMA PublishKeeps ==
  ASSUME FraudInv, NEW t \in FraudThreads, PublishDetected(t) \/ DetectedLost(t)
  PROVE  FraudInv'
<1>1. /\ check[t].pc = "publish" /\ check[t].row \in DOMAIN logs
      /\ logs[check[t].row].status = "FAIL" /\ check[t].row \in audits
  BY CheckOf DEF PublishDetected, DetectedLost, On, Sound
<1>2. /\ logs' = logs /\ audits' = audits /\ Messages' /\ Move(t, "done")
      /\ "done" \in CheckPoints \ {"count", "audit", "publish"}
  BY DEF PublishDetected, DetectedLost, queueVars, FraudInv, Messages, CheckPoints
<1>3. /\ detected \subseteq audits /\ audits \subseteq DOMAIN logs
      /\ abandoned \subseteq DOMAIN logs /\ \A i \in detected : logs[i].status = "FAIL"
  BY DEF FraudInv, Tables, FailsAreReported
<1>4. Owed(t) = {check[t].row}
  BY <1>1 DEF Owed
<1>5. \/ detected' = detected \cup {check[t].row} /\ abandoned' = abandoned
      \/ detected' = detected /\ abandoned' = abandoned \cup {check[t].row}
  BY DEF PublishDetected, DetectedLost
<1>6. QED
  BY <1>1, <1>2, <1>3, <1>4, <1>5, PointKeeps

\* A thread at its end owes nothing.
LEMMA FinishKeeps ==
  ASSUME FraudInv, NEW t \in FraudThreads, Finish(t)
  PROVE  FraudInv'
<1>1. Now(t, NoCheck) /\ check[t].pc \notin {"audit", "publish"}
  BY DEF Finish, On
<1>2. NoCheck \in CheckState /\ Sound(NoCheck, logs, audits)
  BY RestingCheck DEF FraudInv, Tables
<1>3. /\ logs' = logs /\ audits' = audits /\ detected' = detected /\ abandoned' = abandoned
      /\ Messages'
  BY DEF Finish, reports, queueVars, FraudInv, Messages
<1>4. QED
  BY <1>1, <1>2, <1>3, QuietMove

\* A fault cuts a report short, and the row is known to be lost.
LEMMA FaultKeeps ==
  ASSUME FraudInv, NEW t \in FraudThreads, CheckFails(t) \/ FraudCrash(t)
  PROVE  FraudInv'
<1>1. /\ logs' = logs /\ audits' = audits /\ detected' = detected
      /\ abandoned' = abandoned \cup Owed(t) /\ abandoned' \subseteq DOMAIN logs
  BY OwedRows DEF CheckFails, FraudCrash, FraudInv, Tables
<1>2. /\ detected \subseteq audits /\ audits \subseteq DOMAIN logs
      /\ \A i \in detected : logs[i].status = "FAIL"
  BY DEF FraudInv, Tables, FailsAreReported
<1>3. CASE CheckFails(t)
  <2>1. Move(t, "failed") /\ Messages' /\ "failed" \in CheckPoints \ {"count", "audit", "publish"}
    BY <1>3 DEF CheckFails, queueVars, FraudInv, Messages, CheckPoints
  <2>2. QED
    BY <1>1, <1>2, <2>1, PointKeeps
<1>4. CASE FraudCrash(t)
  <2>1. NoCheck \in CheckState /\ Sound(NoCheck, logs, audits) /\ Now(t, NoCheck)
    BY <1>4, RestingCheck DEF FraudInv, Tables, FraudCrash
  <2>2. Messages'
    <3>1. <<check[t].claim, check[t].retries>> \in CheckMessage
      BY CheckOf DEF CheckMessage
    <3>2. queued \in [CheckMessage -> Nat] /\ deadChecks \subseteq FraudClaims
      BY DEF FraudInv, Messages
    <3>3. /\ deadChecks' = deadChecks
          /\ \/ queued' = queued
             \/ queued' = [queued EXCEPT ![<<check[t].claim, check[t].retries>>] = @ + 1]
      BY <1>4 DEF FraudCrash
    <3>4. QED
      BY <3>1, <3>2, <3>3 DEF Messages
  <2>3. QED
    BY <1>1, <1>2, <2>1, <2>2, MoveKeeps
<1>5. QED
  BY <1>3, <1>4

-----------------------------------------------------------------------------
(* The invariant.                                                          *)

(* The fraud service starts in its invariant. *)
LEMMA FraudInitHolds == FraudInit => FraudInv
<1> SUFFICES ASSUME FraudInit PROVE FraudInv
  OBVIOUS
<1>1. logs = <<>> /\ logs \in Seq(LogRow) /\ DOMAIN logs = {} /\ Len(logs) = 0
  BY DEF FraudInit
<1>2. Tables
  BY <1>1 DEF Tables, FraudInit
<1>3. ThreadsSound
  BY <1>1, RestingCheck DEF ThreadsSound, FraudInit
<1>4. Messages
  BY DEF Messages, FraudInit
<1>5. EventsFailOnlyAgain /\ FailsAreReported
  BY <1>1 DEF EventsFailOnlyAgain, FailsAreReported, FraudInit
<1>6. QED
  BY <1>2, <1>3, <1>4, <1>5 DEF FraudInv

(* Every step keeps the invariant of the fraud service. *)
LEMMA FraudStepKeeps == FraudInv /\ [FraudNext]_fvars => FraudInv'
<1> SUFFICES ASSUME FraudInv, [FraudNext]_fvars PROVE FraudInv'
  OBVIOUS
<1>1. ASSUME NEW t \in FraudThreads, CheckStep(t) PROVE FraudInv'
  BY <1>1, CountKeeps, RecentKeeps, LogKeeps, AuditKeeps, PublishKeeps, AgainKeeps, FinishKeeps
  DEF CheckStep
<1>2. ASSUME NEW t \in FraudThreads, TakeMessage(t) PROVE FraudInv'
  BY <1>2, BeginKeeps DEF TakeMessage
<1>3. ASSUME NEW t \in FraudThreads, Called(t) PROVE FraudInv'
  BY <1>3, BeginKeeps DEF Called
<1>4. CASE UNCHANGED fvars
  <2>1. Tables' /\ ThreadsSound' /\ Messages' /\ EventsFailOnlyAgain'
    BY <1>4 DEF fvars, FraudInv, Tables, ThreadsSound, Messages, EventsFailOnlyAgain
  <2>2. FailsAreReported'
    BY <1>4 DEF fvars, FraudInv, FailsAreReported, Owed
  <2>3. QED
    BY <2>1, <2>2 DEF FraudInv
<1>5. QED
  BY <1>1, <1>2, <1>3, <1>4, FaultKeeps DEF FraudNext

\* The invariant holds in every state of the fraud service.
THEOREM FraudInductive == FraudSpec => []FraudInv
BY FraudInitHolds, FraudStepKeeps, PTL DEF FraudSpec

\* A failed check has its audit entry and then its announcement, unless its thread is on
\* the way or a fault cut it short, for any number of overlapping checks: WriteLog,
\* WriteAudit and PublishDetected of fraud_service.py.
THEOREM EveryFailIsReported == FraudSpec => []FailsAreReported
<1>1. FraudInv => FailsAreReported
  BY DEF FraudInv
<1>2. QED
  BY <1>1, FraudInductive, PTL

\* The tables and threads keep their shape, and a check made for CLAIM_INITIATED fails a
\* claim only if the claim was scored before and the ML scorer adds 0.05 or more,
\* whatever the history of its user: check_claim_from_event and _score_payload.
THEOREM EventsFailOnlyRepeats == FraudSpec => [](FraudTypeOK /\ EventsFailOnlyAgain)
<1>1. FraudInv => FraudTypeOK /\ EventsFailOnlyAgain
  <2> SUFFICES ASSUME FraudInv PROVE FraudTypeOK
    BY DEF FraudInv
  <2>1. \A t \in FraudThreads : check[t].claim \in FraudClaims /\ check[t].row \in 0 .. Len(logs)
    BY CheckOf DEF Sound
  <2>2. QED
    BY <2>1 DEF FraudInv, Tables, Messages, FraudTypeOK, LogRow, Verdicts, Sources
<1>2. QED
  BY <1>1, FraudInductive, PTL

-----------------------------------------------------------------------------
(* Clean users: those for whose checks the ML scorer, where it is switched *)
(* on, adds less than five hundredths.                                     *)

\* A request carried suspicious activity of user u, an administrator overrode a check
\* of u, or the scorer added enough to one to decide it.
Blamed(table, u) ==
  \E i \in DOMAIN table :
    /\ FraudUserOf[table[i].claim] = u
    /\ \/ table[i].evidence # 0 \/ table[i].source = "override"
       \/ table[i].share > QuietShare

\* A thread about to write a failure has seen the evidence or the scorer's share, or a
\* row of the user has.
Explained(s, table) ==
  /\ s.signals <= 20
  /\ s.pc = "log" /\ s.status = "FAIL" /\ s.source # "override" =>
       s.evidence # 0 \/ s.share > QuietShare \/ Blamed(table, FraudUserOf[s.claim])

CleanInv == CleanUsersPass /\ \A t \in FraudThreads : Explained(check[t], logs)

(* Evidence against a user is never lost. *)
LEMMA BlameKept ==
  ASSUME NEW table, NEW other, NEW u, Kept(table, other), Blamed(table, u)
  PROVE  Blamed(other, u)
BY DEF Kept, Blamed

\* A user nobody blames has no failed check among the recent ones.
LEMMA NoFails ==
  ASSUME FraudInv, CleanUsersPass, NEW u \in FraudUsers, ~ Blamed(logs, u)
  PROVE  RecentFails(u) = 0
<1>1. \A i \in RowsOfUser(u) : /\ logs[i].evidence = 0 /\ logs[i].source # "override"
                              /\ logs[i].share <= QuietShare
  <2>1. ASSUME NEW i \in RowsOfUser(u) PROVE logs[i].share \in 0 .. 25
    <3>1. i \in DOMAIN logs /\ logs \in Seq(LogRow)
      BY DEF RowsOfUser, FraudInv, Tables
    <3>2. logs[i] \in LogRow
      BY <3>1
    <3>3. QED
      BY <3>2 DEF LogRow
  <2>2. QED
    BY <2>1 DEF Blamed, RowsOfUser, QuietShare
<1>2. \A i \in RowsOfUser(u) : logs[i].status = "PASS"
  BY <1>1 DEF CleanUsersPass
<1>3. {i \in RecentRows(u) : logs[i].status = "FAIL"} = {}
  BY <1>2 DEF RecentRows
<1>4. QED
  BY <1>3, FS_EmptySet DEF RecentFails

\* A count and the signals stay below the threshold without a failed check.
LEMMA ExplainedRecent ==
  ASSUME FraudInv, CleanInv, NEW t \in FraudThreads, ReadRecent(t)
  PROVE  Explained(check'[t], logs)
<1> DEFINE u == FraudUserOf[check[t].claim]
           h == HistoryScore(check[t].count, RecentFails(u))
           n == AtMost(100, check[t].evidence + check[t].signals + check[t].share + h)
<1>1. check \in [FraudThreads -> CheckState]
  BY DEF FraudInv, ThreadsSound
<1>2. check'[t] = [check[t] EXCEPT !.pc = "log", !.status = Verdict(n)]
  BY <1>1 DEF ReadRecent, Now
<1> HIDE DEF n
<1>3. /\ check'[t].signals = check[t].signals /\ check'[t].share = check[t].share
      /\ check'[t].source = check[t].source
      /\ check'[t].evidence = check[t].evidence /\ check'[t].claim = check[t].claim
      /\ check'[t].status = Verdict(n)
  BY <1>2, CheckOf DEF CheckState
<1>4. ASSUME check[t].evidence = 0, check[t].share <= QuietShare, ~ Blamed(logs, u) PROVE Verdict(n) = "PASS"
  <2>1. u \in FraudUsers
    BY CheckOf DEF FraudUsers
  <2>2. RecentFails(u) = 0
    BY <1>4, <2>1, NoFails DEF CleanInv
  <2>3. h \in 0 .. 45
    BY <2>2, CheckOf DEF HistoryScore, If
  <2>4. /\ check[t].signals \in Nat /\ check[t].signals <= 20
        /\ check[t].share \in 0 .. 25
    BY CheckOf DEF CleanInv, Explained
  <2> HIDE DEF h
  <2>5. n \in Int /\ n < 70
    BY <1>4, <2>3, <2>4 DEF n, AtMost, QuietShare
  <2>6. QED
    BY <2>5 DEF Verdict, FailThreshold
<1>5. check[t].signals <= 20
  BY DEF CleanInv, Explained
<1>6. check[t].share <= QuietShare \/ check[t].share > QuietShare
  BY CheckOf DEF QuietShare
<1>7. QED
  BY <1>3, <1>4, <1>5, <1>6 DEF Explained

\* Every other step of a thread leaves it explained.
LEMMA ExplainedStep ==
  ASSUME FraudInv, CleanInv, NEW t \in FraudThreads,
         CheckStep(t) \/ TakeMessage(t) \/ Called(t) \/ CheckFails(t) \/ FraudCrash(t)
  PROVE  /\ \A u \in FraudThreads \ {t} : check'[u] = check[u]
         /\ Explained(check'[t], logs')
<1>1. check \in [FraudThreads -> CheckState] /\ check[t].signals <= 20
  BY DEF FraudInv, ThreadsSound, CleanInv, Explained
<1>2. ASSUME NEW s, Now(t, s)
      PROVE  check'[t] = s /\ \A u \in FraudThreads \ {t} : check'[u] = check[u]
  BY <1>1, <1>2 DEF Now
<1>3. NoCheck.signals = 0 /\ NoCheck.pc = "idle"
  BY DEF NoCheck
<1>4. ASSUME NEW point \in CheckPoints \ {"log"}, Move(t, point)
      PROVE  /\ \A u \in FraudThreads \ {t} : check'[u] = check[u]
             /\ Explained(check'[t], logs')
  <2> DEFINE s == [check[t] EXCEPT !.pc = point]
  <2>1. Now(t, s)
    BY <1>4 DEF Move
  <2>2. s.pc = point /\ s.signals = check[t].signals
    BY CheckOf DEF CheckState
  <2> HIDE DEF s
  <2>3. QED
    BY <1>1, <1>2, <2>1, <2>2 DEF Explained
<1>5. CASE CountLogs(t)
  <2> DEFINE n == AtMost(MaxDuplicateClaims, Cardinality(RowsOfClaim(check[t].claim)))
             s == [check[t] EXCEPT !.pc = "recent", !.count = n]
  <2>1. Now(t, s)
    BY <1>5 DEF CountLogs
  <2> HIDE DEF n
  <2>2. s.pc = "recent" /\ s.signals = check[t].signals
    BY CheckOf DEF CheckState
  <2> HIDE DEF s
  <2>3. QED
    BY <1>1, <1>2, <2>1, <2>2 DEF Explained
<1>6. CASE ReadRecent(t)
  <2>1. logs' = logs
    BY <1>6 DEF ReadRecent
  <2>2. \A u \in FraudThreads \ {t} : check'[u] = check[u]
    BY <1>1, <1>6 DEF ReadRecent, Now
  <2>3. QED
    BY <1>6, <2>1, <2>2, ExplainedRecent
<1>7. CASE WriteLog(t)
  <2> DEFINE point == IF check[t].status = "FAIL" \/ check[t].source = "override"
                      THEN "audit" ELSE "done"
             n == Len(logs')
             s == [check[t] EXCEPT !.row = n, !.pc = point]
  <2>1. Now(t, s)
    BY <1>7 DEF WriteLog
  <2>2. point # "log"
    OBVIOUS
  <2> HIDE DEF n, point
  <2>3. s.pc = point /\ s.signals = check[t].signals
    BY CheckOf DEF CheckState
  <2> HIDE DEF s
  <2>4. QED
    BY <1>1, <1>2, <2>1, <2>2, <2>3 DEF Explained
<1>8. CASE \/ WriteAudit(t) \/ PublishDetected(t) \/ DetectedLost(t) \/ FailedMessage(t)
           \/ CheckFails(t)
  <2>1. PICK point \in {"publish", "done", "failed"} : Move(t, point)
    BY <1>8 DEF WriteAudit, PublishDetected, DetectedLost, FailedMessage, CheckFails
  <2>2. point \in CheckPoints \ {"log"}
    BY DEF CheckPoints
  <2>3. QED
    BY <1>4, <2>1, <2>2
<1>9. CASE Finish(t) \/ FraudCrash(t)
  <2>1. Now(t, NoCheck)
    BY <1>9 DEF Finish, FraudCrash
  <2>2. QED
    BY <1>2, <1>3, <2>1 DEF Explained
<1>10. CASE TakeMessage(t)
  <2>1. PICK c \in FraudClaims, r \in 0 .. FraudRetries,
             share \in ModelShares[EventProfile] : TakeInitiated(t, c, r, share)
    BY <1>10 DEF TakeMessage
  <2> DEFINE e == Evidence(EventProfile)
             s == [NoCheck EXCEPT !.pc = "count", !.source = "event", !.claim = c,
                                  !.evidence = e, !.share = share, !.retries = r]
  <2>2. Now(t, s)
    BY <2>1 DEF TakeInitiated
  <2> HIDE DEF e
  <2>3. s.pc = "count" /\ s.signals = 0
    BY DEF NoCheck
  <2> HIDE DEF s
  <2>4. QED
    BY <1>2, <2>2, <2>3 DEF Explained
<1>11. CASE Called(t)
  <2>1. CASE \E c \in FraudClaims, p \in Profiles, x \in Signals :
               \E share \in ModelShares[p] : CheckRequested(t, c, p, x, share)
    <3> PICK c \in FraudClaims, p \in Profiles, x \in Signals :
               \E share \in ModelShares[p] : CheckRequested(t, c, p, x, share)
      BY <2>1
    <3>1. PICK share \in ModelShares[p] : CheckRequested(t, c, p, x, share)
      OBVIOUS
    <3> DEFINE e == Evidence(p)
               n == 10 * Cardinality(x)
               s == [NoCheck EXCEPT !.pc = "count", !.claim = c, !.evidence = e,
                                    !.signals = n, !.share = share]
    <3>2. Now(t, s)
      BY <3>1 DEF CheckRequested
    <3>3. n <= 20
      BY SignalsAdd
    <3> HIDE DEF e, n
    <3>4. s.pc = "count" /\ s.signals = n
      BY DEF NoCheck
    <3> HIDE DEF s
    <3>5. QED
      BY <1>2, <3>2, <3>3, <3>4 DEF Explained
  <2>2. CASE \E c \in FraudClaims, status \in {"PASS", "FAIL"} : OverrideRequested(t, c, status)
    <3>1. PICK c \in FraudClaims, status \in {"PASS", "FAIL"} : OverrideRequested(t, c, status)
      BY <2>2
    <3> DEFINE s == [NoCheck EXCEPT !.pc = "log", !.source = "override", !.claim = c,
                                    !.status = status]
    <3>2. Now(t, s)
      BY <3>1 DEF OverrideRequested
    <3>3. s.source = "override" /\ s.signals = 0
      BY DEF NoCheck
    <3> HIDE DEF s
    <3>4. QED
      BY <1>2, <3>2, <3>3 DEF Explained
  <2>3. QED
    BY <1>11, <2>1, <2>2 DEF Called
<1>12. QED
  BY <1>5, <1>6, <1>7, <1>8, <1>9, <1>10, <1>11 DEF CheckStep

\* Rows are only added, and what is added is what its thread holds.
LEMMA RowsGrow ==
  ASSUME FraudInv, [FraudNext]_fvars
  PROVE  /\ Kept(logs, logs')
         /\ \A i \in DOMAIN logs' \ DOMAIN logs : \E t \in FraudThreads :
              /\ check[t].pc = "log" /\ logs'[i].claim = check[t].claim
              /\ logs'[i].status = check[t].status /\ logs'[i].source = check[t].source
              /\ logs'[i].evidence = check[t].evidence
              /\ logs'[i].share = check[t].share
<1>1. logs \in Seq(LogRow)
  BY DEF FraudInv, Tables
<1>2. CASE \E t \in FraudThreads : WriteLog(t)
  <2>1. PICK t \in FraudThreads : WriteLog(t)
    BY <1>2
  <2> DEFINE row == [claim |-> check[t].claim, status |-> check[t].status,
                     source |-> check[t].source, evidence |-> check[t].evidence,
                     share |-> check[t].share]
  <2>2. logs' = Append(logs, row) /\ check[t].pc = "log"
    BY <2>1 DEF WriteLog, On
  <2>3. /\ row.claim = check[t].claim /\ row.status = check[t].status
        /\ row.source = check[t].source /\ row.evidence = check[t].evidence
        /\ row.share = check[t].share
    OBVIOUS
  <2>4. row \in LogRow
    BY CheckOf DEF CheckState, LogRow
  <2> HIDE DEF row
  <2>5. /\ DOMAIN logs = 1 .. Len(logs) /\ DOMAIN logs' = 1 .. (Len(logs) + 1)
        /\ Len(logs) \in Nat /\ logs'[Len(logs) + 1] = row
        /\ \A i \in DOMAIN logs : logs'[i] = logs[i]
    BY <1>1, <2>2, <2>4
  <2>6. QED
    BY <2>2, <2>3, <2>5 DEF Kept
<1>3. CASE logs' = logs
  BY <1>3 DEF Kept
<1>4. logs' = logs \/ \E t \in FraudThreads : WriteLog(t)
  BY DEF FraudNext, CheckStep, CountLogs, ReadRecent, WriteAudit, PublishDetected, DetectedLost,
         FailedMessage, Finish, TakeMessage, TakeInitiated, Called, CheckRequested,
         OverrideRequested, CheckFails, FraudCrash, fvars
<1>5. QED
  BY <1>2, <1>3, <1>4

\* The share of a row is a number, before and after a step.
LEMMA RowShares ==
  ASSUME FraudInv, [FraudNext]_fvars
  PROVE  /\ \A i \in DOMAIN logs : logs[i].share \in 0 .. 25
         /\ \A i \in DOMAIN logs' : logs'[i].share \in 0 .. 25
<1>1. ASSUME NEW i \in DOMAIN logs PROVE logs[i].share \in 0 .. 25
  <2>1. logs[i] \in LogRow
    BY DEF FraudInv, Tables
  <2>2. QED
    BY <2>1 DEF LogRow
<1>2. ASSUME NEW i \in DOMAIN logs' PROVE logs'[i].share \in 0 .. 25
  BY <1>1, RowsGrow, CheckOf DEF Kept
<1>3. QED
  BY <1>1, <1>2

(* Every step keeps what is known of users nobody has evidence against. *)
LEMMA CleanStepKeeps == FraudInv /\ CleanInv /\ [FraudNext]_fvars => CleanInv'
<1> SUFFICES ASSUME FraudInv, CleanInv, [FraudNext]_fvars PROVE CleanInv'
  OBVIOUS
<1>1. ASSUME NEW u \in FraudThreads PROVE Explained(check'[u], logs')
  <2>1. ASSUME check'[u] = check[u] PROVE Explained(check'[u], logs')
    <3>1. Explained(check[u], logs)
      BY DEF CleanInv
    <3>2. QED
      BY <2>1, <3>1, RowsGrow, BlameKept DEF Explained
  <2>2. CASE UNCHANGED fvars
    BY <2>1, <2>2 DEF fvars
  <2>3. CASE FraudNext
    <3>1. PICK t \in FraudThreads :
            CheckStep(t) \/ TakeMessage(t) \/ Called(t) \/ CheckFails(t) \/ FraudCrash(t)
      BY <2>3 DEF FraudNext
    <3>2. QED
      BY <2>1, <3>1, ExplainedStep
  <2>4. QED
    BY <2>2, <2>3
<1>2. ASSUME NEW u \in FraudUsers,
             \A i \in RowsOfUser(u)' :
               /\ logs'[i].evidence = 0 /\ logs'[i].source # "override"
               /\ logs'[i].share <= QuietShare,
             NEW i \in RowsOfUser(u)'
      PROVE  logs'[i].status = "PASS"
  <2>1. ~ Blamed(logs', u)
    BY <1>2, RowShares DEF Blamed, RowsOfUser, QuietShare
  <2>2. ~ Blamed(logs, u)
    BY <2>1, RowsGrow, BlameKept
  <2>3. CASE i \in DOMAIN logs
    <3>1. logs'[i] = logs[i] /\ FraudUserOf[logs[i].claim] = u
      BY <2>3, RowsGrow DEF Kept, RowsOfUser
    <3>2. \A j \in RowsOfUser(u) : /\ logs[j].evidence = 0 /\ logs[j].source # "override"
                                   /\ logs[j].share <= QuietShare
      BY <2>2, RowShares DEF Blamed, RowsOfUser, QuietShare
    <3>3. QED
      BY <2>3, <3>1, <3>2 DEF CleanInv, CleanUsersPass, RowsOfUser
  <2>4. CASE i \notin DOMAIN logs
    <3>1. i \in DOMAIN logs' /\ FraudUserOf[logs'[i].claim] = u
      BY DEF RowsOfUser
    <3>2. PICK t \in FraudThreads :
            /\ check[t].pc = "log" /\ logs'[i].claim = check[t].claim
            /\ logs'[i].status = check[t].status /\ logs'[i].source = check[t].source
            /\ logs'[i].evidence = check[t].evidence /\ logs'[i].share = check[t].share
      BY <2>4, <3>1, RowsGrow
    <3>3. check[t].status # "FAIL"
      <4>1. /\ check[t].evidence = 0 /\ check[t].source # "override"
            /\ check[t].share <= QuietShare
        BY <1>2, <3>2
      <4>2. ~ (check[t].share > QuietShare)
        BY <4>1, CheckOf DEF QuietShare
      <4>3. QED
        BY <4>1, <4>2, <2>2, <3>1, <3>2 DEF CleanInv, Explained
    <3>4. QED
      BY <3>2, <3>3, CheckOf DEF Verdicts
  <2>5. QED
    BY <2>3, <2>4
<1>3. CleanUsersPass'
  BY <1>2 DEF CleanUsersPass
<1>4. QED
  BY <1>1, <1>3 DEF CleanInv

(* At the start nobody has been failed. *)
LEMMA CleanInitHolds == FraudInit => CleanInv
<1> SUFFICES ASSUME FraudInit PROVE CleanInv
  OBVIOUS
<1>1. \A u : RowsOfUser(u) = {}
  BY DEF FraudInit, RowsOfUser
<1>2. NoCheck.signals = 0 /\ NoCheck.pc = "idle"
  BY DEF NoCheck
<1>3. \A t \in FraudThreads : Explained(check[t], logs)
  BY <1>2 DEF FraudInit, Explained
<1>4. QED
  BY <1>1, <1>3 DEF CleanInv, CleanUsersPass

\* Whatever checks of a user overlap or are repeated, only suspicious activity that a
\* request carried, an administrator or the ML scorer fails one, for any number of
\* claims, threads, retries and redeliveries and whatever the scorer answers: duplicates
\* and signals never add up to the threshold of _score_payload, and the consumer fails
\* no claim that was not scored before.
THEOREM OnlyEvidenceFails == FraudSpec => []FraudSafe
<1>1. CleanInv /\ FraudTypeOK /\ EventsFailOnlyAgain => FraudSafe
  BY DEF CleanInv, FraudSafe
<1>2. QED
  BY <1>1, CleanInitHolds, CleanStepKeeps, FraudInductive, EventsFailOnlyRepeats, PTL
  DEF FraudSpec

-----------------------------------------------------------------------------
(* The consumers on the exchange.                                          *)

IngestPoints == {"idle", "check", "row", "metrics", "stats", "flush", "ack", "failed"}
NotePoints == {"idle", "create", "enqueue", "ack", "failed"}

BusTables ==
  /\ BusTypeOK
  /\ ingest \in [pc : IngestPoints, msg : BusMessage]
  /\ bus_consumer \in [pc : NotePoints, msg : BusMessage]
  /\ notes \in [BusEvents -> Nat] /\ delivered \in [BusEvents -> Nat]
  /\ resent \in [BusEvents -> Nat] /\ event_rows \in [BusEvents -> Nat]
  /\ failures \in Nat

\* A message has been published again no more often than things went wrong.
Within(c, n) == c.msg.retries <= n /\ (c.pc = "failed" => c.msg.retries < n)

UpTo(b, n) == \A i \in 1..Len(b) : b[i].retries <= n

RetriesCounted ==
  /\ \A q \in Queues : UpTo(boxes[q], failures)
  /\ Within(ingest, failures) /\ Within(bus_consumer, failures)
  /\ DeadAfterRetries

IfAt(pcs) == IF ingest.pc \in pcs THEN 1 ELSE 0
Rows == Total(event_rows, BusEvents)

\* Each of the three commits leads the next by the event in hand and those cut off.
TablesTrail ==
  /\ metrics \in Nat /\ stats \in Nat
  /\ metrics + IfAt({"metrics"}) <= Rows /\ stats + IfAt({"stats"}) <= metrics
  /\ Rows - stats <= failures + IfAt({"metrics", "stats"})
  /\ \A e \in Identified \cap BusEvents :
       /\ event_rows[e] <= 1
       /\ ingest.pc = "row" /\ ingest.msg.event = e => event_rows[e] = 0

\* What was counted for a dashboard is not more than there is.
AnswersTrail ==
  /\ cache = <<>> \/ (cache \in Seq(Nat) /\ Len(cache) = 1 /\ cache[1] <= Rows)
  /\ reader \in [Readers -> [pc : {"idle", "store"}, seen : Nat]]
  /\ \A r \in Readers : reader[r].seen <= Rows

CopiesIn(b, e) == {i \in 1..Len(b) : b[i].event = e}
Awaited(q, e) == Cardinality(CopiesIn(boxes[q], e))
Fresh(e) == IF e \in published THEN 0 ELSE 1
Holds(c, pcs, e) == IF c.pc \in pcs /\ c.msg.event = e THEN 1 ELSE 0

\* Copies of event e that may still be told, counted or paid.
ToTell(e) ==
  Awaited("notification", e) + Holds(bus_consumer, {"create", "failed"}, e)
    + Holds(ingest, {"failed"}, e) + Fresh(e)
ToCount(e) ==
  Awaited("analytics", e) + Holds(ingest, {"check", "row", "failed"}, e)
    + Holds(bus_consumer, {"failed"}, e) + Fresh(e)
ToPay(e) == Awaited("payout", e) + Fresh(e)

\* With what became of the others: only a failure adds a copy.
CopiesCounted(e) ==
  /\ notes[e] + ToTell(e) <= 1 + failures
  /\ event_rows[e] + ToCount(e) <= 1 + failures
  /\ ToPay(e) <= 1 + resent[e]
  /\ delivered[e] + Holds(bus_consumer, {"enqueue"}, e) <= notes[e]

EventsInv ==
  /\ BusTables /\ RetriesCounted /\ TablesTrail /\ AnswersTrail
  /\ \A e \in BusEvents : CopiesCounted(e)

-----------------------------------------------------------------------------
(* Copies in a queue.                                                      *)

One(m, e) == IF m.event = e THEN 1 ELSE 0

(* A queue is finite. *)
LEMMA CopiesFinite ==
  ASSUME NEW M, NEW b \in Seq(M), NEW e
  PROVE  IsFiniteSet(CopiesIn(b, e)) /\ Cardinality(CopiesIn(b, e)) \in Nat
<1>1. Len(b) \in Nat /\ CopiesIn(b, e) \in SUBSET (1..Len(b))
  BY DEF CopiesIn
<1>2. IsFiniteSet(1..Len(b))
  BY <1>1, FS_Interval
<1>3. QED
  BY <1>1, <1>2, FS_Subset, FS_CardinalityType

(* A message at the end of a queue is one more. *)
LEMMA CopiesAppended ==
  ASSUME NEW M, NEW b \in Seq(M), NEW m \in M, NEW e
  PROVE  Cardinality(CopiesIn(Append(b, m), e)) = Cardinality(CopiesIn(b, e)) + One(m, e)
<1> DEFINE n == Len(b) + 1
<1>1. /\ Len(b) \in Nat /\ Len(Append(b, m)) = n /\ Append(b, m)[n] = m
      /\ \A i \in 1..Len(b) : Append(b, m)[i] = b[i]
  OBVIOUS
<1>2. IsFiniteSet(CopiesIn(b, e)) /\ Cardinality(CopiesIn(b, e)) \in Nat /\ n \notin CopiesIn(b, e)
  <2>1. IsFiniteSet(CopiesIn(b, e)) /\ Cardinality(CopiesIn(b, e)) \in Nat
    BY CopiesFinite
  <2>2. n \notin CopiesIn(b, e)
    BY <1>1 DEF CopiesIn
  <2>3. QED
    BY <2>1, <2>2
<1>3. CASE m.event = e
  <2>1. CopiesIn(Append(b, m), e) = CopiesIn(b, e) \cup {n}
    BY <1>1, <1>3 DEF CopiesIn
  <2>2. QED
    BY <1>2, <1>3, <2>1, FS_AddElement DEF One
<1>4. CASE m.event # e
  <2>1. CopiesIn(Append(b, m), e) = CopiesIn(b, e)
    BY <1>1, <1>4 DEF CopiesIn
  <2>2. QED
    BY <1>2, <1>4, <2>1 DEF One
<1>5. QED
  BY <1>3, <1>4

(* The head of a queue is one of it. *)
LEMMA CopiesOfTail ==
  ASSUME NEW M, NEW b \in Seq(M), b # <<>>, NEW e
  PROVE  Cardinality(CopiesIn(b, e)) = Cardinality(CopiesIn(Tail(b), e)) + One(Head(b), e)
<1> DEFINE T == CopiesIn(Tail(b), e)
           S == CopiesIn(b, e) \ {1}
           f == [i \in T |-> i + 1]
<1>1. /\ Len(b) \in Nat \ {0} /\ Tail(b) \in Seq(M) /\ Len(Tail(b)) = Len(b) - 1 /\ Head(b) = b[1]
      /\ \A i \in 1..Len(Tail(b)) : Tail(b)[i] = b[i + 1]
  OBVIOUS
<1>2. ExistsBijection(T, S)
  <2>1. T \subseteq Int /\ \A i \in T : i + 1 \in S
    BY <1>1 DEF CopiesIn
  <2>2. \A j \in S : j - 1 \in T /\ (j - 1) + 1 = j
    BY <1>1 DEF CopiesIn
  <2> HIDE DEF T, S
  <2>3. f \in [T -> S] /\ \A i, j \in T : f[i] = f[j] => i = j
    BY <2>1
  <2>4. \A j \in S : \E i \in T : f[i] = j
    BY <2>2
  <2>5. f \in Bijection(T, S)
    BY <2>3, <2>4 DEF Bijection, Injection, Surjection, IsInjective
  <2>6. QED
    BY <2>5 DEF ExistsBijection
<1>3. IsFiniteSet(T) /\ IsFiniteSet(CopiesIn(b, e)) /\ Cardinality(CopiesIn(b, e)) \in Nat
  BY <1>1, CopiesFinite
<1> HIDE DEF T, S
<1>4. Cardinality(S) = Cardinality(T)
  BY <1>2, <1>3, FS_Bijection
<1>5. Cardinality(S) = Cardinality(CopiesIn(b, e)) - One(Head(b), e)
  <2>1. 1 \in CopiesIn(b, e) <=> Head(b).event = e
    BY <1>1 DEF CopiesIn
  <2>2. Cardinality(CopiesIn(b, e) \ {1}) =
          IF 1 \in CopiesIn(b, e) THEN Cardinality(CopiesIn(b, e)) - 1 ELSE Cardinality(CopiesIn(b, e))
    BY <1>3, FS_RemoveElement
  <2>3. QED
    BY <1>3, <2>1, <2>2 DEF One, S
<1>6. One(Head(b), e) \in Nat
  BY DEF One
<1>7. QED
  BY <1>3, <1>4, <1>5, <1>6 DEF T

(* A message back at the head of a queue is one more. *)
LEMMA CopiesPutBack ==
  ASSUME NEW M, NEW b \in Seq(M), NEW m \in M, NEW e
  PROVE  Cardinality(CopiesIn(<<m>> \o b, e)) = Cardinality(CopiesIn(b, e)) + One(m, e)
<1>1. /\ <<m>> \o b \in Seq(M) /\ <<m>> \o b # <<>> /\ Head(<<m>> \o b) = m /\ Tail(<<m>> \o b) = b
  <2>1. /\ <<m>> \o b \in Seq(M) /\ Len(<<m>> \o b) = Len(b) + 1 /\ Len(b) \in Nat
        /\ (<<m>> \o b)[1] = m /\ \A i \in 1..Len(b) : (<<m>> \o b)[i + 1] = b[i]
    OBVIOUS
  <2>2. /\ <<m>> \o b # <<>> /\ Head(<<m>> \o b) = m
        /\ Tail(<<m>> \o b) \in Seq(M) /\ Len(Tail(<<m>> \o b)) = Len(b)
        /\ \A i \in 1..Len(b) : Tail(<<m>> \o b)[i] = b[i]
    BY <2>1
  <2>3. QED
    BY <2>1, <2>2
<1>2. QED
  BY <1>1, CopiesOfTail

-----------------------------------------------------------------------------
(* What the exchange does to the queues.                                   *)

(* An exchange appends at most one copy to a queue, of the event it is given. *)
LEMMA RouteKeeps ==
  ASSUME BusTypeOK, NEW d \in BusEvents, NEW k, NEW r \in 0..RetryLimit,
         Route([event |-> d, key |-> k, retries |-> r])
  PROVE  /\ boxes' \in [Queues -> Seq(BusMessage)]
         /\ \A q \in Queues : k \notin Binding[q] => boxes'[q] = boxes[q]
         /\ \A q \in Queues, e \in BusEvents :
              /\ Awaited(q, e) \in Nat /\ Awaited(q, e)' \in Nat
              /\ Awaited(q, e)' <= Awaited(q, e) + IF d = e THEN 1 ELSE 0
         /\ \A n \in Nat : r <= n =>
              \A q \in Queues : UpTo(boxes[q], n) => UpTo(boxes'[q], n)
<1> DEFINE m == [event |-> d, key |-> k, retries |-> r]
<1>1. boxes \in [Queues -> Seq(BusMessage)]
  BY DEF BusTypeOK
<1>2. boxes' = [q \in Queues |-> IF k \in Binding[q] THEN Append(boxes[q], m) ELSE boxes[q]]
  BY DEF Route
<1>3. m.event = d /\ m.retries = r
  OBVIOUS
<1>4. \A q \in Queues : k \in Binding[q] => m \in BusMessage
  BY DEF BusMessage, Keys
<1> HIDE DEF m
<1>5. boxes' \in [Queues -> Seq(BusMessage)]
  BY <1>1, <1>2, <1>4
<1>6. \A q \in Queues : k \notin Binding[q] => boxes'[q] = boxes[q]
  BY <1>2
<1>7. ASSUME NEW q \in Queues, NEW e \in BusEvents
      PROVE  /\ Awaited(q, e) \in Nat /\ Awaited(q, e)' \in Nat
             /\ Awaited(q, e)' <= Awaited(q, e) + IF d = e THEN 1 ELSE 0
  <2>1. boxes[q] \in Seq(BusMessage) /\ boxes'[q] \in Seq(BusMessage)
    BY <1>1, <1>5
  <2>2. Awaited(q, e) \in Nat /\ Awaited(q, e)' \in Nat
    BY <2>1, CopiesFinite DEF Awaited
  <2>3. CASE k \in Binding[q]
    <3>1. Cardinality(CopiesIn(Append(boxes[q], m), e)) = Awaited(q, e) + One(m, e)
      BY <1>4, <2>1, <2>3, CopiesAppended DEF Awaited
    <3>2. Awaited(q, e)' = Awaited(q, e) + One(m, e)
      BY <1>2, <2>3, <3>1 DEF Awaited
    <3>3. QED
      BY <1>3, <2>2, <3>2 DEF One
  <2>4. CASE k \notin Binding[q]
    <3>1. Awaited(q, e)' = Awaited(q, e)
      BY <1>6, <2>4 DEF Awaited
    <3>2. QED
      BY <2>2, <3>1
  <2>5. QED
    BY <2>3, <2>4
<1>8. ASSUME NEW n \in Nat, r <= n, NEW q \in Queues, UpTo(boxes[q], n)
      PROVE  UpTo(boxes'[q], n)
  <2>1. boxes[q] \in Seq(BusMessage)
    BY <1>1
  <2>2. CASE k \in Binding[q]
    <3>1. boxes'[q] = Append(boxes[q], m)
      BY <1>2, <2>2
    <3>2. QED
      BY <1>3, <1>8, <2>1, <3>1 DEF UpTo
  <2>3. QED
    BY <1>6, <1>8, <2>2
<1>9. QED
  BY <1>5, <1>6, <1>7, <1>8

(* A consumer takes the head of its queue. *)
LEMMA GetKeeps ==
  ASSUME BusTypeOK, NEW q \in Queues, boxes[q] # <<>>, Get(q)
  PROVE  /\ boxes' \in [Queues -> Seq(BusMessage)] /\ Head(boxes[q]) \in BusMessage
         /\ \A p \in Queues, e \in BusEvents :
              /\ Awaited(p, e) \in Nat /\ Awaited(p, e)' \in Nat
              /\ p # q => Awaited(p, e)' = Awaited(p, e)
         /\ \A e \in BusEvents : Awaited(q, e) = Awaited(q, e)' + One(Head(boxes[q]), e)
         /\ \A n \in Nat :
              /\ UpTo(boxes[q], n) => Head(boxes[q]).retries <= n
              /\ \A p \in Queues : UpTo(boxes[p], n) => UpTo(boxes'[p], n)
<1>1. boxes \in [Queues -> Seq(BusMessage)]
  BY DEF BusTypeOK
<1>2. /\ boxes'[q] = Tail(boxes[q]) /\ boxes' \in [Queues -> Seq(BusMessage)]
      /\ \A p \in Queues : p # q => boxes'[p] = boxes[p]
  BY <1>1 DEF Get
<1>3. /\ boxes[q] \in Seq(BusMessage) /\ Tail(boxes[q]) \in Seq(BusMessage)
      /\ Head(boxes[q]) \in BusMessage /\ Head(boxes[q]) = boxes[q][1] /\ 1 \in 1..Len(boxes[q])
      /\ \A i \in 1..Len(Tail(boxes[q])) :
           Tail(boxes[q])[i] = boxes[q][i + 1] /\ i + 1 \in 1..Len(boxes[q])
  BY <1>1
<1>4. ASSUME NEW p \in Queues, NEW e \in BusEvents
      PROVE  /\ Awaited(p, e) \in Nat /\ Awaited(p, e)' \in Nat
             /\ p # q => Awaited(p, e)' = Awaited(p, e)
  <2>1. boxes[p] \in Seq(BusMessage) /\ boxes'[p] \in Seq(BusMessage)
    BY <1>1, <1>2
  <2>2. QED
    BY <1>2, <2>1, CopiesFinite DEF Awaited
<1>5. ASSUME NEW e \in BusEvents
      PROVE  Awaited(q, e) = Awaited(q, e)' + One(Head(boxes[q]), e)
  BY <1>2, <1>3, CopiesOfTail DEF Awaited
<1>6. ASSUME NEW n \in Nat
      PROVE  /\ UpTo(boxes[q], n) => Head(boxes[q]).retries <= n
             /\ \A p \in Queues : UpTo(boxes[p], n) => UpTo(boxes'[p], n)
  <2>1. UpTo(boxes[q], n) => Head(boxes[q]).retries <= n /\ UpTo(Tail(boxes[q]), n)
    BY <1>3 DEF UpTo
  <2>2. QED
    BY <1>2, <2>1
<1>7. QED
  BY <1>2, <1>3, <1>4, <1>5, <1>6

(* An unacknowledged message is put back. *)
LEMMA PutBackKeeps ==
  ASSUME BusTypeOK, NEW q \in Queues, NEW m \in BusMessage, PutBack(q, m)
  PROVE  /\ boxes' \in [Queues -> Seq(BusMessage)]
         /\ \A p \in Queues, e \in BusEvents :
              /\ Awaited(p, e) \in Nat /\ Awaited(p, e)' \in Nat
              /\ p # q => Awaited(p, e)' = Awaited(p, e)
         /\ \A e \in BusEvents : Awaited(q, e)' = Awaited(q, e) + One(m, e)
         /\ \A n \in Nat : m.retries <= n =>
              \A p \in Queues : UpTo(boxes[p], n) => UpTo(boxes'[p], n)
<1>1. boxes \in [Queues -> Seq(BusMessage)]
  BY DEF BusTypeOK
<1>2. /\ boxes'[q] = <<m>> \o boxes[q] /\ boxes' \in [Queues -> Seq(BusMessage)]
      /\ \A p \in Queues : p # q => boxes'[p] = boxes[p]
  BY <1>1 DEF PutBack
<1>3. boxes[q] \in Seq(BusMessage)
  BY <1>1
<1>4. ASSUME NEW p \in Queues, NEW e \in BusEvents
      PROVE  /\ Awaited(p, e) \in Nat /\ Awaited(p, e)' \in Nat
             /\ p # q => Awaited(p, e)' = Awaited(p, e)
  <2>1. boxes[p] \in Seq(BusMessage) /\ boxes'[p] \in Seq(BusMessage)
    BY <1>1, <1>2
  <2>2. QED
    BY <1>2, <2>1, CopiesFinite DEF Awaited
<1>5. ASSUME NEW e \in BusEvents
      PROVE  Awaited(q, e)' = Awaited(q, e) + One(m, e)
  BY <1>2, <1>3, CopiesPutBack DEF Awaited
<1>6. ASSUME NEW n \in Nat, m.retries <= n, NEW p \in Queues, UpTo(boxes[p], n)
      PROVE  UpTo(boxes'[p], n)
  <2>1. \A i \in 1..Len(<<m>> \o boxes[q]) :
          \/ (<<m>> \o boxes[q])[i] = m
          \/ \E j \in 1..Len(boxes[q]) : (<<m>> \o boxes[q])[i] = boxes[q][j]
    BY <1>3
  <2>2. CASE p = q
    <3>1. UpTo(<<m>> \o boxes[q], n)
      BY <1>6, <2>1, <2>2 DEF UpTo
    <3>2. QED
      BY <1>2, <2>2, <3>1
  <2>3. QED
    BY <1>2, <1>6, <2>2
<1>7. QED
  BY <1>2, <1>4, <1>5, <1>6

-----------------------------------------------------------------------------
(* The parts of the invariant that a step leaves alone.                    *)

(* Where the consumers are. *)
LEMMA ConsumersType ==
  ASSUME BusTables
  PROVE  /\ ingest.pc \in IngestPoints /\ bus_consumer.pc \in NotePoints
         /\ \A c \in {ingest, bus_consumer} :
              /\ c.msg \in BusMessage /\ c.msg.event \in BusEvents /\ c.msg.retries \in 0..RetryLimit
BY DEF BusTables, BusMessage

(* The numbers of an event are natural numbers. *)
LEMMA NumbersType ==
  ASSUME BusTables, NEW e \in BusEvents
  PROVE  /\ notes[e] \in Nat /\ delivered[e] \in Nat /\ resent[e] \in Nat /\ event_rows[e] \in Nat
         /\ failures \in Nat
         /\ \A q \in Queues : Awaited(q, e) \in Nat
<1>1. ASSUME NEW q \in Queues PROVE Awaited(q, e) \in Nat
  <2>1. boxes[q] \in Seq(BusMessage)
    BY DEF BusTables, BusTypeOK
  <2>2. QED
    BY <2>1, CopiesFinite DEF Awaited
<1>2. QED
  BY <1>1 DEF BusTables

(* The rows are counted by a natural number. *)
LEMMA RowsType ==
  ASSUME BusTables
  PROVE  Rows \in Nat /\ RowCount = Rows
<1>1. \A e \in BusEvents : event_rows[e] \in Nat
  BY DEF BusTables
<1>2. RowCount = Rows
  BY DEF RowCount, Rows, MapThenSumSet, Total, FoldFunctionOnSet
<1>3. QED
  BY <1>1, <1>2, ExchangeAssumption, TotalIsNat DEF Rows

(* A step that commits nothing keeps the tables and the answers in order. *)
LEMMA TablesKept ==
  ASSUME BusTables, TablesTrail, AnswersTrail,
         failures' = failures \/ failures' = failures + 1,
         UNCHANGED <<event_rows, metrics, stats>>, cache' \in {cache, <<>>}, UNCHANGED reader,
         ingest'.pc = "metrics" => ingest.pc = "metrics", ingest'.pc = "stats" => ingest.pc = "stats",
         ingest.pc \in {"metrics", "stats"} /\ ingest'.pc # ingest.pc => failures' = failures + 1,
         \A e \in Identified \cap BusEvents :
           ingest'.pc = "row" /\ ingest'.msg.event = e => event_rows[e] = 0
  PROVE  TablesTrail' /\ AnswersTrail'
<1>1. Rows' = Rows
  BY DEF Rows
<1>2. AnswersTrail'
  BY <1>1 DEF AnswersTrail
<1>3. failures \in Nat /\ Rows \in Nat /\ metrics \in Nat /\ stats \in Nat
  BY RowsType DEF BusTables, TablesTrail
<1>4. /\ IfAt({"metrics"})' <= IfAt({"metrics"}) /\ IfAt({"stats"})' <= IfAt({"stats"})
      /\ failures + IfAt({"metrics", "stats"}) <= failures' + IfAt({"metrics", "stats"})'
      /\ IfAt({"metrics"}) \in Nat /\ IfAt({"stats"}) \in Nat /\ IfAt({"metrics", "stats"}) \in Nat
      /\ IfAt({"metrics"})' \in Nat /\ IfAt({"stats"})' \in Nat /\ IfAt({"metrics", "stats"})' \in Nat
  BY <1>3 DEF IfAt
<1>5. /\ metrics' + IfAt({"metrics"})' <= Rows' /\ stats' + IfAt({"stats"})' <= metrics'
      /\ Rows' - stats' <= failures' + IfAt({"metrics", "stats"})'
  BY <1>1, <1>3, <1>4 DEF TablesTrail
<1>6. \A e \in Identified \cap BusEvents :
        /\ event_rows'[e] <= 1
        /\ ingest'.pc = "row" /\ ingest'.msg.event = e => event_rows'[e] = 0
  BY DEF TablesTrail
<1>7. TablesTrail'
  BY <1>3, <1>5, <1>6 DEF TablesTrail
<1>8. QED
  BY <1>2, <1>7

(* A consumer without a message is one. *)
LEMMA RestType ==
  Rest \in [pc : {"idle"}, msg : BusMessage] /\ Rest.pc = "idle" /\ Rest.msg.retries = 0
<1>1. Keys # {}
  BY ExchangeAssumption, EventBusAssumption DEF Keys
<1>2. Nothing \in BusMessage /\ Nothing.retries = 0
  BY <1>1, ExchangeAssumption, EventBusAssumption DEF Nothing, BusMessage
<1>3. QED
  BY <1>2 DEF Rest

(* What was published again so often, was so after one more failure. *)
LEMMA UpToMore ==
  ASSUME NEW b \in Seq(BusMessage), NEW m \in Nat, NEW n \in Nat, m <= n, UpTo(b, m)
  PROVE  UpTo(b, n)
<1>1. ASSUME NEW i \in 1..Len(b) PROVE b[i].retries \in Nat
  <2>1. b[i] \in BusMessage
    OBVIOUS
  <2>2. QED
    BY <2>1, EventBusAssumption DEF BusMessage
<1>2. QED
  BY <1>1 DEF UpTo

\* A fault is counted, and nothing else is.
Faulty == failures' = failures \/ failures' = failures + 1

(* A step of the analytics consumer that leaves the queues alone. *)
LEMMA IngestMovesKeep ==
  ASSUME BusTables, RetriesCounted, UNCHANGED <<busVars, noteVars, resent>>, Faulty,
         ingest' \in [pc : IngestPoints, msg : BusMessage], ingest'.msg.retries <= failures,
         ingest'.pc = "failed" => failures' = failures + 1,
         event_rows' \in [BusEvents -> Nat],
         NEW e \in BusEvents, CopiesCounted(e),
         event_rows'[e] + Holds(ingest', {"check", "row", "failed"}, e) + failures <=
           event_rows[e] + Holds(ingest, {"check", "row", "failed"}, e) + failures'
  PROVE  BusTables' /\ RetriesCounted' /\ CopiesCounted(e)'
<1>1. /\ UNCHANGED <<boxes, dead, published, bus_consumer, notes, delivered, resent>>
      /\ failures \in Nat /\ failures' \in Nat /\ failures <= failures'
  BY DEF busVars, noteVars, BusTables, Faulty
<1>2. BusTables'
  BY <1>1 DEF BusTables, BusTypeOK
<1>3. RetriesCounted'
  <2>1. \A q \in Queues : UpTo(boxes'[q], failures')
    <3>1. \A q \in Queues : boxes[q] \in Seq(BusMessage) /\ UpTo(boxes[q], failures)
      BY DEF RetriesCounted, BusTables, BusTypeOK
    <3>2. QED
      BY <1>1, <3>1, UpToMore
  <2>2. ingest'.msg.retries \in Nat /\ bus_consumer.msg.retries \in Nat
    BY ConsumersType, EventBusAssumption DEF BusMessage
  <2>3. Within(ingest', failures') /\ Within(bus_consumer', failures')
    BY <1>1, <2>2 DEF RetriesCounted, Within, Faulty
  <2>4. DeadAfterRetries'
    BY <1>1, EventBusAssumption DEF RetriesCounted, DeadAfterRetries
  <2>5. QED
    BY <2>1, <2>3, <2>4 DEF RetriesCounted
<1>4. \A q \in Queues : Awaited(q, e)' = Awaited(q, e)
  BY <1>1 DEF Awaited
<1>5. Fresh(e)' = Fresh(e) /\ Fresh(e) \in Nat
  BY <1>1 DEF Fresh
<1>6. \A pcs : Holds(bus_consumer', pcs, e) = Holds(bus_consumer, pcs, e) /\ Holds(bus_consumer, pcs, e) \in Nat
  BY <1>1 DEF Holds
<1>7. /\ Holds(ingest', {"failed"}, e) + failures <= Holds(ingest, {"failed"}, e) + failures'
      /\ \A pcs : Holds(ingest, pcs, e) \in Nat /\ Holds(ingest', pcs, e) \in Nat
  <2>1. \A pcs : Holds(ingest, pcs, e) \in Nat /\ Holds(ingest', pcs, e) \in Nat
    BY DEF Holds
  <2>2. Holds(ingest', {"failed"}, e) = 0 \/ (Holds(ingest', {"failed"}, e) = 1 /\ failures' = failures + 1)
    BY DEF Holds
  <2>3. QED
    BY <1>1, <2>1, <2>2
<1>8. /\ notes[e] \in Nat /\ delivered[e] \in Nat /\ resent[e] \in Nat /\ event_rows[e] \in Nat
      /\ event_rows'[e] \in Nat /\ \A q \in Queues : Awaited(q, e) \in Nat
  BY NumbersType
<1>9. {"analytics", "notification", "payout"} \subseteq Queues
  BY ExchangeAssumption
<1>10. CopiesCounted(e)'
  BY <1>1, <1>4, <1>5, <1>6, <1>7, <1>8, <1>9 DEF CopiesCounted, ToTell, ToCount, ToPay
<1>11. QED
  BY <1>2, <1>3, <1>10

(* A step of the notification consumer that leaves the queues alone. *)
LEMMA NoteMovesKeep ==
  ASSUME BusTables, RetriesCounted, UNCHANGED <<busVars, event_rows, ingest, resent>>, Faulty,
         bus_consumer' \in [pc : NotePoints, msg : BusMessage], bus_consumer'.msg.retries <= failures,
         bus_consumer'.pc = "failed" => failures' = failures + 1,
         notes' \in [BusEvents -> Nat], delivered' \in [BusEvents -> Nat],
         NEW e \in BusEvents, CopiesCounted(e),
         notes'[e] + Holds(bus_consumer', {"create", "failed"}, e) + failures <=
           notes[e] + Holds(bus_consumer, {"create", "failed"}, e) + failures',
         delivered'[e] + Holds(bus_consumer', {"enqueue"}, e) + notes[e] <=
           delivered[e] + Holds(bus_consumer, {"enqueue"}, e) + notes'[e]
  PROVE  BusTables' /\ RetriesCounted' /\ CopiesCounted(e)'
<1>1. /\ UNCHANGED <<boxes, dead, published, ingest, resent, event_rows>>
      /\ failures \in Nat /\ failures' \in Nat /\ failures <= failures'
  BY DEF busVars, BusTables, Faulty
<1>2. BusTables'
  BY <1>1 DEF BusTables, BusTypeOK
<1>3. RetriesCounted'
  <2>1. \A q \in Queues : UpTo(boxes'[q], failures')
    <3>1. \A q \in Queues : boxes[q] \in Seq(BusMessage) /\ UpTo(boxes[q], failures)
      BY DEF RetriesCounted, BusTables, BusTypeOK
    <3>2. QED
      BY <1>1, <3>1, UpToMore
  <2>2. ingest.msg.retries \in Nat /\ bus_consumer'.msg.retries \in Nat
    BY ConsumersType, EventBusAssumption DEF BusMessage
  <2>3. Within(ingest', failures') /\ Within(bus_consumer', failures')
    BY <1>1, <2>2 DEF RetriesCounted, Within, Faulty
  <2>4. DeadAfterRetries'
    BY <1>1, EventBusAssumption DEF RetriesCounted, DeadAfterRetries
  <2>5. QED
    BY <2>1, <2>3, <2>4 DEF RetriesCounted
<1>4. \A q \in Queues : Awaited(q, e)' = Awaited(q, e)
  BY <1>1 DEF Awaited
<1>5. Fresh(e)' = Fresh(e) /\ Fresh(e) \in Nat
  BY <1>1 DEF Fresh
<1>6. \A pcs : Holds(ingest', pcs, e) = Holds(ingest, pcs, e) /\ Holds(ingest, pcs, e) \in Nat
  BY <1>1 DEF Holds
<1>7. /\ Holds(bus_consumer', {"failed"}, e) + failures <= Holds(bus_consumer, {"failed"}, e) + failures'
      /\ \A pcs : Holds(bus_consumer, pcs, e) \in Nat /\ Holds(bus_consumer', pcs, e) \in Nat
  <2>1. \A pcs : Holds(bus_consumer, pcs, e) \in Nat /\ Holds(bus_consumer', pcs, e) \in Nat
    BY DEF Holds
  <2>2. Holds(bus_consumer', {"failed"}, e) = 0 \/ (Holds(bus_consumer', {"failed"}, e) = 1 /\ failures' = failures + 1)
    BY DEF Holds
  <2>3. QED
    BY <1>1, <2>1, <2>2
<1>8. /\ notes[e] \in Nat /\ delivered[e] \in Nat /\ resent[e] \in Nat /\ event_rows[e] \in Nat
      /\ notes'[e] \in Nat /\ delivered'[e] \in Nat /\ \A q \in Queues : Awaited(q, e) \in Nat
  BY NumbersType
<1>9. {"analytics", "notification", "payout"} \subseteq Queues
  BY ExchangeAssumption
<1>10. CopiesCounted(e)'
  BY <1>1, <1>4, <1>5, <1>6, <1>7, <1>8, <1>9 DEF CopiesCounted, ToTell, ToCount, ToPay
<1>11. QED
  BY <1>2, <1>3, <1>10

(* A step that moves messages between queues and consumers. *)
LEMMA QueueMovesKeep ==
  ASSUME BusTables, RetriesCounted, Faulty, UNCHANGED <<notes, delivered, event_rows>>,
         boxes' \in [Queues -> Seq(BusMessage)], published' \subseteq BusEvents,
         \A q \in Queues : UpTo(boxes[q], failures) => UpTo(boxes'[q], failures),
         dead' = dead \/ (dead' \in [Queues -> SUBSET BusEvents] /\ failures > RetryLimit),
         resent' \in [BusEvents -> Nat],
         ingest' \in [pc : IngestPoints, msg : BusMessage], Within(ingest', failures'),
         bus_consumer' \in [pc : NotePoints, msg : BusMessage], Within(bus_consumer', failures')
  PROVE  BusTables' /\ RetriesCounted'
<1>1. failures \in Nat /\ failures' \in Nat /\ failures <= failures'
  BY DEF BusTables, Faulty
<1>2. BusTables'
  BY <1>1 DEF BusTables, BusTypeOK
<1>3. \A q \in Queues : UpTo(boxes'[q], failures')
  <2>1. \A q \in Queues : boxes'[q] \in Seq(BusMessage) /\ UpTo(boxes'[q], failures)
    BY DEF RetriesCounted
  <2>2. QED
    BY <1>1, <2>1, UpToMore
<1>4. DeadAfterRetries'
  BY <1>1, EventBusAssumption DEF RetriesCounted, DeadAfterRetries
<1>5. QED
  BY <1>2, <1>3, <1>4 DEF RetriesCounted

(* A consumer's place counts for one event, its own. *)
LEMMA HoldsOne ==
  ASSUME NEW c, NEW pcs, NEW e
  PROVE  /\ Holds(c, pcs, e) \in {0, 1}
         /\ c.pc \in pcs => Holds(c, pcs, e) = One(c.msg, e)
         /\ c.pc \notin pcs => Holds(c, pcs, e) = 0
BY DEF Holds, One

(* What is on the way is counted by natural numbers. *)
LEMMA OnTheWayType ==
  ASSUME BusTables, NEW e \in BusEvents
  PROVE  /\ ToTell(e) \in Nat /\ ToCount(e) \in Nat /\ ToPay(e) \in Nat
         /\ Fresh(e) \in Nat
         /\ \A q \in {"analytics", "notification", "payout"} : Awaited(q, e) \in Nat
<1>1. \A q \in {"analytics", "notification", "payout"} : Awaited(q, e) \in Nat
  BY NumbersType, ExchangeAssumption
<1>2. Fresh(e) \in Nat
  BY DEF Fresh
<1>3. \A c, pcs : Holds(c, pcs, e) \in Nat
  BY HoldsOne
<1>4. QED
  BY <1>1, <1>2, <1>3 DEF ToTell, ToCount, ToPay

OnTheWay == \A e \in BusEvents : ToTell(e) \in Nat /\ ToCount(e) \in Nat /\ ToPay(e) \in Nat

(* The same as a fact of every state, so that it can be used for the next one. *)
LEMMA OnTheWayTyped == BusTables => OnTheWay
BY OnTheWayType DEF OnTheWay

(* What is on the way in the next state is counted so too. *)
LEMMA OnTheWayNext ==
  ASSUME BusTables', NEW e \in BusEvents
  PROVE  ToTell(e)' \in Nat /\ ToCount(e)' \in Nat /\ ToPay(e)' \in Nat
<1>1. BusTables' => OnTheWay'
  BY OnTheWayTyped, PTL
<1>2. QED
  BY <1>1 DEF OnTheWay

(* A step that only moves copies keeps them counted. *)
LEMMA CountsMove ==
  ASSUME BusTables, BusTables', NEW e \in BusEvents, CopiesCounted(e), Faulty,
         UNCHANGED <<notes, delivered, event_rows>>,
         ToTell(e)' + failures <= ToTell(e) + failures',
         ToCount(e)' + failures <= ToCount(e) + failures',
         ToPay(e)' + resent[e] <= ToPay(e) + resent'[e],
         Holds(bus_consumer', {"enqueue"}, e) <= Holds(bus_consumer, {"enqueue"}, e)
  PROVE  CopiesCounted(e)'
<1>1. ToTell(e) \in Nat /\ ToCount(e) \in Nat /\ ToPay(e) \in Nat
  BY OnTheWayType
<1>3. ToTell(e)' \in Nat /\ ToCount(e)' \in Nat /\ ToPay(e)' \in Nat
  BY OnTheWayNext
<1>4. /\ failures \in Nat /\ failures' \in Nat /\ notes[e] \in Nat /\ event_rows[e] \in Nat
      /\ resent[e] \in Nat /\ resent'[e] \in Nat /\ delivered[e] \in Nat
  BY DEF BusTables
<1>5. Holds(bus_consumer', {"enqueue"}, e) \in Nat /\ Holds(bus_consumer, {"enqueue"}, e) \in Nat
  BY HoldsOne
<1>6. CopiesCounted(e)'
  <2>1. notes'[e] + ToTell(e)' <= 1 + failures'
    BY <1>1, <1>3, <1>4 DEF CopiesCounted
  <2>2. event_rows'[e] + ToCount(e)' <= 1 + failures'
    BY <1>1, <1>3, <1>4 DEF CopiesCounted
  <2>3. ToPay(e)' <= 1 + resent'[e]
    BY <1>1, <1>3, <1>4 DEF CopiesCounted
  <2>4. delivered'[e] + Holds(bus_consumer', {"enqueue"}, e) <= notes'[e]
    BY <1>4, <1>5 DEF CopiesCounted
  <2>5. QED
    BY <2>1, <2>2, <2>3, <2>4 DEF CopiesCounted
<1>7. QED
  BY <1>6

(* A producer publishes an event. *)
LEMMA PublishEventKeeps ==
  ASSUME EventsInv, NEW x \in BusEvents, PublishEvent(x), UNCHANGED <<analyticsVars, noteVars>>
  PROVE  EventsInv'
<1>1. BusTables /\ RetriesCounted /\ TablesTrail /\ AnswersTrail
  BY DEF EventsInv
<1>2. /\ UNCHANGED <<event_rows, metrics, stats, cache, ingest, reader, resent, failures>>
      /\ UNCHANGED <<bus_consumer, notes, delivered, dead>>
      /\ x \notin published /\ published' = published \cup {x}
      /\ Route([event |-> x, key |-> RoutingKey[x], retries |-> 0])
  BY DEF analyticsVars, noteVars, PublishEvent
<1>3. 0 \in 0..RetryLimit /\ failures \in Nat /\ BusTypeOK /\ published \subseteq BusEvents
  BY <1>1, EventBusAssumption DEF BusTables, BusTypeOK
<1>4. /\ boxes' \in [Queues -> Seq(BusMessage)]
      /\ \A q \in Queues, e \in BusEvents :
           /\ Awaited(q, e) \in Nat /\ Awaited(q, e)' \in Nat
           /\ Awaited(q, e)' <= Awaited(q, e) + IF x = e THEN 1 ELSE 0
      /\ \A n \in Nat : 0 <= n =>
           \A q \in Queues : UpTo(boxes[q], n) => UpTo(boxes'[q], n)
  BY <1>2, <1>3, RouteKeeps
<1>5. Within(ingest', failures') /\ Within(bus_consumer', failures')
  BY <1>1, <1>2 DEF RetriesCounted
<1>6. BusTables' /\ RetriesCounted'
  <2>1. \A q \in Queues : UpTo(boxes[q], failures) => UpTo(boxes'[q], failures)
    BY <1>3, <1>4
  <2>2. published' \subseteq BusEvents
    BY <1>2, <1>3
  <2>3. /\ resent' \in [BusEvents -> Nat] /\ ingest' \in [pc : IngestPoints, msg : BusMessage]
        /\ bus_consumer' \in [pc : NotePoints, msg : BusMessage] /\ Faulty
    BY <1>1, <1>2 DEF BusTables, Faulty
  <2>4. QED
    BY <1>1, <1>2, <1>4, <1>5, <2>1, <2>2, <2>3, QueueMovesKeep
<1>7. TablesTrail' /\ AnswersTrail'
  <2>1. \A e \in Identified \cap BusEvents :
          ingest'.pc = "row" /\ ingest'.msg.event = e => event_rows[e] = 0
    BY <1>1, <1>2 DEF TablesTrail
  <2>2. QED
    BY <1>1, <1>2, <2>1, TablesKept
<1>8. ASSUME NEW e \in BusEvents PROVE CopiesCounted(e)'
  <2>1. CopiesCounted(e)
    BY DEF EventsInv
  <2>2. Fresh(e)' + (IF x = e THEN 1 ELSE 0) <= Fresh(e) /\ Fresh(e) \in Nat /\ Fresh(e)' \in Nat
    BY <1>2 DEF Fresh
  <2>3. /\ Holds(ingest', {"failed"}, e) = Holds(ingest, {"failed"}, e)
        /\ Holds(ingest', {"check", "row", "failed"}, e) = Holds(ingest, {"check", "row", "failed"}, e)
        /\ \A pcs : Holds(bus_consumer', pcs, e) = Holds(bus_consumer, pcs, e)
    BY <1>2
  <2>4. /\ Holds(ingest, {"failed"}, e) \in Nat /\ Holds(ingest, {"check", "row", "failed"}, e) \in Nat
        /\ \A pcs : Holds(bus_consumer, pcs, e) \in Nat
    BY HoldsOne
  <2>5. \A q \in {"analytics", "notification", "payout"} :
          /\ Awaited(q, e) \in Nat /\ Awaited(q, e)' \in Nat
          /\ Awaited(q, e)' <= Awaited(q, e) + IF x = e THEN 1 ELSE 0
    BY <1>4, ExchangeAssumption
  <2>6. ToTell(e)' <= ToTell(e)
    BY <2>2, <2>3, <2>4, <2>5 DEF ToTell
  <2>7. ToCount(e)' <= ToCount(e)
    BY <2>2, <2>3, <2>4, <2>5 DEF ToCount
  <2>8. ToPay(e)' <= ToPay(e)
    BY <2>2, <2>5 DEF ToPay
  <2>9. /\ Holds(bus_consumer', {"enqueue"}, e) <= Holds(bus_consumer, {"enqueue"}, e)
        /\ Faulty /\ resent[e] \in Nat
    BY <1>1, <1>2, <2>3, <2>4, NumbersType DEF Faulty
  <2>10. /\ ToTell(e)' + failures <= ToTell(e) + failures'
         /\ ToCount(e)' + failures <= ToCount(e) + failures'
         /\ ToPay(e)' + resent[e] <= ToPay(e) + resent'[e]
    <3>1. ToTell(e) \in Nat /\ ToCount(e) \in Nat /\ ToPay(e) \in Nat
      BY <1>1, OnTheWayType
    <3>2. ToTell(e)' \in Nat /\ ToCount(e)' \in Nat /\ ToPay(e)' \in Nat
      BY <1>6, OnTheWayNext
    <3>3. QED
      BY <1>2, <1>3, <2>6, <2>7, <2>8, <2>9, <3>1, <3>2
  <2>11. QED
    BY <1>1, <1>2, <1>6, <2>1, <2>9, <2>10, CountsMove
<1>9. QED
  BY <1>6, <1>7, <1>8 DEF EventsInv

(* The analytics consumer takes a message. *)
LEMMA IngestTakeKeeps ==
  ASSUME EventsInv, IngestTake, UNCHANGED noteVars
  PROVE  EventsInv'
<1> DEFINE h == Head(boxes["analytics"])
<1>1. BusTables /\ RetriesCounted /\ TablesTrail /\ AnswersTrail
  BY DEF EventsInv
<1>2. /\ UNCHANGED <<event_rows, metrics, stats, cache, reader, resent, failures, dead, published>>
      /\ UNCHANGED <<bus_consumer, notes, delivered>>
      /\ ingest.pc = "idle" /\ ingest' = [pc |-> "check", msg |-> h]
      /\ boxes["analytics"] # <<>> /\ Get("analytics")
  BY DEF tableVars, noteVars, IngestTake, IngestAt, Waiting
<1>3. failures \in Nat /\ BusTypeOK /\ published \subseteq BusEvents
  BY <1>1 DEF BusTables, BusTypeOK
<1>4. {"analytics", "notification", "payout"} \subseteq Queues
  BY ExchangeAssumption
<1>5. /\ boxes' \in [Queues -> Seq(BusMessage)] /\ h \in BusMessage
      /\ \A p \in Queues, e \in BusEvents :
           /\ Awaited(p, e) \in Nat /\ Awaited(p, e)' \in Nat
           /\ p # "analytics" => Awaited(p, e)' = Awaited(p, e)
      /\ \A e \in BusEvents : Awaited("analytics", e) = Awaited("analytics", e)' + One(h, e)
      /\ \A n \in Nat :
           /\ UpTo(boxes["analytics"], n) => h.retries <= n
           /\ \A p \in Queues : UpTo(boxes[p], n) => UpTo(boxes'[p], n)
  BY <1>2, <1>3, <1>4, GetKeeps
<1> HIDE DEF h
<1>6. BusTables' /\ RetriesCounted'
  <2>1. \A q \in Queues : UpTo(boxes[q], failures) => UpTo(boxes'[q], failures)
    BY <1>3, <1>5
  <2>2. ingest' \in [pc : IngestPoints, msg : BusMessage] /\ ingest'.pc = "check" /\ ingest'.msg = h
    BY <1>2, <1>5 DEF IngestPoints
  <2>3. h.retries <= failures
    BY <1>1, <1>3, <1>4, <1>5 DEF RetriesCounted
  <2>4. Within(ingest', failures') /\ Within(bus_consumer', failures')
    BY <1>1, <1>2, <2>2, <2>3 DEF RetriesCounted, Within
  <2>5. /\ resent' \in [BusEvents -> Nat] /\ published' \subseteq BusEvents
        /\ bus_consumer' \in [pc : NotePoints, msg : BusMessage] /\ Faulty
    BY <1>1, <1>2, <1>3 DEF BusTables, Faulty
  <2>6. QED
    BY <1>1, <1>2, <1>5, <2>1, <2>2, <2>4, <2>5, QueueMovesKeep
<1>7. TablesTrail' /\ AnswersTrail'
  BY <1>1, <1>2, TablesKept
<1>8. ASSUME NEW e \in BusEvents PROVE CopiesCounted(e)'
  <2>1. CopiesCounted(e)
    BY DEF EventsInv
  <2>2. Fresh(e)' = Fresh(e) /\ Fresh(e) \in Nat
    BY <1>2 DEF Fresh
  <2>3. \A pcs : /\ Holds(bus_consumer', pcs, e) = Holds(bus_consumer, pcs, e)
                 /\ Holds(bus_consumer, pcs, e) \in Nat
    BY <1>2, HoldsOne
  <2>4. /\ Holds(ingest, {"failed"}, e) = 0 /\ Holds(ingest, {"check", "row", "failed"}, e) = 0
        /\ Holds(ingest', {"failed"}, e) = 0
        /\ Holds(ingest', {"check", "row", "failed"}, e) = One(h, e) /\ One(h, e) \in Nat
    BY <1>2 DEF Holds, One
  <2>5. /\ Awaited("notification", e)' = Awaited("notification", e)
        /\ Awaited("payout", e)' = Awaited("payout", e)
        /\ Awaited("analytics", e) = Awaited("analytics", e)' + One(h, e)
        /\ \A q \in {"analytics", "notification", "payout"} : Awaited(q, e) \in Nat /\ Awaited(q, e)' \in Nat
    BY <1>4, <1>5
  <2>6. ToTell(e)' <= ToTell(e)
    BY <2>2, <2>3, <2>4, <2>5 DEF ToTell
  <2>7. ToCount(e)' <= ToCount(e)
    BY <2>2, <2>3, <2>4, <2>5 DEF ToCount
  <2>8. ToPay(e)' <= ToPay(e)
    BY <2>2, <2>5 DEF ToPay
  <2>9. /\ Holds(bus_consumer', {"enqueue"}, e) <= Holds(bus_consumer, {"enqueue"}, e)
        /\ Faulty /\ resent[e] \in Nat
    BY <1>1, <1>2, <2>3, NumbersType DEF Faulty
  <2>10. /\ ToTell(e)' + failures <= ToTell(e) + failures'
         /\ ToCount(e)' + failures <= ToCount(e) + failures'
         /\ ToPay(e)' + resent[e] <= ToPay(e) + resent'[e]
    <3>1. ToTell(e) \in Nat /\ ToCount(e) \in Nat /\ ToPay(e) \in Nat
      BY <1>1, OnTheWayType
    <3>2. ToTell(e)' \in Nat /\ ToCount(e)' \in Nat /\ ToPay(e)' \in Nat
      BY <1>6, OnTheWayNext
    <3>3. QED
      BY <1>2, <1>3, <2>6, <2>7, <2>8, <2>9, <3>1, <3>2
  <2>11. QED
    BY <1>1, <1>2, <1>6, <2>1, <2>9, <2>10, CountsMove
<1>9. QED
  BY <1>6, <1>7, <1>8 DEF EventsInv

(* The notification service's bus thread takes a message. *)
LEMMA HandleMessageKeeps ==
  ASSUME EventsInv, HandleMessage
  PROVE  EventsInv'
<1> DEFINE h == Head(boxes["notification"])
<1>1. BusTables /\ RetriesCounted /\ TablesTrail /\ AnswersTrail
  BY DEF EventsInv
<1>2. /\ UNCHANGED <<event_rows, metrics, stats, cache, ingest, reader, resent, failures>>
      /\ UNCHANGED <<dead, published, notes, delivered>>
      /\ bus_consumer.pc = "idle"
      /\ bus_consumer' = [pc |-> IF h.event \in Announced THEN "create" ELSE "ack", msg |-> h]
      /\ boxes["notification"] # <<>> /\ Get("notification")
  BY DEF analyticsVars, HandleMessage, NoteAt, Waiting
<1>3. failures \in Nat /\ BusTypeOK /\ published \subseteq BusEvents
  BY <1>1 DEF BusTables, BusTypeOK
<1>4. {"analytics", "notification", "payout"} \subseteq Queues
  BY ExchangeAssumption
<1>5. /\ boxes' \in [Queues -> Seq(BusMessage)] /\ h \in BusMessage
      /\ \A p \in Queues, e \in BusEvents :
           /\ Awaited(p, e) \in Nat /\ Awaited(p, e)' \in Nat
           /\ p # "notification" => Awaited(p, e)' = Awaited(p, e)
      /\ \A e \in BusEvents : Awaited("notification", e) = Awaited("notification", e)' + One(h, e)
      /\ \A n \in Nat :
           /\ UpTo(boxes["notification"], n) => h.retries <= n
           /\ \A p \in Queues : UpTo(boxes[p], n) => UpTo(boxes'[p], n)
  BY <1>2, <1>3, <1>4, GetKeeps
<1> HIDE DEF h
<1>6. BusTables' /\ RetriesCounted'
  <2>1. \A q \in Queues : UpTo(boxes[q], failures) => UpTo(boxes'[q], failures)
    BY <1>3, <1>5
  <2>2. /\ bus_consumer' \in [pc : NotePoints, msg : BusMessage]
        /\ bus_consumer'.pc # "failed" /\ bus_consumer'.msg = h
    BY <1>2, <1>5 DEF NotePoints
  <2>3. h.retries <= failures
    BY <1>1, <1>3, <1>4, <1>5 DEF RetriesCounted
  <2>4. Within(ingest', failures') /\ Within(bus_consumer', failures')
    BY <1>1, <1>2, <2>2, <2>3 DEF RetriesCounted, Within
  <2>5. /\ resent' \in [BusEvents -> Nat] /\ published' \subseteq BusEvents
        /\ ingest' \in [pc : IngestPoints, msg : BusMessage] /\ Faulty
    BY <1>1, <1>2, <1>3 DEF BusTables, Faulty
  <2>6. QED
    BY <1>1, <1>2, <1>5, <2>1, <2>2, <2>4, <2>5, QueueMovesKeep
<1>7. TablesTrail' /\ AnswersTrail'
  <2>1. \A e \in Identified \cap BusEvents :
          ingest'.pc = "row" /\ ingest'.msg.event = e => event_rows[e] = 0
    BY <1>1, <1>2 DEF TablesTrail
  <2>2. QED
    BY <1>1, <1>2, <2>1, TablesKept
<1>8. ASSUME NEW e \in BusEvents PROVE CopiesCounted(e)'
  <2>1. CopiesCounted(e)
    BY DEF EventsInv
  <2>2. Fresh(e)' = Fresh(e) /\ Fresh(e) \in Nat
    BY <1>2 DEF Fresh
  <2>3. \A pcs : Holds(ingest', pcs, e) = Holds(ingest, pcs, e) /\ Holds(ingest, pcs, e) \in Nat
    BY <1>2, HoldsOne
  <2>4. /\ Holds(bus_consumer, {"create", "failed"}, e) = 0 /\ Holds(bus_consumer, {"failed"}, e) = 0
        /\ Holds(bus_consumer, {"enqueue"}, e) = 0
        /\ Holds(bus_consumer', {"failed"}, e) = 0 /\ Holds(bus_consumer', {"enqueue"}, e) = 0
        /\ Holds(bus_consumer', {"create", "failed"}, e) \in {0, One(h, e)} /\ One(h, e) \in {0, 1}
    BY <1>2 DEF Holds, One
  <2>5. /\ Awaited("notification", e) = Awaited("notification", e)' + One(h, e)
        /\ Awaited("payout", e)' = Awaited("payout", e)
        /\ Awaited("analytics", e)' = Awaited("analytics", e)
        /\ \A q \in {"analytics", "notification", "payout"} : Awaited(q, e) \in Nat /\ Awaited(q, e)' \in Nat
    BY <1>4, <1>5
  <2>6. ToTell(e)' <= ToTell(e)
    BY <2>2, <2>3, <2>4, <2>5 DEF ToTell
  <2>7. ToCount(e)' <= ToCount(e)
    BY <2>2, <2>3, <2>4, <2>5 DEF ToCount
  <2>8. ToPay(e)' <= ToPay(e)
    BY <2>2, <2>5 DEF ToPay
  <2>9. /\ Holds(bus_consumer', {"enqueue"}, e) <= Holds(bus_consumer, {"enqueue"}, e)
        /\ Faulty /\ resent[e] \in Nat
    BY <1>1, <1>2, <2>4, NumbersType DEF Faulty
  <2>10. /\ ToTell(e)' + failures <= ToTell(e) + failures'
         /\ ToCount(e)' + failures <= ToCount(e) + failures'
         /\ ToPay(e)' + resent[e] <= ToPay(e) + resent'[e]
    <3>1. ToTell(e) \in Nat /\ ToCount(e) \in Nat /\ ToPay(e) \in Nat
      BY <1>1, OnTheWayType
    <3>2. ToTell(e)' \in Nat /\ ToCount(e)' \in Nat /\ ToPay(e)' \in Nat
      BY <1>6, OnTheWayNext
    <3>3. QED
      BY <1>2, <1>3, <2>6, <2>7, <2>8, <2>9, <3>1, <3>2
  <2>11. QED
    BY <1>1, <1>2, <1>6, <2>1, <2>9, <2>10, CountsMove
<1>9. QED
  BY <1>6, <1>7, <1>8 DEF EventsInv

(* A message that could not be handled goes around again, or to the dead letters. *)
LEMMA RepublishKeeps ==
  ASSUME BusTables, NEW q \in Queues, NEW m \in BusMessage, m.retries < failures,
         NEW k, Again(q, m, k)
  PROVE  /\ UNCHANGED published /\ boxes' \in [Queues -> Seq(BusMessage)]
         /\ \A p \in Queues : k \notin Binding[p] => boxes'[p] = boxes[p]
         /\ \A p \in Queues, e \in BusEvents :
              /\ Awaited(p, e) \in Nat /\ Awaited(p, e)' \in Nat
              /\ Awaited(p, e)' <= Awaited(p, e) + One(m, e)
         /\ \A p \in Queues : UpTo(boxes[p], failures) => UpTo(boxes'[p], failures)
         /\ dead' = dead \/ (dead' \in [Queues -> SUBSET BusEvents] /\ failures > RetryLimit)
<1> DEFINE d == m.event
           r == m.retries + 1
<1>1. /\ failures \in Nat /\ BusTypeOK
      /\ boxes \in [Queues -> Seq(BusMessage)] /\ dead \in [Queues -> SUBSET BusEvents]
  BY DEF BusTables, BusTypeOK
<1>2. d \in BusEvents /\ m.retries \in Nat /\ m.retries <= RetryLimit /\ RetryLimit \in Nat
  BY EventBusAssumption DEF BusMessage
<1>3. CASE m.retries < RetryLimit
  <2>1. Route([event |-> d, key |-> k, retries |-> r]) /\ UNCHANGED <<dead, published>>
    BY <1>3 DEF Again
  <2>2. r \in 0..RetryLimit /\ r <= failures
    BY <1>1, <1>2, <1>3
  <2>3. \A e : One(m, e) = IF d = e THEN 1 ELSE 0
    BY DEF One
  <2> HIDE DEF d, r
  <2>4. /\ boxes' \in [Queues -> Seq(BusMessage)]
        /\ \A p \in Queues : k \notin Binding[p] => boxes'[p] = boxes[p]
        /\ \A p \in Queues, e \in BusEvents :
             /\ Awaited(p, e) \in Nat /\ Awaited(p, e)' \in Nat
             /\ Awaited(p, e)' <= Awaited(p, e) + IF d = e THEN 1 ELSE 0
        /\ \A n \in Nat : r <= n =>
             \A p \in Queues : UpTo(boxes[p], n) => UpTo(boxes'[p], n)
    BY <1>1, <1>2, <2>1, <2>2, RouteKeeps
  <2>5. QED
    BY <1>1, <2>1, <2>2, <2>3, <2>4
<1>4. CASE ~(m.retries < RetryLimit)
  <2>1. UNCHANGED <<boxes, published>> /\ dead' = [dead EXCEPT ![q] = @ \cup {m.event}]
    BY <1>4 DEF Again
  <2>2. dead' \in [Queues -> SUBSET BusEvents] /\ failures > RetryLimit
    BY <1>1, <1>2, <1>4, <2>1
  <2>3. ASSUME NEW p \in Queues, NEW e \in BusEvents
        PROVE  /\ Awaited(p, e) \in Nat /\ Awaited(p, e)' = Awaited(p, e) /\ One(m, e) \in Nat
    BY <2>1, NumbersType DEF Awaited, One
  <2>4. \A p \in Queues, e \in BusEvents :
          /\ Awaited(p, e) \in Nat /\ Awaited(p, e)' \in Nat
          /\ Awaited(p, e)' <= Awaited(p, e) + One(m, e)
    BY <2>3
  <2>5. QED
    BY <1>1, <2>1, <2>2, <2>4
<1>5. QED
  BY <1>3, <1>4

(* The analytics consumer publishes a failed message again, under its own key. *)
LEMMA IngestRetryKeeps ==
  ASSUME EventsInv, IngestRetry, UNCHANGED noteVars
  PROVE  EventsInv'
<1> DEFINE m == ingest.msg
<1>1. BusTables /\ RetriesCounted /\ TablesTrail /\ AnswersTrail
  BY DEF EventsInv
<1>2. /\ UNCHANGED <<event_rows, metrics, stats, cache, reader, failures>>
      /\ UNCHANGED <<bus_consumer, notes, delivered>>
      /\ ingest.pc = "failed" /\ ingest' = [ingest EXCEPT !.pc = "ack"]
      /\ Again("analytics", m, m.key) /\ resent' = [resent EXCEPT ![m.event] = @ + 1]
  BY DEF tableVars, noteVars, IngestRetry, IngestAt, IngestGo
<1>3. failures \in Nat /\ BusTypeOK /\ published \subseteq BusEvents /\ resent \in [BusEvents -> Nat]
  BY <1>1 DEF BusTables, BusTypeOK
<1>4. {"analytics", "notification", "payout"} \subseteq Queues
  BY ExchangeAssumption
<1>5. m \in BusMessage /\ m.event \in BusEvents /\ m.retries < failures
  BY <1>1, <1>2, ConsumersType DEF RetriesCounted, Within
<1>6. /\ ingest' \in [pc : IngestPoints, msg : BusMessage] /\ ingest'.pc = "ack" /\ ingest'.msg = m
  BY <1>1, <1>2 DEF BusTables, IngestPoints
<1> HIDE DEF m
<1>7. /\ UNCHANGED published /\ boxes' \in [Queues -> Seq(BusMessage)]
      /\ \A p \in Queues, e \in BusEvents :
           /\ Awaited(p, e) \in Nat /\ Awaited(p, e)' \in Nat
           /\ Awaited(p, e)' <= Awaited(p, e) + One(m, e)
      /\ \A p \in Queues : UpTo(boxes[p], failures) => UpTo(boxes'[p], failures)
      /\ dead' = dead \/ (dead' \in [Queues -> SUBSET BusEvents] /\ failures > RetryLimit)
  BY <1>1, <1>2, <1>4, <1>5, RepublishKeeps
<1>8. BusTables' /\ RetriesCounted'
  <2>1. Within(ingest', failures') /\ Within(bus_consumer', failures')
    BY <1>1, <1>2, <1>6 DEF RetriesCounted, Within, m
  <2>2. /\ published' \subseteq BusEvents /\ Faulty
        /\ bus_consumer' \in [pc : NotePoints, msg : BusMessage]
    BY <1>1, <1>2, <1>3, <1>7 DEF BusTables, Faulty
  <2>3. resent' \in [BusEvents -> Nat]
    BY <1>2, <1>3, <1>5
  <2>4. QED
    BY <1>1, <1>2, <1>6, <1>7, <2>1, <2>2, <2>3, QueueMovesKeep
<1>9. TablesTrail' /\ AnswersTrail'
  BY <1>1, <1>2, <1>6, TablesKept
<1>10. ASSUME NEW e \in BusEvents PROVE CopiesCounted(e)'
  <2>1. CopiesCounted(e)
    BY DEF EventsInv
  <2>2. Fresh(e)' = Fresh(e) /\ Fresh(e) \in Nat
    BY <1>7 DEF Fresh
  <2>3. \A pcs : /\ Holds(bus_consumer', pcs, e) = Holds(bus_consumer, pcs, e)
                 /\ Holds(bus_consumer, pcs, e) \in Nat
    BY <1>2, HoldsOne
  <2>4. /\ Holds(ingest, {"failed"}, e) = One(m, e)
        /\ Holds(ingest, {"check", "row", "failed"}, e) = One(m, e) /\ One(m, e) \in Nat
        /\ Holds(ingest', {"failed"}, e) = 0 /\ Holds(ingest', {"check", "row", "failed"}, e) = 0
    BY <1>2, <1>6 DEF Holds, One, m
  <2>5. \A q \in {"analytics", "notification", "payout"} :
          /\ Awaited(q, e) \in Nat /\ Awaited(q, e)' \in Nat
          /\ Awaited(q, e)' <= Awaited(q, e) + One(m, e)
    BY <1>4, <1>7
  <2>6. ToTell(e)' <= ToTell(e)
    BY <2>2, <2>3, <2>4, <2>5 DEF ToTell
  <2>7. ToCount(e)' <= ToCount(e)
    BY <2>2, <2>3, <2>4, <2>5 DEF ToCount
  <2>8. ToPay(e)' <= ToPay(e) + One(m, e) /\ resent'[e] = resent[e] + One(m, e)
    <3>1. ToPay(e)' <= ToPay(e) + One(m, e)
      BY <2>2, <2>4, <2>5 DEF ToPay
    <3>2. resent'[e] = resent[e] + One(m, e)
      BY <1>2, <1>3 DEF One
    <3>3. QED
      BY <3>1, <3>2
  <2>9. /\ Holds(bus_consumer', {"enqueue"}, e) <= Holds(bus_consumer, {"enqueue"}, e)
        /\ Faulty /\ resent[e] \in Nat
    BY <1>1, <1>2, <2>3, NumbersType DEF Faulty
  <2>10. /\ ToTell(e)' + failures <= ToTell(e) + failures'
         /\ ToCount(e)' + failures <= ToCount(e) + failures'
         /\ ToPay(e)' + resent[e] <= ToPay(e) + resent'[e]
    <3>1. ToTell(e) \in Nat /\ ToCount(e) \in Nat /\ ToPay(e) \in Nat
      BY <1>1, OnTheWayType
    <3>2. ToTell(e)' \in Nat /\ ToCount(e)' \in Nat /\ ToPay(e)' \in Nat
      BY <1>8, OnTheWayNext
    <3>3. QED
      BY <1>2, <1>3, <2>4, <2>6, <2>7, <2>8, <2>9, <3>1, <3>2
  <2>11. QED
    BY <1>1, <1>2, <1>8, <2>1, <2>9, <2>10, CountsMove
<1>11. QED
  BY <1>8, <1>9, <1>10 DEF EventsInv

(* The bus thread publishes a failed message again, under a key no payout queue is bound to. *)
LEMMA NoteRetryKeeps ==
  ASSUME EventsInv, NoteRetry
  PROVE  EventsInv'
<1> DEFINE m == bus_consumer.msg
<1>1. BusTables /\ RetriesCounted /\ TablesTrail /\ AnswersTrail
  BY DEF EventsInv
<1>2. /\ UNCHANGED <<event_rows, metrics, stats, cache, ingest, reader, resent, failures>>
      /\ UNCHANGED <<notes, delivered>>
      /\ bus_consumer.pc = "failed" /\ bus_consumer' = [bus_consumer EXCEPT !.pc = "ack"]
      /\ Again("notification", m, "#")
  BY DEF analyticsVars, NoteRetry, NoteAt, NoteGo
<1>3. failures \in Nat /\ BusTypeOK /\ published \subseteq BusEvents
  BY <1>1 DEF BusTables, BusTypeOK
<1>4. {"analytics", "notification", "payout"} \subseteq Queues /\ "#" \notin Binding["payout"]
  BY ExchangeAssumption
<1>5. m \in BusMessage /\ m.event \in BusEvents /\ m.retries < failures
  BY <1>1, <1>2, ConsumersType DEF RetriesCounted, Within
<1>6. /\ bus_consumer' \in [pc : NotePoints, msg : BusMessage]
      /\ bus_consumer'.pc = "ack" /\ bus_consumer'.msg = m
  BY <1>1, <1>2 DEF BusTables, NotePoints
<1> HIDE DEF m
<1>7. /\ UNCHANGED published /\ boxes' \in [Queues -> Seq(BusMessage)]
      /\ \A p \in Queues : "#" \notin Binding[p] => boxes'[p] = boxes[p]
      /\ \A p \in Queues, e \in BusEvents :
           /\ Awaited(p, e) \in Nat /\ Awaited(p, e)' \in Nat
           /\ Awaited(p, e)' <= Awaited(p, e) + One(m, e)
      /\ \A p \in Queues : UpTo(boxes[p], failures) => UpTo(boxes'[p], failures)
      /\ dead' = dead \/ (dead' \in [Queues -> SUBSET BusEvents] /\ failures > RetryLimit)
  BY <1>1, <1>2, <1>4, <1>5, RepublishKeeps
<1>8. BusTables' /\ RetriesCounted'
  <2>1. Within(ingest', failures') /\ Within(bus_consumer', failures')
    BY <1>1, <1>2, <1>6 DEF RetriesCounted, Within, m
  <2>2. /\ resent' \in [BusEvents -> Nat] /\ published' \subseteq BusEvents
        /\ ingest' \in [pc : IngestPoints, msg : BusMessage] /\ Faulty
    BY <1>1, <1>2, <1>3, <1>7 DEF BusTables, Faulty
  <2>3. QED
    BY <1>1, <1>2, <1>6, <1>7, <2>1, <2>2, QueueMovesKeep
<1>9. TablesTrail' /\ AnswersTrail'
  <2>1. \A e \in Identified \cap BusEvents :
          ingest'.pc = "row" /\ ingest'.msg.event = e => event_rows[e] = 0
    BY <1>1, <1>2 DEF TablesTrail
  <2>2. QED
    BY <1>1, <1>2, <2>1, TablesKept
<1>10. ASSUME NEW e \in BusEvents PROVE CopiesCounted(e)'
  <2>1. CopiesCounted(e)
    BY DEF EventsInv
  <2>2. Fresh(e)' = Fresh(e) /\ Fresh(e) \in Nat
    BY <1>7 DEF Fresh
  <2>3. \A pcs : Holds(ingest', pcs, e) = Holds(ingest, pcs, e) /\ Holds(ingest, pcs, e) \in Nat
    BY <1>2, HoldsOne
  <2>4. /\ Holds(bus_consumer, {"failed"}, e) = One(m, e)
        /\ Holds(bus_consumer, {"create", "failed"}, e) = One(m, e) /\ One(m, e) \in Nat
        /\ Holds(bus_consumer', {"failed"}, e) = 0 /\ Holds(bus_consumer', {"create", "failed"}, e) = 0
        /\ Holds(bus_consumer', {"enqueue"}, e) = 0 /\ Holds(bus_consumer, {"enqueue"}, e) = 0
    BY <1>2, <1>6 DEF Holds, One, m
  <2>5. /\ \A q \in {"analytics", "notification", "payout"} :
             /\ Awaited(q, e) \in Nat /\ Awaited(q, e)' \in Nat
             /\ Awaited(q, e)' <= Awaited(q, e) + One(m, e)
        /\ Awaited("payout", e)' = Awaited("payout", e)
    BY <1>4, <1>7 DEF Awaited
  <2>6. ToTell(e)' <= ToTell(e)
    BY <2>2, <2>3, <2>4, <2>5 DEF ToTell
  <2>7. ToCount(e)' <= ToCount(e)
    BY <2>2, <2>3, <2>4, <2>5 DEF ToCount
  <2>8. ToPay(e)' <= ToPay(e)
    BY <2>2, <2>5 DEF ToPay
  <2>9. /\ Holds(bus_consumer', {"enqueue"}, e) <= Holds(bus_consumer, {"enqueue"}, e)
        /\ Faulty /\ resent[e] \in Nat
    BY <1>1, <1>2, <2>4, NumbersType DEF Faulty
  <2>10. /\ ToTell(e)' + failures <= ToTell(e) + failures'
         /\ ToCount(e)' + failures <= ToCount(e) + failures'
         /\ ToPay(e)' + resent[e] <= ToPay(e) + resent'[e]
    <3>1. ToTell(e) \in Nat /\ ToCount(e) \in Nat /\ ToPay(e) \in Nat
      BY <1>1, OnTheWayType
    <3>2. ToTell(e)' \in Nat /\ ToCount(e)' \in Nat /\ ToPay(e)' \in Nat
      BY <1>8, OnTheWayNext
    <3>3. QED
      BY <1>2, <1>3, <2>6, <2>7, <2>8, <2>9, <3>1, <3>2
  <2>11. QED
    BY <1>1, <1>2, <1>8, <2>1, <2>9, <2>10, CountsMove
<1>11. QED
  BY <1>8, <1>9, <1>10 DEF EventsInv

(* The analytics consumer dies; its message is delivered again. *)
LEMMA IngestCrashKeeps ==
  ASSUME EventsInv, IngestCrash, UNCHANGED noteVars
  PROVE  EventsInv'
<1> DEFINE m == ingest.msg
<1>1. BusTables /\ RetriesCounted /\ TablesTrail /\ AnswersTrail
  BY DEF EventsInv
<1>2. /\ UNCHANGED <<event_rows, metrics, stats, cache, reader, resent, dead, published>>
      /\ UNCHANGED <<bus_consumer, notes, delivered>>
      /\ ingest.pc # "idle" /\ ingest' = Rest /\ failures' = failures + 1 /\ PutBack("analytics", m)
  BY DEF tableVars, noteVars, IngestCrash, IngestAt, Fault
<1>3. failures \in Nat /\ BusTypeOK /\ published \subseteq BusEvents
  BY <1>1 DEF BusTables, BusTypeOK
<1>4. {"analytics", "notification", "payout"} \subseteq Queues
  BY ExchangeAssumption
<1>5. m \in BusMessage /\ m.event \in BusEvents /\ m.retries <= failures
  BY <1>1, <1>2, ConsumersType DEF RetriesCounted, Within
<1>6. ingest' \in [pc : IngestPoints, msg : BusMessage] /\ ingest'.pc = "idle" /\ ingest'.msg.retries = 0
  BY <1>2, RestType DEF IngestPoints
<1> HIDE DEF m
<1>7. /\ boxes' \in [Queues -> Seq(BusMessage)]
      /\ \A p \in Queues, e \in BusEvents :
           /\ Awaited(p, e) \in Nat /\ Awaited(p, e)' \in Nat
           /\ p # "analytics" => Awaited(p, e)' = Awaited(p, e)
      /\ \A e \in BusEvents : Awaited("analytics", e)' = Awaited("analytics", e) + One(m, e)
      /\ \A n \in Nat : m.retries <= n =>
           \A p \in Queues : UpTo(boxes[p], n) => UpTo(boxes'[p], n)
  BY <1>2, <1>3, <1>4, <1>5, PutBackKeeps
<1>8. TablesTrail' /\ AnswersTrail'
  BY <1>1, <1>2, <1>6, TablesKept
<1>9. BusTables' /\ RetriesCounted'
  <2>1. bus_consumer.msg.retries \in Nat
    BY <1>1, ConsumersType, EventBusAssumption
  <2>2. Within(ingest', failures') /\ Within(bus_consumer', failures')
    BY <1>1, <1>2, <1>3, <1>6, <2>1 DEF RetriesCounted, Within
  <2>3. /\ resent' \in [BusEvents -> Nat] /\ published' \subseteq BusEvents
        /\ bus_consumer' \in [pc : NotePoints, msg : BusMessage] /\ Faulty
    BY <1>1, <1>2, <1>3 DEF BusTables, Faulty
  <2>4. \A q \in Queues : UpTo(boxes[q], failures) => UpTo(boxes'[q], failures)
    BY <1>3, <1>5, <1>7
  <2>5. QED
    BY <1>1, <1>2, <1>6, <1>7, <2>2, <2>3, <2>4, QueueMovesKeep
<1>10. ASSUME NEW e \in BusEvents PROVE CopiesCounted(e)'
  <2>1. CopiesCounted(e)
    BY DEF EventsInv
  <2>2. Fresh(e)' = Fresh(e) /\ Fresh(e) \in Nat
    BY <1>2 DEF Fresh
  <2>3. \A pcs : Holds(bus_consumer', pcs, e) = Holds(bus_consumer, pcs, e) /\ Holds(bus_consumer, pcs, e) \in Nat
    BY <1>2, HoldsOne
  <2>4. /\ Holds(ingest, {"failed"}, e) \in {0, 1}
        /\ Holds(ingest, {"check", "row", "failed"}, e) \in {0, 1}
        /\ Holds(ingest', {"failed"}, e) = 0 /\ Holds(ingest', {"check", "row", "failed"}, e) = 0
        /\ One(m, e) \in {0, 1}
    BY <1>2, <1>6 DEF Holds, One
  <2>5. /\ Awaited("analytics", e)' = Awaited("analytics", e) + One(m, e)
        /\ Awaited("payout", e)' = Awaited("payout", e)
        /\ Awaited("notification", e)' = Awaited("notification", e)
        /\ \A q \in {"analytics", "notification", "payout"} : Awaited(q, e) \in Nat /\ Awaited(q, e)' \in Nat
    BY <1>4, <1>7
  <2>6. ToTell(e)' <= ToTell(e) + 1
    BY <2>2, <2>3, <2>4, <2>5 DEF ToTell
  <2>7. ToCount(e)' <= ToCount(e) + 1
    BY <2>2, <2>3, <2>4, <2>5 DEF ToCount
  <2>8. ToPay(e)' <= ToPay(e)
    BY <2>2, <2>5 DEF ToPay
  <2>9. /\ Holds(bus_consumer', {"enqueue"}, e) <= Holds(bus_consumer, {"enqueue"}, e)
        /\ Faulty /\ resent[e] \in Nat
    BY <1>1, <1>2, <2>3, NumbersType DEF Faulty
  <2>10. /\ ToTell(e)' + failures <= ToTell(e) + failures'
         /\ ToCount(e)' + failures <= ToCount(e) + failures'
         /\ ToPay(e)' + resent[e] <= ToPay(e) + resent'[e]
    <3>1. ToTell(e) \in Nat /\ ToCount(e) \in Nat /\ ToPay(e) \in Nat
      BY <1>1, OnTheWayType
    <3>2. ToTell(e)' \in Nat /\ ToCount(e)' \in Nat /\ ToPay(e)' \in Nat
      BY <1>9, OnTheWayNext
    <3>3. QED
      BY <1>2, <1>3, <2>6, <2>7, <2>8, <2>9, <3>1, <3>2
  <2>11. QED
    BY <1>1, <1>2, <1>9, <2>1, <2>9, <2>10, CountsMove
<1>11. QED
  BY <1>8, <1>9, <1>10 DEF EventsInv

(* The bus thread dies; its message is delivered again. *)
LEMMA NoteCrashKeeps ==
  ASSUME EventsInv, NoteCrash
  PROVE  EventsInv'
<1> DEFINE m == bus_consumer.msg
<1>1. BusTables /\ RetriesCounted /\ TablesTrail /\ AnswersTrail
  BY DEF EventsInv
<1>2. /\ UNCHANGED <<event_rows, metrics, stats, cache, ingest, reader, resent, dead, published>>
      /\ UNCHANGED <<notes, delivered>>
      /\ bus_consumer.pc # "idle" /\ bus_consumer' = Rest /\ failures' = failures + 1
      /\ PutBack("notification", m)
  BY DEF noteOthers, NoteCrash, NoteAt, Fault
<1>3. failures \in Nat /\ BusTypeOK /\ published \subseteq BusEvents
  BY <1>1 DEF BusTables, BusTypeOK
<1>4. {"analytics", "notification", "payout"} \subseteq Queues
  BY ExchangeAssumption
<1>5. m \in BusMessage /\ m.event \in BusEvents /\ m.retries <= failures
  BY <1>1, <1>2, ConsumersType DEF RetriesCounted, Within
<1>6. bus_consumer' \in [pc : NotePoints, msg : BusMessage] /\ bus_consumer'.pc = "idle" /\ bus_consumer'.msg.retries = 0
  BY <1>2, RestType DEF NotePoints
<1> HIDE DEF m
<1>7. /\ boxes' \in [Queues -> Seq(BusMessage)]
      /\ \A p \in Queues, e \in BusEvents :
           /\ Awaited(p, e) \in Nat /\ Awaited(p, e)' \in Nat
           /\ p # "notification" => Awaited(p, e)' = Awaited(p, e)
      /\ \A e \in BusEvents : Awaited("notification", e)' = Awaited("notification", e) + One(m, e)
      /\ \A n \in Nat : m.retries <= n =>
           \A p \in Queues : UpTo(boxes[p], n) => UpTo(boxes'[p], n)
  BY <1>2, <1>3, <1>4, <1>5, PutBackKeeps
<1>8. TablesTrail' /\ AnswersTrail'
  <2>1. \A e \in Identified \cap BusEvents :
          ingest'.pc = "row" /\ ingest'.msg.event = e => event_rows[e] = 0
    BY <1>1, <1>2 DEF TablesTrail
  <2>2. QED
    BY <1>1, <1>2, <2>1, TablesKept
<1>9. BusTables' /\ RetriesCounted'
  <2>1. ingest.msg.retries \in Nat
    BY <1>1, ConsumersType, EventBusAssumption
  <2>2. Within(ingest', failures') /\ Within(bus_consumer', failures')
    BY <1>1, <1>2, <1>3, <1>6, <2>1 DEF RetriesCounted, Within
  <2>3. /\ resent' \in [BusEvents -> Nat] /\ published' \subseteq BusEvents
        /\ ingest' \in [pc : IngestPoints, msg : BusMessage] /\ Faulty
    BY <1>1, <1>2, <1>3 DEF BusTables, Faulty
  <2>4. \A q \in Queues : UpTo(boxes[q], failures) => UpTo(boxes'[q], failures)
    BY <1>3, <1>5, <1>7
  <2>5. QED
    BY <1>1, <1>2, <1>6, <1>7, <2>2, <2>3, <2>4, QueueMovesKeep
<1>10. ASSUME NEW e \in BusEvents PROVE CopiesCounted(e)'
  <2>1. CopiesCounted(e)
    BY DEF EventsInv
  <2>2. Fresh(e)' = Fresh(e) /\ Fresh(e) \in Nat
    BY <1>2 DEF Fresh
  <2>3. \A pcs : Holds(ingest', pcs, e) = Holds(ingest, pcs, e) /\ Holds(ingest, pcs, e) \in Nat
    BY <1>2, HoldsOne
  <2>4. /\ Holds(bus_consumer, {"failed"}, e) \in {0, 1}
        /\ Holds(bus_consumer, {"create", "failed"}, e) \in {0, 1}
        /\ Holds(bus_consumer, {"enqueue"}, e) \in {0, 1} /\ Holds(bus_consumer', {"enqueue"}, e) = 0
        /\ Holds(bus_consumer', {"failed"}, e) = 0 /\ Holds(bus_consumer', {"create", "failed"}, e) = 0
        /\ One(m, e) \in {0, 1}
    BY <1>2, <1>6 DEF Holds, One
  <2>5. /\ Awaited("notification", e)' = Awaited("notification", e) + One(m, e)
        /\ Awaited("payout", e)' = Awaited("payout", e)
        /\ Awaited("analytics", e)' = Awaited("analytics", e)
        /\ \A q \in {"analytics", "notification", "payout"} : Awaited(q, e) \in Nat /\ Awaited(q, e)' \in Nat
    BY <1>4, <1>7
  <2>6. ToTell(e)' <= ToTell(e) + 1
    BY <2>2, <2>3, <2>4, <2>5 DEF ToTell
  <2>7. ToCount(e)' <= ToCount(e) + 1
    BY <2>2, <2>3, <2>4, <2>5 DEF ToCount
  <2>8. ToPay(e)' <= ToPay(e)
    BY <2>2, <2>5 DEF ToPay
  <2>9. /\ Holds(bus_consumer', {"enqueue"}, e) <= Holds(bus_consumer, {"enqueue"}, e)
        /\ Faulty /\ resent[e] \in Nat
    BY <1>1, <1>2, <2>4, NumbersType DEF Faulty
  <2>10. /\ ToTell(e)' + failures <= ToTell(e) + failures'
         /\ ToCount(e)' + failures <= ToCount(e) + failures'
         /\ ToPay(e)' + resent[e] <= ToPay(e) + resent'[e]
    <3>1. ToTell(e) \in Nat /\ ToCount(e) \in Nat /\ ToPay(e) \in Nat
      BY <1>1, OnTheWayType
    <3>2. ToTell(e)' \in Nat /\ ToCount(e)' \in Nat /\ ToPay(e)' \in Nat
      BY <1>9, OnTheWayNext
    <3>3. QED
      BY <1>2, <1>3, <2>6, <2>7, <2>8, <2>9, <3>1, <3>2
  <2>11. QED
    BY <1>1, <1>2, <1>9, <2>1, <2>9, <2>10, CountsMove
<1>11. QED
  BY <1>8, <1>9, <1>10 DEF EventsInv

(* The analytics consumer goes on with its message, or is done with it. *)
LEMMA IngestWalks ==
  ASSUME EventsInv, UNCHANGED <<busVars, noteVars, resent, event_rows>>, Faulty,
         NEW p \in IngestPoints, ingest' = Rest \/ ingest' = [ingest EXCEPT !.pc = p],
         ingest'.pc = "failed" => failures' = failures + 1,
         ingest'.pc \in {"check", "row"} => ingest.pc \in {"check", "row"},
         TablesTrail', AnswersTrail'
  PROVE  EventsInv'
<1>1. BusTables /\ RetriesCounted
  BY DEF EventsInv
<1>2. /\ failures \in Nat /\ failures' \in Nat /\ failures <= failures'
      /\ event_rows' \in [BusEvents -> Nat]
  BY <1>1 DEF BusTables, Faulty
<1>3. /\ ingest' \in [pc : IngestPoints, msg : BusMessage] /\ ingest'.msg.retries <= failures
      /\ ingest'.pc # "idle" => ingest'.msg = ingest.msg
  <2>1. CASE ingest' = Rest
    BY <1>2, <2>1, RestType DEF IngestPoints
  <2>2. CASE ingest' = [ingest EXCEPT !.pc = p]
    BY <1>1, <2>2 DEF BusTables, RetriesCounted, Within
  <2>3. QED
    BY <2>1, <2>2
<1>4. ASSUME NEW e \in BusEvents
      PROVE  BusTables' /\ RetriesCounted' /\ CopiesCounted(e)'
  <2>1. CopiesCounted(e) /\ event_rows[e] \in Nat /\ event_rows'[e] = event_rows[e]
    BY <1>1 DEF EventsInv, BusTables
  <2>2. \/ Holds(ingest', {"check", "row", "failed"}, e) = 0
        \/ /\ Holds(ingest', {"check", "row", "failed"}, e) = 1
           /\ Holds(ingest, {"check", "row", "failed"}, e) = 1
        \/ Holds(ingest', {"check", "row", "failed"}, e) = 1 /\ failures' = failures + 1
    BY <1>3 DEF Holds
  <2>3. Holds(ingest, {"check", "row", "failed"}, e) \in Nat
    BY HoldsOne
  <2>4. event_rows'[e] + Holds(ingest', {"check", "row", "failed"}, e) + failures <=
          event_rows[e] + Holds(ingest, {"check", "row", "failed"}, e) + failures'
    BY <1>2, <2>1, <2>2, <2>3
  <2>5. QED
    BY <1>1, <1>2, <1>3, <2>1, <2>4, IngestMovesKeep
<1>5. BusTables' /\ RetriesCounted'
  BY <1>4, ExchangeAssumption
<1>6. QED
  BY <1>4, <1>5 DEF EventsInv

(* The steps between taking a message and acknowledging it that commit nothing. *)
LEMMA IngestGoesKeep ==
  ASSUME EventsInv, UNCHANGED noteVars,
         EventKeyExists \/ ClearCache \/ ClearCacheMisses \/ IngestAck \/ IngestError
  PROVE  EventsInv'
<1>1. BusTables /\ TablesTrail /\ AnswersTrail
  BY DEF EventsInv
<1>2. /\ UNCHANGED <<busVars, noteVars, resent, event_rows, metrics, stats, reader>>
      /\ cache' \in {cache, <<>>} /\ Faulty
  BY DEF EventKeyExists, ClearCache, ClearCacheMisses, IngestAck, IngestError, tableVars, Fault, Faulty
<1>3. failures \in Nat
  BY <1>1 DEF BusTables
<1>4. \E p \in IngestPoints :
        /\ ingest' = Rest \/ ingest' = [ingest EXCEPT !.pc = p]
        /\ ingest'.pc = "failed" => failures' = failures + 1
        /\ ingest'.pc \in {"check", "row"} => ingest.pc \in {"check", "row"}
        /\ ingest'.pc \notin {"metrics", "stats"}
        /\ ingest.pc \in {"metrics", "stats"} => failures' = failures + 1
        /\ \A e \in Identified \cap BusEvents :
             ingest'.pc = "row" /\ ingest'.msg.event = e => event_rows[e] = 0
  <2>1. CASE EventKeyExists
    <3>1. PICK p \in {"ack", "row"} :
            /\ ingest.pc = "check" /\ ingest' = [ingest EXCEPT !.pc = p]
            /\ p = "row" => ~(ingest.msg.event \in Identified /\ event_rows[ingest.msg.event] > 0)
      BY <2>1 DEF EventKeyExists, IngestAt, IngestGo
    <3>2. ingest'.pc = p /\ ingest'.msg = ingest.msg /\ event_rows[ingest.msg.event] \in Nat
      BY <1>1, <3>1, ConsumersType DEF BusTables
    <3>3. QED
      BY <3>1, <3>2 DEF IngestPoints
  <2>2. CASE ClearCache \/ ClearCacheMisses
    <3>1. ingest.pc = "flush" /\ ingest' = [ingest EXCEPT !.pc = "ack"] /\ ingest'.pc = "ack"
      BY <1>1, <2>2 DEF ClearCache, ClearCacheMisses, IngestAt, IngestGo, BusTables
    <3>2. QED
      BY <3>1 DEF IngestPoints
  <2>3. CASE IngestAck
    <3>1. ingest.pc = "ack" /\ ingest' = Rest /\ ingest'.pc = "idle"
      BY <2>3, RestType DEF IngestAck, IngestAt
    <3>2. QED
      BY <3>1 DEF IngestPoints
  <2>4. CASE IngestError
    <3>1. ingest' = [ingest EXCEPT !.pc = "failed"] /\ ingest'.pc = "failed" /\ failures' = failures + 1
      BY <1>1, <2>4 DEF IngestError, IngestGo, Fault, BusTables
    <3>2. QED
      BY <3>1 DEF IngestPoints
  <2>5. QED
    BY <2>1, <2>2, <2>3, <2>4
<1>5. TablesTrail' /\ AnswersTrail'
  BY <1>1, <1>2, <1>4, TablesKept DEF Faulty
<1>6. QED
  BY <1>2, <1>4, <1>5, IngestWalks

(* The event row is committed. *)
LEMMA CreateEventKeeps ==
  ASSUME EventsInv, CreateEvent, UNCHANGED noteVars
  PROVE  EventsInv'
<1> DEFINE d == ingest.msg.event
<1>1. BusTables /\ RetriesCounted /\ TablesTrail /\ AnswersTrail
  BY DEF EventsInv
<1>2. /\ UNCHANGED <<busVars, noteVars, resent, metrics, stats, cache, reader, failures>>
      /\ ingest.pc = "row" /\ ingest' = [ingest EXCEPT !.pc = "metrics"]
      /\ event_rows' = [event_rows EXCEPT ![d] = @ + 1]
  BY DEF CreateEvent, IngestAt, IngestGo
<1>3. d \in BusEvents /\ event_rows \in [BusEvents -> Nat] /\ failures \in Nat
  BY <1>1, ConsumersType DEF BusTables
<1>4. /\ ingest' \in [pc : IngestPoints, msg : BusMessage] /\ ingest'.pc = "metrics"
      /\ ingest'.msg = ingest.msg /\ ingest.msg.retries <= failures
  BY <1>1, <1>2 DEF BusTables, IngestPoints, RetriesCounted, Within
<1>5. /\ event_rows' \in [BusEvents -> Nat] /\ event_rows'[d] = event_rows[d] + 1
      /\ \A e \in BusEvents \ {d} : event_rows'[e] = event_rows[e]
  BY <1>2, <1>3
<1>6. Rows \in Nat /\ Rows' = Rows + 1
  <2>1. Raised(event_rows, event_rows', BusEvents, d, 1)
    BY <1>3, <1>5 DEF Raised
  <2>2. Total(event_rows', BusEvents) = Total(event_rows, BusEvents) + 1
    BY <1>3, <2>1, ExchangeAssumption, TotalRaised
  <2>3. QED
    BY <1>1, <2>2, RowsType DEF Rows
<1>7. ASSUME NEW e \in BusEvents
      PROVE  BusTables' /\ RetriesCounted' /\ CopiesCounted(e)'
  <2>1. CopiesCounted(e) /\ event_rows[e] \in Nat
    BY <1>3 DEF EventsInv
  <2>2. /\ Holds(ingest', {"check", "row", "failed"}, e) = 0
        /\ Holds(ingest, {"check", "row", "failed"}, e) = IF d = e THEN 1 ELSE 0
    BY <1>2, <1>4 DEF Holds
  <2>3. event_rows'[e] + Holds(ingest', {"check", "row", "failed"}, e) + failures <=
          event_rows[e] + Holds(ingest, {"check", "row", "failed"}, e) + failures'
    BY <1>2, <1>3, <1>5, <2>1, <2>2
  <2>4. ingest'.pc = "failed" => failures' = failures + 1
    BY <1>4
  <2>5. ingest'.msg.retries <= failures /\ Faulty
    BY <1>2, <1>4 DEF Faulty
  <2>6. QED
    BY <1>1, <1>2, <1>4, <1>5, <2>1, <2>3, <2>4, <2>5, IngestMovesKeep
<1>8. BusTables' /\ RetriesCounted'
  BY <1>7, ExchangeAssumption
<1>9. TablesTrail'
  <2>1. /\ IfAt({"metrics"}) = 0 /\ IfAt({"stats"}) = 0 /\ IfAt({"metrics", "stats"}) = 0
        /\ IfAt({"metrics"})' = 1 /\ IfAt({"stats"})' = 0 /\ IfAt({"metrics", "stats"})' = 1
    BY <1>2, <1>4 DEF IfAt
  <2>2. \A e \in Identified \cap BusEvents : event_rows'[e] <= 1
    BY <1>1, <1>2, <1>3, <1>5 DEF TablesTrail
  <2>3. QED
    BY <1>1, <1>2, <1>3, <1>4, <1>6, <2>1, <2>2 DEF TablesTrail
<1>10. AnswersTrail'
  BY <1>1, <1>2, <1>6 DEF AnswersTrail
<1>11. QED
  BY <1>7, <1>8, <1>9, <1>10 DEF EventsInv

(* The metric rows, then the totals, are committed. *)
LEMMA TotalsKeep ==
  ASSUME EventsInv, CreateMetrics \/ IncrementStats, UNCHANGED noteVars
  PROVE  EventsInv'
<1>1. BusTables /\ TablesTrail /\ AnswersTrail
  BY DEF EventsInv
<1>2. UNCHANGED <<busVars, noteVars, resent, event_rows, cache, reader, failures>>
  BY DEF CreateMetrics, IncrementStats
<1>3. Rows' = Rows /\ Rows \in Nat /\ failures \in Nat /\ metrics \in Nat /\ stats \in Nat
  BY <1>1, <1>2, RowsType DEF Rows, BusTables, TablesTrail
<1>4. AnswersTrail'
  BY <1>1, <1>2, <1>3 DEF AnswersTrail
<1>5. CASE CreateMetrics
  <2>1. /\ ingest.pc = "metrics" /\ ingest' = [ingest EXCEPT !.pc = "stats"] /\ ingest'.pc = "stats"
        /\ metrics' = metrics + 1 /\ stats' = stats
    BY <1>1, <1>5 DEF CreateMetrics, IngestAt, IngestGo, BusTables
  <2>2. /\ IfAt({"metrics"}) = 1 /\ IfAt({"stats"}) = 0 /\ IfAt({"metrics", "stats"}) = 1
        /\ IfAt({"metrics"})' = 0 /\ IfAt({"stats"})' = 1 /\ IfAt({"metrics", "stats"})' = 1
    BY <2>1 DEF IfAt
  <2>3. TablesTrail'
    BY <1>1, <1>2, <1>3, <2>1, <2>2 DEF TablesTrail
  <2>4. QED
    BY <1>2, <1>4, <2>1, <2>3, IngestWalks DEF IngestPoints, Faulty
<1>6. CASE IncrementStats
  <2>1. /\ ingest.pc = "stats" /\ ingest' = [ingest EXCEPT !.pc = "flush"] /\ ingest'.pc = "flush"
        /\ metrics' = metrics /\ stats' = stats + 1
    BY <1>1, <1>6 DEF IncrementStats, IngestAt, IngestGo, BusTables
  <2>2. /\ IfAt({"metrics"}) = 0 /\ IfAt({"stats"}) = 1 /\ IfAt({"metrics", "stats"}) = 1
        /\ IfAt({"metrics"})' = 0 /\ IfAt({"stats"})' = 0 /\ IfAt({"metrics", "stats"})' = 0
    BY <2>1 DEF IfAt
  <2>3. TablesTrail'
    BY <1>1, <1>2, <1>3, <2>1, <2>2 DEF TablesTrail
  <2>4. QED
    BY <1>2, <1>4, <2>1, <2>3, IngestWalks DEF IngestPoints, Faulty
<1>7. QED
  BY <1>5, <1>6

(* Dashboards count rows, and keep their answer or lose it. *)
LEMMA DashboardsKeep ==
  ASSUME EventsInv, UNCHANGED noteVars,
         CacheExpires \/ \E r \in Readers : GetDashboard(r) \/ StoreDashboard(r)
  PROVE  EventsInv'
<1>1. BusTables /\ RetriesCounted /\ TablesTrail /\ AnswersTrail
  BY DEF EventsInv
<1>2. UNCHANGED <<boxes, dead, published, event_rows, metrics, stats, ingest, resent, failures,
                  bus_consumer, notes, delivered>>
  BY DEF CacheExpires, GetDashboard, StoreDashboard, busVars, tableVars, noteVars
<1>3. BusTables' /\ RetriesCounted' /\ TablesTrail' /\ Rows' = Rows /\ Rows \in Nat
  BY <1>1, <1>2, RowsType DEF BusTables, BusTypeOK, RetriesCounted, DeadAfterRetries, TablesTrail, IfAt, Rows
<1>4. \A e \in BusEvents : CopiesCounted(e)'
  <2>1. ASSUME NEW e \in BusEvents
        PROVE  UNCHANGED <<ToTell(e), ToCount(e), ToPay(e), Holds(bus_consumer, {"enqueue"}, e)>>
    BY <1>2 DEF ToTell, ToCount, ToPay, Awaited, Holds, Fresh
  <2>2. QED
    BY <1>2, <2>1 DEF EventsInv, CopiesCounted
<1>5. AnswersTrail'
  <2>1. CASE CacheExpires
    BY <1>1, <1>3, <2>1 DEF CacheExpires, AnswersTrail
  <2>2. ASSUME NEW r \in Readers, GetDashboard(r)
        PROVE  AnswersTrail'
    <3>1. cache' = cache /\ reader' = [reader EXCEPT ![r] = [pc |-> "store", seen |-> Rows]]
      BY <1>1, <2>2, RowsType DEF GetDashboard, ReaderGo
    <3>2. QED
      BY <1>1, <1>3, <3>1 DEF AnswersTrail
  <2>3. ASSUME NEW r \in Readers, StoreDashboard(r)
        PROVE  AnswersTrail'
    <3>1. cache' = <<reader[r].seen>> /\ reader' = [reader EXCEPT ![r] = [pc |-> "idle", seen |-> 0]]
      BY <2>3 DEF StoreDashboard, ReaderGo
    <3>2. reader[r].seen \in Nat /\ reader[r].seen <= Rows
      BY <1>1 DEF AnswersTrail
    <3>3. cache' \in Seq(Nat) /\ Len(cache') = 1 /\ cache'[1] <= Rows
      BY <3>1, <3>2
    <3>4. QED
      BY <1>1, <1>3, <3>1, <3>3 DEF AnswersTrail
  <2>4. QED
    BY <2>1, <2>2, <2>3
<1>6. QED
  BY <1>3, <1>4, <1>5 DEF EventsInv

(* The bus thread creates the row, hands its delivery over, is done or fails. *)
LEMMA NoteGoesKeep ==
  ASSUME EventsInv, CreateNotification \/ EnqueueDelivery \/ NoteAck \/ NoteError
  PROVE  EventsInv'
<1> DEFINE m == bus_consumer.msg
           d == m.event
<1>1. BusTables /\ RetriesCounted /\ TablesTrail /\ AnswersTrail
  BY DEF EventsInv
<1>2. /\ UNCHANGED <<busVars, event_rows, metrics, stats, cache, ingest, reader, resent>> /\ Faulty
  BY DEF CreateNotification, EnqueueDelivery, NoteAck, NoteError, noteOthers, analyticsVars, Fault, Faulty
<1>3. /\ failures \in Nat /\ d \in BusEvents /\ notes \in [BusEvents -> Nat]
      /\ delivered \in [BusEvents -> Nat] /\ m.retries <= failures
  BY <1>1, ConsumersType DEF BusTables, RetriesCounted, Within
<1>4. TablesTrail' /\ AnswersTrail'
  <2>1. \A e \in Identified \cap BusEvents :
          ingest'.pc = "row" /\ ingest'.msg.event = e => event_rows[e] = 0
    BY <1>1, <1>2 DEF TablesTrail
  <2>2. QED
    BY <1>1, <1>2, <2>1, TablesKept DEF Faulty
<1>5. /\ bus_consumer' \in [pc : NotePoints, msg : BusMessage] /\ bus_consumer'.msg.retries <= failures
      /\ bus_consumer'.pc = "failed" => failures' = failures + 1
      /\ notes' \in [BusEvents -> Nat] /\ delivered' \in [BusEvents -> Nat]
      /\ \A e \in BusEvents :
           /\ notes'[e] + Holds(bus_consumer', {"create", "failed"}, e) + failures <=
                notes[e] + Holds(bus_consumer, {"create", "failed"}, e) + failures'
           /\ delivered'[e] + Holds(bus_consumer', {"enqueue"}, e) + notes[e] <=
                delivered[e] + Holds(bus_consumer, {"enqueue"}, e) + notes'[e]
  <2>1. CASE CreateNotification
    <3>1. /\ bus_consumer.pc = "create" /\ bus_consumer' = [bus_consumer EXCEPT !.pc = "enqueue"]
          /\ notes' = [notes EXCEPT ![d] = @ + 1] /\ UNCHANGED <<delivered, failures>>
      BY <2>1 DEF CreateNotification, NoteAt, NoteGo, analyticsVars
    <3>2. /\ bus_consumer' \in [pc : NotePoints, msg : BusMessage] /\ bus_consumer'.pc = "enqueue"
          /\ bus_consumer'.msg = m
      BY <1>1, <3>1 DEF BusTables, NotePoints
    <3>3. ASSUME NEW e \in BusEvents
          PROVE  /\ Holds(bus_consumer', {"create", "failed"}, e) = 0
                 /\ Holds(bus_consumer, {"create", "failed"}, e) = One(m, e)
                 /\ Holds(bus_consumer', {"enqueue"}, e) = One(m, e)
                 /\ Holds(bus_consumer, {"enqueue"}, e) = 0
                 /\ notes'[e] = notes[e] + One(m, e) /\ One(m, e) \in {0, 1}
      BY <1>3, <3>1, <3>2 DEF Holds, One
    <3>4. notes' \in [BusEvents -> Nat]
      BY <1>3, <3>1
    <3>5. QED
      BY <1>3, <3>1, <3>2, <3>3, <3>4
  <2>2. CASE EnqueueDelivery
    <3>1. /\ bus_consumer.pc = "enqueue" /\ bus_consumer' = [bus_consumer EXCEPT !.pc = "ack"]
          /\ delivered' = [delivered EXCEPT ![d] = @ + 1] /\ UNCHANGED <<notes, failures>>
      BY <2>2 DEF EnqueueDelivery, NoteAt, NoteGo, analyticsVars
    <3>2. /\ bus_consumer' \in [pc : NotePoints, msg : BusMessage] /\ bus_consumer'.pc = "ack"
          /\ bus_consumer'.msg = m
      BY <1>1, <3>1 DEF BusTables, NotePoints
    <3>3. ASSUME NEW e \in BusEvents
          PROVE  /\ Holds(bus_consumer', {"create", "failed"}, e) = 0
                 /\ Holds(bus_consumer, {"create", "failed"}, e) = 0
                 /\ Holds(bus_consumer', {"enqueue"}, e) = 0
                 /\ Holds(bus_consumer, {"enqueue"}, e) = One(m, e)
                 /\ delivered'[e] = delivered[e] + One(m, e) /\ One(m, e) \in {0, 1}
      BY <1>3, <3>1, <3>2 DEF Holds, One
    <3>4. delivered' \in [BusEvents -> Nat]
      BY <1>3, <3>1
    <3>5. QED
      BY <1>3, <3>1, <3>2, <3>3, <3>4
  <2>3. CASE NoteAck
    <3>1. /\ bus_consumer.pc = "ack" /\ bus_consumer' = Rest /\ UNCHANGED <<notes, delivered, failures>>
      BY <2>3 DEF NoteAck, NoteAt, analyticsVars
    <3>2. /\ bus_consumer' \in [pc : NotePoints, msg : BusMessage] /\ bus_consumer'.pc = "idle"
          /\ bus_consumer'.msg.retries = 0
      BY <3>1, RestType DEF NotePoints
    <3>3. \A e \in BusEvents :
            /\ Holds(bus_consumer', {"create", "failed"}, e) = 0
            /\ Holds(bus_consumer, {"create", "failed"}, e) = 0
            /\ Holds(bus_consumer', {"enqueue"}, e) = 0 /\ Holds(bus_consumer, {"enqueue"}, e) = 0
      BY <3>1, <3>2 DEF Holds
    <3>4. QED
      BY <1>3, <3>1, <3>2, <3>3
  <2>4. CASE NoteError
    <3>1. /\ bus_consumer.pc \in {"create", "enqueue"}
          /\ bus_consumer' = [bus_consumer EXCEPT !.pc = "failed"]
          /\ UNCHANGED <<notes, delivered>> /\ failures' = failures + 1
      BY <2>4 DEF NoteError, NoteGo, Fault
    <3>2. /\ bus_consumer' \in [pc : NotePoints, msg : BusMessage] /\ bus_consumer'.pc = "failed"
          /\ bus_consumer'.msg = m
      BY <1>1, <3>1 DEF BusTables, NotePoints
    <3>3. ASSUME NEW e \in BusEvents
          PROVE  /\ Holds(bus_consumer', {"create", "failed"}, e) \in {0, 1}
                 /\ Holds(bus_consumer, {"create", "failed"}, e) \in {0, 1}
                 /\ Holds(bus_consumer', {"enqueue"}, e) = 0
                 /\ Holds(bus_consumer, {"enqueue"}, e) \in {0, 1}
      BY <3>2 DEF Holds
    <3>4. QED
      BY <1>3, <3>1, <3>2, <3>3
  <2>5. QED
    BY <2>1, <2>2, <2>3, <2>4
<1>6. \A e \in BusEvents : BusTables' /\ RetriesCounted' /\ CopiesCounted(e)'
  <2>1. ASSUME NEW e \in BusEvents PROVE BusTables' /\ RetriesCounted' /\ CopiesCounted(e)'
    <3>1. CopiesCounted(e)
      BY DEF EventsInv
    <3>2. QED
      BY <1>1, <1>2, <1>5, <3>1, NoteMovesKeep
  <2>2. QED
    BY <2>1
<1>7. BusTables' /\ RetriesCounted'
  BY <1>6, ExchangeAssumption
<1>8. QED
  BY <1>4, <1>6, <1>7 DEF EventsInv

-----------------------------------------------------------------------------

(* At the start everything is still to be published. *)
LEMMA EventsInitInv == EventsInit => EventsInv
<1> SUFFICES ASSUME EventsInit PROVE EventsInv
  OBVIOUS
<1> USE DEF EventsInit, BusInit, AnalyticsInit
<1>1. BusTables
  BY RestType DEF BusTables, BusTypeOK, IngestPoints, NotePoints
<1>2. RetriesCounted
  BY RestType, EventBusAssumption DEF RetriesCounted, UpTo, Within, DeadAfterRetries
<1>3. Rows = 0
  BY ExchangeAssumption, TotalOfZeros DEF Rows
<1>4. TablesTrail
  BY <1>3, RestType DEF TablesTrail, IfAt
<1>5. AnswersTrail
  BY <1>3 DEF AnswersTrail
<1>6. ASSUME NEW e \in BusEvents PROVE CopiesCounted(e)
  <2>1. \A q \in {"analytics", "notification", "payout"} : Awaited(q, e) = 0
    <3>1. CopiesIn(<<>>, e) = {}
      BY DEF CopiesIn
    <3>2. \A q \in {"analytics", "notification", "payout"} : boxes[q] = <<>>
      BY ExchangeAssumption
    <3>3. QED
      BY <3>1, <3>2, FS_EmptySet DEF Awaited
  <2>2. Fresh(e) = 1
    BY DEF Fresh
  <2>3. /\ \A pcs \in {{"create", "failed"}, {"failed"}, {"enqueue"}} : Holds(bus_consumer, pcs, e) = 0
        /\ \A pcs \in {{"failed"}, {"check", "row", "failed"}} : Holds(ingest, pcs, e) = 0
    BY RestType DEF Holds
  <2>4. ToTell(e) = 1 /\ ToCount(e) = 1 /\ ToPay(e) = 1 /\ Holds(bus_consumer, {"enqueue"}, e) = 0
    BY <2>1, <2>2, <2>3 DEF ToTell, ToCount, ToPay
  <2>5. QED
    BY <2>4 DEF CopiesCounted
<1>7. QED
  BY <1>1, <1>2, <1>4, <1>5, <1>6 DEF EventsInv

(* Every step keeps the invariant. *)
LEMMA EventsStepInv == EventsInv /\ [EventsNext]_eventVars => EventsInv'
<1> SUFFICES ASSUME EventsInv, [EventsNext]_eventVars PROVE EventsInv'
  OBVIOUS
<1>1. ASSUME NEW e \in BusEvents, PublishEvent(e), UNCHANGED <<analyticsVars, noteVars>>
      PROVE  EventsInv'
  BY <1>1, PublishEventKeeps
<1>2. CASE AnalyticsNext /\ UNCHANGED noteVars
  <2>1. CASE IngestTake
    BY <1>2, <2>1, IngestTakeKeeps
  <2>2. CASE EventKeyExists \/ ClearCache \/ ClearCacheMisses \/ IngestAck \/ IngestError
    BY <1>2, <2>2, IngestGoesKeep
  <2>3. CASE CreateEvent
    BY <1>2, <2>3, CreateEventKeeps
  <2>4. CASE CreateMetrics \/ IncrementStats
    BY <1>2, <2>4, TotalsKeep
  <2>5. CASE IngestRetry
    BY <1>2, <2>5, IngestRetryKeeps
  <2>6. CASE IngestCrash
    BY <1>2, <2>6, IngestCrashKeeps
  <2>7. CASE CacheExpires \/ \E r \in Readers : GetDashboard(r) \/ StoreDashboard(r)
    BY <1>2, <2>7, DashboardsKeep
  <2>8. QED
    BY <1>2, <2>1, <2>2, <2>3, <2>4, <2>5, <2>6, <2>7 DEF AnalyticsNext, IngestStep
<1>3. CASE NoteStep \/ NoteError \/ NoteCrash
  <2>1. CASE HandleMessage
    BY <2>1, HandleMessageKeeps
  <2>2. CASE CreateNotification \/ EnqueueDelivery \/ NoteAck \/ NoteError
    BY <2>2, NoteGoesKeep
  <2>3. CASE NoteRetry
    BY <2>3, NoteRetryKeeps
  <2>4. CASE NoteCrash
    BY <2>4, NoteCrashKeeps
  <2>5. QED
    BY <1>3, <2>1, <2>2, <2>3, <2>4 DEF NoteStep
<1>4. CASE UNCHANGED eventVars
  <2>1. UNCHANGED <<boxes, dead, published, event_rows, metrics, stats, cache, ingest, reader, resent,
                    failures, bus_consumer, notes, delivered>>
    BY <1>4 DEF eventVars, busVars, analyticsVars, noteVars
  <2>2. Rows' = Rows
    BY <2>1 DEF Rows
  <2>3. BusTables' /\ RetriesCounted' /\ TablesTrail' /\ AnswersTrail'
    BY <2>1, <2>2 DEF EventsInv, BusTables, BusTypeOK, RetriesCounted, DeadAfterRetries, TablesTrail,
                      IfAt, AnswersTrail
  <2>4. ASSUME NEW e \in BusEvents PROVE CopiesCounted(e)'
    <3>1. UNCHANGED <<ToTell(e), ToCount(e), ToPay(e), Holds(bus_consumer, {"enqueue"}, e)>>
      BY <2>1 DEF ToTell, ToCount, ToPay, Awaited, Holds, Fresh
    <3>2. QED
      BY <2>1, <3>1 DEF EventsInv, CopiesCounted
  <2>5. QED
    BY <2>3, <2>4 DEF EventsInv
<1>5. QED
  BY <1>1, <1>2, <1>3, <1>4 DEF EventsNext

(* So it holds in every reachable state. *)
LEMMA EventsInvariant == EventsSpec => []EventsInv
<1>1. EventsInit => EventsInv
  BY EventsInitInv
<1>2. EventsInv /\ [EventsNext]_eventVars => EventsInv'
  BY EventsStepInv
<1>3. QED
  BY <1>1, <1>2, PTL DEF EventsSpec

(* Each queue's copies of an event, as the properties count them. *)
LEMMA CopiesAwaited ==
  ASSUME BusTables, NEW q \in Queues, NEW e \in BusEvents
  PROVE  Cardinality(Copies(q, e)) = Awaited(q, e)
<1>1. boxes[q] \in Seq(BusMessage)
  BY DEF BusTables, BusTypeOK
<1>2. DOMAIN boxes[q] = 1..Len(boxes[q])
  BY <1>1
<1>3. QED
  BY <1>2 DEF Copies, Awaited, CopiesIn

(* The analytics service, run with every other consumer on the exchange: an event that
   carries an id is counted once however often it is delivered, one that carries none at
   most once more than things went wrong, and the metric rows and totals lag behind the
   event rows by no more than the failures that cut an ingestion short. *)
THEOREM EventsAreCounted == EventsSpec => []EventsCounted
<1>1. EventsInv => EventsCounted
  <2> SUFFICES ASSUME EventsInv PROVE EventsCounted
    OBVIOUS
  <2>1. BusTables /\ TablesTrail /\ AnswersTrail /\ \A e \in BusEvents : CopiesCounted(e)
    BY DEF EventsInv
  <2>2. RowCount = Rows /\ Rows \in Nat /\ failures \in Nat
    BY <2>1, RowsType DEF BusTables
  <2>3. EventsTypeOK
    <3>1. cache = <<>> \/ cache[1] \in 0..RowCount
      BY <2>1, <2>2 DEF AnswersTrail
    <3>2. \A r \in Readers : reader[r].pc \in {"idle", "store"} /\ reader[r].seen <= RowCount
      BY <2>1, <2>2 DEF AnswersTrail
    <3>3. /\ ingest.msg \in BusMessage /\ bus_consumer.msg \in BusMessage
          /\ ingest.pc \in IngestPoints /\ bus_consumer.pc \in NotePoints
      BY <2>1, ConsumersType
    <3>4. QED
      BY <2>1, <3>1, <3>2, <3>3 DEF EventsTypeOK, AnalyticsTypeOK, BusTables, TablesTrail,
                                    IngestPoints, NotePoints
  <2>4. TotalsTrailRows
    <3>1. IfAt({"metrics"}) \in Nat /\ IfAt({"stats"}) \in Nat
      BY DEF IfAt
    <3>2. metrics \in Nat /\ stats \in Nat
      BY <2>1 DEF TablesTrail
    <3>3. stats <= metrics /\ metrics <= Rows
      BY <2>1, <2>2, <3>1, <3>2 DEF TablesTrail
    <3>4. Rows - stats <= failures + IF ingest.pc \in {"metrics", "stats"} THEN 1 ELSE 0
      BY <2>1 DEF TablesTrail, IfAt
    <3>5. QED
      BY <2>2, <3>3, <3>4 DEF TotalsTrailRows
  <2>5. ASSUME NEW e \in BusEvents
        PROVE  event_rows[e] <= IF e \in Identified THEN 1 ELSE 1 + failures
    <3>1. event_rows[e] + ToCount(e) <= 1 + failures /\ ToCount(e) \in Nat /\ event_rows[e] \in Nat
      BY <2>1, OnTheWayType DEF CopiesCounted, BusTables
    <3>2. e \in Identified => event_rows[e] <= 1
      BY <2>1 DEF TablesTrail
    <3>3. QED
      BY <2>2, <3>1, <3>2
  <2>6. QED
    BY <2>3, <2>4, <2>5 DEF EventsCounted, CountedOnce
<1>2. QED
  BY <1>1, EventsInvariant, PTL

(* Copies of an event multiply with failures only, those of every consumer together: a user
   is told of it, and its approval is before the payout service, at most once more than
   something failed, and it is buried only after more failures than the retry limit. *)
THEOREM CopiesAreBounded == EventsSpec => []CopiesBounded
<1>1. EventsInv => CopiesBounded
  <2> SUFFICES ASSUME EventsInv PROVE CopiesBounded
    OBVIOUS
  <2>1. BusTables /\ RetriesCounted /\ \A e \in BusEvents : CopiesCounted(e)
    BY DEF EventsInv
  <2>2. ASSUME NEW e \in BusEvents
        PROVE  /\ delivered[e] <= notes[e]
               /\ notes[e] + Cardinality(Copies("notification", e)) <= 1 + failures
               /\ Cardinality(Copies("payout", e)) <= 1 + resent[e]
    <3>1. /\ Cardinality(Copies("notification", e)) = Awaited("notification", e)
          /\ Cardinality(Copies("payout", e)) = Awaited("payout", e)
      BY <2>1, CopiesAwaited, ExchangeAssumption
    <3>2. /\ Awaited("notification", e) \in Nat /\ Awaited("payout", e) \in Nat /\ Fresh(e) \in Nat
          /\ notes[e] \in Nat /\ delivered[e] \in Nat /\ resent[e] \in Nat /\ failures \in Nat
      BY <2>1, OnTheWayType, NumbersType
    <3>3. /\ Holds(bus_consumer, {"create", "failed"}, e) \in Nat
          /\ Holds(ingest, {"failed"}, e) \in Nat /\ Holds(bus_consumer, {"enqueue"}, e) \in Nat
      BY HoldsOne
    <3>4. CopiesCounted(e)
      BY <2>1
    <3>5. QED
      BY <3>1, <3>2, <3>3, <3>4 DEF CopiesCounted, ToTell, ToPay
  <2>3. QED
    BY <2>1, <2>2 DEF CopiesBounded, ToldOncePerFailure, ApprovalCopies, RetriesCounted
<1>2. QED
  BY <1>1, EventsInvariant, PTL
=============================================================================
