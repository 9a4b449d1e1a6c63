---------------------------- MODULE ClaimsProofs ----------------------------
(***************************************************************************)
(* Proofs about the way of a disruption to a paid claim: about the trigger *)
(* service alone, for any replicas, connections, pools and conditions;     *)
(* about the intake of claims fed by it, for any users, events, keys and   *)
(* threads, and that the composition adds nothing to what the trigger      *)
(* service does by itself; and about the processing of claims, for any     *)
(* sets of claims, callers and workers and any bounds.                     *)
(***************************************************************************)
EXTENDS Claims, Disruptions, TLAPS

-----------------------------------------------------------------------------
(* The trigger service.                                                    *)

CycleState == [pc : CyclePoints, next : 1 .. Len(Polls) + 1,
               conn : Conns \cup {NoConn}, row : Nat]

\* A running cycle has a connection.
Cycles ==
  /\ cycle \in [Replicas -> CycleState]
  /\ \A r \in Replicas : Running(r) => cycle[r].conn \in Conns

LockState == [conn : Conns \cup {NoConn}, depth : Nat]

\* The types, with the bound of a cycle's row in RowsOwned.
TriggerTypes ==
  /\ disruptions \in Seq(Disruption) /\ Len(disruptions) <= MaxRows
  /\ Cycles
  /\ lock \in LockState /\ (lock.conn # NoConn => lock.depth > 0)
  /\ manual \subseteq DOMAIN disruptions
  /\ announced \subseteq DOMAIN disruptions
  /\ unguarded \in BOOLEAN /\ breaks \in Nat

\* The connection that has the lock is one of the running replica's.
LockHeld ==
  ~ unguarded => \A r \in Replicas : Running(r) => lock.conn \in PoolConns(r)

\* A cycle about to insert has a condition, and since it found no active disruption of
\* it only POST /trigger/mock has made one.
InsertFree ==
  \A r \in Replicas : cycle[r].pc = "insert" =>
    /\ cycle[r].next \in DOMAIN Polls
    /\ ~ unguarded =>
         \A i \in DOMAIN disruptions :
           Active(i) /\ disruptions[i].kind = Polls[cycle[r].next] =>
             disruptions[i].source = "manual"

\* A cycle that is to publish has a row and a condition it was recorded for.
RowsOwned ==
  \A r \in Replicas :
    /\ cycle[r].row \in 0 .. Len(disruptions)
    /\ cycle[r].pc = "publish" =>
         cycle[r].row \in DOMAIN disruptions /\ cycle[r].next \in DOMAIN Polls

TriggerInv ==
  TriggerTypes /\ LockHeld /\ InsertFree /\ OneDetection /\ RowsOwned

\* A cycle moves: nothing else of the replicas changes.
LEMMA CycleMoves ==
  ASSUME Cycles, NEW r \in Replicas, NEW s \in CycleState, Step(r, s),
         s.pc # "idle" => s.conn \in Conns
  PROVE  /\ Cycles'
         /\ \A q \in Replicas : cycle'[q] = IF q = r THEN s ELSE cycle[q]
BY DEF Step, Cycles, Running

\* The state at rest and those a cycle moves to.
LEMMA CycleStates ==
  /\ Rest \in CycleState /\ Rest.pc = "idle" /\ Rest.row = 0
  /\ \A c \in Conns :
       LET s == [Rest EXCEPT !.pc = "poll", !.conn = c]
       IN  s \in CycleState /\ s.conn = c /\ s.pc = "poll" /\ s.row = 0
<1>1. Len(Polls) \in Nat /\ 1 \in 1 .. Len(Polls) + 1
  BY PollsAssumption
<1>2. QED
  BY <1>1 DEF Rest, CycleState, CyclePoints

\* A cycle that goes on with a detection, or with the next condition.
LEMMA NextStates ==
  ASSUME NEW s \in CycleState
  PROVE  /\ LET x == [s EXCEPT !.pc = "insert"]
            IN  x \in CycleState /\ x.pc = "insert" /\ x.conn = s.conn
                /\ x.next = s.next /\ x.row = s.row
         /\ s.next \in DOMAIN Polls =>
              LET x == [s EXCEPT !.next = @ + 1]
                  y == [s EXCEPT !.pc = "poll", !.next = @ + 1, !.row = 0]
              IN  /\ x \in CycleState /\ x.pc = s.pc /\ x.conn = s.conn /\ x.row = s.row
                  /\ y \in CycleState /\ y.pc = "poll" /\ y.conn = s.conn /\ y.row = 0
<1>1. \A n \in DOMAIN Polls : n + 1 \in 1 .. Len(Polls) + 1
  BY PollsAssumption
<1>2. /\ s.next \in 1 .. Len(Polls) + 1 /\ s.row \in Nat /\ s.pc \in CyclePoints
      /\ s.conn \in Conns \cup {NoConn}
  BY DEF CycleState
<1>3. s = [pc |-> s.pc, next |-> s.next, conn |-> s.conn, row |-> s.row]
  BY DEF CycleState
<1>4. QED
  BY <1>1, <1>2, <1>3 DEF CycleState, CyclePoints

\* The service starts with no cycle, no row and the lock free.
LEMMA TriggerInit0 == TriggerInit => TriggerInv
<1>1. SUFFICES ASSUME TriggerInit PROVE TriggerInv
  OBVIOUS
<1>2. Rest \in CycleState
  BY PollsAssumption DEF Rest, CycleState, CyclePoints
<1>3. TriggerTypes
  <2>1. lock \in LockState /\ lock.conn = NoConn
    BY <1>1 DEF TriggerInit, Unlocked, LockState
  <2>2. \A r \in Replicas : ~ Running(r)
    BY <1>1 DEF TriggerInit, Running, Rest
  <2>3. disruptions \in Seq(Disruption) /\ Len(disruptions) <= MaxRows
    BY <1>1, TriggerBoundAssumption DEF TriggerInit
  <2>4. Cycles
    BY <1>1, <1>2, <2>2 DEF TriggerInit, Cycles
  <2>5. QED
    BY <1>1, <2>1, <2>3, <2>4 DEF TriggerInit, TriggerTypes
<1>4. LockHeld /\ InsertFree /\ OneDetection /\ RowsOwned
  BY <1>1
  DEF TriggerInit, LockHeld, InsertFree, OneDetection, RowsOwned, Running,
      Rest
<1>5. QED
  BY <1>3, <1>4 DEF TriggerInv

\* Every step keeps the types.
LEMMA TypesKept == ASSUME TriggerInv, TriggerNext PROVE TriggerTypes'
<1>0. /\ TriggerTypes /\ disruptions \in Seq(Disruption) /\ Len(disruptions) \in Nat
      /\ Cycles /\ lock \in LockState /\ (lock.conn # NoConn => lock.depth > 0)
  BY DEF TriggerInv, TriggerTypes
<1>a. Unlocked \in LockState /\ Unlocked.conn = NoConn
  BY DEF Unlocked, LockState
<1>b. \A r \in Replicas :
        /\ cycle[r] \in CycleState
        /\ cycle[r].pc # "idle" => cycle[r].conn \in Conns
        /\ cycle[r].pc \in {"insert", "publish"} => cycle[r].next \in DOMAIN Polls
  BY <1>0 DEF Cycles, Running, TriggerInv, InsertFree, RowsOwned
<1>1. ASSUME NEW r \in Replicas, NEW c \in Conns, StartCycle(r, c) PROVE TriggerTypes'
  <2>1. Cycles'
    BY <1>0, <1>1, CycleMoves, CycleStates DEF StartCycle
  <2>2. lock' \in LockState /\ lock'.depth > 0
    BY <1>0, <1>1 DEF StartCycle, LockState
  <2>3. QED
    BY <1>0, <1>1, <2>1, <2>2 DEF StartCycle, TriggerTypes
<1>2. ASSUME NEW r \in Replicas, NothingNew(r) \/ Detect(r) PROVE TriggerTypes'
  <2>1. Cycles'
    BY <1>0, <1>b, <1>2, CycleMoves, NextStates DEF NothingNew, Detect
  <2>2. QED
    BY <1>0, <1>2, <2>1 DEF NothingNew, Detect, TriggerTypes
<1>3. ASSUME NEW r \in Replicas, NEW c \in Conns, InsertDisruption(r, c) PROVE TriggerTypes'
  <2> DEFINE row == [kind |-> Polls[cycle[r].next], status |-> "active",
                     source |-> "polled"]
  <2>1. row \in Disruption
    BY <1>3 DEF InsertDisruption, TriggerInv, InsertFree, Disruption, Kinds
  <2>2. disruptions' = Append(disruptions, row) /\ Len(disruptions) < MaxRows
    BY <1>3 DEF InsertDisruption
  <2> HIDE DEF row
  <2>3. /\ disruptions' \in Seq(Disruption) /\ Len(disruptions') = Len(disruptions) + 1
        /\ Len(disruptions') <= MaxRows /\ DOMAIN disruptions \subseteq DOMAIN disruptions'
    BY <1>0, <2>1, <2>2, TriggerBoundAssumption
  <2>4. Cycles'
    <3>1. Len(disruptions') \in Nat
      BY <1>0, <2>3
    <3> DEFINE x == [cycle[r] EXCEPT !.pc = "publish", !.conn = c,
                                     !.row = Len(disruptions')]
    <3>2. Step(r, x)
      BY <1>3 DEF InsertDisruption
    <3>3. x \in CycleState /\ x.conn = c
      BY <1>b, <3>1 DEF CycleState, CyclePoints
    <3> HIDE DEF x
    <3>4. QED
      BY <1>0, <3>2, <3>3, CycleMoves
  <2>5. QED
    BY <1>0, <1>3, <2>3, <2>4 DEF InsertDisruption, TriggerTypes
<1>4. ASSUME NEW r \in Replicas, DisruptionPublished(r) \/ DisruptionLost(r)
      PROVE  TriggerTypes'
  <2>1. cycle[r].row \in DOMAIN disruptions
    BY <1>4 DEF DisruptionPublished, DisruptionLost, TriggerInv, RowsOwned
  <2>2. Cycles'
    BY <1>0, <1>b, <1>4, CycleMoves, NextStates DEF DisruptionPublished, DisruptionLost
  <2>3. QED
    BY <1>0, <1>4, <2>1, <2>2 DEF DisruptionPublished, DisruptionLost, TriggerTypes
<1>5. ASSUME NEW r \in Replicas, EndCycle(r) PROVE TriggerTypes'
  <2>1. Cycles'
    BY <1>0, <1>5, CycleMoves, CycleStates DEF EndCycle
  <2>2. lock' \in LockState /\ (lock'.conn # NoConn => lock'.depth > 0)
    <3>1. CASE lock.conn # cycle[r].conn
      BY <1>0, <1>5, <3>1 DEF EndCycle
    <3>2. CASE lock.conn = cycle[r].conn /\ lock.depth = 1
      BY <1>a, <1>5, <3>2 DEF EndCycle
    <3>3. CASE lock.conn = cycle[r].conn /\ lock.depth # 1
      <4>1. lock.depth \in Nat /\ lock.depth > 1
        BY <1>0, <1>b, <1>5, <3>3, PoolAssumption DEF EndCycle, LockState
      <4>2. lock' = [lock EXCEPT !.depth = @ - 1]
        BY <1>5, <3>3 DEF EndCycle
      <4>3. QED
        BY <1>0, <4>1, <4>2 DEF LockState
    <3>4. QED
      BY <3>1, <3>2, <3>3
  <2>3. QED
    BY <1>0, <1>5, <2>1, <2>2 DEF EndCycle, TriggerTypes
<1>6. ASSUME NEW k \in Kinds, InsertManual(k) PROVE TriggerTypes'
  <2> DEFINE row == [kind |-> k, status |-> "active", source |-> "manual"]
  <2>1. row \in Disruption
    BY DEF Disruption
  <2>2. disruptions' = Append(disruptions, row) /\ Len(disruptions) < MaxRows
    BY <1>6 DEF InsertManual
  <2> HIDE DEF row
  <2>3. /\ disruptions' \in Seq(Disruption) /\ Len(disruptions') = Len(disruptions) + 1
        /\ Len(disruptions') <= MaxRows /\ DOMAIN disruptions \subseteq DOMAIN disruptions'
        /\ Len(disruptions') \in DOMAIN disruptions'
    BY <1>0, <2>1, <2>2, TriggerBoundAssumption
  <2>4. QED
    BY <1>0, <1>6, <2>3 DEF InsertManual, TriggerTypes, Cycles, Running
<1>7. ASSUME NEW i \in manual, ManualPublished(i) \/ ManualLost(i) PROVE TriggerTypes'
  BY <1>0, <1>7 DEF ManualPublished, ManualLost, TriggerTypes, Cycles, Running
<1>8. ASSUME NEW i \in DOMAIN disruptions, StopTrigger(i) PROVE TriggerTypes'
  <2>1. disruptions \in [1 .. Len(disruptions) -> Disruption]
    BY <1>0
  <2>2. disruptions' \in [1 .. Len(disruptions) -> Disruption]
    BY <2>1, <1>8 DEF StopTrigger, Disruption
  <2>3. /\ disruptions' \in Seq(Disruption) /\ Len(disruptions') = Len(disruptions)
        /\ DOMAIN disruptions' = DOMAIN disruptions
    BY <1>0, <2>2
  <2>4. QED
    BY <1>0, <1>8, <2>3 DEF StopTrigger, TriggerTypes, Cycles, Running
<1>9. ASSUME NEW r \in Replicas, CycleError(r) \/ Restart(r) PROVE TriggerTypes'
  <2>1. Cycles'
    BY <1>0, <1>9, CycleMoves, CycleStates DEF CycleError, Restart
  <2>2. /\ lock' \in LockState /\ (lock'.conn # NoConn => lock'.depth > 0)
        /\ breaks' \in Nat
    BY <1>0, <1>a, <1>9 DEF CycleError, Restart, LockWithout, TriggerTypes
  <2>3. QED
    BY <1>0, <1>9, <2>1, <2>2 DEF CycleError, Restart, TriggerTypes
<1>10. ASSUME NEW c \in Conns, LoseConnection(c) PROVE TriggerTypes'
  <2>1. /\ lock' \in LockState /\ (lock'.conn # NoConn => lock'.depth > 0)
        /\ breaks' \in Nat /\ unguarded' \in BOOLEAN
    BY <1>0, <1>a, <1>10 DEF LoseConnection, LockWithout, TriggerTypes
  <2>2. QED
    BY <1>0, <1>10, <2>1 DEF LoseConnection, TriggerTypes, Cycles, Running
<1>11. QED
  BY <1>1, <1>2, <1>3, <1>4, <1>5, <1>6, <1>7, <1>8, <1>9, <1>10
  DEF TriggerNext, Quietly, CycleStep, ManualLost

\* The lock stays with the replica that runs, unless its connection is lost.
LEMMA LockKept == ASSUME TriggerInv, TriggerNext PROVE LockHeld'
<1>0. Cycles /\ LockHeld /\ cycle \in [Replicas -> CycleState] /\ unguarded \in BOOLEAN
  BY DEF TriggerInv, TriggerTypes, Cycles
<1>a. \A c \in Conns : c # NoConn /\ PoolOf[c] \in Replicas
  BY PoolAssumption
<1>b. ASSUME NEW r \in Replicas, NEW s, Step(r, s)
      PROVE  \A q \in Replicas : cycle'[q] = IF q = r THEN s ELSE cycle[q]
  BY <1>0, <1>b DEF Step
<1>1. ASSUME NEW r \in Replicas, NEW c \in Conns, StartCycle(r, c) PROVE LockHeld'
  <2>1. /\ \A q \in Replicas : q # r => cycle'[q] = cycle[q]
        /\ c \in PoolConns(r) /\ lock.conn \in {NoConn, c} /\ lock'.conn = c
        /\ unguarded' = unguarded
    BY <1>b, <1>1 DEF StartCycle
  <2>2. QED
    BY <1>0, <1>a, <2>1 DEF LockHeld, Running, PoolConns
<1>2. ASSUME NEW r \in Replicas,
             \/ CycleStep(r) /\ ~ EndCycle(r)
             \/ DisruptionPublished(r)
      PROVE  LockHeld'
  <2>1. /\ \A q \in Replicas : Running(q)' <=> Running(q)
        /\ lock' = lock /\ unguarded' = unguarded
    <3>1. \A q \in Replicas : q # r => cycle'[q] = cycle[q]
      BY <1>b, <1>2
      DEF CycleStep, NothingNew, Detect, InsertDisruption, DisruptionLost, DisruptionPublished
    <3>2. cycle[r].pc # "idle" /\ cycle'[r].pc # "idle"
      BY <1>0, <1>2
      DEF CycleStep, NothingNew, Detect, InsertDisruption, DisruptionLost,
          DisruptionPublished, Step, CycleState
    <3>3. lock' = lock /\ unguarded' = unguarded
      BY <1>2
      DEF CycleStep, NothingNew, Detect, InsertDisruption, DisruptionLost,
          DisruptionPublished
    <3>4. QED
      BY <3>1, <3>2, <3>3 DEF Running
  <2>2. QED
    BY <1>0, <2>1 DEF LockHeld, PoolConns
<1>3. ASSUME NEW r \in Replicas, EndCycle(r) \/ CycleError(r) \/ Restart(r) PROVE LockHeld'
  <2>1. /\ \A q \in Replicas : q # r => cycle'[q] = cycle[q]
        /\ cycle'[r] = Rest
        /\ unguarded' = unguarded
    BY <1>b, <1>3 DEF EndCycle, CycleError, Restart
  <2>2. ~ Running(r)'
    BY <2>1 DEF Running, Rest
  <2>3. \A q \in Replicas \ {r} :
          ~ unguarded /\ Running(q) => lock'.conn = lock.conn
    <3>1. CASE EndCycle(r) \/ CycleError(r)
      <4>1. Running(r)
        BY <3>1 DEF EndCycle, CycleError, Running
      <4>2. QED
        BY <1>0, <1>a, <4>1 DEF LockHeld, PoolConns
    <3>2. CASE Restart(r)
      <4>1. lock'.conn = lock.conn \/ lock.conn \in PoolConns(r)
        BY <3>2 DEF Restart, LockWithout
      <4>2. QED
        BY <1>0, <1>a, <4>1 DEF LockHeld, PoolConns
    <3>3. QED
      BY <1>3, <3>1, <3>2
  <2>4. QED
    BY <1>0, <2>1, <2>2, <2>3 DEF LockHeld, Running, PoolConns
<1>4. ASSUME NEW c \in Conns, LoseConnection(c) PROVE LockHeld'
  <2>1. /\ cycle' = cycle
        /\ unguarded' = (unguarded \/ (lock.conn = c /\ Running(PoolOf[c])))
        /\ lock.conn = c \/ lock' = lock
    BY <1>4 DEF LoseConnection, LockWithout
  <2>2. QED
    BY <1>0, <1>a, <2>1 DEF LockHeld, Running, PoolConns
<1>5. CASE UNCHANGED <<cycle, lock, unguarded>>
  BY <1>0, <1>5 DEF LockHeld, Running, PoolConns
<1>6. QED
  BY <1>1, <1>2, <1>3, <1>4, <1>5
  DEF TriggerNext, Quietly, InsertManual, ManualPublished, ManualLost, StopTrigger

\* Rows keep their kind and source, and no row becomes active again.
RowsStay ==
  \A i \in DOMAIN disruptions :
    /\ i \in DOMAIN disruptions' /\ disruptions'[i].kind = disruptions[i].kind
    /\ disruptions'[i].source = disruptions[i].source
    /\ Active(i)' => Active(i)

\* The table gets one more row.
Inserted(row) ==
  LET n == Len(disruptions) + 1 IN
  /\ DOMAIN disruptions' = DOMAIN disruptions \cup {n} /\ n \notin DOMAIN disruptions
  /\ Len(disruptions') = n
  /\ disruptions'[n] = row

\* An INSERT adds its row at the end of the table.
LEMMA RowInserted ==
  ASSUME disruptions \in Seq(Disruption), NEW row, disruptions' = Append(disruptions, row)
  PROVE  RowsStay /\ Inserted(row)
BY DEF RowsStay, Inserted, Active

\* POST /trigger/stop changes the status of a row only.
LEMMA RowStopped ==
  ASSUME disruptions \in Seq(Disruption), NEW i \in DOMAIN disruptions, StopTrigger(i)
  PROVE  RowsStay /\ DOMAIN disruptions' = DOMAIN disruptions
<1>1. disruptions \in [1 .. Len(disruptions) -> Disruption]
  OBVIOUS
<1>2. QED
  BY <1>1 DEF StopTrigger, RowsStay, Active, Disruption

\* A step stops a row, inserts one, or leaves the table alone.
LEMMA TableMoves ==
  ASSUME TriggerInv, TriggerNext
  PROVE  /\ RowsStay
         /\ \/ DOMAIN disruptions' = DOMAIN disruptions
            \/ \E k \in Kinds :
                 InsertManual(k)
                 /\ Inserted([kind |-> k, status |-> "active", source |-> "manual"])
            \/ \E r \in Replicas, c \in Conns :
                 /\ InsertDisruption(r, c)
                 /\ Inserted([kind |-> Polls[cycle[r].next], status |-> "active",
                              source |-> "polled"])
<1>0. disruptions \in Seq(Disruption)
  BY DEF TriggerInv, TriggerTypes
<1>1. ASSUME NEW k \in Kinds, InsertManual(k)
      PROVE  RowsStay /\ Inserted([kind |-> k, status |-> "active", source |-> "manual"])
  BY <1>0, <1>1, RowInserted DEF InsertManual
<1>2. ASSUME NEW r \in Replicas, NEW c \in Conns, InsertDisruption(r, c)
      PROVE  RowsStay /\ Inserted([kind |-> Polls[cycle[r].next], status |-> "active",
                                   source |-> "polled"])
  BY <1>0, <1>2, RowInserted DEF InsertDisruption
<1>3. ASSUME NEW i \in DOMAIN disruptions, StopTrigger(i)
      PROVE  RowsStay /\ DOMAIN disruptions' = DOMAIN disruptions
  BY <1>0, <1>3, RowStopped
<1>4. CASE UNCHANGED disruptions
  BY <1>4 DEF RowsStay, Active
<1>5. QED
  BY <1>1, <1>2, <1>3, <1>4
  DEF TriggerNext, Quietly, CycleStep, StartCycle, NothingNew, Detect, DisruptionPublished,
      DisruptionLost, EndCycle, ManualPublished, ManualLost, CycleError, LoseConnection, Restart

\* What replica r's scheduler thread or process may do.
CycleAction(r) ==
  \/ CycleStep(r) \/ DisruptionPublished(r) \/ CycleError(r) \/ Restart(r)
  \/ \E c \in Conns : StartCycle(r, c)

\* Only its own actions change a cycle.
LEMMA ActorOf ==
  ASSUME Cycles, TriggerNext, NEW r \in Replicas, cycle'[r] # cycle[r]
  PROVE  CycleAction(r)
<1>1. PICK q \in Replicas : CycleAction(q)
  BY DEF TriggerNext, Quietly, CycleAction, InsertManual, ManualPublished, ManualLost,
         StopTrigger, LoseConnection
<1>2. \E s : cycle' = [cycle EXCEPT ![q] = s]
  BY <1>1 DEF CycleAction, CycleStep, StartCycle, NothingNew, Detect, InsertDisruption,
              DisruptionPublished, DisruptionLost, EndCycle, CycleError, Restart, Step
<1>3. q = r
  BY <1>2 DEF Cycles
<1>4. QED
  BY <1>1, <1>3

\* A cycle that is about to insert has found no active disruption of its condition, and
\* with the lock nobody else inserts one by polling.
LEMMA FreeKept == ASSUME TriggerInv, TriggerNext PROVE InsertFree'
<1>0. /\ Cycles /\ LockHeld /\ InsertFree /\ cycle \in [Replicas -> CycleState]
      /\ unguarded \in BOOLEAN /\ (unguarded => unguarded')
  BY DEF TriggerInv, TriggerTypes, Cycles, TriggerNext, Quietly, CycleStep, StartCycle,
         NothingNew, Detect, InsertDisruption, DisruptionPublished, DisruptionLost, EndCycle,
         InsertManual, ManualPublished, ManualLost, StopTrigger, CycleError, LoseConnection,
         Restart
<1>1. ASSUME NEW r \in Replicas, cycle'[r].pc = "insert"
      PROVE  /\ cycle'[r].next = cycle[r].next
             /\ cycle[r].pc = "insert" \/ (Detect(r) /\ UNCHANGED <<disruptions, unguarded>>)
             /\ ~ \E c \in Conns : InsertDisruption(r, c)
  <2>1. cycle[r] \in CycleState
    BY <1>0
  <2>2. ASSUME NEW c \in Conns PROVE ~ InsertDisruption(r, c)
    BY <1>0, <1>1 DEF InsertDisruption, CycleState, Step
  <2>3. CASE cycle'[r] = cycle[r]
    BY <1>1, <2>2, <2>3
  <2>4. CASE Detect(r)
    BY <1>0, <1>1, <2>2, <2>4 DEF Detect, CycleState, Step
  <2>5. CASE cycle'[r] # cycle[r] /\ ~ Detect(r)
    <3>1. CASE EndCycle(r) \/ CycleError(r) \/ Restart(r)
      <4>1. Step(r, Rest)
        BY <3>1 DEF EndCycle, CycleError, Restart
      <4>2. QED
        BY <1>0, <1>1, <4>1, CycleStates DEF Step
    <3>2. ASSUME NEW c \in Conns, StartCycle(r, c) PROVE FALSE
      <4>1. Step(r, [Rest EXCEPT !.pc = "poll", !.conn = c])
        BY <3>2 DEF StartCycle
      <4>2. QED
        BY <1>0, <1>1, <4>1, CycleStates DEF Step
    <3>3. CASE NothingNew(r) \/ DisruptionLost(r) \/ DisruptionPublished(r)
      BY <1>0, <1>1, <2>1, <3>3
      DEF NothingNew, DisruptionLost, DisruptionPublished, Step, CycleState
    <3>4. QED
      BY <1>0, <2>2, <2>5, <3>1, <3>2, <3>3, ActorOf DEF CycleAction, CycleStep
  <2>6. QED
    BY <2>3, <2>4, <2>5
<1>2. ASSUME NEW r \in Replicas, cycle'[r].pc = "insert"
      PROVE  /\ cycle'[r].next \in DOMAIN Polls
             /\ ~ unguarded' =>
                  \A i \in DOMAIN disruptions' :
                    Active(i)' /\ disruptions'[i].kind = Polls[cycle'[r].next] =>
                      disruptions'[i].source = "manual"
  <2>1. CASE Detect(r) /\ UNCHANGED <<disruptions, unguarded>>
    BY <1>1, <1>2, <2>1 DEF Detect, ActiveOf, Active
  <2>2. CASE cycle[r].pc = "insert"
    <3>1. cycle'[r].next = cycle[r].next /\ cycle'[r].next \in DOMAIN Polls
      BY <1>0, <1>1, <1>2, <2>2 DEF InsertFree
    <3>2. ASSUME ~ unguarded', NEW i \in DOMAIN disruptions', Active(i)',
                 disruptions'[i].kind = Polls[cycle'[r].next]
          PROVE  disruptions'[i].source = "manual"
      <4>1. CASE i \in DOMAIN disruptions
        BY <1>0, <2>2, <3>1, <3>2, <4>1, TableMoves DEF InsertFree, RowsStay
      <4>2. CASE i \notin DOMAIN disruptions
        <5>1. ASSUME NEW q \in Replicas, NEW c \in Conns, InsertDisruption(q, c)
              PROVE  FALSE
          <6>1. q # r
            BY <1>1, <1>2, <5>1
          <6>2. Running(q) /\ Running(r) /\ ~ unguarded
            BY <1>0, <2>2, <3>2, <5>1 DEF InsertDisruption, Running
          <6>3. QED
            BY <1>0, <6>1, <6>2 DEF LockHeld, PoolConns
        <5>2. \E k \in Kinds :
                Inserted([kind |-> k, status |-> "active", source |-> "manual"])
          BY <4>2, <5>1, TableMoves
        <5>3. QED
          BY <4>2, <5>2 DEF Inserted
      <4>3. QED
        BY <4>1, <4>2
    <3>3. QED
      BY <3>1, <3>2
  <2>3. QED
    BY <1>1, <1>2, <2>1, <2>2
<1>3. QED
  BY <1>2 DEF InsertFree

\* So polling records no second active disruption of a condition.
LEMMA DetectionKept == ASSUME TriggerInv, TriggerNext PROVE OneDetection'
<1>0. InsertFree /\ OneDetection /\ unguarded \in BOOLEAN /\ (unguarded => unguarded')
  BY DEF TriggerInv, TriggerTypes, TriggerNext, Quietly, CycleStep, StartCycle,
         NothingNew, Detect, InsertDisruption, DisruptionPublished, DisruptionLost, EndCycle,
         InsertManual, ManualPublished, ManualLost, StopTrigger, CycleError, LoseConnection,
         Restart
<1> SUFFICES ASSUME ~ unguarded', NEW i \in DOMAIN disruptions', NEW j \in DOMAIN disruptions',
                    i # j, Active(i)', Active(j)',
                    disruptions'[i].kind = disruptions'[j].kind
             PROVE  "manual" \in {disruptions'[i].source, disruptions'[j].source}
  BY DEF OneDetection
<1>1. CASE i \in DOMAIN disruptions /\ j \in DOMAIN disruptions
  BY <1>0, <1>1, TableMoves DEF RowsStay, OneDetection
<1>2. CASE ~ (i \in DOMAIN disruptions /\ j \in DOMAIN disruptions)
  <2>1. CASE \E k \in Kinds :
               Inserted([kind |-> k, status |-> "active", source |-> "manual"])
    BY <1>2, <2>1 DEF Inserted
  <2>2. ASSUME NEW r \in Replicas, NEW c \in Conns, InsertDisruption(r, c),
               Inserted([kind |-> Polls[cycle[r].next], status |-> "active",
                         source |-> "polled"])
        PROVE  "manual" \in {disruptions'[i].source, disruptions'[j].source}
    <3>1. ASSUME NEW n \in DOMAIN disruptions, Active(n)',
                 disruptions'[n].kind = Polls[cycle[r].next]
          PROVE  disruptions'[n].source = "manual"
      BY <1>0, <2>2, <3>1, TableMoves DEF InsertFree, InsertDisruption, RowsStay
    <3>2. QED
      BY <1>2, <2>2, <3>1 DEF Inserted
  <2>3. QED
    BY <1>2, <2>1, <2>2, TableMoves
<1>3. QED
  BY <1>1, <1>2

\* A thread that publishes nothing moves on, or the table and the sets of rows stay.
LEMMA RowsUntouched ==
  ASSUME TriggerInv, DOMAIN disruptions' = DOMAIN disruptions,
         Len(disruptions') = Len(disruptions),
         NEW r \in Replicas, cycle[r].pc # "publish", cycle'[r].pc # "publish",
         cycle'[r].row \in 0 .. Len(disruptions),
         \A q \in Replicas : q # r => cycle'[q] = cycle[q]
  PROVE  RowsOwned'
<1>1. RowsOwned
  BY DEF TriggerInv
<1>2. \A q \in Replicas :
        /\ cycle'[q].pc = "publish" <=> cycle[q].pc = "publish"
        /\ cycle'[q].pc = "publish" => cycle'[q] = cycle[q]
        /\ cycle'[q].row \in 0 .. Len(disruptions)
  BY <1>1 DEF RowsOwned
<1>3. QED
  BY <1>1, <1>2 DEF RowsOwned

\* A cycle is to publish the row it has inserted, and no row is ever deleted.
LEMMA OwnersKept == ASSUME TriggerInv, TriggerNext PROVE RowsOwned'
<1>0. /\ RowsOwned /\ Cycles /\ cycle \in [Replicas -> CycleState]
      /\ disruptions \in Seq(Disruption) /\ Len(disruptions) \in Nat
      /\ DOMAIN disruptions = 1 .. Len(disruptions)
  BY DEF TriggerInv, TriggerTypes, Cycles
<1>1. ASSUME NEW r \in Replicas, NEW s, Step(r, s)
      PROVE  cycle'[r] = s /\ \A q \in Replicas : q # r => cycle'[q] = cycle[q]
  BY <1>0, <1>1 DEF Step
<1>2. ASSUME NEW r \in Replicas, NEW c \in Conns, StartCycle(r, c)
      PROVE  RowsOwned'
  <2> DEFINE s == [Rest EXCEPT !.pc = "poll", !.conn = c]
  <2>1. Step(r, s) /\ cycle[r].pc = "idle" /\ s.pc = "poll" /\ s.row = 0
    BY <1>2, CycleStates DEF StartCycle, Running
  <2> HIDE DEF s
  <2>2. QED
    BY <1>0, <1>1, <1>2, <2>1, RowsUntouched DEF StartCycle
<1>3. ASSUME NEW r \in Replicas, NothingNew(r) \/ Detect(r)
      PROVE  RowsOwned'
  <2>1. PICK s : Step(r, s) /\ s.pc # "publish" /\ s.row = cycle[r].row
    <3>1. cycle[r] \in CycleState
      BY <1>0
    <3>2. CASE NothingNew(r)
      <4> DEFINE s == [cycle[r] EXCEPT !.next = @ + 1]
      <4>1. Step(r, s) /\ s.pc # "publish" /\ s.row = cycle[r].row
        BY <3>1, <3>2, NextStates DEF NothingNew
      <4>2. QED
        BY <4>1
    <3>3. CASE Detect(r)
      <4> DEFINE s == [cycle[r] EXCEPT !.pc = "insert"]
      <4>1. Step(r, s) /\ s.pc # "publish" /\ s.row = cycle[r].row
        BY <3>1, <3>3, NextStates DEF Detect
      <4>2. QED
        BY <4>1
    <3>4. QED
      BY <1>3, <3>2, <3>3
  <2>2. cycle[r].pc # "publish" /\ UNCHANGED <<disruptions, manual, announced>>
    BY <1>3 DEF NothingNew, Detect
  <2>3. /\ cycle'[r] = s /\ \A q \in Replicas : q # r => cycle'[q] = cycle[q]
        /\ cycle[r].row \in 0 .. Len(disruptions)
    BY <1>0, <1>1, <2>1 DEF RowsOwned
  <2>4. QED
    BY <2>1, <2>2, <2>3, RowsUntouched
<1>4. ASSUME NEW r \in Replicas, EndCycle(r) \/ CycleError(r)
      PROVE  RowsOwned'
  <2>1. /\ Step(r, Rest) /\ cycle[r].pc # "publish"
        /\ UNCHANGED <<disruptions, manual, announced>>
    BY <1>4 DEF EndCycle, CycleError
  <2>2. /\ cycle'[r] = Rest /\ \A q \in Replicas : q # r => cycle'[q] = cycle[q]
        /\ Rest.pc # "publish" /\ Rest.row \in 0 .. Len(disruptions)
    BY <1>0, <1>1, <2>1 DEF Rest
  <2>3. QED
    BY <2>1, <2>2, RowsUntouched
<1>5. ASSUME NEW r \in Replicas, NEW c \in Conns, InsertDisruption(r, c)
      PROVE  RowsOwned'
  <2> DEFINE n == Len(disruptions) + 1
             s == [cycle[r] EXCEPT !.pc = "publish", !.conn = c, !.row = Len(disruptions')]
  <2>1. /\ Len(disruptions') = n /\ DOMAIN disruptions' = DOMAIN disruptions \cup {n}
        /\ n \notin DOMAIN disruptions /\ n \in Nat /\ n \in 0 .. n
    BY <1>0, <1>5, RowInserted DEF InsertDisruption, Inserted
  <2>2. Step(r, s)
    BY <1>5 DEF InsertDisruption
  <2>3. s.pc = "publish" /\ s.row = n /\ s.next \in DOMAIN Polls
    <3>1. cycle[r] \in CycleState /\ cycle[r].next \in DOMAIN Polls
      BY <1>0, <1>5 DEF InsertDisruption, TriggerInv, InsertFree
    <3>2. QED
      BY <2>1, <3>1 DEF CycleState
  <2> HIDE DEF s
  <2>4. \A q \in Replicas : cycle'[q].row \in 0 .. Len(disruptions')
    BY <1>0, <1>1, <2>1, <2>2, <2>3 DEF RowsOwned
  <2>5. QED
    BY <1>0, <1>1, <2>1, <2>2, <2>3, <2>4 DEF RowsOwned
<1>6. ASSUME NEW r \in Replicas,
             \/ DisruptionPublished(r) \/ DisruptionLost(r)
             \/ Restart(r) /\ cycle[r].pc = "publish"
      PROVE  RowsOwned'
  <2>1. PICK s : Step(r, s) /\ s.pc # "publish" /\ s.row = 0
    <3>1. CASE Restart(r)
      BY <3>1, CycleStates DEF Restart
    <3>2. CASE DisruptionPublished(r) \/ DisruptionLost(r)
      <4>1. cycle[r].next \in DOMAIN Polls /\ cycle[r] \in CycleState
        BY <1>0, <3>2 DEF DisruptionPublished, DisruptionLost, RowsOwned
      <4>2. QED
        BY <3>2, <4>1, NextStates DEF DisruptionPublished, DisruptionLost
    <3>3. QED
      BY <1>6, <3>1, <3>2
  <2>2. UNCHANGED disruptions
    BY <1>6 DEF DisruptionPublished, DisruptionLost, Restart
  <2>3. \A q \in Replicas :
          /\ q # r => cycle'[q] = cycle[q]
          /\ cycle'[q].pc = "publish" => q # r
          /\ cycle'[q].row \in 0 .. Len(disruptions)
    BY <1>0, <1>1, <2>1 DEF RowsOwned
  <2>4. QED
    BY <1>0, <2>2, <2>3 DEF RowsOwned
<1>7. ASSUME NEW r \in Replicas, Restart(r), cycle[r].pc # "publish"
      PROVE  RowsOwned'
  <2>1. Step(r, Rest) /\ UNCHANGED <<disruptions, manual, announced>>
    BY <1>7 DEF Restart
  <2>2. /\ cycle'[r] = Rest /\ \A q \in Replicas : q # r => cycle'[q] = cycle[q]
        /\ Rest.pc # "publish" /\ Rest.row \in 0 .. Len(disruptions)
    BY <1>0, <1>1, <2>1 DEF Rest
  <2>3. QED
    BY <1>7, <2>1, <2>2, RowsUntouched
<1>8. ASSUME NEW k \in Kinds, InsertManual(k) PROVE RowsOwned'
  <2> DEFINE n == Len(disruptions) + 1
  <2>1. /\ Len(disruptions') = n /\ DOMAIN disruptions' = DOMAIN disruptions \cup {n}
        /\ n \notin DOMAIN disruptions /\ 0 .. Len(disruptions) \subseteq 0 .. n
        /\ UNCHANGED cycle
    BY <1>0, <1>8, RowInserted DEF InsertManual, Inserted
  <2> HIDE DEF n
  <2>2. QED
    BY <1>0, <2>1 DEF RowsOwned
<1>9. ASSUME NEW i \in manual, ManualPublished(i) \/ ManualLost(i)
      PROVE  RowsOwned'
  BY <1>0, <1>9 DEF ManualPublished, ManualLost, RowsOwned
<1>10. ASSUME NEW i \in DOMAIN disruptions, StopTrigger(i)
       PROVE  RowsOwned'
  <2>1. /\ DOMAIN disruptions' = DOMAIN disruptions /\ Len(disruptions') = Len(disruptions)
        /\ UNCHANGED <<cycle, manual, announced>>
    BY <1>0, <1>10 DEF StopTrigger
  <2>2. QED
    BY <1>0, <2>1 DEF RowsOwned
<1>11. ASSUME NEW c \in Conns, LoseConnection(c) PROVE RowsOwned'
  BY <1>0, <1>11 DEF LoseConnection, RowsOwned
<1>12. QED
  BY <1>2, <1>3, <1>4, <1>5, <1>6, <1>7, <1>8, <1>9, <1>10, <1>11
  DEF TriggerNext, Quietly, CycleStep, ManualLost

\* TriggerInv is inductive.
THEOREM TriggerInductive == TriggerInv /\ [TriggerNext]_tvars => TriggerInv'
<1>1. TriggerInv /\ TriggerNext => TriggerInv'
  BY TypesKept, LockKept, FreeKept, DetectionKept, OwnersKept DEF TriggerInv
<1>2. TriggerInv /\ UNCHANGED tvars => TriggerInv'
  BY DEF tvars, TriggerInv, TriggerTypes, Cycles, LockHeld, InsertFree, OneDetection, RowsOwned,
         Running, PoolConns, Active
<1>3. QED
  BY <1>1, <1>2

\* What the runs check of the trigger service follows from it.
LEMMA TriggerInvSafe == TriggerInv => TriggerSafe
<1> SUFFICES ASSUME TriggerInv PROVE TriggerSafe
  OBVIOUS
<1>1. /\ TriggerTypes /\ Cycles /\ LockHeld /\ OneDetection /\ RowsOwned
      /\ cycle \in [Replicas -> CycleState]
  BY DEF TriggerInv, TriggerTypes, Cycles
<1>2. cycle \in [Replicas -> [pc : CyclePoints, next : 1 .. Len(Polls) + 1,
                              conn : Conns \cup {NoConn}, row : 0 .. Len(disruptions)]]
  <2>1. ASSUME NEW r \in Replicas
        PROVE  cycle[r] \in [pc : CyclePoints, next : 1 .. Len(Polls) + 1,
                             conn : Conns \cup {NoConn}, row : 0 .. Len(disruptions)]
    <3>1. cycle[r] \in CycleState /\ cycle[r].row \in 0 .. Len(disruptions)
      BY <1>1 DEF RowsOwned
    <3>2. QED
      BY <3>1 DEF CycleState
  <2>2. QED
    BY <1>1, <2>1
<1>3. TriggerTypeOK
  BY <1>1, <1>2 DEF TriggerTypes, TriggerTypeOK, LockState
<1>4. CycleHoldsLock
  BY <1>1, PoolAssumption DEF LockHeld, CycleHoldsLock, LockReplica, PoolConns
<1>5. QED
  BY <1>1, <1>3, <1>4 DEF TriggerSafe

\* Cycles hold the advisory lock and record one active disruption per polled condition,
\* for any replicas, pools, restarts, lost connections and manual triggers.
THEOREM TriggerCorrect == TriggerSpec => []TriggerSafe
<1>1. TriggerSpec => []TriggerInv
  BY TriggerInit0, TriggerInductive, PTL DEF TriggerSpec
<1>2. QED
  BY <1>1, TriggerInvSafe, PTL

-----------------------------------------------------------------------------
(* The composition with the intake of claims.                              *)

\* What the claims service does changes nothing of the trigger service, and what joins
\* them is a publication of the trigger service.
LEMMA StepIsTriggerStep == [DisruptionsNext]_dvars => [TriggerNext]_tvars
BY DEF DisruptionsNext, dvars, TriggerNext, CycleAnnounces, ManualAnnounces

\* The composition implements the trigger service, so that its properties hold there.
THEOREM DisruptionsImplementTrigger == DisruptionsSpec => TriggerSpec
BY StepIsTriggerStep, PTL DEF DisruptionsSpec, TriggerSpec

(* The invariant of the trigger service holds throughout the composition. *)
LEMMA TriggerInvHolds == DisruptionsSpec => []TriggerInv
BY DisruptionsImplementTrigger, TriggerInit0, TriggerInductive, PTL DEF TriggerSpec

-----------------------------------------------------------------------------
(* The intake of claims, fed by the trigger service.                       *)

TaskState == [pc : TaskPoints, event : Events \cup {Nil}, next : 0 .. Len(Users) + 1,
              key : Keys \cup {Nil}, row : Nat, retries : 0 .. IntakeRetries]

\* The types, with the bound of a task's row in Fits.
IntakeTypes ==
  /\ claims \in Seq(Claim) /\ task \in [IntakeThreads -> TaskState]
  /\ inbox \in [Message -> Nat]
  /\ deadEvents \subseteq Events /\ silent \subseteq DOMAIN claims
  /\ initiated \in Seq(Nat) /\ Len(initiated) = Len(claims)
  /\ autos \in Nat /\ failures \in Nat

WithUser == {"key", "lookup", "insert", "raced", "log", "announce", "answered"}

\* Row c of the table is the claim task s is about, or has taken its key.
IsFor(c, s) == c.user = Users[s.next] /\ c.event = s.event
HasKey(c, s) == s.key # Nil /\ c.key = s.key

\* What a thread with task s knows of the table of claims and of the failures so far.
Fits(table, failed, s) ==
  /\ s.row \in 0 .. Len(table)
  /\ s.pc # "idle" => s.event \in Events /\ s.retries <= failed
  /\ s.pc = "failed" => s.retries < failed
  /\ s.pc \in WithUser => s.next \in DOMAIN Users
  /\ s.pc = "raced" => \E i \in DOMAIN table : IsFor(table[i], s) \/ HasKey(table[i], s)
  /\ s.pc \in {"log", "announce"} => s.row \in DOMAIN table /\ IsFor(table[s.row], s)
  /\ s.pc = "answered" =>
       s.row \in DOMAIN table /\ (IsFor(table[s.row], s) \/ HasKey(table[s.row], s))

TasksFit == \A t \in IntakeThreads : Fits(claims, failures, task[t])

\* A row whose CLAIM_INITIATED is still to come belongs to one thread.
OwnRows ==
  /\ \A t \in IntakeThreads, i \in DOMAIN claims :
       i \in Unannounced(t) => initiated[i] = 0 /\ i \notin silent
  /\ \A t, u \in IntakeThreads, i \in DOMAIN claims :
       i \in Unannounced(t) /\ i \in Unannounced(u) => t = u

\* A message is as old as its number of retries says.
InboxAged == \A e \in Events, r \in 0 .. IntakeRetries : inbox[<<e, r>>] > 0 => r <= failures

IntakeInv ==
  /\ IntakeTypes /\ TasksFit /\ OneClaimPerUser /\ OwnRows /\ InitiatedOnce
  /\ InboxAged /\ DeadEventsNeedFailures

\* What thread t of the claims service may do.
Acts(t) == ServiceStep(t) \/ AutoRequested(t) \/ StatementFails(t) \/ IntakeCrash(t)

\* The service starts with no task, no claim and no message.
LEMMA IntakeInit0 == IntakeInit => IntakeInv
<1> SUFFICES ASSUME IntakeInit PROVE IntakeInv
  OBVIOUS
<1>1. NoTask \in TaskState /\ NoTask.pc = "idle" /\ NoTask.row = 0
  BY IntakeValueAssumption, UsersAssumption DEF NoTask, TaskState, TaskPoints
<1>2. \A t \in IntakeThreads : task[t] = NoTask
  BY DEF IntakeInit
<1>3. IntakeTypes
  BY <1>1 DEF IntakeInit, IntakeTypes
<1>4. TasksFit
  BY <1>1, <1>2 DEF IntakeInit, TasksFit, Fits, WithUser
<1>5. InboxAged
  BY DEF IntakeInit, InboxAged, Message
<1>6. OneClaimPerUser /\ OwnRows /\ InitiatedOnce /\ DeadEventsNeedFailures
  BY DEF IntakeInit, OneClaimPerUser, OwnRows, InitiatedOnce, DeadEventsNeedFailures
<1>7. QED
  BY <1>3, <1>4, <1>5, <1>6 DEF IntakeInv

\* What a thread knows stays true when claims are inserted and statements fail.
LEMMA FitsGrow ==
  ASSUME NEW c \in Seq(Claim), NEW d \in Seq(Claim), NEW f \in Nat, NEW g \in Nat, f <= g,
         Len(c) <= Len(d), \A i \in DOMAIN c : d[i] = c[i],
         NEW s \in TaskState, Fits(c, f, s)
  PROVE  Fits(d, g, s)
<1>1. \A i \in DOMAIN c : i \in DOMAIN d
  OBVIOUS
<1>2. s.retries \in Nat /\ s.row \in Nat
  BY DEF TaskState
<1>3. s.row \in 0 .. Len(d)
  BY <1>2 DEF Fits
<1>4. /\ s.retries <= f => s.retries <= g
      /\ s.retries < f => s.retries < g
  BY <1>2
<1>5. QED
  BY <1>1, <1>3, <1>4 DEF Fits

\* The states a thread moves to without the help of the table.
LEMMA TaskStates ==
  /\ NoTask \in TaskState /\ NoTask.pc = "idle" /\ NoTask.row = 0
  /\ \A s \in TaskState, p \in TaskPoints :
       LET x == [s EXCEPT !.pc = p]
       IN  /\ x \in TaskState /\ x.pc = p /\ x.event = s.event /\ x.next = s.next
           /\ x.key = s.key /\ x.row = s.row /\ x.retries = s.retries
<1>1. NoTask \in TaskState /\ NoTask.pc = "idle" /\ NoTask.row = 0
  BY IntakeValueAssumption, UsersAssumption DEF NoTask, TaskState, TaskPoints
<1>2. QED
  BY <1>1 DEF TaskState

\* auto_create_claim returns a row that fits.
LEMMA CreatedFits ==
  ASSUME IntakeInv, NEW t \in IntakeThreads, NEW i \in DOMAIN claims, Created(t, i),
         task[t].pc \in WithUser,
         IsFor(claims[i], task[t]) \/ HasKey(claims[i], task[t])
  PROVE  \E s \in TaskState :
           /\ Set(t, s) /\ Fits(claims, failures, s)
           /\ s.pc \in {"answered", "lookup", "done"}
<1>1. /\ task[t] \in TaskState /\ Fits(claims, failures, task[t]) /\ Len(claims) \in Nat
      /\ DOMAIN claims = 1 .. Len(claims)
  BY DEF IntakeInv, IntakeTypes, TasksFit
<1>2. /\ task[t].next \in DOMAIN Users /\ task[t].event \in Events
      /\ task[t].retries <= failures /\ DOMAIN Users = 1 .. Len(Users) /\ Len(Users) \in Nat
  BY <1>1, UsersAssumption DEF Fits, WithUser
<1>3. CASE t \in AutoCallers
  <2> DEFINE s == [task[t] EXCEPT !.pc = "answered", !.row = i]
  <2>1. Set(t, s)
    BY <1>3 DEF Created
  <2>2. /\ s \in TaskState /\ s.pc = "answered" /\ s.row = i /\ s.event = task[t].event
        /\ s.next = task[t].next /\ s.key = task[t].key /\ s.retries = task[t].retries
    <3>1. i \in Nat /\ "answered" \in TaskPoints /\ task[t] \in TaskState
      BY <1>1 DEF TaskPoints
    <3>2. QED
      BY <3>1 DEF TaskState
  <2> HIDE DEF s
  <2>3. Fits(claims, failures, s)
    BY <1>1, <1>2, <2>2 DEF Fits, WithUser, IsFor, HasKey
  <2>4. QED
    BY <2>1, <2>2, <2>3
<1>4. CASE t \notin AutoCallers
  <2> DEFINE p == IF task[t].next = Len(Users) THEN "done" ELSE "lookup"
             s == [task[t] EXCEPT !.row = 0, !.next = @ + 1, !.pc = p]
  <2>1. Set(t, s)
    BY <1>4 DEF Created
  <2>2. task[t].next + 1 \in 0 .. Len(Users) + 1
        /\ (p = "lookup" => task[t].next + 1 \in DOMAIN Users) /\ p \in {"done", "lookup"}
    BY <1>2
  <2> HIDE DEF p
  <2>3. /\ s \in TaskState /\ s.pc = p /\ s.row = 0 /\ s.event = task[t].event
        /\ s.next = task[t].next + 1 /\ s.retries = task[t].retries
    BY <1>1, <2>2 DEF TaskState, TaskPoints
  <2> HIDE DEF s
  <2>4. Fits(claims, failures, s)
    BY <1>1, <1>2, <2>2, <2>3 DEF Fits, WithUser
  <2>5. QED
    BY <2>1, <2>2, <2>3, <2>4
<1>5. QED
  BY <1>3, <1>4

\* The claim that task s was to announce.
Pending(s) == IF s.pc \in {"log", "announce"} THEN {s.row} ELSE {}

\* Steps that neither commit nor announce a claim, nor fail.
Unseen(t) ==
  \/ LookupKey(t) \/ Lookup(t) \/ (InsertClaim(t) /\ Conflicts(t) # {}) \/ RacedClaim(t)
  \/ LogClaim(t) \/ Answer(t) \/ Retry(t) \/ AckEvent(t) \/ TakeAny(t) \/ AutoRequested(t)

\* They leave the thread with a task that fits, and with the claim it has to announce.
LEMMA UnseenFits ==
  ASSUME IntakeInv, TriggerTypes, NEW t \in IntakeThreads, Unseen(t)
  PROVE  \E s \in TaskState :
           Set(t, s) /\ Fits(claims, failures, s) /\ Pending(s) = Pending(task[t])
<1>1. /\ task[t] \in TaskState /\ Fits(claims, failures, task[t]) /\ Len(claims) \in Nat
      /\ DOMAIN claims = 1 .. Len(claims) /\ claims \in Seq(Claim) /\ failures \in Nat
  BY DEF IntakeInv, IntakeTypes, TasksFit
<1>2. ASSUME NEW i \in DOMAIN claims, Created(t, i), task[t].pc \in WithUser,
             IsFor(claims[i], task[t]) \/ HasKey(claims[i], task[t]),
             task[t].pc \notin {"log", "announce"}
      PROVE  \E s \in TaskState :
               Set(t, s) /\ Fits(claims, failures, s) /\ Pending(s) = Pending(task[t])
  BY <1>2, CreatedFits DEF Pending
<1>3. ASSUME Set(t, NoTask), task[t].pc \notin {"log", "announce"}
      PROVE  \E s \in TaskState :
               Set(t, s) /\ Fits(claims, failures, s) /\ Pending(s) = Pending(task[t])
  <2>1. Fits(claims, failures, NoTask) /\ Pending(NoTask) = Pending(task[t])
    BY <1>1, <1>3, TaskStates DEF Fits, WithUser, Pending
  <2>2. QED
    BY <1>3, <2>1, TaskStates
<1>4. ASSUME NEW p \in TaskPoints \ {"failed", "answered"}, Goto(t, p), task[t].pc # "idle",
             p \in WithUser => task[t].pc \in WithUser,
             p = "raced" => \E i \in DOMAIN claims :
                              IsFor(claims[i], task[t]) \/ HasKey(claims[i], task[t]),
             p \in {"log", "announce"} <=> task[t].pc \in {"log", "announce"}
      PROVE  \E s \in TaskState :
               Set(t, s) /\ Fits(claims, failures, s) /\ Pending(s) = Pending(task[t])
  <2> DEFINE s == [task[t] EXCEPT !.pc = p]
  <2>1. Set(t, s)
    BY <1>4 DEF Goto
  <2>2. /\ s \in TaskState /\ s.pc = p /\ s.row = task[t].row /\ s.event = task[t].event
        /\ s.next = task[t].next /\ s.key = task[t].key /\ s.retries = task[t].retries
    BY <1>1, TaskStates
  <2> HIDE DEF s
  <2>3. Fits(claims, failures, s) /\ Pending(s) = Pending(task[t])
    BY <1>1, <1>4, <2>2 DEF Fits, IsFor, HasKey, Pending
  <2>4. QED
    BY <2>1, <2>2, <2>3
<1>5. CASE LookupKey(t)
  <2>1. task[t].pc = "key"
    BY <1>5 DEF LookupKey, At
  <2>2. CASE RowsWithKey(task[t].key) = {}
    BY <1>4, <1>5, <2>1, <2>2 DEF LookupKey, TaskPoints, WithUser
  <2>3. CASE RowsWithKey(task[t].key) # {}
    <3>1. PICK i \in RowsWithKey(task[t].key) :
            IF claims[i].user = UserOfTask(t) /\ claims[i].event = task[t].event
            THEN Created(t, i) ELSE Set(t, NoTask)
      BY <1>5, <2>3 DEF LookupKey
    <3>2. i \in DOMAIN claims /\ HasKey(claims[i], task[t])
      BY <3>1 DEF RowsWithKey, HasKey
    <3>3. QED
      BY <1>2, <1>3, <2>1, <3>1, <3>2 DEF WithUser
  <2>4. QED
    BY <2>2, <2>3
<1>6. CASE Lookup(t)
  <2>1. task[t].pc = "lookup"
    BY <1>6 DEF Lookup, At
  <2>2. CASE RowsFor(UserOfTask(t), task[t].event) = {}
    BY <1>4, <1>6, <2>1, <2>2 DEF Lookup, TaskPoints, WithUser
  <2>3. CASE RowsFor(UserOfTask(t), task[t].event) # {}
    <3>1. PICK i \in RowsFor(UserOfTask(t), task[t].event) : Created(t, i)
      BY <1>6, <2>3 DEF Lookup
    <3>2. i \in DOMAIN claims /\ IsFor(claims[i], task[t])
      BY <3>1 DEF RowsFor, IsFor, UserOfTask
    <3>3. QED
      BY <1>2, <2>1, <3>1, <3>2 DEF WithUser
  <2>4. QED
    BY <2>2, <2>3
<1>7. CASE InsertClaim(t) /\ Conflicts(t) # {}
  <2>1. task[t].pc = "insert"
    BY <1>7 DEF InsertClaim, At
  <2>2. Goto(t, "raced")
    BY <1>7 DEF InsertClaim
  <2>3. \E i \in DOMAIN claims : IsFor(claims[i], task[t]) \/ HasKey(claims[i], task[t])
    BY <1>7 DEF Conflicts, RowsFor, RowsWithKey, IsFor, HasKey, UserOfTask
  <2>4. QED
    BY <1>4, <2>1, <2>2, <2>3 DEF TaskPoints, WithUser
<1>8. CASE RacedClaim(t)
  <2>1. task[t].pc = "raced"
    BY <1>8 DEF RacedClaim, At
  <2>2. RowsWithKey(task[t].key) # {} \/ RowsFor(UserOfTask(t), task[t].event) # {}
    BY <1>1, <2>1 DEF Fits, RowsFor, RowsWithKey, IsFor, HasKey, UserOfTask
  <2>3. PICK i \in RowsWithKey(task[t].key) \cup RowsFor(UserOfTask(t), task[t].event) :
               Created(t, i)
    BY <1>8, <2>2 DEF RacedClaim
  <2>4. i \in DOMAIN claims /\ (IsFor(claims[i], task[t]) \/ HasKey(claims[i], task[t]))
    BY <2>3 DEF RowsFor, RowsWithKey, IsFor, HasKey, UserOfTask
  <2>5. QED
    BY <1>2, <2>1, <2>3, <2>4 DEF WithUser
<1>9. CASE LogClaim(t)
  BY <1>4, <1>9 DEF LogClaim, At, TaskPoints, WithUser
<1>10. CASE Answer(t) \/ AckEvent(t)
  BY <1>3, <1>10 DEF Answer, AckEvent, At
<1>11. CASE Retry(t)
  BY <1>4, <1>11 DEF Retry, At, TaskPoints, WithUser
<1>12. ASSUME NEW e \in Events, NEW r \in 0 .. IntakeRetries, TakeEvent(t, e, r)
       PROVE  \E s \in TaskState :
                Set(t, s) /\ Fits(claims, failures, s) /\ Pending(s) = Pending(task[t])
  <2> DEFINE p == IF Users = <<>> THEN "done" ELSE "lookup"
             s == [NoTask EXCEPT !.event = e, !.retries = r, !.next = 1, !.pc = p]
  <2>1. Set(t, s) /\ task[t].pc = "idle" /\ r <= failures
    BY <1>12 DEF TakeEvent, At, IntakeInv, InboxAged
  <2>2. /\ p \in {"done", "lookup"} /\ (p = "lookup" => 1 \in DOMAIN Users)
        /\ 1 \in 0 .. Len(Users) + 1
    BY UsersAssumption
  <2> HIDE DEF p
  <2>3. /\ s \in TaskState /\ s.pc = p /\ s.row = 0 /\ s.event = e /\ s.next = 1
        /\ s.retries = r
    BY <2>2, TaskStates DEF NoTask, TaskState, TaskPoints
  <2> HIDE DEF s
  <2>4. Fits(claims, failures, s) /\ Pending(s) = Pending(task[t])
    BY <1>1, <2>1, <2>2, <2>3 DEF Fits, WithUser, Pending
  <2>5. QED
    BY <2>1, <2>3, <2>4
<1>13. ASSUME NEW n \in DOMAIN Users, NEW e \in DOMAIN disruptions, NEW k \in Keys,
              AutoCreate(t, n, e, k)
       PROVE  \E s \in TaskState :
                Set(t, s) /\ Fits(claims, failures, s) /\ Pending(s) = Pending(task[t])
  <2> DEFINE s == [NoTask EXCEPT !.pc = "key", !.event = e, !.next = n, !.key = k]
  <2>1. Set(t, s) /\ task[t].pc = "idle"
    BY <1>13 DEF AutoCreate, At
  <2>2. e \in Events /\ n \in 0 .. Len(Users) + 1
    <3>1. /\ DOMAIN disruptions = 1 .. Len(disruptions) /\ Len(disruptions) \in Nat
          /\ Len(disruptions) <= MaxRows /\ MaxRows \in Nat
      BY TriggerBoundAssumption DEF TriggerTypes
    <3>2. DOMAIN Users = 1 .. Len(Users) /\ Len(Users) \in Nat
      BY UsersAssumption
    <3>3. e \in 1 .. MaxRows
      BY <3>1
    <3>4. QED
      BY <3>2, <3>3, EventsAssumption
  <2>3. /\ s \in TaskState /\ s.pc = "key" /\ s.row = 0 /\ s.event = e /\ s.next = n
        /\ s.retries = 0
    BY <2>2, TaskStates DEF NoTask, TaskState, TaskPoints
  <2> HIDE DEF s
  <2>4. Fits(claims, failures, s) /\ Pending(s) = Pending(task[t])
    BY <1>1, <2>1, <2>2, <2>3 DEF Fits, WithUser, Pending
  <2>5. QED
    BY <2>1, <2>3, <2>4
<1>14. QED
  BY <1>5, <1>6, <1>7, <1>8, <1>9, <1>10, <1>11, <1>12, <1>13
  DEF Unseen, TakeAny, AutoRequested

\* The queue's messages keep their age, and a dead letter needs its failures.
LEMMA QueueKept ==
  ASSUME IntakeInv, TriggerTypes, NEW t \in IntakeThreads, Acts(t)
  PROVE  /\ inbox' \in [Message -> Nat] /\ deadEvents' \subseteq Events
         /\ InboxAged' /\ DeadEventsNeedFailures'
         /\ autos' \in Nat /\ failures' \in Nat /\ failures <= failures'
<1>1. /\ inbox \in [Message -> Nat] /\ deadEvents \subseteq Events /\ InboxAged
      /\ DeadEventsNeedFailures /\ autos \in Nat /\ failures \in Nat
      /\ task[t] \in TaskState /\ Fits(claims, failures, task[t])
  BY DEF IntakeInv, IntakeTypes, TasksFit
<1>2. IntakeRetries \in Nat
  BY IntakeValueAssumption
<1>3. CASE UNCHANGED <<inbox, deadEvents, failures, autos>>
  BY <1>1, <1>3 DEF InboxAged, DeadEventsNeedFailures
<1>4. ASSUME NEW n \in DOMAIN Users, NEW e \in DOMAIN disruptions, NEW k \in Keys,
             AutoCreate(t, n, e, k)
      PROVE  UNCHANGED <<inbox, deadEvents, failures>> /\ autos' \in Nat
  BY <1>1, <1>4 DEF AutoCreate, post
<1>5. ASSUME NEW e \in Events, NEW r \in 0 .. IntakeRetries,
             inbox' = [inbox EXCEPT ![<<e, r>>] = @ + 1] \/ TakeEvent(t, e, r),
             r <= failures', failures' \in Nat, failures <= failures'
      PROVE  inbox' \in [Message -> Nat] /\ InboxAged'
  <2>1. <<e, r>> \in Message /\ inbox[<<e, r>>] \in Nat
    BY <1>1 DEF Message
  <2>2. /\ inbox' \in [Message -> Nat]
        /\ \A m \in Message : m # <<e, r>> => inbox'[m] = inbox[m]
    <3>1. CASE TakeEvent(t, e, r)
      BY <1>1, <2>1, <3>1 DEF TakeEvent
    <3>2. CASE inbox' = [inbox EXCEPT ![<<e, r>>] = @ + 1]
      BY <1>1, <2>1, <3>2
    <3>3. QED
      BY <1>5, <3>1, <3>2
  <2>3. ASSUME NEW d \in Events, NEW q \in 0 .. IntakeRetries, inbox'[<<d, q>>] > 0
        PROVE  q <= failures'
    <3>1. CASE <<d, q>> = <<e, r>>
      BY <1>5, <3>1
    <3>2. CASE <<d, q>> # <<e, r>>
      <4>1. <<d, q>> \in Message /\ inbox[<<d, q>>] > 0
        BY <2>2, <2>3, <3>2 DEF Message
      <4>2. q <= failures
        BY <1>1, <4>1 DEF InboxAged
      <4>3. QED
        BY <1>1, <1>2, <1>5, <4>2
    <3>3. QED
      BY <3>1, <3>2
  <2>4. QED
    BY <2>2, <2>3 DEF InboxAged
<1>6. CASE TakeAny(t)
  <2>1. PICK e \in Events, r \in 0 .. IntakeRetries : TakeEvent(t, e, r)
    BY <1>6 DEF TakeAny
  <2>2. UNCHANGED <<deadEvents, failures, autos>> /\ r <= failures
    BY <1>1, <2>1 DEF TakeEvent, bounds, InboxAged
  <2>3. failures' \in Nat /\ failures <= failures' /\ r <= failures'
    BY <1>1, <2>2
  <2>4. inbox' \in [Message -> Nat] /\ InboxAged'
    BY <1>5, <2>1, <2>3
  <2>5. QED
    BY <1>1, <2>2, <2>3, <2>4 DEF DeadEventsNeedFailures
<1>7. CASE Retry(t)
  <2>1. /\ task[t].event \in Events /\ task[t].retries < failures
        /\ task[t].retries \in 0 .. IntakeRetries /\ UNCHANGED bounds
    BY <1>1, <1>7 DEF Retry, At, Fits, TaskState
  <2>2. CASE task[t].retries < IntakeRetries
    <3>1. /\ inbox' = [inbox EXCEPT ![<<task[t].event, task[t].retries + 1>>] = @ + 1]
          /\ UNCHANGED <<deadEvents, failures, autos>>
      BY <1>7, <2>2 DEF Retry, bounds
    <3>2. task[t].retries + 1 \in 0 .. IntakeRetries /\ task[t].retries + 1 <= failures
      BY <1>1, <1>2, <2>1, <2>2
    <3>3. failures' \in Nat /\ failures <= failures' /\ task[t].retries + 1 <= failures'
      BY <1>1, <3>1, <3>2
    <3>4. inbox' \in [Message -> Nat] /\ InboxAged'
      BY <1>5, <2>1, <3>1, <3>2, <3>3
    <3>5. QED
      BY <1>1, <3>1, <3>3, <3>4 DEF DeadEventsNeedFailures
  <2>3. CASE ~ task[t].retries < IntakeRetries
    <3>1. deadEvents' = deadEvents \cup {task[t].event} /\ UNCHANGED <<inbox, failures, autos>>
      BY <1>7, <2>3 DEF Retry, bounds
    <3>2. failures > IntakeRetries
      BY <1>1, <1>2, <2>1, <2>3
    <3>3. QED
      BY <1>1, <2>1, <3>1, <3>2 DEF InboxAged, DeadEventsNeedFailures
  <2>4. QED
    BY <2>2, <2>3
<1>8. CASE StatementFails(t) \/ IntakeCrash(t)
  <2>1. /\ failures' = failures + 1 /\ UNCHANGED <<deadEvents, autos>>
        /\ \/ inbox' = inbox
           \/ /\ inbox' = [inbox EXCEPT ![<<task[t].event, task[t].retries>>] = @ + 1]
              /\ task[t].pc # "idle"
    BY <1>8 DEF StatementFails, IntakeCrash, At
  <2>2. failures' \in Nat /\ failures <= failures' /\ DeadEventsNeedFailures'
    BY <1>1, <1>2, <2>1 DEF DeadEventsNeedFailures
  <2>3. CASE inbox' = inbox
    <3>1. InboxAged'
      BY <1>1, <1>2, <2>2, <2>3 DEF InboxAged
    <3>2. QED
      BY <1>1, <2>1, <2>2, <2>3, <3>1
  <2>4. CASE inbox' # inbox
    <3>1. /\ task[t].event \in Events /\ task[t].retries \in 0 .. IntakeRetries
          /\ task[t].retries <= failures'
      BY <1>1, <1>2, <2>1, <2>4 DEF Fits, TaskState
    <3>2. inbox' \in [Message -> Nat] /\ InboxAged'
      BY <1>5, <2>1, <2>2, <2>4, <3>1
    <3>3. QED
      BY <1>1, <2>1, <2>2, <3>2
  <2>5. QED
    BY <2>3, <2>4
<1>9. CASE LookupKey(t) \/ Lookup(t) \/ InsertClaim(t) \/ RacedClaim(t) \/ LogClaim(t)
           \/ AnnounceInitiated(t) \/ InitiatedLost(t) \/ Answer(t) \/ AckEvent(t)
  <2>1. UNCHANGED <<inbox, deadEvents, failures, autos>>
    BY <1>9 DEF LookupKey, Lookup, InsertClaim, RacedClaim, LogClaim, AnnounceInitiated,
                InitiatedLost, Answer, AckEvent, post, bounds
  <2>2. QED
    BY <1>1, <1>3, <2>1
<1>10. CASE AutoRequested(t)
  <2>1. UNCHANGED <<inbox, deadEvents, failures>> /\ autos' \in Nat
    BY <1>4, <1>10 DEF AutoRequested
  <2>2. QED
    BY <1>1, <2>1 DEF InboxAged, DeadEventsNeedFailures
<1>11. QED
  BY <1>6, <1>7, <1>8, <1>9, <1>10 DEF Acts, ServiceStep, IntakeStep

\* A thread's task changes while claims are at most added and failures counted.
LEMMA TaskMoves ==
  ASSUME IntakeInv, NEW t \in IntakeThreads, NEW s \in TaskState, Set(t, s),
         claims' \in Seq(Claim), Len(claims) <= Len(claims'),
         \A i \in DOMAIN claims : claims'[i] = claims[i],
         failures' \in Nat, failures <= failures', Fits(claims', failures', s)
  PROVE  /\ task' \in [IntakeThreads -> TaskState] /\ TasksFit'
         /\ task'[t] = s /\ \A u \in IntakeThreads : u # t => task'[u] = task[u]
<1>1. /\ task \in [IntakeThreads -> TaskState] /\ TasksFit /\ claims \in Seq(Claim)
      /\ failures \in Nat
  BY DEF IntakeInv, IntakeTypes
<1>2. /\ task' \in [IntakeThreads -> TaskState]
      /\ task'[t] = s /\ \A u \in IntakeThreads : u # t => task'[u] = task[u]
  BY <1>1 DEF Set
<1>3. ASSUME NEW u \in IntakeThreads PROVE Fits(claims', failures', task'[u])
  <2>1. CASE u = t
    BY <1>2, <2>1
  <2>2. CASE u # t
    <3>1. task[u] \in TaskState /\ Fits(claims, failures, task[u]) /\ task'[u] = task[u]
      BY <1>1, <1>2, <2>2 DEF TasksFit
    <3>2. QED
      BY <1>1, <3>1, FitsGrow
  <2>3. QED
    BY <2>1, <2>2
<1>4. QED
  BY <1>2, <1>3 DEF TasksFit

\* Steps that neither commit nor announce a claim, nor fail, keep the invariant.
LEMMA UnseenKeeps ==
  ASSUME IntakeInv, TriggerTypes, NEW t \in IntakeThreads, Acts(t), Unseen(t)
  PROVE  IntakeInv'
<1>1. IntakeTypes /\ OneClaimPerUser /\ OwnRows /\ InitiatedOnce /\ Len(claims) \in Nat
  BY DEF IntakeInv, IntakeTypes
<1>2. UNCHANGED <<claims, initiated, silent, failures>>
  BY DEF Unseen, LookupKey, Lookup, InsertClaim, RacedClaim, LogClaim, Answer, Retry, AckEvent,
         TakeAny, TakeEvent, AutoRequested, AutoCreate, post, bounds
<1>3. PICK s \in TaskState :
        Set(t, s) /\ Fits(claims, failures, s) /\ Pending(s) = Pending(task[t])
  BY UnseenFits
<1>4. /\ task' \in [IntakeThreads -> TaskState] /\ TasksFit'
      /\ task'[t] = s /\ \A u \in IntakeThreads : u # t => task'[u] = task[u]
  BY <1>1, <1>2, <1>3, TaskMoves DEF IntakeTypes
<1>5. \A u \in IntakeThreads : Unannounced(u)' = Unannounced(u)
  BY <1>3, <1>4 DEF Unannounced, Pending
<1>6. OneClaimPerUser' /\ OwnRows' /\ InitiatedOnce'
  BY <1>1, <1>2, <1>5 DEF OneClaimPerUser, OwnRows, InitiatedOnce
<1>7. IntakeTypes'
  BY <1>1, <1>2, <1>4, QueueKept DEF IntakeTypes
<1>8. QED
  BY <1>4, <1>6, <1>7, QueueKept DEF IntakeInv

\* auto_create_claim commits a claim no other has: its thread has to announce it.
LEMMA InsertKeeps ==
  ASSUME IntakeInv, TriggerTypes, NEW t \in IntakeThreads, InsertClaim(t), Conflicts(t) = {}
  PROVE  IntakeInv'
<1> DEFINE n == Len(claims) + 1
           row == [user |-> UserOfTask(t), event |-> task[t].event, key |-> task[t].key]
<1>1. /\ IntakeTypes /\ OneClaimPerUser /\ OwnRows /\ InitiatedOnce
      /\ claims \in Seq(Claim) /\ Len(claims) \in Nat /\ DOMAIN claims = 1 .. Len(claims)
      /\ initiated \in Seq(Nat) /\ Len(initiated) = Len(claims)
      /\ task[t] \in TaskState /\ Fits(claims, failures, task[t]) /\ failures \in Nat
      /\ silent \subseteq DOMAIN claims
  BY DEF IntakeInv, IntakeTypes, TasksFit
<1>2. /\ claims' = Append(claims, row) /\ initiated' = Append(initiated, 0)
      /\ Set(t, [task[t] EXCEPT !.pc = "log", !.row = Len(claims')])
      /\ UNCHANGED <<inbox, deadEvents, silent, autos, failures>> /\ task[t].pc = "insert"
  BY DEF InsertClaim, bounds, At
<1>3. row \in Claim /\ row.user = UserOfTask(t) /\ row.event = task[t].event
  BY <1>1, <1>2 DEF Fits, WithUser, Claim, TaskState, UserOfTask, InsuredUsers
<1> HIDE DEF row
<1>4. /\ claims' \in Seq(Claim) /\ Len(claims') = n /\ DOMAIN claims' = DOMAIN claims \cup {n}
      /\ n \notin DOMAIN claims /\ n \in Nat /\ Len(claims) <= n /\ n \in DOMAIN claims'
      /\ \A i \in DOMAIN claims : claims'[i] = claims[i]
      /\ claims'[n] = row
  BY <1>1, <1>2, <1>3
<1>5. /\ initiated' \in Seq(Nat) /\ Len(initiated') = n /\ initiated'[n] = 0
      /\ \A i \in DOMAIN claims : initiated'[i] = initiated[i]
  BY <1>1, <1>2
<1> HIDE DEF n
<1>6. PICK s \in TaskState : Set(t, s) /\ Fits(claims', failures', s) /\ Pending(s) = {n}
  <2> DEFINE s == [task[t] EXCEPT !.pc = "log", !.row = Len(claims')]
  <2>1. Set(t, s)
    BY <1>2
  <2>2. /\ s \in TaskState /\ s.pc = "log" /\ s.row = n /\ s.event = task[t].event
        /\ s.next = task[t].next /\ s.retries = task[t].retries
    BY <1>1, <1>4 DEF TaskState, TaskPoints
  <2> HIDE DEF s
  <2>3. IsFor(claims'[n], s) /\ n \in 0 .. n
    BY <1>3, <1>4, <2>2 DEF IsFor, UserOfTask
  <2>4. Fits(claims', failures', s) /\ Pending(s) = {n}
    BY <1>1, <1>2, <1>4, <2>2, <2>3 DEF Fits, WithUser, Pending
  <2>5. QED
    BY <2>1, <2>2, <2>4
<1>7. /\ task' \in [IntakeThreads -> TaskState] /\ TasksFit'
      /\ task'[t] = s /\ \A u \in IntakeThreads : u # t => task'[u] = task[u]
  BY <1>1, <1>2, <1>4, <1>6, TaskMoves
<1>8. /\ Unannounced(t)' = {n} /\ Unannounced(t) = {}
      /\ \A u \in IntakeThreads : u # t => Unannounced(u)' = Unannounced(u)
      /\ \A u \in IntakeThreads : n \notin Unannounced(u)
  <2>1. \A u \in IntakeThreads : n \notin Unannounced(u)
    BY <1>1, <1>4 DEF IntakeInv, TasksFit, Fits, Unannounced
  <2>2. QED
    BY <1>2, <1>6, <1>7, <2>1 DEF Unannounced, Pending
<1>9. OneClaimPerUser'
  <2>1. ASSUME NEW i \in DOMAIN claims
        PROVE  ~ (claims[i].user = row.user /\ claims[i].event = row.event)
    BY <1>3 DEF Conflicts, RowsFor
  <2>2. QED
    BY <1>1, <1>4, <2>1 DEF OneClaimPerUser
<1>10. OwnRows' /\ InitiatedOnce'
  <2>1. OwnRows'
    <3>1. ASSUME NEW u \in IntakeThreads, NEW i \in DOMAIN claims', i \in Unannounced(u)'
          PROVE  initiated'[i] = 0 /\ i \notin silent'
      <4>1. CASE u = t
        BY <1>1, <1>2, <1>4, <1>5, <1>8, <3>1, <4>1
      <4>2. CASE u # t
        BY <1>1, <1>2, <1>4, <1>5, <1>8, <3>1, <4>2 DEF OwnRows
      <4>3. QED
        BY <4>1, <4>2
    <3>2. ASSUME NEW u \in IntakeThreads, NEW v \in IntakeThreads, NEW i \in DOMAIN claims',
                 i \in Unannounced(u)', i \in Unannounced(v)'
          PROVE  u = v
      BY <1>1, <1>4, <1>8, <3>2 DEF OwnRows
    <3>3. QED
      BY <3>1, <3>2 DEF OwnRows
  <2>2. InitiatedOnce'
    BY <1>1, <1>2, <1>4, <1>5, <1>8 DEF InitiatedOnce
  <2>3. QED
    BY <2>1, <2>2
<1>11. IntakeTypes'
  BY <1>1, <1>2, <1>4, <1>5, <1>7 DEF IntakeTypes
<1>12. InboxAged' /\ DeadEventsNeedFailures'
  BY <1>2 DEF IntakeInv, InboxAged, DeadEventsNeedFailures
<1>13. QED
  BY <1>7, <1>9, <1>10, <1>11, <1>12 DEF IntakeInv

\* The thread of a new claim announces it, or the broker does not take it.
LEMMA AnnounceKeeps ==
  ASSUME IntakeInv, TriggerTypes, NEW t \in IntakeThreads, Acts(t),
         AnnounceInitiated(t) \/ InitiatedLost(t)
  PROVE  IntakeInv'
<1> DEFINE n == task[t].row
<1>1. /\ IntakeTypes /\ OneClaimPerUser /\ OwnRows /\ InitiatedOnce
      /\ claims \in Seq(Claim) /\ Len(claims) \in Nat /\ DOMAIN claims = 1 .. Len(claims)
      /\ initiated \in [DOMAIN claims -> Nat] /\ failures \in Nat
      /\ task[t] \in TaskState /\ Fits(claims, failures, task[t])
  BY DEF IntakeInv, IntakeTypes, TasksFit
<1>2. /\ task[t].pc = "announce" /\ Created(t, n) /\ UNCHANGED <<claims, failures>>
      /\ \/ initiated' = [initiated EXCEPT ![n] = @ + 1] /\ silent' = silent
         \/ silent' = silent \cup {n} /\ initiated' = initiated
  BY DEF AnnounceInitiated, InitiatedLost, At, bounds
<1>3. n \in DOMAIN claims /\ IsFor(claims[n], task[t])
  BY <1>1, <1>2 DEF Fits
<1>4. PICK s \in TaskState : Set(t, s) /\ Fits(claims, failures, s) /\ Pending(s) = {}
  BY <1>2, <1>3, CreatedFits DEF WithUser, Pending
<1>5. /\ task' \in [IntakeThreads -> TaskState] /\ TasksFit'
      /\ task'[t] = s /\ \A u \in IntakeThreads : u # t => task'[u] = task[u]
  BY <1>1, <1>2, <1>4, TaskMoves
<1>6. /\ Unannounced(t)' = {} /\ Unannounced(t) = {n}
      /\ \A u \in IntakeThreads : u # t => Unannounced(u)' = Unannounced(u)
  BY <1>2, <1>4, <1>5 DEF Unannounced, Pending
<1> HIDE DEF n
<1>7. initiated[n] = 0 /\ n \notin silent
      /\ \A u \in IntakeThreads : n \in Unannounced(u) => u = t
  BY <1>1, <1>3, <1>6 DEF OwnRows
<1>8. /\ initiated' \in [DOMAIN claims -> Nat]
      /\ \A i \in DOMAIN claims : i # n => initiated'[i] = initiated[i]
      /\ \/ initiated'[n] = 1 /\ silent' = silent
         \/ initiated'[n] = 0 /\ silent' = silent \cup {n}
  <2>1. initiated[n] + 1 = 1 /\ 1 \in Nat
    BY <1>7
  <2>2. QED
    BY <1>1, <1>2, <1>3, <1>7, <2>1
<1>9. OwnRows' /\ InitiatedOnce'
  <2>1. OwnRows'
    BY <1>1, <1>2, <1>6, <1>7, <1>8 DEF OwnRows
  <2>2. InitiatedOnce'
    BY <1>1, <1>2, <1>6, <1>7, <1>8 DEF InitiatedOnce
  <2>3. QED
    BY <2>1, <2>2
<1>10. IntakeTypes'
  <2>1. initiated' \in Seq(Nat) /\ Len(initiated') = Len(claims')
    BY <1>1, <1>2, <1>8
  <2>2. silent' \subseteq DOMAIN claims'
    BY <1>1, <1>2, <1>3 DEF IntakeTypes
  <2>3. QED
    BY <1>1, <1>2, <1>5, <2>1, <2>2, QueueKept DEF IntakeTypes
<1>11. QED
  BY <1>1, <1>2, <1>5, <1>9, <1>10, QueueKept DEF IntakeInv, OneClaimPerUser

\* A failing statement or a crash leaves the claim of its thread silent.
LEMMA FailureKeeps ==
  ASSUME IntakeInv, TriggerTypes, NEW t \in IntakeThreads, Acts(t),
         StatementFails(t) \/ IntakeCrash(t)
  PROVE  IntakeInv'
<1>1. /\ IntakeTypes /\ OneClaimPerUser /\ OwnRows /\ InitiatedOnce
      /\ claims \in Seq(Claim) /\ Len(claims) \in Nat /\ DOMAIN claims = 1 .. Len(claims)
      /\ task[t] \in TaskState /\ Fits(claims, failures, task[t]) /\ failures \in Nat
  BY DEF IntakeInv, IntakeTypes, TasksFit
<1>2. /\ failures' = failures + 1 /\ UNCHANGED <<claims, initiated>> /\ task[t].pc # "idle"
      /\ silent' = silent \cup Unannounced(t)
  BY DEF StatementFails, IntakeCrash, At
<1>3. PICK s \in TaskState : Set(t, s) /\ Fits(claims, failures', s) /\ Pending(s) = {}
  <2>1. CASE IntakeCrash(t)
    BY <1>1, <1>2, <2>1, TaskStates DEF IntakeCrash, Fits, WithUser, Pending
  <2>2. CASE StatementFails(t)
    <3> DEFINE s == [task[t] EXCEPT !.pc = "failed"]
    <3>1. Set(t, s)
      BY <2>2 DEF StatementFails, Goto
    <3>2. /\ s \in TaskState /\ s.pc = "failed" /\ s.row = task[t].row
          /\ s.event = task[t].event /\ s.retries = task[t].retries
      BY <1>1, TaskStates DEF TaskPoints
    <3>3. task[t].retries <= failures' /\ task[t].retries < failures' /\ task[t].retries \in Nat
      BY <1>1, <1>2 DEF Fits, TaskState
    <3> HIDE DEF s
    <3>4. Fits(claims, failures', s) /\ Pending(s) = {}
      BY <1>1, <1>2, <3>2, <3>3 DEF Fits, WithUser, Pending
    <3>5. QED
      BY <3>1, <3>2, <3>4
  <2>3. QED
    BY <2>1, <2>2
<1>4. failures' \in Nat /\ failures <= failures'
  BY <1>1, <1>2
<1>5. /\ task' \in [IntakeThreads -> TaskState] /\ TasksFit'
      /\ task'[t] = s /\ \A u \in IntakeThreads : u # t => task'[u] = task[u]
  BY <1>1, <1>2, <1>3, <1>4, TaskMoves
<1>6. /\ Unannounced(t)' = {} /\ Unannounced(t) \subseteq DOMAIN claims
      /\ \A u \in IntakeThreads : u # t => Unannounced(u)' = Unannounced(u)
  BY <1>1, <1>3, <1>5 DEF Unannounced, Pending, Fits
<1>7. OwnRows' /\ InitiatedOnce'
  <2>1. OwnRows'
    BY <1>1, <1>2, <1>6 DEF OwnRows
  <2>2. InitiatedOnce'
    BY <1>1, <1>2, <1>6 DEF OwnRows, InitiatedOnce
  <2>3. QED
    BY <2>1, <2>2
<1>8. IntakeTypes'
  BY <1>1, <1>2, <1>5, <1>6, QueueKept DEF IntakeTypes
<1>9. QED
  BY <1>1, <1>2, <1>5, <1>7, <1>8, QueueKept DEF IntakeInv, OneClaimPerUser

\* A message of an announced disruption reaches the queue.
LEMMA ReceiveKeeps ==
  ASSUME IntakeInv, NEW e \in Events, ReceiveEvent(e),
         UNCHANGED <<claims, task, deadEvents, initiated, silent, bounds>>
  PROVE  IntakeInv'
<1>1. IntakeTypes /\ inbox \in [Message -> Nat] /\ <<e, 0>> \in Message /\ failures \in Nat
      /\ IntakeRetries \in Nat
  BY IntakeValueAssumption DEF IntakeInv, IntakeTypes, Message
<1>2. /\ inbox' \in [Message -> Nat]
      /\ \A m \in Message : m # <<e, 0>> => inbox'[m] = inbox[m]
  BY <1>1 DEF ReceiveEvent
<1>3. InboxAged'
  <2> SUFFICES ASSUME NEW d \in Events, NEW q \in 0 .. IntakeRetries, inbox'[<<d, q>>] > 0
               PROVE  q <= failures
    BY DEF InboxAged, bounds
  <2>1. CASE q = 0
    BY <1>1, <2>1
  <2>2. CASE q # 0
    <3>1. inbox'[<<d, q>>] = inbox[<<d, q>>]
      BY <1>2, <2>2 DEF Message
    <3>2. QED
      BY <3>1 DEF IntakeInv, InboxAged
  <2>3. QED
    BY <2>1, <2>2
<1>4. IntakeTypes'
  BY <1>1, <1>2 DEF IntakeTypes, bounds
<1>5. QED
  BY <1>3, <1>4
  DEF IntakeInv, TasksFit, OneClaimPerUser, OwnRows, InitiatedOnce, DeadEventsNeedFailures,
      Unannounced, bounds

\* IntakeInv is inductive, given the disruptions of the trigger service.
LEMMA IntakeInductive ==
  TriggerInv /\ IntakeInv /\ [DisruptionsNext]_dvars => IntakeInv'
<1> SUFFICES ASSUME TriggerInv, IntakeInv, [DisruptionsNext]_dvars PROVE IntakeInv'
  OBVIOUS
<1>0. TriggerTypes /\ RowsOwned
  BY DEF TriggerInv
<1>1. DOMAIN disruptions \subseteq Events
  <2>1. /\ DOMAIN disruptions = 1 .. Len(disruptions) /\ Len(disruptions) \in Nat
        /\ Len(disruptions) <= MaxRows /\ MaxRows \in Nat
    BY <1>0, TriggerBoundAssumption DEF TriggerTypes
  <2>2. QED
    BY <2>1, EventsAssumption
<1>2. CASE UNCHANGED ivars
  BY <1>2 DEF ivars, IntakeInv, IntakeTypes, TasksFit, OneClaimPerUser, OwnRows, InitiatedOnce,
              InboxAged, DeadEventsNeedFailures, Unannounced
<1>3. ASSUME NEW r \in Replicas, CycleAnnounces(r) PROVE IntakeInv'
  <2>1. cycle[r].row \in Events
    BY <1>0, <1>1, <1>3 DEF CycleAnnounces, DisruptionPublished, RowsOwned
  <2>2. QED
    BY <1>3, <2>1, ReceiveKeeps DEF CycleAnnounces
<1>4. ASSUME NEW i \in manual, ManualAnnounces(i) PROVE IntakeInv'
  <2>1. i \in Events
    BY <1>0, <1>1 DEF TriggerTypes
  <2>2. QED
    BY <1>4, <2>1, ReceiveKeeps DEF ManualAnnounces
<1>5. ASSUME NEW t \in IntakeThreads, Acts(t) PROVE IntakeInv'
  <2>1. CASE Unseen(t)
    BY <1>0, <1>5, <2>1, UnseenKeeps
  <2>2. CASE InsertClaim(t) /\ Conflicts(t) = {}
    BY <1>0, <2>2, InsertKeeps
  <2>3. CASE AnnounceInitiated(t) \/ InitiatedLost(t)
    BY <1>0, <1>5, <2>3, AnnounceKeeps
  <2>4. CASE StatementFails(t) \/ IntakeCrash(t)
    BY <1>0, <1>5, <2>4, FailureKeeps
  <2>5. QED
    BY <1>5, <2>1, <2>2, <2>3, <2>4 DEF Acts, ServiceStep, IntakeStep, Unseen
<1>6. QED
  BY <1>2, <1>3, <1>4, <1>5 DEF DisruptionsNext, dvars, Acts

\* What the run checks of the intake follows from it.
LEMMA IntakeInvSafe == IntakeInv => IntakeSafe /\ AnswerFits /\ InitiatedOnce
<1> SUFFICES ASSUME IntakeInv PROVE IntakeSafe /\ AnswerFits /\ InitiatedOnce
  OBVIOUS
<1>1. /\ IntakeTypes /\ TasksFit /\ OneClaimPerUser /\ InitiatedOnce /\ DeadEventsNeedFailures
      /\ task \in [IntakeThreads -> TaskState]
  BY DEF IntakeInv, IntakeTypes
<1>2. ASSUME NEW t \in IntakeThreads
      PROVE  task[t] \in [pc : TaskPoints, event : Events \cup {Nil},
                          next : 0 .. Len(Users) + 1, key : Keys \cup {Nil},
                          row : 0 .. Len(claims), retries : 0 .. IntakeRetries]
  <2>1. task[t] \in TaskState /\ task[t].row \in 0 .. Len(claims)
    BY <1>1 DEF TasksFit, Fits
  <2>2. QED
    BY <2>1 DEF TaskState
<1>3. IntakeTypeOK
  BY <1>1, <1>2 DEF IntakeTypes, IntakeTypeOK
<1>4. AnswerFits
  BY <1>1 DEF TasksFit, Fits, AnswerFits, At, IntakeThreads, IsFor, HasKey, UserOfTask
<1>5. QED
  BY <1>1, <1>3, <1>4 DEF IntakeSafe

\* The intake's invariant holds in every state of the composition.
LEMMA IntakeInvHolds == DisruptionsSpec => []IntakeInv
BY IntakeInit0, TriggerInvHolds, IntakeInductive, PTL DEF DisruptionsSpec

\* A user gets one claim for a disruption, through redeliveries, republished batches and
\* simultaneous requests, and no event is dead-lettered without that many failures.
THEOREM IntakeCorrect == DisruptionsSpec => []IntakeSafe
BY IntakeInvHolds, IntakeInvSafe, PTL

\* A caller of POST /claims/auto is answered with its claim, or the one that has its key.
THEOREM AnswersFit == DisruptionsSpec => []AnswerFits
BY IntakeInvHolds, IntakeInvSafe, PTL

\* CLAIM_INITIATED is sent at most once for a claim, and not lost without a failure.
THEOREM ClaimsInitiatedOnce == DisruptionsSpec => []InitiatedOnce
BY IntakeInvHolds, IntakeInvSafe, PTL

\* The trigger service keeps its promises whatever the claims service does with them.
THEOREM TriggerCorrectInComposition ==
  DisruptionsSpec => []TriggerSafe
BY TriggerInvHolds, TriggerInvSafe, PTL

-----------------------------------------------------------------------------
(* What was announced is not forgotten.                                    *)

\* User u has a claim for event e in the table.
HasClaim(table, u, e) == \E i \in DOMAIN table : table[i].user = u /\ table[i].event = e

\* What a consumer with task s knows: it works without an idempotency key, and every user
\* of the batch that it is past has a claim for its event.
Passed(table, s) ==
  /\ s.key = Nil
  /\ s.pc \in WithUser => \A m \in 1 .. s.next - 1 : HasClaim(table, Users[m], s.event)

ConsumersPassed == \A t \in IntakeWorkers : Passed(claims, task[t])

\* Event e needs no consumer at the moment: it is queued, given up or through.
Waits(e) == \E r \in 0 .. IntakeRetries : inbox[<<e, r>>] > 0
Resolved(e) == Waits(e) \/ e \in deadEvents \/ Covered(e)

\* Claims are never changed or deleted.
LEMMA ClaimsStay ==
  ASSUME IntakeInv, NEW t \in IntakeThreads, Acts(t)
  PROVE  /\ \A i \in DOMAIN claims : i \in DOMAIN claims' /\ claims'[i] = claims[i]
         /\ \A u, e : HasClaim(claims, u, e) => HasClaim(claims', u, e)
<1>1. claims \in Seq(Claim) /\ task[t] \in TaskState
  BY DEF IntakeInv, IntakeTypes
<1>2. CASE claims' = claims
  BY <1>2 DEF HasClaim
<1>3. CASE InsertClaim(t) /\ claims' # claims
  <2> DEFINE row == [user |-> UserOfTask(t), event |-> task[t].event, key |-> task[t].key]
  <2>1. claims' = Append(claims, row)
    BY <1>3 DEF InsertClaim
  <2>2. row \in Claim
    <3>1. Fits(claims, failures, task[t]) /\ task[t].pc = "insert"
      BY <1>3 DEF IntakeInv, TasksFit, InsertClaim, At
    <3>2. task[t].event \in Events /\ task[t].next \in DOMAIN Users /\ task[t].key \in Keys \cup {Nil}
      BY <1>1, <3>1 DEF Fits, WithUser, TaskState
    <3>3. QED
      BY <3>2 DEF Claim, UserOfTask, InsuredUsers
  <2> HIDE DEF row
  <2>3. \A i \in DOMAIN claims : i \in DOMAIN claims' /\ claims'[i] = claims[i]
    BY <1>1, <2>1, <2>2
  <2>4. QED
    BY <2>3 DEF HasClaim
<1>4. claims' = claims \/ InsertClaim(t)
  BY DEF Acts, ServiceStep, IntakeStep, LookupKey, Lookup, RacedClaim, LogClaim,
         AnnounceInitiated, InitiatedLost, Answer, Retry, AckEvent, TakeAny, TakeEvent,
         AutoRequested, AutoCreate, StatementFails, IntakeCrash
<1>5. QED
  BY <1>2, <1>3, <1>4

(* An event is covered when every user in the list has a claim for it. *)
LEMMA CoveredIs ==
  ASSUME NEW e
  PROVE  /\ Covered(e) <=> \A m \in DOMAIN Users : HasClaim(claims, Users[m], e)
         /\ Covered(e)' <=> \A m \in DOMAIN Users : HasClaim(claims', Users[m], e)
BY DEF Covered, RowsFor, HasClaim, InsuredUsers

\* A consumer that finds or makes a claim of its user goes on with the next one, and is
\* through only when every user has a claim.
LEMMA BatchGoesOn ==
  ASSUME IntakeInv, ConsumersPassed, NEW t \in IntakeWorkers, NEW i \in DOMAIN claims,
         Created(t, i), claims' = claims, task[t].pc \in WithUser, IsFor(claims[i], task[t])
  PROVE  /\ Passed(claims', task'[t]) /\ task'[t].event = task[t].event
         /\ task'[t].pc \in {"lookup", "done"}
         /\ \A e : e = task[t].event /\ task'[t].pc = "done" => Covered(e)'
<1>1. /\ task[t] \in TaskState /\ task \in [IntakeThreads -> TaskState]
      /\ t \in IntakeThreads /\ t \notin AutoCallers /\ Passed(claims, task[t])
      /\ task[t].next \in DOMAIN Users
  BY IntakeThreadAssumption
  DEF IntakeInv, IntakeTypes, TasksFit, Fits, IntakeThreads, ConsumersPassed
<1>2. DOMAIN Users = 1 .. Len(Users) /\ Len(Users) \in Nat
  BY UsersAssumption
<1> DEFINE p == IF task[t].next = Len(Users) THEN "done" ELSE "lookup"
           s == [task[t] EXCEPT !.row = 0, !.next = @ + 1, !.pc = p]
<1>3. task' = [task EXCEPT ![t] = s]
  BY <1>1 DEF Created, Set
<1>4. task'[t] = s
  BY <1>1, <1>3
<1>5. p \in {"lookup", "done"} /\ (p = "done" => task[t].next = Len(Users))
  OBVIOUS
<1> HIDE DEF p
<1>6. s.pc = p /\ s.next = task[t].next + 1 /\ s.event = task[t].event /\ s.key = task[t].key
  BY <1>1 DEF TaskState
<1> HIDE DEF s
<1>7. \A m \in 1 .. task[t].next : HasClaim(claims, Users[m], task[t].event)
  <2>1. HasClaim(claims, Users[task[t].next], task[t].event)
    BY DEF IsFor, HasClaim
  <2>2. \A m \in 1 .. task[t].next - 1 : HasClaim(claims, Users[m], task[t].event)
    BY <1>1 DEF Passed
  <2>3. QED
    BY <1>1, <1>2, <2>1, <2>2
<1>8. Passed(claims', task'[t])
  <2>1. s.next - 1 = task[t].next
    BY <1>1, <1>2, <1>6
  <2>2. QED
    BY <1>1, <1>4, <1>6, <1>7, <2>1 DEF Passed
<1>9. ASSUME NEW e, e = task[t].event, p = "done" PROVE Covered(e)'
  <2>1. \A m \in DOMAIN Users : HasClaim(claims', Users[m], e)
    BY <1>2, <1>5, <1>7, <1>9
  <2>2. QED
    BY <2>1, CoveredIs
<1>10. QED
  BY <1>4, <1>5, <1>6, <1>8, <1>9

\* In every step a consumer goes on with its message, or hands it back or is through.
LEMMA ConsumerSteps ==
  ASSUME IntakeInv, ConsumersPassed, NEW t \in IntakeWorkers, Acts(t)
  PROVE  /\ Passed(claims', task'[t])
         /\ \A e \in Events : Handles(t, e) => Handles(t, e)' \/ Resolved(e)'
<1>1. /\ task[t] \in TaskState /\ task \in [IntakeThreads -> TaskState]
      /\ t \in IntakeThreads /\ t \notin AutoCallers /\ Passed(claims, task[t])
      /\ Fits(claims, failures, task[t])
  BY IntakeThreadAssumption
  DEF IntakeInv, IntakeTypes, TasksFit, IntakeThreads, ConsumersPassed
<1>0. inbox \in [Message -> Nat]
  BY DEF IntakeInv, IntakeTypes
<1>2. \A u, e : HasClaim(claims, u, e) => HasClaim(claims', u, e)
  BY <1>1, ClaimsStay
<1>3. RowsWithKey(task[t].key) = {}
  BY <1>1 DEF Passed, RowsWithKey
<1>4. ASSUME NEW i \in DOMAIN claims, Created(t, i), claims' = claims,
             task[t].pc \in WithUser, IsFor(claims[i], task[t])
      PROVE  /\ Passed(claims', task'[t])
             /\ \A e \in Events : Handles(t, e) => Handles(t, e)' \/ Resolved(e)'
  BY <1>4, BatchGoesOn DEF Handles, Resolved
<1>5. ASSUME NEW q \in TaskPoints, NEW s, Set(t, s), s.pc = q, s.next = task[t].next,
             s.event = task[t].event, s.key = task[t].key,
             q \in WithUser => task[t].pc \in WithUser
      PROVE  /\ Passed(claims', task'[t])
             /\ q \notin {"idle", "done"} =>
                  \A e \in Events : Handles(t, e) => Handles(t, e)'
  <2>1. task'[t] = s
    BY <1>1, <1>5 DEF Set
  <2>2. QED
    BY <1>1, <1>2, <1>5, <2>1 DEF Passed, Handles
<1>6. ASSUME NEW q \in TaskPoints, Goto(t, q), q \in WithUser => task[t].pc \in WithUser
      PROVE  /\ Passed(claims', task'[t])
             /\ q \notin {"idle", "done"} =>
                  \A e \in Events : Handles(t, e) => Handles(t, e)'
  <2> DEFINE s == [task[t] EXCEPT !.pc = q]
  <2>1. Set(t, s)
    BY <1>6 DEF Goto
  <2>2. s.pc = q /\ s.next = task[t].next /\ s.event = task[t].event /\ s.key = task[t].key
    BY <1>1 DEF TaskState
  <2> HIDE DEF s
  <2>3. QED
    BY <1>5, <1>6, <2>1, <2>2
<1>7. ASSUME Set(t, NoTask) PROVE Passed(claims', task'[t])
  <2>1. task'[t] = NoTask
    BY <1>1, <1>7 DEF Set
  <2>2. QED
    BY <2>1 DEF Passed, NoTask, WithUser
<1>8. CASE LookupKey(t)
  <2>1. Goto(t, "lookup") /\ task[t].pc \in WithUser
    BY <1>3, <1>8 DEF LookupKey, At, WithUser
  <2>2. QED
    BY <1>6, <2>1 DEF TaskPoints
<1>9. CASE Lookup(t)
  <2>1. task[t].pc \in WithUser /\ claims' = claims
    BY <1>9 DEF Lookup, At, WithUser
  <2>2. CASE Goto(t, "insert")
    BY <1>6, <2>1, <2>2 DEF TaskPoints
  <2>3. CASE \E i \in RowsFor(UserOfTask(t), task[t].event) : Created(t, i)
    <3>1. PICK i \in RowsFor(UserOfTask(t), task[t].event) : Created(t, i)
      BY <2>3
    <3>2. i \in DOMAIN claims /\ IsFor(claims[i], task[t])
      BY DEF RowsFor, IsFor, UserOfTask
    <3>3. QED
      BY <1>4, <2>1, <3>1, <3>2
  <2>4. QED
    BY <1>9, <2>2, <2>3 DEF Lookup
<1>10. CASE InsertClaim(t)
  <2>1. task[t].pc = "insert" /\ task[t].pc \in WithUser
    BY <1>10 DEF InsertClaim, At, WithUser
  <2>2. CASE Conflicts(t) = {}
    <3> DEFINE n == Len(claims')
               s == [task[t] EXCEPT !.pc = "log", !.row = n]
    <3>1. Set(t, s)
      BY <1>10, <2>2 DEF InsertClaim
    <3> HIDE DEF n
    <3>2. s.pc = "log" /\ s.next = task[t].next /\ s.event = task[t].event /\ s.key = task[t].key
      BY <1>1 DEF TaskState
    <3> HIDE DEF s
    <3>3. QED
      BY <1>5, <2>1, <3>1, <3>2 DEF TaskPoints
  <2>3. CASE Conflicts(t) # {}
    <3>1. Goto(t, "raced")
      BY <1>10, <2>3 DEF InsertClaim
    <3>2. QED
      BY <1>6, <2>1, <3>1 DEF TaskPoints
  <2>4. QED
    BY <2>2, <2>3
<1>11. CASE RacedClaim(t)
  <2>1. task[t].pc = "raced" /\ task[t].pc \in WithUser /\ claims' = claims
    BY <1>11 DEF RacedClaim, At, WithUser
  <2>2. PICK i \in DOMAIN claims : IsFor(claims[i], task[t]) \/ HasKey(claims[i], task[t])
    BY <1>1, <2>1 DEF Fits
  <2>3. i \in RowsFor(UserOfTask(t), task[t].event)
    BY <1>1, <2>2 DEF Passed, HasKey, IsFor, RowsFor, UserOfTask
  <2>4. PICK j \in RowsFor(UserOfTask(t), task[t].event) : Created(t, j)
    BY <1>3, <1>11, <2>3 DEF RacedClaim
  <2>5. j \in DOMAIN claims /\ IsFor(claims[j], task[t])
    BY DEF RowsFor, IsFor, UserOfTask
  <2>6. QED
    BY <1>4, <2>1, <2>4, <2>5
<1>12. CASE LogClaim(t)
  <2>1. Goto(t, "announce") /\ task[t].pc \in WithUser
    BY <1>12 DEF LogClaim, At, WithUser
  <2>2. QED
    BY <1>6, <2>1 DEF TaskPoints
<1>13. CASE AnnounceInitiated(t) \/ InitiatedLost(t)
  <2>1. /\ task[t].pc = "announce" /\ task[t].pc \in WithUser /\ claims' = claims
        /\ Created(t, task[t].row)
    BY <1>13 DEF AnnounceInitiated, InitiatedLost, At, WithUser
  <2>2. task[t].row \in DOMAIN claims /\ IsFor(claims[task[t].row], task[t])
    BY <1>1, <2>1 DEF Fits
  <2>3. QED
    BY <1>4, <2>1, <2>2
<1>14. CASE Retry(t)
  <2>1. Goto(t, "done") /\ task[t].pc = "failed" /\ task[t].event \in Events
    BY <1>1, <1>14 DEF Retry, At, Fits
  <2>2. ASSUME NEW e, e = task[t].event PROVE Resolved(e)'
    <3>1. CASE task[t].retries < IntakeRetries
      <4>1. /\ <<e, task[t].retries + 1>> \in Message
            /\ task[t].retries + 1 \in 0 .. IntakeRetries
        BY <1>1, <2>1, <2>2, <3>1, IntakeValueAssumption DEF Message, TaskState
      <4>2. inbox' = [inbox EXCEPT ![<<e, task[t].retries + 1>>] = @ + 1]
        BY <1>14, <2>2, <3>1 DEF Retry
      <4>3. inbox'[<<e, task[t].retries + 1>>] > 0
        BY <1>0, <4>1, <4>2
      <4>4. QED
        BY <4>1, <4>3 DEF Resolved, Waits
    <3>2. CASE ~ (task[t].retries < IntakeRetries)
      BY <1>14, <2>2, <3>2 DEF Retry, Resolved
    <3>3. QED
      BY <3>1, <3>2
  <2>3. Passed(claims', task'[t])
    BY <1>6, <2>1 DEF TaskPoints, WithUser
  <2>4. QED
    BY <2>2, <2>3 DEF Handles
<1>15. CASE AckEvent(t)
  BY <1>7, <1>15 DEF AckEvent, At, Handles
<1>16. CASE StatementFails(t)
  <2>1. Goto(t, "failed")
    BY <1>16 DEF StatementFails
  <2>2. QED
    BY <1>6, <2>1 DEF TaskPoints, WithUser
<1>17. CASE IntakeCrash(t)
  <2>1. /\ Set(t, NoTask) /\ task[t].pc # "idle"
        /\ inbox' = [inbox EXCEPT ![<<task[t].event, task[t].retries>>] = @ + 1]
    BY <1>17 DEF IntakeCrash, At
  <2>2. ASSUME NEW e, e = task[t].event PROVE Resolved(e)'
    <3>1. <<e, task[t].retries>> \in Message /\ task[t].retries \in 0 .. IntakeRetries
      BY <1>1, <2>1, <2>2 DEF Message, TaskState, Fits
    <3>2. inbox'[<<e, task[t].retries>>] > 0
      BY <1>0, <2>1, <2>2, <3>1
    <3>3. QED
      BY <3>1, <3>2 DEF Resolved, Waits
  <2>3. QED
    BY <1>7, <2>1, <2>2 DEF Handles
<1>18. CASE TakeAny(t)
  <2>1. PICK e \in Events, r \in 0 .. IntakeRetries : TakeEvent(t, e, r)
    BY <1>18 DEF TakeAny
  <2> DEFINE q == IF Users = <<>> THEN "done" ELSE "lookup"
             s == [NoTask EXCEPT !.event = e, !.retries = r, !.next = 1, !.pc = q]
  <2>2. Set(t, s) /\ task[t].pc = "idle"
    BY <2>1 DEF TakeEvent, At
  <2> HIDE DEF q
  <2>3. s.next = 1 /\ s.key = Nil
    BY DEF NoTask
  <2>4. task'[t] = s
    BY <1>1, <2>2 DEF Set
  <2> HIDE DEF s
  <2>5. QED
    BY <2>2, <2>3, <2>4 DEF Passed, Handles
<1>19. QED
  BY <1>1, <1>8, <1>9, <1>10, <1>11, <1>12, <1>13, <1>14, <1>15, <1>16, <1>17, <1>18
  DEF Acts, ServiceStep, IntakeStep, AutoRequested, AutoCreate, Answer

\* A message leaves the queue for the thread that takes it.
LEMMA QueueFalls ==
  ASSUME IntakeInv, NEW t \in IntakeThreads, Acts(t), NEW e \in Events, Resolved(e)
  PROVE  Resolved(e)' \/ (t \in IntakeWorkers /\ Handles(t, e)')
<1>1. /\ inbox \in [Message -> Nat] /\ task \in [IntakeThreads -> TaskState]
      /\ task[t] \in TaskState /\ Fits(claims, failures, task[t])
  BY DEF IntakeInv, IntakeTypes, TasksFit
<1>2. deadEvents \subseteq deadEvents'
  BY DEF Acts, ServiceStep, IntakeStep, LookupKey, Lookup, InsertClaim, RacedClaim, LogClaim,
         AnnounceInitiated, InitiatedLost, Answer, Retry, AckEvent, TakeAny, TakeEvent,
         AutoRequested, AutoCreate, StatementFails, IntakeCrash, post
<1>3. Covered(e) => Covered(e)'
  BY ClaimsStay, CoveredIs
<1>4. ASSUME NEW r \in 0 .. IntakeRetries, inbox[<<e, r>>] > 0
      PROVE  Waits(e)' \/ Covered(e)' \/ (t \in IntakeWorkers /\ Handles(t, e)')
  <2>1. <<e, r>> \in Message
    BY DEF Message
  <2>2. ASSUME NEW m \in Message, inbox' = [inbox EXCEPT ![m] = @ + 1]
        PROVE  Waits(e)'
    <3>1. inbox'[<<e, r>>] >= inbox[<<e, r>>] /\ inbox[<<e, r>>] \in Nat
      BY <1>1, <2>1, <2>2
    <3>2. inbox'[<<e, r>>] > 0
      BY <1>4, <1>1, <2>1, <2>2
    <3>3. QED
      BY <3>2 DEF Waits
  <2>3. CASE inbox' = inbox
    BY <1>4, <2>3 DEF Waits
  <2>4. CASE Retry(t) /\ inbox' # inbox
    <3>1. /\ task[t].pc = "failed" /\ task[t].retries < IntakeRetries
          /\ inbox' = [inbox EXCEPT ![<<task[t].event, task[t].retries + 1>>] = @ + 1]
      BY <2>4 DEF Retry, At
    <3>2. <<task[t].event, task[t].retries + 1>> \in Message
      BY <1>1, <3>1, IntakeValueAssumption DEF Fits, TaskState, Message
    <3>3. QED
      BY <2>2, <3>1, <3>2
  <2>5. CASE IntakeCrash(t) /\ inbox' # inbox
    <3>1. /\ task[t].pc # "idle"
          /\ inbox' = [inbox EXCEPT ![<<task[t].event, task[t].retries>>] = @ + 1]
      BY <2>5 DEF IntakeCrash, At
    <3>2. <<task[t].event, task[t].retries>> \in Message
      BY <1>1, <3>1 DEF Fits, TaskState, Message
    <3>3. QED
      BY <2>2, <3>1, <3>2
  <2>6. ASSUME NEW d \in Events, NEW q \in 0 .. IntakeRetries, TakeEvent(t, d, q)
        PROVE  Waits(e)' \/ Covered(e)' \/ (t \in IntakeWorkers /\ Handles(t, e)')
    <3>1. t \in IntakeWorkers /\ inbox' = [inbox EXCEPT ![<<d, q>>] = @ - 1]
      BY <2>6 DEF TakeEvent
    <3>2. CASE <<d, q>> # <<e, r>>
      <4>1. inbox'[<<e, r>>] = inbox[<<e, r>>]
        BY <1>1, <2>1, <3>1, <3>2
      <4>2. QED
        BY <1>4, <4>1 DEF Waits
    <3>3. CASE <<d, q>> = <<e, r>>
      <4> DEFINE p == IF Users = <<>> THEN "done" ELSE "lookup"
                 s == [NoTask EXCEPT !.event = d, !.retries = q, !.next = 1, !.pc = p]
      <4>1. task'[t] = s
        BY <1>1, <2>6 DEF TakeEvent, Set
      <4>2. p = "done" => DOMAIN Users = {}
        OBVIOUS
      <4>3. p \in {"done", "lookup"}
        OBVIOUS
      <4> HIDE DEF p
      <4>4. s.event = d /\ s.pc = p
        BY DEF NoTask
      <4> HIDE DEF s
      <4>5. p = "done" => Covered(e)'
        BY <4>2, CoveredIs
      <4>6. QED
        BY <3>1, <3>3, <4>1, <4>3, <4>4, <4>5 DEF Handles
    <3>4. QED
      BY <3>2, <3>3
  <2>7. inbox' = inbox \/ Retry(t) \/ IntakeCrash(t) \/ TakeAny(t)
    BY DEF Acts, ServiceStep, IntakeStep, LookupKey, Lookup, InsertClaim, RacedClaim, LogClaim,
           AnnounceInitiated, InitiatedLost, Answer, AckEvent, AutoRequested, AutoCreate,
           StatementFails, post
  <2>8. QED
    BY <2>3, <2>4, <2>5, <2>6, <2>7 DEF TakeAny
<1>5. QED
  BY <1>2, <1>3, <1>4 DEF Resolved, Waits

\* AnnouncedNotForgotten, with what the consumers know, is kept by every step.
LEMMA ForgottenKept ==
  TriggerInv /\ IntakeInv /\ ConsumersPassed /\ AnnouncedNotForgotten
  /\ [DisruptionsNext]_dvars => ConsumersPassed' /\ AnnouncedNotForgotten'
<1> SUFFICES ASSUME TriggerInv, IntakeInv, ConsumersPassed, AnnouncedNotForgotten,
                    [DisruptionsNext]_dvars
             PROVE  ConsumersPassed' /\ AnnouncedNotForgotten'
  OBVIOUS
<1>1. /\ announced \subseteq DOMAIN disruptions /\ manual \subseteq DOMAIN disruptions
      /\ DOMAIN disruptions \subseteq Events
      /\ \A r \in Replicas : cycle[r].pc = "publish" => cycle[r].row \in DOMAIN disruptions
  <2>1. /\ DOMAIN disruptions = 1 .. Len(disruptions) /\ Len(disruptions) \in Nat
        /\ Len(disruptions) <= MaxRows /\ MaxRows \in Nat
    BY TriggerBoundAssumption DEF TriggerInv, TriggerTypes
  <2>2. QED
    BY <2>1, EventsAssumption DEF TriggerInv, TriggerTypes, RowsOwned
<1>2. \A e \in announced : Resolved(e) \/ \E t \in IntakeWorkers : Handles(t, e)
  BY DEF AnnouncedNotForgotten, Resolved, Waits
<1>3. ASSUME \A e \in announced' : Resolved(e)' \/ \E t \in IntakeWorkers : Handles(t, e)'
      PROVE  AnnouncedNotForgotten'
  BY <1>3 DEF AnnouncedNotForgotten, Resolved, Waits
<1>4. CASE announced' = announced /\ UNCHANGED ivars
  BY <1>2, <1>3, <1>4
  DEF ivars, ConsumersPassed, Resolved, Waits, Covered, RowsFor, Handles
<1>5. ASSUME NEW i \in DOMAIN disruptions, announced' = announced \cup {i}, ReceiveEvent(i),
             UNCHANGED <<claims, task, deadEvents>>
      PROVE  ConsumersPassed' /\ AnnouncedNotForgotten'
  <2>1. inbox \in [Message -> Nat] /\ <<i, 0>> \in Message /\ 0 \in 0 .. IntakeRetries
    BY <1>1, IntakeValueAssumption DEF IntakeInv, IntakeTypes, Message
  <2>2. \A m \in Message : inbox[m] > 0 => inbox'[m] > 0
    BY <1>5, <2>1 DEF ReceiveEvent
  <2>3. inbox'[<<i, 0>>] > 0
    BY <1>5, <2>1 DEF ReceiveEvent
  <2>4. \A e \in announced : Waits(e) => Waits(e)'
    BY <1>1, <2>2 DEF Waits, Message
  <2>5. Waits(i)'
    BY <2>1, <2>3 DEF Waits
  <2>6. \A e : Covered(e) => Covered(e)'
    BY <1>5 DEF Covered, RowsFor
  <2>7. \A t, e : Handles(t, e) => Handles(t, e)'
    BY <1>5 DEF Handles
  <2>8. QED
    BY <1>2, <1>3, <1>5, <2>4, <2>5, <2>6, <2>7 DEF Resolved, ConsumersPassed
<1>6. ASSUME NEW t \in IntakeThreads, Acts(t), UNCHANGED tvars
      PROVE  ConsumersPassed' /\ AnnouncedNotForgotten'
  <2>1. \A u \in IntakeThreads \ {t} : task'[u] = task[u]
    BY <1>6 DEF IntakeInv, IntakeTypes, Acts, ServiceStep, IntakeStep, LookupKey, Lookup,
            InsertClaim, RacedClaim, LogClaim, AnnounceInitiated, InitiatedLost, Answer, Retry,
            AckEvent, TakeAny, TakeEvent, AutoRequested, AutoCreate, StatementFails,
            IntakeCrash, Created, Goto, Set
  <2>2. IntakeWorkers \subseteq IntakeThreads /\ announced' = announced
    BY <1>6 DEF IntakeThreads, tvars
  <2>3. \A u, e : HasClaim(claims, u, e) => HasClaim(claims', u, e)
    BY <1>6, ClaimsStay
  <2>4. ConsumersPassed'
    <3>1. ASSUME NEW u \in IntakeWorkers, u # t PROVE Passed(claims', task'[u])
      BY <2>1, <2>2, <2>3, <3>1 DEF ConsumersPassed, Passed
    <3>2. QED
      BY <1>6, <3>1, ConsumerSteps DEF ConsumersPassed
  <2>5. ASSUME NEW e \in announced
        PROVE  Resolved(e)' \/ \E u \in IntakeWorkers : Handles(u, e)'
    <3>1. e \in Events
      BY <1>1
    <3>2. CASE Resolved(e)
      BY <1>6, <3>1, <3>2, QueueFalls
    <3>3. ASSUME NEW u \in IntakeWorkers, Handles(u, e)
          PROVE  Resolved(e)' \/ \E v \in IntakeWorkers : Handles(v, e)'
      <4>1. CASE u = t
        BY <1>6, <3>1, <3>3, <4>1, ConsumerSteps
      <4>2. CASE u # t
        BY <2>1, <2>2, <3>3, <4>2 DEF Handles
      <4>3. QED
        BY <4>1, <4>2
    <3>4. QED
      BY <1>2, <3>2, <3>3
  <2>6. QED
    BY <1>3, <2>2, <2>4, <2>5
<1>7. CASE \E r \in Replicas : CycleAnnounces(r)
  BY <1>1, <1>5, <1>7 DEF CycleAnnounces, DisruptionPublished
<1>8. CASE \E i \in manual : ManualAnnounces(i)
  BY <1>1, <1>5, <1>8 DEF ManualAnnounces, ManualPublished
<1>9. CASE Quietly /\ UNCHANGED ivars
  <2>1. announced' = announced
    BY <1>9 DEF Quietly, CycleStep, NothingNew, Detect, InsertDisruption, DisruptionLost,
            EndCycle, CycleError, Restart, StartCycle, InsertManual, StopTrigger, ManualLost,
            LoseConnection
  <2>2. QED
    BY <1>4, <1>9, <2>1
<1>10. CASE UNCHANGED dvars
  BY <1>4, <1>10 DEF dvars, tvars
<1>11. QED
  BY <1>6, <1>7, <1>8, <1>9, <1>10 DEF DisruptionsNext, Acts

\* Whatever was announced is in the queue, in the hands of a consumer, in the dead-letter
\* queue or has a claim of every insured user, for any number of users, consumers,
\* callers, retries and failures: the consumer acknowledges a message of
\* DISRUPTION_DETECTED only after create_claims_from_disruption came to the end of its
\* users or the message was published again.
THEOREM NothingForgotten == DisruptionsSpec => []AnnouncedNotForgotten
<1>1. TriggerInit /\ IntakeInit => ConsumersPassed /\ AnnouncedNotForgotten
  BY DEF TriggerInit, IntakeInit, ConsumersPassed, AnnouncedNotForgotten, Passed, NoTask,
         WithUser, IntakeThreads
<1>2. QED
  BY <1>1, TriggerInvHolds, IntakeInvHolds, ForgottenKept, PTL DEF DisruptionsSpec

-----------------------------------------------------------------------------
(* The processing of claims.                                               *)

\* Points a worker reaches only with a claim that has passed every check.
Committed == {"announce", "pay", "waiting", "paid"}

\* A thread's record j is backed by the claims a that passed every check and the
\* claims s whose payout call was answered with success: it works on a claim,
\* which is in a when it is to be paid and in s when it is to be marked paid.
Backed(j, a, s) ==
  /\ j.pc # "idle" => j.claim \in Claims
  /\ j.pc \in Committed => j.claim \in a
  /\ j.pc = "paid" => j.claim \in s

JobsBacked == \A t \in Jobs : Backed(job[t], approved, settled)

ClaimsInv == ClaimsTypeOK /\ PayOnlyApproved /\ PaidWasSettled /\ JobsBacked

(* A free thread is a thread. *)
LEMMA FreeIsState == Free \in JobState
BY LimitAssumption DEF Free, JobState, CallerPoints

(* Claim processing starts in its invariant. *)
LEMMA InitClaimsInv == ClaimsInit => ClaimsInv
<1> SUFFICES ASSUME ClaimsInit PROVE ClaimsInv
  OBVIOUS
<1>1. ClaimsTypeOK
  BY FreeIsState DEF ClaimsInit, ClaimsTypeOK, ClaimStatus
<1>2. JobsBacked /\ PayOnlyApproved /\ PaidWasSettled
  BY DEF ClaimsInit, JobsBacked, Backed, PayOnlyApproved, PaidWasSettled, Free,
         Committed, Jobs
<1>3. QED
  BY <1>1, <1>2 DEF ClaimsInv

-----------------------------------------------------------------------------
(* What the steps have in common: one thread moves, and with it at most    *)
(* the row and the counters of its own claim.                              *)

Points == CallerPoints \cup WorkerPoints

\* The part of the invariant that relates rows, threads and announcements.
Core == /\ job \in [Jobs -> JobState]
        /\ status \in [Claims -> ClaimStatus]
        /\ published \in [Claims -> Nat]
        /\ JobsBacked /\ PayOnlyApproved /\ PaidWasSettled

\* The rest of it: the types of the queue and of the counters.
Counters == /\ queue \in [ProcessingMessage -> Nat]
            /\ deadClaims \subseteq Claims
            /\ requests \in [Claims -> Nat]
            /\ approved \subseteq Claims /\ settled \subseteq Claims
            /\ crashes \in Nat

(* The invariant in its two halves, the one about threads and the one about totals. *)
LEMMA InvIs == ClaimsInv <=> Core /\ Counters
BY DEF ClaimsInv, ClaimsTypeOK, Core, Counters

\* The row of thread t's claim gets status s, or no row changes.
Written(t, s) == Put(t, s) \/ UNCHANGED status

\* A thread may be given the record j, and the row of its claim the status s,
\* if the checks and answers that j and s stand for are on record.
LEMMA StepKeeps ==
  ASSUME ClaimsInv, NEW t \in Jobs,
         NEW j \in JobState, job' = [job EXCEPT ![t] = j],
         Backed(j, approved', settled'),
         NEW s \in ClaimStatus, Written(t, s),
         s \in {"approved", "paid"} => job[t].claim \in approved',
         s = "paid" => job[t].claim \in settled',
         approved \subseteq approved', settled \subseteq settled',
         \/ UNCHANGED published
         \/ /\ published' = [published EXCEPT ![job[t].claim] = @ + 1]
            /\ job[t].claim \in approved'
  PROVE  Core'
<1> DEFINE c == job[t].claim
<1>0. ClaimsTypeOK /\ PayOnlyApproved /\ PaidWasSettled /\ JobsBacked
  BY DEF ClaimsInv
<1>1. job' \in [Jobs -> JobState]
  BY <1>0 DEF ClaimsTypeOK
<1>2. JobsBacked'
  <2> SUFFICES ASSUME NEW u \in Jobs PROVE Backed(job'[u], approved', settled')
    BY DEF JobsBacked
  <2>1. CASE u = t
    BY <1>0, <2>1 DEF ClaimsTypeOK
  <2>2. CASE u # t
    <3>1. job'[u] = job[u] /\ Backed(job[u], approved, settled)
      BY <1>0, <2>2 DEF ClaimsTypeOK, JobsBacked
    <3>2. QED
      BY <3>1 DEF Backed
  <2>3. QED
    BY <2>1, <2>2
<1>3. /\ status' \in [Claims -> ClaimStatus]
      /\ \A d \in Claims : status'[d] = status[d] \/ (d = c /\ status'[d] = s)
  BY <1>0 DEF ClaimsTypeOK, Written, Put
<1>4. /\ published' \in [Claims -> Nat]
      /\ \A d \in Claims : published'[d] = published[d] \/ d \in approved'
  BY <1>0 DEF ClaimsTypeOK
<1>5. PayOnlyApproved'
  <2>1. \A d \in Claims : published'[d] > 0 => d \in approved'
    BY <1>0, <1>4 DEF PayOnlyApproved
  <2>2. \A d \in Claims : status'[d] \in {"approved", "paid"} => d \in approved'
    BY <1>0, <1>3 DEF PayOnlyApproved
  <2>3. \A u \in Workers : job'[u].pc \in Committed => job'[u].claim \in approved'
    BY <1>2 DEF Jobs, JobsBacked, Backed
  <2>4. QED
    BY <2>1, <2>2, <2>3 DEF PayOnlyApproved, Committed
<1>6. PaidWasSettled'
  BY <1>0, <1>3 DEF PaidWasSettled
<1>7. QED
  BY <1>1, <1>2, <1>3, <1>4, <1>5, <1>6 DEF Core

\* A busy thread that moves on, with or without loading its row.
LEMMA MoveKeeps ==
  ASSUME ClaimsInv, NEW t \in Jobs, job[t].pc # "idle",
         NEW p \in Points, Move(t, p) \/ MoveLoaded(t, p),
         p \in Committed => job[t].claim \in approved',
         p = "paid" => job[t].claim \in settled',
         NEW s \in ClaimStatus, Written(t, s),
         s \in {"approved", "paid"} => job[t].claim \in approved',
         s = "paid" => job[t].claim \in settled',
         approved \subseteq approved', settled \subseteq settled',
         \/ UNCHANGED published
         \/ /\ published' = [published EXCEPT ![job[t].claim] = @ + 1]
            /\ job[t].claim \in approved'
  PROVE  Core'
<1> DEFINE c == job[t].claim
<1>1. job[t] \in JobState /\ c \in Claims /\ status[c] \in ClaimStatus
  BY DEF ClaimsInv, ClaimsTypeOK, JobsBacked, Backed
<1>2. PICK j : /\ j \in JobState /\ job' = [job EXCEPT ![t] = j]
               /\ j.pc = p /\ j.claim = c
  <2>1. /\ [job[t] EXCEPT !.pc = p] \in JobState
        /\ [job[t] EXCEPT !.pc = p].pc = p
        /\ [job[t] EXCEPT !.pc = p].claim = c
    BY <1>1 DEF JobState, Points
  <2>2. /\ [job[t] EXCEPT !.pc = p, !.loaded = status[c]] \in JobState
        /\ [job[t] EXCEPT !.pc = p, !.loaded = status[c]].pc = p
        /\ [job[t] EXCEPT !.pc = p, !.loaded = status[c]].claim = c
    BY <1>1 DEF JobState, Points
  <2>3. QED
    BY <2>1, <2>2 DEF Move, MoveLoaded
<1>3. Backed(j, approved', settled')
  BY <1>1, <1>2 DEF Backed
<1>4. QED
  BY <1>2, <1>3, StepKeeps

\* A thread that is given a record not yet committed to anything, no row changing.
LEMMA SetKeeps ==
  ASSUME ClaimsInv, NEW t \in Jobs,
         NEW j \in JobState, job' = [job EXCEPT ![t] = j],
         j.pc = "idle" \/ (j.claim \in Claims /\ j.pc \notin Committed),
         UNCHANGED <<status, published, approved, settled>>
  PROVE  Core'
<1>1. Backed(j, approved', settled')
  BY DEF Backed, Committed
<1>2. "initiated" \in ClaimStatus
  BY DEF ClaimStatus
<1>3. QED
  BY <1>1, <1>2, StepKeeps DEF Written

\* The queue after a message of a busy thread's claim was added.
LEMMA QueueType ==
  ASSUME Counters, NEW c, NEW r,
         queue' = [queue EXCEPT ![<<c, r>>] = @ + 1] \/ UNCHANGED queue
  PROVE  queue' \in [ProcessingMessage -> Nat]
BY DEF Counters

(* The program points of a thread, spelled out. *)
LEMMA PointsAre ==
  {"idle", "save", "publish", "load", "start", "policy", "risk", "evaluated",
   "fraud", "announce", "pay", "waiting", "paid", "failed", "done"} = Points
BY DEF Points, CallerPoints, WorkerPoints

(* A thread at work has a claim. *)
LEMMA ClaimOf ==
  ASSUME ClaimsInv, NEW t \in Jobs
  PROVE  /\ job[t].pc # "idle" => job[t].claim \in Claims
         /\ job[t].pc \in Committed => job[t].claim \in approved
         /\ job[t].pc = "paid" => job[t].claim \in settled
         /\ job[t].retries \in 0 .. RetryLimit /\ job[t].pc \in Points
BY DEF ClaimsInv, ClaimsTypeOK, JobsBacked, Backed, JobState, Points

-----------------------------------------------------------------------------
(* The steps, in the groups the lemmas above make of them.                 *)

\* Requests arriving, messages taken, requests and messages finished.
LEMMA EndsKeep ==
  ASSUME ClaimsInv, NEW t \in Jobs,
         \/ \E c \in Claims : ReadClaim(t, c)
         \/ TakeSome(t) \/ PublishProcessing(t) \/ Done(t) \/ JobCrash(t)
  PROVE  Core' /\ Counters'
<1>0. Core /\ Counters /\ ClaimsTypeOK
  BY InvIs DEF ClaimsInv
<1>1. CASE \E c \in Claims : ReadClaim(t, c)
  <2>1. PICK c \in Claims : ReadClaim(t, c)
    BY <1>1
  <2> DEFINE point == IF status[c] = "approved" THEN "publish" ELSE "save"
             j == [Free EXCEPT !.pc = point, !.claim = c, !.loaded = status[c]]
  <2>2. point \in Points /\ point \notin Committed /\ status[c] \in ClaimStatus
    BY <1>0, PointsAre DEF ClaimsTypeOK, Committed
  <2> HIDE DEF point
  <2>3. j \in JobState /\ j.pc = point /\ j.claim = c
    BY <2>2, FreeIsState DEF JobState, Points, Free
  <2>4. Core'
    BY <2>1, <2>2, <2>3, SetKeeps DEF ReadClaim, past, point
  <2>5. /\ requests' = [requests EXCEPT ![c] = requests[c] + 1]
        /\ UNCHANGED <<queue, deadClaims, approved, settled, crashes>>
    BY <2>1 DEF ReadClaim, past
  <2>6. Counters'
    BY <1>0, <2>5 DEF Counters
  <2>7. QED
    BY <2>4, <2>6
<1>2. CASE TakeSome(t)
  <2>1. PICK c \in Claims, r \in 0 .. RetryLimit : Take(t, c, r)
    BY <1>2 DEF TakeSome
  <2> DEFINE j == [Free EXCEPT !.pc = "load", !.claim = c, !.retries = r]
  <2>2. j \in JobState /\ j.pc = "load" /\ j.claim = c
    BY FreeIsState DEF JobState, Free, CallerPoints, WorkerPoints
  <2>3. Core'
    BY <2>1, <2>2, SetKeeps DEF Take, past, Committed
  <2>4. queue' \in [ProcessingMessage -> Nat]
    BY <1>0, <2>1 DEF Take, Counters, ProcessingMessage
  <2>5. QED
    BY <1>0, <2>1, <2>3, <2>4 DEF Take, past, Counters
<1>3. CASE PublishProcessing(t) \/ Done(t) \/ JobCrash(t)
  <2>1. Core'
    BY <1>3, FreeIsState, SetKeeps
    DEF PublishProcessing, Done, JobCrash, Free, mail, past
  <2>2. queue' \in [ProcessingMessage -> Nat]
    BY <1>0, <1>3, QueueType DEF PublishProcessing, Done, JobCrash, mail
  <2>3. QED
    BY <1>0, <1>3, <2>1, <2>2
    DEF PublishProcessing, Done, JobCrash, mail, past, Counters
<1>4. QED
  BY <1>1, <1>2, <1>3

\* Steps before a decision: no status they write needs an approval.
LEMMA ChecksKeep ==
  ASSUME ClaimsInv, NEW t \in Jobs,
         SaveProcessing(t) \/ Policy(t) \/ Risk(t) \/ Evaluated(t)
  PROVE  Core' /\ Counters'
<1>0. Counters
  BY InvIs
<1>1. PICK p \in Points, s \in ClaimStatus :
        /\ Move(t, p) \/ MoveLoaded(t, p)
        /\ Written(t, s)
        /\ p \notin Committed /\ s \notin {"approved", "paid"}
  BY PointsAre DEF SaveProcessing, Policy, Risk, Evaluated, Written, Save,
                   Committed, ClaimStatus
<1>2. /\ job[t].pc # "idle" /\ UNCHANGED <<mail, past>>
  BY DEF SaveProcessing, Policy, Risk, Evaluated, On
<1>3. Core'
  BY <1>1, <1>2, MoveKeeps DEF mail, past, Committed
<1>4. QED
  BY <1>0, <1>2, <1>3 DEF mail, past, Counters

\* Start also notes PROCESSING as the status its session has loaded.
LEMMA StartKeeps ==
  ASSUME ClaimsInv, NEW t \in Jobs, Start(t)
  PROVE  Core' /\ Counters'
<1>0. Counters /\ job[t] \in JobState
  BY InvIs DEF ClaimsInv, ClaimsTypeOK
<1> DEFINE j == [job[t] EXCEPT !.pc = "policy", !.loaded = "processing"]
<1>1. j \in JobState /\ j.pc = "policy" /\ j.claim = job[t].claim
  BY <1>0 DEF JobState, WorkerPoints, ClaimStatus
<1>2. Backed(j, approved', settled')
  BY <1>1, ClaimOf DEF Start, On, Backed, Committed
<1>3. Written(t, "processing") /\ "processing" \in ClaimStatus
  BY DEF Start, Written, Save, ClaimStatus
<1>4. Core'
  BY <1>1, <1>2, <1>3, StepKeeps DEF Start, mail, past
<1>5. QED
  BY <1>0, <1>4 DEF Start, mail, past, Counters

\* The approval, and what only an approved claim goes through.
LEMMA ApprovalKeeps ==
  ASSUME ClaimsInv, NEW t \in Jobs,
         \/ Load(t) \/ Fraud(t) \/ Announce(t) \/ Pay(t)
         \/ Answered(t) \/ Paid(t)
  PROVE  Core' /\ Counters'
<1>0. Counters /\ PayOnlyApproved /\ ClaimsTypeOK
  BY InvIs DEF ClaimsInv
<1>1. job[t].pc # "idle" /\ job[t].claim \in Claims
  BY ClaimOf DEF Load, Fraud, Announce, AnnounceDelivered, AnnounceLost, Pay,
                 Answered, PaySettled, PayRefused, PayUnreachable, Paid, On
<1>2. CASE Load(t)
  <2>1. PICK p \in Points :
          /\ MoveLoaded(t, p) /\ p # "paid"
          /\ p \in Committed => status[job[t].claim] = "approved"
    BY <1>2, PointsAre DEF Load, Committed
  <2>2. UNCHANGED <<status, mail, past>> /\ "initiated" \in ClaimStatus
    BY <1>2 DEF Load, ClaimStatus
  <2>3. p \in Committed => job[t].claim \in approved'
    BY <1>0, <1>1, <2>1, <2>2 DEF PayOnlyApproved, past
  <2>4. Core'
    BY <1>1, <2>1, <2>2, <2>3, MoveKeeps DEF mail, past, Written
  <2>5. QED
    BY <1>0, <2>2, <2>4 DEF mail, past, Counters
<1>3. CASE Fraud(t)
  <2>1. PICK p \in Points, s \in ClaimStatus :
          /\ Move(t, p) /\ Written(t, s) /\ p # "paid" /\ s # "paid"
          /\ (p \in Committed \/ s = "approved") => job[t].claim \in approved'
    BY <1>3, PointsAre DEF Fraud, Written, Save, Committed, ClaimStatus
  <2>2. /\ approved' = approved \/ approved' = approved \cup {job[t].claim}
        /\ UNCHANGED <<mail, settled, crashes>>
    BY <1>3 DEF Fraud
  <2>3. Core'
    BY <1>1, <2>1, <2>2, MoveKeeps DEF mail
  <2>4. QED
    BY <1>0, <1>1, <2>2, <2>3 DEF mail, Counters
<1>4. CASE Announce(t) \/ Pay(t)
  <2>1. /\ Move(t, "waiting") \/ MoveLoaded(t, "pay")
        /\ job[t].claim \in approved /\ UNCHANGED <<status, past>>
        /\ \/ UNCHANGED published
           \/ published' = [published EXCEPT ![job[t].claim] = @ + 1]
        /\ UNCHANGED <<queue, deadClaims, requests>>
    BY <1>4, ClaimOf DEF Announce, AnnounceDelivered, AnnounceLost, Pay, On,
                         Committed, mail
  <2>2. Core'
    BY <1>1, <2>1, MoveKeeps, PointsAre DEF past, Written, ClaimStatus
  <2>3. QED
    BY <1>0, <2>1, <2>2 DEF past, Counters
<1>5. CASE Answered(t) \/ Paid(t)
  <2>1. /\ job[t].claim \in approved /\ UNCHANGED <<mail, approved, crashes>>
        /\ settled' = settled \/ settled' = settled \cup {job[t].claim}
    BY <1>5, ClaimOf DEF Answered, PaySettled, PayRefused, PayUnreachable, Paid,
                         On, Committed, mail, past
  <2>2. PICK p \in Points, s \in ClaimStatus :
          /\ Move(t, p) /\ Written(t, s)
          /\ (p = "paid" \/ s = "paid") => job[t].claim \in settled'
    BY <1>5, PointsAre, ClaimOf
    DEF Answered, PaySettled, PayRefused, PayUnreachable, Paid, On, Written,
        Save, ClaimStatus, mail, past
  <2>3. Core'
    BY <1>1, <2>1, <2>2, MoveKeeps DEF mail
  <2>4. QED
    BY <1>0, <1>1, <2>1, <2>3 DEF mail, Counters
<1>6. QED
  BY <1>2, <1>3, <1>4, <1>5

\* An attempt that failed, by itself or by a statement of it.
LEMMA ProcessingFailureKeeps ==
  ASSUME ClaimsInv, NEW t \in Jobs, Failed(t) \/ JobDatabaseError(t)
  PROVE  Core' /\ Counters'
<1>0. Counters
  BY InvIs
<1>1. CASE job' = [job EXCEPT ![t] = Free]
  <2>1. UNCHANGED <<status, mail, approved, settled>> /\ crashes' = crashes + 1
    <3>1. CASE JobDatabaseError(t)
      BY <3>1 DEF JobDatabaseError
    <3>2. CASE Failed(t)
      <4>1. job[t] \in JobState /\ Move(t, "done")
        BY <3>2 DEF Failed, ClaimsInv, ClaimsTypeOK
      <4>2. job'[t].pc = "done" /\ job'[t].pc = "idle"
        BY <1>1, <4>1 DEF Move, JobState, Free, ClaimsInv, ClaimsTypeOK
      <4>3. QED
        BY <4>2
    <3>3. QED
      BY <3>1, <3>2
  <2>2. Core'
    BY <1>1, <2>1, FreeIsState, SetKeeps DEF Free, mail
  <2>3. QED
    BY <1>0, <2>1, <2>2 DEF mail, Counters
<1>2. CASE ~ (job' = [job EXCEPT ![t] = Free])
  <2>1. /\ job[t].pc # "idle"
        /\ Move(t, "done") \/ Move(t, "failed")
        /\ UNCHANGED <<status, published, requests, approved, settled>>
        /\ crashes' \in {crashes, crashes + 1}
        /\ deadClaims' = deadClaims \/ deadClaims' = deadClaims \cup {job[t].claim}
    BY <1>2 DEF Failed, JobDatabaseError, On, mail, past
  <2>2. queue' \in [ProcessingMessage -> Nat]
    BY <1>0, QueueType DEF Failed, JobDatabaseError, mail
  <2>3. Core'
    BY <2>1, MoveKeeps, PointsAre DEF Written, Committed, ClaimStatus
  <2>4. job[t].claim \in Claims
    BY <2>1, ClaimOf
  <2>5. QED
    BY <1>0, <2>1, <2>2, <2>3, <2>4 DEF Counters
<1>3. QED
  BY <1>1, <1>2

-----------------------------------------------------------------------------
\* ClaimsInv is an inductive invariant.
THEOREM ClaimsInductive == ClaimsSpec => []ClaimsInv
<1>1. ASSUME ClaimsInv, [ClaimsNext]_cvars PROVE ClaimsInv'
  <2>1. CASE ClaimsNext
    <3>1. PICK t \in Jobs :
            \/ \E c \in Claims : ReadClaim(t, c)
            \/ TakeSome(t) \/ JobStep(t) \/ JobCrash(t) \/ JobDatabaseError(t)
      BY <2>1 DEF ClaimsNext
    <3>2. Core' /\ Counters'
      BY <1>1, <3>1, EndsKeep, ChecksKeep, StartKeeps, ApprovalKeeps, ProcessingFailureKeeps
      DEF JobStep, OwnStep
    <3>3. QED
      BY <3>2 DEF Core, Counters, ClaimsInv, ClaimsTypeOK
  <2>2. CASE UNCHANGED cvars
    BY <1>1, <2>2 DEF cvars, ClaimsInv, ClaimsTypeOK, JobsBacked, PayOnlyApproved,
                      PaidWasSettled
  <2>3. QED
    BY <1>1, <2>1, <2>2
<1>2. QED
  BY <1>1, InitClaimsInv, PTL DEF ClaimsSpec

\* The claims table, the queue and the threads keep their shape.
THEOREM ClaimsTypeCorrect == ClaimsSpec => []ClaimsTypeOK
BY ClaimsInductive, PTL DEF ClaimsInv

\* However callers, workers, redeliveries and stale saves interleave, only a
\* claim that passed the policy, risk and fraud checks is announced or paid for.
THEOREM OnlyApprovedArePaid == ClaimsSpec => []PayOnlyApproved
BY ClaimsInductive, PTL DEF ClaimsInv

\* A claim shown as paid was settled by the payout service.
THEOREM PaidAreSettled == ClaimsSpec => []PaidWasSettled
BY ClaimsInductive, PTL DEF ClaimsInv

\* Both together, as the runs check them.
THEOREM ClaimsAreSafe == ClaimsSpec => []ClaimsSafe
BY ClaimsTypeCorrect, OnlyApprovedArePaid, PTL DEF ClaimsSafe
=============================================================================
