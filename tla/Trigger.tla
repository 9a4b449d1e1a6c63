------------------------------- MODULE Trigger -------------------------------
(***************************************************************************)
(* The trigger service (src/backend/services/trigger-service): replicas    *)
(* poll weather, traffic and platform sources under a PostgreSQL advisory  *)
(* lock, record a disruption for a condition that has none, and announce   *)
(* it.                                                                     *)
(*                                                                         *)
(* The lock belongs to a database connection, and a session that commits   *)
(* returns its connection to the pool and takes any free one for its next  *)
(* statement.  The connections are therefore part of the model.            *)
(***************************************************************************)
EXTENDS Naturals, Sequences

CONSTANTS
  Replicas,     \* processes of the service
  Conns,        \* their database connections
  PoolOf,       \* Conns -> Replicas: the process whose pool has the connection
  Polls,        \* the (zone, type) conditions, in the order they are polled
  MaxRows,      \* bound: disruptions in a behaviour
  MaxBreaks,    \* bound: lost connections, restarts and failing statements
  NoConn        \* "no connection"

ASSUME PoolAssumption == PoolOf \in [Conns -> Replicas] /\ NoConn \notin Conns

ASSUME TriggerBoundAssumption == MaxRows \in Nat /\ MaxBreaks \in Nat

VARIABLES
  disruptions,  \* table of disruptions; a row's index stands for its UUID
  cycle,        \* what the scheduler thread of each replica is doing
  lock,         \* the advisory lock: connection that holds it, and how often
  manual,       \* rows committed by POST /trigger/mock and not yet published
  announced,    \* rows whose DISRUPTION_DETECTED reached the broker
  unguarded,    \* history: a running cycle has lost the lock it took
  breaks        \* lost connections, restarts and failing statements so far

tvars == <<disruptions, cycle, lock, manual, announced, unguarded, breaks>>

-----------------------------------------------------------------------------
Kinds == {Polls[i] : i \in DOMAIN Polls}

ASSUME PollsAssumption == Polls \in Seq(Kinds)

Disruption == [kind : Kinds, status : {"active", "stopped"},
               source : {"polled", "manual"}]

CyclePoints == {"idle", "poll", "insert", "publish"}

Rest == [pc |-> "idle", next |-> 1, conn |-> NoConn, row |-> 0]

Unlocked == [conn |-> NoConn, depth |-> 0]

Running(r) == cycle[r].pc # "idle"

PoolConns(r) == {c \in Conns : PoolOf[c] = r}

\* Connections of r that its own cycle is not using; API threads come and go.
Available(r) == PoolConns(r) \ {cycle[r].conn}

Active(i) == disruptions[i].status = "active"

\* get_active_by_zone_and_type
ActiveOf(k) == {i \in DOMAIN disruptions : Active(i) /\ disruptions[i].kind = k}

LockReplica == IF lock.conn = NoConn THEN NoConn ELSE PoolOf[lock.conn]

\* The server drops the lock with the connection that holds it.
LockWithout(conns) == IF lock.conn \in conns THEN Unlocked ELSE lock

Step(r, change) == cycle' = [cycle EXCEPT ![r] = change]

TriggerInit ==
  /\ disruptions = <<>>
  /\ cycle = [r \in Replicas |-> Rest]
  /\ lock = Unlocked
  /\ manual = {} /\ announced = {}
  /\ unguarded = FALSE
  /\ breaks = 0

-----------------------------------------------------------------------------
(* Plausible mistakes, each in the place of the action it is named after.  *)

\* StartCycle, with the lock tried and its result ignored.
StartCycleAnyway(r, c) ==
  /\ ~ Running(r) /\ c \in PoolConns(r)
  /\ lock' = IF lock.conn \in {NoConn, c}
             THEN [conn |-> c, depth |-> lock.depth + 1] ELSE lock
  /\ Step(r, [Rest EXCEPT !.pc = "poll", !.conn = c])
  /\ UNCHANGED <<disruptions, manual, announced, unguarded, breaks>>

-----------------------------------------------------------------------------
(* run_detection_cycle, in the scheduler thread.                           *)

\* pg_try_advisory_lock on whatever connection the session gets: granted when
\* nobody holds it, and again to the connection that already does.  A cycle
\* that is refused changes nothing.
StartCycle(r, c) ==
  /\ ~ Running(r) /\ c \in PoolConns(r) /\ lock.conn \in {NoConn, c}
  /\ lock' = [conn |-> c, depth |-> lock.depth + 1]
  /\ Step(r, [Rest EXCEPT !.pc = "poll", !.conn = c])
  /\ UNCHANGED <<disruptions, manual, announced, unguarded, breaks>>

\* The sources report nothing for the next condition (also when they cannot be
\* reached), or it has an active disruption and needs no other.
NothingNew(r) ==
  LET s == cycle[r] IN
  /\ s.pc = "poll" /\ s.next \in DOMAIN Polls
  /\ Step(r, [s EXCEPT !.next = @ + 1])
  /\ UNCHANGED <<disruptions, lock, manual, announced, unguarded, breaks>>

\* A source reports the next condition, and it has no active disruption.
Detect(r) ==
  LET s == cycle[r] IN
  /\ s.pc = "poll" /\ s.next \in DOMAIN Polls
  /\ ActiveOf(Polls[s.next]) = {} /\ Step(r, [s EXCEPT !.pc = "insert"])
  /\ UNCHANGED <<disruptions, lock, manual, announced, unguarded, breaks>>

\* INSERT and commit; the refresh that follows goes on with any free connection.
InsertDisruption(r, c) ==
  LET s == cycle[r] IN
  /\ s.pc = "insert" /\ Len(disruptions) < MaxRows
  /\ c \in PoolConns(r)
  /\ disruptions' =
       Append(disruptions,
              [kind |-> Polls[s.next], status |-> "active", source |-> "polled"])
  /\ Step(r, [s EXCEPT !.pc = "publish", !.conn = c, !.row = Len(disruptions')])
  /\ UNCHANGED <<lock, manual, announced, unguarded, breaks>>

\* publish_disruption_detected swallows every broker error.
DisruptionPublished(r) ==
  LET s == cycle[r] IN
  /\ s.pc = "publish"
  /\ Step(r, [s EXCEPT !.pc = "poll", !.next = @ + 1, !.row = 0])
  /\ announced' = announced \cup {s.row}
  /\ UNCHANGED <<disruptions, lock, manual, unguarded, breaks>>

DisruptionLost(r) ==
  LET s == cycle[r] IN
  /\ s.pc = "publish"
  /\ Step(r, [s EXCEPT !.pc = "poll", !.next = @ + 1, !.row = 0])
  /\ UNCHANGED <<disruptions, announced, lock, manual, unguarded, breaks>>

\* pg_advisory_unlock on the session's present connection: PostgreSQL answers
\* false, with no effect, when another one holds the lock.
EndCycle(r) ==
  LET s == cycle[r] IN
  /\ s.pc = "poll" /\ s.next \notin DOMAIN Polls
  /\ lock' = CASE lock.conn # s.conn -> lock
               [] lock.conn = s.conn /\ lock.depth = 1 -> Unlocked
               [] OTHER -> [lock EXCEPT !.depth = @ - 1]
  /\ Step(r, Rest)
  /\ UNCHANGED <<disruptions, manual, announced, unguarded, breaks>>

-----------------------------------------------------------------------------
(* The API.                                                                *)

\* POST /trigger/mock inserts without looking for an active disruption.
InsertManual(k) ==
  /\ Len(disruptions) < MaxRows
  /\ disruptions' =
       Append(disruptions, [kind |-> k, status |-> "active", source |-> "manual"])
  /\ manual' = manual \cup {Len(disruptions')}
  /\ UNCHANGED <<cycle, lock, announced, unguarded, breaks>>

ManualPublished(i) ==
  /\ i \in manual /\ manual' = manual \ {i} /\ announced' = announced \cup {i}
  /\ UNCHANGED <<disruptions, cycle, lock, unguarded, breaks>>

ManualLost(i) ==
  /\ i \in manual /\ manual' = manual \ {i}
  /\ UNCHANGED <<disruptions, cycle, lock, announced, unguarded, breaks>>

\* POST /trigger/stop
StopTrigger(i) ==
  /\ i \in DOMAIN disruptions /\ Active(i)
  /\ disruptions' = [disruptions EXCEPT ![i].status = "stopped"]
  /\ UNCHANGED <<cycle, lock, manual, announced, unguarded, breaks>>

-----------------------------------------------------------------------------
(* Faults.                                                                 *)

\* A statement of a cycle fails: the exception is caught, but the unlock fails
\* as well in the failed transaction, and the lock stays where it is, unless
\* it is the failing connection that had it.
CycleError(r) ==
  /\ breaks < MaxBreaks /\ breaks' = breaks + 1
  /\ cycle[r].pc \in {"poll", "insert"} /\ Step(r, Rest)
  /\ lock' \in {lock, LockWithout({cycle[r].conn})}
  /\ UNCHANGED <<disruptions, manual, announced, unguarded>>

\* A pooled connection is closed (pool full, server or network gone).
LoseConnection(c) ==
  LET r == PoolOf[c] IN
  /\ breaks < MaxBreaks /\ breaks' = breaks + 1
  /\ c \in Available(r)
  /\ lock' = LockWithout({c})
  /\ unguarded' = (unguarded \/ (lock.conn = c /\ Running(r)))
  /\ UNCHANGED <<disruptions, cycle, manual, announced>>

\* A process dies with its connections and its unpublished work, and starts again.
Restart(r) ==
  /\ breaks < MaxBreaks /\ breaks' = breaks + 1
  /\ lock' = LockWithout(PoolConns(r))
  /\ Step(r, Rest)
  /\ UNCHANGED <<disruptions, manual, announced, unguarded>>

-----------------------------------------------------------------------------
CycleStep(r) ==
  \/ NothingNew(r) \/ Detect(r) \/ (\E c \in Conns : InsertDisruption(r, c))
  \/ DisruptionLost(r) \/ EndCycle(r)

\* Everything but the publications that reach the broker.
Quietly ==
  \/ \E r \in Replicas :
       CycleStep(r) \/ CycleError(r) \/ Restart(r) \/ (\E c \in Conns : StartCycle(r, c))
  \/ \E k \in Kinds : InsertManual(k)
  \/ \E i \in DOMAIN disruptions : StopTrigger(i) \/ ManualLost(i)
  \/ \E c \in Conns : LoseConnection(c)

TriggerNext ==
  \/ Quietly
  \/ \E r \in Replicas : DisruptionPublished(r)
  \/ \E i \in manual : ManualPublished(i)

TriggerSpec == TriggerInit /\ [][TriggerNext]_tvars

-----------------------------------------------------------------------------
(* Properties.                                                             *)

\* The state has the shape of the disruption table, the scheduler threads and
\* the advisory lock.
TriggerTypeOK ==
  /\ disruptions \in Seq(Disruption)
  /\ cycle \in [Replicas -> [pc : CyclePoints, next : 1 .. Len(Polls) + 1,
                             conn : Conns \cup {NoConn}, row : 0 .. Len(disruptions)]]
  /\ lock \in [conn : Conns \cup {NoConn}, depth : Nat]
  /\ manual \subseteq DOMAIN disruptions
  /\ announced \subseteq DOMAIN disruptions
  /\ unguarded \in BOOLEAN /\ breaks \in Nat

\* While no connection that carries the lock is lost under a running cycle, only
\* the lock's replica runs one, also after the lock was left behind on a pooled
\* connection by an earlier cycle.
CycleHoldsLock ==
  ~ unguarded => \A r \in Replicas : Running(r) => LockReplica = r

\* Then polling never records a second active disruption of a condition, for all
\* the replicas, retried cycles, stops and manual triggers.
OneDetection ==
  ~ unguarded =>
    \A i, j \in DOMAIN disruptions :
      /\ i # j /\ Active(i) /\ Active(j)
      /\ disruptions[i].kind = disruptions[j].kind
      => "manual" \in {disruptions[i].source, disruptions[j].source}

\* Replicas, manual triggers and lost connections leave a well-formed table, cycles that
\* hold the advisory lock, and one active disruption per polled condition.
TriggerSafe == TriggerTypeOK /\ CycleHoldsLock /\ OneDetection
=============================================================================
