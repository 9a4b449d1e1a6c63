------------------------------ MODULE RateLimit ------------------------------
(***************************************************************************)
(* enforce_rate_limit, the sliding window every service puts before its    *)
(* routes: a deque of arrival times per caller, used by all the threads of *)
(* the process without a lock.  One caller.                                *)
(***************************************************************************)
EXTENDS Integers, Sequences, FiniteSets, Functions

CONSTANTS
  Threads,  \* threads of the process that handle requests
  Limit,    \* settings.rate_limit_per_minute
  Window,   \* ticks in which that many requests may pass
  MaxTime   \* bound: ticks

ASSUME RateAssumption ==
  /\ IsFiniteSet(Threads) /\ Threads # {}
  /\ Limit \in Nat \ {0} /\ Window \in Nat /\ MaxTime \in Nat

VARIABLES
  clock,
  bucket,  \* times of the requests let through, as appended
  gate,    \* each thread's point in enforce_rate_limit, and its arrival time
  passed   \* number of requests let through, per arrival time

rateVars == <<bucket, gate, passed>>

RateInit ==
  /\ clock = 0 /\ bucket = <<>>
  /\ gate = [t \in Threads |-> [pc |-> "out", now |-> 0]]
  /\ passed = [i \in 0..MaxTime |-> 0]

GateAt(t, pc) == gate[t].pc = pc
GateTo(t, pc) == gate' = [gate EXCEPT ![t].pc = pc]

\* Past the test the arrival time, a local variable, does not matter.
Pass(t, pc) == gate' = [gate EXCEPT ![t] = [pc |-> pc, now |-> 0]]
LeaveGate(t) == Pass(t, "out")

\* A thread takes less than a tick to pass.
Tick ==
  /\ clock < MaxTime /\ clock' = clock + 1
  /\ \A t \in Threads : gate[t].pc \in {"out", "in", "refused", "broken"}

EnterGate(t) ==
  /\ GateAt(t, "out")
  /\ gate' = [gate EXCEPT ![t] = [pc |-> "test", now |-> clock]]
  /\ UNCHANGED <<bucket, passed>>

\* The while loop drops what left the window, one by one; then the rest is counted.
Outdated(t) == bucket # <<>> /\ gate[t].now - Head(bucket) > Window

TestBucket(t) ==
  /\ GateAt(t, "test")
  /\ IF ~Outdated(t) /\ Len(bucket) >= Limit THEN Pass(t, "refused")
     ELSE GateTo(t, IF Outdated(t) THEN "pop" ELSE "append")
  /\ UNCHANGED <<bucket, passed>>

\* Another thread may have popped what this one tested, or all there was.
PopHead(t) ==
  /\ GateAt(t, "pop")
  /\ IF bucket = <<>> THEN Pass(t, "broken") /\ UNCHANGED bucket
                      ELSE GateTo(t, "test") /\ bucket' = Tail(bucket)
  /\ UNCHANGED passed

\* A mistake in the place of AppendRequest: the arrival is not kept.
AppendNothing(t) ==
  /\ GateAt(t, "append") /\ Pass(t, "in")
  /\ passed' = [passed EXCEPT ![gate[t].now] = @ + 1]
  /\ UNCHANGED bucket

AppendRequest(t) ==
  /\ GateAt(t, "append") /\ Pass(t, "in")
  /\ bucket' = Append(bucket, gate[t].now)
  /\ passed' = [passed EXCEPT ![gate[t].now] = @ + 1]

EnforceRateLimit(t) == TestBucket(t) \/ PopHead(t) \/ AppendRequest(t)

-----------------------------------------------------------------------------

RateTypeOK ==
  /\ clock \in 0..MaxTime
  /\ bucket \in Seq(0..MaxTime)
  /\ \A t \in Threads :
       /\ gate[t].pc \in {"out", "test", "pop", "append", "in", "refused", "broken"}
       /\ gate[t].now \in 0..clock
  /\ passed \in [0..MaxTime -> Nat]

\* Threads may pass the count together, and one may drop the arrival another has just
\* appended in the place of the old one it tested: in no window do more requests pass
\* than the limit and two for each further thread.
WindowBound ==
  \A s \in 0..MaxTime - Window :
    FoldFunctionOnSet(+, 0, passed, s..s + Window) <= Limit + 2 * (Cardinality(Threads) - 1)
=============================================================================
