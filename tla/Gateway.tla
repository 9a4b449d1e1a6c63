------------------------------- MODULE Gateway -------------------------------
(***************************************************************************)
(* The API gateway (src/backend/api-gateway): the middleware's rate limit  *)
(* and token check, then proxy_request with its circuit breaker, timeouts  *)
(* and retries, in front of one upstream service.                          *)
(*                                                                         *)
(* The gateway is one asyncio process: what runs between two awaits is one *)
(* action.  An attempt that timed out may still be executed upstream.      *)
(***************************************************************************)
EXTENDS Naturals, FiniteSets

CONSTANTS
  Calls,             \* requests of clients
  Attempts,          \* settings.upstream_retry_attempts
  FailureThreshold,  \* settings.circuit_breaker_failure_threshold
  OpenFor,           \* settings.circuit_breaker_open_seconds, in ticks
  Quota,             \* settings.rate_limit_per_minute
  MaxTime            \* bound: ticks of the clock; one tick is one window

ASSUME GatewayAssumption ==
  /\ Attempts \in Nat \ {0} /\ FailureThreshold \in Nat \ {0} /\ OpenFor \in Nat \ {0}
  /\ Quota \in Nat \ {0} /\ MaxTime \in Nat

VARIABLES
  clock,
  window,    \* RATE_LIMIT: window -> requests counted, of one client address
  circuit,   \* CIRCUIT_STATE of the upstream
  call,      \* the coroutine of each request
  attempt,   \* what became of each attempt upstream
  opened     \* history: for each call admitted, whether the circuit opened since

gvars == <<clock, window, circuit, call, attempt, opened>>

-----------------------------------------------------------------------------
Tries == Calls \X (1 .. Attempts)

\* Answers of the gateway itself; "relayed" is the upstream's.
Refusals == {"limited", "unauthorized", "circuit_open"}
Outcomes == Refusals \cup {"unreachable", "relayed"}

CallPoints == {"new", "admitted", "send", "wait"} \cup Outcomes

Closed == [failures |-> 0, until |-> 0]

Answered(c) == call[c].pc \in Outcomes

Current(c) == <<c, call[c].try>>

Sent(c) ==
  /\ call' = [call EXCEPT ![c].pc = "wait"]
  /\ attempt' = [attempt EXCEPT ![Current(c)] = "sent"]

Proceed(c, point) == call' = [call EXCEPT ![c].pc = point]

\* A call that came in before the circuit opened.
Admitted == {c \in Calls : call[c].pc \in {"send", "wait"}}

CountOf(w) == IF w \in DOMAIN window THEN window[w] ELSE 0

GatewayInit ==
  /\ clock = 1
  /\ window = [w \in {} |-> 0]
  /\ circuit = Closed
  /\ call = [c \in Calls |-> [pc |-> "new", try |-> 1]]
  /\ attempt = [a \in Tries |-> "none"]
  /\ opened = {}

-----------------------------------------------------------------------------
(* Plausible mistakes, each in the place of the action it is named after.  *)

\* CheckCircuit, with the failures kept when the open period is over.
CheckCircuitKeeping(c) ==
  /\ call[c].pc = "admitted"
  /\ IF circuit.until > clock
     THEN Proceed(c, "circuit_open") /\ UNCHANGED <<circuit, attempt>>
     ELSE Sent(c) /\ circuit' = [circuit EXCEPT !.until = 0]
  /\ UNCHANGED <<clock, window, opened>>

\* CheckCircuit, letting everything through to probe the upstream.
CheckCircuitProbing(c) ==
  /\ call[c].pc = "admitted" /\ Sent(c)
  /\ UNCHANGED <<clock, window, circuit, opened>>

\* AttemptFails, with the last attempt repeated for ever.
AttemptFailsAgain(c) ==
  /\ call[c].pc = "wait" /\ Proceed(c, "send")
  /\ UNCHANGED <<clock, window, circuit, attempt, opened>>

-----------------------------------------------------------------------------
(* gateway_control_middleware.                                             *)

\* Counters of windows before the last one are dropped; every request counts,
\* also one that is refused.  The token is verified after that.
Arrive(c) ==
  /\ call[c].pc = "new"
  /\ window' = [w \in {v \in DOMAIN window : v + 1 >= clock} \cup {clock} |->
                  CountOf(w) + (IF w = clock THEN 1 ELSE 0)]
  /\ IF window'[clock] > Quota THEN Proceed(c, "limited")
     ELSE \/ Proceed(c, "admitted") \/ Proceed(c, "unauthorized")
  /\ UNCHANGED <<clock, circuit, attempt, opened>>

-----------------------------------------------------------------------------
(* safe_request.                                                           *)

\* _is_circuit_open, once per request: an expired circuit is closed for all.  The
\* first attempt is sent right after it.
CheckCircuit(c) ==
  /\ call[c].pc = "admitted"
  /\ IF circuit.until > clock
     THEN Proceed(c, "circuit_open") /\ UNCHANGED <<circuit, attempt>>
     ELSE /\ circuit' = IF circuit.until > 0 THEN Closed ELSE circuit
          /\ Sent(c)
  /\ UNCHANGED <<clock, window, opened>>

\* The back-off is over.
SendAttempt(c) ==
  /\ call[c].pc = "send" /\ Sent(c)
  /\ UNCHANGED <<clock, window, circuit, opened>>

\* Any HTTP answer, an error of the service included, is a success.
AnswerArrives(c) ==
  /\ call[c].pc = "wait" /\ attempt[Current(c)] = "served"
  /\ Proceed(c, "relayed")
  /\ circuit' = Closed
  /\ UNCHANGED <<clock, window, attempt, opened>>

\* A timeout, or a connection that breaks: whatever the attempt does upstream, it
\* is repeated, for any method; the last one counts as one failure of the upstream
\* and opens the circuit anew when there were enough.
AttemptFails(c) ==
  /\ call[c].pc = "wait"
  /\ IF call[c].try < Attempts
     THEN /\ call' = [call EXCEPT ![c] = [pc |-> "send", try |-> @.try + 1]]
          /\ UNCHANGED <<circuit, opened>>
     ELSE LET n == circuit.failures + 1 IN
          /\ Proceed(c, "unreachable")
          /\ circuit' = [failures |-> n,
                         until |-> IF n >= FailureThreshold THEN clock + OpenFor
                                   ELSE circuit.until]
          /\ opened' = IF n >= FailureThreshold THEN opened \cup Admitted ELSE opened
  /\ UNCHANGED <<clock, window, attempt>>

-----------------------------------------------------------------------------
(* The environment.                                                        *)

Tick ==
  /\ clock < MaxTime /\ clock' = clock + 1
  /\ UNCHANGED <<window, circuit, call, attempt, opened>>

\* The service has executed the request and answers; a request that never reaches
\* it stays "sent".
Serve(a) ==
  /\ attempt[a] = "sent" /\ attempt' = [attempt EXCEPT ![a] = "served"]
  /\ UNCHANGED <<clock, window, circuit, call, opened>>

-----------------------------------------------------------------------------
(* Properties.                                                             *)

\* The state has the shape of the gateway's tables and coroutines.
GatewayTypeOK ==
  /\ clock \in 1 .. MaxTime + 1
  /\ DOMAIN window \subseteq Nat /\ \A w \in DOMAIN window : window[w] \in Nat
  /\ circuit \in [failures : Nat, until : Nat]
  /\ call \in [Calls -> [pc : CallPoints, try : 1 .. Attempts]]
  /\ attempt \in [Tries -> {"none", "sent", "served"}]
  /\ opened \subseteq Calls

\* The breaker is open exactly when its failures have reached the threshold, for
\* all interleavings of late failures, late successes and the end of the period.
BreakerSound ==
  circuit.until > 0 <=> circuit.failures >= FailureThreshold

\* A call the gateway refused never reached the service; one it relayed was
\* executed; one it gave up on may have been, up to Attempts times.
RefusedUntouched ==
  \A c \in Calls :
    LET executed == {n \in 1 .. Attempts : attempt[<<c, n>>] = "served"}
        reached == {n \in 1 .. Attempts : attempt[<<c, n>>] # "none"}
    IN  /\ (call[c].pc \in Refusals => reached = {})
        /\ (call[c].pc = "relayed" => executed # {})

\* Before its period is over the breaker is closed only by a success of a call
\* that was on the way when it opened.
ClosedEarlyByOlderCall ==
  [][ (circuit.until > clock /\ circuit'.until = 0)
      => \E c \in opened : call[c].pc = "wait" /\ call'[c].pc = "relayed" ]_gvars

\* Every call gets an answer, whatever the upstream does.
CallsAnswered == \A c \in Calls : (call[c].pc # "new") ~> Answered(c)

\* The breaker's two fields agree, and a refused call never reached the service, in
\* every order in which late answers, failures and the end of the period come.
GatewaySafe == GatewayTypeOK /\ BreakerSound /\ RefusedUntouched
=============================================================================
