----------------------------- MODULE EdgeProofs -----------------------------
(***************************************************************************)
(* Proofs about what users meet: the gateway, the identity service's       *)
(* sessions and their composition, for any number of calls, attempts,      *)
(* phones, accounts and failures, any thresholds and any time; and the     *)
(* deliveries of the notification service, for any callers, workers, retry *)
(* limit and number of failures.                                           *)
(***************************************************************************)
EXTENDS Access, Notifications, FiniteSetTheorems, TLAPS

-----------------------------------------------------------------------------
(* The gateway.                                                            *)

\* What the gateway does in any step of the composition.
GatewayStep ==
  \/ \E c \in Calls :
       Arrive(c) \/ CheckCircuit(c) \/ SendAttempt(c) \/ AttemptFails(c) \/ AnswerArrives(c)
  \/ \E a \in Tries : Serve(a)
  \/ Tick

\* How far the attempts of call c got: none before the circuit is checked or after a
\* refusal, none beyond the current one, none of the next before its back-off is over.
Reached(c) ==
  /\ call[c].pc \in {"new", "admitted"} \cup Refusals =>
       \A n \in 1 .. Attempts : attempt[<<c, n>>] = "none"
  /\ \A n \in 1 .. Attempts : attempt[<<c, n>>] # "none" => n <= call[c].try
  /\ call[c].pc = "send" => attempt[<<c, call[c].try>>] = "none"
  /\ call[c].pc = "relayed" => attempt[<<c, call[c].try>>] = "served"

\* While the circuit is open every call on the way is one that was when it opened.
OlderCalls == circuit.until > clock => Admitted \subseteq opened

GatewayInv ==
  GatewayTypeOK /\ BreakerSound /\ OlderCalls /\ \A c \in Calls : Reached(c)

CallState == [pc : CallPoints, try : 1 .. Attempts]

\* A call that goes on keeps its attempt, and the others stay where they are.
LEMMA CallProceeds ==
  ASSUME GatewayTypeOK, NEW c \in Calls, NEW point \in CallPoints,
         call' = [call EXCEPT ![c].pc = point]
  PROVE  /\ call' \in [Calls -> CallState]
         /\ call'[c].pc = point /\ call'[c].try = call[c].try
         /\ \A d \in Calls \ {c} : call'[d] = call[d]
<1>1. call \in [Calls -> CallState] /\ call[c] \in CallState
  BY DEF GatewayTypeOK, CallState
<1> DEFINE s == [call[c] EXCEPT !.pc = point]
<1>2. s \in CallState /\ s.pc = point /\ s.try = call[c].try
  BY <1>1 DEF CallState
<1>3. call' = [call EXCEPT ![c] = s]
  OBVIOUS
<1> HIDE DEF s
<1>4. QED
  BY <1>1, <1>2, <1>3

(* The point and the attempt number of a call are of their types. *)
LEMMA CallOf ==
  ASSUME GatewayTypeOK, NEW c \in Calls
  PROVE  /\ call[c].pc \in CallPoints /\ call[c].try \in 1 .. Attempts
         /\ call[c].try \in Nat /\ <<c, call[c].try>> \in Tries
BY GatewayAssumption DEF GatewayTypeOK, Tries

\* Calls of which neither the point nor the attempts change.
LEMMA ReachedElsewhere ==
  ASSUME NEW d \in Calls, Reached(d), call'[d] = call[d],
         \A n \in 1 .. Attempts : attempt'[<<d, n>>] = attempt[<<d, n>>],
         call[d].try \in 1 .. Attempts
  PROVE  Reached(d)'
BY DEF Reached

\* The sending of the current attempt.
LEMMA SentKeeps ==
  ASSUME GatewayInv, NEW c \in Calls, Sent(c)
  PROVE  /\ call' \in [Calls -> CallState] /\ call'[c].pc = "wait"
         /\ \A d \in Calls \ {c} : call'[d] = call[d]
         /\ attempt' \in [Tries -> {"none", "sent", "served"}]
         /\ \A d \in Calls : Reached(d)'
<1>1. GatewayTypeOK /\ "wait" \in CallPoints
  BY DEF GatewayInv, CallPoints
<1>2. /\ call' \in [Calls -> CallState] /\ call'[c].pc = "wait"
      /\ call'[c].try = call[c].try /\ \A d \in Calls \ {c} : call'[d] = call[d]
  BY <1>1, CallProceeds DEF Sent
<1>3. /\ attempt \in [Tries -> {"none", "sent", "served"}] /\ <<c, call[c].try>> \in Tries
      /\ attempt' = [attempt EXCEPT ![<<c, call[c].try>>] = "sent"]
  BY <1>1, CallOf DEF GatewayTypeOK, Sent, Current
<1>4. attempt' \in [Tries -> {"none", "sent", "served"}]
  BY <1>3
<1>5. ASSUME NEW d \in Calls PROVE Reached(d)'
  <2>1. CASE d # c
    <3>1. \A n \in 1 .. Attempts :
            <<d, n>> \in Tries /\ <<d, n>> # <<c, call[c].try>>
      BY <2>1 DEF Tries
    <3>2. \A n \in 1 .. Attempts : attempt'[<<d, n>>] = attempt[<<d, n>>]
      BY <3>1, <1>3
    <3>3. QED
      BY <2>1, <3>2, <1>1, <1>2, CallOf, ReachedElsewhere DEF GatewayInv
  <2>2. CASE d = c
    <3>1. ASSUME NEW n \in 1 .. Attempts, attempt'[<<c, n>>] # "none"
          PROVE  n <= call[c].try
      <4>1. CASE n = call[c].try
        BY <4>1, <1>1, CallOf
      <4>2. CASE n # call[c].try
        <5>1. <<c, n>> \in Tries /\ <<c, n>> # <<c, call[c].try>>
          BY <4>2 DEF Tries
        <5>2. attempt'[<<c, n>>] = attempt[<<c, n>>]
          BY <5>1, <1>3
        <5>3. QED
          BY <3>1, <5>2 DEF GatewayInv, Reached
      <4>3. QED
        BY <4>1, <4>2
    <3>2. QED
      BY <1>2, <2>2, <3>1 DEF Reached, Refusals
  <2>3. QED
    BY <2>1, <2>2
<1>6. QED
  BY <1>2, <1>4, <1>5

\* A call that goes on while no attempt changes.
LEMMA ProceedKeeps ==
  ASSUME GatewayInv, NEW c \in Calls, NEW point \in CallPoints, Proceed(c, point),
         attempt' = attempt, point # "send",
         point \in {"new", "admitted"} \cup Refusals =>
           call[c].pc \in {"new", "admitted"} \cup Refusals,
         point = "relayed" => attempt[<<c, call[c].try>>] = "served"
  PROVE  /\ call' \in [Calls -> CallState] /\ call'[c].pc = point
         /\ \A d \in Calls \ {c} : call'[d] = call[d]
         /\ \A d \in Calls : Reached(d)'
<1>1. GatewayTypeOK
  BY DEF GatewayInv
<1>2. /\ call' \in [Calls -> CallState] /\ call'[c].pc = point
      /\ call'[c].try = call[c].try /\ \A d \in Calls \ {c} : call'[d] = call[d]
  BY <1>1, CallProceeds DEF Proceed
<1>3. ASSUME NEW d \in Calls PROVE Reached(d)'
  <2>1. CASE d # c
    BY <2>1, <1>1, <1>2, CallOf, ReachedElsewhere DEF GatewayInv
  <2>2. CASE d = c
    <3>1. Reached(c)
      BY DEF GatewayInv
    <3>2. QED
      BY <2>2, <1>2, <3>1 DEF Reached
  <2>3. QED
    BY <2>1, <2>2
<1>4. QED
  BY <1>2, <1>3

\* No call enters the way while the circuit is open, and none leaves opened.
LEMMA AdmittedShrinks ==
  ASSUME OlderCalls, circuit' = circuit, clock' = clock, opened' = opened,
         \A d \in Calls : call'[d].pc \in {"send", "wait"} => call[d].pc \in {"send", "wait"}
  PROVE  OlderCalls'
BY DEF OlderCalls, Admitted

(* A request that arrives keeps the gateway's invariant. *)
LEMMA ArriveKeeps ==
  ASSUME GatewayInv, NEW c \in Calls, Arrive(c)
  PROVE  GatewayInv'
<1>1. /\ clock' = clock /\ circuit' = circuit /\ attempt' = attempt /\ opened' = opened
      /\ call[c].pc = "new"
  BY DEF Arrive
<1>2. PICK point \in {"limited", "admitted", "unauthorized"} : Proceed(c, point)
  BY DEF Arrive
<1>3. point \in CallPoints /\ point \in {"new", "admitted"} \cup Refusals /\ point # "send"
      /\ point # "relayed" /\ point # "wait"
  BY DEF CallPoints, Outcomes, Refusals
<1>4. /\ call' \in [Calls -> CallState] /\ call'[c].pc = point
      /\ \A d \in Calls \ {c} : call'[d] = call[d]
      /\ \A d \in Calls : Reached(d)'
  BY <1>1, <1>2, <1>3, ProceedKeeps
<1>5. GatewayTypeOK'
  <2>1. clock \in Nat /\ DOMAIN window \subseteq Nat /\ \A w \in DOMAIN window : window[w] \in Nat
    BY GatewayAssumption DEF GatewayInv, GatewayTypeOK
  <2>2. \A w : CountOf(w) \in Nat
    BY <2>1 DEF CountOf
  <2> DEFINE W == {v \in DOMAIN window : v + 1 >= clock} \cup {clock}
  <2>3. W \subseteq Nat
    BY <2>1
  <2>4. window' = [w \in W |-> CountOf(w) + (IF w = clock THEN 1 ELSE 0)]
    BY DEF Arrive
  <2> HIDE DEF W
  <2>5. DOMAIN window' \subseteq Nat /\ \A w \in DOMAIN window' : window'[w] \in Nat
    BY <2>2, <2>3, <2>4
  <2>6. QED
    BY <1>1, <1>4, <2>5 DEF GatewayInv, GatewayTypeOK, CallState
<1>6. BreakerSound'
  BY <1>1 DEF GatewayInv, BreakerSound
<1>7. OlderCalls'
  <2>1. \A d \in Calls : call'[d].pc \in {"send", "wait"} => call[d].pc \in {"send", "wait"}
    BY <1>3, <1>4
  <2>2. QED
    BY <1>1, <2>1, AdmittedShrinks DEF GatewayInv
<1>8. QED
  BY <1>4, <1>5, <1>6, <1>7 DEF GatewayInv

(* The look at the circuit keeps the gateway's invariant. *)
LEMMA CircuitKeeps ==
  ASSUME GatewayInv, NEW c \in Calls, CheckCircuit(c)
  PROVE  GatewayInv'
<1>1. /\ clock' = clock /\ window' = window /\ opened' = opened /\ call[c].pc = "admitted"
      /\ clock \in Nat /\ circuit \in [failures : Nat, until : Nat]
  BY GatewayAssumption DEF CheckCircuit, GatewayInv, GatewayTypeOK
<1>2. CASE circuit.until > clock
  <2>1. Proceed(c, "circuit_open") /\ circuit' = circuit /\ attempt' = attempt
    BY <1>2 DEF CheckCircuit
  <2>2. "circuit_open" \in CallPoints /\ "circuit_open" \in Refusals
    BY DEF CallPoints, Outcomes, Refusals
  <2>3. /\ call' \in [Calls -> CallState] /\ call'[c].pc = "circuit_open"
        /\ \A d \in Calls \ {c} : call'[d] = call[d]
        /\ \A d \in Calls : Reached(d)'
    BY <1>1, <2>1, <2>2, ProceedKeeps
  <2>4. OlderCalls'
    <3>1. \A d \in Calls : call'[d].pc \in {"send", "wait"} => call[d].pc \in {"send", "wait"}
      BY <2>3
    <3>2. QED
      BY <1>1, <2>1, <3>1, AdmittedShrinks DEF GatewayInv
  <2>5. GatewayTypeOK' /\ BreakerSound'
    BY <1>1, <2>1, <2>3 DEF GatewayInv, GatewayTypeOK, CallState, BreakerSound
  <2>6. QED
    BY <2>3, <2>4, <2>5 DEF GatewayInv
<1>3. CASE ~ (circuit.until > clock)
  <2>1. Sent(c) /\ circuit' = IF circuit.until > 0 THEN Closed ELSE circuit
    BY <1>3 DEF CheckCircuit
  <2>2. /\ call' \in [Calls -> CallState] /\ attempt' \in [Tries -> {"none", "sent", "served"}]
        /\ \A d \in Calls : Reached(d)'
    BY <2>1, SentKeeps
  <2>3. circuit' \in [failures : Nat, until : Nat] /\ ~ (circuit'.until > clock)
    BY <1>1, <1>3, <2>1 DEF Closed
  <2>4. BreakerSound'
    BY <1>1, <2>1, GatewayAssumption DEF GatewayInv, BreakerSound, Closed
  <2>5. GatewayTypeOK'
    BY <1>1, <2>2, <2>3 DEF GatewayInv, GatewayTypeOK, CallState
  <2>6. OlderCalls'
    BY <1>1, <2>3 DEF OlderCalls
  <2>7. QED
    BY <2>2, <2>4, <2>5, <2>6 DEF GatewayInv
<1>4. QED
  BY <1>2, <1>3

(* An attempt that is sent keeps the gateway's invariant. *)
LEMMA BackOffKeeps ==
  ASSUME GatewayInv, NEW c \in Calls, SendAttempt(c)
  PROVE  GatewayInv'
<1>1. /\ clock' = clock /\ window' = window /\ opened' = opened /\ circuit' = circuit
      /\ Sent(c) /\ call[c].pc = "send"
  BY DEF SendAttempt
<1>2. /\ call' \in [Calls -> CallState] /\ attempt' \in [Tries -> {"none", "sent", "served"}]
      /\ \A d \in Calls \ {c} : call'[d] = call[d]
      /\ \A d \in Calls : Reached(d)'
  BY <1>1, SentKeeps
<1>3. OlderCalls'
  <2>1. \A d \in Calls : call'[d].pc \in {"send", "wait"} => call[d].pc \in {"send", "wait"}
    BY <1>1, <1>2
  <2>2. QED
    BY <1>1, <2>1, AdmittedShrinks DEF GatewayInv
<1>4. GatewayTypeOK' /\ BreakerSound'
  BY <1>1, <1>2 DEF GatewayInv, GatewayTypeOK, CallState, BreakerSound
<1>5. QED
  BY <1>2, <1>3, <1>4 DEF GatewayInv

(* An answer of the downstream service keeps the gateway's invariant. *)
LEMMA AnswerKeeps ==
  ASSUME GatewayInv, NEW c \in Calls, AnswerArrives(c)
  PROVE  GatewayInv'
<1>1. /\ clock' = clock /\ window' = window /\ opened' = opened /\ circuit' = Closed
      /\ attempt' = attempt /\ Proceed(c, "relayed")
      /\ attempt[<<c, call[c].try>>] = "served"
  BY DEF AnswerArrives, Current
<1>2. "relayed" \in CallPoints /\ "relayed" \notin {"new", "admitted"} \cup Refusals
  BY DEF CallPoints, Outcomes, Refusals
<1>3. call' \in [Calls -> CallState] /\ \A d \in Calls : Reached(d)'
  BY <1>1, <1>2, ProceedKeeps
<1>4. /\ circuit' \in [failures : Nat, until : Nat]
      /\ circuit'.until = 0 /\ circuit'.failures = 0
  BY <1>1 DEF Closed
<1>5. clock \in Nat
  BY GatewayAssumption DEF GatewayInv, GatewayTypeOK
<1>6. GatewayTypeOK'
  BY <1>1, <1>3, <1>4 DEF GatewayInv, GatewayTypeOK, CallState
<1>7. BreakerSound' /\ OlderCalls'
  BY <1>1, <1>4, <1>5, GatewayAssumption DEF BreakerSound, OlderCalls
<1>8. QED
  BY <1>3, <1>6, <1>7 DEF GatewayInv

\* An attempt that fails for good counts: the circuit opens when there were enough, for
\* everybody on the way, and is opened anew by those who fail after that.
LEMMA FailureKeeps ==
  ASSUME GatewayInv, NEW c \in Calls, AttemptFails(c)
  PROVE  GatewayInv'
<1>1. /\ clock' = clock /\ window' = window /\ attempt' = attempt /\ call[c].pc = "wait"
      /\ clock \in Nat /\ circuit \in [failures : Nat, until : Nat]
      /\ circuit.failures \in Nat /\ circuit.until \in Nat /\ GatewayTypeOK
  BY GatewayAssumption DEF AttemptFails, GatewayInv, GatewayTypeOK
<1>2. CASE call[c].try < Attempts
  <2> DEFINE s == [pc |-> "send", try |-> call[c].try + 1]
  <2>1. /\ call' = [call EXCEPT ![c] = s] /\ circuit' = circuit /\ opened' = opened
    BY <1>2 DEF AttemptFails
  <2>2. /\ s.pc = "send" /\ s.try = call[c].try + 1 /\ s.try \in 1 .. Attempts
        /\ s \in CallState
    <3>1. call[c].try \in Nat /\ call[c].try + 1 \in 1 .. Attempts
      <4>1. call[c].try \in 1 .. Attempts
        BY <1>1, CallOf
      <4>2. Attempts \in Nat
        BY GatewayAssumption
      <4>3. QED
        BY <1>2, <4>1, <4>2
    <3>2. "send" \in CallPoints
      BY DEF CallPoints
    <3>3. QED
      BY <3>1, <3>2 DEF CallState
  <2> HIDE DEF s
  <2>3. /\ call' \in [Calls -> CallState] /\ call'[c] = s
        /\ \A d \in Calls \ {c} : call'[d] = call[d]
    BY <1>1, <2>1, <2>2 DEF GatewayTypeOK, CallState
  <2>4. ASSUME NEW d \in Calls PROVE Reached(d)'
    <3>1. CASE d # c
      BY <1>1, <2>3, <3>1, CallOf, ReachedElsewhere DEF GatewayInv
    <3>2. CASE d = c
      <4>1. /\ \A n \in 1 .. Attempts : attempt[<<c, n>>] # "none" => n <= call[c].try
            /\ call[c].try \in Nat
        BY <1>1, CallOf DEF GatewayInv, Reached
      <4>2. attempt[<<c, s.try>>] = "none"
        BY <2>2, <4>1
      <4>3. \A n \in 1 .. Attempts : attempt[<<c, n>>] # "none" => n <= s.try
        BY <2>2, <4>1
      <4>4. QED
        BY <1>1, <2>2, <2>3, <3>2, <4>2, <4>3 DEF Reached, Refusals
    <3>3. QED
      BY <3>1, <3>2
  <2>5. OlderCalls'
    <3>1. \A d \in Calls : call'[d].pc \in {"send", "wait"} => call[d].pc \in {"send", "wait"}
      BY <1>1, <2>3
    <3>2. QED
      BY <1>1, <2>1, <3>1, AdmittedShrinks DEF GatewayInv
  <2>6. GatewayTypeOK' /\ BreakerSound'
    BY <1>1, <2>1, <2>3 DEF GatewayInv, GatewayTypeOK, CallState, BreakerSound
  <2>7. QED
    BY <2>4, <2>5, <2>6 DEF GatewayInv
<1>3. CASE ~ (call[c].try < Attempts)
  <2> DEFINE n == circuit.failures + 1
             end == IF n >= FailureThreshold THEN clock + OpenFor ELSE circuit.until
  <2>1. /\ Proceed(c, "unreachable") /\ circuit' = [failures |-> n, until |-> end]
        /\ opened' = IF n >= FailureThreshold THEN opened \cup Admitted ELSE opened
    BY <1>3 DEF AttemptFails
  <2>2. n \in Nat /\ end \in Nat
    BY <1>1, GatewayAssumption
  <2>3. "unreachable" \in CallPoints /\ "unreachable" \notin {"new", "admitted"} \cup Refusals
    BY DEF CallPoints, Outcomes, Refusals
  <2>4. /\ call' \in [Calls -> CallState] /\ call'[c].pc = "unreachable"
        /\ \A d \in Calls \ {c} : call'[d] = call[d]
        /\ \A d \in Calls : Reached(d)'
    BY <1>1, <2>1, <2>3, ProceedKeeps
  <2>5. BreakerSound'
    <3>1. end > 0 <=> n >= FailureThreshold
      BY <1>1, GatewayAssumption DEF GatewayInv, BreakerSound
    <3> HIDE DEF n, end
    <3>2. QED
      BY <2>1, <3>1 DEF BreakerSound
  <2>6. Admitted' \subseteq Admitted /\ Admitted \subseteq Calls
    BY <2>4 DEF Admitted
  <2>7. OlderCalls'
    <3>1. CASE n >= FailureThreshold
      BY <2>1, <2>6, <3>1 DEF OlderCalls
    <3>2. CASE ~ (n >= FailureThreshold)
      <4>1. ~ (circuit.until > clock)
        BY <1>1, <3>2, GatewayAssumption DEF GatewayInv, BreakerSound
      <4>2. circuit'.until = circuit.until
        BY <2>1, <3>2
      <4>3. QED
        BY <1>1, <4>1, <4>2 DEF OlderCalls
    <3>3. QED
      BY <3>1, <3>2
  <2>8. GatewayTypeOK'
    <3>1. circuit' \in [failures : Nat, until : Nat] /\ opened' \subseteq Calls
      BY <1>1, <2>1, <2>2, <2>6 DEF GatewayTypeOK
    <3>2. QED
      BY <1>1, <2>4, <3>1 DEF GatewayTypeOK, CallState
  <2>9. QED
    BY <2>4, <2>5, <2>7, <2>8 DEF GatewayInv
<1>4. QED
  BY <1>2, <1>3

(* An attempt that the service has served keeps the gateway's invariant. *)
LEMMA ServeKeeps ==
  ASSUME GatewayInv, NEW a \in Tries, Serve(a)
  PROVE  GatewayInv'
<1>1. /\ clock' = clock /\ window' = window /\ circuit' = circuit /\ call' = call
      /\ opened' = opened /\ attempt[a] = "sent"
      /\ attempt' = [attempt EXCEPT ![a] = "served"]
      /\ attempt \in [Tries -> {"none", "sent", "served"}]
  BY DEF Serve, GatewayInv, GatewayTypeOK
<1>2. attempt' \in [Tries -> {"none", "sent", "served"}]
  BY <1>1
<1>3. \A b \in Tries : /\ attempt[b] = "none" <=> attempt'[b] = "none"
                       /\ attempt[b] = "served" => attempt'[b] = "served"
  BY <1>1
<1>4. ASSUME NEW d \in Calls PROVE Reached(d)'
  <2>1. /\ call[d].try \in 1 .. Attempts /\ <<d, call[d].try>> \in Tries
        /\ \A n \in 1 .. Attempts : <<d, n>> \in Tries
    BY CallOf DEF Tries, GatewayInv
  <2>2. Reached(d)
    BY DEF GatewayInv
  <2>3. QED
    BY <1>1, <1>3, <2>1, <2>2 DEF Reached
<1>5. GatewayTypeOK' /\ BreakerSound' /\ OlderCalls'
  BY <1>1, <1>2 DEF GatewayInv, GatewayTypeOK, BreakerSound, OlderCalls, Admitted
<1>6. QED
  BY <1>4, <1>5 DEF GatewayInv

(* The clock keeps the gateway's invariant. *)
LEMMA TickKeeps ==
  ASSUME GatewayInv, Tick
  PROVE  GatewayInv'
<1>1. /\ window' = window /\ circuit' = circuit /\ call' = call /\ opened' = opened
      /\ attempt' = attempt /\ clock' = clock + 1 /\ clock < MaxTime
      /\ clock \in 1 .. MaxTime + 1 /\ circuit.until \in Nat
  BY DEF Tick, GatewayInv, GatewayTypeOK
<1>2. \A d \in Calls : Reached(d)'
  BY <1>1 DEF GatewayInv, Reached
<1>3. clock' \in 1 .. MaxTime + 1
  BY <1>1, GatewayAssumption
<1>4. GatewayTypeOK' /\ BreakerSound'
  BY <1>1, <1>3 DEF GatewayInv, GatewayTypeOK, BreakerSound
<1>5. OlderCalls'
  BY <1>1 DEF GatewayInv, OlderCalls, Admitted
<1>6. QED
  BY <1>2, <1>4, <1>5 DEF GatewayInv

(* A step of the identity service leaves the gateway alone. *)
LEMMA GatewayStays ==
  ASSUME GatewayInv, UNCHANGED gvars
  PROVE  GatewayInv'
<1>1. \A d \in Calls : Reached(d)'
  BY DEF gvars, GatewayInv, Reached
<1>2. GatewayTypeOK' /\ BreakerSound' /\ OlderCalls'
  BY DEF gvars, GatewayInv, GatewayTypeOK, BreakerSound, OlderCalls, Admitted
<1>3. QED
  BY <1>1, <1>2 DEF GatewayInv

\* Every step of the composition is a step of the gateway or none of its business.
LEMMA AccessMovesGateway == [AccessNext]_avars => [GatewayStep]_gvars
<1> SUFFICES ASSUME [AccessNext]_avars PROVE [GatewayStep]_gvars
  OBVIOUS
<1>1. ASSUME NEW c \in Calls, ClientCalls(c) \/ GatewayMoves(c) \/ Relay(c) PROVE GatewayStep
  BY <1>1 DEF ClientCalls, GatewayMoves, Relay, GatewayStep
<1>2. ASSUME NEW a \in Tries, AttemptReceived(a) \/ JobMoves(a) PROVE [GatewayStep]_gvars
  <2>1. CASE AttemptReceived(a)
    BY <2>1 DEF AttemptReceived
  <2>2. CASE JobMoves(a)
    BY <2>2 DEF JobMoves, GatewayStep
  <2>3. QED
    BY <1>2, <2>1, <2>2
<1>3. CASE TimePasses
  BY <1>3 DEF TimePasses, GatewayStep
<1>4. CASE UNCHANGED avars
  BY <1>4 DEF avars
<1>5. QED
  BY <1>1, <1>2, <1>3, <1>4 DEF AccessNext

(* Every step of the composition keeps the gateway's invariant. *)
LEMMA GatewayStepKeeps == GatewayInv /\ [AccessNext]_avars => GatewayInv'
<1> SUFFICES ASSUME GatewayInv, [GatewayStep]_gvars PROVE GatewayInv'
  BY AccessMovesGateway
<1>1. QED
  BY ArriveKeeps, CircuitKeeps, BackOffKeeps, AnswerKeeps, FailureKeeps, ServeKeeps, TickKeeps,
     GatewayStays DEF GatewayStep

(* The gateway starts in its invariant. *)
LEMMA GatewayInitHolds == GatewayInit => GatewayInv
<1> SUFFICES ASSUME GatewayInit PROVE GatewayInv
  OBVIOUS
<1>1. /\ clock = 1 /\ circuit = Closed /\ circuit.until = 0 /\ circuit.failures = 0
      /\ DOMAIN window = {} /\ opened = {}
  BY DEF GatewayInit, Closed
<1>2. \A c \in Calls : call[c].pc = "new" /\ \A n \in 1 .. Attempts : attempt[<<c, n>>] = "none"
  BY DEF GatewayInit, Tries
<1>3. \A c \in Calls : Reached(c)
  BY <1>2 DEF Reached
<1>4. GatewayTypeOK
  <2>1. call \in [Calls -> [pc : CallPoints, try : 1 .. Attempts]]
    BY GatewayAssumption DEF GatewayInit, CallPoints
  <2>2. clock \in 1 .. MaxTime + 1
    BY <1>1, GatewayAssumption
  <2>3. circuit \in [failures : Nat, until : Nat]
    BY <1>1 DEF Closed
  <2>4. QED
    BY <1>1, <2>1, <2>2, <2>3 DEF GatewayTypeOK, GatewayInit
<1>5. BreakerSound /\ OlderCalls
  BY <1>1, GatewayAssumption DEF BreakerSound, OlderCalls
<1>6. QED
  BY <1>3, <1>4, <1>5 DEF GatewayInv

\* The gateway's invariant holds in every state of the composition.
THEOREM GatewayInductive == AccessSpec => []GatewayInv
BY GatewayInitHolds, GatewayStepKeeps, PTL DEF AccessSpec, AccessInit

\* The two fields of the circuit agree and a call the gateway refused never reached the
\* service, for any interleaving of late answers, failures and the clock in safe_request.
THEOREM GatewayCorrect == AccessSpec => []GatewaySafe
<1>1. GatewayInv => GatewaySafe
  <2> SUFFICES ASSUME GatewayInv, NEW c \in Calls
               PROVE  /\ call[c].pc \in Refusals =>
                           {n \in 1 .. Attempts : attempt[<<c, n>>] # "none"} = {}
                      /\ call[c].pc = "relayed" =>
                           {n \in 1 .. Attempts : attempt[<<c, n>>] = "served"} # {}
    BY DEF GatewayInv, GatewaySafe, RefusedUntouched
  <2>1. Reached(c) /\ call[c].try \in 1 .. Attempts
    BY CallOf DEF GatewayInv
  <2>2. QED
    BY <2>1 DEF Reached
<1>2. QED
  BY <1>1, GatewayInductive, PTL

\* Before its period is over the breaker is closed by nothing but the success of a call
\* that was on the way when it opened: _is_circuit_open lets no other through.
THEOREM ClosedByOlderCalls == AccessSpec => ClosedEarlyByOlderCall
<1>1. GatewayInv /\ [AccessNext]_avars =>
        [ (circuit.until > clock /\ circuit'.until = 0)
          => \E c \in opened : call[c].pc = "wait" /\ call'[c].pc = "relayed" ]_gvars
  <2> SUFFICES ASSUME GatewayInv, GatewayStep, circuit.until > clock, circuit'.until = 0
               PROVE  \E c \in opened : call[c].pc = "wait" /\ call'[c].pc = "relayed"
    BY AccessMovesGateway
  <2>1. /\ GatewayTypeOK /\ clock \in Nat /\ circuit.until \in Nat
    BY GatewayAssumption DEF GatewayInv, GatewayTypeOK
  <2>2. ASSUME circuit' = circuit PROVE FALSE
    BY <2>1, <2>2
  <2>3. CASE \E c \in Calls : Arrive(c) \/ SendAttempt(c)
    BY <2>2, <2>3 DEF Arrive, SendAttempt
  <2>4. CASE \E c \in Calls : CheckCircuit(c)
    BY <2>2, <2>4 DEF CheckCircuit
  <2>5. CASE \E c \in Calls : AttemptFails(c)
    <3>1. PICK c \in Calls : AttemptFails(c)
      BY <2>5
    <3>2. clock + OpenFor > 0
      BY <2>1, GatewayAssumption
    <3>3. circuit' = circuit \/ circuit'.until = clock + OpenFor \/ circuit'.until = circuit.until
      BY <3>1 DEF AttemptFails
    <3>4. QED
      BY <2>1, <2>2, <3>2, <3>3
  <2>6. CASE \E c \in Calls : AnswerArrives(c)
    <3>1. PICK c \in Calls : AnswerArrives(c)
      BY <2>6
    <3>2. c \in opened
      BY <3>1 DEF AnswerArrives, GatewayInv, OlderCalls, Admitted
    <3>3. call'[c].pc = "relayed" /\ call[c].pc = "wait"
      BY <2>1, <3>1, CallProceeds DEF AnswerArrives, Proceed, CallPoints, Outcomes
    <3>4. QED
      BY <3>2, <3>3
  <2>7. CASE (\E a \in Tries : Serve(a)) \/ Tick
    BY <2>2, <2>7 DEF Serve, Tick
  <2>8. QED
    BY <2>3, <2>4, <2>5, <2>6, <2>7 DEF GatewayStep
<1>2. QED
  BY <1>1, GatewayInductive, PTL DEF AccessSpec, ClosedEarlyByOlderCall

-----------------------------------------------------------------------------
(* Sessions.                                                               *)

JobPoints ==
  {"none", "check", "insert", "create", "find", "revoke", "deny", "ok", "refused", "error"}
Ops == {"register", "login", "refresh", "logout"}

TokenRow == [phone : Phones, parent : Nat, active : BOOLEAN]

JobState ==
  [pc : JobPoints, op : Ops, phone : Phones, token : Nat, fresh : Nat, denied : SUBSET Nat]

\* What a request in state s knows of the tables: its token is one of its own phone's,
\* what it goes on to exchange or deny is revoked already, and it exchanges nothing
\* that had been denied when it began.
JobSound(s, table, accounts, gone) ==
  /\ s.token \in DOMAIN table \cup {0} /\ s.fresh \in DOMAIN table \cup {0}
  /\ s.op \in {"register", "login"} => s.token = 0
  /\ s.op \in {"refresh", "logout"} =>
       s.token \in DOMAIN table /\ table[s.token].phone = s.phone
  /\ s.pc \in {"find", "revoke"} => s.op \in {"refresh", "logout"}
  /\ s.pc \in {"check", "insert"} => s.op \in {"register", "login"}
  /\ s.pc = "insert" => s.op = "register"
  /\ s.pc = "create" => s.op # "logout" /\ s.phone \in accounts
  /\ s.pc = "create" /\ s.op = "refresh" => ~ table[s.token].active
  /\ s.pc = "deny" => s.op = "logout" /\ ~ table[s.token].active
  /\ s.denied \subseteq gone
  /\ s.op = "refresh" /\ s.token \in s.denied => s.pc \in {"find", "refused", "error"}
  /\ s.op = "register" /\ s.pc = "ok" => s.phone \in accounts
  /\ s.fresh # 0 => s.pc = "ok" /\ table[s.fresh].phone = s.phone

\* Tokens have an owner, and what a token was exchanged for, and what was denied, is of
\* no more use.
TableSound(table, accounts, gone) ==
  /\ \A n \in DOMAIN table :
       /\ table[n].phone \in accounts
       /\ table[n].parent # 0 =>
            /\ table[n].parent \in DOMAIN table
            /\ ~ table[table[n].parent].active
            /\ table[n].phone = table[table[n].parent].phone
  /\ \A n \in gone : n \in DOMAIN table /\ ~ table[n].active

SessionsTypes ==
  /\ users \subseteq Phones /\ tokens \in Seq(TokenRow)
  /\ denied \subseteq DOMAIN tokens /\ deaths \in Nat
  /\ job \in [Jobs -> JobState]

OneRegistration ==
  \A i, j \in Jobs : Registered(i) /\ Registered(j) /\ job[i].phone = job[j].phone => i = j

SessionsInv ==
  /\ SessionsTypes /\ TableSound(tokens, users, denied)
  /\ \A j \in Jobs : JobSound(job[j], tokens, users, denied)
  /\ OneRegistration

\* Tokens keep their owner and their origin and are never made usable again.
Grown(table, other) ==
  \A i \in DOMAIN table :
    /\ i \in DOMAIN other /\ other[i].phone = table[i].phone
    /\ other[i].parent = table[i].parent /\ (other[i].active => table[i].active)

(* A thread that does not move keeps its part of the sessions invariant while the tables only grow. *)
LEMMA JobKept ==
  ASSUME NEW s, NEW table, NEW other, NEW accounts, NEW later, NEW gone, NEW denials,
         JobSound(s, table, accounts, gone), Grown(table, other),
         accounts \subseteq later, gone \subseteq denials
  PROVE  JobSound(s, other, later, denials)
BY DEF JobSound, Grown

\* One request goes on; the others keep what they know.
LEMMA SessionMoves ==
  ASSUME SessionsInv, NEW j \in Jobs, NEW s \in JobState, job' = [job EXCEPT ![j] = s],
         tokens' \in Seq(TokenRow), Grown(tokens, tokens'),
         users \subseteq users', users' \subseteq Phones, deaths' \in Nat,
         denied \subseteq denied', denied' \subseteq DOMAIN tokens',
         TableSound(tokens', users', denied'), JobSound(s, tokens', users', denied'),
         s.op = "register" /\ s.pc \in {"create", "ok"} =>
           \A i \in Jobs \ {j} : Registered(i) => job[i].phone # s.phone
  PROVE  SessionsInv'
<1>1. job \in [Jobs -> JobState]
  BY DEF SessionsInv, SessionsTypes
<1>2. job'[j] = s /\ \A i \in Jobs \ {j} : job'[i] = job[i]
  BY <1>1
<1>3. SessionsTypes'
  BY <1>1 DEF SessionsTypes
<1>4. ASSUME NEW i \in Jobs PROVE JobSound(job'[i], tokens', users', denied')
  <2>1. CASE i = j
    BY <1>2, <2>1
  <2>2. CASE i # j
    <3>1. JobSound(job[i], tokens, users, denied)
      BY DEF SessionsInv
    <3>2. JobSound(job[i], tokens', users', denied')
      BY <3>1, JobKept
    <3>3. QED
      BY <1>2, <2>2, <3>2
  <2>3. QED
    BY <2>1, <2>2
<1>5. OneRegistration'
  <2>1. Registered(j)' <=> s.op = "register" /\ s.pc \in {"create", "ok"}
    BY <1>2 DEF Registered
  <2>2. \A i \in Jobs \ {j} : Registered(i)' <=> Registered(i)
    BY <1>2 DEF Registered
  <2>3. QED
    BY <1>2, <2>1, <2>2 DEF OneRegistration, SessionsInv
<1>6. QED
  BY <1>3, <1>4, <1>5 DEF SessionsInv

\* A request that goes to another point, and keeps everything else.
LEMMA JobMovesTo ==
  ASSUME SessionsInv, NEW j \in Jobs, NEW point \in JobPoints, To(j, point)
  PROVE  \E s \in JobState :
           /\ job' = [job EXCEPT ![j] = s] /\ s.pc = point /\ s.op = job[j].op
           /\ s.phone = job[j].phone /\ s.token = job[j].token /\ s.fresh = job[j].fresh
           /\ s.denied = job[j].denied
<1>1. job[j] \in JobState
  BY DEF SessionsInv, SessionsTypes
<1> DEFINE s == [job[j] EXCEPT !.pc = point]
<1>2. s \in JobState
  BY <1>1 DEF JobState
<1>3. /\ s.pc = point /\ s.op = job[j].op /\ s.phone = job[j].phone
      /\ s.token = job[j].token /\ s.fresh = job[j].fresh /\ s.denied = job[j].denied
  BY <1>1 DEF JobState
<1>4. job' = [job EXCEPT ![j] = s]
  BY DEF To
<1> HIDE DEF s
<1>5. QED
  BY <1>2, <1>3, <1>4

\* What a request's state and the tables are made of.
LEMMA JobOf ==
  ASSUME SessionsInv, NEW j \in Jobs
  PROVE  /\ job[j] \in JobState /\ JobSound(job[j], tokens, users, denied)
         /\ job[j].phone \in Phones /\ job[j].token \in Nat /\ job[j].fresh \in Nat
         /\ tokens \in Seq(TokenRow) /\ denied \subseteq DOMAIN tokens
         /\ users \subseteq Phones /\ deaths \in Nat
         /\ TableSound(tokens, users, denied)
<1>1. job[j] \in JobState
  BY DEF SessionsInv, SessionsTypes
<1>2. QED
  BY <1>1 DEF SessionsInv, SessionsTypes, JobState

(* A table of tokens that does not change has grown, by nothing. *)
LEMMA SameTokens == Grown(tokens, tokens)
BY DEF Grown

\* A request that begins remembers what is denied by then.
LEMMA BeginKeeps ==
  ASSUME SessionsInv, NEW j \in Jobs, NEW record \in JobState, Begin(j, record),
         record.fresh = 0,
         \/ record.pc = "check" /\ record.op \in {"register", "login"} /\ record.token = 0
         \/ /\ record.pc = "find" /\ record.op \in {"refresh", "logout"}
            /\ record.token \in Token /\ tokens[record.token].phone = record.phone
  PROVE  SessionsInv'
<1> DEFINE s == [record EXCEPT !.denied = denied]
<1>1. /\ job' = [job EXCEPT ![j] = s] /\ users' = users /\ tokens' = tokens
      /\ denied' = denied /\ deaths' = deaths
  BY DEF Begin
<1>2. tokens \in Seq(TokenRow) /\ denied \subseteq Nat
  <2>1. tokens \in Seq(TokenRow) /\ denied \subseteq DOMAIN tokens
    BY JobOf
  <2>2. DOMAIN tokens \subseteq Nat
    BY <2>1
  <2>3. QED
    BY <2>1, <2>2
<1>3. s \in JobState
  BY <1>2 DEF JobState
<1>4. /\ s.pc = record.pc /\ s.op = record.op /\ s.phone = record.phone
      /\ s.token = record.token /\ s.fresh = 0 /\ s.denied = denied
  BY DEF JobState
<1> HIDE DEF s
<1>5. JobSound(s, tokens, users, denied)
  BY <1>4 DEF JobSound, Token
<1>6. s.pc \notin {"create", "ok"}
  BY <1>4
<1>7. QED
  BY <1>1, <1>3, <1>5, <1>6, JobOf, SameTokens, SessionMoves

\* The four requests.
LEMMA RequestKeeps ==
  ASSUME SessionsInv, NEW j \in Jobs,
         \/ \E p \in Phones : Register(j, p) \/ Login(j, p)
         \/ \E k \in Token : Refresh(j, k) \/ Logout(j, k)
  PROVE  SessionsInv'
<1>1. ASSUME NEW p \in Phones, Register(j, p) PROVE SessionsInv'
  <2> DEFINE r == [NoJob EXCEPT !.pc = "check", !.op = "register", !.phone = p]
  <2>1. /\ r \in JobState /\ r.pc = "check" /\ r.op = "register" /\ r.phone = p
        /\ r.token = 0 /\ r.fresh = 0
    BY DEF NoJob, JobState, JobPoints, Ops
  <2>2. Begin(j, r)
    BY <1>1 DEF Register
  <2> HIDE DEF r
  <2>3. QED
    BY <2>1, <2>2, BeginKeeps
<1>2. ASSUME NEW p \in Phones, Login(j, p) PROVE SessionsInv'
  <2> DEFINE r == [NoJob EXCEPT !.pc = "check", !.op = "login", !.phone = p]
  <2>1. /\ r \in JobState /\ r.pc = "check" /\ r.op = "login" /\ r.phone = p
        /\ r.token = 0 /\ r.fresh = 0
    BY DEF NoJob, JobState, JobPoints, Ops
  <2>2. Begin(j, r)
    BY <1>2 DEF Login
  <2> HIDE DEF r
  <2>3. QED
    BY <2>1, <2>2, BeginKeeps
<1>3. ASSUME NEW k \in Token, Refresh(j, k) \/ Logout(j, k) PROVE SessionsInv'
  <2>1. PICK op \in {"refresh", "logout"} :
          Begin(j, [NoJob EXCEPT !.pc = "find", !.op = op, !.token = k,
                                 !.phone = tokens[k].phone])
    BY <1>3 DEF Refresh, Logout
  <2> DEFINE p == tokens[k].phone
             r == [NoJob EXCEPT !.pc = "find", !.op = op, !.token = k, !.phone = p]
  <2>2. k \in Nat /\ p \in Phones
    <3>1. tokens \in Seq(TokenRow)
      BY DEF SessionsInv, SessionsTypes
    <3>2. k \in Nat /\ tokens[k] \in TokenRow
      BY <3>1 DEF Token
    <3>3. QED
      BY <3>2 DEF TokenRow
  <2>3. Begin(j, r)
    BY <2>1
  <2> HIDE DEF p
  <2>4. /\ r \in JobState /\ r.pc = "find" /\ r.op = op /\ r.phone = p
        /\ r.token = k /\ r.fresh = 0
    BY <2>2 DEF NoJob, JobState, JobPoints, Ops
  <2> HIDE DEF r
  <2>5. QED
    BY <2>3, <2>4, BeginKeeps DEF p
<1>4. QED
  BY <1>1, <1>2, <1>3

\* A step that changes no table but users, for the better.
LEMMA PointKeeps ==
  ASSUME SessionsInv, NEW j \in Jobs, NEW point \in JobPoints \ {"none", "ok"}, To(j, point),
         tokens' = tokens, denied' = denied, deaths' \in Nat,
         users \subseteq users', users' \subseteq Phones,
         point \in {"find", "revoke", "deny"} => job[j].op \in {"refresh", "logout"},
         point \in {"check", "insert"} => job[j].op \in {"register", "login"},
         point = "insert" => job[j].op = "register",
         point = "create" => job[j].op # "logout" /\ job[j].phone \in users',
         point = "create" /\ job[j].op = "refresh" =>
           ~ Active(job[j].token) /\ job[j].token \notin job[j].denied,
         point = "create" /\ job[j].op = "register" =>
           \A i \in Jobs \ {j} : Registered(i) => job[i].phone # job[j].phone,
         point = "deny" => job[j].op = "logout" /\ ~ Active(job[j].token),
         job[j].op = "refresh" /\ job[j].token \in job[j].denied =>
           point \in {"find", "refused", "error"},
         job[j].fresh = 0
  PROVE  SessionsInv'
<1>1. PICK s \in JobState :
         /\ job' = [job EXCEPT ![j] = s] /\ s.pc = point /\ s.op = job[j].op
         /\ s.phone = job[j].phone /\ s.token = job[j].token /\ s.fresh = job[j].fresh
         /\ s.denied = job[j].denied
  BY JobMovesTo
<1>2. JobSound(job[j], tokens, users, denied)
  BY JobOf
<1>3. JobSound(s, tokens, users', denied)
  BY <1>1, <1>2 DEF JobSound, Active
<1>4. TableSound(tokens, users', denied)
  BY JobOf DEF TableSound
<1>5. QED
  BY <1>1, <1>3, <1>4, JobOf, SameTokens, SessionMoves

(* The look for the phone keeps the sessions invariant. *)
LEMMA CheckPhoneKeeps ==
  ASSUME SessionsInv, NEW j \in Jobs, CheckPhone(j)
  PROVE  SessionsInv'
<1>1. /\ job[j].pc = "check" /\ job[j].op \in {"register", "login"} /\ job[j].fresh = 0
      /\ job[j].phone \in Phones
  BY JobOf DEF CheckPhone, At, JobSound
<1>2. PICK point \in {"insert", "create", "refused"} :
         /\ To(j, point)
         /\ point = "insert" => job[j].op = "register"
         /\ point = "create" => job[j].op = "login" /\ job[j].phone \in users
  <2>1. CASE job[j].op = "register" /\ job[j].phone \notin users
    BY <2>1 DEF CheckPhone
  <2>2. CASE job[j].op = "login" /\ job[j].phone \in users
    BY <2>2 DEF CheckPhone
  <2>3. CASE /\ ~ (job[j].op = "register" /\ job[j].phone \notin users)
             /\ ~ (job[j].op = "login" /\ job[j].phone \in users)
    BY <2>3 DEF CheckPhone
  <2>4. QED
    BY <2>1, <2>2, <2>3
<1>3. users' = users /\ tokens' = tokens /\ denied' = denied /\ deaths' = deaths
  BY DEF CheckPhone
<1>4. point \in JobPoints \ {"none", "ok"}
  BY DEF JobPoints
<1>5. QED
  BY <1>1, <1>2, <1>3, <1>4, JobOf, PointKeeps

\* The users' table has one row per phone: of two registrations that saw none, one fails.
LEMMA InsertKeeps ==
  ASSUME SessionsInv, NEW j \in Jobs, InsertUser(j)
  PROVE  SessionsInv'
<1>1. /\ job[j].pc = "insert" /\ job[j].op = "register" /\ job[j].fresh = 0
      /\ job[j].phone \in Phones
  BY JobOf DEF InsertUser, At, JobSound
<1>2. PICK point \in {"error", "create"} :
         To(j, point) /\ (point = "create" => job[j].phone \notin users)
  BY DEF InsertUser
<1>3. /\ users' = users \cup {job[j].phone} /\ tokens' = tokens /\ denied' = denied
      /\ deaths' = deaths
  BY DEF InsertUser
<1>4. point \in JobPoints \ {"none", "ok"}
  BY DEF JobPoints
<1>5. ASSUME point = "create", NEW i \in Jobs \ {j}, Registered(i)
      PROVE  job[i].phone # job[j].phone
  <2>1. job[i].phone \in users
    BY <1>5, JobOf DEF Registered, JobSound
  <2>2. QED
    BY <1>2, <1>5, <2>1
<1>6. QED
  BY <1>1, <1>2, <1>3, <1>4, <1>5, JobOf, PointKeeps

(* The look for the refresh token keeps the sessions invariant. *)
LEMMA FindKeeps ==
  ASSUME SessionsInv, NEW j \in Jobs, FindToken(j)
  PROVE  SessionsInv'
<1>1. /\ job[j].pc = "find" /\ job[j].op \in {"refresh", "logout"} /\ job[j].fresh = 0
      /\ job[j].denied \subseteq denied
  BY JobOf DEF FindToken, At, JobSound
<1>2. PICK point \in {"revoke", "deny", "refused"} :
         /\ To(j, point)
         /\ point = "revoke" => Active(job[j].token)
         /\ point = "deny" => job[j].op = "logout" /\ ~ Active(job[j].token)
  <2>1. CASE Active(job[j].token)
    BY <2>1 DEF FindToken
  <2>2. CASE ~ Active(job[j].token) /\ job[j].op = "logout"
    BY <2>2 DEF FindToken
  <2>3. CASE ~ Active(job[j].token) /\ job[j].op # "logout"
    BY <2>3 DEF FindToken
  <2>4. QED
    BY <2>1, <2>2, <2>3
<1>3. users' = users /\ tokens' = tokens /\ denied' = denied /\ deaths' = deaths
  BY DEF FindToken
<1>4. point \in JobPoints \ {"none", "ok"}
  BY DEF JobPoints
<1>5. job[j].token \in job[j].denied => ~ Active(job[j].token)
  BY <1>1, JobOf DEF TableSound, Active
<1>6. QED
  BY <1>1, <1>2, <1>3, <1>4, <1>5, JobOf, PointKeeps

\* The token is of no more use before anything follows from it.
LEMMA RevokeKeeps ==
  ASSUME SessionsInv, NEW j \in Jobs, RevokeToken(j)
  PROVE  SessionsInv'
<1> DEFINE k == job[j].token
           point == IF job[j].op = "logout" THEN "deny" ELSE "create"
<1>1. /\ job[j].pc = "revoke" /\ job[j].op \in {"refresh", "logout"} /\ job[j].fresh = 0
      /\ k \in DOMAIN tokens /\ tokens[k].phone = job[j].phone
      /\ JobSound(job[j], tokens, users, denied)
  BY JobOf DEF RevokeToken, At, JobSound
<1>2. /\ tokens' = [tokens EXCEPT ![k].active = FALSE] /\ users' = users
      /\ denied' = denied /\ deaths' = deaths /\ To(j, point) /\ point \in JobPoints
  BY DEF RevokeToken, JobPoints
<1>3. tokens \in Seq(TokenRow)
  BY JobOf
<1> HIDE DEF k
<1>4. /\ tokens' \in Seq(TokenRow) /\ DOMAIN tokens' = DOMAIN tokens
      /\ \A n \in DOMAIN tokens : /\ tokens'[n].phone = tokens[n].phone
                                  /\ tokens'[n].parent = tokens[n].parent
                                  /\ tokens'[n].active => tokens[n].active
      /\ ~ tokens'[k].active
  <2>1. /\ k \in DOMAIN tokens /\ tokens[k] \in TokenRow
        /\ \A n \in DOMAIN tokens : tokens[n] \in TokenRow
    BY <1>1, <1>3
  <2> DEFINE row == [tokens[k] EXCEPT !.active = FALSE]
  <2>2. /\ row \in TokenRow /\ row.phone = tokens[k].phone
        /\ row.parent = tokens[k].parent /\ row.active = FALSE
    BY <2>1 DEF TokenRow
  <2>3. tokens' = [tokens EXCEPT ![k] = row]
    BY <1>2
  <2> HIDE DEF row
  <2>4. /\ DOMAIN tokens' = DOMAIN tokens
        /\ \A n \in DOMAIN tokens : tokens'[n] = IF n = k THEN row ELSE tokens[n]
    BY <2>3
  <2>5. tokens' \in Seq(TokenRow)
    BY <1>3, <2>1, <2>2, <2>3
  <2>6. QED
    BY <2>1, <2>2, <2>4, <2>5
<1>5. Grown(tokens, tokens')
  BY <1>4 DEF Grown
<1>6. TableSound(tokens, users, denied)
  BY JobOf
<1>7. TableSound(tokens', users, denied)
  BY <1>4, <1>6 DEF TableSound
<1>8. job[j].phone \in users
  BY <1>1, <1>6 DEF TableSound
<1>9. PICK s \in JobState :
         /\ job' = [job EXCEPT ![j] = s] /\ s.pc = point /\ s.op = job[j].op
         /\ s.phone = job[j].phone /\ s.token = k /\ s.fresh = job[j].fresh
         /\ s.denied = job[j].denied
  BY <1>2, JobMovesTo DEF k
<1>10. JobSound(s, tokens', users, denied)
  BY <1>1, <1>4, <1>8, <1>9 DEF JobSound, k
<1>11. s.op # "register"
  BY <1>1, <1>9
<1>12. QED
  BY <1>2, <1>4, <1>5, <1>7, <1>9, <1>10, <1>11, JobOf, SessionMoves

\* The new token is its request's own.
LEMMA CreateKeeps ==
  ASSUME SessionsInv, NEW j \in Jobs, CreateToken(j)
  PROVE  SessionsInv'
<1> DEFINE row == [phone |-> job[j].phone, parent |-> job[j].token, active |-> TRUE]
           n == Len(tokens')
           s == [job[j] EXCEPT !.pc = "ok", !.fresh = n]
<1>1. /\ job[j].pc = "create" /\ JobSound(job[j], tokens, users, denied)
      /\ job[j] \in JobState /\ job[j].phone \in Phones /\ job[j].token \in Nat
      /\ tokens \in Seq(TokenRow) /\ job \in [Jobs -> JobState]
      /\ TableSound(tokens, users, denied)
  BY JobOf DEF CreateToken, At, SessionsInv, SessionsTypes
<1>2. row \in TokenRow /\ row.phone = job[j].phone /\ row.parent = job[j].token
  BY <1>1 DEF TokenRow
<1>3. /\ tokens' = Append(tokens, row) /\ users' = users /\ denied' = denied
      /\ deaths' = deaths
  BY DEF CreateToken
<1>4. job' = [job EXCEPT ![j] = s]
  BY <1>1 DEF CreateToken
<1> HIDE DEF row
<1>5. /\ tokens' \in Seq(TokenRow) /\ n = Len(tokens) + 1 /\ Len(tokens) \in Nat
      /\ DOMAIN tokens = 1 .. Len(tokens) /\ DOMAIN tokens' = 1 .. n
      /\ tokens'[n] = row /\ \A i \in DOMAIN tokens : tokens'[i] = tokens[i]
  BY <1>1, <1>2, <1>3
<1>6. n \in Nat /\ "ok" \in JobPoints
  BY <1>5 DEF JobPoints
<1> HIDE DEF n
<1>7. /\ s \in JobState /\ s.pc = "ok" /\ s.op = job[j].op /\ s.phone = job[j].phone
      /\ s.token = job[j].token /\ s.fresh = n /\ s.denied = job[j].denied
  <2>1. s \in JobState
    BY <1>1, <1>6 DEF JobState
  <2>2. s.pc = "ok" /\ s.fresh = n /\ s.op = job[j].op /\ s.phone = job[j].phone
    BY <1>1 DEF JobState
  <2>3. s.token = job[j].token /\ s.denied = job[j].denied
    BY <1>1 DEF JobState
  <2>4. QED
    BY <2>1, <2>2, <2>3
<1> HIDE DEF s
<1>8. Grown(tokens, tokens')
  BY <1>5 DEF Grown
<1>9. TableSound(tokens', users, denied)
  <2>1. job[j].phone \in users /\ job[j].token \in DOMAIN tokens \cup {0}
    BY <1>1 DEF JobSound
  <2>2. job[j].token # 0 => /\ ~ tokens[job[j].token].active
                            /\ tokens[job[j].token].phone = job[j].phone
    BY <1>1 DEF JobSound, JobState, Ops
  <2>3. ASSUME NEW i \in DOMAIN tokens'
        PROVE  /\ tokens'[i].phone \in users
               /\ tokens'[i].parent # 0 =>
                    /\ tokens'[i].parent \in DOMAIN tokens'
                    /\ ~ tokens'[tokens'[i].parent].active
                    /\ tokens'[i].phone = tokens'[tokens'[i].parent].phone
    <3>1. CASE i = n
      BY <3>1, <1>2, <1>5, <2>1, <2>2
    <3>2. CASE i # n
      <4>1. i \in DOMAIN tokens /\ tokens'[i] = tokens[i]
        BY <3>2, <1>5
      <4>2. tokens[i].parent # 0 => /\ tokens[i].parent \in DOMAIN tokens
                                    /\ ~ tokens[tokens[i].parent].active
                                    /\ tokens[i].phone = tokens[tokens[i].parent].phone
        BY <4>1, <1>1 DEF TableSound
      <4>3. QED
        BY <4>1, <4>2, <1>1, <1>5 DEF TableSound
    <3>3. QED
      BY <3>1, <3>2
  <2>4. QED
    BY <2>3, <1>1, <1>5 DEF TableSound
<1>10. JobSound(s, tokens', users, denied)
  <2>1. JobSound(job[j], tokens', users, denied)
    BY <1>1, <1>8, JobKept
  <2>2. tokens'[n].phone = job[j].phone /\ n \in DOMAIN tokens'
    BY <1>2, <1>5
  <2>3. QED
    BY <1>1, <1>7, <2>1, <2>2 DEF JobSound
<1>11. s.op = "register" => \A i \in Jobs \ {j} : Registered(i) => job[i].phone # s.phone
  BY <1>1, <1>7 DEF SessionsInv, OneRegistration, Registered
<1>12. DOMAIN tokens \subseteq DOMAIN tokens'
  BY <1>5
<1>13. QED
  BY <1>3, <1>4, <1>5, <1>7, <1>8, <1>9, <1>10, <1>11, <1>12, JobOf, SessionMoves

(* Putting an access token on the denylist keeps the sessions invariant. *)
LEMMA DenyKeeps ==
  ASSUME SessionsInv, NEW j \in Jobs, DenyToken(j)
  PROVE  SessionsInv'
<1>1. /\ job[j].pc = "deny" /\ job[j].op = "logout" /\ job[j].token \in DOMAIN tokens
      /\ ~ tokens[job[j].token].active /\ JobSound(job[j], tokens, users, denied)
  BY JobOf DEF DenyToken, At, JobSound
<1>2. PICK point \in {"error", "ok"} : To(j, point)
  BY DEF DenyToken
<1>3. /\ denied' = denied \cup {job[j].token} /\ tokens' = tokens /\ users' = users
      /\ deaths' = deaths
  BY DEF DenyToken
<1>4. PICK s \in JobState :
         /\ job' = [job EXCEPT ![j] = s] /\ s.pc = point /\ s.op = job[j].op
         /\ s.phone = job[j].phone /\ s.token = job[j].token /\ s.fresh = job[j].fresh
         /\ s.denied = job[j].denied
  BY <1>2, JobMovesTo DEF JobPoints
<1>5. TableSound(tokens, users, denied')
  BY <1>1, <1>3, JobOf DEF TableSound
<1>6. JobSound(s, tokens, users, denied')
  BY <1>1, <1>2, <1>3, <1>4 DEF JobSound
<1>7. denied' \subseteq DOMAIN tokens /\ denied \subseteq denied' /\ s.op # "register"
  BY <1>1, <1>3, <1>4, JobOf
<1>8. QED
  BY <1>3, <1>4, <1>5, <1>6, <1>7, JobOf, SameTokens, SessionMoves

(* The death of a thread keeps the sessions invariant. *)
LEMMA DeathKeeps ==
  ASSUME SessionsInv, NEW j \in Jobs, JobDies(j)
  PROVE  SessionsInv'
<1>1. job[j].fresh = 0 /\ "error" \in JobPoints \ {"none", "ok"}
  BY JobOf DEF JobDies, Ended, JobSound, JobPoints
<1>2. /\ To(j, "error") /\ users' = users /\ tokens' = tokens /\ denied' = denied
      /\ deaths' \in Nat
  BY JobOf DEF JobDies
<1>3. QED
  BY <1>1, <1>2, JobOf, PointKeeps

\* One step of one request.
LEMMA JobStepKeeps ==
  ASSUME SessionsInv, NEW j \in Jobs, JobStep(j) \/ JobDies(j)
  PROVE  SessionsInv'
BY CheckPhoneKeeps, InsertKeeps, FindKeeps, RevokeKeeps, CreateKeeps, DenyKeeps, DeathKeeps
DEF JobStep

(* A step of the gateway alone leaves the identity service alone. *)
LEMMA SessionsStay ==
  ASSUME SessionsInv, UNCHANGED svars
  PROVE  SessionsInv'
<1>1. \A j \in Jobs : JobSound(job'[j], tokens', users', denied')
  BY DEF svars, SessionsInv
<1>2. SessionsTypes' /\ TableSound(tokens', users', denied') /\ OneRegistration'
  BY DEF svars, SessionsInv, SessionsTypes, OneRegistration, Registered
<1>3. QED
  BY <1>1, <1>2 DEF SessionsInv

\* One session per account at the start.
LEMMA SessionsInitHolds == SessionsInit => SessionsInv
<1> SUFFICES ASSUME SessionsInit PROVE SessionsInv
  OBVIOUS
<1> DEFINE N == Cardinality(Accounts)
<1>1. N \in Nat
  BY SessionsAssumption, FS_CardinalityType
<1>2. \E f \in [1 .. N -> Accounts] : IsInjective(f)
  <2>1. PICK f : f \in Bijection(1 .. N, Accounts)
    BY SessionsAssumption, FS_CardinalityType DEF ExistsBijection
  <2>2. f \in [1 .. N -> Accounts] /\ IsInjective(f)
    BY <2>1 DEF Bijection, Injection, IsInjective
  <2>3. QED
    BY <2>2
<1>3. SetToSeq(Accounts) \in [1 .. N -> Accounts]
  BY <1>2 DEF SetToSeq
<1>4. tokens = [i \in 1 .. N |-> [phone |-> SetToSeq(Accounts)[i], parent |-> 0, active |-> TRUE]]
  BY DEF SessionsInit
<1> HIDE DEF N
<1>5. /\ tokens \in Seq(TokenRow) /\ DOMAIN tokens = 1 .. N
      /\ \A i \in DOMAIN tokens : tokens[i].phone \in Accounts /\ tokens[i].parent = 0
  <2>1. \A i \in 1 .. N : SetToSeq(Accounts)[i] \in Accounts /\ SetToSeq(Accounts)[i] \in Phones
    BY <1>3, SessionsAssumption
  <2>2. tokens \in [1 .. N -> TokenRow]
    BY <1>4, <2>1 DEF TokenRow
  <2>3. QED
    BY <1>1, <1>4, <2>1, <2>2
<1>6. /\ NoJob \in JobState /\ NoJob.pc = "none" /\ NoJob.op = "login" /\ NoJob.token = 0
      /\ NoJob.fresh = 0 /\ NoJob.denied = {}
  BY SessionsAssumption DEF NoJob, JobState, JobPoints, Ops
<1>7. /\ users = Accounts /\ denied = {} /\ deaths = 0 /\ job = [j \in Jobs |-> NoJob]
  BY DEF SessionsInit
<1>8. \A j \in Jobs : JobSound(job[j], tokens, users, denied)
  BY <1>6, <1>7 DEF JobSound
<1>9. SessionsTypes
  BY <1>5, <1>6, <1>7, SessionsAssumption DEF SessionsTypes
<1>10. TableSound(tokens, users, denied)
  BY <1>5, <1>7 DEF TableSound
<1>11. OneRegistration
  BY <1>6, <1>7 DEF OneRegistration, Registered
<1>12. QED
  BY <1>8, <1>9, <1>10, <1>11 DEF SessionsInv

-----------------------------------------------------------------------------
(* The composition.                                                        *)

\* A call's wish is a request the client can make: with a phone, or a token it holds.
WishSound(w, table) ==
  /\ w.op \in Ops /\ w.phone \in Phones
  /\ w.op \in {"refresh", "logout"} =>
       w.token \in DOMAIN table /\ table[w.token].phone = w.phone

\* A request thread belongs to an attempt that was sent, works for its call's wish and
\* ends with the answer.
Linked(a) ==
  /\ attempt[a] = "none" => job[a].pc = "none"
  /\ attempt[a] = "sent" => ~ Ended(a)
  /\ job[a].pc # "none" => job[a].phone = wish[a[1]].phone

Wishes ==
  /\ wish \in [Calls -> [op : Ops, phone : Phones, token : Nat]]
  /\ \A c \in Calls : call[c].pc # "new" => WishSound(wish[c], tokens)

AccessInv ==
  /\ known \subseteq DOMAIN tokens /\ Wishes
  /\ \A a \in Tries : Linked(a)
  /\ HeldTokensExist /\ UnknownSessions

Invariants == GatewayInv /\ SessionsInv /\ AccessInv

\* Only a thread that exchanges or creates a session writes rows, and never over others.
LEMMA JobStepGrows ==
  ASSUME SessionsInv, NEW j \in Jobs, JobStep(j) \/ JobDies(j)
  PROVE  /\ Grown(tokens, tokens')
         /\ job[j].fresh = 0 /\ job[j].pc # "none" /\ job'[j].pc # "none"
         /\ job'[j].phone = job[j].phone
         /\ \A i \in Jobs \ {j} : job'[i] = job[i]
         /\ DOMAIN tokens' \subseteq DOMAIN tokens \cup {job'[j].fresh}
         /\ job'[j].fresh = 0 \/ Ended(j)'
<1>1. /\ job \in [Jobs -> JobState] /\ job[j] \in JobState
      /\ JobSound(job[j], tokens, users, denied) /\ tokens \in Seq(TokenRow)
      /\ \A n \in DOMAIN tokens : tokens[n] \in TokenRow
  <2>1. tokens \in Seq(TokenRow)
    BY JobOf
  <2>2. QED
    BY <2>1, JobOf DEF SessionsInv, SessionsTypes
<1>2. job[j].pc \notin {"none", "ok", "refused", "error"}
  BY DEF JobStep, CheckPhone, InsertUser, FindToken, RevokeToken, CreateToken, DenyToken, At,
         JobDies, Ended
<1>3. job[j].fresh = 0
  BY <1>1, <1>2 DEF JobSound
<1>4. ASSUME NEW point \in JobPoints \ {"none"}, To(j, point)
      PROVE  /\ job'[j].pc # "none" /\ job'[j].phone = job[j].phone
             /\ job'[j].fresh = job[j].fresh /\ \A i \in Jobs \ {j} : job'[i] = job[i]
  <2>1. PICK s \in JobState :
           /\ job' = [job EXCEPT ![j] = s] /\ s.pc = point /\ s.phone = job[j].phone
           /\ s.fresh = job[j].fresh
    BY <1>4, JobMovesTo
  <2>2. QED
    BY <1>1, <2>1
<1>5. CASE CreateToken(j)
  <2> DEFINE n == Len(tokens')
             s == [job[j] EXCEPT !.pc = "ok", !.fresh = n]
             row == [phone |-> job[j].phone, parent |-> job[j].token, active |-> TRUE]
  <2>1. job' = [job EXCEPT ![j] = s]
    BY <1>1, <1>5 DEF CreateToken
  <2>2. row \in TokenRow
    BY JobOf DEF TokenRow
  <2>3. tokens' = Append(tokens, row)
    BY <1>5 DEF CreateToken
  <2> HIDE DEF row
  <2>4. /\ n = Len(tokens) + 1 /\ DOMAIN tokens = 1 .. Len(tokens) /\ DOMAIN tokens' = 1 .. n
        /\ Len(tokens) \in Nat /\ \A i \in DOMAIN tokens : tokens'[i] = tokens[i]
    BY <1>1, <2>2, <2>3
  <2> HIDE DEF n
  <2>5. s.pc = "ok" /\ s.fresh = n /\ s.phone = job[j].phone
    BY <1>1 DEF JobState
  <2> HIDE DEF s
  <2>6. job'[j] = s /\ \A i \in Jobs \ {j} : job'[i] = job[i]
    BY <1>1, <2>1
  <2>7. Grown(tokens, tokens')
    BY <2>4 DEF Grown
  <2>8. DOMAIN tokens' \subseteq DOMAIN tokens \cup {n}
    BY <2>4
  <2>9. QED
    BY <1>2, <1>3, <2>5, <2>6, <2>7, <2>8 DEF Ended
<1>6. CASE RevokeToken(j)
  <2>1. PICK point \in JobPoints \ {"none"} : To(j, point)
    BY <1>6 DEF RevokeToken, JobPoints
  <2>2. tokens' = [tokens EXCEPT ![job[j].token].active = FALSE]
    BY <1>6 DEF RevokeToken
  <2>3. DOMAIN tokens' = DOMAIN tokens
    BY <2>2
  <2>4. ASSUME NEW n \in DOMAIN tokens
        PROVE  /\ tokens'[n].phone = tokens[n].phone /\ tokens'[n].parent = tokens[n].parent
               /\ tokens'[n].active => tokens[n].active
    <3>1. CASE n = job[j].token
      <4> DEFINE row == [tokens[n] EXCEPT !.active = FALSE]
      <4>1. /\ row.phone = tokens[n].phone /\ row.parent = tokens[n].parent
            /\ row.active = FALSE
        BY <1>1 DEF TokenRow
      <4>2. tokens'[n] = row
        BY <2>2, <3>1
      <4> HIDE DEF row
      <4>3. QED
        BY <4>1, <4>2
    <3>2. CASE n # job[j].token
      BY <2>2, <3>2
    <3>3. QED
      BY <3>1, <3>2
  <2>5. QED
    BY <1>2, <1>3, <1>4, <2>1, <2>3, <2>4 DEF Grown
<1>7. CASE CheckPhone(j) \/ InsertUser(j) \/ FindToken(j) \/ DenyToken(j) \/ JobDies(j)
  <2>1. PICK point \in JobPoints \ {"none"} : To(j, point)
    <3>1. \E point \in {"insert", "create", "revoke", "deny", "ok", "refused", "error"} :
            To(j, point)
      BY <1>7 DEF CheckPhone, InsertUser, FindToken, DenyToken, JobDies
    <3>2. QED
      BY <3>1 DEF JobPoints
  <2>2. tokens' = tokens
    BY <1>7 DEF CheckPhone, InsertUser, FindToken, DenyToken, JobDies
  <2>3. QED
    BY <1>2, <1>3, <1>4, <2>1, <2>2, SameTokens
<1>8. QED
  BY <1>5, <1>6, <1>7 DEF JobStep

\* A request that holds a token has ended well, and its attempt was sent.
LEMMA Holders ==
  ASSUME Invariants, NEW a \in Tries, job[a].fresh # 0
  PROVE  /\ job[a].pc = "ok" /\ Ended(a) /\ attempt[a] = "served"
         /\ job[a].fresh \in DOMAIN tokens
         /\ tokens[job[a].fresh].phone = wish[a[1]].phone
<1>1. JobSound(job[a], tokens, users, denied)
  BY JobsAreTries DEF Invariants, SessionsInv
<1>2. job[a].pc = "ok" /\ Ended(a) /\ job[a].fresh \in DOMAIN tokens
      /\ tokens[job[a].fresh].phone = job[a].phone
  BY <1>1 DEF JobSound, Ended
<1>3. Linked(a) /\ attempt[a] \in {"none", "sent", "served"}
  BY DEF Invariants, AccessInv, GatewayInv, GatewayTypeOK
<1>4. QED
  BY <1>2, <1>3 DEF Linked

\* Where the call of an attempt that was sent may be.
LEMMA SentCalls ==
  ASSUME GatewayInv, NEW a \in Tries, attempt[a] # "none"
  PROVE  /\ a[1] \in Calls /\ a[2] \in 1 .. Attempts /\ a = <<a[1], a[2]>>
         /\ a[2] <= call[a[1]].try /\ call[a[1]].try \in Nat
         /\ call[a[1]].pc \in {"send", "wait", "unreachable", "relayed"}
         /\ call[a[1]].pc = "send" => a[2] < call[a[1]].try
         /\ call[a[1]].pc = "relayed" => attempt[<<a[1], call[a[1]].try>>] = "served"
<1>1. a[1] \in Calls /\ a[2] \in 1 .. Attempts /\ a = <<a[1], a[2]>>
  BY DEF Tries
<1>2. Reached(a[1])
  BY <1>1 DEF GatewayInv
<1>3. call[a[1]].pc \in CallPoints /\ call[a[1]].try \in Nat
  BY <1>1, CallOf DEF GatewayInv
<1>4. a[2] <= call[a[1]].try
  BY <1>1, <1>2 DEF Reached
<1>5. call[a[1]].pc \notin {"new", "admitted"} \cup Refusals
  BY <1>1, <1>2 DEF Reached
<1>6. call[a[1]].pc \in {"send", "wait", "unreachable", "relayed"}
  BY <1>3, <1>5 DEF CallPoints, Outcomes
<1>7. call[a[1]].pc = "send" => a[2] # call[a[1]].try
  BY <1>1, <1>2 DEF Reached
<1>8. call[a[1]].pc = "relayed" => attempt[<<a[1], call[a[1]].try>>] = "served"
  BY <1>2 DEF Reached
<1>9. QED
  BY <1>1, <1>3, <1>4, <1>6, <1>7, <1>8

\* Row numbers start at 1.
LEMMA TokensAreNumbers ==
  ASSUME SessionsInv
  PROVE  0 \notin DOMAIN tokens
<1>1. tokens \in Seq(TokenRow)
  BY DEF SessionsInv, SessionsTypes
<1>2. DOMAIN tokens = 1 .. Len(tokens)
  BY <1>1
<1>3. QED
  BY <1>2

(* The rows of the token table are numbered from one. *)
LEMMA TokensFromOne ==
  ASSUME SessionsInv'
  PROVE  0 \notin DOMAIN tokens'
<1>1. tokens' \in Seq(TokenRow)
  BY DEF SessionsInv, SessionsTypes
<1>2. DOMAIN tokens' = 1 .. Len(tokens')
  BY <1>1
<1>3. QED
  BY <1>2

\* Tokens that were handed out keep their witness.
LEMMA HeldKept ==
  ASSUME Invariants, Grown(tokens, tokens'),
         \A a \in Tries : job[a].fresh # 0 => job'[a] = job[a],
         \A c \in Calls : call[c].pc = "relayed" => call'[c] = call[c] /\ wish'[c] = wish[c],
         NEW k \in known \ FirstTokens
  PROVE  \E c \in Calls :
           /\ call'[c].pc = "relayed" /\ job'[<<c, call'[c].try>>].fresh = k
           /\ wish'[c].phone = tokens'[k].phone
<1>1. PICK c \in Calls : /\ call[c].pc = "relayed" /\ job[Current(c)].fresh = k
                         /\ wish[c].phone = tokens[k].phone
  BY DEF Invariants, AccessInv, HeldTokensExist
<1>2. k \in DOMAIN tokens /\ k # 0
  BY TokensAreNumbers DEF Invariants, AccessInv
<1>3. Current(c) = <<c, call[c].try>> /\ Current(c) \in Tries
  BY CallOf DEF Current, Invariants, GatewayInv
<1>4. job'[Current(c)] = job[Current(c)] /\ call'[c] = call[c] /\ wish'[c] = wish[c]
  BY <1>1, <1>2, <1>3
<1>5. tokens'[k].phone = tokens[k].phone
  BY <1>2 DEF Grown
<1>6. QED
  BY <1>1, <1>3, <1>4, <1>5

\* Why the session of an attempt may be unknown to its client.
Excused(a) ==
  \/ ~ Answered(a[1])
  \/ call[a[1]].pc = "unreachable"
  \/ call[a[1]].pc = "relayed" /\ call[a[1]].try > a[2]

\* Sessions stay excused while their request's call stays where it is.
LEMMA UnknownKept ==
  ASSUME Invariants, NEW k \in DOMAIN tokens \ known,
         \A a \in Tries : job[a].fresh # 0 => job'[a] = job[a],
         \A a \in Tries : job[a].fresh # 0 /\ job[a].fresh \notin known' /\ Excused(a) =>
           Excused(a)',
         k \notin known'
  PROVE  \E a \in Tries : job'[a].fresh = k /\ Excused(a)'
<1>1. PICK a \in Tries : job[a].fresh = k /\ Excused(a)
  BY JobsAreTries DEF Invariants, AccessInv, UnknownSessions, Excused, Token
<1>2. k # 0
  BY TokensAreNumbers DEF Invariants
<1>3. QED
  BY <1>1, <1>2

(* If an unfinished try explains each token its client does not know, UnknownSessions holds. *)
LEMMA UnknownIs ==
  ASSUME \A k \in DOMAIN tokens' \ known' : \E a \in Tries : job'[a].fresh = k /\ Excused(a)'
  PROVE  UnknownSessions'
BY JobsAreTries DEF UnknownSessions, Excused, Answered, Token

(* If a relayed answer explains each token a client has got to know, HeldTokensExist holds. *)
LEMMA HeldIs ==
  ASSUME \A k \in known' \ FirstTokens : \E c \in Calls :
           /\ call'[c].pc = "relayed" /\ job'[<<c, call'[c].try>>].fresh = k
           /\ wish'[c].phone = tokens'[k].phone
  PROVE  HeldTokensExist'
BY DEF HeldTokensExist, Current, FirstTokens

\* Wishes stay what they are while rows are only added.
LEMMA WishesKept ==
  ASSUME Wishes, wish' = wish, Grown(tokens, tokens'),
         \A c \in Calls : call'[c].pc # "new" => call[c].pc # "new"
  PROVE  Wishes'
<1>1. ASSUME NEW c \in Calls, call'[c].pc # "new" PROVE WishSound(wish'[c], tokens')
  <2>1. WishSound(wish[c], tokens)
    BY <1>1 DEF Wishes
  <2>2. QED
    BY <2>1 DEF WishSound, Grown
<1>2. QED
  BY <1>1 DEF Wishes

\* A new call: nothing was sent for it.
LEMMA ClientKeeps ==
  ASSUME Invariants, NEW c \in Calls, ClientCalls(c)
  PROVE  AccessInv'
<1>1. /\ Arrive(c) /\ call[c].pc = "new" /\ attempt' = attempt /\ known' = known
      /\ tokens' = tokens /\ job' = job
      /\ GatewayInv /\ SessionsInv /\ AccessInv /\ GatewayTypeOK
  BY DEF ClientCalls, Arrive, svars, Invariants, GatewayInv
<1>2. \A n \in 1 .. Attempts : attempt[<<c, n>>] = "none"
  BY <1>1 DEF GatewayInv, Reached
<1>3. \A a \in Tries : a[1] = c => attempt[a] = "none"
  BY <1>2 DEF Tries
<1>4. PICK point \in CallPoints \ {"relayed"} : call' = [call EXCEPT ![c].pc = point]
  BY <1>1 DEF Arrive, Proceed, CallPoints, Outcomes, Refusals
<1>5. \A d \in Calls \ {c} : call'[d] = call[d]
  BY <1>1, <1>4, CallProceeds
<1>6. tokens \in Seq(TokenRow)
  BY <1>1 DEF SessionsInv, SessionsTypes
<1>7. PICK op \in Ops, p \in Phones, k \in Nat :
         /\ wish' = [wish EXCEPT ![c] = [op |-> op, phone |-> p, token |-> k]]
         /\ op \in {"refresh", "logout"} => k \in DOMAIN tokens /\ tokens[k].phone = p
  <2>1. CASE \E op \in {"register", "login"}, p \in Phones :
               wish' = [wish EXCEPT ![c] = [op |-> op, phone |-> p, token |-> 0]]
    BY <2>1 DEF Ops
  <2>2. CASE \E op \in {"refresh", "logout"}, k \in known :
               wish' = [wish EXCEPT ![c] = [op |-> op, phone |-> tokens[k].phone, token |-> k]]
    <3>1. \A k \in known : /\ k \in DOMAIN tokens /\ k \in Nat
                           /\ tokens[k].phone \in Phones
      <4>1. ASSUME NEW k \in known PROVE k \in DOMAIN tokens /\ k \in Nat /\ tokens[k] \in TokenRow
        BY <1>1, <1>6 DEF AccessInv
      <4>2. QED
        BY <4>1 DEF TokenRow
    <3>2. QED
      BY <2>2, <3>1 DEF Ops
  <2>3. QED
    BY <2>1, <2>2 DEF ClientCalls
<1>8. wish \in [Calls -> [op : Ops, phone : Phones, token : Nat]]
  BY <1>1 DEF AccessInv, Wishes
<1>9. /\ wish' \in [Calls -> [op : Ops, phone : Phones, token : Nat]]
      /\ wish'[c].op = op /\ wish'[c].phone = p /\ wish'[c].token = k
      /\ \A d \in Calls \ {c} : wish'[d] = wish[d]
  BY <1>7, <1>8
<1>10. Wishes'
  <2>1. ASSUME NEW d \in Calls, call'[d].pc # "new" PROVE WishSound(wish'[d], tokens')
    <3>1. CASE d = c
      BY <3>1, <1>1, <1>7, <1>9 DEF WishSound
    <3>2. CASE d # c
      BY <3>2, <2>1, <1>1, <1>5, <1>9 DEF AccessInv, Wishes
    <3>3. QED
      BY <3>1, <3>2
  <2>2. QED
    BY <2>1, <1>9 DEF Wishes
<1>11. ASSUME NEW a \in Tries PROVE Linked(a)'
  <2>1. Linked(a) /\ a[1] \in Calls
    BY <1>1 DEF AccessInv, Tries
  <2>2. CASE a[1] = c
    BY <2>1, <2>2, <1>1, <1>3 DEF Linked, Ended
  <2>3. CASE a[1] # c
    BY <2>1, <2>3, <1>1, <1>9 DEF Linked, Ended
  <2>4. QED
    BY <2>2, <2>3
<1>12. HeldTokensExist'
  <2>1. \A d \in Calls : call[d].pc = "relayed" => call'[d] = call[d] /\ wish'[d] = wish[d]
    BY <1>1, <1>5, <1>9
  <2>2. QED
    BY <2>1, <1>1, SameTokens, HeldKept, HeldIs
<1>13. UnknownSessions'
  <2>1. ASSUME NEW a \in Tries, job[a].fresh # 0, Excused(a) PROVE Excused(a)'
    <3>1. attempt[a] = "served"
      BY <2>1, Holders
    <3>2. a[1] # c /\ a[1] \in Calls
      BY <3>1, <1>3 DEF Tries
    <3>3. QED
      BY <2>1, <3>2, <1>5 DEF Excused, Answered
  <2>2. QED
    BY <2>1, <1>1, UnknownKept, UnknownIs
<1>14. QED
  BY <1>1, <1>10, <1>11, <1>12, <1>13 DEF AccessInv

\* The gateway goes on with a call, and hands out nothing.
LEMMA GatewayMovesKeep ==
  ASSUME Invariants, NEW c \in Calls, GatewayMoves(c)
  PROVE  AccessInv'
<1>1. /\ tokens' = tokens /\ job' = job /\ known' = known /\ wish' = wish
      /\ GatewayInv /\ SessionsInv /\ AccessInv /\ GatewayTypeOK
      /\ call \in [Calls -> CallState]
  BY DEF GatewayMoves, svars, Invariants, GatewayInv, GatewayTypeOK, CallState
<1>2. call[c].pc \in {"admitted", "send", "wait"}
  BY DEF GatewayMoves, CheckCircuit, SendAttempt, AttemptFails
<1>3. /\ \A d \in Calls \ {c} : call'[d] = call[d]
      /\ \/ call'[c].pc \in {"wait", "send", "unreachable"}
         \/ call[c].pc = "admitted"
  <2>1. PICK s : call' = [call EXCEPT ![c] = s] /\
                 (s.pc \in {"wait", "send", "unreachable"} \/ call[c].pc = "admitted")
    <3>1. CASE CheckCircuit(c)
      BY <3>1 DEF CheckCircuit, Sent, Proceed
    <3>2. CASE SendAttempt(c)
      <4>1. call' = [call EXCEPT ![c].pc = "wait"]
        BY <3>2 DEF SendAttempt, Sent
      <4>2. [call[c] EXCEPT !.pc = "wait"].pc = "wait"
        BY <1>1 DEF CallState
      <4>3. QED
        BY <4>1, <4>2
    <3>3. CASE AttemptFails(c) /\ call[c].try < Attempts
      <4> DEFINE r == [pc |-> "send", try |-> call[c].try + 1]
      <4>1. call' = [call EXCEPT ![c] = r]
        BY <3>3 DEF AttemptFails
      <4>2. r.pc = "send"
        OBVIOUS
      <4> HIDE DEF r
      <4>3. QED
        BY <4>1, <4>2
    <3>4. CASE AttemptFails(c) /\ ~ (call[c].try < Attempts)
      <4>1. call' = [call EXCEPT ![c].pc = "unreachable"]
        BY <3>4 DEF AttemptFails, Proceed
      <4>2. [call[c] EXCEPT !.pc = "unreachable"].pc = "unreachable"
        BY <1>1 DEF CallState
      <4>3. QED
        BY <4>1, <4>2
    <3>5. QED
      BY <3>1, <3>2, <3>3, <3>4 DEF GatewayMoves
  <2>2. QED
    BY <1>1, <2>1
<1>4. \/ attempt' = attempt
      \/ /\ attempt[<<c, call[c].try>>] = "none"
         /\ attempt' = [attempt EXCEPT ![<<c, call[c].try>>] = "sent"]
  <2>1. CASE Sent(c) /\ call[c].pc \in {"admitted", "send"}
    <3>1. attempt' = [attempt EXCEPT ![<<c, call[c].try>>] = "sent"]
      BY <2>1 DEF Sent, Current
    <3>2. attempt[<<c, call[c].try>>] = "none"
      BY <1>1, <2>1, CallOf DEF GatewayInv, Reached
    <3>3. QED
      BY <3>1, <3>2
  <2>2. (Sent(c) /\ call[c].pc \in {"admitted", "send"}) \/ attempt' = attempt
    BY DEF GatewayMoves, CheckCircuit, SendAttempt, AttemptFails
  <2>3. QED
    BY <2>1, <2>2
<1>5. ASSUME NEW a \in Tries PROVE Linked(a)'
  <2>1. Linked(a)
    BY <1>1 DEF AccessInv
  <2>2. CASE attempt'[a] = attempt[a]
    BY <2>1, <2>2, <1>1 DEF Linked, Ended
  <2>3. CASE attempt[a] = "none" /\ attempt'[a] = "sent"
    BY <2>1, <2>3, <1>1 DEF Linked, Ended
  <2>4. attempt \in [Tries -> {"none", "sent", "served"}]
    BY <1>1 DEF GatewayTypeOK
  <2>5. attempt'[a] = attempt[a] \/ (attempt[a] = "none" /\ attempt'[a] = "sent")
    BY <1>4, <2>4
  <2>6. QED
    BY <2>2, <2>3, <2>5
<1>6. Wishes'
  <2>1. \A d \in Calls : call'[d].pc # "new" => call[d].pc # "new"
    BY <1>2, <1>3
  <2>2. QED
    BY <1>1, <2>1, SameTokens, WishesKept DEF AccessInv
<1>7. HeldTokensExist'
  <2>1. \A d \in Calls : call[d].pc = "relayed" => call'[d] = call[d] /\ wish'[d] = wish[d]
    BY <1>1, <1>2, <1>3
  <2>2. QED
    BY <2>1, <1>1, SameTokens, HeldKept, HeldIs
<1>8. UnknownSessions'
  <2>1. ASSUME NEW a \in Tries, job[a].fresh # 0, Excused(a) PROVE Excused(a)'
    <3>1. attempt[a] # "none"
      BY <2>1, Holders
    <3>2. a[1] \in Calls /\ call[a[1]].pc # "admitted"
      BY <3>1, <1>1, SentCalls
    <3>3. CASE a[1] = c
      BY <3>2, <3>3, <1>3 DEF Excused, Answered, Outcomes, Refusals
    <3>4. CASE a[1] # c
      BY <2>1, <3>2, <3>4, <1>3 DEF Excused, Answered
    <3>5. QED
      BY <3>3, <3>4
  <2>2. QED
    BY <2>1, <1>1, UnknownKept, UnknownIs
<1>9. QED
  BY <1>1, <1>5, <1>6, <1>7, <1>8 DEF AccessInv

\* The client gets its answer, with the token in it; what an earlier attempt of the call
\* created it never hears of.
LEMMA RelayKeeps ==
  ASSUME Invariants, NEW c \in Calls, Relay(c)
  PROVE  AccessInv'
<1>1. /\ tokens' = tokens /\ job' = job /\ wish' = wish /\ attempt' = attempt
      /\ AnswerArrives(c) /\ call[c].pc = "wait"
      /\ GatewayInv /\ SessionsInv /\ AccessInv /\ GatewayTypeOK
  BY DEF Relay, AnswerArrives, svars, Invariants, GatewayInv
<1> DEFINE a0 == <<c, call[c].try>>
<1>2. /\ a0 \in Tries /\ known' = known \cup ({job[a0].fresh} \ {0})
  BY <1>1, CallOf DEF Relay, Current
<1>3. /\ call'[c].pc = "relayed" /\ call'[c].try = call[c].try
      /\ \A d \in Calls \ {c} : call'[d] = call[d]
  BY <1>1, CallProceeds DEF AnswerArrives, Proceed, CallPoints, Outcomes
<1>4. job[a0].fresh # 0 => job[a0].fresh \in DOMAIN tokens
                            /\ tokens[job[a0].fresh].phone = wish[c].phone
  BY <1>2, Holders
<1>5. known' \subseteq DOMAIN tokens'
  BY <1>1, <1>2, <1>4 DEF AccessInv
<1>6. \A a \in Tries : Linked(a)'
  BY <1>1 DEF AccessInv, Linked, Ended
<1>7. Wishes'
  <2>1. \A d \in Calls : call'[d].pc # "new" => call[d].pc # "new"
    BY <1>1, <1>3
  <2>2. QED
    BY <1>1, <2>1, SameTokens, WishesKept DEF AccessInv
<1>8. HeldTokensExist'
  <2>1. ASSUME NEW k \in known' \ FirstTokens
        PROVE  \E d \in Calls :
                 /\ call'[d].pc = "relayed" /\ job'[<<d, call'[d].try>>].fresh = k
                 /\ wish'[d].phone = tokens'[k].phone
    <3>1. CASE k \in known
      <4>1. \A d \in Calls : call[d].pc = "relayed" => call'[d] = call[d] /\ wish'[d] = wish[d]
        BY <1>1, <1>3
      <4>2. QED
        BY <3>1, <4>1, <1>1, SameTokens, HeldKept
    <3>2. CASE k \notin known
      <4>1. k = job[a0].fresh /\ k # 0
        BY <3>2, <1>2
      <4>2. QED
        BY <4>1, <1>1, <1>3, <1>4
    <3>3. QED
      BY <3>1, <3>2
  <2>2. QED
    BY <2>1, HeldIs
<1>9. UnknownSessions'
  <2>1. ASSUME NEW a \in Tries, job[a].fresh # 0, job[a].fresh \notin known', Excused(a)
        PROVE  Excused(a)'
    <3>1. attempt[a] # "none"
      BY <2>1, Holders
    <3>2. /\ a[1] \in Calls /\ a = <<a[1], a[2]>> /\ a[2] <= call[a[1]].try
          /\ a[2] \in 1 .. Attempts /\ call[a[1]].try \in Nat
      BY <3>1, <1>1, SentCalls
    <3>3. CASE a[1] = c
      <4>1. a[2] # call[c].try
        BY <2>1, <3>2, <3>3, <1>2
      <4>2. a[2] < call'[c].try
        BY <3>2, <3>3, <4>1, <1>3
      <4>3. QED
        BY <3>3, <4>2, <1>3 DEF Excused
    <3>4. CASE a[1] # c
      BY <2>1, <3>2, <3>4, <1>3 DEF Excused, Answered
    <3>5. QED
      BY <3>3, <3>4
  <2>2. known \subseteq known'
    BY <1>2
  <2>3. QED
    BY <2>1, <2>2, <1>1, UnknownKept, UnknownIs
<1>10. QED
  BY <1>5, <1>6, <1>7, <1>8, <1>9 DEF AccessInv

\* The identity service begins to work for an attempt.
LEMMA ReceiveKeeps ==
  ASSUME Invariants, NEW a \in Tries, AttemptReceived(a)
  PROVE  SessionsInv' /\ AccessInv'
<1> DEFINE w == wish[a[1]]
<1>1. /\ call' = call /\ attempt' = attempt /\ wish' = wish /\ known' = known
      /\ attempt[a] = "sent" /\ GatewayInv /\ SessionsInv /\ AccessInv
      /\ job \in [Jobs -> JobState]
  BY DEF AttemptReceived, gvars, Invariants, SessionsInv, SessionsTypes
<1>2. a[1] \in Calls /\ call[a[1]].pc # "new" /\ a \in Jobs
  BY <1>1, SentCalls, JobsAreTries
<1>3. /\ w.op \in Ops /\ w.phone \in Phones
      /\ w.op \in {"refresh", "logout"} => w.token \in DOMAIN tokens
                                            /\ tokens[w.token].phone = w.phone
  BY <1>1, <1>2 DEF AccessInv, Wishes, WishSound
<1> HIDE DEF w
<1>4. \/ w.op = "register" /\ Register(a, w.phone)
      \/ w.op = "login" /\ Login(a, w.phone)
      \/ w.op = "refresh" /\ Refresh(a, w.token)
      \/ w.op = "logout" /\ Logout(a, w.token)
  <2>1. CASE w.op = "register"
    BY <2>1 DEF AttemptReceived, w
  <2>2. CASE w.op = "login"
    BY <2>2 DEF AttemptReceived, w
  <2>3. CASE w.op = "refresh"
    BY <2>3 DEF AttemptReceived, w
  <2>4. CASE w.op = "logout"
    BY <2>4 DEF AttemptReceived, w
  <2>5. QED
    BY <1>3, <2>1, <2>2, <2>3, <2>4 DEF Ops
<1>5. SessionsInv'
  BY <1>1, <1>2, <1>3, <1>4, RequestKeeps DEF Token
<1>6. PICK s : /\ job' = [job EXCEPT ![a] = s] /\ s.pc \in {"check", "find"}
               /\ s.fresh = 0 /\ s.phone = w.phone /\ job[a].pc = "none" /\ tokens' = tokens
  <2>1. PICK r : /\ Begin(a, r) /\ r \in [pc : {"check", "find"}, op : Ops, phone : {w.phone},
                                         token : {r.token}, fresh : {0}, denied : {{}}]
    <3>1. CASE w.op = "register"
      <4> DEFINE r == [NoJob EXCEPT !.pc = "check", !.op = "register", !.phone = w.phone]
      <4>1. Begin(a, r)
        BY <3>1, <1>4 DEF Register
      <4>2. r \in [pc : {"check", "find"}, op : Ops, phone : {w.phone}, token : {r.token},
                   fresh : {0}, denied : {{}}]
        BY DEF NoJob, Ops
      <4> HIDE DEF r
      <4>3. QED
        BY <4>1, <4>2
    <3>2. CASE w.op = "login"
      <4> DEFINE r == [NoJob EXCEPT !.pc = "check", !.op = "login", !.phone = w.phone]
      <4>1. Begin(a, r)
        BY <3>2, <1>4 DEF Login
      <4>2. r \in [pc : {"check", "find"}, op : Ops, phone : {w.phone}, token : {r.token},
                   fresh : {0}, denied : {{}}]
        BY DEF NoJob, Ops
      <4> HIDE DEF r
      <4>3. QED
        BY <4>1, <4>2
    <3>3. CASE w.op \in {"refresh", "logout"}
      <4>1. PICK op \in {"refresh", "logout"} :
              Begin(a, [NoJob EXCEPT !.pc = "find", !.op = op, !.token = w.token,
                                     !.phone = tokens[w.token].phone])
        BY <3>3, <1>4 DEF Refresh, Logout
      <4>2. tokens[w.token].phone = w.phone
        BY <3>3, <1>3
      <4> DEFINE r == [NoJob EXCEPT !.pc = "find", !.op = op, !.token = w.token,
                                    !.phone = w.phone]
      <4>3. Begin(a, r)
        BY <4>1, <4>2
      <4>4. r \in [pc : {"check", "find"}, op : Ops, phone : {w.phone}, token : {r.token},
                   fresh : {0}, denied : {{}}]
        BY DEF NoJob, Ops
      <4> HIDE DEF r
      <4>5. QED
        BY <4>3, <4>4
    <3>4. QED
      BY <1>3, <3>1, <3>2, <3>3 DEF Ops
  <2> DEFINE s == [r EXCEPT !.denied = denied]
  <2>2. s.pc \in {"check", "find"} /\ s.fresh = 0 /\ s.phone = w.phone
    BY <2>1
  <2>3. job' = [job EXCEPT ![a] = s] /\ job[a].pc = "none" /\ tokens' = tokens
    BY <2>1 DEF Begin, At
  <2> HIDE DEF s
  <2>4. QED
    BY <2>2, <2>3
<1>7. job'[a] = s /\ \A b \in Tries \ {a} : job'[b] = job[b]
  BY <1>1, <1>2, <1>6, JobsAreTries
<1>8. ASSUME NEW b \in Tries, job[b].fresh # 0 PROVE job'[b] = job[b]
  <2>1. job[b].pc = "ok"
    BY <1>8, Holders
  <2>2. QED
    BY <2>1, <1>6, <1>7
<1>9. ASSUME NEW b \in Tries PROVE Linked(b)'
  <2>1. Linked(b)
    BY <1>1 DEF AccessInv
  <2>2. CASE b = a
    BY <2>2, <1>1, <1>6, <1>7 DEF Linked, Ended, w
  <2>3. CASE b # a
    BY <2>1, <2>3, <1>1, <1>7 DEF Linked, Ended
  <2>4. QED
    BY <2>2, <2>3
<1>10. Wishes'
  BY <1>1, <1>6, SameTokens, WishesKept DEF AccessInv
<1>11. HeldTokensExist'
  BY <1>1, <1>6, <1>8, SameTokens, HeldKept, HeldIs
<1>12. UnknownSessions'
  <2>1. \A b \in Tries : Excused(b) => Excused(b)'
    BY <1>1 DEF Excused, Answered
  <2>2. QED
    BY <2>1, <1>1, <1>6, <1>8, UnknownKept, UnknownIs
<1>13. known' \subseteq DOMAIN tokens'
  BY <1>1, <1>6 DEF AccessInv
<1>14. QED
  BY <1>5, <1>9, <1>10, <1>11, <1>12, <1>13 DEF AccessInv

\* A request goes on; if that was its last step, its attempt is served, and a session it
\* created is unknown to the client until the answer arrives, if it does.
LEMMA JobMovesKeep ==
  ASSUME Invariants, NEW a \in Tries, JobMoves(a)
  PROVE  SessionsInv' /\ AccessInv'
<1>1. /\ wish' = wish /\ known' = known /\ (JobStep(a) \/ JobDies(a)) /\ a \in Jobs
      /\ GatewayInv /\ SessionsInv /\ AccessInv
  BY JobsAreTries DEF JobMoves, Invariants
<1>2. SessionsInv'
  BY <1>1, JobStepKeeps
<1>3. /\ Grown(tokens, tokens') /\ job[a].fresh = 0 /\ job[a].pc # "none"
      /\ job'[a].pc # "none" /\ job'[a].phone = job[a].phone
      /\ \A b \in Tries \ {a} : job'[b] = job[b]
      /\ DOMAIN tokens' \subseteq DOMAIN tokens \cup {job'[a].fresh}
      /\ (job'[a].fresh = 0 \/ Ended(a)')
  BY <1>1, JobStepGrows, JobsAreTries
<1>4. call' = call /\ (Ended(a)' => Serve(a)) /\ (~ Ended(a)' => attempt' = attempt)
  BY DEF JobMoves, Serve, gvars
<1>5. attempt \in [Tries -> {"none", "sent", "served"}]
  BY <1>1 DEF GatewayInv, GatewayTypeOK
<1>6. \A b \in Tries : job[b].fresh # 0 => job'[b] = job[b]
  BY <1>3
<1>7. ASSUME NEW b \in Tries PROVE Linked(b)'
  <2>1. Linked(b)
    BY <1>1 DEF AccessInv
  <2>2. CASE b # a
    <3>1. attempt'[b] = attempt[b]
      BY <2>2, <1>4, <1>5 DEF Serve
    <3>2. QED
      BY <2>1, <2>2, <3>1, <1>1, <1>3 DEF Linked, Ended
  <2>3. CASE b = a
    <3>1. attempt[a] # "none" /\ job'[a].phone = wish'[a[1]].phone
      BY <2>1, <2>3, <1>1, <1>3 DEF Linked
    <3>2. attempt'[a] # "none" /\ (Ended(a)' => attempt'[a] = "served")
      BY <3>1, <1>4, <1>5 DEF Serve
    <3>3. QED
      BY <2>3, <3>1, <3>2 DEF Linked
  <2>4. QED
    BY <2>2, <2>3
<1>8. Wishes'
  BY <1>1, <1>3, <1>4, WishesKept DEF AccessInv
<1>9. known' \subseteq DOMAIN tokens'
  BY <1>1, <1>3 DEF AccessInv, Grown
<1>10. HeldTokensExist'
  BY <1>1, <1>3, <1>4, <1>6, HeldKept, HeldIs
<1>11. UnknownSessions'
  <2>1. ASSUME NEW k \in DOMAIN tokens' \ known'
        PROVE  \E b \in Tries : job'[b].fresh = k /\ Excused(b)'
    <3>1. CASE k \in DOMAIN tokens
      <4>1. \A b \in Tries : Excused(b) => Excused(b)'
        BY <1>4 DEF Excused, Answered
      <4>2. QED
        BY <2>1, <3>1, <4>1, <1>1, <1>6, UnknownKept
    <3>2. CASE k \notin DOMAIN tokens
      <4>1. k = job'[a].fresh /\ k # 0
        BY <3>2, <1>2, <1>3, TokensFromOne
      <4>2. attempt[a] = "sent"
        BY <4>1, <1>3, <1>4 DEF Serve
      <4>3. /\ a = <<a[1], a[2]>> /\ a[2] <= call[a[1]].try /\ call[a[1]].try \in Nat
            /\ call[a[1]].pc \in {"send", "wait", "unreachable", "relayed"}
            /\ call[a[1]].pc = "relayed" => attempt[<<a[1], call[a[1]].try>>] = "served"
            /\ a[2] \in 1 .. Attempts
        BY <4>2, <1>1, SentCalls
      <4>4. call[a[1]].pc = "relayed" => a[2] # call[a[1]].try
        BY <4>2, <4>3
      <4>5. call[a[1]].pc = "relayed" => call[a[1]].try > a[2]
        BY <4>3, <4>4
      <4>6. Excused(a)
        BY <4>3, <4>5 DEF Excused, Answered, Outcomes, Refusals
      <4>7. Excused(a)'
        BY <4>6, <1>4 DEF Excused, Answered
      <4>8. QED
        BY <4>1, <4>7
    <3>3. QED
      BY <3>1, <3>2
  <2>2. QED
    BY <2>1, UnknownIs
<1>12. QED
  BY <1>2, <1>7, <1>8, <1>9, <1>10, <1>11 DEF AccessInv

(* The clock and a stuttering step keep the invariants. *)
LEMMA NothingKeeps ==
  ASSUME Invariants, TimePasses \/ UNCHANGED avars
  PROVE  SessionsInv' /\ AccessInv'
<1>1. /\ call' = call /\ attempt' = attempt /\ wish' = wish /\ known' = known
      /\ tokens' = tokens /\ job' = job /\ UNCHANGED svars
      /\ SessionsInv /\ AccessInv
  BY DEF TimePasses, Tick, avars, gvars, svars, Invariants
<1>2. SessionsInv'
  BY <1>1, SessionsStay
<1>3. AccessInv'
  BY <1>1 DEF AccessInv, Wishes, WishSound, Linked, Ended, HeldTokensExist, Current, FirstTokens,
              UnknownSessions, Answered, Token
<1>4. QED
  BY <1>2, <1>3

(* Every step of the composition keeps the three invariants together. *)
LEMMA AccessStepKeeps == Invariants /\ [AccessNext]_avars => Invariants'
<1> SUFFICES ASSUME Invariants, [AccessNext]_avars PROVE Invariants'
  OBVIOUS
<1>1. GatewayInv'
  BY GatewayStepKeeps DEF Invariants
<1>2. SessionsInv' /\ AccessInv'
  <2>1. ASSUME NEW c \in Calls, ClientCalls(c) \/ GatewayMoves(c) \/ Relay(c)
        PROVE  SessionsInv' /\ AccessInv'
    <3>1. UNCHANGED svars
      BY <2>1 DEF ClientCalls, GatewayMoves, Relay
    <3>2. SessionsInv'
      BY <3>1, SessionsStay DEF Invariants
    <3>3. QED
      BY <2>1, <3>2, ClientKeeps, GatewayMovesKeep, RelayKeeps
  <2>2. QED
    BY <2>1, ReceiveKeeps, JobMovesKeep, NothingKeeps DEF AccessNext
<1>3. QED
  BY <1>1, <1>2 DEF Invariants

(* The composition starts in the three invariants. *)
LEMMA AccessInitHolds == AccessInit => Invariants
<1> SUFFICES ASSUME AccessInit PROVE Invariants
  OBVIOUS
<1>1. GatewayInv /\ SessionsInv
  BY GatewayInitHolds, SessionsInitHolds DEF AccessInit
<1>2. /\ \A c \in Calls : call[c].pc = "new"
      /\ \A a \in Tries : attempt[a] = "none" /\ job[a].pc = "none"
  BY JobsAreTries DEF AccessInit, GatewayInit, SessionsInit, NoJob
<1>3. Wishes
  <2>1. wish \in [Calls -> [op : Ops, phone : Phones, token : Nat]]
    BY SessionsAssumption DEF AccessInit, NoWish, Ops
  <2>2. QED
    BY <1>2, <2>1 DEF Wishes
<1>4. \A a \in Tries : Linked(a)
  BY <1>2 DEF Linked
<1>5. known = DOMAIN tokens /\ DOMAIN tokens = FirstTokens
  BY DEF AccessInit, SessionsInit, Token, FirstTokens
<1>6. HeldTokensExist /\ UnknownSessions
  BY <1>5 DEF HeldTokensExist, UnknownSessions, Token
<1>7. QED
  BY <1>1, <1>3, <1>4, <1>5, <1>6 DEF Invariants, AccessInv

\* The three invariants hold in every state of the composition.
THEOREM AccessInductive == AccessSpec => []Invariants
BY AccessInitHolds, AccessStepKeeps, PTL DEF AccessSpec

\* Through the gateway's repeated and abandoned attempts a rotated or logged-out token is of
\* no more use, a phone has one registration, and a session its client does not know of is
\* the work of a repeated or unanswered attempt: identity-service behind proxy_request.
THEOREM SessionsCorrect == AccessSpec => []AccessSafe
<1>1. Invariants => AccessSafe
  <2> SUFFICES ASSUME Invariants PROVE AccessSafe
    OBVIOUS
  <2>1. /\ users \subseteq Phones /\ tokens \in Seq(TokenRow)
        /\ denied \subseteq DOMAIN tokens /\ deaths \in Nat
        /\ TableSound(tokens, users, denied)
        /\ \A j \in Jobs : JobSound(job[j], tokens, users, denied)
    BY DEF Invariants, SessionsInv, SessionsTypes
  <2>2. SessionsTypeOK
    <3>1. \A j \in Jobs : job[j].token \in Token \cup {0} /\ job[j].fresh \in Token \cup {0}
      BY <2>1 DEF JobSound, Token
    <3>2. QED
      BY <2>1, <3>1 DEF SessionsTypeOK, TokenRow, Token
  <2>3. RotationRevokes
    BY <2>1 DEF RotationRevokes, TableSound, Token, Active
  <2>4. LogoutEnds
    <3>1. denied \subseteq {k \in Token : ~ Active(k)}
      BY <2>1 DEF TableSound, Token, Active
    <3>2. QED
      BY <2>1, <3>1 DEF LogoutEnds, JobSound
  <2>5. OneAccount
    BY <2>1 DEF OneAccount, TableSound, Token, OneRegistration, Invariants, SessionsInv
  <2>6. QED
    BY <2>2, <2>3, <2>4, <2>5 DEF AccessSafe, Invariants, AccessInv
<1>2. QED
  BY <1>1, AccessInductive, PTL

-----------------------------------------------------------------------------
(* The notification service.                                               *)

CallerPoints == {"idle", "create", "enqueue", "mark", "republish"}
WorkerPoints == {"idle", "send", "accepted", "refused", "republish"}

CallerState == [pc : CallerPoints, id : Nat, left : Nat, item : Notification]
WorkerState == [pc : WorkerPoints, id : Nat, left : Nat, item : Notification]

WaitingStatus == {"queued", "retry_scheduled"}

\* What a thread still has to do for row i.
CallerOn(c, i) == caller[c].id = i /\ caller[c].pc \in {"enqueue", "mark", "republish"}
WorkerOn(w, i) == worker[w].id = i /\ worker[w].pc # "idle"

DeliveryTypes ==
  /\ rows \in Seq(Notification) /\ Len(rows) <= MaxNotes
  /\ tasks \in [Ids -> Nat] /\ sent \in [Ids -> Nat]
  /\ retried \subseteq DOMAIN rows /\ lost \subseteq DOMAIN rows
  /\ caller \in [Callers -> CallerState] /\ worker \in [Workers -> WorkerState]

\* Nobody delivers a row that does not exist, and no retry is counted beyond the limit.
DeliveriesBounded ==
  /\ \A i \in DOMAIN rows : rows[i].retry_count <= MaxRetries
  /\ \A i \in Ids : tasks[i] > 0 \/ sent[i] > 0 => i \in DOMAIN rows
  /\ \A c \in Callers :
       /\ caller[c].pc \in {"enqueue", "mark", "republish"} => caller[c].id \in DOMAIN rows
       /\ caller[c].pc = "mark" => caller[c].item.retry_count < MaxRetries
       /\ caller[c].pc \in {"mark", "republish"} => caller[c].id \in retried
       /\ caller[c].pc \in {"create", "enqueue"} => caller[c].left > 0
  /\ \A w \in Workers : worker[w].pc # "idle" =>
       worker[w].id \in DOMAIN rows /\ worker[w].item.retry_count <= MaxRetries

\* A waiting row is somebody's who knows that it waits: a task, a thread about to publish
\* one, or a worker that has loaded the row while it was waiting.
Carried(i) ==
  \/ tasks[i] > 0
  \/ \E c \in Callers : caller[c].id = i /\ caller[c].pc \in {"enqueue", "republish"}
  \/ \E w \in Workers : WorkerOn(w, i) /\
       (worker[w].pc = "republish" \/ worker[w].item.status \in WaitingStatus)

\* The delivery of a row no operator has retried is in one place at a time,
Single(i) ==
  /\ tasks[i] \in {0, 1}
  /\ \A c, d \in Callers : CallerOn(c, i) /\ CallerOn(d, i) => c = d
  /\ \A v, w \in Workers : WorkerOn(v, i) /\ WorkerOn(w, i) => v = w
  /\ \A c \in Callers : CallerOn(c, i) => tasks[i] = 0
  /\ \A w \in Workers : WorkerOn(w, i) => tasks[i] = 0
  /\ \A c \in Callers, w \in Workers : ~ (CallerOn(c, i) /\ WorkerOn(w, i))

\* and its row shows how far it got.
InStep(i) ==
  /\ \A c \in Callers : CallerOn(c, i) => rows[i].status \in WaitingStatus /\ sent[i] = 0
  /\ tasks[i] > 0 => rows[i].status \in WaitingStatus /\ sent[i] = 0
  /\ \A w \in Workers : WorkerOn(w, i) =>
       /\ rows[i].status \in WaitingStatus
       /\ worker[w].pc # "republish" => worker[w].item = rows[i]
       /\ sent[i] = (IF worker[w].pc = "accepted" THEN 1 ELSE 0)
  /\ sent[i] \in {0, 1}
  /\ rows[i].status = "failed" => rows[i].retry_count = MaxRetries /\ sent[i] = 0
  /\ sent[i] > 0 /\ ~ Pending(i) /\ i \notin lost => rows[i].status = "sent"

\* What holds of the row, the tasks and the threads of one notification.
RowInOrder(i) ==
  /\ rows[i].status \in WaitingStatus /\ i \notin lost => Carried(i)
  /\ rows[i].status = "sent" => sent[i] > 0
  /\ \A w \in Workers : WorkerOn(w, i) /\ worker[w].pc = "accepted" => sent[i] > 0
  /\ i \notin retried => Single(i) /\ InStep(i)

DeliveryInv ==
  DeliveryTypes /\ DeliveriesBounded /\ \A i \in DOMAIN rows : RowInOrder(i)

\* A thread at rest, and one that begins.
LEMMA FirstStates ==
  /\ Resting \in CallerState /\ Resting \in WorkerState /\ Resting.pc = "idle"
  /\ \A k \in Nat :
       LET s == [Resting EXCEPT !.pc = "create", !.left = k]
       IN  s \in CallerState /\ s.pc = "create" /\ s.left = k
  /\ \A n \in Nat, r \in Notification :
       /\ LET s == [Resting EXCEPT !.pc = "mark", !.id = n, !.item = r]
          IN  s \in CallerState /\ s.pc = "mark" /\ s.id = n /\ s.item = r
       /\ LET s == [Resting EXCEPT !.pc = "send", !.id = n, !.item = r]
          IN  s \in WorkerState /\ s.pc = "send" /\ s.id = n /\ s.item = r
<1>1. Resting \in CallerState /\ Resting \in WorkerState /\ Resting.pc = "idle"
  BY DEF Resting, NewRow, CallerState, WorkerState, CallerPoints, WorkerPoints, Notification,
         NotificationStatus
<1>2. QED
  BY <1>1 DEF CallerState, WorkerState, CallerPoints, WorkerPoints

\* The service starts without rows and with idle threads.
LEMMA DeliveryInit0 == NotificationsInit => DeliveryInv
<1> SUFFICES ASSUME NotificationsInit PROVE DeliveryInv
  OBVIOUS
<1>1. Resting \in CallerState /\ Resting \in WorkerState /\ Resting.pc = "idle"
  BY FirstStates
<1>2. DeliveryTypes
  BY <1>1, NotificationsAssumption DEF NotificationsInit, DeliveryTypes
<1>3. DeliveriesBounded
  BY <1>1 DEF NotificationsInit, DeliveriesBounded
<1>4. QED
  BY <1>2, <1>3 DEF NotificationsInit, DeliveryInv

\* Nothing happens to row i or to a thread that is about it.
Untouched(i) ==
  /\ i \in DOMAIN rows /\ rows'[i] = rows[i] /\ tasks'[i] = tasks[i] /\ sent'[i] = sent[i]
  /\ (i \in retried' <=> i \in retried) /\ (i \in lost' <=> i \in lost)
  /\ \A c \in Callers :
       /\ CallerOn(c, i)' <=> CallerOn(c, i)
       /\ CallerOn(c, i) => caller'[c] = caller[c]
  /\ \A w \in Workers :
       /\ WorkerOn(w, i)' <=> WorkerOn(w, i)
       /\ WorkerOn(w, i) => worker'[w] = worker[w]

(* A row that a step does not touch stays in order. *)
LEMMA UntouchedKept == ASSUME NEW i, RowInOrder(i), Untouched(i) PROVE RowInOrder(i)'
<1>1. Carried(i) => Carried(i)'
  BY DEF Untouched, Carried, CallerOn, WorkerOn
<1>2. Pending(i) => Pending(i)'
  BY DEF Untouched, Pending, CallerOn, WorkerOn
<1>3. Single(i) => Single(i)'
  BY DEF Untouched, Single
<1>4. InStep(i) => InStep(i)'
  BY <1>2 DEF Untouched, InStep
<1>5. QED
  BY <1>1, <1>3, <1>4 DEF RowInOrder, Untouched

\* A caller's move touches the row it is about before and after it.
LEMMA CallerTouches ==
  ASSUME DeliveryTypes, NEW c \in Callers, NEW s, caller' = [caller EXCEPT ![c] = s],
         UNCHANGED <<worker, sent>>, NEW i \in DOMAIN rows, rows'[i] = rows[i],
         tasks'[i] = tasks[i], i \in retried' <=> i \in retried, i \in lost' <=> i \in lost,
         ~ CallerOn(c, i), ~ CallerOn(c, i)'
  PROVE  Untouched(i)
BY DEF DeliveryTypes, Untouched, CallerOn, WorkerOn

(* A worker's step touches the row of its own job only. *)
LEMMA WorkerTouches ==
  ASSUME DeliveryTypes, NEW w \in Workers, NEW s, worker' = [worker EXCEPT ![w] = s],
         UNCHANGED <<caller, retried>>, NEW i \in DOMAIN rows, rows'[i] = rows[i],
         tasks'[i] = tasks[i], sent'[i] = sent[i], i \in lost' <=> i \in lost,
         ~ WorkerOn(w, i), ~ WorkerOn(w, i)'
  PROVE  Untouched(i)
BY DEF DeliveryTypes, Untouched, CallerOn, WorkerOn

\* save writes what differs from the loaded item, in one row.
LEMMA StatusSaved ==
  ASSUME DeliveryTypes, NEW n \in DOMAIN rows, NEW item \in Notification,
         NEW st \in NotificationStatus,
         rows' = [rows EXCEPT ![n].status = WriteStatus(n, item, st)]
  PROVE  /\ rows' \in Seq(Notification) /\ Len(rows') = Len(rows)
         /\ DOMAIN rows' = DOMAIN rows
         /\ \A i \in DOMAIN rows : i # n => rows'[i] = rows[i]
         /\ rows'[n].status = (IF item.status = st THEN rows[n].status ELSE st)
         /\ rows'[n].retry_count = rows[n].retry_count
<1>1. rows \in [1 .. Len(rows) -> Notification] /\ Len(rows) \in Nat /\ rows[n] \in Notification
  BY DEF DeliveryTypes
<1>2. WriteStatus(n, item, st) \in NotificationStatus
  BY <1>1 DEF WriteStatus, Notification
<1>3. [rows[n] EXCEPT !.status = WriteStatus(n, item, st)] \in Notification
  BY <1>1, <1>2 DEF Notification
<1>4. rows' \in [1 .. Len(rows) -> Notification]
  BY <1>1, <1>3
<1>5. rows' \in Seq(Notification) /\ Len(rows') = Len(rows) /\ DOMAIN rows' = DOMAIN rows
  BY <1>1, <1>4
<1>6. /\ rows'[n].status = WriteStatus(n, item, st)
      /\ rows'[n].retry_count = rows[n].retry_count
      /\ \A i \in DOMAIN rows : i # n => rows'[i] = rows[i]
  BY <1>1 DEF Notification
<1>7. QED
  BY <1>5, <1>6 DEF WriteStatus

(* A retry writes back the row it has read. *)
LEMMA RetrySaved ==
  ASSUME DeliveryTypes, NEW n \in DOMAIN rows, NEW item \in Notification,
         rows' = [rows EXCEPT ![n] = [status |-> WriteStatus(n, item, "retry_scheduled"),
                                      retry_count |-> item.retry_count + 1]]
  PROVE  /\ rows' \in Seq(Notification) /\ Len(rows') = Len(rows)
         /\ DOMAIN rows' = DOMAIN rows
         /\ \A i \in DOMAIN rows : i # n => rows'[i] = rows[i]
         /\ rows'[n].status = (IF item.status = "retry_scheduled" THEN rows[n].status
                               ELSE "retry_scheduled")
         /\ rows'[n].retry_count = item.retry_count + 1
<1>1. rows \in [1 .. Len(rows) -> Notification] /\ Len(rows) \in Nat /\ rows[n] \in Notification
  BY DEF DeliveryTypes
<1> DEFINE r == [status |-> WriteStatus(n, item, "retry_scheduled"),
                 retry_count |-> item.retry_count + 1]
<1>2. r \in Notification
  BY <1>1 DEF WriteStatus, Notification, NotificationStatus
<1>3. /\ r.status = (IF item.status = "retry_scheduled" THEN rows[n].status
                     ELSE "retry_scheduled")
      /\ r.retry_count = item.retry_count + 1
  BY DEF WriteStatus
<1> HIDE DEF r
<1>4. rows' = [rows EXCEPT ![n] = r]
  BY DEF r
<1>5. rows' \in [1 .. Len(rows) -> Notification]
  BY <1>1, <1>2, <1>4
<1>6. QED
  BY <1>1, <1>3, <1>4, <1>5

-----------------------------------------------------------------------------
(* The callers.                                                            *)

\* A request begins, and touches no row.
LEMMA SendKeeps == ASSUME DeliveryInv, NEW c \in Callers, Send(c) PROVE DeliveryInv'
<1>1. DeliveryTypes /\ DeliveriesBounded /\ \A i \in DOMAIN rows : RowInOrder(i)
  BY DEF DeliveryInv
<1>2. PICK n \in 1 .. MaxTargets :
        caller' = [caller EXCEPT ![c] = [Resting EXCEPT !.pc = "create", !.left = n]]
  BY DEF Send
<1>3. PICK s \in CallerState :
        caller' = [caller EXCEPT ![c] = s] /\ s.pc = "create" /\ s.left > 0
  <2> DEFINE s == [Resting EXCEPT !.pc = "create", !.left = n]
  <2>1. s \in CallerState /\ s.pc = "create" /\ s.left > 0
    <3>1. n \in Nat /\ n > 0
      BY NotificationsAssumption
    <3>2. QED
      BY <3>1, FirstStates DEF CallerState, CallerPoints
  <2>2. caller' = [caller EXCEPT ![c] = s]
    BY <1>2
  <2> HIDE DEF s
  <2>3. QED
    BY <2>1, <2>2
<1>4. UNCHANGED <<rows, tasks, worker, sent, retried, lost>> /\ caller[c].pc = "idle"
  BY DEF Send
<1>5. caller' \in [Callers -> CallerState] /\ caller'[c] = s
      /\ \A d \in Callers : d # c => caller'[d] = caller[d]
  BY <1>1, <1>3 DEF DeliveryTypes
<1>6. DeliveryTypes' /\ DeliveriesBounded'
  BY <1>1, <1>3, <1>4, <1>5 DEF DeliveryTypes, DeliveriesBounded
<1>7. \A i \in DOMAIN rows : RowInOrder(i)'
  <2> TAKE i \in DOMAIN rows
  <2>1. ~ CallerOn(c, i) /\ ~ CallerOn(c, i)'
    BY <1>3, <1>4, <1>5 DEF CallerOn
  <2>2. Untouched(i)
    BY <1>1, <1>3, <1>4, <2>1, CallerTouches
  <2>3. QED
    BY <1>1, <2>2, UntouchedKept
<1>8. QED
  BY <1>4, <1>6, <1>7 DEF DeliveryInv

\* The new row is its caller's.
LEMMA DeliveryCreateKeeps == ASSUME DeliveryInv, NEW c \in Callers, Create(c) PROVE DeliveryInv'
<1>0. PICK n : n = Len(rows) + 1
  OBVIOUS
<1> DEFINE s == [caller[c] EXCEPT !.pc = "enqueue", !.id = n]
<1>1. /\ DeliveryTypes /\ DeliveriesBounded /\ \A i \in DOMAIN rows : RowInOrder(i)
      /\ rows \in Seq(Notification) /\ Len(rows) \in Nat /\ DOMAIN rows = 1 .. Len(rows)
      /\ caller[c] \in CallerState
  BY DEF DeliveryInv, DeliveryTypes
<1>2. /\ rows' = Append(rows, NewRow) /\ Len(rows) < MaxNotes /\ caller[c].pc = "create"
      /\ UNCHANGED <<tasks, worker, sent, retried, lost>>
  BY DEF Create
<1>3. caller' = [caller EXCEPT ![c] = s]
  BY <1>0, Zenon DEF Create
<1>4. /\ NewRow \in Notification /\ NewRow.status = "queued" /\ NewRow.retry_count = 0
      /\ s \in CallerState /\ s.pc = "enqueue" /\ s.id = n /\ s.left > 0
  <2>1. NewRow \in Notification /\ NewRow.status = "queued" /\ NewRow.retry_count = 0
    BY DEF NewRow, Notification, NotificationStatus
  <2>2. n \in Nat /\ caller[c].left > 0
    BY <1>0, <1>1, <1>2 DEF DeliveriesBounded
  <2>3. s \in CallerState /\ s.pc = "enqueue" /\ s.id = n /\ s.left = caller[c].left
    BY <1>1, <2>2 DEF CallerState, CallerPoints
  <2>4. QED
    BY <2>1, <2>2, <2>3
<1>5. /\ rows' \in Seq(Notification) /\ Len(rows') = n /\ DOMAIN rows' = DOMAIN rows \cup {n}
      /\ rows'[n] = NewRow /\ \A i \in DOMAIN rows : rows'[i] = rows[i]
      /\ n \notin DOMAIN rows /\ n <= MaxNotes /\ n \in Ids
  BY <1>0, <1>1, <1>2, <1>4, NotificationsAssumption DEF Ids
<1> HIDE DEF s
<1>6. /\ caller' \in [Callers -> CallerState] /\ caller'[c] = s
      /\ \A d \in Callers : d # c => caller'[d] = caller[d]
  BY <1>1, <1>3, <1>4 DEF DeliveryTypes
<1>7. DeliveryTypes'
  BY <1>1, <1>2, <1>5, <1>6 DEF DeliveryTypes
<1>8. DeliveriesBounded'
  BY <1>1, <1>2, <1>4, <1>5, <1>6, NotificationsAssumption DEF DeliveriesBounded
<1>9. ASSUME NEW i \in DOMAIN rows PROVE RowInOrder(i)'
  <2>1. ~ CallerOn(c, i) /\ ~ CallerOn(c, i)'
    BY <1>2, <1>4, <1>5, <1>6 DEF CallerOn
  <2>2. Untouched(i)
    BY <1>1, <1>2, <1>3, <1>5, <2>1, CallerTouches
  <2>3. QED
    BY <1>1, <2>2, UntouchedKept
<1>10. RowInOrder(n)'
  <2>1. /\ tasks'[n] = 0 /\ sent'[n] = 0 /\ n \notin retried'
        /\ \A d \in Callers : CallerOn(d, n)' <=> d = c
        /\ \A w \in Workers : ~ WorkerOn(w, n)'
        /\ CallerOn(c, n)'
    BY <1>1, <1>2, <1>4, <1>5, <1>6 DEF DeliveryTypes, DeliveriesBounded, CallerOn, WorkerOn
  <2>2. Carried(n)'
    BY <1>4, <1>6, <2>1 DEF Carried
  <2>3. Single(n)'
    BY <2>1 DEF Single
  <2>4. InStep(n)'
    BY <1>4, <1>5, <2>1 DEF InStep, WaitingStatus
  <2>5. QED
    BY <1>4, <1>5, <2>1, <2>2, <2>3, <2>4 DEF RowInOrder
<1>11. QED
  BY <1>5, <1>7, <1>8, <1>9, <1>10 DEF DeliveryInv

\* A task is published, and its caller goes on with the next target or rests.
LEMMA PublishKeeps ==
  ASSUME DeliveryInv, NEW c \in Callers, Enqueue(c) \/ RepublishRetry(c) PROVE DeliveryInv'
<1>0. PICK n : n = caller[c].id
  OBVIOUS
<1>1. /\ DeliveryTypes /\ DeliveriesBounded /\ \A i \in DOMAIN rows : RowInOrder(i)
      /\ rows \in Seq(Notification) /\ Len(rows) \in Nat /\ DOMAIN rows = 1 .. Len(rows)
      /\ caller[c] \in CallerState /\ tasks \in [Ids -> Nat] /\ Len(rows) <= MaxNotes
  BY DEF DeliveryInv, DeliveryTypes
<1>2. /\ tasks' = [tasks EXCEPT ![n] = @ + 1] /\ caller[c].pc \in {"enqueue", "republish"}
      /\ UNCHANGED <<rows, worker, sent, retried, lost>>
  BY <1>0 DEF Enqueue, RepublishRetry, Publish
<1>3. PICK s \in CallerState :
        /\ caller' = [caller EXCEPT ![c] = s] /\ s.pc \in {"idle", "create"}
        /\ s.pc = "create" => s.left > 0
  <2>1. Resting \in CallerState /\ Resting.pc = "idle"
    BY FirstStates
  <2>2. CASE RepublishRetry(c) \/ caller[c].left = 1
    BY <1>1, <2>1, <2>2 DEF Enqueue, RepublishRetry, DeliveryTypes
  <2>3. CASE Enqueue(c) /\ caller[c].left # 1
    <3>1. caller[c].left - 1 \in Nat /\ caller[c].left - 1 > 0
      BY <1>1, <2>3 DEF Enqueue, DeliveriesBounded, CallerState
    <3> DEFINE s == [Resting EXCEPT !.pc = "create", !.left = caller[c].left - 1]
    <3>2. caller' = [caller EXCEPT ![c] = s]
      BY <1>1, <2>3 DEF Enqueue, DeliveryTypes
    <3>3. s \in CallerState /\ s.pc = "create" /\ s.left > 0
      BY <2>1, <3>1 DEF CallerState, CallerPoints
    <3>4. QED
      BY <3>2, <3>3
  <2>4. QED
    BY <2>2, <2>3
<1>4. /\ caller' \in [Callers -> CallerState] /\ caller'[c] = s
      /\ \A d \in Callers : d # c => caller'[d] = caller[d]
  BY <1>1, <1>3 DEF DeliveryTypes
<1>5. /\ n \in DOMAIN rows /\ n \in Ids /\ CallerOn(c, n)
      /\ caller[c].pc = "republish" => n \in retried
  BY <1>0, <1>1, <1>2, NotificationsAssumption DEF DeliveriesBounded, CallerOn, Ids
<1>6. /\ tasks' \in [Ids -> Nat] /\ tasks'[n] = tasks[n] + 1
      /\ \A i \in Ids : i # n => tasks'[i] = tasks[i]
  BY <1>1, <1>2, <1>5
<1>7. DeliveryTypes' /\ DeliveriesBounded'
  BY <1>1, <1>2, <1>3, <1>4, <1>5, <1>6 DEF DeliveryTypes, DeliveriesBounded
<1>8. ASSUME NEW i \in DOMAIN rows, i # n PROVE RowInOrder(i)'
  <2>1. ~ CallerOn(c, i) /\ ~ CallerOn(c, i)' /\ i \in Ids
    BY <1>0, <1>1, <1>3, <1>4, <1>8, NotificationsAssumption DEF CallerOn, Ids
  <2>2. Untouched(i)
    BY <1>1, <1>2, <1>3, <1>6, <1>8, <2>1, CallerTouches
  <2>3. QED
    BY <1>1, <2>2, UntouchedKept
<1>9. RowInOrder(n)'
  <2>1. /\ RowInOrder(n) /\ tasks'[n] > 0 /\ tasks[n] \in Nat
        /\ \A d \in Callers : CallerOn(d, n)' <=> (d # c /\ CallerOn(d, n))
        /\ \A w \in Workers : WorkerOn(w, n)' <=> WorkerOn(w, n)
    BY <1>1, <1>2, <1>3, <1>4, <1>5, <1>6 DEF CallerOn, WorkerOn
  <2>2. Carried(n)' /\ Pending(n)'
    BY <2>1 DEF Carried, Pending
  <2>3. n \notin retried => Single(n)' /\ InStep(n)'
    BY <1>2, <1>5, <1>6, <2>1, <2>2 DEF RowInOrder, Single, InStep
  <2>4. QED
    BY <1>2, <2>1, <2>2, <2>3 DEF RowInOrder
<1>10. QED
  BY <1>2, <1>7, <1>8, <1>9 DEF DeliveryInv

\* An operator's request makes its row a retried one.
LEMMA DeliveryRequestKeeps == ASSUME DeliveryInv, NEW c \in Callers, RequestRetry(c) PROVE DeliveryInv'
<1>1. /\ DeliveryTypes /\ DeliveriesBounded /\ \A i \in DOMAIN rows : RowInOrder(i)
      /\ rows \in Seq(Notification) /\ DOMAIN rows \subseteq Nat
  BY DEF DeliveryInv, DeliveryTypes
<1>2. PICK n \in DOMAIN rows :
        /\ rows[n].retry_count < MaxRetries /\ retried' = retried \cup {n}
        /\ caller' = [caller EXCEPT ![c] =
                        [Resting EXCEPT !.pc = "mark", !.id = n, !.item = rows[n]]]
  BY DEF RequestRetry
<1>3. UNCHANGED <<rows, tasks, worker, sent, lost>> /\ caller[c].pc = "idle"
  BY DEF RequestRetry
<1> DEFINE s == [Resting EXCEPT !.pc = "mark", !.id = n, !.item = rows[n]]
<1>4. s \in CallerState /\ s.pc = "mark" /\ s.id = n /\ s.item = rows[n]
  <2>1. n \in Nat /\ rows[n] \in Notification
    BY <1>1
  <2>2. QED
    BY <2>1, FirstStates DEF CallerState, CallerPoints
<1>5. caller' = [caller EXCEPT ![c] = s]
  BY <1>2
<1> HIDE DEF s
<1>6. /\ caller' \in [Callers -> CallerState] /\ caller'[c] = s
      /\ \A d \in Callers : d # c => caller'[d] = caller[d]
  BY <1>1, <1>4, <1>5 DEF DeliveryTypes
<1>7. DeliveryTypes' /\ DeliveriesBounded'
  BY <1>1, <1>2, <1>3, <1>4, <1>6 DEF DeliveryTypes, DeliveriesBounded
<1>8. ASSUME NEW i \in DOMAIN rows, i # n PROVE RowInOrder(i)'
  <2>1. ~ CallerOn(c, i) /\ ~ CallerOn(c, i)'
    BY <1>3, <1>4, <1>6, <1>8 DEF CallerOn
  <2>2. Untouched(i)
    BY <1>1, <1>2, <1>3, <1>5, <1>8, <2>1, CallerTouches
  <2>3. QED
    BY <1>1, <2>2, UntouchedKept
<1>9. RowInOrder(n)'
  <2>1. Carried(n) => Carried(n)'
    BY <1>3, <1>6 DEF Carried, WorkerOn
  <2>2. QED
    BY <1>1, <1>2, <1>3, <2>1 DEF RowInOrder, WorkerOn
<1>10. QED
  BY <1>3, <1>7, <1>8, <1>9 DEF DeliveryInv

\* The request marks its row, and still has to publish the task.
LEMMA MarkKeeps == ASSUME DeliveryInv, NEW c \in Callers, MarkForRetry(c) PROVE DeliveryInv'
<1>0. PICK n, item : n = caller[c].id /\ item = caller[c].item
  OBVIOUS
<1> DEFINE s == [caller[c] EXCEPT !.pc = "republish"]
<1>1. /\ DeliveryTypes /\ DeliveriesBounded /\ \A i \in DOMAIN rows : RowInOrder(i)
      /\ caller[c] \in CallerState
  BY DEF DeliveryInv, DeliveryTypes
<1>2. /\ MarkRetryScheduled(n, item) /\ caller[c].pc = "mark"
      /\ UNCHANGED <<tasks, worker, sent, retried, lost>>
  BY <1>0 DEF MarkForRetry
<1>3. caller' = [caller EXCEPT ![c] = s]
  BY <1>1 DEF MarkForRetry, DeliveryTypes
<1>4. s \in CallerState /\ s.pc = "republish" /\ s.id = n
  BY <1>0, <1>1 DEF CallerState, CallerPoints
<1>5. /\ n \in DOMAIN rows /\ n \in retried /\ item.retry_count < MaxRetries
      /\ item \in Notification /\ item.retry_count \in Nat
  BY <1>0, <1>1, <1>2 DEF DeliveriesBounded, CallerState, Notification
<1> HIDE DEF s
<1>6. /\ rows' \in Seq(Notification) /\ Len(rows') = Len(rows)
      /\ DOMAIN rows' = DOMAIN rows
      /\ \A i \in DOMAIN rows : i # n => rows'[i] = rows[i]
      /\ rows'[n].status = (IF item.status = "retry_scheduled" THEN rows[n].status
                            ELSE "retry_scheduled")
      /\ rows'[n].retry_count = item.retry_count + 1
  BY <1>1, <1>2, <1>5, RetrySaved DEF MarkRetryScheduled
<1>7. /\ caller' \in [Callers -> CallerState] /\ caller'[c] = s
      /\ \A d \in Callers : d # c => caller'[d] = caller[d]
  BY <1>1, <1>3, <1>4 DEF DeliveryTypes
<1>8. DeliveryTypes'
  BY <1>1, <1>2, <1>6, <1>7 DEF DeliveryTypes
<1>9. DeliveriesBounded'
  <2>1. item.retry_count + 1 <= MaxRetries
    BY <1>5, NotificationsAssumption
  <2>2. QED
    BY <1>1, <1>2, <1>4, <1>5, <1>6, <1>7, <2>1 DEF DeliveriesBounded
<1>10. ASSUME NEW i \in DOMAIN rows, i # n PROVE RowInOrder(i)'
  <2>1. ~ CallerOn(c, i) /\ ~ CallerOn(c, i)'
    BY <1>0, <1>4, <1>7, <1>10 DEF CallerOn
  <2>2. Untouched(i)
    BY <1>1, <1>2, <1>3, <1>6, <1>10, <2>1, CallerTouches
  <2>3. QED
    BY <1>1, <2>2, UntouchedKept
<1>11. RowInOrder(n)'
  <2>1. Carried(n)'
    BY <1>4, <1>7 DEF Carried
  <2>2. rows'[n].status = "sent" => sent'[n] > 0
    BY <1>1, <1>2, <1>5, <1>6 DEF RowInOrder
  <2>3. QED
    BY <1>1, <1>2, <1>5, <2>1, <2>2 DEF RowInOrder, WorkerOn
<1>12. QED
  BY <1>6, <1>8, <1>9, <1>10, <1>11 DEF DeliveryInv

\* A request that ends with an error leaves its row behind.
LEMMA CallerFailsKeeps ==
  ASSUME DeliveryInv, NEW c \in Callers, CallerFails(c) PROVE DeliveryInv'
<1> DEFINE n == caller[c].id
<1>1. /\ DeliveryTypes /\ DeliveriesBounded /\ \A i \in DOMAIN rows : RowInOrder(i)
  BY DEF DeliveryInv
<1>2. /\ lost' = (IF caller[c].pc \in {"enqueue", "republish"} THEN lost \cup {n} ELSE lost)
      /\ caller[c].pc # "idle" /\ UNCHANGED <<rows, tasks, worker, sent, retried>>
      /\ caller' = [caller EXCEPT ![c] = Resting]
  BY DEF CallerFails
<1>3. Resting \in CallerState /\ Resting.pc = "idle"
  BY FirstStates
<1>4. /\ caller' \in [Callers -> CallerState] /\ caller'[c] = Resting
      /\ \A d \in Callers : d # c => caller'[d] = caller[d]
  BY <1>1, <1>2, <1>3 DEF DeliveryTypes
<1>5. DeliveryTypes' /\ DeliveriesBounded'
  BY <1>1, <1>2, <1>3, <1>4 DEF DeliveryTypes, DeliveriesBounded
<1>6. ASSUME NEW i \in DOMAIN rows, ~ CallerOn(c, i) PROVE RowInOrder(i)'
  <2>1. ~ CallerOn(c, i)' /\ (i \in lost' <=> i \in lost)
    BY <1>2, <1>3, <1>4, <1>6 DEF CallerOn
  <2>2. Untouched(i)
    BY <1>1, <1>2, <1>6, <2>1, CallerTouches
  <2>3. QED
    BY <1>1, <2>2, UntouchedKept
<1>7. ASSUME NEW i \in DOMAIN rows, CallerOn(c, i) PROVE RowInOrder(i)'
  <2>1. /\ RowInOrder(i) /\ i = n /\ caller[c].pc \in {"enqueue", "mark", "republish"}
        /\ \A d \in Callers : CallerOn(d, i)' => CallerOn(d, i)
    BY <1>1, <1>3, <1>4, <1>7 DEF CallerOn
  <2>2. CASE caller[c].pc = "mark"
    <3>1. i \in retried /\ (Carried(i) => Carried(i)') /\ lost' = lost
      BY <1>1, <1>2, <1>4, <2>1, <2>2 DEF DeliveriesBounded, Carried, WorkerOn
    <3>2. QED
      BY <1>2, <2>1, <3>1 DEF RowInOrder, WorkerOn
  <2>3. CASE caller[c].pc # "mark"
    <3>1. i \in lost'
      BY <1>2, <2>1, <2>3
    <3>2. i \notin retried => Single(i)' /\ InStep(i)'
      BY <1>2, <2>1, <3>1 DEF RowInOrder, Single, InStep, WorkerOn
    <3>3. QED
      BY <1>2, <2>1, <3>1, <3>2 DEF RowInOrder, WorkerOn
  <2>4. QED
    BY <2>1, <2>2, <2>3
<1>8. QED
  BY <1>2, <1>5, <1>6, <1>7 DEF DeliveryInv

-----------------------------------------------------------------------------
(* The workers.                                                            *)

\* A worker goes on with the row it has, or rests.
WorkerGoes(w, s) ==
  /\ s \in WorkerState /\ worker' = [worker EXCEPT ![w] = s]
  /\ worker' \in [Workers -> WorkerState] /\ worker'[w] = s
  /\ \A v \in Workers : v # w => worker'[v] = worker[v]

WorkerGoesTo(w, p) ==
  \E s : /\ WorkerGoes(w, s) /\ s.pc = p
        /\ s.id = worker[w].id /\ s.item = worker[w].item

\* Each change of a worker's state is one of these.
LEMMA WorkerMoved ==
  ASSUME DeliveryTypes, NEW w \in Workers
  PROVE  /\ worker' = [worker EXCEPT ![w] = Resting] => WorkerGoes(w, Resting)
         /\ worker' = [worker EXCEPT ![w].pc = "accepted"] => WorkerGoesTo(w, "accepted")
         /\ worker' = [worker EXCEPT ![w].pc = "refused"] => WorkerGoesTo(w, "refused")
         /\ worker' = [worker EXCEPT ![w].pc = "republish"] => WorkerGoesTo(w, "republish")
<1>1. worker \in [Workers -> WorkerState] /\ worker[w] \in WorkerState
  BY DEF DeliveryTypes
<1>2. ASSUME NEW s \in WorkerState, worker' = [worker EXCEPT ![w] = s] PROVE WorkerGoes(w, s)
  BY <1>1, <1>2 DEF WorkerGoes
<1>3. ASSUME NEW p \in WorkerPoints, worker' = [worker EXCEPT ![w].pc = p]
      PROVE  WorkerGoesTo(w, p)
  <2> DEFINE s == [worker[w] EXCEPT !.pc = p]
  <2>1. /\ s \in WorkerState /\ s.pc = p /\ s.id = worker[w].id
        /\ s.item = worker[w].item /\ worker' = [worker EXCEPT ![w] = s]
    BY <1>1, <1>3 DEF WorkerState
  <2> HIDE DEF s
  <2>2. QED
    BY <1>2, <2>1 DEF WorkerGoesTo
<1>4. QED
  BY <1>2, <1>3, FirstStates DEF WorkerPoints

\* The worker that has row n moves on, and keeps it or leaves it settled or lost: the
\* other rows are in order, and of n is left to say what the worker did to it.
LEMMA WorkerKeeps ==
  ASSUME DeliveryInv, NEW w \in Workers, NEW s, WorkerGoes(w, s),
         UNCHANGED <<caller, retried>>,
         NEW n \in DOMAIN rows, s.pc # "idle" => s.id = n /\ s.item.retry_count <= MaxRetries,
         worker[w].pc # "idle" => worker[w].id = n,
         rows' \in Seq(Notification), Len(rows') = Len(rows),
         \A i \in DOMAIN rows : i # n => rows'[i] = rows[i],
         rows'[n].retry_count <= MaxRetries,
         tasks' \in [Ids -> Nat], sent' \in [Ids -> Nat],
         \A i \in Ids : i # n => tasks'[i] = tasks[i] /\ sent'[i] = sent[i],
         lost' \in {lost, lost \cup {n}},
         RowInOrder(n)'
  PROVE  DeliveryInv'
<1>1. /\ DeliveryTypes /\ DeliveriesBounded /\ \A i \in DOMAIN rows : RowInOrder(i)
      /\ rows \in Seq(Notification) /\ Len(rows) \in Nat /\ Len(rows) <= MaxNotes
      /\ DOMAIN rows = 1 .. Len(rows) /\ DOMAIN rows' = DOMAIN rows
      /\ DOMAIN rows \subseteq Ids
  <2>1. /\ DeliveryTypes /\ DeliveriesBounded /\ \A i \in DOMAIN rows : RowInOrder(i)
        /\ rows \in Seq(Notification) /\ Len(rows) <= MaxNotes
    BY DEF DeliveryInv, DeliveryTypes
  <2>2. /\ Len(rows) \in Nat /\ DOMAIN rows = 1 .. Len(rows)
        /\ DOMAIN rows' = 1 .. Len(rows')
    BY <2>1
  <2>3. DOMAIN rows \subseteq Ids
    BY <2>1, <2>2, NotificationsAssumption DEF Ids
  <2>4. QED
    BY <2>1, <2>2, <2>3
<1>2. DeliveryTypes'
  BY <1>1 DEF DeliveryTypes, WorkerGoes
<1>3. DeliveriesBounded'
  BY <1>1 DEF DeliveriesBounded, WorkerGoes
<1>4. ASSUME NEW i \in DOMAIN rows, i # n PROVE RowInOrder(i)'
  <2>1. ~ WorkerOn(w, i) /\ ~ WorkerOn(w, i)' /\ worker' = [worker EXCEPT ![w] = s]
    BY <1>4 DEF WorkerOn, WorkerGoes
  <2>2. Untouched(i)
    BY <1>1, <1>4, <2>1, WorkerTouches
  <2>3. QED
    BY <1>1, <2>2, UntouchedKept
<1>5. QED
  BY <1>1, <1>2, <1>3, <1>4 DEF DeliveryInv

\* A worker takes a task and loads the row.
LEMMA DeliverKeeps == ASSUME DeliveryInv, NEW w \in Workers, Deliver(w) PROVE DeliveryInv'
<1>1. /\ DeliveryTypes /\ DeliveriesBounded /\ \A i \in DOMAIN rows : RowInOrder(i)
      /\ rows \in Seq(Notification) /\ tasks \in [Ids -> Nat] /\ sent \in [Ids -> Nat]
      /\ DOMAIN rows \subseteq Ids
  BY NotificationsAssumption DEF DeliveryInv, DeliveryTypes, Ids
<1>2. PICK n \in DOMAIN rows :
        /\ tasks[n] > 0 /\ tasks' = [tasks EXCEPT ![n] = @ - 1]
        /\ worker' = [worker EXCEPT ![w] =
                        [Resting EXCEPT !.pc = "send", !.id = n, !.item = rows[n]]]
  BY DEF Deliver
<1>3. UNCHANGED <<rows, caller, sent, retried, lost>> /\ worker[w].pc = "idle"
  BY DEF Deliver
<1>4. PICK s : WorkerGoes(w, s) /\ s.pc = "send" /\ s.id = n /\ s.item = rows[n]
  <2> DEFINE s == [Resting EXCEPT !.pc = "send", !.id = n, !.item = rows[n]]
  <2>1. n \in Nat /\ rows[n] \in Notification
    BY <1>1
  <2>2. s \in WorkerState /\ s.pc = "send" /\ s.id = n /\ s.item = rows[n]
    BY <2>1, FirstStates DEF WorkerState, WorkerPoints
  <2>3. worker' = [worker EXCEPT ![w] = s]
    BY <1>2
  <2> HIDE DEF s
  <2>4. QED
    BY <1>1, <2>2, <2>3 DEF WorkerGoes, DeliveryTypes
<1>5. /\ tasks' \in [Ids -> Nat] /\ tasks'[n] = tasks[n] - 1 /\ tasks[n] \in Nat
      /\ \A i \in Ids : i # n => tasks'[i] = tasks[i]
  BY <1>1, <1>2
<1>6. RowInOrder(n)'
  <2>1. /\ RowInOrder(n) /\ WorkerOn(w, n)' /\ ~ WorkerOn(w, n)
        /\ \A v \in Workers : v # w => (WorkerOn(v, n)' <=> WorkerOn(v, n))
        /\ \A v \in Workers : v # w => worker'[v] = worker[v]
        /\ worker'[w] = s
        /\ \A c \in Callers : CallerOn(c, n)' <=> CallerOn(c, n)
    BY <1>1, <1>3, <1>4 DEF WorkerOn, CallerOn, WorkerGoes
  <2>2. rows[n].status \in WaitingStatus => Carried(n)'
    BY <1>3, <1>4, <2>1 DEF Carried
  <2>3. Pending(n)'
    BY <2>1 DEF Pending, WorkerOn
  <2>4. n \notin retried => Single(n)'
    BY <1>2, <1>3, <1>5, <2>1 DEF RowInOrder, Single
  <2>5. n \notin retried => InStep(n)'
    BY <1>2, <1>3, <1>4, <1>5, <2>1, <2>3 DEF RowInOrder, Single, InStep
  <2>6. QED
    BY <1>3, <1>4, <2>1, <2>2, <2>4, <2>5 DEF RowInOrder
<1>7. s.item.retry_count <= MaxRetries /\ rows'[n].retry_count <= MaxRetries
  BY <1>1, <1>3, <1>4 DEF DeliveriesBounded
<1>8. QED
  BY <1>1, <1>3, <1>4, <1>5, <1>6, <1>7, WorkerKeeps

\* The provider answers.
LEMMA ProviderKeeps ==
  ASSUME DeliveryInv, NEW w \in Workers, ProviderAccepts(w) \/ ProviderRefuses(w)
  PROVE  DeliveryInv'
<1>1. /\ DeliveryTypes /\ DeliveriesBounded /\ \A i \in DOMAIN rows : RowInOrder(i)
      /\ rows \in Seq(Notification) /\ tasks \in [Ids -> Nat] /\ sent \in [Ids -> Nat]
      /\ DOMAIN rows \subseteq Ids
  BY NotificationsAssumption DEF DeliveryInv, DeliveryTypes, Ids
<1>2. worker[w].pc = "send" /\ UNCHANGED <<rows, caller, tasks, retried, lost>>
  BY DEF ProviderAccepts, ProviderRefuses
<1>3. PICK n \in DOMAIN rows : n = worker[w].id /\ worker[w].item.retry_count <= MaxRetries
  BY <1>1, <1>2 DEF DeliveriesBounded
<1>4. PICK p \in {"accepted", "refused"} :
        /\ WorkerGoesTo(w, p)
        /\ sent' = IF p = "accepted" THEN [sent EXCEPT ![n] = @ + 1] ELSE sent
  <2>1. CASE ProviderAccepts(w)
    <3>1. WorkerGoesTo(w, "accepted") /\ sent' = [sent EXCEPT ![n] = @ + 1]
      BY <1>1, <1>3, <2>1, WorkerMoved DEF ProviderAccepts
    <3>2. QED
      BY <3>1
  <2>2. CASE ProviderRefuses(w)
    <3>1. WorkerGoesTo(w, "refused") /\ sent' = sent
      BY <1>1, <2>2, WorkerMoved DEF ProviderRefuses
    <3>2. QED
      BY <3>1
  <2>3. QED
    BY <2>1, <2>2
<1>5. PICK s : WorkerGoes(w, s) /\ s.pc = p /\ s.id = n /\ s.item = worker[w].item
  BY <1>3, <1>4 DEF WorkerGoesTo
<1>6. /\ sent' \in [Ids -> Nat] /\ sent[n] \in Nat
      /\ sent'[n] = (IF p = "accepted" THEN sent[n] + 1 ELSE sent[n])
      /\ \A i \in Ids : i # n => sent'[i] = sent[i]
  BY <1>1, <1>3, <1>4
<1>7. RowInOrder(n)'
  <2>1. /\ RowInOrder(n) /\ WorkerOn(w, n) /\ WorkerOn(w, n)'
        /\ \A v \in Workers : WorkerOn(v, n)' <=> WorkerOn(v, n)
        /\ \A v \in Workers : v # w => worker'[v] = worker[v]
        /\ worker'[w] = s
        /\ \A c \in Callers : CallerOn(c, n)' <=> CallerOn(c, n)
    BY <1>1, <1>2, <1>3, <1>4, <1>5 DEF WorkerOn, CallerOn, WorkerGoes
  <2>2. Carried(n) => Carried(n)'
    BY <1>2, <1>5, <2>1 DEF Carried
  <2>3. Pending(n)'
    BY <2>1 DEF Pending, WorkerOn
  <2>4. n \notin retried => Single(n)'
    BY <1>2, <2>1 DEF RowInOrder, Single
  <2>5. n \notin retried => InStep(n)'
    BY <1>2, <1>5, <1>6, <2>1, <2>3 DEF RowInOrder, Single, InStep, WaitingStatus
  <2>6. QED
    BY <1>2, <1>5, <1>6, <2>1, <2>2, <2>4, <2>5 DEF RowInOrder
<1>8. rows'[n].retry_count <= MaxRetries
  BY <1>1, <1>2 DEF DeliveriesBounded
<1>9. QED
  BY <1>1, <1>2, <1>3, <1>5, <1>6, <1>7, <1>8, WorkerKeeps

\* The worker writes how the delivery ended: sent, or failed with no retries left.
LEMMA SettleKeeps ==
  ASSUME DeliveryInv, NEW w \in Workers, SaveSent(w) \/ SaveFailed(w) PROVE DeliveryInv'
<1>1. /\ DeliveryTypes /\ DeliveriesBounded /\ \A i \in DOMAIN rows : RowInOrder(i)
      /\ tasks \in [Ids -> Nat] /\ sent \in [Ids -> Nat] /\ worker[w] \in WorkerState
      /\ MaxRetries \in Nat
  BY NotificationsAssumption DEF DeliveryInv, DeliveryTypes
<1>2. /\ worker[w].pc \in {"accepted", "refused"} /\ WorkerGoes(w, Resting)
      /\ UNCHANGED <<caller, tasks, sent, retried, lost>>
  BY <1>1, WorkerMoved DEF SaveSent, SaveFailed
<1>3. PICK n \in DOMAIN rows : n = worker[w].id /\ worker[w].item.retry_count <= MaxRetries
  BY <1>1, <1>2 DEF DeliveriesBounded
<1>4. PICK item \in Notification : item = worker[w].item
  BY <1>1 DEF WorkerState
<1>5. PICK end \in {"sent", "failed"} :
        /\ rows' = [rows EXCEPT ![n].status = WriteStatus(n, item, end)]
        /\ end = "sent" <=> worker[w].pc = "accepted"
        /\ end = "failed" => item.retry_count >= MaxRetries
  BY <1>3, <1>4 DEF SaveSent, SaveFailed, MarkSent, MarkFailed
<1>6. /\ rows' \in Seq(Notification) /\ Len(rows') = Len(rows) /\ DOMAIN rows' = DOMAIN rows
      /\ \A i \in DOMAIN rows : i # n => rows'[i] = rows[i]
      /\ rows'[n].status = (IF item.status = end THEN rows[n].status ELSE end)
      /\ rows'[n].retry_count = rows[n].retry_count
  <2>1. end \in NotificationStatus
    BY DEF NotificationStatus
  <2>2. QED
    BY <1>1, <1>5, <2>1, StatusSaved
<1>7. RowInOrder(n)'
  <2>1. /\ RowInOrder(n) /\ WorkerOn(w, n) /\ ~ WorkerOn(w, n)'
        /\ \A v \in Workers : v # w => worker'[v] = worker[v]
        /\ \A v \in Workers : v # w => (WorkerOn(v, n)' <=> WorkerOn(v, n))
        /\ \A c \in Callers : CallerOn(c, n)' <=> CallerOn(c, n)
    <3>1. Resting.pc = "idle" /\ worker'[w] = Resting
      BY <1>2, FirstStates DEF WorkerGoes
    <3>2. RowInOrder(n) /\ WorkerOn(w, n)
      BY <1>1, <1>2, <1>3 DEF WorkerOn
    <3>3. ~ WorkerOn(w, n)'
      BY <3>1 DEF WorkerOn
    <3>4. \A v \in Workers : v # w => worker'[v] = worker[v]
      BY <1>2 DEF WorkerGoes
    <3>5. QED
      BY <1>2, <3>2, <3>3, <3>4 DEF WorkerOn, CallerOn
  <2>2. rows'[n].status \in WaitingStatus /\ n \notin lost' => Carried(n)'
    <3>1. SUFFICES ASSUME rows'[n].status \in WaitingStatus, n \notin lost'
                   PROVE  Carried(n)'
      OBVIOUS
    <3>2. item.status = end /\ rows'[n].status = rows[n].status /\ n \notin lost
      BY <1>2, <1>6, <3>1 DEF WaitingStatus
    <3>3. Carried(n) /\ worker[w].pc # "republish" /\ worker[w].item.status \notin WaitingStatus
      BY <1>2, <1>4, <2>1, <3>1, <3>2 DEF RowInOrder, WaitingStatus
    <3>4. QED
      BY <1>2, <2>1, <3>3 DEF Carried
  <2>3. rows'[n].status = "sent" => sent'[n] > 0
    BY <1>2, <1>5, <1>6, <2>1 DEF RowInOrder
  <2>4. n \notin retried => Single(n)'
    BY <1>2, <2>1 DEF RowInOrder, Single
  <2>5. n \notin retried => InStep(n)'
    <3>1. SUFFICES ASSUME n \notin retried PROVE InStep(n)'
      OBVIOUS
    <3>2. /\ Single(n) /\ InStep(n) /\ item = rows[n] /\ rows[n].status \in WaitingStatus
          /\ sent[n] = (IF end = "sent" THEN 1 ELSE 0)
      BY <1>2, <1>4, <1>5, <2>1, <3>1 DEF RowInOrder, InStep
    <3>3. rows'[n].status = end /\ (end = "failed" => rows'[n].retry_count = MaxRetries)
      <4>1. rows'[n].status = end
        BY <1>6, <3>2 DEF WaitingStatus
      <4>2. rows'[n].retry_count \in Nat /\ item.retry_count <= MaxRetries
        BY <1>3, <1>4, <1>6, <3>2 DEF Notification
      <4>3. QED
        BY <1>1, <1>5, <1>6, <3>2, <4>1, <4>2
    <3>4. /\ tasks[n] = 0 /\ \A c \in Callers : ~ CallerOn(c, n)'
          /\ \A v \in Workers : ~ WorkerOn(v, n)'
      BY <1>1, <2>1, <3>2 DEF Single
    <3>5. QED
      BY <1>2, <3>2, <3>3, <3>4 DEF InStep, Pending
  <2>6. QED
    BY <1>2, <2>1, <2>2, <2>3, <2>4, <2>5 DEF RowInOrder
<1>8. rows'[n].retry_count <= MaxRetries /\ Resting.pc = "idle"
  BY <1>1, <1>6, FirstStates DEF DeliveriesBounded
<1>9. QED
  BY <1>1, <1>2, <1>3, <1>6, <1>7, <1>8, WorkerKeeps

\* A refused delivery is counted, and its worker still has to publish the next one.
LEMMA SaveRetryKeeps == ASSUME DeliveryInv, NEW w \in Workers, SaveRetry(w) PROVE DeliveryInv'
<1>1. /\ DeliveryTypes /\ DeliveriesBounded /\ \A i \in DOMAIN rows : RowInOrder(i)
      /\ tasks \in [Ids -> Nat] /\ sent \in [Ids -> Nat] /\ worker[w] \in WorkerState
      /\ MaxRetries \in Nat
  BY NotificationsAssumption DEF DeliveryInv, DeliveryTypes
<1>2. /\ worker[w].pc = "refused" /\ WorkerGoesTo(w, "republish")
      /\ UNCHANGED <<caller, tasks, sent, retried, lost>>
  BY <1>1, WorkerMoved DEF SaveRetry
<1>3. PICK n \in DOMAIN rows : n = worker[w].id
  BY <1>1, <1>2 DEF DeliveriesBounded
<1>4. PICK item \in Notification : item = worker[w].item /\ item.retry_count < MaxRetries
  BY <1>1 DEF WorkerState, SaveRetry
<1>5. PICK s : WorkerGoes(w, s) /\ s.pc = "republish" /\ s.id = n /\ s.item = item
  BY <1>2, <1>3, <1>4 DEF WorkerGoesTo
<1>6. /\ rows' \in Seq(Notification) /\ Len(rows') = Len(rows) /\ DOMAIN rows' = DOMAIN rows
      /\ \A i \in DOMAIN rows : i # n => rows'[i] = rows[i]
      /\ rows'[n].status = (IF item.status = "retry_scheduled" THEN rows[n].status
                            ELSE "retry_scheduled")
      /\ rows'[n].retry_count = item.retry_count + 1
  BY <1>1, <1>3, <1>4, RetrySaved DEF SaveRetry, MarkRetryScheduled
<1>7. item.retry_count + 1 <= MaxRetries /\ item.retry_count <= MaxRetries
  BY <1>1, <1>4 DEF Notification
<1>8. RowInOrder(n)'
  <2>1. /\ RowInOrder(n) /\ WorkerOn(w, n) /\ WorkerOn(w, n)' /\ worker'[w] = s
        /\ \A v \in Workers : v # w => worker'[v] = worker[v]
        /\ \A v \in Workers : WorkerOn(v, n)' <=> WorkerOn(v, n)
        /\ \A c \in Callers : CallerOn(c, n)' <=> CallerOn(c, n)
    BY <1>1, <1>2, <1>3, <1>5 DEF WorkerOn, CallerOn, WorkerGoes
  <2>2. Carried(n)' /\ Pending(n)'
    BY <1>5, <2>1 DEF Carried, Pending, WorkerOn
  <2>3. rows'[n].status = "sent" => sent'[n] > 0
    BY <1>2, <1>6, <2>1 DEF RowInOrder
  <2>4. n \notin retried => Single(n)'
    BY <1>2, <2>1 DEF RowInOrder, Single
  <2>5. n \notin retried => InStep(n)'
    <3>1. SUFFICES ASSUME n \notin retried PROVE InStep(n)'
      OBVIOUS
    <3>2. /\ Single(n) /\ InStep(n) /\ item = rows[n] /\ rows[n].status \in WaitingStatus
          /\ sent[n] = 0
      BY <1>2, <1>4, <2>1, <3>1 DEF RowInOrder, InStep
    <3>3. rows'[n].status \in WaitingStatus
      BY <1>6, <3>2 DEF WaitingStatus
    <3>4. QED
      BY <1>2, <1>5, <2>1, <2>2, <3>2, <3>3 DEF InStep, Single, WaitingStatus
  <2>6. QED
    BY <1>2, <1>5, <2>1, <2>2, <2>3, <2>4, <2>5 DEF RowInOrder
<1>9. QED
  BY <1>1, <1>2, <1>3, <1>5, <1>6, <1>7, <1>8, WorkerKeeps

\* The next delivery is in the queue, or the worker is gone and the row is lost.
LEMMA LetGoKeeps ==
  ASSUME DeliveryInv, NEW w \in Workers, PublishRetry(w) \/ WorkerFails(w) PROVE DeliveryInv'
<1>1. /\ DeliveryTypes /\ DeliveriesBounded /\ \A i \in DOMAIN rows : RowInOrder(i)
      /\ tasks \in [Ids -> Nat] /\ sent \in [Ids -> Nat] /\ worker[w] \in WorkerState
      /\ rows \in Seq(Notification) /\ DOMAIN rows \subseteq Ids
  BY NotificationsAssumption DEF DeliveryInv, DeliveryTypes, Ids
<1>2. /\ worker[w].pc # "idle" /\ WorkerGoes(w, Resting)
      /\ UNCHANGED <<caller, rows, sent, retried>>
  BY <1>1, WorkerMoved DEF PublishRetry, WorkerFails
<1>3. PICK n \in DOMAIN rows : n = worker[w].id
  BY <1>1, <1>2 DEF DeliveriesBounded
<1>4. \/ tasks' = tasks /\ lost' = lost \cup {n}
      \/ /\ tasks' = [tasks EXCEPT ![n] = @ + 1] /\ lost' = lost
         /\ worker[w].pc = "republish"
  BY <1>3 DEF PublishRetry, WorkerFails, Publish
<1>5. /\ tasks' \in [Ids -> Nat] /\ \A i \in Ids : i # n => tasks'[i] = tasks[i]
  BY <1>1, <1>4
<1>6. RowInOrder(n)'
  <2>1. /\ RowInOrder(n) /\ WorkerOn(w, n) /\ ~ WorkerOn(w, n)'
        /\ \A v \in Workers : v # w => worker'[v] = worker[v]
        /\ \A v \in Workers : v # w => (WorkerOn(v, n)' <=> WorkerOn(v, n))
        /\ \A c \in Callers : CallerOn(c, n)' <=> CallerOn(c, n)
    <3>1. Resting.pc = "idle" /\ worker'[w] = Resting
      BY <1>2, FirstStates DEF WorkerGoes
    <3>2. RowInOrder(n) /\ WorkerOn(w, n)
      BY <1>1, <1>2, <1>3 DEF WorkerOn
    <3>3. ~ WorkerOn(w, n)'
      BY <3>1 DEF WorkerOn
    <3>4. \A v \in Workers : v # w => worker'[v] = worker[v]
      BY <1>2 DEF WorkerGoes
    <3>5. QED
      BY <1>2, <3>2, <3>3, <3>4 DEF WorkerOn, CallerOn
  <2>2. CASE tasks' = tasks /\ lost' = lost \cup {n}
    <3>1. n \notin retried => Single(n)' /\ InStep(n)'
      BY <1>2, <2>1, <2>2 DEF RowInOrder, Single, InStep
    <3>2. QED
      BY <1>2, <2>1, <2>2, <3>1 DEF RowInOrder
  <2>3. CASE tasks' = [tasks EXCEPT ![n] = @ + 1] /\ lost' = lost /\ worker[w].pc = "republish"
    <3>1. tasks'[n] = tasks[n] + 1 /\ tasks[n] \in Nat /\ tasks'[n] > 0
      BY <1>1, <2>3
    <3>2. Carried(n)' /\ Pending(n)'
      BY <3>1 DEF Carried, Pending
    <3>3. n \notin retried => Single(n)'
      BY <1>2, <2>1, <3>1 DEF RowInOrder, Single
    <3>4. n \notin retried => InStep(n)'
      BY <1>2, <2>1, <2>3, <3>2 DEF RowInOrder, Single, InStep
    <3>5. QED
      BY <1>2, <2>1, <3>2, <3>3, <3>4 DEF RowInOrder
  <2>4. QED
    BY <1>4, <2>2, <2>3
<1>7. rows'[n].retry_count <= MaxRetries /\ Resting.pc = "idle"
  BY <1>1, <1>2, FirstStates DEF DeliveriesBounded
<1>8. QED
  BY <1>1, <1>2, <1>3, <1>4, <1>5, <1>6, <1>7, WorkerKeeps

-----------------------------------------------------------------------------
(* The theorems.                                                           *)

\* DeliveryInv is inductive.
THEOREM DeliveryInductive == DeliveryInv /\ [NotificationsNext]_notifVars => DeliveryInv'
<1> SUFFICES ASSUME DeliveryInv, [NotificationsNext]_notifVars PROVE DeliveryInv'
  OBVIOUS
<1>1. ASSUME NEW c \in Callers, Send(c) \/ RequestRetry(c) \/ CallerStep(c) \/ CallerFails(c)
      PROVE  DeliveryInv'
  BY <1>1, SendKeeps, DeliveryCreateKeeps, PublishKeeps, DeliveryRequestKeeps, MarkKeeps, CallerFailsKeeps
  DEF CallerStep
<1>2. ASSUME NEW w \in Workers, WorkerStep(w) \/ WorkerFails(w) PROVE DeliveryInv'
  BY <1>2, DeliverKeeps, ProviderKeeps, SettleKeeps, SaveRetryKeeps, LetGoKeeps DEF WorkerStep
<1>3. CASE UNCHANGED notifVars
  <2>1. UNCHANGED <<rows, tasks, caller, worker, sent, retried, lost>>
    BY <1>3 DEF notifVars
  <2>2. DeliveryTypes' /\ DeliveriesBounded'
    BY <2>1 DEF DeliveryInv, DeliveryTypes, DeliveriesBounded
  <2>3. ASSUME NEW i \in DOMAIN rows PROVE RowInOrder(i)'
    <3>1. Untouched(i)
      BY <2>1 DEF Untouched, CallerOn, WorkerOn
    <3>2. QED
      BY <3>1, UntouchedKept DEF DeliveryInv
  <2>4. QED
    BY <2>1, <2>2, <2>3 DEF DeliveryInv
<1>4. QED
  BY <1>1, <1>2, <1>3 DEF NotificationsNext

\* What the run checks follows from it.
LEMMA DeliveryInvSafe == DeliveryInv => NotificationsSafe /\ TwiceOnlyByRetry
<1> SUFFICES ASSUME DeliveryInv PROVE NotificationsSafe /\ TwiceOnlyByRetry
  OBVIOUS
<1>1. /\ DeliveryTypes /\ DeliveriesBounded /\ \A i \in DOMAIN rows : RowInOrder(i)
  BY DEF DeliveryInv
<1>2. NotificationsTypeOK
  BY <1>1 DEF DeliveryTypes, DeliveriesBounded, NotificationsTypeOK, CallerState, WorkerState,
              CallerPoints, WorkerPoints
<1>3. WaitingIsPending
  BY <1>1 DEF RowInOrder, WaitingStatus, WaitingIsPending, Carried, Pending, WorkerOn
<1>4. SentWasAccepted /\ FailedWasRetried
  BY <1>1 DEF RowInOrder, InStep, SentWasAccepted, FailedWasRetried
<1>5. TwiceOnlyByRetry
  BY <1>1 DEF RowInOrder, InStep, TwiceOnlyByRetry
<1>6. QED
  BY <1>2, <1>3, <1>4, <1>5 DEF NotificationsSafe

\* The row of a notification and its tasks in the broker agree, for any number of callers,
\* workers, retries, overlapping deliveries and faults.
THEOREM NotificationsCorrect == NotificationsSpec => []NotificationsSafe
<1>1. NotificationsSpec => []DeliveryInv
  BY DeliveryInit0, DeliveryInductive, PTL DEF NotificationsSpec
<1>2. QED
  BY <1>1, DeliveryInvSafe, PTL

\* A notification no operator retries reaches its user at most once.
THEOREM DeliveredOnce == NotificationsSpec => []TwiceOnlyByRetry
<1>1. NotificationsSpec => []DeliveryInv
  BY DeliveryInit0, DeliveryInductive, PTL DEF NotificationsSpec
<1>2. QED
  BY <1>1, DeliveryInvSafe, PTL
=============================================================================
