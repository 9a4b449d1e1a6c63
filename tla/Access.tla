-------------------------------- MODULE Access --------------------------------
(***************************************************************************)
(* Clients who register, log in, rotate and end sessions through the       *)
(* gateway: every attempt the gateway sends is a request thread of the     *)
(* identity service, and an attempt the gateway gave up on goes on there.  *)
(***************************************************************************)
EXTENDS Gateway, Sessions

ASSUME JobsAreTries == Jobs = Tries

VARIABLES
  wish,   \* what each call asks for
  known   \* refresh tokens that clients have been handed

avars == <<gvars, svars, wish, known>>

NoWish == [op |-> "login", phone |-> CHOOSE p \in Phones : TRUE, token |-> 0]

AccessInit ==
  /\ GatewayInit /\ SessionsInit
  /\ wish = [c \in Calls |-> NoWish]
  /\ known = Token

\* A client calls with a phone, or with a token it was handed.
ClientCalls(c) ==
  /\ Arrive(c)
  /\ \/ \E op \in {"register", "login"}, p \in Phones :
          wish' = [wish EXCEPT ![c] = [op |-> op, phone |-> p, token |-> 0]]
     \/ \E op \in {"refresh", "logout"}, k \in known :
          wish' = [wish EXCEPT ![c] = [op |-> op, phone |-> tokens[k].phone, token |-> k]]
  /\ UNCHANGED <<svars, known>>

GatewayMoves(c) ==
  /\ CheckCircuit(c) \/ SendAttempt(c) \/ AttemptFails(c)
  /\ UNCHANGED <<svars, wish, known>>

\* The client gets the answer, with the tokens in it.
Relay(c) ==
  /\ AnswerArrives(c)
  /\ known' = known \cup ({job[Current(c)].fresh} \ {0})
  /\ UNCHANGED <<svars, wish>>

\* An attempt reaches the identity service and gets a thread.
AttemptReceived(a) ==
  LET w == wish[a[1]] IN
  /\ attempt[a] = "sent"
  /\ CASE w.op = "register" -> Register(a, w.phone)
       [] w.op = "login" -> Login(a, w.phone)
       [] w.op = "refresh" -> Refresh(a, w.token)
       [] OTHER -> Logout(a, w.token)
  /\ UNCHANGED <<gvars, wish, known>>

\* The thread's last step sends the answer; the gateway may not be waiting for it
\* any more.
JobMoves(a) ==
  /\ JobStep(a) \/ JobDies(a)
  /\ IF Ended(a)' THEN Serve(a) ELSE UNCHANGED gvars
  /\ UNCHANGED <<wish, known>>

TimePasses ==
  /\ Tick
  /\ UNCHANGED <<svars, wish, known>>

AccessNext ==
  \/ \E c \in Calls : ClientCalls(c) \/ GatewayMoves(c) \/ Relay(c)
  \/ \E a \in Tries : AttemptReceived(a) \/ JobMoves(a)
  \/ TimePasses

\* The gateway's coroutines and timers run; nothing is assumed of clients, of the
\* network or of the identity service.
AccessSpec ==
  /\ AccessInit /\ [][AccessNext]_avars
  /\ \A c \in Calls : WF_avars(GatewayMoves(c))

-----------------------------------------------------------------------------
(* Properties of the composition.                                          *)

FirstTokens == 1 .. Cardinality(Accounts)

\* A token a client was handed came with the answer to one of its own attempts and
\* was committed before; answers that nobody waited for hand out nothing.
HeldTokensExist ==
  \A k \in known \ FirstTokens :
    \E c \in Calls :
      /\ call[c].pc = "relayed" /\ job[Current(c)].fresh = k
      /\ wish[c].phone = tokens[k].phone

\* A client that is told its registration, login or refresh failed can still be
\* the owner of a session nobody knows of, but only if the gateway repeated the
\* call or gave up on it, or the identity service broke down after its commit.
UnknownSessions ==
  \A k \in Token \ known :
    \E j \in Jobs :
      /\ job[j].fresh = k
      /\ \/ ~ Answered(j[1])
         \/ call[j[1]].pc = "unreachable"
         \/ call[j[1]].pc = "relayed" /\ call[j[1]].try > j[2]

\* Through the gateway's repeated and abandoned attempts: a rotated or logged-out token
\* is of no more use, a session has one account and one registration, and a session
\* that its client does not know of is the work of a repeated or unanswered attempt.
AccessSafe ==
  /\ SessionsTypeOK /\ RotationRevokes /\ LogoutEnds /\ OneAccount
  /\ HeldTokensExist /\ UnknownSessions
=============================================================================
