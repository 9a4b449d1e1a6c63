------------------------------- MODULE Sessions -------------------------------
(***************************************************************************)
(* The identity service's sessions (src/backend/services/identity-service): *)
(* registration, login, rotation of refresh tokens and logout, one action  *)
(* per database statement.                                                 *)
(***************************************************************************)
EXTENDS Naturals, SequencesExt

CONSTANTS
  Jobs,      \* executions of requests
  Phones,    \* phone numbers; a phone and its e-mail address go together
  Accounts,  \* phones that have an account and one session at the start
  MaxDeaths  \* bound: failing statements and crashes

ASSUME SessionsAssumption ==
  /\ Phones # {} /\ IsFiniteSet(Accounts) /\ Accounts \subseteq Phones
  /\ MaxDeaths \in Nat

VARIABLES
  users,    \* phones with an account
  tokens,   \* refresh_tokens; a row's index stands for its jti
  denied,   \* revoked_tokens
  job,      \* the thread of each request
  deaths

svars == <<users, tokens, denied, job, deaths>>

-----------------------------------------------------------------------------
Token == DOMAIN tokens

Active(k) == tokens[k].active

NoJob == [pc |-> "none", op |-> "login", phone |-> CHOOSE p \in Phones : TRUE,
          token |-> 0, fresh |-> 0, denied |-> {}]

At(j, point) == job[j].pc = point
To(j, point) == job' = [job EXCEPT ![j].pc = point]

Ended(j) == job[j].pc \in {"ok", "refused", "error"}

SessionsInit ==
  /\ users = Accounts
  /\ tokens = [i \in 1 .. Cardinality(Accounts) |->
                 [phone |-> SetToSeq(Accounts)[i], parent |-> 0, active |-> TRUE]]
  /\ denied = {}
  /\ job = [j \in Jobs |-> NoJob]
  /\ deaths = 0

-----------------------------------------------------------------------------
(* Plausible mistakes, each in the place of the action it is named after.  *)

\* RevokeToken, after the new token exists and not before.
RevokeTokenLater(j) ==
  /\ At(j, "revoke") /\ To(j, IF job[j].op = "logout" THEN "deny" ELSE "create")
  /\ tokens' = IF job[j].op = "logout" THEN [tokens EXCEPT ![job[j].token].active = FALSE]
               ELSE tokens
  /\ UNCHANGED <<users, denied, deaths>>

-----------------------------------------------------------------------------
(* The entry points.                                                       *)

Begin(j, record) ==
  /\ At(j, "none") /\ job' = [job EXCEPT ![j] = [record EXCEPT !.denied = denied]]
  /\ UNCHANGED <<users, tokens, denied, deaths>>

Register(j, p) == Begin(j, [NoJob EXCEPT !.pc = "check", !.op = "register", !.phone = p])
Login(j, p) == Begin(j, [NoJob EXCEPT !.pc = "check", !.op = "login", !.phone = p])
Refresh(j, k) ==
  Begin(j, [NoJob EXCEPT !.pc = "find", !.op = "refresh", !.token = k,
                         !.phone = tokens[k].phone])
Logout(j, k) == Begin(j, [NoJob EXCEPT !.pc = "find", !.op = "logout", !.token = k,
                                       !.phone = tokens[k].phone])

\* get_by_phone and get_by_email
CheckPhone(j) ==
  /\ At(j, "check")
  /\ To(j, CASE job[j].op = "register" /\ job[j].phone \notin users -> "insert"
             [] job[j].op = "login" /\ job[j].phone \in users -> "create"
             [] OTHER -> "refused")
  /\ UNCHANGED <<users, tokens, denied, deaths>>

\* users.phone and users.email are UNIQUE: the loser of a race is an error.
InsertUser(j) ==
  /\ At(j, "insert")
  /\ To(j, IF job[j].phone \in users THEN "error" ELSE "create")
  /\ users' = users \cup {job[j].phone}
  /\ UNCHANGED <<tokens, denied, deaths>>

\* get_active, and get_by_id of a user, whom nothing deletes; logout denies the token also when it is revoked already.
FindToken(j) ==
  /\ At(j, "find")
  /\ To(j, CASE Active(job[j].token) -> "revoke"
             [] ~ Active(job[j].token) /\ job[j].op = "logout" -> "deny"
             [] OTHER -> "refused")
  /\ UNCHANGED <<users, tokens, denied, deaths>>

\* The row read by FindToken is written whatever happened to it since.
RevokeToken(j) ==
  /\ At(j, "revoke") /\ To(j, IF job[j].op = "logout" THEN "deny" ELSE "create")
  /\ tokens' = [tokens EXCEPT ![job[j].token].active = FALSE]
  /\ UNCHANGED <<users, denied, deaths>>

CreateToken(j) ==
  /\ At(j, "create")
  /\ tokens' = Append(tokens, [phone |-> job[j].phone, parent |-> job[j].token,
                               active |-> TRUE])
  /\ job' = [job EXCEPT ![j].pc = "ok", ![j].fresh = Len(tokens')]
  /\ UNCHANGED <<users, denied, deaths>>

\* revoked_tokens.token_jti is UNIQUE: a second logout is an error.
DenyToken(j) ==
  /\ At(j, "deny")
  /\ To(j, IF job[j].token \in denied THEN "error" ELSE "ok")
  /\ denied' = denied \cup {job[j].token}
  /\ UNCHANGED <<users, tokens, deaths>>

\* A statement fails, or the process dies and the connection breaks.
JobDies(j) ==
  /\ deaths < MaxDeaths /\ deaths' = deaths + 1
  /\ ~ At(j, "none") /\ ~ Ended(j) /\ To(j, "error")
  /\ UNCHANGED <<users, tokens, denied>>

JobStep(j) ==
  \/ CheckPhone(j) \/ InsertUser(j) \/ FindToken(j) \/ RevokeToken(j)
  \/ CreateToken(j) \/ DenyToken(j)

-----------------------------------------------------------------------------
(* Properties.                                                             *)

\* The state has the shape of the three tables and the request threads.
SessionsTypeOK ==
  /\ users \subseteq Phones
  /\ tokens \in Seq([phone : Phones, parent : Nat, active : BOOLEAN])
  /\ denied \subseteq Token /\ deaths \in Nat
  /\ \A j \in Jobs : job[j].token \in Token \cup {0} /\ job[j].fresh \in Token \cup {0}

\* Rotation never leaves both tokens usable: what a refresh token was exchanged
\* for exists only after the token itself was revoked, and belongs to the same
\* account; also when the exchange dies in the middle.
RotationRevokes ==
  \A n \in Token : tokens[n].parent # 0 =>
    /\ ~ Active(tokens[n].parent)
    /\ tokens[n].phone = tokens[tokens[n].parent].phone

\* A refresh that begins after a logout of its token has been recorded yields
\* nothing, however long the logout and other refreshes of the token overlap.
LogoutEnds ==
  /\ denied \subseteq {k \in Token : ~ Active(k)}
  /\ \A j \in Jobs :
       job[j].op = "refresh" /\ job[j].token \in job[j].denied
         => job[j].pc \in {"find", "refused", "error"}

Registered(j) == job[j].op = "register" /\ job[j].pc \in {"create", "ok"}

\* Whoever holds a session has an account, and a registration succeeds for at most
\* one caller of a phone.
OneAccount ==
  /\ \A n \in Token : tokens[n].phone \in users
  /\ \A i, j \in Jobs :
       Registered(i) /\ Registered(j) /\ job[i].phone = job[j].phone => i = j
=============================================================================
