----------------------------- MODULE PayoutBook -----------------------------
(***************************************************************************)
(* What the payout service promises about one claim, without threads, keys *)
(* or messages: at most one payout, charged at most once by its first      *)
(* attempt, completed only after a charge and for ever, failed only if the *)
(* first attempt moved no money, and credited at most once in the ledger.  *)
(***************************************************************************)
EXTENDS Naturals

CONSTANT Claims

VARIABLES
  book,      \* state of the claim's payout
  first,     \* charges made by the first attempt
  again,     \* charges made by retries
  credited   \* claims whose payout is in the ledger

bookVars == <<book, first, again, credited>>

BookInit ==
  /\ book = [c \in Claims |-> "none"]
  /\ first = [c \in Claims |-> 0]
  /\ again = [c \in Claims |-> 0]
  /\ credited = {}

Open(c) ==
  /\ book[c] = "none"
  /\ book' = [book EXCEPT ![c] = "pending"]
  /\ UNCHANGED <<first, again, credited>>

Charge(c) ==
  /\ book[c] = "pending" /\ first[c] = 0
  /\ first' = [first EXCEPT ![c] = 1]
  /\ UNCHANGED <<book, again, credited>>

\* Two retries may both find the payout failed, so the second of them may charge
\* a payout that the first one has completed by then.
ChargeAgain(c) ==
  /\ book[c] \in {"failed", "completed"}
  /\ again' = [again EXCEPT ![c] = @ + 1]
  /\ UNCHANGED <<book, first, credited>>

Complete(c) ==
  /\ \/ book[c] = "pending" /\ first[c] = 1
     \/ book[c] = "failed" /\ again[c] > 0
  /\ book' = [book EXCEPT ![c] = "completed"]
  /\ UNCHANGED <<first, again, credited>>

Fail(c) ==
  /\ book[c] = "pending" /\ first[c] = 0
  /\ book' = [book EXCEPT ![c] = "failed"]
  /\ UNCHANGED <<first, again, credited>>

Credit(c) ==
  /\ book[c] = "completed" /\ c \notin credited
  /\ credited' = credited \cup {c}
  /\ UNCHANGED <<book, first, again>>

BookNext ==
  \E c \in Claims : \/ Open(c) \/ Charge(c) \/ ChargeAgain(c)
                    \/ Complete(c) \/ Fail(c) \/ Credit(c)

BookSpec == BookInit /\ [][BookNext]_bookVars
=============================================================================
