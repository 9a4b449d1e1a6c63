-------------------------- MODULE PayoutRefinement --------------------------
(***************************************************************************)
(* The payout service implements PayoutBook: the claim's state is the      *)
(* status of its row, its charges are those of the gateway, and it is      *)
(* credited when the ledger has an entry for its row.                      *)
(***************************************************************************)
EXTENDS Payout

BookOf(c) ==
  IF RowsByClaim(c) = {} THEN "none"
  ELSE payouts[CHOOSE i \in RowsByClaim(c) : TRUE].status

CreditedClaims == {payouts[ledger[n].tx].claim : n \in DOMAIN ledger}

Book == INSTANCE PayoutBook
  WITH book <- [c \in Claims |-> BookOf(c)], first <- charged,
       again <- recharged, credited <- CreditedClaims

\* Whatever its threads, callers, queues and crashes do, every step of the
\* service is, seen per claim, one step of the book or none.
ImplementsBook == Book!BookSpec
=============================================================================
