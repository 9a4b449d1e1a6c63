SPECIFICATION ClaimsFairSpec
CONSTANTS
  None = None
  Claims = {c1}
  Callers = {a1, a2}
  Workers = {w1, w2}
  RetryLimit = 1
  MaxRequests = 2
  MaxCrashes = 1
INVARIANTS ClaimsSafe PaidWasSettled
PROPERTY MessagesSettle
CHECK_DEADLOCK FALSE
