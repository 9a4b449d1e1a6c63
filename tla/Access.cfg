SPECIFICATION AccessSpec
CONSTANTS
  q1 = q1
  q2 = q2
  q3 = q3
  Calls = {q1, q2}
  Attempts = 2
  FailureThreshold = 1
  OpenFor = 1
  Quota = 1
  MaxTime = 2
  Jobs <- MCJobs
  Phones = {p1, p2}
  Accounts = {p1}
  MaxDeaths = 1
INVARIANTS GatewaySafe AccessSafe
PROPERTIES ClosedEarlyByOlderCall CallsAnswered
CHECK_DEADLOCK FALSE
