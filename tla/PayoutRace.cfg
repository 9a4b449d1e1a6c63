SPECIFICATION FairSpec
CONSTANTS
  Claims = {c1}
  worker = worker
  None = None
  Users <- MCUsers
  UserOf <- MCUserOf
  Keys <- MCKeys
  EventKey <- MCEventKey
  Amounts = {1}
  EventAmount = 1
  ApiThreads = {a1}
  Consumers = {k1}
  Operators = {o1, o2}
  RetryLimit = 1
  MaxEvents = 1
  MaxFaults = 1
INVARIANTS ChargesSound LedgerSound AuditComplete
PROPERTIES ImplementsBook CompletedIsFinal ApprovalsSettle
