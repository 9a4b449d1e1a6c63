SPECIFICATION Spec
CONSTANTS
  Claims = {c1, c2}
  worker = worker
  None = None
  Users <- MCUsers
  UserOf <- MCUserOf
  Keys <- MCKeys
  EventKey <- MCEventKey
  Amounts = {1}
  EventAmount = 1
  ApiThreads = {a1, a2}
  Consumers = {}
  Operators = {}
  RetryLimit = 0
  MaxEvents = 0
  MaxFaults = 0
INVARIANTS UniquePayouts ReplyNamesRequest BalanceExtends
