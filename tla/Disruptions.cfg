SPECIFICATION DisruptionsSpec
CONSTANTS
  r1 = r1
  c1 = c1
  rain = rain
  u1 = u1
  u2 = u2
  k1 = k1
  a1 = a1
  a2 = a2
  w1 = w1
  NoConn = NoConn
  Nil = Nil
  Replicas = {r1}
  Conns = {c1}
  PoolOf <- MCPoolOf
  Polls <- MCPolls
  MaxRows = 1
  MaxBreaks = 0
  Events = {1}
  Users <- MCUsers
  Keys = {k1}
  AutoCallers = {a1, a2}
  IntakeWorkers = {w1}
  IntakeRetries = 1
  MaxAuto = 2
  MaxFailures = 2
INVARIANTS IntakeSafe AnswerFits InitiatedOnce AnnouncedNotForgotten
PROPERTY AnnouncedIsCovered
CHECK_DEADLOCK FALSE
