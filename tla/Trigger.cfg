SPECIFICATION TriggerSpec
CONSTANTS
  r1 = r1
  r2 = r2
  c1 = c1
  c2 = c2
  c3 = c3
  rain = rain
  NoConn = NoConn
  Replicas = {r1, r2}
  Conns = {c1, c2, c3}
  PoolOf <- MCPoolOf
  Polls <- MCPolls
  MaxRows = 3
  MaxBreaks = 2
INVARIANTS TriggerSafe
CHECK_DEADLOCK FALSE
