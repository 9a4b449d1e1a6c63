SPECIFICATION NotificationsSpec
CONSTANTS
  Callers = {c1, c2}
  Workers = {w1, w2}
  MaxRetries = 2
  MaxTargets = 2
  MaxNotes = 2
  MaxManual = 1
  MaxFaults = 1
INVARIANTS TwiceOnlyByRetry NotificationsSafe
PROPERTY NotificationsSettle
CHECK_DEADLOCK FALSE
