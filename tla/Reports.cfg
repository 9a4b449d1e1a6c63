SPECIFICATION ReportsSpec
CONSTANTS
  None = None
  Produced <- MCProduced
  Admins = {m1}
  Dates = {1}
  BucketSize <- MCBucketSize
  Lookback = 1
  MaxTime = 2
  MaxCuts = 1
INVARIANTS ReportsSound TotalsAgree
