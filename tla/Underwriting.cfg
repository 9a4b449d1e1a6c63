SPECIFICATION UnderwritingSpec
CONSTANTS
  t1 = t1
  t2 = t2
  Threads = {t1, t2}
  Limit = 1
  Window = 0
  MaxTime = 2
  TrainedScore <- MCTrainedScore
  Consultations <- MCConsultations
  MaxEvals = 2
  MaxFaults = 1
  Applications <- MCApplications
  Waiting = 1
  MaxRequests = 4
  MaxPolicies = 1
SYMMETRY Symmetry
INVARIANTS WindowBound CoverageLawful ActivationsLogged PricesLawful
CHECK_DEADLOCK FALSE
