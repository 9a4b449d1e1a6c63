SPECIFICATION FraudSpec
CONSTANTS
  c1 = c1
  c2 = c2
  worker = worker
  FraudClaims = {c1, c2}
  FraudUserOf <- MCUserOf
  Profiles <- MCProfiles
  Signals <- MCSignals
  ModelShares <- MCShares
  FraudApi = {a1}
  FraudConsumers = {k1}
  FraudRetries = 1
  MaxCalls = 2
  MaxFraudFaults = 1
INVARIANTS FraudSafe FailsAreReported
PROPERTY InitiatedIsChecked
CHECK_DEADLOCK FALSE
