SPECIFICATION LearningSpec
CONSTANTS
  None = None
  Heuristic = Heuristic
  Shipped = "shipped"
  Configured = "risk_model_v1"
  Artifacts <- MCArtifacts
  Payloads <- MCPayloads
  Reviews <- MCReviews
  Baselines <- MCBaselines
  MinRows = 1
  HistoryLimit = 1
  SampleSize = 1
  MaxTrainings = 2
  MaxLogs = 2
  MaxReviews = 2
  MaxExports = 2
  MaxStarts = 1
  MaxCuts = 1
  MaxTurns = 3
  LowRisk = LowRisk
  HighRisk = HighRisk
SYMMETRY MCSymmetry
INVARIANTS ModelsAgree TrainedOnReviews
CHECK_DEADLOCK FALSE
