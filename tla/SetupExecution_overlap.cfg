\* The first setup, repairs and additions overlap.
SPECIFICATION OverlapSpec
CONSTANTS
  MaxExecutions = 2
  SetupPlans <- InstallPlans
  AddPlans <- AddedPlans
  ForegroundSetup = FALSE
INVARIANTS SuccessMeansSetUp CreatingIsInProgress FailureIsReported
CHECK_DEADLOCK FALSE
