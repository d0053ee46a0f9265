SPECIFICATION Spec
CONSTANTS
  MaxExecutions = 1
  SetupPlans <- TwoInstallPlans
  AddPlans <- NoPlans
  ForegroundSetup = FALSE
INVARIANT EveryStepRuns
CHECK_DEADLOCK FALSE
