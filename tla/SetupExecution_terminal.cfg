SPECIFICATION Spec
CONSTANTS
  MaxExecutions = 2
  SetupPlans <- PlainPlans
  AddPlans <- AddedPlans
  ForegroundSetup = FALSE
INVARIANT ActiveHasTerminal
CHECK_DEADLOCK FALSE
