\* One setup of two workspaces; a repository with the worktrees of two sessions; the
\* polling of one session and one workspace; two callers of one terminal session.
SPECIFICATION ProgressSpec
CONSTANTS
  MaxExecutions = 1
  SetupPlans <- TwoWorkspacePlans
  AddPlans <- NoPlans
  ForegroundSetup = FALSE
  GitSessions = {g1, g2}
  Branches = {main, x, y}
  Main = main
  NoTree = NoTree
  Detached = Detached
  MaxRows = 3
  MaxLoads = 2
  MaxPolls = 2
  Callers = {c1, c2}
  Names = {work}
  Envs = {env1}
  None = None
  GitBudget = 3
  PollBudget = 2
  MuxBudget = 4
INVARIANTS MuxAfterWorktrees RecordsAgree
PROPERTIES SetupEnds BackgroundEnds BranchesAreRemembered SettledIsShown CallsReturn EventsAreHandled
CHECK_DEADLOCK FALSE
