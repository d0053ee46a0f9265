\* Two sessions of one name; a pull request; two directories that are cloned into and
\* migrated; a form with two workspaces and two branches.
SPECIFICATION RecordsSpec
CONSTANTS
  alpha = alpha
  s1 = s1
  s2 = s2
  Sessions = {s1, s2}
  Names = {alpha}
  NameOf <- SameName
  WorkspacesOf <- OwnWorkspaces
  Callers = {c1, c2}
  Follower = follower
  Job = job
  None = None
  MaxRequests = 3
  ItemIds = {1, 2}
  OwnItems <- OwnComment
  Heads = {h1, h2}
  Runs = {r1}
  NoHead = NoHead
  Folders = {f1, f2}
  Slots = {o1, o2}
  MaxSpaces = 3
  Places = {p1, p2}
  BranchNames = {n1, n2}
  Unknown = Unknown
  MaxCreates = 1
  PRBudget = 2
  SpaceBudget = 4
  FormBudget = 7
INVARIANTS CreatingIsInProgress EachIsToldOnce BusyIsAtWork WorkIsKept FormFollowsUser
PROPERTY StatusSettles
CHECK_DEADLOCK FALSE
