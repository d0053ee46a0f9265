SPECIFICATION Spec
CONSTANTS
  alpha = alpha
  Sessions = {s1, s2}
  Names = {alpha}
  NameOf <- SameName
  WorkspacesOf <- SameWorkspace
  Callers = {c1}
  Follower = follower
  Job = job
  None = None
  MaxRequests = 4
PROPERTY RootKept
CHECK_DEADLOCK FALSE
