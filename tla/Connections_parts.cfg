SPECIFICATION MCSpec
CONSTANTS
  Callers = {a, b}
  Links = {k1, k2}
  Windows = {v, w}
  Buffer = 1
  None = None
  Terminals = {t1}
  Sessions = {s1, s2}
  PollIds = {1, 2}
  Nothing = Nothing
  Clients = {c1, c2}
  Forwards = {f1, f2, f3}
  Attempts = 2
  Nobody = Nobody
  Workers = {w1, w2}
  Ids = {1, 2}
  NoWorker = NoWorker
  OfferRows = {1, 2}
  OfferWindows = {1, 2}
  Addresses = {p, q, r}
  MaxAddresses = 2
  DriverBudget = 3
  AttachBudget = 5
  ConnBudget = 4
  SessionBudget = 4
  Writers = {u1, u2}
  Bundles = {b1}
  Plugins = {pa}
  Servers = {sa}
  Others = {oa}
  FileBudget = 2
INVARIANTS
  NoLostSignal ChangeReachesService NeverBlocks TurnsOnlyToNews FollowsSwitches ConnectionIsWatched
  InProgressIsOwned OneFollowerSession NoWorkspaceIsLost MutualBestIsMatched
  FilesFollowRow
PROPERTIES KeepsPromise DownIsTriedAgain CreatingSettles
CHECK_DEADLOCK FALSE
