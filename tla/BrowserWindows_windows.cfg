\* Two sessions and a page.  The panel of two sessions with two blockers, a tab and a pull
\* request each.
\* Chrome with two windows and two tabs.  A list of two sessions.
SPECIFICATION MCSpec
CONSTANTS
  Sessions = {s1, s2}
  RowIds = {1, 2, 3}
  WindowIds = {1, 2}
  Pages = {p}
  MaxRestored = 2
  MaxFaults = 1
  LoadTakesFocus = TRUE
  Budget = 3
  Owners = {d1, d2}
  Nobody = Nobody
  Blockers = 2
  Tabs = 1
  Links = 1
  BundleNames = {e1}
  MaxAnswers = 1
  PanelBudget = 6
  ChromeWindows = {g1, g2}
  ChromeTabs = {y1, y2}
  NoWindow = NoWindow
  MaxPollErrors = 3
  ScriptBudget = 2
  Shelf = {l1, l2}
  NoOne = NoOne
INVARIANTS OneOwner DeletedAreForgotten NoOrphan QuitIsNotClosing SettledIsTold OnlyConfirmed
PROPERTIES OnlyUserForgets PanelFollowsUser
SYMMETRY Symmetric
CHECK_DEADLOCK FALSE
