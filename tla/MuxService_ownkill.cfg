SPECIFICATION MCSpec
CONSTANTS
  Callers = {c1}
  Names = {work}
  Envs = {env1}
  None = None
  Budget = 4
INVARIANTS OwnKillUnpublished
CHECK_DEADLOCK FALSE
