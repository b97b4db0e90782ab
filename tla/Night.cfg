SPECIFICATION Spec
CONSTANTS
  t1 = t1
  t2 = t2
  Targets = {t1, t2}
  Plan <- MCPlan
  Kinds = {"session", "goto", "moon", "capture", "focus", "sweep", "zenith", "reframe", "watch"}
  Frames = 2
  MaxPasses = 2
  Points = 2
  Samples = 3
  Backlash = 2
  Slack = 2
  MaxPosition = 6
  Start = 3
  MaxTasks = 2
  MaxRequests = 2
  None = None
INVARIANTS
  
  
  SlackIsTakenUp
PROPERTIES
  RunsInTurn
  RunEnds
CHECK_DEADLOCK FALSE
