\* Two clients that ask for anything in any order, tasks that come and go,
\* devices that fail; the loops run out.
CONSTANTS
  Handlers = {h1, h2}
  Ops = {"start", "stop", "calibrate", "dither", "clear"}
  Loops = {l1, l2}
  None = None
  TasksRun = TRUE
  Faulty = TRUE
  Collides = TRUE
SPECIFICATION FairSpec
INVARIANTS
  
  MountIsNotShared
  
PROPERTIES
  StopReturns
