\* Whatever can go wrong: an axis that runs away, commands that fail,
\* cancellations and the threads they leave behind, waits that run out.
CONSTANTS
  Clients = {c1}
  Watchdog = dog
  Ops = {"slew_and_wait", "clear_fault"}
  Cruising = TRUE
  Watching = TRUE
  Unreliable = {"dec"}
  BadLine = TRUE
  Cancellations = TRUE
  LateSlews = TRUE
  MaxOrphans = 1
SPECIFICATION FairSpec
INVARIANTS
  TypeOK
  
PROPERTIES
  MotionEnds
