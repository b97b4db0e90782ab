CONSTANTS
  Clients = {c1, c2}
  Watchdog = dog
  Ops = {"slew_and_wait", "unpark", "clear_fault"}
  Cruising = TRUE
  Watching = TRUE
  Unreliable = {"ra"}
  BadLine = FALSE
  Cancellations = FALSE
  LateSlews = FALSE
  MaxOrphans = 0
SPECIFICATION Spec
PROPERTIES
  HaltRefusesMoves
