CONSTANTS
  Clients = {c1}
  Watchdog = dog
  Ops = {"slew_and_wait", "wait_for_slew", "abort_slew", "track_on", "track_off", "park",
         "unpark", "set_home", "move_by", "set_ra_rate_offset", "step_dec",
         "pulse_ra", "pulse_dec", "clear_fault"}
  Cruising = TRUE
  Watching = FALSE
  Unreliable = {}
  BadLine = FALSE
  Cancellations = FALSE
  LateSlews = FALSE
  MaxOrphans = 0
SPECIFICATION Spec
INVARIANTS
  MovesStayInTravel
  ParkedAtHome
  MotionHasAnOwner
