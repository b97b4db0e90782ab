CONSTANTS
  MountDrivers = {simulator, synta}
  CameraDrivers = {simulator, zwo}
  Simulator = simulator
  FirstMount = simulator
  FirstCamera = simulator
  Rates = {slow, fast}
  Requesters = {p1, p2}
  MaxRequests = 3
  MaxRestarts = 1
  None = None
SPECIFICATION Spec
SYMMETRY Symmetry
INVARIANTS
  StoredIsDriven
  OnTheRig
  
  AlwaysADevice
CHECK_DEADLOCK FALSE
