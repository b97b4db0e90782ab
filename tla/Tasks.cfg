\* Three tasks, two clients that cancel; it stops when all tasks are over.
CONSTANTS
  Tasks = {goto, zenith, capture}
  Cleaning = {zenith}
  Callers = {a, b}
  History = 2
  None = None
SPECIFICATION FairSpec
INVARIANTS
  EngineInv
PROPERTIES
  CancelReturns
  RigIsExclusive
CHECK_DEADLOCK FALSE
