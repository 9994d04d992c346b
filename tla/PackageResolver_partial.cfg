CONSTANTS
  None = None
  MaxTime <- MCMaxTime
  Modes <- MCModes

SPECIFICATION ManagerSpec
CHECK_DEADLOCK FALSE

INVARIANT ReturnedPackageComplete
