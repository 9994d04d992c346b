CONSTANTS
  None = None
  MaxTime <- MCMaxTime
  Modes <- MCModes

SPECIFICATION ManagerSpec
CHECK_DEADLOCK FALSE

INVARIANT ManagerTypeOK
PROPERTY ResolvedIsNewer
PROPERTY OfferedIsTaken
PROPERTY StepsStable
