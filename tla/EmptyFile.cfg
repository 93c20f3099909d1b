SPECIFICATION Spec
CONSTANTS
  Handler <- MCHandler
  NoHandler = NoHandler
  MaxTasks = 1
  Sizes = {0, 1}
INVARIANTS
  PercentIsDefined
