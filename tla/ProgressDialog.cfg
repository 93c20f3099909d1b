SPECIFICATION FairSpec
CONSTANTS
  Handler <- MCHandler
  NoHandler = NoHandler
  MaxTasks = 3
  Sizes = {0, 1, 2}
INVARIANTS
  IInv
  OneThreadInKernel
  ContextOutlivesTask
  ReportsReachOpenDialog
  EverythingReports
  CodeIsOutcome
  ProgressFits
PROPERTIES
  DialogCanBeLeft
