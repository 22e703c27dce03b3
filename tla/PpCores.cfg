SPECIFICATION FairSpec
CONSTANTS
  NumCores = 3
  NumTasks = 2
  Pipes = {FALSE, TRUE}
  SharedLine = FALSE
  TimerRaces = FALSE
  StartRaces = FALSE
  ResetFails = {FALSE}
CHECK_DEADLOCK FALSE
INVARIANT TypeOK
INVARIANT CountExact
INVARIANT DoneMeansRendered
INVARIANT BusyIsUnmasked
PROPERTY EveryTaskEnds
