SPECIFICATION FairSpec
CONSTANTS
  NumTasks = 2
  VMs = {v1, v2}
  NoVm = NoVm
  HeapTasks = {1}
  HeapSteps = 2
  HangLimits = {0, 1}
  TimerRaces = FALSE
  ResetFails = TRUE
  StartFails = FALSE
  Teardown = {0}
CHECK_DEADLOCK FALSE
INVARIANT TypeOK
INVARIANT PmBalanced
INVARIANT HwRunsCurrent
INVARIANT NoFalseSuccess
INVARIANT FreedIsUnused
INVARIANT FiniReapsAll
PROPERTY FiniTerminates
PROPERTY JobsFair
