SPECIFICATION Spec
CONSTANTS
  NumTasks = 2
  VMs = {v1, v2}
  NoVm = NoVm
  HeapTasks = {1}
  HeapSteps = 2
  HangLimits = {0}
  TimerRaces = FALSE
  ResetFails = FALSE
  StartFails = FALSE
  Teardown = {}
CHECK_DEADLOCK FALSE
INVARIANT MmuFaultIsFinal
