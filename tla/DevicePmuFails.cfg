SPECIFICATION Spec
CONSTANTS
  MayFail = {"pmu"}
  Supply = 0
  Stages = {3}
  MaxErrorTasks = 1
INVARIANT NoStall
