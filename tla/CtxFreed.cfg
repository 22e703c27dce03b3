SPECIFICATION CtxSpec
CONSTANTS
  MayFail = {}
  Supply = 1
  Stages = {3}
  MaxErrorTasks = 1
  Ctx = {"c1"}
  Thread = {"t1"}
  MaxQueued = 1
INVARIANT JobsKeepContext
