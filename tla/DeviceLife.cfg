SPECIFICATION CtxSpec
CONSTANTS
  MayFail = {"alloc", "bus", "core", "reset", "regulator", "vm", "iomem",
             "gpPipe", "ppPipe", "register",
             "l2_cache0", "gp", "pp0", "pp1", "gpmmu", "ppmmu0", "ppmmu1"}
  Supply = 1
  Stages = {3}
  MaxErrorTasks = 1
  Ctx = {"c1", "c2"}
  Thread = {"t1", "t2"}
  MaxQueued = 1
INVARIANTS CtxTypeOK AllReturned NoStall UpWhileUsed ErrorsExact CtxRefsExact QueuedHaveEntity
