SPECIFICATION Spec
CONSTANTS
  NumLines = 3
  BridgeFails = {"irq", "kobject", "dma", "setup"}
  Heap = {"gp"}
  DriverFails = {"dte", "pipe"}
  BusErrors = {2}
  Shared = {1}
  MaxJobs = 2
  MaxTimeouts = 2
INVARIANTS TypeOK NothingLeft HandlerFindsDriver OnJobsVm DeafOnlyAfterBusError AbandonedIsSeen
