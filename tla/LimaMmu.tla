------------------------------- MODULE LimaMmu -------------------------------
(***************************************************************************)
(* The MMUs and the L2 cache of a Mali-400 MP2 (lima_mmu.c,                *)
(* lima_l2_cache.c) under everything that drives them: bring-up on the     *)
(* platform bus, the interrupt handlers, run_job, the timeout handler and  *)
(* recover_work of both pipes, and teardown.                               *)
(*                                                                         *)
(* Every command to an MMU or the L2 cache may time out.  Where that is    *)
(* only logged the block keeps its state and the driver goes on.  The hard *)
(* resets of the GP and the PPs are answered here; LimaSched and LimaPp    *)
(* have those that are not.                                                *)
(***************************************************************************)
EXTENDS LimaPlatform

CONSTANTS
  Heap,        \* pipes whose tasks are recoverable: {} or {"gp"}
  DriverFails, \* what may fail: "dte", "pipe"
  BusErrors,   \* MMUs that may report a read bus error
  Shared,      \* lines on which another device may interrupt
  MaxJobs,     \* how many jobs an attachment runs
  MaxTimeouts  \* how many commands time out

ASSUME MmuAssumption ==
  /\ Heap \subseteq {"gp"} /\ DriverFails \subseteq {"dte", "pipe"}
  /\ {BusErrors, Shared} \subseteq SUBSET Line
  /\ {MaxJobs, MaxTimeouts} \subseteq Nat /\ NumLines = 3

\* gpmmu, ppmmu0, ppmmu1, each with the interrupt line of the same number.
Mmu  == Line
Must == {1, 2}
Pipe == {"gp", "pp"}
Vm   == 1 .. MaxJobs  \* each job is of another file, and 0 is NULL
Empty == MaxJobs + 1  \* the lima_device's empty_vm
PipeOf(m) == IF m = 1 THEN "gp" ELSE "pp"

\* Threads that flush the L2 cache.
Thread == Pipe \cup {"probe", "recover"}

VARIABLES
  drv,       \* what lima_device_init or lima_device_fini does next
  at,        \* the MMU lima_init_ip is at
  present,   \* MMUs with ip->present
  pipes,     \* pipes that are set up
  reg,       \* the registers of each MMU
  tlb,       \* address spaces each MMU has cached entries of
  status,    \* what the handler of each MMU has read
  pc,        \* what each thread does
  vm,        \* task->vm of the current_task of each pipe
  core,      \* what the processor behind each MMU does
  left,      \* pipe->task: processors that have not reported
  error,     \* pipe->error
  fault,     \* pipes with drm_sched_fault called
  again,     \* recover_work is queued once more while it runs
  jobs,      \* how many jobs were started
  l2Lock,    \* who holds ip->data.lock, or "none"
  loaded,    \* what a thread has read of l2_flush_timeouts
  l2_flush_timeouts, \* for as long as the module is loaded
  abandoned, \* history: flushes that timed out
  timeouts,  \* history: commands that timed out
  deaf,      \* history: MMUs masked with no page fault, and not reset since
  stale      \* history: pipes an MMU of which was rearmed deaf and not reset,
             \* or whose recover_work was overtaken

initVars == <<drv, at, present, pipes>>
mmuVars  == <<reg, tlb, deaf, stale>>
jobVars  == <<vm, core, left, error, fault, again, jobs>>
l2Vars   == <<l2Lock, loaded, l2_flush_timeouts, abandoned>>
vars == <<platformVars, initVars, mmuVars, status, pc, jobVars, l2Vars, timeouts>>

Interrupts == {"pf", "be"}  \* page fault, read bus error
Zero == {"zero"}            \* another device has interrupted

Off == [dte |-> 0, mask |-> FALSE, raw |-> {}, fault |-> FALSE,
        paging |-> FALSE, stall |-> FALSE]

TypeOK ==
  /\ PlatformTypeOK
  /\ drv \in {"off", "l2", "dte", "silence", "request", "reset", "enable", "pipes",
              "unwind", "up", "finiPp", "finiGp", "power"}
  /\ at \in Mmu /\ present \subseteq Mmu /\ pipes \subseteq Pipe
  /\ reg \in [Mmu -> [dte : 0 .. Empty, mask : BOOLEAN,
                      raw : SUBSET Interrupts, fault : BOOLEAN,
                      paging : BOOLEAN, stall : BOOLEAN]]
  /\ tlb \in [Mmu -> SUBSET Vm] /\ status \in [Mmu -> (SUBSET Interrupts) \cup {Zero}]
  /\ pc \in [Thread -> {"idle", "flush", "flushing", "count", "store", "flushed",
                        "run", "resume"}]
  /\ vm \in [Pipe -> Vm \cup {0}]
  /\ core \in [Mmu -> {"idle", "busy", "heap"}]
  /\ left \in [Pipe -> Int] /\ error \in [Pipe -> BOOLEAN] /\ fault \subseteq Pipe
  /\ again \in BOOLEAN /\ l2Lock \in Thread \cup {"none"} /\ deaf \subseteq Mmu
  /\ stale \subseteq Pipe
  /\ loaded \in [Thread -> Nat] /\ l2_flush_timeouts \in Nat /\ abandoned \in Nat
  /\ timeouts \in 0 .. MaxTimeouts /\ jobs \in 0 .. MaxJobs

\* The fields of struct lima_device; the jobs are counted with them.
Cleared ==
  /\ vm' = [p \in Pipe |-> 0] /\ left' = [p \in Pipe |-> 0]
  /\ error' = [p \in Pipe |-> FALSE] /\ fault' = {} /\ again' = FALSE /\ jobs' = 0

Init ==
  /\ PlatformInit
  /\ drv = "off" /\ at = 1 /\ present = {} /\ pipes = {}
  /\ reg = [m \in Mmu |-> Off] /\ tlb = [m \in Mmu |-> {}]
  /\ deaf = {} /\ stale = {}
  /\ status = [m \in Mmu |-> {}] /\ pc = [t \in Thread |-> "idle"]
  /\ vm = [p \in Pipe |-> 0] /\ core = [m \in Mmu |-> "idle"]
  /\ left = [p \in Pipe |-> 0] /\ error = [p \in Pipe |-> FALSE] /\ fault = {}
  /\ again = FALSE
  /\ l2Lock = "none" /\ loaded = [t \in Thread |-> 0]
  /\ l2_flush_timeouts = 0 /\ abandoned = 0 /\ timeouts = 0 /\ jobs = 0

MmusOf(p) == {m \in present : PipeOf(m) = p}

Asserted(m) == reg[m].mask /\ reg[m].raw # {}

\* The commands of the set C time out, as far as the bound allows.
TimeOut(C) == timeouts + Cardinality(C) <= MaxTimeouts
              /\ timeouts' = timeouts + Cardinality(C)
Goto(t, from, to) == pc[t] = from /\ pc' = [pc EXCEPT ![t] = to]

-----------------------------------------------------------------------------
(***************************************************************************)
(* lima_l2_cache_flush: probe, both pipes and recover_work share one L2.   *)
(***************************************************************************)
FlushBegin(t) ==
  /\ Goto(t, "flush", "flushing") /\ l2Lock = "none" /\ l2Lock' = t
  /\ UNCHANGED <<platformVars, initVars, mmuVars, status, jobVars, loaded,
                 l2_flush_timeouts, abandoned, timeouts>>

FlushDone(t) ==
  /\ Goto(t, "flushing", "flushed") /\ l2Lock' = "none"
  /\ UNCHANGED <<platformVars, initVars, mmuVars, status, jobVars, loaded,
                 l2_flush_timeouts, abandoned, timeouts>>

\* err is -ETIMEDOUT: l2_flush_timeouts++ comes after the unlock.
FlushAbandoned(t) ==
  /\ Goto(t, "flushing", "count") /\ l2Lock' = "none"
  /\ TimeOut({t}) /\ abandoned' = abandoned + 1
  /\ UNCHANGED <<platformVars, initVars, mmuVars, status, jobVars, loaded,
                 l2_flush_timeouts>>

CountLoad(t) ==
  /\ Goto(t, "count", "store")
  /\ loaded' = [loaded EXCEPT ![t] = l2_flush_timeouts]
  /\ UNCHANGED <<platformVars, initVars, mmuVars, status, jobVars, l2Lock,
                 l2_flush_timeouts, abandoned, timeouts>>

Incremented_Reset(n) == 0
Incremented(n) == n + 1

CountStore(t) ==
  /\ Goto(t, "store", "flushed")
  /\ l2_flush_timeouts' = Incremented(loaded[t])
  /\ loaded' = [loaded EXCEPT ![t] = 0]
  /\ UNCHANGED <<platformVars, initVars, mmuVars, status, jobVars, l2Lock, abandoned,
                 timeouts>>

Flush(t) == FlushBegin(t) \/ FlushDone(t) \/ FlushAbandoned(t) \/ CountLoad(t)
            \/ CountStore(t)

-----------------------------------------------------------------------------
(***************************************************************************)
(* lima_pdev_probe, as far as the MMUs are concerned.                      *)
(***************************************************************************)

\* devm_kzalloc of the lima_device; the blocks have power, and their registers
\* are what the boot loader or the last user has left.  A recover_work that the
\* last lima_device has left behind is through by now.
Probe ==
  /\ bus = "probe" /\ drv = "off" /\ drv' = "l2" /\ pc["recover"] = "idle"
  /\ Keep(Memory) /\ Goto("probe", "idle", "flush")
  /\ \E r \in {Off, [Off EXCEPT !.raw = Interrupts, !.mask = TRUE]} :
       reg' = [m \in Mmu |-> r]
  /\ stale' = {}
  /\ UNCHANGED <<bus, nirq, held, kobj, dma, lost, published, tag, running, at, present, pipes,
                 tlb, deaf, status, jobVars, l2Vars, timeouts>>

\* lima_l2_cache_init ignores what the flush returns.
L2Init ==
  /\ drv = "l2" /\ drv' = "dte" /\ at' = 1
  /\ Goto("probe", "flushed", "idle")
  /\ UNCHANGED <<platformVars, present, pipes, mmuVars, status, jobVars, l2Vars,
                 timeouts>>

\* lima_init_ip goes to the next block, unless one that must be there failed.
NextIp(ok) ==
  IF ~ok /\ at \in Must THEN drv' = "unwind" /\ UNCHANGED at
  ELSE IF at = NumLines THEN drv' = "pipes" /\ UNCHANGED at
  ELSE drv' = "dte" /\ at' = at + 1

\* platform_get_irq_byname and the DTE self-test of lima_mmu_init.
DteTest ==
  /\ drv = "dte"
  /\ \/ Allocated(at) /\ drv' = "silence" /\ UNCHANGED at
     \/ (~Allocated(at) \/ "dte" \in DriverFails) /\ NextIp(FALSE)
  /\ UNCHANGED <<platformVars, present, pipes, mmuVars, status, pc, jobVars, l2Vars,
                 timeouts>>

\* INT_MASK and INT_CLEAR, before the line goes live.
Silent_NotYet(r) == r
Silent(r) == [r EXCEPT !.mask = FALSE, !.raw = {}]

Silence ==
  /\ drv = "silence" /\ drv' = "request"
  /\ reg' = [reg EXCEPT ![at] = Silent(@)]
  /\ UNCHANGED <<platformVars, at, present, pipes, tlb, deaf, stale, status, pc, jobVars,
                 l2Vars, timeouts>>

RequestIrq ==
  /\ drv = "request"
  /\ \/ Request(at) /\ drv' = "reset" /\ UNCHANGED at
     \/ "setup" \in BridgeFails /\ NextIp(FALSE) /\ UNCHANGED <<tag, devres>>
  /\ UNCHANGED <<bus, nirq, held, kobj, dma, lost, published, running, present, pipes,
                 mmuVars, status, pc, jobVars, l2Vars, timeouts>>

\* HARD_RESET of lima_mmu_hw_init.
HwReset ==
  /\ drv = "reset"
  /\ \/ /\ reg' = [reg EXCEPT ![at] = Off] /\ drv' = "enable" /\ UNCHANGED at
        /\ TimeOut({})
     \/ TimeOut({at}) /\ NextIp(FALSE) /\ UNCHANGED reg
  /\ UNCHANGED <<platformVars, present, pipes, tlb, deaf, stale, status, pc, jobVars, l2Vars>>

HwEnable ==
  /\ drv = "enable"
  /\ \E late \in SUBSET {at} :
       /\ TimeOut(late) /\ NextIp(late = {})
       /\ reg' = [reg EXCEPT ![at].mask = TRUE, ![at].dte = Empty,
                            ![at].paging = (late = {})]
       /\ present' = present \cup ({at} \ late)
  /\ UNCHANGED <<platformVars, pipes, tlb, deaf, stale, status, pc, jobVars, l2Vars>>

\* Both pipes, the DRM device; or err_out5 and the labels after it.
PipesInit ==
  /\ drv = "pipes"
  /\ \/ drv' = "up" /\ pipes' = Pipe /\ ProbeReturns
     \/ /\ "pipe" \in DriverFails /\ drv' = "unwind"
        /\ UNCHANGED <<pipes, bus, published>>
  /\ UNCHANGED <<nirq, held, kobj, dma, lost, tag, devres, running, at, present, mmuVars,
                 status, pc, jobVars, l2Vars, timeouts>>

\* lima_mmu_fini does nothing; the PMU takes the power away.
PowerOff ==
  /\ drv' = "off" /\ present' = {} /\ at' = 1
  /\ reg' = [m \in Mmu |-> Off] /\ tlb' = [m \in Mmu |-> {}] /\ deaf' = deaf \cap running
  /\ UNCHANGED stale

Unwind ==
  /\ drv = "unwind" /\ PowerOff /\ ProbeFails
  /\ UNCHANGED <<nirq, held, kobj, dma, lost, tag, devres, running, pipes, status, pc,
                 jobVars, l2Vars, timeouts>>

-----------------------------------------------------------------------------
(***************************************************************************)
(* lima_pdev_remove.                                                       *)
(***************************************************************************)
\* drm_dev_unregister: no job comes any more.
Remove ==
  /\ Detach /\ drv = "up" /\ drv' = "finiPp"
  /\ UNCHANGED <<at, present, pipes, mmuVars, status, pc, jobVars, l2Vars, timeouts>>

\* Neither the timeout handler nor lima_sched_pipe_fini cancels recover_work or
\* waits for it.
Overtakes(p) ==
  stale' = IF p = "gp" /\ pc["recover"] # "idle" THEN stale \cup {p} ELSE stale

\* An interrupt is served long before a timer runs out: what happens when it
\* is not is in LimaSched.
Serving == {m \in running : status[m] # Zero}
Quiet(p) ==
  \A m \in MmusOf(p) : core[m] # "busy" /\ m \notin Serving /\ ~Asserted(m)

Stopped(p) == core' = [m \in Mmu |-> IF m \in MmusOf(p) THEN "idle" ELSE core[m]]

\* lima_sched_pipe_fini, of a pipe without a job or, when that has not gone
\* after two seconds, of one that it resets.
FiniPipe(p, here, next) ==
  /\ drv = here /\ drv' = next
  /\ pipes' = pipes \ {p} /\ vm' = [vm EXCEPT ![p] = 0] /\ fault' = fault \ {p}
  /\ \/ pc[p] = "idle" /\ UNCHANGED <<pc, core, error>>
     \/ /\ Goto(p, "run", "idle") /\ Quiet(p) /\ Stopped(p)
        /\ error' = [error EXCEPT ![p] = TRUE]
  /\ Overtakes(p)
  /\ UNCHANGED <<platformVars, at, present, reg, tlb, deaf, status, left, again, jobs,
                 l2Vars, timeouts>>

FiniIps ==
  /\ drv = "power" /\ PowerOff /\ RemoveReturns
  /\ UNCHANGED <<nirq, held, kobj, dma, lost, tag, devres, running, pipes, status, pc,
                 jobVars, l2Vars, timeouts>>

-----------------------------------------------------------------------------
(***************************************************************************)
(* run_job of a pipe, up to task_run.                                      *)
(***************************************************************************)
RunJob(p) ==
  /\ drv = "up" /\ jobs < MaxJobs /\ jobs' = jobs + 1
  /\ Goto(p, "idle", "flush")
  /\ vm' = [vm EXCEPT ![p] = jobs']
  /\ UNCHANGED <<platformVars, initVars, mmuVars, status, core, left, error, fault,
                 again, l2Vars, timeouts>>

\* lima_mmu_switch_vm on each MMU of the set; late is where ENABLE_STALL or
\* DISABLE_STALL does not answer, which is logged.
Switched_First(p) == IF MmusOf(p) \cap Must = {} THEN {} ELSE MmusOf(p) \cap Must
Switched(p) == MmusOf(p)

SwitchVm(p) ==
  /\ Goto(p, "flushed", "run")
  /\ \E late \in SUBSET Switched(p) :
       /\ TimeOut(late)
       /\ reg' = [m \in Mmu |-> IF m \in Switched(p)
                                THEN [reg[m] EXCEPT !.dte = vm[p], !.stall = m \in late]
                                ELSE reg[m]]
  /\ tlb' = [m \in Mmu |-> IF m \in Switched(p) THEN {} ELSE tlb[m]]
  \* pipe->task_run, with pipe->error cleared before
  /\ core' = [m \in Mmu |-> IF m \in MmusOf(p) THEN "busy" ELSE core[m]]
  /\ left' = [left EXCEPT ![p] = Cardinality(MmusOf(p))]
  /\ error' = [error EXCEPT ![p] = FALSE]
  /\ UNCHANGED <<platformVars, initVars, deaf, stale, status, vm, fault, again, jobs,
                 l2Vars>>

-----------------------------------------------------------------------------
(***************************************************************************)
(* The processors, and what they report.                                   *)
(***************************************************************************)

\* schedule_work.
Queue ==
  IF pc["recover"] = "idle" THEN pc' = [pc EXCEPT !["recover"] = "flush"] /\ UNCHANGED again
  ELSE UNCHANGED pc /\ again' = (again \/ pc["recover"] # "flush")

\* lima_sched_pipe_task_done: the job ends; or recover_work, if current_task is
\* recoverable; or drm_sched_fault, which does nothing on a scheduler without
\* jobs.  current_task is NULL after a timeout.  Only the PP counts its reports.
Report(p, err) ==
  /\ left' = [left EXCEPT ![p] = @ - 1]
  /\ error' = [error EXCEPT ![p] = @ \/ err]
  /\ IF p = "pp" /\ left[p] # 1 THEN UNCHANGED <<pc, fault, again>>
     ELSE IF ~error'[p] THEN pc' = [pc EXCEPT ![p] = "idle"] /\ UNCHANGED <<fault, again>>
     ELSE IF p \in Heap /\ vm[p] # 0 THEN Queue /\ UNCHANGED fault
     ELSE /\ fault' = IF pc[p] = "idle" THEN fault ELSE fault \cup {p}
          /\ UNCHANGED <<pc, again>>

Works(m) == core[m] = "busy" /\ reg[m].paging /\ ~reg[m].stall /\ ~reg[m].fault

\* Its accesses leave entries in the TLB.
Used(m) == tlb' = [tlb EXCEPT ![m] = @ \cup (IF Works(m) THEN {reg[m].dte} ELSE {})]

Becomes(m, what) == core' = [core EXCEPT ![m] = what]

CoreDone(m) ==
  /\ Works(m) /\ Becomes(m, "idle") /\ Used(m) /\ Report(PipeOf(m), FALSE)
  /\ UNCHANGED <<platformVars, initVars, reg, deaf, stale, status, vm, jobs, l2Vars, timeouts>>

\* A page fault or a bus error stops it, or it just hangs.
CoreStops(m) ==
  /\ core[m] = "busy" /\ Becomes(m, "idle") /\ Used(m)
  /\ \/ UNCHANGED reg
     \/ Works(m) /\ reg' = [reg EXCEPT ![m].raw = @ \cup {"pf"}, ![m].fault = TRUE]
     \/ Works(m) /\ m \in BusErrors /\ reg' = [reg EXCEPT ![m].raw = @ \cup {"be"}]
  /\ UNCHANGED <<platformVars, initVars, deaf, stale, status, pc, vm, left, error, fault,
                 again, jobs, l2Vars, timeouts>>

\* The GP's heap is full: its handler schedules recover_work.
OutOfHeap ==
  /\ Works(1) /\ "gp" \in Heap /\ Becomes(1, "heap") /\ Used(1)
  /\ Queue
  /\ UNCHANGED <<platformVars, initVars, reg, deaf, stale, status, vm, left, error, fault, jobs,
                 l2Vars, timeouts>>

\* lima_mmu_flush_tlb and task_recover: the GP goes on, or drm_sched_fault.  A
\* work that was overtaken does it to the next job.
Recover ==
  /\ vm["gp"] # 0
  /\ Goto("recover", "flushed", IF again THEN "flush" ELSE "idle") /\ again' = FALSE
  /\ tlb' = [m \in Mmu |-> IF m \in MmusOf("gp") THEN {} ELSE tlb[m]]
  /\ \/ core' = [core EXCEPT ![1] = IF @ = "heap" THEN "busy" ELSE @] /\ UNCHANGED fault
     \/ /\ fault' = IF pc["gp"] = "idle" THEN fault ELSE fault \cup {"gp"}
        /\ UNCHANGED core
  /\ UNCHANGED <<platformVars, initVars, reg, deaf, stale, status, vm, left, error, jobs,
                 l2Vars, timeouts>>

\* Without a current_task it follows NULL, as LimaSched has it; with the pipe
\* gone it follows what may be anything.  Neither is followed any further.
RecoverLost ==
  /\ vm["gp"] = 0
  /\ Goto("recover", "flushed", "idle") /\ again' = FALSE
  /\ UNCHANGED <<platformVars, initVars, mmuVars, status, vm, core, left, error, fault,
                 jobs, l2Vars, timeouts>>

-----------------------------------------------------------------------------
(***************************************************************************)
(* lima_mmu_irq_handler, and lima_sched_pipe_mmu_error.                    *)
(***************************************************************************)
\* INT_STATUS is 0 if it is another device that has interrupted; after
\* lima_mmu_fini, too, as far as one can tell of a block without power.
HandlerReads(m) ==
  /\ Asserted(m) \/ m \in Shared
  /\ Enter(m)
  /\ status' = [status EXCEPT ![m] = IF Asserted(m) THEN reg[m].raw ELSE Zero]
  /\ UNCHANGED <<bus, nirq, held, kobj, dma, lost, published, tag, devres, initVars,
                 mmuVars, pc, jobVars, l2Vars, timeouts>>

\* IRQ_NONE.
HandlerReturns(m) ==
  /\ status[m] = Zero /\ Leave(m) /\ status' = [status EXCEPT ![m] = {}]
  /\ UNCHANGED <<bus, nirq, held, kobj, dma, lost, published, tag, devres, initVars,
                 mmuVars, pc, jobVars, l2Vars, timeouts>>

\* INT_MASK, INT_CLEAR.
HandlerMasks(m) ==
  /\ status[m] \notin {{}, Zero} /\ status' = [status EXCEPT ![m] = {}]
  /\ reg' = [reg EXCEPT ![m].mask = FALSE, ![m].raw = @ \ status[m]]
  /\ deaf' = IF reg[m].fault THEN deaf ELSE deaf \cup {m}
  /\ UNCHANGED <<platformVars, initVars, tlb, stale, pc, jobVars, l2Vars, timeouts>>

HandlerReports(m) ==
  /\ status[m] = {} /\ Leave(m)
  /\ Report(PipeOf(m), TRUE)
  /\ UNCHANGED <<bus, nirq, held, kobj, dma, lost, published, tag, devres, initVars, mmuVars,
                 status, vm, core, jobs, l2Vars, timeouts>>

Handler(m) == HandlerReads(m) \/ HandlerReturns(m) \/ HandlerMasks(m) \/ HandlerReports(m)

-----------------------------------------------------------------------------
(***************************************************************************)
(* lima_sched_timedout_job: the pipe's cores are reset, then its MMUs.     *)
(***************************************************************************)

TimedOut(p) ==
  /\ Goto(p, "run", "resume") /\ (p \in fault \/ Quiet(p))
  /\ Stopped(p) /\ Overtakes(p)
  /\ UNCHANGED <<platformVars, initVars, reg, tlb, deaf, status, vm, left, error, fault,
                 again, jobs, l2Vars, timeouts>>

\* lima_mmu_page_fault_resume, which looks at PAGE_FAULT_ACTIVE only; late is
\* where HARD_RESET does not answer, and what is written next stands anyway;
\* slow is where ENABLE_PAGING does not.
Faulted(p) == {m \in MmusOf(p) : reg[m].fault}
Rearm_NoMask(r, ok) == [(IF ok THEN Off ELSE r) EXCEPT !.dte = Empty]
Rearm(r, ok) == [(IF ok THEN Off ELSE r) EXCEPT !.mask = TRUE, !.dte = Empty]

PageFaultResume(p) ==
  /\ Goto(p, "resume", "idle")
  /\ \E late \in SUBSET Faulted(p) : \E slow \in SUBSET (Faulted(p) \ late) :
       /\ TimeOut(late \cup slow)
       /\ reg' = [m \in Mmu |->
            IF m \notin Faulted(p) THEN reg[m]
            ELSE [Rearm(reg[m], m \notin late) EXCEPT !.paging = @ \/ m \notin late \cup slow]]
       /\ tlb' = [m \in Mmu |-> IF m \in Faulted(p) \ late THEN {} ELSE tlb[m]]
       /\ deaf' = deaf \ (Faulted(p) \ late)
       /\ stale' = IF late \cap deaf = {} THEN stale ELSE stale \cup {p}
  /\ vm' = [vm EXCEPT ![p] = 0] /\ fault' = fault \ {p}
  /\ UNCHANGED <<platformVars, initVars, status, core, left, error, again, jobs, l2Vars>>

-----------------------------------------------------------------------------
ProbeSteps == Probe \/ L2Init \/ DteTest \/ Silence \/ RequestIrq \/ HwReset
              \/ HwEnable \/ PipesInit \/ Unwind
RemoveSteps == Remove \/ FiniPipe("pp", "finiPp", "finiGp")
               \/ FiniPipe("gp", "finiGp", "power") \/ FiniIps

\* The lima_device is the last on the devres list.
BridgeSteps ==
  /\ Bridge /\ UNCHANGED <<initVars, mmuVars, status, pc, core, l2Vars, timeouts>>
  /\ IF bus = "put" /\ devres' = <<>> THEN Cleared ELSE UNCHANGED jobVars
Hw == (\E m \in Mmu : CoreDone(m) \/ CoreStops(m)) \/ OutOfHeap
Scheduler(p) == SwitchVm(p) \/ TimedOut(p) \/ PageFaultResume(p)

Next ==
  \/ BridgeSteps \/ ProbeSteps \/ RemoveSteps \/ Hw \/ Recover \/ RecoverLost
  \/ \E t \in Thread : Flush(t)
  \/ \E p \in Pipe : RunJob(p) \/ Scheduler(p)
  \/ \E m \in Mmu : Handler(m)

Spec == Init /\ [][Next]_vars

-----------------------------------------------------------------------------
(***************************************************************************)
(* Properties.                                                             *)
(***************************************************************************)

\* An interrupt handler finds what it follows pointers to: the irqe and the
\* lima_device on the devres list and, if it has read an interrupt, the blocks
\* with power and the pipe it reports to set up.  lima_mmu_init silences an MMU
\* before its line goes live, and devres frees lines before the memory they use.
\* (An MMU that a bus error has masked, and that then does not answer
\* HARD_RESET, is unmasked with the old interrupt pending, after the job.  It is
\* reported to a job it is not about, which may time out while the pipe's
\* interrupts are still handled: pipe and power may go before the handlers are
\* through.  An overtaken recover_work that fails the next job of the GP does
\* the same.)
HandlerFindsDriver ==
  \A m \in running :
    /\ {m, Memory} \subseteq {devres[n] : n \in DOMAIN devres}
    /\ \/ status[m] = Zero
       \/ drv # "off" /\ PipeOf(m) \in pipes
       \/ PipeOf(m) \in stale

\* The same of recover_work, and of a handler that has read 0.  The first is
\* false if a timeout handler or lima_sched_pipe_fini overtakes the work, the
\* second if another device interrupts after lima_mmu_fini and before detach
\* tears the line down: the handler reads a register of a block without power.
RecoverFindsPipe == pc["recover"] # "idle" => "gp" \in pipes
ReadsWithPower == running # {} => drv # "off" \/ stale # {}

\* A processor at work is behind an MMU with its job's address space, and no
\* TLB entry of another one is left: a job never reaches the memory of another
\* file, whatever commands were not answered.
OnJobsVm ==
  \A m \in Mmu : core[m] \in {"busy", "heap"} =>
    reg[m].dte = vm[PipeOf(m)] /\ tlb[m] \subseteq {vm[PipeOf(m)]}

\* A fault of a processor at work raises an interrupt, except after a bus
\* error: its handler masks the MMU too ("mask all interrupts before resume"),
\* but lima_mmu_page_fault_resume rearms only after a page fault.  (So does a
\* handler that masks an MMU which the timeout handler has reset before that.)
DeafOnlyAfterBusError ==
  \A m \in Mmu : core[m] = "busy" => reg[m].mask \/ m \in deaf \/ PipeOf(m) \in stale

\* l2_flush_timeouts is the sole evidence that a flush was abandoned.  Two
\* pipes may count at once and lose one, but none is made up, and once the
\* counting is over one at least is seen.
AbandonedIsSeen ==
  /\ l2_flush_timeouts <= abandoned
  /\ abandoned > 0 => \/ l2_flush_timeouts > 0
                      \/ \E t \in Thread : pc[t] \in {"count", "store"}
=============================================================================
