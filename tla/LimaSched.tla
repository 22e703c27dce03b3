------------------------------ MODULE LimaSched ------------------------------
(***************************************************************************)
(* One lima scheduler pipe (lima_sched.c) with the geometry processor's    *)
(* callbacks (lima_gp.c): the DRM scheduler thread that starts tasks, the  *)
(* interrupt handler that completes them, the timeout handler that resets  *)
(* the core and resubmits, the recovery work item that grows a heap, and   *)
(* the teardown in lima_sched_pipe_fini().                                 *)
(*                                                                         *)
(* Tasks are numbered in dispatch order, so the entity queue is the        *)
(* interval next..submitted and the head of the scheduler's pending list   *)
(* is its least element.  The DRM scheduler and dma_fence are not part of  *)
(* this repository: their steps are modelled from the calls lima makes and *)
(* the callbacks it registers.                                             *)
(***************************************************************************)
EXTENDS Integers, FiniteSets

CONSTANTS
  NumTasks,      \* how many tasks are ever submitted to the pipe
  VMs,           \* address spaces, one per open file
  NoVm,          \* the NULL of pipe->current_vm
  HeapTasks,     \* tasks whose frame names a growable heap BO
  HeapSteps,     \* how often a heap can grow before lima_heap_alloc fails
  HangLimits,    \* values of lima_job_hang_limit
  TimerRaces,    \* may a timeout overlap a completion or a recovery?
  StartFails,    \* may lima_sched_run_job run out of memory or power?
  ResetFails,    \* may a core leave a hard or soft reset unanswered?
  Teardown       \* hang limits with which lima_sched_pipe_fini() may run

ASSUME SchedAssumption ==
  /\ NumTasks \in Nat
  /\ NoVm \notin VMs
  /\ HeapTasks \subseteq 1 .. NumTasks
  /\ HangLimits \subseteq Nat /\ HeapSteps \in Nat
  /\ {TimerRaces, StartFails, ResetFails} \subseteq BOOLEAN /\ Teardown \subseteq HangLimits

Task   == 1 .. NumTasks
NoTask == 0

VARIABLES
  submitted,    \* tasks pushed so far
  next,         \* next task the scheduler thread will pop
  life,         \* the task's memory: not allocated, in use, back in the slab
  vmOf,         \* task->vm
  fence,        \* state of the fence task->fence points to
  parent,       \* s_fence->parent: unset, set, or set with the done callback
  finished,     \* s_fence->finished: pending, signalled, signalled with error
  cancelled,    \* tasks whose finished fence carries -ECANCELED
  karma,        \* drm_sched_job.karma
  recoverable,  \* tasks with task->recoverable set
  executed,     \* history: tasks the hardware ran to completion
  pending,      \* sched->pending_list
  hwCount,      \* sched->hw_rq_count
  thread,       \* where the scheduler thread is in drm_sched_main
  parked,       \* the thread is parked by drm_sched_stop
  timer,        \* work_tdr is queued
  tdr,          \* where lima_sched_timedout_job is
  tdrTask,      \* its argument
  freeGuilty,   \* sched->free_guilty
  hw,           \* what the GP is doing
  hwTask,       \* the task it was given
  intr,         \* an interrupt is raised and not yet taken
  masked,       \* the GP's INT_MASK is 0
  asyncReset,   \* ip->data.async_reset
  irq,          \* where the interrupt handler is
  error,        \* pipe->error
  recover,      \* recover_work is queued
  heapRoom,     \* growth steps left in the heap BO
  currentTask,  \* pipe->current_task
  currentVm,    \* pipe->current_vm
  vmOpen,       \* address spaces whose file is still open
  vmRefs,       \* lima_vm reference counts
  pmUsage,      \* runtime-PM usage counter
  fini,         \* where lima_sched_pipe_fini is
  finiTask,     \* its local variable task
  panic,        \* a NULL or freed pointer was dereferenced
  hangLimit     \* lima_job_hang_limit, set when the module is loaded

taskVars  == <<submitted, next, life, vmOf, fence, parent, finished,
               cancelled, karma, recoverable, executed>>
schedVars == <<pending, hwCount, thread, parked, timer>>
tdrVars   == <<tdr, tdrTask, freeGuilty>>
hwVars    == <<hw, hwTask, intr, masked, asyncReset>>
irqVars   == <<irq, error, recover, heapRoom>>
pipeVars  == <<currentTask, currentVm>>
refVars   == <<vmOpen, vmRefs, pmUsage>>
finiVars  == <<fini, finiTask>>
runVars   == <<taskVars, schedVars, tdrVars, hwVars, irqVars, pipeVars, refVars,
               finiVars, panic>>
vars == <<runVars, hangLimit>>

TaskTypes ==
  /\ submitted \in 0 .. NumTasks /\ next \in 1 .. submitted + 1
  /\ life \in [Task -> {"new", "live", "freed"}]
  /\ vmOf \in [Task -> VMs \cup {NoVm}]
  /\ fence \in [Task -> {"none", "unsignalled", "signalled"}]
  /\ parent \in [Task -> {"none", "set", "attached"}]
  /\ finished \in [Task -> {"no", "ok", "error"}]
  /\ karma \in [Task -> Nat]
  /\ cancelled \subseteq Task /\ recoverable \subseteq Task
  /\ executed \subseteq Task /\ pending \subseteq Task

PipeTypes ==
  /\ hwCount \in Int /\ pmUsage \in Int /\ heapRoom \in 0 .. HeapSteps
  /\ thread \in {"idle", "picked", "prepared", "started"}
  /\ tdr \in {"idle", "taken", "stopped", "reset", "vmput", "cleared",
              "resubmitted", "restarted"}
  /\ tdrTask \in Task \cup {NoTask} /\ hwTask \in Task \cup {NoTask}
  /\ currentTask \in Task \cup {NoTask} /\ finiTask \in Task \cup {NoTask}
  /\ hw \in {"idle", "busy", "complete", "stalled", "errored", "faulted", "hung",
              "loose"}
  /\ irq \in {"none", "entered", "signalled"}
  /\ currentVm \in VMs \cup {NoVm}
  /\ vmOpen \subseteq VMs /\ vmRefs \in [VMs -> Int]
  /\ fini \in {"off", "polling", "wedged", "reset", "drop", "vmput", "cleared",
               "stopped", "done"}

FlagTypes ==
  /\ parked \in BOOLEAN /\ timer \in BOOLEAN /\ freeGuilty \in BOOLEAN
  /\ intr \in BOOLEAN /\ masked \in BOOLEAN /\ asyncReset \in BOOLEAN
  /\ error \in BOOLEAN /\ recover \in BOOLEAN
  /\ panic \in BOOLEAN

TypeOK == TaskTypes /\ PipeTypes /\ FlagTypes

Init ==
  /\ submitted = 0 /\ next = 1
  /\ life = [t \in Task |-> "new"]
  /\ vmOf = [t \in Task |-> NoVm]
  /\ fence = [t \in Task |-> "none"]
  /\ parent = [t \in Task |-> "none"]
  /\ finished = [t \in Task |-> "no"]
  /\ karma = [t \in Task |-> 0]
  /\ cancelled = {} /\ recoverable = {} /\ executed = {} /\ pending = {}
  /\ hwCount = 0 /\ pmUsage = 0
  /\ thread = "idle" /\ parked = FALSE /\ timer = FALSE
  /\ tdr = "idle" /\ tdrTask = NoTask /\ freeGuilty = FALSE
  /\ hw = "idle" /\ hwTask = NoTask /\ intr = FALSE
  /\ masked = FALSE /\ asyncReset = FALSE
  /\ irq = "none" /\ error = FALSE /\ recover = FALSE
  /\ heapRoom = HeapSteps
  /\ currentTask = NoTask /\ currentVm = NoVm
  /\ vmOpen = VMs /\ vmRefs = [v \in VMs |-> 1]
  /\ fini = "off" /\ finiTask = NoTask /\ hangLimit \in HangLimits
  /\ panic = FALSE

-----------------------------------------------------------------------------
(***************************************************************************)
(* Helpers.                                                                *)
(***************************************************************************)

\* The pending list is kept in dispatch order.
IsHead(t) == t \in pending /\ \A u \in pending : t <= u

\* drm_sched_get_cleanup_job: the head, once its result is out.
Reapable(t) == IsHead(t) /\ finished[t] # "no"

\* drm_sched_init's hw_submission is 1: one task on the hardware.
SchedReady_Two == hwCount < 2
SchedReady == hwCount < 1

\* drm_sched_start_timeout: the timer is armed while anything is pending.
Rearmed == timer \/ pending # {}

\* lima_vm_get and lima_vm_put; the NULL pointer is skipped.
VmGet(refs, v) == [refs EXCEPT ![v] = @ + 1]
VmPut_Leaks(refs, v) == refs
VmPut(refs, v) == IF v = NoVm THEN refs ELSE [refs EXCEPT ![v] = @ - 1]

\* The finished fence is signalled with the error it carries, if any.
Outcome(t, result) == IF t \in cancelled THEN "error" ELSE result

\* drm_sched_job_done: the slot is free again, the waiters are released.
JobDone(t, result) ==
  /\ hwCount' = hwCount - 1
  /\ finished' = [finished EXCEPT ![t] = Outcome(t, result)]

\* dma_fence_signal on task->fence: a no-op when signalled already, else the
\* scheduler's callback, if it is attached, finishes the job.
SignalFence_NoCallback(t, result) ==
  fence' = [fence EXCEPT ![t] = "signalled"] /\ UNCHANGED <<hwCount, finished>>
SignalFence(t, result) ==
  /\ fence' = [fence EXCEPT ![t] = "signalled"]
  /\ IF fence[t] = "unsignalled" /\ parent[t] = "attached"
       THEN JobDone(t, result)
       ELSE UNCHANGED <<hwCount, finished>>

\* The tasks lima_sched_free_job is called for drop the VM reference taken by
\* lima_sched_task_init and return to the slab.
FreeJobs(S) ==
  /\ life' = [t \in Task |-> IF t \in S THEN "freed" ELSE life[t]]
  /\ vmRefs' = [v \in VMs |->
                  vmRefs[v] - Cardinality({t \in S : vmOf[t] = v})]

\* What lima_sched_run_job does up to task_run, for a task that is not
\* cancelled: a new fence, a PM reference, current_task.
PrepareRun_NotBusy(t) ==
  /\ fence' = [fence EXCEPT ![t] = "unsignalled"]
  /\ currentTask' = t /\ UNCHANGED pmUsage
PrepareRun(t) ==
  /\ fence' = [fence EXCEPT ![t] = "unsignalled"]
  /\ pmUsage' = pmUsage + 1
  /\ currentTask' = t

\* The MMU is switched to the address space of the task, which the pipe keeps
\* a reference to until the next switch.
SwitchVm_WhenNone(t) ==
  IF currentVm # NoVm THEN UNCHANGED <<vmRefs, currentVm>>
  ELSE vmRefs' = VmGet(vmRefs, vmOf[t]) /\ currentVm' = vmOf[t]
SwitchVm(t) ==
  /\ vmRefs' = VmGet(VmPut(vmRefs, currentVm), vmOf[t])
  /\ currentVm' = vmOf[t]

\* lima_heap_alloc grows the heap until it has the size of its BO.
HeapCanGrow_Always == TRUE
HeapCanGrow == heapRoom > 0

\* A pointer to the current task that must not be followed.
Dangling == currentTask # NoTask /\ life[currentTask] = "freed"

\* lima_gp_task_error: the hard reset masks the interrupts first.  A core that
\* answers is idle and unmasked again; one that does not answer stays masked,
\* and what it does with the task it has, if any, is anyone's guess.  The
\* error lima_gp_hard_reset returns is ignored.
HardReset ==
  /\ intr' = FALSE /\ UNCHANGED asyncReset
  /\ \/ hw' = "idle" /\ hwTask' = NoTask /\ masked' = FALSE
     \/ /\ ResetFails /\ masked' = TRUE
        /\ hw' = IF hw = "idle" THEN "idle" ELSE "loose"
        /\ UNCHANGED hwTask

\* lima_gp_task_fini: the soft reset, unless the last one is still waited for.
SoftReset ==
  /\ IF asyncReset /\ hw # "complete"
       THEN UNCHANGED <<hw, hwTask>>
       ELSE hw' = "idle" /\ hwTask' = NoTask
  /\ masked' = (masked \/ ~asyncReset)
  /\ asyncReset' = TRUE

\* lima_gp_soft_reset_async_wait, whose error lima_gp_task_run ignores.
SoftResetWait ==
  \/ asyncReset /\ masked' = FALSE /\ asyncReset' = FALSE
  \/ (asyncReset => ResetFails) /\ UNCHANGED <<masked, asyncReset>>

\* The rest of lima_sched_run_job: the VM switch, then lima_gp_task_run.
StartRun(t) ==
  /\ SwitchVm(t)
  /\ error' = FALSE
  /\ recoverable' = IF t \in HeapTasks THEN recoverable \cup {t}
                                       ELSE recoverable
  /\ SoftResetWait
  /\ hw' = "busy" /\ hwTask' = t /\ intr' = FALSE

-----------------------------------------------------------------------------
(***************************************************************************)
(* Submission: lima_sched_task_init and lima_sched_context_queue_task,     *)
(* and the release of a file's reference to its address space.             *)
(***************************************************************************)

Submit(v) ==
  /\ submitted < NumTasks /\ v \in vmOpen /\ fini = "off"
  /\ submitted' = submitted + 1
  /\ life' = [life EXCEPT ![submitted'] = "live"]
  /\ vmOf' = [vmOf EXCEPT ![submitted'] = v]
  /\ vmRefs' = VmGet(vmRefs, v)
  /\ UNCHANGED <<next, fence, parent, finished, cancelled, karma, recoverable,
                 executed, schedVars, tdrVars, hwVars, irqVars, pipeVars,
                 vmOpen, pmUsage, finiVars, panic>>

CloseFile(v) ==
  /\ v \in vmOpen
  /\ vmOpen' = vmOpen \ {v}
  /\ vmRefs' = VmPut(vmRefs, v)
  /\ UNCHANGED <<taskVars, schedVars, tdrVars, hwVars, irqVars, pipeVars,
                 pmUsage, finiVars, panic>>

-----------------------------------------------------------------------------
(***************************************************************************)
(* The scheduler thread, drm_sched_main: a finished head is freed before a *)
(* new task is popped, and one task at most is on the hardware.            *)
(***************************************************************************)

ThreadCleanup ==
  /\ thread = "idle" /\ ~parked
  /\ \E t \in Task :
       /\ Reapable(t)
       /\ pending' = pending \ {t}
       /\ FreeJobs({t})
  /\ timer' = (pending' # {})
  /\ UNCHANGED <<submitted, next, vmOf, fence, parent, finished, cancelled,
                 karma, recoverable, executed, hwCount, thread, parked,
                 tdrVars, hwVars, irqVars, pipeVars, vmOpen, pmUsage,
                 finiVars, panic>>

\* ctx->guilty: a task of the context went past the hang limit.  The tasks it
\* still has in the queue are popped with -ECANCELED in their finished fence.
\* A file may have several contexts, so its other tasks may be of another one.
MayBeGuilty(v) == \E t \in Task : vmOf[t] = v /\ karma[t] > hangLimit

ThreadPop ==
  /\ thread = "idle" /\ ~parked
  /\ \A t \in pending : ~Reapable(t)
  /\ SchedReady /\ next <= submitted
  /\ hwCount' = hwCount + 1
  /\ pending' = pending \cup {next}
  /\ timer' = TRUE
  /\ next' = next + 1
  /\ thread' = "picked"
  /\ \/ UNCHANGED cancelled
     \/ MayBeGuilty(vmOf[next]) /\ cancelled' = cancelled \cup {next}
  /\ UNCHANGED <<submitted, life, vmOf, fence, parent, finished, karma,
                 recoverable, executed, parked, tdrVars, hwVars, irqVars,
                 pipeVars, refVars, finiVars, panic>>

\* The thread works on the task it popped last.
Picked == next - 1

ThreadPrepare ==
  /\ thread = "picked" /\ Picked \notin cancelled
  /\ PrepareRun(Picked)
  /\ thread' = "prepared"
  /\ UNCHANGED <<submitted, next, life, vmOf, parent, finished, cancelled,
                 karma, recoverable, executed, pending, hwCount, parked, timer,
                 tdrVars, hwVars, irqVars, currentVm, vmOpen, vmRefs,
                 finiVars, panic>>

\* The task is cancelled, or lima_fence_create or lima_pm_busy fails: run_job
\* returns NULL, and the scheduler takes a NULL fence as a job with nothing
\* left to wait for.
ThreadStartFails ==
  /\ thread = "picked" /\ (StartFails \/ Picked \in cancelled)
  /\ JobDone(Picked, "ok")
  /\ thread' = "idle"
  /\ UNCHANGED <<submitted, next, life, vmOf, fence, parent, cancelled, karma,
                 recoverable, executed, pending, parked, timer, tdrVars,
                 hwVars, irqVars, pipeVars, refVars, finiVars, panic>>

ThreadStart ==
  /\ thread = "prepared"
  /\ StartRun(Picked)
  /\ thread' = "started"
  /\ UNCHANGED <<submitted, next, life, vmOf, fence, parent, finished,
                 cancelled, karma, executed, pending, hwCount, parked, timer,
                 tdrVars, irq, recover, heapRoom, currentTask, vmOpen,
                 pmUsage, finiVars, panic>>

\* run_job returned the fence: attach the callback, or finish the job at once
\* when the interrupt came first.
ThreadReturn ==
  /\ thread = "started"
  /\ IF fence[Picked] = "signalled"
       THEN JobDone(Picked, "ok") /\ parent' = [parent EXCEPT ![Picked] = "set"]
       ELSE /\ parent' = [parent EXCEPT ![Picked] = "attached"]
            /\ UNCHANGED <<hwCount, finished>>
  /\ thread' = "idle"
  /\ UNCHANGED <<submitted, next, life, vmOf, fence, cancelled, karma,
                 recoverable, executed, pending, parked, timer, tdrVars,
                 hwVars, irqVars, pipeVars, refVars, finiVars, panic>>

-----------------------------------------------------------------------------
(***************************************************************************)
(* The hardware: a running task completes, runs out of heap, fails, makes  *)
(* the MMU fault, or hangs without an interrupt; one that did not answer   *)
(* its reset may go on.  INT_MASK is the GP's, not its MMU's: of a masked  *)
(* core only faults are heard.                                             *)
(***************************************************************************)

Working == hw = "busy" \/ (hw = "loose" /\ TimerRaces)

HwEvent(outcome) ==
  /\ Working
  /\ hw' = outcome
  /\ intr' = (outcome = "faulted" \/ (outcome # "hung" /\ ~masked))
  /\ executed' = IF outcome = "complete" THEN executed \cup {hwTask}
                                         ELSE executed
  /\ UNCHANGED <<submitted, next, life, vmOf, fence, parent, finished,
                 cancelled, karma, recoverable, schedVars, tdrVars, hwTask,
                 masked, asyncReset, irqVars, pipeVars, refVars, finiVars, panic>>

HwStep == \E o \in {"complete", "stalled", "errored", "faulted", "hung"} :
            HwEvent(o)

-----------------------------------------------------------------------------
(***************************************************************************)
(* The interrupt handlers: lima_gp_irq_handler, or the MMU's through       *)
(* lima_sched_pipe_mmu_error, up to the call of lima_sched_pipe_task_done, *)
(* then that function in two steps.                                        *)
(***************************************************************************)

\* Anything but completion sets pipe->error: the handlers of the GP and of
\* its MMU, the latter through lima_sched_pipe_mmu_error.
SetsError_NotMmu(event) == event \notin {"complete", "faulted"}
SetsError(event) == event # "complete"

IrqEnter ==
  /\ intr /\ irq = "none"
  /\ intr' = FALSE
  /\ irq' = "entered"
  /\ error' = SetsError(hw)
  /\ recoverable' = IF hw = "errored" THEN recoverable \ {currentTask}
                                      ELSE recoverable
  /\ masked' = (masked \/ hw \in {"stalled", "errored"})
  /\ UNCHANGED <<submitted, next, life, vmOf, fence, parent, finished,
                 cancelled, karma, executed, schedVars, tdrVars, hw, hwTask,
                 asyncReset, recover, heapRoom, pipeVars, refVars, finiVars, panic>>

\* pipe->error: recovery for a recoverable task, else drm_sched_fault, which
\* queues the timeout work at once.
IrqTaskError ==
  /\ irq = "entered" /\ error
  /\ irq' = "none"
  /\ IF currentTask \in recoverable
       THEN recover' = TRUE /\ UNCHANGED timer
       ELSE timer' = TRUE /\ UNCHANGED recover
  /\ UNCHANGED <<taskVars, pending, hwCount, thread, parked, tdrVars, hwVars,
                 error, heapRoom, pipeVars, refVars, finiVars, panic>>

\* Success: soft reset, signal task->fence.
IrqTaskDone ==
  /\ irq = "entered" /\ ~error
  /\ currentTask # NoTask /\ life[currentTask] = "live"
  /\ SoftReset
  /\ SignalFence(currentTask, "ok")
  /\ irq' = "signalled"
  /\ UNCHANGED <<submitted, next, life, vmOf, parent, cancelled, karma,
                 recoverable, executed, pending, thread, parked, timer,
                 tdrVars, intr, error, recover, heapRoom, pipeVars, refVars,
                 finiVars, panic>>

\* task_done does not test current_task before task->fence.
IrqTaskDoneBadPointer ==
  /\ irq = "entered" /\ ~error
  /\ currentTask = NoTask \/ Dangling
  /\ panic' = TRUE
  /\ UNCHANGED <<taskVars, schedVars, tdrVars, hwVars, irqVars, pipeVars,
                 refVars, finiVars>>

\* lima_pm_idle after the signal.
IrqPmIdle ==
  /\ irq = "signalled"
  /\ pmUsage' = pmUsage - 1
  /\ irq' = "none"
  /\ UNCHANGED <<taskVars, schedVars, tdrVars, hwVars, error, recover,
                 heapRoom, pipeVars, vmOpen, vmRefs, finiVars, panic>>

\* lima_sched_recover_work and lima_gp_task_recover: the heap grows and the
\* stalled core resumes, or the pipe is failed.
RecoverGrows ==
  /\ recover /\ currentTask \in HeapTasks /\ life[currentTask] = "live"
  /\ recover' = FALSE
  /\ \/ /\ HeapCanGrow /\ heapRoom' = heapRoom - 1
        /\ hw' = IF hw = "stalled" THEN "busy" ELSE hw
        /\ masked' = FALSE /\ UNCHANGED timer
     \/ timer' = TRUE /\ UNCHANGED <<hw, heapRoom, masked>>
  /\ UNCHANGED <<taskVars, pending, hwCount, thread, parked, tdrVars, hwTask,
                 intr, asyncReset, irq, error, pipeVars, refVars, finiVars, panic>>

\* current_task, or its heap, is a NULL or freed pointer.
RecoverBadPointer ==
  /\ recover
  /\ currentTask \notin HeapTasks \/ Dangling
  /\ panic' = TRUE
  /\ UNCHANGED <<taskVars, schedVars, tdrVars, hwVars, irqVars, pipeVars,
                 refVars, finiVars>>

-----------------------------------------------------------------------------
(***************************************************************************)
(* The timeout work: drm_sched_job_timedout around lima_sched_timedout_job.*)
(* drm_sched_stop parks the thread and detaches the unfinished tasks of    *)
(* the pending list; finished ones are freed, but not the guilty one.      *)
(***************************************************************************)

\* Without TimerRaces a timeout comes long after every handler ran, with the
\* hardware stuck (500 ms against microseconds) or not heard, none comes while
\* the teardown, out of patience, takes the pipe down, and a core that did not
\* answer its reset keeps quiet until it is given another task.
Stuck ==
  /\ hw \in {"complete", "stalled", "errored", "faulted", "hung"}
  /\ ~intr /\ irq = "none" /\ ~recover /\ thread = "idle"

TdrFire ==
  /\ timer /\ tdr = "idle" /\ pending # {}
  /\ TimerRaces \/ (Stuck /\ fini \in {"off", "polling"})
  /\ \E t \in Task : IsHead(t) /\ tdrTask' = t /\ pending' = pending \ {t}
  /\ timer' = FALSE
  /\ tdr' = "taken"
  /\ UNCHANGED <<taskVars, hwCount, thread, parked, freeGuilty, hwVars,
                 irqVars, pipeVars, refVars, finiVars, panic>>

\* The tasks of S whose completion callback drm_sched_stop can still remove.
Detachable(S) == {t \in S : parent[t] = "attached" /\ fence[t] = "unsignalled"}

StopScheduler(S, guilty) ==
  LET kept    == Detachable(S)
      dropped == S \ kept
  IN /\ thread = "idle"
     /\ \A t \in dropped : finished[t] # "no"
     /\ parked' = TRUE
     /\ pending' = kept
     /\ hwCount' = hwCount - Cardinality(kept)
     /\ parent' = [t \in Task |-> IF t \in kept THEN "none" ELSE parent[t]]
     /\ FreeJobs(dropped \ {guilty})
     /\ timer' = FALSE

TdrStop ==
  /\ tdr = "taken"
  /\ StopScheduler(pending \cup {tdrTask}, tdrTask)
  /\ freeGuilty' = (tdrTask \notin Detachable({tdrTask}))
  /\ karma' = [karma EXCEPT ![tdrTask] = @ + 1]
  /\ tdr' = "stopped"
  /\ UNCHANGED <<submitted, next, vmOf, fence, finished, cancelled,
                 recoverable, executed, thread, tdrTask, hwVars, irqVars,
                 pipeVars, vmOpen, pmUsage, finiVars, panic>>

TdrReset_NoTaskError ==
  /\ tdr = "stopped"
  /\ tdr' = "reset"
  /\ UNCHANGED <<taskVars, schedVars, tdrTask, freeGuilty, hwVars, irqVars,
                 pipeVars, refVars, finiVars, panic>>
TdrReset ==
  /\ tdr = "stopped"
  /\ HardReset
  /\ tdr' = "reset"
  /\ UNCHANGED <<taskVars, schedVars, tdrTask, freeGuilty, irqVars, pipeVars,
                 refVars, finiVars, panic>>

TdrVmPut ==
  /\ tdr = "reset"
  /\ vmRefs' = VmPut(vmRefs, currentVm)
  /\ tdr' = "vmput"
  /\ UNCHANGED <<taskVars, schedVars, tdrTask, freeGuilty, hwVars, irqVars,
                 pipeVars, vmOpen, pmUsage, finiVars, panic>>

TdrClear ==
  /\ tdr = "vmput"
  /\ currentVm' = NoVm /\ currentTask' = NoTask
  /\ pmUsage' = pmUsage - 1
  /\ tdr' = "cleared"
  /\ UNCHANGED <<taskVars, schedVars, tdrTask, freeGuilty, hwVars, irqVars,
                 vmOpen, vmRefs, finiVars, panic>>

\* drm_sched_resubmit_jobs: a task past the hang limit is cancelled, and
\* run_job returns NULL for it; any other one runs again.
TdrResubmitNone ==
  /\ tdr = "cleared"
  /\ \A t \in pending : karma[t] > hangLimit \/ StartFails
  /\ cancelled' = cancelled \cup {t \in pending : karma[t] > hangLimit}
  /\ tdr' = "resubmitted"
  /\ UNCHANGED <<submitted, next, life, vmOf, fence, parent, finished, karma,
                 recoverable, executed, schedVars, tdrTask, freeGuilty, hwVars,
                 irqVars, pipeVars, refVars, finiVars, panic>>

TdrResubmit ==
  /\ tdr = "cleared"
  /\ \E t \in pending :
       /\ karma[t] <= hangLimit
       /\ PrepareRun(t) /\ StartRun(t)
       /\ parent' = [parent EXCEPT ![t] = "set"]
  /\ tdr' = "resubmitted"
  /\ UNCHANGED <<submitted, next, life, vmOf, finished, cancelled, karma,
                 executed, schedVars, tdrTask, freeGuilty, irq, recover,
                 heapRoom, vmOpen, finiVars, panic>>

\* drm_sched_start with full_recovery: every task still pending gets its slot
\* back and, if it runs, its callback; a task without a fence is done.
TdrStart_NotFull ==
  /\ tdr = "resubmitted"
  /\ hwCount' = hwCount + Cardinality(pending)
  /\ parked' = FALSE
  /\ tdr' = "restarted"
  /\ UNCHANGED <<taskVars, pending, thread, timer, tdrTask, freeGuilty, hwVars,
                 irqVars, pipeVars, refVars, finiVars, panic>>
TdrStart ==
  /\ tdr = "resubmitted"
  /\ LET runs == {t \in pending : parent[t] = "set" /\ fence[t] = "unsignalled"}
     IN /\ hwCount' = hwCount + Cardinality(runs)
        /\ parent' = [t \in Task |-> IF t \in runs THEN "attached" ELSE parent[t]]
        /\ finished' = [t \in Task |->
              IF t \in pending \ runs THEN Outcome(t, "ok") ELSE finished[t]]
  /\ parked' = FALSE
  /\ timer' = Rearmed
  /\ tdr' = "restarted"
  /\ UNCHANGED <<submitted, next, life, vmOf, fence, cancelled, karma,
                 recoverable, executed, pending, thread, tdrTask, freeGuilty,
                 hwVars, irqVars, pipeVars, refVars, finiVars, panic>>

TdrEnd ==
  /\ tdr = "restarted"
  /\ FreeJobs(IF freeGuilty THEN {tdrTask} ELSE {})
  /\ timer' = Rearmed
  /\ tdr' = "idle" /\ tdrTask' = NoTask /\ freeGuilty' = FALSE
  /\ UNCHANGED <<submitted, next, vmOf, fence, parent, finished, cancelled,
                 karma, recoverable, executed, pending, hwCount, thread,
                 parked, hwVars, irqVars, pipeVars, vmOpen, pmUsage, finiVars,
                 panic>>

-----------------------------------------------------------------------------
(***************************************************************************)
(* Teardown: lima_sched_pipe_fini(), called once every file is closed.     *)
(* Closing destroyed the entities, which waits until the queue is empty    *)
(* and no lima_sched_run_job is under way.                                 *)
(***************************************************************************)

\* The values pipe_task_in_flight() may return: a freed task reads as either.
InFlight ==
  IF currentTask = NoTask THEN {FALSE}
  ELSE IF Dangling THEN BOOLEAN
  ELSE {fence[currentTask] = "unsignalled"}

FiniBegin ==
  /\ hangLimit \in Teardown /\ fini = "off"
  /\ vmOpen = {} /\ next > submitted
  /\ thread \notin {"picked", "prepared"}
  /\ fini' = "polling"
  /\ UNCHANGED <<taskVars, schedVars, tdrVars, hwVars, irqVars, pipeVars,
                 refVars, finiTask, panic>>

\* The poll ends because nothing is in flight, and a task still recorded is
\* dropped.
FiniIdle ==
  /\ fini = "polling" /\ FALSE \in InFlight
  /\ fini' = IF currentTask # NoTask THEN "drop" ELSE "cleared"
  /\ UNCHANGED <<taskVars, schedVars, tdrVars, hwVars, irqVars, pipeVars,
                 refVars, finiTask, panic>>

\* The 2000 ms bound passed.  Without TimerRaces it outlasts a recovery.
FiniGiveUp ==
  /\ fini = "polling" /\ TRUE \in InFlight
  /\ TimerRaces \/ (Stuck /\ tdr = "idle") \/ Dangling
  /\ fini' = "wedged"
  /\ finiTask' = currentTask
  /\ UNCHANGED <<taskVars, schedVars, tdrVars, hwVars, irqVars, pipeVars,
                 refVars, panic>>

FiniReset ==
  /\ fini = "wedged"
  /\ error' = TRUE
  /\ HardReset
  /\ fini' = "reset"
  /\ UNCHANGED <<taskVars, schedVars, tdrVars, irq, recover, heapRoom, pipeVars,
                 refVars, finiTask, panic>>

\* The fence is completed with -ENODEV.
FiniSignal ==
  /\ fini = "reset"
  /\ SignalFence(finiTask, "error")
  /\ fini' = "drop"
  /\ UNCHANGED <<submitted, next, life, vmOf, parent, cancelled, karma,
                 recoverable, executed, pending, thread, parked, timer,
                 tdrVars, hwVars, irqVars, pipeVars, refVars, finiTask, panic>>

FiniVmPut ==
  /\ fini = "drop"
  /\ vmRefs' = VmPut(vmRefs, currentVm)
  /\ fini' = "vmput"
  /\ UNCHANGED <<taskVars, schedVars, tdrVars, hwVars, irqVars, pipeVars,
                 vmOpen, pmUsage, finiTask, panic>>

FiniClear ==
  /\ fini = "vmput"
  /\ currentVm' = NoVm /\ currentTask' = NoTask
  /\ fini' = "cleared"
  /\ UNCHANGED <<taskVars, schedVars, tdrVars, hwVars, irqVars, refVars,
                 finiTask, panic>>

\* drm_sched_stop: without it, what the thread had no time to free stays.
FiniStop_Skipped ==
  /\ fini = "cleared"
  /\ fini' = "stopped"
  /\ UNCHANGED <<taskVars, schedVars, tdrVars, hwVars, irqVars, pipeVars,
                 refVars, finiTask, panic>>
FiniStop ==
  /\ fini = "cleared"
  /\ StopScheduler(pending, NoTask)
  /\ fini' = "stopped"
  /\ UNCHANGED <<submitted, next, vmOf, fence, finished, cancelled, karma,
                 recoverable, executed, thread, tdrVars, hwVars, irqVars,
                 pipeVars, vmOpen, pmUsage, finiTask, panic>>

\* drm_sched_fini: the thread is stopped for good, the timeout work is
\* cancelled or waited for.
FiniEnd ==
  /\ fini = "stopped"
  /\ thread = "idle" /\ tdr = "idle"
  /\ parked' = TRUE /\ timer' = FALSE
  /\ fini' = "done"
  /\ UNCHANGED <<taskVars, pending, hwCount, thread, tdrVars, hwVars, irqVars,
                 pipeVars, refVars, finiTask, panic>>

-----------------------------------------------------------------------------
ThreadStep == ThreadCleanup \/ ThreadPop \/ ThreadPrepare \/ ThreadStartFails
              \/ ThreadStart \/ ThreadReturn
IrqStep == IrqEnter \/ IrqTaskError \/ IrqTaskDone \/ IrqTaskDoneBadPointer
           \/ IrqPmIdle
RecoverStep == RecoverGrows \/ RecoverBadPointer
TdrStep == TdrFire \/ TdrStop \/ TdrReset \/ TdrVmPut \/ TdrClear
           \/ TdrResubmitNone \/ TdrResubmit \/ TdrStart \/ TdrEnd
FiniStep == FiniBegin \/ FiniIdle \/ FiniGiveUp \/ FiniReset \/ FiniSignal
            \/ FiniVmPut \/ FiniClear \/ FiniStop \/ FiniEnd

Next ==
  /\ ~panic /\ UNCHANGED hangLimit
  /\ \/ \E v \in VMs : Submit(v) \/ CloseFile(v)
     \/ ThreadStep
     \/ HwStep
     \/ IrqStep
     \/ RecoverStep
     \/ TdrStep
     \/ FiniStep

Spec == Init /\ [][Next]_vars

\* The kernel's workqueues, interrupt threads and the scheduler thread keep
\* running, and the core either raises an interrupt or hangs.
FairSpec ==
  /\ Spec
  /\ WF_runVars(~panic /\ ThreadStep) /\ WF_runVars(~panic /\ HwStep)
  /\ WF_runVars(~panic /\ IrqStep) /\ WF_runVars(~panic /\ RecoverStep)
  /\ WF_runVars(~panic /\ TdrStep) /\ WF_runVars(~panic /\ FiniStep)

-----------------------------------------------------------------------------
(***************************************************************************)
(* Properties.                                                             *)
(***************************************************************************)
B(condition) == IF condition THEN 1 ELSE 0

\* A task whose run took a PM reference that nothing has given back yet.
Owed(t) == currentTask = t /\ life[t] = "live" /\ fence[t] = "unsignalled"

\* The PM references lima_pm_busy takes are the ones lima_pm_idle gives back:
\* one is held from the start of a run until the interrupt handler, or the
\* timeout handler, ends it.  Only a job that the teardown gives up keeps its
\* reference: lima_sched_pipe_fini calls no lima_pm_idle.
PmBalanced ==
  finiTask = NoTask => pmUsage = B(irq = "signalled") + B(\E t \in Task : Owed(t))

\* While the hardware works, pipe->current_task is the live task it was given,
\* and the installed address space is that task's and still referenced:
\* nothing is freed, switched or completed under a running core.  Of a core
\* that left its last hard reset unanswered nothing is promised until it is
\* given the next task, and everything is from then on.
HwRunsCurrent ==
  hw \notin {"idle", "loose"} =>
    /\ currentTask = hwTask /\ life[hwTask] = "live"
    /\ currentVm = vmOf[hwTask] /\ vmRefs[currentVm] >= 1

\* Every lima_vm reference belongs to an open file, a task that is not freed
\* or pipe->current_vm, and to nothing else: no leak, no double put, across
\* completion, timeout, resubmission and teardown.
VmRefsExact ==
  \A v \in VMs :
    vmRefs[v] = B(v \in vmOpen)
                + Cardinality({t \in Task : life[t] = "live" /\ vmOf[t] = v})
                + B(currentVm = v /\ tdr # "vmput" /\ fini # "vmput")

\* A task whose finished fence reports success was completed by the hardware:
\* an interrupt is never credited to the wrong task.
NoFalseSuccess == \A t \in Task : finished[t] = "ok" => t \in executed

\* lima_sched_free_job comes last: the waiters have their result, and neither
\* the scheduler's list, the timeout handler nor the hardware uses the task,
\* unless the core left its last hard reset unanswered.
FreedIsUnused ==
  \A t \in Task : life[t] = "freed" =>
    /\ finished[t] # "no" /\ t \notin pending
    /\ hwTask # t \/ hw = "loose"
    /\ tdrTask = t => tdr = "restarted" /\ ~freeGuilty

\* A task on the pending list that has no result yet is watched by the timer,
\* unless the timeout handler is at work and has not restarted the scheduler:
\* a hung core cannot block the pipe for ever.
Watched ==
  fini \notin {"stopped", "done"} /\ tdr \in {"idle", "restarted"} =>
    \A t \in pending : finished[t] = "no" => timer

\* When recovery work is due, current_task is the stalled task it is for.
RecoverHasItsTask ==
  recover => currentTask # NoTask /\ currentTask = hwTask /\ hw # "busy"

\* An MMU fault is never answered with heap growth.
MmuFaultIsFinal == ~(recover /\ hw = "faulted")

\* When the teardown evaluates pipe_task_in_flight, the answer is what the
\* hardware is doing, not what a freed task happens to contain.
InFlightIsHonest == fini = "polling" => Cardinality(InFlight) = 1

\* A core that was told to reset has been reset.
ResetsAnswered == hw # "loose"

\* After lima_sched_pipe_fini every task is back in the slab, the core is
\* quiet, or was told to be and did not answer, and no address space is held.
FiniReapsAll ==
  fini = "done" =>
    /\ \A t \in 1 .. submitted : life[t] = "freed"
    /\ hw \in {"idle", "loose"} /\ \A v \in VMs : vmRefs[v] = 0

\* After lima_sched_pipe_fini no PM reference is left.
FiniPowersDown == fini = "done" => pmUsage = B(irq = "signalled")

\* The pipe implements the job queue its clients rely on.
Jobs == INSTANCE LimaJobs WITH count <- submitted, result <- finished
JobsSafe == Jobs!Spec
JobsFair == Jobs!FairSpec

\* A teardown that begins comes to an end, even over a hung core.
FiniTerminates == fini = "polling" ~> fini = "done"

=============================================================================
