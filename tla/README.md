# The lima FreeBSD driver in TLA+

The repository is a FreeBSD port of the Linux driver for the Mali-400 GPU: a
DRM scheduler in front of each hardware pipe, one GPU address space per open
file with page tables in the GPU's format, GEM buffer objects backed by shmem
pages, and a small platform bus that stands in for Linux's. This directory
holds its specification: TLA+ modules for its components, TLC configurations
that check them on small instances, and TLAPS proofs.

## 1. The system

### 1.1 Components, their state and how they interact

| component | source | state | operations |
|---|---|---|---|
| GP scheduler pipe | `lima_sched.c`, `lima_gp.c` | task memory, `task->fence`, `pipe->current_task`, `pipe->current_vm`, `pipe->error`, recovery work, PM usage; the DRM scheduler's pending list, slot, timer | `lima_sched_task_init`, `run_job`, `timedout_job`, `free_job`, `recover_work`, `pipe_fini`, the GP interrupt handler |
| PP pipe | `lima_pp.c` | per-core reset flag and interrupt state, `pipe->task` (cores still working), `pipe->done`, `pipe->error` | `task_run`, the per-core and broadcast interrupt handlers, `task_fini`, `task_error`, `task_mmu_error` |
| address spaces | `lima_vm.c`, `lima_vm.h` | page directory and tables, address ranges, the `bo->va` list with its `ref_count`, the VM refcount | `bo_add`, `bo_del`, `get_va`, `map_bo`, `create`, `release` |
| buffer objects, submission | `lima_gem.c` | GEM handles, GEM references, heap size, scatter table, wired pages | `create_handle`, `open`, `close`, `submit`, `heap_alloc`, `wait`, `free` |
| shmem helper | `drm/drm_gem_shmem_helper.c`, `_logic.h` | `pages_use_count`, `vmap_use_count`, `pages`, `vaddr`, `sgt`, `madv`, wired pages, mapped PTEs | `get_pages`, `put_pages`, `pin`, `vmap`, `vunmap`, `get_pages_sgt`, `madvise`, `purge`, `fault`, `vm_open`, `vm_close`, `mmap`, `free` |
| device life cycle | `lima_device.c` | clock and regulator stages, IP blocks present, pipes, `error_task_list` | `device_init`, `device_fini`, `suspend`, `resume` |
| contexts | `lima_ctx.c` | id table, context refcount, two scheduler entities | `create`, `free`, `get`, `put`, `mgr_fini` |
| driver entry points | `lima_drv.c` | open files, error-dump reader | ioctls, `open`, `postclose`, `probe`, `remove`, the error-state sysctl |
| MMU | `lima_mmu.c` | page directory register, interrupt mask, stall and paging state, TLB | `init`, `hw_init`, `switch_vm`, `flush_tlb`, the interrupt handler, `page_fault_resume` |
| L2 cache | `lima_l2_cache.c` | its lock, the module's count of abandoned flushes | `flush`, `init` |
| PMU, BCAST, DLBU | `lima_pmu.c`, `lima_bcast.c`, `lima_dlbu.c` | powered domains; the other two are stubs | power-up, power-down |
| platform bus | `linux/platform_device.c`, `platform_logic.h` | published devices, interrupt slots, DMA tags | attach, detach, `request_irq`, `free_irq`, resource lookup |

Calls run from the ioctls (`lima_drv.c`) to submission (`lima_gem.c`), which
takes references to buffer objects and to the file's address space, creates a
task and pushes it on a context's entity. The scheduler thread of a pipe starts
it; the core's interrupt handler, shared with the MMU's, completes it or queues
either the heap-recovery work or the timeout work. The timeout work stops the
scheduler, resets the core, and starts what is left again. `free_job` gives the
task's references back, later and from another thread. Device detach runs the
whole construction backwards.

### 1.2 What is hard

- Four threads of control act on one pipe with no common lock: scheduler
  thread, interrupt handler, recovery work, timeout work; teardown is a fifth.
- `pipe->current_task` outlives its task, and completion does not clear it.
- A task may run twice; what its first run took must be given back once.
- The timer is what stands between a hung core and clients that wait for ever.
- Reference counts are taken in one thread and dropped in another: VM, GEM
  object, mapping `ref_count`, shmem page and vmap counts, runtime PM.
- Long init sequences that fail in the middle, and their unwinding.
- A heap BO that grows while it is mapped, in one address space of several.

The full list, with its lines, is `hazards` in `PROJECT.json`.

## 2. Plan

The scheduler pipe comes first: it is where the threads meet. Then the parts
whose counters it relies on, then what brings them up and takes them down. All
of it is done:

1. `LimaJobs`, `LimaSched` and three modules of proofs (`LimaSchedProofs`,
`LimaSchedOrderProofs`, `LimaSchedCalmProofs`): one pipe and the abstract job
queue it implements. 2. `LimaPp`, `LimaPpProofs`: the counter and the mask that
join several cores to one task. 3. `LimaGem` (with `MCGem`), `LimaGemProofs`:
mappings, references and the unwinding of a submission, heap growth beside it. 4.
`ShmemGem`, `ShmemGemProofs`: the use counts of pages and kernel mappings. 5.
`LimaDevice`: bring-up, unwinding, suspend, resume and teardown. 6. `LimaCtx`:
contexts, their references and entities, composed with `LimaDevice`;
`LimaCtxProofs` proves the theorems about both. 7. `LimaPlatform`, `LimaMmu`,
`LimaMmuProofs`: the platform bus with the MMUs and the L2 cache on it, under both
pipes.

The list of runs is kept to twelve, so that all of it is checked together in a
few minutes; `PROJECT.json` lists the hazards no property of them covers, each
with the reason. What remains to be done is in section 6.

## 3. The modules

### 3.1 `LimaSched`: one scheduler pipe

| code | model |
|---|---|
| `drm_sched_main` and `lima_sched_run_job` | `Thread...` actions, program counter `thread` |
| GP and MMU interrupt, `lima_sched_pipe_task_done` | `Irq...`, program counter `irq` |
| `lima_sched_recover_work` | `Recover...`, flag `recover` |
| `drm_sched_job_timedout` with `lima_sched_timedout_job` | `Tdr...`, program counter `tdr` |
| `lima_sched_pipe_fini` | `Fini...`, program counter `fini` |

Tasks are numbered in the order of their dispatch. The DRM scheduler and
`dma_fence` are not part of the repository; their steps are modelled from the
calls of the driver with the semantics of Linux 6.6: a `NULL` from `run_job` is a
job that is done without an error, finished jobs are freed before the next one
is popped, `drm_sched_stop` parks the thread, detaches fences that are not
signalled and frees the others, and a job whose karma exceeds the hang limit is
cancelled when it is resubmitted, and its context is guilty from then on: the
tasks that this context still has in the queue are popped cancelled, and
`lima_sched_run_job` returns `NULL` for them. Files may have several contexts, so
`ThreadPop` may or may not cancel a task of an address space with a guilty one.

A core may leave a reset unanswered (`ResetFails`). `lima_gp_hard_reset` then
returns early: the core has not been reset, `INT_MASK` stays 0 (`masked`), and
`lima_gp_task_error` ignores the error. If the core was at work it is `loose`:
nothing is known of it until `lima_gp_task_run` gives it the next task. The soft
reset after each task (`asyncReset`) and the wait for it at the next start are
there as well, with the timeout of that wait, which leaves the core masked. A
masked core works unheard, and its task ends by the timer.

`LimaJobs` is the promise: every task gets exactly one result, results come in
dispatch order, and none waits for ever. `LimaSched` implements it by
`count <- submitted, result <- finished`. `JobsFair` is checked where a timeout
does not overlap other work, `JobsSafe` where it does.

### 3.2 `LimaPp`: several cores, one task

Each core, its interrupt handler and that of its MMU are separate, and a handler
is cut between its register read, the handling and the decrement of `pipe->task`.
The soft reset that leaves a core masked, the wait for it at the next start and
the hard reset of the timeout are all there (`asyncReset`, `rawReset`,
`unmasked`), and so are their timeouts: `Deaf` is the choice of cores that do not
answer, which stay masked, and `unanswered` remembers them. `bcast` is chosen from
`Pipes` at the start: with it the Mali-450's broadcast handler runs, with its loop
over the cores and the mask `pipe->done`. The scheduler around it is reduced to
one task at a time and a hang limit of 0.

### 3.3 `LimaGem`: objects, mappings, submissions

A file is named by its address space. `submit` holds the program counter of
`lima_gem_submit` with how far its loop got, so that any later call may fail and
unwind from there; `grow` does the same for `lima_heap_alloc`. `lima_bo_va` is
its `ref_count` (`vaRefs`), page tables are the set of mapped pages of each
object. `MCGem` gives the object lists: a shared texture and a heap, one list
naming the texture twice.

### 3.4 `ShmemGem`: pages and kernel mappings

Every function of the helper runs under the object's `dma_resv` and is one
action; what is done outside the lock, the drop of the GEM reference at the end
of `drm_gem_shmem_vm_close`, is an action of its own (`VmClosePut`). The object
is a record of the helper's fields, the functions on it (`GetPages`, `PutPages`,
`VmapObject`...) are operators, and the actions say who calls them.

The mappings of one object share one pager object and its one `vm_area_struct`,
which is closed when the last of them goes (`drm/PURGE-NOTES.md:163-181` and
`230-237`); but every `mmap` runs `drm_gem_mmap_obj` and
`drm_gem_shmem_get_pages`. So `vmas` is the set of mappings, `VmClose` the end of
the last and `Unmap` that of any other, which calls nothing. `joined` counts the
`mmap`s that found the `vm_area_struct` in use: what each took is not given back,
and the object is then never freed (a hazard of `PROJECT.json`; `LetGoIsFreed`
below). Whether a copy of a mapping, by `fork` for example, calls
`drm_gem_shmem_vm_open` is the pager's business: it may (`VmOpen`) or not
(`Copy`).

### 3.5 `LimaDevice`: the life of the device

`pc` is where probe, remove, suspend or resume is. Every operation of
`lima_device_init` and `lima_pdev_probe` is an action that succeeds or goes to
the label its error leads to; the labels and `lima_device_fini` undo the same
things in the same order, so they share their actions. The table of blocks is
that of a Mali-400 MP2. `Touch` stands for an access to registers: if a block
has no clock or no power, `stalled` is set. Beside it, a job runs on each pipe,
finishes or hangs, times out, and leaves an entry in the error list, which the
sysctl `hw.lima_error` clears.

With `Supply = 1` there is a regulator. The shim `linux/regulator/consumer.h`
never finds one; the run has the driver's code with one, which goes through all
labels, and every property also holds with `Supply = 0`.

### 3.6 `LimaCtx`: contexts over the device

`LimaCtx` extends `LimaDevice`: its next-state relation is the device's, with the
file, the context table, `mgr->lock`, the reference counts, the entities and
their queues beside it, so a job of `LimaDevice` is one that an entity held.
`act` and `on` say what each thread is doing to which context; the last `Put`
starts `lima_ctx_do_release`, which gives up the two entities one after the
other (`Release`), under `mgr->lock` when `lima_ctx_free` dropped the last
reference. `Pop` is `drm_sched_main` with `Submit` of the device. That nothing is
added to what the device does is theorem `CtxRunsOnDevice`.

### 3.7 `LimaPlatform` and `LimaMmu`: the bus, the MMUs and the L2 cache

`LimaPlatform` is `lkpi_platform_bus_attach` with its unwinding,
`lkpi_platform_bus_detach`, and the interrupt lines: `bus` says where attach or
detach is, `devres` is the release list, newest first, with the driver's memory on
it as well as its lines. `lkpi_platform_dma_init` leaves behind the first busdma
tag if the second fails, and both, on purpose, if the layout of the private
structure is not the one it expects: `dma` is the tags that exist, `lost` those
nothing points to any more. `LimaMmu` extends it with a driver whose probe and
remove bring three MMUs and the L2 cache up and down, and runs jobs on both pipes.
`TimeOut` lets any command to a block stay unanswered, as far as `MaxTimeouts`
allows; the driver then logs and goes on, and the model keeps what the block was
(`late`, `slow` in the actions). The interrupt handler of an MMU has three steps:
it reads the status, masks, and reports through `lima_sched_pipe_mmu_error`. On a
line of `Shared` another device may interrupt at any time: the handler then reads
0 and returns, also between `lima_mmu_fini` and the teardown of the line.
`lima_sched_pipe_fini` resets a pipe that is still at work after its 2 s, and
neither it nor the timeout handler waits for `recover_work`, which may go on
beside the next job, or without its pipe (`RecoverLost`); `stale` has the GP's
pipe from then on, because that work may fail a job it is not about. The increment
of `l2_flush_timeouts`, which comes after the unlock, is a load and a store. The
counter is the module's and is not reset by a detach.

## 4. What is checked

| run | expected | question |
|---|---|---|
| `SchedRecovery` | pass | do power, address space, results and task memory stay consistent through completion, heap growth, faults, hangs, timeouts, a resubmission and resets that are not answered, does the pipe implement the fair job queue, and does `lima_sched_pipe_fini` return over healthy and hung cores with everything given back? |
| `SchedRaces` | pass | what stays true when the timeout overlaps an interrupt, a recovery or a start, and `run_job` may fail: VM references, a timer for every task without a result, one result each and in order |
| `SchedStartFails` | violation | "scheduler will retry / fault": a task that `run_job` could not start is reported as completed |
| `SchedMmuFault` | violation | "unrecoverable": an MMU fault of a task with a heap queues the heap recovery |
| `PpCores` | pass | three cores that finish, fail, fault and hang in any order, with a handler per core or the broadcast handler: is the count exact, is nothing reported complete that is not, is every core unmasked when it works, unless it did not answer its last reset, does every task end? |
| `GemSubmit` | pass | are GEM and mapping references exact and page tables free of stale entries while submissions, closes, heap growth and failures, of any call but `drm_sched_job_init`, overlap? |
| `GemHeapRetry` | violation | "still frees correctly": a heap growth that failed after its pages were wired is repeated, and pages stay wired for good |
| `Shmem` | pass | are the use counts exact, and does nobody reach a page that is not wired? |
| `DeviceLife` (`LimaCtx`) | pass | does every failed probe and every remove leave nothing, is no register touched without clock or power, and does a context live exactly as long as its handle and its submissions, whoever frees it or closes the file? No deadlock |
| `CtxFreed` (`LimaCtx`) | violation | "freed only when all other held references (e.g. in-flight GPU jobs) are also released": a job holds none, and its context may be gone when it times out and is dumped |
| `DevicePmuFails` | violation | "fails probe": when the PMU does not power the domains up, probe goes on |
| `MmuLife` (`LimaMmu`) | pass | does a job only ever see its own address space although stalls, resets and flushes go unanswered, is an MMU masked for nothing but a bus error, do handlers find what they use on a shared line too, and does detach leave nothing behind but the DMA tags of a failed `lkpi_platform_dma_init`? No deadlock |

The five violations are recorded under `findings` with the line of the doc and
of the code.

### 4.1 Bounds

- Two tasks and two address spaces (`LimaSched`): the second task is what a late
  interrupt, timer or recovery of the first can hit, and it has another address
  space to be confused with. One of them has a heap that can grow twice, so
  that the third stall fails (`HeapSteps = 2`). `HangLimits = {0, 1}` in
  `SchedRecovery`: 1 is one resubmission and one cancellation, 0 is the limit
  with which the teardown runs (`Teardown = {0}`).
- Three cores (`PpCores`), because two handlers may be inside the handler while a
  third core is still working; widths 1 to 3 are chosen for each task, with and
  without the broadcast unit. The proofs remove the bound.
- Two files that share a texture, a heap of 4 pages of which 2 are populated
  first, so that one growth fits and one is refused, two tasks, lists that name
  an object twice. `MaxWirings = 2` bounds how often a page is wired: one more
  than correct. `SYMMETRY` permutes the two files, which only invariants are
  checked with.
- Three user mappings, two kernel mappings, two pins and two `mmap`s that join a
  mapping (`MaxUses = 2`) in `Shmem`: the proofs remove the bound.
- Eight blocks, every operation but the PMU's may fail, any number of probe and
  suspend cycles (`DeviceLife`). `MaxErrorTasks = 1`, which a second timeout
  finds full. Two threads and two contexts, so that one frees what another
  submits with, and one job in a queue beside one on the hardware.
- Three MMUs, of which one may be absent, on three lines; two jobs per
  attachment, so that the second may meet what the first left in an MMU; two
  unanswered commands in a behaviour (`MaxTimeouts = 2`), which two flushes that
  count at once need, and a bus error followed by a reset that is not answered.
  The GP's line is shared (`Shared = {1}`), and the MMU of the first pixel
  processor, which has another beside it on its pipe, may report bus errors
  (`BusErrors = {2}`). With all three of them the properties hold as well, over
  4.8 million states instead of 2.5. A later attach begins when a `recover_work`
  of the one before is through.

Deadlock is checked in `DeviceLife` and `MmuLife`, where something can always go
on. It is not where the number of tasks ends a run or, in `Shmem`, where a freed
object ends it (`CHECK_DEADLOCK FALSE`).

### 4.2 Fairness

Liveness assumes weak fairness of each thread of the kernel that the code
relies on: the scheduler's thread, interrupt threads, the workqueues of
recovery and timeout, the thread in `lima_sched_pipe_fini`; and of the hardware
that a core raises an interrupt or hangs (a hang is one of its outcomes, so this
promises no progress). Submissions and closing files are not fair.

### 4.3 Assumptions on the environment

- `TimerRaces = FALSE`: the 500 ms timer fires only when the core is stuck and
  no handler or recovery is under way, and the 2 s of the teardown outlast a
  recovery. With `TRUE` in `SchedRaces` the properties listed there still hold.
- `ResetFails = TRUE` in `SchedRecovery`: any soft or hard reset of the GP may go
  unanswered. A core that did not answer keeps quiet until it is given the next
  task, unless `TimerRaces` is `TRUE` as well. The other runs of `LimaSched` have
  `FALSE`: both at once are too many states for a run, and the theorems of
  `LimaSchedOrderProofs` are about both. A runtime resume, which would reset the
  core once more before the next task, is not modelled.
- `ResetFails = {FALSE}` in `PpCores`: the cores of a Mali-400 may leave soft and
  hard resets unanswered, those of a Mali-450 answer.
- The teardown begins when all files are closed, the queue is empty and no
  `run_job` is under way: `drm_sched_entity_destroy` waits for that. The flush
  of the queue of a killed process is not modelled.
- A started PP core raises at most one of done, error, MMU fault, or nothing.
- `StartRaces = FALSE`: the next task does not start while the broadcast handler
  is in its loop.
- Heaps are not shared (`HeapShared = FALSE`); a failed growth ends its task; a
  task is not freed while its heap grows; creating an object is atomic and
  leaves nothing when it fails; `drm_gem_release` closes each handle.
- Users of mappings, pins and vmaps of `ShmemGem` hold a GEM reference; the
  shrinker purges only what is purgeable. A failed `get_pages` changes nothing.
  All pages of an object fare alike.
- A thread uses a context only after the ioctl that created it has returned: the
  owner's pid and name are written after `xa_alloc` has published the handle
  (`lima_ctx.c:115`). The file is closed after its last ioctl returned, and the
  device is removed after the file is closed; removal under an open file is not
  modelled.
- In `LimaMmu` the job timer, and the 2 s of the teardown, run out when the
  pipe's processors have stopped and no interrupt of them waits (`Quiet`); hard
  resets of the processors are answered. A processor whose MMU faulted stays
  idle until it is reset.
- newbus and the PM core call probe, remove, suspend and resume one at a time,
  processes are frozen during suspend, and a device whose resume failed is not
  detached. Suspend begins with all threads outside the driver; a queue that
  starts its next job after `lima_device_suspend` has looked is not modelled. The
  platform bus of this port does not reach `lima_pm_ops`
  (`lkpi_platform_bus_suspend` looks at `suspend` of `lima_platform_driver`, which
  is not set), so suspend and resume are checked for the day it does. The PMU
  powers up when told to (`"pmu"` is not in `MayFail`), and `hw.lima.clk_stage`
  has its default 3.

### 4.4 What lies outside the runs

The modules reach further than the runs that pass. These combinations are
violated; most are entries of `hazards` with the code's line:

| combination | what TLC shows |
|---|---|
| `PmBalanced` with `TimerRaces = TRUE` | timeout and completion interrupt of one task both drop the PM reference |
| `RecoverHasItsTask` with `TimerRaces = TRUE` | `recover_work` runs after the timeout handler cleared or replaced `current_task` |
| `InFlightIsHonest`, `FiniPowersDown` with a limit in `Teardown` | `pipe_task_in_flight` follows `current_task` into the slab; the wedge branch keeps the PM reference |
| `ResetsAnswered` with `ResetFails = TRUE` | after a hard reset that timed out the core may go on with a task that has its result and is freed (`lima_gp.c:239`) |
| `FiniReapsAll` with `Teardown = {1}` | the teardown finds `current_task` cleared by the timeout handler, which resubmits the task afterwards |
| `DoneMeansRendered` with `TimerRaces`, `SharedLine` or `StartRaces` | an interrupt of one task is counted for the next |
| `DoneMeansRendered` with `ResetFails = {TRUE}` | the broadcast handler counts a core that failed unheard, masked by a reset it did not answer, as done (`lima_pp.c:173`) |
| `LetGoIsFreed` of `ShmemGem` | a second `mmap` of a mapped object takes a use and a GEM reference that the one close does not give back |
| `RecoverFindsPipe` of `LimaMmu` | `lima_sched_pipe_fini` does not cancel `recover_work`, which runs without the pipe |
| `ReadsWithPower` of `LimaMmu` | on a shared line the handler reads a register between `lima_mmu_fini` and the teardown of the line |
| `GemRefsExact` with `"job_init"` in `MayFail` | references of a task that is never queued stay |
| `TaskMapped` with `HeapShared = TRUE` | a heap grows in the page tables of one of its two files |
| `ErrorsFreed` of `LimaDevice` | the error list is drained before the pipes; a job that hangs at unload adds to it later |
| `NoStall` with `Stages = {2}` | the reset line stays asserted, which is what that value of the knob is for |

Three facts the runs rest on that are easy to overlook:

- An MMU stays masked after a bus error, since `lima_mmu_page_fault_resume` looks
  at `PAGE_FAULT_ACTIVE` alone. `deaf` records it, and `DeafOnlyAfterBusError` says
  that nothing else masks an MMU. If such an MMU then does not answer
  `HARD_RESET` it is unmasked with the old interrupt pending, which may come after
  the job, and `stale` records its pipe. The interrupt is reported to a job it
  is not about: `drm_sched_fault` times that job out at once, while a handler of
  another MMU of the pipe may be at work, and the pipe may then be torn down under
  it. Three jobs and one unanswered reset are enough (`MaxJobs = 3`,
  `MaxTimeouts = 1`). A `recover_work` that was overtaken does the same to the next
  job of the GP. `HandlerFindsDriver` excepts the pipes in `stale`, and the proof in
  section 5 shows that these are the only exceptions.
- `l2_flush_timeouts++` is not atomic and comes after the unlock. An update may be
  lost; `AbandonedIsSeen` is what is still true.
- A task that the teardown gives up keeps its PM reference, which `PmBalanced`
  excepts and `FiniPowersDown` states.

A detail of wording: `lima_ctx_free` returns `-EINVAL` for an unknown handle where
the comment at `lima_drv.c:290` has `-ENOENT`.

## 5. What is proved

TLAPS checks eight modules of proofs, for every value of the constants. A proof
names an inductive invariant, as one conjunction or in layers that each use the
ones below, proves it for `Init`
and with one lemma for each action, and reads the theorems off it. Besides the
assumptions that the modules state on their constants, some theorems assume what
the runs assume; each says so in its statement.

`LimaSchedProofs`, theorem `TypeCorrect`: `Spec => []TypeOK` of `LimaSched`, with
timer races, failing starts and teardown, any number of tasks and any hang limit.
`TypeOK` alone is not inductive: a thread, a core and a timeout handler that are
at work follow a task number. `TypeInv` adds that each has one (`ThreadHasTask`,
`HwHasTask`, `TdrHasTask`). One lemma for each operator that builds several
variables (`StopScheduler`, `FreeJobs`, `SignalFence`...), one for each thread, and
`TypeInvariance` joins them.

`LimaSchedOrderProofs` assumes nothing about timers or starts, so that it covers
all that `SchedRaces` runs. Theorem `SafeWhileServing`: `VmRefsExact` and
`Watched` hold until `lima_sched_pipe_fini` ends its wait for the task in flight
(`Serving`), with no assumption on the constants at all. Assuming `NoTeardown`
(`Teardown = {}`) they hold for good: `ReferencesExact` (`[]VmRefsExact`),
`AlwaysWatched` (`[]Watched`) and `ImplementsJobs` (`Spec => JobsSafe`, the
refinement of the job queue). `ParkInv` places the parked thread in the middle of
the timeout handler. `MemoryInv` says that what the list or the handler holds is
in use and was popped, so that each of the two places which free a task frees a
live one; with it the references are counted, as cardinalities of sets of live
tasks. `OrderInv` is the argument for the results: one popped task at most
(`Last`) has none; the slot count is 1 exactly if there is such a task and the
thread is not parked; it is on the list or in the hands of the timeout handler;
only its callback can be attached. Whoever finishes a task, then, finishes `Last`
(`ResultStep`), and finishes it once.

`LimaSchedCalmProofs` assumes `Calm` (`~TimerRaces /\ ~StartFails /\ Teardown
\subseteq {0}`), which is what `SchedRecovery` runs: timeouts that overlap no
handler, starts that succeed, and no teardown or one with hang limit 0; resets may
go unanswered. Any one of the three dropped, a theorem below is false: the finding
of `SchedStartFails` and the table of section 4 have the counterexamples. Eight
theorems: `SuccessIsTrue` (`[]NoFalseSuccess`), `PowerIsBalanced`
(`[]PmBalanced`), `CoreRunsCurrent` (`[]HwRunsCurrent`), `FreedIsOutOfUse`
(`[]FreedIsUnused`), `TeardownReferencesExact` (`[]VmRefsExact`),
`TeardownWatched` (`[]Watched`), `TeardownReapsAll` (`[]FiniReapsAll`) and
`TeardownImplementsJobs` (`Spec => JobsSafe`). The invariant has two phases
(`PipeInv`).

- While the pipe serves, on top of `OrderInv`: `CoreInv` says that a busy core,
  not one that left its last hard reset unanswered (`Unused`), has `Last`, with
  its fence unsignalled and its address space installed; `EventInv` that an event
  of the core is in one place, as a pending interrupt, in its handler or as
  recovery work; `TdrInv` what a timeout finds (a stuck core, and no handler under
  way: this is where `~TimerRaces` is needed) and leaves; `FenceInv` where a
  signalled fence may wait for its callback to be attached; `ListInv` that the
  list has one task at most.
- What the teardown relies on when its wait ends is `PollInv`: nothing is
  submitted or started meanwhile (`ClosedInv`); a task that was stopped has used
  up a retry, and with hang limit 0 has none left (`KarmaInv`); what is in use is
  on the list, and `current_task` names the task on the core (`ListedInv`).
- After the wait, `LateInv`: no file, no queue and no event of the core is left,
  and a core that is neither idle nor loose hangs (`QuietInv`). The task without a
  result, if there is one, is the one that the teardown gives up (`Hung`), or one
  that the core completed and whose thread has not returned (`Returns`), or one
  that the timeout handler reset and may not run again (`Resets`); each of the
  three gives it exactly one result (`LeftInv`). What is in use is on the list,
  which is empty once the scheduler is stopped (`FreeInv`), and only a task given
  up still owes its power reference (`DropInv`). `TeardownBegins` proves `LateInv`
  from the first phase at the step that ends the wait, and `LateInvStep` keeps it.

`TeardownReapsAll` is read off `FreeInv` and the exact references: without a task in
use, a file or a current address space, each count is the cardinality of an
empty set. With hang limit 1 `KarmaInv` would not rule out a retry, which is the
counterexample of section 4.

`LimaPpProofs`, assuming `NoRaces` (`~TimerRaces /\ ~StartRaces /\ ~SharedLine`, and
`ResetFails \subseteq {FALSE}`: a Mali-450 answers):
`TypeCorrect`, `CountIsExact` (`[]CountExact`), `CompleteMeansRendered`
(`[]DoneMeansRendered`) and `BusyCoresAreHeard` (`[]BusyIsUnmasked`), for any number
of cores and tasks. `CountExact` says how many cores have not reported; what keeps
it is `CoreInv`, which says of one core how its state, its interrupts, its masks
and its handlers go together, and that a core which failed or faulted has set
`pipe->error`. When the count reaches zero no core is left unreported
(`LastReport`), and then either one set the error or all are done. `CountInv` adds
that after the end of a task the broadcast handler, which may still be in its
loop, only takes the count below zero and ends nothing.

`LimaGemProofs`, for any number of files, objects, tasks and pages:
`ObjectReferencesBalance` (`[]GemRefsExact`), assuming that `drm_sched_job_init`
does not fail (the leak in `lima_sched_task_init` is a hazard of section 4);
`MappingReferencesBalance` (`[]VaRefsExact`) and `TypeCorrect`, without an
assumption; `NoStaleTranslations` (`[]NoStalePte`), `TranslationsAreBacked`
(`[]PteIsBacked`) and `TasksFindTheirPages` (`[]TaskMapped`), assuming
`~HeapShared`: no second file opens a heap. The counts are cardinalities of sets
of holders, one for each place of a list (`GemHolders`, `VaHolders`), so that a
list which names an object twice needs no induction: an action takes a place from
one owner's marks and adds it to another's. The invariant is built in layers:

- `Control`: where a submission, a task or a growth is, with what it has got;
- `Refs`: the references are the holders. Where `drm_sched_job_init` fails, the
  objects keep more than that, never less, which is all the later layers need;
- `Backed`: a `lima_bo_va` implies a reference to its object and an address space
  that lives, which is why the order of the releases matters;
- `PagesTyped`: a page in the page list is wired at least once, so that the
  release of an object never unwires one too often;
- `HeapShape`, `PagesHeld`: an object in use has all of its pages up to its size,
  and a growing heap those up to the new one;
- `Tables`: a page table has all pages of an object up to its size exactly if
  there is a `lima_bo_va`, none above but those a growth has just mapped, and a
  heap is in one page table at most. `lima_vm_bo_del` unmaps by the size of that
  moment, so that nothing less than equality is inductive.

`ShmemGemProofs`: the theorems `TypeCorrect`, `UsesAreExact` (`[]UsesExact`),
`NobodyReachesFreePages` (`[]ReachedIsWired`), `PurgedStaysUnmapped`
(`[]PurgedIsUnmapped`) and `FreeLeavesNothing` (`[]FreedIsClean`), for any number of
mappings. `Inv` joins `TypeOK`, `UsesExact`,
`PagesWhileUsed` and `PurgedIsUnmapped` with

- `RefsExact`: the GEM references are the handle, one for the mappings together,
  one for each `mmap` that joined them, those of the mappings being closed, of
  the kernel mappings and of the pins;
- no mapping is both open and closing;
- `Dead`: an object that is not live has no references and no uses.

`RefsExact` is what makes the others hold at the end: when the last reference
goes there is no mapping, pin or kernel mapping left, so by `UsesExact` only the
sg table still uses the pages, and `drm_gem_shmem_free` gives that use back.

`LimaCtxProofs` has the theorems about the device as well: assuming `AllStages`
(`Stages = {3}`, the default of `hw.lima.clk_stage`; below it `lima_clk_disable`
gives back clocks that were not enabled): `TypeCorrect`, `ProbeAndRemoveReturnAll`
(`[]AllReturned`); assuming `PmuComesUp` as well, `BoardDoesNotStall`
(`[]NoStall`) and `JobsHavePower` (`[]UpWhileUsed`); without an assumption,
`ErrorListIsExact` (`[]ErrorsExact`). `HeldInv` gives for every label of probe and
remove exactly what is held there, `JobInv` where a pipe may still have a job.
`PowerInv` is the order of `lima_ip_desc`: the PMU is powered from the second
block on, until the loop back comes to it.

About the contexts, `LimaCtxProofs` proves `CtxRunsOnDevice` (`CtxSpec => Spec`),
by which the theorems on the device hold of the composition too; `CtxTypeCorrect`,
`CtxReferencesExact` (`[]CtxRefsExact`) and `QueuesHaveEntities`
(`[]QueuedHaveEntity`), for any number of contexts and threads. `ReleaseInv`: a
context without references is being released by exactly one thread, or has no
entity left.

`LimaMmuProofs`, for every set of failures and any number of unanswered commands:
`TypeCorrect`, `DetachedHoldsNothing` (`[]NothingLeft`), `JobsStayInTheirVm`
(`[]OnJobsVm`) and `AbandonedFlushIsCounted` (`[]AbandonedIsSeen`). `BusInv` says
that every established line is on the devres list, so that the list's end frees
them all; `DrvInv` places probe and remove inside attach and detach; `WorkInv` that
a processor works only in a run of its pipe, and that a pixel pipe without an
error still counts it. `CountInv` bounds the counter by the flushes that are
not yet stored, whatever update is lost.

`HandlersFindTheDriver` (`[]HandlerFindsDriver`) and `WorkersAreHeard`
(`[]DeafOnlyAfterBusError`) rest on `LineInv`, which follows an interrupt from the
processor that stops to the report. `SetupInv`: while probe runs, nothing is
pending behind an established line, and the lima_device is the last on the devres
list. `IrqOf`: an interrupt that waits, or whose handler runs, is about the run in
progress, whose processor behind that MMU has stopped (`Fresh`); an MMU that is
masked though no bus error did it has been reported or will be. Only a handler
that has read an interrupt counts (`Serving`); one that another device has called
changes nothing. `PpInv`: the pixel pipe's count is at least the number of MMUs
and processors that may still report, so that a report or a timeout comes after
all of them. `GpInv`: between its interrupt and `recover_work` or the timeout the
GP does not work. All but `SetupInv` is said of pipes that are not `stale`; and
the masks of a pipe say nothing any more once `lima_sched_pipe_fini` has been over
it (`Gone`). One lemma for each action (`BridgeLine` ... `ResumeLine`) keeps it.

Every invariant that a passing run checks is the property of a theorem, under
assumptions that the run meets. Only model-checked: liveness (`EveryTaskEnds`),
the refinement of the fair job queue (`JobsFair`) and `FiniTerminates`, since the
prover has neither ENABLED nor fairness; and what a violation run shows, which
is a counterexample. Neither checked by a passing run nor proved: a teardown while
timeouts overlap handlers or starts fail, beyond the end of its wait, and one
with hang limit 1.

## 6. What is not modelled

The broadcast and DLBU units are stubs in this port. The Mali-450's other blocks,
the DLBU buffer and devfreq are left out of `LimaDevice`. Imported objects, the
physically contiguous layout and page arithmetic are left out of `ShmemGem`, and
so is the pager object itself, of which only its one `vm_area_struct` counts.
`GET_PARAM` and `GEM_WAIT` change no state of the driver; `GEM_INFO` follows a
`lima_bo_va` whose handle may be closed meanwhile, and is not modelled. Of the
platform bus, `request_irq` without a device and `free_irq`, which lima does not
call, driver registration and suspend. The slabs of tasks and fences and the
reference that a resubmission overwrites in `task->fence` are not counted. Frame
validation, the layout of the error dump, logging, trace points, register
constants and the clock debugging are data or output without control. Tests and
patches were read as documentation.

## 7. Running

`tlc -workers 2 -config SchedRecovery.cfg LimaSched` and likewise for the other
configurations (`Sched...` with `LimaSched`, `PpCores` with `LimaPp`, `Gem...`
with `MCGem`, `Shmem` with `ShmemGem`, `DeviceLife` and `CtxFreed` with `LimaCtx`,
`DevicePmuFails` with `LimaDevice`, `MmuLife` with `LimaMmu`); `tlapm M.tla` for
each of the eight `...Proofs` modules. `PROJECT.json` maps every definition to the
lines it models, and lists for each property a mutation of the model that it
catches.
