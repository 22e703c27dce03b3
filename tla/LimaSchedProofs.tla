--------------------------- MODULE LimaSchedProofs ---------------------------
(***************************************************************************)
(* Theorems about one scheduler pipe, for every number of tasks, address   *)
(* spaces and heap steps and for every hang limit, with or without timer   *)
(* races, failing starts and teardown.                                     *)
(***************************************************************************)
EXTENDS LimaSched, FiniteSetTheorems, TLAPS

USE DEF NoTask

\* The thread is past lima_sched_run_job's entry only with a task it popped:
\* without this, Picked would be no task and vmOf[Picked] no address space.
ThreadHasTask == thread # "idle" => next > 1

\* A core that is not idle was given a task.
HwHasTask == hw # "idle" => hwTask \in Task

\* The timeout handler has the task it was called for.
TdrHasTask == tdr # "idle" => tdrTask \in Task

TypeInv == TypeOK /\ ThreadHasTask /\ HwHasTask /\ TdrHasTask

USE DEF TypeOK

\* A set of tasks is finite and has a cardinality: the counters that are
\* moved by the size of such a set stay integers.
LEMMA TasksFinite ==
  ASSUME NEW S \in SUBSET (Task \cup {NoTask})
  PROVE  IsFiniteSet(S) /\ Cardinality(S) \in Nat
<1>1. NumTasks \in Nat
  BY SchedAssumption DEF SchedAssumption
<1>2. IsFiniteSet(0 .. NumTasks)
  BY <1>1, FS_Interval
<1>3. S \subseteq 0 .. NumTasks
  BY <1>1 DEF Task
<1>4. IsFiniteSet(S)
  BY <1>2, <1>3, FS_Subset
<1>. QED  BY <1>4, FS_CardinalityType

\* Freeing a set of tasks keeps the task memory and the reference counts
\* well typed.
LEMMA FreeJobsType ==
  ASSUME TypeOK, NEW S \in SUBSET (Task \cup {NoTask}), FreeJobs(S)
  PROVE  /\ life' \in [Task -> {"new", "live", "freed"}]
         /\ vmRefs' \in [VMs -> Int]
<1>1. life' \in [Task -> {"new", "live", "freed"}]
  BY DEF TaskTypes, PipeTypes, FreeJobs
<1>2. \A v \in VMs : Cardinality({t \in S : vmOf[t] = v}) \in Nat
  BY TasksFinite
<1>. QED  BY <1>1, <1>2 DEF TaskTypes, PipeTypes, FreeJobs

\* A new fence, a PM reference and current_task, for a task the caller holds.
LEMMA PrepareRunType ==
  ASSUME TypeOK, NEW t \in Task, PrepareRun(t)
  PROVE  /\ fence' \in [Task -> {"none", "unsignalled", "signalled"}]
         /\ pmUsage' \in Int
         /\ currentTask' \in Task \cup {NoTask}
BY DEF TaskTypes, PipeTypes, PrepareRun

\* Switching to the address space of a task keeps the counts integers.
LEMMA StartRunType ==
  ASSUME TypeOK, NEW t \in Task, StartRun(t)
  PROVE  /\ vmRefs' \in [VMs -> Int] /\ currentVm' \in VMs \cup {NoVm}
         /\ error' \in BOOLEAN /\ intr' \in BOOLEAN
         /\ masked' \in BOOLEAN /\ asyncReset' \in BOOLEAN
         /\ recoverable' \subseteq Task
         /\ hw' = "busy" /\ hwTask' \in Task
<1>1. VmPut(vmRefs, currentVm) \in [VMs -> Int]
  BY DEF TaskTypes, PipeTypes, VmPut
<1>2. ASSUME NEW refs \in [VMs -> Int], NEW v
      PROVE  VmGet(refs, v) \in [VMs -> Int]
  <2>1. \A u \in VMs : (IF u = v THEN refs[v] + 1 ELSE refs[u]) \in Int
    BY <1>2
  <2>. QED  BY <2>1, Zenon DEF VmGet
<1>3. vmRefs' \in [VMs -> Int]
  BY <1>1, <1>2 DEF StartRun, SwitchVm
<1>4. currentVm' \in VMs \cup {NoVm}
  BY DEF TaskTypes, PipeTypes, StartRun, SwitchVm
<1>5. recoverable' \subseteq Task
  BY DEF TaskTypes, PipeTypes, StartRun, SwitchVm
<1>6. masked' \in BOOLEAN /\ asyncReset' \in BOOLEAN
  BY DEF FlagTypes, TypeOK, StartRun, SoftResetWait
<1>. QED  BY <1>3, <1>4, <1>5, <1>6 DEF StartRun, SwitchVm

\* A completed job has one of the two results.
LEMMA JobDoneType ==
  ASSUME TypeOK, NEW t, NEW r \in {"ok", "error"}, JobDone(t, r)
  PROVE  hwCount' \in Int /\ finished' \in [Task -> {"no", "ok", "error"}]
<1>1. Outcome(t, r) \in {"ok", "error"}
  BY DEF Outcome
<1>2. finished' \in [Task -> {"no", "ok", "error"}]
  BY <1>1 DEF TaskTypes, PipeTypes, JobDone
<1>. QED  BY <1>2 DEF TaskTypes, PipeTypes, JobDone

\* Signalling a fence completes the job, or nothing.
LEMMA SignalFenceType ==
  ASSUME TypeOK, NEW t, NEW r \in {"ok", "error"}, SignalFence(t, r)
  PROVE  /\ hwCount' \in Int /\ finished' \in [Task -> {"no", "ok", "error"}]
         /\ fence' \in [Task -> {"none", "unsignalled", "signalled"}]
<1>1. fence' \in [Task -> {"none", "unsignalled", "signalled"}]
  BY DEF TaskTypes, PipeTypes, FlagTypes, SignalFence
<1>2. CASE JobDone(t, r)
  BY <1>1, <1>2, JobDoneType
<1>3. CASE UNCHANGED <<hwCount, finished>>
  BY <1>1, <1>3 DEF TaskTypes, PipeTypes, FlagTypes
<1>. QED  BY <1>2, <1>3 DEF SignalFence

\* drm_sched_stop, whichever task is at fault.
LEMMA StopType ==
  ASSUME TypeOK, NEW S \in SUBSET (Task \cup {NoTask}), NEW g,
         StopScheduler(S, g)
  PROVE  /\ parked' \in BOOLEAN /\ timer' \in BOOLEAN
         /\ pending' \subseteq Task \cup {NoTask} /\ pending' \subseteq S
         /\ hwCount' \in Int
         /\ parent' \in [Task -> {"none", "set", "attached"}]
         /\ life' \in [Task -> {"new", "live", "freed"}]
         /\ vmRefs' \in [VMs -> Int]
<1>. DEFINE kept == Detachable(S)
<1>1. kept \in SUBSET S
  BY DEF Detachable
<1>2. Cardinality(kept) \in Nat
  BY <1>1, TasksFinite
<1>3. hwCount' = hwCount - Cardinality(kept) /\ pending' = kept
  BY DEF StopScheduler
<1>4. FreeJobs((S \ kept) \ {g}) /\ (S \ kept) \ {g} \subseteq S
  BY DEF StopScheduler
<1>5. /\ life' \in [Task -> {"new", "live", "freed"}]
      /\ vmRefs' \in [VMs -> Int]
  BY <1>4, FreeJobsType
<1>6. parent' \in [Task -> {"none", "set", "attached"}]
  BY DEF TaskTypes, PipeTypes, StopScheduler
<1>7. parked' \in BOOLEAN /\ timer' \in BOOLEAN
  BY DEF StopScheduler
<1>. QED  BY <1>1, <1>2, <1>3, <1>5, <1>6, <1>7 DEF TaskTypes, PipeTypes, FlagTypes

\* The scheduler thread.
LEMMA ThreadType ==
  ASSUME TypeInv, ThreadStep
  PROVE  TypeInv'
<1>. USE DEF TypeInv, TaskTypes, PipeTypes, FlagTypes,
             taskVars, schedVars, tdrVars, hwVars, irqVars, pipeVars,
             refVars, finiVars
<1>1. CASE ThreadCleanup
  <2>1. PICK t \in Task : pending' = pending \ {t} /\ FreeJobs({t})
    BY <1>1 DEF ThreadCleanup
  <2>2. /\ life' \in [Task -> {"new", "live", "freed"}]
        /\ vmRefs' \in [VMs -> Int]
    BY <2>1, FreeJobsType
  <2>3. TaskTypes'
    BY <1>1, <2>1, <2>2 DEF ThreadCleanup
  <2>4. PipeTypes'
    BY <1>1, <2>1, <2>2 DEF ThreadCleanup
  <2>5. FlagTypes'
    BY <1>1, <2>1, <2>2 DEF ThreadCleanup
  <2>6. ThreadHasTask' /\ HwHasTask' /\ TdrHasTask'
    BY <1>1, <2>1, <2>2 DEF ThreadCleanup, ThreadHasTask, HwHasTask, TdrHasTask
  <2>. QED  BY <2>3, <2>4, <2>5, <2>6
<1>2. CASE ThreadPop
  <2>1. next \in Task /\ next' \in 1 .. submitted + 1 /\ next' > 1
    BY <1>2, SchedAssumption DEF ThreadPop, Task, SchedAssumption
  <2>2. TaskTypes'
    BY <1>2, <2>1 DEF ThreadPop
  <2>3. PipeTypes'
    BY <1>2, <2>1 DEF ThreadPop
  <2>4. FlagTypes'
    BY <1>2, <2>1 DEF ThreadPop
  <2>5. ThreadHasTask' /\ HwHasTask' /\ TdrHasTask'
    BY <1>2, <2>1 DEF ThreadPop, ThreadHasTask, HwHasTask, TdrHasTask
  <2>. QED  BY <2>2, <2>3, <2>4, <2>5
<1>3. CASE ThreadPrepare
  <2>1. Picked \in Task
    BY <1>3, SchedAssumption DEF ThreadPrepare, ThreadHasTask, Picked, Task,
                                 SchedAssumption
  <2>2. /\ fence' \in [Task -> {"none", "unsignalled", "signalled"}]
        /\ pmUsage' \in Int /\ currentTask' \in Task \cup {NoTask}
    BY <1>3, <2>1, PrepareRunType DEF ThreadPrepare
  <2>3. TaskTypes'
    BY <1>3, <2>2 DEF ThreadPrepare
  <2>4. PipeTypes'
    BY <1>3, <2>2 DEF ThreadPrepare
  <2>5. FlagTypes'
    BY <1>3, <2>2 DEF ThreadPrepare
  <2>6. ThreadHasTask' /\ HwHasTask' /\ TdrHasTask'
    BY <1>3, <2>2 DEF ThreadPrepare, ThreadHasTask, HwHasTask, TdrHasTask
  <2>. QED  BY <2>3, <2>4, <2>5, <2>6
<1>4. CASE ThreadStartFails
  <2>1. hwCount' \in Int /\ finished' \in [Task -> {"no", "ok", "error"}]
    BY <1>4, JobDoneType DEF ThreadStartFails
  <2>2. TaskTypes'
    BY <1>4, <2>1 DEF ThreadStartFails
  <2>3. PipeTypes'
    BY <1>4, <2>1 DEF ThreadStartFails
  <2>4. FlagTypes'
    BY <1>4, <2>1 DEF ThreadStartFails
  <2>5. ThreadHasTask' /\ HwHasTask' /\ TdrHasTask'
    BY <1>4, <2>1 DEF ThreadStartFails, ThreadHasTask, HwHasTask, TdrHasTask
  <2>. QED  BY <2>2, <2>3, <2>4, <2>5
<1>5. CASE ThreadStart
  <2>1. Picked \in Task
    BY <1>5, SchedAssumption DEF ThreadStart, ThreadHasTask, Picked, Task,
                                 SchedAssumption
  <2>2. TaskTypes'
    BY <1>5, <2>1, StartRunType DEF ThreadStart
  <2>3. PipeTypes'
    BY <1>5, <2>1, StartRunType DEF ThreadStart
  <2>4. FlagTypes'
    BY <1>5, <2>1, StartRunType DEF ThreadStart
  <2>5. ThreadHasTask' /\ HwHasTask' /\ TdrHasTask'
    BY <1>5, <2>1, StartRunType DEF ThreadStart, ThreadHasTask, HwHasTask, TdrHasTask
  <2>. QED  BY <2>2, <2>3, <2>4, <2>5
<1>6. CASE ThreadReturn
  <2>1. /\ hwCount' \in Int /\ finished' \in [Task -> {"no", "ok", "error"}]
        /\ parent' \in [Task -> {"none", "set", "attached"}]
    <3>1. CASE fence[Picked] = "signalled"
      BY <1>6, <3>1, JobDoneType DEF ThreadReturn
    <3>2. CASE fence[Picked] # "signalled"
      BY <1>6, <3>2 DEF ThreadReturn
    <3>. QED  BY <3>1, <3>2
  <2>2. TaskTypes'
    BY <1>6, <2>1 DEF ThreadReturn
  <2>3. PipeTypes'
    BY <1>6, <2>1 DEF ThreadReturn
  <2>4. FlagTypes'
    BY <1>6, <2>1 DEF ThreadReturn
  <2>5. ThreadHasTask' /\ HwHasTask' /\ TdrHasTask'
    BY <1>6, <2>1 DEF ThreadReturn, ThreadHasTask, HwHasTask, TdrHasTask
  <2>. QED  BY <2>2, <2>3, <2>4, <2>5
<1>. QED  BY <1>1, <1>2, <1>3, <1>4, <1>5, <1>6 DEF ThreadStep

\* The hardware.
LEMMA HwType ==
  ASSUME TypeInv, HwStep
  PROVE  TypeInv'
<1>. USE DEF TypeInv, TaskTypes, PipeTypes, FlagTypes,
             taskVars, schedVars, tdrVars, hwVars, irqVars, pipeVars,
             refVars, finiVars
<1>1. CASE \E o \in {"complete", "stalled", "errored", "faulted", "hung"} : HwEvent(o)
  <2>1. TaskTypes'
    BY <1>1 DEF HwEvent, Working, HwHasTask
  <2>2. PipeTypes'
    BY <1>1 DEF HwEvent, Working, HwHasTask
  <2>3. FlagTypes'
    BY <1>1 DEF HwEvent, Working, HwHasTask
  <2>4. ThreadHasTask' /\ HwHasTask' /\ TdrHasTask'
    BY <1>1 DEF HwEvent, Working, HwHasTask, ThreadHasTask, TdrHasTask
  <2>. QED  BY <2>1, <2>2, <2>3, <2>4
<1>. QED  BY <1>1 DEF HwStep

\* The interrupt handlers.
LEMMA IrqType ==
  ASSUME TypeInv, IrqStep
  PROVE  TypeInv'
<1>. USE DEF TypeInv, TaskTypes, PipeTypes, FlagTypes,
             taskVars, schedVars, tdrVars, hwVars, irqVars, pipeVars,
             refVars, finiVars
<1>1. CASE IrqEnter
  <2>1. TaskTypes'
    BY <1>1 DEF IrqEnter, SetsError
  <2>2. PipeTypes'
    BY <1>1 DEF IrqEnter, SetsError
  <2>3. FlagTypes'
    BY <1>1 DEF IrqEnter, SetsError
  <2>4. ThreadHasTask' /\ HwHasTask' /\ TdrHasTask'
    BY <1>1 DEF IrqEnter, SetsError, ThreadHasTask, HwHasTask, TdrHasTask
  <2>. QED  BY <2>1, <2>2, <2>3, <2>4
<1>2. CASE IrqTaskError
  <2>1. TaskTypes'
    BY <1>2 DEF IrqTaskError
  <2>2. PipeTypes'
    BY <1>2 DEF IrqTaskError
  <2>3. FlagTypes'
    BY <1>2 DEF IrqTaskError
  <2>4. ThreadHasTask' /\ HwHasTask' /\ TdrHasTask'
    BY <1>2 DEF IrqTaskError, ThreadHasTask, HwHasTask, TdrHasTask
  <2>. QED  BY <2>1, <2>2, <2>3, <2>4
<1>3. CASE IrqTaskDone
  <2>1. /\ hwCount' \in Int /\ finished' \in [Task -> {"no", "ok", "error"}]
        /\ fence' \in [Task -> {"none", "unsignalled", "signalled"}]
    BY <1>3, SignalFenceType DEF IrqTaskDone, SoftReset
  <2>2. TaskTypes'
    BY <1>3, <2>1 DEF IrqTaskDone, SoftReset
  <2>3. PipeTypes'
    BY <1>3, <2>1 DEF IrqTaskDone, SoftReset
  <2>4. FlagTypes'
    BY <1>3, <2>1 DEF IrqTaskDone, SoftReset
  <2>5. ThreadHasTask' /\ HwHasTask' /\ TdrHasTask'
    BY <1>3, <2>1 DEF IrqTaskDone, SoftReset, ThreadHasTask, HwHasTask, TdrHasTask
  <2>. QED  BY <2>2, <2>3, <2>4, <2>5
<1>4. CASE IrqTaskDoneBadPointer
  <2>1. TaskTypes'
    BY <1>4 DEF IrqTaskDoneBadPointer
  <2>2. PipeTypes'
    BY <1>4 DEF IrqTaskDoneBadPointer
  <2>3. FlagTypes'
    BY <1>4 DEF IrqTaskDoneBadPointer
  <2>4. ThreadHasTask' /\ HwHasTask' /\ TdrHasTask'
    BY <1>4 DEF IrqTaskDoneBadPointer, ThreadHasTask, HwHasTask, TdrHasTask
  <2>. QED  BY <2>1, <2>2, <2>3, <2>4
<1>5. CASE IrqPmIdle
  <2>1. TaskTypes'
    BY <1>5 DEF IrqPmIdle
  <2>2. PipeTypes'
    BY <1>5 DEF IrqPmIdle
  <2>3. FlagTypes'
    BY <1>5 DEF IrqPmIdle
  <2>4. ThreadHasTask' /\ HwHasTask' /\ TdrHasTask'
    BY <1>5 DEF IrqPmIdle, ThreadHasTask, HwHasTask, TdrHasTask
  <2>. QED  BY <2>1, <2>2, <2>3, <2>4
<1>. QED  BY <1>1, <1>2, <1>3, <1>4, <1>5 DEF IrqStep

\* The recovery work.
LEMMA RecoverType ==
  ASSUME TypeInv, RecoverStep
  PROVE  TypeInv'
<1>. USE DEF TypeInv, TaskTypes, PipeTypes, FlagTypes,
             taskVars, schedVars, tdrVars, hwVars, irqVars, pipeVars,
             refVars, finiVars
<1>1. CASE RecoverGrows
  <2>1. heapRoom' \in 0 .. HeapSteps
    BY <1>1, SchedAssumption DEF RecoverGrows, HeapCanGrow, SchedAssumption
  <2>2. TaskTypes'
    BY <1>1, <2>1 DEF RecoverGrows
  <2>3. PipeTypes'
    BY <1>1, <2>1 DEF RecoverGrows
  <2>4. FlagTypes'
    BY <1>1, <2>1 DEF RecoverGrows
  <2>5. ThreadHasTask' /\ HwHasTask' /\ TdrHasTask'
    BY <1>1, <2>1 DEF RecoverGrows, ThreadHasTask, HwHasTask, TdrHasTask
  <2>. QED  BY <2>2, <2>3, <2>4, <2>5
<1>2. CASE RecoverBadPointer
  <2>1. TaskTypes'
    BY <1>2 DEF RecoverBadPointer
  <2>2. PipeTypes'
    BY <1>2 DEF RecoverBadPointer
  <2>3. FlagTypes'
    BY <1>2 DEF RecoverBadPointer
  <2>4. ThreadHasTask' /\ HwHasTask' /\ TdrHasTask'
    BY <1>2 DEF RecoverBadPointer, ThreadHasTask, HwHasTask, TdrHasTask
  <2>. QED  BY <2>1, <2>2, <2>3, <2>4
<1>. QED  BY <1>1, <1>2 DEF RecoverStep

\* The timeout work.
LEMMA TdrType ==
  ASSUME TypeInv, TdrStep
  PROVE  TypeInv'
<1>. USE DEF TypeInv, TaskTypes, PipeTypes, FlagTypes,
             taskVars, schedVars, tdrVars, hwVars, irqVars, pipeVars,
             refVars, finiVars
<1>1. CASE TdrFire
  <2>1. TaskTypes'
    BY <1>1 DEF TdrFire
  <2>2. PipeTypes'
    BY <1>1 DEF TdrFire
  <2>3. FlagTypes'
    BY <1>1 DEF TdrFire
  <2>4. ThreadHasTask' /\ HwHasTask' /\ TdrHasTask'
    BY <1>1 DEF TdrFire, ThreadHasTask, HwHasTask, TdrHasTask
  <2>. QED  BY <2>1, <2>2, <2>3, <2>4
<1>2. CASE TdrStop
  <2>. DEFINE S == pending \cup {tdrTask}
  <2>1. S \subseteq Task
    BY <1>2 DEF TdrStop, TdrHasTask
  <2>2. StopScheduler(S, tdrTask)
    BY <1>2 DEF TdrStop
  <2>. HIDE DEF S
  <2>3. /\ parked' \in BOOLEAN /\ timer' \in BOOLEAN
        /\ pending' \subseteq S /\ hwCount' \in Int
        /\ parent' \in [Task -> {"none", "set", "attached"}]
        /\ life' \in [Task -> {"new", "live", "freed"}]
        /\ vmRefs' \in [VMs -> Int]
    BY <2>1, <2>2, StopType
  <2>4. karma' \in [Task -> Nat]
    BY <1>2, <2>1 DEF S, TdrStop
  <2>5. TaskTypes'
    BY <1>2, <2>1, <2>3, <2>4 DEF TdrStop
  <2>6. PipeTypes'
    BY <1>2, <2>1, <2>3, <2>4 DEF TdrStop
  <2>7. FlagTypes'
    BY <1>2, <2>1, <2>3, <2>4 DEF TdrStop
  <2>8. ThreadHasTask' /\ HwHasTask' /\ TdrHasTask'
    BY <1>2, <2>1, <2>3, <2>4 DEF TdrStop, ThreadHasTask, HwHasTask, TdrHasTask
  <2>. QED  BY <2>5, <2>6, <2>7, <2>8
<1>3. CASE TdrReset
  <2>1. TaskTypes'
    BY <1>3 DEF TdrReset, HardReset
  <2>2. PipeTypes'
    BY <1>3 DEF TdrReset, HardReset
  <2>3. FlagTypes'
    BY <1>3 DEF TdrReset, HardReset
  <2>4. ThreadHasTask' /\ HwHasTask' /\ TdrHasTask'
    BY <1>3 DEF TdrReset, HardReset, ThreadHasTask, HwHasTask, TdrHasTask
  <2>. QED  BY <2>1, <2>2, <2>3, <2>4
<1>4. CASE TdrVmPut
  <2>1. TaskTypes'
    BY <1>4 DEF TdrVmPut, VmPut
  <2>2. PipeTypes'
    BY <1>4 DEF TdrVmPut, VmPut
  <2>3. FlagTypes'
    BY <1>4 DEF TdrVmPut, VmPut
  <2>4. ThreadHasTask' /\ HwHasTask' /\ TdrHasTask'
    BY <1>4 DEF TdrVmPut, VmPut, ThreadHasTask, HwHasTask, TdrHasTask
  <2>. QED  BY <2>1, <2>2, <2>3, <2>4
<1>5. CASE TdrClear
  <2>1. TaskTypes'
    BY <1>5 DEF TdrClear
  <2>2. PipeTypes'
    BY <1>5 DEF TdrClear
  <2>3. FlagTypes'
    BY <1>5 DEF TdrClear
  <2>4. ThreadHasTask' /\ HwHasTask' /\ TdrHasTask'
    BY <1>5 DEF TdrClear, ThreadHasTask, HwHasTask, TdrHasTask
  <2>. QED  BY <2>1, <2>2, <2>3, <2>4
<1>6. CASE TdrResubmitNone
  <2>1. TaskTypes'
    BY <1>6 DEF TdrResubmitNone
  <2>2. PipeTypes'
    BY <1>6 DEF TdrResubmitNone
  <2>3. FlagTypes'
    BY <1>6 DEF TdrResubmitNone
  <2>4. ThreadHasTask' /\ HwHasTask' /\ TdrHasTask'
    BY <1>6 DEF TdrResubmitNone, ThreadHasTask, HwHasTask, TdrHasTask
  <2>. QED  BY <2>1, <2>2, <2>3, <2>4
<1>7. CASE TdrResubmit
  <2>1. PICK t \in pending : /\ PrepareRun(t) /\ StartRun(t)
                            /\ parent' = [parent EXCEPT ![t] = "set"]
    BY <1>7 DEF TdrResubmit
  <2>2. t \in Task
    BY DEF TypeInv
  <2>3. parent' \in [Task -> {"none", "set", "attached"}]
    BY <2>1 DEF TypeInv
  <2>4. TaskTypes'
    BY <1>7, <2>1, <2>2, <2>3, PrepareRunType, StartRunType DEF TdrResubmit
  <2>5. PipeTypes'
    BY <1>7, <2>1, <2>2, <2>3, PrepareRunType, StartRunType DEF TdrResubmit
  <2>6. FlagTypes'
    BY <1>7, <2>1, <2>2, <2>3, PrepareRunType, StartRunType DEF TdrResubmit
  <2>7. ThreadHasTask' /\ HwHasTask' /\ TdrHasTask'
    BY <1>7, <2>1, <2>2, <2>3, PrepareRunType, StartRunType DEF TdrResubmit, ThreadHasTask, HwHasTask, TdrHasTask
  <2>. QED  BY <2>4, <2>5, <2>6, <2>7
<1>8. CASE TdrStart
  <2>. DEFINE runs == {t \in pending : /\ parent[t] = "set"
                                        /\ fence[t] = "unsignalled"}
  <2>1. Cardinality(runs) \in Nat
    BY TasksFinite DEF TypeInv
  <2>2. hwCount' = hwCount + Cardinality(runs)
    BY <1>8 DEF TdrStart
  <2>3. finished' \in [Task -> {"no", "ok", "error"}]
    BY <1>8 DEF TdrStart, Outcome
  <2>4. TaskTypes'
    BY <1>8, <2>1, <2>2, <2>3 DEF TdrStart, Rearmed
  <2>5. PipeTypes'
    BY <1>8, <2>1, <2>2, <2>3 DEF TdrStart, Rearmed
  <2>6. FlagTypes'
    BY <1>8, <2>1, <2>2, <2>3 DEF TdrStart, Rearmed
  <2>7. ThreadHasTask' /\ HwHasTask' /\ TdrHasTask'
    BY <1>8, <2>1, <2>2, <2>3 DEF TdrStart, Rearmed, ThreadHasTask, HwHasTask, TdrHasTask
  <2>. QED  BY <2>4, <2>5, <2>6, <2>7
<1>9. CASE TdrEnd
  <2>1. FreeJobs(IF freeGuilty THEN {tdrTask} ELSE {})
    BY <1>9 DEF TdrEnd
  <2>2. (IF freeGuilty THEN {tdrTask} ELSE {}) \in SUBSET (Task \cup {NoTask})
    BY DEF TypeInv
  <2>3. /\ life' \in [Task -> {"new", "live", "freed"}]
        /\ vmRefs' \in [VMs -> Int]
    BY <2>1, <2>2, FreeJobsType
  <2>4. TaskTypes'
    BY <1>9, <2>3 DEF TdrEnd, Rearmed
  <2>5. PipeTypes'
    BY <1>9, <2>3 DEF TdrEnd, Rearmed
  <2>6. FlagTypes'
    BY <1>9, <2>3 DEF TdrEnd, Rearmed
  <2>7. ThreadHasTask' /\ HwHasTask' /\ TdrHasTask'
    BY <1>9, <2>3 DEF TdrEnd, Rearmed, ThreadHasTask, HwHasTask, TdrHasTask
  <2>. QED  BY <2>4, <2>5, <2>6, <2>7
<1>. QED  BY <1>1, <1>2, <1>3, <1>4, <1>5, <1>6, <1>7, <1>8, <1>9 DEF TdrStep

\* The teardown.
LEMMA FiniType ==
  ASSUME TypeInv, FiniStep
  PROVE  TypeInv'
<1>. USE DEF TypeInv, TaskTypes, PipeTypes, FlagTypes,
             taskVars, schedVars, tdrVars, hwVars, irqVars, pipeVars,
             refVars, finiVars
<1>1. CASE FiniBegin
  <2>1. TaskTypes'
    BY <1>1 DEF FiniBegin
  <2>2. PipeTypes'
    BY <1>1 DEF FiniBegin
  <2>3. FlagTypes'
    BY <1>1 DEF FiniBegin
  <2>4. ThreadHasTask' /\ HwHasTask' /\ TdrHasTask'
    BY <1>1 DEF FiniBegin, ThreadHasTask, HwHasTask, TdrHasTask
  <2>. QED  BY <2>1, <2>2, <2>3, <2>4
<1>2. CASE FiniIdle
  <2>1. TaskTypes'
    BY <1>2 DEF FiniIdle
  <2>2. PipeTypes'
    BY <1>2 DEF FiniIdle
  <2>3. FlagTypes'
    BY <1>2 DEF FiniIdle
  <2>4. ThreadHasTask' /\ HwHasTask' /\ TdrHasTask'
    BY <1>2 DEF FiniIdle, ThreadHasTask, HwHasTask, TdrHasTask
  <2>. QED  BY <2>1, <2>2, <2>3, <2>4
<1>3. CASE FiniGiveUp
  <2>1. TaskTypes'
    BY <1>3 DEF FiniGiveUp
  <2>2. PipeTypes'
    BY <1>3 DEF FiniGiveUp
  <2>3. FlagTypes'
    BY <1>3 DEF FiniGiveUp
  <2>4. ThreadHasTask' /\ HwHasTask' /\ TdrHasTask'
    BY <1>3 DEF FiniGiveUp, ThreadHasTask, HwHasTask, TdrHasTask
  <2>. QED  BY <2>1, <2>2, <2>3, <2>4
<1>4. CASE FiniReset
  <2>1. TaskTypes'
    BY <1>4 DEF FiniReset, HardReset
  <2>2. PipeTypes'
    BY <1>4 DEF FiniReset, HardReset
  <2>3. FlagTypes'
    BY <1>4 DEF FiniReset, HardReset
  <2>4. ThreadHasTask' /\ HwHasTask' /\ TdrHasTask'
    BY <1>4 DEF FiniReset, HardReset, ThreadHasTask, HwHasTask, TdrHasTask
  <2>. QED  BY <2>1, <2>2, <2>3, <2>4
<1>5. CASE FiniSignal
  <2>1. /\ hwCount' \in Int /\ finished' \in [Task -> {"no", "ok", "error"}]
        /\ fence' \in [Task -> {"none", "unsignalled", "signalled"}]
    BY <1>5, SignalFenceType DEF FiniSignal
  <2>2. TaskTypes'
    BY <1>5, <2>1 DEF FiniSignal
  <2>3. PipeTypes'
    BY <1>5, <2>1 DEF FiniSignal
  <2>4. FlagTypes'
    BY <1>5, <2>1 DEF FiniSignal
  <2>5. ThreadHasTask' /\ HwHasTask' /\ TdrHasTask'
    BY <1>5, <2>1 DEF FiniSignal, ThreadHasTask, HwHasTask, TdrHasTask
  <2>. QED  BY <2>2, <2>3, <2>4, <2>5
<1>6. CASE FiniVmPut
  <2>1. TaskTypes'
    BY <1>6 DEF FiniVmPut, VmPut
  <2>2. PipeTypes'
    BY <1>6 DEF FiniVmPut, VmPut
  <2>3. FlagTypes'
    BY <1>6 DEF FiniVmPut, VmPut
  <2>4. ThreadHasTask' /\ HwHasTask' /\ TdrHasTask'
    BY <1>6 DEF FiniVmPut, VmPut, ThreadHasTask, HwHasTask, TdrHasTask
  <2>. QED  BY <2>1, <2>2, <2>3, <2>4
<1>7. CASE FiniClear
  <2>1. TaskTypes'
    BY <1>7 DEF FiniClear
  <2>2. PipeTypes'
    BY <1>7 DEF FiniClear
  <2>3. FlagTypes'
    BY <1>7 DEF FiniClear
  <2>4. ThreadHasTask' /\ HwHasTask' /\ TdrHasTask'
    BY <1>7 DEF FiniClear, ThreadHasTask, HwHasTask, TdrHasTask
  <2>. QED  BY <2>1, <2>2, <2>3, <2>4
<1>8. CASE FiniStop
  <2>1. pending \subseteq Task
    OBVIOUS
  <2>2. StopScheduler(pending, NoTask)
    BY <1>8 DEF FiniStop
  <2>3. /\ parked' \in BOOLEAN /\ timer' \in BOOLEAN
        /\ pending' \subseteq pending /\ hwCount' \in Int
        /\ parent' \in [Task -> {"none", "set", "attached"}]
        /\ life' \in [Task -> {"new", "live", "freed"}]
        /\ vmRefs' \in [VMs -> Int]
    BY <2>1, <2>2, StopType
  <2>4. TaskTypes'
    BY <1>8, <2>1, <2>3 DEF FiniStop
  <2>5. PipeTypes'
    BY <1>8, <2>1, <2>3 DEF FiniStop
  <2>6. FlagTypes'
    BY <1>8, <2>1, <2>3 DEF FiniStop
  <2>7. ThreadHasTask' /\ HwHasTask' /\ TdrHasTask'
    BY <1>8, <2>1, <2>3 DEF FiniStop, ThreadHasTask, HwHasTask, TdrHasTask
  <2>. QED  BY <2>4, <2>5, <2>6, <2>7
<1>9. CASE FiniEnd
  <2>1. TaskTypes'
    BY <1>9 DEF FiniEnd
  <2>2. PipeTypes'
    BY <1>9 DEF FiniEnd
  <2>3. FlagTypes'
    BY <1>9 DEF FiniEnd
  <2>4. ThreadHasTask' /\ HwHasTask' /\ TdrHasTask'
    BY <1>9 DEF FiniEnd, ThreadHasTask, HwHasTask, TdrHasTask
  <2>. QED  BY <2>1, <2>2, <2>3, <2>4
<1>. QED  BY <1>1, <1>2, <1>3, <1>4, <1>5, <1>6, <1>7, <1>8, <1>9 DEF FiniStep

\* Submission and the closing of a file.
LEMMA ClientType ==
  ASSUME TypeInv, NEW v \in VMs, Submit(v) \/ CloseFile(v)
  PROVE  TypeInv'
<1>. USE DEF TypeInv, TaskTypes, PipeTypes, FlagTypes,
             taskVars, schedVars, tdrVars, hwVars, irqVars, pipeVars,
             refVars, finiVars
<1>1. CASE Submit(v)
  <2>1. submitted' \in Task /\ next \in 1 .. submitted' + 1
    BY <1>1, SchedAssumption DEF Submit, Task, SchedAssumption
  <2>2. submitted' \in 0 .. NumTasks
    BY <1>1, SchedAssumption DEF Submit, SchedAssumption
  <2>3. vmRefs' \in [VMs -> Int]
    BY <1>1 DEF Submit, VmGet
  <2>4. TaskTypes'
    BY <1>1, <2>1, <2>2 DEF Submit
  <2>5. PipeTypes' /\ FlagTypes' /\ ThreadHasTask' /\ HwHasTask' /\ TdrHasTask'
    BY <1>1, <2>3 DEF Submit, ThreadHasTask, HwHasTask, TdrHasTask
  <2>. QED  BY <2>4, <2>5
<1>2. CASE CloseFile(v)
  <2>1. TaskTypes' /\ FlagTypes' /\ ThreadHasTask' /\ HwHasTask' /\ TdrHasTask'
    BY <1>2 DEF CloseFile, ThreadHasTask, HwHasTask, TdrHasTask
  <2>2. PipeTypes'
    BY <1>2 DEF CloseFile, VmPut
  <2>. QED  BY <2>1, <2>2
<1>. QED  BY <1>1, <1>2

\* Every variable keeps its type, and the thread never starts a task it did
\* not pop, whatever the constants: all actions of the pipe, of its DRM
\* scheduler and of the hardware.
THEOREM TypeInvariance == Spec => []TypeInv
<1>1. Init => TypeInv
  <2>1. Init => TaskTypes
    BY SchedAssumption DEF Init, TaskTypes, SchedAssumption
  <2>2. Init => PipeTypes
    BY SchedAssumption DEF Init, PipeTypes, SchedAssumption
  <2>3. Init => FlagTypes
    BY DEF Init, FlagTypes
  <2>4. Init => ThreadHasTask /\ HwHasTask /\ TdrHasTask
    BY DEF Init, ThreadHasTask, HwHasTask, TdrHasTask
  <2>. QED  BY <2>1, <2>2, <2>3, <2>4 DEF TypeInv
<1>2. TypeInv /\ [Next]_vars => TypeInv'
  <2>. SUFFICES ASSUME TypeInv, [Next]_vars  PROVE TypeInv'
    OBVIOUS
  <2>1. CASE UNCHANGED vars
    BY <2>1 DEF TypeInv, TaskTypes, PipeTypes, FlagTypes, ThreadHasTask,
                HwHasTask, TdrHasTask, vars, runVars, taskVars, schedVars,
                tdrVars, hwVars, irqVars, pipeVars, refVars, finiVars
  <2>2. CASE Next
    BY <2>2, ClientType, ThreadType, HwType, IrqType, RecoverType, TdrType,
       FiniType DEF Next
  <2>. QED  BY <2>1, <2>2
<1>. QED  BY <1>1, <1>2, PTL DEF Spec

\* The type invariant the runs check, for every value of the constants.
THEOREM TypeCorrect == Spec => []TypeOK
<1>1. TypeInv => TypeOK
  BY DEF TypeInv
<1>. QED  BY <1>1, TypeInvariance, PTL

=============================================================================
