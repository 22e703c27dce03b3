------------------------ MODULE LimaSchedOrderProofs ------------------------
(***************************************************************************)
(* Theorems about one scheduler pipe while timeouts overlap completions,   *)
(* heap recoveries and starts, and starts fail: address-space references   *)
(* stay exact, every unfinished task has a timer, and each task gets one   *)
(* result, in dispatch order.  This holds until lima_sched_pipe_fini ends  *)
(* its wait for the task in flight, and for good when it is never called.  *)
(***************************************************************************)
EXTENDS LimaSchedProofs

NoTeardown == Teardown = {}

\* lima_sched_pipe_fini was not called, or waits for the task in flight.
Serving == fini \in {"off", "polling"}

\* The timeout handler has the scheduler's thread parked.
Stopped == {"stopped", "reset", "vmput", "cleared", "resubmitted"}

ParkInv ==
  /\ Serving /\ finiTask = NoTask
  /\ parked <=> tdr \in Stopped
  /\ parked => thread = "idle"
  /\ tdr = "idle" => ~freeGuilty

\* What is on the list, or kept by the timeout handler to free it, is in use
\* and was popped; what was not popped is not freed.
MemoryInv ==
  /\ \A t \in Task : t <= submitted <=> life[t] # "new"
  /\ \A t \in Task : t >= next => life[t] # "freed"
  /\ \A t \in Task : t <= submitted => vmOf[t] \in VMs
  /\ \A t \in pending : t < next /\ life[t] = "live"
  /\ tdr = "taken" \/ freeGuilty =>
       tdrTask < next /\ tdrTask \notin pending /\ life[tdrTask] = "live"

\* The one task that was popped and may have no result.
Last == next - 1
Waits == Last \in Task /\ finished[Last] = "no"

\* Results come in order; the scheduler's slot is taken by the task without
\* one, which is on the list or with the timeout handler; its callback is
\* attached only while the scheduler runs.
OrderInv ==
  /\ \A t \in Task : t < Last => finished[t] # "no"
  /\ \A t \in Task : t > Last => finished[t] = "no" /\ parent[t] = "none"
  /\ hwCount = IF Waits /\ ~parked THEN 1 ELSE 0
  /\ Waits => Last \in pending \/ (tdr = "taken" /\ tdrTask = Last)
  /\ thread # "idle" => Waits /\ parent[Last] # "attached"
  /\ \A t \in Task : parent[t] = "attached" /\ fence[t] = "unsignalled" =>
       finished[t] = "no" /\ t = Last /\ ~parked
  /\ parked => \A t \in pending : finished[t] = "no"

SafeInv == ParkInv /\ MemoryInv /\ OrderInv /\ VmRefsExact /\ Watched

-----------------------------------------------------------------------------
(***************************************************************************)
(* The threads' program counters.                                          *)
(***************************************************************************)

\* All that lima_sched_pipe_fini does up to the end of its wait is to begin it.
LEMMA FiniWaits ==
  ASSUME Serving, Serving', FiniStep
  PROVE  /\ fini = "off" /\ fini' = "polling" /\ FiniBegin
         /\ UNCHANGED <<taskVars, schedVars, tdrVars, hwVars, irqVars, pipeVars, refVars,
                        finiTask, panic>>
BY DEF Serving, FiniStep, FiniBegin, FiniIdle, FiniGiveUp, FiniReset, FiniSignal, FiniVmPut,
       FiniClear, FiniStop, FiniEnd

LEMMA ParkStep ==
  ASSUME TypeInv, ParkInv, Serving', [Next]_vars
  PROVE  ParkInv'
<1>. USE DEF ParkInv, Serving, Stopped, vars, runVars, taskVars, schedVars, tdrVars, hwVars, irqVars,
             pipeVars, refVars, finiVars
<1>1. CASE UNCHANGED vars
  BY <1>1
<1>2. CASE \E v \in VMs : Submit(v) \/ CloseFile(v)
  BY <1>2 DEF Submit, CloseFile
<1>3. CASE ThreadStep
  BY <1>3 DEF ThreadStep, ThreadCleanup, ThreadPop, ThreadPrepare, ThreadStartFails,
              ThreadStart, ThreadReturn
<1>4. CASE HwStep \/ IrqStep \/ RecoverStep
  BY <1>4 DEF HwStep, HwEvent, IrqStep, IrqEnter, IrqTaskError, IrqTaskDone,
              IrqTaskDoneBadPointer, IrqPmIdle, RecoverStep, RecoverGrows, RecoverBadPointer
<1>5. CASE TdrStep
  BY <1>5 DEF TdrStep, TdrFire, TdrStop, StopScheduler, TdrReset, TdrVmPut, TdrClear,
              TdrResubmitNone, TdrResubmit, TdrStart, TdrEnd
<1>6. CASE FiniStep
  BY <1>6, FiniWaits
<1>. QED  BY <1>1, <1>2, <1>3, <1>4, <1>5, <1>6 DEF Next

-----------------------------------------------------------------------------
(***************************************************************************)
(* Task memory.                                                            *)
(***************************************************************************)

\* drm_sched_stop frees tasks that are in use, and leaves the guilty one to
\* the timeout handler.
LEMMA StopMemory ==
  ASSUME TypeInv, MemoryInv, TdrStop
  PROVE  /\ pending' = Detachable(pending \cup {tdrTask}) /\ pending' \subseteq Task
         /\ \A t \in pending \cup {tdrTask} : t \in Task /\ life[t] = "live" /\ t < next
         /\ freeGuilty' => tdrTask \notin pending'
         /\ FreeJobs(((pending \cup {tdrTask}) \ pending') \ {tdrTask})
<1>1. pending' = Detachable(pending \cup {tdrTask})
  BY DEF TdrStop, StopScheduler
<1>2. \A t \in pending \cup {tdrTask} : t \in Task /\ life[t] = "live" /\ t < next
  BY DEF TdrStop, MemoryInv, TypeInv, TypeOK, TaskTypes, TdrHasTask
<1>3. freeGuilty' => tdrTask \notin pending'
  BY <1>1 DEF TdrStop, Detachable
<1>4. FreeJobs(((pending \cup {tdrTask}) \ pending') \ {tdrTask})
  BY <1>1 DEF TdrStop, StopScheduler
<1>5. pending' \subseteq Task
  BY <1>1, <1>2 DEF Detachable
<1>. QED  BY <1>1, <1>2, <1>3, <1>4, <1>5

LEMMA MemoryStep ==
  ASSUME TypeInv, TypeInv', ParkInv, Serving', MemoryInv, [Next]_vars
  PROVE  MemoryInv'
<1>. USE DEF taskVars, schedVars, tdrVars, hwVars, irqVars, pipeVars, refVars, finiVars
<1>0. /\ next \in Nat /\ submitted \in Nat /\ next <= submitted + 1 /\ pending \subseteq Task
      /\ life \in [Task -> {"new", "live", "freed"}] /\ NumTasks \in Nat
  BY SchedAssumption DEF TypeInv, TypeOK, TaskTypes, SchedAssumption
<1>1. ASSUME UNCHANGED <<submitted, next, life, vmOf, pending, tdr, tdrTask, freeGuilty>>
      PROVE  MemoryInv'
  BY <1>1 DEF MemoryInv
<1>2. ASSUME NEW v \in VMs, Submit(v) PROVE MemoryInv'
  <2>1. /\ submitted' = submitted + 1 /\ submitted' \in Task
        /\ life' = [life EXCEPT ![submitted'] = "live"]
        /\ vmOf' = [vmOf EXCEPT ![submitted'] = v]
        /\ UNCHANGED <<next, pending, tdr, tdrTask, freeGuilty>>
    BY <1>0, <1>2 DEF Submit, Task
  <2>2. vmOf \in [Task -> VMs \cup {NoVm}]
    BY DEF TypeInv, TypeOK, TaskTypes
  <2>3. \A t \in Task : t # submitted' => life'[t] = life[t] /\ vmOf'[t] = vmOf[t]
    BY <1>0, <2>1, <2>2
  <2>4. life'[submitted'] = "live" /\ vmOf'[submitted'] = v
    BY <1>0, <2>1, <2>2
  <2>5. \A t \in Task : t <= submitted' <=> t <= submitted \/ t = submitted'
    BY <1>0, <2>1 DEF Task
  <2>6. \A t \in pending : life'[t] = "live"
    BY <1>0, <2>3, <2>4 DEF MemoryInv
  <2>7. tdr = "taken" \/ freeGuilty => life'[tdrTask] = "live"
    <3>1. tdrTask # 0 => tdrTask \in Task
      BY DEF TypeInv, TypeOK, PipeTypes, NoTask
    <3>2. tdr # "idle" => tdrTask \in Task
      BY DEF TypeInv, TdrHasTask
    <3>. QED  BY <2>3, <2>4, <3>2 DEF MemoryInv, ParkInv
  <2>. QED  BY <2>1, <2>3, <2>4, <2>5, <2>6, <2>7 DEF MemoryInv
<1>3. ASSUME NEW v \in VMs, CloseFile(v) PROVE MemoryInv'
  BY <1>1, <1>3 DEF CloseFile
<1>4. CASE ThreadStep
  <2>1. CASE ThreadCleanup
    <3>1. PICK t \in Task : t \in pending /\ pending' = pending \ {t} /\ FreeJobs({t})
      BY <2>1 DEF ThreadCleanup, Reapable, IsHead
    <3>2. UNCHANGED <<submitted, next, vmOf, tdr, tdrTask, freeGuilty>>
      BY <2>1 DEF ThreadCleanup
    <3>3. life' = [u \in Task |-> IF u = t THEN "freed" ELSE life[u]]
      BY <3>1 DEF FreeJobs
    <3>4. life[t] = "live"
      BY <3>1 DEF MemoryInv
    <3>5. tdr # "idle" => tdrTask \in Task
      BY DEF TypeInv, TdrHasTask
    <3>6. tdr = "taken" \/ freeGuilty => life'[tdrTask] = "live" /\ tdrTask \notin pending'
      BY <3>1, <3>3, <3>5 DEF MemoryInv, ParkInv
    <3>7. \A u \in Task : u >= next => life'[u] # "freed"
      <4>1. t < next
        BY <3>1 DEF MemoryInv
      <4>. QED  BY <1>0, <3>3, <4>1 DEF MemoryInv, Task
    <3>8. \A u \in Task : u <= submitted <=> life'[u] # "new"
      BY <3>3, <3>4 DEF MemoryInv
    <3>9. \A u \in pending' : u < next /\ life'[u] = "live"
      BY <1>0, <3>1, <3>3 DEF MemoryInv
    <3>10. \A u \in Task : u <= submitted => vmOf[u] \in VMs
      BY DEF MemoryInv
    <3>11. tdr = "taken" \/ freeGuilty => tdrTask < next
      BY DEF MemoryInv
    <3>. QED  BY <3>2, <3>6, <3>7, <3>8, <3>9, <3>10, <3>11 DEF MemoryInv
  <2>2. CASE ThreadPop
    <3>1. /\ next <= submitted /\ next' = next + 1 /\ pending' = pending \cup {next}
          /\ UNCHANGED <<submitted, life, vmOf, tdr, tdrTask, freeGuilty>>
      BY <2>2 DEF ThreadPop
    <3>2. next \in Task
      BY <1>0, <3>1 DEF TypeInv, TypeOK, TaskTypes, Task
    <3>3. life[next] = "live"
      <4>1. life[next] # "new"
        BY <1>0, <3>1, <3>2 DEF MemoryInv
      <4>2. next >= next
        BY <1>0
      <4>3. life[next] # "freed"
        BY <3>2, <4>2 DEF MemoryInv
      <4>. QED  BY <1>0, <3>2, <4>1, <4>3
    <3>4. \A t \in pending' : t < next' /\ life'[t] = "live"
      BY <1>0, <3>1, <3>3 DEF MemoryInv, Task
    <3>5. \A t \in Task : t >= next' => life'[t] # "freed"
      BY <1>0, <3>1 DEF MemoryInv, Task
    <3>6. /\ \A t \in Task : t <= submitted' <=> life'[t] # "new"
          /\ \A t \in Task : t <= submitted' => vmOf'[t] \in VMs
      BY <3>1 DEF MemoryInv
    <3>7. tdr' = "taken" \/ freeGuilty' =>
            tdrTask' < next' /\ tdrTask' \notin pending' /\ life'[tdrTask'] = "live"
      <4>1. ASSUME tdr = "taken" \/ freeGuilty
            PROVE  tdrTask < next /\ tdrTask \notin pending /\ life[tdrTask] = "live" /\ tdrTask \in Int
        BY <4>1 DEF MemoryInv, TypeInv, TypeOK, PipeTypes, Task, NoTask
      <4>. QED  BY <1>0, <3>1, <4>1
    <3>. QED  BY <3>4, <3>5, <3>6, <3>7 DEF MemoryInv
  <2>3. CASE ThreadPrepare \/ ThreadStartFails \/ ThreadStart \/ ThreadReturn
    BY <1>1, <2>3 DEF ThreadPrepare, ThreadStartFails, ThreadStart, ThreadReturn
  <2>. QED  BY <1>4, <2>1, <2>2, <2>3 DEF ThreadStep
<1>5. CASE HwStep \/ IrqStep \/ RecoverStep
  BY <1>1, <1>5 DEF HwStep, HwEvent, IrqStep, IrqEnter, IrqTaskError, IrqTaskDone,
              IrqTaskDoneBadPointer, IrqPmIdle, RecoverStep, RecoverGrows, RecoverBadPointer
<1>6. CASE TdrStep
  <2>1. CASE TdrFire
    <3>1. PICK t \in Task : t \in pending /\ tdrTask' = t /\ pending' = pending \ {t}
      BY <2>1 DEF TdrFire, IsHead
    <3>2. tdr' = "taken" /\ UNCHANGED <<submitted, next, life, vmOf, freeGuilty>>
      BY <2>1 DEF TdrFire
    <3>. QED  BY <1>0, <3>1, <3>2 DEF MemoryInv
  <2>2. CASE TdrStop
    <3>1. /\ tdr' = "stopped" /\ UNCHANGED <<submitted, next, vmOf, tdrTask>>
      BY <2>2 DEF TdrStop
    <3>2. \A t \in Task : life'[t] = IF t \in (pending \cup {tdrTask}) \ pending' /\ t # tdrTask
                                     THEN "freed" ELSE life[t]
      BY <2>2, StopMemory DEF FreeJobs
    <3>3. \A t \in pending' : t \in Task /\ t \in pending \cup {tdrTask}
      BY <2>2, StopMemory DEF Detachable
    <3>4. \A t \in pending' : life'[t] = "live" /\ t < next
      BY <2>2, <3>2, <3>3, StopMemory
    <3>5. \A t \in Task : life'[t] # "new" <=> life[t] # "new"
      BY <2>2, <3>2, StopMemory
    <3>6. freeGuilty' => tdrTask < next /\ tdrTask \notin pending' /\ life'[tdrTask] = "live"
      BY <2>2, <3>2, StopMemory
    <3>7. \A t \in Task : t >= next => life'[t] # "freed"
      <4>1. \A t \in pending \cup {tdrTask} : t < next
        BY <2>2, StopMemory
      <4>. QED  BY <1>0, <3>2, <4>1 DEF MemoryInv, Task
    <3>. QED  BY <3>1, <3>4, <3>5, <3>6, <3>7 DEF MemoryInv
  <2>3. CASE TdrReset \/ TdrVmPut \/ TdrClear \/ TdrResubmitNone \/ TdrResubmit \/ TdrStart
    <3>1. /\ UNCHANGED <<submitted, next, life, vmOf, pending, tdrTask, freeGuilty>>
          /\ tdr' # "taken"
      BY <2>3 DEF TdrReset, TdrVmPut, TdrClear, TdrResubmitNone, TdrResubmit, TdrStart
    <3>. QED  BY <3>1 DEF MemoryInv
  <2>4. CASE TdrEnd
    <3>1. /\ tdr' = "idle" /\ ~freeGuilty'
          /\ UNCHANGED <<submitted, next, vmOf, pending>>
          /\ FreeJobs(IF freeGuilty THEN {tdrTask} ELSE {})
      BY <2>4 DEF TdrEnd
    <3>2. \A t \in Task : life'[t] = IF freeGuilty /\ t = tdrTask THEN "freed" ELSE life[t]
      BY <3>1 DEF FreeJobs
    <3>3. freeGuilty => tdrTask < next /\ tdrTask \notin pending /\ life[tdrTask] = "live"
      BY DEF MemoryInv
    <3>4. \A t \in Task : t >= next => life'[t] # "freed"
      BY <1>0, <3>2, <3>3 DEF MemoryInv, Task
    <3>5. \A t \in Task : t <= submitted <=> life'[t] # "new"
      BY <3>2, <3>3 DEF MemoryInv
    <3>6. \A t \in pending : t < next /\ life'[t] = "live"
      BY <1>0, <3>2, <3>3 DEF MemoryInv
    <3>. QED  BY <3>1, <3>4, <3>5, <3>6 DEF MemoryInv
  <2>. QED  BY <1>6, <2>1, <2>2, <2>3, <2>4 DEF TdrStep
<1>7. CASE UNCHANGED vars
  BY <1>1, <1>7 DEF vars, runVars
<1>8. CASE FiniStep
  BY <1>1, <1>8, FiniWaits DEF ParkInv
<1>. QED  BY <1>2, <1>3, <1>4, <1>5, <1>6, <1>7, <1>8 DEF Next

-----------------------------------------------------------------------------
(***************************************************************************)
(* References to address spaces.                                           *)
(***************************************************************************)
LiveIn(v) == {t \in Task : life[t] = "live" /\ vmOf[t] = v}
Held(v) == B(currentVm = v /\ tdr # "vmput" /\ fini # "vmput")

LEMMA RefsAre == VmRefsExact <=>
  \A v \in VMs : vmRefs[v] = B(v \in vmOpen) + Cardinality(LiveIn(v)) + Held(v)
BY DEF VmRefsExact, LiveIn, Held

LEMMA LiveFinite == ASSUME NEW v \in VMs
                    PROVE  IsFiniteSet(LiveIn(v)) /\ Cardinality(LiveIn(v)) \in Nat
BY TasksFinite DEF LiveIn

\* What FreeJobs takes from the counts it takes from the tasks in use.
LEMMA FreeRefs ==
  ASSUME TypeInv, NEW S \in SUBSET Task, \A t \in S : life[t] = "live",
         FreeJobs(S), UNCHANGED vmOf, NEW v \in VMs
  PROVE  /\ vmRefs'[v] - Cardinality(LiveIn(v)') = vmRefs[v] - Cardinality(LiveIn(v))
         /\ vmRefs[v] \in Int /\ vmRefs'[v] \in Int
         /\ Cardinality(LiveIn(v)) \in Nat /\ Cardinality(LiveIn(v)') \in Nat
<1>. DEFINE F == {t \in S : vmOf[t] = v}
<1>1. F \subseteq LiveIn(v) /\ IsFiniteSet(LiveIn(v)) /\ Cardinality(LiveIn(v)) \in Nat
  BY LiveFinite DEF LiveIn
<1>2. LiveIn(v)' = LiveIn(v) \ F
  BY DEF LiveIn, FreeJobs
<1>3. IsFiniteSet(F) /\ LiveIn(v) \cap F = F
  BY <1>1, FS_Subset
<1>4. Cardinality(LiveIn(v) \ F) = Cardinality(LiveIn(v)) - Cardinality(F)
  BY <1>1, <1>3, FS_Difference
<1>5. Cardinality(F) \in Nat
  BY <1>3, FS_CardinalityType
<1>6. vmRefs'[v] = vmRefs[v] - Cardinality(F)
  BY DEF FreeJobs
<1>7. vmRefs[v] \in Int
  BY DEF TypeInv, TypeOK, PipeTypes
<1>8. Cardinality(LiveIn(v) \ F) \in Nat
  BY <1>1, <1>3, FS_Difference, FS_CardinalityType
<1>. QED  BY <1>1, <1>2, <1>4, <1>5, <1>6, <1>7, <1>8

LEMMA SwitchRefs ==
  ASSUME TypeInv, NEW t \in Task, vmOf[t] \in VMs, SwitchVm(t), NEW v \in VMs
  PROVE  /\ vmRefs'[v] = vmRefs[v] - B(currentVm = v) + B(vmOf[t] = v)
         /\ currentVm' = vmOf[t]
<1>1. vmRefs \in [VMs -> Int] /\ NoVm \notin VMs /\ currentVm \in VMs \cup {NoVm}
  BY SchedAssumption DEF TypeInv, TypeOK, PipeTypes, SchedAssumption
<1>. DEFINE put == VmPut(vmRefs, currentVm)
<1>2. put \in [VMs -> Int] /\ put[v] = vmRefs[v] - B(currentVm = v)
  BY <1>1 DEF VmPut, B
<1>3. vmRefs' = [put EXCEPT ![vmOf[t]] = @ + 1] /\ currentVm' = vmOf[t]
  BY DEF SwitchVm, VmGet
<1>4. vmRefs'[v] = IF vmOf[t] = v THEN put[v] + 1 ELSE put[v]
  BY <1>2, <1>3
<1>. QED  BY <1>1, <1>2, <1>3, <1>4 DEF B

LEMMA RefsStep ==
  ASSUME TypeInv, TypeInv', ParkInv, ParkInv', MemoryInv, VmRefsExact, [Next]_vars
  PROVE  VmRefsExact'
<1>. USE DEF taskVars, schedVars, tdrVars, hwVars, irqVars, pipeVars, refVars, finiVars
<1>0. /\ vmRefs \in [VMs -> Int] /\ NoVm \notin VMs /\ fini # "vmput" /\ fini' # "vmput"
      /\ \A v \in VMs : vmRefs[v] = B(v \in vmOpen) + Cardinality(LiveIn(v)) + Held(v)
  BY SchedAssumption, RefsAre DEF TypeInv, TypeOK, PipeTypes, SchedAssumption, ParkInv, Serving
<1>. SUFFICES ASSUME NEW v \in VMs
              PROVE  (vmRefs[v] = B(v \in vmOpen) + Cardinality(LiveIn(v)) + Held(v))'
  BY RefsAre DEF VmRefsExact, LiveIn, Held
<1>9. /\ vmRefs[v] \in Int /\ IsFiniteSet(LiveIn(v)) /\ Cardinality(LiveIn(v)) \in Nat
      /\ vmRefs[v] = B(v \in vmOpen) + Cardinality(LiveIn(v)) + Held(v)
  BY <1>0, LiveFinite
<1>. DEFINE Goal == (vmRefs[v] = B(v \in vmOpen) + Cardinality(LiveIn(v)) + Held(v))'
<1>1. ASSUME UNCHANGED <<vmRefs, vmOpen, life, vmOf, currentVm>>, (tdr = "vmput" <=> tdr' = "vmput")
      PROVE  Goal
  <2>1. LiveIn(v)' = LiveIn(v) /\ Held(v)' = Held(v)
    BY <1>0, <1>1 DEF LiveIn, Held
  <2>. QED  BY <1>1, <1>9, <2>1
<1>2. ASSUME NEW u \in VMs, Submit(u) PROVE Goal
  <2>1. /\ submitted' = submitted + 1 /\ submitted' \in Task
        /\ life' = [life EXCEPT ![submitted'] = "live"]
        /\ vmOf' = [vmOf EXCEPT ![submitted'] = u]
        /\ vmRefs' = [vmRefs EXCEPT ![u] = @ + 1]
        /\ UNCHANGED <<vmOpen, currentVm, tdr>>
        /\ submitted \in Nat
    BY <1>2, SchedAssumption DEF Submit, Task, VmGet, TypeInv, TypeOK, TaskTypes, SchedAssumption
  <2>2. life \in [Task -> {"new", "live", "freed"}] /\ vmOf \in [Task -> VMs \cup {NoVm}]
    BY DEF TypeInv, TypeOK, TaskTypes
  <2>3. life[submitted'] = "new"
    BY <2>1 DEF MemoryInv
  <2>4. LiveIn(v)' = IF u = v THEN LiveIn(v) \cup {submitted'} ELSE LiveIn(v)
    BY <2>1, <2>2, <2>3 DEF LiveIn
  <2>5. submitted' \notin LiveIn(v)
    BY <2>3 DEF LiveIn
  <2>6. Cardinality(LiveIn(v) \cup {submitted'}) = Cardinality(LiveIn(v)) + 1
    BY <1>9, <2>5, FS_AddElement
  <2>7. Held(v)' = Held(v) /\ Held(v) \in {0, 1} /\ B(v \in vmOpen) \in {0, 1}
    BY <1>0, <2>1 DEF Held, B
  <2>8. vmRefs'[v] = IF u = v THEN vmRefs[v] + 1 ELSE vmRefs[v]
    BY <1>0, <2>1
  <2>9. B(v \in vmOpen)' = B(v \in vmOpen)
    BY <2>1
  <2>. QED  BY <1>9, <2>4, <2>6, <2>7, <2>8, <2>9
<1>3. ASSUME NEW u \in VMs, CloseFile(u) PROVE Goal
  <2>1. /\ u \in vmOpen /\ vmOpen' = vmOpen \ {u} /\ UNCHANGED <<life, vmOf, currentVm, tdr>>
        /\ vmRefs' = [vmRefs EXCEPT ![u] = @ - 1]
    BY <1>0, <1>3 DEF CloseFile, VmPut
  <2>2. LiveIn(v)' = LiveIn(v) /\ Held(v)' = Held(v) /\ Held(v) \in {0, 1}
    BY <1>0, <2>1 DEF LiveIn, Held, B
  <2>3. vmRefs'[v] = IF u = v THEN vmRefs[v] - 1 ELSE vmRefs[v]
    BY <1>0, <2>1
  <2>4. B(v \in vmOpen)' = IF u = v THEN 0 ELSE B(v \in vmOpen)
    BY <2>1 DEF B
  <2>5. u = v => B(v \in vmOpen) = 1
    BY <2>1 DEF B
  <2>6. B(v \in vmOpen) \in {0, 1}
    BY DEF B
  <2>. QED  BY <1>9, <2>2, <2>3, <2>4, <2>5, <2>6
<1>4. ASSUME NEW S \in SUBSET Task, \A t \in S : life[t] = "live", FreeJobs(S),
             UNCHANGED <<vmOf, vmOpen, currentVm>>, tdr # "vmput", tdr' # "vmput"
      PROVE  Goal
  <2>1. Held(v)' = Held(v) /\ Held(v) \in {0, 1} /\ B(v \in vmOpen) \in {0, 1}
    BY <1>0, <1>4 DEF Held, B
  <2>2. B(v \in vmOpen)' = B(v \in vmOpen)
    BY <1>4
  <2>3. /\ vmRefs'[v] - Cardinality(LiveIn(v)') = vmRefs[v] - Cardinality(LiveIn(v))
        /\ vmRefs'[v] \in Int /\ Cardinality(LiveIn(v)') \in Nat
    BY <1>4, FreeRefs
  <2>. QED  BY <1>9, <2>1, <2>2, <2>3
<1>5. ASSUME NEW t \in Task, vmOf[t] \in VMs, SwitchVm(t), UNCHANGED <<vmOpen, life, vmOf>>,
             tdr # "vmput", tdr' # "vmput"
      PROVE  Goal
  <2>1. LiveIn(v)' = LiveIn(v) /\ B(v \in vmOpen)' = B(v \in vmOpen) /\ B(v \in vmOpen) \in {0, 1}
    BY <1>5 DEF LiveIn, B
  <2>2. /\ vmRefs'[v] = vmRefs[v] - B(currentVm = v) + B(vmOf[t] = v)
        /\ currentVm' = vmOf[t]
    BY <1>5, SwitchRefs
  <2>3. /\ Held(v)' = B(vmOf[t] = v) /\ Held(v) = B(currentVm = v)
        /\ B(vmOf[t] = v) \in {0, 1} /\ B(currentVm = v) \in {0, 1}
    BY <1>0, <1>5, <2>2 DEF Held, B
  <2>. QED  BY <1>9, <2>1, <2>2, <2>3
<1>6. CASE ThreadStep
  <2>1. CASE ThreadCleanup
    <3>1. PICK t \in Task : t \in pending /\ FreeJobs({t})
      BY <2>1 DEF ThreadCleanup, Reapable, IsHead
    <3>2. life[t] = "live" /\ {t} \in SUBSET Task
      BY <3>1 DEF MemoryInv
    <3>3. /\ UNCHANGED <<vmOf, vmOpen, currentVm, tdr>> /\ tdr # "vmput"
      BY <2>1 DEF ThreadCleanup, ParkInv, Stopped
    <3>. QED  BY <1>4, <3>1, <3>2, <3>3
  <2>2. CASE ThreadStart
    <3>1. Last \in Task /\ vmOf[Last] \in VMs
      <4>1. Last \in Task /\ Last <= submitted
        BY <2>2, SchedAssumption DEF ThreadStart, TypeInv, ThreadHasTask, TypeOK, TaskTypes,
                 Last, Task, SchedAssumption
      <4>. QED  BY <4>1 DEF MemoryInv
    <3>2. /\ SwitchVm(Last) /\ UNCHANGED <<vmOpen, life, vmOf, tdr>> /\ tdr # "vmput"
      BY <2>2 DEF ThreadStart, StartRun, Picked, Last, ParkInv, Stopped
    <3>. QED  BY <1>5, <3>1, <3>2
  <2>3. CASE ThreadPop \/ ThreadPrepare \/ ThreadStartFails \/ ThreadReturn
    BY <1>1, <2>3 DEF ThreadPop, ThreadPrepare, ThreadStartFails, ThreadReturn
  <2>. QED  BY <1>6, <2>1, <2>2, <2>3 DEF ThreadStep
<1>7. CASE HwStep \/ IrqStep \/ RecoverStep
  BY <1>1, <1>7 DEF HwStep, HwEvent, IrqStep, IrqEnter, IrqTaskError, IrqTaskDone,
              IrqTaskDoneBadPointer, IrqPmIdle, RecoverStep, RecoverGrows, RecoverBadPointer
<1>8. CASE TdrStep
  <2>1. CASE TdrStop
    <3>1. \A t \in ((pending \cup {tdrTask}) \ pending') \ {tdrTask} :
            t \in Task /\ life[t] = "live"
      BY <2>1, StopMemory
    <3>2. FreeJobs(((pending \cup {tdrTask}) \ pending') \ {tdrTask})
      BY <2>1, StopMemory
    <3>3. UNCHANGED <<vmOf, vmOpen, currentVm>> /\ tdr # "vmput" /\ tdr' # "vmput"
      BY <2>1 DEF TdrStop
    <3>. QED  BY <1>4, <3>1, <3>2, <3>3
  <2>2. CASE TdrVmPut
    <3>1. /\ vmRefs' = VmPut(vmRefs, currentVm) /\ tdr = "reset" /\ tdr' = "vmput"
          /\ UNCHANGED <<vmOpen, life, vmOf, currentVm>>
      BY <2>2 DEF TdrVmPut
    <3>2. Held(v)' = 0 /\ Held(v) = B(currentVm = v)
      BY <1>0, <3>1 DEF Held, B
    <3>3. vmRefs'[v] = vmRefs[v] - B(currentVm = v)
      BY <1>0, <3>1 DEF VmPut, B
    <3>4. LiveIn(v)' = LiveIn(v) /\ B(v \in vmOpen)' = B(v \in vmOpen)
          /\ B(v \in vmOpen) \in {0, 1} /\ B(currentVm = v) \in {0, 1}
      BY <3>1 DEF LiveIn, B
    <3>. QED  BY <1>9, <3>2, <3>3, <3>4
  <2>3. CASE TdrClear
    <3>1. /\ tdr = "vmput" /\ currentVm' = NoVm /\ UNCHANGED <<vmRefs, vmOpen, life, vmOf>>
      BY <2>3 DEF TdrClear
    <3>2. Held(v)' = 0 /\ Held(v) = 0
      BY <1>0, <3>1 DEF Held, B
    <3>3. LiveIn(v)' = LiveIn(v) /\ B(v \in vmOpen)' = B(v \in vmOpen)
      BY <3>1 DEF LiveIn
    <3>. QED  BY <1>9, <3>1, <3>2, <3>3
  <2>4. CASE TdrResubmit
    <3>1. PICK t \in pending : SwitchVm(t)
      BY <2>4 DEF TdrResubmit, StartRun
    <3>2. t \in Task /\ vmOf[t] \in VMs
      BY <3>1 DEF MemoryInv, TypeInv, TypeOK, TaskTypes
    <3>3. UNCHANGED <<vmOpen, life, vmOf>> /\ tdr # "vmput" /\ tdr' # "vmput"
      BY <2>4 DEF TdrResubmit
    <3>. QED  BY <1>5, <3>1, <3>2, <3>3
  <2>5. CASE TdrEnd
    <3>1. FreeJobs(IF freeGuilty THEN {tdrTask} ELSE {})
      BY <2>5 DEF TdrEnd
    <3>2. \A t \in (IF freeGuilty THEN {tdrTask} ELSE {}) : t \in Task /\ life[t] = "live"
      BY <2>5 DEF TdrEnd, MemoryInv, TypeInv, TdrHasTask
    <3>3. UNCHANGED <<vmOf, vmOpen, currentVm>> /\ tdr # "vmput" /\ tdr' # "vmput"
      BY <2>5 DEF TdrEnd
    <3>4. (IF freeGuilty THEN {tdrTask} ELSE {}) \in SUBSET Task
      BY <3>2
    <3>. QED  BY <1>4, <3>1, <3>2, <3>3, <3>4
  <2>6. CASE TdrFire \/ TdrReset \/ TdrResubmitNone \/ TdrStart
    BY <1>1, <2>6 DEF TdrFire, TdrReset, TdrResubmitNone, TdrStart
  <2>. QED  BY <1>8, <2>1, <2>2, <2>3, <2>4, <2>5, <2>6 DEF TdrStep
<1>10. CASE UNCHANGED vars
  BY <1>1, <1>10 DEF vars, runVars
<1>11. CASE FiniStep
  BY <1>1, <1>11, FiniWaits DEF ParkInv
<1>. QED  BY <1>2, <1>3, <1>6, <1>7, <1>8, <1>10, <1>11 DEF Next

-----------------------------------------------------------------------------
(***************************************************************************)
(* The order of results.                                                   *)
(***************************************************************************)

\* While the timeout handler has the thread parked, the list holds the task
\* without a result and nothing else.
LEMMA ParkedPending ==
  ASSUME TypeInv, ParkInv, MemoryInv, OrderInv, parked
  PROVE  pending = IF Waits THEN {Last} ELSE {}
<1>1. next \in Nat /\ pending \subseteq Task /\ tdr # "taken"
  BY DEF TypeInv, TypeOK, TaskTypes, ParkInv, Stopped
<1>2. \A t \in pending : t < next /\ t \in Nat /\ t \in Task /\ finished[t] = "no"
  BY <1>1 DEF MemoryInv, OrderInv, Task
<1>3. \A t \in pending : t = Last
  BY <1>1, <1>2 DEF OrderInv, Last
<1>4. Waits => Last \in pending
  BY <1>1 DEF OrderInv
<1>5. pending # {} => Waits
  BY <1>2, <1>3 DEF Waits
<1>. QED  BY <1>3, <1>4, <1>5

\* drm_sched_stop keeps the task without a result, if there is one.
LEMMA StopKeeps ==
  ASSUME TypeInv, ParkInv, MemoryInv, OrderInv, TdrStop
  PROVE  /\ pending' = IF Waits THEN {Last} ELSE {}
         /\ hwCount' = 0
         /\ parent' = [t \in Task |-> IF t \in pending' THEN "none" ELSE parent[t]]
<1>1. pending' = Detachable(pending \cup {tdrTask}) /\ pending' \subseteq Task
  BY StopMemory
<1>2. \A t \in pending' : t = Last /\ Waits
  BY <1>1 DEF Detachable, OrderInv, Waits
<1>3. Waits => Last \in pending'
  <2>1. Waits => Last \in pending \cup {tdrTask}
    BY DEF OrderInv
  <2>2. \A t \in (pending \cup {tdrTask}) \ pending' : finished[t] # "no"
    BY <1>1 DEF TdrStop, StopScheduler
  <2>. QED  BY <2>1, <2>2 DEF Waits
<1>4. pending' = IF Waits THEN {Last} ELSE {}
  BY <1>2, <1>3
<1>5. hwCount' = hwCount - Cardinality(pending')
  BY <1>1 DEF TdrStop, StopScheduler
<1>6. hwCount = IF Waits THEN 1 ELSE 0
  BY DEF TdrStop, ParkInv, Stopped, OrderInv
<1>7. hwCount' = 0
  <2>1. CASE Waits
    <3>1. pending' = {Last} /\ Cardinality({Last}) = 1
      BY <1>4, <2>1, FS_Singleton
    <3>. QED  BY <1>5, <1>6, <2>1, <3>1
  <2>2. CASE ~Waits
    <3>1. pending' = {} /\ Cardinality({}) = 0
      BY <1>4, <2>2, FS_EmptySet
    <3>. QED  BY <1>5, <1>6, <2>2, <3>1
  <2>. QED  BY <2>1, <2>2
<1>8. parent' = [t \in Task |-> IF t \in pending' THEN "none" ELSE parent[t]]
  BY <1>1 DEF TdrStop, StopScheduler
<1>. QED  BY <1>4, <1>7, <1>8

\* drm_sched_start attaches the callback of the task that runs again, or
\* gives the one that does not its result.
LEMMA StartResumes ==
  ASSUME TypeInv, ParkInv, MemoryInv, OrderInv, TdrStart
  PROVE  \/ /\ Waits /\ hwCount' = 1 /\ UNCHANGED finished
            /\ parent' = [t \in Task |-> IF t = Last THEN "attached" ELSE parent[t]]
         \/ /\ Waits /\ hwCount' = 0 /\ parent' = parent
            /\ \E r \in {"ok", "error"} : finished' = [finished EXCEPT ![Last] = r]
         \/ ~Waits /\ hwCount' = 0 /\ parent' = parent /\ UNCHANGED finished
<1>. DEFINE runs == {t \in pending : parent[t] = "set" /\ fence[t] = "unsignalled"}
<1>1. /\ hwCount' = hwCount + Cardinality(runs)
      /\ parent' = [t \in Task |-> IF t \in runs THEN "attached" ELSE parent[t]]
      /\ finished' = [t \in Task |->
            IF t \in pending \ runs THEN Outcome(t, "ok") ELSE finished[t]]
  BY DEF TdrStart
<1>2. parked /\ hwCount = 0
  BY DEF TdrStart, ParkInv, Stopped, OrderInv
<1>3. pending = IF Waits THEN {Last} ELSE {}
  BY <1>2, ParkedPending
<1>4. /\ finished \in [Task -> {"no", "ok", "error"}]
      /\ parent \in [Task -> {"none", "set", "attached"}]
  BY DEF TypeInv, TypeOK, TaskTypes
<1>5. CASE Waits /\ runs = {Last}
  <2>1. hwCount' = 1
    <3>1. Cardinality(runs) = 1
      BY <1>5, FS_Singleton
    <3>. QED  BY <1>1, <1>2, <3>1
  <2>2. finished' = finished
    BY <1>1, <1>3, <1>4, <1>5
  <2>3. parent' = [t \in Task |-> IF t = Last THEN "attached" ELSE parent[t]]
    BY <1>1, <1>5
  <2>. QED  BY <1>5, <2>1, <2>2, <2>3
<1>6. CASE Waits /\ runs = {}
  <2>1. hwCount' = 0 /\ parent' = parent
    BY <1>1, <1>2, <1>4, <1>6, FS_EmptySet
  <2>2. Outcome(Last, "ok") \in {"ok", "error"}
    BY DEF Outcome
  <2>3. finished' = [finished EXCEPT ![Last] = Outcome(Last, "ok")]
    <3>1. pending \ runs = {Last}
      BY <1>3, <1>6
    <3>. QED  BY <1>1, <1>4, <3>1
  <2>. QED  BY <1>6, <2>1, <2>2, <2>3
<1>7. CASE ~Waits
  <2>1. pending = {} /\ runs = {}
    BY <1>3, <1>7
  <2>2. hwCount' = 0 /\ parent' = parent /\ finished' = finished
    BY <1>1, <1>2, <1>4, <2>1, FS_EmptySet
  <2>. QED  BY <1>7, <2>2
<1>8. runs = {} \/ runs = {Last}
  BY <1>3
<1>. QED  BY <1>5, <1>6, <1>7, <1>8

\* A step gives no result, or the one that is due.
LEMMA ResultStep ==
  ASSUME TypeInv, ParkInv, Serving', MemoryInv, OrderInv, [Next]_vars
  PROVE  \/ UNCHANGED finished
         \/ /\ Waits /\ UNCHANGED <<submitted, next>>
            /\ \E r \in {"ok", "error"} : finished' = [finished EXCEPT ![Last] = r]
<1>. USE DEF taskVars, schedVars, tdrVars, hwVars, irqVars, pipeVars, refVars, finiVars
<1>0. \A t : Outcome(t, "ok") \in {"ok", "error"}
  BY DEF Outcome
<1>1. CASE \E v \in VMs : Submit(v) \/ CloseFile(v)
  BY <1>1 DEF Submit, CloseFile
<1>2. CASE ThreadStep
  <2>1. CASE ThreadStartFails
    BY <1>0, <2>1 DEF ThreadStartFails, JobDone, Picked, Last, OrderInv
  <2>2. CASE ThreadReturn
    <3>1. Waits /\ UNCHANGED <<submitted, next>>
      BY <2>2 DEF ThreadReturn, OrderInv
    <3>2. JobDone(Last, "ok") \/ UNCHANGED finished
      BY <2>2 DEF ThreadReturn, Picked, Last
    <3>. QED  BY <1>0, <3>1, <3>2 DEF JobDone
  <2>3. CASE ThreadCleanup \/ ThreadPop \/ ThreadPrepare \/ ThreadStart
    BY <2>3 DEF ThreadCleanup, ThreadPop, ThreadPrepare, ThreadStart
  <2>. QED  BY <1>2, <2>1, <2>2, <2>3 DEF ThreadStep
<1>3. CASE IrqTaskDone
  <2>1. currentTask \in Task /\ SignalFence(currentTask, "ok") /\ UNCHANGED <<submitted, next>>
    BY <1>3 DEF IrqTaskDone, TypeInv, TypeOK, PipeTypes
  <2>2. CASE fence[currentTask] = "unsignalled" /\ parent[currentTask] = "attached"
    <3>1. currentTask = Last /\ Waits
      BY <2>1, <2>2 DEF OrderInv, Waits
    <3>. QED  BY <1>0, <2>1, <2>2, <3>1 DEF SignalFence, JobDone
  <2>. QED  BY <2>1, <2>2 DEF SignalFence
<1>4. CASE HwStep \/ RecoverStep \/ IrqEnter \/ IrqTaskError \/ IrqTaskDoneBadPointer
           \/ IrqPmIdle
  BY <1>4 DEF HwStep, HwEvent, IrqEnter, IrqTaskError, IrqTaskDoneBadPointer, IrqPmIdle,
              RecoverStep, RecoverGrows, RecoverBadPointer
<1>5. CASE TdrStart
  BY <1>5, StartResumes DEF TdrStart
<1>6. CASE TdrStep /\ ~TdrStart
  BY <1>6 DEF TdrStep, TdrFire, TdrStop, TdrReset, TdrVmPut, TdrClear, TdrResubmitNone,
              TdrResubmit, TdrEnd
<1>7. CASE UNCHANGED vars
  BY <1>7 DEF vars, runVars
<1>8. CASE FiniStep
  BY <1>8, FiniWaits DEF ParkInv
<1>. QED  BY <1>1, <1>2, <1>3, <1>4, <1>5, <1>6, <1>7, <1>8 DEF Next, IrqStep

\* What a result that is given does to the order of results.
LEMMA DoneOrder ==
  ASSUME TypeInv, OrderInv, Waits, UNCHANGED <<next, submitted>>,
         NEW r \in {"ok", "error"}, finished' = [finished EXCEPT ![Last] = r]
  PROVE  /\ ~Waits' /\ Last' = Last
         /\ \A t \in Task : t < Last' => finished'[t] # "no"
         /\ \A t \in Task : t > Last' => finished'[t] = "no"
         /\ \A t \in Task : t # Last => finished'[t] = finished[t]
<1>1. finished \in [Task -> {"no", "ok", "error"}] /\ next \in Nat /\ Last' = Last
      /\ Last \in Task /\ finished'[Last] = r
  BY DEF TypeInv, TypeOK, TaskTypes, Last, Waits
<1>2. \A t \in Task : t # Last => finished'[t] = finished[t]
  BY <1>1
<1>3. ~Waits'
  BY <1>1 DEF Waits
<1>4. \A t \in Task : t < Last' => t # Last /\ finished[t] # "no"
  BY <1>1 DEF OrderInv, Task, Last
<1>5. \A t \in Task : t > Last' => t # Last /\ finished[t] = "no"
  BY <1>1 DEF OrderInv, Task, Last
<1>. QED  BY <1>1, <1>2, <1>3, <1>4, <1>5

\* The scheduler's thread keeps the order.
LEMMA OrderThread ==
  ASSUME TypeInv, ParkInv, MemoryInv, OrderInv, ThreadStep
  PROVE  OrderInv'
<1>. USE DEF schedVars, tdrVars
<1>0. /\ next \in Nat /\ submitted \in Nat /\ Last = next - 1
      /\ finished \in [Task -> {"no", "ok", "error"}] /\ pending \subseteq Task
      /\ parent \in [Task -> {"none", "set", "attached"}]
      /\ fence \in [Task -> {"none", "unsignalled", "signalled"}]
  BY SchedAssumption DEF TypeInv, TypeOK, TaskTypes, Last, SchedAssumption
<1>1. CASE ThreadCleanup
  <2>1. PICK t \in Task : finished[t] # "no" /\ pending' = pending \ {t}
    BY <1>1 DEF ThreadCleanup, Reapable
  <2>2. UNCHANGED <<next, finished, hwCount, parked, tdr, tdrTask, thread, parent, fence>>
    BY <1>1 DEF ThreadCleanup
  <2>3. Last' = Last /\ Waits' = Waits
    BY <2>2 DEF Last, Waits
  <2>. QED  BY <2>1, <2>2, <2>3 DEF OrderInv, Waits
<1>2. CASE ThreadPop
  <2>1. /\ ~parked /\ hwCount < 1 /\ next <= submitted /\ hwCount' = hwCount + 1
        /\ pending' = pending \cup {next} /\ next' = next + 1
        /\ UNCHANGED <<finished, parked, tdr, tdrTask, parent, fence>>
    BY <1>2 DEF ThreadPop, SchedReady
  <2>2. ~Waits /\ hwCount = 0
    BY <2>1 DEF OrderInv
  <2>3. next \in Task
    BY <1>0, <2>1, SchedAssumption DEF TypeInv, ThreadHasTask, TypeOK, TaskTypes, Task, SchedAssumption
  <2>4. Last' = next /\ \A t \in Task : t \in Int
    BY <1>0, <2>1 DEF Last, Task
  <2>5. finished[next] = "no" /\ parent[next] = "none"
    BY <1>0, <2>3 DEF OrderInv
  <2>6. Waits'
    BY <2>1, <2>3, <2>4, <2>5 DEF Waits
  <2>7. \A t \in Task : t < next => finished[t] # "no"
    BY <1>0, <2>2, <2>4 DEF OrderInv, Waits
  <2>8. \A t \in Task : t > next => finished[t] = "no" /\ parent[t] = "none"
    BY <1>0, <2>4 DEF OrderInv
  <2>9. \A t \in Task : ~(parent[t] = "attached" /\ fence[t] = "unsignalled")
    BY <2>2 DEF OrderInv, Waits
  <2>. QED  BY <2>1, <2>2, <2>4, <2>5, <2>6, <2>7, <2>8, <2>9 DEF OrderInv
<1>3. CASE ThreadPrepare
  <2>1. fence' = [fence EXCEPT ![Last] = "unsignalled"] /\ thread # "idle"
        /\ UNCHANGED <<next, finished, hwCount, parked, tdr, tdrTask, parent, pending>>
    BY <1>3 DEF ThreadPrepare, PrepareRun, Picked, Last
  <2>2. Last' = Last /\ Waits' = Waits /\ parent[Last] # "attached"
    BY <2>1 DEF Last, Waits, OrderInv
  <2>3. \A t \in Task : t # Last => fence'[t] = fence[t]
    BY <1>0, <2>1
  <2>. QED  BY <2>1, <2>2, <2>3 DEF OrderInv
<1>4. ASSUME thread # "idle", thread' = "idle", JobDone(Last, "ok"),
             UNCHANGED <<next, submitted, parked, tdr, tdrTask, fence, pending>>,
             \A t \in Task : t # Last => parent'[t] = parent[t],
             parent'[Last] # "attached"
      PROVE  OrderInv'
  <2>1. Waits /\ ~parked /\ hwCount = 1
    BY <1>4 DEF OrderInv, ParkInv
  <2>2. PICK r \in {"ok", "error"} : finished' = [finished EXCEPT ![Last] = r]
    BY <1>4 DEF JobDone, Outcome
  <2>3. /\ ~Waits' /\ Last' = Last
        /\ \A t \in Task : t < Last' => finished'[t] # "no"
        /\ \A t \in Task : t > Last' => finished'[t] = "no"
    BY <1>4, <2>1, <2>2, DoneOrder
  <2>4. hwCount' = 0
    BY <1>4, <2>1 DEF JobDone
  <2>5. \A t \in Task : t > Last' => parent'[t] = "none"
    BY <1>0, <1>4, <2>3 DEF OrderInv, Task
  <2>6. \A t \in Task : ~(parent'[t] = "attached" /\ fence[t] = "unsignalled")
    BY <1>4 DEF OrderInv
  <2>. QED  BY <1>4, <2>1, <2>3, <2>4, <2>5, <2>6 DEF OrderInv
<1>5. CASE ThreadStartFails
  <2>1. parent[Last] # "attached"
    BY <1>5 DEF ThreadStartFails, OrderInv
  <2>. QED  BY <1>4, <1>5, <2>1 DEF ThreadStartFails, Picked, Last
<1>6. CASE ThreadStart
  <2>1. /\ thread # "idle"
        /\ UNCHANGED <<next, finished, hwCount, parked, tdr, tdrTask, parent, fence, pending>>
    BY <1>6 DEF ThreadStart
  <2>2. Last' = Last /\ Waits' = Waits
    BY <2>1 DEF Last, Waits
  <2>. QED  BY <2>1, <2>2 DEF OrderInv
<1>7. CASE ThreadReturn
  <2>1. /\ thread # "idle" /\ thread' = "idle"
        /\ UNCHANGED <<next, submitted, parked, tdr, tdrTask, fence, pending>>
    BY <1>7 DEF ThreadReturn
  <2>2. Waits /\ ~parked /\ Last \in Task
    BY <2>1 DEF OrderInv, Waits, ParkInv
  <2>3. CASE fence[Last] = "signalled"
    <3>1. JobDone(Last, "ok") /\ parent' = [parent EXCEPT ![Last] = "set"]
      BY <1>7, <2>3 DEF ThreadReturn, Picked, Last
    <3>2. parent'[Last] = "set" /\ \A t \in Task : t # Last => parent'[t] = parent[t]
      BY <1>0, <2>2, <3>1
    <3>. QED  BY <1>4, <2>1, <3>1, <3>2
  <2>4. CASE fence[Last] # "signalled"
    <3>1. parent' = [parent EXCEPT ![Last] = "attached"] /\ UNCHANGED <<hwCount, finished>>
      BY <1>7, <2>4 DEF ThreadReturn, Picked, Last
    <3>2. \A t \in Task : t # Last => parent'[t] = parent[t]
      BY <1>0, <3>1
    <3>3. Last' = Last /\ Waits' = Waits
      BY <2>1, <3>1 DEF Last, Waits
    <3>4. \A t \in Task : t > Last => parent'[t] = "none"
      BY <1>0, <3>2 DEF OrderInv, Task
    <3>5. \A t \in Task : parent'[t] = "attached" /\ fence[t] = "unsignalled" =>
            finished[t] = "no" /\ t = Last
      BY <2>2, <3>2 DEF OrderInv, Waits
    <3>. QED  BY <2>1, <2>2, <3>1, <3>3, <3>4, <3>5 DEF OrderInv
  <2>. QED  BY <2>3, <2>4
<1>. QED  BY <1>1, <1>2, <1>3, <1>5, <1>6, <1>7 DEF ThreadStep

\* The interrupt handler completes the task without a result, or signals a
\* fence nobody waits for any more.
LEMMA OrderIrq ==
  ASSUME TypeInv, ParkInv, MemoryInv, OrderInv, IrqTaskDone
  PROVE  OrderInv'
<1>. USE DEF schedVars, tdrVars
<1>0. /\ currentTask \in Task /\ SignalFence(currentTask, "ok")
      /\ UNCHANGED <<next, submitted, parked, thread, tdr, tdrTask, parent, pending>>
      /\ fence \in [Task -> {"none", "unsignalled", "signalled"}]
  BY DEF IrqTaskDone, TypeInv, TypeOK, PipeTypes, TaskTypes
<1>1. \A t \in Task : fence'[t] = "unsignalled" => fence[t] = "unsignalled" /\ t # currentTask
  BY <1>0 DEF SignalFence
<1>2. CASE UNCHANGED <<hwCount, finished>>
  <2>1. Last' = Last /\ Waits' = Waits
    BY <1>0, <1>2 DEF Last, Waits
  <2>. QED  BY <1>0, <1>1, <1>2, <2>1 DEF OrderInv
<1>3. CASE fence[currentTask] = "unsignalled" /\ parent[currentTask] = "attached"
  <2>1. currentTask = Last /\ Waits /\ ~parked /\ hwCount = 1 /\ thread = "idle"
    BY <1>0, <1>3 DEF OrderInv, Waits
  <2>2. JobDone(Last, "ok")
    BY <1>0, <1>3, <2>1 DEF SignalFence
  <2>3. PICK r \in {"ok", "error"} : finished' = [finished EXCEPT ![Last] = r]
    BY <2>2 DEF JobDone, Outcome
  <2>4. /\ ~Waits' /\ Last' = Last
        /\ \A t \in Task : t < Last' => finished'[t] # "no"
        /\ \A t \in Task : t > Last' => finished'[t] = "no"
    BY <1>0, <2>1, <2>3, DoneOrder
  <2>5. hwCount' = 0
    BY <2>1, <2>2 DEF JobDone
  <2>6. \A t \in Task : ~(parent[t] = "attached" /\ fence'[t] = "unsignalled")
    BY <1>1, <2>1 DEF OrderInv
  <2>. QED  BY <1>0, <2>1, <2>4, <2>5, <2>6 DEF OrderInv
<1>. QED  BY <1>0, <1>2, <1>3 DEF SignalFence

\* The timeout handler takes the task without a result off the list, and
\* puts it back to run again or gives it its result.
LEMMA OrderTdr ==
  ASSUME TypeInv, ParkInv, ParkInv', MemoryInv, OrderInv, TdrStep
  PROVE  OrderInv'
<1>. USE DEF taskVars, schedVars, tdrVars
<1>0. /\ next \in Nat /\ Last = next - 1 /\ pending \subseteq Task
      /\ finished \in [Task -> {"no", "ok", "error"}]
      /\ parent \in [Task -> {"none", "set", "attached"}]
      /\ fence \in [Task -> {"none", "unsignalled", "signalled"}]
      /\ \A t \in Task : t \in Int
  BY DEF TypeInv, TypeOK, TaskTypes, Last, Task
<1>1. CASE TdrFire
  <2>1. PICK t \in Task : tdrTask' = t /\ pending' = pending \ {t}
    BY <1>1 DEF TdrFire
  <2>2. /\ tdr = "idle" /\ tdr' = "taken"
        /\ UNCHANGED <<next, finished, hwCount, parked, thread, parent, fence>>
    BY <1>1 DEF TdrFire
  <2>3. Last' = Last /\ Waits' = Waits
    BY <2>2 DEF Last, Waits
  <2>. QED  BY <2>1, <2>2, <2>3 DEF OrderInv
<1>2. CASE TdrStop
  <2>1. /\ pending' = IF Waits THEN {Last} ELSE {}
        /\ hwCount' = 0
        /\ parent' = [t \in Task |-> IF t \in pending' THEN "none" ELSE parent[t]]
    BY <1>2, StopKeeps
  <2>2. /\ thread' = "idle" /\ parked' /\ UNCHANGED <<next, finished, fence>>
    BY <1>2 DEF TdrStop, StopScheduler
  <2>3. Last' = Last /\ Waits' = Waits
    BY <2>2 DEF Last, Waits
  <2>4. \A t \in Task : ~(parent'[t] = "attached" /\ fence[t] = "unsignalled")
    BY <1>0, <2>1 DEF OrderInv, Waits
  <2>5. \A t \in Task : t > Last => parent'[t] = "none"
    BY <1>0, <2>1 DEF OrderInv
  <2>6. \A t \in pending' : finished[t] = "no"
    BY <2>1 DEF Waits
  <2>. QED  BY <2>1, <2>2, <2>3, <2>4, <2>5, <2>6 DEF OrderInv
<1>3. CASE TdrReset \/ TdrVmPut \/ TdrClear \/ TdrResubmitNone \/ TdrEnd
  <2>1. /\ tdr # "taken" /\ tdr' # "taken"
        /\ UNCHANGED <<next, finished, hwCount, parked, thread, parent, fence, pending>>
    BY <1>3 DEF TdrReset, TdrVmPut, TdrClear, TdrResubmitNone, TdrEnd
  <2>2. Last' = Last /\ Waits' = Waits
    BY <2>1 DEF Last, Waits
  <2>. QED  BY <2>1, <2>2 DEF OrderInv
<1>4. CASE TdrResubmit
  <2>1. PICK t \in pending : /\ fence' = [fence EXCEPT ![t] = "unsignalled"]
                             /\ parent' = [parent EXCEPT ![t] = "set"]
    BY <1>4 DEF TdrResubmit, PrepareRun
  <2>2. parked /\ thread = "idle" /\ tdr = "cleared" /\ tdr' = "resubmitted"
        /\ UNCHANGED <<next, finished, hwCount, parked, thread, pending>>
    BY <1>4 DEF TdrResubmit, ParkInv, Stopped
  <2>3. t = Last /\ Waits
    BY <2>1, <2>2, ParkedPending
  <2>4. Last' = Last /\ Waits' = Waits
    BY <2>2 DEF Last, Waits
  <2>5. \A u \in Task : u > Last => parent'[u] = "none"
    BY <1>0, <2>1, <2>3 DEF OrderInv
  <2>6. \A u \in Task : ~(parent'[u] = "attached" /\ fence'[u] = "unsignalled")
    BY <1>0, <2>1, <2>2 DEF OrderInv
  <2>. QED  BY <2>2, <2>4, <2>5, <2>6 DEF OrderInv
<1>5. CASE TdrStart
  <2>1. /\ parked /\ ~parked' /\ thread = "idle" /\ tdr = "resubmitted" /\ tdr' = "restarted"
        /\ UNCHANGED <<next, submitted, thread, pending, fence>>
    BY <1>5 DEF TdrStart, ParkInv, Stopped
  <2>2. pending = IF Waits THEN {Last} ELSE {}
    BY <2>1, ParkedPending
  <2>3. \A t \in Task : ~(parent[t] = "attached" /\ fence[t] = "unsignalled")
    BY <2>1 DEF OrderInv
  <2>4. Last' = Last
    BY <2>1 DEF Last
  <2>5. CASE /\ Waits /\ hwCount' = 1 /\ UNCHANGED finished
             /\ parent' = [t \in Task |-> IF t = Last THEN "attached" ELSE parent[t]]
    <3>1. Waits'
      BY <2>4, <2>5 DEF Waits
    <3>2. \A t \in Task : parent'[t] = "attached" /\ fence[t] = "unsignalled" =>
            finished[t] = "no" /\ t = Last
      BY <2>3, <2>5 DEF Waits
    <3>3. \A t \in Task : t > Last => parent'[t] = "none"
      BY <1>0, <2>5 DEF OrderInv
    <3>. QED  BY <2>1, <2>2, <2>4, <2>5, <3>1, <3>2, <3>3 DEF OrderInv
  <2>6. CASE /\ Waits /\ hwCount' = 0 /\ parent' = parent
             /\ \E r \in {"ok", "error"} : finished' = [finished EXCEPT ![Last] = r]
    <3>1. /\ ~Waits'
          /\ \A t \in Task : t < Last' => finished'[t] # "no"
          /\ \A t \in Task : t > Last' => finished'[t] = "no"
      BY <2>1, <2>6, DoneOrder
    <3>. QED  BY <2>1, <2>3, <2>4, <2>6, <3>1 DEF OrderInv
  <2>7. CASE ~Waits /\ hwCount' = 0 /\ parent' = parent /\ UNCHANGED finished
    <3>1. ~Waits'
      BY <2>4, <2>7 DEF Waits
    <3>. QED  BY <2>1, <2>3, <2>4, <2>7, <3>1 DEF OrderInv
  <2>. QED  BY <1>5, <2>5, <2>6, <2>7, StartResumes
<1>. QED  BY <1>1, <1>2, <1>3, <1>4, <1>5 DEF TdrStep

LEMMA OrderStep ==
  ASSUME TypeInv, ParkInv, ParkInv', MemoryInv, OrderInv, [Next]_vars
  PROVE  OrderInv'
<1>1. ASSUME UNCHANGED <<next, finished, hwCount, parked, pending, thread, parent, fence, tdr,
                         tdrTask>>
      PROVE  OrderInv'
  <2>1. Last' = Last /\ Waits' = Waits
    BY <1>1 DEF Last, Waits
  <2>. QED  BY <1>1, <2>1 DEF OrderInv
<1>2. CASE \/ UNCHANGED vars \/ \E v \in VMs : Submit(v) \/ CloseFile(v)
           \/ HwStep \/ RecoverStep \/ IrqEnter \/ IrqTaskError \/ IrqTaskDoneBadPointer
           \/ IrqPmIdle
  BY <1>1, <1>2 DEF vars, runVars, taskVars, schedVars, tdrVars, Submit, CloseFile, HwStep,
      HwEvent, RecoverStep, RecoverGrows, RecoverBadPointer, IrqEnter, IrqTaskError,
      IrqTaskDoneBadPointer, IrqPmIdle
<1>3. CASE FiniStep
  BY <1>1, <1>3, FiniWaits DEF ParkInv, taskVars, schedVars, tdrVars
<1>. QED  BY <1>2, <1>3, OrderThread, OrderIrq, OrderTdr DEF Next, IrqStep

-----------------------------------------------------------------------------
(***************************************************************************)
(* The timer.                                                              *)
(***************************************************************************)
LEMMA WatchedStep ==
  ASSUME TypeInv, ParkInv, ParkInv', MemoryInv, OrderInv, Watched, [Next]_vars
  PROVE  Watched'
<1>. USE DEF taskVars, schedVars, tdrVars, hwVars, irqVars, pipeVars, refVars, finiVars
<1>0. {fini, fini'} \cap {"stopped", "done"} = {}
  BY DEF ParkInv, Serving
<1>1. \A t \in Task : finished'[t] = "no" => finished[t] = "no"
  <2>1. finished \in [Task -> {"no", "ok", "error"}]
    BY DEF TypeInv, TypeOK, TaskTypes
  <2>. QED  BY <2>1, ResultStep DEF ParkInv
<1>2. ASSUME UNCHANGED <<pending, tdr>>, timer => timer'
      PROVE  Watched'
  <2>1. pending \subseteq Task
    BY DEF TypeInv, TypeOK, TaskTypes
  <2>. QED  BY <1>0, <1>1, <1>2, <2>1 DEF Watched
<1>3. CASE \/ UNCHANGED vars \/ \E v \in VMs : Submit(v) \/ CloseFile(v)
           \/ HwStep \/ IrqStep \/ RecoverStep
  BY <1>2, <1>3 DEF vars, runVars, Submit, CloseFile, HwStep, HwEvent, RecoverStep,
      RecoverGrows, RecoverBadPointer, IrqStep, IrqEnter, IrqTaskError, IrqTaskDone,
      IrqTaskDoneBadPointer, IrqPmIdle
<1>4. CASE ThreadStep
  <2>1. CASE ThreadPrepare \/ ThreadStartFails \/ ThreadStart \/ ThreadReturn
    BY <1>2, <2>1 DEF ThreadPrepare, ThreadStartFails, ThreadStart, ThreadReturn
  <2>2. CASE ThreadCleanup
    <3>1. timer' = (pending' # {})
      BY <2>2 DEF ThreadCleanup
    <3>. QED  BY <3>1 DEF Watched
  <2>3. CASE ThreadPop
    BY <2>3 DEF ThreadPop, Watched
  <2>. QED  BY <1>4, <2>1, <2>2, <2>3 DEF ThreadStep
<1>5. CASE TdrStep
  <2>1. CASE TdrStart \/ TdrEnd
    <3>1. UNCHANGED pending /\ timer' = Rearmed
      BY <2>1 DEF TdrStart, TdrEnd
    <3>. QED  BY <3>1 DEF Watched, Rearmed
  <2>2. CASE TdrFire \/ TdrStop \/ TdrReset \/ TdrVmPut \/ TdrClear \/ TdrResubmitNone
             \/ TdrResubmit
    <3>1. tdr' \notin {"idle", "restarted"}
      BY <2>2 DEF TdrFire, TdrStop, TdrReset, TdrVmPut, TdrClear, TdrResubmitNone, TdrResubmit
    <3>. QED  BY <3>1 DEF Watched
  <2>. QED  BY <1>5, <2>1, <2>2 DEF TdrStep
<1>6. CASE FiniStep
  BY <1>2, <1>6, FiniWaits DEF ParkInv
<1>. QED  BY <1>3, <1>4, <1>5, <1>6 DEF Next

-----------------------------------------------------------------------------
(***************************************************************************)
(* The theorems.                                                           *)
(***************************************************************************)
LEMMA InitSafe == Init => SafeInv
<1>. SUFFICES ASSUME Init PROVE SafeInv
  OBVIOUS
<1>1. NumTasks \in Nat /\ NoVm \notin VMs /\ Last = 0 /\ Last \notin Task
      /\ \A t \in Task : t >= 1
  BY SchedAssumption DEF SchedAssumption, Init, Last, Task
<1>2. ParkInv
  BY DEF Init, ParkInv, Serving, Stopped
<1>3. MemoryInv
  BY <1>1 DEF Init, MemoryInv, Task
<1>4. OrderInv
  BY <1>1 DEF Init, OrderInv, Waits, Task
<1>5. Watched
  BY DEF Init, Watched
<1>6. VmRefsExact
  <2>1. \A v \in VMs : LiveIn(v) = {}
    BY DEF Init, LiveIn
  <2>2. \A v \in VMs : vmRefs[v] = 1 /\ B(v \in vmOpen) = 1 /\ Held(v) = 0
    BY <1>1 DEF Init, Held, B
  <2>3. Cardinality({}) = 0
    BY FS_EmptySet
  <2>. QED  BY <2>1, <2>2, <2>3, RefsAre
<1>. QED  BY <1>2, <1>3, <1>4, <1>5, <1>6 DEF SafeInv

\* One step of the pipe, as long as it is not being taken down.
LEMMA SafeStep ==
  ASSUME TypeInv, TypeInv', SafeInv, Serving', [Next]_vars
  PROVE  SafeInv'
<1>1. ParkInv'
  BY ParkStep DEF SafeInv
<1>2. MemoryInv'
  BY MemoryStep DEF SafeInv
<1>3. OrderInv'
  BY <1>1, OrderStep DEF SafeInv
<1>4. VmRefsExact'
  BY <1>1, RefsStep DEF SafeInv
<1>5. Watched'
  BY <1>1, WatchedStep DEF SafeInv
<1>. QED  BY <1>1, <1>2, <1>3, <1>4, <1>5 DEF SafeInv

\* The teardown does not go back to its wait.
LEMMA ServedBefore == ASSUME Serving', [Next]_vars PROVE Serving
<1>. USE DEF Serving, finiVars
<1>1. CASE FiniStep
  BY <1>1 DEF FiniStep, FiniBegin, FiniIdle, FiniGiveUp, FiniReset, FiniSignal, FiniVmPut,
              FiniClear, FiniStop, FiniEnd
<1>2. CASE UNCHANGED finiVars
  BY <1>2
<1>3. CASE UNCHANGED vars \/ (\E v \in VMs : Submit(v) \/ CloseFile(v)) \/ HwStep \/ RecoverStep
  BY <1>2, <1>3 DEF vars, runVars, Submit, CloseFile, HwStep, HwEvent, RecoverStep,
      RecoverGrows, RecoverBadPointer
<1>4. CASE ThreadStep \/ IrqStep
  BY <1>2, <1>4 DEF ThreadStep, ThreadCleanup, ThreadPop, ThreadPrepare, ThreadStartFails,
      ThreadStart, ThreadReturn, IrqStep, IrqEnter, IrqTaskError, IrqTaskDone,
      IrqTaskDoneBadPointer, IrqPmIdle
<1>5. CASE TdrStep
  BY <1>2, <1>5 DEF TdrStep, TdrFire, TdrStop, TdrReset, TdrVmPut, TdrClear, TdrResubmitNone,
      TdrResubmit, TdrStart, TdrEnd
<1>. QED  BY <1>1, <1>3, <1>4, <1>5 DEF Next

\* The invariant holds for every value of the constants, whatever overlaps.
LEMMA SafeInvariance == Spec => [](TypeInv /\ (Serving => SafeInv))
<1>. DEFINE Served == Serving => SafeInv
<1>1. TypeInv /\ TypeInv' /\ Served /\ [Next]_vars => Served'
  BY SafeStep, ServedBefore
<1>2. Init => Served
  BY InitSafe
<1>. QED  BY <1>1, <1>2, TypeInvariance, PTL DEF Spec

\* Until lima_sched_pipe_fini ends its wait, no address space is leaked or put
\* twice, across completions, timeouts that overlap them, resubmissions and
\* starts that fail: every lima_vm reference has an open file, a task in use or
\* pipe->current_vm as its owner.  And a task on the pending list without a
\* result always has work_tdr queued, or the timeout handler at work.
THEOREM SafeWhileServing == Spec => [](Serving => VmRefsExact /\ Watched)
<1>1. SafeInv => VmRefsExact /\ Watched
  BY DEF SafeInv
<1>. QED  BY <1>1, SafeInvariance, PTL

\* lima_sched_pipe_fini is not called.
LEMMA NeverTornDown == ASSUME NoTeardown PROVE Spec => []Serving
<1>. DEFINE Off == fini = "off"
<1>1. Off /\ [Next]_vars => Off'
  <2>. SUFFICES ASSUME fini = "off", [Next]_vars PROVE fini' = "off"
    OBVIOUS
  <2>. USE DEF finiVars
  <2>1. CASE FiniStep
    BY <2>1 DEF FiniStep, FiniBegin, FiniIdle, FiniGiveUp, FiniReset, FiniSignal, FiniVmPut,
                FiniClear, FiniStop, FiniEnd, NoTeardown
  <2>2. CASE UNCHANGED vars \/ (\E v \in VMs : Submit(v) \/ CloseFile(v)) \/ HwStep
             \/ RecoverStep
    BY <2>2 DEF vars, runVars, Submit, CloseFile, HwStep, HwEvent, RecoverStep,
        RecoverGrows, RecoverBadPointer
  <2>3. CASE ThreadStep \/ IrqStep
    BY <2>3 DEF ThreadStep, ThreadCleanup, ThreadPop, ThreadPrepare, ThreadStartFails,
        ThreadStart, ThreadReturn, IrqStep, IrqEnter, IrqTaskError, IrqTaskDone,
        IrqTaskDoneBadPointer, IrqPmIdle
  <2>4. CASE TdrStep
    BY <2>4 DEF TdrStep, TdrFire, TdrStop, TdrReset, TdrVmPut, TdrClear, TdrResubmitNone,
        TdrResubmit, TdrStart, TdrEnd
  <2>. QED  BY <2>1, <2>2, <2>3, <2>4 DEF Next
<1>2. Init => Off
  BY DEF Init
<1>3. Off => Serving
  BY DEF Serving
<1>. QED  BY <1>1, <1>2, <1>3, PTL DEF Spec

\* Without a teardown the references of every address space stay exact.
THEOREM ReferencesExact == ASSUME NoTeardown PROVE Spec => []VmRefsExact
<1>1. Spec => []Serving
  BY NeverTornDown
<1>. QED  BY <1>1, SafeWhileServing, PTL

\* Without a teardown a task on the pending list that has no result is always
\* watched, by work_tdr or by the timeout handler: no hang goes unnoticed.
THEOREM AlwaysWatched == ASSUME NoTeardown PROVE Spec => []Watched
<1>1. Spec => []Serving
  BY NeverTornDown
<1>. QED  BY <1>1, SafeWhileServing, PTL

\* Only a submission moves the count.
LEMMA SubmittedStep ==
  ASSUME [Next]_vars
  PROVE  \/ UNCHANGED submitted
         \/ submitted < NumTasks /\ submitted' = submitted + 1
<1>. USE DEF taskVars
<1>1. CASE \E v \in VMs : Submit(v) \/ CloseFile(v)
  BY <1>1 DEF Submit, CloseFile
<1>2. CASE UNCHANGED vars \/ HwStep \/ RecoverStep
  BY <1>2 DEF vars, runVars, HwStep, HwEvent, RecoverStep, RecoverGrows, RecoverBadPointer
<1>3. CASE ThreadStep \/ IrqStep
  BY <1>3 DEF ThreadStep, ThreadCleanup, ThreadPop, ThreadPrepare, ThreadStartFails,
      ThreadStart, ThreadReturn, IrqStep, IrqEnter, IrqTaskError, IrqTaskDone,
      IrqTaskDoneBadPointer, IrqPmIdle
<1>4. CASE TdrStep
  BY <1>4 DEF TdrStep, TdrFire, TdrStop, TdrReset, TdrVmPut, TdrClear, TdrResubmitNone,
      TdrResubmit, TdrStart, TdrEnd
<1>5. CASE FiniStep
  BY <1>5 DEF FiniStep, FiniBegin, FiniIdle, FiniGiveUp, FiniReset, FiniSignal, FiniVmPut,
      FiniClear, FiniStop, FiniEnd
<1>. QED  BY <1>1, <1>2, <1>3, <1>4, <1>5 DEF Next

\* The task without a result was popped, and all before it have one.
InOrder ==
  /\ \A t \in Task : t < Last => finished[t] # "no"
  /\ Waits => Last <= submitted

\* The result that is due is a step of the job queue.
LEMMA ResultIsJobsStep ==
  ASSUME TypeInv, InOrder, Waits, UNCHANGED <<submitted, next>>,
         NEW r \in {"ok", "error"}, finished' = [finished EXCEPT ![Last] = r]
  PROVE  Jobs!Next
<1>1. Last \in 1 .. NumTasks /\ finished[Last] = "no" /\ Last <= submitted
  BY DEF Waits, Task, InOrder
<1>2. \A u \in 1 .. Last - 1 : finished[u] # "no"
  BY <1>1, SchedAssumption DEF InOrder, Task, SchedAssumption
<1>3. Jobs!Finish(Last, r)
  BY <1>1, <1>2 DEF Jobs!Finish
<1>. QED  BY <1>1, <1>3 DEF Jobs!Next, Jobs!FinishSome

\* A step of the pipe that serves is a step of the job queue, or none.
LEMMA ServingIsJobsStep ==
  ASSUME TypeInv, SafeInv, Serving', [Next]_vars
  PROVE  [Jobs!Next]_(Jobs!vars)
<1>1. CASE UNCHANGED finished
  <2>1. \/ UNCHANGED submitted
        \/ submitted < NumTasks /\ submitted' = submitted + 1
    BY SubmittedStep
  <2>. QED  BY <1>1, <2>1 DEF Jobs!Next, Jobs!Submit, Jobs!vars
<1>2. CASE /\ Waits /\ UNCHANGED <<submitted, next>>
           /\ \E r \in {"ok", "error"} : finished' = [finished EXCEPT ![Last] = r]
  <2>1. InOrder
    BY SchedAssumption
       DEF SafeInv, OrderInv, InOrder, Last, TypeInv, TypeOK, TaskTypes, SchedAssumption
  <2>. QED  BY <1>2, <2>1, ResultIsJobsStep
<1>. QED  BY <1>1, <1>2, ResultStep DEF SafeInv

LEMMA InitJobs == Init => Jobs!Init
BY DEF Init, Jobs!Init, Task

\* The pipe implements the job queue: each task gets one result, and results
\* come in dispatch order, whichever of the interrupt handler, the scheduler's
\* thread and the timeout handler gives them.
THEOREM ImplementsJobs == ASSUME NoTeardown PROVE Spec => JobsSafe
<1>1. TypeInv /\ SafeInv /\ Serving' /\ [Next]_vars => [Jobs!Next]_(Jobs!vars)
  BY ServingIsJobsStep
<1>2. Spec => []Serving
  BY NeverTornDown
<1>. QED  BY <1>1, <1>2, InitJobs, SafeInvariance, PTL DEF Spec, JobsSafe, Jobs!Spec

=============================================================================
