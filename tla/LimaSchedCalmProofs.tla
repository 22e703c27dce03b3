------------------------ MODULE LimaSchedCalmProofs -------------------------
(***************************************************************************)
(* Theorems about one scheduler pipe whose timeouts come when the handlers *)
(* have run and the core is stuck, whose starts succeed, and that is taken *)
(* down with a hang limit of 0 or not at all: the core works for the       *)
(* current task only, power references balance, success is reported for    *)
(* what the core completed, freed tasks are out of use, and the teardown   *)
(* leaves nothing behind.                                                  *)
(***************************************************************************)
EXTENDS LimaSchedOrderProofs

Calm == ~TimerRaces /\ ~StartFails /\ Teardown \subseteq {0}

\* The core has nothing to do, or left its last hard reset unanswered.
Unused == hw \in {"idle", "loose"}

\* The core raises no interrupt for these any more, or never did.
StuckHw == {"complete", "stalled", "errored", "faulted", "hung"}

\* The core works for the task without a result, in its address space, and
\* neither the thread nor the timeout handler is where it must be idle.
CoreInv ==
  /\ hw = "idle" => hwTask = NoTask
  /\ ~Unused =>
       /\ Waits /\ hwTask = Last /\ currentTask = Last /\ fence[Last] = "unsignalled"
       /\ currentVm = vmOf[Last]
       /\ thread \in {"idle", "started"} /\ tdr \notin {"reset", "vmput", "cleared"}
  /\ hw = "complete" => Last \in executed

\* An event of the core is in one place only: an interrupt, its handler or
\* the recovery work.
EventInv ==
  /\ intr \/ irq = "entered" \/ recover => hw \in {"complete", "stalled", "errored", "faulted"}
  /\ ~(intr /\ irq = "entered") /\ ~(intr /\ recover) /\ ~(irq = "entered" /\ recover)
  /\ irq = "entered" => (error <=> hw # "complete")

\* The timeout handler came when nothing of this was under way, and works on
\* the task without a result.
TdrInv ==
  /\ tdr \in {"taken", "stopped"} => hw \in StuckHw /\ ~intr /\ irq # "entered" /\ ~recover
  /\ tdr \in Stopped \cup {"taken"} => tdrTask = Last /\ Waits
  /\ tdr \in {"taken", "stopped", "reset", "vmput"} =>
       currentTask = Last /\ fence[Last] = "unsignalled"
  /\ tdr = "cleared" => currentTask = NoTask
  /\ tdr \in {"stopped", "reset", "vmput", "cleared"} => parent[Last] = "none"
  /\ tdr = "resubmitted" => \/ currentTask = NoTask /\ Last \in cancelled /\ parent[Last] # "set"
                            \/ /\ currentTask = Last /\ parent[Last] = "set"
                               /\ fence[Last] # "none"
  /\ tdr = "idle" => tdrTask = NoTask
  /\ ~freeGuilty

\* Where the fence of the task without a result is on its way from its
\* creation to its signal.
FenceInv ==
  /\ \A t \in Task : t > Last => fence[t] = "none"
  /\ \A t \in Task : currentTask = t /\ fence[t] = "unsignalled" =>
       t = Last /\ Waits /\ thread # "picked"
  /\ Waits /\ fence[Last] = "signalled" =>
       Last \in executed /\ (thread = "started" \/ tdr = "resubmitted")
  /\ thread = "prepared" => currentTask = Last /\ fence[Last] = "unsignalled"
  /\ thread = "started" => currentTask = Last /\ fence[Last] # "none"
  /\ Waits /\ thread = "idle" /\ tdr \in {"idle", "taken", "restarted"} =>
       parent[Last] = "attached" /\ fence[Last] = "unsignalled"

\* The list holds the last task at most, and what is freed has its result.
ListInv ==
  /\ pending \subseteq {Last}
  /\ \A t \in Task : life[t] = "freed" => finished[t] # "no"

CalmInv == CoreInv /\ EventInv /\ TdrInv /\ FenceInv /\ ListInv

-----------------------------------------------------------------------------
(***************************************************************************)
(* The invariant, one thread after the other.                              *)
(***************************************************************************)
LEMMA CalmClient ==
  ASSUME TypeInv, SafeInv, CalmInv, NEW v \in VMs, Submit(v) \/ CloseFile(v)
  PROVE  CalmInv'
<1>. USE DEF taskVars, schedVars, tdrVars, hwVars, irqVars, pipeVars
<1>1. CASE Submit(v)
  <2>1. /\ submitted' = submitted + 1 /\ submitted' \in Task /\ submitted \in Nat
        /\ life' = [life EXCEPT ![submitted'] = "live"]
        /\ vmOf' = [vmOf EXCEPT ![submitted'] = v]
        /\ UNCHANGED <<next, fence, parent, finished, cancelled, executed, pending, thread,
                       tdr, tdrTask, freeGuilty, hw, hwTask, intr, irq, error, recover,
                       currentTask, currentVm>>
    BY <1>1, SchedAssumption DEF Submit, Task, TypeInv, TypeOK, TaskTypes, SchedAssumption
  <2>2. /\ next \in Nat /\ next <= submitted + 1 /\ Last # submitted'
        /\ vmOf \in [Task -> VMs \cup {NoVm}] /\ life \in [Task -> {"new", "live", "freed"}]
    BY <2>1 DEF Last, TypeInv, TypeOK, TaskTypes
  <2>3. Last' = Last /\ (Waits' <=> Waits)
    BY <2>1 DEF Last, Waits
  <2>4. Waits => vmOf'[Last] = vmOf[Last]
    BY <2>1, <2>2 DEF Waits
  <2>5. CoreInv'
    BY <2>1, <2>3, <2>4 DEF CalmInv, CoreInv, Unused
  <2>6. EventInv' /\ TdrInv' /\ FenceInv'
    BY <2>1, <2>3 DEF CalmInv, EventInv, TdrInv, FenceInv
  <2>7. ListInv'
    BY <2>1, <2>2, <2>3 DEF CalmInv, ListInv
  <2>. QED  BY <2>5, <2>6, <2>7 DEF CalmInv
<1>2. CASE CloseFile(v)
  <2>1. UNCHANGED <<taskVars, schedVars, tdrVars, hwVars, irqVars, pipeVars>>
    BY <1>2 DEF CloseFile
  <2>2. Last' = Last /\ (Waits' <=> Waits)
    BY <2>1 DEF Last, Waits
  <2>. QED  BY <2>1, <2>2 DEF CalmInv, CoreInv, EventInv, TdrInv, FenceInv, ListInv, Unused
<1>. QED  BY <1>1, <1>2

LEMMA CalmHw ==
  ASSUME Calm, TypeInv, SafeInv, CalmInv, HwStep
  PROVE  CalmInv'
<1>. USE DEF taskVars, schedVars, tdrVars, irqVars, pipeVars
<1>1. PICK o \in {"complete", "stalled", "errored", "faulted", "hung"} : HwEvent(o)
  BY DEF HwStep
<1>2. /\ hw = "busy" /\ hw' = o /\ (intr' => o # "hung")
      /\ executed' = IF o = "complete" THEN executed \cup {hwTask} ELSE executed
      /\ UNCHANGED <<next, life, vmOf, fence, parent, finished, cancelled, pending, thread,
                     tdr, tdrTask, freeGuilty, hwTask, irq, error, recover,
                     currentTask, currentVm>>
  BY <1>1 DEF HwEvent, Working, Calm
<1>3. Last' = Last /\ (Waits' <=> Waits)
  BY <1>2 DEF Last, Waits
<1>4. irq # "entered" /\ ~recover /\ tdr \notin {"taken", "stopped"}
  BY <1>2 DEF CalmInv, EventInv, TdrInv, StuckHw
<1>5. CoreInv'
  BY <1>2, <1>3 DEF CalmInv, CoreInv, Unused
<1>6. EventInv' /\ TdrInv'
  BY <1>2, <1>3, <1>4 DEF CalmInv, EventInv, TdrInv
<1>7. FenceInv' /\ ListInv'
  BY <1>2, <1>3 DEF CalmInv, FenceInv, ListInv
<1>. QED  BY <1>5, <1>6, <1>7 DEF CalmInv

LEMMA CalmRecover ==
  ASSUME TypeInv, SafeInv, CalmInv, RecoverStep
  PROVE  CalmInv'
<1>. USE DEF taskVars, schedVars, tdrVars, hwVars, irqVars, pipeVars
<1>1. CASE RecoverGrows
  <2>0. hw' = hw \/ (hw = "stalled" /\ hw' = "busy")
    BY <1>1 DEF RecoverGrows
  <2>1. /\ recover /\ ~recover'
        /\ UNCHANGED <<next, life, vmOf, fence, parent, finished, cancelled, executed, pending,
                       thread, tdr, tdrTask, freeGuilty, hwTask, intr, irq, error,
                       currentTask, currentVm>>
    BY <1>1 DEF RecoverGrows
  <2>2. Last' = Last /\ (Waits' <=> Waits)
    BY <2>1 DEF Last, Waits
  <2>3. ~intr /\ irq # "entered" /\ tdr \notin {"taken", "stopped"}
    BY <2>1 DEF CalmInv, EventInv, TdrInv
  <2>4. CoreInv' /\ EventInv'
    BY <2>0, <2>1, <2>2, <2>3 DEF CalmInv, CoreInv, EventInv, Unused
  <2>5. TdrInv'
    BY <2>1, <2>2, <2>3 DEF CalmInv, TdrInv
  <2>6. FenceInv' /\ ListInv'
    BY <2>1, <2>2 DEF CalmInv, FenceInv, ListInv
  <2>. QED  BY <2>4, <2>5, <2>6 DEF CalmInv
<1>2. CASE RecoverBadPointer
  <2>1. UNCHANGED <<taskVars, schedVars, tdrVars, hwVars, irqVars, pipeVars>>
    BY <1>2 DEF RecoverBadPointer
  <2>2. Last' = Last /\ (Waits' <=> Waits)
    BY <2>1 DEF Last, Waits
  <2>. QED  BY <2>1, <2>2 DEF CalmInv, CoreInv, EventInv, TdrInv, FenceInv, ListInv, Unused
<1>. QED  BY <1>1, <1>2 DEF RecoverStep

\* The interrupt finds the task that the core was given, with a fence that
\* nobody signalled yet.
LEMMA DoneIsLast ==
  ASSUME TypeInv, CalmInv, IrqTaskDone
  PROVE  /\ hw = "complete" /\ currentTask = Last /\ Waits /\ Last \in executed
         /\ fence[Last] = "unsignalled" /\ ~intr /\ ~recover
         /\ thread \in {"idle", "started"} /\ tdr \in {"idle", "resubmitted", "restarted"}
         /\ fence' = [fence EXCEPT ![Last] = "signalled"]
         /\ IF parent[Last] = "attached" THEN JobDone(Last, "ok")
                                        ELSE UNCHANGED <<hwCount, finished>>
<1>1. irq = "entered" /\ ~error /\ SignalFence(currentTask, "ok")
  BY DEF IrqTaskDone
<1>2. hw = "complete" /\ ~intr /\ ~recover /\ tdr \notin {"taken", "stopped"}
  BY <1>1 DEF CalmInv, EventInv, TdrInv
<1>3. /\ currentTask = Last /\ Waits /\ Last \in executed /\ fence[Last] = "unsignalled"
      /\ thread \in {"idle", "started"} /\ tdr \notin {"reset", "vmput", "cleared"}
  BY <1>2 DEF CalmInv, CoreInv, Unused
<1>4. tdr \in {"idle", "resubmitted", "restarted"}
  BY <1>2, <1>3 DEF TypeInv, TypeOK, PipeTypes
<1>. QED  BY <1>1, <1>2, <1>3, <1>4 DEF SignalFence

LEMMA CalmIrq ==
  ASSUME TypeInv, SafeInv, CalmInv, IrqStep
  PROVE  CalmInv'
<1>. USE DEF taskVars, schedVars, tdrVars, hwVars, irqVars, pipeVars
<1>1. CASE IrqEnter
  <2>1. /\ intr /\ ~intr' /\ irq' = "entered" /\ error' = (hw # "complete")
        /\ UNCHANGED <<next, life, vmOf, fence, parent, finished, cancelled, executed, pending,
                       thread, tdr, tdrTask, freeGuilty, hw, hwTask, recover,
                       currentTask, currentVm>>
    BY <1>1 DEF IrqEnter, SetsError
  <2>2. Last' = Last /\ (Waits' <=> Waits)
    BY <2>1 DEF Last, Waits
  <2>3. tdr \notin {"taken", "stopped"} /\ ~recover
    BY <2>1 DEF CalmInv, TdrInv, EventInv
  <2>4. CoreInv' /\ EventInv'
    BY <2>1, <2>2, <2>3 DEF CalmInv, CoreInv, EventInv, Unused
  <2>5. TdrInv'
    BY <2>1, <2>2, <2>3 DEF CalmInv, TdrInv
  <2>6. FenceInv' /\ ListInv'
    BY <2>1, <2>2 DEF CalmInv, FenceInv, ListInv
  <2>. QED  BY <2>4, <2>5, <2>6 DEF CalmInv
<1>2. CASE IrqTaskError
  <2>1. /\ irq = "entered" /\ irq' = "none"
        /\ UNCHANGED <<next, life, vmOf, fence, parent, finished, cancelled, executed, pending,
                       thread, tdr, tdrTask, freeGuilty, hw, hwTask, intr, error,
                       currentTask, currentVm>>
    BY <1>2 DEF IrqTaskError
  <2>2. Last' = Last /\ (Waits' <=> Waits)
    BY <2>1 DEF Last, Waits
  <2>3. tdr \notin {"taken", "stopped"} /\ ~recover /\ ~intr
    BY <2>1 DEF CalmInv, TdrInv, EventInv
  <2>4. CoreInv' /\ EventInv'
    BY <2>1, <2>2, <2>3 DEF CalmInv, CoreInv, EventInv, Unused
  <2>5. TdrInv'
    BY <2>1, <2>2, <2>3 DEF CalmInv, TdrInv
  <2>6. FenceInv' /\ ListInv'
    BY <2>1, <2>2 DEF CalmInv, FenceInv, ListInv
  <2>. QED  BY <2>4, <2>5, <2>6 DEF CalmInv
<1>3. CASE IrqTaskDone
  <2>1. /\ hw = "complete" /\ currentTask = Last /\ Waits /\ Last \in executed
        /\ fence[Last] = "unsignalled" /\ ~intr /\ ~recover
        /\ thread \in {"idle", "started"} /\ tdr \in {"idle", "resubmitted", "restarted"}
        /\ fence' = [fence EXCEPT ![Last] = "signalled"]
        /\ IF parent[Last] = "attached" THEN JobDone(Last, "ok")
                                       ELSE UNCHANGED <<hwCount, finished>>
    BY <1>3, DoneIsLast
  <2>2. /\ hw' = "idle" /\ hwTask' = NoTask /\ irq' = "signalled"
        /\ UNCHANGED <<next, submitted, life, vmOf, parent, cancelled, executed, pending,
                       thread, tdr, tdrTask, freeGuilty, intr, error, recover,
                       currentTask, currentVm>>
    BY <1>3, <2>1 DEF IrqTaskDone, SoftReset
  <2>3. Last' = Last /\ Last \in Task /\ next \in Nat
    BY <2>1, <2>2 DEF Last, Waits, TypeInv, TypeOK, TaskTypes
  <2>4. /\ fence'[Last] = "signalled" /\ \A t \in Task : t # Last => fence'[t] = fence[t]
        /\ \A t \in Task : t > Last => t # Last
    BY <2>1, <2>3 DEF TypeInv, TypeOK, TaskTypes, Last, Task
  <2>5. CASE parent[Last] = "attached"
    <3>1. PICK r \in {"ok", "error"} : finished' = [finished EXCEPT ![Last] = r]
      BY <2>1, <2>5 DEF JobDone, Outcome
    <3>2. /\ ~Waits' /\ \A t \in Task : t # Last => finished'[t] = finished[t]
      BY <2>1, <2>2, <3>1, DoneOrder DEF SafeInv
    <3>3. thread = "idle" /\ tdr \in {"idle", "restarted"}
      <4>1. thread = "idle"
        BY <2>5 DEF SafeInv, OrderInv
      <4>2. currentTask # NoTask
        BY <2>1, <2>3 DEF Task, NoTask
      <4>. QED  BY <2>1, <2>5, <4>1, <4>2 DEF CalmInv, TdrInv
    <3>4. finished'[Last] # "no"
      BY <2>3, <3>2 DEF Waits
    <3>5. CoreInv' /\ EventInv'
      BY <2>1, <2>2, <2>3 DEF CoreInv, EventInv, Unused
    <3>6. TdrInv'
      BY <2>2, <2>3, <3>3 DEF CalmInv, TdrInv, Stopped
    <3>7. FenceInv'
      BY <2>1, <2>2, <2>3, <2>4, <3>2, <3>3 DEF CalmInv, FenceInv
    <3>8. ListInv'
      BY <2>2, <2>3, <3>2, <3>4 DEF CalmInv, ListInv
    <3>. QED  BY <3>5, <3>6, <3>7, <3>8 DEF CalmInv
  <2>6. CASE parent[Last] # "attached"
    <3>1. finished' = finished /\ (Waits' <=> Waits)
      BY <2>1, <2>3, <2>6 DEF Waits
    <3>2. thread = "started" \/ tdr = "resubmitted"
      BY <2>1, <2>6 DEF CalmInv, FenceInv
    <3>3. CoreInv' /\ EventInv'
      BY <2>1, <2>2, <2>3 DEF CoreInv, EventInv, Unused
    <3>4. TdrInv'
      BY <2>1, <2>2, <2>3, <3>1 DEF CalmInv, TdrInv
    <3>5. FenceInv'
      BY <2>1, <2>2, <2>3, <2>4, <3>1, <3>2 DEF CalmInv, FenceInv
    <3>6. ListInv'
      BY <2>2, <2>3, <3>1 DEF CalmInv, ListInv
    <3>. QED  BY <3>3, <3>4, <3>5, <3>6 DEF CalmInv
  <2>. QED  BY <2>5, <2>6
<1>4. CASE IrqTaskDoneBadPointer \/ IrqPmIdle
  <2>1. /\ irq' = irq \/ (irq # "entered" /\ irq' = "none")
        /\ UNCHANGED <<taskVars, schedVars, tdrVars, hwVars, error, recover, pipeVars>>
    BY <1>4 DEF IrqTaskDoneBadPointer, IrqPmIdle
  <2>2. Last' = Last /\ (Waits' <=> Waits)
    BY <2>1 DEF Last, Waits
  <2>. QED  BY <2>1, <2>2 DEF CalmInv, CoreInv, EventInv, TdrInv, FenceInv, ListInv, Unused
<1>. QED  BY <1>1, <1>2, <1>3, <1>4 DEF IrqStep

LEMMA CalmThread ==
  ASSUME Calm, TypeInv, SafeInv, CalmInv, ThreadStep
  PROVE  CalmInv'
<1>. USE DEF schedVars, tdrVars, hwVars, irqVars, pipeVars
<1>0. /\ next \in Nat /\ pending \subseteq Task /\ \A t \in Task : t \in Int /\ t # NoTask
      /\ finished \in [Task -> {"no", "ok", "error"}]
      /\ parent \in [Task -> {"none", "set", "attached"}]
      /\ fence \in [Task -> {"none", "unsignalled", "signalled"}]
      /\ life \in [Task -> {"new", "live", "freed"}]
      /\ tdr \in {"idle", "taken", "stopped", "reset", "vmput", "cleared", "resubmitted", "restarted"}
  BY DEF TypeInv, TypeOK, TaskTypes, PipeTypes, Task, NoTask
<1>1. CASE ThreadCleanup
  <2>1. PICK t \in Task : t \in pending /\ finished[t] # "no" /\ pending' = pending \ {t} /\ FreeJobs({t})
    BY <1>1 DEF ThreadCleanup, Reapable, IsHead
  <2>2. UNCHANGED <<next, vmOf, fence, parent, finished, cancelled, executed, thread, tdr, tdrTask,
                    freeGuilty, hw, hwTask, intr, irq, error, recover, currentTask, currentVm>>
    BY <1>1 DEF ThreadCleanup
  <2>3. Last' = Last /\ (Waits' <=> Waits)
    BY <2>2 DEF Last, Waits
  <2>4. CoreInv' /\ EventInv' /\ TdrInv' /\ FenceInv'
    BY <2>2, <2>3 DEF CalmInv, CoreInv, EventInv, TdrInv, FenceInv, Unused
  <2>5. \A u \in Task : life'[u] = IF u = t THEN "freed" ELSE life[u]
    BY <2>1 DEF FreeJobs
  <2>6. ListInv'
    BY <2>1, <2>2, <2>3, <2>5 DEF CalmInv, ListInv
  <2>. QED  BY <2>4, <2>6 DEF CalmInv
<1>2. CASE ThreadPop
  <2>1. /\ thread = "idle" /\ ~parked /\ hwCount < 1 /\ next <= submitted /\ thread' = "picked"
        /\ pending' = pending \cup {next} /\ next' = next + 1
        /\ \A t \in pending : ~Reapable(t)
        /\ UNCHANGED <<life, vmOf, fence, parent, finished, executed, tdr, tdrTask,
                    freeGuilty, hw, hwTask, intr, irq, error, recover, currentTask, currentVm>>
    BY <1>2 DEF ThreadPop, SchedReady
  <2>2. ~Waits
    BY <2>1 DEF SafeInv, OrderInv
  <2>3. pending = {}
    <3>1. \A t \in pending : t = Last /\ IsHead(t) /\ finished[t] # "no"
      BY <1>0, <2>2 DEF CalmInv, ListInv, IsHead, Waits
    <3>. QED  BY <2>1, <3>1 DEF Reapable
  <2>4. Last = next - 1 /\ Last' = next /\ next \in Task
    BY <1>0, <2>1, SchedAssumption DEF Last, Task, TypeInv, TypeOK, TaskTypes, SchedAssumption
  <2>5. Unused /\ ~intr /\ irq # "entered" /\ ~recover
    BY <2>2 DEF CalmInv, CoreInv, EventInv, Unused
  <2>6. tdr \in {"idle", "restarted"}
    BY <1>0, <2>1, <2>2 DEF CalmInv, TdrInv, Stopped
  <2>7. fence[next] = "none"
    BY <1>0, <2>4 DEF CalmInv, FenceInv
  <2>8. CoreInv' /\ EventInv'
    BY <2>1, <2>5 DEF CalmInv, CoreInv, EventInv, Unused
  <2>9. TdrInv'
    BY <2>1, <2>6 DEF CalmInv, TdrInv, Stopped
  <2>10. FenceInv'
    <3>1. \A t \in Task : t > next => fence[t] = "none"
      BY <1>0, <2>4 DEF CalmInv, FenceInv
    <3>2. \A t \in Task : ~(currentTask = t /\ fence[t] = "unsignalled")
      BY <2>2 DEF CalmInv, FenceInv
    <3>. QED  BY <2>1, <2>4, <2>7, <3>1, <3>2 DEF FenceInv
  <2>11. ListInv'
    BY <2>1, <2>3, <2>4 DEF CalmInv, ListInv
  <2>. QED  BY <2>8, <2>9, <2>10, <2>11 DEF CalmInv
<1>3. ASSUME thread \in {"picked", "prepared", "started"}
      PROVE  Waits /\ Last \in Task /\ tdr \in {"idle", "taken", "restarted"} /\ ~parked
  <2>1. Waits /\ ~parked
    BY <1>3 DEF SafeInv, OrderInv, ParkInv
  <2>2. tdr \notin Stopped
    BY <2>1 DEF SafeInv, ParkInv
  <2>. QED  BY <1>0, <2>1, <2>2 DEF Waits, Stopped
<1>4. CASE ThreadPrepare
  <2>1. /\ thread = "picked" /\ thread' = "prepared"
        /\ fence' = [fence EXCEPT ![Last] = "unsignalled"] /\ currentTask' = Last
        /\ UNCHANGED <<next, life, vmOf, parent, finished, cancelled, executed, pending, tdr, tdrTask,
                    freeGuilty, hw, hwTask, intr, irq, error, recover, currentVm>>
    BY <1>4 DEF ThreadPrepare, PrepareRun, Picked, Last
  <2>2. Last' = Last /\ (Waits' <=> Waits) /\ Waits /\ Last \in Task
    BY <1>3, <2>1 DEF Last, Waits
  <2>3. fence'[Last] = "unsignalled" /\ \A t \in Task : t # Last => fence'[t] = fence[t]
    BY <1>0, <2>1, <2>2
  <2>4. Unused /\ ~intr /\ irq # "entered" /\ ~recover
    BY <2>1 DEF CalmInv, CoreInv, EventInv, Unused
  <2>5. tdr \in {"idle", "restarted"}
    BY <1>3, <2>1, <2>4 DEF CalmInv, TdrInv, StuckHw, Unused
  <2>6. CoreInv' /\ EventInv'
    BY <2>1, <2>4 DEF CalmInv, CoreInv, EventInv, Unused
  <2>7. TdrInv'
    BY <2>1, <2>5 DEF CalmInv, TdrInv, Stopped
  <2>8. FenceInv'
    <3>1. \A t \in Task : t > Last => t # Last
      BY <1>0, <2>2
    <3>. QED  BY <2>1, <2>2, <2>3, <3>1 DEF CalmInv, FenceInv
  <2>9. ListInv'
    BY <2>1, <2>2 DEF CalmInv, ListInv
  <2>. QED  BY <2>6, <2>7, <2>8, <2>9 DEF CalmInv
<1>5. CASE ThreadStart
  <2>1. /\ thread = "prepared" /\ thread' = "started" /\ currentVm' = vmOf[Last]
        /\ hw' = "busy" /\ hwTask' = Last /\ ~intr'
        /\ UNCHANGED <<next, life, vmOf, fence, parent, finished, cancelled, executed, pending, tdr,
                    tdrTask, freeGuilty, irq, recover, currentTask>>
    BY <1>5 DEF ThreadStart, StartRun, SwitchVm, Picked, Last
  <2>2. Last' = Last /\ (Waits' <=> Waits) /\ Waits
    BY <1>3, <2>1 DEF Last, Waits
  <2>3. Unused /\ ~intr /\ irq # "entered" /\ ~recover
    BY <2>1 DEF CalmInv, CoreInv, EventInv, Unused
  <2>4. tdr \in {"idle", "restarted"}
    BY <1>3, <2>1, <2>3 DEF CalmInv, TdrInv, StuckHw, Unused
  <2>5. CoreInv' /\ EventInv'
    BY <2>1, <2>2, <2>3, <2>4 DEF CalmInv, CoreInv, EventInv, FenceInv, Unused
  <2>6. TdrInv'
    BY <2>1, <2>4 DEF CalmInv, TdrInv, Stopped
  <2>7. FenceInv' /\ ListInv'
    BY <2>1, <2>2 DEF CalmInv, FenceInv, ListInv
  <2>. QED  BY <2>5, <2>6, <2>7 DEF CalmInv
<1>6. CASE ThreadReturn
  <2>1. /\ thread = "started" /\ thread' = "idle"
        /\ UNCHANGED <<next, submitted, life, vmOf, fence, cancelled, executed, pending, tdr,
                    tdrTask, freeGuilty, hw, hwTask, intr, irq, error, recover, currentTask, currentVm>>
    BY <1>6 DEF ThreadReturn
  <2>2. Last' = Last /\ Waits /\ Last \in Task
    BY <1>3, <2>1 DEF Last
  <2>3. CASE fence[Last] = "signalled"
    <3>1. PICK r \in {"ok", "error"} : finished' = [finished EXCEPT ![Last] = r]
      BY <1>6, <2>3 DEF ThreadReturn, JobDone, Outcome, Picked, Last
    <3>2. /\ ~Waits' /\ \A t \in Task : t # Last => finished'[t] = finished[t]
      BY <2>1, <2>2, <3>1, DoneOrder DEF SafeInv
    <3>3. Unused /\ ~intr /\ irq # "entered" /\ ~recover
      BY <2>3 DEF CalmInv, CoreInv, EventInv, Unused
    <3>4. tdr \in {"idle", "restarted"}
      BY <1>3, <2>1, <3>3 DEF CalmInv, TdrInv, StuckHw, Unused
    <3>5. CoreInv' /\ EventInv'
      BY <2>1, <3>3 DEF CalmInv, CoreInv, EventInv, Unused
    <3>6. TdrInv'
      BY <2>1, <3>4 DEF CalmInv, TdrInv, Stopped
    <3>7. FenceInv'
      BY <2>1, <2>2, <2>3, <3>2 DEF CalmInv, FenceInv
    <3>8. ListInv'
      BY <2>1, <2>2, <3>1, <3>2, <1>0 DEF CalmInv, ListInv
    <3>. QED  BY <3>5, <3>6, <3>7, <3>8 DEF CalmInv
  <2>4. CASE fence[Last] # "signalled"
    <3>1. parent' = [parent EXCEPT ![Last] = "attached"] /\ UNCHANGED finished
      BY <1>6, <2>4 DEF ThreadReturn, Picked, Last
    <3>2. Waits' <=> Waits
      BY <2>2, <3>1 DEF Waits
    <3>3. fence[Last] = "unsignalled" /\ currentTask = Last
      BY <1>0, <2>1, <2>2, <2>4 DEF CalmInv, FenceInv
    <3>4. parent'[Last] = "attached"
      BY <1>0, <2>2, <3>1
    <3>5. CoreInv' /\ EventInv'
      BY <2>1, <2>2, <3>2 DEF CalmInv, CoreInv, EventInv, Unused
    <3>6. TdrInv'
      BY <1>3, <2>1, <2>2, <3>2 DEF CalmInv, TdrInv, Stopped
    <3>7. FenceInv'
      BY <2>1, <2>2, <2>4, <3>1, <3>2, <3>3, <3>4 DEF CalmInv, FenceInv
    <3>8. ListInv'
      BY <2>1, <2>2, <3>1 DEF CalmInv, ListInv
    <3>. QED  BY <3>5, <3>6, <3>7, <3>8 DEF CalmInv
  <2>. QED  BY <2>3, <2>4
<1>7. CASE ThreadStartFails
  <2>1. /\ thread = "picked" /\ thread' = "idle"
        /\ UNCHANGED <<next, submitted, life, vmOf, fence, parent, cancelled, executed, pending,
                    tdr, tdrTask, freeGuilty, hw, hwTask, intr, irq, error, recover, currentTask,
                    currentVm>>
    BY <1>7 DEF ThreadStartFails
  <2>2. Last' = Last /\ Waits /\ Last \in Task
    BY <1>3, <2>1 DEF Last
  <2>3. PICK r \in {"ok", "error"} : finished' = [finished EXCEPT ![Last] = r]
    BY <1>7 DEF ThreadStartFails, JobDone, Outcome, Picked, Last
  <2>4. ~Waits' /\ \A t \in Task : t # Last => finished'[t] = finished[t]
    BY <2>1, <2>2, <2>3, DoneOrder DEF SafeInv
  <2>5. Unused /\ ~intr /\ irq # "entered" /\ ~recover
    BY <2>1 DEF CalmInv, CoreInv, EventInv, Unused
  <2>6. tdr \in {"idle", "restarted"}
    BY <1>3, <2>1, <2>5 DEF CalmInv, TdrInv, StuckHw, Unused
  <2>7. CoreInv' /\ EventInv'
    BY <2>1, <2>5 DEF CalmInv, CoreInv, EventInv, Unused
  <2>8. TdrInv'
    BY <2>1, <2>6 DEF CalmInv, TdrInv, Stopped
  <2>9. FenceInv'
    BY <2>1, <2>2, <2>4 DEF CalmInv, FenceInv
  <2>10. ListInv'
    BY <2>1, <2>2, <2>3, <2>4, <1>0 DEF CalmInv, ListInv
  <2>. QED  BY <2>7, <2>8, <2>9, <2>10 DEF CalmInv
<1>. QED  BY <1>1, <1>2, <1>4, <1>5, <1>6, <1>7 DEF ThreadStep

\* A timeout finds the core stuck with the task without a result, whose
\* callback is still there.
LEMMA CalmTdr ==
  ASSUME Calm, TypeInv, SafeInv, CalmInv, TdrStep
  PROVE  CalmInv'
<1>. USE DEF taskVars, schedVars, tdrVars, hwVars, irqVars, pipeVars
<1>0. /\ next \in Nat /\ pending \subseteq Task /\ \A t \in Task : t \in Int /\ t # NoTask
      /\ finished \in [Task -> {"no", "ok", "error"}]
      /\ parent \in [Task -> {"none", "set", "attached"}]
      /\ fence \in [Task -> {"none", "unsignalled", "signalled"}]
      /\ life \in [Task -> {"new", "live", "freed"}]
  BY DEF TypeInv, TypeOK, TaskTypes, PipeTypes, Task, NoTask
<1>1. Waits => Last \in Task
  BY DEF Waits
<1>2. tdr \in Stopped => pending = {Last} /\ Waits /\ thread = "idle"
  BY ParkedPending DEF SafeInv, ParkInv, CalmInv, TdrInv
<1>3. CASE TdrFire
  <2>1. /\ Stuck /\ tdr = "idle" /\ tdr' = "taken"
        /\ UNCHANGED <<next, life, vmOf, fence, parent, finished, cancelled, executed, thread,
                    freeGuilty, hw, hwTask, intr, irq, error, recover, currentTask, currentVm>>
    BY <1>3 DEF TdrFire, Calm
  <2>2. PICK t \in pending : tdrTask' = t /\ pending' = pending \ {t}
    BY <1>3 DEF TdrFire, IsHead
  <2>3. tdrTask' = Last /\ pending' \subseteq {Last}
    BY <2>2 DEF CalmInv, ListInv
  <2>4. Last' = Last /\ (Waits' <=> Waits)
    BY <2>1 DEF Last, Waits
  <2>5. CoreInv' /\ EventInv'
    BY <2>1, <2>4 DEF CalmInv, CoreInv, EventInv, Unused
  <2>6. TdrInv'
    BY <2>1, <2>3, <2>4 DEF CalmInv, CoreInv, TdrInv, Stuck, StuckHw, Unused
  <2>7. FenceInv' /\ ListInv'
    BY <2>1, <2>3, <2>4 DEF CalmInv, FenceInv, ListInv
  <2>. QED  BY <2>5, <2>6, <2>7 DEF CalmInv
<1>4. CASE TdrStop
  <2>1. /\ tdr = "taken" /\ tdr' = "stopped" /\ thread = "idle"
        /\ freeGuilty' = (tdrTask \notin Detachable({tdrTask}))
        /\ UNCHANGED <<next, vmOf, fence, finished, cancelled, executed, thread, tdrTask,
                    hw, hwTask, intr, irq, error, recover, currentTask, currentVm>>
    BY <1>4 DEF TdrStop, StopScheduler
  <2>2. /\ tdrTask = Last /\ Waits /\ fence[Last] = "unsignalled" /\ parent[Last] = "attached"
    BY <2>1 DEF CalmInv, TdrInv, FenceInv
  <2>3. ~freeGuilty'
    BY <2>1, <2>2 DEF Detachable
  <2>4. /\ pending' = {Last}
        /\ parent' = [t \in Task |-> IF t \in pending' THEN "none" ELSE parent[t]]
    BY <1>4, <2>2, StopKeeps DEF SafeInv
  <2>5. \A t \in Task : life'[t] = life[t]
    <3>1. FreeJobs(((pending \cup {tdrTask}) \ pending') \ {tdrTask})
      BY <1>4, StopMemory DEF SafeInv
    <3>2. ((pending \cup {tdrTask}) \ pending') \ {tdrTask} = {}
      BY <2>2, <2>4 DEF CalmInv, ListInv
    <3>. QED  BY <3>1, <3>2 DEF FreeJobs
  <2>6. Last' = Last /\ (Waits' <=> Waits)
    BY <2>1 DEF Last, Waits
  <2>7. CoreInv' /\ EventInv'
    BY <2>1, <2>6 DEF CalmInv, CoreInv, EventInv, Unused
  <2>8. TdrInv'
    <3>1. parent'[Last] = "none"
      BY <1>1, <2>2, <2>4
    <3>. QED  BY <2>1, <2>2, <2>3, <2>6, <3>1 DEF CalmInv, TdrInv
  <2>9. FenceInv' /\ ListInv'
    BY <2>1, <2>4, <2>5, <2>6 DEF CalmInv, FenceInv, ListInv
  <2>. QED  BY <2>7, <2>8, <2>9 DEF CalmInv
<1>5. CASE TdrReset
  <2>1. /\ tdr = "stopped" /\ tdr' = "reset" /\ Unused' /\ (hw' = "idle" => hwTask' = NoTask)
        /\ ~intr'
        /\ UNCHANGED <<next, life, vmOf, fence, parent, finished, cancelled, executed, thread, pending,
                    tdrTask, freeGuilty, irq, error, recover, currentTask, currentVm>>
    BY <1>5 DEF TdrReset, HardReset, Unused, CalmInv, CoreInv
  <2>2. Last' = Last /\ (Waits' <=> Waits)
    BY <2>1 DEF Last, Waits
  <2>3. irq # "entered" /\ ~recover
    BY <2>1 DEF CalmInv, TdrInv
  <2>4. CoreInv' /\ EventInv'
    BY <2>1, <2>3 DEF CoreInv, EventInv, Unused
  <2>5. TdrInv'
    BY <2>1, <2>2 DEF CalmInv, TdrInv, Stopped
  <2>6. FenceInv' /\ ListInv'
    BY <2>1, <2>2 DEF CalmInv, FenceInv, ListInv
  <2>. QED  BY <2>4, <2>5, <2>6 DEF CalmInv
<1>6. CASE TdrVmPut
  <2>1. /\ tdr = "reset" /\ tdr' = "vmput"
        /\ UNCHANGED <<next, life, vmOf, fence, parent, finished, cancelled, executed, thread, pending,
              tdrTask, freeGuilty, hw, hwTask, intr, irq, error, recover, currentTask, currentVm>>
    BY <1>6 DEF TdrVmPut
  <2>2. Last' = Last /\ (Waits' <=> Waits)
    BY <2>1 DEF Last, Waits
  <2>3. CoreInv' /\ EventInv'
    BY <2>1, <2>2 DEF CalmInv, CoreInv, EventInv, Unused
  <2>4. TdrInv'
    BY <2>1, <2>2 DEF CalmInv, TdrInv, Stopped
  <2>5. FenceInv' /\ ListInv'
    BY <2>1, <2>2 DEF CalmInv, FenceInv, ListInv
  <2>. QED  BY <2>3, <2>4, <2>5 DEF CalmInv
<1>7. CASE TdrClear
  <2>1. /\ tdr = "vmput" /\ tdr' = "cleared" /\ currentTask' = NoTask
        /\ UNCHANGED <<next, life, vmOf, fence, parent, finished, cancelled, executed, thread, pending,
              tdrTask, freeGuilty, hw, hwTask, intr, irq, error, recover>>
    BY <1>7 DEF TdrClear
  <2>2. Last' = Last /\ (Waits' <=> Waits)
    BY <2>1 DEF Last, Waits
  <2>3. Unused /\ thread = "idle"
    BY <1>2, <2>1 DEF CalmInv, CoreInv, Stopped, Unused
  <2>4. CoreInv' /\ EventInv'
    BY <2>1, <2>2, <2>3 DEF CalmInv, CoreInv, EventInv, Unused
  <2>5. TdrInv'
    BY <2>1, <2>2 DEF CalmInv, TdrInv, Stopped
  <2>6. FenceInv' /\ ListInv'
    BY <1>0, <2>1, <2>2, <2>3 DEF CalmInv, FenceInv, ListInv
  <2>. QED  BY <2>4, <2>5, <2>6 DEF CalmInv
<1>8. CASE TdrResubmitNone
  <2>1. /\ tdr = "cleared" /\ tdr' = "resubmitted"
        /\ cancelled' = cancelled \cup {t \in pending : karma[t] > hangLimit}
        /\ \A t \in pending : karma[t] > hangLimit
        /\ UNCHANGED <<next, life, vmOf, fence, parent, finished, executed, thread, pending,
              tdrTask, freeGuilty, hw, hwTask, intr, irq, error, recover, currentTask, currentVm>>
    BY <1>8 DEF TdrResubmitNone, Calm
  <2>2. Last' = Last /\ (Waits' <=> Waits)
    BY <2>1 DEF Last, Waits
  <2>3. pending = {Last} /\ Waits /\ thread = "idle" /\ Last \in cancelled'
    BY <1>2, <2>1 DEF Stopped
  <2>4. parent[Last] # "set"
    BY <2>1 DEF CalmInv, TdrInv
  <2>5. CoreInv' /\ EventInv'
    BY <2>1, <2>2 DEF CalmInv, CoreInv, EventInv, Unused
  <2>6. TdrInv'
    BY <2>1, <2>2, <2>3, <2>4 DEF CalmInv, TdrInv, Stopped
  <2>7. FenceInv' /\ ListInv'
    BY <2>1, <2>2 DEF CalmInv, FenceInv, ListInv
  <2>. QED  BY <2>5, <2>6, <2>7 DEF CalmInv
<1>9. CASE TdrResubmit
  <2>0. pending = {Last} /\ Waits /\ thread = "idle" /\ Last \in Task
    BY <1>1, <1>2, <1>9 DEF TdrResubmit, Stopped
  <2>1. /\ tdr = "cleared" /\ tdr' = "resubmitted"
        /\ UNCHANGED <<next, life, vmOf, finished, cancelled, executed, thread, pending,
              tdrTask, freeGuilty, irq, recover>>
    BY <1>9 DEF TdrResubmit
  <2>2. /\ fence' = [fence EXCEPT ![Last] = "unsignalled"]
        /\ parent' = [parent EXCEPT ![Last] = "set"]
        /\ currentTask' = Last /\ currentVm' = vmOf[Last]
        /\ hw' = "busy" /\ hwTask' = Last /\ ~intr'
    BY <1>9, <2>0 DEF TdrResubmit, PrepareRun, StartRun, SwitchVm
  <2>3. Last' = Last /\ (Waits' <=> Waits)
    BY <2>1 DEF Last, Waits
  <2>4. fence'[Last] = "unsignalled" /\ \A t \in Task : t # Last => fence'[t] = fence[t]
    BY <1>0, <2>0, <2>2
  <2>5. irq # "entered" /\ ~recover
    BY <2>1 DEF CalmInv, CoreInv, EventInv, Unused
  <2>6. CoreInv' /\ EventInv'
    BY <2>0, <2>1, <2>2, <2>3, <2>4, <2>5 DEF CoreInv, EventInv, Unused
  <2>7. TdrInv'
    BY <1>0, <2>0, <2>1, <2>2, <2>3 DEF CalmInv, TdrInv, Stopped
  <2>8. FenceInv'
    <3>1. \A t \in Task : t > Last => t # Last
      BY <1>0, <2>0
    <3>. QED  BY <2>0, <2>1, <2>2, <2>3, <2>4, <3>1 DEF CalmInv, FenceInv
  <2>9. ListInv'
    BY <2>1, <2>3 DEF CalmInv, ListInv
  <2>. QED  BY <2>6, <2>7, <2>8, <2>9 DEF CalmInv
<1>10. CASE TdrStart
  <2>0. pending = {Last} /\ Waits /\ thread = "idle" /\ Last \in Task
    BY <1>1, <1>2, <1>10 DEF TdrStart, Stopped
  <2>1. /\ tdr = "resubmitted" /\ tdr' = "restarted"
        /\ UNCHANGED <<next, submitted, life, vmOf, fence, cancelled, executed, thread, pending,
              tdrTask, freeGuilty, hw, hwTask, intr, irq, error, recover, currentTask, currentVm>>
    BY <1>10 DEF TdrStart
  <2>2. Last' = Last
    BY <2>1 DEF Last
  <2>3. TdrInv'
    BY <2>1, <2>2 DEF CalmInv, TdrInv, Stopped
  <2>4. CASE parent[Last] = "set" /\ fence[Last] = "unsignalled"
    <3>1. {t \in pending : parent[t] = "set" /\ fence[t] = "unsignalled"} = {Last}
      BY <2>0, <2>4
    <3>2. /\ parent' = [t \in Task |-> IF t \in {Last} THEN "attached" ELSE parent[t]]
          /\ finished' = [t \in Task |->
                IF t \in pending \ {Last} THEN Outcome(t, "ok") ELSE finished[t]]
      BY <1>10, <3>1 DEF TdrStart
    <3>3. parent'[Last] = "attached" /\ finished' = finished
      BY <1>0, <2>0, <3>2
    <3>4. Waits' <=> Waits
      BY <2>2, <3>3 DEF Waits
    <3>5. CoreInv' /\ EventInv'
      BY <2>1, <2>2, <3>4 DEF CalmInv, CoreInv, EventInv, Unused
    <3>6. FenceInv' /\ ListInv'
      BY <2>0, <2>1, <2>2, <2>4, <3>3, <3>4 DEF CalmInv, FenceInv, ListInv
    <3>. QED  BY <2>3, <3>5, <3>6 DEF CalmInv
  <2>5. CASE ~(parent[Last] = "set" /\ fence[Last] = "unsignalled")
    <3>1. {t \in pending : parent[t] = "set" /\ fence[t] = "unsignalled"} = {}
      BY <2>0, <2>5
    <3>2. /\ finished' = [t \in Task |->
                IF t \in pending \ {} THEN Outcome(t, "ok") ELSE finished[t]]
      BY <1>10, <3>1 DEF TdrStart
    <3>3. \A t \in Task : finished'[t] = IF t = Last THEN Outcome(Last, "ok") ELSE finished[t]
      BY <2>0, <3>2
    <3>4. finished'[Last] # "no" /\ ~Waits'
      BY <2>0, <2>2, <3>3 DEF Waits, Outcome
    <3>5. Unused
      <4>1. ~Unused => currentTask = Last /\ fence[Last] = "unsignalled" /\ Last # NoTask
        BY <1>0, <2>0 DEF CalmInv, CoreInv, Unused
      <4>. QED  BY <2>1, <2>5, <4>1 DEF CalmInv, TdrInv
    <3>6. CoreInv' /\ EventInv'
      BY <2>1, <3>5 DEF CalmInv, CoreInv, EventInv, Unused
    <3>7. FenceInv'
      <4>1. currentTask = Last => fence[Last] # "unsignalled"
        BY <1>0, <2>0, <2>1, <2>5 DEF CalmInv, TdrInv
      <4>. QED  BY <2>0, <2>1, <2>2, <3>4, <4>1 DEF CalmInv, FenceInv
    <3>8. ListInv'
      BY <2>1, <2>2, <3>3, <3>4 DEF CalmInv, ListInv
    <3>. QED  BY <2>3, <3>6, <3>7, <3>8 DEF CalmInv
  <2>. QED  BY <2>4, <2>5
<1>11. CASE TdrEnd
  <2>1. /\ tdr = "restarted" /\ tdr' = "idle" /\ tdrTask' = NoTask /\ ~freeGuilty'
        /\ FreeJobs(IF freeGuilty THEN {tdrTask} ELSE {})
        /\ UNCHANGED <<next, vmOf, fence, parent, finished, cancelled, executed, thread, pending,
              hw, hwTask, intr, irq, error, recover, currentTask, currentVm>>
    BY <1>11 DEF TdrEnd
  <2>2. Last' = Last /\ (Waits' <=> Waits)
    BY <2>1 DEF Last, Waits
  <2>3. \A t \in Task : life'[t] = life[t]
    BY <2>1 DEF FreeJobs, CalmInv, TdrInv
  <2>4. CoreInv' /\ EventInv'
    BY <2>1, <2>2 DEF CalmInv, CoreInv, EventInv, Unused
  <2>5. TdrInv'
    BY <2>1 DEF TdrInv, Stopped
  <2>6. FenceInv' /\ ListInv'
    BY <2>1, <2>2, <2>3 DEF CalmInv, FenceInv, ListInv
  <2>. QED  BY <2>4, <2>5, <2>6 DEF CalmInv
<1>. QED  BY <1>3, <1>4, <1>5, <1>6, <1>7, <1>8, <1>9, <1>10, <1>11 DEF TdrStep

LEMMA CalmStep ==
  ASSUME Calm, TypeInv, SafeInv, Serving', CalmInv, [Next]_vars
  PROVE  CalmInv'
<1>1. CASE UNCHANGED vars \/ FiniStep
  <2>1. UNCHANGED <<taskVars, schedVars, tdrVars, hwVars, irqVars, pipeVars>>
    BY <1>1, FiniWaits DEF vars, runVars, SafeInv, ParkInv
  <2>2. Last' = Last /\ (Waits' <=> Waits)
    BY <2>1 DEF Last, Waits, taskVars
  <2>. QED  BY <2>1, <2>2 DEF CalmInv, CoreInv, EventInv, TdrInv, FenceInv, ListInv, Unused,
                  taskVars, schedVars, tdrVars, hwVars, irqVars, pipeVars
<1>. QED  BY <1>1, CalmClient, CalmHw, CalmRecover, CalmIrq, CalmThread, CalmTdr DEF Next

-----------------------------------------------------------------------------
(***************************************************************************)
(* Success, and the power references.                                      *)
(***************************************************************************)

\* What the core completed, it completed.
LEMMA ExecutedGrows == ASSUME [Next]_vars PROVE executed \subseteq executed'
<1>. USE DEF taskVars
<1>1. CASE UNCHANGED executed
  BY <1>1
<1>2. CASE HwStep
  BY <1>2 DEF HwStep, HwEvent
<1>3. CASE UNCHANGED vars \/ (\E v \in VMs : Submit(v) \/ CloseFile(v)) \/ RecoverStep
  BY <1>1, <1>3 DEF vars, runVars, Submit, CloseFile, RecoverStep, RecoverGrows,
      RecoverBadPointer
<1>4. CASE ThreadStep \/ IrqStep
  BY <1>1, <1>4 DEF ThreadStep, ThreadCleanup, ThreadPop, ThreadPrepare, ThreadStartFails,
      ThreadStart, ThreadReturn, IrqStep, IrqEnter, IrqTaskError, IrqTaskDone,
      IrqTaskDoneBadPointer, IrqPmIdle
<1>5. CASE TdrStep
  BY <1>1, <1>5 DEF TdrStep, TdrFire, TdrStop, TdrReset, TdrVmPut, TdrClear, TdrResubmitNone,
      TdrResubmit, TdrStart, TdrEnd
<1>6. CASE FiniStep
  BY <1>1, <1>6 DEF FiniStep, FiniBegin, FiniIdle, FiniGiveUp, FiniReset, FiniSignal,
      FiniVmPut, FiniClear, FiniStop, FiniEnd
<1>. QED  BY <1>2, <1>3, <1>4, <1>5, <1>6 DEF Next

LEMMA SuccessStep ==
  ASSUME Calm, TypeInv, SafeInv, Serving', CalmInv, NoFalseSuccess, [Next]_vars
  PROVE  NoFalseSuccess'
<1>. USE DEF taskVars, schedVars
<1>0. finished \in [Task -> {"no", "ok", "error"}]
  BY DEF TypeInv, TypeOK, TaskTypes
<1>1. executed \subseteq executed'
  BY ExecutedGrows
<1>2. ASSUME UNCHANGED finished PROVE NoFalseSuccess'
  BY <1>1, <1>2 DEF NoFalseSuccess
<1>3. ASSUME NEW r \in {"ok", "error"}, finished' = [finished EXCEPT ![Last] = r],
             r = "ok" => Last \in executed
      PROVE  NoFalseSuccess'
  BY <1>0, <1>1, <1>3 DEF NoFalseSuccess
<1>4. CASE UNCHANGED vars \/ (\E v \in VMs : Submit(v) \/ CloseFile(v))
           \/ HwStep \/ RecoverStep
  BY <1>2, <1>4 DEF vars, runVars, Submit, CloseFile, HwStep, HwEvent, RecoverStep,
      RecoverGrows, RecoverBadPointer
<1>5. CASE ThreadStep
  <2>1. CASE ThreadReturn
    <3>1. CASE fence[Last] = "signalled"
      <4>1. finished' = [finished EXCEPT ![Last] = Outcome(Last, "ok")]
        BY <2>1, <3>1 DEF ThreadReturn, JobDone, Picked, Last
      <4>2. Last \in executed /\ Outcome(Last, "ok") \in {"ok", "error"}
        BY <2>1, <3>1 DEF ThreadReturn, SafeInv, OrderInv, CalmInv, FenceInv, Outcome
      <4>. QED  BY <1>3, <4>1, <4>2
    <3>. QED  BY <1>2, <2>1, <3>1 DEF ThreadReturn, Picked, Last
  <2>2. CASE ThreadCleanup \/ ThreadPop \/ ThreadPrepare \/ ThreadStart
    BY <1>2, <2>2 DEF ThreadCleanup, ThreadPop, ThreadPrepare, ThreadStart
  <2>3. CASE ThreadStartFails
    <3>1. finished' = [finished EXCEPT ![Last] = Outcome(Last, "ok")] /\ Last \in cancelled
      BY <2>3 DEF ThreadStartFails, JobDone, Picked, Last, Calm
    <3>2. Outcome(Last, "ok") = "error"
      BY <3>1 DEF Outcome
    <3>. QED  BY <1>3, <3>1, <3>2
  <2>. QED  BY <1>5, <2>1, <2>2, <2>3 DEF ThreadStep
<1>6. CASE IrqStep
  <2>1. CASE IrqTaskDone
    <3>1. Last \in executed /\ (JobDone(Last, "ok") \/ UNCHANGED finished)
      BY <2>1, DoneIsLast
    <3>2. Outcome(Last, "ok") \in {"ok", "error"}
      BY DEF Outcome
    <3>. QED  BY <1>2, <1>3, <3>1, <3>2 DEF JobDone
  <2>2. CASE IrqEnter \/ IrqTaskError \/ IrqTaskDoneBadPointer \/ IrqPmIdle
    BY <1>2, <2>2 DEF IrqEnter, IrqTaskError, IrqTaskDoneBadPointer, IrqPmIdle
  <2>. QED  BY <1>6, <2>1, <2>2 DEF IrqStep
<1>7. CASE TdrStep
  <2>1. CASE TdrStart
    <3>0. pending = {Last} /\ Waits /\ Last \in Task
      BY <2>1, ParkedPending DEF TdrStart, SafeInv, ParkInv, Stopped, CalmInv, TdrInv, Waits
    <3>1. CASE parent[Last] = "set" /\ fence[Last] = "unsignalled"
      <4>1. {t \in pending : parent[t] = "set" /\ fence[t] = "unsignalled"} = {Last}
        BY <3>0, <3>1
      <4>2. finished' = [t \in Task |->
                IF t \in pending \ {Last} THEN Outcome(t, "ok") ELSE finished[t]]
        BY <2>1, <4>1 DEF TdrStart
      <4>. QED  BY <1>0, <1>2, <3>0, <4>2
    <3>2. CASE ~(parent[Last] = "set" /\ fence[Last] = "unsignalled")
      <4>1. {t \in pending : parent[t] = "set" /\ fence[t] = "unsignalled"} = {}
        BY <3>0, <3>2
      <4>2. finished' = [t \in Task |->
                IF t \in pending \ {} THEN Outcome(t, "ok") ELSE finished[t]]
        BY <2>1, <4>1 DEF TdrStart
      <4>3. finished' = [finished EXCEPT ![Last] = Outcome(Last, "ok")]
        BY <1>0, <3>0, <4>2
      <4>4. Outcome(Last, "ok") = "ok" => Last \in executed
        <5>1. Last \in cancelled \/ parent[Last] = "set"
          BY <2>1 DEF TdrStart, CalmInv, TdrInv
        <5>2. Last \in cancelled => Outcome(Last, "ok") = "error"
          BY DEF Outcome
        <5>3. parent[Last] = "set" => fence[Last] = "signalled"
          <6>1. fence \in [Task -> {"none", "unsignalled", "signalled"}]
            BY DEF TypeInv, TypeOK, TaskTypes
          <6>2. parent[Last] = "set" => fence[Last] # "none"
            BY <2>1, <3>0 DEF TdrStart, CalmInv, TdrInv, FenceInv
          <6>. QED  BY <3>0, <3>2, <6>1, <6>2
        <5>. QED  BY <3>0, <5>1, <5>2, <5>3 DEF CalmInv, FenceInv
      <4>5. Outcome(Last, "ok") \in {"ok", "error"}
        BY DEF Outcome
      <4>. QED  BY <1>3, <4>3, <4>4, <4>5
    <3>. QED  BY <3>1, <3>2
  <2>2. CASE TdrStep /\ ~TdrStart
    BY <1>2, <2>2 DEF TdrStep, TdrFire, TdrStop, TdrReset, TdrVmPut, TdrClear,
              TdrResubmitNone, TdrResubmit, TdrEnd
  <2>. QED  BY <1>7, <2>1, <2>2
<1>8. CASE FiniStep
  BY <1>2, <1>8, FiniWaits DEF SafeInv, ParkInv
<1>. QED  BY <1>4, <1>5, <1>6, <1>7, <1>8 DEF Next

\* A power reference is owed for the task without a result from the creation
\* of its fence to the signal.
Owes == Waits /\ currentTask = Last /\ fence[Last] = "unsignalled"

LEMMA LastIsLive == ASSUME SafeInv, Waits PROVE Last \in Task /\ life[Last] = "live"
BY DEF SafeInv, OrderInv, MemoryInv, Waits

LEMMA OwedIs == ASSUME SafeInv, CalmInv PROVE (\E t \in Task : Owed(t)) <=> Owes
<1>1. ASSUME Owes PROVE \E t \in Task : Owed(t)
  BY <1>1, LastIsLive DEF Owes, Owed
<1>2. ASSUME NEW t \in Task, Owed(t) PROVE Owes
  BY <1>2 DEF Owed, Owes, CalmInv, FenceInv
<1>. QED  BY <1>1, <1>2

LEMMA PowerIs ==
  ASSUME SafeInv, CalmInv
  PROVE  PmBalanced <=> pmUsage = B(irq = "signalled") + B(Owes)
<1>1. B(\E t \in Task : Owed(t)) = B(Owes)
  BY OwedIs DEF B
<1>2. finiTask = NoTask
  BY DEF SafeInv, ParkInv
<1>. QED  BY <1>1, <1>2 DEF PmBalanced

LEMMA PowerStep ==
  ASSUME Calm, TypeInv, SafeInv, SafeInv', CalmInv, CalmInv', PmBalanced, [Next]_vars
  PROVE  PmBalanced'
<1>. USE DEF taskVars, schedVars, tdrVars, hwVars, irqVars, pipeVars, refVars, finiVars
<1>0. /\ pmUsage \in Int /\ fence \in [Task -> {"none", "unsignalled", "signalled"}]
      /\ pmUsage = B(irq = "signalled") + B(Owes) /\ \A t \in Task : t # NoTask /\ t \in Int
      /\ next \in Nat
  BY PowerIs DEF TypeInv, TypeOK, TaskTypes, PipeTypes, Task, NoTask
<1>. DEFINE Goal == pmUsage' = B(irq' = "signalled") + B(Owes')
<1>. SUFFICES Goal
  <2>1. (PmBalanced <=> pmUsage = B(irq = "signalled") + B(Owes))'
    <3>1. finiTask' = NoTask
      BY DEF SafeInv, ParkInv
    <3>2. (\E t \in Task : Owed(t))' <=> Owes'
      <4>1. ASSUME Owes' PROVE (\E t \in Task : Owed(t))'
        <5>1. Last' \in Task /\ life'[Last'] = "live"
          BY <4>1 DEF Owes, SafeInv, OrderInv, MemoryInv, Waits
        <5>. QED  BY <4>1, <5>1 DEF Owes, Owed
      <4>2. ASSUME NEW t \in Task, Owed(t)' PROVE Owes'
        BY <4>2 DEF Owed, Owes, CalmInv, FenceInv
      <4>. QED  BY <4>1, <4>2
    <3>. QED  BY <3>1, <3>2 DEF PmBalanced, B
  <2>. QED  BY <2>1 DEF B
<1>1. ASSUME UNCHANGED <<pmUsage, currentTask, fence, next, finished>>,
             irq = "signalled" <=> irq' = "signalled"
      PROVE  Goal
  <2>1. Owes' <=> Owes
    BY <1>1 DEF Owes, Waits, Last
  <2>. QED  BY <1>0, <1>1, <2>1 DEF B
<1>2. ASSUME UNCHANGED <<pmUsage, irq>>, ~Owes, ~Owes' PROVE Goal
  BY <1>0, <1>2 DEF B
<1>3. CASE UNCHANGED vars \/ (\E v \in VMs : Submit(v) \/ CloseFile(v)) \/ HwStep \/ RecoverStep
  BY <1>1, <1>3 DEF vars, runVars, Submit, CloseFile, HwStep, HwEvent, RecoverStep,
      RecoverGrows, RecoverBadPointer
<1>4. CASE ThreadStep
  <2>1. CASE ThreadCleanup \/ ThreadStart
    BY <1>1, <2>1 DEF ThreadCleanup, ThreadStart
  <2>2. CASE ThreadPop
    <3>1. /\ hwCount < 1 /\ ~parked /\ next' = next + 1
          /\ UNCHANGED <<pmUsage, irq, fence, currentTask, finished>>
      BY <2>2 DEF ThreadPop, SchedReady
    <3>2. ~Waits
      BY <3>1 DEF SafeInv, OrderInv
    <3>3. ~Owes'
      <4>1. ASSUME Owes' PROVE FALSE
        <5>1. Last' \in Task /\ fence[Last'] = "unsignalled" /\ Last' > Last
          BY <1>0, <3>1, <4>1 DEF Owes, Waits, Last
        <5>. QED  BY <5>1 DEF CalmInv, FenceInv
      <4>. QED  BY <4>1
    <3>. QED  BY <1>2, <3>1, <3>2, <3>3 DEF Owes
  <2>3. CASE ThreadPrepare
    <3>1. /\ thread = "picked" /\ fence' = [fence EXCEPT ![Last] = "unsignalled"]
          /\ currentTask' = Last /\ pmUsage' = pmUsage + 1 /\ UNCHANGED <<irq, next, finished>>
      BY <2>3 DEF ThreadPrepare, PrepareRun, Picked, Last
    <3>2. Waits /\ ~Owes
      BY <3>1 DEF SafeInv, OrderInv, Owes, Waits, CalmInv, FenceInv
    <3>3. Owes'
      BY <1>0, <3>1, <3>2 DEF Owes, Waits, Last
    <3>. QED  BY <1>0, <3>1, <3>2, <3>3 DEF B
  <2>4. CASE ThreadReturn
    <3>1. UNCHANGED <<pmUsage, irq, next, submitted, fence, currentTask>> /\ Waits
      BY <2>4 DEF ThreadReturn, SafeInv, OrderInv
    <3>2. CASE fence[Last] = "signalled"
      BY <1>2, <3>1, <3>2 DEF Owes, Last
    <3>3. CASE fence[Last] # "signalled"
      BY <1>1, <2>4, <3>3 DEF ThreadReturn, Picked, Last
    <3>. QED  BY <3>2, <3>3
  <2>5. CASE ThreadStartFails
    <3>1. thread = "picked" /\ UNCHANGED <<pmUsage, irq, next, submitted, fence, currentTask>> /\ Waits
      BY <2>5 DEF ThreadStartFails, SafeInv, OrderInv
    <3>2. ~Owes
      BY <3>1 DEF Owes, Waits, CalmInv, FenceInv
    <3>3. ~Owes'
      BY <3>1, <3>2 DEF Owes, Last
    <3>. QED  BY <1>2, <3>1, <3>2, <3>3
  <2>. QED  BY <1>4, <2>1, <2>2, <2>3, <2>4, <2>5 DEF ThreadStep
<1>5. CASE IrqStep
  <2>1. CASE IrqTaskDone
    <3>1. /\ Owes /\ fence' = [fence EXCEPT ![Last] = "signalled"]
      BY <2>1, DoneIsLast DEF Owes
    <3>2. irq = "entered" /\ irq' = "signalled" /\ UNCHANGED <<pmUsage, next>>
      BY <2>1 DEF IrqTaskDone
    <3>3. ~Owes'
      BY <1>0, <3>1, <3>2 DEF Owes, Waits, Last
    <3>. QED  BY <1>0, <3>1, <3>2, <3>3 DEF B
  <2>2. CASE IrqEnter \/ IrqTaskError \/ IrqTaskDoneBadPointer
    BY <1>1, <2>2 DEF IrqEnter, IrqTaskError, IrqTaskDoneBadPointer
  <2>3. CASE IrqPmIdle
    <3>1. /\ irq = "signalled" /\ irq' = "none" /\ pmUsage' = pmUsage - 1
          /\ UNCHANGED <<currentTask, fence, next, finished>>
      BY <2>3 DEF IrqPmIdle
    <3>2. Owes' <=> Owes
      BY <3>1 DEF Owes, Waits, Last
    <3>. QED  BY <1>0, <3>1, <3>2 DEF B
  <2>. QED  BY <1>5, <2>1, <2>2, <2>3 DEF IrqStep
<1>6. CASE TdrStep
  <2>1. CASE TdrFire \/ TdrStop \/ TdrReset \/ TdrVmPut \/ TdrResubmitNone \/ TdrEnd
    BY <1>1, <2>1 DEF TdrFire, TdrStop, TdrReset, TdrVmPut, TdrResubmitNone, TdrEnd
  <2>2. CASE TdrClear
    <3>1. /\ tdr = "vmput" /\ currentTask' = NoTask /\ pmUsage' = pmUsage - 1 /\ UNCHANGED irq
      BY <2>2 DEF TdrClear
    <3>2. Owes
      BY <3>1 DEF CalmInv, TdrInv, Stopped, Owes
    <3>3. ~Owes'
      BY <1>0, <3>1 DEF Owes, Waits
    <3>. QED  BY <1>0, <3>1, <3>2, <3>3 DEF B
  <2>3. CASE TdrResubmit
    <3>1. pending = {Last} /\ Waits
      BY <2>3, ParkedPending DEF TdrResubmit, SafeInv, ParkInv, Stopped, CalmInv, TdrInv
    <3>2. /\ tdr = "cleared" /\ fence' = [fence EXCEPT ![Last] = "unsignalled"]
          /\ currentTask' = Last /\ pmUsage' = pmUsage + 1 /\ UNCHANGED <<irq, next, finished>>
      BY <2>3, <3>1 DEF TdrResubmit, PrepareRun, StartRun
    <3>3. ~Owes
      BY <1>0, <3>2 DEF CalmInv, TdrInv, Owes, Waits
    <3>4. Owes'
      BY <1>0, <3>1, <3>2 DEF Owes, Waits, Last
    <3>. QED  BY <1>0, <3>2, <3>3, <3>4 DEF B
  <2>4. CASE TdrStart
    <3>1. UNCHANGED <<pmUsage, irq, next, fence, currentTask>> /\ tdr = "resubmitted"
      BY <2>4 DEF TdrStart
    <3>2. CASE UNCHANGED finished
      BY <1>1, <3>1, <3>2
    <3>3. CASE ~Owes
      <4>1. finished'[Last] = "no" /\ Last \in Task => finished[Last] = "no"
        BY <2>4 DEF TdrStart, Outcome
      <4>. QED  BY <1>2, <3>1, <3>3, <4>1 DEF Owes, Waits, Last
    <3>4. CASE Owes
      <4>1. pending = {Last}
        <5>1. parked /\ Waits
          BY <3>1, <3>4 DEF SafeInv, ParkInv, Stopped, Owes
        <5>. QED  BY <5>1, ParkedPending DEF SafeInv
      <4>2. parent[Last] = "set"
        BY <1>0, <3>1, <3>4 DEF CalmInv, TdrInv, Owes, Waits
      <4>3. {t \in pending : parent[t] = "set" /\ fence[t] = "unsignalled"} = {Last}
        BY <3>4, <4>1, <4>2 DEF Owes
      <4>4. finished' = [t \in Task |->
                IF t \in pending \ {Last} THEN Outcome(t, "ok") ELSE finished[t]]
        BY <2>4, <4>3 DEF TdrStart
      <4>5. finished \in [Task -> {"no", "ok", "error"}]
        BY DEF TypeInv, TypeOK, TaskTypes
      <4>6. finished' = finished
        BY <4>1, <4>4, <4>5
      <4>. QED  BY <3>2, <4>6
    <3>. QED  BY <3>3, <3>4
  <2>. QED  BY <1>6, <2>1, <2>2, <2>3, <2>4 DEF TdrStep
<1>7. CASE FiniStep
  BY <1>1, <1>7, FiniWaits DEF SafeInv, ParkInv
<1>. QED  BY <1>3, <1>4, <1>5, <1>6, <1>7 DEF Next

-----------------------------------------------------------------------------
(***************************************************************************)
(* What the teardown relies on when it ends its wait.                      *)
(***************************************************************************)

\* While it waits, nothing is submitted or started, and no retry is granted.
ClosedInv ==
  fini = "polling" => /\ vmOpen = {} /\ next > submitted /\ hangLimit = 0
                      /\ thread \notin {"picked", "prepared"}

\* A task that was stopped has used up a retry, and runs again only when the
\* hang limit grants it one.
KarmaInv ==
  /\ tdr \in Stopped => karma[Last] >= 1
  /\ tdr = "resubmitted" /\ currentTask = Last => karma[Last] <= hangLimit

\* What is in use is on a list or waits in the queue, and the pipe records the
\* task on the core and its address space.
ListedInv ==
  /\ \A t \in Task : life[t] = "live" /\ t < next =>
       t \in pending \/ (tdr = "taken" /\ tdrTask = t)
  /\ currentTask = NoTask => currentVm = NoVm
  /\ Waits /\ thread = "idle" /\ tdr \in {"idle", "taken", "restarted"} => currentTask = Last

PollInv == ClosedInv /\ KarmaInv /\ ListedInv

LEMMA ClosedStep ==
  ASSUME Calm, TypeInv, SafeInv, Serving', ClosedInv, [Next]_vars
  PROVE  ClosedInv'
<1>. USE DEF ClosedInv, taskVars, schedVars, refVars, finiVars
<1>1. UNCHANGED hangLimit
  BY DEF Next, vars
<1>2. CASE FiniStep
  BY <1>1, <1>2, FiniWaits DEF FiniBegin, SafeInv, ParkInv, Calm
<1>3. CASE \E v \in VMs : Submit(v) \/ CloseFile(v)
  BY <1>1, <1>3 DEF Submit, CloseFile
<1>4. CASE ThreadStep
  <2>1. next \in Nat /\ submitted \in Nat
    BY DEF TypeInv, TypeOK, TaskTypes
  <2>. QED  BY <1>1, <1>4, <2>1 DEF ThreadStep, ThreadCleanup, ThreadPop, ThreadPrepare,
                ThreadStartFails, ThreadStart, ThreadReturn
<1>5. CASE UNCHANGED vars \/ HwStep \/ RecoverStep
  BY <1>1, <1>5 DEF vars, runVars, HwStep, HwEvent, RecoverStep, RecoverGrows,
                    RecoverBadPointer
<1>6. CASE IrqStep
  BY <1>1, <1>6 DEF IrqStep, IrqEnter, IrqTaskError, IrqTaskDone, IrqTaskDoneBadPointer,
                    IrqPmIdle
<1>7. CASE TdrStep
  BY <1>1, <1>7 DEF TdrStep, TdrFire, TdrStop, TdrReset, TdrVmPut, TdrClear,
      TdrResubmitNone, TdrResubmit, TdrStart, TdrEnd
<1>. QED  BY <1>2, <1>3, <1>4, <1>5, <1>6, <1>7 DEF Next

LEMMA KarmaStep ==
  ASSUME Calm, TypeInv, SafeInv, Serving', CalmInv, KarmaInv, [Next]_vars
  PROVE  KarmaInv'
<1>. USE DEF taskVars, schedVars, tdrVars, pipeVars
<1>0. /\ next \in Nat /\ karma \in [Task -> Nat]
      /\ UNCHANGED hangLimit
  BY DEF TypeInv, TypeOK, TaskTypes, Next, vars
<1>1. ASSUME UNCHANGED <<next, karma, tdr, currentTask>> PROVE KarmaInv'
  <2>1. Last' = Last
    BY <1>1 DEF Last
  <2>. QED  BY <1>0, <1>1, <2>1 DEF KarmaInv
<1>2. ASSUME tdr' \notin Stopped PROVE KarmaInv'
  BY <1>2 DEF KarmaInv, Stopped
<1>3. CASE UNCHANGED vars \/ (\E v \in VMs : Submit(v) \/ CloseFile(v)) \/ HwStep
           \/ RecoverStep \/ IrqStep
  BY <1>1, <1>3 DEF vars, runVars, Submit, CloseFile, HwStep, HwEvent, RecoverStep,
      RecoverGrows, RecoverBadPointer, IrqStep, IrqEnter, IrqTaskError, IrqTaskDone,
      IrqTaskDoneBadPointer, IrqPmIdle
<1>4. CASE FiniStep
  BY <1>1, <1>4, FiniWaits DEF SafeInv, ParkInv
<1>5. CASE ThreadStep
  <2>1. CASE ThreadCleanup
    BY <1>1, <2>1 DEF ThreadCleanup
  <2>2. CASE ThreadPop \/ ThreadPrepare \/ ThreadStartFails \/ ThreadStart \/ ThreadReturn
    <3>1. ~parked /\ UNCHANGED tdr
      BY <2>2 DEF ThreadPop, ThreadPrepare, ThreadStartFails, ThreadStart, ThreadReturn,
                  SafeInv, ParkInv
    <3>. QED  BY <1>2, <3>1 DEF SafeInv, ParkInv
  <2>. QED  BY <1>5, <2>1, <2>2 DEF ThreadStep
<1>6. CASE TdrStep
  <2>1. CASE TdrFire \/ TdrStart \/ TdrEnd
    BY <1>2, <2>1 DEF TdrFire, TdrStart, TdrEnd, Stopped
  <2>2. CASE TdrStop
    <3>1. /\ tdr = "taken" /\ tdr' = "stopped" /\ UNCHANGED next
          /\ karma' = [karma EXCEPT ![tdrTask] = @ + 1]
      BY <2>2 DEF TdrStop
    <3>2. tdrTask = Last /\ Last \in Task /\ Last' = Last
      BY <3>1 DEF CalmInv, TdrInv, Waits, Last
    <3>. QED  BY <1>0, <3>1, <3>2 DEF KarmaInv
  <2>3. CASE TdrReset \/ TdrVmPut \/ TdrClear \/ TdrResubmitNone
    <3>1. /\ tdr \in Stopped /\ UNCHANGED <<next, karma>>
          /\ tdr' # "resubmitted" \/ (tdr = "cleared" /\ UNCHANGED currentTask)
      BY <2>3 DEF TdrReset, TdrVmPut, TdrClear, TdrResubmitNone, Stopped
    <3>2. Last' = Last /\ karma[Last] >= 1
      BY <3>1 DEF Last, KarmaInv
    <3>3. tdr = "cleared" => currentTask # Last
      <4>1. tdr = "cleared" => currentTask = NoTask /\ Last \in Task
        BY DEF CalmInv, TdrInv, Waits, Stopped
      <4>. QED  BY <4>1 DEF Task, NoTask
    <3>. QED  BY <3>1, <3>2, <3>3 DEF KarmaInv
  <2>4. CASE TdrResubmit
    <3>1. tdr = "cleared" /\ UNCHANGED <<next, karma>> /\ \E t \in pending : karma[t] <= hangLimit
      BY <2>4 DEF TdrResubmit
    <3>2. pending = {Last}
      BY <3>1, ParkedPending DEF SafeInv, ParkInv, Stopped, CalmInv, TdrInv
    <3>3. Last' = Last /\ karma[Last] >= 1
      BY <3>1 DEF Last, KarmaInv, Stopped
    <3>. QED  BY <1>0, <3>1, <3>2, <3>3 DEF KarmaInv
  <2>. QED  BY <1>6, <2>1, <2>2, <2>3, <2>4 DEF TdrStep
<1>. QED  BY <1>3, <1>4, <1>5, <1>6 DEF Next

LEMMA ListedStep ==
  ASSUME Calm, TypeInv, SafeInv, Serving', CalmInv, ListedInv, [Next]_vars
  PROVE  ListedInv'
<1>. USE DEF taskVars, schedVars, tdrVars, pipeVars
<1>0. /\ next \in Nat /\ submitted \in Nat /\ pending \subseteq Task
      /\ life \in [Task -> {"new", "live", "freed"}]
      /\ finished \in [Task -> {"no", "ok", "error"}]
      /\ \A t \in Task : t \in Int /\ t # NoTask
  BY DEF TypeInv, TypeOK, TaskTypes, Task, NoTask
<1>1. ASSUME UNCHANGED <<next, life, pending, tdr, tdrTask, currentTask, currentVm, thread>>,
             \A t \in Task : finished'[t] = "no" => finished[t] = "no"
      PROVE  ListedInv'
  BY <1>1 DEF ListedInv, Last, Waits
<1>2. \A t \in Task : finished'[t] = "no" => finished[t] = "no"
  BY <1>0, ResultStep DEF SafeInv
<1>3. CASE UNCHANGED vars \/ HwStep \/ RecoverStep \/ IrqStep
  BY <1>1, <1>2, <1>3 DEF vars, runVars, HwStep, HwEvent, RecoverStep, RecoverGrows,
      RecoverBadPointer, IrqStep, IrqEnter, IrqTaskError, IrqTaskDone,
      IrqTaskDoneBadPointer, IrqPmIdle
<1>4. CASE FiniStep
  BY <1>1, <1>2, <1>4, FiniWaits DEF SafeInv, ParkInv
<1>5. CASE \E v \in VMs : Submit(v) \/ CloseFile(v)
  <2>1. UNCHANGED <<next, pending, tdr, tdrTask, currentTask, currentVm, thread, finished>>
    BY <1>5 DEF Submit, CloseFile
  <2>2. \A t \in Task : t < next => life'[t] = life[t]
    <3>1. CASE \E v \in VMs : CloseFile(v)
      BY <3>1 DEF CloseFile
    <3>2. CASE \E v \in VMs : Submit(v)
      <4>1. life' = [life EXCEPT ![submitted + 1] = "live"]
        BY <3>2 DEF Submit
      <4>2. next <= submitted + 1
        BY DEF TypeInv, TypeOK, TaskTypes
      <4>. QED  BY <1>0, <4>1, <4>2
    <3>. QED  BY <1>5, <3>1, <3>2
  <2>. QED  BY <2>1, <2>2 DEF ListedInv, Last, Waits
<1>6. CASE ThreadStep
  <2>1. CASE ThreadCleanup
    <3>1. PICK t \in Task : pending' = pending \ {t} /\ FreeJobs({t})
      BY <2>1 DEF ThreadCleanup
    <3>2. UNCHANGED <<next, tdr, tdrTask, currentTask, currentVm, thread, finished>>
      BY <2>1 DEF ThreadCleanup
    <3>3. \A u \in Task : life'[u] = IF u = t THEN "freed" ELSE life[u]
      BY <3>1 DEF FreeJobs
    <3>. QED  BY <3>1, <3>2, <3>3 DEF ListedInv, Last, Waits
  <2>2. CASE ThreadPop
    <3>1. /\ pending' = pending \cup {next} /\ next' = next + 1 /\ thread' = "picked"
          /\ UNCHANGED <<life, tdr, tdrTask, currentTask, currentVm>>
      BY <2>2 DEF ThreadPop
    <3>2. \A t \in Task : t < next' => t < next \/ t = next
      BY <1>0, <3>1
    <3>. QED  BY <3>1, <3>2 DEF ListedInv
  <2>3. CASE ThreadPrepare
    <3>1. /\ thread' = "prepared" /\ currentTask' = Last /\ thread = "picked"
          /\ UNCHANGED <<next, life, pending, tdr, tdrTask>>
      BY <2>3 DEF ThreadPrepare, PrepareRun, Picked, Last
    <3>2. currentTask' # NoTask
      BY <1>0, <3>1 DEF SafeInv, OrderInv, Waits
    <3>. QED  BY <3>1, <3>2 DEF ListedInv
  <2>4. CASE ThreadStart
    <3>1. /\ thread' = "started" /\ thread = "prepared"
          /\ UNCHANGED <<next, life, pending, tdr, tdrTask, currentTask>>
      BY <2>4 DEF ThreadStart
    <3>2. currentTask' # NoTask
      BY <1>0, <3>1 DEF SafeInv, OrderInv, Waits, CalmInv, FenceInv
    <3>. QED  BY <3>1, <3>2 DEF ListedInv
  <2>5. CASE ThreadReturn
    <3>1. /\ thread = "started"
          /\ UNCHANGED <<next, life, pending, tdr, tdrTask, currentTask, currentVm>>
      BY <2>5 DEF ThreadReturn
    <3>2. currentTask' = Last'
      BY <3>1 DEF CalmInv, FenceInv, Last
    <3>. QED  BY <3>1, <3>2 DEF ListedInv
  <2>6. CASE ThreadStartFails
    <3>1. /\ thread = "picked" /\ thread' = "idle" /\ Last' = Last /\ Waits
          /\ UNCHANGED <<next, life, pending, tdr, tdrTask, currentTask, currentVm>>
          /\ \E r \in {"ok", "error"} : finished' = [finished EXCEPT ![Last] = r]
      BY <2>6 DEF ThreadStartFails, JobDone, Outcome, Picked, Last, SafeInv, OrderInv
    <3>2. ~Waits'
      BY <1>0, <3>1 DEF Waits
    <3>. QED  BY <3>1, <3>2 DEF ListedInv
  <2>. QED  BY <1>6, <2>1, <2>2, <2>3, <2>4, <2>5, <2>6 DEF ThreadStep
<1>7. CASE TdrStep
  <2>1. CASE TdrFire
    <3>1. PICK t \in Task : tdrTask' = t /\ pending' = pending \ {t}
      BY <2>1 DEF TdrFire
    <3>2. /\ tdr = "idle" /\ tdr' = "taken"
          /\ UNCHANGED <<next, life, currentTask, currentVm, thread, finished>>
      BY <2>1 DEF TdrFire
    <3>. QED  BY <3>1, <3>2 DEF ListedInv, Last, Waits
  <2>2. CASE TdrStop
    <3>1. /\ tdr = "taken" /\ tdr' = "stopped"
          /\ UNCHANGED <<next, currentTask, currentVm>>
      BY <2>2 DEF TdrStop
    <3>2. tdrTask = Last /\ Waits
      BY <3>1 DEF CalmInv, TdrInv
    <3>3. pending' = {Last}
      BY <2>2, <3>2, StopKeeps DEF SafeInv
    <3>4. FreeJobs(((pending \cup {tdrTask}) \ pending') \ {tdrTask})
      BY <2>2, StopMemory DEF SafeInv
    <3>5. \A t \in Task : life'[t] = "live" => life[t] = "live"
      BY <3>4 DEF FreeJobs
    <3>6. \A t \in Task : life'[t] = "live" /\ t < next => t \in pending'
      BY <3>2, <3>3, <3>5 DEF ListedInv, CalmInv, ListInv
    <3>. QED  BY <3>1, <3>6 DEF ListedInv
  <2>3. CASE TdrReset \/ TdrVmPut \/ TdrResubmitNone
    <3>1. /\ tdr # "taken" /\ tdr' \notin {"idle", "taken", "restarted"}
          /\ UNCHANGED <<next, life, pending, currentTask, currentVm>>
      BY <2>3 DEF TdrReset, TdrVmPut, TdrResubmitNone
    <3>. QED  BY <3>1 DEF ListedInv
  <2>4. CASE TdrClear
    <3>1. /\ tdr = "vmput" /\ tdr' = "cleared" /\ currentVm' = NoVm
          /\ UNCHANGED <<next, life, pending>>
      BY <2>4 DEF TdrClear
    <3>. QED  BY <3>1 DEF ListedInv
  <2>5. CASE TdrResubmit
    <3>1. tdr = "cleared" /\ tdr' = "resubmitted" /\ UNCHANGED <<next, life, pending>>
      BY <2>5 DEF TdrResubmit
    <3>2. currentTask' \in pending
      BY <2>5 DEF TdrResubmit, PrepareRun
    <3>. QED  BY <1>0, <3>1, <3>2 DEF ListedInv
  <2>6. CASE TdrStart
    <3>1. /\ tdr = "resubmitted" /\ tdr' = "restarted"
          /\ UNCHANGED <<next, life, pending, currentTask, currentVm>>
      BY <2>6 DEF TdrStart
    <3>2. pending = {Last} /\ Waits
      BY <3>1, ParkedPending DEF SafeInv, ParkInv, Stopped, CalmInv, TdrInv
    <3>3. ASSUME Waits' PROVE currentTask = Last
      <4>1. finished'[Last] = "no" /\ Last \in Task
        BY <3>1, <3>3 DEF Waits, Last
      <4>2. parent[Last] = "set"
        BY <2>6, <3>2, <4>1 DEF TdrStart, Outcome
      <4>. QED  BY <3>1, <4>2 DEF CalmInv, TdrInv
    <3>. QED  BY <3>1, <3>3 DEF ListedInv, Last
  <2>7. CASE TdrEnd
    <3>1. /\ tdr = "restarted" /\ tdr' = "idle"
          /\ UNCHANGED <<next, pending, currentTask, currentVm, thread, finished>>
      BY <2>7 DEF TdrEnd
    <3>2. FreeJobs(IF freeGuilty THEN {tdrTask} ELSE {}) /\ ~freeGuilty
      BY <2>7 DEF TdrEnd, CalmInv, TdrInv
    <3>3. \A t \in Task : life'[t] = life[t]
      BY <3>2 DEF FreeJobs
    <3>. QED  BY <3>1, <3>3 DEF ListedInv, Last, Waits
  <2>. QED  BY <1>7, <2>1, <2>2, <2>3, <2>4, <2>5, <2>6, <2>7 DEF TdrStep
<1>. QED  BY <1>3, <1>4, <1>5, <1>6, <1>7 DEF Next

LEMMA PollStep ==
  ASSUME Calm, TypeInv, SafeInv, Serving', CalmInv, PollInv, [Next]_vars
  PROVE  PollInv'
BY ClosedStep, KarmaStep, ListedStep DEF PollInv

-----------------------------------------------------------------------------
(***************************************************************************)
(* The teardown after its wait.  One task at most has no result then: it   *)
(* hangs and the teardown gives it up, or the core completed it and the    *)
(* thread has not returned, or it was reset and has no retry left.         *)
(***************************************************************************)
Hung ==
  /\ fini \in {"wedged", "reset"} /\ finiTask = Last /\ currentTask = Last /\ Waits
  /\ fence[Last] = "unsignalled" /\ parent[Last] = "attached"
  /\ Last \in pending /\ thread = "idle" /\ tdr = "idle"

Returns ==
  /\ thread = "started" /\ tdr \in {"idle", "restarted"} /\ Last \in pending
  /\ fence[Last] = "signalled" /\ Last \in executed

Resets ==
  /\ tdr \in {"cleared", "resubmitted"} /\ thread = "idle" /\ Last \in pending
  /\ tdrTask = Last /\ currentTask = NoTask /\ karma[Last] >= 1 /\ parent[Last] # "set"
  /\ tdr = "resubmitted" => Last \in cancelled

\* No file, no queue, no event of the core, and a core that is not idle hangs.
QuietInv ==
  /\ ~Serving /\ submitted = Last /\ vmOpen = {} /\ hangLimit = 0
  /\ thread \in {"idle", "started"} /\ tdr \in {"idle", "cleared", "resubmitted", "restarted"}
  /\ ~intr /\ irq # "entered" /\ ~recover /\ ~freeGuilty
  /\ tdr = "idle" => tdrTask = NoTask
  /\ hw = "idle" => hwTask = NoTask
  /\ ~Unused => /\ fini = "wedged" /\ Hung /\ hw \in StuckHw
                /\ hwTask = Last /\ currentVm = vmOf[Last]

\* What is left to be done gives the task without a result its result.
LeftInv ==
  /\ Waits => Returns \/ Resets \/ Hung
  /\ thread = "started" => Waits /\ Returns
  /\ tdr \in {"cleared", "resubmitted"} => Waits /\ Resets
  /\ \A t \in Task : t < Last => finished[t] # "no"
  /\ \A t \in Task : parent[t] = "attached" /\ fence[t] = "unsignalled" => Hung /\ t = Last

\* What is in use is on the list, which lima_sched_pipe_fini empties.
FreeInv ==
  /\ pending \subseteq {Last}
  /\ \A t \in Task : t <= submitted <=> life[t] # "new"
  /\ \A t \in Task : t <= submitted => vmOf[t] \in VMs
  /\ \A t \in Task : life[t] = "live" <=> t \in pending
  /\ \A t \in Task : life[t] = "freed" => finished[t] # "no"
  /\ fini \in {"stopped", "done"} => pending = {}

\* A task that is given up is recorded; when the pipe is cleared it refers to
\* nothing, and without a task given up no power reference is owed.
DropInv ==
  /\ fini \in {"wedged", "reset"} => finiTask \in Task
  /\ fini \in {"cleared", "stopped", "done"} => currentTask = NoTask /\ currentVm = NoVm
  /\ finiTask = NoTask => \A t \in Task : ~Owed(t)

LateInv == QuietInv /\ LeftInv /\ FreeInv /\ DropInv /\ VmRefsExact /\ Watched

\* The wait ends: what the invariant of a pipe that serves says of that state.
LEMMA WaitEnds ==
  ASSUME Calm, TypeInv, SafeInv, CalmInv, PollInv, FiniIdle \/ FiniGiveUp
  PROVE  /\ fini = "polling" /\ submitted = Last /\ vmOpen = {} /\ hangLimit = 0
         /\ thread \in {"idle", "started"} /\ finiTask = NoTask /\ ~freeGuilty
         /\ UNCHANGED <<taskVars, schedVars, tdrVars, hwVars, irqVars, pipeVars, refVars>>
<1>1. /\ fini = "polling"
      /\ UNCHANGED <<taskVars, schedVars, tdrVars, hwVars, irqVars, pipeVars, refVars>>
  BY DEF FiniIdle, FiniGiveUp
<1>2. vmOpen = {} /\ next > submitted /\ hangLimit = 0 /\ thread \notin {"picked", "prepared"}
  BY <1>1 DEF PollInv, ClosedInv
<1>3. submitted = Last /\ thread \in {"idle", "started"}
  BY <1>2 DEF TypeInv, TypeOK, TaskTypes, PipeTypes, Last
<1>. QED  BY <1>1, <1>2, <1>3 DEF SafeInv, ParkInv, CalmInv, TdrInv

\* A pipe whose wait ends leaves the timeout handler no task but one that is
\* out of retries, and the current task is not in use or does not run, unless
\* the core hangs.
LEMMA WaitEndsQuiet ==
  ASSUME Calm, TypeInv, SafeInv, CalmInv, PollInv, FiniIdle \/ FiniGiveUp
  PROVE  \/ /\ Unused /\ tdr \in {"idle", "cleared", "resubmitted", "restarted"}
            /\ ~(Waits /\ currentTask = Last /\ fence[Last] = "unsignalled")
         \/ /\ Stuck /\ tdr = "idle" /\ FiniGiveUp
<1>0. /\ tdr \in {"idle", "taken", "stopped", "reset", "vmput", "cleared", "resubmitted",
                   "restarted"}
      /\ fence \in [Task -> {"none", "unsignalled", "signalled"}]
      /\ \A t \in Task : t # NoTask
  BY DEF TypeInv, TypeOK, TaskTypes, PipeTypes, Task, NoTask
<1>1. CASE Stuck /\ tdr = "idle" /\ FiniGiveUp
  BY <1>1
<1>2. CASE ~(Stuck /\ tdr = "idle" /\ FiniGiveUp)
  <2>1. ~(Waits /\ currentTask = Last /\ fence[Last] = "unsignalled")
    <3>. SUFFICES ASSUME Waits, currentTask = Last, fence[Last] = "unsignalled" PROVE FALSE
      OBVIOUS
    <3>1. Last \in Task /\ life[Last] = "live"
      BY LastIsLive
    <3>2. ~Dangling /\ InFlight = {TRUE}
      BY <1>0, <3>1 DEF Dangling, InFlight
    <3>3. ~FiniIdle
      BY <3>2 DEF FiniIdle
    <3>. QED  BY <1>2, <3>2, <3>3 DEF FiniGiveUp, Calm
  <2>2. Unused
    BY <2>1 DEF CalmInv, CoreInv, Unused
  <2>3. tdr \notin {"taken", "stopped", "reset", "vmput"}
    BY <2>1 DEF CalmInv, TdrInv, Stopped
  <2>. QED  BY <1>0, <2>1, <2>2, <2>3
<1>. QED  BY <1>1, <1>2

\* The task without a result when the wait ends.
LEMMA WaitEndsLeft ==
  ASSUME Calm, TypeInv, SafeInv, CalmInv, PollInv, FiniIdle \/ FiniGiveUp, Waits
  PROVE  (Returns \/ Resets \/ Hung)'
<1>. USE DEF taskVars, schedVars, tdrVars, pipeVars
<1>0. /\ Last \in Task /\ Last # NoTask /\ life[Last] = "live" /\ hangLimit = 0
      /\ fence \in [Task -> {"none", "unsignalled", "signalled"}] /\ karma \in [Task -> Nat]
      /\ thread \in {"idle", "started"}
      /\ UNCHANGED <<taskVars, schedVars, tdrVars, pipeVars>>
  BY LastIsLive, WaitEnds DEF TypeInv, TypeOK, TaskTypes, Task, NoTask
<1>1. Last' = Last /\ Waits'
  BY <1>0 DEF Last, Waits
<1>2. CASE Stuck /\ tdr = "idle" /\ FiniGiveUp
  <2>1. ~Unused /\ thread = "idle"
    BY <1>2 DEF Stuck, Unused
  <2>2. /\ currentTask = Last /\ fence[Last] = "unsignalled" /\ parent[Last] = "attached"
        /\ Last \in pending
    BY <1>2, <2>1 DEF CalmInv, CoreInv, FenceInv, SafeInv, OrderInv, Unused
  <2>3. fini' = "wedged" /\ finiTask' = currentTask
    BY <1>2 DEF FiniGiveUp
  <2>. QED  BY <1>0, <1>1, <1>2, <2>1, <2>2, <2>3 DEF Hung
<1>3. CASE /\ tdr \in {"idle", "cleared", "resubmitted", "restarted"}
           /\ ~(currentTask = Last /\ fence[Last] = "unsignalled")
  <2>1. Last \in pending
    BY <1>3 DEF SafeInv, OrderInv
  <2>2. CASE thread = "started"
    <3>1. currentTask = Last /\ fence[Last] # "none" /\ ~parked
      BY <2>2 DEF CalmInv, FenceInv, SafeInv, ParkInv
    <3>2. fence[Last] = "signalled" /\ Last \in executed
      BY <1>0, <1>3, <3>1 DEF CalmInv, FenceInv
    <3>3. tdr \in {"idle", "restarted"}
      BY <1>3, <3>1 DEF SafeInv, ParkInv, Stopped
    <3>. QED  BY <1>0, <1>1, <2>1, <2>2, <3>2, <3>3 DEF Returns
  <2>3. CASE thread = "idle"
    <3>1. tdr \in {"cleared", "resubmitted"}
      BY <1>3, <2>3 DEF CalmInv, FenceInv, PollInv, ListedInv
    <3>2. karma[Last] >= 1 /\ tdrTask = Last
      BY <3>1 DEF PollInv, KarmaInv, CalmInv, TdrInv, Stopped
    <3>3. ~(tdr = "resubmitted" /\ currentTask = Last)
      BY <1>0, <3>2 DEF PollInv, KarmaInv
    <3>4. /\ currentTask = NoTask /\ parent[Last] # "set"
          /\ tdr = "resubmitted" => Last \in cancelled
      BY <3>1, <3>3 DEF CalmInv, TdrInv
    <3>. QED  BY <1>0, <1>1, <2>1, <2>3, <3>1, <3>2, <3>4 DEF Resets
  <2>. QED  BY <1>0, <2>2, <2>3
<1>. QED  BY <1>2, <1>3, WaitEndsQuiet

\* The end of the wait establishes the invariant of the teardown.
LEMMA TeardownBegins ==
  ASSUME Calm, TypeInv, TypeInv', SafeInv, CalmInv, PollInv, [Next]_vars, FiniIdle \/ FiniGiveUp
  PROVE  LateInv'
<1>. USE DEF taskVars, schedVars, tdrVars, hwVars, irqVars, pipeVars, refVars
<1>0. /\ fini = "polling" /\ submitted = Last /\ vmOpen = {} /\ hangLimit = 0
      /\ thread \in {"idle", "started"} /\ finiTask = NoTask /\ ~freeGuilty
      /\ UNCHANGED <<taskVars, schedVars, tdrVars, hwVars, irqVars, pipeVars, refVars>>
  BY WaitEnds
<1>1. Last' = Last /\ (Waits' <=> Waits) /\ UNCHANGED hangLimit
  BY <1>0 DEF Last, Waits, Next, vars
<1>2. fini' \in {"wedged", "drop", "cleared"} /\ ~Serving'
  BY DEF FiniIdle, FiniGiveUp, Serving
<1>3. Waits => (Returns \/ Resets \/ Hung)'
  BY WaitEndsLeft
<1>4. /\ next \in Nat /\ pending \subseteq Task /\ \A t \in Task : t # NoTask /\ t \in Int
      /\ life \in [Task -> {"new", "live", "freed"}] /\ currentTask \in Task \cup {NoTask}
      /\ fence \in [Task -> {"none", "unsignalled", "signalled"}]
      /\ parent \in [Task -> {"none", "set", "attached"}]
  BY DEF TypeInv, TypeOK, TaskTypes, PipeTypes, Task, NoTask
<1>5. tdr \in {"idle", "cleared", "resubmitted", "restarted"}
  BY WaitEndsQuiet
<1>6. QuietInv'
  <2>1. CASE Unused
    <3>1. ~intr /\ irq # "entered" /\ ~recover /\ (hw = "idle" => hwTask = NoTask)
      BY <2>1 DEF CalmInv, CoreInv, EventInv, Unused
    <3>2. tdr = "idle" => tdrTask = NoTask
      BY DEF CalmInv, TdrInv
    <3>. QED  BY <1>0, <1>1, <1>2, <1>5, <2>1, <3>1, <3>2 DEF QuietInv, Unused
  <2>2. CASE Stuck /\ tdr = "idle" /\ FiniGiveUp
    <3>1. /\ hw \in StuckHw /\ ~intr /\ irq # "entered" /\ ~recover /\ ~Unused
          /\ thread = "idle"
      BY <2>2 DEF Stuck, StuckHw, Unused
    <3>2. Waits /\ hwTask = Last /\ currentVm = vmOf[Last]
      BY <3>1 DEF CalmInv, CoreInv, Unused
    <3>3. Hung'
      BY <1>0, <1>3, <2>2, <3>1, <3>2 DEF Returns, Resets
    <3>4. fini' = "wedged" /\ tdrTask = NoTask
      BY <2>2 DEF FiniGiveUp, CalmInv, TdrInv
    <3>. QED  BY <1>0, <1>1, <1>2, <2>2, <3>1, <3>2, <3>3, <3>4 DEF QuietInv, Unused
  <2>. QED  BY <2>1, <2>2, WaitEndsQuiet
<1>7. LeftInv'
  <2>1. thread = "started" => Waits
    BY DEF SafeInv, OrderInv
  <2>2. tdr \in {"cleared", "resubmitted"} => Waits
    BY DEF CalmInv, TdrInv, Stopped
  <2>3. \A t \in Task : t < Last => finished[t] # "no"
    BY DEF SafeInv, OrderInv
  <2>4. ASSUME NEW t \in Task, parent[t] = "attached", fence[t] = "unsignalled"
        PROVE  Hung' /\ t = Last
    <3>1. finished[t] = "no" /\ t = Last /\ ~parked /\ Waits
      BY <2>4 DEF SafeInv, OrderInv, Waits
    <3>2. ~Returns' /\ ~Resets'
      BY <1>0, <1>1, <2>4, <3>1 DEF Returns, Resets, SafeInv, ParkInv, Stopped
    <3>. QED  BY <1>3, <3>1, <3>2
  <2>5. thread = "started" => Returns'
    BY <1>0, <1>3, <2>1 DEF Resets, Hung
  <2>6. tdr \in {"cleared", "resubmitted"} => Resets'
    BY <1>0, <1>3, <2>2 DEF Returns, Hung
  <2>. QED  BY <1>0, <1>1, <1>3, <2>1, <2>2, <2>3, <2>4, <2>5, <2>6 DEF LeftInv
<1>8. FreeInv'
  <2>1. pending \subseteq {Last} /\ \A t \in Task : life[t] = "freed" => finished[t] # "no"
    BY DEF CalmInv, ListInv
  <2>2. /\ \A t \in Task : t <= submitted <=> life[t] # "new"
        /\ \A t \in Task : t <= submitted => vmOf[t] \in VMs
        /\ \A t \in pending : life[t] = "live"
    BY DEF SafeInv, MemoryInv
  <2>3. \A t \in Task : life[t] = "live" => t \in pending
    <3>1. \A t \in Task : t <= submitted => t < next
      BY <1>0, <1>4 DEF Last
    <3>. QED  BY <1>5, <2>2, <3>1 DEF PollInv, ListedInv
  <2>. QED  BY <1>0, <1>1, <1>2, <2>1, <2>2, <2>3 DEF FreeInv
<1>9. DropInv'
  <2>1. CASE FiniIdle
    <3>1. fini' = (IF currentTask # NoTask THEN "drop" ELSE "cleared") /\ finiTask' = finiTask
      BY <2>1 DEF FiniIdle
    <3>2. currentTask = NoTask => currentVm = NoVm
      BY DEF PollInv, ListedInv
    <3>3. \A t \in Task : ~Owed(t)
      <4>1. ASSUME NEW t \in Task, Owed(t) PROVE FALSE
        <5>1. currentTask # NoTask /\ ~Dangling /\ fence[currentTask] = "unsignalled"
          BY <1>4, <4>1 DEF Owed, Dangling
        <5>. QED  BY <2>1, <5>1 DEF FiniIdle, InFlight
      <4>. QED  BY <4>1
    <3>. QED  BY <1>0, <3>1, <3>2, <3>3 DEF DropInv, Owed
  <2>2. CASE FiniGiveUp
    <3>1. fini' = "wedged" /\ finiTask' = currentTask
      BY <2>2 DEF FiniGiveUp
    <3>2. currentTask # NoTask
      BY <2>2 DEF FiniGiveUp, InFlight
    <3>. QED  BY <1>4, <3>1, <3>2 DEF DropInv
  <2>. QED  BY <2>1, <2>2
<1>10. VmRefsExact'
  <2>1. VmRefsExact
    BY DEF SafeInv
  <2>2. fini # "vmput" /\ fini' # "vmput"
    BY <1>0, <1>2
  <2>. QED  BY <1>0, <2>1, <2>2 DEF VmRefsExact
<1>11. Watched'
  BY <1>0, <1>2 DEF SafeInv, Watched
<1>. QED  BY <1>6, <1>7, <1>8, <1>9, <1>10, <1>11 DEF LateInv

\* All that still happens in a teardown after its wait.
LateStep ==
  \/ ThreadCleanup \/ ThreadReturn \/ IrqPmIdle
  \/ TdrResubmitNone \/ TdrStart \/ TdrEnd
  \/ FiniReset \/ FiniSignal \/ FiniVmPut \/ FiniClear \/ FiniStop \/ FiniEnd

LEMMA LateSteps ==
  ASSUME Calm, TypeInv, LateInv, [Next]_vars
  PROVE  LateStep \/ UNCHANGED vars
<1>0. QuietInv /\ ~Serving
  BY DEF LateInv, QuietInv, Unused
<1>1. \A v \in VMs : ~Submit(v) /\ ~CloseFile(v)
  BY <1>0 DEF QuietInv, Submit, CloseFile, Serving, Unused
<1>2. ThreadStep => ThreadCleanup \/ ThreadReturn
  <2>1. next \in Nat /\ submitted = next - 1
    BY <1>0 DEF QuietInv, Last, TypeInv, TypeOK, TaskTypes, Unused
  <2>2. ~ThreadPop
    BY <2>1 DEF ThreadPop
  <2>3. ~ThreadPrepare /\ ~ThreadStart /\ ~ThreadStartFails
    BY <1>0 DEF QuietInv, ThreadPrepare, ThreadStart, ThreadStartFails, Unused
  <2>. QED  BY <2>2, <2>3 DEF ThreadStep
<1>3. ~HwStep
  <2>1. hw # "busy"
    BY <1>0 DEF QuietInv, StuckHw, Unused
  <2>. QED  BY <2>1 DEF HwStep, HwEvent, Working, Calm
<1>4. IrqStep => IrqPmIdle
  BY <1>0 DEF QuietInv, IrqStep, IrqEnter, IrqTaskError, IrqTaskDone, IrqTaskDoneBadPointer, Unused
<1>5. ~RecoverStep
  BY <1>0 DEF QuietInv, RecoverStep, RecoverGrows, RecoverBadPointer, Unused
<1>6. TdrStep => TdrResubmitNone \/ TdrStart \/ TdrEnd
  <2>1. ~TdrFire
    BY <1>0 DEF TdrFire, Calm, Serving
  <2>2. ~TdrStop /\ ~TdrReset /\ ~TdrVmPut /\ ~TdrClear
    BY <1>0 DEF QuietInv, TdrStop, TdrReset, TdrVmPut, TdrClear, Unused
  <2>3. ~TdrResubmit
    <3>1. ASSUME tdr = "cleared", NEW t \in pending PROVE ~(karma[t] <= hangLimit)
      <4>1. t = Last /\ karma[Last] >= 1 /\ hangLimit = 0 /\ karma[Last] \in Nat
        BY <3>1, <1>0 DEF LateInv, FreeInv, LeftInv, Resets, QuietInv, TypeInv, TypeOK, TaskTypes, Unused
      <4>. QED  BY <4>1
    <3>. QED  BY <3>1 DEF TdrResubmit
  <2>. QED  BY <2>1, <2>2, <2>3 DEF TdrStep
<1>7. FiniStep => FiniReset \/ FiniSignal \/ FiniVmPut \/ FiniClear \/ FiniStop \/ FiniEnd
  BY <1>0 DEF FiniStep, FiniBegin, FiniIdle, FiniGiveUp, Serving
<1>. QED  BY <1>1, <1>2, <1>3, <1>4, <1>5, <1>6, <1>7 DEF Next, LateStep

\* None of it submits, starts or takes a task, or makes the core work.
LEMMA LateKeeps ==
  ASSUME TypeInv', LateStep, UNCHANGED hangLimit
  PROVE  /\ UNCHANGED <<submitted, next, vmOf, karma, executed, vmOpen, hangLimit, recover>>
         /\ Last' = Last /\ (irq' = irq \/ irq' = "none") /\ (intr' => intr)
<1>. USE DEF taskVars, hwVars, irqVars, refVars
<1>1. CASE ThreadCleanup \/ ThreadReturn \/ IrqPmIdle
  BY <1>1 DEF ThreadCleanup, ThreadReturn, IrqPmIdle, Last
<1>2. CASE TdrResubmitNone \/ TdrStart \/ TdrEnd
  BY <1>2 DEF TdrResubmitNone, TdrStart, TdrEnd, Last
<1>3. CASE FiniReset \/ FiniSignal \/ FiniVmPut \/ FiniClear \/ FiniStop \/ FiniEnd
  BY <1>3 DEF FiniReset, HardReset, FiniSignal, FiniVmPut, FiniClear, FiniStop, FiniEnd, Last
<1>. QED  BY <1>1, <1>2, <1>3 DEF LateStep

\* The list, when it is not empty, is the last task, and lima_sched_free_job is
\* called for it only when it has its result.
LEMMA LateCleanup ==
  ASSUME TypeInv, LateInv, ThreadCleanup
  PROVE  /\ pending = {Last} /\ pending' = {} /\ Last \in Task /\ ~Waits /\ finished[Last] # "no"
         /\ FreeJobs({Last}) /\ life[Last] = "live"
<1>1. PICK t \in Task : t \in pending /\ finished[t] # "no" /\ pending' = pending \ {t} /\ FreeJobs({t})
  BY DEF ThreadCleanup, Reapable, IsHead
<1>2. t = Last /\ life[t] = "live" /\ pending = {Last}
  BY <1>1 DEF LateInv, FreeInv
<1>. QED  BY <1>1, <1>2 DEF Waits

\* drm_sched_stop finds results for all that is on the list, and frees it.
LEMMA LateStop ==
  ASSUME TypeInv, LateInv, FiniStop
  PROVE  /\ ~Waits /\ pending' = {} /\ FreeJobs(pending)
         /\ \A t \in Task : parent'[t] = parent[t]
         /\ \A t \in pending : finished[t] # "no" /\ life[t] = "live"
<1>1. fini = "cleared" /\ thread = "idle"
  BY DEF FiniStop, StopScheduler
<1>2. ~Hung /\ pending \subseteq Task
  BY <1>1 DEF Hung, TypeInv, TypeOK, TaskTypes
<1>3. Detachable(pending) = {}
  BY <1>2 DEF LateInv, LeftInv, Detachable
<1>4. /\ pending' = {} /\ \A t \in pending \ {} : finished[t] # "no"
      /\ FreeJobs((pending \ {}) \ {NoTask})
      /\ parent' = [t \in Task |-> IF t \in {} THEN "none" ELSE parent[t]]
  BY <1>3 DEF FiniStop, StopScheduler
<1>5. (pending \ {}) \ {NoTask} = pending
  BY <1>2 DEF Task, NoTask
<1>6. ~Waits
  <2>1. Waits => Last \in pending
    BY <1>1, <1>2 DEF LateInv, LeftInv, Returns, Resets
  <2>. QED  BY <1>4, <2>1 DEF Waits
<1>. QED  BY <1>2, <1>4, <1>5, <1>6 DEF LateInv, FreeInv

\* drm_sched_start gives the cancelled task its result.
LEMMA LateStart ==
  ASSUME TypeInv, LateInv, TdrStart
  PROVE  /\ Waits /\ parent' = parent /\ finished' = [finished EXCEPT ![Last] = "error"]
<1>1. Waits /\ Resets /\ Last \in Task /\ Last \in cancelled /\ pending = {Last}
  BY DEF TdrStart, LateInv, LeftInv, FreeInv, Resets, Waits
<1>2. {t \in pending : parent[t] = "set" /\ fence[t] = "unsignalled"} = {}
  BY <1>1 DEF Resets
<1>3. /\ parent' = [t \in Task |-> IF t \in {} THEN "attached" ELSE parent[t]]
      /\ finished' = [t \in Task |->
            IF t \in pending \ {} THEN Outcome(t, "ok") ELSE finished[t]]
  BY <1>2 DEF TdrStart
<1>4. Outcome(Last, "ok") = "error"
  BY <1>1 DEF Outcome
<1>5. /\ finished \in [Task -> {"no", "ok", "error"}]
      /\ parent \in [Task -> {"none", "set", "attached"}]
  BY DEF TypeInv, TypeOK, TaskTypes
<1>6. parent' = parent
  BY <1>3, <1>5
<1>7. finished' = [t \in Task |-> IF t = Last THEN "error" ELSE finished[t]]
  BY <1>1, <1>3, <1>4
<1>. QED  BY <1>1, <1>5, <1>6, <1>7

\* The thread returns with the fence of a task the core completed.
LEMMA LateReturn ==
  ASSUME TypeInv, LateInv, ThreadReturn
  PROVE  /\ Waits /\ Returns /\ parent' = [parent EXCEPT ![Last] = "set"]
         /\ finished' = [finished EXCEPT ![Last] = Outcome(Last, "ok")]
<1>1. Waits /\ Returns
  BY DEF ThreadReturn, LateInv, LeftInv
<1>. QED  BY <1>1 DEF ThreadReturn, Returns, Picked, Last, JobDone

\* lima_sched_pipe_fini signals the fence of the task that hangs, or one that
\* nobody waits for.
LEMMA LateSignal ==
  ASSUME TypeInv, LateInv, FiniSignal
  PROVE  /\ finiTask \in Task /\ fence' = [fence EXCEPT ![finiTask] = "signalled"]
         /\ IF Hung THEN Waits /\ finished' = [finished EXCEPT ![Last] = "error"]
                    ELSE UNCHANGED finished
<1>1. finiTask \in Task /\ fini = "reset"
  BY DEF FiniSignal, LateInv, DropInv
<1>2. Hung <=> fence[finiTask] = "unsignalled" /\ parent[finiTask] = "attached"
  BY <1>1 DEF Hung, LateInv, LeftInv
<1>3. fence' = [fence EXCEPT ![finiTask] = "signalled"]
  BY DEF FiniSignal, SignalFence
<1>4. CASE Hung
  <2>1. finiTask = Last /\ Waits
    BY <1>4 DEF Hung
  <2>2. JobDone(Last, "error")
    BY <1>2, <1>4, <2>1 DEF FiniSignal, SignalFence
  <2>3. Outcome(Last, "error") = "error"
    BY DEF Outcome
  <2>. QED  BY <1>1, <1>3, <1>4, <2>1, <2>2, <2>3 DEF JobDone
<1>5. CASE ~Hung
  BY <1>1, <1>2, <1>3, <1>5 DEF FiniSignal, SignalFence
<1>. QED  BY <1>4, <1>5

\* A late step gives no result, or the one that is due.
LEMMA LateResult ==
  ASSUME TypeInv, LateInv, LateStep
  PROVE  \/ UNCHANGED finished
         \/ /\ Waits /\ UNCHANGED <<submitted, next>>
            /\ \E r \in {"ok", "error"} : /\ finished' = [finished EXCEPT ![Last] = r]
                                          /\ r = "ok" => Last \in executed
<1>. USE DEF taskVars
<1>1. CASE ThreadReturn
  <2>1. Outcome(Last, "ok") \in {"ok", "error"}
    BY DEF Outcome
  <2>. QED  BY <1>1, <2>1, LateReturn DEF ThreadReturn, Returns
<1>2. CASE TdrStart
  BY <1>2, LateStart DEF TdrStart
<1>3. CASE FiniSignal
  BY <1>3, LateSignal DEF FiniSignal
<1>4. CASE ThreadCleanup \/ IrqPmIdle \/ TdrResubmitNone \/ TdrEnd
  BY <1>4 DEF ThreadCleanup, IrqPmIdle, TdrResubmitNone, TdrEnd
<1>5. CASE FiniReset \/ FiniVmPut \/ FiniClear \/ FiniStop \/ FiniEnd
  BY <1>5 DEF FiniReset, FiniVmPut, FiniClear, FiniStop, FiniEnd
<1>. QED  BY <1>1, <1>2, <1>3, <1>4, <1>5 DEF LateStep

\* A result that is out stays out.
LEMMA LateOrder ==
  ASSUME TypeInv, TypeInv', LateInv, LateStep, UNCHANGED hangLimit
  PROVE  /\ Last' = Last /\ (Waits' => Waits)
         /\ \A t \in Task : finished[t] # "no" => finished'[t] # "no"
<1>1. finished \in [Task -> {"no", "ok", "error"}]
  BY DEF TypeInv, TypeOK, TaskTypes
<1>2. Last' = Last
  BY LateKeeps
<1>3. \A t \in Task : finished[t] # "no" => finished'[t] # "no"
  BY <1>1, LateResult
<1>. QED  BY <1>2, <1>3 DEF Waits

\* The task that hangs keeps doing so until its fence is signalled.
LEMMA StillHung ==
  ASSUME TypeInv, TypeInv', LateInv, LateStep, UNCHANGED hangLimit, Hung
  PROVE  Hung' \/ (FiniSignal /\ ~Waits')
<1>. USE DEF taskVars, schedVars, tdrVars, pipeVars, finiVars
<1>0. /\ fini \in {"wedged", "reset"} /\ thread = "idle" /\ tdr = "idle" /\ Waits /\ Last' = Last
      /\ Last \in Task
  BY LateKeeps DEF Hung, Waits
<1>1. CASE FiniReset
  <2>1. /\ fini' = "reset"
        /\ UNCHANGED <<taskVars, schedVars, tdrVars, pipeVars, finiTask>>
    BY <1>1 DEF FiniReset
  <2>. QED  BY <1>0, <2>1 DEF Hung, Waits
<1>2. CASE FiniSignal
  <2>1. finished' = [finished EXCEPT ![Last] = "error"]
    BY <1>2, LateSignal
  <2>2. finished \in [Task -> {"no", "ok", "error"}]
    BY DEF TypeInv, TypeOK, TaskTypes
  <2>. QED  BY <1>0, <1>2, <2>1, <2>2 DEF Waits
<1>3. CASE IrqPmIdle
  <2>1. UNCHANGED <<taskVars, schedVars, tdrVars, pipeVars, finiVars>>
    BY <1>3 DEF IrqPmIdle
  <2>. QED  BY <1>0, <2>1 DEF Hung, Waits
<1>4. ~ThreadCleanup
  BY <1>0, LateCleanup
<1>5. ~ThreadReturn /\ ~TdrResubmitNone /\ ~TdrStart /\ ~TdrEnd
  BY <1>0 DEF ThreadReturn, TdrResubmitNone, TdrStart, TdrEnd
<1>6. ~FiniVmPut /\ ~FiniClear /\ ~FiniStop /\ ~FiniEnd
  BY <1>0 DEF FiniVmPut, FiniClear, FiniStop, FiniEnd
<1>. QED  BY <1>1, <1>2, <1>3, <1>4, <1>5, <1>6 DEF LateStep

LEMMA LateQuiet ==
  ASSUME Calm, TypeInv, TypeInv', LateInv, LateStep, [Next]_vars
  PROVE  QuietInv'
<1>. USE DEF taskVars, schedVars, tdrVars, hwVars, irqVars, pipeVars, refVars, finiVars
<1>0. /\ UNCHANGED <<submitted, next, vmOf, vmOpen, hangLimit, recover>> /\ Last' = Last
      /\ (irq' = irq \/ irq' = "none") /\ (intr' => intr)
  <2>1. UNCHANGED hangLimit
    BY DEF Next, vars
  <2>. QED  BY <2>1, LateKeeps
<1>1. ~Serving'
  BY ServedBefore DEF LateInv, QuietInv, Unused
<1>2. /\ thread' \in {"idle", "started"} /\ ~freeGuilty'
      /\ tdr' \in {"idle", "cleared", "resubmitted", "restarted"}
      /\ tdr' = "idle" => tdrTask' = NoTask
  <2>1. CASE ThreadReturn
    BY <2>1 DEF ThreadReturn, LateInv, QuietInv, Unused
  <2>2. CASE TdrResubmitNone
    BY <2>2 DEF TdrResubmitNone, LateInv, QuietInv, Unused
  <2>3. CASE TdrStart
    BY <2>3 DEF TdrStart, LateInv, QuietInv, Unused
  <2>4. CASE TdrEnd
    BY <2>4 DEF TdrEnd, LateInv, QuietInv, Unused
  <2>5. CASE ThreadCleanup \/ IrqPmIdle \/ FiniReset \/ FiniSignal \/ FiniVmPut \/ FiniClear
             \/ FiniStop \/ FiniEnd
    <3>1. UNCHANGED <<thread, tdrVars>>
      BY <2>5 DEF ThreadCleanup, IrqPmIdle, FiniReset, FiniSignal, FiniVmPut, FiniClear,
                  FiniStop, FiniEnd
    <3>. QED  BY <3>1 DEF LateInv, QuietInv, Unused
  <2>. QED  BY <2>1, <2>2, <2>3, <2>4, <2>5 DEF LateStep
<1>3. /\ hw' = "idle" => hwTask' = NoTask
      /\ ~Unused' => /\ fini' = "wedged" /\ Hung' /\ hw' \in StuckHw
                     /\ hwTask' = Last' /\ currentVm' = vmOf'[Last']
  <2>1. CASE FiniReset
    BY <2>1 DEF FiniReset, HardReset, Unused, LateInv, QuietInv
  <2>2. CASE ~FiniReset
    <3>1. UNCHANGED <<hw, hwTask>>
      BY <2>2 DEF LateStep, ThreadCleanup, ThreadReturn, IrqPmIdle, TdrResubmitNone, TdrStart,
                  TdrEnd, FiniSignal, FiniVmPut, FiniClear, FiniStop, FiniEnd
    <3>2. CASE Unused
      BY <3>1, <3>2 DEF LateInv, QuietInv, Unused
    <3>3. CASE ~Unused
      <4>1. fini = "wedged" /\ Hung /\ hw \in StuckHw /\ hwTask = Last /\ currentVm = vmOf[Last]
        BY <3>3 DEF LateInv, QuietInv, Unused
      <4>2. ~FiniSignal /\ ~FiniVmPut /\ ~FiniClear /\ ~FiniStop /\ ~FiniEnd
        BY <4>1 DEF FiniSignal, FiniVmPut, FiniClear, FiniStop, FiniEnd
      <4>3. Hung'
        BY <1>0, <4>1, <4>2, StillHung
      <4>4. UNCHANGED <<fini, currentVm>>
        BY <2>2, <4>2 DEF LateStep, ThreadCleanup, ThreadReturn, IrqPmIdle, TdrResubmitNone,
                          TdrStart, TdrEnd
      <4>5. Last' = Last /\ vmOf' = vmOf
        BY <1>0
      <4>6. hwTask' = Last' /\ currentVm' = vmOf'[Last']
        <5>1. currentVm' = vmOf[Last] /\ hwTask' = Last
          BY <3>1, <4>1, <4>4
        <5>. QED  BY <4>5, <5>1, Zenon
      <4>7. fini' = "wedged" /\ hw' \in StuckHw /\ hw' = hw
        BY <3>1, <3>3, <4>1, <4>4
      <4>. QED  BY <3>3, <4>3, <4>6, <4>7 DEF Unused
    <3>. QED  BY <3>2, <3>3
  <2>. QED  BY <2>1, <2>2
<1>. QED  BY <1>0, <1>1, <1>2, <1>3 DEF QuietInv, LateInv, Unused

LEMMA LateLeft ==
  ASSUME Calm, TypeInv, TypeInv', LateInv, LateStep, UNCHANGED hangLimit
  PROVE  LeftInv'
<1>. USE DEF taskVars, schedVars, tdrVars, hwVars, irqVars, pipeVars, refVars, finiVars
<1>0. /\ Last' = Last /\ (Waits' => Waits) /\ UNCHANGED <<executed, karma, next>>
      /\ \A t \in Task : finished[t] # "no" => finished'[t] # "no"
      /\ parent \in [Task -> {"none", "set", "attached"}]
      /\ fence \in [Task -> {"none", "unsignalled", "signalled"}]
      /\ finished \in [Task -> {"no", "ok", "error"}]
      /\ \A t \in Task : t # NoTask
  <2>1. UNCHANGED <<executed, karma, next>>
    BY LateKeeps
  <2>2. /\ Last' = Last /\ (Waits' => Waits)
        /\ \A t \in Task : finished[t] # "no" => finished'[t] # "no"
    BY LateOrder
  <2>. QED  BY <2>1, <2>2 DEF TypeInv, TypeOK, TaskTypes, Task, NoTask
<1>1. \A t \in Task : t < Last' => finished'[t] # "no"
  BY <1>0 DEF LateInv, LeftInv
<1>2. ASSUME UNCHANGED <<thread, tdr, tdrTask, fence, parent, finished>>, cancelled \subseteq cancelled',
             pending' = pending \/ ~Waits, currentTask' = currentTask \/ currentTask' = NoTask,
             Hung => Hung'
      PROVE  LeftInv'
  <2>1. Waits' <=> Waits
    BY <1>0, <1>2 DEF Waits
  <2>2. Waits /\ Returns => Returns'
    BY <1>0, <1>2 DEF Returns
  <2>3. Waits /\ Resets => Resets'
    BY <1>0, <1>2 DEF Resets
  <2>. QED  BY <1>0, <1>1, <1>2, <2>1, <2>2, <2>3 DEF LateInv, LeftInv
<1>3. CASE ThreadCleanup
  <2>1. ~Waits /\ UNCHANGED <<thread, tdr, tdrTask, fence, parent, finished, cancelled, currentTask>>
    BY <1>3, LateCleanup DEF ThreadCleanup
  <2>. QED  BY <1>2, <2>1 DEF Hung
<1>4. CASE ThreadReturn
  <2>1. /\ Waits /\ Returns /\ parent' = [parent EXCEPT ![Last] = "set"] /\ thread' = "idle"
        /\ finished' = [finished EXCEPT ![Last] = Outcome(Last, "ok")]
        /\ UNCHANGED <<fence, tdr>>
    BY <1>4, LateReturn DEF ThreadReturn
  <2>2. Outcome(Last, "ok") # "no" /\ Last \in Task
    BY <2>1 DEF Outcome, Waits
  <2>3. ~Waits'
    BY <1>0, <2>1, <2>2 DEF Waits
  <2>4. \A t \in Task : ~(parent'[t] = "attached" /\ fence'[t] = "unsignalled")
    BY <1>0, <2>1, <2>2 DEF LateInv, LeftInv, Returns, Hung
  <2>5. tdr' \notin {"cleared", "resubmitted"}
    BY <2>1 DEF Returns
  <2>. QED  BY <1>1, <2>1, <2>3, <2>4, <2>5 DEF LeftInv
<1>5. CASE IrqPmIdle
  <2>1. UNCHANGED <<taskVars, schedVars, tdrVars, pipeVars, finiVars>>
    BY <1>5 DEF IrqPmIdle
  <2>. QED  BY <1>0, <1>2, <2>1 DEF Hung, Waits
<1>6. CASE TdrResubmitNone
  <2>1. /\ tdr = "cleared" /\ tdr' = "resubmitted"
        /\ cancelled' = cancelled \cup {t \in pending : karma[t] > hangLimit}
        /\ UNCHANGED <<fence, parent, finished, pending, thread, tdrTask, currentTask>>
    BY <1>6 DEF TdrResubmitNone
  <2>2. Waits /\ Resets
    BY <2>1 DEF LateInv, LeftInv
  <2>3. karma[Last] > hangLimit
    BY <2>2 DEF LateInv, QuietInv, Resets, TypeInv, TypeOK, TaskTypes, Waits, Unused
  <2>4. Waits' /\ Resets'
    BY <1>0, <2>1, <2>2, <2>3 DEF Resets, Waits
  <2>5. \A t \in Task : ~(parent[t] = "attached" /\ fence[t] = "unsignalled")
    BY <2>1 DEF LateInv, LeftInv, Hung
  <2>. QED  BY <1>1, <2>1, <2>2, <2>4, <2>5 DEF LeftInv, Resets
<1>7. CASE TdrStart
  <2>1. /\ tdr = "resubmitted" /\ tdr' = "restarted"
        /\ UNCHANGED <<fence, thread>>
    BY <1>7 DEF TdrStart
  <2>2. Waits /\ parent' = parent /\ finished' = [finished EXCEPT ![Last] = "error"]
    BY <1>7, LateStart
  <2>3. ~Waits'
    BY <1>0, <2>2 DEF Waits
  <2>4. thread = "idle"
    BY <2>1 DEF LateInv, LeftInv, Resets
  <2>5. \A t \in Task : ~(parent[t] = "attached" /\ fence[t] = "unsignalled")
    BY <2>1 DEF LateInv, LeftInv, Hung
  <2>. QED  BY <1>1, <2>1, <2>2, <2>3, <2>4, <2>5 DEF LeftInv
<1>8. CASE TdrEnd
  <2>1. /\ tdr = "restarted" /\ tdr' = "idle"
        /\ UNCHANGED <<thread, fence, parent, finished, pending>>
    BY <1>8 DEF TdrEnd
  <2>2. Waits' <=> Waits
    BY <1>0, <2>1 DEF Waits
  <2>3. Waits => Returns
    BY <2>1 DEF LateInv, LeftInv, Resets, Hung
  <2>4. Returns => Returns'
    BY <1>0, <2>1 DEF Returns
  <2>5. \A t \in Task : ~(parent[t] = "attached" /\ fence[t] = "unsignalled")
    BY <2>1 DEF LateInv, LeftInv, Hung
  <2>. QED  BY <1>1, <2>1, <2>2, <2>3, <2>4, <2>5 DEF LateInv, LeftInv
<1>9. CASE FiniReset
  <2>1. UNCHANGED <<taskVars, schedVars, tdrVars, pipeVars>> /\ ~FiniSignal
    BY <1>9 DEF FiniReset, FiniSignal
  <2>2. Hung => Hung'
    BY <2>1, StillHung
  <2>. QED  BY <1>2, <2>1, <2>2
<1>10. CASE FiniSignal
  <2>1. /\ finiTask \in Task /\ fence' = [fence EXCEPT ![finiTask] = "signalled"]
        /\ IF Hung THEN Waits /\ finished' = [finished EXCEPT ![Last] = "error"]
                   ELSE UNCHANGED finished
    BY <1>10, LateSignal
  <2>2. UNCHANGED <<parent, pending, thread, tdr, tdrTask, currentTask, cancelled>>
    BY <1>10 DEF FiniSignal
  <2>3. \A t \in Task : /\ fence[t] = "signalled" => fence'[t] = "signalled"
                        /\ fence'[t] = "unsignalled" => fence[t] = "unsignalled" /\ t # finiTask
    BY <1>0, <2>1
  <2>4. \A t \in Task : ~(parent[t] = "attached" /\ fence'[t] = "unsignalled")
    BY <2>3 DEF LateInv, LeftInv, Hung
  <2>5. Hung => ~Waits'
    BY <1>0, <2>1 DEF Waits
  <2>6. ASSUME Waits' PROVE Returns' \/ Resets'
    <3>1. Waits /\ Last \in Task /\ (Returns \/ Resets)
      BY <1>0, <2>5, <2>6 DEF LateInv, LeftInv, Waits
    <3>. QED  BY <1>0, <2>2, <2>3, <3>1 DEF Returns, Resets
  <2>7. thread = "started" \/ tdr \in {"cleared", "resubmitted"} => Waits'
    <3>1. ASSUME thread = "started" \/ tdr \in {"cleared", "resubmitted"} PROVE Waits /\ ~Hung
      BY <3>1 DEF LateInv, LeftInv, Hung
    <3>. QED  BY <1>0, <2>1, <3>1 DEF Waits
  <2>8. (thread = "started" => ~Resets') /\ (tdr \in {"cleared", "resubmitted"} => ~Returns')
    BY <2>2 DEF Returns, Resets
  <2>. QED  BY <1>1, <2>2, <2>4, <2>6, <2>7, <2>8 DEF LeftInv
<1>11. CASE FiniVmPut \/ FiniClear \/ FiniEnd
  <2>1. /\ ~Hung /\ UNCHANGED <<taskVars, pending, thread, tdrVars>>
        /\ currentTask' = currentTask \/ currentTask' = NoTask
    BY <1>11 DEF FiniVmPut, FiniClear, FiniEnd, Hung
  <2>. QED  BY <1>2, <2>1
<1>12. CASE FiniStop
  <2>1. /\ ~Hung /\ ~Waits /\ \A t \in Task : parent'[t] = parent[t]
        /\ UNCHANGED <<thread, tdr, tdrTask, fence, finished, cancelled, currentTask>>
    BY <1>12, LateStop DEF FiniStop, Hung
  <2>2. parent' = parent
    BY <1>0, <2>1 DEF TypeInv, TypeOK, TaskTypes
  <2>. QED  BY <1>2, <2>1, <2>2
<1>. QED  BY <1>3, <1>4, <1>5, <1>6, <1>7, <1>8, <1>9, <1>10, <1>11, <1>12 DEF LateStep

\* Some late steps return tasks that have a result to the slab, and take them
\* off the list.
LateFreeing == ThreadCleanup \/ TdrEnd \/ FiniStop

LEMMA LateFrees ==
  ASSUME TypeInv, LateInv, LateFreeing
  PROVE  /\ \E S \in SUBSET pending : /\ pending' = pending \ S /\ FreeJobs(S)
                                      /\ \A t \in S : life[t] = "live" /\ finished[t] # "no"
         /\ UNCHANGED <<finished, vmOf, vmOpen, currentVm, currentTask, fence, finiTask>>
         /\ fini' = fini \/ (fini = "cleared" /\ fini' = "stopped" /\ pending' = {})
<1>. USE DEF pipeVars, refVars, finiVars
<1>1. CASE ThreadCleanup
  <2>1. /\ pending = {Last} /\ pending' = {} /\ finished[Last] # "no" /\ FreeJobs({Last})
        /\ life[Last] = "live"
    BY <1>1, LateCleanup
  <2>2. {Last} \in SUBSET pending /\ pending' = pending \ {Last}
    BY <2>1
  <2>3. UNCHANGED <<finished, vmOf, vmOpen, currentVm, currentTask, fence, finiTask, fini>>
    BY <1>1 DEF ThreadCleanup
  <2>. QED  BY <2>1, <2>2, <2>3
<1>2. CASE FiniStop
  <2>1. /\ pending' = pending \ pending /\ FreeJobs(pending)
        /\ \A t \in pending : life[t] = "live" /\ finished[t] # "no"
    BY <1>2, LateStop
  <2>2. /\ UNCHANGED <<finished, vmOf, vmOpen, currentVm, currentTask, fence, finiTask>>
        /\ fini = "cleared" /\ fini' = "stopped"
    BY <1>2 DEF FiniStop
  <2>. QED  BY <2>1, <2>2
<1>3. CASE TdrEnd
  <2>1. FreeJobs({}) /\ UNCHANGED <<pending, finished, vmOf, vmOpen, currentVm, currentTask, fence,
                                    finiTask, fini>>
    BY <1>3 DEF TdrEnd, LateInv, QuietInv, Unused
  <2>2. pending' = pending \ {} /\ {} \in SUBSET pending
    BY <2>1
  <2>. QED  BY <2>1, <2>2
<1>. QED  BY <1>1, <1>2, <1>3 DEF LateFreeing

\* The other late steps.
LEMMA LateKeepsMemory ==
  ASSUME LateStep, ~LateFreeing
  PROVE  /\ UNCHANGED <<pending, life, vmOf, vmOpen>>
         /\ FiniVmPut \/ FiniClear \/ UNCHANGED <<vmRefs, currentVm, currentTask>>
<1>. USE DEF taskVars, schedVars, pipeVars, refVars, LateFreeing
<1>1. CASE ThreadReturn \/ IrqPmIdle \/ TdrResubmitNone \/ TdrStart
  BY <1>1 DEF ThreadReturn, IrqPmIdle, TdrResubmitNone, TdrStart
<1>2. CASE FiniReset \/ FiniSignal \/ FiniEnd
  BY <1>2 DEF FiniReset, FiniSignal, FiniEnd
<1>3. CASE FiniVmPut \/ FiniClear
  BY <1>3 DEF FiniVmPut, FiniClear
<1>. QED  BY <1>1, <1>2, <1>3 DEF LateStep

LEMMA LateFree ==
  ASSUME TypeInv, TypeInv', LateInv, LateStep, UNCHANGED hangLimit
  PROVE  FreeInv'
<1>0. /\ Last' = Last /\ submitted' = submitted /\ vmOf' = vmOf
      /\ \A t \in Task : finished[t] # "no" => finished'[t] # "no"
      /\ pending \subseteq Task
  <2>1. UNCHANGED <<submitted, vmOf>>
    BY LateKeeps
  <2>. QED  BY <2>1, LateOrder DEF TypeInv, TypeOK, TaskTypes
<1>1. CASE LateFreeing
  <2>1. PICK S \in SUBSET pending : /\ pending' = pending \ S /\ FreeJobs(S)
                                    /\ \A t \in S : life[t] = "live" /\ finished[t] # "no"
    BY <1>1, LateFrees
  <2>2. \A t \in Task : life'[t] = IF t \in S THEN "freed" ELSE life[t]
    BY <2>1 DEF FreeJobs
  <2>3. fini' \in {"stopped", "done"} => pending' = {}
    <3>1. fini' = fini \/ pending' = {}
      BY <1>1, LateFrees
    <3>. QED  BY <2>1, <3>1 DEF LateInv, FreeInv
  <2>. QED  BY <1>0, <2>1, <2>2, <2>3 DEF LateInv, FreeInv
<1>2. CASE ~LateFreeing
  <2>1. UNCHANGED <<pending, life>>
    BY <1>2, LateKeepsMemory
  <2>2. fini' \in {"stopped", "done"} => fini \in {"stopped", "done"}
    BY <1>2 DEF LateStep, LateFreeing, ThreadReturn, IrqPmIdle, TdrResubmitNone, TdrStart,
                FiniReset, FiniSignal, FiniVmPut, FiniClear, FiniEnd, finiVars
  <2>. QED  BY <1>0, <2>1, <2>2 DEF LateInv, FreeInv
<1>. QED  BY <1>1, <1>2

LEMMA LateDrop ==
  ASSUME TypeInv, TypeInv', LateInv, LateStep
  PROVE  DropInv'
<1>. USE DEF taskVars, schedVars, tdrVars, hwVars, irqVars, pipeVars, refVars, finiVars
<1>0. \A t \in Task : t # NoTask
  BY DEF Task, NoTask
<1>1. ASSUME UNCHANGED <<currentTask, currentVm, fini, finiTask, fence>>,
             \A t \in Task : life'[t] = "live" => life[t] = "live"
      PROVE  DropInv'
  BY <1>1 DEF LateInv, DropInv, Owed
<1>2. CASE ThreadCleanup \/ TdrEnd
  <2>1. PICK S \in SUBSET pending : FreeJobs(S)
    BY <1>2, LateFrees DEF LateFreeing
  <2>2. \A t \in Task : life'[t] = "live" => life[t] = "live"
    BY <2>1 DEF FreeJobs
  <2>3. UNCHANGED <<currentTask, currentVm, fini, finiTask, fence>>
    BY <1>2 DEF ThreadCleanup, TdrEnd
  <2>. QED  BY <1>1, <2>2, <2>3
<1>3. CASE ThreadReturn \/ IrqPmIdle \/ TdrResubmitNone \/ TdrStart
  BY <1>1, <1>3 DEF ThreadReturn, IrqPmIdle, TdrResubmitNone, TdrStart
<1>4. CASE FiniReset \/ FiniEnd
  BY <1>4 DEF FiniReset, FiniEnd, LateInv, DropInv, Owed
<1>5. CASE FiniSignal
  <2>1. fini' = "drop" /\ finiTask' = finiTask /\ finiTask \in Task
    BY <1>5, LateSignal DEF FiniSignal
  <2>. QED  BY <1>0, <2>1 DEF DropInv
<1>6. CASE FiniVmPut
  BY <1>6 DEF FiniVmPut, LateInv, DropInv, Owed
<1>7. CASE FiniClear
  BY <1>0, <1>7 DEF FiniClear, DropInv, Owed
<1>8. CASE FiniStop
  <2>1. /\ fini = "cleared" /\ fini' = "stopped"
        /\ UNCHANGED <<currentTask, currentVm, finiTask>>
    BY <1>8 DEF FiniStop
  <2>. QED  BY <1>0, <2>1 DEF LateInv, DropInv, Owed
<1>. QED  BY <1>2, <1>3, <1>4, <1>5, <1>6, <1>7, <1>8 DEF LateStep

LEMMA LateRefs ==
  ASSUME TypeInv, TypeInv', LateInv, LateStep
  PROVE  VmRefsExact'
<1>. USE DEF schedVars, tdrVars, pipeVars, refVars, finiVars
<1>0. /\ vmRefs \in [VMs -> Int] /\ NoVm \notin VMs /\ tdr # "vmput" /\ tdr' # "vmput"
      /\ \A v \in VMs : vmRefs[v] = B(v \in vmOpen) + Cardinality(LiveIn(v)) + Held(v)
      /\ pending \subseteq Task
  <2>1. tdr # "vmput" /\ tdr' # "vmput"
    BY DEF LateInv, QuietInv, LateStep, ThreadCleanup, ThreadReturn, IrqPmIdle,
           TdrResubmitNone, TdrStart, TdrEnd, FiniReset, FiniSignal, FiniVmPut, FiniClear,
           FiniStop, FiniEnd
  <2>. QED  BY <2>1, SchedAssumption, RefsAre
            DEF LateInv, TypeInv, TypeOK, PipeTypes, TaskTypes, SchedAssumption
<1>. SUFFICES ASSUME NEW v \in VMs
              PROVE  (vmRefs[v] = B(v \in vmOpen) + Cardinality(LiveIn(v)) + Held(v))'
  BY RefsAre DEF VmRefsExact, LiveIn, Held
<1>1. /\ vmRefs[v] \in Int /\ Cardinality(LiveIn(v)) \in Nat /\ Held(v) \in {0, 1}
      /\ vmRefs[v] = B(v \in vmOpen) + Cardinality(LiveIn(v)) + Held(v)
      /\ B(v \in vmOpen) \in {0, 1}
  BY <1>0, LiveFinite DEF Held, B
<1>2. CASE LateFreeing
  <2>1. PICK S \in SUBSET pending : FreeJobs(S) /\ \A t \in S : life[t] = "live"
    BY <1>2, LateFrees
  <2>2. /\ UNCHANGED <<vmOf, vmOpen, currentVm>>
        /\ (fini = "vmput" <=> fini' = "vmput")
    BY <1>2, LateFrees
  <2>3. /\ vmRefs'[v] - Cardinality(LiveIn(v)') = vmRefs[v] - Cardinality(LiveIn(v))
        /\ vmRefs'[v] \in Int /\ Cardinality(LiveIn(v)') \in Nat
    BY <1>0, <2>1, <2>2, FreeRefs
  <2>4. Held(v)' = Held(v) /\ B(v \in vmOpen)' = B(v \in vmOpen)
    BY <1>0, <2>2 DEF Held, B
  <2>. QED  BY <1>1, <2>3, <2>4
<1>3. CASE ~LateFreeing
  <2>1. LiveIn(v)' = LiveIn(v) /\ B(v \in vmOpen)' = B(v \in vmOpen)
    BY <1>3, LateKeepsMemory DEF LiveIn, B
  <2>2. CASE FiniVmPut
    <3>1. /\ vmRefs' = VmPut(vmRefs, currentVm) /\ fini = "drop" /\ fini' = "vmput"
      BY <2>2 DEF FiniVmPut
    <3>2. Held(v)' = 0 /\ Held(v) = B(currentVm = v)
      BY <1>0, <3>1 DEF Held, B
    <3>3. vmRefs'[v] = vmRefs[v] - B(currentVm = v)
      BY <1>0, <3>1 DEF VmPut, B
    <3>4. B(currentVm = v) \in {0, 1}
      BY DEF B
    <3>. QED  BY <1>1, <2>1, <3>2, <3>3, <3>4
  <2>3. CASE FiniClear
    <3>1. fini = "vmput" /\ currentVm' = NoVm /\ UNCHANGED vmRefs
      BY <2>3 DEF FiniClear
    <3>2. Held(v)' = 0 /\ Held(v) = 0
      BY <1>0, <3>1 DEF Held, B
    <3>. QED  BY <1>1, <2>1, <3>1, <3>2
  <2>4. CASE ~FiniVmPut /\ ~FiniClear
    <3>1. UNCHANGED <<vmRefs, currentVm>>
      BY <1>3, <2>4, LateKeepsMemory
    <3>2. fini = "vmput" <=> fini' = "vmput"
      BY <1>3, <2>4 DEF LateStep, LateFreeing, ThreadReturn, IrqPmIdle, TdrResubmitNone,
                        TdrStart, FiniReset, FiniSignal, FiniEnd
    <3>3. Held(v)' = Held(v)
      BY <1>0, <3>1, <3>2 DEF Held, B
    <3>. QED  BY <1>1, <2>1, <3>1, <3>3
  <2>. QED  BY <2>2, <2>3, <2>4
<1>. QED  BY <1>2, <1>3

LEMMA LateWatched ==
  ASSUME TypeInv, TypeInv', LateInv, LateStep, UNCHANGED hangLimit
  PROVE  Watched'
<1>. USE DEF taskVars, schedVars, tdrVars, finiVars
<1>0. /\ \A t \in Task : finished'[t] = "no" => finished[t] = "no"
      /\ pending \subseteq Task
  BY LateOrder DEF TypeInv, TypeOK, TaskTypes
<1>1. ASSUME UNCHANGED <<pending, tdr, timer>>,
             fini \in {"stopped", "done"} => fini' \in {"stopped", "done"}
      PROVE  Watched'
  BY <1>0, <1>1 DEF LateInv, Watched
<1>2. CASE ThreadReturn \/ IrqPmIdle
  BY <1>1, <1>2 DEF ThreadReturn, IrqPmIdle
<1>3. CASE FiniReset \/ FiniSignal \/ FiniVmPut \/ FiniClear
  BY <1>1, <1>3 DEF FiniReset, FiniSignal, FiniVmPut, FiniClear
<1>4. CASE FiniStop \/ FiniEnd
  BY <1>4 DEF FiniStop, FiniEnd, Watched
<1>5. CASE ThreadCleanup
  BY <1>5 DEF ThreadCleanup, Watched
<1>6. CASE TdrResubmitNone
  BY <1>6 DEF TdrResubmitNone, Watched
<1>7. CASE TdrStart \/ TdrEnd
  BY <1>7 DEF TdrStart, TdrEnd, Rearmed, Watched
<1>. QED  BY <1>2, <1>3, <1>4, <1>5, <1>6, <1>7 DEF LateStep

LEMMA LateInvStep ==
  ASSUME Calm, TypeInv, TypeInv', LateInv, [Next]_vars
  PROVE  LateInv'
<1>1. CASE UNCHANGED vars
  <2>1. UNCHANGED <<taskVars, schedVars, tdrVars, hwVars, irqVars, pipeVars, refVars, finiVars,
                    hangLimit>>
    BY <1>1 DEF vars, runVars
  <2>. USE DEF taskVars, schedVars, tdrVars, hwVars, irqVars, pipeVars, refVars, finiVars
  <2>2. Last' = Last /\ (Waits' <=> Waits)
    BY <2>1 DEF Last, Waits
  <2>3. (Hung' <=> Hung) /\ (Returns' <=> Returns) /\ (Resets' <=> Resets)
    BY <2>1, <2>2 DEF Hung, Returns, Resets
  <2>4. QuietInv'
    BY <2>1, <2>2, <2>3 DEF LateInv, QuietInv, Serving, Unused
  <2>5. LeftInv'
    BY <2>1, <2>2, <2>3 DEF LateInv, LeftInv
  <2>6. FreeInv'
    BY <2>1, <2>2 DEF LateInv, FreeInv
  <2>7. DropInv'
    BY <2>1 DEF LateInv, DropInv, Owed
  <2>8. VmRefsExact' /\ Watched'
    BY <2>1 DEF LateInv, VmRefsExact, Watched
  <2>. QED  BY <2>4, <2>5, <2>6, <2>7, <2>8 DEF LateInv
<1>2. CASE LateStep
  <2>1. UNCHANGED hangLimit
    BY DEF Next, vars
  <2>2. QuietInv' /\ LeftInv'
    BY <1>2, <2>1, LateQuiet, LateLeft
  <2>3. FreeInv' /\ DropInv'
    BY <1>2, <2>1, LateFree, LateDrop
  <2>4. VmRefsExact' /\ Watched'
    BY <1>2, <2>1, LateRefs, LateWatched
  <2>. QED  BY <2>2, <2>3, <2>4 DEF LateInv
<1>. QED  BY <1>1, <1>2, LateSteps

LEMMA LateSuccess ==
  ASSUME Calm, TypeInv, LateInv, NoFalseSuccess, [Next]_vars
  PROVE  NoFalseSuccess'
<1>1. executed \subseteq executed' /\ finished \in [Task -> {"no", "ok", "error"}]
  BY ExecutedGrows DEF TypeInv, TypeOK, TaskTypes
<1>2. CASE UNCHANGED finished
  BY <1>1, <1>2 DEF NoFalseSuccess
<1>3. CASE LateStep /\ ~UNCHANGED finished
  <2>1. PICK r \in {"ok", "error"} : /\ finished' = [finished EXCEPT ![Last] = r]
                                     /\ r = "ok" => Last \in executed
    BY <1>3, LateResult
  <2>. QED  BY <1>1, <2>1 DEF NoFalseSuccess
<1>4. UNCHANGED vars => UNCHANGED finished
  BY DEF vars, runVars, taskVars
<1>. QED  BY <1>2, <1>3, <1>4, LateSteps

\* After its wait the teardown owes no power reference but that of a task it
\* gave up.
LEMMA LatePower ==
  ASSUME Calm, TypeInv, LateInv, LateInv', PmBalanced, [Next]_vars
  PROVE  PmBalanced'
<1>. USE DEF hwVars, irqVars, refVars, finiVars
<1>. SUFFICES ASSUME finiTask' = NoTask
              PROVE  pmUsage' = B(irq' = "signalled") + 0
  <2>1. finiTask' = NoTask => ~(\E t \in Task : Owed(t)')
    BY DEF LateInv, DropInv
  <2>. QED  BY <2>1 DEF PmBalanced, B
<1>1. CASE UNCHANGED <<finiTask, pmUsage, irq>> \/ IrqPmIdle
  <2>1. finiTask = NoTask
    BY <1>1 DEF IrqPmIdle
  <2>2. pmUsage = B(irq = "signalled") + 0 /\ pmUsage \in Int
    BY <2>1 DEF PmBalanced, LateInv, DropInv, B, TypeInv, TypeOK, PipeTypes
  <2>. QED  BY <1>1, <2>2 DEF IrqPmIdle, B
<1>2. CASE ThreadCleanup \/ ThreadReturn
  BY <1>1, <1>2 DEF ThreadCleanup, ThreadReturn
<1>3. CASE TdrResubmitNone \/ TdrStart \/ TdrEnd
  BY <1>1, <1>3 DEF TdrResubmitNone, TdrStart, TdrEnd
<1>4. CASE FiniReset \/ FiniSignal \/ FiniVmPut \/ FiniClear \/ FiniStop \/ FiniEnd
  BY <1>1, <1>4 DEF FiniReset, FiniSignal, FiniVmPut, FiniClear, FiniStop, FiniEnd
<1>5. CASE UNCHANGED vars
  BY <1>1, <1>5 DEF vars, runVars
<1>. QED  BY <1>1, <1>2, <1>3, <1>4, <1>5, LateSteps DEF LateStep

\* The wait ends in one of two ways, which change nothing else.
LEMMA WaitEndsOnly ==
  ASSUME Serving, ~Serving', [Next]_vars
  PROVE  FiniIdle \/ FiniGiveUp
<1>. USE DEF Serving, finiVars
<1>1. CASE FiniStep
  BY <1>1 DEF FiniStep, FiniBegin, FiniReset, FiniSignal, FiniVmPut, FiniClear, FiniStop,
              FiniEnd
<1>2. CASE UNCHANGED finiVars
  BY <1>2
<1>3. CASE UNCHANGED vars \/ (\E v \in VMs : Submit(v) \/ CloseFile(v)) \/ HwStep \/ RecoverStep
  BY <1>2, <1>3 DEF vars, runVars, Submit, CloseFile, HwStep, HwEvent, RecoverStep,
      RecoverGrows, RecoverBadPointer
<1>4. CASE ThreadStep \/ IrqStep
  BY <1>2, <1>4 DEF ThreadStep, ThreadCleanup, ThreadPop, ThreadPrepare, ThreadStartFails,
      ThreadStart, ThreadReturn, IrqStep, IrqEnter, IrqTaskError, IrqTaskDone,
      IrqTaskDoneBadPointer, IrqPmIdle
<1>5. CASE TdrStep
  BY <1>2, <1>5 DEF TdrStep, TdrFire, TdrStop, TdrReset, TdrVmPut, TdrClear, TdrResubmitNone,
      TdrResubmit, TdrStart, TdrEnd
<1>. QED  BY <1>1, <1>3, <1>4, <1>5 DEF Next

LEMMA WaitEndsPower ==
  ASSUME PmBalanced, FiniIdle \/ FiniGiveUp
  PROVE  PmBalanced'
<1>. USE DEF taskVars, irqVars, pipeVars, refVars
<1>1. CASE FiniIdle
  BY <1>1 DEF FiniIdle, PmBalanced, Owed
<1>2. CASE FiniGiveUp
  BY <1>2 DEF FiniGiveUp, InFlight, PmBalanced
<1>. QED  BY <1>1, <1>2

-----------------------------------------------------------------------------
(***************************************************************************)
(* The theorems.                                                           *)
(***************************************************************************)

\* The pipe serves, or it is being taken down.
PipeInv ==
  /\ Serving => SafeInv /\ CalmInv /\ PollInv
  /\ ~Serving => LateInv
  /\ NoFalseSuccess /\ PmBalanced

LEMMA InitPipe == Init => PipeInv
<1>. SUFFICES ASSUME Init PROVE PipeInv
  OBVIOUS
<1>1. Last = 0 /\ ~Waits
  BY DEF Init, Last, Waits, Task
<1>2. CoreInv /\ EventInv /\ TdrInv /\ FenceInv
  BY <1>1 DEF Init, CoreInv, EventInv, TdrInv, FenceInv, Stopped, Unused
<1>3. ListInv /\ NoFalseSuccess
  BY DEF Init, ListInv, NoFalseSuccess
<1>4. PmBalanced
  BY DEF Init, PmBalanced, Owed, B
<1>5. PollInv
  BY <1>1 DEF Init, PollInv, ClosedInv, KarmaInv, ListedInv, Stopped
<1>6. Serving
  BY DEF Init, Serving
<1>. QED  BY <1>2, <1>3, <1>4, <1>5, <1>6, InitSafe DEF CalmInv, PipeInv

LEMMA PipeStep ==
  ASSUME Calm, TypeInv, TypeInv', PipeInv, [Next]_vars
  PROVE  PipeInv'
<1>1. CASE Serving'
  <2>1. SafeInv /\ CalmInv /\ PollInv /\ NoFalseSuccess /\ PmBalanced
    BY <1>1, ServedBefore DEF PipeInv
  <2>2. SafeInv' /\ CalmInv' /\ PollInv'
    BY <1>1, <2>1, SafeStep, CalmStep, PollStep
  <2>3. NoFalseSuccess'
    BY <1>1, <2>1, SuccessStep
  <2>4. PmBalanced'
    BY <2>1, <2>2, PowerStep
  <2>. QED  BY <1>1, <2>2, <2>3, <2>4 DEF PipeInv
<1>2. CASE Serving /\ ~Serving'
  <2>1. FiniIdle \/ FiniGiveUp
    BY <1>2, WaitEndsOnly
  <2>2. LateInv'
    BY <1>2, <2>1, TeardownBegins DEF PipeInv
  <2>3. NoFalseSuccess'
    BY <2>1 DEF PipeInv, NoFalseSuccess, FiniIdle, FiniGiveUp, taskVars
  <2>4. PmBalanced'
    BY <2>1, WaitEndsPower DEF PipeInv
  <2>. QED  BY <1>2, <2>2, <2>3, <2>4 DEF PipeInv
<1>3. CASE ~Serving /\ ~Serving'
  <2>1. LateInv /\ NoFalseSuccess /\ PmBalanced
    BY <1>3 DEF PipeInv
  <2>2. LateInv'
    BY <2>1, LateInvStep
  <2>3. NoFalseSuccess' /\ PmBalanced'
    BY <2>1, <2>2, LateSuccess, LatePower
  <2>. QED  BY <1>3, <2>2, <2>3 DEF PipeInv
<1>. QED  BY <1>1, <1>2, <1>3

LEMMA CalmInvariance == ASSUME Calm PROVE Spec => [](TypeInv /\ PipeInv)
<1>1. TypeInv /\ TypeInv' /\ PipeInv /\ [Next]_vars => PipeInv'
  BY PipeStep
<1>. QED  BY <1>1, InitPipe, TypeInvariance, PTL DEF Spec

\* No interrupt is credited to a task the core did not complete, through
\* heap recoveries, resets, resubmissions and the teardown.
THEOREM SuccessIsTrue == ASSUME Calm PROVE Spec => []NoFalseSuccess
<1>1. PipeInv => NoFalseSuccess
  BY DEF PipeInv
<1>. QED  BY <1>1, CalmInvariance, PTL

\* Each lima_pm_busy of a run is answered by one lima_pm_idle, by the
\* interrupt handler or by the timeout handler, unless the teardown gives the
\* task up.
THEOREM PowerIsBalanced == ASSUME Calm PROVE Spec => []PmBalanced
<1>1. PipeInv => PmBalanced
  BY DEF PipeInv
<1>. QED  BY <1>1, CalmInvariance, PTL

\* A working core works for the current task, which is in use, in its address
\* space, which has a reference; so does one that hangs when the pipe is taken
\* down, until it is reset.
THEOREM CoreRunsCurrent == ASSUME Calm PROVE Spec => []HwRunsCurrent
<1>1. ASSUME VmRefsExact, NEW t \in Task, life[t] = "live", vmOf[t] \in VMs, currentVm = vmOf[t],
             tdr # "vmput", fini # "vmput"
      PROVE  vmRefs[currentVm] >= 1
  <2>1. vmRefs[currentVm] = B(currentVm \in vmOpen) + Cardinality(LiveIn(currentVm)) + Held(currentVm)
    BY <1>1, RefsAre
  <2>2. Cardinality(LiveIn(currentVm)) \in Nat /\ Held(currentVm) = 1 /\ B(currentVm \in vmOpen) \in {0, 1}
    BY <1>1, LiveFinite DEF Held, B
  <2>. QED  BY <2>1, <2>2
<1>2. SafeInv /\ CalmInv => HwRunsCurrent
  <2>. SUFFICES ASSUME SafeInv, CalmInv, ~Unused
                PROVE  /\ currentTask = hwTask /\ life[hwTask] = "live"
                       /\ currentVm = vmOf[hwTask] /\ vmRefs[currentVm] >= 1
    BY DEF HwRunsCurrent, Unused
  <2>1. /\ Waits /\ hwTask = Last /\ currentTask = Last /\ currentVm = vmOf[Last]
        /\ tdr # "vmput" /\ fini # "vmput"
    BY DEF CalmInv, CoreInv, SafeInv, ParkInv, Serving, Unused
  <2>2. Last \in Task /\ life[Last] = "live"
    BY <2>1, LastIsLive
  <2>3. vmOf[Last] \in VMs /\ VmRefsExact
    BY <2>1, <2>2 DEF SafeInv, MemoryInv
  <2>. QED  BY <1>1, <2>1, <2>2, <2>3
<1>3. LateInv => HwRunsCurrent
  <2>. SUFFICES ASSUME LateInv, ~Unused
                PROVE  /\ currentTask = hwTask /\ life[hwTask] = "live"
                       /\ currentVm = vmOf[hwTask] /\ vmRefs[currentVm] >= 1
    BY DEF HwRunsCurrent, Unused
  <2>1. /\ Hung /\ fini = "wedged" /\ hwTask = Last /\ currentVm = vmOf[Last] /\ submitted = Last
    BY DEF LateInv, QuietInv, Unused
  <2>2. currentTask = Last /\ Last \in Task /\ life[Last] = "live" /\ tdr # "vmput"
    BY <2>1 DEF Hung, Waits, LateInv, FreeInv
  <2>3. vmOf[Last] \in VMs /\ VmRefsExact
    BY <2>2 DEF LateInv, FreeInv
  <2>. QED  BY <1>1, <2>1, <2>2, <2>3
<1>4. PipeInv => HwRunsCurrent
  BY <1>2, <1>3 DEF PipeInv
<1>. QED  BY <1>4, CalmInvariance, PTL

\* lima_sched_free_job comes last for a task: its waiters have the result, and
\* neither list, timeout handler nor core refers to it.
THEOREM FreedIsOutOfUse == ASSUME Calm PROVE Spec => []FreedIsUnused
<1>0. ASSUME TypeInv PROVE \A t \in Task : t # NoTask
  BY DEF Task, NoTask
<1>1. TypeInv /\ SafeInv /\ CalmInv => FreedIsUnused
  <2>. SUFFICES ASSUME TypeInv, SafeInv, CalmInv, NEW t \in Task, life[t] = "freed"
                PROVE  /\ finished[t] # "no" /\ t \notin pending /\ (hwTask # t \/ hw = "loose")
                       /\ tdrTask = t => tdr = "restarted" /\ ~freeGuilty
    BY DEF FreedIsUnused
  <2>1. finished[t] # "no" /\ t \notin pending /\ t # NoTask
    BY DEF CalmInv, ListInv, SafeInv, MemoryInv, Task, NoTask
  <2>2. hwTask # t \/ hw = "loose"
    BY <2>1 DEF CalmInv, CoreInv, Waits, Unused
  <2>3. tdrTask = t => tdr = "restarted" /\ ~freeGuilty
    <3>1. tdr \in {"idle", "taken", "stopped", "reset", "vmput", "cleared", "resubmitted",
                    "restarted"}
      BY DEF TypeInv, TypeOK, PipeTypes
    <3>. QED  BY <2>1, <3>1 DEF CalmInv, TdrInv, Stopped, Waits
  <2>. QED  BY <2>1, <2>2, <2>3
<1>2. TypeInv /\ LateInv => FreedIsUnused
  <2>. SUFFICES ASSUME TypeInv, LateInv, NEW t \in Task, life[t] = "freed"
                PROVE  /\ finished[t] # "no" /\ t \notin pending /\ (hwTask # t \/ hw = "loose")
                       /\ tdrTask = t => tdr = "restarted" /\ ~freeGuilty
    BY DEF FreedIsUnused
  <2>1. finished[t] # "no" /\ t \notin pending /\ t # NoTask
    BY <1>0 DEF LateInv, FreeInv
  <2>2. hwTask # t \/ hw = "loose"
    BY <2>1 DEF LateInv, QuietInv, Hung, Unused
  <2>3. tdrTask = t => tdr = "restarted" /\ ~freeGuilty
    BY <2>1 DEF LateInv, QuietInv, LeftInv, Resets, Unused
  <2>. QED  BY <2>1, <2>2, <2>3
<1>3. TypeInv /\ PipeInv => FreedIsUnused
  BY <1>1, <1>2 DEF PipeInv
<1>. QED  BY <1>3, CalmInvariance, PTL

\* The teardown leaks no reference to an address space and puts none twice,
\* whether it waits, gives a task up or finds one it has to drop.
THEOREM TeardownReferencesExact == ASSUME Calm PROVE Spec => []VmRefsExact
<1>1. PipeInv => VmRefsExact
  BY DEF PipeInv, SafeInv, LateInv
<1>. QED  BY <1>1, CalmInvariance, PTL

\* The teardown leaves no task without a result unwatched before it stops the
\* scheduler.
THEOREM TeardownWatched == ASSUME Calm PROVE Spec => []Watched
<1>1. PipeInv => Watched
  BY DEF PipeInv, SafeInv, LateInv
<1>. QED  BY <1>1, CalmInvariance, PTL

\* When lima_sched_pipe_fini returns, every task is back in the slab, the core
\* is idle and no address space has a reference, whatever the core, the
\* interrupt handler, the timeout handler and the scheduler's thread were at
\* when it began.
THEOREM TeardownReapsAll == ASSUME Calm PROVE Spec => []FiniReapsAll
<1>1. TypeInv /\ LateInv => FiniReapsAll
  <2>. SUFFICES ASSUME TypeInv, LateInv, fini = "done"
                PROVE  /\ \A t \in 1 .. submitted : life[t] = "freed"
                       /\ Unused /\ \A v \in VMs : vmRefs[v] = 0
    BY DEF FiniReapsAll, Unused
  <2>1. pending = {} /\ \A t \in Task : life[t] # "live"
    BY DEF LateInv, FreeInv
  <2>2. \A t \in 1 .. submitted : life[t] = "freed"
    <3>1. submitted \in 0 .. NumTasks /\ NumTasks \in Nat
      BY SchedAssumption DEF TypeInv, TypeOK, TaskTypes, SchedAssumption
    <3>2. \A t \in 1 .. submitted : t \in Task /\ t <= submitted
      BY <3>1 DEF Task
    <3>3. life \in [Task -> {"new", "live", "freed"}]
      BY DEF TypeInv, TypeOK, TaskTypes
    <3>. QED  BY <2>1, <3>2, <3>3 DEF LateInv, FreeInv
  <2>3. Unused
    BY DEF LateInv, QuietInv, Unused
  <2>4. ASSUME NEW v \in VMs PROVE vmRefs[v] = 0
    <3>1. LiveIn(v) = {} /\ Cardinality({}) = 0
      BY <2>1, FS_EmptySet DEF LiveIn
    <3>2. Held(v) = 0 /\ B(v \in vmOpen) = 0
      BY SchedAssumption DEF LateInv, DropInv, QuietInv, Held, B, SchedAssumption, Unused
    <3>. QED  BY <3>1, <3>2, RefsAre DEF LateInv
  <2>. QED  BY <2>2, <2>3, <2>4
<1>2. Serving => FiniReapsAll
  BY DEF Serving, FiniReapsAll
<1>3. TypeInv /\ PipeInv => FiniReapsAll
  BY <1>1, <1>2 DEF PipeInv
<1>. QED  BY <1>3, CalmInvariance, PTL

\* The pipe implements the job queue through the teardown too: a task that is
\* given up gets its one result, in dispatch order.
THEOREM TeardownImplementsJobs == ASSUME Calm PROVE Spec => JobsSafe
<1>1. TypeInv /\ PipeInv /\ [Next]_vars => [Jobs!Next]_(Jobs!vars)
  <2>. SUFFICES ASSUME TypeInv, PipeInv, [Next]_vars PROVE [Jobs!Next]_(Jobs!vars)
    OBVIOUS
  <2>1. CASE Serving'
    BY <2>1, ServedBefore, ServingIsJobsStep DEF PipeInv
  <2>2. CASE UNCHANGED finished
    <3>1. \/ UNCHANGED submitted
          \/ submitted < NumTasks /\ submitted' = submitted + 1
      BY SubmittedStep
    <3>. QED  BY <2>2, <3>1 DEF Jobs!Next, Jobs!Submit, Jobs!vars
  <2>3. CASE ~Serving /\ LateStep /\ ~UNCHANGED finished
    <3>1. LateInv
      BY <2>3 DEF PipeInv
    <3>2. /\ Waits /\ UNCHANGED <<submitted, next>>
          /\ \E r \in {"ok", "error"} : finished' = [finished EXCEPT ![Last] = r]
      BY <2>3, <3>1, LateResult
    <3>3. InOrder
      BY <3>1, SchedAssumption
         DEF LateInv, QuietInv, LeftInv, InOrder, TypeInv, TypeOK, TaskTypes, SchedAssumption, Unused
    <3>. QED  BY <3>2, <3>3, ResultIsJobsStep
  <2>4. CASE Serving /\ ~Serving'
    <3>1. UNCHANGED finished
      BY <2>4, WaitEndsOnly DEF FiniIdle, FiniGiveUp, taskVars
    <3>. QED  BY <2>2, <3>1
  <2>5. CASE UNCHANGED vars
    <3>1. UNCHANGED finished
      BY <2>5 DEF vars, runVars, taskVars
    <3>. QED  BY <2>2, <3>1
  <2>. QED  BY <2>1, <2>2, <2>3, <2>4, <2>5, LateSteps DEF PipeInv
<1>. QED  BY <1>1, InitJobs, CalmInvariance, PTL DEF Spec, JobsSafe, Jobs!Spec

=============================================================================
