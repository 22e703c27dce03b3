----------------------------- MODULE LimaDevice -----------------------------
(***************************************************************************)
(* The life of the device (lima_drv.c, lima_device.c, lima_pmu.c): probe   *)
(* with its unwinding, remove, suspend, resume and the list of error       *)
(* tasks, for the blocks of a Mali-400 MP2.  newbus and the PM core call   *)
(* one of these at a time; jobs, their interrupts and timeouts and the     *)
(* sysctl run beside them.                                                 *)
(*                                                                         *)
(* A register that is accessed while its block has no clock or no power    *)
(* stalls the bus of the SoC and the whole board with it (lima_pmu.c).     *)
(* Of a job the model keeps where the hardware is with it; LimaSched has   *)
(* the rest.                                                               *)
(***************************************************************************)
EXTENDS Integers, Sequences, FiniteSets

CONSTANTS
  MayFail,       \* what may fail: operations and blocks
  Supply,        \* 1 if the device tree names a mali-supply, else 0
  Stages,        \* values hw.lima.clk_stage may have at a clk_enable
  MaxErrorTasks  \* lima_max_error_tasks

\* lima_ip_desc, the blocks a Mali-400 MP2 has, in their order.
Table == <<"pmu", "l2_cache0", "gp", "pp0", "pp1", "gpmmu", "ppmmu0", "ppmmu1">>
Must  == {"l2_cache0", "gp", "pp0", "gpmmu", "ppmmu0"}
Ip    == {Table[n] : n \in 1 .. Len(Table)}
Last  == Len(Table)

Pipe == {"gp", "pp"}
Operation == {"alloc", "bus", "core", "reset", "regulator", "vm", "iomem",
              "gpPipe", "ppPipe", "register"}

ASSUME DeviceAssumption ==
  /\ MayFail \subseteq Operation \cup Ip /\ Stages \subseteq 0 .. 3
  /\ Supply \in {0, 1} /\ MaxErrorTasks \in Nat

VARIABLES
  pc,          \* what probe, remove, suspend or resume does next
  ip,          \* the block it is at
  present,     \* blocks with ip->present
  clk,         \* enable counts of the bus and core clock, and the reset line
  regulator,   \* enable count of the regulator
  powered,     \* power domains that are on
  emptyVm,     \* references to ldev->empty_vm
  pipes,       \* pipes that are set up
  ddev,        \* references to the drm_device
  slab,        \* lima_fence_slab_refcnt
  registered,  \* 1 between drm_dev_register and drm_dev_unregister
  oid,         \* 1 while the sysctl is there
  listLock,    \* 1 while error_task_list_lock is initialised
  errors,      \* length of error_task_list
  numTasks,    \* dump.num_tasks
  job,         \* what the hardware does with each pipe's job
  stalled      \* a register without clock or power was accessed

devVars == <<regulator, emptyVm, pipes, ddev, slab>>
errVars == <<listLock, errors, numTasks>>
regVars == <<registered, oid>>
vars == <<pc, ip, present, clk, powered, job, stalled, devVars, errVars, regVars>>

Init ==
  /\ pc = "absent" /\ ip = 1 /\ present = {}
  /\ clk = [bus |-> 0, core |-> 0, reset |-> 0] /\ regulator = 0
  /\ powered \in {{}, {"l2_cache0", "gp", "pp0", "pp1"}}
  /\ emptyVm = 0 /\ pipes = {} /\ ddev = 0 /\ slab = 0
  /\ registered = 0 /\ oid = 0
  /\ listLock = 0 /\ errors = 0 /\ numTasks = 0
  /\ job = [p \in Pipe |-> "none"] /\ stalled = FALSE

-----------------------------------------------------------------------------
(***************************************************************************)
(* Clocks, power and registers.                                            *)
(***************************************************************************)

\* The first n steps of lima_clk_enable, and the reverse: a shared clock is
\* counted, the reset line is not.
Step(n, k) == IF n >= k THEN 1 ELSE 0
ClkUp(c, n) == [bus |-> c.bus + Step(n, 1), core |-> c.core + Step(n, 2),
                reset |-> IF n >= 3 THEN 1 ELSE c.reset]
ClkDown(c, n) == [bus |-> c.bus - Step(n, 1), core |-> c.core - Step(n, 2),
                  reset |-> IF n >= 3 THEN 0 ELSE c.reset]

\* error_out1, error_out0: what was enabled before step n + 1 failed.
ClkFailed_KeepsBus(c, n) == ClkDown(ClkUp(c, n), 0)
ClkFailed(c, n) == ClkDown(ClkUp(c, n), n)
ClkFailures(s) ==
  {n \in 0 .. s - 1 : <<"bus", "core", "reset">>[n + 1] \in MayFail}

Clocked == clk.bus > 0 /\ clk.core > 0 /\ clk.reset = 1

\* The MMU of a processor is in its domain, the PMU is always on.
Domain(i) == CASE i = "gpmmu" -> "gp" [] i = "ppmmu0" -> "pp0"
               [] i = "ppmmu1" -> "pp1" [] OTHER -> i
Reachable(i) == Clocked /\ (i = "pmu" \/ Domain(i) \in powered)
Touch(blocks) == stalled' = (stalled \/ \E i \in blocks : ~Reachable(i))

\* lima_pmu_init, lima_pmu_fini: only the processors that are present.
PowerUp   == {"l2_cache0", "gp", "pp0", "pp1"}
PowerMask == {"l2_cache0", "gp"} \cup (present \cap {"pp0", "pp1"})

\* The blocks a pipe drives: lima_init_gp_pipe, lima_init_pp_pipe.
Cores(p) == IF p = "gp" THEN {"gp", "gpmmu", "l2_cache0"}
            ELSE {"l2_cache0"} \cup UNION {c \in {{"pp0", "ppmmu0"}, {"pp1", "ppmmu1"}} :
                                           c \subseteq present}

-----------------------------------------------------------------------------
(***************************************************************************)
(* lima_pdev_probe and lima_device_init.                                   *)
(***************************************************************************)

\* One operation of bring-up: it succeeds and probe goes on, or it fails and
\* probe goes to the label its error leads to.
Succeeds(here, next) == pc = here /\ pc' = next
Fails(here, what, label) == pc = here /\ what \in MayFail /\ pc' = label

\* lima_sched_slab_init.
Probe ==
  /\ Succeeds("absent", "alloc") /\ slab' = slab + 1
  /\ UNCHANGED <<ip, present, clk, powered, job, stalled, regulator, emptyVm,
                 pipes, ddev, errVars, regVars>>

Alloc ==
  /\ \/ Succeeds("alloc", "clk") /\ ddev' = ddev + 1
     \/ Fails("alloc", "alloc", "slabFini") /\ UNCHANGED ddev
  /\ UNCHANGED <<ip, present, clk, powered, job, stalled, regulator, emptyVm,
                 pipes, slab, errVars, regVars>>

\* lima_clk_init; a failure leaves lima_device_init at once.
ClkInit ==
  /\ \E s \in Stages :
       \/ Succeeds("clk", "regulator") /\ clk' = ClkUp(clk, s)
       \/ \E n \in ClkFailures(s) :
            pc = "clk" /\ pc' = "ddevPut" /\ clk' = ClkFailed(clk, n)
  /\ UNCHANGED <<ip, present, powered, job, stalled, devVars, errVars, regVars>>

RegulatorInit ==
  /\ \/ Succeeds("regulator", "vm") /\ regulator' = regulator + Supply
     \/ Fails("regulator", "regulator", "clkFini") /\ UNCHANGED regulator
  /\ UNCHANGED <<ip, present, clk, powered, job, stalled, emptyVm, pipes, ddev,
                 slab, errVars, regVars>>

VmInit ==
  /\ \/ Succeeds("vm", "iomem") /\ emptyVm' = 1
     \/ Fails("vm", "vm", "regulatorFini") /\ UNCHANGED emptyVm
  /\ UNCHANGED <<ip, present, clk, powered, job, stalled, regulator, pipes,
                 ddev, slab, errVars, regVars>>

MapIomem ==
  /\ Succeeds("iomem", "ips") \/ Fails("iomem", "iomem", "vmPut")
  /\ ip' = 1
  /\ UNCHANGED <<present, clk, powered, job, stalled, devVars, errVars, regVars>>

\* lima_init_ip.  A block that need not be there may fail and is left out.
Order_PmuLast(n) == IF n = Last THEN "pmu" ELSE Table[n + 1]
Order(n) == Table[n]

InitIp ==
  /\ pc = "ips"
  /\ Touch({Order(ip)})
  /\ \/ /\ present' = present \cup {Order(ip)}
        /\ powered' = IF Order(ip) = "pmu" THEN PowerUp ELSE powered
     \/ Order(ip) \in MayFail \ Must /\ UNCHANGED <<present, powered>>
  /\ IF ip = Last THEN pc' = "gpInit" /\ UNCHANGED ip
     ELSE ip' = ip + 1 /\ UNCHANGED pc
  /\ UNCHANGED <<clk, job, devVars, errVars, regVars>>

InitIpFails ==
  /\ pc = "ips" /\ Order(ip) \in MayFail \cap Must
  /\ Touch({Order(ip)})
  /\ pc' = "ipsFini" /\ ip' = ip - 1
  /\ UNCHANGED <<present, clk, powered, job, devVars, errVars, regVars>>

GpInit ==
  /\ \/ Succeeds("gpInit", "ppInit") /\ pipes' = pipes \cup {"gp"}
     \/ Fails("gpInit", "gpPipe", "ipsFini") /\ UNCHANGED pipes
  /\ UNCHANGED <<ip, present, clk, powered, job, stalled, regulator, emptyVm,
                 ddev, slab, errVars, regVars>>

\* The pixel pipe, then the list of error tasks.
PpInit ==
  /\ \/ /\ Succeeds("ppInit", "register") /\ pipes' = pipes \cup {"pp"}
        /\ listLock' = 1 /\ errors' = 0 /\ numTasks' = 0
     \/ Fails("ppInit", "ppPipe", "gpFini") /\ UNCHANGED <<pipes, errVars>>
  /\ UNCHANGED <<ip, present, clk, powered, job, stalled, regulator, emptyVm,
                 ddev, slab, regVars>>

Register ==
  /\ \/ Succeeds("register", "live") /\ registered' = 1 /\ oid' = 1
     \/ Fails("register", "register", "fini") /\ UNCHANGED regVars
  /\ UNCHANGED <<ip, present, clk, powered, job, stalled, devVars, errVars>>

-----------------------------------------------------------------------------
(***************************************************************************)
(* lima_pdev_remove and lima_device_fini, and the labels of probe, which   *)
(* undo the same things in the same order.                                 *)
(***************************************************************************)

Remove ==
  /\ pc = "live" /\ pc' = "fini"
  /\ registered' = 0 /\ oid' = 0
  /\ UNCHANGED <<ip, present, clk, powered, job, stalled, devVars, errVars>>

\* The error tasks go first, and the lock of their list.
Fini ==
  /\ pc = "fini" /\ pc' = "ppFini"
  /\ errors' = 0 /\ listLock' = 0
  /\ UNCHANGED <<ip, present, clk, powered, job, stalled, devVars, numTasks, regVars>>

\* lima_sched_pipe_fini: it waits for the job or, after two seconds, resets
\* the cores and gives the job up.
FiniPipe(p, here, next) ==
  /\ pc = here /\ pc' = next
  /\ \/ job[p] = "none" /\ UNCHANGED <<job, stalled>>
     \/ job[p] = "hung" /\ job' = [job EXCEPT ![p] = "none"] /\ Touch(Cores(p))
  /\ pipes' = pipes \ {p}
  /\ UNCHANGED <<ip, present, clk, powered, regulator, emptyVm, ddev, slab,
                 errVars, regVars>>

PpFini == FiniPipe("pp", "ppFini", "gpFini")
GpFini == FiniPipe("gp", "gpFini", "ipsFini")

\* Of lima_fini_ip and lima_suspend_ip only those of the PMU touch anything.
Quiesce ==
  IF Table[ip] = "pmu" /\ "pmu" \in present
  THEN Touch({"pmu"}) /\ powered' = powered \ PowerMask
  ELSE UNCHANGED <<powered, stalled>>

\* for (i = ...; i >= 0; i--), with a loop body for each block.
DownTo(here, next) ==
  /\ pc = here /\ Quiesce /\ ip' = ip - 1
  /\ pc' = IF ip = 1 THEN next ELSE here

FiniIp ==
  /\ DownTo("ipsFini", "vmPut")
  /\ UNCHANGED <<present, clk, job, devVars, errVars, regVars>>

VmPut ==
  /\ pc = "vmPut" /\ pc' = "regulatorFini" /\ emptyVm' = emptyVm - 1
  /\ UNCHANGED <<ip, present, clk, powered, job, stalled, regulator, pipes, ddev,
                 slab, errVars, regVars>>

RegulatorFini ==
  /\ pc = "regulatorFini" /\ pc' = "clkFini" /\ regulator' = regulator - Supply
  /\ UNCHANGED <<ip, present, clk, powered, job, stalled, emptyVm, pipes, ddev,
                 slab, errVars, regVars>>

\* lima_clk_disable, which does not look at hw.lima.clk_stage.
ClkFini ==
  /\ pc = "clkFini" /\ pc' = "ddevPut" /\ clk' = ClkDown(clk, 3)
  /\ UNCHANGED <<ip, present, powered, job, stalled, devVars, errVars, regVars>>

DdevPut ==
  /\ pc = "ddevPut" /\ pc' = "slabFini" /\ ddev' = ddev - 1
  /\ UNCHANGED <<ip, present, clk, powered, job, stalled, regulator, emptyVm, pipes,
                 slab, errVars, regVars>>

\* The last of probe or remove; devm then frees the lima_device.
SlabFini ==
  /\ pc = "slabFini" /\ pc' = "absent" /\ slab' = slab - 1
  /\ present' = {} /\ ip' = 1
  /\ UNCHANGED <<clk, powered, job, stalled, regulator, emptyVm, pipes, ddev,
                 errVars, regVars>>

-----------------------------------------------------------------------------
(***************************************************************************)
(* lima_device_suspend and lima_device_resume.  The PM core has frozen the *)
(* processes, so that nothing is submitted.                                *)
(***************************************************************************)

Idle == \A p \in Pipe : job[p] = "none"  \* hw_rq_count is zero

Suspend_NotBusy ==
  /\ pc = "live" /\ pc' = "suspending" /\ ip' = Last
  /\ UNCHANGED <<present, clk, powered, job, stalled, devVars, errVars, regVars>>
Suspend ==
  /\ Idle
  /\ pc = "live" /\ pc' = "suspending" /\ ip' = Last
  /\ UNCHANGED <<present, clk, powered, job, stalled, devVars, errVars, regVars>>

SuspendIp ==
  /\ DownTo("suspending", "gate")
  /\ UNCHANGED <<present, clk, job, devVars, errVars, regVars>>

Gate_KeepsRegulator ==
  /\ pc = "gate" /\ pc' = "suspended" /\ clk' = ClkDown(clk, 3)
  /\ UNCHANGED <<ip, present, powered, job, stalled, devVars, errVars, regVars>>
Gate ==
  /\ pc = "gate" /\ pc' = "suspended"
  /\ regulator' = regulator - Supply /\ clk' = ClkDown(clk, 3)
  /\ UNCHANGED <<ip, present, powered, job, stalled, emptyVm, pipes, ddev, slab,
                 errVars, regVars>>

\* The clocks and the regulator, err_out0 included.
Resume ==
  /\ pc = "suspended"
  /\ \E s \in Stages :
       \/ /\ clk' = ClkUp(clk, s) /\ regulator' = regulator + Supply
          /\ pc' = "resuming" /\ ip' = 1
       \/ \E n \in ClkFailures(s) :
            clk' = ClkFailed(clk, n) /\ UNCHANGED <<pc, ip, regulator>>
       \/ /\ "regulator" \in MayFail /\ Supply = 1
          /\ clk' = ClkDown(ClkUp(clk, s), 3) /\ UNCHANGED <<pc, ip, regulator>>
  /\ UNCHANGED <<present, powered, job, stalled, emptyVm, pipes, ddev, slab,
                 errVars, regVars>>

\* lima_resume_ip, one block for each step.
ResumeIp ==
  /\ pc = "resuming"
  /\ Touch({Table[ip]} \cap present)
  /\ powered' = IF Table[ip] = "pmu" /\ "pmu" \in present THEN PowerUp ELSE powered
  /\ IF ip = Last THEN pc' = "live" /\ UNCHANGED ip ELSE ip' = ip + 1 /\ UNCHANGED pc
  /\ UNCHANGED <<present, clk, job, devVars, errVars, regVars>>

\* err_out1: back down over the blocks before the one that failed.
ResumeIpFails ==
  /\ pc = "resuming" /\ Table[ip] \in present \cap MayFail
  /\ Touch({Table[ip]})
  /\ IF ip = 1 THEN pc' = "gate" /\ UNCHANGED ip
     ELSE pc' = "suspending" /\ ip' = ip - 1
  /\ UNCHANGED <<present, clk, powered, job, devVars, errVars, regVars>>

-----------------------------------------------------------------------------
(***************************************************************************)
(* What runs beside them.                                                  *)
(***************************************************************************)

JobStep(p, from, to) == job[p] = from /\ job' = [job EXCEPT ![p] = to]

\* lima_sched_run_job; only an open file submits.
Submit(p) ==
  /\ pc = "live" /\ JobStep(p, "none", "run") /\ Touch(Cores(p))
  /\ UNCHANGED <<pc, ip, present, clk, powered, devVars, errVars, regVars>>

\* The core finishes and raises its line, or it never will.
HwDone(p) ==
  /\ JobStep(p, "run", "raised") \/ JobStep(p, "run", "hung")
  /\ UNCHANGED <<pc, ip, present, clk, powered, stalled, devVars, errVars, regVars>>

Irq(p) ==
  /\ JobStep(p, "raised", "none") /\ Touch(Cores(p))
  /\ UNCHANGED <<pc, ip, present, clk, powered, devVars, errVars, regVars>>

\* lima_sched_timedout_job with lima_sched_build_error_task_list.
AddError ==
  IF MaxErrorTasks > 0 /\ numTasks < MaxErrorTasks
  THEN errors' = errors + 1 /\ numTasks' = numTasks + 1
  ELSE UNCHANGED <<errors, numTasks>>

Timeout(p) ==
  /\ p \in pipes /\ JobStep(p, "hung", "none") /\ Touch(Cores(p))
  /\ AddError
  /\ UNCHANGED <<pc, ip, present, clk, powered, listLock, devVars, regVars>>

\* A write to hw.lima_error.
SysctlClear_KeepsCount ==
  /\ oid = 1 /\ errors' = 0
  /\ UNCHANGED <<pc, ip, present, clk, powered, job, stalled, listLock, numTasks,
                 devVars, regVars>>
SysctlClear ==
  /\ oid = 1 /\ errors' = 0 /\ numTasks' = 0
  /\ UNCHANGED <<pc, ip, present, clk, powered, job, stalled, listLock, devVars, regVars>>

Bringup == Probe \/ Alloc \/ ClkInit \/ RegulatorInit \/ VmInit \/ MapIomem
           \/ InitIp \/ InitIpFails \/ GpInit \/ PpInit \/ Register
Teardown == Remove \/ Fini \/ PpFini \/ GpFini \/ FiniIp \/ VmPut \/ RegulatorFini
            \/ ClkFini \/ DdevPut \/ SlabFini
Power == Suspend \/ SuspendIp \/ Gate \/ Resume \/ ResumeIp \/ ResumeIpFails
Use == \/ \E p \in Pipe : Submit(p) \/ HwDone(p) \/ Irq(p) \/ Timeout(p)
       \/ SysctlClear

Next == Bringup \/ Teardown \/ Power \/ Use
Spec == Init /\ [][Next]_vars

-----------------------------------------------------------------------------
(***************************************************************************)
(* Properties.                                                             *)
(***************************************************************************)

\* The type of the state.  Every count of a reference or an enable is 0 or 1:
\* no path of probe, remove, suspend or resume takes one twice or gives one
\* back that it does not have.
TypeOK ==
  /\ pc \in {"absent", "alloc", "clk", "regulator", "vm", "iomem", "ips", "gpInit",
             "ppInit", "register", "live", "slabFini", "ddevPut", "clkFini",
             "regulatorFini", "vmPut", "ipsFini", "gpFini", "ppFini", "fini",
             "suspending", "gate", "suspended", "resuming"}
  /\ ip \in 0 .. Last /\ present \subseteq Ip /\ powered \subseteq PowerUp
  /\ clk \in [bus : {0, 1}, core : {0, 1}, reset : {0, 1}]
  /\ {regulator, emptyVm, ddev, slab, registered, oid, listLock} \subseteq {0, 1}
  /\ pipes \subseteq Pipe /\ errors \in Nat /\ numTasks \in 0 .. MaxErrorTasks
  /\ job \in [Pipe -> {"none", "run", "raised", "hung"}] /\ stalled \in BOOLEAN

\* A probe that fails, at whatever operation, and a remove leave nothing
\* behind: clocks, reset, regulator, address space, pipes, drm_device and
\* slab are as before (the labels of lima_device_init and lima_pdev_probe).
AllReturned ==
  pc = "absent" =>
    /\ clk = [bus |-> 0, core |-> 0, reset |-> 0]
    /\ regulator = 0 /\ emptyVm = 0 /\ pipes = {} /\ ddev = 0 /\ slab = 0
    /\ registered = 0 /\ oid = 0 /\ listLock = 0 /\ Idle

\* No register is accessed while its block has no clock or no power: on this
\* SoC that stalls the bus and with it the board (lima_pmu.c, lima_init_ip).
NoStall == ~stalled

\* While the hardware has a job, and whenever the device is live, the pipe is
\* set up and all blocks it drives have clock, supply and power: what suspend
\* refuses while hw_rq_count is not zero, and remove waits for.
UpWhileUsed ==
  \A p \in Pipe : pc = "live" \/ job[p] # "none" =>
    /\ p \in pipes /\ regulator = Supply /\ emptyVm = 1
    /\ \A i \in Cores(p) : Reachable(i)

\* The header of the error dump counts the tasks in its list, which is never
\* longer than lima_max_error_tasks.
ErrorsExact == listLock = 1 => errors = numTasks /\ errors <= MaxErrorTasks

\* lima_device_fini frees all kernel resources, the error tasks among them.
\* Not so: the list is drained before the pipes are torn down, and a job that
\* times out meanwhile adds to it.
ErrorsFreed == pc = "absent" => errors = 0
=============================================================================
