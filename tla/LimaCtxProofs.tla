--------------------------- MODULE LimaCtxProofs ---------------------------
(***************************************************************************)
(* Theorems about the device, and about contexts on it.                    *)
(*                                                                         *)
(* The first are about probe, remove, suspend and resume, whichever of     *)
(* their operations fail, with or without a regulator, for every limit of  *)
(* the error list.  A bring-up whose hw.lima.clk_stage is below 3 gives    *)
(* back clocks it did not enable; all but the error list assume it is 3.   *)
(* The others are for every number of contexts and threads: the device     *)
(* under them is that of LimaDevice, and a context lives exactly as long   *)
(* as its handle and its submissions.                                      *)
(***************************************************************************)
EXTENDS LimaCtx, FiniteSetTheorems, TLAPS

AllStages == Stages = {3}

\* Without it the driver goes on with its blocks powered off, see the run
\* DevicePmuFails.
PmuComesUp == "pmu" \notin MayFail

ClkOn  == [bus |-> 1, core |-> 1, reset |-> 1]
ClkOff == [bus |-> 0, core |-> 0, reset |-> 0]

Alive == {"live", "suspending", "gate", "suspended", "resuming"}
ToGp  == {"ips", "gpInit", "ppInit", "register", "fini", "ppFini", "gpFini", "ipsFini",
          "live", "suspending", "gate", "resuming"}

\* What the labels of probe and remove still have to give back is what has
\* been taken, and no more.
HeldInv ==
  /\ slab = IF pc = "absent" THEN 0 ELSE 1
  /\ ddev = IF pc \in {"absent", "alloc", "slabFini"} THEN 0 ELSE 1
  /\ clk = IF pc \in {"regulator", "vm", "iomem", "clkFini", "regulatorFini", "vmPut"} \cup ToGp
           THEN ClkOn ELSE ClkOff
  /\ regulator = IF pc \in {"vm", "iomem", "regulatorFini", "vmPut"} \cup ToGp
                 THEN Supply ELSE 0
  /\ emptyVm = IF pc \in {"iomem", "suspended", "vmPut"} \cup ToGp THEN 1 ELSE 0
  /\ "gp" \in pipes <=> pc \in {"ppInit", "register", "fini", "ppFini", "gpFini"} \cup Alive
  /\ "pp" \in pipes <=> pc \in {"register", "fini", "ppFini"} \cup Alive
  /\ listLock = IF pc \in {"register", "fini"} \cup Alive THEN 1 ELSE 0
  /\ registered = IF pc \in Alive THEN 1 ELSE 0
  /\ oid = registered

\* lima_device_suspend refuses while a pipe has a job; remove waits for it.
JobInv ==
  \A p \in Pipe : job[p] # "none" =>
    pc \in {"live", "fini", "ppFini"} \/ (p = "gp" /\ pc = "gpFini")

IpInv ==
  /\ pc \in {"gpInit", "ppInit", "register", "live", "fini", "ppFini", "gpFini"} => ip = Last
  /\ pc \in {"ips", "ipsFini", "suspending", "resuming"} => ip \in 1 .. Last

Inv == TypeOK /\ HeldInv /\ JobInv /\ IpInv

\* The PMU is first in lima_ip_desc: what comes after it has power until the
\* loop over the blocks comes back to it.
PowerInv ==
  /\ NoStall
  /\ (pc = "ips" /\ ip > 1)
     \/ pc \in {"gpInit", "ppInit", "register", "fini", "ppFini", "gpFini"} \cup Alive =>
       "pmu" \in present
  /\ pc \in {"ips", "resuming"} /\ ip > 1 => powered = PowerUp
  /\ pc \in {"gpInit", "ppInit", "register", "live", "fini", "ppFini", "gpFini"} =>
       powered = PowerUp

-----------------------------------------------------------------------------
(***************************************************************************)
(* Facts about the clocks and the table.                                   *)
(***************************************************************************)

LEMMA Clocks ==
  /\ ClkUp(ClkOff, 3) = ClkOn /\ ClkDown(ClkOn, 3) = ClkOff
  /\ \A n \in 0 .. 2 : ClkFailed(ClkOff, n) = ClkOff
BY DEF ClkOn, ClkOff, ClkUp, ClkDown, ClkFailed, Step

\* Whichever step of lima_clk_enable fails, nothing stays enabled.
LEMMA ClkSteps ==
  ASSUME AllStages, NEW s \in Stages
  PROVE  /\ ClkUp(ClkOff, s) = ClkOn /\ ClkDown(ClkUp(ClkOff, s), 3) = ClkOff
         /\ \A n \in ClkFailures(s) : ClkFailed(ClkOff, n) = ClkOff
<1>1. s = 3 /\ ClkFailures(s) \subseteq 0 .. 2
  BY DEF AllStages, ClkFailures
<1>. QED  BY <1>1, Clocks

LEMMA ClkTypes ==
  /\ ClkOn \in [bus : {0, 1}, core : {0, 1}, reset : {0, 1}]
  /\ ClkOff \in [bus : {0, 1}, core : {0, 1}, reset : {0, 1}]
BY DEF ClkOn, ClkOff

LEMMA Blocks ==
  /\ Last = 8 /\ Table[1] = "pmu"
  /\ \A n \in 1 .. Last : Table[n] \in Ip
  /\ \A n \in 1 .. Last : Order(n) = Table[n]
  /\ "pmu" \notin Must
  /\ \A i \in Ip : i = "pmu" \/ Domain(i) \in PowerUp
  /\ \A n \in 1 .. Last : Table[n] = "pmu" => n = 1
<1>1. Last = 8
  BY DEF Last, Table
<1>2. Ip = {"pmu", "l2_cache0", "gp", "pp0", "pp1", "gpmmu", "ppmmu0", "ppmmu1"}
  BY <1>1 DEF Ip, Table, Last
<1>3. \A n \in 1 .. Last : Table[n] \in Ip
  BY DEF Ip, Last
<1>4. Table[1] = "pmu" /\ \A n \in 1 .. 8 : Table[n] = "pmu" => n = 1
  BY DEF Table
<1>5. \A i \in Ip : i = "pmu" \/ Domain(i) \in PowerUp
  BY <1>2 DEF Domain, PowerUp
<1>. QED  BY <1>1, <1>3, <1>4, <1>5 DEF Must, Order

LEMMA TouchType ==
  ASSUME NEW S, Touch(S), stalled \in BOOLEAN
  PROVE  stalled' \in BOOLEAN
BY DEF Touch

-----------------------------------------------------------------------------
(***************************************************************************)
(* Type correctness, and what is held.                                     *)
(***************************************************************************)
LEMMA InitInv == Init => Inv
<1>. SUFFICES ASSUME Init PROVE Inv
  OBVIOUS
<1>0. Last = 8 /\ clk = ClkOff
  BY Blocks DEF Init, ClkOff
<1>1. TypeOK
  <2>1. /\ powered \subseteq PowerUp /\ present = {} /\ pipes = {} /\ pc = "absent"
        /\ ip = 1 /\ errors = 0 /\ numTasks = 0 /\ stalled = FALSE
        /\ job \in [Pipe -> {"none", "run", "raised", "hung"}]
        /\ {regulator, emptyVm, ddev, slab, registered, oid, listLock} \subseteq {0, 1}
    BY DEF Init, PowerUp
  <2>2. 0 \in 0 .. MaxErrorTasks /\ 1 \in 0 .. Last
    BY <1>0, DeviceAssumption DEF DeviceAssumption
  <2>. QED  BY <1>0, <2>1, <2>2, ClkTypes DEF TypeOK
<1>. QED  BY <1>1 DEF Init, Inv, HeldInv, JobInv, IpInv, ToGp, Alive, ClkOff

LEMMA BringupInv == ASSUME Inv, AllStages, Bringup PROVE Inv'
<1>. USE DeviceAssumption DEF Inv, TypeOK, HeldInv, JobInv, IpInv, Alive, ToGp, Pipe,
         devVars, errVars, regVars, DeviceAssumption
<1>1. CASE Probe
  BY <1>1 DEF Probe, Succeeds
<1>2. CASE Alloc
  BY <1>2 DEF Alloc, Succeeds, Fails
<1>3. CASE ClkInit
  <2>1. pc = "clk" /\ clk = ClkOff
    BY <1>3 DEF ClkInit, Succeeds
  <2>2. \/ pc' = "regulator" /\ clk' = ClkOn
        \/ pc' = "ddevPut" /\ clk' = ClkOff
    BY <1>3, <2>1, ClkSteps DEF ClkInit, Succeeds
  <2>. QED  BY <1>3, <2>1, <2>2, ClkTypes DEF ClkInit
<1>4. CASE RegulatorInit
  BY <1>4 DEF RegulatorInit, Succeeds, Fails
<1>5. CASE VmInit
  BY <1>5 DEF VmInit, Succeeds, Fails
<1>6. CASE MapIomem
  BY <1>6, Blocks DEF MapIomem, Succeeds, Fails
<1>7. CASE InitIp
  <2>1. Order(ip) \in Ip /\ Last = 8
    BY <1>7, Blocks DEF InitIp
  <2>2. stalled' \in BOOLEAN
    BY <1>7, TouchType DEF InitIp
  <2>. QED  BY <1>7, <2>1, <2>2 DEF InitIp
<1>8. CASE InitIpFails
  <2>1. ip \in 2 .. 8 /\ Last = 8
    BY <1>8, Blocks DEF InitIpFails
  <2>2. stalled' \in BOOLEAN
    BY <1>8, TouchType DEF InitIpFails
  <2>. QED  BY <1>8, <2>1, <2>2 DEF InitIpFails
<1>9. CASE GpInit
  <2>1. CASE Succeeds("gpInit", "ppInit") /\ pipes' = pipes \cup {"gp"}
    BY <1>9, <2>1 DEF GpInit, Succeeds
  <2>2. CASE Fails("gpInit", "gpPipe", "ipsFini") /\ UNCHANGED pipes
    BY <1>9, <2>2, Blocks DEF GpInit, Fails
  <2>. QED  BY <1>9, <2>1, <2>2 DEF GpInit
<1>10. CASE PpInit
  <2>1. CASE Fails("ppInit", "ppPipe", "gpFini")
    BY <1>10, <2>1 DEF PpInit, Fails, Succeeds
  <2>2. CASE Succeeds("ppInit", "register")
    <3>1. /\ pc = "ppInit" /\ pc' = "register" /\ pipes' = pipes \cup {"pp"}
          /\ listLock' = 1 /\ errors' = 0 /\ numTasks' = 0
          /\ UNCHANGED <<ip, present, clk, powered, job, stalled, regulator, emptyVm,
                         ddev, slab, regVars>>
      BY <1>10, <2>2 DEF PpInit, Fails, Succeeds
    <3>2. TypeOK'
      BY <3>1
    <3>3. HeldInv'
      BY <3>1
    <3>. QED  BY <3>1, <3>2, <3>3, Blocks
  <2>. QED  BY <1>10, <2>1, <2>2 DEF PpInit
<1>11. CASE Register
  BY <1>11 DEF Register, Succeeds, Fails
<1>. QED  BY <1>1, <1>2, <1>3, <1>4, <1>5, <1>6, <1>7, <1>8, <1>9, <1>10, <1>11 DEF Bringup

LEMMA FiniPipeInv ==
  ASSUME Inv, PpFini \/ GpFini
  PROVE  Inv'
<1>. USE DEF Inv, TypeOK, HeldInv, JobInv, IpInv, Alive, ToGp, Pipe, devVars, errVars,
         regVars
<1>1. stalled' \in BOOLEAN
  BY TouchType DEF PpFini, GpFini, FiniPipe
<1>2. ASSUME NEW p \in Pipe, NEW here, NEW next, FiniPipe(p, here, next)
      PROVE  /\ job' \in [Pipe -> {"none", "run", "raised", "hung"}] /\ job'[p] = "none"
             /\ \A q \in Pipe : job'[q] # "none" => q # p /\ job[q] # "none"
  BY <1>2 DEF FiniPipe
<1>3. CASE PpFini
  <2>1. /\ job' \in [Pipe -> {"none", "run", "raised", "hung"}] /\ job'["pp"] = "none"
        /\ \A q \in Pipe : job'[q] # "none" => q # "pp" /\ job[q] # "none"
    BY <1>2, <1>3 DEF PpFini
  <2>. QED  BY <1>1, <1>3, <2>1 DEF PpFini, FiniPipe
<1>4. CASE GpFini
  <2>1. /\ job' \in [Pipe -> {"none", "run", "raised", "hung"}] /\ job'["gp"] = "none"
        /\ \A q \in Pipe : job'[q] # "none" => q # "gp" /\ job[q] # "none"
    BY <1>2, <1>4 DEF GpFini
  <2>. QED  BY <1>1, <1>4, <2>1, Blocks DEF GpFini, FiniPipe
<1>. QED  BY <1>3, <1>4

LEMMA QuiesceType ==
  ASSUME TypeOK, Quiesce
  PROVE  stalled' \in BOOLEAN /\ powered' \subseteq PowerUp
BY TouchType DEF Quiesce, TypeOK

LEMMA TeardownInv == ASSUME Inv, Teardown PROVE Inv'
<1>. USE DeviceAssumption DEF Inv, TypeOK, HeldInv, JobInv, IpInv, Alive, ToGp, Pipe,
         devVars, errVars, regVars, DeviceAssumption
<1>1. CASE Remove
  BY <1>1 DEF Remove
<1>2. CASE Fini
  BY <1>2 DEF Fini
<1>3. CASE FiniIp
  <2>1. stalled' \in BOOLEAN /\ powered' \subseteq PowerUp /\ Last = 8
    BY <1>3, QuiesceType, Blocks DEF FiniIp, DownTo
  <2>. QED  BY <1>3, <2>1 DEF FiniIp, DownTo
<1>4. CASE VmPut
  BY <1>4 DEF VmPut
<1>5. CASE RegulatorFini
  BY <1>5 DEF RegulatorFini
<1>6. CASE ClkFini
  <2>1. clk' = ClkOff
    BY <1>6, Clocks DEF ClkFini
  <2>. QED  BY <1>6, <2>1, ClkTypes DEF ClkFini
<1>7. CASE DdevPut
  BY <1>7 DEF DdevPut
<1>8. CASE SlabFini
  BY <1>8, Blocks DEF SlabFini
<1>. QED  BY <1>1, <1>2, <1>3, <1>4, <1>5, <1>6, <1>7, <1>8, FiniPipeInv DEF Teardown

LEMMA PowerStepsInv == ASSUME Inv, AllStages, Power PROVE Inv'
<1>. USE DeviceAssumption DEF Inv, TypeOK, HeldInv, JobInv, IpInv, Alive, ToGp, Pipe,
         devVars, errVars, regVars, DeviceAssumption
<1>1. CASE Suspend
  BY <1>1, Blocks DEF Suspend, Idle
<1>2. CASE SuspendIp
  <2>1. stalled' \in BOOLEAN /\ powered' \subseteq PowerUp /\ Last = 8
    BY <1>2, QuiesceType, Blocks DEF SuspendIp, DownTo
  <2>. QED  BY <1>2, <2>1 DEF SuspendIp, DownTo
<1>3. CASE Gate
  <2>1. clk' = ClkOff
    BY <1>3, Clocks DEF Gate
  <2>. QED  BY <1>3, <2>1, ClkTypes DEF Gate
<1>4. CASE Resume
  <2>1. pc = "suspended" /\ clk = ClkOff /\ regulator = 0
    BY <1>4 DEF Resume
  <2>2. \/ pc' = "resuming" /\ ip' = 1 /\ clk' = ClkOn /\ regulator' = Supply
        \/ clk' = ClkOff /\ UNCHANGED <<pc, ip, regulator>>
    BY <1>4, <2>1, ClkSteps DEF Resume
  <2>. QED  BY <1>4, <2>1, <2>2, ClkTypes, Blocks DEF Resume
<1>5. CASE ResumeIp
  <2>1. stalled' \in BOOLEAN /\ powered' \subseteq PowerUp /\ Last = 8
    BY <1>5, TouchType, Blocks DEF ResumeIp
  <2>. QED  BY <1>5, <2>1 DEF ResumeIp
<1>6. CASE ResumeIpFails
  <2>1. stalled' \in BOOLEAN /\ Last = 8
    BY <1>6, TouchType, Blocks DEF ResumeIpFails
  <2>. QED  BY <1>6, <2>1 DEF ResumeIpFails
<1>. QED  BY <1>1, <1>2, <1>3, <1>4, <1>5, <1>6 DEF Power

LEMMA UseInv == ASSUME Inv, Use PROVE Inv'
<1>. USE DeviceAssumption DEF Inv, TypeOK, HeldInv, JobInv, IpInv, Alive, ToGp, Pipe,
         devVars, errVars, regVars, DeviceAssumption
<1>1. ASSUME NEW p \in Pipe, Submit(p) PROVE Inv'
  BY <1>1, TouchType DEF Submit, JobStep
<1>2. ASSUME NEW p \in Pipe, HwDone(p) PROVE Inv'
  BY <1>2 DEF HwDone, JobStep
<1>3. ASSUME NEW p \in Pipe, Irq(p) PROVE Inv'
  BY <1>3, TouchType DEF Irq, JobStep
<1>4. ASSUME NEW p \in Pipe, Timeout(p) PROVE Inv'
  <2>1. stalled' \in BOOLEAN
    BY <1>4, TouchType DEF Timeout
  <2>2. errors' \in Nat /\ numTasks' \in 0 .. MaxErrorTasks
    BY <1>4 DEF Timeout, AddError
  <2>. QED  BY <1>4, <2>1, <2>2 DEF Timeout, JobStep
<1>5. CASE SysctlClear
  BY <1>5 DEF SysctlClear
<1>. QED  BY <1>1, <1>2, <1>3, <1>4, <1>5 DEF Use

LEMMA Invariance == ASSUME AllStages PROVE Spec => []Inv
<1>1. Inv /\ [Next]_vars => Inv'
  <2>. SUFFICES ASSUME Inv, [Next]_vars PROVE Inv'
    OBVIOUS
  <2>1. CASE UNCHANGED vars
    BY <2>1 DEF vars, devVars, errVars, regVars, Inv, TypeOK, HeldInv, JobInv, IpInv
  <2>. QED  BY <2>1, BringupInv, TeardownInv, PowerStepsInv, UseInv DEF Next
<1>. QED  BY <1>1, InitInv, PTL DEF Spec

\* No path of probe, remove, suspend or resume takes a reference, an enable or
\* a pipe twice or gives one back that it does not have.
THEOREM TypeCorrect == ASSUME AllStages PROVE Spec => []TypeOK
<1>1. Inv => TypeOK
  BY DEF Inv
<1>. QED  BY <1>1, Invariance, PTL

\* A probe that fails at whatever operation, and a remove after any history of
\* jobs, suspends and resumes, leave nothing behind.
THEOREM ProbeAndRemoveReturnAll == ASSUME AllStages PROVE Spec => []AllReturned
<1>1. Inv => AllReturned
  BY DEF Inv, TypeOK, HeldInv, JobInv, AllReturned, Idle, Alive, ToGp, ClkOff, Pipe
<1>. QED  BY <1>1, Invariance, PTL

-----------------------------------------------------------------------------
(***************************************************************************)
(* Power.                                                                  *)
(***************************************************************************)
Powered == {"gpInit", "ppInit", "register", "live", "fini", "ppFini", "gpFini"}

LEMMA CoresAreBlocks ==
  ASSUME TypeOK, NEW p \in Pipe
  PROVE  Cores(p) \subseteq Ip
<1>1. Ip = {"pmu", "l2_cache0", "gp", "pp0", "pp1", "gpmmu", "ppmmu0", "ppmmu1"}
  BY DEF Ip, Table, Last
<1>. QED  BY <1>1 DEF Cores

\* What is touched with its clock and its power on does not stall.
LEMMA TouchOn ==
  ASSUME NEW S \in SUBSET Ip, Touch(S), NoStall, clk = ClkOn,
         S \subseteq {"pmu"} \/ powered = PowerUp
  PROVE  NoStall'
<1>1. ASSUME NEW i \in S PROVE Reachable(i)
  BY Blocks DEF Reachable, Clocked, ClkOn
<1>. QED  BY <1>1 DEF Touch, NoStall

LEMMA QuiesceOn ==
  ASSUME Quiesce, NoStall, clk = ClkOn, ip \in 1 .. Last
  PROVE  NoStall'
<1>1. "pmu" \in Ip
  BY Blocks
<1>. QED  BY <1>1, TouchOn DEF Quiesce, NoStall

LEMMA BringupOn ==
  ASSUME Inv, PowerInv, PmuComesUp, Bringup
  PROVE  PowerInv'
<1>. USE DEF Inv, TypeOK, HeldInv, JobInv, IpInv, Alive, ToGp, Powered, PowerInv
<1>1. CASE InitIp
  <2>1. Order(ip) \in Ip /\ Order(ip) = Table[ip] /\ Last = 8 /\ clk = ClkOn /\ ip \in 1 .. 8
        /\ (ip = 1 => Order(ip) = "pmu") /\ (ip > 1 => Order(ip) # "pmu")
    BY <1>1, Blocks DEF InitIp
  <2>2. ip = 1 => powered' = PowerUp /\ "pmu" \in present'
    BY <1>1, <2>1 DEF InitIp, PmuComesUp
  <2>3. ip > 1 => powered' = powered /\ "pmu" \in present'
    BY <1>1, <2>1 DEF InitIp
  <2>4. NoStall'
    BY <1>1, <2>1, TouchOn DEF InitIp
  <2>5. powered' = PowerUp
    BY <1>1, <2>1, <2>2, <2>3 DEF InitIp
  <2>. QED  BY <1>1, <2>1, <2>2, <2>3, <2>4, <2>5 DEF InitIp
<1>2. CASE InitIpFails
  <2>1. Order(ip) \in Ip /\ Last = 8 /\ clk = ClkOn /\ ip \in 2 .. 8
    BY <1>2, Blocks DEF InitIpFails
  <2>2. NoStall'
    BY <1>2, <2>1, TouchOn DEF InitIpFails
  <2>. QED  BY <1>2, <2>2 DEF InitIpFails
<1>3. CASE Probe \/ Alloc \/ ClkInit \/ RegulatorInit \/ VmInit \/ MapIomem
  BY <1>3 DEF Probe, Alloc, ClkInit, RegulatorInit, VmInit, MapIomem, Succeeds, Fails, NoStall
<1>4. CASE GpInit \/ PpInit \/ Register
  BY <1>4 DEF GpInit, PpInit, Register, Succeeds, Fails, NoStall
<1>. QED  BY <1>1, <1>2, <1>3, <1>4 DEF Bringup

LEMMA TeardownOn ==
  ASSUME Inv, PowerInv, Teardown
  PROVE  PowerInv'
<1>. USE DEF Inv, TypeOK, HeldInv, JobInv, IpInv, Alive, ToGp, Powered, PowerInv
<1>1. CASE Remove \/ Fini \/ VmPut \/ RegulatorFini \/ ClkFini \/ DdevPut \/ SlabFini
  BY <1>1 DEF Remove, Fini, VmPut, RegulatorFini, ClkFini, DdevPut, SlabFini, NoStall,
     devVars, errVars
<1>2. CASE PpFini \/ GpFini
  <2>1. NoStall'
    BY <1>2, TouchOn, CoresAreBlocks DEF PpFini, GpFini, FiniPipe, NoStall, Pipe
  <2>. QED  BY <1>2, <2>1 DEF PpFini, GpFini, FiniPipe
<1>3. CASE FiniIp
  <2>1. NoStall'
    BY <1>3, QuiesceOn DEF FiniIp, DownTo
  <2>. QED  BY <1>3, <2>1 DEF FiniIp, DownTo
<1>. QED  BY <1>1, <1>2, <1>3 DEF Teardown

LEMMA PowerStepsOn ==
  ASSUME Inv, PowerInv, PmuComesUp, Power
  PROVE  PowerInv'
<1>. USE DEF Inv, TypeOK, HeldInv, JobInv, IpInv, Alive, ToGp, Powered, PowerInv
<1>1. CASE Suspend \/ Gate
  BY <1>1 DEF Suspend, Gate, NoStall
<1>2. CASE SuspendIp
  <2>1. NoStall'
    BY <1>2, QuiesceOn DEF SuspendIp, DownTo
  <2>. QED  BY <1>2, <2>1 DEF SuspendIp, DownTo
<1>3. CASE Resume
  BY <1>3 DEF Resume, NoStall
<1>4. CASE ResumeIp
  <2>1. Table[ip] \in Ip /\ Last = 8 /\ clk = ClkOn /\ ip \in 1 .. 8 /\ "pmu" \in present
        /\ (ip = 1 => Table[ip] = "pmu")
    BY <1>4, Blocks DEF ResumeIp
  <2>2. NoStall'
    BY <1>4, <2>1, TouchOn DEF ResumeIp
  <2>3. powered' = PowerUp
    BY <1>4, <2>1 DEF ResumeIp
  <2>. QED  BY <1>4, <2>1, <2>2, <2>3 DEF ResumeIp
<1>5. CASE ResumeIpFails
  <2>1. Table[ip] \in Ip /\ Last = 8 /\ clk = ClkOn /\ ip \in 2 .. 8
    BY <1>5, Blocks DEF ResumeIpFails, PmuComesUp
  <2>2. NoStall'
    BY <1>5, <2>1, TouchOn DEF ResumeIpFails
  <2>. QED  BY <1>5, <2>1, <2>2 DEF ResumeIpFails
<1>. QED  BY <1>1, <1>2, <1>3, <1>4, <1>5 DEF Power

LEMMA UseOn ==
  ASSUME Inv, PowerInv, Use
  PROVE  PowerInv'
<1>. USE DEF Inv, TypeOK, HeldInv, JobInv, IpInv, Alive, ToGp, Powered, PowerInv
<1>1. ASSUME NEW p \in Pipe, Submit(p) \/ Irq(p) \/ Timeout(p) PROVE PowerInv'
  <2>1. pc \in Powered /\ clk = ClkOn /\ powered = PowerUp /\ Touch(Cores(p))
    BY <1>1 DEF Submit, Irq, Timeout, JobStep
  <2>2. NoStall'
    BY <2>1, TouchOn, CoresAreBlocks
  <2>. QED  BY <1>1, <2>2 DEF Submit, Irq, Timeout
<1>2. ASSUME NEW p \in Pipe, HwDone(p) PROVE PowerInv'
  BY <1>2 DEF HwDone, NoStall
<1>3. CASE SysctlClear
  BY <1>3 DEF SysctlClear, NoStall
<1>. QED  BY <1>1, <1>2, <1>3 DEF Use

LEMMA PowerInvariance == ASSUME AllStages, PmuComesUp PROVE Spec => []PowerInv
<1>1. Init => PowerInv
  BY DEF Init, PowerInv, NoStall, Alive
<1>2. Inv /\ PowerInv /\ [Next]_vars => PowerInv'
  <2>. SUFFICES ASSUME Inv, PowerInv, [Next]_vars PROVE PowerInv'
    OBVIOUS
  <2>1. CASE UNCHANGED vars
    BY <2>1 DEF vars, PowerInv, NoStall
  <2>. QED  BY <2>1, BringupOn, TeardownOn, PowerStepsOn, UseOn DEF Next
<1>. QED  BY <1>1, <1>2, Invariance, PTL DEF Spec

\* The PMU comes first in lima_ip_desc and goes last in the loops back: no
\* register is accessed without clock or power, whatever else fails.
THEOREM BoardDoesNotStall == ASSUME AllStages, PmuComesUp PROVE Spec => []NoStall
<1>1. PowerInv => NoStall
  BY DEF PowerInv
<1>. QED  BY <1>1, PowerInvariance, PTL

\* lima_device_suspend refuses and lima_sched_pipe_fini waits while a pipe has
\* a job: its blocks have clock, supply and power for as long.
THEOREM JobsHavePower == ASSUME AllStages, PmuComesUp PROVE Spec => []UpWhileUsed
<1>1. Inv /\ PowerInv => UpWhileUsed
  <2>. SUFFICES ASSUME Inv, PowerInv, NEW p \in Pipe, pc = "live" \/ job[p] # "none"
                PROVE  /\ p \in pipes /\ regulator = Supply /\ emptyVm = 1
                       /\ \A i \in Cores(p) : Reachable(i)
    BY DEF UpWhileUsed
  <2>1. pc \in {"live", "fini", "ppFini"} \/ (p = "gp" /\ pc = "gpFini")
    BY DEF Inv, JobInv
  <2>2. /\ p \in pipes /\ regulator = Supply /\ emptyVm = 1
        /\ clk = ClkOn /\ powered = PowerUp
    BY <2>1 DEF Inv, HeldInv, PowerInv, Alive, ToGp, Pipe
  <2>3. ASSUME NEW i \in Cores(p) PROVE Reachable(i)
    BY <2>2, CoresAreBlocks, Blocks DEF Reachable, Clocked, ClkOn, Inv
  <2>. QED  BY <2>2, <2>3
<1>. QED  BY <1>1, Invariance, PowerInvariance, PTL

-----------------------------------------------------------------------------
(***************************************************************************)
(* The list of error tasks.                                                *)
(***************************************************************************)
ErrInv ==
  /\ errors \in Nat /\ numTasks \in 0 .. MaxErrorTasks /\ listLock \in {0, 1}
  /\ ErrorsExact

\* lima_sched_build_error_task_list and the write to hw.lima_error keep the
\* header and the list together, for every lima_max_error_tasks.
THEOREM ErrorListIsExact == Spec => []ErrorsExact
<1>. USE DeviceAssumption DEF ErrInv, ErrorsExact, DeviceAssumption
<1>1. Init => ErrInv
  BY DEF Init
<1>2. ErrInv /\ [Next]_vars => ErrInv'
  <2>. SUFFICES ASSUME ErrInv, [Next]_vars PROVE ErrInv'
    OBVIOUS
  <2>1. CASE UNCHANGED vars
    BY <2>1 DEF vars, errVars
  <2>2. CASE PpInit \/ Fini \/ SysctlClear
    BY <2>2 DEF PpInit, Fini, SysctlClear, errVars
  <2>3. ASSUME NEW p \in Pipe, Timeout(p) PROVE ErrInv'
    BY <2>3 DEF Timeout, AddError
  <2>4. ASSUME NEW p \in Pipe, Submit(p) \/ HwDone(p) \/ Irq(p) PROVE ErrInv'
    BY <2>4 DEF Submit, HwDone, Irq, errVars
  <2>5. CASE Probe \/ Alloc \/ ClkInit \/ RegulatorInit \/ VmInit \/ MapIomem
             \/ InitIp \/ InitIpFails \/ GpInit \/ Register
    BY <2>5 DEF Probe, Alloc, ClkInit, RegulatorInit, VmInit, MapIomem, InitIp,
       InitIpFails, GpInit, Register, errVars
  <2>6. CASE Remove \/ PpFini \/ GpFini \/ FiniIp \/ VmPut \/ RegulatorFini
             \/ ClkFini \/ DdevPut \/ SlabFini
    BY <2>6 DEF Remove, PpFini, GpFini, FiniPipe, FiniIp, VmPut, RegulatorFini, ClkFini,
       DdevPut, SlabFini, errVars
  <2>7. CASE Power
    BY <2>7 DEF Power, Suspend, SuspendIp, Gate, Resume, ResumeIp, ResumeIpFails, errVars
  <2>. QED  BY <2>1, <2>2, <2>3, <2>4, <2>5, <2>6, <2>7 DEF Next, Bringup, Teardown, Use
<1>3. ErrInv => ErrorsExact
  OBVIOUS
<1>. QED  BY <1>1, <1>2, <1>3, PTL DEF Spec

-----------------------------------------------------------------------------
(***************************************************************************)
(* Contexts.                                                               *)
(***************************************************************************)
CtxType ==
  /\ file \in {"closed", "open", "closing"} /\ handles \subseteq Ctx
  /\ lock \in Thread \cup {"none"}
  /\ refcnt \in [Ctx -> Nat] /\ entity \in [Ctx -> SUBSET Pipe]
  /\ queued \in [Targets -> 0 .. MaxQueued] /\ owner \in [Pipe -> Ctx]
  /\ act \in [Actor -> {"idle", "created", "submit", "put", "release"}]
  /\ on \in [Actor -> Targets]

\* Whoever dropped the last reference is alone in lima_ctx_do_release, which
\* destroys the entity of the GP first; a context is gone when it is through.
ReleaseInv ==
  /\ \A t \in Actor : act[t] = "release" =>
       /\ refcnt[on[t][1]] = 0
       /\ entity[on[t][1]] = IF on[t][2] = "gp" THEN Pipe ELSE {"pp"}
       /\ \A s \in Actor : act[s] = "release" /\ on[s][1] = on[t][1] => s = t
  /\ \A c \in Ctx : refcnt[c] = 0 =>
       entity[c] = {} \/ \E t \in Actor : act[t] = "release" /\ on[t][1] = c

\* The file is closed after its last ioctl, and its contexts go with it.
FileInv ==
  /\ act["close"] \in {"idle", "release"}
  /\ file # "open" => \A t \in Thread : act[t] = "idle"
  /\ file # "closing" => act["close"] = "idle"
  /\ file = "closed" => handles = {}

QueueInv == \A c \in Ctx, p \in Pipe : queued[<<c, p>>] > 0 => p \in entity[c]

CtxInv == CtxType /\ CtxRefsExact /\ ReleaseInv /\ FileInv /\ QueueInv

-----------------------------------------------------------------------------
(***************************************************************************)
(* The device.                                                             *)
(***************************************************************************)

\* Contexts add nothing to what the device does: each step of the composition
\* is one of LimaDevice or none, so that what is proved of it holds here.
THEOREM CtxRunsOnDevice == CtxSpec => Spec
<1>1. CtxInit => Init
  BY DEF CtxInit
<1>2. [CtxNext]_ctxAllVars => [Next]_vars
  <2>. SUFFICES ASSUME [CtxNext]_ctxAllVars PROVE [Next]_vars
    OBVIOUS
  <2>1. CASE UNCHANGED ctxAllVars
    BY <2>1 DEF ctxAllVars
  <2>2. CASE DeviceSteps
    BY <2>2 DEF DeviceSteps, FiniJob, Next, Teardown, Use
  <2>3. CASE Open \/ Close \/ PostClose
    BY <2>3 DEF Open, Close, PostClose
  <2>4. ASSUME NEW t \in Thread, Ioctl(t) PROVE UNCHANGED vars
    BY <2>4 DEF Ioctl, CtxCreate, CtxFree, CtxGet, CtxCreated, GemSubmit, CtxPut
  <2>5. ASSUME NEW t \in Actor, Release(t) PROVE UNCHANGED vars
    BY <2>5 DEF Release
  <2>6. ASSUME NEW c \in Ctx, CtxMgrFini(c) PROVE UNCHANGED vars
    BY <2>6 DEF CtxMgrFini
  <2>7. ASSUME NEW c \in Ctx, NEW p \in Pipe, Pop(c, p) PROVE Next
    BY <2>7 DEF Pop, Next, Use
  <2>8. ASSUME NEW p \in Pipe, JobEnds(p) \/ HwDone(p) PROVE Next
    BY <2>8 DEF JobEnds, Next, Use
  <2>. QED  BY <2>1, <2>2, <2>3, <2>4, <2>5, <2>6, <2>7, <2>8 DEF CtxNext
<1>. QED  BY <1>1, <1>2, PTL DEF CtxSpec, Spec

-----------------------------------------------------------------------------
(***************************************************************************)
(* Facts about threads and what they do.                                   *)
(***************************************************************************)
LEMMA Someone == Nobody \in Targets /\ Nobody[1] \in Ctx /\ "close" \in Actor
                 /\ Thread \subseteq Actor
<1>1. Ctx # {} /\ Pipe # {}
  BY CtxAssumption DEF CtxAssumption, Pipe
<1>2. Targets # {}
  <2>1. PICK c \in Ctx, p \in Pipe : TRUE
    BY <1>1
  <2>2. <<c, p>> \in Targets
    BY DEF Targets
  <2>. QED  BY <2>2
<1>3. Nobody \in Targets
  BY <1>2 DEF Nobody
<1>. QED  BY <1>3 DEF Targets, Actor

LEMMA HoldersFinite ==
  ASSUME NEW c
  PROVE  IsFiniteSet(Holders(c)) /\ Cardinality(Holders(c)) \in Nat
BY CtxAssumption, FS_Subset, FS_CardinalityType DEF Holders, CtxAssumption

LEMMA CtxInitInv == CtxInit => CtxInv
<1>. SUFFICES ASSUME CtxInit PROVE CtxInv
  OBVIOUS
<1>1. CtxType
  BY Someone, CtxAssumption DEF CtxInit, CtxType, CtxAssumption
<1>2. \A c \in Ctx : Holders(c) = {}
  BY Someone DEF CtxInit, Holders
<1>3. CtxRefsExact
  <2>1. SUFFICES ASSUME NEW c \in Ctx
                 PROVE  refcnt[c] = Cardinality(Holders(c)) /\ handles = {} /\ refcnt[c] = 0
    BY DEF CtxRefsExact
  <2>2. Holders(c) = {} /\ Cardinality({}) = 0
    BY <1>2, FS_EmptySet
  <2>. QED  BY <2>2 DEF CtxInit
<1>4. ReleaseInv /\ FileInv /\ QueueInv
  BY Someone DEF CtxInit, ReleaseInv, FileInv, QueueInv, Targets
<1>. QED  BY <1>1, <1>3, <1>4 DEF CtxInv

\* A step of the device, the file or a thread that neither holds nor releases
\* anything, before and after.
LEMMA QuietInv ==
  ASSUME CtxInv, CtxType', FileInv', QueueInv',
         UNCHANGED <<handles, refcnt, entity>>,
         \A t \in Actor : /\ act'[t] \in {"submit", "put"} <=> act[t] \in {"submit", "put"}
                          /\ act'[t] = "release" <=> act[t] = "release"
                          /\ act[t] \in {"submit", "put", "release"} => on'[t] = on[t]
  PROVE  CtxInv'
<1>1. \A c \in Ctx : Holders(c)' = Holders(c)
  BY Someone DEF Holders
<1>2. CtxRefsExact'
  BY <1>1 DEF CtxInv, CtxRefsExact
<1>3. ReleaseInv'
  BY DEF CtxInv, ReleaseInv
<1>. QED  BY <1>2, <1>3 DEF CtxInv

LEMMA GotoType ==
  ASSUME CtxType, NEW t \in Actor, NEW from, NEW x,
         NEW to \in {"idle", "created", "submit", "put", "release"},
         Goto(t, from, to, x), to # "idle" => x \in Targets
  PROVE  /\ act' \in [Actor -> {"idle", "created", "submit", "put", "release"}]
         /\ on' \in [Actor -> Targets]
         /\ act[t] = from /\ act'[t] = to /\ (to # "idle" => on'[t] = x)
         /\ \A s \in Actor : s # t => act'[s] = act[s] /\ on'[s] = on[s]
BY Someone DEF Goto, CtxType

-----------------------------------------------------------------------------
(***************************************************************************)
(* Steps that take or drop a reference.                                    *)
(***************************************************************************)

\* A thread takes a reference to c, which nobody releases.
LEMMA KeepsReleases ==
  ASSUME CtxInv, NEW c \in Ctx, NEW t \in Thread, act[t] = "idle", act'[t] # "release",
         \A s \in Actor : s # t => act'[s] = act[s] /\ on'[s] = on[s],
         \A s \in Actor : act[s] = "release" => on[s][1] # c,
         \A d \in Ctx : d # c => refcnt'[d] = refcnt[d] /\ entity'[d] = entity[d],
         refcnt'[c] # 0
  PROVE  ReleaseInv'
<1>1. ASSUME NEW s \in Actor, act'[s] = "release"
      PROVE  act[s] = "release" /\ on'[s] = on[s] /\ on[s][1] \in Ctx \ {c}
  <2>1. s # t /\ act[s] = "release" /\ on'[s] = on[s]
    BY <1>1
  <2>2. on[s] \in Targets
    BY DEF CtxInv, CtxType
  <2>. QED  BY <2>1, <2>2 DEF Targets
<1>2. \A s \in Actor : act[s] = "release" => s # t /\ act'[s] = "release" /\ on'[s] = on[s]
  OBVIOUS
<1>3. ASSUME NEW s \in Actor, act'[s] = "release"
      PROVE  /\ refcnt'[on'[s][1]] = 0
             /\ entity'[on'[s][1]] = IF on'[s][2] = "gp" THEN Pipe ELSE {"pp"}
             /\ \A r \in Actor : act'[r] = "release" /\ on'[r][1] = on'[s][1] => r = s
  BY <1>1, <1>3 DEF CtxInv, ReleaseInv
<1>4. ASSUME NEW d \in Ctx, refcnt'[d] = 0
      PROVE  entity'[d] = {} \/ \E s \in Actor : act'[s] = "release" /\ on'[s][1] = d
  <2>1. d # c /\ refcnt[d] = 0 /\ entity'[d] = entity[d]
    BY <1>4
  <2>. QED  BY <1>2, <2>1 DEF CtxInv, ReleaseInv
<1>. QED  BY <1>3, <1>4 DEF ReleaseInv

\* kref_get, or the first reference: one more of the threads or the handles.
LEMMA GetInv ==
  ASSUME CtxInv, NEW t \in Thread, NEW c \in Ctx, NEW p \in Pipe, CtxGet(t, c, p)
  PROVE  CtxInv'
<1>1. /\ act[t] = "idle" /\ c \in handles /\ file = "open"
      /\ refcnt' = [refcnt EXCEPT ![c] = @ + 1]
      /\ Goto(t, "idle", "submit", <<c, p>>) /\ <<c, p>> \in Targets
      /\ UNCHANGED <<fileVars, entity, queued, owner>>
  BY DEF CtxGet, Calls, Targets
<1>2. /\ act' \in [Actor -> {"idle", "created", "submit", "put", "release"}]
      /\ on' \in [Actor -> Targets]
      /\ act'[t] = "submit" /\ on'[t] = <<c, p>>
      /\ \A s \in Actor : s # t => act'[s] = act[s] /\ on'[s] = on[s]
  BY <1>1, GotoType, Someone DEF CtxInv
<1>3. CtxType'
  BY <1>1, <1>2 DEF CtxInv, CtxType, fileVars
<1>4. Holders(c)' = Holders(c) \cup {t} /\ t \notin Holders(c)
      /\ \A d \in Ctx : d # c => Holders(d)' = Holders(d)
  BY <1>1, <1>2, Someone DEF Holders
<1>5. Cardinality(Holders(c)') = Cardinality(Holders(c)) + 1
  BY <1>4, HoldersFinite, FS_AddElement
<1>6. refcnt[c] \in Nat /\ refcnt[c] > 0
  BY <1>1, HoldersFinite DEF CtxInv, CtxType, CtxRefsExact
<1>7. CtxRefsExact'
  BY <1>1, <1>4, <1>5, <1>6, HoldersFinite DEF CtxInv, CtxType, CtxRefsExact, fileVars
<1>8. ReleaseInv'
  <2>1. \A s \in Actor : act[s] = "release" => on[s][1] # c
    BY <1>6 DEF CtxInv, ReleaseInv
  <2>2. refcnt'[c] # 0 /\ \A d \in Ctx : d # c => refcnt'[d] = refcnt[d] /\ entity'[d] = entity[d]
    BY <1>1, <1>6 DEF CtxInv, CtxType
  <2>. QED  BY <1>1, <1>2, <2>1, <2>2, KeepsReleases
<1>9. FileInv' /\ QueueInv'
  BY <1>1, <1>2, CtxAssumption DEF CtxInv, FileInv, QueueInv, fileVars, CtxAssumption, Actor
<1>. QED  BY <1>3, <1>7, <1>8, <1>9 DEF CtxInv

LEMMA CreateInv ==
  ASSUME CtxInv, NEW t \in Thread, NEW c \in Ctx, CtxCreate(t, c)
  PROVE  CtxInv'
<1>1. /\ act[t] = "idle" /\ refcnt[c] = 0 /\ entity[c] = {} /\ file = "open"
      /\ refcnt' = [refcnt EXCEPT ![c] = 1]
      /\ entity' = [entity EXCEPT ![c] = Pipe]
      /\ handles' = handles \cup {c}
      /\ Goto(t, "idle", "created", <<c, "gp">>) /\ <<c, "gp">> \in Targets
      /\ UNCHANGED <<file, lock, queued, owner>>
  BY DEF CtxCreate, Calls, Targets, Pipe, Allocated, CtxInv, CtxType
<1>2. /\ act' \in [Actor -> {"idle", "created", "submit", "put", "release"}]
      /\ on' \in [Actor -> Targets]
      /\ act'[t] = "created"
      /\ \A s \in Actor : s # t => act'[s] = act[s] /\ on'[s] = on[s]
  BY <1>1, GotoType, Someone DEF CtxInv
<1>3. CtxType'
  BY <1>1, <1>2 DEF CtxInv, CtxType
<1>4. \A d \in Ctx : Holders(d)' = Holders(d)
  BY <1>1, <1>2, Someone DEF Holders
<1>5. c \notin handles /\ Cardinality(Holders(c)) = 0
  BY <1>1, HoldersFinite DEF CtxInv, CtxRefsExact
<1>6. CtxRefsExact'
  BY <1>1, <1>4, <1>5, HoldersFinite DEF CtxInv, CtxType, CtxRefsExact
<1>7. \A s \in Actor : act[s] = "release" => on[s][1] # c
  BY <1>1 DEF CtxInv, ReleaseInv, Pipe
<1>8. ReleaseInv'
  <2>1. refcnt'[c] # 0 /\ \A d \in Ctx : d # c => refcnt'[d] = refcnt[d] /\ entity'[d] = entity[d]
    BY <1>1 DEF CtxInv, CtxType
  <2>. QED  BY <1>1, <1>2, <1>7, <2>1, KeepsReleases
<1>9. FileInv' /\ QueueInv'
  BY <1>1, <1>2, CtxAssumption DEF CtxInv, CtxType, FileInv, QueueInv, CtxAssumption, Actor
<1>. QED  BY <1>3, <1>6, <1>8, <1>9 DEF CtxInv

\* kref_put of a reference that is counted: refcnt is at least 1 before, and
\* nobody releases the context yet.
LEMMA PutInv ==
  ASSUME CtxInv, NEW t \in Actor, NEW from \in {"idle", "put"}, NEW c \in Ctx,
         Put(t, from, c), handles' \subseteq handles, refcnt[c] > 0,
         \A d \in Ctx : refcnt'[d] = Cardinality(Holders(d)')
                                     + (IF d \in handles' THEN 1 ELSE 0),
         lock' \in Thread \cup {"none"}, UNCHANGED <<entity, queued, owner, file>>,
         file # "open" => t = "close", t = "close" => file = "closing"
  PROVE  CtxInv'
<1>1. /\ refcnt' = [refcnt EXCEPT ![c] = @ - 1] /\ refcnt[c] \in Nat
      /\ refcnt' \in [Ctx -> Nat]
  BY DEF Put, CtxInv, CtxType
<1>2. <<c, "gp">> \in Targets
  BY DEF Targets, Pipe
<1>3. /\ act' \in [Actor -> {"idle", "created", "submit", "put", "release"}]
      /\ on' \in [Actor -> Targets] /\ act[t] = from
      /\ \A s \in Actor : s # t => act'[s] = act[s] /\ on'[s] = on[s]
      /\ refcnt[c] = 1 => act'[t] = "release" /\ on'[t] = <<c, "gp">>
      /\ refcnt[c] # 1 => act'[t] = "idle"
  <2>1. CASE refcnt[c] = 1
    <3>1. Goto(t, from, "release", <<c, "gp">>)
      BY <2>1 DEF Put
    <3>. QED  BY <1>2, <2>1, <3>1, GotoType DEF CtxInv
  <2>2. CASE refcnt[c] # 1
    <3>1. Goto(t, from, "idle", <<>>)
      BY <2>2 DEF Put
    <3>. QED  BY <2>2, <3>1, GotoType DEF CtxInv
  <2>. QED  BY <2>1, <2>2
<1>4. CtxType'
  BY <1>1, <1>3 DEF CtxInv, CtxType
<1>5. CtxRefsExact'
  BY <1>1 DEF CtxInv, CtxType, CtxRefsExact
<1>6. entity[c] = Pipe
  BY DEF CtxInv, CtxRefsExact
<1>7. \A s \in Actor : act[s] = "release" => on[s][1] # c /\ s # t
  BY <1>3 DEF CtxInv, ReleaseInv
<1>8. ASSUME NEW s \in Actor, act'[s] = "release"
      PROVE  /\ refcnt'[on'[s][1]] = 0
             /\ entity'[on'[s][1]] = IF on'[s][2] = "gp" THEN Pipe ELSE {"pp"}
             /\ \A r \in Actor : act'[r] = "release" /\ on'[r][1] = on'[s][1] => r = s
  <2>1. CASE s = t
    <3>1. refcnt[c] = 1 /\ on'[s] = <<c, "gp">>
      BY <1>3, <1>8, <2>1
    <3>2. refcnt'[c] = 0
      BY <1>1, <3>1
    <3>3. \A r \in Actor : act'[r] = "release" /\ on'[r][1] = c => r = s
      BY <1>3, <1>7, <2>1
    <3>. QED  BY <1>6, <3>1, <3>2, <3>3
  <2>2. CASE s # t
    <3>1. act[s] = "release" /\ on'[s] = on[s] /\ on[s][1] # c
      BY <1>3, <1>7, <1>8, <2>2
    <3>2. on[s] \in Targets /\ on[s][1] \in Ctx
      BY DEF CtxInv, CtxType, Targets
    <3>3. refcnt'[on[s][1]] = 0
      BY <1>1, <3>1, <3>2 DEF CtxInv, CtxType, ReleaseInv
    <3>4. \A r \in Actor : act'[r] = "release" /\ on'[r][1] = on[s][1] => r = s
      <4>. SUFFICES ASSUME NEW r \in Actor, act'[r] = "release", on'[r][1] = on[s][1]
                    PROVE  r = s
        OBVIOUS
      <4>1. r # t
        BY <1>3, <3>1
      <4>. QED  BY <1>3, <3>1, <4>1 DEF CtxInv, ReleaseInv
    <3>. QED  BY <3>1, <3>3, <3>4 DEF CtxInv, ReleaseInv
  <2>. QED  BY <2>1, <2>2
<1>9. ASSUME NEW d \in Ctx, refcnt'[d] = 0
      PROVE  entity'[d] = {} \/ \E s \in Actor : act'[s] = "release" /\ on'[s][1] = d
  <2>1. CASE d = c
    BY <1>1, <1>3, <1>9, <2>1
  <2>2. CASE d # c
    <3>1. refcnt[d] = 0
      BY <1>1, <1>9, <2>2 DEF CtxInv, CtxType
    <3>. QED  BY <1>3, <1>7, <3>1 DEF CtxInv, ReleaseInv
  <2>. QED  BY <2>1, <2>2
<1>10. ReleaseInv'
  BY <1>8, <1>9 DEF ReleaseInv
<1>11. FileInv' /\ QueueInv'
  <2>1. \A s \in Thread : s \in Actor /\ s # "close"
    BY CtxAssumption DEF CtxAssumption, Actor
  <2>. QED  BY <1>1, <1>3, <2>1 DEF CtxInv, FileInv, QueueInv, Actor
<1>. QED  BY <1>4, <1>5, <1>10, <1>11 DEF CtxInv

\* lima_ctx_free: the handle's reference.
LEMMA FreeInv ==
  ASSUME CtxInv, NEW t \in Thread, NEW c \in Ctx, CtxFree(t, c)
  PROVE  CtxInv'
<1>1. /\ act[t] = "idle" /\ c \in handles /\ handles' = handles \ {c} /\ file = "open"
      /\ lock' \in Thread \cup {"none"} /\ Put(t, "idle", c)
      /\ UNCHANGED <<entity, queued, owner, file>>
  BY DEF CtxFree, Calls
<1>2. refcnt[c] \in Nat /\ refcnt[c] > 0 /\ refcnt' = [refcnt EXCEPT ![c] = @ - 1]
  BY <1>1, HoldersFinite DEF CtxInv, CtxType, CtxRefsExact, Put
<1>3. \A s \in Actor : act'[s] \in {"submit", "put"} <=> act[s] \in {"submit", "put"}
  BY <1>1 DEF Put, Goto, CtxInv, CtxType
<1>4. \A s \in Actor : act[s] \in {"submit", "put"} => on'[s] = on[s]
  BY <1>1 DEF Put, Goto, CtxInv, CtxType
<1>5. \A d \in Ctx : Holders(d)' = Holders(d)
  BY <1>3, <1>4, Someone DEF Holders
<1>6. \A d \in Ctx : refcnt'[d] = Cardinality(Holders(d)') + (IF d \in handles' THEN 1 ELSE 0)
  BY <1>1, <1>2, <1>5, HoldersFinite DEF CtxInv, CtxType, CtxRefsExact
<1>7. t \in Actor /\ t # "close"
  BY Someone, CtxAssumption DEF CtxAssumption
<1>. QED  BY <1>1, <1>2, <1>6, <1>7, PutInv

\* lima_ctx_mgr_fini: the same, of what is left at the last close.
LEMMA MgrFiniInv ==
  ASSUME CtxInv, NEW c \in Ctx, CtxMgrFini(c)
  PROVE  CtxInv'
<1>1. /\ act["close"] = "idle" /\ c \in handles /\ handles' = handles \ {c}
      /\ file = "closing" /\ Put("close", "idle", c)
      /\ UNCHANGED <<entity, queued, owner, file, lock>>
  BY DEF CtxMgrFini, Put, Goto
<1>2. refcnt[c] \in Nat /\ refcnt[c] > 0 /\ refcnt' = [refcnt EXCEPT ![c] = @ - 1]
  BY <1>1, HoldersFinite DEF CtxInv, CtxType, CtxRefsExact, Put
<1>3. \A s \in Thread : act'[s] = act[s] /\ on'[s] = on[s]
  BY <1>1, Someone, CtxAssumption DEF Put, Goto, CtxInv, CtxType, CtxAssumption
<1>4. \A d \in Ctx : Holders(d)' = Holders(d)
  BY <1>3 DEF Holders
<1>5. \A d \in Ctx : refcnt'[d] = Cardinality(Holders(d)') + (IF d \in handles' THEN 1 ELSE 0)
  BY <1>1, <1>2, <1>4, HoldersFinite DEF CtxInv, CtxType, CtxRefsExact
<1>6. lock' \in Thread \cup {"none"}
  BY <1>1 DEF CtxInv, CtxType
<1>. QED  BY <1>1, <1>2, <1>5, <1>6, Someone, PutInv

\* lima_ctx_put at the end of a submission.
LEMMA CtxPutInv ==
  ASSUME CtxInv, NEW t \in Thread, CtxPut(t)
  PROVE  CtxInv'
<1>1. PICK c \in Ctx : c = on[t][1]
  BY Someone DEF CtxInv, CtxType, Targets
<1>2. /\ act[t] = "put" /\ Put(t, "put", c) /\ t \in Actor
      /\ UNCHANGED <<handles, lock, entity, queued, owner, file>>
  BY <1>1, Someone DEF CtxPut, fileVars
<1>3. t \in Holders(c) /\ t # "close" /\ file = "open"
  BY <1>1, <1>2, CtxAssumption DEF Holders, CtxAssumption, CtxInv, FileInv
<1>4. \A d \in Ctx : d # c => t \notin Holders(d)
  BY <1>1 DEF Holders
<1>5. Cardinality(Holders(c)) >= 1 /\ Cardinality(Holders(c) \ {t}) = Cardinality(Holders(c)) - 1
  BY <1>3, HoldersFinite, FS_RemoveElement, FS_CardinalityType, FS_EmptySet
<1>6. refcnt[c] \in Nat /\ refcnt[c] > 0 /\ refcnt' = [refcnt EXCEPT ![c] = @ - 1]
  <2>1. refcnt[c] = Cardinality(Holders(c)) + (IF c \in handles THEN 1 ELSE 0)
    BY <1>2 DEF CtxInv, CtxRefsExact
  <2>. QED  BY <1>1, <1>2, <1>5, <2>1, HoldersFinite DEF CtxInv, CtxType, Put
<1>7. /\ act'[t] \notin {"submit", "put"}
      /\ \A s \in Thread : s # t => act'[s] = act[s] /\ on'[s] = on[s]
  BY <1>1, <1>2, Someone DEF Put, Goto, CtxInv, CtxType
<1>8. Holders(c)' = Holders(c) \ {t} /\ \A d \in Ctx : d # c => Holders(d)' = Holders(d)
  BY <1>3, <1>4, <1>7 DEF Holders
<1>9. \A d \in Ctx : refcnt'[d] = Cardinality(Holders(d)') + (IF d \in handles' THEN 1 ELSE 0)
  <2>. SUFFICES ASSUME NEW d \in Ctx
                PROVE  refcnt'[d] = Cardinality(Holders(d)') + (IF d \in handles' THEN 1 ELSE 0)
    OBVIOUS
  <2>1. refcnt[d] = Cardinality(Holders(d)) + (IF d \in handles THEN 1 ELSE 0)
    BY DEF CtxInv, CtxRefsExact
  <2>2. CASE d # c
    BY <1>2, <1>6, <1>8, <2>1, <2>2 DEF CtxInv, CtxType
  <2>3. CASE d = c
    <3>1. Holders(d)' = Holders(c) \ {t}
      BY <1>8, <2>3
    <3>. QED  BY <1>2, <1>5, <1>6, <2>1, <2>3, <3>1, HoldersFinite DEF CtxInv, CtxType
  <2>. QED  BY <2>2, <2>3
<1>10. lock' \in Thread \cup {"none"} /\ handles' \subseteq handles
  BY <1>2 DEF CtxInv, CtxType
<1>. QED  BY <1>1, <1>2, <1>3, <1>6, <1>9, <1>10, PutInv

-----------------------------------------------------------------------------
(***************************************************************************)
(* lima_ctx_do_release.                                                    *)
(***************************************************************************)
LEMMA ReleaseStepInv ==
  ASSUME CtxInv, NEW t \in Actor, Release(t)
  PROVE  CtxInv'
<1>. DEFINE c == on[t][1]  p == on[t][2]
<1>1. /\ act[t] = "release" /\ queued' = [queued EXCEPT ![on[t]] = 0]
      /\ entity' = [entity EXCEPT ![c] = @ \ {p}]
      /\ IF p = "gp" THEN Goto(t, "release", "release", <<c, "pp">>) /\ UNCHANGED lock
         ELSE Goto(t, "release", "idle", <<>>) /\ lock' = IF lock = t THEN "none" ELSE lock
      /\ UNCHANGED <<file, handles, refcnt, owner>>
  BY DEF Release
<1>2. c \in Ctx /\ p \in Pipe /\ on[t] = <<c, p>> /\ <<c, "pp">> \in Targets
  BY DEF CtxInv, CtxType, Targets, Pipe
<1>3. /\ refcnt[c] = 0 /\ entity[c] = IF p = "gp" THEN Pipe ELSE {"pp"}
      /\ \A s \in Actor : s # t /\ act[s] = "release" => on[s][1] # c
  BY <1>1 DEF CtxInv, ReleaseInv
<1>. HIDE DEF c, p
<1>4. /\ act' \in [Actor -> {"idle", "created", "submit", "put", "release"}]
      /\ on' \in [Actor -> Targets]
      /\ \A s \in Actor : s # t => act'[s] = act[s] /\ on'[s] = on[s]
      /\ p = "gp" => act'[t] = "release" /\ on'[t] = <<c, "pp">>
      /\ p # "gp" => act'[t] = "idle"
  BY <1>1, <1>2, GotoType DEF CtxInv
<1>5. CtxType'
  <2>1. 0 \in 0 .. MaxQueued
    BY CtxAssumption DEF CtxAssumption
  <2>2. queued' \in [Targets -> 0 .. MaxQueued] /\ entity' \in [Ctx -> SUBSET Pipe]
        /\ lock' \in Thread \cup {"none"}
    BY <1>1, <2>1 DEF CtxInv, CtxType
  <2>. QED  BY <1>1, <1>4, <2>2 DEF CtxInv, CtxType
<1>6. \A d \in Ctx : Holders(d)' = Holders(d)
  BY <1>1, <1>4, Someone DEF Holders
<1>7. CtxRefsExact'
  BY <1>1, <1>2, <1>3, <1>6 DEF CtxInv, CtxType, CtxRefsExact
<1>8. entity'[c] = (IF p = "gp" THEN {"pp"} ELSE {})
      /\ \A d \in Ctx : d # c => entity'[d] = entity[d]
  BY <1>1, <1>2, <1>3 DEF CtxInv, CtxType, Pipe
<1>9. ReleaseInv'
  <2>1. ASSUME NEW s \in Actor, act'[s] = "release"
        PROVE  /\ refcnt'[on'[s][1]] = 0
               /\ entity'[on'[s][1]] = IF on'[s][2] = "gp" THEN Pipe ELSE {"pp"}
               /\ \A r \in Actor : act'[r] = "release" /\ on'[r][1] = on'[s][1] => r = s
    <3>1. CASE s = t
      <4>1. p = "gp" /\ on'[s] = <<c, "pp">>
        BY <1>4, <2>1, <3>1
      <4>2. \A r \in Actor : act'[r] = "release" /\ on'[r][1] = c => r = s
        BY <1>3, <1>4, <3>1
      <4>. QED  BY <1>1, <1>3, <1>8, <4>1, <4>2
    <3>2. CASE s # t
      <4>1. act[s] = "release" /\ on'[s] = on[s] /\ on[s][1] # c /\ on[s][1] \in Ctx
        BY <1>3, <1>4, <2>1, <3>2 DEF CtxInv, CtxType, Targets
      <4>2. \A r \in Actor : act'[r] = "release" /\ on'[r][1] = on[s][1] => r = s
        <5>. SUFFICES ASSUME NEW r \in Actor, act'[r] = "release", on'[r][1] = on[s][1]
                      PROVE  r = s
          OBVIOUS
        <5>1. r # t
          <6>1. r = t => on'[r][1] = c
            BY <1>4
          <6>. QED  BY <4>1, <6>1
        <5>. QED  BY <1>4, <4>1, <5>1 DEF CtxInv, ReleaseInv
      <4>. QED  BY <1>1, <1>8, <4>1, <4>2 DEF CtxInv, ReleaseInv
    <3>. QED  BY <3>1, <3>2
  <2>2. ASSUME NEW d \in Ctx, refcnt'[d] = 0
        PROVE  entity'[d] = {} \/ \E s \in Actor : act'[s] = "release" /\ on'[s][1] = d
    <3>1. CASE d = c
      BY <1>4, <1>8, <3>1
    <3>2. CASE d # c
      <4>1. refcnt[d] = 0 /\ entity'[d] = entity[d]
        BY <1>1, <1>8, <2>2, <3>2
      <4>2. \A s \in Actor : act[s] = "release" /\ on[s][1] = d => s # t
        BY <3>2 DEF c
      <4>. QED  BY <1>4, <4>1, <4>2 DEF CtxInv, ReleaseInv
    <3>. QED  BY <3>1, <3>2
  <2>. QED  BY <2>1, <2>2 DEF ReleaseInv
<1>10. QueueInv'
  <2>1. \A x \in Targets : x # <<c, p>> => queued'[x] = queued[x]
    BY <1>1, <1>2 DEF CtxInv, CtxType
  <2>2. queued'[<<c, p>>] = 0
    BY <1>1, <1>2 DEF CtxInv, CtxType, Targets
  <2>3. SUFFICES ASSUME NEW d \in Ctx, NEW q \in Pipe, queued'[<<d, q>>] > 0
                 PROVE  q \in entity'[d]
    BY DEF QueueInv
  <2>4. <<d, q>> # <<c, p>> /\ <<d, q>> \in Targets
    BY <2>2, <2>3 DEF Targets
  <2>5. q \in entity[d]
    BY <2>1, <2>3, <2>4 DEF CtxInv, QueueInv
  <2>. QED  BY <1>1, <1>2, <2>4, <2>5 DEF CtxInv, CtxType
<1>11. FileInv'
  BY <1>1, <1>4, Someone DEF CtxInv, FileInv
<1>. QED  BY <1>5, <1>7, <1>9, <1>10, <1>11 DEF CtxInv

-----------------------------------------------------------------------------
(***************************************************************************)
(* Steps that move no reference.                                           *)
(***************************************************************************)
LEMMA SubmitInv ==
  ASSUME CtxInv, NEW t \in Thread, GemSubmit(t)
  PROVE  CtxInv'
<1>1. /\ act[t] = "submit" /\ Goto(t, "submit", "put", on[t])
      /\ UNCHANGED <<file, handles, lock, refcnt, entity, owner>>
      /\ \/ queued[on[t]] < MaxQueued /\ queued' = [queued EXCEPT ![on[t]] = @ + 1]
         \/ UNCHANGED queued
  BY DEF GemSubmit, fileVars, Goto
<1>2. t \in Actor /\ on[t] \in Targets /\ t # "close"
  BY Someone, CtxAssumption DEF CtxInv, CtxType, CtxAssumption
<1>3. /\ act' \in [Actor -> {"idle", "created", "submit", "put", "release"}]
      /\ on' \in [Actor -> Targets] /\ act'[t] = "put" /\ on'[t] = on[t]
      /\ \A s \in Actor : s # t => act'[s] = act[s] /\ on'[s] = on[s]
  BY <1>1, <1>2, GotoType DEF CtxInv
<1>4. /\ queued' \in [Targets -> 0 .. MaxQueued]
      /\ \A x \in Targets : x # on[t] => queued'[x] = queued[x]
  BY <1>1, <1>2, CtxAssumption DEF CtxInv, CtxType, CtxAssumption
<1>5. CtxType'
  BY <1>1, <1>3, <1>4 DEF CtxInv, CtxType
<1>6. entity[on[t][1]] = Pipe /\ on[t][1] \in Ctx
  <2>. DEFINE c == on[t][1]
  <2>1. c \in Ctx /\ t \in Holders(c)
    BY <1>1, <1>2 DEF Targets, Holders
  <2>. HIDE DEF c
  <2>2. Cardinality(Holders(c)) # 0
    BY <2>1, HoldersFinite, FS_EmptySet
  <2>3. refcnt[c] > 0
    BY <2>1, <2>2, HoldersFinite DEF CtxInv, CtxRefsExact
  <2>4. entity[c] = Pipe /\ c \in Ctx
    BY <2>1, <2>3 DEF CtxInv, CtxRefsExact
  <2>. QED  BY <2>4 DEF c
<1>7. QueueInv'
  <2>1. SUFFICES ASSUME NEW d \in Ctx, NEW q \in Pipe, queued'[<<d, q>>] > 0
                 PROVE  q \in entity[d]
    BY <1>1 DEF QueueInv
  <2>2. CASE <<d, q>> = on[t]
    BY <1>6, <2>2
  <2>3. CASE <<d, q>> # on[t]
    <3>1. <<d, q>> \in Targets
      BY DEF Targets
    <3>. QED  BY <1>4, <2>1, <2>3, <3>1 DEF CtxInv, QueueInv
  <2>. QED  BY <2>2, <2>3
<1>8. FileInv'
  BY <1>1, <1>2, <1>3, Someone DEF CtxInv, FileInv
<1>. QED  BY <1>1, <1>2, <1>3, <1>5, <1>7, <1>8, QuietInv

LEMMA CreatedInv ==
  ASSUME CtxInv, NEW t \in Thread, CtxCreated(t)
  PROVE  CtxInv'
<1>1. /\ act[t] = "created" /\ Goto(t, "created", "idle", <<>>)
      /\ UNCHANGED <<file, handles, lock, refcnt, entity, queued, owner>>
  BY DEF CtxCreated, fileVars, Goto
<1>2. t \in Actor /\ t # "close"
  BY Someone, CtxAssumption DEF CtxAssumption
<1>3. /\ act' \in [Actor -> {"idle", "created", "submit", "put", "release"}]
      /\ on' \in [Actor -> Targets] /\ act'[t] = "idle"
      /\ \A s \in Actor : s # t => act'[s] = act[s] /\ on'[s] = on[s]
  BY <1>1, <1>2, GotoType DEF CtxInv
<1>4. CtxType' /\ FileInv' /\ QueueInv'
  BY <1>1, <1>2, <1>3, Someone DEF CtxInv, CtxType, FileInv, QueueInv
<1>. QED  BY <1>1, <1>2, <1>3, <1>4, QuietInv

LEMMA FileStepInv ==
  ASSUME CtxInv, Open \/ Close \/ PostClose
  PROVE  CtxInv'
<1>1. /\ CtxType' /\ QueueInv'
      /\ UNCHANGED <<handles, refcnt, entity, act, on>>
  BY DEF Open, Close, PostClose, threadVars, CtxInv, CtxType, QueueInv
<1>2. FileInv'
  BY <1>1 DEF Open, Close, PostClose, CtxInv, FileInv
<1>. QED  BY <1>1, <1>2, QuietInv

\* drm_sched_main and the end of a job: queues and owners only.
LEMMA JobInvs ==
  ASSUME CtxInv,
         \/ \E c \in Ctx, p \in Pipe : Pop(c, p)
         \/ \E p \in Pipe : Ends(p) /\ UNCHANGED <<fileVars, refcnt, entity, queued, threadVars>>
  PROVE  CtxInv'
<1>1. UNCHANGED <<file, handles, lock, refcnt, entity, act, on>>
  BY DEF Pop, fileVars, threadVars
<1>2. CASE \E c \in Ctx, p \in Pipe : Pop(c, p)
  <2>1. PICK c \in Ctx, p \in Pipe : Pop(c, p)
    BY <1>2
  <2>2. <<c, p>> \in Targets /\ queued[<<c, p>>] > 0
        /\ queued' = [queued EXCEPT ![<<c, p>>] = @ - 1]
        /\ owner' = [owner EXCEPT ![p] = c]
    BY <2>1 DEF Pop, Targets
  <2>3. queued' \in [Targets -> 0 .. MaxQueued]
        /\ \A x \in Targets : queued'[x] > 0 => queued[x] > 0
    BY <2>2, CtxAssumption DEF CtxInv, CtxType, CtxAssumption
  <2>4. CtxType'
    BY <1>1, <2>2, <2>3 DEF CtxInv, CtxType
  <2>5. QueueInv' /\ FileInv'
    BY <1>1, <2>3 DEF CtxInv, QueueInv, FileInv, Targets
  <2>. QED  BY <1>1, <2>4, <2>5, QuietInv
<1>3. CASE \E p \in Pipe : Ends(p) /\ UNCHANGED <<fileVars, refcnt, entity, queued, threadVars>>
  <2>1. CtxType' /\ QueueInv' /\ FileInv'
    BY <1>1, <1>3, Someone DEF Ends, CtxInv, CtxType, QueueInv, FileInv
  <2>. QED  BY <1>1, <2>1, QuietInv
<1>. QED  BY <1>2, <1>3

LEMMA CtxStepInv == CtxInv /\ [CtxNext]_ctxAllVars => CtxInv'
<1>. SUFFICES ASSUME CtxInv, [CtxNext]_ctxAllVars PROVE CtxInv'
  OBVIOUS
<1>1. CASE UNCHANGED ctxVars
  <2>1. UNCHANGED <<file, handles, lock, refcnt, entity, queued, owner, act, on>>
    BY <1>1 DEF ctxVars, fileVars, threadVars
  <2>2. CtxType' /\ QueueInv' /\ FileInv'
    BY <2>1 DEF CtxInv, CtxType, QueueInv, FileInv
  <2>. QED  BY <2>1, <2>2, QuietInv
<1>2. CASE DeviceSteps
  <2>1. CASE FiniJob /\ UNCHANGED <<fileVars, refcnt, entity, queued, threadVars>>
    BY <2>1, JobInvs DEF FiniJob, Pipe
  <2>. QED  BY <1>1, <1>2, <2>1 DEF DeviceSteps
<1>3. CASE \E t \in Thread : Ioctl(t)
  BY <1>3, CreateInv, FreeInv, GetInv, CreatedInv, SubmitInv, CtxPutInv DEF Ioctl
<1>4. CASE \E p \in Pipe : JobEnds(p) \/ (HwDone(p) /\ UNCHANGED ctxVars)
  BY <1>1, <1>4, JobInvs DEF JobEnds
<1>. QED  BY <1>1, <1>2, <1>3, <1>4, FileStepInv, ReleaseStepInv, MgrFiniInv, JobInvs
          DEF CtxNext, ctxAllVars

LEMMA CtxInvariance == CtxSpec => []CtxInv
BY CtxInitInv, CtxStepInv, PTL DEF CtxSpec

-----------------------------------------------------------------------------
(***************************************************************************)
(* Theorems.                                                               *)
(***************************************************************************)

\* The composition is well typed where the clocks of bring-up are.
THEOREM CtxTypeCorrect == ASSUME AllStages PROVE CtxSpec => []CtxTypeOK
<1>1. CtxInv /\ TypeOK => CtxTypeOK
  BY DEF CtxInv, CtxType, CtxTypeOK
<1>. QED  BY <1>1, CtxInvariance, CtxRunsOnDevice, TypeCorrect, PTL

\* lima_ctx_create, lima_ctx_free, lima_ctx_get, lima_ctx_put and the last
\* close, in any number of threads: a context has exactly the references it
\* should have, and its entities as long as it has one.
THEOREM CtxReferencesExact == CtxSpec => []CtxRefsExact
<1>1. CtxInv => CtxRefsExact
  BY DEF CtxInv
<1>. QED  BY <1>1, CtxInvariance, PTL

\* No queue has a job whose entity is gone, and the last close leaves none.
THEOREM QueuesHaveEntities == CtxSpec => []QueuedHaveEntity
<1>1. CtxInv => QueuedHaveEntity
  <2>. SUFFICES ASSUME CtxInv, file = "closed", NEW c \in Ctx
                PROVE  entity[c] = {} /\ refcnt[c] = 0
    BY DEF CtxInv, QueueInv, QueuedHaveEntity
  <2>1. \A t \in Actor : act[t] = "idle"
    BY DEF CtxInv, FileInv, Actor
  <2>2. Holders(c) = {}
    BY <2>1, Someone DEF Holders
  <2>3. Cardinality(Holders(c)) = 0
    BY <2>2, FS_EmptySet
  <2>4. refcnt[c] = 0
    BY <2>3 DEF CtxInv, CtxRefsExact, FileInv
  <2>. QED  BY <2>1, <2>4 DEF CtxInv, ReleaseInv
<1>. QED  BY <1>1, CtxInvariance, PTL
=============================================================================
