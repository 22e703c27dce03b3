---------------------------- MODULE LimaMmuProofs ----------------------------
(***************************************************************************)
(* Theorems about the MMUs and the platform bus below them, for every      *)
(* number of jobs and of commands that time out, with or without a         *)
(* growable heap, bus errors and failures of the bridge and the driver.    *)
(***************************************************************************)
EXTENDS LimaMmu, FiniteSetTheorems, TLAPS

Probing == {"l2", "dte", "silence", "request", "reset", "enable", "pipes", "unwind"}

\* The devres list has the irqe of every line that is established, so that
\* nothing is established once it is empty.
BusInv ==
  /\ \A l \in tag : \E n \in DOMAIN devres : devres[n] = l
  /\ NothingLeft
  /\ bus \in {"dma", "release"} => devres = <<>>
  /\ bus \in {"dma", "put", "release"} => dma = lost
  /\ bus \in {"dma", "dmaFini", "teardown", "put", "release"} => ~published
  /\ bus = "release" => kobj = 0

\* probe and remove of the driver run inside attach and detach, and a job runs
\* only in between: lima_sched_pipe_fini has waited for it, or reset it.
DrvInv ==
  /\ drv \in Probing => bus = "probe"
  /\ drv = "up" => bus \in {"attached", "remove"}
  /\ drv \in {"finiPp", "finiGp", "power"} => bus = "remove"
  /\ pc["pp"] # "idle" => drv \in {"up", "finiPp"}
  /\ pc["gp"] # "idle" => drv \in {"up", "finiPp", "finiGp"}

\* A processor is at work only in a run of its pipe, behind an MMU that was
\* switched to the run's address space; a pixel pipe without an error counts
\* at least the processors at work, so that the run does not end under them.
WorkInv ==
  /\ OnJobsVm
  /\ \A p \in Pipe : pc[p] # "idle" => vm[p] # 0
  /\ \A m \in Mmu : core[m] # "idle" => m \in present /\ pc[PipeOf(m)] = "run"
  /\ pc["pp"] = "run" /\ ~error["pp"] =>
       /\ core[2] # "idle" \/ core[3] # "idle" => left["pp"] >= 1
       /\ core[2] # "idle" /\ core[3] # "idle" => left["pp"] >= 2

Inv == TypeOK /\ BusInv /\ DrvInv /\ WorkInv

-----------------------------------------------------------------------------
(***************************************************************************)
(* Facts about the sets.                                                   *)
(***************************************************************************)

LEMMA Sets == /\ NumLines = 3 /\ Mmu = {1, 2, 3} /\ Line = {1, 2, 3} /\ 0 .. NumLines = {0, 1, 2, 3}
              /\ MaxJobs \in Nat /\ MaxTimeouts \in Nat
              /\ \A j \in 1 .. MaxJobs : j \in 0 .. Empty
              /\ Empty \in 0 .. Empty /\ 0 \in 0 .. Empty
BY MmuAssumption DEF MmuAssumption, Mmu, Line, Empty

\* Commands that time out are counted by a natural number.
LEMMA MmusFinite ==
  ASSUME NEW S \in SUBSET Mmu
  PROVE  IsFiniteSet(S) /\ Cardinality(S) \in Nat
<1>1. IsFiniteSet(0 .. NumLines)
  <2>1. NumLines \in Nat
    BY PlatformAssumption DEF PlatformAssumption
  <2>. QED  BY <2>1, FS_Interval
<1>2. S \subseteq 0 .. NumLines
  BY Sets
<1>3. IsFiniteSet(S)
  BY <1>1, <1>2, FS_Subset
<1>. QED  BY <1>3, FS_CardinalityType

LEMMA TimeOutType ==
  ASSUME TypeOK, NEW S \in SUBSET Mmu, TimeOut(S)
  PROVE  timeouts' \in 0 .. MaxTimeouts
BY MmusFinite, Sets DEF TypeOK, TimeOut

LEMMA TimeOutOne ==
  ASSUME TypeOK, NEW t, TimeOut({t})
  PROVE  timeouts' \in 0 .. MaxTimeouts
<1>1. Cardinality({t}) = 1
  BY FS_Singleton
<1>. QED  BY <1>1, Sets DEF TypeOK, TimeOut

\* The list of devres entries grows at its head.
LEMMA KeepType ==
  ASSUME devres \in Seq(0 .. NumLines), NEW e \in 0 .. NumLines, Keep(e)
  PROVE  /\ devres' \in Seq(0 .. NumLines)
         /\ \E n \in DOMAIN devres' : devres'[n] = e
         /\ \A l : (\E n \in DOMAIN devres : devres[n] = l)
                     => \E n \in DOMAIN devres' : devres'[n] = l
<1>1. devres' = <<e>> \o devres /\ <<e>> \in Seq(0 .. NumLines)
  BY DEF Keep
<1>2. devres' \in Seq(0 .. NumLines) /\ Len(devres') = Len(devres) + 1
  BY <1>1
<1>3. devres'[1] = e /\ 1 \in DOMAIN devres'
  BY <1>1, <1>2
<1>4. ASSUME NEW l, NEW n \in DOMAIN devres, devres[n] = l
      PROVE  \E k \in DOMAIN devres' : devres'[k] = l
  <2>1. n + 1 \in DOMAIN devres' /\ devres'[n + 1] = devres[n]
    BY <1>1, <1>2, <1>4
  <2>. QED  BY <2>1, <1>4
<1>. QED  BY <1>2, <1>3, <1>4

-----------------------------------------------------------------------------
(***************************************************************************)
(* The initial state and the bridge.                                       *)
(***************************************************************************)

LEMMA InitInv == Init => Inv
<1>. SUFFICES ASSUME Init PROVE Inv
  OBVIOUS
<1>1. PlatformTypeOK
  <2>1. <<>> \in Seq(0 .. NumLines)
    OBVIOUS
  <2>. QED  BY <2>1, Sets DEF Init, PlatformInit, PlatformTypeOK
<1>2. TypeOK
  <2>1. status \in [Mmu -> (SUBSET Interrupts) \cup {Zero}] /\ again \in BOOLEAN
    BY DEF Init
  <2>2. reg \in [Mmu -> [dte : 0 .. Empty, mask : BOOLEAN, raw : SUBSET Interrupts,
                         fault : BOOLEAN, paging : BOOLEAN, stall : BOOLEAN]]
    BY Sets DEF Init, Off
  <2>. QED  BY <1>1, <2>1, <2>2, Sets DEF Init, TypeOK, Vm, Pipe, Thread
<1>3. BusInv /\ DrvInv
  BY DEF Init, PlatformInit, BusInv, NothingLeft, DrvInv, Probing, Thread, Pipe
<1>4. WorkInv
  BY Sets DEF Init, WorkInv, OnJobsVm, Pipe, PipeOf, Thread
<1>. QED  BY <1>2, <1>3, <1>4 DEF Inv

\* What the bridge does to its own variables.
LEMMA BridgeBus ==
  ASSUME PlatformTypeOK, BusInv, Bridge
  PROVE  PlatformTypeOK' /\ BusInv'
<1>. USE DEF PlatformTypeOK, BusInv, NothingLeft
<1>1. NumLines \in Nat /\ Line = 1 .. NumLines
  BY PlatformAssumption DEF PlatformAssumption, Line
<1>2. CASE Attach
  BY <1>1, <1>2 DEF Attach
<1>3. CASE DmaInit
  <2>1. /\ UNCHANGED <<nirq, held, kobj, tag, devres, running>>
        /\ bus = "dma" /\ published \in BOOLEAN /\ held \in BOOLEAN /\ ~published
    BY <1>3 DEF DmaInit
  <2>2. /\ \/ bus' = "probe" /\ published' = TRUE
           \/ bus' = "put" /\ dma' = lost' /\ published' = FALSE
        /\ dma' \in SUBSET DmaTag /\ lost' \in SUBSET DmaTag
    BY <1>3, <2>1 DEF DmaInit, DmaTag
  <2>3. PlatformTypeOK'
    BY <2>1, <2>2
  <2>. QED  BY <2>1, <2>2, <2>3
<1>5. CASE TeardownLine
  BY <1>5 DEF TeardownLine, Teardown
<1>6. CASE DmaFini
  BY <1>6 DEF DmaFini
<1>7. CASE ReleaseDevres
  <2>1. devres # <<>> /\ devres' = Tail(devres) /\ devres \in Seq(0 .. NumLines)
    BY <1>7 DEF ReleaseDevres
  <2>2. devres' \in Seq(0 .. NumLines)
    BY <2>1
  <2>3. \A n \in DOMAIN devres : devres[n] = Head(devres)
                                \/ (n - 1 \in DOMAIN devres' /\ devres'[n - 1] = devres[n])
    BY <2>1
  <2>4. tag' = tag \ {Head(devres)}
    BY <1>1, <1>7 DEF ReleaseDevres, Teardown
  <2>5. running \subseteq tag'
    BY <1>1, <1>7 DEF ReleaseDevres, Teardown
  <2>6. \A l \in tag' : \E n \in DOMAIN devres' : devres'[n] = l
    BY <2>3, <2>4
  <2>. QED  BY <1>7, <2>2, <2>4, <2>5, <2>6 DEF ReleaseDevres
<1>8. CASE PutDevice
  BY <1>8 DEF PutDevice
<1>9. CASE ReleaseResources
  <2>1. /\ bus = "release" /\ bus' = "detached" /\ nirq' = 0 /\ held' = FALSE
        /\ UNCHANGED <<kobj, dma, lost, published, tag, devres, running>>
    BY <1>9 DEF ReleaseResources
  <2>2. devres = <<>> /\ tag = {} /\ running = {}
    BY <2>1
  <2>3. /\ tag' = {} /\ running' = {} /\ devres' \in Seq(0 .. NumLines)
        /\ {held', published'} \subseteq BOOLEAN /\ kobj' \in {0, 1}
    BY <1>1, <2>1, <2>2
  <2>4. nirq' \in 0 .. NumLines /\ tag' \subseteq 1 .. nirq' /\ running' \subseteq tag'
    BY <1>1, <2>1, <2>3
  <2>5. PlatformTypeOK'
    BY <2>1, <2>3, <2>4
  <2>6. BusInv'
    BY <2>1, <2>2
  <2>. QED  BY <2>5, <2>6
<1>. QED  BY <1>2, <1>3, <1>5, <1>6, <1>7, <1>8, <1>9 DEF Bridge

\* An action that leaves the bus alone.
LEMMA BusKept ==
  ASSUME TypeOK, BusInv, UNCHANGED platformVars
  PROVE  PlatformTypeOK' /\ BusInv'
BY DEF TypeOK, PlatformTypeOK, platformVars, BusInv, NothingLeft

\* Unless the device is up or going down, no pipe runs and no processor works.
LEMMA NoWork ==
  ASSUME Inv, drv \notin {"up", "finiPp", "finiGp"}
  PROVE  pc["gp"] = "idle" /\ pc["pp"] = "idle" /\ \A m \in Mmu : core[m] = "idle"
BY DEF Inv, DrvInv, WorkInv, PipeOf

\* Where no processor works, registers, TLBs and address spaces may change.
LEMMA WorkFree ==
  ASSUME \A m \in Mmu : core'[m] = "idle", pc'["gp"] = "idle", pc'["pp"] = "idle"
  PROVE  WorkInv'
BY Sets DEF WorkInv, OnJobsVm, Pipe

LEMMA BridgeInv ==
  ASSUME Inv, BridgeSteps
  PROVE  Inv'
<1>. USE DEF initVars, mmuVars, jobVars, l2Vars
<1>1. PlatformTypeOK' /\ BusInv'
  BY BridgeBus DEF Inv, TypeOK, BridgeSteps
<1>2. DrvInv'
  BY DEF Inv, BridgeSteps, DrvInv, TypeOK, Probing, Bridge, Attach, DmaInit,
         TeardownLine, DmaFini, ReleaseDevres, PutDevice, ReleaseResources
<1>3. CASE bus = "put" /\ devres' = <<>>
  <2>1. drv = "off"
    BY <1>3 DEF Inv, DrvInv, TypeOK, Probing
  <2>2. pc'["gp"] = "idle" /\ pc'["pp"] = "idle" /\ \A m \in Mmu : core'[m] = "idle"
    BY <2>1, NoWork DEF BridgeSteps
  <2>3. Cleared
    BY <1>3 DEF BridgeSteps
  <2>4. /\ vm' \in [Pipe -> Vm \cup {0}] /\ left' \in [Pipe -> Int]
        /\ error' \in [Pipe -> BOOLEAN] /\ fault' \subseteq Pipe /\ jobs' \in 0 .. MaxJobs
    BY <2>3, Sets DEF Cleared
  <2>7. again' \in BOOLEAN
    BY <2>3 DEF Cleared
  <2>5. UNCHANGED <<initVars, mmuVars, status, pc, core, l2Vars, timeouts>>
    BY DEF BridgeSteps
  <2>6. TypeOK'
    BY <1>1, <2>4, <2>5, <2>7 DEF Inv, TypeOK
  <2>. QED  BY <1>1, <1>2, <2>2, <2>6, WorkFree DEF Inv
<1>4. CASE ~(bus = "put" /\ devres' = <<>>)
  <2>1. UNCHANGED <<initVars, mmuVars, status, pc, core, l2Vars, timeouts, jobVars>>
    BY <1>4 DEF BridgeSteps
  <2>2. TypeOK'
    BY <1>1, <2>1 DEF Inv, TypeOK
  <2>3. WorkInv'
    BY <2>1 DEF Inv, WorkInv, OnJobsVm
  <2>. QED  BY <1>1, <1>2, <2>2, <2>3 DEF Inv
<1>. QED  BY <1>3, <1>4

-----------------------------------------------------------------------------
(***************************************************************************)
(* probe and remove of the driver.                                         *)
(***************************************************************************)

\* The registers of an MMU, as TypeOK has them.
Regs == [dte : 0 .. Empty, mask : BOOLEAN, raw : SUBSET Interrupts,
         fault : BOOLEAN, paging : BOOLEAN, stall : BOOLEAN]

\* What is written to them.
LEMMA RegType ==
  /\ Off \in Regs
  /\ [Off EXCEPT !.raw = Interrupts, !.mask = TRUE]
       \in Regs
BY Sets DEF Off, Interrupts, Regs

LEMMA SilentType ==
  ASSUME NEW r \in Regs
  PROVE  Silent(r) \in Regs
BY DEF Silent, Regs

LEMMA NextIpType ==
  ASSUME TypeOK, NEW ok \in BOOLEAN, NextIp(ok)
  PROVE  drv' \in Probing /\ at' \in Mmu
BY Sets DEF TypeOK, NextIp, Probing

LEMMA ProbeInv ==
  ASSUME Inv, ProbeSteps
  PROVE  Inv'
<1>. USE DEF initVars, mmuVars, jobVars, l2Vars
<1>1. drv \notin {"up", "finiPp", "finiGp"}
  BY DEF ProbeSteps, Probe, L2Init, DteTest, Silence, RequestIrq, HwReset, HwEnable,
         PipesInit, Unwind
<1>2. pc["gp"] = "idle" /\ pc["pp"] = "idle" /\ \A m \in Mmu : core[m] = "idle"
  BY <1>1, NoWork
<1>3. CASE Probe
  <2>1. devres' \in Seq(0 .. NumLines)
        /\ \A l : (\E n \in DOMAIN devres : devres[n] = l)
                    => \E n \in DOMAIN devres' : devres'[n] = l
    BY <1>3, Sets, KeepType DEF Probe, Inv, TypeOK, PlatformTypeOK, Memory
  <2>2. PlatformTypeOK'
    BY <1>3, <2>1 DEF Probe, Inv, TypeOK, PlatformTypeOK
  <2>3. BusInv'
    BY <1>3, <2>1 DEF Probe, Inv, BusInv, NothingLeft
  <2>4. DrvInv'
    BY <1>2, <1>3 DEF Probe, Goto, Inv, TypeOK, DrvInv, Probing
  <2>5. TypeOK'
    <3>1. reg' \in [Mmu -> Regs]
      BY <1>3, RegType DEF Probe
    <3>. QED  BY <1>3, <2>2, <3>1 DEF Probe, Goto, Inv, TypeOK, Thread, Regs
  <2>6. WorkInv'
    BY <1>2, <1>3, WorkFree DEF Probe, Goto, Inv, TypeOK, Thread, Pipe
  <2>. QED  BY <2>3, <2>4, <2>5, <2>6 DEF Inv
<1>4. CASE L2Init
  <2>1. PlatformTypeOK' /\ BusInv'
    BY <1>4, BusKept DEF Inv, L2Init
  <2>2. DrvInv'
    BY <1>2, <1>4 DEF L2Init, Goto, Inv, TypeOK, DrvInv, Probing, platformVars
  <2>3. TypeOK'
    BY <1>4, <2>1, Sets DEF L2Init, Goto, Inv, TypeOK, Thread
  <2>4. WorkInv'
    BY <1>2, <1>4, WorkFree DEF L2Init, Goto, Inv, TypeOK, Thread, Pipe
  <2>. QED  BY <2>1, <2>2, <2>3, <2>4 DEF Inv
<1>5. CASE DteTest
  <2>1. PlatformTypeOK' /\ BusInv'
    BY <1>5, BusKept DEF Inv, DteTest
  <2>2. drv' \in Probing /\ at' \in Mmu
    BY <1>5, NextIpType DEF DteTest, Inv, TypeOK, Probing
  <2>3. DrvInv'
    BY <1>2, <1>5, <2>2 DEF DteTest, Inv, DrvInv, Probing, platformVars
  <2>4. TypeOK'
    BY <1>5, <2>1, <2>2 DEF DteTest, Inv, TypeOK, Probing
  <2>5. WorkInv'
    BY <1>2, <1>5, WorkFree DEF DteTest
  <2>. QED  BY <2>1, <2>3, <2>4, <2>5 DEF Inv
<1>6. CASE Silence
  <2>1. PlatformTypeOK' /\ BusInv'
    BY <1>6, BusKept DEF Inv, Silence
  <2>2. DrvInv'
    BY <1>2, <1>6 DEF Silence, Inv, DrvInv, Probing, platformVars
  <2>3. TypeOK'
    <3>1. reg \in [Mmu -> Regs] /\ at \in Mmu
      BY DEF Inv, TypeOK, Regs
    <3>2. Silent(reg[at]) \in Regs
      BY <3>1, SilentType
    <3>3. reg' \in [Mmu -> Regs]
      BY <1>6, <3>1, <3>2 DEF Silence
    <3>4. drv' = "request" /\ UNCHANGED <<at, present, pipes, tlb, deaf, stale, status, pc,
                                         jobVars, l2Vars, timeouts>>
      BY <1>6 DEF Silence
    <3>5. TypeOK
      BY DEF Inv
    <3>. QED  BY <2>1, <3>3, <3>4, <3>5 DEF TypeOK, Regs
  <2>4. WorkInv'
    BY <1>2, <1>6, WorkFree DEF Silence
  <2>. QED  BY <2>1, <2>2, <2>3, <2>4 DEF Inv
<1>7. CASE RequestIrq
  <2>1. at \in Mmu /\ bus = "probe"
    BY <1>7 DEF RequestIrq, Inv, TypeOK, DrvInv, Probing
  <2>2. ASSUME Request(at)
        PROVE  PlatformTypeOK' /\ BusInv'
    <3>1. /\ devres' \in Seq(0 .. NumLines)
          /\ \E n \in DOMAIN devres' : devres'[n] = at
          /\ \A l : (\E n \in DOMAIN devres : devres[n] = l)
                      => \E n \in DOMAIN devres' : devres'[n] = l
      BY <2>1, <2>2, Sets, KeepType DEF Request, Inv, TypeOK, PlatformTypeOK
    <3>2. tag' = tag \cup {at} /\ at \in 1 .. nirq
      BY <2>2 DEF Request, Allocated
    <3>3. PlatformTypeOK'
      BY <1>7, <3>1, <3>2 DEF RequestIrq, Inv, TypeOK, PlatformTypeOK
    <3>4. BusInv'
      BY <1>7, <2>1, <3>1, <3>2 DEF RequestIrq, Inv, BusInv, NothingLeft
    <3>. QED  BY <3>3, <3>4
  <2>3. ASSUME UNCHANGED <<tag, devres>>
        PROVE  PlatformTypeOK' /\ BusInv'
    <3>1. UNCHANGED platformVars
      BY <1>7, <2>3 DEF RequestIrq, platformVars
    <3>. QED  BY <3>1, BusKept DEF Inv
  <2>4. PlatformTypeOK' /\ BusInv'
    BY <1>7, <2>2, <2>3 DEF RequestIrq
  <2>5. drv' \in Probing /\ at' \in Mmu
    BY <1>7, NextIpType DEF RequestIrq, Inv, TypeOK, Probing
  <2>6. DrvInv'
    BY <1>2, <1>7, <2>1, <2>5 DEF RequestIrq, Inv, DrvInv, Probing
  <2>7. TypeOK'
    BY <1>7, <2>4, <2>5 DEF RequestIrq, Inv, TypeOK, Probing
  <2>8. WorkInv'
    BY <1>2, <1>7, WorkFree DEF RequestIrq
  <2>. QED  BY <2>4, <2>6, <2>7, <2>8 DEF Inv
<1>8. CASE HwReset
  <2>1. PlatformTypeOK' /\ BusInv'
    BY <1>8, BusKept DEF Inv, HwReset
  <2>2. drv' \in Probing /\ at' \in Mmu
    BY <1>8, NextIpType DEF HwReset, Inv, TypeOK, Probing
  <2>3. DrvInv'
    BY <1>2, <1>8, <2>2 DEF HwReset, Inv, DrvInv, Probing, platformVars
  <2>4. timeouts' \in 0 .. MaxTimeouts
    BY <1>8, TimeOutType, TimeOutOne DEF HwReset, Inv
  <2>5. reg' \in [Mmu -> Regs]
    BY <1>8, RegType DEF HwReset, Inv, TypeOK, Regs
  <2>6. TypeOK'
    BY <1>8, <2>1, <2>2, <2>4, <2>5 DEF HwReset, Inv, TypeOK, Probing, Regs
  <2>7. WorkInv'
    BY <1>2, <1>8, WorkFree DEF HwReset
  <2>. QED  BY <2>1, <2>3, <2>6, <2>7 DEF Inv
<1>9. CASE HwEnable
  <2>1. PlatformTypeOK' /\ BusInv'
    BY <1>9, BusKept DEF Inv, HwEnable
  <2>2. drv' \in Probing /\ at' \in Mmu
    <3>1. PICK ok \in BOOLEAN : NextIp(ok)
      BY <1>9 DEF HwEnable
    <3>. QED  BY <3>1, NextIpType DEF Inv
  <2>3. DrvInv'
    BY <1>2, <1>9, <2>2 DEF HwEnable, Inv, DrvInv, Probing, platformVars
  <2>4. PICK late \in SUBSET {at} :
          /\ TimeOut(late)
          /\ reg' = [reg EXCEPT ![at].mask = TRUE, ![at].dte = Empty,
                                ![at].paging = (late = {})]
          /\ present' = present \cup ({at} \ late)
    BY <1>9 DEF HwEnable
  <2>5. timeouts' \in 0 .. MaxTimeouts
    BY <2>4, TimeOutType DEF Inv, TypeOK
  <2>6. \E b \in BOOLEAN :
          reg' = [reg EXCEPT ![at].mask = TRUE, ![at].dte = Empty, ![at].paging = b]
    BY <2>4, (late = {}) \in BOOLEAN
  <2>7. reg' \in [Mmu -> Regs]
    <3>1. PICK b \in BOOLEAN :
            reg' = [reg EXCEPT ![at].mask = TRUE, ![at].dte = Empty, ![at].paging = b]
      BY <2>6
    <3>2. Empty \in 0 .. Empty
      BY Sets
    <3>. DEFINE r == [reg[at] EXCEPT !.mask = TRUE, !.dte = Empty, !.paging = b]
    <3>3. at \in Mmu /\ reg[at] \in Regs /\ reg \in [Mmu -> Regs]
      BY DEF Inv, TypeOK, Regs
    <3>4. r \in Regs
      BY <3>2, <3>3 DEF Regs
    <3>5. reg' = [reg EXCEPT ![at] = r]
      BY <3>1, <3>3
    <3>. QED  BY <3>3, <3>4, <3>5
  <2>8. TypeOK'
    BY <1>9, <2>1, <2>2, <2>4, <2>5, <2>7 DEF HwEnable, Inv, TypeOK, Probing, Regs
  <2>9. WorkInv'
    BY <1>2, <1>9, WorkFree DEF HwEnable
  <2>. QED  BY <2>1, <2>3, <2>8, <2>9 DEF Inv
<1>10. CASE PipesInit
  <2>1. bus = "probe"
    BY <1>10 DEF PipesInit, Inv, DrvInv, Probing
  <2>2. PlatformTypeOK' /\ BusInv'
    BY <1>10, <2>1 DEF PipesInit, ProbeReturns, Inv, TypeOK, PlatformTypeOK, BusInv,
                       NothingLeft
  <2>3. DrvInv'
    BY <1>2, <1>10, <2>1 DEF PipesInit, ProbeReturns, Inv, DrvInv, Probing
  <2>4. TypeOK'
    BY <1>10, <2>2 DEF PipesInit, Inv, TypeOK
  <2>5. WorkInv'
    BY <1>2, <1>10, WorkFree DEF PipesInit
  <2>. QED  BY <2>2, <2>3, <2>4, <2>5 DEF Inv
<1>11. CASE Unwind
  <2>1. bus = "probe" /\ bus' = "dmaFini" /\ published' = FALSE
    BY <1>11 DEF Unwind, ProbeFails
  <2>2. PlatformTypeOK' /\ BusInv'
    BY <1>11, <2>1 DEF Unwind, Inv, TypeOK, PlatformTypeOK, BusInv, NothingLeft
  <2>3. DrvInv'
    BY <1>2, <1>11, <2>1 DEF Unwind, PowerOff, Inv, DrvInv, Probing
  <2>4. TypeOK'
    BY <1>11, <2>2, RegType, Sets DEF Unwind, PowerOff, Inv, TypeOK, Regs
  <2>5. WorkInv'
    BY <1>2, <1>11, WorkFree DEF Unwind
  <2>. QED  BY <2>2, <2>3, <2>4, <2>5 DEF Inv
<1>. QED  BY <1>3, <1>4, <1>5, <1>6, <1>7, <1>8, <1>9, <1>10, <1>11 DEF ProbeSteps

LEMMA RemoveInv ==
  ASSUME Inv, RemoveSteps
  PROVE  Inv'
<1>. USE DEF initVars, mmuVars, jobVars, l2Vars
<1>1. CASE Remove
  <2>1. PlatformTypeOK' /\ BusInv'
    BY <1>1 DEF Remove, Detach, Inv, TypeOK, PlatformTypeOK, BusInv, NothingLeft
  <2>2. DrvInv'
    BY <1>1 DEF Remove, Detach, Inv, DrvInv, Probing, platformVars
  <2>3. TypeOK'
    BY <1>1, <2>1 DEF Remove, Inv, TypeOK
  <2>4. WorkInv'
    BY <1>1 DEF Remove, Inv, WorkInv, OnJobsVm
  <2>. QED  BY <2>1, <2>2, <2>3, <2>4 DEF Inv
<1>2. ASSUME NEW p \in Pipe, NEW here, NEW next, FiniPipe(p, here, next),
             \/ p = "pp" /\ here = "finiPp" /\ next = "finiGp"
             \/ p = "gp" /\ here = "finiGp" /\ next = "power"
      PROVE  Inv'
  <2>1. PlatformTypeOK' /\ BusInv'
    BY <1>2, BusKept DEF Inv, FiniPipe
  <2>2. /\ \/ pc[p] = "idle" /\ UNCHANGED <<pc, core, error>>
           \/ /\ pc' = [pc EXCEPT ![p] = "idle"] /\ pc[p] = "run"
              /\ core' = [m \in Mmu |-> IF m \in MmusOf(p) THEN "idle" ELSE core[m]]
              /\ error' = [error EXCEPT ![p] = TRUE]
        /\ vm' = [vm EXCEPT ![p] = 0] /\ fault' = fault \ {p}
        /\ UNCHANGED <<platformVars, at, present, reg, tlb, deaf, status, left, again, jobs,
                       l2Vars, timeouts>>
    BY <1>2 DEF FiniPipe, Goto, Stopped
  <2>3. pc'[p] = "idle" /\ \A q \in Pipe : q # p => pc'[q] = pc[q] /\ vm'[q] = vm[q]
    BY <2>2 DEF Inv, TypeOK, Thread, Pipe
  <2>4. DrvInv'
    BY <1>2, <2>3 DEF FiniPipe, Inv, DrvInv, Probing, platformVars, Pipe
  <2>5. TypeOK'
    <3>1. stale' \subseteq Pipe
      BY <1>2 DEF FiniPipe, Overtakes, Inv, TypeOK
    <3>2. /\ pc' \in [Thread -> {"idle", "flush", "flushing", "count", "store", "flushed",
                                 "run", "resume"}]
          /\ core' \in [Mmu -> {"idle", "busy", "heap"}] /\ error' \in [Pipe -> BOOLEAN]
      BY <2>2 DEF Inv, TypeOK
    <3>. QED  BY <1>2, <2>1, <2>2, <3>1, <3>2 DEF FiniPipe, Inv, TypeOK
  <2>6. ASSUME NEW m \in Mmu, core'[m] # "idle"
        PROVE  core[m] # "idle" /\ core'[m] = core[m] /\ PipeOf(m) # p
    <3>1. core[m] # "idle" => m \in present /\ pc[PipeOf(m)] = "run"
      BY DEF Inv, WorkInv
    <3>. QED  BY <2>2, <2>6, <3>1 DEF MmusOf
  <2>7. WorkInv'
    <3>1. OnJobsVm'
      BY <2>2, <2>3, <2>6 DEF Inv, WorkInv, OnJobsVm, PipeOf, Pipe
    <3>2. \A m \in Mmu : core'[m] # "idle" => m \in present' /\ pc'[PipeOf(m)] = "run"
      BY <2>2, <2>3, <2>6 DEF Inv, WorkInv, PipeOf, Pipe
    <3>3. pc'["pp"] = "run" => /\ pc["pp"] = "run" /\ error'["pp"] = error["pp"]
                               /\ UNCHANGED <<core[2], core[3]>>
      BY <2>2, <2>3, Sets DEF Inv, TypeOK, MmusOf, PipeOf, Pipe
    <3>4. \A q \in Pipe : pc'[q] # "idle" => vm'[q] # 0
      BY <2>3 DEF Inv, WorkInv
    <3>. QED  BY <2>2, <3>1, <3>2, <3>3, <3>4 DEF Inv, WorkInv
  <2>. QED  BY <2>1, <2>4, <2>5, <2>7 DEF Inv
<1>3. CASE FiniIps
  <2>1. pc["gp"] = "idle" /\ pc["pp"] = "idle" /\ \A m \in Mmu : core[m] = "idle"
    BY <1>3, NoWork DEF FiniIps
  <2>2. bus = "remove" /\ bus' = "teardown" /\ published' = FALSE
    BY <1>3 DEF FiniIps, RemoveReturns
  <2>3. PlatformTypeOK' /\ BusInv'
    BY <1>3, <2>2 DEF FiniIps, Inv, TypeOK, PlatformTypeOK, BusInv, NothingLeft
  <2>4. DrvInv'
    BY <1>3, <2>1, <2>2 DEF FiniIps, PowerOff, Inv, DrvInv, Probing
  <2>5. TypeOK'
    BY <1>3, <2>3, RegType, Sets DEF FiniIps, PowerOff, Inv, TypeOK, Regs
  <2>6. WorkInv'
    BY <1>3, <2>1, WorkFree DEF FiniIps
  <2>. QED  BY <2>3, <2>4, <2>5, <2>6 DEF Inv
<1>. QED  BY <1>1, <1>2, <1>3 DEF RemoveSteps, Pipe

-----------------------------------------------------------------------------
(***************************************************************************)
(* The scheduler pipes and the processors.                                 *)
(***************************************************************************)

\* An action that leaves the bus and the driver's bring-up alone, and lets no
\* pipe start that is idle.
LEMMA DrvKept ==
  ASSUME Inv, UNCHANGED <<platformVars, initVars>>,
         \A p \in Pipe : pc[p] = "idle" /\ drv # "up" => pc'[p] = "idle"
  PROVE  DrvInv'
BY DEF Inv, DrvInv, platformVars, initVars, Pipe, Probing

LEMMA RunJobInv ==
  ASSUME Inv, NEW p \in Pipe, RunJob(p)
  PROVE  Inv'
<1>. USE DEF initVars, mmuVars, jobVars, l2Vars
<1>1. PlatformTypeOK' /\ BusInv'
  BY BusKept DEF Inv, RunJob
<1>2. jobs \in Nat /\ jobs' = jobs + 1 /\ jobs' \in 0 .. MaxJobs /\ jobs' \in Vm
  BY Sets DEF RunJob, Inv, TypeOK, Vm
<1>3. TypeOK'
  BY <1>1, <1>2 DEF RunJob, Goto, Inv, TypeOK, Thread
<1>4. DrvInv'
  BY DrvKept DEF RunJob, Goto, Inv, TypeOK, Thread
<1>5. \A m \in Mmu : core[m] # "idle" => PipeOf(m) # p
  BY DEF RunJob, Goto, Inv, WorkInv
<1>6. WorkInv'
  BY <1>5, Sets DEF RunJob, Goto, Inv, WorkInv, OnJobsVm, TypeOK, Thread, PipeOf, Pipe
<1>. QED  BY <1>1, <1>3, <1>4, <1>6 DEF Inv

LEMMA FlushInv ==
  ASSUME Inv, NEW t \in Thread, Flush(t)
  PROVE  Inv'
<1>. USE DEF initVars, mmuVars, jobVars, l2Vars
<1>1. UNCHANGED <<platformVars, initVars, mmuVars, status, jobVars>>
      /\ \E to \in {"flushing", "count", "store", "flushed"} :
            pc' = [pc EXCEPT ![t] = to]
      /\ pc[t] \in {"flush", "flushing", "count", "store"}
  BY DEF Flush, FlushBegin, FlushDone, FlushAbandoned, CountLoad, CountStore, Goto
<1>2. PlatformTypeOK' /\ BusInv'
  BY <1>1, BusKept DEF Inv
<1>3. timeouts' \in 0 .. MaxTimeouts
  BY TimeOutOne DEF Inv, TypeOK, Flush, FlushBegin, FlushDone, FlushAbandoned, CountLoad,
                    CountStore
<1>4. /\ l2Lock' \in Thread \cup {"none"} /\ loaded' \in [Thread -> Nat]
      /\ l2_flush_timeouts' \in Nat /\ abandoned' \in Nat
  BY DEF Inv, TypeOK, Flush, FlushBegin, FlushDone, FlushAbandoned, CountLoad,
         CountStore, Incremented
<1>5. TypeOK'
  BY <1>1, <1>2, <1>3, <1>4 DEF Inv, TypeOK
<1>6. DrvInv'
  BY <1>1, DrvKept DEF Inv, TypeOK, Thread
<1>7. WorkInv'
  BY <1>1, Sets DEF Inv, WorkInv, OnJobsVm, TypeOK, Thread, PipeOf, Pipe
<1>. QED  BY <1>2, <1>5, <1>6, <1>7 DEF Inv

\* A pipe has at most two MMUs, and as many as count.
LEMMA HowMany ==
  ASSUME Inv
  PROVE  /\ \A p \in Pipe : MmusOf(p) \in SUBSET Mmu /\ Cardinality(MmusOf(p)) \in Nat
         /\ MmusOf("pp") # {} => Cardinality(MmusOf("pp")) >= 1
         /\ {2, 3} \subseteq MmusOf("pp") => Cardinality(MmusOf("pp")) >= 2
<1>1. \A p \in Pipe : MmusOf(p) \in SUBSET Mmu
  BY DEF Inv, TypeOK, MmusOf
<1>2. \A p \in Pipe : IsFiniteSet(MmusOf(p)) /\ Cardinality(MmusOf(p)) \in Nat
  BY <1>1, MmusFinite
<1>3. \A S \in SUBSET MmusOf("pp") : Cardinality(S) <= Cardinality(MmusOf("pp"))
  BY <1>2, FS_Subset DEF Pipe
<1>4. ASSUME MmusOf("pp") # {} PROVE Cardinality(MmusOf("pp")) >= 1
  <2>1. PICK m \in MmusOf("pp") : TRUE
    BY <1>4
  <2>2. Cardinality({m}) = 1
    BY FS_Singleton
  <2>. QED  BY <1>2, <1>3, <2>1, <2>2 DEF Pipe
<1>5. ASSUME {2, 3} \subseteq MmusOf("pp") PROVE Cardinality(MmusOf("pp")) >= 2
  <2>1. Cardinality({2}) = 1 /\ IsFiniteSet({2})
    BY FS_Singleton
  <2>2. Cardinality({2} \cup {3}) = 2
    BY <2>1, FS_AddElement
  <2>3. {2} \cup {3} = {2, 3}
    OBVIOUS
  <2>. QED  BY <1>2, <1>3, <1>5, <2>2, <2>3 DEF Pipe
<1>. QED  BY <1>1, <1>2, <1>4, <1>5

\* All MMUs of a pipe are switched before any of its processors starts.
LEMMA SwitchInv ==
  ASSUME Inv, NEW p \in Pipe, SwitchVm(p)
  PROVE  Inv'
<1>. USE DEF initVars, mmuVars, jobVars, l2Vars
<1>1. PlatformTypeOK' /\ BusInv'
  BY BusKept DEF Inv, SwitchVm
<1>2. PICK late \in SUBSET MmusOf(p) :
        /\ TimeOut(late)
        /\ reg' = [m \in Mmu |-> IF m \in MmusOf(p)
                                 THEN [reg[m] EXCEPT !.dte = vm[p], !.stall = m \in late]
                                 ELSE reg[m]]
  BY DEF SwitchVm, Switched
<1>3. timeouts' \in 0 .. MaxTimeouts
  BY <1>2, TimeOutType DEF Inv, TypeOK, MmusOf
<1>4. vm[p] \in 0 .. Empty
  BY Sets DEF Inv, TypeOK, Vm
<1>5. ASSUME NEW m \in Mmu
      PROVE  /\ reg'[m] \in Regs
             /\ m \in MmusOf(p) => reg'[m].dte = vm[p]
             /\ m \notin MmusOf(p) => reg'[m] = reg[m]
  <2>1. (m \in late) \in BOOLEAN
    OBVIOUS
  <2>2. PICK b \in BOOLEAN :
          reg'[m] = IF m \in MmusOf(p) THEN [reg[m] EXCEPT !.dte = vm[p], !.stall = b]
                    ELSE reg[m]
    BY <1>2, <2>1
  <2>. QED  BY <1>4, <2>2 DEF Inv, TypeOK, Regs
<1>6. reg' \in [Mmu -> Regs]
  <2>1. reg' = [m \in Mmu |-> reg'[m]]
    BY <1>2
  <2>. QED  BY <1>5, <2>1
<1>7. left' \in [Pipe -> Int]
  <2>1. Cardinality(MmusOf(p)) \in Nat
    BY HowMany
  <2>2. left \in [Pipe -> Int] /\ left' = [left EXCEPT ![p] = Cardinality(MmusOf(p))]
    BY DEF SwitchVm, Inv, TypeOK
  <2>. QED  BY <2>1, <2>2
<1>8. TypeOK'
  BY <1>1, <1>3, <1>6, <1>7 DEF SwitchVm, Switched, Goto, Inv, TypeOK, Thread, Regs
<1>9. DrvInv'
  BY DrvKept DEF SwitchVm, Goto, Inv, TypeOK, Thread, Pipe
<1>10. ASSUME NEW m \in Mmu, core'[m] # "idle"
       PROVE  /\ reg'[m].dte = vm[PipeOf(m)] /\ tlb'[m] \subseteq {vm[PipeOf(m)]}
              /\ m \in present /\ pc'[PipeOf(m)] = "run"
  <2>1. /\ core'[m] = IF m \in MmusOf(p) THEN "busy" ELSE core[m]
        /\ tlb'[m] = IF m \in MmusOf(p) THEN {} ELSE tlb[m]
    BY DEF SwitchVm, Switched
  <2>2. pc[p] = "flushed" /\ pc'[p] = "run" /\ \A q \in Pipe \ {p} : pc'[q] = pc[q]
    BY DEF SwitchVm, Goto, Thread, Inv, TypeOK
  <2>. USE DEF PipeOf, Pipe
  <2>3. CASE m \in MmusOf(p)
    <3>1. PipeOf(m) = p /\ m \in present
      BY <2>3 DEF MmusOf
    <3>. QED  BY <1>5, <2>1, <2>2, <2>3, <3>1
  <2>4. CASE m \notin MmusOf(p)
    <3>1. core[m] # "idle" /\ reg'[m] = reg[m] /\ tlb'[m] = tlb[m]
      BY <1>5, <1>10, <2>1, <2>4
    <3>2. /\ m \in present /\ pc[PipeOf(m)] = "run"
          /\ reg[m].dte = vm[PipeOf(m)] /\ tlb[m] \subseteq {vm[PipeOf(m)]}
      BY <3>1 DEF Inv, WorkInv, OnJobsVm, TypeOK
    <3>. QED  BY <2>2, <3>1, <3>2
  <2>. QED  BY <2>3, <2>4
<1>11. /\ core'[2] # "idle" \/ core'[3] # "idle" => p # "pp" \/ left'["pp"] >= 1
       /\ core'[2] # "idle" /\ core'[3] # "idle" => p # "pp" \/ left'["pp"] >= 2
  <2>1. 2 \in Mmu /\ 3 \in Mmu /\ PipeOf(2) = "pp" /\ PipeOf(3) = "pp"
    BY Sets DEF PipeOf
  <2>2. p = "pp" => left'["pp"] = Cardinality(MmusOf("pp"))
    BY DEF SwitchVm, Inv, TypeOK
  <2>3. \A m \in {2, 3} : core'[m] # "idle" => m \in MmusOf("pp")
    BY <1>10, <2>1 DEF SwitchVm, MmusOf
  <2>. QED  BY <2>2, <2>3, HowMany
<1>12. WorkInv'
  <2>1. UNCHANGED <<vm, present>>
    BY DEF SwitchVm
  <2>2. p = "gp" => UNCHANGED <<left["pp"], error["pp"], pc["pp"], core[2], core[3]>>
    BY Sets DEF SwitchVm, Goto, Inv, TypeOK, MmusOf, PipeOf, Pipe, Thread
  <2>3. p \in {"gp", "pp"}
    BY DEF Pipe
  <2>4. \A q \in Pipe : pc'[q] # "idle" => vm'[q] # 0
    BY <2>1 DEF SwitchVm, Goto, Inv, WorkInv, TypeOK, Thread
  <2>. QED  BY <1>10, <1>11, <2>1, <2>2, <2>3, <2>4 DEF WorkInv, OnJobsVm, Inv
<1>. QED  BY <1>1, <1>8, <1>9, <1>12 DEF Inv

LEMMA QueueType ==
  ASSUME TypeOK, Queue
  PROVE  /\ pc' = pc \/ pc' = [pc EXCEPT !["recover"] = "flush"]
         /\ again' \in BOOLEAN
BY DEF Queue, TypeOK

\* lima_sched_pipe_task_done counts one report less, and ends a run of the
\* pixel pipe only at the last one; a run with an error goes on.
LEMMA ReportType ==
  ASSUME TypeOK, NEW p \in Pipe, NEW err \in BOOLEAN, Report(p, err)
  PROVE  /\ left' \in [Pipe -> Int] /\ error' \in [Pipe -> BOOLEAN]
         /\ fault' \subseteq Pipe /\ again' \in BOOLEAN
         /\ pc' \in [Thread -> {"idle", "flush", "flushing", "count", "store", "flushed",
                                "run", "resume"}]
         /\ \A q \in Pipe : q # p => /\ pc'[q] = pc[q] /\ left'[q] = left[q]
                                     /\ error'[q] = error[q]
         /\ pc'[p] = "idle" \/ pc'[p] = pc[p]
         /\ err => error'[p] /\ pc'[p] = pc[p]
         /\ ~err => error'[p] = error[p]
         /\ p = "pp" => /\ left'[p] = left[p] - 1
                        /\ error[p] \/ left[p] # 1 => pc'[p] = pc[p]
<1>1. /\ left' \in [Pipe -> Int] /\ left'[p] = left[p] - 1
      /\ \A q \in Pipe : q # p => left'[q] = left[q]
  BY DEF Report, TypeOK
<1>2. /\ error' \in [Pipe -> BOOLEAN]
      /\ \A q \in Pipe : q # p => error'[q] = error[q]
      /\ error'[p] = (error[p] \/ err)
  <2>1. (error[p] \/ err) \in BOOLEAN
    OBVIOUS
  <2>2. error \in [Pipe -> BOOLEAN] /\ error' = [error EXCEPT ![p] = error[p] \/ err]
    BY DEF Report, TypeOK
  <2>. QED  BY <2>1, <2>2
<1>3. fault' \subseteq Pipe /\ again' \in BOOLEAN
  BY QueueType DEF Report, TypeOK
<1>4. \/ pc' = pc
      \/ pc' = [pc EXCEPT ![p] = "idle"] /\ ~error'[p] /\ (p = "pp" => left[p] = 1)
      \/ pc' = [pc EXCEPT !["recover"] = "flush"]
  BY QueueType DEF Report, TypeOK, Thread
<1>5. p \in Thread /\ "recover" \in Thread /\ p # "recover" /\ \A q \in Pipe : q # "recover"
  BY DEF Thread, Pipe
<1>6. /\ pc' \in [Thread -> {"idle", "flush", "flushing", "count", "store", "flushed",
                             "run", "resume"}]
      /\ \A q \in Pipe : q # p => pc'[q] = pc[q]
      /\ pc'[p] = "idle" \/ pc'[p] = pc[p]
      /\ pc'[p] # pc[p] => ~error'[p] /\ (p = "pp" => left[p] = 1)
  BY <1>4, <1>5 DEF TypeOK, Thread
<1>7. /\ err => error'[p] /\ pc'[p] = pc[p]
      /\ ~err => error'[p] = error[p]
  BY <1>2, <1>6 DEF TypeOK
<1>8. p = "pp" => (error[p] \/ left[p] # 1 => pc'[p] = pc[p])
  BY <1>2, <1>6
<1>. QED  BY <1>1, <1>2, <1>3, <1>6, <1>7, <1>8

\* A step of one processor and one report of its pipe.
LEMMA CoreDoneInv ==
  ASSUME Inv, NEW m \in Mmu, CoreDone(m)
  PROVE  Inv'
<1>. USE DEF initVars, l2Vars
<1>. DEFINE p == PipeOf(m)
<1>1. PlatformTypeOK' /\ BusInv'
  BY BusKept DEF Inv, CoreDone
<1>2. p \in Pipe /\ FALSE \in BOOLEAN
  BY DEF PipeOf, Pipe
<1>3. /\ core[m] = "busy" /\ core' = [core EXCEPT ![m] = "idle"]
      /\ tlb' = [tlb EXCEPT ![m] = @ \cup {reg[m].dte}]
      /\ Report(p, FALSE)
      /\ UNCHANGED <<platformVars, initVars, reg, deaf, stale, status, vm, jobs, l2Vars, timeouts>>
  BY DEF CoreDone, Works, Used, Becomes
<1>4. /\ m \in present /\ pc[p] = "run"
      /\ reg[m].dte = vm[p] /\ tlb[m] \subseteq {vm[p]}
  BY <1>3 DEF Inv, WorkInv, OnJobsVm
<1>5. vm[p] \in Vm
  BY <1>2, <1>4 DEF Inv, WorkInv, TypeOK
<1>6. /\ left' \in [Pipe -> Int] /\ error' \in [Pipe -> BOOLEAN]
      /\ fault' \subseteq Pipe /\ again' \in BOOLEAN
      /\ pc' \in [Thread -> {"idle", "flush", "flushing", "count", "store", "flushed",
                             "run", "resume"}]
      /\ \A q \in Pipe : q # p => /\ pc'[q] = pc[q] /\ left'[q] = left[q]
                                  /\ error'[q] = error[q]
      /\ pc'[p] = "idle" \/ pc'[p] = pc[p]
      /\ error'[p] = error[p]
      /\ p = "pp" => /\ left'[p] = left[p] - 1
                     /\ error[p] \/ left[p] # 1 => pc'[p] = pc[p]
  BY <1>2, <1>3, ReportType DEF Inv
<1>. HIDE DEF p
<1>7. TypeOK'
  BY <1>1, <1>3, <1>4, <1>5, <1>6 DEF Inv, TypeOK
<1>8. DrvInv'
  BY <1>2, <1>3, <1>6, DrvKept DEF Inv
<1>9. OnJobsVm' /\ \A q \in Pipe : pc'[q] # "idle" => vm'[q] # 0
  BY <1>2, <1>3, <1>6 DEF Inv, WorkInv, OnJobsVm, TypeOK
<1>10. /\ \A n \in Mmu : core'[n] # "idle" => core[n] # "idle" /\ n # m
       /\ core'[m] = "idle" /\ UNCHANGED present
  BY <1>3 DEF Inv, TypeOK
<1>11. CASE p = "gp"
  <2>1. m = 1 /\ \A n \in Mmu : PipeOf(n) = "gp" => n = 1
    BY <1>11, Sets DEF p, PipeOf
  <2>2. \A n \in Mmu : core'[n] # "idle" => PipeOf(n) # p /\ PipeOf(n) \in Pipe
    BY <1>10, <1>11, <2>1 DEF PipeOf, Pipe
  <2>3. \A n \in Mmu : core'[n] # "idle" => n \in present' /\ pc'[PipeOf(n)] = "run"
    BY <1>6, <1>10, <2>2 DEF Inv, WorkInv
  <2>4. UNCHANGED <<pc["pp"], left["pp"], error["pp"], core[2], core[3]>>
    BY <1>3, <1>6, <1>11, <2>1, Sets DEF Pipe, Inv, TypeOK
  <2>5. WorkInv'
    BY <1>9, <2>3, <2>4 DEF WorkInv, Inv
  <2>. QED  BY <1>1, <1>7, <1>8, <2>5 DEF Inv
<1>12. CASE p = "pp"
  <2>1. m \in {2, 3} /\ \A n \in Mmu : PipeOf(n) = "pp" => n \in {2, 3}
    BY <1>12, Sets DEF p, PipeOf
  <2>2. left["pp"] \in Int /\ left'["pp"] = left["pp"] - 1
    BY <1>6, <1>12 DEF Inv, TypeOK, Pipe
  <2>3. ~error["pp"] => /\ left["pp"] >= 1
                        /\ (\E n \in {2, 3} : core'[n] # "idle") => left["pp"] >= 2
    BY <1>3, <1>4, <1>10, <1>12, <2>1, Sets DEF Inv, WorkInv
  <2>4. \A n \in Mmu : core'[n] # "idle" => n \in present' /\ pc'[PipeOf(n)] = "run"
    <3>. SUFFICES ASSUME NEW n \in Mmu, core'[n] # "idle"
                  PROVE  n \in present' /\ pc'[PipeOf(n)] = "run"
      OBVIOUS
    <3>1. n \in present /\ pc[PipeOf(n)] = "run" /\ n # m
      BY <1>10 DEF Inv, WorkInv
    <3>2. CASE PipeOf(n) = "gp"
      BY <1>6, <1>10, <1>12, <3>1, <3>2 DEF Pipe
    <3>3. CASE PipeOf(n) = "pp"
      <4>1. error["pp"] \/ left["pp"] >= 2
        BY <2>1, <2>3, <3>3
      <4>2. pc'["pp"] = pc["pp"]
        BY <1>6, <1>12, <2>2, <4>1
      <4>. QED  BY <1>10, <3>1, <3>3, <4>2
    <3>. QED  BY <3>2, <3>3 DEF PipeOf
  <2>5. pc'["pp"] = "run" /\ ~error'["pp"] =>
          /\ core'[2] # "idle" \/ core'[3] # "idle" => left'["pp"] >= 1
          /\ core'[2] # "idle" /\ core'[3] # "idle" => left'["pp"] >= 2
    BY <1>6, <1>10, <1>12, <2>1, <2>2, <2>3
  <2>6. WorkInv'
    BY <1>9, <2>4, <2>5 DEF WorkInv
  <2>. QED  BY <1>1, <1>7, <1>8, <2>6 DEF Inv
<1>. QED  BY <1>2, <1>11, <1>12 DEF Pipe

LEMMA CoreStopsInv ==
  ASSUME Inv, NEW m \in Mmu, CoreStops(m)
  PROVE  Inv'
<1>. USE DEF initVars, l2Vars
<1>1. PlatformTypeOK' /\ BusInv'
  BY BusKept DEF Inv, CoreStops
<1>2. /\ core[m] = "busy" /\ core' = [core EXCEPT ![m] = "idle"]
      /\ UNCHANGED <<platformVars, initVars, deaf, stale, status, pc, vm, left, error, fault,
                     again, jobs, l2Vars, timeouts>>
  BY DEF CoreStops, Becomes
<1>3. reg[m].dte = vm[PipeOf(m)] /\ vm[PipeOf(m)] \in Vm
  BY <1>2 DEF Inv, WorkInv, OnJobsVm, TypeOK, PipeOf, Pipe
<1>4. tlb' \in [Mmu -> SUBSET Vm] /\ \A n \in Mmu : n # m => tlb'[n] = tlb[n]
  BY <1>3 DEF CoreStops, Used, Inv, TypeOK
<1>5. reg' \in [Mmu -> Regs] /\ \A n \in Mmu : n # m => reg'[n] = reg[n]
  <2>1. reg \in [Mmu -> Regs] /\ reg[m] \in Regs
    BY DEF Inv, TypeOK, Regs
  <2>. DEFINE pf == [reg[m] EXCEPT !.raw = @ \cup {"pf"}, !.fault = TRUE]
              be == [reg[m] EXCEPT !.raw = @ \cup {"be"}]
  <2>2. pf \in Regs /\ be \in Regs
    BY <2>1 DEF Regs, Interrupts
  <2>3. reg' = reg \/ reg' = [reg EXCEPT ![m] = pf] \/ reg' = [reg EXCEPT ![m] = be]
    BY <2>1 DEF CoreStops
  <2>. HIDE DEF pf, be
  <2>. QED  BY <2>1, <2>2, <2>3
<1>6. TypeOK'
  BY <1>1, <1>2, <1>4, <1>5 DEF Inv, TypeOK, Regs
<1>7. DrvInv'
  BY <1>2, DrvKept DEF Inv
<1>8. WorkInv'
  BY <1>2, <1>4, <1>5 DEF Inv, WorkInv, OnJobsVm, TypeOK
<1>. QED  BY <1>1, <1>6, <1>7, <1>8 DEF Inv

LEMMA OutOfHeapInv ==
  ASSUME Inv, OutOfHeap
  PROVE  Inv'
<1>. USE DEF initVars, l2Vars
<1>1. PlatformTypeOK' /\ BusInv'
  BY BusKept DEF Inv, OutOfHeap
<1>2. /\ core[1] = "busy" /\ core' = [core EXCEPT ![1] = "heap"] /\ 1 \in Mmu
      /\ pc' = pc \/ pc' = [pc EXCEPT !["recover"] = "flush"]
      /\ \A q \in Pipe : pc'[q] = pc[q]
      /\ again' \in BOOLEAN
      /\ tlb' = [tlb EXCEPT ![1] = @ \cup {reg[1].dte}]
      /\ UNCHANGED <<platformVars, initVars, reg, deaf, stale, status, vm, left, error, fault,
                     jobs, l2Vars, timeouts>>
  <2>1. /\ pc' = pc \/ pc' = [pc EXCEPT !["recover"] = "flush"]
        /\ again' \in BOOLEAN
    BY QueueType DEF OutOfHeap, Inv
  <2>2. \A q \in Pipe : pc'[q] = pc[q]
    BY <2>1 DEF Pipe, Thread, Inv, TypeOK
  <2>. QED  BY <2>1, <2>2, Sets DEF OutOfHeap, Works, Used, Becomes, Inv, TypeOK
<1>3. reg[1].dte = vm[PipeOf(1)] /\ vm[PipeOf(1)] \in Vm
  BY <1>2 DEF Inv, WorkInv, OnJobsVm, TypeOK, PipeOf, Pipe
<1>4. TypeOK'
  <2>1. tlb' \in [Mmu -> SUBSET Vm]
    BY <1>2, <1>3 DEF Inv, TypeOK
  <2>2. pc' \in [Thread -> {"idle", "flush", "flushing", "count", "store", "flushed",
                            "run", "resume"}]
    BY <1>2 DEF Inv, TypeOK, Thread
  <2>3. core' \in [Mmu -> {"idle", "busy", "heap"}]
    BY <1>2 DEF Inv, TypeOK
  <2>. QED  BY <1>1, <1>2, <2>1, <2>2, <2>3 DEF Inv, TypeOK
<1>5. DrvInv'
  BY <1>2, DrvKept DEF Inv
<1>6. WorkInv'
  BY <1>2, <1>3 DEF Inv, WorkInv, OnJobsVm, TypeOK, PipeOf, Pipe
<1>. QED  BY <1>1, <1>4, <1>5, <1>6 DEF Inv

LEMMA RecoverInv ==
  ASSUME Inv, Recover
  PROVE  Inv'
<1>. USE DEF initVars, l2Vars
<1>1. PlatformTypeOK' /\ BusInv'
  BY BusKept DEF Inv, Recover
<1>2. /\ pc' \in [Thread -> {"idle", "flush", "flushing", "count", "store", "flushed",
                           "run", "resume"}]
      /\ \A q \in Pipe : pc'[q] = pc[q]
      /\ again' = FALSE /\ tlb' \in [Mmu -> SUBSET Vm]
      /\ \A m \in Mmu : tlb'[m] = {} \/ tlb'[m] = tlb[m]
      /\ UNCHANGED <<platformVars, initVars, reg, deaf, stale, status, vm, left, error, jobs,
                     l2Vars, timeouts>>
  <2>1. \E to \in {"flush", "idle"} : pc' = [pc EXCEPT !["recover"] = to]
    BY DEF Recover, Goto
  <2>2. tlb' \in [Mmu -> SUBSET Vm] /\ \A m \in Mmu : tlb'[m] = {} \/ tlb'[m] = tlb[m]
    BY DEF Recover, Inv, TypeOK
  <2>3. /\ pc' \in [Thread -> {"idle", "flush", "flushing", "count", "store", "flushed",
                             "run", "resume"}]
        /\ \A q \in Pipe : pc'[q] = pc[q]
    BY <2>1 DEF Pipe, Thread, Inv, TypeOK
  <2>. QED  BY <2>2, <2>3 DEF Recover
<1>3. /\ core' \in [Mmu -> {"idle", "busy", "heap"}] /\ fault' \subseteq Pipe
      /\ \A m \in Mmu : core'[m] # "idle" => core[m] # "idle"
  <2>1. core \in [Mmu -> {"idle", "busy", "heap"}] /\ fault \subseteq Pipe /\ 1 \in Mmu
    BY Sets DEF Inv, TypeOK
  <2>2. \/ /\ core' = [core EXCEPT ![1] = IF core[1] = "heap" THEN "busy" ELSE core[1]]
           /\ fault' = fault
        \/ fault' = fault \cup {"gp"} /\ core' = core
        \/ fault' = fault /\ core' = core
    BY DEF Recover
  <2>. QED  BY <2>1, <2>2 DEF Pipe
<1>4. TypeOK'
  BY <1>1, <1>2, <1>3 DEF Inv, TypeOK, Thread
<1>5. DrvInv'
  BY <1>2, DrvKept DEF Inv
<1>6. WorkInv'
  BY <1>2, <1>3, Sets DEF Inv, WorkInv, OnJobsVm, TypeOK, PipeOf, Pipe
<1>. QED  BY <1>1, <1>4, <1>5, <1>6 DEF Inv

LEMMA RecoverLostInv ==
  ASSUME Inv, RecoverLost
  PROVE  Inv'
<1>. USE DEF initVars, mmuVars, l2Vars
<1>1. PlatformTypeOK' /\ BusInv'
  BY BusKept DEF Inv, RecoverLost
<1>2. \A q \in Pipe : pc'[q] = pc[q]
  BY DEF RecoverLost, Goto, Pipe, Inv, TypeOK
<1>3. TypeOK'
  BY <1>1 DEF RecoverLost, Goto, Inv, TypeOK, Thread
<1>4. DrvInv'
  BY <1>2, DrvKept DEF Inv, RecoverLost
<1>5. WorkInv'
  BY <1>2 DEF RecoverLost, Inv, WorkInv, OnJobsVm, PipeOf, Pipe
<1>. QED  BY <1>1, <1>3, <1>4, <1>5 DEF Inv

LEMMA HandlerInv ==
  ASSUME Inv, NEW m \in Mmu, Handler(m)
  PROVE  Inv'
<1>. USE DEF initVars, mmuVars, jobVars, l2Vars
<1>1. CASE HandlerReads(m)
  <2>1. running' = running \cup {m} /\ m \in tag
    BY <1>1 DEF HandlerReads, Enter
  <2>2. PlatformTypeOK' /\ BusInv'
    BY <1>1, <2>1 DEF HandlerReads, Inv, TypeOK, PlatformTypeOK, BusInv, NothingLeft
  <2>3. TypeOK'
    <3>1. status' \in [Mmu -> (SUBSET Interrupts) \cup {Zero}]
      BY <1>1 DEF HandlerReads, Inv, TypeOK
    <3>. QED  BY <1>1, <2>2, <3>1 DEF HandlerReads, Inv, TypeOK
  <2>4. DrvInv'
    BY <1>1 DEF HandlerReads, Inv, DrvInv, Probing
  <2>5. WorkInv'
    BY <1>1 DEF HandlerReads, Inv, WorkInv, OnJobsVm
  <2>. QED  BY <2>2, <2>3, <2>4, <2>5 DEF Inv
<1>2. CASE HandlerMasks(m)
  <2>1. PlatformTypeOK' /\ BusInv'
    BY <1>2, BusKept DEF Inv, HandlerMasks
  <2>2. /\ reg' \in [Mmu -> Regs] /\ \A n \in Mmu : reg'[n].dte = reg[n].dte
    <3>1. reg \in [Mmu -> Regs] /\ reg[m] \in Regs
      BY DEF Inv, TypeOK, Regs
    <3>. DEFINE r == [reg[m] EXCEPT !.mask = FALSE, !.raw = @ \ status[m]]
    <3>2. r \in Regs /\ r.dte = reg[m].dte
      BY <3>1 DEF Regs
    <3>3. reg' = [reg EXCEPT ![m] = r]
      BY <1>2, <3>1 DEF HandlerMasks
    <3>. HIDE DEF r
    <3>. QED  BY <3>1, <3>2, <3>3
  <2>3. TypeOK'
    BY <1>2, <2>1, <2>2 DEF HandlerMasks, Inv, TypeOK, Regs
  <2>4. DrvInv'
    BY <1>2, DrvKept DEF HandlerMasks, Inv
  <2>5. WorkInv'
    BY <1>2, <2>2 DEF HandlerMasks, Inv, WorkInv, OnJobsVm
  <2>. QED  BY <2>1, <2>3, <2>4, <2>5 DEF Inv
<1>3. CASE HandlerReports(m)
  <2>. DEFINE p == PipeOf(m)
  <2>1. p \in Pipe /\ TRUE \in BOOLEAN /\ Report(p, TRUE)
    BY <1>3 DEF PipeOf, Pipe, HandlerReports
  <2>2. running' = running \ {m}
    BY <1>3 DEF HandlerReports, Leave
  <2>3. PlatformTypeOK' /\ BusInv'
    BY <1>3, <2>2 DEF HandlerReports, Inv, TypeOK, PlatformTypeOK, BusInv, NothingLeft
  <2>4. /\ left' \in [Pipe -> Int] /\ error' \in [Pipe -> BOOLEAN]
        /\ fault' \subseteq Pipe /\ again' \in BOOLEAN
        /\ pc' \in [Thread -> {"idle", "flush", "flushing", "count", "store", "flushed",
                               "run", "resume"}]
        /\ \A q \in Pipe : /\ pc'[q] = pc[q]
                           /\ q # p => left'[q] = left[q] /\ error'[q] = error[q]
        /\ error'[p]
    BY <2>1, ReportType DEF Inv
  <2>. HIDE DEF p
  <2>5. TypeOK'
    BY <1>3, <2>3, <2>4 DEF HandlerReports, Inv, TypeOK
  <2>6. DrvInv'
    BY <1>3, <2>4 DEF HandlerReports, Inv, DrvInv, Probing, Pipe
  <2>7. WorkInv'
    <3>1. UNCHANGED <<reg, tlb, vm, core, present>>
      BY <1>3 DEF HandlerReports
    <3>2. \A q \in Pipe : pc'[q] = pc[q]
      BY <2>4
    <3>3. pc'["pp"] = "run" /\ ~error'["pp"] =>
            pc["pp"] = "run" /\ ~error["pp"] /\ left'["pp"] = left["pp"]
      BY <2>4 DEF Pipe
    <3>. QED  BY <3>1, <3>2, <3>3 DEF Inv, WorkInv, OnJobsVm, PipeOf, Pipe
  <2>. QED  BY <2>3, <2>5, <2>6, <2>7 DEF Inv
<1>4. CASE HandlerReturns(m)
  <2>1. running' = running \ {m}
    BY <1>4 DEF HandlerReturns, Leave
  <2>2. PlatformTypeOK' /\ BusInv'
    BY <1>4, <2>1 DEF HandlerReturns, Inv, TypeOK, PlatformTypeOK, BusInv, NothingLeft
  <2>3. TypeOK'
    BY <1>4, <2>2 DEF HandlerReturns, Inv, TypeOK
  <2>4. DrvInv'
    BY <1>4 DEF HandlerReturns, Inv, DrvInv, Probing
  <2>5. WorkInv'
    BY <1>4 DEF HandlerReturns, Inv, WorkInv, OnJobsVm
  <2>. QED  BY <2>2, <2>3, <2>4, <2>5 DEF Inv
<1>. QED  BY <1>1, <1>2, <1>3, <1>4 DEF Handler

LEMMA TimedOutInv ==
  ASSUME Inv, NEW p \in Pipe, TimedOut(p)
  PROVE  Inv'
<1>. USE DEF initVars, mmuVars, l2Vars
<1>1. PlatformTypeOK' /\ BusInv'
  BY BusKept DEF Inv, TimedOut
<1>2. /\ pc' = [pc EXCEPT ![p] = "resume"] /\ pc[p] = "run"
      /\ core' = [m \in Mmu |-> IF m \in MmusOf(p) THEN "idle" ELSE core[m]]
      /\ UNCHANGED <<platformVars, initVars, reg, tlb, deaf, status, vm, left, error, fault,
                     again, jobs, l2Vars, timeouts>>
  BY DEF TimedOut, Goto, Stopped
<1>3. TypeOK'
  BY <1>1, <1>2 DEF Inv, TypeOK, TimedOut, Overtakes
<1>4. DrvInv'
  BY <1>2, DrvKept DEF Inv, TypeOK, Thread, Pipe
<1>5. ASSUME NEW m \in Mmu, core'[m] # "idle"
      PROVE  core[m] # "idle" /\ m \in present /\ PipeOf(m) # p
             /\ pc'[PipeOf(m)] = "run"
  <2>1. core[m] # "idle" /\ m \notin MmusOf(p)
    BY <1>2, <1>5
  <2>2. m \in present /\ pc[PipeOf(m)] = "run"
    BY <2>1 DEF Inv, WorkInv
  <2>. QED  BY <1>2, <2>1, <2>2 DEF MmusOf, Inv, TypeOK, Thread, Pipe, PipeOf
<1>6. WorkInv'
  <2>1. OnJobsVm'
    BY <1>2, <1>5 DEF Inv, WorkInv, OnJobsVm
  <2>2. \A q \in Pipe : pc'[q] # "idle" => vm'[q] # 0
    BY <1>2 DEF Inv, WorkInv, TypeOK, Thread
  <2>3. /\ pc'["pp"] = "run" => pc["pp"] = "run"
        /\ core'[2] # "idle" => core[2] # "idle"
        /\ core'[3] # "idle" => core[3] # "idle"
    BY <1>2, <1>5, Sets DEF Inv, TypeOK, Thread, Pipe
  <2>. QED  BY <1>2, <1>5, <2>1, <2>2, <2>3 DEF Inv, WorkInv
<1>. QED  BY <1>1, <1>3, <1>4, <1>6 DEF Inv

LEMMA ResumeInv ==
  ASSUME Inv, NEW p \in Pipe, PageFaultResume(p)
  PROVE  Inv'
<1>. USE DEF initVars, l2Vars
<1>1. PlatformTypeOK' /\ BusInv'
  BY BusKept DEF Inv, PageFaultResume
<1>0. PICK late \in SUBSET Faulted(p) : \E slow \in SUBSET (Faulted(p) \ late) :
        /\ TimeOut(late \cup slow)
        /\ reg' = [m \in Mmu |->
             IF m \notin Faulted(p) THEN reg[m]
             ELSE [Rearm(reg[m], m \notin late) EXCEPT !.paging = @ \/ m \notin late \cup slow]]
        /\ tlb' = [m \in Mmu |-> IF m \in Faulted(p) \ late THEN {} ELSE tlb[m]]
        /\ deaf' = deaf \ (Faulted(p) \ late)
  BY DEF PageFaultResume
<1>2. PICK slow \in SUBSET (Faulted(p) \ late) :
        /\ TimeOut(late \cup slow)
        /\ reg' = [m \in Mmu |->
             IF m \notin Faulted(p) THEN reg[m]
             ELSE [Rearm(reg[m], m \notin late) EXCEPT !.paging = @ \/ m \notin late \cup slow]]
        /\ tlb' = [m \in Mmu |-> IF m \in Faulted(p) \ late THEN {} ELSE tlb[m]]
        /\ deaf' = deaf \ (Faulted(p) \ late)
  BY <1>0
<1>3. Faulted(p) \subseteq MmusOf(p) /\ MmusOf(p) \subseteq Mmu
  BY DEF Faulted, MmusOf, Inv, TypeOK
<1>4. timeouts' \in 0 .. MaxTimeouts
  BY <1>2, <1>3, TimeOutType DEF Inv
<1>5. ASSUME NEW m \in Mmu
      PROVE  /\ reg'[m] \in Regs
             /\ m \notin MmusOf(p) => reg'[m] = reg[m] /\ tlb'[m] = tlb[m]
             /\ tlb'[m] \in SUBSET Vm
  <2>1. reg[m] \in Regs /\ tlb[m] \in SUBSET Vm
    BY DEF Inv, TypeOK, Regs
  <2>2. ASSUME NEW b \in BOOLEAN PROVE Rearm(reg[m], b) \in Regs
    BY <2>1, Sets, RegType DEF Rearm, Regs
  <2>3. Rearm(reg[m], m \notin late) \in Regs
    BY <2>2
  <2>4. ASSUME NEW r \in Regs PROVE [r EXCEPT !.paging = @ \/ m \notin late \cup slow] \in Regs
    BY DEF Regs
  <2>5. reg'[m] \in Regs
    BY <1>2, <2>1, <2>3, <2>4
  <2>. QED  BY <1>2, <1>3, <2>1, <2>5
<1>6. reg' \in [Mmu -> Regs] /\ tlb' \in [Mmu -> SUBSET Vm]
  <2>1. reg' = [m \in Mmu |-> reg'[m]] /\ tlb' = [m \in Mmu |-> tlb'[m]]
    BY <1>2
  <2>. QED  BY <1>5, <2>1
<1>7. /\ pc' = [pc EXCEPT ![p] = "idle"] /\ pc[p] = "resume"
      /\ vm' = [vm EXCEPT ![p] = 0] /\ fault' = fault \ {p}
      /\ UNCHANGED <<platformVars, initVars, status, core, left, error, again, jobs, l2Vars>>
  BY DEF PageFaultResume, Goto
<1>8. TypeOK'
  <2>1. stale' \subseteq Pipe
    BY DEF PageFaultResume, Inv, TypeOK
  <2>. QED  BY <1>1, <1>2, <1>4, <1>6, <1>7, <2>1 DEF Inv, TypeOK, Regs
<1>9. DrvInv'
  BY <1>7, DrvKept DEF Inv, TypeOK, Thread, Pipe
<1>10. ASSUME NEW m \in Mmu, core'[m] # "idle"
       PROVE  /\ PipeOf(m) # p /\ m \in present /\ pc'[PipeOf(m)] = "run"
              /\ reg'[m] = reg[m] /\ tlb'[m] = tlb[m] /\ vm'[PipeOf(m)] = vm[PipeOf(m)]
  <2>1. m \in present /\ pc[PipeOf(m)] = "run"
    BY <1>7, <1>10 DEF Inv, WorkInv
  <2>2. PipeOf(m) # p /\ m \notin MmusOf(p)
    BY <1>7, <2>1 DEF MmusOf
  <2>. QED  BY <1>5, <1>7, <2>1, <2>2 DEF Inv, TypeOK, Thread, Pipe, PipeOf
<1>11. WorkInv'
  <2>1. OnJobsVm'
    BY <1>7, <1>10 DEF Inv, WorkInv, OnJobsVm
  <2>2. \A q \in Pipe : pc'[q] # "idle" => vm'[q] # 0
    BY <1>7 DEF Inv, WorkInv, TypeOK, Thread
  <2>3. pc'["pp"] = "run" => pc["pp"] = "run"
    BY <1>7 DEF Inv, TypeOK, Thread, Pipe
  <2>. QED  BY <1>7, <1>10, <2>1, <2>2, <2>3 DEF Inv, WorkInv
<1>. QED  BY <1>1, <1>8, <1>9, <1>11 DEF Inv

-----------------------------------------------------------------------------
LEMMA StepInv == Inv /\ [Next]_vars => Inv'
<1>. SUFFICES ASSUME Inv, [Next]_vars  PROVE Inv'
  OBVIOUS
<1>1. CASE UNCHANGED vars
  <2>1. PlatformTypeOK' /\ BusInv'
    BY <1>1, BusKept DEF vars, Inv
  <2>. QED  BY <1>1, <2>1 DEF Inv, TypeOK, DrvInv, WorkInv, OnJobsVm, vars, platformVars,
                          initVars, mmuVars, jobVars, l2Vars, Probing
<1>2. CASE Next
  BY <1>2, BridgeInv, ProbeInv, RemoveInv, CoreDoneInv, CoreStopsInv, OutOfHeapInv,
     RecoverInv, RecoverLostInv, FlushInv, RunJobInv, SwitchInv, TimedOutInv, ResumeInv, HandlerInv
  DEF Next, Hw, Scheduler
<1>. QED  BY <1>1, <1>2

LEMMA Invariance == Spec => []Inv
BY InitInv, StepInv, PTL DEF Spec

\* Every variable of the bridge, the MMUs and the pipes above them keeps its
\* type: no line is established that was not allocated, no handler runs on a
\* line that is torn down, and every address space in a register is one.
THEOREM TypeCorrect == Spec => []TypeOK
<1>1. Inv => TypeOK
  BY DEF Inv
<1>. QED  BY <1>1, Invariance, PTL

\* lkpi_platform_bus_detach, and lkpi_platform_bus_attach where it fails, give
\* back everything, whichever step of the bridge or the driver failed, but the
\* busdma tags that lkpi_platform_dma_init has lost.
THEOREM DetachedHoldsNothing == Spec => []NothingLeft
<1>1. Inv => NothingLeft
  BY DEF Inv, BusInv
<1>. QED  BY <1>1, Invariance, PTL

\* lima_mmu_switch_vm and lima_mmu_page_fault_resume: a processor at work sees
\* the address space of its job and no other, however many commands time out.
THEOREM JobsStayInTheirVm == Spec => []OnJobsVm
<1>1. Inv => OnJobsVm
  BY DEF Inv, WorkInv
<1>. QED  BY <1>1, Invariance, PTL

-----------------------------------------------------------------------------
(***************************************************************************)
(* l2_flush_timeouts, which two threads may increment at once.             *)
(***************************************************************************)
Counting == {t \in Thread : pc[t] = "count"}

CountInv ==
  /\ l2_flush_timeouts + Cardinality(Counting) <= abandoned
  /\ \A t \in Thread : pc[t] = "store" =>
       loaded[t] + 1 + Cardinality(Counting) <= abandoned
  /\ abandoned > 0 => \/ l2_flush_timeouts > 0
                      \/ \E t \in Thread : pc[t] \in {"count", "store"}

LEMMA CountingFinite == Cardinality(Counting) \in Nat /\ IsFiniteSet(Counting)
<1>1. Thread = {"gp"} \cup {"pp"} \cup {"probe"} \cup {"recover"}
  BY DEF Thread, Pipe
<1>2. IsFiniteSet({"gp"}) /\ IsFiniteSet({"pp"}) /\ IsFiniteSet({"probe"})
      /\ IsFiniteSet({"recover"})
  BY FS_Singleton
<1>3. IsFiniteSet(Thread)
  BY <1>1, <1>2, FS_Union
<1>. QED  BY <1>3, FS_Subset, FS_CardinalityType DEF Counting

\* No other step touches the counter, or moves a thread that is about to count.
Moved(t, to) ==
  pc[t] \notin {"count", "store"} /\ to \notin {"count", "store"} /\ pc' = [pc EXCEPT ![t] = to]

LEMMA MovedDoesNotCount ==
  ASSUME pc \in [Thread -> {"idle", "flush", "flushing", "count", "store", "flushed",
                            "run", "resume"}],
         pc' = pc \/ \E t \in Thread : \E to : Moved(t, to)
  PROVE  \A t \in Thread : \A k \in {"count", "store"} : pc'[t] = k <=> pc[t] = k
BY DEF Moved

LEMMA QueueMoves ==
  ASSUME Queue
  PROVE  /\ pc' = pc \/ Moved("recover", "flush")
         /\ pc["recover"] = "idle" => pc' = [pc EXCEPT !["recover"] = "flush"] /\ again' = again
         /\ pc["recover"] # "idle" => pc' = pc
BY DEF Queue, Moved

LEMMA OthersDoNotCount ==
  ASSUME Inv, [Next]_vars, ~\E t \in Thread : Flush(t)
  PROVE  /\ UNCHANGED <<l2_flush_timeouts, abandoned, loaded>>
         /\ \A t \in Thread : \A k \in {"count", "store"} : pc'[t] = k <=> pc[t] = k
<1>. USE DEF l2Vars
<1>0. /\ pc \in [Thread -> {"idle", "flush", "flushing", "count", "store", "flushed",
                            "run", "resume"}]
      /\ Thread = {"gp", "pp", "probe", "recover"} /\ Pipe = {"gp", "pp"}
      /\ \A m \in Mmu : PipeOf(m) \in Pipe
  BY DEF Inv, TypeOK, Thread, Pipe, PipeOf
<1>1. CASE UNCHANGED vars
  BY <1>1 DEF vars
<1>2. CASE BridgeSteps \/ ProbeSteps \/ Remove \/ FiniIps
  <2>1. /\ UNCHANGED <<l2_flush_timeouts, abandoned, loaded>>
        /\ pc' = pc \/ \E to : Moved("probe", to)
    BY <1>0, <1>2 DEF BridgeSteps, ProbeSteps, Probe, L2Init, DteTest, Silence,
       RequestIrq, HwReset, HwEnable, PipesInit, Unwind, Remove, FiniIps, Goto, Moved
  <2>. QED  BY <1>0, <2>1, MovedDoesNotCount
<1>3. ASSUME NEW p \in Pipe, NEW here, NEW next, FiniPipe(p, here, next)
      PROVE  /\ UNCHANGED <<l2_flush_timeouts, abandoned, loaded>>
             /\ pc' = pc \/ Moved(p, "idle")
  BY <1>3 DEF FiniPipe, Goto, Moved
<1>4. ASSUME NEW p \in Pipe, NEW err \in BOOLEAN, Report(p, err), ~err => pc[p] = "run"
      PROVE  pc' = pc \/ Moved(p, "idle") \/ Moved("recover", "flush")
  <2>1. err => error'[p]
    BY <1>4 DEF Report, Inv, TypeOK
  <2>. QED  BY <1>4, <2>1, QueueMoves DEF Report, Moved
<1>5. CASE \E m \in Mmu : CoreDone(m)
  <2>1. PICK m \in Mmu : CoreDone(m)
    BY <1>5
  <2>2. pc[PipeOf(m)] = "run" /\ Report(PipeOf(m), FALSE) /\ UNCHANGED l2Vars
    BY <2>1 DEF CoreDone, Works, Inv, WorkInv
  <2>3. pc' = pc \/ Moved(PipeOf(m), "idle") \/ Moved("recover", "flush")
    BY <1>0, <1>4, <2>2
  <2>. QED  BY <1>0, <2>2, <2>3, MovedDoesNotCount
<1>6. CASE \E m \in Mmu : Handler(m)
  <2>1. PICK m \in Mmu : Handler(m)
    BY <1>6
  <2>2. UNCHANGED l2Vars /\ (pc' = pc \/ Report(PipeOf(m), TRUE))
    BY <2>1 DEF Handler, HandlerReads, HandlerReturns, HandlerMasks, HandlerReports
  <2>3. pc' = pc \/ Moved(PipeOf(m), "idle") \/ Moved("recover", "flush")
    BY <1>0, <1>4, <2>2
  <2>. QED  BY <1>0, <2>2, <2>3, MovedDoesNotCount
<1>7. CASE (\E m \in Mmu : CoreStops(m)) \/ OutOfHeap \/ Recover \/ RecoverLost
  <2>1. /\ UNCHANGED <<l2_flush_timeouts, abandoned, loaded>>
        /\ pc' = pc \/ \E to : Moved("recover", to)
    <3>1. CASE \E m \in Mmu : CoreStops(m)
      BY <3>1 DEF CoreStops
    <3>2. CASE OutOfHeap
      BY <3>2, QueueMoves DEF OutOfHeap
    <3>3. CASE Recover
      <4>1. PICK to \in {"flush", "idle"} : pc["recover"] = "flushed"
                                            /\ pc' = [pc EXCEPT !["recover"] = to]
        BY <3>3 DEF Recover, Goto
      <4>. QED  BY <3>3, <4>1 DEF Recover, Moved
    <3>4. CASE RecoverLost
      BY <3>4 DEF RecoverLost, Goto, Moved
    <3>. QED  BY <1>7, <3>1, <3>2, <3>3, <3>4
  <2>. QED  BY <1>0, <2>1, MovedDoesNotCount
<1>8. CASE \E p \in Pipe : RunJob(p) \/ Scheduler(p)
  <2>1. PICK p \in Pipe : RunJob(p) \/ Scheduler(p)
    BY <1>8
  <2>2. /\ UNCHANGED <<l2_flush_timeouts, abandoned, loaded>>
        /\ \E to : Moved(p, to)
    BY <2>1 DEF Scheduler, RunJob, SwitchVm, TimedOut, PageFaultResume, Goto, Moved
  <2>. QED  BY <1>0, <2>2, MovedDoesNotCount
<1>9. CASE FiniPipe("pp", "finiPp", "finiGp") \/ FiniPipe("gp", "finiGp", "power")
  <2>1. /\ UNCHANGED <<l2_flush_timeouts, abandoned, loaded>>
        /\ pc' = pc \/ Moved("pp", "idle") \/ Moved("gp", "idle")
    BY <1>0, <1>3, <1>9
  <2>. QED  BY <1>0, <2>1, MovedDoesNotCount
<1>. QED  BY <1>1, <1>2, <1>5, <1>6, <1>7, <1>8, <1>9 DEF Next, Hw, RemoveSteps

LEMMA OthersKeepCount ==
  ASSUME Inv, CountInv, [Next]_vars, ~\E t \in Thread : Flush(t)
  PROVE  CountInv'
<1>1. Counting' = Counting
  BY OthersDoNotCount DEF Counting
<1>. QED  BY <1>1, OthersDoNotCount DEF CountInv

\* A thread that reads the counter turns from one that will count into one
\* that has yet to store, which is why the sum does not grow.
LEMMA FlushKeepsCount ==
  ASSUME Inv, CountInv, NEW t \in Thread, Flush(t)
  PROVE  CountInv'
<1>. DEFINE C == Cardinality(Counting)
<1>0. /\ C \in Nat /\ IsFiniteSet(Counting)
      /\ pc \in [Thread -> {"idle", "flush", "flushing", "count", "store", "flushed",
                            "run", "resume"}]
      /\ loaded \in [Thread -> Nat] /\ l2_flush_timeouts \in Nat /\ abandoned \in Nat
  BY CountingFinite DEF Inv, TypeOK
<1>1. CASE FlushBegin(t) \/ FlushDone(t)
  <2>1. /\ Counting' = Counting /\ UNCHANGED <<l2_flush_timeouts, abandoned, loaded>>
        /\ \A s \in Thread : \A k \in {"count", "store"} : pc'[s] = k <=> pc[s] = k
    BY <1>0, <1>1 DEF FlushBegin, FlushDone, Goto, Counting
  <2>. QED  BY <2>1 DEF CountInv
<1>2. CASE FlushAbandoned(t)
  <2>1. /\ UNCHANGED <<l2_flush_timeouts, loaded>> /\ abandoned' = abandoned + 1
        /\ pc[t] = "flushing" /\ pc' = [pc EXCEPT ![t] = "count"]
    BY <1>2 DEF FlushAbandoned, Goto
  <2>2. t \notin Counting /\ Counting' = Counting \cup {t}
    BY <1>0, <2>1 DEF Counting
  <2>3. Cardinality(Counting') = C + 1
    BY <1>0, <2>2, FS_AddElement
  <2>4. pc'[t] = "count" /\ \A s \in Thread : pc'[s] = "store" => pc[s] = "store"
    BY <1>0, <2>1
  <2>. QED  BY <1>0, <2>1, <2>3, <2>4 DEF CountInv
<1>3. CASE CountLoad(t)
  <2>1. /\ UNCHANGED <<l2_flush_timeouts, abandoned>>
        /\ loaded' = [loaded EXCEPT ![t] = l2_flush_timeouts]
        /\ pc[t] = "count" /\ pc' = [pc EXCEPT ![t] = "store"]
    BY <1>3 DEF CountLoad, Goto
  <2>2. t \in Counting /\ Counting' = Counting \ {t}
    BY <1>0, <2>1 DEF Counting
  <2>3. Cardinality(Counting') = C - 1
    BY <1>0, <2>2, FS_RemoveElement
  <2>4. /\ pc'[t] = "store" /\ loaded'[t] = l2_flush_timeouts
        /\ \A s \in Thread \ {t} : pc'[s] = pc[s] /\ loaded'[s] = loaded[s]
    BY <1>0, <2>1
  <2>. QED  BY <1>0, <2>1, <2>3, <2>4 DEF CountInv
<1>4. CASE CountStore(t)
  <2>1. /\ UNCHANGED abandoned /\ l2_flush_timeouts' = loaded[t] + 1
        /\ loaded' = [loaded EXCEPT ![t] = 0]
        /\ pc[t] = "store" /\ pc' = [pc EXCEPT ![t] = "flushed"]
    BY <1>4 DEF CountStore, Goto, Incremented
  <2>2. Counting' = Counting
    BY <1>0, <2>1 DEF Counting
  <2>3. \A s \in Thread : pc'[s] = "store" => pc[s] = "store" /\ loaded'[s] = loaded[s]
    BY <1>0, <2>1
  <2>. QED  BY <1>0, <2>1, <2>2, <2>3 DEF CountInv
<1>. QED  BY <1>1, <1>2, <1>3, <1>4 DEF Flush

LEMMA CountInvariance == Spec => []CountInv
<1>1. Init => CountInv
  <2>. SUFFICES ASSUME Init PROVE CountInv
    OBVIOUS
  <2>1. Counting = {} /\ l2_flush_timeouts = 0 /\ abandoned = 0
        /\ \A t \in Thread : pc[t] = "idle"
    BY DEF Init, Counting
  <2>. QED  BY <2>1, FS_EmptySet DEF CountInv
<1>2. Inv /\ CountInv /\ [Next]_vars => CountInv'
  BY OthersKeepCount, FlushKeepsCount
<1>. QED  BY <1>1, <1>2, Invariance, PTL DEF Spec

\* lima_l2_cache_flush increments l2_flush_timeouts after it has dropped the
\* lock.  An update may be lost, but however many flushes time out in however
\* many threads at once, none is made up and the counter never stays at 0.
THEOREM AbandonedFlushIsCounted == Spec => []AbandonedIsSeen
<1>1. Inv /\ CountInv => AbandonedIsSeen
  BY CountingFinite DEF Inv, TypeOK, CountInv, AbandonedIsSeen
<1>. QED  BY <1>1, Invariance, CountInvariance, PTL

-----------------------------------------------------------------------------
(***************************************************************************)
(* The interrupt handlers, and what they find.                             *)
(***************************************************************************)

\* The handler of m has an interrupt, or that is pending and unmasked.
Waiting(m) == m \in Serving \/ (m \in present /\ Asserted(m))

\* What m reports is about the job that runs, whose processor has stopped.
Fresh(m) == m \in present /\ core[m] = "idle" /\ pc[PipeOf(m)] = "run"

\* lima_sched_pipe_fini has been over the pipe, which may have left an MMU masked.
Gone(q) == drv \in {"finiGp", "power"} /\ q \notin pipes

\* While the driver is probed nothing is pending behind an established line,
\* and the last entry of the devres list is the lima_device.
SetupInv ==
  /\ bus = "probe" /\ drv = "off" => devres = <<>>
  /\ devres = <<>> => fault = {}
  /\ drv # "off" => devres # <<>>
  /\ devres # <<>> => devres[Len(devres)] = Memory
  /\ drv \in {"off", "l2"} => present = {}
  /\ drv \in {"dte", "silence", "request", "reset", "enable"} =>
       \A m \in present : m < at
  /\ drv \in {"request", "reset", "enable"} => reg[at].raw = {}
  /\ drv \in {"reset", "enable"} => at \in tag
  /\ drv \in Probing =>
       stale = {} /\ present \subseteq tag /\ \A m \in tag : reg[m].raw = {}
  /\ \A m \in tag : reg[m].raw # {} => m \in present
  /\ drv \in {"up", "finiPp"} => pipes = Pipe
  /\ drv = "finiGp" => "gp" \in pipes

\* The handler of an MMU has an interrupt only for a job that has not ended,
\* unless the pipe is stale.  A masked MMU has been reported, or will be.
IrqOf(m) ==
  /\ status[m] # {} => m \in running
  /\ Waiting(m) => Fresh(m) \/ PipeOf(m) \in stale
  /\ PipeOf(m) \notin stale =>
       /\ m \in running /\ status[m] = {} => ~Asserted(m)
       /\ m \in Serving => reg[m].raw \subseteq status[m]
       /\ m \in present /\ ~reg[m].mask /\ m \notin deaf =>
            /\ reg[m].fault /\ reg[m].raw = {} /\ core[m] = "idle"
            /\ pc[PipeOf(m)] = "run" => m \in Serving \/ error[PipeOf(m)]
            /\ pc[PipeOf(m)] \in {"run", "resume"} \/ Gone(PipeOf(m))
IrqInv == \A m \in Mmu : IrqOf(m)

\* The pixel pipe still counts every MMU that may report.
Pending(m) == core[m] = "busy" \/ Waiting(m)
PpInv ==
  "pp" \notin stale =>
    /\ pc["pp"] = "run" /\ "pp" \notin fault =>
         /\ Pending(2) \/ Pending(3) => left["pp"] >= 1
         /\ Pending(2) /\ Pending(3) => left["pp"] >= 2
    /\ "pp" \in fault =>
         pc["pp"] \in {"run", "resume"} /\ ~Pending(2) /\ ~Pending(3)

\* The GP has one MMU: between its interrupt and recover_work or the timeout
\* it does not work, unless it is stale.
GpStopped == reg[1].fault \/ (core[1] # "busy" /\ pc["gp"] \in {"run", "resume"})
GpInv ==
  /\ again => "gp" \in stale /\ pc["recover"] # "idle"
  /\ "gp" \notin stale =>
       /\ "gp" \in fault => GpStopped /\ ~Waiting(1) /\ pc["gp"] # "idle"
       /\ pc["recover"] # "idle" =>
            /\ GpStopped /\ ~Waiting(1) /\ "gp" \notin fault
            /\ pc["gp"] \notin {"idle", "resume"}

LineInv == SetupInv /\ IrqInv /\ PpInv /\ GpInv

LEMMA Names ==
  /\ Mmu = {1, 2, 3} /\ Pipe = {"gp", "pp"} /\ "recover" \notin Pipe
  /\ PipeOf(1) = "gp" /\ PipeOf(2) = "pp" /\ PipeOf(3) = "pp"
  /\ Thread = {"gp", "pp", "probe", "recover"}
BY Sets DEF Pipe, PipeOf, Thread

\* An action that leaves the bring-up alone, and raises an interrupt at most
\* behind an MMU that is there.
LEMMA SetupKept ==
  ASSUME SetupInv, UNCHANGED <<bus, tag, devres, drv, at, present, pipes>>,
         drv \notin Probing \/ UNCHANGED <<reg, stale>>,
         tag \subseteq Mmu, devres # <<>> \/ UNCHANGED fault,
         \A m \in Mmu : m \in present \/ reg'[m].raw \subseteq reg[m].raw
  PROVE  SetupInv'
<1>1. drv \in {"request", "reset", "enable"} => reg'[at].raw = {}
  BY DEF SetupInv, Probing
<1>2. drv \in Probing => stale' = {} /\ \A m \in tag : reg'[m].raw = {}
  BY DEF SetupInv
<1>3. \A m \in tag : reg'[m].raw # {} => m \in present
  BY DEF SetupInv
<1>. QED  BY <1>1, <1>2, <1>3 DEF SetupInv

\* The established lines are those of MMUs, and handlers run on them.
LEMMA Lines ==
  ASSUME Inv
  PROVE  tag \subseteq Mmu /\ running \subseteq Mmu /\ running \subseteq tag
BY Sets DEF Inv, TypeOK, PlatformTypeOK

\* While a pipe is not idle the driver is up.
LEMMA Busy ==
  ASSUME Inv, LineInv, NEW p \in Pipe, pc[p] # "idle"
  PROVE  drv \notin Probing /\ drv # "off" /\ devres # <<>> /\ p \in pipes /\ ~Gone(p)
BY Names DEF Inv, DrvInv, Probing, LineInv, SetupInv, Gone

LEMMA WorkerRuns ==
  ASSUME Inv, NEW m \in Mmu, core[m] # "idle"
  PROVE  /\ m \in present /\ PipeOf(m) \in Pipe
         /\ pc[PipeOf(m)] = "run" /\ pc[PipeOf(m)] # "idle"
BY Names DEF Inv, WorkInv, PipeOf

\* An action that lets no pipe run or resume that did not, and leaves the MMUs
\* and processors alone.
LEMMA LineKept ==
  ASSUME IrqInv, PpInv, GpInv,
         UNCHANGED <<running, status, reg, present, deaf, stale, core, error, left, fault>>,
         \A q \in Pipe : /\ Gone(q) => Gone(q)'
                         /\ pc'[q] = "run" <=> pc[q] = "run"
                         /\ pc'[q] = "resume" <=> pc[q] = "resume"
                         /\ pc'[q] = "idle" => pc[q] = "idle",
         pc'["recover"] # "idle" => pc["recover"] # "idle",
         again' => again /\ (pc["recover"] # "idle" => pc'["recover"] # "idle")
  PROVE  IrqInv' /\ PpInv' /\ GpInv'
<1>1. IrqInv'
  <2>. SUFFICES ASSUME NEW m \in Mmu PROVE IrqOf(m)'
    BY DEF IrqInv
  <2>1. IrqOf(m) /\ PipeOf(m) \in Pipe
    BY DEF IrqInv, PipeOf, Pipe
  <2>2. (Waiting(m)' <=> Waiting(m)) /\ (m \in Serving' <=> m \in Serving)
    BY DEF Waiting, Serving, Asserted
  <2>. QED  BY <2>1, <2>2 DEF IrqOf, Asserted, Fresh
<1>2. PpInv'
  BY Names DEF PpInv, Pending, Waiting, Serving, Asserted
<1>3. GpInv'
  BY Names DEF GpInv, GpStopped, Waiting, Serving, Asserted
<1>. QED  BY <1>1, <1>2, <1>3

\* While no pipe is busy, what is left to say.
IdleInv ==
  /\ \A p \in Pipe : p \in fault => p \in stale
  /\ pc["recover"] # "idle" => "gp" \in stale
  /\ again => pc["recover"] # "idle"
  /\ \A m \in Mmu : /\ status[m] # {} => m \in running
                    /\ Waiting(m) => PipeOf(m) \in stale
                    /\ m \in present => \/ reg[m].mask
                                        \/ m \in deaf
                                        \/ PipeOf(m) \in stale
                                        \/ /\ reg[m].fault /\ reg[m].raw = {}
                                           /\ Gone(PipeOf(m))

LEMMA IdleFacts ==
  ASSUME IrqInv, PpInv, GpInv, pc["gp"] = "idle", pc["pp"] = "idle"
  PROVE  IdleInv
<1>1. \A m \in Mmu : IrqOf(m) /\ (PipeOf(m) = "gp" \/ PipeOf(m) = "pp")
  BY DEF IrqInv, PipeOf
<1>2. \A m \in Mmu : ~Fresh(m)
  BY <1>1 DEF Fresh
<1>3. \A m \in Mmu : /\ status[m] # {} => m \in running
                     /\ Waiting(m) => PipeOf(m) \in stale
                     /\ m \in present => \/ reg[m].mask
                                         \/ m \in deaf
                                         \/ PipeOf(m) \in stale
                                         \/ /\ reg[m].fault /\ reg[m].raw = {}
                                            /\ Gone(PipeOf(m))
  BY <1>1, <1>2 DEF IrqOf
<1>. QED  BY <1>3, Names DEF IdleInv, PpInv, GpInv

LEMMA IdleLine ==
  ASSUME IdleInv', pc'["gp"] = "idle", pc'["pp"] = "idle", \A m \in Mmu : core'[m] = "idle"
  PROVE  IrqInv' /\ PpInv' /\ GpInv'
<1>1. IrqInv'
  <2>. SUFFICES ASSUME NEW m \in Mmu PROVE IrqOf(m)'
    BY DEF IrqInv
  <2>0. PipeOf(m) = "gp" \/ PipeOf(m) = "pp"
    BY DEF PipeOf
  <2>1. PipeOf(m) \notin stale' =>
          ~Waiting(m)' /\ m \notin Serving' /\ (m \in running' => status'[m] # {})
    BY DEF IdleInv, Waiting, Serving, Zero
  <2>2. /\ status'[m] # {} => m \in running'
        /\ Waiting(m)' => PipeOf(m) \in stale'
        /\ m \in present' => \/ reg'[m].mask
                             \/ m \in deaf'
                             \/ PipeOf(m) \in stale'
                             \/ /\ reg'[m].fault /\ reg'[m].raw = {}
                                /\ Gone(PipeOf(m))'
    BY DEF IdleInv
  <2>. QED  BY <2>0, <2>1, <2>2 DEF IrqOf
<1>2. PpInv'
  BY Names DEF PpInv, IdleInv
<1>3. GpInv'
  BY Names DEF GpInv, IdleInv
<1>. QED  BY <1>1, <1>2, <1>3

\* What an action leaves alone.
LEMMA IrqStill ==
  ASSUME NEW m \in Mmu, IrqOf(m), UNCHANGED present,
         Gone(PipeOf(m)) => Gone(PipeOf(m))',
         m \in running' <=> m \in running,
         status'[m] = status[m], reg'[m] = reg[m], m \in deaf' <=> m \in deaf,
         PipeOf(m) \in stale' <=> PipeOf(m) \in stale,
         core'[m] = core[m], pc'[PipeOf(m)] = pc[PipeOf(m)],
         error[PipeOf(m)] => error'[PipeOf(m)]
  PROVE  IrqOf(m)'
<1>1. (Waiting(m)' <=> Waiting(m)) /\ (m \in Serving' <=> m \in Serving)
  BY DEF Waiting, Serving, Asserted
<1>. QED  BY <1>1 DEF IrqOf, Asserted, Fresh

LEMMA IrqSame ==
  ASSUME NEW m \in Mmu, IrqOf(m), UNCHANGED <<present, drv, pipes>>,
         m \in running' <=> m \in running,
         status'[m] = status[m], reg'[m] = reg[m], m \in deaf' <=> m \in deaf,
         PipeOf(m) \in stale' <=> PipeOf(m) \in stale,
         core'[m] = core[m], pc'[PipeOf(m)] = pc[PipeOf(m)],
         error[PipeOf(m)] => error'[PipeOf(m)]
  PROVE  IrqOf(m)'
<1>1. Gone(PipeOf(m)) => Gone(PipeOf(m))'
  BY DEF Gone
<1>. QED  BY <1>1, IrqStill

LEMMA PpSame ==
  ASSUME PpInv, "pp" \in stale' <=> "pp" \in stale, "pp" \in fault' <=> "pp" \in fault,
         pc'["pp"] = pc["pp"], left'["pp"] = left["pp"],
         core'[2] = core[2], core'[3] = core[3],
         Waiting(2)' <=> Waiting(2), Waiting(3)' <=> Waiting(3)
  PROVE  PpInv'
BY DEF PpInv, Pending

LEMMA GpSame ==
  ASSUME GpInv, Waiting(1)' <=> Waiting(1), reg'[1].fault = reg[1].fault,
         core'[1] = core[1], "gp" \in fault' <=> "gp" \in fault, again' = again,
         "gp" \in stale' <=> "gp" \in stale, pc'["gp"] = pc["gp"],
         pc'["recover"] = pc["recover"]
  PROVE  GpInv'
BY DEF GpInv, GpStopped

LEMMA InitLine == Init => LineInv
<1>. SUFFICES ASSUME Init PROVE LineInv
  OBVIOUS
<1>1. SetupInv
  BY DEF Init, PlatformInit, SetupInv, Probing
<1>2. IrqInv
  BY DEF Init, PlatformInit, IrqInv, IrqOf, Waiting, Serving
<1>3. PpInv /\ GpInv
  BY Names DEF Init, PlatformInit, PpInv, GpInv, Waiting, Serving
<1>. QED  BY <1>1, <1>2, <1>3 DEF LineInv

LEMMA BridgeLine ==
  ASSUME Inv, LineInv, BridgeSteps
  PROVE  LineInv'
<1>. USE DEF initVars, mmuVars
<1>1. UNCHANGED <<drv, at, present, pipes, reg, tlb, deaf, stale, status, pc, core, running>>
  BY DEF BridgeSteps, Bridge, Attach, DmaInit, TeardownLine, DmaFini, ReleaseDevres,
         PutDevice, ReleaseResources
<1>2. tag' \subseteq tag /\ tag \subseteq Mmu
  BY Lines DEF BridgeSteps, Bridge, Attach, DmaInit, TeardownLine, DmaFini,
         ReleaseDevres, PutDevice, ReleaseResources, Teardown
<1>3. SetupInv'
  <2>1. CASE ReleaseDevres
    <3>1. /\ devres \in Seq(0 .. NumLines) /\ devres # <<>> /\ devres' = Tail(devres)
          /\ bus = "put" /\ bus' = bus
      BY <2>1 DEF ReleaseDevres, Inv, TypeOK, PlatformTypeOK
    <3>2. devres' # <<>> => devres'[Len(devres')] = devres[Len(devres)]
      BY <3>1
    <3>3. drv = "off"
      BY <3>1 DEF Inv, DrvInv, TypeOK, Probing
    <3>4. devres' = <<>> => fault' = {}
      BY <3>1 DEF BridgeSteps, Cleared
    <3>5. \A m \in tag' : reg'[m].raw # {} => m \in present'
      BY <1>1, <1>2 DEF LineInv, SetupInv
    <3>. QED  BY <1>1, <3>1, <3>2, <3>3, <3>4, <3>5 DEF LineInv, SetupInv, Probing
  <2>2. CASE UNCHANGED devres
    <3>1. bus' = "probe" => devres = <<>> \/ bus = "probe"
      BY DEF BridgeSteps, Bridge, Attach, DmaInit, TeardownLine, DmaFini,
             ReleaseDevres, PutDevice, ReleaseResources, Inv, BusInv
    <3>2. devres' = <<>> => fault' = {}
      BY <2>2 DEF BridgeSteps, Cleared, LineInv, SetupInv, jobVars
    <3>3. drv \in Probing => bus = "probe" /\ UNCHANGED tag
      BY DEF BridgeSteps, Bridge, Attach, DmaInit, TeardownLine, DmaFini,
             ReleaseDevres, PutDevice, ReleaseResources, Inv, DrvInv
    <3>4. \A m \in tag' : reg'[m].raw # {} => m \in present'
      BY <1>1, <1>2 DEF LineInv, SetupInv
    <3>. QED  BY <1>1, <2>2, <3>1, <3>2, <3>3, <3>4 DEF LineInv, SetupInv, Probing
  <2>. QED  BY <2>1, <2>2 DEF BridgeSteps, Bridge, Attach, DmaInit, TeardownLine,
                              DmaFini, PutDevice, ReleaseResources
<1>4. IrqInv' /\ PpInv' /\ GpInv'
  <2>1. CASE UNCHANGED jobVars
    BY <1>1, <2>1, LineKept DEF LineInv, jobVars, Gone
  <2>2. CASE ~UNCHANGED jobVars
    <3>1. bus = "put" /\ fault' = {} /\ ~again'
      BY <2>2 DEF BridgeSteps, Cleared
    <3>2. drv = "off"
      BY <3>1 DEF Inv, DrvInv, TypeOK, Probing
    <3>3. pc["gp"] = "idle" /\ pc["pp"] = "idle" /\ \A m \in Mmu : core[m] = "idle"
      BY <3>2, NoWork
    <3>4. IdleInv'
      BY <1>1, <3>1, <3>3, IdleFacts DEF LineInv, IdleInv, Waiting, Serving, Asserted, Gone
    <3>. QED  BY <1>1, <3>3, <3>4, IdleLine
  <2>. QED  BY <2>1, <2>2
<1>. QED  BY <1>3, <1>4 DEF LineInv

\* While the driver is probed no handler has an interrupt.
LEMMA ProbeQuiet ==
  ASSUME Inv, LineInv, drv \in Probing \/ (drv = "off" /\ bus = "probe")
  PROVE  /\ pc["gp"] = "idle" /\ pc["pp"] = "idle" /\ \A m \in Mmu : core[m] = "idle"
         /\ IdleInv /\ \A m \in Mmu : ~Waiting(m)
<1>1. pc["gp"] = "idle" /\ pc["pp"] = "idle" /\ \A m \in Mmu : core[m] = "idle"
  BY NoWork DEF Probing
<1>2. IdleInv
  BY <1>1, IdleFacts DEF LineInv
<1>3. \A m \in Mmu : ~Waiting(m)
  <2>1. CASE drv \in Probing
    BY <1>2, <2>1 DEF IdleInv, LineInv, SetupInv
  <2>2. CASE drv = "off" /\ bus = "probe"
    <3>1. devres = <<>> /\ present = {}
      BY <2>2 DEF LineInv, SetupInv
    <3>2. running = {}
      BY <3>1, Lines DEF Inv, BusInv
    <3>. QED  BY <3>1, <3>2 DEF Waiting, Serving
  <2>. QED  BY <2>1, <2>2
<1>. QED  BY <1>1, <1>2, <1>3

LEMMA SetupNext ==
  ASSUME drv' \in Probing, devres' # <<>>, devres'[Len(devres')] = Memory, stale' = {},
         present' \subseteq tag', \A m \in tag' : reg'[m].raw = {},
         drv' = "l2" => present' = {},
         drv' \in {"dte", "silence", "request", "reset", "enable"} =>
           \A m \in present' : m < at',
         drv' \in {"request", "reset", "enable"} => reg'[at'].raw = {},
         drv' \in {"reset", "enable"} => at' \in tag'
  PROVE  SetupInv'
BY DEF SetupInv, Probing

LEMMA ProbeLine ==
  ASSUME Inv, LineInv, ProbeSteps
  PROVE  LineInv'
<1>. USE DEF initVars, mmuVars, jobVars, l2Vars
<1>1. drv \in Probing \/ (drv = "off" /\ bus = "probe")
  BY DEF ProbeSteps, Probe, L2Init, DteTest, Silence, RequestIrq, HwReset, HwEnable,
         PipesInit, Unwind, Probing
<1>2. /\ pc["gp"] = "idle" /\ pc["pp"] = "idle" /\ \A m \in Mmu : core[m] = "idle"
      /\ IdleInv /\ \A m \in Mmu : ~Waiting(m)
  BY <1>1, ProbeQuiet
<1>3. /\ UNCHANGED <<running, status, core, fault, again>> /\ ~again
      /\ pc'["gp"] = "idle" /\ pc'["pp"] = "idle" /\ pc'["recover"] = "idle"
  <2>0. pc["recover"] = "idle"
    <3>1. CASE drv \in Probing
      BY <1>2, <3>1 DEF IdleInv, LineInv, SetupInv
    <3>2. CASE drv = "off"
      BY <3>2 DEF ProbeSteps, Probe, L2Init, DteTest, Silence, RequestIrq, HwReset, HwEnable,
         PipesInit, Unwind
    <3>. QED  BY <1>1, <3>1, <3>2
  <2>1. /\ pc["gp"] = "idle" /\ pc["pp"] = "idle" /\ pc["recover"] = "idle" /\ ~again
        /\ pc \in [Thread -> {"idle", "flush", "flushing", "count", "store", "flushed",
                              "run", "resume"}]
        /\ {"gp", "pp", "recover"} \subseteq Thread
    BY <1>2, <2>0, Names DEF IdleInv, Inv, TypeOK
  <2>2. UNCHANGED <<running, status, core, fault, again>>
    BY DEF ProbeSteps, Probe, L2Init, DteTest, Silence, RequestIrq, HwReset, HwEnable,
           PipesInit, Unwind, platformVars
  <2>3. UNCHANGED pc \/ \E step : pc' = [pc EXCEPT !["probe"] = step]
    BY DEF ProbeSteps, Probe, L2Init, DteTest, Silence, RequestIrq, HwReset, HwEnable,
           PipesInit, Unwind, Goto
  <2>. QED  BY <2>1, <2>2, <2>3
<1>4. at \in Mmu /\ reg \in [Mmu -> Regs] /\ tag \subseteq Mmu /\ present \subseteq Mmu
      /\ devres \in Seq(0 .. NumLines)
  BY Lines DEF Inv, TypeOK, Regs, PlatformTypeOK
\* Nothing waits as long as no MMU that is there has an interrupt.
<1>5. ASSUME \A m \in present' : m \in Mmu /\ reg'[m].raw = {} /\ (reg'[m].mask \/ m \in deaf'),
             SetupInv'
      PROVE  LineInv'
  <2>1. \A m \in Mmu : ~Waiting(m)'
    BY <1>2, <1>3, <1>5 DEF Waiting, Serving, Asserted
  <2>2. fault = {}
    <3>1. CASE drv \in Probing
      <4>1. stale = {} /\ fault \subseteq {"gp", "pp"}
        BY <3>1, Names DEF LineInv, SetupInv, Inv, TypeOK
      <4>. QED  BY <1>2, <4>1, Names DEF IdleInv
    <3>2. CASE drv = "off" /\ bus = "probe"
      BY <3>2 DEF LineInv, SetupInv
    <3>. QED  BY <1>1, <3>1, <3>2
  <2>3. IdleInv'
    BY <1>2, <1>3, <1>5, <2>1, <2>2, Names DEF IdleInv
  <2>. QED  BY <1>2, <1>3, <1>5, <2>3, IdleLine DEF LineInv
<1>6. ASSUME drv \in Probing
      PROVE  /\ SetupInv /\ devres # <<>> /\ devres[Len(devres)] = Memory /\ stale = {}
             /\ \A m \in present : /\ reg[m].mask \/ m \in deaf
                                  /\ reg[m].raw = {} /\ m \in tag
             /\ \A m \in tag : reg[m].raw = {}
  BY <1>2, <1>4, <1>6 DEF IdleInv, LineInv, SetupInv, Probing, Gone
<1>7. ASSUME NEW ok \in BOOLEAN, NextIp(ok)
      PROVE  /\ drv' \in {"unwind", "pipes", "dte"} /\ (drv' = "dte" => at' = at + 1)
  BY <1>7 DEF NextIp
<1>8. CASE Probe
  <2>1. devres = <<>> /\ tag = {} /\ present = {} /\ fault = {}
    BY <1>1, <1>8 DEF Probe, LineInv, SetupInv, Inv, BusInv
  <2>2. devres' = <<Memory>> /\ UNCHANGED <<tag, present>> /\ stale' = {} /\ drv' = "l2"
    BY <1>8, <2>1 DEF Probe, Keep
  <2>3. SetupInv'
    BY <2>1, <2>2, SetupNext DEF Probing
  <2>. QED  BY <1>5, <2>1, <2>2, <2>3
<1>9. CASE L2Init
  <2>1. /\ drv = "l2" /\ drv' = "dte" /\ present = {}
        /\ UNCHANGED <<devres, tag, present, reg, stale>>
    BY <1>9 DEF L2Init, LineInv, SetupInv, platformVars
  <2>2. SetupInv'
    BY <1>6, <2>1, SetupNext DEF Probing
  <2>. QED  BY <1>5, <2>1, <2>2
<1>10. CASE DteTest
  <2>1. /\ drv = "dte" /\ UNCHANGED <<devres, tag, present, reg, stale, deaf>>
        /\ \A m \in present : m < at
    BY <1>10 DEF DteTest, LineInv, SetupInv, platformVars
  <2>2. \/ drv' = "silence" /\ at' = at
        \/ drv' \in {"unwind", "pipes", "dte"} /\ (drv' = "dte" => at' = at + 1)
    BY <1>7, <1>10 DEF DteTest
  <2>3. \A m \in present : drv' \in {"dte", "silence"} => m < at'
    BY <1>4, <2>1, <2>2, Sets
  <2>4. SetupInv'
    BY <1>6, <2>1, <2>2, <2>3, SetupNext DEF Probing
  <2>. QED  BY <1>4, <1>5, <1>6, <2>1, <2>4 DEF Probing
<1>11. CASE Silence
  <2>1. /\ drv = "silence" /\ drv' = "request" /\ \A m \in present : m < at
        /\ UNCHANGED <<devres, tag, present, stale, deaf, at>>
    BY <1>11 DEF Silence, LineInv, SetupInv, platformVars
  <2>2. reg'[at].raw = {} /\ \A m \in Mmu : m # at => reg'[m] = reg[m]
    BY <1>4, <1>11 DEF Silence, Silent, Regs
  <2>3. \A m \in present : m # at
    BY <1>4, <2>1, Sets
  <2>4. \A m \in tag : reg'[m].raw = {}
    BY <1>4, <1>6, <2>1, <2>2 DEF Probing
  <2>5. SetupInv'
    BY <1>6, <2>1, <2>2, <2>4, SetupNext DEF Probing
  <2>. QED  BY <1>4, <1>5, <1>6, <2>1, <2>2, <2>3, <2>5 DEF Probing
<1>12. CASE RequestIrq
  <2>1. /\ drv = "request" /\ \A m \in present : m < at
        /\ reg[at].raw = {} /\ UNCHANGED <<reg, present, stale, deaf>>
    BY <1>12 DEF RequestIrq, LineInv, SetupInv
  <2>2. \/ /\ drv' = "reset" /\ at' = at /\ tag' = tag \cup {at}
           /\ devres' = <<at>> \o devres
        \/ /\ drv' \in {"unwind", "pipes", "dte"} /\ (drv' = "dte" => at' = at + 1)
           /\ UNCHANGED <<tag, devres>>
    BY <1>7, <1>12 DEF RequestIrq, Request, Keep
  <2>3. devres' # <<>> /\ devres'[Len(devres')] = Memory
    <3>1. devres # <<>> /\ devres[Len(devres)] = Memory /\ at \in 0 .. NumLines
      BY <1>4, <1>6, <2>1, Sets DEF Probing
    <3>2. CASE devres' = <<at>> \o devres
      <4>1. <<at>> \in Seq(0 .. NumLines) /\ Len(devres) \in Nat /\ Len(devres) >= 1
        BY <1>4, <3>1
      <4>2. Len(devres') = Len(devres) + 1
        BY <1>4, <3>2, <4>1
      <4>3. devres'[Len(devres')] = devres[Len(devres)]
        BY <1>4, <3>2, <4>1, <4>2
      <4>. QED  BY <3>1, <4>1, <4>2, <4>3
    <3>. QED  BY <2>2, <3>1, <3>2
  <2>4. \A m \in present : drv' \in {"dte", "reset"} => m < at'
    BY <1>4, <2>1, <2>2, Sets
  <2>5. \A m \in tag' : reg'[m].raw = {}
    BY <1>6, <2>1, <2>2 DEF Probing
  <2>6. present' \subseteq tag'
    BY <1>6, <2>1, <2>2 DEF Probing
  <2>7. SetupInv'
    BY <1>6, <2>1, <2>2, <2>3, <2>4, <2>5, <2>6, SetupNext DEF Probing
  <2>. QED  BY <1>4, <1>5, <1>6, <2>1, <2>7 DEF Probing
<1>13. CASE HwReset
  <2>1. /\ drv = "reset" /\ \A m \in present : m < at
        /\ at \in tag /\ UNCHANGED <<devres, tag, present, stale, deaf>>
    BY <1>13 DEF HwReset, LineInv, SetupInv, platformVars
  <2>2. /\ reg'[at].raw = {} /\ \A m \in Mmu : m # at => reg'[m] = reg[m]
    <3>1. at \in Mmu /\ reg[at].raw = {} /\ reg \in [Mmu -> Regs]
      BY <1>4, <1>6, <2>1 DEF Probing
    <3>2. reg' = [reg EXCEPT ![at] = Off] \/ reg' = reg
      BY <1>13 DEF HwReset
    <3>. QED  BY <3>1, <3>2 DEF Off
  <2>3. \/ drv' = "enable" /\ at' = at
        \/ drv' \in {"unwind", "pipes", "dte"} /\ (drv' = "dte" => at' = at + 1)
    BY <1>7, <1>13 DEF HwReset
  <2>4. \A m \in present : m # at /\ (drv' \in {"dte", "enable"} => m < at')
    BY <1>4, <2>1, <2>3, Sets
  <2>5. \A m \in tag : reg'[m].raw = {}
    BY <1>4, <1>6, <2>1, <2>2 DEF Probing
  <2>6. SetupInv'
    BY <1>6, <2>1, <2>2, <2>3, <2>4, <2>5, SetupNext DEF Probing
  <2>. QED  BY <1>4, <1>5, <1>6, <2>1, <2>2, <2>4, <2>6 DEF Probing
<1>14. CASE HwEnable
  <2>1. /\ drv = "enable" /\ \A m \in present : m < at
        /\ at \in tag /\ UNCHANGED <<devres, tag, stale, deaf>>
    BY <1>14 DEF HwEnable, LineInv, SetupInv, platformVars
  <2>2. /\ reg'[at].raw = reg[at].raw /\ reg'[at].mask
        /\ \A m \in Mmu : m # at => reg'[m] = reg[m]
        /\ present' \subseteq present \cup {at}
    BY <1>4, <1>14 DEF HwEnable, Regs
  <2>3. drv' \in {"unwind", "pipes", "dte"} /\ (drv' = "dte" => at' = at + 1)
    <3>1. PICK ok \in BOOLEAN : NextIp(ok)
      BY <1>14 DEF HwEnable
    <3>. QED  BY <1>7, <3>1
  <2>4. \A m \in present' : drv' = "dte" => m < at'
    BY <1>4, <2>1, <2>2, <2>3, Sets
  <2>5. \A m \in tag : reg'[m].raw = {}
    BY <1>4, <1>6, <2>1, <2>2 DEF Probing
  <2>6. present' \subseteq tag'
    BY <1>6, <2>1, <2>2 DEF Probing
  <2>7. SetupInv'
    BY <1>6, <2>1, <2>2, <2>3, <2>4, <2>5, <2>6, SetupNext DEF Probing
  <2>8. \A m \in present' : m \in Mmu /\ reg'[m].raw = {} /\ (reg'[m].mask \/ m \in deaf')
    BY <1>4, <1>6, <2>1, <2>2, <2>5, <2>6 DEF Probing
  <2>. QED  BY <1>5, <2>7, <2>8
<1>15. CASE PipesInit
  <2>1. /\ drv = "pipes" /\ UNCHANGED <<devres, tag, present, reg, stale, deaf>>
        /\ \/ drv' = "up" /\ bus' = "attached" /\ pipes' = Pipe
           \/ drv' = "unwind"
    BY <1>15 DEF PipesInit, ProbeReturns
  <2>2. SetupInv'
    <3>1. CASE drv' = "unwind"
      BY <1>6, <2>1, <3>1, SetupNext DEF Probing
    <3>2. CASE drv' # "unwind"
      BY <1>6, <2>1, <3>2 DEF SetupInv, Probing
    <3>. QED  BY <3>1, <3>2
  <2>. QED  BY <1>4, <1>5, <1>6, <2>1, <2>2 DEF Probing
<1>16. CASE Unwind
  <2>1. /\ drv = "unwind" /\ drv' = "off" /\ bus' = "dmaFini" /\ present' = {}
        /\ reg' = [m \in Mmu |-> Off] /\ UNCHANGED <<devres, tag>>
    BY <1>16 DEF Unwind, ProbeFails, PowerOff
  <2>2. \A m \in tag : reg'[m].raw = {}
    BY <1>4, <2>1 DEF Off
  <2>3. SetupInv'
    BY <1>6, <2>1, <2>2 DEF SetupInv, Probing
  <2>. QED  BY <1>5, <2>1, <2>3
<1>. QED  BY <1>8, <1>9, <1>10, <1>11, <1>12, <1>13, <1>14, <1>15, <1>16 DEF ProbeSteps

\* The pipe that goes has no interrupt behind, unless it is stale, and the GP's
\* has no recover_work behind then.
LEMMA FiniPipeLine ==
  ASSUME Inv, LineInv, NEW p \in Pipe, NEW here, NEW next, FiniPipe(p, here, next),
         \/ p = "pp" /\ here = "finiPp" /\ next = "finiGp"
         \/ p = "gp" /\ here = "finiGp" /\ next = "power"
  PROVE  LineInv'
<1>. USE DEF initVars, mmuVars, jobVars, l2Vars
<1>1. /\ drv = here /\ drv' = next /\ pipes' = pipes \ {p} /\ fault' = fault \ {p}
      /\ pc \in [Thread -> {"idle", "flush", "flushing", "count", "store", "flushed",
                            "run", "resume"}]
      /\ UNCHANGED <<platformVars, at, present, reg, deaf, status, left, again>>
      /\ stale' = stale \/ (stale' = stale \cup {"gp"} /\ p = "gp")
      /\ p = "gp" /\ "gp" \notin stale' => pc["recover"] = "idle"
  BY DEF FiniPipe, Overtakes, Inv, TypeOK
<1>2. /\ pc'[p] = "idle" /\ pc'["recover"] = pc["recover"]
      /\ \A q \in Pipe : q # p => /\ pc'[q] = pc[q]
                                  /\ error[q] => error'[q]
      /\ \A m \in Mmu : PipeOf(m) # p => core'[m] = core[m]
      /\ \A m \in Mmu : PipeOf(m) = p => core'[m] = "idle"
      /\ pc[p] = "idle" \/ Quiet(p)
  <2>1. CASE pc[p] = "idle" /\ UNCHANGED <<pc, core, error>>
    BY <2>1, WorkerRuns
  <2>2. CASE Goto(p, "run", "idle") /\ Quiet(p) /\ Stopped(p) /\ error' = [error EXCEPT ![p] = TRUE]
    <3>1. error \in [Pipe -> BOOLEAN]
      BY DEF Inv, TypeOK
    <3>2. /\ \A m \in Mmu : PipeOf(m) # p => core'[m] = core[m]
          /\ \A m \in Mmu : PipeOf(m) = p => core'[m] = "idle"
      BY <2>2, WorkerRuns DEF Stopped, MmusOf
    <3>. QED  BY <1>1, <2>2, <3>1, <3>2, Names DEF Goto
  <2>. QED  BY <2>1, <2>2 DEF FiniPipe
<1>3. /\ \A m \in Mmu : /\ Waiting(m)' <=> Waiting(m)
                        /\ m \in Serving' <=> m \in Serving
                        /\ Asserted(m)' <=> Asserted(m)
                        /\ IrqOf(m)
      /\ Gone(p)' /\ \A q \in Pipe : Gone(q) => Gone(q)'
  BY <1>1, Names DEF Waiting, Serving, Asserted, platformVars, LineInv, IrqInv, Gone
<1>4. ASSUME NEW m \in Mmu, PipeOf(m) = p, p \notin stale PROVE ~Waiting(m)
  <2>1. Waiting(m) => m \in MmusOf(p) /\ pc[p] = "run"
    BY <1>3, <1>4 DEF IrqOf, Fresh, MmusOf
  <2>. QED  BY <1>2, <2>1 DEF Quiet, Waiting
<1>5. SetupInv'
  BY <1>1, Names DEF LineInv, SetupInv, Probing, platformVars
<1>6. IrqInv'
  <2>. SUFFICES ASSUME NEW m \in Mmu PROVE IrqOf(m)'
    BY DEF IrqInv
  <2>1. CASE PipeOf(m) = p
    BY <1>1, <1>2, <1>3, <1>4, <2>1 DEF IrqOf, Waiting, platformVars
  <2>2. CASE PipeOf(m) # p
    <3>1. PipeOf(m) \in Pipe /\ (PipeOf(m) \in stale' <=> PipeOf(m) \in stale)
      BY <1>1, <2>2, Names
    <3>2. IrqOf(m) /\ core'[m] = core[m] /\ (Gone(PipeOf(m)) => Gone(PipeOf(m))')
          /\ pc'[PipeOf(m)] = pc[PipeOf(m)] /\ (error[PipeOf(m)] => error'[PipeOf(m)])
      BY <1>2, <1>3, <2>2, <3>1
    <3>. QED  BY <1>1, <3>1, <3>2, IrqStill DEF platformVars
  <2>. QED  BY <2>1, <2>2
<1>7. PpInv'
  <2>1. CASE p = "pp"
    BY <1>1, <1>2, <2>1 DEF PpInv
  <2>2. CASE p = "gp"
    <3>1. /\ (Waiting(2)' <=> Waiting(2)) /\ (Waiting(3)' <=> Waiting(3))
          /\ core'[2] = core[2] /\ core'[3] = core[3] /\ pc'["pp"] = pc["pp"]
          /\ ("pp" \in stale' <=> "pp" \in stale) /\ ("pp" \in fault' <=> "pp" \in fault)
      BY <1>1, <1>2, <1>3, <2>2, Names
    <3>. QED  BY <1>1, <3>1, PpSame DEF LineInv
  <2>. QED  BY <2>1, <2>2, Names
<1>8. GpInv'
  <2>1. CASE p = "pp"
    <3>1. /\ core'[1] = core[1] /\ pc'["gp"] = pc["gp"] /\ (Waiting(1)' <=> Waiting(1))
          /\ ("gp" \in stale' <=> "gp" \in stale) /\ ("gp" \in fault' <=> "gp" \in fault)
      BY <1>1, <1>2, <1>3, <2>1, Names
    <3>. QED  BY <1>1, <1>2, <3>1, GpSame DEF LineInv
  <2>2. CASE p = "gp"
    BY <1>1, <1>2, <2>2 DEF LineInv, GpInv
  <2>. QED  BY <2>1, <2>2, Names
<1>. QED  BY <1>5, <1>6, <1>7, <1>8 DEF LineInv

LEMMA RemoveLine ==
  ASSUME Inv, LineInv, RemoveSteps
  PROVE  LineInv'
<1>. USE DEF initVars, mmuVars, jobVars, l2Vars
<1>1. CASE Remove
  <2>1. IrqInv' /\ PpInv' /\ GpInv'
    BY <1>1, LineKept DEF Remove, Detach, LineInv, Gone
  <2>2. SetupInv'
    BY <1>1 DEF Remove, Detach, LineInv, SetupInv, Probing
  <2>. QED  BY <2>1, <2>2 DEF LineInv
<1>2. CASE FiniPipe("pp", "finiPp", "finiGp") \/ FiniPipe("gp", "finiGp", "power")
  BY <1>2, FiniPipeLine, Names
<1>3. CASE FiniIps
  <2>1. pc["gp"] = "idle" /\ pc["pp"] = "idle" /\ \A m \in Mmu : core[m] = "idle"
    BY <1>3, NoWork DEF FiniIps
  <2>2. IdleInv
    BY <2>1, IdleFacts DEF LineInv
  <2>3. /\ drv = "power" /\ drv' = "off" /\ bus' = "teardown" /\ present' = {}
        /\ reg' = [m \in Mmu |-> Off]
        /\ UNCHANGED <<running, status, pc, core, stale, fault, again, tag, devres>>
    BY <1>3 DEF FiniIps, PowerOff, RemoveReturns
  <2>4. \A m \in Mmu : reg'[m].raw = {} /\ ~Asserted(m)'
    BY <2>3 DEF Off, Asserted
  <2>5. \A m \in Mmu : Waiting(m)' => Waiting(m)
    BY <2>3 DEF Waiting, Serving
  <2>6. IdleInv'
    BY <2>2, <2>3, <2>5, Names DEF IdleInv
  <2>7. SetupInv'
    BY <2>3, <2>4, Lines DEF LineInv, SetupInv, Probing
  <2>. QED  BY <2>1, <2>3, <2>6, <2>7, IdleLine DEF LineInv
<1>. QED  BY <1>1, <1>2, <1>3 DEF RemoveSteps

LEMMA RunLine ==
  ASSUME Inv, LineInv, NEW p \in Pipe, RunJob(p)
  PROVE  LineInv'
<1>. USE DEF initVars, mmuVars, jobVars, l2Vars
<1>1. /\ pc[p] = "idle" /\ pc' = [pc EXCEPT ![p] = "flush"]
      /\ pc \in [Thread -> {"idle", "flush", "flushing", "count", "store", "flushed",
                            "run", "resume"}]
  BY DEF RunJob, Goto, Inv, TypeOK
<1>2. IrqInv' /\ PpInv' /\ GpInv'
  BY <1>1, Names, LineKept DEF RunJob, LineInv, platformVars, Gone
<1>3. SetupInv'
  BY SetupKept, Lines DEF RunJob, LineInv, platformVars
<1>. QED  BY <1>2, <1>3 DEF LineInv

LEMMA FlushLine ==
  ASSUME Inv, LineInv, NEW t \in Thread, Flush(t)
  PROVE  LineInv'
<1>. USE DEF initVars, mmuVars, jobVars, l2Vars
<1>1. UNCHANGED <<platformVars, initVars, mmuVars, status, jobVars>>
      /\ \E to \in {"flushing", "count", "store", "flushed"} :
            pc' = [pc EXCEPT ![t] = to]
      /\ pc[t] \in {"flush", "flushing", "count", "store"}
  BY DEF Flush, FlushBegin, FlushDone, FlushAbandoned, CountLoad, CountStore, Goto
<1>2. pc \in [Thread -> {"idle", "flush", "flushing", "count", "store", "flushed",
                         "run", "resume"}]
  BY DEF Inv, TypeOK
<1>3. IrqInv' /\ PpInv' /\ GpInv'
  BY <1>1, <1>2, Names, LineKept DEF LineInv, platformVars, Gone
<1>4. SetupInv'
  BY <1>1, SetupKept, Lines DEF LineInv, platformVars
<1>. QED  BY <1>3, <1>4 DEF LineInv

\* Before a run nothing waits behind an MMU of the pipe, and the processors it
\* starts are counted.
LEMMA SwitchLine ==
  ASSUME Inv, LineInv, NEW p \in Pipe, SwitchVm(p)
  PROVE  LineInv'
<1>. USE DEF initVars, mmuVars, jobVars, l2Vars
<1>1. /\ pc[p] = "flushed" /\ pc' = [pc EXCEPT ![p] = "run"]
      /\ pc \in [Thread -> {"idle", "flush", "flushing", "count", "store", "flushed",
                            "run", "resume"}]
      /\ error' = [error EXCEPT ![p] = FALSE] /\ error \in [Pipe -> BOOLEAN]
      /\ left' = [left EXCEPT ![p] = Cardinality(MmusOf(p))] /\ left \in [Pipe -> Int]
      /\ UNCHANGED <<platformVars, initVars, deaf, stale, status, fault, again>>
      /\ core' = [m \in Mmu |-> IF m \in MmusOf(p) THEN "busy" ELSE core[m]]
  BY DEF SwitchVm, Goto, Inv, TypeOK
<1>2. \A m \in Mmu : /\ reg'[m].raw = reg[m].raw /\ reg'[m].mask = reg[m].mask
                     /\ reg'[m].fault = reg[m].fault
                     /\ Waiting(m)' <=> Waiting(m)
                     /\ m \in Serving' <=> m \in Serving
                     /\ Asserted(m)' <=> Asserted(m)
  <2>1. \A m \in Mmu : /\ reg'[m].raw = reg[m].raw /\ reg'[m].mask = reg[m].mask
                       /\ reg'[m].fault = reg[m].fault
    <3>1. ASSUME NEW m \in Mmu
          PROVE  \/ reg'[m] = reg[m]
                 \/ \E v, b : reg'[m] = [reg[m] EXCEPT !.dte = v, !.stall = b]
      BY DEF SwitchVm
    <3>2. ASSUME NEW r \in Regs, NEW v, NEW b
          PROVE  /\ [r EXCEPT !.dte = v, !.stall = b].raw = r.raw
                 /\ [r EXCEPT !.dte = v, !.stall = b].mask = r.mask
                 /\ [r EXCEPT !.dte = v, !.stall = b].fault = r.fault
      BY DEF Regs
    <3>3. \A m \in Mmu : reg[m] \in Regs
      BY DEF Inv, TypeOK, Regs
    <3>. SUFFICES ASSUME NEW m \in Mmu
                  PROVE  /\ reg'[m].raw = reg[m].raw /\ reg'[m].mask = reg[m].mask
                         /\ reg'[m].fault = reg[m].fault
      OBVIOUS
    <3>4. CASE reg'[m] = reg[m]
      BY <3>4
    <3>5. CASE \E v, b : reg'[m] = [reg[m] EXCEPT !.dte = v, !.stall = b]
      <4>1. PICK v, b : reg'[m] = [reg[m] EXCEPT !.dte = v, !.stall = b]
        BY <3>5
      <4>. QED  BY <3>2, <3>3, <4>1
    <3>. QED  BY <3>1, <3>4, <3>5
  <2>. QED  BY <1>1, <2>1 DEF Waiting, Serving, Asserted, platformVars
<1>3. \A m \in Mmu : PipeOf(m) = p => IrqOf(m) /\ ~Fresh(m)
  BY <1>1, Names DEF Fresh, LineInv, IrqInv
<1>4. /\ \A q \in Pipe : q # p => pc'[q] = pc[q]
      /\ pc'[p] = "run" /\ pc'["recover"] = pc["recover"]
      /\ \A m \in Mmu : PipeOf(m) # p => core'[m] = core[m]
      /\ \A m \in present : PipeOf(m) = p => core'[m] = "busy"
      /\ \A m \in Mmu : PipeOf(m) \in Pipe
  BY <1>1, Names DEF MmusOf, Inv, TypeOK, PipeOf
<1>5. IrqInv'
  <2>. SUFFICES ASSUME NEW m \in Mmu PROVE IrqOf(m)'
    BY DEF IrqInv
  <2>1. CASE PipeOf(m) = p
    <3>1. /\ status[m] # {} => m \in running
          /\ Waiting(m) => p \in stale
          /\ p \notin stale /\ m \in present => reg[m].mask \/ m \in deaf
      BY <1>1, <1>3, <2>1, Busy DEF IrqOf
    <3>. QED  BY <1>1, <1>2, <2>1, <3>1 DEF IrqOf, Waiting, Serving, Zero, platformVars
  <2>2. CASE PipeOf(m) # p
    <3>1. Fresh(m)' <=> Fresh(m)
      BY <1>1, <1>4, <2>2 DEF Fresh
    <3>2. Gone(PipeOf(m))' <=> Gone(PipeOf(m))
      BY <1>1 DEF Gone
    <3>. QED  BY <1>1, <1>2, <1>4, <2>2, <3>1, <3>2 DEF IrqOf, LineInv, IrqInv, platformVars
  <2>. QED  BY <2>1, <2>2
<1>6. PpInv'
  <2>1. CASE p = "pp"
    <3>1. "pp" \notin stale => "pp" \notin fault /\ ~Waiting(2) /\ ~Waiting(3)
      BY <1>1, <1>3, <2>1, Names DEF LineInv, PpInv, IrqOf
    <3>2. \A m \in {2, 3} : core'[m] = "busy" => m \in MmusOf("pp")
      BY <1>1, <2>1, Names DEF Inv, WorkInv
    <3>3. left'["pp"] = Cardinality(MmusOf("pp"))
      BY <1>1, <2>1
    <3>. QED  BY <1>1, <1>2, <3>1, <3>2, <3>3, HowMany, Names DEF PpInv, Pending
  <2>2. CASE p = "gp"
    BY <1>1, <1>2, <1>4, <2>2, Names DEF LineInv, PpInv, Pending
  <2>. QED  BY <2>1, <2>2, Names
<1>7. GpInv'
  <2>1. CASE p = "pp"
    <3>1. UNCHANGED <<pc["gp"], pc["recover"], core[1]>>
      BY <1>1, <1>4, <2>1, Names
    <3>. QED  BY <1>1, <1>2, <1>4, <2>1, <3>1, GpSame, Names DEF LineInv
  <2>2. CASE p = "gp"
    <3>1. pc'["gp"] = "run" /\ pc["gp"] = "flushed" /\ pc'["recover"] = pc["recover"]
      BY <1>4, <1>1, <2>2
    <3>2. GpStopped => GpStopped'
      BY <1>2, <3>1, Names DEF GpStopped
    <3>. QED  BY <1>1, <1>2, <3>1, <3>2, Names DEF LineInv, GpInv
  <2>. QED  BY <2>1, <2>2, Names
<1>8. SetupInv'
  <2>1. drv \notin Probing
    BY <1>1, NoWork, Names DEF Probing
  <2>2. devres # <<>>
    BY <1>1, NoWork, Names DEF LineInv, SetupInv
  <2>. QED  BY <1>1, <1>2, <2>1, <2>2, SetupKept, Lines DEF LineInv, platformVars
<1>. QED  BY <1>5, <1>6, <1>7, <1>8 DEF LineInv

-----------------------------------------------------------------------------
\* What a report does to a pipe that runs without having stopped the GP, or to
\* one that does not run.
LEMMA ReportPp ==
  ASSUME TypeOK, NEW err \in BOOLEAN, Report("pp", err)
  PROVE  /\ left'["pp"] = left["pp"] - 1 /\ left'["gp"] = left["gp"]
         /\ error'["pp"] = (error["pp"] \/ err) /\ error'["gp"] = error["gp"]
         /\ pc'["gp"] = pc["gp"] /\ pc'["recover"] = pc["recover"] /\ again' = again
         /\ "gp" \in fault' <=> "gp" \in fault
         /\ left["pp"] # 1 \/ error'["pp"] => pc'["pp"] = pc["pp"]
         /\ left["pp"] # 1 \/ pc["pp"] = "idle" => fault' = fault
         /\ left["pp"] = 1 /\ ~error'["pp"] => pc'["pp"] = "idle" /\ fault' = fault
         /\ left["pp"] = 1 /\ error'["pp"] /\ pc["pp"] # "idle" =>
              fault' = fault \cup {"pp"}
<1>1. /\ "pp" \notin Heap /\ "pp" \in Pipe /\ "gp" \in Pipe
      /\ {"pp", "gp", "recover"} \subseteq Thread
  BY MmuAssumption, Names DEF MmuAssumption
<1>2. /\ pc \in [Thread -> {"idle", "flush", "flushing", "count", "store", "flushed",
                            "run", "resume"}]
      /\ left \in [Pipe -> Int] /\ error \in [Pipe -> BOOLEAN]
  BY DEF TypeOK
<1>3. (error["pp"] \/ err) \in BOOLEAN
  OBVIOUS
<1>4. error'["pp"] = (error["pp"] \/ err) /\ error'["gp"] = error["gp"]
  BY <1>1, <1>2, <1>3 DEF Report
<1>5. left'["pp"] = left["pp"] - 1 /\ left'["gp"] = left["gp"]
  BY <1>1, <1>2 DEF Report
<1>6. /\ left["pp"] # 1 => UNCHANGED <<pc, fault>>
      /\ left["pp"] = 1 /\ ~error'["pp"] => pc' = [pc EXCEPT !["pp"] = "idle"] /\ UNCHANGED fault
      /\ left["pp"] = 1 /\ error'["pp"] /\ pc["pp"] = "idle" => UNCHANGED <<pc, fault>>
      /\ left["pp"] = 1 /\ error'["pp"] /\ pc["pp"] # "idle" =>
           fault' = fault \cup {"pp"} /\ UNCHANGED pc
      /\ again' = again
  BY <1>1 DEF Report
<1>. HIDE DEF Report
<1>7. pc'["gp"] = pc["gp"] /\ pc'["recover"] = pc["recover"]
  BY <1>1, <1>2, <1>6
<1>8. "gp" \in fault' <=> "gp" \in fault
  BY <1>6
<1>9. left["pp"] = 1 /\ ~error'["pp"] => pc'["pp"] = "idle"
  BY <1>1, <1>2, <1>6
<1>. QED  BY <1>4, <1>5, <1>6, <1>7, <1>8, <1>9

LEMMA ReportGp ==
  ASSUME TypeOK, NEW err \in BOOLEAN, Report("gp", err)
  PROVE  /\ left'["pp"] = left["pp"]
         /\ error'["gp"] = (error["gp"] \/ err) /\ error'["pp"] = error["pp"]
         /\ pc'["pp"] = pc["pp"] /\ ("pp" \in fault' <=> "pp" \in fault)
         /\ ~error'["gp"] => /\ pc'["gp"] = "idle" /\ pc'["recover"] = pc["recover"]
                             /\ fault' = fault /\ again' = again
         /\ error'["gp"] => /\ pc'["gp"] = pc["gp"]
                            /\ \/ /\ pc'["recover"] # "idle" /\ fault' = fault /\ vm["gp"] # 0
                                  /\ pc["recover"] = "idle" => again' = again
                               \/ /\ pc'["recover"] = pc["recover"] /\ again' = again
                                  /\ fault' = IF pc["gp"] = "idle" THEN fault
                                              ELSE fault \cup {"gp"}
<1>1. "pp" \in Pipe /\ "gp" \in Pipe /\ {"pp", "gp", "recover"} \subseteq Thread
  BY Names
<1>2. /\ pc \in [Thread -> {"idle", "flush", "flushing", "count", "store", "flushed",
                            "run", "resume"}]
      /\ left \in [Pipe -> Int] /\ error \in [Pipe -> BOOLEAN]
  BY DEF TypeOK
<1>3. (error["gp"] \/ err) \in BOOLEAN
  OBVIOUS
<1>4. error'["gp"] = (error["gp"] \/ err) /\ error'["pp"] = error["pp"]
  BY <1>1, <1>2, <1>3 DEF Report
<1>5. left'["pp"] = left["pp"]
  BY <1>1, <1>2 DEF Report
<1>6. /\ ~error'["gp"] =>
           pc' = [pc EXCEPT !["gp"] = "idle"] /\ UNCHANGED <<fault, again>>
      /\ error'["gp"] =>
           \/ vm["gp"] # 0 /\ Queue /\ UNCHANGED fault
           \/ /\ fault' = IF pc["gp"] = "idle" THEN fault ELSE fault \cup {"gp"}
              /\ UNCHANGED <<pc, again>>
  BY <1>1 DEF Report
<1>7. Queue => /\ pc'["gp"] = pc["gp"] /\ pc'["pp"] = pc["pp"] /\ pc'["recover"] # "idle"
               /\ pc["recover"] = "idle" => again' = again
  BY <1>1, <1>2, QueueMoves
<1>. HIDE DEF Report
<1>8. error'["gp"] => /\ pc'["gp"] = pc["gp"] /\ pc'["pp"] = pc["pp"]
                      /\ "pp" \in fault' <=> "pp" \in fault
  BY <1>6, <1>7
<1>9. ~error'["gp"] => /\ pc'["gp"] = "idle" /\ pc'["recover"] = pc["recover"]
                       /\ pc'["pp"] = pc["pp"] /\ UNCHANGED <<fault, again>>
  BY <1>1, <1>2, <1>6
<1>10. error'["gp"] =>
         \/ /\ pc'["recover"] # "idle" /\ fault' = fault /\ vm["gp"] # 0
            /\ pc["recover"] = "idle" => again' = again
         \/ /\ pc'["recover"] = pc["recover"] /\ again' = again
            /\ fault' = IF pc["gp"] = "idle" THEN fault ELSE fault \cup {"gp"}
  BY <1>6, <1>7
<1>. QED  BY <1>4, <1>5, <1>8, <1>9, <1>10

LEMMA CoreDoneLine ==
  ASSUME Inv, LineInv, NEW m \in Mmu, CoreDone(m)
  PROVE  LineInv'
<1>. USE DEF initVars
<1>1. /\ core[m] = "busy" /\ core' = [core EXCEPT ![m] = "idle"] /\ ~reg[m].fault
      /\ core \in [Mmu -> {"idle", "busy", "heap"}]
      /\ Report(PipeOf(m), FALSE) /\ TypeOK
      /\ UNCHANGED <<platformVars, initVars, reg, deaf, stale, status>>
  BY DEF CoreDone, Works, Becomes, Inv, TypeOK
<1>2. /\ m \in present /\ pc[PipeOf(m)] = "run" /\ PipeOf(m) \in Pipe
      /\ drv \notin Probing /\ drv # "off" /\ devres # <<>>
  BY <1>1, WorkerRuns, Busy
<1>3. /\ UNCHANGED <<running, present, drv>>
      /\ \A n \in Mmu : n # m => core'[n] = core[n]
      /\ core'[m] = "idle"
      /\ \A n \in Mmu : Waiting(n)' <=> Waiting(n)
      /\ \A n \in Mmu : IrqOf(n)
  BY <1>1 DEF Waiting, Serving, Asserted, platformVars, LineInv, IrqInv
<1>4. SetupInv'
  BY <1>1, <1>2, SetupKept, Lines DEF LineInv, platformVars
<1>5. /\ PipeOf(m) \notin stale => ~Waiting(m)
      /\ PipeOf(m) \notin stale /\ ~reg[m].mask => m \in deaf
  BY <1>1, <1>2, <1>3 DEF IrqOf, Fresh
<1>6. CASE PipeOf(m) = "gp"
  <2>1. m = 1
    BY <1>6, Names
  <2>2. /\ left'["pp"] = left["pp"]
        /\ error'["gp"] = error["gp"] /\ error'["pp"] = error["pp"]
        /\ pc'["pp"] = pc["pp"] /\ ("pp" \in fault' <=> "pp" \in fault)
        /\ ~error["gp"] => /\ pc'["gp"] = "idle" /\ pc'["recover"] = pc["recover"]
                           /\ fault' = fault /\ again' = again
        /\ error["gp"] => /\ pc'["gp"] = "run"
                          /\ \/ /\ pc'["recover"] # "idle" /\ fault' = fault
                                /\ pc["recover"] = "idle" => again' = again
                             \/ /\ pc'["recover"] = pc["recover"] /\ again' = again
                                /\ fault' = fault \cup {"gp"}
    BY <1>1, <1>2, <1>6, ReportGp DEF TypeOK
  <2>3. "gp" \notin stale =>
           ~GpStopped /\ ~Waiting(1) /\ "gp" \notin fault /\ pc["recover"] = "idle"
    BY <1>1, <1>2, <1>5, <1>6, <2>1, Names DEF GpStopped, LineInv, GpInv
  <2>5. GpInv'
    <3>1. "gp" \notin stale => ~Waiting(1)'
      BY <1>3, <2>3, Names
    <3>2. error["gp"] => GpStopped'
      BY <1>3, <2>1, <2>2 DEF GpStopped
    <3>3. CASE "gp" \in stale
      BY <1>1, <2>2, <3>3 DEF LineInv, GpInv
    <3>4. CASE "gp" \notin stale
      <4>1. again' = again /\ ~again
        BY <2>2, <2>3, <3>4 DEF LineInv, GpInv
      <4>. QED  BY <1>1, <2>2, <2>3, <3>1, <3>2, <3>4, <4>1, Names DEF GpInv
    <3>. QED  BY <3>3, <3>4
  <2>6. PpInv'
    <3>1. /\ core'[2] = core[2] /\ core'[3] = core[3]
          /\ (Waiting(2)' <=> Waiting(2)) /\ (Waiting(3)' <=> Waiting(3))
      BY <1>3, <2>1, Names
    <3>. QED  BY <1>1, <2>2, <3>1, PpSame DEF LineInv
  <2>7. IrqInv'
    <3>. SUFFICES ASSUME NEW n \in Mmu PROVE IrqOf(n)'
      BY DEF IrqInv
    <3>1. CASE n = m
      BY <1>1, <1>3, <1>5, <1>6, <3>1, <2>1, Names DEF IrqOf, platformVars, Waiting, Serving, Zero
    <3>2. CASE n # m
      <4>1. PipeOf(n) = "pp"
        BY <2>1, <3>2, Names
      <4>2. core'[n] = core[n] /\ IrqOf(n)
        BY <1>3, <3>2
      <4>. QED  BY <1>1, <1>3, <2>2, <4>1, <4>2, IrqSame
    <3>. QED  BY <3>1, <3>2
  <2>. QED  BY <1>4, <2>5, <2>6, <2>7 DEF LineInv
<1>7. CASE PipeOf(m) = "pp"
  <2>1. m \in {2, 3} /\ m # 1
    BY <1>7, Names
  <2>2. /\ left'["pp"] = left["pp"] - 1 /\ left["pp"] \in Int
        /\ error'["pp"] = error["pp"] /\ error'["gp"] = error["gp"]
        /\ pc'["gp"] = pc["gp"] /\ pc'["recover"] = pc["recover"] /\ again' = again
        /\ "gp" \in fault' <=> "gp" \in fault
        /\ left["pp"] # 1 => pc'["pp"] = "run" /\ fault' = fault
        /\ left["pp"] = 1 /\ ~error["pp"] => pc'["pp"] = "idle" /\ fault' = fault
        /\ left["pp"] = 1 /\ error["pp"] =>
             pc'["pp"] = "run" /\ fault' = fault \cup {"pp"}
    <3>1. error \in [Pipe -> BOOLEAN] /\ left \in [Pipe -> Int] /\ "pp" \in Pipe
      BY <1>1, Names DEF TypeOK
    <3>. QED  BY <1>1, <1>2, <1>7, <3>1, ReportPp
  <2>3. GpInv'
    BY <1>1, <1>3, <2>1, <2>2, GpSame, Names DEF LineInv, platformVars
  <2>4. ASSUME "pp" \notin stale, NEW n \in {2, 3}, n # m
        PROVE  /\ "pp" \notin fault /\ left["pp"] >= 1 /\ ~Waiting(m) /\ Pending(m)
               /\ Pending(n) => left["pp"] >= 2
    <3>1. Pending(m)
      BY <1>1 DEF Pending
    <3>2. "pp" \notin fault
      BY <2>1, <2>4, <3>1 DEF LineInv, PpInv
    <3>. QED  BY <1>2, <1>5, <1>7, <2>1, <2>4, <3>1, <3>2 DEF LineInv, PpInv
  <2>5. PpInv'
    <3>1. CASE "pp" \in stale
      BY <1>1, <3>1 DEF PpInv
    <3>2. CASE "pp" \notin stale
      <4>1. PICK n \in {2, 3} : n # m /\ {n, m} = {2, 3}
        BY <2>1
      <4>2. ~Pending(m)' /\ (Pending(n)' <=> Pending(n))
        BY <1>3, <1>5, <1>7, <3>2, <4>1, Names DEF Pending
      <4>3. (m = 2 /\ n = 3) \/ (m = 3 /\ n = 2)
        BY <2>1, <4>1
      <4>4. /\ ~(Pending(2)' /\ Pending(3)')
            /\ Pending(2)' \/ Pending(3)' => left["pp"] >= 2
        BY <2>4, <3>2, <4>1, <4>2, <4>3
      <4>5. /\ "pp" \in fault' => left["pp"] = 1 /\ pc'["pp"] = "run"
        BY <2>2, <2>4, <3>2, <4>1
      <4>. QED  BY <2>2, <4>4, <4>5 DEF PpInv
    <3>. QED  BY <3>1, <3>2
  <2>6. IrqInv'
    <3>. SUFFICES ASSUME NEW n \in Mmu PROVE IrqOf(n)'
      BY DEF IrqInv
    <3>1. CASE n = m
      BY <1>1, <1>3, <1>5, <1>7, <3>1 DEF IrqOf, platformVars, Waiting, Serving, Zero
    <3>2. CASE n # m /\ PipeOf(n) = "pp"
      <4>1. IrqOf(n) /\ n \in {2, 3}
        BY <1>3, <3>2, Names
      <4>2. CASE pc'["pp"] = "run"
        BY <1>1, <1>2, <1>3, <1>7, <2>2, <3>2, <4>1, <4>2, IrqSame
      <4>3. CASE pc'["pp"] # "run" /\ "pp" \notin stale
        <5>1. left["pp"] = 1 /\ ~error["pp"] /\ ~Waiting(n)
          BY <2>2, <2>4, <3>2, <4>1, <4>3 DEF Pending
        <5>2. n \in present /\ ~reg[n].mask => n \in deaf
          BY <1>2, <1>7, <3>2, <4>1, <4>3, <5>1 DEF IrqOf, Waiting
        <5>. QED  BY <1>1, <1>3, <3>2, <4>1, <5>1, <5>2
             DEF IrqOf, Waiting, Serving, Zero, platformVars
      <4>4. CASE "pp" \in stale
        BY <1>1, <1>3, <3>2, <4>1, <4>4 DEF IrqOf, platformVars
      <4>. QED  BY <4>2, <4>3, <4>4
    <3>3. CASE PipeOf(n) # "pp"
      BY <1>1, <1>3, <1>7, <2>2, <3>3, IrqSame, Names DEF platformVars
    <3>. QED  BY <3>1, <3>2, <3>3
  <2>. QED  BY <1>4, <2>3, <2>5, <2>6 DEF LineInv
<1>. QED  BY <1>2, <1>6, <1>7, Names

\* Whether the processor only hangs or its MMU reports, the job still runs.
LEMMA CoreStopsLine ==
  ASSUME Inv, LineInv, NEW m \in Mmu, CoreStops(m)
  PROVE  LineInv'
<1>. USE DEF initVars
<1>1. /\ core[m] = "busy" /\ core' = [core EXCEPT ![m] = "idle"]
      /\ core \in [Mmu -> {"idle", "busy", "heap"}]
      /\ UNCHANGED <<platformVars, initVars, deaf, stale, status, pc, left, error, fault, again>>
  BY DEF CoreStops, Becomes, Inv, TypeOK
<1>2. /\ m \in present /\ pc[PipeOf(m)] = "run" /\ PipeOf(m) \in Pipe
      /\ drv \notin Probing /\ drv # "off" /\ devres # <<>>
  BY <1>1, WorkerRuns, Busy
<1>3. /\ \A n \in Mmu : n # m => reg'[n] = reg[n] /\ core'[n] = core[n]
      /\ core'[m] = "idle"
      /\ reg'[m].mask = reg[m].mask
      /\ ~Works(m) => reg'[m] = reg[m]
  <2>1. reg[m] \in Regs /\ reg \in [Mmu -> Regs]
    BY DEF Inv, TypeOK, Regs
  <2>. DEFINE pf == [reg[m] EXCEPT !.raw = @ \cup {"pf"}, !.fault = TRUE]
              be == [reg[m] EXCEPT !.raw = @ \cup {"be"}]
  <2>2. pf.mask = reg[m].mask /\ be.mask = reg[m].mask
    BY <2>1 DEF Regs
  <2>3. \/ reg' = reg
        \/ Works(m) /\ (reg' = [reg EXCEPT ![m] = pf] \/ reg' = [reg EXCEPT ![m] = be])
    BY <2>1 DEF CoreStops
  <2>. HIDE DEF pf, be
  <2>. QED  BY <1>1, <2>1, <2>2, <2>3
<1>4. SetupInv'
  BY <1>1, <1>2, <1>3, SetupKept, Lines DEF LineInv, platformVars
<1>5. /\ \A n \in Mmu : n # m => (Waiting(n)' <=> Waiting(n))
      /\ \A n \in Mmu : IrqOf(n)
  BY <1>1, <1>3 DEF Waiting, Serving, Asserted, platformVars, LineInv, IrqInv
<1>6. Fresh(m)' /\ ~Fresh(m)
  BY <1>1, <1>2, <1>3 DEF Fresh
<1>7. IrqInv'
  <2>. SUFFICES ASSUME NEW n \in Mmu PROVE IrqOf(n)'
    BY DEF IrqInv
  <2>1. CASE n = m
    BY <1>1, <1>2, <1>3, <1>5, <1>6, <2>1 DEF IrqOf, platformVars, Waiting, Serving, Zero
  <2>2. CASE n # m
    BY <1>1, <1>3, <1>5, <2>2, IrqSame DEF platformVars
  <2>. QED  BY <2>1, <2>2
<1>8. PpInv'
  <2>1. CASE m = 1
    <3>1. /\ core'[2] = core[2] /\ core'[3] = core[3]
          /\ (Waiting(2)' <=> Waiting(2)) /\ (Waiting(3)' <=> Waiting(3))
      BY <1>3, <1>5, <2>1, Names
    <3>. QED  BY <1>1, <3>1, PpSame DEF LineInv
  <2>2. CASE m # 1
    <3>1. PipeOf(m) = "pp" /\ m \in {2, 3} /\ Pending(m)
      BY <1>1, <2>2, Names DEF Pending
    <3>2. \A n \in {2, 3} : Pending(n)' => Pending(n)
      BY <1>1, <1>3, <1>5, <3>1, Names DEF Pending
    <3>. QED  BY <1>1, <3>1, <3>2 DEF PpInv, LineInv
  <2>. QED  BY <2>1, <2>2
<1>9. GpInv'
  <2>1. CASE m # 1
    <3>1. reg'[1] = reg[1] /\ core'[1] = core[1] /\ (Waiting(1)' <=> Waiting(1))
      BY <1>3, <1>5, <2>1, Names
    <3>. QED  BY <1>1, <3>1, GpSame DEF LineInv
  <2>2. CASE m = 1
    <3>1. GpStopped' /\ pc["gp"] = "run"
      BY <1>1, <1>2, <1>3, <2>2, Names DEF GpStopped
    <3>2. CASE Works(1) /\ "gp" \notin stale
      <4>1. ~GpStopped
        BY <1>2, <2>2, <3>1, <3>2 DEF Works, GpStopped
      <4>2. "gp" \notin fault' /\ pc'["recover"] = "idle" /\ ~again'
        BY <1>1, <3>2, <4>1 DEF LineInv, GpInv
      <4>. QED  BY <4>2 DEF GpInv
    <3>3. CASE ~Works(1)
      <4>1. Waiting(1)' <=> Waiting(1)
        BY <1>1, <1>3, <2>2, <3>3 DEF Waiting, Serving, Asserted, platformVars
      <4>. QED  BY <1>1, <3>1, <4>1 DEF LineInv, GpInv
    <3>4. CASE "gp" \in stale
      BY <1>1, <3>4 DEF LineInv, GpInv
    <3>. QED  BY <3>2, <3>3, <3>4
  <2>. QED  BY <2>1, <2>2
<1>. QED  BY <1>4, <1>7, <1>8, <1>9 DEF LineInv

LEMMA OutOfHeapLine ==
  ASSUME Inv, LineInv, OutOfHeap
  PROVE  LineInv'
<1>. USE DEF initVars
<1>1. /\ core[1] = "busy" /\ core' = [core EXCEPT ![1] = "heap"] /\ ~reg[1].fault
      /\ core \in [Mmu -> {"idle", "busy", "heap"}] /\ 1 \in Mmu /\ PipeOf(1) = "gp"
      /\ pc'["gp"] = pc["gp"] /\ pc'["pp"] = pc["pp"] /\ pc'["recover"] # "idle"
      /\ pc["recover"] = "idle" => again' = again
      /\ UNCHANGED <<platformVars, initVars, reg, deaf, stale, status, left, error, fault>>
  <2>1. /\ pc \in [Thread -> {"idle", "flush", "flushing", "count", "store", "flushed",
                              "run", "resume"}]
        /\ Queue
    BY DEF OutOfHeap, Inv, TypeOK
  <2>2. /\ pc'["gp"] = pc["gp"] /\ pc'["pp"] = pc["pp"] /\ pc'["recover"] # "idle"
        /\ pc["recover"] = "idle" => again' = again
    BY <2>1, Names, QueueMoves
  <2>. QED  BY <2>2, Names DEF OutOfHeap, Works, Becomes, Inv, TypeOK
<1>2. /\ 1 \in present /\ pc["gp"] = "run"
      /\ drv \notin Probing /\ drv # "off" /\ devres # <<>>
  BY <1>1, WorkerRuns, Busy
<1>3. SetupInv'
  BY <1>1, <1>2, SetupKept, Lines DEF LineInv, platformVars
<1>4. /\ \A n \in Mmu : n # 1 => core'[n] = core[n]
      /\ core'[1] = "heap"
      /\ \A n \in Mmu : Waiting(n)' <=> Waiting(n)
      /\ \A n \in Mmu : IrqOf(n)
  BY <1>1 DEF Waiting, Serving, Asserted, platformVars, LineInv, IrqInv
<1>5. "gp" \notin stale =>
         ~GpStopped /\ ~Waiting(1) /\ "gp" \notin fault /\ pc["recover"] = "idle" /\ ~again
  BY <1>1, <1>2, <1>4 DEF GpStopped, LineInv, GpInv, IrqOf, Fresh
<1>6. IrqInv'
  <2>. SUFFICES ASSUME NEW n \in Mmu PROVE IrqOf(n)'
    BY DEF IrqInv
  <2>1. CASE n = 1
    BY <1>1, <1>4, <1>5, <2>1 DEF IrqOf, Waiting, Serving, Zero, platformVars
  <2>2. CASE n # 1
    <3>1. PipeOf(n) = "pp" /\ core'[n] = core[n] /\ IrqOf(n)
      BY <1>4, <2>2, Names
    <3>. QED  BY <1>1, <3>1, IrqSame DEF platformVars
  <2>. QED  BY <2>1, <2>2
<1>7. PpInv'
  <2>1. /\ core'[2] = core[2] /\ core'[3] = core[3]
        /\ (Waiting(2)' <=> Waiting(2)) /\ (Waiting(3)' <=> Waiting(3))
    BY <1>4, Names
  <2>. QED  BY <1>1, <2>1, PpSame DEF LineInv
<1>8. GpInv'
  <2>1. GpStopped' /\ ("gp" \notin stale => ~Waiting(1)')
    BY <1>1, <1>2, <1>4, <1>5 DEF GpStopped
  <2>. QED  BY <1>1, <1>2, <1>5, <2>1 DEF GpInv
<1>. QED  BY <1>3, <1>6, <1>7, <1>8 DEF LineInv

LEMMA RecoverLine ==
  ASSUME Inv, LineInv, Recover
  PROVE  LineInv'
<1>. USE DEF initVars
<1>1. /\ pc["recover"] # "idle" /\ (~again => pc'["recover"] = "idle") /\ ~again'
      /\ pc'["gp"] = pc["gp"] /\ pc'["pp"] = pc["pp"]
      /\ core \in [Mmu -> {"idle", "busy", "heap"}] /\ 1 \in Mmu /\ PipeOf(1) = "gp"
      /\ UNCHANGED <<platformVars, initVars, reg, deaf, stale, status, left, error>>
  BY Names DEF Recover, Goto, Inv, TypeOK
<1>2. "gp" \notin stale =>
        GpStopped /\ ~Waiting(1) /\ "gp" \notin fault /\ pc["gp"] # "idle" /\ ~again
  BY <1>1 DEF LineInv, GpInv
<1>3. /\ \A n \in Mmu : n # 1 => core'[n] = core[n]
      /\ core'[1] = "idle" <=> core[1] = "idle"
      /\ \/ fault' = fault
         \/ fault' = fault \cup {"gp"} /\ core' = core /\ pc["gp"] # "idle"
  BY <1>1 DEF Recover
<1>4. SetupInv'
  <2>1. devres # <<>> \/ UNCHANGED fault
    BY <1>3, Busy, Names
  <2>. QED  BY <1>1, <2>1, SetupKept, Lines DEF LineInv, platformVars
<1>6. /\ \A n \in Mmu : Waiting(n)' <=> Waiting(n)
      /\ \A n \in Mmu : IrqOf(n)
  BY <1>1 DEF Waiting, Serving, Asserted, platformVars, LineInv, IrqInv
<1>7. IrqInv'
  <2>. SUFFICES ASSUME NEW n \in Mmu PROVE IrqOf(n)'
    BY DEF IrqInv
  <2>1. CASE n = 1
    <3>1. (Gone("gp")' <=> Gone("gp")) /\ (1 \in Serving' <=> 1 \in Serving)
      BY <1>1 DEF Gone, Serving, platformVars
    <3>. QED  BY <1>1, <1>3, <1>6, <2>1, <3>1 DEF IrqOf, Fresh, Asserted, platformVars
  <2>2. CASE n # 1
    <3>1. PipeOf(n) = "pp" /\ core'[n] = core[n] /\ IrqOf(n)
      BY <1>3, <1>6, <2>2, Names
    <3>. QED  BY <1>1, <3>1, IrqSame DEF platformVars
  <2>. QED  BY <2>1, <2>2
<1>8. PpInv'
  <2>1. /\ core'[2] = core[2] /\ core'[3] = core[3]
        /\ (Waiting(2)' <=> Waiting(2)) /\ (Waiting(3)' <=> Waiting(3))
        /\ "pp" \in fault' <=> "pp" \in fault
    BY <1>3, <1>6, Names
  <2>. QED  BY <1>1, <2>1, PpSame DEF LineInv
<1>9. GpInv'
  <2>1. "gp" \notin stale => ~Waiting(1)' /\ pc'["recover"] = "idle"
    BY <1>1, <1>2, <1>6
  <2>2. "gp" \in fault' /\ "gp" \notin stale => GpStopped'
    BY <1>1, <1>2, <1>3 DEF GpStopped
  <2>. QED  BY <1>1, <1>2, <2>1, <2>2 DEF GpInv
<1>. QED  BY <1>4, <1>7, <1>8, <1>9 DEF LineInv

LEMMA RecoverLostLine ==
  ASSUME Inv, LineInv, RecoverLost
  PROVE  LineInv'
<1>. USE DEF initVars, mmuVars
<1>1. /\ pc'["gp"] = pc["gp"] /\ pc'["pp"] = pc["pp"] /\ pc'["recover"] = "idle" /\ ~again'
      /\ UNCHANGED <<platformVars, initVars, mmuVars, status, core, left, error, fault>>
  BY Names DEF RecoverLost, Goto, Inv, TypeOK
<1>2. IrqInv' /\ PpInv' /\ GpInv'
  BY <1>1, Names, LineKept DEF LineInv, platformVars, Gone
<1>3. SetupInv'
  BY <1>1, SetupKept, Lines DEF LineInv, platformVars
<1>. QED  BY <1>2, <1>3 DEF LineInv

\* A handler that reads 0, or returns after that, changes nothing for the others.
LEMMA ReadsLine ==
  ASSUME Inv, LineInv, NEW m \in Mmu, HandlerReads(m)
  PROVE  LineInv'
<1>. USE DEF initVars, mmuVars, jobVars
<1>1. /\ running' = running \cup {m} /\ m \in tag \ running
      /\ status' = [status EXCEPT ![m] = IF Asserted(m) THEN reg[m].raw ELSE Zero]
      /\ status \in [Mmu -> (SUBSET Interrupts) \cup {Zero}] /\ reg[m].raw \subseteq Interrupts
      /\ UNCHANGED <<bus, devres, tag, initVars, mmuVars, pc, jobVars>>
  BY DEF HandlerReads, Enter, Inv, TypeOK
<1>2. Asserted(m) => m \in present
  BY <1>1 DEF LineInv, SetupInv, Asserted
<1>3. /\ status'[m] = (IF Asserted(m) THEN reg[m].raw ELSE Zero) /\ m \notin Serving
      /\ reg[m].raw # Zero /\ Zero # {} /\ (Asserted(m) => reg[m].raw # {})
      /\ m \in Serving' <=> Asserted(m)
      /\ \A n \in Mmu : n # m => /\ status'[n] = status[n]
                                 /\ n \in running' <=> n \in running
                                 /\ n \in Serving' <=> n \in Serving
  BY <1>1 DEF Serving, Asserted, Zero, Interrupts
<1>4. /\ \A n \in Mmu : /\ Waiting(n)' <=> Waiting(n)
                        /\ Asserted(n)' <=> Asserted(n)
      /\ \A n \in Mmu : IrqOf(n)
  BY <1>1, <1>2, <1>3 DEF Waiting, Asserted, LineInv, IrqInv
<1>5. SetupInv'
  BY <1>1, SetupKept, Lines DEF LineInv
<1>6. IrqInv'
  <2>. SUFFICES ASSUME NEW n \in Mmu PROVE IrqOf(n)'
    BY DEF IrqInv
  <2>1. CASE n = m
    <3>1. (Gone(PipeOf(m))' <=> Gone(PipeOf(m))) /\ (Fresh(m)' <=> Fresh(m))
      BY <1>1 DEF Gone, Fresh
    <3>. QED  BY <1>1, <1>3, <1>4, <2>1, <3>1 DEF IrqOf
  <2>2. CASE n # m
    BY <1>1, <1>3, <1>4, <2>2, IrqSame
  <2>. QED  BY <2>1, <2>2
<1>7. PpInv' /\ GpInv'
  <2>1. (Waiting(1)' <=> Waiting(1)) /\ (Waiting(2)' <=> Waiting(2)) /\ (Waiting(3)' <=> Waiting(3))
    BY <1>4, Names
  <2>. QED  BY <1>1, <2>1, PpSame, GpSame DEF LineInv
<1>. QED  BY <1>5, <1>6, <1>7 DEF LineInv

LEMMA ReturnsLine ==
  ASSUME Inv, LineInv, NEW m \in Mmu, HandlerReturns(m)
  PROVE  LineInv'
<1>. USE DEF initVars, mmuVars, jobVars
<1>1. /\ running' = running \ {m} /\ status[m] = Zero
      /\ status' = [status EXCEPT ![m] = {}]
      /\ status \in [Mmu -> (SUBSET Interrupts) \cup {Zero}]
      /\ UNCHANGED <<bus, devres, tag, initVars, mmuVars, pc, jobVars>>
  BY DEF HandlerReturns, Leave, Inv, TypeOK
<1>2. /\ status'[m] = {} /\ m \notin Serving /\ m \notin Serving' /\ m \notin running'
      /\ \A n \in Mmu : n # m => /\ status'[n] = status[n]
                                 /\ n \in running' <=> n \in running
                                 /\ n \in Serving' <=> n \in Serving
  BY <1>1 DEF Serving
<1>3. /\ \A n \in Mmu : /\ Waiting(n)' <=> Waiting(n)
                        /\ Asserted(n)' <=> Asserted(n)
      /\ \A n \in Mmu : IrqOf(n)
  BY <1>1, <1>2 DEF Waiting, Asserted, LineInv, IrqInv
<1>4. SetupInv'
  BY <1>1, SetupKept, Lines DEF LineInv
<1>5. IrqInv'
  <2>. SUFFICES ASSUME NEW n \in Mmu PROVE IrqOf(n)'
    BY DEF IrqInv
  <2>1. CASE n = m
    <3>1. (Gone(PipeOf(m))' <=> Gone(PipeOf(m))) /\ (Fresh(m)' <=> Fresh(m))
      BY <1>1 DEF Gone, Fresh
    <3>. QED  BY <1>1, <1>2, <1>3, <2>1, <3>1 DEF IrqOf
  <2>2. CASE n # m
    BY <1>1, <1>2, <1>3, <2>2, IrqSame
  <2>. QED  BY <2>1, <2>2
<1>6. PpInv' /\ GpInv'
  <2>1. (Waiting(1)' <=> Waiting(1)) /\ (Waiting(2)' <=> Waiting(2)) /\ (Waiting(3)' <=> Waiting(3))
    BY <1>3, Names
  <2>. QED  BY <1>1, <2>1, PpSame, GpSame DEF LineInv
<1>. QED  BY <1>4, <1>5, <1>6 DEF LineInv

\* INT_MASK and INT_CLEAR leave nothing pending, unless what has come up since
\* is of a stale pipe.
LEMMA MasksLine ==
  ASSUME Inv, LineInv, NEW m \in Mmu, HandlerMasks(m)
  PROVE  LineInv'
<1>. USE DEF initVars, jobVars
<1>1. /\ status[m] \notin {{}, Zero} /\ status' = [status EXCEPT ![m] = {}]
      /\ status \in [Mmu -> (SUBSET Interrupts) \cup {Zero}]
      /\ UNCHANGED <<platformVars, initVars, stale, pc, jobVars>>
      /\ deaf' = IF reg[m].fault THEN deaf ELSE deaf \cup {m}
  BY DEF HandlerMasks, Inv, TypeOK
<1>2. /\ ~reg'[m].mask /\ reg'[m].raw = reg[m].raw \ status[m] /\ reg'[m].fault = reg[m].fault
      /\ \A n \in Mmu : n # m => reg'[n] = reg[n]
  <2>1. reg \in [Mmu -> Regs] /\ reg[m] \in Regs
    BY DEF Inv, TypeOK, Regs
  <2>. DEFINE r == [reg[m] EXCEPT !.mask = FALSE, !.raw = @ \ status[m]]
  <2>2. r.mask = FALSE /\ r.raw = reg[m].raw \ status[m] /\ r.fault = reg[m].fault
    BY <2>1 DEF Regs
  <2>3. reg' = [reg EXCEPT ![m] = r]
    BY <2>1 DEF HandlerMasks
  <2>. HIDE DEF r
  <2>. QED  BY <2>1, <2>2, <2>3
<1>3. /\ m \in running /\ m \in Serving /\ m \in Serving' /\ ~Asserted(m)'
      /\ status'[m] = {}
      /\ \A n \in Mmu : n # m => /\ status'[n] = status[n]
                                 /\ n \in Serving' <=> n \in Serving
  BY <1>1, <1>2 DEF LineInv, IrqInv, IrqOf, Serving, Asserted, Zero, platformVars
<1>4. \A n \in Mmu : (Waiting(n)' <=> Waiting(n)) /\ IrqOf(n)
  BY <1>1, <1>2, <1>3 DEF Waiting, Asserted, LineInv, IrqInv
<1>5. SetupInv'
  <2>1. drv \notin Probing
    BY <1>3, ProbeQuiet DEF Waiting
  <2>2. devres # <<>> \/ UNCHANGED fault
    BY <1>1
  <2>3. \A n \in Mmu : reg'[n].raw \subseteq reg[n].raw
    BY <1>2
  <2>. QED  BY <1>1, <2>1, <2>2, <2>3, SetupKept, Lines DEF LineInv, platformVars
<1>6. IrqInv'
  <2>. SUFFICES ASSUME NEW n \in Mmu PROVE IrqOf(n)'
    BY DEF IrqInv
  <2>1. CASE n = m
    <3>1. Fresh(m)' <=> Fresh(m)
      BY <1>1 DEF Fresh
    <3>2. PipeOf(m) \notin stale => Fresh(m) /\ reg'[m].raw = {}
      BY <1>2, <1>3, <1>4 DEF IrqOf, Waiting
    <3>. QED  BY <1>1, <1>2, <1>3, <1>4, <2>1, <3>1, <3>2 DEF IrqOf, Fresh, platformVars
  <2>2. CASE n # m
    BY <1>1, <1>2, <1>4, <2>2, IrqSame DEF platformVars
  <2>. QED  BY <2>1, <2>2
<1>7. PpInv'
  <2>1. (Waiting(2)' <=> Waiting(2)) /\ (Waiting(3)' <=> Waiting(3))
    BY <1>4, Names
  <2>. QED  BY <1>1, <2>1, PpSame DEF LineInv
<1>8. GpInv'
  <2>1. (Waiting(1)' <=> Waiting(1)) /\ reg'[1].fault = reg[1].fault
    BY <1>2, <1>4, Names
  <2>. QED  BY <1>1, <2>1, GpSame DEF LineInv
<1>. QED  BY <1>5, <1>6, <1>7, <1>8 DEF LineInv

LEMMA ReportsLine ==
  ASSUME Inv, LineInv, NEW m \in Mmu, HandlerReports(m)
  PROVE  LineInv'
<1>. USE DEF initVars, mmuVars
<1>1. /\ status[m] = {} /\ m \in running /\ running' = running \ {m}
      /\ Report(PipeOf(m), TRUE) /\ TypeOK /\ PipeOf(m) \in Pipe
      /\ UNCHANGED <<bus, devres, tag, initVars, mmuVars, status, core>>
  BY Names DEF HandlerReports, Leave, Inv, TypeOK, PipeOf
<1>2. /\ \A n \in Mmu : n # m => (Waiting(n)' <=> Waiting(n))
      /\ \A n \in Mmu : IrqOf(n)
      /\ m \in Serving /\ Waiting(m) /\ m \notin running' /\ m \notin Serving'
      /\ \A n \in Mmu : Asserted(n)' <=> Asserted(n)
  BY <1>1 DEF Waiting, Serving, Zero, Asserted, LineInv, IrqInv
<1>3. PipeOf(m) \notin stale => ~Asserted(m) /\ Fresh(m) /\ ~Waiting(m)'
  BY <1>1, <1>2 DEF IrqOf, Waiting
<1>4. SetupInv'
  <2>1. devres # <<>>
    BY <1>1, Lines DEF Inv, BusInv
  <2>. QED  BY <1>1, <2>1, SetupKept, Lines DEF LineInv
<1>5. CASE PipeOf(m) = "gp"
  <2>1. m = 1
    BY <1>5, Names
  <2>2. /\ left'["pp"] = left["pp"]
        /\ error'["gp"] /\ error'["pp"] = error["pp"]
        /\ pc'["pp"] = pc["pp"] /\ ("pp" \in fault' <=> "pp" \in fault)
        /\ pc'["gp"] = pc["gp"]
        /\ \/ /\ pc'["recover"] # "idle" /\ fault' = fault
              /\ pc["recover"] = "idle" => again' = again
           \/ /\ pc'["recover"] = pc["recover"] /\ again' = again
              /\ fault' \in {fault, fault \cup {"gp"}}
    BY <1>1, <1>5, ReportGp
  <2>3. "gp" \notin stale =>
          /\ ~Waiting(1)' /\ Waiting(1) /\ core[1] = "idle" /\ pc["gp"] = "run"
          /\ "gp" \notin fault /\ pc["recover"] = "idle" /\ ~again
    BY <1>2, <1>3, <1>5, <2>1 DEF LineInv, GpInv, Fresh
  <2>5. GpInv'
    <3>1. CASE "gp" \in stale
      BY <1>1, <2>2, <3>1 DEF LineInv, GpInv
    <3>2. CASE "gp" \notin stale
      <4>1. GpStopped' /\ ~again'
        BY <1>1, <2>2, <2>3, <3>2 DEF GpStopped
      <4>. QED  BY <2>2, <2>3, <3>2, <4>1 DEF GpInv
    <3>. QED  BY <3>1, <3>2
  <2>6. PpInv'
    <3>1. (Waiting(2)' <=> Waiting(2)) /\ (Waiting(3)' <=> Waiting(3))
      BY <1>2, <2>1, Names
    <3>. QED  BY <1>1, <2>2, <3>1, PpSame DEF LineInv
  <2>7. IrqInv'
    <3>. SUFFICES ASSUME NEW n \in Mmu PROVE IrqOf(n)'
      BY DEF IrqInv
    <3>1. CASE n = m
      BY <1>1, <1>2, <1>3, <1>5, <2>2, <3>1, <2>1 DEF IrqOf, Fresh
    <3>2. CASE n # m
      <4>1. PipeOf(n) = "pp" /\ IrqOf(n)
        BY <1>2, <2>1, <3>2, Names
      <4>. QED  BY <1>1, <2>2, <3>2, <4>1, IrqSame
    <3>. QED  BY <3>1, <3>2
  <2>. QED  BY <1>4, <2>5, <2>6, <2>7 DEF LineInv
<1>6. CASE PipeOf(m) = "pp"
  <2>1. m \in {2, 3} /\ m # 1
    BY <1>6, Names
  <2>2. /\ left'["pp"] = left["pp"] - 1 /\ left["pp"] \in Int
        /\ error'["pp"] /\ error'["gp"] = error["gp"]
        /\ pc'["gp"] = pc["gp"] /\ pc'["recover"] = pc["recover"] /\ pc'["pp"] = pc["pp"]
        /\ again' = again
        /\ "gp" \in fault' <=> "gp" \in fault
        /\ left["pp"] # 1 \/ pc["pp"] = "idle" => fault' = fault
        /\ left["pp"] = 1 /\ pc["pp"] # "idle" => fault' = fault \cup {"pp"}
    <3>1. error \in [Pipe -> BOOLEAN] /\ left \in [Pipe -> Int] /\ "pp" \in Pipe
      BY <1>1, Names DEF TypeOK
    <3>. QED  BY <1>1, <1>6, <3>1, ReportPp
  <2>3. GpInv'
    <3>1. Waiting(1)' <=> Waiting(1)
      BY <1>2, <2>1, Names
    <3>. QED  BY <1>1, <2>2, <3>1, GpSame DEF LineInv
  <2>4. PpInv'
    <3>1. CASE "pp" \in stale
      BY <1>1, <3>1 DEF PpInv
    <3>2. CASE "pp" \notin stale
      <4>1. PICK n \in {2, 3} : n # m /\ {n, m} = {2, 3}
        BY <2>1
      <4>2. /\ ~Pending(m)' /\ (Pending(n)' <=> Pending(n)) /\ Pending(m) /\ pc["pp"] = "run"
        BY <1>1, <1>2, <1>3, <1>6, <3>2, <4>1, Names DEF Pending, Fresh
      <4>3. (m = 2 /\ n = 3) \/ (m = 3 /\ n = 2)
        BY <2>1, <4>1
      <4>4. "pp" \notin fault
        BY <3>2, <4>2, <4>3 DEF LineInv, PpInv
      <4>5. /\ ~(Pending(2)' /\ Pending(3)')
            /\ Pending(2)' \/ Pending(3)' => left["pp"] >= 2
        BY <3>2, <4>2, <4>3, <4>4 DEF LineInv, PpInv
      <4>. QED  BY <2>2, <4>2, <4>4, <4>5 DEF PpInv
    <3>. QED  BY <3>1, <3>2
  <2>5. IrqInv'
    <3>. SUFFICES ASSUME NEW n \in Mmu PROVE IrqOf(n)'
      BY DEF IrqInv
    <3>1. CASE n = m
      BY <1>1, <1>2, <1>3, <1>6, <2>2, <3>1 DEF IrqOf, Fresh
    <3>2. CASE n # m
      <4>1. IrqOf(n) /\ pc'[PipeOf(n)] = pc[PipeOf(n)] /\ (error[PipeOf(n)] => error'[PipeOf(n)])
        BY <1>2, <2>2, Names
      <4>. QED  BY <1>1, <3>2, <4>1, IrqSame
    <3>. QED  BY <3>1, <3>2
  <2>. QED  BY <1>4, <2>3, <2>4, <2>5 DEF LineInv
<1>. QED  BY <1>1, <1>5, <1>6, Names

\* When the job is timed out nothing of its pipe waits any more, unless the
\* pipe is stale.
LEMMA TimedOutLine ==
  ASSUME Inv, LineInv, NEW p \in Pipe, TimedOut(p)
  PROVE  LineInv'
<1>. USE DEF initVars, mmuVars
<1>1. /\ pc[p] = "run" /\ pc' = [pc EXCEPT ![p] = "resume"]
      /\ pc \in [Thread -> {"idle", "flush", "flushing", "count", "store", "flushed",
                            "run", "resume"}]
      /\ core' = [m \in Mmu |-> IF m \in MmusOf(p) THEN "idle" ELSE core[m]]
      /\ core \in [Mmu -> {"idle", "busy", "heap"}]
      /\ UNCHANGED <<platformVars, initVars, reg, tlb, deaf, status, left, error, fault, again>>
      /\ p \in fault \/ Quiet(p)
      /\ stale' = stale \/ (stale' = stale \cup {"gp"} /\ p = "gp")
      /\ p = "gp" /\ "gp" \notin stale' => pc["recover"] = "idle"
  BY DEF TimedOut, Stopped, Overtakes, Goto, Inv, TypeOK
<1>2. /\ \A q \in Pipe : q # p => pc'[q] = pc[q]
      /\ pc'[p] = "resume" /\ pc'["recover"] = pc["recover"] /\ p # "recover"
      /\ \A m \in Mmu : PipeOf(m) # p => core'[m] = core[m]
      /\ \A m \in Mmu : core'[m] = core[m] \/ core'[m] = "idle"
      /\ \A m \in Mmu : PipeOf(m) = p => core'[m] = "idle"
      /\ \A m \in Mmu : /\ Waiting(m)' <=> Waiting(m)
                        /\ Asserted(m)' <=> Asserted(m)
                        /\ m \in Serving' <=> m \in Serving
                        /\ IrqOf(m)
  <2>1. \A m \in Mmu : PipeOf(m) = p => core'[m] = "idle"
    BY <1>1 DEF MmusOf, Inv, WorkInv
  <2>. QED  BY <1>1, <2>1, Names
           DEF MmusOf, Waiting, Serving, Asserted, platformVars, LineInv, IrqInv
<1>3. drv \notin Probing /\ drv # "off" /\ devres # <<>>
  BY <1>1, Busy
<1>4. SetupInv'
  BY <1>1, <1>3, SetupKept, Lines DEF LineInv, platformVars
<1>5. ASSUME NEW m \in Mmu, PipeOf(m) = p, p \notin stale PROVE ~Waiting(m)
  <2>1. CASE p \in fault /\ p = "pp"
    BY <1>5, <2>1, Names DEF LineInv, PpInv, Pending
  <2>2. CASE p \in fault /\ p = "gp"
    BY <1>5, <2>2, Names DEF LineInv, GpInv
  <2>3. CASE Quiet(p)
    <3>1. Waiting(m) => m \in MmusOf(p)
      BY <1>2, <1>5 DEF IrqOf, Fresh, MmusOf
    <3>. QED  BY <2>3, <3>1 DEF Quiet, Waiting
  <2>. QED  BY <1>1, <2>1, <2>2, <2>3, Names
<1>6. IrqInv'
  <2>. SUFFICES ASSUME NEW m \in Mmu PROVE IrqOf(m)'
    BY DEF IrqInv
  <2>1. CASE PipeOf(m) = p
    <3>1. p \notin stale => ~Waiting(m) /\ m \notin Serving
      BY <1>5, <2>1 DEF Waiting
    <3>. QED  BY <1>1, <1>2, <2>1, <3>1 DEF IrqOf, platformVars
  <2>2. CASE PipeOf(m) # p
    <3>1. /\ pc'[PipeOf(m)] = pc[PipeOf(m)]
          /\ (PipeOf(m) \in stale' <=> PipeOf(m) \in stale)
      BY <1>1, <1>2, <2>2, Names
    <3>. QED  BY <1>1, <1>2, <2>2, <3>1, IrqSame DEF platformVars
  <2>. QED  BY <2>1, <2>2
<1>7. PpInv'
  <2>1. CASE p = "pp"
    <3>1. "pp" \notin stale => ~Pending(2)' /\ ~Pending(3)'
      BY <1>2, <1>5, <2>1, Names DEF Pending
    <3>. QED  BY <1>1, <1>2, <2>1, <3>1 DEF PpInv
  <2>2. CASE p = "gp"
    <3>1. /\ (Waiting(2)' <=> Waiting(2)) /\ (Waiting(3)' <=> Waiting(3))
          /\ core'[2] = core[2] /\ core'[3] = core[3] /\ pc'["pp"] = pc["pp"]
          /\ ("pp" \in stale' <=> "pp" \in stale)
      BY <1>1, <1>2, <2>2, Names
    <3>. QED  BY <1>1, <3>1, PpSame DEF LineInv
  <2>. QED  BY <2>1, <2>2, Names
<1>8. GpInv'
  <2>1. CASE p = "pp"
    <3>1. /\ core'[1] = core[1] /\ pc'["gp"] = pc["gp"] /\ pc'["recover"] = pc["recover"]
          /\ (Waiting(1)' <=> Waiting(1)) /\ ("gp" \in stale' <=> "gp" \in stale)
      BY <1>1, <1>2, <2>1, Names
    <3>. QED  BY <1>1, <3>1, GpSame DEF LineInv
  <2>2. CASE p = "gp"
    <3>1. "gp" \notin stale' => ~Waiting(1)' /\ pc'["recover"] = "idle"
      BY <1>1, <1>2, <1>5, <2>2, Names
    <3>2. GpStopped' /\ pc'["gp"] = "resume"
      BY <1>2, <2>2, Names DEF GpStopped
    <3>. QED  BY <1>1, <1>2, <3>1, <3>2 DEF LineInv, GpInv
  <2>. QED  BY <2>1, <2>2, Names
<1>. QED  BY <1>4, <1>6, <1>7, <1>8 DEF LineInv

\* HARD_RESET clears what is pending.  Where it does not answer there was
\* nothing, unless a bus error had masked the MMU: then the pipe turns stale.
LEMMA ResumeLine ==
  ASSUME Inv, LineInv, NEW p \in Pipe, PageFaultResume(p)
  PROVE  LineInv'
<1>. USE DEF initVars
<1>1. /\ pc[p] = "resume" /\ pc' = [pc EXCEPT ![p] = "idle"] /\ fault' = fault \ {p}
      /\ pc \in [Thread -> {"idle", "flush", "flushing", "count", "store", "flushed",
                            "run", "resume"}]
      /\ UNCHANGED <<platformVars, initVars, status, core, left, error, again>>
  BY DEF PageFaultResume, Goto, Inv, TypeOK
<1>2. PICK late \in SUBSET Faulted(p) :
        /\ \E slow \in SUBSET (Faulted(p) \ late) :
             reg' = [m \in Mmu |->
               IF m \notin Faulted(p) THEN reg[m]
               ELSE [Rearm(reg[m], m \notin late) EXCEPT !.paging = @ \/ m \notin late \cup slow]]
        /\ deaf' = deaf \ (Faulted(p) \ late)
        /\ stale' = IF late \cap deaf = {} THEN stale ELSE stale \cup {p}
  BY DEF PageFaultResume
<1>3. ASSUME NEW m \in Mmu
      PROVE  /\ m \notin Faulted(p) => reg'[m] = reg[m]
             /\ m \in Faulted(p) => reg'[m].mask
             /\ m \in Faulted(p) \ late => reg'[m].raw = {} /\ ~reg'[m].fault
             /\ m \in late => reg'[m].raw = reg[m].raw /\ reg'[m].fault = reg[m].fault
  <2>1. reg[m] \in Regs /\ Off \in Regs
    BY RegType DEF Inv, TypeOK, Regs
  <2>2. m \in Faulted(p) =>
          \E b : reg'[m] = [Rearm(reg[m], m \notin late) EXCEPT !.paging = b]
    BY <1>2
  <2>5. CASE m \notin Faulted(p)
    BY <1>2, <2>5
  <2>6. CASE m \in Faulted(p) \ late
    <3>1. (m \notin late) = TRUE
      BY <2>6
    <3>2. PICK b : reg'[m] = [Rearm(reg[m], TRUE) EXCEPT !.paging = b]
      BY <2>2, <2>6, <3>1
    <3>3. reg'[m].mask /\ reg'[m].raw = {} /\ ~reg'[m].fault
      BY <2>1, <3>2 DEF Rearm, Off
    <3>. QED  BY <2>6, <3>3
  <2>7. CASE m \in late
    <3>1. (m \notin late) = FALSE
      BY <2>7
    <3>2. PICK b : reg'[m] = [Rearm(reg[m], FALSE) EXCEPT !.paging = b]
      BY <2>2, <2>7, <3>1
    <3>3. /\ reg'[m].mask /\ reg'[m].raw = reg[m].raw /\ reg'[m].fault = reg[m].fault
      BY <2>1, <3>2 DEF Rearm, Regs
    <3>4. m \in Faulted(p)
      BY <1>2, <2>7
    <3>. QED  BY <2>7, <3>3, <3>4
  <2>. QED  BY <2>5, <2>6, <2>7
<1>4. /\ \A q \in Pipe : q # p => pc'[q] = pc[q]
      /\ pc'[p] = "idle" /\ pc'["recover"] = pc["recover"] /\ p # "recover"
      /\ \A m \in Mmu : IrqOf(m)
      /\ \A m \in Mmu : PipeOf(m) # p => m \notin Faulted(p)
      /\ Faulted(p) \subseteq present /\ present \subseteq Mmu
  BY <1>1, Names DEF LineInv, IrqInv, Faulted, MmusOf, Inv, TypeOK
<1>5. drv \notin Probing /\ drv # "off" /\ devres # <<>>
  BY <1>1, Busy
<1>6. SetupInv'
  <2>1. \A m \in Mmu : reg'[m].raw \subseteq reg[m].raw
    BY <1>3
  <2>. QED  BY <1>1, <1>5, <2>1, SetupKept, Lines DEF LineInv, platformVars
<1>7. ASSUME NEW m \in Mmu, PipeOf(m) # p
      PROVE  /\ reg'[m] = reg[m] /\ (m \in deaf' <=> m \in deaf)
             /\ (PipeOf(m) \in stale' <=> PipeOf(m) \in stale)
             /\ (Waiting(m)' <=> Waiting(m))
  BY <1>1, <1>2, <1>3, <1>4, <1>7 DEF Waiting, Serving, Asserted, platformVars
<1>8. ASSUME NEW m \in Mmu, PipeOf(m) = p, p \notin stale'
      PROVE  /\ ~Waiting(m)' /\ m \notin Serving'
             /\ m \in running /\ status[m] = {} => FALSE
             /\ m \in present => reg'[m].mask \/ m \in deaf'
  <2>1. p \notin stale /\ late \cap deaf = {}
    BY <1>2, <1>8
  <2>2. /\ ~Waiting(m) /\ m \notin Serving /\ m \notin Serving'
        /\ m \in running /\ status[m] = {} => FALSE
    BY <1>1, <1>4, <1>8, <2>1 DEF IrqOf, Fresh, Waiting, Serving, Zero, platformVars
  <2>3. CASE m \notin Faulted(p)
    <3>1. m \in present => ~reg[m].fault
      BY <1>8, <2>3 DEF Faulted, MmusOf
    <3>2. m \in present => reg[m].mask \/ m \in deaf
      BY <1>4, <1>8, <2>1, <3>1 DEF IrqOf
    <3>. QED  BY <1>1, <1>2, <1>3, <1>4, <1>8, <2>1, <2>2, <2>3, <3>2
           DEF Waiting, Asserted, platformVars
  <2>4. CASE m \in Faulted(p)
    <3>1. m \in present /\ (m \in late => m \notin deaf)
      BY <1>4, <2>1, <2>4
    <3>2. m \in late => reg[m].raw = {}
      BY <1>4, <1>8, <2>1, <2>2, <3>1 DEF IrqOf, Waiting, Asserted
    <3>. QED  BY <1>1, <1>3, <2>2, <2>4, <3>2 DEF Waiting, Asserted, platformVars
  <2>. QED  BY <2>3, <2>4
<1>9. IrqInv'
  <2>. SUFFICES ASSUME NEW m \in Mmu PROVE IrqOf(m)'
    BY DEF IrqInv
  <2>1. CASE PipeOf(m) = p
    BY <1>1, <1>2, <1>4, <1>8, <2>1 DEF IrqOf, platformVars
  <2>2. CASE PipeOf(m) # p
    <3>1. pc'[PipeOf(m)] = pc[PipeOf(m)]
      BY <1>4, <2>2, Names
    <3>. QED  BY <1>1, <1>4, <1>7, <2>2, <3>1, IrqSame DEF platformVars
  <2>. QED  BY <2>1, <2>2
<1>10. PpInv'
  <2>1. CASE p = "pp"
    BY <1>1, <1>4, <2>1 DEF PpInv
  <2>2. CASE p = "gp"
    <3>1. /\ (Waiting(2)' <=> Waiting(2)) /\ (Waiting(3)' <=> Waiting(3))
          /\ ("pp" \in stale' <=> "pp" \in stale)
          /\ ("pp" \in fault' <=> "pp" \in fault) /\ pc'["pp"] = pc["pp"]
      BY <1>1, <1>4, <1>7, <2>2, Names
    <3>. QED  BY <1>1, <3>1, PpSame DEF LineInv
  <2>. QED  BY <2>1, <2>2, Names
<1>11. GpInv'
  <2>1. CASE p = "pp"
    <3>1. /\ reg'[1] = reg[1] /\ ("gp" \in fault' <=> "gp" \in fault)
          /\ pc'["gp"] = pc["gp"] /\ pc'["recover"] = pc["recover"]
          /\ (Waiting(1)' <=> Waiting(1)) /\ ("gp" \in stale' <=> "gp" \in stale)
      BY <1>1, <1>4, <1>7, <2>1, Names
    <3>. QED  BY <1>1, <3>1, GpSame DEF LineInv
  <2>2. CASE p = "gp"
    <3>1. /\ "gp" \notin fault' /\ (stale \subseteq stale')
          /\ pc'["recover"] = pc["recover"] /\ pc["gp"] = "resume"
      BY <1>1, <1>2, <1>4, <2>2
    <3>. QED  BY <1>1, <3>1 DEF LineInv, GpInv
  <2>. QED  BY <2>1, <2>2, Names
<1>. QED  BY <1>6, <1>9, <1>10, <1>11 DEF LineInv

-----------------------------------------------------------------------------
LEMMA StepLine == Inv /\ LineInv /\ [Next]_vars => LineInv'
<1>. SUFFICES ASSUME Inv, LineInv, [Next]_vars  PROVE LineInv'
  OBVIOUS
<1>1. CASE UNCHANGED vars
  <2>1. IrqInv' /\ PpInv' /\ GpInv'
    BY <1>1, LineKept DEF LineInv, vars, platformVars, initVars, mmuVars, jobVars, Gone
  <2>2. SetupInv'
    BY <1>1, SetupKept, Lines DEF LineInv, vars, platformVars, initVars, mmuVars, jobVars
  <2>. QED  BY <2>1, <2>2 DEF LineInv
<1>2. CASE Next
  BY <1>2, BridgeLine, ProbeLine, RemoveLine, CoreDoneLine, CoreStopsLine, OutOfHeapLine,
     RecoverLine, RecoverLostLine, FlushLine, RunLine, SwitchLine, TimedOutLine, ResumeLine,
     ReadsLine, ReturnsLine, MasksLine, ReportsLine
  DEF Next, Hw, Scheduler, Handler
<1>. QED  BY <1>1, <1>2

LEMMA LineInvariance == Spec => []LineInv
BY InitLine, StepLine, Invariance, PTL DEF Spec

\* lima_mmu_irq_handler follows pointers to the irqe, the lima_device and, once
\* it has read an interrupt, the pipe: whichever steps of the bring-up fail and
\* whatever commands time out, each is there for as long as it runs, and the
\* blocks have power, except where a late HARD_RESET has rearmed an MMU that a
\* bus error had masked or a timeout or teardown has overtaken recover_work.
THEOREM HandlersFindTheDriver == Spec => []HandlerFindsDriver
<1>1. Inv /\ LineInv => HandlerFindsDriver
  <2>. SUFFICES ASSUME Inv, LineInv, NEW m \in running
                PROVE  /\ {m, Memory} \subseteq {devres[n] : n \in DOMAIN devres}
                       /\ \/ status[m] = Zero
                          \/ drv # "off" /\ PipeOf(m) \in pipes
                          \/ PipeOf(m) \in stale
    BY DEF HandlerFindsDriver
  <2>1. m \in Mmu /\ PipeOf(m) \in Pipe /\ m \in tag
    BY Lines, Names
  <2>2. \E n \in DOMAIN devres : devres[n] = m
    BY <2>1 DEF Inv, BusInv
  <2>3. Memory \in {devres[n] : n \in DOMAIN devres}
    <3>1. devres \in Seq(0 .. NumLines) /\ devres # <<>>
      BY <2>2 DEF Inv, TypeOK, PlatformTypeOK
    <3>2. Len(devres) \in DOMAIN devres
      BY <3>1
    <3>. QED  BY <3>1, <3>2 DEF LineInv, SetupInv
  <2>4. status[m] # Zero /\ PipeOf(m) \notin stale => pc[PipeOf(m)] # "idle"
    BY <2>1 DEF LineInv, IrqInv, IrqOf, Waiting, Serving, Fresh
  <2>. QED  BY <2>1, <2>2, <2>3, <2>4, Busy
<1>. QED  BY <1>1, Invariance, LineInvariance, PTL

\* lima_mmu_irq_handler masks an MMU and lima_mmu_page_fault_resume rearms it:
\* a processor never works behind a masked MMU, however many commands time out,
\* unless a bus error has masked it.
THEOREM WorkersAreHeard == Spec => []DeafOnlyAfterBusError
<1>1. Inv /\ LineInv => DeafOnlyAfterBusError
  BY WorkerRuns DEF LineInv, IrqInv, IrqOf, DeafOnlyAfterBusError
<1>. QED  BY <1>1, Invariance, LineInvariance, PTL
=============================================================================
