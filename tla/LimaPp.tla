------------------------------- MODULE LimaPp -------------------------------
(***************************************************************************)
(* The pixel processors (lima_pp.c): several cores work on one task, each  *)
(* raises its own interrupt, and pipe->task counts the cores that are      *)
(* still to report.  Their MMUs report page faults by the same counter     *)
(* (lima_mmu.c).  On the Mali-450 one broadcast interrupt stands for all   *)
(* cores, and a mask of reported cores goes with the counter.              *)
(*                                                                         *)
(* The DRM scheduler is as in LimaSched, reduced to one task at a time and *)
(* a hang limit of 0: a task that is not completed by the cores is ended   *)
(* by the timeout handler.                                                 *)
(***************************************************************************)
EXTENDS Integers, FiniteSets

CONSTANTS
  NumCores,    \* pipe->num_processor
  NumTasks,    \* how many tasks are run
  Pipes,       \* the values pipe->bcast_processor # NULL may have
  SharedLine,  \* may another device's interrupt call the broadcast handler?
  TimerRaces,  \* may the timeout overlap a handler?
  StartRaces,  \* may the next task start while the broadcast handler loops?
  ResetFails   \* the values of bcast with which a core may leave a reset
               \* unanswered

ASSUME PpAssumption ==
  /\ NumCores \in Nat \ {0} /\ NumTasks \in Nat
  /\ Pipes \subseteq BOOLEAN /\ ResetFails \subseteq BOOLEAN
  /\ {SharedLine, TimerRaces, StartRaces} \subseteq BOOLEAN

Core == 1 .. NumCores
Task == 1 .. NumTasks

VARIABLES
  bcast,       \* pipe->bcast_processor is set (Mali-450)
  last,        \* number of the task that was started last
  current,     \* pipe->current_task, 0 for NULL
  phase,       \* what the scheduler does with the pipe
  width,       \* frame->num_pp of each task
  started,     \* cores lima_pp_task_run has started for the current task
  count,       \* pipe->task
  done,        \* pipe->done
  error,       \* pipe->error
  core,        \* what each core is doing; "loose" when a hard reset that it did
               \* not answer found it at work
  raised,      \* cores with a pending interrupt
  mmuRaised,   \* cores whose MMU has one
  unmasked,    \* cores whose interrupts are enabled
  asyncReset,  \* cores with ip->data.async_reset
  rawReset,    \* cores that report RESET_COMPLETED
  unanswered,  \* history: cores that did not answer their last reset
  handler,     \* where the PP interrupt handler of each core is
  mmuHandler,  \* where its MMU's is
  scan,        \* next core the broadcast handler looks at, 0 when not running
  scanTask,    \* the task whose frame it took
  result,      \* finished fence of each task
  rendered,    \* history: cores that finished their part of each task
  panic        \* lima_sched_pipe_task_done followed a NULL current_task

runVars  == <<last, current, phase, width, started>>
pipeVars == <<count, done, error>>
coreVars == <<core, raised, mmuRaised>>
maskVars == <<unmasked, asyncReset, rawReset, unanswered>>
irqVars  == <<handler, mmuHandler, scan, scanTask>>
jobVars  == <<result, rendered, panic>>
ppVars == <<runVars, pipeVars, coreVars, maskVars, irqVars, jobVars>>
vars == <<bcast, ppVars>>

TypeOK ==
  /\ bcast \in Pipes
  /\ last \in 0 .. NumTasks /\ current \in 0 .. NumTasks
  /\ phase \in {"idle", "starting", "running", "fault", "stopped", "reset"}
  /\ width \in [Task -> 0 .. NumCores]
  /\ started \in 0 .. NumCores
  /\ count \in Int /\ done \subseteq Core /\ error \in BOOLEAN
  /\ core \in [Core -> {"idle", "busy", "done", "failed", "faulted", "hung",
                       "loose"}]
  /\ raised \subseteq Core /\ mmuRaised \subseteq Core
  /\ unmasked \subseteq Core /\ asyncReset \subseteq Core
  /\ rawReset \subseteq Core /\ unanswered \subseteq Core
  /\ handler \in [Core -> {"none", "read", "readError", "handled"}]
  /\ mmuHandler \in [Core -> {"none", "masked"}]
  /\ scan \in 0 .. NumCores /\ scanTask \in 0 .. NumTasks
  /\ result \in [Task -> {"no", "ok", "error"}]
  /\ rendered \in [Task -> SUBSET Core]
  /\ panic \in BOOLEAN

\* lima_pp_hw_init has soft-reset every core and enabled its interrupts.
Init ==
  /\ bcast \in Pipes
  /\ last = 0 /\ current = 0 /\ phase = "idle" /\ started = 0
  /\ width = [t \in Task |-> 0]
  /\ count = 0 /\ done = {} /\ error = FALSE
  /\ core = [c \in Core |-> "idle"] /\ raised = {} /\ mmuRaised = {}
  /\ unmasked = Core /\ asyncReset = {} /\ rawReset = {}
  /\ unanswered = {}
  /\ handler = [c \in Core |-> "none"]
  /\ mmuHandler = [c \in Core |-> "none"]
  /\ scan = 0 /\ scanTask = 0
  /\ result = [t \in Task |-> "no"] /\ rendered = [t \in Task |-> {}]
  /\ panic = FALSE

\* The cores the current task uses.
Used == IF current = 0 THEN {} ELSE 1 .. width[current]

-----------------------------------------------------------------------------
(***************************************************************************)
(* lima_pp_task_run: the counter first, then each core.                    *)
(***************************************************************************)

\* atomic_set(&pipe->task, frame->num_pp), pipe->done = 0.
Count_OffByOne(n) == count' = n - 1 /\ done' = {}
Count_KeepsDone(n) == count' = n /\ UNCHANGED done
Count(n) == count' = n /\ done' = IF bcast THEN {} ELSE done

RunBegin(n) ==
  /\ phase = "idle" /\ last < NumTasks
  /\ StartRaces \/ scan = 0
  /\ last' = last + 1 /\ current' = last'
  /\ width' = [width EXCEPT ![last'] = n]
  /\ Count(n) /\ error' = FALSE
  /\ started' = 0
  /\ phase' = "starting"
  /\ UNCHANGED <<coreVars, maskVars, irqVars, jobVars>>

\* lima_pp_soft_reset_async_wait: a core that reports its reset gets its
\* interrupts back; a wait that fails is logged and changes nothing but the
\* flag.
AwaitReset_StaysMasked(S, flags) ==
  LET ready == S \cap asyncReset \cap rawReset
  IN /\ unmasked' = unmasked
     /\ rawReset' = rawReset \ ready
     /\ unanswered' = unanswered \ ready
     /\ asyncReset' = asyncReset \ flags
AwaitReset(S, flags) ==
  LET ready == S \cap asyncReset \cap rawReset
  IN /\ unmasked' = unmasked \cup ready
     /\ rawReset' = rawReset \ ready
     /\ unanswered' = unanswered \ ready
     /\ asyncReset' = asyncReset \ flags

Start(S) ==
  /\ core' = [c \in Core |-> IF c \in S THEN "busy" ELSE core[c]]
  /\ raised' = raised \ S

\* The loop over frame->num_pp ends with core n.
LastCore_OneMore(n) == n > width[current]
LastCore(n) == n = width[current]

\* Mali-400: one core after the other.
RunCore ==
  /\ phase = "starting" /\ ~bcast
  /\ AwaitReset({started + 1}, {started + 1})
  /\ Start({started + 1})
  /\ started' = started + 1
  /\ phase' = IF LastCore(started') THEN "running" ELSE "starting"
  /\ UNCHANGED <<last, current, width, pipeVars, mmuRaised, irqVars, jobVars>>

\* Mali-450: the broadcast unit starts all of them, and has one reset flag.
RunAll ==
  /\ phase = "starting" /\ bcast
  /\ AwaitReset(Used, Core)
  /\ Start(Used)
  /\ started' = width[current]
  /\ phase' = "running"
  /\ UNCHANGED <<last, current, width, pipeVars, mmuRaised, irqVars, jobVars>>

-----------------------------------------------------------------------------
(***************************************************************************)
(* The hardware: a busy core finishes, fails, faults in its MMU or hangs.  *)
(***************************************************************************)
HwCore(c, outcome) ==
  /\ core[c] = "busy"
  /\ core' = [core EXCEPT ![c] = outcome]
  /\ raised' = IF outcome \in {"done", "failed"} THEN raised \cup {c}
                                                 ELSE raised
  /\ mmuRaised' = IF outcome = "faulted" THEN mmuRaised \cup {c}
                                         ELSE mmuRaised
  /\ rendered' = IF outcome = "done"
                   THEN [rendered EXCEPT ![last] = @ \cup {c}]
                   ELSE rendered
  /\ UNCHANGED <<runVars, pipeVars, maskVars, irqVars, result, panic>>

-----------------------------------------------------------------------------
(***************************************************************************)
(* The interrupt handlers.  Each core and each MMU has a line of its own,  *)
(* so they run in parallel.                                                *)
(***************************************************************************)

\* The cores that a reset of all of them may find deaf.
Deaf == IF bcast \in ResetFails THEN SUBSET Core ELSE {{}}

\* lima_pp_task_fini: the cores without a reset under way start one, with
\* their interrupts masked.
SoftReset ==
  \E deaf \in Deaf :
    LET fresh == Core \ asyncReset
    IN /\ asyncReset' = Core
       /\ unmasked' = unmasked \ fresh
       /\ rawReset' = rawReset \cup (fresh \ deaf)
       /\ unanswered' = (unanswered \ fresh) \cup (fresh \cap deaf)
       /\ core' = [c \in Core |->
                    IF c \notin fresh \/ (core[c] = "loose" /\ c \in deaf)
                      THEN core[c] ELSE "idle"]
       /\ raised' = raised \ fresh

\* lima_sched_pipe_task_done, for a task that is never recoverable.
TaskDone ==
  IF error
    THEN /\ phase' = IF phase = "running" THEN "fault" ELSE phase
         /\ UNCHANGED <<result, panic, maskVars, core, raised>>
    ELSE /\ SoftReset
         /\ IF current = 0
              THEN panic' = TRUE /\ UNCHANGED <<phase, result>>
              ELSE /\ UNCHANGED panic
                   /\ phase' = IF phase = "running" THEN "idle" ELSE phase
                   /\ result' = IF phase \in {"starting", "running"}
                                  THEN [result EXCEPT ![current] = "ok"]
                                  ELSE result

\* atomic_dec_and_test(&pipe->task)
ReportCore ==
  /\ count' = count - 1
  /\ IF count' = 0 THEN TaskDone
     ELSE UNCHANGED <<phase, result, panic, maskVars, core, raised>>

\* lima_pp_irq_handler: read the state; lima_pp_handle_irq; count.
IrqRead(c) ==
  /\ ~bcast /\ c \in raised \cap unmasked /\ handler[c] = "none"
  /\ handler' = [handler EXCEPT ![c] =
                   IF core[c] = "failed" THEN "readError" ELSE "read"]
  /\ UNCHANGED <<runVars, pipeVars, coreVars, maskVars, mmuHandler, scan,
                 scanTask, jobVars>>

\* lima_pp_handle_irq: an error sets pipe->error and masks the core.
HandleIrq_NoError(c, failed) ==
  /\ UNCHANGED error
  /\ unmasked' = IF failed THEN unmasked \ {c} ELSE unmasked
  /\ raised' = raised \ {c}
HandleIrq(c, failed) ==
  /\ error' = (error \/ failed)
  /\ unmasked' = IF failed THEN unmasked \ {c} ELSE unmasked
  /\ raised' = raised \ {c}

IrqHandle(c) ==
  /\ handler[c] \in {"read", "readError"}
  /\ HandleIrq(c, handler[c] = "readError")
  /\ handler' = [handler EXCEPT ![c] = "handled"]
  /\ UNCHANGED <<runVars, count, done, core, mmuRaised, asyncReset, rawReset,
                 unanswered, mmuHandler, scan, scanTask, jobVars>>

IrqCount(c) ==
  /\ handler[c] = "handled"
  /\ handler' = [handler EXCEPT ![c] = "none"]
  /\ ReportCore
  /\ UNCHANGED <<last, current, width, started, done, error, mmuRaised,
                 mmuHandler, scan, scanTask, rendered>>

\* lima_mmu_irq_handler and lima_sched_pipe_mmu_error up to task_mmu_error.
MmuIrq(c) ==
  /\ c \in mmuRaised /\ mmuHandler[c] = "none"
  /\ mmuRaised' = mmuRaised \ {c}
  /\ error' = TRUE
  /\ mmuHandler' = [mmuHandler EXCEPT ![c] = "masked"]
  /\ UNCHANGED <<runVars, count, done, core, raised, maskVars, handler, scan,
                 scanTask, jobVars>>

\* lima_pp_task_mmu_error
MmuCount(c) ==
  /\ mmuHandler[c] = "masked"
  /\ mmuHandler' = [mmuHandler EXCEPT ![c] = "none"]
  /\ ReportCore
  /\ UNCHANGED <<last, current, width, started, done, error, mmuRaised,
                 handler, scan, scanTask, rendered>>

\* lima_pp_bcast_irq_handler walks over the cores that have not reported.
BcastEnter ==
  /\ bcast /\ scan = 0 /\ current # 0
  /\ raised \cap unmasked # {} \/ SharedLine
  /\ scan' = 1 /\ scanTask' = current
  /\ UNCHANGED <<runVars, pipeVars, coreVars, maskVars, handler, mmuHandler,
                 jobVars>>

\* LIMA_PP_STATUS_RENDERING_ACTIVE
Rendering_Ignored(c) == FALSE
Rendering(c) == core[c] \in {"busy", "hung", "faulted", "loose"}

BcastNext ==
  /\ scan' = IF scan = width[scanTask] THEN 0 ELSE scan + 1
  /\ UNCHANGED scanTask

\* Reported already, or still rendering: next core.
BcastSkip ==
  /\ scan # 0
  /\ \/ scan \in done
     \/ scan \notin raised \cap unmasked /\ Rendering(scan)
  /\ BcastNext
  /\ UNCHANGED <<runVars, pipeVars, coreVars, maskVars, handler, mmuHandler,
                 jobVars>>

\* An interrupt, or a core that renders no more: it has reported.  The two
\* counters are read by this handler alone, so the core is one step.
BcastReport ==
  /\ scan # 0 /\ scan \notin done
  /\ scan \in raised \cap unmasked \/ ~Rendering(scan)
  /\ LET failed == scan \in raised \cap unmasked /\ core[scan] = "failed"
     IN /\ error' = (error \/ failed)
        /\ done' = done \cup {scan}
        /\ count' = count - 1
        /\ IF count' = 0 /\ ~error'
             THEN TaskDone
             ELSE /\ phase' = IF count' = 0 /\ phase = "running" THEN "fault"
                                                               ELSE phase
                  /\ unmasked' = IF failed THEN unmasked \ {scan} ELSE unmasked
                  /\ raised' = IF scan \in unmasked THEN raised \ {scan}
                                                    ELSE raised
                  /\ UNCHANGED <<result, panic, asyncReset, rawReset, unanswered,
                                 core>>
  /\ BcastNext
  /\ UNCHANGED <<last, current, width, started, mmuRaised, handler, mmuHandler,
                 rendered>>

-----------------------------------------------------------------------------
(***************************************************************************)
(* lima_sched_timedout_job with lima_pp_task_error.                        *)
(***************************************************************************)
Quiet ==
  /\ raised \cap unmasked = {} /\ mmuRaised = {} /\ scan = 0
  /\ \A c \in Core : core[c] # "busy" /\ handler[c] = "none"
                     /\ mmuHandler[c] = "none"

\* The 500 ms of lima_sched_pipe_init.
TimerExpired_Never == FALSE
TimerExpired == phase = "running" /\ (TimerRaces \/ Quiet)

TdrFire ==
  /\ phase = "fault" \/ TimerExpired
  /\ phase' = "stopped"
  /\ UNCHANGED <<last, current, width, started, pipeVars, coreVars, maskVars,
                 irqVars, jobVars>>

\* lima_pp_hard_reset on every core, and lima_mmu_page_fault_resume.  A core
\* that does not answer within 100 us is left with its interrupts masked, and
\* lima_pp_task_error goes on to the next.
HardReset ==
  \E deaf \in Deaf :
    /\ core' = [c \in Core |->
                 IF c \in deaf /\ Rendering(c) THEN "loose" ELSE "idle"]
    /\ raised' = {} /\ mmuRaised' = {}
    /\ unmasked' = Core \ deaf /\ rawReset' = rawReset \cap deaf
    /\ unanswered' = deaf

TdrReset ==
  /\ phase = "stopped"
  /\ HardReset
  /\ phase' = "reset"
  /\ UNCHANGED <<last, current, width, started, pipeVars, asyncReset, irqVars,
                 jobVars>>

\* current_task is cleared; the task is past the hang limit, and its finished
\* fence is signalled with an error.
TdrEnd ==
  /\ phase = "reset"
  /\ current' = 0 /\ phase' = "idle"
  /\ result' = [result EXCEPT ![current] = IF @ = "no" THEN "error" ELSE @]
  /\ UNCHANGED <<last, width, started, pipeVars, coreVars, maskVars, irqVars,
                 rendered, panic>>

-----------------------------------------------------------------------------
Run     == (\E n \in Core : RunBegin(n)) \/ RunCore \/ RunAll
Hw      == \E c \in Core, o \in {"done", "failed", "faulted", "hung"} :
             HwCore(c, o)
Irq(c)  == IrqRead(c) \/ IrqHandle(c) \/ IrqCount(c)
Mmu(c)  == MmuIrq(c) \/ MmuCount(c)
BcastHandler == BcastEnter \/ BcastSkip \/ BcastReport
Tdr     == TdrFire \/ TdrReset \/ TdrEnd

Next ==
  /\ ~panic
  /\ Run \/ Hw \/ (\E c \in Core : Irq(c) \/ Mmu(c)) \/ BcastHandler \/ Tdr
  /\ UNCHANGED bcast

Spec == Init /\ [][Next]_vars

\* The scheduler, the interrupt threads and the timeout work keep running, and
\* a core does something in the end.
FairSpec ==
  /\ Spec
  /\ WF_ppVars(~panic /\ (RunCore \/ RunAll)) /\ WF_ppVars(~panic /\ Hw)
  /\ WF_ppVars(~panic /\ Tdr)
  /\ \A c \in Core : WF_ppVars(~panic /\ Irq(c)) /\ WF_ppVars(~panic /\ Mmu(c))
  /\ WF_ppVars(~panic /\ BcastHandler)

-----------------------------------------------------------------------------
(***************************************************************************)
(* Properties.                                                             *)
(***************************************************************************)

\* A used core that has not reported: not started, at work, or with its
\* interrupt on the way.
Unreported(c) ==
  \/ c > started \/ core[c] \in {"busy", "hung"}
  \/ c \in mmuRaised \/ mmuHandler[c] # "none"
  \/ IF bcast THEN c \notin done /\ core[c] # "faulted"
              ELSE c \in raised \/ handler[c] # "none"

\* While a task runs, pipe->task is the number of its cores that have not
\* reported: no report is lost and none is counted twice.
CountExact ==
  phase \in {"starting", "running"} =>
    count = Cardinality({c \in Used : Unreported(c)})

\* A task is reported complete only if every core it uses finished its part:
\* lima_pp_irq_handler signals when all cores are done, and an error of any of
\* them sticks.
DoneMeansRendered ==
  \A t \in Task : result[t] = "ok" => rendered[t] = 1 .. width[t]

\* A core that works has its interrupts enabled, whatever soft resets, errors
\* and hard resets came before, unless it did not answer the last of these
\* resets: else its report would never come, and the task would time out.
BusyIsUnmasked ==
  \A c \in Core : core[c] = "busy" => c \in unmasked \cup unanswered

\* Every task that was started gets a result, whatever its cores do.
EveryTaskEnds == \A t \in Task : last >= t ~> result[t] # "no"

=============================================================================
