---------------------------- MODULE LimaPpProofs ----------------------------
(***************************************************************************)
(* Theorems about the pixel processors, for every number of cores and      *)
(* tasks, of the Mali-400 and the Mali-450: no report of a core is lost or *)
(* counted twice.  They assume what the runs of LimaPp assume, that the    *)
(* timer does not overlap a handler and that no task starts under the      *)
(* broadcast handler, and that the cores of a Mali-450 answer their resets;*)
(* without it the invariant is false.  Those of a Mali-400 need not.       *)
(***************************************************************************)
EXTENDS LimaPp, FiniteSetTheorems, TLAPS

NoRaces == /\ ~TimerRaces /\ ~StartRaces /\ ~SharedLine
           /\ ResetFails \subseteq {FALSE}

Active  == phase \in {"starting", "running"}
Working == phase \in {"starting", "running", "fault", "stopped"}

\* The task that is at work is the last one, and all its cores are started
\* when the pipe runs.
RunInv ==
  /\ current \in {0, last}
  /\ Working \/ phase = "reset" => current = last /\ last > 0
  /\ \A t \in Task : t <= last => width[t] > 0
  /\ phase = "starting" => started < width[last] /\ (bcast => started = 0)
  /\ phase # "starting" /\ last > 0 => started = width[last]
  /\ last = 0 => started = 0
  /\ scan # 0 => bcast /\ phase # "starting" /\ scanTask = last /\ last > 0
                 /\ scan <= width[last]

\* Not working on the current task.
AtRest == {"idle", "loose"}

\* What is known of one core.  It is at rest but for a run of its pipe; what is
\* raised has not been handled; it is masked for a reset, or for an error.
CoreInv(c) ==
  /\ core[c] \notin AtRest => Working /\ c <= started
  /\ core[c] = "loose" => c \in unanswered
  /\ c \in unanswered => ~bcast
  /\ Active \/ phase = "fault" => (c <= started => core[c] \notin AtRest)
  /\ c \in raised => /\ core[c] \in {"done", "failed"}
                     /\ c \in unmasked \cup unanswered
                     /\ handler[c] # "handled" /\ (bcast => c \notin done)
  /\ handler[c] = "read" => c \in raised /\ core[c] = "done"
  /\ handler[c] = "readError" => c \in raised /\ core[c] = "failed"
  /\ handler[c] = "handled" => core[c] \in {"done", "failed"}
  /\ bcast => handler[c] = "none"
  /\ c \in mmuRaised => core[c] = "faulted" /\ mmuHandler[c] = "none"
  /\ mmuHandler[c] = "masked" => core[c] = "faulted"
  /\ core[c] = "busy" => c \in unmasked \cup unanswered
  /\ c \in asyncReset => core[c] \in AtRest
  /\ c \notin unmasked => \/ c \in asyncReset \cap rawReset \/ core[c] = "failed"
                          \/ c \in unanswered
                          \/ bcast /\ Working /\ c > width[last] /\ c \notin asyncReset
  /\ core[c] = "failed" /\ c \notin raised => error
  /\ core[c] = "faulted" /\ c \notin mmuRaised => error
  /\ core[c] = "done" => c \in rendered[last]
  /\ bcast /\ Active =>
       /\ core[c] \in {"done", "failed"} /\ c \notin done => c \in raised
       /\ c \in done => core[c] \in {"done", "failed"}
  /\ phase \in {"fault", "stopped"} =>
       /\ c \notin raised \cap unmasked /\ c \notin mmuRaised /\ core[c] # "busy"
       /\ handler[c] = "none" /\ mmuHandler[c] = "none"

\* Once the count is through, a broadcast handler that is still at work takes
\* it further down, and ends nothing.
CountInv ==
  /\ CountExact
  /\ phase = "fault" \/ (scan # 0 /\ ~Active) => count <= 0

RenderInv ==
  /\ DoneMeansRendered
  /\ \A t \in Task : rendered[t] \subseteq 1 .. width[t]
  /\ \A t \in Task : t > last => result[t] = "no" /\ rendered[t] = {}

CoresInv == \A c \in Core : CoreInv(c)
Inv == TypeOK /\ RunInv /\ CoresInv /\ CountInv /\ RenderInv

-----------------------------------------------------------------------------
(***************************************************************************)
(* The cores that pipe->task counts.                                       *)
(***************************************************************************)
Waiting == {c \in Used : Unreported(c)}

LEMMA WaitingFinite ==
  ASSUME TypeOK
  PROVE  Waiting \subseteq Core /\ IsFiniteSet(Waiting) /\ Cardinality(Waiting) \in Nat
<1>1. IsFiniteSet(Core) /\ NumCores \in Nat
  BY PpAssumption, FS_Interval DEF PpAssumption, Core
<1>2. Used \subseteq Core
  BY <1>1 DEF Used, TypeOK, Core, Task
<1>3. Waiting \subseteq Core
  BY <1>2 DEF Waiting
<1>. QED  BY <1>1, <1>3, FS_Subset, FS_CardinalityType

LEMMA CountIs == CountExact <=> (Active => count = Cardinality(Waiting))
BY DEF CountExact, Active, Waiting

\* A step that is not the report of a core.
LEMMA SameCount ==
  ASSUME CountInv, count' = count, Waiting' = Waiting, Active' => Active,
         phase' = "fault" => phase = "fault", scan' # 0 /\ ~Active' => scan # 0 /\ ~Active
  PROVE  CountInv'
<1>1. (Active => count = Cardinality(Waiting))'
  BY CountIs DEF CountInv
<1>2. CountExact'
  BY <1>1 DEF CountExact, Active, Waiting
<1>. QED  BY <1>2 DEF CountInv

\* One that is.
LEMMA OneLess ==
  ASSUME TypeOK, NEW c \in Waiting, Waiting' = Waiting \ {c}
  PROVE  Cardinality(Waiting') = Cardinality(Waiting) - 1
BY WaitingFinite, FS_RemoveElement

LEMMA InitInv == Init => Inv
<1>. SUFFICES ASSUME Init PROVE Inv
  OBVIOUS
<1>0. NumCores \in Nat /\ NumTasks \in Nat
  BY PpAssumption DEF PpAssumption
<1>1. TypeOK
  <2>1. 0 \in 0 .. NumTasks /\ 0 \in 0 .. NumCores
    BY <1>0
  <2>2. /\ width \in [Task -> 0 .. NumCores] /\ result \in [Task -> {"no", "ok", "error"}]
        /\ rendered \in [Task -> SUBSET Core]
    BY <2>1 DEF Init
  <2>3. /\ core \in [Core -> {"idle", "busy", "done", "failed", "faulted", "hung", "loose"}]
        /\ handler \in [Core -> {"none", "read", "readError", "handled"}]
        /\ mmuHandler \in [Core -> {"none", "masked"}]
    BY DEF Init
  <2>4. /\ bcast \in Pipes /\ last \in 0 .. NumTasks /\ current \in 0 .. NumTasks
        /\ started \in 0 .. NumCores /\ count \in Int /\ done \subseteq Core
        /\ error = FALSE /\ panic = FALSE /\ phase = "idle"
        /\ raised \subseteq Core /\ mmuRaised \subseteq Core /\ unmasked \subseteq Core
        /\ asyncReset \subseteq Core /\ rawReset \subseteq Core /\ unanswered \subseteq Core
        /\ scan \in 0 .. NumCores /\ scanTask \in 0 .. NumTasks
    BY <2>1 DEF Init
  <2>. QED  BY <2>2, <2>3, <2>4 DEF TypeOK
<1>2. RunInv
  BY <1>0 DEF Init, RunInv, Working, Task
<1>3. CoresInv
  <2>. SUFFICES ASSUME NEW c \in Core PROVE CoreInv(c)
    BY DEF CoresInv
  <2>1. ~(c <= started)
    BY <1>0 DEF Init, Core
  <2>. QED  BY <2>1 DEF Init, CoreInv, AtRest, Working, Active
<1>4. CountInv /\ RenderInv
  BY <1>0 DEF Init, CountInv, CountExact, RenderInv, DoneMeansRendered, Task
<1>. QED  BY <1>1, <1>2, <1>3, <1>4 DEF Inv

-----------------------------------------------------------------------------
(***************************************************************************)
(* lima_pp_task_run.                                                       *)
(***************************************************************************)
LEMMA RunBeginInv ==
  ASSUME Inv, NoRaces, UNCHANGED bcast, NEW n \in Core, RunBegin(n)
  PROVE  Inv'
<1>. USE DEF coreVars, maskVars, irqVars, jobVars
<1>0. NumCores \in Nat /\ NumTasks \in Nat /\ n \in 1 .. NumCores
  BY PpAssumption DEF PpAssumption, Core
<1>1. /\ phase = "idle" /\ phase' = "starting" /\ scan = 0
      /\ last' = last + 1 /\ current' = last + 1 /\ last + 1 \in Task
      /\ last \in Nat
      /\ width' = [width EXCEPT ![last + 1] = n] /\ width'[last + 1] = n
      /\ count' = n /\ done' \subseteq Core /\ (bcast => done' = {})
      /\ error' = FALSE /\ started' = 0
      /\ UNCHANGED <<coreVars, maskVars, irqVars, jobVars>>
  <2>1. last \in 0 .. NumTasks /\ last < NumTasks /\ width \in [Task -> 0 .. NumCores]
    BY DEF RunBegin, Inv, TypeOK
  <2>2. last \in Nat /\ last + 1 \in Task
    BY <1>0, <2>1 DEF Task
  <2>3. done' \subseteq Core /\ (bcast => done' = {})
    BY DEF RunBegin, Count, Inv, TypeOK
  <2>. QED  BY <2>1, <2>2, <2>3 DEF RunBegin, NoRaces, Count
<1>2. TypeOK'
  <2>1. last' \in 0 .. NumTasks /\ n \in 0 .. NumCores
    BY <1>0, <1>1 DEF Task
  <2>2. width' \in [Task -> 0 .. NumCores] /\ 0 \in 0 .. NumCores /\ n \in Int
    BY <1>0, <1>1, <2>1 DEF Inv, TypeOK
  <2>. QED  BY <1>1, <2>1, <2>2 DEF Inv, TypeOK
<1>3. RunInv'
  BY <1>0, <1>1 DEF Inv, RunInv, TypeOK, Working, Task
<1>4. CoresInv'
  <2>. SUFFICES ASSUME NEW c \in Core PROVE CoreInv(c)'
    BY DEF CoresInv
  <2>1. core[c] \in AtRest /\ ~(c <= started')
    BY <1>0, <1>1 DEF Inv, CoresInv, CoreInv, AtRest, Working, Core
  <2>2. handler[c] = "none" /\ mmuHandler[c] = "none" /\ c \notin raised /\ c \notin mmuRaised
    BY <2>1 DEF Inv, CoresInv, CoreInv, AtRest, TypeOK
  <2>3. c \notin unmasked => c \in asyncReset \cap rawReset \/ c \in unanswered
    BY <1>1, <2>1 DEF Inv, CoresInv, CoreInv, AtRest, Working
  <2>4. CoreInv(c)
    BY DEF Inv, CoresInv
  <2>. QED  BY <1>1, <2>1, <2>2, <2>3, <2>4 DEF CoreInv, AtRest, Working, Active
<1>5. CountInv'
  <2>1. Waiting' = 1 .. n
    BY <1>0, <1>1 DEF Waiting, Used, Unreported
  <2>2. Cardinality(1 .. n) = n
    BY <1>0, FS_Interval
  <2>3. CountExact'
    BY <1>1, <2>1, <2>2 DEF CountExact, Waiting
  <2>. QED  BY <1>1, <2>3 DEF CountInv
<1>6. RenderInv'
  <2>1. result' = result /\ rendered' = rendered
    BY <1>1
  <2>2. ASSUME NEW t \in Task, t = last + 1 PROVE result[t] = "no"
    <3>1. t > last
      BY <1>1, <2>2
    <3>. QED  BY <3>1 DEF Inv, RenderInv
  <2>3. width \in [Task -> 0 .. NumCores]
    BY DEF Inv, TypeOK
  <2>4. ASSUME NEW t \in Task, t # last + 1
        PROVE  /\ result[t] = "ok" => rendered[t] = 1 .. width'[t]
               /\ rendered[t] \subseteq 1 .. width'[t]
    BY <1>1, <2>3, <2>4 DEF Inv, RenderInv, DoneMeansRendered
  <2>5. rendered[last + 1] \subseteq 1 .. width'[last + 1]
    <3>1. last + 1 > last
      BY <1>1
    <3>. QED  BY <1>1, <3>1 DEF Inv, RenderInv
  <2>6. \A t \in Task : t > last' => result[t] = "no" /\ rendered[t] = {}
    BY <1>1 DEF Inv, RenderInv, Task
  <2>. QED  BY <2>1, <2>2, <2>4, <2>5, <2>6 DEF RenderInv, DoneMeansRendered
<1>. QED  BY <1>2, <1>3, <1>4, <1>5, <1>6 DEF Inv

LEMMA RunCoreInv ==
  ASSUME Inv, UNCHANGED bcast, RunCore
  PROVE  Inv'
<1>. USE DEF coreVars, maskVars, irqVars, jobVars, pipeVars
<1>. DEFINE c == started + 1
<1>0. NumCores \in Nat /\ NumTasks \in Nat /\ started \in Nat
  BY PpAssumption DEF PpAssumption, Inv, TypeOK
<1>1. /\ phase = "starting" /\ ~bcast
      /\ LET ready == {c} \cap asyncReset \cap rawReset IN
           /\ unmasked' = unmasked \cup ready /\ rawReset' = rawReset \ ready
           /\ unanswered' = unanswered \ ready
           /\ asyncReset' = asyncReset \ {c}
      /\ core' = [d \in Core |-> IF d \in {c} THEN "busy" ELSE core[d]]
      /\ raised' = raised \ {c}
      /\ started' = c
      /\ phase' = IF c = width[current] THEN "running" ELSE "starting"
      /\ UNCHANGED <<last, current, width, pipeVars, mmuRaised, irqVars, jobVars>>
  BY DEF RunCore, AwaitReset, Start, LastCore
<1>2. /\ current = last /\ last \in Task /\ width[last] \in 0 .. NumCores
      /\ started < width[last] /\ c \in Core /\ c <= width[last]
  BY <1>0, <1>1 DEF Inv, TypeOK, RunInv, Working, Task, Core
<1>3. TypeOK'
  BY <1>0, <1>1, <1>2 DEF Inv, TypeOK, Core
<1>4. RunInv'
  BY <1>0, <1>1, <1>2 DEF Inv, RunInv, Working, TypeOK
<1>5. ASSUME NEW d \in Core PROVE CoreInv(d)'
  <2>1. d \in Int /\ CoreInv(d)
    BY DEF Core, Inv, CoresInv
  <2>2. CASE d = c
    <3>1. core[d] \in AtRest /\ core'[d] = "busy" /\ d \notin raised'
      BY <1>0, <1>1, <2>1, <2>2 DEF CoreInv, AtRest
    <3>2. d \in unmasked' \cup unanswered' /\ d \notin asyncReset'
      BY <1>1, <2>1, <2>2, <3>1 DEF CoreInv, AtRest
    <3>3. handler[d] = "none" /\ mmuHandler[d] = "none" /\ d \notin mmuRaised
      BY <2>1, <3>1 DEF CoreInv, AtRest, Inv, TypeOK
    <3>. QED  BY <1>0, <1>1, <2>2, <3>1, <3>2, <3>3 DEF CoreInv, AtRest, Working, Active
  <2>3. CASE d # c
    <3>1. /\ core'[d] = core[d] /\ (d \in raised' <=> d \in raised)
          /\ (d \in unmasked' <=> d \in unmasked) /\ (d \in asyncReset' <=> d \in asyncReset)
          /\ (d \in rawReset' <=> d \in rawReset) /\ (d \in unanswered' <=> d \in unanswered)
          /\ (d <= started' <=> d <= started)
      BY <1>0, <1>1, <2>1, <2>3
    <3>. QED  BY <1>1, <2>1, <3>1 DEF CoreInv, AtRest, Working, Active
  <2>. QED  BY <2>2, <2>3
<1>6. CountInv'
  <2>1. Waiting' = Waiting
    <3>. SUFFICES ASSUME NEW d \in 1 .. width[last] PROVE Unreported(d)' <=> Unreported(d)
      BY <1>1, <1>2 DEF Waiting, Used, Task
    <3>1. d \in Core /\ d \in Int
      BY <1>0, <1>2 DEF Core
    <3>2. CASE d = c
      BY <1>0, <1>1, <3>1, <3>2 DEF Unreported
    <3>3. CASE d # c
      <4>1. (d > started' <=> d > started) /\ core'[d] = core[d] /\ (d \in raised' <=> d \in raised)
        BY <1>0, <1>1, <3>1, <3>3
      <4>. QED  BY <1>1, <4>1 DEF Unreported
    <3>. QED  BY <3>2, <3>3
  <2>. QED  BY <1>1, <2>1, SameCount DEF Inv, Active
<1>7. RenderInv'
  BY <1>1 DEF Inv, RenderInv, DoneMeansRendered
<1>. QED  BY <1>3, <1>4, <1>5, <1>6, <1>7 DEF Inv, CoresInv

LEMMA RunAllInv ==
  ASSUME Inv, UNCHANGED bcast, RunAll
  PROVE  Inv'
<1>. USE DEF coreVars, maskVars, irqVars, jobVars, pipeVars
<1>0. NumCores \in Nat /\ NumTasks \in Nat /\ started \in Nat
  BY PpAssumption DEF PpAssumption, Inv, TypeOK
<1>1. /\ phase = "starting" /\ bcast /\ scan = 0 /\ started = 0
      /\ current = last /\ last \in Task /\ width[last] \in 0 .. NumCores
      /\ Used = 1 .. width[last] /\ Used \subseteq Core
  BY <1>0 DEF RunAll, Inv, TypeOK, RunInv, Working, Task, Core, Used
<1>2. /\ LET ready == Used \cap asyncReset \cap rawReset IN
           /\ unmasked' = unmasked \cup ready /\ rawReset' = rawReset \ ready
           /\ unanswered' = unanswered \ ready
           /\ asyncReset' = asyncReset \ Core
      /\ core' = [d \in Core |-> IF d \in Used THEN "busy" ELSE core[d]]
      /\ raised' = raised \ Used
      /\ started' = width[last] /\ phase' = "running"
      /\ UNCHANGED <<last, current, width, pipeVars, mmuRaised, irqVars, jobVars>>
  BY <1>1 DEF RunAll, AwaitReset, Start
<1>3. TypeOK'
  BY <1>0, <1>1, <1>2 DEF Inv, TypeOK, Core
<1>4. RunInv'
  BY <1>0, <1>1, <1>2 DEF Inv, RunInv, Working, TypeOK
<1>5. ASSUME NEW d \in Core
      PROVE  /\ core[d] \in AtRest /\ handler[d] = "none" /\ mmuHandler[d] = "none"
             /\ d \notin raised /\ d \notin mmuRaised /\ d \notin done
  <2>1. core[d] \in AtRest
    BY <1>1 DEF Inv, CoresInv, CoreInv, AtRest, Core
  <2>. QED  BY <1>1, <2>1 DEF Inv, CoresInv, CoreInv, AtRest, TypeOK, Active
<1>6. ASSUME NEW d \in Core PROVE CoreInv(d)'
  <2>1. d \in Int /\ d > 0 /\ CoreInv(d)
    BY DEF Core, Inv, CoresInv
  <2>2. d \in Used <=> d <= width[last]
    BY <1>1, <2>1
  <2>3. CASE d \in Used
    <3>1. core'[d] = "busy" /\ d \in unmasked'
      BY <1>1, <1>2, <1>5, <2>1, <2>2, <2>3 DEF CoreInv, AtRest
    <3>. QED  BY <1>1, <1>2, <1>5, <2>1, <2>2, <2>3, <3>1 DEF CoreInv, AtRest, Working, Active
  <2>4. CASE d \notin Used
    BY <1>1, <1>2, <1>5, <2>1, <2>2, <2>4 DEF CoreInv, AtRest, Working, Active
  <2>. QED  BY <2>3, <2>4
<1>7. CountInv'
  <2>1. Waiting' = Used /\ Waiting = Used
    BY <1>1, <1>2 DEF Waiting, Used, Unreported, Task
  <2>. QED  BY <1>1, <1>2, <2>1, SameCount DEF Inv, Active
<1>8. RenderInv'
  BY <1>2 DEF Inv, RenderInv, DoneMeansRendered
<1>. QED  BY <1>3, <1>4, <1>6, <1>7, <1>8 DEF Inv, CoresInv

-----------------------------------------------------------------------------
(***************************************************************************)
(* The hardware.                                                           *)
(***************************************************************************)
LEMMA HwInv ==
  ASSUME Inv, UNCHANGED bcast, NEW c \in Core,
         NEW o \in {"done", "failed", "faulted", "hung"}, HwCore(c, o)
  PROVE  Inv'
<1>. USE DEF runVars, pipeVars, maskVars, irqVars
<1>0. NumCores \in Nat /\ NumTasks \in Nat /\ c \in Int /\ c > 0
  BY PpAssumption DEF PpAssumption, Core
<1>1. /\ core[c] = "busy" /\ core' = [core EXCEPT ![c] = o]
      /\ raised' = IF o \in {"done", "failed"} THEN raised \cup {c} ELSE raised
      /\ mmuRaised' = IF o = "faulted" THEN mmuRaised \cup {c} ELSE mmuRaised
      /\ rendered' = IF o = "done" THEN [rendered EXCEPT ![last] = @ \cup {c}] ELSE rendered
      /\ UNCHANGED <<runVars, pipeVars, maskVars, irqVars, result, panic>>
  BY DEF HwCore
<1>2. /\ Active /\ c <= started /\ c \in unmasked \cup unanswered /\ c \notin asyncReset
      /\ c \notin raised /\ c \notin mmuRaised
      /\ handler[c] = "none" /\ mmuHandler[c] = "none" /\ (bcast => c \notin done)
  BY <1>1 DEF Inv, CoresInv, CoreInv, AtRest, TypeOK, Working, Active
<1>3. current = last /\ last \in Task /\ c \in 1 .. width[last] /\ started <= width[last]
  BY <1>0, <1>2 DEF Inv, RunInv, TypeOK, Active, Working, Task
<1>4. TypeOK'
  <2>1. core' \in [Core -> {"idle", "busy", "done", "failed", "faulted", "hung", "loose"}]
    BY <1>1 DEF Inv, TypeOK
  <2>2. rendered' \in [Task -> SUBSET Core] /\ raised' \subseteq Core /\ mmuRaised' \subseteq Core
    BY <1>1 DEF Inv, TypeOK
  <2>. QED  BY <1>1, <2>1, <2>2 DEF Inv, TypeOK
<1>5. RunInv'
  BY <1>1 DEF Inv, RunInv, Working
<1>6. c \in rendered'[last] \/ o # "done"
  BY <1>1, <1>3 DEF Inv, TypeOK
<1>7. ASSUME NEW d \in Core PROVE CoreInv(d)'
  <2>1. CoreInv(d)
    BY DEF Inv, CoresInv
  <2>2. CASE d = c
    <3>1. core'[d] = o
      BY <1>1, <2>2 DEF Inv, TypeOK
    <3>. QED  BY <1>1, <1>2, <1>6, <2>1, <2>2, <3>1 DEF CoreInv, AtRest, Working, Active
  <2>3. CASE d # c
    <3>1. core'[d] = core[d] /\ (d \in raised' <=> d \in raised)
          /\ (d \in mmuRaised' <=> d \in mmuRaised)
      BY <1>1, <2>3 DEF Inv, TypeOK
    <3>2. d \in rendered[last] => d \in rendered'[last]
      BY <1>1, <1>3 DEF Inv, TypeOK
    <3>. QED  BY <1>1, <2>1, <3>1, <3>2 DEF CoreInv, AtRest, Working, Active
  <2>. QED  BY <2>2, <2>3
<1>8. CountInv'
  <2>1. Waiting' = Waiting
    <3>. SUFFICES ASSUME NEW d \in Used PROVE Unreported(d)' <=> Unreported(d)
      BY <1>1 DEF Waiting, Used
    <3>1. CASE d = c
      <4>1. core'[d] = o
        BY <1>1, <3>1 DEF Inv, TypeOK
      <4>2. Unreported(d)'
        BY <1>1, <1>2, <3>1, <4>1 DEF Unreported
      <4>. QED  BY <1>1, <3>1, <4>2 DEF Unreported
    <3>2. CASE d # c
      BY <1>1, <3>2 DEF Unreported, Inv, TypeOK
    <3>. QED  BY <3>1, <3>2
  <2>. QED  BY <1>1, <2>1, SameCount DEF Inv, Active
<1>9. RenderInv'
  <2>1. ASSUME NEW t \in Task
        PROVE  /\ result[t] = "ok" => rendered'[t] = 1 .. width[t]
               /\ rendered'[t] \subseteq 1 .. width[t]
               /\ t > last => rendered'[t] = rendered[t]
    <3>1. rendered[t] \subseteq 1 .. width[t] /\ (result[t] = "ok" => rendered[t] = 1 .. width[t])
      BY DEF Inv, RenderInv, DoneMeansRendered
    <3>2. CASE t = last
      <4>1. rendered'[t] = rendered[t] \/ rendered'[t] = rendered[t] \cup {c}
        BY <1>1, <3>2 DEF Inv, TypeOK
      <4>2. ~(t > last)
        BY <1>3, <3>2 DEF Task
      <4>. QED  BY <1>3, <3>1, <3>2, <4>1, <4>2
    <3>3. CASE t # last
      BY <1>1, <3>1, <3>3 DEF Inv, TypeOK
    <3>. QED  BY <3>2, <3>3
  <2>. QED  BY <1>1, <2>1 DEF Inv, RenderInv, DoneMeansRendered
<1>. QED  BY <1>4, <1>5, <1>7, <1>8, <1>9 DEF Inv, CoresInv

-----------------------------------------------------------------------------
(***************************************************************************)
(* Interrupt handlers up to the report.                                    *)
(***************************************************************************)
LEMMA IrqReadInv ==
  ASSUME Inv, UNCHANGED bcast, NEW c \in Core, IrqRead(c)
  PROVE  Inv'
<1>. USE DEF runVars, pipeVars, coreVars, maskVars, jobVars
<1>1. /\ ~bcast /\ c \in raised \cap unmasked /\ handler[c] = "none"
      /\ handler' = [handler EXCEPT ![c] = IF core[c] = "failed" THEN "readError" ELSE "read"]
      /\ UNCHANGED <<runVars, pipeVars, coreVars, maskVars, mmuHandler, scan, scanTask, jobVars>>
  BY DEF IrqRead
<1>2. TypeOK'
  BY <1>1 DEF Inv, TypeOK
<1>3. RunInv'
  BY <1>1 DEF Inv, RunInv, Working
<1>4. ASSUME NEW d \in Core PROVE CoreInv(d)'
  <2>1. CoreInv(d)
    BY DEF Inv, CoresInv
  <2>2. CASE d = c
    <3>1. handler'[d] = IF core[d] = "failed" THEN "readError" ELSE "read"
      BY <1>1, <2>2 DEF Inv, TypeOK
    <3>. QED  BY <1>1, <2>1, <2>2, <3>1 DEF CoreInv, AtRest, Working, Active
  <2>3. CASE d # c
    <3>1. handler'[d] = handler[d]
      BY <1>1, <2>3 DEF Inv, TypeOK
    <3>. QED  BY <1>1, <2>1, <3>1 DEF CoreInv, AtRest, Working, Active
  <2>. QED  BY <2>2, <2>3
<1>5. CountInv'
  <2>1. Waiting' = Waiting
    <3>. SUFFICES ASSUME NEW d \in Used PROVE Unreported(d)' <=> Unreported(d)
      BY <1>1 DEF Waiting, Used
    <3>1. CASE d = c
      BY <1>1, <3>1 DEF Unreported
    <3>2. CASE d # c
      BY <1>1, <3>2 DEF Unreported, Inv, TypeOK
    <3>. QED  BY <3>1, <3>2
  <2>. QED  BY <1>1, <2>1, SameCount DEF Inv, Active
<1>6. RenderInv'
  BY <1>1 DEF Inv, RenderInv, DoneMeansRendered
<1>. QED  BY <1>2, <1>3, <1>4, <1>5, <1>6 DEF Inv, CoresInv

LEMMA IrqHandleInv ==
  ASSUME Inv, UNCHANGED bcast, NEW c \in Core, IrqHandle(c)
  PROVE  Inv'
<1>. USE DEF runVars, jobVars
<1>1. /\ handler[c] \in {"read", "readError"}
      /\ handler' = [handler EXCEPT ![c] = "handled"]
      /\ error' = (error \/ handler[c] = "readError")
      /\ unmasked' = IF handler[c] = "readError" THEN unmasked \ {c} ELSE unmasked
      /\ raised' = raised \ {c}
      /\ UNCHANGED <<runVars, count, done, core, mmuRaised, asyncReset, rawReset,
                     unanswered, mmuHandler, scan, scanTask, jobVars>>
  BY DEF IrqHandle, HandleIrq
<1>2. TypeOK'
  <2>1. error' \in BOOLEAN
    BY <1>1
  <2>2. handler' \in [Core -> {"none", "read", "readError", "handled"}]
    BY <1>1 DEF Inv, TypeOK
  <2>. QED  BY <1>1, <2>1, <2>2 DEF Inv, TypeOK
<1>3. RunInv'
  BY <1>1 DEF Inv, RunInv, Working
<1>4. ASSUME NEW d \in Core PROVE CoreInv(d)'
  <2>1. CoreInv(d)
    BY DEF Inv, CoresInv
  <2>2. CASE d = c
    <3>1. handler'[d] = "handled"
      BY <1>1, <2>2 DEF Inv, TypeOK
    <3>. QED  BY <1>1, <2>1, <2>2, <3>1 DEF CoreInv, AtRest, Working, Active
  <2>3. CASE d # c
    <3>1. handler'[d] = handler[d] /\ (d \in raised' <=> d \in raised)
          /\ (d \in unmasked' <=> d \in unmasked)
      BY <1>1, <2>3 DEF Inv, TypeOK
    <3>. QED  BY <1>1, <2>1, <3>1 DEF CoreInv, AtRest, Working, Active
  <2>. QED  BY <2>2, <2>3
<1>5. CountInv'
  <2>0. ~bcast
    BY <1>1 DEF Inv, CoresInv, CoreInv, AtRest
  <2>1. Waiting' = Waiting
    <3>. SUFFICES ASSUME NEW d \in Used PROVE Unreported(d)' <=> Unreported(d)
      BY <1>1 DEF Waiting, Used
    <3>1. CASE d = c
      <4>1. handler'[d] = "handled"
        BY <1>1, <3>1 DEF Inv, TypeOK
      <4>. QED  BY <1>1, <2>0, <3>1, <4>1 DEF Unreported
    <3>2. CASE d # c
      BY <1>1, <3>2 DEF Unreported, Inv, TypeOK
    <3>. QED  BY <3>1, <3>2
  <2>. QED  BY <1>1, <2>1, SameCount DEF Inv, Active
<1>6. RenderInv'
  BY <1>1 DEF Inv, RenderInv, DoneMeansRendered
<1>. QED  BY <1>2, <1>3, <1>4, <1>5, <1>6 DEF Inv, CoresInv

LEMMA MmuIrqInv ==
  ASSUME Inv, UNCHANGED bcast, NEW c \in Core, MmuIrq(c)
  PROVE  Inv'
<1>. USE DEF runVars, maskVars, jobVars
<1>1. /\ c \in mmuRaised /\ mmuRaised' = mmuRaised \ {c} /\ error' = TRUE
      /\ mmuHandler' = [mmuHandler EXCEPT ![c] = "masked"]
      /\ UNCHANGED <<runVars, count, done, core, raised, maskVars, handler, scan,
                     scanTask, jobVars>>
  BY DEF MmuIrq
<1>2. TypeOK'
  BY <1>1 DEF Inv, TypeOK
<1>3. RunInv'
  BY <1>1 DEF Inv, RunInv, Working
<1>4. ASSUME NEW d \in Core PROVE CoreInv(d)'
  <2>1. CoreInv(d)
    BY DEF Inv, CoresInv
  <2>2. CASE d = c
    <3>1. mmuHandler'[d] = "masked"
      BY <1>1, <2>2 DEF Inv, TypeOK
    <3>. QED  BY <1>1, <2>1, <2>2, <3>1 DEF CoreInv, AtRest, Working, Active
  <2>3. CASE d # c
    <3>1. mmuHandler'[d] = mmuHandler[d] /\ (d \in mmuRaised' <=> d \in mmuRaised)
      BY <1>1, <2>3 DEF Inv, TypeOK
    <3>. QED  BY <1>1, <2>1, <3>1 DEF CoreInv, AtRest, Working, Active
  <2>. QED  BY <2>2, <2>3
<1>5. CountInv'
  <2>1. Waiting' = Waiting
    <3>. SUFFICES ASSUME NEW d \in Used PROVE Unreported(d)' <=> Unreported(d)
      BY <1>1 DEF Waiting, Used
    <3>1. CASE d = c
      <4>1. mmuHandler'[d] = "masked"
        BY <1>1, <3>1 DEF Inv, TypeOK
      <4>. QED  BY <1>1, <3>1, <4>1 DEF Unreported
    <3>2. CASE d # c
      BY <1>1, <3>2 DEF Unreported, Inv, TypeOK
    <3>. QED  BY <3>1, <3>2
  <2>. QED  BY <1>1, <2>1, SameCount DEF Inv, Active
<1>6. RenderInv'
  BY <1>1 DEF Inv, RenderInv, DoneMeansRendered
<1>. QED  BY <1>2, <1>3, <1>4, <1>5, <1>6 DEF Inv, CoresInv

-----------------------------------------------------------------------------
(***************************************************************************)
(* Reports.                                                                *)
(***************************************************************************)

\* The last report of a task: the pipe runs, and every other core it uses has
\* reported before.
LEMMA LastReport ==
  ASSUME Inv, Active, NEW c \in Waiting, c <= started, count = 1
  PROVE  /\ phase = "running" /\ current = last /\ last \in Task /\ started = width[last]
         /\ \A d \in Core : d <= started /\ d # c => ~Unreported(d)
<1>0. NumCores \in Nat /\ NumTasks \in Nat /\ started \in Nat
  BY PpAssumption DEF PpAssumption, Inv, TypeOK
<1>1. current = last /\ last \in Task /\ width[last] \in 0 .. NumCores
      /\ Used = 1 .. width[last]
  BY <1>0 DEF Inv, RunInv, TypeOK, Active, Working, Task, Used
<1>2. Cardinality(Waiting) = 1
  BY CountIs DEF Inv, CountInv
<1>3. Waiting \ {c} = {}
  <2>1. IsFiniteSet(Waiting \ {c}) /\ Cardinality(Waiting \ {c}) = 0
    BY <1>2, WaitingFinite, FS_RemoveElement DEF Inv
  <2>. QED  BY <2>1, FS_EmptySet
<1>4. phase = "running"
  <2>1. SUFFICES ASSUME phase = "starting" PROVE FALSE
    BY DEF Active
  <2>2. started + 1 \in Used /\ c # started + 1
    BY <1>0, <1>1, <2>1 DEF Inv, RunInv, Waiting
  <2>3. started + 1 > started
    BY <1>0
  <2>4. Unreported(started + 1)
    BY <2>3 DEF Unreported
  <2>5. started + 1 \in Waiting
    BY <2>2, <2>4 DEF Waiting
  <2>. QED  BY <1>3, <2>2, <2>5
<1>5. started = width[last]
  BY <1>0, <1>1, <1>4 DEF Inv, RunInv, Task
<1>6. ASSUME NEW d \in Core, d <= started, d # c PROVE ~Unreported(d)
  <2>1. d \in Used
    BY <1>0, <1>1, <1>5, <1>6 DEF Core
  <2>. QED  BY <1>3, <1>6, <2>1 DEF Waiting
<1>. QED  BY <1>1, <1>4, <1>5, <1>6

\* lima_sched_pipe_task_done without an error: every core has rendered, and
\* goes idle with a reset under way.
LEMMA SuccessInv ==
  ASSUME Inv, NoRaces, UNCHANGED bcast, phase = "running", TypeOK', RunInv',
         current = last, last \in Task, started = width[last],
         \A d \in Core : d <= started =>
           core[d] = "done" /\ d \notin mmuRaised /\ mmuHandler[d] = "none",
         \A d \in Core : handler'[d] = "none",
         SoftReset, phase' = "idle", result' = [result EXCEPT ![last] = "ok"],
         count' = 0,
         UNCHANGED <<last, current, width, started, mmuRaised, mmuHandler, rendered>>
  PROVE  Inv'
<1>0. NumCores \in Nat /\ NumTasks \in Nat /\ started \in 0 .. NumCores
  BY PpAssumption DEF PpAssumption, Inv, TypeOK
<1>1. PICK deaf \in Deaf :
      /\ asyncReset' = Core /\ unmasked' = unmasked \ (Core \ asyncReset)
      /\ rawReset' = rawReset \cup ((Core \ asyncReset) \ deaf)
      /\ unanswered' = (unanswered \ (Core \ asyncReset)) \cup ((Core \ asyncReset) \cap deaf)
      /\ core' = [c \in Core |->
                  IF c \notin Core \ asyncReset \/ (core[c] = "loose" /\ c \in deaf)
                    THEN core[c] ELSE "idle"]
      /\ raised' = raised \ (Core \ asyncReset)
  BY DEF SoftReset
<1>d. bcast => deaf = {}
  BY DEF Deaf, NoRaces
<1>2. ASSUME NEW d \in Core PROVE CoreInv(d)'
  <2>1. CoreInv(d) /\ d \in Int
    BY DEF Inv, CoresInv, Core
  <2>2. core'[d] \in AtRest /\ (core'[d] = "loose" => d \in unanswered')
        /\ (d \in unanswered' => ~bcast)
    BY <1>1, <1>d, <2>1 DEF CoreInv, AtRest
  <2>3. d \notin raised'
    BY <1>1, <2>1 DEF CoreInv, AtRest
  <2>4. d \notin mmuRaised /\ mmuHandler[d] = "none"
    BY <1>0, <2>1 DEF CoreInv, AtRest, Inv, TypeOK
  <2>5. d \notin unmasked' => d \in asyncReset' \cap rawReset' \/ d \in unanswered'
    <3>1. CASE d \in asyncReset
      BY <1>1, <2>1, <3>1 DEF CoreInv, AtRest
    <3>2. CASE d \notin asyncReset
      BY <1>1, <3>2
    <3>. QED  BY <3>1, <3>2
  <2>. QED  BY <2>2, <2>3, <2>4, <2>5 DEF CoreInv, AtRest, Working, Active
<1>3. CountInv'
  BY DEF CountInv, CountExact, Active
<1>4. RenderInv'
  <2>1. rendered[last] = 1 .. width[last]
    <3>1. rendered[last] \subseteq 1 .. width[last]
      BY DEF Inv, RenderInv
    <3>2. ASSUME NEW d \in 1 .. width[last] PROVE d \in rendered[last]
      <4>1. d \in Core /\ d <= started
        BY <1>0 DEF Core
      <4>2. core[d] = "done"
        BY <4>1
      <4>. QED  BY <4>1, <4>2 DEF Inv, CoresInv, CoreInv, AtRest
    <3>. QED  BY <3>1, <3>2
  <2>2. ~(last > last)
    BY DEF Task
  <2>3. \A t \in Task : result'[t] = IF t = last THEN "ok" ELSE result[t]
    BY DEF Inv, TypeOK
  <2>. QED  BY <2>1, <2>2, <2>3 DEF Inv, RenderInv, DoneMeansRendered
<1>. QED  BY <1>2, <1>3, <1>4 DEF Inv, CoresInv

\* atomic_dec_and_test for a core that is through with its handler.
LEMMA ReportInv ==
  ASSUME Inv, NoRaces, UNCHANGED bcast, NEW c \in Core, Active, c <= started, Unreported(c),
         ReportCore, core[c] \in {"done", "failed", "faulted"},
         c \notin raised, c \notin mmuRaised, handler[c] \in {"none", "handled"},
         bcast => core[c] = "faulted",
         handler' = [handler EXCEPT ![c] = "none"],
         mmuHandler' = [mmuHandler EXCEPT ![c] = "none"],
         UNCHANGED <<last, current, width, started, done, error, mmuRaised, scan,
                     scanTask, rendered>>
  PROVE  Inv'
<1>0. NumCores \in Nat /\ NumTasks \in Nat /\ c \in Int /\ c > 0 /\ started \in 0 .. NumCores
      /\ ~(c > started) /\ count \in Int
  BY PpAssumption DEF PpAssumption, Core, Inv, TypeOK
<1>1. current = last /\ last \in Task /\ width[last] \in 0 .. NumCores
      /\ Used = 1 .. width[last] /\ started <= width[last]
  BY <1>0 DEF Inv, RunInv, TypeOK, Active, Working, Task, Used
<1>2. c \in Waiting
  BY <1>0, <1>1 DEF Waiting
<1>3. count = Cardinality(Waiting) /\ count' = count - 1
  BY CountIs DEF Inv, CountInv, ReportCore
<1>4. \A d \in Core : /\ handler'[d] = IF d = c THEN "none" ELSE handler[d]
                      /\ mmuHandler'[d] = IF d = c THEN "none" ELSE mmuHandler[d]
  BY DEF Inv, TypeOK
<1>5. /\ handler' \in [Core -> {"none", "read", "readError", "handled"}]
      /\ mmuHandler' \in [Core -> {"none", "masked"}]
  BY DEF Inv, TypeOK
\* Without a soft reset a core differs by its handlers only.
<1>6. ASSUME UNCHANGED <<maskVars, core, raised>>, Working', phase' # "stopped",
             phase' = "fault" => \A d \in Core : d <= started /\ d # c => ~Unreported(d),
             phase' = "fault" => started = width[last], Active' => phase' = phase,
             NEW d \in Core
      PROVE  CoreInv(d)'
  <2>. USE DEF maskVars
  <2>1. CoreInv(d)
    BY DEF Inv, CoresInv
  <2>2. CASE d = c
    BY <1>4, <1>6, <2>1, <2>2 DEF CoreInv, AtRest, Working, Active
  <2>3. CASE d # c
    <3>1. handler'[d] = handler[d] /\ mmuHandler'[d] = mmuHandler[d]
      BY <1>4, <2>3
    <3>2. CASE phase' = "fault"
      <4>1. d <= started => ~Unreported(d)
        BY <1>6, <2>3, <3>2
      <4>2. /\ d \notin mmuRaised /\ mmuHandler[d] = "none" /\ core[d] # "busy"
            /\ d \notin raised /\ handler[d] = "none"
        BY <2>1, <4>1 DEF Unreported, CoreInv, AtRest, Inv, TypeOK, Active
      <4>. QED  BY <1>6, <2>1, <3>1, <3>2, <4>2 DEF CoreInv, AtRest, Working, Active
    <3>3. CASE phase' # "fault"
      BY <1>6, <2>1, <3>1, <3>3 DEF CoreInv, AtRest, Working, Active
    <3>. QED  BY <3>2, <3>3
  <2>. QED  BY <2>2, <2>3
<1>7. CASE count' # 0
  <2>. USE DEF maskVars
  <2>1. UNCHANGED <<phase, result, panic, maskVars, core, raised>>
    BY <1>7 DEF ReportCore
  <2>2. TypeOK' /\ RunInv'
    BY <1>0, <1>3, <1>5, <2>1 DEF Inv, TypeOK, RunInv, Working
  <2>3. CoresInv'
    BY <1>6, <2>1 DEF CoresInv, Active, Working
  <2>4. Waiting' = Waiting \ {c}
    <3>1. ~Unreported(c)'
      BY <1>0, <1>4, <2>1 DEF Unreported
    <3>2. ASSUME NEW d \in Core, d # c PROVE Unreported(d)' <=> Unreported(d)
      BY <1>4, <2>1, <3>2 DEF Unreported
    <3>3. Used \subseteq Core
      BY <1>0, <1>1 DEF Core
    <3>. QED  BY <3>1, <3>2, <3>3 DEF Waiting, Used
  <2>5. count' = Cardinality(Waiting')
    BY <1>2, <1>3, <2>4, OneLess DEF Inv
  <2>6. CountExact'
    BY <2>5 DEF CountExact, Waiting
  <2>7. CountInv'
    BY <2>1, <2>6 DEF CountInv, Active
  <2>8. RenderInv'
    BY <2>1 DEF Inv, RenderInv, DoneMeansRendered
  <2>. QED  BY <2>2, <2>3, <2>7, <2>8 DEF Inv
<1>8. CASE count' = 0
  <2>1. count = 1
    BY <1>0, <1>3, <1>8
  <2>2. /\ phase = "running" /\ started = width[last]
        /\ \A d \in Core : d <= started /\ d # c => ~Unreported(d)
    BY <1>2, <2>1, LastReport
  <2>3. TaskDone
    BY <1>8 DEF ReportCore
  <2>4. CASE error
    <3>. USE DEF maskVars
    <3>1. phase' = "fault" /\ UNCHANGED <<result, panic, maskVars, core, raised>>
      BY <2>2, <2>3, <2>4 DEF TaskDone
    <3>2. TypeOK' /\ RunInv'
      BY <1>0, <1>5, <1>8, <2>2, <3>1 DEF Inv, TypeOK, RunInv, Working
    <3>3. CoresInv'
      BY <1>6, <2>2, <3>1 DEF CoresInv, Active, Working
    <3>4. CountInv'
      BY <1>8, <3>1 DEF CountInv, CountExact
    <3>5. RenderInv'
      BY <3>1 DEF Inv, RenderInv, DoneMeansRendered
    <3>. QED  BY <3>2, <3>3, <3>4, <3>5 DEF Inv
  <2>5. CASE ~error
    <3>1. current # 0
      BY <1>0, <1>1 DEF Task
    <3>2. /\ SoftReset /\ UNCHANGED panic /\ phase' = "idle"
          /\ result' = [result EXCEPT ![last] = "ok"]
      BY <1>1, <2>2, <2>3, <2>5, <3>1 DEF TaskDone
    <3>3. TypeOK'
      <4>1. /\ asyncReset' = Core /\ unmasked' \subseteq Core /\ rawReset' \subseteq Core
            /\ unanswered' \subseteq Core
            /\ core' \in [Core -> {"idle", "busy", "done", "failed", "faulted", "hung", "loose"}]
            /\ raised' \subseteq Core
        BY <3>2 DEF SoftReset, Inv, TypeOK
      <4>2. result' \in [Task -> {"no", "ok", "error"}]
        BY <3>2 DEF Inv, TypeOK
      <4>. QED  BY <1>5, <1>8, <3>2, <4>1, <4>2 DEF Inv, TypeOK
    <3>4. RunInv'
      BY <2>2, <3>2 DEF Inv, RunInv, Working
    <3>5. ASSUME NEW d \in Core, d <= started
          PROVE  core[d] = "done" /\ d \notin mmuRaised /\ mmuHandler[d] = "none"
      <4>1. CoreInv(d)
        BY DEF Inv, CoresInv
      <4>2. CASE d = c
        BY <2>5, <4>1, <4>2 DEF CoreInv, AtRest, Inv, TypeOK
      <4>3. CASE d # c
        <5>1. ~Unreported(d)
          BY <2>2, <3>5, <4>3
        <5>2. d \notin mmuRaised /\ mmuHandler[d] = "none"
              /\ core[d] \in {"done", "failed", "faulted"}
          BY <2>2, <3>5, <4>1, <5>1 DEF Unreported, CoreInv, AtRest, Inv, TypeOK
        <5>3. d \notin raised
          BY <4>1, <5>1, <5>2 DEF Unreported, CoreInv, AtRest
        <5>. QED  BY <2>5, <4>1, <5>2, <5>3 DEF CoreInv, AtRest
      <4>. QED  BY <4>2, <4>3
    <3>6. ASSUME NEW d \in Core PROVE handler'[d] = "none"
      <4>1. CASE d = c
        BY <1>4, <4>1
      <4>2. CASE d # c
        <5>1. CoreInv(d) /\ handler[d] \in {"none", "read", "readError", "handled"}
          BY DEF Inv, CoresInv, TypeOK
        <5>2. handler[d] # "none" => d <= started /\ ~bcast
          BY <5>1 DEF CoreInv, AtRest
        <5>3. handler[d] = "none"
          BY <2>2, <4>2, <5>2 DEF Unreported
        <5>. QED  BY <1>4, <4>2, <5>3
      <4>. QED  BY <4>1, <4>2
    <3>7. mmuHandler' = mmuHandler
      <4>1. mmuHandler[c] = "none"
        BY <1>0, <3>5
      <4>. QED  BY <4>1 DEF Inv, TypeOK
    <3>. QED  BY <1>1, <1>8, <2>2, <3>2, <3>3, <3>4, <3>5, <3>6, <3>7, SuccessInv
  <2>. QED  BY <2>4, <2>5
<1>. QED  BY <1>7, <1>8

LEMMA IrqCountInv ==
  ASSUME Inv, NoRaces, UNCHANGED bcast, NEW c \in Core, IrqCount(c)
  PROVE  Inv'
<1>1. /\ handler[c] = "handled" /\ ReportCore
      /\ handler' = [handler EXCEPT ![c] = "none"]
      /\ UNCHANGED <<last, current, width, started, done, error, mmuRaised, mmuHandler,
                     scan, scanTask, rendered>>
  BY DEF IrqCount
<1>2. /\ core[c] \in {"done", "failed"} /\ ~bcast /\ c \notin raised /\ c \notin mmuRaised
      /\ mmuHandler[c] = "none" /\ Active /\ c <= started
  BY <1>1 DEF Inv, CoresInv, CoreInv, AtRest, TypeOK, Working, Active
<1>3. mmuHandler' = [mmuHandler EXCEPT ![c] = "none"]
  BY <1>1, <1>2 DEF Inv, TypeOK
<1>4. Unreported(c)
  BY <1>1, <1>2 DEF Unreported
<1>. QED  BY <1>1, <1>2, <1>3, <1>4, ReportInv

LEMMA MmuCountInv ==
  ASSUME Inv, NoRaces, UNCHANGED bcast, NEW c \in Core, MmuCount(c)
  PROVE  Inv'
<1>1. /\ mmuHandler[c] = "masked" /\ ReportCore
      /\ mmuHandler' = [mmuHandler EXCEPT ![c] = "none"]
      /\ UNCHANGED <<last, current, width, started, done, error, mmuRaised, handler,
                     scan, scanTask, rendered>>
  BY DEF MmuCount
<1>2. /\ core[c] = "faulted" /\ c \notin raised /\ c \notin mmuRaised
      /\ handler[c] = "none" /\ Active /\ c <= started
  BY <1>1 DEF Inv, CoresInv, CoreInv, AtRest, TypeOK, Working, Active
<1>3. handler' = [handler EXCEPT ![c] = "none"]
  BY <1>1, <1>2 DEF Inv, TypeOK
<1>4. Unreported(c)
  BY <1>1 DEF Unreported
<1>. QED  BY <1>1, <1>2, <1>3, <1>4, ReportInv

-----------------------------------------------------------------------------
(***************************************************************************)
(* lima_pp_bcast_irq_handler.                                              *)
(***************************************************************************)
LEMMA ScanType ==
  ASSUME Inv, scan # 0, BcastNext
  PROVE  /\ scan \in Core /\ scanTask = last /\ last \in Task /\ bcast
         /\ scan' \in 0 .. NumCores /\ (scan' # 0 => scan' <= width[last])
         /\ phase # "starting" /\ scan <= started /\ started = width[last]
<1>0. NumCores \in Nat /\ NumTasks \in Nat
  BY PpAssumption DEF PpAssumption
<1>1. /\ scanTask = last /\ last \in Task /\ bcast /\ phase # "starting"
      /\ scan <= width[last] /\ width[last] \in 0 .. NumCores /\ scan \in 1 .. NumCores
  BY <1>0 DEF Inv, RunInv, TypeOK, Task
<1>2. scan' = IF scan = width[last] THEN 0 ELSE scan + 1
  BY <1>1 DEF BcastNext
<1>. QED  BY <1>0, <1>1, <1>2 DEF Core, Inv, RunInv, Task

LEMMA BcastEnterInv ==
  ASSUME Inv, NoRaces, UNCHANGED bcast, BcastEnter
  PROVE  Inv'
<1>. USE DEF runVars, pipeVars, coreVars, maskVars, jobVars
<1>0. NumCores \in Nat \ {0} /\ NumTasks \in Nat
  BY PpAssumption DEF PpAssumption
<1>1. /\ bcast /\ scan = 0 /\ scan' = 1 /\ scanTask' = current /\ current # 0
      /\ UNCHANGED <<runVars, pipeVars, coreVars, maskVars, handler, mmuHandler, jobVars>>
  BY DEF BcastEnter
<1>2. PICK c \in Core : c \in raised \cap unmasked
  BY DEF BcastEnter, NoRaces, Inv, TypeOK
<1>3. core[c] \notin AtRest /\ Active /\ c <= started /\ c > 0 /\ c \in Int
  BY <1>0, <1>2 DEF Inv, CoresInv, CoreInv, AtRest, Working, Active, Core
<1>4. phase = "running" /\ current = last /\ last \in Task /\ width[last] \in 1 .. NumCores
  BY <1>0, <1>1, <1>3 DEF Inv, RunInv, TypeOK, Active, Working, Task
<1>5. TypeOK'
  <2>1. 1 \in 0 .. NumCores /\ current \in 0 .. NumTasks
    BY <1>0 DEF Inv, TypeOK
  <2>. QED  BY <1>1, <2>1 DEF Inv, TypeOK
<1>6. RunInv'
  BY <1>0, <1>1, <1>4 DEF Inv, RunInv, Working, Task
<1>7. CoresInv'
  BY <1>1 DEF Inv, CoresInv, CoreInv, AtRest, Working, Active
<1>8. CountInv'
  <2>1. Waiting' = Waiting
    BY <1>1 DEF Waiting, Used, Unreported
  <2>. QED  BY <1>1, <1>4, <2>1, SameCount DEF Inv, Active
<1>9. RenderInv'
  BY <1>1 DEF Inv, RenderInv, DoneMeansRendered
<1>. QED  BY <1>5, <1>6, <1>7, <1>8, <1>9 DEF Inv

LEMMA BcastSkipInv ==
  ASSUME Inv, UNCHANGED bcast, BcastSkip
  PROVE  Inv'
<1>. USE DEF runVars, pipeVars, coreVars, maskVars, jobVars
<1>1. /\ scan # 0 /\ BcastNext /\ UNCHANGED scanTask
      /\ UNCHANGED <<runVars, pipeVars, coreVars, maskVars, handler, mmuHandler, jobVars>>
  BY DEF BcastSkip, BcastNext
<1>2. /\ scan' \in 0 .. NumCores /\ (scan' # 0 => scan' <= width[last])
      /\ scanTask = last /\ last \in Task /\ bcast /\ phase # "starting"
  BY <1>1, ScanType
<1>3. TypeOK'
  BY <1>1, <1>2 DEF Inv, TypeOK
<1>4. RunInv'
  BY <1>1, <1>2 DEF Inv, RunInv, Working
<1>5. CoresInv'
  BY <1>1 DEF Inv, CoresInv, CoreInv, AtRest, Working, Active
<1>6. CountInv'
  <2>1. Waiting' = Waiting
    BY <1>1 DEF Waiting, Used, Unreported
  <2>. QED  BY <1>1, <2>1, SameCount DEF Inv, Active
<1>7. RenderInv'
  BY <1>1 DEF Inv, RenderInv, DoneMeansRendered
<1>. QED  BY <1>3, <1>4, <1>5, <1>6, <1>7 DEF Inv

LEMMA BcastReportInv ==
  ASSUME Inv, NoRaces, UNCHANGED bcast, BcastReport
  PROVE  Inv'
<1>0. NumCores \in Nat /\ NumTasks \in Nat /\ count \in Int /\ count - 1 \in Int
      /\ started \in 0 .. NumCores
  BY PpAssumption DEF PpAssumption, Inv, TypeOK
<1>. DEFINE failed == scan \in raised \cap unmasked /\ core[scan] = "failed"
<1>1. /\ scan # 0 /\ scan \notin done /\ BcastNext
      /\ scan \in raised \cap unmasked \/ core[scan] \notin {"busy", "hung", "faulted", "loose"}
      /\ error' = (error \/ failed) /\ done' = done \cup {scan} /\ count' = count - 1
      /\ UNCHANGED <<last, current, width, started, mmuRaised, handler, mmuHandler,
                     rendered, scanTask>>
  BY DEF BcastReport, BcastNext, Rendering
<1>2. IF count' = 0 /\ ~error' THEN TaskDone
      ELSE /\ phase' = IF count' = 0 /\ phase = "running" THEN "fault" ELSE phase
           /\ unmasked' = IF failed THEN unmasked \ {scan} ELSE unmasked
           /\ raised' = IF scan \in unmasked THEN raised \ {scan} ELSE raised
           /\ UNCHANGED <<result, panic, asyncReset, rawReset, unanswered, core>>
  BY DEF BcastReport
<1>3. /\ scan \in Core /\ scanTask = last /\ last \in Task /\ bcast
      /\ scan' \in 0 .. NumCores /\ (scan' # 0 => scan' <= width[last])
      /\ phase # "starting" /\ scan <= started /\ started = width[last]
  BY <1>1, ScanType
<1>4. CoreInv(scan)
  BY <1>3 DEF Inv, CoresInv
<1>5. error' \in BOOLEAN /\ done' \subseteq Core
  BY <1>1, <1>3 DEF Inv, TypeOK
\* After the end of the task: whatever it counts ends nothing.
<1>6. CASE ~Active
  <2>1. count' < 0
    BY <1>0, <1>1, <1>6 DEF Inv, CountInv
  <2>2. raised = {} /\ mmuRaised = {}
    BY <1>3, <1>6 DEF Inv, CoresInv, CoreInv, AtRest, TypeOK, Active, Working
  <2>3. /\ UNCHANGED <<phase, unmasked, raised, result, panic, asyncReset, rawReset,
                       unanswered, core>>
        /\ UNCHANGED error
    BY <1>0, <1>1, <1>2, <2>1, <2>2 DEF Inv, TypeOK
  <2>4. TypeOK'
    BY <1>0, <1>1, <1>3, <1>5, <2>3 DEF Inv, TypeOK
  <2>5. RunInv'
    BY <1>1, <1>3, <2>3 DEF Inv, RunInv, Working
  <2>6. CoresInv'
    BY <1>1, <1>6, <2>2, <2>3 DEF Inv, CoresInv, CoreInv, AtRest, Working, Active
  <2>7. CountInv'
    BY <1>0, <1>1, <1>6, <2>1, <2>3 DEF CountInv, CountExact, Active
  <2>8. RenderInv'
    BY <1>1, <2>3 DEF Inv, RenderInv, DoneMeansRendered
  <2>. QED  BY <2>4, <2>5, <2>6, <2>7, <2>8 DEF Inv
<1>7. CASE Active
  <2>1. phase = "running" /\ current = last /\ width[last] \in 0 .. NumCores
        /\ Used = 1 .. width[last]
    BY <1>0, <1>3, <1>7 DEF Active, Inv, RunInv, TypeOK, Working, Used, Task
  <2>2. /\ core[scan] \in {"done", "failed"} /\ scan \in raised /\ scan \in unmasked
        /\ scan \notin mmuRaised /\ mmuHandler[scan] = "none" /\ handler[scan] = "none"
    BY <1>1, <1>3, <1>4, <1>7 DEF CoreInv, AtRest, Inv, TypeOK
  <2>3. Unreported(scan) /\ scan \in Used /\ scan \in Waiting
    BY <1>0, <1>1, <1>3, <2>1, <2>2 DEF Unreported, Waiting, Core
  <2>4. count = Cardinality(Waiting)
    BY <1>7, CountIs DEF Inv, CountInv
  <2>5. CASE count' = 0 /\ ~error'
    <3>1. count = 1 /\ TaskDone /\ error' = FALSE /\ ~error /\ core[scan] = "done"
      <4>1. count = 1
        BY <1>0, <1>1, <2>5
      <4>2. TaskDone
        BY <1>2, <2>5
      <4>3. error \in BOOLEAN
        BY DEF Inv, TypeOK
      <4>4. ~(error \/ failed)
        BY <1>1, <2>5
      <4>5. core[scan] # "failed"
        BY <2>2, <4>4
      <4>. QED  BY <1>5, <2>2, <2>5, <4>1, <4>2, <4>3, <4>4, <4>5
    <3>2. \A d \in Core : d <= started /\ d # scan => ~Unreported(d)
      BY <1>3, <1>7, <2>3, <3>1, LastReport
    <3>3. current # 0
      BY <1>0, <1>3, <2>1 DEF Task
    <3>4. /\ SoftReset /\ UNCHANGED panic /\ phase' = "idle"
          /\ result' = [result EXCEPT ![last] = "ok"]
      BY <2>1, <3>1, <3>3 DEF TaskDone
    <3>5. TypeOK'
      <4>1. /\ asyncReset' = Core /\ unmasked' \subseteq Core /\ rawReset' \subseteq Core
            /\ unanswered' \subseteq Core
            /\ core' \in [Core -> {"idle", "busy", "done", "failed", "faulted", "hung", "loose"}]
            /\ raised' \subseteq Core
        BY <3>4 DEF SoftReset, Inv, TypeOK
      <4>2. result' \in [Task -> {"no", "ok", "error"}]
        BY <3>4 DEF Inv, TypeOK
      <4>. QED  BY <1>0, <1>1, <1>3, <1>5, <3>4, <4>1, <4>2 DEF Inv, TypeOK
    <3>6. RunInv'
      BY <1>1, <1>3, <2>1, <3>4 DEF Inv, RunInv, Working
    <3>7. ASSUME NEW d \in Core, d <= started
          PROVE  core[d] = "done" /\ d \notin mmuRaised /\ mmuHandler[d] = "none"
      <4>1. CoreInv(d) /\ mmuHandler[d] \in {"none", "masked"}
            /\ core[d] \in {"idle", "busy", "done", "failed", "faulted", "hung", "loose"}
        BY DEF Inv, CoresInv, TypeOK
      <4>2. CASE d # scan
        <5>1. ~Unreported(d)
          BY <3>2, <3>7, <4>2
        <5>2. d \notin mmuRaised /\ mmuHandler[d] = "none"
              /\ core[d] \in {"done", "failed", "faulted"} /\ (d \in done \/ core[d] = "faulted")
          BY <1>3, <1>7, <3>7, <4>1, <5>1 DEF Unreported, CoreInv, AtRest
        <5>3. core[d] # "faulted"
          BY <3>1, <4>1, <5>2 DEF CoreInv, AtRest
        <5>4. d \notin raised
          BY <1>3, <4>1, <5>2, <5>3 DEF CoreInv, AtRest
        <5>. QED  BY <3>1, <4>1, <5>2, <5>3, <5>4 DEF CoreInv, AtRest
      <4>. QED  BY <2>2, <3>1, <4>2
    <3>8. ASSUME NEW d \in Core PROVE handler'[d] = "none"
      BY <1>1, <1>3 DEF Inv, CoresInv, CoreInv, AtRest
    <3>. QED  BY <1>1, <1>3, <2>1, <2>5, <3>4, <3>5, <3>6, <3>7, <3>8, SuccessInv
  <2>6. CASE ~(count' = 0 /\ ~error')
    <3>1. /\ phase' = IF count' = 0 THEN "fault" ELSE "running"
          /\ unmasked' = IF failed THEN unmasked \ {scan} ELSE unmasked
          /\ raised' = raised \ {scan}
          /\ UNCHANGED <<result, panic, asyncReset, rawReset, unanswered, core>>
      BY <1>2, <2>1, <2>2, <2>6
    <3>2. TypeOK'
      BY <1>0, <1>1, <1>3, <1>5, <3>1 DEF Inv, TypeOK
    <3>3. RunInv'
      BY <1>1, <1>3, <2>1, <3>1 DEF Inv, RunInv, Working
    <3>4. ASSUME NEW d \in Core PROVE CoreInv(d)'
      <4>1. CoreInv(d)
        BY DEF Inv, CoresInv
      <4>2. CASE d = scan
        BY <1>1, <1>3, <2>1, <2>2, <3>1, <4>1, <4>2 DEF CoreInv, AtRest, Working, Active
      <4>3. CASE d # scan
        <5>1. (d \in raised' <=> d \in raised) /\ (d \in unmasked' <=> d \in unmasked)
              /\ (d \in done' <=> d \in done)
          BY <1>1, <3>1, <4>3
        <5>2. CASE count' = 0
          <6>1. d <= started => ~Unreported(d)
            <7>1. count = 1
              BY <1>0, <1>1, <5>2
            <7>. QED  BY <1>3, <1>7, <2>3, <4>3, <7>1, LastReport
          <6>2. /\ d \notin mmuRaised /\ mmuHandler[d] = "none" /\ core[d] # "busy"
                /\ d \notin raised /\ handler[d] = "none"
            BY <1>3, <4>1, <6>1 DEF Unreported, CoreInv, AtRest, Inv, TypeOK
          <6>. QED  BY <1>1, <1>3, <2>1, <3>1, <4>1, <5>1, <5>2, <6>2
                    DEF CoreInv, AtRest, Working, Active
        <5>3. CASE count' # 0
          BY <1>1, <1>3, <2>1, <3>1, <4>1, <5>1, <5>3 DEF CoreInv, AtRest, Working, Active
        <5>. QED  BY <5>2, <5>3
      <4>. QED  BY <4>2, <4>3
    <3>5. Waiting' = Waiting \ {scan}
      <4>. SUFFICES \A d \in Used : Unreported(d)' <=> Unreported(d) /\ d # scan
        BY <1>1 DEF Waiting, Used
      <4>1. ~(scan > started)
        BY <1>0, <1>3 DEF Core
      <4>2. ASSUME NEW d \in Used, d = scan PROVE ~Unreported(d)'
        BY <1>1, <1>3, <2>2, <3>1, <4>1, <4>2 DEF Unreported
      <4>3. ASSUME NEW d \in Used, d # scan PROVE Unreported(d)' <=> Unreported(d)
        BY <1>1, <1>3, <3>1, <4>3 DEF Unreported
      <4>. QED  BY <2>3, <4>2, <4>3
    <3>6. count' = Cardinality(Waiting')
      <4>1. Cardinality(Waiting') = Cardinality(Waiting) - 1
        BY <2>3, <3>5, WaitingFinite, FS_RemoveElement DEF Inv
      <4>. QED  BY <1>1, <2>4, <4>1
    <3>7. CountInv'
      BY <3>1, <3>6 DEF CountInv, CountExact, Waiting, Active
    <3>8. RenderInv'
      BY <1>1, <3>1 DEF Inv, RenderInv, DoneMeansRendered
    <3>. QED  BY <3>2, <3>3, <3>4, <3>7, <3>8 DEF Inv, CoresInv
  <2>. QED  BY <2>5, <2>6
<1>. QED  BY <1>6, <1>7

-----------------------------------------------------------------------------
(***************************************************************************)
(* lima_sched_timedout_job.                                                *)
(***************************************************************************)
LEMMA TdrFireInv ==
  ASSUME Inv, NoRaces, UNCHANGED bcast, TdrFire
  PROVE  Inv'
<1>. USE DEF pipeVars, coreVars, maskVars, irqVars, jobVars
<1>1. /\ phase = "fault" \/ (phase = "running" /\ Quiet)
      /\ phase' = "stopped"
      /\ UNCHANGED <<last, current, width, started, pipeVars, coreVars, maskVars,
                     irqVars, jobVars>>
  BY DEF TdrFire, TimerExpired, NoRaces
<1>2. TypeOK' /\ RunInv'
  BY <1>1 DEF Inv, TypeOK, RunInv, Working
<1>3. ASSUME NEW c \in Core PROVE CoreInv(c)'
  <2>1. CoreInv(c)
    BY DEF Inv, CoresInv
  <2>2. /\ c \notin raised \cap unmasked /\ c \notin mmuRaised /\ core[c] # "busy"
        /\ handler[c] = "none" /\ mmuHandler[c] = "none"
    BY <1>1, <2>1 DEF CoreInv, AtRest, Quiet
  <2>. QED  BY <1>1, <2>1, <2>2 DEF CoreInv, AtRest, Working, Active
<1>4. CountInv'
  BY <1>1 DEF Inv, CountInv, CountExact, Active, Quiet
<1>5. RenderInv'
  BY <1>1 DEF Inv, RenderInv, DoneMeansRendered
<1>. QED  BY <1>2, <1>3, <1>4, <1>5 DEF Inv, CoresInv

LEMMA TdrResetInv ==
  ASSUME Inv, NoRaces, UNCHANGED bcast, TdrReset
  PROVE  Inv'
<1>. USE DEF pipeVars, irqVars, jobVars
<1>1. PICK deaf \in Deaf :
      /\ phase = "stopped" /\ phase' = "reset"
      /\ core' = [c \in Core |-> IF c \in deaf /\ Rendering(c) THEN "loose" ELSE "idle"]
      /\ raised' = {} /\ mmuRaised' = {}
      /\ unmasked' = Core \ deaf /\ rawReset' = rawReset \cap deaf /\ unanswered' = deaf
      /\ UNCHANGED <<last, current, width, started, pipeVars, asyncReset, irqVars,
                     jobVars>>
  BY DEF TdrReset, HardReset
<1>d. deaf \subseteq Core /\ (bcast => deaf = {})
  BY DEF Deaf, NoRaces
<1>2. TypeOK'
  <2>1. core' \in [Core -> {"idle", "busy", "done", "failed", "faulted", "hung", "loose"}]
    BY <1>1
  <2>. QED  BY <1>1, <1>d, <2>1 DEF Inv, TypeOK
<1>3. RunInv'
  BY <1>1 DEF Inv, RunInv, Working
<1>4. ASSUME NEW c \in Core PROVE CoreInv(c)'
  <2>1. CoreInv(c) /\ core'[c] \in AtRest /\ (core'[c] = "loose" => c \in deaf) /\ handler[c] = "none" /\ mmuHandler[c] = "none"
    BY <1>1 DEF Inv, CoresInv, CoreInv, AtRest
  <2>. QED  BY <1>1, <1>d, <2>1 DEF CoreInv, AtRest, Working, Active
<1>5. CountInv'
  BY <1>1 DEF Inv, CountInv, CountExact, Active
<1>6. RenderInv'
  BY <1>1 DEF Inv, RenderInv, DoneMeansRendered
<1>. QED  BY <1>2, <1>3, <1>4, <1>5, <1>6 DEF Inv, CoresInv

LEMMA TdrEndInv ==
  ASSUME Inv, UNCHANGED bcast, TdrEnd
  PROVE  Inv'
<1>. USE DEF pipeVars, coreVars, maskVars, irqVars
<1>0. NumTasks \in Nat
  BY PpAssumption DEF PpAssumption
<1>1. /\ phase = "reset" /\ phase' = "idle" /\ current' = 0
      /\ result' = [result EXCEPT ![current] = IF @ = "no" THEN "error" ELSE @]
      /\ UNCHANGED <<last, width, started, pipeVars, coreVars, maskVars, irqVars,
                     rendered, panic>>
  BY DEF TdrEnd
<1>2. current = last /\ last \in Task
  BY <1>0, <1>1 DEF Inv, RunInv, TypeOK, Task
<1>3. TypeOK'
  <2>1. 0 \in 0 .. NumTasks /\ result' \in [Task -> {"no", "ok", "error"}]
    BY <1>0, <1>1, <1>2 DEF Inv, TypeOK
  <2>. QED  BY <1>1, <2>1 DEF Inv, TypeOK
<1>4. RunInv'
  BY <1>1 DEF Inv, RunInv, Working
<1>5. CoresInv'
  BY <1>1 DEF Inv, CoresInv, CoreInv, AtRest, Working, Active
<1>6. CountInv'
  BY <1>1 DEF Inv, CountInv, CountExact, Active
<1>7. RenderInv'
  <2>1. ASSUME NEW t \in Task PROVE result'[t] = "ok" => result[t] = "ok"
    BY <1>1 DEF Inv, TypeOK
  <2>2. ASSUME NEW t \in Task, t > last PROVE result'[t] = result[t]
    BY <1>0, <1>1, <1>2, <2>2 DEF Inv, TypeOK, Task
  <2>. QED  BY <1>1, <2>1, <2>2 DEF Inv, RenderInv, DoneMeansRendered
<1>. QED  BY <1>3, <1>4, <1>5, <1>6, <1>7 DEF Inv

-----------------------------------------------------------------------------
LEMMA StepInv ==
  ASSUME NoRaces, Inv, [Next]_vars
  PROVE  Inv'
<1>1. CASE UNCHANGED vars
  <2>. USE <1>1 DEF vars, ppVars, runVars, pipeVars, coreVars, maskVars, irqVars, jobVars
  <2>1. TypeOK' /\ RunInv'
    BY DEF Inv, TypeOK, RunInv, Working
  <2>2. CoresInv'
    BY DEF Inv, CoresInv, CoreInv, AtRest, Working, Active
  <2>3. CountInv'
    BY DEF Inv, CountInv, CountExact, Active, Used, Unreported
  <2>4. RenderInv'
    BY DEF Inv, RenderInv, DoneMeansRendered
  <2>. QED  BY <2>1, <2>2, <2>3, <2>4 DEF Inv
<1>2. CASE Next
  <2>0. UNCHANGED bcast
    BY <1>2 DEF Next
  <2>1. ASSUME NEW n \in Core, RunBegin(n) PROVE Inv'
    BY <2>0, <2>1, RunBeginInv
  <2>2. CASE RunCore
    BY <2>0, <2>2, RunCoreInv
  <2>3. CASE RunAll
    BY <2>0, <2>3, RunAllInv
  <2>4. ASSUME NEW c \in Core, NEW o \in {"done", "failed", "faulted", "hung"}, HwCore(c, o)
        PROVE Inv'
    BY <2>0, <2>4, HwInv
  <2>5. ASSUME NEW c \in Core, Irq(c) PROVE Inv'
    BY <2>0, <2>5, IrqReadInv, IrqHandleInv, IrqCountInv DEF Irq
  <2>6. ASSUME NEW c \in Core, Mmu(c) PROVE Inv'
    BY <2>0, <2>6, MmuIrqInv, MmuCountInv DEF Mmu
  <2>7. CASE BcastHandler
    BY <2>0, <2>7, BcastEnterInv, BcastSkipInv, BcastReportInv DEF BcastHandler
  <2>8. CASE Tdr
    BY <2>0, <2>8, TdrFireInv, TdrResetInv, TdrEndInv DEF Tdr
  <2>. QED  BY <1>2, <2>1, <2>2, <2>3, <2>4, <2>5, <2>6, <2>7, <2>8 DEF Next, Run, Hw
<1>. QED  BY <1>1, <1>2

LEMMA Invariance == ASSUME NoRaces PROVE Spec => []Inv
<1>1. Init => Inv
  BY InitInv
<1>2. Inv /\ [Next]_vars => Inv'
  BY StepInv
<1>. QED  BY <1>1, <1>2, PTL DEF Spec

-----------------------------------------------------------------------------
\* The pipe's state is well-typed; in particular the broadcast handler looks
\* at no core the pipe does not have.
THEOREM TypeCorrect == ASSUME NoRaces PROVE Spec => []TypeOK
<1>1. Inv => TypeOK
  BY DEF Inv
<1>. QED  BY <1>1, Invariance, PTL

\* pipe->task counts exactly the cores that are still to report, between any
\* two steps of their interrupt handlers.
THEOREM CountIsExact == ASSUME NoRaces PROVE Spec => []CountExact
<1>1. Inv => CountExact
  BY DEF Inv, CountInv
<1>. QED  BY <1>1, Invariance, PTL

\* lima_sched_pipe_task_done reports success only for a task of which every
\* core finished its part.
THEOREM CompleteMeansRendered == ASSUME NoRaces PROVE Spec => []DoneMeansRendered
<1>1. Inv => DoneMeansRendered
  BY DEF Inv, RenderInv
<1>. QED  BY <1>1, Invariance, PTL

\* A core that works has its interrupts enabled, whatever resets came before.
THEOREM BusyCoresAreHeard == ASSUME NoRaces PROVE Spec => []BusyIsUnmasked
<1>1. Inv => BusyIsUnmasked
  BY DEF Inv, CoresInv, CoreInv, AtRest, BusyIsUnmasked
<1>. QED  BY <1>1, Invariance, PTL
=============================================================================
