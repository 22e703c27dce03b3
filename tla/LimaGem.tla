------------------------------ MODULE LimaGem ------------------------------
(***************************************************************************)
(* Buffer objects and address spaces (lima_gem.c, lima_vm.c): a file maps  *)
(* the objects it has handles of into its address space, the submission    *)
(* ioctl takes references that keep object, mapping and address space      *)
(* alive until lima_sched_free_job, and the recovery of a GP task grows    *)
(* its heap object while all that goes on.                                 *)
(*                                                                         *)
(* Every open file has one address space; a file is named by it.  Memory   *)
(* is counted in pages.  An object of Heaps is created with                *)
(* LIMA_BO_FLAG_HEAP and has HeapPages pages, any other object has one.    *)
(***************************************************************************)
EXTENDS Integers, Sequences, FiniteSets

CONSTANTS
  VMs, NoVm,   \* address spaces, one for each file that is ever opened
  BOs, Heaps,  \* buffer objects, and which of them are growable heaps
  BoLists,     \* the object lists that are submitted
  HeapPages,   \* size of a heap object
  InitPages,   \* lima_heap_init_nr_pages
  NumTasks,    \* how many tasks are created
  MaxWirings,  \* bound of the model: how often a page is wired
  MayFail,     \* the calls that may fail
  HeapShared   \* may a heap be opened by a second file?

Calls == {"resv", "job_init", "deps", "wire", "sg_alloc", "dma_map", "map_page"}

ASSUME GemAssumption ==
  /\ BOs # {} /\ Heaps \subseteq BOs /\ NoVm \notin VMs /\ MaxWirings \in Nat
  /\ BoLists \subseteq Seq(BOs) \ {<<>>}
  /\ HeapPages \in Nat \ {0} /\ InitPages \in Nat \ {0}
  /\ InitPages <= HeapPages /\ NumTasks \in Nat
  /\ MayFail \subseteq Calls /\ HeapShared \in BOOLEAN

Task == 1 .. NumTasks
Size(b) == IF b \in Heaps THEN HeapPages ELSE 1
Page == 0 .. HeapPages - 1
First(n) == 0 .. n - 1

VARIABLES
  file,     \* "none", "open" or "closed", for each file
  handles,  \* <<v, b>>: file v has a handle of b
  vmRefs,   \* lima_vm.refcount
  vaRefs,   \* lima_bo_va.ref_count of b in v, 0 when there is no lima_bo_va
  pte,      \* pages of b that the page tables of v map
  gemRefs,  \* references to b, 0 before its creation and after it is freed
  born,     \* objects that were created
  pages,    \* entries of base.pages that are not NULL
  wired,    \* wirings of each page of b
  sgt,      \* pages base.sgt covers; 0 when it is NULL, -1 when it is emptied
  heap,     \* bo->heap_size
  submit,   \* lima_gem_submit of each file
  task,     \* struct lima_sched_task
  grow      \* lima_heap_alloc, called by the recovery work

refVars  == <<vmRefs, vaRefs, gemRefs>>
memVars  == <<pages, wired, sgt>>
fileVars == <<file, handles, born>>
vars == <<fileVars, refVars, pte, memVars, heap, submit, task, grow>>

NoSubmit == [pc |-> "idle", bos |-> <<>>, got |-> 0, task |-> 0]
NoTask   == [state |-> "none", vm |-> NoVm, bos |-> <<>>, todo |-> <<>>]
NoGrow   == [pc |-> "idle", task |-> 0, bo |-> CHOOSE b \in BOs : TRUE, new |-> 0]

Init ==
  /\ file = [v \in VMs |-> "none"] /\ handles = {} /\ born = {}
  /\ vmRefs = [v \in VMs |-> 0]
  /\ vaRefs = [v \in VMs |-> [b \in BOs |-> 0]]
  /\ pte = [v \in VMs |-> [b \in BOs |-> {}]]
  /\ gemRefs = [b \in BOs |-> 0]
  /\ pages = [b \in BOs |-> {}]
  /\ wired = [b \in BOs |-> [p \in Page |-> 0]]
  /\ sgt = [b \in BOs |-> 0] /\ heap = [b \in BOs |-> 0]
  /\ submit = [v \in VMs |-> NoSubmit]
  /\ task = [t \in Task |-> NoTask]
  /\ grow = NoGrow

-----------------------------------------------------------------------------
(***************************************************************************)
(* The address space.                                                      *)
(***************************************************************************)

\* What is mapped of an object after lima_vm_map_page of its pages from .. to-1,
\* or after lima_vm_unmap_range of its first n pages.
MapPages(mapped, from, to) == mapped \cup {p \in Page : from <= p /\ p < to}
UnmapPages(mapped, n) == mapped \ First(n)

\* lima_vm_create: a directory without page tables, and the file's reference.
VmCreate(v) ==
  /\ vmRefs' = [vmRefs EXCEPT ![v] = 1]
  /\ pte' = [pte EXCEPT ![v] = [b \in BOs |-> {}]]

\* lima_vm_put: the last reference frees the page tables (lima_vm_release).
VmPut(v) ==
  /\ vmRefs' = [vmRefs EXCEPT ![v] = @ - 1]
  /\ pte' = IF vmRefs[v] = 1 THEN [pte EXCEPT ![v] = [b \in BOs |-> {}]]
                             ELSE pte

\* lima_vm_bo_find.
BoFound(v, b) == vaRefs[v][b] > 0

\* lima_vm_bo_add that may create the lima_bo_va: the pages of base.sgt are
\* mapped, all of them or none.
BoMap(v, b) ==
  /\ vaRefs' = [vaRefs EXCEPT ![v][b] = @ + 1]
  /\ pte' = [pte EXCEPT ![v][b] =
               IF BoFound(v, b) THEN @ ELSE MapPages(@, 0, sgt[b])]

\* lima_vm_bo_del: the last reference unmaps the object.  Of a heap it unmaps
\* what is populated now.
DelSize_InitOnly(b) == IF heap[b] # 0 THEN InitPages ELSE Size(b)
DelSize(b) == IF heap[b] # 0 THEN heap[b] ELSE Size(b)
BoDel_Always(v, b) ==
  /\ vaRefs' = [vaRefs EXCEPT ![v][b] = @ - 1]
  /\ pte' = [pte EXCEPT ![v][b] = UnmapPages(@, DelSize(b))]
BoDel(v, b) ==
  /\ vaRefs' = [vaRefs EXCEPT ![v][b] = @ - 1]
  /\ pte' = [pte EXCEPT ![v][b] =
               IF vaRefs[v][b] = 1 THEN UnmapPages(@, DelSize(b)) ELSE @]

\* drm_gem_object_put, of several references at once: refs is what is left.
\* The last one frees the object: drm_gem_shmem_free frees base.sgt and drops
\* one wiring of each entry of base.pages.
GemPut(refs) ==
  LET dead == {b \in BOs : gemRefs[b] > 0 /\ refs[b] = 0}
  IN  /\ gemRefs' = refs
      /\ pages' = [b \in BOs |-> IF b \in dead THEN {} ELSE pages[b]]
      /\ sgt' = [b \in BOs |-> IF b \in dead THEN 0 ELSE sgt[b]]
      /\ wired' = [b \in BOs |-> [p \in Page |->
                     IF b \in dead /\ p \in pages[b] THEN wired[b][p] - 1
                                                     ELSE wired[b][p]]]

Count(bos, b) == Cardinality({i \in DOMAIN bos : bos[i] = b})
Minus(bos) == [b \in BOs |-> gemRefs[b] - Count(bos, b)]

-----------------------------------------------------------------------------
(***************************************************************************)
(* Files and handles.                                                      *)
(***************************************************************************)

\* lima_drm_driver_open.
OpenFile(v) ==
  /\ file[v] = "none"
  /\ file' = [file EXCEPT ![v] = "open"]
  /\ VmCreate(v)
  /\ UNCHANGED <<handles, born, vaRefs, gemRefs, memVars, heap, submit, task,
                 grow>>

\* lima_gem_create_handle: a heap gets its first pages, any other object all
\* of them; a failure frees the object again.
Create(v, b) ==
  /\ file[v] = "open" /\ b \notin born
  /\ LET n == IF b \in Heaps THEN InitPages ELSE Size(b)
     IN /\ pages' = [pages EXCEPT ![b] = First(n)]
        /\ wired' = [wired EXCEPT ![b] = [p \in Page |-> IF p < n THEN 1 ELSE 0]]
        /\ sgt' = [sgt EXCEPT ![b] = n]
        /\ heap' = [heap EXCEPT ![b] = IF b \in Heaps THEN n ELSE 0]
        /\ pte' = [pte EXCEPT ![v][b] = MapPages(@, 0, n)]
  /\ born' = born \cup {b} /\ handles' = handles \cup {<<v, b>>}
  /\ gemRefs' = [gemRefs EXCEPT ![b] = 1]
  /\ vaRefs' = [vaRefs EXCEPT ![v][b] = 1]
  /\ UNCHANGED <<file, vmRefs, submit, task, grow>>

\* A handle of an object of another file, by PRIME or flink:
\* lima_gem_object_open.
OpenHandle(v, b) ==
  /\ file[v] = "open" /\ <<v, b>> \notin handles
  /\ \E w \in VMs : <<w, b>> \in handles
  /\ b \in Heaps => HeapShared
  /\ handles' = handles \cup {<<v, b>>}
  /\ gemRefs' = [gemRefs EXCEPT ![b] = @ + 1]
  /\ BoMap(v, b)
  /\ UNCHANGED <<file, born, vmRefs, memVars, heap, submit, task, grow>>

\* lima_gem_object_close, and the handle's reference is dropped.
CloseHandle(v, b) ==
  /\ <<v, b>> \in handles
  /\ handles' = handles \ {<<v, b>>}
  /\ BoDel(v, b)
  /\ GemPut(Minus(<<b>>))
  /\ UNCHANGED <<file, born, vmRefs, heap, submit, task, grow>>

\* drm_gem_release has closed every handle; lima_drm_driver_postclose.
CloseFile(v) ==
  /\ file[v] = "open" /\ submit[v].pc = "idle"
  /\ \A b \in BOs : <<v, b>> \notin handles
  /\ file' = [file EXCEPT ![v] = "closed"]
  /\ VmPut(v)
  /\ UNCHANGED <<handles, born, vaRefs, gemRefs, memVars, heap, submit, task,
                 grow>>

-----------------------------------------------------------------------------
(***************************************************************************)
(* lima_gem_submit.                                                        *)
(***************************************************************************)
SetSubmit(v, s) == submit' = [submit EXCEPT ![v] = s]
Pc(v, pc) == SetSubmit(v, [submit[v] EXCEPT !.pc = pc])

\* The ioctl names the objects by handle; one may be named twice.
SubmitBegin(v, bos) ==
  /\ file[v] = "open" /\ submit[v].pc = "idle"
  /\ \E t \in Task : task[t].state = "none"
  /\ SetSubmit(v, [NoSubmit EXCEPT !.pc = "lookup", !.bos = bos])
  /\ UNCHANGED <<fileVars, refVars, pte, memVars, heap, task, grow>>

Next1(v) == submit[v].bos[submit[v].got + 1]

SubmitLookup(v) ==
  /\ submit[v].pc = "lookup"
  /\ LET b == Next1(v)
     IN IF <<v, b>> \in handles
        THEN gemRefs' = [gemRefs EXCEPT ![b] = @ + 1] /\ Pc(v, "add")
        ELSE UNCHANGED gemRefs /\ Pc(v, "unwind")
  /\ UNCHANGED <<fileVars, vmRefs, vaRefs, pte, memVars, heap, task, grow>>

\* lima_vm_bo_add(vm, bo, false): the handle may be gone by now, and with it
\* the mapping.
SubmitAdd(v) ==
  /\ submit[v].pc = "add"
  /\ LET b == Next1(v)
     IN \/ /\ ~BoFound(v, b)
           /\ GemPut(Minus(<<b>>))
           /\ Pc(v, "unwind")
           /\ UNCHANGED <<vaRefs, pte>>
        \/ /\ BoFound(v, b)
           /\ BoMap(v, b)
           /\ SetSubmit(v, [submit[v] EXCEPT !.got = @ + 1,
                              !.pc = IF submit[v].got + 1 = Len(submit[v].bos)
                                     THEN "lock" ELSE "lookup"])
           /\ UNCHANGED <<gemRefs, memVars>>
  /\ UNCHANGED <<fileVars, vmRefs, heap, task, grow>>

\* drm_gem_lock_reservations: refuses an object that is named twice, and may
\* be interrupted.
SubmitLock(v) ==
  /\ submit[v].pc = "lock"
  /\ LET bos == submit[v].bos
         twice == \E i, j \in DOMAIN bos : i # j /\ bos[i] = bos[j]
     IN \/ ~twice /\ Pc(v, "init")
        \/ (twice \/ "resv" \in MayFail) /\ Pc(v, "unwind")
  /\ UNCHANGED <<fileVars, refVars, pte, memVars, heap, task, grow>>

\* kmem_cache_zalloc of the task.
IsFree(t) ==
  task[t].state = "none" /\ \A u \in 1 .. t - 1 : task[u].state # "none"

\* lima_sched_task_init: the task takes references of its own.  A failing
\* drm_sched_job_init leaves them behind.
SubmitInit_NoVmGet(v, t) ==
  /\ submit[v].pc = "init" /\ IsFree(t)
  /\ LET bos == submit[v].bos
     IN /\ gemRefs' = [b \in BOs |-> gemRefs[b] + Count(bos, b)]
        /\ task' = [task EXCEPT ![t] = [state |-> "new", vm |-> v,
                                        bos |-> bos, todo |-> bos]]
        /\ SetSubmit(v, [submit[v] EXCEPT !.pc = "deps", !.task = t])
  /\ UNCHANGED <<fileVars, vmRefs, vaRefs, pte, memVars, heap, grow>>
SubmitInit(v, t) ==
  /\ submit[v].pc = "init" /\ IsFree(t)
  /\ LET bos == submit[v].bos
     IN /\ gemRefs' = [b \in BOs |-> gemRefs[b] + Count(bos, b)]
        /\ \/ /\ vmRefs' = [vmRefs EXCEPT ![v] = @ + 1]
              /\ task' = [task EXCEPT ![t] = [state |-> "new", vm |-> v,
                                              bos |-> bos, todo |-> bos]]
              /\ SetSubmit(v, [submit[v] EXCEPT !.pc = "deps", !.task = t])
           \/ /\ "job_init" \in MayFail
              /\ Pc(v, "unwind")
              /\ UNCHANGED <<vmRefs, task>>
  /\ UNCHANGED <<fileVars, vaRefs, pte, memVars, heap, grow>>

\* lima_gem_add_deps and lima_gem_sync_bo; then the task is queued, or
\* lima_sched_task_fini takes it back.
SubmitQueue(v) ==
  /\ submit[v].pc = "deps"
  /\ LET t == submit[v].task
     IN /\ task' = [task EXCEPT ![t].state = "live"]
        /\ SetSubmit(v, [submit[v] EXCEPT !.pc = "put", !.task = 0])
  /\ UNCHANGED <<fileVars, refVars, pte, memVars, heap, grow>>

SubmitDepsFail(v) ==
  /\ submit[v].pc = "deps" /\ "deps" \in MayFail
  /\ LET t == submit[v].task
     IN /\ GemPut(Minus(task[t].bos))
        /\ task' = [task EXCEPT ![t] = NoTask]
        /\ SetSubmit(v, [submit[v] EXCEPT !.pc = "unwind", !.task = 0])
  /\ VmPut(v)
  /\ UNCHANGED <<fileVars, vaRefs, heap, grow>>

\* The references of the lookups are dropped; the mappings' are the task's.
SubmitPut(v) ==
  /\ submit[v].pc = "put"
  /\ GemPut(Minus(submit[v].bos))
  /\ SetSubmit(v, NoSubmit)
  /\ UNCHANGED <<fileVars, vmRefs, vaRefs, pte, heap, task, grow>>

\* err_out0: one object after the other.
UnwindOne_KeepsVa(v) ==
  LET s == submit[v]
  IN /\ UNCHANGED <<vaRefs, pte>>
     /\ GemPut(Minus(<<Head(s.bos)>>))
     /\ SetSubmit(v, [s EXCEPT !.bos = Tail(s.bos), !.got = s.got - 1])
UnwindOne_KeepsGem(v) ==
  LET s == submit[v]
  IN /\ BoDel(v, Head(s.bos))
     /\ UNCHANGED <<gemRefs, memVars>>
     /\ SetSubmit(v, [s EXCEPT !.bos = Tail(s.bos), !.got = s.got - 1])
UnwindOne(v) ==
  LET s == submit[v]
  IN /\ BoDel(v, Head(s.bos))
     /\ GemPut(Minus(<<Head(s.bos)>>))
     /\ SetSubmit(v, [s EXCEPT !.bos = Tail(s.bos), !.got = s.got - 1])

SubmitUnwind(v) ==
  /\ submit[v].pc = "unwind"
  /\ \/ submit[v].got > 0 /\ UnwindOne(v)
     \/ /\ submit[v].got = 0 /\ SetSubmit(v, NoSubmit)
        /\ UNCHANGED <<vaRefs, pte, gemRefs, memVars>>
  /\ UNCHANGED <<fileVars, vmRefs, heap, task, grow>>

-----------------------------------------------------------------------------
(***************************************************************************)
(* lima_sched_free_job: the mappings one by one, then lima_sched_task_fini.*)
(***************************************************************************)
TaskUnmap(t) ==
  /\ task[t].state \in {"live", "faulted", "freeing"} /\ task[t].todo # <<>>
  /\ grow.pc # "idle" => grow.task # t
  /\ BoDel(task[t].vm, Head(task[t].todo))
  /\ task' = [task EXCEPT ![t].state = "freeing", ![t].todo = Tail(@)]
  /\ UNCHANGED <<fileVars, vmRefs, gemRefs, memVars, heap, submit, grow>>

TaskFini(t) ==
  /\ task[t].state = "freeing" /\ task[t].todo = <<>>
  /\ GemPut(Minus(task[t].bos))
  /\ VmPut(task[t].vm)
  /\ task' = [task EXCEPT ![t] = [NoTask EXCEPT !.state = "freed"]]
  /\ UNCHANGED <<fileVars, vaRefs, heap, submit, grow>>

-----------------------------------------------------------------------------
(***************************************************************************)
(* lima_heap_alloc, called for the GP task that has run out of heap.       *)
(***************************************************************************)
NewSize(b) == IF 2 * heap[b] < HeapPages THEN 2 * heap[b] ELSE HeapPages

\* lima_gp_task_recover returns the error, drm_sched_fault ends the task.
GrowFails(t) ==
  /\ grow' = NoGrow
  /\ task' = [task EXCEPT ![t].state = "faulted"]

\* The new pages are wired; the loop may end at any of them.
GrowWire(t, b) ==
  /\ grow.pc = "idle"
  /\ task[t].state = "live" /\ \E i \in DOMAIN task[t].bos : task[t].bos[i] = b
  /\ b \in Heaps /\ heap[b] < HeapPages
  /\ wired[b][heap[b]] < MaxWirings
  /\ \E end \in heap[b] .. NewSize(b) :
       LET got == {p \in Page : heap[b] <= p /\ p < end}
       IN /\ wired' = [wired EXCEPT ![b] =
                         [p \in Page |-> IF p \in got THEN @[p] + 1 ELSE @[p]]]
          /\ pages' = [pages EXCEPT ![b] = @ \cup got]
          /\ \/ /\ end = NewSize(b)
                /\ grow' = [pc |-> "sg", task |-> t, bo |-> b, new |-> end]
                /\ UNCHANGED task
             \/ /\ end < NewSize(b) /\ "wire" \in MayFail
                /\ GrowFails(t)
  /\ UNCHANGED <<fileVars, refVars, pte, sgt, heap, submit>>

\* sg_alloc_table_from_pages, and base.sgt is unmapped and emptied.
GrowSg ==
  /\ grow.pc = "sg"
  /\ \/ /\ "sg_alloc" \in MayFail
        /\ GrowFails(grow.task) /\ UNCHANGED sgt
     \/ /\ sgt' = [sgt EXCEPT ![grow.bo] = -1]
        /\ grow' = [grow EXCEPT !.pc = "dma"] /\ UNCHANGED task
  /\ UNCHANGED <<fileVars, refVars, pte, pages, wired, heap, submit>>

GrowDma ==
  /\ grow.pc = "dma"
  /\ \/ /\ "dma_map" \in MayFail
        /\ sgt' = [sgt EXCEPT ![grow.bo] = 0]
        /\ GrowFails(grow.task)
     \/ /\ sgt' = [sgt EXCEPT ![grow.bo] = grow.new]
        /\ grow' = [grow EXCEPT !.pc = "map"] /\ UNCHANGED task
  /\ UNCHANGED <<fileVars, refVars, pte, pages, wired, heap, submit>>

\* lima_vm_map_bo: the new pages are mapped in the address space of the task;
\* if the loop ends early, what it has mapped is unmapped.
GrowMap ==
  /\ grow.pc = "map"
  /\ \/ /\ pte' = [pte EXCEPT ![task[grow.task].vm][grow.bo] =
                     MapPages(@, heap[grow.bo], grow.new)]
        /\ grow' = [grow EXCEPT !.pc = "size"]
        /\ UNCHANGED <<sgt, task>>
     \/ /\ "map_page" \in MayFail
        /\ sgt' = [sgt EXCEPT ![grow.bo] = 0]
        /\ GrowFails(grow.task)
        /\ UNCHANGED pte
  /\ UNCHANGED <<fileVars, refVars, pages, wired, heap, submit>>

GrowSize ==
  /\ grow.pc = "size"
  /\ heap' = [heap EXCEPT ![grow.bo] = grow.new]
  /\ grow' = NoGrow
  /\ UNCHANGED <<fileVars, refVars, pte, memVars, submit, task>>

-----------------------------------------------------------------------------
FileStep(v) ==
  \/ OpenFile(v) \/ CloseFile(v)
  \/ \E b \in BOs : Create(v, b) \/ OpenHandle(v, b) \/ CloseHandle(v, b)
SubmitStep(v) ==
  \/ \E bos \in BoLists : SubmitBegin(v, bos)
  \/ SubmitLookup(v) \/ SubmitAdd(v) \/ SubmitLock(v)
  \/ \E t \in Task : SubmitInit(v, t)
  \/ SubmitQueue(v) \/ SubmitDepsFail(v) \/ SubmitPut(v) \/ SubmitUnwind(v)
TaskStep == \E t \in Task : TaskUnmap(t) \/ TaskFini(t)
GrowStep == (\E t \in Task, b \in BOs : GrowWire(t, b))
            \/ GrowSg \/ GrowDma \/ GrowMap \/ GrowSize

Next == (\E v \in VMs : FileStep(v) \/ SubmitStep(v)) \/ TaskStep \/ GrowStep

Spec == Init /\ [][Next]_vars

-----------------------------------------------------------------------------
(***************************************************************************)
(* Properties.                                                             *)
(***************************************************************************)
TypeOK ==
  /\ file \in [VMs -> {"none", "open", "closed"}]
  /\ handles \subseteq VMs \X BOs /\ born \subseteq BOs
  /\ vmRefs \in [VMs -> Nat] /\ vaRefs \in [VMs -> [BOs -> Nat]]
  /\ gemRefs \in [BOs -> Nat]
  /\ pte \in [VMs -> [BOs -> SUBSET Page]]
  /\ pages \in [BOs -> SUBSET Page] /\ wired \in [BOs -> [Page -> Nat]]
  /\ sgt \in [BOs -> -1 .. HeapPages] /\ heap \in [BOs -> 0 .. HeapPages]
  /\ submit \in [VMs -> [pc : {"idle", "lookup", "add", "lock", "init", "deps",
                               "put", "unwind"},
                         bos : Seq(BOs), got : Nat, task : Task \cup {0}]]
  /\ task \in [Task -> [state : {"none", "new", "live", "faulted", "freeing",
                                  "freed"},
                        vm : VMs \cup {NoVm}, bos : Seq(BOs), todo : Seq(BOs)]]
  /\ grow \in [pc : {"idle", "sg", "dma", "map", "size"}, task : Task \cup {0},
               bo : BOs, new : 0 .. HeapPages]

\* The places of b among the first n objects of a list, and what stands for a
\* place of an owner's list: it is counted from the end, since the unwinding and
\* lima_sched_free_job take lists off from the front.
Places(bos, n, b) == {i \in 1 .. n : bos[i] = b}
Marks(owner, bos, n, b) == {<<owner, Len(bos) - i>> : i \in Places(bos, n, b)}

Handle(v) == <<"handle", v>>
Submit(v) == <<"submit", v>>
Job(t)    == <<"task", t>>

\* How many objects of its list a submission has looked up and not let go of,
\* and how many mappings.
LookedUp(s) == IF s.pc = "add" THEN s.got + 1 ELSE s.got
Mapped(s) == IF s.pc = "put" THEN 0 ELSE s.got

\* Who holds a reference to b, and who one to the lima_bo_va of b in v.
GemHolders(b) ==
  {<<Handle(v), 0>> : v \in {w \in VMs : <<w, b>> \in handles}}
  \cup (UNION {Marks(Submit(v), submit[v].bos, LookedUp(submit[v]), b) :
                v \in VMs})
  \cup (UNION {Marks(Job(t), task[t].bos, Len(task[t].bos), b) : t \in Task})
VaHolders(v, b) ==
  {<<Handle(w), 0>> : w \in {w \in {v} : <<w, b>> \in handles}}
  \cup Marks(Submit(v), submit[v].bos, Mapped(submit[v]), b)
  \cup (UNION {Marks(Job(t), task[t].todo, Len(task[t].todo), b) :
                t \in {u \in Task : task[u].vm = v /\ task[u].state # "new"}})

\* References to an object belong to handles, to submissions under way and to
\* tasks, one for each place in their lists: no path through the ioctl leaks one
\* or drops one twice, with any call of it failing but drm_sched_job_init: where
\* lima_sched_task_init returns the error of that one, it leaks them.
GemRefsExact == \A b \in BOs : gemRefs[b] = Cardinality(GemHolders(b))

\* The same of lima_bo_va.ref_count: the ioctl hands its references over to
\* the task when it queues it.  None outlives its address space.
VaRefsExact ==
  \A v \in VMs, b \in BOs :
    /\ vmRefs[v] = 0 => vaRefs[v][b] = 0
    /\ vaRefs[v][b] = Cardinality(VaHolders(v, b))

\* The page tables of an address space hold exactly what lima_bo_va accounts
\* for: no translation survives lima_vm_bo_del, whatever heap growth, failed
\* or not, went before.
NoStalePte ==
  \A v \in VMs, b \in BOs : vaRefs[v][b] = 0 => pte[v][b] = {}

\* A translation leads to a page that is still wired for the object.
PteIsBacked ==
  \A v \in VMs, b \in BOs : \A p \in pte[v][b] : wired[b][p] > 0

\* Until lima_sched_free_job begins, a task finds every populated page of its
\* objects mapped, whatever handles are closed meanwhile.
TaskMapped ==
  \A t \in Task : task[t].state \in {"live", "faulted"} =>
    \A i \in DOMAIN task[t].bos :
      LET b == task[t].bos[i]
      IN First(IF heap[b] # 0 THEN heap[b] ELSE Size(b)) \subseteq pte[task[t].vm][b]

\* A freed object leaves no page wired: put_page balances what
\* shmem_read_mapping_page wired.
FreedIsUnwired ==
  \A b \in born : gemRefs[b] = 0 => \A p \in Page : wired[b][p] = 0

=============================================================================
