------------------------------- MODULE LimaCtx -------------------------------
(***************************************************************************)
(* Contexts (lima_ctx.c) and the ioctls of one file that use them, over    *)
(* the device of LimaDevice.  A context has one scheduler entity for each  *)
(* pipe; drm_sched_main takes a job from the queue of an entity and gives  *)
(* it to lima_sched_run_job, which is Submit of LimaDevice.                *)
(*                                                                         *)
(* The file is closed after its last ioctl has returned, the device is     *)
(* removed after the file is closed, and processes are frozen between      *)
(* ioctls before it is suspended.  A thread names a context only after the *)
(* ioctl that creates it has returned.                                     *)
(***************************************************************************)
EXTENDS LimaDevice

CONSTANTS
  Ctx,       \* contexts
  Thread,    \* threads of the process
  MaxQueued  \* how many jobs wait in the queue of an entity

ASSUME CtxAssumption ==
  /\ Ctx # {} /\ MaxQueued \in Nat \ {0}
  /\ IsFiniteSet(Thread) /\ {"close", "none"} \cap Thread = {}

\* lima_drm_driver_postclose runs on a thread of its own.
Actor == Thread \cup {"close"}

VARIABLES
  file,     \* "closed", "open", or "closing" in lima_drm_driver_postclose
  handles,  \* mgr->handles
  lock,     \* who holds mgr->lock, or "none"
  refcnt,   \* of each context, 0 if it is not allocated
  entity,   \* the pipes each context has an entity of
  queued,   \* how many jobs wait in each entity
  owner,    \* whose entity each pipe's job came from: task->base.entity
  act,      \* what each thread does
  on        \* the context and pipe it does it to

fileVars   == <<file, handles, lock>>
threadVars == <<act, on>>
ctxVars    == <<fileVars, refcnt, entity, queued, owner, threadVars>>
ctxAllVars == <<vars, ctxVars>>

Targets == Ctx \X Pipe
Nobody  == CHOOSE x \in Targets : TRUE  \* while a thread does nothing

CtxTypeOK ==
  /\ TypeOK
  /\ file \in {"closed", "open", "closing"} /\ handles \subseteq Ctx
  /\ lock \in Thread \cup {"none"}
  /\ refcnt \in [Ctx -> Nat] /\ entity \in [Ctx -> SUBSET Pipe]
  /\ queued \in [Targets -> 0 .. MaxQueued] /\ owner \in [Pipe -> Ctx]
  /\ act \in [Actor -> {"idle", "created", "submit", "put", "release"}]
  /\ on \in [Actor -> Targets]

CtxInit ==
  /\ Init
  /\ file = "closed" /\ handles = {} /\ lock = "none"
  /\ refcnt = [c \in Ctx |-> 0] /\ entity = [c \in Ctx |-> {}]
  /\ queued = [x \in Targets |-> 0] /\ owner = [p \in Pipe |-> Nobody[1]]
  /\ act = [t \in Actor |-> "idle"] /\ on = [t \in Actor |-> Nobody]

Allocated == {c \in Ctx : refcnt[c] > 0}
Goto(t, from, to, x) ==
  /\ act[t] = from /\ act' = [act EXCEPT ![t] = to]
  /\ on' = [on EXCEPT ![t] = IF to = "idle" THEN Nobody ELSE x]

\* A thread calls an ioctl of the file, which runs while the device is live.
Calls(t) == file = "open" /\ pc = "live" /\ act[t] = "idle"

-----------------------------------------------------------------------------
(***************************************************************************)
(* Reference counts and release.                                           *)
(***************************************************************************)

\* kref_put: the last reference starts lima_ctx_do_release.
Put(t, from, c) ==
  /\ refcnt' = [refcnt EXCEPT ![c] = @ - 1]
  /\ IF refcnt[c] = 1 THEN Goto(t, from, "release", <<c, "gp">>)
                      ELSE Goto(t, from, "idle", <<>>)

\* drm_sched_entity_destroy waits for the queue to drain; a process that is
\* killed, or has waited long enough, throws away what still waits there.
\* Neither looks at the job that the hardware has.
Release_OneShort(t) ==
  /\ Goto(t, "release", "idle", <<>>)
  /\ queued' = [queued EXCEPT ![on[t]] = 0]
  /\ entity' = [entity EXCEPT ![on[t][1]] = @ \ {on[t][2]}]
  /\ lock' = IF lock = t THEN "none" ELSE lock
  /\ UNCHANGED <<vars, file, handles, refcnt, owner>>
Release(t) ==
  /\ act[t] = "release"
  /\ LET c == on[t][1]  p == on[t][2] IN
     /\ queued' = [queued EXCEPT ![on[t]] = 0]
     /\ entity' = [entity EXCEPT ![c] = @ \ {p}]
     /\ IF p = "gp" THEN Goto(t, "release", "release", <<c, "pp">>) /\ UNCHANGED lock
        ELSE Goto(t, "release", "idle", <<>>) /\ lock' = IF lock = t THEN "none" ELSE lock
  /\ UNCHANGED <<vars, file, handles, refcnt, owner>>

-----------------------------------------------------------------------------
(***************************************************************************)
(* The file and its ioctls.                                                *)
(***************************************************************************)

\* lima_drm_driver_open.
Open ==
  /\ pc = "live" /\ file = "closed" /\ file' = "open"
  /\ UNCHANGED <<vars, handles, lock, refcnt, entity, queued, owner, threadVars>>

\* lima_ctx_create up to xa_alloc.
CtxCreate(t, c) ==
  /\ Calls(t) /\ c \notin Allocated /\ entity[c] = {}
  /\ refcnt' = [refcnt EXCEPT ![c] = 1]
  /\ entity' = [entity EXCEPT ![c] = Pipe]
  /\ handles' = handles \cup {c}
  /\ Goto(t, "idle", "created", <<c, "gp">>)
  /\ UNCHANGED <<vars, file, lock, queued, owner>>

\* Its pid and name, after xa_alloc; then the thread has the handle.
CtxCreated(t) ==
  /\ Goto(t, "created", "idle", <<>>)
  /\ UNCHANGED <<vars, fileVars, refcnt, entity, queued, owner>>

\* mgr->lock is held over lima_ctx_do_release.
CtxFree(t, c) ==
  /\ Calls(t) /\ lock = "none" /\ c \in handles /\ handles' = handles \ {c}
  /\ lock' = IF refcnt[c] = 1 THEN t ELSE "none"
  /\ Put(t, "idle", c)
  /\ UNCHANGED <<vars, file, entity, queued, owner>>

\* lima_ctx_get of lima_ioctl_gem_submit; without the context it is -ENOENT.
CtxGet_NoRef(t, c, p) ==
  /\ Calls(t) /\ lock = "none" /\ c \in handles /\ UNCHANGED refcnt
  /\ Goto(t, "idle", "submit", <<c, p>>)
  /\ UNCHANGED <<vars, fileVars, entity, queued, owner>>
CtxGet(t, c, p) ==
  /\ Calls(t) /\ lock = "none" /\ c \in handles
  /\ refcnt' = [refcnt EXCEPT ![c] = @ + 1]
  /\ Goto(t, "idle", "submit", <<c, p>>)
  /\ UNCHANGED <<vars, fileVars, entity, queued, owner>>

\* lima_gem_submit: lima_sched_context_queue_task, or it fails before.
GemSubmit(t) ==
  /\ Goto(t, "submit", "put", on[t])
  /\ \/ queued[on[t]] < MaxQueued /\ queued' = [queued EXCEPT ![on[t]] = @ + 1]
     \/ UNCHANGED queued
  /\ UNCHANGED <<vars, fileVars, refcnt, entity, owner>>

CtxPut(t) ==
  /\ act[t] = "put" /\ Put(t, "put", on[t][1])
  /\ UNCHANGED <<vars, fileVars, entity, queued, owner>>

\* The last close; lima_ctx_mgr_fini takes no lock.
Close ==
  /\ file = "open" /\ file' = "closing" /\ \A t \in Thread : act[t] = "idle"
  /\ UNCHANGED <<vars, handles, lock, refcnt, entity, queued, owner, threadVars>>

CtxMgrFini(c) ==
  /\ file = "closing" /\ c \in handles /\ handles' = handles \ {c}
  /\ Put("close", "idle", c)
  /\ UNCHANGED <<vars, file, lock, entity, queued, owner>>

\* lima_vm_put and kfree(priv).
PostClose ==
  /\ file = "closing" /\ handles = {} /\ act["close"] = "idle"
  /\ file' = "closed"
  /\ UNCHANGED <<vars, handles, lock, refcnt, entity, queued, owner, threadVars>>

-----------------------------------------------------------------------------
\* drm_sched_main takes a job from an entity; the pipe has one at a time.
Pop(c, p) ==
  /\ queued[<<c, p>>] > 0 /\ p \in entity[c]
  /\ queued' = [queued EXCEPT ![<<c, p>>] = @ - 1]
  /\ owner' = [owner EXCEPT ![p] = c]
  /\ Submit(p)
  /\ UNCHANGED <<fileVars, refcnt, entity, threadVars>>

\* Of a job that is over nothing refers to its entity.
Ends(p) == owner' = [owner EXCEPT ![p] = Nobody[1]]
JobEnds(p) ==
  /\ (Irq(p) \/ Timeout(p)) /\ Ends(p)
  /\ UNCHANGED <<fileVars, refcnt, entity, queued, threadVars>>

Frozen == \A t \in Actor : act[t] = "idle"
FiniJob == (PpFini /\ Ends("pp")) \/ (GpFini /\ Ends("gp"))

DeviceSteps ==
  \/ Bringup /\ UNCHANGED ctxVars
  \/ /\ file = "closed"
     /\ \/ FiniJob /\ UNCHANGED <<fileVars, refcnt, entity, queued, threadVars>>
        \/ /\ Remove \/ Fini \/ FiniIp \/ VmPut \/ RegulatorFini \/ ClkFini \/ DdevPut
              \/ SlabFini
           /\ UNCHANGED ctxVars
  \/ Power /\ Frozen /\ UNCHANGED ctxVars
  \/ SysctlClear /\ UNCHANGED ctxVars

Ioctl(t) ==
  \/ \E c \in Ctx : CtxCreate(t, c) \/ CtxFree(t, c) \/ \E p \in Pipe : CtxGet(t, c, p)
  \/ CtxCreated(t) \/ GemSubmit(t) \/ CtxPut(t)

CtxNext ==
  \/ DeviceSteps \/ Open \/ Close \/ PostClose
  \/ \E t \in Thread : Ioctl(t)
  \/ \E t \in Actor : Release(t)
  \/ \E c \in Ctx : CtxMgrFini(c) \/ \E p \in Pipe : Pop(c, p)
  \/ \E p \in Pipe : JobEnds(p) \/ (HwDone(p) /\ UNCHANGED ctxVars)

CtxSpec == CtxInit /\ [][CtxNext]_ctxAllVars

-----------------------------------------------------------------------------
(***************************************************************************)
(* Properties.                                                             *)
(***************************************************************************)

Holders(c) == {t \in Thread : act[t] \in {"submit", "put"} /\ on[t][1] = c}

\* The count of a context is exactly its handle and the submissions that are
\* under way (lima_ctx_get, lima_ctx_put), and it is released only when there
\* are none: a handle that is freed while another thread submits with it, or
\* with the file, neither leaks the context nor pulls it away.
CtxRefsExact ==
  \A c \in Ctx :
    /\ refcnt[c] = Cardinality(Holders(c)) + (IF c \in handles THEN 1 ELSE 0)
    /\ refcnt[c] > 0 => entity[c] = Pipe

\* A job that waits in a queue has the entity it waits in, and after the last
\* close of the file there is no context and nothing waits: lima_sched_main
\* never takes a job from an entity that is gone.
QueuedHaveEntity ==
  /\ \A c \in Ctx, p \in Pipe : queued[<<c, p>>] > 0 => p \in entity[c]
  /\ file = "closed" => \A c \in Ctx : entity[c] = {} /\ refcnt[c] = 0

\* "The context is freed only when all other held references (e.g. in-flight
\* GPU jobs) are also released" (lima_ctx.c, lima_ctx_free).  Not so: a job
\* holds no reference, and lima_sched_build_error_task_list finds the context
\* through task->base.entity when the job times out.
JobsKeepContext ==
  \A p \in Pipe : job[p] # "none" => owner[p] \in Allocated
=============================================================================
