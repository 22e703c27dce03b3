------------------------------ MODULE ShmemGem ------------------------------
(***************************************************************************)
(* The shmem helper (drm/drm_gem_shmem_helper.c, drm_gem_shmem_logic.h):   *)
(* one GEM object whose pages are wired while anybody uses them.  Mappings *)
(* of user space, kernel mappings, exports and the device's sg table each  *)
(* count as a use of the pages; the object itself lives as long as someone *)
(* has a GEM reference.                                                    *)
(*                                                                         *)
(* Every function runs under the object's dma_resv, so it is one action;   *)
(* what is done outside the lock is an action of its own.  All pages of    *)
(* the object fare alike.  Imported objects are not modelled.              *)
(*                                                                         *)
(* The mappings of one object share one pager object and one               *)
(* vm_area_struct (drm/PURGE-NOTES.md, section 4).  Each mmap of it takes  *)
(* a GEM reference and a use of the pages; drm_gem_shmem_vm_close gives    *)
(* one of each back when the last mapping goes.                            *)
(***************************************************************************)
EXTENDS Integers, FiniteSets

CONSTANTS
  Vma,      \* mappings of user space that may ever exist
  MaxUses,  \* bound of the model: kernel mappings, exports, joined mappings
  MapWc     \* 1: shmem->map_wc is set, 0: it is not

ASSUME ShmemAssumption ==
  IsFiniteSet(Vma) /\ MaxUses \in Nat /\ MapWc \in 0 .. 1

VARIABLES
  life,      \* "none", "live" or "freed"
  obj,       \* the fields of struct drm_gem_shmem_object, and its pages
  gemRefs,   \* drm_gem_object.refcount
  handle,    \* 1 while user space has a handle
  offset,    \* 1 while the object has an mmap offset
  vmas,      \* mappings of user space
  closing,   \* mappings between drm_gem_shmem_vm_close and drm_gem_vm_close
  joined,    \* history: mmaps and opens that found the vm_area_struct in use
  ptes,      \* mappings that have page table entries
  kmaps,     \* kernel mappings their users have not given back
  pins       \* exports that pin the object

userVars == <<gemRefs, handle, vmas, closing, joined, kmaps, pins>>
vars == <<life, obj, offset, ptes, userVars>>

\* pages, vaddr and sgt are 0 for NULL and 1 otherwise; wired counts the
\* wirings of each page, wc is 1 when the pages are write-combining.
Object == [pagesUse : Nat, vmapUse : Nat, pages : 0 .. 1, wired : 0 .. 1,
           wc : 0 .. 1, vaddr : 0 .. 1, sgt : 0 .. 1, madv : -1 .. 1]

NewObject == [pagesUse |-> 0, vmapUse |-> 0, pages |-> 0, wired |-> 0, wc |-> 0,
              vaddr |-> 0, sgt |-> 0, madv |-> 0]

Init ==
  /\ life = "none" /\ obj = NewObject /\ offset = 0
  /\ gemRefs = 0 /\ handle = 0 /\ joined = 0 /\ kmaps = 0 /\ pins = 0
  /\ vmas = {} /\ closing = {} /\ ptes = {}

-----------------------------------------------------------------------------
(***************************************************************************)
(* What the functions do to the object.                                    *)
(***************************************************************************)

\* drm_gem_shmem_get_pages: the first use wires the pages.
GetPages(o) ==
  IF o.pagesUse > 0
  THEN [o EXCEPT !.pagesUse = @ + 1]
  ELSE [o EXCEPT !.pagesUse = 1, !.pages = 1, !.wired = 1, !.wc = MapWc]

\* drm_gem_shmem_put_pages: the last use gives them back, with the cache
\* attribute they came with.  A put without a get is ignored.
PutPages_Early(o) ==
  IF o.pagesUse = 0 THEN o
  ELSE IF o.pagesUse > 2 THEN [o EXCEPT !.pagesUse = @ - 1]
  ELSE [o EXCEPT !.pagesUse = @ - 1, !.pages = 0, !.wired = 0, !.wc = 0]
PutPages(o) ==
  IF o.pagesUse = 0 THEN o
  ELSE IF o.pagesUse > 1 THEN [o EXCEPT !.pagesUse = @ - 1]
  ELSE [o EXCEPT !.pagesUse = 0, !.pages = 0, !.wired = 0, !.wc = 0]

\* drm_gem_shmem_vmap, drm_gem_shmem_vunmap.
VmapObject(o) ==
  IF o.vmapUse > 0
  THEN [o EXCEPT !.vmapUse = @ + 1]
  ELSE [GetPages(o) EXCEPT !.vmapUse = 1, !.vaddr = 1]

\* vmap() returns NULL on the first use: the pages are put, the count zeroed.
VmapFailed_KeepsPages(o) == [GetPages(o) EXCEPT !.vmapUse = 0]
VmapFailed(o) == [PutPages(GetPages(o)) EXCEPT !.vmapUse = 0]

VunmapObject(o) ==
  IF o.vmapUse > 1
  THEN [o EXCEPT !.vmapUse = @ - 1]
  ELSE [PutPages([o EXCEPT !.vmapUse = 0]) EXCEPT !.vaddr = 0]

\* drm_gem_shmem_get_pages_sgt_locked: the table is cached and has one use
\* of the pages; without a table, or without a DMA mapping, the use is put.
SgtObject(o)  == IF o.sgt = 1 THEN o ELSE [GetPages(o) EXCEPT !.sgt = 1]
SgtFailed(o)  == PutPages(GetPages(o))

\* drm_gem_shmem_is_purgeable.  A pinned object is exported, its dma_buf is
\* set; the model also purges one whose export pins nothing any more.
Purgeable(o) == o.madv > 0 /\ o.vmapUse = 0 /\ o.sgt = 1 /\ pins = 0

\* drm_gem_shmem_free.
FreeObject_KeepsPages(o) == [o EXCEPT !.sgt = 0]
FreeObject(o) ==
  IF o.pages = 1 THEN PutPages([o EXCEPT !.sgt = 0]) ELSE [o EXCEPT !.sgt = 0]

-----------------------------------------------------------------------------
(***************************************************************************)
(* Handles and references.                                                 *)
(***************************************************************************)
InUse == life = "live" /\ gemRefs > 0

\* drm_gem_shmem_create and drm_gem_handle_create.
Create ==
  /\ life = "none"
  /\ life' = "live" /\ gemRefs' = 1 /\ handle' = 1 /\ offset' = 1
  /\ UNCHANGED <<obj, vmas, closing, joined, ptes, kmaps, pins>>

CloseHandle ==
  /\ handle = 1
  /\ handle' = 0 /\ gemRefs' = gemRefs - 1
  /\ UNCHANGED <<life, obj, offset, vmas, closing, joined, ptes, kmaps, pins>>

\* The last drm_gem_object_put: drm_gem_shmem_free.
Free ==
  /\ life = "live" /\ gemRefs = 0
  /\ life' = "freed" /\ obj' = FreeObject(obj) /\ offset' = 0
  /\ UNCHANGED <<ptes, userVars>>

-----------------------------------------------------------------------------
(***************************************************************************)
(* The device: drm_gem_shmem_get_pages_sgt.                                *)
(***************************************************************************)
GetSgt ==
  /\ InUse
  /\ obj' \in {SgtObject(obj)} \cup (IF obj.sgt = 0 THEN {SgtFailed(obj)} ELSE {})
  /\ UNCHANGED <<life, offset, ptes, userVars>>

-----------------------------------------------------------------------------
(***************************************************************************)
(* Mappings of user space.                                                 *)
(***************************************************************************)

\* drm_gem_mmap_obj takes the reference, drm_gem_shmem_mmap the pages.  The
\* pager keeps the vm_area_struct of the mapping that is there already.
Joined == IF vmas = {} THEN joined ELSE joined + 1
Mmap_NoRef(v) ==
  /\ InUse /\ handle = 1 /\ offset = 1
  /\ v \notin vmas \cup closing /\ Joined <= MaxUses
  /\ obj' = GetPages(obj) /\ vmas' = vmas \cup {v} /\ joined' = Joined
  /\ UNCHANGED <<life, offset, gemRefs, handle, closing, ptes, kmaps, pins>>
Mmap(v) ==
  /\ InUse /\ handle = 1 /\ offset = 1
  /\ v \notin vmas \cup closing /\ Joined <= MaxUses
  /\ obj' = GetPages(obj) /\ gemRefs' = gemRefs + 1 /\ vmas' = vmas \cup {v}
  /\ joined' = Joined
  /\ UNCHANGED <<life, offset, handle, closing, ptes, kmaps, pins>>

\* A copy of a mapping (fork, mremap, partial unmap) refers to the pager
\* object once more.  Whether the pager calls drm_gem_shmem_vm_open for it is
\* not in this repository: it may (VmOpen) or not (Copy).
Copy(v) ==
  /\ vmas # {} /\ v \notin vmas \cup closing
  /\ vmas' = vmas \cup {v}
  /\ UNCHANGED <<life, obj, offset, gemRefs, handle, closing, joined, ptes, kmaps, pins>>
VmOpen(v) ==
  /\ vmas # {} /\ v \notin vmas \cup closing /\ Joined <= MaxUses
  /\ obj' = IF obj.pagesUse > 0 THEN [obj EXCEPT !.pagesUse = @ + 1] ELSE obj
  /\ gemRefs' = gemRefs + 1 /\ vmas' = vmas \cup {v} /\ joined' = Joined
  /\ UNCHANGED <<life, offset, handle, closing, ptes, kmaps, pins>>

\* drm_gem_shmem_fault: SIGBUS once the object is purged, or without pages.
Fault_AfterPurge(v) ==
  /\ v \in vmas /\ obj.pages = 1
  /\ ptes' = ptes \cup {v}
  /\ UNCHANGED <<life, obj, offset, userVars>>
Fault(v) ==
  /\ v \in vmas /\ obj.pages = 1 /\ obj.madv >= 0
  /\ ptes' = ptes \cup {v}
  /\ UNCHANGED <<life, obj, offset, userVars>>

\* A mapping goes away and leaves others of the pager object.
Unmap(v) ==
  /\ v \in vmas /\ vmas # {v}
  /\ vmas' = vmas \ {v} /\ ptes' = ptes \ {v}
  /\ UNCHANGED <<life, obj, offset, gemRefs, handle, closing, joined, kmaps, pins>>

\* The last mapping goes away: the pager calls drm_gem_shmem_vm_close, which
\* has two halves.
VmClose(v) ==
  /\ vmas = {v}
  /\ vmas' = {} /\ closing' = closing \cup {v} /\ ptes' = {}
  /\ obj' = PutPages(obj)
  /\ UNCHANGED <<life, offset, gemRefs, handle, joined, kmaps, pins>>

VmClosePut(v) ==
  /\ v \in closing
  /\ closing' = closing \ {v} /\ gemRefs' = gemRefs - 1
  /\ UNCHANGED <<life, obj, offset, handle, vmas, joined, ptes, kmaps, pins>>

-----------------------------------------------------------------------------
(***************************************************************************)
(* Kernel mappings and exports; a user of either has a GEM reference.      *)
(***************************************************************************)
Vmap ==
  /\ InUse /\ kmaps < MaxUses
  /\ obj' = VmapObject(obj) /\ kmaps' = kmaps + 1 /\ gemRefs' = gemRefs + 1
  /\ UNCHANGED <<life, offset, handle, vmas, closing, joined, ptes, pins>>

VmapFails ==
  /\ InUse /\ obj.vmapUse = 0
  /\ obj' = VmapFailed(obj)
  /\ UNCHANGED <<life, offset, ptes, userVars>>

Vunmap ==
  /\ kmaps > 0
  /\ obj' = VunmapObject(obj) /\ kmaps' = kmaps - 1 /\ gemRefs' = gemRefs - 1
  /\ UNCHANGED <<life, offset, handle, vmas, closing, joined, ptes, pins>>

Pin ==
  /\ InUse /\ pins < MaxUses
  /\ obj' = GetPages(obj) /\ pins' = pins + 1 /\ gemRefs' = gemRefs + 1
  /\ UNCHANGED <<life, offset, handle, vmas, closing, joined, ptes, kmaps>>

Unpin ==
  /\ pins > 0
  /\ obj' = PutPages(obj) /\ pins' = pins - 1 /\ gemRefs' = gemRefs - 1
  /\ UNCHANGED <<life, offset, handle, vmas, closing, joined, ptes, kmaps>>

-----------------------------------------------------------------------------
(***************************************************************************)
(* Reclaim.                                                                *)
(***************************************************************************)
Madvise(m) ==
  /\ InUse
  /\ obj' = IF obj.madv >= 0 THEN [obj EXCEPT !.madv = m] ELSE obj
  /\ UNCHANGED <<life, offset, ptes, userVars>>

\* drm_gem_shmem_zap_ptes looks at the pages of the object, whoever maps them.
Zapped_None(p) == p
Zapped(p) == {}

Purge ==
  /\ InUse /\ Purgeable(obj)
  /\ ptes' = Zapped(ptes)
  /\ obj' = [PutPages([obj EXCEPT !.sgt = 0]) EXCEPT !.madv = -1]
  /\ offset' = 0
  /\ UNCHANGED <<life, userVars>>

-----------------------------------------------------------------------------
VmaStep(v) == Mmap(v) \/ Copy(v) \/ VmOpen(v) \/ Fault(v) \/ Unmap(v) \/ VmClose(v)
              \/ VmClosePut(v)
KernelStep == Vmap \/ VmapFails \/ Vunmap \/ Pin \/ Unpin \/ GetSgt
Reclaim    == (\E m \in 0 .. 1 : Madvise(m)) \/ Purge

Next ==
  Create \/ CloseHandle \/ Free \/ (\E v \in Vma : VmaStep(v))
  \/ KernelStep \/ Reclaim

Spec == Init /\ [][Next]_vars

-----------------------------------------------------------------------------
(***************************************************************************)
(* Properties.                                                             *)
(***************************************************************************)
TypeOK ==
  /\ life \in {"none", "live", "freed"} /\ obj \in Object
  /\ gemRefs \in Nat /\ handle \in 0 .. 1 /\ offset \in 0 .. 1
  /\ vmas \subseteq Vma /\ closing \subseteq Vma /\ ptes \subseteq vmas
  /\ joined \in Nat /\ kmaps \in Nat /\ pins \in Nat

\* vmap_use_count is the number of kernel mappings handed out.
\* pages_use_count is the number of its users: the user mappings together, an
\* export, the sg table, the kernel mapping; and of each mmap or open that found
\* the vm_area_struct in use, which nothing closes.  No failed call and no order
\* of the calls puts a use twice, or loses one besides these.
One(condition) == IF condition THEN 1 ELSE 0
UsesExact ==
  /\ obj.vmapUse = kmaps
  /\ obj.pagesUse = One(vmas # {}) + joined + pins + obj.sgt + One(kmaps > 0)

\* The GEM references are the handle's, the user mappings', the kernel
\* mappings' and the exports', and those of the joined mmaps.
RefsExact ==
  gemRefs = handle + One(vmas # {}) + joined + Cardinality(closing) + kmaps + pins

\* An object that user space, the kernel and the device have let go is freed,
\* or has no reference left: false once a mapping was joined.
LetGoIsFreed ==
  life = "live" /\ handle = 0 /\ vmas \cup closing = {} /\ kmaps = 0 /\ pins = 0
    => gemRefs = 0

\* The pages are there, wired and with the attribute asked for exactly while
\* they are in use, and go back to the system as they came.
PagesMatch(o) ==
  /\ o.pages = IF o.pagesUse > 0 THEN 1 ELSE 0
  /\ o.wired = o.pages /\ o.wc = IF o.pages = 1 THEN MapWc ELSE 0
PagesWhileUsed ==
  PagesMatch(obj) /\ obj.vaddr = IF obj.vmapUse > 0 THEN 1 ELSE 0

\* Nobody reaches a page that is not wired: not user space by a page table
\* entry, not the kernel by vaddr, not the device by the sg table.
ReachedIsWired ==
  ptes # {} \/ obj.vaddr = 1 \/ obj.sgt = 1 => obj.wired = 1

\* A purged object has no page table entry, and never gets one again.
PurgedIsUnmapped == obj.madv = -1 => ptes = {}

\* drm_gem_shmem_free leaves nothing behind: its warnings never fire.
FreedIsClean ==
  life = "freed" => /\ obj.pagesUse = 0 /\ obj.vmapUse = 0 /\ obj.sgt = 0
                    /\ obj.wired = 0 /\ obj.wc = 0 /\ vmas \cup closing = {}

=============================================================================
