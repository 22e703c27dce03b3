--------------------------- MODULE ShmemGemProofs ---------------------------
(***************************************************************************)
(* The safety properties of ShmemGem for any number of mappings, kernel    *)
(* mappings and exports.                                                   *)
(*                                                                         *)
(* UsesExact is not inductive alone: that the last GEM reference finds no  *)
(* use of the pages left but the sg table's needs the GEM references to be *)
(* exact too (RefsExact), and a mapping to be in one place only.           *)
(***************************************************************************)
EXTENDS ShmemGem, FiniteSetTheorems, TLAPS

\* Before its creation and after drm_gem_shmem_free nothing refers to the
\* object.
Dead == life # "live" => gemRefs = 0 /\ obj.sgt = 0

Inv ==
  /\ TypeOK /\ vmas \cap closing = {}
  /\ RefsExact /\ UsesExact /\ PagesWhileUsed /\ PurgedIsUnmapped /\ Dead

-----------------------------------------------------------------------------
(***************************************************************************)
(* What the functions do to the object.                                    *)
(***************************************************************************)

\* The object o has matching pages, n uses of them, k kernel mappings, the
\* kernel address a, the sg table s and the advice m.
Fields(o, n, k, a, s, m) ==
  /\ o \in Object /\ PagesMatch(o) /\ o.pagesUse = n
  /\ o.vmapUse = k /\ o.vaddr = a /\ o.sgt = s /\ o.madv = m

\* The values the functions write are of the fields' types.
LEMMA Values == /\ 0 \in Nat /\ 1 \in Nat
                /\ 0 \in 0 .. 1 /\ 1 \in 0 .. 1 /\ -1 \in -1 .. 1
  OBVIOUS

\* Pages and page count may be set to anything of their types.
SetPages(o, n, p, q, w) ==
  [o EXCEPT !.pagesUse = n, !.pages = p, !.wired = q, !.wc = w]

LEMMA PagesFields ==
  ASSUME NEW o \in Object,
         NEW n \in Nat, NEW p \in 0 .. 1, NEW q \in 0 .. 1, NEW w \in 0 .. 1
  PROVE  SetPages(o, n, p, q, w) \in Object
<1> DEFINE a == [o EXCEPT !.pagesUse = n]
           b == [a EXCEPT !.pages = p]
           c == [b EXCEPT !.wired = q]
           d == [c EXCEPT !.wc = w]
<1>1. a \in Object
  BY DEF Object
<1>2. b \in Object
  BY <1>1 DEF Object
<1>3. c \in Object
  BY <1>2 DEF Object
<1>4. d \in Object
  BY <1>3 DEF Object
<1>5. SetPages(o, n, p, q, w) = d
  BY DEF Object, SetPages
<1> QED
  BY <1>4, <1>5

\* drm_gem_shmem_get_pages adds one use and keeps pages and count matched.
LEMMA GetPagesAdds ==
  ASSUME NEW o \in Object, PagesMatch(o)
  PROVE  Fields(GetPages(o), o.pagesUse + 1, o.vmapUse, o.vaddr, o.sgt, o.madv)
<1>1. o.pagesUse \in Nat
  BY DEF Object
<1>2. CASE o.pagesUse > 0
  <2>1. GetPages(o) = [o EXCEPT !.pagesUse = @ + 1]
    BY <1>2 DEF GetPages
  <2> QED
    BY <1>1, <1>2, <2>1 DEF Object, PagesMatch, Fields
<1>3. CASE o.pagesUse = 0
  <2>1. GetPages(o)
          = [o EXCEPT !.pagesUse = 1, !.pages = 1, !.wired = 1, !.wc = MapWc]
    BY <1>3 DEF GetPages
  <2>2. GetPages(o) \in Object
    <3>1. SetPages(o, 1, 1, 1, MapWc) \in Object
      BY Values, PagesFields, ShmemAssumption, Zenon
    <3> QED
      BY <2>1, <3>1 DEF SetPages
  <2>3. PagesMatch(GetPages(o))
    BY <2>1 DEF Object, PagesMatch
  <2> QED
    BY <1>3, <2>1, <2>2, <2>3 DEF Object, Fields
<1> QED
  BY <1>1, <1>2, <1>3

\* drm_gem_shmem_put_pages takes one use away, if there is one.
LEMMA PutPagesDrops ==
  ASSUME NEW o \in Object, PagesMatch(o)
  PROVE  Fields(PutPages(o), IF o.pagesUse > 0 THEN o.pagesUse - 1 ELSE 0,
                o.vmapUse, o.vaddr, o.sgt, o.madv)
<1>1. o.pagesUse \in Nat
  BY DEF Object
<1>2. CASE o.pagesUse = 0
  <2>1. PutPages(o) = o
    BY <1>2 DEF PutPages
  <2> QED
    BY <1>1, <1>2, <2>1 DEF Fields
<1>3. CASE o.pagesUse > 1
  <2>1. PutPages(o) = [o EXCEPT !.pagesUse = @ - 1]
    BY <1>1, <1>3 DEF PutPages
  <2> QED
    BY <1>1, <1>3, <2>1 DEF Object, PagesMatch, Fields
<1>4. CASE o.pagesUse = 1
  <2>1. PutPages(o)
          = [o EXCEPT !.pagesUse = 0, !.pages = 0, !.wired = 0, !.wc = 0]
    BY <1>4 DEF PutPages
  <2>2. PutPages(o) \in Object
    <3>1. SetPages(o, 0, 0, 0, 0) \in Object
      BY Values, PagesFields, Zenon
    <3> QED
      BY <2>1, <3>1 DEF SetPages
  <2>3. PagesMatch(PutPages(o))
    BY <2>1 DEF Object, PagesMatch
  <2> QED
    BY <1>4, <2>1, <2>2, <2>3 DEF Object, Fields
<1> QED
  BY <1>1, <1>2, <1>3, <1>4

\* The counts and pointers around the pages are set without touching them.
LEMMA SetSgt ==
  ASSUME NEW o \in Object, PagesMatch(o), NEW s \in 0 .. 1
  PROVE  Fields([o EXCEPT !.sgt = s], o.pagesUse, o.vmapUse, o.vaddr, s, o.madv)
  BY DEF Object, PagesMatch, Fields

LEMMA SetMadv ==
  ASSUME NEW o \in Object, PagesMatch(o), NEW m \in -1 .. 1
  PROVE  Fields([o EXCEPT !.madv = m], o.pagesUse, o.vmapUse, o.vaddr, o.sgt, m)
  BY DEF Object, PagesMatch, Fields

LEMMA SetVmapUse ==
  ASSUME NEW o \in Object, PagesMatch(o), NEW k \in Nat
  PROVE  Fields([o EXCEPT !.vmapUse = k], o.pagesUse, k, o.vaddr, o.sgt, o.madv)
  BY DEF Object, PagesMatch, Fields

LEMMA SetVaddr ==
  ASSUME NEW o \in Object, PagesMatch(o), NEW a \in 0 .. 1
  PROVE  Fields([o EXCEPT !.vaddr = a], o.pagesUse, o.vmapUse, a, o.sgt, o.madv)
  BY DEF Object, PagesMatch, Fields

\* drm_gem_shmem_vmap adds a kernel mapping; the first one uses the pages.
LEMMA VmapAdds ==
  ASSUME NEW o \in Object, PagesMatch(o), o.vaddr = IF o.vmapUse > 0 THEN 1 ELSE 0
  PROVE  Fields(VmapObject(o), o.pagesUse + IF o.vmapUse > 0 THEN 0 ELSE 1,
                o.vmapUse + 1, 1, o.sgt, o.madv)
<1>1. o.vmapUse \in Nat /\ o.pagesUse \in Nat
  BY DEF Object
<1>2. CASE o.vmapUse > 0
  <2>1. VmapObject(o) = [o EXCEPT !.vmapUse = o.vmapUse + 1]
    BY <1>2 DEF VmapObject
  <2> QED
    BY <1>1, <1>2, <2>1, SetVmapUse DEF Fields
<1>3. CASE o.vmapUse = 0
  <2> DEFINE p == GetPages(o)
             q == [p EXCEPT !.vmapUse = 1]
  <2>1. Fields(p, o.pagesUse + 1, 0, o.vaddr, o.sgt, o.madv)
    BY <1>3, GetPagesAdds
  <2>2. Fields(q, o.pagesUse + 1, 1, o.vaddr, o.sgt, o.madv)
    BY <2>1, SetVmapUse DEF Fields
  <2>3. VmapObject(o) = [q EXCEPT !.vaddr = 1]
    BY <1>3, <2>1 DEF VmapObject, Fields, Object
  <2> HIDE DEF q
  <2> QED
    <3>1. q \in Object /\ PagesMatch(q)
      BY <2>2 DEF Fields
    <3>2. Fields([q EXCEPT !.vaddr = 1], q.pagesUse, q.vmapUse, 1, q.sgt, q.madv)
      BY <3>1, SetVaddr, Values, Zenon
    <3> QED
      BY <1>1, <1>3, <2>2, <2>3, <3>2 DEF Fields
<1> QED
  BY <1>1, <1>2, <1>3

\* A failed drm_gem_shmem_vmap leaves the counts as they were.
LEMMA VmapFailedKeeps ==
  ASSUME NEW o \in Object, PagesMatch(o), o.vmapUse = 0
  PROVE  Fields(VmapFailed(o), o.pagesUse, 0, o.vaddr, o.sgt, o.madv)
<1> DEFINE p == GetPages(o)
           q == PutPages(p)
<1>1. o.pagesUse \in Nat
  BY DEF Object
<1>2. Fields(p, o.pagesUse + 1, 0, o.vaddr, o.sgt, o.madv)
  BY GetPagesAdds
<1>3. Fields(q, o.pagesUse, 0, o.vaddr, o.sgt, o.madv)
  <2> HIDE DEF p
  <2>1. p \in Object /\ PagesMatch(p) /\ p.pagesUse = o.pagesUse + 1
    BY <1>2 DEF Fields
  <2> QED
    BY <1>1, <1>2, <2>1, PutPagesDrops DEF Fields
<1>4. VmapFailed(o) = [q EXCEPT !.vmapUse = 0]
  BY DEF VmapFailed
<1> HIDE DEF q
<1> QED
  BY <1>3, <1>4, SetVmapUse DEF Fields

\* drm_gem_shmem_vunmap drops a kernel mapping; the last one puts the pages.
LEMMA VunmapDrops ==
  ASSUME NEW o \in Object, PagesMatch(o), o.vmapUse > 0, o.pagesUse > 0,
         o.vaddr = IF o.vmapUse > 0 THEN 1 ELSE 0
  PROVE  Fields(VunmapObject(o), o.pagesUse - IF o.vmapUse > 1 THEN 0 ELSE 1,
                o.vmapUse - 1, IF o.vmapUse > 1 THEN 1 ELSE 0, o.sgt, o.madv)
<1>1. o.vmapUse \in Nat /\ o.pagesUse \in Nat
  BY DEF Object
<1>2. CASE o.vmapUse > 1
  <2>1. VunmapObject(o) = [o EXCEPT !.vmapUse = o.vmapUse - 1]
    BY <1>2 DEF VunmapObject
  <2> QED
    BY <1>1, <1>2, <2>1, SetVmapUse DEF Fields
<1>3. CASE o.vmapUse = 1
  <2> DEFINE p == [o EXCEPT !.vmapUse = 0]
             q == PutPages(p)
  <2>1. Fields(p, o.pagesUse, 0, o.vaddr, o.sgt, o.madv)
    BY SetVmapUse
  <2>2. Fields(q, o.pagesUse - 1, 0, o.vaddr, o.sgt, o.madv)
    <3> HIDE DEF p
    <3>1. p \in Object /\ PagesMatch(p) /\ p.pagesUse = o.pagesUse
      BY <2>1 DEF Fields
    <3> QED
      BY <1>1, <2>1, <3>1, PutPagesDrops DEF Fields
  <2>3. VunmapObject(o) = [q EXCEPT !.vaddr = 0]
    BY <1>3 DEF VunmapObject
  <2> HIDE DEF q
  <2> QED
    <3>1. q \in Object /\ PagesMatch(q)
      BY <2>2 DEF Fields
    <3>2. Fields([q EXCEPT !.vaddr = 0], q.pagesUse, q.vmapUse, 0, q.sgt, q.madv)
      BY <3>1, SetVaddr, Values, Zenon
    <3> QED
      BY <1>1, <1>3, <2>2, <2>3, <3>2 DEF Fields
<1> QED
  BY <1>1, <1>2, <1>3

\* drm_gem_shmem_get_pages_sgt_locked: the table is one use of the pages, and
\* a failure leaves no use behind.
LEMMA SgtAdds ==
  ASSUME NEW o \in Object, PagesMatch(o)
  PROVE  Fields(SgtObject(o), o.pagesUse + 1 - o.sgt, o.vmapUse, o.vaddr, 1, o.madv)
<1>1. o.sgt \in 0 .. 1 /\ o.pagesUse \in Nat
  BY DEF Object
<1>2. CASE o.sgt = 1
  BY <1>1, <1>2 DEF SgtObject, Fields
<1>3. CASE o.sgt = 0
  <2> DEFINE p == GetPages(o)
  <2>1. Fields(p, o.pagesUse + 1, o.vmapUse, o.vaddr, 0, o.madv)
    BY <1>3, GetPagesAdds
  <2>2. SgtObject(o) = [p EXCEPT !.sgt = 1]
    BY <1>3 DEF SgtObject
  <2> HIDE DEF p
  <2> QED
    <3>1. p \in Object /\ PagesMatch(p)
      BY <2>1 DEF Fields
    <3>2. Fields([p EXCEPT !.sgt = 1], p.pagesUse, p.vmapUse, p.vaddr, 1, p.madv)
      BY <3>1, SetSgt, Values, Zenon
    <3> QED
      BY <1>1, <1>3, <2>1, <2>2, <3>2 DEF Fields
<1> QED
  BY <1>1, <1>2, <1>3

LEMMA SgtFailedKeeps ==
  ASSUME NEW o \in Object, PagesMatch(o)
  PROVE  Fields(SgtFailed(o), o.pagesUse, o.vmapUse, o.vaddr, o.sgt, o.madv)
<1> DEFINE p == GetPages(o)
<1>1. o.pagesUse \in Nat
  BY DEF Object
<1>2. Fields(p, o.pagesUse + 1, o.vmapUse, o.vaddr, o.sgt, o.madv)
  BY GetPagesAdds
<1>3. SgtFailed(o) = PutPages(p)
  BY DEF SgtFailed
<1> HIDE DEF p
<1> QED
  BY <1>1, <1>2, <1>3, PutPagesDrops DEF Fields

\* drm_gem_shmem_purge drops the use of the table, and the table.
LEMMA PurgeDrops ==
  ASSUME NEW o \in Object, PagesMatch(o), o.pagesUse > 0
  PROVE  Fields([PutPages([o EXCEPT !.sgt = 0]) EXCEPT !.madv = -1],
                o.pagesUse - 1, o.vmapUse, o.vaddr, 0, -1)
<1> DEFINE p == [o EXCEPT !.sgt = 0]
           q == PutPages(p)
<1>1. o.pagesUse \in Nat
  BY DEF Object
<1>2. Fields(p, o.pagesUse, o.vmapUse, o.vaddr, 0, o.madv)
  BY SetSgt, Values, Zenon
<1>3. Fields(q, o.pagesUse - 1, o.vmapUse, o.vaddr, 0, o.madv)
  <2> HIDE DEF p
  <2>1. p \in Object /\ PagesMatch(p) /\ p.pagesUse = o.pagesUse
    BY <1>2 DEF Fields
  <2> QED
    BY <1>1, <1>2, <2>1, PutPagesDrops DEF Fields
<1> HIDE DEF q
<1>4. q \in Object /\ PagesMatch(q)
  BY <1>3 DEF Fields
<1>5. Fields([q EXCEPT !.madv = -1], q.pagesUse, q.vmapUse, q.vaddr, q.sgt, -1)
  BY <1>4, SetMadv, Values, Zenon
<1> QED
  BY <1>3, <1>5 DEF Fields, q

\* drm_gem_shmem_free drops the table and, where there are pages, its use.
LEMMA FreeDrops ==
  ASSUME NEW o \in Object, PagesMatch(o)
  PROVE  Fields(FreeObject(o), IF o.pagesUse > 0 THEN o.pagesUse - 1 ELSE 0,
                o.vmapUse, o.vaddr, 0, o.madv)
<1> DEFINE p == [o EXCEPT !.sgt = 0]
<1>1. o.pagesUse \in Nat
  BY DEF Object
<1>2. Fields(p, o.pagesUse, o.vmapUse, o.vaddr, 0, o.madv)
  BY SetSgt, Values, Zenon
<1>3. FreeObject(o) = IF o.pagesUse > 0 THEN PutPages(p) ELSE p
  BY DEF FreeObject, PagesMatch
<1> HIDE DEF p
<1> QED
  BY <1>1, <1>2, <1>3, PutPagesDrops DEF Fields

-----------------------------------------------------------------------------
(***************************************************************************)
(* Every action keeps the invariant.                                       *)
(***************************************************************************)

\* The mappings are finitely many, and a set of them is empty when it has
\* none.
LEMMA Cards ==
  ASSUME NEW S \in SUBSET Vma
  PROVE  /\ IsFiniteSet(S) /\ Cardinality(S) \in Nat
         /\ (Cardinality(S) = 0) <=> (S = {})
<1>1. IsFiniteSet(S)
  BY ShmemAssumption, FS_Subset
<1> QED
  BY <1>1, FS_CardinalityType, FS_EmptySet

LEMMA CardAdd ==
  ASSUME NEW S \in SUBSET Vma, NEW v \in Vma, v \notin S
  PROVE  Cardinality(S \cup {v}) = Cardinality(S) + 1
  BY Cards, FS_AddElement

LEMMA CardRemove ==
  ASSUME NEW S \in SUBSET Vma, NEW v \in S
  PROVE  Cardinality(S \ {v}) = Cardinality(S) - 1
  BY Cards, FS_RemoveElement

\* The facts about the object that the invariant gives the steps.
LEMMA ObjectFacts ==
  ASSUME Inv
  PROVE  /\ obj \in Object /\ PagesMatch(obj)
         /\ obj.vaddr = IF obj.vmapUse > 0 THEN 1 ELSE 0
         /\ obj.pagesUse \in Nat /\ obj.vmapUse \in Nat
         /\ obj.sgt \in 0 .. 1 /\ obj.madv \in -1 .. 1
  BY DEF Inv, TypeOK, PagesWhileUsed, Object

LEMMA InitInv == Init => Inv
<1> SUFFICES ASSUME Init PROVE Inv
  OBVIOUS
<1>1. obj \in Object
  BY DEF Init, NewObject, Object
<1>2. PagesMatch(obj) /\ obj.vaddr = 0 /\ obj.vmapUse = 0 /\ obj.sgt = 0
      /\ obj.pagesUse = 0 /\ obj.madv = 0
  BY DEF Init, NewObject, PagesMatch
<1>3. Cardinality({}) = 0
  BY FS_EmptySet
<1> QED
  BY <1>1, <1>2, <1>3
  DEF Init, Inv, TypeOK, RefsExact, UsesExact, One, PagesWhileUsed,
      PurgedIsUnmapped, Dead

\* Handles and references.
LEMMA HandleSteps ==
  ASSUME Inv, Create \/ CloseHandle
  PROVE  Inv'
<1>1. Cardinality(closing) \in Nat
  BY Cards DEF Inv, TypeOK
<1>2. CASE Create
  BY <1>1, <1>2
  DEF Create, Inv, TypeOK, RefsExact, UsesExact, One, PagesWhileUsed,
      PurgedIsUnmapped, Dead
<1>3. CASE CloseHandle
  BY <1>1, <1>3
  DEF CloseHandle, Inv, TypeOK, RefsExact, UsesExact, One, PagesWhileUsed,
      PurgedIsUnmapped, Dead
<1> QED
  BY <1>2, <1>3

LEMMA FreeStep ==
  ASSUME Inv, Free
  PROVE  Inv'
<1>1. Cardinality(closing) \in Nat
  BY Cards DEF Inv, TypeOK
<1>2. Fields(obj', IF obj.pagesUse > 0 THEN obj.pagesUse - 1 ELSE 0,
             obj.vmapUse, obj.vaddr, 0, obj.madv)
  BY ObjectFacts, FreeDrops DEF Free
<1>3. vmas = {} /\ joined = 0 /\ kmaps = 0 /\ pins = 0
  <2>1. handle \in 0 .. 1 /\ joined \in Nat /\ kmaps \in Nat /\ pins \in Nat /\ RefsExact
    BY DEF Inv, TypeOK
  <2>2. gemRefs = 0
    BY DEF Free
  <2> QED
    BY <1>1, <2>1, <2>2 DEF RefsExact, One
<1>4. obj.pagesUse = obj.sgt /\ obj.vmapUse = 0
  BY <1>3, ObjectFacts DEF Inv, UsesExact, One
<1>5. Fields(obj', 0, 0, 0, 0, obj.madv)
  BY <1>2, <1>4, ObjectFacts DEF Fields
<1>6. TypeOK' /\ PagesWhileUsed'
  BY <1>5 DEF Free, userVars, Inv, TypeOK, PagesWhileUsed, Fields
<1>7. UsesExact'
  BY <1>3, <1>5 DEF Free, userVars, UsesExact, One, Fields
<1> QED
  BY <1>5, <1>6, <1>7
  DEF Free, userVars, Fields, Inv, RefsExact, PurgedIsUnmapped, Dead

LEMMA GetSgtStep ==
  ASSUME Inv, GetSgt
  PROVE  Inv'
<1>1. Cardinality(closing) \in Nat
  BY Cards DEF Inv, TypeOK
<1>2. \/ Fields(obj', obj.pagesUse + 1 - obj.sgt, obj.vmapUse, obj.vaddr, 1,
                obj.madv)
      \/ Fields(obj', obj.pagesUse, obj.vmapUse, obj.vaddr, obj.sgt, obj.madv)
  BY ObjectFacts, SgtAdds, SgtFailedKeeps DEF GetSgt
<1> QED
  BY <1>1, <1>2, ObjectFacts
  DEF GetSgt, InUse, userVars, Fields, Inv, TypeOK, RefsExact, UsesExact, One,
      PagesWhileUsed, PurgedIsUnmapped, Dead

\* Mappings of user space.
LEMMA MmapStep ==
  ASSUME Inv, NEW v \in Vma, Mmap(v)
  PROVE  Inv'
<1>1. Cardinality(closing) \in Nat
  BY Cards DEF Inv, TypeOK
<1>2. Fields(obj', obj.pagesUse + 1, obj.vmapUse, obj.vaddr, obj.sgt,
             obj.madv)
  BY ObjectFacts, GetPagesAdds DEF Mmap
<1> QED
  BY <1>1, <1>2, ObjectFacts
  DEF Mmap, Joined, InUse, Fields, Inv, TypeOK, RefsExact, UsesExact, One,
      PagesWhileUsed, PurgedIsUnmapped, Dead

LEMMA VmOpenStep ==
  ASSUME Inv, NEW v \in Vma, VmOpen(v)
  PROVE  Inv'
<1>1. Cardinality(closing) \in Nat
  BY Cards DEF Inv, TypeOK
<1>2. obj.pagesUse > 0
  BY ObjectFacts DEF VmOpen, Inv, TypeOK, UsesExact, One
<1>3. Fields(obj', obj.pagesUse + 1, obj.vmapUse, obj.vaddr, obj.sgt,
             obj.madv)
  BY <1>2, ObjectFacts, GetPagesAdds DEF VmOpen, GetPages
<1>4. life = "live"
  BY <1>1 DEF VmOpen, Inv, TypeOK, Dead, RefsExact, One
<1> QED
  BY <1>1, <1>3, <1>4, ObjectFacts
  DEF VmOpen, Joined, Fields, Inv, TypeOK, RefsExact, UsesExact, One,
      PagesWhileUsed, PurgedIsUnmapped, Dead

LEMMA CopyStep ==
  ASSUME Inv, NEW v \in Vma, Copy(v) \/ Unmap(v)
  PROVE  Inv'
<1>1. vmas # {} /\ vmas' # {}
  BY DEF Copy, Unmap
<1> QED
  BY <1>1
  DEF Copy, Unmap, Inv, TypeOK, RefsExact, UsesExact, One,
      PagesWhileUsed, PurgedIsUnmapped, Dead

LEMMA FaultStep ==
  ASSUME Inv, NEW v \in Vma, Fault(v)
  PROVE  Inv'
  BY DEF Fault, userVars, Inv, TypeOK, RefsExact, UsesExact, One,
      PagesWhileUsed, PurgedIsUnmapped, Dead

LEMMA VmCloseStep ==
  ASSUME Inv, NEW v \in Vma, VmClose(v)
  PROVE  Inv'
<1>1. Cardinality(closing) \in Nat
  BY Cards DEF Inv, TypeOK
<1>2. Cardinality(closing \cup {v}) = Cardinality(closing) + 1
  BY CardAdd DEF VmClose, Inv, TypeOK
<1>3. vmas # {} /\ obj.pagesUse > 0
  BY ObjectFacts DEF VmClose, Inv, TypeOK, UsesExact, One
<1>4. Fields(obj', obj.pagesUse - 1, obj.vmapUse, obj.vaddr, obj.sgt,
             obj.madv)
  BY <1>3, ObjectFacts, PutPagesDrops DEF VmClose
<1>5. life = "live"
  BY <1>1, <1>3 DEF Inv, TypeOK, Dead, RefsExact, One
<1>6. vmas' = {} /\ ptes' = {}
  BY DEF VmClose
<1>7. TypeOK' /\ (vmas \cap closing = {})' /\ PagesWhileUsed'
  BY <1>1, <1>3, <1>4, <1>6 DEF VmClose, Fields, Inv, TypeOK, PagesWhileUsed
<1>8. RefsExact'
  BY <1>1, <1>2, <1>3, <1>6 DEF VmClose, Inv, TypeOK, RefsExact, One
<1>9. UsesExact'
  BY <1>3, <1>4, <1>6, ObjectFacts DEF VmClose, Fields, Inv, TypeOK, UsesExact, One
<1> QED
  BY <1>4, <1>5, <1>6, <1>7, <1>8, <1>9 DEF VmClose, Fields, Inv, PurgedIsUnmapped, Dead

LEMMA VmClosePutStep ==
  ASSUME Inv, NEW v \in Vma, VmClosePut(v)
  PROVE  Inv'
<1>1. Cardinality(closing) \in Nat
  BY Cards DEF Inv, TypeOK
<1>2. Cardinality(closing \ {v}) = Cardinality(closing) - 1
  BY CardRemove DEF VmClosePut, Inv, TypeOK
<1>3. Cardinality(closing) > 0
  BY <1>1, Cards DEF VmClosePut, Inv, TypeOK
<1> QED
  BY <1>1, <1>2, <1>3
  DEF VmClosePut, Inv, TypeOK, RefsExact, UsesExact, One,
      PagesWhileUsed, PurgedIsUnmapped, Dead

\* Kernel mappings and exports.

LEMMA VmapStep ==
  ASSUME Inv, Vmap \/ VmapFails
  PROVE  Inv'
<1>1. Cardinality(closing) \in Nat
  BY Cards DEF Inv, TypeOK
<1>2. CASE Vmap
  <2>1. Fields(obj', obj.pagesUse + IF obj.vmapUse > 0 THEN 0 ELSE 1,
               obj.vmapUse + 1, 1, obj.sgt, obj.madv)
    BY <1>2, ObjectFacts, VmapAdds DEF Vmap
  <2> QED
    BY <1>1, <1>2, <2>1, ObjectFacts
    DEF Vmap, InUse, Fields, Inv, TypeOK, RefsExact, UsesExact, One,
      PagesWhileUsed, PurgedIsUnmapped, Dead
<1>3. CASE VmapFails
  <2>1. Fields(obj', obj.pagesUse, 0, obj.vaddr, obj.sgt, obj.madv)
    BY <1>3, ObjectFacts, VmapFailedKeeps DEF VmapFails
  <2> QED
    BY <1>1, <1>3, <2>1, ObjectFacts
    DEF VmapFails, InUse, userVars, Fields, Inv, TypeOK, RefsExact, UsesExact, One,
      PagesWhileUsed, PurgedIsUnmapped, Dead
<1> QED
  BY <1>2, <1>3

LEMMA VunmapStep ==
  ASSUME Inv, Vunmap
  PROVE  Inv'
<1>1. Cardinality(closing) \in Nat
  BY Cards DEF Inv, TypeOK
<1>2. obj.vmapUse > 0 /\ obj.vmapUse = kmaps
  BY DEF Vunmap, Inv, UsesExact
<1>3. obj.pagesUse > 0
  BY <1>1, <1>2, ObjectFacts DEF Inv, TypeOK, UsesExact, One
<1>4. Fields(obj', obj.pagesUse - IF obj.vmapUse > 1 THEN 0 ELSE 1,
             obj.vmapUse - 1, IF obj.vmapUse > 1 THEN 1 ELSE 0, obj.sgt, obj.madv)
  BY <1>2, <1>3, ObjectFacts, VunmapDrops DEF Vunmap
<1> QED
  BY <1>1, <1>2, <1>3, <1>4, ObjectFacts
  DEF Vunmap, Fields, Inv, TypeOK, RefsExact, UsesExact, One,
      PagesWhileUsed, PurgedIsUnmapped, Dead

LEMMA PinStep ==
  ASSUME Inv, Pin \/ Unpin
  PROVE  Inv'
<1>1. Cardinality(closing) \in Nat
  BY Cards DEF Inv, TypeOK
<1>2. CASE Pin
  <2>1. Fields(obj', obj.pagesUse + 1, obj.vmapUse, obj.vaddr, obj.sgt, obj.madv)
    BY <1>2, ObjectFacts, GetPagesAdds DEF Pin
  <2> QED
    BY <1>1, <1>2, <2>1, ObjectFacts
    DEF Pin, InUse, Fields, Inv, TypeOK, RefsExact, UsesExact, One,
      PagesWhileUsed, PurgedIsUnmapped, Dead
<1>3. CASE Unpin
  <2>1. obj.pagesUse > 0
    BY <1>1, <1>3, ObjectFacts DEF Unpin, Inv, TypeOK, UsesExact, One
  <2>2. Fields(obj', obj.pagesUse - 1, obj.vmapUse, obj.vaddr, obj.sgt, obj.madv)
    BY <1>3, <2>1, ObjectFacts, PutPagesDrops DEF Unpin
  <2> QED
    BY <1>1, <1>3, <2>1, <2>2, ObjectFacts
    DEF Unpin, Fields, Inv, TypeOK, RefsExact, UsesExact, One,
      PagesWhileUsed, PurgedIsUnmapped, Dead
<1> QED
  BY <1>2, <1>3

\* Reclaim.

LEMMA MadviseStep ==
  ASSUME Inv, NEW m \in 0 .. 1, Madvise(m)
  PROVE  Inv'
<1>1. Cardinality(closing) \in Nat
  BY Cards DEF Inv, TypeOK
<1>2. \/ obj' = obj
      \/ /\ Fields(obj', obj.pagesUse, obj.vmapUse, obj.vaddr, obj.sgt, m)
         /\ obj.madv >= 0
  <2>1. m \in -1 .. 1
    OBVIOUS
  <2> QED
    BY <2>1, ObjectFacts, SetMadv DEF Madvise
<1> QED
  BY <1>1, <1>2, ObjectFacts
  DEF Madvise, InUse, userVars, Fields, Inv, TypeOK, RefsExact, UsesExact, One,
      PagesWhileUsed, PurgedIsUnmapped, Dead

LEMMA PurgeStep ==
  ASSUME Inv, Purge
  PROVE  Inv'
<1>1. Cardinality(closing) \in Nat
  BY Cards DEF Inv, TypeOK
<1>2. obj.sgt = 1 /\ obj.pagesUse > 0
  BY <1>1, ObjectFacts DEF Purge, Purgeable, Inv, TypeOK, UsesExact, One
<1>3. Fields(obj', obj.pagesUse - 1, obj.vmapUse, obj.vaddr, 0, -1)
  BY <1>2, ObjectFacts, PurgeDrops DEF Purge
<1> QED
  BY <1>1, <1>2, <1>3, ObjectFacts
  DEF Purge, InUse, Zapped, userVars, Fields, Inv, TypeOK, RefsExact, UsesExact, One,
      PagesWhileUsed, PurgedIsUnmapped, Dead

LEMMA StepInv == Inv /\ [Next]_vars => Inv'
<1> SUFFICES ASSUME Inv, [Next]_vars PROVE Inv'
  OBVIOUS
<1>1. CASE Create \/ CloseHandle
  BY <1>1, HandleSteps
<1>2. CASE Free
  BY <1>2, FreeStep
<1>3. CASE \E v \in Vma : VmaStep(v)
  BY <1>3, MmapStep, CopyStep, VmOpenStep, FaultStep, VmCloseStep, VmClosePutStep
  DEF VmaStep
<1>4. CASE KernelStep
  BY <1>4, VmapStep, VunmapStep, PinStep, GetSgtStep DEF KernelStep
<1>5. CASE Reclaim
  BY <1>5, MadviseStep, PurgeStep DEF Reclaim
<1>6. CASE UNCHANGED vars
  BY <1>6 DEF vars, userVars, Inv, TypeOK, RefsExact, UsesExact, One,
      PagesWhileUsed, PagesMatch, PurgedIsUnmapped, Dead
<1> QED
  BY <1>1, <1>2, <1>3, <1>4, <1>5, <1>6 DEF Next

LEMMA Invariance == Spec => []Inv
<1>1. Init => Inv
  BY InitInv
<1>2. Inv /\ [Next]_vars => Inv'
  BY StepInv
<1> QED
  BY <1>1, <1>2, PTL DEF Spec

-----------------------------------------------------------------------------
(***************************************************************************)
(* The properties.                                                         *)
(***************************************************************************)

\* The fields keep their types, and a page table entry belongs to a mapping
\* that user space still has.
THEOREM TypeCorrect == Spec => []TypeOK
<1>1. Inv => TypeOK
  BY DEF Inv
<1> QED
  BY <1>1, Invariance, PTL

\* drm_gem_shmem_purge takes every page table entry away, and drm_gem_shmem_fault
\* gives none back.
THEOREM PurgedStaysUnmapped == Spec => []PurgedIsUnmapped
<1>1. Inv => PurgedIsUnmapped
  BY DEF Inv
<1> QED
  BY <1>1, Invariance, PTL

\* The use counts of the object are the number of its users and of the mmaps
\* that joined a mapping, whatever the order of mmap, fork, munmap, vmap,
\* export, purge and their failures: no other use is lost, none put twice.
THEOREM UsesAreExact == Spec => []UsesExact
<1>1. Inv => UsesExact
  BY DEF Inv
<1> QED
  BY <1>1, Invariance, PTL

\* Neither user space nor the kernel nor the device reaches a page that is
\* not wired.
THEOREM NobodyReachesFreePages == Spec => []ReachedIsWired
<1>1. Inv => ReachedIsWired
  <2> SUFFICES ASSUME Inv, ptes # {} \/ obj.vaddr = 1 \/ obj.sgt = 1
               PROVE  obj.wired = 1
    BY DEF ReachedIsWired
  <2>1. vmas # {} \/ kmaps > 0 \/ obj.sgt = 1
    BY ObjectFacts DEF Inv, TypeOK, UsesExact
  <2>2. obj.pagesUse > 0
    BY <2>1, ObjectFacts DEF Inv, TypeOK, UsesExact, One
  <2> QED
    BY <2>2, ObjectFacts DEF PagesMatch
<1> QED
  BY <1>1, Invariance, PTL

\* The last GEM reference leaves no page, mapping or attribute behind.
THEOREM FreeLeavesNothing == Spec => []FreedIsClean
<1>1. Inv => FreedIsClean
  <2> SUFFICES ASSUME Inv, life = "freed"
               PROVE  /\ obj.pagesUse = 0 /\ obj.vmapUse = 0 /\ obj.sgt = 0
                      /\ obj.wired = 0 /\ obj.wc = 0 /\ vmas \cup closing = {}
    BY DEF FreedIsClean
  <2>1. /\ Cardinality(closing) \in Nat
        /\ (Cardinality(closing) = 0 <=> closing = {})
    BY Cards DEF Inv, TypeOK
  <2>2. /\ gemRefs = 0 /\ obj.sgt = 0
        /\ handle \in 0 .. 1 /\ joined \in Nat /\ kmaps \in Nat /\ pins \in Nat
    BY DEF Inv, TypeOK, Dead
  <2>3. /\ vmas = {} /\ joined = 0 /\ Cardinality(closing) = 0
        /\ kmaps = 0 /\ pins = 0
    <3>1. RefsExact
      BY DEF Inv
    <3> QED
      BY <2>1, <2>2, <3>1 DEF RefsExact, One
  <2>4. obj.pagesUse = 0 /\ obj.vmapUse = 0
    BY <2>2, <2>3 DEF Inv, UsesExact, One
  <2> QED
    BY <2>1, <2>2, <2>3, <2>4, ObjectFacts DEF PagesMatch
<1> QED
  BY <1>1, Invariance, PTL

=============================================================================
