--------------------------- MODULE LimaGemProofs ----------------------------
(***************************************************************************)
(* Theorems about buffer objects, address spaces and submissions, for any  *)
(* number of files, objects, tasks and pages, whatever calls fail:         *)
(* references are exact, and page tables map wired pages only.             *)
(***************************************************************************)
EXTENDS LimaGem, FiniteSetTheorems, TLAPS

-----------------------------------------------------------------------------
(***************************************************************************)
(* Counting places.                                                        *)
(***************************************************************************)
One(condition) == IF condition THEN 1 ELSE 0

\* Places are finitely many.
LEMMA PlacesFinite ==
  ASSUME NEW bos, NEW n \in Nat, NEW b
  PROVE  IsFiniteSet(Places(bos, n, b)) /\ Cardinality(Places(bos, n, b)) \in Nat
<1>1. IsFiniteSet(1 .. n)
  BY FS_Interval
<1>2. Places(bos, n, b) \in SUBSET (1 .. n)
  BY DEF Places
<1>. QED  BY <1>1, <1>2, FS_Subset, FS_CardinalityType

\* None among no objects.
LEMMA PlacesNone ==
  ASSUME NEW bos, NEW b
  PROVE  Places(bos, 0, b) = {} /\ Cardinality(Places(bos, 0, b)) = 0
BY FS_EmptySet DEF Places

\* One more object.
LEMMA PlacesNext ==
  ASSUME NEW bos, NEW n \in Nat, NEW b
  PROVE  Cardinality(Places(bos, n + 1, b))
           = Cardinality(Places(bos, n, b)) + One(bos[n + 1] = b)
<1>1. CASE bos[n + 1] = b
  <2>1. Places(bos, n + 1, b) = Places(bos, n, b) \cup {n + 1} /\ n + 1 \notin Places(bos, n, b)
    BY <1>1 DEF Places
  <2>. QED  BY <1>1, <2>1, PlacesFinite, FS_AddElement DEF One
<1>2. CASE bos[n + 1] # b
  <2>1. Places(bos, n + 1, b) = Places(bos, n, b)
    BY <1>2 DEF Places
  <2>. QED  BY <1>2, <2>1, PlacesFinite DEF One
<1>. QED  BY <1>1, <1>2

\* A one-to-one image has as many elements.
LEMMA ImageCard ==
  ASSUME NEW f, IsFiniteSet(DOMAIN f), \A x, y \in DOMAIN f : f[x] = f[y] => x = y,
         f = [x \in DOMAIN f |-> f[x]]
  PROVE  LET T == {f[x] : x \in DOMAIN f}
         IN  IsFiniteSet(T) /\ Cardinality(T) = Cardinality(DOMAIN f)
<1>. DEFINE T == {f[x] : x \in DOMAIN f}
<1>1. f \in [DOMAIN f -> T]
  OBVIOUS
<1>2. f \in Injection(DOMAIN f, T)
  BY <1>1 DEF Injection, IsInjective
<1>3. f \in Surjection(DOMAIN f, T)
  BY <1>1 DEF Surjection
<1>4. f \in Bijection(DOMAIN f, T)
  BY <1>2, <1>3 DEF Bijection
<1>. QED  BY <1>4, FS_Bijection DEF ExistsBijection

\* Without the first object.
LEMMA PlacesTail ==
  ASSUME NEW S, NEW bos \in Seq(S), NEW n \in 1 .. Len(bos), NEW b
  PROVE  Cardinality(Places(Tail(bos), n - 1, b))
           = Cardinality(Places(bos, n, b)) - One(Head(bos) = b)
<1>. DEFINE Short == Places(Tail(bos), n - 1, b)
            Rest  == Places(bos, n, b) \ {1}
            f     == [i \in Short |-> i + 1]
<1>1. /\ Len(bos) \in Nat /\ n \in Nat /\ n - 1 \in Nat /\ Head(bos) = bos[1]
      /\ \A i \in 1 .. n - 1 : Tail(bos)[i] = bos[i + 1]
  OBVIOUS
<1>2. Short \subseteq Nat /\ IsFiniteSet(Short)
  <2>1. Short \subseteq Nat
    BY <1>1 DEF Places
  <2>. QED  BY <2>1, <1>1, PlacesFinite
<1>3. IsFiniteSet({f[i] : i \in Short}) /\ Cardinality({f[i] : i \in Short}) = Cardinality(Short)
  <2>1. DOMAIN f = Short /\ \A i, j \in Short : f[i] = f[j] => i = j
    BY <1>2
  <2>. HIDE DEF Short
  <2>2. f = [i \in DOMAIN f |-> f[i]]
    OBVIOUS
  <2>. HIDE DEF f
  <2>. QED  BY <2>1, <2>2, <1>2, ImageCard
<1>4. {f[i] : i \in Short} = Rest
  <2>1. \A i \in Short : i + 1 \in Rest
    BY <1>1 DEF Places
  <2>2. \A j \in Rest : j - 1 \in Short /\ (j - 1) + 1 = j
    BY <1>1 DEF Places
  <2>. QED  BY <2>1, <2>2
<1>5. CASE Head(bos) = b
  <2>1. Places(bos, n, b) \ {1} = Rest /\ 1 \in Places(bos, n, b)
    BY <1>1, <1>5 DEF Places
  <2>. QED  BY <1>1, <1>3, <1>4, <1>5, <2>1, PlacesFinite, FS_RemoveElement DEF One
<1>6. CASE Head(bos) # b
  <2>1. Places(bos, n, b) = Rest
    BY <1>1, <1>6 DEF Places
  <2>2. Cardinality(Short) = Cardinality(Rest) /\ Cardinality(Short) \in Nat
    BY <1>1, <1>3, <1>4, PlacesFinite
  <2>. HIDE DEF Short, Rest
  <2>. QED  BY <1>6, <2>1, <2>2 DEF One, Short
<1>. QED  BY <1>5, <1>6

\* What Count counts.
LEMMA CountIs ==
  ASSUME NEW S, NEW bos \in Seq(S), NEW b
  PROVE  Count(bos, b) = Cardinality(Places(bos, Len(bos), b))
<1>1. DOMAIN bos = 1 .. Len(bos)
  OBVIOUS
<1>. QED  BY <1>1 DEF Count, Places

LEMMA CountOne == ASSUME NEW c, NEW b PROVE Count(<<c>>, b) = One(c = b)
<1>1. CASE c = b
  <2>1. {i \in DOMAIN <<c>> : <<c>>[i] = b} = {1}
    BY <1>1
  <2>. QED  BY <1>1, <2>1, FS_Singleton DEF Count, One
<1>2. CASE c # b
  <2>1. {i \in DOMAIN <<c>> : <<c>>[i] = b} = {}
    BY <1>2
  <2>. QED  BY <1>2, <2>1, FS_EmptySet DEF Count, One
<1>. QED  BY <1>1, <1>2

\* There are as many marks as places.
LEMMA MarksCard ==
  ASSUME NEW S, NEW bos \in Seq(S), NEW n \in Nat, NEW b, NEW owner
  PROVE  /\ IsFiniteSet(Marks(owner, bos, n, b))
         /\ Cardinality(Marks(owner, bos, n, b)) = Cardinality(Places(bos, n, b))
<1>. DEFINE P == Places(bos, n, b)
            f == [i \in P |-> <<owner, Len(bos) - i>>]
<1>1. P \subseteq Nat /\ IsFiniteSet(P) /\ Len(bos) \in Nat
  <2>1. P \subseteq Nat
    BY DEF Places
  <2>. QED  BY <2>1, PlacesFinite
<1>2. DOMAIN f = P /\ \A i, j \in P : f[i] = f[j] => i = j
  BY <1>1
<1>3. f = [i \in DOMAIN f |-> f[i]]
  OBVIOUS
<1>4. Marks(owner, bos, n, b) = {f[i] : i \in DOMAIN f}
  BY DEF Marks
<1>. HIDE DEF f, P
<1>. QED  BY <1>1, <1>2, <1>3, <1>4, ImageCard DEF P

-----------------------------------------------------------------------------
(***************************************************************************)
(* Counting holders.  GemHeld and VaHeld are the holders of the model for  *)
(* any handles, submissions and tasks: a step is followed one owner at a   *)
(* time, whatever state lies in between.                                   *)
(***************************************************************************)
SubmitRec == [pc : {"idle", "lookup", "add", "lock", "init", "deps", "put",
                    "unwind"},
              bos : Seq(BOs), got : Nat, task : Task \cup {0}]
TaskRec == [state : {"none", "new", "live", "faulted", "freeing", "freed"},
            vm : VMs \cup {NoVm}, bos : Seq(BOs), todo : Seq(BOs)]

SubMarks(v, s, b) == Marks(Submit(v), s.bos, LookedUp(s), b)
JobMarks(t, k, b) == Marks(Job(t), k.bos, Len(k.bos), b)
MapMarks(v, s, b) == Marks(Submit(v), s.bos, Mapped(s), b)
TodoMarks(v, t, k, b) ==
  IF k.vm = v /\ k.state # "new" THEN Marks(Job(t), k.todo, Len(k.todo), b) ELSE {}

GemHeld(hs, sub, tsk, b) ==
  {<<Handle(v), 0>> : v \in {w \in VMs : <<w, b>> \in hs}}
  \cup (UNION {SubMarks(v, sub[v], b) : v \in VMs})
  \cup (UNION {JobMarks(t, tsk[t], b) : t \in Task})
VaHeld(hs, sub, tsk, v, b) ==
  {<<Handle(w), 0>> : w \in {w \in {v} : <<w, b>> \in hs}}
  \cup MapMarks(v, sub[v], b)
  \cup (UNION {TodoMarks(v, t, tsk[t], b) : t \in Task})

LEMMA HeldInModel ==
  /\ \A b : GemHolders(b) = GemHeld(handles, submit, task, b)
  /\ \A b : GemHolders(b)' = GemHeld(handles', submit', task', b)
  /\ \A v, b : VaHolders(v, b) = VaHeld(handles, submit, task, v, b)
  /\ \A v, b : VaHolders(v, b)' = VaHeld(handles', submit', task', v, b)
<1>1. \A b : GemHolders(b) = GemHeld(handles, submit, task, b)
  BY DEF GemHolders, GemHeld, SubMarks, JobMarks
<1>2. \A b : GemHolders(b)' = GemHeld(handles', submit', task', b)
  BY DEF GemHolders, GemHeld, SubMarks, JobMarks
<1>3. \A v, b : VaHolders(v, b) = VaHeld(handles, submit, task, v, b)
  BY DEF VaHolders, VaHeld, MapMarks, TodoMarks
<1>4. \A v, b : VaHolders(v, b)' = VaHeld(handles', submit', task', v, b)
  BY DEF VaHolders, VaHeld, MapMarks, TodoMarks
<1>. QED  BY <1>1, <1>2, <1>3, <1>4

\* The part of a set of holders that one owner has, and what the set's size is
\* when only this part changes.
Part(H, o) == {x \in H : x[1] = o}

LEMMA PartChange ==
  ASSUME NEW H, NEW K, NEW o, IsFiniteSet(H), IsFiniteSet(Part(K, o)),
         \A x : x[1] # o => (x \in H <=> x \in K)
  PROVE  /\ IsFiniteSet(K)
         /\ Cardinality(K)
              = Cardinality(H) - Cardinality(Part(H, o)) + Cardinality(Part(K, o))
<1>. DEFINE R == H \ Part(H, o)
<1>1. IsFiniteSet(Part(H, o)) /\ IsFiniteSet(R)
  BY FS_Subset, FS_Difference DEF Part
<1>2. H = R \cup Part(H, o) /\ R \cap Part(H, o) = {}
  BY DEF Part
<1>3. K = R \cup Part(K, o) /\ R \cap Part(K, o) = {}
  BY DEF Part
<1>4. Cardinality({}) = 0 /\ \A T : IsFiniteSet(T) => Cardinality(T) \in Nat
  BY FS_EmptySet, FS_CardinalityType
<1>. HIDE DEF R
<1>5. ASSUME NEW P, IsFiniteSet(P), R \cap P = {}
      PROVE  /\ IsFiniteSet(R \cup P)
             /\ Cardinality(R \cup P) = Cardinality(R) + Cardinality(P)
  <2>1. Cardinality(R \cap P) = 0
    BY <1>4, <1>5
  <2>2. /\ IsFiniteSet(R \cup P)
        /\ Cardinality(R \cup P) = Cardinality(R) + Cardinality(P) - Cardinality(R \cap P)
    BY <1>1, <1>5, FS_Union
  <2>. QED  BY <1>1, <1>4, <1>5, <2>1, <2>2
<1>6. /\ Cardinality(H) = Cardinality(R) + Cardinality(Part(H, o))
      /\ IsFiniteSet(K) /\ Cardinality(K) = Cardinality(R) + Cardinality(Part(K, o))
  BY <1>1, <1>2, <1>3, <1>5
<1>. QED  BY <1>1, <1>4, <1>6

\* Owners tell themselves apart, and a mark says whose it is.
LEMMA OwnersDiffer ==
  /\ \A v, w : Handle(v) # Submit(w) /\ Handle(v) # Job(w) /\ Submit(v) # Job(w)
  /\ \A v, w : Handle(v) = Handle(w) => v = w
  /\ \A v, w : Submit(v) = Submit(w) => v = w
  /\ \A v, w : Job(v) = Job(w) => v = w
BY DEF Handle, Submit, Job

LEMMA MarksOwner ==
  \A o, bos, n, b, x : x \in Marks(o, bos, n, b) => x[1] = o
BY DEF Marks

\* The members, and the parts of the owners.
LEMMA GemHeldIs ==
  ASSUME NEW hs, NEW sub, NEW tsk, NEW b, NEW x
  PROVE  x \in GemHeld(hs, sub, tsk, b) <=>
           \/ \E v \in VMs : <<v, b>> \in hs /\ x = <<Handle(v), 0>>
           \/ \E v \in VMs : x \in SubMarks(v, sub[v], b)
           \/ \E t \in Task : x \in JobMarks(t, tsk[t], b)
<1>. DEFINE A == {<<Handle(v), 0>> : v \in {w \in VMs : <<w, b>> \in hs}}
            S == UNION {SubMarks(v, sub[v], b) : v \in VMs}
            J == UNION {JobMarks(t, tsk[t], b) : t \in Task}
<1>1. x \in A <=> \E v \in VMs : <<v, b>> \in hs /\ x = <<Handle(v), 0>>
  OBVIOUS
<1>2. x \in S <=> \E v \in VMs : x \in SubMarks(v, sub[v], b)
  OBVIOUS
<1>3. x \in J <=> \E t \in Task : x \in JobMarks(t, tsk[t], b)
  OBVIOUS
<1>4. GemHeld(hs, sub, tsk, b) = A \cup S \cup J
  BY DEF GemHeld
<1>. HIDE DEF A, S, J
<1>. QED  BY <1>1, <1>2, <1>3, <1>4

LEMMA VaHeldIs ==
  ASSUME NEW hs, NEW sub, NEW tsk, NEW v, NEW b, NEW x
  PROVE  x \in VaHeld(hs, sub, tsk, v, b) <=>
           \/ <<v, b>> \in hs /\ x = <<Handle(v), 0>>
           \/ x \in MapMarks(v, sub[v], b)
           \/ \E t \in Task : x \in TodoMarks(v, t, tsk[t], b)
<1>1. x \in {<<Handle(w), 0>> : w \in {w \in {v} : <<w, b>> \in hs}}
        <=> <<v, b>> \in hs /\ x = <<Handle(v), 0>>
  OBVIOUS
<1>2. x \in UNION {TodoMarks(v, t, tsk[t], b) : t \in Task}
        <=> \E t \in Task : x \in TodoMarks(v, t, tsk[t], b)
  OBVIOUS
<1>. QED  BY <1>1, <1>2, Zenon DEF VaHeld

\* What an owner has among the holders.
LEMMA GemHeldBy ==
  ASSUME NEW hs, NEW sub, NEW tsk, NEW b, NEW x \in GemHeld(hs, sub, tsk, b)
  PROVE  /\ \A v : x[1] = Handle(v) => <<v, b>> \in hs /\ x = <<Handle(v), 0>>
         /\ \A v : x[1] = Submit(v) => x \in SubMarks(v, sub[v], b)
         /\ \A t : x[1] = Job(t) => x \in JobMarks(t, tsk[t], b)
<1>1. CASE \E v \in VMs : <<v, b>> \in hs /\ x = <<Handle(v), 0>>
  <2>1. PICK v \in VMs : <<v, b>> \in hs /\ x = <<Handle(v), 0>>
    BY <1>1
  <2>2. x[1] = Handle(v)
    BY <2>1
  <2>. QED  BY <2>1, <2>2, OwnersDiffer, Zenon
<1>2. CASE \E v \in VMs : x \in SubMarks(v, sub[v], b)
  <2>1. PICK v \in VMs : x \in SubMarks(v, sub[v], b)
    BY <1>2
  <2>2. x[1] = Submit(v)
    BY <2>1, MarksOwner DEF SubMarks
  <2>. QED  BY <2>1, <2>2, OwnersDiffer, Zenon
<1>3. CASE \E t \in Task : x \in JobMarks(t, tsk[t], b)
  <2>1. PICK t \in Task : x \in JobMarks(t, tsk[t], b)
    BY <1>3
  <2>2. x[1] = Job(t)
    BY <2>1, MarksOwner DEF JobMarks
  <2>. QED  BY <2>1, <2>2, OwnersDiffer, Zenon
<1>. QED  BY <1>1, <1>2, <1>3, GemHeldIs

LEMMA VaHeldBy ==
  ASSUME NEW hs, NEW sub, NEW tsk, NEW v, NEW b, NEW x \in VaHeld(hs, sub, tsk, v, b)
  PROVE  /\ x[1] = Handle(v) => <<v, b>> \in hs /\ x = <<Handle(v), 0>>
         /\ x[1] = Submit(v) => x \in MapMarks(v, sub[v], b)
         /\ \A t : x[1] = Job(t) => x \in TodoMarks(v, t, tsk[t], b)
<1>1. CASE <<v, b>> \in hs /\ x = <<Handle(v), 0>>
  <2>1. x[1] = Handle(v)
    BY <1>1
  <2>. QED  BY <1>1, <2>1, OwnersDiffer, Zenon
<1>2. CASE x \in MapMarks(v, sub[v], b)
  <2>1. x[1] = Submit(v)
    BY <1>2, MarksOwner DEF MapMarks
  <2>. QED  BY <1>2, <2>1, OwnersDiffer, Zenon
<1>3. CASE \E t \in Task : x \in TodoMarks(v, t, tsk[t], b)
  <2>1. PICK t \in Task : x \in TodoMarks(v, t, tsk[t], b)
    BY <1>3
  <2>2. x[1] = Job(t)
    BY <2>1, MarksOwner DEF TodoMarks
  <2>. QED  BY <2>1, <2>2, OwnersDiffer, Zenon
<1>. QED  BY <1>1, <1>2, <1>3, VaHeldIs

\* A handle that comes or goes.
LEMMA GemHandle ==
  ASSUME NEW hs, NEW hs2, NEW sub, NEW tsk, NEW b, NEW v \in VMs,
         IsFiniteSet(GemHeld(hs, sub, tsk, b)),
         \A w \in VMs : w # v => (<<w, b>> \in hs <=> <<w, b>> \in hs2)
  PROVE  /\ IsFiniteSet(GemHeld(hs2, sub, tsk, b))
         /\ Cardinality(GemHeld(hs2, sub, tsk, b))
              = Cardinality(GemHeld(hs, sub, tsk, b))
                - One(<<v, b>> \in hs) + One(<<v, b>> \in hs2)
<1>. DEFINE H(h) == GemHeld(h, sub, tsk, b)
            P(h) == Part(H(h), Handle(v))
<1>1. \A x : x[1] # Handle(v) => (x \in H(hs) <=> x \in H(hs2))
  <2>1. SUFFICES ASSUME NEW x, x[1] # Handle(v)
                 PROVE  x \in H(hs) <=> x \in H(hs2)
    OBVIOUS
  <2>2. ASSUME NEW w \in VMs, x = <<Handle(w), 0>>
        PROVE  <<w, b>> \in hs <=> <<w, b>> \in hs2
    BY <2>1, <2>2
  <2>3. (\E w \in VMs : <<w, b>> \in hs /\ x = <<Handle(w), 0>>)
          <=> (\E w \in VMs : <<w, b>> \in hs2 /\ x = <<Handle(w), 0>>)
    BY <2>2
  <2>. QED  BY <2>3, GemHeldIs
<1>2. ASSUME NEW h
      PROVE  P(h) = IF <<v, b>> \in h THEN {<<Handle(v), 0>>} ELSE {}
  <2>1. \A x \in H(h) : x[1] = Handle(v) => <<v, b>> \in h /\ x = <<Handle(v), 0>>
    BY GemHeldBy
  <2>2. <<v, b>> \in h => <<Handle(v), 0>> \in H(h)
    BY GemHeldIs
  <2>. HIDE DEF H
  <2>. QED  BY <2>1, <2>2 DEF Part
<1>3. ASSUME NEW h PROVE IsFiniteSet(P(h)) /\ Cardinality(P(h)) = One(<<v, b>> \in h)
  <2>1. CASE <<v, b>> \in h
    <3>1. P(h) = {<<Handle(v), 0>>}
      BY <1>2, <2>1
    <3>2. One(<<v, b>> \in h) = 1
      BY <2>1 DEF One
    <3>3. \A x : IsFiniteSet({x}) /\ Cardinality({x}) = 1
      BY FS_Singleton, Zenon
    <3>4. LET x == <<Handle(v), 0>> IN IsFiniteSet({x}) /\ Cardinality({x}) = 1
      BY <3>3, Zenon
    <3>. QED  BY <3>1, <3>2, <3>4, Zenon
  <2>2. CASE <<v, b>> \notin h
    <3>1. P(h) = {}
      BY <1>2, <2>2
    <3>. QED  BY <2>2, <3>1, FS_EmptySet DEF One
  <2>. QED  BY <2>1, <2>2
<1>. HIDE DEF H
<1>. QED  BY <1>1, <1>3, PartChange DEF H

\* A submission that moves on.
LEMMA GemSubmission ==
  ASSUME NEW hs, NEW sub, NEW sub2, NEW tsk, NEW b, NEW v \in VMs,
         IsFiniteSet(GemHeld(hs, sub, tsk, b)),
         sub[v] \in SubmitRec, sub2[v] \in SubmitRec,
         \A w \in VMs : w # v => sub2[w] = sub[w]
  PROVE  /\ IsFiniteSet(GemHeld(hs, sub2, tsk, b))
         /\ Cardinality(GemHeld(hs, sub2, tsk, b))
              = Cardinality(GemHeld(hs, sub, tsk, b))
                - Cardinality(Places(sub[v].bos, LookedUp(sub[v]), b))
                + Cardinality(Places(sub2[v].bos, LookedUp(sub2[v]), b))
<1>. DEFINE H(s) == GemHeld(hs, s, tsk, b)
            P(s) == Part(H(s), Submit(v))
<1>1. \A x : x[1] # Submit(v) => (x \in H(sub) <=> x \in H(sub2))
  <2>1. SUFFICES ASSUME NEW x, x[1] # Submit(v)
                 PROVE  x \in H(sub) <=> x \in H(sub2)
    OBVIOUS
  <2>2. ASSUME NEW w \in VMs
        PROVE  x \in SubMarks(w, sub[w], b) <=> x \in SubMarks(w, sub2[w], b)
    BY <2>1, MarksOwner DEF SubMarks
  <2>. QED  BY <2>2, GemHeldIs
<1>2. ASSUME NEW s PROVE P(s) = SubMarks(v, s[v], b)
  <2>1. \A x \in H(s) : x[1] = Submit(v) => x \in SubMarks(v, s[v], b)
    BY GemHeldBy
  <2>2. \A x \in SubMarks(v, s[v], b) : x \in H(s) /\ x[1] = Submit(v)
    BY GemHeldIs, MarksOwner DEF SubMarks
  <2>. HIDE DEF H
  <2>. QED  BY <2>1, <2>2 DEF Part
<1>3. ASSUME NEW s, s[v] \in SubmitRec
      PROVE  /\ IsFiniteSet(P(s))
             /\ Cardinality(P(s)) = Cardinality(Places(s[v].bos, LookedUp(s[v]), b))
  <2>1. s[v].bos \in Seq(BOs) /\ LookedUp(s[v]) \in Nat
    BY <1>3 DEF SubmitRec, LookedUp
  <2>. QED  BY <1>2, <2>1, MarksCard DEF SubMarks
<1>. HIDE DEF H
<1>. QED  BY <1>1, <1>3, PartChange DEF H

\* A task that moves on.
LEMMA GemTask ==
  ASSUME NEW hs, NEW sub, NEW tsk, NEW tsk2, NEW b, NEW t \in Task,
         IsFiniteSet(GemHeld(hs, sub, tsk, b)),
         tsk[t] \in TaskRec, tsk2[t] \in TaskRec,
         \A u \in Task : u # t => tsk2[u] = tsk[u]
  PROVE  /\ IsFiniteSet(GemHeld(hs, sub, tsk2, b))
         /\ Cardinality(GemHeld(hs, sub, tsk2, b))
              = Cardinality(GemHeld(hs, sub, tsk, b))
                - Count(tsk[t].bos, b) + Count(tsk2[t].bos, b)
<1>. DEFINE H(k) == GemHeld(hs, sub, k, b)
            P(k) == Part(H(k), Job(t))
<1>1. \A x : x[1] # Job(t) => (x \in H(tsk) <=> x \in H(tsk2))
  <2>1. SUFFICES ASSUME NEW x, x[1] # Job(t)
                 PROVE  x \in H(tsk) <=> x \in H(tsk2)
    OBVIOUS
  <2>2. ASSUME NEW u \in Task
        PROVE  x \in JobMarks(u, tsk[u], b) <=> x \in JobMarks(u, tsk2[u], b)
    BY <2>1, MarksOwner DEF JobMarks
  <2>. QED  BY <2>2, GemHeldIs
<1>2. ASSUME NEW k PROVE P(k) = JobMarks(t, k[t], b)
  <2>1. \A x \in H(k) : x[1] = Job(t) => x \in JobMarks(t, k[t], b)
    BY GemHeldBy
  <2>2. \A x \in JobMarks(t, k[t], b) : x \in H(k) /\ x[1] = Job(t)
    BY GemHeldIs, MarksOwner DEF JobMarks
  <2>. HIDE DEF H
  <2>. QED  BY <2>1, <2>2 DEF Part
<1>3. ASSUME NEW k, k[t] \in TaskRec
      PROVE  IsFiniteSet(P(k)) /\ Cardinality(P(k)) = Count(k[t].bos, b)
  <2>1. k[t].bos \in Seq(BOs) /\ Len(k[t].bos) \in Nat
    BY <1>3 DEF TaskRec
  <2>. QED  BY <1>2, <2>1, MarksCard, CountIs DEF JobMarks
<1>. HIDE DEF H
<1>. QED  BY <1>1, <1>3, PartChange DEF H

\* The same for the holders of a mapping.
LEMMA VaHandle ==
  ASSUME NEW hs, NEW hs2, NEW sub, NEW tsk, NEW v, NEW b,
         IsFiniteSet(VaHeld(hs, sub, tsk, v, b))
  PROVE  /\ IsFiniteSet(VaHeld(hs2, sub, tsk, v, b))
         /\ Cardinality(VaHeld(hs2, sub, tsk, v, b))
              = Cardinality(VaHeld(hs, sub, tsk, v, b))
                - One(<<v, b>> \in hs) + One(<<v, b>> \in hs2)
<1>. DEFINE H(h) == VaHeld(h, sub, tsk, v, b)
            P(h) == Part(H(h), Handle(v))
<1>1. \A x : x[1] # Handle(v) => (x \in H(hs) <=> x \in H(hs2))
  <2>1. SUFFICES ASSUME NEW x, x[1] # Handle(v)
                 PROVE  x \in H(hs) <=> x \in H(hs2)
    OBVIOUS
  <2>2. x # <<Handle(v), 0>>
    BY <2>1
  <2>. QED  BY <2>2, VaHeldIs
<1>2. ASSUME NEW h
      PROVE  P(h) = IF <<v, b>> \in h THEN {<<Handle(v), 0>>} ELSE {}
  <2>1. \A x \in H(h) : x[1] = Handle(v) => <<v, b>> \in h /\ x = <<Handle(v), 0>>
    BY VaHeldBy
  <2>2. <<v, b>> \in h => <<Handle(v), 0>> \in H(h)
    BY VaHeldIs
  <2>. HIDE DEF H
  <2>. QED  BY <2>1, <2>2 DEF Part
<1>3. ASSUME NEW h PROVE IsFiniteSet(P(h)) /\ Cardinality(P(h)) = One(<<v, b>> \in h)
  <2>1. CASE <<v, b>> \in h
    <3>1. P(h) = {<<Handle(v), 0>>}
      BY <1>2, <2>1
    <3>2. One(<<v, b>> \in h) = 1
      BY <2>1 DEF One
    <3>3. \A x : IsFiniteSet({x}) /\ Cardinality({x}) = 1
      BY FS_Singleton, Zenon
    <3>4. LET x == <<Handle(v), 0>> IN IsFiniteSet({x}) /\ Cardinality({x}) = 1
      BY <3>3, Zenon
    <3>. QED  BY <3>1, <3>2, <3>4, Zenon
  <2>2. CASE <<v, b>> \notin h
    <3>1. P(h) = {}
      BY <1>2, <2>2
    <3>. QED  BY <2>2, <3>1, FS_EmptySet DEF One
  <2>. QED  BY <2>1, <2>2
<1>. HIDE DEF H
<1>. QED  BY <1>1, <1>3, PartChange DEF H

LEMMA VaSubmission ==
  ASSUME NEW hs, NEW sub, NEW sub2, NEW tsk, NEW v, NEW b,
         IsFiniteSet(VaHeld(hs, sub, tsk, v, b)),
         sub[v] \in SubmitRec, sub2[v] \in SubmitRec
  PROVE  /\ IsFiniteSet(VaHeld(hs, sub2, tsk, v, b))
         /\ Cardinality(VaHeld(hs, sub2, tsk, v, b))
              = Cardinality(VaHeld(hs, sub, tsk, v, b))
                - Cardinality(Places(sub[v].bos, Mapped(sub[v]), b))
                + Cardinality(Places(sub2[v].bos, Mapped(sub2[v]), b))
<1>. DEFINE H(s) == VaHeld(hs, s, tsk, v, b)
            P(s) == Part(H(s), Submit(v))
<1>1. \A x : x[1] # Submit(v) => (x \in H(sub) <=> x \in H(sub2))
  <2>1. SUFFICES ASSUME NEW x, x[1] # Submit(v)
                 PROVE  x \in H(sub) <=> x \in H(sub2)
    OBVIOUS
  <2>2. x \notin MapMarks(v, sub[v], b) /\ x \notin MapMarks(v, sub2[v], b)
    BY <2>1, MarksOwner DEF MapMarks
  <2>. QED  BY <2>2, VaHeldIs
<1>2. ASSUME NEW s PROVE P(s) = MapMarks(v, s[v], b)
  <2>1. \A x \in H(s) : x[1] = Submit(v) => x \in MapMarks(v, s[v], b)
    BY VaHeldBy
  <2>2. \A x \in MapMarks(v, s[v], b) : x \in H(s) /\ x[1] = Submit(v)
    <3>1. \A x \in MapMarks(v, s[v], b) : x \in H(s)
      BY VaHeldIs
    <3>2. \A x \in MapMarks(v, s[v], b) : x[1] = Submit(v)
      BY MarksOwner DEF MapMarks
    <3>. QED  BY <3>1, <3>2
  <2>. HIDE DEF H
  <2>. QED  BY <2>1, <2>2 DEF Part
<1>3. ASSUME NEW s, s[v] \in SubmitRec
      PROVE  /\ IsFiniteSet(P(s))
             /\ Cardinality(P(s)) = Cardinality(Places(s[v].bos, Mapped(s[v]), b))
  <2>1. s[v].bos \in Seq(BOs) /\ Mapped(s[v]) \in Nat
    BY <1>3 DEF SubmitRec, Mapped
  <2>. QED  BY <1>2, <2>1, MarksCard DEF MapMarks
<1>. HIDE DEF H
<1>. QED  BY <1>1, <1>3, PartChange DEF H

TodoCount(v, k, b) == IF k.vm = v /\ k.state # "new" THEN Count(k.todo, b) ELSE 0

LEMMA VaTask ==
  ASSUME NEW hs, NEW sub, NEW tsk, NEW tsk2, NEW v, NEW b, NEW t \in Task,
         IsFiniteSet(VaHeld(hs, sub, tsk, v, b)),
         tsk[t] \in TaskRec, tsk2[t] \in TaskRec,
         \A u \in Task : u # t => tsk2[u] = tsk[u]
  PROVE  /\ IsFiniteSet(VaHeld(hs, sub, tsk2, v, b))
         /\ Cardinality(VaHeld(hs, sub, tsk2, v, b))
              = Cardinality(VaHeld(hs, sub, tsk, v, b))
                - TodoCount(v, tsk[t], b) + TodoCount(v, tsk2[t], b)
<1>. DEFINE H(k) == VaHeld(hs, sub, k, v, b)
            P(k) == Part(H(k), Job(t))
<1>1. \A x : x[1] # Job(t) => (x \in H(tsk) <=> x \in H(tsk2))
  <2>1. SUFFICES ASSUME NEW x, x[1] # Job(t)
                 PROVE  x \in H(tsk) <=> x \in H(tsk2)
    OBVIOUS
  <2>2. ASSUME NEW u \in Task
        PROVE  x \in TodoMarks(v, u, tsk[u], b) <=> x \in TodoMarks(v, u, tsk2[u], b)
    BY <2>1, MarksOwner DEF TodoMarks
  <2>. QED  BY <2>2, VaHeldIs
<1>2. ASSUME NEW k PROVE P(k) = TodoMarks(v, t, k[t], b)
  <2>1. \A x \in H(k) : x[1] = Job(t) => x \in TodoMarks(v, t, k[t], b)
    BY VaHeldBy
  <2>2. \A x \in TodoMarks(v, t, k[t], b) : x \in H(k) /\ x[1] = Job(t)
    <3>1. \A x \in TodoMarks(v, t, k[t], b) : x \in H(k)
      BY VaHeldIs
    <3>2. \A x \in TodoMarks(v, t, k[t], b) : x[1] = Job(t)
      BY MarksOwner DEF TodoMarks
    <3>. QED  BY <3>1, <3>2
  <2>. HIDE DEF H
  <2>. QED  BY <2>1, <2>2 DEF Part
<1>3. ASSUME NEW k, k[t] \in TaskRec
      PROVE  IsFiniteSet(P(k)) /\ Cardinality(P(k)) = TodoCount(v, k[t], b)
  <2>1. k[t].todo \in Seq(BOs) /\ Len(k[t].todo) \in Nat
    BY <1>3 DEF TaskRec
  <2>2. CASE k[t].vm = v /\ k[t].state # "new"
    BY <1>2, <2>1, <2>2, MarksCard, CountIs DEF TodoMarks, TodoCount
  <2>3. CASE ~(k[t].vm = v /\ k[t].state # "new")
    <3>1. P(k) = {}
      BY <1>2, <2>3 DEF TodoMarks
    <3>. QED  BY <2>3, <3>1, FS_EmptySet DEF TodoCount
  <2>. QED  BY <2>2, <2>3
<1>. HIDE DEF H
<1>. QED  BY <1>1, <1>3, PartChange DEF H

\* Who maps an object holds it: a task's mappings are of objects it holds.
LEMMA MappedIsHeld ==
  ASSUME NEW hs, NEW sub, NEW tsk, NEW v \in VMs, NEW b,
         sub[v] \in SubmitRec, \A t \in Task : tsk[t] \in TaskRec,
         \A t \in Task : \A i \in DOMAIN tsk[t].todo :
           \E j \in DOMAIN tsk[t].bos : tsk[t].bos[j] = tsk[t].todo[i],
         VaHeld(hs, sub, tsk, v, b) # {}
  PROVE  GemHeld(hs, sub, tsk, b) # {}
<1>1. PICK x : x \in VaHeld(hs, sub, tsk, v, b)
  OBVIOUS
<1>2. CASE <<v, b>> \in hs
  <2>1. <<Handle(v), 0>> \in GemHeld(hs, sub, tsk, b)
    BY <1>2, GemHeldIs
  <2>. QED  BY <2>1
<1>3. CASE x \in MapMarks(v, sub[v], b)
  <2>1. Places(sub[v].bos, Mapped(sub[v]), b) \subseteq Places(sub[v].bos, LookedUp(sub[v]), b)
    BY DEF Places, Mapped, LookedUp, SubmitRec
  <2>2. x \in SubMarks(v, sub[v], b)
    BY <1>3, <2>1 DEF MapMarks, SubMarks, Marks
  <2>. QED  BY <2>2, GemHeldIs
<1>4. ASSUME NEW t \in Task, x \in TodoMarks(v, t, tsk[t], b)
      PROVE  GemHeld(hs, sub, tsk, b) # {}
  <2>1. PICK i \in Places(tsk[t].todo, Len(tsk[t].todo), b) : TRUE
    BY <1>4 DEF TodoMarks, Marks
  <2>2. i \in DOMAIN tsk[t].todo /\ tsk[t].todo[i] = b
    <3>1. tsk[t].todo \in Seq(BOs)
      BY DEF TaskRec
    <3>. QED  BY <3>1, <2>1 DEF Places
  <2>3. PICK j \in DOMAIN tsk[t].bos : tsk[t].bos[j] = b
    BY <2>2
  <2>4. j \in Places(tsk[t].bos, Len(tsk[t].bos), b)
    <3>1. tsk[t].bos \in Seq(BOs)
      BY DEF TaskRec
    <3>. QED  BY <3>1, <2>3 DEF Places
  <2>5. <<Job(t), Len(tsk[t].bos) - j>> \in JobMarks(t, tsk[t], b)
    BY <2>4 DEF JobMarks, Marks
  <2>6. <<Job(t), Len(tsk[t].bos) - j>> \in GemHeld(hs, sub, tsk, b)
    BY <2>5, GemHeldIs
  <2>. QED  BY <2>6
<1>. QED  BY <1>1, <1>2, <1>3, <1>4, VaHeldIs

-----------------------------------------------------------------------------
(***************************************************************************)
(* Where submissions, tasks and heap growth stand.                         *)
(***************************************************************************)
GrowRec == [pc : {"idle", "sg", "dma", "map", "size"}, task : Task \cup {0},
            bo : BOs, new : 0 .. HeapPages]

ControlTyped ==
  /\ file \in [VMs -> {"none", "open", "closed"}]
  /\ handles \subseteq VMs \X BOs /\ born \subseteq BOs
  /\ heap \in [BOs -> 0 .. HeapPages]
  /\ submit \in [VMs -> SubmitRec] /\ task \in [Task -> TaskRec]
  /\ grow \in GrowRec

\* How far a submission is in its list, and which task it is about.
SubmitShape(v) ==
  LET s == submit[v]
  IN /\ s.pc = "idle" => s = NoSubmit
     /\ s.pc # "idle" => file[v] = "open"
     /\ s.pc \in {"lookup", "add"} => s.got < Len(s.bos)
     /\ s.pc \in {"lock", "init", "deps", "put"} => s.got = Len(s.bos)
     /\ s.got <= Len(s.bos)
     /\ s.pc = "deps" => /\ s.task \in Task /\ task[s.task].state = "new"
                         /\ task[s.task].vm = v /\ task[s.task].bos = s.bos

\* What a task has, by its state; what it has yet to unmap is on its list.
TaskShape(t) ==
  LET k == task[t]
  IN /\ k.state \in {"none", "freed"} => k.vm = NoVm /\ k.bos = <<>> /\ k.todo = <<>>
     /\ k.state \notin {"none", "freed"} => k.vm \in VMs /\ file[k.vm] # "none"
     /\ k.state \in {"new", "live", "faulted"} => k.todo = k.bos
     /\ \A i \in DOMAIN k.todo : \E j \in DOMAIN k.bos : k.bos[j] = k.todo[i]

\* A heap grows for a task that lives and has it on its list.
GrowShape ==
  grow.pc # "idle" =>
    /\ grow.task \in Task /\ task[grow.task].state = "live" /\ grow.bo \in Heaps
    /\ \E i \in DOMAIN task[grow.task].bos : task[grow.task].bos[i] = grow.bo

HandleShape ==
  \A v \in VMs, b \in BOs : <<v, b>> \in handles => file[v] = "open" /\ b \in born

Control ==
  /\ ControlTyped
  /\ \A v \in VMs : SubmitShape(v)
  /\ \A t \in Task : TaskShape(t)
  /\ GrowShape /\ HandleShape

LEMMA ControlInit == Init => Control
<1>. SUFFICES ASSUME Init PROVE Control
  OBVIOUS
<1>1. 0 \in 0 .. HeapPages /\ (CHOOSE b \in BOs : TRUE) \in BOs
  BY GemAssumption
<1>2. ControlTyped
  BY <1>1 DEF Init, ControlTyped, SubmitRec, TaskRec, GrowRec, NoSubmit, NoTask, NoGrow
<1>3. \A v \in VMs : SubmitShape(v)
  BY DEF Init, SubmitShape, NoSubmit
<1>4. \A t \in Task : TaskShape(t)
  BY DEF Init, TaskShape, NoTask
<1>5. GrowShape /\ HandleShape
  BY DEF Init, GrowShape, HandleShape, NoGrow
<1>. QED  BY <1>2, <1>3, <1>4, <1>5 DEF Control

\* Files and handles.
LEMMA ControlFile ==
  ASSUME Control, NEW v \in VMs, FileStep(v)
  PROVE  Control'
<1>. USE DEF Control
<1>1. UNCHANGED <<submit, task, grow>>
  BY DEF FileStep, OpenFile, CloseFile, Create, OpenHandle, CloseHandle
<1>2. /\ ControlTyped'
      /\ \A w \in VMs : /\ file[w] # "none" => file'[w] # "none"
                        /\ submit[w].pc # "idle" /\ file[w] = "open" => file'[w] = "open"
      /\ HandleShape'
  <2>1. CASE OpenFile(v)
    BY <2>1 DEF OpenFile, ControlTyped, HandleShape
  <2>2. CASE CloseFile(v)
    BY <2>2 DEF CloseFile, ControlTyped, HandleShape
  <2>3. ASSUME NEW b \in BOs, Create(v, b)
        PROVE  UNCHANGED file /\ ControlTyped' /\ HandleShape'
    BY <2>3, GemAssumption DEF Create, ControlTyped, HandleShape
  <2>4. ASSUME NEW b \in BOs, OpenHandle(v, b)
        PROVE  UNCHANGED file /\ ControlTyped' /\ HandleShape'
    BY <2>4 DEF OpenHandle, ControlTyped, HandleShape
  <2>5. ASSUME NEW b \in BOs, CloseHandle(v, b)
        PROVE  UNCHANGED file /\ ControlTyped' /\ HandleShape'
    BY <2>5 DEF CloseHandle, ControlTyped, HandleShape
  <2>. QED  BY <2>1, <2>2, <2>3, <2>4, <2>5 DEF FileStep
<1>3. \A w \in VMs : SubmitShape(w)'
  BY <1>1, <1>2 DEF SubmitShape, ControlTyped
<1>4. \A t \in Task : TaskShape(t)'
  BY <1>1, <1>2 DEF TaskShape, ControlTyped
<1>5. GrowShape'
  BY <1>1 DEF GrowShape
<1>. QED  BY <1>2, <1>3, <1>4, <1>5

\* A submission that moves on alone.
LEMMA ControlAlone ==
  ASSUME Control, NEW v \in VMs, UNCHANGED <<fileVars, heap, task, grow>>,
         submit' = [submit EXCEPT ![v] = submit'[v]], submit'[v] \in SubmitRec,
         SubmitShape(v)'
  PROVE  Control'
<1>. USE DEF Control, fileVars
<1>1. ControlTyped'
  BY DEF ControlTyped
<1>2. \A w \in VMs : SubmitShape(w)'
  BY DEF SubmitShape, ControlTyped
<1>3. \A u \in Task : TaskShape(u)'
  BY DEF TaskShape, ControlTyped
<1>4. GrowShape' /\ HandleShape'
  BY DEF GrowShape, HandleShape, ControlTyped
<1>. QED  BY <1>1, <1>2, <1>3, <1>4

\* A submission that moves on with its task.
LEMMA ControlMoves ==
  ASSUME Control, NEW v \in VMs, NEW t \in Task,
         UNCHANGED <<fileVars, heap, grow>>,
         submit' = [submit EXCEPT ![v] = submit'[v]], submit'[v] \in SubmitRec,
         task' = [task EXCEPT ![t] = task'[t]], task'[t] \in TaskRec,
         SubmitShape(v)', TaskShape(t)',
         task'[t] = task[t] \/ task[t].state \in {"none", "new"},
         \A w \in VMs \ {v} : submit[w].pc = "deps" /\ submit[w].task = t => task'[t] = task[t]
  PROVE  Control'
<1>. USE DEF Control, fileVars
<1>1. ControlTyped'
  BY DEF ControlTyped
<1>2. \A w \in VMs : SubmitShape(w)'
  BY DEF SubmitShape, ControlTyped
<1>3. \A u \in Task : TaskShape(u)'
  BY DEF TaskShape, ControlTyped
<1>4. GrowShape' /\ HandleShape'
  BY DEF GrowShape, HandleShape, ControlTyped
<1>. QED  BY <1>1, <1>2, <1>3, <1>4

\* Submissions and tasks by their fields, as the steps change them.
Submission(pc, bos, got, t) == [pc |-> pc, bos |-> bos, got |-> got, task |-> t]
TaskOf(state, vm, bos, todo) == [state |-> state, vm |-> vm, bos |-> bos, todo |-> todo]
SubmitPcs == {"idle", "lookup", "add", "lock", "init", "deps", "put", "unwind"}

LEMMA SubmitFields ==
  ASSUME ControlTyped, NEW v \in VMs
  PROVE  /\ submit[v].pc \in SubmitPcs /\ submit[v].bos \in Seq(BOs)
         /\ submit[v].got \in Nat /\ submit[v].task \in Task \cup {0}
         /\ Len(submit[v].bos) \in Nat
<1>1. submit[v] \in SubmitRec
  BY DEF ControlTyped
<1>. QED  BY <1>1 DEF SubmitRec, SubmitPcs

LEMMA SetPc ==
  ASSUME NEW s \in SubmitRec, NEW x
  PROVE  [s EXCEPT !.pc = x] = Submission(x, s.bos, s.got, s.task)
BY DEF SubmitRec, Submission

LEMMA SetPcTask ==
  ASSUME NEW s \in SubmitRec, NEW x, NEW y
  PROVE  [s EXCEPT !.pc = x, !.task = y] = Submission(x, s.bos, s.got, y)
<1>1. [s EXCEPT !.pc = x] = Submission(x, s.bos, s.got, s.task)
  BY DEF SubmitRec, Submission
<1>2. [s EXCEPT !.pc = x, !.task = y] = [[s EXCEPT !.pc = x] EXCEPT !.task = y]
  OBVIOUS
<1>3. [Submission(x, s.bos, s.got, s.task) EXCEPT !.task = y] = Submission(x, s.bos, s.got, y)
  BY DEF Submission
<1>. QED  BY <1>1, <1>2, <1>3, Zenon

LEMMA SetGotPc ==
  ASSUME NEW s \in SubmitRec, NEW x, NEW y
  PROVE  [s EXCEPT !.got = y, !.pc = x] = Submission(x, s.bos, y, s.task)
<1>1. [s EXCEPT !.got = y] = Submission(s.pc, s.bos, y, s.task)
  BY DEF SubmitRec, Submission
<1>2. [s EXCEPT !.got = y, !.pc = x] = [[s EXCEPT !.got = y] EXCEPT !.pc = x]
  OBVIOUS
<1>3. [Submission(s.pc, s.bos, y, s.task) EXCEPT !.pc = x] = Submission(x, s.bos, y, s.task)
  BY DEF Submission
<1>. QED  BY <1>1, <1>2, <1>3, Zenon

LEMMA SetBosGot ==
  ASSUME NEW s \in SubmitRec, NEW x, NEW y
  PROVE  [s EXCEPT !.bos = x, !.got = y] = Submission(s.pc, x, y, s.task)
<1>1. [s EXCEPT !.bos = x] = Submission(s.pc, x, s.got, s.task)
  BY DEF SubmitRec, Submission
<1>2. [s EXCEPT !.bos = x, !.got = y] = [[s EXCEPT !.bos = x] EXCEPT !.got = y]
  OBVIOUS
<1>3. [Submission(s.pc, x, s.got, s.task) EXCEPT !.got = y] = Submission(s.pc, x, y, s.task)
  BY DEF Submission
<1>. QED  BY <1>1, <1>2, <1>3, Zenon

LEMMA SetPcBos ==
  ASSUME NEW s \in SubmitRec, NEW x, NEW y
  PROVE  [s EXCEPT !.pc = x, !.bos = y] = Submission(x, y, s.got, s.task)
<1>1. [s EXCEPT !.pc = x] = Submission(x, s.bos, s.got, s.task)
  BY DEF SubmitRec, Submission
<1>2. [s EXCEPT !.pc = x, !.bos = y] = [[s EXCEPT !.pc = x] EXCEPT !.bos = y]
  OBVIOUS
<1>3. [Submission(x, s.bos, s.got, s.task) EXCEPT !.bos = y] = Submission(x, y, s.got, s.task)
  BY DEF Submission
<1>. QED  BY <1>1, <1>2, <1>3, Zenon

LEMMA TaskFields ==
  ASSUME ControlTyped, NEW t \in Task
  PROVE  /\ task[t].vm \in VMs \cup {NoVm}
         /\ task[t].bos \in Seq(BOs) /\ task[t].todo \in Seq(BOs)
<1>1. task[t] \in TaskRec
  BY DEF ControlTyped
<1>. QED  BY <1>1 DEF TaskRec

LEMMA SetStateTodo ==
  ASSUME NEW k \in TaskRec, NEW x, NEW y
  PROVE  [k EXCEPT !.state = x, !.todo = y] = TaskOf(x, k.vm, k.bos, y)
<1>1. [k EXCEPT !.state = x] = TaskOf(x, k.vm, k.bos, k.todo)
  BY DEF TaskRec, TaskOf
<1>2. [k EXCEPT !.state = x, !.todo = y] = [[k EXCEPT !.state = x] EXCEPT !.todo = y]
  OBVIOUS
<1>3. [TaskOf(x, k.vm, k.bos, k.todo) EXCEPT !.todo = y] = TaskOf(x, k.vm, k.bos, y)
  BY DEF TaskOf
<1>. QED  BY <1>1, <1>2, <1>3, Zenon

\* Every step of a submission, by what it makes of its lima_gem_submit.
Moves(v, pc, bos, got, t) == SetSubmit(v, Submission(pc, bos, got, t))

LEMMA MovesTo ==
  ASSUME ControlTyped, NEW v \in VMs, NEW pc \in SubmitPcs, NEW bos \in Seq(BOs),
         NEW got \in Nat, NEW t \in Task \cup {0}, Moves(v, pc, bos, got, t)
  PROVE  /\ submit' = [submit EXCEPT ![v] = submit'[v]] /\ submit'[v] \in SubmitRec
         /\ submit'[v].pc = pc /\ submit'[v].bos = bos
         /\ submit'[v].got = got /\ submit'[v].task = t
<1>1. /\ submit' = [submit EXCEPT ![v] = submit'[v]]
      /\ submit'[v] = Submission(pc, bos, got, t)
  BY DEF ControlTyped, Moves, SetSubmit
<1>. QED  BY <1>1 DEF Submission, SubmitRec, SubmitPcs

LEMMA SubmitMoves ==
  ASSUME ControlTyped, NEW v \in VMs
  PROVE  /\ \A bos : SubmitBegin(v, bos) => Moves(v, "lookup", bos, 0, 0)
         /\ \A pc : Pc(v, pc) => Moves(v, pc, submit[v].bos, submit[v].got, submit[v].task)
         /\ \A pc : SetSubmit(v, [submit[v] EXCEPT !.got = @ + 1, !.pc = pc])
                      => Moves(v, pc, submit[v].bos, submit[v].got + 1, submit[v].task)
         /\ \A pc, t : SetSubmit(v, [submit[v] EXCEPT !.pc = pc, !.task = t])
                         => Moves(v, pc, submit[v].bos, submit[v].got, t)
         /\ SetSubmit(v, NoSubmit) => Moves(v, "idle", <<>>, 0, 0)
         /\ UnwindOne(v) => Moves(v, submit[v].pc, Tail(submit[v].bos), submit[v].got - 1,
                                  submit[v].task)
<1>0. submit[v] \in SubmitRec /\ NoSubmit = Submission("idle", <<>>, 0, 0)
  BY DEF ControlTyped, NoSubmit, Submission
<1>1. \A bos : SubmitBegin(v, bos) => Moves(v, "lookup", bos, 0, 0)
  <2>1. NoSubmit \in SubmitRec /\ NoSubmit.got = 0 /\ NoSubmit.task = 0
    BY DEF NoSubmit, SubmitRec
  <2>2. \A bos : [NoSubmit EXCEPT !.pc = "lookup", !.bos = bos]
                   = Submission("lookup", bos, NoSubmit.got, NoSubmit.task)
    BY <2>1, SetPcBos, Zenon
  <2>. QED  BY <2>1, <2>2 DEF SubmitBegin, Moves
<1>2. \A pc : Pc(v, pc) => Moves(v, pc, submit[v].bos, submit[v].got, submit[v].task)
  BY <1>0, SetPc, Zenon DEF Pc, Moves
<1>3. \A pc : SetSubmit(v, [submit[v] EXCEPT !.got = @ + 1, !.pc = pc])
                => Moves(v, pc, submit[v].bos, submit[v].got + 1, submit[v].task)
  BY <1>0, SetGotPc, Zenon DEF Moves
<1>4. \A pc, t : SetSubmit(v, [submit[v] EXCEPT !.pc = pc, !.task = t])
                   => Moves(v, pc, submit[v].bos, submit[v].got, t)
  BY <1>0, SetPcTask, Zenon DEF Moves
<1>5. SetSubmit(v, NoSubmit) => Moves(v, "idle", <<>>, 0, 0)
  BY <1>0, Zenon DEF Moves
<1>6. UnwindOne(v) => Moves(v, submit[v].pc, Tail(submit[v].bos), submit[v].got - 1,
                            submit[v].task)
  <2>1. UnwindOne(v) => SetSubmit(v, [submit[v] EXCEPT !.bos = Tail(submit[v].bos),
                                                       !.got = submit[v].got - 1])
    BY DEF UnwindOne
  <2>. QED  BY <1>0, <2>1, SetBosGot, Zenon DEF Moves
<1>. QED  BY <1>1, <1>2, <1>3, <1>4, <1>5, <1>6

LEMMA ControlAt ==
  ASSUME Control, NEW v \in VMs, NEW pc \in SubmitPcs \ {"deps", "idle"}, NEW bos \in Seq(BOs),
         NEW got \in Nat, NEW t \in Task \cup {0}, Moves(v, pc, bos, got, t),
         UNCHANGED <<fileVars, heap, task, grow>>,
         file[v] = "open",
         pc \in {"lookup", "add"} => got < Len(bos),
         pc \in {"lock", "init", "put"} => got = Len(bos), got <= Len(bos)
  PROVE  Control'
<1>. DEFINE s == submit'[v]
<1>1. /\ submit' = [submit EXCEPT ![v] = s] /\ s \in SubmitRec
      /\ s.pc = pc /\ s.bos = bos /\ s.got = got /\ s.task = t
  BY MovesTo DEF Control
<1>2. SubmitShape(v)'
  BY <1>1 DEF SubmitShape, fileVars
<1>. QED  BY <1>1, <1>2, ControlAlone

LEMMA ControlEnds ==
  ASSUME Control, NEW v \in VMs, SetSubmit(v, NoSubmit),
         UNCHANGED <<fileVars, heap, task, grow>>
  PROVE  Control'
<1>1. submit' = [submit EXCEPT ![v] = submit'[v]] /\ submit'[v] = NoSubmit
  BY DEF SetSubmit, Control, ControlTyped
<1>2. /\ NoSubmit \in SubmitRec /\ NoSubmit.pc = "idle" /\ NoSubmit.got = 0
      /\ NoSubmit.got <= Len(NoSubmit.bos)
  BY DEF NoSubmit, SubmitRec
<1>3. SubmitShape(v)'
  BY <1>1, <1>2 DEF SubmitShape
<1>. QED  BY <1>1, <1>2, <1>3, ControlAlone

\* The submission ioctl.
LEMMA ControlSubmit ==
  ASSUME Control, NEW v \in VMs, SubmitStep(v)
  PROVE  Control'
<1>. DEFINE s == submit[v]
<1>0. /\ ControlTyped /\ SubmitShape(v) /\ \A t \in Task : TaskShape(t)
      /\ s.pc \in SubmitPcs /\ s.bos \in Seq(BOs) /\ s.got \in Nat
      /\ s.task \in Task \cup {0} /\ Len(s.bos) \in Nat
  BY SubmitFields DEF Control
<1>a. /\ s.pc = "idle" => s = NoSubmit
      /\ s.pc # "idle" => file[v] = "open"
      /\ s.pc \in {"lookup", "add"} => s.got < Len(s.bos)
      /\ s.pc \in {"lock", "init", "deps", "put"} => s.got = Len(s.bos)
      /\ s.got <= Len(s.bos)
      /\ s.pc = "deps" => /\ s.task \in Task /\ task[s.task].state = "new"
                          /\ task[s.task].vm = v /\ task[s.task].bos = s.bos
  BY <1>0 DEF SubmitShape
<1>b. "lookup" \in SubmitPcs /\ "add" \in SubmitPcs /\ "lock" \in SubmitPcs
      /\ "init" \in SubmitPcs /\ "deps" \in SubmitPcs /\ "put" \in SubmitPcs
      /\ "unwind" \in SubmitPcs /\ "idle" \in SubmitPcs
  BY DEF SubmitPcs
<1>. HIDE DEF s
<1>1. ASSUME NEW bos \in BoLists, SubmitBegin(v, bos) PROVE Control'
  <2>1. bos \in Seq(BOs) /\ 0 < Len(bos) /\ 0 <= Len(bos)
    BY GemAssumption
  <2>2. Moves(v, "lookup", bos, 0, 0) /\ file[v] = "open"
        /\ UNCHANGED <<fileVars, heap, task, grow>>
    BY <1>0, <1>1, SubmitMoves DEF SubmitBegin
  <2>. QED  BY <1>b, <2>1, <2>2, ControlAt
<1>2. CASE SubmitLookup(v)
  <2>1. /\ s.pc = "lookup" /\ UNCHANGED <<fileVars, heap, task, grow>>
        /\ Pc(v, "add") \/ Pc(v, "unwind")
    BY <1>2 DEF SubmitLookup, s
  <2>2. Moves(v, "add", s.bos, s.got, s.task) \/ Moves(v, "unwind", s.bos, s.got, s.task)
    BY <1>0, <2>1, SubmitMoves DEF s
  <2>. QED  BY <1>0, <1>a, <1>b, <2>1, <2>2, ControlAt
<1>3. CASE SubmitAdd(v)
  <2>1. s.pc = "add" /\ UNCHANGED <<fileVars, heap, task, grow>>
    BY <1>3 DEF SubmitAdd, s
  <2>2. CASE Pc(v, "unwind")
    <3>1. Moves(v, "unwind", s.bos, s.got, s.task)
      BY <1>0, <2>2, SubmitMoves DEF s
    <3>. QED  BY <1>0, <1>a, <1>b, <2>1, <3>1, ControlAt
  <2>3. CASE SetSubmit(v, [submit[v] EXCEPT !.got = @ + 1,
                             !.pc = IF submit[v].got + 1 = Len(submit[v].bos)
                                    THEN "lock" ELSE "lookup"])
    <3>1. Moves(v, IF s.got + 1 = Len(s.bos) THEN "lock" ELSE "lookup", s.bos,
                s.got + 1, s.task)
      BY <1>0, <2>3, SubmitMoves DEF s
    <3>2. CASE s.got + 1 = Len(s.bos)
      <4>1. Moves(v, "lock", s.bos, s.got + 1, s.task)
        BY <3>1, <3>2
      <4>. QED  BY <1>0, <1>a, <1>b, <2>1, <3>2, <4>1, ControlAt
    <3>3. CASE s.got + 1 # Len(s.bos)
      <4>1. Moves(v, "lookup", s.bos, s.got + 1, s.task)
        BY <3>1, <3>3
      <4>. QED  BY <1>0, <1>a, <1>b, <2>1, <3>3, <4>1, ControlAt
    <3>. QED  BY <3>2, <3>3
  <2>. QED  BY <1>3, <2>2, <2>3 DEF SubmitAdd
<1>4. CASE SubmitLock(v)
  <2>1. /\ s.pc = "lock" /\ UNCHANGED <<fileVars, heap, task, grow>>
        /\ Pc(v, "init") \/ Pc(v, "unwind")
    BY <1>4 DEF SubmitLock, s
  <2>2. Moves(v, "init", s.bos, s.got, s.task) \/ Moves(v, "unwind", s.bos, s.got, s.task)
    BY <1>0, <2>1, SubmitMoves DEF s
  <2>. QED  BY <1>0, <1>a, <1>b, <2>1, <2>2, ControlAt
<1>5. ASSUME NEW t \in Task, SubmitInit(v, t) PROVE Control'
  <2>1. CASE Pc(v, "unwind") /\ UNCHANGED task
    <3>1. Moves(v, "unwind", s.bos, s.got, s.task) /\ s.pc = "init"
          /\ UNCHANGED <<fileVars, heap, task, grow>>
      BY <1>0, <1>5, <2>1, SubmitMoves DEF s, SubmitInit
    <3>. QED  BY <1>0, <1>a, <1>b, <3>1, ControlAt
  <2>2. CASE /\ task' = [task EXCEPT ![t] = [state |-> "new", vm |-> v, bos |-> submit[v].bos,
                                             todo |-> submit[v].bos]]
             /\ SetSubmit(v, [submit[v] EXCEPT !.pc = "deps", !.task = t])
    <3>1. s.pc = "init" /\ task[t].state = "none" /\ UNCHANGED <<fileVars, heap, grow>>
      BY <1>5 DEF SubmitInit, IsFree, s
    <3>2. Moves(v, "deps", s.bos, s.got, t)
      BY <1>0, <2>2, SubmitMoves DEF s
    <3>3. /\ submit' = [submit EXCEPT ![v] = submit'[v]] /\ submit'[v] \in SubmitRec
          /\ submit'[v].pc = "deps" /\ submit'[v].bos = s.bos
          /\ submit'[v].got = s.got /\ submit'[v].task = t
      BY <1>0, <1>b, <3>2, MovesTo
    <3>4. /\ task' = [task EXCEPT ![t] = task'[t]] /\ task'[t] \in TaskRec
          /\ task'[t].state = "new" /\ task'[t].vm = v
          /\ task'[t].bos = s.bos /\ task'[t].todo = s.bos
      BY <1>0, <2>2 DEF s, ControlTyped, TaskRec
    <3>5. SubmitShape(v)'
      BY <1>a, <3>1, <3>3, <3>4 DEF SubmitShape, fileVars
    <3>6. TaskShape(t)'
      BY <1>a, <3>1, <3>4 DEF TaskShape, fileVars
    <3>7. \A w \in VMs \ {v} : submit[w].pc = "deps" => submit[w].task # t
      BY <3>1 DEF Control, SubmitShape
    <3>. QED  BY <3>1, <3>3, <3>4, <3>5, <3>6, <3>7, ControlMoves
  <2>. QED  BY <1>5, <2>1, <2>2 DEF SubmitInit
<1>6. CASE SubmitQueue(v)
  <2>0. PICK t \in Task : t = s.task
    BY <1>0, <1>a, <1>6 DEF SubmitQueue, s
  <2>1. /\ s.pc = "deps" /\ t \in Task /\ task[t].state = "new" /\ task[t].vm = v
        /\ task[t] \in TaskRec /\ UNCHANGED <<fileVars, heap, grow>>
        /\ task' = [task EXCEPT ![t] = [task[t] EXCEPT !.state = "live"]]
    BY <1>0, <1>6, <1>a, <2>0 DEF SubmitQueue, s, ControlTyped
  <2>2. Moves(v, "put", s.bos, s.got, 0)
    <3>1. SetSubmit(v, [submit[v] EXCEPT !.pc = "put", !.task = 0])
      BY <1>6 DEF SubmitQueue
    <3>. QED  BY <1>0, <3>1, SubmitMoves DEF s
  <2>3. /\ submit' = [submit EXCEPT ![v] = submit'[v]] /\ submit'[v] \in SubmitRec
        /\ submit'[v].pc = "put" /\ submit'[v].bos = s.bos
        /\ submit'[v].got = s.got /\ submit'[v].task = 0
    BY <1>0, <1>b, <2>2, MovesTo
  <2>4. /\ task' = [task EXCEPT ![t] = task'[t]] /\ task'[t] \in TaskRec
        /\ task'[t].state = "live" /\ task'[t].vm = v
        /\ task'[t].bos = task[t].bos /\ task'[t].todo = task[t].todo
    BY <1>0, <2>1 DEF ControlTyped, TaskRec
  <2>5. SubmitShape(v)'
    BY <1>a, <2>1, <2>3 DEF SubmitShape, fileVars
  <2>6. TaskShape(t)'
    <3>1. /\ task[t].todo = task[t].bos /\ file'[v] # "none"
          /\ \A i \in DOMAIN task[t].todo :
               \E j \in DOMAIN task[t].bos : task[t].bos[j] = task[t].todo[i]
      BY <1>0, <1>a, <2>1 DEF TaskShape, fileVars
    <3>. QED  BY <2>4, <3>1 DEF TaskShape
  <2>7. \A w \in VMs \ {v} : submit[w].pc = "deps" => submit[w].task # t
    BY <2>1 DEF Control, SubmitShape
  <2>. QED  BY <2>1, <2>3, <2>4, <2>5, <2>6, <2>7, ControlMoves
<1>7. CASE SubmitDepsFail(v)
  <2>0. PICK t \in Task : t = s.task
    BY <1>0, <1>a, <1>7 DEF SubmitDepsFail, s
  <2>1. /\ s.pc = "deps" /\ t \in Task /\ task[t].state = "new" /\ task[t].vm = v
        /\ UNCHANGED <<fileVars, heap, grow>> /\ task' = [task EXCEPT ![t] = NoTask]
    BY <1>0, <1>7, <1>a, <2>0 DEF SubmitDepsFail, s
  <2>2. Moves(v, "unwind", s.bos, s.got, 0)
    <3>1. SetSubmit(v, [submit[v] EXCEPT !.pc = "unwind", !.task = 0])
      BY <1>7 DEF SubmitDepsFail
    <3>. QED  BY <1>0, <3>1, SubmitMoves DEF s
  <2>3. /\ submit' = [submit EXCEPT ![v] = submit'[v]] /\ submit'[v] \in SubmitRec
        /\ submit'[v].pc = "unwind" /\ submit'[v].bos = s.bos
        /\ submit'[v].got = s.got /\ submit'[v].task = 0
    BY <1>0, <1>b, <2>2, MovesTo
  <2>4. /\ task' = [task EXCEPT ![t] = task'[t]] /\ task'[t] \in TaskRec /\ task'[t] = NoTask
    BY <1>0, <2>1 DEF ControlTyped, TaskRec, NoTask
  <2>5. SubmitShape(v)'
    BY <1>a, <2>1, <2>3 DEF SubmitShape, fileVars
  <2>6. TaskShape(t)'
    <3>1. /\ task'[t].state = "none" /\ task'[t].vm = NoVm
          /\ task'[t].bos = <<>> /\ task'[t].todo = <<>>
      BY <2>4 DEF NoTask
    <3>. QED  BY <3>1 DEF TaskShape
  <2>7. \A w \in VMs \ {v} : submit[w].pc = "deps" => submit[w].task # t
    BY <2>1 DEF Control, SubmitShape
  <2>. QED  BY <2>1, <2>3, <2>4, <2>5, <2>6, <2>7, ControlMoves
<1>8. CASE SubmitPut(v)
  BY <1>8, ControlEnds DEF SubmitPut
<1>9. CASE SubmitUnwind(v)
  <2>1. s.pc = "unwind" /\ UNCHANGED <<fileVars, heap, task, grow>>
    BY <1>9 DEF SubmitUnwind, s
  <2>2. CASE s.got > 0 /\ UnwindOne(v)
    <3>1. Moves(v, "unwind", Tail(s.bos), s.got - 1, s.task)
      BY <1>0, <2>1, <2>2, SubmitMoves DEF s
    <3>2. /\ Tail(s.bos) \in Seq(BOs) /\ Len(Tail(s.bos)) = Len(s.bos) - 1
          /\ s.got - 1 \in Nat /\ s.got - 1 <= Len(Tail(s.bos))
      BY <1>0, <1>a, <2>2
    <3>. QED  BY <1>0, <1>a, <1>b, <2>1, <3>1, <3>2, ControlAt
  <2>3. CASE SetSubmit(v, NoSubmit)
    BY <2>1, <2>3, ControlEnds
  <2>. QED  BY <1>9, <2>2, <2>3 DEF SubmitUnwind, s
<1>. QED  BY <1>1, <1>2, <1>3, <1>4, <1>5, <1>6, <1>7, <1>8, <1>9 DEF SubmitStep

\* A task that is not about to be queued moves on.
LEMMA ControlWorks ==
  ASSUME Control, NEW t \in Task, UNCHANGED <<fileVars, heap, submit>>,
         task[t].state # "new", task' = [task EXCEPT ![t] = task'[t]],
         task'[t] \in TaskRec, TaskShape(t)', grow' \in GrowRec, GrowShape'
  PROVE  Control'
<1>. USE DEF Control, fileVars
<1>1. ControlTyped'
  BY DEF ControlTyped
<1>2. \A w \in VMs : SubmitShape(w)'
  BY DEF SubmitShape, ControlTyped
<1>3. \A u \in Task : TaskShape(u)'
  BY DEF TaskShape, ControlTyped
<1>4. HandleShape'
  BY DEF HandleShape
<1>. QED  BY <1>1, <1>2, <1>3, <1>4

LEMMA ControlTask ==
  ASSUME Control, TaskStep
  PROVE  Control'
<1>0. ControlTyped /\ GrowShape /\ grow \in GrowRec /\ \A t \in Task : TaskShape(t)
  BY DEF Control, ControlTyped
<1>1. ASSUME NEW t \in Task, TaskUnmap(t) PROVE Control'
  <2>. DEFINE k == task[t]
  <2>1. /\ k.state \in {"live", "faulted", "freeing"} /\ k.todo # <<>>
        /\ grow.pc # "idle" => grow.task # t
        /\ UNCHANGED <<fileVars, heap, submit, grow>>
        /\ task' = [task EXCEPT ![t] = [task[t] EXCEPT !.state = "freeing", !.todo = Tail(@)]]
    BY <1>1 DEF TaskUnmap
  <2>2. /\ k \in TaskRec /\ k.vm \in VMs \cup {NoVm} /\ k.bos \in Seq(BOs) /\ k.todo \in Seq(BOs)
    BY <1>0, TaskFields DEF ControlTyped
  <2>3. task'[t] = TaskOf("freeing", k.vm, k.bos, Tail(k.todo))
    <3>1. task'[t] = [k EXCEPT !.state = "freeing", !.todo = Tail(k.todo)]
      BY <1>0, <2>1 DEF ControlTyped
    <3>2. [k EXCEPT !.state = "freeing", !.todo = Tail(k.todo)]
            = TaskOf("freeing", k.vm, k.bos, Tail(k.todo))
      BY <2>2, SetStateTodo, Zenon
    <3>. QED  BY <3>1, <3>2
  <2>4. /\ Tail(k.todo) \in Seq(BOs) /\ DOMAIN k.todo = 1 .. Len(k.todo)
        /\ \A i \in DOMAIN Tail(k.todo) : i + 1 \in DOMAIN k.todo /\ Tail(k.todo)[i] = k.todo[i + 1]
    BY <2>1, <2>2
  <2>5. /\ task'[t] \in TaskRec /\ task'[t].state = "freeing" /\ task'[t].vm = k.vm
        /\ task'[t].bos = k.bos /\ task'[t].todo = Tail(k.todo)
    BY <2>2, <2>3, <2>4 DEF TaskRec, TaskOf
  <2>. HIDE DEF k
  <2>6. k.vm \in VMs /\ file[k.vm] # "none"
        /\ \A i \in DOMAIN k.todo : \E j \in DOMAIN k.bos : k.bos[j] = k.todo[i]
    BY <1>0, <2>1 DEF TaskShape, k
  <2>7. TaskShape(t)'
    <3>1. \A i \in DOMAIN Tail(k.todo) : \E j \in DOMAIN k.bos : k.bos[j] = Tail(k.todo)[i]
      BY <2>4, <2>6
    <3>2. task'[t].vm \in VMs /\ file'[task'[t].vm] # "none"
      BY <2>1, <2>5, <2>6 DEF fileVars
    <3>. QED  BY <2>5, <3>1, <3>2 DEF TaskShape
  <2>8. task' = [task EXCEPT ![t] = task'[t]] /\ task[t].state # "new"
    BY <1>0, <2>1 DEF ControlTyped, k
  <2>9. GrowShape'
    BY <1>0, <2>1, <2>8 DEF GrowShape
  <2>. QED  BY <1>0, <2>1, <2>5, <2>7, <2>8, <2>9, ControlWorks
<1>2. ASSUME NEW t \in Task, TaskFini(t) PROVE Control'
  <2>1. /\ task[t].state = "freeing" /\ UNCHANGED <<fileVars, heap, submit, grow>>
        /\ task' = [task EXCEPT ![t] = [NoTask EXCEPT !.state = "freed"]]
    BY <1>2 DEF TaskFini
  <2>2. /\ task' = [task EXCEPT ![t] = task'[t]] /\ task'[t] \in TaskRec
        /\ task'[t].state = "freed" /\ task'[t].vm = NoVm
        /\ task'[t].bos = <<>> /\ task'[t].todo = <<>>
    <3>1. [NoTask EXCEPT !.state = "freed"] = TaskOf("freed", NoVm, <<>>, <<>>)
      BY DEF NoTask, TaskOf
    <3>2. task' = [task EXCEPT ![t] = task'[t]] /\ task'[t] = TaskOf("freed", NoVm, <<>>, <<>>)
      BY <1>0, <2>1, <3>1 DEF ControlTyped
    <3>. QED  BY <3>2 DEF TaskOf, TaskRec
  <2>3. TaskShape(t)'
    BY <2>2 DEF TaskShape
  <2>4. GrowShape'
    BY <1>0, <2>1, <2>2 DEF GrowShape
  <2>. QED  BY <1>0, <2>1, <2>2, <2>3, <2>4, ControlWorks
<1>. QED  BY <1>1, <1>2 DEF TaskStep

\* The growth of a heap.
LEMMA ControlGrow ==
  ASSUME Control, GrowStep
  PROVE  Control'
<1>0. /\ ControlTyped /\ GrowShape /\ grow \in GrowRec /\ \A t \in Task : TaskShape(t)
      /\ NoGrow \in GrowRec /\ NoGrow.pc = "idle"
  <2>1. 0 \in 0 .. HeapPages /\ (CHOOSE b \in BOs : TRUE) \in BOs
    BY GemAssumption
  <2>. QED  BY <2>1 DEF Control, ControlTyped, NoGrow, GrowRec
<1>1. ASSUME NEW t \in Task, GrowFails(t), task[t].state = "live",
             UNCHANGED <<fileVars, heap, submit>>
      PROVE  Control'
  <2>1. grow' = NoGrow /\ task' = [task EXCEPT ![t] = [task[t] EXCEPT !.state = "faulted"]]
    BY <1>1 DEF GrowFails
  <2>2. /\ task' = [task EXCEPT ![t] = task'[t]] /\ task'[t] \in TaskRec
        /\ task'[t].state = "faulted" /\ task'[t].vm = task[t].vm
        /\ task'[t].bos = task[t].bos /\ task'[t].todo = task[t].todo
    BY <1>0, <2>1 DEF ControlTyped, TaskRec
  <2>3. TaskShape(t)'
    BY <1>0, <1>1, <2>2 DEF TaskShape, fileVars
  <2>4. GrowShape' /\ grow' \in GrowRec
    BY <1>0, <2>1 DEF GrowShape
  <2>. QED  BY <1>1, <2>2, <2>3, <2>4, ControlWorks
<1>2. ASSUME grow' \in GrowRec, GrowShape', UNCHANGED <<fileVars, submit, task>>,
             heap' \in [BOs -> 0 .. HeapPages]
      PROVE  Control'
  BY <1>2 DEF Control, ControlTyped, SubmitShape, TaskShape, HandleShape, fileVars
<1>3. ASSUME NEW t \in Task, NEW b \in BOs, GrowWire(t, b) PROVE Control'
  <2>1. /\ task[t].state = "live" /\ \E i \in DOMAIN task[t].bos : task[t].bos[i] = b
        /\ b \in Heaps /\ UNCHANGED <<fileVars, heap, submit>>
    BY <1>3 DEF GrowWire
  <2>2. \/ GrowFails(t)
        \/ /\ grow' = [pc |-> "sg", task |-> t, bo |-> b, new |-> NewSize(b)]
           /\ UNCHANGED task
    BY <1>3 DEF GrowWire
  <2>3. NewSize(b) \in 0 .. HeapPages
    BY <1>0, GemAssumption DEF ControlTyped, NewSize
  <2>4. CASE UNCHANGED task /\ grow' = [pc |-> "sg", task |-> t, bo |-> b, new |-> NewSize(b)]
    <3>1. grow' \in GrowRec /\ GrowShape'
      BY <2>1, <2>3, <2>4 DEF GrowRec, GrowShape
    <3>. QED  BY <1>0, <1>2, <2>1, <2>4, <3>1 DEF ControlTyped
  <2>. QED  BY <1>1, <2>1, <2>2, <2>4
<1>4. ASSUME GrowSg \/ GrowDma \/ GrowMap PROVE Control'
  <2>1. grow.pc # "idle" /\ UNCHANGED <<fileVars, heap, submit>>
    BY <1>4 DEF GrowSg, GrowDma, GrowMap
  <2>2. PICK t \in Task : t = grow.task /\ task[t].state = "live"
    BY <1>0, <2>1 DEF GrowShape
  <2>3. \/ GrowFails(t)
        \/ \E pc \in {"dma", "map", "size"} : grow' = [grow EXCEPT !.pc = pc] /\ UNCHANGED task
    BY <1>4, <2>2 DEF GrowSg, GrowDma, GrowMap
  <2>4. ASSUME NEW pc \in {"dma", "map", "size"}, grow' = [grow EXCEPT !.pc = pc], UNCHANGED task
        PROVE  Control'
    <3>1. grow' \in GrowRec /\ GrowShape'
      BY <1>0, <2>1, <2>4 DEF GrowRec, GrowShape
    <3>. QED  BY <1>0, <1>2, <2>1, <2>4, <3>1 DEF ControlTyped
  <2>. QED  BY <1>1, <2>1, <2>2, <2>3, <2>4
<1>5. CASE GrowSize
  <2>1. /\ grow' = NoGrow /\ UNCHANGED <<fileVars, submit, task>>
        /\ heap' = [heap EXCEPT ![grow.bo] = grow.new]
    BY <1>5 DEF GrowSize
  <2>2. heap' \in [BOs -> 0 .. HeapPages] /\ grow' \in GrowRec /\ GrowShape'
    BY <1>0, <2>1 DEF ControlTyped, GrowRec, GrowShape
  <2>. QED  BY <1>2, <2>1, <2>2
<1>. QED  BY <1>3, <1>4, <1>5 DEF GrowStep

LEMMA ControlNext == ASSUME Control, [Next]_vars PROVE Control'
<1>1. CASE UNCHANGED vars
  BY <1>1 DEF vars, fileVars, Control, ControlTyped, SubmitShape, TaskShape, GrowShape, HandleShape
<1>. QED  BY <1>1, ControlFile, ControlSubmit, ControlTask, ControlGrow DEF Next

-----------------------------------------------------------------------------
(***************************************************************************)
(* References are exact: a step changes a counter by as much as it changes *)
(* the number of holders.                                                  *)
(***************************************************************************)
Looked(s, b) == Cardinality(Places(s.bos, LookedUp(s), b))
Maps(s, b)   == Cardinality(Places(s.bos, Mapped(s), b))

\* Who holds the address space of v: its file, for which 0 stands, and tasks.
VmHolders(v) == {t \in Task \cup {0} : IF t = 0 THEN file[v] = "open" ELSE task[t].vm = v}

RefsTyped ==
  /\ vmRefs \in [VMs -> Int] /\ vaRefs \in [VMs -> [BOs -> Int]]
  /\ gemRefs \in [BOs -> Int]

\* Where drm_sched_job_init fails, an object may have more references than are
\* held.
Refs ==
  /\ RefsTyped
  /\ \A v \in VMs : IsFiniteSet(VmHolders(v)) /\ vmRefs[v] = Cardinality(VmHolders(v))
  /\ \A b \in BOs :
       /\ IsFiniteSet(GemHolders(b)) /\ gemRefs[b] >= Cardinality(GemHolders(b))
       /\ "job_init" \notin MayFail => gemRefs[b] = Cardinality(GemHolders(b))
  /\ \A v \in VMs, b \in BOs :
       IsFiniteSet(VaHolders(v, b)) /\ vaRefs[v][b] = Cardinality(VaHolders(v, b))
  /\ \A b \in BOs : gemRefs[b] > 0 => b \in born

LEMMA CountsAreNat ==
  ASSUME NEW b
  PROVE  /\ \A s \in SubmitRec : Looked(s, b) \in Nat /\ Maps(s, b) \in Nat
         /\ \A bos \in Seq(BOs) : Count(bos, b) \in Nat
<1>1. ASSUME NEW s \in SubmitRec PROVE Looked(s, b) \in Nat /\ Maps(s, b) \in Nat
  <2>1. LookedUp(s) \in Nat /\ Mapped(s) \in Nat
    BY DEF LookedUp, Mapped, SubmitRec
  <2>. QED  BY <2>1, PlacesFinite DEF Looked, Maps
<1>2. ASSUME NEW bos \in Seq(BOs) PROVE Count(bos, b) \in Nat
  <2>1. Len(bos) \in Nat
    OBVIOUS
  <2>. QED  BY <2>1, CountIs, PlacesFinite
<1>. QED  BY <1>1, <1>2

\* By how much the holders change when one owner moves on.
LEMMA GemByHandle ==
  ASSUME Refs, NEW v \in VMs, NEW c \in BOs, NEW b \in BOs, UNCHANGED <<submit, task>>,
         handles' = handles \cup {<<v, c>>} \/ handles' = handles \ {<<v, c>>}
  PROVE  /\ IsFiniteSet(GemHolders(b)') /\ Cardinality(GemHolders(b)) \in Nat
         /\ Cardinality(GemHolders(b)')
              = Cardinality(GemHolders(b)) - One(<<v, b>> \in handles) + One(<<v, b>> \in handles')
<1>1. IsFiniteSet(GemHolders(b))
  BY DEF Refs
<1>2. \A w \in VMs : w # v => (<<w, b>> \in handles <=> <<w, b>> \in handles')
  OBVIOUS
<1>3. IsFiniteSet(GemHeld(handles, submit, task, b))
  BY <1>1, HeldInModel
<1>4. /\ IsFiniteSet(GemHeld(handles', submit, task, b))
      /\ Cardinality(GemHeld(handles', submit, task, b))
           = Cardinality(GemHeld(handles, submit, task, b))
             - One(<<v, b>> \in handles) + One(<<v, b>> \in handles')
  BY <1>2, <1>3, GemHandle
<1>. QED  BY <1>1, <1>4, HeldInModel, FS_CardinalityType

LEMMA GemBySubmit ==
  ASSUME Refs, Control, Control', NEW v \in VMs, NEW b \in BOs, UNCHANGED <<handles, task>>,
         submit' = [submit EXCEPT ![v] = submit'[v]]
  PROVE  /\ IsFiniteSet(GemHolders(b)') /\ Cardinality(GemHolders(b)) \in Nat
         /\ Cardinality(GemHolders(b)')
              = Cardinality(GemHolders(b)) - Looked(submit[v], b) + Looked(submit'[v], b)
<1>1. IsFiniteSet(GemHolders(b))
  BY DEF Refs
<1>2. /\ submit[v] \in SubmitRec /\ submit'[v] \in SubmitRec
      /\ \A w \in VMs : w # v => submit'[w] = submit[w]
  BY DEF Control, ControlTyped
<1>3. IsFiniteSet(GemHeld(handles, submit, task, b))
  BY <1>1, HeldInModel
<1>4. /\ IsFiniteSet(GemHeld(handles, submit', task, b))
      /\ Cardinality(GemHeld(handles, submit', task, b))
           = Cardinality(GemHeld(handles, submit, task, b))
             - Looked(submit[v], b) + Looked(submit'[v], b)
  BY <1>2, <1>3, GemSubmission DEF Looked
<1>. QED  BY <1>1, <1>4, HeldInModel, FS_CardinalityType

LEMMA GemByTask ==
  ASSUME Refs, Control, Control', NEW t \in Task, NEW b \in BOs, UNCHANGED <<handles, submit>>,
         task' = [task EXCEPT ![t] = task'[t]]
  PROVE  /\ IsFiniteSet(GemHolders(b)') /\ Cardinality(GemHolders(b)) \in Nat
         /\ Cardinality(GemHolders(b)')
              = Cardinality(GemHolders(b)) - Count(task[t].bos, b) + Count(task'[t].bos, b)
<1>1. IsFiniteSet(GemHolders(b))
  BY DEF Refs
<1>2. /\ task[t] \in TaskRec /\ task'[t] \in TaskRec
      /\ \A u \in Task : u # t => task'[u] = task[u]
  BY DEF Control, ControlTyped
<1>3. IsFiniteSet(GemHeld(handles, submit, task, b))
  BY <1>1, HeldInModel
<1>4. /\ IsFiniteSet(GemHeld(handles, submit, task', b))
      /\ Cardinality(GemHeld(handles, submit, task', b))
           = Cardinality(GemHeld(handles, submit, task, b))
             - Count(task[t].bos, b) + Count(task'[t].bos, b)
  BY <1>2, <1>3, GemTask
<1>. QED  BY <1>1, <1>4, HeldInModel, FS_CardinalityType

LEMMA GemByBoth ==
  ASSUME Refs, Control, Control', NEW v \in VMs, NEW t \in Task, NEW b \in BOs,
         UNCHANGED handles, submit' = [submit EXCEPT ![v] = submit'[v]],
         task' = [task EXCEPT ![t] = task'[t]]
  PROVE  /\ IsFiniteSet(GemHolders(b)') /\ Cardinality(GemHolders(b)) \in Nat
         /\ Cardinality(GemHolders(b)')
              = Cardinality(GemHolders(b)) - Looked(submit[v], b) + Looked(submit'[v], b)
                - Count(task[t].bos, b) + Count(task'[t].bos, b)
<1>1. IsFiniteSet(GemHolders(b))
  BY DEF Refs
<1>2. /\ submit[v] \in SubmitRec /\ submit'[v] \in SubmitRec
      /\ \A w \in VMs : w # v => submit'[w] = submit[w]
      /\ task[t] \in TaskRec /\ task'[t] \in TaskRec
      /\ \A u \in Task : u # t => task'[u] = task[u]
  BY DEF Control, ControlTyped
<1>3. IsFiniteSet(GemHeld(handles, submit, task, b))
  BY <1>1, HeldInModel
<1>4. /\ IsFiniteSet(GemHeld(handles, submit', task, b))
      /\ Cardinality(GemHeld(handles, submit', task, b))
           = Cardinality(GemHeld(handles, submit, task, b))
             - Looked(submit[v], b) + Looked(submit'[v], b)
  BY <1>2, <1>3, GemSubmission DEF Looked
<1>5. /\ IsFiniteSet(GemHeld(handles, submit', task', b))
      /\ Cardinality(GemHeld(handles, submit', task', b))
           = Cardinality(GemHeld(handles, submit', task, b))
             - Count(task[t].bos, b) + Count(task'[t].bos, b)
  BY <1>2, <1>4, GemTask
<1>6. /\ Looked(submit[v], b) \in Nat /\ Looked(submit'[v], b) \in Nat
      /\ Count(task[t].bos, b) \in Nat /\ Count(task'[t].bos, b) \in Nat
  BY <1>2, CountsAreNat DEF TaskRec
<1>7. Cardinality(GemHolders(b)) \in Nat
  BY <1>1, FS_CardinalityType
<1>. QED  BY <1>4, <1>5, <1>6, <1>7, HeldInModel

LEMMA VaByHandle ==
  ASSUME Refs, NEW w \in VMs, NEW b \in BOs, UNCHANGED <<submit, task>>
  PROVE  /\ IsFiniteSet(VaHolders(w, b)') /\ Cardinality(VaHolders(w, b)) \in Nat
         /\ Cardinality(VaHolders(w, b)')
              = Cardinality(VaHolders(w, b))
                - One(<<w, b>> \in handles) + One(<<w, b>> \in handles')
<1>1. IsFiniteSet(VaHolders(w, b))
  BY DEF Refs
<1>2. IsFiniteSet(VaHeld(handles, submit, task, w, b))
  BY <1>1, HeldInModel
<1>3. /\ IsFiniteSet(VaHeld(handles', submit, task, w, b))
      /\ Cardinality(VaHeld(handles', submit, task, w, b))
           = Cardinality(VaHeld(handles, submit, task, w, b))
             - One(<<w, b>> \in handles) + One(<<w, b>> \in handles')
  BY <1>2, VaHandle
<1>. QED  BY <1>1, <1>3, HeldInModel, FS_CardinalityType

LEMMA VaBySubmit ==
  ASSUME Refs, Control, Control', NEW w \in VMs, NEW b \in BOs, UNCHANGED <<handles, task>>
  PROVE  /\ IsFiniteSet(VaHolders(w, b)') /\ Cardinality(VaHolders(w, b)) \in Nat
         /\ Cardinality(VaHolders(w, b)')
              = Cardinality(VaHolders(w, b)) - Maps(submit[w], b) + Maps(submit'[w], b)
<1>1. IsFiniteSet(VaHolders(w, b))
  BY DEF Refs
<1>2. submit[w] \in SubmitRec /\ submit'[w] \in SubmitRec
  BY DEF Control, ControlTyped
<1>3. IsFiniteSet(VaHeld(handles, submit, task, w, b))
  BY <1>1, HeldInModel
<1>4. /\ IsFiniteSet(VaHeld(handles, submit', task, w, b))
      /\ Cardinality(VaHeld(handles, submit', task, w, b))
           = Cardinality(VaHeld(handles, submit, task, w, b))
             - Maps(submit[w], b) + Maps(submit'[w], b)
  BY <1>2, <1>3, VaSubmission DEF Maps
<1>. QED  BY <1>1, <1>4, HeldInModel, FS_CardinalityType

LEMMA VaByTask ==
  ASSUME Refs, Control, Control', NEW t \in Task, NEW w \in VMs, NEW b \in BOs,
         UNCHANGED <<handles, submit>>, task' = [task EXCEPT ![t] = task'[t]]
  PROVE  /\ IsFiniteSet(VaHolders(w, b)') /\ Cardinality(VaHolders(w, b)) \in Nat
         /\ Cardinality(VaHolders(w, b)')
              = Cardinality(VaHolders(w, b))
                - TodoCount(w, task[t], b) + TodoCount(w, task'[t], b)
<1>1. IsFiniteSet(VaHolders(w, b))
  BY DEF Refs
<1>2. /\ task[t] \in TaskRec /\ task'[t] \in TaskRec
      /\ \A u \in Task : u # t => task'[u] = task[u]
  BY DEF Control, ControlTyped
<1>3. IsFiniteSet(VaHeld(handles, submit, task, w, b))
  BY <1>1, HeldInModel
<1>4. /\ IsFiniteSet(VaHeld(handles, submit, task', w, b))
      /\ Cardinality(VaHeld(handles, submit, task', w, b))
           = Cardinality(VaHeld(handles, submit, task, w, b))
             - TodoCount(w, task[t], b) + TodoCount(w, task'[t], b)
  BY <1>2, <1>3, VaTask
<1>. QED  BY <1>1, <1>4, HeldInModel, FS_CardinalityType

LEMMA VaByBoth ==
  ASSUME Refs, Control, Control', NEW t \in Task, NEW w \in VMs, NEW b \in BOs,
         UNCHANGED handles, task' = [task EXCEPT ![t] = task'[t]]
  PROVE  /\ IsFiniteSet(VaHolders(w, b)') /\ Cardinality(VaHolders(w, b)) \in Nat
         /\ Cardinality(VaHolders(w, b)')
              = Cardinality(VaHolders(w, b)) - Maps(submit[w], b) + Maps(submit'[w], b)
                - TodoCount(w, task[t], b) + TodoCount(w, task'[t], b)
<1>1. IsFiniteSet(VaHolders(w, b))
  BY DEF Refs
<1>2. /\ submit[w] \in SubmitRec /\ submit'[w] \in SubmitRec
      /\ task[t] \in TaskRec /\ task'[t] \in TaskRec
      /\ \A u \in Task : u # t => task'[u] = task[u]
  BY DEF Control, ControlTyped
<1>3. IsFiniteSet(VaHeld(handles, submit, task, w, b))
  BY <1>1, HeldInModel
<1>4. /\ IsFiniteSet(VaHeld(handles, submit', task, w, b))
      /\ Cardinality(VaHeld(handles, submit', task, w, b))
           = Cardinality(VaHeld(handles, submit, task, w, b))
             - Maps(submit[w], b) + Maps(submit'[w], b)
  BY <1>2, <1>3, VaSubmission DEF Maps
<1>5. /\ IsFiniteSet(VaHeld(handles, submit', task', w, b))
      /\ Cardinality(VaHeld(handles, submit', task', w, b))
           = Cardinality(VaHeld(handles, submit', task, w, b))
             - TodoCount(w, task[t], b) + TodoCount(w, task'[t], b)
  BY <1>2, <1>4, VaTask
<1>6. /\ Maps(submit[w], b) \in Nat /\ Maps(submit'[w], b) \in Nat
      /\ TodoCount(w, task[t], b) \in Nat /\ TodoCount(w, task'[t], b) \in Nat
  BY <1>2, CountsAreNat DEF TaskRec, TodoCount
<1>7. Cardinality(VaHolders(w, b)) \in Nat
  BY <1>1, FS_CardinalityType
<1>. QED  BY <1>4, <1>5, <1>6, <1>7, HeldInModel

\* What a submission has looked up and mapped as it moves on.
LEMMA LookedValues ==
  ASSUME NEW s \in SubmitRec, NEW b
  PROVE  /\ s.pc \notin {"add", "put"} =>
              Looked(s, b) = Cardinality(Places(s.bos, s.got, b)) /\ Maps(s, b) = Looked(s, b)
         /\ s.pc = "add" =>
              /\ Maps(s, b) = Cardinality(Places(s.bos, s.got, b))
              /\ Looked(s, b) = Maps(s, b) + One(s.bos[s.got + 1] = b)
         /\ s.pc = "put" =>
              Looked(s, b) = Cardinality(Places(s.bos, s.got, b)) /\ Maps(s, b) = 0
         /\ s.got = Len(s.bos) => Cardinality(Places(s.bos, s.got, b)) = Count(s.bos, b)
         /\ s.got = 0 => Cardinality(Places(s.bos, s.got, b)) = 0
<1>1. s.bos \in Seq(BOs) /\ s.got \in Nat
  BY DEF SubmitRec
<1>2. s.pc = "add" =>
        /\ Maps(s, b) = Cardinality(Places(s.bos, s.got, b))
        /\ Looked(s, b) = Maps(s, b) + One(s.bos[s.got + 1] = b)
  BY <1>1, PlacesNext DEF Looked, Maps, LookedUp, Mapped
<1>3. s.pc = "put" =>
        Looked(s, b) = Cardinality(Places(s.bos, s.got, b)) /\ Maps(s, b) = 0
  BY PlacesNone DEF Looked, Maps, LookedUp, Mapped
<1>4. s.pc \notin {"add", "put"} =>
        Looked(s, b) = Cardinality(Places(s.bos, s.got, b)) /\ Maps(s, b) = Looked(s, b)
  BY DEF Looked, Maps, LookedUp, Mapped
<1>5. s.got = Len(s.bos) => Cardinality(Places(s.bos, s.got, b)) = Count(s.bos, b)
  BY <1>1, CountIs
<1>6. s.got = 0 => Cardinality(Places(s.bos, s.got, b)) = 0
  BY PlacesNone
<1>. QED  BY <1>2, <1>3, <1>4, <1>5, <1>6

\* Counters and holders move together.
GemKept(b) ==
  /\ IsFiniteSet(GemHolders(b)') /\ Cardinality(GemHolders(b)') \in Int
  /\ gemRefs'[b] - Cardinality(GemHolders(b)') = gemRefs[b] - Cardinality(GemHolders(b))
VaKept(v, b) ==
  /\ IsFiniteSet(VaHolders(v, b)') /\ Cardinality(VaHolders(v, b)') \in Int
  /\ vaRefs'[v][b] - Cardinality(VaHolders(v, b)')
       = vaRefs[v][b] - Cardinality(VaHolders(v, b))
VmKept(v) ==
  /\ IsFiniteSet(VmHolders(v)') /\ vmRefs'[v] = Cardinality(VmHolders(v)')

LEMMA RefsFacts ==
  ASSUME Refs, NEW v \in VMs, NEW b \in BOs
  PROVE  /\ gemRefs[b] \in Int /\ vaRefs[v][b] \in Int /\ vmRefs[v] \in Int
         /\ IsFiniteSet(GemHolders(b)) /\ Cardinality(GemHolders(b)) \in Nat
         /\ gemRefs[b] >= Cardinality(GemHolders(b))
         /\ IsFiniteSet(VaHolders(v, b)) /\ vaRefs[v][b] = Cardinality(VaHolders(v, b))
         /\ gemRefs[b] >= 0 /\ vaRefs[v][b] >= 0
<1>1. /\ gemRefs[b] \in Int /\ vaRefs[v][b] \in Int /\ vmRefs[v] \in Int
      /\ IsFiniteSet(GemHolders(b)) /\ gemRefs[b] >= Cardinality(GemHolders(b))
      /\ IsFiniteSet(VaHolders(v, b)) /\ vaRefs[v][b] = Cardinality(VaHolders(v, b))
  BY DEF Refs, RefsTyped
<1>2. Cardinality(GemHolders(b)) \in Nat /\ Cardinality(VaHolders(v, b)) \in Nat
  BY <1>1, FS_CardinalityType
<1>. QED  BY <1>1, <1>2

LEMMA RefsKept ==
  ASSUME Refs, RefsTyped', \A v \in VMs : VmKept(v), \A b \in BOs : GemKept(b),
         \A v \in VMs, b \in BOs : VaKept(v, b),
         \A b \in BOs : gemRefs'[b] > 0 => b \in born'
  PROVE  Refs'
<1>1. ASSUME NEW b \in BOs
      PROVE  /\ IsFiniteSet(GemHolders(b)') /\ gemRefs'[b] >= Cardinality(GemHolders(b)')
             /\ "job_init" \notin MayFail => gemRefs'[b] = Cardinality(GemHolders(b)')
  <2>1. /\ IsFiniteSet(GemHolders(b)) /\ gemRefs[b] >= Cardinality(GemHolders(b))
        /\ "job_init" \notin MayFail => gemRefs[b] = Cardinality(GemHolders(b))
        /\ gemRefs[b] \in Int /\ gemRefs'[b] \in Int
    BY DEF Refs, RefsTyped
  <2>2. Cardinality(GemHolders(b)) \in Nat
    BY <2>1, FS_CardinalityType
  <2>. QED  BY <2>1, <2>2 DEF GemKept
<1>2. ASSUME NEW v \in VMs, NEW b \in BOs
      PROVE  IsFiniteSet(VaHolders(v, b)') /\ vaRefs'[v][b] = Cardinality(VaHolders(v, b)')
  <2>1. /\ IsFiniteSet(VaHolders(v, b)) /\ vaRefs[v][b] = Cardinality(VaHolders(v, b))
        /\ vaRefs[v][b] \in Int /\ vaRefs'[v][b] \in Int
    BY DEF Refs, RefsTyped
  <2>. QED  BY <2>1 DEF VaKept
<1>. QED  BY <1>1, <1>2 DEF Refs, VmKept

\* The holders of an address space are few.
LEMMA VmHoldersFinite ==
  \A v : IsFiniteSet(VmHolders(v)) /\ IsFiniteSet(VmHolders(v)')
<1>1. IsFiniteSet(0 .. NumTasks)
  BY GemAssumption, FS_Interval
<1>2. \A v : VmHolders(v) \in SUBSET (0 .. NumTasks) /\ VmHolders(v)' \in SUBSET (0 .. NumTasks)
  BY GemAssumption DEF VmHolders, Task
<1>. QED  BY <1>1, <1>2, FS_Subset

LEMMA VmSame ==
  ASSUME Refs, NEW v \in VMs, vmRefs'[v] = vmRefs[v], VmHolders(v)' = VmHolders(v)
  PROVE  VmKept(v)
BY DEF Refs, VmKept

\* Who maps an object holds it.
LEMMA MappedHeld ==
  ASSUME Refs, Control, NEW v \in VMs, NEW b \in BOs, vaRefs[v][b] # 0
  PROVE  gemRefs[b] > 0 /\ vaRefs[v][b] > 0
<1>1. /\ IsFiniteSet(VaHolders(v, b)) /\ vaRefs[v][b] = Cardinality(VaHolders(v, b))
      /\ IsFiniteSet(GemHolders(b)) /\ gemRefs[b] >= Cardinality(GemHolders(b))
      /\ gemRefs[b] \in Int
  BY DEF Refs, RefsTyped
<1>2. /\ submit[v] \in SubmitRec /\ \A t \in Task : task[t] \in TaskRec
      /\ \A t \in Task : \A i \in DOMAIN task[t].todo :
           \E j \in DOMAIN task[t].bos : task[t].bos[j] = task[t].todo[i]
  BY DEF Control, ControlTyped, TaskShape
<1>3. VaHeld(handles, submit, task, v, b) # {}
  BY <1>1, HeldInModel, FS_EmptySet
<1>4. GemHeld(handles, submit, task, b) # {}
  BY <1>2, <1>3, MappedIsHeld
<1>5. Cardinality(GemHolders(b)) # 0 /\ Cardinality(GemHolders(b)) \in Nat
  BY <1>1, <1>4, HeldInModel, FS_EmptySet, FS_CardinalityType
<1>6. Cardinality(VaHolders(v, b)) \in Nat
  BY <1>1, FS_CardinalityType
<1>. QED  BY <1>1, <1>5, <1>6

\* Files and handles.
LEMMA RefsCreate ==
  ASSUME Refs, Control, Control', NEW v \in VMs, NEW c \in BOs, Create(v, c)
  PROVE  Refs'
<1>1. /\ c \notin born /\ born' = born \cup {c} /\ handles' = handles \cup {<<v, c>>}
      /\ gemRefs' = [gemRefs EXCEPT ![c] = 1] /\ vaRefs' = [vaRefs EXCEPT ![v][c] = 1]
      /\ UNCHANGED <<file, vmRefs, submit, task>>
  BY DEF Create
<1>2. <<v, c>> \notin handles
  BY <1>1 DEF Control, HandleShape
<1>3. RefsTyped'
  BY <1>1 DEF Refs, RefsTyped
<1>4. gemRefs[c] = 0
  <2>1. gemRefs[c] >= 0 /\ gemRefs[c] \in Int
    BY RefsFacts
  <2>2. ~(gemRefs[c] > 0)
    BY <1>1 DEF Refs
  <2>. QED  BY <2>1, <2>2
<1>5. vaRefs[v][c] = 0
  BY <1>4, MappedHeld
<1>6. \A w \in VMs : VmKept(w)
  <2>1. \A w \in VMs : VmHolders(w)' = VmHolders(w)
    BY <1>1 DEF VmHolders
  <2>. QED  BY <1>1, <2>1, VmSame
<1>7. ASSUME NEW b \in BOs PROVE GemKept(b)
  <2>1. /\ IsFiniteSet(GemHolders(b)') /\ Cardinality(GemHolders(b)) \in Nat
        /\ Cardinality(GemHolders(b)')
             = Cardinality(GemHolders(b)) - One(<<v, b>> \in handles) + One(<<v, b>> \in handles')
    BY <1>1, GemByHandle
  <2>2. <<v, b>> \in handles' <=> (b = c \/ <<v, b>> \in handles)
    BY <1>1
  <2>3. gemRefs[b] \in Int
    BY RefsFacts
  <2>4. gemRefs'[b] = gemRefs[b] + (IF b = c THEN 1 ELSE 0)
    BY <1>1, <1>4, <2>3 DEF Refs, RefsTyped
  <2>5. Cardinality(GemHolders(b)') = Cardinality(GemHolders(b)) + (IF b = c THEN 1 ELSE 0)
    BY <1>2, <2>1, <2>2 DEF One
  <2>. QED  BY <2>1, <2>3, <2>4, <2>5 DEF GemKept
<1>8. ASSUME NEW w \in VMs, NEW b \in BOs PROVE VaKept(w, b)
  <2>1. /\ IsFiniteSet(VaHolders(w, b)') /\ Cardinality(VaHolders(w, b)) \in Nat
        /\ Cardinality(VaHolders(w, b)')
             = Cardinality(VaHolders(w, b)) - One(<<w, b>> \in handles) + One(<<w, b>> \in handles')
    BY <1>1, VaByHandle
  <2>2. <<w, b>> \in handles' <=> ((w = v /\ b = c) \/ <<w, b>> \in handles)
    BY <1>1
  <2>. DEFINE e == IF w = v /\ b = c THEN 1 ELSE 0
  <2>3. vaRefs[w][b] \in Int
    BY RefsFacts
  <2>4. vaRefs'[w][b] = vaRefs[w][b] + e
    BY <1>1, <1>5, <2>3 DEF Refs, RefsTyped
  <2>5. Cardinality(VaHolders(w, b)') = Cardinality(VaHolders(w, b)) + e
    BY <1>2, <2>1, <2>2 DEF One
  <2>. QED  BY <2>1, <2>3, <2>4, <2>5 DEF VaKept
<1>9. \A b \in BOs : gemRefs'[b] > 0 => b \in born'
  BY <1>1 DEF Refs, RefsTyped
<1>. QED  BY <1>3, <1>6, <1>7, <1>8, <1>9, RefsKept

LEMMA RefsHandle ==
  ASSUME Refs, Control, Control', NEW v \in VMs, NEW c \in BOs,
         OpenHandle(v, c) \/ CloseHandle(v, c)
  PROVE  Refs'
<1>. DEFINE d == IF <<v, c>> \in handles THEN -1 ELSE 1
<1>1. /\ UNCHANGED <<file, vmRefs, submit, task, born>>
      /\ handles' = IF <<v, c>> \in handles THEN handles \ {<<v, c>>} ELSE handles \cup {<<v, c>>}
      /\ vaRefs' = [vaRefs EXCEPT ![v][c] = @ + d]
  BY DEF OpenHandle, CloseHandle, BoMap, BoDel, Refs, RefsTyped
<1>2. /\ RefsTyped' /\ \A b \in BOs : gemRefs'[b] = IF b = c THEN gemRefs[b] + d ELSE gemRefs[b]
  <2>1. CASE OpenHandle(v, c)
    BY <1>1, <2>1 DEF OpenHandle, Refs, RefsTyped
  <2>2. CASE CloseHandle(v, c)
    <3>1. \A b \in BOs : Minus(<<c>>)[b] = IF b = c THEN gemRefs[b] - 1 ELSE gemRefs[b]
      BY CountOne DEF Minus, One, Refs, RefsTyped
    <3>2. gemRefs' = Minus(<<c>>) /\ <<v, c>> \in handles
      BY <2>2 DEF CloseHandle, GemPut
    <3>3. Minus(<<c>>) \in [BOs -> Int]
      BY <3>1 DEF Minus, Refs, RefsTyped
    <3>. QED  BY <1>1, <3>1, <3>2, <3>3 DEF Refs, RefsTyped
  <2>. QED  BY <2>1, <2>2
<1>3. \A w \in VMs : VmKept(w)
  <2>1. \A w \in VMs : VmHolders(w)' = VmHolders(w)
    BY <1>1 DEF VmHolders
  <2>. QED  BY <1>1, <2>1, VmSame
<1>4. ASSUME NEW b \in BOs PROVE GemKept(b)
  <2>1. /\ IsFiniteSet(GemHolders(b)') /\ Cardinality(GemHolders(b)) \in Nat
        /\ Cardinality(GemHolders(b)')
             = Cardinality(GemHolders(b)) - One(<<v, b>> \in handles) + One(<<v, b>> \in handles')
    BY <1>1, GemByHandle
  <2>2. <<v, b>> \in handles' <=> IF b = c THEN <<v, b>> \notin handles ELSE <<v, b>> \in handles
    BY <1>1
  <2>3. gemRefs[b] \in Int
    BY RefsFacts
  <2>4. gemRefs'[b] = gemRefs[b] + (IF b = c THEN d ELSE 0)
    BY <1>2, <2>3
  <2>5. Cardinality(GemHolders(b)') = Cardinality(GemHolders(b)) + (IF b = c THEN d ELSE 0)
    BY <2>1, <2>2 DEF One
  <2>. QED  BY <2>1, <2>3, <2>4, <2>5 DEF GemKept
<1>5. ASSUME NEW w \in VMs, NEW b \in BOs PROVE VaKept(w, b)
  <2>1. /\ IsFiniteSet(VaHolders(w, b)') /\ Cardinality(VaHolders(w, b)) \in Nat
        /\ Cardinality(VaHolders(w, b)')
             = Cardinality(VaHolders(w, b)) - One(<<w, b>> \in handles) + One(<<w, b>> \in handles')
    BY <1>1, VaByHandle
  <2>2. <<w, b>> \in handles'
          <=> IF w = v /\ b = c THEN <<w, b>> \notin handles ELSE <<w, b>> \in handles
    BY <1>1
  <2>3. vaRefs'[w][b] = IF w = v /\ b = c THEN vaRefs[w][b] + d ELSE vaRefs[w][b]
    BY <1>1 DEF Refs, RefsTyped
  <2>. DEFINE e == IF w = v /\ b = c THEN d ELSE 0
  <2>4. vaRefs[w][b] \in Int
    BY RefsFacts
  <2>5. vaRefs'[w][b] = vaRefs[w][b] + e
    BY <2>3, <2>4
  <2>6. Cardinality(VaHolders(w, b)') = Cardinality(VaHolders(w, b)) + e
    BY <2>1, <2>2 DEF One
  <2>. QED  BY <2>1, <2>4, <2>5, <2>6 DEF VaKept
<1>6. ASSUME NEW b \in BOs, gemRefs'[b] > 0 PROVE b \in born'
  <2>1. CASE gemRefs[b] > 0
    BY <1>1, <2>1 DEF Refs
  <2>2. CASE ~(gemRefs[b] > 0)
    <3>0. gemRefs[b] \in Int
      BY RefsFacts
    <3>1. b = c /\ d = 1
      BY <1>2, <1>6, <2>2, <3>0
    <3>2. OpenHandle(v, c)
      BY <3>1 DEF CloseHandle
    <3>. QED  BY <1>1, <3>1, <3>2 DEF OpenHandle, Control, HandleShape
  <2>. QED  BY <2>1, <2>2
<1>. QED  BY <1>2, <1>3, <1>4, <1>5, <1>6, RefsKept

LEMMA RefsFile ==
  ASSUME Refs, Control, Control', NEW v \in VMs, OpenFile(v) \/ CloseFile(v)
  PROVE  Refs'
<1>1. /\ UNCHANGED <<handles, born, vaRefs, gemRefs, submit, task>>
      /\ file \in [VMs -> {"none", "open", "closed"}] /\ vmRefs \in [VMs -> Int]
  BY DEF OpenFile, CloseFile, Control, ControlTyped, Refs, RefsTyped
<1>2. RefsTyped'
  BY <1>1 DEF OpenFile, CloseFile, VmCreate, VmPut, Refs, RefsTyped
<1>3. ASSUME NEW w \in VMs, w # v PROVE VmKept(w)
  <2>1. vmRefs'[w] = vmRefs[w] /\ file'[w] = file[w]
    BY <1>1, <1>3 DEF OpenFile, CloseFile, VmCreate, VmPut
  <2>2. VmHolders(w)' = VmHolders(w)
    BY <1>1, <2>1 DEF VmHolders
  <2>. QED  BY <2>1, <2>2, VmSame
<1>4. VmKept(v)
  <2>1. IsFiniteSet(VmHolders(v)) /\ IsFiniteSet(VmHolders(v)')
    BY VmHoldersFinite
  <2>2. CASE OpenFile(v)
    <3>1. file[v] = "none" /\ file'[v] = "open" /\ vmRefs'[v] = 1
      BY <1>1, <2>2 DEF OpenFile, VmCreate
    <3>2. \A t \in Task : task[t].vm # v
      BY <3>1, GemAssumption DEF Control, TaskShape
    <3>3. VmHolders(v)' = {0}
      BY <1>1, <3>1, <3>2 DEF VmHolders, Task
    <3>. QED  BY <2>1, <3>1, <3>3, FS_Singleton DEF VmKept
  <2>3. CASE CloseFile(v)
    <3>1. file[v] = "open" /\ file'[v] = "closed" /\ vmRefs'[v] = vmRefs[v] - 1
      BY <1>1, <2>3 DEF CloseFile, VmPut
    <3>2. VmHolders(v)' = VmHolders(v) \ {0} /\ 0 \in VmHolders(v)
      BY <1>1, <3>1 DEF VmHolders, Task
    <3>3. vmRefs[v] = Cardinality(VmHolders(v))
      BY DEF Refs
    <3>. QED  BY <2>1, <3>1, <3>2, <3>3, FS_RemoveElement DEF VmKept
  <2>. QED  BY <2>2, <2>3
<1>5. \A b \in BOs : IsFiniteSet(GemHolders(b)') /\ GemHolders(b)' = GemHolders(b)
  BY <1>1, RefsFacts, HeldInModel
<1>6. \A w \in VMs, b \in BOs : VaHolders(w, b)' = VaHolders(w, b)
  BY <1>1, HeldInModel
<1>7. Refs'
  BY <1>1, <1>2, <1>3, <1>4, <1>5, <1>6 DEF Refs, VmKept
<1>. QED  BY <1>7

\* The counters keep their types as one of them moves by one.
LEMMA CountersStay ==
  ASSUME RefsTyped
  PROVE  /\ \A b \in BOs : [gemRefs EXCEPT ![b] = @ + 1] \in [BOs -> Int]
         /\ \A v \in VMs, b \in BOs :
              /\ [vaRefs EXCEPT ![v][b] = @ + 1] \in [VMs -> [BOs -> Int]]
              /\ [vaRefs EXCEPT ![v][b] = @ - 1] \in [VMs -> [BOs -> Int]]
<1>1. \A b \in BOs : [gemRefs EXCEPT ![b] = @ + 1] \in [BOs -> Int]
  BY DEF RefsTyped
<1>2. \A v \in VMs, b \in BOs : [vaRefs EXCEPT ![v][b] = @ + 1] \in [VMs -> [BOs -> Int]]
  BY DEF RefsTyped
<1>3. \A v \in VMs, b \in BOs : [vaRefs EXCEPT ![v][b] = @ - 1] \in [VMs -> [BOs -> Int]]
  BY DEF RefsTyped
<1>. QED  BY <1>1, <1>2, <1>3

\* Several references are dropped at once.
LEMMA MinusIs ==
  ASSUME RefsTyped, NEW bos \in Seq(BOs)
  PROVE  /\ Minus(bos) \in [BOs -> Int]
         /\ \A b \in BOs : /\ Count(bos, b) \in Nat /\ gemRefs[b] \in Int
                           /\ Minus(bos)[b] = gemRefs[b] - Count(bos, b)
                           /\ Minus(bos)[b] <= gemRefs[b]
<1>1. \A b \in BOs : Count(bos, b) \in Nat /\ gemRefs[b] \in Int
  BY CountsAreNat DEF RefsTyped
<1>. QED  BY <1>1 DEF Minus

LEMMA MinusOne ==
  ASSUME RefsTyped, NEW c \in BOs
  PROVE  /\ Minus(<<c>>) \in [BOs -> Int]
         /\ \A b \in BOs : /\ gemRefs[b] \in Int /\ Minus(<<c>>)[b] = gemRefs[b] - One(c = b)
                           /\ Minus(<<c>>)[b] <= gemRefs[b]
<1>1. \A b \in BOs : Count(<<c>>, b) = One(c = b) /\ One(c = b) \in {0, 1} /\ gemRefs[b] \in Int
  BY CountOne DEF RefsTyped, One
<1>. QED  BY <1>1 DEF Minus

\* A submission that moves on alone.
LEMMA RefsAlone ==
  ASSUME Refs, Control, Control', NEW v \in VMs,
         UNCHANGED <<file, handles, born, vmRefs, task>>,
         submit' = [submit EXCEPT ![v] = submit'[v]], RefsTyped',
         \A b \in BOs :
           /\ gemRefs'[b] = gemRefs[b] - Looked(submit[v], b) + Looked(submit'[v], b)
           /\ vaRefs'[v][b] = vaRefs[v][b] - Maps(submit[v], b) + Maps(submit'[v], b)
           /\ \A w \in VMs \ {v} : vaRefs'[w][b] = vaRefs[w][b]
           /\ gemRefs'[b] > 0 => b \in born
  PROVE  Refs'
<1>0. submit[v] \in SubmitRec /\ submit'[v] \in SubmitRec
  BY DEF Control, ControlTyped
<1>1. \A w \in VMs : VmKept(w)
  <2>1. \A w \in VMs : VmHolders(w)' = VmHolders(w)
    BY DEF VmHolders
  <2>. QED  BY <2>1, VmSame
<1>2. ASSUME NEW b \in BOs PROVE GemKept(b)
  <2>1. /\ IsFiniteSet(GemHolders(b)') /\ Cardinality(GemHolders(b)) \in Nat
        /\ Cardinality(GemHolders(b)')
             = Cardinality(GemHolders(b)) - Looked(submit[v], b) + Looked(submit'[v], b)
    BY GemBySubmit
  <2>2. Looked(submit[v], b) \in Nat /\ Looked(submit'[v], b) \in Nat /\ gemRefs[b] \in Int
    BY <1>0, CountsAreNat, RefsFacts
  <2>. QED  BY <2>1, <2>2 DEF GemKept
<1>3. ASSUME NEW w \in VMs, NEW b \in BOs PROVE VaKept(w, b)
  <2>1. /\ IsFiniteSet(VaHolders(w, b)') /\ Cardinality(VaHolders(w, b)) \in Nat
        /\ Cardinality(VaHolders(w, b)')
             = Cardinality(VaHolders(w, b)) - Maps(submit[w], b) + Maps(submit'[w], b)
    BY VaBySubmit
  <2>2. vaRefs[w][b] \in Int /\ submit[w] \in SubmitRec /\ submit'[w] \in SubmitRec
    BY RefsFacts DEF Control, ControlTyped
  <2>3. Maps(submit[w], b) \in Nat /\ Maps(submit'[w], b) \in Nat
    BY <2>2, CountsAreNat
  <2>4. vaRefs'[w][b] = vaRefs[w][b] - Maps(submit[w], b) + Maps(submit'[w], b)
    <3>1. CASE w = v
      BY <3>1
    <3>2. CASE w # v
      <4>1. submit'[w] = submit[w] /\ vaRefs'[w][b] = vaRefs[w][b]
        BY <2>2, <3>2 DEF Control, ControlTyped
      <4>. QED  BY <2>2, <2>3, <4>1
    <3>. QED  BY <3>1, <3>2
  <2>. QED  BY <2>1, <2>2, <2>3, <2>4 DEF VaKept
<1>. QED  BY <1>1, <1>2, <1>3, RefsKept

\* A submission that moves on with its task.
LEMMA RefsBoth ==
  ASSUME Refs, Control, Control', NEW v \in VMs, NEW t \in Task,
         UNCHANGED <<file, handles, born>>,
         submit' = [submit EXCEPT ![v] = submit'[v]], task' = [task EXCEPT ![t] = task'[t]],
         RefsTyped', \A w \in VMs : VmKept(w),
         \A b \in BOs :
           /\ gemRefs'[b] = gemRefs[b] - Looked(submit[v], b) + Looked(submit'[v], b)
                              - Count(task[t].bos, b) + Count(task'[t].bos, b)
           /\ \A w \in VMs :
                vaRefs'[w][b] = vaRefs[w][b] - Maps(submit[w], b) + Maps(submit'[w], b)
                                  - TodoCount(w, task[t], b) + TodoCount(w, task'[t], b)
           /\ gemRefs'[b] > 0 => b \in born
  PROVE  Refs'
<1>0. /\ submit \in [VMs -> SubmitRec] /\ submit' \in [VMs -> SubmitRec]
      /\ task[t] \in TaskRec /\ task'[t] \in TaskRec
  BY DEF Control, ControlTyped
<1>2. ASSUME NEW b \in BOs PROVE GemKept(b)
  <2>1. /\ IsFiniteSet(GemHolders(b)') /\ Cardinality(GemHolders(b)) \in Nat
        /\ Cardinality(GemHolders(b)')
             = Cardinality(GemHolders(b)) - Looked(submit[v], b) + Looked(submit'[v], b)
                - Count(task[t].bos, b) + Count(task'[t].bos, b)
    BY GemByBoth
  <2>2. /\ Looked(submit[v], b) \in Nat /\ Looked(submit'[v], b) \in Nat /\ gemRefs[b] \in Int
        /\ Count(task[t].bos, b) \in Nat /\ Count(task'[t].bos, b) \in Nat
    BY <1>0, CountsAreNat, RefsFacts DEF TaskRec
  <2>. QED  BY <2>1, <2>2 DEF GemKept
<1>3. ASSUME NEW w \in VMs, NEW b \in BOs PROVE VaKept(w, b)
  <2>1. /\ IsFiniteSet(VaHolders(w, b)') /\ Cardinality(VaHolders(w, b)) \in Nat
        /\ Cardinality(VaHolders(w, b)')
             = Cardinality(VaHolders(w, b)) - Maps(submit[w], b) + Maps(submit'[w], b)
                - TodoCount(w, task[t], b) + TodoCount(w, task'[t], b)
    BY VaByBoth
  <2>2. /\ vaRefs[w][b] \in Int /\ Maps(submit[w], b) \in Nat /\ Maps(submit'[w], b) \in Nat
        /\ TodoCount(w, task[t], b) \in Nat /\ TodoCount(w, task'[t], b) \in Nat
    BY <1>0, RefsFacts, CountsAreNat DEF TaskRec, TodoCount
  <2>. QED  BY <2>1, <2>2 DEF VaKept
<1>. QED  BY <1>2, <1>3, RefsKept

\* The numbers a submission comes from and goes to.
Held(bos, n, b) == Cardinality(Places(bos, n, b))

From(s, b) ==
  /\ s.bos \in Seq(BOs) /\ s.got \in Nat /\ Len(s.bos) \in Nat
  /\ s.task \in Task \cup {0} /\ s.got <= Len(s.bos)
  /\ Held(s.bos, s.got, b) \in Nat
  /\ s.pc \notin {"add", "put"} => Looked(s, b) = Held(s.bos, s.got, b)
                                   /\ Maps(s, b) = Held(s.bos, s.got, b)
  /\ s.pc = "add" => /\ Looked(s, b) = Held(s.bos, s.got, b) + One(s.bos[s.got + 1] = b)
                     /\ Maps(s, b) = Held(s.bos, s.got, b)
  /\ s.pc = "put" => Looked(s, b) = Held(s.bos, s.got, b) /\ Maps(s, b) = 0
  /\ s.got = Len(s.bos) => Held(s.bos, s.got, b) = Count(s.bos, b)
  /\ s.got = 0 => Held(s.bos, s.got, b) = 0
  /\ s.pc = "idle" => s.got = 0
  /\ s.pc \in {"lookup", "add"} => s.got < Len(s.bos)
  /\ s.pc \in {"lock", "init", "deps", "put"} => s.got = Len(s.bos)
  /\ Held(s.bos, s.got + 1, b) = Held(s.bos, s.got, b) + One(s.bos[s.got + 1] = b)
  /\ s.got > 0 =>
       /\ Held(Tail(s.bos), s.got - 1, b) = Held(s.bos, s.got, b) - One(Head(s.bos) = b)
       /\ Tail(s.bos) \in Seq(BOs) /\ s.got - 1 \in Nat /\ Head(s.bos) \in BOs
  /\ s.pc \in {"lookup", "add"} => s.bos[s.got + 1] \in BOs

LEMMA MovesFrom ==
  ASSUME Control, NEW v \in VMs, NEW b
  PROVE  From(submit[v], b)
<1>. DEFINE s == submit[v]
<1>1. s \in SubmitRec /\ s.bos \in Seq(BOs) /\ s.got \in Nat /\ Len(s.bos) \in Nat
      /\ s.task \in Task \cup {0}
  <2>1. s \in SubmitRec
    BY DEF Control, ControlTyped
  <2>. QED  BY <2>1 DEF SubmitRec
<1>2. /\ s.pc = "idle" => s.got = 0
      /\ s.pc \in {"lookup", "add"} => s.got < Len(s.bos)
      /\ s.pc \in {"lock", "init", "deps", "put"} => s.got = Len(s.bos)
      /\ s.got <= Len(s.bos)
  BY DEF Control, SubmitShape, NoSubmit
<1>. HIDE DEF s
<1>3. Held(s.bos, s.got, b) \in Nat
  BY <1>1, PlacesFinite DEF Held
<1>4. Held(s.bos, s.got + 1, b) = Held(s.bos, s.got, b) + One(s.bos[s.got + 1] = b)
  BY <1>1, PlacesNext DEF Held
<1>5. s.got > 0 =>
        /\ Held(Tail(s.bos), s.got - 1, b) = Held(s.bos, s.got, b) - One(Head(s.bos) = b)
        /\ Tail(s.bos) \in Seq(BOs) /\ s.got - 1 \in Nat /\ Head(s.bos) \in BOs
  <2>1. SUFFICES ASSUME s.got > 0
                 PROVE  /\ Held(Tail(s.bos), s.got - 1, b)
                             = Held(s.bos, s.got, b) - One(Head(s.bos) = b)
                        /\ Tail(s.bos) \in Seq(BOs) /\ s.got - 1 \in Nat /\ Head(s.bos) \in BOs
    OBVIOUS
  <2>2. s.got \in 1 .. Len(s.bos) /\ Len(s.bos) > 0
    BY <1>1, <1>2, <2>1
  <2>3. Tail(s.bos) \in Seq(BOs) /\ s.got - 1 \in Nat /\ Head(s.bos) \in BOs
    BY <1>1, <2>2
  <2>4. Held(Tail(s.bos), s.got - 1, b) = Held(s.bos, s.got, b) - One(Head(s.bos) = b)
    BY <1>1, <2>2, PlacesTail DEF Held
  <2>. QED  BY <2>3, <2>4
<1>6. /\ s.pc \notin {"add", "put"} => Looked(s, b) = Held(s.bos, s.got, b)
                                       /\ Maps(s, b) = Held(s.bos, s.got, b)
      /\ s.pc = "add" => /\ Looked(s, b) = Held(s.bos, s.got, b) + One(s.bos[s.got + 1] = b)
                         /\ Maps(s, b) = Held(s.bos, s.got, b)
      /\ s.pc = "put" => Looked(s, b) = Held(s.bos, s.got, b) /\ Maps(s, b) = 0
      /\ s.got = Len(s.bos) => Held(s.bos, s.got, b) = Count(s.bos, b)
      /\ s.got = 0 => Held(s.bos, s.got, b) = 0
  BY <1>1, LookedValues DEF Held
<1>7. s.pc \in {"lookup", "add"} => s.bos[s.got + 1] \in BOs
  BY <1>1, <1>2
<1>. QED  BY <1>1, <1>2, <1>3, <1>4, <1>5, <1>6, <1>7 DEF s, From

LEMMA MovesInto ==
  ASSUME Control, NEW v \in VMs, NEW pc \in SubmitPcs, NEW bos \in Seq(BOs),
         NEW got \in Nat, NEW t \in Task \cup {0}, Moves(v, pc, bos, got, t), NEW b
  PROVE  /\ submit' = [submit EXCEPT ![v] = submit'[v]]
         /\ pc \notin {"add", "put"} => Looked(submit'[v], b) = Held(bos, got, b)
                                        /\ Maps(submit'[v], b) = Held(bos, got, b)
         /\ pc = "add" => /\ Looked(submit'[v], b) = Held(bos, got, b) + One(bos[got + 1] = b)
                          /\ Maps(submit'[v], b) = Held(bos, got, b)
         /\ pc = "put" => Looked(submit'[v], b) = Held(bos, got, b) /\ Maps(submit'[v], b) = 0
         /\ got = 0 => Held(bos, got, b) = 0
<1>1. /\ submit' = [submit EXCEPT ![v] = submit'[v]] /\ submit'[v] \in SubmitRec
      /\ submit'[v].pc = pc /\ submit'[v].bos = bos
      /\ submit'[v].got = got /\ submit'[v].task = t
  BY MovesTo DEF Control
<1>. DEFINE u == submit'[v]
<1>2. u \in SubmitRec /\ u.pc = pc /\ u.bos = bos /\ u.got = got
  BY <1>1
<1>. HIDE DEF u
<1>3. /\ u.pc \notin {"add", "put"} => Looked(u, b) = Held(u.bos, u.got, b)
                                       /\ Maps(u, b) = Looked(u, b)
      /\ u.pc = "add" => /\ Maps(u, b) = Held(u.bos, u.got, b)
                         /\ Looked(u, b) = Maps(u, b) + One(u.bos[u.got + 1] = b)
      /\ u.pc = "put" => Looked(u, b) = Held(u.bos, u.got, b) /\ Maps(u, b) = 0
      /\ u.got = 0 => Held(u.bos, u.got, b) = 0
  BY <1>2, LookedValues DEF Held
<1>4. /\ pc \notin {"add", "put"} => Looked(u, b) = Held(bos, got, b)
                                     /\ Maps(u, b) = Held(bos, got, b)
      /\ pc = "add" => /\ Looked(u, b) = Held(bos, got, b) + One(bos[got + 1] = b)
                       /\ Maps(u, b) = Held(bos, got, b)
      /\ pc = "put" => Looked(u, b) = Held(bos, got, b) /\ Maps(u, b) = 0
      /\ got = 0 => Held(bos, got, b) = 0
  BY <1>2, <1>3
<1>. QED  BY <1>1, <1>4 DEF u

LEMMA RefsQuiet ==
  ASSUME Refs, Control, Control', NEW v \in VMs,
         UNCHANGED <<file, handles, born, vmRefs, vaRefs, gemRefs, task>>,
         submit' = [submit EXCEPT ![v] = submit'[v]],
         \A b \in BOs : /\ Looked(submit'[v], b) = Looked(submit[v], b)
                        /\ Maps(submit'[v], b) = Maps(submit[v], b)
  PROVE  Refs'
<1>1. RefsTyped'
  BY DEF Refs, RefsTyped
<1>2. ASSUME NEW b \in BOs
      PROVE  /\ gemRefs'[b] = gemRefs[b] - Looked(submit[v], b) + Looked(submit'[v], b)
             /\ vaRefs'[v][b] = vaRefs[v][b] - Maps(submit[v], b) + Maps(submit'[v], b)
             /\ \A w \in VMs \ {v} : vaRefs'[w][b] = vaRefs[w][b]
             /\ gemRefs'[b] > 0 => b \in born
  <2>1. submit[v] \in SubmitRec
    BY DEF Control, ControlTyped
  <2>2. /\ gemRefs[b] \in Int /\ vaRefs[v][b] \in Int
        /\ Looked(submit[v], b) \in Nat /\ Maps(submit[v], b) \in Nat
    BY <2>1, RefsFacts, CountsAreNat
  <2>. QED  BY <2>2 DEF Refs
<1>. QED  BY <1>1, <1>2, RefsAlone

\* The ioctl, up to the task.
LEMMA RefsLookup ==
  ASSUME Refs, Control, Control', NEW v \in VMs, SubmitLookup(v)
  PROVE  Refs'
<1>. DEFINE s == submit[v]
            c == s.bos[s.got + 1]
<1>0. ControlTyped /\ RefsTyped /\ \A pc \in {"add", "unwind"} : pc \in SubmitPcs
  BY DEF Control, Refs, SubmitPcs
<1>1. s.pc = "lookup" /\ UNCHANGED <<file, handles, born, vmRefs, vaRefs, task>>
  BY DEF SubmitLookup, fileVars
<1>a. \A b : From(s, b)
  BY MovesFrom
<1>b. c \in BOs /\ s.bos \in Seq(BOs) /\ s.got \in Nat /\ s.task \in Task \cup {0}
  BY <1>1, <1>a DEF From
<1>2. CASE gemRefs' = [gemRefs EXCEPT ![c] = @ + 1] /\ Pc(v, "add") /\ <<v, c>> \in handles
  <2>1. Moves(v, "add", s.bos, s.got, s.task)
    BY <1>0, <1>2, SubmitMoves
  <2>2. submit' = [submit EXCEPT ![v] = submit'[v]]
    BY <1>0, <1>b, <2>1, MovesInto
  <2>3. RefsTyped'
    <3>1. gemRefs' = [gemRefs EXCEPT ![c] = @ + 1] /\ c \in BOs
      BY <1>2, <1>b
    <3>. HIDE DEF c
    <3>2. gemRefs' \in [BOs -> Int]
      BY <1>0, <3>1, CountersStay
    <3>. QED  BY <1>0, <1>1, <3>2 DEF RefsTyped
  <2>4. ASSUME NEW b \in BOs
        PROVE  /\ gemRefs'[b] = gemRefs[b] - Looked(submit[v], b) + Looked(submit'[v], b)
               /\ vaRefs'[v][b] = vaRefs[v][b] - Maps(submit[v], b) + Maps(submit'[v], b)
               /\ \A w \in VMs \ {v} : vaRefs'[w][b] = vaRefs[w][b]
               /\ gemRefs'[b] > 0 => b \in born
    <3>1. /\ Looked(s, b) = Held(s.bos, s.got, b) /\ Maps(s, b) = Held(s.bos, s.got, b)
          /\ Held(s.bos, s.got, b) \in Nat
      BY <1>1, <1>a DEF From
    <3>2. /\ Looked(submit'[v], b) = Held(s.bos, s.got, b) + One(c = b)
          /\ Maps(submit'[v], b) = Held(s.bos, s.got, b)
      BY <1>0, <1>b, <2>1, MovesInto
    <3>3. gemRefs[b] \in Int /\ vaRefs[v][b] \in Int
      BY RefsFacts
    <3>. HIDE DEF s, c
    <3>4. gemRefs'[b] = gemRefs[b] + One(c = b) /\ One(c = b) \in {0, 1}
      BY <1>0, <1>2, <1>b, <3>3 DEF RefsTyped, One
    <3>5. gemRefs'[b] > 0 => b \in born
      BY <1>2, <1>b, <3>3, <3>4 DEF One, Refs, Control, HandleShape
    <3>. QED  BY <1>1, <3>1, <3>2, <3>3, <3>4, <3>5 DEF s
  <2>. QED  BY <1>1, <2>2, <2>3, <2>4, RefsAlone
<1>3. CASE UNCHANGED gemRefs /\ Pc(v, "unwind")
  <2>1. Moves(v, "unwind", s.bos, s.got, s.task)
    BY <1>0, <1>3, SubmitMoves
  <2>2. submit' = [submit EXCEPT ![v] = submit'[v]]
    BY <1>0, <1>b, <2>1, MovesInto
  <2>3. \A b \in BOs : /\ Looked(submit'[v], b) = Looked(submit[v], b)
                       /\ Maps(submit'[v], b) = Maps(submit[v], b)
    BY <1>0, <1>1, <1>a, <1>b, <2>1, MovesInto DEF From
  <2>. QED  BY <1>1, <1>3, <2>2, <2>3, RefsQuiet
<1>. QED  BY <1>2, <1>3 DEF SubmitLookup, Next1

LEMMA RefsBegin ==
  ASSUME Refs, Control, Control', NEW v \in VMs, NEW bos \in BoLists, SubmitBegin(v, bos)
  PROVE  Refs'
<1>0. ControlTyped /\ "lookup" \in SubmitPcs /\ bos \in Seq(BOs)
  BY GemAssumption DEF Control, SubmitPcs
<1>1. /\ submit[v].pc = "idle"
      /\ UNCHANGED <<file, handles, born, vmRefs, vaRefs, gemRefs, task>>
  BY DEF SubmitBegin, fileVars, refVars
<1>2. Moves(v, "lookup", bos, 0, 0)
  BY <1>0, SubmitMoves
<1>3. submit' = [submit EXCEPT ![v] = submit'[v]]
  BY <1>0, <1>2, MovesInto
<1>4. ASSUME NEW b \in BOs
      PROVE  /\ Looked(submit'[v], b) = Looked(submit[v], b)
             /\ Maps(submit'[v], b) = Maps(submit[v], b)
  <2>1. Looked(submit'[v], b) = 0 /\ Maps(submit'[v], b) = 0
    <3>1. 0 \in Nat /\ 0 \in Task \cup {0}
      OBVIOUS
    <3>2. /\ Looked(submit'[v], b) = Held(bos, 0, b) /\ Maps(submit'[v], b) = Held(bos, 0, b)
          /\ Held(bos, 0, b) = 0
      BY <1>0, <1>2, <3>1, MovesInto
    <3>. QED  BY <3>2
  <2>2. Looked(submit[v], b) = 0 /\ Maps(submit[v], b) = 0
    <3>1. From(submit[v], b)
      BY MovesFrom
    <3>. QED  BY <1>1, <3>1 DEF From
  <2>. QED  BY <2>1, <2>2
<1>. QED  BY <1>1, <1>3, <1>4, RefsQuiet

LEMMA RefsLock ==
  ASSUME Refs, Control, Control', NEW v \in VMs, SubmitLock(v)
  PROVE  Refs'
<1>. DEFINE s == submit[v]
<1>0. ControlTyped /\ "init" \in SubmitPcs /\ "unwind" \in SubmitPcs
  BY DEF Control, SubmitPcs
<1>1. /\ s.pc = "lock" /\ UNCHANGED <<file, handles, born, vmRefs, vaRefs, gemRefs, task>>
      /\ Pc(v, "init") \/ Pc(v, "unwind")
  BY DEF SubmitLock, fileVars, refVars
<1>2. \A b : From(s, b)
  BY MovesFrom
<1>3. s.bos \in Seq(BOs) /\ s.got \in Nat /\ s.task \in Task \cup {0}
  BY <1>2 DEF From
<1>4. PICK pc \in {"init", "unwind"} : pc \in SubmitPcs /\ Moves(v, pc, s.bos, s.got, s.task)
  BY <1>0, <1>1, SubmitMoves
<1>5. submit' = [submit EXCEPT ![v] = submit'[v]]
  BY <1>0, <1>3, <1>4, MovesInto
<1>6. ASSUME NEW b \in BOs
      PROVE  /\ Looked(submit'[v], b) = Looked(submit[v], b)
             /\ Maps(submit'[v], b) = Maps(submit[v], b)
  <2>1. /\ Looked(submit'[v], b) = Held(s.bos, s.got, b)
        /\ Maps(submit'[v], b) = Held(s.bos, s.got, b)
    BY <1>0, <1>3, <1>4, MovesInto
  <2>2. From(s, b)
    BY <1>2
  <2>. QED  BY <1>1, <2>1, <2>2 DEF From
<1>. QED  BY <1>1, <1>5, <1>6, RefsQuiet

LEMMA RefsAdd ==
  ASSUME Refs, Control, Control', NEW v \in VMs, SubmitAdd(v)
  PROVE  Refs'
<1>. DEFINE s == submit[v]
            c == s.bos[s.got + 1]
<1>0. ControlTyped /\ RefsTyped /\ \A pc \in {"lock", "lookup", "unwind"} : pc \in SubmitPcs
  BY DEF Control, Refs, SubmitPcs
<1>1. s.pc = "add" /\ UNCHANGED <<file, handles, born, vmRefs, task>>
  BY DEF SubmitAdd, fileVars
<1>a. \A b : From(s, b)
  BY MovesFrom
<1>b. c \in BOs /\ s.bos \in Seq(BOs) /\ s.got \in Nat /\ s.task \in Task \cup {0}
  BY <1>1, <1>a DEF From
<1>c. s.got + 1 \in Nat
  BY <1>b
<1>2. CASE GemPut(Minus(<<c>>)) /\ Pc(v, "unwind") /\ UNCHANGED vaRefs
  <2>1. Moves(v, "unwind", s.bos, s.got, s.task)
    BY <1>0, <1>2, SubmitMoves
  <2>2. submit' = [submit EXCEPT ![v] = submit'[v]]
    BY <1>0, <1>b, <2>1, MovesInto
  <2>3. RefsTyped' /\ gemRefs' = Minus(<<c>>)
    BY <1>0, <1>1, <1>2, <1>b, MinusOne DEF RefsTyped, GemPut
  <2>4. ASSUME NEW b \in BOs
        PROVE  /\ gemRefs'[b] = gemRefs[b] - Looked(submit[v], b) + Looked(submit'[v], b)
               /\ vaRefs'[v][b] = vaRefs[v][b] - Maps(submit[v], b) + Maps(submit'[v], b)
               /\ \A w \in VMs \ {v} : vaRefs'[w][b] = vaRefs[w][b]
               /\ gemRefs'[b] > 0 => b \in born
    <3>1. /\ Looked(s, b) = Held(s.bos, s.got, b) + One(c = b)
          /\ Maps(s, b) = Held(s.bos, s.got, b) /\ Held(s.bos, s.got, b) \in Nat
      BY <1>1, <1>a DEF From
    <3>2. /\ Looked(submit'[v], b) = Held(s.bos, s.got, b)
          /\ Maps(submit'[v], b) = Held(s.bos, s.got, b)
      BY <1>0, <1>b, <2>1, MovesInto
    <3>3. gemRefs[b] \in Int /\ vaRefs[v][b] \in Int /\ One(c = b) \in {0, 1}
      BY RefsFacts DEF One
    <3>4. gemRefs'[b] = gemRefs[b] - One(c = b)
      BY <1>0, <1>b, <2>3, MinusOne
    <3>. HIDE DEF s, c
    <3>5. gemRefs'[b] > 0 => b \in born
      BY <3>3, <3>4 DEF Refs
    <3>. QED  BY <1>2, <3>1, <3>2, <3>3, <3>4, <3>5 DEF s
  <2>. QED  BY <1>1, <2>2, <2>3, <2>4, RefsAlone
<1>3. CASE /\ BoMap(v, c) /\ UNCHANGED gemRefs
           /\ SetSubmit(v, [submit[v] EXCEPT !.got = @ + 1,
                              !.pc = IF submit[v].got + 1 = Len(submit[v].bos)
                                     THEN "lock" ELSE "lookup"])
  <2>1. PICK pc \in {"lock", "lookup"} :
          pc \in SubmitPcs /\ Moves(v, pc, s.bos, s.got + 1, s.task)
    <3>1. Moves(v, IF s.got + 1 = Len(s.bos) THEN "lock" ELSE "lookup", s.bos,
                s.got + 1, s.task)
      BY <1>0, <1>3, SubmitMoves
    <3>. QED  BY <1>0, <3>1
  <2>2. submit' = [submit EXCEPT ![v] = submit'[v]]
    BY <1>0, <1>b, <1>c, <2>1, MovesInto
  <2>3. vaRefs' = [vaRefs EXCEPT ![v][c] = @ + 1]
    BY <1>3 DEF BoMap
  <2>4. RefsTyped'
    <3>1. vaRefs' = [vaRefs EXCEPT ![v][c] = @ + 1] /\ c \in BOs
      BY <1>b, <2>3
    <3>. HIDE DEF c
    <3>2. vaRefs' \in [VMs -> [BOs -> Int]]
      BY <1>0, <3>1, CountersStay
    <3>. QED  BY <1>0, <1>1, <1>3, <3>2 DEF RefsTyped
  <2>5. ASSUME NEW b \in BOs
        PROVE  /\ gemRefs'[b] = gemRefs[b] - Looked(submit[v], b) + Looked(submit'[v], b)
               /\ vaRefs'[v][b] = vaRefs[v][b] - Maps(submit[v], b) + Maps(submit'[v], b)
               /\ \A w \in VMs \ {v} : vaRefs'[w][b] = vaRefs[w][b]
               /\ gemRefs'[b] > 0 => b \in born
    <3>1. /\ Looked(s, b) = Held(s.bos, s.got, b) + One(c = b)
          /\ Maps(s, b) = Held(s.bos, s.got, b) /\ Held(s.bos, s.got, b) \in Nat
          /\ Held(s.bos, s.got + 1, b) = Held(s.bos, s.got, b) + One(c = b)
      BY <1>1, <1>a DEF From
    <3>2. /\ Looked(submit'[v], b) = Held(s.bos, s.got + 1, b)
          /\ Maps(submit'[v], b) = Held(s.bos, s.got + 1, b)
      BY <1>0, <1>b, <1>c, <2>1, MovesInto
    <3>3. gemRefs[b] \in Int /\ vaRefs[v][b] \in Int /\ One(c = b) \in {0, 1}
      BY RefsFacts DEF One
    <3>. HIDE DEF s, c
    <3>4. vaRefs'[v][b] = vaRefs[v][b] + One(c = b)
      BY <1>0, <1>b, <2>3, <3>3 DEF One, RefsTyped
    <3>5. \A w \in VMs \ {v} : vaRefs'[w][b] = vaRefs[w][b]
      BY <1>0, <2>3 DEF RefsTyped
    <3>6. gemRefs'[b] > 0 => b \in born
      BY <1>3 DEF Refs
    <3>. QED  BY <1>3, <3>1, <3>2, <3>3, <3>4, <3>5, <3>6 DEF s
  <2>. QED  BY <1>1, <2>2, <2>4, <2>5, RefsAlone
<1>. QED  BY <1>2, <1>3 DEF SubmitAdd, Next1

\* The references to an address space, as a task comes and goes.
LEMMA VmTakes ==
  ASSUME Refs, Control, Control', NEW v \in VMs, NEW t \in Task, UNCHANGED file,
         task' = [task EXCEPT ![t] = task'[t]], task[t].vm = NoVm, task'[t].vm = v,
         vmRefs' = [vmRefs EXCEPT ![v] = @ + 1]
  PROVE  \A w \in VMs : VmKept(w)
<1>0. vmRefs \in [VMs -> Int] /\ task \in [Task -> TaskRec] /\ NoVm \notin VMs /\ t # 0
  BY GemAssumption DEF Refs, RefsTyped, Control, ControlTyped, Task
<1>1. ASSUME NEW w \in VMs, w # v PROVE VmKept(w)
  <2>1. VmHolders(w)' = VmHolders(w) /\ vmRefs'[w] = vmRefs[w]
    BY <1>0, <1>1 DEF VmHolders
  <2>. QED  BY <2>1, VmSame
<1>2. VmKept(v)
  <2>1. VmHolders(v)' = VmHolders(v) \cup {t} /\ t \notin VmHolders(v)
    BY <1>0 DEF VmHolders
  <2>2. IsFiniteSet(VmHolders(v)) /\ vmRefs[v] = Cardinality(VmHolders(v))
    BY DEF Refs
  <2>3. vmRefs'[v] = vmRefs[v] + 1
    BY <1>0
  <2>. QED  BY <2>1, <2>2, <2>3, FS_AddElement DEF VmKept
<1>. QED  BY <1>1, <1>2

LEMMA VmGives ==
  ASSUME Refs, Control, Control', NEW v \in VMs, NEW t \in Task, UNCHANGED file,
         task' = [task EXCEPT ![t] = task'[t]], task[t].vm = v, task'[t].vm = NoVm,
         vmRefs' = [vmRefs EXCEPT ![v] = @ - 1]
  PROVE  \A w \in VMs : VmKept(w)
<1>0. vmRefs \in [VMs -> Int] /\ task \in [Task -> TaskRec] /\ NoVm \notin VMs /\ t # 0
  BY GemAssumption DEF Refs, RefsTyped, Control, ControlTyped, Task
<1>1. ASSUME NEW w \in VMs, w # v PROVE VmKept(w)
  <2>1. VmHolders(w)' = VmHolders(w) /\ vmRefs'[w] = vmRefs[w]
    BY <1>0, <1>1 DEF VmHolders
  <2>. QED  BY <2>1, VmSame
<1>2. VmKept(v)
  <2>1. VmHolders(v)' = VmHolders(v) \ {t} /\ t \in VmHolders(v)
    BY <1>0 DEF VmHolders
  <2>2. IsFiniteSet(VmHolders(v)) /\ vmRefs[v] = Cardinality(VmHolders(v))
    BY DEF Refs
  <2>3. vmRefs'[v] = vmRefs[v] - 1
    BY <1>0
  <2>. QED  BY <2>1, <2>2, <2>3, FS_RemoveElement DEF VmKept
<1>. QED  BY <1>1, <1>2

LEMMA VmStays ==
  ASSUME Refs, Control, Control', NEW t \in Task, UNCHANGED <<file, vmRefs>>,
         task' = [task EXCEPT ![t] = task'[t]], task'[t].vm = task[t].vm
  PROVE  \A w \in VMs : VmKept(w)
<1>1. \A w \in VMs : VmHolders(w)' = VmHolders(w)
  BY DEF VmHolders, Control, ControlTyped
<1>. QED  BY <1>1, VmSame

LEMMA CountNone == ASSUME NEW b PROVE Count(<<>>, b) = 0
<1>1. {i \in DOMAIN <<>> : <<>>[i] = b} = {}
  OBVIOUS
<1>. QED  BY <1>1, FS_EmptySet DEF Count

\* The ioctl makes a task.
LEMMA RefsInit ==
  ASSUME Refs, Control, Control', NEW v \in VMs, NEW t \in Task, SubmitInit(v, t)
  PROVE  Refs'
<1>. DEFINE s == submit[v]
<1>0. /\ ControlTyped /\ RefsTyped /\ "deps" \in SubmitPcs /\ "unwind" \in SubmitPcs
      /\ TaskShape(t) /\ task \in [Task -> TaskRec] /\ NoVm \notin VMs
  BY GemAssumption DEF Control, ControlTyped, Refs, SubmitPcs
<1>1. /\ s.pc = "init" /\ UNCHANGED <<file, handles, born, vaRefs>>
      /\ gemRefs' = [b \in BOs |-> gemRefs[b] + Count(s.bos, b)]
      /\ task[t].state = "none"
  BY DEF SubmitInit, fileVars, IsFree
<1>2. \A b : From(s, b)
  BY MovesFrom
<1>3. s.bos \in Seq(BOs) /\ s.got \in Nat /\ s.task \in Task \cup {0} /\ t \in Task \cup {0}
  BY <1>2 DEF From
<1>4. RefsTyped'
  <2>1. \A b \in BOs : gemRefs[b] \in Int /\ Count(s.bos, b) \in Nat
    BY <1>0, <1>3, CountsAreNat DEF RefsTyped
  <2>2. gemRefs' \in [BOs -> Int]
    BY <1>1, <2>1
  <2>3. vmRefs' \in [VMs -> Int]
    BY <1>0 DEF SubmitInit, RefsTyped
  <2>. QED  BY <1>0, <1>1, <2>2, <2>3 DEF RefsTyped
<1>5. ASSUME NEW b \in BOs
      PROVE  /\ gemRefs'[b] = gemRefs[b] + Count(s.bos, b)
             /\ Count(s.bos, b) \in Nat /\ gemRefs[b] \in Int
             /\ Looked(s, b) = Count(s.bos, b) /\ Maps(s, b) = Count(s.bos, b)
             /\ Held(s.bos, s.got, b) = Count(s.bos, b)
             /\ gemRefs'[b] > 0 => b \in born
  <2>1. /\ Count(s.bos, b) \in Nat /\ gemRefs[b] \in Int
        /\ IsFiniteSet(GemHolders(b)) /\ gemRefs[b] >= Cardinality(GemHolders(b))
    BY <1>3, CountsAreNat DEF Refs, RefsTyped
  <2>2. /\ Looked(s, b) = Count(s.bos, b) /\ Maps(s, b) = Count(s.bos, b)
        /\ Held(s.bos, s.got, b) = Count(s.bos, b)
    <3>1. From(s, b)
      BY <1>2
    <3>. QED  BY <1>1, <3>1 DEF From
  <2>3. gemRefs'[b] = gemRefs[b] + Count(s.bos, b)
    BY <1>1
  <2>4. Count(s.bos, b) > 0 => gemRefs[b] > 0
    <3>1. SUFFICES ASSUME Count(s.bos, b) > 0 PROVE gemRefs[b] > 0
      OBVIOUS
    <3>2. SubMarks(v, s, b) # {}
      <4>1. s \in SubmitRec /\ LookedUp(s) \in Nat
        BY <1>0, <1>3 DEF ControlTyped, LookedUp
      <4>2. /\ IsFiniteSet(SubMarks(v, s, b))
            /\ Cardinality(SubMarks(v, s, b)) = Looked(s, b)
        BY <1>3, <4>1, MarksCard DEF SubMarks, Looked
      <4>. QED  BY <2>2, <3>1, <4>2, FS_EmptySet
    <3>3. GemHolders(b) # {}
      <4>1. PICK x : x \in SubMarks(v, s, b)
        BY <3>2
      <4>2. x \in GemHeld(handles, submit, task, b)
        BY <4>1, GemHeldIs
      <4>. QED  BY <4>2, HeldInModel
    <3>4. Cardinality(GemHolders(b)) \in Nat /\ Cardinality(GemHolders(b)) # 0
      BY <2>1, <3>3, FS_EmptySet, FS_CardinalityType
    <3>. QED  BY <2>1, <3>4
  <2>. HIDE DEF s
  <2>5. gemRefs[b] > 0 => b \in born
    BY DEF Refs
  <2>6. gemRefs'[b] > 0 => gemRefs[b] > 0
    BY <2>1, <2>3, <2>4
  <2>. QED  BY <2>1, <2>2, <2>3, <2>5, <2>6
<1>6. CASE "job_init" \in MayFail /\ Pc(v, "unwind") /\ UNCHANGED <<vmRefs, task>>
  <2>1. Moves(v, "unwind", s.bos, s.got, s.task)
    BY <1>0, <1>6, SubmitMoves
  <2>2. submit' = [submit EXCEPT ![v] = submit'[v]]
    BY <1>0, <1>3, <2>1, MovesInto
  <2>3. ASSUME NEW b \in BOs
        PROVE  /\ Looked(submit'[v], b) = Looked(s, b) /\ Maps(submit'[v], b) = Maps(s, b)
               /\ Looked(s, b) \in Nat /\ Maps(s, b) \in Nat
    BY <1>0, <1>3, <1>5, <2>1, MovesInto
  <2>4. ASSUME NEW b \in BOs
        PROVE  IsFiniteSet(GemHolders(b)') /\ gemRefs'[b] >= Cardinality(GemHolders(b)')
    <3>1. /\ IsFiniteSet(GemHolders(b)') /\ Cardinality(GemHolders(b)) \in Nat
          /\ Cardinality(GemHolders(b)')
               = Cardinality(GemHolders(b)) - Looked(s, b) + Looked(submit'[v], b)
      BY <1>1, <1>6, <2>2, GemBySubmit
    <3>2. Cardinality(GemHolders(b)') = Cardinality(GemHolders(b))
      BY <2>3, <3>1
    <3>3. gemRefs[b] >= Cardinality(GemHolders(b))
      BY DEF Refs
    <3>. QED  BY <1>5, <3>1, <3>2, <3>3
  <2>5. ASSUME NEW w \in VMs, NEW b \in BOs
        PROVE  IsFiniteSet(VaHolders(w, b)') /\ vaRefs'[w][b] = Cardinality(VaHolders(w, b)')
    <3>1. /\ IsFiniteSet(VaHolders(w, b)') /\ Cardinality(VaHolders(w, b)) \in Nat
          /\ Cardinality(VaHolders(w, b)')
               = Cardinality(VaHolders(w, b)) - Maps(submit[w], b) + Maps(submit'[w], b)
      BY <1>1, <1>6, VaBySubmit
    <3>2. submit[w] \in SubmitRec /\ (w # v => submit'[w] = submit[w])
      BY <1>0, <2>2 DEF ControlTyped
    <3>3. Maps(submit[w], b) \in Nat /\ Maps(submit'[w], b) = Maps(submit[w], b)
      BY <2>3, <3>2, CountsAreNat
    <3>4. vaRefs[w][b] = Cardinality(VaHolders(w, b))
      BY DEF Refs
    <3>. QED  BY <1>1, <3>1, <3>3, <3>4
  <2>6. \A w \in VMs : VmKept(w)
    <3>1. \A w \in VMs : VmHolders(w)' = VmHolders(w)
      BY <1>1, <1>6 DEF VmHolders
    <3>. QED  BY <1>6, <3>1, VmSame
  <2>7. \A b \in BOs : gemRefs'[b] > 0 => b \in born'
    BY <1>1, <1>5
  <2>. QED  BY <1>4, <1>6, <2>4, <2>5, <2>6, <2>7 DEF Refs, VmKept
<1>7. CASE /\ vmRefs' = [vmRefs EXCEPT ![v] = @ + 1]
           /\ task' = [task EXCEPT ![t] = [state |-> "new", vm |-> v, bos |-> submit[v].bos,
                                           todo |-> submit[v].bos]]
           /\ SetSubmit(v, [submit[v] EXCEPT !.pc = "deps", !.task = t])
  <2>1. Moves(v, "deps", s.bos, s.got, t)
    BY <1>0, <1>7, SubmitMoves
  <2>2. submit' = [submit EXCEPT ![v] = submit'[v]]
    BY <1>0, <1>3, <2>1, MovesInto
  <2>3. /\ task' = [task EXCEPT ![t] = task'[t]]
        /\ task'[t].state = "new" /\ task'[t].vm = v /\ task'[t].bos = s.bos
    BY <1>0, <1>7
  <2>4. task[t].vm = NoVm /\ task[t].bos = <<>>
    BY <1>0, <1>1 DEF TaskShape
  <2>5. \A w \in VMs : VmKept(w)
    BY <1>1, <1>7, <2>3, <2>4, VmTakes
  <2>6. ASSUME NEW b \in BOs
        PROVE  /\ gemRefs'[b] = gemRefs[b] - Looked(submit[v], b) + Looked(submit'[v], b)
                                  - Count(task[t].bos, b) + Count(task'[t].bos, b)
               /\ \A w \in VMs :
                    vaRefs'[w][b] = vaRefs[w][b] - Maps(submit[w], b) + Maps(submit'[w], b)
                                      - TodoCount(w, task[t], b) + TodoCount(w, task'[t], b)
               /\ gemRefs'[b] > 0 => b \in born
    <3>1. Looked(submit'[v], b) = Held(s.bos, s.got, b) /\ Maps(submit'[v], b) = Held(s.bos, s.got, b)
      BY <1>0, <1>3, <2>1, MovesInto
    <3>2. Count(task[t].bos, b) = 0 /\ Count(task'[t].bos, b) = Count(s.bos, b)
      BY <2>3, <2>4, CountNone
    <3>3. ASSUME NEW w \in VMs
          PROVE  vaRefs'[w][b] = vaRefs[w][b] - Maps(submit[w], b) + Maps(submit'[w], b)
                                   - TodoCount(w, task[t], b) + TodoCount(w, task'[t], b)
      <4>1. TodoCount(w, task[t], b) = 0 /\ TodoCount(w, task'[t], b) = 0
        BY <1>0, <2>3, <2>4 DEF TodoCount
      <4>2. submit[w] \in SubmitRec /\ (w # v => submit'[w] = submit[w])
        BY <1>0, <2>2 DEF ControlTyped
      <4>3. Maps(submit[w], b) \in Nat /\ Maps(submit'[w], b) = Maps(submit[w], b)
        BY <1>5, <3>1, <4>2, CountsAreNat
      <4>4. vaRefs[w][b] \in Int
        BY RefsFacts
      <4>. QED  BY <1>1, <4>1, <4>3, <4>4
    <3>. QED  BY <1>5, <3>1, <3>2, <3>3
  <2>. QED  BY <1>1, <1>4, <2>2, <2>3, <2>5, <2>6, RefsBoth
<1>. QED  BY <1>6, <1>7 DEF SubmitInit

\* It queues the task, which has the mappings from then on.
LEMMA RefsQueue ==
  ASSUME Refs, Control, Control', NEW v \in VMs, SubmitQueue(v)
  PROVE  Refs'
<1>. DEFINE s == submit[v]
<1>0. /\ ControlTyped /\ "put" \in SubmitPcs /\ \A t \in Task : TaskShape(t)
      /\ task \in [Task -> TaskRec] /\ SubmitShape(v)
  BY DEF Control, ControlTyped, SubmitPcs
<1>1. /\ s.pc = "deps" /\ UNCHANGED <<file, handles, born, vmRefs, vaRefs, gemRefs>>
      /\ task' = [task EXCEPT ![s.task].state = "live"]
      /\ SetSubmit(v, [submit[v] EXCEPT !.pc = "put", !.task = 0])
  BY DEF SubmitQueue, fileVars, refVars
<1>2. \A b : From(s, b)
  BY MovesFrom
<1>3. s.bos \in Seq(BOs) /\ s.got \in Nat /\ s.got = Len(s.bos) /\ 0 \in Task \cup {0}
  BY <1>1, <1>2 DEF From
<1>4. PICK t \in Task : t = s.task /\ task[t].state = "new" /\ task[t].vm = v
                        /\ task[t].bos = s.bos
  BY <1>0, <1>1 DEF SubmitShape
<1>5. task[t].todo = s.bos
  BY <1>0, <1>4 DEF TaskShape
<1>6. /\ task' = [task EXCEPT ![t] = task'[t]] /\ task'[t].state = "live"
      /\ task'[t].vm = v /\ task'[t].bos = s.bos /\ task'[t].todo = s.bos
  BY <1>0, <1>1, <1>4, <1>5 DEF TaskRec
<1>7. Moves(v, "put", s.bos, s.got, 0)
  BY <1>0, <1>1, SubmitMoves
<1>8. submit' = [submit EXCEPT ![v] = submit'[v]]
  BY <1>0, <1>3, <1>7, MovesInto
<1>9. \A w \in VMs : VmKept(w)
  BY <1>1, <1>4, <1>6, VmStays
<1>10. RefsTyped'
  BY <1>1 DEF Refs, RefsTyped
<1>11. ASSUME NEW b \in BOs
       PROVE  /\ gemRefs'[b] = gemRefs[b] - Looked(submit[v], b) + Looked(submit'[v], b)
                                 - Count(task[t].bos, b) + Count(task'[t].bos, b)
              /\ \A w \in VMs :
                   vaRefs'[w][b] = vaRefs[w][b] - Maps(submit[w], b) + Maps(submit'[w], b)
                                     - TodoCount(w, task[t], b) + TodoCount(w, task'[t], b)
              /\ gemRefs'[b] > 0 => b \in born
  <2>1. /\ Looked(s, b) = Count(s.bos, b) /\ Maps(s, b) = Count(s.bos, b)
        /\ Held(s.bos, s.got, b) = Count(s.bos, b)
    <3>1. From(s, b)
      BY <1>2
    <3>. QED  BY <1>1, <3>1 DEF From
  <2>2. Looked(submit'[v], b) = Count(s.bos, b) /\ Maps(submit'[v], b) = 0
    BY <1>0, <1>3, <1>7, <2>1, MovesInto
  <2>3. Count(task[t].bos, b) = Count(s.bos, b) /\ Count(task'[t].bos, b) = Count(s.bos, b)
    BY <1>4, <1>6
  <2>4. Count(s.bos, b) \in Nat /\ gemRefs[b] \in Int
    BY <1>3, CountsAreNat DEF Refs, RefsTyped
  <2>5. ASSUME NEW w \in VMs
        PROVE  vaRefs'[w][b] = vaRefs[w][b] - Maps(submit[w], b) + Maps(submit'[w], b)
                                 - TodoCount(w, task[t], b) + TodoCount(w, task'[t], b)
    <3>1. vaRefs[w][b] \in Int
      BY RefsFacts
    <3>2. CASE w = v
      <4>1. TodoCount(w, task[t], b) = 0 /\ TodoCount(w, task'[t], b) = Count(s.bos, b)
        BY <1>4, <1>6, <3>2 DEF TodoCount
      <4>. QED  BY <1>1, <2>1, <2>2, <2>4, <3>1, <3>2, <4>1
    <3>3. CASE w # v
      <4>1. TodoCount(w, task[t], b) = 0 /\ TodoCount(w, task'[t], b) = 0
        BY <1>4, <1>6, <3>3 DEF TodoCount
      <4>2. submit[w] \in SubmitRec /\ submit'[w] = submit[w]
        BY <1>0, <1>8, <3>3 DEF ControlTyped
      <4>3. Maps(submit[w], b) \in Nat
        BY <4>2, CountsAreNat
      <4>. QED  BY <1>1, <3>1, <4>1, <4>2, <4>3
    <3>. QED  BY <3>2, <3>3
  <2>6. gemRefs'[b] > 0 => b \in born
    BY <1>1 DEF Refs
  <2>. QED  BY <1>1, <2>1, <2>2, <2>3, <2>4, <2>5, <2>6
<1>. QED  BY <1>1, <1>6, <1>8, <1>9, <1>10, <1>11, RefsBoth

\* A dependency fails: lima_sched_task_fini takes back what the task holds.
LEMMA RefsDepsFail ==
  ASSUME Refs, Control, Control', NEW v \in VMs, SubmitDepsFail(v)
  PROVE  Refs'
<1>. DEFINE s == submit[v]
<1>0. /\ ControlTyped /\ "unwind" \in SubmitPcs /\ task \in [Task -> TaskRec] /\ SubmitShape(v)
      /\ RefsTyped /\ NoVm \notin VMs
  BY GemAssumption DEF Control, ControlTyped, SubmitPcs, Refs
<1>2. \A b : From(s, b)
  BY MovesFrom
<1>1. /\ s.pc = "deps" /\ UNCHANGED <<file, handles, born, vaRefs>>
      /\ GemPut(Minus(task[s.task].bos)) /\ task' = [task EXCEPT ![s.task] = NoTask]
      /\ SetSubmit(v, [submit[v] EXCEPT !.pc = "unwind", !.task = 0]) /\ VmPut(v)
  BY DEF SubmitDepsFail, fileVars
<1>3. s.bos \in Seq(BOs) /\ s.got \in Nat /\ s.got = Len(s.bos) /\ 0 \in Task \cup {0}
  BY <1>1, <1>2 DEF From
<1>4. PICK t \in Task : t = s.task /\ task[t].state = "new" /\ task[t].vm = v
                        /\ task[t].bos = s.bos
  BY <1>0, <1>1 DEF SubmitShape
<1>5. gemRefs' = Minus(s.bos) /\ vmRefs' = [vmRefs EXCEPT ![v] = @ - 1]
  BY <1>1, <1>4 DEF GemPut, VmPut
<1>6. /\ task' = [task EXCEPT ![t] = task'[t]] /\ task'[t].state = "none"
      /\ task'[t].vm = NoVm /\ task'[t].bos = <<>>
  BY <1>0, <1>1, <1>4 DEF NoTask
<1>7. Moves(v, "unwind", s.bos, s.got, 0)
  BY <1>0, <1>1, SubmitMoves
<1>8. submit' = [submit EXCEPT ![v] = submit'[v]]
  BY <1>0, <1>3, <1>7, MovesInto
<1>9. \A w \in VMs : VmKept(w)
  BY <1>1, <1>4, <1>5, <1>6, VmGives
<1>10. RefsTyped'
  BY <1>0, <1>1, <1>3, <1>5, MinusIs DEF RefsTyped
<1>11. ASSUME NEW b \in BOs
       PROVE  /\ gemRefs'[b] = gemRefs[b] - Looked(submit[v], b) + Looked(submit'[v], b)
                                 - Count(task[t].bos, b) + Count(task'[t].bos, b)
              /\ \A w \in VMs :
                   vaRefs'[w][b] = vaRefs[w][b] - Maps(submit[w], b) + Maps(submit'[w], b)
                                     - TodoCount(w, task[t], b) + TodoCount(w, task'[t], b)
              /\ gemRefs'[b] > 0 => b \in born
  <2>1. /\ Looked(s, b) = Held(s.bos, s.got, b) /\ Maps(s, b) = Held(s.bos, s.got, b)
        /\ Held(s.bos, s.got, b) = Count(s.bos, b)
    <3>1. From(s, b)
      BY <1>2
    <3>. QED  BY <1>1, <3>1 DEF From
  <2>2. /\ Looked(submit'[v], b) = Held(s.bos, s.got, b)
        /\ Maps(submit'[v], b) = Held(s.bos, s.got, b)
    BY <1>0, <1>3, <1>7, MovesInto
  <2>3. Count(task[t].bos, b) = Count(s.bos, b) /\ Count(task'[t].bos, b) = 0
    BY <1>4, <1>6, CountNone
  <2>4. /\ Count(s.bos, b) \in Nat /\ gemRefs[b] \in Int
        /\ gemRefs'[b] = gemRefs[b] - Count(s.bos, b)
    BY <1>0, <1>3, <1>5, MinusIs
  <2>5. ASSUME NEW w \in VMs
        PROVE  vaRefs'[w][b] = vaRefs[w][b] - Maps(submit[w], b) + Maps(submit'[w], b)
                                 - TodoCount(w, task[t], b) + TodoCount(w, task'[t], b)
    <3>1. vaRefs[w][b] \in Int
      BY RefsFacts
    <3>2. TodoCount(w, task[t], b) = 0 /\ TodoCount(w, task'[t], b) = 0
      BY <1>0, <1>4, <1>6 DEF TodoCount
    <3>3. submit[w] \in SubmitRec /\ (w # v => submit'[w] = submit[w])
      BY <1>0, <1>8 DEF ControlTyped
    <3>4. Maps(submit[w], b) \in Nat /\ Maps(submit'[w], b) = Maps(submit[w], b)
      BY <2>1, <2>2, <3>3, CountsAreNat
    <3>. QED  BY <1>1, <3>1, <3>2, <3>4
  <2>6. gemRefs'[b] > 0 => b \in born
    <3>1. gemRefs'[b] > 0 => gemRefs[b] > 0
      BY <2>4
    <3>. QED  BY <3>1 DEF Refs
  <2>. QED  BY <2>1, <2>2, <2>3, <2>4, <2>5, <2>6
<1>. QED  BY <1>1, <1>6, <1>8, <1>9, <1>10, <1>11, RefsBoth

\* A submission that is over.
LEMMA MovesOut ==
  ASSUME Control, NEW v \in VMs, SetSubmit(v, NoSubmit), NEW b
  PROVE  /\ submit' = [submit EXCEPT ![v] = submit'[v]]
         /\ Looked(submit'[v], b) = 0 /\ Maps(submit'[v], b) = 0
<1>1. submit' = [submit EXCEPT ![v] = submit'[v]] /\ submit'[v] = NoSubmit
  BY DEF SetSubmit, Control, ControlTyped
<1>2. /\ NoSubmit \in SubmitRec /\ NoSubmit.pc \notin {"add", "put"} /\ NoSubmit.got = 0
  BY DEF NoSubmit, SubmitRec
<1>3. Looked(NoSubmit, b) = 0 /\ Maps(NoSubmit, b) = 0
  BY <1>2, LookedValues
<1>. QED  BY <1>1, <1>3

\* The references of the lookups are dropped.
LEMMA RefsPut ==
  ASSUME Refs, Control, Control', NEW v \in VMs, SubmitPut(v)
  PROVE  Refs'
<1>. DEFINE s == submit[v]
<1>0. RefsTyped
  BY DEF Refs
<1>1. /\ s.pc = "put" /\ UNCHANGED <<file, handles, born, vmRefs, vaRefs, task>>
      /\ gemRefs' = Minus(s.bos) /\ SetSubmit(v, NoSubmit)
  BY DEF SubmitPut, fileVars, GemPut
<1>2. \A b : From(s, b)
  BY MovesFrom
<1>3. s.bos \in Seq(BOs) /\ s.got = Len(s.bos)
  BY <1>1, <1>2 DEF From
<1>5. submit' = [submit EXCEPT ![v] = submit'[v]]
  BY <1>1, MovesOut
<1>6. RefsTyped'
  BY <1>0, <1>1, <1>3, MinusIs DEF RefsTyped
<1>7. ASSUME NEW b \in BOs
      PROVE  /\ gemRefs'[b] = gemRefs[b] - Looked(submit[v], b) + Looked(submit'[v], b)
             /\ vaRefs'[v][b] = vaRefs[v][b] - Maps(submit[v], b) + Maps(submit'[v], b)
             /\ \A w \in VMs \ {v} : vaRefs'[w][b] = vaRefs[w][b]
             /\ gemRefs'[b] > 0 => b \in born
  <2>1. Looked(s, b) = Count(s.bos, b) /\ Maps(s, b) = 0
    <3>1. From(s, b)
      BY <1>2
    <3>. QED  BY <1>1, <3>1 DEF From
  <2>2. Looked(submit'[v], b) = 0 /\ Maps(submit'[v], b) = 0
    BY <1>1, MovesOut
  <2>3. /\ Count(s.bos, b) \in Nat /\ gemRefs[b] \in Int
        /\ gemRefs'[b] = gemRefs[b] - Count(s.bos, b) /\ vaRefs[v][b] \in Int
    BY <1>0, <1>1, <1>3, MinusIs, RefsFacts
  <2>. HIDE DEF s
  <2>4. gemRefs'[b] > 0 => b \in born
    <3>1. gemRefs'[b] > 0 => gemRefs[b] > 0
      BY <2>3
    <3>. QED  BY <3>1 DEF Refs
  <2>. QED  BY <1>1, <2>1, <2>2, <2>3, <2>4 DEF s
<1>. QED  BY <1>1, <1>5, <1>6, <1>7, RefsAlone

\* The error path.
LEMMA RefsUnwind ==
  ASSUME Refs, Control, Control', NEW v \in VMs, SubmitUnwind(v)
  PROVE  Refs'
<1>. DEFINE s == submit[v]
            c == Head(s.bos)
<1>0. ControlTyped /\ RefsTyped /\ "unwind" \in SubmitPcs
  BY DEF Control, Refs, SubmitPcs
<1>1. /\ s.pc = "unwind" /\ UNCHANGED <<file, handles, born, vmRefs, task>>
      /\ \/ s.got > 0 /\ UnwindOne(v)
         \/ s.got = 0 /\ SetSubmit(v, NoSubmit) /\ UNCHANGED <<vaRefs, gemRefs>>
  BY DEF SubmitUnwind, fileVars
<1>2. \A b : From(s, b)
  BY MovesFrom
<1>3. s.bos \in Seq(BOs) /\ s.got \in Nat /\ s.task \in Task \cup {0}
  BY <1>2 DEF From
<1>4. CASE s.got > 0 /\ UnwindOne(v)
  <2>1. Moves(v, "unwind", Tail(s.bos), s.got - 1, s.task)
    BY <1>0, <1>1, <1>4, SubmitMoves
  <2>2. Tail(s.bos) \in Seq(BOs) /\ s.got - 1 \in Nat /\ c \in BOs
    BY <1>2, <1>4 DEF From
  <2>3. submit' = [submit EXCEPT ![v] = submit'[v]]
    BY <1>0, <1>3, <2>1, <2>2, MovesInto
  <2>4. vaRefs' = [vaRefs EXCEPT ![v][c] = @ - 1] /\ gemRefs' = Minus(<<c>>)
    BY <1>4 DEF UnwindOne, BoDel, GemPut
  <2>5. RefsTyped'
    <3>1. gemRefs' \in [BOs -> Int]
      BY <1>0, <2>2, <2>4, MinusOne
    <3>2. vaRefs' \in [VMs -> [BOs -> Int]]
      BY <1>0, <2>2, <2>4, CountersStay
    <3>. QED  BY <1>0, <1>1, <3>1, <3>2 DEF RefsTyped
  <2>6. ASSUME NEW b \in BOs
        PROVE  /\ gemRefs'[b] = gemRefs[b] - Looked(submit[v], b) + Looked(submit'[v], b)
               /\ vaRefs'[v][b] = vaRefs[v][b] - Maps(submit[v], b) + Maps(submit'[v], b)
               /\ \A w \in VMs \ {v} : vaRefs'[w][b] = vaRefs[w][b]
               /\ gemRefs'[b] > 0 => b \in born
    <3>1. /\ Looked(s, b) = Held(s.bos, s.got, b) /\ Maps(s, b) = Held(s.bos, s.got, b)
          /\ Held(s.bos, s.got, b) \in Nat
          /\ Held(Tail(s.bos), s.got - 1, b) = Held(s.bos, s.got, b) - One(c = b)
      <4>1. From(s, b)
        BY <1>2
      <4>. QED  BY <1>1, <1>4, <4>1 DEF From
    <3>2. /\ Looked(submit'[v], b) = Held(Tail(s.bos), s.got - 1, b)
          /\ Maps(submit'[v], b) = Held(Tail(s.bos), s.got - 1, b)
      <4>1. PICK r \in Seq(BOs), n \in Nat : r = Tail(s.bos) /\ n = s.got - 1
        BY <2>2
      <4>2. Moves(v, "unwind", r, n, s.task)
        BY <2>1, <4>1
      <4>3. Looked(submit'[v], b) = Held(r, n, b) /\ Maps(submit'[v], b) = Held(r, n, b)
        BY <1>0, <1>3, <4>2, MovesInto
      <4>. QED  BY <4>1, <4>3
    <3>3. gemRefs[b] \in Int /\ vaRefs[v][b] \in Int /\ One(c = b) \in {0, 1}
      BY RefsFacts DEF One
    <3>. HIDE DEF s, c
    <3>4. gemRefs'[b] = gemRefs[b] - One(c = b) /\ vaRefs'[v][b] = vaRefs[v][b] - One(c = b)
      <4>1. gemRefs'[b] = gemRefs[b] - One(c = b)
        BY <1>0, <2>2, <2>4, MinusOne
      <4>2. vaRefs'[v][b] = vaRefs[v][b] - One(c = b)
        BY <1>0, <2>2, <2>4, <3>3 DEF One, RefsTyped
      <4>. QED  BY <4>1, <4>2
    <3>5. \A w \in VMs \ {v} : vaRefs'[w][b] = vaRefs[w][b]
      BY <1>0, <2>4 DEF RefsTyped
    <3>6. gemRefs'[b] > 0 => b \in born
      <4>1. gemRefs'[b] > 0 => gemRefs[b] > 0
        BY <3>3, <3>4
      <4>. QED  BY <4>1 DEF Refs
    <3>. QED  BY <3>1, <3>2, <3>3, <3>4, <3>5, <3>6 DEF s
  <2>. QED  BY <1>1, <2>3, <2>5, <2>6, RefsAlone
<1>5. CASE s.got = 0 /\ SetSubmit(v, NoSubmit) /\ UNCHANGED <<vaRefs, gemRefs>>
  <2>2. submit' = [submit EXCEPT ![v] = submit'[v]]
    BY <1>5, MovesOut
  <2>3. ASSUME NEW b \in BOs
        PROVE  /\ Looked(submit'[v], b) = Looked(submit[v], b)
               /\ Maps(submit'[v], b) = Maps(submit[v], b)
    <3>1. Looked(submit'[v], b) = 0 /\ Maps(submit'[v], b) = 0
      BY <1>5, MovesOut
    <3>2. From(s, b)
      BY <1>2
    <3>. QED  BY <1>1, <1>5, <3>1, <3>2 DEF From
  <2>. QED  BY <1>1, <1>5, <2>2, <2>3, RefsQuiet
<1>. QED  BY <1>1, <1>4, <1>5

\* A task that moves on alone.
LEMMA RefsWorks ==
  ASSUME Refs, Control, Control', NEW t \in Task,
         UNCHANGED <<file, handles, born, submit>>,
         task' = [task EXCEPT ![t] = task'[t]],
         RefsTyped', \A w \in VMs : VmKept(w),
         \A b \in BOs :
           /\ gemRefs'[b] = gemRefs[b] - Count(task[t].bos, b) + Count(task'[t].bos, b)
           /\ \A w \in VMs :
                vaRefs'[w][b] = vaRefs[w][b]
                                  - TodoCount(w, task[t], b) + TodoCount(w, task'[t], b)
           /\ gemRefs'[b] > 0 => b \in born
  PROVE  Refs'
<1>0. task[t] \in TaskRec /\ task'[t] \in TaskRec
  BY DEF Control, ControlTyped
<1>1. ASSUME NEW b \in BOs PROVE GemKept(b)
  <2>1. /\ IsFiniteSet(GemHolders(b)') /\ Cardinality(GemHolders(b)) \in Nat
        /\ Cardinality(GemHolders(b)')
             = Cardinality(GemHolders(b)) - Count(task[t].bos, b) + Count(task'[t].bos, b)
    BY GemByTask
  <2>2. gemRefs[b] \in Int /\ Count(task[t].bos, b) \in Nat /\ Count(task'[t].bos, b) \in Nat
    BY <1>0, CountsAreNat DEF TaskRec, Refs, RefsTyped
  <2>. QED  BY <2>1, <2>2 DEF GemKept
<1>2. ASSUME NEW w \in VMs, NEW b \in BOs PROVE VaKept(w, b)
  <2>1. /\ IsFiniteSet(VaHolders(w, b)') /\ Cardinality(VaHolders(w, b)) \in Nat
        /\ Cardinality(VaHolders(w, b)')
             = Cardinality(VaHolders(w, b))
               - TodoCount(w, task[t], b) + TodoCount(w, task'[t], b)
    BY VaByTask
  <2>2. /\ vaRefs[w][b] \in Int
        /\ TodoCount(w, task[t], b) \in Nat /\ TodoCount(w, task'[t], b) \in Nat
    BY <1>0, RefsFacts, CountsAreNat DEF TaskRec, TodoCount
  <2>. QED  BY <2>1, <2>2 DEF VaKept
<1>. QED  BY <1>1, <1>2, RefsKept

\* What the steps of lima_sched_free_job make of a task.
LEMMA UnmapMoves ==
  ASSUME Control, NEW t \in Task, TaskUnmap(t)
  PROVE  /\ task' = [task EXCEPT ![t] = task'[t]] /\ task'[t].state = "freeing"
         /\ task'[t].vm = task[t].vm /\ task'[t].bos = task[t].bos
         /\ task'[t].todo = Tail(task[t].todo)
         /\ task[t].vm \in VMs /\ Head(task[t].todo) \in BOs
         /\ task[t].todo \in Seq(BOs) /\ task[t].todo # <<>>
<1>. DEFINE k == task[t]
<1>1. ControlTyped /\ TaskShape(t)
  BY DEF Control
<1>2. /\ k.state \in {"live", "faulted", "freeing"} /\ k.todo # <<>>
      /\ task' = [task EXCEPT ![t] = [task[t] EXCEPT !.state = "freeing", !.todo = Tail(@)]]
  BY DEF TaskUnmap
<1>3. k \in TaskRec /\ k.todo \in Seq(BOs)
  BY <1>1, TaskFields DEF ControlTyped
<1>4. task'[t] = TaskOf("freeing", k.vm, k.bos, Tail(k.todo))
  <2>1. task'[t] = [k EXCEPT !.state = "freeing", !.todo = Tail(k.todo)]
    BY <1>1, <1>2 DEF ControlTyped
  <2>2. [k EXCEPT !.state = "freeing", !.todo = Tail(k.todo)]
          = TaskOf("freeing", k.vm, k.bos, Tail(k.todo))
    BY <1>3, SetStateTodo, Zenon
  <2>. QED  BY <2>1, <2>2
<1>5. k.vm \in VMs /\ Head(k.todo) \in BOs
  BY <1>1, <1>2, <1>3 DEF TaskShape
<1>6. task' = [task EXCEPT ![t] = task'[t]]
  BY <1>1, <1>2 DEF ControlTyped
<1>. QED  BY <1>2, <1>3, <1>4, <1>5, <1>6 DEF TaskOf

LEMMA FiniMoves ==
  ASSUME Control, NEW t \in Task, TaskFini(t)
  PROVE  /\ task' = [task EXCEPT ![t] = task'[t]] /\ task'[t].state = "freed"
         /\ task'[t].vm = NoVm /\ task'[t].bos = <<>> /\ task'[t].todo = <<>>
         /\ task[t].state = "freeing" /\ task[t].vm \in VMs /\ task[t].todo = <<>>
         /\ task[t].bos \in Seq(BOs)
<1>1. ControlTyped /\ TaskShape(t)
  BY DEF Control
<1>2. /\ task[t].state = "freeing" /\ task[t].todo = <<>>
      /\ task' = [task EXCEPT ![t] = [NoTask EXCEPT !.state = "freed"]]
  BY DEF TaskFini
<1>3. [NoTask EXCEPT !.state = "freed"] = TaskOf("freed", NoVm, <<>>, <<>>)
  BY DEF NoTask, TaskOf
<1>4. task' = [task EXCEPT ![t] = task'[t]] /\ task'[t] = TaskOf("freed", NoVm, <<>>, <<>>)
  BY <1>1, <1>2, <1>3 DEF ControlTyped
<1>5. task[t].vm \in VMs /\ task[t].bos \in Seq(BOs)
  BY <1>1, <1>2, TaskFields DEF TaskShape
<1>. QED  BY <1>2, <1>4, <1>5 DEF TaskOf

\* lima_sched_free_job.
LEMMA RefsUnmap ==
  ASSUME Refs, Control, Control', NEW t \in Task, TaskUnmap(t)
  PROVE  Refs'
<1>. DEFINE k == task[t]
            c == Head(k.todo)
<1>1. /\ k.state \in {"live", "faulted", "freeing"}
      /\ UNCHANGED <<file, handles, born, vmRefs, gemRefs, submit>>
      /\ vaRefs' = [vaRefs EXCEPT ![k.vm][c] = @ - 1]
  BY DEF TaskUnmap, fileVars, BoDel
<1>2. /\ task' = [task EXCEPT ![t] = task'[t]] /\ task'[t].state = "freeing"
      /\ task'[t].vm = k.vm /\ task'[t].bos = k.bos /\ task'[t].todo = Tail(k.todo)
      /\ k.vm \in VMs /\ c \in BOs /\ k.todo \in Seq(BOs) /\ k.todo # <<>>
  BY UnmapMoves
<1>3. RefsTyped'
  <2>1. RefsTyped
    BY DEF Refs
  <2>2. vaRefs' = [vaRefs EXCEPT ![k.vm][c] = @ - 1] /\ k.vm \in VMs /\ c \in BOs
    BY <1>1, <1>2
  <2>. HIDE DEF k, c
  <2>3. vaRefs' \in [VMs -> [BOs -> Int]]
    BY <2>1, <2>2, CountersStay
  <2>. QED  BY <1>1, <2>3 DEF Refs, RefsTyped
<1>4. \A w \in VMs : VmKept(w)
  BY <1>1, <1>2, VmStays
<1>5. ASSUME NEW b \in BOs
      PROVE  /\ gemRefs'[b] = gemRefs[b] - Count(task[t].bos, b) + Count(task'[t].bos, b)
             /\ \A w \in VMs :
                  vaRefs'[w][b] = vaRefs[w][b]
                                    - TodoCount(w, task[t], b) + TodoCount(w, task'[t], b)
             /\ gemRefs'[b] > 0 => b \in born
  <2>1. gemRefs[b] \in Int /\ Count(k.bos, b) \in Nat
    <3>1. k.bos \in Seq(BOs)
      BY TaskFields DEF Control
    <3>. QED  BY <3>1, CountsAreNat DEF Refs, RefsTyped
  <2>2. /\ Count(Tail(k.todo), b) = Count(k.todo, b) - One(c = b)
        /\ Count(k.todo, b) \in Nat /\ One(c = b) \in {0, 1}
    <3>1. /\ Tail(k.todo) \in Seq(BOs) /\ Len(Tail(k.todo)) = Len(k.todo) - 1
          /\ Len(k.todo) \in 1 .. Len(k.todo)
      BY <1>2
    <3>2. Cardinality(Places(Tail(k.todo), Len(k.todo) - 1, b))
            = Cardinality(Places(k.todo, Len(k.todo), b)) - One(c = b)
      BY <1>2, <3>1, PlacesTail
    <3>3. /\ Count(Tail(k.todo), b) = Cardinality(Places(Tail(k.todo), Len(k.todo) - 1, b))
          /\ Count(k.todo, b) = Cardinality(Places(k.todo, Len(k.todo), b))
      BY <1>2, <3>1, CountIs
    <3>4. Count(k.todo, b) \in Nat
      BY <1>2, CountsAreNat
    <3>. QED  BY <3>2, <3>3, <3>4 DEF One
  <2>3. ASSUME NEW w \in VMs
        PROVE  vaRefs'[w][b] = vaRefs[w][b]
                                 - TodoCount(w, task[t], b) + TodoCount(w, task'[t], b)
    <3>1. vaRefs[w][b] \in Int /\ vaRefs \in [VMs -> [BOs -> Int]]
      BY RefsFacts DEF Refs, RefsTyped
    <3>2. CASE w = k.vm
      <4>1. /\ TodoCount(w, task[t], b) = Count(k.todo, b)
            /\ TodoCount(w, task'[t], b) = Count(Tail(k.todo), b)
        BY <1>1, <1>2, <3>2 DEF TodoCount
      <4>2. vaRefs'[w][b] = vaRefs[w][b] - One(c = b)
        BY <1>1, <1>2, <3>1, <3>2 DEF One
      <4>. QED  BY <2>2, <3>1, <4>1, <4>2
    <3>3. CASE w # k.vm
      <4>1. TodoCount(w, task[t], b) = 0 /\ TodoCount(w, task'[t], b) = 0
        BY <1>2, <3>3 DEF TodoCount
      <4>2. vaRefs'[w][b] = vaRefs[w][b]
        BY <1>1, <1>2, <3>1, <3>3
      <4>. QED  BY <3>1, <4>1, <4>2
    <3>. QED  BY <3>2, <3>3
  <2>4. gemRefs'[b] > 0 => b \in born
    BY <1>1 DEF Refs
  <2>. QED  BY <1>1, <1>2, <2>1, <2>3, <2>4
<1>. QED  BY <1>1, <1>2, <1>3, <1>4, <1>5, RefsWorks

LEMMA RefsFini ==
  ASSUME Refs, Control, Control', NEW t \in Task, TaskFini(t)
  PROVE  Refs'
<1>. DEFINE k == task[t]
<1>1. /\ UNCHANGED <<file, handles, born, vaRefs, submit>>
      /\ gemRefs' = Minus(k.bos) /\ vmRefs' = [vmRefs EXCEPT ![k.vm] = @ - 1]
  BY DEF TaskFini, fileVars, GemPut, VmPut
<1>2. /\ task' = [task EXCEPT ![t] = task'[t]] /\ task'[t].state = "freed"
      /\ task'[t].vm = NoVm /\ task'[t].bos = <<>> /\ task'[t].todo = <<>>
      /\ k.vm \in VMs /\ k.todo = <<>> /\ k.bos \in Seq(BOs)
  BY FiniMoves
<1>3. RefsTyped /\ RefsTyped'
  BY <1>1, <1>2, MinusIs DEF Refs, RefsTyped
<1>4. \A w \in VMs : VmKept(w)
  BY <1>1, <1>2, VmGives
<1>5. ASSUME NEW b \in BOs
      PROVE  /\ gemRefs'[b] = gemRefs[b] - Count(task[t].bos, b) + Count(task'[t].bos, b)
             /\ \A w \in VMs :
                  vaRefs'[w][b] = vaRefs[w][b]
                                    - TodoCount(w, task[t], b) + TodoCount(w, task'[t], b)
             /\ gemRefs'[b] > 0 => b \in born
  <2>1. /\ gemRefs[b] \in Int /\ Count(k.bos, b) \in Nat
        /\ gemRefs'[b] = gemRefs[b] - Count(k.bos, b)
    BY <1>1, <1>2, <1>3, MinusIs
  <2>2. Count(task'[t].bos, b) = 0
    BY <1>2, CountNone
  <2>3. ASSUME NEW w \in VMs
        PROVE  vaRefs'[w][b] = vaRefs[w][b]
                                 - TodoCount(w, task[t], b) + TodoCount(w, task'[t], b)
    <3>1. TodoCount(w, task[t], b) = 0 /\ TodoCount(w, task'[t], b) = 0
      BY <1>2, CountNone DEF TodoCount
    <3>2. vaRefs[w][b] \in Int
      BY RefsFacts
    <3>. QED  BY <1>1, <3>1, <3>2
  <2>4. gemRefs'[b] > 0 => b \in born
    <3>1. gemRefs'[b] > 0 => gemRefs[b] > 0
      BY <2>1
    <3>. QED  BY <3>1 DEF Refs
  <2>. QED  BY <2>1, <2>2, <2>3, <2>4
<1>. QED  BY <1>1, <1>2, <1>3, <1>4, <1>5, RefsWorks

\* The growth of a heap takes and drops no reference.
LEMMA RefsGrow ==
  ASSUME Refs, Control, Control', GrowStep
  PROVE  Refs'
<1>0. UNCHANGED <<file, handles, born, vmRefs, vaRefs, gemRefs, submit>>
  BY DEF GrowStep, GrowWire, GrowSg, GrowDma, GrowMap, GrowSize, fileVars, refVars
<1>1. RefsTyped'
  BY <1>0 DEF Refs, RefsTyped
<1>2. CASE UNCHANGED task
  <2>1. \A v \in VMs : VmHolders(v)' = VmHolders(v)
    BY <1>0, <1>2 DEF VmHolders
  <2>2. \A b \in BOs : GemHolders(b)' = GemHolders(b)
    BY <1>0, <1>2, HeldInModel
  <2>3. \A v \in VMs, b \in BOs : VaHolders(v, b)' = VaHolders(v, b)
    BY <1>0, <1>2, HeldInModel
  <2>. QED  BY <1>0, <1>1, <2>1, <2>2, <2>3 DEF Refs
<1>3. ASSUME NEW t \in Task, task[t].state = "live", GrowFails(t) PROVE Refs'
  <2>1. /\ task \in [Task -> TaskRec]
        /\ task' = [task EXCEPT ![t] = [task[t] EXCEPT !.state = "faulted"]]
    BY <1>3 DEF GrowFails, Control, ControlTyped
  <2>2. /\ task' = [task EXCEPT ![t] = task'[t]] /\ task'[t].state = "faulted"
        /\ task'[t].vm = task[t].vm /\ task'[t].bos = task[t].bos
        /\ task'[t].todo = task[t].todo
    BY <2>1 DEF TaskRec
  <2>3. \A w \in VMs : VmKept(w)
    BY <1>0, <2>2, VmStays
  <2>4. ASSUME NEW b \in BOs
        PROVE  /\ gemRefs'[b] = gemRefs[b] - Count(task[t].bos, b) + Count(task'[t].bos, b)
               /\ \A w \in VMs :
                    vaRefs'[w][b] = vaRefs[w][b]
                                      - TodoCount(w, task[t], b) + TodoCount(w, task'[t], b)
               /\ gemRefs'[b] > 0 => b \in born
    <3>1. gemRefs[b] \in Int /\ Count(task[t].bos, b) \in Nat /\ Count(task[t].todo, b) \in Nat
      BY <2>1, CountsAreNat DEF TaskRec, Refs, RefsTyped
    <3>2. ASSUME NEW w \in VMs
          PROVE  vaRefs'[w][b] = vaRefs[w][b]
                                   - TodoCount(w, task[t], b) + TodoCount(w, task'[t], b)
      <4>1. vaRefs[w][b] \in Int /\ TodoCount(w, task[t], b) \in Nat
        BY <3>1, RefsFacts DEF TodoCount
      <4>2. TodoCount(w, task'[t], b) = TodoCount(w, task[t], b)
        BY <1>3, <2>2 DEF TodoCount
      <4>. QED  BY <1>0, <4>1, <4>2
    <3>3. gemRefs'[b] > 0 => b \in born
      BY <1>0 DEF Refs
    <3>. QED  BY <1>0, <2>2, <3>1, <3>2, <3>3
  <2>. QED  BY <1>0, <1>1, <2>2, <2>3, <2>4, RefsWorks
<1>4. \/ UNCHANGED task
      \/ \E t \in Task : task[t].state = "live" /\ GrowFails(t)
  <2>1. \A t \in Task, b \in BOs : GrowWire(t, b) => task[t].state = "live"
                                      /\ (UNCHANGED task \/ GrowFails(t))
    BY DEF GrowWire
  <2>2. GrowSg \/ GrowDma \/ GrowMap =>
          grow.pc # "idle" /\ (UNCHANGED task \/ GrowFails(grow.task))
    BY DEF GrowSg, GrowDma, GrowMap
  <2>3. grow.pc # "idle" => grow.task \in Task /\ task[grow.task].state = "live"
    BY DEF Control, GrowShape
  <2>4. GrowSize => UNCHANGED task
    BY DEF GrowSize
  <2>. QED  BY <2>1, <2>2, <2>3, <2>4 DEF GrowStep
<1>. QED  BY <1>2, <1>3, <1>4

LEMMA RefsSteps ==
  ASSUME Refs, Control, Control', [Next]_vars
  PROVE  Refs'
<1>1. CASE UNCHANGED vars
  <2>0. UNCHANGED <<file, handles, born, vmRefs, vaRefs, gemRefs, submit, task>>
    BY <1>1 DEF vars, fileVars, refVars
  <2>1. \A v \in VMs : VmHolders(v)' = VmHolders(v)
    BY <2>0 DEF VmHolders
  <2>2. \A b \in BOs : GemHolders(b)' = GemHolders(b)
    BY <2>0, HeldInModel
  <2>3. \A v \in VMs, b \in BOs : VaHolders(v, b)' = VaHolders(v, b)
    BY <2>0, HeldInModel
  <2>. QED  BY <2>0, <2>1, <2>2, <2>3 DEF Refs, RefsTyped
<1>2. ASSUME NEW v \in VMs, FileStep(v) PROVE Refs'
  BY <1>2, RefsFile, RefsCreate, RefsHandle DEF FileStep
<1>3. ASSUME NEW v \in VMs, SubmitStep(v) PROVE Refs'
  BY <1>3, RefsBegin, RefsLookup, RefsAdd, RefsLock, RefsInit, RefsQueue, RefsDepsFail,
     RefsPut, RefsUnwind DEF SubmitStep
<1>4. CASE TaskStep
  BY <1>4, RefsUnmap, RefsFini DEF TaskStep
<1>. QED  BY <1>1, <1>2, <1>3, <1>4, RefsGrow DEF Next

\* Nobody holds anything at first.
LEMMA RefsFromInit == Init => Refs
<1>. SUFFICES ASSUME Init PROVE Refs
  OBVIOUS
<1>1. RefsTyped
  BY DEF Init, RefsTyped
<1>2. \A v \in VMs : VmHolders(v) = {}
  BY GemAssumption DEF Init, VmHolders, NoTask
<1>3. \A n, b : \A t \in Task : Marks(n, task[t].bos, Len(task[t].bos), b) = {}
  BY PlacesNone DEF Init, NoTask, Marks
<1>4. \A n, b : \A v \in VMs :
        /\ Marks(n, submit[v].bos, LookedUp(submit[v]), b) = {}
        /\ Marks(n, submit[v].bos, Mapped(submit[v]), b) = {}
  BY PlacesNone DEF Init, NoSubmit, Marks, LookedUp, Mapped
<1>5. \A n, b : \A t \in Task : Marks(n, task[t].todo, Len(task[t].todo), b) = {}
  BY PlacesNone DEF Init, NoTask, Marks
<1>6. handles = {}
  BY DEF Init
<1>7. \A b \in BOs : GemHolders(b) = {}
  BY <1>3, <1>4, <1>6 DEF GemHolders
<1>8. \A v \in VMs, b \in BOs : VaHolders(v, b) = {}
  BY <1>4, <1>5, <1>6 DEF VaHolders
<1>9. /\ \A v \in VMs : vmRefs[v] = 0 /\ \A b \in BOs : vaRefs[v][b] = 0
      /\ \A b \in BOs : gemRefs[b] = 0
  BY DEF Init
<1>10. IsFiniteSet({}) /\ Cardinality({}) = 0
  BY FS_EmptySet
<1>11. \A v \in VMs : IsFiniteSet(VmHolders(v)) /\ vmRefs[v] = Cardinality(VmHolders(v))
  BY <1>2, <1>9, <1>10
<1>12. \A b \in BOs : /\ IsFiniteSet(GemHolders(b))
                      /\ gemRefs[b] = Cardinality(GemHolders(b)) /\ gemRefs[b] = 0
  BY <1>7, <1>9, <1>10
<1>13. \A v \in VMs, b \in BOs :
         IsFiniteSet(VaHolders(v, b)) /\ vaRefs[v][b] = Cardinality(VaHolders(v, b))
  BY <1>8, <1>9, <1>10
<1>. QED  BY <1>1, <1>11, <1>12, <1>13 DEF Refs

LEMMA RefsAlways == Spec => [](Control /\ Refs)
<1>1. Init => Control /\ Refs
  BY ControlInit, RefsFromInit
<1>2. Control /\ Refs /\ [Next]_vars => (Control /\ Refs)'
  BY ControlNext, RefsSteps
<1>. QED  BY <1>1, <1>2, PTL DEF Spec

\* An address space that nobody holds maps nothing.
LEMMA Unmapped ==
  ASSUME Control, Refs, NEW v \in VMs, vmRefs[v] = 0, NEW b \in BOs
  PROVE  vaRefs[v][b] = 0
<1>1. VmHolders(v) = {}
  BY FS_EmptySet DEF Refs
<1>2. file[v] # "open" /\ \A t \in Task : task[t].vm # v
  <2>1. 0 \notin VmHolders(v) /\ \A t \in Task : t # 0 /\ t \notin VmHolders(v)
    BY <1>1, GemAssumption DEF Task
  <2>. QED  BY <2>1 DEF VmHolders
<1>3. <<v, b>> \notin handles /\ Mapped(submit[v]) = 0
  <2>1. SubmitShape(v) /\ HandleShape
    BY DEF Control
  <2>2. Mapped(NoSubmit) = 0
    BY DEF Mapped, NoSubmit
  <2>. QED  BY <1>2, <2>1, <2>2 DEF SubmitShape, HandleShape
<1>4. VaHolders(v, b) = {}
  <2>1. {w \in {v} : <<w, b>> \in handles} = {}
    BY <1>3
  <2>2. Marks(Submit(v), submit[v].bos, Mapped(submit[v]), b) = {}
    BY <1>3, PlacesNone DEF Marks
  <2>3. {u \in Task : task[u].vm = v /\ task[u].state # "new"} = {}
    BY <1>2
  <2>. QED  BY <2>1, <2>2, <2>3 DEF VaHolders
<1>. QED  BY <1>4, FS_EmptySet DEF Refs

\* drm_gem_object_get and _put balance on every path of the ioctl and of the
\* scheduler, whatever fails but drm_sched_job_init (lima_gem.c, lima_sched.c).
THEOREM ObjectReferencesBalance ==
  ASSUME "job_init" \notin MayFail
  PROVE  Spec => []GemRefsExact
<1>1. Refs => GemRefsExact
  BY DEF Refs, GemRefsExact
<1>. QED  BY <1>1, RefsAlways, PTL

\* lima_vm_bo_add and lima_vm_bo_del balance, and no lima_bo_va outlives its
\* address space (lima_vm.c), whatever fails.
THEOREM MappingReferencesBalance == Spec => []VaRefsExact
<1>1. Control /\ Refs => VaRefsExact
  BY Unmapped DEF Refs, VaRefsExact
<1>. QED  BY <1>1, RefsAlways, PTL

-----------------------------------------------------------------------------
(***************************************************************************)
(* What exact references mean for the objects that are in use.             *)
(***************************************************************************)
Backed ==
  /\ \A v \in VMs, b \in BOs : vaRefs[v][b] # 0 => gemRefs[b] > 0 /\ vaRefs[v][b] > 0
  /\ \A v \in VMs, b \in BOs : vmRefs[v] = 0 => vaRefs[v][b] = 0
  /\ \A v \in VMs, b \in BOs : <<v, b>> \in handles => gemRefs[b] > 0
  /\ \A v \in VMs, b \in BOs : Looked(submit[v], b) # 0 => gemRefs[b] > 0
  /\ \A t \in Task : task[t].state # "new" =>
       \A i \in DOMAIN task[t].todo :
         task[t].vm \in VMs /\ vaRefs[task[t].vm][task[t].todo[i]] > 0
  /\ grow.pc # "idle" => /\ task[grow.task].vm \in VMs
                         /\ vaRefs[task[grow.task].vm][grow.bo] > 0

LEMMA BackedByRefs == Control /\ Refs => Backed
<1>. SUFFICES ASSUME Control, Refs PROVE Backed
  OBVIOUS
<1>1. \A v \in VMs, b \in BOs : vaRefs[v][b] # 0 => gemRefs[b] > 0 /\ vaRefs[v][b] > 0
  BY MappedHeld
<1>2. \A v \in VMs, b \in BOs : vmRefs[v] = 0 => vaRefs[v][b] = 0
  BY Unmapped
<1>3. ASSUME NEW b \in BOs, GemHeld(handles, submit, task, b) # {} PROVE gemRefs[b] > 0
  <2>1. /\ IsFiniteSet(GemHolders(b)) /\ gemRefs[b] >= Cardinality(GemHolders(b))
        /\ gemRefs[b] \in Int
    BY DEF Refs, RefsTyped
  <2>2. Cardinality(GemHolders(b)) # 0 /\ Cardinality(GemHolders(b)) \in Nat
    BY <1>3, <2>1, HeldInModel, FS_EmptySet, FS_CardinalityType
  <2>. QED  BY <2>1, <2>2
<1>4. ASSUME NEW v \in VMs, NEW b \in BOs, <<v, b>> \in handles PROVE gemRefs[b] > 0
  <2>1. <<Handle(v), 0>> \in GemHeld(handles, submit, task, b)
    BY <1>4, GemHeldIs
  <2>. QED  BY <1>3, <2>1
<1>5. ASSUME NEW v \in VMs, NEW b \in BOs, Looked(submit[v], b) # 0 PROVE gemRefs[b] > 0
  <2>1. submit[v] \in SubmitRec /\ submit[v].bos \in Seq(BOs) /\ LookedUp(submit[v]) \in Nat
    BY DEF Control, ControlTyped, SubmitRec, LookedUp
  <2>2. /\ IsFiniteSet(SubMarks(v, submit[v], b))
        /\ Cardinality(SubMarks(v, submit[v], b)) = Looked(submit[v], b)
    BY <2>1, MarksCard DEF SubMarks, Looked
  <2>3. PICK x : x \in SubMarks(v, submit[v], b)
    BY <1>5, <2>2, FS_EmptySet
  <2>4. x \in GemHeld(handles, submit, task, b)
    BY <2>3, GemHeldIs
  <2>. QED  BY <1>3, <2>4
<1>6. ASSUME NEW t \in Task, task[t].state # "new", NEW i \in DOMAIN task[t].todo
      PROVE  task[t].vm \in VMs /\ vaRefs[task[t].vm][task[t].todo[i]] > 0
  <2>. DEFINE k == task[t]
              b == k.todo[i]
  <2>1. k.todo \in Seq(BOs) /\ TaskShape(t)
    BY TaskFields DEF Control
  <2>2. i \in 1 .. Len(k.todo) /\ b \in BOs
    BY <1>6, <2>1
  <2>3. k.vm \in VMs
    BY <1>6, <2>1, <2>2 DEF TaskShape
  <2>4. <<Job(t), Len(k.todo) - i>> \in TodoMarks(k.vm, t, k, b)
    BY <1>6, <2>2 DEF TodoMarks, Marks, Places
  <2>5. <<Job(t), Len(k.todo) - i>> \in VaHeld(handles, submit, task, k.vm, b)
    BY <2>4, VaHeldIs
  <2>6. IsFiniteSet(VaHolders(k.vm, b)) /\ vaRefs[k.vm][b] = Cardinality(VaHolders(k.vm, b))
    BY <2>2, <2>3 DEF Refs
  <2>7. Cardinality(VaHolders(k.vm, b)) # 0 /\ Cardinality(VaHolders(k.vm, b)) \in Nat
    BY <2>5, <2>6, HeldInModel, FS_EmptySet, FS_CardinalityType
  <2>. QED  BY <2>3, <2>6, <2>7
<1>7. ASSUME grow.pc # "idle"
      PROVE  task[grow.task].vm \in VMs /\ vaRefs[task[grow.task].vm][grow.bo] > 0
  <2>1. PICK t \in Task :
          /\ t = grow.task /\ task[t].state = "live"
          /\ \E i \in DOMAIN task[t].bos : task[t].bos[i] = grow.bo
    BY <1>7 DEF Control, GrowShape
  <2>2. task[t].todo = task[t].bos
    BY <2>1 DEF Control, TaskShape
  <2>. QED  BY <1>6, <2>1, <2>2
<1>. QED  BY <1>1, <1>2, <1>4, <1>5, <1>6, <1>7 DEF Backed

LEMMA BackedNext == Control' /\ Refs' => Backed'
BY BackedByRefs, PTL

\* A freed object stays freed.
LEMMA StaysFreed ==
  ASSUME Control, Refs, [Next]_vars, NEW b \in BOs, gemRefs'[b] > 0,
         \A v \in VMs : ~Create(v, b)
  PROVE  gemRefs[b] > 0
<1>0. RefsTyped /\ Backed /\ gemRefs[b] \in Int /\ ControlTyped
  BY BackedByRefs DEF Control, Refs, RefsTyped
<1>2. ASSUME gemRefs' = gemRefs PROVE gemRefs[b] > 0
  BY <1>2
<1>3. ASSUME NEW bos \in Seq(BOs), GemPut(Minus(bos)) PROVE gemRefs[b] > 0
  <2>1. gemRefs'[b] = gemRefs[b] - Count(bos, b) /\ Count(bos, b) \in Nat
    BY <1>0, <1>3, MinusIs DEF GemPut
  <2>. QED  BY <1>0, <2>1
<1>4. ASSUME NEW c \in BOs, gemRefs' = [gemRefs EXCEPT ![c] = @ + 1], gemRefs[c] > 0
      PROVE  gemRefs[b] > 0
  BY <1>0, <1>4 DEF RefsTyped
<1>5. ASSUME NEW v \in VMs, FileStep(v) PROVE gemRefs[b] > 0
  <2>1. CASE OpenFile(v) \/ CloseFile(v)
    BY <1>2, <2>1 DEF OpenFile, CloseFile
  <2>2. ASSUME NEW c \in BOs, Create(v, c) PROVE gemRefs[b] > 0
    BY <1>0, <2>2 DEF Create, RefsTyped
  <2>3. ASSUME NEW c \in BOs, OpenHandle(v, c) PROVE gemRefs[b] > 0
    BY <1>0, <1>4, <2>3 DEF OpenHandle, Backed
  <2>4. ASSUME NEW c \in BOs, CloseHandle(v, c) PROVE gemRefs[b] > 0
    BY <1>3, <2>4 DEF CloseHandle
  <2>. QED  BY <1>5, <2>1, <2>2, <2>3, <2>4 DEF FileStep
<1>6. ASSUME NEW v \in VMs, SubmitStep(v) PROVE gemRefs[b] > 0
  <2>0. /\ From(submit[v], b) /\ submit[v].bos \in Seq(BOs)
        /\ Next1(v) = submit[v].bos[submit[v].got + 1]
        /\ \A t \in Task : task[t].bos \in Seq(BOs)
    <3>1. From(submit[v], b)
      BY MovesFrom
    <3>2. submit[v].bos \in Seq(BOs)
      BY <3>1 DEF From
    <3>3. \A t \in Task : task[t].bos \in Seq(BOs)
      BY <1>0, TaskFields
    <3>. QED  BY <3>1, <3>2, <3>3 DEF Next1
  <2>1. CASE (\E bos \in BoLists : SubmitBegin(v, bos)) \/ SubmitLock(v) \/ SubmitQueue(v)
    BY <1>2, <2>1 DEF SubmitBegin, SubmitLock, SubmitQueue, refVars
  <2>2. CASE SubmitLookup(v)
    <3>1. Next1(v) \in BOs
      BY <2>0, <2>2 DEF SubmitLookup, From
    <3>. QED  BY <1>0, <1>2, <1>4, <2>2, <3>1 DEF SubmitLookup, Backed
  <2>3. CASE SubmitAdd(v)
    <3>1. Next1(v) \in BOs /\ <<Next1(v)>> \in Seq(BOs)
      BY <2>0, <2>3 DEF SubmitAdd, From
    <3>. QED  BY <1>2, <1>3, <2>3, <3>1 DEF SubmitAdd
  <2>4. ASSUME NEW t \in Task, SubmitInit(v, t) PROVE gemRefs[b] > 0
    <3>1. submit[v].pc = "init" /\ gemRefs'[b] = gemRefs[b] + Count(submit[v].bos, b)
      BY <2>4 DEF SubmitInit
    <3>2. Looked(submit[v], b) = Count(submit[v].bos, b) /\ Count(submit[v].bos, b) \in Nat
      BY <2>0, <3>1 DEF From
    <3>. QED  BY <1>0, <3>1, <3>2 DEF Backed
  <2>5. CASE SubmitDepsFail(v)
    <3>1. submit[v].task \in Task
      BY <2>5 DEF SubmitDepsFail, Control, SubmitShape
    <3>. QED  BY <1>3, <2>0, <2>5, <3>1 DEF SubmitDepsFail
  <2>6. CASE SubmitPut(v)
    BY <1>3, <2>0, <2>6 DEF SubmitPut
  <2>7. CASE SubmitUnwind(v)
    <3>1. submit[v].got > 0 => <<Head(submit[v].bos)>> \in Seq(BOs)
      BY <2>0 DEF From
    <3>. QED  BY <1>2, <1>3, <2>7, <3>1 DEF SubmitUnwind, UnwindOne
  <2>. QED  BY <1>6, <2>1, <2>2, <2>3, <2>4, <2>5, <2>6, <2>7 DEF SubmitStep
<1>7. ASSUME NEW t \in Task, TaskUnmap(t) \/ TaskFini(t) PROVE gemRefs[b] > 0
  <2>1. task[t].bos \in Seq(BOs)
    BY <1>0, TaskFields
  <2>. QED  BY <1>2, <1>3, <1>7, <2>1 DEF TaskUnmap, TaskFini
<1>8. GrowStep => gemRefs' = gemRefs
  BY DEF GrowStep, GrowWire, GrowSg, GrowDma, GrowMap, GrowSize, refVars
<1>9. CASE UNCHANGED vars
  BY <1>2, <1>9 DEF vars, refVars
<1>. QED  BY <1>2, <1>5, <1>6, <1>7, <1>8, <1>9 DEF Next, TaskStep

-----------------------------------------------------------------------------
(***************************************************************************)
(* Memory: types, and that an entry of base.pages has a wiring.            *)
(***************************************************************************)
PagesTyped ==
  /\ pages \in [BOs -> SUBSET Page] /\ wired \in [BOs -> [Page -> Nat]]
  /\ sgt \in [BOs -> -1 .. HeapPages]
  /\ \A b \in BOs, p \in Page : p \in pages[b] => wired[b][p] >= 1
PteTyped == pte \in [VMs -> [BOs -> SUBSET Page]]

\* The pages that a new object gets.
NewPages(b) == IF b \in Heaps THEN InitPages ELSE Size(b)

LEMMA NewPagesFit ==
  \A b \in BOs : /\ NewPages(b) \in 1 .. HeapPages /\ First(NewPages(b)) \subseteq Page
                 /\ MapPages({}, 0, NewPages(b)) = First(NewPages(b))
<1>. SUFFICES ASSUME NEW b \in BOs
              PROVE  /\ NewPages(b) \in 1 .. HeapPages /\ First(NewPages(b)) \subseteq Page
                     /\ MapPages({}, 0, NewPages(b)) = First(NewPages(b))
  OBVIOUS
<1>1. NewPages(b) \in 1 .. HeapPages
  BY GemAssumption DEF NewPages, Size
<1>. HIDE DEF NewPages
<1>2. \A p \in First(NewPages(b)) : p \in 0 .. HeapPages - 1
  BY <1>1, GemAssumption DEF First
<1>3. MapPages({}, 0, NewPages(b)) = First(NewPages(b))
  BY <1>1, GemAssumption DEF MapPages, First, Page
<1>. QED  BY <1>1, <1>2, <1>3 DEF Page

LEMMA CreateIs ==
  ASSUME NEW v \in VMs, NEW b \in BOs, Create(v, b)
  PROVE  /\ pages' = [pages EXCEPT ![b] = First(NewPages(b))]
         /\ wired' = [wired EXCEPT ![b] = [p \in Page |-> IF p < NewPages(b) THEN 1 ELSE 0]]
         /\ sgt' = [sgt EXCEPT ![b] = NewPages(b)]
         /\ heap' = [heap EXCEPT ![b] = IF b \in Heaps THEN NewPages(b) ELSE 0]
         /\ pte' = [pte EXCEPT ![v][b] = MapPages(@, 0, NewPages(b))]
         /\ file[v] = "open" /\ b \notin born /\ born' = born \cup {b}
         /\ gemRefs' = [gemRefs EXCEPT ![b] = 1] /\ vaRefs' = [vaRefs EXCEPT ![v][b] = 1]
         /\ UNCHANGED <<file, vmRefs, submit, task, grow>>
BY DEF Create, NewPages

LEMMA PagesPut ==
  ASSUME PagesTyped, NEW refs, GemPut(refs)
  PROVE  PagesTyped'
<1>. DEFINE dead == {b \in BOs : gemRefs[b] > 0 /\ refs[b] = 0}
<1>1. /\ pages' = [b \in BOs |-> IF b \in dead THEN {} ELSE pages[b]]
      /\ sgt' = [b \in BOs |-> IF b \in dead THEN 0 ELSE sgt[b]]
      /\ wired' = [b \in BOs |-> [p \in Page |->
                     IF b \in dead /\ p \in pages[b] THEN wired[b][p] - 1
                                                     ELSE wired[b][p]]]
  BY DEF GemPut
<1>. HIDE DEF dead
<1>2. pages' \in [BOs -> SUBSET Page] /\ sgt' \in [BOs -> -1 .. HeapPages]
  BY <1>1, GemAssumption DEF PagesTyped
<1>3. ASSUME NEW b \in BOs, NEW p \in Page
      PROVE  /\ (IF b \in dead /\ p \in pages[b] THEN wired[b][p] - 1 ELSE wired[b][p]) \in Nat
             /\ p \in pages'[b] => wired'[b][p] >= 1
  BY <1>1 DEF PagesTyped
<1>4. wired' \in [BOs -> [Page -> Nat]]
  BY <1>1, <1>3
<1>. QED  BY <1>2, <1>3, <1>4 DEF PagesTyped

LEMMA PagesNext ==
  ASSUME Control, PagesTyped, [Next]_vars
  PROVE  PagesTyped'
<1>1. ASSUME UNCHANGED memVars PROVE PagesTyped'
  BY <1>1 DEF PagesTyped, memVars
<1>2. CASE UNCHANGED vars
  BY <1>1, <1>2 DEF vars
<1>3. ASSUME NEW v \in VMs, FileStep(v) PROVE PagesTyped'
  <2>1. ASSUME NEW b \in BOs, Create(v, b) PROVE PagesTyped'
    <3>. DEFINE n == NewPages(b)
    <3>1. n \in 1 .. HeapPages /\ First(n) \subseteq Page
      BY NewPagesFit
    <3>2. /\ pages' = [pages EXCEPT ![b] = First(n)] /\ sgt' = [sgt EXCEPT ![b] = n]
          /\ wired' = [wired EXCEPT ![b] = [p \in Page |-> IF p < n THEN 1 ELSE 0]]
      BY <2>1, CreateIs
    <3>. HIDE DEF n
    <3>3. pages' \in [BOs -> SUBSET Page] /\ sgt' \in [BOs -> -1 .. HeapPages]
      BY <3>1, <3>2, GemAssumption DEF PagesTyped
    <3>4. wired' \in [BOs -> [Page -> Nat]]
      BY <3>2 DEF PagesTyped
    <3>5. ASSUME NEW c \in BOs, NEW p \in Page, p \in pages'[c] PROVE wired'[c][p] >= 1
      <4>1. CASE c = b
        <5>1. p \in First(n)
          BY <3>2, <3>5, <4>1 DEF PagesTyped
        <5>2. p < n
          BY <3>1, <5>1 DEF First
        <5>. QED  BY <3>2, <4>1, <5>2 DEF PagesTyped
      <4>2. CASE c # b
        BY <3>2, <3>5, <4>2 DEF PagesTyped
      <4>. QED  BY <4>1, <4>2
    <3>. QED  BY <3>3, <3>4, <3>5 DEF PagesTyped
  <2>. QED  BY <1>1, <1>3, <2>1, PagesPut
            DEF FileStep, OpenFile, CloseFile, OpenHandle, CloseHandle
<1>4. ASSUME NEW v \in VMs, SubmitStep(v) PROVE PagesTyped'
  BY <1>1, <1>4, PagesPut
     DEF SubmitStep, SubmitBegin, SubmitLookup, SubmitAdd, SubmitLock, SubmitInit, SubmitQueue,
         SubmitDepsFail, SubmitPut, SubmitUnwind, UnwindOne, memVars
<1>5. CASE TaskStep
  BY <1>1, <1>5, PagesPut DEF TaskStep, TaskUnmap, TaskFini
<1>6. CASE GrowStep
  <2>1. ASSUME NEW t \in Task, NEW b \in BOs, GrowWire(t, b) PROVE PagesTyped'
    <3>1. PICK end \in heap[b] .. NewSize(b) :
            LET got == {p \in Page : heap[b] <= p /\ p < end}
            IN  /\ wired' = [wired EXCEPT ![b] =
                               [p \in Page |-> IF p \in got THEN @[p] + 1 ELSE @[p]]]
                /\ pages' = [pages EXCEPT ![b] = @ \cup got]
      BY <2>1 DEF GrowWire
    <3>2. UNCHANGED sgt
      BY <2>1 DEF GrowWire
    <3>3. PICK got \in SUBSET Page :
            /\ wired' = [wired EXCEPT ![b] =
                           [p \in Page |-> IF p \in got THEN wired[b][p] + 1 ELSE wired[b][p]]]
            /\ pages' = [pages EXCEPT ![b] = pages[b] \cup got]
      BY <3>1
    <3>4. /\ pages' \in [BOs -> SUBSET Page] /\ sgt' \in [BOs -> -1 .. HeapPages]
          /\ wired' \in [BOs -> [Page -> Nat]]
      BY <3>2, <3>3 DEF PagesTyped
    <3>5. ASSUME NEW c \in BOs, NEW p \in Page, p \in pages'[c] PROVE wired'[c][p] >= 1
      <4>1. /\ wired[c][p] \in Nat /\ (p \in pages[c] => wired[c][p] >= 1)
            /\ pages \in [BOs -> SUBSET Page] /\ wired \in [BOs -> [Page -> Nat]]
        BY DEF PagesTyped
      <4>2. CASE c = b
        BY <3>3, <3>5, <4>1, <4>2
      <4>3. CASE c # b
        BY <3>3, <3>5, <4>1, <4>3
      <4>. QED  BY <4>2, <4>3
    <3>. QED  BY <3>4, <3>5 DEF PagesTyped
  <2>2. ASSUME UNCHANGED <<pages, wired>>,
               \E n \in -1 .. HeapPages : sgt' = [sgt EXCEPT ![grow.bo] = n]
        PROVE  PagesTyped'
    BY <2>2 DEF PagesTyped
  <2>3. -1 \in -1 .. HeapPages /\ 0 \in -1 .. HeapPages /\ grow.new \in -1 .. HeapPages
    BY GemAssumption DEF Control, ControlTyped, GrowRec
  <2>4. CASE GrowSg \/ GrowDma \/ GrowMap \/ GrowSize
    BY <1>1, <2>2, <2>3, <2>4 DEF GrowSg, GrowDma, GrowMap, GrowSize, memVars
  <2>. QED  BY <1>6, <2>1, <2>4 DEF GrowStep
<1>. QED  BY <1>2, <1>3, <1>4, <1>5, <1>6 DEF Next

\* Page tables change for one object, or are freed as a whole.
Remaps(v, b, S) == S \in SUBSET Page /\ pte' = [pte EXCEPT ![v][b] = S]
Clears(v) == pte' = [pte EXCEPT ![v] = [b \in BOs |-> {}]]

LEMMA PteNext ==
  ASSUME Control, PteTyped, [Next]_vars
  PROVE  PteTyped'
<1>1. ASSUME UNCHANGED pte PROVE PteTyped'
  BY <1>1 DEF PteTyped
<1>2. ASSUME NEW v, Clears(v) PROVE PteTyped'
  BY <1>2 DEF PteTyped, Clears
<1>3. ASSUME NEW v, NEW b, NEW S, Remaps(v, b, S) PROVE PteTyped'
  BY <1>3 DEF PteTyped, Remaps
<1>4. ASSUME NEW v \in VMs, NEW b \in BOs, NEW from, NEW to
      PROVE  MapPages(pte[v][b], from, to) \in SUBSET Page
  BY DEF PteTyped, MapPages
<1>5. ASSUME NEW v \in VMs, NEW b \in BOs, BoMap(v, b) PROVE PteTyped'
  BY <1>3, <1>4, <1>5 DEF BoMap, Remaps, PteTyped
<1>6. ASSUME NEW v \in VMs, NEW b \in BOs, BoDel(v, b) PROVE PteTyped'
  BY <1>3, <1>6 DEF BoDel, Remaps, PteTyped, UnmapPages
<1>7. ASSUME NEW v, VmPut(v) PROVE PteTyped'
  BY <1>1, <1>2, <1>7 DEF VmPut, Clears
<1>8. CASE UNCHANGED vars
  BY <1>1, <1>8 DEF vars
<1>9. ASSUME NEW v \in VMs, FileStep(v) PROVE PteTyped'
  <2>1. ASSUME NEW b \in BOs, Create(v, b) PROVE PteTyped'
    <3>1. pte' = [pte EXCEPT ![v][b] = MapPages(pte[v][b], 0, NewPages(b))]
      BY <2>1, CreateIs
    <3>2. Remaps(v, b, MapPages(pte[v][b], 0, NewPages(b)))
      BY <1>4, <3>1, Zenon DEF Remaps
    <3>. QED  BY <1>3, <3>2
  <2>. QED  BY <1>2, <1>5, <1>6, <1>7, <1>9, <2>1
            DEF FileStep, OpenFile, VmCreate, CloseFile, OpenHandle, CloseHandle, Clears
<1>10. ASSUME NEW v \in VMs, SubmitStep(v) PROVE PteTyped'
  <2>1. From(submit[v], submit)
    BY MovesFrom
  <2>2. /\ submit[v].pc = "add" => Next1(v) \in BOs
        /\ submit[v].got > 0 => Head(submit[v].bos) \in BOs
    BY <2>1 DEF From, Next1
  <2>. QED  BY <1>1, <1>5, <1>6, <1>7, <1>10, <2>2
       DEF SubmitStep, SubmitBegin, SubmitLookup, SubmitAdd, SubmitLock, SubmitInit, SubmitQueue,
           SubmitDepsFail, SubmitPut, SubmitUnwind, UnwindOne
<1>11. CASE TaskStep
  <2>1. ASSUME NEW t \in Task, TaskUnmap(t) PROVE PteTyped'
    BY <1>6, <2>1, UnmapMoves DEF TaskUnmap
  <2>. QED  BY <1>7, <1>11, <2>1 DEF TaskStep, TaskFini
<1>12. CASE GrowStep
  <2>1. CASE GrowMap
    <3>1. grow.bo \in BOs /\ task[grow.task].vm \in VMs
      BY <2>1 DEF GrowMap, Control, ControlTyped, GrowRec, GrowShape, TaskShape
    <3>2. \/ UNCHANGED pte
          \/ Remaps(task[grow.task].vm, grow.bo,
                    MapPages(pte[task[grow.task].vm][grow.bo], heap[grow.bo], grow.new))
      BY <1>4, <2>1, <3>1, Zenon DEF GrowMap, Remaps
    <3>. QED  BY <1>1, <1>3, <3>2
  <2>2. CASE ~GrowMap
    BY <1>1, <1>12, <2>2 DEF GrowStep, GrowWire, GrowSg, GrowDma, GrowSize
  <2>. QED  BY <2>1, <2>2
<1>. QED  BY <1>8, <1>9, <1>10, <1>11, <1>12 DEF Next

LEMMA MemoryInit == Init => PagesTyped /\ PteTyped
<1>. SUFFICES ASSUME Init PROVE PagesTyped /\ PteTyped
  OBVIOUS
<1>1. 0 \in -1 .. HeapPages
  BY GemAssumption
<1>. QED  BY <1>1 DEF Init, PagesTyped, PteTyped

LEMMA TypesAlways == Spec => [](Control /\ Refs /\ PagesTyped /\ PteTyped)
<1>1. Init => PagesTyped /\ PteTyped
  BY MemoryInit
<1>2. Control /\ PagesTyped /\ PteTyped /\ [Next]_vars => (PagesTyped /\ PteTyped)'
  BY PagesNext, PteNext
<1>. QED  BY <1>1, <1>2, RefsAlways, PTL DEF Spec

\* No reference count and no wiring goes below zero (drm_gem.c's kref,
\* lima_vm.c, drm_gem_shmem_helper.c), and the variables keep their types.
THEOREM TypeCorrect == Spec => []TypeOK
<1>1. Control /\ Refs /\ PagesTyped /\ PteTyped => TypeOK
  <2>. SUFFICES ASSUME Control, Refs, PagesTyped, PteTyped PROVE TypeOK
    OBVIOUS
  <2>1. /\ \A v \in VMs : vmRefs[v] \in Nat
        /\ \A v \in VMs, b \in BOs : vaRefs[v][b] \in Nat
    <3>1. \A v \in VMs : vmRefs[v] \in Nat
      BY VmHoldersFinite, FS_CardinalityType DEF Refs
    <3>2. \A v \in VMs, b \in BOs : vaRefs[v][b] \in Nat
      BY RefsFacts
    <3>. QED  BY <3>1, <3>2
  <2>2. ASSUME NEW b \in BOs PROVE gemRefs[b] \in Nat
    <3>1. /\ IsFiniteSet(GemHolders(b)) /\ gemRefs[b] >= Cardinality(GemHolders(b))
          /\ gemRefs[b] \in Int
      BY DEF Refs, RefsTyped
    <3>2. Cardinality(GemHolders(b)) \in Nat
      BY <3>1, FS_CardinalityType
    <3>. QED  BY <3>1, <3>2
  <2>3. /\ vmRefs \in [VMs -> Nat] /\ gemRefs \in [BOs -> Nat]
        /\ vaRefs \in [VMs -> [BOs -> Nat]]
    <3>1. /\ vmRefs \in [VMs -> Int] /\ gemRefs \in [BOs -> Int]
          /\ vaRefs \in [VMs -> [BOs -> Int]]
      BY DEF Refs, RefsTyped
    <3>2. vmRefs \in [VMs -> Nat] /\ gemRefs \in [BOs -> Nat]
      BY <2>1, <2>2, <3>1
    <3>3. vaRefs \in [VMs -> [BOs -> Nat]]
      BY <2>1, <3>1
    <3>. QED  BY <3>2, <3>3
  <2>. QED  BY <2>3 DEF TypeOK, Control, ControlTyped, PagesTyped, PteTyped, SubmitRec,
                        TaskRec, GrowRec
<1>. QED  BY <1>1, TypesAlways, PTL

-----------------------------------------------------------------------------
(***************************************************************************)
(* Heaps: how large they are, and that what they account for is there.     *)
(***************************************************************************)
HeapShape ==
  /\ \A b \in BOs : /\ b \in Heaps /\ b \in born => heap[b] > 0
                    /\ b \notin Heaps => heap[b] = 0
  /\ grow.pc # "idle" => heap[grow.bo] < grow.new

\* Growing is about an object that is in use.
LEMMA GrowBorn ==
  ASSUME Control, Refs, grow.pc # "idle"
  PROVE  /\ grow.bo \in BOs /\ grow.bo \in Heaps /\ grow.bo \in born /\ gemRefs[grow.bo] > 0
         /\ grow.new \in 0 .. HeapPages /\ grow.task \in Task
         /\ task[grow.task].state = "live" /\ task[grow.task].vm \in VMs
         /\ vaRefs[task[grow.task].vm][grow.bo] > 0
<1>1. /\ grow.bo \in BOs /\ grow.new \in 0 .. HeapPages /\ grow.bo \in Heaps
      /\ grow.task \in Task /\ task[grow.task].state = "live"
  BY DEF Control, ControlTyped, GrowRec, GrowShape
<1>2. Backed
  BY BackedByRefs
<1>3. task[grow.task].vm \in VMs /\ vaRefs[task[grow.task].vm][grow.bo] > 0
  BY <1>2 DEF Backed
<1>4. gemRefs[grow.bo] > 0
  BY <1>1, <1>2, <1>3 DEF Backed
<1>. QED  BY <1>1, <1>3, <1>4 DEF Refs

\* All steps but two leave the sizes alone.
LEMMA CalmSteps ==
  ASSUME [Next]_vars, ~GrowStep, \A v \in VMs, b \in BOs : ~Create(v, b)
  PROVE  UNCHANGED <<heap, born, grow>>
<1>1. CASE UNCHANGED vars
  BY <1>1 DEF vars, fileVars
<1>2. ASSUME NEW v \in VMs, FileStep(v) PROVE UNCHANGED <<heap, born, grow>>
  BY <1>2 DEF FileStep, OpenFile, CloseFile, OpenHandle, CloseHandle
<1>3. ASSUME NEW v \in VMs, SubmitStep(v) PROVE UNCHANGED <<heap, born, grow>>
  BY <1>3 DEF SubmitStep, SubmitBegin, SubmitLookup, SubmitAdd, SubmitLock, SubmitInit,
     SubmitQueue, SubmitDepsFail, SubmitPut, SubmitUnwind, fileVars
<1>4. TaskStep => UNCHANGED <<heap, born, grow>>
  BY DEF TaskStep, TaskUnmap, TaskFini, fileVars
<1>. QED  BY <1>1, <1>2, <1>3, <1>4 DEF Next

\* A heap that grows is not full and on the list of a task that lives.
LEMMA WireGrows ==
  ASSUME Control, Refs, HeapShape, NEW t \in Task, NEW b \in BOs, GrowWire(t, b)
  PROVE  /\ b \in born /\ heap[b] > 0 /\ heap[b] \in Nat /\ NewSize(b) \in Nat
         /\ heap[b] < NewSize(b) /\ NewSize(b) <= HeapPages
<1>1. /\ b \in Heaps /\ heap[b] < HeapPages /\ task[t].state = "live"
      /\ \E i \in DOMAIN task[t].bos : task[t].bos[i] = b
  BY DEF GrowWire
<1>2. task[t].todo = task[t].bos
  BY <1>1 DEF Control, TaskShape
<1>3. PICK v \in VMs : vaRefs[v][b] > 0
  BY <1>1, <1>2, BackedByRefs DEF Backed
<1>4. gemRefs[b] > 0
  BY <1>3, BackedByRefs DEF Backed
<1>5. b \in born /\ heap[b] > 0
  BY <1>1, <1>4 DEF Refs, HeapShape
<1>6. heap[b] \in 0 .. HeapPages
  BY DEF Control, ControlTyped
<1>. QED  BY <1>1, <1>5, <1>6, GemAssumption DEF NewSize

LEMMA HeapNext ==
  ASSUME Control, Refs, HeapShape, [Next]_vars
  PROVE  HeapShape'
<1>0. heap \in [BOs -> 0 .. HeapPages]
  BY DEF Control, ControlTyped
<1>1. CASE UNCHANGED <<heap, born, grow>>
  BY <1>1 DEF HeapShape
<1>2. ASSUME NEW v \in VMs, NEW c \in BOs, Create(v, c) PROVE HeapShape'
  <2>1. /\ heap' = [heap EXCEPT ![c] = IF c \in Heaps THEN NewPages(c) ELSE 0]
        /\ c \notin born /\ born' = born \cup {c} /\ grow' = grow
    BY <1>2, CreateIs
  <2>2. NewPages(c) > 0 /\ NewPages(c) \in Nat
    BY NewPagesFit
  <2>3. ASSUME NEW b \in BOs
        PROVE  /\ b \in Heaps /\ b \in born' => heap'[b] > 0
               /\ b \notin Heaps => heap'[b] = 0
    BY <1>0, <2>1, <2>2 DEF HeapShape
  <2>4. grow'.pc # "idle" => heap'[grow'.bo] < grow'.new
    BY <1>0, <2>1, GrowBorn DEF HeapShape
  <2>. QED  BY <2>3, <2>4 DEF HeapShape
<1>3. ASSUME NEW t \in Task, NEW b \in BOs, GrowWire(t, b) PROVE HeapShape'
  <2>1. UNCHANGED <<heap, born>> /\ heap[b] < NewSize(b)
    BY <1>3, WireGrows DEF GrowWire, fileVars
  <2>2. \/ grow' = NoGrow
        \/ grow' = [pc |-> "sg", task |-> t, bo |-> b, new |-> NewSize(b)]
    BY <1>3 DEF GrowWire, GrowFails
  <2>3. grow'.pc # "idle" => heap'[grow'.bo] < grow'.new
    BY <2>1, <2>2 DEF NoGrow
  <2>. QED  BY <2>1, <2>3 DEF HeapShape
<1>4. CASE GrowSg \/ GrowDma \/ GrowMap
  <2>1. UNCHANGED <<heap, born>> /\ grow.pc # "idle"
    BY <1>4 DEF GrowSg, GrowDma, GrowMap, fileVars
  <2>2. \/ grow' = NoGrow
        \/ \E pc \in {"dma", "map", "size"} : grow' = [grow EXCEPT !.pc = pc]
    BY <1>4 DEF GrowSg, GrowDma, GrowMap, GrowFails
  <2>3. grow'.pc # "idle" => heap'[grow'.bo] < grow'.new
    <3>1. grow \in GrowRec
      BY DEF Control, ControlTyped
    <3>. QED  BY <2>1, <2>2, <3>1 DEF NoGrow, GrowRec, HeapShape
  <2>. QED  BY <2>1, <2>3 DEF HeapShape
<1>5. CASE GrowSize
  <2>1. /\ grow.pc # "idle" /\ heap' = [heap EXCEPT ![grow.bo] = grow.new]
        /\ grow' = NoGrow /\ UNCHANGED born
    BY <1>5 DEF GrowSize, fileVars
  <2>2. /\ grow.bo \in BOs /\ grow.bo \in Heaps /\ grow.new \in Nat /\ heap[grow.bo] \in Nat
        /\ heap[grow.bo] < grow.new
    BY <1>0, <2>1, GrowBorn DEF HeapShape
  <2>3. ASSUME NEW b \in BOs
        PROVE  /\ b \in Heaps /\ b \in born' => heap'[b] > 0
               /\ b \notin Heaps => heap'[b] = 0
    BY <1>0, <2>1, <2>2 DEF HeapShape
  <2>. QED  BY <2>1, <2>3 DEF HeapShape, NoGrow
<1>. QED  BY <1>1, <1>2, <1>3, <1>4, <1>5, CalmSteps DEF GrowStep

\* An object that is referenced has the pages it accounts for.
Grows(b) == grow.pc # "idle" /\ grow.bo = b
PagesHeld ==
  \A b \in BOs : gemRefs[b] > 0 =>
    /\ First(DelSize(b)) \subseteq pages[b]
    /\ Grows(b) => First(grow.new) \subseteq pages[b]
    /\ b \notin Heaps => sgt[b] = 1

LEMMA PagesStay ==
  ASSUME Control, Refs, [Next]_vars, ~GrowStep, NEW b \in BOs, gemRefs'[b] > 0,
         \A v \in VMs : ~Create(v, b), PagesTyped
  PROVE  pages'[b] = pages[b] /\ sgt'[b] = sgt[b]
<1>1. ASSUME NEW refs, GemPut(refs) PROVE pages'[b] = pages[b] /\ sgt'[b] = sgt[b]
  <2>1. gemRefs' = refs
    BY <1>1 DEF GemPut
  <2>. QED  BY <1>1, <2>1 DEF GemPut
<1>2. ASSUME UNCHANGED memVars PROVE pages'[b] = pages[b] /\ sgt'[b] = sgt[b]
  BY <1>2 DEF memVars
<1>3. CASE UNCHANGED vars
  BY <1>2, <1>3 DEF vars
<1>4. ASSUME NEW v \in VMs, FileStep(v) PROVE pages'[b] = pages[b] /\ sgt'[b] = sgt[b]
  <2>1. ASSUME NEW c \in BOs, Create(v, c) PROVE pages'[b] = pages[b] /\ sgt'[b] = sgt[b]
    BY <2>1, CreateIs DEF PagesTyped
  <2>. QED  BY <1>1, <1>2, <1>4, <2>1
            DEF FileStep, OpenFile, CloseFile, OpenHandle, CloseHandle
<1>5. ASSUME NEW v \in VMs, SubmitStep(v) PROVE pages'[b] = pages[b] /\ sgt'[b] = sgt[b]
  BY <1>1, <1>2, <1>5
     DEF SubmitStep, SubmitBegin, SubmitLookup, SubmitAdd, SubmitLock, SubmitInit, SubmitQueue,
         SubmitDepsFail, SubmitPut, SubmitUnwind, UnwindOne, memVars
<1>6. CASE TaskStep
  BY <1>1, <1>2, <1>6 DEF TaskStep, TaskUnmap, TaskFini
<1>. QED  BY <1>3, <1>4, <1>5, <1>6 DEF Next

LEMMA PagesHeldNext ==
  ASSUME Control, Refs, HeapShape, PagesTyped, PagesHeld, [Next]_vars
  PROVE  PagesHeld'
<1>0. heap \in [BOs -> 0 .. HeapPages] /\ pages \in [BOs -> SUBSET Page]
  BY DEF Control, ControlTyped, PagesTyped
<1>1. ASSUME NEW v \in VMs, NEW c \in BOs, Create(v, c) PROVE PagesHeld'
  <2>. DEFINE n == NewPages(c)
  <2>1. /\ heap' = [heap EXCEPT ![c] = IF c \in Heaps THEN n ELSE 0]
        /\ pages' = [pages EXCEPT ![c] = First(n)] /\ sgt' = [sgt EXCEPT ![c] = n]
        /\ c \notin born /\ grow' = grow /\ gemRefs' = [gemRefs EXCEPT ![c] = 1]
    BY <1>1, CreateIs
  <2>2. n > 0 /\ (c \notin Heaps => n = 1 /\ Size(c) = 1)
    BY NewPagesFit DEF NewPages, Size
  <2>3. First(DelSize(c)') \subseteq pages'[c] /\ (c \notin Heaps => sgt'[c] = 1)
    BY <1>0, <2>1, <2>2 DEF DelSize, PagesTyped
  <2>4. ~Grows(c)'
    BY <2>1, GrowBorn DEF Grows
  <2>5. ASSUME NEW b \in BOs, b # c, gemRefs'[b] > 0
        PROVE  /\ First(DelSize(b)') \subseteq pages'[b]
               /\ Grows(b)' => First(grow'.new) \subseteq pages'[b]
               /\ b \notin Heaps => sgt'[b] = 1
    <3>1. /\ gemRefs[b] > 0 /\ pages'[b] = pages[b] /\ sgt'[b] = sgt[b]
          /\ DelSize(b)' = DelSize(b)
      BY <1>0, <2>1, <2>5 DEF DelSize, Refs, RefsTyped, PagesTyped
    <3>. QED  BY <2>1, <3>1 DEF PagesHeld, Grows
  <2>. QED  BY <2>3, <2>4, <2>5 DEF PagesHeld
<1>2. ASSUME ~GrowStep, \A v \in VMs, c \in BOs : ~Create(v, c) PROVE PagesHeld'
  <2>1. UNCHANGED <<heap, born, grow>>
    BY <1>2, CalmSteps
  <2>2. ASSUME NEW b \in BOs, gemRefs'[b] > 0
        PROVE  /\ First(DelSize(b)') \subseteq pages'[b]
               /\ Grows(b)' => First(grow'.new) \subseteq pages'[b]
               /\ b \notin Heaps => sgt'[b] = 1
    <3>1. gemRefs[b] > 0
      BY <1>2, <2>2, StaysFreed
    <3>2. pages'[b] = pages[b] /\ sgt'[b] = sgt[b]
      BY <1>2, <2>2, PagesStay
    <3>. QED  BY <2>1, <3>1, <3>2 DEF PagesHeld, Grows, DelSize
  <2>. QED  BY <2>2 DEF PagesHeld
<1>3. CASE GrowStep
  <2>0. gemRefs' = gemRefs
    BY <1>3 DEF GrowStep, GrowWire, GrowSg, GrowDma, GrowMap, GrowSize, refVars
  <2>1. ASSUME NEW t \in Task, NEW b \in BOs, GrowWire(t, b) PROVE PagesHeld'
    <3>1. UNCHANGED <<heap, sgt>> /\ heap[b] \in Nat /\ heap[b] > 0 /\ b \in Heaps
      BY <2>1, WireGrows DEF GrowWire
    <3>2. PICK end \in heap[b] .. NewSize(b) :
            /\ pages' = [pages EXCEPT ![b] = @ \cup {p \in Page : heap[b] <= p /\ p < end}]
            /\ \/ /\ end = NewSize(b)
                  /\ grow' = [pc |-> "sg", task |-> t, bo |-> b, new |-> end]
               \/ grow' = NoGrow
      BY <2>1 DEF GrowWire, GrowFails
    <3>3. ASSUME NEW c \in BOs, gemRefs'[c] > 0
          PROVE  /\ First(DelSize(c)') \subseteq pages'[c]
                 /\ c \notin Heaps => sgt'[c] = 1
      <4>1. pages[c] \subseteq pages'[c]
        BY <1>0, <3>2
      <4>. QED  BY <2>0, <3>1, <3>3, <4>1 DEF DelSize, PagesHeld
    <3>4. ASSUME NEW c \in BOs, gemRefs'[c] > 0, Grows(c)'
          PROVE  First(grow'.new) \subseteq pages'[c]
      <4>1. c = b /\ grow'.new = end /\ end = NewSize(b)
        BY <3>2, <3>4 DEF Grows, NoGrow
      <4>2. First(heap[b]) \subseteq pages[b]
        BY <2>0, <3>1, <3>4, <4>1 DEF PagesHeld, DelSize
      <4>3. pages'[b] = pages[b] \cup {p \in Page : heap[b] <= p /\ p < end}
        BY <1>0, <3>2
      <4>4. end \in Nat /\ end <= HeapPages /\ HeapPages \in Nat
        BY <2>1, <4>1, WireGrows, GemAssumption
      <4>5. ASSUME NEW p \in First(end) PROVE p \in pages'[b]
        <5>1. p \in Nat /\ p < end /\ p \in Page
          BY <4>4, <4>5 DEF First, Page
        <5>2. CASE p < heap[b]
          BY <3>1, <4>2, <4>3, <5>1, <5>2 DEF First
        <5>3. CASE heap[b] <= p
          BY <4>3, <5>1, <5>3
        <5>. QED  BY <3>1, <5>1, <5>2, <5>3
      <4>. QED  BY <4>1, <4>5
    <3>. QED  BY <3>3, <3>4 DEF PagesHeld
  <2>2. CASE GrowSg \/ GrowDma \/ GrowMap
    <3>1. UNCHANGED <<heap, pages>> /\ grow.pc # "idle"
      BY <2>2 DEF GrowSg, GrowDma, GrowMap
    <3>2. grow.bo \in Heaps /\ grow \in GrowRec
      BY <3>1, GrowBorn DEF Control, ControlTyped
    <3>3. \/ grow' = NoGrow
          \/ \E pc \in {"dma", "map", "size"} : grow' = [grow EXCEPT !.pc = pc]
      BY <2>2 DEF GrowSg, GrowDma, GrowMap, GrowFails
    <3>4. sgt' = sgt \/ \E n : sgt' = [sgt EXCEPT ![grow.bo] = n]
      BY <2>2 DEF GrowSg, GrowDma, GrowMap
    <3>5. \A c \in BOs : c \notin Heaps => sgt'[c] = sgt[c]
      BY <3>2, <3>4 DEF PagesTyped
    <3>6. \A c : Grows(c)' => Grows(c) /\ grow'.new = grow.new
      BY <3>1, <3>2, <3>3 DEF Grows, NoGrow, GrowRec
    <3>. QED  BY <2>0, <3>1, <3>5, <3>6 DEF PagesHeld, DelSize
  <2>3. CASE GrowSize
    <3>1. /\ grow.pc # "idle" /\ heap' = [heap EXCEPT ![grow.bo] = grow.new]
          /\ grow' = NoGrow /\ UNCHANGED <<pages, sgt>>
      BY <2>3 DEF GrowSize, memVars
    <3>2. grow.bo \in BOs /\ grow.new \in Nat /\ heap[grow.bo] \in Nat /\ heap[grow.bo] < grow.new
      BY <1>0, <3>1, GrowBorn DEF HeapShape
    <3>3. ASSUME NEW c \in BOs, gemRefs[c] > 0 PROVE First(DelSize(c)') \subseteq pages[c]
      <4>1. CASE c = grow.bo
        <5>1. DelSize(c)' = grow.new
          BY <1>0, <3>1, <3>2, <4>1 DEF DelSize
        <5>. QED  BY <3>1, <3>3, <4>1, <5>1 DEF PagesHeld, Grows
      <4>2. CASE c # grow.bo
        <5>1. DelSize(c)' = DelSize(c)
          BY <1>0, <3>1, <4>2 DEF DelSize
        <5>. QED  BY <3>3, <5>1 DEF PagesHeld
      <4>. QED  BY <4>1, <4>2
    <3>4. \A c : ~Grows(c)'
      BY <3>1 DEF Grows, NoGrow
    <3>. QED  BY <2>0, <3>1, <3>3, <3>4 DEF PagesHeld
  <2>. QED  BY <1>3, <2>1, <2>2, <2>3 DEF GrowStep
<1>. QED  BY <1>1, <1>2, <1>3

-----------------------------------------------------------------------------
(***************************************************************************)
(* Page tables: an object that is mapped is mapped as far as it is         *)
(* populated, any other not at all.  It is so as long as no second file    *)
(* opens a heap.                                                           *)
(***************************************************************************)
\* A page more is mapped between lima_vm_map_bo and the new heap_size.
Grown(v, b) == grow.pc = "size" /\ grow.bo = b /\ task[grow.task].vm = v
Populated(v, b) == First(IF Grown(v, b) THEN grow.new ELSE DelSize(b))
Translated(v, b) == pte[v][b] = IF vaRefs[v][b] > 0 THEN Populated(v, b) ELSE {}
OneMapsIt(b) == \A v, w \in VMs : vaRefs[v][b] > 0 /\ vaRefs[w][b] > 0 => v = w

Tables ==
  /\ \A v \in VMs, b \in BOs : Translated(v, b)
  /\ \A b \in Heaps : OneMapsIt(b)

\* The address space of the task whose heap grows is not given up.
LEMMA GrowStays ==
  ASSUME Control, [Next]_vars, ~GrowStep, grow.pc # "idle"
  PROVE  task'[grow.task].vm = task[grow.task].vm
<1>0. /\ task \in [Task -> TaskRec] /\ grow.task \in Task /\ task[grow.task].state = "live"
  BY DEF Control, ControlTyped, GrowShape
<1>1. ASSUME NEW t \in Task, NEW k, task[t].state # "live", task' = [task EXCEPT ![t] = k]
      PROVE  task'[grow.task].vm = task[grow.task].vm
  BY <1>0, <1>1
<1>2. CASE UNCHANGED task
  BY <1>2
<1>3. ASSUME NEW v \in VMs, FileStep(v) PROVE UNCHANGED task
  BY <1>3 DEF FileStep, OpenFile, CloseFile, Create, OpenHandle, CloseHandle
<1>4. ASSUME NEW v \in VMs, SubmitStep(v) PROVE task'[grow.task].vm = task[grow.task].vm
  <2>1. ASSUME NEW t \in Task, SubmitInit(v, t) PROVE task'[grow.task].vm = task[grow.task].vm
    BY <1>1, <1>2, <2>1 DEF SubmitInit, IsFree
  <2>2. CASE SubmitQueue(v)
    BY <1>0, <2>2 DEF SubmitQueue, TaskRec
  <2>3. CASE SubmitDepsFail(v)
    <3>1. submit[v].task \in Task /\ task[submit[v].task].state = "new"
      BY <2>3 DEF SubmitDepsFail, Control, SubmitShape
    <3>. QED  BY <1>1, <2>3, <3>1 DEF SubmitDepsFail
  <2>. QED  BY <1>2, <1>4, <2>1, <2>2, <2>3
            DEF SubmitStep, SubmitBegin, SubmitLookup, SubmitAdd, SubmitLock, SubmitPut,
                SubmitUnwind
<1>5. ASSUME NEW t \in Task, TaskUnmap(t) PROVE task'[grow.task].vm = task[grow.task].vm
  <2>1. task' = [task EXCEPT ![t] = task'[t]] /\ task'[t].vm = task[t].vm
    BY <1>5, UnmapMoves
  <2>. QED  BY <1>0, <2>1
<1>6. ASSUME NEW t \in Task, TaskFini(t) PROVE task'[grow.task].vm = task[grow.task].vm
  BY <1>1, <1>6 DEF TaskFini
<1>. QED  BY <1>2, <1>3, <1>4, <1>5, <1>6 DEF Next, TaskStep, vars

\* The three ways in which a step without growth changes mappings.
LEMMA TablesDel ==
  ASSUME Control, Refs, Control', Refs', PteTyped, Tables, NEW v \in VMs, NEW c \in BOs,
         BoDel(v, c), UNCHANGED <<heap, grow>>,
         grow.pc # "idle" => task'[grow.task].vm = task[grow.task].vm
  PROVE  Tables'
<1>0. /\ Backed' /\ vaRefs \in [VMs -> [BOs -> Int]] /\ vaRefs' \in [VMs -> [BOs -> Int]]
  BY BackedNext DEF Refs, RefsTyped
<1>1. /\ vaRefs' = [vaRefs EXCEPT ![v][c] = @ - 1]
      /\ pte' = [pte EXCEPT ![v][c] = IF vaRefs[v][c] = 1 THEN UnmapPages(@, DelSize(c)) ELSE @]
  BY DEF BoDel
<1>2. \A w, b : (Grown(w, b)' <=> Grown(w, b)) /\ Populated(w, b)' = Populated(w, b)
  BY DEF Grown, Populated, DelSize
<1>3. Translated(v, c)'
  <2>1. vaRefs'[v][c] = vaRefs[v][c] - 1 /\ vaRefs[v][c] \in Int
    BY <1>0, <1>1
  <2>2. vaRefs'[v][c] = 0 \/ vaRefs'[v][c] > 0
    BY <1>0 DEF Backed
  <2>3. CASE vaRefs[v][c] = 1
    <3>1. ~Grown(v, c)'
      BY <1>0, <2>1, <2>3 DEF Grown, Backed
    <3>2. pte[v][c] = First(DelSize(c))
      BY <1>2, <2>3, <3>1 DEF Tables, Translated, Populated
    <3>3. pte'[v][c] = {}
      BY <1>1, <2>3, <3>2 DEF PteTyped, UnmapPages
    <3>. QED  BY <2>1, <2>3, <3>3 DEF Translated
  <2>4. CASE vaRefs[v][c] # 1
    <3>1. pte'[v][c] = pte[v][c]
      BY <1>1, <2>4 DEF PteTyped
    <3>. QED  BY <1>2, <2>1, <2>2, <2>4, <3>1 DEF Tables, Translated
  <2>. QED  BY <2>3, <2>4
<1>4. ASSUME NEW w \in VMs, NEW b \in BOs, ~(w = v /\ b = c) PROVE Translated(w, b)'
  <2>1. vaRefs'[w][b] = vaRefs[w][b] /\ pte'[w][b] = pte[w][b]
    BY <1>0, <1>1, <1>4 DEF PteTyped
  <2>. QED  BY <1>2, <2>1 DEF Tables, Translated
<1>5. \A w \in VMs, b \in BOs : vaRefs'[w][b] > 0 => vaRefs[w][b] > 0
  BY <1>0, <1>1
<1>6. \A b \in Heaps : OneMapsIt(b)'
  BY <1>5, GemAssumption DEF Tables, OneMapsIt
<1>. QED  BY <1>3, <1>4, <1>6 DEF Tables

LEMMA TablesMap ==
  ASSUME Control, Refs, PteTyped, Tables, PagesHeld, HeapShape, NEW v \in VMs, NEW c \in BOs,
         BoMap(v, c), UNCHANGED <<heap, grow>>,
         grow.pc # "idle" => task'[grow.task].vm = task[grow.task].vm,
         BoFound(v, c) \/ (c \notin Heaps /\ gemRefs[c] > 0)
  PROVE  Tables'
<1>0. Backed /\ vaRefs \in [VMs -> [BOs -> Int]]
  BY BackedByRefs DEF Refs, RefsTyped
<1>1. /\ vaRefs' = [vaRefs EXCEPT ![v][c] = @ + 1]
      /\ pte' = [pte EXCEPT ![v][c] = IF BoFound(v, c) THEN @ ELSE MapPages(@, 0, sgt[c])]
  BY DEF BoMap
<1>2. \A w, b : Populated(w, b)' = Populated(w, b)
  BY DEF Grown, Populated, DelSize
<1>3. Translated(v, c)'
  <2>1. /\ vaRefs'[v][c] = vaRefs[v][c] + 1 /\ vaRefs[v][c] \in Int
        /\ vaRefs[v][c] = 0 \/ vaRefs[v][c] > 0
    BY <1>0, <1>1 DEF Backed
  <2>2. CASE BoFound(v, c)
    <3>1. pte'[v][c] = pte[v][c]
      BY <1>1, <2>2 DEF PteTyped
    <3>. QED  BY <1>2, <2>1, <2>2, <3>1 DEF Tables, Translated, BoFound
  <2>3. CASE ~BoFound(v, c)
    <3>1. pte[v][c] = {} /\ sgt[c] = 1 /\ DelSize(c) = 1 /\ c \notin Heaps
      BY <2>3 DEF BoFound, Tables, Translated, PagesHeld, HeapShape, DelSize, Size
    <3>2. MapPages({}, 0, 1) = First(1)
      BY GemAssumption DEF MapPages, First, Page
    <3>3. pte'[v][c] = First(1)
      BY <1>1, <2>3, <3>1, <3>2 DEF PteTyped
    <3>4. ~Grown(v, c)
      BY <3>1, GrowBorn DEF Grown
    <3>. QED  BY <1>2, <2>1, <3>1, <3>3, <3>4 DEF Translated, Populated
  <2>. QED  BY <2>2, <2>3
<1>4. ASSUME NEW w \in VMs, NEW b \in BOs, ~(w = v /\ b = c) PROVE Translated(w, b)'
  <2>1. vaRefs'[w][b] = vaRefs[w][b] /\ pte'[w][b] = pte[w][b]
    BY <1>0, <1>1, <1>4 DEF PteTyped
  <2>. QED  BY <1>2, <2>1 DEF Tables, Translated
<1>5. \A w \in VMs, b \in Heaps : vaRefs'[w][b] > 0 => vaRefs[w][b] > 0
  BY <1>0, <1>1, GemAssumption DEF BoFound
<1>6. \A b \in Heaps : OneMapsIt(b)'
  BY <1>5, GemAssumption DEF Tables, OneMapsIt
<1>. QED  BY <1>3, <1>4, <1>6 DEF Tables

LEMMA TablesPut ==
  ASSUME Control, Refs, Control', Refs', PteTyped, Tables, NEW v \in VMs,
         VmPut(v) \/ (VmCreate(v) /\ file[v] = "none"),
         UNCHANGED <<vaRefs, heap, grow>>,
         grow.pc # "idle" => task'[grow.task].vm = task[grow.task].vm
  PROVE  Tables'
<1>1. \A w, b : Populated(w, b)' = Populated(w, b)
  BY DEF Grown, Populated, DelSize
<1>2. ASSUME pte' = [pte EXCEPT ![v] = [b \in BOs |-> {}]], \A b \in BOs : vaRefs[v][b] = 0
      PROVE  Tables'
  <2>1. \A w \in VMs, b \in BOs :
          pte'[w][b] = pte[w][b] \/ (w = v /\ pte'[w][b] = {})
    BY <1>2 DEF PteTyped
  <2>2. \A w \in VMs, b \in BOs : Translated(w, b)'
    BY <1>1, <1>2, <2>1 DEF Tables, Translated
  <2>. QED  BY <2>2 DEF Tables, OneMapsIt
<1>3. CASE VmPut(v) /\ vmRefs[v] = 1
  <2>1. vmRefs'[v] = 0
    BY <1>3 DEF VmPut, Refs, RefsTyped
  <2>2. \A b \in BOs : vaRefs[v][b] = 0
    BY <2>1, BackedNext DEF Backed
  <2>. QED  BY <1>2, <1>3, <2>2 DEF VmPut
<1>4. CASE VmCreate(v) /\ file[v] = "none"
  <2>1. file[v] = "none"
    BY <1>4
  <2>2. vmRefs[v] = 0
    <3>1. \A t \in Task : task[t].vm # v
      BY <2>1, GemAssumption DEF Control, TaskShape
    <3>2. VmHolders(v) = {}
      BY <2>1, <3>1 DEF VmHolders
    <3>. QED  BY <3>2, FS_EmptySet DEF Refs
  <2>3. \A b \in BOs : vaRefs[v][b] = 0
    BY <2>2, BackedByRefs DEF Backed
  <2>. QED  BY <1>2, <1>4, <2>3 DEF VmCreate
<1>5. CASE UNCHANGED pte
  BY <1>1, <1>5 DEF Tables, Translated, OneMapsIt
<1>. QED  BY <1>3, <1>4, <1>5 DEF VmPut

LEMMA TablesCreate ==
  ASSUME Control, Refs, PteTyped, Tables, NEW v \in VMs, NEW c \in BOs, Create(v, c)
  PROVE  Tables'
<1>. DEFINE n == NewPages(c)
<1>0. Backed /\ vaRefs \in [VMs -> [BOs -> Int]] /\ heap \in [BOs -> 0 .. HeapPages]
  BY BackedByRefs DEF Refs, RefsTyped, Control, ControlTyped
<1>1. /\ vaRefs' = [vaRefs EXCEPT ![v][c] = 1]
      /\ heap' = [heap EXCEPT ![c] = IF c \in Heaps THEN n ELSE 0]
      /\ pte' = [pte EXCEPT ![v][c] = MapPages(@, 0, n)]
      /\ c \notin born /\ UNCHANGED <<grow, task>>
  BY CreateIs
<1>2. /\ n > 0 /\ (c \notin Heaps => n = Size(c)) /\ MapPages({}, 0, n) = First(n)
  BY NewPagesFit DEF NewPages
<1>. HIDE DEF n
<1>3. \A w \in VMs : vaRefs[w][c] = 0 /\ pte[w][c] = {}
  <2>1. \A w \in VMs : vaRefs[w][c] = 0
    BY <1>0, <1>1 DEF Backed, Refs
  <2>. QED  BY <2>1 DEF Tables, Translated
<1>4. grow.pc # "idle" => grow.bo # c
  BY <1>1, GrowBorn
<1>5. Populated(v, c)' = First(n)
  <2>1. ~Grown(v, c)' /\ DelSize(c)' = n
    BY <1>0, <1>1, <1>2, <1>4 DEF Grown, DelSize
  <2>. QED  BY <2>1 DEF Populated
<1>6. Translated(v, c)'
  <2>1. pte'[v][c] = First(n) /\ vaRefs'[v][c] = 1
    BY <1>0, <1>1, <1>2, <1>3 DEF PteTyped
  <2>. QED  BY <1>5, <2>1 DEF Translated
<1>7. ASSUME NEW w \in VMs, NEW b \in BOs, ~(w = v /\ b = c) PROVE Translated(w, b)'
  <2>1. vaRefs'[w][b] = vaRefs[w][b] /\ pte'[w][b] = pte[w][b]
    BY <1>0, <1>1, <1>7 DEF PteTyped
  <2>2. CASE b = c
    <3>1. vaRefs'[w][b] = 0 /\ pte'[w][b] = {}
      BY <1>3, <2>1, <2>2
    <3>. QED  BY <3>1 DEF Translated
  <2>3. CASE b # c
    <3>1. Populated(w, b)' = Populated(w, b)
      BY <1>0, <1>1, <2>3 DEF Populated, Grown, DelSize
    <3>. QED  BY <2>1, <3>1 DEF Tables, Translated
  <2>. QED  BY <2>2, <2>3
<1>8. ASSUME NEW b \in Heaps PROVE OneMapsIt(b)'
  <2>1. CASE b = c
    BY <1>0, <1>1, <1>3, <2>1 DEF OneMapsIt
  <2>2. CASE b # c
    <3>1. \A w \in VMs : vaRefs'[w][b] = vaRefs[w][b]
      BY <1>0, <1>1, <2>2, GemAssumption
    <3>. QED  BY <3>1 DEF Tables, OneMapsIt
  <2>. QED  BY <2>1, <2>2
<1>. QED  BY <1>6, <1>7, <1>8 DEF Tables

\* lima_heap_alloc: from lima_vm_map_bo on, the new pages are mapped where the
\* heap is.
LEMMA TablesGrow ==
  ASSUME Control, Refs, Control', PteTyped, Tables, HeapShape, GrowStep
  PROVE  Tables'
<1>0. /\ vaRefs' = vaRefs /\ heap \in [BOs -> 0 .. HeapPages] /\ grow \in GrowRec
      /\ task \in [Task -> TaskRec]
  BY DEF GrowStep, GrowWire, GrowSg, GrowDma, GrowMap, GrowSize, refVars, Control, ControlTyped
<1>1. ASSUME \A v \in VMs, b \in BOs : Translated(v, b)' PROVE Tables'
  BY <1>0, <1>1 DEF Tables, OneMapsIt
<1>2. ASSUME UNCHANGED <<pte, heap>>, grow.pc # "size", grow'.pc # "size" PROVE Tables'
  <2>1. \A v, b : Populated(v, b)' = Populated(v, b)
    BY <1>2 DEF Populated, Grown, DelSize
  <2>. QED  BY <1>0, <1>1, <1>2, <2>1 DEF Tables, Translated
<1>3. ASSUME NEW t \in Task, NEW b \in BOs, GrowWire(t, b) PROVE Tables'
  <2>1. /\ UNCHANGED <<pte, heap>> /\ grow.pc = "idle"
        /\ \/ grow' = NoGrow
           \/ \E n : grow' = [pc |-> "sg", task |-> t, bo |-> b, new |-> n]
    BY <1>3 DEF GrowWire, GrowFails
  <2>. QED  BY <1>2, <2>1 DEF NoGrow
<1>4. CASE GrowSg \/ GrowDma
  <2>1. /\ UNCHANGED <<pte, heap>> /\ grow.pc \in {"sg", "dma"}
        /\ \/ grow' = NoGrow
           \/ \E pc \in {"dma", "map"} : grow' = [grow EXCEPT !.pc = pc]
    BY <1>4 DEF GrowSg, GrowDma, GrowFails
  <2>2. grow'.pc # "size"
    BY <1>0, <2>1 DEF NoGrow, GrowRec
  <2>. QED  BY <1>2, <2>1, <2>2
<1>5. CASE GrowMap
  <2>1. PICK u \in VMs, c \in Heaps : u = task[grow.task].vm /\ c = grow.bo
    BY <1>5, GrowBorn DEF GrowMap
  <2>2. /\ grow.pc = "map" /\ UNCHANGED heap
        /\ \/ /\ pte' = [pte EXCEPT ![u][c] = MapPages(@, heap[c], grow.new)]
              /\ grow' = [grow EXCEPT !.pc = "size"] /\ UNCHANGED task
           \/ grow' = NoGrow /\ UNCHANGED pte
    BY <1>5, <2>1 DEF GrowMap, GrowFails
  <2>3. /\ c \in BOs /\ vaRefs[u][c] > 0
        /\ grow.new \in 0 .. HeapPages /\ heap[c] > 0 /\ heap[c] < grow.new
    BY <2>1, <2>2, GrowBorn DEF HeapShape
  <2>4. CASE /\ pte' = [pte EXCEPT ![u][c] = MapPages(@, heap[c], grow.new)]
             /\ grow' = [grow EXCEPT !.pc = "size"] /\ UNCHANGED task
    <3>1. /\ grow'.pc = "size" /\ grow'.bo = c /\ grow'.new = grow.new
          /\ task'[grow'.task].vm = u
      BY <1>0, <2>1, <2>4 DEF GrowRec
    <3>2. pte[u][c] = First(heap[c])
      BY <2>1, <2>2, <2>3 DEF Tables, Translated, Populated, Grown, DelSize
    <3>3. MapPages(First(heap[c]), heap[c], grow.new) = First(grow.new)
      <4>1. heap[c] \in Nat /\ grow.new \in Nat /\ grow.new <= HeapPages /\ HeapPages \in Nat
        BY <1>0, <2>3, GemAssumption
      <4>. QED  BY <2>3, <4>1 DEF MapPages, First, Page
    <3>4. Translated(u, c)'
      <4>1. pte'[u][c] = First(grow.new) /\ vaRefs'[u][c] > 0
        BY <1>0, <2>3, <2>4, <3>2, <3>3 DEF PteTyped
      <4>2. Populated(u, c)' = First(grow.new)
        BY <3>1 DEF Populated, Grown
      <4>. QED  BY <4>1, <4>2 DEF Translated
    <3>5. ASSUME NEW w \in VMs, NEW b \in BOs, ~(w = u /\ b = c) PROVE Translated(w, b)'
      <4>1. pte'[w][b] = pte[w][b] /\ vaRefs'[w][b] = vaRefs[w][b]
        BY <1>0, <2>4, <3>5 DEF PteTyped
      <4>2. Populated(w, b)' = Populated(w, b)
        <5>1. ~Grown(w, b) /\ ~Grown(w, b)'
          BY <2>2, <3>1, <3>5 DEF Grown
        <5>. QED  BY <2>2, <5>1 DEF Populated, DelSize
      <4>. QED  BY <4>1, <4>2 DEF Tables, Translated
    <3>. QED  BY <1>1, <3>4, <3>5
  <2>5. CASE grow' = NoGrow /\ UNCHANGED pte
    BY <1>2, <2>2, <2>5 DEF NoGrow
  <2>. QED  BY <2>2, <2>4, <2>5
<1>6. CASE GrowSize
  <2>. DEFINE u == task[grow.task].vm
              c == grow.bo
  <2>1. /\ grow.pc = "size" /\ heap' = [heap EXCEPT ![c] = grow.new] /\ grow' = NoGrow
        /\ UNCHANGED <<pte, task>>
    BY <1>6 DEF GrowSize
  <2>2. /\ u \in VMs /\ c \in BOs /\ c \in Heaps /\ vaRefs[u][c] > 0
        /\ grow.new \in 0 .. HeapPages /\ heap[c] < grow.new /\ heap[c] \in 0 .. HeapPages
    BY <1>0, <2>1, GrowBorn DEF HeapShape
  <2>3. ASSUME NEW w \in VMs, NEW b \in BOs PROVE Translated(w, b)'
    <3>0. ~Grown(w, b)'
      BY <2>1 DEF Grown, NoGrow
    <3>1. CASE b # c
      <4>1. Populated(w, b)' = Populated(w, b)
        BY <1>0, <2>1, <3>0, <3>1 DEF Populated, Grown, DelSize
      <4>. QED  BY <1>0, <2>1, <4>1 DEF Tables, Translated
    <3>2. CASE b = c /\ vaRefs[w][b] > 0
      <4>1. w = u
        BY <2>2, <3>2 DEF Tables, OneMapsIt
      <4>2. Populated(w, b) = First(grow.new)
        BY <2>1, <3>2, <4>1 DEF Populated, Grown
      <4>3. Populated(w, b)' = First(grow.new)
        BY <1>0, <2>1, <2>2, <3>0, <3>2 DEF Populated, DelSize
      <4>. QED  BY <1>0, <2>1, <3>2, <4>2, <4>3 DEF Tables, Translated
    <3>3. CASE ~(vaRefs[w][b] > 0)
      BY <1>0, <2>1, <3>3 DEF Tables, Translated
    <3>. QED  BY <3>1, <3>2, <3>3
  <2>. QED  BY <1>1, <2>3
<1>. QED  BY <1>3, <1>4, <1>5, <1>6 DEF GrowStep

LEMMA TablesNext ==
  ASSUME Control, Refs, Control', Refs', PteTyped, HeapShape, PagesHeld, Tables,
         ~HeapShared, [Next]_vars
  PROVE  Tables'
<1>0. Backed
  BY BackedByRefs
<1>1. CASE GrowStep
  BY <1>1, TablesGrow
<1>2. ASSUME NEW v \in VMs, NEW c \in BOs, Create(v, c) PROVE Tables'
  BY <1>2, TablesCreate
<1>3. ASSUME ~GrowStep, \A v \in VMs, c \in BOs : ~Create(v, c) PROVE Tables'
  <2>0. /\ UNCHANGED <<heap, grow>>
        /\ grow.pc # "idle" => task'[grow.task].vm = task[grow.task].vm
    BY <1>3, CalmSteps, GrowStays
  <2>1. ASSUME NEW v \in VMs, NEW c \in BOs, BoDel(v, c) PROVE Tables'
    BY <2>0, <2>1, TablesDel
  <2>2. ASSUME NEW v \in VMs, NEW c \in BOs, BoMap(v, c),
               BoFound(v, c) \/ (c \notin Heaps /\ gemRefs[c] > 0)
        PROVE  Tables'
    BY <2>0, <2>2, TablesMap
  <2>3. ASSUME NEW v \in VMs, UNCHANGED vaRefs, VmPut(v) PROVE Tables'
    BY <2>0, <2>3, TablesPut
  <2>4. ASSUME UNCHANGED <<vaRefs, pte>> PROVE Tables'
    <3>1. \A w, b : Populated(w, b)' = Populated(w, b)
      BY <2>0 DEF Grown, Populated, DelSize
    <3>. QED  BY <2>4, <3>1 DEF Tables, Translated, OneMapsIt
  <2>5. CASE UNCHANGED vars
    BY <2>4, <2>5 DEF vars, refVars
  <2>6. ASSUME NEW v \in VMs, FileStep(v) PROVE Tables'
    <3>1. CASE OpenFile(v)
      BY <2>0, <3>1, TablesPut DEF OpenFile
    <3>2. CASE CloseFile(v)
      BY <2>3, <3>2 DEF CloseFile
    <3>3. ASSUME NEW c \in BOs, OpenHandle(v, c) PROVE Tables'
      <4>1. c \notin Heaps /\ gemRefs[c] > 0 /\ BoMap(v, c)
        BY <1>0, <3>3 DEF OpenHandle, Backed
      <4>. QED  BY <2>2, <4>1
    <3>4. ASSUME NEW c \in BOs, CloseHandle(v, c) PROVE Tables'
      BY <2>1, <3>4 DEF CloseHandle
    <3>. QED  BY <1>3, <2>6, <3>1, <3>2, <3>3, <3>4 DEF FileStep
  <2>7. ASSUME NEW v \in VMs, SubmitStep(v) PROVE Tables'
    <3>0. /\ submit[v].pc = "add" => Next1(v) \in BOs
          /\ submit[v].got > 0 => Head(submit[v].bos) \in BOs
      <4>1. From(submit[v], submit)
        BY MovesFrom
      <4>. QED  BY <4>1 DEF From, Next1
    <3>1. CASE SubmitAdd(v)
      BY <2>2, <2>4, <3>0, <3>1 DEF SubmitAdd
    <3>2. CASE SubmitUnwind(v)
      BY <2>1, <2>4, <3>0, <3>2 DEF SubmitUnwind, UnwindOne
    <3>3. CASE SubmitDepsFail(v)
      BY <2>3, <3>3 DEF SubmitDepsFail
    <3>. QED  BY <2>4, <2>7, <3>1, <3>2, <3>3
              DEF SubmitStep, SubmitBegin, SubmitLookup, SubmitLock, SubmitInit, SubmitQueue,
                  SubmitPut, refVars
  <2>8. ASSUME NEW t \in Task, TaskUnmap(t) PROVE Tables'
    BY <2>1, <2>8, UnmapMoves DEF TaskUnmap
  <2>9. ASSUME NEW t \in Task, TaskFini(t) PROVE Tables'
    BY <2>3, <2>9, FiniMoves DEF TaskFini
  <2>. QED  BY <1>3, <2>5, <2>6, <2>7, <2>8, <2>9 DEF Next, TaskStep
<1>. QED  BY <1>1, <1>2, <1>3

LEMMA TablesInit == Init => HeapShape /\ PagesHeld /\ Tables
<1>. SUFFICES ASSUME Init PROVE HeapShape /\ PagesHeld /\ Tables
  OBVIOUS
<1>1. HeapShape
  BY DEF Init, HeapShape, NoGrow
<1>2. PagesHeld
  BY DEF Init, PagesHeld
<1>3. \A v \in VMs, b \in BOs : vaRefs[v][b] = 0 /\ pte[v][b] = {}
  BY DEF Init
<1>4. Tables
  <2>1. ASSUME NEW v \in VMs, NEW b \in BOs PROVE Translated(v, b)
    <3>1. pte[v][b] = {} /\ ~(vaRefs[v][b] > 0)
      BY <1>3
    <3>. QED  BY <3>1, Zenon DEF Translated
  <2>2. \A b \in Heaps : OneMapsIt(b)
    BY <1>3, GemAssumption DEF OneMapsIt
  <2>. QED  BY <2>1, <2>2 DEF Tables
<1>. QED  BY <1>1, <1>2, <1>4

LEMMA HeldAlways == Spec => [](Control /\ Refs /\ PagesTyped /\ PteTyped /\ HeapShape /\ PagesHeld)
<1>1. Init => HeapShape /\ PagesHeld
  BY TablesInit
<1>2. Control /\ Refs /\ PagesTyped /\ HeapShape /\ PagesHeld /\ [Next]_vars
        => (HeapShape /\ PagesHeld)'
  BY HeapNext, PagesHeldNext
<1>. QED  BY <1>1, <1>2, TypesAlways, PTL DEF Spec

LEMMA TablesAlways ==
  ASSUME ~HeapShared
  PROVE  Spec => [](Control /\ Refs /\ PagesTyped /\ PteTyped /\ HeapShape /\ PagesHeld /\ Tables)
<1>1. Init => Tables
  BY TablesInit
<1>2. Control /\ Refs /\ PteTyped /\ HeapShape /\ PagesHeld /\ Tables
        /\ [Next]_vars /\ Control' /\ Refs' => Tables'
  BY TablesNext
<1>. QED  BY <1>1, <1>2, HeldAlways, PTL DEF Spec

\* lima_vm_bo_del unmaps all that lima_vm_bo_add and lima_vm_map_bo have mapped
\* (lima_vm.c), whatever growth of the heap came between (lima_gem.c:24), as
\* long as no second file opens a heap.
THEOREM NoStaleTranslations ==
  ASSUME ~HeapShared
  PROVE  Spec => []NoStalePte
<1>1. Tables => NoStalePte
  BY DEF Tables, Translated, NoStalePte
<1>. QED  BY <1>1, TablesAlways, PTL

\* A page is wired as long as some page table maps it: the last reference to an
\* object is dropped after its last mapping (lima_gem.c, drm_gem_shmem_helper.c).
THEOREM TranslationsAreBacked ==
  ASSUME ~HeapShared
  PROVE  Spec => []PteIsBacked
<1>1. Control /\ Refs /\ PagesTyped /\ PteTyped /\ PagesHeld /\ Tables => PteIsBacked
  <2>. SUFFICES ASSUME Control, Refs, PagesTyped, PteTyped, PagesHeld, Tables,
                       NEW v \in VMs, NEW b \in BOs, NEW p \in pte[v][b]
                PROVE  wired[b][p] > 0
    BY DEF PteIsBacked
  <2>1. vaRefs[v][b] > 0 /\ p \in Populated(v, b) /\ p \in Page
    BY DEF Tables, Translated, PteTyped
  <2>2. gemRefs[b] > 0
    BY <2>1, BackedByRefs DEF Backed
  <2>3. p \in pages[b]
    BY <2>1, <2>2 DEF PagesHeld, Populated, Grown, Grows
  <2>4. wired[b][p] >= 1 /\ wired[b][p] \in Nat
    BY <2>1, <2>3 DEF PagesTyped
  <2>. QED  BY <2>4
<1>. QED  BY <1>1, TablesAlways, PTL

\* The mappings a task has taken over stay complete until lima_sched_free_job
\* begins, also in the part its heap has grown by (lima_sched.c, lima_gem.c).
THEOREM TasksFindTheirPages ==
  ASSUME ~HeapShared
  PROVE  Spec => []TaskMapped
<1>1. Control /\ Refs /\ HeapShape /\ Tables => TaskMapped
  <2>. SUFFICES ASSUME Control, Refs, HeapShape, Tables, NEW t \in Task,
                       task[t].state \in {"live", "faulted"},
                       NEW i \in DOMAIN task[t].bos
                PROVE  LET b == task[t].bos[i]
                       IN  First(IF heap[b] # 0 THEN heap[b] ELSE Size(b))
                             \subseteq pte[task[t].vm][b]
    BY DEF TaskMapped
  <2>1. task[t].bos \in Seq(BOs) /\ task[t].todo = task[t].bos
    BY TaskFields DEF Control, TaskShape
  <2>2. PICK v \in VMs, b \in BOs :
          v = task[t].vm /\ b = task[t].bos[i] /\ vaRefs[v][b] > 0
    <3>1. task[t].vm \in VMs /\ vaRefs[task[t].vm][task[t].bos[i]] > 0
      BY <2>1, BackedByRefs DEF Backed
    <3>. QED  BY <2>1, <3>1
  <2>3. pte[v][b] = Populated(v, b)
    BY <2>2 DEF Tables, Translated
  <2>4. First(DelSize(b)) \subseteq Populated(v, b)
    <3>1. CASE Grown(v, b)
      <4>1. /\ b \in Heaps /\ b \in born /\ heap[b] < grow.new /\ heap[b] > 0
            /\ heap[b] \in Nat /\ grow.new \in Nat
        BY <3>1, GrowBorn DEF Grown, HeapShape, Control, ControlTyped
      <4>2. DelSize(b) = heap[b]
        BY <4>1 DEF DelSize
      <4>. QED  BY <3>1, <4>1, <4>2 DEF Populated, First
    <3>. QED  BY <3>1 DEF Populated
  <2>. QED  BY <2>2, <2>3, <2>4 DEF DelSize
<1>. QED  BY <1>1, TablesAlways, PTL

=============================================================================
