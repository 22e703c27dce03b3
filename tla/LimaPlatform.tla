---------------------------- MODULE LimaPlatform ----------------------------
(***************************************************************************)
(* The bridge between newbus and a Linux platform driver                   *)
(* (linux/platform_device.c): attach with its unwinding, detach, and the   *)
(* interrupt lines a driver requests with devm_request_irq().  What the    *)
(* driver's probe and remove do is the business of the module that extends *)
(* this one; it calls Request, Enter and Leave and returns from probe and  *)
(* remove by the actions named so.                                         *)
(*                                                                         *)
(* newbus calls attach and detach one at a time.  Interrupt threads run    *)
(* beside them.                                                            *)
(***************************************************************************)
EXTENDS Integers, Sequences, FiniteSets

CONSTANTS
  NumLines,    \* interrupts of the FDT node
  BridgeFails  \* what may fail here: "irq", "kobject", "dma", "setup"

ASSUME PlatformAssumption ==
  NumLines \in Nat /\ BridgeFails \subseteq {"irq", "kobject", "dma", "setup"}

Line == 1 .. NumLines  \* a line is named by its rid, counted from 1
Memory == 0             \* what the driver has from devm_kzalloc
DmaTag == {"dmat", "dmat_coherent"}  \* what dma_priv points to

VARIABLES
  bus,        \* where attach or detach is
  nirq,       \* pdev->nirq: lines 1 .. nirq are allocated
  held,       \* the memory resources are allocated
  kobj,       \* references to pdev->dev
  dma,        \* busdma tags made for this attach that exist
  lost,       \* history: those of them whose dma_priv was freed before them
  published,  \* pdev is in lkpi_platform_devices
  tag,        \* lines with an interrupt established: irq_tag
  devres,     \* the devres list, newest first: lines' irqes and driver memory
  running     \* lines whose handler runs

platformVars == <<bus, nirq, held, kobj, dma, lost, published, tag, devres, running>>

PlatformTypeOK ==
  /\ bus \in {"detached", "dma", "probe", "attached", "remove", "teardown",
              "dmaFini", "put", "release"}
  /\ nirq \in 0 .. NumLines /\ kobj \in {0, 1}
  /\ {held, published} \subseteq BOOLEAN /\ {dma, lost} \subseteq SUBSET DmaTag
  /\ tag \subseteq 1 .. nirq /\ running \subseteq tag
  /\ devres \in Seq(0 .. NumLines)

PlatformInit ==
  /\ bus = "detached" /\ nirq = 0 /\ held = FALSE /\ kobj = 0 /\ dma = {}
  /\ lost = {} /\ published = FALSE /\ tag = {} /\ devres = <<>> /\ running = {}

-----------------------------------------------------------------------------
(***************************************************************************)
(* lkpi_platform_bus_attach.                                               *)
(***************************************************************************)

\* Resources are taken in order, up to the first that is not there.
Attach ==
  /\ bus = "detached" /\ held' = TRUE
  /\ \E n \in 0 .. NumLines : (n = NumLines \/ "irq" \in BridgeFails) /\ nirq' = n
  /\ \/ bus' = "dma" /\ kobj' = 1
     \/ "kobject" \in BridgeFails /\ bus' = "release" /\ UNCHANGED kobj
  /\ dma' = {} /\ lost' = {}
  /\ UNCHANGED <<published, tag, devres, running>>

\* lkpi_platform_dma_init frees dma_priv where it fails, and the tags it has
\* made stay: none, if it is the first that fails; the first, if it is the
\* second; or both, on purpose, if they are not where the mirror expects them.
DmaInit ==
  /\ bus = "dma"
  /\ \/ bus' = "probe" /\ dma' = DmaTag /\ lost' = {} /\ published' = TRUE
     \/ /\ "dma" \in BridgeFails /\ bus' = "put" /\ UNCHANGED published
        /\ dma' \in {{}, {"dmat"}, DmaTag} /\ lost' = dma'
  /\ UNCHANGED <<nirq, held, kobj, tag, devres, running>>

ProbeReturns == bus = "probe" /\ bus' = "attached" /\ UNCHANGED published

\* Back to "fail_resources", without the loop over the lines that detach has:
\* those the driver has requested go with the devres list.
ProbeFails_StaysPublished ==
  bus = "probe" /\ bus' = "dmaFini" /\ UNCHANGED published
ProbeFails == bus = "probe" /\ bus' = "dmaFini" /\ published' = FALSE

-----------------------------------------------------------------------------
(***************************************************************************)
(* lkpi_platform_bus_detach, and the end of a failed attach.               *)
(***************************************************************************)

Detach ==
  /\ bus = "attached" /\ bus' = "remove"
  /\ UNCHANGED <<nirq, held, kobj, dma, lost, published, tag, devres, running>>

RemoveReturns == bus = "remove" /\ bus' = "teardown" /\ published' = FALSE

\* bus_teardown_intr waits for a handler that runs.
Teardown_NoWait(l) == tag' = tag \ {l}
Teardown(l) == l \notin running /\ tag' = tag \ {l}

TeardownLine ==
  /\ bus = "teardown" /\ tag # {}
  /\ Teardown(CHOOSE l \in tag : \A k \in tag : l <= k)
  /\ UNCHANGED <<bus, nirq, held, kobj, dma, lost, published, devres, running>>

DmaFini ==
  /\ bus = "dmaFini" \/ (bus = "teardown" /\ tag = {})
  /\ bus' = "put" /\ dma' = lost
  /\ UNCHANGED <<nirq, held, kobj, lost, published, tag, devres, running>>

\* put_device: lkpi_platform_dev_release frees the devres list, newest first.
\* An irqe is torn down unless detach has done that.
ReleaseDevres ==
  /\ bus = "put" /\ devres # <<>>
  /\ IF Head(devres) \in Line THEN Teardown(Head(devres)) ELSE UNCHANGED tag
  /\ devres' = Tail(devres)
  /\ UNCHANGED <<bus, nirq, held, kobj, dma, lost, published, running>>

PutDevice ==
  /\ bus = "put" /\ devres = <<>>
  /\ bus' = "release" /\ kobj' = 0
  /\ UNCHANGED <<nirq, held, dma, lost, published, tag, devres, running>>

ReleaseResources ==
  /\ bus = "release"
  /\ bus' = "detached" /\ nirq' = 0 /\ held' = FALSE
  /\ UNCHANGED <<kobj, dma, lost, published, tag, devres, running>>

-----------------------------------------------------------------------------
(***************************************************************************)
(* lkpi_platform_request_irq with a device, and the trampoline.            *)
(***************************************************************************)

Allocated(l) == l \in 1 .. nirq  \* else platform_get_irq_byname is -ENXIO

Keep(e) == devres' = <<e>> \o devres  \* lkpi_devres_add

Request(l) == Allocated(l) /\ l \notin tag /\ tag' = tag \cup {l} /\ Keep(l)

Enter(l) == l \in tag \ running /\ running' = running \cup {l}
Leave(l) == l \in running /\ running' = running \ {l}

\* Detach calls the driver's remove, which is joined to it.
Bridge == Attach \/ DmaInit \/ TeardownLine \/ DmaFini \/ ReleaseDevres
          \/ PutDevice \/ ReleaseResources

\* A device that is not attached, after a detach or after an attach that
\* failed anywhere, holds nothing: no resource, interrupt, devres entry,
\* reference or place in the registry, and no DMA tag but those of an attach
\* that failed in lkpi_platform_dma_init, which nothing points to any more.
NothingLeft ==
  bus = "detached" =>
    /\ nirq = 0 /\ ~held /\ kobj = 0 /\ dma = lost /\ ~published
    /\ tag = {} /\ devres = <<>> /\ running = {}
=============================================================================
