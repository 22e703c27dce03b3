SPECIFICATION Spec
CONSTANTS
  VMs = {v1, v2}
  NoVm = NoVm
  tex = tex
  heapBo = heapBo
  BOs <- Objects
  Heaps = {heapBo}
  BoLists <- Lists
  HeapPages = 4
  InitPages = 2
  NumTasks = 2
  MaxWirings = 2
  MayFail = {"resv", "deps", "wire", "sg_alloc", "dma_map", "map_page"}
  HeapShared = FALSE
CHECK_DEADLOCK FALSE
SYMMETRY Files
INVARIANT TypeOK
INVARIANT GemRefsExact
INVARIANT VaRefsExact
INVARIANT NoStalePte
INVARIANT PteIsBacked
INVARIANT TaskMapped
