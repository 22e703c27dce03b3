SPECIFICATION Spec
CONSTANTS
  Vma = {m1, m2, m3}
  MaxUses = 2
  MapWc = 1
CHECK_DEADLOCK FALSE
INVARIANT TypeOK
INVARIANT UsesExact
INVARIANT ReachedIsWired
INVARIANT PurgedIsUnmapped
INVARIANT FreedIsClean
