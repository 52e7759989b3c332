\* Two requests evict while others rebuild.
CONSTANTS
  e1 = e1
  e2 = e2
  Dirs = {1, 2, 3}
  Evictors = {e1, e2}
  Sizes = {1, 2}
  MaxSize = 3
  MaxAge = 1
  MaxClock = 2
  MaxReuses = 1
  Absent = Absent
SYMMETRY Symmetric
SPECIFICATION Spec
INVARIANT FitsAfterEvict
