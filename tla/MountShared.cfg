\* A cache with room for one key of the two, which also ages; one missed deadline.
CONSTANTS
  h1 = h1
  h2 = h2
  t1 = t1
  t2 = t2
  k1 = k1
  k2 = k2
  Handlers = {h1, h2}
  Targets = {t1, t2}
  Keys = {k1, k2}
  KeyOf <- OwnKeys
  NumFiles = 1
  MaxCommit = 1
  Oversize = {}
  MaxSize = 2
  AgeExpiry = TRUE
  CanWriteReadOnly = TRUE
  MaxTimeouts = 1
  MaxCrashes = 0
  Nothing = Nothing
SYMMETRY SymmetricVolumes
SPECIFICATION Spec
INVARIANTS IsolatedMountIsServed
PROPERTIES KeepsPromiseApart EvictMakesRoom
