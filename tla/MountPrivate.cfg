\* Distinct keys, a cache that never fills, a patient kubelet; one restart.
CONSTANTS
  h1 = h1
  h2 = h2
  t1 = t1
  t2 = t2
  k1 = k1
  k2 = k2
  Handlers = {h1, h2}
  Targets = {t1, t2}
  Keys = {k1, k2}
  KeyOf <- OwnKeys
  NumFiles = 2
  MaxCommit = 2
  Oversize = {2}
  MaxSize = 6
  AgeExpiry = FALSE
  CanWriteReadOnly = TRUE
  MaxTimeouts = 0
  MaxCrashes = 1
  Nothing = Nothing
SYMMETRY SymmetricVolumes
SPECIFICATION Spec
INVARIANTS TypeOK MountedIsServed GoneStaysGone
PROPERTIES MountedIsImmutable LeftoversNeverFail KeepsPromise
