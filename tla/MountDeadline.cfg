\* One volume and a kubelet that gives up on one call.
CONSTANTS
  h1 = h1
  h2 = h2
  t1 = t1
  t2 = t2
  k1 = k1
  k2 = k2
  Handlers = {h1, h2}
  Targets = {t1}
  Keys = {k1}
  KeyOf <- OneTarget
  NumFiles = 2
  MaxCommit = 2
  Oversize = {2}
  MaxSize = 6
  AgeExpiry = FALSE
  CanWriteReadOnly = TRUE
  MaxTimeouts = 1
  MaxCrashes = 0
  Nothing = Nothing
SYMMETRY Symmetric
SPECIFICATION Spec
PROPERTY MountedIsImmutable
