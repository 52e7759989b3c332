\* Two pods mount the same repository, revision and path; nothing fails.
CONSTANTS
  h1 = h1
  h2 = h2
  t1 = t1
  t2 = t2
  k1 = k1
  k2 = k2
  Handlers = {h1, h2}
  Targets = {t1, t2}
  Keys = {k1, k2}
  KeyOf <- SameKey
  NumFiles = 2
  MaxCommit = 2
  Oversize = {}
  MaxSize = 6
  AgeExpiry = FALSE
  CanWriteReadOnly = TRUE
  MaxTimeouts = 0
  MaxCrashes = 0
  Nothing = Nothing
SYMMETRY Symmetric
SPECIFICATION Spec
INVARIANT MetadataTellsContent
