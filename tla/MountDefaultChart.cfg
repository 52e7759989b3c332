\* One volume; UID 0 without capabilities, as the chart deploys it.
CONSTANTS
  h1 = h1
  h2 = h2
  t1 = t1
  t2 = t2
  k1 = k1
  k2 = k2
  Handlers = {h1, h2}
  Targets = {t1}
  Keys = {k1}
  KeyOf <- OneTarget
  NumFiles = 2
  MaxCommit = 2
  Oversize = {}
  MaxSize = 6
  AgeExpiry = FALSE
  CanWriteReadOnly = FALSE
  MaxTimeouts = 0
  MaxCrashes = 0
  Nothing = Nothing
SPECIFICATION FairSpec
PROPERTY ReleasedIsGone
