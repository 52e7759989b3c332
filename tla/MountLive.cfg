\* One volume, retried through failures, one missed deadline and one restart.
CONSTANTS
  h1 = h1
  h2 = h2
  t1 = t1
  t2 = t2
  k1 = k1
  k2 = k2
  Handlers = {h1, h2}
  Targets = {t1}
  Keys = {k1}
  KeyOf <- OneTarget
  NumFiles = 1
  MaxCommit = 1
  Oversize = {}
  MaxSize = 2
  AgeExpiry = TRUE
  CanWriteReadOnly = TRUE
  MaxTimeouts = 1
  MaxCrashes = 1
  Nothing = Nothing
SPECIFICATION FairSpec
PROPERTIES EveryCallReturns WantedIsMounted ReleasedIsGone
