\* A tag that moves, and volumes that say revisionKind: tag, one at a time.
CONSTANTS
  h1 = h1
  h2 = h2
  Handlers = {h1}
  Kinds = {"tag"}
  TagFlags = {TRUE}
  Depths = {2}
  MaxCommit = 2
  MaxFaults = 0
  Free = Free
  Orphan = Orphan
SPECIFICATION FairSpec
PROPERTIES RestartIsServed
