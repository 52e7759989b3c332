\* Tags and pinned commits, two calls at once, pushes, a kill.
CONSTANTS
  h1 = h1
  h2 = h2
  Handlers = {h1, h2}
  Kinds = {"tag", "commit"}
  TagFlags = {TRUE, FALSE}
  Depths = {1, 2}
  MaxCommit = 2
  MaxFaults = 1
  Free = Free
  Orphan = Orphan
SPECIFICATION FairSpec
INVARIANTS TypeOK PinnedServesNoOther IsolatedIsFresh
PROPERTIES ServedUnlessWedged
