\* A branch that moves between two calls, one at a time.
CONSTANTS
  h1 = h1
  h2 = h2
  Handlers = {h1}
  Kinds = {"branch"}
  TagFlags = {FALSE}
  Depths = {2}
  MaxCommit = 2
  MaxFaults = 0
  Free = Free
  Orphan = Orphan
SPECIFICATION Spec
INVARIANTS IsolatedIsFresh
