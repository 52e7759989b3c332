\* Volumes that differ in one attribute at a time, two policy files, an edit.
CONSTANTS
  HostFromRepo <- Hosts
  PolicyFiles <- Files
  Namespaces = {"web", "default"}
  PodSpecs <- Pods
  Branches = {"main"}
  Tags = {"v1"}
  DefaultBranch = "main"
  HeadNames = {"HEAD", "head"}
  TagKinds = {"tag", "tags"}
  RemoteRepos = {"allowed", "other"}
  Directories <- Dirs
  Posts <- Posted
  TargetRoot <- Root
  PodInfoOnMount = TRUE
  MaxCommit = 2
  MaxEdits = 1
SPECIFICATION Spec
INVARIANTS TypeOK AdmittedIsNotRefused PinnedServesNamed BranchIsAllowed DepthIsLimited PathIsWalked ModuleIsLinked LinkShowsNamed
