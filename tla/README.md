# Verification of gitrepo-csi-driver

TLA+ models, TLC runs and TLAPS proofs for the node plugin and the admission
webhook of gitrepo-csi-driver: a CSI driver that mounts the content of a Git repository,
read-only, into a pod. Paths and line numbers below are those of the repository.

## The system

| Component | Source | State it keeps | Operations | Modelled |
|---|---|---|---|---|
| CSI node service | `cmd/nodeplugin/main.go:208-253` | none of its own; one goroutine per RPC | `NodePublishVolume`, `NodeUnpublishVolume` | `MountPipeline` (accepted calls), `Admission` (checks, status codes) |
| Mount pipeline | `cmd/nodeplugin/main.go:255-330` | none | `materialize`: parse, evaluate, materialize, metadata, link, evict | `MountPipeline`, `Admission`; promised by `Volume` |
| Publishing | `cmd/nodeplugin/publish.go`, `gitbinary.go:310-388` | target directories | `publishReadOnly`, `unpublish`, `CopyContentTree` | `MountPipeline` |
| go-git materializer (default) | `pkg/materializer/gogit.go` | content directory of a cache key | `Materialize` | `MountPipeline` (stages), `GoGit` (which commit, directory and submodule) |
| git binary materializer | `pkg/materializer/gitbinary.go` | repository and content directory of a key | `Materialize`: clone or fetch, checkout, copy | `GitBinary` (without submodules, limits) |
| Cache manager | `pkg/cache/cache.go` | cache root, sizes and ages of the keys on disk | `Key`, `Evict` | `CacheEviction`, `Eviction`, `MountPipeline`, `Admission` (`Key`) |
| Metadata | `pkg/metadata/write.go` | `.gitcontent` in the content directory | `Write` | `MountPipeline` |
| Policy | `pkg/policy` | policies, loaded once | `LoadPolicies`, `Evaluate` | `Policy` |
| Volume attributes | `pkg/volume/attributes.go` | none | `Parse` | `Admission`, `Paths` |
| Path guards | `pkg/materializer/materializer.go`, `main.go:369-391` | none | `normalizeRepoPath`, `safeTargetPath`, the guard of the backend | `Paths` |
| HTTP endpoint | `main.go:110-148`, `main.go:313-325` | a symbolic link into the cache | `POST /mount` | `Admission` |
| Admission webhook | `cmd/admission-webhook/main.go` | policies, loaded once | `/validate` | `Admission` |
| Metrics, event names | `pkg/observability` | counters | observe | no: nobody reads them back |
| Chart, Dockerfiles, e2e fixture | `helm`, `test/e2e` | configuration | | no; the capabilities of the process and `podInfoOnMount` are constants |

The components interact by calls within one goroutine per RPC, and, between
goroutines, only through the file system: **there is no lock anywhere**. The
shared state is the cache directory (one directory per cache key, a key being
the hash of repository, revision, path and options) and the target directories.
The caller is the kubelet: one call per volume at a time, retried after an
error, given up at a deadline while the goroutine runs on.

What is hard here, and what correctness means:

* *Publishing.* A mounted volume holds one commit, complete, with the metadata
  of that commit, read-only, and within the policy's limits. It does not change
  while mounted, and leaves nothing behind.
* *Cache.* Requests rebuild, evict and copy cache keys under each other.
  Eviction restores the size limit, removes no more than it must, and no
  request publishes what another has half removed.
* *Failure.* A call may fail at every stage, the process may die at every step,
  files stay as they are; a retry must cope with every leftover.
* *Time.* The kubelet stops waiting; the call does not stop working.
* *Git.* The git backend keeps a repository per key from call to call. Killed
  commands leave half-made clones and locks in it, refs move on the server, and
  calls share it; what is served must be the commit the volume names.
* *Policy.* One decision, taken by two programs with two copies of the policies.
  What is mounted must be what was checked: the commit, the kind of ref, the
  depth, the directory of the path, the commit of a submodule.
* *Links.* `POST /mount` publishes a link to the mutable cache, which later
  requests rebuild and evict. What it shows may change; it must not become
  something else than it was made for.

`PROJECT.json` lists the hazards at their lines, with the properties that cover
them. Five have none, each with the reason: the order of metrics (`main.go:328`),
submodules of the git backend (`gitbinary.go:56`, see "Not modelled"), the cache of
a node whose publishes all fail (`main.go:290`), the code that tells a deadline
from another failure (`main.go:292`), and the comparison of a link's target with its
root (`main.go:385`), which is proved by itself in `PathsProofs`.

How the modules build on each other (`A < B`: B extends A):

    Eviction < CacheEviction
    Eviction < MountPipeline < MountPipelineInv < MountVolumes   (INSTANCE Volume)
    Policy, Paths < GoGit < Admission
    GitBinary

and the proofs:

    Eviction, NaturalSets < EvictionProofs
    CacheEviction, EvictionProofs < CacheEvictionProofs
    MountPipelineInv < MountPipelineProofs
    MountVolumes, MountPipelineProofs, EvictionProofs < MountVolumesProofs
    Paths, NaturalSets < PathsProofs
    Admission, PathsProofs < AdmissionProofs
    GitBinary < GitBinaryProofs

## Modules

### `Eviction`

What one call of `Manager.Evict` removes, as a set: the expired directories, and
from the oldest on those the size loop passes before the total is within the
limit. It keeps the accounting of the code: an expired directory is subtracted
by the age loop and again when the size loop passes it.

### `CacheEviction`

`Manager.Evict` loop by loop: `ReadDir`, `DirInfo` per directory in the order of
its name, `RemoveExpired`, the early return or sort (`ScanDone`), `Sweep` from
the oldest, `Return`. Several `Evictors` do this at once over one `disk`, on
which other requests use keys in one of two ways, that of their backend: go-git
rebuilds a key, and its oldest file is from this use (`Rebuild`); the git
backend keeps the repository, so that the size changes and the oldest file stays
(`Reuse`, `cache.go:125`), and eviction takes the key that was made first, not
the one used least recently. The walk of a key that is being rebuilt may fail, and
the key is skipped (`DirInfoFails`, `cache.go:74`). `before`, `removed`, `renewed` and `crossed` are
history: what an Evict found, what it removed, what other requests have used
since, and whether another Evict has removed something. Sizes and times are
small numbers; two rebuilds never share an instant.

### `MountPipeline`

All RPC handlers of one node over the shared disk.

| Variable | Code |
|---|---|
| `tree[p][n]`, `dirs`, `readonly` | files, directories and their mode, for the content directory of each cache key and each target |
| `older[k]` | modification times, as an order of the keys |
| `op[h]` | the stack of goroutine `h`: stage, target, resolved commit, names left in the walk at hand, the file a copy has open |
| `vol[t]`, `caller[t]` | the kubelet: what it wants of a volume, whose answer it waits for |
| `remote` | tip of the branch on the git server |
| `overlapped` | history: calls, and targets, under which another call has written |

A file is the commit its data is from and who has it open. `MountPipeline` has
one action per step that another goroutine can come between: RemoveAll is
opening, each unlink and the rmdir; exporting and copying a file are its
creation with `O_EXCL` and its completion; each `MkdirAll` is the step that may
bring an evicted directory back. Names are walked in order, once read. A clone
that fails, exceeds the policy's timeout or is cancelled ends the call
(`CloneFails`); no later step looks at the context, and none does in the model.
`Crash` ends every call where it is. `Abandon` is the kubelet's deadline.

Abstractions: a commit has `NumFiles` files in one directory (a directory or
symbolic link is a file); a place is the content directory of a key, the key's
own directory being created with it; `.gitcontent` is one file, whose value is
the resolved revision; `Evict` measures and decides in one step (`EvictScan`)
and removes in the small steps of RemoveAll. Of a key that other calls may rebuild
or remove during the walk (`Disturbed`) it finds any part (`Measured`), or skips the
key because `dirInfo` fails (`cache.go:74`); `CacheEviction` has the loops and
shows that, uncrossed, they decide on that set. Requests that validation or the
policy refuses change nothing and are `Admission`'s; which commit a submodule is
at is `GoGit`'s; chown, and the files of submodules, change the same directory
between the export and the limits and are left out.

### `Volume`, `MountVolumes`

`Volume` is what the plugin promises, with nothing of how: a volume is `wanted`,
`mounted`, `released` or `gone`; a call resolves its `candidate`, the tip of the
branch; until the answer the plugin may `Work` on the target as it likes; `Mount`
asks that the `content` is the candidate, and one that may be mounted; from then
on nobody changes it until `Release`, and `Remove` asks that nothing is left. The
promise is void for a volume that is `spoilt`, another call having written under
it.

`MountVolumes` maps the disk, the calls and the kubelet of `MountPipeline` to
such volumes: `Candidate` is the commit of the call the kubelet waits for; a
target shows a commit once it is read-only and holds all of it, and `Partial`
while it is anything else (`Shown`); a volume is spoilt if another handler has
written to its target, or to the cache key its call reads (`Spoilt`).
`KeepsPromise` maps `spoilt` to nothing, ever: this holds where keys are private
and the kubelet waits for its answers. `KeepsPromiseApart` is the refinement
where calls meet, and is also proved.

### `GitBinary`

`Materialize` of the git backend for one cache key, by concurrent handlers, over
the repository the key keeps on disk.

| Variable | Code |
|---|---|
| `repo` | the directory `repo` (`gitbinary.go:40`): whether `.git` exists, the refspec, the local ref, objects, HEAD, work tree, `shallow.lock` and `index.lock` with their owners |
| `content` | the directory `content` (`gitbinary.go:41`), in two parts: what a copy writes first, and last |
| `volume` | pinned commit, tag or branch, the depth, and whether `revisionKind` contains "tag" |
| `op[h]` | the call of handler `h`: its stage, the tip it has cloned or the commit to check out, the answer of `rev-parse HEAD`, what is in the directory it returns |
| `remote` | tip of the ref on the git server |
| `faults` | deadlines, restarts and failed connections so far |
| `op[h].named`, `op[h].alone` | history: what the ref has named since the call began, whether another call ran meanwhile |

git itself is external. The steps of `git clone`, `fetch` and `checkout` are
those at which another process, or a kill, can see or leave something: the
directory is made (from here on `os.Stat` takes it for a repository), the server
answers, the shallow lock is taken, the objects come; then, in a step of its own
(`CloneSetsHead`), the ref and HEAD, whatever another call has made of HEAD in
between; the index lock is taken, the work tree is written, HEAD moves. A command
that fails takes its locks away, a clone that fails removes its repository; a
killed one (`exec.CommandContext`, or a restart) does neither. What a fetch does to
the local ref depends on kind and flags (`RefAfterFetch`, `TagIsRejected`).

Then `rev-parse HEAD`, `os.RemoveAll` of the content directory (`ClearContent`), the
copy of the work tree in two steps, each into its part of the directory, which must
not have it yet (`O_EXCL`, `CanCopy`), and the return of whatever is there now. The
content directory belongs to the key: a second call clears it under the copy, the
count or the answer of a first, and copies of both may meet in it. A set of files is
the commits they are of, and `None` if some are missing. A copy or count that
overlaps another call may fail at any point (`Trips`). `CopyContentTree` file by file
is `MountPipeline`'s. `Evict` takes the key only between calls: `MountPipeline` has
eviction under a call. Commits are pushed one on top of the other; a commit is a
number. The path of a volume, submodules, the limits (which compare what has been
copied) and the credential of the child process are left out.

### `Policy`

`Evaluate`, `selectPolicy`, `checkRevisionPolicy` and the loader's defaults, as
operators over the records of `types.go`. Strings are told apart by what the code
reads off them: a pattern is the set of values it matches, a revision a record
with the form its prefix gives it, `HostFromRepo` a function of the URL. Which
reason a denial reports is left out, the decision being the conjunction of the
checks.

### `Paths`

Texts are split at their slashes. `Clean` is `path.Clean`, segment by segment;
`AcceptsPath` is `normalizeRepoPath`, `GuardsPath` what the go-git backend checks
again, `AcceptsTarget` is `safeTargetPath`, which compares texts. The reference to check them against
walks instead of cleaning: `Level` counts how far below its start a prefix
leads (the names of it less its `..`), `StaysInside` says that no prefix leads
out, `Reached` keeps the names that no later segment climbs back over.

### `GoGit`

What one `Materialize` of the default backend makes of the attributes and the
refs of the server: the reference name (`MutableRef`, `RefKind`), what the clone
has at its depth (`Cloned`: the branch or tag, or all branches for a pinned commit
and for HEAD in any case, `ClonesAll`; and all tags, which go-git brings by default), the commit (`ResolveHash`), whether it can be
exported (`CanExport`), and the content that then lies in the cache
(`Exported`): commit, directory, and the commit of the submodule, which is HEAD
of the submodule when the linked one lies deeper than its clone (`Module`).
Commits are numbered, and commit c of the repository links commit c of the
submodule. `HeadNames` are the names that `strings.EqualFold` takes for HEAD,
`TagKinds` the revision kinds that contain "tag".

### `Admission`

Composes the two programs that ask the policies, over one pod, with `POST /mount`
beside it.

| Variable | Code |
|---|---|
| `file` | the policy ConfigMap |
| `webhook`, `plugin` | the policies each program loaded at its start (`admission-webhook/main.go:51`, `nodeplugin/main.go:73`); nothing reloads them |
| `pod` | the volumes of the pod, and how it was admitted: by `/validate`, or without the webhook, which is optional |
| `mount[v]` | the code the last `NodePublishVolume` of `v` answered; for OK, the policy, depth and kind of ref that went into it and the content it shows |
| `link` | the symbolic link of `POST /mount`, the cache key it leads to, and what that holds now |
| `server` | refs on the git server, of the repository and of the submodule |

`NodePublishVolume` is one step here, from validation (`WellFormed`, `Parse`)
and evaluation to the content that `GoGit` gives; it may fail before or after it
has touched the content directory (`MaterializeFails`), as an internal error or
as a deadline. The stages of a mount and their interleavings are
`MountPipeline`'s. The cache key (`Key`) has neither the revision kind nor the
depth: every request with the same key, from a pod or from `POST /mount`,
rebuilds what an earlier link leads to (`Rebuild`), and `Evict` takes it away.
`PostMount` checks its target last, when the content is on disk already, and
`NewLink` removes what was at the target before it makes the link. The check is of
the text of the target alone; a target below the link that is there leads through
it, and the request changes the content directory of that link (`LinkInside`), which
counts as broken until it is rebuilt. There is one link at a time: accepted targets
lie one below the other (`TargetAssumption`). Of what `Parse` refuses, a boolean or
`refreshSeconds` that does not parse is left out; both programs refuse it.

### `MountPipelineInv`, the proof modules, and the MC modules

`MountPipelineInv` has the inductive invariant of `MountPipeline`, and
`PrivateKeys`, `PrivateInv` and `CallsAreUnhindered` for the case where no two
calls can meet. `MountPipelineProofs` is about the calls, `MountVolumesProofs`
about the refinement, private keys and the room in the cache; `CacheEvictionProofs`,
`GitBinaryProofs` and `AdmissionProofs` begin with the inductive invariant of
their module. `NaturalSets` (a set of numbers has a least one; induction over a
set of numbers), `EvictionProofs` (what `Bytes` adds up to and `Victims` leaves) and `PathsProofs`
(what `Clean` computes) have what these rest on. The MC modules are the
instances for TLC.

Definitions whose comment begins with "Mutant" are plausible bugs; no definition
uses them. Each property of a passing run is violated when its mutant takes the
place of the definition it mutates (`PROJECT.json`, "mutants").

## Runs

| Run | Question | Bounds |
|---|---|---|
| `MountPrivate` | two volumes with keys of their own, a patient kubelet, a restart: `MountedIsServed`, `GoneStaysGone`, `MountedIsImmutable`, `LeftoversNeverFail`, and the refinement `KeepsPromise` | 2 handlers, 2 targets, 2 keys, 2 files, 2 commits, the second over the limits, 1 restart |
| `MountShared` | a cache for one key of the two, that ages, and one deadline missed: `IsolatedMountIsServed`, `EvictMakesRoom` (keys that others change during the walk apart), and the refinement `KeepsPromiseApart` | 2 handlers, 2 targets, 2 keys, 1 file and the metadata, 1 commit |
| `MountLive` | `EveryCallReturns`, `WantedIsMounted`, `ReleasedIsGone` | 2 handlers, 1 target, 1 deadline missed, 1 restart |
| `CacheEvict` | two evictors among rebuilds and reuses: `AloneRemovesVictims`, `UnchangedFits`, `EvictorsSpareWhatFits` | 3 keys of size 1 or 2, limit 3, 3 instants, age limit 1, 1 reuse |
| `GitRepo` | two calls over one repository: `PinnedServesNoOther`, `IsolatedIsFresh`, `ServedUnlessWedged` | 2 handlers, tags with and without `revisionKind: tag`, pinned commits, depths 1 and 2, 2 commits, 1 fault |
| `AdmitAndMount` | webhook, plugin and `POST /mount` over one pod: `AdmittedIsNotRefused`, `PinnedServesNamed`, `BranchIsAllowed`, `DepthIsLimited`, `PathIsWalked`, `ModuleIsLinked`, `LinkShowsNamed` | 48 pods whose volumes differ from an allowed one in an attribute or two, 2 policy files, 2 namespaces, 2 commits per ref, 4 posts, one link followed, 1 edit |
| `MountSameKey` | violated: `MetadataTellsContent` | 2 pods with the same attributes, 2 commits, nothing fails |
| `MountDeadline` | violated: `MountedIsImmutable` | 1 volume, 1 deadline missed |
| `MountDefaultChart` | violated: `ReleasedIsGone` | 1 volume, no capability |
| `CacheLimit` | violated: `FitsAfterEvict` | as `CacheEvict` |
| `GitBranch` | violated: `IsolatedIsFresh` | 1 handler, a branch, 2 commits, nothing fails |
| `GitTagKind` | violated: `RestartIsServed` | 1 handler, a tag, `revisionKind: tag`, 2 commits, nothing fails |

Why the bounds are enough: two handlers are the least that interleave, and with
one deadline missed they are a zombie publish and its retry; two files and the
metadata separate the first, a middle and the last step of every walk; two
commits are what a mixture needs (`MountShared`, whose question is eviction
under running calls and a zombie publish, has one commit and one file: no two
volumes share a key in it, its properties speak of volumes whose publish no
other call overlapped, and what a call finds of an older commit is in
`MountPrivate`); three keys give eviction an oldest, a middle and a youngest,
one of which may have expired. In `GitRepo` two commits are one more than the
lesser depth, so that a pinned commit can fall out of the clone, and not more than
the greater, so that it can be fetched beside the tip; one fault (`MaxFaults`
counts deadlines, restarts and failed connections together) is a killed command,
whose leftovers the calls after it meet. The safety properties are theorems for any number of calls,
commits and faults. In `AdmitAndMount` every check of
`Evaluate`, but that of the host, refuses a volume by itself, and one edit with
restarts at any time gives the two programs different policies. Its paths climb
back, climb out by one, start absolute, name `.git` and a directory that is not
there, which are the cases of `Clean`; the depth limit of one submodule policy
is 1 by default and of another 2, so that with two commits the linked one does
and does not come with the clone; a link is one at a time, to a directory of a
pinned commit, with a target below the root, at it, outside, or below another
target; volumes of another depth and revision kind share its key (`LinkShowsNamed`
is about every later rebuild of it). Two tags are called HEAD, in either case of
the letters. The two volumes of `MountPrivate` and
`MountShared` are alike, each with a key of its own, and exchanging them, target
and key together, is a symmetry (`SymmetricVolumes`), as exchanging the handlers
is. One reuse (`MaxReuses`) in `CacheEvict` is one directory whose size changes
while its age does not. The theorems below need no bound.

`MountShared` has `MaxSize` equal to one repository, so that every second
publish evicts the other key, running or not. A cache smaller than a repository
evicts it before every publish, and nothing is ever mounted.

Fairness (`MountLive`): goroutines run (weak fairness of each handler's steps);
the clone of a call ends (weak fairness of its two outcomes) and a git server
that is asked again and again answers now and then (strong fairness of
success); the kubelet calls again while a volume is wanted or released (weak
fairness, per target: reconciliation). Pod deletion, pushes, deadlines and
crashes are under no fairness, and bounded. Fairness of `GitBinary` is the same:
a call runs (weak fairness of each handler's steps and errors) and calls keep
coming while none runs (weak fairness of `Begin`). Evictions are not fair: a
node may never mount another key. `ServedUnlessWedged` therefore excepts, by
name, the states of a repository at rest that only an eviction repairs (`Wedged`:
a lock left behind, a clone without the ref or the pinned commit, an index between
two commits, a tag git refuses to move), and calls that overlap for ever
(`Crowded`), which may take each other's repository and locks away for ever.

## What the violated runs show

* `MountSameKey`: a push between two publishes of the same attributes gives a
  pod files of one commit under the `resolved-revision` of another
  (`gogit.go:119`, key at `main.go:281`), against `docs/rfc.md:881`.
* `MountDeadline`: a publish past its deadline rewrites the target its retry has
  mounted (`publish.go:11`), against `docs/rfc.md:469`.
* `MountDefaultChart`: as UID 0 without `CAP_DAC_OVERRIDE`, which the chart
  drops, the plugin cannot unlink in the 0555 directories it has published
  (`publish.go:21`), against `docs/implementation.md:64`.
* `CacheLimit`: an expired key is subtracted twice (`cache.go:81`, `cache.go:98`)
  and the cache stays above its limit, against `docs/rfc.md:905`.
* `GitBranch`: with the git backend a fetch leaves the local branch where the
  clone put it, and `rev-parse` (`gitbinary.go:194`) resolves that one: a
  restarted workload gets the old commit, against `README.md:127`.
* `GitTagKind`: with the git backend `revisionKind: tag` adds `--tags`
  (`gitbinary.go:168`), and git refuses to move a tag it has: every publish
  after the tag moved fails, against `README.md:127`.

## Proofs

`MountPipelineProofs`, for every number of handlers, targets, keys, files, commits,
deadlines and restarts, any limits and cache size, with or without the capability:

* `TypeCorrect`: `Spec => []TypeOK`.
* `IsolatedMounts`: `Spec => []IsolatedMountIsServed`. A volume whose publish no
  other call overlapped is served, through any crash, leftover, deadline,
  retry and eviction of other keys, and as long as nobody writes to its target.

Both follow from the inductive invariant `IInv` (`Invariance`).
`IsolatedMountIsServed` alone is not inductive: that the target is whole at the
answer rests on what the copy has done so far (`TargetStage`), this on the
content directory being whole until the copy ends (`ContentStage`), this on the
export having gone through the names from an empty directory; that a missing
directory has no files (`MissingIsEmpty`); that a call is shaped as its stage
needs, and has no commit before its clone (`WellFormed`); and that the call the
kubelet waits for is one that does what it wants (`CallerIsPending`). The
argument for a step: the handler that moves keeps its own stage
(`OwnContentSteps`, `OwnRemovalSteps`, `OwnPublishSteps`); a change to a
directory tree marks everybody who uses that tree as overlapped
(`ChangesAreTouches`), so that a handler which is not marked finds its two trees
as they were (`OthersStayIsolated`).

`MountVolumesProofs`:

* `VolumesImplemented`: `Spec => KeepsPromiseApart`. The plugin implements the
  abstract volumes: initial states map to an initial state (`StartsAsVolume`),
  every step to a step of `Volume` or a stutter (`StepsAsVolume`).

A step of a handler maps to `Work` (`HandlersWork`), but for three: the clone is
`Resolve` (`CloneResolves`), an error is `Fail` (`ErrorFails`), and the answer OK
is `Mount` or `Remove` (`AnswerSettles`). A call begins as a stutter
(`CallBegins`), a pod's deletion is `Release` (`PodReleases`), a missed deadline
and a restart are `Fail` (`AbandonFails`, `CrashFails`). `Mount` is where the
invariant is needed: that the content is the candidate is `IInv` about the call
that answers. `Remove` needs that the target is gone (`TargetIsRemoved`), whose
invariance is proved beside `IInv` (`RemovalInvariance`). `Work` needs that a
handler that writes to a target another volume has mounted marks that volume as
spoilt (`ShownFrame`, `ShownStays`), and that at most one commit is whole in a
target (`WholeIsOne`), which makes the choice in `Shown` a function.

The theorems of the same module about private keys hold wherever `PrivateKeys`
does: every volume has a cache key of its own, the cache has room for all of
them (`Cardinality(Keys) * (NumFiles + 1) <= MaxSize`, no key expires), and the
kubelet waits for its answers (`MaxTimeouts = 0`); restarts are as many as one
likes. `MountPrivate` is an instance of it.

* `PrivateMountsServed`: `Spec => []MountedIsServed`; `PrivateGone`:
  `Spec => []GoneStaysGone`; `PrivateMountsKept`: `Spec => MountedIsImmutable`.
* `PromiseKept`: `Spec => KeepsPromise`, the refinement of `Volume` with no volume
  ever spoilt.
* `LeftoversHarmless`: `Spec => LeftoversNeverFail`, if the process can write what
  it has made read-only besides.

They follow from `PrivateInv` (`PrivateStep`): every call is one the kubelet waits
for, so that two calls have different targets, hence different keys
(`CallsAreApart`); nothing is evicted, since sizes bounded by a repository add up
to no more than the limit (`NoVictims`); so a call touches its own directories
only (`TouchesOwn`), and overlaps nobody. Then `IInv`, which speaks of calls that
are not overlapped, speaks of all of them. `LeftoversHarmless` needs in addition
that a removal knows every name in the directory it has open and that what a call
has made in the content directory stays (`CallsAreUnhindered`).

* `RoomIsMade`: `Spec => EvictMakesRoom`, for any finite set of keys, shared or
  private. `VictimsMakeRoom` gives it for one `EvictScan`, if the ages on disk are a
  strict order then (`AgesAreOrdered`); what `dirInfo` finds of the keys nobody
disturbs is what they have, and the others count for nothing in the claim. The ages
are in order at every step (`OrderStep`): a key
  that is made again is younger than all others (`MkdirOrders`), and no other step
  changes an age. That the keys are finitely many is assumed because the size of an
  infinite cache is not a number; a directory on disk has finitely many entries.

`CacheEvictionProofs`, about any number of evictors, directories, sizes and
instants, is all that the run `CacheEvict` checks: `TypeCorrect`, `RemovesVictims`
(`AloneRemovesVictims`: the three loops, uncrossed, remove the set `Victims`),
`LeavesWhatFits` (`UnchangedFits`) and `SpareWhatFits` (`EvictorsSpareWhatFits`).
`UnchangedFits` is what remains of the promise that `CacheLimit` refutes: the
excess is at most the sizes of the expired directories this Evict has measured,
which the total loses twice, however many others evict, rebuild and reuse
meanwhile; nothing expired, no excess.
The invariant (`IInv`, one `CallInv` per evictor) says what `total` is worth in
each loop: the sizes of the fresh items, less those of the items the size loop
has passed (`TotalIsCounted`); that what nobody has renewed is as it was found or
gone (`UnrenewedIsFoundOrGone`), whoever removed it; that no directory grows older
(`NothingAges`) and no two are equally old (`AgesDiffer`); and, for an Evict that
nobody has crossed, that it has removed just what is too old and what it has
passed (`AloneIsOnTrack`). Sums are folds over sets. That such a fold exists for every
finite set is `FoldExists`, by induction over the sizes of subsets, stated for a
set of numbers (`SetInduction`) instead of an operator; that the order of the
elements does not matter, that more directories never have less, and how much
they have at most, are `BytesTake`, `BytesMonotone` and `BytesBound`.

`EvictionProofs` also has what the set `Victims` is worth by itself, for any order
of age: `VictimsMakeRoom` (what stays is within the limit and the expired sizes;
the oldest directory that stays is the one at which the loop stopped, and
`OldestExists` finds it) and `VictimsDoNotFit` (nothing goes for its size that fits
beside those no older).

`GitBinaryProofs`, about any number of handlers, commits and faults and any depths:

* `TypeCorrect`: `Spec => []TypeOK`.
* `PinnedNoOther`: `Spec => []PinnedServesNoOther`. What is returned for a pinned
  commit has no file of another, whoever shares the repository and the content
  directory and whatever was killed there. It does not say that all files are there,
  nor that the call is told the pinned commit: when calls overlap, neither holds.
* `IsolatedFresh`: a call that no other overlapped serves one whole commit under its
  own name, the pinned one or one its tag named (`IsolatedIsFresh`, of every volume
  that is not a branch, for which it is false, see `GitBranch`).

The invariant: one call at most clones, and the repository is its own until the refs
are there (`ClonesAreAlone`); a repository without refspec has no ref
(`RefIsTracked`); no file of another commit is in the work tree, the content
directory or an answer of a pinned volume, and nothing else is about to be checked
out (`PinnedCalls`); and, for a pinned commit or a tag with nobody else running, what
each stage has made of the repository and of the content directory (`AloneStage`).

`PathsProofs`, about paths of any length: `CleanIsReached` (`path.Clean` of a path
that stays inside, or is absolute, is the walk `Reached`), `AcceptedIsReached`
(what `normalizeRepoPath` accepts stays inside, is what the walk reaches, and
passes the guard of the backend when it is cleaned again) and `TargetIsBelowRoot`
(what `safeTargetPath` accepts lies strictly below the root). `Clean` is a fold
over the segments: `CleanBuilds` gives the names it has after each of them, by
the same kind of induction. Those names are the ones among the first n segments that no
later one climbs back over, in the order of their levels (`Follows`); a relative
path that has left its start shows `..` first for good (`Left`); and there is one
sequence of these names only, since levels are a bijection between them and
1..n (`FollowsReached`).

`AdmissionProofs`, about any policies, attributes, refs, posts and edits, is all
that the run `AdmitAndMount` checks: `TypeCorrect`, `NotRefused`, `PinnedNamed`,
`BranchAllowed`, `DepthLimited`, `PathWalked`, `ModuleLinked`, `LinkNamed`.
`OthersDoNotDecide` is about `selectPolicy` and every list of
policies: one that does not match a request, or comes behind one that does, can be
put in or taken out and `Evaluate` answers the same, defaults applied; so the order
of the list matters only among the policies that match. The invariant: the submodule is pushed first (`ModuleIsFirst`); an
admitted pod was allowed by the policies that are remembered (`PodIsReviewed`); a
refusal has the reason its code tells (`RefusalHasReason`); what is mounted was
permitted by a policy that was loaded then, and shows what its attributes name
(`MountIsPermitted`); the link has the key of the request it was made for
(`LinkIsKeyed`), so that whatever rebuilds that key later shows the same
directory, and the same pinned commit. `NotRefused` assumes `PodInfoOnMount`, that
the kubelet tells the namespace of the pod, as the chart's CSIDriver object has
it; without it a policy that names namespaces refuses what the webhook has
admitted.

Assumptions, all of them `ASSUME`s that TLC evaluates in the runs: keys, targets
and handlers are distinct values, `Nothing` is none of them, every target has a
key, the bounds are numbers (`MountPipeline`); a directory's name is a number, and
there are finitely many (`CacheEviction`); lock owners are told apart
(`GitBinary`); policies, attributes and posts have the types of the code, and the
targets of posts lie one below the other (`Admission`); HEAD is among the names that
are HEAD, and "tag" among the kinds that contain it (`GoGit`).

Two proof attempts changed the model. A ref whose name is empty once its prefix is
taken off is no valid revision (`ValidRevision`, `attributes.go:141`); without that,
`tag:` would clone the default branch. And `BranchIsAllowed` has an exception: a tag
whose name is HEAD, in any case of its letters (`tag:head`, `refs/tags/HEAD`), is
checked as a tag, but the name selects the default branch (`strings.EqualFold`,
`gogit.go:71`), so that a policy which allows tags and no branches lets a volume
follow a branch. The exception contradicts `docs/implementation.md:23`, which has
`allowBranches` enforced: it is a disagreement of code and document that has no run
of its own. `MCAdmission` has volumes with such revisions; without the exception TLC
finds one mounted, and the theorem says that there is no other.

Only model-checked: the liveness properties (`EveryCallReturns`, `WantedIsMounted`,
`ReleasedIsGone`, `ServedUnlessWedged`), which like all liveness under fairness,
and ENABLED, are out of the prover's reach. Every other property of a passing run
is a theorem; where it needs more than the `ASSUME`s, the theorem says what.

## Not modelled

* Metrics and event names: nobody reads them back, no state depends on them.
* The Helm chart, the Dockerfiles and the e2e fixture: configuration. The two
  facts the programs depend on are constants, `CanWriteReadOnly` and
  `PodInfoOnMount`.
* Which texts are URLs and safe ref names, character by character: a given set
  (`RemoteRepos`), and a form of the revision (`unsafe`).
* `safeJoin`, which the names in git trees always pass, and the check of symbolic
  link targets: a repository's symbolic links are files here.
* chown: it changes owners that no property tells apart. A call that fails there
  leaves an exported content directory, as one that a limit or a restart ends does.
* Submodules, limits and the child's credential in the git backend. A submodule's
  work tree in the repository on disk outlives the checkout of a revision without
  it (`gitbinary.go:56`); to say what is then copied, the work tree would have to
  be modelled by its files, whose removal is git's.
* A policy file that does not parse: the program does not start.
* Two links of `POST /mount` at a time, and a target that is above, at or below the
  directory of a published volume. That a link is made below the root of the targets
  is not claimed: `safeTargetPath` compares texts, which `TargetIsBelowRoot` is about,
  and `os.MkdirAll`, `os.RemoveAll` and `os.Symlink` follow an earlier link.
* The Identity service, `NodeGetCapabilities` and `NodeGetInfo`, which answer
  constants.

## Plan

What exists: all modules above; every safety property, action property and
refinement that a passing run checks is a theorem. What could be added: `GitBinary`
with a submodule, the work tree given by its files, so that the leftover of a
submodule (`gitbinary.go:56`) can be stated.
