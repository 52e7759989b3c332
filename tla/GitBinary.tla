------------------------------- MODULE GitBinary -------------------------------
(***************************************************************************)
(* The git binary materializer: concurrent calls of Materialize for one    *)
(* cache key, over the repository and the content directory that the key   *)
(* keeps on disk from call to call.                                        *)
(*                                                                         *)
(* A call clones the repository if there is none, fetches if the revision  *)
(* may move, checks the revision out, removes the content directory and    *)
(* copies the work tree there.  Every git command is a process that a      *)
(* deadline, or a restart of the plugin, kills where it is; git's lock     *)
(* files outlive the process.                                              *)
(***************************************************************************)
EXTENDS Integers

CONSTANTS
  Handlers,       \* concurrent calls
  Kinds,          \* what revisions may name: "branch", "tag", "commit"
  TagFlags,       \* whether revisionKind may contain "tag"
  Depths,         \* clone depths that volumes ask for
  MaxCommit,      \* bound: commits pushed to the ref, one on top of the other
  MaxFaults,      \* bound: deadlines, restarts and failing connections
  Free, Orphan    \* a lock file that is not there, or whose owner is dead

ASSUME KindAssumption   == /\ Kinds \subseteq {"branch", "tag", "commit"}
                           /\ TagFlags \subseteq BOOLEAN
ASSUME NumberAssumption == /\ Depths \subseteq Nat \ {0}
                           /\ MaxCommit \in Nat \ {0}
                           /\ MaxFaults \in Nat
ASSUME OwnerAssumption  == Free # Orphan /\ Handlers \cap {Free, Orphan} = {}

Commits == 1..MaxCommit
None    == 0          \* no commit: an absent ref, a missing file
Pinned  == 1          \* the commit a revision of kind "commit" names

\* A set of files is the commits whose files it has, and None if some are missing.
Files   == SUBSET (Commits \cup {None})
NoFiles == {None}

VARIABLES
  remote,   \* tip of the ref on the git server (of the default branch, if pinned)
  volume,   \* the attributes of the key's volumes
  repo,     \* the directory "repo" of the cache key
  content,  \* the directory "content" of it: what a copy writes first, and last
  op,       \* op[h]: the call handler h is executing
  faults    \* deadlines, restarts and failed connections so far

vars == <<remote, volume, repo, content, op, faults>>

Repo == [made    : BOOLEAN,                             \* repo/.git exists
         tracked : BOOLEAN,                             \* remote.origin.fetch is configured
         ref     : Commits \cup {None},                 \* local branch or tag
         have    : SUBSET Commits,                      \* objects
         head    : Commits \cup {None},
         tree    : Files,                               \* work tree and index
         shallow : Handlers \cup {Free, Orphan},        \* shallow.lock
         index   : Handlers \cup {Free, Orphan}]        \* index.lock

Absent == [made |-> FALSE, tracked |-> FALSE, ref |-> None, have |-> {}, head |-> None,
           tree |-> NoFiles, shallow |-> Free, index |-> Free]

\* The content directory, in two parts.
Content   == [1..2 -> Files]
NoContent == [i \in 1..2 |-> NoFiles]

\* "served" is a call that has returned a result; a call that failed is idle.
Stages == {"idle", "clone", "connect", "receive", "receiving", "install", "populate",
           "populating", "fetch", "fetching", "resolve", "checkout", "switching", "move",
           "head", "clear", "copy", "copying", "count", "served"}

Call == [pc       : Stages,
         sha      : Commits \cup {None},         \* tip that was cloned, commit to check out
         resolved : Commits \cup {None},         \* answer of rev-parse HEAD
         copied   : Content,                     \* what is in the directory it returns
         named    : SUBSET Commits,              \* history: what the ref has named meanwhile
         alone    : BOOLEAN]                     \* history: no other call ran meanwhile

Idle == [pc |-> "idle", sha |-> None, resolved |-> None, copied |-> NoContent,
         named |-> {}, alone |-> TRUE]

Volumes == [kind : Kinds, withTags : TagFlags, depth : Depths]

TypeOK ==
  /\ remote \in Commits
  /\ volume \in Volumes
  /\ repo \in Repo
  /\ content \in Content
  /\ op \in [Handlers -> Call]
  /\ faults \in 0..MaxFaults

Init ==
  /\ remote = 1
  /\ volume \in Volumes
  /\ repo = Absent
  /\ content = NoContent
  /\ op = [h \in Handlers |-> Idle]
  /\ faults = 0

IsPinned  == volume.kind = "commit"
Active(h) == op[h].pc \notin {"idle", "served"}
AtRest    == \A h \in Handlers : ~Active(h)

\* h goes on to stage pc; h returns an error.
Goto(h, pc) == op' = [op EXCEPT ![h].pc = pc]
Error(h)    == op' = [op EXCEPT ![h] = Idle]

-----------------------------------------------------------------------------
(* Materialize, up to git clone or git fetch. *)

\* Mutant: a repository on disk is used as it is.
CachedCloneOrRefresh ==
  IF ~repo.made THEN "clone" ELSE IF IsPinned THEN "checkout" ELSE "resolve"

\* Mutant: os.Stat looks at the directory that MkdirAll has just made.
StatsWorkDir == IF IsPinned THEN "checkout" ELSE "fetch"

\* cloneOrRefresh: os.Stat of repo/.git decides between a clone and the
\* repository on disk, which is fetched into only if the revision may move.
CloneOrRefresh ==
  IF ~repo.made THEN "clone" ELSE IF IsPinned THEN "checkout" ELSE "fetch"

\* The call begins, with MkdirAll and cloneOrRefresh's decision.
Begin(h) ==
  /\ ~Active(h)
  /\ LET others == {g \in Handlers \ {h} : Active(g)}
         start  == [Idle EXCEPT !.pc    = CloneOrRefresh,
                                !.sha   = IF IsPinned THEN Pinned ELSE None,
                                !.named = {remote},
                                !.alone = (others = {})]
     IN  op' = [g \in Handlers |-> IF g = h THEN start
                                   ELSE IF g \in others THEN [op[g] EXCEPT !.alone = FALSE]
                                   ELSE op[g]]
  /\ UNCHANGED <<remote, volume, repo, content, faults>>

\* git clone makes .git, asks the server for its refs, and writes the refspec.
CloneMakes(h) ==
  /\ op[h].pc = "clone" /\ ~repo.made
  /\ repo' = [Absent EXCEPT !.made = TRUE]
  /\ Goto(h, "connect")

CloneConnects(h) ==
  /\ op[h].pc = "connect" /\ repo.made
  /\ repo' = [repo EXCEPT !.tracked = TRUE]
  /\ Goto(h, "receive")

CloneLocks(h) ==
  /\ op[h].pc = "receive" /\ repo.made /\ repo.shallow = Free
  /\ repo' = [repo EXCEPT !.shallow = h]
  /\ Goto(h, "receiving")

\* Mutant: the depth counts one commit too many, to before the first.
OverdeepReceives(h) ==
  /\ op[h].pc = "receiving" /\ repo.shallow = h
  /\ repo' = [repo EXCEPT !.shallow = Free, !.have = (remote - volume.depth)..remote]
  /\ op' = [op EXCEPT ![h].pc = "install", ![h].sha = remote]

\* The objects have come: as many of the last commits of the one ref as
\* the depth allows.
CloneReceives(h) ==
  /\ op[h].pc = "receiving" /\ repo.shallow = h
  /\ repo' = [repo EXCEPT !.shallow = Free,
                          !.have = {c \in Commits : remote - volume.depth < c /\ c <= remote}]
  /\ op' = [op EXCEPT ![h].pc = "install", ![h].sha = remote]

\* Mutant: no --no-checkout; the tip is checked out before the pinned commit is.
ClonePopulates(h) ==
  /\ op[h].pc = "install" /\ repo.made
  /\ repo' = [repo EXCEPT !.ref = op[h].sha, !.head = op[h].sha, !.tree = {op[h].sha}]
  /\ op' = [op EXCEPT ![h].pc  = IF IsPinned THEN "checkout" ELSE "populate",
                      ![h].sha = IF IsPinned THEN Pinned ELSE @]

\* The ref becomes a local branch or tag, and HEAD, whatever another call has made
\* of HEAD since.  --no-checkout stops here.
CloneSetsHead(h) ==
  /\ op[h].pc = "install" /\ repo.made
  /\ repo' = [repo EXCEPT !.ref = op[h].sha, !.head = op[h].sha]
  /\ op' = [op EXCEPT ![h].pc  = IF IsPinned THEN "checkout" ELSE "populate",
                      ![h].sha = IF IsPinned THEN Pinned ELSE @]

FetchLocks(h) ==
  /\ op[h].pc = "fetch" /\ repo.made /\ repo.shallow = Free
  /\ repo' = [repo EXCEPT !.shallow = h]
  /\ Goto(h, "fetching")

\* --tags creates the tag, and refuses to move one that exists.  Without it
\* the refspec of the clone moves the tag.  A branch moves under refs/remotes:
\* the local branch stays where the clone put it.
TagIsRejected == volume.kind = "tag" /\ volume.withTags /\ repo.ref \notin {None, remote}
RefAfterFetch ==
  IF volume.kind = "tag" /\ (IF volume.withTags THEN repo.ref = None ELSE repo.tracked)
  THEN remote ELSE repo.ref

FetchReceives(h) ==
  /\ op[h].pc = "fetching" /\ repo.shallow = h
  /\ repo' = [repo EXCEPT !.have = @ \cup {remote}, !.ref = RefAfterFetch, !.shallow = Free]
  /\ IF TagIsRejected THEN Error(h) ELSE Goto(h, "resolve")

-----------------------------------------------------------------------------
(* checkoutRevision, and the checkout that ends a clone. *)

\* rev-parse of the ref's name: the local branch or tag.
Resolve(h) ==
  /\ op[h].pc = "resolve" /\ repo.ref # None
  /\ op' = [op EXCEPT ![h].pc = "checkout", ![h].sha = repo.ref]
  /\ UNCHANGED repo

\* git checkout wants the object, the lock, and an index that is not there yet or
\* that of HEAD or of the commit asked for.
CanCheckOut(h) ==
  /\ repo.made
  /\ repo.index = Free
  /\ op[h].sha \in repo.have
  /\ repo.tree \in {NoFiles, {repo.head}, {op[h].sha}}

LockIndex(h) ==
  /\ op[h].pc \in {"populate", "checkout"}
  /\ CanCheckOut(h)
  /\ repo' = [repo EXCEPT !.index = h,
                          !.tree  = IF @ = {op[h].sha} THEN @ ELSE @ \cup {op[h].sha, None}]
  /\ Goto(h, IF op[h].pc = "populate" THEN "populating" ELSE "switching")

WriteTree(h) ==
  /\ op[h].pc \in {"populating", "switching"} /\ repo.index = h
  /\ repo' = [repo EXCEPT !.index = Free, !.tree = {op[h].sha}]
  /\ Goto(h, IF op[h].pc = "populating" THEN "resolve" ELSE "move")

\* HEAD is detached at the commit.
MoveHead(h) ==
  /\ op[h].pc = "move" /\ repo.made
  /\ repo' = [repo EXCEPT !.head = op[h].sha]
  /\ Goto(h, "head")

-----------------------------------------------------------------------------
(* The rest of Materialize. *)

ReadHead(h) ==
  /\ op[h].pc = "head" /\ repo.head # None
  /\ op' = [op EXCEPT ![h].pc = "clear", ![h].resolved = repo.head]
  /\ UNCHANGED repo

\* os.RemoveAll of the content directory, whoever copies there or has been told it.
ClearContent(h) ==
  /\ op[h].pc = "clear" /\ repo.made
  /\ content' = NoContent
  /\ Goto(h, "copy")
  /\ UNCHANGED repo

\* CopyContentTree: no file may be there already (O_EXCL).
CanCopy(i) == None \in content[i] \/ repo.tree = NoFiles

CopyPart(i) == content' = [content EXCEPT ![i] = (@ \ {None}) \cup repo.tree]

CopyBegins(h) ==
  /\ op[h].pc = "copy" /\ repo.made /\ CanCopy(1)
  /\ CopyPart(1)
  /\ Goto(h, "copying")
  /\ UNCHANGED repo

CopyEnds(h) ==
  /\ op[h].pc = "copying" /\ repo.made /\ CanCopy(2)
  /\ CopyPart(2)
  /\ Goto(h, "count")
  /\ UNCHANGED repo

\* The files are counted where they are now.
Return(h) ==
  /\ op[h].pc = "count"
  /\ op' = [op EXCEPT ![h].pc = "served", ![h].copied = content]
  /\ UNCHANGED <<repo, content>>

-----------------------------------------------------------------------------
(* Failure. *)

\* What stops a step of h: a directory that is in the way or gone, a lock, a
\* ref or an object that is not there, a file that is.
Blocked(h) ==
  \/ op[h].pc = "clone" /\ repo.made
  \/ Active(h) /\ op[h].pc \notin {"clone", "count"} /\ ~repo.made
  \/ op[h].pc \in {"receive", "fetch"} /\ repo.shallow # Free
  \/ op[h].pc \in {"receiving", "fetching"} /\ repo.shallow # h
  \/ op[h].pc = "resolve" /\ repo.ref = None
  \/ op[h].pc \in {"populate", "checkout"} /\ ~CanCheckOut(h)
  \/ op[h].pc \in {"populating", "switching"} /\ repo.index # h
  \/ op[h].pc = "head" /\ repo.head = None
  \/ op[h].pc = "copy" /\ ~CanCopy(1)
  \/ op[h].pc = "copying" /\ ~CanCopy(2)

\* The server refuses, or the connection breaks.
Disconnects(h) ==
  /\ op[h].pc \in {"connect", "receiving", "fetching"}
  /\ faults < MaxFaults
  /\ faults' = faults + 1

\* A copy, and the count of its files, may fail on a work tree or a content
\* directory that another call is changing.
Trips(h) == op[h].pc \in {"copy", "copying", "count"} /\ ~op[h].alone

\* A command that fails takes its lock away, and a clone that fails before it
\* has everything removes the repository.
Fail(h) ==
  /\ \/ Disconnects(h)
     \/ (Blocked(h) \/ Trips(h)) /\ UNCHANGED faults
  /\ repo' = IF op[h].pc \in {"connect", "receive", "receiving"} THEN Absent
             ELSE [repo EXCEPT !.shallow = IF @ = h THEN Free ELSE @,
                               !.index   = IF @ = h THEN Free ELSE @]
  /\ Error(h)
  /\ UNCHANGED <<remote, volume, content>>

\* A killed process leaves its lock files.
Orphaned(dead) ==
  [repo EXCEPT !.shallow = IF @ \in dead THEN Orphan ELSE @,
               !.index   = IF @ \in dead THEN Orphan ELSE @]

\* The policy's timeout or the kubelet's deadline: exec.CommandContext kills
\* the command.  Nothing looks at the context after the last of them.
Deadline(h) ==
  /\ Active(h) /\ op[h].pc \notin {"clear", "copy", "copying", "count"}
  /\ faults < MaxFaults
  /\ faults' = faults + 1
  /\ repo' = Orphaned({h})
  /\ Error(h)
  /\ UNCHANGED <<remote, volume, content>>

\* The container restarts: every process dies.
Crash ==
  /\ faults < MaxFaults
  /\ faults' = faults + 1
  /\ repo' = Orphaned(Handlers)
  /\ op' = [h \in Handlers |-> Idle]
  /\ UNCHANGED <<remote, volume, content>>

-----------------------------------------------------------------------------
(* The world. *)

\* Somebody pushes, or moves the tag.
Push ==
  /\ remote < MaxCommit
  /\ remote' = remote + 1
  /\ op' = [h \in Handlers |->
              IF Active(h) THEN [op[h] EXCEPT !.named = @ \cup {remote'}] ELSE op[h]]
  /\ UNCHANGED <<volume, repo, content, faults>>

\* Manager.Evict, called for another key, removes the key while no call uses it.
Evict ==
  /\ repo.made /\ AtRest
  /\ repo' = Absent
  /\ content' = NoContent
  /\ UNCHANGED <<remote, volume, op, faults>>

\* The git commands.
Command(h) ==
  \/ CloneMakes(h) \/ CloneConnects(h) \/ CloneLocks(h) \/ CloneReceives(h)
  \/ CloneSetsHead(h)
  \/ FetchLocks(h) \/ FetchReceives(h)
  \/ Resolve(h) \/ LockIndex(h) \/ WriteTree(h) \/ MoveHead(h) \/ ReadHead(h)

Step(h) ==
  /\ \/ Command(h) /\ UNCHANGED content
     \/ ClearContent(h) \/ CopyBegins(h) \/ CopyEnds(h) \/ Return(h)
  /\ UNCHANGED <<remote, volume, faults>>

Next ==
  \/ \E h \in Handlers : Begin(h) \/ Step(h) \/ Fail(h) \/ Deadline(h)
  \/ Crash
  \/ Push
  \/ Evict

Spec == Init /\ [][Next]_vars

\* Calls run; pods that want the volume, or the kubelet's retries, keep coming.
Fairness == /\ WF_vars(\E h \in Handlers : Begin(h))
            /\ \A h \in Handlers : WF_vars(Step(h) \/ Fail(h))

FairSpec == Spec /\ Fairness

-----------------------------------------------------------------------------
(* What the materializer owes its callers. *)

Served(h) == op[h].pc = "served"

\* However many calls share the key, what is returned for a pinned commit has no
\* file of another: nothing is checked out but that commit, though the clone is of
\* the default branch.  Files may be missing, removed by another call, and the
\* revision that is told may be the tip of the clone, which sets HEAD late.
PinnedServesNoOther ==
  \A h \in Handlers :
    IsPinned /\ Served(h) => \A i \in 1..2 : op[h].copied[i] \subseteq {Pinned, None}

\* A call that no other overlapped serves one whole commit under its own name:
\* the pinned one, or one that the branch or tag named while the call ran
\* ("resolved when the Pod starts"), from whatever earlier calls left on disk.
IsolatedIsFresh ==
  \A h \in Handlers :
    Served(h) /\ op[h].alone =>
      /\ op[h].resolved \in IF IsPinned THEN {Pinned} ELSE op[h].named
      /\ \A i \in 1..2 : op[h].copied[i] = {op[h].resolved}

\* What no retry repairs.  A killed command has left a lock; it has left a clone
\* without the ref, or without the pinned commit, which may also be too deep; it has
\* changed the index from one commit to another when HEAD and the revision are
\* neither any more; or the tag is there, and git refuses to move it.
Wedged ==
  /\ AtRest /\ repo.made
  /\ \/ repo.index = Orphan \/ (repo.shallow = Orphan /\ ~IsPinned)
     \/ IsPinned /\ Pinned \notin repo.have
     \/ ~IsPinned /\ (RefAfterFetch = None \/ TagIsRejected)
     \/ repo.tree \notin {NoFiles, {repo.head}, {IF IsPinned THEN Pinned ELSE RefAfterFetch}}

Crowded == \E g, h \in Handlers : g # h /\ Active(g) /\ Active(h)

\* Volumes are served again and again, by retries and restarts, from whatever
\* failed calls, concurrent calls and evictions leave, unless the repository is
\* left wedged or calls overlap for ever (a fetch into a half-made clone takes the
\* clone's lock, and the clone that fails removes the fetch's repository).
ServedUnlessWedged == []<>((\E h \in Handlers : Served(h)) \/ Wedged \/ Crowded)

\* Branches and tags are resolved when a pod starts, so that restarting the
\* workload fetches newer content: it does not fail for good.
RestartIsServed == []<>(\E h \in Handlers : Served(h))
=============================================================================
