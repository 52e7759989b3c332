----------------------------- MODULE MountPipeline -----------------------------
(***************************************************************************)
(* The node plugin of gitrepo-csi-driver: concurrent NodePublishVolume and *)
(* NodeUnpublishVolume handlers of one node, over the cache directory and  *)
(* the target directories they share, with the go-git materializer (the    *)
(* default backend).                                                       *)
(*                                                                         *)
(* A publish clones the repository in memory, rebuilds the content         *)
(* directory of its cache key, writes the .gitcontent metadata into it,    *)
(* evicts old cache keys, and copies the content into the target, which it *)
(* makes read-only.  No step takes a lock: the handlers meet only on disk. *)
(***************************************************************************)
EXTENDS Eviction

CONSTANTS
  Handlers,          \* concurrent RPC goroutines
  Targets,           \* target paths, one per volume of a pod
  Keys,              \* cache keys
  KeyOf,             \* the cache key of a target's volume attributes
  NumFiles,          \* regular files of a commit
  MaxCommit,         \* commits the tracked branch goes through
  Oversize,          \* commits that exceed the limits of the clone policy
  MaxSize,           \* cache size limit, in files
  AgeExpiry,         \* whether a cache key may outlive MaxAge
  CanWriteReadOnly,  \* the process has CAP_DAC_OVERRIDE
  MaxTimeouts,       \* bound: calls the kubelet gives up on
  MaxCrashes,        \* bound: restarts of the plugin process
  Nothing            \* an absent file, handler, place

Commits == 1..MaxCommit
Meta    == 0                    \* the .gitcontent directory
Files   == 1..NumFiles
Names   == Files \cup {Meta}
Places  == Keys \cup Targets    \* directory trees on disk

ASSUME FileAssumption   == NumFiles \in Nat \ {0} /\ MaxCommit \in Nat \ {0}
ASSUME BoundAssumption  == MaxTimeouts \in Nat /\ MaxCrashes \in Nat /\ MaxSize \in Nat
ASSUME KeyAssumption    == KeyOf \in [Targets -> Keys]
ASSUME PlaceAssumption  == Keys \cap Targets = {} /\ Handlers \cap Targets = {}
ASSUME SwitchAssumption == /\ AgeExpiry \in BOOLEAN
                           /\ CanWriteReadOnly \in BOOLEAN
                           /\ Oversize \subseteq Commits

(***************************************************************************)
(* A file on disk holds the data of one commit.  While it is open it       *)
(* belongs to its writer; Closed says that the writer finished, Torn that  *)
(* it died or copied a file that was not complete.                         *)
(***************************************************************************)
Closed == "closed"
Torn   == "torn"
Entry  == [commit : Commits, by : Handlers \cup {Closed, Torn}]

ASSUME WriterAssumption  == Handlers \cap {Closed, Torn} = {}
ASSUME NothingAssumption == Nothing \notin Handlers \cup Places \cup Entry

\* Where a handler is.  "evict", "clear", "clearTarget" and "unpublish" are
\* inside os.RemoveAll.
Stages == {"idle", "clone", "clear", "mkdir", "export", "filling", "limits",
           "metaDir", "metaFile", "scan", "evict", "clearTarget", "target",
           "list", "copy", "copying", "chmod", "reply", "fail", "unpublish"}

VARIABLES
  remote,      \* tip of the branch the volumes track
  dirs,        \* places that exist
  tree,        \* tree[p][n]: file n of place p, or Nothing
  older,       \* older[k]: cache keys rebuilt before k was last rebuilt
  readonly,    \* targets whose directories have mode 0555
  op,          \* op[h]: the call handler h is executing
  vol,         \* vol[t]: what the kubelet wants or knows of target t
  caller,      \* caller[t]: the handler whose answer the kubelet waits for
  timeouts,    \* calls given up so far
  crashes,     \* restarts so far
  overlapped   \* history: handlers, and targets, written under by another
               \* handler since the handler, the last publish, began

diskVars    == <<dirs, tree, older, readonly>>
kubeletVars == <<vol, caller>>
boundVars   == <<remote, timeouts, crashes>>
vars        == <<diskVars, op, kubeletVars, boundVars, overlapped>>

Idle == [pc |-> "idle", target |-> Nothing, commit |-> 0, todo |-> {},
         doomed |-> {}, removing |-> Nothing, read |-> Nothing]

Call == [pc : Stages,
         target   : Targets \cup {Nothing},
         commit   : Commits \cup {0},
         todo     : SUBSET Names,              \* names still to remove, write or copy
         doomed   : SUBSET Keys,               \* keys eviction has still to remove
         removing : Places \cup {Nothing},     \* directory RemoveAll has opened
         read     : Entry \cup {Nothing}]      \* source file of a copy

\* A call serves a target; an idle handler has nothing open.
Engaged(c) == IF c.pc = "idle" THEN c.removing = Nothing ELSE c.target \in Targets

TypeOK ==
  /\ remote \in Commits
  /\ dirs \subseteq Places
  /\ tree \in [Places -> [Names -> Entry \cup {Nothing}]]
  /\ older \in [Keys -> SUBSET Keys]
  /\ readonly \subseteq Targets
  /\ op \in [Handlers -> Call]
  /\ \A h \in Handlers : Engaged(op[h])
  /\ vol \in [Targets -> {"wanted", "mounted", "released", "gone"}]
  /\ caller \in [Targets -> Handlers \cup {Nothing}]
  /\ timeouts \in 0..MaxTimeouts
  /\ crashes \in 0..MaxCrashes
  /\ overlapped \subseteq Handlers \cup Targets

Init ==
  /\ remote = 1
  /\ dirs = {}
  /\ tree = [p \in Places |-> [n \in Names |-> Nothing]]
  /\ older = [k \in Keys |-> {}]
  /\ readonly = {}
  /\ op = [h \in Handlers |-> Idle]
  /\ vol = [t \in Targets |-> "wanted"]
  /\ caller = [t \in Targets |-> Nothing]
  /\ timeouts = 0
  /\ crashes = 0
  /\ overlapped = {}

-----------------------------------------------------------------------------
(* The file system. *)

Present(p)  == {n \in Names : tree[p][n] # Nothing}
Writable(p) == p \notin readonly \/ CanWriteReadOnly

Key(h)       == KeyOf[op[h].target]
Footprint(h) == {op[h].target, Key(h)}

\* Handler h changes something under p: every other call that uses p, and the
\* target p itself, are overlapped.
Touch(h, p) ==
  overlapped' = overlapped \cup ({p} \cap Targets)
                  \cup {g \in Handlers \ {h} : op[g].pc # "idle" /\ p \in Footprint(g)}

\* os.MkdirAll.  A cache directory is as old as its last rebuild.
Mkdir(p) ==
  /\ dirs' = dirs \cup {p}
  /\ older' = IF p \in Keys \ dirs
              THEN [k \in Keys |-> IF k = p THEN Keys \ {p} ELSE older[k] \ {p}]
              ELSE older

Put(p, n, e) == tree' = [tree EXCEPT ![p][n] = e]

\* The end of a file h has open: the data reaches the name only while the name
\* still denotes the file h opened.
CloseFile(h, p, n, e) ==
  IF tree[p][n] # Nothing /\ tree[p][n].by = h
  THEN Put(p, n, e)
  ELSE tree' = tree

-----------------------------------------------------------------------------
(* The kubelet, and the environment. *)

\* The kubelet calls NodePublishVolume for a pod that waits for its volume.
NodePublishVolume(h, t) ==
  /\ op[h].pc = "idle" /\ caller[t] = Nothing /\ vol[t] = "wanted"
  /\ op' = [op EXCEPT ![h] = [Idle EXCEPT !.pc = "clone", !.target = t]]
  /\ caller' = [caller EXCEPT ![t] = h]
  /\ UNCHANGED <<diskVars, vol, boundVars, overlapped>>

\* Mutant: a target that does not exist is an error.
StrictNodeUnpublishVolume(h, t) ==
  /\ op[h].pc = "idle" /\ caller[t] = Nothing /\ vol[t] = "released"
  /\ op' = [op EXCEPT ![h] = [Idle EXCEPT !.pc = IF t \in dirs THEN "unpublish" ELSE "fail",
                                          !.target = t]]
  /\ caller' = [caller EXCEPT ![t] = h]
  /\ UNCHANGED <<diskVars, vol, boundVars, overlapped>>

\* The kubelet calls NodeUnpublishVolume for a pod that was deleted.
NodeUnpublishVolume(h, t) ==
  /\ op[h].pc = "idle" /\ caller[t] = Nothing /\ vol[t] = "released"
  /\ op' = [op EXCEPT ![h] = [Idle EXCEPT !.pc = "unpublish", !.target = t]]
  /\ caller' = [caller EXCEPT ![t] = h]
  /\ UNCHANGED <<diskVars, vol, boundVars, overlapped>>

\* The pod is deleted; the kubelet lets a pending call of the volume end first.
DeletePod(t) ==
  /\ vol[t] \in {"wanted", "mounted"} /\ caller[t] = Nothing
  /\ vol' = [vol EXCEPT ![t] = "released"]
  /\ UNCHANGED <<diskVars, op, caller, boundVars, overlapped>>

\* The kubelet's deadline for a call passes: its context is cancelled, the
\* handler runs on, and the kubelet is free to call again.
Abandon(t) ==
  /\ caller[t] # Nothing /\ timeouts < MaxTimeouts
  /\ caller' = [caller EXCEPT ![t] = Nothing]
  /\ timeouts' = timeouts + 1
  /\ UNCHANGED <<diskVars, op, vol, remote, crashes, overlapped>>

\* Somebody pushes to the branch.
Push ==
  /\ remote < MaxCommit
  /\ remote' = remote + 1
  /\ UNCHANGED <<diskVars, op, kubeletVars, timeouts, crashes, overlapped>>

\* The plugin process restarts: its calls fail, the files they had open stay
\* as they are.
Crash ==
  /\ crashes < MaxCrashes
  /\ crashes' = crashes + 1
  /\ op' = [h \in Handlers |-> Idle]
  /\ caller' = [t \in Targets |-> Nothing]
  /\ tree' = [p \in Places |-> [n \in Names |->
                IF tree[p][n] # Nothing /\ tree[p][n].by \in Handlers
                THEN [tree[p][n] EXCEPT !.by = Torn]
                ELSE tree[p][n]]]
  /\ overlapped' = overlapped \ Handlers
  /\ UNCHANGED <<dirs, older, readonly, vol, remote, timeouts>>

-----------------------------------------------------------------------------
(* How a call ends: the kubelet hears of it if it still waits. *)

Go(h, stage) == op' = [op EXCEPT ![h].pc = stage]

Answer(h) ==
  /\ op' = [op EXCEPT ![h] = Idle]
  /\ caller' = [t \in Targets |-> IF caller[t] = h THEN Nothing ELSE caller[t]]
  /\ UNCHANGED <<diskVars, boundVars>>

\* An error: the kubelet keeps its wish, and will call again.
ReturnError(h) ==
  /\ op[h].pc = "fail"
  /\ Answer(h)
  /\ overlapped' = overlapped \ {h}
  /\ UNCHANGED vol

\* Mutant: a call whose answer nobody waits for is run again.
RepeatingReturnOK(h) ==
  LET t == op[h].target
  IN  /\ op[h].pc = "reply"
      /\ IF caller[t] = h
         THEN /\ Answer(h)
              /\ vol' = [vol EXCEPT ![t] = IF @ = "wanted" THEN "mounted" ELSE "gone"]
              /\ overlapped' = IF h \in overlapped THEN (overlapped \ {h}) \cup {t}
                                                  ELSE overlapped \ {t}
         ELSE Go(h, "clone") /\ UNCHANGED <<diskVars, kubeletVars, boundVars, overlapped>>

\* OK: the volume is mounted, or its target is gone.
ReturnOK(h) ==
  LET t == op[h].target
  IN  /\ op[h].pc = "reply"
      /\ Answer(h)
      /\ IF caller[t] = h
         THEN /\ vol' = [vol EXCEPT ![t] = IF @ = "wanted" THEN "mounted" ELSE "gone"]
              /\ overlapped' = IF h \in overlapped THEN (overlapped \ {h}) \cup {t}
                                                  ELSE overlapped \ {t}
         ELSE /\ overlapped' = overlapped \ {h}
              /\ UNCHANGED vol

-----------------------------------------------------------------------------
(* os.RemoveAll: read the names, unlink each, remove the directory. *)

\* Mutant: unpublish removes the parent directory of the target.
ParentRemovalPlaces(c) ==
  CASE c.pc = "clear" -> {KeyOf[c.target]}
    [] c.pc = "evict" -> c.doomed
    [] c.pc = "clearTarget" -> {c.target}
    [] c.pc = "unpublish" -> Targets
    [] OTHER -> {}

\* Mutant: unpublish removes the source of the volume.
SourceRemovalPlaces(c) ==
  CASE c.pc \in {"clear", "unpublish"} -> {KeyOf[c.target]}
    [] c.pc = "evict" -> c.doomed
    [] c.pc = "clearTarget" -> {c.target}
    [] OTHER -> {}

\* The directories the call c may have to remove at its present stage.
RemovalPlaces(c) ==
  CASE c.pc = "clear" -> {KeyOf[c.target]}
    [] c.pc = "evict" -> c.doomed
    [] c.pc \in {"clearTarget", "unpublish"} -> {c.target}
    [] OTHER -> {}

\* Where a call goes on after RemoveAll: only Evict ignores its error.
AfterRemoval(at, ok) ==
  CASE ~ok -> "fail"
    [] ok /\ at = "clear" -> "mkdir"
    [] ok /\ at = "clearTarget" -> "target"
    [] OTHER -> "reply"

\* The call c after its RemoveAll(p).
Removed(c, p, ok) ==
  IF c.pc = "evict"
  THEN [c EXCEPT !.removing = Nothing, !.doomed = @ \ {p},
                 !.pc = IF c.doomed \ {p} = {} THEN "clearTarget" ELSE "evict"]
  ELSE [c EXCEPT !.removing = Nothing, !.pc = AfterRemoval(c.pc, ok)]

\* The directory is opened and its names read; a missing one is no error.
RemoveOpen(h) ==
  \E p \in RemovalPlaces(op[h]) :
    /\ op[h].removing = Nothing
    /\ op' = [op EXCEPT ![h] = IF p \in dirs
                               THEN [@ EXCEPT !.removing = p, !.todo = Present(p)]
                               ELSE Removed(@, p, TRUE)]
    /\ UNCHANGED <<diskVars, kubeletVars, boundVars, overlapped>>

\* One name is unlinked, whatever file it denotes by now; in a directory that
\* cannot be written it stays, and the removal goes on.
RemoveEntry(h) ==
  LET p == op[h].removing
  IN  \E n \in op[h].todo :
        /\ p # Nothing
        /\ op' = [op EXCEPT ![h].todo = @ \ {n}]
        /\ IF Writable(p) THEN Put(p, n, Nothing) /\ Touch(h, p)
                          ELSE UNCHANGED <<tree, overlapped>>
        /\ UNCHANGED <<dirs, older, readonly, kubeletVars, boundVars>>

\* The directory is removed if it is empty or gone.  Another RemoveAll that has
\* it open finds no name in it any more.
RemoveDir(h) ==
  LET p  == op[h].removing
      ok == Present(p) = {}
  IN  /\ p # Nothing /\ op[h].todo = {}
      /\ op' = [g \in Handlers |->
                  CASE g = h -> Removed(op[h], p, ok)
                    [] g # h /\ ok /\ op[g].removing = p -> [op[g] EXCEPT !.todo = {}]
                    [] OTHER -> op[g]]
      /\ IF ok THEN dirs' = dirs \ {p} /\ readonly' = readonly \ {p} /\ Touch(h, p)
               ELSE UNCHANGED <<dirs, readonly, overlapped>>
      /\ UNCHANGED <<tree, older, kubeletVars, boundVars>>

-----------------------------------------------------------------------------
(* Materialize: clone in memory, rebuild the content directory of the key. *)

\* Mutant: the revision is not resolved.
UnresolvedClone(h) ==
  /\ op[h].pc = "clone"
  /\ Go(h, "clear")
  /\ UNCHANGED <<diskVars, kubeletVars, boundVars, overlapped>>

\* Mutant: the content directory of an earlier call is kept.
KeepingClone(h) ==
  /\ op[h].pc = "clone"
  /\ op' = [op EXCEPT ![h].pc = "mkdir", ![h].commit = remote]
  /\ UNCHANGED <<diskVars, kubeletVars, boundVars, overlapped>>

\* Mutant: the revision is resolved to what a first clone has found.
StaleClone(h) ==
  /\ op[h].pc = "clone"
  /\ op' = [op EXCEPT ![h].pc = "clear", ![h].commit = 1]
  /\ UNCHANGED <<diskVars, kubeletVars, boundVars, overlapped>>

\* The clone resolves the branch to its present tip.
Clone(h) ==
  /\ op[h].pc = "clone"
  /\ op' = [op EXCEPT ![h].pc = "clear", ![h].commit = remote]
  /\ UNCHANGED <<diskVars, kubeletVars, boundVars, overlapped>>

\* The network fails, the clone runs into the policy's timeout, or the kubelet
\* cancelled the call: the clone is the only step that notices.
CloneFails(h) ==
  /\ op[h].pc = "clone"
  /\ Go(h, "fail")
  /\ UNCHANGED <<diskVars, kubeletVars, boundVars, overlapped>>

MakeContentDir(h) ==
  /\ op[h].pc = "mkdir"
  /\ Mkdir(Key(h))
  /\ Touch(h, Key(h))
  /\ op' = [op EXCEPT ![h].pc = "export", ![h].todo = Files]
  /\ UNCHANGED <<tree, readonly, kubeletVars, boundVars>>

\* exportTree makes the parent directory and creates the file, which must not
\* exist.
ExportCreate(h) ==
  LET k == Key(h)
      n == Min(op[h].todo)
  IN  /\ op[h].pc = "export"
      /\ Mkdir(k)
      /\ Touch(h, k)
      /\ IF tree[k][n] = Nothing
         THEN Put(k, n, [commit |-> op[h].commit, by |-> h]) /\ Go(h, "filling")
         ELSE UNCHANGED tree /\ Go(h, "fail")
      /\ UNCHANGED <<readonly, kubeletVars, boundVars>>

ExportFill(h) ==
  LET k == Key(h)
      n == Min(op[h].todo)
  IN  /\ op[h].pc = "filling"
      /\ CloseFile(h, k, n, [commit |-> op[h].commit, by |-> Closed])
      /\ Touch(h, k)
      /\ op' = [op EXCEPT ![h].todo = @ \ {n},
                          ![h].pc = IF op[h].todo = {n} THEN "limits" ELSE "export"]
      /\ UNCHANGED <<dirs, older, readonly, kubeletVars, boundVars>>

\* Mutant: the limits are not compared.
UnlimitedCheckLimits(h) ==
  /\ op[h].pc = "limits"
  /\ Go(h, "metaDir")
  /\ UNCHANGED <<diskVars, kubeletVars, boundVars, overlapped>>

\* File count and size are compared with the policy's limits once everything
\* is on disk.
CheckLimits(h) ==
  /\ op[h].pc = "limits"
  /\ Go(h, IF op[h].commit \in Oversize THEN "fail" ELSE "metaDir")
  /\ UNCHANGED <<diskVars, kubeletVars, boundVars, overlapped>>

-----------------------------------------------------------------------------
(* metadata.Write, then Evict. *)

\* MkdirAll(content/.gitcontent) makes the content directory again if need be.
MakeMetaDir(h) ==
  LET k == Key(h)
  IN  /\ op[h].pc = "metaDir"
      /\ Mkdir(k)
      /\ Touch(h, k)
      /\ IF tree[k][Meta] = Nothing
         THEN Put(k, Meta, [commit |-> op[h].commit, by |-> h])
         ELSE UNCHANGED tree
      /\ Go(h, "metaFile")
      /\ UNCHANGED <<readonly, kubeletVars, boundVars>>

\* The fields are written over whatever they held; the directory must be there.
WriteMetadata(h) ==
  LET k == Key(h)
  IN  /\ op[h].pc = "metaFile"
      /\ IF tree[k][Meta] = Nothing
         THEN Go(h, "fail") /\ UNCHANGED <<tree, overlapped>>
         ELSE /\ Put(k, Meta, [commit |-> op[h].commit, by |-> Closed])
              /\ Touch(h, k)
              /\ Go(h, "scan")
      /\ UNCHANGED <<dirs, older, readonly, kubeletVars, boundVars>>

\* A key may be older than MaxAge unless a running call has rebuilt it.
MayHaveExpired(k) ==
  AgeExpiry /\ \A g \in Handlers :
                 op[g].pc \in {"idle", "clone", "clear", "unpublish"} \/ Key(g) # k

\* The keys other calls may rebuild or remove while Evict of h walks the cache.
Disturbed(h) ==
  {k \in Keys : \E g \in Handlers \ {h} : /\ op[g].pc \notin {"idle", "unpublish"}
                                          /\ k = Key(g) \/ k \in op[g].doomed}

\* What dirInfo may find: of a disturbed key as much as is there when the walk
\* comes by.
Measured(h) ==
  {size \in [Keys -> 0..Cardinality(Names)] :
     \A k \in Keys \ Disturbed(h) : size[k] = Cardinality(Present(k))}

\* Evict walks the cache and settles on the keys to remove.  A walk that meets
\* a name another call has just removed fails, and Evict skips the key.
EvictScan(h) ==
  /\ op[h].pc = "scan"
  /\ \E skipped \in SUBSET Disturbed(h), size \in Measured(h) :
       LET items == (dirs \cap Keys) \ skipped
       IN  \E expired \in SUBSET {k \in items : MayHaveExpired(k)} :
             LET doomed == Victims(items, size, older, expired, MaxSize)
             IN  op' = [op EXCEPT ![h].doomed = doomed,
                          ![h].pc = IF doomed = {} THEN "clearTarget" ELSE "evict"]
  /\ UNCHANGED <<diskVars, kubeletVars, boundVars, overlapped>>

-----------------------------------------------------------------------------
(* publishReadOnly: CopyContentTree into the cleared target, then chmod. *)

\* The walk finds the content directory and makes the target.
MakeTarget(h) ==
  LET t == op[h].target
  IN  /\ op[h].pc = "target"
      /\ IF Key(h) \in dirs
         THEN Mkdir(t) /\ Touch(h, t) /\ Go(h, "list")
         ELSE Go(h, "fail") /\ UNCHANGED <<dirs, older, overlapped>>
      /\ UNCHANGED <<tree, readonly, kubeletVars, boundVars>>

\* Mutant: the walk skips every dot entry, not .git alone.
HiddenListContent(h) ==
  /\ op[h].pc = "list"
  /\ IF Key(h) \in dirs
     THEN op' = [op EXCEPT ![h].todo = Present(Key(h)) \ {Meta},
                           ![h].pc = IF Present(Key(h)) \ {Meta} = {} THEN "chmod" ELSE "copy"]
     ELSE Go(h, "fail")
  /\ UNCHANGED <<diskVars, kubeletVars, boundVars, overlapped>>

\* The walk reads the names of the content directory, once.
ListContent(h) ==
  /\ op[h].pc = "list"
  /\ IF Key(h) \in dirs
     THEN op' = [op EXCEPT ![h].todo = Present(Key(h)),
                           ![h].pc = IF Present(Key(h)) = {} THEN "chmod" ELSE "copy"]
     ELSE Go(h, "fail")
  /\ UNCHANGED <<diskVars, kubeletVars, boundVars, overlapped>>

\* A name that has vanished from the content, or has appeared in the target,
\* or a target that cannot be written, ends the copy with an error.
CopyOpen(h) ==
  LET t   == op[h].target
      n   == Min(op[h].todo)
      src == tree[Key(h)][n]
  IN  /\ op[h].pc = "copy"
      /\ IF src # Nothing /\ tree[t][n] = Nothing /\ Writable(t)
         THEN /\ Mkdir(t)
              /\ Put(t, n, [commit |-> src.commit, by |-> h])
              /\ Touch(h, t)
              /\ op' = [op EXCEPT ![h].pc = "copying", ![h].read = src]
         ELSE Go(h, "fail") /\ UNCHANGED <<dirs, older, tree, overlapped>>
      /\ UNCHANGED <<readonly, kubeletVars, boundVars>>

\* The copy has what the source held when it was opened, a part of it if its
\* writer was not done.
CopyData(h) ==
  LET t == op[h].target
      n == Min(op[h].todo)
      e == [op[h].read EXCEPT !.by = IF @ = Closed THEN Closed ELSE Torn]
  IN  /\ op[h].pc = "copying"
      /\ CloseFile(h, t, n, e)
      /\ Touch(h, t)
      /\ op' = [op EXCEPT ![h].todo = @ \ {n}, ![h].read = Nothing,
                          ![h].pc = IF op[h].todo = {n} THEN "chmod" ELSE "copy"]
      /\ UNCHANGED <<dirs, older, readonly, kubeletVars, boundVars>>

ChmodReadOnly(h) ==
  LET t == op[h].target
  IN  /\ op[h].pc = "chmod"
      /\ IF t \in dirs
         THEN readonly' = readonly \cup {t} /\ Touch(h, t) /\ Go(h, "reply")
         ELSE Go(h, "fail") /\ UNCHANGED <<readonly, overlapped>>
      /\ UNCHANGED <<dirs, older, tree, kubeletVars, boundVars>>

-----------------------------------------------------------------------------

\* What the goroutine of h does next, the outcome of a clone apart.
Advance(h) ==
  \/ RemoveOpen(h) \/ RemoveEntry(h) \/ RemoveDir(h)
  \/ MakeContentDir(h) \/ ExportCreate(h) \/ ExportFill(h) \/ CheckLimits(h)
  \/ MakeMetaDir(h) \/ WriteMetadata(h) \/ EvictScan(h)
  \/ MakeTarget(h) \/ ListContent(h) \/ CopyOpen(h) \/ CopyData(h) \/ ChmodReadOnly(h)
  \/ ReturnError(h) \/ ReturnOK(h)

\* Every pod is gone and no call is left.
AllGone ==
  /\ \A t \in Targets : vol[t] = "gone"
  /\ \A h \in Handlers : op[h].pc = "idle"
  /\ UNCHANGED vars

Next ==
  \/ \E h \in Handlers : Clone(h) \/ CloneFails(h) \/ Advance(h)
  \/ \E h \in Handlers, t \in Targets :
       NodePublishVolume(h, t) \/ NodeUnpublishVolume(h, t)
  \/ \E t \in Targets : DeletePod(t) \/ Abandon(t)
  \/ Push
  \/ Crash
  \/ AllGone

Spec == Init /\ [][Next]_vars

\* Goroutines run; the kubelet retries; a git server that is asked again and
\* again answers now and then.
Fairness ==
  /\ \A h \in Handlers : /\ WF_vars(Advance(h))
                         /\ WF_vars(Clone(h) \/ CloneFails(h))
                         /\ SF_vars(Clone(h))
  /\ \A t \in Targets : /\ WF_vars(\E h \in Handlers : NodePublishVolume(h, t))
                        /\ WF_vars(\E h \in Handlers : NodeUnpublishVolume(h, t))

FairSpec == Spec /\ Fairness

-----------------------------------------------------------------------------
(* What the plugin owes its volumes. *)

\* p holds every file of commit c, complete, and the metadata that names c.
Whole(p, c) ==
  /\ p \in dirs
  /\ \A n \in Names : tree[p][n] = [commit |-> c, by |-> Closed]

Served(t) == t \in readonly /\ \E c \in Commits \ Oversize : Whole(t, c)

\* A mounted volume is read-only and holds one commit, all of it, with the
\* metadata of that commit, and the commit is within the policy's limits:
\* materialize and publishReadOnly build it so.
MountedIsServed == \A t \in Targets : vol[t] = "mounted" => Served(t)

\* The metadata of a mounted volume names the commit its files are from:
\* metadata.Write records what Materialize has just resolved and exported.
MetadataTellsContent ==
  \A t \in Targets : \A n \in Files :
    vol[t] = "mounted" /\ tree[t][n] # Nothing /\ tree[t][Meta] # Nothing
      => tree[t][n].commit = tree[t][Meta].commit

\* The same as MountedIsServed for the volumes whose publish ran without another call writing to
\* its cache key or its target, whatever else went on: crashes, retries, stale
\* leftovers, eviction and calls for other keys.
IsolatedMountIsServed ==
  \A t \in Targets : vol[t] = "mounted" /\ t \notin overlapped => Served(t)

\* Once NodeUnpublishVolume has answered OK nothing is left at the target, and
\* nothing comes back.
GoneStaysGone == \A t \in Targets : vol[t] = "gone" => t \notin dirs

\* A mounted volume does not change under the pod that uses it.
MountedIsImmutable ==
  [][\A t \in Targets :
       vol[t] = "mounted" /\ vol'[t] = "mounted"
         => tree'[t] = tree[t] /\ (t \in dirs' <=> t \in dirs)]_vars

\* What earlier calls and crashes left behind never makes a call fail: only the
\* clone and the policy's limits do.
LeftoversNeverFail ==
  [][\A h \in Handlers :
       op[h].pc # "fail" /\ op'[h].pc = "fail" => op[h].pc \in {"clone", "limits"}]_vars

\* Evict settles on a set to remove that leaves, of the keys no other call may be
\* rebuilding or removing, no more than the size limit and what it may have taken
\* for too old, and subtracted twice.  Keys that others change meanwhile, and that
\* dirInfo skips or finds in part, make it settle on too little only for themselves.
EvictMakesRoom ==
  [][\A h \in Handlers :
       op[h].pc = "scan" /\ op'[h].pc \in {"evict", "clearTarget"}
         => LET still == (dirs \cap Keys) \ Disturbed(h)
                going == dirs \cap op'[h].doomed
                most  == [k \in Keys |-> IF k \in Disturbed(h) THEN Cardinality(Names)
                                        ELSE Cardinality(Present(k))]
            IN  Bytes(most, still \ going)
                  <= MaxSize + Bytes(most, {k \in going : MayHaveExpired(k)})]_vars

\* Every RPC returns, whatever the others do to the directories it works on.
EveryCallReturns ==
  \A h \in Handlers : op[h].pc # "idle" ~> op[h].pc = "idle"

\* Retries mount a volume that is wanted, unless its pod is deleted first.
WantedIsMounted ==
  \A t \in Targets : vol[t] = "wanted" ~> vol[t] # "wanted"

\* A deleted pod gets rid of its volume.
ReleasedIsGone ==
  \A t \in Targets : vol[t] = "released" ~> vol[t] = "gone"
=============================================================================
