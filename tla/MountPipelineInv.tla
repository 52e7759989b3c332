--------------------------- MODULE MountPipelineInv ---------------------------
(***************************************************************************)
(* The inductive invariant behind IsolatedMountIsServed: how far a call    *)
(* that nobody has overlapped has got with its two directories, stage by   *)
(* stage; and what holds besides where no two calls can meet.              *)
(***************************************************************************)
EXTENDS MountPipeline

\* A directory that does not exist has no files.
MissingIsEmpty == \A p \in Places \ dirs : Present(p) = {}

\* A call has a directory open only inside the RemoveAll of that directory; it
\* has resolved a commit once past the clone, and not before; it has names left
\* while it writes or copies.
WellFormed(c) ==
  /\ c.removing \in RemovalPlaces(c) \cup {Nothing}
  /\ c.pc \notin {"idle", "clone", "unpublish", "reply", "fail"} => c.commit \in Commits
  /\ c.pc \in {"clone", "unpublish"} => c.commit = 0
  /\ c.pc \in {"export", "filling", "copy", "copying"} => c.todo # {}
  /\ c.pc \in {"export", "filling"} => c.todo \subseteq Files
  /\ c.pc = "copying" => c.read \in Entry

CallsAreWellFormed == \A h \in Handlers : WellFormed(op[h])

\* The call the kubelet waits for serves what the kubelet wants of the target.
PendingCall(t, c) ==
  /\ c.pc # "idle" /\ c.target = t
  /\ \/ vol[t] = "wanted" /\ c.pc # "unpublish" /\ (c.pc = "reply" => c.commit \in Commits)
     \/ vol[t] = "released" /\ c.pc \in {"unpublish", "reply", "fail"}

CallerIsPending ==
  \A t \in Targets : caller[t] # Nothing => PendingCall(t, op[caller[t]])

\* In p, the names of todo are still missing; the other names of S are complete
\* files of commit c.
Done(p, S, todo, c) ==
  \A n \in S : tree[p][n] = IF n \in todo THEN Nothing ELSE [commit |-> c, by |-> Closed]

\* The same while h has the first name of todo open.
Doing(p, S, todo, c, h) ==
  \A n \in S : tree[p][n] = IF n = Min(todo) THEN [commit |-> c, by |-> h]
                            ELSE IF n \in todo THEN Nothing
                            ELSE [commit |-> c, by |-> Closed]

\* What h has made of the content directory k.
ContentStage(h, k) ==
  LET c  == op[h].commit
      at == op[h].pc
  IN  /\ at = "mkdir" => Present(k) = {}
      /\ at = "export" => /\ Done(k, Files, op[h].todo, c)
                          /\ tree[k][Meta] = Nothing
      /\ at = "filling" => /\ Doing(k, Files, op[h].todo, c, h)
                           /\ tree[k][Meta] = Nothing
                           /\ k \in dirs
      /\ at \in {"limits", "metaDir", "metaFile"} => Done(k, Files, {}, c) /\ k \in dirs
      /\ at = "scan" => Whole(k, c)
      /\ at = "evict" /\ op[h].removing = k => Present(k) \subseteq op[h].todo
      /\ at = "evict" /\ op[h].removing # k /\ k \in dirs => Whole(k, c)
      /\ at \in {"clearTarget", "target", "list"} /\ k \in dirs => Whole(k, c)
      /\ at \in {"copy", "copying"} => Whole(k, c)

\* What h has made of the target t.
TargetStage(h, t) ==
  LET c  == op[h].commit
      at == op[h].pc
  IN  /\ at \in {"target", "list"} => Present(t) = {}
      /\ at \in {"list", "copy", "copying"} => t \in dirs
      /\ at = "copy" => Done(t, Names, op[h].todo, c)
      /\ at = "copying" => /\ Doing(t, Names, op[h].todo, c, h)
                           /\ op[h].read = [commit |-> c, by |-> Closed]
      /\ at = "chmod" => Whole(t, c)
      /\ at = "reply" /\ c \in Commits => Whole(t, c) /\ t \in readonly

\* From the check of the limits on, the commit is within them.
WithinLimits(h) ==
  op[h].pc \in {"metaDir", "metaFile", "scan", "evict", "clearTarget", "target",
                "list", "copy", "copying", "chmod", "reply"}
    => op[h].commit \notin Oversize

Isolated(h) ==
  op[h].pc # "idle" => /\ ContentStage(h, Key(h))
                       /\ TargetStage(h, op[h].target)
                       /\ WithinLimits(h)

IsolatedCalls == \A h \in Handlers \ overlapped : Isolated(h)

IInv ==
  /\ TypeOK
  /\ MissingIsEmpty
  /\ CallsAreWellFormed
  /\ CallerIsPending
  /\ IsolatedCalls
  /\ IsolatedMountIsServed

-----------------------------------------------------------------------------
(* Calls that cannot meet. *)

\* Volumes with cache keys of their own, a cache that keeps all of them, and a
\* kubelet that waits for its answers.
PrivateKeys ==
  /\ \A t, u \in Targets : KeyOf[t] = KeyOf[u] => t = u
  /\ IsFiniteSet(Keys) /\ Cardinality(Keys) * (NumFiles + 1) <= MaxSize
  /\ ~AgeExpiry
  /\ MaxTimeouts = 0

\* The kubelet waits for every call.
CallsAreAwaited == \A h \in Handlers : op[h].pc # "idle" => caller[op[h].target] = h

\* Nobody has written under a call, nor to a target once its call has answered.
NobodyMeets ==
  /\ overlapped \subseteq Targets
  /\ \A t \in Targets : vol[t] \in {"mounted", "gone"} => t \notin overlapped

NothingIsEvicted == \A h \in Handlers : op[h].pc # "evict"

PrivateInv == CallsAreAwaited /\ NobodyMeets /\ NothingIsEvicted /\ GoneStaysGone

\* What h needs in order not to fail: a removal knows all names there are, and
\* what its call has made in the content directory is still there.
Unhindered(h) ==
  LET k  == Key(h)
      at == op[h].pc
  IN  /\ op[h].removing # Nothing => Present(op[h].removing) \subseteq op[h].todo
      /\ at = "metaFile" => tree[k][Meta] # Nothing
      /\ at \in {"clearTarget", "target", "list"} => k \in dirs

CallsAreUnhindered == \A h \in Handlers : op[h].pc # "idle" => Unhindered(h)
=============================================================================
