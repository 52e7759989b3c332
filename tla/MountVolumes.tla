------------------------------ MODULE MountVolumes ------------------------------
(***************************************************************************)
(* MountPipeline implements Volume: how the disk, the calls and the        *)
(* kubelet of the one are the volumes of the other.                        *)
(***************************************************************************)
EXTENDS MountPipelineInv

\* The commit that the call the kubelet waits for is to mount.
Candidate ==
  [t \in Targets |-> IF caller[t] # Nothing /\ vol[t] = "wanted"
                     THEN op[caller[t]].commit ELSE 0]

\* A target is a commit once it is read-only and holds all of it.
Shown(t) ==
  CASE t \notin dirs -> 0
    [] t \in readonly /\ (\E c \in Commits : Whole(t, c)) -> CHOOSE c \in Commits : Whole(t, c)
    [] OTHER -> -1

\* Another call has written under the volume since its last call began.
Spoilt ==
  {t \in Targets : IF vol[t] \in {"mounted", "gone"} THEN t \in overlapped
                   ELSE caller[t] # Nothing /\ caller[t] \in overlapped}

\* When the call of a deleted pod is about to answer OK, its target is gone, unless
\* another call has brought it back meanwhile.
TargetIsRemoved ==
  \A t \in Targets :
    caller[t] # Nothing /\ vol[t] = "released" /\ op[caller[t]].pc = "reply"
      /\ caller[t] \notin overlapped => t \notin dirs

Strict == INSTANCE Volume WITH
  Volumes <- Targets, Acceptable <- Commits \ Oversize,
  tip <- remote, phase <- vol, candidate <- Candidate,
  content <- [t \in Targets |-> Shown(t)], spoilt <- {}

Shared == INSTANCE Volume WITH
  Volumes <- Targets, Acceptable <- Commits \ Oversize,
  tip <- remote, phase <- vol, candidate <- Candidate,
  content <- [t \in Targets |-> Shown(t)], spoilt <- Spoilt

\* The plugin implements Volume, no volume ever spoilt: what materialize,
\* publishReadOnly and unpublish do to the disk, step by step and across
\* restarts, adds up to volumes that are a commit their call has resolved, do
\* not change, and go.
KeepsPromise == Strict!Spec

\* The same where calls do meet: the promise is void for the volumes whose
\* cache key or target another call has written to meanwhile, and for no other.
KeepsPromiseApart == Shared!Spec
=============================================================================
