--------------------------------- MODULE Volume ---------------------------------
(***************************************************************************)
(* What a node plugin promises the volumes of its pods, whatever it does   *)
(* on disk: a volume that is mounted is one commit that was the tip of its *)
(* branch while the call that mounted it ran, stays that commit until its  *)
(* pod is deleted, and leaves nothing.  The promise is void for a volume   *)
(* that is spoilt: another call has written under it.                      *)
(***************************************************************************)
EXTENDS Integers

CONSTANTS
  Volumes,
  MaxCommit,   \* commits the branch goes through
  Acceptable   \* commits that may be mounted

Commits == 1..MaxCommit
Absent  == 0     \* nothing at the target, or no commit
Partial == -1    \* something that is no commit

Content == Commits \cup {Absent, Partial}

VARIABLES
  tip,        \* the commit of the branch
  phase,      \* phase[v]: what the kubelet wants or knows of v
  candidate,  \* candidate[v]: the commit the pending call is to mount, or Absent
  content,    \* content[v]: what a pod finds at the target
  spoilt      \* volumes under which another call has written

vars == <<tip, phase, candidate, content, spoilt>>

Init ==
  /\ tip = 1
  /\ phase = [v \in Volumes |-> "wanted"]
  /\ candidate = [v \in Volumes |-> Absent]
  /\ content = [v \in Volumes |-> Absent]
  /\ spoilt = {}

\* While it mounts or removes a volume the plugin may put anything there.
Unsettled(v) == phase[v] \in {"wanted", "released"}

Push ==
  /\ tip < MaxCommit
  /\ tip' = tip + 1
  /\ UNCHANGED <<phase, candidate, content, spoilt>>

\* A pending call takes the tip of the branch.
Resolve(v) ==
  /\ phase[v] = "wanted" /\ candidate[v] = Absent
  /\ candidate' = [candidate EXCEPT ![v] = tip]
  /\ UNCHANGED <<tip, phase, content, spoilt>>

\* Content changes where no pod sees it, or under a volume that is spoilt by it.
Work ==
  /\ \E others \in SUBSET Volumes : spoilt' = spoilt \cup others
  /\ content' \in [Volumes -> Content]
  /\ \A v \in Volumes : content'[v] = content[v] \/ Unsettled(v) \/ v \in spoilt'
  /\ UNCHANGED <<tip, phase, candidate>>

\* Calls end without success; a restart ends all of them.
Fail ==
  \E failed \in SUBSET {v \in Volumes : Unsettled(v)} :
    /\ candidate' = [v \in Volumes |-> IF v \in failed THEN Absent ELSE candidate[v]]
    /\ spoilt' = spoilt \ failed
    /\ UNCHANGED <<tip, phase, content>>

Mount(v) ==
  /\ phase[v] = "wanted"
  /\ v \in spoilt \/ (content[v] = candidate[v] /\ candidate[v] \in Acceptable)
  /\ phase' = [phase EXCEPT ![v] = "mounted"]
  /\ candidate' = [candidate EXCEPT ![v] = Absent]
  /\ UNCHANGED <<tip, content, spoilt>>

\* The pod is deleted.
Release(v) ==
  /\ phase[v] \in {"wanted", "mounted"}
  /\ phase' = [phase EXCEPT ![v] = "released"]
  /\ spoilt' = spoilt \ {v}
  /\ UNCHANGED <<tip, candidate, content>>

Remove(v) ==
  /\ phase[v] = "released"
  /\ v \in spoilt \/ content[v] = Absent
  /\ phase' = [phase EXCEPT ![v] = "gone"]
  /\ UNCHANGED <<tip, candidate, content, spoilt>>

Next ==
  \/ Push \/ Work \/ Fail
  \/ \E v \in Volumes : Resolve(v) \/ Mount(v) \/ Release(v) \/ Remove(v)

Spec == Init /\ [][Next]_vars
=============================================================================
