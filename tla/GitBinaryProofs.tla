---------------------------- MODULE GitBinaryProofs ----------------------------
(***************************************************************************)
(* Proofs about GitBinary, for any number of handlers, commits and faults, *)
(* and any depths: type correctness, that no call returns files of another *)
(* commit for a pinned one, and that a call nobody overlaps serves all of  *)
(* the pinned commit, or of one that its tag names.                        *)
(***************************************************************************)
EXTENDS GitBinary, TLAPS

-----------------------------------------------------------------------------
(* Types. *)

\* Editing the call of one handler.
LEMMA EditType ==
  ASSUME TypeOK, NEW h \in Handlers, NEW s \in Stages, NEW m \in Commits \cup {None}
  PROVE  /\ [op EXCEPT ![h].pc = s] \in [Handlers -> Call]
         /\ [op EXCEPT ![h].pc = s, ![h].sha = m] \in [Handlers -> Call]
         /\ [op EXCEPT ![h].pc = s, ![h].resolved = m] \in [Handlers -> Call]
         /\ [op EXCEPT ![h].pc = s, ![h].copied = content] \in [Handlers -> Call]
<1>1. op \in [Handlers -> Call] /\ op[h] \in Call /\ content \in Content
  BY DEF TypeOK
<1>2. /\ [op[h] EXCEPT !.pc = s] \in Call
      /\ [op[h] EXCEPT !.pc = s, !.sha = m] \in Call
      /\ [op[h] EXCEPT !.pc = s, !.resolved = m] \in Call
      /\ [op[h] EXCEPT !.pc = s, !.copied = content] \in Call
  BY <1>1 DEF Call
<1>3. \A c \in Call : [op EXCEPT ![h] = c] \in [Handlers -> Call]
  BY <1>1
<1> QED
  BY <1>1, <1>2, <1>3

\* A call that goes on to the next stage.
LEMMA GotoType ==
  ASSUME TypeOK, NEW h \in Handlers, NEW s \in Stages, Goto(h, s)
  PROVE  op' \in [Handlers -> Call]
  BY EditType DEF Goto, None

\* The call of a handler that executes none.
LEMMA IdleType == Idle \in Call /\ NoContent \in Content
  BY DEF Idle, Call, Stages, NoContent, Content, NoFiles, Files

\* A call that ends with an error.
LEMMA ErrorType ==
  ASSUME TypeOK, NEW h \in Handlers, Error(h)
  PROVE  op' \in [Handlers -> Call]
  BY IdleType DEF TypeOK, Error

\* A key that is not on disk, or whose clone has just begun.
LEMMA AbsentType ==
  /\ Absent \in Repo
  /\ [Absent EXCEPT !.made = TRUE] \in Repo
  BY DEF Absent, Repo, NoFiles, Files

\* Files that are copied.
LEMMA CopyType ==
  ASSUME TypeOK, NEW i \in 1..2, CopyPart(i)
  PROVE  content' \in Content
<1>1. content \in [1..2 -> Files] /\ repo.tree \in Files
  BY DEF TypeOK, Content, Repo
<1>2. (content[i] \ {None}) \cup repo.tree \in Files
  BY <1>1 DEF Files
<1> QED
  BY <1>1, <1>2 DEF CopyPart, Content

\* The locks of killed processes.
LEMMA OrphanedType ==
  ASSUME TypeOK, NEW dead \in SUBSET Handlers
  PROVE  Orphaned(dead) \in Repo
  BY DEF TypeOK, Orphaned, Repo

\* Taking or freeing the shallow lock, by a command that gets other objects or not.
LEMMA ShallowEdit ==
  ASSUME NEW r \in Repo, NEW l \in Handlers \cup {Free, Orphan}, NEW s \in SUBSET Commits
  PROVE  /\ [r EXCEPT !.shallow = l] \in Repo
         /\ [r EXCEPT !.shallow = l, !.have = s] \in Repo
         /\ [r EXCEPT !.shallow = l].made = r.made
         /\ [r EXCEPT !.shallow = l].tracked = r.tracked
         /\ [r EXCEPT !.shallow = l].ref = r.ref
         /\ [r EXCEPT !.shallow = l, !.have = s].made = r.made
         /\ [r EXCEPT !.shallow = l, !.have = s].tracked = r.tracked
         /\ [r EXCEPT !.shallow = l, !.have = s].ref = r.ref
<1>1. /\ [r EXCEPT !.shallow = l] \in Repo
      /\ [r EXCEPT !.shallow = l, !.have = s] \in Repo
  BY DEF Repo
<1>2. /\ [r EXCEPT !.shallow = l].made = r.made
      /\ [r EXCEPT !.shallow = l].tracked = r.tracked
      /\ [r EXCEPT !.shallow = l].ref = r.ref
  BY DEF Repo
<1>3. /\ [r EXCEPT !.shallow = l, !.have = s].made = r.made
      /\ [r EXCEPT !.shallow = l, !.have = s].tracked = r.tracked
      /\ [r EXCEPT !.shallow = l, !.have = s].ref = r.ref
  BY DEF Repo
<1> QED
  BY <1>1, <1>2, <1>3

\* The objects of a clone come into the repository.
LEMMA ReceivesKeeps ==
  ASSUME repo \in Repo, NEW h \in Handlers, CloneReceives(h)
  PROVE  repo' \in Repo /\ repo'.made = repo.made /\ repo'.tracked = repo.tracked
         /\ repo'.ref = repo.ref
<1> DEFINE new == {c \in Commits : remote - volume.depth < c /\ c <= remote}
<1>1. repo' = [repo EXCEPT !.shallow = Free, !.have = new]
  BY DEF CloneReceives
<1>2. new \in SUBSET Commits /\ Free \in Handlers \cup {Free, Orphan}
  OBVIOUS
<1> HIDE DEF new
<1> QED
  BY <1>1, <1>2, ShallowEdit

\* Every step of a call that works.
LEMMA StepType ==
  ASSUME TypeOK, NEW h \in Handlers, Step(h)
  PROVE  TypeOK'
<1> USE NumberAssumption
<1>0. /\ repo \in Repo /\ op[h] \in Call /\ remote \in Commits
      /\ UNCHANGED <<remote, volume, faults>>
  BY DEF TypeOK, Step
<1>1. Pinned \in Commits
  BY DEF Commits, Pinned
<1> SUFFICES repo' \in Repo /\ content' \in Content /\ op' \in [Handlers -> Call]
  BY <1>0 DEF TypeOK
<1>2. CASE Command(h) /\ UNCHANGED content
  <2>1. content' \in Content
    BY <1>2 DEF TypeOK
  <2> SUFFICES repo' \in Repo /\ op' \in [Handlers -> Call]
    BY <2>1
  <2>2. CASE CloneMakes(h)
    BY <2>2, GotoType, AbsentType DEF CloneMakes, Stages
  <2>3. CASE CloneConnects(h)
    BY <1>0, <2>3, GotoType DEF CloneConnects, Stages, Repo
  <2>4. CASE CloneLocks(h)
    <3>1. repo' \in Repo
      BY <1>0, <2>4, ShallowEdit DEF CloneLocks
    <3> QED
      BY <2>4, <3>1, GotoType DEF CloneLocks, Stages
  <2>5. CASE CloneReceives(h)
    <3>1. op' \in [Handlers -> Call]
      <4>1. "install" \in Stages /\ remote \in Commits \cup {None}
        BY <1>0 DEF Stages
      <4>2. op' = [op EXCEPT ![h].pc = "install", ![h].sha = remote]
        BY <2>5 DEF CloneReceives
      <4> QED
        BY <4>1, <4>2, EditType
    <3>2. repo' \in Repo
      BY <1>0, <2>5, ReceivesKeeps
    <3> QED
      BY <3>1, <3>2
  <2>6. CASE CloneSetsHead(h)
    <3> DEFINE s == IF IsPinned THEN "checkout" ELSE "populate"
    <3> DEFINE m == IF IsPinned THEN Pinned ELSE op[h].sha
    <3>1. s \in Stages /\ m \in Commits \cup {None} /\ op[h].sha \in Commits \cup {None}
      BY <1>0, <1>1 DEF Stages, Call
    <3>2. op' = [op EXCEPT ![h].pc = s, ![h].sha = m]
      BY <2>6 DEF CloneSetsHead, TypeOK, Call
    <3>3. repo' \in Repo
      BY <1>0, <2>6, <3>1 DEF CloneSetsHead, Repo
    <3> HIDE DEF s, m
    <3> QED
      BY <3>1, <3>2, <3>3, EditType
  <2>7. CASE FetchLocks(h)
    BY <1>0, <2>7, GotoType DEF FetchLocks, Stages, Repo
  <2>8. CASE FetchReceives(h)
    BY <1>0, <2>8, GotoType, ErrorType DEF FetchReceives, Stages, Repo, RefAfterFetch
  <2>9. CASE Resolve(h)
    <3>1. "checkout" \in Stages /\ repo.ref \in Commits \cup {None}
      BY <1>0 DEF Stages, Repo
    <3> QED
      BY <1>0, <2>9, <3>1, EditType DEF Resolve
  <2>10. CASE LockIndex(h)
    <3>1. op[h].sha \in Commits \cup {None}
      BY <1>0 DEF Call
    <3>2. (IF repo.tree = {op[h].sha} THEN repo.tree ELSE repo.tree \cup {op[h].sha, None}) \in Files
      BY <1>0, <3>1 DEF Repo, Files
    <3>3. repo' \in Repo
      BY <1>0, <2>10, <3>2 DEF LockIndex, Repo
    <3> QED
      BY <2>10, <3>3, GotoType DEF LockIndex, Stages
  <2>11. CASE WriteTree(h)
    <3>1. {op[h].sha} \in Files
      BY <1>0 DEF Call, Files
    <3>2. repo' \in Repo
      BY <1>0, <2>11, <3>1 DEF WriteTree, Repo
    <3> QED
      BY <2>11, <3>2, GotoType DEF WriteTree, Stages
  <2>12. CASE MoveHead(h)
    BY <1>0, <2>12, GotoType DEF MoveHead, Stages, Repo, Call
  <2>13. CASE ReadHead(h)
    <3>1. "clear" \in Stages /\ repo.head \in Commits \cup {None}
      BY <1>0 DEF Stages, Repo
    <3> QED
      BY <1>0, <2>13, <3>1, EditType DEF ReadHead
  <2> QED
    BY <1>2, <2>2, <2>3, <2>4, <2>5, <2>6, <2>7, <2>8, <2>9, <2>10, <2>11, <2>12, <2>13
       DEF Command
<1>3. CASE ClearContent(h)
  BY <1>0, <1>3, GotoType, IdleType DEF ClearContent, Stages
<1>4. CASE CopyBegins(h) \/ CopyEnds(h)
  BY <1>0, <1>4, GotoType, CopyType DEF CopyBegins, CopyEnds, Stages
<1>5. CASE Return(h)
  BY <1>0, <1>5, EditType DEF Return, Stages, None, TypeOK
<1> QED
  BY <1>2, <1>3, <1>4, <1>5 DEF Step

\* Every step.
LEMMA TypeInvariance == TypeOK /\ [Next]_vars => TypeOK'
<1> SUFFICES ASSUME TypeOK, [Next]_vars PROVE TypeOK'
  OBVIOUS
<1> USE NumberAssumption DEF TypeOK
<1>1. ASSUME NEW h \in Handlers, Begin(h) PROVE TypeOK'
  <2>1. CloneOrRefresh \in Stages /\ Pinned \in Commits
    BY DEF CloneOrRefresh, Stages, Pinned, Commits
  <2>2. \A b \in BOOLEAN :
          [Idle EXCEPT !.pc = CloneOrRefresh, !.sha = IF IsPinned THEN Pinned ELSE None,
                       !.named = {remote}, !.alone = b] \in Call
    BY <2>1, IdleType DEF Call
  <2>3. \A g \in Handlers : [op[g] EXCEPT !.alone = FALSE] \in Call
    BY DEF Call
  <2> QED
    BY <1>1, <2>2, <2>3 DEF Begin
<1>2. ASSUME NEW h \in Handlers, Step(h) PROVE TypeOK'
  BY <1>2, StepType
<1>3. ASSUME NEW h \in Handlers, Fail(h) PROVE TypeOK'
  <2>1. [repo EXCEPT !.shallow = IF @ = h THEN Free ELSE @,
                     !.index   = IF @ = h THEN Free ELSE @] \in Repo
    BY DEF Repo
  <2>2. repo' \in Repo
    BY <1>3, <2>1, AbsentType DEF Fail
  <2>3. faults' \in 0..MaxFaults
    BY <1>3 DEF Fail, Disconnects
  <2> QED
    BY <1>3, <2>3, <2>2, ErrorType DEF Fail
<1>4. ASSUME NEW h \in Handlers, Deadline(h) PROVE TypeOK'
  BY <1>4, ErrorType, OrphanedType DEF Deadline
<1>5. CASE Crash
  BY <1>5, IdleType, OrphanedType DEF Crash
<1>6. CASE Push
  BY <1>6 DEF Push, Call, Commits
<1>7. CASE Evict
  BY <1>7, AbsentType, IdleType DEF Evict
<1>8. CASE UNCHANGED vars
  BY <1>8 DEF vars
<1> QED
  BY <1>1, <1>2, <1>3, <1>4, <1>5, <1>6, <1>7, <1>8 DEF Next

\* Type correctness.
THEOREM TypeCorrect == Spec => []TypeOK
<1>1. Init => TypeOK
  BY IdleType, AbsentType, NumberAssumption DEF Init, TypeOK, Commits
<1> QED
  BY <1>1, TypeInvariance, PTL DEF Spec

-----------------------------------------------------------------------------
(* The inductive invariant. *)

\* h is between making the repository and its refs.
Cloning(h) == op[h].pc \in {"connect", "receive", "receiving", "install"}

\* Only one call clones at a time, and the repository is its own: only the
\* clone itself, when it fails, takes a repository away while calls run.
ClonesAreAlone ==
  \A h \in Handlers : Cloning(h) =>
    /\ repo.made
    /\ op[h].pc # "connect" => repo.tracked
    /\ \A g \in Handlers \ {h} : ~Cloning(g)

\* A repository whose clone was killed before it had a refspec has no ref, unless
\* a fetch asked for all tags.
RefIsTracked == ~repo.tracked /\ ~volume.withTags => repo.ref = None

\* No file of another commit is on disk for a pinned one, or has been returned, and
\* nothing but the pinned commit is about to be checked out.
PinnedFiles(files) == files \subseteq {Pinned, None}

PinnedCalls ==
  IsPinned =>
    /\ PinnedFiles(repo.tree)
    /\ \A i \in 1..2 : PinnedFiles(content[i])
    /\ \A h \in Handlers :
         /\ op[h].pc \notin {"populate", "populating", "fetch", "fetching", "resolve"}
         /\ op[h].pc \in {"checkout", "switching"} => op[h].sha = Pinned
         /\ \A i \in 1..2 : PinnedFiles(op[h].copied[i])

\* What a call for a pinned commit or a tag has made of the repository and of the
\* content directory, if no other call came between.
AloneStage(h) ==
  LET c  == op[h]
      at == c.pc
  IN  /\ Active(h) => remote \in c.named /\ \A g \in Handlers \ {h} : ~Active(g)
      /\ at = "install" => c.sha \in c.named
      /\ at \in {"populate", "populating", "resolve"} => repo.ref \in c.named \cup {None}
      /\ at \in {"checkout", "switching", "move", "head", "clear", "copy", "copying", "count",
                 "served"} => c.sha \in IF IsPinned THEN {Pinned} ELSE c.named
      /\ at \in {"move", "head", "clear", "copy", "copying"} => repo.tree = {c.sha}
      /\ at = "head" => repo.head = c.sha
      /\ at \in {"clear", "copy", "copying", "count", "served"} => c.resolved = c.sha
      /\ at = "copy" => content = NoContent
      /\ at \in {"copying", "count"} => content[1] = {c.sha}
      /\ at = "copying" => content[2] = NoFiles
      /\ at = "count" => content[2] = {c.sha}
      /\ at = "served" => \A i \in 1..2 : c.copied[i] = {c.sha}

AloneCalls ==
  volume.kind # "branch" => \A h \in Handlers : op[h].alone => AloneStage(h)

IInv ==
  /\ TypeOK
  /\ ClonesAreAlone
  /\ RefIsTracked
  /\ PinnedCalls
  /\ AloneCalls

-----------------------------------------------------------------------------
(* The steps. *)

\* A step of one call leaves the calls of the others as they are.
LEMMA OthersRest ==
  ASSUME TypeOK, NEW h \in Handlers, Step(h) \/ Fail(h) \/ Deadline(h),
         NEW g \in Handlers \ {h}
  PROVE  op'[g] = op[g]
<1> USE DEF TypeOK
<1>1. CASE Step(h)
  BY <1>1 DEF Step, Command, CloneMakes, CloneConnects, CloneLocks, CloneReceives,
              CloneSetsHead, FetchLocks, FetchReceives, Resolve, LockIndex, WriteTree,
              MoveHead, ReadHead, ClearContent, CopyBegins, CopyEnds, Return, Goto, Error
<1>2. CASE Fail(h) \/ Deadline(h)
  BY <1>2 DEF Fail, Deadline, Error
<1> QED
  BY <1>1, <1>2

\* A call that takes a step is active.
LEMMA StepIsActive ==
  ASSUME NEW h \in Handlers, Step(h) \/ Fail(h) \/ Deadline(h) PROVE Active(h)
BY DEF Step, Command, CloneMakes, CloneConnects, CloneLocks, CloneReceives, CloneSetsHead,
       FetchLocks, FetchReceives, Resolve, LockIndex, WriteTree, MoveHead, ReadHead,
       ClearContent, CopyBegins, CopyEnds, Return, Fail, Deadline, Disconnects, Blocked,
       Trips, Active

\* Two records of a call agree but for the stage, or but for one more field.
SameButStage(c, d) ==
  /\ c.sha = d.sha /\ c.resolved = d.resolved /\ c.copied = d.copied
  /\ c.named = d.named /\ c.alone = d.alone

\* A call that goes on changes its stage only.
LEMMA GotoStep ==
  ASSUME TypeOK, NEW h \in Handlers, NEW s, Goto(h, s)
  PROVE  op'[h].pc = s /\ SameButStage(op'[h], op[h])
  BY DEF TypeOK, Call, Goto, SameButStage

\* A call that ends with an error leaves nothing behind in its handler.
LEMMA ErrorStep ==
  ASSUME TypeOK, NEW h \in Handlers, Error(h)
  PROVE  op'[h] = Idle
  BY DEF TypeOK, Error

\* The steps that set one more field of the call.
LEMMA FieldStep ==
  ASSUME TypeOK, NEW h \in Handlers
  PROVE  /\ CloneReceives(h) =>
              /\ op'[h].pc = "install"
              /\ SameButStage(op'[h], [op[h] EXCEPT !.sha = remote])
         /\ CloneSetsHead(h) =>
              /\ op'[h].pc = IF IsPinned THEN "checkout" ELSE "populate"
              /\ SameButStage(op'[h],
                              [op[h] EXCEPT !.sha = IF IsPinned THEN Pinned ELSE op[h].sha])
         /\ Resolve(h) =>
              /\ op'[h].pc = "checkout"
              /\ SameButStage(op'[h], [op[h] EXCEPT !.sha = repo.ref])
         /\ ReadHead(h) =>
              /\ op'[h].pc = "clear"
              /\ SameButStage(op'[h], [op[h] EXCEPT !.resolved = repo.head])
         /\ Return(h) =>
              /\ op'[h].pc = "served"
              /\ SameButStage(op'[h], [op[h] EXCEPT !.copied = content])
<1> USE DEF TypeOK, Call, SameButStage
<1>1. CloneReceives(h) => /\ op'[h].pc = "install"
                          /\ SameButStage(op'[h], [op[h] EXCEPT !.sha = remote])
  BY DEF CloneReceives
<1>2. CloneSetsHead(h) =>
        /\ op'[h].pc = IF IsPinned THEN "checkout" ELSE "populate"
        /\ SameButStage(op'[h], [op[h] EXCEPT !.sha = IF IsPinned THEN Pinned ELSE op[h].sha])
  BY DEF CloneSetsHead
<1>3. Resolve(h) => /\ op'[h].pc = "checkout"
                    /\ SameButStage(op'[h], [op[h] EXCEPT !.sha = repo.ref])
  BY DEF Resolve
<1>4. ReadHead(h) => /\ op'[h].pc = "clear"
                     /\ SameButStage(op'[h], [op[h] EXCEPT !.resolved = repo.head])
  BY DEF ReadHead
<1>5. Return(h) => /\ op'[h].pc = "served"
                   /\ SameButStage(op'[h], [op[h] EXCEPT !.copied = content])
  BY DEF Return
<1> QED
  BY <1>1, <1>2, <1>3, <1>4, <1>5

\* The rest of Materialize, once HEAD has been read.
LEMMA CopyStep ==
  ASSUME TypeOK, NEW h \in Handlers, ClearContent(h) \/ CopyBegins(h) \/ CopyEnds(h) \/ Return(h)
  PROVE  op'[h].pc \in {"copy", "copying", "count", "served"} /\ UNCHANGED repo
BY GotoStep, FieldStep DEF ClearContent, CopyBegins, CopyEnds, Return

\* A clone has the repository to itself until its refs are there.
LEMMA ClonesStep ==
  ASSUME TypeOK, ClonesAreAlone, RefIsTracked, [Next]_vars
  PROVE  ClonesAreAlone' /\ RefIsTracked'
<1> DEFINE Goal == ClonesAreAlone' /\ RefIsTracked'
<1> USE DEF ClonesAreAlone, RefIsTracked, Cloning
<1>0. repo \in Repo
  BY DEF TypeOK
<1>1. ASSUME NEW h \in Handlers, Begin(h) PROVE Goal
  <2>1. op'[h].pc \in {"clone", "checkout", "fetch"}
    BY <1>1 DEF Begin, TypeOK, Idle, CloneOrRefresh
  <2>2. \A g \in Handlers \ {h} : op'[g].pc = op[g].pc
    BY <1>1 DEF Begin, TypeOK, Call
  <2> QED
    BY <1>1, <2>1, <2>2 DEF Begin
<1>2. ASSUME NEW h \in Handlers, Step(h) PROVE Goal
  <2>1. \A g \in Handlers \ {h} : op'[g] = op[g]
    BY <1>2, OthersRest
  <2>2. UNCHANGED volume
    BY <1>2 DEF Step
  <2>3. CASE CloneMakes(h)
    BY <2>1, <2>2, <2>3, GotoStep DEF CloneMakes, Absent
  <2>4. CASE CloneConnects(h)
    BY <1>0, <2>1, <2>2, <2>4, GotoStep DEF CloneConnects, Repo
  <2>5. CASE CloneLocks(h)
    <3>1. op'[h].pc = "receiving"
      BY <2>5, GotoStep DEF CloneLocks
    <3>2. repo'.made = repo.made /\ repo'.tracked = repo.tracked /\ repo'.ref = repo.ref
      BY <1>0, <2>5, ShallowEdit DEF CloneLocks
    <3> QED
      BY <2>1, <2>2, <2>5, <3>1, <3>2 DEF CloneLocks
  <2>6. CASE CloneReceives(h)
    <3>1. op'[h].pc = "install"
      BY <2>6, FieldStep
    <3>2. repo'.made = repo.made /\ repo'.tracked = repo.tracked /\ repo'.ref = repo.ref
      BY <1>0, <2>6, ReceivesKeeps
    <3>3. op[h].pc = "receiving"
      BY <2>6 DEF CloneReceives
    <3> QED
      BY <2>1, <2>2, <3>1, <3>2, <3>3
  <2>7. CASE CloneSetsHead(h)
    <3>1. op'[h].pc \in {"checkout", "populate"}
      BY <2>7, FieldStep
    <3>2. repo'.made = repo.made /\ repo'.tracked = repo.tracked /\ repo.tracked
      BY <1>0, <2>7 DEF CloneSetsHead, Repo
    <3> QED
      BY <2>1, <2>2, <2>7, <3>1, <3>2 DEF CloneSetsHead
  <2>8. CASE FetchLocks(h)
    <3>1. op'[h].pc = "fetching"
      BY <2>8, GotoStep DEF FetchLocks
    <3>2. repo'.made = repo.made /\ repo'.tracked = repo.tracked /\ repo'.ref = repo.ref
      BY <1>0, <2>8 DEF FetchLocks, Repo
    <3> QED
      BY <2>1, <2>2, <3>1, <3>2
  <2>9. CASE FetchReceives(h)
    <3>1. op'[h].pc \in {"idle", "resolve"}
      BY <2>9, GotoStep, ErrorStep DEF FetchReceives, Idle
    <3>2. /\ repo'.made = repo.made /\ repo'.tracked = repo.tracked
          /\ repo'.ref = RefAfterFetch
      BY <1>0, <2>9 DEF FetchReceives, Repo
    <3> QED
      <4>1. ~ repo.tracked /\ ~ volume.withTags => RefAfterFetch = repo.ref
        BY DEF RefAfterFetch
      <4>2. RefIsTracked'
        BY <2>2, <3>2, <4>1
      <4>3. ClonesAreAlone'
        BY <2>1, <2>2, <3>1, <3>2
      <4> QED
        BY <4>2, <4>3
  <2>10. CASE Resolve(h) \/ ReadHead(h) \/ ClearContent(h) \/ CopyBegins(h) \/ CopyEnds(h) \/ Return(h)
    <3>1. ~ Cloning(h)' /\ UNCHANGED repo
      BY <2>10, FieldStep, CopyStep DEF Resolve, ReadHead
    <3> QED
      BY <2>1, <2>2, <3>1
  <2>11. CASE LockIndex(h)
    <3>1. op'[h].pc \in {"populating", "switching"}
      BY <2>11, GotoStep DEF LockIndex
    <3> QED
      BY <1>0, <2>1, <2>2, <2>11, <3>1 DEF LockIndex, Repo
  <2>12. CASE WriteTree(h)
    <3>1. op'[h].pc \in {"resolve", "move"}
      BY <2>12, GotoStep DEF WriteTree
    <3> QED
      BY <1>0, <2>1, <2>2, <2>12, <3>1 DEF WriteTree, Repo
  <2>13. CASE MoveHead(h)
    <3>1. op'[h].pc = "head"
      BY <2>13, GotoStep DEF MoveHead
    <3>2. repo'.made = repo.made /\ repo'.tracked = repo.tracked /\ repo'.ref = repo.ref
      BY <1>0, <2>13 DEF MoveHead, Repo
    <3> QED
      BY <2>1, <2>2, <3>1, <3>2
  <2> QED
    BY <1>2, <2>3, <2>4, <2>5, <2>6, <2>7, <2>8, <2>9, <2>10, <2>11, <2>12, <2>13
       DEF Step, Command
<1>3. ASSUME NEW h \in Handlers, Fail(h) PROVE Goal
  <2>1. op'[h].pc = "idle"
    BY <1>3, ErrorStep DEF Fail, Idle
  <2>2. \A g \in Handlers \ {h} : op'[g] = op[g]
    BY <1>3, OthersRest
  <2>3. CASE op[h].pc \in {"connect", "receive", "receiving"}
    BY <1>3, <2>1, <2>2, <2>3 DEF Fail, Absent
  <2>4. CASE op[h].pc \notin {"connect", "receive", "receiving"}
    <3>1. repo'.made = repo.made /\ repo'.tracked = repo.tracked /\ repo'.ref = repo.ref
      BY <1>0, <1>3, <2>4 DEF Fail, Repo
    <3> QED
      BY <1>3, <2>1, <2>2, <3>1 DEF Fail
  <2> QED
    BY <2>3, <2>4
<1>4. ASSUME NEW h \in Handlers, Deadline(h) PROVE Goal
  <2>1. op'[h].pc = "idle"
    BY <1>4, ErrorStep DEF Deadline, Idle
  <2>2. \A g \in Handlers \ {h} : op'[g] = op[g]
    BY <1>4, OthersRest
  <2>3. repo'.made = repo.made /\ repo'.tracked = repo.tracked /\ repo'.ref = repo.ref
    BY <1>0, <1>4 DEF Deadline, Orphaned, Repo
  <2> QED
    BY <1>4, <2>1, <2>2, <2>3 DEF Deadline
<1>5. CASE Crash
  BY <1>0, <1>5 DEF Crash, Idle, Orphaned, Repo
<1>6. CASE Push
  <2>1. \A g \in Handlers : op'[g].pc = op[g].pc
    BY <1>6 DEF Push, TypeOK, Call
  <2> QED
    BY <1>6, <2>1 DEF Push
<1>7. CASE Evict
  BY <1>7 DEF Evict, AtRest, Active, Absent
<1>8. CASE UNCHANGED vars
  BY <1>8 DEF vars
<1> QED
  BY <1>1, <1>2, <1>3, <1>4, <1>5, <1>6, <1>7, <1>8 DEF Next

-----------------------------------------------------------------------------
(* Pinned volumes. *)

\* A step of a call for a pinned commit keeps the work tree, the content directory
\* and what is about to be checked out within that commit.
LEMMA PinnedWork ==
  ASSUME TypeOK, PinnedCalls, IsPinned, NEW h \in Handlers, Step(h)
  PROVE  /\ PinnedFiles(repo'.tree)
         /\ \A i \in 1..2 : PinnedFiles(content'[i])
         /\ op'[h].pc \notin {"populate", "populating", "fetch", "fetching", "resolve"}
         /\ op'[h].pc \in {"checkout", "switching"} => op'[h].sha = Pinned
         /\ \A i \in 1..2 : PinnedFiles(op'[h].copied[i])
<1> DEFINE Tree    == PinnedFiles(repo'.tree)
<1> DEFINE OnDisk  == \A i \in 1..2 : PinnedFiles(content'[i])
<1> DEFINE Stage   == /\ op'[h].pc \notin {"populate", "populating", "fetch", "fetching", "resolve"}
                      /\ op'[h].pc \in {"checkout", "switching"} => op'[h].sha = Pinned
<1> DEFINE Told    == \A i \in 1..2 : PinnedFiles(op'[h].copied[i])
<1>0. /\ repo \in Repo /\ op[h] \in Call /\ content \in Content
      /\ PinnedFiles(repo.tree)
      /\ \A i \in 1..2 : PinnedFiles(content[i])
      /\ op[h].pc \notin {"populate", "populating", "fetch", "fetching", "resolve"}
      /\ op[h].pc \in {"checkout", "switching"} => op[h].sha = Pinned
      /\ \A i \in 1..2 : PinnedFiles(op[h].copied[i])
  BY DEF TypeOK, PinnedCalls
<1>1. CASE Command(h) /\ UNCHANGED content
  <2>1. OnDisk
    BY <1>0, <1>1
  <2>2. CASE CloneMakes(h) \/ CloneConnects(h) \/ CloneLocks(h)
    <3>1. /\ op'[h].pc \in {"connect", "receive", "receiving"}
          /\ op'[h].copied = op[h].copied
      BY <2>2, GotoStep DEF CloneMakes, CloneConnects, CloneLocks, SameButStage
    <3>2. Tree
      BY <1>0, <2>2 DEF CloneMakes, CloneConnects, CloneLocks, Absent, Repo, NoFiles, PinnedFiles
    <3> QED
      BY <1>0, <2>1, <3>1, <3>2
  <2>3. CASE CloneReceives(h)
    <3>1. op'[h].pc = "install" /\ op'[h].copied = op[h].copied
      BY <1>0, <2>3, FieldStep DEF SameButStage, Call
    <3>2. Tree
      BY <1>0, <2>3 DEF CloneReceives, Repo
    <3> QED
      BY <1>0, <2>1, <3>1, <3>2
  <2>4. CASE CloneSetsHead(h)
    <3>1. op'[h].pc = "checkout" /\ op'[h].sha = Pinned /\ op'[h].copied = op[h].copied
      BY <1>0, <2>4, FieldStep DEF SameButStage, Call
    <3>2. Tree
      BY <1>0, <2>4 DEF CloneSetsHead, Repo
    <3> QED
      BY <1>0, <2>1, <3>1, <3>2
  <2>5. CASE FetchLocks(h) \/ FetchReceives(h) \/ Resolve(h)
    BY <1>0, <2>5 DEF FetchLocks, FetchReceives, Resolve
  <2>6. CASE LockIndex(h)
    <3>1. op[h].pc = "checkout" /\ op[h].sha = Pinned
      BY <1>0, <2>6 DEF LockIndex
    <3>2. /\ op'[h].pc = "switching" /\ SameButStage(op'[h], op[h])
      BY <2>6, <3>1, GotoStep DEF LockIndex
    <3>3. Tree
      BY <1>0, <2>6, <3>1 DEF LockIndex, Repo, PinnedFiles
    <3> QED
      BY <1>0, <2>1, <3>1, <3>2, <3>3 DEF SameButStage
  <2>7. CASE WriteTree(h)
    <3>1. op[h].pc = "switching" /\ op[h].sha = Pinned
      BY <1>0, <2>7 DEF WriteTree
    <3>2. /\ op'[h].pc = "move" /\ SameButStage(op'[h], op[h])
      BY <2>7, <3>1, GotoStep DEF WriteTree
    <3>3. Tree
      BY <1>0, <2>7, <3>1 DEF WriteTree, Repo, PinnedFiles
    <3> QED
      BY <1>0, <2>1, <3>2, <3>3 DEF SameButStage
  <2>8. CASE MoveHead(h)
    <3>1. op'[h].pc = "head" /\ SameButStage(op'[h], op[h])
      BY <2>8, GotoStep DEF MoveHead
    <3>2. Tree
      BY <1>0, <2>8 DEF MoveHead, Repo
    <3> QED
      BY <1>0, <2>1, <3>1, <3>2 DEF SameButStage
  <2>9. CASE ReadHead(h)
    <3>1. op'[h].pc = "clear" /\ op'[h].copied = op[h].copied
      BY <1>0, <2>9, FieldStep DEF SameButStage, Call
    <3>2. Tree
      BY <1>0, <2>9 DEF ReadHead
    <3> QED
      BY <1>0, <2>1, <3>1, <3>2
  <2> QED
    BY <1>1, <2>2, <2>3, <2>4, <2>5, <2>6, <2>7, <2>8, <2>9 DEF Command
<1>2. CASE ClearContent(h)
  <2>1. op'[h].pc = "copy" /\ SameButStage(op'[h], op[h]) /\ UNCHANGED repo
    BY <1>2, GotoStep DEF ClearContent
  <2>2. OnDisk
    BY <1>2 DEF ClearContent, NoContent, NoFiles, PinnedFiles
  <2> QED
    BY <1>0, <2>1, <2>2 DEF SameButStage
<1>3. CASE CopyBegins(h) \/ CopyEnds(h)
  <2>1. /\ op'[h].pc \in {"copying", "count"} /\ SameButStage(op'[h], op[h]) /\ UNCHANGED repo
    BY <1>3, GotoStep DEF CopyBegins, CopyEnds
  <2>2. PICK j \in 1..2 : CopyPart(j)
    BY <1>3 DEF CopyBegins, CopyEnds
  <2>3. OnDisk
    BY <1>0, <2>2 DEF CopyPart, Content, PinnedFiles
  <2> QED
    BY <1>0, <2>1, <2>3 DEF SameButStage
<1>4. CASE Return(h)
  <2>1. op'[h].pc = "served" /\ op'[h].copied = content
    BY <1>0, <1>4, FieldStep DEF SameButStage, Call
  <2>2. UNCHANGED <<repo, content>>
    BY <1>4 DEF Return
  <2> QED
    BY <1>0, <2>1, <2>2
<1> QED
  BY <1>1, <1>2, <1>3, <1>4 DEF Step

\* Every step keeps the files of a pinned volume within its commit.
LEMMA PinnedStep ==
  ASSUME TypeOK, PinnedCalls, [Next]_vars
  PROVE  PinnedCalls'
<1> DEFINE Calm(h) == /\ op'[h].pc \notin {"populate", "populating", "fetch", "fetching", "resolve"}
                      /\ op'[h].pc \in {"checkout", "switching"} => op'[h].sha = Pinned
                      /\ \A i \in 1..2 : PinnedFiles(op'[h].copied[i])
<1> DEFINE Disk == PinnedFiles(repo'.tree) /\ \A i \in 1..2 : PinnedFiles(content'[i])
<1>0. UNCHANGED volume
  BY DEF Next, vars, Begin, Step, Fail, Deadline, Crash, Push, Evict
<1> SUFFICES ASSUME IsPinned PROVE Disk /\ \A h \in Handlers : Calm(h)
  BY <1>0 DEF PinnedCalls, IsPinned, PinnedFiles
<1>1. /\ repo \in Repo
      /\ PinnedFiles(repo.tree)
      /\ \A i \in 1..2 : PinnedFiles(content[i])
      /\ \A h \in Handlers :
           /\ op[h].pc \notin {"populate", "populating", "fetch", "fetching", "resolve"}
           /\ op[h].pc \in {"checkout", "switching"} => op[h].sha = Pinned
           /\ \A i \in 1..2 : PinnedFiles(op[h].copied[i])
  BY DEF TypeOK, PinnedCalls
<1>2. \A h \in Handlers : op'[h] = op[h] => Calm(h)
  BY <1>1
<1>3. \A h \in Handlers : op'[h] = Idle => Calm(h)
  BY DEF Idle, NoContent, NoFiles, PinnedFiles
<1>4. ASSUME NEW h \in Handlers, Begin(h) PROVE Disk /\ \A g \in Handlers : Calm(g)
  <2>1. /\ op'[h].pc \in {"clone", "checkout"} /\ op'[h].sha = Pinned
        /\ op'[h].copied = NoContent
    BY <1>4 DEF Begin, TypeOK, Idle, CloneOrRefresh
  <2>2. \A g \in Handlers \ {h} :
          op'[g].pc = op[g].pc /\ op'[g].sha = op[g].sha /\ op'[g].copied = op[g].copied
    BY <1>4 DEF Begin, TypeOK, Call
  <2>3. Calm(h)
    BY <2>1 DEF NoContent, NoFiles, PinnedFiles
  <2> QED
    BY <1>1, <1>4, <2>2, <2>3 DEF Begin
<1>5. ASSUME NEW h \in Handlers, Step(h) PROVE Disk /\ \A g \in Handlers : Calm(g)
  <2>1. Disk /\ Calm(h)
    BY <1>5, PinnedWork
  <2>2. \A g \in Handlers \ {h} : Calm(g)
    BY <1>2, <1>5, OthersRest
  <2> QED
    BY <2>1, <2>2
<1>6. ASSUME NEW h \in Handlers, Fail(h) \/ Deadline(h) PROVE Disk /\ \A g \in Handlers : Calm(g)
  <2>1. Calm(h)
    BY <1>3, <1>6, ErrorStep DEF Fail, Deadline
  <2>2. \A g \in Handlers \ {h} : Calm(g)
    BY <1>2, <1>6, OthersRest
  <2>3. Fail(h) => repo'.tree \in {repo.tree, NoFiles} /\ UNCHANGED content
    <3>1. /\ Absent.tree = NoFiles
          /\ [repo EXCEPT !.shallow = IF @ = h THEN Free ELSE @,
                          !.index   = IF @ = h THEN Free ELSE @].tree = repo.tree
      BY <1>1 DEF Absent, Repo
    <3> QED
      BY <3>1 DEF Fail
  <2>4. Deadline(h) => repo'.tree = repo.tree /\ UNCHANGED content
    BY <1>1 DEF Deadline, Orphaned, Repo
  <2> QED
    BY <1>1, <1>6, <2>1, <2>2, <2>3, <2>4 DEF NoFiles, PinnedFiles
<1>7. CASE Crash
  <2>1. \A h \in Handlers : op'[h] = Idle
    BY <1>7 DEF Crash
  <2>2. repo'.tree = repo.tree /\ UNCHANGED content
    BY <1>1, <1>7 DEF Crash, Orphaned, Repo
  <2> QED
    BY <1>1, <1>3, <2>1, <2>2
<1>8. CASE Push
  <2>1. \A g \in Handlers :
          op'[g].pc = op[g].pc /\ op'[g].sha = op[g].sha /\ op'[g].copied = op[g].copied
    BY <1>8 DEF Push, TypeOK, Call
  <2> QED
    BY <1>1, <1>8, <2>1 DEF Push
<1>9. CASE Evict
  BY <1>1, <1>2, <1>9 DEF Evict, Absent, NoContent, NoFiles, PinnedFiles
<1>10. CASE UNCHANGED vars
  BY <1>1, <1>2, <1>10 DEF vars
<1> QED
  BY <1>4, <1>5, <1>6, <1>7, <1>8, <1>9, <1>10 DEF Next

-----------------------------------------------------------------------------
(* Calls that nobody overlaps. *)

\* A call that has ended does not look at the disk any more.
LEMMA EndedStays ==
  ASSUME NEW g \in Handlers, ~Active(g), AloneStage(g), op'[g] = op[g], UNCHANGED volume
  PROVE  AloneStage(g)'
  BY DEF AloneStage, Active, IsPinned

\* While a call is alone only it makes steps; the others have ended.
LEMMA OthersEnded ==
  ASSUME TypeOK, NEW h \in Handlers, Active(h), UNCHANGED volume,
         \A g \in Handlers : op[g].alone => AloneStage(g),
         Step(h) \/ Fail(h) \/ Deadline(h),
         NEW g \in Handlers \ {h}, op'[g].alone
  PROVE  AloneStage(g)'
<1>1. op'[g] = op[g]
  BY OthersRest
<1>2. AloneStage(g) /\ ~Active(g)
  BY <1>1 DEF AloneStage
<1> QED
  BY <1>1, <1>2, EndedStays

\* A step of a call that is alone keeps its stage.
LEMMA AloneWork ==
  ASSUME TypeOK, RefIsTracked, PinnedCalls, volume.kind # "branch", NEW h \in Handlers,
         Step(h), op[h].alone, AloneStage(h)
  PROVE  AloneStage(h)'
<1>0. repo \in Repo /\ op[h] \in Call /\ content \in Content
  BY DEF TypeOK
<1>1. UNCHANGED <<remote, volume>> /\ (IsPinned <=> IsPinned')
  BY DEF Step, IsPinned
<1>2. Active(h)
  BY StepIsActive
<1>3. \A g \in Handlers \ {h} : ~Active(g)'
  BY <1>2, OthersRest DEF AloneStage, Active
<1>4. remote \in op[h].named
  BY <1>2 DEF AloneStage
<1>5. IsPinned => op[h].pc \notin {"populate", "populating", "fetch", "fetching", "resolve"}
  BY DEF PinnedCalls
<1>6. CASE Command(h) /\ UNCHANGED content
  <2>1. CASE CloneMakes(h) \/ CloneConnects(h) \/ CloneLocks(h) \/ FetchLocks(h)
    <3>1. op'[h].pc \in {"connect", "receive", "receiving", "fetching"}
      BY <2>1, GotoStep DEF CloneMakes, CloneConnects, CloneLocks, FetchLocks
    <3>2. op'[h].named = op[h].named
      BY <2>1, GotoStep DEF CloneMakes, CloneConnects, CloneLocks, FetchLocks, SameButStage
    <3> QED
      BY <1>1, <1>3, <1>4, <3>1, <3>2 DEF AloneStage
  <2>2. CASE CloneReceives(h)
    <3>1. op'[h].pc = "install" /\ op'[h].sha = remote /\ op'[h].named = op[h].named
      BY <1>0, <2>2, FieldStep DEF SameButStage, Call
    <3> QED
      BY <1>1, <1>3, <1>4, <3>1 DEF AloneStage
  <2>3. CASE CloneSetsHead(h)
    <3>1. /\ op'[h].pc = IF IsPinned THEN "checkout" ELSE "populate"
          /\ op'[h].sha = IF IsPinned THEN Pinned ELSE op[h].sha
          /\ op'[h].named = op[h].named
      BY <1>0, <2>3, FieldStep DEF SameButStage, Call
    <3>2. repo'.ref = op[h].sha /\ op[h].sha \in op[h].named
      BY <1>0, <2>3 DEF CloneSetsHead, Repo, AloneStage
    <3> QED
      BY <1>1, <1>3, <1>4, <3>1, <3>2 DEF AloneStage
  <2>4. CASE FetchReceives(h)
    <3>1. ~IsPinned
      BY <1>5, <2>4 DEF FetchReceives
    <3>2. volume.kind = "tag"
      BY <3>1, KindAssumption DEF IsPinned, TypeOK, Volumes
    <3>3. CASE TagIsRejected
      <4>1. op'[h] = Idle
        BY <2>4, <3>3, ErrorStep DEF FetchReceives
      <4> QED
        BY <4>1 DEF Idle, AloneStage, Active
    <3>4. CASE ~TagIsRejected
      <4>1. op'[h].pc = "resolve" /\ op'[h].named = op[h].named
        BY <2>4, <3>4, GotoStep DEF FetchReceives, SameButStage
      <4>2. repo'.ref = RefAfterFetch
        BY <1>0, <2>4 DEF FetchReceives, Repo
      <4>3. RefAfterFetch \in {remote, None}
        BY <3>2, <3>4 DEF TagIsRejected, RefAfterFetch, RefIsTracked
      <4> QED
        BY <1>1, <1>3, <1>4, <4>1, <4>2, <4>3 DEF AloneStage
    <3> QED
      BY <3>3, <3>4
  <2>5. CASE Resolve(h)
    <3>1. op'[h].pc = "checkout" /\ op'[h].sha = repo.ref /\ op'[h].named = op[h].named
      BY <1>0, <2>5, FieldStep DEF SameButStage, Call
    <3>2. repo.ref \in op[h].named /\ ~IsPinned
      BY <1>5, <2>5 DEF Resolve, AloneStage
    <3> QED
      BY <1>1, <1>3, <1>4, <3>1, <3>2 DEF AloneStage
  <2>6. CASE LockIndex(h)
    <3>1. /\ op'[h].pc = IF op[h].pc = "populate" THEN "populating" ELSE "switching"
          /\ SameButStage(op'[h], op[h])
      BY <2>6, GotoStep DEF LockIndex
    <3>2. repo'.ref = repo.ref
      BY <1>0, <2>6 DEF LockIndex, Repo
    <3> QED
      BY <1>1, <1>3, <1>4, <2>6, <3>1, <3>2 DEF AloneStage, LockIndex, SameButStage
  <2>7. CASE WriteTree(h)
    <3>1. /\ op'[h].pc = IF op[h].pc = "populating" THEN "resolve" ELSE "move"
          /\ SameButStage(op'[h], op[h])
      BY <2>7, GotoStep DEF WriteTree
    <3>2. repo'.ref = repo.ref /\ repo'.tree = {op[h].sha}
      BY <1>0, <2>7 DEF WriteTree, Repo
    <3> QED
      BY <1>1, <1>3, <1>4, <2>7, <3>1, <3>2 DEF AloneStage, WriteTree, SameButStage
  <2>8. CASE MoveHead(h)
    <3>1. op'[h].pc = "head" /\ SameButStage(op'[h], op[h])
      BY <2>8, GotoStep DEF MoveHead
    <3>2. repo'.tree = repo.tree /\ repo'.head = op[h].sha
      BY <1>0, <2>8 DEF MoveHead, Repo
    <3> QED
      BY <1>1, <1>3, <1>4, <2>8, <3>1, <3>2 DEF AloneStage, MoveHead, SameButStage
  <2>9. CASE ReadHead(h)
    <3>1. /\ op'[h].pc = "clear" /\ op'[h].resolved = repo.head
          /\ op'[h].sha = op[h].sha /\ op'[h].named = op[h].named
      BY <1>0, <2>9, FieldStep DEF SameButStage, Call
    <3> QED
      BY <1>1, <1>3, <1>4, <2>9, <3>1 DEF AloneStage, ReadHead
  <2> QED
    BY <1>6, <2>1, <2>2, <2>3, <2>4, <2>5, <2>6, <2>7, <2>8, <2>9 DEF Command
<1>7. CASE ClearContent(h)
  <2>1. op'[h].pc = "copy" /\ SameButStage(op'[h], op[h])
    BY <1>7, GotoStep DEF ClearContent
  <2> QED
    BY <1>1, <1>3, <1>4, <1>7, <2>1 DEF AloneStage, ClearContent, SameButStage
<1>8. CASE CopyBegins(h)
  <2>1. op'[h].pc = "copying" /\ SameButStage(op'[h], op[h])
    BY <1>8, GotoStep DEF CopyBegins
  <2>2. content = NoContent /\ repo.tree = {op[h].sha}
    BY <1>8 DEF AloneStage, CopyBegins
  <2>3. content'[1] = {op[h].sha} /\ content'[2] = NoFiles
    BY <1>0, <1>8, <2>2 DEF CopyBegins, CopyPart, Content, NoContent, NoFiles
  <2> QED
    BY <1>1, <1>3, <1>4, <1>8, <2>1, <2>3 DEF AloneStage, CopyBegins, SameButStage
<1>9. CASE CopyEnds(h)
  <2>1. op'[h].pc = "count" /\ SameButStage(op'[h], op[h])
    BY <1>9, GotoStep DEF CopyEnds
  <2>2. content[1] = {op[h].sha} /\ content[2] = NoFiles /\ repo.tree = {op[h].sha}
    BY <1>9 DEF AloneStage, CopyEnds
  <2>3. content'[1] = {op[h].sha} /\ content'[2] = {op[h].sha}
    BY <1>0, <1>9, <2>2 DEF CopyEnds, CopyPart, Content, NoFiles
  <2> QED
    BY <1>1, <1>3, <1>4, <1>9, <2>1, <2>3 DEF AloneStage, CopyEnds, SameButStage
<1>10. CASE Return(h)
  <2>1. /\ op'[h].pc = "served" /\ op'[h].copied = content
        /\ op'[h].resolved = op[h].resolved
        /\ op'[h].sha = op[h].sha /\ op'[h].named = op[h].named
    BY <1>0, <1>10, FieldStep DEF SameButStage, Call
  <2>2. content[1] = {op[h].sha} /\ content[2] = {op[h].sha}
    BY <1>10 DEF AloneStage, Return
  <2>3. /\ op[h].resolved = op[h].sha
        /\ op[h].sha \in IF IsPinned THEN {Pinned} ELSE op[h].named
    BY <1>10 DEF AloneStage, Return
  <2>4. \A i \in 1..2 : op'[h].copied[i] = {op'[h].sha}
    <3>1. 1..2 = {1, 2}
      OBVIOUS
    <3> QED
      BY <2>1, <2>2, <3>1
  <2> QED
    BY <1>1, <1>3, <1>4, <2>1, <2>3, <2>4 DEF AloneStage
<1> QED
  BY <1>6, <1>7, <1>8, <1>9, <1>10 DEF Step

\* Whether another call has overlapped is not changed by a call's own steps.
LEMMA AloneStays ==
  ASSUME TypeOK, NEW h \in Handlers, Step(h)
  PROVE  op'[h] = Idle \/ op'[h].alone = op[h].alone
<1>1. op[h] \in Call
  BY DEF TypeOK
<1>2. CASE CloneReceives(h) \/ CloneSetsHead(h) \/ Resolve(h) \/ ReadHead(h) \/ Return(h)
  BY <1>1, <1>2, FieldStep DEF SameButStage, Call
<1>3. CASE \E s : Goto(h, s)
  BY <1>3, GotoStep DEF SameButStage
<1>4. CASE Error(h)
  BY <1>4, ErrorStep
<1> QED
  BY <1>2, <1>3, <1>4 DEF Step, Command, CloneMakes, CloneConnects, CloneLocks, FetchLocks,
     FetchReceives, LockIndex, WriteTree, MoveHead, ClearContent, CopyBegins, CopyEnds

\* Every step keeps the stages of calls that are alone.
LEMMA AloneStep ==
  ASSUME TypeOK, RefIsTracked, PinnedCalls, AloneCalls, [Next]_vars
  PROVE  AloneCalls'
<1>0. UNCHANGED volume
  BY DEF Next, vars, Begin, Step, Fail, Deadline, Crash, Push, Evict
<1> SUFFICES ASSUME volume.kind # "branch", NEW g \in Handlers, op'[g].alone
             PROVE  AloneStage(g)'
  BY <1>0 DEF AloneCalls
<1>1. \A h \in Handlers : op[h].alone => AloneStage(h)
  BY DEF AloneCalls
<1>2. ASSUME NEW h \in Handlers, Begin(h) PROVE AloneStage(g)'
  <2> DEFINE others == {x \in Handlers \ {h} : Active(x)}
  <2>1. /\ op'[h].pc = CloneOrRefresh
        /\ op'[h].sha = IF IsPinned THEN Pinned ELSE None
        /\ op'[h].named = {remote} /\ op'[h].alone = (others = {})
    BY <1>2 DEF Begin, TypeOK, Idle
  <2>2. \A x \in Handlers \ {h} : op'[x] = IF x \in others THEN [op[x] EXCEPT !.alone = FALSE]
                                           ELSE op[x]
    BY <1>2 DEF Begin, TypeOK
  <2>3. \A x \in others : op'[x].alone = FALSE
    <3> SUFFICES ASSUME NEW x \in others
                 PROVE  op'[x].alone = FALSE
      OBVIOUS
    <3>1. op[x] \in Call /\ op'[x] = [op[x] EXCEPT !.alone = FALSE]
      BY <2>2 DEF TypeOK
    <3> QED
      BY <3>1 DEF Call
  <2>4. UNCHANGED remote
    BY <1>2 DEF Begin
  <2>5. CASE g = h
    <3>1. /\ op'[h].pc \in {"clone", "fetch", "checkout"}
          /\ op'[h].pc = "checkout" => IsPinned /\ op'[h].sha = Pinned
      BY <2>1 DEF CloneOrRefresh
    <3>2. \A x \in Handlers \ {h} : ~Active(x)'
      BY <2>1, <2>2, <2>5 DEF Active
    <3>3. IsPinned <=> IsPinned'
      BY <1>0 DEF IsPinned
    <3> QED
      BY <2>1, <2>4, <2>5, <3>1, <3>2, <3>3 DEF AloneStage
  <2>6. CASE g # h
    <3>1. op'[g] = op[g] /\ ~Active(g)
      BY <2>2, <2>3, <2>6
    <3> QED
      BY <1>0, <1>1, <3>1, EndedStays
  <2> QED
    BY <2>5, <2>6
<1>3. ASSUME NEW h \in Handlers, Step(h) PROVE AloneStage(g)'
  <2>1. Active(h)
    BY <1>3, StepIsActive
  <2>2. CASE g = h
    <3>1. op[h].alone \/ op'[h] = Idle
      BY <1>3, <2>2, AloneStays
    <3>2. op'[h] = Idle => AloneStage(h)'
      BY DEF Idle, AloneStage, Active
    <3> QED
      BY <1>1, <1>3, <2>2, <3>1, <3>2, AloneWork
  <2>3. CASE g # h
    BY <1>0, <1>1, <1>3, <2>1, <2>3, OthersEnded
  <2> QED
    BY <2>2, <2>3
<1>4. ASSUME NEW h \in Handlers, Fail(h) \/ Deadline(h) PROVE AloneStage(g)'
  <2>1. Active(h)
    BY <1>4, StepIsActive
  <2>2. op'[h] = Idle
    BY <1>4, ErrorStep DEF Fail, Deadline
  <2>3. CASE g = h
    BY <2>2, <2>3 DEF Idle, AloneStage, Active
  <2>4. CASE g # h
    BY <1>0, <1>1, <1>4, <2>1, <2>4, OthersEnded
  <2> QED
    BY <2>3, <2>4
<1>5. CASE Crash
  <2>1. op'[g] = Idle
    BY <1>5 DEF Crash
  <2> QED
    BY <2>1 DEF Idle, AloneStage, Active
<1>6. CASE Push
  <2>1. \A x \in Handlers :
          /\ op'[x].pc = op[x].pc /\ op'[x].sha = op[x].sha /\ op'[x].alone = op[x].alone
          /\ op'[x].resolved = op[x].resolved /\ op'[x].copied = op[x].copied
          /\ op'[x].named = IF Active(x) THEN op[x].named \cup {remote'} ELSE op[x].named
    BY <1>6 DEF Push, TypeOK, Call
  <2>2. UNCHANGED <<repo, content>> /\ (IsPinned <=> IsPinned')
    BY <1>0, <1>6 DEF Push, IsPinned
  <2>3. AloneStage(g)
    BY <1>1, <2>1
  <2>4. Active(g)' => remote' \in op'[g].named /\ \A x \in Handlers \ {g} : ~Active(x)'
    BY <2>1, <2>3 DEF AloneStage, Active
  <2>5. /\ op'[g].pc = op[g].pc /\ op'[g].sha = op[g].sha
        /\ op'[g].resolved = op[g].resolved /\ op'[g].copied = op[g].copied
        /\ op[g].named \subseteq op'[g].named
    BY <2>1
  <2> QED
    BY <2>2, <2>3, <2>4, <2>5 DEF AloneStage
<1>7. CASE Evict
  BY <1>0, <1>1, <1>7, EndedStays DEF Evict, AtRest
<1>8. CASE UNCHANGED vars
  BY <1>1, <1>8 DEF vars, AloneStage, Active, IsPinned
<1> QED
  BY <1>2, <1>3, <1>4, <1>5, <1>6, <1>7, <1>8 DEF Next

-----------------------------------------------------------------------------
(* The theorems. *)

\* The inductive invariant.  Of all calls, overlapping ones included: one clones
\* at a time (os.Stat of repo/.git, mkdir by git), and no file of another commit is
\* written for a pinned one.  Of calls that nobody overlaps, for pinned commits and
\* tags: what each stage has made of the repository and the content directory,
\* whatever killed commands, locks, pushes and evictions left there.
THEOREM Invariance == Spec => []IInv
<1>1. Init => IInv
  <2> SUFFICES ASSUME Init PROVE IInv
    OBVIOUS
  <2>1. TypeOK
    BY IdleType, AbsentType, NumberAssumption DEF Init, TypeOK, Commits
  <2>2. \A h \in Handlers : op[h] = Idle
    BY DEF Init
  <2>3. repo = Absent /\ content = NoContent
    BY DEF Init
  <2>4. ClonesAreAlone /\ RefIsTracked /\ AloneCalls
    BY <2>2, <2>3 DEF ClonesAreAlone, RefIsTracked, AloneCalls, AloneStage, Cloning, Active,
       Idle, Absent
  <2>5. PinnedCalls
    BY <2>2, <2>3 DEF PinnedCalls, PinnedFiles, Idle, Absent, NoContent, NoFiles
  <2> QED
    BY <2>1, <2>4, <2>5 DEF IInv
<1>2. IInv /\ [Next]_vars => IInv'
  BY TypeInvariance, ClonesStep, PinnedStep, AloneStep DEF IInv
<1> QED
  BY <1>1, <1>2, PTL DEF Spec

\* What Materialize returns for a pinned commit has no file of another commit, for
\* any number of calls that share the repository and the content directory, at any
\* depths, through any deadlines, restarts, leftover locks and evictions.  That all
\* the files are there is not promised when calls overlap.
THEOREM PinnedNoOther == Spec => []PinnedServesNoOther
<1>1. IInv => PinnedServesNoOther
  BY DEF IInv, PinnedCalls, PinnedFiles, PinnedServesNoOther
<1> QED
  BY <1>1, Invariance, PTL

\* A call that nobody overlapped has served one whole commit and told its name:
\* the pinned one, or one that the tag named while the call ran.  For branches this
\* is not so: run GitBranch.
THEOREM IsolatedFresh == Spec => [](volume.kind = "branch" \/ IsolatedIsFresh)
<1>1. IInv => volume.kind = "branch" \/ IsolatedIsFresh
  <2> SUFFICES ASSUME IInv, volume.kind # "branch", NEW h \in Handlers,
                      Served(h), op[h].alone
               PROVE  /\ op[h].resolved \in IF IsPinned THEN {Pinned} ELSE op[h].named
                      /\ \A i \in 1..2 : op[h].copied[i] = {op[h].resolved}
    BY DEF IsolatedIsFresh
  <2>1. AloneStage(h)
    BY DEF IInv, AloneCalls
  <2> QED
    BY <2>1 DEF AloneStage, Served
<1> QED
  BY <1>1, Invariance, PTL
=============================================================================
