--------------------------- MODULE MountVolumesProofs ---------------------------
(***************************************************************************)
(* MountPipeline implements Volume for every value of the constants: each  *)
(* step of a handler, the kubelet or the environment is a step of Volume,  *)
(* or none.  Where no two calls can meet, every volume is served, and the  *)
(* promise is never void.                                                  *)
(***************************************************************************)
EXTENDS MountVolumes, MountPipelineProofs, EvictionProofs

\* What the refinement rests on.
RInv == IInv /\ TargetIsRemoved

-----------------------------------------------------------------------------
(* The target of a call that removes it. *)

\* RemoveAll of an unpublish ends well only when the target does not exist.
LEMMA UnpublishRemoves ==
  ASSUME TypeOK, CallsAreWellFormed, NEW h \in Handlers, Work(h),
         op[h].pc = "unpublish", op'[h].pc = "reply"
  PROVE  op[h].target \notin dirs'
<1> DEFINE t == op[h].target
<1>1. op[h] \in Call /\ WellFormed(op[h])
  BY DEF TypeOK, CallsAreWellFormed
<1>2. RemoveOpen(h) \/ RemoveEntry(h) \/ RemoveDir(h)
  BY DEF Work, Clone, CloneFails, MakeContentDir, ExportCreate, ExportFill, CheckLimits,
         MakeMetaDir, WriteMetadata, EvictScan, MakeTarget, ListContent, CopyOpen, CopyData,
         ChmodReadOnly
<1>3. RemovalPlaces(op[h]) = {t}
  BY DEF RemovalPlaces
<1>4. \A ok \in BOOLEAN : Removed(op[h], t, ok).pc = IF ok THEN "reply" ELSE "fail"
  BY <1>1 DEF Removed, AfterRemoval, Call
<1>5. CASE RemoveOpen(h)
  <2>1. op'[h] = IF t \in dirs THEN [op[h] EXCEPT !.removing = t, !.todo = Present(t)]
                 ELSE Removed(op[h], t, TRUE)
    BY <1>3, <1>5 DEF RemoveOpen, TypeOK
  <2>2. t \in dirs => op'[h].pc = "unpublish"
    BY <1>1, <2>1 DEF Call
  <2> QED
    BY <1>5, <2>2 DEF RemoveOpen, diskVars
<1>6. CASE RemoveEntry(h)
  BY <1>1, <1>6 DEF RemoveEntry, TypeOK, Call
<1>7. CASE RemoveDir(h)
  <2>1. op[h].removing = t
    BY <1>1, <1>3, <1>7 DEF RemoveDir, WellFormed
  <2>2. op'[h] = Removed(op[h], t, Present(t) = {})
    BY <1>7, <2>1 DEF RemoveDir
  <2>3. Present(t) = {}
    BY <1>4, <2>2
  <2> QED
    BY <1>7, <2>1, <2>3 DEF RemoveDir
<1> QED
  BY <1>2, <1>5, <1>6, <1>7

\* Handlers that do not move keep their stage and commit.
LEMMA OthersKeepStage ==
  ASSUME TypeOK, NEW h \in Handlers, Work(h) \/ ReturnError(h) \/ ReturnOK(h),
         NEW g \in Handlers \ {h}
  PROVE  op'[g].pc = op[g].pc /\ op'[g].commit = op[g].commit
<1>1. op[g] \in Call
  BY DEF TypeOK
<1> QED
  BY <1>1, OthersKeep DEF Call

\* What the beginning of a call changes.
LEMMA BeginsCall ==
  ASSUME TypeOK, NEW h \in Handlers, NEW t \in Targets,
         NodePublishVolume(h, t) \/ NodeUnpublishVolume(h, t)
  PROVE  /\ op[h].pc = "idle" /\ caller[t] = Nothing
         /\ op'[h].pc \in {"clone", "unpublish"} /\ op'[h].target = t
         /\ op'[h].removing = Nothing /\ op'[h].commit = 0
         /\ \A g \in Handlers \ {h} : op'[g] = op[g]
         /\ caller' = [caller EXCEPT ![t] = h]
         /\ UNCHANGED <<diskVars, vol, overlapped>>
<1>1. /\ op[h].pc = "idle" /\ caller[t] = Nothing
      /\ caller' = [caller EXCEPT ![t] = h]
      /\ UNCHANGED <<diskVars, vol, overlapped>>
  BY DEF NodePublishVolume, NodeUnpublishVolume
<1>2. PICK s \in {"clone", "unpublish"} : op' = [op EXCEPT ![h] = [Idle EXCEPT !.pc = s, !.target = t]]
  BY DEF NodePublishVolume, NodeUnpublishVolume
<1> DEFINE c == [Idle EXCEPT !.pc = s, !.target = t]
<1>3. c.pc = s /\ c.target = t /\ c.removing = Nothing /\ c.commit = 0
  BY DEF Idle
<1> HIDE DEF c
<1>4. op'[h] = c /\ \A g \in Handlers \ {h} : op'[g] = op[g]
  BY <1>2 DEF TypeOK, c
<1> QED
  BY <1>1, <1>2, <1>3, <1>4

\* Once the target of a released volume is removed, it stays so until another
\* call touches it.
LEMMA RemovedStep ==
  ASSUME TypeOK, CallsAreWellFormed, CallerIsPending, TargetIsRemoved, [Next]_vars
  PROVE  TargetIsRemoved'
<1> SUFFICES ASSUME NEW t \in Targets, caller'[t] # Nothing, vol'[t] = "released",
                    op'[caller'[t]].pc = "reply", caller'[t] \notin overlapped'
             PROVE  t \notin dirs'
  BY DEF TargetIsRemoved
<1>0. /\ caller[t] # Nothing => caller[t] \in Handlers /\ PendingCall(t, op[caller[t]])
      /\ caller[t] # Nothing /\ vol[t] = "released" /\ op[caller[t]].pc = "reply"
           /\ caller[t] \notin overlapped => t \notin dirs
  BY DEF TypeOK, CallerIsPending, TargetIsRemoved
<1>1. ASSUME NEW h \in Handlers, Work(h)
      PROVE  t \notin dirs'
  <2> DEFINE g == caller[t]
  <2>1. /\ caller'[t] = g /\ vol[t] = "released" /\ g \in Handlers
        /\ PendingCall(t, op[g]) /\ op'[g].pc = "reply" /\ g \notin overlapped'
    BY <1>0, <1>1, WorkMovesOn DEF kubeletVars
  <2>2. CASE g = h
    <3>1. op[h].pc = "unpublish" /\ op[h].target = t
      BY <1>1, <2>1, <2>2, WorkMovesOn DEF PendingCall
    <3> QED
      BY <1>1, <2>1, <2>2, <3>1, UnpublishRemoves
  <2>3. CASE g # h
    <3>1. op[g].pc = "reply" /\ op[g].target = t
      BY <1>1, <2>1, <2>3, OthersKeepStage DEF PendingCall
    <3>2. g \notin overlapped
      BY <1>1, <2>1, WorkGrowsOverlap
    <3>3. ~ Touch(h, t)
      BY <2>1, <2>3, <3>1 DEF Touch, Footprint
    <3>4. Same(t)
      BY <1>1, <3>3, ChangesAreTouches DEF Work, Advance, Places
    <3> QED
      BY <1>0, <2>1, <3>1, <3>2, <3>4 DEF Same
  <2> QED
    BY <2>2, <2>3
<1>2. ASSUME NEW h \in Handlers, ReturnError(h) \/ ReturnOK(h)
      PROVE  t \notin dirs'
  <2>1. caller'[t] = caller[t] /\ caller[t] # h /\ dirs' = dirs
    BY <1>2, PlaceAssumption, NothingAssumption DEF ReturnError, ReturnOK, Answer, diskVars
  <2>2. vol[t] = "released"
    BY <1>2 DEF ReturnError, ReturnOK, TypeOK, Engaged
  <2>3. op'[caller[t]].pc = op[caller[t]].pc
    BY <1>0, <1>2, <2>1, OthersKeepStage
  <2>4. caller[t] \notin overlapped
    BY <1>0, <1>2, <2>1, PlaceAssumption DEF ReturnError, ReturnOK, TypeOK, Engaged
  <2> QED
    BY <1>0, <2>1, <2>2, <2>3, <2>4
<1>3. ASSUME NEW h \in Handlers, NEW u \in Targets,
             NodePublishVolume(h, u) \/ NodeUnpublishVolume(h, u)
      PROVE  t \notin dirs'
  <2>1. t # u
    BY <1>3, BeginsCall DEF TypeOK
  <2>2. caller'[t] = caller[t] /\ caller[t] # h
    BY <1>0, <1>3, <2>1 DEF NodePublishVolume, NodeUnpublishVolume, TypeOK, PendingCall
  <2> QED
    BY <1>0, <1>3, <2>2
    DEF NodePublishVolume, NodeUnpublishVolume, TypeOK, diskVars
<1>4. ASSUME NEW u \in Targets, DeletePod(u) \/ Abandon(u)
      PROVE  t \notin dirs'
  BY <1>0, <1>4 DEF DeletePod, Abandon, TypeOK, diskVars
<1>5. CASE Push \/ AllGone \/ UNCHANGED vars
  BY <1>0, <1>5 DEF Push, AllGone, vars, diskVars, kubeletVars
<1>6. CASE Crash
  BY <1>6 DEF Crash
<1> QED
  BY <1>1, <1>2, <1>3, <1>4, <1>5, <1>6 DEF Next, Advance, Work

\* The target of a released volume is removed when the plugin answers.
LEMMA RemovalInvariance == Spec => []RInv
<1>1. Init => RInv
  BY InvInit DEF RInv, Init, TargetIsRemoved
<1>2. RInv /\ [Next]_vars => RInv'
  BY InvStep, RemovedStep DEF RInv, IInv
<1> QED
  BY <1>1, <1>2, PTL DEF Spec

-----------------------------------------------------------------------------
(* How the two modules see the same volume. *)

\* A directory is whole for one commit only.
LEMMA WholeIsOne ==
  ASSUME NEW p, NEW c, NEW d, Whole(p, c), Whole(p, d)
  PROVE  c = d
<1>1. Meta \in Names
  BY DEF Names
<1> QED
  BY <1>1 DEF Whole

\* What a target shows is something of Volume.
LEMMA ShownType ==
  ASSUME NEW t \in Targets
  PROVE  Shown(t) \in Commits \cup {0, -1}
  BY DEF Shown

\* It changes with the target only.
LEMMA ShownFrame ==
  ASSUME NEW t \in Targets, Same(t)
  PROVE  Shown(t)' = Shown(t)
<1>1. \A c \in Commits : Whole(t, c)' <=> Whole(t, c)
  BY DEF Whole, Same
<1>2. (CHOOSE c \in Commits : Whole(t, c)') = (CHOOSE c \in Commits : Whole(t, c))
  BY <1>1
<1> QED
  BY <1>1, <1>2 DEF Shown, Same

\* Steps that leave the disk alone leave what the targets show.
LEMMA ShownStays ==
  ASSUME UNCHANGED diskVars
  PROVE  [t \in Targets |-> Shown(t)]' = [t \in Targets |-> Shown(t)]
<1>1. \A t \in Targets : Shown(t)' = Shown(t)
  BY ShownFrame DEF Same, diskVars
<1> QED
  BY <1>1

\* A read-only target that is whole shows its commit.
LEMMA ShownWhole ==
  ASSUME NEW t \in Targets, NEW c \in Commits, Whole(t, c), t \in readonly
  PROVE  Shown(t) = c
<1>1. (CHOOSE d \in Commits : Whole(t, d)) = c
  BY WholeIsOne
<1> QED
  BY <1>1 DEF Shown, Whole

\* A call the kubelet waits for has its target from it, and no other.
LEMMA CallerServes ==
  ASSUME TypeOK, CallerIsPending, NEW t \in Targets, caller[t] # Nothing
  PROVE  /\ caller[t] \in Handlers
         /\ op[caller[t]].target = t
         /\ op[caller[t]].pc # "idle"
         /\ vol[t] \in {"wanted", "released"}
         /\ PendingCall(t, op[caller[t]])
  BY DEF TypeOK, CallerIsPending, PendingCall

\* No step of a handler but the clone changes the commit of a call.
LEMMA CommitStays ==
  ASSUME TypeOK, CallsAreWellFormed, NEW h \in Handlers, Work(h), ~ Clone(h),
         NEW g \in Handlers
  PROVE  op'[g].commit = op[g].commit
<1>1. CASE g # h
  BY <1>1, OthersKeepStage
<1>2. CASE g = h
  <2>1. op[h] \in Call
    BY DEF TypeOK
  <2>2. CASE RemoveOpen(h)
    <3>1. PICK q \in RemovalPlaces(op[h]) :
            op'[h] = IF q \in dirs
                     THEN [op[h] EXCEPT !.removing = q, !.todo = Present(q)]
                     ELSE Removed(op[h], q, TRUE)
      BY <2>2 DEF RemoveOpen, TypeOK
    <3>2. [op[h] EXCEPT !.removing = q, !.todo = Present(q)].commit = op[h].commit
      BY <2>1 DEF Call
    <3>3. Removed(op[h], q, TRUE).commit = op[h].commit
      BY <2>1, RemovedType
    <3> QED
      BY <1>2, <3>1, <3>2, <3>3
  <2>3. CASE RemoveEntry(h)
    BY <1>2, <2>1, <2>3 DEF RemoveEntry, TypeOK, Call
  <2>4. CASE RemoveDir(h)
    <3>1. op'[h] = Removed(op[h], op[h].removing, Present(op[h].removing) = {})
      BY <2>4 DEF RemoveDir
    <3>2. \A ok \in BOOLEAN : Removed(op[h], op[h].removing, ok).commit = op[h].commit
      BY <2>1, RemovedType
    <3> QED
      BY <1>2, <3>1, <3>2
  <2>5. CASE CloneFails(h) \/ CheckLimits(h) \/ MakeMetaDir(h) \/ WriteMetadata(h)
    BY <1>2, <2>1, <2>5
    DEF CloneFails, CheckLimits, MakeMetaDir, WriteMetadata, Go, TypeOK, Call
  <2>6. CASE MakeContentDir(h) \/ ExportCreate(h) \/ ExportFill(h)
    BY <1>2, <2>1, <2>6 DEF MakeContentDir, ExportCreate, ExportFill, Go, TypeOK, Call
  <2>7. CASE EvictScan(h)
    <3>1. \E D : op'[h] = [op[h] EXCEPT !.doomed = D,
                             !.pc = IF D = {} THEN "clearTarget" ELSE "evict"]
      BY <2>7 DEF EvictScan, TypeOK
    <3> QED
      BY <1>2, <2>1, <3>1 DEF Call
  <2>8. CASE MakeTarget(h) \/ ListContent(h) \/ ChmodReadOnly(h)
    BY <1>2, <2>1, <2>8 DEF MakeTarget, ListContent, ChmodReadOnly, Go, TypeOK, Call
  <2>9. CASE CopyOpen(h) \/ CopyData(h)
    BY <1>2, <2>1, <2>9 DEF CopyOpen, CopyData, Go, TypeOK, Call
  <2> QED
    BY <2>2, <2>3, <2>4, <2>5, <2>6, <2>7, <2>8, <2>9 DEF Work
<1> QED
  BY <1>1, <1>2

-----------------------------------------------------------------------------
(* One lemma per kind of step. *)

\* Steps of a handler between its clone and its answer are Work.
LEMMA HandlersWork ==
  ASSUME RInv, NEW h \in Handlers, Work(h), ~ Clone(h)
  PROVE  Shared!Work
<1>1. TypeOK /\ CallsAreWellFormed /\ CallerIsPending
  BY DEF RInv, IInv
<1>2. vol' = vol /\ caller' = caller
  BY <1>1, WorkMovesOn DEF kubeletVars
<1>3. remote' = remote
  BY DEF Work, Clone, CloneFails, RemoveOpen, RemoveEntry, RemoveDir, MakeContentDir,
         ExportCreate, ExportFill, CheckLimits, MakeMetaDir, WriteMetadata, EvictScan,
         MakeTarget, ListContent, CopyOpen, CopyData, ChmodReadOnly, boundVars
<1>4. Candidate' = Candidate
  <2>1. \A t \in Targets : caller[t] # Nothing => op'[caller[t]].commit = op[caller[t]].commit
    BY <1>1, CommitStays, CallerServes
  <2> QED
    BY <1>2, <2>1 DEF Candidate
<1>5. Spoilt \subseteq Spoilt'
  BY <1>2, WorkGrowsOverlap DEF Spoilt
<1>6. Spoilt' \subseteq Targets
  BY DEF Spoilt
<1>7. ASSUME NEW t \in Targets, vol[t] \in {"mounted", "gone"}, t \notin Spoilt'
      PROVE  Shown(t)' = Shown(t)
  <2>1. t \notin overlapped'
    BY <1>2, <1>7 DEF Spoilt
  <2>2. ~ Touch(h, t)
    BY <2>1 DEF Touch
  <2>3. Same(t)
    BY <1>1, <2>2, ChangesAreTouches DEF Work, Advance, Places
  <2> QED
    BY <2>3, ShownFrame
<1>8. \A t \in Targets : Shown(t)' = Shown(t) \/ vol[t] \in {"wanted", "released"}
                           \/ t \in Spoilt'
  BY <1>1, <1>7 DEF TypeOK
<1>9. [t \in Targets |-> Shown(t)]' \in [Targets -> Shared!Content]
  BY ShownType DEF Shared!Content, Shared!Commits, Shared!Absent, Shared!Partial, Commits, Shown
<1>10. \E others \in SUBSET Targets : Spoilt' = Spoilt \cup others
  BY <1>5, <1>6
<1> QED
  BY <1>2, <1>3, <1>4, <1>8, <1>9, <1>10 DEF Shared!Work, Shared!Unsettled

\* The clone of a call the kubelet waits for is Resolve.
LEMMA CloneResolves ==
  ASSUME RInv, NEW h \in Handlers, Clone(h)
  PROVE  (\E t \in Targets : Shared!Resolve(t)) \/ UNCHANGED Shared!vars
<1>1. TypeOK /\ CallsAreWellFormed /\ CallerIsPending
  BY DEF RInv, IInv
<1>2. op[h].commit = 0
  BY <1>1 DEF Clone, CallsAreWellFormed, WellFormed
<1>3. /\ op'[h].commit = remote
      /\ \A g \in Handlers \ {h} : op'[g] = op[g]
  BY <1>1 DEF Clone, TypeOK, Call
<1>4. /\ UNCHANGED <<remote, vol, caller, overlapped, Spoilt>>
      /\ [t \in Targets |-> Shown(t)]' = [t \in Targets |-> Shown(t)]
  BY ShownStays DEF Clone, boundVars, kubeletVars, Spoilt
<1>5. CASE \E t \in Targets : caller[t] = h
  <2>1. PICK t \in Targets : caller[t] = h
    BY <1>5
  <2>2. caller[t] # Nothing
    BY <2>1, NothingAssumption
  <2>3. vol[t] = "wanted" /\ op[h].target = t
    BY <1>1, <2>1, <2>2 DEF CallerIsPending, PendingCall, Clone
  <2>4. \A u \in Targets \ {t} : caller[u] # h
    BY <1>1, <2>3, NothingAssumption DEF CallerIsPending, PendingCall
  <2>5. Candidate[t] = 0
    BY <1>2, <2>1 DEF Candidate
  <2>6. Candidate' = [Candidate EXCEPT ![t] = remote]
    <3>1. \A u \in Targets \ {t} : Candidate'[u] = Candidate[u]
      BY <1>1, <1>3, <1>4, <2>4 DEF Candidate, TypeOK
    <3>2. Candidate'[t] = remote
      BY <1>3, <1>4, <2>1, <2>2, <2>3 DEF Candidate
    <3> QED
      BY <3>1, <3>2 DEF Candidate
  <2> QED
    BY <1>4, <2>3, <2>5, <2>6 DEF Shared!Resolve, Shared!Absent
<1>6. CASE ~ \E t \in Targets : caller[t] = h
  <2>1. Candidate' = Candidate
    BY <1>1, <1>3, <1>4, <1>6 DEF Candidate, TypeOK
  <2> QED
    BY <1>4, <2>1 DEF Shared!vars
<1> QED
  BY <1>5, <1>6

\* A call that returns an error is Fail.
LEMMA ErrorFails ==
  ASSUME RInv, NEW h \in Handlers, ReturnError(h)
  PROVE  Shared!Fail
<1> DEFINE failed == {t \in Targets : caller[t] = h}
<1>1. TypeOK /\ CallerIsPending
  BY DEF RInv, IInv
<1>2. failed \in SUBSET {t \in Targets : Shared!Unsettled(t)}
  BY <1>1, CallerServes, NothingAssumption DEF Shared!Unsettled
<1>3. /\ UNCHANGED <<remote, vol>>
      /\ [t \in Targets |-> Shown(t)]' = [t \in Targets |-> Shown(t)]
  BY ShownStays DEF ReturnError, Answer, boundVars
<1>4. /\ caller' = [t \in Targets |-> IF t \in failed THEN Nothing ELSE caller[t]]
      /\ \A g \in Handlers \ {h} : op'[g] = op[g]
      /\ overlapped' = overlapped \ {h}
  BY <1>1 DEF ReturnError, Answer, TypeOK
<1>5. Candidate' = [t \in Targets |-> IF t \in failed THEN 0 ELSE Candidate[t]]
  BY <1>1, <1>3, <1>4 DEF Candidate, TypeOK
<1>6. Spoilt' = Spoilt \ failed
  <2>1. \A t \in failed : vol[t] \notin {"mounted", "gone"}
    BY <1>2 DEF Shared!Unsettled
  <2>2. \A t \in Targets : t \in overlapped' <=> t \in overlapped
    BY <1>4, PlaceAssumption
  <2>3. \A t \in Targets \ failed : caller'[t] = caller[t] /\ caller[t] # h
    BY <1>4
  <2>4. \A t \in failed : caller'[t] = Nothing
    BY <1>4
  <2> QED
    BY <1>3, <1>4, <2>1, <2>2, <2>3, <2>4 DEF Spoilt
<1> QED
  BY <1>2, <1>3, <1>5, <1>6 DEF Shared!Fail, Shared!Absent

\* A call that answers OK is Mount or Remove, if the kubelet still waits for it.
LEMMA AnswerSettles ==
  ASSUME RInv, NEW h \in Handlers, ReturnOK(h)
  PROVE  (\E t \in Targets : Shared!Mount(t) \/ Shared!Remove(t)) \/ UNCHANGED Shared!vars
<1> DEFINE t == op[h].target
           c == op[h].commit
<1>1. TypeOK /\ CallerIsPending /\ IsolatedCalls /\ TargetIsRemoved
  BY DEF RInv, IInv
<1>2. t \in Targets /\ op[h].pc = "reply"
  BY <1>1 DEF ReturnOK, TypeOK, Engaged
<1>3. \A u \in Targets \ {t} : caller[u] # h
  BY <1>1, NothingAssumption DEF CallerIsPending, PendingCall
<1>4. /\ remote' = remote
      /\ [u \in Targets |-> Shown(u)]' = [u \in Targets |-> Shown(u)]
  BY ShownStays DEF ReturnOK, Answer, boundVars
<1>5. /\ caller' = [u \in Targets |-> IF caller[u] = h THEN Nothing ELSE caller[u]]
      /\ \A g \in Handlers \ {h} : op'[g] = op[g]
  BY <1>1 DEF ReturnOK, Answer, TypeOK
<1>6. h \notin Targets
  BY PlaceAssumption
<1>7. \A u \in Targets \ {t} : caller'[u] = caller[u] /\ vol'[u] = vol[u]
  BY <1>1, <1>3, <1>5 DEF ReturnOK, TypeOK
<1>8. \A u \in Targets \ {t} : Candidate'[u] = Candidate[u]
  BY <1>1, <1>3, <1>5, <1>7 DEF Candidate, TypeOK
<1>9. \A u \in Targets \ {t} : u \in Spoilt' <=> u \in Spoilt
  <2>1. \A u \in Targets \ {t} : u \in overlapped' <=> u \in overlapped
    BY <1>6 DEF ReturnOK
  <2>2. \A g \in Handlers \ {h} : g \in overlapped' <=> g \in overlapped
    BY <1>2, PlaceAssumption DEF ReturnOK
  <2> QED
    BY <1>1, <1>3, <1>7, <2>1, <2>2 DEF Spoilt, TypeOK
<1>10. CASE caller[t] = h
  <2>1. caller[t] # Nothing /\ caller'[t] = Nothing
    BY <1>2, <1>5, <1>10, NothingAssumption
  <2>2. PendingCall(t, op[h])
    BY <1>1, <1>2, <1>10, <2>1 DEF CallerIsPending
  <2>3. /\ vol' = [vol EXCEPT ![t] = IF vol[t] = "wanted" THEN "mounted" ELSE "gone"]
        /\ overlapped' = IF h \in overlapped THEN (overlapped \ {h}) \cup {t}
                                             ELSE overlapped \ {t}
    BY <1>10 DEF ReturnOK
  <2>4. vol[t] \in {"wanted", "released"} /\ vol'[t] \in {"mounted", "gone"}
    BY <1>1, <1>2, <2>2, <2>3 DEF PendingCall, TypeOK
  <2>5. Spoilt' = Spoilt
    <3>1. t \in Spoilt <=> h \in overlapped
      BY <1>2, <1>10, <2>1, <2>4 DEF Spoilt
    <3>2. t \in Spoilt' <=> h \in overlapped
      BY <1>2, <1>6, <2>3, <2>4 DEF Spoilt
    <3> QED
      BY <1>9, <3>1, <3>2 DEF Spoilt
  <2>6. Candidate'[t] = 0
    BY <1>2, <2>1 DEF Candidate
  <2>7. Candidate' = [Candidate EXCEPT ![t] = 0]
    BY <1>2, <1>8, <2>6 DEF Candidate
  <2>8. CASE vol[t] = "wanted"
    <3>1. Candidate[t] = c
      BY <1>2, <1>10, <2>1, <2>8 DEF Candidate
    <3>2. c \in Commits
      BY <1>2, <2>2, <2>8 DEF PendingCall
    <3>3. ASSUME t \notin Spoilt
          PROVE  Shown(t) = c /\ c \notin Oversize
      <4>1. h \notin overlapped
        BY <1>2, <1>10, <2>1, <2>4, <3>3 DEF Spoilt
      <4>2. TargetStage(h, t) /\ WithinLimits(h)
        BY <1>1, <1>2, <4>1 DEF IsolatedCalls, Isolated
      <4>3. Whole(t, c) /\ t \in readonly
        BY <1>2, <3>2, <4>2 DEF TargetStage
      <4>4. c \notin Oversize
        BY <1>2, <4>2 DEF WithinLimits
      <4> QED
        BY <1>2, <3>2, <4>3, <4>4, ShownWhole
    <3>4. Shared!Mount(t)
      BY <1>2, <1>4, <2>3, <2>5, <2>7, <2>8, <3>1, <3>2, <3>3 DEF Shared!Mount, Shared!Absent
    <3> QED
      BY <1>2, <3>4
  <2>9. CASE vol[t] = "released"
    <3>1. Candidate[t] = 0
      BY <1>2, <2>9 DEF Candidate
    <3>2. Candidate' = Candidate
      BY <2>7, <3>1 DEF Candidate
    <3>3. ASSUME t \notin Spoilt
          PROVE  Shown(t) = 0
      <4>1. h \notin overlapped
        BY <1>2, <1>10, <2>1, <2>4, <3>3 DEF Spoilt
      <4>2. t \notin dirs
        BY <1>1, <1>2, <1>10, <2>1, <2>9, <4>1 DEF TargetIsRemoved
      <4> QED
        BY <4>2 DEF Shown, Whole
    <3>4. Shared!Remove(t)
      BY <1>2, <1>4, <2>3, <2>5, <2>9, <3>2, <3>3 DEF Shared!Remove, Shared!Absent
    <3> QED
      BY <1>2, <3>4
  <2> QED
    BY <2>4, <2>8, <2>9
<1>11. CASE caller[t] # h
  <2>1. vol' = vol /\ caller' = caller /\ overlapped' = overlapped \ {h}
    BY <1>1, <1>2, <1>3, <1>5, <1>11 DEF ReturnOK, TypeOK
  <2>2. Candidate' = Candidate
    BY <1>1, <1>2, <1>3, <1>5, <1>11, <2>1 DEF Candidate, TypeOK
  <2>3. Spoilt' = Spoilt
    BY <1>1, <1>2, <1>3, <1>6, <1>11, <2>1 DEF Spoilt, TypeOK
  <2> QED
    BY <1>4, <2>1, <2>2, <2>3 DEF Shared!vars
<1> QED
  BY <1>10, <1>11

\* A call of the kubelet begins as Work: what it finds is not its doing.
LEMMA CallBegins ==
  ASSUME RInv, NEW h \in Handlers, NEW t \in Targets,
         NodePublishVolume(h, t) \/ NodeUnpublishVolume(h, t)
  PROVE  Shared!Work
<1>1. TypeOK /\ CallerIsPending
  BY DEF RInv, IInv
<1>2. /\ UNCHANGED <<remote, vol, overlapped>>
      /\ [u \in Targets |-> Shown(u)]' = [u \in Targets |-> Shown(u)]
  BY ShownStays DEF NodePublishVolume, NodeUnpublishVolume, boundVars
<1>3. /\ caller[t] = Nothing /\ caller' = [caller EXCEPT ![t] = h]
      /\ op'[h].commit = 0 /\ op[h].pc = "idle"
      /\ \A g \in Handlers \ {h} : op'[g] = op[g]
      /\ vol[t] \in {"wanted", "released"}
  <2>1. vol[t] \in {"wanted", "released"}
    BY DEF NodePublishVolume, NodeUnpublishVolume
  <2> QED
    BY <1>1, <2>1, BeginsCall
<1>4. \A u \in Targets \ {t} : caller'[u] = caller[u] /\ caller[u] # h
  BY <1>1, <1>3, NothingAssumption DEF TypeOK, CallerIsPending, PendingCall
<1>5. Candidate' = Candidate
  <2>1. Candidate[t] = 0
    BY <1>3 DEF Candidate
  <2>2. Candidate'[t] = 0
    BY <1>1, <1>3 DEF Candidate, TypeOK
  <2>3. \A u \in Targets \ {t} : Candidate'[u] = Candidate[u]
    BY <1>1, <1>2, <1>3, <1>4 DEF Candidate, TypeOK
  <2> QED
    BY <2>1, <2>2, <2>3 DEF Candidate
<1>6. \E others \in SUBSET Targets : Spoilt' = Spoilt \cup others
  <2>1. \A u \in Spoilt : u \in Spoilt'
    BY <1>2, <1>3, <1>4 DEF Spoilt
  <2>2. Spoilt' \subseteq Targets
    BY DEF Spoilt
  <2> QED
    BY <2>1, <2>2
<1>7. [u \in Targets |-> Shown(u)]' \in [Targets -> Shared!Content]
  BY <1>2, ShownType
  DEF Shared!Content, Shared!Commits, Shared!Absent, Shared!Partial, Commits
<1> QED
  BY <1>2, <1>5, <1>6, <1>7 DEF Shared!Work

\* The deletion of a pod is Release.
LEMMA PodReleases ==
  ASSUME RInv, NEW t \in Targets, DeletePod(t)
  PROVE  Shared!Release(t)
<1>1. TypeOK
  BY DEF RInv, IInv
<1>2. /\ UNCHANGED <<remote, caller, op, overlapped>>
      /\ [u \in Targets |-> Shown(u)]' = [u \in Targets |-> Shown(u)]
      /\ caller[t] = Nothing /\ vol[t] \in {"wanted", "mounted"}
      /\ vol' = [vol EXCEPT ![t] = "released"]
  BY ShownStays DEF DeletePod, boundVars
<1>3. \A u \in Targets \ {t} : vol'[u] = vol[u]
  BY <1>1, <1>2 DEF TypeOK
<1>4. Candidate' = Candidate
  BY <1>2, <1>3 DEF Candidate
<1>5. Spoilt' = Spoilt \ {t}
  <2>1. vol'[t] = "released"
    BY <1>1, <1>2 DEF TypeOK
  <2> QED
    BY <1>2, <1>3, <2>1 DEF Spoilt
<1> QED
  BY <1>2, <1>4, <1>5 DEF Shared!Release

\* A call the kubelet gives up is Fail, for its volume.
LEMMA AbandonFails ==
  ASSUME RInv, NEW t \in Targets, Abandon(t)
  PROVE  Shared!Fail
<1>1. TypeOK /\ CallerIsPending
  BY DEF RInv, IInv
<1>2. /\ UNCHANGED <<remote, vol, op, overlapped>>
      /\ [u \in Targets |-> Shown(u)]' = [u \in Targets |-> Shown(u)]
      /\ caller[t] # Nothing /\ caller' = [caller EXCEPT ![t] = Nothing]
  BY ShownStays DEF Abandon
<1>3. vol[t] \in {"wanted", "released"}
  BY <1>1, <1>2, CallerServes
<1>4. caller'[t] = Nothing /\ \A u \in Targets \ {t} : caller'[u] = caller[u]
  BY <1>1, <1>2 DEF TypeOK
<1>5. Candidate' = [u \in Targets |-> IF u \in {t} THEN 0 ELSE Candidate[u]]
  BY <1>2, <1>4 DEF Candidate
<1>6. Spoilt' = Spoilt \ {t}
  BY <1>2, <1>3, <1>4 DEF Spoilt
<1>7. {t} \in SUBSET {u \in Targets : Shared!Unsettled(u)}
  BY <1>3 DEF Shared!Unsettled
<1> QED
  BY <1>2, <1>5, <1>6, <1>7 DEF Shared!Fail, Shared!Absent

\* A restart is Fail, for every volume with a call: the files it tears were
\* those of calls, and no volume shown is made of them.
LEMMA CrashFails ==
  ASSUME RInv, Crash
  PROVE  Shared!Fail
<1> DEFINE failed == {t \in Targets : caller[t] # Nothing}
<1>1. TypeOK /\ CallerIsPending
  BY DEF RInv, IInv
<1>2. failed \in SUBSET {t \in Targets : Shared!Unsettled(t)}
  BY <1>1, CallerServes DEF Shared!Unsettled
<1>3. UNCHANGED <<dirs, readonly, remote, vol>> /\ caller' = [t \in Targets |-> Nothing]
      /\ overlapped' = overlapped \ Handlers
  BY DEF Crash
<1>4. ASSUME NEW t \in Targets
      PROVE  Shown(t)' = Shown(t)
  <2>1. ASSUME NEW c \in Commits, NEW n \in Names
        PROVE  tree'[t][n] = [commit |-> c, by |-> Closed]
                 <=> tree[t][n] = [commit |-> c, by |-> Closed]
    <3>1. tree'[t][n] = IF tree[t][n] # Nothing /\ tree[t][n].by \in Handlers
                        THEN [tree[t][n] EXCEPT !.by = Torn] ELSE tree[t][n]
      BY DEF Crash, Places
    <3>2. tree[t][n] \in Entry \cup {Nothing}
      BY <1>1 DEF TypeOK, Places
    <3>3. CASE tree[t][n] # Nothing /\ tree[t][n].by \in Handlers
      <4>1. tree[t][n] \in Entry /\ tree[t][n].by # Closed
        BY <3>2, <3>3, WriterAssumption
      <4>2. tree'[t][n].by = Torn
        BY <3>1, <3>3, <4>1 DEF Entry
      <4> QED
        BY <4>1, <4>2 DEF Closed, Torn
    <3>4. CASE ~ (tree[t][n] # Nothing /\ tree[t][n].by \in Handlers)
      BY <3>1, <3>4
    <3> QED
      BY <3>3, <3>4
  <2>2. \A c \in Commits : Whole(t, c)' <=> Whole(t, c)
    BY <1>3, <2>1 DEF Whole
  <2>3. (CHOOSE c \in Commits : Whole(t, c)') = (CHOOSE c \in Commits : Whole(t, c))
    BY <2>2
  <2> QED
    BY <1>3, <2>2, <2>3 DEF Shown
<1>5. [t \in Targets |-> Shown(t)]' = [t \in Targets |-> Shown(t)]
  BY <1>4
<1>6. Candidate' = [t \in Targets |-> IF t \in failed THEN 0 ELSE Candidate[t]]
  BY <1>3 DEF Candidate
<1>7. Spoilt' = Spoilt \ failed
  <2>1. \A t \in failed : vol[t] \notin {"mounted", "gone"}
    BY <1>2 DEF Shared!Unsettled
  <2>2. \A t \in Targets : t \in overlapped' <=> t \in overlapped
    BY <1>3, PlaceAssumption
  <2> QED
    BY <1>3, <2>1, <2>2 DEF Spoilt
<1> QED
  BY <1>2, <1>3, <1>5, <1>6, <1>7 DEF Shared!Fail, Shared!Absent

-----------------------------------------------------------------------------
(* The refinement. *)

\* Before anything has happened the volumes are as Volume has them.
LEMMA StartsAsVolume == Init => Shared!Init
<1> SUFFICES ASSUME Init
             PROVE  Shared!Init
  OBVIOUS
<1>1. \A t \in Targets : Shown(t) = 0
  BY DEF Init, Shown, Whole
<1>2. Candidate = [t \in Targets |-> 0]
  BY DEF Init, Candidate
<1>3. Spoilt = {}
  BY DEF Init, Spoilt
<1> QED
  BY <1>1, <1>2, <1>3 DEF Init, Shared!Init, Shared!Absent

\* Every step is a step of Volume, or none.
LEMMA StepsAsVolume == RInv /\ [Next]_vars => [Shared!Next]_(Shared!vars)
<1> SUFFICES ASSUME RInv, [Next]_vars
             PROVE  Shared!Next \/ UNCHANGED Shared!vars
  BY DEF Shared!vars
<1>1. ASSUME NEW h \in Handlers, Clone(h) \/ CloneFails(h) \/ Advance(h)
      PROVE  Shared!Next \/ UNCHANGED Shared!vars
  <2>1. CASE Clone(h)
    BY <2>1, CloneResolves DEF Shared!Next
  <2>2. CASE ReturnError(h)
    BY <2>2, ErrorFails DEF Shared!Next
  <2>3. CASE ReturnOK(h)
    BY <2>3, AnswerSettles DEF Shared!Next
  <2>4. CASE Work(h) /\ ~ Clone(h)
    BY <2>4, HandlersWork DEF Shared!Next
  <2> QED
    BY <1>1, <2>1, <2>2, <2>3, <2>4 DEF Advance, Work
<1>2. ASSUME NEW h \in Handlers, NEW t \in Targets,
             NodePublishVolume(h, t) \/ NodeUnpublishVolume(h, t)
      PROVE  Shared!Next
  BY <1>2, CallBegins DEF Shared!Next
<1>3. ASSUME NEW t \in Targets, DeletePod(t) \/ Abandon(t)
      PROVE  Shared!Next
  BY <1>3, PodReleases, AbandonFails DEF Shared!Next
<1>4. CASE Push
  <2>1. Candidate' = Candidate /\ Spoilt' = Spoilt
    BY <1>4 DEF Push, kubeletVars, Candidate, Spoilt
  <2> QED
    BY <1>4, <2>1, ShownStays DEF Push, kubeletVars, Shared!Push, Shared!Next
<1>5. CASE Crash
  BY <1>5, CrashFails DEF Shared!Next
<1>6. CASE AllGone \/ UNCHANGED vars
  <2>1. Candidate' = Candidate /\ Spoilt' = Spoilt
    BY <1>6 DEF AllGone, vars, kubeletVars, Candidate, Spoilt
  <2> QED
    BY <1>6, <2>1, ShownStays DEF AllGone, vars, kubeletVars, boundVars, Shared!vars
<1> QED
  BY <1>1, <1>2, <1>3, <1>4, <1>5, <1>6 DEF Next

\* The plugin implements Volume, for every number of handlers, volumes, keys,
\* files and commits: volumes nobody else has written under are a commit their
\* call has resolved, do not change, and go.
THEOREM VolumesImplemented == Spec => KeepsPromiseApart
<1>1. Init => Shared!Init
  BY StartsAsVolume
<1>2. RInv /\ [Next]_vars => [Shared!Next]_(Shared!vars)
  BY StepsAsVolume
<1> QED
  BY <1>1, <1>2, RemovalInvariance, PTL DEF Spec, KeepsPromiseApart, Shared!Spec

-----------------------------------------------------------------------------
(* Keys of their own, a cache that keeps them, a patient kubelet: who meets. *)

\* A directory has finitely many files.
LEMMA NamesAreFinite ==
  /\ IsFiniteSet(Names) /\ Cardinality(Names) = NumFiles + 1
  /\ \A p : Cardinality(Present(p)) \in 0..Cardinality(Names)
<1>1. Names = 0..NumFiles
  BY FileAssumption DEF Names, Files, Meta
<1>2. IsFiniteSet(Names) /\ Cardinality(Names) = NumFiles + 1
  BY <1>1, FileAssumption, FS_Interval
<1>3. ASSUME NEW p
      PROVE  Cardinality(Present(p)) \in 0..Cardinality(Names)
  <2>1. Present(p) \in SUBSET Names
    BY DEF Present
  <2>2. IsFiniteSet(Present(p)) /\ Cardinality(Present(p)) <= Cardinality(Names)
    BY <1>2, <2>1, FS_Subset
  <2>3. Cardinality(Present(p)) \in Nat
    BY <2>2, FS_CardinalityType
  <2> QED
    BY <1>2, <2>2, <2>3, FileAssumption
<1> QED
  BY <1>2, <1>3

\* A cache that has room for every key gives nothing up.
LEMMA NoVictims ==
  ASSUME TypeOK, PrivateKeys, NEW items \in SUBSET Keys,
         NEW size \in [Keys -> 0..Cardinality(Names)]
  PROVE  Victims(items, size, older, {}, MaxSize) = {}
<1> DEFINE m == NumFiles + 1
<1>1. m \in Nat /\ MaxSize \in Nat
  BY FileAssumption, BoundAssumption
<1>3. ASSUME NEW k \in Keys PROVE size[k] \in 0..m
  BY NamesAreFinite
<1>4. IsFiniteSet(Keys) /\ Cardinality(Keys) * m <= MaxSize
  BY DEF PrivateKeys
<1>5. Bytes(size, Keys) <= MaxSize
  <2>1. Bytes(size, Keys) <= Cardinality(Keys) * m
    BY <1>1, <1>3, <1>4, BytesBound
  <2>2. Bytes(size, Keys) \in Nat /\ Cardinality(Keys) \in Nat
    BY <1>3, <1>4, BytesType, FS_CardinalityType
  <2>3. Cardinality(Keys) * m \in Nat
    BY <1>1, <2>2
  <2> QED
    BY <1>1, <1>4, <2>1, <2>2, <2>3
<1>6. ASSUME NEW S \in SUBSET Keys PROVE Bytes(size, S) \in Nat /\ Bytes(size, S) <= MaxSize
  <2>1. IsFiniteSet(S)
    BY <1>4, FS_Subset
  <2>2. Bytes(size, S) \in Nat /\ Bytes(size, Keys) \in Nat
    BY <1>3, <1>4, <2>1, BytesType
  <2>3. Bytes(size, S) <= Bytes(size, Keys)
    BY <1>3, <1>4, BytesMonotone
  <2> QED
    BY <1>1, <1>5, <2>2, <2>3
<1>7. LeftAfterAging(items, size, {}) <= MaxSize /\ LeftAfterAging(items, size, {}) \in Nat
  BY <1>6, BytesOfNone DEF LeftAfterAging
<1>8. ASSUME NEW d \in items
      PROVE  ~ (LeftAfterAging(items, size, {}) - Bytes(size, older[d] \cap items) > MaxSize)
  BY <1>1, <1>6, <1>7
<1>9. Victims(items, size, older, {}, MaxSize) = {}
  BY <1>8 DEF Victims, SizeVictims
<1> QED
  BY <1>9

\* So no call gets into removing keys.
LEMMA EvictsNothing ==
  ASSUME TypeOK, PrivateKeys, NEW h \in Handlers, EvictScan(h)
  PROVE  op'[h].pc = "clearTarget" /\ op'[h].target = op[h].target
<1>1. PICK items \in SUBSET (dirs \cap Keys), size \in Measured(h) :
        \E expired \in SUBSET {k \in items : MayHaveExpired(k)} :
          LET doomed == Victims(items, size, older, expired, MaxSize)
          IN  op' = [op EXCEPT ![h].doomed = doomed,
                       ![h].pc = IF doomed = {} THEN "clearTarget" ELSE "evict"]
  BY ScanSettles
<1>2. SUBSET {k \in items : MayHaveExpired(k)} = {{}}
  BY DEF PrivateKeys, MayHaveExpired
<1>3. items \in SUBSET Keys /\ size \in [Keys -> 0..Cardinality(Names)]
  BY DEF Measured
<1>4. Victims(items, size, older, {}, MaxSize) = {}
  BY <1>3, NoVictims
<1>5. op' = [op EXCEPT ![h].doomed = {}, ![h].pc = "clearTarget"]
  BY <1>1, <1>2, <1>4
<1>6. op[h] \in Call
  BY DEF TypeOK
<1> QED
  BY <1>5, <1>6 DEF TypeOK, Call

\* Nor into the removal of keys by any other step.
LEMMA NobodyEvicts ==
  ASSUME TypeOK, CallsAreWellFormed, PrivateKeys, NothingIsEvicted, NEW h \in Handlers, Work(h)
  PROVE  op'[h].pc # "evict"
<1>1. op[h] \in Call /\ op[h].pc # "evict" /\ op' \in [Handlers -> Call]
  BY TypeStep DEF TypeOK, NothingIsEvicted, Next, Work, Advance
<1>2. \A p, ok : Removed(op[h], p, ok).pc # "evict"
  BY <1>1 DEF Removed, AfterRemoval, Call
<1>3. CASE EvictScan(h)
  BY <1>3, EvictsNothing
<1>4. CASE RemoveOpen(h)
  <2>1. PICK p \in RemovalPlaces(op[h]) :
          op'[h] = IF p \in dirs THEN [op[h] EXCEPT !.removing = p, !.todo = Present(p)]
                   ELSE Removed(op[h], p, TRUE)
    BY <1>4 DEF RemoveOpen, TypeOK
  <2> QED
    BY <1>1, <1>2, <2>1 DEF Call
<1>5. CASE RemoveDir(h)
  BY <1>2, <1>5 DEF RemoveDir
<1>6. CASE RemoveEntry(h)
  BY <1>1, <1>6 DEF RemoveEntry, TypeOK, Call
<1>7. CASE Clone(h) \/ CloneFails(h) \/ MakeContentDir(h) \/ ExportCreate(h) \/ ExportFill(h)
           \/ CheckLimits(h)
  BY <1>1, <1>7
  DEF Clone, CloneFails, MakeContentDir, ExportCreate, ExportFill, CheckLimits, Go, TypeOK, Call
<1>8. CASE MakeMetaDir(h) \/ WriteMetadata(h) \/ MakeTarget(h) \/ ListContent(h)
  BY <1>1, <1>8 DEF MakeMetaDir, WriteMetadata, MakeTarget, ListContent, Go, TypeOK, Call
<1>9. CASE CopyOpen(h) \/ CopyData(h) \/ ChmodReadOnly(h)
  BY <1>1, <1>9 DEF CopyOpen, CopyData, ChmodReadOnly, Go, TypeOK, Call
<1> QED
  BY <1>3, <1>4, <1>5, <1>6, <1>7, <1>8, <1>9 DEF Work

\* A step of h touches nothing but the content directory and the target of h.
LEMMA TouchesOwn ==
  ASSUME TypeOK, CallsAreWellFormed, NothingIsEvicted, NEW h \in Handlers, Work(h)
  PROVE  UNCHANGED overlapped \/ \E p \in Footprint(h) : Touch(h, p)
<1>1. CASE RemoveEntry(h) \/ RemoveDir(h)
  <2> DEFINE p == op[h].removing
  <2>1. p \in RemovalPlaces(op[h]) /\ op[h].pc # "evict"
    BY <1>1 DEF RemoveEntry, RemoveDir, CallsAreWellFormed, WellFormed, NothingIsEvicted
  <2>2. p \in Footprint(h)
    BY <2>1 DEF RemovalPlaces, Footprint, Key
  <2>3. UNCHANGED overlapped \/ Touch(h, p)
    BY <1>1 DEF RemoveEntry, RemoveDir
  <2> QED
    BY <2>2, <2>3
<1>2. CASE ~ (RemoveEntry(h) \/ RemoveDir(h))
  <2>1. UNCHANGED overlapped \/ Touch(h, Key(h)) \/ Touch(h, op[h].target)
    BY <1>2
    DEF Work, Clone, CloneFails, RemoveOpen, MakeContentDir, ExportCreate, ExportFill,
        CheckLimits, MakeMetaDir, WriteMetadata, EvictScan, MakeTarget, ListContent, CopyOpen,
        CopyData, ChmodReadOnly
  <2> QED
    BY <2>1 DEF Footprint
<1> QED
  BY <1>1, <1>2

\* No two calls have a directory in common.
LEMMA CallsAreApart ==
  ASSUME TypeOK, PrivateKeys, CallsAreAwaited, NEW h \in Handlers, NEW g \in Handlers \ {h},
         op[h].pc # "idle", op[g].pc # "idle"
  PROVE  Footprint(h) \cap Footprint(g) = {}
<1>1. op[h].target \in Targets /\ op[g].target \in Targets /\ Key(h) \in Keys /\ Key(g) \in Keys
  BY KeyType
<1>2. op[h].target # op[g].target
  BY DEF CallsAreAwaited
<1>3. Key(h) # Key(g)
  BY <1>1, <1>2 DEF PrivateKeys, Key
<1> QED
  BY <1>1, <1>2, <1>3, PlaceAssumption DEF Footprint

\* What a handler's step adds to the overlapped is its own target at most.
LEMMA WorkOverlapsNobody ==
  ASSUME TypeOK, CallsAreWellFormed, PrivateKeys, CallsAreAwaited, NothingIsEvicted,
         NEW h \in Handlers, Work(h)
  PROVE  overlapped' \subseteq overlapped \cup {op[h].target}
<1>1. op[h].pc # "idle"
  BY WorkMovesOn
<1>2. ASSUME NEW p \in Footprint(h), Touch(h, p)
      PROVE  overlapped' \subseteq overlapped \cup {op[h].target}
  <2>1. {g \in Handlers \ {h} : op[g].pc # "idle" /\ p \in Footprint(g)} = {}
    BY <1>1, CallsAreApart
  <2>2. {p} \cap Targets \subseteq {op[h].target}
    BY <1>1, KeyType, PlaceAssumption DEF Footprint
  <2> QED
    BY <1>2, <2>1, <2>2 DEF Touch
<1> QED
  BY <1>2, TouchesOwn

\* A step of a handler keeps the calls apart.
LEMMA WorkStaysPrivate ==
  ASSUME RInv, PrivateKeys, PrivateInv, NEW h \in Handlers, Work(h)
  PROVE  PrivateInv'
<1>1. /\ TypeOK /\ CallsAreWellFormed /\ CallerIsPending
      /\ CallsAreAwaited /\ NobodyMeets /\ NothingIsEvicted /\ GoneStaysGone
  BY DEF RInv, IInv, PrivateInv
<1>2. /\ vol' = vol /\ caller' = caller /\ op'[h].target = op[h].target
      /\ op[h].pc # "idle" /\ op[h].target \in Targets /\ caller[op[h].target] = h
  BY <1>1, WorkMovesOn, KeyType DEF kubeletVars, CallsAreAwaited
<1>3. \A g \in Handlers \ {h} : op'[g].pc = op[g].pc /\ op'[g].target = op[g].target
  BY <1>1, OthersKeep DEF TypeOK, Call
<1>4. CallsAreAwaited'
  BY <1>1, <1>2, <1>3 DEF CallsAreAwaited
<1>5. NothingIsEvicted'
  BY <1>1, <1>3, NobodyEvicts DEF NothingIsEvicted
<1>6. vol[op[h].target] \in {"wanted", "released"}
  BY <1>1, <1>2, CallerServes, NothingAssumption
<1>7. NobodyMeets'
  <2>1. overlapped' \subseteq overlapped \cup {op[h].target}
    BY <1>1, WorkOverlapsNobody
  <2> QED
    BY <1>1, <1>2, <1>6, <2>1 DEF NobodyMeets
<1>8. ASSUME NEW t \in Targets, vol[t] = "gone" PROVE t \notin dirs'
  <2>1. t \notin overlapped'
    BY <1>2, <1>7, <1>8 DEF NobodyMeets
  <2>2. ~ Touch(h, t)
    BY <2>1 DEF Touch
  <2>3. Same(t)
    BY <1>1, <2>2, ChangesAreTouches DEF Work, Advance, Places
  <2> QED
    BY <1>1, <1>8, <2>3 DEF GoneStaysGone, Same
<1> QED
  BY <1>2, <1>4, <1>5, <1>7, <1>8 DEF PrivateInv, GoneStaysGone

\* So does its answer: the target is served or gone, and nobody's but the volume's.
LEMMA AnswersStayPrivate ==
  ASSUME RInv, PrivateInv, NEW h \in Handlers, ReturnError(h) \/ ReturnOK(h)
  PROVE  PrivateInv'
<1>1. /\ TypeOK /\ CallsAreWellFormed /\ CallerIsPending /\ TargetIsRemoved
      /\ CallsAreAwaited /\ NobodyMeets /\ NothingIsEvicted /\ GoneStaysGone
  BY DEF RInv, IInv, PrivateInv
<1> DEFINE t == op[h].target
<1>2. /\ dirs' = dirs /\ op' = [op EXCEPT ![h] = Idle] /\ op[h].pc \in {"reply", "fail"}
      /\ caller' = [u \in Targets |-> IF caller[u] = h THEN Nothing ELSE caller[u]]
  BY DEF ReturnError, ReturnOK, Answer, diskVars
<1>3. op[h].pc # "idle" /\ t \in Targets /\ caller[t] = h /\ h \notin overlapped /\ t # h
  BY <1>1, <1>2, KeyType, PlaceAssumption DEF CallsAreAwaited, NobodyMeets
<1>4. op'[h] = Idle /\ \A g \in Handlers \ {h} : op'[g] = op[g]
  BY <1>1, <1>2 DEF TypeOK
<1>5. CallsAreAwaited'
  <2> SUFFICES ASSUME NEW g \in Handlers, op'[g].pc # "idle"
               PROVE  caller'[op'[g].target] = g
    BY DEF CallsAreAwaited
  <2>1. g # h /\ op'[g] = op[g]
    BY <1>4 DEF Idle
  <2>2. op[g].target \in Targets /\ caller[op[g].target] = g
    BY <1>1, <2>1, KeyType DEF CallsAreAwaited
  <2> QED
    BY <1>2, <2>1, <2>2
<1>6. NothingIsEvicted'
  BY <1>1, <1>4 DEF NothingIsEvicted, Idle
<1>7. \A u \in Targets : u # t => vol'[u] = vol[u]
  BY <1>1 DEF ReturnError, ReturnOK, TypeOK
<1>8. CASE ReturnError(h)
  BY <1>1, <1>2, <1>5, <1>6, <1>8 DEF ReturnError, PrivateInv, NobodyMeets, GoneStaysGone
<1>9. CASE ReturnOK(h)
  <2>1. /\ overlapped' = overlapped \ {t} /\ op[h].pc = "reply"
        /\ vol' = [vol EXCEPT ![t] = IF @ = "wanted" THEN "mounted" ELSE "gone"]
    BY <1>3, <1>9 DEF ReturnOK
  <2>2. NobodyMeets'
    BY <1>1, <1>7, <2>1 DEF NobodyMeets
  <2>3. vol[t] \in {"wanted", "released"}
    BY <1>1, <1>3, CallerServes, NothingAssumption
  <2>4. vol'[t] = "gone" => t \notin dirs
    BY <1>1, <1>3, <2>1, <2>3, NothingAssumption DEF TargetIsRemoved, TypeOK
  <2>5. GoneStaysGone'
    BY <1>1, <1>2, <1>7, <2>4 DEF GoneStaysGone
  <2> QED
    BY <1>5, <1>6, <2>2, <2>5 DEF PrivateInv
<1> QED
  BY <1>8, <1>9

\* Every step keeps the calls apart.
LEMMA PrivateStep ==
  ASSUME RInv, PrivateKeys, PrivateInv, [Next]_vars
  PROVE  PrivateInv'
<1>1. /\ TypeOK /\ CallsAreAwaited /\ NobodyMeets /\ NothingIsEvicted /\ GoneStaysGone
  BY DEF RInv, IInv, PrivateInv
<1>2. ASSUME NEW h \in Handlers, NEW t \in Targets,
             NodePublishVolume(h, t) \/ NodeUnpublishVolume(h, t)
      PROVE  PrivateInv'
  <2>1. /\ op[h].pc = "idle" /\ caller[t] = Nothing
        /\ caller' = [caller EXCEPT ![t] = h]
        /\ op'[h].pc \in {"clone", "unpublish"} /\ op'[h].target = t
        /\ \A g \in Handlers \ {h} : op'[g] = op[g]
        /\ UNCHANGED <<dirs, vol, overlapped>>
    BY <1>1, <1>2, BeginsCall DEF diskVars
  <2>2. CallsAreAwaited'
    <3> SUFFICES ASSUME NEW g \in Handlers, op'[g].pc # "idle"
                 PROVE  caller'[op'[g].target] = g
      BY DEF CallsAreAwaited
    <3>1. CASE g = h
      BY <1>1, <2>1, <3>1 DEF TypeOK
    <3>2. CASE g # h
      <4>1. op[g].target \in Targets /\ caller[op[g].target] = g
        BY <1>1, <2>1, <3>2, KeyType DEF CallsAreAwaited
      <4> QED
        BY <2>1, <3>2, <4>1, NothingAssumption
    <3> QED
      BY <3>1, <3>2
  <2>3. NothingIsEvicted'
    BY <1>1, <2>1 DEF NothingIsEvicted
  <2> QED
    BY <1>1, <2>1, <2>2, <2>3 DEF PrivateInv, NobodyMeets, GoneStaysGone
<1>3. ASSUME NEW t \in Targets, DeletePod(t)
      PROVE  PrivateInv'
  <2>1. UNCHANGED <<dirs, op, caller, overlapped>>
    BY <1>3 DEF DeletePod, diskVars
  <2>2. \A u \in Targets : vol'[u] \in {"mounted", "gone"} => vol[u] = vol'[u]
    BY <1>1, <1>3 DEF DeletePod, TypeOK
  <2> QED
    BY <1>1, <2>1, <2>2
    DEF PrivateInv, CallsAreAwaited, NobodyMeets, NothingIsEvicted, GoneStaysGone
<1>4. ASSUME NEW t \in Targets, Abandon(t)
      PROVE  FALSE
  BY <1>1, <1>4 DEF Abandon, PrivateKeys, TypeOK
<1>5. CASE Push \/ AllGone \/ UNCHANGED vars
  <2>1. UNCHANGED <<dirs, op, vol, caller, overlapped>>
    BY <1>5 DEF Push, AllGone, vars, diskVars, kubeletVars
  <2> QED
    BY <1>1, <2>1
    DEF PrivateInv, CallsAreAwaited, NobodyMeets, NothingIsEvicted, GoneStaysGone
<1>6. CASE Crash
  <2>1. /\ \A h \in Handlers : op'[h].pc = "idle"
        /\ dirs' = dirs /\ vol' = vol /\ overlapped' \subseteq overlapped
    BY <1>6 DEF Crash, Idle
  <2> QED
    BY <1>1, <2>1
    DEF PrivateInv, CallsAreAwaited, NobodyMeets, NothingIsEvicted, GoneStaysGone
<1> QED
  BY <1>2, <1>3, <1>4, <1>5, <1>6, WorkStaysPrivate, AnswersStayPrivate DEF Next, Advance, Work

\* Nobody ever meets.
LEMMA PrivateInvariance ==
  ASSUME PrivateKeys
  PROVE  Spec => [](RInv /\ PrivateInv)
<1>1. Init => RInv /\ PrivateInv
  <2>1. Init => RInv
    BY InvInit DEF RInv, Init, TargetIsRemoved
  <2>2. Init => PrivateInv
    BY DEF Init, PrivateInv, CallsAreAwaited, NobodyMeets, NothingIsEvicted, GoneStaysGone, Idle
  <2> QED
    BY <2>1, <2>2
<1>2. RInv /\ PrivateInv /\ [Next]_vars => (RInv /\ PrivateInv)'
  BY PrivateStep, InvStep, RemovedStep DEF RInv, IInv
<1> QED
  BY <1>1, <1>2, PTL DEF Spec

\* A mounted volume is read-only and holds one commit, whole, with its metadata
\* and within the policy's limits, always, where keys are private, the cache has
\* room and the kubelet waits: through every crash, leftover and retry.
THEOREM PrivateMountsServed ==
  ASSUME PrivateKeys
  PROVE  Spec => []MountedIsServed
<1>1. RInv /\ PrivateInv => MountedIsServed
  BY DEF RInv, IInv, PrivateInv, NobodyMeets, IsolatedMountIsServed, MountedIsServed
<1> QED
  BY <1>1, PrivateInvariance, PTL

\* A target whose NodeUnpublishVolume has answered OK is gone, and stays so.
THEOREM PrivateGone ==
  ASSUME PrivateKeys
  PROVE  Spec => []GoneStaysGone
<1>1. RInv /\ PrivateInv => GoneStaysGone
  BY DEF PrivateInv
<1> QED
  BY <1>1, PrivateInvariance, PTL

\* A mounted volume does not change under the pod that uses it.
THEOREM PrivateMountsKept ==
  ASSUME PrivateKeys
  PROVE  Spec => MountedIsImmutable
<1> DEFINE Kept(t) == vol[t] = "mounted" /\ vol'[t] = "mounted"
                        => tree'[t] = tree[t] /\ (t \in dirs' <=> t \in dirs)
<1>1. ASSUME RInv, PrivateInv, PrivateInv', [Next]_vars, NEW t \in Targets PROVE Kept(t)
  <2>1. TypeOK /\ CallsAreWellFormed /\ IsolatedMountIsServed
    BY <1>1 DEF RInv, IInv
  <2>2. ASSUME vol[t] = "mounted", vol'[t] = "mounted"
        PROVE  t \notin overlapped /\ t \notin overlapped'
    BY <1>1, <2>2 DEF PrivateInv, NobodyMeets
  <2>3. ASSUME NEW h \in Handlers, Clone(h) \/ CloneFails(h) \/ Advance(h)
        PROVE  Kept(t)
    <3> SUFFICES ASSUME vol[t] = "mounted", vol'[t] = "mounted"
                 PROVE  Same(t)
      BY DEF Same
    <3>1. ~ Touch(h, t)
      BY <2>2 DEF Touch
    <3> QED
      BY <2>1, <2>3, <3>1, ChangesAreTouches DEF Places
  <2>4. CASE Crash
    <3> SUFFICES ASSUME vol[t] = "mounted", vol'[t] = "mounted"
                 PROVE  tree'[t] = tree[t] /\ dirs' = dirs
      OBVIOUS
    <3>1. PICK c \in Commits \ Oversize : Whole(t, c)
      BY <2>1, <2>2 DEF IsolatedMountIsServed, Served
    <3>2. \A n \in Names : tree[t][n] # Nothing => tree[t][n].by \notin Handlers
      BY <3>1, WriterAssumption DEF Whole
    <3>3. tree'[t] = [n \in Names |-> tree[t][n]]
      BY <2>4, <3>2 DEF Crash, Places
    <3>4. tree[t] \in [Names -> Entry \cup {Nothing}]
      BY <2>1 DEF TypeOK, Places
    <3> QED
      BY <2>4, <3>3, <3>4 DEF Crash
  <2>5. CASE \/ \E h \in Handlers, u \in Targets :
                  NodePublishVolume(h, u) \/ NodeUnpublishVolume(h, u)
             \/ \E u \in Targets : DeletePod(u) \/ Abandon(u)
             \/ Push \/ AllGone \/ UNCHANGED vars
    BY <2>5 DEF NodePublishVolume, NodeUnpublishVolume, DeletePod, Abandon, Push, AllGone,
                vars, diskVars
  <2> QED
    BY <1>1, <2>3, <2>4, <2>5 DEF Next
<1>2. /\ RInv /\ PrivateInv /\ (RInv /\ PrivateInv)' /\ [Next]_vars
      => [\A t \in Targets :
            vol[t] = "mounted" /\ vol'[t] = "mounted"
              => tree'[t] = tree[t] /\ (t \in dirs' <=> t \in dirs)]_vars
  BY <1>1
<1> QED
  BY <1>2, PrivateInvariance, PTL DEF Spec, MountedIsImmutable

\* No volume is ever spoilt.
LEMMA NothingSpoilt ==
  ASSUME RInv, PrivateInv
  PROVE  Spoilt = {}
  BY PlaceAssumption DEF RInv, IInv, PrivateInv, NobodyMeets, Spoilt, TypeOK

\* So a step of Volume that may leave volumes spoilt is one that leaves none.
LEMMA StrictStep ==
  ASSUME Spoilt = {}, Spoilt' = {}, [Shared!Next]_(Shared!vars)
  PROVE  [Strict!Next]_(Strict!vars)
<1>1. CASE Shared!Push
  BY <1>1 DEF Shared!Push, Strict!Push, Strict!Next
<1>2. CASE Shared!Work
  <2>1. \E others \in SUBSET Targets : {} = {} \cup others
    OBVIOUS
  <2> QED
    BY <1>2, <2>1
    DEF Shared!Work, Strict!Work, Strict!Next, Shared!Content, Strict!Content, Shared!Commits,
        Strict!Commits, Shared!Absent, Strict!Absent, Shared!Partial, Strict!Partial,
        Shared!Unsettled, Strict!Unsettled
<1>3. CASE Shared!Fail
  BY <1>3 DEF Shared!Fail, Strict!Fail, Strict!Next, Shared!Unsettled, Strict!Unsettled,
              Shared!Absent, Strict!Absent
<1>4. ASSUME NEW t \in Targets, Shared!Resolve(t)
      PROVE  Strict!Next
  BY <1>4 DEF Shared!Resolve, Strict!Resolve, Strict!Next, Shared!Absent, Strict!Absent
<1>5. ASSUME NEW t \in Targets, Shared!Mount(t)
      PROVE  Strict!Next
  BY <1>5 DEF Shared!Mount, Strict!Mount, Strict!Next, Shared!Absent, Strict!Absent
<1>6. ASSUME NEW t \in Targets, Shared!Release(t)
      PROVE  Strict!Next
  BY <1>6 DEF Shared!Release, Strict!Release, Strict!Next
<1>7. ASSUME NEW t \in Targets, Shared!Remove(t)
      PROVE  Strict!Next
  BY <1>7 DEF Shared!Remove, Strict!Remove, Strict!Next, Shared!Absent, Strict!Absent
<1>8. CASE UNCHANGED Shared!vars
  BY <1>8 DEF Shared!vars, Strict!vars
<1> QED
  BY <1>1, <1>2, <1>3, <1>4, <1>5, <1>6, <1>7, <1>8 DEF Shared!Next

\* The plugin implements Volume with no volume ever spoilt: the promise holds
\* unconditionally where keys are private, the cache has room and the kubelet
\* waits.
THEOREM PromiseKept ==
  ASSUME PrivateKeys
  PROVE  Spec => KeepsPromise
<1>1. Init => Strict!Init
  <2>1. Init => Shared!Init
    BY StartsAsVolume
  <2> QED
    BY <2>1 DEF Shared!Init, Strict!Init, Shared!Absent, Strict!Absent
<1>2. /\ RInv /\ PrivateInv /\ (RInv /\ PrivateInv)' /\ [Next]_vars
      => [Strict!Next]_(Strict!vars)
  <2> SUFFICES ASSUME RInv, PrivateInv, (RInv /\ PrivateInv)', [Next]_vars
               PROVE  [Strict!Next]_(Strict!vars)
    OBVIOUS
  <2>1. Spoilt = {}
    BY NothingSpoilt
  <2>2. Spoilt' = {}
    BY PlaceAssumption DEF RInv, IInv, PrivateInv, NobodyMeets, Spoilt, TypeOK
  <2>3. [Shared!Next]_(Shared!vars)
    BY StepsAsVolume
  <2> QED
    BY <2>1, <2>2, <2>3, StrictStep
<1> QED
  BY <1>1, <1>2, PrivateInvariance, PTL DEF Spec, KeepsPromise, Strict!Spec

-----------------------------------------------------------------------------
(* What fails a call. *)

\* A handler that removes directories knows all names that are in them, and
\* finds its content directory as it was.
LEMMA RemovalUnhindered ==
  ASSUME TypeOK, CallsAreWellFormed, CallsAreWellFormed', NothingIsEvicted, CanWriteReadOnly,
         NEW h \in Handlers, Unhindered(h),
         RemoveOpen(h) \/ RemoveEntry(h) \/ RemoveDir(h)
  PROVE  Unhindered(h)'
<1> DEFINE k == Key(h)
           t == op[h].target
<1>1. op[h] \in Call /\ WellFormed(op[h]) /\ WellFormed(op'[h])
  BY DEF TypeOK, CallsAreWellFormed
<1>2. op[h].pc \in {"clear", "clearTarget", "unpublish"}
  BY <1>1 DEF RemoveOpen, RemoveEntry, RemoveDir, WellFormed, RemovalPlaces, NothingIsEvicted
<1>3. k \in Keys /\ t \in Targets /\ k # t /\ (op[h].pc = "clearTarget" => k \in dirs)
  BY <1>2, KeyType, PlaceAssumption DEF Unhindered
<1>4. ASSUME NEW p \in RemovalPlaces(op[h]), NEW ok \in BOOLEAN,
             op'[h] = Removed(op[h], p, ok),
             dirs' = IF ok THEN dirs \ {p} ELSE dirs
      PROVE  Unhindered(h)'
  <2>1. op'[h].target = t /\ op'[h].removing = Nothing /\ Key(h)' = k
    BY <1>1, <1>4, RemovedType DEF Key
  <2>2. op'[h].pc = AfterRemoval(op[h].pc, ok)
    BY <1>1, <1>2, <1>4 DEF Removed, Call
  <2>3. op'[h].pc # "metaFile" /\ op'[h].pc \notin {"clearTarget", "list"}
    BY <1>2, <2>2 DEF AfterRemoval
  <2>4. op'[h].pc = "target" => k \in dirs'
    <3>1. op'[h].pc = "target" => op[h].pc = "clearTarget"
      BY <1>2, <2>2 DEF AfterRemoval
    <3>2. op[h].pc = "clearTarget" => p = t
      BY <1>4 DEF RemovalPlaces
    <3> QED
      BY <1>3, <1>4, <3>1, <3>2
  <2> HIDE DEF k, t
  <2> QED
    BY <2>1, <2>3, <2>4 DEF Unhindered
<1>5. CASE RemoveOpen(h)
  <2>1. PICK p \in RemovalPlaces(op[h]) :
          op'[h] = IF p \in dirs
                   THEN [op[h] EXCEPT !.removing = p, !.todo = Present(p)]
                   ELSE Removed(op[h], p, TRUE)
    BY <1>5 DEF RemoveOpen, TypeOK
  <2>2. tree' = tree /\ dirs' = dirs
    BY <1>5 DEF RemoveOpen, diskVars
  <2>3. CASE p \in dirs
    <3>1. /\ op'[h].pc = op[h].pc /\ op'[h].target = t /\ Key(h)' = k
          /\ op'[h].removing = p /\ op'[h].todo = Present(p)
      BY <1>1, <2>1, <2>3 DEF Call, Key
    <3>2. Present(p)' = Present(p)
      BY <2>2 DEF Present
    <3> HIDE DEF k, t
    <3> QED
      BY <1>2, <1>3, <2>2, <3>1, <3>2 DEF Unhindered
  <2>4. CASE p \notin dirs
    BY <1>4, <2>1, <2>2, <2>4
  <2> QED
    BY <2>3, <2>4
<1>6. CASE RemoveEntry(h)
  <2> DEFINE p == op[h].removing
  <2>1. PICK n \in op[h].todo :
          /\ p # Nothing /\ op' = [op EXCEPT ![h].todo = @ \ {n}]
          /\ Put(p, n, Nothing) /\ dirs' = dirs
    BY <1>6 DEF RemoveEntry, Writable
  <2>2. /\ op'[h].pc = op[h].pc /\ op'[h].target = t /\ Key(h)' = k
        /\ op'[h].removing = p /\ op'[h].todo = op[h].todo \ {n}
    BY <1>1, <2>1 DEF Call, Key, TypeOK
  <2>3. p \in Places /\ Present(p) \subseteq op[h].todo
    BY <1>1, <2>1 DEF Unhindered, Call
  <2>4. {m \in Names : tree'[p][m] # Nothing} \subseteq op'[h].todo
    BY <2>1, <2>2, <2>3, PutChanges DEF Present
  <2>5. Present(op[h].removing)' \subseteq op'[h].todo
    BY <2>2, <2>4 DEF Present
  <2>6. op'[h].pc = "clearTarget" => k \in dirs'
    BY <1>3, <2>1, <2>2
  <2> HIDE DEF k, t, p
  <2> QED
    BY <1>2, <2>2, <2>5, <2>6 DEF Unhindered
<1>7. CASE RemoveDir(h)
  <2> DEFINE p == op[h].removing
             ok == Present(p) = {}
  <2>1. p \in RemovalPlaces(op[h]) /\ op'[h] = Removed(op[h], p, ok)
    BY <1>1, <1>7 DEF RemoveDir, WellFormed
  <2>2. dirs' = IF ok THEN dirs \ {p} ELSE dirs
    BY <1>7 DEF RemoveDir
  <2> HIDE DEF p
  <2> QED
    BY <1>4, <2>1, <2>2
<1> QED
  BY <1>5, <1>6, <1>7

\* A handler that builds or copies leaves itself what it needs next.
LEMMA WorkUnhindered ==
  ASSUME TypeOK, CallsAreWellFormed, CallsAreWellFormed', PrivateKeys, NEW h \in Handlers,
         Isolated(h), Work(h), ~ (RemoveOpen(h) \/ RemoveEntry(h) \/ RemoveDir(h))
  PROVE  Unhindered(h)'
<1> DEFINE k == Key(h)
<1>1. op[h] \in Call /\ WellFormed(op[h]) /\ WellFormed(op'[h])
  BY DEF TypeOK, CallsAreWellFormed
<1>2. op[h].pc # "idle" /\ Key(h)' = k /\ k \in Keys /\ k \in Places
  BY WorkMovesOn, KeyType DEF Key
<1>3. op[h].removing = Nothing /\ op'[h].removing = op[h].removing
  <2>1. op[h].pc \notin {"clear", "clearTarget", "unpublish", "evict"}
    BY DEF Work, Clone, CloneFails, MakeContentDir, ExportCreate, ExportFill, CheckLimits,
           MakeMetaDir, WriteMetadata, EvictScan, MakeTarget, ListContent, CopyOpen, CopyData,
           ChmodReadOnly
  <2>2. op[h].removing = Nothing
    BY <1>1, <2>1 DEF WellFormed, RemovalPlaces
  <2>3. CASE op'[h].pc \notin {"clear", "clearTarget", "unpublish", "evict"}
    BY <1>1, <2>2, <2>3 DEF WellFormed, RemovalPlaces
  <2>4. CASE Clone(h)
    BY <1>1, <2>2, <2>4 DEF Clone, TypeOK, Call
  <2>5. CASE EvictScan(h)
    <3>1. PICK D : op' = [op EXCEPT ![h].doomed = D, ![h].pc = IF D = {} THEN "clearTarget" ELSE "evict"]
      BY <2>5 DEF EvictScan
    <3> QED
      BY <1>1, <2>2, <3>1 DEF TypeOK, Call
  <2>6. CASE ~ Clone(h) /\ ~ EvictScan(h)
    <3>1. op'[h].pc \notin {"clear", "clearTarget", "unpublish", "evict"}
      BY <1>1, <2>6
      DEF Work, CloneFails, MakeContentDir, ExportCreate, ExportFill, CheckLimits,
          MakeMetaDir, WriteMetadata, MakeTarget, ListContent, CopyOpen, CopyData,
          ChmodReadOnly, Go, TypeOK, Call
    <3> QED
      BY <2>3, <3>1
  <2> QED
    BY <2>4, <2>5, <2>6
<1>4. op'[h].pc = "metaFile" => tree'[k][Meta] # Nothing
  <2> SUFFICES ASSUME op'[h].pc = "metaFile"
               PROVE  tree'[k][Meta] # Nothing
    OBVIOUS
  <2>1. MakeMetaDir(h)
    <3>1. ~ EvictScan(h)
      BY EvictsNothing
    <3> QED
      BY <1>1, <3>1
      DEF Work, Clone, CloneFails, MakeContentDir, ExportCreate, ExportFill, CheckLimits,
          WriteMetadata, MakeTarget, ListContent, CopyOpen, CopyData, ChmodReadOnly, Go,
          TypeOK, Call
  <2>2. [commit |-> op[h].commit, by |-> h] # Nothing
    BY <1>1, <2>1, NothingAssumption DEF MakeMetaDir, WellFormed, Entry
  <2>3. Meta \in Names
    BY DEF Names
  <2> QED
    BY <1>2, <2>1, <2>2, <2>3, PutChanges DEF MakeMetaDir
<1>5. op'[h].pc \in {"clearTarget", "target", "list"} => k \in dirs'
  <2>1. CASE EvictScan(h)
    <3>1. ContentStage(h, k) /\ op[h].pc = "scan" /\ dirs' = dirs
      BY <1>2, <2>1 DEF Isolated, EvictScan, diskVars
    <3> QED
      BY <3>1 DEF ContentStage, Whole
  <2>2. CASE MakeTarget(h)
    BY <1>1, <2>2 DEF MakeTarget, Mkdir, Go, TypeOK, Call
  <2>3. CASE ~ EvictScan(h) /\ ~ MakeTarget(h)
    <3>1. op'[h].pc \notin {"clearTarget", "target", "list"}
      BY <1>1, <2>3
      DEF Work, Clone, CloneFails, MakeContentDir, ExportCreate, ExportFill, CheckLimits,
          MakeMetaDir, WriteMetadata, ListContent, CopyOpen, CopyData,
          ChmodReadOnly, Go, TypeOK, Call
    <3> QED
      BY <3>1
  <2> QED
    BY <2>1, <2>2, <2>3
<1> HIDE DEF k
<1> QED
  BY <1>2, <1>3, <1>4, <1>5 DEF Unhindered

\* Where calls do not meet, a handler's step leaves the others as they are, and
\* what they need.
LEMMA OthersUnhindered ==
  ASSUME TypeOK, CallsAreWellFormed, NothingIsEvicted, NobodyMeets',
         NEW h \in Handlers, Work(h) \/ ReturnError(h) \/ ReturnOK(h),
         NEW g \in Handlers \ {h}, op[g].pc # "idle", Unhindered(g)
  PROVE  op'[g] = op[g] /\ Unhindered(g)'
<1>1. /\ op[g] \in Call /\ WellFormed(op[g]) /\ op[g].pc # "evict"
      /\ Key(g) \in Places /\ op[g].target \in Places
  BY KeyType DEF TypeOK, CallsAreWellFormed, NothingIsEvicted, Places
<1>2. g \notin overlapped'
  BY PlaceAssumption DEF NobodyMeets
<1>3. \A p \in Footprint(g) : ~ Touch(h, p)
  BY <1>2 DEF Touch
<1>4. \A p \in Footprint(g) : Same(p)
  BY <1>1, <1>3, ChangesAreTouches DEF Work, Advance, Footprint
<1>5. op[g].removing \in Footprint(g) \cup {Nothing}
  BY <1>1 DEF WellFormed, RemovalPlaces, Footprint, Key
<1>6. op'[g] = op[g]
  BY <1>3, <1>5, OthersKeep
<1>7. op[g].removing # Nothing => Present(op[g].removing)' = Present(op[g].removing)
  BY <1>4, <1>5, <1>6 DEF Present, Same
<1>8. Key(g)' = Key(g) /\ Same(Key(g))
  BY <1>4, <1>6 DEF Key, Footprint
<1> QED
  BY <1>6, <1>7, <1>8 DEF Unhindered, Same

\* Every step leaves the calls what they need.
LEMMA UnhinderedStep ==
  ASSUME PrivateKeys, CanWriteReadOnly, IInv, IInv', PrivateInv, PrivateInv', CallsAreUnhindered,
         [Next]_vars
  PROVE  CallsAreUnhindered'
<1> SUFFICES ASSUME NEW g \in Handlers, op'[g].pc # "idle"
             PROVE  Unhindered(g)'
  BY DEF CallsAreUnhindered
<1>1. /\ TypeOK /\ CallsAreWellFormed /\ CallsAreWellFormed' /\ IsolatedCalls
      /\ NothingIsEvicted /\ NobodyMeets /\ NobodyMeets'
  BY DEF IInv, PrivateInv
<1>2. ASSUME NEW h \in Handlers, Work(h) \/ ReturnError(h) \/ ReturnOK(h), g # h
      PROVE  Unhindered(g)'
  <2>1. op[g].pc # "idle" => Unhindered(g)
    BY DEF CallsAreUnhindered
  <2>2. op'[g].pc = op[g].pc
    BY <1>1, <1>2, OthersKeepStage
  <2> QED
    BY <1>1, <1>2, <2>1, <2>2, OthersUnhindered
<1>3. ASSUME Work(g)
      PROVE  Unhindered(g)'
  <2>1. op[g].pc # "idle" /\ g \notin overlapped
    BY <1>1, <1>3, WorkMovesOn, PlaceAssumption DEF NobodyMeets
  <2>2. Isolated(g) /\ Unhindered(g)
    BY <1>1, <2>1 DEF IsolatedCalls, CallsAreUnhindered
  <2> QED
    BY <1>1, <1>3, <2>2, RemovalUnhindered, WorkUnhindered
<1>4. ASSUME ReturnError(g) \/ ReturnOK(g)
      PROVE  FALSE
  BY <1>1, <1>4 DEF ReturnError, ReturnOK, Answer, TypeOK, Idle
<1>5. ASSUME UNCHANGED diskVars, op'[g] = op[g]
      PROVE  Unhindered(g)'
  BY <1>5 DEF CallsAreUnhindered, Unhindered, diskVars, Key, Present
<1>6. ASSUME NEW h \in Handlers, NEW t \in Targets,
             NodePublishVolume(h, t) \/ NodeUnpublishVolume(h, t)
      PROVE  Unhindered(g)'
  <2>1. CASE g # h
    BY <1>1, <1>5, <1>6, <2>1 DEF NodePublishVolume, NodeUnpublishVolume, TypeOK
  <2>2. CASE g = h
    <3>1. op'[g].removing = Nothing /\ op'[g].pc \in {"clone", "unpublish"}
      BY <1>1, <1>6, <2>2, BeginsCall
    <3> QED
      BY <3>1 DEF Unhindered
  <2> QED
    BY <2>1, <2>2
<1>7. CASE (\E t \in Targets : DeletePod(t) \/ Abandon(t)) \/ Push \/ AllGone \/ UNCHANGED vars
  BY <1>5, <1>7 DEF DeletePod, Abandon, Push, AllGone, vars
<1>8. ASSUME Crash
      PROVE  FALSE
  BY <1>8 DEF Crash, Idle
<1> QED
  BY <1>2, <1>3, <1>4, <1>6, <1>7, <1>8 DEF Next, Advance, Work

\* Nothing but the clone and the limits fails a call that finds what it needs.
LEMMA WorkNeverFails ==
  ASSUME TypeOK, CallsAreWellFormed, PrivateKeys, CanWriteReadOnly, NothingIsEvicted,
         NEW h \in Handlers, Work(h), Isolated(h), Unhindered(h),
         op[h].pc \notin {"clone", "limits"}
  PROVE  op'[h].pc # "fail"
<1> DEFINE k == Key(h)
           t == op[h].target
           c == op[h].commit
           n == Min(op[h].todo)
<1>1. op[h] \in Call /\ WellFormed(op[h])
  BY DEF TypeOK, CallsAreWellFormed
<1>2. op[h].pc \notin {"idle", "evict", "fail"} /\ k \in Places /\ t \in Places
  BY WorkMovesOn, KeyType DEF NothingIsEvicted, Places
<1>3. ContentStage(h, k) /\ TargetStage(h, t)
  BY <1>2 DEF Isolated
<1>4. \A p : Removed(op[h], p, TRUE).pc # "fail"
  BY <1>1, <1>2 DEF Removed, AfterRemoval, Call
<1>5. CASE RemoveOpen(h)
  <2>1. PICK p \in RemovalPlaces(op[h]) :
          op'[h] = IF p \in dirs
                   THEN [op[h] EXCEPT !.removing = p, !.todo = Present(p)]
                   ELSE Removed(op[h], p, TRUE)
    BY <1>5 DEF RemoveOpen, TypeOK
  <2> QED
    BY <1>1, <1>2, <1>4, <2>1 DEF Call
<1>6. CASE RemoveEntry(h)
  BY <1>1, <1>2, <1>6 DEF RemoveEntry, TypeOK, Call
<1>7. CASE RemoveDir(h)
  <2>1. Present(op[h].removing) = {}
    BY <1>7 DEF RemoveDir, Unhindered
  <2>2. op'[h] = Removed(op[h], op[h].removing, TRUE)
    BY <1>7, <2>1 DEF RemoveDir
  <2> QED
    BY <1>4, <2>2
<1>8. CASE MakeContentDir(h) \/ ExportFill(h) \/ MakeMetaDir(h) \/ CopyData(h)
  BY <1>1, <1>8 DEF MakeContentDir, ExportFill, MakeMetaDir, CopyData, Go, TypeOK, Call
<1>9. CASE ExportCreate(h)
  <2>1. n \in op[h].todo /\ n \in Files
    <3>1. op[h].todo \in SUBSET Names /\ op[h].todo # {} /\ op[h].todo \subseteq Files
      BY <1>1, <1>9 DEF ExportCreate, WellFormed, Call
    <3> QED
      BY <3>1, FirstName
  <2>2. tree[k][n] = Nothing
    BY <1>3, <1>9, <2>1 DEF ExportCreate, ContentStage, Done
  <2>3. Go(h, "filling")
    BY <1>9, <2>2 DEF ExportCreate
  <2> QED
    BY <1>1, <2>3 DEF Go, TypeOK, Call
<1>10. CASE WriteMetadata(h)
  <2>1. Go(h, "scan")
    BY <1>10 DEF WriteMetadata, Unhindered
  <2> QED
    BY <1>1, <2>1 DEF Go, TypeOK, Call
<1>11. CASE EvictScan(h)
  BY <1>11, EvictsNothing
<1>12. CASE MakeTarget(h)
  <2>1. Go(h, "list")
    BY <1>12 DEF MakeTarget, Unhindered
  <2> QED
    BY <1>1, <2>1 DEF Go, TypeOK, Call
<1>13. CASE ListContent(h)
  <2>1. k \in dirs
    BY <1>13 DEF ListContent, Unhindered
  <2> QED
    BY <1>1, <1>13, <2>1 DEF ListContent, TypeOK, Call
<1>14. CASE CopyOpen(h)
  <2>1. n \in op[h].todo /\ n \in Names
    <3>1. op[h].todo \in SUBSET Names /\ op[h].todo # {}
      BY <1>1, <1>14 DEF CopyOpen, WellFormed, Call
    <3> QED
      BY <3>1, FirstName
  <2>2. tree[k][n] # Nothing /\ tree[t][n] = Nothing
    <3>1. c \in Commits
      BY <1>1, <1>14 DEF CopyOpen, WellFormed
    <3>2. [commit |-> c, by |-> Closed] # Nothing
      BY <3>1, NothingAssumption DEF Entry
    <3> QED
      BY <1>3, <1>14, <2>1, <3>2 DEF CopyOpen, ContentStage, TargetStage, Whole, Done
  <2>3. op' = [op EXCEPT ![h].pc = "copying", ![h].read = tree[k][n]]
    BY <1>14, <2>2 DEF CopyOpen, Writable
  <2> QED
    BY <1>1, <2>3 DEF TypeOK, Call
<1>15. CASE ChmodReadOnly(h)
  <2>1. t \in dirs
    BY <1>3, <1>15 DEF ChmodReadOnly, TargetStage, Whole
  <2>2. Go(h, "reply")
    BY <1>15, <2>1 DEF ChmodReadOnly
  <2> QED
    BY <1>1, <2>2 DEF Go, TypeOK, Call
<1> QED
  BY <1>5, <1>6, <1>7, <1>8, <1>9, <1>10, <1>11, <1>12, <1>13, <1>14, <1>15
  DEF Work, Clone, CloneFails, CheckLimits

\* What earlier calls and restarts have left on disk never fails a call, where
\* keys are private, the cache has room, the kubelet waits, and the process may
\* write what it has made read-only.
THEOREM LeftoversHarmless ==
  ASSUME PrivateKeys, CanWriteReadOnly
  PROVE  Spec => LeftoversNeverFail
<1> DEFINE Inv == RInv /\ PrivateInv
<1>1. Init => CallsAreUnhindered
  BY DEF Init, CallsAreUnhindered, Idle
<1>2. Inv /\ Inv' /\ CallsAreUnhindered /\ [Next]_vars => CallsAreUnhindered'
  BY UnhinderedStep DEF RInv
<1>3. ASSUME Inv, CallsAreUnhindered, [Next]_vars, NEW g \in Handlers,
             op[g].pc # "fail", op'[g].pc = "fail"
      PROVE  op[g].pc \in {"clone", "limits"}
  <2>1. /\ TypeOK /\ CallsAreWellFormed /\ IsolatedCalls /\ NothingIsEvicted /\ NobodyMeets
    BY <1>3 DEF RInv, IInv, PrivateInv
  <2>2. CASE Work(g)
    <3>1. op[g].pc # "idle" /\ g \notin overlapped
      BY <2>1, <2>2, WorkMovesOn, PlaceAssumption DEF NobodyMeets
    <3>2. Isolated(g) /\ Unhindered(g)
      BY <1>3, <2>1, <3>1 DEF IsolatedCalls, CallsAreUnhindered
    <3> QED
      BY <1>3, <2>1, <2>2, <3>2, WorkNeverFails
  <2>3. ASSUME NEW h \in Handlers \ {g}, Work(h) \/ ReturnError(h) \/ ReturnOK(h)
        PROVE  FALSE
    BY <1>3, <2>1, <2>3, OthersKeepStage
  <2>4. ASSUME ReturnError(g) \/ ReturnOK(g)
        PROVE  FALSE
    BY <1>3, <2>1, <2>4 DEF ReturnError, ReturnOK, Answer, TypeOK, Idle
  <2>5. ASSUME NEW h \in Handlers, NEW t \in Targets,
               NodePublishVolume(h, t) \/ NodeUnpublishVolume(h, t)
        PROVE  FALSE
    BY <1>3, <2>1, <2>5, BeginsCall
  <2>6. ASSUME \/ \E t \in Targets : DeletePod(t) \/ Abandon(t)
               \/ Push \/ AllGone \/ UNCHANGED vars
        PROVE  FALSE
    BY <1>3, <2>6 DEF DeletePod, Abandon, Push, AllGone, vars
  <2>7. ASSUME Crash
        PROVE  FALSE
    BY <1>3, <2>7 DEF Crash, Idle
  <2> QED
    BY <1>3, <2>2, <2>3, <2>4, <2>5, <2>6, <2>7 DEF Next, Advance, Work
<1>4. Inv /\ CallsAreUnhindered /\ [Next]_vars
      => [\A h \in Handlers :
            op[h].pc # "fail" /\ op'[h].pc = "fail" => op[h].pc \in {"clone", "limits"}]_vars
  BY <1>3
<1>5. Spec => []Inv
  BY PrivateInvariance
<1> QED
  BY <1>1, <1>2, <1>4, <1>5, PTL DEF Spec, LeftoversNeverFail

-----------------------------------------------------------------------------
(* Room in the cache. *)

\* Of the keys on disk, which is older than which is an order.
AgesAreOrdered ==
  LET here == dirs \cap Keys
  IN  /\ \A k \in here : k \notin older[k]
      /\ \A i, j, k \in here : i \in older[j] /\ j \in older[k] => i \in older[k]

\* A key that is made is younger than all there are, and older than none.
LEMMA MkdirOrders ==
  ASSUME TypeOK, AgesAreOrdered, NEW p \in Places, Mkdir(p)
  PROVE  AgesAreOrdered'
<1>1. CASE p \in Keys \ dirs
  <2>1. dirs' \cap Keys = (dirs \cap Keys) \cup {p}
    BY <1>1 DEF Mkdir
  <2>2. \A k \in Keys : older'[k] = IF k = p THEN Keys \ {p} ELSE older[k] \ {p}
    BY <1>1 DEF Mkdir
  <2>3. ASSUME NEW k \in (dirs' \cap Keys)
        PROVE  k \notin older'[k]
    <3>1. CASE k = p
      BY <2>2, <3>1
    <3>2. CASE k # p
      BY <2>1, <2>2, <3>2 DEF AgesAreOrdered
    <3> QED
      BY <3>1, <3>2
  <2>4. ASSUME NEW i \in (dirs' \cap Keys), NEW j \in (dirs' \cap Keys), NEW k \in (dirs' \cap Keys),
               i \in older'[j], j \in older'[k]
        PROVE  i \in older'[k]
    <3>1. j # p
      BY <2>2, <2>4
    <3>2. i \in older[j] \ {p}
      BY <2>2, <2>4, <3>1
    <3>3. CASE k = p
      BY <2>2, <3>2, <3>3
    <3>4. CASE k # p
      <4>1. j \in older[k] /\ {i, j, k} \subseteq dirs \cap Keys
        BY <2>1, <2>2, <2>4, <3>1, <3>2, <3>4
      <4>2. i \in older[k]
        BY <3>2, <4>1 DEF AgesAreOrdered
      <4> QED
        BY <2>2, <3>2, <3>4, <4>2
    <3> QED
      BY <3>3, <3>4
  <2> QED
    BY <2>3, <2>4 DEF AgesAreOrdered
<1>2. CASE p \notin Keys \ dirs
  <2>1. dirs' \cap Keys = dirs \cap Keys /\ older' = older
    BY <1>2 DEF Mkdir
  <2> QED
    BY <2>1 DEF AgesAreOrdered
<1> QED
  BY <1>1, <1>2

\* Nothing else changes the order, but that keys go.
LEMMA OrderStep == TypeOK /\ CallsAreWellFormed /\ AgesAreOrdered /\ [Next]_vars => AgesAreOrdered'
<1> SUFFICES ASSUME TypeOK, CallsAreWellFormed, AgesAreOrdered, [Next]_vars
             PROVE  AgesAreOrdered'
  OBVIOUS
<1>1. ASSUME dirs' \subseteq dirs, older' = older
      PROVE  AgesAreOrdered'
  BY <1>1 DEF AgesAreOrdered
<1>2. ASSUME NEW h \in Handlers, Work(h)
      PROVE  AgesAreOrdered'
  <2>1. op[h] \in Call
    BY DEF TypeOK
  <2>2. CASE Clone(h) \/ CloneFails(h) \/ RemoveOpen(h) \/ RemoveEntry(h) \/ RemoveDir(h)
             \/ ExportFill(h) \/ CheckLimits(h) \/ WriteMetadata(h) \/ EvictScan(h)
             \/ ListContent(h) \/ CopyData(h) \/ ChmodReadOnly(h)
    BY <1>1, <2>2
    DEF Clone, CloneFails, RemoveOpen, RemoveEntry, RemoveDir, ExportFill, CheckLimits,
        WriteMetadata, EvictScan, ListContent, CopyData, ChmodReadOnly, diskVars
  <2>3. CASE MakeContentDir(h) \/ ExportCreate(h) \/ MakeMetaDir(h)
    <3>1. op[h].pc # "idle" /\ Mkdir(Key(h))
      BY <2>3 DEF MakeContentDir, ExportCreate, MakeMetaDir
    <3>2. Key(h) \in Places
      BY <3>1, KeyAssumption DEF TypeOK, Engaged, Key, Places
    <3> QED
      BY <3>1, <3>2, MkdirOrders
  <2>4. CASE MakeTarget(h) \/ CopyOpen(h)
    <3>1. op[h].target \in Places
      BY <2>4 DEF MakeTarget, CopyOpen, TypeOK, Engaged, Places
    <3>2. Mkdir(op[h].target) \/ (dirs' = dirs /\ older' = older)
      BY <2>4 DEF MakeTarget, CopyOpen
    <3> QED
      BY <1>1, <3>1, <3>2, MkdirOrders
  <2> QED
    BY <1>2, <2>2, <2>3, <2>4 DEF Work
<1>3. ASSUME NEW h \in Handlers, ReturnError(h) \/ ReturnOK(h)
      PROVE  AgesAreOrdered'
  BY <1>1, <1>3 DEF ReturnError, ReturnOK, Answer, diskVars
<1>4. ASSUME NEW h \in Handlers, NEW t \in Targets,
             NodePublishVolume(h, t) \/ NodeUnpublishVolume(h, t)
      PROVE  AgesAreOrdered'
  BY <1>1, <1>4 DEF NodePublishVolume, NodeUnpublishVolume, diskVars
<1>5. ASSUME NEW t \in Targets, DeletePod(t) \/ Abandon(t)
      PROVE  AgesAreOrdered'
  BY <1>1, <1>5 DEF DeletePod, Abandon, diskVars
<1>6. CASE Push \/ Crash \/ AllGone \/ UNCHANGED vars
  BY <1>1, <1>6 DEF Push, Crash, AllGone, vars, diskVars
<1> QED
  BY <1>2, <1>3, <1>4, <1>5, <1>6 DEF Next, Advance, Work

\* The scan settles on what makes room.
LEMMA ScanMakesRoom ==
  ASSUME TypeOK, AgesAreOrdered, IsFiniteSet(Keys), NEW h \in Handlers, EvictScan(h)
  PROVE  LET still == (dirs \cap Keys) \ Disturbed(h)
             going == dirs \cap op'[h].doomed
             most  == [k \in Keys |-> IF k \in Disturbed(h) THEN Cardinality(Names)
                                     ELSE Cardinality(Present(k))]
         IN  Bytes(most, still \ going)
               <= MaxSize + Bytes(most, {k \in going : MayHaveExpired(k)})
<1> DEFINE still == (dirs \cap Keys) \ Disturbed(h)
           going == dirs \cap op'[h].doomed
           most  == [k \in Keys |-> IF k \in Disturbed(h) THEN Cardinality(Names)
                                   ELSE Cardinality(Present(k))]
           aged  == {k \in going : MayHaveExpired(k)}
<1>1. PICK items \in SUBSET (dirs \cap Keys), size \in Measured(h) :
        /\ still \subseteq items
        /\ \E expired \in SUBSET {k \in items : MayHaveExpired(k)} :
             op'[h].doomed = Victims(items, size, older, expired, MaxSize)
  <2>1. PICK items \in SUBSET (dirs \cap Keys), size \in Measured(h) :
          /\ still \subseteq items
          /\ \E expired \in SUBSET {k \in items : MayHaveExpired(k)} :
               LET doomed == Victims(items, size, older, expired, MaxSize)
               IN  op' = [op EXCEPT ![h].doomed = doomed,
                            ![h].pc = IF doomed = {} THEN "clearTarget" ELSE "evict"]
    BY ScanSettles
  <2>2. PICK expired \in SUBSET {k \in items : MayHaveExpired(k)} :
          LET doomed == Victims(items, size, older, expired, MaxSize)
          IN  op' = [op EXCEPT ![h].doomed = doomed,
                       ![h].pc = IF doomed = {} THEN "clearTarget" ELSE "evict"]
    BY <2>1
  <2>3. op'[h].doomed = Victims(items, size, older, expired, MaxSize)
    BY <2>2 DEF TypeOK, Call
  <2> WITNESS items \in SUBSET (dirs \cap Keys), size \in Measured(h)
  <2> QED
    BY <2>1, <2>3
<1>2. PICK expired \in SUBSET {k \in items : MayHaveExpired(k)} :
        op'[h].doomed = Victims(items, size, older, expired, MaxSize)
  BY <1>1
<1> DEFINE kept == items \ Victims(items, size, older, expired, MaxSize)
<1>3. /\ \A k \in Keys : size[k] \in Nat /\ most[k] \in Nat /\ size[k] <= most[k]
      /\ \A k \in still : size[k] = most[k]
  <2>1. size \in [Keys -> 0..Cardinality(Names)]
    BY DEF Measured
  <2>2. Cardinality(Names) \in Nat
    BY NamesAreFinite, FileAssumption
  <2>3. \A k \in Keys \ Disturbed(h) : size[k] = Cardinality(Present(k))
    BY DEF Measured
  <2> QED
    BY <2>1, <2>2, <2>3
<1>4. /\ items \in SUBSET Keys /\ IsFiniteSet(items) /\ expired \in SUBSET items
      /\ \A k \in items : size[k] \in Nat
  BY <1>3, FS_Subset
<1>5. /\ \A k \in items : k \notin older[k]
      /\ \A i, j, k \in items : i \in older[j] /\ j \in older[k] => i \in older[k]
  BY DEF AgesAreOrdered
<1>6. MaxSize \in Nat
  BY BoundAssumption
<1>7. Victims(items, size, older, expired, MaxSize) \subseteq items
  BY VictimsAreItems
<1>8. still \ going \in SUBSET kept
  BY <1>1, <1>2
<1>9. expired \in SUBSET aged /\ aged \in SUBSET Keys
  <2>1. expired \subseteq Victims(items, size, older, expired, MaxSize)
    BY DEF Victims
  <2>2. op'[h].doomed \subseteq items
    BY <1>2, <1>7
  <2> QED
    BY <1>2, <2>1, <2>2
<1>10. kept \in SUBSET items
  OBVIOUS
<1>11. Bytes(size, kept) <= MaxSize + Bytes(size, expired)
  BY <1>4, <1>5, <1>6, VictimsMakeRoom
<1>12. \A k \in still \ going : size[k] = most[k]
  BY <1>3
<1>13. still \ going \in SUBSET Keys
  OBVIOUS
<1> HIDE DEF still, going, most, aged, kept
<1> DEFINE left == still \ going
<1>14. /\ IsFiniteSet(left) /\ IsFiniteSet(kept) /\ IsFiniteSet(expired) /\ IsFiniteSet(aged)
       /\ kept \in SUBSET Keys /\ expired \in SUBSET Keys
  BY <1>4, <1>9, <1>10, <1>13, FS_Subset
<1> HIDE DEF left
<1>15. Bytes(most, left) = Bytes(size, left)
  BY <1>12, <1>14, BytesSame DEF left
<1>16. Bytes(size, left) <= Bytes(size, kept)
  BY <1>3, <1>8, <1>14, BytesMonotone DEF left
<1>17. Bytes(size, expired) <= Bytes(most, expired)
  BY <1>3, <1>14, BytesGrow
<1>18. Bytes(most, expired) <= Bytes(most, aged)
  BY <1>3, <1>9, <1>14, BytesMonotone
<1>19. /\ Bytes(size, left) \in Nat /\ Bytes(size, kept) \in Nat
       /\ Bytes(size, expired) \in Nat /\ Bytes(most, expired) \in Nat
       /\ Bytes(most, aged) \in Nat
  BY <1>3, <1>9, <1>13, <1>14, BytesType DEF left
<1>20. Bytes(most, left) <= MaxSize + Bytes(most, aged)
  BY <1>6, <1>11, <1>15, <1>16, <1>17, <1>18, <1>19
<1> QED
  BY <1>20 DEF still, going, most, aged, left

\* Every Evict of the plugin settles on leaving, of the keys no other call may be
\* changing, no more than the limit and what it may have taken for too old, whatever
\* its walks find of the keys that others do change.
THEOREM RoomIsMade ==
  ASSUME IsFiniteSet(Keys)
  PROVE  Spec => EvictMakesRoom
<1> DEFINE Inv == IInv /\ AgesAreOrdered
<1> DEFINE Room(h) ==
      LET still == (dirs \cap Keys) \ Disturbed(h)
          going == dirs \cap op'[h].doomed
          most  == [k \in Keys |-> IF k \in Disturbed(h) THEN Cardinality(Names)
                                  ELSE Cardinality(Present(k))]
      IN  Bytes(most, still \ going)
            <= MaxSize + Bytes(most, {k \in going : MayHaveExpired(k)})
<1>1. Init => AgesAreOrdered
  BY DEF Init, AgesAreOrdered
<1>2. IInv /\ AgesAreOrdered /\ [Next]_vars => AgesAreOrdered'
  BY OrderStep DEF IInv
<1>3. ASSUME Inv, [Next]_vars, NEW g \in Handlers,
             op[g].pc = "scan", op'[g].pc \in {"evict", "clearTarget"}
      PROVE  Room(g)
  <2>1. TypeOK /\ CallsAreWellFormed /\ AgesAreOrdered /\ op[g] \in Call
    BY <1>3 DEF IInv, TypeOK
  <2>2. CASE EvictScan(g)
    BY <2>1, <2>2, ScanMakesRoom
  <2>3. ASSUME Work(g), ~EvictScan(g)
        PROVE  FALSE
    <3>1. op[g].removing = Nothing /\ RemovalPlaces(op[g]) = {}
      BY <1>3, <2>1 DEF CallsAreWellFormed, WellFormed, RemovalPlaces
    <3> QED
      BY <1>3, <2>3, <3>1
      DEF Work, Clone, CloneFails, RemoveOpen, RemoveEntry, RemoveDir, MakeContentDir,
          ExportCreate, ExportFill, CheckLimits, MakeMetaDir, WriteMetadata, MakeTarget,
          ListContent, CopyOpen, CopyData, ChmodReadOnly
  <2>4. ASSUME NEW h \in Handlers \ {g}, Work(h) \/ ReturnError(h) \/ ReturnOK(h)
        PROVE  FALSE
    BY <1>3, <2>1, <2>4, OthersKeepStage
  <2>5. ASSUME ReturnError(g) \/ ReturnOK(g)
        PROVE  FALSE
    BY <1>3, <2>5 DEF ReturnError, ReturnOK
  <2>6. ASSUME NEW h \in Handlers, NEW t \in Targets,
               NodePublishVolume(h, t) \/ NodeUnpublishVolume(h, t)
        PROVE  FALSE
    BY <1>3, <2>1, <2>6 DEF NodePublishVolume, NodeUnpublishVolume, TypeOK, Idle
  <2>7. ASSUME \/ \E t \in Targets : DeletePod(t) \/ Abandon(t)
               \/ Push \/ AllGone \/ UNCHANGED vars
        PROVE  FALSE
    BY <1>3, <2>7 DEF DeletePod, Abandon, Push, AllGone, vars
  <2>8. ASSUME Crash
        PROVE  FALSE
    BY <1>3, <2>8 DEF Crash, Idle
  <2> QED
    BY <1>3, <2>2, <2>3, <2>4, <2>5, <2>6, <2>7, <2>8 DEF Next, Advance, Work
<1>4. Inv /\ [Next]_vars
      => [\A h \in Handlers :
            op[h].pc = "scan" /\ op'[h].pc \in {"evict", "clearTarget"} => Room(h)]_vars
  BY <1>3
<1>5. Spec => []IInv
  BY Invariance
<1> QED
  BY <1>1, <1>2, <1>4, <1>5, PTL DEF Spec, EvictMakesRoom
=============================================================================
