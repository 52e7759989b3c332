-------------------------- MODULE MountPipelineProofs --------------------------
(***************************************************************************)
(* Proofs about MountPipeline, for any number of handlers, targets, keys,  *)
(* files, commits, timeouts and restarts: type correctness, and that a     *)
(* publish no other call overlaps serves its volume.                       *)
(***************************************************************************)
EXTENDS MountPipelineInv, WellFoundedInduction, TLAPS

-----------------------------------------------------------------------------
(* Facts about the operators of the model. *)

\* A non-empty set of file names has a first name: the walks never get stuck.
LEMMA MinInSet ==
  ASSUME NEW S \in SUBSET Nat, S # {}
  PROVE  Min(S) \in S /\ \A m \in S : Min(S) <= m
<1>1. \E n \in S : \A m \in S : n <= m
  <2>1. IsWellFoundedOn(OpToRel(<, Nat), Nat)
    BY NatLessThanWellFounded
  <2>2. PICK n \in S : \A m \in S : ~ (<<m, n>> \in OpToRel(<, Nat))
    BY <2>1, WFMin
  <2>3. \A x, y \in Nat : x < y => <<x, y>> \in OpToRel(<, Nat)
    BY Zenon DEF OpToRel
  <2>4. \A m \in S : ~ (m < n)
    BY <2>2, <2>3, Zenon
  <2> QED
    BY <2>4
<1> QED
  BY <1>1 DEF Min

\* The same for a set of file names of the model.
LEMMA FirstName ==
  ASSUME NEW S \in SUBSET Names, S # {}
  PROVE  Min(S) \in S /\ Min(S) \in Names
<1>1. S \in SUBSET Nat
  BY FileAssumption DEF Names, Files, Meta
<1> QED
  BY <1>1, MinInSet

\* Evict removes only directories it has scanned.
LEMMA VictimsAreItems ==
  ASSUME NEW items, NEW size, NEW rank, NEW expired \in SUBSET items, NEW max
  PROVE  Victims(items, size, rank, expired, max) \subseteq items
  BY DEF Victims, SizeVictims

\* What the scan settles on is some of the keys it has walked, and it has walked
\* at least those that no other call may be changing.
LEMMA ScanSettles ==
  ASSUME TypeOK, NEW h \in Handlers, EvictScan(h)
  PROVE  \E items \in SUBSET (dirs \cap Keys), size \in Measured(h) :
           /\ (dirs \cap Keys) \ Disturbed(h) \subseteq items
           /\ \E expired \in SUBSET {k \in items : MayHaveExpired(k)} :
                LET doomed == Victims(items, size, older, expired, MaxSize)
                IN  op' = [op EXCEPT ![h].doomed = doomed,
                             ![h].pc = IF doomed = {} THEN "clearTarget" ELSE "evict"]
<1>1. PICK skipped \in SUBSET Disturbed(h), size \in Measured(h) :
        LET items == (dirs \cap Keys) \ skipped
        IN  \E expired \in SUBSET {k \in items : MayHaveExpired(k)} :
              LET doomed == Victims(items, size, older, expired, MaxSize)
              IN  op' = [op EXCEPT ![h].doomed = doomed,
                           ![h].pc = IF doomed = {} THEN "clearTarget" ELSE "evict"]
  BY DEF EvictScan
<1> WITNESS (dirs \cap Keys) \ skipped \in SUBSET (dirs \cap Keys), size \in Measured(h)
<1> QED
  BY <1>1

\* Writing a file changes that file only.
LEMMA PutChanges ==
  ASSUME NEW p, NEW n, NEW e, TypeOK, Put(p, n, e)
  PROVE  /\ \A q \in Places, m \in Names :
              tree'[q][m] = IF q = p /\ m = n THEN e ELSE tree[q][m]
         /\ \A q \in Places : q # p => tree'[q] = tree[q]
         /\ e \in Entry \cup {Nothing}
              => tree' \in [Places -> [Names -> Entry \cup {Nothing}]]
  BY DEF TypeOK, Put

\* Closing a file leaves files on disk.
LEMMA CloseType ==
  ASSUME NEW h, NEW p, NEW n, NEW e \in Entry, TypeOK, CloseFile(h, p, n, e)
  PROVE  tree' \in [Places -> [Names -> Entry \cup {Nothing}]]
  BY PutChanges DEF TypeOK, CloseFile

\* Touch marks handlers and targets only.
LEMMA TouchType ==
  ASSUME NEW h, NEW p, TypeOK, Touch(h, p)
  PROVE  overlapped' \subseteq Handlers \cup Targets
  BY DEF TypeOK, Touch

\* MkdirAll makes places only.
LEMMA MkdirType ==
  ASSUME NEW p \in Places, TypeOK, Mkdir(p)
  PROVE  dirs' \subseteq Places /\ older' \in [Keys -> SUBSET Keys]
  BY DEF TypeOK, Mkdir

\* Editing fields of a call gives a call.
LEMMA EditType ==
  ASSUME NEW c \in Call
  PROVE  /\ \A s \in Stages : [c EXCEPT !.pc = s] \in Call
         /\ \A s \in Stages, m \in Commits : [c EXCEPT !.pc = s, !.commit = m] \in Call
         /\ \A s \in Stages, T \in SUBSET Names :
              /\ [c EXCEPT !.pc = s, !.todo = T] \in Call
              /\ [c EXCEPT !.todo = T, !.pc = s] \in Call
         /\ \A s \in Stages, D \in SUBSET Keys : [c EXCEPT !.doomed = D, !.pc = s] \in Call
         /\ \A p \in Places, T \in SUBSET Names : [c EXCEPT !.removing = p, !.todo = T] \in Call
         /\ \A s \in Stages : [c EXCEPT !.removing = Nothing, !.pc = s] \in Call
         /\ \A s \in Stages, D \in SUBSET Keys :
              [c EXCEPT !.removing = Nothing, !.doomed = D, !.pc = s] \in Call
         /\ \A T \in SUBSET Names : [c EXCEPT !.todo = T] \in Call
         /\ \A s \in Stages, r \in Entry : [c EXCEPT !.pc = s, !.read = r] \in Call
         /\ \A s \in Stages, T \in SUBSET Names :
              [c EXCEPT !.todo = T, !.read = Nothing, !.pc = s] \in Call
  BY DEF Call

\* The call after a RemoveAll is a call of the same target and commit.
LEMMA RemovedType ==
  ASSUME NEW c \in Call, NEW p, NEW ok \in BOOLEAN
  PROVE  /\ Removed(c, p, ok) \in Call
         /\ Removed(c, p, ok).target = c.target
         /\ Removed(c, p, ok).commit = c.commit
         /\ Removed(c, p, ok).removing = Nothing
         /\ Removed(c, p, ok).pc # "idle"
<1>1. AfterRemoval(c.pc, ok) \in Stages \ {"idle"}
  BY DEF AfterRemoval, Stages
<1>2. "clearTarget" \in Stages /\ "evict" \in Stages
  BY DEF Stages
<1>3. c.doomed \ {p} \in SUBSET Keys
  BY DEF Call
<1>4. Removed(c, p, ok) \in Call
  BY <1>1, <1>2, <1>3, EditType DEF Removed
<1> QED
  BY <1>1, <1>4 DEF Removed, Call

\* One handler's call changes to a call of the same target.
LEMMA CallChanges ==
  ASSUME TypeOK, NEW h \in Handlers, NEW c \in Call,
         c.target = op[h].target, c.pc # "idle", op[h].pc # "idle",
         op' = [op EXCEPT ![h] = c]
  PROVE  /\ op' \in [Handlers -> Call]
         /\ \A g \in Handlers : Engaged(op'[g])
         /\ op'[h] = c
         /\ \A g \in Handlers \ {h} : op'[g] = op[g]
  BY DEF TypeOK, Engaged

\* A running call has a target, and its key is a key.
LEMMA KeyType ==
  ASSUME TypeOK, NEW h \in Handlers, op[h].pc # "idle"
  PROVE  Key(h) \in Keys /\ op[h].target \in Targets /\ Key(h) \in Places
  BY KeyAssumption DEF TypeOK, Engaged, Key, Places

\* The same for a step that only moves h to another stage.
LEMMA GoChanges ==
  ASSUME TypeOK, NEW h \in Handlers, NEW s \in Stages, s # "idle", op[h].pc # "idle", Go(h, s)
  PROVE  /\ op' \in [Handlers -> Call]
         /\ \A g \in Handlers : Engaged(op'[g])
         /\ op'[h] = [op[h] EXCEPT !.pc = s]
         /\ \A g \in Handlers \ {h} : op'[g] = op[g]
<1>1. op[h] \in Call
  BY DEF TypeOK
<1>2. [op[h] EXCEPT !.pc = s] \in Call
  BY <1>1, EditType
<1>3. [op[h] EXCEPT !.pc = s].target = op[h].target /\ [op[h] EXCEPT !.pc = s].pc # "idle"
  BY <1>1 DEF Call
<1>4. op' = [op EXCEPT ![h] = [op[h] EXCEPT !.pc = s]]
  BY DEF Go, TypeOK
<1> QED
  BY <1>2, <1>3, <1>4, CallChanges

-----------------------------------------------------------------------------
(* Type correctness. *)

\* The plugin starts in a state of the right type.
LEMMA InitType == Init => TypeOK
  BY FileAssumption, BoundAssumption, KeyAssumption, NothingAssumption
  DEF Init, TypeOK, Engaged, Idle, Call, Stages, Commits

\* Every step keeps the types, one step of the proof per action.
LEMMA TypeStep == TypeOK /\ CallsAreWellFormed /\ [Next]_vars => TypeOK'
<1> SUFFICES ASSUME TypeOK, CallsAreWellFormed, [Next]_vars
             PROVE  TypeOK'
  OBVIOUS
<1>1. ASSUME NEW h \in Handlers, NEW t \in Targets, NodePublishVolume(h, t)
      PROVE  TypeOK'
  BY <1>1 DEF TypeOK, NodePublishVolume, Engaged, Idle, Call, Stages, diskVars, boundVars
<1>2. ASSUME NEW h \in Handlers, NEW t \in Targets, NodeUnpublishVolume(h, t)
      PROVE  TypeOK'
  BY <1>2 DEF TypeOK, NodeUnpublishVolume, Engaged, Idle, Call, Stages, diskVars, boundVars
<1>3. ASSUME NEW t \in Targets, DeletePod(t)
      PROVE  TypeOK'
  BY <1>3 DEF TypeOK, DeletePod, diskVars, boundVars
<1>4. ASSUME NEW t \in Targets, Abandon(t)
      PROVE  TypeOK'
  BY <1>4, BoundAssumption DEF TypeOK, Abandon, diskVars
<1>5. CASE Push
  BY <1>5, FileAssumption DEF TypeOK, Push, diskVars, kubeletVars, Commits
<1>6. CASE Crash
  BY <1>6, BoundAssumption DEF TypeOK, Engaged, Crash, Idle, Call, Stages, Entry
<1>7. ASSUME NEW h \in Handlers, Clone(h)
      PROVE  TypeOK'
  <2> DEFINE c == [op[h] EXCEPT !.pc = "clear", !.commit = remote]
  <2>1. c \in Call /\ c.target = op[h].target /\ c.pc # "idle"
    <3>1. op[h] \in Call /\ remote \in Commits /\ "clear" \in Stages
      BY DEF TypeOK, Stages
    <3>2. c \in Call
      BY <3>1, EditType
    <3> QED
      BY <3>1, <3>2 DEF Call
  <2>2. op[h].pc # "idle" /\ op' = [op EXCEPT ![h] = c]
    BY <1>7 DEF Clone, TypeOK
  <2> HIDE DEF c
  <2> QED
    BY <1>7, <2>1, <2>2, CallChanges DEF TypeOK, Clone, diskVars, kubeletVars, boundVars
<1>8. ASSUME NEW h \in Handlers, CloneFails(h) \/ CheckLimits(h)
      PROVE  TypeOK'
  <2>1. op[h].pc # "idle" /\ \E s \in Stages \ {"idle"} : Go(h, s)
    BY <1>8 DEF CloneFails, CheckLimits, Stages
  <2> QED
    BY <1>8, <2>1, GoChanges DEF TypeOK, CloneFails, CheckLimits, diskVars, kubeletVars, boundVars
<1>9. ASSUME NEW h \in Handlers, RemoveOpen(h)
      PROVE  TypeOK'
  <2>1. PICK p \in RemovalPlaces(op[h]) :
          op' = [op EXCEPT ![h] = IF p \in dirs
                                  THEN [@ EXCEPT !.removing = p, !.todo = Present(p)]
                                  ELSE Removed(@, p, TRUE)]
    BY <1>9 DEF RemoveOpen
  <2> DEFINE c == IF p \in dirs
                  THEN [op[h] EXCEPT !.removing = p, !.todo = Present(p)]
                  ELSE Removed(op[h], p, TRUE)
  <2>2. op[h] \in Call /\ op[h].pc # "idle" /\ op' = [op EXCEPT ![h] = c]
    BY <2>1 DEF TypeOK, RemovalPlaces
  <2>3. p \in dirs => p \in Places
    BY DEF TypeOK
  <2>4. Present(p) \in SUBSET Names
    BY DEF Present
  <2>5. c \in Call /\ c.target = op[h].target /\ c.pc # "idle"
    <3>1. CASE p \in dirs
      <4>1. [op[h] EXCEPT !.removing = p, !.todo = Present(p)] \in Call
        BY <2>2, <2>3, <2>4, <3>1, EditType DEF Call
      <4> QED
        BY <3>1, <4>1, <2>2 DEF Call
    <3>2. CASE p \notin dirs
      BY <3>2, <2>2, RemovedType
    <3> QED
      BY <3>1, <3>2
  <2> HIDE DEF c
  <2> QED
    BY <1>9, <2>2, <2>5, CallChanges
    DEF TypeOK, RemoveOpen, diskVars, kubeletVars, boundVars
<1>10. ASSUME NEW h \in Handlers, RemoveEntry(h)
       PROVE  TypeOK'
  <2>1. PICK n \in op[h].todo : op' = [op EXCEPT ![h].todo = @ \ {n}]
    BY <1>10 DEF RemoveEntry
  <2> DEFINE c == [op[h] EXCEPT !.todo = @ \ {n}]
  <2>2. op[h] \in Call /\ op' = [op EXCEPT ![h] = c]
    BY <2>1 DEF TypeOK
  <2>3. op[h].pc # "idle"
    BY <1>10, NothingAssumption DEF RemoveEntry, TypeOK, Engaged
  <2>4. c \in Call /\ c.target = op[h].target /\ c.pc # "idle"
    <3> DEFINE T == op[h].todo \ {n}
    <3>1. T \in SUBSET Names
      BY <2>2 DEF Call
    <3> HIDE DEF T
    <3>2. [op[h] EXCEPT !.todo = T] \in Call
      BY <2>2, <3>1, EditType
    <3>3. c = [op[h] EXCEPT !.todo = T] /\ c.target = op[h].target /\ c.pc = op[h].pc
      BY <2>2 DEF T, Call
    <3> QED
      BY <2>3, <3>2, <3>3
  <2>5. tree' \in [Places -> [Names -> Entry \cup {Nothing}]] /\ overlapped' \subseteq Handlers \cup Targets
    BY <1>10, PutChanges DEF RemoveEntry, TypeOK, Touch
  <2> HIDE DEF c
  <2> QED
    BY <1>10, <2>2, <2>3, <2>4, <2>5, CallChanges
    DEF TypeOK, RemoveEntry, kubeletVars, boundVars
<1>11. ASSUME NEW h \in Handlers, RemoveDir(h)
       PROVE  TypeOK'
  <2> DEFINE p  == op[h].removing
             ok == Present(p) = {}
             c  == Removed(op[h], p, ok)
  <2>1. op[h] \in Call /\ op[h].pc # "idle" /\ op[h].target \in Targets
    BY <1>11, NothingAssumption DEF RemoveDir, TypeOK, Engaged
  <2>2. c \in Call /\ c.pc # "idle" /\ c.target = op[h].target
    BY <2>1, RemovedType
  <2>3. /\ op' \in [Handlers -> Call]
        /\ \A g \in Handlers : Engaged(op'[g])
    <3>1. ASSUME NEW g \in Handlers
          PROVE  op'[g] \in Call /\ Engaged(op'[g])
      <4>1. op'[g] \in {c, op[g], [op[g] EXCEPT !.todo = {}]} /\ (op'[g] = c => op'[g].pc # "idle")
        BY <1>11, <2>2 DEF RemoveDir
      <4>2. op[g] \in Call /\ Engaged(op[g])
        BY DEF TypeOK
      <4>3. [op[g] EXCEPT !.todo = {}] \in Call /\ Engaged([op[g] EXCEPT !.todo = {}])
        BY <4>2 DEF Call, Engaged
      <4> HIDE DEF c
      <4> QED
        BY <4>1, <4>2, <4>3, <2>1, <2>2 DEF Engaged
    <3> QED
      BY <3>1, <1>11 DEF RemoveDir
  <2>4. overlapped' \subseteq Handlers \cup Targets
    BY <1>11, TouchType DEF RemoveDir, TypeOK
  <2> QED
    BY <1>11, <2>3, <2>4 DEF TypeOK, RemoveDir, kubeletVars, boundVars
<1>12. ASSUME NEW h \in Handlers, MakeContentDir(h)
       PROVE  TypeOK'
  <2> DEFINE c == [op[h] EXCEPT !.pc = "export", !.todo = Files]
  <2>1. op[h] \in Call /\ op[h].pc # "idle" /\ op' = [op EXCEPT ![h] = c]
    BY <1>12 DEF TypeOK, MakeContentDir
  <2>2. "export" \in Stages /\ Files \in SUBSET Names
    BY DEF Stages, Names
  <2>3. c \in Call /\ c.target = op[h].target /\ c.pc # "idle"
    <3>1. c \in Call
      BY <2>1, <2>2, EditType
    <3> QED
      BY <2>1, <3>1 DEF Call
  <2>4. /\ dirs' \subseteq Places /\ older' \in [Keys -> SUBSET Keys]
        /\ overlapped' \subseteq Handlers \cup Targets
    BY <1>12, <2>1, KeyType, MkdirType, TouchType DEF MakeContentDir
  <2> HIDE DEF c
  <2> QED
    BY <1>12, <2>1, <2>3, <2>4, CallChanges DEF TypeOK, MakeContentDir, kubeletVars, boundVars
<1>13. ASSUME NEW h \in Handlers, ExportCreate(h) \/ MakeMetaDir(h)
       PROVE  TypeOK'
  <2>1. op[h] \in Call /\ op[h].pc # "idle" /\ Key(h) \in Places
    BY <1>13, KeyType DEF ExportCreate, MakeMetaDir, TypeOK
  <2>2. op[h].pc \in {"export", "metaDir"} /\ \E s \in Stages \ {"idle"} : Go(h, s)
    BY <1>13 DEF ExportCreate, MakeMetaDir, Stages
  <2>3. /\ dirs' \subseteq Places /\ older' \in [Keys -> SUBSET Keys]
        /\ overlapped' \subseteq Handlers \cup Targets
    BY <1>13, <2>1, MkdirType, TouchType DEF ExportCreate, MakeMetaDir
  <2>4. [commit |-> op[h].commit, by |-> h] \in Entry
    BY <2>1, <2>2 DEF Entry, CallsAreWellFormed, WellFormed
  <2>5. tree' \in [Places -> [Names -> Entry \cup {Nothing}]]
    BY <1>13, <2>4, PutChanges DEF ExportCreate, MakeMetaDir, TypeOK
  <2> QED
    BY <1>13, <2>1, <2>2, <2>3, <2>5, GoChanges
    DEF TypeOK, ExportCreate, MakeMetaDir, kubeletVars, boundVars
<1>14. ASSUME NEW h \in Handlers, ExportFill(h)
       PROVE  TypeOK'
  <2> DEFINE n == Min(op[h].todo)
             s == IF op[h].todo = {n} THEN "limits" ELSE "export"
             T == op[h].todo \ {n}
             c == [op[h] EXCEPT !.todo = T, !.pc = s]
  <2>1. op[h] \in Call /\ op[h].pc = "filling" /\ op' = [op EXCEPT ![h] = c]
    BY <1>14 DEF TypeOK, ExportFill
  <2>2. s \in Stages \ {"idle"} /\ T \in SUBSET Names
    BY <2>1 DEF Stages, Call
  <2> HIDE DEF s, T
  <2>3. c \in Call /\ c.target = op[h].target /\ c.pc # "idle"
    <3>1. c \in Call
      BY <2>1, <2>2, EditType
    <3> QED
      BY <2>1, <2>2, <3>1 DEF Call
  <2>4. [commit |-> op[h].commit, by |-> Closed] \in Entry
    BY <2>1 DEF Entry, CallsAreWellFormed, WellFormed
  <2>5. /\ overlapped' \subseteq Handlers \cup Targets
        /\ tree' \in [Places -> [Names -> Entry \cup {Nothing}]]
    BY <1>14, <2>4, TouchType, CloseType DEF ExportFill
  <2> HIDE DEF c
  <2> QED
    BY <1>14, <2>1, <2>3, <2>5, CallChanges DEF TypeOK, ExportFill, kubeletVars, boundVars
<1>15. ASSUME NEW h \in Handlers, WriteMetadata(h)
       PROVE  TypeOK'
  <2>1. op[h] \in Call /\ op[h].pc = "metaFile" /\ \E s \in Stages \ {"idle"} : Go(h, s)
    BY <1>15 DEF WriteMetadata, TypeOK, Stages
  <2>2. [commit |-> op[h].commit, by |-> Closed] \in Entry
    BY <2>1 DEF Entry, CallsAreWellFormed, WellFormed
  <2>3. /\ overlapped' \subseteq Handlers \cup Targets
        /\ tree' \in [Places -> [Names -> Entry \cup {Nothing}]]
    BY <1>15, <2>2, TouchType, PutChanges DEF WriteMetadata, TypeOK
  <2> QED
    BY <1>15, <2>1, <2>3, GoChanges DEF TypeOK, WriteMetadata, kubeletVars, boundVars
<1>16. ASSUME NEW h \in Handlers, EvictScan(h)
       PROVE  TypeOK'
  <2>1. PICK items \in SUBSET (dirs \cap Keys), size \in Measured(h) :
          \E expired \in SUBSET {k \in items : MayHaveExpired(k)} :
            LET doomed == Victims(items, size, older, expired, MaxSize)
            IN  op' = [op EXCEPT ![h].doomed = doomed,
                         ![h].pc = IF doomed = {} THEN "clearTarget" ELSE "evict"]
    BY <1>16, ScanSettles
  <2>a. PICK expired \in SUBSET {k \in items : MayHaveExpired(k)} :
          LET doomed == Victims(items, size, older, expired, MaxSize)
          IN  op' = [op EXCEPT ![h].doomed = doomed,
                       ![h].pc = IF doomed = {} THEN "clearTarget" ELSE "evict"]
    BY <2>1
  <2> DEFINE D == Victims(items, size, older, expired, MaxSize)
             s == IF D = {} THEN "clearTarget" ELSE "evict"
             c == [op[h] EXCEPT !.doomed = D, !.pc = s]
  <2>2. op[h] \in Call /\ op[h].pc = "scan" /\ op' = [op EXCEPT ![h] = c]
    BY <1>16, <2>a DEF TypeOK, EvictScan
  <2>3. D \in SUBSET Keys
    BY VictimsAreItems
  <2>4. s \in Stages \ {"idle"}
    BY DEF Stages
  <2> HIDE DEF D, s
  <2>5. c \in Call /\ c.target = op[h].target /\ c.pc # "idle"
    <3>1. c \in Call
      BY <2>2, <2>3, <2>4, EditType
    <3> QED
      BY <2>2, <2>4, <3>1 DEF Call
  <2> HIDE DEF c
  <2> QED
    BY <1>16, <2>2, <2>5, CallChanges DEF TypeOK, EvictScan, diskVars, kubeletVars, boundVars
<1>17. ASSUME NEW h \in Handlers, MakeTarget(h) \/ ChmodReadOnly(h)
       PROVE  TypeOK'
  <2>1. op[h] \in Call /\ op[h].pc # "idle" /\ op[h].target \in Targets /\ op[h].target \in Places
    BY <1>17 DEF MakeTarget, ChmodReadOnly, TypeOK, Engaged, Places
  <2>2. \E s \in Stages \ {"idle"} : Go(h, s)
    BY <1>17 DEF MakeTarget, ChmodReadOnly, Stages
  <2>3. /\ dirs' \subseteq Places /\ older' \in [Keys -> SUBSET Keys]
        /\ readonly' \subseteq Targets
        /\ overlapped' \subseteq Handlers \cup Targets
    BY <1>17, <2>1, MkdirType, TouchType DEF MakeTarget, ChmodReadOnly, TypeOK
  <2> QED
    BY <1>17, <2>1, <2>2, <2>3, GoChanges
    DEF TypeOK, MakeTarget, ChmodReadOnly, kubeletVars, boundVars
<1>18. ASSUME NEW h \in Handlers, ListContent(h)
       PROVE  TypeOK'
  <2>1. op[h] \in Call /\ op[h].pc = "list"
    BY <1>18 DEF ListContent, TypeOK
  <2>2. CASE Key(h) \in dirs
    <3> DEFINE T == Present(Key(h))
               s == IF T = {} THEN "chmod" ELSE "copy"
               c == [op[h] EXCEPT !.todo = T, !.pc = s]
    <3>1. op' = [op EXCEPT ![h] = c] /\ T \in SUBSET Names /\ s \in Stages \ {"idle"}
      BY <1>18, <2>1, <2>2 DEF ListContent, TypeOK, Present, Stages
    <3> HIDE DEF T, s
    <3>2. c \in Call /\ c.target = op[h].target /\ c.pc # "idle"
      <4>1. c \in Call
        BY <2>1, <3>1, EditType
      <4> QED
        BY <2>1, <3>1, <4>1 DEF Call
    <3> HIDE DEF c
    <3> QED
      BY <1>18, <2>1, <3>1, <3>2, CallChanges
      DEF TypeOK, ListContent, diskVars, kubeletVars, boundVars
  <2>3. CASE Key(h) \notin dirs
    <3>1. "fail" \in Stages /\ Go(h, "fail")
      BY <1>18, <2>3 DEF ListContent, Stages
    <3> QED
      BY <1>18, <2>1, <3>1, GoChanges DEF TypeOK, ListContent, diskVars, kubeletVars, boundVars
  <2> QED
    BY <2>2, <2>3
<1>19. ASSUME NEW h \in Handlers, CopyOpen(h)
       PROVE  TypeOK'
  <2> DEFINE t   == op[h].target
             n   == Min(op[h].todo)
             src == tree[Key(h)][n]
  <2>1. op[h] \in Call /\ op[h].pc = "copy" /\ t \in Places /\ Key(h) \in Places
    BY <1>19, KeyType DEF CopyOpen, TypeOK, Engaged, Places
  <2>2. CASE src # Nothing /\ tree[t][n] = Nothing /\ Writable(t)
    <3> DEFINE c == [op[h] EXCEPT !.pc = "copying", !.read = src]
    <3>1. n \in Names
      BY <2>1, FirstName DEF CallsAreWellFormed, WellFormed, Call
    <3>2. src \in Entry
      BY <2>1, <2>2, <3>1 DEF TypeOK
    <3>3. op' = [op EXCEPT ![h] = c] /\ "copying" \in Stages
      BY <1>19, <2>1, <2>2 DEF CopyOpen, TypeOK, Stages
    <3>4. c \in Call /\ c.target = op[h].target /\ c.pc # "idle"
      <4>1. c \in Call
        BY <2>1, <3>2, <3>3, EditType
      <4> QED
        BY <2>1, <3>3, <4>1 DEF Call
    <3>5. /\ dirs' \subseteq Places /\ older' \in [Keys -> SUBSET Keys]
          /\ overlapped' \subseteq Handlers \cup Targets
      BY <1>19, <2>1, <2>2, MkdirType, TouchType DEF CopyOpen
    <3>6. [commit |-> src.commit, by |-> h] \in Entry
      BY <3>2 DEF Entry
    <3>7. tree' \in [Places -> [Names -> Entry \cup {Nothing}]]
      BY <1>19, <2>2, <3>6, PutChanges DEF CopyOpen
    <3> HIDE DEF c
    <3> QED
      BY <1>19, <2>1, <2>2, <3>3, <3>4, <3>5, <3>7, CallChanges
      DEF TypeOK, CopyOpen, kubeletVars, boundVars
  <2>3. CASE ~ (src # Nothing /\ tree[t][n] = Nothing /\ Writable(t))
    <3>1. "fail" \in Stages /\ Go(h, "fail") /\ UNCHANGED <<dirs, older, tree, overlapped>>
      BY <1>19, <2>3 DEF CopyOpen, Stages
    <3> QED
      BY <1>19, <2>1, <3>1, GoChanges DEF TypeOK, CopyOpen, kubeletVars, boundVars
  <2> QED
    BY <2>2, <2>3
<1>20. ASSUME NEW h \in Handlers, CopyData(h)
       PROVE  TypeOK'
  <2> DEFINE n == Min(op[h].todo)
             s == IF op[h].todo = {n} THEN "chmod" ELSE "copy"
             T == op[h].todo \ {n}
             e == [op[h].read EXCEPT !.by = IF @ = Closed THEN Closed ELSE Torn]
             c == [op[h] EXCEPT !.todo = T, !.read = Nothing, !.pc = s]
  <2>1. op[h] \in Call /\ op[h].pc = "copying" /\ op' = [op EXCEPT ![h] = c]
    BY <1>20 DEF TypeOK, CopyData
  <2>2. s \in Stages \ {"idle"} /\ T \in SUBSET Names
    BY <2>1 DEF Stages, Call
  <2>3. e \in Entry
    BY <2>1 DEF Entry, CallsAreWellFormed, WellFormed
  <2> HIDE DEF s, T, e
  <2>4. c \in Call /\ c.target = op[h].target /\ c.pc # "idle"
    <3>1. c \in Call
      BY <2>1, <2>2, EditType
    <3> QED
      BY <2>1, <2>2, <3>1 DEF Call
  <2>5. /\ overlapped' \subseteq Handlers \cup Targets
        /\ tree' \in [Places -> [Names -> Entry \cup {Nothing}]]
    BY <1>20, <2>3, TouchType, CloseType DEF CopyData, e
  <2> HIDE DEF c
  <2> QED
    <3>1. op' \in [Handlers -> Call] /\ \A g \in Handlers : Engaged(op'[g])
      BY <2>1, <2>4, CallChanges
    <3>2. UNCHANGED <<dirs, older, readonly, kubeletVars, boundVars>>
      BY <1>20 DEF CopyData
    <3> QED
      BY <2>5, <3>1, <3>2 DEF TypeOK, kubeletVars, boundVars
<1>21. ASSUME NEW h \in Handlers, ReturnError(h) \/ ReturnOK(h)
       PROVE  TypeOK'
  <2>1. Idle \in Call /\ Engaged(Idle)
    BY DEF Idle, Call, Stages, Engaged
  <2>2. op' \in [Handlers -> Call] /\ \A g \in Handlers : Engaged(op'[g])
    BY <1>21, <2>1 DEF ReturnError, ReturnOK, Answer, TypeOK
  <2>3. caller' \in [Targets -> Handlers \cup {Nothing}]
    BY <1>21 DEF ReturnError, ReturnOK, Answer, TypeOK
  <2>4. vol' \in [Targets -> {"wanted", "mounted", "released", "gone"}]
    BY <1>21 DEF ReturnError, ReturnOK, TypeOK
  <2>5. op[h].target \in Targets
    BY <1>21, KeyType DEF ReturnError, ReturnOK
  <2>6. overlapped' \subseteq Handlers \cup Targets
    BY <1>21, <2>5 DEF ReturnError, ReturnOK, TypeOK
  <2> QED
    BY <1>21, <2>2, <2>3, <2>4, <2>6
    DEF TypeOK, ReturnError, ReturnOK, Answer, diskVars, boundVars
<1>22. CASE UNCHANGED vars
  BY <1>22 DEF vars, diskVars, kubeletVars, boundVars, TypeOK
<1> QED
  BY <1>1, <1>2, <1>3, <1>4, <1>5, <1>6, <1>7, <1>8, <1>9, <1>10, <1>11, <1>12, <1>13,
     <1>14, <1>15, <1>16, <1>17, <1>18, <1>19, <1>20, <1>21, <1>22
  DEF Next, Advance, AllGone

-----------------------------------------------------------------------------
(* What one step leaves alone. *)

\* p has the same files and directories after the step.
Same(p) ==
  /\ tree'[p] = tree[p]
  /\ p \in dirs' <=> p \in dirs
  /\ p \in readonly' <=> p \in readonly

\* A step of handler h changes at most one directory tree, and all who use that
\* tree count as overlapped.
LEMMA ChangesAreTouches ==
  ASSUME TypeOK, CallsAreWellFormed, NEW h \in Handlers,
         Clone(h) \/ CloneFails(h) \/ Advance(h),
         NEW p \in Places
  PROVE  Same(p) \/ Touch(h, p)
<1>1. CASE RemoveEntry(h)
  BY <1>1, PutChanges DEF RemoveEntry, Same
<1>2. CASE RemoveDir(h)
  BY <1>2 DEF RemoveDir, Same
<1>3. CASE MakeContentDir(h)
  BY <1>3 DEF MakeContentDir, Mkdir, Same
<1>4. CASE ExportCreate(h)
  BY <1>4, PutChanges DEF ExportCreate, Mkdir, Same
<1>5. CASE ExportFill(h)
  BY <1>5, PutChanges DEF ExportFill, CloseFile, Same
<1>6. CASE MakeMetaDir(h)
  BY <1>6, PutChanges DEF MakeMetaDir, Mkdir, Same
<1>7. CASE WriteMetadata(h)
  BY <1>7, PutChanges DEF WriteMetadata, Same
<1>8. CASE MakeTarget(h)
  BY <1>8 DEF MakeTarget, Mkdir, Same
<1>9. CASE CopyOpen(h)
  BY <1>9, PutChanges DEF CopyOpen, Mkdir, Same
<1>10. CASE CopyData(h)
  BY <1>10, PutChanges DEF CopyData, CloseFile, Same
<1>11. CASE ChmodReadOnly(h)
  BY <1>11 DEF ChmodReadOnly, Same
<1>12. CASE Clone(h) \/ CloneFails(h) \/ RemoveOpen(h) \/ CheckLimits(h) \/ EvictScan(h)
            \/ ListContent(h) \/ ReturnError(h) \/ ReturnOK(h)
  BY <1>12
  DEF Clone, CloneFails, RemoveOpen, CheckLimits, EvictScan, ListContent, ReturnError,
      ReturnOK, Answer, diskVars, Same
<1> QED
  BY <1>1, <1>2, <1>3, <1>4, <1>5, <1>6, <1>7, <1>8, <1>9, <1>10, <1>11, <1>12 DEF Advance

\* What isolation promises depends on the call and its two trees only.
LEMMA IsolatedFrame ==
  ASSUME TypeOK, NEW g \in Handlers, op'[g] = op[g],
         op[g].pc # "idle" => Same(Key(g)) /\ Same(op[g].target),
         Isolated(g)
  PROVE  Isolated(g)'
<1>1. CASE op[g].pc = "idle"
  BY <1>1 DEF Isolated
<1>2. CASE op[g].pc # "idle"
  <2> DEFINE k == Key(g)
             t == op[g].target
  <2>1. Key(g)' = k /\ op'[g].target = t
    BY DEF Key
  <2>2. ContentStage(g, k)'
    BY <1>2, ZenonT(40) DEF Isolated, ContentStage, Done, Doing, Whole, Present, Key, Same
  <2>3. TargetStage(g, t)'
    BY <1>2, ZenonT(40) DEF Isolated, TargetStage, Done, Doing, Whole, Present, Key, Same
  <2>4. WithinLimits(g)'
    BY <1>2 DEF Isolated, WithinLimits
  <2> QED
    BY <2>1, <2>2, <2>3, <2>4 DEF Isolated
<1> QED
  BY <1>1, <1>2

-----------------------------------------------------------------------------
(* The bookkeeping parts of the invariant. *)

\* No step leaves a file in a directory that does not exist.
LEMMA MissingStep ==
  ASSUME TypeOK, CallsAreWellFormed, MissingIsEmpty, [Next]_vars
  PROVE  MissingIsEmpty'
<1>1. \A p \in Places, n \in Names : p \notin dirs => tree[p][n] = Nothing
  BY DEF MissingIsEmpty, Present
<1> SUFFICES ASSUME NEW p \in Places, NEW n \in Names, p \notin dirs'
             PROVE  tree'[p][n] = Nothing
  BY DEF MissingIsEmpty, Present
<1>2. ASSUME NEW h \in Handlers, RemoveEntry(h) PROVE tree'[p][n] = Nothing
  BY <1>1, <1>2, PutChanges DEF RemoveEntry
<1>3. ASSUME NEW h \in Handlers, RemoveDir(h) PROVE tree'[p][n] = Nothing
  BY <1>1, <1>3 DEF RemoveDir, Present
<1>4. ASSUME NEW h \in Handlers, MakeContentDir(h) PROVE tree'[p][n] = Nothing
  BY <1>1, <1>4 DEF MakeContentDir, Mkdir
<1>5. ASSUME NEW h \in Handlers, ExportCreate(h) PROVE tree'[p][n] = Nothing
  BY <1>1, <1>5, PutChanges DEF ExportCreate, Mkdir
<1>6. ASSUME NEW h \in Handlers, ExportFill(h) PROVE tree'[p][n] = Nothing
  BY <1>1, <1>6, PutChanges DEF ExportFill, CloseFile
<1>7. ASSUME NEW h \in Handlers, MakeMetaDir(h) PROVE tree'[p][n] = Nothing
  BY <1>1, <1>7, PutChanges DEF MakeMetaDir, Mkdir
<1>8. ASSUME NEW h \in Handlers, WriteMetadata(h) PROVE tree'[p][n] = Nothing
  BY <1>1, <1>8, PutChanges DEF WriteMetadata
<1>9. ASSUME NEW h \in Handlers, MakeTarget(h) PROVE tree'[p][n] = Nothing
  BY <1>1, <1>9 DEF MakeTarget, Mkdir
<1>10. ASSUME NEW h \in Handlers, CopyOpen(h) PROVE tree'[p][n] = Nothing
  BY <1>1, <1>10, PutChanges DEF CopyOpen, Mkdir
<1>11. ASSUME NEW h \in Handlers, CopyData(h) PROVE tree'[p][n] = Nothing
  BY <1>1, <1>11, PutChanges DEF CopyData, CloseFile
<1>12. CASE Crash
  BY <1>1, <1>12 DEF Crash
<1>13. CASE UNCHANGED <<dirs, tree>>
  BY <1>1, <1>13
<1> QED
  BY <1>2, <1>3, <1>4, <1>5, <1>6, <1>7, <1>8, <1>9, <1>10, <1>11, <1>12, <1>13
  DEF Next, Advance, Clone, CloneFails, RemoveOpen, CheckLimits, EvictScan, ListContent,
      ChmodReadOnly, ReturnError, ReturnOK, Answer, NodePublishVolume,
      NodeUnpublishVolume, DeletePod, Abandon, Push, AllGone, vars, diskVars

\* The directories a call has to remove do not depend on the names it has read.
LEMMA RemovalOutcome ==
  ASSUME NEW c \in Call, WellFormed(c), NEW p \in RemovalPlaces(c), NEW ok \in BOOLEAN
  PROVE  WellFormed(Removed(c, p, ok))
<1>1. CASE c.pc = "evict"
  BY <1>1, RemovedType DEF Removed, WellFormed, RemovalPlaces, Call
<1>2. CASE c.pc = "clear"
  BY <1>2, RemovedType DEF Removed, AfterRemoval, WellFormed, RemovalPlaces, Call
<1>3. CASE c.pc \in {"clearTarget", "unpublish"}
  BY <1>3, RemovedType DEF Removed, AfterRemoval, WellFormed, RemovalPlaces, Call
<1> QED
  BY <1>1, <1>2, <1>3 DEF RemovalPlaces

\* Every step leaves every call with the fields its stage needs.
LEMMA FormedStep ==
  ASSUME TypeOK, CallsAreWellFormed, [Next]_vars
  PROVE  CallsAreWellFormed'
<1> SUFFICES ASSUME NEW g \in Handlers
             PROVE  WellFormed(op'[g])
  BY DEF CallsAreWellFormed
<1>1. op[g] \in Call /\ WellFormed(op[g])
  BY DEF TypeOK, CallsAreWellFormed
<1>2. WellFormed(Idle)
  BY DEF WellFormed, Idle
<1>3. CASE op'[g] \in {op[g], Idle}
  BY <1>1, <1>2, <1>3
<1>4. ASSUME NEW t \in Targets, NodePublishVolume(g, t) \/ NodeUnpublishVolume(g, t)
      PROVE  WellFormed(op'[g])
  <2>1. \E s \in {"clone", "unpublish"} : op'[g] = [Idle EXCEPT !.pc = s, !.target = t]
    BY <1>4 DEF TypeOK, NodePublishVolume, NodeUnpublishVolume
  <2> QED
    BY <2>1 DEF WellFormed, Idle
<1>5. CASE Clone(g)
  BY <1>1, <1>5 DEF Clone, WellFormed, RemovalPlaces, TypeOK, Call
<1>6. ASSUME NEW s \in {"fail", "metaDir", "metaFile", "scan", "list", "filling", "reply"},
             Go(g, s), op[g].pc \notin {"clear", "evict", "clearTarget", "unpublish"},
             s \notin {"fail", "reply"} => op[g].commit \in Commits,
             s = "filling" => op[g].todo # {} /\ op[g].todo \subseteq Files
      PROVE  WellFormed(op'[g])
  BY <1>1, <1>6 DEF Go, WellFormed, RemovalPlaces, TypeOK, Call
<1>7. CASE CloneFails(g) \/ CheckLimits(g) \/ WriteMetadata(g) \/ MakeMetaDir(g)
           \/ MakeTarget(g) \/ ChmodReadOnly(g) \/ ExportCreate(g)
  <2>1. PICK s \in {"fail", "metaDir", "metaFile", "scan", "list", "filling", "reply"} :
          /\ Go(g, s) /\ op[g].pc \notin {"clear", "evict", "clearTarget", "unpublish"}
          /\ s \notin {"fail", "reply"} => op[g].commit \in Commits
          /\ s = "filling" => op[g].todo # {} /\ op[g].todo \subseteq Files
    BY <1>1, <1>7
    DEF CloneFails, CheckLimits, WriteMetadata, MakeMetaDir, MakeTarget, ChmodReadOnly,
        ExportCreate, WellFormed
  <2> QED
    BY <1>6, <2>1
<1>8. CASE RemoveOpen(g)
  <2>1. PICK p \in RemovalPlaces(op[g]) :
          op'[g] = IF p \in dirs
                   THEN [op[g] EXCEPT !.removing = p, !.todo = Present(p)]
                   ELSE Removed(op[g], p, TRUE)
    BY <1>1, <1>8 DEF RemoveOpen, TypeOK
  <2>2. CASE p \in dirs
    BY <1>1, <2>1, <2>2 DEF WellFormed, RemovalPlaces, Call
  <2>3. CASE p \notin dirs
    BY <1>1, <2>1, <2>3, RemovalOutcome
  <2> QED
    BY <2>2, <2>3
<1>9. CASE RemoveEntry(g)
  <2>1. PICK n \in op[g].todo : op'[g] = [op[g] EXCEPT !.todo = @ \ {n}]
    BY <1>1, <1>9 DEF RemoveEntry, TypeOK
  <2>2. op[g].removing # Nothing
    BY <1>9 DEF RemoveEntry
  <2> QED
    BY <1>1, <2>1, <2>2 DEF WellFormed, RemovalPlaces, Call
<1>10. ASSUME NEW h \in Handlers, RemoveDir(h)
       PROVE  WellFormed(op'[g])
  <2>1. CASE g = h
    <3>1. op[g].removing \in RemovalPlaces(op[g])
      BY <1>1, <1>10, <2>1 DEF RemoveDir, WellFormed
    <3>2. op'[g] = Removed(op[g], op[g].removing, Present(op[g].removing) = {})
      BY <1>10, <2>1 DEF RemoveDir
    <3> QED
      BY <1>1, <3>1, <3>2, RemovalOutcome
  <2>2. CASE op'[g] = [op[g] EXCEPT !.todo = {}] /\ op[g].removing # Nothing
    BY <1>1, <2>2 DEF WellFormed, RemovalPlaces, Call
  <2> QED
    BY <1>3, <1>10, <2>1, <2>2 DEF RemoveDir
<1>11. CASE MakeContentDir(g)
  <2>1. op'[g] = [op[g] EXCEPT !.pc = "export", !.todo = Files] /\ op[g].pc = "mkdir"
    BY <1>1, <1>11 DEF MakeContentDir, TypeOK
  <2>2. Files # {}
    BY FileAssumption DEF Files
  <2> QED
    BY <1>1, <2>1, <2>2 DEF WellFormed, RemovalPlaces, Call
<1>12. CASE ExportFill(g)
  <2>1. LET n == Min(op[g].todo)
        IN  /\ op'[g] = [op[g] EXCEPT !.todo = @ \ {n},
                           !.pc = IF op[g].todo = {n} THEN "limits" ELSE "export"]
            /\ op[g].pc = "filling"
    BY <1>1, <1>12 DEF ExportFill, TypeOK
  <2> QED
    BY <1>1, <2>1 DEF WellFormed, RemovalPlaces, Call
<1>13. CASE EvictScan(g)
  <2>1. \E D : op'[g] = [op[g] EXCEPT !.doomed = D,
                           !.pc = IF D = {} THEN "clearTarget" ELSE "evict"]
    BY <1>1, <1>13 DEF EvictScan, TypeOK
  <2>2. op[g].pc = "scan"
    BY <1>13 DEF EvictScan
  <2> QED
    BY <1>1, <2>1, <2>2 DEF WellFormed, RemovalPlaces, Call
<1>14. CASE ListContent(g)
  <2>1. op[g].pc = "list"
    BY <1>14 DEF ListContent
  <2>2. CASE Key(g) \in dirs
    BY <1>1, <1>14, <2>1, <2>2 DEF ListContent, TypeOK, WellFormed, RemovalPlaces, Call
  <2>3. CASE Key(g) \notin dirs
    BY <1>1, <1>6, <1>14, <2>1, <2>3 DEF ListContent
  <2> QED
    BY <2>2, <2>3
<1>15. CASE CopyOpen(g)
  <2> DEFINE t   == op[g].target
             n   == Min(op[g].todo)
             src == tree[Key(g)][n]
  <2>1. op[g].pc = "copy" /\ Key(g) \in Places /\ n \in Names /\ op[g].todo # {}
    BY <1>1, <1>15, KeyType, FirstName DEF CopyOpen, WellFormed, Call
  <2>2. CASE src # Nothing /\ tree[t][n] = Nothing /\ Writable(t)
    <3>1. src \in Entry
      BY <2>1, <2>2 DEF TypeOK
    <3>2. op'[g] = [op[g] EXCEPT !.pc = "copying", !.read = src]
      BY <1>1, <1>15, <2>2 DEF CopyOpen, TypeOK
    <3> QED
      BY <1>1, <2>1, <3>1, <3>2 DEF WellFormed, RemovalPlaces, Call
  <2>3. CASE ~ (src # Nothing /\ tree[t][n] = Nothing /\ Writable(t))
    BY <1>6, <1>15, <2>1, <2>3 DEF CopyOpen
  <2> QED
    BY <2>2, <2>3
<1>16. CASE CopyData(g)
  <2>1. LET n == Min(op[g].todo)
        IN  /\ op'[g] = [op[g] EXCEPT !.todo = @ \ {n}, !.read = Nothing,
                           !.pc = IF op[g].todo = {n} THEN "chmod" ELSE "copy"]
            /\ op[g].pc = "copying"
    BY <1>1, <1>16 DEF CopyData, TypeOK
  <2> QED
    BY <1>1, <2>1 DEF WellFormed, RemovalPlaces, Call
<1>17. CASE ReturnError(g) \/ ReturnOK(g) \/ Crash
  BY <1>3, <1>17 DEF ReturnError, ReturnOK, Answer, Crash, TypeOK
<1>18. ASSUME NEW h \in Handlers \ {g}, Clone(h) \/ CloneFails(h) \/ (Advance(h) /\ ~ RemoveDir(h))
       PROVE  WellFormed(op'[g])
  <2>1. op'[g] = op[g]
    BY <1>18
    DEF Advance, Clone, CloneFails, Go, RemoveOpen, RemoveEntry, MakeContentDir, ExportCreate,
        ExportFill, CheckLimits, MakeMetaDir, WriteMetadata, EvictScan, MakeTarget, ListContent,
        CopyOpen, CopyData, ChmodReadOnly, ReturnError, ReturnOK, Answer, TypeOK
  <2> QED
    BY <1>3, <2>1
<1>19. ASSUME NEW h \in Handlers \ {g}, NEW t \in Targets,
              NodePublishVolume(h, t) \/ NodeUnpublishVolume(h, t)
       PROVE  WellFormed(op'[g])
  BY <1>3, <1>19 DEF NodePublishVolume, NodeUnpublishVolume, TypeOK
<1>20. CASE UNCHANGED op
  BY <1>3, <1>20
<1> QED
  BY <1>4, <1>5, <1>7, <1>8, <1>9, <1>10, <1>11, <1>12, <1>13, <1>14, <1>15, <1>16, <1>17,
     <1>18, <1>19, <1>20
  DEF Next, Advance, DeletePod, Abandon, Push, AllGone, vars

\* The steps a handler takes before its call returns.
Work(h) ==
  \/ Clone(h) \/ CloneFails(h) \/ RemoveOpen(h) \/ RemoveEntry(h) \/ RemoveDir(h)
  \/ MakeContentDir(h) \/ ExportCreate(h) \/ ExportFill(h) \/ CheckLimits(h)
  \/ MakeMetaDir(h) \/ WriteMetadata(h) \/ EvictScan(h)
  \/ MakeTarget(h) \/ ListContent(h) \/ CopyOpen(h) \/ CopyData(h) \/ ChmodReadOnly(h)

\* How a call moves on, whatever the step: it keeps its target, an unpublish
\* ends where an unpublish ends, and a publish replies OK only after the chmod.
LEMMA WorkMovesOn ==
  ASSUME TypeOK, CallsAreWellFormed, NEW h \in Handlers, Work(h)
  PROVE  /\ UNCHANGED kubeletVars
         /\ op'[h].target = op[h].target
         /\ op[h].pc \notin {"idle", "reply", "fail"} /\ op'[h].pc # "idle"
         /\ op[h].pc = "unpublish" => op'[h].pc \in {"unpublish", "reply", "fail"}
         /\ op[h].pc # "unpublish"
              => /\ op'[h].pc # "unpublish"
                 /\ op'[h].pc = "reply" => op[h].pc = "chmod" /\ op'[h].commit = op[h].commit
<1>0. op[h] \in Call /\ WellFormed(op[h])
  BY DEF TypeOK, CallsAreWellFormed
<1> DEFINE P == /\ op'[h].target = op[h].target
                /\ op[h].pc \notin {"idle", "reply", "fail"} /\ op'[h].pc # "idle"
                /\ op[h].pc = "unpublish" => op'[h].pc \in {"unpublish", "reply", "fail"}
                /\ op[h].pc # "unpublish"
                     => /\ op'[h].pc # "unpublish"
                        /\ op'[h].pc = "reply" => op[h].pc = "chmod" /\ op'[h].commit = op[h].commit
<1>1. UNCHANGED kubeletVars
  BY DEF Work, Clone, CloneFails, RemoveOpen, RemoveEntry, RemoveDir, MakeContentDir,
         ExportCreate, ExportFill, CheckLimits, MakeMetaDir, WriteMetadata, EvictScan,
         MakeTarget, ListContent, CopyOpen, CopyData, ChmodReadOnly
<1> SUFFICES P
  BY <1>1
<1> HIDE DEF P
<1>2. ASSUME NEW q \in RemovalPlaces(op[h]),
             \E ok \in BOOLEAN : op'[h] = Removed(op[h], q, ok)
      PROVE  P
  <2>0. PICK ok \in BOOLEAN : op'[h] = Removed(op[h], q, ok)
    BY <1>2
  <2>1. op[h].pc \in {"clear", "evict", "clearTarget", "unpublish"}
    BY DEF RemovalPlaces
  <2>2. op[h].pc = "evict" => op'[h].pc \in {"clearTarget", "evict"}
    BY <1>0, <2>0 DEF Removed, Call
  <2>3. op[h].pc # "evict" => op'[h].pc = AfterRemoval(op[h].pc, ok)
    BY <1>0, <2>0 DEF Removed, Call
  <2>4. op'[h].target = op[h].target
    BY <1>0, <2>0, RemovedType
  <2> QED
    BY <2>1, <2>2, <2>3, <2>4 DEF AfterRemoval, P
<1>3. CASE RemoveOpen(h)
  <2>1. PICK q \in RemovalPlaces(op[h]) :
          op'[h] = IF q \in dirs
                   THEN [op[h] EXCEPT !.removing = q, !.todo = Present(q)]
                   ELSE Removed(op[h], q, TRUE)
    BY <1>3 DEF RemoveOpen, TypeOK
  <2>2. CASE q \in dirs
    <3>1. op[h].pc \in {"clear", "evict", "clearTarget", "unpublish"}
      BY DEF RemovalPlaces
    <3>2. op'[h].pc = op[h].pc /\ op'[h].target = op[h].target
      BY <1>0, <2>1, <2>2 DEF Call
    <3> QED
      BY <3>1, <3>2 DEF P
  <2>3. CASE q \notin dirs
    BY <1>2, <2>1, <2>3
  <2> QED
    BY <2>2, <2>3
<1>4. CASE RemoveEntry(h)
  <2>1. PICK n \in op[h].todo : op'[h] = [op[h] EXCEPT !.todo = @ \ {n}]
    BY <1>4 DEF RemoveEntry, TypeOK
  <2>2. op[h].pc \in {"clear", "evict", "clearTarget", "unpublish"}
    BY <1>0, <1>4 DEF RemoveEntry, WellFormed, RemovalPlaces
  <2>3. op'[h].pc = op[h].pc /\ op'[h].target = op[h].target
    BY <1>0, <2>1 DEF Call
  <2> QED
    BY <2>2, <2>3 DEF P
<1>5. CASE RemoveDir(h)
  <2>1. op[h].removing \in RemovalPlaces(op[h])
    BY <1>0, <1>5 DEF RemoveDir, WellFormed
  <2>2. \E ok \in BOOLEAN : op'[h] = Removed(op[h], op[h].removing, ok)
    BY <1>5 DEF RemoveDir
  <2> QED
    BY <1>2, <2>1, <2>2
<1>6. CASE Clone(h) \/ CloneFails(h) \/ MakeContentDir(h) \/ CheckLimits(h)
  BY <1>0, <1>6 DEF Clone, CloneFails, MakeContentDir, CheckLimits, Go, TypeOK, Call, P
<1>7. CASE ExportCreate(h) \/ ExportFill(h) \/ MakeMetaDir(h) \/ WriteMetadata(h)
  BY <1>0, <1>7 DEF ExportCreate, ExportFill, MakeMetaDir, WriteMetadata, Go, TypeOK, Call, P
<1>8. CASE EvictScan(h)
  <2>1. \E D : op'[h] = [op[h] EXCEPT !.doomed = D,
                           !.pc = IF D = {} THEN "clearTarget" ELSE "evict"]
    BY <1>8 DEF EvictScan, TypeOK
  <2> QED
    BY <1>0, <1>8, <2>1 DEF EvictScan, Call, P
<1>9. CASE MakeTarget(h) \/ ListContent(h) \/ ChmodReadOnly(h)
  BY <1>0, <1>9 DEF MakeTarget, ListContent, ChmodReadOnly, Go, TypeOK, Call, P
<1>10. CASE CopyOpen(h) \/ CopyData(h)
  BY <1>0, <1>10 DEF CopyOpen, CopyData, Go, TypeOK, Call, P
<1> QED
  BY <1>3, <1>4, <1>5, <1>6, <1>7, <1>8, <1>9, <1>10 DEF Work

\* A step of h reaches into another handler's call only by removing the
\* directory that handler has open.
LEMMA OthersKeep ==
  ASSUME TypeOK, NEW h \in Handlers, Work(h) \/ ReturnError(h) \/ ReturnOK(h),
         NEW g \in Handlers \ {h}
  PROVE  \/ op'[g] = op[g]
         \/ /\ op'[g] = [op[g] EXCEPT !.todo = {}]
            /\ op[g].removing # Nothing
            /\ Touch(h, op[g].removing)
<1>1. CASE RemoveDir(h)
  BY <1>1 DEF RemoveDir
<1>2. CASE ~ RemoveDir(h)
  BY <1>2
  DEF Work, Clone, CloneFails, Go, RemoveOpen, RemoveEntry, MakeContentDir, ExportCreate,
      ExportFill, CheckLimits, MakeMetaDir, WriteMetadata, EvictScan, MakeTarget, ListContent,
      CopyOpen, CopyData, ChmodReadOnly, ReturnError, ReturnOK, Answer, TypeOK
<1> QED
  BY <1>1, <1>2

\* A step never leaves the kubelet waiting for a call that serves another wish.
LEMMA CallerStep ==
  ASSUME TypeOK, CallsAreWellFormed, CallerIsPending, [Next]_vars
  PROVE  CallerIsPending'
<1> SUFFICES ASSUME NEW t \in Targets, caller'[t] # Nothing
             PROVE  PendingCall(t, op[caller[t]])'
  BY DEF CallerIsPending
<1>0. ASSUME caller[t] # Nothing
      PROVE  caller[t] \in Handlers /\ op[caller[t]] \in Call /\ PendingCall(t, op[caller[t]])
  BY <1>0 DEF TypeOK, CallerIsPending
<1>1. ASSUME NEW h \in Handlers, Work(h)
      PROVE  PendingCall(t, op[caller[t]])'
  <2>1. caller' = caller /\ vol' = vol
    BY <1>1, WorkMovesOn DEF kubeletVars
  <2>2. CASE caller[t] = h
    BY <1>0, <1>1, <2>1, <2>2, WorkMovesOn DEF PendingCall, CallsAreWellFormed, WellFormed
  <2>3. CASE caller[t] # h
    <3> DEFINE q == caller[t]
    <3>1. q \in Handlers \ {h} /\ op[q] \in Call /\ PendingCall(t, op[q])
      BY <1>0, <2>1, <2>3
    <3>2. op'[q] = op[q] \/ op'[q] = [op[q] EXCEPT !.todo = {}]
      BY <1>1, <3>1, OthersKeep
    <3>3. op'[q].pc = op[q].pc /\ op'[q].target = op[q].target /\ op'[q].commit = op[q].commit
      BY <3>1, <3>2 DEF Call
    <3> QED
      BY <2>1, <3>1, <3>3 DEF PendingCall
  <2> QED
    BY <2>2, <2>3
<1>2. ASSUME NEW h \in Handlers, ReturnError(h) \/ ReturnOK(h)
      PROVE  PendingCall(t, op[caller[t]])'
  <2>1. caller[t] # h /\ caller'[t] = caller[t] /\ caller[t] # Nothing
    BY <1>2, NothingAssumption DEF ReturnError, ReturnOK, Answer
  <2>2. op'[caller[t]] = op[caller[t]]
    BY <1>0, <1>2, <2>1 DEF ReturnError, ReturnOK, Answer, TypeOK
  <2>3. vol'[t] = vol[t]
    BY <1>0, <1>2, <2>1 DEF ReturnError, ReturnOK, TypeOK, PendingCall, CallerIsPending
  <2> QED
    BY <1>0, <2>1, <2>2, <2>3 DEF PendingCall
<1>3. ASSUME NEW h \in Handlers, NEW u \in Targets,
             NodePublishVolume(h, u) \/ NodeUnpublishVolume(h, u)
      PROVE  PendingCall(t, op[caller[t]])'
  <2>1. PICK s \in {"clone", "unpublish"} :
          /\ op' = [op EXCEPT ![h] = [Idle EXCEPT !.pc = s, !.target = u]]
          /\ vol[u] = IF s = "clone" THEN "wanted" ELSE "released"
          /\ caller[u] = Nothing /\ caller' = [caller EXCEPT ![u] = h]
          /\ op[h].pc = "idle" /\ vol' = vol
    BY <1>3 DEF NodePublishVolume, NodeUnpublishVolume
  <2>2. CASE t = u
    <3>1. op'[caller'[t]] = [Idle EXCEPT !.pc = s, !.target = u]
      BY <2>1, <2>2 DEF TypeOK
    <3>2. op'[caller'[t]].pc = s /\ op'[caller'[t]].target = t
      BY <2>2, <3>1 DEF Idle
    <3>3. vol'[t] = IF s = "clone" THEN "wanted" ELSE "released"
      BY <2>1, <2>2
    <3> QED
      BY <2>1, <3>2, <3>3 DEF PendingCall
  <2>3. CASE t # u
    <3>1. caller'[t] = caller[t] /\ caller[t] # h
      BY <1>0, <2>1, <2>3 DEF TypeOK, PendingCall
    <3>2. op'[caller[t]] = op[caller[t]]
      BY <1>0, <2>1, <3>1 DEF TypeOK
    <3> QED
      BY <1>0, <2>1, <3>1, <3>2 DEF PendingCall
  <2> QED
    BY <2>2, <2>3
<1>4. ASSUME NEW u \in Targets, DeletePod(u) \/ Abandon(u)
      PROVE  PendingCall(t, op[caller[t]])'
  BY <1>0, <1>4 DEF DeletePod, Abandon, TypeOK, PendingCall
<1>5. CASE Push \/ UNCHANGED vars
  BY <1>0, <1>5 DEF Push, vars, kubeletVars, PendingCall
<1>6. CASE Crash
  BY <1>6 DEF Crash
<1> QED
  BY <1>1, <1>2, <1>3, <1>4, <1>5, <1>6 DEF Next, Advance, Work, AllGone

-----------------------------------------------------------------------------
(* Isolation: the steps of the others. *)

\* No step short of the answer takes anybody off the overlapped.
LEMMA WorkGrowsOverlap ==
  ASSUME NEW h \in Handlers, Work(h)
  PROVE  overlapped \subseteq overlapped'
  BY DEF Work, Clone, CloneFails, RemoveOpen, RemoveEntry, RemoveDir, MakeContentDir,
         ExportCreate, ExportFill, CheckLimits, MakeMetaDir, WriteMetadata, EvictScan,
         MakeTarget, ListContent, CopyOpen, CopyData, ChmodReadOnly, Touch

\* A handler that was overlapped stays so while others work.
LEMMA OverlapGrows ==
  ASSUME TypeOK, NEW h \in Handlers, Work(h) \/ ReturnError(h) \/ ReturnOK(h),
         NEW g \in Handlers \ {h}, g \in overlapped
  PROVE  g \in overlapped'
<1>1. CASE ReturnError(h) \/ ReturnOK(h)
  BY <1>1, PlaceAssumption DEF ReturnError, ReturnOK, TypeOK, Engaged
<1>2. CASE Work(h)
  BY <1>2
  DEF Work, Clone, CloneFails, RemoveOpen, RemoveEntry, RemoveDir, MakeContentDir, ExportCreate,
      ExportFill, CheckLimits, MakeMetaDir, WriteMetadata, EvictScan, MakeTarget, ListContent,
      CopyOpen, CopyData, ChmodReadOnly, Touch
<1> QED
  BY <1>1, <1>2

\* A handler that is not overlapped by a step finds its two directories as it
\* left them.
LEMMA OthersStayIsolated ==
  ASSUME TypeOK, CallsAreWellFormed, IsolatedCalls,
         NEW h \in Handlers, Work(h) \/ ReturnError(h) \/ ReturnOK(h),
         NEW g \in Handlers \ {h}, g \notin overlapped'
  PROVE  Isolated(g)'
<1>1. Isolated(g)
  BY OverlapGrows DEF IsolatedCalls
<1>2. ASSUME NEW p \in Places, op[g].pc # "idle", p \in Footprint(g)
      PROVE  Same(p) /\ ~ Touch(h, p)
  <2>1. ~ Touch(h, p)
    BY <1>2 DEF Touch
  <2> QED
    BY <2>1, ChangesAreTouches DEF Work, Advance
<1>3. op[g].pc # "idle" => Same(Key(g)) /\ Same(op[g].target)
  BY <1>2, KeyType DEF Footprint, Places
<1>4. CASE op'[g] = op[g]
  BY <1>1, <1>3, <1>4, IsolatedFrame
<1>5. CASE /\ op'[g] = [op[g] EXCEPT !.todo = {}]
           /\ op[g].removing # Nothing
           /\ Touch(h, op[g].removing)
  <2> DEFINE p == op[g].removing
             k == Key(g)
  <2>1. op[g] \in Call /\ p \in RemovalPlaces(op[g]) /\ op[g].pc # "idle" /\ p \in Places
    BY <1>5, NothingAssumption DEF CallsAreWellFormed, WellFormed, TypeOK, Engaged, Call
  <2>2. p \notin Footprint(g)
    BY <1>2, <1>5, <2>1
  <2>3. op[g].pc = "evict" /\ p # k
    BY <2>1, <2>2 DEF RemovalPlaces, Footprint, Key
  <2>4. /\ op'[g].pc = "evict" /\ op'[g].removing = p
        /\ op'[g].commit = op[g].commit /\ op'[g].target = op[g].target /\ Key(g)' = k
    BY <1>5, <2>1, <2>3 DEF Call, Key
  <2>5. (k \in dirs => Whole(k, op[g].commit)) /\ WithinLimits(g)
    BY <1>1, <2>3 DEF Isolated, ContentStage
  <2>6. k \in dirs' => Whole(k, op[g].commit)'
    BY <1>3, <2>3, <2>4, <2>5 DEF Same, Whole, Key
  <2>7. ContentStage(g, Key(g))'
    BY <2>3, <2>4, <2>6 DEF ContentStage, Whole, Key
  <2>8. TargetStage(g, op[g].target)' /\ WithinLimits(g)'
    BY <2>3, <2>4, <2>5 DEF TargetStage, WithinLimits
  <2> QED
    BY <2>7, <2>8 DEF Isolated
<1> QED
  BY <1>4, <1>5, OthersKeep

-----------------------------------------------------------------------------
(* Isolation: a handler's own steps. *)

\* The fields of a call after each kind of edit.
LEMMA EditFields ==
  ASSUME NEW c \in Call, NEW s, NEW T, NEW D
  PROVE  /\ [c EXCEPT !.todo = T, !.pc = s].pc = s
         /\ [c EXCEPT !.todo = T, !.pc = s].todo = T
         /\ [c EXCEPT !.todo = T, !.pc = s].commit = c.commit
         /\ [c EXCEPT !.todo = T, !.pc = s].target = c.target
         /\ [c EXCEPT !.todo = T, !.pc = s].removing = c.removing
         /\ [c EXCEPT !.pc = s].pc = s
         /\ [c EXCEPT !.pc = s].todo = c.todo
         /\ [c EXCEPT !.pc = s].commit = c.commit
         /\ [c EXCEPT !.pc = s].target = c.target
         /\ [c EXCEPT !.pc = s].removing = c.removing
  BY DEF Call

\* The rebuild of the content directory, name by name.
LEMMA OwnContentSteps ==
  ASSUME TypeOK, CallsAreWellFormed, NEW h \in Handlers, Isolated(h),
         MakeContentDir(h) \/ ExportCreate(h) \/ ExportFill(h) \/ CheckLimits(h)
           \/ MakeMetaDir(h) \/ WriteMetadata(h)
  PROVE  Isolated(h)'
<1> DEFINE k == Key(h)
           c == op[h].commit
<1>0. /\ op[h] \in Call /\ WellFormed(op[h]) /\ op[h].pc # "idle"
      /\ k \in Places /\ ContentStage(h, k) /\ WithinLimits(h)
  BY KeyType
  DEF TypeOK, CallsAreWellFormed, Isolated, MakeContentDir, ExportCreate, ExportFill,
      CheckLimits, MakeMetaDir, WriteMetadata
<1>1. op[h].pc \in {"export", "filling"}
        => Min(op[h].todo) \in op[h].todo /\ Min(op[h].todo) \in Files
  BY <1>0, FirstName DEF WellFormed, Call
<1>2. Meta \in Names /\ Files \subseteq Names /\ Meta \notin Files /\ Names = Files \cup {Meta}
  BY DEF Meta, Files, Names
<1>3. CASE MakeContentDir(h)
  <2>1. /\ op'[h].pc = "export" /\ op'[h].todo = Files /\ op'[h].target = op[h].target
        /\ tree' = tree
    BY <1>0, <1>3 DEF MakeContentDir, Call, TypeOK
  <2>2. \A n \in Names : tree[k][n] = Nothing
    BY <1>0, <1>3 DEF MakeContentDir, ContentStage, Present
  <2> QED
    BY <1>2, <2>1, <2>2 DEF Isolated, ContentStage, TargetStage, WithinLimits, Done, Key
<1>4. CASE ExportCreate(h)
  <2> DEFINE n == Min(op[h].todo)
  <2>1. CASE tree[k][n] = Nothing
    <3>1. /\ op'[h] = [op[h] EXCEPT !.pc = "filling"] /\ k \in dirs'
          /\ Put(k, n, [commit |-> c, by |-> h])
      BY <1>4, <2>1 DEF ExportCreate, Go, TypeOK, Mkdir
    <3>2. op'[h].pc = "filling" /\ op'[h].todo = op[h].todo /\ op'[h].commit = c
          /\ op'[h].target = op[h].target
      BY <1>0, <3>1, EditFields
    <3>3. Done(k, Files, op[h].todo, c) /\ tree[k][Meta] = Nothing
      BY <1>0, <1>4 DEF ExportCreate, ContentStage
    <3>4. Doing(k, Files, op[h].todo, c, h)' /\ tree'[k][Meta] = Nothing
      <4>1. \A m \in Names : tree'[k][m] = IF m = n THEN [commit |-> c, by |-> h] ELSE tree[k][m]
        BY <1>0, <3>1, PutChanges
      <4> QED
        BY <1>1, <1>2, <1>4, <3>2, <3>3, <4>1 DEF Done, Doing, ExportCreate, Key
    <3> QED
      BY <3>1, <3>2, <3>4 DEF Isolated, ContentStage, TargetStage, WithinLimits, Key, Doing
  <2>2. CASE tree[k][n] # Nothing
    <3>1. op'[h].pc = "fail"
      BY <1>0, <1>4, <2>2 DEF ExportCreate, Go, TypeOK, Call
    <3> QED
      BY <3>1 DEF Isolated, ContentStage, TargetStage, WithinLimits
  <2> QED
    BY <2>1, <2>2
<1>5. CASE ExportFill(h)
  <2> DEFINE n == Min(op[h].todo)
             T == op[h].todo \ {n}
             s == IF op[h].todo = {n} THEN "limits" ELSE "export"
  <2>1. op'[h] = [op[h] EXCEPT !.todo = T, !.pc = s] /\ dirs' = dirs
    BY <1>5 DEF ExportFill, TypeOK
  <2>2. op'[h].pc = s /\ op'[h].todo = T /\ op'[h].commit = c /\ op'[h].target = op[h].target
    BY <1>0, <2>1, EditFields
  <2>3. Doing(k, Files, op[h].todo, c, h) /\ tree[k][Meta] = Nothing /\ k \in dirs
    BY <1>0, <1>5 DEF ExportFill, ContentStage
  <2>4. n \in op[h].todo /\ n \in Files
    BY <1>1, <1>5 DEF ExportFill
  <2>5. Put(k, n, [commit |-> c, by |-> Closed])
    <3>1. tree[k][n] = [commit |-> c, by |-> h]
      BY <2>3, <2>4 DEF Doing
    <3>2. tree[k][n] # Nothing
      BY <1>0, <1>5, <3>1, NothingAssumption DEF WellFormed, ExportFill, Entry
    <3> QED
      BY <1>5, <3>1, <3>2 DEF ExportFill, CloseFile
  <2>6. \A m \in Names : tree'[k][m] = IF m = n THEN [commit |-> c, by |-> Closed] ELSE tree[k][m]
    BY <1>0, <2>5, PutChanges
  <2>7. /\ \A m \in Files : tree'[k][m] = IF m \in T THEN Nothing
                                             ELSE [commit |-> c, by |-> Closed]
        /\ tree'[k][Meta] = Nothing
    BY <1>2, <2>3, <2>4, <2>6 DEF Doing
  <2>8. s = "limits" => T = {}
    OBVIOUS
  <2>9. Key(h)' = k
    BY <2>2 DEF Key
  <2> HIDE DEF T, c, k
  <2> QED
    BY <2>1, <2>2, <2>3, <2>7, <2>8, <2>9
    DEF Isolated, ContentStage, TargetStage, WithinLimits, Done
<1>6. CASE CheckLimits(h)
  <2>1. /\ op'[h].pc \in {"fail", "metaDir"} /\ op'[h].commit = c /\ op'[h].target = op[h].target
        /\ op'[h].pc = "metaDir" => c \notin Oversize
        /\ UNCHANGED <<tree, dirs>>
    BY <1>0, <1>6 DEF CheckLimits, Go, TypeOK, Call, diskVars
  <2>2. Done(k, Files, {}, c) /\ k \in dirs
    BY <1>0, <1>6 DEF CheckLimits, ContentStage
  <2>3. Key(h)' = k
    BY <2>1 DEF Key
  <2> HIDE DEF c, k
  <2> QED
    BY <2>1, <2>2, <2>3 DEF Isolated, ContentStage, TargetStage, WithinLimits, Done
<1>7. CASE MakeMetaDir(h)
  <2>1. /\ op'[h].pc = "metaFile" /\ op'[h].commit = c /\ op'[h].target = op[h].target
        /\ k \in dirs'
    BY <1>0, <1>7 DEF MakeMetaDir, Go, TypeOK, Call, Mkdir
  <2>2. Done(k, Files, {}, c) /\ c \notin Oversize
    BY <1>0, <1>7 DEF MakeMetaDir, ContentStage, WithinLimits
  <2>3. \A m \in Files : tree'[k][m] = tree[k][m]
    BY <1>0, <1>2, <1>7, PutChanges DEF MakeMetaDir
  <2>4. Key(h)' = k
    BY <2>1 DEF Key
  <2> HIDE DEF c, k
  <2> QED
    BY <2>1, <2>2, <2>3, <2>4 DEF Isolated, ContentStage, TargetStage, WithinLimits, Done
<1>8. CASE WriteMetadata(h)
  <2>1. CASE tree[k][Meta] = Nothing
    <3>1. op'[h].pc = "fail"
      BY <1>0, <1>8, <2>1 DEF WriteMetadata, Go, TypeOK, Call
    <3> QED
      BY <3>1 DEF Isolated, ContentStage, TargetStage, WithinLimits
  <2>2. CASE tree[k][Meta] # Nothing
    <3>1. /\ op'[h].pc = "scan" /\ op'[h].commit = c /\ op'[h].target = op[h].target
          /\ dirs' = dirs /\ Put(k, Meta, [commit |-> c, by |-> Closed])
      BY <1>0, <1>8, <2>2 DEF WriteMetadata, Go, TypeOK, Call
    <3>2. Done(k, Files, {}, c) /\ k \in dirs /\ c \notin Oversize
      BY <1>0, <1>8 DEF WriteMetadata, ContentStage, WithinLimits
    <3>3. \A m \in Names : tree'[k][m] = [commit |-> c, by |-> Closed]
      BY <1>0, <1>2, <3>1, <3>2, PutChanges DEF Done
    <3>4. Key(h)' = k
      BY <3>1 DEF Key
    <3> HIDE DEF c, k
    <3> QED
      BY <3>1, <3>2, <3>3, <3>4 DEF Isolated, ContentStage, TargetStage, WithinLimits, Whole
  <2> QED
    BY <2>1, <2>2
<1> QED
  BY <1>3, <1>4, <1>5, <1>6, <1>7, <1>8

\* Inside os.RemoveAll, whichever of the four it is.
LEMMA OwnRemovalSteps ==
  ASSUME TypeOK, CallsAreWellFormed, MissingIsEmpty, NEW h \in Handlers, Isolated(h),
         RemoveOpen(h) \/ RemoveEntry(h) \/ RemoveDir(h)
  PROVE  Isolated(h)'
<1> DEFINE k == Key(h)
           t == op[h].target
           c == op[h].commit
<1>1. op[h] \in Call /\ WellFormed(op[h])
  BY DEF TypeOK, CallsAreWellFormed
<1>2. op[h].pc \in {"clear", "evict", "clearTarget", "unpublish"}
  BY <1>1 DEF RemoveOpen, RemoveEntry, RemoveDir, WellFormed, RemovalPlaces
<1>3. /\ k \in Keys /\ t \in Targets /\ k \in Places /\ t \in Places /\ k # t
      /\ ContentStage(h, k) /\ WithinLimits(h)
  BY <1>2, KeyType, PlaceAssumption DEF Isolated, Places
\* A RemoveAll ends: what is gone is gone, and nothing else has moved.
<1>4. ASSUME NEW p \in RemovalPlaces(op[h]), NEW ok \in BOOLEAN,
             op'[h] = Removed(op[h], p, ok), tree' = tree,
             dirs' = IF ok THEN dirs \ {p} ELSE dirs,
             ok => Present(p) = {},
             op[h].pc = "evict" /\ p = k => ok,
             op[h].pc = "evict" /\ p # k /\ k \in dirs => Whole(k, c)
      PROVE  Isolated(h)'
  <2>1. op'[h].target = t /\ op'[h].commit = c /\ op'[h].removing = Nothing /\ Key(h)' = k
    BY <1>1, <1>4, RemovedType DEF Key
  <2>2. \A m \in Names : ok => tree'[p][m] = Nothing
    BY <1>4 DEF Present
  <2>3. CASE op[h].pc = "clear"
    <3>1. p = k /\ op'[h].pc \in {"mkdir", "fail"} /\ (op'[h].pc = "mkdir" => ok)
      BY <1>1, <1>4, <2>3 DEF RemovalPlaces, Removed, AfterRemoval, Key, Call
    <3> HIDE DEF k, t, c
    <3> QED
      BY <2>1, <2>2, <3>1 DEF Isolated, ContentStage, TargetStage, WithinLimits, Present
  <2>4. CASE op[h].pc = "evict"
    <3>1. op'[h].pc \in {"evict", "clearTarget"}
      BY <1>1, <1>4, <2>4 DEF Removed, Call
    <3>2. k \in dirs' => Whole(k, c)'
      BY <1>4, <2>1, <2>4 DEF Whole, Key
    <3>3. c \notin Oversize
      BY <1>3, <2>4 DEF WithinLimits
    <3>4. Nothing # k
      BY <1>3, NothingAssumption
    <3>5. k \in dirs' => \A m \in Names : tree'[k][m] = [commit |-> c, by |-> Closed]
      BY <1>4, <2>4 DEF Whole
    <3> HIDE DEF k, t, c
    <3> QED
      BY <2>1, <3>1, <3>3, <3>4, <3>5 DEF Isolated, ContentStage, TargetStage, WithinLimits, Whole
  <2>5. CASE op[h].pc = "clearTarget"
    <3>1. p = t /\ op'[h].pc \in {"target", "fail"} /\ (op'[h].pc = "target" => ok)
      BY <1>1, <1>4, <2>5 DEF RemovalPlaces, Removed, AfterRemoval, Call
    <3>2. k \in dirs' => k \in dirs /\ \A m \in Names : tree'[k][m] = [commit |-> c, by |-> Closed]
      BY <1>3, <1>4, <2>5 DEF ContentStage, Whole
    <3>3. c \notin Oversize
      BY <1>3, <2>5 DEF WithinLimits
    <3> HIDE DEF k, t, c
    <3> QED
      BY <2>1, <2>2, <3>1, <3>2, <3>3
      DEF Isolated, ContentStage, TargetStage, WithinLimits, Whole, Present
  <2>6. CASE op[h].pc = "unpublish"
    <3>1. op'[h].pc \in {"reply", "fail"}
      BY <1>1, <1>4, <2>6 DEF Removed, AfterRemoval, Call
    <3>2. c = 0 /\ c \notin Commits /\ c \notin Oversize
      BY <1>1, <2>6, SwitchAssumption DEF WellFormed, Commits
    <3> HIDE DEF k, t, c
    <3> QED
      BY <2>1, <3>1, <3>2 DEF Isolated, ContentStage, TargetStage, WithinLimits
  <2> QED
    BY <1>2, <2>3, <2>4, <2>5, <2>6
<1>5. CASE RemoveOpen(h)
  <2>1. PICK p \in RemovalPlaces(op[h]) :
          op'[h] = IF p \in dirs
                   THEN [op[h] EXCEPT !.removing = p, !.todo = Present(p)]
                   ELSE Removed(op[h], p, TRUE)
    BY <1>5 DEF RemoveOpen, TypeOK
  <2>2. op[h].removing = Nothing /\ tree' = tree /\ dirs' = dirs /\ Nothing # k
    BY <1>3, <1>5, NothingAssumption DEF RemoveOpen, diskVars
  <2>3. CASE p \in dirs
    <3>1. /\ op'[h].pc = op[h].pc /\ op'[h].commit = c /\ op'[h].target = t
          /\ op'[h].removing = p /\ op'[h].todo = Present(p)
      BY <1>1, <2>1, <2>3 DEF Call
    <3>2. Key(h)' = k
      BY <3>1 DEF Key
    <3>3. op[h].pc \in {"evict", "clearTarget"} /\ k \in dirs
            => \A m \in Names : tree'[k][m] = [commit |-> c, by |-> Closed]
      BY <1>3, <2>2 DEF ContentStage, Whole
    <3>4. op[h].pc \in {"evict", "clearTarget"} => c \notin Oversize
      BY <1>3 DEF WithinLimits
    <3>5. \A m \in Names : p = k /\ tree'[k][m] # Nothing => m \in op'[h].todo
      BY <2>2, <3>1 DEF Present
    <3> HIDE DEF k, t, c
    <3>6. CASE op[h].pc = "evict"
      BY <2>2, <3>1, <3>2, <3>3, <3>4, <3>5, <3>6
      DEF Isolated, ContentStage, TargetStage, WithinLimits, Whole, Present
    <3>7. CASE op[h].pc = "clearTarget"
      BY <2>2, <3>1, <3>2, <3>3, <3>4, <3>7
      DEF Isolated, ContentStage, TargetStage, WithinLimits, Whole
    <3>8. CASE op[h].pc \in {"clear", "unpublish"}
      BY <3>1, <3>8 DEF Isolated, ContentStage, TargetStage, WithinLimits
    <3> QED
      BY <1>2, <3>6, <3>7, <3>8
  <2>4. CASE p \notin dirs
    <3>1. p \in Places
      BY <1>1, <1>2, <1>3 DEF RemovalPlaces, Places, Call, Key
    <3>2. Present(p) = {}
      BY <2>4, <3>1 DEF MissingIsEmpty
    <3>3. op[h].pc = "evict" /\ k \in dirs => Whole(k, c)
      BY <1>3, <2>2 DEF ContentStage
    <3> QED
      BY <1>4, <2>1, <2>2, <2>4, <3>2, <3>3
  <2> QED
    BY <2>3, <2>4
<1>6. CASE RemoveEntry(h)
  <2> DEFINE p == op[h].removing
  <2>1. PICK n \in op[h].todo : /\ op'[h] = [op[h] EXCEPT !.todo = @ \ {n}]
                                /\ IF Writable(p) THEN Put(p, n, Nothing) ELSE tree' = tree
    BY <1>6 DEF RemoveEntry, TypeOK
  <2>2. p # Nothing /\ p \in RemovalPlaces(op[h]) /\ dirs' = dirs /\ n \in Names
    BY <1>1, <1>6 DEF RemoveEntry, WellFormed, Call
  <2>3. /\ op'[h].pc = op[h].pc /\ op'[h].commit = c /\ op'[h].target = t
        /\ op'[h].removing = p /\ op'[h].todo = op[h].todo \ {n}
    BY <1>1, <2>1 DEF Call
  <2>4. Key(h)' = k
    BY <2>3 DEF Key
  <2>5. p # k => \A m \in Names : tree'[k][m] = tree[k][m]
    BY <1>3, <2>1, <2>2, PutChanges
  <2>6. CASE op[h].pc = "evict" /\ p = k
    <3>1. Writable(k)
      BY <1>3, PlaceAssumption DEF Writable, TypeOK
    <3>2. \A m \in Names : tree'[k][m] = IF m = n THEN Nothing ELSE tree[k][m]
      BY <1>3, <2>1, <2>6, <3>1, PutChanges
    <3>3. Present(k) \subseteq op[h].todo /\ c \notin Oversize
      BY <1>3, <2>6 DEF ContentStage, WithinLimits
    <3>4. \A m \in Names : tree'[k][m] # Nothing => m \in op[h].todo \ {n}
      BY <3>2, <3>3 DEF Present
    <3> HIDE DEF k, t, c, p
    <3> QED
      BY <2>3, <2>4, <2>6, <3>3, <3>4 DEF Isolated, ContentStage, TargetStage, WithinLimits, Present
  <2>7. CASE op[h].pc \in {"evict", "clearTarget"} /\ p # k
    <3>1. k \in dirs => \A m \in Names : tree'[k][m] = [commit |-> c, by |-> Closed]
      BY <1>3, <2>5, <2>7 DEF ContentStage, Whole
    <3>2. c \notin Oversize
      BY <1>3, <2>7 DEF WithinLimits
    <3> HIDE DEF k, t, c, p
    <3> QED
      BY <2>2, <2>3, <2>4, <2>7, <3>1, <3>2
      DEF Isolated, ContentStage, TargetStage, WithinLimits, Whole
  <2>8. CASE op[h].pc \in {"clear", "unpublish"}
    BY <2>3, <2>8 DEF Isolated, ContentStage, TargetStage, WithinLimits
  <2>9. op[h].pc = "clearTarget" => p # k
    BY <1>3, <2>2 DEF RemovalPlaces
  <2> QED
    BY <1>2, <2>6, <2>7, <2>8, <2>9
<1>7. CASE RemoveDir(h)
  <2> DEFINE p  == op[h].removing
             ok == Present(p) = {}
  <2>1. p \in RemovalPlaces(op[h])
    BY <1>1, <1>7 DEF RemoveDir, WellFormed
  <2>2. op'[h] = Removed(op[h], p, ok) /\ tree' = tree /\ dirs' = IF ok THEN dirs \ {p} ELSE dirs
    BY <1>7 DEF RemoveDir
  <2>3. op[h].pc = "evict" /\ p = k => ok
    BY <1>3, <1>7 DEF RemoveDir, ContentStage
  <2>4. op[h].pc = "evict" /\ p # k /\ k \in dirs => Whole(k, c)
    BY <1>3 DEF ContentStage
  <2>5. CASE ok
    <3>1. op'[h] = Removed(op[h], p, TRUE)
      BY <2>2, <2>5
    <3> QED
      BY <1>4, <2>1, <2>2, <2>4, <2>5, <3>1
  <2>6. CASE ~ ok
    <3>1. op'[h] = Removed(op[h], p, FALSE)
      BY <2>2, <2>6
    <3> QED
      BY <1>4, <2>1, <2>2, <2>3, <2>4, <2>6, <3>1
  <2> QED
    BY <2>5, <2>6
<1> QED
  BY <1>5, <1>6, <1>7

\* The copy into the target, name by name.
LEMMA OwnPublishSteps ==
  ASSUME TypeOK, CallsAreWellFormed, NEW h \in Handlers, Isolated(h),
         EvictScan(h) \/ MakeTarget(h) \/ ListContent(h) \/ CopyOpen(h) \/ CopyData(h)
           \/ ChmodReadOnly(h)
  PROVE  Isolated(h)'
<1> DEFINE k == Key(h)
           t == op[h].target
           c == op[h].commit
<1>1. op[h] \in Call /\ WellFormed(op[h])
  BY DEF TypeOK, CallsAreWellFormed
<1>2. op[h].pc \in {"scan", "target", "list", "copy", "copying", "chmod"}
  BY DEF EvictScan, MakeTarget, ListContent, CopyOpen, CopyData, ChmodReadOnly
<1>3. /\ k \in Keys /\ t \in Targets /\ k \in Places /\ t \in Places /\ k # t /\ Nothing # k
      /\ ContentStage(h, k) /\ TargetStage(h, t) /\ c \notin Oversize
      /\ c \in Commits
  BY <1>1, <1>2, KeyType, PlaceAssumption, NothingAssumption
  DEF Isolated, Places, WithinLimits, WellFormed
<1>4. op[h].pc \in {"copy", "copying"}
        => Min(op[h].todo) \in op[h].todo /\ Min(op[h].todo) \in Names
  BY <1>1, FirstName DEF WellFormed, Call
<1>5. CASE EvictScan(h)
  <2>1. \E D : op'[h] = [op[h] EXCEPT !.doomed = D,
                           !.pc = IF D = {} THEN "clearTarget" ELSE "evict"]
    BY <1>5 DEF EvictScan, TypeOK
  <2>2. /\ op'[h].pc \in {"clearTarget", "evict"} /\ op'[h].commit = c /\ op'[h].target = t
        /\ op'[h].removing = op[h].removing /\ tree' = tree /\ dirs' = dirs
    BY <1>1, <1>5, <2>1 DEF EvictScan, Call, diskVars
  <2>3. op[h].removing = Nothing /\ Whole(k, c)
    BY <1>1, <1>3, <1>5 DEF EvictScan, WellFormed, RemovalPlaces, ContentStage
  <2>4. Key(h)' = k
    BY <2>2 DEF Key
  <2> HIDE DEF k, t, c
  <2> QED
    BY <1>3, <2>2, <2>3, <2>4 DEF Isolated, ContentStage, TargetStage, WithinLimits, Whole
<1>6. CASE MakeTarget(h)
  <2>1. CASE k \in dirs
    <3>1. /\ op'[h].pc = "list" /\ op'[h].commit = c /\ op'[h].target = t
          /\ tree' = tree /\ dirs' = dirs \cup {t}
      BY <1>1, <1>6, <2>1 DEF MakeTarget, Go, TypeOK, Call, Mkdir
    <3>2. Whole(k, c) /\ Present(t) = {}
      BY <1>3, <1>6, <2>1 DEF MakeTarget, ContentStage, TargetStage
    <3>3. Key(h)' = k
      BY <3>1 DEF Key
    <3> HIDE DEF k, t, c
    <3> QED
      BY <1>3, <3>1, <3>2, <3>3
      DEF Isolated, ContentStage, TargetStage, WithinLimits, Whole, Present
  <2>2. CASE k \notin dirs
    <3>1. op'[h].pc = "fail"
      BY <1>1, <1>6, <2>2 DEF MakeTarget, Go, TypeOK, Call
    <3> QED
      BY <3>1 DEF Isolated, ContentStage, TargetStage, WithinLimits
  <2> QED
    BY <2>1, <2>2
<1>7. CASE ListContent(h)
  <2>1. CASE k \in dirs
    <3>1. op'[h] = [op[h] EXCEPT !.todo = Present(k),
                      !.pc = IF Present(k) = {} THEN "chmod" ELSE "copy"]
      BY <1>7, <2>1 DEF ListContent, TypeOK
    <3>2. Whole(k, c) /\ Present(t) = {} /\ t \in dirs
      BY <1>3, <1>7, <2>1 DEF ListContent, ContentStage, TargetStage
    <3>3. Present(k) = Names /\ Names # {}
      <4>1. [commit |-> c, by |-> Closed] # Nothing
        BY <1>3, NothingAssumption DEF Entry
      <4> QED
        BY <3>2, <4>1 DEF Present, Whole, Names
    <3>4. /\ op'[h].pc = "copy" /\ op'[h].todo = Names /\ op'[h].commit = c /\ op'[h].target = t
          /\ tree' = tree /\ dirs' = dirs
      BY <1>1, <1>7, <3>1, <3>3 DEF ListContent, Call, diskVars
    <3>5. Key(h)' = k
      BY <3>4 DEF Key
    <3> HIDE DEF k, t, c
    <3> QED
      BY <1>3, <3>2, <3>4, <3>5
      DEF Isolated, ContentStage, TargetStage, WithinLimits, Whole, Present, Done
  <2>2. CASE k \notin dirs
    <3>1. op'[h].pc = "fail"
      BY <1>1, <1>7, <2>2 DEF ListContent, Go, TypeOK, Call
    <3> QED
      BY <3>1 DEF Isolated, ContentStage, TargetStage, WithinLimits
  <2> QED
    BY <2>1, <2>2
<1>8. CASE CopyOpen(h)
  <2> DEFINE n   == Min(op[h].todo)
             src == tree[k][n]
  <2>1. CASE src # Nothing /\ tree[t][n] = Nothing /\ Writable(t)
    <3>1. /\ op'[h] = [op[h] EXCEPT !.pc = "copying", !.read = src]
          /\ dirs' = dirs \cup {t} /\ Put(t, n, [commit |-> src.commit, by |-> h])
      BY <1>8, <2>1 DEF CopyOpen, TypeOK, Mkdir
    <3>2. /\ op'[h].pc = "copying" /\ op'[h].todo = op[h].todo /\ op'[h].commit = c
          /\ op'[h].target = t /\ op'[h].read = src
      BY <1>1, <3>1 DEF Call
    <3>3. Whole(k, c) /\ Done(t, Names, op[h].todo, c) /\ t \in dirs
      BY <1>3, <1>8 DEF CopyOpen, ContentStage, TargetStage
    <3>4. n \in op[h].todo /\ n \in Names
      BY <1>4, <1>8 DEF CopyOpen
    <3>5. src = [commit |-> c, by |-> Closed]
      BY <3>3, <3>4 DEF Whole
    <3>6. \A m \in Names : tree'[k][m] = tree[k][m]
      BY <1>3, <3>1, <3>4, PutChanges
    <3>7. \A m \in Names : tree'[t][m] = IF m = n THEN [commit |-> c, by |-> h]
                                          ELSE tree[t][m]
      BY <1>3, <3>1, <3>4, <3>5, PutChanges
    <3>8. \A m \in Names : tree'[t][m] = IF m = Min(op'[h].todo) THEN [commit |-> c, by |-> h]
                                          ELSE IF m \in op'[h].todo THEN Nothing
                                          ELSE [commit |-> c, by |-> Closed]
      BY <3>2, <3>3, <3>4, <3>7 DEF Done
    <3>9. \A m \in Names : tree'[k][m] = [commit |-> c, by |-> Closed]
      BY <3>3, <3>6 DEF Whole
    <3>10. Key(h)' = k /\ k \in dirs' /\ t \in dirs'
      BY <3>1, <3>2, <3>3 DEF Key, Whole
    <3> HIDE DEF k, t, c, src, n
    <3> QED
      BY <1>3, <3>2, <3>5, <3>8, <3>9, <3>10
      DEF Isolated, ContentStage, TargetStage, WithinLimits, Whole, Doing
  <2>2. CASE ~ (src # Nothing /\ tree[t][n] = Nothing /\ Writable(t))
    <3>1. op'[h].pc = "fail"
      BY <1>1, <1>8, <2>2 DEF CopyOpen, Go, TypeOK, Call
    <3> QED
      BY <3>1 DEF Isolated, ContentStage, TargetStage, WithinLimits
  <2> QED
    BY <2>1, <2>2
<1>9. CASE CopyData(h)
  <2> DEFINE n == Min(op[h].todo)
             T == op[h].todo \ {n}
             s == IF op[h].todo = {n} THEN "chmod" ELSE "copy"
             e == [commit |-> c, by |-> Closed]
  <2>1. op'[h] = [op[h] EXCEPT !.todo = T, !.read = Nothing, !.pc = s] /\ dirs' = dirs
    BY <1>9 DEF CopyData, TypeOK
  <2>2. op'[h].pc = s /\ op'[h].todo = T /\ op'[h].commit = c /\ op'[h].target = t
    BY <1>1, <2>1 DEF Call
  <2>3. /\ Whole(k, c) /\ Doing(t, Names, op[h].todo, c, h) /\ t \in dirs
        /\ op[h].read = e
    BY <1>3, <1>9 DEF CopyData, ContentStage, TargetStage
  <2>4. n \in op[h].todo /\ n \in Names
    BY <1>4, <1>9 DEF CopyData
  <2>5. Put(t, n, e)
    <3>1. tree[t][n] = [commit |-> c, by |-> h]
      BY <2>3, <2>4 DEF Doing
    <3>2. tree[t][n] # Nothing
      BY <1>3, <3>1, NothingAssumption DEF Entry
    <3>3. [op[h].read EXCEPT !.by = IF @ = Closed THEN Closed ELSE Torn] = e
      BY <2>3
    <3> QED
      BY <1>9, <3>1, <3>2, <3>3 DEF CopyData, CloseFile
  <2>6. \A m \in Names : tree'[k][m] = tree[k][m]
    BY <1>3, <2>4, <2>5, PutChanges
  <2>7. \A m \in Names : tree'[t][m] = IF m = n THEN e ELSE tree[t][m]
    BY <1>3, <2>4, <2>5, PutChanges
  <2>8. \A m \in Names : tree'[t][m] = IF m \in T THEN Nothing ELSE e
    BY <2>3, <2>4, <2>7 DEF Doing
  <2>9. \A m \in Names : tree'[k][m] = e
    BY <2>3, <2>6 DEF Whole
  <2>10. Key(h)' = k /\ k \in dirs' /\ t \in dirs'
    BY <2>1, <2>2, <2>3 DEF Key, Whole
  <2>11. s = "chmod" => T = {}
    OBVIOUS
  <2>12. s \in {"chmod", "copy"}
    OBVIOUS
  <2> HIDE DEF k, t, c, s, T
  <2> QED
    BY <1>3, <2>2, <2>8, <2>9, <2>10, <2>11, <2>12
    DEF Isolated, ContentStage, TargetStage, WithinLimits, Whole, Done
<1>10. CASE ChmodReadOnly(h)
  <2>1. CASE t \in dirs
    <3>1. /\ op'[h].pc = "reply" /\ op'[h].commit = c /\ op'[h].target = t
          /\ tree' = tree /\ dirs' = dirs /\ t \in readonly'
      BY <1>1, <1>10, <2>1 DEF ChmodReadOnly, Go, TypeOK, Call
    <3>2. Whole(t, c)
      BY <1>3, <1>10 DEF ChmodReadOnly, TargetStage
    <3>3. Key(h)' = k
      BY <3>1 DEF Key
    <3> HIDE DEF k, t, c
    <3> QED
      BY <1>3, <3>1, <3>2, <3>3
      DEF Isolated, ContentStage, TargetStage, WithinLimits, Whole
  <2>2. CASE t \notin dirs
    <3>1. op'[h].pc = "fail"
      BY <1>1, <1>10, <2>2 DEF ChmodReadOnly, Go, TypeOK, Call
    <3> QED
      BY <3>1 DEF Isolated, ContentStage, TargetStage, WithinLimits
  <2> QED
    BY <2>1, <2>2
<1> QED
  BY <1>5, <1>6, <1>7, <1>8, <1>9, <1>10

\* A call that nobody has overlapped stays isolated, or becomes overlapped.
LEMMA IsolatedStep ==
  ASSUME TypeOK, MissingIsEmpty, CallsAreWellFormed, IsolatedCalls, [Next]_vars
  PROVE  IsolatedCalls'
<1> SUFFICES ASSUME NEW g \in Handlers, g \notin overlapped'
             PROVE  Isolated(g)'
  BY DEF IsolatedCalls
<1>1. ASSUME op'[g].pc \in {"idle", "clone", "unpublish", "clear", "fail"},
             op'[g].removing = Nothing
      PROVE  Isolated(g)'
  BY <1>1 DEF Isolated, ContentStage, TargetStage, WithinLimits
<1>2. ASSUME UNCHANGED diskVars, op'[g] = op[g], g \notin overlapped
      PROVE  Isolated(g)'
  <2>1. \A p \in Places : Same(p)
    BY <1>2 DEF diskVars, Same
  <2>2. op[g].pc # "idle" => Same(Key(g)) /\ Same(op[g].target)
    BY <2>1, KeyType DEF Places
  <2> QED
    BY <1>2, <2>2, IsolatedFrame DEF IsolatedCalls
<1>3. CASE Work(g)
  <2>1. Isolated(g)
    BY <1>3, WorkGrowsOverlap DEF IsolatedCalls
  <2>2. CASE Clone(g) \/ CloneFails(g)
    <3>1. op[g].removing = Nothing /\ op[g] \in Call
      BY <2>2 DEF Clone, CloneFails, CallsAreWellFormed, WellFormed, RemovalPlaces, TypeOK
    <3> QED
      BY <1>1, <2>2, <3>1 DEF Clone, CloneFails, Go, TypeOK, Call
  <2> QED
    BY <1>3, <2>1, <2>2, OwnContentSteps, OwnRemovalSteps, OwnPublishSteps DEF Work
<1>4. CASE ReturnError(g) \/ ReturnOK(g)
  BY <1>1, <1>4 DEF ReturnError, ReturnOK, Answer, Idle, TypeOK
<1>5. ASSUME NEW h \in Handlers \ {g}, Work(h) \/ ReturnError(h) \/ ReturnOK(h)
      PROVE  Isolated(g)'
  BY <1>5, OthersStayIsolated
<1>6. ASSUME NEW h \in Handlers, NEW t \in Targets,
             NodePublishVolume(h, t) \/ NodeUnpublishVolume(h, t)
      PROVE  Isolated(g)'
  <2>1. CASE g = h
    <3>1. \E s \in {"clone", "unpublish"} : op'[g] = [Idle EXCEPT !.pc = s, !.target = t]
      BY <1>6, <2>1 DEF NodePublishVolume, NodeUnpublishVolume, TypeOK
    <3> QED
      BY <1>1, <3>1 DEF Idle
  <2>2. CASE g # h
    BY <1>2, <1>6, <2>2 DEF NodePublishVolume, NodeUnpublishVolume, TypeOK
  <2> QED
    BY <2>1, <2>2
<1>7. ASSUME NEW t \in Targets, DeletePod(t) \/ Abandon(t)
      PROVE  Isolated(g)'
  BY <1>2, <1>7 DEF DeletePod, Abandon
<1>8. CASE Push \/ UNCHANGED vars
  BY <1>2, <1>8 DEF Push, vars
<1>9. CASE Crash
  BY <1>1, <1>9 DEF Crash, Idle
<1> QED
  BY <1>3, <1>4, <1>5, <1>6, <1>7, <1>8, <1>9 DEF Next, Advance, Work, AllGone

-----------------------------------------------------------------------------
(* What a mounted volume holds. *)

\* A volume that is served stays served by any step that leaves its tree alone.
LEMMA ServedFrame ==
  ASSUME NEW t \in Targets, Served(t), Same(t)
  PROVE  Served(t)'
  BY DEF Served, Whole, Same

\* A mount that nobody overlapped is served when the plugin answers, and until
\* somebody overlaps it.
LEMMA MountedStep ==
  ASSUME TypeOK, CallsAreWellFormed, CallerIsPending, IsolatedCalls, IsolatedMountIsServed,
         [Next]_vars
  PROVE  IsolatedMountIsServed'
<1> SUFFICES ASSUME NEW t \in Targets, vol'[t] = "mounted", t \notin overlapped'
             PROVE  Served(t)'
  BY DEF IsolatedMountIsServed, Served, Whole
<1>1. ASSUME vol[t] = "mounted", t \notin overlapped, Same(t)
      PROVE  Served(t)'
  BY <1>1, ServedFrame DEF IsolatedMountIsServed
<1>2. t \notin Handlers
  BY PlaceAssumption
<1>3. ASSUME NEW h \in Handlers, Work(h)
      PROVE  Served(t)'
  <2>1. vol[t] = "mounted" /\ t \notin overlapped
    BY <1>3, WorkMovesOn, WorkGrowsOverlap DEF kubeletVars
  <2>2. ~ Touch(h, t)
    BY DEF Touch
  <2>3. Same(t)
    BY <1>3, <2>2, ChangesAreTouches DEF Work, Advance, Places
  <2> QED
    BY <1>1, <2>1, <2>3
<1>4. ASSUME NEW h \in Handlers, ReturnError(h)
      PROVE  Served(t)'
  BY <1>1, <1>2, <1>4 DEF ReturnError, Answer, diskVars, Same
<1>5. ASSUME NEW h \in Handlers, ReturnOK(h)
      PROVE  Served(t)'
  <2>1. Same(t) /\ op[h].pc = "reply"
    BY <1>5 DEF ReturnOK, Answer, diskVars, Same
  <2>2. CASE t = op[h].target /\ caller[t] = h
    <3>1. vol[t] = "wanted" /\ h \notin overlapped
      BY <1>5, <2>2 DEF ReturnOK, TypeOK
    <3>2. op[h].commit \in Commits
      BY <2>1, <2>2, <3>1, NothingAssumption DEF CallerIsPending, PendingCall
    <3>3. Isolated(h)
      BY <3>1 DEF IsolatedCalls
    <3>4. Whole(t, op[h].commit) /\ t \in readonly /\ op[h].commit \notin Oversize
      BY <2>1, <2>2, <3>2, <3>3 DEF Isolated, TargetStage, WithinLimits
    <3>5. Served(t)
      BY <3>2, <3>4 DEF Served
    <3> QED
      BY <2>1, <3>5, ServedFrame
  <2>3. CASE ~ (t = op[h].target /\ caller[t] = h)
    <3>1. vol[t] = "mounted" /\ t \notin overlapped
      BY <1>2, <1>5, <2>3 DEF ReturnOK, TypeOK
    <3> QED
      BY <1>1, <2>1, <3>1
  <2> QED
    BY <2>2, <2>3
<1>6. ASSUME UNCHANGED <<diskVars, overlapped>>, vol'[t] = "mounted" => vol[t] = "mounted"
      PROVE  Served(t)'
  BY <1>1, <1>6 DEF diskVars, Same
<1>7. ASSUME NEW h \in Handlers, NEW u \in Targets,
             NodePublishVolume(h, u) \/ NodeUnpublishVolume(h, u)
      PROVE  Served(t)'
  BY <1>6, <1>7 DEF NodePublishVolume, NodeUnpublishVolume
<1>8. ASSUME NEW u \in Targets, DeletePod(u) \/ Abandon(u)
      PROVE  Served(t)'
  BY <1>6, <1>8 DEF DeletePod, Abandon, TypeOK
<1>9. CASE Push \/ UNCHANGED vars
  BY <1>6, <1>9 DEF Push, vars, kubeletVars
<1>10. CASE Crash
  <2>1. Served(t)
    BY <1>2, <1>10 DEF Crash, IsolatedMountIsServed
  <2>2. PICK c \in Commits \ Oversize : Whole(t, c)
    BY <2>1 DEF Served
  <2>3. \A n \in Names : tree'[t][n] = [commit |-> c, by |-> Closed]
    BY <1>10, <2>2, WriterAssumption DEF Crash, Whole, Places
  <2> QED
    BY <1>10, <2>1, <2>2, <2>3 DEF Crash, Served, Whole
<1> QED
  BY <1>3, <1>4, <1>5, <1>7, <1>8, <1>9, <1>10 DEF Next, Advance, Work, AllGone

-----------------------------------------------------------------------------
(* The theorems. *)

\* The invariant holds when the plugin starts on an empty node.
LEMMA InvInit == Init => IInv
<1> SUFFICES ASSUME Init
             PROVE  IInv
  OBVIOUS
<1>1. CallsAreWellFormed
  BY DEF Init, CallsAreWellFormed, WellFormed, Idle
<1>2. MissingIsEmpty /\ CallerIsPending
  BY DEF Init, MissingIsEmpty, Present, CallerIsPending
<1>3. IsolatedCalls /\ IsolatedMountIsServed
  BY DEF Init, IsolatedCalls, Isolated, Idle, IsolatedMountIsServed
<1> QED
  BY <1>1, <1>2, <1>3, InitType DEF IInv

\* Every step keeps the invariant.
LEMMA InvStep == IInv /\ [Next]_vars => IInv'
  BY TypeStep, MissingStep, FormedStep, CallerStep, IsolatedStep, MountedStep DEF IInv

\* The invariant holds throughout.
THEOREM Invariance == Spec => []IInv
  BY InvInit, InvStep, PTL DEF Spec

\* Type correctness of the plugin, for every value of the constants.
THEOREM TypeCorrect == Spec => []TypeOK
<1>1. IInv => TypeOK
  BY DEF IInv
<1> QED
  BY <1>1, Invariance, PTL

\* A volume whose publish nobody overlapped is read-only and holds one commit,
\* whole, within the policy's limits, until somebody overlaps it: whatever the
\* interleaving of handlers, crashes, missed deadlines, leftovers and evictions.
THEOREM IsolatedMounts == Spec => []IsolatedMountIsServed
<1>1. IInv => IsolatedMountIsServed
  BY DEF IInv
<1> QED
  BY <1>1, Invariance, PTL
=============================================================================
