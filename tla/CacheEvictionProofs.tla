-------------------------- MODULE CacheEvictionProofs --------------------------
(***************************************************************************)
(* Proofs about CacheEviction: for any finite number of directories, any   *)
(* evictors, sizes and limits, what Evict removes and what it leaves.      *)
(***************************************************************************)
EXTENDS CacheEviction, EvictionProofs

-----------------------------------------------------------------------------
(* The inductive invariant. *)

CallType == [pc : {"idle", "scan", "expire", "sweep", "done"}, now : 0..MaxClock,
             names : SUBSET Dirs, items : SUBSET Item, left : SUBSET Item, total : Int]

Types ==
  /\ TypeOK
  /\ call \in [Evictors -> CallType]
  /\ before \in [Evictors -> [Dirs -> [size : Sizes, time : 0..MaxClock] \cup {Absent}]]
  /\ removed \in [Evictors -> SUBSET Dirs]
  /\ renewed \in [Evictors -> SUBSET Dirs]

\* The size of an item, and the directories of some items.
Weight    == [i \in Item |-> i.size]
DirsOf(S) == {i.dir : i \in S}

\* The items of e that are not too old, and those that the size loop has passed.
Fresh(e) == {i \in call[e].items : ~ Expired(call[e].now, i.time)}
Past(e)  == call[e].items \ call[e].left

\* Between two calls an evictor remembers nothing.
IdleIsClean(e) ==
  call[e].pc = "idle" =>
    /\ call[e] = Idle /\ before[e] = Empty
    /\ removed[e] = {} /\ renewed[e] = {} /\ e \notin crossed

\* Every item is the one of its directory, and that has been scanned.
ItemsAreScanned(e) ==
  /\ IsFiniteSet(call[e].items)
  /\ \A i, j \in call[e].items : i.dir = j.dir => i = j
  /\ call[e].names \subseteq Found(e)
  /\ \A i \in call[e].items : i.dir \in Found(e) \ call[e].names

\* What total is worth at each stage.
TotalIsCounted(e) ==
  LET c == call[e]
  IN  /\ c.pc = "scan" => c.left = {} /\ c.total = Bytes(Weight, Fresh(e))
      /\ c.pc = "expire" =>
           \E i \in c.items : /\ c.left = {i} /\ Expired(c.now, i.time)
                              /\ c.total = Bytes(Weight, Fresh(e)) + i.size
      /\ c.pc \in {"sweep", "done"} =>
           /\ c.names = {}
           /\ c.total = Bytes(Weight, Fresh(e)) - Bytes(Weight, Past(e))
      /\ c.pc = "done" => c.total <= MaxSize \/ c.left = {}

\* What nobody has renewed since e began is as e found it, or gone.
UnrenewedIsFoundOrGone(e) ==
  LET c == call[e]
  IN  /\ c.pc # "idle" => \A d \in Dirs \ renewed[e] : disk[d] \in {Absent, before[e][d]}
      /\ \A i \in c.items :
           i.dir \notin renewed[e] => before[e][i.dir] = [size |-> i.size, time |-> i.time]
      /\ \A d \in Found(e) \ renewed[e] :
           d \notin c.names /\ d \notin DirsOf(c.items) => disk[d] = Absent
      /\ c.pc \in {"sweep", "done"} =>
           \A i \in Past(e) : i.dir \notin renewed[e] => disk[i.dir] = Absent

\* What e did not find as old as it is, is no older than e.
NothingAges(e) ==
  LET c == call[e]
  IN  c.pc # "idle" =>
        /\ c.now <= clock
        /\ \A d \in Existing(disk) :
             disk[d].time >= c.now \/ (d \in Found(e) /\ disk[d].time = before[e][d].time)
        /\ \A i \in c.items : i.time >= c.now \/ i.time = before[e][i.dir].time

\* No two directories are equally old.
AgesDiffer(state) ==
  \A x, y \in Existing(state) : state[x].time = state[y].time => x = y

\* An Evict that nobody crosses has removed what is too old of what it has
\* scanned, then what the size loop has passed, oldest first.
AloneIsOnTrack(e) ==
  LET c == call[e]
  IN  c.pc # "idle" /\ Alone(e) =>
        /\ \A d \in Dirs : disk[d] = IF d \in removed[e] THEN Absent ELSE before[e][d]
        /\ \A d \in Found(e) : d \in c.names \/ d \in DirsOf(c.items)
        /\ c.pc \in {"scan", "expire"} =>
             removed[e] = DirsOf(Past(e)) \cap Outdated(e)
        /\ c.pc \in {"sweep", "done"} =>
             /\ removed[e] = Outdated(e) \cup DirsOf(Past(e))
             /\ DirsOf(Past(e)) \subseteq
                  SizeVictims(Found(e), SizeOf(e), Older(e), Outdated(e), MaxSize)
             /\ \A i \in Past(e), j \in c.left : i.time <= j.time

\* What EvictorsSpareWhatFits says of one evictor.
Spares(e) ==
  \A d \in removed[e] :
    renewed[e] = {} /\ d \notin Outdated(e)
      => Bytes(SizeOf(e), {x \in Found(e) \ Outdated(e) : x \notin Older(e)[d]}) > MaxSize

\* What is true of every Evict.
CallInv(e) ==
  /\ IdleIsClean(e)
  /\ ItemsAreScanned(e)
  /\ TotalIsCounted(e)
  /\ UnrenewedIsFoundOrGone(e)
  /\ NothingAges(e)
  /\ AgesDiffer(before[e])
  /\ AloneIsOnTrack(e)
  /\ Spares(e)

\* And of the cache.
IInv ==
  /\ Types
  /\ AgesDiffer(disk)
  /\ \A e \in Evictors : CallInv(e)

-----------------------------------------------------------------------------
(* Types. *)

\* os.ReadDir returns names in order, so there is a first one.
LEMMA MinType ==
  ASSUME NEW S \in SUBSET Dirs, S # {}
  PROVE  Min(S) \in S
<1>1. S \in SUBSET Nat
  BY DirAssumption
<1>2. \E d \in S : \A x \in S : d <= x
  BY <1>1, LeastExists
<1> QED
  BY <1>2 DEF Min

\* Sizes are numbers.
LEMMA SizeType == \A s \in Sizes : s \in Nat /\ s \in Int
  BY SizeAssumption

\* What dirInfo measures is an item.
LEMMA ItemType ==
  ASSUME NEW d \in Dirs, NEW s \in Sizes, NEW t \in 0..MaxClock
  PROVE  [dir |-> d, size |-> s, time |-> t] \in Item /\ s \in Int
  BY SizeAssumption DEF Item

\* The loops assign values of these types.
LEMMA CallRecord ==
  ASSUME NEW c \in CallType
  PROVE  /\ \A names \in SUBSET Dirs : [c EXCEPT !.names = names] \in CallType
         /\ \A items \in SUBSET Item, total \in Int :
              [c EXCEPT !.items = items, !.total = total] \in CallType
         /\ \A left \in SUBSET Item, pc \in {"scan", "expire", "sweep", "done"} :
              [c EXCEPT !.left = left, !.pc = pc] \in CallType
         /\ \A left \in SUBSET Item, total \in Int :
              [c EXCEPT !.left = left, !.total = total] \in CallType
         /\ \A left \in SUBSET Item, total \in Int, pc \in {"scan", "expire", "sweep", "done"} :
              [c EXCEPT !.left = left, !.total = total, !.pc = pc] \in CallType
  BY DEF CallType

\* Every operation keeps the types.
LEMMA TypesStep == Types /\ [Next]_vars => Types'
<1> SUFFICES ASSUME Types, [Next]_vars PROVE Types'
  OBVIOUS
<1>1. CASE UNCHANGED vars
  BY <1>1 DEF Types, TypeOK, vars, history, CallType
<1>2. ASSUME NEW d \in Dirs, NEW s \in Sizes, Rebuild(d, s) PROVE Types'
  BY <1>2, ClockAssumption DEF Types, TypeOK, Rebuild, Renew, CallType
<1>3. ASSUME NEW d \in Dirs, NEW s \in Sizes, Reuse(d, s) PROVE Types'
  <2>1. disk' \in [Dirs -> [size : Sizes, time : 0..MaxClock] \cup {Absent}]
    BY <1>3 DEF Types, TypeOK, Reuse
  <2> QED
    BY <1>3, <2>1, ClockAssumption DEF Types, TypeOK, Reuse, Renew, CallType
<1>4. CASE Tick
  BY <1>4, ClockAssumption DEF Types, TypeOK, Tick, history, CallType
<1>5. ASSUME NEW e \in Evictors, Evict(e) PROVE Types'
  <2>1. call[e] \in CallType
    BY DEF Types
  <2>2. CASE ReadDir(e)
    <3>1. call'[e] \in CallType
      <4>1. Existing(disk) \in SUBSET Dirs /\ clock \in 0..MaxClock
        BY DEF Existing, Types, TypeOK
      <4> HIDE DEF Existing
      <4>2. call'[e] = [pc |-> "scan", now |-> clock, names |-> Existing(disk),
                        items |-> {}, left |-> {}, total |-> 0]
        BY <2>2 DEF ReadDir, Idle, Types
      <4> QED
        BY <4>1, <4>2 DEF CallType
    <3>2. call' \in [Evictors -> CallType]
      BY <2>2, <3>1 DEF ReadDir, Types
    <3>3. before' \in [Evictors -> [Dirs -> [size : Sizes, time : 0..MaxClock] \cup {Absent}]]
      BY <2>2 DEF ReadDir, Types, TypeOK
    <3>4. call'[e].left \subseteq call'[e].items
      BY <2>2 DEF ReadDir, Types, Idle
    <3> QED
      BY <2>2, <3>2, <3>3, <3>4 DEF ReadDir, Types, TypeOK, CallType
  <2>3. CASE DirInfo(e)
    <3> DEFINE d == Min(call[e].names)
    <3> DEFINE i == [dir |-> d, size |-> disk[d].size, time |-> disk[d].time]
    <3>1. d \in Dirs
      BY <2>1, <2>3, MinType DEF DirInfo, CallType
    <3> HIDE DEF d
    <3>2. disk[d] # Absent => i \in Item /\ i.size \in Int
      <4>1. disk[d] # Absent => disk[d] \in [size : Sizes, time : 0..MaxClock]
        BY <3>1 DEF Types, TypeOK
      <4>2. disk[d] # Absent => disk[d].size \in Sizes /\ disk[d].time \in 0..MaxClock
        BY <4>1
      <4> QED
        BY <3>1, <4>2, ItemType
    <3>3. call'[e] \in CallType /\ call'[e].left \subseteq call'[e].items
      <4> DEFINE c == [call[e] EXCEPT !.names = @ \ {d}]
      <4> DEFINE m == [c EXCEPT !.items = @ \cup {i}, !.total = @ + i.size]
      <4>1. c \in CallType /\ c.left \subseteq c.items
        BY <2>1 DEF CallType, Types, TypeOK
      <4>2. disk[d] # Absent => m \in CallType /\ m.left \subseteq m.items /\ i \in m.items
        <5> HIDE DEF c, i
        <5>1. c.items \in SUBSET Item /\ c.total \in Int
          BY <4>1 DEF CallType
        <5>2. disk[d] # Absent => c.items \cup {i} \in SUBSET Item /\ c.total + i.size \in Int
          BY <3>2, <5>1
        <5>3. disk[d] # Absent =>
                m.left = c.left /\ m.items = c.items \cup {i} /\ m \in CallType
          <6>1. m = [c EXCEPT !.items = c.items \cup {i}, !.total = c.total + i.size]
            OBVIOUS
          <6> DEFINE I == c.items \cup {i}
          <6> DEFINE t == c.total + i.size
          <6> HIDE DEF I, t, m
          <6>2. disk[d] # Absent => [c EXCEPT !.items = I, !.total = t] \in CallType
            BY <4>1, <5>2, CallRecord DEF I, t
          <6>3. [c EXCEPT !.items = I, !.total = t].left = c.left
                /\ [c EXCEPT !.items = I, !.total = t].items = I
            BY <4>1 DEF CallType
          <6> QED
            BY <6>1, <6>2, <6>3 DEF I, t
        <5> QED
          BY <4>1, <5>3
      <4>3. disk[d] # Absent =>
              /\ [m EXCEPT !.left = {i}, !.pc = "expire"] \in CallType
              /\ [m EXCEPT !.left = {i}, !.pc = "expire"].left
                   \subseteq [m EXCEPT !.left = {i}, !.pc = "expire"].items
        <5> HIDE DEF i, m
        <5> QED
          BY <3>2, <4>2 DEF CallType
      <4>4. \/ disk[d] = Absent /\ call'[e] = c
            \/ disk[d] # Absent /\ call'[e] = [m EXCEPT !.left = {i}, !.pc = "expire"]
            \/ disk[d] # Absent /\ call'[e] = m
        BY <2>3 DEF DirInfo, d, Types
      <4> HIDE DEF c, m, i
      <4> QED
        BY <4>1, <4>2, <4>3, <4>4
    <3>4. call' \in [Evictors -> CallType]
      BY <2>3, <3>3 DEF DirInfo, Types
    <3>5. \A f \in Evictors : f # e => call'[f] = call[f]
      BY <2>3 DEF DirInfo, Types
    <3>6. UNCHANGED <<disk, clock, reuses, history>>
      BY <2>3 DEF DirInfo
    <3> QED
      BY <3>3, <3>4, <3>5, <3>6 DEF Types, TypeOK, CallType, history
  <2>a. CASE DirInfoFails(e)
    <3>1. call'[e] \in CallType /\ call'[e].left \subseteq call'[e].items
      BY <2>1, <2>a DEF DirInfoFails, Types, TypeOK, CallType
    <3> QED
      BY <2>a, <3>1 DEF DirInfoFails, Types, TypeOK, CallType, history
  <2>4. CASE RemoveExpired(e)
    <3>0. PICK i \in call[e].left : /\ call[e].pc = "expire" /\ Remove(e, i)
                                 /\ call' = [call EXCEPT ![e].left = {}, ![e].total = @ - i.size,
                                                         ![e].pc = "scan"]
      BY <2>4 DEF RemoveExpired
    <3>1. i \in Item
      BY <2>1, <3>0 DEF CallType
    <3>2. i.size \in Int /\ i.dir \in Dirs
      <4>1. i.size \in Sizes /\ i.dir \in Dirs
        BY <3>1 DEF Item
      <4> QED
        BY <4>1, SizeType
    <3>3. call' \in [Evictors -> CallType]
      <4> DEFINE total == call[e].total - i.size
      <4> DEFINE left == {}
      <4>1. total \in Int /\ left \in SUBSET Item
        BY <2>1, <3>2, <3>0 DEF CallType
      <4>2. call'[e] = [call[e] EXCEPT !.left = left, !.total = total, !.pc = "scan"]
        BY <3>0 DEF Types
      <4> HIDE DEF total, left
      <4>3. [call[e] EXCEPT !.left = left, !.total = total, !.pc = "scan"] \in CallType
        BY <2>1, <4>1, CallRecord
      <4>4. call'[e] \in CallType
        BY <4>2, <4>3
      <4> QED
        BY <3>0, <4>4 DEF Types
    <3>4. \A f \in Evictors : call'[f].left \subseteq call'[f].items
      BY <2>1, <3>0 DEF Types, TypeOK, CallType
    <3>5. /\ disk' \in [Dirs -> [size : Sizes, time : 0..MaxClock] \cup {Absent}]
          /\ removed' \in [Evictors -> SUBSET Dirs]
      BY <3>0, <3>2 DEF Types, TypeOK, Remove
    <3>6. UNCHANGED <<clock, reuses, before, renewed>>
      BY <3>0 DEF Remove
    <3> QED
      BY <3>3, <3>4, <3>5, <3>6 DEF Types, TypeOK, CallType
  <2>5. CASE ScanDone(e)
    BY <2>1, <2>5 DEF Types, TypeOK, ScanDone, CallType, history
  <2>6. CASE Sweep(e)
    <3>0. PICK i \in call[e].left : /\ call[e].pc = "sweep" /\ Remove(e, i)
                                 /\ call' = [call EXCEPT ![e].left = @ \ {i},
                                                         ![e].total = @ - i.size]
      BY <2>6 DEF Sweep
    <3>1. i \in Item
      BY <2>1, <3>0 DEF CallType
    <3>2. i.size \in Int /\ i.dir \in Dirs
      <4>1. i.size \in Sizes /\ i.dir \in Dirs
        BY <3>1 DEF Item
      <4> QED
        BY <4>1, SizeType
    <3>3. call' \in [Evictors -> CallType]
      <4> DEFINE total == call[e].total - i.size
      <4> DEFINE left == call[e].left \ {i}
      <4>1. total \in Int /\ left \in SUBSET Item
        BY <2>1, <3>2, <3>0 DEF CallType
      <4>2. call'[e] = [call[e] EXCEPT !.left = left, !.total = total]
        BY <3>0 DEF Types
      <4> HIDE DEF total, left
      <4>3. [call[e] EXCEPT !.left = left, !.total = total] \in CallType
        BY <2>1, <4>1, CallRecord
      <4>4. call'[e] \in CallType
        BY <4>2, <4>3
      <4> QED
        BY <3>0, <4>4 DEF Types
    <3>4. \A f \in Evictors : call'[f].left \subseteq call'[f].items
      BY <2>1, <3>0 DEF Types, TypeOK, CallType
    <3>5. /\ disk' \in [Dirs -> [size : Sizes, time : 0..MaxClock] \cup {Absent}]
          /\ removed' \in [Evictors -> SUBSET Dirs]
      BY <3>0, <3>2 DEF Types, TypeOK, Remove
    <3>6. UNCHANGED <<clock, reuses, before, renewed>>
      BY <3>0 DEF Remove
    <3> QED
      BY <3>3, <3>4, <3>5, <3>6 DEF Types, TypeOK, CallType
  <2>7. CASE SweepDone(e)
    BY <2>1, <2>7 DEF Types, TypeOK, SweepDone, CallType, history
  <2>8. CASE Return(e)
    BY <2>1, <2>8, ClockAssumption DEF Types, TypeOK, Return, CallType, Idle, Empty
  <2> QED
    BY <1>5, <2>2, <2>3, <2>a, <2>4, <2>5, <2>6, <2>7, <2>8 DEF Evict
<1> QED
  BY <1>1, <1>2, <1>3, <1>4, <1>5 DEF Next

-----------------------------------------------------------------------------
(* What a step does to the Evict of another request. *)

SameCall(e) ==
  call'[e] = call[e] /\ before'[e] = before[e]

\* What is derived from a call that does not move does not move.
LEMMA SameDerived ==
  ASSUME NEW e, SameCall(e)
  PROVE  /\ Found(e)' = Found(e) /\ SizeOf(e)' = SizeOf(e) /\ Older(e)' = Older(e)
         /\ Outdated(e)' = Outdated(e) /\ Fresh(e)' = Fresh(e) /\ Past(e)' = Past(e)
         /\ (ItemsAreScanned(e) => ItemsAreScanned(e)')
         /\ (TotalIsCounted(e) => TotalIsCounted(e)')
         /\ (AgesDiffer(before[e]) => AgesDiffer(before[e])')
<1>1. Found(e)' = Found(e)
  BY DEF SameCall, Found, Existing
<1>2. SizeOf(e)' = SizeOf(e) /\ Older(e)' = Older(e) /\ Outdated(e)' = Outdated(e)
  BY <1>1 DEF SameCall, SizeOf, Older, Outdated
<1>3. Fresh(e)' = Fresh(e) /\ Past(e)' = Past(e)
  BY DEF SameCall, Fresh, Past
<1>4. ItemsAreScanned(e) => ItemsAreScanned(e)'
  BY <1>1 DEF SameCall, ItemsAreScanned
<1>5. TotalIsCounted(e) => TotalIsCounted(e)'
  BY <1>3 DEF SameCall, TotalIsCounted
<1>6. AgesDiffer(before[e]) => AgesDiffer(before[e])'
  BY DEF SameCall, AgesDiffer, Existing
<1> QED
  BY <1>1, <1>2, <1>3, <1>4, <1>5, <1>6

\* A step that moves nothing that an Evict is concerned with.
LEMMA Untouched ==
  ASSUME NEW e \in Evictors, CallInv(e), SameCall(e),
         clock \in Nat, clock' \in Nat, clock' >= clock,
         call[e].now \in Nat,
         disk' = disk, removed'[e] = removed[e], renewed'[e] = renewed[e],
         e \in crossed' <=> e \in crossed
  PROVE  CallInv(e)'
<1>1. IdleIsClean(e)'
  BY DEF CallInv, IdleIsClean, SameCall, Idle, Empty
<1>2. UnrenewedIsFoundOrGone(e)'
  BY SameDerived DEF CallInv, UnrenewedIsFoundOrGone, SameCall
<1>3. NothingAges(e)'
  BY SameDerived DEF CallInv, NothingAges, SameCall, Existing
<1>4. AloneIsOnTrack(e)'
  BY SameDerived DEF CallInv, AloneIsOnTrack, SameCall, Alone
<1>5. Spares(e)'
  BY SameDerived DEF CallInv, Spares
<1> QED
  BY <1>1, <1>2, <1>3, <1>4, <1>5, SameDerived DEF CallInv

\* A key is rebuilt or reused: it is as old as it was, or not older than now.
LEMMA Renewed ==
  ASSUME Types, NEW e \in Evictors, CallInv(e), SameCall(e),
         NEW d \in Dirs, NEW kept, disk' = [disk EXCEPT ![d] = kept], kept # Absent,
         kept.time = clock \/ (disk[d] # Absent /\ kept.time = disk[d].time),
         Renew(d), clock' = clock, removed'[e] = removed[e], crossed' = crossed
  PROVE  CallInv(e)'
<1>1. renewed'[e] = IF call[e].pc # "idle" THEN renewed[e] \cup {d} ELSE renewed[e]
  BY DEF Renew, Running, Types
<1>2. IdleIsClean(e)'
  BY <1>1 DEF CallInv, IdleIsClean, SameCall, Idle, Empty
<1>3. \A x \in Dirs : disk'[x] = IF x = d THEN kept ELSE disk[x]
  BY DEF Types, TypeOK
<1>4. UnrenewedIsFoundOrGone(e)'
  <2>1. CASE call[e].pc = "idle"
    <3>1. call[e].items = {} /\ Found(e) = {}
      BY <2>1 DEF CallInv, IdleIsClean, Idle, Found, Existing, Empty
    <3> QED
      BY <2>1, <3>1, SameDerived DEF UnrenewedIsFoundOrGone, SameCall
  <2>2. CASE call[e].pc # "idle"
    BY <1>1, <1>3, <2>2, SameDerived
    DEF CallInv, UnrenewedIsFoundOrGone, SameCall, Found, Existing, ItemsAreScanned, Past
  <2> QED
    BY <2>1, <2>2
<1>5. NothingAges(e)'
  <2>1. call[e].now \in Nat /\ clock \in Nat
    BY ClockAssumption DEF Types, TypeOK
  <2> QED
    BY <1>3, <2>1, SameDerived DEF CallInv, NothingAges, SameCall, Existing
<1>6. AloneIsOnTrack(e)'
  BY <1>1, SameDerived DEF AloneIsOnTrack, SameCall, Alone
<1>7. Spares(e)'
  <2>1. call[e].pc = "idle" => removed[e] = {}
    BY DEF CallInv, IdleIsClean
  <2> QED
    BY <1>1, <2>1, SameDerived DEF Spares
<1> QED
  BY <1>2, <1>4, <1>5, <1>6, <1>7, SameDerived DEF CallInv

\* Another Evict removes a directory.
LEMMA RemovedByAnother ==
  ASSUME Types, NEW e \in Evictors, CallInv(e), SameCall(e),
         NEW f \in Evictors, f # e, NEW i \in Item, Remove(f, i)
  PROVE  CallInv(e)'
<1>1. /\ \A x \in Dirs : disk'[x] = IF x = i.dir THEN Absent ELSE disk[x]
      /\ removed'[e] = removed[e] /\ renewed'[e] = renewed[e] /\ clock' = clock
      /\ e \in crossed' <=> e \in crossed \/ call[e].pc # "idle"
  BY DEF Remove, Types, TypeOK, Running
<1>2. IdleIsClean(e)'
  BY <1>1 DEF CallInv, IdleIsClean, SameCall, Idle, Empty
<1>3. UnrenewedIsFoundOrGone(e)'
  BY <1>1, SameDerived
  DEF CallInv, UnrenewedIsFoundOrGone, SameCall, Found, Existing, ItemsAreScanned, Past
<1>4. NothingAges(e)'
  BY <1>1, SameDerived DEF CallInv, NothingAges, SameCall, Existing
<1>5. AloneIsOnTrack(e)'
  BY <1>1, SameDerived DEF AloneIsOnTrack, SameCall, Alone
<1>6. Spares(e)'
  BY <1>1, SameDerived DEF CallInv, Spares
<1> QED
  BY <1>2, <1>3, <1>4, <1>5, <1>6, SameDerived DEF CallInv

-----------------------------------------------------------------------------
(* Sizes of items. *)

\* Some items whose directories are as e found them take what these take.
LEMMA ItemBytes ==
  ASSUME Types, NEW e \in Evictors, ItemsAreScanned(e), NEW S \in SUBSET call[e].items,
         \A i \in S : before[e][i.dir] = [size |-> i.size, time |-> i.time]
  PROVE  /\ DirsOf(S) \subseteq Found(e)
         /\ Bytes(Weight, S) = Bytes(SizeOf(e), DirsOf(S))
<1> DEFINE name == [i \in Item |-> i.dir]
<1>1. S \in SUBSET Item /\ IsFiniteSet(S)
  BY FS_Subset DEF Types, CallType, ItemsAreScanned
<1>2. \A i \in S : i.dir \in Found(e)
  BY DEF ItemsAreScanned
<1>3. \A x, y \in S : name[x] = name[y] => x = y
  BY <1>1 DEF ItemsAreScanned
<1>4. \A i \in Item : i.size \in Nat
  BY SizeType DEF Item
<1>5. \A i \in S : Weight[i] \in Nat /\ SizeOf(e)[name[i]] = Weight[i]
  <2>1. \A i \in S : Weight[i] = i.size /\ name[i] = i.dir /\ i.size \in Nat
    BY <1>1, <1>4 DEF Weight
  <2>2. ASSUME NEW i \in S PROVE before[e][i.dir].size = i.size
    <3>1. before[e][i.dir] = [size |-> i.size, time |-> i.time]
      OBVIOUS
    <3> QED
      BY <3>1
  <2>3. \A i \in S : SizeOf(e)[i.dir] = i.size
    BY <1>2, <2>2 DEF SizeOf
  <2> HIDE DEF name
  <2> QED
    BY <2>1, <2>3
<1>6. {name[i] : i \in S} = DirsOf(S)
  BY <1>1 DEF DirsOf
<1> HIDE DEF name
<1>7. Bytes(Weight, S) = Bytes(SizeOf(e), {name[i] : i \in S})
  BY <1>1, <1>3, <1>5, BytesImage
<1> QED
  BY <1>2, <1>6, <1>7 DEF DirsOf

\* Items are finitely many, and so are directories; both have sizes.
LEMMA Sized ==
  ASSUME Types, NEW e \in Evictors, ItemsAreScanned(e)
  PROVE  /\ \A S \in SUBSET call[e].items :
              IsFiniteSet(S) /\ (\A i \in S : Weight[i] \in Nat) /\ Bytes(Weight, S) \in Nat
         /\ \A D \in SUBSET Found(e) :
              IsFiniteSet(D) /\ (\A d \in D : SizeOf(e)[d] \in Nat) /\ Bytes(SizeOf(e), D) \in Nat
<1>1. ASSUME NEW S \in SUBSET call[e].items
      PROVE  IsFiniteSet(S) /\ (\A i \in S : Weight[i] \in Nat) /\ Bytes(Weight, S) \in Nat
  <2>1. S \in SUBSET Item /\ IsFiniteSet(S)
    BY FS_Subset DEF Types, CallType, ItemsAreScanned
  <2>2. \A i \in Item : i.size \in Nat
    BY SizeType DEF Item
  <2>3. \A i \in S : Weight[i] \in Nat
    BY <2>1, <2>2 DEF Weight
  <2> QED
    BY <2>1, <2>3, BytesType
<1>2. ASSUME NEW D \in SUBSET Found(e)
      PROVE  IsFiniteSet(D) /\ (\A d \in D : SizeOf(e)[d] \in Nat) /\ Bytes(SizeOf(e), D) \in Nat
  <2>1. D \in SUBSET Dirs
    BY DEF Found, Existing
  <2>2. IsFiniteSet(D)
    BY <2>1, DirAssumption, FS_Subset
  <2>3. \A d \in D : before[e][d] \in [size : Sizes, time : 0..MaxClock]
    BY <2>1 DEF Found, Existing, Types
  <2>4. \A d \in D : before[e][d].size \in Nat
    BY <2>3, SizeType
  <2>5. \A d \in D : SizeOf(e)[d] \in Nat
    BY <2>4 DEF SizeOf
  <2> QED
    BY <2>2, <2>5, BytesType
<1> QED
  BY <1>1, <1>2

-----------------------------------------------------------------------------
(* What an Evict does to its own state. *)

\* The fields of a step that leaves the cache alone.
StepsAlone(e) ==
  /\ UNCHANGED <<disk, clock, reuses>>
  /\ before'[e] = before[e] /\ removed'[e] = removed[e] /\ renewed'[e] = renewed[e]
  /\ crossed' = crossed

\* The cache directory is read.
LEMMA ReadDirStep ==
  ASSUME Types, AgesDiffer(disk), NEW e \in Evictors, CallInv(e), ReadDir(e)
  PROVE  CallInv(e)'
<1>1. /\ call'[e].pc = "scan" /\ call'[e].now = clock /\ call'[e].names = Existing(disk)
      /\ call'[e].items = {} /\ call'[e].left = {} /\ call'[e].total = 0
  BY DEF ReadDir, Types, Idle
<1>2. before'[e] = disk /\ disk' = disk /\ clock' = clock /\ removed'[e] = {} /\ renewed'[e] = {}
  BY DEF ReadDir, Types, CallInv, IdleIsClean
<1>3. Found(e)' = Existing(disk) /\ DirsOf(call[e].items)' = {}
  BY <1>1, <1>2 DEF Found, Existing, DirsOf
<1>4. Fresh(e)' = {} /\ Past(e)' = {} /\ DirsOf(Past(e))' = {}
  BY <1>1 DEF Fresh, Past, DirsOf
<1>5. IdleIsClean(e)'
  BY <1>1 DEF IdleIsClean
<1>6. ItemsAreScanned(e)'
  BY <1>1, <1>3, FS_EmptySet DEF ItemsAreScanned
<1>7. TotalIsCounted(e)'
  BY <1>1, <1>4, BytesOfNone DEF TotalIsCounted
<1>8. UnrenewedIsFoundOrGone(e)'
  BY <1>1, <1>2, <1>3 DEF UnrenewedIsFoundOrGone, Existing
<1>9. NothingAges(e)'
  <2>1. clock \in Nat
    BY ClockAssumption DEF Types, TypeOK
  <2> QED
    BY <1>1, <1>2, <1>3, <2>1 DEF NothingAges, Existing
<1>10. AgesDiffer(before[e])'
  BY <1>2 DEF AgesDiffer, Existing
<1>11. AloneIsOnTrack(e)'
  BY <1>1, <1>2, <1>3, <1>4 DEF AloneIsOnTrack
<1>12. Spares(e)'
  BY <1>2 DEF Spares
<1> QED
  BY <1>5, <1>6, <1>7, <1>8, <1>9, <1>10, <1>11, <1>12 DEF CallInv

\* The next directory has gone, or is being rebuilt.
LEMMA DirInfoGone ==
  ASSUME Types, NEW e \in Evictors, CallInv(e), StepsAlone(e), call[e].pc = "scan",
         NEW d \in call[e].names, disk[d] = Absent \/ d \in renewed[e],
         call'[e] = [call[e] EXCEPT !.names = @ \ {d}]
  PROVE  CallInv(e)'
<1>1. /\ call'[e].pc = "scan" /\ call'[e].now = call[e].now
      /\ call'[e].names = call[e].names \ {d} /\ call'[e].items = call[e].items
      /\ call'[e].left = call[e].left /\ call'[e].total = call[e].total
  BY DEF Types, CallType
<1>2. /\ Found(e)' = Found(e) /\ SizeOf(e)' = SizeOf(e) /\ Older(e)' = Older(e)
      /\ Outdated(e)' = Outdated(e) /\ Fresh(e)' = Fresh(e) /\ Past(e)' = Past(e)
  BY <1>1 DEF StepsAlone, Found, Existing, SizeOf, Older, Outdated, Fresh, Past
<1>3. d \in Found(e) /\ d \notin DirsOf(call[e].items)
  BY DEF CallInv, ItemsAreScanned, DirsOf
<1>4. IdleIsClean(e)'
  BY <1>1 DEF IdleIsClean
<1>5. ItemsAreScanned(e)'
  BY <1>1, <1>2 DEF CallInv, ItemsAreScanned
<1>6. TotalIsCounted(e)'
  BY <1>1, <1>2 DEF CallInv, TotalIsCounted
<1>7. UnrenewedIsFoundOrGone(e)'
  BY <1>1, <1>2 DEF CallInv, UnrenewedIsFoundOrGone, StepsAlone
<1>8. NothingAges(e)'
  BY <1>1, <1>2 DEF CallInv, NothingAges, StepsAlone, Existing
<1>9. AgesDiffer(before[e])'
  BY DEF CallInv, AgesDiffer, StepsAlone, Existing
<1>10. AloneIsOnTrack(e)'
  <2>1. Alone(e) => d \notin removed[e] /\ disk[d] = before[e][d]
    <3>1. Alone(e) => removed[e] = DirsOf(Past(e)) \cap Outdated(e)
      BY DEF CallInv, AloneIsOnTrack
    <3>2. d \in Dirs
      BY <1>3 DEF Found, Existing
    <3> QED
      BY <1>3, <3>1, <3>2 DEF CallInv, AloneIsOnTrack, DirsOf, Past
  <2>2. ~ Alone(e)
    BY <1>3, <2>1 DEF Found, Existing, Alone
  <2> QED
    BY <2>2 DEF AloneIsOnTrack, StepsAlone, Alone
<1>11. Spares(e)'
  BY <1>2 DEF CallInv, Spares, StepsAlone
<1> QED
  BY <1>4, <1>5, <1>6, <1>7, <1>8, <1>9, <1>10, <1>11 DEF CallInv

\* The next directory is measured, and removed next when it is too old.
LEMMA DirInfoFound ==
  ASSUME Types, NEW e \in Evictors, CallInv(e), StepsAlone(e), call[e].pc = "scan",
         NEW d \in call[e].names, disk[d] # Absent,
         NEW i, i = [dir |-> d, size |-> disk[d].size, time |-> disk[d].time],
         call'[e].now = call[e].now, call'[e].names = call[e].names \ {d},
         call'[e].items = call[e].items \cup {i}, call'[e].total = call[e].total + i.size,
         \/ /\ ~ Expired(call[e].now, i.time)
            /\ call'[e].pc = "scan" /\ call'[e].left = call[e].left
         \/ /\ Expired(call[e].now, i.time)
            /\ call'[e].pc = "expire" /\ call'[e].left = {i}
  PROVE  CallInv(e)'
<1> DEFINE expires == Expired(call[e].now, i.time)
<1>1. /\ d \in Dirs /\ d \in Found(e) /\ d \notin DirsOf(call[e].items)
      /\ i \notin call[e].items /\ i.dir = d
      /\ disk[d] \in [size : Sizes, time : 0..MaxClock]
      /\ i.size = disk[d].size /\ i.time = disk[d].time
  <2>1. d \in Found(e) /\ \A j \in call[e].items : j.dir # d
    BY DEF CallInv, ItemsAreScanned
  <2>2. d \in Dirs
    BY <2>1 DEF Found, Existing
  <2>3. disk[d] \in [size : Sizes, time : 0..MaxClock]
    BY <2>2 DEF Types, TypeOK
  <2> QED
    BY <2>1, <2>2, <2>3 DEF DirsOf
<1>2. i \in Item /\ i.size \in Nat
  <2>1. disk[d].size \in Sizes /\ disk[d].time \in 0..MaxClock
    BY <1>1
  <2> QED
    BY <1>1, <2>1, ItemType, SizeType
<1>3. call[e].left = {}
  BY DEF CallInv, TotalIsCounted
<1>4. /\ Found(e)' = Found(e) /\ SizeOf(e)' = SizeOf(e) /\ Older(e)' = Older(e)
      /\ Outdated(e)' = Outdated(e)
  BY DEF StepsAlone, Found, Existing, SizeOf, Older, Outdated
<1>5. /\ expires => Fresh(e)' = Fresh(e)
      /\ ~ expires => Fresh(e)' = Fresh(e) \cup {i}
      /\ i \notin Fresh(e) /\ Fresh(e) \in SUBSET call[e].items
  BY <1>1 DEF Fresh
<1>6. /\ expires => Past(e)' = Past(e)
      /\ ~ expires => Past(e)' = Past(e) \cup {i}
      /\ Past(e) = call[e].items
  BY <1>1, <1>3 DEF Past
<1>7. DirsOf(call[e].items)' = DirsOf(call[e].items) \cup {d}
  BY <1>1 DEF DirsOf
<1>8. IdleIsClean(e)'
  BY DEF IdleIsClean
<1>9. ItemsAreScanned(e)'
  <2>1. IsFiniteSet(call[e].items)
    BY DEF CallInv, ItemsAreScanned
  <2>2. IsFiniteSet(call'[e].items)
    <3>1. IsFiniteSet(call[e].items \cup {i})
      BY <2>1, FS_AddElement
    <3> QED
      BY <3>1, Zenon
  <2>3. \A j \in call[e].items : j.dir # d
    BY <1>1 DEF DirsOf
  <2>4. \A j, k \in call'[e].items : j.dir = k.dir => j = k
    BY <1>1, <2>3 DEF CallInv, ItemsAreScanned
  <2>5. \A j \in call'[e].items : j.dir \in Found(e) \ call'[e].names
    BY <1>1 DEF CallInv, ItemsAreScanned
  <2> QED
    BY <1>4, <2>2, <2>4, <2>5 DEF CallInv, ItemsAreScanned
<1>10. TotalIsCounted(e)'
  <2>1. IsFiniteSet(Fresh(e)') /\ \A j \in Fresh(e)' : Weight[j] \in Nat
    <3>1. IsFiniteSet(Fresh(e)) /\ \A j \in Fresh(e) : Weight[j] \in Nat
      BY <1>5, Sized DEF CallInv
    <3>2. Weight[i] \in Nat
      BY <1>2 DEF Weight
    <3> QED
      BY <1>5, <3>1, <3>2, FS_AddElement
  <2>2. call[e].total = Bytes(Weight, Fresh(e)) /\ Bytes(Weight, Fresh(e)) \in Nat
    BY <1>5, Sized DEF CallInv, TotalIsCounted
  <2>3. CASE ~ expires
    <3>1. i \in Fresh(e)' /\ Fresh(e)' \ {i} = Fresh(e)
      BY <1>5, <2>3
    <3>2. Bytes(Weight, Fresh(e)') = Weight[i] + Bytes(Weight, Fresh(e)' \ {i})
      BY <2>1, <3>1, BytesTake
    <3>3. Weight[i] = i.size
      BY <1>2 DEF Weight
    <3>4. call'[e].total = Bytes(Weight, Fresh(e)')
      <4>1. Bytes(Weight, Fresh(e)') = i.size + Bytes(Weight, Fresh(e))
        BY <3>1, <3>2, <3>3
      <4>2. call'[e].total = Bytes(Weight, Fresh(e)) + i.size
        BY <2>2
      <4> QED
        BY <1>2, <2>2, <4>1, <4>2
    <3>5. Weight' = Weight
      BY DEF Weight
    <3> QED
      BY <1>3, <2>3, <3>4, <3>5 DEF TotalIsCounted
  <2>4. CASE expires
    BY <1>5, <2>2, <2>4 DEF TotalIsCounted, Weight
  <2> QED
    BY <2>3, <2>4
<1>11. d \notin renewed[e] => before[e][d] = disk[d]
  BY <1>1 DEF CallInv, UnrenewedIsFoundOrGone
<1>12. UnrenewedIsFoundOrGone(e)'
  <2>1. disk[d] = [size |-> i.size, time |-> i.time]
    BY <1>1
  <2> QED
    <3>1. \A x \in Dirs \ renewed[e] : disk[x] \in {Absent, before[e][x]}
      BY DEF CallInv, UnrenewedIsFoundOrGone
    <3>2. \A j \in call[e].items :
            j.dir \notin renewed[e] => before[e][j.dir] = [size |-> j.size, time |-> j.time]
      BY DEF CallInv, UnrenewedIsFoundOrGone
    <3>3. i.dir \notin renewed[e] => before[e][i.dir] = [size |-> i.size, time |-> i.time]
      BY <1>1, <1>11, <2>1
    <3>4. \A x \in Found(e) \ renewed[e] :
            x \notin call[e].names /\ x \notin DirsOf(call[e].items) => disk[x] = Absent
      BY DEF CallInv, UnrenewedIsFoundOrGone
    <3>5. call'[e].pc \in {"scan", "expire"}
      OBVIOUS
    <3>6. \A j \in call'[e].items :
            j.dir \notin renewed[e] => before[e][j.dir] = [size |-> j.size, time |-> j.time]
      BY <3>2, <3>3
    <3>7. \A x \in Found(e) \ renewed[e] :
            x \notin call'[e].names /\ x \notin DirsOf(call[e].items)' => disk[x] = Absent
      BY <1>7, <3>4
    <3> QED
      BY <1>4, <3>1, <3>5, <3>6, <3>7 DEF UnrenewedIsFoundOrGone, StepsAlone
<1>13. NothingAges(e)'
  BY <1>1, <1>4 DEF CallInv, NothingAges, StepsAlone, Existing
<1>14. AgesDiffer(before[e])'
  BY DEF CallInv, AgesDiffer, StepsAlone, Existing
<1>15. AloneIsOnTrack(e)'
  <2> SUFFICES ASSUME Alone(e) PROVE AloneIsOnTrack(e)'
    BY DEF AloneIsOnTrack, StepsAlone, Alone
  <2>1. before[e][d] = disk[d]
    BY <1>11 DEF Alone
  <2>2. ~ expires => d \notin Outdated(e)
    BY <1>1, <2>1 DEF Outdated
  <2>3. removed[e] = DirsOf(Past(e)) \cap Outdated(e)
    BY DEF CallInv, AloneIsOnTrack
  <2>4. DirsOf(Past(e))' = IF expires THEN DirsOf(Past(e)) ELSE DirsOf(Past(e)) \cup {d}
    BY <1>1, <1>6 DEF DirsOf
  <2>5. removed'[e] = DirsOf(Past(e))' \cap Outdated(e)'
    BY <1>4, <2>2, <2>3, <2>4 DEF StepsAlone
  <2> HIDE DEF expires
  <2> QED
    BY <1>4, <1>7, <2>5 DEF CallInv, AloneIsOnTrack, StepsAlone
<1>16. Spares(e)'
  BY <1>4 DEF CallInv, Spares, StepsAlone
<1> QED
  BY <1>8, <1>9, <1>10, <1>12, <1>13, <1>14, <1>15, <1>16 DEF CallInv

\* The scan of the next directory, whatever it finds.
LEMMA DirInfoStep ==
  ASSUME Types, NEW e \in Evictors, CallInv(e), DirInfo(e)
  PROVE  CallInv(e)'
<1> DEFINE d == Min(call[e].names)
<1> DEFINE i == [dir |-> d, size |-> disk[d].size, time |-> disk[d].time]
<1> DEFINE c == [call[e] EXCEPT !.names = @ \ {d}]
<1> DEFINE m == [c EXCEPT !.items = @ \cup {i}, !.total = @ + i.size]
<1>1. call[e] \in CallType /\ call[e].pc = "scan" /\ StepsAlone(e)
  BY DEF Types, DirInfo, StepsAlone, history
<1>2. d \in call[e].names
  BY <1>1, MinType DEF DirInfo, CallType
<1>3. \/ disk[d] = Absent /\ call'[e] = c
      \/ /\ disk[d] # Absent /\ Expired(call[e].now, i.time)
         /\ call'[e] = [m EXCEPT !.left = {i}, !.pc = "expire"]
      \/ disk[d] # Absent /\ ~ Expired(call[e].now, i.time) /\ call'[e] = m
  BY <1>1 DEF DirInfo, CallType, Types
<1> HIDE DEF d
<1>4. CASE disk[d] = Absent
  BY <1>1, <1>2, <1>3, <1>4, DirInfoGone
<1>5. CASE disk[d] # Absent
  <2>1. /\ call'[e].now = call[e].now /\ call'[e].names = call[e].names \ {d}
        /\ call'[e].items = call[e].items \cup {i}
        /\ call'[e].total = call[e].total + i.size
        /\ \/ /\ ~ Expired(call[e].now, i.time)
              /\ call'[e].pc = "scan" /\ call'[e].left = call[e].left
           \/ /\ Expired(call[e].now, i.time)
              /\ call'[e].pc = "expire" /\ call'[e].left = {i}
    <3> HIDE DEF i
    <3> QED
      BY <1>1, <1>3, <1>5 DEF CallType
  <2> QED
    BY <1>1, <1>2, <1>5, <2>1, DirInfoFound
<1> QED
  BY <1>4, <1>5

\* Or the walk fails.
LEMMA DirInfoFailsStep ==
  ASSUME Types, NEW e \in Evictors, CallInv(e), DirInfoFails(e)
  PROVE  CallInv(e)'
<1> DEFINE d == Min(call[e].names)
<1>1. call[e] \in CallType /\ call[e].pc = "scan" /\ StepsAlone(e) /\ d \in renewed[e]
  BY DEF Types, DirInfoFails, StepsAlone, history
<1>2. d \in call[e].names
  BY <1>1, MinType DEF DirInfoFails, CallType
<1>3. call'[e] = [call[e] EXCEPT !.names = @ \ {d}]
  BY DEF DirInfoFails, Types
<1> HIDE DEF d
<1> QED
  BY <1>1, <1>2, <1>3, DirInfoGone

\* What the removal of an item by e leaves of the rest.
LEMMA RemovedByIt ==
  ASSUME Types, NEW e \in Evictors, CallInv(e), NEW i \in call[e].items, Remove(e, i),
         call[e].pc \in {"expire", "sweep"},
         call'[e].pc \in {"scan", "sweep"},
         call'[e].now = call[e].now, call'[e].names = call[e].names,
         call'[e].items = call[e].items
  PROVE  /\ i \in Item /\ i.dir \in Dirs /\ i.size \in Int
         /\ Found(e)' = Found(e) /\ SizeOf(e)' = SizeOf(e) /\ Older(e)' = Older(e)
         /\ Outdated(e)' = Outdated(e) /\ Fresh(e)' = Fresh(e)
         /\ (Alone(e)' <=> Alone(e))
         /\ removed'[e] = removed[e] \cup {i.dir} /\ renewed'[e] = renewed[e]
         /\ \A d \in Dirs : disk'[d] = IF d = i.dir THEN Absent ELSE disk[d]
         /\ IdleIsClean(e)' /\ ItemsAreScanned(e)' /\ NothingAges(e)' /\ AgesDiffer(before[e])'
         /\ \A d \in Dirs \ renewed[e] : disk'[d] \in {Absent, before[e][d]}
<1>1. i \in Item
  BY DEF Types, CallType
<1>2. i.dir \in Dirs /\ i.size \in Int
  <2>1. i.dir \in Dirs /\ i.size \in Sizes
    BY <1>1 DEF Item
  <2> QED
    BY <2>1, SizeType
<1>3. /\ removed'[e] = removed[e] \cup {i.dir} /\ renewed'[e] = renewed[e]
      /\ before' = before /\ clock' = clock /\ (e \in crossed' <=> e \in crossed)
      /\ \A d \in Dirs : disk'[d] = IF d = i.dir THEN Absent ELSE disk[d]
  BY <1>2 DEF Remove, Types, TypeOK
<1>4. /\ Found(e)' = Found(e) /\ SizeOf(e)' = SizeOf(e) /\ Older(e)' = Older(e)
      /\ Outdated(e)' = Outdated(e) /\ Fresh(e)' = Fresh(e)
  BY <1>3 DEF Found, Existing, SizeOf, Older, Outdated, Fresh
<1>5. IdleIsClean(e)'
  BY DEF IdleIsClean
<1>6. ItemsAreScanned(e)'
  BY <1>4 DEF CallInv, ItemsAreScanned
<1>7. NothingAges(e)'
  BY <1>3, <1>4 DEF CallInv, NothingAges, Existing
<1>8. AgesDiffer(before[e])'
  BY <1>3 DEF CallInv, AgesDiffer, Existing
<1>9. \A d \in Dirs \ renewed[e] : disk'[d] \in {Absent, before[e][d]}
  BY <1>3 DEF CallInv, UnrenewedIsFoundOrGone
<1> QED
  BY <1>1, <1>2, <1>3, <1>4, <1>5, <1>6, <1>7, <1>8, <1>9 DEF Alone

\* A directory that is too old goes.
LEMMA RemoveExpiredStep ==
  ASSUME Types, NEW e \in Evictors, CallInv(e), RemoveExpired(e)
  PROVE  CallInv(e)'
<1>1. PICK i \in call[e].left : /\ call[e].pc = "expire" /\ Remove(e, i)
                                /\ call' = [call EXCEPT ![e].left = {},
                                                        ![e].total = @ - i.size,
                                                        ![e].pc = "scan"]
  BY DEF RemoveExpired
<1>2. /\ call'[e].pc = "scan" /\ call'[e].now = call[e].now /\ call'[e].names = call[e].names
      /\ call'[e].items = call[e].items /\ call'[e].left = {}
      /\ call'[e].total = call[e].total - i.size
  BY <1>1 DEF Types, CallType
<1>3. /\ i \in call[e].items /\ call[e].left = {i} /\ Expired(call[e].now, i.time)
      /\ call[e].total = Bytes(Weight, Fresh(e)) + i.size
  BY <1>1 DEF CallInv, TotalIsCounted
<1>4. /\ i \in Item /\ i.dir \in Dirs /\ i.size \in Int
      /\ Found(e)' = Found(e) /\ SizeOf(e)' = SizeOf(e) /\ Older(e)' = Older(e)
      /\ Outdated(e)' = Outdated(e) /\ Fresh(e)' = Fresh(e)
      /\ (Alone(e)' <=> Alone(e))
      /\ removed'[e] = removed[e] \cup {i.dir} /\ renewed'[e] = renewed[e]
      /\ \A d \in Dirs : disk'[d] = IF d = i.dir THEN Absent ELSE disk[d]
      /\ IdleIsClean(e)' /\ ItemsAreScanned(e)' /\ NothingAges(e)' /\ AgesDiffer(before[e])'
      /\ \A d \in Dirs \ renewed[e] : disk'[d] \in {Absent, before[e][d]}
  BY <1>1, <1>2, <1>3, RemovedByIt
<1>5. before'[e] = before[e]
  BY <1>1 DEF Remove
<1>6. TotalIsCounted(e)'
  <2>1. Bytes(Weight, Fresh(e)) \in Nat
    BY Sized DEF CallInv, Fresh
  <2>2. call'[e].total = Bytes(Weight, Fresh(e))
    BY <1>2, <1>3, <1>4, <2>1
  <2> QED
    BY <1>2, <1>4, <2>2 DEF TotalIsCounted, Weight
<1>7. i.dir \notin renewed[e] => before[e][i.dir].time = i.time
  <2> SUFFICES ASSUME i.dir \notin renewed[e] PROVE before[e][i.dir].time = i.time
    OBVIOUS
  <2>1. before[e][i.dir] = [size |-> i.size, time |-> i.time]
    BY <1>3 DEF CallInv, UnrenewedIsFoundOrGone
  <2> QED
    BY <2>1
<1>8. UnrenewedIsFoundOrGone(e)'
  <2>1. \A j \in call[e].items :
          j.dir \notin renewed[e] => before[e][j.dir] = [size |-> j.size, time |-> j.time]
    BY DEF CallInv, UnrenewedIsFoundOrGone
  <2>2. \A d \in Found(e) \ renewed[e] :
          d \notin call[e].names /\ d \notin DirsOf(call[e].items) => disk'[d] = Absent
    BY <1>4 DEF CallInv, UnrenewedIsFoundOrGone, Found, Existing
  <2> QED
    BY <1>2, <1>4, <1>5, <2>1, <2>2 DEF UnrenewedIsFoundOrGone, DirsOf
<1>9. i.dir \notin renewed[e] => i.dir \in Outdated(e)
  BY <1>3, <1>7 DEF Outdated, CallInv, ItemsAreScanned
<1>10. AloneIsOnTrack(e)'
  <2> SUFFICES ASSUME Alone(e) PROVE AloneIsOnTrack(e)'
    BY <1>4 DEF AloneIsOnTrack
  <2>1. removed[e] = DirsOf(Past(e)) \cap Outdated(e)
    BY <1>1 DEF CallInv, AloneIsOnTrack
  <2>2. DirsOf(Past(e))' = DirsOf(Past(e)) \cup {i.dir}
    BY <1>2, <1>3 DEF DirsOf, Past
  <2>3. removed'[e] = DirsOf(Past(e))' \cap Outdated(e)'
    BY <1>4, <1>9, <2>1, <2>2 DEF Alone
  <2>4. \A d \in Dirs : disk[d] = IF d \in removed[e] THEN Absent ELSE before[e][d]
    BY <1>1 DEF CallInv, AloneIsOnTrack
  <2>5. \A d \in Found(e) : d \in call[e].names \/ d \in DirsOf(call[e].items)
    BY <1>1 DEF CallInv, AloneIsOnTrack
  <2> QED
    BY <1>2, <1>4, <1>5, <2>3, <2>4, <2>5 DEF AloneIsOnTrack
<1>11. Spares(e)'
  BY <1>4, <1>9 DEF CallInv, Spares
<1> QED
  BY <1>4, <1>6, <1>8, <1>10, <1>11 DEF CallInv

\* The scan is over.
LEMMA ScanDoneStep ==
  ASSUME Types, NEW e \in Evictors, CallInv(e), ScanDone(e)
  PROVE  CallInv(e)'
<1>1. /\ call[e].pc = "scan" /\ call[e].names = {} /\ call[e].left = {}
      /\ call'[e].pc = IF call[e].total <= MaxSize THEN "done" ELSE "sweep"
      /\ call'[e].now = call[e].now /\ call'[e].names = {}
      /\ call'[e].items = call[e].items /\ call'[e].left = call[e].items
      /\ call'[e].total = call[e].total
  BY DEF ScanDone, Types, CallType, CallInv, TotalIsCounted
<1>2. StepsAlone(e)
  BY DEF ScanDone, StepsAlone, history
<1>3. /\ Found(e)' = Found(e) /\ SizeOf(e)' = SizeOf(e) /\ Older(e)' = Older(e)
      /\ Outdated(e)' = Outdated(e) /\ Fresh(e)' = Fresh(e)
  BY <1>1, <1>2 DEF StepsAlone, Found, Existing, SizeOf, Older, Outdated, Fresh
<1>4. Past(e)' = {} /\ DirsOf(Past(e))' = {} /\ Past(e) = call[e].items
  BY <1>1 DEF Past, DirsOf
<1>5. IdleIsClean(e)'
  BY <1>1 DEF IdleIsClean
<1>6. ItemsAreScanned(e)'
  BY <1>1, <1>3 DEF CallInv, ItemsAreScanned
<1>7. TotalIsCounted(e)'
  <2>1. /\ call[e].total = Bytes(Weight, Fresh(e)) /\ Bytes(Weight, Fresh(e)) \in Nat
        /\ Bytes(Weight, {}) = 0
    BY <1>1, Sized, BytesOfNone DEF CallInv, TotalIsCounted, Fresh
  <2>2. call'[e].total = Bytes(Weight, Fresh(e)') - Bytes(Weight, Past(e)')
    BY <1>1, <1>3, <1>4, <2>1
  <2>3. Weight' = Weight
    BY DEF Weight
  <2> QED
    BY <1>1, <2>2, <2>3 DEF TotalIsCounted
<1>8. UnrenewedIsFoundOrGone(e)'
  BY <1>1, <1>2, <1>3, <1>4 DEF CallInv, UnrenewedIsFoundOrGone, StepsAlone
<1>9. NothingAges(e)'
  BY <1>1, <1>2, <1>3 DEF CallInv, NothingAges, StepsAlone, Existing
<1>10. AgesDiffer(before[e])'
  BY <1>2 DEF CallInv, AgesDiffer, StepsAlone, Existing
<1>11. AloneIsOnTrack(e)'
  <2> SUFFICES ASSUME Alone(e) PROVE AloneIsOnTrack(e)'
    BY <1>2 DEF AloneIsOnTrack, StepsAlone, Alone
  <2>1. removed[e] = DirsOf(call[e].items) \cap Outdated(e)
    BY <1>1, <1>4 DEF CallInv, AloneIsOnTrack
  <2>2. \A d \in Found(e) : d \in DirsOf(call[e].items)
    BY <1>1 DEF CallInv, AloneIsOnTrack
  <2>3. removed[e] = Outdated(e)
    BY <2>1, <2>2 DEF Outdated
  <2>4. \A d \in Dirs : disk[d] = IF d \in removed[e] THEN Absent ELSE before[e][d]
    BY <1>1 DEF CallInv, AloneIsOnTrack
  <2> QED
    BY <1>1, <1>2, <1>3, <1>4, <2>2, <2>3, <2>4 DEF AloneIsOnTrack, StepsAlone
<1>12. Spares(e)'
  BY <1>2, <1>3 DEF CallInv, Spares, StepsAlone
<1> QED
  BY <1>5, <1>6, <1>7, <1>8, <1>9, <1>10, <1>11, <1>12 DEF CallInv

\* What is removed for its size, and is not too old, does not fit beside what is
\* younger: the size loop has not subtracted the younger ones.
LEMMA SweepSpares ==
  ASSUME Types, NEW e \in Evictors, CallInv(e), NEW i \in call[e].left,
         call[e].pc = "sweep", call[e].total > MaxSize, renewed[e] = {},
         \A j \in call[e].left : i.time <= j.time
  PROVE  Bytes(SizeOf(e), {x \in Found(e) \ Outdated(e) : x \notin Older(e)[i.dir]}) > MaxSize
<1> DEFINE kept == Fresh(e) \cap call[e].left
<1> DEFINE young == {x \in Found(e) \ Outdated(e) : x \notin Older(e)[i.dir]}
<1>1. call[e].left \in SUBSET call[e].items
  BY DEF Types, TypeOK
<1>2. /\ Fresh(e) \in SUBSET call[e].items /\ kept \in SUBSET Fresh(e)
      /\ kept \in SUBSET call[e].items
      /\ Fresh(e) \ kept \in SUBSET Past(e) /\ Past(e) \in SUBSET call[e].items
  BY DEF Fresh, Past
<1>3. \A S \in SUBSET call[e].items :
        IsFiniteSet(S) /\ (\A j \in S : Weight[j] \in Nat) /\ Bytes(Weight, S) \in Nat
  BY Sized DEF CallInv
<1>4. \A j \in call[e].items :
        j.dir \in Found(e) /\ before[e][j.dir] = [size |-> j.size, time |-> j.time]
  BY DEF CallInv, UnrenewedIsFoundOrGone, ItemsAreScanned
<1>5. Bytes(Weight, kept) > MaxSize
  <2> HIDE DEF kept
  <2>1. Bytes(Weight, Fresh(e)) = Bytes(Weight, kept) + Bytes(Weight, Fresh(e) \ kept)
    BY <1>2, <1>3, BytesSplit
  <2>2. Bytes(Weight, Fresh(e) \ kept) <= Bytes(Weight, Past(e))
    BY <1>2, <1>3, BytesMonotone
  <2>3. call[e].total = Bytes(Weight, Fresh(e)) - Bytes(Weight, Past(e))
    BY DEF CallInv, TotalIsCounted
  <2>4. Fresh(e) \ kept \in SUBSET call[e].items
    BY <1>2
  <2>5. /\ Bytes(Weight, kept) \in Nat /\ Bytes(Weight, Fresh(e) \ kept) \in Nat
        /\ Bytes(Weight, Past(e)) \in Nat /\ Bytes(Weight, Fresh(e)) \in Nat
    BY <1>2, <1>3, <2>4
  <2> QED
    BY <2>1, <2>2, <2>3, <2>5, SizeAssumption
<1>6. DirsOf(kept) \subseteq young
  <2> SUFFICES ASSUME NEW j \in kept PROVE j.dir \in young
    BY DEF DirsOf
  <2>1. j \in call[e].items /\ ~ Expired(call[e].now, j.time) /\ i.time <= j.time
    BY <1>2 DEF Fresh
  <2>2. before[e][j.dir].time = j.time /\ before[e][i.dir].time = i.time
    <3>1. /\ before[e][j.dir] = [size |-> j.size, time |-> j.time]
          /\ before[e][i.dir] = [size |-> i.size, time |-> i.time]
      BY <1>1, <1>4, <2>1
    <3> QED
      BY <3>1
  <2>3. j.dir \in Found(e) /\ i.dir \in Found(e)
    BY <1>1, <1>4, <2>1
  <2>4. j.dir \notin Outdated(e)
    BY <2>1, <2>2 DEF Outdated
  <2>5. i.time \in Int /\ j.time \in Int
    <3>1. i \in Item /\ j \in Item
      BY <1>1, <2>1 DEF Types, CallType
    <3> QED
      BY <3>1 DEF Item
  <2>6. j.dir \notin Older(e)[i.dir]
    BY <2>1, <2>2, <2>3, <2>5 DEF Older
  <2> QED
    BY <2>3, <2>4, <2>6
<1>7. Bytes(Weight, kept) = Bytes(SizeOf(e), DirsOf(kept))
  <2> HIDE DEF kept
  <2>1. \A j \in kept : before[e][j.dir] = [size |-> j.size, time |-> j.time]
    BY <1>2, <1>4
  <2> QED
    BY <1>2, <2>1, ItemBytes DEF CallInv
<1>8. /\ IsFiniteSet(young) /\ (\A d \in young : SizeOf(e)[d] \in Nat)
      /\ Bytes(SizeOf(e), young) \in Nat
  BY Sized DEF CallInv
<1>9. Bytes(SizeOf(e), DirsOf(kept)) <= Bytes(SizeOf(e), young)
  <2> HIDE DEF kept, young
  <2> QED
    BY <1>6, <1>8, BytesMonotone
<1>10. Bytes(Weight, kept) \in Nat
  BY <1>2, <1>3
<1> HIDE DEF kept, young
<1>11. Bytes(SizeOf(e), young) > MaxSize
  BY <1>5, <1>7, <1>8, <1>9, <1>10, SizeAssumption
<1> QED
  BY <1>11 DEF young

\* For an Evict that nobody crosses, total is what Victims computes it to be.
LEMMA AloneTotal ==
  ASSUME Types, NEW e \in Evictors, CallInv(e), call[e].pc \in {"sweep", "done"}, Alone(e)
  PROVE  /\ DirsOf(call[e].items) = Found(e)
         /\ \A i \in call[e].items :
              /\ before[e][i.dir] = [size |-> i.size, time |-> i.time]
              /\ before[e][i.dir].time = i.time /\ i.time \in Int /\ i.dir \in Found(e)
         /\ call[e].total = LeftAfterAging(Found(e), SizeOf(e), Outdated(e))
                              - Bytes(SizeOf(e), DirsOf(Past(e)))
<1>1. \A i \in call[e].items :
        i.dir \in Found(e) /\ before[e][i.dir] = [size |-> i.size, time |-> i.time]
  BY DEF CallInv, UnrenewedIsFoundOrGone, ItemsAreScanned, Alone
<1>2. \A i \in call[e].items : before[e][i.dir].time = i.time /\ i.time \in Int
  <2> SUFFICES ASSUME NEW i \in call[e].items
               PROVE  before[e][i.dir].time = i.time /\ i.time \in Int
    OBVIOUS
  <2>1. i \in Item
    BY DEF Types, CallType
  <2>2. i.time \in Int
    BY <2>1 DEF Item
  <2>3. before[e][i.dir] = [size |-> i.size, time |-> i.time]
    BY <1>1
  <2> QED
    BY <2>2, <2>3
<1>3. DirsOf(call[e].items) = Found(e)
  <2>1. \A d \in Found(e) : d \in DirsOf(call[e].items)
    BY DEF CallInv, AloneIsOnTrack, TotalIsCounted
  <2> QED
    BY <1>1, <2>1 DEF DirsOf
<1>4. DirsOf(Fresh(e)) = Found(e) \ Outdated(e)
  <2>1. \A i \in call[e].items : i.dir \in Outdated(e) <=> Expired(call[e].now, i.time)
    BY <1>1, <1>2 DEF Outdated
  <2>2. \A d \in Found(e) : \E i \in call[e].items : d = i.dir
    BY <1>3 DEF DirsOf
  <2>3. ASSUME NEW d \in DirsOf(Fresh(e)) PROVE d \in Found(e) \ Outdated(e)
    <3>1. PICK i \in call[e].items : d = i.dir /\ ~Expired(call[e].now, i.time)
      BY DEF DirsOf, Fresh
    <3> QED
      BY <1>1, <2>1, <3>1
  <2>4. ASSUME NEW d \in Found(e) \ Outdated(e) PROVE d \in DirsOf(Fresh(e))
    <3>1. PICK i \in call[e].items : d = i.dir
      BY <2>2
    <3>2. ~Expired(call[e].now, i.time)
      BY <2>1, <3>1
    <3> QED
      BY <3>1, <3>2 DEF DirsOf, Fresh
  <2> QED
    BY <2>3, <2>4
<1>5. /\ Bytes(Weight, Fresh(e)) = Bytes(SizeOf(e), Found(e) \ Outdated(e))
      /\ Bytes(Weight, Past(e)) = Bytes(SizeOf(e), DirsOf(Past(e)))
  <2>1. Fresh(e) \in SUBSET call[e].items /\ Past(e) \in SUBSET call[e].items
    BY DEF Fresh, Past
  <2>2. /\ \A i \in Fresh(e) : before[e][i.dir] = [size |-> i.size, time |-> i.time]
        /\ \A i \in Past(e) : before[e][i.dir] = [size |-> i.size, time |-> i.time]
    BY <1>1, <2>1
  <2> QED
    BY <1>4, <2>1, <2>2, ItemBytes DEF CallInv
<1>6. /\ Bytes(SizeOf(e), Found(e))
           = Bytes(SizeOf(e), Outdated(e)) + Bytes(SizeOf(e), Found(e) \ Outdated(e))
      /\ Bytes(SizeOf(e), Outdated(e)) \in Nat /\ Bytes(SizeOf(e), Found(e) \ Outdated(e)) \in Nat
  <2>1. Outdated(e) \in SUBSET Found(e) /\ Found(e) \ Outdated(e) \in SUBSET Found(e)
    BY DEF Outdated
  <2>2. \A D \in SUBSET Found(e) :
          IsFiniteSet(D) /\ (\A d \in D : SizeOf(e)[d] \in Nat) /\ Bytes(SizeOf(e), D) \in Nat
    BY Sized DEF CallInv
  <2> QED
    <3> DEFINE F == Found(e)
    <3> DEFINE O == Outdated(e)
    <3> DEFINE s == SizeOf(e)
    <3> HIDE DEF F, O, s
    <3>1. /\ O \in SUBSET F /\ F \ O \in SUBSET F /\ F \in SUBSET F
          /\ \A D \in SUBSET F :
               IsFiniteSet(D) /\ (\A d \in D : s[d] \in Nat) /\ Bytes(s, D) \in Nat
      BY <2>1, <2>2 DEF F, O, s
    <3>2. Bytes(s, F) = Bytes(s, O) + Bytes(s, F \ O)
      BY <3>1, BytesSplit
    <3> QED
      BY <3>1, <3>2 DEF F, O, s
<1>7. call[e].total = Bytes(Weight, Fresh(e)) - Bytes(Weight, Past(e))
  BY DEF CallInv, TotalIsCounted
<1>8. LeftAfterAging(Found(e), SizeOf(e), Outdated(e))
        = Bytes(SizeOf(e), Found(e) \ Outdated(e))
  BY <1>6 DEF LeftAfterAging
<1> QED
  BY <1>1, <1>2, <1>3, <1>5, <1>7, <1>8

\* The oldest directory goes.
LEMMA SweepStep ==
  ASSUME Types, NEW e \in Evictors, CallInv(e), Sweep(e)
  PROVE  CallInv(e)'
<1>1. PICK i \in call[e].left :
        /\ call[e].pc = "sweep" /\ call[e].total > MaxSize
        /\ \A j \in call[e].left : i.time <= j.time
        /\ Remove(e, i)
        /\ call' = [call EXCEPT ![e].left = @ \ {i}, ![e].total = @ - i.size]
  BY DEF Sweep
<1>2. /\ call'[e].pc = "sweep" /\ call'[e].now = call[e].now /\ call'[e].names = call[e].names
      /\ call'[e].items = call[e].items /\ call'[e].left = call[e].left \ {i}
      /\ call'[e].total = call[e].total - i.size
  BY <1>1 DEF Types, CallType
<1>3. /\ i \in call[e].items /\ i \notin Past(e) /\ call[e].names = {}
      /\ call[e].left \in SUBSET call[e].items
  BY <1>1 DEF CallInv, TotalIsCounted, Types, TypeOK, Past
<1>4. /\ i \in Item /\ i.dir \in Dirs /\ i.size \in Int
      /\ Found(e)' = Found(e) /\ SizeOf(e)' = SizeOf(e) /\ Older(e)' = Older(e)
      /\ Outdated(e)' = Outdated(e) /\ Fresh(e)' = Fresh(e)
      /\ (Alone(e)' <=> Alone(e))
      /\ removed'[e] = removed[e] \cup {i.dir} /\ renewed'[e] = renewed[e]
      /\ \A d \in Dirs : disk'[d] = IF d = i.dir THEN Absent ELSE disk[d]
      /\ IdleIsClean(e)' /\ ItemsAreScanned(e)' /\ NothingAges(e)' /\ AgesDiffer(before[e])'
      /\ \A d \in Dirs \ renewed[e] : disk'[d] \in {Absent, before[e][d]}
  BY <1>1, <1>2, <1>3, RemovedByIt
<1>5. before'[e] = before[e]
  BY <1>1 DEF Remove
<1>6. Past(e)' = Past(e) \cup {i} /\ DirsOf(Past(e))' = DirsOf(Past(e)) \cup {i.dir}
  <2>1. Past(e)' = Past(e) \cup {i}
    BY <1>2, <1>3 DEF Past
  <2> QED
    BY <2>1 DEF DirsOf
<1>7. TotalIsCounted(e)'
  <2>1. /\ IsFiniteSet(Past(e)') /\ \A j \in Past(e)' : Weight[j] \in Nat
    <3>1. Past(e)' \in SUBSET call[e].items
      BY <1>3, <1>6 DEF Past
    <3> QED
      BY <3>1, Sized DEF CallInv
  <2>2. i \in Past(e)' /\ Past(e)' \ {i} = Past(e)
    BY <1>3, <1>6
  <2>3. Bytes(Weight, Past(e)') = Weight[i] + Bytes(Weight, Past(e)' \ {i})
    BY <2>1, <2>2, BytesTake
  <2>4. Weight[i] = i.size
    BY <1>4 DEF Weight
  <2>5. Bytes(Weight, Past(e)') = i.size + Bytes(Weight, Past(e))
    BY <2>2, <2>3, <2>4
  <2>6. Bytes(Weight, Fresh(e)) \in Nat /\ Bytes(Weight, Past(e)) \in Nat
    BY Sized DEF CallInv, Fresh, Past
  <2>7. call[e].total = Bytes(Weight, Fresh(e)) - Bytes(Weight, Past(e))
    BY <1>1 DEF CallInv, TotalIsCounted
  <2>8. call'[e].total = Bytes(Weight, Fresh(e)) - Bytes(Weight, Past(e)')
    BY <1>2, <1>4, <2>5, <2>6, <2>7
  <2> QED
    BY <1>2, <1>3, <1>4, <2>8 DEF TotalIsCounted, Weight
<1>8. UnrenewedIsFoundOrGone(e)'
  <2>1. \A j \in call[e].items :
          j.dir \notin renewed[e] => before[e][j.dir] = [size |-> j.size, time |-> j.time]
    BY DEF CallInv, UnrenewedIsFoundOrGone
  <2>2. \A d \in Found(e) \ renewed[e] :
          d \notin call[e].names /\ d \notin DirsOf(call[e].items) => disk'[d] = Absent
    BY <1>4 DEF CallInv, UnrenewedIsFoundOrGone, Found, Existing
  <2>3. \A j \in Past(e)' : j.dir \notin renewed[e] => disk'[j.dir] = Absent
    <3>1. \A j \in Past(e) : j.dir \in Dirs /\ (j.dir \notin renewed[e] => disk[j.dir] = Absent)
      BY <1>1 DEF CallInv, UnrenewedIsFoundOrGone, ItemsAreScanned, Past, Found, Existing
    <3> QED
      BY <1>4, <1>6, <3>1
  <2> QED
    BY <1>2, <1>4, <1>5, <2>1, <2>2, <2>3 DEF UnrenewedIsFoundOrGone, DirsOf
<1>9. AloneIsOnTrack(e)'
  <2> SUFFICES ASSUME Alone(e) PROVE AloneIsOnTrack(e)'
    BY <1>4 DEF AloneIsOnTrack
  <2>1. /\ DirsOf(call[e].items) = Found(e)
        /\ \A j \in call[e].items :
             before[e][j.dir].time = j.time /\ j.time \in Int /\ j.dir \in Found(e)
        /\ call[e].total = LeftAfterAging(Found(e), SizeOf(e), Outdated(e))
                             - Bytes(SizeOf(e), DirsOf(Past(e)))
    BY <1>1, AloneTotal
  <2>2. /\ removed[e] = Outdated(e) \cup DirsOf(Past(e))
        /\ DirsOf(Past(e)) \subseteq
             SizeVictims(Found(e), SizeOf(e), Older(e), Outdated(e), MaxSize)
        /\ \A j \in Past(e), k \in call[e].left : j.time <= k.time
        /\ \A d \in Dirs : disk[d] = IF d \in removed[e] THEN Absent ELSE before[e][d]
    BY <1>1 DEF CallInv, AloneIsOnTrack
  <2>3. Older(e)[i.dir] \cap Found(e) = DirsOf(Past(e))
    <3>1. Older(e)[i.dir] = {x \in Found(e) : before[e][x].time < i.time}
      BY <1>3, <2>1 DEF Older
    <3>2. ASSUME NEW x \in Found(e), before[e][x].time < i.time PROVE x \in DirsOf(Past(e))
      <4>1. PICK j \in call[e].items : x = j.dir
        BY <2>1 DEF DirsOf
      <4>2. j \notin call[e].left
        BY <1>1, <1>3, <2>1, <3>2, <4>1
      <4> QED
        BY <4>1, <4>2 DEF Past, DirsOf
    <3>3. ASSUME NEW j \in Past(e) PROVE j.dir \in Found(e) /\ before[e][j.dir].time < i.time
      <4>1. j \in call[e].items /\ j.time <= i.time /\ j # i
        BY <1>3, <2>2 DEF Past
      <4>2. j.dir # i.dir
        BY <1>3, <4>1 DEF CallInv, ItemsAreScanned
      <4>3. before[e][j.dir].time # before[e][i.dir].time
        BY <1>3, <2>1, <4>1, <4>2 DEF CallInv, AgesDiffer, Found
      <4> QED
        BY <1>3, <2>1, <4>1, <4>3
    <3> QED
      BY <3>1, <3>2, <3>3 DEF DirsOf
  <2>4. i.dir \in SizeVictims(Found(e), SizeOf(e), Older(e), Outdated(e), MaxSize)
    BY <1>1, <1>3, <2>1, <2>3 DEF SizeVictims
  <2>5. SizeVictims(Found(e), SizeOf(e), Older(e), Outdated(e), MaxSize)'
          = SizeVictims(Found(e), SizeOf(e), Older(e), Outdated(e), MaxSize)
    BY <1>4
  <2>6. DirsOf(Past(e))' \subseteq
          SizeVictims(Found(e), SizeOf(e), Older(e), Outdated(e), MaxSize)'
    BY <1>6, <2>2, <2>4, <2>5
  <2>7. removed'[e] = Outdated(e)' \cup DirsOf(Past(e))'
    BY <1>4, <1>6, <2>2
  <2>8. \A j \in Past(e)', k \in call'[e].left : j.time <= k.time
    BY <1>1, <1>2, <1>6, <2>2
  <2>9. \A d \in Dirs : disk'[d] = IF d \in removed'[e] THEN Absent ELSE before'[e][d]
    BY <1>4, <1>5, <2>2
  <2>10. \A d \in Found(e)' : d \in DirsOf(call[e].items)'
    BY <1>2, <1>4, <2>1 DEF DirsOf
  <2> QED
    BY <1>2, <2>6, <2>7, <2>8, <2>9, <2>10 DEF AloneIsOnTrack
<1>10. Spares(e)'
  <2>1. renewed[e] = {} =>
          Bytes(SizeOf(e), {x \in Found(e) \ Outdated(e) : x \notin Older(e)[i.dir]}) > MaxSize
    BY <1>1, SweepSpares
  <2> QED
    BY <1>4, <2>1 DEF CallInv, Spares
<1> QED
  BY <1>4, <1>7, <1>8, <1>9, <1>10 DEF CallInv

\* The size loop is over.
LEMMA SweepDoneStep ==
  ASSUME Types, NEW e \in Evictors, CallInv(e), SweepDone(e)
  PROVE  CallInv(e)'
<1>1. /\ call[e].pc = "sweep" /\ (call[e].total <= MaxSize \/ call[e].left = {})
      /\ call'[e].pc = "done" /\ call'[e].now = call[e].now /\ call'[e].names = call[e].names
      /\ call'[e].items = call[e].items /\ call'[e].left = call[e].left
      /\ call'[e].total = call[e].total
  BY DEF SweepDone, Types, CallType
<1>2. StepsAlone(e)
  BY DEF SweepDone, StepsAlone, history
<1>3. /\ Found(e)' = Found(e) /\ SizeOf(e)' = SizeOf(e) /\ Older(e)' = Older(e)
      /\ Outdated(e)' = Outdated(e) /\ Fresh(e)' = Fresh(e) /\ Past(e)' = Past(e)
  BY <1>1, <1>2 DEF StepsAlone, Found, Existing, SizeOf, Older, Outdated, Fresh, Past
<1>4. IdleIsClean(e)'
  BY <1>1 DEF IdleIsClean
<1>5. ItemsAreScanned(e)'
  BY <1>1, <1>3 DEF CallInv, ItemsAreScanned
<1>6. TotalIsCounted(e)'
  BY <1>1, <1>3 DEF CallInv, TotalIsCounted
<1>7. UnrenewedIsFoundOrGone(e)'
  BY <1>1, <1>2, <1>3 DEF CallInv, UnrenewedIsFoundOrGone, StepsAlone
<1>8. NothingAges(e)'
  BY <1>1, <1>2, <1>3 DEF CallInv, NothingAges, StepsAlone, Existing
<1>9. AgesDiffer(before[e])'
  BY <1>2 DEF CallInv, AgesDiffer, StepsAlone, Existing
<1>10. AloneIsOnTrack(e)'
  BY <1>1, <1>2, <1>3 DEF CallInv, AloneIsOnTrack, StepsAlone, Alone
<1>11. Spares(e)'
  BY <1>2, <1>3 DEF CallInv, Spares, StepsAlone
<1> QED
  BY <1>4, <1>5, <1>6, <1>7, <1>8, <1>9, <1>10, <1>11 DEF CallInv

\* The call is over.
LEMMA ReturnStep ==
  ASSUME Types, NEW e \in Evictors, CallInv(e), Return(e)
  PROVE  CallInv(e)'
<1>1. /\ call'[e] = Idle /\ before'[e] = Empty /\ removed'[e] = {} /\ renewed'[e] = {}
      /\ e \notin crossed'
  BY DEF Return, Types
<1>2. /\ call'[e].pc = "idle" /\ call'[e].names = {} /\ call'[e].items = {}
  BY <1>1 DEF Idle
<1>3. Found(e)' = {}
  BY <1>1 DEF Found, Existing, Empty
<1>4. IdleIsClean(e)'
  BY <1>1 DEF IdleIsClean, Idle, Empty
<1>5. ItemsAreScanned(e)'
  BY <1>2, <1>3, FS_EmptySet DEF ItemsAreScanned
<1>6. AgesDiffer(before[e])'
  BY <1>3 DEF AgesDiffer, Found
<1> QED
  BY <1>1, <1>2, <1>3, <1>4, <1>5, <1>6
  DEF CallInv, TotalIsCounted, UnrenewedIsFoundOrGone, NothingAges, AloneIsOnTrack, Spares

-----------------------------------------------------------------------------
(* The theorems. *)

\* The invariant holds at first, and every operation keeps it.
LEMMA InitInv == Init => IInv
<1> SUFFICES ASSUME Init PROVE IInv
  OBVIOUS
<1>1. Types
  BY ClockAssumption DEF Init, Types, TypeOK, CallType, Idle, Empty
<1>2. AgesDiffer(disk)
  BY DEF Init, AgesDiffer, Existing, Empty
<1>3. ASSUME NEW e \in Evictors PROVE CallInv(e)
  <2>1. /\ call[e] = Idle /\ before[e] = Empty /\ removed[e] = {} /\ renewed[e] = {}
        /\ e \notin crossed
    BY DEF Init
  <2>2. call[e].pc = "idle" /\ call[e].names = {} /\ call[e].items = {}
    BY <2>1 DEF Idle
  <2>3. Found(e) = {}
    BY <2>1 DEF Found, Existing, Empty
  <2>4. ItemsAreScanned(e)
    BY <2>2, <2>3, FS_EmptySet DEF ItemsAreScanned
  <2>5. AgesDiffer(before[e])
    BY <2>3 DEF AgesDiffer, Found
  <2> QED
    BY <2>1, <2>2, <2>3, <2>4, <2>5
    DEF CallInv, IdleIsClean, TotalIsCounted, UnrenewedIsFoundOrGone, NothingAges,
        AloneIsOnTrack, Spares
<1> QED
  BY <1>1, <1>2, <1>3 DEF IInv

\* The step of one evictor leaves the calls of the others as they are, or removes
\* a directory under them.
LEMMA OthersStep ==
  ASSUME Types, NEW e \in Evictors, NEW f \in Evictors, f # e, CallInv(e), CallInv(f),
         Evict(f)
  PROVE  CallInv(e)'
<1>1. SameCall(e)
  BY DEF Types, Evict, SameCall, ReadDir, DirInfo, DirInfoFails, RemoveExpired, ScanDone, Sweep, SweepDone,
         Return, Remove, history
<1>2. clock \in Nat /\ call[e].now \in Nat
  <2>1. call[e] \in CallType
    BY DEF Types
  <2> QED
    BY <2>1, ClockAssumption DEF Types, TypeOK, CallType
<1>3. CASE RemoveExpired(f) \/ Sweep(f)
  <2>1. PICK i \in call[f].left : Remove(f, i)
    BY <1>3 DEF RemoveExpired, Sweep
  <2>2. i \in Item
    BY DEF Types, CallType
  <2> QED
    BY <1>1, <2>1, <2>2, RemovedByAnother
<1>4. CASE ReadDir(f) \/ DirInfo(f) \/ DirInfoFails(f) \/ ScanDone(f) \/ SweepDone(f) \/ Return(f)
  <2>1. /\ disk' = disk /\ clock' = clock /\ removed'[e] = removed[e]
        /\ renewed'[e] = renewed[e] /\ (e \in crossed' <=> e \in crossed)
    BY <1>4 DEF Types, ReadDir, DirInfo, DirInfoFails, ScanDone, SweepDone, Return, history
  <2> QED
    BY <1>1, <1>2, <2>1, Untouched
<1> QED
  BY <1>3, <1>4 DEF Evict

\* No two directories are rebuilt at once, and removal makes none.
LEMMA AgesStep == IInv /\ [Next]_vars => AgesDiffer(disk)'
<1> SUFFICES ASSUME IInv, [Next]_vars PROVE AgesDiffer(disk)'
  OBVIOUS
<1>1. CASE disk' = disk
  BY <1>1 DEF IInv, AgesDiffer, Existing
<1>2. ASSUME NEW d \in Dirs, NEW s \in Sizes, Rebuild(d, s) PROVE AgesDiffer(disk)'
  <2>1. \A x \in Dirs : disk'[x] = IF x = d THEN [size |-> s, time |-> clock] ELSE disk[x]
    BY <1>2 DEF Rebuild, IInv, Types, TypeOK
  <2> QED
    BY <1>2, <2>1 DEF IInv, AgesDiffer, Existing, Rebuild
<1>3. ASSUME NEW d \in Dirs, NEW s \in Sizes, Reuse(d, s) PROVE AgesDiffer(disk)'
  <2>1. disk[d] # Absent /\ disk[d] \in [size : Sizes, time : 0..MaxClock]
    BY <1>3 DEF Reuse, IInv, Types, TypeOK
  <2>2. \A x \in Dirs : /\ x # d => disk'[x] = disk[x]
                        /\ disk'[d].time = disk[d].time
    BY <1>3, <2>1 DEF Reuse, IInv, Types, TypeOK
  <2> QED
    BY <2>1, <2>2 DEF IInv, AgesDiffer, Existing
<1>4. ASSUME NEW e \in Evictors, NEW i \in call[e].left, Remove(e, i) PROVE AgesDiffer(disk)'
  <2>1. \A x \in Dirs : disk'[x] = disk[x] \/ disk'[x] = Absent
    BY <1>4 DEF Remove, IInv, Types, TypeOK
  <2> QED
    BY <2>1 DEF IInv, AgesDiffer, Existing
<1> QED
  BY <1>1, <1>2, <1>3, <1>4
  DEF Next, Evict, Tick, ReadDir, DirInfo, DirInfoFails, RemoveExpired, ScanDone, Sweep,
      SweepDone, Return, vars

\* Every operation keeps the invariant, of every evictor.
LEMMA StepInv == IInv /\ [Next]_vars => IInv'
<1> SUFFICES ASSUME IInv, [Next]_vars PROVE IInv'
  OBVIOUS
<1>1. Types' /\ AgesDiffer(disk)'
  BY TypesStep, AgesStep DEF IInv
<1>2. ASSUME NEW e \in Evictors PROVE CallInv(e)'
  <2>1. Types /\ CallInv(e) /\ clock \in Nat /\ call[e].now \in Nat
    <3>1. call[e] \in CallType
      BY DEF IInv, Types
    <3> QED
      BY <3>1, ClockAssumption DEF IInv, Types, TypeOK, CallType
  <2>2. CASE UNCHANGED vars
    <3>1. SameCall(e)
      BY <2>2 DEF vars, SameCall, history
    <3> QED
      BY <2>1, <2>2, <3>1, Untouched DEF vars, history
  <2>3. CASE Tick
    <3>1. SameCall(e)
      BY <2>3 DEF Tick, SameCall, history
    <3>2. clock' \in Nat /\ clock' >= clock
      BY <2>1, <2>3 DEF Tick
    <3> QED
      BY <2>1, <2>3, <3>1, <3>2, Untouched DEF Tick, history
  <2>4. ASSUME NEW d \in Dirs, NEW s \in Sizes, Rebuild(d, s) PROVE CallInv(e)'
    <3> DEFINE kept == [size |-> s, time |-> clock]
    <3>1. kept # Absent
      BY AbsentAssumption DEF IInv, Types, TypeOK
    <3>2. kept.time = clock
      OBVIOUS
    <3>3. SameCall(e)
      BY <2>4 DEF Rebuild, SameCall
    <3> HIDE DEF kept
    <3> QED
      BY <2>1, <2>4, <3>1, <3>2, <3>3, Renewed DEF Rebuild, kept
  <2>5. ASSUME NEW d \in Dirs, NEW s \in Sizes, Reuse(d, s) PROVE CallInv(e)'
    <3> DEFINE kept == [disk[d] EXCEPT !.size = s]
    <3>1. disk[d] # Absent /\ disk[d] \in [size : Sizes, time : 0..MaxClock]
      BY <2>5 DEF Reuse, IInv, Types, TypeOK
    <3>2. kept \in [size : Sizes, time : 0..MaxClock]
      BY <3>1
    <3>3. kept # Absent /\ kept.time = disk[d].time
      BY <3>1, <3>2, AbsentAssumption
    <3>4. SameCall(e)
      BY <2>5 DEF Reuse, SameCall
    <3>5. disk' = [disk EXCEPT ![d] = kept]
      BY <2>5 DEF Reuse
    <3> HIDE DEF kept
    <3> QED
      BY <2>1, <2>5, <3>1, <3>3, <3>4, <3>5, Renewed DEF Reuse
  <2>6. ASSUME NEW f \in Evictors, f # e, Evict(f) PROVE CallInv(e)'
    BY <2>6, OthersStep DEF IInv
  <2>7. CASE Evict(e)
    BY <2>1, <2>7, ReadDirStep, DirInfoStep, DirInfoFailsStep, RemoveExpiredStep, ScanDoneStep, SweepStep,
       SweepDoneStep, ReturnStep DEF Evict, IInv
  <2> QED
    BY <2>2, <2>3, <2>4, <2>5, <2>6, <2>7 DEF Next
<1> QED
  BY <1>1, <1>2 DEF IInv

\* The invariant implies what the runs check.
LEMMA InvSpares == IInv => EvictorsSpareWhatFits
  BY DEF IInv, CallInv, Spares, EvictorsSpareWhatFits

\* When an Evict ends, total is within the limit or nothing is left of what it
\* measured; total lacks the sizes of what is too old; what nobody renewed and is
\* still there is part of what is left.
LEMMA InvFits == IInv => UnchangedFits
<1> DEFINE measured(e) == [i \in call[e].items |-> i.size]
<1> SUFFICES ASSUME IInv, NEW e \in Evictors, call[e].pc = "done"
             PROVE  Bytes(SizeOf(e), {d \in Found(e) : disk[d] # Absent} \ renewed[e])
                      <= MaxSize + Bytes(measured(e), TooOld(e))
  BY DEF UnchangedFits
<1> DEFINE there == {d \in Found(e) : disk[d] # Absent} \ renewed[e]
<1> DEFINE left  == {i \in call[e].left : i.dir \notin renewed[e]}
<1>1. Types /\ CallInv(e)
  BY DEF IInv
<1>2. call[e].left \in SUBSET call[e].items /\ TooOld(e) \in SUBSET call[e].items
  BY <1>1 DEF Types, TypeOK, TooOld
<1>3. \A S \in SUBSET call[e].items :
        IsFiniteSet(S) /\ (\A j \in S : Weight[j] \in Nat) /\ Bytes(Weight, S) \in Nat
  BY <1>1, Sized DEF CallInv
<1>4. \A D \in SUBSET Found(e) :
        IsFiniteSet(D) /\ (\A d \in D : SizeOf(e)[d] \in Nat) /\ Bytes(SizeOf(e), D) \in Nat
  BY <1>1, Sized DEF CallInv
<1>5. Bytes(measured(e), TooOld(e)) = Bytes(Weight, TooOld(e))
  <2>1. \A i \in TooOld(e) : i \in Item /\ i \in call[e].items
    BY <1>1 DEF Types, TypeOK, TooOld
  <2>2. \A i \in TooOld(e) : measured(e)[i] = Weight[i]
    BY <2>1 DEF Weight
  <2> HIDE DEF measured
  <2> QED
    BY <1>2, <1>3, <2>2, BytesSame
<1> HIDE DEF measured
<1>6. call[e].total = Bytes(Weight, call[e].left) - Bytes(Weight, TooOld(e))
  <2>1. call[e].total = Bytes(Weight, Fresh(e)) - Bytes(Weight, Past(e))
    BY <1>1 DEF CallInv, TotalIsCounted
  <2>2. /\ Past(e) \in SUBSET call[e].items /\ call[e].items \ Past(e) = call[e].left
        /\ Fresh(e) \in SUBSET call[e].items /\ call[e].items \ TooOld(e) = Fresh(e)
    BY <1>2 DEF Past, Fresh, TooOld
  <2> DEFINE items == call[e].items
  <2>3. \A S \in SUBSET items : Bytes(Weight, items) = Bytes(Weight, S) + Bytes(Weight, items \ S)
    <3> HIDE DEF items
    <3>1. IsFiniteSet(items) /\ \A j \in items : Weight[j] \in Nat
      BY <1>3 DEF items
    <3> QED
      BY <3>1, BytesSplit
  <2>4. /\ Bytes(Weight, items) = Bytes(Weight, Past(e)) + Bytes(Weight, call[e].left)
        /\ Bytes(Weight, items) = Bytes(Weight, TooOld(e)) + Bytes(Weight, Fresh(e))
    <3>1. Bytes(Weight, items) = Bytes(Weight, Past(e)) + Bytes(Weight, items \ Past(e))
      BY <2>2, <2>3
    <3>2. Bytes(Weight, items) = Bytes(Weight, TooOld(e)) + Bytes(Weight, items \ TooOld(e))
      BY <1>2, <2>3
    <3> QED
      BY <2>2, <3>1, <3>2
  <2>5. /\ Bytes(Weight, Past(e)) \in Nat /\ Bytes(Weight, call[e].left) \in Nat
        /\ Bytes(Weight, TooOld(e)) \in Nat /\ Bytes(Weight, Fresh(e)) \in Nat
    BY <1>2, <1>3, <2>2
  <2> QED
    BY <2>1, <2>4, <2>5
<1>7. there \subseteq DirsOf(left)
  <2> SUFFICES ASSUME NEW d \in there PROVE d \in DirsOf(left)
    OBVIOUS
  <2>1. call[e].names = {} /\ d \in Found(e) /\ d \notin renewed[e] /\ disk[d] # Absent
    BY <1>1 DEF CallInv, TotalIsCounted
  <2>2. PICK i \in call[e].items : d = i.dir
    BY <1>1, <2>1 DEF CallInv, UnrenewedIsFoundOrGone, DirsOf
  <2>3. i \notin Past(e)
    BY <1>1, <2>1, <2>2 DEF CallInv, UnrenewedIsFoundOrGone
  <2> QED
    BY <2>1, <2>2, <2>3 DEF Past, DirsOf
<1>8. left \in SUBSET call[e].left /\ left \in SUBSET call[e].items
  BY <1>2
<1> HIDE DEF left, there
<1>9. DirsOf(left) \subseteq Found(e) /\ Bytes(Weight, left) = Bytes(SizeOf(e), DirsOf(left))
  <2>1. \A i \in left : before[e][i.dir] = [size |-> i.size, time |-> i.time]
    BY <1>1, <1>8 DEF CallInv, UnrenewedIsFoundOrGone, left
  <2> QED
    BY <1>1, <1>8, <2>1, ItemBytes DEF CallInv
<1>10. Bytes(SizeOf(e), there) <= Bytes(SizeOf(e), DirsOf(left))
  BY <1>4, <1>7, <1>9, BytesMonotone
<1>11. Bytes(Weight, left) <= Bytes(Weight, call[e].left)
  BY <1>2, <1>3, <1>8, BytesMonotone
<1>12. /\ Bytes(Weight, left) \in Nat /\ Bytes(Weight, call[e].left) \in Nat
       /\ Bytes(SizeOf(e), there) \in Nat /\ Bytes(Weight, TooOld(e)) \in Nat
  <2>1. there \in SUBSET Found(e)
    BY <1>7, <1>9
  <2> QED
    BY <1>2, <1>3, <1>4, <1>8, <2>1
<1>13. call[e].left = {} => there = {}
  BY <1>7, <1>8 DEF DirsOf
<1>14. call[e].total <= MaxSize \/ call[e].left = {}
  BY <1>1 DEF CallInv, TotalIsCounted
<1>15. Bytes(SizeOf(e), there) <= MaxSize + Bytes(Weight, TooOld(e))
  <2>1. CASE call[e].left = {}
    BY <1>12, <1>13, <2>1, BytesOfNone, SizeAssumption
  <2>2. CASE call[e].total <= MaxSize
    BY <1>6, <1>9, <1>10, <1>11, <1>12, <2>2, SizeAssumption
  <2> QED
    BY <1>14, <2>1, <2>2
<1> QED
  BY <1>5, <1>15 DEF there

\* When an Evict that nobody crossed ends, the size loop has passed exactly the
\* items that SizeVictims names: it stopped at the first that needed no removal.
LEMMA InvVictims == IInv => AloneRemovesVictims
<1> SUFFICES ASSUME IInv, NEW e \in Evictors, call[e].pc = "done", Alone(e)
             PROVE  disk = [d \in Dirs |->
                              IF d \in Victims(Found(e), SizeOf(e), Older(e), Outdated(e), MaxSize)
                              THEN Absent ELSE before[e][d]]
  BY DEF AloneRemovesVictims
<1> DEFINE victims == SizeVictims(Found(e), SizeOf(e), Older(e), Outdated(e), MaxSize)
<1>1. Types /\ CallInv(e)
  BY DEF IInv
<1>2. /\ removed[e] = Outdated(e) \cup DirsOf(Past(e))
      /\ DirsOf(Past(e)) \subseteq victims
      /\ \A i \in Past(e), j \in call[e].left : i.time <= j.time
      /\ \A d \in Dirs : disk[d] = IF d \in removed[e] THEN Absent ELSE before[e][d]
  BY <1>1 DEF CallInv, AloneIsOnTrack
<1>3. /\ DirsOf(call[e].items) = Found(e)
      /\ \A i \in call[e].items :
           before[e][i.dir].time = i.time /\ i.time \in Int /\ i.dir \in Found(e)
      /\ call[e].total = LeftAfterAging(Found(e), SizeOf(e), Outdated(e))
                           - Bytes(SizeOf(e), DirsOf(Past(e)))
  BY <1>1, AloneTotal
<1>4. call[e].left \in SUBSET call[e].items
  BY <1>1 DEF Types, TypeOK
<1>5. \A D \in SUBSET Found(e) :
        IsFiniteSet(D) /\ (\A d \in D : SizeOf(e)[d] \in Nat) /\ Bytes(SizeOf(e), D) \in Nat
  BY <1>1, Sized DEF CallInv
<1>6. ASSUME NEW d \in victims PROVE d \in DirsOf(Past(e))
  <2> SUFFICES ASSUME d \notin DirsOf(Past(e)) PROVE FALSE
    OBVIOUS
  <2>1. /\ d \in Found(e)
        /\ LeftAfterAging(Found(e), SizeOf(e), Outdated(e))
             - Bytes(SizeOf(e), Older(e)[d] \cap Found(e)) > MaxSize
    BY DEF SizeVictims
  <2>2. PICK i \in call[e].items : d = i.dir
    BY <1>3, <2>1 DEF DirsOf
  <2>3. i \in call[e].left
    BY <2>2 DEF DirsOf, Past
  <2>4. call[e].total <= MaxSize
    BY <1>1, <2>3 DEF CallInv, TotalIsCounted
  <2>5. DirsOf(Past(e)) \subseteq Older(e)[d] \cap Found(e)
    <3> SUFFICES ASSUME NEW j \in Past(e) PROVE j.dir \in Older(e)[d] /\ j.dir \in Found(e)
      BY DEF DirsOf
    <3>1. j \in call[e].items /\ j.time <= i.time /\ j # i
      BY <1>2, <2>3 DEF Past
    <3>2. j.dir # d
      BY <1>1, <2>2, <3>1 DEF CallInv, ItemsAreScanned
    <3>3. before[e][j.dir].time # before[e][d].time
      BY <1>1, <1>3, <2>1, <3>1, <3>2 DEF CallInv, AgesDiffer, Found
    <3>4. before[e][j.dir].time < before[e][d].time
      BY <1>3, <2>2, <3>1, <3>3
    <3> QED
      BY <1>3, <2>1, <3>1, <3>4 DEF Older
  <2> DEFINE older == Older(e)[d] \cap Found(e)
  <2>6. older \in SUBSET Found(e)
    OBVIOUS
  <2>7. /\ IsFiniteSet(older) /\ (\A x \in older : SizeOf(e)[x] \in Nat)
        /\ Bytes(SizeOf(e), older) \in Nat /\ Bytes(SizeOf(e), DirsOf(Past(e))) \in Nat
    <3> HIDE DEF older
    <3>1. DirsOf(Past(e)) \in SUBSET Found(e)
      BY <2>5, <2>6 DEF older
    <3> QED
      BY <1>5, <2>6, <3>1
  <2>8. Bytes(SizeOf(e), DirsOf(Past(e))) <= Bytes(SizeOf(e), older)
    <3> HIDE DEF older
    <3>1. DirsOf(Past(e)) \in SUBSET older
      BY <2>5 DEF older
    <3> QED
      BY <2>7, <3>1, BytesMonotone
  <2>9. LeftAfterAging(Found(e), SizeOf(e), Outdated(e)) \in Int
    <3>1. Outdated(e) \in SUBSET Found(e) /\ Found(e) \in SUBSET Found(e)
      BY DEF Outdated
    <3>2. Bytes(SizeOf(e), Outdated(e)) \in Nat /\ Bytes(SizeOf(e), Found(e)) \in Nat
      BY <1>5, <3>1
    <3> QED
      BY <3>2 DEF LeftAfterAging
  <2> HIDE DEF older
  <2>10. LeftAfterAging(Found(e), SizeOf(e), Outdated(e)) - Bytes(SizeOf(e), older) > MaxSize
    BY <2>1 DEF older
  <2> QED
    BY <1>3, <2>4, <2>7, <2>8, <2>9, <2>10, SizeAssumption
<1>7. removed[e] = Outdated(e) \cup victims
  BY <1>2, <1>6
<1>8. removed[e] = Victims(Found(e), SizeOf(e), Older(e), Outdated(e), MaxSize)
  BY <1>7 DEF Victims
<1>9. disk \in [Dirs -> [size : Sizes, time : 0..MaxClock] \cup {Absent}]
  BY <1>1 DEF Types, TypeOK
<1> HIDE DEF victims
<1>10. disk = [d \in Dirs |-> IF d \in removed[e] THEN Absent ELSE before[e][d]]
  BY <1>2, <1>9
<1> QED
  BY <1>8, <1>10

\* The variables keep their types.
THEOREM TypeCorrect == Spec => []TypeOK
<1>1. Init => IInv
  BY InitInv
<1>2. IInv /\ [Next]_vars => IInv'
  BY StepInv
<1>3. IInv => TypeOK
  BY DEF IInv, Types
<1> QED
  BY <1>1, <1>2, <1>3, PTL DEF Spec

\* The inductive invariant holds.
THEOREM Invariance == Spec => []IInv
  BY InitInv, StepInv, PTL DEF Spec

\* Evict, called by any number of requests at once while others rebuild and reuse
\* keys, removes of what nobody renewed only what is too old or does not fit beside
\* what is younger.
THEOREM SpareWhatFits == Spec => []EvictorsSpareWhatFits
  BY Invariance, InvSpares, PTL

\* And what nobody renewed of what it leaves exceeds the size limit by no more than
\* what it found too old.
THEOREM LeavesWhatFits == Spec => []UnchangedFits
  BY Invariance, InvFits, PTL

\* The two loops of Evict, uninterrupted, remove exactly the Victims that
\* MountPipeline removes in one step.
THEOREM RemovesVictims == Spec => []AloneRemovesVictims
  BY Invariance, InvVictims, PTL
=============================================================================
