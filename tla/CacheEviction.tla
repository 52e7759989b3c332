----------------------------- MODULE CacheEviction -----------------------------
(***************************************************************************)
(* Manager.Evict (pkg/cache/cache.go), loop by loop: concurrent calls of   *)
(* it over one cache directory whose keys other requests rebuild meanwhile.*)
(* A directory is removed, and measured, in one step: MountPipeline has    *)
(* the removal file by file.                                               *)
(***************************************************************************)
EXTENDS Eviction

CONSTANTS
  Dirs,      \* cache directories, one per cache key, numbered by name
  Evictors,  \* requests that call Evict
  Sizes,     \* sizes a directory can have
  MaxSize,   \* cache.Config.MaxSize
  MaxAge,    \* cache.Config.MaxAge
  MaxClock,  \* bound: time
  MaxReuses, \* bound: uses of a kept repository
  Absent     \* a directory that does not exist

ASSUME DirAssumption    == Dirs \subseteq Nat /\ IsFiniteSet(Dirs)
ASSUME SizeAssumption   == Sizes \subseteq Nat /\ MaxSize \in Nat
ASSUME ClockAssumption  == MaxAge \in Nat /\ MaxClock \in Nat /\ MaxReuses \in Nat
ASSUME AbsentAssumption == Absent \notin Dirs \cup [size : Sizes, time : 0..MaxClock]

VARIABLES
  disk,     \* disk[d]: size and oldest modification time of d, or Absent
  clock,    \* the time
  reuses,   \* uses of a kept repository so far
  call,     \* call[e]: the Evict that e is executing
  before,   \* history: the disk when that Evict read the cache directory
  removed,  \* history: the directories that Evict has removed by itself
  renewed,  \* history: the directories that others have rebuilt or reused since
  crossed   \* history: evictors during whose Evict another one has removed some

history == <<before, removed, renewed, crossed>>
vars    == <<disk, clock, reuses, call, history>>

Empty == [d \in Dirs |-> Absent]

Item == [dir : Dirs, size : Sizes, time : 0..MaxClock]

Idle == [pc |-> "idle", now |-> 0, names |-> {}, items |-> {}, left |-> {}, total |-> 0]

TypeOK ==
  /\ disk \in [Dirs -> [size : Sizes, time : 0..MaxClock] \cup {Absent}]
  /\ clock \in 0..MaxClock
  /\ reuses \in 0..MaxReuses
  /\ \A e \in Evictors :
       /\ call[e].pc \in {"idle", "scan", "expire", "sweep", "done"}
       /\ call[e].now \in 0..MaxClock
       /\ call[e].names \subseteq Dirs
       /\ call[e].items \subseteq Item
       /\ call[e].left \subseteq call[e].items
       /\ call[e].total \in Int
       /\ removed[e] \subseteq Dirs

Init ==
  /\ disk = Empty
  /\ clock = 0
  /\ reuses = 0
  /\ call = [e \in Evictors |-> Idle]
  /\ before = [e \in Evictors |-> Empty]
  /\ removed = [e \in Evictors |-> {}]
  /\ renewed = [e \in Evictors |-> {}]
  /\ crossed = {}

Existing(state) == {d \in Dirs : state[d] # Absent}

Running == {e \in Evictors : call[e].pc # "idle"}

\* Every Evict under way is crossed by a use of d.
Renew(d) == renewed' = [e \in Evictors |-> renewed[e] \cup (IF e \in Running THEN {d} ELSE {})]

\* os.RemoveAll, by e, for the item i.
Remove(e, i) ==
  /\ disk' = [disk EXCEPT ![i.dir] = Absent]
  /\ removed' = [removed EXCEPT ![e] = @ \cup {i.dir}]
  /\ crossed' = crossed \cup (Running \ {e})
  /\ UNCHANGED <<clock, reuses, before, renewed>>

-----------------------------------------------------------------------------

\* Another request makes a cache key, or rebuilds it, as the go-git backend does
\* at every use; no two do so at the same instant.
Rebuild(d, s) ==
  /\ \A x \in Existing(disk) : disk[x].time # clock
  /\ disk' = [disk EXCEPT ![d] = [size |-> s, time |-> clock]]
  /\ Renew(d)
  /\ UNCHANGED <<clock, reuses, call, before, removed, crossed>>

\* Another request uses a key whose repository the git backend keeps: what it
\* fetches and copies changes the size, and the oldest file stays.
Reuse(d, s) ==
  /\ reuses < MaxReuses
  /\ reuses' = reuses + 1
  /\ disk[d] # Absent /\ disk[d].size # s
  /\ disk' = [disk EXCEPT ![d].size = s]
  /\ Renew(d)
  /\ UNCHANGED <<clock, call, before, removed, crossed>>

Tick ==
  /\ clock < MaxClock
  /\ clock' = clock + 1
  /\ UNCHANGED <<disk, reuses, call, history>>

\* time.Now and os.ReadDir of the cache directory.
ReadDir(e) ==
  /\ call[e].pc = "idle"
  /\ call' = [call EXCEPT ![e] = [Idle EXCEPT !.pc = "scan", !.now = clock,
                                              !.names = Existing(disk)]]
  /\ before' = [before EXCEPT ![e] = disk]
  /\ UNCHANGED <<disk, clock, reuses, removed, renewed, crossed>>

Expired(now, time) == now - time > MaxAge

\* Mutant: the error of dirInfo is ignored, and what it returns is used.
HeedlessDirInfo(e) ==
  LET d == Min(call[e].names)
      i == IF disk[d] = Absent
           THEN [dir |-> d, size |-> 0, time |-> clock]
           ELSE [dir |-> d, size |-> disk[d].size, time |-> disk[d].time]
      m == [call[e] EXCEPT !.names = @ \ {d}, !.items = @ \cup {i}, !.total = @ + i.size]
  IN  /\ call[e].pc = "scan" /\ call[e].names # {}
      /\ call' = [call EXCEPT ![e] =
                    IF Expired(m.now, i.time) THEN [m EXCEPT !.left = {i}, !.pc = "expire"]
                                              ELSE m]
      /\ UNCHANGED <<disk, clock, reuses, history>>

\* dirInfo of the next directory in the order of os.ReadDir; one that has gone
\* is skipped, one that is too old is removed next.
DirInfo(e) ==
  LET d == Min(call[e].names)
      i == [dir |-> d, size |-> disk[d].size, time |-> disk[d].time]
      c == [call[e] EXCEPT !.names = @ \ {d}]
      m == [c EXCEPT !.items = @ \cup {i}, !.total = @ + i.size]
  IN  /\ call[e].pc = "scan" /\ call[e].names # {}
      /\ call' = [call EXCEPT ![e] =
                    CASE disk[d] = Absent -> c
                      [] disk[d] # Absent /\ Expired(c.now, i.time)
                           -> [m EXCEPT !.left = {i}, !.pc = "expire"]
                      [] OTHER -> m]
      /\ UNCHANGED <<disk, clock, reuses, history>>

\* The walk of a directory that another request is rebuilding meets a name that
\* has just gone, and fails: the directory is skipped.
DirInfoFails(e) ==
  LET d == Min(call[e].names)
  IN  /\ call[e].pc = "scan" /\ call[e].names # {} /\ d \in renewed[e]
      /\ call' = [call EXCEPT ![e].names = @ \ {d}]
      /\ UNCHANGED <<disk, clock, reuses, history>>

\* The age limit: the directory goes, its size is subtracted, the item stays.
RemoveExpired(e) ==
  \E i \in call[e].left :
    /\ call[e].pc = "expire"
    /\ Remove(e, i)
    /\ call' = [call EXCEPT ![e].left = {}, ![e].total = @ - i.size, ![e].pc = "scan"]

\* Mutant: the early return is off by one.
LenientScanDone(e) ==
  /\ call[e].pc = "scan" /\ call[e].names = {}
  /\ call' = [call EXCEPT
                ![e].pc   = IF call[e].total <= MaxSize + 1 THEN "done" ELSE "sweep",
                ![e].left = call[e].items]
  /\ UNCHANGED <<disk, clock, reuses, history>>

\* The early return, or the sort.
ScanDone(e) ==
  /\ call[e].pc = "scan" /\ call[e].names = {}
  /\ call' = [call EXCEPT
                ![e].pc   = IF call[e].total <= MaxSize THEN "done" ELSE "sweep",
                ![e].left = call[e].items]
  /\ UNCHANGED <<disk, clock, reuses, history>>

\* Mutant: the sort is the wrong way round.
YoungestFirstSweep(e) ==
  \E i \in call[e].left :
    /\ call[e].pc = "sweep" /\ call[e].total > MaxSize
    /\ \A j \in call[e].left : j.time <= i.time
    /\ Remove(e, i)
    /\ call' = [call EXCEPT ![e].left = @ \ {i}, ![e].total = @ - i.size]

\* Mutant: a removed directory is not subtracted.
UncountedSweep(e) ==
  \E i \in call[e].left :
    /\ call[e].pc = "sweep" /\ call[e].total > MaxSize
    /\ \A j \in call[e].left : i.time <= j.time
    /\ Remove(e, i)
    /\ call' = [call EXCEPT ![e].left = @ \ {i}]

\* The size limit: the oldest item goes, removed already or not.
Sweep(e) ==
  \E i \in call[e].left :
    /\ call[e].pc = "sweep" /\ call[e].total > MaxSize
    /\ \A j \in call[e].left : i.time <= j.time
    /\ Remove(e, i)
    /\ call' = [call EXCEPT ![e].left = @ \ {i}, ![e].total = @ - i.size]

SweepDone(e) ==
  /\ call[e].pc = "sweep" /\ (call[e].total <= MaxSize \/ call[e].left = {})
  /\ call' = [call EXCEPT ![e].pc = "done"]
  /\ UNCHANGED <<disk, clock, reuses, history>>

Return(e) ==
  /\ call[e].pc = "done"
  /\ call' = [call EXCEPT ![e] = Idle]
  /\ before' = [before EXCEPT ![e] = Empty]
  /\ removed' = [removed EXCEPT ![e] = {}]
  /\ renewed' = [renewed EXCEPT ![e] = {}]
  /\ crossed' = crossed \ {e}
  /\ UNCHANGED <<disk, clock, reuses>>

Evict(e) ==
  \/ ReadDir(e) \/ DirInfo(e) \/ DirInfoFails(e) \/ RemoveExpired(e)
  \/ ScanDone(e) \/ Sweep(e) \/ SweepDone(e) \/ Return(e)

Next ==
  \/ \E d \in Dirs, s \in Sizes : Rebuild(d, s) \/ Reuse(d, s)
  \/ Tick
  \/ \E e \in Evictors : Evict(e)

Spec == Init /\ [][Next]_vars

-----------------------------------------------------------------------------
(* What Evict does to the cache it found. *)

Found(e)     == Existing(before[e])
SizeOf(e)    == [d \in Found(e) |-> before[e][d].size]
Outdated(e)  == {d \in Found(e) : Expired(call[e].now, before[e][d].time)}
Older(e)     == [d \in Found(e) |-> {x \in Found(e) : before[e][x].time < before[e][d].time}]
TooOld(e)    == {i \in call[e].items : Expired(call[e].now, i.time)}
CacheSize    == Bytes([d \in Existing(disk) |-> disk[d].size], Existing(disk))
Alone(e)     == renewed[e] = {} /\ e \notin crossed

\* An Evict that nobody crosses removes exactly what Victims says, in one step
\* of MountPipeline: the two loops of the code compute that set.
AloneRemovesVictims ==
  \A e \in Evictors :
    call[e].pc = "done" /\ Alone(e)
      => disk = [d \in Dirs |->
                   IF d \in Victims(Found(e), SizeOf(e), Older(e), Outdated(e), MaxSize)
                   THEN Absent ELSE before[e][d]]

\* What an Evict leaves of the cache it found exceeds the size limit by no more than
\* the expired directories it measured, which total loses twice: by nothing, if it met
\* none.  So it is whatever others removed, rebuilt and reused meanwhile, what they
\* have renewed apart.
UnchangedFits ==
  \A e \in Evictors :
    call[e].pc = "done"
      => Bytes(SizeOf(e), {d \in Found(e) : disk[d] # Absent} \ renewed[e])
           <= MaxSize + Bytes([i \in call[e].items |-> i.size], TooOld(e))

\* Concurrent calls of Evict never add up to more than the limits ask for: what
\* any of them removes is too old, or does not fit beside what is younger.
EvictorsSpareWhatFits ==
  \A e \in Evictors : \A d \in removed[e] :
    renewed[e] = {} /\ d \notin Outdated(e)
      => Bytes(SizeOf(e), {x \in Found(e) \ Outdated(e) : x \notin Older(e)[d]}) > MaxSize

\* After an Evict that nobody crosses the cache is within its size limit.
FitsAfterEvict ==
  \A e \in Evictors : call[e].pc = "done" /\ Alone(e) => CacheSize <= MaxSize
=============================================================================
