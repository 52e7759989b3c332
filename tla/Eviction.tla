------------------------------- MODULE Eviction -------------------------------
(***************************************************************************)
(* What one call of Manager.Evict (pkg/cache/cache.go) decides to remove.  *)
(* The cache directories it scanned are "items"; size[d] is what dirInfo   *)
(* measured for d, older[d] the items whose oldest entry is older than     *)
(* d's, expired the items older than the maximum age.                      *)
(***************************************************************************)
EXTENDS Integers, FiniteSetsExt

\* Total size of a set of directories.
Bytes(size, dirs) == MapThenSumSet(LAMBDA d : size[d], dirs)

\* "total" after the age loop: an expired directory is added, then subtracted.
LeftAfterAging(items, size, expired) == Bytes(size, items) - Bytes(size, expired)

\* Mutant: total is compared after the subtraction.
LateSizeVictims(items, size, older, expired, maxSize) ==
  LET left == LeftAfterAging(items, size, expired)
  IN  {d \in items : left - Bytes(size, older[d] \cap items) - size[d] > maxSize}

\* The size loop visits every item, oldest first, the expired ones included,
\* and stops at the first one that finds total <= MaxSize.  An expired item
\* is subtracted from total a second time when the loop passes it.
SizeVictims(items, size, older, expired, maxSize) ==
  LET left == LeftAfterAging(items, size, expired)
  IN  {d \in items : left - Bytes(size, older[d] \cap items) > maxSize}

\* Everything one call removes.
Victims(items, size, older, expired, maxSize) ==
  expired \cup SizeVictims(items, size, older, expired, maxSize)
=============================================================================
