---------------------------- MODULE MCCacheEviction ----------------------------
(* Small instances of CacheEviction. *)
EXTENDS CacheEviction, TLC

CONSTANTS e1, e2

Symmetric == Permutations({e1, e2})
=============================================================================
