---------------------------- MODULE MCMountPipeline ----------------------------
(* Small instances of MountPipeline. *)
EXTENDS MountVolumes, TLC

CONSTANTS h1, h2, t1, t2, k1, k2

\* Every target has a cache key of its own.
OwnKeys == (t1 :> k1) @@ (t2 :> k2)

\* Two pods mount the same repository, revision and path.
SameKey == (t1 :> k1) @@ (t2 :> k1)

OneTarget == t1 :> k1

Symmetric == Permutations({h1, h2})

Swapped == (t1 :> t2) @@ (t2 :> t1) @@ (k1 :> k2) @@ (k2 :> k1)
SymmetricVolumes == Symmetric \cup {Swapped}
=============================================================================
