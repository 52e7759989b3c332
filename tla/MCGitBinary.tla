------------------------------ MODULE MCGitBinary ------------------------------
(* Small instances of GitBinary. *)
EXTENDS GitBinary

CONSTANTS h1, h2    \* model values
=============================================================================
