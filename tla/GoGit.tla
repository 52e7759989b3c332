--------------------------------- MODULE GoGit ----------------------------------
(***************************************************************************)
(* What a Materialize of the go-git backend (the default) makes of the     *)
(* parsed attributes "v" of a volume, given the refs of the server and the *)
(* policy: the ref it clones, the commit it serves, the directory of it,   *)
(* and the commit of the submodule.  Commits are numbered in the order in  *)
(* which they are pushed; commit c of the repository links commit c of the *)
(* submodule.                                                              *)
(***************************************************************************)
EXTENDS Policy, Paths

CONSTANTS
  Branches, Tags,   \* names of the refs on the git server
  DefaultBranch,
  HeadNames,        \* names that are HEAD, in upper or lower case
  TagKinds,         \* kinds of a revision that contain "tag"
  Directories,      \* directories of the repository, as cleaned paths
  MaxCommit         \* bound: commits a ref goes through

Commits == 1..MaxCommit

ASSUME RefAssumption  == DefaultBranch \in Branches /\ <<>> \in Directories
ASSUME NameAssumption == /\ "HEAD" \in HeadNames /\ {"", "whole text"} \cap HeadNames = {}
                         /\ "tag" \in TagKinds /\ {"", "branch"} \cap TagKinds = {}
ASSUME SizeAssumption == MaxCommit \in Nat \ {0}

Server == [branch : [Branches -> Commits], tag : [Tags -> Commits], module : Commits]

-----------------------------------------------------------------------------
(* The revision. *)

\* A revision text, prefix and all, where the code wants the name of a ref: no
\* ref of the server has such a name.
WholeText == "whole text"

\* mutableRef: "" stands for a pinned commit.
MutableRef(v) ==
  CASE v.kind = "tag"    -> IF v.revision.form \in {"tag", "bare"}
                            THEN v.revision.name ELSE WholeText
    [] v.kind = "branch" -> IF v.revision.form \in {"branch", "bare"}
                            THEN v.revision.name ELSE WholeText
    [] OTHER             -> IF IsCommitSHA(v.revision) THEN "" ELSE v.revision.name

RefKind(v) == IF v.kind \in TagKinds \/ IsTag(v.revision) THEN "tag" ELSE "branch"

\* For a pinned commit, or HEAD however it is written, the clone gets no reference
\* name: it has all branches, and the HEAD of the server.
ClonesAll(v) == MutableRef(v) \in {""} \cup HeadNames
RefExists(v) == MutableRef(v) \in IF RefKind(v) = "tag" THEN Tags ELSE Branches

Tip(server, v) == IF ClonesAll(v) THEN server.branch[DefaultBranch]
                  ELSE server[RefKind(v)][MutableRef(v)]

\* Depth 0 is a full clone.
Behind(tip, depth) == {c \in Commits : c <= tip /\ (depth = 0 \/ tip - depth < c)}

Tips(server, v) == IF ClonesAll(v) THEN {server.branch[b] : b \in Branches}
                   ELSE {Tip(server, v)}

\* go-git brings all tags of the server besides.
Cloned(server, v, depth) ==
  IF ClonesAll(v) \/ RefExists(v)
  THEN UNION {Behind(tip, depth) : tip \in Tips(server, v) \cup {server.tag[t] : t \in Tags}}
  ELSE {}

\* Mutant: whatever the revision, HEAD of the clone.
ResolvesHead(server, v) == Tip(server, v)

\* resolveHash: a pinned commit, or HEAD of the clone.
ResolveHash(server, v) ==
  IF IsCommitSHA(v.revision) THEN v.revision.commit ELSE Tip(server, v)

KindServed(v) == IF IsCommitSHA(v.revision) THEN "commit"
                 ELSE IF ClonesAll(v) THEN "branch" ELSE RefKind(v)

Depth(v, p) == IF v.depth = 0 THEN p.defaultDepth ELSE v.depth

-----------------------------------------------------------------------------
(* The content directory. *)

\* .gitmodules is looked for in the tree that is exported: a volume of a
\* directory has no submodule, whatever it asks for.
HasModule(v) == v.submodules /\ v.path = <<>>

\* Mutant: the submodule is its HEAD.
ModuleHead(server, v, p) == IF HasModule(v) THEN server.module ELSE 0

\* The submodule is cloned to the depth of the policy: the commit that is linked,
\* or HEAD if that one is too deep.
Module(server, v, p) ==
  LET linked == ResolveHash(server, v)
  IN  CASE ~HasModule(v) -> 0
        [] HasModule(v) /\ linked \in Behind(server.module, p.submodules.maxDepth) -> linked
        [] OTHER -> server.module

\* Broken: none, a part, or more than what was exported.
Broken   == [commit |-> 0, path |-> <<>>, module |-> 0]
Contents == [commit : Commits, path : Directories, module : Commits \cup {0}] \cup {Broken}

\* Materialize touches the content directory once the commit has come with the
\* clone and has the directory.
CanExport(server, v, p) ==
  /\ Cloned(server, v, Depth(v, p)) # {}
  /\ ResolveHash(server, v) \in Cloned(server, v, Depth(v, p))
  /\ GuardsPath(v.path)
  /\ Clean(v.path) \in Directories

Exported(server, v, p) ==
  [commit |-> ResolveHash(server, v), path |-> Clean(v.path), module |-> Module(server, v, p)]
=============================================================================
