-------------------------------- MODULE Policy ---------------------------------
(***************************************************************************)
(* The policy evaluator that the admission webhook and the node plugin     *)
(* share: which policy of a list governs a request, and whether it allows  *)
(* it.                                                                     *)
(*                                                                         *)
(* Strings are told apart by what the code reads off them.  A glob or a    *)
(* regular expression is the set of values it matches (one that does not   *)
(* compile matches none); a revision is a record whose form is "sha",      *)
(* "tag" or "branch" (by its prefix) or "bare".  Which of several reasons  *)
(* for a denial is reported is left out.                                   *)
(***************************************************************************)
EXTENDS Integers, Sequences

CONSTANT HostFromRepo    \* the host of each repository URL

-----------------------------------------------------------------------------
(* The records of types.go, as far as the decisions read them. *)

Revision == [form : {"sha", "tag", "branch", "bare", "unsafe"}, name : STRING, commit : Nat]

Patterns(S) == SUBSET SUBSET S

RevisionPolicy == [requirePinnedCommit : BOOLEAN, allowBranches : BOOLEAN,
                   allowTags : BOOLEAN, branchPatterns : Patterns(Revision),
                   tagPatterns : Patterns(Revision)]

SubmodulePolicy == [enabled : BOOLEAN, maxDepth : Int]

GitContentPolicy ==
  [name : STRING, namespaces : SUBSET STRING,
   repositories : Patterns(STRING), hosts : SUBSET STRING, revisions : RevisionPolicy,
   defaultDepth : Int, maxDepth : Int,
   submodules : SubmodulePolicy, lfs : BOOLEAN,
   defaultProfile : STRING, profiles : SUBSET STRING]

-----------------------------------------------------------------------------
(* The matching of patterns. *)

MatchesAny(patterns, value) == \E pattern \in patterns : value \in pattern

-----------------------------------------------------------------------------
(* checkRevisionPolicy. *)

IsCommitSHA(rev) == rev.form = "sha"
IsTag(rev)       == rev.form = "tag"

\* Mutant: only a prefix makes a branch.
IsPrefixedBranch(rev) == rev.form = "branch"

\* What is neither a commit nor a tag is a branch.
IsBranch(rev) == ~IsCommitSHA(rev) /\ ~IsTag(rev)

RevisionAllowed(rev, rp) ==
  /\ rp.requirePinnedCommit => IsCommitSHA(rev)
  /\ IsBranch(rev) => rp.allowBranches \/ rp.requirePinnedCommit
  /\ IsTag(rev)    => rp.allowTags \/ rp.requirePinnedCommit
  /\ IsBranch(rev) /\ rp.branchPatterns # {} => MatchesAny(rp.branchPatterns, rev)
  /\ IsTag(rev)    /\ rp.tagPatterns # {}    => MatchesAny(rp.tagPatterns, rev)

-----------------------------------------------------------------------------
(* Evaluate. *)

\* The first policy of the list for the namespace, and of the name, if any.
Governs(p, ns, name) ==
  /\ name = "" \/ p.name = name
  /\ p.namespaces = {} \/ ns \in p.namespaces

NoPolicy == 0

SelectPolicy(policies, ns, name) ==
  LET governing == {i \in DOMAIN policies : Governs(policies[i], ns, name)}
  IN  IF governing = {} THEN NoPolicy
      ELSE CHOOSE i \in governing : \A j \in governing : i <= j

Profile(p, req) == IF req.profile = "" THEN p.defaultProfile ELSE req.profile

Permits(p, req) ==
  /\ MatchesAny(p.repositories, req.repo)
  /\ HostFromRepo[req.repo] \in p.hosts
  /\ req.submodules => p.submodules.enabled
  /\ req.lfs => p.lfs
  /\ req.depth > 0 /\ p.maxDepth > 0 => req.depth <= p.maxDepth
  /\ RevisionAllowed(req.revision, p.revisions)
  /\ Profile(p, req) # "" => Profile(p, req) \in p.profiles

Allowed(policies, ns, req) ==
  LET i == SelectPolicy(policies, ns, req.policy)
  IN  i # NoPolicy /\ Permits(policies[i], req)

-----------------------------------------------------------------------------
(* LoadPolicies. *)

\* A limit that is not set, or makes no sense, takes its default.
Default(value, default) == IF value <= 0 THEN default ELSE value

\* Mutant: no default for the depth.
NoDefaultDepth(p) == [p EXCEPT !.maxDepth = Default(@, 10),
                               !.submodules.maxDepth = Default(@, 1)]

\* Mutant: no default for the limit of the depth.
NoMaxDepth(p) == [p EXCEPT !.defaultDepth = Default(@, 1),
                           !.submodules.maxDepth = Default(@, 1)]

\* The other limits have defaults by the same rule.
ApplyPolicyDefaults(p) ==
  [p EXCEPT !.defaultDepth = Default(@, 1),
            !.maxDepth     = Default(@, 10),
            !.submodules.maxDepth = Default(@, 1)]

LoadPolicies(file) == [i \in DOMAIN file |-> ApplyPolicyDefaults(file[i])]
=============================================================================
