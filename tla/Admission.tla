------------------------------- MODULE Admission -------------------------------
(***************************************************************************)
(* One pod and its Git volumes, from the admission webhook to the mounts:  *)
(* two programs decide about it, each with the policies it loaded when it  *)
(* started, while the policy file is edited and the refs on the server     *)
(* move.  Besides, POST /mount of the node plugin, which publishes a       *)
(* symbolic link to the content directory that a later mount of the same   *)
(* cache key rebuilds.  A call is one step here: MountPipeline has the     *)
(* stages of a call and their interleavings.                               *)
(***************************************************************************)
EXTENDS GoGit

CONSTANTS
  PolicyFiles,      \* contents the policy ConfigMap may have
  RemoteRepos,      \* repository texts that are remote URLs
  Namespaces,
  PodSpecs,         \* sets of volumes that a pod may have
  Posts,            \* requests to POST /mount
  TargetRoot,       \* GITCONTENT_TARGET_ROOT
  PodInfoOnMount,   \* the CSIDriver object asks for the pod's namespace
  MaxEdits          \* bound: edits of the policy file

Volumes == UNION PodSpecs

\* Where a link may be made.
LinkTargets == {Clean(p.target) : p \in {q \in Posts : AcceptsTarget(TargetRoot, q.target)}}

\* The volume attributes as they are given, a depth as <<>> or <<n>>, and whether
\* the volume is to be read-only.
Attributes ==
  [readOnly : BOOLEAN, repo : STRING, revision : Revision, kind : STRING,
   depth : Seq(Int), path : Seq(STRING), submodules : BOOLEAN, lfs : BOOLEAN,
   policy : STRING, profile : STRING]

ASSUME EditAssumption   == MaxEdits \in Nat /\ PodInfoOnMount \in BOOLEAN
ASSUME PolicyAssumption == \A f \in PolicyFiles : f \in Seq(GitContentPolicy)
ASSUME VolumeAssumption == \A v \in Volumes : v \in Attributes
ASSUME PostAssumption   == /\ TargetRoot \in Seq(STRING)
                           /\ \A p \in Posts : p.volume \in Attributes /\ p.target \in Seq(STRING)

\* One link at a time: targets lie one below the other, so that a new link removes
\* the old one, or is made in the directory that the old one leads to.
ASSUME TargetAssumption == \A s, t \in LinkTargets : IsPrefix(s, t) \/ IsPrefix(t, s)

VARIABLES
  file,      \* the policy file
  webhook,   \* policies the webhook has loaded
  plugin,    \* policies the node plugin has loaded
  server,    \* the refs on the git server
  pod,       \* the pod, and the policies it was admitted under
  mount,     \* mount[v]: what the last NodePublishVolume of v answered
  link,      \* the link that POST /mount has made, and what it leads to now
  edits      \* edits of the policy file so far

vars == <<file, webhook, plugin, server, pod, mount, link, edits>>

Loaded  == {LoadPolicies(f) : f \in PolicyFiles}
NoPod   == [phase |-> "none", namespace |-> "", volumes |-> {}, under |-> <<>>]
NoMount == [code |-> "none", under |-> <<>>, policy |-> NoPolicy, depth |-> 1,
            kind |-> "commit", shown |-> Broken]
NoLink  == [target |-> <<>>, of |-> {}, key |-> <<>>, shown |-> Broken]

TypeOK ==
  /\ file \in PolicyFiles
  /\ webhook \in Loaded
  /\ plugin \in Loaded
  /\ server \in Server
  /\ pod.phase \in {"none", "admitted", "rejected", "unreviewed"}
  /\ pod.phase # "none" => pod.volumes \in PodSpecs /\ pod.namespace \in Namespaces
  /\ DOMAIN mount = pod.volumes
  /\ \A v \in pod.volumes :
       /\ mount[v].code \in {"none", "InvalidArgument", "PermissionDenied",
                            "DeadlineExceeded", "Internal", "OK"}
       /\ mount[v].policy \in {NoPolicy} \cup DOMAIN mount[v].under
       /\ mount[v].depth \in Nat \ {0}
       /\ mount[v].shown \in Contents
       /\ mount[v].code = "OK" => mount[v].shown # Broken
  /\ link.shown \in Contents
  /\ edits \in 0..MaxEdits

Init ==
  /\ file \in PolicyFiles
  /\ webhook = LoadPolicies(file)
  /\ plugin = LoadPolicies(file)
  /\ server = [branch |-> [b \in Branches |-> 1], tag |-> [t \in Tags |-> 1],
               module |-> 1]
  /\ pod = NoPod
  /\ mount = [v \in {} |-> NoMount]
  /\ link = NoLink
  /\ edits = 0

-----------------------------------------------------------------------------
(* Parse: an attribute is a sequence that is empty if it is not there.  Whether *)
(* submodules, lfs and refreshSeconds parse is left out: both programs ask.     *)

\* validateRevision: a commit, or the name of a ref that git takes for one.
ValidRevision(rev) == rev.form # "unsafe" /\ (rev.name # "" \/ IsCommitSHA(rev))

WellFormed(v) ==
  /\ v.repo \in RemoteRepos
  /\ ValidRevision(v.revision)
  /\ AcceptsPath(v.path)
  /\ v.depth # <<>> => v.depth[1] > 0

Parse(v) == [v EXCEPT !.depth = IF @ = <<>> THEN 0 ELSE @[1], !.path = Clean(@)]

(* The webhook. *)

\* /validate looks at every volume of the pod, in the namespace of the review.
Validates(v, ns) == v.readOnly /\ WellFormed(v) /\ Allowed(webhook, ns, Parse(v))

Validate(ns, volumes) ==
  /\ pod = NoPod
  /\ pod' = [phase     |-> IF \A v \in volumes : Validates(v, ns)
                           THEN "admitted" ELSE "rejected",
             namespace |-> ns, volumes |-> volumes, under |-> webhook]
  /\ mount' = [v \in volumes |-> NoMount]
  /\ UNCHANGED <<file, webhook, plugin, server, link, edits>>

\* The webhook is optional: the chart runs it, and registers it with nobody.
Bypass(ns, volumes) ==
  /\ pod = NoPod
  /\ pod' = [phase |-> "unreviewed", namespace |-> ns, volumes |-> volumes, under |-> <<>>]
  /\ mount' = [v \in volumes |-> NoMount]
  /\ UNCHANGED <<file, webhook, plugin, server, link, edits>>

-----------------------------------------------------------------------------
(* materialize, for either caller: parse, evaluate, materialize. *)

Admits(ns, v)    == WellFormed(v) /\ Allowed(plugin, ns, Parse(v))
Governing(ns, v) == SelectPolicy(plugin, ns, v.policy)
PolicyOf(ns, v)  == plugin[Governing(ns, v)]

\* Mutant: the path is no part of the key.
RepoKey(ns, v) ==
  <<v.repo, v.revision, v.submodules, v.lfs, Profile(PolicyOf(ns, v), v)>>

\* Manager.Key: neither the revision kind nor the depth is part of it.
Key(ns, v) ==
  <<v.repo, v.revision, Clean(v.path), v.submodules, v.lfs, Profile(PolicyOf(ns, v), v)>>

\* What the link leads to once the content directory of the key is rebuilt.
Rebuild(ns, v, contents) ==
  IF link.of # {} /\ link.key = Key(ns, v) THEN [link EXCEPT !.shown = contents] ELSE link

Exports(ns, v)   == CanExport(server, Parse(v), PolicyOf(ns, v))
ContentOf(ns, v) == Exported(server, Parse(v), PolicyOf(ns, v))

\* An error before the content directory is touched, or after: the network, a
\* file that cannot be exported, a submodule, a limit.
MaterializeFails(ns, v) ==
  \/ UNCHANGED link
  \/ Exports(ns, v) /\ link' = Rebuild(ns, v, Broken)

-----------------------------------------------------------------------------
(* NodePublishVolume. *)

\* Mutant: the volume context is not asked.
DefaultNamespace == "default"

\* The namespace the kubelet tells, if the CSIDriver object asks for it.
NamespaceOfCall == IF PodInfoOnMount THEN pod.namespace ELSE "default"

Answer(v, code) ==
  mount' = [mount EXCEPT ![v] = [NoMount EXCEPT !.code = code, !.under = plugin]]

PublishInvalid(v) ==
  /\ ~v.readOnly \/ ~WellFormed(v)
  /\ Answer(v, "InvalidArgument")
  /\ UNCHANGED link

PublishDenied(v) ==
  /\ v.readOnly /\ WellFormed(v) /\ ~Admits(NamespaceOfCall, v)
  /\ Answer(v, "PermissionDenied")
  /\ UNCHANGED link

\* Whatever fails in Materialize after the policy's timeout is a deadline.
PublishFails(v) ==
  /\ v.readOnly /\ Admits(NamespaceOfCall, v)
  /\ \/ /\ MaterializeFails(NamespaceOfCall, v)
        /\ Answer(v, "Internal") \/ Answer(v, "DeadlineExceeded")
     \/ /\ Exports(NamespaceOfCall, v)
        /\ link' = Rebuild(NamespaceOfCall, v, ContentOf(NamespaceOfCall, v))
        /\ Answer(v, "Internal")

Publish(v) ==
  LET ns == NamespaceOfCall
  IN  /\ v.readOnly /\ Admits(ns, v) /\ Exports(ns, v)
      /\ link' = Rebuild(ns, v, ContentOf(ns, v))
      /\ mount' = [mount EXCEPT ![v] =
                     [code |-> "OK", under |-> plugin, policy |-> Governing(ns, v),
                      depth |-> Depth(Parse(v), PolicyOf(ns, v)),
                      kind |-> KindServed(Parse(v)), shown |-> ContentOf(ns, v)]]

\* The kubelet publishes each volume of a pod until it is mounted.
NodePublishVolume(v) ==
  /\ pod.phase \in {"admitted", "unreviewed"} /\ mount[v].code # "OK"
  /\ PublishInvalid(v) \/ PublishDenied(v) \/ PublishFails(v) \/ Publish(v)
  /\ UNCHANGED <<file, webhook, plugin, server, pod, edits>>

DeletePod ==
  /\ pod # NoPod
  /\ pod' = NoPod
  /\ mount' = [v \in {} |-> NoMount]
  /\ UNCHANGED <<file, webhook, plugin, server, link, edits>>

-----------------------------------------------------------------------------
(* POST /mount, for tools on the node: no readOnly, the namespace as given. *)

Rebuilt(p) == Rebuild(p.namespace, p.volume, ContentOf(p.namespace, p.volume))

\* The target is checked, as a text, once everything is on disk; what was there is
\* removed, and os.Symlink may fail.
NewLink(p) ==
  \/ link' = [target |-> Clean(p.target), of |-> {p.volume},
              key |-> Key(p.namespace, p.volume),
              shown |-> ContentOf(p.namespace, p.volume)]
  \/ link' = IF IsPrefix(Clean(p.target), link.target) THEN NoLink ELSE Rebuilt(p)

\* os.MkdirAll, os.RemoveAll and os.Symlink follow the link that is there: with a
\* target below it they change the directory that it leads to.
LinkInside == link' = [link EXCEPT !.shown = Broken]

Link(p) ==
  /\ AcceptsTarget(TargetRoot, p.target)
  /\ IF link.of # {} /\ IsStrictPrefix(link.target, Clean(p.target))
     THEN LinkInside
     ELSE NewLink(p)

\* A request that is refused, or fails before the content is rebuilt, changes
\* nothing; after that it may fail without a link.
PostMount(p) ==
  /\ Admits(p.namespace, p.volume) /\ Exports(p.namespace, p.volume)
  /\ MaterializeFails(p.namespace, p.volume) \/ link' = Rebuilt(p) \/ Link(p)
  /\ UNCHANGED <<file, webhook, plugin, server, pod, mount, edits>>

\* Another request evicts the content directory, whoever reads it.
Evict ==
  /\ link.of # {}
  /\ link' = [link EXCEPT !.shown = Broken]
  /\ UNCHANGED <<file, webhook, plugin, server, pod, mount, edits>>

-----------------------------------------------------------------------------
(* The world: nothing reloads the policies of a running program. *)

EditPolicies ==
  /\ edits < MaxEdits
  /\ edits' = edits + 1
  /\ file' \in PolicyFiles
  /\ UNCHANGED <<webhook, plugin, server, pod, mount, link>>

RestartWebhook ==
  /\ webhook' = LoadPolicies(file)
  /\ UNCHANGED <<file, plugin, server, pod, mount, link, edits>>

RestartPlugin ==
  /\ plugin' = LoadPolicies(file)
  /\ UNCHANGED <<file, webhook, server, pod, mount, link, edits>>

\* A commit is pushed after the commit of the submodule that it links.
Push ==
  /\ \/ \E b \in Branches : /\ server.branch[b] < server.module
                            /\ server' = [server EXCEPT !.branch[b] = @ + 1]
     \/ \E t \in Tags : /\ server.tag[t] < server.module
                        /\ server' = [server EXCEPT !.tag[t] = @ + 1]
     \/ /\ server.module < MaxCommit
        /\ server' = [server EXCEPT !.module = @ + 1]
  /\ UNCHANGED <<file, webhook, plugin, pod, mount, link, edits>>

Next ==
  \/ \E ns \in Namespaces, volumes \in PodSpecs :
       Validate(ns, volumes) \/ Bypass(ns, volumes)
  \/ \E v \in pod.volumes : NodePublishVolume(v)
  \/ DeletePod
  \/ \E p \in Posts : PostMount(p)
  \/ Evict
  \/ EditPolicies
  \/ RestartWebhook
  \/ RestartPlugin
  \/ Push

Spec == Init /\ [][Next]_vars

-----------------------------------------------------------------------------
(* What the two programs promise together. *)

Mounted(v) == mount[v].code = "OK"
Rules(v)   == mount[v].under[mount[v].policy]

\* The node plugin refuses a volume of an admitted pod only if it has other
\* policies than the webhook had: Parse and Evaluate see the same attributes and
\* the same namespace on both ways.
AdmittedIsNotRefused ==
  pod.phase = "admitted" => \A v \in pod.volumes :
    /\ mount[v].code # "InvalidArgument"
    /\ mount[v].code = "PermissionDenied" => mount[v].under # pod.under

\* Under a policy that requires pinned commits a volume is the commit that its
\* revision names, however refs move and whatever revisionKind says: what
\* checkRevisionPolicy takes for a commit, resolveHash takes for that commit.
PinnedServesNamed ==
  \A v \in pod.volumes :
    Mounted(v) /\ Rules(v).revisions.requirePinnedCommit
      => IsCommitSHA(v.revision) /\ mount[v].shown.commit = v.revision.commit

\* A volume shows the directory that its path leads to from the root of the
\* repository, no path that leads out of it, or to .git, is mounted, and what the
\* attributes may say the backend does not refuse: the cleaning and the checks of
\* normalizeRepoPath and those of the backend add up to one walk.
PathIsWalked ==
  \A v \in pod.volumes :
    /\ WellFormed(v) => GuardsPath(Parse(v).path)
    /\ Mounted(v) => /\ StaysInside(v.path)
                     /\ mount[v].shown.path = Reached(v.path)
                     /\ ".git" \notin Segments(Reached(v.path))

\* A volume of a whole repository with submodules shows the commit that the
\* repository links, as long as the submodule has not moved further from it than
\* the policy's depth: cloneAndExport falls back to HEAD only beyond.
ModuleIsLinked ==
  \A v \in pod.volumes :
    Mounted(v) /\ v.submodules /\ Reached(v.path) = <<>>
      => LET linked == mount[v].shown.commit
         IN  server.module - linked < Rules(v).submodules.maxDepth
               => mount[v].shown.module = linked

\* A volume that follows a branch is mounted only if its policy allows branches,
\* and this one: whatever go-git clones as a branch has been checked as a branch.
\* All but a tag whose name is HEAD in any case: it is checked as a tag, and the
\* clone is not told it.
BranchIsAllowed ==
  \A v \in pod.volumes :
    Mounted(v) /\ mount[v].kind = "branch"
      /\ ~ (IsTag(v.revision) /\ v.revision.name \in HeadNames)
      => LET rp == Rules(v).revisions
         IN  /\ rp.allowBranches
             /\ rp.branchPatterns # {} => MatchesAny(rp.branchPatterns, v.revision)

\* No clone is deeper than its policy's limit, 10 if the file sets none, unless
\* the policy's own default is: applyPolicyDefaults leaves no limit unset.
DepthIsLimited ==
  \A v \in pod.volumes :
    Mounted(v) => /\ Rules(v).maxDepth > 0
                  /\ \/ mount[v].depth <= Rules(v).maxDepth
                     \/ mount[v].depth = Rules(v).defaultDepth

\* The link of POST /mount shows the directory it was made for, and the commit it
\* was made for if that is pinned, however often the key is rebuilt under it: Key
\* has both.
LinkShowsNamed ==
  \A v \in link.of :
    link.shown # Broken =>
      /\ link.shown.path = Reached(v.path)
      /\ IsCommitSHA(v.revision) => link.shown.commit = v.revision.commit
=============================================================================
