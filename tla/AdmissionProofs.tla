---------------------------- MODULE AdmissionProofs -----------------------------
(***************************************************************************)
(* Proofs about Admission: for any policy files, pods, requests and refs,  *)
(* what the two programs admit, and what is mounted under which policy.    *)
(***************************************************************************)
EXTENDS Admission, PathsProofs

-----------------------------------------------------------------------------
(* The inductive invariant. *)

PodType ==
  {NoPod} \cup [phase : {"admitted", "rejected", "unreviewed"}, namespace : Namespaces,
                volumes : PodSpecs, under : {<<>>} \cup Loaded]

MountType ==
  [code : {"none", "InvalidArgument", "PermissionDenied", "DeadlineExceeded", "Internal", "OK"},
   under : {<<>>} \cup Loaded, policy : Nat, depth : Nat \ {0},
   kind : {"commit", "branch", "tag"}, shown : Contents]

Types ==
  /\ TypeOK
  /\ pod \in PodType
  /\ mount \in [pod.volumes -> MountType]
  /\ link = [target |-> link.target, of |-> link.of, key |-> link.key, shown |-> link.shown]

\* No ref has a commit whose submodule is not pushed yet.
ModuleIsFirst ==
  /\ \A b \in Branches : server.branch[b] <= server.module
  /\ \A t \in Tags : server.tag[t] <= server.module

\* A pod is admitted by the policies that are remembered.
PodIsReviewed ==
  pod.phase = "admitted" =>
    \A v \in pod.volumes :
      v.readOnly /\ WellFormed(v) /\ Allowed(pod.under, pod.namespace, Parse(v))

\* A refusal has the reason that its code tells.
RefusalHasReason(v) ==
  /\ mount[v].code = "InvalidArgument" => ~ v.readOnly \/ ~ WellFormed(v)
  /\ mount[v].code = "PermissionDenied" =>
       ~ Allowed(mount[v].under, NamespaceOfCall, Parse(v))

\* A content directory of v that is not broken, as far as the attributes tell it.
ShowsNamed(v, shown) ==
  /\ shown.path = Clean(Clean(v.path))
  /\ IsCommitSHA(v.revision) => shown.commit = v.revision.commit

\* What is mounted was permitted, and was exported then.
MountIsPermitted(v) ==
  mount[v].code = "OK" =>
    /\ mount[v].under \in Loaded /\ mount[v].policy \in DOMAIN mount[v].under
    /\ WellFormed(v) /\ Permits(Rules(v), Parse(v))
    /\ mount[v].kind = KindServed(Parse(v))
    /\ mount[v].depth = Depth(Parse(v), Rules(v))
    /\ ShowsNamed(v, mount[v].shown)
    /\ mount[v].shown.commit <= server.module
    /\ HasModule(Parse(v))
         /\ server.module - mount[v].shown.commit < Rules(v).submodules.maxDepth
           => mount[v].shown.module = mount[v].shown.commit

\* The link has the key of the request it was made for.
LinkIsKeyed ==
  link.of # {} =>
    \E p \in Posts :
      /\ link.of = {p.volume} /\ WellFormed(p.volume)
      /\ link.key[2] = p.volume.revision /\ link.key[3] = Clean(p.volume.path)
      /\ link.shown # Broken => ShowsNamed(p.volume, link.shown)

\* All of it.
IInv ==
  /\ Types
  /\ ModuleIsFirst
  /\ PodIsReviewed
  /\ \A v \in pod.volumes : RefusalHasReason(v) /\ MountIsPermitted(v)
  /\ LinkIsKeyed

-----------------------------------------------------------------------------
(* Policies. *)

\* A list of policies that has been loaded is numbered, and its limits are set:
\* applyPolicyDefaults.
LEMMA LoadedLimits ==
  ASSUME NEW policies \in Loaded, NEW i \in DOMAIN policies
  PROVE  /\ i \in Nat
         /\ policies[i].maxDepth \in Nat \ {0}
         /\ policies[i].defaultDepth \in Nat \ {0}
         /\ policies[i].submodules.maxDepth \in Nat \ {0}
<1>1. PICK f \in PolicyFiles : policies = LoadPolicies(f)
  BY DEF Loaded
<1>2. f \in Seq(GitContentPolicy)
  BY PolicyAssumption
<1>3. i \in DOMAIN f /\ policies[i] = ApplyPolicyDefaults(f[i])
  BY <1>1 DEF LoadPolicies
<1>4. i \in Nat /\ f[i] \in GitContentPolicy
  BY <1>2, <1>3
<1> DEFINE p == f[i]
<1>5. /\ p \in GitContentPolicy
      /\ p.maxDepth \in Int /\ p.defaultDepth \in Int /\ p.submodules \in SubmodulePolicy
  BY <1>4 DEF GitContentPolicy
<1>6. p.submodules.maxDepth \in Int
  BY <1>5 DEF SubmodulePolicy
<1> HIDE DEF p
<1>7. policies[i] = ApplyPolicyDefaults(p)
  BY <1>3 DEF p
<1>8. /\ policies[i].maxDepth = Default(p.maxDepth, 10)
      /\ policies[i].defaultDepth = Default(p.defaultDepth, 1)
      /\ policies[i].submodules.maxDepth = Default(p.submodules.maxDepth, 1)
  BY <1>5, <1>7 DEF ApplyPolicyDefaults, GitContentPolicy, SubmodulePolicy
<1>9. \A x \in Int, d \in {1, 10} : Default(x, d) \in Nat \ {0}
  BY DEF Default
<1> QED
  BY <1>4, <1>5, <1>6, <1>8, <1>9

\* Evaluate finds a policy of the list, or none.
LEMMA SelectType ==
  ASSUME NEW policies \in Loaded, NEW ns, NEW name
  PROVE  SelectPolicy(policies, ns, name) \in {NoPolicy} \cup DOMAIN policies
<1> DEFINE governing == {i \in DOMAIN policies : Governs(policies[i], ns, name)}
<1>1. CASE governing = {}
  BY <1>1 DEF SelectPolicy
<1>2. CASE governing # {}
  <2>1. governing \in SUBSET Nat
    BY LoadedLimits
  <2>2. \E i \in governing : \A j \in governing : i <= j
    <3> HIDE DEF governing
    <3> QED
      BY <1>2, <2>1, LeastExists
  <2>3. SelectPolicy(policies, ns, name) \in governing
    BY <1>2, <2>2 DEF SelectPolicy
  <2> QED
    BY <2>3
<1> QED
  BY <1>1, <1>2

\* What is allowed is permitted by the policy that governs it.
LEMMA AllowedPermits ==
  ASSUME NEW policies \in Loaded, NEW ns, NEW req, Allowed(policies, ns, req)
  PROVE  /\ SelectPolicy(policies, ns, req.policy) \in DOMAIN policies
         /\ Permits(policies[SelectPolicy(policies, ns, req.policy)], req)
  BY SelectType DEF Allowed

\* selectPolicy takes the first that governs, and only that.
LEMMA FirstIsSelected ==
  ASSUME NEW n \in Nat, NEW policies, DOMAIN policies = 1..n, NEW ns, NEW name,
         NEW i \in 1..n, Governs(policies[i], ns, name),
         \A k \in 1..(i - 1) : ~ Governs(policies[k], ns, name)
  PROVE  SelectPolicy(policies, ns, name) = i
<1> DEFINE governing == {k \in DOMAIN policies : Governs(policies[k], ns, name)}
<1>1. i \in governing /\ governing \subseteq Int
  OBVIOUS
<1>2. \A j \in governing : i <= j
  OBVIOUS
<1> HIDE DEF governing
<1>3. \A j \in governing : (\A k \in governing : j <= k) => j = i
  BY <1>1, <1>2
<1>4. (CHOOSE j \in governing : \A k \in governing : j <= k) = i
  BY <1>1, <1>2, <1>3
<1>5. SelectPolicy(policies, ns, name)
        = IF governing = {} THEN NoPolicy
          ELSE CHOOSE j \in governing : \A k \in governing : j <= k
  BY DEF SelectPolicy, governing
<1> QED
  BY <1>1, <1>4, <1>5

\* The elements of a sequence from which one is removed.
LEMMA RemoveAtElements ==
  ASSUME NEW S, NEW s \in Seq(S), NEW j \in 1..Len(s)
  PROVE  /\ RemoveAt(s, j) \in Seq(S) /\ Len(RemoveAt(s, j)) = Len(s) - 1
         /\ \A i \in 1..(j - 1) : RemoveAt(s, j)[i] = s[i]
         /\ \A i \in j..(Len(s) - 1) : RemoveAt(s, j)[i] = s[i + 1]
<1> DEFINE front == SubSeq(s, 1, j - 1)
<1> DEFINE back  == SubSeq(s, j + 1, Len(s))
<1>1. Len(s) \in Nat
  OBVIOUS
<1>2. /\ front \in Seq(S) /\ Len(front) = j - 1
      /\ \A i \in 1..(j - 1) : front[i] = s[i]
  BY <1>1
<1>3. /\ back \in Seq(S) /\ Len(back) = Len(s) - j
      /\ \A i \in 1..(Len(s) - j) : back[i] = s[i + j]
  BY <1>1
<1>4. RemoveAt(s, j) = front \o back
  BY DEF RemoveAt
<1> HIDE DEF front, back
<1>5. /\ front \o back \in Seq(S) /\ Len(front \o back) = Len(front) + Len(back)
      /\ \A i \in 1..(Len(front) + Len(back)) :
           (front \o back)[i] = IF i <= Len(front) THEN front[i] ELSE back[i - Len(front)]
  BY <1>2, <1>3, ConcatProperties
<1>6. ASSUME NEW i \in 1..(j - 1)
      PROVE  (front \o back)[i] = s[i]
  BY <1>1, <1>2, <1>3, <1>5
<1>7. ASSUME NEW i \in j..(Len(s) - 1)
      PROVE  (front \o back)[i] = s[i + 1]
  <2>1. /\ i \in 1..(Len(front) + Len(back)) /\ ~ (i <= Len(front))
        /\ i - Len(front) \in 1..(Len(s) - j) /\ (i - Len(front)) + j = i + 1
    BY <1>1, <1>2, <1>3
  <2>2. (front \o back)[i] = back[i - Len(front)]
    BY <1>5, <2>1
  <2> QED
    BY <1>3, <2>1, <2>2
<1>8. Len(front) + Len(back) = Len(s) - 1
  BY <1>1, <1>2, <1>3
<1> QED
  BY <1>4, <1>5, <1>6, <1>7, <1>8

\* Only the first policy of a list that has the namespace, and the name if one is
\* asked for, decides about a request: take any other policy out of the list, or put
\* it in, and evaluation answers the same.  So a policy for other namespaces, or one
\* behind a policy that governs already, neither opens nor closes anything.
THEOREM OthersDoNotDecide ==
  ASSUME NEW list \in Seq(GitContentPolicy), NEW j \in DOMAIN list, NEW ns, NEW req,
         Governs(list[j], ns, req.policy)
           => \E i \in 1..(j - 1) : Governs(list[i], ns, req.policy)
  PROVE  Allowed(LoadPolicies(RemoveAt(list, j)), ns, req) <=> Allowed(LoadPolicies(list), ns, req)
<1> DEFINE rest   == RemoveAt(list, j)
<1> DEFINE all    == LoadPolicies(list)
<1> DEFINE others == LoadPolicies(rest)
<1> DEFINE G(p)   == Governs(p, ns, req.policy)
<1>1. Len(list) \in Nat \ {0} /\ j \in 1..Len(list)
  OBVIOUS
<1>2. rest \in Seq(GitContentPolicy) /\ Len(rest) = Len(list) - 1
  BY <1>1, RemoveAtElements
<1>3. /\ \A i \in 1..(j - 1) : rest[i] = list[i]
      /\ \A i \in j..(Len(list) - 1) : rest[i] = list[i + 1]
  BY <1>1, RemoveAtElements
<1>4. /\ DOMAIN all = 1..Len(list) /\ DOMAIN others = 1..(Len(list) - 1)
      /\ \A i \in 1..Len(list) : all[i] = ApplyPolicyDefaults(list[i])
      /\ \A i \in 1..Len(rest) : others[i] = ApplyPolicyDefaults(rest[i])
  BY <1>1, <1>2 DEF LoadPolicies
<1>5. \A p \in GitContentPolicy : G(ApplyPolicyDefaults(p)) <=> G(p)
  <2> SUFFICES ASSUME NEW p \in GitContentPolicy
               PROVE  /\ ApplyPolicyDefaults(p).name = p.name
                      /\ ApplyPolicyDefaults(p).namespaces = p.namespaces
    BY DEF Governs
  <2> QED
    BY DEF ApplyPolicyDefaults, GitContentPolicy
<1>6. \A i \in 1..Len(list) : G(all[i]) <=> G(list[i])
  BY <1>4, <1>5
<1>7. /\ \A i \in 1..(j - 1) : others[i] = all[i]
      /\ \A i \in j..(Len(list) - 1) : others[i] = all[i + 1]
  <2> SUFFICES ASSUME NEW i \in 1..(Len(list) - 1)
               PROVE  others[i] = IF i < j THEN all[i] ELSE all[i + 1]
    BY <1>1
  <2>1. i \in 1..Len(list) /\ i + 1 \in 1..Len(list) /\ i \in 1..Len(rest)
    BY <1>1, <1>2
  <2>2. others[i] = ApplyPolicyDefaults(rest[i])
    BY <1>4, <2>1
  <2>3. CASE i < j
    BY <1>1, <1>3, <1>4, <2>1, <2>2, <2>3
  <2>4. CASE i >= j
    BY <1>1, <1>3, <1>4, <2>1, <2>2, <2>4
  <2> QED
    BY <1>1, <2>3, <2>4
<1>8. G(all[j]) => \E i \in 1..(j - 1) : G(all[i])
  BY <1>1, <1>6
<1> HIDE DEF all, others, rest
<1>9. CASE \A i \in 1..Len(list) : ~ G(all[i])
  <2>1. \A i \in 1..(Len(list) - 1) : ~ G(others[i])
    BY <1>1, <1>2, <1>7, <1>9
  <2>2. /\ {i \in DOMAIN all : Governs(all[i], ns, req.policy)} = {}
        /\ {i \in DOMAIN others : Governs(others[i], ns, req.policy)} = {}
    BY <1>4, <1>9, <2>1
  <2>3. SelectPolicy(all, ns, req.policy) = NoPolicy /\ SelectPolicy(others, ns, req.policy) = NoPolicy
    BY <2>2 DEF SelectPolicy
  <2> QED
    BY <2>3 DEF Allowed, all, others, rest
<1>10. CASE \E i \in 1..Len(list) : G(all[i])
  <2> DEFINE governing == {i \in 1..Len(list) : G(all[i])}
  <2>1. governing # {} /\ governing \in SUBSET Nat
    BY <1>10
  <2> HIDE DEF governing
  <2>2. PICK i \in governing : \A k \in governing : i <= k
    BY <2>1, LeastExists
  <2> USE DEF governing
  <2>3. i \in 1..Len(list) /\ G(all[i]) /\ \A k \in 1..(i - 1) : ~ G(all[k])
    BY <1>1, <2>2
  <2>4. SelectPolicy(all, ns, req.policy) = i
    BY <1>1, <1>4, <2>3, FirstIsSelected
  <2>5. i # j
    BY <1>1, <1>8, <2>3
  <2> DEFINE m == IF i < j THEN i ELSE i - 1
  <2>6. m \in 1..(Len(list) - 1) /\ others[m] = all[i] /\ G(others[m])
    BY <1>1, <1>2, <1>7, <2>3, <2>5
  <2>7. \A k \in 1..(m - 1) : ~ G(others[k])
    <3> SUFFICES ASSUME NEW k \in 1..(m - 1)
                 PROVE  ~ G(others[k])
      OBVIOUS
    <3>1. CASE k < j
      BY <1>1, <1>2, <1>7, <2>3, <2>5, <3>1
    <3>2. CASE k >= j
      BY <1>1, <1>2, <1>7, <2>3, <2>5, <3>2
    <3> QED
      BY <1>1, <2>3, <3>1, <3>2
  <2>8. Len(list) - 1 \in Nat
    BY <1>1
  <2> HIDE DEF m
  <2>9. SelectPolicy(others, ns, req.policy) = m
    BY <1>4, <2>6, <2>7, <2>8, FirstIsSelected
  <2>10. i # NoPolicy /\ m # NoPolicy
    BY <2>3, <2>6 DEF NoPolicy
  <2> QED
    BY <2>4, <2>6, <2>9, <2>10 DEF Allowed, all, others, rest
<1> QED
  BY <1>9, <1>10

-----------------------------------------------------------------------------
(* Attributes. *)

\* Parse changes the depth and the path of the attributes, and nothing else.
LEMMA ParseFields ==
  ASSUME NEW v \in Attributes
  PROVE  /\ Parse(v).repo = v.repo /\ Parse(v).revision = v.revision
         /\ Parse(v).kind = v.kind /\ Parse(v).submodules = v.submodules
         /\ Parse(v).lfs = v.lfs /\ Parse(v).policy = v.policy
         /\ Parse(v).profile = v.profile
         /\ Parse(v).depth = (IF v.depth = <<>> THEN 0 ELSE v.depth[1])
         /\ Parse(v).path = Clean(v.path)
         /\ v.revision \in Revision
  BY DEF Parse, Attributes

\* A depth that is accepted is a depth.
LEMMA ParsedDepth ==
  ASSUME NEW v \in Attributes, WellFormed(v)
  PROVE  Parse(v).depth \in Nat
<1>1. v.depth \in Seq(Int)
  BY DEF Attributes
<1>2. CASE v.depth = <<>>
  BY <1>2, ParseFields
<1>3. CASE v.depth # <<>>
  <2>1. v.depth[1] \in Int /\ v.depth[1] > 0
    BY <1>1, <1>3 DEF WellFormed
  <2> QED
    BY <1>3, <2>1, ParseFields
<1> QED
  BY <1>2, <1>3

\* A depth that is permitted is within the limit.
LEMMA PermittedDepth ==
  ASSUME NEW p, NEW req, Permits(p, req), req.depth > 0, p.maxDepth > 0
  PROVE  req.depth <= p.maxDepth
BY DEF Permits

\* The volumes of a pod are attributes.
LEMMA PodVolume ==
  ASSUME Types, NEW v \in pod.volumes
  PROVE  v \in Attributes
<1>1. CASE pod = NoPod
  BY <1>1 DEF NoPod
<1>2. CASE pod # NoPod
  <2>1. pod.volumes \in PodSpecs
    BY <1>2 DEF Types, PodType
  <2> QED
    BY <2>1, VolumeAssumption DEF Volumes
<1> QED
  BY <1>1, <1>2

\* Whatever is cloned is what its revision is taken for.
LEMMA ServedType ==
  ASSUME NEW v
  PROVE  KindServed(v) \in {"commit", "branch", "tag"}
  BY DEF KindServed, RefKind

-----------------------------------------------------------------------------
(* The content directory. *)

\* What can be exported is a commit that the clone has.
LEMMA ExportedCommit ==
  ASSUME NEW srv \in Server, NEW v, NEW p, CanExport(srv, v, p),
         \A b \in Branches : srv.branch[b] <= srv.module,
         \A t \in Tags : srv.tag[t] <= srv.module
  PROVE  ResolveHash(srv, v) \in Commits /\ ResolveHash(srv, v) <= srv.module
<1> DEFINE c == ResolveHash(srv, v)
<1> HIDE DEF c
<1>1. c \in Cloned(srv, v, Depth(v, p))
  BY DEF CanExport, c
<1>2. /\ \A b \in Branches : srv.branch[b] \in Commits
      /\ \A t \in Tags : srv.tag[t] \in Commits
      /\ srv.module \in Commits
  BY DEF Server
<1>3. \E tip \in Commits : tip <= srv.module /\ c \in Behind(tip, Depth(v, p))
  <2>1. /\ ClonesAll(v) \/ RefExists(v)
        /\ \E tip \in Tips(srv, v) \cup {srv.tag[t] : t \in Tags} : c \in Behind(tip, Depth(v, p))
    BY <1>1 DEF Cloned
  <2>2. \A tip \in {srv.tag[t] : t \in Tags} : tip \in Commits /\ tip <= srv.module
    BY <1>2
  <2>3. CASE ClonesAll(v)
    <3>1. \A tip \in Tips(srv, v) : tip \in Commits /\ tip <= srv.module
      BY <1>2, <2>3 DEF Tips
    <3> QED
      BY <2>1, <2>2, <3>1
  <2>4. CASE ~ ClonesAll(v)
    <3>1. RefExists(v) /\ Tips(srv, v) = {Tip(srv, v)}
      BY <2>1, <2>4 DEF Tips
    <3>2. Tip(srv, v) = srv[RefKind(v)][MutableRef(v)]
      BY <2>4 DEF Tip
    <3>3. Tip(srv, v) \in Commits /\ Tip(srv, v) <= srv.module
      <4>1. CASE RefKind(v) = "tag"
        BY <1>2, <3>1, <3>2, <4>1 DEF RefExists
      <4>2. CASE RefKind(v) = "branch"
        BY <1>2, <3>1, <3>2, <4>2 DEF RefExists
      <4> QED
        BY <4>1, <4>2 DEF RefKind
    <3> QED
      BY <2>1, <2>2, <3>1, <3>3
  <2> QED
    BY <2>3, <2>4
<1>4. c \in Commits /\ c <= srv.module
  BY <1>2, <1>3, SizeAssumption DEF Behind, Commits
<1> QED
  BY <1>4 DEF c

\* And what is exported is a content directory: of the commit that a pinned
\* revision names, with the submodule that commit links unless it is too deep.
LEMMA ExportedContent ==
  ASSUME NEW srv \in Server, NEW v, NEW p, CanExport(srv, v, p),
         \A b \in Branches : srv.branch[b] <= srv.module,
         \A t \in Tags : srv.tag[t] <= srv.module,
         p.submodules.maxDepth \in Nat \ {0}
  PROVE  LET shown == Exported(srv, v, p)
         IN  /\ shown \in Contents /\ shown # Broken
             /\ shown.path = Clean(v.path)
             /\ IsCommitSHA(v.revision) => shown.commit = v.revision.commit
             /\ shown.commit <= srv.module
             /\ HasModule(v) /\ srv.module - shown.commit < p.submodules.maxDepth
                  => shown.module = shown.commit
<1> DEFINE c == ResolveHash(srv, v)
<1> DEFINE m == Module(srv, v, p)
<1>1. c \in Commits /\ c <= srv.module
  BY ExportedCommit
<1>2. srv.module \in Commits
  BY DEF Server
<1>3. Clean(v.path) \in Directories
  BY DEF CanExport
<1>4. m \in Commits \cup {0}
  BY <1>1, <1>2 DEF Module
<1>5. HasModule(v) /\ srv.module - c < p.submodules.maxDepth => m = c
  <2>1. HasModule(v) /\ c \in Behind(srv.module, p.submodules.maxDepth) => m = c
    BY DEF Module
  <2>2. srv.module - c < p.submodules.maxDepth => c \in Behind(srv.module, p.submodules.maxDepth)
    <3> HIDE DEF c, m
    <3> QED
      BY <1>1, <1>2, SizeAssumption DEF Behind, Commits
  <2> QED
    BY <2>1, <2>2
<1>6. IsCommitSHA(v.revision) => c = v.revision.commit
  BY DEF ResolveHash
<1>7. Exported(srv, v, p) = [commit |-> c, path |-> Clean(v.path), module |-> m]
  BY DEF Exported
<1> HIDE DEF c, m
<1>8. c # 0
  BY <1>1, SizeAssumption DEF Commits
<1>9. /\ [commit |-> c, path |-> Clean(v.path), module |-> m] \in Contents
      /\ [commit |-> c, path |-> Clean(v.path), module |-> m] # Broken
  BY <1>1, <1>3, <1>4, <1>8 DEF Contents, Broken
<1> QED
  BY <1>1, <1>5, <1>6, <1>7, <1>9

-----------------------------------------------------------------------------
(* What materialize makes of an admitted volume. *)

\* It is permitted by a policy of the plugin, and its content is what it names.
LEMMA AdmittedContent ==
  ASSUME IInv, NEW ns, NEW v \in Attributes, Admits(ns, v), Exports(ns, v)
  PROVE  /\ plugin \in Loaded /\ Governing(ns, v) \in DOMAIN plugin
         /\ WellFormed(v) /\ Permits(PolicyOf(ns, v), Parse(v))
         /\ Depth(Parse(v), PolicyOf(ns, v)) \in Nat \ {0}
         /\ ContentOf(ns, v) \in Contents /\ ContentOf(ns, v) # Broken
         /\ ShowsNamed(v, ContentOf(ns, v))
         /\ ContentOf(ns, v).commit <= server.module
         /\ HasModule(Parse(v))
              /\ server.module - ContentOf(ns, v).commit < PolicyOf(ns, v).submodules.maxDepth
                => ContentOf(ns, v).module = ContentOf(ns, v).commit
<1> DEFINE p == PolicyOf(ns, v)
<1>1. plugin \in Loaded /\ WellFormed(v) /\ Allowed(plugin, ns, Parse(v))
  BY DEF IInv, Types, TypeOK, Admits
<1>2. Parse(v).policy = v.policy /\ Parse(v).path = Clean(v.path)
      /\ Parse(v).revision = v.revision
  BY ParseFields
<1>3. Governing(ns, v) \in DOMAIN plugin /\ Permits(p, Parse(v))
  BY <1>1, <1>2, AllowedPermits DEF Governing, PolicyOf
<1>4. p.defaultDepth \in Nat \ {0} /\ p.submodules.maxDepth \in Nat \ {0}
  BY <1>1, <1>3, LoadedLimits DEF PolicyOf
<1>5. Depth(Parse(v), p) \in Nat \ {0}
  BY <1>1, <1>4, ParsedDepth DEF Depth
<1> HIDE DEF p
<1>6. /\ server \in Server /\ CanExport(server, Parse(v), p)
      /\ \A b \in Branches : server.branch[b] <= server.module
      /\ \A t \in Tags : server.tag[t] <= server.module
  BY DEF IInv, Types, TypeOK, ModuleIsFirst, Exports, p
<1>7. LET shown == Exported(server, Parse(v), p)
      IN  /\ shown \in Contents /\ shown # Broken
          /\ shown.path = Clean(Parse(v).path)
          /\ IsCommitSHA(Parse(v).revision) => shown.commit = Parse(v).revision.commit
          /\ shown.commit <= server.module
          /\ HasModule(Parse(v)) /\ server.module - shown.commit < p.submodules.maxDepth
               => shown.module = shown.commit
  BY <1>4, <1>6, ExportedContent
<1>8. ContentOf(ns, v) = Exported(server, Parse(v), p)
  BY DEF ContentOf, p
<1>9. ShowsNamed(v, ContentOf(ns, v))
  BY <1>2, <1>7, <1>8 DEF ShowsNamed
<1> QED
  BY <1>1, <1>3, <1>5, <1>7, <1>8, <1>9 DEF p

\* A rebuild of the content directory under the link leaves it a link to what its
\* key names, or to nothing.
LEMMA RebuildKeeps ==
  ASSUME IInv, NEW ns, NEW v \in Attributes, NEW contents \in Contents,
         contents # Broken => ShowsNamed(v, contents),
         link' = Rebuild(ns, v, contents)
  PROVE  /\ LinkIsKeyed'
         /\ link'.shown \in Contents
         /\ link' = [target |-> link'.target, of |-> link'.of, key |-> link'.key,
                     shown |-> link'.shown]
<1>1. /\ link = [target |-> link.target, of |-> link.of, key |-> link.key, shown |-> link.shown]
      /\ link.shown \in Contents /\ LinkIsKeyed
  BY DEF IInv, Types, TypeOK
<1>2. CASE link' = link
  BY <1>1, <1>2 DEF LinkIsKeyed
<1>3. CASE link.of # {} /\ link.key = Key(ns, v) /\ link' = [link EXCEPT !.shown = contents]
  <2>1. /\ link'.target = link.target /\ link'.of = link.of /\ link'.key = link.key
        /\ link'.shown = contents
        /\ link' = [target |-> link'.target, of |-> link'.of, key |-> link'.key,
                    shown |-> link'.shown]
    BY <1>1, <1>3
  <2>2. PICK p \in Posts :
          /\ link.of = {p.volume} /\ WellFormed(p.volume)
          /\ link.key[2] = p.volume.revision /\ link.key[3] = Clean(p.volume.path)
    BY <1>1, <1>3 DEF LinkIsKeyed
  <2>3. p.volume.revision = v.revision /\ Clean(p.volume.path) = Clean(v.path)
    BY <1>3, <2>2 DEF Key
  <2>4. contents # Broken => ShowsNamed(p.volume, contents)
    BY <2>3 DEF ShowsNamed
  <2>5. LinkIsKeyed'
    BY <2>1, <2>2, <2>4 DEF LinkIsKeyed, ShowsNamed
  <2> QED
    BY <2>1, <2>5
<1> QED
  BY <1>2, <1>3 DEF Rebuild

\* What materialize may do to the link when it fails.
LEMMA FailureKeeps ==
  ASSUME IInv, NEW ns, NEW v \in Attributes, MaterializeFails(ns, v)
  PROVE  /\ LinkIsKeyed'
         /\ link'.shown \in Contents
         /\ link' = [target |-> link'.target, of |-> link'.of, key |-> link'.key,
                     shown |-> link'.shown]
<1>1. CASE link' = link
  BY <1>1 DEF IInv, Types, TypeOK, LinkIsKeyed
<1>2. CASE link' = Rebuild(ns, v, Broken)
  BY <1>2, RebuildKeeps DEF Contents
<1> QED
  BY <1>1, <1>2 DEF MaterializeFails

-----------------------------------------------------------------------------
(* The steps. *)

\* What a step says of the link.
LinkKept ==
  /\ LinkIsKeyed'
  /\ link'.shown \in Contents
  /\ link' = [target |-> link'.target, of |-> link'.of, key |-> link'.key,
              shown |-> link'.shown]

\* A step that does not touch the pod and its mounts, and moves no ref.
LEMMA MountsUntouched ==
  ASSUME IInv, UNCHANGED <<server, pod, mount>>, LinkKept,
         file' \in PolicyFiles, webhook' \in Loaded, plugin' \in Loaded,
         edits' \in 0..MaxEdits
  PROVE  IInv'
<1>1. Types'
  BY DEF IInv, Types, TypeOK, PodType, LinkKept, Loaded
<1>2. ModuleIsFirst' /\ PodIsReviewed'
  BY DEF IInv, ModuleIsFirst, PodIsReviewed
<1>3. ASSUME NEW v \in pod'.volumes PROVE RefusalHasReason(v)' /\ MountIsPermitted(v)'
  BY DEF IInv, RefusalHasReason, NamespaceOfCall, MountIsPermitted, Rules
<1> QED
  BY <1>1, <1>2, <1>3 DEF IInv, LinkKept

\* A step that leaves the link alone.
LEMMA LinkUntouched ==
  ASSUME IInv, UNCHANGED link PROVE LinkKept
  BY DEF IInv, Types, TypeOK, LinkIsKeyed, LinkKept

\* The pod comes with volumes that are not mounted.
LEMMA PodStep ==
  ASSUME IInv, UNCHANGED <<file, webhook, plugin, server, link, edits>>,
         pod' \in PodType, mount' = [v \in pod'.volumes |-> NoMount], PodIsReviewed'
  PROVE  IInv'
<1>1. LinkKept
  BY LinkUntouched
<1>2. NoMount \in MountType /\ NoMount.code = "none" /\ NoMount.policy = NoPolicy
  <2>1. Broken \in Contents
    BY DEF Contents
  <2> QED
    BY <2>1 DEF NoMount, MountType, NoPolicy
<1>3. mount' \in [pod'.volumes -> MountType] /\ \A v \in pod'.volumes : mount'[v] = NoMount
  BY <1>2
<1>4. Types'
  <2>1. /\ pod'.phase \in {"none", "admitted", "rejected", "unreviewed"}
        /\ pod'.phase # "none" => pod'.volumes \in PodSpecs /\ pod'.namespace \in Namespaces
    <3>1. CASE pod' = NoPod
      BY <3>1 DEF NoPod
    <3>2. CASE pod' \in [phase : {"admitted", "rejected", "unreviewed"},
                         namespace : Namespaces, volumes : PodSpecs,
                         under : {<<>>} \cup Loaded]
      BY <3>2
    <3> QED
      BY <3>1, <3>2 DEF PodType
  <2>2. \A v \in pod'.volumes :
          /\ mount'[v].code = "none" /\ mount'[v].policy = NoPolicy
          /\ mount'[v].depth \in Nat \ {0} /\ mount'[v].shown \in Contents
    BY <1>2, <1>3 DEF MountType
  <2> QED
    BY <1>1, <1>3, <2>1, <2>2 DEF IInv, Types, TypeOK, PodType, MountType, LinkKept, Loaded
<1>5. ModuleIsFirst'
  BY DEF IInv, ModuleIsFirst
<1>6. ASSUME NEW v \in pod'.volumes PROVE RefusalHasReason(v)' /\ MountIsPermitted(v)'
  BY <1>2, <1>3 DEF RefusalHasReason, MountIsPermitted
<1> QED
  BY <1>1, <1>4, <1>5, <1>6 DEF IInv, LinkKept

\* A call answers for a volume.
LEMMA AnswerStep ==
  ASSUME IInv, NEW v \in pod.volumes, NEW m \in MountType,
         UNCHANGED <<file, webhook, plugin, server, pod, edits>>,
         mount' = [mount EXCEPT ![v] = m], LinkKept,
         m.policy \in {NoPolicy} \cup DOMAIN m.under,
         m.code = "OK" => m.shown # Broken,
         RefusalHasReason(v)', MountIsPermitted(v)'
  PROVE  IInv'
<1>1. mount' \in [pod'.volumes -> MountType]
      /\ \A w \in pod.volumes : mount'[w] = IF w = v THEN m ELSE mount[w]
  BY DEF IInv, Types
<1>2. Types'
  <2>1. \A w \in pod.volumes :
          /\ mount'[w].code \in {"none", "InvalidArgument", "PermissionDenied",
                                 "DeadlineExceeded", "Internal", "OK"}
          /\ mount'[w].depth \in Nat \ {0} /\ mount'[w].shown \in Contents
    BY <1>1 DEF MountType
  <2>2. \A w \in pod.volumes :
          /\ mount'[w].policy \in {NoPolicy} \cup DOMAIN mount'[w].under
          /\ mount'[w].code = "OK" => mount'[w].shown # Broken
    BY <1>1 DEF IInv, Types, TypeOK
  <2> QED
    BY <1>1, <2>1, <2>2 DEF IInv, Types, TypeOK, PodType, LinkKept, Loaded
<1>3. ModuleIsFirst' /\ PodIsReviewed'
  BY DEF IInv, ModuleIsFirst, PodIsReviewed
<1>4. ASSUME NEW w \in pod.volumes, w # v PROVE RefusalHasReason(w)' /\ MountIsPermitted(w)'
  BY <1>1, <1>4 DEF IInv, RefusalHasReason, NamespaceOfCall, MountIsPermitted, Rules
<1> QED
  BY <1>2, <1>3, <1>4 DEF IInv, LinkKept

\* Initially nothing is admitted, mounted or linked.
LEMMA InitInv ==
  ASSUME Init PROVE IInv
<1>1. /\ file \in PolicyFiles /\ webhook \in Loaded /\ plugin \in Loaded
      /\ server = [branch |-> [b \in Branches |-> 1], tag |-> [t \in Tags |-> 1], module |-> 1]
      /\ pod = NoPod /\ mount = [v \in {} |-> NoMount] /\ link = NoLink /\ edits = 0
  BY DEF Init, Loaded
<1>2. server \in Server
  <2>1. 1 \in Commits
    BY SizeAssumption DEF Commits
  <2> QED
    BY <1>1, <2>1 DEF Server
<1>3. pod.phase = "none" /\ pod.volumes = {} /\ pod \in PodType
  BY <1>1 DEF NoPod, PodType
<1>4. /\ link.of = {} /\ link.shown \in Contents
      /\ link = [target |-> link.target, of |-> link.of, key |-> link.key,
                 shown |-> link.shown]
  BY <1>1 DEF NoLink, Contents
<1>5. mount \in [pod.volumes -> MountType]
  BY <1>1, <1>3
<1>6. edits \in 0..MaxEdits
  BY <1>1, EditAssumption
<1>7. Types
  BY <1>1, <1>2, <1>3, <1>4, <1>5, <1>6 DEF Types, TypeOK
<1>8. ModuleIsFirst
  BY <1>1 DEF ModuleIsFirst
<1> QED
  BY <1>3, <1>4, <1>7, <1>8 DEF IInv, PodIsReviewed, LinkIsKeyed

\* The webhook decides about a pod.
LEMMA ValidateStep ==
  ASSUME IInv, NEW ns \in Namespaces, NEW volumes \in PodSpecs, Validate(ns, volumes)
  PROVE  IInv'
<1>1. pod' = [phase |-> IF \A v \in volumes : Validates(v, ns) THEN "admitted" ELSE "rejected",
              namespace |-> ns, volumes |-> volumes, under |-> webhook]
  BY DEF Validate
<1>2. /\ pod'.phase \in {"admitted", "rejected"} /\ pod'.namespace = ns
      /\ pod'.volumes = volumes /\ pod'.under = webhook
      /\ pod'.phase = "admitted" => \A v \in volumes : Validates(v, ns)
  BY <1>1
<1>3. webhook \in Loaded
  BY DEF IInv, Types, TypeOK
<1>4. pod' \in PodType
  BY <1>1, <1>3 DEF PodType
<1>5. PodIsReviewed'
  BY <1>2 DEF PodIsReviewed, Validates
<1> QED
  BY <1>2, <1>4, <1>5, PodStep DEF Validate

\* Nobody asks the webhook.
LEMMA BypassStep ==
  ASSUME IInv, NEW ns \in Namespaces, NEW volumes \in PodSpecs, Bypass(ns, volumes)
  PROVE  IInv'
<1>1. pod' = [phase |-> "unreviewed", namespace |-> ns, volumes |-> volumes, under |-> <<>>]
  BY DEF Bypass
<1>2. pod' \in PodType /\ pod'.volumes = volumes /\ pod'.phase = "unreviewed"
  BY <1>1 DEF PodType
<1>3. PodIsReviewed'
  BY <1>2 DEF PodIsReviewed
<1> QED
  BY <1>2, <1>3, PodStep DEF Bypass

\* The pod is gone.
LEMMA DeleteStep ==
  ASSUME IInv, DeletePod PROVE IInv'
<1>1. pod' = NoPod /\ pod'.volumes = {} /\ pod'.phase = "none" /\ pod' \in PodType
  BY DEF DeletePod, NoPod, PodType
<1>2. PodIsReviewed'
  BY <1>1 DEF PodIsReviewed
<1> QED
  BY <1>1, <1>2, PodStep DEF DeletePod

\* The answer of a call that fails, in full.
LEMMA FailedAnswer ==
  ASSUME NEW code, NEW under
  PROVE  [NoMount EXCEPT !.code = code, !.under = under]
           = [code |-> code, under |-> under, policy |-> NoPolicy, depth |-> 1,
              kind |-> "commit", shown |-> Broken]
<1>1. [NoMount EXCEPT !.code = code]
        = [code |-> code, under |-> <<>>, policy |-> NoPolicy, depth |-> 1,
           kind |-> "commit", shown |-> Broken]
  BY DEF NoMount
<1>2. ASSUME NEW m, m = [code |-> code, under |-> <<>>, policy |-> NoPolicy, depth |-> 1,
                         kind |-> "commit", shown |-> Broken]
      PROVE  [m EXCEPT !.under = under]
               = [code |-> code, under |-> under, policy |-> NoPolicy, depth |-> 1,
                  kind |-> "commit", shown |-> Broken]
  BY <1>2
<1> QED
  BY <1>1, <1>2

\* A call that fails has no more to say than its code.
LEMMA RefusalStep ==
  ASSUME IInv, NEW v \in pod.volumes,
         NEW code \in {"InvalidArgument", "PermissionDenied", "DeadlineExceeded", "Internal"},
         UNCHANGED <<file, webhook, plugin, server, pod, edits>>,
         Answer(v, code), LinkKept,
         code = "InvalidArgument" => ~ v.readOnly \/ ~ WellFormed(v),
         code = "PermissionDenied" => ~ Allowed(plugin, NamespaceOfCall, Parse(v))
  PROVE  IInv'
<1> DEFINE m == [NoMount EXCEPT !.code = code, !.under = plugin]
<1>1. plugin \in Loaded
  BY DEF IInv, Types, TypeOK
<1>2. m = [code |-> code, under |-> plugin, policy |-> NoPolicy, depth |-> 1,
           kind |-> "commit", shown |-> Broken]
  BY FailedAnswer
<1>3. m \in MountType
  <2>1. Broken \in Contents /\ NoPolicy \in Nat
    BY DEF Contents, NoPolicy
  <2> HIDE DEF m
  <2> QED
    BY <1>1, <1>2, <2>1 DEF MountType
<1>4. mount' = [mount EXCEPT ![v] = m] /\ m.code = code /\ m.under = plugin
      /\ m.policy = NoPolicy
  BY <1>2 DEF Answer
<1> HIDE DEF m
<1>5. mount'[v] = m
  BY <1>4 DEF IInv, Types
<1>6. RefusalHasReason(v)'
  BY <1>4, <1>5 DEF RefusalHasReason, NamespaceOfCall
<1>7. MountIsPermitted(v)'
  BY <1>4, <1>5 DEF MountIsPermitted
<1> QED
  BY <1>3, <1>4, <1>6, <1>7, AnswerStep

\* The node plugin mounts a volume that it admits.
LEMMA PublishStep ==
  ASSUME IInv, NEW v \in pod.volumes, v \in Attributes, Publish(v),
         UNCHANGED <<file, webhook, plugin, server, pod, edits>>
  PROVE  IInv'
<1> DEFINE ns == NamespaceOfCall
<1> DEFINE shown == ContentOf(ns, v)
<1> DEFINE p == PolicyOf(ns, v)
<1> DEFINE m == [code |-> "OK", under |-> plugin, policy |-> Governing(ns, v),
                 depth |-> Depth(Parse(v), p), kind |-> KindServed(Parse(v)),
                 shown |-> shown]
<1>1. /\ Admits(ns, v) /\ Exports(ns, v) /\ link' = Rebuild(ns, v, shown)
      /\ mount' = [mount EXCEPT ![v] = m]
  BY DEF Publish
<1>2. /\ plugin \in Loaded /\ Governing(ns, v) \in DOMAIN plugin
      /\ WellFormed(v) /\ Permits(p, Parse(v))
      /\ Depth(Parse(v), p) \in Nat \ {0}
      /\ shown \in Contents /\ shown # Broken
      /\ ShowsNamed(v, shown)
      /\ shown.commit <= server.module
      /\ HasModule(Parse(v)) /\ server.module - shown.commit < p.submodules.maxDepth
           => shown.module = shown.commit
  BY <1>1, AdmittedContent
<1>3. Governing(ns, v) \in Nat /\ p = plugin[Governing(ns, v)]
  BY <1>2, LoadedLimits DEF PolicyOf
<1>4. LinkKept
  <2> HIDE DEF ns, shown
  <2> QED
    BY <1>1, <1>2, RebuildKeeps DEF LinkKept
<1>5. KindServed(Parse(v)) \in {"commit", "branch", "tag"}
  BY ServedType
<1>6. /\ m.code = "OK" /\ m.under = plugin /\ m.policy = Governing(ns, v)
      /\ m.depth = Depth(Parse(v), p) /\ m.kind = KindServed(Parse(v)) /\ m.shown = shown
  OBVIOUS
<1> HIDE DEF ns, shown, p
<1>7. m \in MountType
  BY <1>2, <1>3, <1>5 DEF MountType
<1> HIDE DEF m
<1>8. mount'[v] = m
  BY <1>1 DEF IInv, Types
<1>9. RefusalHasReason(v)'
  BY <1>6, <1>8 DEF RefusalHasReason
<1>10. MountIsPermitted(v)'
  BY <1>2, <1>3, <1>6, <1>8 DEF MountIsPermitted, Rules, ShowsNamed
<1> QED
  BY <1>1, <1>2, <1>4, <1>6, <1>7, <1>9, <1>10, AnswerStep

\* NodePublishVolume, however it ends.
LEMMA NodePublishStep ==
  ASSUME IInv, NEW v \in pod.volumes, NodePublishVolume(v) PROVE IInv'
<1>1. v \in Attributes
  <2>1. pod.volumes \in PodSpecs
    BY DEF NodePublishVolume, IInv, Types, TypeOK
  <2> QED
    BY <2>1, VolumeAssumption DEF Volumes
<1>2. UNCHANGED <<file, webhook, plugin, server, pod, edits>>
  BY DEF NodePublishVolume
<1>3. CASE PublishInvalid(v)
  BY <1>2, <1>3, LinkUntouched, RefusalStep DEF PublishInvalid
<1>4. CASE PublishDenied(v)
  <2>1. ~ Allowed(plugin, NamespaceOfCall, Parse(v))
    BY <1>4 DEF PublishDenied, Admits
  <2> QED
    BY <1>2, <1>4, <2>1, LinkUntouched, RefusalStep DEF PublishDenied
<1>5. CASE PublishFails(v)
  <2>1. Admits(NamespaceOfCall, v) /\ (Answer(v, "Internal") \/ Answer(v, "DeadlineExceeded"))
    BY <1>5 DEF PublishFails
  <2>2. LinkKept
    <3>1. CASE MaterializeFails(NamespaceOfCall, v)
      BY <1>1, <3>1, FailureKeeps DEF LinkKept
    <3>2. CASE /\ Exports(NamespaceOfCall, v)
               /\ link' = Rebuild(NamespaceOfCall, v, ContentOf(NamespaceOfCall, v))
      BY <1>1, <2>1, <3>2, AdmittedContent, RebuildKeeps DEF LinkKept
    <3> QED
      BY <1>5, <3>1, <3>2 DEF PublishFails
  <2> QED
    BY <1>2, <2>1, <2>2, RefusalStep
<1>6. CASE Publish(v)
  BY <1>1, <1>2, <1>6, PublishStep
<1> QED
  BY <1>3, <1>4, <1>5, <1>6 DEF NodePublishVolume

\* A link whose directory is altered is a link still.
LEMMA BrokenKeeps ==
  ASSUME IInv, link' = [link EXCEPT !.shown = Broken] PROVE LinkKept
<1>1. link = [target |-> link.target, of |-> link.of, key |-> link.key, shown |-> link.shown]
      /\ LinkIsKeyed
  BY DEF IInv, Types
<1>2. /\ link'.target = link.target /\ link'.of = link.of /\ link'.key = link.key
      /\ link'.shown = Broken
      /\ link' = [target |-> link'.target, of |-> link'.of, key |-> link'.key,
                  shown |-> link'.shown]
  BY <1>1
<1> QED
  BY <1>1, <1>2 DEF LinkKept, LinkIsKeyed, Contents

\* A new link has the key of its request; an old one is rebuilt, altered or gone.
LEMMA PostStep ==
  ASSUME IInv, NEW p \in Posts, PostMount(p) PROVE IInv'
<1> DEFINE v == p.volume
<1> DEFINE ns == p.namespace
<1> DEFINE shown == ContentOf(ns, v)
<1>1. v \in Attributes /\ Admits(ns, v) /\ Exports(ns, v)
  BY PostAssumption DEF PostMount
<1>2. /\ WellFormed(v) /\ shown \in Contents /\ shown # Broken /\ ShowsNamed(v, shown)
  BY <1>1, AdmittedContent
<1>3. ASSUME link' = Rebuilt(p) PROVE LinkKept
  <2>1. link' = Rebuild(ns, v, shown)
    BY <1>3 DEF Rebuilt
  <2> HIDE DEF v, ns, shown
  <2> QED
    BY <1>1, <1>2, <2>1, RebuildKeeps DEF LinkKept
<1>4. CASE MaterializeFails(ns, v)
  <2>1. LinkKept
    BY <1>1, <1>4, FailureKeeps DEF LinkKept
  <2> QED
    BY <2>1, MountsUntouched DEF PostMount, IInv, Types, TypeOK
<1>5. CASE link' = Rebuilt(p)
  BY <1>3, <1>5, MountsUntouched DEF PostMount, IInv, Types, TypeOK
<1>6. CASE Link(p)
  <2>1. CASE link' = [target |-> Clean(p.target), of |-> {v}, key |-> Key(ns, v),
                      shown |-> shown]
    <3>1. /\ link'.target = Clean(p.target) /\ link'.of = {v} /\ link'.key = Key(ns, v)
          /\ link'.shown = shown
          /\ link' = [target |-> link'.target, of |-> link'.of, key |-> link'.key,
                      shown |-> link'.shown]
      BY <2>1
    <3>2. link'.key[2] = v.revision /\ link'.key[3] = Clean(v.path)
      BY <3>1 DEF Key
    <3>3. LinkIsKeyed'
      BY <1>2, <3>1, <3>2 DEF LinkIsKeyed, ShowsNamed
    <3>4. LinkKept
      BY <1>2, <3>1, <3>3 DEF LinkKept
    <3> QED
      BY <3>4, MountsUntouched DEF PostMount, IInv, Types, TypeOK
  <2>2. CASE link' = NoLink
    <3>1. LinkKept
      BY <2>2 DEF LinkKept, LinkIsKeyed, NoLink, Contents
    <3> QED
      BY <3>1, MountsUntouched DEF PostMount, IInv, Types, TypeOK
  <2>3. CASE link' = Rebuilt(p)
    BY <1>3, <2>3, MountsUntouched DEF PostMount, IInv, Types, TypeOK
  <2>4. CASE LinkInside
    BY <2>4, BrokenKeeps, MountsUntouched DEF LinkInside, PostMount, IInv, Types, TypeOK
  <2> QED
    BY <1>6, <2>1, <2>2, <2>3, <2>4 DEF Link, NewLink
<1> QED
  BY <1>4, <1>5, <1>6 DEF PostMount

\* An eviction breaks the link.
LEMMA EvictStep ==
  ASSUME IInv, Evict PROVE IInv'
<1>1. LinkKept
  BY BrokenKeeps DEF Evict
<1> QED
  BY <1>1, MountsUntouched DEF Evict, IInv, Types, TypeOK

\* The policy file is edited, and either program may be restarted with it.
LEMMA PoliciesStep ==
  ASSUME IInv, EditPolicies \/ RestartWebhook \/ RestartPlugin PROVE IInv'
<1>1. UNCHANGED <<server, pod, mount, link>> /\ LinkKept
  BY LinkUntouched DEF EditPolicies, RestartWebhook, RestartPlugin
<1>2. file \in PolicyFiles /\ webhook \in Loaded /\ plugin \in Loaded /\ edits \in 0..MaxEdits
  BY DEF IInv, Types, TypeOK
<1>3. CASE EditPolicies
  BY <1>1, <1>2, <1>3, EditAssumption, MountsUntouched DEF EditPolicies
<1>4. CASE RestartWebhook
  BY <1>1, <1>2, <1>4, MountsUntouched DEF RestartWebhook, Loaded
<1>5. CASE RestartPlugin
  BY <1>1, <1>2, <1>5, MountsUntouched DEF RestartPlugin, Loaded
<1> QED
  BY <1>3, <1>4, <1>5

\* A ref moves to a commit whose submodule is there; what is mounted stays, and
\* the submodule only gets further from it.
LEMMA PushStep ==
  ASSUME IInv, Push PROVE IInv'
<1>1. server \in Server /\ ModuleIsFirst /\ UNCHANGED <<file, webhook, plugin, pod, mount, link, edits>>
  BY DEF IInv, Types, TypeOK, Push
<1>2. /\ server.branch \in [Branches -> Commits] /\ server.tag \in [Tags -> Commits]
      /\ server.module \in Commits
      /\ server = [branch |-> server.branch, tag |-> server.tag, module |-> server.module]
  BY <1>1 DEF Server
<1>3. Commits \subseteq Nat
  BY SizeAssumption DEF Commits
<1>4. /\ server' \in Server /\ ModuleIsFirst' /\ server'.module >= server.module
  <2>1. CASE \E b \in Branches : /\ server.branch[b] < server.module
                                 /\ server' = [server EXCEPT !.branch[b] = @ + 1]
    <3>1. PICK b \in Branches : /\ server.branch[b] < server.module
                                /\ server' = [server EXCEPT !.branch[b] = @ + 1]
      BY <2>1
    <3>2. /\ server' = [branch |-> [server.branch EXCEPT ![b] = @ + 1], tag |-> server.tag,
                        module |-> server.module]
      BY <1>2, <3>1
    <3>3. server.branch[b] + 1 \in Commits /\ server.branch[b] + 1 <= server.module
      BY <1>2, <3>1, SizeAssumption DEF Commits
    <3>4. /\ server'.branch = [server.branch EXCEPT ![b] = @ + 1]
          /\ server'.tag = server.tag /\ server'.module = server.module
      BY <3>2
    <3>5. [server.branch EXCEPT ![b] = @ + 1] \in [Branches -> Commits]
      BY <1>2, <3>3
    <3>6. server' \in Server
      BY <1>2, <3>2, <3>5 DEF Server
    <3>7. ModuleIsFirst'
      BY <1>1, <1>2, <3>3, <3>4 DEF ModuleIsFirst
    <3> QED
      BY <1>2, <1>3, <3>4, <3>6, <3>7
  <2>2. CASE \E t \in Tags : /\ server.tag[t] < server.module
                             /\ server' = [server EXCEPT !.tag[t] = @ + 1]
    <3>1. PICK t \in Tags : /\ server.tag[t] < server.module
                            /\ server' = [server EXCEPT !.tag[t] = @ + 1]
      BY <2>2
    <3>2. /\ server' = [branch |-> server.branch, tag |-> [server.tag EXCEPT ![t] = @ + 1],
                        module |-> server.module]
      BY <1>2, <3>1
    <3>3. server.tag[t] + 1 \in Commits /\ server.tag[t] + 1 <= server.module
      BY <1>2, <3>1, SizeAssumption DEF Commits
    <3>4. /\ server'.tag = [server.tag EXCEPT ![t] = @ + 1]
          /\ server'.branch = server.branch /\ server'.module = server.module
      BY <3>2
    <3>5. [server.tag EXCEPT ![t] = @ + 1] \in [Tags -> Commits]
      BY <1>2, <3>3
    <3>6. server' \in Server
      BY <1>2, <3>2, <3>5 DEF Server
    <3>7. ModuleIsFirst'
      BY <1>1, <1>2, <3>3, <3>4 DEF ModuleIsFirst
    <3> QED
      BY <1>2, <1>3, <3>4, <3>6, <3>7
  <2>3. CASE server.module < MaxCommit /\ server' = [server EXCEPT !.module = @ + 1]
    <3>1. server' = [branch |-> server.branch, tag |-> server.tag, module |-> server.module + 1]
      BY <1>2, <2>3
    <3>2. server.module + 1 \in Commits /\ server.module \in Nat
      BY <1>2, <2>3, SizeAssumption DEF Commits
    <3>3. /\ server'.branch = server.branch /\ server'.tag = server.tag
          /\ server'.module = server.module + 1
      BY <3>1
    <3>4. server' \in Server
      BY <1>2, <3>1, <3>2 DEF Server
    <3>5. ModuleIsFirst'
      BY <1>1, <1>2, <1>3, <3>2, <3>3 DEF ModuleIsFirst
    <3> QED
      BY <3>2, <3>3, <3>4, <3>5
  <2> QED
    BY <2>1, <2>2, <2>3 DEF Push
<1>5. server'.module \in Nat /\ server.module \in Nat
  BY <1>2, <1>3, <1>4 DEF Server
<1>6. Types' /\ PodIsReviewed'
  BY <1>1, <1>4 DEF IInv, Types, TypeOK, PodIsReviewed
<1>7. ASSUME NEW v \in pod.volumes PROVE RefusalHasReason(v)' /\ MountIsPermitted(v)'
  <2>1. RefusalHasReason(v) /\ MountIsPermitted(v) /\ mount[v] \in MountType
        /\ mount'[v] = mount[v]
    BY <1>1 DEF IInv, Types
  <2>2. RefusalHasReason(v)'
    BY <1>1, <2>1 DEF RefusalHasReason, NamespaceOfCall
  <2>3. MountIsPermitted(v)'
    <3>1. SUFFICES ASSUME mount[v].code = "OK" PROVE MountIsPermitted(v)'
      BY <2>1 DEF MountIsPermitted
    <3>2. /\ mount[v].under \in Loaded /\ mount[v].policy \in DOMAIN mount[v].under
          /\ mount[v].shown.commit <= server.module
      BY <2>1, <3>1 DEF MountIsPermitted
    <3>3. Rules(v)' = Rules(v) /\ Rules(v).submodules.maxDepth \in Nat
      BY <2>1, <3>2, LoadedLimits DEF Rules
    <3>4. mount[v].shown.commit \in Nat
      <4>1. mount[v].shown \in Contents
        BY <2>1 DEF MountType
      <4>2. \A shown \in Contents : shown.commit \in Commits \cup {0}
        <5>1. Broken.commit = 0
          BY DEF Broken
        <5>2. \A shown \in [commit : Commits, path : Directories, module : Commits \cup {0}] :
                shown.commit \in Commits
          OBVIOUS
        <5> QED
          BY <5>1, <5>2 DEF Contents
      <4>3. Commits \cup {0} \subseteq Nat
        BY <1>3
      <4> QED
        BY <4>1, <4>2, <4>3
    <3>5. /\ mount[v].shown.commit <= server'.module
          /\ server'.module - mount[v].shown.commit < Rules(v).submodules.maxDepth
               => server.module - mount[v].shown.commit < Rules(v).submodules.maxDepth
      BY <1>4, <1>5, <3>2, <3>3, <3>4
    <3> QED
      BY <2>1, <3>1, <3>3, <3>5 DEF MountIsPermitted, ShowsNamed
  <2> QED
    BY <2>2, <2>3
<1>8. LinkIsKeyed'
  BY <1>1 DEF IInv, LinkIsKeyed
<1> QED
  BY <1>1, <1>4, <1>6, <1>7, <1>8 DEF IInv

\* Every step keeps the invariant.
LEMMA StepInv ==
  ASSUME IInv, [Next]_vars PROVE IInv'
<1>1. CASE UNCHANGED vars
  BY <1>1, LinkUntouched, MountsUntouched DEF vars, IInv, Types, TypeOK
<1>2. CASE Next
  BY <1>2, ValidateStep, BypassStep, NodePublishStep, DeleteStep, PostStep, EvictStep,
     PoliciesStep, PushStep DEF Next
<1> QED
  BY <1>1, <1>2

-----------------------------------------------------------------------------
(* The theorems. *)

\* What is admitted, mounted and linked follows the policies and the attributes,
\* whatever is edited, restarted, pushed and rebuilt in between.
THEOREM Invariance == Spec => []IInv
<1>1. Init => IInv
  BY InitInv
<1>2. IInv /\ [Next]_vars => IInv'
  BY StepInv
<1> QED
  BY <1>1, <1>2, PTL DEF Spec

\* The variables have their types.
THEOREM TypeCorrect == Spec => []TypeOK
<1>1. IInv => TypeOK
  BY DEF IInv, Types
<1> QED
  BY <1>1, Invariance, PTL

\* If the kubelet tells the node plugin the pod's namespace, the plugin refuses a
\* volume of an admitted pod only if it has other policies than the webhook had.
THEOREM NotRefused ==
  ASSUME PodInfoOnMount PROVE Spec => []AdmittedIsNotRefused
<1>1. IInv => AdmittedIsNotRefused
  <2>1. SUFFICES ASSUME IInv, pod.phase = "admitted", NEW v \in pod.volumes
                 PROVE  /\ mount[v].code # "InvalidArgument"
                        /\ mount[v].code = "PermissionDenied" => mount[v].under # pod.under
    BY DEF AdmittedIsNotRefused
  <2>2. NamespaceOfCall = pod.namespace
    BY DEF NamespaceOfCall
  <2> QED
    BY <2>1, <2>2 DEF IInv, PodIsReviewed, RefusalHasReason
<1> QED
  BY <1>1, Invariance, PTL

\* Under a policy that requires pinned commits a volume shows the commit that its
\* revision names: checkRevisionPolicy and resolveHash read it the same way.
THEOREM PinnedNamed == Spec => []PinnedServesNamed
<1>1. IInv => PinnedServesNamed
  <2>1. SUFFICES ASSUME IInv, NEW v \in pod.volumes, Mounted(v),
                        Rules(v).revisions.requirePinnedCommit
                 PROVE  IsCommitSHA(v.revision) /\ mount[v].shown.commit = v.revision.commit
    BY DEF PinnedServesNamed
  <2>2. Permits(Rules(v), Parse(v)) /\ ShowsNamed(v, mount[v].shown)
    BY <2>1 DEF IInv, MountIsPermitted, Mounted
  <2>3. Parse(v).revision = v.revision
    BY DEF Parse
  <2>4. IsCommitSHA(v.revision)
    BY <2>1, <2>2, <2>3 DEF Permits, RevisionAllowed
  <2> QED
    BY <2>2, <2>4 DEF ShowsNamed
<1> QED
  BY <1>1, Invariance, PTL

\* A volume that follows a branch was allowed to, and this one, unless its revision
\* is a tag whose name is HEAD in any case.
THEOREM BranchAllowed == Spec => []BranchIsAllowed
<1>1. IInv => BranchIsAllowed
  <2>1. SUFFICES ASSUME IInv, NEW v \in pod.volumes, Mounted(v), mount[v].kind = "branch",
                        ~ (IsTag(v.revision) /\ v.revision.name \in HeadNames)
                 PROVE  LET rp == Rules(v).revisions
                        IN  /\ rp.allowBranches
                            /\ rp.branchPatterns # {} => MatchesAny(rp.branchPatterns, v.revision)
    BY DEF BranchIsAllowed
  <2>2. /\ Permits(Rules(v), Parse(v)) /\ WellFormed(v)
        /\ KindServed(Parse(v)) = "branch"
    BY <2>1 DEF IInv, MountIsPermitted, Mounted
  <2>3. v \in Attributes
    BY <2>1, PodVolume DEF IInv
  <2>4. Parse(v).revision = v.revision /\ Parse(v).kind = v.kind
    BY <2>3, ParseFields
  <2>5. ~ IsCommitSHA(v.revision)
    BY <2>2, <2>4 DEF KindServed
  <2>6. ~ IsTag(v.revision)
    BY <2>1, <2>2, <2>4, <2>5, NameAssumption
       DEF KindServed, ClonesAll, RefKind, MutableRef, WellFormed, ValidRevision, IsTag,
           IsCommitSHA, WholeText
  <2>7. IsBranch(v.revision)
    BY <2>5, <2>6 DEF IsBranch
  <2>8. RevisionAllowed(v.revision, Rules(v).revisions)
    BY <2>2, <2>4 DEF Permits
  <2> QED
    BY <2>5, <2>7, <2>8 DEF RevisionAllowed
<1> QED
  BY <1>1, Invariance, PTL

\* No clone is deeper than its policy's limit, or than its policy's default:
\* applyPolicyDefaults leaves no limit unset.
THEOREM DepthLimited == Spec => []DepthIsLimited
<1>1. IInv => DepthIsLimited
  <2>1. SUFFICES ASSUME IInv, NEW v \in pod.volumes, Mounted(v)
                 PROVE  /\ Rules(v).maxDepth > 0
                        /\ \/ mount[v].depth <= Rules(v).maxDepth
                           \/ mount[v].depth = Rules(v).defaultDepth
    BY DEF DepthIsLimited
  <2>2. /\ mount[v].under \in Loaded /\ mount[v].policy \in DOMAIN mount[v].under
        /\ Permits(Rules(v), Parse(v)) /\ WellFormed(v)
        /\ mount[v].depth = Depth(Parse(v), Rules(v))
    BY <2>1 DEF IInv, MountIsPermitted, Mounted
  <2>3. v \in Attributes
    BY <2>1, PodVolume DEF IInv
  <2>4. Parse(v).depth \in Nat
    BY <2>2, <2>3, ParsedDepth
  <2>5. Rules(v).maxDepth \in Nat \ {0}
    BY <2>2, LoadedLimits DEF Rules
  <2>6. CASE Parse(v).depth = 0
    BY <2>2, <2>5, <2>6 DEF Depth
  <2>7. CASE Parse(v).depth # 0
    <3>1. Parse(v).depth > 0 /\ Rules(v).maxDepth > 0
      BY <2>4, <2>5, <2>7
    <3>2. Parse(v).depth <= Rules(v).maxDepth
      BY <2>2, <3>1, PermittedDepth
    <3> QED
      BY <2>2, <2>5, <2>7, <3>2 DEF Depth
  <2> QED
    BY <2>6, <2>7
<1> QED
  BY <1>1, Invariance, PTL

\* A volume shows the directory that its path leads to, never one outside of the
\* repository or below .git; and what Parse accepts the backend does not refuse.
THEOREM PathWalked == Spec => []PathIsWalked
<1>1. IInv => PathIsWalked
  <2>1. SUFFICES ASSUME IInv, NEW v \in pod.volumes
                 PROVE  /\ WellFormed(v) => GuardsPath(Parse(v).path)
                        /\ Mounted(v) => /\ StaysInside(v.path)
                                         /\ mount[v].shown.path = Reached(v.path)
                                         /\ ".git" \notin Segments(Reached(v.path))
    BY DEF PathIsWalked
  <2>2. v \in Attributes
    BY <2>1, PodVolume DEF IInv
  <2>3. v.path \in Seq(STRING) /\ Parse(v).path = Clean(v.path)
    BY <2>2, ParseFields DEF Attributes
  <2>4. WellFormed(v) => AcceptsPath(v.path)
    BY DEF WellFormed
  <2>5. Mounted(v) => WellFormed(v) /\ mount[v].shown.path = Clean(Clean(v.path))
    BY <2>1 DEF IInv, MountIsPermitted, Mounted, ShowsNamed
  <2> QED
    BY <2>3, <2>4, <2>5, AcceptedIsReached
<1> QED
  BY <1>1, Invariance, PTL

\* A volume of a whole repository with submodules shows the commit that is linked,
\* unless the submodule has moved further from it than the policy's depth.
THEOREM ModuleLinked == Spec => []ModuleIsLinked
<1>1. IInv => ModuleIsLinked
  <2>1. SUFFICES ASSUME IInv, NEW v \in pod.volumes, Mounted(v), v.submodules,
                        Reached(v.path) = <<>>,
                        server.module - mount[v].shown.commit < Rules(v).submodules.maxDepth
                 PROVE  mount[v].shown.module = mount[v].shown.commit
    BY DEF ModuleIsLinked
  <2>2. v \in Attributes
    BY <2>1, PodVolume DEF IInv
  <2>3. /\ v.path \in Seq(STRING) /\ Parse(v).path = Clean(v.path)
        /\ Parse(v).submodules = v.submodules
    BY <2>2, ParseFields DEF Attributes
  <2>4. MountIsPermitted(v) /\ mount[v].code = "OK"
    BY <2>1 DEF IInv, Mounted
  <2>5. AcceptsPath(v.path)
    BY <2>4 DEF MountIsPermitted, WellFormed
  <2>6. HasModule(Parse(v))
    BY <2>1, <2>3, <2>5, AcceptedIsReached DEF HasModule
  <2> QED
    BY <2>1, <2>4, <2>6 DEF MountIsPermitted
<1> QED
  BY <1>1, Invariance, PTL

\* The link of POST /mount shows the directory that it was made for, and the commit
\* if that is pinned, however often its key is rebuilt.
THEOREM LinkNamed == Spec => []LinkShowsNamed
<1>1. IInv => LinkShowsNamed
  <2>1. SUFFICES ASSUME IInv, NEW v \in link.of, link.shown # Broken
                 PROVE  /\ link.shown.path = Reached(v.path)
                        /\ IsCommitSHA(v.revision) => link.shown.commit = v.revision.commit
    BY DEF LinkShowsNamed
  <2>2. PICK p \in Posts : /\ link.of = {p.volume} /\ WellFormed(p.volume)
                           /\ link.shown # Broken => ShowsNamed(p.volume, link.shown)
    BY <2>1 DEF IInv, LinkIsKeyed
  <2>3. v = p.volume /\ WellFormed(v) /\ ShowsNamed(v, link.shown)
    BY <2>1, <2>2
  <2>4. v.path \in Seq(STRING) /\ AcceptsPath(v.path)
    BY <2>3, PostAssumption DEF Attributes, WellFormed
  <2> QED
    BY <2>3, <2>4, AcceptedIsReached DEF ShowsNamed
<1> QED
  BY <1>1, Invariance, PTL
=============================================================================
