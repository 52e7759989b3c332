------------------------------ MODULE MCAdmission ------------------------------
(* Small instances of Admission. *)
EXTENDS Admission, TLC

Sha(c)         == [form |-> "sha", name |-> "", commit |-> c]
Ref(form, ref) == [form |-> form, name |-> ref, commit |-> 1]

Hosts == ("allowed" :> "host1") @@ ("other" :> "host2") @@ ("" :> "")

Revisions == {Sha(1), Sha(2), Ref("tag", "v1"), Ref("tag", "HEAD"),
              Ref("tag", "head"), Ref("branch", "main"),
              Ref("bare", "main"), Ref("bare", "v1"), Ref("bare", "HEAD")}

\* A plain volume, and those that differ from it in what one check reads.
Plain == [readOnly |-> TRUE, repo |-> "allowed", revision |-> Sha(1), kind |-> "",
          depth |-> <<>>, path |-> <<>>, submodules |-> FALSE, lfs |-> FALSE,
          policy |-> "", profile |-> ""]

ByRevision == {[Plain EXCEPT !.revision = r] : r \in Revisions}
ByKind     == {[Plain EXCEPT !.revision = r, !.kind = k] :
                 r \in {Sha(2), Ref("bare", "main"), Ref("bare", "v1")}, k \in {"tag", "tags", "branch"}}
                \cup {[Plain EXCEPT !.revision = Ref("branch", "main"), !.kind = "tag"],
                      [Plain EXCEPT !.revision = Ref("tag", "v1"), !.kind = "branch"]}
ByDepth    == {[Plain EXCEPT !.depth = d, !.revision = r] :
                 d \in {<<0>>, <<2>>, <<11>>}, r \in {Sha(1), Ref("bare", "main")}}
ByOther    == {[Plain EXCEPT !.readOnly = FALSE], [Plain EXCEPT !.repo = ""],
               [Plain EXCEPT !.repo = "other"], [Plain EXCEPT !.revision.form = "unsafe"],
               [Plain EXCEPT !.lfs = TRUE], [Plain EXCEPT !.policy = "prod"],
               [Plain EXCEPT !.policy = "none"], [Plain EXCEPT !.profile = "writer"]}
ByPath     == {[Plain EXCEPT !.path = p] :
                 p \in {<<"docs">>, <<"docs", "..", "src", ".">>, <<"docs", "..", "..", "docs">>,
                        <<"", "docs">>, <<"src", ".git">>, <<"lost">>}}
\* A directory that is linked, and volumes that share its key.
Linked     == [Plain EXCEPT !.path = <<"docs">>]
ByKey      == {[Linked EXCEPT !.depth = <<2>>], [Linked EXCEPT !.kind = "tags"]}
ByModule   == {[Plain EXCEPT !.submodules = TRUE, !.revision = r, !.path = p] :
                 r \in {Sha(1), Ref("bare", "main")}, p \in {<<>>, <<"docs">>}}

Dirs == {<<>>, <<"docs">>, <<"src">>, <<"docs", "src">>}

Pods == {{v} : v \in ByRevision \cup ByKind \cup ByDepth
                      \cup ByPath \cup ByKey \cup ByModule \cup ByOther}
          \cup {{Plain, [Plain EXCEPT !.readOnly = FALSE]},
                {Plain, [Plain EXCEPT !.repo = "other"]}}

Prod == [name |-> "prod", namespaces |-> {"web"},
         repositories |-> {{"allowed"}}, hosts |-> {"host1"},
         revisions |-> [requirePinnedCommit |-> TRUE, allowBranches |-> FALSE,
                        allowTags |-> FALSE, branchPatterns |-> {}, tagPatterns |-> {}],
         defaultDepth |-> 0, maxDepth |-> 2,
         submodules |-> [enabled |-> FALSE, maxDepth |-> 0], lfs |-> FALSE,
         defaultProfile |-> "reader", profiles |-> {"reader"}]

Dev == [Prod EXCEPT !.name = "dev", !.namespaces = {}, !.submodules.enabled = TRUE,
                    !.revisions = [requirePinnedCommit |-> FALSE, allowBranches |-> TRUE,
                                   allowTags |-> FALSE, tagPatterns |-> {},
                                   branchPatterns |-> {{Ref("bare", "main"),
                                                        Ref("branch", "main"),
                                                        Ref("bare", "HEAD")}}],
                    !.maxDepth = 0]

Tagged == [Dev EXCEPT !.name = "tagged", !.revisions.allowTags = TRUE,
                      !.revisions.allowBranches = FALSE, !.revisions.branchPatterns = {},
                      !.submodules.maxDepth = 2]

Files == {<<Prod, Dev>>, <<Tagged, Prod>>}

\* Targets on either side of the root, and one below the other.
Root    == <<"", "var", "lib", "kubelet", "">>
Targets == {<<"", "var", "lib", "kubelet", "pods", "..", "local">>,
            <<"", "var", "lib", "kubelet", "local", "below">>,
            <<"", "var", "lib", "kubelet", "pods", "..">>,
            <<"", "var", "lib", "kubelet", "..", "local">>}
Posted  == {[namespace |-> "", volume |-> Linked, target |-> t] : t \in Targets}
=============================================================================
