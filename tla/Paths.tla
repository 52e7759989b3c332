--------------------------------- MODULE Paths ----------------------------------
(***************************************************************************)
(* The path arithmetic of the driver, over texts split at their slashes:   *)
(* "docs/../src" is <<"docs", "..", "src">>, an absolute path begins with  *)
(* an empty segment, and <<>> is the empty text.                           *)
(***************************************************************************)
EXTENDS Integers, Sequences, SequencesExt

IsAbs(path) == Len(path) > 1 /\ Head(path) = ""

\* One segment of path.Clean; the names so far are below the root, or relative.
CleanStep(absolute, names, segment) ==
  CASE segment \in {"", "."} -> names
    [] segment = ".." /\ names # <<>> /\ Last(names) # ".." -> Front(names)
    [] segment = ".." /\ names = <<>> /\ absolute -> names
    [] OTHER -> Append(names, segment)

\* path.Clean and filepath.Clean: "." is <<>>, "/" is <<>> below the root.
Clean(path) ==
  FoldLeft(LAMBDA names, segment : CleanStep(IsAbs(path), names, segment), <<>>, path)

Segments(path) == {path[i] : i \in DOMAIN path}

\* filepath.IsLocal: where a path that is not absolute leads, without leaving.
IsLocal(path) == path # <<>> /\ ~IsAbs(path) /\ ".." \notin Segments(Clean(path))

-----------------------------------------------------------------------------

\* Mutant: parent segments are left to Clean.
TrustingAcceptsPath(raw) ==
  raw # <<>> => /\ "\\" \notin Segments(raw)
                /\ ~IsAbs(raw)
                /\ ".git" \notin Segments(Clean(raw))

\* normalizeRepoPath: whether a path attribute is accepted; it is then Clean.
AcceptsPath(raw) ==
  raw # <<>> => /\ "\\" \notin Segments(raw)
                /\ ~IsAbs(raw)
                /\ ".." \notin Segments(Clean(raw))
                /\ ".git" \notin Segments(Clean(raw))

\* What the go-git backend checks of the path again.
GuardsPath(path) ==
  path # <<>> => /\ IsLocal(path)
                 /\ {"..", ".git"} \cap Segments(Clean(path)) = {}

\* safeTargetPath: the target of POST /mount must lie below the root.
AcceptsTarget(root, target) ==
  IsAbs(root) /\ IsAbs(target) /\ IsStrictPrefix(Clean(root), Clean(target))

-----------------------------------------------------------------------------
(* What a path means, segment by segment from where it starts. *)

IsName(segment) == segment \notin {"", ".", ".."}

\* How far below its start the first i segments lead.
Level(path, i) ==
  Cardinality({j \in 1..i : IsName(path[j])}) - Cardinality({j \in 1..i : path[j] = ".."})

StaysInside(path) == \A i \in DOMAIN path : Level(path, i) >= 0

\* The names that no later segment climbs back over, in their order.
Reached(path) ==
  LET lasting == {i \in DOMAIN path :
                    IsName(path[i]) /\ \A j \in i..Len(path) : Level(path, j) >= Level(path, i)}
  IN  [n \in 1..Cardinality(lasting) |->
         path[CHOOSE i \in lasting : Cardinality({j \in lasting : j < i}) = n - 1]]
=============================================================================
