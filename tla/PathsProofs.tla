------------------------------ MODULE PathsProofs -------------------------------
(***************************************************************************)
(* What the path arithmetic means, for paths of any length: Clean, read    *)
(* segment by segment, is the walk that Reached defines, for an absolute   *)
(* path and for one that does not leave its start; of any other, ".." is   *)
(* left to be seen.                                                        *)
(***************************************************************************)
EXTENDS Paths, NaturalSets, FiniteSetTheorems, FunctionTheorems, SequenceTheorems

-----------------------------------------------------------------------------
(* The fold of Clean. *)

\* g is the recursive function of MapThenFoldSet in Clean, for the sets of D.
CleansSets(g, path, D) ==
  g = [s \in D |-> IF s = {} THEN <<>>
                   ELSE CleanStep(IsAbs(path), g[s \ {Max(s)}], path[Max(s)])]

UpTo(S, n) == {s \in SUBSET S : Cardinality(s) <= n}

\* Sets of segments are finite.
LEMMA IntervalSets ==
  ASSUME NEW n \in Nat
  PROVE  /\ IsFiniteSet(1..n) /\ Cardinality(1..n) = n
         /\ \A s \in SUBSET (1..n) :
              IsFiniteSet(s) /\ Cardinality(s) \in Nat /\ Cardinality(s) <= n
<1> DEFINE S == 1..n
<1>1. IsFiniteSet(S) /\ Cardinality(S) = n
  BY FS_Interval
<1> HIDE DEF S
<1>2. \A s \in SUBSET S : IsFiniteSet(s) /\ Cardinality(s) <= Cardinality(S)
  BY <1>1, FS_Subset
<1>3. \A s \in SUBSET S : Cardinality(s) \in Nat
  BY <1>2, FS_CardinalityType
<1> QED
  BY <1>1, <1>2, <1>3 DEF S

\* A finite set of numbers has a greatest one, which may be taken from it.
LEMMA MaxTaken ==
  ASSUME NEW n \in Nat, NEW s \in SUBSET (1..n), s # {}
  PROVE  /\ Max(s) \in s /\ \A i \in s : i <= Max(s)
         /\ Cardinality(s \ {Max(s)}) = Cardinality(s) - 1
         /\ Cardinality(s) \in Nat
<1> DEFINE above == {m \in Nat : \A i \in s : i <= m}
<1>1. n \in above
  OBVIOUS
<1>2. PICK m \in above : \A k \in above : m <= k
  <2> HIDE DEF above
  <2>1. above \in SUBSET Nat
    BY DEF above
  <2> QED
    BY <1>1, <2>1, LeastExists
<1>3. m \in s
  <2> SUFFICES ASSUME m \notin s PROVE FALSE
    OBVIOUS
  <2>1. PICK i \in s : TRUE
    OBVIOUS
  <2>2. i \in Nat /\ i < m /\ i > 0
    BY <1>2, <2>1
  <2>3. \A j \in s : j <= m - 1
    BY <1>2
  <2>4. m - 1 \in above
    BY <2>2, <2>3
  <2> QED
    BY <1>2, <2>4
<1>4. \E x \in s : \A y \in s : x >= y
  BY <1>2, <1>3
<1>5. Max(s) \in s /\ \A i \in s : i <= Max(s)
  BY <1>4 DEF Max
<1>6. IsFiniteSet(s)
  BY IntervalSets
<1> QED
  BY <1>5, <1>6, FS_RemoveElement, FS_CardinalityType

\* The recursive function exists, for sets of one more segment at a time.
LEMMA CleanGrows ==
  ASSUME NEW path \in Seq(STRING)
  PROVE  \A n \in Nat : \E g : CleansSets(g, path, UpTo(1..Len(path), n))
<1> DEFINE S == 1..Len(path)
<1> DEFINE P == {n \in Nat : \E g : CleansSets(g, path, UpTo(S, n))}
<1>1. \A s \in SUBSET S : IsFiniteSet(s) /\ Cardinality(s) \in Nat
  BY LenProperties, IntervalSets
<1>2. 0 \in P
  <2> DEFINE g == [s \in UpTo(S, 0) |-> <<>>]
  <2>1. \A s \in UpTo(S, 0) : s = {}
    BY <1>1, FS_EmptySet DEF UpTo
  <2>2. CleansSets(g, path, UpTo(S, 0))
    BY <2>1 DEF CleansSets
  <2> QED
    BY <2>2
<1>3. ASSUME NEW n \in P PROVE n + 1 \in P
  <2>1. PICK g : CleansSets(g, path, UpTo(S, n))
    OBVIOUS
  <2> DEFINE k == [s \in UpTo(S, n + 1) |->
                     IF s \in UpTo(S, n) THEN g[s]
                     ELSE CleanStep(IsAbs(path), g[s \ {Max(s)}], path[Max(s)])]
  <2>2. ASSUME NEW s \in UpTo(S, n + 1), s # {}
        PROVE  s \ {Max(s)} \in UpTo(S, n) /\ s \ {Max(s)} \in UpTo(S, n + 1)
    <3>1. s \in SUBSET S /\ Cardinality(s) <= n + 1
      BY DEF UpTo
    <3>2. Cardinality(s \ {Max(s)}) = Cardinality(s) - 1 /\ Cardinality(s) \in Nat
      BY <2>2, <3>1, LenProperties, MaxTaken
    <3> HIDE DEF S
    <3> QED
      BY <3>1, <3>2 DEF UpTo
  <2>3. ASSUME NEW s \in UpTo(S, n + 1)
        PROVE  k[s] = IF s = {} THEN <<>>
                      ELSE CleanStep(IsAbs(path), k[s \ {Max(s)}], path[Max(s)])
    <3>1. CASE s = {}
      <4>1. s \in UpTo(S, n)
        BY <3>1, FS_EmptySet DEF UpTo
      <4> QED
        BY <2>1, <3>1, <4>1 DEF CleansSets
    <3>2. CASE s # {}
      <4>1. k[s \ {Max(s)}] = g[s \ {Max(s)}]
        BY <2>2, <3>2
      <4>2. s \in UpTo(S, n) =>
              g[s] = CleanStep(IsAbs(path), g[s \ {Max(s)}], path[Max(s)])
        BY <2>1, <3>2 DEF CleansSets
      <4> QED
        BY <3>2, <4>1, <4>2
    <3> QED
      BY <3>1, <3>2
  <2>4. k = [s \in UpTo(S, n + 1) |->
               IF s = {} THEN <<>>
               ELSE CleanStep(IsAbs(path), k[s \ {Max(s)}], path[Max(s)])]
    <3> HIDE DEF k
    <3> QED
      BY <2>3 DEF k
  <2> HIDE DEF k
  <2>5. CleansSets(k, path, UpTo(S, n + 1))
    BY <2>4 DEF CleansSets
  <2> QED
    BY <2>5
<1>4. P = Nat
  <2> HIDE DEF P
  <2>1. P \in SUBSET Nat
    BY DEF P
  <2> QED
    BY <1>2, <1>3, <2>1, SetInduction
<1> QED
  BY <1>4

\* Clean is the value of that function for all segments.
LEMMA CleanFolds ==
  ASSUME NEW path \in Seq(STRING)
  PROVE  \E g : CleansSets(g, path, SUBSET (1..Len(path))) /\ Clean(path) = g[1..Len(path)]
<1>1. Clean(path) = (CHOOSE g : CleansSets(g, path, SUBSET DOMAIN path))[DOMAIN path]
  BY DEF Clean, FoldLeft, MapThenFoldSet, CleansSets
<1>2. DOMAIN path = 1..Len(path) /\ Len(path) \in Nat
  BY LenProperties
<1>3. \A s \in SUBSET (1..Len(path)) : Cardinality(s) <= Len(path)
  BY <1>2, IntervalSets
<1>4. UpTo(1..Len(path), Len(path)) = SUBSET (1..Len(path))
  BY <1>3 DEF UpTo
<1>5. \E g : CleansSets(g, path, SUBSET (1..Len(path)))
  <2>1. \A n \in Nat : \E g : CleansSets(g, path, UpTo(1..Len(path), n))
    BY CleanGrows
  <2>2. \E g : CleansSets(g, path, UpTo(1..Len(path), Len(path)))
    BY <1>2, <2>1
  <2> QED
    BY <1>4, <2>2
<1> QED
  BY <1>1, <1>2, <1>5

-----------------------------------------------------------------------------
(* The names that Clean has after each segment. *)

Builds(names, path) ==
  /\ names \in [0..Len(path) -> Seq(STRING)]
  /\ names[0] = <<>>
  /\ \A n \in 1..Len(path) : names[n] = CleanStep(IsAbs(path), names[n - 1], path[n])
  /\ Clean(path) = names[Len(path)]

\* What a sequence without its last element, and with one more, is.
LEMMA FrontElements ==
  ASSUME NEW S, NEW names \in Seq(S), names # <<>>
  PROVE  /\ Len(names) \in Nat \ {0}
         /\ Front(names) \in Seq(S) /\ Len(Front(names)) = Len(names) - 1
         /\ \A k \in 1..(Len(names) - 1) : Front(names)[k] = names[k]
         /\ Last(names) = names[Len(names)]
<1>1. Len(names) \in Nat \ {0}
  BY EmptySeq
<1>2. \A i \in 1..(Len(names) - 1) : names[i] \in S
  BY <1>1, ElementOfSeq
<1>3. Front(names) = SubSeq(names, 1, Len(names) - 1) /\ Last(names) = names[Len(names)]
  BY DEF Front, Last
<1> DEFINE n == Len(names) - 1
<1>4. n \in Nat /\ \A i \in 1..n : names[i] \in S
  BY <1>1, <1>2
<1> HIDE DEF n
<1>5. /\ SubSeq(names, 1, n) \in Seq(S)
      /\ Len(SubSeq(names, 1, n)) = IF 1 <= n THEN n - 1 + 1 ELSE 0
      /\ \A i \in 1..(n - 1 + 1) : SubSeq(names, 1, n)[i] = names[1 + i - 1]
  BY <1>4, SubSeqProperties
<1>6. /\ Len(SubSeq(names, 1, n)) = n
      /\ \A i \in 1..n : SubSeq(names, 1, n)[i] = names[i]
  BY <1>4, <1>5
<1> QED
  BY <1>1, <1>3, <1>5, <1>6 DEF n

\* One segment makes names of names.
LEMMA StepType ==
  ASSUME NEW absolute, NEW names \in Seq(STRING), NEW segment \in STRING
  PROVE  CleanStep(absolute, names, segment) \in Seq(STRING)
<1>1. Append(names, segment) \in Seq(STRING)
  BY AppendProperties
<1>2. names # <<>> => Front(names) \in Seq(STRING)
  BY FrontElements
<1> QED
  BY <1>1, <1>2 DEF CleanStep

\* Clean builds its names from the first segment to the last.
LEMMA CleanBuilds ==
  ASSUME NEW path \in Seq(STRING)
  PROVE  \E names : Builds(names, path)
<1> DEFINE N == Len(path)
<1>1. PICK g : CleansSets(g, path, SUBSET (1..N)) /\ Clean(path) = g[1..N]
  BY CleanFolds
<1>2. N \in Nat
  OBVIOUS
<1>3. g[{}] = <<>>
  BY <1>1 DEF CleansSets
<1>4. ASSUME NEW n \in 1..N
      PROVE  g[1..n] = CleanStep(IsAbs(path), g[1..(n - 1)], path[n])
  <2>1. 1..n \in SUBSET (1..N) /\ 1..n # {} /\ n \in Nat
    <3> HIDE DEF N
    <3>1. n \in 1..n /\ n \in Nat
      BY <1>2
    <3>2. \A i \in 1..n : i \in 1..N
      BY <1>2
    <3> QED
      BY <3>1, <3>2
  <2>2. Max(1..n) = n
    <3>1. Max(1..n) \in 1..n /\ \A i \in 1..n : i <= Max(1..n)
      BY <2>1, MaxTaken
    <3> QED
      BY <2>1, <3>1
  <2>3. (1..n) \ {n} = 1..(n - 1)
    BY <2>1
  <2>4. g[1..n] = CleanStep(IsAbs(path), g[(1..n) \ {Max(1..n)}], path[Max(1..n)])
    <3> DEFINE s == 1..n
    <3>1. s \in SUBSET (1..N) /\ s # {}
      BY <2>1
    <3> HIDE DEF s, N
    <3>2. g[s] = CleanStep(IsAbs(path), g[s \ {Max(s)}], path[Max(s)])
      BY <1>1, <3>1 DEF CleansSets
    <3> QED
      BY <3>2 DEF s
  <2> QED
    BY <2>2, <2>3, <2>4
<1>5. g[1..0] = <<>>
  <2>1. 1..0 = {}
    OBVIOUS
  <2> QED
    BY <1>3, <2>1
<1> DEFINE P == {n \in Nat : n <= N => g[1..n] \in Seq(STRING)}
<1>6. 0 \in P
  <2>1. <<>> \in Seq(STRING)
    BY EmptySeq
  <2> HIDE DEF N
  <2> QED
    BY <1>5, <2>1
<1>7. ASSUME NEW n \in P PROVE n + 1 \in P
  <2>1. CASE n + 1 <= N
    <3>1. n + 1 \in 1..N /\ (n + 1) - 1 = n /\ path[n + 1] \in STRING
      BY <1>2, <2>1
    <3>2. g[1..(n + 1)] = CleanStep(IsAbs(path), g[1..n], path[n + 1])
      <4>1. g[1..(n + 1)] = CleanStep(IsAbs(path), g[1..((n + 1) - 1)], path[n + 1])
        BY <1>4, <3>1
      <4> QED
        BY <3>1, <4>1
    <3>3. g[1..n] \in Seq(STRING)
      BY <1>2, <2>1
    <3>4. g[1..(n + 1)] \in Seq(STRING)
      BY <3>1, <3>2, <3>3, StepType
    <3> HIDE DEF N
    <3> QED
      BY <3>4
  <2> QED
    BY <1>2, <2>1
<1>8. P = Nat
  <2> HIDE DEF P
  <2>1. P \in SUBSET Nat
    BY DEF P
  <2> QED
    BY <1>6, <1>7, <2>1, SetInduction
<1>9. \A n \in 0..N : g[1..n] \in Seq(STRING)
  <2>1. \A n \in Nat : n <= N => g[1..n] \in Seq(STRING)
    BY <1>8
  <2> QED
    BY <1>2, <2>1
<1> DEFINE names == [n \in 0..N |-> g[1..n]]
<1>10. names \in [0..N -> Seq(STRING)]
  BY <1>9
<1>11. /\ names[0] = <<>> /\ names[N] = g[1..N]
       /\ \A n \in 1..N : names[n] = g[1..n] /\ names[n - 1] = g[1..(n - 1)]
  BY <1>2, <1>5
<1> HIDE DEF names, N
<1>12. \A n \in 1..N : names[n] = CleanStep(IsAbs(path), names[n - 1], path[n])
  BY <1>4, <1>11
<1>13. Builds(names, path)
  BY <1>1, <1>10, <1>11, <1>12 DEF Builds, N
<1> QED
  BY <1>13

-----------------------------------------------------------------------------
(* Levels. *)

\* One segment changes the level by at most one.
LEMMA LevelStep ==
  ASSUME NEW path, NEW i \in Nat
  PROVE  /\ Level(path, 0) = 0 /\ Level(path, i) \in Int
         /\ IsName(path[i + 1]) => Level(path, i + 1) = Level(path, i) + 1
         /\ path[i + 1] = ".." => Level(path, i + 1) = Level(path, i) - 1
         /\ path[i + 1] \in {"", "."} => Level(path, i + 1) = Level(path, i)
<1> DEFINE down(n) == {j \in 1..n : IsName(path[j])}
<1> DEFINE up(n) == {j \in 1..n : path[j] = ".."}
<1>1. ASSUME NEW n \in Nat
      PROVE  /\ IsFiniteSet(down(n)) /\ IsFiniteSet(up(n))
             /\ Cardinality(down(n)) \in Nat /\ Cardinality(up(n)) \in Nat
  <2>1. down(n) \in SUBSET (1..n) /\ up(n) \in SUBSET (1..n)
    OBVIOUS
  <2> HIDE DEF down, up
  <2> QED
    BY <2>1, IntervalSets
<1>2. down(i + 1) = IF IsName(path[i + 1]) THEN down(i) \cup {i + 1} ELSE down(i)
  OBVIOUS
<1>3. up(i + 1) = IF path[i + 1] = ".." THEN up(i) \cup {i + 1} ELSE up(i)
  OBVIOUS
<1>4. i + 1 \notin down(i) /\ i + 1 \notin up(i) /\ down(0) = {} /\ up(0) = {}
  OBVIOUS
<1>5. \A n : Level(path, n) = Cardinality(down(n)) - Cardinality(up(n))
  BY DEF Level
<1>6. IsName(path[i + 1]) <=> path[i + 1] \notin {"", ".", ".."}
  BY DEF IsName
<1> HIDE DEF down, up
<1>7. Cardinality(down(i + 1)) = Cardinality(down(i)) + (IF IsName(path[i + 1]) THEN 1 ELSE 0)
  <2>1. IsFiniteSet(down(i)) /\ Cardinality(down(i)) \in Nat
    BY <1>1
  <2>2. Cardinality(down(i) \cup {i + 1}) = Cardinality(down(i)) + 1
    BY <2>1, <1>4, FS_AddElement
  <2> QED
    BY <2>1, <2>2, <1>2
<1>8. Cardinality(up(i + 1)) = Cardinality(up(i)) + (IF path[i + 1] = ".." THEN 1 ELSE 0)
  <2>1. IsFiniteSet(up(i)) /\ Cardinality(up(i)) \in Nat
    BY <1>1
  <2>2. Cardinality(up(i) \cup {i + 1}) = Cardinality(up(i)) + 1
    BY <2>1, <1>4, FS_AddElement
  <2> QED
    BY <2>1, <2>2, <1>3
<1>9. Level(path, 0) = 0
  BY <1>4, <1>5, FS_EmptySet
<1>10. /\ Level(path, i) = Cardinality(down(i)) - Cardinality(up(i))
       /\ Level(path, i + 1) = Cardinality(down(i + 1)) - Cardinality(up(i + 1))
  BY <1>5
<1>11. Cardinality(down(i)) \in Nat /\ Cardinality(up(i)) \in Nat
  BY <1>1
<1>12. Level(path, i) \in Int
  BY <1>10, <1>11
<1>13. CASE IsName(path[i + 1])
  <2>1. path[i + 1] # ".." /\ path[i + 1] \notin {"", "."}
    BY <1>6, <1>13
  <2>2. Level(path, i + 1) = Level(path, i) + 1
    <3>1. Cardinality(down(i + 1)) = Cardinality(down(i)) + 1
      BY <1>7, <1>13
    <3>2. Cardinality(up(i + 1)) = Cardinality(up(i))
      BY <1>3, <2>1
    <3> QED
      BY <1>10, <1>11, <3>1, <3>2
  <2> QED
    BY <1>9, <1>12, <2>1, <2>2
<1>14. CASE path[i + 1] = ".."
  <2>1. ~ IsName(path[i + 1]) /\ path[i + 1] \notin {"", "."}
    BY <1>6, <1>14
  <2>2. Level(path, i + 1) = Level(path, i) - 1
    BY <1>7, <1>8, <1>10, <1>11, <1>14, <2>1
  <2> QED
    BY <1>9, <1>12, <2>1, <2>2
<1>15. CASE path[i + 1] \in {"", "."}
  <2>1. ~ IsName(path[i + 1]) /\ path[i + 1] # ".."
    BY <1>6, <1>15
  <2>2. Level(path, i + 1) = Level(path, i)
    BY <1>7, <1>8, <1>10, <1>11, <2>1
  <2> QED
    BY <1>9, <1>12, <2>1, <2>2
<1> QED
  BY <1>6, <1>13, <1>14, <1>15

\* The names among the first n segments that no later one of them climbs back over.
Lasting(path, n) ==
  {i \in 1..n : IsName(path[i]) /\ \A j \in i..n : Level(path, j) >= Level(path, i)}

\* A segment adds itself, if it is a name, or takes the name at the last level.
LEMMA LastingStep ==
  ASSUME NEW path, NEW n \in Nat
  PROVE  /\ IsName(path[n + 1]) => Lasting(path, n + 1) = Lasting(path, n) \cup {n + 1}
         /\ path[n + 1] = ".." =>
              Lasting(path, n + 1)
                = {i \in Lasting(path, n) : Level(path, i) <= Level(path, n) - 1}
         /\ path[n + 1] \in {"", "."} => Lasting(path, n + 1) = Lasting(path, n)
<1>1. \A i \in Nat : Level(path, i) \in Int
  BY LevelStep
<1>2. /\ IsName(path[n + 1]) => Level(path, n + 1) = Level(path, n) + 1
      /\ path[n + 1] = ".." => Level(path, n + 1) = Level(path, n) - 1
      /\ path[n + 1] \in {"", "."} => Level(path, n + 1) = Level(path, n)
  BY LevelStep
<1>3. \A i \in Lasting(path, n) : /\ i \in 1..n /\ i \in Nat /\ Level(path, n) >= Level(path, i)
                                  /\ Level(path, i) \in Int
  BY <1>1 DEF Lasting
<1>4. \A i \in 1..n : i..(n + 1) = (i..n) \cup {n + 1}
  OBVIOUS
<1>5. ASSUME NEW i \in 1..n
      PROVE  i \in Lasting(path, n + 1)
               <=> i \in Lasting(path, n) /\ Level(path, n + 1) >= Level(path, i)
  <2>1. i \in 1..(n + 1)
    OBVIOUS
  <2> QED
    BY <1>4, <2>1 DEF Lasting
<1>6. n + 1 \in Lasting(path, n + 1) <=> IsName(path[n + 1])
  <2>1. (n + 1)..(n + 1) = {n + 1} /\ n + 1 \in 1..(n + 1)
    OBVIOUS
  <2>2. Level(path, n + 1) >= Level(path, n + 1)
    <3>1. Level(path, n + 1) \in Int
      BY <1>1
    <3> QED
      BY <3>1
  <2> QED
    BY <2>1, <2>2 DEF Lasting
<1>7. \A i \in Lasting(path, n + 1) : i \in 1..n \/ i = n + 1
  BY DEF Lasting
<1>8. IsName(path[n + 1]) <=> path[n + 1] \notin {"", ".", ".."}
  BY DEF IsName
<1>9. CASE IsName(path[n + 1])
  <2>1. \A i \in Lasting(path, n) : Level(path, n + 1) >= Level(path, i)
    <3>1. Level(path, n) \in Int /\ Level(path, n + 1) = Level(path, n) + 1
      BY <1>2, <1>9, LevelStep
    <3> QED
      BY <1>3, <3>1
  <2> QED
    BY <1>3, <1>5, <1>6, <1>7, <1>8, <1>9, <2>1
<1>10. CASE path[n + 1] = ".."
  <2>1. \A i \in Lasting(path, n) : Level(path, n + 1) >= Level(path, i)
                                      <=> Level(path, i) <= Level(path, n) - 1
    BY <1>1, <1>2, <1>3, <1>8, <1>10
  <2> QED
    BY <1>3, <1>5, <1>6, <1>7, <1>8, <1>10, <2>1
<1>11. CASE path[n + 1] \in {"", "."}
  <2>1. Level(path, n + 1) = Level(path, n)
    BY <1>1, <1>2, <1>8, <1>11
  <2> QED
    BY <1>3, <1>5, <1>6, <1>7, <1>8, <1>11, <2>1
<1> QED
  BY <1>8, <1>9, <1>10, <1>11

\* The names are those that last, in the order of their levels from m up.
Follows(path, names, n, m) ==
  /\ Len(names) = Level(path, n) - m
  /\ \A i \in Lasting(path, n) : /\ Level(path, i) - m \in 1..Len(names)
                                 /\ names[Level(path, i) - m] = path[i]
  /\ \A k \in 1..Len(names) : \E i \in Lasting(path, n) : Level(path, i) - m = k

\* A path that may climb over its start, or has not.
Inside(path, n, m) ==
  IsAbs(path) \/ (m = 0 /\ \A j \in 1..n : Level(path, j) >= 0)

\* A path that has left its start, which the names still tell.
Left(path, names, n) ==
  /\ ~ IsAbs(path) /\ names # <<>> /\ names[1] = ".."
  /\ \E j \in 1..n : Level(path, j) < 0

\* CleanStep follows the segments, until a relative path leaves its start.
LEMMA FollowsStep ==
  ASSUME NEW path \in Seq(STRING), NEW n \in Nat, n + 1 <= Len(path),
         NEW names \in Seq(STRING), NEW m \in Int,
         Follows(path, names, n, m), Inside(path, n, m)
  PROVE  LET next == CleanStep(IsAbs(path), names, path[n + 1])
         IN  \/ \E k \in Int : Follows(path, next, n + 1, k) /\ Inside(path, n + 1, k)
             \/ Left(path, next, n + 1)
<1> DEFINE s == path[n + 1]
<1> DEFINE next == CleanStep(IsAbs(path), names, s)
<1>1. s \in STRING /\ Len(names) \in Nat
  BY ElementOfSeq, LenProperties
<1>2. /\ \A i \in Nat : Level(path, i) \in Int
      /\ IsName(s) => Level(path, n + 1) = Level(path, n) + 1
      /\ s = ".." => Level(path, n + 1) = Level(path, n) - 1
      /\ s \in {"", "."} => Level(path, n + 1) = Level(path, n)
  BY LevelStep
<1>3. IsName(s) <=> s \notin {"", ".", ".."}
  BY DEF IsName
<1>4. \A i \in Lasting(path, n) : i \in Nat /\ i \in 1..n /\ IsName(path[i])
                                  /\ Level(path, i) \in Int
  <2> SUFFICES ASSUME NEW i \in Lasting(path, n)
               PROVE  i \in Nat /\ i \in 1..n /\ IsName(path[i]) /\ Level(path, i) \in Int
    OBVIOUS
  <2>1. i \in Nat /\ i \in 1..n /\ IsName(path[i])
    BY DEF Lasting
  <2> QED
    BY <2>1, LevelStep
<1>5. \A j \in 1..(n + 1) : j \in 1..n \/ j = n + 1
  OBVIOUS
<1>6. /\ Len(names) = Level(path, n) - m
      /\ \A i \in Lasting(path, n) : /\ Level(path, i) - m \in 1..Len(names)
                                     /\ names[Level(path, i) - m] = path[i]
      /\ \A k \in 1..Len(names) : \E i \in Lasting(path, n) : Level(path, i) - m = k
  BY DEF Follows
<1>7. CASE s \in {"", "."}
  <2>1. next = names /\ Level(path, n + 1) = Level(path, n)
        /\ Lasting(path, n + 1) = Lasting(path, n)
    <3>1. next = names
      BY <1>7 DEF CleanStep
    <3> QED
      BY <1>2, <1>7, <3>1, LastingStep
  <2>2. Follows(path, next, n + 1, m)
    BY <2>1 DEF Follows
  <2>3. Inside(path, n + 1, m)
    <3>1. Level(path, n) \in Int
      BY LevelStep
    <3>2. Level(path, n) = Len(names) + m
      BY <1>1, <1>6, <3>1
    <3> QED
      BY <1>1, <1>5, <2>1, <3>2 DEF Inside
  <2> QED
    BY <2>2, <2>3
<1>8. CASE s = ".." /\ names # <<>>
  <2>1. /\ Len(names) \in Nat \ {0}
        /\ Front(names) \in Seq(STRING) /\ Len(Front(names)) = Len(names) - 1
        /\ \A k \in 1..(Len(names) - 1) : Front(names)[k] = names[k]
        /\ Last(names) = names[Len(names)]
    BY <1>8, FrontElements
  <2>2. Last(names) # ".."
    <3>1. Len(names) \in 1..Len(names)
      BY <2>1
    <3>2. PICK i \in Lasting(path, n) : Level(path, i) - m = Len(names)
      BY <1>6, <3>1
    <3>3. names[Len(names)] = path[i] /\ IsName(path[i])
      BY <1>4, <1>6, <3>2
    <3> QED
      BY <2>1, <3>3 DEF IsName
  <2>3. next = Front(names)
    BY <1>8, <2>2 DEF CleanStep
  <2>4. /\ Level(path, n + 1) = Level(path, n) - 1 /\ Level(path, n) \in Int
        /\ Lasting(path, n + 1)
             = {i \in Lasting(path, n) : Level(path, i) <= Level(path, n) - 1}
    BY <1>2, <1>3, <1>8, LastingStep
  <2>5. Len(next) = Level(path, n + 1) - m
    BY <1>6, <2>1, <2>3, <2>4
  <2>6. ASSUME NEW i \in Lasting(path, n + 1)
        PROVE  Level(path, i) - m \in 1..Len(next) /\ next[Level(path, i) - m] = path[i]
    <3>1. i \in Lasting(path, n) /\ Level(path, i) <= Level(path, n) - 1
      BY <2>4
    <3>2. Level(path, i) - m \in 1..(Len(names) - 1)
      BY <1>4, <1>6, <2>1, <2>4, <3>1
    <3> QED
      BY <1>6, <2>1, <2>3, <3>1, <3>2
  <2>7. ASSUME NEW k \in 1..Len(next)
        PROVE  \E i \in Lasting(path, n + 1) : Level(path, i) - m = k
    <3>1. k \in 1..Len(names) /\ k <= Len(names) - 1
      BY <2>1, <2>3
    <3>2. PICK i \in Lasting(path, n) : Level(path, i) - m = k
      BY <1>6, <3>1
    <3>3. Level(path, i) <= Level(path, n) - 1
      BY <1>4, <1>6, <2>4, <3>1, <3>2
    <3> QED
      BY <2>4, <3>2, <3>3
  <2>8. Follows(path, next, n + 1, m)
    BY <2>5, <2>6, <2>7 DEF Follows
  <2>9. Inside(path, n + 1, m)
    <3>1. Level(path, n + 1) >= m
      BY <1>6, <2>1, <2>4
    <3> QED
      BY <1>5, <3>1 DEF Inside
  <2> QED
    BY <2>8, <2>9
<1>9. CASE s = ".." /\ names = <<>>
  <2>1. Len(names) = 0 /\ Level(path, n) = m
    <3>1. Len(names) = 0
      BY <1>9, EmptySeq
    <3>2. Level(path, n) \in Int
      BY <1>2
    <3> QED
      BY <1>6, <3>1, <3>2
  <2>2. Lasting(path, n) = {}
    BY <1>6, <2>1
  <2>3. /\ Level(path, n + 1) = m - 1 /\ Lasting(path, n + 1) = {}
    <3>1. Lasting(path, n + 1) = {i \in Lasting(path, n) : Level(path, i) <= Level(path, n) - 1}
      BY <1>9, LastingStep
    <3> QED
      BY <1>2, <1>9, <2>1, <2>2, <3>1
  <2>4. CASE IsAbs(path)
    <3>1. next = <<>> /\ Len(next) = 0
      BY <1>9, <2>4, <2>1 DEF CleanStep
    <3>2. Follows(path, next, n + 1, m - 1)
      BY <2>3, <3>1 DEF Follows
    <3>3. m - 1 \in Int /\ Inside(path, n + 1, m - 1)
      BY <2>4 DEF Inside
    <3> QED
      BY <3>2, <3>3
  <2>5. CASE ~ IsAbs(path)
    <3>1. next = Append(names, s)
      BY <1>9, <2>5 DEF CleanStep
    <3>2. next # <<>> /\ next[1] = ".."
      <4>1. names \in Seq(STRING) /\ s \in STRING
        BY <1>1
      <4>2. Append(names, s) # <<>> /\ Append(names, s)[Len(names) + 1] = s
        BY <4>1, AppendProperties
      <4> QED
        BY <1>9, <2>1, <3>1, <4>2
    <3>3. Level(path, n + 1) < 0 /\ n + 1 \in 1..(n + 1)
      BY <2>3, <2>5 DEF Inside
    <3>4. Left(path, next, n + 1)
      BY <2>5, <3>2, <3>3 DEF Left
    <3> QED
      BY <3>4
  <2> QED
    BY <2>4, <2>5
<1>10. CASE IsName(s)
  <2>1. next = Append(names, s)
    BY <1>3, <1>10 DEF CleanStep
  <2>2. /\ Len(next) = Len(names) + 1
        /\ \A k \in 1..Len(names) : next[k] = names[k]
        /\ next[Len(names) + 1] = s
    BY <1>1, <2>1, AppendProperties
  <2>3. /\ Level(path, n + 1) = Level(path, n) + 1 /\ Level(path, n) \in Int
        /\ Lasting(path, n + 1) = Lasting(path, n) \cup {n + 1}
    BY <1>2, <1>10, LastingStep
  <2>4. Len(next) = Level(path, n + 1) - m
    BY <1>1, <1>6, <2>2, <2>3
  <2>5. Level(path, n + 1) - m = Len(names) + 1
    BY <1>6, <2>3
  <2>6. ASSUME NEW i \in Lasting(path, n + 1)
        PROVE  Level(path, i) - m \in 1..Len(next) /\ next[Level(path, i) - m] = path[i]
    <3>1. CASE i = n + 1
      BY <1>1, <2>2, <2>5, <3>1
    <3>2. CASE i \in Lasting(path, n)
      BY <1>1, <1>6, <2>2, <3>2
    <3> QED
      BY <2>3, <3>1, <3>2
  <2>7. ASSUME NEW k \in 1..Len(next)
        PROVE  \E i \in Lasting(path, n + 1) : Level(path, i) - m = k
    <3>1. CASE k = Len(names) + 1
      BY <2>3, <2>5, <3>1
    <3>2. CASE k # Len(names) + 1
      <4>1. k \in 1..Len(names)
        BY <1>1, <2>2, <3>2
      <4> QED
        BY <1>6, <2>3, <4>1
    <3> QED
      BY <3>1, <3>2
  <2>8. Follows(path, next, n + 1, m)
    BY <2>4, <2>6, <2>7 DEF Follows
  <2>9. Inside(path, n + 1, m)
    <3>1. Level(path, n + 1) >= m
      BY <1>1, <1>6, <2>3
    <3> QED
      BY <1>5, <3>1 DEF Inside
  <2> QED
    BY <2>8, <2>9
<1> QED
  BY <1>3, <1>7, <1>8, <1>9, <1>10

\* Clean walks the whole path, or tells that it leaves its start.
LEMMA CleanFollows ==
  ASSUME NEW path \in Seq(STRING)
  PROVE  \/ \E m \in Int : /\ Follows(path, Clean(path), Len(path), m)
                           /\ Inside(path, Len(path), m)
         \/ Left(path, Clean(path), Len(path))
<1>1. PICK names : Builds(names, path)
  BY CleanBuilds
<1>2. /\ names \in [0..Len(path) -> Seq(STRING)] /\ names[0] = <<>>
      /\ \A n \in 1..Len(path) : names[n] = CleanStep(IsAbs(path), names[n - 1], path[n])
      /\ Clean(path) = names[Len(path)] /\ Len(path) \in Nat
  BY <1>1, LenProperties DEF Builds
<1> DEFINE Fine(n) == \/ \E m \in Int : Follows(path, names[n], n, m) /\ Inside(path, n, m)
                      \/ Left(path, names[n], n)
<1> DEFINE P == {n \in Nat : n <= Len(path) => Fine(n)}
<1>3. 0 \in P
  <2>1. Len(names[0]) = 0 /\ Level(path, 0) = 0 /\ Lasting(path, 0) = {}
    <3>1. Len(names[0]) = 0
      BY <1>2, EmptySeq
    <3>2. Level(path, 0) = 0
      BY LevelStep
    <3> QED
      BY <3>1, <3>2 DEF Lasting
  <2>2. Follows(path, names[0], 0, 0)
    BY <2>1 DEF Follows
  <2>3. Inside(path, 0, 0)
    BY DEF Inside
  <2> QED
    BY <2>2, <2>3
<1>4. ASSUME NEW n \in P PROVE n + 1 \in P
  <2> SUFFICES ASSUME n + 1 <= Len(path) PROVE Fine(n + 1)
    OBVIOUS
  <2>1. n \in Nat /\ n + 1 \in 1..Len(path) /\ n \in 0..Len(path) /\ n <= Len(path)
    BY <1>2
  <2>2. names[n + 1] = CleanStep(IsAbs(path), names[n], path[n + 1])
    <3>1. (n + 1) - 1 = n
      BY <2>1
    <3>2. names[n + 1] = CleanStep(IsAbs(path), names[(n + 1) - 1], path[n + 1])
      BY <1>2, <2>1
    <3> QED
      BY <3>1, <3>2
  <2>3. names[n] \in Seq(STRING) /\ path[n + 1] \in STRING
    BY <1>2, <2>1, ElementOfSeq
  <2>4. CASE \E m \in Int : Follows(path, names[n], n, m) /\ Inside(path, n, m)
    <3>1. PICK m \in Int : Follows(path, names[n], n, m) /\ Inside(path, n, m)
      BY <2>4
    <3> QED
      BY <2>1, <2>2, <2>3, <3>1, FollowsStep
  <2>5. CASE Left(path, names[n], n)
    <3>1. /\ ~ IsAbs(path) /\ names[n] # <<>> /\ names[n][1] = ".."
          /\ \E j \in 1..n : Level(path, j) < 0
      BY <2>5 DEF Left
    <3>2. \E j \in 1..(n + 1) : Level(path, j) < 0
      BY <2>1, <3>1
    <3> DEFINE old == names[n]
    <3> DEFINE segment == path[n + 1]
    <3>3. /\ Len(old) \in Nat \ {0}
          /\ Front(old) \in Seq(STRING) /\ Len(Front(old)) = Len(old) - 1
          /\ \A k \in 1..(Len(old) - 1) : Front(old)[k] = old[k]
          /\ Last(old) = old[Len(old)]
      BY <2>3, <3>1, FrontElements
    <3>4. CASE CleanStep(IsAbs(path), old, segment) = old
      BY <2>2, <3>1, <3>2, <3>4 DEF Left
    <3>5. CASE CleanStep(IsAbs(path), old, segment) = Front(old) /\ Last(old) # ".."
      <4>1. Len(old) # 1
        BY <3>1, <3>3, <3>5
      <4>2. Len(Front(old)) > 0 /\ Front(old)[1] = ".." /\ Front(old) # <<>>
        <5>1. 1 \in 1..(Len(old) - 1) /\ Len(Front(old)) > 0
          <6> HIDE DEF old
          <6> QED
            BY <3>3, <4>1
        <5>2. Len(<<>>) = 0
          OBVIOUS
        <5> QED
          BY <3>1, <3>3, <5>1, <5>2
      <4> QED
        BY <2>2, <3>1, <3>2, <3>5, <4>2 DEF Left
    <3>6. CASE CleanStep(IsAbs(path), old, segment) = Append(old, segment)
      <4>1. Append(old, segment) # <<>> /\ Append(old, segment)[1] = ".."
        <5>1. /\ Append(old, segment) # <<>>
              /\ \A i \in 1..Len(old) : Append(old, segment)[i] = old[i]
          BY <2>3, AppendProperties
        <5>2. 1 \in 1..Len(old)
          BY <3>3
        <5> QED
          BY <3>1, <5>1, <5>2
      <4> QED
        BY <2>2, <3>1, <3>2, <3>6, <4>1 DEF Left
    <3>7. \/ CleanStep(IsAbs(path), old, segment) = old
          \/ CleanStep(IsAbs(path), old, segment) = Front(old) /\ Last(old) # ".."
          \/ CleanStep(IsAbs(path), old, segment) = Append(old, segment)
      <4> HIDE DEF old, segment
      <4> QED
        BY DEF CleanStep
    <3> QED
      BY <3>4, <3>5, <3>6, <3>7
  <2> QED
    BY <2>1, <2>4, <2>5
<1>5. P = Nat
  <2> HIDE DEF P
  <2>1. P \in SUBSET Nat
    BY DEF P
  <2> QED
    BY <1>3, <1>4, <2>1, SetInduction
<1>6. Fine(Len(path))
  <2>1. \A n \in Nat : n <= Len(path) => Fine(n)
    <3> HIDE DEF Fine
    <3> QED
      BY <1>5
  <2>2. Len(path) \in Nat /\ Len(path) <= Len(path)
    BY <1>2
  <2> HIDE DEF Fine
  <2> QED
    BY <2>1, <2>2
<1> QED
  BY <1>2, <1>6

-----------------------------------------------------------------------------
(* Reached. *)

\* The names that last, at levels that count from 1, are what a path reaches.
LEMMA FollowsReached ==
  ASSUME NEW path \in Seq(STRING), NEW names \in Seq(STRING), NEW m \in Int,
         Follows(path, names, Len(path), m)
  PROVE  names = Reached(path)
<1> DEFINE N == Len(path)
<1> DEFINE lasting == Lasting(path, N)
<1> DEFINE L == Len(names)
<1> DEFINE at == [i \in lasting |-> Level(path, i) - m]
<1> DEFINE before(i) == {j \in lasting : j < i}
<1>1. DOMAIN path = 1..N /\ N \in Nat /\ L \in Nat
  BY LenProperties
<1>2. lasting = {i \in DOMAIN path :
                   IsName(path[i]) /\ \A j \in i..Len(path) : Level(path, j) >= Level(path, i)}
  BY <1>1 DEF Lasting
<1>3. /\ \A i \in lasting : at[i] \in 1..L /\ names[at[i]] = path[i]
      /\ \A k \in 1..L : \E i \in lasting : at[i] = k
  BY DEF Follows
<1>4. ASSUME NEW i \in lasting
      PROVE  i \in 1..N /\ i \in Nat /\ i > 0 /\ Level(path, i) \in Int /\ IsName(path[i])
             /\ \A j \in i..N : Level(path, j) >= Level(path, i)
  <2>1. i \in 1..N /\ IsName(path[i]) /\ \A j \in i..N : Level(path, j) >= Level(path, i)
    BY DEF Lasting
  <2>2. i \in Nat /\ i > 0
    BY <1>1, <2>1
  <2> QED
    BY <2>1, <2>2, LevelStep
<1>5. ASSUME NEW i \in lasting, NEW j \in lasting, i < j PROVE at[i] < at[j]
  <2>1. j - 1 \in Nat /\ j - 1 \in i..N /\ (j - 1) + 1 = j /\ IsName(path[j])
        /\ i \in Nat /\ j \in Nat
    BY <1>1, <1>4, <1>5
  <2>2. Level(path, j - 1) \in Int /\ Level(path, j) = Level(path, j - 1) + 1
    <3>1. IsName(path[(j - 1) + 1])
      BY <2>1
    <3>2. Level(path, (j - 1) + 1) = Level(path, j - 1) + 1 /\ Level(path, j - 1) \in Int
      BY <2>1, <3>1, LevelStep
    <3> QED
      BY <2>1, <3>2
  <2>3. Level(path, j - 1) >= Level(path, i)
    BY <1>4, <2>1
  <2>4. Level(path, i) \in Int /\ Level(path, j) \in Int
    BY <1>4
  <2>5. Level(path, i) - m < Level(path, j) - m
    BY <2>2, <2>3, <2>4
  <2> QED
    BY <2>5
<1>6. ASSUME NEW i \in lasting, NEW j \in lasting PROVE i = j \/ at[i] # at[j]
  <2>1. i < j \/ j < i \/ i = j
    BY <1>4
  <2>2. at[i] \in 1..L /\ at[j] \in 1..L
    BY <1>3
  <2> HIDE DEF at, lasting, L
  <2>3. at[i] \in Int /\ at[j] \in Int
    BY <1>1, <2>2
  <2> QED
    BY <1>5, <2>1, <2>3
<1>7. ASSUME NEW i \in lasting, NEW j \in lasting PROVE j < i <=> at[j] < at[i]
  <2>1. i < j \/ j < i \/ i = j
    BY <1>4
  <2>2. i \in Nat /\ j \in Nat
    BY <1>4
  <2>3. at[i] \in 1..L /\ at[j] \in 1..L
    BY <1>3
  <2> HIDE DEF at, lasting, L
  <2>4. at[i] \in Int /\ at[j] \in Int
    BY <1>1, <2>3
  <2> QED
    BY <1>5, <2>1, <2>2, <2>4
<1>8. Cardinality(lasting) = L
  <2>1. at \in Bijection(lasting, 1..L)
    <3>1. at \in [lasting -> 1..L]
      BY <1>3
    <3> HIDE DEF at, lasting, L
    <3> QED
      BY <1>3, <1>6, <3>1 DEF Bijection, Injection, Surjection, IsInjective
  <2> HIDE DEF at, lasting, L
  <2>2. ExistsBijection(1..L, lasting)
    <3>1. ExistsBijection(lasting, 1..L)
      BY <2>1 DEF ExistsBijection
    <3> QED
      BY <3>1, Fun_ExistsBijSymmetric
  <2> QED
    BY <1>1, <2>2, FS_CountingElements
<1>9. ASSUME NEW i \in lasting PROVE Cardinality(before(i)) = at[i] - 1
  <2> DEFINE down == [j \in before(i) |-> at[j]]
  <2>1. at[i] \in 1..L /\ at[i] \in Int /\ at[i] - 1 \in Nat
    <3>1. at[i] \in 1..L
      BY <1>3
    <3> HIDE DEF at, L
    <3> QED
      BY <1>1, <3>1
  <2>2. \A j \in before(i) : at[j] \in 1..(at[i] - 1)
    <3> SUFFICES ASSUME NEW j \in before(i) PROVE at[j] \in 1..(at[i] - 1)
      OBVIOUS
    <3>1. j \in lasting /\ at[j] < at[i] /\ at[j] \in 1..L
      BY <1>3, <1>7
    <3> HIDE DEF at, L, lasting, before
    <3> QED
      BY <1>1, <2>1, <3>1
  <2>3. \A k \in 1..(at[i] - 1) : \E j \in before(i) : at[j] = k
    <3> SUFFICES ASSUME NEW k \in 1..(at[i] - 1) PROVE \E j \in before(i) : at[j] = k
      OBVIOUS
    <3>1. k \in 1..L /\ k < at[i]
      <4> HIDE DEF at, L
      <4> QED
        BY <1>1, <2>1
    <3>2. PICK j \in lasting : at[j] = k
      <4> HIDE DEF at, lasting, L
      <4> QED
        BY <1>3, <3>1
    <3>3. j < i
      <4> HIDE DEF at, lasting, L
      <4> QED
        BY <1>7, <3>1, <3>2
    <3> HIDE DEF at, lasting
    <3> QED
      BY <3>2, <3>3
  <2>4. down \in Bijection(before(i), 1..(at[i] - 1))
    <3>1. \A j, k \in before(i) : j = k \/ at[j] # at[k]
      <4> HIDE DEF at, lasting
      <4> QED
        BY <1>6
    <3> HIDE DEF at, lasting, before
    <3> QED
      BY <2>2, <2>3, <3>1 DEF Bijection, Injection, Surjection, IsInjective
  <2>5. ExistsBijection(1..(at[i] - 1), before(i))
    <3> HIDE DEF down, at, before
    <3>1. ExistsBijection(before(i), 1..(at[i] - 1))
      BY <2>4 DEF ExistsBijection
    <3> QED
      BY <3>1, Fun_ExistsBijSymmetric
  <2> HIDE DEF before, at
  <2> QED
    BY <2>1, <2>5, FS_CountingElements
<1> DEFINE found(n) == CHOOSE i \in lasting : Cardinality({j \in lasting : j < i}) = n - 1
<1>10. Reached(path) = [n \in 1..Cardinality(lasting) |-> path[found(n)]]
  <2> HIDE DEF lasting
  <2> QED
    BY <1>2 DEF Reached
<1>11. ASSUME NEW n \in 1..L PROVE path[found(n)] = names[n]
  <2>1. PICK i \in lasting : at[i] = n
    BY <1>3
  <2>2. \A j \in lasting : Cardinality({k \in lasting : k < j}) = n - 1 <=> at[j] = n
    <3> SUFFICES ASSUME NEW j \in lasting
                 PROVE  Cardinality({k \in lasting : k < j}) = n - 1 <=> at[j] = n
      OBVIOUS
    <3>1. Cardinality({k \in lasting : k < j}) = at[j] - 1
      BY <1>9
    <3>2. at[j] \in 1..L
      BY <1>3
    <3> HIDE DEF at, lasting, L
    <3> QED
      BY <1>1, <3>1, <3>2
  <2> HIDE DEF at, lasting, L
  <2>3. \E j \in lasting : Cardinality({k \in lasting : k < j}) = n - 1
    BY <2>1, <2>2
  <2>4. found(n) \in lasting /\ Cardinality({k \in lasting : k < found(n)}) = n - 1
    BY <2>3
  <2>5. found(n) \in lasting /\ at[found(n)] = n
    BY <2>2, <2>4
  <2> HIDE DEF found
  <2> QED
    BY <1>3, <2>5
<1>12. names = [n \in 1..L |-> names[n]]
  BY LenProperties
<1> HIDE DEF found, lasting
<1> QED
  BY <1>8, <1>10, <1>11, <1>12

\* The segments that are reached are names of the path.
LEMMA FollowsNames ==
  ASSUME NEW path \in Seq(STRING), NEW names, NEW m, Follows(path, names, Len(path), m)
  PROVE  \A k \in 1..Len(names) : IsName(names[k])
<1> SUFFICES ASSUME NEW k \in 1..Len(names) PROVE IsName(names[k])
  OBVIOUS
<1>1. PICK i \in Lasting(path, Len(path)) : Level(path, i) - m = k
  BY DEF Follows
<1>2. names[k] = path[i]
  BY <1>1 DEF Follows
<1> QED
  BY <1>1, <1>2 DEF Lasting

-----------------------------------------------------------------------------
(* What Clean, and the checks before and after it, come to. *)

\* Clean of names alone changes nothing.
LEMMA CleanOfNames ==
  ASSUME NEW names \in Seq(STRING), \A k \in 1..Len(names) : IsName(names[k])
  PROVE  ~ IsAbs(names) /\ Clean(names) = names
<1>1. ~ IsAbs(names)
  <2> SUFFICES ASSUME IsAbs(names) PROVE FALSE
    OBVIOUS
  <2>1. Len(names) > 1 /\ Head(names) = "" /\ Len(names) \in Nat
    BY LenProperties DEF IsAbs
  <2>2. 1 \in 1..Len(names) /\ Len(names) \in 1..Len(names)
    <3> DEFINE n == Len(names)
    <3>1. n > 1 /\ n \in Nat
      BY <2>1
    <3> HIDE DEF n
    <3>2. 1 \in 1..n /\ n \in 1..n
      BY <3>1
    <3> QED
      BY <3>2 DEF n
  <2>3. names[1] = ""
    <3>1. SubSeq(names, 1, Len(names)) = names
      BY SubSeqFull
    <3>2. Head(SubSeq(names, 1, Len(names))) = names[1]
      BY <2>2, HeadTailOfSubSeq
    <3> QED
      BY <2>1, <3>1, <3>2
  <2> QED
    BY <2>2, <2>3 DEF IsName
<1>2. PICK built : Builds(built, names)
  BY CleanBuilds
<1>3. /\ built[0] = <<>> /\ Clean(names) = built[Len(names)] /\ Len(names) \in Nat
      /\ \A n \in 1..Len(names) : built[n] = CleanStep(IsAbs(names), built[n - 1], names[n])
  BY <1>2, LenProperties DEF Builds
<1> DEFINE P == {n \in Nat : n <= Len(names) => built[n] = SubSeq(names, 1, n)}
<1>4. 0 \in P
  <2>1. SubSeq(names, 1, 0) = <<>>
    BY SubSeqEmpty
  <2> QED
    BY <1>3, <2>1
<1>5. ASSUME NEW n \in P PROVE n + 1 \in P
  <2> SUFFICES ASSUME n + 1 <= Len(names) PROVE built[n + 1] = SubSeq(names, 1, n + 1)
    OBVIOUS
  <2>1. n \in Nat /\ n + 1 \in 1..Len(names) /\ (n + 1) - 1 = n /\ n <= Len(names)
    BY <1>3
  <2>2. built[n + 1] = CleanStep(IsAbs(names), SubSeq(names, 1, n), names[n + 1])
    <3>1. built[n + 1] = CleanStep(IsAbs(names), built[(n + 1) - 1], names[n + 1])
      BY <1>3, <2>1
    <3>2. built[n] = SubSeq(names, 1, n)
      BY <2>1
    <3> QED
      BY <2>1, <3>1, <3>2
  <2>3. names[n + 1] \notin {"", ".", ".."}
    BY <2>1 DEF IsName
  <2>4. built[n + 1] = Append(SubSeq(names, 1, n), names[n + 1])
    <3> DEFINE s == names[n + 1]
    <3> HIDE DEF s
    <3>1. built[n + 1] = CleanStep(IsAbs(names), SubSeq(names, 1, n), s) /\ s \notin {"", ".", ".."}
      BY <2>2, <2>3 DEF s
    <3>2. built[n + 1] = Append(SubSeq(names, 1, n), s)
      BY <3>1 DEF CleanStep
    <3> QED
      BY <3>2 DEF s
  <2>5. SubSeq(names, 1, n + 1) = SubSeq(names, 1, n) \o <<names[n + 1]>>
    <3>1. 1 \in 1..Len(names) /\ n + 1 \in 1..Len(names)
      BY <1>3, <2>1
    <3>2. SubSeq(names, 1, n + 1) = SubSeq(names, 1, (n + 1) - 1) \o <<names[n + 1]>>
      BY <3>1, SubSeqRecursiveSecond
    <3> QED
      BY <2>1, <3>2
  <2>6. SubSeq(names, 1, n) \in Seq(STRING) /\ names[n + 1] \in STRING
    <3>1. \A i \in 1..n : names[i] \in STRING
      BY <1>3, <2>1, ElementOfSeq
    <3> QED
      BY <2>1, <3>1, SubSeqProperties, ElementOfSeq
  <2>7. Append(SubSeq(names, 1, n), names[n + 1]) = SubSeq(names, 1, n) \o <<names[n + 1]>>
    BY <2>6, AppendIsConcat
  <2> QED
    BY <2>4, <2>5, <2>7
<1>6. P = Nat
  <2> HIDE DEF P
  <2>1. P \in SUBSET Nat
    BY DEF P
  <2> QED
    BY <1>4, <1>5, <2>1, SetInduction
<1>7. built[Len(names)] = SubSeq(names, 1, Len(names))
  <2>1. \A n \in Nat : n <= Len(names) => built[n] = SubSeq(names, 1, n)
    BY <1>6
  <2> QED
    BY <1>3, <2>1
<1> QED
  BY <1>1, <1>3, <1>7, SubSeqFull

\* The type of what Clean returns.
LEMMA CleanType ==
  ASSUME NEW path \in Seq(STRING) PROVE Clean(path) \in Seq(STRING)
<1>1. PICK names : Builds(names, path)
  BY CleanBuilds
<1> QED
  BY <1>1, LenProperties DEF Builds

\* path.Clean is the walk: of an absolute path, and of a relative one exactly if it
\* stays inside; of any other it begins with "..".
THEOREM CleanIsReached ==
  ASSUME NEW path \in Seq(STRING)
  PROVE  /\ IsAbs(path) \/ StaysInside(path) =>
              /\ Clean(path) = Reached(path)
              /\ \A k \in 1..Len(Reached(path)) : IsName(Reached(path)[k])
         /\ ~ IsAbs(path) /\ ~ StaysInside(path) =>
              Clean(path) # <<>> /\ Clean(path)[1] = ".."
<1>1. DOMAIN path = 1..Len(path) /\ Clean(path) \in Seq(STRING)
  BY LenProperties, CleanType
<1>2. StaysInside(path) <=> \A j \in 1..Len(path) : Level(path, j) >= 0
  BY <1>1 DEF StaysInside
<1>3. CASE \E m \in Int : Follows(path, Clean(path), Len(path), m) /\ Inside(path, Len(path), m)
  <2>1. PICK m \in Int : Follows(path, Clean(path), Len(path), m) /\ Inside(path, Len(path), m)
    BY <1>3
  <2>2. Clean(path) = Reached(path)
    BY <1>1, <2>1, FollowsReached
  <2>3. \A k \in 1..Len(Clean(path)) : IsName(Clean(path)[k])
    BY <2>1, FollowsNames
  <2>4. IsAbs(path) \/ StaysInside(path)
    BY <1>2, <2>1 DEF Inside
  <2> QED
    BY <2>2, <2>3, <2>4
<1>4. CASE Left(path, Clean(path), Len(path))
  <2>1. ~ IsAbs(path) /\ Clean(path) # <<>> /\ Clean(path)[1] = ".."
    BY <1>4 DEF Left
  <2>2. PICK j \in 1..Len(path) : Level(path, j) < 0
    BY <1>4 DEF Left
  <2>3. Level(path, j) \in Int
    <3>1. j \in Nat
      BY <2>2, LenProperties
    <3> QED
      BY <3>1, LevelStep
  <2>4. ~ StaysInside(path)
    BY <1>2, <2>2, <2>3
  <2> QED
    BY <2>1, <2>4
<1> QED
  BY <1>3, <1>4, CleanFollows

\* The path of an attribute that is accepted stays inside; what it reaches, cleaned
\* again, is the same, has no .git, and passes the guard of the backend.
THEOREM AcceptedIsReached ==
  ASSUME NEW path \in Seq(STRING), AcceptsPath(path)
  PROVE  /\ StaysInside(path)
         /\ Clean(path) = Reached(path) /\ Clean(Clean(path)) = Reached(path)
         /\ ".git" \notin Segments(Reached(path))
         /\ GuardsPath(Clean(path))
<1> DEFINE c == Clean(path)
<1>1. c \in Seq(STRING) /\ DOMAIN c = 1..Len(c)
  BY CleanType, LenProperties
<1>2. /\ ~ IsAbs(path) /\ ".." \notin Segments(c) /\ ".git" \notin Segments(c)
      /\ StaysInside(path)
  <2>1. CASE path = <<>>
    <3>1. Len(path) = 0 /\ DOMAIN path = {}
      BY <2>1
    <3>2. ~ IsAbs(path) /\ StaysInside(path)
      BY <3>1 DEF IsAbs, StaysInside
    <3>3. \A k \in 1..Len(path) : IsName(path[k])
      BY <3>1
    <3>4. c = path
      BY <3>3, CleanOfNames
    <3> QED
      BY <3>1, <3>2, <3>4 DEF Segments
  <2>2. CASE path # <<>>
    <3>1. ~ IsAbs(path) /\ ".." \notin Segments(c) /\ ".git" \notin Segments(c)
      BY <2>2 DEF AcceptsPath
    <3>2. c # <<>> => c[1] \in Segments(c)
      <4>1. c # <<>> => 1 \in DOMAIN c
        BY <1>1, EmptySeq
      <4> QED
        BY <4>1 DEF Segments
    <3> QED
      BY <3>1, <3>2, CleanIsReached
  <2> QED
    BY <2>1, <2>2
<1>3. c = Reached(path) /\ \A k \in 1..Len(c) : IsName(c[k])
  BY <1>2, CleanIsReached
<1> HIDE DEF c
<1>4. ~ IsAbs(c) /\ Clean(c) = c
  BY <1>1, <1>3, CleanOfNames
<1>5. GuardsPath(c)
  BY <1>2, <1>4 DEF GuardsPath, IsLocal
<1> QED
  BY <1>2, <1>3, <1>4, <1>5 DEF c

\* A target that is accepted leads below the root, however it climbs.
THEOREM TargetIsBelowRoot ==
  ASSUME NEW root \in Seq(STRING), NEW target \in Seq(STRING), AcceptsTarget(root, target)
  PROVE  /\ Clean(target) = Reached(target)
         /\ Len(Clean(target)) > Len(Reached(root))
         /\ SubSeq(Clean(target), 1, Len(Reached(root))) = Reached(root)
<1> DEFINE r == Reached(root)
<1> DEFINE t == Clean(target)
<1>1. Clean(root) = r /\ t = Reached(target) /\ r \in Seq(STRING) /\ t \in Seq(STRING)
  BY CleanIsReached, CleanType DEF AcceptsTarget
<1>2. Len(r) <= Len(t) /\ SubSeq(r, 1, Len(r)) = SubSeq(t, 1, Len(r)) /\ r # t
  BY <1>1 DEF AcceptsTarget, IsStrictPrefix, IsPrefix
<1> HIDE DEF r, t
<1>3. SubSeq(r, 1, Len(r)) = r /\ SubSeq(t, 1, Len(t)) = t
  BY <1>1, SubSeqFull
<1>4. Len(r) # Len(t)
  BY <1>2, <1>3
<1>5. Len(r) \in Nat /\ Len(t) \in Nat
  BY <1>1, LenProperties
<1>6. Len(t) > Len(r)
  BY <1>2, <1>4, <1>5
<1>7. SubSeq(t, 1, Len(r)) = r
  BY <1>2, <1>3
<1> QED
  BY <1>1, <1>6, <1>7 DEF r, t
=============================================================================
