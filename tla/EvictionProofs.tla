---------------------------- MODULE EvictionProofs -----------------------------
(***************************************************************************)
(* What the sizes of sets of directories add up to: facts about Bytes, the *)
(* fold that Evict's "total" is, for finite sets of any size.              *)
(***************************************************************************)
EXTENDS Eviction, NaturalSets, FiniteSetTheorems, TLAPS

-----------------------------------------------------------------------------
(* The fold. *)

\* The element that MapThenSumSet takes from a set first.
First(s) == CHOOSE x \in s : TRUE

\* g is the recursive function of MapThenFoldSet, for the sets of D.
Folds(g, size, D) ==
  g = [s \in D |-> IF s = {} THEN 0 ELSE size[First(s)] + g[s \ {First(s)}]]

UpTo(S, n) == {s \in SUBSET S : Cardinality(s) <= n}

\* Taking an element from a finite set leaves a smaller set.
LEMMA FirstTaken ==
  ASSUME NEW s, IsFiniteSet(s), s # {}
  PROVE  /\ First(s) \in s
         /\ IsFiniteSet(s \ {First(s)})
         /\ Cardinality(s \ {First(s)}) = Cardinality(s) - 1
         /\ Cardinality(s) \in Nat
<1>1. First(s) \in s
  BY DEF First
<1> QED
  BY <1>1, FS_RemoveElement, FS_CardinalityType

\* The recursive function exists, for sets of one more element at a time.
LEMMA FoldGrows ==
  ASSUME NEW size, NEW S, IsFiniteSet(S)
  PROVE  \A n \in Nat : \E g : Folds(g, size, UpTo(S, n))
<1> DEFINE P == {n \in Nat : \E g : Folds(g, size, UpTo(S, n))}
<1>1. \A s \in SUBSET S : IsFiniteSet(s) /\ Cardinality(s) \in Nat
  BY FS_Subset, FS_CardinalityType
<1>2. 0 \in P
  <2> DEFINE g == [s \in UpTo(S, 0) |-> 0]
  <2>1. \A s \in UpTo(S, 0) : s = {}
    BY <1>1, FS_EmptySet DEF UpTo
  <2>2. Folds(g, size, UpTo(S, 0))
    BY <2>1 DEF Folds
  <2> QED
    BY <2>2
<1>3. ASSUME NEW n \in P PROVE n + 1 \in P
  <2>1. PICK g : Folds(g, size, UpTo(S, n))
    OBVIOUS
  <2> DEFINE k == [s \in UpTo(S, n + 1) |-> IF s \in UpTo(S, n) THEN g[s]
                                            ELSE size[First(s)] + g[s \ {First(s)}]]
  <2>2. ASSUME NEW s \in UpTo(S, n + 1), s # {}
        PROVE  s \ {First(s)} \in UpTo(S, n) /\ s \ {First(s)} \in UpTo(S, n + 1)
    BY <1>1, <2>2, FirstTaken DEF UpTo
  <2>3. ASSUME NEW s \in UpTo(S, n + 1)
        PROVE  k[s] = IF s = {} THEN 0 ELSE size[First(s)] + k[s \ {First(s)}]
    <3>1. CASE s = {}
      <4>1. s \in UpTo(S, n)
        BY <3>1, FS_EmptySet DEF UpTo
      <4> QED
        BY <2>1, <3>1, <4>1 DEF Folds
    <3>2. CASE s # {}
      <4>1. k[s \ {First(s)}] = g[s \ {First(s)}]
        BY <2>2, <3>2
      <4>2. s \in UpTo(S, n) => g[s] = size[First(s)] + g[s \ {First(s)}]
        BY <2>1, <3>2 DEF Folds
      <4> QED
        BY <3>2, <4>1, <4>2
    <3> QED
      BY <3>1, <3>2
  <2>4. k = [s \in UpTo(S, n + 1) |-> IF s = {} THEN 0
                                      ELSE size[First(s)] + k[s \ {First(s)}]]
    <3> HIDE DEF k
    <3> QED
      BY <2>3 DEF k
  <2> HIDE DEF k
  <2>5. Folds(k, size, UpTo(S, n + 1))
    BY <2>4 DEF Folds
  <2> QED
    BY <2>5
<1>4. P = Nat
  <2> HIDE DEF P
  <2>1. P \in SUBSET Nat
    BY DEF P
  <2> QED
    BY <1>2, <1>3, <2>1, SetInduction
<1> QED
  BY <1>4

\* And for all subsets of a finite set.
LEMMA FoldExists ==
  ASSUME NEW size, NEW S, IsFiniteSet(S)
  PROVE  \E g : Folds(g, size, SUBSET S)
<1>1. \A s \in SUBSET S : Cardinality(s) <= Cardinality(S)
  BY FS_Subset
<1>2. UpTo(S, Cardinality(S)) = SUBSET S
  BY <1>1 DEF UpTo
<1>3. Cardinality(S) \in Nat
  BY FS_CardinalityType
<1>4. \E g : Folds(g, size, UpTo(S, Cardinality(S)))
  BY <1>3, FoldGrows
<1> QED
  BY <1>2, <1>4

\* Two of them agree on what both are defined for.
LEMMA FoldsAgree ==
  ASSUME NEW size, NEW S, NEW T, NEW g, NEW k, IsFiniteSet(S), T \in SUBSET S,
         Folds(g, size, SUBSET S), Folds(k, size, SUBSET T)
  PROVE  \A s \in SUBSET T : g[s] = k[s]
<1> DEFINE P == {n \in Nat : \A s \in UpTo(T, n) : g[s] = k[s]}
<1>1. \A s \in SUBSET T : IsFiniteSet(s) /\ Cardinality(s) \in Nat
  BY FS_Subset, FS_CardinalityType
<1>2. \A s \in SUBSET T : s = {} => g[s] = k[s]
  BY DEF Folds
<1>3. 0 \in P
  BY <1>1, <1>2, FS_EmptySet DEF UpTo
<1>4. ASSUME NEW n \in P PROVE n + 1 \in P
  <2>1. ASSUME NEW s \in UpTo(T, n + 1), s # {} PROVE g[s] = k[s]
    <3>1. s \ {First(s)} \in UpTo(T, n)
      BY <1>1, <2>1, FirstTaken DEF UpTo
    <3>2. g[s \ {First(s)}] = k[s \ {First(s)}]
      BY <3>1
    <3>3. g[s] = size[First(s)] + g[s \ {First(s)}]
      BY <2>1 DEF Folds, UpTo
    <3>4. k[s] = size[First(s)] + k[s \ {First(s)}]
      BY <2>1 DEF Folds, UpTo
    <3> QED
      BY <3>2, <3>3, <3>4
  <2> QED
    BY <1>2, <2>1 DEF UpTo
<1>5. P = Nat
  <2> HIDE DEF P
  <2>1. P \in SUBSET Nat
    BY DEF P
  <2> QED
    BY <1>3, <1>4, <2>1, SetInduction
<1> QED
  BY <1>1, <1>5 DEF UpTo

\* Bytes is the value of that function for the whole set.
LEMMA BytesFolds ==
  ASSUME NEW size, NEW S, IsFiniteSet(S)
  PROVE  \E g : Folds(g, size, SUBSET S) /\ Bytes(size, S) = g[S]
<1>1. Bytes(size, S) = (CHOOSE g : Folds(g, size, SUBSET S))[S]
  BY DEF Bytes, MapThenSumSet, MapThenFoldSet, Folds, First
<1> QED
  BY <1>1, FoldExists

\* One element, and the rest.
LEMMA BytesRecursion ==
  ASSUME NEW size, NEW S, IsFiniteSet(S)
  PROVE  Bytes(size, S) = IF S = {} THEN 0
                          ELSE size[First(S)] + Bytes(size, S \ {First(S)})
<1>1. PICK g : Folds(g, size, SUBSET S) /\ Bytes(size, S) = g[S]
  BY BytesFolds
<1>2. CASE S = {}
  BY <1>1, <1>2 DEF Folds
<1>3. CASE S # {}
  <2> DEFINE T == S \ {First(S)}
  <2>1. IsFiniteSet(T)
    BY <1>3, FirstTaken
  <2>2. PICK k : Folds(k, size, SUBSET T) /\ Bytes(size, T) = k[T]
    BY <2>1, BytesFolds
  <2>3. T \in SUBSET S
    OBVIOUS
  <2>4. \A s \in SUBSET T : g[s] = k[s]
    <3> HIDE DEF T
    <3>1. Folds(g, size, SUBSET S) /\ Folds(k, size, SUBSET T)
      BY <1>1, <2>2
    <3> QED
      BY <2>3, <3>1, FoldsAgree, SMTT(30)
  <2>5. g[S] = size[First(S)] + g[T]
    BY <1>1, <1>3 DEF Folds
  <2> QED
    BY <1>1, <1>3, <2>2, <2>4, <2>5
<1> QED
  BY <1>2, <1>3

-----------------------------------------------------------------------------
(* Sums of sizes. *)

\* A collection of subsets of a finite set has one that contains no other: what
\* fails for none that is smaller fails for none.
LEMMA SmallestSubset ==
  ASSUME NEW S, IsFiniteSet(S), NEW B \in SUBSET (SUBSET S), B # {}
  PROVE  \E T \in B : \A U \in B : U \subseteq T => U = T
<1> DEFINE Sizes == {n \in Nat : \E T \in B : Cardinality(T) = n}
<1>1. \A T \in SUBSET S : IsFiniteSet(T) /\ Cardinality(T) \in Nat
  BY FS_Subset, FS_CardinalityType
<1>2. PICK n \in Sizes : \A m \in Sizes : n <= m
  <2>1. Sizes \in SUBSET Nat /\ Sizes # {}
    BY <1>1
  <2> HIDE DEF Sizes
  <2> QED
    BY <2>1, LeastExists
<1>3. PICK T \in B : Cardinality(T) = n
  BY <1>2
<1>4. ASSUME NEW U \in B, U \subseteq T PROVE U = T
  <2>1. Cardinality(T) <= Cardinality(U)
    BY <1>1, <1>2, <1>3
  <2>2. Cardinality(U) <= Cardinality(T)
    BY <1>1, <1>4, FS_Subset
  <2>3. Cardinality(U) = Cardinality(T)
    BY <1>1, <2>1, <2>2
  <2> QED
    BY <1>1, <1>4, <2>3, FS_Subset
<1> QED
  BY <1>3, <1>4

\* Nothing takes nothing.
LEMMA BytesOfNone ==
  ASSUME NEW size PROVE Bytes(size, {}) = 0
  BY BytesRecursion, FS_EmptySet

\* Sizes add up to a size.
LEMMA BytesType ==
  ASSUME NEW size, NEW S, IsFiniteSet(S), \A d \in S : size[d] \in Nat
  PROVE  Bytes(size, S) \in Nat
<1> DEFINE B == {T \in SUBSET S : Bytes(size, T) \notin Nat}
<1> SUFFICES ASSUME B # {} PROVE FALSE
  OBVIOUS
<1>1. PICK T \in B : \A U \in B : U \subseteq T => U = T
  <2>1. B \in SUBSET (SUBSET S)
    OBVIOUS
  <2> HIDE DEF B
  <2> QED
    BY <2>1, SmallestSubset
<1>2. IsFiniteSet(T)
  BY FS_Subset
<1>3. T # {}
  BY BytesOfNone
<1>4. First(T) \in T
  BY <1>2, <1>3, FirstTaken
<1>5. Bytes(size, T \ {First(T)}) \in Nat
  BY <1>1, <1>4
<1>6. Bytes(size, T) = size[First(T)] + Bytes(size, T \ {First(T)})
  BY <1>2, <1>3, BytesRecursion
<1> QED
  BY <1>4, <1>5, <1>6

\* At most as much as if every element had the largest size.
LEMMA BytesBound ==
  ASSUME NEW size, NEW S, NEW m \in Nat, IsFiniteSet(S), \A d \in S : size[d] \in 0..m
  PROVE  Bytes(size, S) <= Cardinality(S) * m
<1> DEFINE Bounded(T) == Bytes(size, T) <= Cardinality(T) * m
<1> DEFINE B == {T \in SUBSET S : ~ Bounded(T)}
<1> SUFFICES ASSUME B # {} PROVE FALSE
  OBVIOUS
<1>1. PICK T \in B : \A U \in B : U \subseteq T => U = T
  <2>1. B \in SUBSET (SUBSET S)
    OBVIOUS
  <2> HIDE DEF B
  <2> QED
    BY <2>1, SmallestSubset
<1>2. IsFiniteSet(T)
  BY FS_Subset
<1>3. T # {}
  <2>1. Bytes(size, {}) = 0 /\ Cardinality({}) = 0 /\ 0 * m = 0
    BY BytesOfNone, FS_EmptySet
  <2>2. Bounded({})
    BY <2>1
  <2> QED
    BY <2>2
<1> DEFINE R == T \ {First(T)}
<1>4. /\ First(T) \in T /\ IsFiniteSet(R)
      /\ Cardinality(R) = Cardinality(T) - 1 /\ Cardinality(T) \in Nat
  BY <1>2, <1>3, FirstTaken
<1>5. Bytes(size, R) <= Cardinality(R) * m
  BY <1>1, <1>4
<1>6. Bytes(size, T) = size[First(T)] + Bytes(size, R)
  BY <1>2, <1>3, BytesRecursion
<1>7. size[First(T)] \in 0..m
  BY <1>4
<1>8. Bytes(size, R) \in Nat
  BY <1>4, BytesType
<1>9. \A n \in Nat : (n - 1) * m + m = n * m
  OBVIOUS
<1>10. Bounded(T)
  <2> HIDE DEF R
  <2>1. Bytes(size, T) <= Cardinality(R) * m + m
    BY <1>4, <1>5, <1>6, <1>7, <1>8
  <2> QED
    BY <1>4, <1>9, <2>1
<1> QED
  BY <1>10

\* Any element may be taken first.
LEMMA BytesTake ==
  ASSUME NEW size, NEW S, IsFiniteSet(S), \A d \in S : size[d] \in Nat, NEW x \in S
  PROVE  Bytes(size, S) = size[x] + Bytes(size, S \ {x})
<1> DEFINE B == {T \in SUBSET S : \E y \in T : Bytes(size, T) # size[y] + Bytes(size, T \ {y})}
<1> SUFFICES ASSUME B # {} PROVE FALSE
  OBVIOUS
<1>1. PICK T \in B : \A U \in B : U \subseteq T => U = T
  <2>1. B \in SUBSET (SUBSET S)
    OBVIOUS
  <2> HIDE DEF B
  <2> QED
    BY <2>1, SmallestSubset
<1>2. PICK y \in T : Bytes(size, T) # size[y] + Bytes(size, T \ {y})
  BY <1>1
<1> DEFINE z == First(T)
<1>3. \A U \in SUBSET S : IsFiniteSet(U) /\ Bytes(size, U) \in Nat
  BY FS_Subset, BytesType
<1>4. z \in T
  BY <1>2 DEF First
<1> HIDE DEF z
<1>5. Bytes(size, T) = size[z] + Bytes(size, T \ {z})
  BY <1>2, <1>3, BytesRecursion DEF z
<1>6. y # z
  BY <1>2, <1>5
<1>7. Bytes(size, T \ {z}) = size[y] + Bytes(size, (T \ {z}) \ {y})
  <2>1. T \ {z} \in SUBSET S /\ T \ {z} \notin B
    BY <1>1, <1>4
  <2> QED
    BY <1>2, <1>6, <2>1
<1>8. Bytes(size, T \ {y}) = size[z] + Bytes(size, (T \ {y}) \ {z})
  <2>1. T \ {y} \in SUBSET S /\ T \ {y} \notin B
    BY <1>1, <1>2
  <2> QED
    BY <1>4, <1>6, <2>1
<1>9. (T \ {z}) \ {y} = (T \ {y}) \ {z}
  OBVIOUS
<1>10. size[y] \in Nat /\ size[z] \in Nat /\ Bytes(size, (T \ {y}) \ {z}) \in Nat
  <2>1. (T \ {y}) \ {z} \in SUBSET S
    OBVIOUS
  <2> QED
    BY <1>2, <1>3, <1>4, <2>1
<1> HIDE DEF B
<1> QED
  BY <1>2, <1>5, <1>7, <1>8, <1>9, <1>10

\* A part, and the rest.
LEMMA BytesSplit ==
  ASSUME NEW size, NEW S, IsFiniteSet(S), \A d \in S : size[d] \in Nat, NEW T \in SUBSET S
  PROVE  Bytes(size, S) = Bytes(size, T) + Bytes(size, S \ T)
<1> DEFINE B == {U \in SUBSET S : Bytes(size, S) # Bytes(size, U) + Bytes(size, S \ U)}
<1> SUFFICES ASSUME B # {} PROVE FALSE
  OBVIOUS
<1>1. PICK U \in B : \A V \in B : V \subseteq U => V = U
  <2>1. B \in SUBSET (SUBSET S)
    OBVIOUS
  <2> HIDE DEF B
  <2> QED
    BY <2>1, SmallestSubset
<1>2. \A V \in SUBSET S : IsFiniteSet(V) /\ Bytes(size, V) \in Nat
  BY FS_Subset, BytesType
<1>3. PICK x \in U : TRUE
  <2>1. U = {} => Bytes(size, S) = Bytes(size, U) + Bytes(size, S \ U)
    <3>1. S \ {} = S
      OBVIOUS
    <3> QED
      BY <1>2, <3>1, BytesOfNone
  <2> QED
    BY <2>1
<1> DEFINE V == U \ {x}
<1>4. Bytes(size, S) = Bytes(size, V) + Bytes(size, S \ V)
  BY <1>1, <1>3
<1>5. Bytes(size, U) = size[x] + Bytes(size, V)
  BY <1>2, <1>3, BytesTake
<1>6. Bytes(size, S \ V) = size[x] + Bytes(size, S \ U)
  <2>1. x \in S \ V /\ (S \ V) \ {x} = S \ U
    BY <1>3
  <2>2. IsFiniteSet(S \ V)
    BY <1>2
  <2> QED
    BY <2>1, <2>2, BytesTake
<1>7. /\ size[x] \in Nat /\ Bytes(size, V) \in Nat /\ Bytes(size, S \ U) \in Nat
  BY <1>2, <1>3
<1>8. Bytes(size, S) # Bytes(size, U) + Bytes(size, S \ U)
  BY <1>1
<1> HIDE DEF V, B
<1> QED
  BY <1>4, <1>5, <1>6, <1>7, <1>8

\* More directories take no less.
LEMMA BytesMonotone ==
  ASSUME NEW size, NEW S, IsFiniteSet(S), \A d \in S : size[d] \in Nat, NEW T \in SUBSET S
  PROVE  Bytes(size, T) <= Bytes(size, S)
<1>1. Bytes(size, S) = Bytes(size, T) + Bytes(size, S \ T)
  BY BytesSplit
<1>2. IsFiniteSet(T) /\ IsFiniteSet(S \ T)
  BY FS_Subset
<1>3. Bytes(size, T) \in Nat /\ Bytes(size, S \ T) \in Nat
  BY <1>2, BytesType
<1> QED
  BY <1>1, <1>3

\* Larger directories are more bytes.
LEMMA BytesGrow ==
  ASSUME NEW size, NEW other, NEW S, IsFiniteSet(S),
         \A d \in S : size[d] \in Nat /\ other[d] \in Nat /\ size[d] <= other[d]
  PROVE  Bytes(size, S) <= Bytes(other, S)
<1> DEFINE Grows(T) == Bytes(size, T) <= Bytes(other, T)
<1> DEFINE B == {T \in SUBSET S : ~ Grows(T)}
<1> SUFFICES ASSUME B # {} PROVE FALSE
  OBVIOUS
<1>1. PICK T \in B : \A U \in B : U \subseteq T => U = T
  <2>1. B \in SUBSET (SUBSET S)
    OBVIOUS
  <2> HIDE DEF B
  <2> QED
    BY <2>1, SmallestSubset
<1>2. T \in SUBSET S /\ ~ Grows(T)
  OBVIOUS
<1>3. IsFiniteSet(T)
  BY <1>2, FS_Subset
<1>4. T # {}
  BY <1>2, BytesOfNone
<1> DEFINE d == First(T)
           rest == T \ {d}
<1>5. d \in T /\ IsFiniteSet(rest)
  BY <1>3, <1>4, FirstTaken
<1>6. rest \in SUBSET S /\ rest # T
  BY <1>2, <1>5
<1>7. Grows(rest)
  BY <1>1, <1>6
<1>8. /\ Bytes(size, T) = size[d] + Bytes(size, rest)
      /\ Bytes(other, T) = other[d] + Bytes(other, rest)
  BY <1>3, <1>4, BytesRecursion
<1>9. Bytes(size, rest) \in Nat /\ Bytes(other, rest) \in Nat
  BY <1>5, <1>6, BytesType
<1>10. size[d] \in Nat /\ other[d] \in Nat /\ size[d] <= other[d]
  BY <1>2, <1>5
<1> HIDE DEF d, rest
<1>11. Grows(T)
  BY <1>7, <1>8, <1>9, <1>10
<1> QED
  BY <1>2, <1>11

\* Only the sizes of the directories count.
LEMMA BytesSame ==
  ASSUME NEW size, NEW other, NEW S, IsFiniteSet(S), \A d \in S : size[d] = other[d]
  PROVE  Bytes(size, S) = Bytes(other, S)
<1> DEFINE B == {T \in SUBSET S : Bytes(size, T) # Bytes(other, T)}
<1> SUFFICES ASSUME B # {} PROVE FALSE
  OBVIOUS
<1>1. PICK T \in B : \A U \in B : U \subseteq T => U = T
  <2>1. B \in SUBSET (SUBSET S)
    OBVIOUS
  <2> HIDE DEF B
  <2> QED
    BY <2>1, SmallestSubset
<1>2. IsFiniteSet(T)
  BY FS_Subset
<1>3. T # {}
  BY BytesOfNone
<1>4. First(T) \in T
  BY <1>2, <1>3, FirstTaken
<1>5. Bytes(size, T \ {First(T)}) = Bytes(other, T \ {First(T)})
  BY <1>1, <1>4
<1> QED
  BY <1>2, <1>3, <1>4, <1>5, BytesRecursion

\* Sizes may be added up under other names.
LEMMA BytesImage ==
  ASSUME NEW size, NEW other, NEW name, NEW S, IsFiniteSet(S),
         \A x, y \in S : name[x] = name[y] => x = y,
         \A x \in S : size[x] \in Nat /\ other[name[x]] = size[x]
  PROVE  Bytes(size, S) = Bytes(other, {name[x] : x \in S})
<1> DEFINE Names(T) == {name[x] : x \in T}
<1> DEFINE B == {T \in SUBSET S : Bytes(size, T) # Bytes(other, Names(T))}
<1> SUFFICES ASSUME B # {} PROVE FALSE
  OBVIOUS
<1>1. PICK T \in B : \A U \in B : U \subseteq T => U = T
  <2>1. B \in SUBSET (SUBSET S)
    OBVIOUS
  <2> HIDE DEF B
  <2> QED
    BY <2>1, SmallestSubset
<1>2. IsFiniteSet(T)
  BY FS_Subset
<1>3. PICK x \in T : TRUE
  <2>1. Names({}) = {}
    OBVIOUS
  <2>2. T # {}
    BY <2>1, BytesOfNone
  <2> QED
    BY <2>2
<1> DEFINE U == T \ {x}
<1>4. Bytes(size, U) = Bytes(other, Names(U))
  BY <1>1, <1>3
<1>5. Bytes(size, T) = size[x] + Bytes(size, U)
  BY <1>2, <1>3, BytesTake
<1>6. Bytes(other, Names(T)) = other[name[x]] + Bytes(other, Names(U))
  <2>1. name[x] \in Names(T) /\ Names(T) \ {name[x]} = Names(U)
    BY <1>1, <1>3
  <2>2. IsFiniteSet(Names(T))
    <3> DEFINE g == [y \in T |-> name[y]]
    <3>1. g \in Surjection(T, Names(T))
      BY DEF Surjection
    <3> HIDE DEF g, Names
    <3> QED
      BY <1>2, <3>1, FS_Surjection
  <2>3. \A y \in Names(T) : other[y] \in Nat
    OBVIOUS
  <2> DEFINE all == Names(T)
  <2> DEFINE rest == Names(U)
  <2>4. name[x] \in all /\ all \ {name[x]} = rest /\ IsFiniteSet(all)
        /\ \A y \in all : other[y] \in Nat
    BY <2>1, <2>2, <2>3
  <2> HIDE DEF all, rest
  <2>5. Bytes(other, all) = other[name[x]] + Bytes(other, all \ {name[x]})
    BY <2>4, BytesTake
  <2>6. Bytes(other, all) = other[name[x]] + Bytes(other, rest)
    BY <2>4, <2>5
  <2> QED
    BY <2>6 DEF all, rest
<1>7. Bytes(size, T) # Bytes(other, Names(T)) /\ x \in S
  BY <1>1, <1>3
<1> HIDE DEF Names, U, B
<1> QED
  BY <1>3, <1>4, <1>5, <1>6, <1>7

-----------------------------------------------------------------------------
(* What Evict decides, for any order of age. *)

\* Of some directories one is the oldest, or none older than it is among them.
LEMMA OldestExists ==
  ASSUME NEW items, IsFiniteSet(items), NEW older,
         \A d \in items : d \notin older[d],
         \A x, y, z \in items : x \in older[y] /\ y \in older[z] => x \in older[z],
         NEW S \in SUBSET items, S # {}
  PROVE  \E d \in S : older[d] \cap S = {}
<1> DEFINE elders(d) == older[d] \cap items
<1> DEFINE counts == {Cardinality(elders(d)) : d \in S}
<1>1. \A d \in S : IsFiniteSet(elders(d)) /\ Cardinality(elders(d)) \in Nat
  BY FS_Subset, FS_CardinalityType
<1> HIDE DEF elders
<1>2. counts \in SUBSET Nat /\ counts # {}
  BY <1>1
<1> HIDE DEF counts
<1>3. PICK n \in counts : \A m \in counts : n <= m
  BY <1>2, LeastExists
<1>4. PICK d \in S : n = Cardinality(elders(d))
  BY <1>3 DEF counts
<1>5. ASSUME NEW x \in older[d] \cap S PROVE FALSE
  <2>1. elders(x) \subseteq elders(d) /\ x \in elders(d) \ elders(x)
    BY <1>4, <1>5 DEF elders
  <2>2. Cardinality(elders(x)) < Cardinality(elders(d))
    <3>1. elders(x) # elders(d)
      BY <2>1
    <3> QED
      BY <1>1, <1>4, <2>1, <3>1, FS_Subset
  <2>3. Cardinality(elders(x)) \in counts
    BY <1>5 DEF counts
  <2>4. Cardinality(elders(d)) <= Cardinality(elders(x))
    BY <1>3, <1>4, <2>3
  <2> QED
    BY <1>1, <1>4, <1>5, <2>2, <2>4
<1> QED
  BY <1>4, <1>5

\* Sizes of all directories, and of those that the size loop starts with.
LEMMA LeftIsFresh ==
  ASSUME NEW items, IsFiniteSet(items), NEW size, \A d \in items : size[d] \in Nat,
         NEW expired \in SUBSET items
  PROVE  LeftAfterAging(items, size, expired) = Bytes(size, items \ expired)
<1>1. Bytes(size, items) = Bytes(size, expired) + Bytes(size, items \ expired)
  BY BytesSplit
<1>2. IsFiniteSet(expired) /\ IsFiniteSet(items \ expired)
  BY FS_Subset
<1>3. Bytes(size, expired) \in Nat /\ Bytes(size, items \ expired) \in Nat
  BY <1>2, BytesType
<1> QED
  BY <1>1, <1>3 DEF LeftAfterAging

\* What one call of Evict leaves exceeds the size limit by no more than what it
\* found expired, and so fits if nothing was: the oldest directory that it leaves
\* ended the size loop, and the loop had passed only older ones.
THEOREM VictimsMakeRoom ==
  ASSUME NEW items, IsFiniteSet(items), NEW size, \A d \in items : size[d] \in Nat,
         NEW older, NEW expired \in SUBSET items, NEW maxSize \in Nat,
         \A d \in items : d \notin older[d],
         \A x, y, z \in items : x \in older[y] /\ y \in older[z] => x \in older[z]
  PROVE  Bytes(size, items \ Victims(items, size, older, expired, maxSize))
           <= maxSize + Bytes(size, expired)
<1> DEFINE kept == items \ Victims(items, size, older, expired, maxSize)
<1>1. kept \in SUBSET items
  OBVIOUS
<1>2. \A S \in SUBSET items : IsFiniteSet(S) /\ Bytes(size, S) \in Nat
  BY FS_Subset, BytesType
<1>3. CASE kept = {}
  BY <1>2, <1>3, BytesOfNone
<1>4. CASE kept # {}
  <2>1. PICK d \in kept : older[d] \cap kept = {}
    <3> HIDE DEF kept
    <3> QED
      BY <1>1, <1>4, OldestExists
  <2> DEFINE elders == older[d] \cap items
  <2>2. LeftAfterAging(items, size, expired) - Bytes(size, elders) <= maxSize
    <3>1. d \in items /\ d \notin SizeVictims(items, size, older, expired, maxSize)
      BY DEF Victims
    <3>2. ~ (LeftAfterAging(items, size, expired) - Bytes(size, elders) > maxSize)
      BY <3>1 DEF SizeVictims
    <3>3. LeftAfterAging(items, size, expired) = Bytes(size, items \ expired)
      BY LeftIsFresh
    <3>4. Bytes(size, elders) \in Nat /\ Bytes(size, items \ expired) \in Nat
      BY <1>2
    <3> HIDE DEF elders
    <3> QED
      BY <3>2, <3>3, <3>4
  <2>3. kept \in SUBSET (items \ elders) /\ elders \in SUBSET items
    BY <1>1, <2>1
  <2> HIDE DEF kept, elders
  <2>4. Bytes(size, kept) <= Bytes(size, items \ elders)
    BY <1>2, <2>3, BytesMonotone
  <2>5. Bytes(size, items) = Bytes(size, elders) + Bytes(size, items \ elders)
    BY <2>3, BytesSplit
  <2>6. Bytes(size, items) = Bytes(size, expired) + Bytes(size, items \ expired)
    BY BytesSplit
  <2>7. LeftAfterAging(items, size, expired) = Bytes(size, items \ expired)
    BY LeftIsFresh
  <2>8. /\ Bytes(size, kept) \in Nat /\ Bytes(size, elders) \in Nat
        /\ Bytes(size, items \ elders) \in Nat /\ Bytes(size, expired) \in Nat
        /\ Bytes(size, items \ expired) \in Nat
    BY <1>1, <1>2, <2>3
  <2>9. Bytes(size, kept) <= maxSize + Bytes(size, expired)
    BY <2>2, <2>4, <2>5, <2>6, <2>7, <2>8
  <2> QED
    BY <2>9 DEF kept
<1> QED
  BY <1>3, <1>4

\* And it removes nothing that it could have kept: a directory that goes for its
\* size, and not for its age, does not fit beside the ones that are no older.
THEOREM VictimsDoNotFit ==
  ASSUME NEW items, IsFiniteSet(items), NEW size, \A d \in items : size[d] \in Nat,
         NEW older, NEW expired \in SUBSET items, NEW maxSize \in Nat,
         NEW d \in Victims(items, size, older, expired, maxSize) \ expired
  PROVE  Bytes(size, {x \in items \ expired : x \notin older[d]}) > maxSize
<1> DEFINE fresh   == items \ expired
<1> DEFINE elders  == older[d] \cap items
<1> DEFINE younger == {x \in fresh : x \notin older[d]}
<1>1. LeftAfterAging(items, size, expired) - Bytes(size, elders) > maxSize
  BY DEF Victims, SizeVictims
<1>2. LeftAfterAging(items, size, expired) = Bytes(size, fresh)
  BY LeftIsFresh
<1>3. \A S \in SUBSET items :
        IsFiniteSet(S) /\ (\A x \in S : size[x] \in Nat) /\ Bytes(size, S) \in Nat
  BY FS_Subset, BytesType
<1>4. /\ fresh \in SUBSET items /\ elders \in SUBSET items
      /\ younger \in SUBSET fresh /\ fresh \ younger \in SUBSET elders
  OBVIOUS
<1> HIDE DEF fresh, elders, younger
<1>5. Bytes(size, fresh) = Bytes(size, younger) + Bytes(size, fresh \ younger)
  <2>1. IsFiniteSet(fresh) /\ \A x \in fresh : size[x] \in Nat
    BY <1>3, <1>4
  <2> QED
    BY <1>4, <2>1, BytesSplit
<1>6. Bytes(size, fresh \ younger) <= Bytes(size, elders)
  BY <1>3, <1>4, BytesMonotone
<1>7. /\ Bytes(size, younger) \in Nat /\ Bytes(size, fresh \ younger) \in Nat
      /\ Bytes(size, elders) \in Nat /\ Bytes(size, fresh) \in Nat
  <2>1. younger \in SUBSET items /\ fresh \ younger \in SUBSET items
    BY <1>4
  <2> QED
    BY <1>3, <1>4, <2>1
<1> SUFFICES Bytes(size, younger) > maxSize
  BY DEF younger, fresh
<1> QED
  BY <1>1, <1>2, <1>5, <1>6, <1>7
=============================================================================
