------------------------------ MODULE FiniteTheorems ------------------------------
(***************************************************************************)
(* Facts about finite sets the proofs need and the library has not: the    *)
(* sum of the values of a function over a finite set (SumFunctionOnSet of  *)
(* the community modules, a fold that takes the elements one by one as     *)
(* CHOOSE gives them), sets of numbers without a gap, functions that are   *)
(* defined by recursion, and the number of ways to pick some of n things.  *)
(*                                                                         *)
(* Induction over finite sets is used in the form of its least             *)
(* counterexample: a set of sets that is not empty has a member that       *)
(* contains no other one.  Induction over numbers follows from it and is   *)
(* stated of the set of the numbers that satisfy a claim.                  *)
(***************************************************************************)
EXTENDS Integers, FiniteSets, Functions, FiniteSetTheorems, FunctionTheorems, TLAPS

\* Of some subsets of a finite set one has no proper subset among them.
LEMMA MinimalSubset ==
    ASSUME NEW S, IsFiniteSet(S), NEW C \in SUBSET (SUBSET S), C # {}
    PROVE  \E T \in C : \A U \in C : ~(U \subseteq T /\ U # T)
  <1>1. IsWellFoundedOn(StrictSubsetOrdering(S), FiniteSubsetsOf(S))
    BY FS_StrictSubsetOrderingWellFounded
  <1>2. C \subseteq FiniteSubsetsOf(S)
    BY FS_FiniteSubsetsOfFinite
  <1>3. \E T \in C : \A U \in C : ~(<<U, T>> \in StrictSubsetOrdering(S))
    BY <1>1, <1>2, WFMin
  <1> QED
    BY <1>3 DEF StrictSubsetOrdering

-----------------------------------------------------------------------------
(***************************************************************************)
(* The fold satisfies its recursion equation                               *)
(***************************************************************************)

First(T) == CHOOSE x \in T : TRUE

\* g is the fold of f on the subsets of S.
FoldsTo(g, f, S) ==
    g = [T \in SUBSET S |->
            IF T = {} THEN 0 ELSE f[First(T)] + g[T \ {First(T)}]]

\* A set that is not empty has a first element, the one CHOOSE picks.
LEMMA FirstIn == \A T : T # {} => First(T) \in T
  BY DEF First

\* A fold is determined by the function.
LEMMA FoldIsUnique ==
    ASSUME NEW S, IsFiniteSet(S), NEW f, NEW U \in SUBSET S, NEW V \in SUBSET S,
           NEW g, FoldsTo(g, f, U), NEW h, FoldsTo(h, f, V), NEW T \in SUBSET (U \cap V)
    PROVE  g[T] = h[T]
  <1> DEFINE C == {W \in SUBSET (U \cap V) : g[W] # h[W]}
  <1>1. SUFFICES ASSUME C # {}
                 PROVE  FALSE
    OBVIOUS
  <1>2. PICK W \in C : \A X \in C : ~(X \subseteq W /\ X # W)
    <2>1. C \in SUBSET (SUBSET S)
      OBVIOUS
    <2> HIDE DEF C
    <2> QED
      BY <1>1, <2>1, MinimalSubset
  <1>3. W # {} /\ W \in SUBSET U /\ W \in SUBSET V
    BY DEF FoldsTo
  <1>4. First(W) \in W
    BY <1>3, FirstIn
  <1>5. g[W \ {First(W)}] = h[W \ {First(W)}]
    BY <1>2, <1>4
  <1>6. /\ g[W] = f[First(W)] + g[W \ {First(W)}]
        /\ h[W] = f[First(W)] + h[W \ {First(W)}]
    BY <1>3 DEF FoldsTo
  <1> QED
    BY <1>2, <1>5, <1>6

\* Every function has a fold.
LEMMA FoldExists ==
    ASSUME NEW S, IsFiniteSet(S), NEW f
    PROVE  \E g : FoldsTo(g, f, S)
  <1> DEFINE C == {W \in SUBSET S : ~ \E g : FoldsTo(g, f, W)}
  <1>1. SUFFICES ASSUME C # {}
                 PROVE  FALSE
    OBVIOUS
  <1>2. PICK W \in C : \A X \in C : ~(X \subseteq W /\ X # W)
    <2>1. C \in SUBSET (SUBSET S)
      OBVIOUS
    <2> HIDE DEF C
    <2> QED
      BY <1>1, <2>1, MinimalSubset
  <1> DEFINE fold(X) == CHOOSE g : FoldsTo(g, f, X)
             val(X) == fold(X)[X]
             g == [T \in SUBSET W |->
                      IF T = {} THEN 0 ELSE f[First(T)] + val(T \ {First(T)})]
  <1>3. ASSUME NEW X \in SUBSET W, X # W
        PROVE  FoldsTo(fold(X), f, X)
    BY <1>2, <1>3
  <1>4. ASSUME NEW T \in SUBSET W, T # W
        PROVE  g[T] = val(T)
    <2>1. FoldsTo(fold(T), f, T)
      BY <1>3, <1>4
    <2>2. CASE T = {}
      BY <2>1, <2>2 DEF FoldsTo
    <2>3. CASE T # {}
      <3> DEFINE R == T \ {First(T)}
      <3>1. R \in SUBSET T /\ R # T /\ R \in SUBSET W /\ R # W
        BY <2>3, FirstIn
      <3>2. FoldsTo(fold(R), f, R)
        BY <1>3, <3>1
      <3>3. fold(T)[R] = fold(R)[R]
        <4>1. R \in SUBSET S /\ T \in SUBSET S /\ R \in SUBSET (T \cap R)
          BY <3>1
        <4> HIDE DEF fold, R
        <4> QED
          BY <2>1, <3>2, <4>1, FoldIsUnique
      <3>4. fold(T)[T] = f[First(T)] + fold(T)[R]
        BY <2>1, <2>3 DEF FoldsTo
      <3>5. g[T] = f[First(T)] + val(R)
        BY <2>3
      <3> QED
        BY <3>3, <3>4, <3>5
    <2> QED
      BY <2>2, <2>3
  <1>5. ASSUME NEW T \in SUBSET W, T # {}
        PROVE  g[T] = f[First(T)] + g[T \ {First(T)}]
    <2> DEFINE R == T \ {First(T)}
    <2>1. R \in SUBSET W /\ R # W
      BY <1>5, FirstIn
    <2>2. g[R] = val(R)
      BY <1>4, <2>1
    <2>3. g[T] = f[First(T)] + val(R)
      BY <1>5
    <2> QED
      BY <2>2, <2>3
  <1>6. FoldsTo(g, f, W)
    <2>1. g[{}] = 0
      OBVIOUS
    <2>2. g = [T \in SUBSET W |-> g[T]]
      OBVIOUS
    <2> HIDE DEF g
    <2>3. ASSUME NEW T \in SUBSET W
          PROVE  g[T] = IF T = {} THEN 0 ELSE f[First(T)] + g[T \ {First(T)}]
      BY <1>5, <2>1
    <2> QED
      BY <2>2, <2>3 DEF FoldsTo
  <1> QED
    BY <1>2, <1>6

\* The sum satisfies the recursion equation of the fold, on all subsets of a
\* finite set at once.
LEMMA SumFold ==
    ASSUME NEW S, IsFiniteSet(S), NEW f
    PROVE  FoldsTo([T \in SUBSET S |-> SumFunctionOnSet(f, T)], f, S)
  <1> DEFINE fold(T) == CHOOSE g : FoldsTo(g, f, T)
             h == fold(S)
  <1>1. ASSUME NEW T \in SUBSET S
        PROVE  SumFunctionOnSet(f, T) = fold(T)[T] /\ FoldsTo(fold(T), f, T)
    <2>1. IsFiniteSet(T)
      BY FS_Subset
    <2>2. FoldsTo(fold(T), f, T)
      BY <2>1, FoldExists
    <2>3. SumFunctionOnSet(f, T) = fold(T)[T]
      BY DEF SumFunctionOnSet, FoldFunctionOnSet, MapThenFoldSet, FoldsTo, First
    <2> QED
      BY <2>2, <2>3
  <1>2. FoldsTo(h, f, S)
    BY <1>1
  <1>3. ASSUME NEW T \in SUBSET S
        PROVE  SumFunctionOnSet(f, T) = h[T]
    <2>1. FoldsTo(fold(T), f, T) /\ SumFunctionOnSet(f, T) = fold(T)[T]
      BY <1>1
    <2>2. T \in SUBSET (T \cap S) /\ T \in SUBSET S /\ S \in SUBSET S
      OBVIOUS
    <2> HIDE DEF fold, h
    <2> QED
      BY <1>2, <2>1, <2>2, FoldIsUnique
  <1>4. h = [T \in SUBSET S |-> h[T]]
    BY <1>2 DEF FoldsTo
  <1> HIDE DEF h, fold
  <1>5. h = [T \in SUBSET S |-> SumFunctionOnSet(f, T)]
    BY <1>3, <1>4
  <1> QED
    BY <1>2, <1>5

\* The sum over a set is its first value and the sum over the others.
LEMMA SumStep ==
    ASSUME NEW S, IsFiniteSet(S), NEW f
    PROVE  /\ SumFunctionOnSet(f, {}) = 0
           /\ S # {} => SumFunctionOnSet(f, S) =
                            f[First(S)] + SumFunctionOnSet(f, S \ {First(S)})
  <1> DEFINE g == [T \in SUBSET S |-> SumFunctionOnSet(f, T)]
  <1>1. \A T \in SUBSET S : g[T] = IF T = {} THEN 0 ELSE f[First(T)] + g[T \ {First(T)}]
    <2>1. FoldsTo(g, f, S)
      BY SumFold
    <2> HIDE DEF g
    <2> QED
      BY <2>1 DEF FoldsTo
  <1>2. {} \in SUBSET S /\ S \in SUBSET S /\ S \ {First(S)} \in SUBSET S
    OBVIOUS
  <1> QED
    BY <1>1, <1>2

-----------------------------------------------------------------------------
(***************************************************************************)
(* What follows by induction                                               *)
(***************************************************************************)

\* The empty sum is zero.
LEMMA SumOfNone == \A f : SumFunctionOnSet(f, {}) = 0
  BY SumStep, FS_EmptySet

\* A claim about the subsets of a finite set holds if it holds for a subset
\* whenever it holds for the smaller ones.
LEMMA SmallerFirst ==
    ASSUME NEW S, IsFiniteSet(S), NEW G \in SUBSET (SUBSET S),
           \A T \in SUBSET S : (\A U \in SUBSET T : U # T => U \in G) => T \in G
    PROVE  S \in G
  <1> DEFINE C == (SUBSET S) \ G
  <1>1. C \in SUBSET (SUBSET S)
    OBVIOUS
  <1>2. SUFFICES ASSUME C # {}
                 PROVE  FALSE
    OBVIOUS
  <1>3. PICK T \in C : \A U \in C : ~(U \subseteq T /\ U # T)
    <2> HIDE DEF C
    <2> QED
      BY <1>1, <1>2, MinimalSubset
  <1>4. \A U \in SUBSET T : U # T => U \in G
    BY <1>3
  <1> QED
    BY <1>3, <1>4

\* A claim about the subsets of a finite set holds if it holds for the empty
\* one and follows for each from the one without its first element.
LEMMA SubsetInduction ==
    ASSUME NEW S, IsFiniteSet(S), NEW G \in SUBSET (SUBSET S),
           {} \in G,
           \A T \in SUBSET S : T # {} /\ T \ {First(T)} \in G => T \in G
    PROVE  S \in G
  <1>1. ASSUME NEW T \in SUBSET S, \A U \in SUBSET T : U # T => U \in G
        PROVE  T \in G
    <2>1. CASE T = {}
      BY <2>1
    <2>2. CASE T # {}
      <3>1. T \ {First(T)} \in SUBSET T /\ T \ {First(T)} # T
        BY <2>2, FirstIn
      <3> QED
        BY <1>1, <2>2, <3>1
    <2> QED
      BY <2>1, <2>2
  <1> QED
    BY <1>1, SmallerFirst

\* Integers sum up to an integer.
LEMMA SumInt ==
    ASSUME NEW S, IsFiniteSet(S), NEW f, \A x \in S : f[x] \in Int
    PROVE  SumFunctionOnSet(f, S) \in Int
  <1> DEFINE G == {T \in SUBSET S : SumFunctionOnSet(f, T) \in Int}
  <1>1. {} \in G
    BY SumOfNone
  <1>2. ASSUME NEW T \in SUBSET S, T # {}, T \ {First(T)} \in G
        PROVE  T \in G
    <2>1. IsFiniteSet(T) /\ First(T) \in S
      BY <1>2, FS_Subset, FirstIn
    <2>2. SumFunctionOnSet(f, T) = f[First(T)] + SumFunctionOnSet(f, T \ {First(T)})
      BY <1>2, <2>1, SumStep
    <2>3. f[First(T)] \in Int
      BY <2>1
    <2> QED
      BY <1>2, <2>2, <2>3
  <1>3. S \in G
    <2>1. G \in SUBSET (SUBSET S)
      OBVIOUS
    <2> HIDE DEF G
    <2> QED
      BY <1>1, <1>2, <2>1, SubsetInduction
  <1> QED
    BY <1>3

\* Equal values have equal sums.
LEMMA SumEqual ==
    ASSUME NEW S, IsFiniteSet(S), NEW f, NEW g, \A x \in S : f[x] = g[x]
    PROVE  SumFunctionOnSet(f, S) = SumFunctionOnSet(g, S)
  <1> DEFINE G == {T \in SUBSET S : SumFunctionOnSet(f, T) = SumFunctionOnSet(g, T)}
  <1>1. {} \in G
    BY SumOfNone
  <1>2. ASSUME NEW T \in SUBSET S, T # {}, T \ {First(T)} \in G
        PROVE  T \in G
    <2>1. IsFiniteSet(T) /\ First(T) \in S
      BY <1>2, FS_Subset, FirstIn
    <2> QED
      BY <1>2, <2>1, SumStep
  <1>3. S \in G
    <2>1. G \in SUBSET (SUBSET S)
      OBVIOUS
    <2> HIDE DEF G
    <2> QED
      BY <1>1, <1>2, <2>1, SubsetInduction
  <1> QED
    BY <1>3

\* A sum of sums is the sum of the pointwise sums.
LEMMA SumAdds ==
    ASSUME NEW S, IsFiniteSet(S), NEW f, NEW g, NEW h,
           \A x \in S : f[x] \in Int /\ g[x] \in Int /\ h[x] = f[x] + g[x]
    PROVE  SumFunctionOnSet(h, S) = SumFunctionOnSet(f, S) + SumFunctionOnSet(g, S)
  <1> DEFINE G == {T \in SUBSET S : SumFunctionOnSet(h, T) =
                       SumFunctionOnSet(f, T) + SumFunctionOnSet(g, T)}
  <1>1. {} \in G
    BY SumOfNone
  <1>2. ASSUME NEW T \in SUBSET S, T # {}, T \ {First(T)} \in G
        PROVE  T \in G
    <2> DEFINE R == T \ {First(T)}
    <2>1. IsFiniteSet(T) /\ IsFiniteSet(R) /\ First(T) \in S
      BY <1>2, FS_Subset, FirstIn
    <2>2. /\ SumFunctionOnSet(f, R) \in Int
          /\ SumFunctionOnSet(g, R) \in Int
      BY <2>1, SumInt
    <2>3. /\ SumFunctionOnSet(f, T) = f[First(T)] + SumFunctionOnSet(f, R)
          /\ SumFunctionOnSet(g, T) = g[First(T)] + SumFunctionOnSet(g, R)
          /\ SumFunctionOnSet(h, T) = h[First(T)] + SumFunctionOnSet(h, R)
      BY <1>2, <2>1, SumStep
    <2>4. SumFunctionOnSet(h, R) = SumFunctionOnSet(f, R) + SumFunctionOnSet(g, R)
      BY <1>2
    <2>5. /\ f[First(T)] \in Int /\ g[First(T)] \in Int
          /\ h[First(T)] = f[First(T)] + g[First(T)]
      BY <2>1
    <2> QED
      BY <2>2, <2>3, <2>4, <2>5
  <1>3. S \in G
    <2>1. G \in SUBSET (SUBSET S)
      OBVIOUS
    <2> HIDE DEF G
    <2> QED
      BY <1>1, <1>2, <2>1, SubsetInduction
  <1> QED
    BY <1>3

\* Larger values have a larger sum.
LEMMA SumGrows ==
    ASSUME NEW S, IsFiniteSet(S), NEW f, NEW g,
           \A x \in S : f[x] \in Int /\ g[x] \in Int /\ f[x] <= g[x]
    PROVE  SumFunctionOnSet(f, S) <= SumFunctionOnSet(g, S)
  <1> DEFINE G == {T \in SUBSET S : SumFunctionOnSet(f, T) <= SumFunctionOnSet(g, T)}
  <1>1. {} \in G
    BY SumOfNone
  <1>2. ASSUME NEW T \in SUBSET S, T # {}, T \ {First(T)} \in G
        PROVE  T \in G
    <2> DEFINE R == T \ {First(T)}
    <2>1. IsFiniteSet(T) /\ IsFiniteSet(R) /\ First(T) \in S
      BY <1>2, FS_Subset, FirstIn
    <2>2. /\ SumFunctionOnSet(f, R) \in Int
          /\ SumFunctionOnSet(g, R) \in Int
          /\ SumFunctionOnSet(f, R) <= SumFunctionOnSet(g, R)
      BY <1>2, <2>1, SumInt
    <2>3. /\ SumFunctionOnSet(f, T) = f[First(T)] + SumFunctionOnSet(f, R)
          /\ SumFunctionOnSet(g, T) = g[First(T)] + SumFunctionOnSet(g, R)
      BY <1>2, <2>1, SumStep
    <2>4. f[First(T)] \in Int /\ g[First(T)] \in Int /\ f[First(T)] <= g[First(T)]
      BY <2>1
    <2> QED
      BY <2>2, <2>3, <2>4
  <1>3. S \in G
    <2>1. G \in SUBSET (SUBSET S)
      OBVIOUS
    <2> HIDE DEF G
    <2> QED
      BY <1>1, <1>2, <2>1, SubsetInduction
  <1> QED
    BY <1>3

\* Zeros sum up to zero, and natural numbers to a natural number.
LEMMA SumNat ==
    ASSUME NEW S, IsFiniteSet(S), NEW f, \A x \in S : f[x] \in Nat
    PROVE  /\ SumFunctionOnSet(f, S) \in Nat
           /\ (\A x \in S : f[x] = 0) => SumFunctionOnSet(f, S) = 0
  <1> DEFINE G == {T \in SUBSET S : /\ SumFunctionOnSet(f, T) \in Nat
                                    /\ (\A x \in T : f[x] = 0) => SumFunctionOnSet(f, T) = 0}
  <1>1. {} \in G
    BY SumOfNone
  <1>2. ASSUME NEW T \in SUBSET S, T # {}, T \ {First(T)} \in G
        PROVE  T \in G
    <2>1. IsFiniteSet(T) /\ First(T) \in T
      BY <1>2, FS_Subset, FirstIn
    <2>2. SumFunctionOnSet(f, T) = f[First(T)] + SumFunctionOnSet(f, T \ {First(T)})
      BY <1>2, <2>1, SumStep
    <2> QED
      BY <1>2, <2>1, <2>2
  <1>3. S \in G
    <2>1. G \in SUBSET (SUBSET S)
      OBVIOUS
    <2> HIDE DEF G
    <2> QED
      BY <1>1, <1>2, <2>1, SubsetInduction
  <1> QED
    BY <1>3

\* Values that differ at one element only have sums that differ by as much.
LEMMA SumChanges ==
    ASSUME NEW S, IsFiniteSet(S), NEW f, NEW g, NEW e \in S,
           \A x \in S : f[x] \in Int /\ g[x] \in Int,
           \A x \in S \ {e} : g[x] = f[x]
    PROVE  SumFunctionOnSet(g, S) = SumFunctionOnSet(f, S) + (g[e] - f[e])
  <1> DEFINE G == {T \in SUBSET S : SumFunctionOnSet(g, T) =
                       SumFunctionOnSet(f, T) + IF e \in T THEN g[e] - f[e] ELSE 0}
  <1>1. {} \in G
    BY SumOfNone
  <1>2. ASSUME NEW T \in SUBSET S, T # {}, T \ {First(T)} \in G
        PROVE  T \in G
    <2> DEFINE R == T \ {First(T)}
    <2>1. IsFiniteSet(T) /\ IsFiniteSet(R) /\ First(T) \in T
      BY <1>2, FS_Subset, FirstIn
    <2>2. /\ SumFunctionOnSet(f, R) \in Int
          /\ SumFunctionOnSet(g, R) \in Int
      BY <2>1, SumInt
    <2>3. /\ SumFunctionOnSet(f, T) = f[First(T)] + SumFunctionOnSet(f, R)
          /\ SumFunctionOnSet(g, T) = g[First(T)] + SumFunctionOnSet(g, R)
      BY <1>2, <2>1, SumStep
    <2>4. SumFunctionOnSet(g, R) =
              SumFunctionOnSet(f, R) + IF e \in R THEN g[e] - f[e] ELSE 0
      BY <1>2
    <2>5. /\ f[First(T)] \in Int /\ g[First(T)] \in Int
          /\ f[e] \in Int /\ g[e] \in Int
          /\ First(T) # e => g[First(T)] = f[First(T)]
      BY <2>1
    <2>6. CASE First(T) = e
      BY <2>1, <2>2, <2>3, <2>4, <2>5, <2>6
    <2>7. CASE First(T) # e
      BY <2>1, <2>2, <2>3, <2>4, <2>5, <2>7
    <2> QED
      BY <2>6, <2>7
  <1>3. S \in G
    <2>1. G \in SUBSET (SUBSET S)
      OBVIOUS
    <2> HIDE DEF G
    <2> QED
      BY <1>1, <1>2, <2>1, SubsetInduction
  <1> QED
    BY <1>3

\* The order in which the fold takes the elements does not matter.
LEMMA SumWithout ==
    ASSUME NEW S, IsFiniteSet(S), NEW f, \A x \in S : f[x] \in Int, NEW e \in S
    PROVE  SumFunctionOnSet(f, S) = f[e] + SumFunctionOnSet(f, S \ {e})
  <1> DEFINE G == {T \in SUBSET S : \A x \in T : SumFunctionOnSet(f, T) =
                                        f[x] + SumFunctionOnSet(f, T \ {x})}
  <1>2. SUFFICES ASSUME NEW T \in SUBSET S, \A U \in SUBSET T : U # T => U \in G
                 PROVE  T \in G
    <2>1. G \in SUBSET (SUBSET S)
      OBVIOUS
    <2>2. S \in G => SumFunctionOnSet(f, S) = f[e] + SumFunctionOnSet(f, S \ {e})
      OBVIOUS
    <2> HIDE DEF G
    <2> QED
      BY <2>1, <2>2, SmallerFirst
  <1>3. SUFFICES ASSUME NEW x \in T
                 PROVE  SumFunctionOnSet(f, T) = f[x] + SumFunctionOnSet(f, T \ {x})
    OBVIOUS
  <1> DEFINE y == First(T)
             R == T \ {y}
  <1>4. IsFiniteSet(T) /\ y \in T
    BY FS_Subset, FirstIn
  <1>5. SumFunctionOnSet(f, T) = f[y] + SumFunctionOnSet(f, R)
    BY <1>4, SumStep
  <1>6. CASE x = y
    BY <1>5, <1>6
  <1>7. CASE x # y
    <2>1. R \in G /\ T \ {x} \in G /\ x \in R /\ y \in T \ {x}
      BY <1>2, <1>4, <1>7
    <2>2. /\ SumFunctionOnSet(f, R) = f[x] + SumFunctionOnSet(f, R \ {x})
          /\ SumFunctionOnSet(f, T \ {x}) = f[y] + SumFunctionOnSet(f, (T \ {x}) \ {y})
      BY <2>1
    <2>3. R \ {x} = (T \ {x}) \ {y}
      OBVIOUS
    <2>4. SumFunctionOnSet(f, R \ {x}) \in Int
      <3>1. IsFiniteSet(R \ {x})
        BY <1>4, FS_Subset
      <3> QED
        BY <3>1, SumInt
    <2>5. f[x] \in Int /\ f[y] \in Int
      BY <1>4
    <2> DEFINE rest == SumFunctionOnSet(f, R \ {x})
    <2>6. /\ SumFunctionOnSet(f, T) = f[y] + (f[x] + rest)
          /\ SumFunctionOnSet(f, T \ {x}) = f[y] + rest
          /\ rest \in Int
      BY <1>5, <2>2, <2>3, <2>4
    <2> HIDE DEF rest, y
    <2> QED
      BY <2>5, <2>6
  <1> QED
    BY <1>6, <1>7

\* The sum over a part is the sum over the whole with zeros elsewhere.
LEMMA SumOfPart ==
    ASSUME NEW S, IsFiniteSet(S), NEW P \in SUBSET S, NEW f, \A x \in P : f[x] \in Int,
           NEW g, \A x \in S : g[x] = IF x \in P THEN f[x] ELSE 0
    PROVE  SumFunctionOnSet(g, S) = SumFunctionOnSet(f, P)
  <1> DEFINE G == {T \in SUBSET S : SumFunctionOnSet(g, T) = SumFunctionOnSet(f, T \cap P)}
  <1>1. {} \in G
    BY SumOfNone
  <1>2. ASSUME NEW T \in SUBSET S, T # {}, T \ {First(T)} \in G
        PROVE  T \in G
    <2> DEFINE y == First(T)
               R == T \ {y}
    <2>1. IsFiniteSet(T) /\ IsFiniteSet(R) /\ IsFiniteSet(T \cap P) /\ IsFiniteSet(R \cap P)
          /\ y \in T
      BY <1>2, FS_Subset, FirstIn
    <2>2. SumFunctionOnSet(g, T) = g[y] + SumFunctionOnSet(g, R)
      BY <1>2, <2>1, SumStep
    <2>3. SumFunctionOnSet(g, R) = SumFunctionOnSet(f, R \cap P)
      BY <1>2
    <2>4. CASE y \in P
      <3>1. SumFunctionOnSet(f, T \cap P) = f[y] + SumFunctionOnSet(f, (T \cap P) \ {y})
        BY <2>1, <2>4, SumWithout
      <3>2. (T \cap P) \ {y} = R \cap P
        OBVIOUS
      <3>3. g[y] = f[y]
        BY <2>1, <2>4
      <3> QED
        BY <2>2, <2>3, <3>1, <3>2, <3>3
    <2>5. CASE y \notin P
      <3>1. R \cap P = T \cap P /\ g[y] = 0
        BY <2>1, <2>5
      <3>2. SumFunctionOnSet(f, T \cap P) \in Int
        BY <2>1, SumInt
      <3>3. SumFunctionOnSet(g, R) = SumFunctionOnSet(f, T \cap P)
        BY <2>3, <3>1
      <3> HIDE DEF R, y
      <3> QED
        BY <2>2, <3>1, <3>2, <3>3
    <2> QED
      BY <2>4, <2>5
  <1>3. S \in G
    <2>1. G \in SUBSET (SUBSET S)
      OBVIOUS
    <2> HIDE DEF G
    <2> QED
      BY <1>1, <1>2, <2>1, SubsetInduction
  <1>4. S \cap P = P
    OBVIOUS
  <1> QED
    BY <1>3, <1>4

-----------------------------------------------------------------------------
(***************************************************************************)
(* Numbers without a gap                                                   *)
(***************************************************************************)

\* Positive numbers that come with every smaller one are those up to their
\* number.
LEMMA WithoutGap ==
    ASSUME NEW n \in Nat, NEW S \in SUBSET (1..n), \A l \in S : \A k \in 1..l : k \in S
    PROVE  /\ Cardinality(S) \in 0..n
           /\ S = 1..Cardinality(S)
  <1>1. \E m \in 0..n : S = 1..m
    <2> DEFINE out == (1..n) \ S
               C == {1..k : k \in out}
    <2>1. CASE out = {}
      <3>1. S = 1..n
        BY <2>1
      <3> QED
        BY <3>1
    <2>2. CASE out # {}
      <3>1. IsFiniteSet(1..n) /\ C \in SUBSET (SUBSET (1..n)) /\ C # {}
        BY <2>2, FS_Interval
      <3>2. PICK T \in C : \A U \in C : ~(U \subseteq T /\ U # T)
        <4> DEFINE I == 1..n
        <4>1. IsFiniteSet(I) /\ C \in SUBSET (SUBSET I) /\ C # {}
          BY <3>1
        <4> HIDE DEF C, I
        <4> QED
          BY <4>1, MinimalSubset
      <3>3. PICK m \in out : T = 1..m
        BY <3>2
      <3>4. ASSUME NEW k \in 1..n, k < m
            PROVE  k \in S
        <4>1. (1..k) \subseteq T /\ 1..k # T
          <5>1. m \in T /\ m \notin 1..k
            BY <3>3, <3>4
          <5>2. \A x \in 1..k : x \in 1..m
            BY <3>3, <3>4
          <5> QED
            BY <3>3, <5>1, <5>2
        <4> QED
          BY <3>2, <4>1
      <3>5. ASSUME NEW l \in S
            PROVE  l < m
        <4>1. m \notin S /\ m \in 1..n /\ l \in 1..n
          BY <3>3
        <4> QED
          BY <4>1
      <3>6. S = 1..(m - 1)
        <4>1. \A l \in S : l \in 1..(m - 1)
          BY <3>3, <3>5
        <4>2. \A k \in 1..(m - 1) : k \in S
          BY <3>3, <3>4
        <4> QED
          BY <4>1, <4>2
      <3> QED
        BY <3>3, <3>6
    <2> QED
      BY <2>1, <2>2
  <1>2. PICK m \in 0..n : S = 1..m
    BY <1>1
  <1>3. Cardinality(1..m) = m
    BY <1>2, FS_Interval
  <1> QED
    BY <1>2, <1>3

-----------------------------------------------------------------------------
(***************************************************************************)
(* Induction over numbers, by the set of those that satisfy a claim        *)
(***************************************************************************)

\* A power of two counts the subsets of a set.
LEMMA PowerOfTwo ==
    ASSUME NEW n \in Nat
    PROVE  2 ^ n \in Nat \ {0}
  <1>1. PICK S : S = 1..n
    OBVIOUS
  <1>2. IsFiniteSet(S) /\ Cardinality(S) = n
    BY <1>1, FS_Interval
  <1>3. IsFiniteSet(SUBSET S) /\ Cardinality(SUBSET S) = 2 ^ n
    BY <1>2, FS_SUBSET
  <1>4. SUBSET S # {}
    OBVIOUS
  <1>5. Cardinality(SUBSET S) \in Nat /\ Cardinality(SUBSET S) # 0
    BY <1>3, <1>4, FS_CardinalityType, FS_EmptySet
  <1> QED
    BY <1>3, <1>5

\* A set of numbers that has 0 and with a number the next one has them all.
LEMMA NumbersInduction ==
    ASSUME NEW S, 0 \in S, \A n \in Nat : n \in S => n + 1 \in S
    PROVE  Nat \subseteq S
  <1> SUFFICES ASSUME NEW n \in Nat, n \notin S
               PROVE  FALSE
    OBVIOUS
  <1>1. PICK m \in Nat : m \notin S /\ \A k \in Nat : k < m => k \in S
    <2> DEFINE C == {0..m : m \in {k \in 0..n : k \notin S}}
    <2>1. PICK B : B = 0..n /\ IsFiniteSet(B)
      BY FS_Interval
    <2>2. C # {} /\ C \in SUBSET (SUBSET B)
      BY <2>1
    <2>3. PICK T \in C : \A U \in C : ~(U \subseteq T /\ U # T)
      <3>1. IsFiniteSet(B)
        BY <2>1
      <3> HIDE DEF C
      <3> QED
        BY <2>2, <3>1, MinimalSubset
    <2>4. PICK m \in 0..n : T = 0..m /\ m \notin S
      OBVIOUS
    <2>5. ASSUME NEW k \in Nat, k < m
          PROVE  k \in S
      <3>1. 0..k \subseteq T
        BY <2>4, <2>5
      <3>2. m \in T /\ m \notin 0..k
        BY <2>4, <2>5
      <3>3. 0..k \notin C
        BY <2>3, <3>1, <3>2
      <3> QED
        BY <2>4, <2>5, <3>3
    <2> QED
      BY <2>4, <2>5
  <1>2. m # 0 /\ m - 1 \in S
    BY <1>1
  <1> QED
    BY <1>1, <1>2

\* A function that is defined from the value before exists.
LEMMA RecursionExists ==
    ASSUME NEW a \in Nat, NEW F \in [Nat \X Nat -> Nat], NEW n \in Nat
    PROVE  \E g \in [0..n -> Nat] : /\ g[0] = a
                                  /\ \A i \in 1..n : g[i] = F[<<i, g[i - 1]>>]
  <1> DEFINE Runs(g, m) == /\ g[0] = a
                           /\ \A i \in 1..m : g[i] = F[<<i, g[i - 1]>>]
             S == {m \in Nat : \E g \in [0..m -> Nat] : Runs(g, m)}
  <1>1. 0 \in S
    <2>1. [i \in 0..0 |-> a] \in [0..0 -> Nat] /\ Runs([i \in 0..0 |-> a], 0)
      OBVIOUS
    <2> QED
      BY <2>1
  <1>2. ASSUME NEW m \in Nat, m \in S
        PROVE  m + 1 \in S
    <2>1. PICK g \in [0..m -> Nat] : Runs(g, m)
      BY <1>2
    <2> DEFINE h == [i \in 0..(m + 1) |-> IF i = m + 1 THEN F[<<m + 1, g[m]>>] ELSE g[i]]
    <2>2. h \in [0..(m + 1) -> Nat]
      BY <2>1
    <2>3. h[0] = a
      BY <2>1
    <2>4. ASSUME NEW i \in 1..(m + 1)
          PROVE  h[i] = F[<<i, h[i - 1]>>]
      <3>1. h[i - 1] = g[i - 1]
        OBVIOUS
      <3>2. CASE i = m + 1
        <4>1. h[i] = F[<<m + 1, g[m]>>] /\ i - 1 = m
          BY <3>2
        <4> HIDE DEF h
        <4> QED
          BY <3>1, <3>2, <4>1
      <3>3. CASE i # m + 1
        <4>1. i \in 1..m /\ h[i] = g[i]
          BY <3>3
        <4> HIDE DEF h
        <4> QED
          BY <2>1, <3>1, <4>1
      <3> QED
        BY <3>2, <3>3
    <2> HIDE DEF h
    <2>5. Runs(h, m + 1)
      BY <2>3, <2>4
    <2> HIDE DEF Runs
    <2> QED
      BY <2>2, <2>5
  <1> HIDE DEF S
  <1>3. n \in S
    BY <1>1, <1>2, NumbersInduction
  <1> QED
    BY <1>3 DEF S

-----------------------------------------------------------------------------
(***************************************************************************)
(* The ways to pick some of n things                                       *)
(***************************************************************************)

Picks(n, k) == {T \in SUBSET (1..n) : Cardinality(T) = k}
WaysToPick(n, k) == Cardinality(Picks(n, k))

\* They are finitely many, of sets of as many things.
LEMMA PicksAreFinite ==
    ASSUME NEW n \in Nat, NEW k
    PROVE  /\ IsFiniteSet(Picks(n, k)) /\ WaysToPick(n, k) \in Nat
           /\ \A T \in SUBSET (1..n) : IsFiniteSet(T) /\ Cardinality(T) \in 0..n
  <1>1. PICK S : S = 1..n /\ IsFiniteSet(S) /\ Cardinality(S) = n
    BY FS_Interval
  <1>2. IsFiniteSet(SUBSET S)
    BY <1>1, FS_SUBSET
  <1>3. Picks(n, k) \in SUBSET SUBSET S
    BY <1>1 DEF Picks
  <1>4. IsFiniteSet(Picks(n, k))
    BY <1>2, <1>3, FS_Subset
  <1>5. ASSUME NEW T \in SUBSET S
        PROVE  IsFiniteSet(T) /\ Cardinality(T) \in 0..n
    <2>1. IsFiniteSet(T) /\ Cardinality(T) <= Cardinality(S)
      BY <1>1, <1>5, FS_Subset
    <2>2. Cardinality(T) \in Nat
      BY <2>1, FS_CardinalityType
    <2> QED
      BY <1>1, <2>1, <2>2
  <1> QED
    BY <1>1, <1>4, <1>5, FS_CardinalityType DEF WaysToPick

\* There is one way to pick nothing, and none to pick more than there is.
LEMMA WaysAtTheEnds ==
    ASSUME NEW n \in Nat
    PROVE  WaysToPick(n, 0) = 1 /\ \A k \in Nat : k > n => WaysToPick(n, k) = 0
  <1>1. ASSUME NEW T \in SUBSET (1..n), Cardinality(T) = 0
        PROVE  T = {}
    BY <1>1, PicksAreFinite, FS_EmptySet
  <1>2. Picks(n, 0) = {{}}
    BY <1>1, FS_EmptySet DEF Picks
  <1>3. ASSUME NEW k \in Nat, k > n
        PROVE  Picks(n, k) = {}
    <2>1. \A T \in SUBSET (1..n) : Cardinality(T) \in 0..n
      BY PicksAreFinite
    <2> QED
      BY <1>3, <2>1 DEF Picks
  <1> QED
    BY <1>2, <1>3, FS_Singleton, FS_EmptySet DEF WaysToPick

\* Pascal's rule: the last thing is picked or not.
LEMMA LastIsPickedOrNot ==
    ASSUME NEW n \in Nat \ {0}, NEW k \in Nat \ {0}
    PROVE  WaysToPick(n, k) = WaysToPick(n - 1, k) + WaysToPick(n - 1, k - 1)
  <1> DEFINE With == {T \in Picks(n, k) : n \in T}
             Less == Picks(n - 1, k - 1)
             Without == Picks(n - 1, k)
             F == [T \in With |-> T \ {n}]
  <1>1. /\ n - 1 \in Nat /\ IsFiniteSet(Picks(n, k)) /\ IsFiniteSet(Without)
        /\ IsFiniteSet(Less) /\ WaysToPick(n - 1, k) \in Nat /\ WaysToPick(n - 1, k - 1) \in Nat
    BY PicksAreFinite
  <1>2. /\ \A T \in SUBSET (1..n) : IsFiniteSet(T) /\ Cardinality(T) \in 0..n
        /\ \A T \in SUBSET (1..(n - 1)) : T \in SUBSET (1..n) /\ n \notin T
        /\ \A T \in SUBSET (1..n) : n \notin T => T \in SUBSET (1..(n - 1))
    <2>1. \A T \in SUBSET (1..n) : IsFiniteSet(T) /\ Cardinality(T) \in 0..n
      BY PicksAreFinite
    <2> QED
      BY <2>1
  <1>3. ASSUME NEW T \in With
        PROVE  T \ {n} \in Less
    <2>1. T \in SUBSET (1..n) /\ Cardinality(T) = k /\ n \in T
      BY DEF Picks
    <2>2. Cardinality(T \ {n}) = k - 1
      BY <1>2, <2>1, FS_RemoveElement
    <2>3. T \ {n} \in SUBSET (1..(n - 1))
      BY <1>2, <2>1
    <2> QED
      BY <2>2, <2>3 DEF Picks
  <1>4. ASSUME NEW U \in Less
        PROVE  U \cup {n} \in With /\ (U \cup {n}) \ {n} = U
    <2>1. U \in SUBSET (1..(n - 1)) /\ Cardinality(U) = k - 1
      BY DEF Picks
    <2>2. U \in SUBSET (1..n) /\ n \notin U /\ IsFiniteSet(U)
      BY <1>2, <2>1
    <2>3. Cardinality(U \cup {n}) = k
      BY <2>1, <2>2, FS_AddElement
    <2>4. U \cup {n} \in SUBSET (1..n)
      BY <2>2
    <2> QED
      BY <2>2, <2>3, <2>4 DEF Picks
  <1>5. F \in Bijection(With, Less)
    <2>1. F \in [With -> Less]
      BY <1>3
    <2>2. ASSUME NEW T \in With, NEW U \in With, F[T] = F[U]
          PROVE  T = U
      <3>1. T \ {n} = U \ {n} /\ n \in T /\ n \in U
        BY <2>2
      <3> QED
        BY <3>1
    <2>3. ASSUME NEW U \in Less
          PROVE  \E T \in With : F[T] = U
      BY <1>4
    <2> HIDE DEF F, With, Less
    <2> QED
      BY <2>1, <2>2, <2>3, Fun_IsBij
  <1>6. IsFiniteSet(With)
    <2>1. With \in SUBSET Picks(n, k)
      OBVIOUS
    <2> HIDE DEF With
    <2> QED
      BY <1>1, <2>1, FS_Subset
  <1>7. Cardinality(With) = Cardinality(Less)
    <2>1. ExistsBijection(With, Less)
      BY <1>5 DEF ExistsBijection
    <2> HIDE DEF With, Less
    <2> QED
      BY <1>6, <2>1, FS_Bijection
  <1>8. Picks(n, k) = Without \cup With /\ Without \cap With = {}
    BY <1>2 DEF Picks
  <1>9. Cardinality(Picks(n, k)) = Cardinality(Without) + Cardinality(With)
    <2>1. Cardinality({}) = 0 /\ Cardinality(Without) \in Nat /\ Cardinality(With) \in Nat
      BY <1>1, <1>6, FS_EmptySet, FS_CardinalityType
    <2> HIDE DEF With, Without
    <2>2. Cardinality(Without \cup With)
            = Cardinality(Without) + Cardinality(With) - Cardinality(Without \cap With)
      BY <1>1, <1>6, FS_Union
    <2>3. Cardinality(Without \cap With) = 0
      BY <1>8, <2>1
    <2>4. Cardinality(Picks(n, k)) = Cardinality(Without \cup With)
      BY <1>8
    <2> QED
      BY <2>1, <2>2, <2>3, <2>4
  <1> QED
    BY <1>7, <1>9 DEF WaysToPick

\* What is left is picked as often as what is taken.
LEMMA WaysMirror ==
    ASSUME NEW n \in Nat, NEW k \in 0..n
    PROVE  WaysToPick(n, k) = WaysToPick(n, n - k)
  <1> DEFINE S == 1..n
             F == [T \in Picks(n, k) |-> S \ T]
  <1>1. IsFiniteSet(S) /\ Cardinality(S) = n
    BY FS_Interval
  <1>2. ASSUME NEW T \in SUBSET S
        PROVE  Cardinality(S \ T) = n - Cardinality(T) /\ Cardinality(T) \in Nat
    <2>1. S \cap T = T
      OBVIOUS
    <2> HIDE DEF S
    <2>2. IsFiniteSet(T) /\ Cardinality(S \ T) = Cardinality(S) - Cardinality(S \cap T)
      BY <1>1, <1>2, FS_Difference, FS_Subset
    <2>3. Cardinality(T) \in Nat
      BY <2>2, FS_CardinalityType
    <2> QED
      BY <1>1, <2>1, <2>2, <2>3
  <1> HIDE DEF S
  <1>3. \A j : Picks(n, j) = {T \in SUBSET S : Cardinality(T) = j}
    BY DEF Picks, S
  <1>4. F \in [Picks(n, k) -> Picks(n, n - k)]
    BY <1>2, <1>3
  <1>5. ASSUME NEW T \in Picks(n, k), NEW U \in Picks(n, k), F[T] = F[U]
        PROVE  T = U
    <2>1. S \ T = S \ U /\ T \subseteq S /\ U \subseteq S
      BY <1>3, <1>5
    <2> QED
      BY <2>1
  <1>6. ASSUME NEW U \in Picks(n, n - k)
        PROVE  \E T \in Picks(n, k) : F[T] = U
    <2>1. U \in SUBSET S /\ Cardinality(U) = n - k
      BY <1>3
    <2>2. S \ U \in Picks(n, k)
      BY <1>2, <1>3, <2>1
    <2>3. S \ (S \ U) = U
      BY <2>1
    <2> QED
      BY <2>2, <2>3
  <1>7. ExistsBijection(Picks(n, k), Picks(n, n - k))
    <2> HIDE DEF F
    <2>1. F \in Bijection(Picks(n, k), Picks(n, n - k))
      BY <1>4, <1>5, <1>6, Fun_IsBij
    <2> QED
      BY <2>1 DEF ExistsBijection
  <1> QED
    BY <1>7, PicksAreFinite, FS_Bijection DEF WaysToPick

\* One step of the absorption rule in numbers.
LEMMA AbsorbStep ==
    ASSUME NEW n \in Nat, NEW k \in Nat, NEW a \in Nat, NEW b \in Nat, NEW c \in Nat,
           NEW d \in Nat, NEW e \in Nat,
           a = b + c, k * b = (n - 1) * d, (k - 1) * c = (n - 1) * e, c = d + e
    PROVE  k * a = n * c
  <1>1. k * a = k * b + k * c
    BY Z3
  <1>2. k * c = (k - 1) * c + c
    BY Z3
  <1>3. (n - 1) * c = (n - 1) * d + (n - 1) * e
    BY Z3
  <1>4. n * c = (n - 1) * c + c
    BY Z3
  <1> QED
    BY <1>1, <1>2, <1>3, <1>4

\* Counted by one of the things picked: k of n, each chosen first.
LEMMA WaysAbsorb ==
    ASSUME NEW n \in Nat \ {0}, NEW k \in Nat \ {0}
    PROVE  k * WaysToPick(n, k) = n * WaysToPick(n - 1, k - 1)
  <1> DEFINE S == {m \in Nat : \A j \in Nat :
                       (j + 1) * WaysToPick(m + 1, j + 1) = (m + 1) * WaysToPick(m, j)}
  <1>1. \A m, j \in Nat : WaysToPick(m, j) \in Nat
    BY PicksAreFinite
  <1>2. \A m, j \in Nat : WaysToPick(m + 1, j + 1) = WaysToPick(m, j + 1) + WaysToPick(m, j)
    <2> SUFFICES ASSUME NEW m \in Nat, NEW j \in Nat
                 PROVE  WaysToPick(m + 1, j + 1) = WaysToPick(m, j + 1) + WaysToPick(m, j)
      OBVIOUS
    <2>1. PICK p, q : p = m + 1 /\ q = j + 1
      OBVIOUS
    <2>2. p \in Nat \ {0} /\ q \in Nat \ {0} /\ p - 1 = m /\ q - 1 = j
      BY <2>1
    <2> QED
      BY <2>1, <2>2, LastIsPickedOrNot
  <1>3. \A m \in Nat : WaysToPick(m, 0) = 1 /\ \A j \in Nat : j > m => WaysToPick(m, j) = 0
    BY WaysAtTheEnds
  <1>4. 0 \in S
    <2> SUFFICES ASSUME NEW j \in Nat
                 PROVE  (j + 1) * WaysToPick(0 + 1, j + 1) = (0 + 1) * WaysToPick(0, j)
      OBVIOUS
    <2>1. WaysToPick(0 + 1, j + 1) = WaysToPick(0, j + 1) + WaysToPick(0, j) /\ WaysToPick(0, j + 1) = 0
      BY <1>2, <1>3
    <2>2. CASE j = 0
      BY <1>3, <2>1, <2>2
    <2>3. CASE j # 0
      BY <1>3, <2>1, <2>3
    <2> QED
      BY <2>2, <2>3
  <1>5. ASSUME NEW m \in Nat, m \in S
        PROVE  m + 1 \in S
    <2> SUFFICES ASSUME NEW j \in Nat
                 PROVE  (j + 1) * WaysToPick((m + 1) + 1, j + 1) = ((m + 1) + 1) * WaysToPick(m + 1, j)
      OBVIOUS
    <2>1. PICK a, b, c : /\ a = WaysToPick((m + 1) + 1, j + 1) /\ b = WaysToPick(m + 1, j + 1)
                         /\ c = WaysToPick(m + 1, j)
      OBVIOUS
    <2>2. a \in Nat /\ b \in Nat /\ c \in Nat /\ a = b + c
      BY <1>1, <1>2, <2>1
    <2>3. (j + 1) * b = (m + 1) * WaysToPick(m, j)
      BY <1>5, <2>1
    <2>4. CASE j = 0
      <3>1. WaysToPick(m, j) = 1 /\ c = 1
        BY <1>3, <2>1, <2>4
      <3> QED
        BY <2>1, <2>2, <2>3, <2>4, <3>1
    <2>5. CASE j # 0
      <3>1. PICK i \in Nat : j = i + 1
        <4>1. j - 1 \in Nat /\ j = (j - 1) + 1
          BY <2>5
        <4> QED
          BY <4>1
      <3>2. PICK d, e : d = WaysToPick(m, j) /\ e = WaysToPick(m, i)
        OBVIOUS
      <3>3. d \in Nat /\ e \in Nat
        BY <1>1, <3>2
      <3>4. c = d + e
        BY <1>2, <2>1, <3>1, <3>2
      <3>5. j * c = (m + 1) * e
        BY <1>5, <2>1, <3>1, <3>2
      <3>6. PICK p, q : p = (m + 1) + 1 /\ q = j + 1
        OBVIOUS
      <3>7. p \in Nat /\ q \in Nat /\ p - 1 = m + 1 /\ q - 1 = j
        BY <3>6
      <3>8. q * b = (p - 1) * d /\ (q - 1) * c = (p - 1) * e
        BY <2>3, <3>2, <3>5, <3>6, <3>7
      <3>9. q * a = p * c
        BY <2>2, <3>3, <3>4, <3>7, <3>8, AbsorbStep
      <3> QED
        BY <2>1, <3>6, <3>9
    <2> QED
      BY <2>4, <2>5
  <1>6. n - 1 \in S
    <2> HIDE DEF S
    <2>1. Nat \subseteq S
      BY <1>4, <1>5, NumbersInduction
    <2> QED
      BY <2>1
  <1>7. PICK j \in Nat : j = k - 1
    OBVIOUS
  <1>8. (j + 1) * WaysToPick((n - 1) + 1, j + 1) = ((n - 1) + 1) * WaysToPick(n - 1, j)
    BY <1>6
  <1>9. j + 1 = k /\ (n - 1) + 1 = n
    BY <1>7
  <1> QED
    BY <1>7, <1>8, <1>9
================================================================================
