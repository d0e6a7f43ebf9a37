---------------------------- MODULE SumTheorems -----------------------------
(***************************************************************************)
(* What SumFunctionOnSet, the sum of a function over a finite set, is for  *)
(* every set: an integer, none of whose terms depends on the order they    *)
(* are added in, that changes by what one changed term changes.            *)
(*                                                                         *)
(* The fold it is defined by CHOOSEs a function over all subsets, so it    *)
(* takes a proof that there is one (FoldExists).  Strict inclusion of      *)
(* finite sets is well-founded, so a set of subsets that has a set when it *)
(* has all those one element smaller has them all (SubsetInduction); what  *)
(* is proved by it is stated as membership in such a set.                  *)
(***************************************************************************)
EXTENDS Functions, FiniteSetTheorems, TLAPS

\* The element that the fold adds first, and what it leaves.
Chosen(s) == CHOOSE x \in s : TRUE
Rest(s) == s \ {Chosen(s)}

\* g adds up f over every subset of S, in the order of the folds.
Adds(g, f, S) ==
    g = [s \in SUBSET S |->
           IF s = {} THEN 0 ELSE f[Chosen(s)] + g[Rest(s)]]

\* The function that SumFunctionOnSet applies to S.
Fold(f, S) == CHOOSE g : Adds(g, f, S)

\* A set P that has a subset of S when it has every subset one element smaller
\* has S.
LEMMA SubsetInduction ==
    ASSUME NEW S, IsFiniteSet(S), NEW P, {} \in P,
           \A T \in SUBSET S :
              T # {} /\ (\A x \in T : T \ {x} \in P) => T \in P
    PROVE  S \in P
  <1> DEFINE Bad == {T \in SUBSET S : T \notin P}
  <1>1. SUFFICES ASSUME Bad # {} PROVE FALSE
    OBVIOUS
  <1>2. Bad \subseteq FiniteSubsetsOf(S)
    BY FS_Subset DEF FiniteSubsetsOf
  <1>3. PICK T \in Bad : \A U \in Bad : <<U, T>> \notin StrictSubsetOrdering(S)
    BY <1>1, <1>2, FS_StrictSubsetOrderingWellFounded, WFMin
  <1>4. ASSUME NEW x \in T
        PROVE  T \ {x} \in P
    <2>1. <<T \ {x}, T>> \in StrictSubsetOrdering(S)
      BY <1>3, <1>4 DEF StrictSubsetOrdering
    <2> QED
      BY <1>3, <2>1
  <1> QED
    BY <1>3, <1>4

\* The library's sum is that fold.
LEMMA SumIsFold ==
    ASSUME NEW f, NEW S
    PROVE  SumFunctionOnSet(f, S) = Fold(f, S)[S]
  BY DEF SumFunctionOnSet, FoldFunctionOnSet, MapThenFoldSet, Fold, Adds,
         Rest, Chosen

\* What the fold leaves is a smaller set.
LEMMA RestSmaller ==
    ASSUME NEW S, IsFiniteSet(S), S # {}
    PROVE  /\ Chosen(S) \in S
           /\ Rest(S) \subseteq S /\ Chosen(S) \notin Rest(S)
           /\ IsFiniteSet(Rest(S))
  <1>1. Chosen(S) \in S /\ Rest(S) \subseteq S /\ Chosen(S) \notin Rest(S)
    BY DEF Chosen, Rest
  <1> QED
    BY <1>1, FS_Subset

\* A fold at one subset.
LEMMA FoldStep ==
    ASSUME NEW f, NEW S, NEW g, Adds(g, f, S), NEW T \in SUBSET S
    PROVE  g[T] = IF T = {} THEN 0 ELSE f[Chosen(T)] + g[Rest(T)]
  BY DEF Adds

\* Two folds over larger sets agree on the subsets they share.
LEMMA FoldsAgree ==
    ASSUME NEW f, NEW S, IsFiniteSet(S), NEW A, NEW B,
           S \subseteq A, S \subseteq B,
           NEW g, Adds(g, f, A), NEW h, Adds(h, f, B)
    PROVE  g[S] = h[S]
  <1> DEFINE P == {T \in SUBSET S : g[T] = h[T]}
  <1>1. {} \in P
    BY FoldStep
  <1>2. ASSUME NEW T \in SUBSET S, T # {}, \A x \in T : T \ {x} \in P
        PROVE  T \in P
    <2>1. g[Rest(T)] = h[Rest(T)]
      <3>1. Chosen(T) \in T
        BY <1>2 DEF Chosen
      <3> QED
        BY <1>2, <3>1 DEF Rest
    <2>2. T \in SUBSET A /\ T \in SUBSET B
      OBVIOUS
    <2>3. g[T] = h[T]
      BY <1>2, <2>1, <2>2, FoldStep
    <2> QED
      BY <2>3
  <1>3. S \in P
    <2> HIDE DEF P
    <2> QED
      BY <1>1, <1>2, SubsetInduction
  <1> QED
    BY <1>3

\* So a fold adds one term to the fold of what is left.
LEMMA FoldOfRest ==
    ASSUME NEW f, NEW S, IsFiniteSet(S), Adds(Fold(f, S), f, S),
           S # {} => Adds(Fold(f, Rest(S)), f, Rest(S))
    PROVE  Fold(f, S)[S] =
             IF S = {} THEN 0 ELSE f[Chosen(S)] + Fold(f, Rest(S))[Rest(S)]
  <1>1. Fold(f, S)[S] =
          IF S = {} THEN 0 ELSE f[Chosen(S)] + Fold(f, S)[Rest(S)]
    BY FoldStep
  <1>2. CASE S # {}
    <2>1. /\ Rest(S) \subseteq S /\ Rest(S) \subseteq Rest(S)
          /\ IsFiniteSet(Rest(S))
      BY <1>2, RestSmaller
    <2>2. Fold(f, S)[Rest(S)] = Fold(f, Rest(S))[Rest(S)]
      BY <1>2, <2>1, FoldsAgree
    <2> QED
      BY <1>1, <1>2, <2>2
  <1> QED
    BY <1>1, <1>2

\* There is a fold over every finite set, made of the folds over its subsets.
LEMMA FoldExists ==
    ASSUME NEW f, NEW S, IsFiniteSet(S)
    PROVE  Adds(Fold(f, S), f, S)
  <1> DEFINE P == {T \in SUBSET S : \A U \in SUBSET T : Adds(Fold(f, U), f, U)}
  <1>1. ASSUME NEW T, NEW g, Adds(g, f, T)
        PROVE  Adds(Fold(f, T), f, T)
    BY <1>1 DEF Fold
  <1>2. {} \in P
    <2>1. Adds([s \in SUBSET {} |-> 0], f, {})
      BY DEF Adds
    <2> QED
      BY <1>1, <2>1
  <1>3. ASSUME NEW T \in SUBSET S, T # {}, \A x \in T : T \ {x} \in P
        PROVE  T \in P
    <2>1. ASSUME NEW U \in SUBSET T, U # T
          PROVE  Adds(Fold(f, U), f, U)
      <3>1. PICK x \in T : x \notin U
        BY <2>1
      <3> QED
        BY <1>3, <2>1, <3>1
    <2> DEFINE g == [s \in SUBSET T |->
                       IF s = {} THEN 0
                       ELSE f[Chosen(s)] + Fold(f, Rest(s))[Rest(s)]]
    <2>2. ASSUME NEW s \in SUBSET T, s # {}
          PROVE  /\ Chosen(s) \in s
                 /\ Rest(s) \in SUBSET T /\ Rest(s) # T
                 /\ IsFiniteSet(Rest(s))
                 /\ Adds(Fold(f, Rest(s)), f, Rest(s))
      <3>1. IsFiniteSet(s)
        BY FS_Subset
      <3>2. /\ Rest(s) \in SUBSET T /\ Rest(s) # T /\ IsFiniteSet(Rest(s))
            /\ Chosen(s) \in s
        BY <2>2, <3>1, RestSmaller
      <3> QED
        BY <2>1, <3>2
    <2>3. ASSUME NEW s \in SUBSET T, s # {}
          PROVE  Fold(f, Rest(s))[Rest(s)] = g[Rest(s)]
      <3>1. PICK u : u = Rest(s)
        OBVIOUS
      <3>2. /\ u \in SUBSET T /\ IsFiniteSet(u) /\ Adds(Fold(f, u), f, u)
            /\ u # {} => Adds(Fold(f, Rest(u)), f, Rest(u))
        BY <2>2, <2>3, <3>1
      <3>3. Fold(f, u)[u] =
              IF u = {} THEN 0 ELSE f[Chosen(u)] + Fold(f, Rest(u))[Rest(u)]
        BY <3>2, FoldOfRest
      <3>4. Fold(f, u)[u] = g[u]
        BY <3>2, <3>3
      <3> QED
        BY <3>1, <3>4
    <2>4. g = [s \in SUBSET T |->
                 IF s = {} THEN 0 ELSE f[Chosen(s)] + g[Rest(s)]]
      BY <2>3
    <2>5. Adds(Fold(f, T), f, T)
      <3> HIDE DEF g
      <3>1. Adds(g, f, T)
        BY <2>4 DEF Adds
      <3> QED
        BY <1>1, <3>1
    <2> QED
      BY <2>1, <2>5
  <1>4. S \in P
    <2> HIDE DEF P
    <2> QED
      BY <1>2, <1>3, SubsetInduction
  <1> QED
    BY <1>4

\* The sum is one term and the sum of the others.
LEMMA SumStep ==
    ASSUME NEW f, NEW S, IsFiniteSet(S)
    PROVE  SumFunctionOnSet(f, S) =
             IF S = {} THEN 0
             ELSE f[Chosen(S)] + SumFunctionOnSet(f, Rest(S))
  <1>1. Adds(Fold(f, S), f, S)
    BY FoldExists
  <1>2. S # {} => Adds(Fold(f, Rest(S)), f, Rest(S))
    BY FoldExists, RestSmaller
  <1> QED
    BY <1>1, <1>2, FoldOfRest, SumIsFold

\* Nothing adds up to 0.
LEMMA SumEmpty ==
    ASSUME NEW f
    PROVE  SumFunctionOnSet(f, {}) = 0
  BY SumStep, FS_EmptySet

\* Integers add up to an integer.
LEMMA SumType ==
    ASSUME NEW f, NEW S, IsFiniteSet(S), \A x \in S : f[x] \in Int
    PROVE  SumFunctionOnSet(f, S) \in Int
  <1> DEFINE P == {T \in SUBSET S : SumFunctionOnSet(f, T) \in Int}
  <1>1. {} \in P
    BY SumEmpty
  <1>2. ASSUME NEW T \in SUBSET S, T # {}, \A x \in T : T \ {x} \in P
        PROVE  T \in P
    <2>1. IsFiniteSet(T)
      BY FS_Subset
    <2>2. Chosen(T) \in T
      BY <1>2, <2>1, RestSmaller
    <2>3. SumFunctionOnSet(f, Rest(T)) \in Int
      BY <1>2, <2>2 DEF Rest
    <2>4. SumFunctionOnSet(f, T) \in Int
      BY <1>2, <2>1, <2>2, <2>3, SumStep
    <2> QED
      BY <2>4
  <1>3. S \in P
    <2> HIDE DEF P
    <2> QED
      BY <1>1, <1>2, SubsetInduction
  <1> QED
    BY <1>3

\* Any term may be the one that is added last.
LEMMA SumRemove ==
    ASSUME NEW f, NEW S, IsFiniteSet(S), \A x \in S : f[x] \in Int,
           NEW i \in S
    PROVE  SumFunctionOnSet(f, S) = f[i] + SumFunctionOnSet(f, S \ {i})
  <1> DEFINE P == {T \in SUBSET S : \A x \in T :
                     SumFunctionOnSet(f, T)
                       = f[x] + SumFunctionOnSet(f, T \ {x})}
  <1>1. {} \in P
    OBVIOUS
  <1>2. ASSUME NEW T \in SUBSET S, T # {}, \A x \in T : T \ {x} \in P,
               NEW x \in T
        PROVE  SumFunctionOnSet(f, T) = f[x] + SumFunctionOnSet(f, T \ {x})
    <2>1. IsFiniteSet(T)
      BY FS_Subset
    <2>2. PICK c : c = Chosen(T) /\ c \in T /\ Rest(T) = T \ {c}
      BY <1>2, <2>1, RestSmaller DEF Rest
    <2>3. SumFunctionOnSet(f, T) = f[c] + SumFunctionOnSet(f, T \ {c})
      <3>1. SumFunctionOnSet(f, T)
              = f[Chosen(T)] + SumFunctionOnSet(f, Rest(T))
        BY <1>2, <2>1, SumStep
      <3> QED
        BY <2>2, <3>1
    <2>4. CASE x # c
      <3>1. SumFunctionOnSet(f, T \ {c})
              = f[x] + SumFunctionOnSet(f, (T \ {c}) \ {x})
        BY <1>2, <2>2, <2>4
      <3>2. SumFunctionOnSet(f, T \ {x})
              = f[c] + SumFunctionOnSet(f, (T \ {x}) \ {c})
        BY <1>2, <2>2, <2>4
      <3>3. PICK U : U = (T \ {c}) \ {x} /\ U = (T \ {x}) \ {c}
        OBVIOUS
      <3>4. SumFunctionOnSet(f, U) \in Int
        BY <2>1, <3>3, FS_Subset, SumType
      <3>5. PICK r \in Int, a \in Int, b \in Int :
              r = SumFunctionOnSet(f, U) /\ a = f[x] /\ b = f[c]
        BY <2>2, <3>4
      <3>6. /\ SumFunctionOnSet(f, T) = b + (a + r)
            /\ f[x] + SumFunctionOnSet(f, T \ {x}) = a + (b + r)
        BY <2>3, <3>1, <3>2, <3>3, <3>5
      <3> QED
        BY <3>5, <3>6
    <2> QED
      BY <2>3, <2>4
  <1>3. S \in P
    <2>1. \A T \in SUBSET S :
            T # {} /\ (\A x \in T : T \ {x} \in P) => T \in P
      BY <1>2
    <2> HIDE DEF P
    <2> QED
      BY <1>1, <2>1, SubsetInduction
  <1> QED
    BY <1>3

\* Functions with the same terms have the same sum.
LEMMA SumAgree ==
    ASSUME NEW f, NEW g, NEW S, IsFiniteSet(S), \A x \in S : f[x] = g[x]
    PROVE  SumFunctionOnSet(f, S) = SumFunctionOnSet(g, S)
  <1> DEFINE P == {T \in SUBSET S :
                     SumFunctionOnSet(f, T) = SumFunctionOnSet(g, T)}
  <1>1. {} \in P
    BY SumStep, FS_EmptySet
  <1>2. ASSUME NEW T \in SUBSET S, T # {}, \A x \in T : T \ {x} \in P
        PROVE  T \in P
    <2>1. IsFiniteSet(T)
      BY FS_Subset
    <2>2. Chosen(T) \in T
      BY <1>2, <2>1, RestSmaller
    <2>3. SumFunctionOnSet(f, Rest(T)) = SumFunctionOnSet(g, Rest(T))
      BY <1>2, <2>2 DEF Rest
    <2>4. SumFunctionOnSet(f, T) = SumFunctionOnSet(g, T)
      BY <1>2, <2>1, <2>2, <2>3, SumStep
    <2> QED
      BY <2>4
  <1>3. S \in P
    <2> HIDE DEF P
    <2> QED
      BY <1>1, <1>2, SubsetInduction
  <1> QED
    BY <1>3

\* A sum changes by what its one changed term does.
LEMMA SumChange ==
    ASSUME NEW f, NEW g, NEW S, IsFiniteSet(S),
           \A x \in S : f[x] \in Int /\ g[x] \in Int,
           NEW i \in S, \A x \in S \ {i} : f[x] = g[x]
    PROVE  SumFunctionOnSet(g, S) = SumFunctionOnSet(f, S) + g[i] - f[i]
  <1>1. IsFiniteSet(S \ {i})
    BY FS_Subset
  <1>2. SumFunctionOnSet(f, S \ {i}) = SumFunctionOnSet(g, S \ {i})
    BY <1>1, SumAgree
  <1>3. SumFunctionOnSet(f, S \ {i}) \in Int
    BY <1>1, SumType
  <1>4. /\ SumFunctionOnSet(f, S) = f[i] + SumFunctionOnSet(f, S \ {i})
        /\ SumFunctionOnSet(g, S) = g[i] + SumFunctionOnSet(g, S \ {i})
    BY SumRemove
  <1> QED
    BY <1>2, <1>3, <1>4
=============================================================================
