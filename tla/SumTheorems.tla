---------------------------- MODULE SumTheorems ----------------------------
(***************************************************************************)
(* What the sums of the community modules are worth, for any finite set    *)
(* and any integers: SumFunctionOnSet is a fold, whose recursive function  *)
(* is shown to exist here, by induction over numbers.  The induction is    *)
(* over a set of numbers, or of sets, that is named: no operator is taken  *)
(* as a parameter.                                                         *)
(***************************************************************************)
EXTENDS Integers, Functions, FiniteSetTheorems, TLAPS

(* Induction.                                                              *)

\* A set of numbers with zero and every successor is all of them.
LEMMA NumberInduction ==
  ASSUME NEW Good, 0 \in Good, \A n \in Nat : n \in Good => n + 1 \in Good
  PROVE  Nat \subseteq Good
  <1> DEFINE Bad == Nat \ Good
             R == OpToRel(<, Nat)
  <1>1. SUFFICES ASSUME Bad # {} PROVE FALSE
    OBVIOUS
  <1>2. PICK n \in Bad : \A m \in Bad : ~(<<m, n>> \in R)
    <2>1. IsWellFoundedOn(R, Nat)
      BY NatLessThanWellFounded
    <2> HIDE DEF R
    <2> QED BY <1>1, <2>1, WFMin
  <1>3. \A m \in Bad : ~(m < n)
    BY <1>2 DEF OpToRel
  <1>4. n # 0 /\ n \in Nat
    OBVIOUS
  <1>5. n - 1 \in Nat /\ n - 1 < n
    BY <1>4
  <1>6. n - 1 \in Good
    BY <1>3, <1>5
  <1>7. (n - 1) + 1 \in Good
    BY <1>5, <1>6
  <1> QED BY <1>4, <1>7

\* A set of sets with the empty set and, with each part of a finite set, every part that has
\* one element more, has the finite set.
LEMMA SetInduction ==
  ASSUME NEW S, IsFiniteSet(S), NEW Good, {} \in Good,
         \A T \in SUBSET S : \A x \in S : T \in Good /\ x \notin T => T \cup {x} \in Good
  PROVE  S \in Good
  <1> DEFINE Sized(n) == \A T \in SUBSET S : Cardinality(T) = n => T \in Good
             Numbers == {n \in Nat : Sized(n)}
  <1>1. 0 \in Numbers
    <2>1. \A T \in SUBSET S : Cardinality(T) = 0 => T = {}
      BY FS_EmptySet, FS_Subset
    <2> QED BY <2>1
  <1>2. \A n \in Nat : n \in Numbers => n + 1 \in Numbers
    <2> SUFFICES ASSUME NEW n \in Nat, Sized(n), NEW T \in SUBSET S, Cardinality(T) = n + 1
                 PROVE  T \in Good
      OBVIOUS
    <2>1. IsFiniteSet(T)
      BY FS_Subset
    <2>2. PICK x : x \in T
      BY <2>1, FS_EmptySet
    <2>3. Cardinality(T \ {x}) = (n + 1) - 1
      BY <2>1, <2>2, FS_RemoveElement
    <2>4. Cardinality(T \ {x}) = n
      BY <2>3
    <2>5. T \ {x} \in Good
      BY <2>4
    <2>6. T = (T \ {x}) \cup {x}
      BY <2>2
    <2> QED BY <2>2, <2>5, <2>6
  <1>3. Nat \subseteq Numbers
    <2> HIDE DEF Numbers
    <2> QED BY <1>1, <1>2, NumberInduction
  <1>4. Cardinality(S) \in Nat
    BY FS_CardinalityType
  <1> QED BY <1>3, <1>4

-----------------------------------------------------------------------------
(* The fold.                                                               *)

First(s) == CHOOSE x \in s : TRUE
Fold(it, f, s) == IF s = {} THEN 0 ELSE f[First(s)] + it[s \ {First(s)}]
Folds(it, f, S) == it = [s \in SUBSET S |-> Fold(it, f, s)]

\* A set that is not empty has a first element.
LEMMA FirstOf == ASSUME NEW s, s # {} PROVE First(s) \in s
  BY DEF First

\* The sum is the value of a function that folds.
LEMMA SumIsFold ==
  ASSUME NEW f, NEW S
  PROVE  SumFunctionOnSet(f, S) = (CHOOSE it : Folds(it, f, S))[S]
  BY Zenon DEF SumFunctionOnSet, FoldFunctionOnSet, MapThenFoldSet, Folds, Fold, First

\* There is one, of integers.
LEMMA FoldExists ==
  ASSUME NEW S, IsFiniteSet(S), NEW f, \A x \in S : f[x] \in Int
  PROVE  \E it \in [SUBSET S -> Int] : Folds(it, f, S)
  <1> DEFINE Upto(n) == {s \in SUBSET S : Cardinality(s) =< n}
             FoldsUpto(it, n) == \A s \in Upto(n) : it[s] = Fold(it, f, s)
             Numbers == {n \in Nat : \E it \in [SUBSET S -> Int] : FoldsUpto(it, n)}
  <1>1. \A s \in SUBSET S : IsFiniteSet(s) /\ Cardinality(s) \in Nat
                            /\ (s # {} => /\ First(s) \in s /\ f[First(s)] \in Int
                                          /\ s \ {First(s)} \in SUBSET S
                                          /\ Cardinality(s \ {First(s)}) = Cardinality(s) - 1)
    BY FirstOf, FS_Subset, FS_CardinalityType, FS_RemoveElement
  <1>2. 0 \in Numbers
    <2> DEFINE it == [s \in SUBSET S |-> 0]
    <2>1. it \in [SUBSET S -> Int]
      OBVIOUS
    <2>2. \A s \in Upto(0) : s = {}
      <3> SUFFICES ASSUME NEW s \in Upto(0) PROVE s = {}
        OBVIOUS
      <3>1. s \in SUBSET S /\ Cardinality(s) =< 0
        OBVIOUS
      <3>2. IsFiniteSet(s) /\ Cardinality(s) \in Nat
        BY <1>1, <3>1
      <3>3. Cardinality(s) = 0
        BY <3>1, <3>2
      <3> QED BY <3>2, <3>3, FS_EmptySet
    <2>3. FoldsUpto(it, 0)
      BY <2>2 DEF Fold
    <2> HIDE DEF it
    <2> QED BY <2>1, <2>3
  <1>3. \A n \in Nat : n \in Numbers => n + 1 \in Numbers
    <2> SUFFICES ASSUME NEW n \in Nat, n \in Numbers
                 PROVE  n + 1 \in Numbers
      OBVIOUS
    <2>4. PICK old \in [SUBSET S -> Int] : FoldsUpto(old, n)
      OBVIOUS
    <2> DEFINE it == [s \in SUBSET S |-> Fold(old, f, s)]
    <2>1. it \in [SUBSET S -> Int]
      <3> SUFFICES ASSUME NEW s \in SUBSET S PROVE Fold(old, f, s) \in Int
        OBVIOUS
      <3>1. s # {} => old[s \ {First(s)}] \in Int /\ f[First(s)] \in Int
        BY <1>1
      <3> QED BY <3>1 DEF Fold
    <2>2. \A s \in Upto(n) : it[s] = old[s]
      BY <2>4
    <2>3. ASSUME NEW s \in Upto(n + 1) PROVE it[s] = Fold(it, f, s)
      <3>1. CASE s = {}
        BY <3>1 DEF Fold
      <3>2. CASE s # {}
        <4>1. s \ {First(s)} \in Upto(n)
          <5>1. /\ Cardinality(s) \in Nat /\ Cardinality(s) =< n + 1
                /\ Cardinality(s \ {First(s)}) = Cardinality(s) - 1
                /\ s \ {First(s)} \in SUBSET S
            BY <1>1, <3>2
          <5>2. Cardinality(s \ {First(s)}) =< n
            BY <5>1
          <5> QED BY <5>1, <5>2
        <4>2. it[s \ {First(s)}] = old[s \ {First(s)}]
          BY <2>2, <4>1
        <4> QED BY <3>2, <4>2 DEF Fold
      <3> QED BY <3>1, <3>2
    <2> HIDE DEF it
    <2> QED BY <2>1, <2>3
  <1>4. Nat \subseteq Numbers
    <2> HIDE DEF Numbers
    <2> QED BY <1>2, <1>3, NumberInduction
  <1>5. Cardinality(S) \in Numbers
    BY <1>1, <1>4
  <1>6. PICK it \in [SUBSET S -> Int] : FoldsUpto(it, Cardinality(S))
    BY <1>5
  <1>7. \A s \in SUBSET S : s \in Upto(Cardinality(S))
    BY FS_Subset
  <1>8. \A s \in SUBSET S : it[s] = Fold(it, f, s)
    BY <1>6, <1>7
  <1>9. it = [s \in SUBSET S |-> Fold(it, f, s)]
    BY <1>8
  <1> QED BY <1>9 DEF Folds

\* Two functions that fold the same integers agree, on the sets they have in common.
LEMMA FoldsAgree ==
  ASSUME NEW S, IsFiniteSet(S), NEW f, NEW T, NEW U, S \subseteq T, S \subseteq U,
         NEW it, Folds(it, f, T), NEW jt, Folds(jt, f, U)
  PROVE  it[S] = jt[S]
  <1> DEFINE Sized(n) == \A s \in SUBSET S : Cardinality(s) = n => it[s] = jt[s]
             Numbers == {n \in Nat : Sized(n)}
  <1>1. \A s \in SUBSET S : it[s] = Fold(it, f, s) /\ jt[s] = Fold(jt, f, s)
    <2> SUFFICES ASSUME NEW s \in SUBSET S PROVE it[s] = Fold(it, f, s) /\ jt[s] = Fold(jt, f, s)
      OBVIOUS
    <2>1. s \in SUBSET T /\ s \in SUBSET U
      OBVIOUS
    <2> DEFINE ft == [t \in SUBSET T |-> Fold(it, f, t)]
               fu == [t \in SUBSET U |-> Fold(jt, f, t)]
    <2>2. it = ft /\ jt = fu
      BY Zenon DEF Folds
    <2>3. ft[s] = Fold(it, f, s) /\ fu[s] = Fold(jt, f, s)
      BY <2>1
    <2> QED BY <2>2, <2>3
  <1>2. 0 \in Numbers
    <2>1. \A s \in SUBSET S : Cardinality(s) = 0 => s = {}
      BY FS_EmptySet, FS_Subset
    <2> QED BY <1>1, <2>1 DEF Fold
  <1>3. \A n \in Nat : n \in Numbers => n + 1 \in Numbers
    <2> SUFFICES ASSUME NEW n \in Nat, Sized(n), NEW s \in SUBSET S, Cardinality(s) = n + 1
                 PROVE  it[s] = jt[s]
      OBVIOUS
    <2>1. IsFiniteSet(s)
      BY FS_Subset
    <2>2. s # {}
      BY <2>1, FS_EmptySet
    <2>3. First(s) \in s
      BY <2>2, FirstOf
    <2>4. Cardinality(s \ {First(s)}) = (n + 1) - 1
      BY <2>1, <2>3, FS_RemoveElement
    <2>5. it[s \ {First(s)}] = jt[s \ {First(s)}]
      BY <2>4
    <2> QED BY <1>1, <2>2, <2>5 DEF Fold
  <1>4. Nat \subseteq Numbers
    <2> HIDE DEF Numbers
    <2> QED BY <1>2, <1>3, NumberInduction
  <1> QED BY <1>4, FS_CardinalityType

-----------------------------------------------------------------------------
(* Sums.                                                                   *)

\* Nothing adds up to zero.
THEOREM SumEmpty == ASSUME NEW f PROVE SumFunctionOnSet(f, {}) = 0
  <1>1. \E it : Folds(it, f, {})
    BY FoldExists, FS_EmptySet
  <1>2. Folds(CHOOSE it : Folds(it, f, {}), f, {})
    BY <1>1
  <1> DEFINE it == CHOOSE i : Folds(i, f, {})
             ft == [s \in SUBSET {} |-> Fold(it, f, s)]
  <1>3. it = ft
    BY Zenon, <1>2 DEF Folds
  <1>4. ft[{}] = 0
    BY DEF Fold
  <1> QED BY <1>3, <1>4, SumIsFold

\* A sum of integers is one, and what is chosen first can be added last.
LEMMA SumFirst ==
  ASSUME NEW S, IsFiniteSet(S), NEW f, \A x \in S : f[x] \in Int
  PROVE  /\ SumFunctionOnSet(f, S) \in Int
         /\ S # {} => SumFunctionOnSet(f, S) = f[First(S)] + SumFunctionOnSet(f, S \ {First(S)})
  <1>1. PICK it \in [SUBSET S -> Int] : Folds(it, f, S)
    BY FoldExists
  <1>2. ASSUME NEW s \in SUBSET S PROVE it[s] = SumFunctionOnSet(f, s)
    <2>1. IsFiniteSet(s) /\ \A x \in s : f[x] \in Int
      BY FS_Subset
    <2>2. \E jt : Folds(jt, f, s)
      BY <2>1, FoldExists
    <2> DEFINE jt == CHOOSE j : Folds(j, f, s)
    <2>3. Folds(jt, f, s)
      BY <2>2
    <2>4. SumFunctionOnSet(f, s) = jt[s]
      BY SumIsFold
    <2> HIDE DEF jt
    <2> QED BY <1>1, <2>1, <2>3, <2>4, FoldsAgree
  <1>3. it[S] = Fold(it, f, S)
    <2> DEFINE ft == [t \in SUBSET S |-> Fold(it, f, t)]
    <2>1. it = ft
      BY Zenon, <1>1 DEF Folds
    <2>2. ft[S] = Fold(it, f, S)
      OBVIOUS
    <2> QED BY <2>1, <2>2
  <1>4. S # {} => it[S] = f[First(S)] + it[S \ {First(S)}]
    BY <1>3 DEF Fold
  <1> QED BY <1>1, <1>2, <1>4

\* A sum of integers is one.
THEOREM SumType ==
  ASSUME NEW S, IsFiniteSet(S), NEW f, \A x \in S : f[x] \in Int
  PROVE  SumFunctionOnSet(f, S) \in Int
  BY SumFirst

\* Any element can be added last.
THEOREM SumRemove ==
  ASSUME NEW S, IsFiniteSet(S), NEW f, \A x \in S : f[x] \in Int, NEW x \in S
  PROVE  SumFunctionOnSet(f, S) = f[x] + SumFunctionOnSet(f, S \ {x})
  <1> DEFINE Sum(s) == SumFunctionOnSet(f, s)
             Sized(n) == \A s \in SUBSET S : Cardinality(s) = n =>
                           \A y \in s : Sum(s) = f[y] + Sum(s \ {y})
             Numbers == {n \in Nat : Sized(n)}
  <1>1. 0 \in Numbers
    <2>1. \A s \in SUBSET S : Cardinality(s) = 0 => s = {}
      BY FS_EmptySet, FS_Subset
    <2> QED BY <2>1
  <1>2. \A n \in Nat : n \in Numbers => n + 1 \in Numbers
    <2> SUFFICES ASSUME NEW n \in Nat, Sized(n), NEW s \in SUBSET S, Cardinality(s) = n + 1,
                        NEW y \in s
                 PROVE  Sum(s) = f[y] + Sum(s \ {y})
      OBVIOUS
    <2> DEFINE z == First(s)
    <2>1. IsFiniteSet(s) /\ \A v \in s : f[v] \in Int
      BY FS_Subset
    <2>2. z \in s
      BY FirstOf
    <2>3. Sum(s) = f[z] + Sum(s \ {z})
      BY <2>1, SumFirst
    <2>4. CASE y = z
      BY <2>3, <2>4
    <2>5. CASE y # z
      <3>1. Cardinality(s \ {y}) = (n + 1) - 1 /\ Cardinality(s \ {z}) = (n + 1) - 1
        <4> HIDE DEF z
        <4>1. Cardinality(s \ {y}) = Cardinality(s) - 1
          BY <2>1, FS_RemoveElement
        <4>2. Cardinality(s \ {z}) = Cardinality(s) - 1
          BY <2>1, <2>2, FS_RemoveElement
        <4> QED BY <4>1, <4>2
      <3>2. Cardinality(s \ {y}) = n /\ Cardinality(s \ {z}) = n
        BY <3>1
      <3>3. y \in s \ {z} /\ z \in s \ {y} /\ s \ {z} \in SUBSET S /\ s \ {y} \in SUBSET S
        BY <2>2, <2>5
      <3>4. Sum(s \ {z}) = f[y] + Sum((s \ {z}) \ {y})
        BY <3>2, <3>3
      <3>5. Sum(s \ {y}) = f[z] + Sum((s \ {y}) \ {z})
        BY <3>2, <3>3
      <3>6. (s \ {z}) \ {y} = (s \ {y}) \ {z}
        OBVIOUS
      <3> DEFINE rest == Sum((s \ {y}) \ {z})
      <3>7. rest \in Int
        <4>1. IsFiniteSet((s \ {y}) \ {z})
          BY <2>1, FS_Subset
        <4> QED BY <2>1, <4>1, SumType
      <3>8. f[y] \in Int /\ f[z] \in Int
        BY <2>1, <2>2
      <3>9. Sum(s) = f[z] + (f[y] + rest) /\ Sum(s \ {y}) = f[z] + rest
        BY <2>3, <3>4, <3>5, <3>6
      <3> HIDE DEF rest, Sum
      <3> QED BY <3>7, <3>8, <3>9
    <2> QED BY <2>4, <2>5
  <1>3. Nat \subseteq Numbers
    <2> HIDE DEF Numbers
    <2> QED BY <1>1, <1>2, NumberInduction
  <1>4. Cardinality(S) \in Numbers
    BY <1>3, FS_CardinalityType
  <1> QED BY <1>4

\* One more is added.
THEOREM SumAdd ==
  ASSUME NEW S, IsFiniteSet(S), NEW f, \A x \in S : f[x] \in Int, NEW x, x \notin S, f[x] \in Int
  PROVE  SumFunctionOnSet(f, S \cup {x}) = f[x] + SumFunctionOnSet(f, S)
  <1>1. IsFiniteSet(S \cup {x}) /\ (S \cup {x}) \ {x} = S
    BY FS_AddElement
  <1> QED BY <1>1, SumRemove

\* The sum of one.
THEOREM SumSingle ==
  ASSUME NEW x, NEW f, f[x] \in Int
  PROVE  SumFunctionOnSet(f, {x}) = f[x]
  <1>1. SumFunctionOnSet(f, {x}) = f[x] + SumFunctionOnSet(f, {x} \ {x})
    BY SumRemove, FS_Singleton
  <1>2. {x} \ {x} = {}
    OBVIOUS
  <1> QED BY <1>1, <1>2, SumEmpty

\* Sums of the same integers are the same.
THEOREM SumSame ==
  ASSUME NEW S, IsFiniteSet(S), NEW f, NEW g, \A x \in S : f[x] \in Int /\ g[x] = f[x]
  PROVE  SumFunctionOnSet(f, S) = SumFunctionOnSet(g, S)
  <1> DEFINE Good == {s \in SUBSET S : SumFunctionOnSet(f, s) = SumFunctionOnSet(g, s)}
  <1>1. {} \in Good
    BY SumEmpty
  <1>2. ASSUME NEW s \in SUBSET S, NEW x \in S, s \in Good, x \notin s
        PROVE  s \cup {x} \in Good
    <2>1. IsFiniteSet(s) /\ (\A y \in s : f[y] \in Int) /\ (\A y \in s : g[y] \in Int)
      BY FS_Subset
    <2>2. SumFunctionOnSet(f, s \cup {x}) = f[x] + SumFunctionOnSet(f, s)
      BY <1>2, <2>1, SumAdd
    <2>3. SumFunctionOnSet(g, s \cup {x}) = g[x] + SumFunctionOnSet(g, s)
      BY <1>2, <2>1, SumAdd
    <2> QED BY <1>2, <2>2, <2>3
  <1>3. S \in Good
    <2> HIDE DEF Good
    <2> QED BY <1>1, <1>2, SetInduction
  <1> QED BY <1>3

\* One of the integers changes.
THEOREM SumChange ==
  ASSUME NEW S, IsFiniteSet(S), NEW f, NEW g, NEW x \in S,
         \A y \in S : f[y] \in Int /\ g[y] \in Int /\ (y # x => g[y] = f[y])
  PROVE  SumFunctionOnSet(g, S) = SumFunctionOnSet(f, S) - f[x] + g[x]
  <1>1. IsFiniteSet(S \ {x})
    BY FS_Subset
  <1>2. SumFunctionOnSet(f, S) = f[x] + SumFunctionOnSet(f, S \ {x})
    BY SumRemove
  <1>3. SumFunctionOnSet(g, S) = g[x] + SumFunctionOnSet(g, S \ {x})
    BY SumRemove
  <1>4. SumFunctionOnSet(g, S \ {x}) = SumFunctionOnSet(f, S \ {x})
    BY <1>1, SumSame
  <1>5. SumFunctionOnSet(f, S \ {x}) \in Int
    BY <1>1, SumType
  <1> QED BY <1>2, <1>3, <1>4, <1>5

\* A sum of pairs of integers is the sum of the sums.
THEOREM SumOfSums ==
  ASSUME NEW S, IsFiniteSet(S), NEW f, NEW g, NEW h,
         \A x \in S : f[x] \in Int /\ g[x] \in Int /\ h[x] = f[x] + g[x]
  PROVE  SumFunctionOnSet(h, S) = SumFunctionOnSet(f, S) + SumFunctionOnSet(g, S)
  <1> DEFINE Good == {s \in SUBSET S : SumFunctionOnSet(h, s) = SumFunctionOnSet(f, s) + SumFunctionOnSet(g, s)}
  <1>1. {} \in Good
    BY SumEmpty
  <1>2. ASSUME NEW s \in SUBSET S, NEW x \in S, s \in Good, x \notin s
        PROVE  s \cup {x} \in Good
    <2>1. /\ IsFiniteSet(s) /\ (\A y \in s : f[y] \in Int) /\ (\A y \in s : g[y] \in Int)
          /\ (\A y \in s : h[y] \in Int) /\ h[x] \in Int
      BY FS_Subset
    <2>2. SumFunctionOnSet(f, s \cup {x}) = f[x] + SumFunctionOnSet(f, s)
      BY <1>2, <2>1, SumAdd
    <2>3. SumFunctionOnSet(g, s \cup {x}) = g[x] + SumFunctionOnSet(g, s)
      BY <1>2, <2>1, SumAdd
    <2>4. SumFunctionOnSet(h, s \cup {x}) = h[x] + SumFunctionOnSet(h, s)
      BY <1>2, <2>1, SumAdd
    <2>5. SumFunctionOnSet(f, s) \in Int /\ SumFunctionOnSet(g, s) \in Int
      BY <2>1, SumType
    <2> QED BY <1>2, <2>2, <2>3, <2>4, <2>5
  <1>3. S \in Good
    <2> HIDE DEF Good
    <2> QED BY <1>1, <1>2, SetInduction
  <1> QED BY <1>3

\* The sums of two sets that have nothing in common.
THEOREM SumUnion ==
  ASSUME NEW S, NEW T, IsFiniteSet(S), IsFiniteSet(T), S \cap T = {},
         NEW f, \A x \in S \cup T : f[x] \in Int
  PROVE  SumFunctionOnSet(f, S \cup T) = SumFunctionOnSet(f, S) + SumFunctionOnSet(f, T)
  <1> DEFINE Good == {t \in SUBSET T : SumFunctionOnSet(f, S \cup t) = SumFunctionOnSet(f, S) + SumFunctionOnSet(f, t)}
  <1>0. SumFunctionOnSet(f, S) \in Int
    BY SumType
  <1>1. {} \in Good
    <2>1. S \cup {} = S
      OBVIOUS
    <2> QED BY <1>0, <2>1, SumEmpty
  <1>2. ASSUME NEW t \in SUBSET T, NEW x \in T, t \in Good, x \notin t
        PROVE  t \cup {x} \in Good
    <2>1. /\ IsFiniteSet(t) /\ IsFiniteSet(S \cup t) /\ x \notin S \cup t
          /\ (\A y \in t : f[y] \in Int) /\ (\A y \in S \cup t : f[y] \in Int) /\ f[x] \in Int
          /\ S \cup (t \cup {x}) = (S \cup t) \cup {x}
      BY <1>2, FS_Subset, FS_Union
    <2>2. SumFunctionOnSet(f, t \cup {x}) = f[x] + SumFunctionOnSet(f, t)
      BY <1>2, <2>1, SumAdd
    <2>3. SumFunctionOnSet(f, (S \cup t) \cup {x}) = f[x] + SumFunctionOnSet(f, S \cup t)
      BY <2>1, SumAdd
    <2>4. SumFunctionOnSet(f, t) \in Int
      BY <2>1, SumType
    <2>5. SumFunctionOnSet(f, S \cup t) = SumFunctionOnSet(f, S) + SumFunctionOnSet(f, t)
      BY <1>2
    <2>6. SumFunctionOnSet(f, S \cup (t \cup {x})) = SumFunctionOnSet(f, S) + SumFunctionOnSet(f, t \cup {x})
      <3>1. SumFunctionOnSet(f, S \cup (t \cup {x})) = f[x] + SumFunctionOnSet(f, S \cup t)
        BY <2>1, <2>3
      <3>2. f[x] \in Int
        BY <2>1
      <3> QED BY <1>0, <2>2, <2>4, <2>5, <3>1, <3>2
    <2> QED BY <2>6
  <1>3. T \in Good
    <2> HIDE DEF Good
    <2> QED BY <1>1, <1>2, SetInduction
  <1> QED BY <1>3

\* Sums of larger integers are larger.
THEOREM SumMonotone ==
  ASSUME NEW S, IsFiniteSet(S), NEW f, NEW g,
         \A x \in S : f[x] \in Int /\ g[x] \in Int /\ f[x] =< g[x]
  PROVE  SumFunctionOnSet(f, S) =< SumFunctionOnSet(g, S)
  <1> DEFINE Good == {s \in SUBSET S : SumFunctionOnSet(f, s) =< SumFunctionOnSet(g, s)}
  <1>1. {} \in Good
    BY SumEmpty
  <1>2. ASSUME NEW s \in SUBSET S, NEW x \in S, s \in Good, x \notin s
        PROVE  s \cup {x} \in Good
    <2>1. IsFiniteSet(s) /\ (\A y \in s : f[y] \in Int) /\ (\A y \in s : g[y] \in Int)
      BY FS_Subset
    <2>2. SumFunctionOnSet(f, s \cup {x}) = f[x] + SumFunctionOnSet(f, s)
      BY <1>2, <2>1, SumAdd
    <2>3. SumFunctionOnSet(g, s \cup {x}) = g[x] + SumFunctionOnSet(g, s)
      BY <1>2, <2>1, SumAdd
    <2>4. SumFunctionOnSet(f, s) \in Int /\ SumFunctionOnSet(g, s) \in Int
      BY <2>1, SumType
    <2> QED BY <1>2, <2>2, <2>3, <2>4
  <1>3. S \in Good
    <2> HIDE DEF Good
    <2> QED BY <1>1, <1>2, SetInduction
  <1> QED BY <1>3

\* Zeros add up to zero.
THEOREM SumOfZeros ==
  ASSUME NEW S, IsFiniteSet(S), NEW f, \A x \in S : f[x] = 0
  PROVE  SumFunctionOnSet(f, S) = 0
  <1> DEFINE Good == {s \in SUBSET S : SumFunctionOnSet(f, s) = 0}
  <1>1. {} \in Good
    BY SumEmpty
  <1>2. ASSUME NEW s \in SUBSET S, NEW x \in S, s \in Good, x \notin s
        PROVE  s \cup {x} \in Good
    <2>1. IsFiniteSet(s) /\ (\A y \in s : f[y] \in Int) /\ f[x] \in Int
      BY FS_Subset
    <2>2. SumFunctionOnSet(f, s \cup {x}) = f[x] + SumFunctionOnSet(f, s)
      BY <2>1, <1>2, SumAdd
    <2> QED BY <1>2, <2>2
  <1> HIDE DEF Good
  <1>3. S \in Good
    BY <1>1, <1>2, SetInduction
  <1> QED BY <1>3 DEF Good

\* Some of the numbers add up to no more than all of them.
THEOREM SumOfPart ==
  ASSUME NEW T, IsFiniteSet(T), NEW S \in SUBSET T, NEW f, \A x \in T : f[x] \in Nat
  PROVE  SumFunctionOnSet(f, S) =< SumFunctionOnSet(f, T)
  <1> DEFINE R == T \ S
             zeros == [x \in R |-> 0]
  <1>1. T = S \cup R /\ S \cap R = {} /\ IsFiniteSet(S) /\ IsFiniteSet(R)
    BY FS_Subset
  <1>2. (\A x \in S : f[x] \in Int) /\ \A x \in R : f[x] \in Int /\ zeros[x] \in Int /\ zeros[x] =< f[x]
    OBVIOUS
  <1>3. \A x \in R : zeros[x] = 0
    OBVIOUS
  <1> HIDE DEF R, zeros
  <1>4. SumFunctionOnSet(f, S \cup R) = SumFunctionOnSet(f, S) + SumFunctionOnSet(f, R)
    BY <1>1, <1>2, SumUnion
  <1>5. SumFunctionOnSet(zeros, R) =< SumFunctionOnSet(f, R)
    BY <1>1, <1>2, SumMonotone
  <1>6. SumFunctionOnSet(zeros, R) = 0
    BY <1>1, <1>3, SumOfZeros
  <1>7. SumFunctionOnSet(f, S) \in Int /\ SumFunctionOnSet(f, R) \in Int
    BY <1>1, <1>2, SumType
  <1> QED BY <1>1, <1>4, <1>5, <1>6, <1>7

\* Zeros besides some integers change nothing.
THEOREM SumAmongZeros ==
  ASSUME NEW T, IsFiniteSet(T), NEW S \in SUBSET T, NEW f, NEW g,
         \A x \in S : f[x] \in Int /\ g[x] = f[x], \A x \in T \ S : g[x] = 0
  PROVE  SumFunctionOnSet(g, T) = SumFunctionOnSet(f, S)
  <1> DEFINE R == T \ S
  <1>1. T = S \cup R /\ S \cap R = {} /\ IsFiniteSet(S) /\ IsFiniteSet(R)
    BY FS_Subset
  <1>2. \A x \in S \cup R : g[x] \in Int
    OBVIOUS
  <1>3. \A x \in R : g[x] = 0
    OBVIOUS
  <1> HIDE DEF R
  <1>4. SumFunctionOnSet(g, S \cup R) = SumFunctionOnSet(g, S) + SumFunctionOnSet(g, R)
    BY <1>1, <1>2, SumUnion
  <1>5. SumFunctionOnSet(g, R) = 0
    BY <1>1, <1>3, SumOfZeros
  <1>6. SumFunctionOnSet(f, S) = SumFunctionOnSet(g, S)
    BY <1>1, SumSame
  <1>7. SumFunctionOnSet(f, S) \in Int
    BY <1>1, SumType
  <1> QED BY <1>1, <1>4, <1>5, <1>6, <1>7

\* Ones add up to how many they are.
THEOREM SumOfOnes ==
  ASSUME NEW S, IsFiniteSet(S), NEW f, \A x \in S : f[x] = 1
  PROVE  SumFunctionOnSet(f, S) = Cardinality(S)
  <1> DEFINE Good == {s \in SUBSET S : SumFunctionOnSet(f, s) = Cardinality(s)}
  <1>1. {} \in Good
    BY SumEmpty, FS_EmptySet
  <1>2. ASSUME NEW s \in SUBSET S, NEW x \in S, s \in Good, x \notin s
        PROVE  s \cup {x} \in Good
    <2>1. IsFiniteSet(s) /\ (\A y \in s : f[y] \in Int) /\ f[x] = 1
      BY FS_Subset
    <2>2. SumFunctionOnSet(f, s \cup {x}) = f[x] + SumFunctionOnSet(f, s)
      BY <1>2, <2>1, SumAdd
    <2>3. Cardinality(s \cup {x}) = Cardinality(s) + 1 /\ Cardinality(s) \in Nat
      BY <1>2, <2>1, FS_AddElement, FS_CardinalityType
    <2> QED BY <1>2, <2>1, <2>2, <2>3
  <1>3. S \in Good
    <2> HIDE DEF Good
    <2> QED BY <1>1, <1>2, SetInduction
  <1> QED BY <1>3

\* g has for each key what the integers of it add up to.
SumsOfKeys(key, S, K, f, g) ==
  /\ \A x \in S : f[x] \in Int /\ key[x] \in K
  /\ \A k \in K : g[k] = SumFunctionOnSet(f, {x \in S : key[x] = k})

\* Summed by groups: the sum of what each key adds up to is the sum of all.
THEOREM SumByKey ==
  ASSUME NEW S, IsFiniteSet(S), NEW K, IsFiniteSet(K), NEW key, NEW f, NEW g, SumsOfKeys(key, S, K, f, g)
  PROVE  SumFunctionOnSet(g, K) = SumFunctionOnSet(f, S)
  <1>5. (\A x \in S : f[x] \in Int) /\ \A x \in S : key[x] \in K
    BY DEF SumsOfKeys
  <1>6. \A k \in K : g[k] = SumFunctionOnSet(f, {x \in S : key[x] = k})
    BY DEF SumsOfKeys
  <1> DEFINE Of(L) == {x \in S : key[x] \in L}
             Good == {L \in SUBSET K : SumFunctionOnSet(g, L) = SumFunctionOnSet(f, Of(L))}
  <1>0. \A L : IsFiniteSet(Of(L)) /\ \A x \in Of(L) : f[x] \in Int
    BY <1>5, FS_Subset
  <1>1. {} \in Good
    <2>1. Of({}) = {}
      OBVIOUS
    <2> QED BY <2>1, SumEmpty
  <1>2. ASSUME NEW L \in SUBSET K, NEW k \in K, L \in Good, k \notin L
        PROVE  L \cup {k} \in Good
    <2>1. /\ Of(L \cup {k}) = Of(L) \cup Of({k}) /\ Of(L) \cap Of({k}) = {}
          /\ Of({k}) = {x \in S : key[x] = k}
      BY <1>2
    <2>2. SumFunctionOnSet(f, Of(L \cup {k})) = SumFunctionOnSet(f, Of(L)) + SumFunctionOnSet(f, Of({k}))
      <3> DEFINE P == Of(L)
                 Q == Of({k})
      <3>1. Of(L \cup {k}) = P \cup Q /\ P \cap Q = {}
        BY <2>1
      <3>2. /\ IsFiniteSet(P) /\ IsFiniteSet(Q)
            /\ \A x \in P \cup Q : f[x] \in Int
        BY <1>0
      <3> HIDE DEF P, Q
      <3>3. SumFunctionOnSet(f, P \cup Q) = SumFunctionOnSet(f, P) + SumFunctionOnSet(f, Q)
        BY <3>1, <3>2, SumUnion
      <3> QED BY <3>1, <3>3 DEF P, Q
    <2>3. \A l \in K : g[l] \in Int
      <3> SUFFICES ASSUME NEW l \in K PROVE g[l] \in Int
        OBVIOUS
      <3>1. g[l] = SumFunctionOnSet(f, Of({l}))
        <4>1. Of({l}) = {x \in S : key[x] = l}
          OBVIOUS
        <4> QED BY <1>6, <4>1
      <3> HIDE DEF Of
      <3> QED BY <1>0, <3>1, SumType
    <2>4. SumFunctionOnSet(g, L \cup {k}) = g[k] + SumFunctionOnSet(g, L)
      <3>1. IsFiniteSet(L) /\ (\A l \in L : g[l] \in Int) /\ g[k] \in Int
        BY <2>3, FS_Subset
      <3> QED BY <1>2, <3>1, SumAdd
    <2>5. SumFunctionOnSet(f, Of(L)) \in Int /\ SumFunctionOnSet(f, Of({k})) \in Int
      <3> HIDE DEF Of
      <3> QED BY <1>0, SumType
    <2>6. g[k] = SumFunctionOnSet(f, Of({k}))
      BY <1>6, <2>1
    <2>7. SumFunctionOnSet(g, L) = SumFunctionOnSet(f, Of(L))
      BY <1>2
    <2>8. SumFunctionOnSet(g, L \cup {k}) = SumFunctionOnSet(f, Of(L \cup {k}))
      <3> HIDE DEF Of
      <3> QED BY <2>2, <2>4, <2>5, <2>6, <2>7
    <2> QED BY <2>8
  <1>3. K \in Good
    <2> HIDE DEF Good
    <2> QED BY <1>1, <1>2, SetInduction
  <1>4. Of(K) = S
    BY <1>5
  <1> QED BY <1>3, <1>4

\* g has the integers of f under other names: h says which.
Renames(h, S, T, f, g) ==
  /\ \A x \in S : h[x] \in T /\ g[x] = f[h[x]]
  /\ \A y \in T : f[y] \in Int /\ \E x \in S : h[x] = y
  /\ \A x, y \in S : h[x] = h[y] => x = y

\* The same integers under other names add up to the same.
THEOREM SumRenamed ==
  ASSUME NEW S, IsFiniteSet(S), NEW T, NEW h, NEW f, NEW g, Renames(h, S, T, f, g)
  PROVE  SumFunctionOnSet(g, S) = SumFunctionOnSet(f, T)
  <1>0. /\ \A x \in S : h[x] \in T /\ g[x] = f[h[x]]
        /\ \A y \in T : f[y] \in Int /\ \E x \in S : h[x] = y
        /\ \A x, y \in S : h[x] = h[y] => x = y
    BY DEF Renames
  <1> DEFINE Image(s) == {h[x] : x \in s}
             Good == {s \in SUBSET S : IsFiniteSet(Image(s))
                                       /\ SumFunctionOnSet(g, s) = SumFunctionOnSet(f, Image(s))}
  <1>1. {} \in Good
    <2>1. Image({}) = {}
      OBVIOUS
    <2> QED BY <2>1, SumEmpty, FS_EmptySet
  <1>2. ASSUME NEW s \in SUBSET S, NEW x \in S, s \in Good, x \notin s PROVE s \cup {x} \in Good
    <2>1. IsFiniteSet(s) /\ (\A y \in s : g[y] \in Int) /\ g[x] = f[h[x]] /\ f[h[x]] \in Int /\ g[x] \in Int
      BY <1>0, FS_Subset
    <2>2. Image(s \cup {x}) = Image(s) \cup {h[x]} /\ h[x] \notin Image(s)
      BY <1>0, <1>2
    <2>3. IsFiniteSet(Image(s)) /\ \A y \in Image(s) : f[y] \in Int
      BY <1>0, <1>2
    <2>4. IsFiniteSet(Image(s) \cup {h[x]})
      BY <2>3, FS_AddElement
    <2>5. SumFunctionOnSet(g, s \cup {x}) = g[x] + SumFunctionOnSet(g, s)
      BY <1>2, <2>1, SumAdd
    <2>6. SumFunctionOnSet(f, Image(s \cup {x})) = f[h[x]] + SumFunctionOnSet(f, Image(s))
      <3> DEFINE I == Image(s)
      <3>1. IsFiniteSet(I) /\ h[x] \notin I /\ (\A y \in I : f[y] \in Int) /\ f[h[x]] \in Int
        BY <2>1, <2>2, <2>3
      <3>2. Image(s \cup {x}) = I \cup {h[x]}
        BY <2>2
      <3> HIDE DEF I, Image
      <3>3. SumFunctionOnSet(f, I \cup {h[x]}) = f[h[x]] + SumFunctionOnSet(f, I)
        BY <3>1, SumAdd
      <3> QED BY <3>2, <3>3 DEF I
    <2>7. SumFunctionOnSet(g, s) = SumFunctionOnSet(f, Image(s))
      BY <1>2
    <2>8. IsFiniteSet(Image(s \cup {x}))
      BY <2>2, <2>4
    <2>9. SumFunctionOnSet(g, s \cup {x}) = SumFunctionOnSet(f, Image(s \cup {x}))
      <3> HIDE DEF Image
      <3> QED BY <2>1, <2>5, <2>6, <2>7
    <2> QED BY <2>8, <2>9
  <1>3. S \in Good
    <2> HIDE DEF Good
    <2> QED BY <1>1, <1>2, SetInduction
  <1>4. Image(S) = T
    BY <1>0
  <1> QED BY <1>3, <1>4

\* A multiple of a sum.
THEOREM SumTimes ==
  ASSUME NEW S, IsFiniteSet(S), NEW n \in Int, NEW f, NEW g,
         \A x \in S : f[x] \in Int /\ g[x] = n * f[x]
  PROVE  SumFunctionOnSet(g, S) = n * SumFunctionOnSet(f, S)
  <1> DEFINE Good == {s \in SUBSET S : SumFunctionOnSet(g, s) = n * SumFunctionOnSet(f, s)}
  <1>1. {} \in Good
    BY SumEmpty
  <1>2. ASSUME NEW s \in SUBSET S, NEW x \in S, s \in Good, x \notin s PROVE s \cup {x} \in Good
    <2>1. IsFiniteSet(s) /\ (\A y \in s : f[y] \in Int) /\ f[x] \in Int
      BY FS_Subset
    <2>2. (\A y \in s : g[y] \in Int) /\ g[x] \in Int /\ g[x] = n * f[x]
      BY <2>1
    <2>3. SumFunctionOnSet(f, s \cup {x}) = f[x] + SumFunctionOnSet(f, s)
      BY <1>2, <2>1, SumAdd
    <2>4. SumFunctionOnSet(g, s \cup {x}) = g[x] + SumFunctionOnSet(g, s)
      BY <1>2, <2>1, <2>2, SumAdd
    <2>5. SumFunctionOnSet(f, s) \in Int
      BY <2>1, SumType
    <2>6. SumFunctionOnSet(g, s) = n * SumFunctionOnSet(f, s)
      BY <1>2
    <2>7. n * f[x] + n * SumFunctionOnSet(f, s) = n * (f[x] + SumFunctionOnSet(f, s))
      BY <2>1, <2>5
    <2> QED BY <2>2, <2>3, <2>4, <2>6, <2>7
  <1>3. S \in Good
    <2> HIDE DEF Good
    <2> QED BY <1>1, <1>2, SetInduction
  <1> QED BY <1>3

\* What comes out even is worth as often what it is divided into.
LEMMA EvenQuotient ==
  ASSUME NEW a \in Int, NEW n \in Nat \ {0}, a % n = 0 PROVE a = n * (a \div n) /\ a \div n \in Int
  OBVIOUS

\* What was multiplied is divided evenly.
LEMMA QuotientOfProduct ==
  ASSUME NEW q \in Int, NEW n \in Nat \ {0} PROVE (n * q) \div n = q
  <1> DEFINE d == (n * q) \div n
  <1>1. d \in Int /\ n * d =< n * q /\ n * q < n * d + n
    OBVIOUS
  <1> HIDE DEF d
  <1>2. CASE d < q
    <2>1. PICK m \in Nat : q = d + 1 + m
      <3>1. q - d - 1 \in Nat /\ q = d + 1 + (q - d - 1)
        BY <1>1, <1>2
      <3> QED BY <3>1
    <2>2. n * q = n * d + n + n * m /\ n * m \in Nat
      BY <1>1, <2>1
    <2> QED BY <1>1, <2>2
  <1>3. CASE d > q
    <2>1. PICK m \in Nat : d = q + 1 + m
      <3>1. d - q - 1 \in Nat /\ d = q + 1 + (d - q - 1)
        BY <1>1, <1>3
      <3> QED BY <3>1
    <2>2. n * d = n * q + n + n * m /\ n * m \in Nat
      BY <1>1, <2>1
    <2> QED BY <1>1, <2>2
  <1> QED BY <1>1, <1>2, <1>3 DEF d

\* Integers that come out even can be divided before they are added up, or after.
THEOREM SumDivided ==
  ASSUME NEW S, IsFiniteSet(S), NEW n \in Nat \ {0}, NEW f, NEW g,
         \A x \in S : f[x] \in Int /\ f[x] % n = 0 /\ g[x] = f[x] \div n
  PROVE  SumFunctionOnSet(g, S) = SumFunctionOnSet(f, S) \div n
  <1>1. \A x \in S : g[x] \in Int /\ f[x] = n * g[x]
    <2> SUFFICES ASSUME NEW x \in S PROVE g[x] \in Int /\ f[x] = n * g[x]
      OBVIOUS
    <2>1. f[x] = n * (f[x] \div n) /\ f[x] \div n \in Int
      BY EvenQuotient
    <2> QED BY <2>1
  <1> DEFINE q == SumFunctionOnSet(g, S)
  <1>2. SumFunctionOnSet(f, S) = n * q
    BY <1>1, SumTimes
  <1>3. q \in Int
    BY <1>1, SumType
  <1> HIDE DEF q
  <1>4. (n * q) \div n = q
    BY <1>3, QuotientOfProduct
  <1> QED BY <1>2, <1>4 DEF q

\* h has the integers of f, and after them those of g.
Concatenates(l, m, f, g, h) ==
  /\ \A i \in 1 .. l : f[i] \in Int /\ h[i] = f[i]
  /\ \A i \in 1 .. m : g[i] \in Int /\ h[l + i] = g[i]

\* The integers of two sequences, one after the other, add up to what both do.
THEOREM SumConcatenated ==
  ASSUME NEW l \in Nat, NEW m \in Nat, NEW f, NEW g, NEW h, Concatenates(l, m, f, g, h)
  PROVE  SumFunctionOnSet(h, 1 .. l + m) = SumFunctionOnSet(f, 1 .. l) + SumFunctionOnSet(g, 1 .. m)
  <1> DEFINE Q == l + 1 .. l + m
             place == [i \in Q |-> i - l]
  <1>0. /\ \A i \in 1 .. l : f[i] \in Int /\ h[i] = f[i]
        /\ \A i \in 1 .. m : g[i] \in Int /\ h[l + i] = g[i]
    BY DEF Concatenates
  <1>1. 1 .. l + m = (1 .. l) \cup Q /\ (1 .. l) \cap Q = {}
    OBVIOUS
  <1>2. IsFiniteSet(1 .. l) /\ IsFiniteSet(Q) /\ IsFiniteSet(1 .. m)
    BY FS_Interval
  <1>3. \A i \in Q : i - l \in 1 .. m /\ i = l + (i - l)
    OBVIOUS
  <1>4. \A i \in Q : place[i] \in 1 .. m /\ h[i] = g[place[i]]
    <2> SUFFICES ASSUME NEW i \in Q PROVE place[i] \in 1 .. m /\ h[i] = g[place[i]]
      OBVIOUS
    <2>1. h[l + (i - l)] = g[i - l]
      BY <1>0, <1>3
    <2> QED BY <1>3, <2>1
  <1>5. \A i \in 1 .. m : g[i] \in Int /\ \E q \in Q : place[q] = i
    <2> SUFFICES ASSUME NEW i \in 1 .. m PROVE \E q \in Q : place[q] = i
      BY <1>0
    <2>1. l + i \in Q /\ place[l + i] = i
      OBVIOUS
    <2> QED BY <1>0, <2>1
  <1>6. \A p, q \in Q : place[p] = place[q] => p = q
    OBVIOUS
  <1>7. \A i \in (1 .. l) \cup Q : h[i] \in Int
    <2>1. \A i \in Q : h[i] \in Int
      BY <1>0, <1>4
    <2> QED BY <1>0, <2>1
  <1> HIDE DEF Q, place
  <1>8. SumFunctionOnSet(h, Q) = SumFunctionOnSet(g, 1 .. m)
    <2>1. Renames(place, Q, 1 .. m, g, h)
      BY <1>4, <1>5, <1>6 DEF Renames
    <2> QED BY <1>2, <2>1, SumRenamed
  <1>9. SumFunctionOnSet(h, (1 .. l) \cup Q) = SumFunctionOnSet(h, 1 .. l) + SumFunctionOnSet(h, Q)
    BY <1>1, <1>2, <1>7, SumUnion
  <1>10. SumFunctionOnSet(f, 1 .. l) = SumFunctionOnSet(h, 1 .. l)
    BY <1>0, <1>2, SumSame
  <1> QED BY <1>1, <1>8, <1>9, <1>10
-----------------------------------------------------------------------------
\* A set of numbers that is not empty has a least one.
LEMMA LeastNumber ==
  ASSUME NEW S \in SUBSET Nat, S # {}
  PROVE  \E n \in S : \A m \in S : n =< m
  <1> DEFINE R == OpToRel(<, Nat)
  <1>1. PICK n \in S : \A m \in S : ~(<<m, n>> \in R)
    <2>1. IsWellFoundedOn(R, Nat)
      BY NatLessThanWellFounded
    <2> HIDE DEF R
    <2> QED BY <2>1, WFMin
  <1>2. \A m \in S : ~(m < n)
    BY <1>1 DEF OpToRel
  <1> QED BY <1>2
-----------------------------------------------------------------------------
(* Folds over sequences, from left to right.                               *)

\* The last of some numbers, and what a fold is: the value at a set of them is made from the
\* value at all but the last.
Last(s) == CHOOSE n \in s : \A m \in s : n >= m
FoldStep(it, g, base, s) == IF s = {} THEN base ELSE g[<<it[s \ {Last(s)}], Last(s)>>]
FoldStays(V, g, n) == \A v \in V : \A k \in 1 .. n : g[<<v, k>>] \in V
FoldFollows(J, V, g, n) ==
  \A s \in SUBSET (1 .. n) :
    s # {} /\ J[s \ {Last(s)}] \in V => J[s] = g[<<J[s \ {Last(s)}], Last(s)>>]
FoldPasses(at, g, base, last, n) ==
  at[0] = base /\ at[n] = last /\ \A k \in 1 .. n : at[k] = g[<<at[k - 1], k>>]
IsFold(it, g, base, n) == it = [s \in SUBSET (1 .. n) |-> FoldStep(it, g, base, s)]

\* Numbers up to n have a last one.
LEMMA LastOf ==
  ASSUME NEW n \in Nat, NEW s \in SUBSET (1 .. n), s # {}
  PROVE  Last(s) \in s /\ \A m \in s : Last(s) >= m
  <1> DEFINE S == {n - m : m \in s}
  <1>1. S \in SUBSET Nat /\ S # {}
    <2>1. \A m \in s : n - m \in Nat
      <3> SUFFICES ASSUME NEW m \in s PROVE n - m \in Nat
        OBVIOUS
      <3>1. m \in 1 .. n
        OBVIOUS
      <3> QED BY <3>1
    <2> QED BY <2>1
  <1>2. PICK k \in S : \A j \in S : k =< j
    BY <1>1, LeastNumber
  <1>3. PICK m \in s : k = n - m
    OBVIOUS
  <1>4. \A j \in s : m >= j
    <2> SUFFICES ASSUME NEW j \in s PROVE m >= j
      OBVIOUS
    <2>1. n - m =< n - j
      BY <1>2, <1>3
    <2>2. m \in 1 .. n /\ j \in 1 .. n
      OBVIOUS
    <2> HIDE DEF S
    <2> QED BY <2>1, <2>2
  <1>5. \E x \in s : \A j \in s : x >= j
    BY <1>4
  <1> QED BY <1>5 DEF Last

\* There is a fold of any values that stay in a set.
LEMMA FoldIsThere ==
  ASSUME NEW n \in Nat, NEW V, NEW base \in V, NEW g, FoldStays(V, g, n)
  PROVE  \E it \in [SUBSET (1 .. n) -> V] : IsFold(it, g, base, n)
  <1> DEFINE S == SUBSET (1 .. n)
             Good(k) == \E it \in [S -> V] : \A s \in S : s \subseteq 1 .. k => it[s] = FoldStep(it, g, base, s)
             Numbers == {k \in Nat : Good(k)}
  <1>1. 0 \in Numbers
    <2> DEFINE it == [s \in S |-> base]
    <2>1. \A s \in S : s \subseteq 1 .. 0 => s = {}
      OBVIOUS
    <2>2. \A s \in S : s \subseteq 1 .. 0 => it[s] = FoldStep(it, g, base, s)
      BY <2>1 DEF FoldStep
    <2>3. it \in [S -> V]
      OBVIOUS
    <2> HIDE DEF it
    <2> QED BY <2>2, <2>3
  <1>2. \A k \in Nat : k \in Numbers => k + 1 \in Numbers
    <2> SUFFICES ASSUME NEW k \in Nat, k \in Numbers PROVE k + 1 \in Numbers
      OBVIOUS
    <2>1. PICK old \in [S -> V] : \A s \in S : s \subseteq 1 .. k => old[s] = FoldStep(old, g, base, s)
      OBVIOUS
    <2> DEFINE it == [s \in S |-> FoldStep(old, g, base, s)]
    <2>2. it \in [S -> V]
      <3> SUFFICES ASSUME NEW s \in S PROVE FoldStep(old, g, base, s) \in V
        OBVIOUS
      <3>1. CASE s = {}
        BY <3>1 DEF FoldStep
      <3>2. CASE s # {}
        <4>1. Last(s) \in 1 .. n /\ s \ {Last(s)} \in S
          BY <3>2, LastOf
        <4>2. old[s \ {Last(s)}] \in V
          BY <4>1
        <4> QED BY <3>2, <4>1, <4>2 DEF FoldStep, FoldStays
      <3> QED BY <3>1, <3>2
    <2>3. \A s \in S : s \subseteq 1 .. k => it[s] = old[s]
      BY <2>1
    <2>4. ASSUME NEW s \in S, s \subseteq 1 .. k + 1 PROVE it[s] = FoldStep(it, g, base, s)
      <3>1. CASE s = {}
        BY <3>1 DEF FoldStep
      <3>2. CASE s # {}
        <4>1. Last(s) \in s /\ \A m \in s : Last(s) >= m
          BY <3>2, LastOf
        <4>2. s \ {Last(s)} \in S /\ s \ {Last(s)} \subseteq 1 .. k
          <5> SUFFICES ASSUME NEW m \in s, m # Last(s) PROVE m \in 1 .. k
            OBVIOUS
          <5>1. m \in 1 .. k + 1 /\ Last(s) \in 1 .. k + 1 /\ Last(s) >= m
            BY <2>4, <4>1
          <5> HIDE DEF S
          <5> QED BY <5>1
        <4>3. it[s \ {Last(s)}] = old[s \ {Last(s)}]
          BY <2>3, <4>2
        <4>4. it[s] = FoldStep(old, g, base, s)
          OBVIOUS
        <4> HIDE DEF it
        <4> QED BY <3>2, <4>3, <4>4 DEF FoldStep
      <3> QED BY <3>1, <3>2
    <2>5. \A s \in S : s \subseteq 1 .. k + 1 => it[s] = FoldStep(it, g, base, s)
      BY <2>4
    <2>6. Good(k + 1)
      <3> HIDE DEF it, FoldStep, S
      <3> QED BY Zenon, <2>2, <2>5
    <2>7. k + 1 \in Nat
      OBVIOUS
    <2> HIDE DEF Good, S, it
    <2> QED BY <2>6, <2>7
  <1>3. Nat \subseteq Numbers
    <2> HIDE DEF Numbers
    <2> QED BY <1>1, <1>2, NumberInduction
  <1>4. n \in Numbers
    BY <1>3
  <1>5. PICK it \in [S -> V] : \A s \in S : s \subseteq 1 .. n => it[s] = FoldStep(it, g, base, s)
    BY <1>4
  <1>6. it = [s \in S |-> FoldStep(it, g, base, s)]
    BY <1>5
  <1> QED BY <1>6 DEF IsFold

\* The last of the first k numbers is k, and the others are the first k - 1.
LEMMA LastOfFirst ==
  ASSUME NEW n \in Nat, NEW k \in 1 .. n
  PROVE  /\ 1 .. k \in SUBSET (1 .. n) /\ 1 .. k # {}
         /\ Last(1 .. k) = k /\ (1 .. k) \ {Last(1 .. k)} = 1 .. k - 1
  <1> DEFINE s == 1 .. k
  <1>1. s \in SUBSET (1 .. n) /\ s # {} /\ k \in s /\ \A m \in s : k >= m
    OBVIOUS
  <1>2. Last(s) \in s /\ \A m \in s : Last(s) >= m
    BY <1>1, LastOf
  <1>3. Last(s) = k
    <2>1. Last(s) \in 1 .. k /\ Last(s) >= k
      BY <1>1, <1>2
    <2> QED BY <2>1
  <1>4. s \ {k} = 1 .. k - 1
    OBVIOUS
  <1> QED BY <1>1, <1>3, <1>4

\* A fold passes from one number to the next, and stays in the set.
LEMMA FoldPass ==
  ASSUME NEW n \in Nat, NEW V, NEW base \in V, NEW g, FoldStays(V, g, n),
         NEW J, J[{}] = base, FoldFollows(J, V, g, n)
  PROVE  \E at \in [0 .. n -> V] : FoldPasses(at, g, base, J[1 .. n], n)
  <1> DEFINE Good == {k \in Nat : k =< n => J[1 .. k] \in V}
  <1>1. J[1 .. 0] = base
    <2>1. 1 .. 0 = {}
      OBVIOUS
    <2> QED BY <2>1
  <1>2. ASSUME NEW k \in 1 .. n, J[1 .. k - 1] \in V PROVE J[1 .. k] = g[<<J[1 .. k - 1], k>>]
    <2> DEFINE s == 1 .. k
    <2>1. s \in SUBSET (1 .. n) /\ s # {} /\ Last(s) = k /\ s \ {Last(s)} = 1 .. k - 1
      BY LastOfFirst
    <2> HIDE DEF s
    <2>2. J[s] = g[<<J[s \ {Last(s)}], Last(s)>>]
      BY <1>2, <2>1 DEF FoldFollows
    <2> QED BY <2>1, <2>2 DEF s
  <1>3. 0 \in Good
    BY <1>1
  <1>4. \A k \in Nat : k \in Good => k + 1 \in Good
    <2> SUFFICES ASSUME NEW k \in Nat, k \in Good, k + 1 =< n PROVE J[1 .. k + 1] \in V
      OBVIOUS
    <2>1. k + 1 \in 1 .. n /\ (k + 1) - 1 = k /\ k =< n
      OBVIOUS
    <2>2. J[1 .. k] \in V
      BY <2>1
    <2>3. J[1 .. k + 1] = g[<<J[1 .. k], k + 1>>]
      BY <1>2, <2>1, <2>2
    <2> QED BY <2>1, <2>2, <2>3 DEF FoldStays
  <1>5. \A k \in 0 .. n : J[1 .. k] \in V
    <2>1. Nat \subseteq Good
      <3> HIDE DEF Good
      <3> QED BY <1>3, <1>4, NumberInduction
    <2> QED BY <2>1
  <1> DEFINE at == [k \in 0 .. n |-> J[1 .. k]]
  <1>6. at \in [0 .. n -> V] /\ at[0] = base /\ at[n] = J[1 .. n]
    BY <1>1, <1>5
  <1>7. \A k \in 1 .. n : at[k] = g[<<at[k - 1], k>>]
    <2> SUFFICES ASSUME NEW k \in 1 .. n PROVE at[k] = g[<<at[k - 1], k>>]
      OBVIOUS
    <2>1. k \in 0 .. n /\ k - 1 \in 0 .. n
      OBVIOUS
    <2> QED BY <1>2, <1>5, <2>1
  <1> HIDE DEF at
  <1> QED BY <1>6, <1>7 DEF FoldPasses
=============================================================================
