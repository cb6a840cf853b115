-------------------------- MODULE Rebalance_proofs --------------------------
(***************************************************************************)
(* Sums over finite sets, as the ledgers use them: the fold behind SumOf   *)
(* is well defined, a sum of naturals is a natural, and none of its terms  *)
(* exceeds it.  The inductions are by a least counterexample.              *)
(***************************************************************************)
EXTENDS Rebalance, FiniteSetTheorems, WellFoundedInduction, TLAPS

-----------------------------------------------------------------------------
(* Induction *)

(* A non-empty set of naturals has a least element. *)
LEMMA LeastNatural ==
    ASSUME NEW T, T \subseteq Nat, T # {}
    PROVE  \E x \in T : \A y \in T : x <= y
<1>1. IsWellFoundedOn(OpToRel(<, Nat), Nat)
  BY NatLessThanWellFounded, Zenon
<1>2. PICK x \in T : \A y \in T : <<y, x>> \notin OpToRel(<, Nat)
  BY <1>1, WFMin, Zenon
<1>3. ASSUME NEW y \in T PROVE x <= y
  <2>0. x \in Nat /\ y \in Nat
    OBVIOUS
  <2>1. <<y, x>> \in Nat \X Nat
    OBVIOUS
  <2>2. y < x => <<y, x>> \in OpToRel(<, Nat)
    BY <2>1, Zenon DEF OpToRel
  <2>3. ~(y < x)
    BY <1>2, <2>2
  <2> QED BY <2>0, <2>3
<1> QED BY <1>3

Any(s) == CHOOSE x \in s : TRUE

Others(s) == s \ {Any(s)}

LEMMA OthersOf ==
    ASSUME NEW s, IsFiniteSet(s), s # {}
    PROVE  /\ Any(s) \in s /\ IsFiniteSet(Others(s))
           /\ Cardinality(Others(s)) \in Nat /\ Cardinality(s) \in Nat
           /\ Cardinality(s) = Cardinality(Others(s)) + 1
<1>1. Any(s) \in s
  BY DEF Any
<1>2. IsFiniteSet(Others(s)) /\ Cardinality(Others(s)) = Cardinality(s) - 1
  BY <1>1, FS_RemoveElement DEF Others
<1>3. Cardinality(Others(s)) \in Nat /\ Cardinality(s) \in Nat
  BY <1>2, FS_CardinalityType
<1> QED BY <1>1, <1>2, <1>3

(* A set of subsets that has each one all of whose smaller ones it has, has*)
(* them all.                                                               *)
LEMMA SizeInduction ==
    ASSUME NEW D, IsFiniteSet(D), NEW Good,
           \A s \in SUBSET D :
             (\A t \in SUBSET D : Cardinality(t) < Cardinality(s) => t \in Good) => s \in Good
    PROVE  SUBSET D \subseteq Good
<1> SUFFICES ASSUME NEW bad \in SUBSET D, bad \notin Good PROVE FALSE
  OBVIOUS
<1>1. \A s \in SUBSET D : IsFiniteSet(s) /\ Cardinality(s) \in Nat
  BY FS_Subset, FS_CardinalityType
<1> DEFINE T == {Cardinality(s) : s \in (SUBSET D) \ Good}
<1>2. T \subseteq Nat /\ T # {}
  BY <1>1
<1>3. PICK n \in T : \A m \in T : n <= m
  BY <1>2, LeastNatural
<1>4. PICK s \in (SUBSET D) \ Good : n = Cardinality(s)
  BY <1>3
<1>5. ASSUME NEW t \in SUBSET D, Cardinality(t) < Cardinality(s) PROVE t \in Good
  <2> SUFFICES ASSUME t \notin Good PROVE FALSE
    OBVIOUS
  <2>1. Cardinality(t) \in T
    OBVIOUS
  <2>2. Cardinality(s) <= Cardinality(t)
    BY <1>3, <1>4, <2>1
  <2> QED BY <1>1, <1>5, <2>2
<1> QED BY <1>4, <1>5

(* A set of subsets that has the empty one, and each one whose rest it has,*)
(* has them all.                                                           *)
LEMMA SubsetInduction ==
    ASSUME NEW D, IsFiniteSet(D), NEW Good, {} \in Good,
           \A s \in SUBSET D : s # {} /\ Others(s) \in Good => s \in Good
    PROVE  SUBSET D \subseteq Good
<1>1. ASSUME NEW s \in SUBSET D,
             \A t \in SUBSET D : Cardinality(t) < Cardinality(s) => t \in Good
      PROVE  s \in Good
  <2>1. CASE s = {}
    BY <2>1
  <2>2. CASE s # {}
    <3>1. Cardinality(Others(s)) < Cardinality(s) /\ Others(s) \in SUBSET D
      BY <2>2, FS_Subset, OthersOf DEF Others
    <3> QED BY <1>1, <2>2, <3>1
  <2> QED BY <2>1, <2>2
<1> QED BY <1>1, SizeInduction

-----------------------------------------------------------------------------
(* The fold *)

(* One step of a fold: a sum, or else a product. *)
Folded(kind, f, s, g) ==
    IF s = {} THEN IF kind = "sum" THEN 0 ELSE 1
    ELSE IF kind = "sum" THEN f[Any(s)] + g[Others(s)] ELSE f[Any(s)] * g[Others(s)]

(* The folds of f over the subsets of its domain. *)
IsFold(kind, f, g) == g = [s \in SUBSET DOMAIN f |-> Folded(kind, f, s, g)]

LEMMA FoldExists ==
    ASSUME NEW kind, NEW f, IsFiniteSet(DOMAIN f)
    PROVE  \E g : IsFold(kind, f, g)
<1> DEFINE D == DOMAIN f
<1> DEFINE Small(n) == {s \in SUBSET D : Cardinality(s) <= n}
<1> DEFINE Approximates(n, g) == \A s \in Small(n) : g[s] = Folded(kind, f, s, g)
<1> DEFINE T == {n \in Nat : ~ \E g : Approximates(n, g)}
<1>1. \A s \in SUBSET D : IsFiniteSet(s) /\ Cardinality(s) \in Nat
  BY FS_Subset, FS_CardinalityType
<1>2. T = {}
  <2> SUFFICES ASSUME T # {} PROVE FALSE
    OBVIOUS
  <2>1. PICK n \in T : \A m \in T : n <= m
    <3>1. T \subseteq Nat
      OBVIOUS
    <3> HIDE DEF T
    <3> QED BY <3>1, LeastNatural
  <2>2. CASE n = 0
    <3>1. \A s \in Small(0) : s = {}
      BY <1>1, FS_EmptySet, <1>1
    <3>2. Approximates(0, [s \in {{}} |-> IF kind = "sum" THEN 0 ELSE 1])
      BY <3>1 DEF Folded
    <3> QED BY <2>1, <2>2, <3>2
  <2>3. CASE n # 0
    <3>1. n - 1 \in Nat /\ n - 1 \notin T
      BY <2>1, <2>3
    <3>2. PICK g : Approximates(n - 1, g)
      BY <3>1
    <3> DEFINE h == [s \in SUBSET D |-> IF s \in Small(n - 1) THEN g[s] ELSE Folded(kind, f, s, g)]
    <3>3. \A s \in SUBSET D : h[s] = Folded(kind, f, s, g) \/ s \in Small(n - 1)
      OBVIOUS
    <3>4. \A s \in SUBSET D : h[s] = Folded(kind, f, s, g)
      BY <3>2, <3>3
    <3>5. \A s \in Small(n) : s # {} => Others(s) \in Small(n - 1)
      <4> SUFFICES ASSUME NEW s \in Small(n), s # {} PROVE Others(s) \in Small(n - 1)
        OBVIOUS
      <4>1. Others(s) \in SUBSET D
        BY DEF Others
      <4>2. Cardinality(Others(s)) <= n - 1
        BY <1>1, <2>1, OthersOf
      <4> QED BY <4>1, <4>2
    <3>6. \A s \in Small(n) : s # {} => h[Others(s)] = g[Others(s)]
      BY <3>5
    <3>7. Approximates(n, h)
      <4> SUFFICES ASSUME NEW s \in Small(n) PROVE h[s] = Folded(kind, f, s, h)
        OBVIOUS
      <4>1. h[s] = Folded(kind, f, s, g)
        BY <3>4
      <4> HIDE DEF h
      <4> QED BY <3>6, <4>1 DEF Folded
    <3> QED BY <2>1, <3>7
  <2> QED BY <2>2, <2>3
<1>3. Cardinality(D) \in Nat
  BY <1>1
<1>4. PICK g : Approximates(Cardinality(D), g)
  BY <1>2, <1>3
<1>5. \A s \in SUBSET D : s \in Small(Cardinality(D))
  BY <1>1, FS_Subset
<1> DEFINE h == [s \in SUBSET D |-> g[s]]
<1>6. \A s \in SUBSET D : h[s] = Folded(kind, f, s, g)
  BY <1>4, <1>5
<1>7. \A s \in SUBSET D : s # {} => h[Others(s)] = g[Others(s)]
  BY DEF Others
<1>8. \A s \in SUBSET D : Folded(kind, f, s, h) = Folded(kind, f, s, g)
  <2> SUFFICES ASSUME NEW s \in SUBSET D PROVE Folded(kind, f, s, h) = Folded(kind, f, s, g)
    OBVIOUS
  <2> HIDE DEF h
  <2> QED BY <1>7 DEF Folded
<1>9. h = [s \in SUBSET D |-> Folded(kind, f, s, h)]
  BY <1>6, <1>8
<1> HIDE DEF h
<1> QED BY <1>9 DEF IsFold

Partial(f, s, g) == IF s = {} THEN 0 ELSE f[Any(s)] + g[Others(s)]

(* The partial sums of f over the subsets of its domain. *)
IsSum(f, g) == g = [s \in SUBSET DOMAIN f |-> Partial(f, s, g)]

SumFn(f) == CHOOSE g : IsSum(f, g)

LEMMA SumIsFold ==
    ASSUME NEW f
    PROVE  SumOf(f) = SumFn(f)[DOMAIN f]
BY DEF SumOf, MapThenSumSet, MapThenFoldSet, SumFn, IsSum, Partial, Any, Others

LEMMA SumExists ==
    ASSUME NEW f, IsFiniteSet(DOMAIN f)
    PROVE  \E g : IsSum(f, g)
<1>1. PICK g : IsFold("sum", f, g)
  BY FoldExists
<1>2. \A s \in SUBSET DOMAIN f : Folded("sum", f, s, g) = Partial(f, s, g)
  BY DEF Folded, Partial
<1>3. g = [s \in SUBSET DOMAIN f |-> Partial(f, s, g)]
  BY <1>1, <1>2 DEF IsFold
<1> QED BY <1>3 DEF IsSum

LEMMA FoldUnfolds ==
    ASSUME NEW f, IsFiniteSet(DOMAIN f)
    PROVE  \A s \in SUBSET DOMAIN f : SumFn(f)[s] = Partial(f, s, SumFn(f))
<1>1. IsSum(f, SumFn(f))
  BY SumExists DEF SumFn
<1> DEFINE g == SumFn(f)
<1>2. g = [s \in SUBSET DOMAIN f |-> Partial(f, s, g)]
  BY <1>1 DEF IsSum
<1> HIDE DEF g
<1>3. \A s \in SUBSET DOMAIN f : g[s] = Partial(f, s, g)
  BY <1>2, Zenon
<1> QED BY <1>3 DEF g

-----------------------------------------------------------------------------
(* Sums of naturals *)

(* The sum over nothing. *)
LEMMA EmptySum ==
    ASSUME NEW f, DOMAIN f = {}
    PROVE  SumOf(f) = 0
<1>1. IsFiniteSet(DOMAIN f)
  BY FS_EmptySet
<1> QED BY <1>1, SumIsFold, FoldUnfolds DEF Partial

LEMMA SumNat ==
    ASSUME NEW f, IsFiniteSet(DOMAIN f), \A x \in DOMAIN f : f[x] \in Nat
    PROVE  SumOf(f) \in Nat
<1> DEFINE Good == {s \in SUBSET DOMAIN f : SumFn(f)[s] \in Nat}
<1>1. {} \in Good
  BY FoldUnfolds DEF Partial
<1>2. ASSUME NEW s \in SUBSET DOMAIN f, s # {}, Others(s) \in Good PROVE s \in Good
  <2>1. SumFn(f)[s] = f[Any(s)] + SumFn(f)[Others(s)]
    BY <1>2, FoldUnfolds DEF Partial
  <2>2. Any(s) \in s
    BY <1>2 DEF Any
  <2> QED BY <1>2, <2>1, <2>2
<1>3. SUBSET DOMAIN f \subseteq Good
  <2>1. \A s \in SUBSET DOMAIN f : s # {} /\ Others(s) \in Good => s \in Good
    BY <1>2
  <2> HIDE DEF Good
  <2> QED BY <1>1, <2>1, SubsetInduction
<1> QED BY <1>3, SumIsFold

LEMMA TermBelowSum ==
    ASSUME NEW f, IsFiniteSet(DOMAIN f), \A x \in DOMAIN f : f[x] \in Nat,
           NEW t \in DOMAIN f
    PROVE  f[t] <= SumOf(f)
<1> DEFINE Good == {s \in SUBSET DOMAIN f :
                      SumFn(f)[s] \in Nat /\ (t \in s => f[t] <= SumFn(f)[s])}
<1>1. {} \in Good
  BY FoldUnfolds DEF Partial
<1>2. ASSUME NEW s \in SUBSET DOMAIN f, s # {}, Others(s) \in Good PROVE s \in Good
  <2>1. SumFn(f)[s] = f[Any(s)] + SumFn(f)[Others(s)]
    BY <1>2, FoldUnfolds DEF Partial
  <2>2. Any(s) \in s
    BY <1>2 DEF Any
  <2>3. t \in s => t = Any(s) \/ t \in Others(s)
    BY DEF Others
  <2> QED BY <1>2, <2>1, <2>2, <2>3
<1>3. SUBSET DOMAIN f \subseteq Good
  <2>1. \A s \in SUBSET DOMAIN f : s # {} /\ Others(s) \in Good => s \in Good
    BY <1>2
  <2> HIDE DEF Good
  <2> QED BY <1>1, <2>1, SubsetInduction
<1> QED BY <1>3, SumIsFold

(* A sum does not depend on the order its terms are taken in. *)
LEMMA SumWithout ==
    ASSUME NEW f, IsFiniteSet(DOMAIN f), \A x \in DOMAIN f : f[x] \in Nat,
           NEW s \in SUBSET DOMAIN f, NEW x \in s
    PROVE  /\ SumFn(f)[s] = f[x] + SumFn(f)[s \ {x}]
           /\ SumFn(f)[s \ {x}] \in Nat
<1> DEFINE D == DOMAIN f
<1> DEFINE g == SumFn(f)
<1> DEFINE Good == {t \in SUBSET D :
                      g[t] \in Nat /\ \A y \in t : g[t] = f[y] + g[t \ {y}]}
<1>1. ASSUME NEW t \in SUBSET D,
             \A u \in SUBSET D : Cardinality(u) < Cardinality(t) => u \in Good
      PROVE  t \in Good
  <2>1. CASE t = {}
    <3>1. g[t] = 0
      BY <2>1, FoldUnfolds DEF Partial
    <3> QED BY <2>1, <3>1
  <2>2. CASE t # {}
    <3> DEFINE z == Any(t)
    <3>1. g[t] = f[z] + g[t \ {z}]
      BY <2>2, FoldUnfolds DEF Partial, Others
    <3>2. z \in t
      BY <2>2 DEF Any
    <3>3. \A y \in t : /\ t \ {y} \in SUBSET D
                       /\ Cardinality(t \ {y}) < Cardinality(t)
      <4> SUFFICES ASSUME NEW y \in t
                   PROVE  /\ t \ {y} \in SUBSET D
                          /\ Cardinality(t \ {y}) < Cardinality(t)
        OBVIOUS
      <4>1. IsFiniteSet(t) /\ Cardinality(t) \in Nat
        BY FS_Subset, FS_CardinalityType
      <4>2. Cardinality(t \ {y}) = Cardinality(t) - 1
        BY <4>1, FS_RemoveElement
      <4> QED BY <4>1, <4>2
    <3>4. \A y \in t : t \ {y} \in Good
      BY <1>1, <3>3
    <3> HIDE DEF z, g
    <3>5. \A y \in t : g[t \ {y}] \in Nat
      BY <3>4
    <3>6. g[t] \in Nat
      BY <3>1, <3>2, <3>5
    <3>7. ASSUME NEW y \in t, y # z PROVE g[t] = f[y] + g[t \ {y}]
      <4>1. g[t \ {z}] = f[y] + g[(t \ {z}) \ {y}]
        BY <3>2, <3>4, <3>7
      <4>2. g[t \ {y}] = f[z] + g[(t \ {y}) \ {z}]
        BY <3>2, <3>4, <3>7
      <4>3. (t \ {z}) \ {y} = (t \ {y}) \ {z}
        OBVIOUS
      <4>4. (t \ {z}) \ {y} \in Good
        <5>1. Cardinality((t \ {z}) \ {y}) < Cardinality(t)
          <6>1. IsFiniteSet(t \ {z}) /\ IsFiniteSet((t \ {z}) \ {y})
            BY FS_Subset, FS_RemoveElement
          <6>2. /\ Cardinality((t \ {z}) \ {y}) <= Cardinality(t \ {z})
                /\ Cardinality((t \ {z}) \ {y}) \in Nat /\ Cardinality(t \ {z}) \in Nat
                /\ Cardinality(t) \in Nat
            BY <6>1, FS_Subset, FS_CardinalityType
          <6> QED BY <3>2, <3>3, <6>2
        <5> QED BY <1>1, <5>1
      <4> DEFINE r == g[(t \ {z}) \ {y}]
      <4>5. r \in Nat
        BY <4>4
      <4>6. g[t \ {z}] = f[y] + r /\ g[t \ {y}] = f[z] + r
        BY <4>1, <4>2, <4>3
      <4>7. f[y] \in Nat /\ f[z] \in Nat
        BY <3>2, <3>7
      <4> HIDE DEF r
      <4> QED BY <3>1, <4>5, <4>6, <4>7
    <3> QED BY <3>1, <3>6, <3>7
  <2> QED BY <2>1, <2>2
<1>2. SUBSET D \subseteq Good
  <2> HIDE DEF Good
  <2> QED BY <1>1, SizeInduction
<1>3. s \in Good /\ s \ {x} \in Good
  BY <1>2
<1> QED BY <1>3

(* Terms that are zero may be left out. *)
LEMMA SumSupport ==
    ASSUME NEW f, IsFiniteSet(DOMAIN f), \A x \in DOMAIN f : f[x] \in Nat,
           NEW A \in SUBSET DOMAIN f, \A x \in DOMAIN f : x \notin A => f[x] = 0
    PROVE  SumOf([x \in A |-> f[x]]) = SumOf(f)
<1> DEFINE D == DOMAIN f
<1> DEFINE e == [x \in A |-> f[x]]
<1> DEFINE Good == {s \in SUBSET D : SumFn(e)[s \cap A] = SumFn(f)[s]}
<1>1. /\ DOMAIN e = A /\ IsFiniteSet(DOMAIN e)
      /\ \A x \in A : e[x] = f[x] /\ e[x] \in Nat
  BY FS_Subset
<1> HIDE DEF e
<1>2. {} \in Good
  BY <1>1, FoldUnfolds DEF Partial
<1>3. ASSUME NEW s \in SUBSET D, s # {}, Others(s) \in Good PROVE s \in Good
  <2> DEFINE z == Any(s)
  <2>1. z \in s
    BY <1>3 DEF Any
  <2>2. SumFn(f)[s] = f[z] + SumFn(f)[s \ {z}] /\ SumFn(f)[s \ {z}] \in Nat
    BY <2>1, SumWithout
  <2>3. SumFn(e)[(s \ {z}) \cap A] = SumFn(f)[s \ {z}]
    BY <1>3 DEF Others
  <2> HIDE DEF z
  <2>4. CASE z \in A
    <3>1. SumFn(e)[s \cap A] = e[z] + SumFn(e)[(s \cap A) \ {z}]
      <4>1. s \cap A \in SUBSET DOMAIN e /\ z \in s \cap A
        BY <1>1, <2>1, <2>4
      <4>2. \A x \in DOMAIN e : e[x] \in Nat
        BY <1>1
      <4> QED BY <1>1, <4>1, <4>2, SumWithout
    <3>2. (s \cap A) \ {z} = (s \ {z}) \cap A
      OBVIOUS
    <3>3. SumFn(e)[s \cap A] = SumFn(f)[s]
      BY <1>1, <2>2, <2>3, <2>4, <3>1, <3>2
    <3> QED BY <3>3
  <2>5. CASE z \notin A
    <3>1. (s \ {z}) \cap A = s \cap A
      BY <2>5
    <3>2. f[z] = 0
      BY <2>1, <2>5
    <3>3. SumFn(f)[s] = SumFn(f)[s \ {z}]
      BY <2>2, <3>2
    <3>4. SumFn(e)[s \cap A] = SumFn(f)[s]
      BY <2>3, <3>1, <3>3, Zenon
    <3> QED BY <3>4
  <2> QED BY <2>4, <2>5
<1>4. SUBSET D \subseteq Good
  <2>1. \A s \in SUBSET D : s # {} /\ Others(s) \in Good => s \in Good
    BY <1>3
  <2> HIDE DEF Good
  <2> QED BY <1>2, <2>1, SubsetInduction
<1>5. SumFn(e)[D \cap A] = SumFn(f)[D]
  BY <1>4
<1>6. D \cap A = DOMAIN e
  BY <1>1
<1>7. SumOf(e) = SumOf(f)
  BY <1>5, <1>6, SumIsFold
<1> QED BY <1>7 DEF e

(* One term taken out of a sum *)
LEMMA SumRemove ==
    ASSUME NEW f, IsFiniteSet(DOMAIN f), \A x \in DOMAIN f : f[x] \in Nat,
           NEW x \in DOMAIN f
    PROVE  /\ SumOf(f) = f[x] + SumOf([y \in DOMAIN f \ {x} |-> f[y]])
           /\ SumOf([y \in DOMAIN f \ {x} |-> f[y]]) \in Nat
<1> DEFINE A == DOMAIN f \ {x}
<1> DEFINE e == [y \in A |-> f[y]]
<1> DEFINE Good == {s \in SUBSET A : SumFn(e)[s] = SumFn(f)[s]}
<1>1. /\ DOMAIN e = A /\ IsFiniteSet(DOMAIN e)
      /\ \A y \in A : e[y] = f[y] /\ e[y] \in Nat
  BY FS_Subset
<1> HIDE DEF e
<1>2. {} \in Good
  BY <1>1, FoldUnfolds DEF Partial
<1>3. ASSUME NEW s \in SUBSET A, s # {}, Others(s) \in Good PROVE s \in Good
  <2>1. Any(s) \in A
    BY <1>3 DEF Any
  <2>2. SumFn(e)[s] = e[Any(s)] + SumFn(e)[Others(s)]
    BY <1>1, <1>3, FoldUnfolds DEF Partial
  <2>3. SumFn(f)[s] = f[Any(s)] + SumFn(f)[Others(s)]
    BY <1>3, FoldUnfolds DEF Partial
  <2> QED BY <1>1, <1>3, <2>1, <2>2, <2>3
<1>4. SUBSET A \subseteq Good
  <2>1. \A s \in SUBSET A : s # {} /\ Others(s) \in Good => s \in Good
    BY <1>3
  <2> HIDE DEF Good
  <2> QED BY <1>1, <1>2, <2>1, SubsetInduction
<1>5. SumFn(e)[A] = SumFn(f)[A]
  BY <1>4
<1>6. SumFn(f)[DOMAIN f] = f[x] + SumFn(f)[A] /\ SumFn(f)[A] \in Nat
  BY SumWithout
<1>7. SumOf(e) = SumFn(f)[A] /\ SumOf(f) = SumFn(f)[DOMAIN f]
  BY <1>1, <1>5, SumIsFold
<1> QED BY <1>6, <1>7 DEF e

LEMMA SumPlus ==
    ASSUME NEW f, NEW g, NEW h, IsFiniteSet(DOMAIN f),
           DOMAIN g = DOMAIN f, DOMAIN h = DOMAIN f,
           \A x \in DOMAIN f : f[x] \in Nat /\ g[x] \in Nat /\ h[x] = f[x] + g[x]
    PROVE  SumOf(h) = SumOf(f) + SumOf(g)
<1> DEFINE Good == {s \in SUBSET DOMAIN f :
                      /\ SumFn(f)[s] \in Nat /\ SumFn(g)[s] \in Nat
                      /\ SumFn(h)[s] = SumFn(f)[s] + SumFn(g)[s]}
<1>1. {} \in Good
  <2>1. SumFn(f)[{}] = 0 /\ SumFn(g)[{}] = 0 /\ SumFn(h)[{}] = 0
    BY FoldUnfolds DEF Partial
  <2> QED BY <2>1
<1>2. ASSUME NEW s \in SUBSET DOMAIN f, s # {}, Others(s) \in Good PROVE s \in Good
  <2>1. /\ SumFn(f)[s] = f[Any(s)] + SumFn(f)[Others(s)]
        /\ SumFn(g)[s] = g[Any(s)] + SumFn(g)[Others(s)]
        /\ SumFn(h)[s] = h[Any(s)] + SumFn(h)[Others(s)]
    BY <1>2, FoldUnfolds DEF Partial
  <2>2. Any(s) \in s
    BY <1>2 DEF Any
  <2> QED BY <1>2, <2>1, <2>2
<1>3. SUBSET DOMAIN f \subseteq Good
  <2>1. \A s \in SUBSET DOMAIN f : s # {} /\ Others(s) \in Good => s \in Good
    BY <1>2
  <2> HIDE DEF Good
  <2> QED BY <1>1, <2>1, SubsetInduction
<1>4. SumFn(h)[DOMAIN f] = SumFn(f)[DOMAIN f] + SumFn(g)[DOMAIN f]
  BY <1>3
<1> QED BY <1>4, SumIsFold

(* A sum of differences is the difference of the sums, also when some of   *)
(* the differences are negative.                                           *)
LEMMA SumDifference ==
    ASSUME NEW f, NEW a, NEW b, IsFiniteSet(DOMAIN f), DOMAIN a = DOMAIN f, DOMAIN b = DOMAIN f,
           \A x \in DOMAIN f : a[x] \in Nat /\ b[x] \in Nat /\ f[x] = a[x] - b[x]
    PROVE  SumOf(f) = SumOf(a) - SumOf(b)
<1> DEFINE Good == {s \in SUBSET DOMAIN f :
                      /\ SumFn(a)[s] \in Nat /\ SumFn(b)[s] \in Nat
                      /\ SumFn(f)[s] = SumFn(a)[s] - SumFn(b)[s]}
<1>1. {} \in Good
  <2>1. {} \in SUBSET DOMAIN f /\ {} \in SUBSET DOMAIN a /\ {} \in SUBSET DOMAIN b
    OBVIOUS
  <2>2. SumFn(f)[{}] = 0
    BY <2>1, FoldUnfolds DEF Partial
  <2>3. SumFn(a)[{}] = 0
    BY <2>1, FoldUnfolds DEF Partial
  <2>4. SumFn(b)[{}] = 0
    BY <2>1, FoldUnfolds DEF Partial
  <2> QED BY <2>1, <2>2, <2>3, <2>4
<1>2. ASSUME NEW s \in SUBSET DOMAIN f, s # {}, Others(s) \in Good PROVE s \in Good
  <2>1. /\ SumFn(f)[s] = f[Any(s)] + SumFn(f)[Others(s)]
        /\ SumFn(a)[s] = a[Any(s)] + SumFn(a)[Others(s)]
        /\ SumFn(b)[s] = b[Any(s)] + SumFn(b)[Others(s)]
    BY <1>2, FoldUnfolds DEF Partial
  <2>2. Any(s) \in s
    BY <1>2 DEF Any
  <2>3. /\ SumFn(a)[Others(s)] \in Nat /\ SumFn(b)[Others(s)] \in Nat
        /\ SumFn(f)[Others(s)] = SumFn(a)[Others(s)] - SumFn(b)[Others(s)]
    BY <1>2
  <2>4. /\ a[Any(s)] \in Nat /\ b[Any(s)] \in Nat /\ f[Any(s)] = a[Any(s)] - b[Any(s)]
    BY <2>2
  <2> QED BY <2>1, <2>3, <2>4
<1>3. SUBSET DOMAIN f \subseteq Good
  <2>1. \A s \in SUBSET DOMAIN f : s # {} /\ Others(s) \in Good => s \in Good
    BY <1>2
  <2> HIDE DEF Good
  <2> QED BY <1>1, <2>1, SubsetInduction
<1>4. SumFn(f)[DOMAIN f] = SumFn(a)[DOMAIN f] - SumFn(b)[DOMAIN f]
  BY <1>3
<1> QED BY <1>4, SumIsFold

(* The sum of equal terms.                                                 *)
LEMMA SumConstant ==
    ASSUME NEW f, IsFiniteSet(DOMAIN f), NEW c \in Nat, \A x \in DOMAIN f : f[x] = c
    PROVE  SumOf(f) = Cardinality(DOMAIN f) * c
<1> DEFINE Good == {s \in SUBSET DOMAIN f : SumFn(f)[s] = Cardinality(s) * c}
<1>1. {} \in Good
  <2>1. SumFn(f)[{}] = 0
    BY FoldUnfolds DEF Partial
  <2>2. Cardinality({}) * c = 0
    BY FS_EmptySet
  <2> QED BY <2>1, <2>2
<1>2. ASSUME NEW s \in SUBSET DOMAIN f, s # {}, Others(s) \in Good PROVE s \in Good
  <2>1. SumFn(f)[s] = f[Any(s)] + SumFn(f)[Others(s)]
    BY <1>2, FoldUnfolds DEF Partial
  <2>2. IsFiniteSet(s)
    BY FS_Subset
  <2>3. /\ Any(s) \in s /\ Cardinality(Others(s)) \in Nat
        /\ Cardinality(s) = Cardinality(Others(s)) + 1
    BY <1>2, <2>2, OthersOf
  <2>4. SumFn(f)[s] = c + Cardinality(Others(s)) * c
    BY <1>2, <2>1, <2>3
  <2>5. \A n \in Nat : c + n * c = (n + 1) * c
    BY SMT
  <2> QED BY <2>3, <2>4, <2>5
<1>3. SUBSET DOMAIN f \subseteq Good
  <2>1. \A s \in SUBSET DOMAIN f : s # {} /\ Others(s) \in Good => s \in Good
    BY <1>2
  <2> HIDE DEF Good
  <2> QED BY <1>1, <2>1, SubsetInduction
<1> QED BY <1>3, SumIsFold

(* A bound on the ratio of the terms is one on the ratio of the sums. *)
LEMMA SumScaled ==
    ASSUME NEW f, NEW g, IsFiniteSet(DOMAIN f), DOMAIN g = DOMAIN f,
           NEW m \in Nat, NEW a \in Nat,
           \A x \in DOMAIN f : f[x] \in Nat /\ g[x] \in Nat /\ m * f[x] <= a * g[x]
    PROVE  m * SumOf(f) <= a * SumOf(g)
<1> DEFINE Good == {s \in SUBSET DOMAIN f :
                      /\ SumFn(f)[s] \in Nat /\ SumFn(g)[s] \in Nat
                      /\ m * SumFn(f)[s] <= a * SumFn(g)[s]}
<1>1. {} \in Good
  <2>1. SumFn(f)[{}] = 0 /\ SumFn(g)[{}] = 0
    BY FoldUnfolds DEF Partial
  <2>2. m * 0 <= a * 0
    OBVIOUS
  <2>3. m * SumFn(f)[{}] <= a * SumFn(g)[{}]
    BY <2>1, <2>2
  <2> QED BY <2>1, <2>3
<1>2. ASSUME NEW s \in SUBSET DOMAIN f, s # {}, Others(s) \in Good PROVE s \in Good
  <2>1. /\ SumFn(f)[s] = f[Any(s)] + SumFn(f)[Others(s)]
        /\ SumFn(g)[s] = g[Any(s)] + SumFn(g)[Others(s)]
    BY <1>2, FoldUnfolds DEF Partial
  <2>2. /\ f[Any(s)] \in Nat /\ g[Any(s)] \in Nat
        /\ m * f[Any(s)] <= a * g[Any(s)]
    BY <1>2 DEF Any
  <2>3. /\ SumFn(f)[Others(s)] \in Nat /\ SumFn(g)[Others(s)] \in Nat
        /\ m * SumFn(f)[Others(s)] <= a * SumFn(g)[Others(s)]
    BY <1>2
  <2>4. ASSUME NEW p \in Nat, NEW q \in Nat, NEW u \in Nat, NEW v \in Nat,
               m * p <= a * q, m * u <= a * v
        PROVE  m * (p + u) <= a * (q + v)
    <3>1. m * (p + u) = (m * p) + (m * u) /\ a * (q + v) = (a * q) + (a * v)
      OBVIOUS
    <3>2. m * p \in Nat /\ m * u \in Nat /\ a * q \in Nat /\ a * v \in Nat
      OBVIOUS
    <3> QED BY <2>4, <3>1, <3>2
  <2> QED BY <2>1, <2>2, <2>3, <2>4
<1>3. SUBSET DOMAIN f \subseteq Good
  <2>1. \A s \in SUBSET DOMAIN f : s # {} /\ Others(s) \in Good => s \in Good
    BY <1>2
  <2> HIDE DEF Good
  <2> QED BY <1>1, <2>1, SubsetInduction
<1>4. m * SumFn(f)[DOMAIN f] <= a * SumFn(g)[DOMAIN f]
  BY <1>3
<1> QED BY <1>4, SumIsFold

LEMMA SumMonotone ==
    ASSUME NEW f, NEW g, IsFiniteSet(DOMAIN f), DOMAIN g = DOMAIN f,
           \A x \in DOMAIN f : f[x] \in Nat /\ g[x] \in Nat /\ f[x] <= g[x]
    PROVE  SumOf(f) <= SumOf(g)
<1>1. \A x \in DOMAIN f : f[x] \in Nat /\ g[x] \in Nat /\ 1 * f[x] <= 1 * g[x]
  OBVIOUS
<1>2. 1 * SumOf(f) <= 1 * SumOf(g)
  BY <1>1, SumScaled
<1>3. SumOf(f) \in Nat /\ SumOf(g) \in Nat
  BY SumNat
<1> QED BY <1>2, <1>3

(* An amount that is dealt out by the weights g, each share rounded down,  *)
(* is not exceeded.                                                        *)
LEMMA SharesFit ==
    ASSUME NEW f, NEW g, IsFiniteSet(DOMAIN f), DOMAIN g = DOMAIN f,
           NEW a \in Nat, SumOf(g) # 0,
           \A x \in DOMAIN f : f[x] \in Nat /\ g[x] \in Nat /\ SumOf(g) * f[x] <= a * g[x]
    PROVE  SumOf(f) <= a
<1> DEFINE m == SumOf(g)
<1> DEFINE d == SumOf(f)
<1>1. m \in Nat \ {0} /\ d \in Nat
  BY SumNat
<1>2. m * d <= a * m
  <2> HIDE DEF m
  <2>1. \A x \in DOMAIN f : f[x] \in Nat /\ g[x] \in Nat /\ m * f[x] <= a * g[x]
    BY DEF m
  <2> QED BY <1>1, <2>1, SumScaled DEF m
<1> HIDE DEF m, d
<1>3. SUFFICES ASSUME d >= a + 1 PROVE FALSE
  BY <1>1 DEF d
<1>4. m * d >= m * (a + 1)
  BY <1>1, <1>3
<1>5. m * (a + 1) = (a * m) + m
  BY <1>1
<1>6. m * d \in Nat /\ a * m \in Nat
  BY <1>1
<1> QED BY <1>1, <1>2, <1>4, <1>5, <1>6

-----------------------------------------------------------------------------
(* Arithmetic *)

LEMMA Quotient ==
    ASSUME NEW a \in Nat, NEW b \in Nat \ {0}
    PROVE  a \div b \in Nat /\ b * (a \div b) <= a /\ a < b * (a \div b) + b
OBVIOUS

LEMMA QuotientOfZero ==
    ASSUME NEW b \in Nat \ {0}
    PROVE  0 \div b = 0
<1> DEFINE q == 0 \div b
<1>1. q \in Nat /\ b * q <= 0
  BY Quotient
<1> HIDE DEF q
<1>2. ASSUME q >= 1 PROVE FALSE
  <2>1. b * q >= b
    BY <1>1, <1>2
  <2> QED BY <1>1, <2>1
<1>3. q = 0
  BY <1>1, <1>2
<1> QED BY <1>3 DEF q

LEMMA QuotientBound ==
    ASSUME NEW a \in Nat, NEW b \in Nat \ {0}, NEW c \in Nat, b * c <= a
    PROVE  c <= a \div b
<1> DEFINE q == a \div b
<1>1. q \in Nat /\ a < b * q + b
  BY Quotient
<1> HIDE DEF q
<1>2. b * q + b = b * (q + 1)
  BY <1>1
<1>3. ASSUME c >= q + 1 PROVE FALSE
  <2>1. b * (q + 1) <= b * c
    BY <1>1, <1>3
  <2> QED BY <1>1, <1>2, <2>1
<1>4. c <= q
  BY <1>1, <1>3
<1> QED BY <1>4 DEF q

(* Scaling by a ratio of at most one. *)
LEMMA ScaledDown ==
    ASSUME NEW w \in Nat, NEW a \in Nat, NEW m \in Nat \ {0}, a <= m
    PROVE  /\ (w * a) \div m \in Nat
           /\ (w * a) \div m <= w
           /\ m * ((w * a) \div m) <= w * a
<1> DEFINE q == (w * a) \div m
<1>1. w * a \in Nat /\ w * a <= w * m
  OBVIOUS
<1>2. q \in Nat /\ m * q <= w * a
  BY <1>1, Quotient
<1> HIDE DEF q
<1>3. ASSUME q >= w + 1 PROVE FALSE
  <2>1. m * (w + 1) <= m * q
    BY <1>2, <1>3
  <2>2. m * (w + 1) = w * m + m
    OBVIOUS
  <2> QED BY <1>1, <1>2, <2>1, <2>2
<1>4. q <= w
  BY <1>2, <1>3
<1> QED BY <1>2, <1>4 DEF q

LEMMA CostBound ==
    ASSUME NEW notional \in Nat, NEW rate \in 0..99
    PROVE  /\ CostOf(notional, rate) \in Nat
           /\ CostOf(notional, rate) <= notional
           /\ notional > 0 => CostOf(notional, rate) < notional
           /\ 100 * CostOf(notional, rate) <= notional * rate
           /\ notional * rate < 100 * CostOf(notional, rate) + 100
<1> DEFINE c == (notional * rate) \div 100
<1>1. notional * rate \in Nat
  OBVIOUS
<1>2. c \in Nat /\ 100 * c <= notional * rate /\ notional * rate < 100 * c + 100
  BY <1>1, Quotient
<1>3. notional * rate <= notional * 99
  OBVIOUS
<1> HIDE DEF c
<1>4. c <= notional /\ (notional > 0 => c < notional)
  BY <1>1, <1>2, <1>3
<1> QED BY <1>2, <1>4 DEF c, CostOf

-----------------------------------------------------------------------------
(* What a rebalance does *)

LEMMA WorthNat ==
    ASSUME NEW S, IsFiniteSet(S), NEW held \in [S -> Nat],
           NEW prices, \A s \in S : prices[s] \in Nat
    PROVE  /\ Worth(held, prices) \in Nat
           /\ \A s \in S : held[s] * prices[s] <= Worth(held, prices)
<1> DEFINE f == [s \in Held(held) |-> held[s] * prices[s]]
<1>1. DOMAIN f \subseteq S /\ IsFiniteSet(DOMAIN f)
  BY FS_Subset DEF Held
<1>2. \A s \in DOMAIN f : f[s] \in Nat
  BY <1>1
<1> HIDE DEF f
<1>3. SumOf(f) \in Nat
  BY <1>1, <1>2, SumNat
<1>4. \A s \in DOMAIN f : f[s] <= SumOf(f)
  BY <1>1, <1>2, TermBelowSum
<1>5. \A s \in Held(held) : s \in DOMAIN f /\ f[s] = held[s] * prices[s]
  BY DEF f
<1>6. \A s \in S : s \in Held(held) \/ held[s] * prices[s] = 0
  BY DEF Held
<1>7. \A s \in S : held[s] * prices[s] <= SumOf(f)
  BY <1>3, <1>4, <1>5, <1>6
<1> QED BY <1>3, <1>7 DEF Worth, f

(* What the lots of each symbol of A are worth. *)
Values(A, held, prices) == [s \in A |-> held[s] * prices[s]]

(* A worth is a sum over everything that may be held. *)
LEMMA WorthOf ==
    ASSUME NEW S, IsFiniteSet(S), NEW held \in [S -> Nat],
           NEW A \in SUBSET S, \A s \in S : s \notin A => held[s] = 0,
           NEW prices, \A s \in S : prices[s] \in Nat
    PROVE  Worth(held, prices) = SumOf(Values(A, held, prices))
<1> DEFINE f == [s \in A |-> held[s] * prices[s]]
<1>1. /\ DOMAIN f = A /\ IsFiniteSet(A)
      /\ \A s \in A : f[s] \in Nat
      /\ Held(held) \in SUBSET A
      /\ \A s \in A : s \notin Held(held) => f[s] = 0
  BY FS_Subset DEF Held
<1>2. [s \in Held(held) |-> f[s]] = [s \in Held(held) |-> held[s] * prices[s]]
  BY <1>1
<1> HIDE DEF f
<1>3. SumOf([s \in Held(held) |-> f[s]]) = SumOf(f)
  BY <1>1, SumSupport
<1> QED BY <1>2, <1>3 DEF Worth, Values, f

LEMMA NothingHeld ==
    ASSUME NEW held, \A s \in DOMAIN held : held[s] = 0, NEW prices
    PROVE  Worth(held, prices) = 0
<1>1. Held(held) = {}
  BY DEF Held
<1>2. DOMAIN [s \in Held(held) |-> held[s] * prices[s]] = {}
  BY <1>1
<1> QED BY <1>2, EmptySum DEF Worth

(* What the lemmas below assume of a ledger and of its targets: the prices *)
(* of what is held and of what is targeted are there.                      *)
Tradable(S, held, cash, prices, targets, rate) ==
    /\ IsFiniteSet(S)
    /\ held \in [S -> Nat] /\ prices \in [S -> Nat] /\ targets \in [S -> Nat]
    /\ cash \in Nat /\ rate \in 0..99
    /\ ~RebalanceRaises(held, prices, targets)

LEMMA OrderTypes ==
    ASSUME NEW S, NEW held, NEW cash, NEW prices, NEW targets, NEW rate,
           Tradable(S, held, cash, prices, targets, rate)
    PROVE  LET N == Needed(held, targets)
               lots == TargetLots(held, cash, prices, targets)
               sold == Sold(held, cash, prices, targets)
               wanted == Wanted(held, cash, prices, targets)
               equity == cash + Worth(held, prices)
           IN  /\ N \subseteq S /\ IsFiniteSet(N) /\ Held(held) \subseteq N
               /\ \A s \in N : prices[s] \in Nat \ {0}
               /\ \A s \in S : s \notin N => held[s] = 0 /\ targets[s] = 0
               /\ lots \in [N -> Nat] /\ sold \in [N -> Nat] /\ wanted \in [N -> Nat]
               /\ \A s \in N : held[s] - sold[s] + wanted[s] = lots[s] /\ sold[s] <= held[s]
               /\ \A s \in N : targets[s] = 0 => lots[s] = 0
               /\ equity \in Nat
               /\ \A s \in N : lots[s] * prices[s] <= (targets[s] * equity) \div Full
<1> DEFINE N == Needed(held, targets)
<1> DEFINE lots == TargetLots(held, cash, prices, targets)
<1> DEFINE sold == Sold(held, cash, prices, targets)
<1> DEFINE wanted == Wanted(held, cash, prices, targets)
<1> DEFINE equity == cash + Worth(held, prices)
<1>1. N \subseteq S /\ IsFiniteSet(N) /\ Held(held) \subseteq N
  BY FS_Subset DEF Tradable, Needed, Held
<1>2. \A s \in N : prices[s] \in Nat \ {0}
  BY <1>1 DEF Tradable, RebalanceRaises
<1>3. \A s \in S : s \notin N => held[s] = 0 /\ targets[s] = 0
  BY DEF Tradable, Needed, Held
<1>4. equity \in Nat
  BY WorthNat DEF Tradable
<1>5. \A s \in N : /\ lots[s] = (targets[s] * equity) \div (Full * prices[s])
                   /\ targets[s] \in Nat /\ held[s] \in Nat
  BY <1>1 DEF TargetLots, Tradable
<1>6. DOMAIN lots = N /\ lots = [s \in N |-> lots[s]]
  BY DEF TargetLots
<1> HIDE DEF N, lots, equity
<1>7. ASSUME NEW s \in N
      PROVE  /\ lots[s] \in Nat
             /\ targets[s] = 0 => lots[s] = 0
             /\ lots[s] * prices[s] <= (targets[s] * equity) \div Full
  <2>1. /\ targets[s] * equity \in Nat /\ Full * prices[s] \in Nat \ {0}
        /\ prices[s] \in Nat \ {0} /\ targets[s] \in Nat
    BY <1>2, <1>4, <1>5 DEF Full
  <2> DEFINE q == (targets[s] * equity) \div (Full * prices[s])
  <2>2. q \in Nat /\ (Full * prices[s]) * q <= targets[s] * equity
    BY <2>1, Quotient
  <2>3. targets[s] = 0 => q = 0
    <3> SUFFICES ASSUME targets[s] = 0 PROVE q = 0
      OBVIOUS
    <3>1. targets[s] * equity = 0
      BY <1>4
    <3> QED BY <2>1, <3>1, QuotientOfZero
  <2> HIDE DEF q
  <2>4. Full * (q * prices[s]) = (Full * prices[s]) * q /\ q * prices[s] \in Nat
    BY <2>1, <2>2 DEF Full
  <2>5. q * prices[s] <= (targets[s] * equity) \div Full
    BY <2>1, <2>2, <2>4, QuotientBound DEF Full
  <2> QED BY <1>5, <2>2, <2>3, <2>5 DEF q
<1>8. lots \in [N -> Nat]
  BY <1>6, <1>7
<1>9. /\ sold = [s \in N |-> Most(0, held[s] - lots[s])]
      /\ wanted = [s \in N |-> Most(0, lots[s] - held[s])]
  BY <1>6 DEF Sold, Wanted, lots
<1> HIDE DEF sold, wanted
<1>10. \A s \in N : /\ sold[s] \in Nat /\ wanted[s] \in Nat
                    /\ held[s] - sold[s] + wanted[s] = lots[s] /\ sold[s] <= held[s]
  BY <1>5, <1>7, <1>9 DEF Most
<1>11. sold \in [N -> Nat] /\ wanted \in [N -> Nat]
  BY <1>9, <1>10
<1> QED BY <1>1, <1>2, <1>3, <1>4, <1>7, <1>8, <1>10, <1>11, Zenon
        DEF N, lots, sold, wanted, equity

(* What is bought is paid for, whatever the roundings: the scale leaves    *)
(* room for the costs of the purchases themselves.                         *)
LEMMA Affordable ==
    ASSUME NEW A \in Nat, NEW D \in Nat \ {0}, NEW P \in Nat, NEW rate \in 0..99,
           P <= D, Most(A, D + CostOf(D, rate)) * P <= A * D
    PROVE  P + CostOf(P, rate) <= A
<1> DEFINE c == CostOf(P, rate)
<1> DEFINE q == CostOf(D, rate)
<1> DEFINE K == D + q
<1>1. /\ c \in Nat /\ 100 * c <= P * rate
      /\ q \in Nat /\ D * rate < 100 * q + 100
  BY CostBound
<1>2. Most(A, K) * P <= A * D
  OBVIOUS
<1> HIDE DEF c, q
<1>3. P * rate \in Nat /\ D * rate \in Nat /\ P * rate <= D * rate
  OBVIOUS
<1>4. CASE A >= K
  <2>1. 100 * c < 100 * q + 100
    BY <1>1, <1>3
  <2>2. c <= q
    BY <1>1, <2>1
  <2> QED BY <1>1, <1>4, <2>2 DEF c
<1>5. CASE A < K
  <2>1. K * P <= A * D
    BY <1>1, <1>2, <1>5 DEF Most
  <2>2. K \in Nat /\ K > 0
    BY <1>1
  <2> SUFFICES ASSUME P + c >= A + 1 PROVE FALSE
    BY <1>1 DEF c
  <2>3. 100 * A + 100 <= 100 * P + P * rate
    BY <1>1, <1>3
  <2>4. 100 * D + D * rate <= 100 * K + 99
    BY <1>1, <1>3
  <2> HIDE DEF K
  <2> DEFINE x == 100 * P + P * rate
  <2> DEFINE y == 100 * D + D * rate
  <2>5. x \in Nat /\ y \in Nat /\ x = P * (100 + rate) /\ y = D * (100 + rate)
    BY <1>3
  <2>6. K * (100 * A + 100) <= K * x
    BY <2>2, <2>3, <2>5
  <2>7. K * x <= A * y
    <3>1. K * x = (K * P) * (100 + rate) /\ A * y = (A * D) * (100 + rate)
      BY <2>2, <2>5
    <3>2. K * P \in Nat /\ A * D \in Nat
      BY <2>2
    <3> HIDE DEF x, y
    <3> QED BY <2>1, <3>1, <3>2
  <2>8. A * y <= A * (100 * K + 99)
    BY <2>2, <2>4, <2>5
  <2>9. K * (100 * A + 100) <= A * (100 * K + 99)
    <3>1. K * x \in Nat /\ A * y \in Nat
      BY <2>2, <2>5
    <3> HIDE DEF x, y
    <3> QED BY <2>2, <2>6, <2>7, <2>8, <3>1
  <2> DEFINE z == K * A
  <2>10. /\ z \in Nat /\ K * (100 * A + 100) = 100 * z + 100 * K
         /\ A * (100 * K + 99) = 100 * z + 99 * A
    BY <2>2
  <2> HIDE DEF z
  <2>11. 100 * K <= 99 * A
    BY <2>2, <2>9, <2>10
  <2> QED BY <1>5, <2>2, <2>11 DEF K
<1> QED BY <1>1, <1>4, <1>5

LEMMA PurchaseTypes ==
    ASSUME NEW S, NEW held, NEW cash, NEW prices, NEW targets, NEW rate,
           Tradable(S, held, cash, prices, targets, rate)
    PROVE  LET N == Needed(held, targets)
               sold == Sold(held, cash, prices, targets)
               wanted == Wanted(held, cash, prices, targets)
               bought == Bought(held, cash, prices, targets, rate)
               sale == Worth(sold, prices)
               purchase == Worth(bought, prices)
               available == cash + Proceeds(held, cash, prices, targets, rate)
           IN  /\ bought \in [N -> Nat]
               /\ \A s \in N : bought[s] <= wanted[s]
               /\ sale \in Nat /\ purchase \in Nat
               /\ available \in Nat
               /\ available = cash + sale - CostOf(sale, rate)
               /\ purchase + CostOf(purchase, rate) <= available
<1> DEFINE N == Needed(held, targets)
<1> DEFINE sold == Sold(held, cash, prices, targets)
<1> DEFINE wanted == Wanted(held, cash, prices, targets)
<1> DEFINE bought == Bought(held, cash, prices, targets, rate)
<1> DEFINE sale == Worth(sold, prices)
<1> DEFINE purchase == Worth(bought, prices)
<1> DEFINE desired == Worth(wanted, prices)
<1> DEFINE available == cash + Proceeds(held, cash, prices, targets, rate)
<1>1. /\ IsFiniteSet(N) /\ \A s \in N : prices[s] \in Nat
      /\ sold \in [N -> Nat] /\ wanted \in [N -> Nat]
  BY OrderTypes
<1>2. cash \in Nat /\ rate \in 0..99
  BY DEF Tradable
<1>3. available = cash + (sale - CostOf(sale, rate))
  BY DEF Proceeds
<1>4. bought = IF desired = 0 THEN wanted
               ELSE [s \in DOMAIN wanted |->
                       (wanted[s] * available)
                         \div Most(available, desired + CostOf(desired, rate))]
  BY Zenon DEF Bought
<1> HIDE DEF N, sold, wanted, bought, available
<1>5. sale \in Nat /\ desired \in Nat
  BY <1>1, WorthNat
<1>6. available \in Nat /\ available = cash + sale - CostOf(sale, rate)
  <2> DEFINE c == CostOf(sale, rate)
  <2>1. c \in Nat /\ c <= sale
    BY <1>2, <1>5, CostBound
  <2>2. available = cash + (sale - c)
    BY <1>3
  <2> HIDE DEF sale, c
  <2>3. available \in Nat /\ available = cash + sale - c
    BY <1>2, <1>5, <2>1, <2>2
  <2> QED BY <2>3 DEF c
<1>7. CASE desired = 0
  <2>1. bought = wanted /\ purchase = 0
    BY <1>4, <1>7
  <2>2. CostOf(0, rate) = 0
    <3>1. CostOf(0, rate) \in Nat /\ CostOf(0, rate) <= 0
      BY <1>2, CostBound
    <3> QED BY <3>1
  <2>3. \A s \in N : bought[s] <= wanted[s]
    BY <1>1, <2>1
  <2> HIDE DEF purchase, sale, desired
  <2>4. purchase + CostOf(purchase, rate) <= available
    BY <1>6, <2>1, <2>2
  <2> QED BY <1>1, <1>5, <1>6, <2>1, <2>3, <2>4
          DEF N, sold, wanted, bought, sale, purchase, available
<1>8. CASE desired # 0
  <2> DEFINE m == Most(available, desired + CostOf(desired, rate))
  <2>1. m \in Nat \ {0} /\ available <= m
    <3>1. CostOf(desired, rate) \in Nat
      BY <1>2, <1>5, CostBound
    <3> HIDE DEF desired
    <3> QED BY <1>5, <1>6, <1>8, <3>1 DEF Most
  <2>2. bought = [s \in N |-> (wanted[s] * available) \div m]
    BY <1>1, <1>4, <1>8
  <2>3. m * purchase <= available * desired /\ purchase \in Nat /\ purchase <= desired
        /\ bought \in [N -> Nat] /\ \A s \in N : bought[s] <= wanted[s]
    <3> HIDE DEF m
    <3>1. \A s \in N : /\ bought[s] \in Nat /\ bought[s] <= wanted[s]
                       /\ m * bought[s] <= wanted[s] * available
      BY <1>1, <1>6, <2>1, <2>2, ScaledDown
    <3>2. bought \in [N -> Nat]
      BY <2>2, <3>1
    <3> DEFINE f == Values(N, bought, prices)
    <3> DEFINE g == Values(N, wanted, prices)
    <3>3. purchase \in Nat /\ purchase = SumOf(f) /\ desired = SumOf(g)
      <4>1. purchase \in Nat
        BY <1>1, <3>2, WorthNat
      <4>2. N \in SUBSET N
        OBVIOUS
      <4>3. purchase = SumOf(f)
        BY <1>1, <3>2, <4>2, WorthOf
      <4>4. desired = SumOf(g)
        BY <1>1, <4>2, WorthOf
      <4> QED BY <4>1, <4>3, <4>4
    <3>4. ASSUME NEW s \in N
          PROVE  /\ f[s] \in Nat /\ g[s] \in Nat
                 /\ 1 * f[s] <= 1 * g[s] /\ m * f[s] <= available * g[s]
      <4> DEFINE b == bought[s]
      <4> DEFINE w == wanted[s]
      <4> DEFINE pr == prices[s]
      <4>1. /\ b \in Nat /\ w \in Nat /\ pr \in Nat /\ m \in Nat /\ available \in Nat
            /\ b <= w /\ m * b <= w * available
        BY <1>1, <1>6, <2>1, <3>1
      <4> HIDE DEF b, w, pr
      <4>2. b * pr \in Nat /\ w * pr \in Nat /\ b * pr <= w * pr
        BY <4>1
      <4>3. (m * b) * pr <= (w * available) * pr
        BY <4>1
      <4>4. m * (b * pr) = (m * b) * pr /\ available * (w * pr) = (w * available) * pr
        BY <4>1
      <4>5. m * (b * pr) <= available * (w * pr)
        BY <4>3, <4>4
      <4> QED BY <4>2, <4>5 DEF b, w, pr, Values
    <3>5. DOMAIN f = N /\ DOMAIN g = N
      BY DEF Values
    <3> HIDE DEF f, g, purchase, desired
    <3>6. m * SumOf(f) <= available * SumOf(g)
      BY <1>1, <1>6, <2>1, <3>4, <3>5, SumScaled
    <3>7. 1 * SumOf(f) <= 1 * SumOf(g)
      BY <1>1, <3>4, <3>5, SumScaled
    <3> QED BY <1>5, <3>1, <3>2, <3>3, <3>6, <3>7
  <2>4. purchase + CostOf(purchase, rate) <= available
    <3>1. desired \in Nat \ {0} /\ m * purchase <= available * desired
      BY <1>5, <1>8, <2>3
    <3> HIDE DEF purchase, desired
    <3> QED BY <1>2, <1>6, <2>3, <3>1, Affordable
  <2> HIDE DEF purchase, sale, desired
  <2> QED BY <1>5, <1>6, <2>3, <2>4
          DEF N, sold, wanted, bought, sale, purchase, available
<1> QED BY <1>7, <1>8

(* What a rebalance leaves: nothing that was not targeted, nothing above   *)
(* its weight, no debt, and the wealth there was less the costs.           *)
THEOREM RebalanceLeaves ==
    ASSUME NEW S, NEW held, NEW cash, NEW prices, NEW targets, NEW rate,
           Tradable(S, held, cash, prices, targets, rate)
    PROVE  LET after == Rebalanced(held, cash, prices, targets, rate)
               equity == cash + Worth(held, prices)
           IN  /\ after.shares \in [S -> Nat] /\ after.cash \in Nat /\ after.costs \in Nat
               /\ \A s \in S :
                    /\ after.shares[s] > 0 => targets[s] > 0 /\ prices[s] > 0
                    /\ after.shares[s] * prices[s] <= (targets[s] * equity) \div Full
               /\ after.cash + Worth(after.shares, prices) + after.costs = equity
               /\ equity > 0 => after.cash > 0 \/ \E s \in S : after.shares[s] > 0
<1> DEFINE N == Needed(held, targets)
<1> DEFINE lots == TargetLots(held, cash, prices, targets)
<1> DEFINE sold == Sold(held, cash, prices, targets)
<1> DEFINE wanted == Wanted(held, cash, prices, targets)
<1> DEFINE bought == Bought(held, cash, prices, targets, rate)
<1> DEFINE sale == Worth(sold, prices)
<1> DEFINE purchase == Worth(bought, prices)
<1> DEFINE available == cash + Proceeds(held, cash, prices, targets, rate)
<1> DEFINE before == Worth(held, prices)
<1> DEFINE equity == cash + before
<1> DEFINE after == Rebalanced(held, cash, prices, targets, rate)
<1> DEFINE new == [s \in S |-> IF s \in N THEN held[s] - sold[s] + bought[s] ELSE 0]
<1>1. /\ IsFiniteSet(S) /\ held \in [S -> Nat] /\ prices \in [S -> Nat]
      /\ targets \in [S -> Nat] /\ cash \in Nat /\ rate \in 0..99
  BY DEF Tradable
<1>2. /\ N \in SUBSET S /\ IsFiniteSet(N)
      /\ \A s \in N : prices[s] \in Nat \ {0}
      /\ \A s \in S : s \notin N => held[s] = 0 /\ targets[s] = 0
      /\ lots \in [N -> Nat] /\ sold \in [N -> Nat] /\ wanted \in [N -> Nat]
      /\ \A s \in N : held[s] - sold[s] + wanted[s] = lots[s] /\ sold[s] <= held[s]
      /\ \A s \in N : targets[s] = 0 => lots[s] = 0
      /\ equity \in Nat
      /\ \A s \in N : lots[s] * prices[s] <= (targets[s] * equity) \div Full
  BY OrderTypes
<1>3. /\ bought \in [N -> Nat] /\ \A s \in N : bought[s] <= wanted[s]
      /\ sale \in Nat /\ purchase \in Nat /\ available \in Nat
      /\ available = cash + sale - CostOf(sale, rate)
      /\ purchase + CostOf(purchase, rate) <= available
  BY PurchaseTypes
<1>4. /\ after.shares = new
      /\ after.cash = Most(0, available - purchase - CostOf(purchase, rate))
      /\ after.costs = CostOf(sale, rate) + CostOf(purchase, rate)
  BY <1>1, <1>2 DEF Rebalanced
<1>5. before \in Nat
  BY <1>1, WorthNat
<1>6. DOMAIN sold = N /\ DOMAIN bought = N
  BY <1>2, <1>3
<1> HIDE DEF N, lots, sold, wanted, bought, available, after
<1>7. ASSUME NEW s \in N
      PROVE  /\ new[s] = held[s] - sold[s] + bought[s]
             /\ new[s] \in Nat /\ new[s] <= lots[s]
             /\ new[s] * prices[s] <= lots[s] * prices[s]
  <2>1. new[s] = held[s] - sold[s] + bought[s]
    BY <1>2
  <2>2. /\ held[s] \in Nat /\ sold[s] \in Nat /\ bought[s] \in Nat /\ wanted[s] \in Nat
        /\ lots[s] \in Nat /\ prices[s] \in Nat
    BY <1>1, <1>2, <1>3
  <2>3. bought[s] <= wanted[s] /\ sold[s] <= held[s] /\ held[s] - sold[s] + wanted[s] = lots[s]
    BY <1>2, <1>3
  <2> DEFINE n == new[s]
  <2>4. n \in Nat /\ n <= lots[s]
    BY <2>1, <2>2, <2>3
  <2> HIDE DEF n
  <2>5. n * prices[s] <= lots[s] * prices[s]
    BY <2>2, <2>4
  <2> QED BY <2>1, <2>4, <2>5 DEF n
<1>8. \A s \in S : s \notin N => new[s] = 0
  OBVIOUS
<1>9. new \in [S -> Nat]
  BY <1>7, <1>8
<1>10. /\ CostOf(sale, rate) \in Nat /\ CostOf(purchase, rate) \in Nat
       /\ sale > 0 => CostOf(sale, rate) < sale
       /\ CostOf(sale, rate) <= sale /\ CostOf(purchase, rate) <= purchase
  BY <1>1, <1>3, CostBound
<1>11. after.cash = available - purchase - CostOf(purchase, rate) /\ after.cash \in Nat
  <2> HIDE DEF sale, purchase
  <2> QED BY <1>3, <1>4, <1>10 DEF Most
<1>12. ASSUME NEW s \in S
       PROVE  /\ new[s] > 0 => targets[s] > 0 /\ prices[s] > 0
              /\ new[s] * prices[s] <= (targets[s] * equity) \div Full
  <2> HIDE DEF equity
  <2>1. CASE s \in N
    <3>1. new[s] \in Nat /\ new[s] <= lots[s] /\ new[s] * prices[s] <= lots[s] * prices[s]
      BY <1>7, <2>1
    <3>2. /\ prices[s] \in Nat \ {0} /\ lots[s] \in Nat /\ targets[s] \in Nat
          /\ targets[s] = 0 => lots[s] = 0
          /\ lots[s] * prices[s] <= (targets[s] * equity) \div Full
      BY <1>1, <1>2, <2>1
    <3> DEFINE d == (targets[s] * equity) \div Full
    <3> DEFINE a == new[s] * prices[s]
    <3> DEFINE b == lots[s] * prices[s]
    <3>3. a \in Nat /\ b \in Nat /\ d \in Nat
      <4>1. equity \in Nat /\ targets[s] * equity \in Nat
        BY <1>2, <3>2
      <4>2. d \in Nat
        BY <4>1, Quotient DEF Full
      <4>3. a \in Nat /\ b \in Nat
        <5> HIDE DEF new
        <5> QED BY <3>1, <3>2
      <4> QED BY <4>2, <4>3
    <3>4. a <= d
      <4>1. a <= b /\ b <= d
        BY <3>1, <3>2
      <4> HIDE DEF a, b, d
      <4> QED BY <3>3, <4>1
    <3>5. new[s] > 0 => targets[s] > 0 /\ prices[s] > 0
      <4> HIDE DEF new
      <4> QED BY <3>1, <3>2
    <3> QED BY <3>4, <3>5
  <2>2. CASE s \notin N
    <3>1. new[s] = 0 /\ targets[s] = 0
      BY <1>2, <1>8, <2>2
    <3>2. new[s] * prices[s] = 0 /\ targets[s] * equity = 0
      BY <1>1, <1>2, <3>1
    <3>3. 0 \div Full = 0
      BY QuotientOfZero DEF Full
    <3> QED BY <3>1, <3>2, <3>3
  <2> QED BY <2>1, <2>2
<1>13. Worth(new, prices) + sale = before + purchase /\ Worth(new, prices) \in Nat
  <2> DEFINE f1 == Values(N, new, prices)
  <2> DEFINE f2 == Values(N, sold, prices)
  <2> DEFINE f3 == Values(N, held, prices)
  <2> DEFINE f4 == Values(N, bought, prices)
  <2> DEFINE h == [s \in N |-> f1[s] + f2[s]]
  <2>1. \A s \in S : prices[s] \in Nat
    BY <1>1
  <2>2. Worth(new, prices) = SumOf(f1) /\ Worth(new, prices) \in Nat
    <3> HIDE DEF new
    <3>1. Worth(new, prices) \in Nat
      BY <1>1, <1>9, <2>1, WorthNat
    <3>2. Worth(new, prices) = SumOf(f1)
      BY <1>1, <1>2, <1>8, <1>9, <2>1, WorthOf
    <3> QED BY <3>1, <3>2
  <2>3. before = SumOf(f3)
    BY <1>1, <1>2, <2>1, WorthOf
  <2>4. N \in SUBSET N /\ \A s \in N : prices[s] \in Nat
    BY <1>2
  <2>5. sale = SumOf(f2)
    BY <1>2, <2>4, WorthOf
  <2>6. purchase = SumOf(f4)
    BY <1>2, <1>3, <2>4, WorthOf
  <2>7. ASSUME NEW s \in N
        PROVE  /\ f1[s] \in Nat /\ f2[s] \in Nat /\ f3[s] \in Nat /\ f4[s] \in Nat
               /\ h[s] = f1[s] + f2[s] /\ h[s] = f3[s] + f4[s]
    <3> DEFINE a == held[s]
    <3> DEFINE b == sold[s]
    <3> DEFINE c == bought[s]
    <3> DEFINE n == new[s]
    <3> DEFINE p == prices[s]
    <3>1. a \in Nat /\ b \in Nat /\ c \in Nat /\ p \in Nat
      BY <1>1, <1>2, <1>3
    <3>2. n \in Nat /\ n = a - b + c
      BY <1>7
    <3> HIDE DEF a, b, c, n, p
    <3>3. n * p \in Nat /\ b * p \in Nat /\ a * p \in Nat /\ c * p \in Nat
      BY <3>1, <3>2
    <3>4. n * p + b * p = a * p + c * p
      <4>1. (n + b) * p = (a + c) * p
        BY <3>1, <3>2
      <4>2. (n + b) * p = n * p + b * p /\ (a + c) * p = a * p + c * p
        BY <3>1, <3>2
      <4> QED BY <4>1, <4>2
    <3> QED BY <3>3, <3>4 DEF a, b, c, n, p, Values
  <2>8. DOMAIN f1 = N /\ DOMAIN f2 = N /\ DOMAIN f3 = N /\ DOMAIN f4 = N /\ DOMAIN h = N
    BY DEF Values
  <2> HIDE DEF f1, f2, f3, f4, h
  <2>9. SumOf(h) = SumOf(f1) + SumOf(f2)
    BY <1>2, <2>7, <2>8, SumPlus
  <2>10. SumOf(h) = SumOf(f3) + SumOf(f4)
    BY <1>2, <2>7, <2>8, SumPlus
  <2> QED BY <2>2, <2>3, <2>5, <2>6, <2>9, <2>10
<1>14. after.cash + Worth(new, prices) + after.costs = equity
  <2> DEFINE w == Worth(new, prices)
  <2>1. w + sale = before + purchase /\ w \in Nat
    BY <1>13
  <2>2. equity = cash + before
    OBVIOUS
  <2> HIDE DEF w, sale, purchase, before, equity, new
  <2>3. after.cash + w + after.costs = equity
    BY <1>1, <1>3, <1>4, <1>5, <1>10, <1>11, <2>1, <2>2
  <2> QED BY <2>3 DEF w
<1>15. ASSUME equity > 0, \A s \in S : ~(new[s] > 0) PROVE after.cash > 0
  <2>1. \A s \in S : new[s] = 0
    BY <1>9, <1>15
  <2>2. Worth(new, prices) = 0
    <3> HIDE DEF new
    <3> QED BY <1>9, <2>1, NothingHeld
  <2>3. \A s \in N : bought[s] = 0
    <3> SUFFICES ASSUME NEW s \in N PROVE bought[s] = 0
      OBVIOUS
    <3>1. held[s] - sold[s] + bought[s] = 0
      BY <1>2, <1>7, <2>1
    <3>2. held[s] \in Nat /\ sold[s] \in Nat /\ bought[s] \in Nat /\ sold[s] <= held[s]
      BY <1>1, <1>2, <1>3
    <3> QED BY <3>1, <3>2
  <2>4. purchase = 0
    BY <1>6, <2>3, NothingHeld
  <2>5. sale = before
    <3> HIDE DEF sale, purchase, before
    <3> QED BY <1>3, <1>5, <1>13, <2>2, <2>4
  <2> DEFINE c1 == CostOf(sale, rate)
  <2> DEFINE c2 == CostOf(purchase, rate)
  <2>6. c1 \in Nat /\ c2 \in Nat /\ c2 <= purchase /\ (sale > 0 => c1 < sale) /\ c1 <= sale
    BY <1>10
  <2>7. /\ after.cash = available - purchase - c2 /\ available = cash + sale - c1
        /\ available \in Nat /\ cash + before > 0
    BY <1>3, <1>11, <1>15
  <2> HIDE DEF sale, purchase, before, new, c1, c2
  <2> QED BY <1>1, <1>5, <2>4, <2>5, <2>6, <2>7
<1>16. equity > 0 => after.cash > 0 \/ \E s \in S : new[s] > 0
  BY <1>15
<1>17. after.shares \in [S -> Nat] /\ after.cash \in Nat /\ after.costs \in Nat
  <2>1. after.costs \in Nat
    <3> HIDE DEF sale, purchase
    <3> QED BY <1>4, <1>10
  <2> QED BY <1>4, <1>9, <1>11, <2>1
<1> HIDE DEF new, equity
<1>18. /\ \A s \in S :
            /\ after.shares[s] > 0 => targets[s] > 0 /\ prices[s] > 0
            /\ after.shares[s] * prices[s] <= (targets[s] * equity) \div Full
       /\ after.cash + Worth(after.shares, prices) + after.costs = equity
       /\ equity > 0 => after.cash > 0 \/ \E s \in S : after.shares[s] > 0
  <2>1. after.shares = new
    BY <1>4
  <2> QED BY <1>12, <1>14, <1>16, <2>1
<1> QED BY <1>17, <1>18, Zenon DEF after, equity, before

-----------------------------------------------------------------------------
(* Costs, when every price is a multiple of 100: the cost of a lot is then *)
(* whole, and the costs of trades add up.                                  *)

LEMMA SumTimes ==
    ASSUME NEW f, NEW g, IsFiniteSet(DOMAIN f), DOMAIN g = DOMAIN f, NEW m \in Nat,
           \A x \in DOMAIN f : f[x] \in Nat /\ g[x] = m * f[x]
    PROVE  SumOf(g) = m * SumOf(f)
<1>1. \A x \in DOMAIN f : /\ f[x] \in Nat /\ g[x] \in Nat
                          /\ m * f[x] <= 1 * g[x] /\ 1 * g[x] <= m * f[x]
  OBVIOUS
<1>2. m * SumOf(f) <= 1 * SumOf(g)
  BY <1>1, SumScaled
<1>3. 1 * SumOf(g) <= m * SumOf(f)
  BY <1>1, SumScaled
<1>4. SumOf(f) \in Nat /\ SumOf(g) \in Nat
  BY <1>1, SumNat
<1> QED BY <1>2, <1>3, <1>4

LEMMA WholeCost ==
    ASSUME NEW n \in Nat, NEW rate \in 0..99
    PROVE  CostOf(100 * n, rate) = rate * n
<1> DEFINE r == rate * n
<1>1. r \in Nat /\ (100 * n) * rate = 100 * r
  OBVIOUS
<1> HIDE DEF r
<1>2. (100 * r) \div 100 = r
  BY <1>1
<1> QED BY <1>1, <1>2 DEF CostOf, r

LEMMA Hundreds ==
    ASSUME NEW p \in Nat, p % 100 = 0
    PROVE  p \div 100 \in Nat /\ p = 100 * (p \div 100)
OBVIOUS

Round(A, prices) == \A s \in A : prices[s] % 100 = 0

Turnover(S, held, new, prices) ==
    [s \in S |-> prices[s] * Most(new[s] - held[s], held[s] - new[s])]

OneByOne(S, turnover, rate) == [s \in S |-> CostOf(turnover[s], rate)]

(* What the ledger charges is what its trades cost one by one.             *)
THEOREM CostsOfTrades ==
    ASSUME NEW S, NEW held, NEW cash, NEW prices, NEW targets, NEW rate,
           Tradable(S, held, cash, prices, targets, rate),
           Round(Needed(held, targets), prices)
    PROVE  LET after == Rebalanced(held, cash, prices, targets, rate)
               turnover == Turnover(S, held, after.shares, prices)
           IN  /\ after.costs = SumOf(OneByOne(S, turnover, rate))
               /\ after.costs = (rate * SumOf(turnover)) \div 100
<1> DEFINE N == Needed(held, targets)
<1> DEFINE sold == Sold(held, cash, prices, targets)
<1> DEFINE wanted == Wanted(held, cash, prices, targets)
<1> DEFINE bought == Bought(held, cash, prices, targets, rate)
<1> DEFINE sale == Worth(sold, prices)
<1> DEFINE purchase == Worth(bought, prices)
<1> DEFINE after == Rebalanced(held, cash, prices, targets, rate)
<1> DEFINE turnover == Turnover(S, held, after.shares, prices)
<1>1. /\ IsFiniteSet(S) /\ held \in [S -> Nat] /\ prices \in [S -> Nat] /\ rate \in 0..99
      /\ \A s \in N : prices[s] % 100 = 0
  BY DEF Tradable, Round
<1>2. /\ N \in SUBSET S /\ IsFiniteSet(N)
      /\ \A s \in S : s \notin N => held[s] = 0
      /\ sold \in [N -> Nat] /\ \A s \in N : sold[s] <= held[s]
  BY OrderTypes
<1>3. bought \in [N -> Nat] /\ \A s \in N : bought[s] <= wanted[s]
  BY PurchaseTypes
<1>4. \A s \in N : sold[s] = 0 \/ bought[s] = 0
  <2> SUFFICES ASSUME NEW s \in N, sold[s] # 0 PROVE bought[s] = 0
    OBVIOUS
  <2> DEFINE lots == TargetLots(held, cash, prices, targets)
  <2>1. lots \in [N -> Nat] /\ held[s] \in Nat
    BY <1>1, <1>2, OrderTypes
  <2>2. sold[s] = Most(0, held[s] - lots[s]) /\ wanted[s] = Most(0, lots[s] - held[s])
    BY <2>1 DEF Sold, Wanted
  <2>3. lots[s] \in Nat /\ bought[s] \in Nat /\ bought[s] <= wanted[s]
    BY <1>3, <2>1
  <2> HIDE DEF N, lots, sold, wanted, bought
  <2> QED BY <2>1, <2>2, <2>3 DEF Most
<1>5. /\ after.shares = [s \in S |-> IF s \in N THEN held[s] - sold[s] + bought[s] ELSE 0]
      /\ after.costs = CostOf(sale, rate) + CostOf(purchase, rate)
  BY <1>1, <1>2 DEF Rebalanced
<1> HIDE DEF N, sold, wanted, bought, after
<1> DEFINE unit == [s \in S |-> IF s \in N THEN prices[s] \div 100 ELSE 0]
<1> DEFINE A == [s \in S |-> IF s \in N THEN sold[s] * unit[s] ELSE 0]
<1> DEFINE B == [s \in S |-> IF s \in N THEN bought[s] * unit[s] ELSE 0]
<1> DEFINE U == [s \in S |-> A[s] + B[s]]
<1>6. \A s \in N : unit[s] \in Nat /\ prices[s] = 100 * unit[s]
  BY <1>1, <1>2, Hundreds
<1>7. ASSUME NEW s \in S
      PROVE  /\ A[s] \in Nat /\ B[s] \in Nat /\ U[s] = A[s] + B[s]
             /\ turnover[s] = 100 * U[s]
  <2>1. CASE s \in N
    <3> DEFINE u == unit[s]
    <3>1. u \in Nat /\ prices[s] = 100 * u /\ A[s] = sold[s] * u /\ B[s] = bought[s] * u
      BY <1>6, <2>1
    <3>2. /\ sold[s] \in Nat /\ bought[s] \in Nat /\ held[s] \in Nat
          /\ sold[s] = 0 \/ bought[s] = 0
      BY <1>1, <1>2, <1>3, <1>4, <2>1
    <3>3. turnover[s] = prices[s] * Most((held[s] - sold[s] + bought[s]) - held[s],
                                         held[s] - (held[s] - sold[s] + bought[s]))
      BY <1>5, <2>1 DEF Turnover
    <3>4. Most((held[s] - sold[s] + bought[s]) - held[s],
               held[s] - (held[s] - sold[s] + bought[s])) = sold[s] + bought[s]
      BY <3>2 DEF Most
    <3>5. U[s] = A[s] + B[s]
      OBVIOUS
    <3> HIDE DEF u, A, B, U, turnover
    <3>6. A[s] \in Nat /\ B[s] \in Nat
      BY <3>1, <3>2
    <3>7. turnover[s] = (100 * u) * (sold[s] + bought[s])
      BY <3>1, <3>3, <3>4
    <3>8. (100 * u) * (sold[s] + bought[s]) = 100 * (sold[s] * u + bought[s] * u)
      BY <3>1, <3>2
    <3> QED BY <3>1, <3>5, <3>6, <3>7, <3>8
  <2>2. CASE s \notin N
    <3>1. turnover[s] = prices[s] * Most(0 - 0, 0 - 0)
      BY <1>2, <1>5, <2>2 DEF Turnover
    <3>2. turnover[s] = 0 /\ A[s] = 0 /\ B[s] = 0 /\ U[s] = 0 + 0
      BY <1>1, <2>2, <3>1 DEF Most
    <3> QED BY <3>2
  <2> QED BY <2>1, <2>2
<1>8. /\ DOMAIN A = S /\ DOMAIN B = S /\ DOMAIN U = S /\ DOMAIN turnover = S
      /\ \A s \in N : A[s] = sold[s] * unit[s] /\ B[s] = bought[s] * unit[s]
      /\ \A s \in S : s \notin N => A[s] = 0 /\ B[s] = 0
  BY <1>2 DEF Turnover
<1> HIDE DEF unit, A, B, U, turnover
<1>9. ASSUME NEW orders \in [N -> Nat], NEW V, DOMAIN V = S, \A s \in S : V[s] \in Nat,
             \A s \in N : V[s] = orders[s] * unit[s],
             \A s \in S : s \notin N => V[s] = 0
      PROVE  Worth(orders, prices) = 100 * SumOf(V)
  <2> DEFINE W == [s \in N |-> V[s]]
  <2> DEFINE X == Values(N, orders, prices)
  <2>1. SumOf(W) = SumOf(V)
    BY <1>1, <1>2, <1>9, SumSupport
  <2>2. \A s \in N : W[s] \in Nat /\ X[s] = 100 * W[s]
    <3> SUFFICES ASSUME NEW s \in N PROVE W[s] \in Nat /\ X[s] = 100 * W[s]
      OBVIOUS
    <3>1. W[s] \in Nat /\ W[s] = orders[s] * unit[s]
      BY <1>2, <1>9
    <3>2. X[s] = orders[s] * (100 * unit[s])
      BY <1>6 DEF Values
    <3>3. orders[s] \in Nat /\ unit[s] \in Nat
      BY <1>6
    <3> QED BY <3>1, <3>2, <3>3
  <2>3. DOMAIN W = N /\ DOMAIN X = N
    BY DEF Values
  <2>4. Worth(orders, prices) = SumOf(X)
    <3>1. \A s \in N : prices[s] \in Nat
      BY <1>1, <1>2
    <3> QED BY <1>2, <3>1, WorthOf
  <2> HIDE DEF W, X
  <2>5. SumOf(X) = 100 * SumOf(W)
    BY <1>2, <2>2, <2>3, SumTimes
  <2> QED BY <2>1, <2>4, <2>5
<1>10. sale = 100 * SumOf(A) /\ purchase = 100 * SumOf(B)
  <2>1. \A s \in S : A[s] \in Nat /\ B[s] \in Nat
    BY <1>7
  <2>2. sale = 100 * SumOf(A)
    BY <1>2, <1>8, <1>9, <2>1
  <2>3. purchase = 100 * SumOf(B)
    BY <1>3, <1>8, <1>9, <2>1
  <2> QED BY <2>2, <2>3
<1>11. SumOf(A) \in Nat /\ SumOf(B) \in Nat
  BY <1>1, <1>7, <1>8, SumNat
<1>12. SumOf(U) = SumOf(A) + SumOf(B)
  <2>1. \A s \in S : A[s] \in Nat /\ B[s] \in Nat /\ U[s] = A[s] + B[s]
    BY <1>7
  <2> QED BY <1>1, <1>8, <2>1, SumPlus
<1>13. after.costs = rate * SumOf(U)
  <2>1. CostOf(sale, rate) = rate * SumOf(A) /\ CostOf(purchase, rate) = rate * SumOf(B)
    BY <1>1, <1>10, <1>11, WholeCost
  <2> QED BY <1>1, <1>5, <1>11, <1>12, <2>1
<1>14. \A s \in S : U[s] \in Nat
  BY <1>7
<1>15. SumOf(turnover) = 100 * SumOf(U)
  BY <1>1, <1>7, <1>8, <1>14, SumTimes
<1>16. after.costs = (rate * SumOf(turnover)) \div 100
  <2> DEFINE u == SumOf(U)
  <2> DEFINE r == rate * u
  <2>1. u \in Nat
    BY <1>1, <1>8, <1>14, SumNat
  <2>2. r \in Nat /\ rate * (100 * u) = 100 * r
    <3> HIDE DEF u
    <3> QED BY <1>1, <2>1
  <2> HIDE DEF r
  <2>3. (100 * r) \div 100 = r
    BY <2>2
  <2> QED BY <1>13, <1>15, <2>2, <2>3 DEF r
<1>17. after.costs = SumOf(OneByOne(S, turnover, rate))
  <2> DEFINE C == OneByOne(S, turnover, rate)
  <2>1. \A s \in S : C[s] = rate * U[s]
    BY <1>1, <1>7, <1>14, WholeCost DEF OneByOne
  <2>2. DOMAIN C = S
    BY DEF OneByOne
  <2> HIDE DEF C
  <2>3. SumOf(C) = rate * SumOf(U)
    BY <1>1, <1>8, <1>14, <2>1, <2>2, SumTimes
  <2> QED BY <1>13, <2>3 DEF C
<1> QED BY <1>16, <1>17 DEF turnover, after

(* A rebalance is a trade of the abstract ledger, at any quotes that agree *)
(* with the prices of what is held and of what is targeted.                *)
LEMMA RebalanceTrades ==
    ASSUME NEW S, NEW held, NEW cash, NEW prices, NEW targets, NEW rate,
           Tradable(S, held, cash, prices, targets, rate),
           Round(Needed(held, targets), prices),
           NEW quotes \in [S -> Nat],
           \A s \in Needed(held, targets) : quotes[s] = prices[s]
    PROVE  LET after == Rebalanced(held, cash, prices, targets, rate)
           IN  /\ \A s \in S : after.shares[s] # held[s] => quotes[s] > 0
               /\ after.cash + SumOf(Values(S, after.shares, quotes))
                    + (rate * SumOf(Turnover(S, held, after.shares, quotes))) \div 100
                    = cash + SumOf(Values(S, held, quotes))
<1> DEFINE N == Needed(held, targets)
<1> DEFINE after == Rebalanced(held, cash, prices, targets, rate)
<1>1. /\ IsFiniteSet(S) /\ held \in [S -> Nat] /\ prices \in [S -> Nat] /\ rate \in 0..99
      /\ targets \in [S -> Nat] /\ cash \in Nat /\ S \in SUBSET S
      /\ \A s \in S : prices[s] \in Nat /\ quotes[s] \in Nat
  BY DEF Tradable
<1>2. /\ N \subseteq S /\ \A s \in N : prices[s] \in Nat \ {0}
      /\ \A s \in S : s \notin N => held[s] = 0 /\ targets[s] = 0
  BY OrderTypes
<1>3. /\ after.shares \in [S -> Nat] /\ after.cash \in Nat /\ after.costs \in Nat
      /\ \A s \in S : after.shares[s] > 0 => targets[s] > 0
      /\ after.cash + Worth(after.shares, prices) + after.costs = cash + Worth(held, prices)
  BY RebalanceLeaves
<1>4. after.costs = (rate * SumOf(Turnover(S, held, after.shares, prices))) \div 100
  BY CostsOfTrades
<1>5. \A s \in N : quotes[s] = prices[s]
  OBVIOUS
<1> HIDE DEF N, after
<1>6. \A s \in S : s \notin N => after.shares[s] = 0 /\ held[s] = 0
  BY <1>1, <1>2, <1>3
<1>7. \A s \in S : after.shares[s] # held[s] => quotes[s] > 0
  BY <1>2, <1>5, <1>6
<1>8. ASSUME NEW own \in [S -> Nat], \A s \in S : s \notin N => own[s] = 0
      PROVE  Worth(own, prices) = SumOf(Values(S, own, quotes))
  <2>1. Held(own) \subseteq N
    BY <1>8 DEF Held
  <2>2. [s \in Held(own) |-> own[s] * prices[s]] = [s \in Held(own) |-> own[s] * quotes[s]]
    BY <1>5, <2>1
  <2>3. Worth(own, prices) = Worth(own, quotes)
    BY <2>2 DEF Worth
  <2>4. Worth(own, quotes) = SumOf(Values(S, own, quotes))
    BY <1>1, WorthOf
  <2> QED BY <2>3, <2>4
<1>9. /\ Worth(held, prices) = SumOf(Values(S, held, quotes))
      /\ Worth(after.shares, prices) = SumOf(Values(S, after.shares, quotes))
  BY <1>1, <1>3, <1>6, <1>8
<1>10. Turnover(S, held, after.shares, prices) = Turnover(S, held, after.shares, quotes)
  <2>1. ASSUME NEW s \in S
        PROVE  prices[s] * Most(after.shares[s] - held[s], held[s] - after.shares[s])
                 = quotes[s] * Most(after.shares[s] - held[s], held[s] - after.shares[s])
    <3>1. CASE s \in N
      BY <1>5, <3>1
    <3>2. CASE s \notin N
      <4>1. Most(after.shares[s] - held[s], held[s] - after.shares[s]) = 0
        BY <1>6, <3>2 DEF Most
      <4> QED BY <1>1, <4>1
    <3> QED BY <3>1, <3>2
  <2> QED BY <2>1 DEF Turnover
<1>11. after.cash + SumOf(Values(S, after.shares, quotes))
         + (rate * SumOf(Turnover(S, held, after.shares, quotes))) \div 100
         = cash + SumOf(Values(S, held, quotes))
  <2>1. /\ Worth(held, prices) \in Nat /\ Worth(after.shares, prices) \in Nat
    BY <1>1, <1>3, WorthNat
  <2> QED BY <1>1, <1>3, <1>4, <1>9, <1>10, <2>1
<1> QED BY <1>7, <1>11 DEF after

=============================================================================
