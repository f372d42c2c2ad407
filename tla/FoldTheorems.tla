---------------------------- MODULE FoldTheorems ----------------------------
(***************************************************************************)
(* What is needed of the folds of the community modules: a least number,   *)
(* induction over the subsets of a finite set, that the recursion of a     *)
(* fold has a solution, and sums.  The fold that SumFunctionOnSet is takes *)
(* the elements in an order of its own; that the order does not matter is  *)
(* shown by induction, from the well-foundedness of the numbers.           *)
(***************************************************************************)
EXTENDS Integers, FiniteSetsExt, Functions, FiniteSetTheorems, WellFoundedInduction, TLAPS

(* Every set of numbers that is not empty has a least one.                 *)
LEMMA Least ==
  ASSUME NEW T, T \subseteq Nat, T # {}
  PROVE  \E x \in T : \A y \in T : x <= y
<1> DEFINE R == { ss \in Nat \X Nat : ss[1] < ss[2] }
<1>1. IsWellFoundedOn(R, Nat)
  BY NatLessThanWellFounded DEF OpToRel
<1>2. \A x, y \in Nat : <<y, x>> \in R <=> y < x
  OBVIOUS
<1> HIDE DEF R
<1>3. PICK x \in T : \A y \in T : ~ (<<y, x>> \in R)
  BY <1>1, WFMin
<1>4. ASSUME NEW y \in T PROVE x <= y
  <2>1. x \in Nat /\ y \in Nat /\ ~(y < x)
    BY <1>2, <1>3
  <2> QED
    BY <2>1
<1> QED
  BY <1>3, <1>4

(* Induction over the numbers, for a set of them.                          *)
LEMMA Numbers ==
  ASSUME NEW X, 0 \in X, \A n \in Nat : n \in X => n + 1 \in X
  PROVE  \A n \in Nat : n \in X
<1> DEFINE T == { n \in Nat : n \notin X }
<1>1. T = {}
  <2> SUFFICES ASSUME T # {} PROVE FALSE
    OBVIOUS
  <2>1. T \subseteq Nat
    OBVIOUS
  <2>2. PICK n \in T : \A m \in T : n <= m
    <3> HIDE DEF T
    <3> QED
      BY <2>1, Least
  <2>3. n - 1 \in Nat /\ n - 1 \notin T
    BY <2>2
  <2>4. n - 1 \in X /\ (n - 1) + 1 = n
    BY <2>3
  <2> QED
    BY <2>2, <2>3, <2>4
<1> QED
  BY <1>1

(* Induction over the subsets of a finite set.                             *)
LEMMA Subsets ==
  ASSUME NEW U, IsFiniteSet(U), NEW X, {} \in X,
         \A s \in SUBSET U : s # {} /\ (\A x \in s : s \ {x} \in X) => s \in X
  PROVE  \A s \in SUBSET U : s \in X
<1> SUFFICES ASSUME NEW s0 \in SUBSET U, s0 \notin X PROVE FALSE
  OBVIOUS
<1> DEFINE T == { Cardinality(s) : s \in { t \in SUBSET U : t \notin X } }
<1>1. \A s \in SUBSET U : IsFiniteSet(s) /\ Cardinality(s) \in Nat
  BY FS_Subset, FS_CardinalityType
<1>2. T \subseteq Nat /\ T # {}
  BY <1>1
<1>3. PICK n \in T : \A m \in T : n <= m
  BY <1>2, Least
<1>4. PICK s \in SUBSET U : s \notin X /\ Cardinality(s) = n
  BY <1>3
<1>5. s # {}
  BY <1>4
<1>6. ASSUME NEW x \in s PROVE s \ {x} \in X
  <2>1. IsFiniteSet(s) /\ Cardinality(s \ {x}) = Cardinality(s) - 1
    BY <1>1, FS_RemoveElement
  <2>2. s \ {x} \in SUBSET U /\ n \in Nat
    BY <1>2, <1>3
  <2>3. SUFFICES ASSUME s \ {x} \notin X PROVE FALSE
    OBVIOUS
  <2>4. Cardinality(s \ {x}) \in T
    BY <2>2, <2>3
  <2>5. n <= Cardinality(s \ {x})
    BY <1>3, <2>4
  <2> HIDE DEF T
  <2> QED
    BY <2>1, <2>2, <2>5, <1>4
<1> QED
  BY <1>4, <1>5, <1>6

(* The element that c takes of a set, what F[x] makes of a value v, and    *)
(* the equation of the fold.                                               *)
Chooses(S, c) == \A T \in SUBSET S : T # {} => c[T] \in T

Closed(S, V, F) == \A x \in S : \A v \in V : F[x][v] \in V

Folded(S, base, c, F, g) ==
  \A T \in SUBSET S : g[T] = IF T = {} THEN base ELSE F[c[T]][g[T \ {c[T]}]]

(* A fold whose values stay in V has a solution.                           *)
LEMMA FoldExists ==
  ASSUME NEW S, IsFiniteSet(S), NEW V, NEW base \in V, NEW c, Chooses(S, c),
         NEW F, Closed(S, V, F)
  PROVE  \E g \in [SUBSET S -> V] : Folded(S, base, c, F, g)
<1> USE DEF Chooses, Closed
<1> DEFINE D(n) == { T \in SUBSET S : Cardinality(T) <= n }
           Term(T, g) == IF T = {} THEN base ELSE F[c[T]][g[T \ {c[T]}]]
           Part(n, g) == g \in [D(n) -> V] /\ \A T \in D(n) : g[T] = Term(T, g)
           N == { n \in Nat : ~ \E g : Part(n, g) }
<1>1. \A T \in SUBSET S : IsFiniteSet(T) /\ Cardinality(T) \in Nat /\ Cardinality(T) <= Cardinality(S)
  BY FS_Subset, FS_CardinalityType
<1>2. N = {}
  <2> SUFFICES ASSUME N # {} PROVE FALSE
    OBVIOUS
  <2>1. N \subseteq Nat
    OBVIOUS
  <2>2. PICK n \in N : \A m \in N : n <= m
    <3> HIDE DEF N
    <3> QED
      BY <2>1, Least
  <2>3. n \in Nat /\ ~ \E g : Part(n, g)
    BY <2>2
  <2>4. CASE n = 0
    <3> DEFINE g == [T \in D(0) |-> base]
    <3>1. D(0) = {{}}
      BY <1>1, FS_EmptySet
    <3>2. Part(0, g)
      BY <3>1
    <3> QED
      BY <2>3, <2>4, <3>2
  <2>5. CASE n # 0
    <3>1. n - 1 \in Nat /\ n - 1 \notin N
      <4> HIDE DEF N
      <4> QED
        BY <2>2, <2>3, <2>5
    <3>2. PICK g : Part(n - 1, g)
      BY <3>1
    <3> DEFINE h == [T \in D(n) |-> Term(T, g)]
    <3>3. ASSUME NEW T \in D(n), T # {}
          PROVE  h[T \ {c[T]}] = g[T \ {c[T]}] /\ g[T \ {c[T]}] \in V /\ c[T] \in S
      <4> DEFINE t == T \ {c[T]}
      <4>1. c[T] \in T
        BY <3>3
      <4>2. t \in SUBSET S /\ Cardinality(t) = Cardinality(T) - 1
        BY <1>1, <4>1, FS_RemoveElement
      <4>3. Cardinality(T) \in Nat /\ Cardinality(T) <= n
        BY <1>1
      <4>4. t \in D(n - 1) /\ t \in D(n)
        <5>1. Cardinality(t) <= n - 1 /\ Cardinality(t) <= n
          BY <4>2, <4>3, <2>3
        <5> QED
          BY <4>2, <5>1
      <4> HIDE DEF t
      <4>5. h[t] = Term(t, g)
        BY <4>4
      <4>6. g[t] = Term(t, g) /\ g[t] \in V
        BY <3>2, <4>4
      <4>7. h[t] = g[t] /\ g[t] \in V
        BY <4>5, <4>6
      <4> QED
        BY <4>1, <4>7 DEF t
    <3>4. \A T \in D(n) : Term(T, h) = Term(T, g) /\ Term(T, g) \in V
      <4> HIDE DEF h, D
      <4> QED
        BY <3>3
    <3>5. Part(n, h)
      <4> HIDE DEF D, Term
      <4> QED
        BY <3>4
    <3> QED
      BY <2>3, <3>5
  <2> QED
    BY <2>4, <2>5
<1>3. \E g : Part(Cardinality(S), g)
  <2>1. Cardinality(S) \in Nat
    BY FS_CardinalityType
  <2> QED
    BY <1>2, <2>1
<1>4. D(Cardinality(S)) = SUBSET S
  BY <1>1
<1> QED
  BY <1>3, <1>4 DEF Folded

(* A set of indices that is not empty has a last one, which Max finds.     *)
LEMMA Greatest ==
  ASSUME NEW n \in Nat, NEW T, T \subseteq 1..n, T # {}
  PROVE  Max(T) \in T /\ \A y \in T : y <= Max(T)
<1> DEFINE U == { n - y : y \in T }
<1>1. U \subseteq Nat /\ U # {}
  <2>1. \A y \in T : n - y \in Nat
    OBVIOUS
  <2>2. \E y : y \in T
    OBVIOUS
  <2> QED
    BY <2>1, <2>2
<1>2. PICK u \in U : \A v \in U : u <= v
  <2> HIDE DEF U
  <2> QED
    BY <1>1, Least
<1>3. PICK x \in T : u = n - x
  BY <1>2
<1>4. ASSUME NEW y \in T PROVE y <= x
  <2>1. n - y \in U
    OBVIOUS
  <2>2. n - x <= n - y
    BY <1>2, <1>3, <2>1
  <2>3. x \in Int /\ y \in Int
    OBVIOUS
  <2> QED
    BY <2>2, <2>3
<1>5. \E m \in T : \A y \in T : m >= y
  BY <1>4
<1>6. Max(T) \in T /\ \A y \in T : Max(T) >= y
  BY <1>5 DEF Max
<1> QED
  BY <1>6

(* Folding along 1..n, from its first number to its last.                  *)
Stepwise(n, base, F, g) ==
  /\ \A T \in SUBSET (1..n) :
       g[T] = IF T = {} THEN base ELSE F[Max(T)][g[T \ {Max(T)}]]
  /\ g[{}] = base

LEMMA StepwiseExists ==
  ASSUME NEW n \in Nat, NEW V, NEW base \in V, NEW F, Closed(1..n, V, F)
  PROVE  \E g \in [SUBSET (1..n) -> V] : Stepwise(n, base, F, g)
<1> DEFINE I == 1..n
           c == [T \in SUBSET I |-> Max(T)]
<1>1. Chooses(I, c)
  BY Greatest DEF Chooses
<1>2. IsFiniteSet(I)
  BY FS_Interval
<1>3. PICK g \in [SUBSET I -> V] : Folded(I, base, c, F, g)
  <2> HIDE DEF c, I
  <2> QED
    BY <1>1, <1>2, FoldExists DEF I
<1>4. Stepwise(n, base, F, g)
  BY <1>3 DEF Folded, Stepwise
<1> QED
  BY <1>3, <1>4

(* The last of 1..(n + 1), and what is left without it.                    *)
LEMMA LastOf ==
  ASSUME NEW n \in Nat
  PROVE  Max(1..(n + 1)) = n + 1 /\ (1..(n + 1)) \ {n + 1} = 1..n
<1> DEFINE T == 1..(n + 1)
<1>1. T # {} /\ n + 1 \in T /\ n + 1 \in Nat /\ T \subseteq 1..(n + 1)
  OBVIOUS
<1>2. Max(T) \in T /\ \A y \in T : y <= Max(T)
  <2> HIDE DEF T
  <2> QED
    BY <1>1, Greatest
<1>3. Max(T) \in Int /\ n + 1 <= Max(T) /\ Max(T) <= n + 1
  BY <1>1, <1>2
<1>4. Max(T) = n + 1
  BY <1>3
<1> QED
  BY <1>4

-----------------------------------------------------------------------------
(* Sums.                                                                   *)

(* The element the fold takes.                                             *)
Pick(s) == CHOOSE x \in s : TRUE

(* The equation by which a sum over the subsets of a set is defined.       *)
Body(f, S, g) ==
  [s \in SUBSET S |->
     IF s = {} THEN 0 ELSE f[Pick(s)] + g[s \ {Pick(s)}]]

(* There is a function that solves the equation.                           *)
LEMMA SumExists ==
  ASSUME NEW f, NEW S, IsFiniteSet(S)
  PROVE  \E g : g = Body(f, S, g)
<1> DEFINE D(n) == { s \in SUBSET S : Cardinality(s) <= n }
           Term(s, g) == IF s = {} THEN 0 ELSE f[Pick(s)] + g[s \ {Pick(s)}]
           Part(n, g) == g = [s \in D(n) |-> Term(s, g)]
           T == { n \in Nat : ~ \E g : Part(n, g) }
<1>1. \A s \in SUBSET S : IsFiniteSet(s) /\ Cardinality(s) \in Nat /\ Cardinality(s) <= Cardinality(S)
  BY FS_Subset, FS_CardinalityType
<1>2. T = {}
  <2> SUFFICES ASSUME T # {} PROVE FALSE
    OBVIOUS
  <2>1. T \subseteq Nat
    OBVIOUS
  <2>2. PICK n \in T : \A m \in T : n <= m
    <3> HIDE DEF T
    <3> QED
      BY <2>1, Least
  <2>3. n \in Nat /\ ~ \E g : Part(n, g)
    BY <2>2
  <2>4. CASE n = 0
    <3> DEFINE g == [s \in D(0) |-> 0]
    <3>1. D(0) = {{}}
      BY <1>1, FS_EmptySet
    <3>2. Part(0, g)
      BY <3>1
    <3> QED
      BY <2>3, <2>4, <3>2
  <2>5. CASE n # 0
    <3>1. n - 1 \in Nat /\ n - 1 \notin T
      <4> HIDE DEF T
      <4> QED
        BY <2>2, <2>3, <2>5
    <3>2. PICK g : Part(n - 1, g)
      BY <3>1
    <3> DEFINE h == [s \in D(n) |-> Term(s, g)]
    <3>3. ASSUME NEW s \in D(n), s # {}
          PROVE  h[s \ {Pick(s)}] = g[s \ {Pick(s)}]
      <4> DEFINE t == s \ {Pick(s)}
      <4>1. Pick(s) \in s
        BY <3>3 DEF Pick
      <4>2. t \in SUBSET S /\ Cardinality(t) = Cardinality(s) - 1
        BY <1>1, <4>1, FS_RemoveElement
      <4>3. Cardinality(s) \in Nat /\ Cardinality(s) <= n
        BY <1>1
      <4>4. t \in D(n - 1) /\ t \in D(n)
        <5>1. Cardinality(t) <= n - 1 /\ Cardinality(t) <= n
          BY <4>2, <4>3, <2>3
        <5> QED
          BY <4>2, <5>1
      <4> HIDE DEF t
      <4>5. h[t] = Term(t, g)
        BY <4>4
      <4>6. g[t] = Term(t, g)
        BY <3>2, <4>4
      <4>7. h[t] = g[t]
        BY <4>5, <4>6
      <4> QED
        BY <4>7 DEF t
    <3>4. \A s \in D(n) : Term(s, h) = Term(s, g)
      <4> HIDE DEF h, D
      <4> QED
        BY <3>3
    <3>5. Part(n, h)
      BY <3>4
    <3> QED
      BY <2>3, <3>5
  <2> QED
    BY <2>4, <2>5
<1>3. \E g : Part(Cardinality(S), g)
  <2>1. Cardinality(S) \in Nat
    BY FS_CardinalityType
  <2> QED
    BY <1>2, <2>1
<1>4. D(Cardinality(S)) = SUBSET S
  BY <1>1
<1> QED
  BY <1>3, <1>4 DEF Body

(* What a fold over a set is.                                              *)
LEMMA SumIsFold ==
  ASSUME NEW f, NEW S, IsFiniteSet(S)
  PROVE  \E g : g = Body(f, S, g) /\ SumFunctionOnSet(f, S) = g[S]
<1> DEFINE g == CHOOSE g : g = Body(f, S, g)
<1>1. g = Body(f, S, g)
  BY SumExists
<1>2. SumFunctionOnSet(f, S) = g[S]
  BY DEF SumFunctionOnSet, FoldFunctionOnSet, MapThenFoldSet, Pick, Body
<1> QED
  BY <1>1, <1>2

(* The fold over a set gives for its subsets what the folds over them do.  *)
LEMMA SumOfSubset ==
  ASSUME NEW f, NEW S, IsFiniteSet(S), NEW g, g = Body(f, S, g),
         NEW t \in SUBSET S
  PROVE  SumFunctionOnSet(f, t) = g[t]
<1>1. IsFiniteSet(t)
  BY FS_Subset
<1>2. PICK h : h = Body(f, t, h) /\ SumFunctionOnSet(f, t) = h[t]
  BY <1>1, SumIsFold
<1> DEFINE X == { s \in SUBSET t : h[s] = g[s] }
<1>3. h[{}] = 0 /\ g[{}] = 0
  BY <1>2 DEF Body
<1>4. ASSUME NEW s \in SUBSET t, s # {}, \A x \in s : s \ {x} \in X
      PROVE  s \in X
  <2>1. Pick(s) \in s
    BY <1>4 DEF Pick
  <2>2. h[s \ {Pick(s)}] = g[s \ {Pick(s)}]
    BY <1>4, <2>1
  <2>3. h[s] = f[Pick(s)] + h[s \ {Pick(s)}] /\ g[s] = f[Pick(s)] + g[s \ {Pick(s)}]
    BY <1>2, <1>4 DEF Body
  <2> QED
    BY <2>2, <2>3
<1>5. {} \in X
  BY <1>3
<1> HIDE DEF X
<1>6. t \in X
  BY <1>1, <1>4, <1>5, Subsets
<1> QED
  BY <1>2, <1>6 DEF X

(* The sum over the empty set, and what the fold does with a set that is   *)
(* not empty.                                                              *)
LEMMA SumStep ==
  ASSUME NEW f, NEW S, IsFiniteSet(S)
  PROVE  SumFunctionOnSet(f, S) =
           IF S = {} THEN 0 ELSE f[Pick(S)] + SumFunctionOnSet(f, S \ {Pick(S)})
<1>1. PICK g : g = Body(f, S, g) /\ SumFunctionOnSet(f, S) = g[S]
  BY SumIsFold
<1>2. g[S] = IF S = {} THEN 0 ELSE f[Pick(S)] + g[S \ {Pick(S)}]
  BY <1>1 DEF Body
<1>3. SumFunctionOnSet(f, S \ {Pick(S)}) = g[S \ {Pick(S)}]
  BY <1>1, SumOfSubset
<1> QED
  BY <1>1, <1>2, <1>3

(* The sum of numbers is a number, whichever of them is taken first.       *)
LEMMA SumAny ==
  ASSUME NEW f, NEW U, IsFiniteSet(U), \A x \in U : f[x] \in Int
  PROVE  \A S \in SUBSET U :
           /\ SumFunctionOnSet(f, S) \in Int
           /\ \A x \in S : SumFunctionOnSet(f, S) = f[x] + SumFunctionOnSet(f, S \ {x})
<1> DEFINE Total(S) == SumFunctionOnSet(f, S)
           AnyFirst(S) == /\ Total(S) \in Int
                      /\ \A x \in S : Total(S) = f[x] + Total(S \ {x})
           X == { S \in SUBSET U : \A t \in SUBSET S : AnyFirst(t) }
<1>1. AnyFirst({})
  <2>1. IsFiniteSet({})
    BY FS_EmptySet
  <2>2. Total({}) = 0
    BY <2>1, SumStep
  <2> QED
    BY <2>2
<1>2. ASSUME NEW S \in SUBSET U, S # {}, \A x \in S : S \ {x} \in X
      PROVE  S \in X
  <2> DEFINE c == Pick(S)
  <2>1. c \in S
    BY <1>2 DEF Pick
  <2>2. IsFiniteSet(S) /\ S \ {c} \in SUBSET U
    BY FS_Subset
  <2>3. Total(S) = f[c] + Total(S \ {c})
    BY <2>2, <1>2, SumStep
  <2> HIDE DEF c, Total
  <2>4. \A x \in S : AnyFirst(S \ {x})
    BY <1>2
  <2>5. Total(S) \in Int
    BY <2>1, <2>3, <2>4
  <2>6. ASSUME NEW x \in S PROVE Total(S) = f[x] + Total(S \ {x})
    <3>1. CASE x = c
      BY <3>1, <2>3
    <3>2. CASE x # c
      <4>1. Total(S \ {c}) = f[x] + Total((S \ {c}) \ {x})
        BY <2>1, <2>4, <3>2
      <4>2. Total(S \ {x}) = f[c] + Total((S \ {x}) \ {c})
        BY <2>1, <2>4, <3>2
      <4>3. (S \ {c}) \ {x} = (S \ {x}) \ {c}
        OBVIOUS
      <4> DEFINE r == (S \ {c}) \ {x}
      <4>4. Total(r) \in Int /\ f[x] \in Int /\ f[c] \in Int
        <5>1. r \in SUBSET (S \ {c}) /\ S \ {c} \in X
          BY <1>2, <2>1
        <5> QED
          BY <5>1, <2>1
      <4>5. Total(S) = f[c] + (f[x] + Total(r)) /\ Total(S \ {x}) = f[c] + Total(r)
        BY <2>3, <4>1, <4>2, <4>3
      <4> HIDE DEF r
      <4> QED
        BY <4>4, <4>5
    <3> QED
      BY <3>1, <3>2
  <2>7. ASSUME NEW t \in SUBSET S PROVE AnyFirst(t)
    <3>1. CASE t = S
      BY <3>1, <2>5, <2>6
    <3>2. CASE t # S
      <4>1. PICK x \in S : x \notin t
        BY <3>2
      <4>2. t \in SUBSET (S \ {x})
        BY <4>1
      <4> QED
        BY <1>2, <4>1, <4>2
    <3> QED
      BY <3>1, <3>2
  <2> QED
    BY <2>7
<1>3. {} \in X
  BY <1>1
<1> HIDE DEF X
<1>4. \A S \in SUBSET U : S \in X
  BY <1>2, <1>3, Subsets
<1> QED
  BY <1>4 DEF X

(* The sum over a set and one more element.                                *)
LEMMA SumAdd ==
  ASSUME NEW f, NEW S, IsFiniteSet(S), NEW a, a \notin S, \A x \in S \cup {a} : f[x] \in Int
  PROVE  /\ SumFunctionOnSet(f, S) \in Int
         /\ SumFunctionOnSet(f, S \cup {a}) = f[a] + SumFunctionOnSet(f, S)
<1> DEFINE U == S \cup {a}
<1>1. IsFiniteSet(U)
  BY FS_AddElement
<1>2. U \ {a} = S /\ a \in U /\ S \in SUBSET U /\ U \in SUBSET U
  OBVIOUS
<1> HIDE DEF U
<1>3. \A x \in U : f[x] \in Int
  BY DEF U
<1>4. SumFunctionOnSet(f, S) \in Int /\ SumFunctionOnSet(f, U) = f[a] + SumFunctionOnSet(f, U \ {a})
  BY <1>1, <1>2, <1>3, SumAny
<1> QED
  BY <1>2, <1>4 DEF U

(* As many names, or fewer.                                                *)
LEMMA NamesFinite ==
  ASSUME NEW U, IsFiniteSet(U), NEW h
  PROVE  IsFiniteSet({ h[x] : x \in U })
<1> DEFINE V == { h[x] : x \in U }
           k == [x \in U |-> h[x]]
<1>1. k \in Surjection(U, V)
  BY DEF Surjection
<1> HIDE DEF k, V
<1>2. IsFiniteSet(V)
  BY <1>1, FS_Surjection
<1> QED
  BY <1>2 DEF V

(* Sums of the same numbers under other names.                             *)
LEMMA SumRenamed ==
  ASSUME NEW f, NEW U, IsFiniteSet(U), \A x \in U : f[x] \in Int,
         NEW g, NEW h, \A x, y \in U : h[x] = h[y] => x = y,
         \A x \in U : g[h[x]] = f[x]
  PROVE  SumFunctionOnSet(g, { h[x] : x \in U }) = SumFunctionOnSet(f, U)
<1> DEFINE Im(S) == { h[x] : x \in S }
           X == { S \in SUBSET U : /\ IsFiniteSet(Im(S))
                                  /\ SumFunctionOnSet(g, Im(S)) = SumFunctionOnSet(f, S) }
<1>1. {} \in X
  <2>1. Im({}) = {} /\ IsFiniteSet({})
    BY FS_EmptySet
  <2>2. SumFunctionOnSet(g, {}) = 0 /\ SumFunctionOnSet(f, {}) = 0
    BY <2>1, SumStep
  <2> QED
    BY <2>1, <2>2
<1>2. ASSUME NEW S \in SUBSET U, S # {}, \A x \in S : S \ {x} \in X
      PROVE  S \in X
  <2>1. PICK a \in S : TRUE
    BY <1>2
  <2> DEFINE R == S \ {a}
             V == Im(R)
  <2>2. R \cup {a} = S /\ a \notin R /\ R \in X /\ IsFiniteSet(R)
    BY <1>2, <2>1, FS_Subset
  <2>3. Im(S) = V \cup {h[a]} /\ h[a] \notin V
    BY <2>1
  <2>4. IsFiniteSet(V) /\ SumFunctionOnSet(g, V) = SumFunctionOnSet(f, R)
    BY <2>2
  <2>5. \A y \in V \cup {h[a]} : g[y] \in Int
    BY <2>1
  <2>6. \A x \in R \cup {a} : f[x] \in Int
    BY <2>1
  <2> HIDE DEF V, R
  <2>7. SumFunctionOnSet(g, V \cup {h[a]}) = g[h[a]] + SumFunctionOnSet(g, V)
    BY <2>3, <2>4, <2>5, SumAdd
  <2>8. SumFunctionOnSet(f, R \cup {a}) = f[a] + SumFunctionOnSet(f, R)
    BY <2>2, <2>6, SumAdd
  <2>9. SumFunctionOnSet(g, Im(S)) = SumFunctionOnSet(f, S)
    BY <2>1, <2>2, <2>3, <2>4, <2>7, <2>8
  <2>10. IsFiniteSet(Im(S))
    BY <2>3, <2>4, FS_AddElement
  <2> QED
    BY <2>9, <2>10
<1> HIDE DEF X
<1>3. U \in X
  BY <1>1, <1>2, Subsets
<1> QED
  BY <1>3 DEF X

(* Sums of the same numbers.                                               *)
LEMMA SumSame ==
  ASSUME NEW f, NEW g, NEW S, IsFiniteSet(S),
         \A x \in S : f[x] \in Int, \A x \in S : g[x] = f[x]
  PROVE  SumFunctionOnSet(g, S) = SumFunctionOnSet(f, S)
<1> DEFINE h == [x \in S |-> x]
<1>1. /\ { h[x] : x \in S } = S
      /\ \A x, y \in S : h[x] = h[y] => x = y
      /\ \A x \in S : g[h[x]] = f[x]
  OBVIOUS
<1> HIDE DEF h
<1>2. SumFunctionOnSet(g, { h[x] : x \in S }) = SumFunctionOnSet(f, S)
  BY <1>1, SumRenamed
<1> QED
  BY <1>1, <1>2

(* One of the numbers changes.                                             *)
LEMMA SumChanged ==
  ASSUME NEW f, NEW g, NEW S, IsFiniteSet(S), NEW a \in S,
         \A x \in S : f[x] \in Int, g[a] \in Int, \A x \in S \ {a} : g[x] = f[x]
  PROVE  /\ SumFunctionOnSet(f, S) \in Int
         /\ SumFunctionOnSet(g, S) = SumFunctionOnSet(f, S) - f[a] + g[a]
<1> DEFINE R == S \ {a}
<1>1. S = R \cup {a} /\ a \notin R /\ IsFiniteSet(R)
  BY FS_Subset
<1>2. /\ \A x \in R \cup {a} : f[x] \in Int
      /\ \A x \in R \cup {a} : g[x] \in Int
      /\ \A x \in R : f[x] \in Int
      /\ \A x \in R : g[x] = f[x]
  OBVIOUS
<1> HIDE DEF R
<1>3. SumFunctionOnSet(g, R) = SumFunctionOnSet(f, R)
  BY <1>1, <1>2, SumSame
<1>4. SumFunctionOnSet(f, R) \in Int /\ SumFunctionOnSet(f, S) = f[a] + SumFunctionOnSet(f, R)
  BY <1>1, <1>2, SumAdd
<1>5. SumFunctionOnSet(g, S) = g[a] + SumFunctionOnSet(g, R)
  BY <1>1, <1>2, SumAdd
<1>6. f[a] \in Int /\ g[a] \in Int
  OBVIOUS
<1> QED
  BY <1>3, <1>4, <1>5, <1>6

(* Nothing adds up to nothing.                                             *)
LEMMA SumZero ==
  ASSUME NEW f, NEW U, IsFiniteSet(U), \A x \in U : f[x] = 0
  PROVE  SumFunctionOnSet(f, U) = 0
<1> DEFINE X == { S \in SUBSET U : SumFunctionOnSet(f, S) = 0 }
<1>1. ASSUME NEW S \in SUBSET U, \A x \in S : S \ {x} \in X PROVE S \in X
  <2>1. IsFiniteSet(S)
    BY FS_Subset
  <2>2. SumFunctionOnSet(f, S) =
          IF S = {} THEN 0 ELSE f[Pick(S)] + SumFunctionOnSet(f, S \ {Pick(S)})
    BY <2>1, SumStep
  <2>3. CASE S # {}
    <3>1. Pick(S) \in S
      BY <2>3 DEF Pick
    <3>2. f[Pick(S)] = 0 /\ SumFunctionOnSet(f, S \ {Pick(S)}) = 0
      BY <1>1, <3>1
    <3>3. SumFunctionOnSet(f, S) = 0 + 0
      BY <2>2, <2>3, <3>2
    <3> QED
      BY <3>3
  <2> QED
    BY <2>2, <2>3
<1>2. {} \in X
  BY <1>1
<1> HIDE DEF X
<1>3. U \in X
  BY <1>1, <1>2, Subsets
<1> QED
  BY <1>3 DEF X
=============================================================================
