--------------------------- MODULE ArithmeticProofs ---------------------------
(* What the program's pure functions compute: integer division, induction and  *)
(* sums; the arithmetic of ticks, arrays and bitmap bits; one swap step.       *)
(*                                                                             *)
(* Induction is stated with a set in place of a predicate: NatInduction of the *)
(* library takes an operator, and the provers instantiate no operators.        *)
EXTENDS TickMath, SwapMath, FiniteSetTheorems, FiniteSetsExt, TLAPS

\* A quotient and a remainder in range determine Euclidean division.
LEMMA DivUnique ==
    ASSUME NEW a \in Int, NEW d \in Nat \ {0}, NEW q \in Int, NEW r \in 0 .. d - 1,
           a = d * q + r
    PROVE  a \div d = q
<1>1. a = d * (a \div d) + (a % d) /\ a % d \in 0 .. d - 1 /\ a \div d \in Int
  OBVIOUS
<1> DEFINE p == a \div d
           m == a % d
<1>2. d * (q - p) = m - r
  <2>1. d * q + r = d * p + m
    BY <1>1
  <2>2. d * (q - p) = d * q - d * p
    BY <1>1
  <2> QED
    BY <2>1, <2>2, <1>1
<1> HIDE DEF p, m
<1>3. p \in Int /\ m \in 0 .. d - 1
  BY <1>1 DEF p, m
<1>4. CASE q - p >= 1
  <2>1. d * (q - p) >= d
    BY <1>3, <1>4
  <2> QED
    BY <2>1, <1>2, <1>3
<1>5. CASE q - p <= -1
  <2>1. d * (q - p) <= -d
    BY <1>3, <1>5
  <2> QED
    BY <2>1, <1>2, <1>3
<1>6. CASE q - p = 0
  BY <1>6, <1>3 DEF p
<1> QED
  BY <1>3, <1>4, <1>5, <1>6

\* Floor division does not decrease.
LEMMA DivMonotone ==
    ASSUME NEW a \in Int, NEW b \in Int, a <= b, NEW d \in Nat \ {0}
    PROVE  a \div d <= b \div d
<1> DEFINE p == a \div d
           q == b \div d
<1>1. /\ p \in Int /\ a % d \in 0 .. d - 1 /\ a = d * p + (a % d)
      /\ q \in Int /\ b % d \in 0 .. d - 1 /\ b = d * q + (b % d)
  OBVIOUS
<1> HIDE DEF p, q
<1>2. ASSUME p >= q + 1 PROVE FALSE
  <2>1. d * p >= d * (q + 1) /\ d * (q + 1) = d * q + d
    BY <1>1, <1>2
  <2> QED
    BY <2>1, <1>1
<1>3. p <= q
  BY <1>1, <1>2
<1> QED
  BY <1>3 DEF p, q

\* A quotient brackets its dividend.
LEMMA DivBounds ==
    ASSUME NEW a \in Int, NEW d \in Nat \ {0}
    PROVE  /\ a \div d \in Int
           /\ d * (a \div d) \in Int
           /\ d * (a \div d) <= a
           /\ a < d * (a \div d) + d
<1>1. a = d * (a \div d) + (a % d) /\ a % d \in 0 .. d - 1 /\ a \div d \in Int
  OBVIOUS
<1> QED
  BY <1>1

\* The quotient of a natural number is one, and no larger than the number.
LEMMA DivNat ==
    ASSUME NEW a \in Nat, NEW d \in Nat \ {0}
    PROVE  a \div d \in Nat /\ a \div d <= a
<1> DEFINE q == a \div d
<1>1. q \in Int /\ d * q \in Int /\ d * q <= a /\ a < d * q + d
  BY DivBounds
<1> HIDE DEF q
<1>2. q >= 0
  <2>1. ASSUME q <= -1 PROVE FALSE
    <3>1. d * q <= -d
      BY <1>1, <2>1
    <3> QED
      BY <3>1, <1>1
  <2> QED
    BY <2>1, <1>1
<1>3. d * q >= q
  BY <1>1, <1>2
<1> QED
  BY <1>1, <1>2, <1>3 DEF q

\* A bound on the dividend is a bound on the quotient.
LEMMA DivUpper ==
    ASSUME NEW a \in Int, NEW d \in Nat \ {0}, NEW m \in Int, a < d * m
    PROVE  a \div d < m
<1> DEFINE q == a \div d
<1>1. q \in Int /\ d * q \in Int /\ d * q <= a
  BY DivBounds
<1> HIDE DEF q
<1>2. ASSUME q >= m PROVE FALSE
  <2>1. d * q >= d * m
    BY <1>1, <1>2
  <2> QED
    BY <2>1, <1>1
<1> QED
  BY <1>1, <1>2 DEF q

LEMMA DivLower ==
    ASSUME NEW a \in Int, NEW d \in Nat \ {0}, NEW m \in Int, d * m <= a
    PROVE  m <= a \div d
<1> DEFINE q == a \div d
<1>1. q \in Int /\ d * q \in Int /\ a < d * q + d
  BY DivBounds
<1> HIDE DEF q
<1>2. ASSUME q <= m - 1 PROVE FALSE
  <2>1. d * q <= d * (m - 1) /\ d * (m - 1) = d * m - d
    BY <1>1, <1>2
  <2> QED
    BY <2>1, <1>1
<1> QED
  BY <1>1, <1>2 DEF q

\* Multiples, and their order.
LEMMA MultipleMod ==
    ASSUME NEW a \in Int, NEW d \in Nat \ {0}
    PROVE  a % d = 0 <=> \E m \in Int : a = d * m
<1>1. a = d * (a \div d) + (a % d) /\ a % d \in 0 .. d - 1 /\ a \div d \in Int
  OBVIOUS
<1>2. ASSUME a % d = 0 PROVE a = d * (a \div d)
  <2> DEFINE q == a \div d
  <2> HIDE DEF q
  <2>1. d * q \in Int
    BY <1>1 DEF q
  <2> QED
    BY <1>1, <1>2, <2>1 DEF q
<1>3. ASSUME NEW m \in Int, a = d * m PROVE a % d = 0
  <2>1. a = d * m + 0 /\ 0 \in 0 .. d - 1 /\ d * m \in Int
    BY <1>3
  <2>2. a \div d = m
    BY <2>1, DivUnique
  <2> DEFINE r == a % d
  <2> HIDE DEF r
  <2>3. a = d * m + r /\ r \in Int
    BY <1>1, <2>2 DEF r
  <2> QED
    BY <2>1, <2>3 DEF r
<1> QED
  BY <1>1, <1>2, <1>3

LEMMA MultiplesOrder ==
    ASSUME NEW d \in Nat \ {0}, NEW k \in Int, NEW g \in Int
    PROVE  /\ k * d \in Int /\ k * (-d) = -(k * d)
           /\ k <= g <=> k * d <= g * d
           /\ k < g <=> k * d < g * d
<1>1. k * d \in Int /\ k * (-d) = -(k * d)
  OBVIOUS
<1>2. ASSUME NEW a \in Int, NEW b \in Int, a < b PROVE a * d < b * d
  BY <1>2
<1>3. k < g \/ k = g \/ g < k
  OBVIOUS
<1>4. g * d \in Int
  OBVIOUS
<1> QED
  BY <1>1, <1>2, <1>3, <1>4

LEMMA FactorsInOrder ==
    ASSUME NEW d \in Nat \ {0}, NEW k \in Int, NEW g \in Int
    PROVE  /\ k <= g <=> d * k <= d * g
           /\ k + 1 <= g <=> d * k < d * g
<1>1. d * k = k * d /\ d * g = g * d
  OBVIOUS
<1>2. k + 1 <= g <=> k < g
  OBVIOUS
<1> QED
  BY <1>1, <1>2, MultiplesOrder

-------------------------------------------------------------------------------
\* A set of natural numbers has a least element.
LEMMA LeastNatural ==
    ASSUME NEW S \in SUBSET Nat, S # {}
    PROVE  \E m \in S : \A n \in S : m <= n
<1> DEFINE R == OpToRel(<, Nat)
<1>1. IsWellFoundedOn(R, Nat)
  BY NatLessThanWellFounded
<1>2. \A a, b \in Nat : a < b => <<a, b>> \in R
  BY DEF OpToRel
<1> HIDE DEF R
<1>3. S \subseteq Nat
  OBVIOUS
<1>4. PICK m \in S : \A n \in S : ~(<<n, m>> \in R)
  BY <1>1, <1>3, WFMin
<1>5. ASSUME NEW n \in S PROVE m <= n
  <2>1. ~(n < m)
    BY <1>2, <1>3, <1>4
  <2> QED
    BY <2>1, <1>3
<1> QED
  BY <1>5

\* A set of natural numbers with 0 and every successor is all of them.
LEMMA SetInduction ==
    ASSUME NEW S \in SUBSET Nat, 0 \in S, \A n \in S : n + 1 \in S
    PROVE  S = Nat
<1> SUFFICES ASSUME Nat \ S # {} PROVE FALSE
  OBVIOUS
<1>1. PICK m \in Nat \ S : \A n \in Nat \ S : m <= n
  BY LeastNatural
<1>2. m # 0 /\ m - 1 \in Nat
  BY <1>1
<1>3. m - 1 \in S
  BY <1>1, <1>2
<1>4. (m - 1) + 1 \in S
  BY <1>3
<1> QED
  BY <1>1, <1>4

-------------------------------------------------------------------------------
(* Sums over finite sets.  SumFunctionOnSet is a fold, which takes the members *)
(* in the order CHOOSE gives them; these lemmas let a proof take them in any.  *)
Pick(T) == CHOOSE x \in T : TRUE

IsSum(f, S, g) ==
    g = [T \in SUBSET S |-> IF T = {} THEN 0 ELSE f[Pick(T)] + g[T \ {Pick(T)}]]

LEMMA SumUnfolds ==
    ASSUME NEW S, NEW f
    PROVE  SumFunctionOnSet(f, S) = (CHOOSE g : IsSum(f, S, g))[S]
BY DEF SumFunctionOnSet, FoldFunctionOnSet, MapThenFoldSet, IsSum, Pick

LEMMA PickShrinks ==
    ASSUME NEW S, IsFiniteSet(S), NEW T \in SUBSET S, T # {}
    PROVE  /\ Pick(T) \in T
           /\ T \ {Pick(T)} \in SUBSET S
           /\ Cardinality(T) \in Nat \ {0}
           /\ Cardinality(T \ {Pick(T)}) = Cardinality(T) - 1
<1>1. Pick(T) \in T
  BY DEF Pick
<1>2. IsFiniteSet(T)
  BY FS_Subset
<1>3. Cardinality(T \ {Pick(T)}) = Cardinality(T) - 1
  BY <1>1, <1>2, FS_RemoveElement
<1>4. Cardinality(T) \in Nat /\ Cardinality(T) # 0
  BY <1>2, FS_CardinalityType, FS_EmptySet
<1> QED
  BY <1>1, <1>3, <1>4

\* The recursive function exists.
LEMMA SumExists ==
    ASSUME NEW S, IsFiniteSet(S), NEW f
    PROVE  \E g : IsSum(f, S, g)
<1> DEFINE Value(g, T) == IF T = {} THEN 0 ELSE f[Pick(T)] + g[T \ {Pick(T)}]
           D == {n \in Nat : \E g : \A T \in SUBSET S :
                                Cardinality(T) <= n => g[T] = Value(g, T)}
<1>1. 0 \in D
  <2> DEFINE g0 == [T \in SUBSET S |-> 0]
  <2>1. ASSUME NEW T \in SUBSET S, Cardinality(T) <= 0 PROVE T = {}
    <3>1. T # {} => Cardinality(T) \in Nat \ {0}
      BY PickShrinks
    <3> QED
      BY <2>1, <3>1
  <2>2. \A T \in SUBSET S : Cardinality(T) <= 0 => g0[T] = Value(g0, T)
    BY <2>1
  <2> QED
    BY <2>2
<1>2. ASSUME NEW n \in D PROVE n + 1 \in D
  <2>1. n \in Nat /\ n + 1 \in Nat
    OBVIOUS
  <2>2. PICK g : \A T \in SUBSET S : Cardinality(T) <= n => g[T] = Value(g, T)
    OBVIOUS
  <2> DEFINE h == [T \in SUBSET S |-> Value(g, T)]
  <2>3. ASSUME NEW T \in SUBSET S, Cardinality(T) <= n + 1 PROVE h[T] = Value(h, T)
    <3>1. CASE T = {}
      BY <3>1
    <3>2. CASE T # {}
      <4>1. /\ T \ {Pick(T)} \in SUBSET S
            /\ Cardinality(T \ {Pick(T)}) <= n
        BY <2>1, <2>3, <3>2, PickShrinks
      <4> DEFINE U == T \ {Pick(T)}
      <4>2. g[U] = Value(g, U) /\ h[U] = Value(g, U)
        BY <2>2, <4>1
      <4> HIDE DEF U
      <4> QED
        BY <3>2, <4>2 DEF U
    <3> QED
      BY <3>1, <3>2
  <2> QED
    BY <2>1, <2>3
<1>3. D = Nat
  <2> HIDE DEF D
  <2> QED
    BY <1>1, <1>2, SetInduction DEF D
<1>4. Cardinality(S) \in Nat /\ \A T \in SUBSET S : Cardinality(T) <= Cardinality(S)
  BY FS_CardinalityType, FS_Subset
<1>5. PICK g : \A T \in SUBSET S : g[T] = Value(g, T)
  BY <1>3, <1>4
<1> DEFINE h == [T \in SUBSET S |-> g[T]]
<1>6. ASSUME NEW T \in SUBSET S PROVE g[T] = Value(h, T)
  <2>1. T # {} => T \ {Pick(T)} \in SUBSET S
    OBVIOUS
  <2> QED
    BY <2>1, <1>5
<1>7. IsSum(f, S, h)
  BY <1>6 DEF IsSum
<1> QED
  BY <1>7
\* It is the same function whichever set it is computed over.
LEMMA SumsAgree ==
    ASSUME NEW S, IsFiniteSet(S), NEW U \in SUBSET S, NEW f, NEW g, NEW h,
           IsSum(f, S, g), IsSum(f, U, h)
    PROVE  \A T \in SUBSET U : g[T] = h[T]
<1> DEFINE D == {n \in Nat : \A T \in SUBSET U : Cardinality(T) <= n => g[T] = h[T]}
<1>0. IsFiniteSet(U)
  BY FS_Subset
<1>1. ASSUME NEW T \in SUBSET U, T # {}
      PROVE  /\ g[T] = f[Pick(T)] + g[T \ {Pick(T)}]
             /\ h[T] = f[Pick(T)] + h[T \ {Pick(T)}]
             /\ T \ {Pick(T)} \in SUBSET U
             /\ Cardinality(T) \in Nat \ {0}
             /\ Cardinality(T \ {Pick(T)}) = Cardinality(T) - 1
  <2>1. T \in SUBSET S
    OBVIOUS
  <2>2. /\ g[T] = f[Pick(T)] + g[T \ {Pick(T)}]
        /\ h[T] = f[Pick(T)] + h[T \ {Pick(T)}]
    BY <2>1, <1>1 DEF IsSum
  <2> QED
    BY <1>0, <1>1, <2>2, PickShrinks
<1>2. g[{}] = 0 /\ h[{}] = 0
  BY DEF IsSum
<1>3. 0 \in D
  <2> SUFFICES ASSUME NEW T \in SUBSET U, Cardinality(T) <= 0 PROVE g[T] = h[T]
    OBVIOUS
  <2>1. T # {} => Cardinality(T) \in Nat \ {0}
    BY <1>1
  <2> QED
    BY <2>1, <1>2
<1>4. ASSUME NEW n \in D PROVE n + 1 \in D
  <2>0. n \in Nat /\ n + 1 \in Nat
    OBVIOUS
  <2> SUFFICES ASSUME NEW T \in SUBSET U, Cardinality(T) <= n + 1, T # {} PROVE g[T] = h[T]
    BY <1>2, <2>0
  <2> DEFINE V == T \ {Pick(T)}
  <2>1. V \in SUBSET U /\ Cardinality(V) <= n
    BY <1>1, <2>0
  <2>2. g[V] = h[V]
    BY <2>1, <1>4
  <2> HIDE DEF V
  <2> QED
    BY <2>2, <1>1 DEF V
<1>5. D = Nat
  <2> HIDE DEF D
  <2> QED
    BY <1>3, <1>4, SetInduction DEF D
<1>6. ASSUME NEW T \in SUBSET U PROVE g[T] = h[T]
  <2>1. Cardinality(T) \in D
    BY <1>0, <1>5, FS_Subset, FS_CardinalityType
  <2> QED
    BY <2>1
<1> QED
  BY <1>6

LEMMA SumOfPick ==
    ASSUME NEW S, IsFiniteSet(S), NEW f
    PROVE  /\ S = {} => SumFunctionOnSet(f, S) = 0
           /\ S # {} => SumFunctionOnSet(f, S)
                          = f[Pick(S)] + SumFunctionOnSet(f, S \ {Pick(S)})
<1> DEFINE U == S \ {Pick(S)}
<1>1. U \in SUBSET S /\ IsFiniteSet(U)
  BY FS_Subset
<1> HIDE DEF U
<1> DEFINE g == CHOOSE g : IsSum(f, S, g)
           h == CHOOSE h : IsSum(f, U, h)
<1>2. IsSum(f, S, g) /\ IsSum(f, U, h)
  BY <1>1, SumExists
<1>3. SumFunctionOnSet(f, S) = g[S] /\ SumFunctionOnSet(f, U) = h[U]
  BY SumUnfolds
<1> HIDE DEF g, h
<1>4. g[U] = h[U]
  BY <1>1, <1>2, SumsAgree
<1>5. g[S] = IF S = {} THEN 0 ELSE f[Pick(S)] + g[S \ {Pick(S)}]
  BY <1>2 DEF IsSum
<1> QED
  BY <1>3, <1>4, <1>5 DEF U

LEMMA SumType ==
    ASSUME NEW S, IsFiniteSet(S), NEW f, \A x \in S : f[x] \in Int
    PROVE  SumFunctionOnSet(f, S) \in Int
<1> DEFINE D == {n \in Nat : \A T \in SUBSET S :
                    Cardinality(T) = n => SumFunctionOnSet(f, T) \in Int}
<1>1. ASSUME NEW T \in SUBSET S PROVE IsFiniteSet(T) /\ Cardinality(T) \in Nat
  BY FS_Subset, FS_CardinalityType
<1>2. 0 \in D
  <2> SUFFICES ASSUME NEW T \in SUBSET S, Cardinality(T) = 0
               PROVE  SumFunctionOnSet(f, T) = 0
    OBVIOUS
  <2>1. T = {}
    BY <1>1, FS_EmptySet
  <2> QED
    BY <2>1, <1>1, SumOfPick
<1>3. ASSUME NEW n \in D PROVE n + 1 \in D
  <2>0. n \in Nat /\ n + 1 \in Nat
    OBVIOUS
  <2> SUFFICES ASSUME NEW T \in SUBSET S, Cardinality(T) = n + 1
               PROVE  SumFunctionOnSet(f, T) \in Int
    BY <2>0
  <2>1. T # {}
    BY <2>0, FS_EmptySet
  <2>2. SumFunctionOnSet(f, T) = f[Pick(T)] + SumFunctionOnSet(f, T \ {Pick(T)})
    BY <1>1, <2>1, SumOfPick
  <2>3. /\ Pick(T) \in T
        /\ T \ {Pick(T)} \in SUBSET S
        /\ Cardinality(T \ {Pick(T)}) = n
    BY <2>0, <2>1, PickShrinks
  <2>4. SumFunctionOnSet(f, T \ {Pick(T)}) \in Int
    BY <2>3, <1>3
  <2> QED
    BY <2>2, <2>3, <2>4
<1>4. D = Nat
  <2> HIDE DEF D
  <2> QED
    BY <1>2, <1>3, SetInduction DEF D
<1> QED
  BY <1>1, <1>4

\* Any member may be taken out first.
LEMMA SumRemove ==
    ASSUME NEW S, IsFiniteSet(S), NEW f, \A x \in S : f[x] \in Int, NEW x \in S
    PROVE  SumFunctionOnSet(f, S) = f[x] + SumFunctionOnSet(f, S \ {x})
<1> DEFINE Sum(T) == SumFunctionOnSet(f, T)
           D == {n \in Nat : \A T \in SUBSET S : \A y \in T :
                    Cardinality(T) = n => Sum(T) = f[y] + Sum(T \ {y})}
<1>1. ASSUME NEW T \in SUBSET S
      PROVE  IsFiniteSet(T) /\ Cardinality(T) \in Nat /\ Sum(T) \in Int
  BY FS_Subset, FS_CardinalityType, SumType
<1>2. 0 \in D
  BY <1>1, FS_EmptySet
<1>3. ASSUME NEW n \in D PROVE n + 1 \in D
  <2>0. n \in Nat /\ n + 1 \in Nat
    OBVIOUS
  <2> SUFFICES ASSUME NEW T \in SUBSET S, NEW y \in T, Cardinality(T) = n + 1
               PROVE  Sum(T) = f[y] + Sum(T \ {y})
    BY <2>0
  <2> DEFINE p == Pick(T)
  <2>1. p \in T
    BY PickShrinks
  <2>2. Sum(T) = f[p] + Sum(T \ {p})
    BY <1>1, SumOfPick
  <2> HIDE DEF p
  <2>3. CASE y = p
    BY <2>2, <2>3
  <2>4. CASE y # p
    <3>1. /\ T \ {p} \in SUBSET S /\ T \ {y} \in SUBSET S
          /\ y \in T \ {p} /\ p \in T \ {y}
          /\ (T \ {p}) \ {y} = (T \ {y}) \ {p}
          /\ (T \ {p}) \ {y} \in SUBSET S
      BY <2>1, <2>4
    <3>2. Cardinality(T \ {p}) = n /\ Cardinality(T \ {y}) = n
      <4>1. IsFiniteSet(T)
        BY <1>1
      <4>2. Cardinality(T \ {p}) = Cardinality(T) - 1 /\ Cardinality(T \ {y}) = Cardinality(T) - 1
        BY <4>1, <2>1, FS_RemoveElement
      <4> QED
        BY <4>2, <2>0
    <3>3. Sum(T \ {p}) = f[y] + Sum((T \ {p}) \ {y})
      BY <1>3, <3>1, <3>2
    <3>4. Sum(T \ {y}) = f[p] + Sum((T \ {p}) \ {y})
      BY <1>3, <3>1, <3>2
    <3>5. Sum((T \ {p}) \ {y}) \in Int
      BY <1>1, <3>1
    <3> HIDE DEF Sum
    <3> QED
      BY <2>1, <2>2, <3>3, <3>4, <3>5
  <2> QED
    BY <2>3, <2>4
<1>4. D = Nat
  <2> HIDE DEF D
  <2> QED
    BY <1>2, <1>3, SetInduction DEF D
<1> QED
  BY <1>1, <1>4

LEMMA SumAdd ==
    ASSUME NEW S, IsFiniteSet(S), NEW x, x \notin S, NEW f, \A y \in S \cup {x} : f[y] \in Int
    PROVE  SumFunctionOnSet(f, S \cup {x}) = SumFunctionOnSet(f, S) + f[x]
<1> DEFINE T == S \cup {x}
<1>1. IsFiniteSet(T) /\ x \in T /\ T \ {x} = S /\ \A y \in T : f[y] \in Int
  BY FS_AddElement
<1>2. SumFunctionOnSet(f, T) = f[x] + SumFunctionOnSet(f, S)
  BY <1>1, SumRemove
<1> QED
  BY <1>1, <1>2, SumType

LEMMA SumEmpty ==
    ASSUME NEW f
    PROVE  SumFunctionOnSet(f, {}) = 0
BY FS_EmptySet, SumOfPick

\* What holds of the empty set, and of a set with one more member when it holds of
\* the set, holds of every part of a finite set.
LEMMA PartsInduction ==
    ASSUME NEW S, IsFiniteSet(S), NEW D, {} \in D,
           \A T \in SUBSET S : \A x \in S \ T : T \in D => T \cup {x} \in D
    PROVE  SUBSET S \subseteq D
<1> DEFINE N == {n \in Nat : \A T \in SUBSET S : Cardinality(T) = n => T \in D}
<1>1. ASSUME NEW T \in SUBSET S PROVE IsFiniteSet(T) /\ Cardinality(T) \in Nat
  BY FS_Subset, FS_CardinalityType
<1>2. 0 \in N
  BY <1>1, FS_EmptySet
<1>3. ASSUME NEW n \in N PROVE n + 1 \in N
  <2>0. n \in Nat /\ n + 1 \in Nat
    OBVIOUS
  <2> SUFFICES ASSUME NEW T \in SUBSET S, Cardinality(T) = n + 1 PROVE T \in D
    BY <2>0
  <2>1. T # {}
    BY <2>0, FS_EmptySet
  <2>2. PICK x \in T : TRUE
    BY <2>1
  <2> DEFINE U == T \ {x}
  <2>3. IsFiniteSet(T)
    BY <1>1
  <2>4. Cardinality(U) = Cardinality(T) - 1
    BY <2>2, <2>3, FS_RemoveElement
  <2>5. U \in SUBSET S /\ x \in S \ U /\ U \cup {x} = T /\ Cardinality(U) = n
    BY <2>0, <2>2, <2>4
  <2> HIDE DEF U
  <2> QED
    BY <1>3, <2>5
<1>4. N = Nat
  <2> HIDE DEF N
  <2> QED
    BY <1>2, <1>3, SetInduction DEF N
<1> QED
  BY <1>1, <1>4

\* Only the values on the set count.
LEMMA SumCongruence ==
    ASSUME NEW S, IsFiniteSet(S), NEW f, NEW g, \A x \in S : f[x] \in Int /\ g[x] = f[x]
    PROVE  SumFunctionOnSet(g, S) = SumFunctionOnSet(f, S)
<1> DEFINE D == {T \in SUBSET S : SumFunctionOnSet(g, T) = SumFunctionOnSet(f, T)}
<1>1. {} \in D
  BY SumEmpty
<1>2. ASSUME NEW T \in SUBSET S, NEW x \in S \ T, T \in D PROVE T \cup {x} \in D
  <2>1. /\ SumFunctionOnSet(f, T \cup {x}) = SumFunctionOnSet(f, T) + f[x]
        /\ SumFunctionOnSet(g, T \cup {x}) = SumFunctionOnSet(g, T) + g[x]
    BY FS_Subset, SumAdd
  <2> QED
    BY <2>1, <1>2
<1>3. SUBSET S \subseteq D
  <2> HIDE DEF D
  <2> QED
    BY <1>1, <1>2, PartsInduction
<1> QED
  BY <1>3

\* One value changes, and the sum by as much.
LEMMA SumUpdate ==
    ASSUME NEW S, IsFiniteSet(S), NEW f, NEW g, \A y \in S : f[y] \in Int /\ g[y] \in Int,
           NEW x \in S, \A y \in S \ {x} : g[y] = f[y]
    PROVE  SumFunctionOnSet(g, S) = SumFunctionOnSet(f, S) - f[x] + g[x]
<1> DEFINE F == SumFunctionOnSet(f, S \ {x})
           G == SumFunctionOnSet(g, S \ {x})
<1>1. IsFiniteSet(S \ {x})
  BY FS_Subset
<1>2. F = G /\ F \in Int
  BY <1>1, SumCongruence, SumType
<1>3. SumFunctionOnSet(f, S) = f[x] + F /\ SumFunctionOnSet(g, S) = g[x] + G
  BY SumRemove
<1> HIDE DEF F, G
<1> QED
  BY <1>2, <1>3

\* Equal values make a product.
LEMMA SumConstant ==
    ASSUME NEW S, IsFiniteSet(S), NEW f, NEW c \in Int, \A x \in S : f[x] = c
    PROVE  SumFunctionOnSet(f, S) = Cardinality(S) * c
<1> DEFINE D == {T \in SUBSET S : SumFunctionOnSet(f, T) = Cardinality(T) * c}
<1>1. {} \in D
  BY SumEmpty, FS_EmptySet
<1>2. ASSUME NEW T \in SUBSET S, NEW x \in S \ T, T \in D PROVE T \cup {x} \in D
  <2>1. IsFiniteSet(T)
    BY FS_Subset
  <2>2. SumFunctionOnSet(f, T \cup {x}) = SumFunctionOnSet(f, T) + c
    <3>1. x \notin T /\ f[x] = c /\ \A y \in T \cup {x} : f[y] \in Int
      OBVIOUS
    <3>2. SumFunctionOnSet(f, T \cup {x}) = SumFunctionOnSet(f, T) + f[x]
      BY <2>1, <3>1, SumAdd
    <3> QED
      BY <3>1, <3>2
  <2>3. Cardinality(T \cup {x}) = Cardinality(T) + 1 /\ Cardinality(T) \in Nat
    BY <2>1, FS_AddElement, FS_CardinalityType
  <2>4. (Cardinality(T) + 1) * c = Cardinality(T) * c + c
    BY <2>3
  <2> QED
    BY <1>2, <2>2, <2>3, <2>4
<1>3. SUBSET S \subseteq D
  <2> HIDE DEF D
  <2> QED
    BY <1>1, <1>2, PartsInduction
<1> QED
  BY <1>3

\* Bounded natural numbers have a bounded sum.
LEMMA SumBound ==
    ASSUME NEW S, IsFiniteSet(S), NEW f, NEW b \in Nat, \A x \in S : f[x] \in 0 .. b
    PROVE  SumFunctionOnSet(f, S) \in 0 .. Cardinality(S) * b
<1> DEFINE D == {T \in SUBSET S : SumFunctionOnSet(f, T) \in 0 .. Cardinality(T) * b}
<1>1. {} \in D
  BY SumEmpty, FS_EmptySet
<1>2. ASSUME NEW T \in SUBSET S, NEW x \in S \ T, T \in D PROVE T \cup {x} \in D
  <2>1. IsFiniteSet(T)
    BY FS_Subset
  <2>2. SumFunctionOnSet(f, T \cup {x}) = SumFunctionOnSet(f, T) + f[x] /\ f[x] \in 0 .. b
    BY <2>1, SumAdd
  <2>3. Cardinality(T \cup {x}) = Cardinality(T) + 1 /\ Cardinality(T) \in Nat
    BY <2>1, FS_AddElement, FS_CardinalityType
  <2>4. (Cardinality(T) + 1) * b = Cardinality(T) * b + b /\ Cardinality(T) * b \in Nat
    BY <2>3
  <2> QED
    BY <1>2, <2>2, <2>3, <2>4
<1>3. SUBSET S \subseteq D
  <2> HIDE DEF D
  <2> QED
    BY <1>1, <1>2, PartsInduction
<1> QED
  BY <1>3

LEMMA SumNat ==
    ASSUME NEW S, IsFiniteSet(S), NEW f, \A x \in S : f[x] \in Nat
    PROVE  SumFunctionOnSet(f, S) \in Nat
<1> DEFINE D == {T \in SUBSET S : SumFunctionOnSet(f, T) \in Nat}
<1>1. {} \in D
  BY SumEmpty
<1>2. ASSUME NEW T \in SUBSET S, NEW x \in S \ T, T \in D PROVE T \cup {x} \in D
  <2>1. SumFunctionOnSet(f, T \cup {x}) = SumFunctionOnSet(f, T) + f[x] /\ f[x] \in Nat
    BY FS_Subset, SumAdd
  <2> QED
    BY <1>2, <2>1
<1>3. SUBSET S \subseteq D
  <2> HIDE DEF D
  <2> QED
    BY <1>1, <1>2, PartsInduction
<1> QED
  BY <1>3

\* Of natural numbers, no one is more than the sum.
LEMMA SumAtLeast ==
    ASSUME NEW S, IsFiniteSet(S), NEW f, \A y \in S : f[y] \in Nat, NEW x \in S
    PROVE  f[x] <= SumFunctionOnSet(f, S)
<1>1. SumFunctionOnSet(f, S) = f[x] + SumFunctionOnSet(f, S \ {x})
  BY SumRemove
<1>2. SumFunctionOnSet(f, S \ {x}) \in Nat
  BY FS_Subset, SumNat
<1> QED
  BY <1>1, <1>2

\* A sum over a part is one over the whole, of what is nothing outside the part.
LEMMA SumFilter ==
    ASSUME NEW S, IsFiniteSet(S), NEW U \in SUBSET S, NEW f, \A x \in U : f[x] \in Int,
           NEW g, \A x \in S : g[x] = IF x \in U THEN f[x] ELSE 0
    PROVE  SumFunctionOnSet(g, S) = SumFunctionOnSet(f, U)
<1> DEFINE R == S \ U
           D == {T \in SUBSET R : SumFunctionOnSet(g, U \cup T) = SumFunctionOnSet(f, U)}
<1>0. IsFiniteSet(U) /\ IsFiniteSet(R) /\ SumFunctionOnSet(f, U) \in Int
  BY FS_Subset, SumType
<1>1. {} \in D
  <2>1. SumFunctionOnSet(g, U) = SumFunctionOnSet(f, U)
    BY <1>0, SumCongruence
  <2>2. U \cup {} = U
    OBVIOUS
  <2> QED
    BY <2>1, <2>2
<1>2. ASSUME NEW T \in SUBSET R, NEW x \in R \ T, T \in D PROVE T \cup {x} \in D
  <2>1. /\ (U \cup T) \cup {x} = U \cup (T \cup {x})
        /\ x \notin U \cup T /\ U \cup T \in SUBSET S
        /\ g[x] = 0
        /\ \A y \in (U \cup T) \cup {x} : g[y] \in Int
    OBVIOUS
  <2>2. IsFiniteSet(U \cup T)
    BY <2>1, FS_Subset
  <2>3. SumFunctionOnSet(g, (U \cup T) \cup {x}) = SumFunctionOnSet(g, U \cup T) + 0
    BY <2>1, <2>2, SumAdd
  <2>4. SumFunctionOnSet(g, U \cup T) = SumFunctionOnSet(f, U)
    BY <1>2
  <2>5. SumFunctionOnSet(g, (U \cup T) \cup {x}) = SumFunctionOnSet(f, U)
    BY <1>0, <2>3, <2>4
  <2>6. SumFunctionOnSet(g, U \cup (T \cup {x})) = SumFunctionOnSet(f, U)
    BY <2>1, <2>5, Zenon
  <2> QED
    BY <2>6
<1>3. SUBSET R \subseteq D
  <2> HIDE DEF D, R
  <2> QED
    BY <1>0, <1>1, <1>2, PartsInduction
<1>4. U \cup R = S
  OBVIOUS
<1>5. R \in D
  BY <1>3
<1>6. SumFunctionOnSet(g, U \cup R) = SumFunctionOnSet(f, U)
  BY <1>5
<1> HIDE DEF R
<1> QED
  BY <1>4, <1>6, Zenon
-------------------------------------------------------------------------------
(* Ticks, their arrays and their bits, for every geometry.                     *)

LEMMA ArraySizePositive == ArraySize \in Nat \ {0}
<1>1. \A a, b \in Nat \ {0} : a * b \in Nat \ {0}
  OBVIOUS
<1> QED
  BY <1>1, TickAssumption DEF ArraySize

\* Truncated division with the correction for a negative remainder is floor
\* division: math.rs agrees with Math.floor in the SDK's tickToArrayStartTick,
\* whose formula this is.
THEOREM ArrayStartIsFloor ==
    ASSUME NEW t \in Int
    PROVE  TickToArrayStart(t) = (t \div ArraySize) * ArraySize
<1> DEFINE A == ArraySize
<1>1. A \in Nat \ {0}
  BY ArraySizePositive
<1> HIDE DEF A
<1>2. CASE t >= 0
  <2>1. t \div A \in Int /\ t % A \in 0 .. A - 1 /\ t = A * (t \div A) + (t % A)
    BY <1>1
  <2>2. TruncDiv(t, A) = t \div A
    BY <1>2 DEF TruncDiv
  <2>3. TruncRem(t, A) = t % A
    BY <2>1, <2>2, <1>1 DEF TruncRem
  <2>4. ~(TruncRem(t, A) < 0)
    BY <2>1, <2>3, <1>1
  <2> QED
    BY <2>2, <2>4 DEF TickToArrayStart, A
<1>3. CASE t < 0
  <2> DEFINE q == (-t) \div A
             r == (-t) % A
  <2>1. q \in Int /\ r \in 0 .. A - 1 /\ -t = A * q + r
    BY <1>1
  <2>2. TruncDiv(t, A) = -q
    BY <1>3 DEF TruncDiv
  <2> HIDE DEF q, r
  <2>3. TruncRem(t, A) = -r
    <3>1. A * (-q) = -(A * q)
      BY <1>1, <2>1
    <3> QED
      BY <3>1, <2>1, <2>2, <1>1 DEF TruncRem
  <2>4. CASE r = 0
    <3>1. t = A * (-q) + 0
      BY <2>1, <2>4, <1>1
    <3>2. 0 \in 0 .. A - 1
      BY <1>1
    <3>3. t \div A = -q
      BY <3>1, <3>2, <2>1, <1>1, DivUnique
    <3> QED
      BY <3>3, <2>2, <2>3, <2>4 DEF TickToArrayStart, A
  <2>5. CASE r # 0
    <3>1. t = A * (-q - 1) + (A - r)
      <4>1. A * (-q - 1) = -(A * q) - A
        BY <1>1, <2>1
      <4> QED
        BY <4>1, <2>1, <1>1
    <3>2. A - r \in 0 .. A - 1 /\ -q - 1 \in Int
      BY <1>1, <2>1, <2>5
    <3>3. t \div A = -q - 1
      BY <3>1, <3>2, <1>1, DivUnique
    <3>4. TruncRem(t, A) < 0
      BY <2>1, <2>3, <2>5, <1>1
    <3> QED
      BY <3>3, <3>4, <2>2 DEF TickToArrayStart, A
  <2> QED
    BY <2>4, <2>5
<1> QED
  BY <1>2, <1>3

\* A tick lies in the array that starts at its array start.
THEOREM TickIsInItsArray ==
    ASSUME NEW t \in Int
    PROVE  /\ TickToArrayStart(t) \in Int
           /\ HasTick(TickToArrayStart(t), t)
<1> DEFINE A == ArraySize
<1>1. A \in Nat \ {0}
  BY ArraySizePositive
<1>2. TickToArrayStart(t) = (t \div A) * A
  BY ArrayStartIsFloor
<1> HIDE DEF A
<1>3. t \div A \in Int /\ t % A \in 0 .. A - 1 /\ t = A * (t \div A) + (t % A)
  BY <1>1
<1>4. (t \div A) * A = A * (t \div A) /\ (t \div A) * A \in Int
  BY <1>1, <1>3
<1>5. (t \div A) * A <= t /\ t < (t \div A) * A + A
  BY <1>1, <1>3, <1>4
<1> QED
  BY <1>2, <1>4, <1>5 DEF HasTick, A

\* The start of an array is its own array start.
LEMMA ArrayStartIdempotent ==
    ASSUME NEW t \in Int
    PROVE  TickToArrayStart(TickToArrayStart(t)) = TickToArrayStart(t)
<1> DEFINE A == ArraySize
           q == t \div A
<1>1. A \in Nat \ {0}
  BY ArraySizePositive
<1>2. TickToArrayStart(t) = q * A
  BY ArrayStartIsFloor
<1> HIDE DEF A
<1>3. q \in Int
  BY <1>1
<1> HIDE DEF q
<1>4. q * A \in Int /\ q * A = A * q + 0 /\ 0 \in 0 .. A - 1
  BY <1>1, <1>3
<1>5. (q * A) \div A = q
  BY <1>1, <1>3, <1>4, DivUnique
<1>6. TickToArrayStart(q * A) = q * A
  BY <1>4, <1>5, ArrayStartIsFloor DEF A
<1> QED
  BY <1>2, <1>6

\* A tick of an array has a slot in it.
LEMMA SlotInRange ==
    ASSUME NEW s \in Int, NEW t \in Int, HasTick(s, t)
    PROVE  SlotOf(s, t) \in Slots
<1> DEFINE P == TICK_SPACING
           N == TICKS_PER_ARRAY
           d == t - s
           q == d \div P
           r == d % P
<1>1. P \in Nat \ {0} /\ N \in Nat \ {0}
  BY TickAssumption
<1>2. d \in Int /\ 0 <= d /\ d < N * P
  <2>1. N * P \in Int
    BY <1>1
  <2> QED
    BY <2>1 DEF HasTick, ArraySize
<1> HIDE DEF P, N, d
<1>3. q \in Int /\ r \in 0 .. P - 1 /\ d = P * q + r
  BY <1>1, <1>2
<1> HIDE DEF q, r
<1>4. q >= 0
  <2>1. CASE q <= -1
    <3>1. P * q <= -P
      BY <2>1, <1>1, <1>3
    <3> QED
      BY <3>1, <1>1, <1>2, <1>3
  <2> QED
    BY <2>1, <1>3
<1>5. q <= N - 1
  <2>1. CASE q >= N
    <3>1. P * q >= N * P
      BY <2>1, <1>1, <1>3
    <3> QED
      BY <3>1, <1>1, <1>2, <1>3
  <2> QED
    BY <2>1, <1>1, <1>3
<1> QED
  BY <1>3, <1>4, <1>5, <1>1 DEF SlotOf, Slots, q, d, P, N

\* The aligned ticks are the multiples of the spacing, negative ones too.
LEMMA AlignedIsMultiple ==
    ASSUME NEW t \in Int
    PROVE  ValidTickSpacing(t) <=> \E m \in Int : t = TICK_SPACING * m
<1> DEFINE P == TICK_SPACING
           d == TruncDiv(t, P)
<1>1. P \in Nat \ {0} /\ d \in Int
  BY TickAssumption DEF TruncDiv
<1>2. ValidTickSpacing(t) <=> t - P * d = 0
  BY DEF ValidTickSpacing, TruncRem
<1> HIDE DEF P, d
<1>3. P * d \in Int
  BY <1>1
<1>4. ASSUME NEW m \in Int, t = P * m PROVE d = m
  <2>1. t = P * m + 0 /\ -t = P * (-m) + 0 /\ 0 \in 0 .. P - 1 /\ -m \in Int /\ -t \in Int
    BY <1>1, <1>4
  <2>2. t \div P = m /\ (-t) \div P = -m
    BY <1>1, <2>1, DivUnique
  <2> QED
    BY <2>2 DEF TruncDiv, d, P
<1> QED
  BY <1>1, <1>2, <1>3, <1>4 DEF P

\* An aligned tick is its array's start and its slot: what a slot stands for can
\* be told from where it lies, and two aligned ticks never share one.
THEOREM SlotRecoversTick ==
    ASSUME NEW t \in UsableTicks
    PROVE  t = TickToArrayStart(t) + SlotOf(TickToArrayStart(t), t) * TICK_SPACING
<1> DEFINE P == TICK_SPACING
           N == TICKS_PER_ARRAY
           s == TickToArrayStart(t)
           j == t \div ArraySize
<1>1. P \in Nat \ {0} /\ N \in Nat \ {0} /\ t \in Int
  BY TickAssumption DEF UsableTicks, Ticks
<1>2. PICK i \in Int : t = P * i
  BY <1>1, AlignedIsMultiple DEF UsableTicks
<1>3. j \in Int
  BY <1>1, ArraySizePositive
<1>4. s = j * (N * P)
  BY <1>1, ArrayStartIsFloor DEF ArraySize
<1> HIDE DEF s, j, P, N
<1>5. j * (N * P) = P * (j * N) /\ j * N \in Int
  BY <1>1, <1>3
<1> DEFINE m == i - j * N
<1>6. m \in Int
  BY <1>5
<1>7. P * m = P * i - P * (j * N)
  BY <1>1, <1>5
<1>8. t - s = P * m + 0
  BY <1>1, <1>2, <1>4, <1>5, <1>6, <1>7
<1> HIDE DEF m
<1>9. s \in Int
  BY <1>1, <1>4, <1>5
<1>10. (t - s) \div P = m
  <2>1. t - s \in Int /\ 0 \in 0 .. P - 1
    BY <1>1, <1>9
  <2> QED
    BY <2>1, <1>1, <1>6, <1>8, DivUnique
<1>11. SlotOf(s, t) = m
  BY <1>10 DEF SlotOf, P
<1>12. P * m = m * P /\ P * m \in Int
  BY <1>1, <1>6
<1>13. t = s + m * P
  BY <1>1, <1>8, <1>9, <1>12
<1> QED
  BY <1>11, <1>13 DEF s, P

\* And back: what stands in a slot of an array is the tick that belongs there.
LEMMA SlotTick ==
    ASSUME NEW s \in ArrayStarts, NEW i \in Slots
    PROVE  LET t == s + i * TICK_SPACING
           IN  /\ t \in Int
               /\ TickToArrayStart(t) = s
               /\ SlotOf(s, t) = i
               /\ ValidTickSpacing(t)
<1> DEFINE P == TICK_SPACING
           N == TICKS_PER_ARRAY
           A == ArraySize
           q == TruncDiv(s, A)
           t == s + i * P
<1>1. P \in Nat \ {0} /\ N \in Nat \ {0} /\ A = N * P /\ A \in Nat \ {0}
  BY TickAssumption, ArraySizePositive DEF ArraySize
<1>2. s \in Int /\ i \in 0 .. N - 1
  BY TickAssumption DEF ArrayStarts, Ticks, Slots
<1>3. q \in Int /\ s - A * q = 0
  BY <1>1, <1>2 DEF ArrayStarts, TruncRem, TruncDiv
<1> HIDE DEF P, N, A, q
<1>4. A * q \in Int /\ s = A * q
  BY <1>1, <1>2, <1>3
<1>5. i * P \in Int /\ i * P = P * i /\ i * P <= (N - 1) * P /\ (N - 1) * P = A - P /\ 0 <= i * P
  BY <1>1, <1>2
<1>6. t \in Int /\ t = A * q + i * P /\ i * P \in 0 .. A - 1
  BY <1>1, <1>2, <1>4, <1>5
<1> HIDE DEF t
<1>7. t \div A = q
  BY <1>1, <1>3, <1>6, DivUnique
<1>8. TickToArrayStart(t) = s
  <2>1. q * A = A * q
    BY <1>1, <1>3
  <2> QED
    BY <1>4, <1>6, <1>7, <2>1, ArrayStartIsFloor DEF A
<1>9. SlotOf(s, t) = i
  <2>1. t - s = P * i + 0 /\ 0 \in 0 .. P - 1 /\ t - s \in Int
    BY <1>1, <1>2, <1>4, <1>5, <1>6
  <2>2. (t - s) \div P = i
    BY <1>1, <1>2, <2>1, DivUnique
  <2> QED
    BY <2>2 DEF SlotOf, P
<1>10. ValidTickSpacing(t)
  <2> DEFINE m == q * N + i
  <2>1. m \in Int /\ t = P * m
    <3>1. A * q = P * (q * N) /\ q * N \in Int
      BY <1>1, <1>3
    <3>2. P * (q * N + i) = P * (q * N) + P * i
      BY <3>1, <1>1, <1>2
    <3> QED
      BY <3>1, <3>2, <1>2, <1>5, <1>6
  <2> QED
    BY <1>6, <2>1, AlignedIsMultiple DEF P
<1> QED
  BY <1>6, <1>8, <1>9, <1>10 DEF t, P

\* The number of the array of a legal tick is a natural number: the bitmap is
\* counted from the array of MIN_TICK, which is the first.
LEMMA TickIndexNat ==
    ASSUME NEW t \in Ticks
    PROVE  TickIndex(t) \in Nat
<1> DEFINE A == ArraySize
           p == MIN_TICK \div A
           q == t \div A
<1>1. A \in Nat \ {0}
  BY ArraySizePositive
<1>2. t \in Int /\ MIN_TICK \in Int /\ MIN_TICK <= t
  BY TickAssumption DEF Ticks
<1>3. TickToArrayStart(t) = q * A /\ TickToArrayStart(MIN_TICK) = p * A
  BY <1>2, ArrayStartIsFloor
<1> HIDE DEF A
<1>4. p \in Int /\ q \in Int /\ p <= q
  BY <1>1, <1>2, DivMonotone
<1> HIDE DEF p, q
<1>5. /\ q * A - p * A = A * (q - p) + 0
      /\ q * A - p * A \in Int
      /\ 0 \in 0 .. A - 1 /\ q - p \in Nat
  BY <1>1, <1>4
<1>6. q * A - p * A >= 0
  BY <1>5, <1>1
<1>7. (q * A - p * A) \div A = q - p
  BY <1>1, <1>5, DivUnique
<1>8. TickIndex(t) = TruncDiv(q * A - p * A, A)
  BY <1>3 DEF TickIndex, ArrayStartToBitmapIndex, A
<1> QED
  BY <1>5, <1>6, <1>7, <1>8 DEF TruncDiv

\* Its bit is one of the word's.
LEMMA TickBitInRange ==
    ASSUME NEW t \in Ticks
    PROVE  TickBit(t) \in 0 .. ARRAYS_PER_BITMAP_WORD - 1
<1> DEFINE W == ARRAYS_PER_BITMAP_WORD
           i == TickIndex(t)
<1>1. W \in Nat \ {0} /\ i \in Nat
  BY TickAssumption, TickIndexNat
<1> HIDE DEF W, i
<1>2. i % W \in 0 .. W - 1 /\ i = W * (i \div W) + (i % W) /\ i \div W \in Int
  BY <1>1
<1>3. TruncRem(i, W) = i % W
  BY <1>1, <1>2 DEF TruncRem, TruncDiv
<1> QED
  BY <1>2, <1>3 DEF TickBit, BitmapBit, W, i

\* All the ticks of an array share the bit of its start.
LEMMA StartSharesBit ==
    ASSUME NEW t \in Int
    PROVE  /\ TickWord(TickToArrayStart(t)) = TickWord(t)
           /\ TickBit(TickToArrayStart(t)) = TickBit(t)
  BY ArrayStartIdempotent DEF TickWord, TickBit, TickIndex

\* The SDK derives every account address from its own formulas, floor divisions
\* throughout; for each legal tick they give the array, the word and the bit that
\* the program uses.
THEOREM SdkFindsTheAccounts ==
    ASSUME NEW t \in Ticks
    PROVE  LET start == SdkArrayStart(t)
               index == SdkBitmapIndex(start)
           IN  /\ TickToArrayStart(t) = start
               /\ TickIndex(t) = index
               /\ <<TickWord(t), TickBit(t)>> = SdkWordAndBit(index)
<1> DEFINE A == ArraySize
           W == ARRAYS_PER_BITMAP_WORD
           p == MIN_TICK \div A
           q == t \div A
           i == TickIndex(t)
<1>1. /\ t \in Int /\ MIN_TICK \in Int /\ MIN_TICK <= t
      /\ A \in Nat \ {0} /\ W \in Nat \ {0}
  BY TickAssumption, ArraySizePositive DEF Ticks
<1>2. /\ TickToArrayStart(t) = q * A /\ TickToArrayStart(MIN_TICK) = p * A
      /\ SdkArrayStart(t) = q * A /\ SdkArrayStart(MIN_TICK) = p * A
  BY <1>1, ArrayStartIsFloor DEF SdkArrayStart
<1>3. /\ i = TruncDiv(q * A - p * A, A)
      /\ SdkBitmapIndex(q * A) = (q * A - p * A) \div A
  BY <1>2 DEF TickIndex, ArrayStartToBitmapIndex, SdkBitmapIndex
<1>4. i \in Nat
  BY TickIndexNat
<1> HIDE DEF A, W, i
<1>5. p \in Int /\ q \in Int /\ p <= q
  BY <1>1, DivMonotone
<1> HIDE DEF p, q
<1>6. q * A - p * A >= 0
  <2>1. q * A - p * A = A * (q - p) /\ q - p \in Nat
    BY <1>1, <1>5
  <2> QED
    BY <2>1, <1>1
<1>7. i = SdkBitmapIndex(q * A)
  BY <1>3, <1>6 DEF TruncDiv
<1>8. /\ i % W \in 0 .. W - 1 /\ i = W * (i \div W) + (i % W) /\ i \div W \in Int
      /\ TruncDiv(i, W) = i \div W
  BY <1>1, <1>4 DEF TruncDiv
<1>9. TruncRem(i, W) = i % W
  BY <1>1, <1>4, <1>8 DEF TruncRem
<1>10. <<TickWord(t), TickBit(t)>> = SdkWordAndBit(i)
  BY <1>8, <1>9 DEF TickWord, TickBit, BitmapWord, BitmapBit, SdkWordAndBit, i, W
<1> QED
  BY <1>2, <1>7, <1>10 DEF i
\* The number of an array counts arrays from the first.
LEMMA TickIndexCounts ==
    ASSUME NEW t \in Ticks
    PROVE  /\ TickToArrayStart(MIN_TICK) \in Int
           /\ TickToArrayStart(MIN_TICK) + TickIndex(t) * ArraySize = TickToArrayStart(t)
           /\ TickWord(t) * ARRAYS_PER_BITMAP_WORD + TickBit(t) = TickIndex(t)
<1> DEFINE A == ArraySize
           W == ARRAYS_PER_BITMAP_WORD
           p == MIN_TICK \div A
           q == t \div A
           i == TickIndex(t)
<1>1. t \in Int /\ MIN_TICK \in Int /\ A \in Nat \ {0} /\ W \in Nat \ {0}
  BY TickAssumption, ArraySizePositive DEF Ticks
<1>2. /\ TickToArrayStart(t) = q * A /\ TickToArrayStart(MIN_TICK) = p * A
      /\ p \in Int /\ q \in Int
  BY <1>1, ArrayStartIsFloor
<1>3. i = TruncDiv(q * A - p * A, A)
  BY <1>2 DEF TickIndex, ArrayStartToBitmapIndex
<1>4. i \in Nat
  BY TickIndexNat
<1> HIDE DEF A, W, i, p, q
<1>5. i = q - p
  <2> DEFINE d == q * A - p * A
  <2>1. q * A \in Int /\ p * A \in Int
    BY <1>1, <1>2
  <2>2. d = A * (q - p) + 0 /\ -d = A * (p - q) + 0 /\ 0 \in 0 .. A - 1
    BY <1>1, <1>2
  <2>3. d \in Int /\ -d \in Int /\ q - p \in Int /\ p - q \in Int
    BY <1>2, <2>1
  <2> HIDE DEF d
  <2>4. d \div A = q - p /\ (-d) \div A = p - q
    BY <1>1, <2>2, <2>3, DivUnique
  <2> QED
    BY <1>2, <1>3, <2>3, <2>4 DEF TruncDiv, d
<1>6. p * A + i * A = q * A /\ p * A \in Int
  <2>1. p * A + (q - p) * A = q * A /\ p * A \in Int
    BY <1>1, <1>2
  <2> QED
    BY <1>5, <2>1
<1>7. TickWord(t) * W + TickBit(t) = i
  <2>1. TruncDiv(i, W) \in Int
    BY <1>1, <1>4 DEF TruncDiv
  <2>2. TickWord(t) = TruncDiv(i, W) /\ TickBit(t) = i - W * TruncDiv(i, W)
    BY DEF TickWord, TickBit, BitmapWord, BitmapBit, TruncRem, W, i
  <2> DEFINE d == TruncDiv(i, W)
  <2> HIDE DEF d
  <2>3. d * W = W * d /\ W * d \in Int /\ d * W + (i - W * d) = i
    BY <1>1, <1>4, <2>1 DEF d
  <2> QED
    BY <2>2, <2>3 DEF d
<1> QED
  BY <1>2, <1>6, <1>7 DEF A, W, i

\* The address of a tick: array, word, bit and slot give the tick back, up to the
\* spacing, and exactly when it is aligned.
LEMMA AddressRecovers ==
    ASSUME NEW t \in Ticks
    PROVE  LET start == TickToArrayStart(t)
               slot  == SlotOf(start, t)
               index == TickWord(t) * ARRAYS_PER_BITMAP_WORD + TickBit(t)
               base  == TickToArrayStart(MIN_TICK) + index * ArraySize + slot * TICK_SPACING
           IN  /\ HasTick(start, t)
               /\ slot \in Slots
               /\ TickBit(t) \in 0 .. ARRAYS_PER_BITMAP_WORD - 1
               /\ base <= t /\ t < base + TICK_SPACING
               /\ ValidTickSpacing(t) <=> base = t
<1> DEFINE P == TICK_SPACING
           s == TickToArrayStart(t)
           slot == SlotOf(s, t)
           index == TickWord(t) * ARRAYS_PER_BITMAP_WORD + TickBit(t)
           base == TickToArrayStart(MIN_TICK) + index * ArraySize + slot * P
<1>1. t \in Int /\ P \in Nat \ {0} /\ TICKS_PER_ARRAY \in Nat \ {0}
  BY TickAssumption DEF Ticks
<1>2. s \in Int /\ HasTick(s, t) /\ slot \in Slots
  BY <1>1, TickIsInItsArray, SlotInRange
<1>3. base = s + slot * P
  BY TickIndexCounts
<1>4. slot = (t - s) \div P
  BY DEF SlotOf
<1>5. slot \in Int
  BY <1>1, <1>2 DEF Slots
<1>6. PICK j \in Int : s = j * (TICKS_PER_ARRAY * P)
  <2>1. t \div ArraySize \in Int
    BY <1>1, ArraySizePositive
  <2> QED
    BY <1>1, <2>1, ArrayStartIsFloor DEF ArraySize
<1> HIDE DEF P, s, slot, base
<1>7. base <= t /\ t < base + P
  <2>1. P * slot \in Int /\ P * slot <= t - s /\ t - s < P * slot + P
    BY <1>1, <1>2, <1>4, DivBounds
  <2>2. slot * P = P * slot
    BY <1>1, <1>5
  <2> QED
    BY <1>1, <1>2, <1>3, <2>1, <2>2
<1>8. ASSUME base = t PROVE ValidTickSpacing(t)
  <2> DEFINE m == j * TICKS_PER_ARRAY + slot
  <2>1. m \in Int /\ P * m = s + slot * P
    <3>1. j * TICKS_PER_ARRAY \in Int /\ j * (TICKS_PER_ARRAY * P) = P * (j * TICKS_PER_ARRAY)
      BY <1>1
    <3>2. P * (j * TICKS_PER_ARRAY + slot) = P * (j * TICKS_PER_ARRAY) + slot * P
      BY <3>1, <1>1, <1>5
    <3> QED
      BY <3>1, <3>2, <1>5, <1>6
  <2> QED
    BY <1>1, <1>3, <1>8, <2>1, AlignedIsMultiple DEF P
<1>9. ASSUME ValidTickSpacing(t) PROVE base = t
  BY <1>3, <1>9, SlotRecoversTick DEF UsableTicks, s, slot, P
<1> QED
  BY <1>2, <1>7, <1>8, <1>9, TickBitInRange DEF P, s, slot, base
-------------------------------------------------------------------------------
(* nearestUsableTick.                                                          *)

\* The spacing is even, so that half of it is whole.
EvenSpacing == TICK_SPACING % 2 = 0

\* What it rounds to is a multiple of the spacing at most half a spacing away,
\* towards zero from less than half.
LEMMA NearestIsNear ==
    ASSUME NEW t \in Int, EvenSpacing
    PROVE  LET u == NearestUsableTick(t)
               h == TICK_SPACING \div 2
           IN  /\ h \in Nat \ {0} /\ TICK_SPACING = 2 * h
               /\ u \in Int /\ \E m \in Int : u = TICK_SPACING * m
               /\ t >= 0 => u - h <= t /\ t < u + h
               /\ t < 0  => u - h < t /\ t <= u + h
<1> DEFINE P == TICK_SPACING
           h == P \div 2
           d == TruncDiv(t, P)
           rem == TruncRem(t, P)
           u == NearestUsableTick(t)
<1>1. P \in Nat \ {0} /\ P = 2 * h /\ h \in Nat \ {0}
  BY TickAssumption DEF EvenSpacing
<1>2. d \in Int
  BY <1>1 DEF TruncDiv
<1>3. rem = t - P * d
  BY DEF TruncRem
<1>4. u = t - rem + (IF rem >= h THEN P ELSE IF rem <= -h THEN -P ELSE 0)
  BY DEF NearestUsableTick
<1>5. d = IF t >= 0 THEN t \div P ELSE -((-t) \div P)
  BY DEF TruncDiv
<1> HIDE DEF P, h, d, rem, u
<1>6. P * d \in Int /\ P * (d + 1) = P * d + P /\ P * (d - 1) = P * d - P
  BY <1>1, <1>2
<1>7. IF t >= 0 THEN 0 <= rem /\ rem < P ELSE -P < rem /\ rem <= 0
  <2>1. CASE t >= 0
    <3>1. P * d <= t /\ t < P * d + P
      BY <1>1, <1>5, <2>1, DivBounds
    <3> QED
      BY <1>1, <1>3, <1>6, <2>1, <3>1
  <2>2. CASE t < 0
    <3> DEFINE e == (-t) \div P
    <3>1. -t \in Int /\ d = -e
      BY <1>5, <2>2
    <3>2. e \in Int /\ P * e \in Int /\ P * e <= -t /\ -t < P * e + P
      BY <1>1, <3>1, DivBounds
    <3> HIDE DEF e
    <3>3. P * d = -(P * e)
      BY <1>1, <3>1, <3>2
    <3> QED
      BY <1>1, <1>3, <2>2, <3>2, <3>3
  <2> QED
    BY <2>1, <2>2
<1>8. rem \in Int
  BY <1>3, <1>6
<1>9. u = P * d \/ u = P * (d + 1) \/ u = P * (d - 1)
  BY <1>1, <1>3, <1>4, <1>6, <1>8
<1>10. u \in Int /\ \E m \in Int : u = P * m
  <2>1. d \in Int /\ d + 1 \in Int /\ d - 1 \in Int
    BY <1>2
  <2>2. \E m \in Int : u = P * m
    BY <1>9, <2>1
  <2>3. \A m \in Int : P * m \in Int
    BY <1>1
  <2> QED
    BY <2>2, <2>3
<1>11. t >= 0 => u - h <= t /\ t < u + h
  BY <1>1, <1>4, <1>7, <1>8, <1>10
<1>12. t < 0 => u - h < t /\ t <= u + h
  BY <1>1, <1>4, <1>7, <1>8, <1>10
<1> QED
  BY <1>1, <1>10, <1>11, <1>12 DEF P, h, u

\* Which ticks a client may name.  The array of MIN_TICK begins below MIN_TICK, so
\* that initialize_tick_array refuses it.
LEMMA NearestFits ==
    ASSUME NEW t \in Ticks, EvenSpacing, TickToArrayStart(MIN_TICK) # MIN_TICK
    PROVE  LET usable  == NearestUsableTick(t)
               half    == TICK_SPACING \div 2
               lowest  == TickToArrayStart(MIN_TICK) + ArraySize
               highest == TruncDiv(MAX_TICK, TICK_SPACING) * TICK_SPACING
           IN  /\ ValidTickSpacing(usable)
               /\ usable - half <= t /\ t <= usable + half
               /\ (ValidTick(usable) /\ ValidTick(TickToArrayStart(usable)))
                     <=> (lowest - half < t /\ t < highest + half)
<1> DEFINE P == TICK_SPACING
           N == TICKS_PER_ARRAY
           A == ArraySize
           h == P \div 2
           u == NearestUsableTick(t)
           p == MIN_TICK \div A
           r == u \div A
           M == TruncDiv(MAX_TICK, P)
           K == N * (p + 1)
<1>1. /\ t \in Int /\ MIN_TICK \in Int /\ MAX_TICK \in Int /\ MIN_TICK < 0 /\ 0 < MAX_TICK
      /\ P \in Nat \ {0} /\ N \in Nat \ {0} /\ A = N * P /\ A \in Nat \ {0}
  BY TickAssumption, ArraySizePositive DEF Ticks, ArraySize
<1>2. /\ h \in Nat \ {0} /\ P = 2 * h /\ u \in Int
      /\ t >= 0 => u - h <= t /\ t < u + h
      /\ t < 0  => u - h < t /\ t <= u + h
  BY <1>1, NearestIsNear
<1>3. PICK m \in Int : u = P * m
  BY <1>1, NearestIsNear
<1>4. ValidTickSpacing(u)
  BY <1>2, <1>3, AlignedIsMultiple
<1>5. /\ TickToArrayStart(MIN_TICK) = p * A /\ TickToArrayStart(u) = r * A
      /\ p \in Int /\ r \in Int
  BY <1>1, <1>2, ArrayStartIsFloor
<1>6. /\ A * p \in Int /\ A * p <= MIN_TICK /\ MIN_TICK < A * p + A
      /\ A * r \in Int /\ A * r <= u /\ u < A * r + A
  BY <1>1, <1>2, DivBounds
<1>7. M \in Nat /\ P * M \in Int /\ P * M <= MAX_TICK /\ MAX_TICK < P * M + P
  <2>1. M = MAX_TICK \div P
    BY <1>1 DEF TruncDiv
  <2> QED
    BY <1>1, <2>1, DivBounds, DivNat
<1> HIDE DEF P, N, A, h, u, p, r, M
<1>8. p * A = A * p /\ r * A = A * r /\ M * P = P * M
  BY <1>1, <1>5, <1>7
<1>9. A * p # MIN_TICK
  BY <1>5, <1>8
<1>10. p <= -1
  <2>1. ASSUME p >= 0 PROVE FALSE
    <3>1. A * p >= 0
      BY <1>1, <1>5, <2>1
    <3> QED
      BY <1>1, <1>6, <3>1
  <2> QED
    BY <1>5, <2>1
<1>11. K \in Int /\ K <= 0 /\ P * K = A * p + A /\ P * K <= 0
  <2>1. p + 1 \in Int /\ p + 1 <= 0
    BY <1>5, <1>10
  <2>2. K \in Int /\ K <= 0
    BY <1>1, <2>1
  <2>3. P * (N * (p + 1)) = (N * P) * p + N * P
    BY <1>1, <1>5
  <2> HIDE DEF K
  <2>4. P * K <= 0
    BY <1>1, <2>2
  <2> QED
    BY <1>1, <2>2, <2>3, <2>4 DEF K
<1> HIDE DEF K
<1>12. u <= MAX_TICK <=> t < M * P + h
  <2>1. ASSUME u <= MAX_TICK PROVE t < M * P + h
    <3>1. m <= M
      <4>1. P * m < P * (M + 1)
        <5>1. P * (M + 1) = P * M + P
          BY <1>1, <1>7
        <5> QED
          BY <1>1, <1>2, <1>3, <1>7, <2>1, <5>1
      <4> QED
        BY <1>1, <1>7, <4>1, FactorsInOrder
    <3>2. P * m <= P * M
      BY <1>1, <1>7, <3>1, FactorsInOrder
    <3>3. P * M >= 0
      BY <1>1, <1>7
    <3> QED
      BY <1>1, <1>2, <1>3, <1>7, <1>8, <3>2, <3>3
  <2>2. ASSUME u > MAX_TICK PROVE ~(t < M * P + h)
    <3>1. P * M < P * m
      BY <1>1, <1>2, <1>3, <1>7, <2>2
    <3>2. M + 1 <= m
      BY <1>1, <1>7, <3>1, FactorsInOrder
    <3>3. P * (M + 1) <= P * m /\ P * (M + 1) = P * M + P
      BY <1>1, <1>7, <3>2, FactorsInOrder
    <3> QED
      BY <1>1, <1>2, <1>3, <1>7, <1>8, <3>3
  <2> QED
    BY <1>1, <1>2, <2>1, <2>2
<1>13. u >= P * K <=> P * K - h < t
  <2>0. P * K \in Int
    BY <1>1, <1>11
  <2>1. ASSUME u >= P * K PROVE P * K - h < t
    BY <1>1, <1>2, <1>11, <2>0, <2>1
  <2>2. ASSUME u < P * K PROVE ~(P * K - h < t)
    <3>1. m <= K - 1
      BY <1>1, <1>3, <1>11, <2>2, FactorsInOrder
    <3>2. P * m <= P * (K - 1) /\ P * (K - 1) = P * K - P
      BY <1>1, <1>11, <3>1, FactorsInOrder
    <3> QED
      BY <1>1, <1>2, <1>3, <2>0, <3>2
  <2> QED
    BY <1>2, <2>0, <2>1, <2>2
<1>14. A * r >= MIN_TICK <=> u >= P * K
  <2>1. ASSUME A * r >= MIN_TICK PROVE u >= P * K
    <3>1. A * p < A * r
      BY <1>1, <1>6, <1>9, <2>1
    <3>2. p + 1 <= r
      BY <1>1, <1>5, <3>1, FactorsInOrder
    <3>3. A * (p + 1) <= A * r /\ A * (p + 1) = A * p + A
      BY <1>1, <1>5, <3>2, FactorsInOrder
    <3> QED
      BY <1>2, <1>6, <1>11, <3>3
  <2>2. ASSUME u >= P * K PROVE A * r >= MIN_TICK
    <3>1. A * p < A * r
      BY <1>1, <1>2, <1>6, <1>11, <2>2
    <3>2. p + 1 <= r
      BY <1>1, <1>5, <3>1, FactorsInOrder
    <3>3. A * (p + 1) <= A * r /\ A * (p + 1) = A * p + A
      BY <1>1, <1>5, <3>2, FactorsInOrder
    <3> QED
      BY <1>1, <1>6, <3>3
  <2> QED
    BY <2>1, <2>2
<1>15. (ValidTick(u) /\ ValidTick(r * A)) <=> (A * r >= MIN_TICK /\ u <= MAX_TICK)
  BY <1>1, <1>2, <1>6, <1>8 DEF ValidTick
<1>16. p * A + A = P * K
  BY <1>8, <1>11
<1>17. u - h <= t /\ t <= u + h
  BY <1>1, <1>2
<1> QED
  BY <1>4, <1>5, <1>12, <1>13, <1>14, <1>15, <1>16, <1>17 DEF u, h, P, A, M

-------------------------------------------------------------------------------
(* What one swap step computes, for every width, price, liquidity, amount and  *)
(* fee rate.                                                                   *)

LEMMA WidthsPositive ==
    /\ Q64 \in Nat \ {0} /\ Q64 >= 2
    /\ Q64 * Q64 \in Nat \ {0} /\ Q64 * Q64 >= Q64
    /\ U64 = 0 .. Q64 - 1
    /\ U128 = 0 .. Q64 * Q64 - 1
    /\ U128Max \in U128 /\ U128Max = Q64 * Q64 - 1
    /\ U64 \subseteq U128
<1>1. Q64 \in Nat \ {0} /\ Q64 >= 2
  BY Q64Assumption
<1>2. Q64 * Q64 \in Nat \ {0} /\ Q64 * Q64 >= Q64
  BY <1>1
<1> QED
  BY <1>1, <1>2 DEF U64, U128, U64Max, U128Max

-------------------------------------------------------------------------------
(* Types.                                                                      *)

LEMMA SatAddType ==
    ASSUME NEW a \in Nat, NEW b \in Nat
    PROVE  SatAdd(a, b) \in U128
BY WidthsPositive DEF SatAdd

LEMMA SatSubType ==
    ASSUME NEW a \in U128, NEW b \in Nat
    PROVE  SatSub(a, b) \in U128 /\ SatSub(a, b) <= a
BY WidthsPositive DEF SatSub

\* A product is compared with u128::MAX by a division before it is formed.
LEMMA SatMulType ==
    ASSUME NEW a \in Nat, NEW b \in Nat
    PROVE  SatMul(a, b) \in U128
<1> DEFINE M == U128Max
<1>1. M \in Nat /\ U128 = 0 .. M
  BY WidthsPositive
<1> HIDE DEF M
<1>2. a * b \in Nat
  OBVIOUS
<1>3. CASE b = 0
  BY <1>1, <1>3 DEF SatMul, M
<1>4. CASE b # 0 /\ a > M \div b
  BY <1>1, <1>4 DEF SatMul, M
<1>5. CASE b # 0 /\ ~(a > M \div b)
  <2> DEFINE q == M \div b
  <2>1. q \in Int /\ b * q \in Int /\ b * q <= M
    BY <1>1, <1>5, DivBounds
  <2>2. a <= q
    BY <1>5, <2>1
  <2> HIDE DEF q
  <2>3. a * b <= b * q
    BY <2>1, <2>2
  <2>4. SatMul(a, b) = a * b
    BY <1>5 DEF SatMul, M
  <2> QED
    BY <2>1, <2>3, <2>4, <1>1, <1>2
<1> QED
  BY <1>3, <1>4, <1>5

\* The saturated product is the product, where that fits.
LEMMA SatMulExact ==
    ASSUME NEW a \in Nat, NEW b \in Nat, a * b <= U128Max
    PROVE  SatMul(a, b) = a * b
<1>1. U128Max \in Nat
  BY WidthsPositive
<1>2. CASE b = 0
  BY <1>2 DEF SatMul
<1>3. CASE b # 0
  <2>1. b * a <= U128Max
    BY <1>1
  <2>2. a <= U128Max \div b
    BY <1>1, <1>3, <2>1, DivLower
  <2>3. U128Max \div b \in Int
    BY <1>1, <1>3, DivBounds
  <2> QED
    BY <2>2, <2>3 DEF SatMul
<1> QED
  BY <1>2, <1>3

LEMMA SatMulSaturates ==
    ASSUME NEW a \in Nat, NEW b \in Nat, a * b > U128Max
    PROVE  SatMul(a, b) = U128Max
<1>1. U128Max \in Nat /\ U128 = 0 .. U128Max
  BY WidthsPositive
<1>2. b # 0 /\ b \in Nat \ {0}
  BY <1>1
<1>3. a > U128Max \div b
  <2>1. b * a > U128Max
    BY <1>1
  <2>2. U128Max \div b < a
    BY <1>1, <1>2, <2>1, DivUpper
  <2> QED
    BY <2>2, <1>1, <1>2, DivBounds
<1> QED
  BY <1>2, <1>3 DEF SatMul

LEMMA QuotientType ==
    ASSUME NEW a \in U128, NEW d \in Nat \ {0}
    PROVE  a \div d \in U128
BY DivNat, WidthsPositive

LEMMA CeilDivType ==
    ASSUME NEW a \in U128, NEW d \in Nat \ {0}
    PROVE  CeilDiv(a, d) \in U128
<1>1. a \in Nat /\ d - 1 \in Nat
  BY WidthsPositive
<1>2. SatAdd(a, d - 1) \in U128
  BY <1>1, SatAddType
<1> QED
  BY <1>2, QuotientType DEF CeilDiv

LEMMA U128IsNat ==
    ASSUME NEW a \in U128
    PROVE  a \in Nat /\ a <= U128Max
BY WidthsPositive

\* The two halves of a u128.
LEMMA HalvesType ==
    ASSUME NEW a \in U128
    PROVE  /\ a \div Q64 \in 0 .. Q64 - 1
           /\ a % Q64 \in 0 .. Q64 - 1
<1> DEFINE Q == Q64
<1>1. Q \in Nat \ {0} /\ a \in Nat /\ a < Q * Q
  BY WidthsPositive
<1> HIDE DEF Q
<1>2. a \div Q < Q /\ a \div Q \in Nat
  BY <1>1, DivUpper, DivNat
<1>3. a % Q \in 0 .. Q - 1
  BY <1>1
<1> QED
  BY <1>2, <1>3, <1>1 DEF Q

\* A u64 shifted up by a word is a u128.
LEMMA ShiftUpType ==
    ASSUME NEW a \in 0 .. Q64 - 1
    PROVE  a * Q64 \in U128 /\ a * Q64 <= U128Max - Q64 + 1
<1> DEFINE Q == Q64
<1>1. Q \in Nat \ {0} /\ U128 = 0 .. Q * Q - 1 /\ U128Max = Q * Q - 1
  BY WidthsPositive
<1>2. a \in 0 .. Q - 1
  OBVIOUS
<1> HIDE DEF Q
<1>3. a * Q <= (Q - 1) * Q /\ (Q - 1) * Q = Q * Q - Q /\ a * Q \in Nat /\ Q * Q \in Nat
  BY <1>1, <1>2
<1>4. a * Q \in U128 /\ a * Q <= U128Max - Q + 1
  BY <1>1, <1>3
<1> QED
  BY <1>4 DEF Q

LEMMA MulQ64Type ==
    ASSUME NEW a \in U128, NEW b \in U128
    PROVE  MulQ64(a, b) \in U128
<1> DEFINE ah == a \div Q64   al == a % Q64
           bh == b \div Q64   bl == b % Q64
           hh == ((ah * bh) % Q64) * Q64
           ll == (al * bl) \div Q64
<1>1. Q64 \in Nat \ {0}
  BY WidthsPositive
<1>2. ah \in Nat /\ al \in Nat /\ bh \in Nat /\ bl \in Nat
  BY HalvesType, <1>1
<1> HIDE DEF ah, al, bh, bl
<1>3. ah * bh \in Nat /\ ah * bl \in Nat /\ al * bh \in Nat /\ al * bl \in Nat
  BY <1>2
<1>4. (ah * bh) % Q64 \in Nat
  BY <1>1, <1>3
<1>5. hh \in Nat /\ ll \in Nat
  BY <1>1, <1>3, <1>4, DivNat
<1> HIDE DEF hh, ll
<1>6. SatAdd(hh, ah * bl) \in Nat
  BY <1>3, <1>5, SatAddType, U128IsNat
<1>7. SatAdd(SatAdd(hh, ah * bl), al * bh) \in Nat
  BY <1>3, <1>6, SatAddType, U128IsNat
<1>8. SatAdd(SatAdd(SatAdd(hh, ah * bl), al * bh), ll) \in U128
  BY <1>5, <1>7, SatAddType
<1> QED
  BY <1>8 DEF MulQ64, ah, al, bh, bl, hh, ll

LEMMA ExtremesType ==
    ASSUME NEW a \in U128, NEW b \in U128
    PROVE  /\ Lesser(a, b) \in U128 /\ Greater(a, b) \in U128
           /\ Greater(a, b) - Lesser(a, b) \in U128
BY WidthsPositive DEF Lesser, Greater

LEMMA AmountDeltaType ==
    ASSUME NEW a \in U128, NEW b \in U128, NEW liquidity \in U128, NEW round_up \in BOOLEAN
    PROVE  /\ GetAmount0Delta(a, b, liquidity, round_up) \in U128
           /\ GetAmount1Delta(a, b, liquidity, round_up) \in U128
<1> DEFINE lower == Lesser(a, b)
           upper == Greater(a, b)
           num   == SatMul(liquidity, upper - lower)
           den   == MulQ64(lower, upper)
<1>1. lower \in U128 /\ upper \in U128 /\ upper - lower \in U128
  BY ExtremesType
<1>2. num \in U128 /\ den \in U128
  BY <1>1, SatMulType, U128IsNat, MulQ64Type
<1>3. Q64 \in Nat \ {0} /\ U128Max \in U128 /\ (den # 0 => den \in Nat \ {0})
  BY <1>2, WidthsPositive, U128IsNat
<1> HIDE DEF num, den
<1>4. den # 0 => num \div den \in U128 /\ CeilDiv(num, den) \in U128
  BY <1>2, <1>3, QuotientType, CeilDivType
<1>5. num \div Q64 \in U128 /\ CeilDiv(num, Q64) \in U128
  BY <1>2, <1>3, QuotientType, CeilDivType
<1>6. GetAmount0Delta(a, b, liquidity, round_up) \in U128
  BY <1>3, <1>4 DEF GetAmount0Delta, num, den
<1>7. GetAmount1Delta(a, b, liquidity, round_up) \in U128
  BY <1>5 DEF GetAmount1Delta, num
<1> QED
  BY <1>6, <1>7

LEMMA NextSqrtPriceType ==
    ASSUME NEW price \in U128, NEW liquidity \in U128, NEW amount \in U128
    PROVE  /\ NextSqrtPriceFromAmount0(price, liquidity, amount) \in U128
           /\ NextSqrtPriceFromAmount1(price, liquidity, amount) \in U128
<1> DEFINE num == (liquidity % Q64) * Q64
           add == (amount % Q64) * Q64
           den == SatAdd(num \div Q64, SatMul(amount, price) \div Q64)
<1>1. Q64 \in Nat \ {0} /\ 0 \in U128
  BY WidthsPositive
<1>2. num \in U128 /\ add \in U128
  BY HalvesType, ShiftUpType
<1>3. den \in U128
  <2>1. SatMul(amount, price) \in Nat /\ num \in Nat
    BY <1>2, SatMulType, U128IsNat
  <2> HIDE DEF num
  <2>2. num \div Q64 \in Nat /\ SatMul(amount, price) \div Q64 \in Nat
    BY <2>1, <1>1, DivNat
  <2> QED
    BY <2>2, SatAddType
<1>4. (den # 0 => den \in Nat \ {0}) /\ (liquidity # 0 => liquidity \in Nat \ {0})
  BY <1>3, U128IsNat
<1> HIDE DEF num, add, den
<1>5. (den # 0 => num \div den \in U128) /\ (liquidity # 0 => add \div liquidity \in U128)
  BY <1>2, <1>4, QuotientType
<1>6. NextSqrtPriceFromAmount0(price, liquidity, amount) \in U128
  BY <1>1, <1>5 DEF NextSqrtPriceFromAmount0, num, den
<1>7. SatAdd(price, IF liquidity = 0 THEN 0 ELSE add \div liquidity) \in U128
  BY <1>1, <1>5, SatAddType, U128IsNat
<1> QED
  BY <1>6, <1>7 DEF NextSqrtPriceFromAmount1, add

LEMMA FeeType ==
    ASSUME NEW amount \in U128, NEW fee_rate \in Nat
    PROVE  /\ ComputeFee(amount, fee_rate) \in U128
           /\ AmountLessFee(amount, fee_rate) \in U128
           /\ AmountLessFee(amount, fee_rate) <= amount
<1>1. FEE_DENOMINATOR \in Nat \ {0} /\ FEE_DENOMINATOR - 1 \in Nat
  BY FeeAssumption
<1>2. SatMul(amount, fee_rate) \in Nat
  BY SatMulType, U128IsNat
<1>3. SatAdd(SatMul(amount, fee_rate), FEE_DENOMINATOR - 1) \in U128
  BY <1>1, <1>2, SatAddType
<1>4. ComputeFee(amount, fee_rate) \in U128
  BY <1>1, <1>3, QuotientType DEF ComputeFee
<1> QED
  BY <1>4, SatSubType, U128IsNat DEF AmountLessFee

SwapStep == [sqrt_price_next : U128, amount_in : U128, amount_out : U128, fee_amount : U128]

\* A step of u128 values yields u128 values, and it disposes of all of the input:
\* amount_in and the fee leave nothing over.
LEMMA ComputeSwapStepType ==
    ASSUME NEW current \in U128, NEW target \in U128, NEW liquidity \in U128,
           NEW amount \in U128, NEW fee_rate \in Nat
    PROVE  LET step == ComputeSwapStep(current, target, liquidity, amount, fee_rate)
           IN  /\ step \in SwapStep
               /\ SatSub(amount, step.amount_in + step.fee_amount) = 0
<1> DEFINE down == current >= target
           net  == AmountLessFee(amount, fee_rate)
           next == NextSqrtPrice(current, target, liquidity, net, down)
           ain  == AmountIn(current, next, liquidity, down)
           aout == AmountOut(current, next, liquidity, down)
           fee  == SatSub(amount, ain)
<1>1. net \in U128 /\ down \in BOOLEAN
  BY FeeType
<1> HIDE DEF net, down
<1>2. next \in U128
  BY <1>1, NextSqrtPriceType DEF NextSqrtPrice
<1> HIDE DEF next
<1>3. ain \in U128 /\ aout \in U128
  BY <1>1, <1>2, AmountDeltaType DEF AmountIn, AmountOut
<1> HIDE DEF ain, aout
<1>4. fee \in U128 /\ SatSub(amount, ain + fee) = 0
  BY <1>3, WidthsPositive DEF SatSub
<1>5. ComputeSwapStep(current, target, liquidity, amount, fee_rate)
        = [sqrt_price_next |-> next, amount_in |-> ain, amount_out |-> aout, fee_amount |-> fee]
  BY DEF ComputeSwapStep, StepPrice, StepTo, StepResult, next, ain, aout, fee, net, down
<1> HIDE DEF fee
<1> QED
  BY <1>2, <1>3, <1>4, <1>5 DEF SwapStep

-------------------------------------------------------------------------------
(* The upward step is exact: the saturations and the lost high halves of       *)
(* u128 products never bite, because an input is a u64 and the fee takes at    *)
(* least one unit of it.                                                       *)

\* The rounded-up cost of a product that an amount below Q64 - 1 covers.
LEMMA CostCovered ==
    ASSUME NEW liquidity \in Nat, NEW width \in Nat, NEW net \in 0 .. Q64 - 2,
           liquidity * width <= Q64 * net
    PROVE  LET cost == CeilDiv(SatMul(liquidity, width), Q64)
           IN  /\ cost \in Nat /\ cost <= net
               /\ liquidity * width <= Q64 * cost
<1> DEFINE Q == Q64
           x == liquidity * width
<1>1. Q \in Nat \ {0} /\ Q >= 2 /\ U128Max = Q * Q - 1 /\ Q * Q \in Nat
  BY WidthsPositive
<1>2. x \in Nat /\ net \in 0 .. Q - 2
  OBVIOUS
<1> HIDE DEF Q
<1>3. Q * net <= Q * (Q - 2) /\ Q * (Q - 2) = Q * Q - 2 * Q /\ Q * net \in Nat
  BY <1>1, <1>2
<1>4. x <= Q * net
  BY DEF Q
<1> HIDE DEF x
<1>5. SatMul(liquidity, width) = x
  <2>1. x <= U128Max
    BY <1>1, <1>2, <1>3, <1>4
  <2> QED
    BY <2>1, SatMulExact DEF x
<1>6. SatAdd(x, Q - 1) = x + Q - 1
  BY <1>1, <1>2, <1>3, <1>4 DEF SatAdd
<1> DEFINE cost == (x + Q - 1) \div Q
<1>7. cost \in Nat /\ Q * cost \in Int /\ x + Q - 1 < Q * cost + Q
  <2>1. x + Q - 1 \in Nat
    BY <1>1, <1>2
  <2> QED
    BY <2>1, <1>1, DivBounds, DivNat
<1>8. cost < net + 1
  <2>1. x + Q - 1 < Q * (net + 1) /\ x + Q - 1 \in Int /\ net + 1 \in Int
    <3>1. Q * (net + 1) = Q * net + Q
      BY <1>1, <1>2
    <3> QED
      BY <3>1, <1>1, <1>2, <1>3, <1>4
  <2> QED
    BY <2>1, <1>1, DivUpper
<1> HIDE DEF cost
<1>9. cost <= net /\ x <= Q * cost
  BY <1>1, <1>2, <1>7, <1>8
<1>10. CeilDiv(SatMul(liquidity, width), Q64) = cost
  BY <1>5, <1>6 DEF CeilDiv, cost, Q
<1> QED
  BY <1>7, <1>9, <1>10 DEF x, Q

\* Conversely, an amount that reaches the rounded-up cost covers the product.
LEMMA CostReached ==
    ASSUME NEW liquidity \in Nat, NEW width \in Nat, NEW net \in 0 .. Q64 - 2,
           CeilDiv(SatMul(liquidity, width), Q64) <= net
    PROVE  liquidity * width <= Q64 * net
<1> DEFINE Q == Q64
           x == liquidity * width
           p == SatMul(liquidity, width)
           s == SatAdd(p, Q - 1)
<1>1. Q \in Nat \ {0} /\ Q >= 2 /\ U128Max = Q * Q - 1 /\ Q * Q \in Nat
  BY WidthsPositive
<1>2. x \in Nat /\ net \in 0 .. Q - 2 /\ p \in Nat
  BY SatMulType, U128IsNat
<1>3. s \in Nat /\ s \div Q <= net
  <2>1. s \div Q = CeilDiv(p, Q)
    BY DEF CeilDiv
  <2> HIDE DEF p, Q
  <2>2. Q - 1 \in Nat
    BY <1>1
  <2>3. s \in Nat
    BY <1>2, <2>2, SatAddType, U128IsNat
  <2> HIDE DEF s
  <2> QED
    BY <2>1, <2>3 DEF p, Q
<1>4. x > U128Max => p = U128Max
  BY SatMulSaturates
<1>5. x <= U128Max => p = x
  BY SatMulExact
<1> HIDE DEF Q, x, p, s
<1>6. s < Q * net + Q
  <2> DEFINE q == s \div Q
  <2>1. q \in Int /\ Q * q \in Int /\ s < Q * q + Q /\ q <= net
    BY <1>1, <1>3, DivBounds
  <2> HIDE DEF q
  <2>2. Q * q <= Q * net /\ Q * net \in Int
    BY <1>1, <1>2, <2>1
  <2> QED
    BY <2>1, <2>2, <1>1, <1>3
<1>7. Q * net <= Q * (Q - 2) /\ Q * (Q - 2) = Q * Q - 2 * Q /\ Q * net \in Nat
  BY <1>1, <1>2
<1>8. s = p + Q - 1 /\ p <= U128Max - Q + 1
  <2>1. s # U128Max
    BY <1>1, <1>3, <1>6, <1>7
  <2> QED
    BY <2>1, <1>1, <1>2 DEF SatAdd, s
<1>9. p <= Q * net
  BY <1>1, <1>2, <1>6, <1>7, <1>8
<1>10. p = x
  BY <1>1, <1>2, <1>4, <1>5, <1>8
<1> QED
  BY <1>9, <1>10 DEF x, Q

\* The fee takes a unit of every input, so that what is left is below Q64 - 1.
LEMMA NetBelowWidth ==
    ASSUME NEW amount \in U64, NEW fee_rate \in Nat \ {0}
    PROVE  AmountLessFee(amount, fee_rate) \in 0 .. Q64 - 2
<1> DEFINE F == FEE_DENOMINATOR
           m == SatMul(amount, fee_rate)
<1>1. /\ F \in Nat \ {0} /\ F <= U128Max
      /\ amount \in 0 .. Q64 - 1 /\ Q64 \in Nat /\ Q64 >= 2 /\ U128Max \in Nat
  BY FeeAssumption, WidthsPositive, U128IsNat
<1>2. amount \in U128 /\ amount \in Nat /\ fee_rate \in Nat
  BY WidthsPositive
<1>3. ComputeFee(amount, fee_rate) \in U128
  BY <1>2, FeeType
<1> HIDE DEF F
<1>4. CASE amount = 0
  BY <1>1, <1>3, <1>4, U128IsNat DEF AmountLessFee, SatSub
<1>5. CASE amount # 0
  <2>1. m \in Nat /\ m >= 1
    <3>1. amount * fee_rate \in Nat /\ amount * fee_rate >= 1
      BY <1>2, <1>5
    <3>2. U128Max >= 1
      BY <1>1
    <3>3. m \in U128
      BY <1>2, SatMulType
    <3>4. CASE amount * fee_rate <= U128Max
      BY <3>1, <3>4, <1>2, SatMulExact
    <3>5. CASE amount * fee_rate > U128Max
      BY <3>2, <3>5, <1>1, <1>2, SatMulSaturates
    <3> QED
      BY <3>1, <3>4, <3>5, <1>1
  <2> HIDE DEF m
  <2>2. SatAdd(m, F - 1) \in Nat /\ SatAdd(m, F - 1) >= F
    BY <2>1, <1>1 DEF SatAdd
  <2>3. SatAdd(m, F - 1) \div F >= 1
    <3>1. F * 1 <= SatAdd(m, F - 1)
      BY <2>2, <1>1
    <3> QED
      BY <3>1, <2>2, <1>1, DivLower
  <2>4. ComputeFee(amount, fee_rate) >= 1
    BY <2>3 DEF ComputeFee, F, m
  <2> QED
    BY <2>4, <1>1, <1>3, U128IsNat DEF AmountLessFee, SatSub
<1> QED
  BY <1>4, <1>5

\* A rate below one never asks for more than the amount.
LEMMA FeeWithinAmount ==
    ASSUME NEW amount \in U64, NEW fee_rate \in 0 .. FEE_DENOMINATOR - 1
    PROVE  /\ ComputeFee(amount, fee_rate) \in Nat
           /\ ComputeFee(amount, fee_rate) <= amount
           /\ AmountLessFee(amount, fee_rate) = amount - ComputeFee(amount, fee_rate)
<1> DEFINE F == FEE_DENOMINATOR
           m == SatMul(amount, fee_rate)
<1>1. /\ F \in Nat \ {0} /\ fee_rate \in 0 .. F - 1 /\ fee_rate \in Nat
      /\ amount \in Nat /\ amount \in U128 /\ U128Max \in Nat
  BY FeeAssumption, WidthsPositive, U128IsNat
<1>2. ComputeFee(amount, fee_rate) \in Nat
  BY <1>1, FeeType, U128IsNat
<1> HIDE DEF F
<1>3. /\ amount * fee_rate \in Nat /\ F * (amount + 1) \in Nat
      /\ amount * fee_rate <= amount * (F - 1)
      /\ amount * (F - 1) = F * (amount + 1) - F - amount
  BY <1>1
<1>4. m \in Nat /\ m <= amount * fee_rate
  <2>1. CASE amount * fee_rate <= U128Max
    BY <1>1, <1>3, <2>1, SatMulExact
  <2>2. CASE amount * fee_rate > U128Max
    BY <1>1, <1>3, <2>2, SatMulSaturates
  <2> QED
    BY <1>1, <1>3, <2>1, <2>2
<1> HIDE DEF m
<1>5. SatAdd(m, F - 1) \in Nat /\ SatAdd(m, F - 1) <= m + F - 1
  BY <1>1, <1>4 DEF SatAdd
<1>6. SatAdd(m, F - 1) < F * (amount + 1)
  BY <1>1, <1>3, <1>4, <1>5
<1>7. SatAdd(m, F - 1) \div F < amount + 1
  <2> DEFINE s == SatAdd(m, F - 1)
             above == amount + 1
  <2>1. s \in Int /\ above \in Int /\ s < F * above
    BY <1>1, <1>5, <1>6
  <2> HIDE DEF s, above
  <2>2. s \div F < above
    BY <1>1, <2>1, DivUpper
  <2> QED
    BY <2>2 DEF s, above
<1>8. ComputeFee(amount, fee_rate) = SatAdd(m, F - 1) \div F
  BY DEF ComputeFee, m, F
<1>9. ComputeFee(amount, fee_rate) <= amount
  BY <1>1, <1>2, <1>7, <1>8
<1> QED
  BY <1>1, <1>2, <1>9 DEF AmountLessFee, SatSub

\* Moving up, the price stops at the target at the latest, the step takes no more
\* than the input after the fee, and takes what the way it went costs: the price
\* moved by the whole amount or by all the way.
THEOREM UpwardStep ==
    ASSUME NEW current \in U128, NEW target \in U128, current < target,
           NEW liquidity \in U128 \ {0}, NEW amount \in U64, NEW fee_rate \in Nat \ {0}
    PROVE  LET net  == AmountLessFee(amount, fee_rate)
               step == ComputeSwapStep(current, target, liquidity, amount, fee_rate)
           IN  /\ current <= step.sqrt_price_next /\ step.sqrt_price_next <= target
               /\ step.amount_in <= net
               /\ step.amount_in * Q64 >= liquidity * (step.sqrt_price_next - current)
               /\ step.sqrt_price_next < target =>
                     liquidity * (step.sqrt_price_next + 1 - current) > net * Q64
<1> DEFINE net  == AmountLessFee(amount, fee_rate)
           next == NextSqrtPrice(current, target, liquidity, net, FALSE)
           ain  == AmountIn(current, next, liquidity, FALSE)
<1>1. /\ current \in Nat /\ target \in Nat /\ liquidity \in Nat \ {0}
      /\ Q64 \in Nat \ {0} /\ U128Max \in Nat /\ target <= U128Max
      /\ current <= target
  BY WidthsPositive, U128IsNat
<1>2. net \in 0 .. Q64 - 2
  BY NetBelowWidth
<1> HIDE DEF net
<1>3. ComputeSwapStep(current, target, liquidity, amount, fee_rate)
        = StepResult(next, ain, AmountOut(current, next, liquidity, FALSE), amount)
  <2>1. (current >= target) = FALSE
    BY <1>1
  <2> QED
    BY <2>1, Zenon DEF ComputeSwapStep, StepPrice, StepTo, next, ain, net
<1> HIDE DEF next
<1>4. \A p \in Nat : current <= p =>
         AmountIn(current, p, liquidity, FALSE)
           = CeilDiv(SatMul(liquidity, p - current), Q64)
  BY <1>1 DEF AmountIn, GetAmount1Delta, Greater, Lesser
<1>5. /\ next \in Nat /\ current <= next /\ next <= target
      /\ liquidity * (next - current) <= Q64 * net
      /\ next < target => liquidity * (next + 1 - current) > net * Q64
  <2> DEFINE all == AmountIn(current, target, liquidity, FALSE)
  <2>3. all = CeilDiv(SatMul(liquidity, target - current), Q64)
    BY <1>1, <1>4
  <2>4. all \in Nat
    <3>1. target - current \in Nat
      BY <1>1
    <3> QED
      BY <3>1, <2>3, <1>1, SatMulType, CeilDivType, U128IsNat
  <2> HIDE DEF all
  <2>1. CASE net >= all
    <3>1. next = target
      BY <2>1 DEF NextSqrtPrice, next, all
    <3>2. CeilDiv(SatMul(liquidity, target - current), Q64) <= net
      BY <2>1, <2>3, <2>4, <1>2
    <3>3. liquidity * (target - current) <= Q64 * net
      <4>1. target - current \in Nat
        BY <1>1
      <4> QED
        BY <4>1, <3>2, <1>1, <1>2, CostReached
    <3> QED
      BY <3>1, <3>3, <1>1
  <2>2. CASE ~(net >= all)
    <3> DEFINE m == (net * Q64) \div liquidity
               d == target - current
    <3>1. net * Q64 \in Nat /\ net % Q64 = net /\ net * Q64 = Q64 * net
      BY <1>1, <1>2
    <3>2. m \in Nat /\ liquidity * m \in Int /\ liquidity * m <= net * Q64
          /\ net * Q64 < liquidity * m + liquidity
      BY <3>1, <1>1, DivBounds, DivNat
    <3>3. next = SatAdd(current, m)
      <4>1. next = NextSqrtPriceFromAmount1(current, liquidity, net)
        BY <2>2 DEF NextSqrtPrice, next, all
      <4> QED
        BY <4>1, <3>1, <1>1 DEF NextSqrtPriceFromAmount1
    <3> HIDE DEF m
    <3>4. m < d
      <4>1. d \in Nat /\ liquidity * d \in Nat
        BY <1>1
      <4>2. ASSUME m >= d PROVE FALSE
        <5>1. liquidity * d <= liquidity * m
          BY <4>1, <4>2, <3>2, <1>1
        <5>2. liquidity * d <= Q64 * net
          BY <5>1, <4>1, <3>1, <3>2
        <5>3. CeilDiv(SatMul(liquidity, d), Q64) <= net
          BY <5>2, <4>1, <1>1, <1>2, CostCovered
        <5> QED
          BY <5>3, <2>2, <2>3, <2>4, <1>2
      <4> QED
        BY <4>1, <4>2, <3>2
    <3>5. next = current + m
      BY <3>2, <3>3, <3>4, <1>1 DEF SatAdd
    <3>6. next - current = m /\ liquidity * (next + 1 - current) = liquidity * m + liquidity
      BY <3>2, <3>5, <1>1
    <3> QED
      BY <3>1, <3>2, <3>4, <3>5, <3>6, <1>1
  <2> QED
    BY <2>1, <2>2
<1>6. ain <= net /\ ain * Q64 >= liquidity * (next - current)
  <2>1. next - current \in Nat
    BY <1>1, <1>5
  <2>2. ain = CeilDiv(SatMul(liquidity, next - current), Q64)
    BY <1>4, <1>5 DEF ain
  <2> HIDE DEF ain
  <2>3. /\ ain \in Nat /\ ain <= net
        /\ liquidity * (next - current) <= Q64 * ain
    BY <2>1, <2>2, <1>1, <1>2, <1>5, CostCovered
  <2>4. ain * Q64 = Q64 * ain
    BY <2>3, <1>1
  <2> QED
    BY <2>3, <2>4
<1> HIDE DEF ain
<1> QED
  BY <1>3, <1>5, <1>6 DEF StepResult, net

-------------------------------------------------------------------------------
\* The product assembled from four half-width products is the product, where the
\* product fits.
THEOREM MulQ64Product ==
    ASSUME NEW a \in U128, NEW b \in U128, (a * b) \div Q64 <= U128Max
    PROVE  MulQ64(a, b) = (a * b) \div Q64
<1> DEFINE Q  == Q64
           ah == a \div Q   al == a % Q
           bh == b \div Q   bl == b % Q
           ll == (al * bl) \div Q
           lr == (al * bl) % Q
           q  == (ah * bh) * Q + ah * bl + al * bh + ll
<1>1. Q \in Nat \ {0} /\ U128Max = Q * Q - 1 /\ Q * Q \in Nat /\ a \in Nat /\ b \in Nat
  BY WidthsPositive
<1>2. /\ ah \in 0 .. Q - 1 /\ al \in 0 .. Q - 1
      /\ bh \in 0 .. Q - 1 /\ bl \in 0 .. Q - 1
  BY HalvesType
<1>3. (a * b) \div Q <= U128Max
  OBVIOUS
<1>4. MulQ64(a, b) = SatAdd(SatAdd(SatAdd(((ah * bh) % Q) * Q, ah * bl), al * bh), ll)
  BY DEF MulQ64
<1> HIDE DEF Q
<1>5. a = Q * ah + al /\ b = Q * bh + bl
  BY <1>1
<1> HIDE DEF ah, al, bh, bl
<1>6. /\ ah * bh \in Nat /\ ah * bl \in Nat /\ al * bh \in Nat /\ al * bl \in Nat
      /\ (ah * bh) * Q \in Nat
  BY <1>1, <1>2
<1>7. ll \in Nat /\ lr \in 0 .. Q - 1 /\ al * bl = Q * ll + lr
  <2> DEFINE m == al * bl
  <2>1. m \in Nat
    BY <1>6
  <2>2. ll = m \div Q /\ lr = m % Q
    OBVIOUS
  <2> HIDE DEF m, ll, lr
  <2>3. m \div Q \in Nat /\ m % Q \in 0 .. Q - 1 /\ m = Q * (m \div Q) + (m % Q)
    BY <2>1, <1>1, DivNat
  <2>4. ll \in Nat /\ lr \in 0 .. Q - 1 /\ m = Q * ll + lr
    BY <2>2, <2>3
  <2> QED
    BY <2>4 DEF m
<1> HIDE DEF ll, lr
<1>8. q \in Nat
  BY <1>6, <1>7
<1>9. a * b = Q * q + lr
  <2>1. a * b = Q * (ah * b) + al * b
    BY <1>1, <1>2, <1>5
  <2>2. ah * b = (ah * bh) * Q + ah * bl
    BY <1>1, <1>2, <1>5
  <2>3. al * b = Q * (al * bh) + al * bl
    BY <1>1, <1>2, <1>5
  <2>4. Q * q = Q * ((ah * bh) * Q + ah * bl) + Q * (al * bh) + Q * ll
    BY <1>1, <1>6, <1>7
  <2>5. ah * b \in Nat /\ al * b \in Nat /\ Q * ((ah * bh) * Q + ah * bl) \in Nat
        /\ Q * (al * bh) \in Nat /\ Q * ll \in Nat
    BY <1>1, <1>2, <1>6, <1>7
  <2> HIDE DEF q
  <2> QED
    BY <2>1, <2>2, <2>3, <2>4, <2>5, <1>7
<1>10. (a * b) \div Q = q
  <2>1. a * b \in Int
    BY <1>1
  <2> HIDE DEF q
  <2> QED
    BY <2>1, <1>1, <1>7, <1>8, <1>9, DivUnique
<1>11. q <= Q * Q - 1
  BY <1>1, <1>3, <1>10
<1>12. ah * bh < Q
  <2>1. (ah * bh) * Q <= q
    BY <1>6, <1>7
  <2> DEFINE hh == ah * bh
  <2>2. hh \in Nat /\ hh * Q <= q
    BY <1>6, <2>1
  <2> HIDE DEF hh, q
  <2>3. ASSUME hh >= Q PROVE FALSE
    <3>1. hh * Q >= Q * Q
      BY <2>2, <2>3, <1>1
    <3> QED
      BY <3>1, <2>2, <1>1, <1>8, <1>11
  <2>4. hh < Q
    BY <2>2, <2>3, <1>1
  <2> QED
    BY <2>4 DEF hh
<1>13. (ah * bh) % Q = ah * bh
  BY <1>1, <1>6, <1>12
<1>14. MulQ64(a, b) = q
  <2> DEFINE h == (ah * bh) * Q
             u == ah * bl
             v == al * bh
  <2>1. /\ h \in Nat /\ u \in Nat /\ v \in Nat
        /\ h + u + v + ll = q
    BY <1>6
  <2>2. MulQ64(a, b) = SatAdd(SatAdd(SatAdd(h, u), v), ll)
    BY <1>4, <1>13
  <2> HIDE DEF h, u, v, q
  <2>3. SatAdd(h, u) = h + u
    BY <2>1, <1>1, <1>7, <1>11 DEF SatAdd
  <2>4. SatAdd(h + u, v) = h + u + v
    BY <2>1, <1>1, <1>7, <1>11 DEF SatAdd
  <2>5. SatAdd(h + u + v, ll) = q
    BY <2>1, <1>1, <1>7, <1>11 DEF SatAdd
  <2> QED
    BY <2>2, <2>3, <2>4, <2>5
<1> QED
  BY <1>10, <1>14 DEF Q
-------------------------------------------------------------------------------
(* More input.  The fee on one unit more is at most one unit more, so what is  *)
(* left for the way never shrinks; the output grows as long as the numerator   *)
(* outweighs the rounding of the denominator.                                  *)

LEMMA SatMulGrows ==
    ASSUME NEW a \in Nat, NEW b \in Nat
    PROVE  SatMul(a + 1, b) \in Nat /\ SatMul(a, b) \in Nat /\ SatMul(a + 1, b) <= SatMul(a, b) + b
<1> DEFINE x == a * b
           y == (a + 1) * b
           M == U128Max
<1>1. x \in Nat /\ y = x + b /\ y \in Nat /\ M \in Nat
  BY WidthsPositive, U128IsNat
<1>2. /\ x <= M => SatMul(a, b) = x
      /\ x > M => SatMul(a, b) = M
  BY SatMulExact, SatMulSaturates
<1>3. /\ y <= M => SatMul(a + 1, b) = y
      /\ y > M => SatMul(a + 1, b) = M
  BY SatMulExact, SatMulSaturates
<1> HIDE DEF x, y, M
<1> QED
  BY <1>1, <1>2, <1>3

LEMMA NetGrows ==
    ASSUME NEW amount \in U64, amount + 1 \in U64, NEW fee_rate \in 0 .. FEE_DENOMINATOR - 1
    PROVE  AmountLessFee(amount, fee_rate) <= AmountLessFee(amount + 1, fee_rate)
<1> DEFINE F == FEE_DENOMINATOR
           m == SatMul(amount, fee_rate)
           n == SatMul(amount + 1, fee_rate)
           s == SatAdd(m, F - 1)
           t == SatAdd(n, F - 1)
           fee == s \div F
<1>1. F \in Nat \ {0} /\ fee_rate \in Nat /\ fee_rate <= F - 1 /\ amount \in Nat /\ U128Max \in Nat
  BY FeeAssumption, WidthsPositive, U128IsNat
<1>2. m \in Nat /\ n \in Nat /\ n <= m + fee_rate
  BY <1>1, SatMulGrows
<1> HIDE DEF F, m, n
<1>3. s \in Nat /\ t \in Nat /\ t <= s + F
  BY <1>1, <1>2 DEF SatAdd
<1> HIDE DEF s, t
<1>4. fee \in Int /\ s < F * fee + F /\ F * fee \in Int
  BY <1>1, <1>3, DivBounds
<1> HIDE DEF fee
<1>5. t \div F < fee + 2
  <2> DEFINE above == fee + 2
  <2>1. above \in Int /\ F * above = F * fee + F + F
    BY <1>1, <1>4
  <2> HIDE DEF above
  <2>2. t < F * above
    BY <1>1, <1>3, <1>4, <2>1
  <2>3. t \div F < above
    BY <1>1, <1>3, <2>1, <2>2, DivUpper
  <2> QED
    BY <2>3 DEF above
<1>6. t \div F \in Int
  BY <1>1, <1>3, DivBounds
<1>7. ComputeFee(amount, fee_rate) = fee /\ ComputeFee(amount + 1, fee_rate) = t \div F
  BY DEF ComputeFee, F, m, n, s, t, fee
<1>8. /\ AmountLessFee(amount, fee_rate) = amount - fee
      /\ AmountLessFee(amount + 1, fee_rate) = (amount + 1) - (t \div F)
  <2> DEFINE one == amount + 1
  <2>1. /\ AmountLessFee(amount, fee_rate) = amount - ComputeFee(amount, fee_rate)
        /\ AmountLessFee(one, fee_rate) = one - ComputeFee(one, fee_rate)
    <3>1. one \in U64
      OBVIOUS
    <3> HIDE DEF one
    <3> QED
      BY <3>1, FeeWithinAmount
  <2>2. ComputeFee(one, fee_rate) = t \div F
    BY <1>7
  <2> HIDE DEF one
  <2>3. /\ AmountLessFee(amount, fee_rate) = amount - fee
        /\ AmountLessFee(one, fee_rate) = one - (t \div F)
    BY <2>1, <2>2, <1>7
  <2> QED
    BY <2>3 DEF one
<1> QED
  BY <1>1, <1>4, <1>5, <1>6, <1>8

\* A larger net input reaches at least the same price.
LEMMA NextPriceGrows ==
    ASSUME NEW current \in U128, NEW target \in U128, current < target,
           NEW liquidity \in U128 \ {0},
           NEW net \in 0 .. Q64 - 2, NEW more \in 0 .. Q64 - 2, net <= more,
           NextSqrtPrice(current, target, liquidity, net, FALSE) <= target
    PROVE  NextSqrtPrice(current, target, liquidity, net, FALSE)
             <= NextSqrtPrice(current, target, liquidity, more, FALSE)
<1> DEFINE cost == AmountIn(current, target, liquidity, FALSE)
           p == (net * Q64) \div liquidity
           q == (more * Q64) \div liquidity
<1>1. /\ current \in Nat /\ target \in Nat /\ liquidity \in Nat \ {0} /\ Q64 \in Nat \ {0}
      /\ U128Max \in Nat
  BY WidthsPositive, U128IsNat
<1>2. cost \in Nat
  BY AmountDeltaType, U128IsNat DEF AmountIn
<1>3. net % Q64 = net /\ more % Q64 = more /\ net \in Nat /\ more \in Nat
  BY <1>1
<1>4. net * Q64 \in Nat /\ more * Q64 \in Nat /\ net * Q64 <= more * Q64
  BY <1>1, <1>3
<1>5. p \in Nat /\ q \in Nat /\ p <= q
  BY <1>1, <1>4, DivNat, DivMonotone
<1>6. /\ NextSqrtPriceFromAmount1(current, liquidity, net) = SatAdd(current, p)
      /\ NextSqrtPriceFromAmount1(current, liquidity, more) = SatAdd(current, q)
  BY <1>1, <1>3 DEF NextSqrtPriceFromAmount1
<1> HIDE DEF cost, p, q
<1>7. CASE more >= cost
  BY <1>7 DEF NextSqrtPrice, cost
<1>8. CASE ~(more >= cost)
  <2>1. ~(net >= cost)
    BY <1>2, <1>3, <1>8
  <2>2. /\ NextSqrtPrice(current, target, liquidity, net, FALSE) = SatAdd(current, p)
        /\ NextSqrtPrice(current, target, liquidity, more, FALSE) = SatAdd(current, q)
    BY <1>6, <1>8, <2>1 DEF NextSqrtPrice, cost
  <2>3. SatAdd(current, p) <= SatAdd(current, q)
    BY <1>1, <1>5 DEF SatAdd
  <2> QED
    BY <2>2, <2>3
<1> QED
  BY <1>7, <1>8

\* Where the numerator grows by the liquidity and the denominator by at most
\* `units` at a time.
LEMMA QuotientGrows ==
    ASSUME NEW liquidity \in Nat, NEW width \in Nat, NEW further \in Nat, NEW units \in Nat,
           NEW den \in Nat \ {0}, NEW after \in Nat \ {0}, after <= den + units * further,
           ((liquidity * width) \div den) * units <= liquidity
    PROVE  (liquidity * width) \div den <= (liquidity * (width + further)) \div after
<1> DEFINE x   == liquidity * width
           out == x \div den
           y   == liquidity * (width + further)
<1>1. x \in Nat /\ y = x + further * liquidity /\ y \in Nat /\ further * liquidity \in Nat
  OBVIOUS
<1> HIDE DEF x, y
<1>2. out \in Nat /\ den * out <= x
  BY <1>1, DivNat, DivBounds
<1>3. out * units <= liquidity
  BY DEF x
<1> HIDE DEF out
<1>4. after * out <= (den + units * further) * out
  BY <1>2
<1>5. (den + units * further) * out = den * out + further * (out * units)
  BY <1>2
<1>6. further * (out * units) <= further * liquidity
  <2> DEFINE z == out * units
  <2>1. z \in Nat /\ z <= liquidity
    BY <1>2, <1>3
  <2> HIDE DEF z
  <2>2. further * z <= further * liquidity
    BY <2>1
  <2> QED
    BY <2>2 DEF z
<1>7. after * out <= y
  <2>1. after * out \in Nat /\ den * out \in Nat /\ further * (out * units) \in Nat
    BY <1>2
  <2> QED
    BY <2>1, <1>1, <1>2, <1>4, <1>5, <1>6
<1>8. out <= y \div after
  BY <1>1, <1>2, <1>7, DivLower
<1> QED
  BY <1>8 DEF out, x, y
\* What a step upwards gives: the exact quotient, unless the denominator is nothing.
LEMMA OutputUp ==
    ASSUME NEW current \in U128, NEW next \in U128, current <= next, NEW target \in U128,
           next <= target, (current * target) \div Q64 <= U128Max,
           NEW liquidity \in U128, liquidity * (next - current) <= U128Max
    PROVE  LET den == (current * next) \div Q64
           IN  /\ den \in Nat
               /\ GetAmount0Delta(current, next, liquidity, FALSE)
                    = IF current = 0 \/ den = 0 THEN U128Max
                      ELSE (liquidity * (next - current)) \div den
<1> DEFINE den == (current * next) \div Q64
<1>1. /\ current \in Nat /\ next \in Nat /\ target \in Nat /\ liquidity \in Nat
      /\ Q64 \in Nat \ {0} /\ U128Max \in Nat
  BY WidthsPositive, U128IsNat
<1>2. den \in Nat /\ den <= U128Max
  <2> DEFINE x == current * next
             y == current * target
  <2>1. x \in Nat /\ y \in Nat /\ x <= y
    BY <1>1
  <2> HIDE DEF x, y
  <2>2. x \div Q64 <= y \div Q64 /\ x \div Q64 \in Nat /\ y \div Q64 \in Nat
    BY <1>1, <2>1, DivMonotone, DivNat
  <2>3. y \div Q64 <= U128Max
    BY DEF y
  <2> QED
    BY <1>1, <2>2, <2>3 DEF x
<1>3. MulQ64(current, next) = den
  BY <1>2, MulQ64Product
<1> HIDE DEF den
<1>4. Lesser(current, next) = current /\ Greater(current, next) = next
  BY <1>1 DEF Lesser, Greater
<1>5. SatMul(liquidity, next - current) = liquidity * (next - current)
  <2>1. next - current \in Nat
    BY <1>1
  <2> QED
    BY <1>1, <2>1, SatMulExact
<1>6. GetAmount0Delta(current, next, liquidity, FALSE)
        = IF current = 0 \/ den = 0 THEN U128Max
          ELSE (liquidity * (next - current)) \div den
  BY <1>3, <1>4, <1>5 DEF GetAmount0Delta
<1> QED
  BY <1>2, <1>6 DEF den

\* The prices of two steps: the denominator grows by no more than the whole units
\* of the price for every unit of the way.
LEMMA DenominatorGrows ==
    ASSUME NEW current \in Nat, NEW next \in Nat, NEW further \in Nat
    PROVE  LET units == (current + Q64 - 1) \div Q64
               den   == (current * next) \div Q64
               after == (current * (next + further)) \div Q64
           IN  /\ units \in Nat /\ den \in Nat /\ after \in Nat
               /\ den <= after /\ after <= den + units * further
<1> DEFINE Q     == Q64
           top   == current + Q - 1
           units == top \div Q
           x     == current * next
           y     == current * (next + further)
           den   == x \div Q
           after == y \div Q
<1>1. Q \in Nat \ {0}
  BY WidthsPositive
<1>2. top \in Nat /\ top = current + (Q - 1) /\ x \in Nat /\ y \in Nat
      /\ y = x + current * further /\ current * further \in Nat
  BY <1>1
<1> HIDE DEF top, x, y, Q
<1>3. units \in Nat /\ top < Q * units + Q /\ Q * units \in Int
  BY <1>1, <1>2, DivNat, DivBounds
<1> HIDE DEF units
<1>4. current <= Q * units
  BY <1>1, <1>2, <1>3
<1>5. current * further <= (Q * units) * further
  BY <1>3, <1>4
<1>6. (Q * units) * further = Q * (units * further) /\ units * further \in Nat
  BY <1>1, <1>3
<1>7. den \in Nat /\ after \in Nat /\ x < Q * den + Q /\ Q * den \in Int /\ den <= after
  BY <1>1, <1>2, DivNat, DivBounds, DivMonotone
<1> HIDE DEF den
<1>8. after < den + units * further + 1
  <2> DEFINE m == den + units * further + 1
             z == units * further
  <2>1. z \in Nat /\ m = den + z + 1 /\ m \in Int /\ current * further <= Q * z
    BY <1>5, <1>6, <1>7
  <2>2. Q * (den + z + 1) = Q * den + Q * z + Q /\ Q * z \in Int
    BY <1>1, <1>7, <2>1
  <2> HIDE DEF m, z
  <2>3. y < Q * m
    BY <1>1, <1>2, <1>7, <2>1, <2>2
  <2>4. y \div Q < m
    BY <1>1, <1>2, <2>1, <2>3, DivUpper
  <2> QED
    BY <2>4 DEF m
<1> HIDE DEF after
<1>9. after <= den + units * further
  BY <1>6, <1>7, <1>8
<1> QED
  BY <1>3, <1>7, <1>9 DEF units, den, after, x, y, top, Q

\* One more unit of input: the price goes at least as far, and as long as the
\* output times the whole units of the price stays below the liquidity, the output
\* is at least as large.
THEOREM UpwardStepGrows ==
    ASSUME NEW current \in U128, NEW target \in U128, current < target,
           NEW liquidity \in U128 \ {0}, NEW amount \in U64, amount + 1 \in U64,
           NEW fee_rate \in 1 .. FEE_DENOMINATOR - 1
    PROVE  LET step == ComputeSwapStep(current, target, liquidity, amount, fee_rate)
               more == ComputeSwapStep(current, target, liquidity, amount + 1, fee_rate)
           IN  /\ step.sqrt_price_next <= more.sqrt_price_next
               /\ /\ (current * target) \div Q64 <= U128Max
                  /\ step.amount_out * ((current + Q64 - 1) \div Q64) < liquidity
                  => step.amount_out <= more.amount_out
<1> DEFINE net(a)  == AmountLessFee(a, fee_rate)
           next(a) == NextSqrtPrice(current, target, liquidity, net(a), FALSE)
           step(a) == ComputeSwapStep(current, target, liquidity, a, fee_rate)
           out(a)  == GetAmount0Delta(current, next(a), liquidity, FALSE)
           one == amount + 1
<1>1. /\ current \in Nat /\ target \in Nat /\ liquidity \in Nat \ {0} /\ Q64 \in Nat \ {0}
      /\ fee_rate \in Nat \ {0} /\ fee_rate \in 0 .. FEE_DENOMINATOR - 1 /\ U128Max \in Nat
  BY WidthsPositive, U128IsNat, FeeAssumption
<1>2. ASSUME NEW a \in U64
      PROVE  /\ step(a).sqrt_price_next = next(a) /\ step(a).amount_out = out(a)
             /\ net(a) \in 0 .. Q64 - 2
             /\ next(a) \in U128 /\ current <= next(a) /\ next(a) <= target
             /\ liquidity * (next(a) - current) <= U128Max
  <2> DEFINE ain == AmountIn(current, next(a), liquidity, FALSE)
  <2>1. step(a) = StepResult(next(a), ain, AmountOut(current, next(a), liquidity, FALSE), a)
    <3>1. (current >= target) = FALSE
      BY <1>1
    <3> QED
      BY <3>1, Zenon DEF ComputeSwapStep, StepPrice, StepTo
  <2>2. net(a) \in 0 .. Q64 - 2
    BY <1>1, NetBelowWidth
  <2>3. /\ current <= step(a).sqrt_price_next /\ step(a).sqrt_price_next <= target
        /\ step(a).amount_in <= net(a)
        /\ step(a).amount_in * Q64 >= liquidity * (step(a).sqrt_price_next - current)
    BY <1>1, UpwardStep
  <2>4. step(a) \in SwapStep
    <3>1. a \in U128 /\ fee_rate \in Nat
      BY <1>1, WidthsPositive
    <3> QED
      BY <3>1, ComputeSwapStepType
  <2>5. /\ step(a).sqrt_price_next = next(a) /\ step(a).amount_out = out(a)
        /\ step(a).amount_in = ain
    BY <2>1 DEF StepResult, AmountOut
  <2> HIDE DEF step, ain, net, next, out
  <2>6. next(a) \in U128 /\ ain \in Nat
    BY <2>4, <2>5, U128IsNat DEF SwapStep
  <2>7. liquidity * (next(a) - current) <= U128Max
    <3>1. ain <= Q64 - 2 /\ ain * Q64 <= (Q64 - 2) * Q64 /\ ain * Q64 \in Nat
      BY <2>2, <2>3, <2>5, <2>6, <1>1
    <3>2. (Q64 - 2) * Q64 = Q64 * Q64 - 2 * Q64 /\ U128Max = Q64 * Q64 - 1 /\ Q64 * Q64 \in Nat
      BY <1>1, WidthsPositive
    <3>3. liquidity * (next(a) - current) \in Int
      <4>1. next(a) \in Nat
        BY <2>6, U128IsNat
      <4> QED
        BY <1>1, <4>1
    <3> QED
      BY <2>3, <2>5, <3>1, <3>2, <3>3, <1>1
  <2> QED
    BY <2>2, <2>3, <2>5, <2>6, <2>7
<1>3. net(amount) <= net(one)
  BY <1>1, NetGrows
<1> HIDE DEF net, step
<1>4. amount \in U64 /\ one \in U64
  OBVIOUS
<1> HIDE DEF one
<1>5. next(amount) <= next(one)
  BY <1>2, <1>3, <1>4, NextPriceGrows
<1> HIDE DEF next
<1>6. ASSUME (current * target) \div Q64 <= U128Max,
             out(amount) * ((current + Q64 - 1) \div Q64) < liquidity
      PROVE  out(amount) <= out(one)
  <2> DEFINE n       == next(amount)
             further == next(one) - n
             units   == (current + Q64 - 1) \div Q64
             den     == (current * n) \div Q64
             after   == (current * (n + further)) \div Q64
  <2>1. n \in Nat /\ further \in Nat /\ n + further = next(one) /\ n - current \in Nat
    <3>1. next(amount) \in Nat /\ next(one) \in Nat /\ current <= next(amount)
      BY <1>2, <1>4, U128IsNat
    <3> QED
      BY <1>1, <1>5, <3>1
  <2>2. /\ units \in Nat /\ den \in Nat /\ after \in Nat
        /\ den <= after /\ after <= den + units * further
    <3> HIDE DEF n, further
    <3> QED
      BY <1>1, <2>1, DenominatorGrows
  <2>3. out(amount) = IF current = 0 \/ den = 0 THEN U128Max
                      ELSE (liquidity * (n - current)) \div den
    BY <1>1, <1>2, <1>4, <1>6, OutputUp
  <2>4. out(one) = IF current = 0 \/ after = 0 THEN U128Max
                   ELSE (liquidity * (next(one) - current)) \div after
    <3>1. out(one) = IF current = 0 \/ (current * next(one)) \div Q64 = 0 THEN U128Max
                     ELSE (liquidity * (next(one) - current)) \div ((current * next(one)) \div Q64)
      BY <1>1, <1>2, <1>4, <1>6, OutputUp
    <3> QED
      BY <2>1, <3>1
  <2>5. CASE current = 0
    <3> HIDE DEF out, n, further, den, after
    <3>1. out(amount) = U128Max /\ out(one) = U128Max
      BY <2>3, <2>4, <2>5
    <3> QED
      BY <3>1, <1>1
  <2>6. CASE current # 0
    <3>1. units >= 1
      <4> DEFINE top == current + Q64 - 1
      <4>1. top \in Int /\ Q64 * 1 <= top
        BY <1>1, <2>6
      <4> HIDE DEF top
      <4>2. 1 <= top \div Q64
        BY <1>1, <4>1, DivLower
      <4> QED
        BY <4>2, <2>2 DEF top
    <3> HIDE DEF n, further, units, den, after
    <3>2. out(amount) * units < liquidity
      BY <1>6 DEF units
    <3> HIDE DEF out
    <3>3. den # 0
      <4>1. ASSUME den = 0 PROVE FALSE
        <5>1. out(amount) = U128Max
          BY <2>3, <4>1
        <5>2. U128Max * units >= U128Max /\ U128Max * units \in Nat
          BY <1>1, <2>2, <3>1
        <5>3. liquidity <= U128Max
          BY WidthsPositive
        <5> QED
          BY <1>1, <3>2, <5>1, <5>2, <5>3
      <4> QED
        BY <4>1
    <3>4. /\ out(amount) = (liquidity * (n - current)) \div den
          /\ out(one) = (liquidity * (next(one) - current)) \div after
          /\ den \in Nat \ {0} /\ after \in Nat \ {0}
      BY <2>2, <2>3, <2>4, <2>6, <3>3
    <3>5. next(one) - current = (n - current) + further
      BY <1>1, <2>1
    <3>6. ((liquidity * (n - current)) \div den) * units <= liquidity
      <4> DEFINE q == (liquidity * (n - current)) \div den
      <4>1. q \in Nat
        <5>1. liquidity * (n - current) \in Nat
          BY <1>1, <2>1
        <5> QED
          BY <5>1, <3>4, DivNat
      <4>2. q * units < liquidity
        BY <3>2, <3>4
      <4> HIDE DEF q
      <4>3. q * units <= liquidity
        BY <4>1, <4>2, <2>2, <1>1
      <4> QED
        BY <4>3 DEF q
    <3> QED
      <4> DEFINE width == n - current
      <4>1. /\ width \in Nat
            /\ ((liquidity * width) \div den) * units <= liquidity
        BY <2>1, <3>6
      <4> HIDE DEF width
      <4>2. (liquidity * width) \div den <= (liquidity * (width + further)) \div after
        BY <1>1, <2>1, <2>2, <3>4, <4>1, QuotientGrows
      <4> QED
        BY <3>4, <3>5, <4>2 DEF width
  <2> QED
    BY <2>5, <2>6
<1>7. /\ step(amount).sqrt_price_next = next(amount) /\ step(amount).amount_out = out(amount)
      /\ step(one).sqrt_price_next = next(one) /\ step(one).amount_out = out(one)
  BY <1>2, <1>4
<1> HIDE DEF out
<1>8. /\ step(amount).sqrt_price_next <= step(one).sqrt_price_next
      /\ /\ (current * target) \div Q64 <= U128Max
         /\ step(amount).amount_out * ((current + Q64 - 1) \div Q64) < liquidity
         => step(amount).amount_out <= step(one).amount_out
  BY <1>5, <1>6, <1>7
<1> QED
  BY <1>8 DEF step, one
===============================================================================
