------------------------------ MODULE SatFacts ------------------------------
(***************************************************************************)
(* Facts about integers, finite sets and sequences that the proofs of      *)
(* several components rest on: arithmetic, intervals, induction over the   *)
(* naturals, and what it shows of sums, which do not depend on the order   *)
(* in which they are taken.                                                *)
(*                                                                         *)
(* Induction is stated for a set of naturals here, not for a predicate.    *)
(***************************************************************************)
EXTENDS Integers, Sequences, FiniteSets, Functions, StdMap, FiniteSetTheorems,
        WellFoundedInduction, TLAPS

\* Quotient and remainder are integers, and the remainder is in range.
LEMMA DivModType ==
  \A a \in Int, b \in Nat \ {0} : a \div b \in Int /\ a % b \in 0 .. b - 1
  OBVIOUS

\* A product of integers is an integer.
LEMMA TimesType == \A a \in Int, b \in Int : a * b \in Int
  OBVIOUS

\* A number is its quotient times the divisor plus its remainder.
LEMMA DivModSplit == \A a \in Int, b \in Nat \ {0} : a = (a \div b) * b + (a % b)
  OBVIOUS

\* Quotient and remainder are the only such pair.
LEMMA DivModUnique ==
  \A q \in Int, b \in Nat \ {0} : \A r \in 0 .. b - 1 :
    (q * b + r) \div b = q /\ (q * b + r) % b = r
  OBVIOUS

\* A number below the divisor is its own remainder.
LEMMA ModSmall == \A b \in Nat \ {0} : \A r \in 0 .. b - 1 : r % b = r
  OBVIOUS

\* Multiples of different numbers are at least the factor apart.
LEMMA TimesMonotonic ==
  \A a \in Int, b \in Int, c \in Nat \ {0} : a < b => a * c + c <= b * c
  OBVIOUS

\* There are n numbers from 1 to n.
LEMMA FirstNumbers == \A n \in Nat : IsFiniteSet(1 .. n) /\ Cardinality(1 .. n) = n
<1>1. ASSUME NEW n \in Nat PROVE IsFiniteSet(1 .. n) /\ Cardinality(1 .. n) = n
  <2>1. IsFiniteSet(1 .. n) /\ Cardinality(1 .. n) = IF 1 > n THEN 0 ELSE n - 1 + 1
    BY FS_Interval
  <2> QED BY <2>1
<1> QED BY <1>1

\* A finite set of numbers from e upwards that has, with each of its
\* elements, all the smaller ones, is an interval.
LEMMA DownClosedInterval ==
  ASSUME NEW e \in Nat, NEW P \in SUBSET Nat, IsFiniteSet(P),
         \A n \in P : n >= e /\ e .. n \subseteq P
  PROVE  P = e .. e + Cardinality(P) - 1
<1>1. Cardinality(P) \in Nat
  BY FS_CardinalityType
<1>2. ASSUME NEW n \in P PROVE n <= e + Cardinality(P) - 1
  <2>1. Cardinality(e .. n) = n - e + 1
    BY FS_Interval
  <2>2. Cardinality(e .. n) <= Cardinality(P)
    BY FS_Subset
  <2> QED BY <2>1, <2>2, <1>1
<1> DEFINE b == e + Cardinality(P) - 1
<1>3. b \in Int /\ b - e + 1 = Cardinality(P)
  BY <1>1
<1>4. P \subseteq e .. b
  BY <1>1, <1>2
<1>5. IsFiniteSet(e .. b) /\ Cardinality(e .. b) = Cardinality(P)
  <2> HIDE DEF b
  <2>1. IsFiniteSet(e .. b) /\ Cardinality(e .. b) = IF e > b THEN 0 ELSE b - e + 1
    BY <1>3, FS_Interval
  <2> QED BY <2>1, <1>1, <1>3
<1> QED BY <1>4, <1>5, FS_Subset

\* The same from above.
LEMMA UpClosedInterval ==
  ASSUME NEW b \in Int, NEW P \in SUBSET Nat, IsFiniteSet(P),
         \A n \in P : n <= b /\ n .. b \subseteq P
  PROVE  P = b - Cardinality(P) + 1 .. b
<1>1. Cardinality(P) \in Nat
  BY FS_CardinalityType
<1>2. ASSUME NEW n \in P PROVE n >= b - Cardinality(P) + 1
  <2>1. Cardinality(n .. b) = b - n + 1
    BY FS_Interval
  <2>2. Cardinality(n .. b) <= Cardinality(P)
    BY FS_Subset
  <2> QED BY <2>1, <2>2, <1>1
<1> DEFINE a == b - Cardinality(P) + 1
<1>3. a \in Int /\ b - a + 1 = Cardinality(P)
  BY <1>1
<1>4. P \subseteq a .. b
  BY <1>1, <1>2
<1>5. IsFiniteSet(a .. b) /\ Cardinality(a .. b) = Cardinality(P)
  <2> HIDE DEF a
  <2>1. IsFiniteSet(a .. b) /\ Cardinality(a .. b) = IF a > b THEN 0 ELSE b - a + 1
    BY <1>3, FS_Interval
  <2> QED BY <2>1, <1>1, <1>3
<1> QED BY <1>4, <1>5, FS_Subset

\* A non-empty bounded set of numbers has a least element.
LEMMA LeastElement ==
  ASSUME NEW b \in Nat, NEW S \in SUBSET (0 .. b), S # {}
  PROVE  \E x \in S : \A y \in S : x <= y
<1> DEFINE U == {n \in 0 .. b : \E x \in S : x <= n}
           lo == b - Cardinality(U) + 1
<1>1. U \in SUBSET Nat /\ S \subseteq U
  OBVIOUS
<1>2. IsFiniteSet(U)
  <2>1. IsFiniteSet(0 .. b)
    BY FS_Interval
  <2> QED BY <2>1, FS_Subset
<1>3. \A n \in U : n <= b /\ n .. b \subseteq U
  OBVIOUS
<1>4. U = lo .. b
  <2> HIDE DEF U
  <2> QED BY <1>1, <1>2, <1>3, UpClosedInterval
<1>5. lo \in Int /\ Cardinality(U) \in Nat
  <2> HIDE DEF U
  <2> QED BY <1>2, FS_CardinalityType
<1>6. lo \in U
  <2>1. PICK z \in S : TRUE
    OBVIOUS
  <2>2. z \in U
    BY <1>1
  <2> HIDE DEF U, lo
  <2> QED BY <1>4, <1>5, <2>2
<1>7. PICK x \in S : x <= lo
  BY <1>6
<1>8. \A y \in U : y >= lo
  <2> HIDE DEF U, lo
  <2> QED BY <1>4, <1>5
<1>9. x = lo
  <2>1. x >= lo
    BY <1>1, <1>8
  <2> HIDE DEF U, lo
  <2> QED BY <1>5, <1>7, <2>1
<1>10. \A y \in S : y >= x
  BY <1>1, <1>8, <1>9
<1> QED BY <1>10

\* A non-empty set of positions has a largest element.
LEMMA LargestElement ==
  ASSUME NEW n \in Nat, NEW T \in SUBSET (1 .. n), T # {}
  PROVE  \E x \in T : \A y \in T : x >= y
<1> DEFINE D == {n - x : x \in T}
<1>1. D \in SUBSET (0 .. n) /\ D # {}
  <2>1. \A x \in T : n - x \in 0 .. n
    OBVIOUS
  <2>2. PICK x \in T : TRUE
    OBVIOUS
  <2> QED BY <2>1, <2>2
<1>2. PICK d \in D : \A e \in D : d <= e
  <2> HIDE DEF D
  <2> QED BY <1>1, LeastElement
<1>3. PICK x \in T : d = n - x
  BY <1>2
<1>4. \A y \in T : n - y \in D
  OBVIOUS
<1>5. \A y \in T : x >= y
  <2> HIDE DEF D
  <2>1. \A y \in T : n - x <= n - y
    BY <1>2, <1>3, <1>4
  <2> QED BY <2>1
<1> QED BY <1>5

\* Different numbers less than b apart have different remainders.
LEMMA ModDistinct ==
  ASSUME NEW b \in Nat \ {0}, NEW p \in Nat, NEW q \in Nat, p < q, q - p < b
  PROVE  p % b # q % b
<1> DEFINE i == p \div b
           j == q \div b
           r == p % b
<1>1. i \in Int /\ j \in Int /\ r \in 0 .. b - 1
  BY DivModType
<1>2. p = i * b + r
  BY DivModSplit
<1>3. SUFFICES ASSUME q % b = r PROVE FALSE
  OBVIOUS
<1>4. q = j * b + r
  BY <1>3, DivModSplit
<1>5. i * b \in Int /\ j * b \in Int
  BY <1>1, TimesType
<1>6. i < j => i * b + b <= j * b
  BY <1>1, TimesMonotonic
<1>7. j < i => j * b + b <= i * b
  BY <1>1, TimesMonotonic
<1> HIDE DEF i, j, r
<1>8. i = j => i * b = j * b
  OBVIOUS
<1> DEFINE x == i * b
           y == j * b
<1>9. /\ x \in Int /\ y \in Int /\ p = x + r /\ q = y + r
      /\ (i < j => x + b <= y) /\ (j < i => y + b <= x) /\ (i = j => x = y)
  BY <1>2, <1>4, <1>5, <1>6, <1>7, <1>8
<1> HIDE DEF x, y
<1> QED BY <1>1, <1>9
\* The image of a finite set is finite, and no larger.
LEMMA ImageIsFinite ==
  ASSUME NEW S, IsFiniteSet(S), NEW p
  PROVE  IsFiniteSet({p[x] : x \in S}) /\ Cardinality({p[x] : x \in S}) <= Cardinality(S)
<1> DEFINE T == {p[x] : x \in S}
           q == [x \in S |-> p[x]]
<1>1. q \in Surjection(S, T)
  BY DEF Surjection
<1> HIDE DEF q, T
<1>2. IsFiniteSet(T) /\ Cardinality(T) <= Cardinality(S)
  BY <1>1, FS_Surjection
<1> QED BY <1>2 DEF T
-----------------------------------------------------------------------------
(* Induction, and recursion over the subsets of a finite set. *)

\* A set of naturals has a least element.
LEMMA LeastNatural ==
  ASSUME NEW T \in SUBSET Nat, T # {}
  PROVE  \E x \in T : \A y \in T : x <= y
<1> DEFINE R == StrictSubsetOrdering(Nat)
           C == {0 .. k : k \in T}
<1>1. IsWellFoundedOn(R, FiniteSubsetsOf(Nat))
  BY FS_StrictSubsetOrderingWellFounded
<1>2. \A k \in T : 0 .. k \in SUBSET Nat /\ IsFiniteSet(0 .. k)
  BY FS_Interval
<1>3. C \subseteq FiniteSubsetsOf(Nat) /\ C # {}
  BY <1>2 DEF FiniteSubsetsOf
<1>4. PICK U \in C : \A V \in C : ~ (<<V, U>> \in R)
  <2> HIDE DEF R, C
  <2> QED BY <1>1, <1>3, WFMin
<1>5. PICK x \in T : U = 0 .. x
  OBVIOUS
<1>6. ASSUME NEW y \in T, y < x
      PROVE  FALSE
  <2>1. 0 .. y \in SUBSET (0 .. x) /\ 0 .. y # 0 .. x
    BY <1>6
  <2>2. <<0 .. y, 0 .. x>> \in R
    BY <2>1 DEF StrictSubsetOrdering
  <2>3. 0 .. y \in C
    OBVIOUS
  <2> QED BY <2>2, <2>3, <1>4, <1>5
<1> QED BY <1>6

\* Induction: a set that has 0, and with every natural the next, has them all.
LEMMA Induction ==
  ASSUME NEW A, 0 \in A, \A n \in Nat : n \in A => n + 1 \in A
  PROVE  \A n \in Nat : n \in A
<1>1. SUFFICES ASSUME Nat \ A # {} PROVE FALSE
  OBVIOUS
<1>2. PICK x \in Nat \ A : \A y \in Nat \ A : x <= y
  <2> DEFINE T == Nat \ A
  <2>1. T \in SUBSET Nat /\ T # {}
    BY <1>1
  <2> HIDE DEF T
  <2>2. \E x \in T : \A y \in T : x <= y
    BY <2>1, LeastNatural
  <2> QED BY <2>2 DEF T
<1>3. x # 0 /\ x - 1 \in Nat
  OBVIOUS
<1>4. x - 1 \in A
  BY <1>2, <1>3
<1>5. (x - 1) + 1 \in A
  BY <1>3, <1>4
<1> QED BY <1>5

\* The function that starts from base and takes a step for the element picked.
Recurs(h, S, base, pick, step) ==
  h = [T \in SUBSET S |-> IF T = {} THEN base ELSE step[pick[T]][h[T \ {pick[T]}]]]

\* A recursion over the subsets of a finite set, an element picked at a time,
\* has a solution.
LEMMA Recursion ==
  ASSUME NEW S, IsFiniteSet(S), NEW Y, NEW base \in Y,
         NEW pick, \A T \in SUBSET S : T # {} => pick[T] \in T,
         NEW step, \A x \in S, y \in Y : step[x][y] \in Y
  PROVE  \E h : Recurs(h, S, base, pick, step) /\ \A T \in SUBSET S : h[T] \in Y
<1> DEFINE Next(h) == [T \in SUBSET S |-> IF T = {} THEN base ELSE step[pick[T]][h[T \ {pick[T]}]]]
           A == {n \in Nat : \E h \in [SUBSET S -> Y] :
                               \A T \in SUBSET S : Cardinality(T) <= n => h[T] = Next(h)[T]}
<1>1. \A h \in [SUBSET S -> Y] : Next(h) \in [SUBSET S -> Y]
  OBVIOUS
<1>2. \A T \in SUBSET S : IsFiniteSet(T) /\ Cardinality(T) \in Nat
  BY FS_Subset, FS_CardinalityType
<1>3. 0 \in A
  <2> DEFINE h == [T \in SUBSET S |-> base]
  <2>1. h \in [SUBSET S -> Y]
    OBVIOUS
  <2>2. ASSUME NEW T \in SUBSET S, Cardinality(T) <= 0 PROVE h[T] = Next(h)[T]
    <3>1. T = {}
      BY <1>2, <2>2, FS_EmptySet
    <3> QED BY <3>1
  <2> HIDE DEF h, Next
  <2> QED BY <2>1, <2>2
<1>4. ASSUME NEW n \in Nat, n \in A PROVE n + 1 \in A
  <2>1. PICK h \in [SUBSET S -> Y] : \A T \in SUBSET S : Cardinality(T) <= n => h[T] = Next(h)[T]
    BY <1>4
  <2> DEFINE g == Next(h)
  <2>2. g \in [SUBSET S -> Y]
    BY <1>1
  <2>3. ASSUME NEW T \in SUBSET S, Cardinality(T) <= n + 1 PROVE g[T] = Next(g)[T]
    <3>1. CASE T = {}
      BY <3>1
    <3>2. CASE T # {}
      <4> DEFINE U == T \ {pick[T]}
      <4>1. U \in SUBSET S /\ Cardinality(U) = Cardinality(T) - 1
        BY <3>2, <1>2, FS_RemoveElement
      <4>2. Cardinality(U) <= n
        BY <4>1, <1>2, <2>3
      <4>3. g[U] = h[U]
        BY <4>1, <4>2, <2>1
      <4>4. g[T] = step[pick[T]][h[U]] /\ Next(g)[T] = step[pick[T]][g[U]]
        BY <3>2
      <4> QED BY <4>3, <4>4
    <3> QED BY <3>1, <3>2
  <2> HIDE DEF g, Next
  <2> QED BY <2>2, <2>3
<1>5. Cardinality(S) \in A
  <2> HIDE DEF A
  <2>1. \A n \in Nat : n \in A
    BY <1>3, <1>4, Induction
  <2> QED BY <2>1, FS_CardinalityType
<1>6. PICK h \in [SUBSET S -> Y] : \A T \in SUBSET S : Cardinality(T) <= Cardinality(S) => h[T] = Next(h)[T]
  BY <1>5
<1>7. \A T \in SUBSET S : h[T] = Next(h)[T]
  <2> HIDE DEF Next
  <2>1. \A T \in SUBSET S : Cardinality(T) <= Cardinality(S)
    BY FS_Subset
  <2> QED BY <1>6, <2>1
<1>8. h = Next(h)
  <2> DEFINE g == Next(h)
  <2>1. g \in [SUBSET S -> Y] /\ \A T \in SUBSET S : h[T] = g[T]
    BY <1>1, <1>7
  <2> HIDE DEF g
  <2>2. h = g
    BY <2>1
  <2> QED BY <2>2 DEF g
<1> QED BY <1>8 DEF Recurs

\* What holds of the empty set, and of a set if it holds without some element of
\* it, holds of every finite set.
LEMMA SubsetInduction ==
  ASSUME NEW S, IsFiniteSet(S), NEW A, {} \in A,
         \A T \in SUBSET S : T # {} => \E x \in T : T \ {x} \in A => T \in A
  PROVE  S \in A
<1> DEFINE N == {n \in Nat : \A T \in SUBSET S : Cardinality(T) = n => T \in A}
<1>1. \A T \in SUBSET S : IsFiniteSet(T) /\ Cardinality(T) \in Nat
  BY FS_Subset, FS_CardinalityType
<1>2. 0 \in N
  <2>1. \A T \in SUBSET S : Cardinality(T) = 0 => T = {}
    BY <1>1, FS_EmptySet
  <2> QED BY <2>1
<1>3. ASSUME NEW n \in Nat, n \in N PROVE n + 1 \in N
  <2>1. ASSUME NEW T \in SUBSET S, Cardinality(T) = n + 1 PROVE T \in A
    <3>1. T # {}
      <4>1. Cardinality({}) = 0 /\ n + 1 # 0
        BY FS_EmptySet
      <4> QED BY <2>1, <4>1
    <3>2. PICK x \in T : T \ {x} \in A => T \in A
      BY <3>1
    <3>3. T \ {x} \in SUBSET S /\ Cardinality(T \ {x}) = n
      <4>1. Cardinality(T \ {x}) = Cardinality(T) - 1
        BY <1>1, FS_RemoveElement
      <4> QED BY <2>1, <4>1
    <3> QED BY <1>3, <3>2, <3>3
  <2> QED BY <2>1
<1>4. Cardinality(S) \in N
  <2> HIDE DEF N
  <2>1. \A n \in Nat : n \in N
    BY <1>2, <1>3, Induction
  <2> QED BY <2>1, FS_CardinalityType
<1> QED BY <1>4
-----------------------------------------------------------------------------
(* Sums of a function over a finite set. *)

Pick(T) == CHOOSE x \in T : TRUE

IsSum(h, f, S) ==
  h = [T \in SUBSET S |-> IF T = {} THEN 0 ELSE f[Pick(T)] + h[T \ {Pick(T)}]]

\* Functions that agree have the same sum.
LEMMA SumUnique ==
  ASSUME NEW S, NEW R, NEW f, NEW g, NEW hf, NEW hg, IsSum(hf, f, S), IsSum(hg, g, R),
         NEW T \in SUBSET S, T \in SUBSET R, IsFiniteSet(T), \A x \in T : f[x] = g[x]
  PROVE  hf[T] = hg[T]
<1> DEFINE A == {n \in Nat : \A U \in SUBSET T : Cardinality(U) <= n => hf[U] = hg[U]}
<1>1. \A U \in SUBSET T : IsFiniteSet(U) /\ Cardinality(U) \in Nat
  BY FS_Subset, FS_CardinalityType
<1>2. \A U \in SUBSET T : U # {} => Pick(U) \in U
  BY DEF Pick
<1>3. \A U \in SUBSET T :
        /\ hf[U] = IF U = {} THEN 0 ELSE f[Pick(U)] + hf[U \ {Pick(U)}]
        /\ hg[U] = IF U = {} THEN 0 ELSE g[Pick(U)] + hg[U \ {Pick(U)}]
  BY DEF IsSum
<1>4. 0 \in A
  <2>1. \A U \in SUBSET T : Cardinality(U) <= 0 => U = {}
    BY <1>1, FS_EmptySet
  <2> QED BY <2>1, <1>3
<1>5. ASSUME NEW n \in Nat, n \in A PROVE n + 1 \in A
  <2>1. ASSUME NEW U \in SUBSET T, Cardinality(U) <= n + 1, U # {} PROVE hf[U] = hg[U]
    <3>1. Pick(U) \in U /\ f[Pick(U)] = g[Pick(U)]
      BY <1>2, <2>1
    <3>2. U \ {Pick(U)} \in SUBSET T /\ Cardinality(U \ {Pick(U)}) = Cardinality(U) - 1
      BY <3>1, <1>1, FS_RemoveElement
    <3>3. Cardinality(U \ {Pick(U)}) <= n
      BY <3>2, <2>1, <1>1
    <3>4. hf[U \ {Pick(U)}] = hg[U \ {Pick(U)}]
      BY <3>2, <3>3, <1>5
    <3> QED BY <3>1, <3>4, <1>3, <2>1
  <2> QED BY <2>1, <1>3
<1>6. Cardinality(T) \in A
  <2> HIDE DEF A
  <2>1. \A n \in Nat : n \in A
    BY <1>4, <1>5, Induction
  <2> QED BY <2>1, FS_CardinalityType
<1>7. Cardinality(T) <= Cardinality(T)
  BY FS_CardinalityType
<1> QED BY <1>6, <1>7

\* A sum does not depend on the order in which it is taken.
LEMMA SumAnyOrder ==
  ASSUME NEW S, IsFiniteSet(S), NEW f, \A x \in S : f[x] \in Int,
         NEW h, IsSum(h, f, S), \A T \in SUBSET S : h[T] \in Int,
         NEW R \in SUBSET S, NEW z \in R
  PROVE  h[R] = f[z] + h[R \ {z}]
<1> DEFINE A == {n \in Nat : \A T \in SUBSET S : Cardinality(T) <= n =>
                               \A x \in T : h[T] = f[x] + h[T \ {x}]}
<1>1. \A T \in SUBSET S : IsFiniteSet(T) /\ Cardinality(T) \in Nat
  BY FS_Subset, FS_CardinalityType
<1>2. \A T \in SUBSET S : T # {} => Pick(T) \in T /\ h[T] = f[Pick(T)] + h[T \ {Pick(T)}]
  BY DEF Pick, IsSum
<1>3. 0 \in A
  <2>1. \A T \in SUBSET S : Cardinality(T) <= 0 => T = {}
    BY <1>1, FS_EmptySet
  <2> QED BY <2>1
<1>4. ASSUME NEW n \in Nat, n \in A PROVE n + 1 \in A
  <2>1. ASSUME NEW T \in SUBSET S, Cardinality(T) <= n + 1, NEW x \in T
        PROVE  h[T] = f[x] + h[T \ {x}]
    <3> DEFINE p == Pick(T)
    <3>1. p \in T /\ h[T] = f[p] + h[T \ {p}]
      BY <1>2
    <3> HIDE DEF p
    <3>2. CASE p = x
      BY <3>1, <3>2
    <3>3. CASE p # x
      <4>1. \A y \in T : T \ {y} \in SUBSET S /\ Cardinality(T \ {y}) <= n
        BY <1>1, <2>1, FS_RemoveElement
      <4>2. h[T \ {p}] = f[x] + h[(T \ {p}) \ {x}]
        BY <4>1, <3>1, <3>3, <1>4
      <4>3. h[T \ {x}] = f[p] + h[(T \ {x}) \ {p}]
        BY <4>1, <3>1, <3>3, <1>4
      <4>4. (T \ {p}) \ {x} = (T \ {x}) \ {p}
        OBVIOUS
      <4>5. f[x] \in Int /\ f[p] \in Int /\ h[(T \ {x}) \ {p}] \in Int
        BY <3>1
      <4>6. h[(T \ {p}) \ {x}] = h[(T \ {x}) \ {p}]
        BY <4>4, Zenon
      <4>7. h[T] = f[p] + (f[x] + h[(T \ {x}) \ {p}])
        BY <3>1, <4>2, <4>6
      <4>8. f[p] + (f[x] + h[(T \ {x}) \ {p}]) = f[x] + (f[p] + h[(T \ {x}) \ {p}])
        BY <4>5
      <4> QED BY <4>3, <4>7, <4>8
    <3> QED BY <3>2, <3>3
  <2> QED BY <2>1
<1>5. Cardinality(S) \in A
  <2> HIDE DEF A
  <2>1. \A n \in Nat : n \in A
    BY <1>3, <1>4, Induction
  <2> QED BY <2>1, FS_CardinalityType
<1>6. Cardinality(R) <= Cardinality(S)
  BY FS_Subset
<1> QED BY <1>5, <1>6

\* The sum that the folds define is one in this sense.
LEMMA SumExists ==
  ASSUME NEW S, IsFiniteSet(S), NEW f, \A x \in S : f[x] \in Int
  PROVE  \E h : /\ IsSum(h, f, S)
                /\ SumFunctionOnSet(f, S) = h[S]
                /\ \A T \in SUBSET S : h[T] \in Int
<1> DEFINE pick == [T \in SUBSET S |-> Pick(T)]
           step == [x \in S |-> [y \in Int |-> f[x] + y]]
           g == CHOOSE h : IsSum(h, f, S)
<1>1. \A T \in SUBSET S : T # {} => Pick(T) \in T
  BY DEF Pick
<1>2. \A T \in SUBSET S : T # {} => pick[T] \in T
  BY <1>1
<1>3. \A x \in S, y \in Int : step[x][y] \in Int
  OBVIOUS
<1>4. PICK h : Recurs(h, S, 0, pick, step) /\ \A T \in SUBSET S : h[T] \in Int
  <2> HIDE DEF pick, step
  <2>1. 0 \in Int
    OBVIOUS
  <2> QED BY <1>2, <1>3, <2>1, Recursion
<1>5. \A T \in SUBSET S :
        T # {} => step[pick[T]][h[T \ {pick[T]}]] = f[Pick(T)] + h[T \ {Pick(T)}]
  BY <1>1, <1>4
<1>6. IsSum(h, f, S)
  <2> HIDE DEF pick, step
  <2> QED BY <1>4, <1>5 DEF IsSum, Recurs
<1>7. IsSum(g, f, S)
  <2> HIDE DEF g
  <2>1. \E k : IsSum(k, f, S)
    BY <1>6
  <2> QED BY <2>1, Zenon DEF g
<1>8. SumFunctionOnSet(f, S) = g[S]
  BY Zenon DEF SumFunctionOnSet, FoldFunctionOnSet, MapThenFoldSet, IsSum, Pick
<1>9. g[S] = h[S]
  <2> HIDE DEF g
  <2> QED BY <1>6, <1>7, SumUnique
<1> QED BY <1>4, <1>6, <1>8, <1>9

\* Nothing adds up to 0.
LEMMA SumOfNone == ASSUME NEW f PROVE SumFunctionOnSet(f, {}) = 0
<1>1. IsFiniteSet({})
  BY FS_EmptySet
<1>2. PICK h : IsSum(h, f, {}) /\ SumFunctionOnSet(f, {}) = h[{}]
  BY <1>1, SumExists
<1> QED BY <1>2 DEF IsSum

\* A sum of integers is an integer.
LEMMA SumType ==
  ASSUME NEW S, IsFiniteSet(S), NEW f, \A x \in S : f[x] \in Int
  PROVE  SumFunctionOnSet(f, S) \in Int
<1>1. PICK h : IsSum(h, f, S) /\ SumFunctionOnSet(f, S) = h[S] /\ \A T \in SUBSET S : h[T] \in Int
  BY SumExists
<1>2. S \in SUBSET S
  OBVIOUS
<1> QED BY <1>1, <1>2

\* Functions that agree on a set have the same sum over it.
LEMMA SumSame ==
  ASSUME NEW S, IsFiniteSet(S), NEW f, NEW g, \A x \in S : f[x] \in Int /\ f[x] = g[x]
  PROVE  SumFunctionOnSet(f, S) = SumFunctionOnSet(g, S)
<1>1. PICK hf : IsSum(hf, f, S) /\ SumFunctionOnSet(f, S) = hf[S]
  BY SumExists
<1>2. \A x \in S : g[x] \in Int
  OBVIOUS
<1>3. PICK hg : IsSum(hg, g, S) /\ SumFunctionOnSet(g, S) = hg[S]
  BY <1>2, SumExists
<1>4. S \in SUBSET S
  OBVIOUS
<1>5. hf[S] = hg[S]
  BY <1>1, <1>3, <1>4, SumUnique
<1> QED BY <1>1, <1>3, <1>5

\* An element more adds what the function gives for it.
LEMMA SumWithout ==
  ASSUME NEW S, IsFiniteSet(S), NEW f, \A x \in S : f[x] \in Int, NEW x \in S
  PROVE  SumFunctionOnSet(f, S) = f[x] + SumFunctionOnSet(f, S \ {x})
<1>1. PICK h : IsSum(h, f, S) /\ SumFunctionOnSet(f, S) = h[S] /\ \A T \in SUBSET S : h[T] \in Int
  BY SumExists
<1>2. IsFiniteSet(S \ {x}) /\ \A y \in S \ {x} : f[y] \in Int
  BY FS_RemoveElement
<1>3. PICK k :
        IsSum(k, f, S \ {x}) /\ SumFunctionOnSet(f, S \ {x}) = k[S \ {x}]
  BY <1>2, SumExists
<1>4. S \in SUBSET S /\ S \ {x} \in SUBSET S /\ S \ {x} \in SUBSET (S \ {x})
  OBVIOUS
<1>5. h[S \ {x}] = k[S \ {x}]
  BY <1>1, <1>2, <1>3, <1>4, SumUnique
<1>6. h[S] = f[x] + h[S \ {x}]
  BY <1>1, <1>4, SumAnyOrder
<1> QED BY <1>1, <1>3, <1>5, <1>6
-----------------------------------------------------------------------------
(* Sums of the elements of a sequence. *)

\* Sums of the numbers from 1 to n, one more at the end.
LEMMA SumToNext ==
  ASSUME NEW n \in Nat, NEW f, \A i \in 1 .. n + 1 : f[i] \in Int
  PROVE  SumFunctionOnSet(f, 1 .. n + 1) = SumFunctionOnSet(f, 1 .. n) + f[n + 1]
<1>1. IsFiniteSet(1 .. n + 1) /\ n + 1 \in 1 .. n + 1
  BY FS_Interval
<1>2. SumFunctionOnSet(f, 1 .. n + 1) = f[n + 1] + SumFunctionOnSet(f, (1 .. n + 1) \ {n + 1})
  BY <1>1, SumWithout
<1>3. (1 .. n + 1) \ {n + 1} = 1 .. n
  OBVIOUS
<1>4. IsFiniteSet(1 .. n) /\ \A i \in 1 .. n : f[i] \in Int
  BY FS_Interval
<1>5. SumFunctionOnSet(f, 1 .. n) \in Int /\ f[n + 1] \in Int
  BY <1>1, <1>4, SumType
<1>6. SumFunctionOnSet(f, 1 .. n + 1) = f[n + 1] + SumFunctionOnSet(f, 1 .. n)
  BY <1>2, <1>3, Zenon
<1> QED BY <1>5, <1>6

\* What is appended is added.
LEMMA SumAppend ==
  ASSUME NEW s \in Seq(Int), NEW e \in Int
  PROVE  SumFunction(Append(s, e)) = SumFunction(s) + e
<1> DEFINE t == Append(s, e)
<1>1. /\ Len(s) \in Nat /\ DOMAIN s = 1 .. Len(s) /\ DOMAIN t = 1 .. Len(s) + 1
      /\ \A i \in 1 .. Len(s) : t[i] = s[i] /\ s[i] \in Int
      /\ t[Len(s) + 1] = e
  OBVIOUS
<1> HIDE DEF t
<1>2. SumFunctionOnSet(t, 1 .. Len(s) + 1) = SumFunctionOnSet(t, 1 .. Len(s)) + t[Len(s) + 1]
  <2>1. \A i \in 1 .. Len(s) + 1 : t[i] \in Int
    BY <1>1
  <2> QED BY <1>1, <2>1, SumToNext
<1>3. IsFiniteSet(1 .. Len(s))
  BY <1>1, FS_Interval
<1>4. SumFunctionOnSet(s, 1 .. Len(s)) = SumFunctionOnSet(t, 1 .. Len(s))
  BY <1>1, <1>3, SumSame
<1> QED BY <1>1, <1>2, <1>4 DEF SumFunction, t

\* The head and the sum of the others make up the sum.
LEMMA SumTail ==
  ASSUME NEW s \in Seq(Int), s # <<>>
  PROVE  SumFunction(s) = Head(s) + SumFunction(Tail(s))
<1> DEFINE t == Tail(s)
           A == {n \in Nat : n < Len(s) =>
                   SumFunctionOnSet(s, 1 .. n + 1) = s[1] + SumFunctionOnSet(t, 1 .. n)}
<1>1. /\ Len(s) \in Nat \ {0} /\ DOMAIN s = 1 .. Len(s) /\ DOMAIN t = 1 .. Len(s) - 1
      /\ \A i \in 1 .. Len(s) : s[i] \in Int
      /\ \A i \in 1 .. Len(s) - 1 : t[i] = s[i + 1] /\ t[i] \in Int
      /\ Head(s) = s[1]
  OBVIOUS
<1> HIDE DEF t
<1>2. 0 \in A
  <2>1. 1 .. 0 = {} /\ 0 \in Nat /\ 0 + 1 = 1
    OBVIOUS
  <2>2. SumFunctionOnSet(s, 1 .. 0) = 0 /\ SumFunctionOnSet(t, 1 .. 0) = 0
    BY <2>1, SumOfNone
  <2>3. \A i \in 1 .. 0 + 1 : s[i] \in Int
    BY <1>1
  <2>4. SumFunctionOnSet(s, 1 .. 0 + 1) = SumFunctionOnSet(s, 1 .. 0) + s[0 + 1]
    BY <2>1, <2>3, SumToNext
  <2>5. s[1] \in Int
    BY <1>1
  <2>6. SumFunctionOnSet(s, 1 .. 0 + 1) = s[1] + SumFunctionOnSet(t, 1 .. 0)
    BY <2>2, <2>4, <2>5
  <2> QED BY <2>6
<1>3. ASSUME NEW n \in Nat, n \in A PROVE n + 1 \in A
  <2>1. SUFFICES ASSUME n + 1 < Len(s)
                 PROVE  SumFunctionOnSet(s, 1 .. (n + 1) + 1) = s[1] + SumFunctionOnSet(t, 1 .. n + 1)
    OBVIOUS
  <2>2. (\A i \in 1 .. (n + 1) + 1 : s[i] \in Int) /\ \A i \in 1 .. n + 1 : t[i] \in Int
    BY <1>1, <2>1
  <2>3. SumFunctionOnSet(s, 1 .. (n + 1) + 1) = SumFunctionOnSet(s, 1 .. n + 1) + s[(n + 1) + 1]
    BY <2>2, SumToNext
  <2>4. SumFunctionOnSet(t, 1 .. n + 1) = SumFunctionOnSet(t, 1 .. n) + t[n + 1]
    BY <2>2, SumToNext
  <2>5. IsFiniteSet(1 .. n) /\ \A i \in 1 .. n : t[i] \in Int
    BY <2>2, FS_Interval
  <2>6. SumFunctionOnSet(t, 1 .. n) \in Int
    BY <2>5, SumType
  <2>7. s[(n + 1) + 1] = t[n + 1] /\ t[n + 1] \in Int /\ s[1] \in Int
    BY <1>1, <2>1
  <2>8. SumFunctionOnSet(s, 1 .. n + 1) = s[1] + SumFunctionOnSet(t, 1 .. n)
    BY <1>1, <1>3, <2>1
  <2> QED BY <2>3, <2>4, <2>6, <2>7, <2>8
<1>4. Len(s) - 1 \in A
  <2> HIDE DEF A
  <2>1. \A n \in Nat : n \in A
    BY <1>2, <1>3, Induction
  <2> QED BY <2>1, <1>1
<1>5. (Len(s) - 1) + 1 = Len(s) /\ Len(s) - 1 < Len(s)
  BY <1>1
<1> QED BY <1>1, <1>4, <1>5 DEF SumFunction, t

\* The sum of a sequence of integers is an integer, and so is that of its rest.
LEMMA SumOfSequence ==
  ASSUME NEW s \in Seq(Int)
  PROVE  SumFunction(s) \in Int /\ (s # <<>> => SumFunction(Tail(s)) \in Int)
<1>1. ASSUME NEW r \in Seq(Int) PROVE SumFunction(r) \in Int
  <2>1. /\ Len(r) \in Nat /\ DOMAIN r = 1 .. Len(r)
        /\ \A i \in 1 .. Len(r) : r[i] \in Int
    OBVIOUS
  <2>2. IsFiniteSet(1 .. Len(r))
    BY <2>1, FS_Interval
  <2>3. SumFunctionOnSet(r, 1 .. Len(r)) \in Int
    BY <2>1, <2>2, SumType
  <2> QED BY <2>1, <2>3 DEF SumFunction
<1>2. ASSUME s # <<>> PROVE Tail(s) \in Seq(Int)
  BY <1>2
<1> QED BY <1>1, <1>2

\* Zeros add up to 0.
LEMMA SumOfZeros ==
  ASSUME NEW S, IsFiniteSet(S), NEW f, \A x \in S : f[x] = 0
  PROVE  SumFunctionOnSet(f, S) = 0
<1> DEFINE A == {n \in Nat : \A T \in SUBSET S : Cardinality(T) = n => SumFunctionOnSet(f, T) = 0}
<1>1. \A T \in SUBSET S : IsFiniteSet(T) /\ Cardinality(T) \in Nat
  BY FS_Subset, FS_CardinalityType
<1>2. 0 \in A
  <2>1. \A T \in SUBSET S : Cardinality(T) = 0 => T = {}
    BY <1>1, FS_EmptySet
  <2> QED BY <2>1, SumOfNone
<1>3. ASSUME NEW n \in Nat, n \in A PROVE n + 1 \in A
  <2>1. ASSUME NEW T \in SUBSET S, Cardinality(T) = n + 1 PROVE SumFunctionOnSet(f, T) = 0
    <3>1. T # {}
      BY <2>1, FS_EmptySet
    <3>2. PICK x \in T : TRUE
      BY <3>1
    <3>3. T \ {x} \in SUBSET S /\ Cardinality(T \ {x}) = n
      <4>1. Cardinality(T \ {x}) = Cardinality(T) - 1
        BY <1>1, FS_RemoveElement
      <4> QED BY <2>1, <4>1
    <3>4. SumFunctionOnSet(f, T \ {x}) = 0
      BY <1>3, <3>3
    <3>5. IsFiniteSet(T) /\ \A y \in T : f[y] \in Int
      BY <1>1
    <3>6. SumFunctionOnSet(f, T) = f[x] + SumFunctionOnSet(f, T \ {x})
      BY <3>5, SumWithout
    <3>7. f[x] = 0
      OBVIOUS
    <3> QED BY <3>4, <3>6, <3>7
  <2> QED BY <2>1
<1>4. Cardinality(S) \in A
  <2> HIDE DEF A
  <2>1. \A n \in Nat : n \in A
    BY <1>2, <1>3, Induction
  <2> QED BY <2>1, FS_CardinalityType
<1> QED BY <1>4

\* What holds of every two terms holds of the sums.
LEMMA SumCompare ==
  ASSUME NEW S, IsFiniteSet(S), NEW f, NEW g, NEW h, NEW d,
         \A x \in S : /\ f[x] \in Int /\ g[x] \in Int /\ h[x] \in Int /\ d[x] \in Int
                      /\ f[x] + g[x] <= h[x] + d[x]
  PROVE  SumFunctionOnSet(f, S) + SumFunctionOnSet(g, S)
           <= SumFunctionOnSet(h, S) + SumFunctionOnSet(d, S)
<1> DEFINE Sum(e, T) == SumFunctionOnSet(e, T)
           A == {n \in Nat : \A T \in SUBSET S : Cardinality(T) = n =>
                               Sum(f, T) + Sum(g, T) <= Sum(h, T) + Sum(d, T)}
<1>1. \A T \in SUBSET S : IsFiniteSet(T) /\ Cardinality(T) \in Nat
  BY FS_Subset, FS_CardinalityType
<1>2. 0 \in A
  <2>1. \A T \in SUBSET S : Cardinality(T) = 0 => T = {}
    BY <1>1, FS_EmptySet
  <2>2. Sum(f, {}) = 0 /\ Sum(g, {}) = 0 /\ Sum(h, {}) = 0 /\ Sum(d, {}) = 0
    BY SumOfNone
  <2> HIDE DEF Sum
  <2>3. Sum(f, {}) + Sum(g, {}) <= Sum(h, {}) + Sum(d, {})
    BY <2>2
  <2> QED BY <2>1, <2>3
<1>3. ASSUME NEW n \in Nat, n \in A PROVE n + 1 \in A
  <2>1. ASSUME NEW T \in SUBSET S, Cardinality(T) = n + 1
        PROVE  Sum(f, T) + Sum(g, T) <= Sum(h, T) + Sum(d, T)
    <3>1. T # {}
      BY <2>1, FS_EmptySet
    <3>2. PICK x \in T : TRUE
      BY <3>1
    <3> DEFINE U == T \ {x}
    <3>3. U \in SUBSET S /\ Cardinality(U) = n /\ IsFiniteSet(U) /\ IsFiniteSet(T)
      <4>1. Cardinality(U) = Cardinality(T) - 1 /\ U \in SUBSET S
        BY <1>1, FS_RemoveElement
      <4>2. Cardinality(U) = n
        BY <2>1, <4>1
      <4> QED BY <1>1, <4>1, <4>2
    <3>4. ASSUME NEW e, \A y \in S : e[y] \in Int
          PROVE  Sum(e, T) = e[x] + Sum(e, U) /\ Sum(e, U) \in Int /\ e[x] \in Int
      <4>1. (\A y \in T : e[y] \in Int) /\ \A y \in U : e[y] \in Int
        BY <3>4
      <4>2. SumFunctionOnSet(e, T) = e[x] + SumFunctionOnSet(e, U)
        BY <3>3, <4>1, SumWithout
      <4>3. SumFunctionOnSet(e, U) \in Int
        BY <3>3, <4>1, SumType
      <4> QED BY <4>1, <4>2, <4>3
    <3> HIDE DEF Sum, U
    <3>5. Sum(f, U) + Sum(g, U) <= Sum(h, U) + Sum(d, U)
      BY <1>3, <3>3
    <3>6. /\ Sum(f, T) = f[x] + Sum(f, U) /\ Sum(f, U) \in Int
          /\ Sum(g, T) = g[x] + Sum(g, U) /\ Sum(g, U) \in Int
          /\ Sum(h, T) = h[x] + Sum(h, U) /\ Sum(h, U) \in Int
          /\ Sum(d, T) = d[x] + Sum(d, U) /\ Sum(d, U) \in Int
      BY <3>4
    <3>7. f[x] \in Int /\ g[x] \in Int /\ h[x] \in Int /\ d[x] \in Int /\ f[x] + g[x] <= h[x] + d[x]
      OBVIOUS
    <3> QED BY <3>5, <3>6, <3>7
  <2> QED BY <2>1
<1>4. Cardinality(S) \in A
  <2> HIDE DEF A
  <2>1. \A n \in Nat : n \in A
    BY <1>2, <1>3, Induction
  <2> QED BY <2>1, FS_CardinalityType
<1> QED BY <1>4

\* Larger terms have a larger sum.
LEMMA SumMonotonic ==
  ASSUME NEW S, IsFiniteSet(S), NEW f, NEW h,
         \A x \in S : f[x] \in Int /\ h[x] \in Int /\ f[x] <= h[x]
  PROVE  SumFunctionOnSet(f, S) <= SumFunctionOnSet(h, S)
<1>1. SumFunctionOnSet(f, S) + SumFunctionOnSet(f, S)
        <= SumFunctionOnSet(h, S) + SumFunctionOnSet(f, S)
  <2>1. \A x \in S : /\ f[x] \in Int /\ f[x] \in Int /\ h[x] \in Int /\ f[x] \in Int
                     /\ f[x] + f[x] <= h[x] + f[x]
    OBVIOUS
  <2> QED BY <2>1, SumCompare
<1>2. (\A x \in S : f[x] \in Int) /\ \A x \in S : h[x] \in Int
  OBVIOUS
<1>3. SumFunctionOnSet(f, S) \in Int /\ SumFunctionOnSet(h, S) \in Int
  BY <1>2, SumType
<1> QED BY <1>1, <1>3

\* A sum of naturals is 0 if all of them are, and no smaller than one of them.
LEMMA SumOfNaturals ==
  ASSUME NEW S, IsFiniteSet(S), NEW f, \A x \in S : f[x] \in Nat
  PROVE  /\ SumFunctionOnSet(f, S) \in Nat
         /\ \A x \in S : f[x] <= SumFunctionOnSet(f, S)
         /\ (\A x \in S : f[x] = 0) => SumFunctionOnSet(f, S) = 0
<1>1. ASSUME NEW T \in SUBSET S PROVE SumFunctionOnSet(f, T) \in Nat
  <2> DEFINE zero == [x \in T |-> 0]
  <2>1. \A x \in T : zero[x] = 0
    OBVIOUS
  <2> HIDE DEF zero
  <2>2. IsFiniteSet(T)
    BY FS_Subset
  <2>3. SumFunctionOnSet(zero, T) = 0
    BY <2>1, <2>2, SumOfZeros
  <2>4. \A x \in T : zero[x] \in Int /\ f[x] \in Int /\ zero[x] <= f[x]
    BY <2>1
  <2>5. SumFunctionOnSet(zero, T) <= SumFunctionOnSet(f, T)
    BY <2>2, <2>4, SumMonotonic
  <2>6. \A x \in T : f[x] \in Int
    OBVIOUS
  <2>7. SumFunctionOnSet(f, T) \in Int
    BY <2>2, <2>6, SumType
  <2> QED BY <2>3, <2>5, <2>7
<1>2. ASSUME NEW x \in S PROVE f[x] <= SumFunctionOnSet(f, S)
  <2>1. SumFunctionOnSet(f, S) = f[x] + SumFunctionOnSet(f, S \ {x})
    BY SumWithout
  <2>2. SumFunctionOnSet(f, S \ {x}) \in Nat /\ f[x] \in Nat
    BY <1>1
  <2> QED BY <2>1, <2>2
<1> QED BY <1>1, <1>2, SumOfZeros

\* What a change of one term does to a sum.
LEMMA SumChanged ==
  ASSUME NEW S, IsFiniteSet(S), NEW f, NEW g, NEW x \in S,
         \A y \in S : f[y] \in Int /\ g[y] \in Int /\ (y # x => g[y] = f[y])
  PROVE  SumFunctionOnSet(g, S) = SumFunctionOnSet(f, S) - f[x] + g[x]
<1>1. (\A y \in S : f[y] \in Int) /\ \A y \in S : g[y] \in Int
  OBVIOUS
<1>2. IsFiniteSet(S \ {x}) /\ \A y \in S \ {x} : f[y] \in Int /\ f[y] = g[y]
  BY FS_RemoveElement
<1>3. SumFunctionOnSet(f, S \ {x}) = SumFunctionOnSet(g, S \ {x})
  BY <1>2, SumSame
<1>4. SumFunctionOnSet(f, S \ {x}) \in Int
  BY <1>2, SumType
<1>5. /\ SumFunctionOnSet(f, S) = f[x] + SumFunctionOnSet(f, S \ {x})
      /\ SumFunctionOnSet(g, S) = g[x] + SumFunctionOnSet(g, S \ {x})
  BY <1>1, SumWithout
<1>6. f[x] \in Int /\ g[x] \in Int
  OBVIOUS
<1> QED BY <1>3, <1>4, <1>5, <1>6

\* A term more adds to a sum.
LEMMA SumWith ==
  ASSUME NEW S, IsFiniteSet(S), NEW f, NEW g, NEW x, x \notin S, g[x] \in Int,
         \A y \in S : f[y] \in Int /\ g[y] = f[y]
  PROVE  SumFunctionOnSet(g, S \cup {x}) = SumFunctionOnSet(f, S) + g[x]
<1>1. IsFiniteSet(S \cup {x}) /\ x \in S \cup {x} /\ (S \cup {x}) \ {x} = S
  BY FS_AddElement
<1>2. \A y \in S \cup {x} : g[y] \in Int
  OBVIOUS
<1>3. SumFunctionOnSet(g, S \cup {x}) = g[x] + SumFunctionOnSet(g, (S \cup {x}) \ {x})
  BY <1>1, <1>2, SumWithout
<1>4. SumFunctionOnSet(g, (S \cup {x}) \ {x}) = SumFunctionOnSet(g, S)
  BY <1>1, Zenon
<1>5. \A y \in S : f[y] \in Int /\ f[y] = g[y]
  OBVIOUS
<1>6. SumFunctionOnSet(f, S) = SumFunctionOnSet(g, S) /\ SumFunctionOnSet(f, S) \in Int
  BY <1>5, SumSame, SumType
<1> QED BY <1>3, <1>4, <1>6

\* The sum over two sets that have nothing in common.
LEMMA SumUnion ==
  ASSUME NEW S, IsFiniteSet(S), NEW R, IsFiniteSet(R), S \cap R = {},
         NEW f, \A x \in S \cup R : f[x] \in Int
  PROVE  SumFunctionOnSet(f, S \cup R) = SumFunctionOnSet(f, S) + SumFunctionOnSet(f, R)
<1> DEFINE A == {T \in SUBSET R : SumFunctionOnSet(f, S \cup T) = SumFunctionOnSet(f, S) + SumFunctionOnSet(f, T)}
<1>1. ASSUME NEW T \in SUBSET R
      PROVE  /\ IsFiniteSet(T) /\ IsFiniteSet(S \cup T)
             /\ SumFunctionOnSet(f, T) \in Int /\ SumFunctionOnSet(f, S \cup T) \in Int
  <2>1. IsFiniteSet(T)
    BY FS_Subset
  <2>2. IsFiniteSet(S \cup T)
    BY <2>1, FS_Union
  <2>3. (\A x \in T : f[x] \in Int) /\ \A x \in S \cup T : f[x] \in Int
    OBVIOUS
  <2> QED BY <2>1, <2>2, <2>3, SumType
<1>2. {} \in A
  <2>1. S \cup {} = S /\ SumFunctionOnSet(f, S) \in Int
    <3>1. S \cup {} = S
      OBVIOUS
    <3> QED BY <1>1, <3>1, SumType
  <2> QED BY <2>1, SumOfNone
<1>3. ASSUME NEW T \in SUBSET R, T # {} PROVE \E x \in T : T \ {x} \in A => T \in A
  <2>1. PICK x \in T : TRUE
    BY <1>3
  <2>2. SUFFICES ASSUME T \ {x} \in A PROVE T \in A
    OBVIOUS
  <2>3. S \cup (T \ {x}) = (S \cup T) \ {x} /\ x \in S \cup T /\ T \ {x} \in SUBSET R
    OBVIOUS
  <2>4. (\A y \in T : f[y] \in Int) /\ (\A y \in S \cup T : f[y] \in Int) /\ f[x] \in Int
    OBVIOUS
  <2>5. SumFunctionOnSet(f, T) = f[x] + SumFunctionOnSet(f, T \ {x})
    BY <1>1, <2>4, SumWithout
  <2>6. SumFunctionOnSet(f, S \cup T) = f[x] + SumFunctionOnSet(f, (S \cup T) \ {x})
    BY <1>1, <2>3, <2>4, SumWithout
  <2>7. SumFunctionOnSet(f, (S \cup T) \ {x}) = SumFunctionOnSet(f, S) + SumFunctionOnSet(f, T \ {x})
    BY <2>2, <2>3
  <2>8. SumFunctionOnSet(f, S) \in Int /\ SumFunctionOnSet(f, T \ {x}) \in Int
    BY <1>1, <2>3, SumType
  <2> QED BY <2>4, <2>5, <2>6, <2>7, <2>8
<1>4. R \in A
  <2> HIDE DEF A
  <2> QED BY <1>2, <1>3, SubsetInduction
<1> QED BY <1>4

\* Zeros left out of a sum.
LEMMA SumPart ==
  ASSUME NEW S, IsFiniteSet(S), NEW T \in SUBSET S,
         NEW f, \A x \in S : f[x] \in Int, \A x \in S \ T : f[x] = 0
  PROVE  SumFunctionOnSet(f, S) = SumFunctionOnSet(f, T)
<1>1. IsFiniteSet(T) /\ IsFiniteSet(S \ T) /\ T \cap (S \ T) = {} /\ T \cup (S \ T) = S
  BY FS_Subset
<1>2. SumFunctionOnSet(f, T \cup (S \ T)) = SumFunctionOnSet(f, T) + SumFunctionOnSet(f, S \ T)
  <2>1. \A x \in T \cup (S \ T) : f[x] \in Int
    OBVIOUS
  <2> QED BY <1>1, <2>1, SumUnion
<1>3. SumFunctionOnSet(f, S \ T) = 0
  BY <1>1, SumOfZeros
<1>4. SumFunctionOnSet(f, T) \in Int
  <2>1. \A x \in T : f[x] \in Int
    OBVIOUS
  <2> QED BY <1>1, <2>1, SumType
<1>5. SumFunctionOnSet(f, S) = SumFunctionOnSet(f, T) + SumFunctionOnSet(f, S \ T)
  BY <1>1, <1>2, Zenon
<1> QED BY <1>3, <1>4, <1>5

\* A part of a sum of naturals is no larger.
LEMMA SumSmaller ==
  ASSUME NEW S, IsFiniteSet(S), NEW T \in SUBSET S, NEW f, \A x \in S : f[x] \in Nat
  PROVE  SumFunctionOnSet(f, T) <= SumFunctionOnSet(f, S)
<1>1. IsFiniteSet(T) /\ IsFiniteSet(S \ T) /\ T \cap (S \ T) = {} /\ T \cup (S \ T) = S
  BY FS_Subset
<1>2. SumFunctionOnSet(f, T \cup (S \ T)) = SumFunctionOnSet(f, T) + SumFunctionOnSet(f, S \ T)
  <2>1. \A x \in T \cup (S \ T) : f[x] \in Int
    OBVIOUS
  <2> QED BY <1>1, <2>1, SumUnion
<1>3. SumFunctionOnSet(f, T) \in Nat /\ SumFunctionOnSet(f, S \ T) \in Nat
  <2>1. (\A x \in T : f[x] \in Nat) /\ \A x \in S \ T : f[x] \in Nat
    OBVIOUS
  <2> QED BY <1>1, <2>1, SumOfNaturals
<1>4. SumFunctionOnSet(f, S) = SumFunctionOnSet(f, T) + SumFunctionOnSet(f, S \ T)
  BY <1>1, <1>2, Zenon
<1> QED BY <1>3, <1>4

\* A factor that all terms have.
LEMMA SumTimes ==
  ASSUME NEW S, IsFiniteSet(S), NEW f, \A x \in S : f[x] \in Int, NEW m \in Int,
         NEW g, \A x \in S : g[x] = f[x] * m
  PROVE  SumFunctionOnSet(g, S) = SumFunctionOnSet(f, S) * m
<1> DEFINE A == {T \in SUBSET S : SumFunctionOnSet(g, T) = SumFunctionOnSet(f, T) * m}
<1>1. {} \in A
  <2>1. SumFunctionOnSet(g, {}) = 0 /\ SumFunctionOnSet(f, {}) = 0 /\ 0 * m = 0
    BY SumOfNone
  <2> QED BY <2>1
<1>2. ASSUME NEW T \in SUBSET S, T # {} PROVE \E x \in T : T \ {x} \in A => T \in A
  <2>1. PICK x \in T : TRUE
    BY <1>2
  <2>2. SUFFICES ASSUME T \ {x} \in A PROVE T \in A
    OBVIOUS
  <2>3. IsFiniteSet(T) /\ IsFiniteSet(T \ {x})
    BY FS_Subset
  <2>4. (\A y \in T : f[y] \in Int) /\ (\A y \in T \ {x} : f[y] \in Int) /\ f[x] \in Int
        /\ g[x] = f[x] * m
    OBVIOUS
  <2>5. \A y \in T : g[y] \in Int
    <3>1. ASSUME NEW y \in T PROVE g[y] \in Int
      <4>1. g[y] = f[y] * m /\ f[y] \in Int
        OBVIOUS
      <4> QED BY <4>1, TimesType
    <3> QED BY <3>1
  <2> DEFINE a == SumFunctionOnSet(f, T \ {x})
  <2>6. SumFunctionOnSet(f, T) = f[x] + a
    BY <2>3, <2>4, SumWithout
  <2>7. SumFunctionOnSet(g, T) = g[x] + SumFunctionOnSet(g, T \ {x})
    BY <2>3, <2>5, SumWithout
  <2>8. a \in Int
    BY <2>3, <2>4, SumType
  <2>9. SumFunctionOnSet(g, T \ {x}) = a * m
    BY <2>2
  <2> HIDE DEF a
  <2>10. (f[x] + a) * m = f[x] * m + a * m
    <3>1. \A c \in Int, d \in Int, e \in Int : (c + d) * e = c * e + d * e
      OBVIOUS
    <3> QED BY <2>4, <2>8, <3>1
  <2>11. SumFunctionOnSet(g, T) = SumFunctionOnSet(f, T) * m
    BY <2>4, <2>6, <2>7, <2>9, <2>10
  <2> QED BY <2>11
<1>3. S \in A
  <2> HIDE DEF A
  <2> QED BY <1>1, <1>2, SubsetInduction
<1> QED BY <1>3

\* Equal terms.
LEMMA SumOfEqual ==
  ASSUME NEW S, IsFiniteSet(S), NEW c \in Int, NEW f, \A x \in S : f[x] = c
  PROVE  SumFunctionOnSet(f, S) = Cardinality(S) * c
<1> DEFINE A == {T \in SUBSET S : SumFunctionOnSet(f, T) = Cardinality(T) * c}
<1>1. {} \in A
  <2>1. SumFunctionOnSet(f, {}) = 0 /\ Cardinality({}) = 0 /\ 0 * c = 0
    BY SumOfNone, FS_EmptySet
  <2> QED BY <2>1
<1>2. ASSUME NEW T \in SUBSET S, T # {} PROVE \E x \in T : T \ {x} \in A => T \in A
  <2>1. PICK x \in T : TRUE
    BY <1>2
  <2>2. SUFFICES ASSUME T \ {x} \in A PROVE T \in A
    OBVIOUS
  <2> DEFINE n == Cardinality(T \ {x})
  <2>3. IsFiniteSet(T) /\ Cardinality(T) = n + 1 /\ n \in Nat
    <3>1. IsFiniteSet(T) /\ IsFiniteSet(T \ {x})
      BY FS_Subset
    <3>2. Cardinality(T \ {x}) = Cardinality(T) - 1 /\ n \in Nat /\ Cardinality(T) \in Nat
      BY <3>1, FS_RemoveElement, FS_CardinalityType
    <3> QED BY <3>1, <3>2
  <2>4. (\A y \in T : f[y] \in Int) /\ f[x] = c
    OBVIOUS
  <2>5. SumFunctionOnSet(f, T) = f[x] + SumFunctionOnSet(f, T \ {x})
    BY <2>3, <2>4, SumWithout
  <2>6. SumFunctionOnSet(f, T \ {x}) = n * c
    BY <2>2
  <2> HIDE DEF n
  <2>7. (n + 1) * c = c + n * c
    BY <2>3
  <2>8. SumFunctionOnSet(f, T) = Cardinality(T) * c
    BY <2>3, <2>4, <2>5, <2>6, <2>7
  <2> QED BY <2>8
<1>3. S \in A
  <2> HIDE DEF A
  <2> QED BY <1>1, <1>2, SubsetInduction
<1> QED BY <1>3

\* A sum whose terms are numbered in another way.
LEMMA SumRenamed ==
  ASSUME NEW S, IsFiniteSet(S), NEW p, \A x, y \in S : p[x] = p[y] => x = y,
         NEW f, NEW g, \A x \in S : g[x] \in Int /\ g[x] = f[p[x]]
  PROVE  SumFunctionOnSet(f, {p[x] : x \in S}) = SumFunctionOnSet(g, S)
<1> DEFINE Im(T) == {p[x] : x \in T}
           A == {T \in SUBSET S : SumFunctionOnSet(f, Im(T)) = SumFunctionOnSet(g, T)}
<1>1. {} \in A
  <2>1. Im({}) = {}
    OBVIOUS
  <2> QED BY <2>1, SumOfNone
<1>2. ASSUME NEW T \in SUBSET S, T # {} PROVE \E x \in T : T \ {x} \in A => T \in A
  <2>1. PICK x \in T : TRUE
    BY <1>2
  <2>2. SUFFICES ASSUME T \ {x} \in A PROVE T \in A
    OBVIOUS
  <2>3. IsFiniteSet(T) /\ (\A y \in T : g[y] \in Int) /\ g[x] = f[p[x]]
    BY FS_Subset
  <2>4. IsFiniteSet(Im(T)) /\ p[x] \in Im(T) /\ Im(T) \ {p[x]} = Im(T \ {x})
    <3>1. IsFiniteSet(Im(T))
      BY <2>3, ImageIsFinite
    <3>2. Im(T) \ {p[x]} = Im(T \ {x})
      OBVIOUS
    <3> QED BY <3>1, <3>2
  <2>5. \A z \in Im(T) : f[z] \in Int
    BY <2>3
  <2>6. SumFunctionOnSet(g, T) = g[x] + SumFunctionOnSet(g, T \ {x})
    BY <2>3, SumWithout
  <2>7. SumFunctionOnSet(f, Im(T \ {x})) = SumFunctionOnSet(g, T \ {x})
    BY <2>2
  <2> HIDE DEF Im
  <2>8. SumFunctionOnSet(f, Im(T)) = f[p[x]] + SumFunctionOnSet(f, Im(T) \ {p[x]})
    BY <2>4, <2>5, SumWithout
  <2>9. SumFunctionOnSet(f, Im(T)) = SumFunctionOnSet(g, T)
    BY <2>3, <2>4, <2>6, <2>7, <2>8
  <2> QED BY <2>9
<1>3. S \in A
  <2> HIDE DEF A
  <2> QED BY <1>1, <1>2, SubsetInduction
<1> QED BY <1>3
=============================================================================
