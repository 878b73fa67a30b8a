-------------------------- MODULE ArithmeticLemmas --------------------------
(***************************************************************************)
(* Facts about the operators that the models compute with: sums over a     *)
(* finite set, as the ledger's invariants use them, powers of two, as the  *)
(* backoff uses them, and rounding by division, as prices and the rate     *)
(* limiter use it.                                                         *)
(*                                                                         *)
(* What needs induction is proved by a least counterexample: a nonempty    *)
(* set of naturals has a least element, and a nonempty set of finite sets  *)
(* has a member none of whose elements can be taken away (SmallestSet).    *)
(***************************************************************************)
EXTENDS Integers, FiniteSets, FiniteSetsExt, FiniteSetTheorems,
        WellFoundedInduction, TLAPS

\* A set of natural numbers has a least one.
LEMMA LeastNumber ==
  ASSUME NEW T \in SUBSET Nat, T # {}
  PROVE  \E m \in T : \A n \in T : m <= n
  <1>1. PICK m \in T : \A n \in T : ~(<<n, m>> \in OpToRel(<, Nat))
    BY NatLessThanWellFounded, WFMin, Zenon
  <1>2. \A n \in T : ~(n < m)
    BY Zenon, <1>1 DEF OpToRel
  <1>3. \A n \in T : m <= n
    BY SMTT(30), <1>2
  <1> QED
    BY Zenon, <1>3

\* A set in B from which no element can be taken without leaving B.
LEMMA SmallestSet ==
  ASSUME NEW S, IsFiniteSet(S), NEW B \in SUBSET (SUBSET S), B # {}
  PROVE  \E s \in B : \A x \in s : s \ {x} \notin B
  <1> DEFINE Sizes == {Cardinality(s) : s \in B}
  <1>1. \A s \in B : IsFiniteSet(s) /\ Cardinality(s) \in Nat
    BY Zenon, FS_Subset, FS_CardinalityType
  <1>2. Sizes \in SUBSET Nat /\ Sizes # {}
    BY Zenon, <1>1
  <1>3. PICK m \in Sizes : \A n \in Sizes : m <= n
    <2> HIDE DEF Sizes
    <2> QED  BY Zenon, <1>2, LeastNumber
  <1>4. PICK s \in B : Cardinality(s) = m
    BY Zenon, <1>3
  <1>5. ASSUME NEW x \in s, s \ {x} \in B  PROVE FALSE
    <2>1. Cardinality(s \ {x}) = Cardinality(s) - 1
      BY Zenon, <1>1, FS_RemoveElement
    <2>2. Cardinality(s) <= Cardinality(s \ {x})
      BY Zenon, <1>3, <1>4, <1>5
    <2> QED  BY SMTT(30), <1>1, <2>1, <2>2
  <1> QED  BY Zenon, <1>5

-----------------------------------------------------------------------------
(* Sums *)

Chosen(s) == CHOOSE x \in s : TRUE

\* What the sum of a set adds to the sum of a smaller one.
Added(f, g, s) == IF s = {} THEN 0 ELSE f[Chosen(s)] + g[s \ {Chosen(s)}]

\* g sums f over each of the sets in D.
Sums(f, D, g) == g = [s \in D |-> Added(f, g, s)]

SumsOf(f, S) == CHOOSE g : Sums(f, SUBSET S, g)

\* The library's sum of f over S is the last of the sums over its subsets.
LEMMA SumUnfolded ==
  ASSUME NEW f, NEW S
  PROVE  SumFunctionOnSet(f, S) = SumsOf(f, S)[S]
  BY Zenon DEF SumFunctionOnSet, FoldFunctionOnSet, MapThenFoldSet, SumsOf,
               Sums, Added, Chosen

UpTo(S, n) == {s \in SUBSET S : Cardinality(s) <= n}

\* The recursion defines the sums over small subsets, by least counterexample.
LEMMA SumsExist ==
  ASSUME NEW S, IsFiniteSet(S), NEW f, NEW n \in Nat
  PROVE  \E g : Sums(f, UpTo(S, n), g)
  <1> DEFINE Bad == {k \in Nat : ~\E g : Sums(f, UpTo(S, k), g)}
  <1>1. SUFFICES ASSUME Bad # {}  PROVE FALSE
    BY Zenon
  <1>2. PICK m \in Bad : \A k \in Bad : m <= k
    <2>1. Bad \in SUBSET Nat
      BY Zenon
    <2> HIDE DEF Bad
    <2> QED  BY Zenon, <1>1, <2>1, LeastNumber
  <1>3. \A s \in SUBSET S : IsFiniteSet(s) /\ Cardinality(s) \in Nat
    BY Zenon, FS_Subset, FS_CardinalityType
  <1>4. CASE m = 0
    <2>1. \A s \in UpTo(S, 0) : s = {}
      <3>1. ASSUME NEW s \in UpTo(S, 0)  PROVE Cardinality(s) = 0
        BY SMTT(30), <1>3 DEF UpTo
      <3> QED  BY Zenon, <3>1, <1>3, FS_EmptySet DEF UpTo
    <2>2. Sums(f, UpTo(S, 0), [s \in UpTo(S, 0) |-> 0])
      BY Zenon, <2>1 DEF Sums, Added
    <2> QED  BY Zenon, <1>4, <2>2
  <1>5. CASE m # 0
    <2>1. m - 1 \in Nat /\ ~(m <= m - 1)
      BY SMTT(30), <1>5
    <2>2. PICK g : Sums(f, UpTo(S, m - 1), g)
      BY Zenon, <1>2, <2>1
    <2> DEFINE h == [s \in UpTo(S, m) |-> Added(f, g, s)]
    <2>3. ASSUME NEW s \in UpTo(S, m), s # {}
          PROVE  h[s \ {Chosen(s)}] = g[s \ {Chosen(s)}]
      <3> DEFINE r == s \ {Chosen(s)}
      <3>1. Chosen(s) \in s
        BY Zenon, <2>3 DEF Chosen
      <3>2. Cardinality(r) = Cardinality(s) - 1 /\ r \in SUBSET S
        BY Zenon, <3>1, <1>3, FS_RemoveElement DEF UpTo
      <3>3. r \in UpTo(S, m - 1) /\ r \in UpTo(S, m)
        BY SMTT(30), <1>3, <3>2 DEF UpTo
      <3>4. g[r] = Added(f, g, r)
        BY Zenon, <2>2, <3>3 DEF Sums
      <3>5. h[r] = Added(f, g, r)
        BY Zenon, <3>3
      <3> QED  BY Zenon, <3>4, <3>5
    <2>4. \A s \in UpTo(S, m) : Added(f, g, s) = Added(f, h, s)
      <3> HIDE DEF h
      <3> QED  BY Zenon, <2>3 DEF Added
    <2>5. h = [s \in UpTo(S, m) |-> Added(f, h, s)]
      BY Zenon, <2>4
    <2>6. Sums(f, UpTo(S, m), h)
      <3> HIDE DEF h
      <3> QED  BY Zenon, <2>5 DEF Sums
    <2> QED  BY Zenon, <2>6
  <1> QED  BY Zenon, <1>4, <1>5

\* Hence it defines them over all subsets.
LEMMA SumsDefined ==
  ASSUME NEW S, IsFiniteSet(S), NEW f
  PROVE  Sums(f, SUBSET S, SumsOf(f, S))
  <1>1. UpTo(S, Cardinality(S)) = SUBSET S /\ Cardinality(S) \in Nat
    BY Zenon, FS_Subset, FS_CardinalityType DEF UpTo
  <1>2. \E g : Sums(f, UpTo(S, Cardinality(S)), g)
    <2> DEFINE n == Cardinality(S)
    <2>1. n \in Nat
      BY Zenon, <1>1
    <2> HIDE DEF n
    <2>2. \E g : Sums(f, UpTo(S, n), g)
      BY Zenon, <2>1, SumsExist
    <2> QED  BY Zenon, <2>2 DEF n
  <1>3. \E g : Sums(f, SUBSET S, g)
    BY Zenon, <1>1, <1>2
  <1> QED  BY Zenon, <1>3 DEF SumsOf

\* The sum of a set, by one of its elements.
SumStep(f, g, s) ==
  /\ Chosen(s) \in s
  /\ g[s] = f[Chosen(s)] + g[s \ {Chosen(s)}]

\* The sum over a set is one value and the sum over the rest.
LEMMA SumSteps ==
  ASSUME NEW S, IsFiniteSet(S), NEW f
  PROVE  /\ SumsOf(f, S)[{}] = 0
         /\ \A s \in SUBSET S : s # {} => SumStep(f, SumsOf(f, S), s)
  <1>1. Sums(f, SUBSET S, SumsOf(f, S))
    BY Zenon, SumsDefined
  <1>2. ASSUME NEW g, Sums(f, SUBSET S, g)
        PROVE  \A s \in SUBSET S : g[s] = Added(f, g, s)
    <2>1. \A h : g = [s \in SUBSET S |-> Added(f, h, s)]
                => \A s \in SUBSET S : g[s] = Added(f, h, s)
      BY Zenon
    <2> QED  BY Zenon, <1>2, <2>1 DEF Sums
  <1>3. \A s \in SUBSET S : SumsOf(f, S)[s] = Added(f, SumsOf(f, S), s)
    BY Zenon, <1>1, <1>2
  <1>4. SumsOf(f, S)[{}] = 0
    BY Zenon, <1>3 DEF Added
  <1>5. \A s \in SUBSET S : s # {} => Chosen(s) \in s
    BY Zenon DEF Chosen
  <1> QED  BY Zenon, <1>3, <1>4, <1>5 DEF Added, SumStep

\* Sums of integers are integers.
LEMMA SumsInt ==
  ASSUME NEW S, IsFiniteSet(S), NEW f \in [S -> Int]
  PROVE  \A s \in SUBSET S : SumsOf(f, S)[s] \in Int
  <1> DEFINE B == {s \in SUBSET S : SumsOf(f, S)[s] \notin Int}
  <1>1. SUFFICES ASSUME B # {}  PROVE FALSE
    BY Zenon
  <1>2. PICK s \in B : \A x \in s : s \ {x} \notin B
    <2>1. B \in SUBSET (SUBSET S)
      BY Zenon
    <2> HIDE DEF B
    <2> QED  BY Zenon, <1>1, <2>1, SmallestSet
  <1>3. /\ SumsOf(f, S)[{}] = 0
        /\ \A u \in SUBSET S : u # {} => SumStep(f, SumsOf(f, S), u)
    BY Zenon, SumSteps
  <1>n. s # {}
    <2>1. 0 \in Int  OBVIOUS
    <2> QED  BY Zenon, <1>3, <2>1
  <1>4. /\ SumsOf(f, S)[s] = f[Chosen(s)] + SumsOf(f, S)[s \ {Chosen(s)}]
        /\ Chosen(s) \in S
        /\ SumsOf(f, S)[s \ {Chosen(s)}] \in Int
    BY Zenon, <1>2, <1>3, <1>n DEF SumStep
  <1>5. SumsOf(f, S)[s] \in Int
    BY SMTT(30), <1>4
  <1> QED  BY Zenon, <1>5

\* Two functions that differ at most at x.
Shift(f, g, x, s) == IF x \in s THEN g[x] - f[x] ELSE 0

\* A change at x changes the sums over the sets that contain x.
LEMMA SumsShift ==
  ASSUME NEW S, IsFiniteSet(S), NEW f \in [S -> Int], NEW g \in [S -> Int],
         NEW x \in S, \A y \in S \ {x} : g[y] = f[y]
  PROVE  \A s \in SUBSET S :
           SumsOf(g, S)[s] = SumsOf(f, S)[s] + Shift(f, g, x, s)
  <1> DEFINE B == {s \in SUBSET S :
                     SumsOf(g, S)[s] # SumsOf(f, S)[s] + Shift(f, g, x, s)}
  <1>1. SUFFICES ASSUME B # {}  PROVE FALSE
    BY Zenon
  <1>2. PICK s \in B : \A y \in s : s \ {y} \notin B
    <2>1. B \in SUBSET (SUBSET S)
      BY Zenon
    <2> HIDE DEF B
    <2> QED  BY Zenon, <1>1, <2>1, SmallestSet
  <1>3. s # {}
    <2>1. Shift(f, g, x, {}) = 0
      BY Zenon DEF Shift
    <2>2. SumsOf(g, S)[{}] = SumsOf(f, S)[{}] + 0
      <3>1. SumsOf(g, S)[{}] = 0 /\ SumsOf(f, S)[{}] = 0
        BY Zenon, SumSteps
      <3> QED  BY SMTT(30), <3>1
    <2> QED  BY Zenon, <2>1, <2>2
  <1> DEFINE y == Chosen(s)
             r == s \ {y}
  <1>4. /\ SumsOf(g, S)[s] = g[y] + SumsOf(g, S)[r]
        /\ SumsOf(f, S)[s] = f[y] + SumsOf(f, S)[r]
        /\ y \in s /\ y \in S /\ r \in SUBSET S
    <2>1. SumStep(g, SumsOf(g, S), s) /\ SumStep(f, SumsOf(f, S), s)
      BY Zenon, <1>3, SumSteps
    <2> QED  BY Zenon, <2>1 DEF SumStep
  <1>5. SumsOf(g, S)[r] = SumsOf(f, S)[r] + Shift(f, g, x, r)
    BY Zenon, <1>2, <1>4
  <1>6. /\ SumsOf(g, S)[r] \in Int /\ SumsOf(f, S)[r] \in Int
        /\ g[y] \in Int /\ f[y] \in Int /\ g[x] \in Int /\ f[x] \in Int
    BY Zenon, <1>4, SumsInt
  <1>7. SumsOf(g, S)[s] = SumsOf(f, S)[s] + Shift(f, g, x, s)
    <2>1. CASE y = x
      <3>1. Shift(f, g, x, s) = g[x] - f[x] /\ Shift(f, g, x, r) = 0
        BY Zenon, <1>4, <2>1 DEF Shift
      <3> HIDE DEF y, r
      <3> QED  BY SMTT(30), <1>4, <1>5, <1>6, <2>1, <3>1
    <2>2. CASE y # x
      <3>1. Shift(f, g, x, s) = Shift(f, g, x, r) /\ g[y] = f[y]
        BY Zenon, <1>4, <2>2 DEF Shift
      <3>2. Shift(f, g, x, r) \in Int
        <4>1. g[x] - f[x] \in Int /\ 0 \in Int
          BY SMTT(30), <1>6
        <4> QED  BY Zenon, <4>1 DEF Shift
      <3> HIDE DEF y, r
      <3> QED  BY SMTT(30), <1>4, <1>5, <1>6, <3>1, <3>2
    <2> QED  BY Zenon, <2>1, <2>2
  <1> QED  BY Zenon, <1>7

-----------------------------------------------------------------------------
(* What the other modules use of sums *)

\* A sum of integers is an integer.
LEMMA SumType ==
  ASSUME NEW S, IsFiniteSet(S), NEW f \in [S -> Int]
  PROVE  SumFunction(f) \in Int
  <1>1. DOMAIN f = S
    BY Zenon
  <1> QED  BY Zenon, <1>1, SumUnfolded, SumsInt DEF SumFunction

\* Changing one value changes the sum by as much.
LEMMA SumChange ==
  ASSUME NEW S, IsFiniteSet(S), NEW f \in [S -> Int], NEW g \in [S -> Int],
         NEW x \in S, \A y \in S \ {x} : g[y] = f[y]
  PROVE  SumFunction(g) = SumFunction(f) + (g[x] - f[x])
  <1>1. DOMAIN f = S /\ DOMAIN g = S
    BY Zenon
  <1>2. SumsOf(g, S)[S] = SumsOf(f, S)[S] + Shift(f, g, x, S)
    <2>1. \A s \in SUBSET S :
            SumsOf(g, S)[s] = SumsOf(f, S)[s] + Shift(f, g, x, s)
      BY Zenon, SumsShift
    <2> QED  BY Zenon, <2>1
  <1> QED  BY Zenon, <1>1, <1>2, SumUnfolded DEF SumFunction, Shift

\* A sum of zeros.
LEMMA SumZero ==
  ASSUME NEW S, IsFiniteSet(S), NEW f \in [S -> Int],
         \A x \in S : f[x] = 0
  PROVE  SumFunction(f) = 0
  <1> DEFINE B == {s \in SUBSET S : SumsOf(f, S)[s] # 0}
  <1>1. B = {}
    <2>1. SUFFICES ASSUME B # {}  PROVE FALSE
      BY Zenon
    <2>2. PICK s \in B : \A x \in s : s \ {x} \notin B
      <3>1. B \in SUBSET (SUBSET S)
        BY Zenon
      <3> HIDE DEF B
      <3> QED  BY Zenon, <2>1, <3>1, SmallestSet
    <2>3. s # {}
      <3>1. SumsOf(f, S)[{}] = 0
        BY Zenon, SumSteps
      <3> QED  BY Zenon, <3>1
    <2>s. SumStep(f, SumsOf(f, S), s)
      BY Zenon, <2>3, SumSteps
    <2>4. /\ SumsOf(f, S)[s] = f[Chosen(s)] + SumsOf(f, S)[s \ {Chosen(s)}]
          /\ f[Chosen(s)] = 0
          /\ SumsOf(f, S)[s \ {Chosen(s)}] = 0
      BY Zenon, <2>2, <2>s DEF SumStep
    <2>5. SumsOf(f, S)[s] = 0
      BY SMTT(30), <2>4
    <2> QED  BY Zenon, <2>5
  <1>2. DOMAIN f = S /\ SumsOf(f, S)[S] = 0
    BY Zenon, <1>1
  <1> QED  BY Zenon, <1>2, SumUnfolded DEF SumFunction

-----------------------------------------------------------------------------
(* Powers of two: a set of n elements has 2^n subsets. *)

\* A power of two is positive.
LEMMA PowerOfTwo ==
  ASSUME NEW n \in Nat
  PROVE  2^n \in Nat \ {0}
  <1>1. IsFiniteSet(1 .. n) /\ Cardinality(1 .. n) = n
    <2>1. IsFiniteSet(1 .. n) /\ Cardinality(1 .. n) = IF 1 > n THEN 0 ELSE n - 1 + 1
      BY SMTT(30), FS_Interval
    <2> QED  BY SMTT(30), <2>1
  <1>2. IsFiniteSet(SUBSET (1 .. n)) /\ Cardinality(SUBSET (1 .. n)) = 2^n
    BY Zenon, <1>1, FS_SUBSET
  <1>3. SUBSET (1 .. n) # {}
    BY Zenon
  <1>4. 2^n \in Nat /\ 2^n # 0
    BY Zenon, <1>2, <1>3, FS_CardinalityType, FS_EmptySet
  <1> QED  BY Zenon, <1>4
-----------------------------------------------------------------------------
(* The least of several numbers. *)

\* Min of a set of natural numbers is its least.
LEMMA MinOfNaturals ==
  ASSUME NEW T \in SUBSET Nat, T # {}
  PROVE  Min(T) \in T /\ \A n \in T : Min(T) <= n
  <1>1. \E m \in T : \A n \in T : m <= n
    BY Zenon, LeastNumber
  <1> QED  BY Zenon, <1>1 DEF Min

\* Min of two numbers.
LEMMA MinOfTwo ==
  ASSUME NEW a \in Int, NEW b \in Int
  PROVE  Min({a, b}) \in Int /\ Min({a, b}) <= a /\ Min({a, b}) <= b
  <1>1. \E m \in {a, b} : \A n \in {a, b} : m <= n
    <2>1. a <= a /\ b <= b /\ (a <= b \/ b <= a)
      BY SMTT(30)
    <2> QED  BY Zenon, <2>1
  <1>2. Min({a, b}) \in {a, b} /\ \A n \in {a, b} : Min({a, b}) <= n
    BY Zenon, <1>1 DEF Min
  <1> QED  BY Zenon, <1>2

\* Max of two numbers.
LEMMA MaxOfTwo ==
  ASSUME NEW a \in Nat, NEW b \in Nat
  PROVE  Max({a, b}) \in Nat /\ a <= Max({a, b}) /\ b <= Max({a, b})
  <1>1. \E m \in {a, b} : \A n \in {a, b} : m >= n
    <2>1. a >= a /\ b >= b /\ (a >= b \/ b >= a)
      BY SMTT(30)
    <2> QED  BY Zenon, <2>1
  <1>2. Max({a, b}) \in {a, b} /\ \A n \in {a, b} : Max({a, b}) >= n
    BY Zenon, <1>1 DEF Max
  <1>3. PICK m \in Nat : m = Max({a, b}) /\ m >= a /\ m >= b
    BY Zenon, <1>2
  <1>4. a <= m /\ b <= m
    BY SMTT(30), <1>3
  <1> QED  BY Zenon, <1>3, <1>4

-----------------------------------------------------------------------------
(* Division rounds down. *)

\* The quotient is the number of whole divisors.
LEMMA Quotient ==
  ASSUME NEW x \in Nat, NEW d \in Nat \ {0}
  PROVE  /\ x \div d \in Nat
         /\ d * (x \div d) <= x /\ x < d * (x \div d) + d
  BY SMTT(30)

\* A product of natural numbers is one.
LEMMA Product ==
  ASSUME NEW a \in Nat, NEW b \in Nat
  PROVE  a * b \in Nat
  BY SMTT(30)

\* No number that fits is above the quotient.
LEMMA QuotientIsLargest ==
  ASSUME NEW x \in Nat, NEW d \in Nat \ {0}, NEW q \in Nat, d * q <= x
  PROVE  q <= x \div d
  <1>1. PICK p \in Nat : p = x \div d /\ x < d * p + d
    BY Zenon, Quotient
  <1>2. d * p \in Nat /\ d * q \in Nat
    BY Zenon, Product
  <1>3. ASSUME p < q  PROVE d * p + d <= d * q
    BY SMTT(30), <1>3
  <1>4. q <= p
    BY SMTT(30), <1>1, <1>2, <1>3
  <1> QED  BY Zenon, <1>1, <1>4

\* Rounding a sum loses no more than rounding its parts.
LEMMA QuotientOfSum ==
  ASSUME NEW x \in Nat, NEW y \in Nat, NEW d \in Nat \ {0}
  PROVE  (x \div d) + (y \div d) <= (x + y) \div d
  <1>1. PICK p \in Nat, q \in Nat :
          /\ p = x \div d /\ d * p <= x
          /\ q = y \div d /\ d * q <= y
    BY Zenon, Quotient
  <1>2. d * p \in Nat /\ d * q \in Nat
    BY Zenon, Product
  <1>3. d * (p + q) = d * p + d * q
    BY SMTT(30)
  <1>4. p + q \in Nat /\ x + y \in Nat /\ d * (p + q) <= x + y
    BY SMTT(30), <1>1, <1>2, <1>3
  <1>5. p + q <= (x + y) \div d
    BY Zenon, <1>4, QuotientIsLargest
  <1> QED  BY Zenon, <1>1, <1>5

\* Dividing more gives no less.
LEMMA QuotientGrows ==
  ASSUME NEW x \in Nat, NEW y \in Nat, x <= y, NEW d \in Nat \ {0}
  PROVE  x \div d <= y \div d
  <1>1. PICK p \in Nat : p = x \div d /\ d * p <= x
    BY Zenon, Quotient
  <1>2. d * p \in Nat
    BY Zenon, Product
  <1>3. d * p <= y
    BY SMTT(30), <1>1, <1>2
  <1>4. p <= y \div d
    BY Zenon, <1>3, QuotientIsLargest
  <1> QED  BY Zenon, <1>1, <1>4
=============================================================================
