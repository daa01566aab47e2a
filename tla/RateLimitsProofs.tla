-------------------------- MODULE RateLimitsProofs --------------------------
(***************************************************************************)
(* The ceilings a request meets, for every number of addresses, accounts,  *)
(* requests in flight and ticks, and every limit, burst and window.        *)
(***************************************************************************)
EXTENDS RateLimits, SequenceTheorems, FiniteSetTheorems, NaturalsInduction,
        WellFoundedInduction, TLAPS

-----------------------------------------------------------------------------
(* Numbers.  Proofs by induction take a least counterexample.              *)

\* A set of natural numbers that is not empty has a least element.
LEMMA LeastElement ==
    ASSUME NEW N \in SUBSET Nat, N # {}
    PROVE  \E m \in N : \A k \in N : m <= k
  <1>1. PICK m \in N : \A k \in N : ~(<<k, m>> \in OpToRel(<, Nat))
    BY NatLessThanWellFounded, WFMin
  <1>2. \A k \in N : ~(k < m) /\ k \in Nat /\ m \in Nat
    BY <1>1 DEF OpToRel
  <1>3. \A k \in N : m <= k
    BY <1>2
  <1> QED
    BY <1>3

\* The larger and the smaller of two numbers.
LEMMA LargerOfTwo ==
    ASSUME NEW a \in Nat, NEW b \in Nat
    PROVE  Max({a, b}) = IF a >= b THEN a ELSE b
  <1>1. \E m \in {a, b} : \A k \in {a, b} : m >= k
    OBVIOUS
  <1>2. Max({a, b}) \in {a, b} /\ \A k \in {a, b} : Max({a, b}) >= k
    BY <1>1 DEF Max
  <1> QED
    BY <1>2

LEMMA SmallerOfTwo ==
    ASSUME NEW a \in Nat, NEW b \in Nat
    PROVE  Min({a, b}) = IF a <= b THEN a ELSE b
  <1>1. \E m \in {a, b} : \A k \in {a, b} : m <= k
    OBVIOUS
  <1>2. Min({a, b}) \in {a, b} /\ \A k \in {a, b} : Min({a, b}) <= k
    BY <1>1 DEF Min
  <1> QED
    BY <1>2

\* A power of two is the number of subsets of a set.
LEMMA PowerType ==
    ASSUME NEW n \in Nat
    PROVE  2^n \in Nat /\ Cardinality(SUBSET (1..n)) = 2^n /\ IsFiniteSet(SUBSET (1..n))
  <1>1. IsFiniteSet(1..n) /\ Cardinality(1..n) = n
    BY FS_Interval
  <1>2. Cardinality(SUBSET (1..n)) = 2^n /\ IsFiniteSet(SUBSET (1..n))
    BY <1>1, FS_SUBSET
  <1> QED
    BY <1>2, FS_CardinalityType

LEMMA PowerOfZero == 2^0 = 1
  <1>1. SUBSET (1..0) = {{}}
    OBVIOUS
  <1>2. Cardinality({{}}) = 1
    BY FS_Singleton
  <1> QED
    BY <1>1, <1>2, PowerType

\* One more element doubles the subsets: those without it and those with it.
LEMMA PowerDoubles ==
    ASSUME NEW n \in Nat
    PROVE  2^(n + 1) = 2^n + 2^n
  <1> DEFINE A == SUBSET (1..n)
             B == {s \cup {n + 1} : s \in A}
             f == [s \in A |-> s \cup {n + 1}]
  <1>1. 1..(n + 1) = (1..n) \cup {n + 1} /\ n + 1 \notin 1..n
    OBVIOUS
  <1>2. f \in Bijection(A, B)
    <2>1. \A s, t \in A : s \cup {n + 1} = t \cup {n + 1} => s = t
      BY <1>1
    <2>2. f \in [A -> B] /\ \A s \in A : f[s] = s \cup {n + 1}
      OBVIOUS
    <2>3. \A t \in B : \E s \in A : f[s] = t
      OBVIOUS
    <2> HIDE DEF f, A, B
    <2> QED
      BY <2>1, <2>2, <2>3 DEF Bijection, Injection, Surjection, IsInjective
  <1>3. IsFiniteSet(B) /\ Cardinality(B) = Cardinality(A)
    <2>1. IsFiniteSet(A)
      BY PowerType
    <2>2. ExistsBijection(A, B)
      BY <1>2 DEF ExistsBijection
    <2> HIDE DEF A, B, f
    <2> QED
      BY <2>1, <2>2, FS_Bijection
  <1>4. SUBSET (1..(n + 1)) = A \cup B
    <2>1. A \cup B \subseteq SUBSET (1..(n + 1))
      BY <1>1
    <2>2. ASSUME NEW s \in SUBSET (1..(n + 1)) PROVE s \in A \cup B
      <3>1. CASE n + 1 \in s
        <4>1. s \ {n + 1} \in A /\ s = (s \ {n + 1}) \cup {n + 1}
          BY <1>1, <3>1
        <4> QED
          BY <4>1
      <3>2. CASE n + 1 \notin s
        BY <1>1, <3>2
      <3> QED
        BY <3>1, <3>2
    <2> QED
      BY <2>1, <2>2
  <1>5. A \cap B = {}
    BY <1>1
  <1>6. Cardinality(A \cup B) = Cardinality(A) + Cardinality(B)
    <2>1. IsFiniteSet(A)
      BY PowerType
    <2> HIDE DEF A, B
    <2>2. Cardinality(A) \in Nat /\ Cardinality(B) \in Nat /\ Cardinality({}) = 0
      BY <1>3, <2>1, FS_CardinalityType, FS_EmptySet
    <2>3. Cardinality(A \cup B) = Cardinality(A) + Cardinality(B) - Cardinality(A \cap B)
      BY <1>3, <2>1, FS_Union
    <2>4. Cardinality(A \cap B) = 0
      BY <1>5, <2>2
    <2> QED
      BY <2>2, <2>3, <2>4
  <1>7. Cardinality(SUBSET (1..(n + 1))) = 2^(n + 1) /\ Cardinality(A) = 2^n
    BY PowerType
  <1> QED
    BY <1>3, <1>4, <1>6, <1>7

\* Powers of two grow, and faster than their exponents.
LEMMA PowerGrows ==
    ASSUME NEW m \in Nat, NEW n \in Nat, m <= n
    PROVE  2^m <= 2^n /\ n + 1 <= 2^n
  <1> DEFINE Bad == {k \in Nat : ~(k + 1 <= 2^k) \/ (m <= k /\ ~(2^m <= 2^k))}
  <1>1. ASSUME Bad # {} PROVE FALSE
    <2>1. PICK k \in Bad : \A i \in Bad : k <= i
      BY <1>1, LeastElement
    <2>2. k \in Nat /\ 2^k \in Nat /\ 2^m \in Nat
      BY <2>1, PowerType
    <2>3. k # 0
      <3> SUFFICES ASSUME k = 0 PROVE FALSE
        OBVIOUS
      <3>1. m <= k => m = k
        OBVIOUS
      <3>2. 2^k = 1
        BY PowerOfZero
      <3>3. k + 1 <= 2^k /\ (m <= k => 2^m <= 2^k)
        BY <2>2, <3>1, <3>2
      <3> QED
        BY <2>1, <3>3
    <2> DEFINE j == k - 1
    <2>4. j \in Nat /\ j + 1 = k /\ j \notin Bad
      <3>1. j \in Nat /\ j + 1 = k /\ ~(k <= j)
        BY <2>2, <2>3
      <3> HIDE DEF Bad, j
      <3> QED
        BY <2>1, <3>1
    <2> HIDE DEF j
    <2>5. 2^k = 2^j + 2^j /\ 2^j \in Nat
      BY <2>4, PowerDoubles, PowerType
    <2>6. j + 1 <= 2^j /\ (m <= j => 2^m <= 2^j)
      BY <2>4
    <2>7. k + 1 <= 2^k
      BY <2>2, <2>4, <2>5, <2>6
    <2>8. m <= k => 2^m <= 2^k
      <3>1. m <= k => m <= j \/ m = k
        BY <2>2, <2>4
      <3> QED
        BY <2>2, <2>5, <2>6, <3>1
    <2> QED
      BY <2>1, <2>7, <2>8
  <1> QED
    BY <1>1

-----------------------------------------------------------------------------
(* Sums of natural numbers over a finite set.                              *)

Picked(s) == CHOOSE x \in s : TRUE

\* g gives every subset of S the sum of f over it.
SumsOf(f, S, g) ==
    g = [s \in SUBSET S |-> IF s = {} THEN 0 ELSE f[Picked(s)] + g[s \ {Picked(s)}]]

\* What is picked from a set is an element of it.
LEMMA PickedElement == ASSUME NEW s, s # {} PROVE Picked(s) \in s
  BY DEF Picked

\* A smaller set remains.
LEMMA PickedRest ==
    ASSUME NEW s, IsFiniteSet(s), s # {}
    PROVE  /\ IsFiniteSet(s \ {Picked(s)}) /\ Cardinality(s) \in Nat \ {0}
           /\ Cardinality(s \ {Picked(s)}) = Cardinality(s) - 1
  BY PickedElement, FS_RemoveElement, FS_CardinalityType, FS_EmptySet

\* The subsets of a finite set have at most one family of sums ...
LEMMA SumsUnique ==
    ASSUME NEW f, NEW S, IsFiniteSet(S), NEW g, NEW h, SumsOf(f, S, g), SumsOf(f, S, h)
    PROVE  g = h
  <1> DEFINE Bad == {n \in Nat : \E s \in SUBSET S : Cardinality(s) = n /\ g[s] # h[s]}
  <1>1. ASSUME Bad # {} PROVE FALSE
    <2>1. PICK m \in Bad : \A k \in Bad : m <= k
      BY <1>1, LeastElement
    <2>2. PICK s \in SUBSET S : Cardinality(s) = m /\ g[s] # h[s]
      BY <2>1
    <2>3. IsFiniteSet(s)
      BY FS_Subset
    <2>4. s # {}
      BY <2>2 DEF SumsOf
    <2> DEFINE t == s \ {Picked(s)}
    <2>5. t \in SUBSET S /\ Cardinality(t) \in Nat /\ Cardinality(t) = m - 1
      <3>1. IsFiniteSet(t) /\ Cardinality(t) = Cardinality(s) - 1
        BY <2>3, <2>4, PickedRest
      <3>2. Cardinality(t) \in Nat
        BY <3>1, FS_CardinalityType
      <3> QED
        BY <2>2, <3>1, <3>2
    <2>6. g[t] = h[t]
      BY <2>1, <2>5
    <2>7. g[s] = f[Picked(s)] + g[t]
      BY <2>4 DEF SumsOf
    <2>8. h[s] = f[Picked(s)] + h[t]
      BY <2>4 DEF SumsOf
    <2> HIDE DEF t
    <2> QED
      BY <2>2, <2>6, <2>7, <2>8
  <1>2. \A s \in SUBSET S : Cardinality(s) \in Nat
    BY FS_Subset, FS_CardinalityType
  <1>3. \A s \in SUBSET S : g[s] = h[s]
    BY <1>1, <1>2
  <1> QED
    BY <1>3 DEF SumsOf

\* ... and they have one.
LEMMA SumsExist ==
    ASSUME NEW f, NEW S, IsFiniteSet(S)
    PROVE  \E g : SumsOf(f, S, g)
  <1> DEFINE Body(g, s) == IF s = {} THEN 0 ELSE f[Picked(s)] + g[s \ {Picked(s)}]
             Upto(n, g) == /\ g = [s \in SUBSET S |-> g[s]]
                           /\ \A s \in SUBSET S : Cardinality(s) <= n => g[s] = Body(g, s)
             Bad == {n \in Nat : ~\E g : Upto(n, g)}
  <1>1. \A s \in SUBSET S : IsFiniteSet(s) /\ Cardinality(s) \in Nat
    BY FS_Subset, FS_CardinalityType
  <1>2. ASSUME Bad # {} PROVE FALSE
    <2>1. PICK m \in Bad : \A k \in Bad : m <= k
      BY <1>2, LeastElement
    <2>2. m # 0
      <3> DEFINE z == [s \in SUBSET S |-> 0]
      <3>1. \A s \in SUBSET S : Cardinality(s) <= 0 => s = {}
        BY <1>1, FS_EmptySet
      <3>2. Upto(0, z)
        BY <3>1
      <3> HIDE DEF z, Upto
      <3> QED
        BY <2>1, <3>2
    <2>3. m - 1 \in Nat /\ m - 1 \notin Bad
      <3>1. m \in Nat
        BY <2>1
      <3> HIDE DEF Bad
      <3> QED
        BY <2>1, <2>2, <3>1
    <2>4. PICK g : Upto(m - 1, g)
      BY <2>3
    <2> DEFINE h == [s \in SUBSET S |-> Body(g, s)]
    <2>5. ASSUME NEW s \in SUBSET S, Cardinality(s) <= m - 1 PROVE h[s] = g[s]
      BY <2>4, <2>5
    <2>6. ASSUME NEW s \in SUBSET S, Cardinality(s) <= m PROVE h[s] = Body(h, s)
      <3>1. CASE s = {}
        BY <3>1
      <3>2. CASE s # {}
        <4>1. s \ {Picked(s)} \in SUBSET S /\ Cardinality(s \ {Picked(s)}) <= m - 1
          BY <1>1, <2>1, <2>6, <3>2, PickedRest
        <4>2. h[s \ {Picked(s)}] = g[s \ {Picked(s)}]
          BY <2>5, <4>1
        <4> QED
          BY <3>2, <4>2
      <3> QED
        BY <3>1, <3>2
    <2>7. Upto(m, h)
      BY <2>6
    <2> QED
      BY <2>1, <2>7
  <1>3. Cardinality(S) \in Nat /\ Cardinality(S) \notin Bad
    BY <1>1, <1>2
  <1>4. PICK g : Upto(Cardinality(S), g)
    BY <1>3
  <1>5. \A s \in SUBSET S : Cardinality(s) <= Cardinality(S)
    BY FS_Subset
  <1>6. SumsOf(f, S, g)
    BY <1>4, <1>5 DEF SumsOf
  <1> QED
    BY <1>6

\* The sum of a set is the value at the element picked and the sum of the rest.
LEMMA SumStep ==
    ASSUME NEW f, NEW S, IsFiniteSet(S)
    PROVE  SumFunctionOnSet(f, S) = IF S = {} THEN 0 ELSE f[Picked(S)] + SumFunctionOnSet(f, S \ {Picked(S)})
  <1> DEFINE F(T) == CHOOSE g : SumsOf(f, T, g)
  <1>1. \A T : SumFunctionOnSet(f, T) = F(T)[T]
    BY DEF SumFunctionOnSet, FoldFunctionOnSet, MapThenFoldSet, SumsOf, Picked
  <1>2. SumsOf(f, S, F(S))
    BY SumsExist
  <1>3. CASE S = {}
    <2>1. SumFunctionOnSet(f, S) = F(S)[S]
      BY <1>1
    <2> HIDE DEF F
    <2>2. F(S)[S] = 0
      BY <1>2, <1>3 DEF SumsOf
    <2> QED
      BY <1>3, <2>1, <2>2
  <1>4. CASE S # {}
    <2> DEFINE T == S \ {Picked(S)}
               r == [s \in SUBSET T |-> F(S)[s]]
    <2>1. IsFiniteSet(T) /\ T \in SUBSET S
      BY <1>4, PickedRest
    <2>2. SumsOf(f, T, F(T))
      BY <2>1, SumsExist
    <2>3. SumsOf(f, T, r)
      <3>1. \A s \in SUBSET T : s \ {Picked(s)} \in SUBSET T /\ s \in SUBSET S
        BY <2>1
      <3> QED
        BY <1>2, <3>1 DEF SumsOf
    <2>4. F(T) = r
      BY <2>1, <2>2, <2>3, SumsUnique
    <2>5. F(S)[S] = f[Picked(S)] + F(S)[T]
      BY <1>2, <1>4 DEF SumsOf
    <2>6. F(T)[T] = F(S)[T]
      BY <2>4
    <2>7. SumFunctionOnSet(f, S) = F(S)[S] /\ SumFunctionOnSet(f, T) = F(T)[T]
      BY <1>1
    <2> HIDE DEF F
    <2> QED
      BY <1>4, <2>5, <2>6, <2>7
  <1> QED
    BY <1>3, <1>4

\* A sum of natural numbers is a natural number.
LEMMA SumType ==
    ASSUME NEW U, NEW f \in [U -> Nat], NEW S \in SUBSET U, IsFiniteSet(S)
    PROVE  SumFunctionOnSet(f, S) \in Nat
  <1> DEFINE Bad == {n \in Nat : \E s \in SUBSET U : /\ IsFiniteSet(s) /\ Cardinality(s) = n
                                                    /\ SumFunctionOnSet(f, s) \notin Nat}
  <1>1. ASSUME Bad # {} PROVE FALSE
    <2>1. PICK m \in Bad : \A k \in Bad : m <= k
      BY <1>1, LeastElement
    <2>2. PICK s \in SUBSET U : IsFiniteSet(s) /\ Cardinality(s) = m /\ SumFunctionOnSet(f, s) \notin Nat
      BY <2>1
    <2>3. s # {}
      <3>1. SumFunctionOnSet(f, {}) = 0
        BY SumStep, FS_EmptySet
      <3> QED
        BY <2>2, <3>1
    <2>4. /\ IsFiniteSet(s \ {Picked(s)}) /\ Cardinality(s \ {Picked(s)}) = m - 1 /\ m \in Nat \ {0}
          /\ Picked(s) \in s
      BY <2>2, <2>3, PickedRest, PickedElement
    <2>5. SumFunctionOnSet(f, s \ {Picked(s)}) \in Nat
      <3>1. m - 1 \in Nat /\ m - 1 \notin Bad
        <4>1. \A k \in Bad : m <= k
          BY <2>1
        <4> HIDE DEF Bad
        <4> QED
          BY <2>4, <4>1
      <3> QED
        BY <2>4, <3>1
    <2>6. SumFunctionOnSet(f, s) = f[Picked(s)] + SumFunctionOnSet(f, s \ {Picked(s)})
      BY <2>2, <2>3, SumStep
    <2>7. f[Picked(s)] \in Nat
      BY <2>4
    <2> QED
      BY <2>2, <2>5, <2>6, <2>7
  <1>2. Cardinality(S) \in Nat
    BY FS_CardinalityType
  <1> QED
    BY <1>1, <1>2

\* Another element adds its value, in whatever order the sum is taken.
LEMMA SumAdd ==
    ASSUME NEW U, NEW f \in [U -> Nat],
           NEW S \in SUBSET U, IsFiniteSet(S), NEW a \in U, a \notin S
    PROVE  SumFunctionOnSet(f, S \cup {a}) = SumFunctionOnSet(f, S) + f[a]
  <1> DEFINE Adds(s, b) == SumFunctionOnSet(f, s \cup {b}) = SumFunctionOnSet(f, s) + f[b]
             Bad == {n \in Nat : \E s \in SUBSET U, b \in U : /\ IsFiniteSet(s) /\ Cardinality(s) = n
                                                             /\ b \notin s /\ ~Adds(s, b)}
  <1>1. ASSUME Bad # {} PROVE FALSE
    <2>1. PICK m \in Bad : \A k \in Bad : m <= k
      BY <1>1, LeastElement
    <2>2. PICK s \in SUBSET U, b \in U : /\ IsFiniteSet(s) /\ Cardinality(s) = m
                                         /\ b \notin s /\ ~Adds(s, b)
      BY <2>1
    <2> DEFINE t == s \cup {b}
               x == Picked(t)
    <2>3. IsFiniteSet(t) /\ t # {} /\ t \in SUBSET U
      BY <2>2, FS_AddElement
    <2>4. x \in t /\ x \in U
      BY <2>3, PickedElement
    <2>5. SumFunctionOnSet(f, t) = f[x] + SumFunctionOnSet(f, t \ {x})
      BY <2>3, SumStep
    <2>6. SumFunctionOnSet(f, s) \in Nat /\ f[x] \in Nat /\ f[b] \in Nat
      BY <2>2, <2>4, SumType
    <2>7. x # b
      <3>1. SUFFICES ASSUME x = b PROVE FALSE
        OBVIOUS
      <3>2. t \ {x} = s
        BY <2>2, <3>1
      <3> HIDE DEF x, t
      <3>3. SumFunctionOnSet(f, t) = f[b] + SumFunctionOnSet(f, s)
        BY <2>5, <3>1, <3>2
      <3>4. SumFunctionOnSet(f, t) = SumFunctionOnSet(f, s) + f[b]
        BY <2>6, <3>3
      <3> QED
        BY <2>2, <3>4 DEF t
    <2> DEFINE w == s \ {x}
    <2>8. x \in s /\ t \ {x} = w \cup {b} /\ w \cup {x} = s /\ x \notin w /\ b \notin w /\ w \in SUBSET U
      <3>1. t = s \cup {b}
        OBVIOUS
      <3> HIDE DEF t, x
      <3> QED
        BY <2>2, <2>4, <2>7, <3>1
    <2>9. IsFiniteSet(w) /\ Cardinality(w) = m - 1 /\ Cardinality(w) \in Nat
      BY <2>2, <2>8, FS_RemoveElement, FS_CardinalityType
    <2>10. m - 1 \in Nat /\ m - 1 \notin Bad
      <3>1. \A k \in Bad : m <= k
        BY <2>1
      <3>2. m \in Nat
        BY <2>1
      <3> HIDE DEF Bad
      <3> QED
        BY <2>9, <3>1, <3>2
    <2>11. Adds(w, b) /\ Adds(w, x)
      <3> HIDE DEF w, x, Adds
      <3> QED
        BY <2>2, <2>4, <2>8, <2>9, <2>10
    <2>12. SumFunctionOnSet(f, w) \in Nat
      BY <2>8, <2>9, SumType
    <2>13. /\ SumFunctionOnSet(f, t \ {x}) = SumFunctionOnSet(f, w) + f[b]
           /\ SumFunctionOnSet(f, s) = SumFunctionOnSet(f, w) + f[x]
      <3> HIDE DEF w, x, t
      <3> QED
        BY <2>8, <2>11
    <2>14. SumFunctionOnSet(f, t) = SumFunctionOnSet(f, s) + f[b]
      <3> HIDE DEF w, x, t
      <3> QED
        BY <2>5, <2>6, <2>12, <2>13
    <2> QED
      BY <2>2, <2>14
  <1>2. Cardinality(S) \in Nat
    BY FS_CardinalityType
  <1> QED
    BY <1>1, <1>2
-----------------------------------------------------------------------------
(* What was counted between two ticks.                                     *)

Counts == [Ticks -> Nat]

\* The ticks of an interval are finitely many, and the last of them is one more.
LEMMA IntervalLast ==
    ASSUME NEW a \in Nat, NEW b \in Int, a <= b, b <= MaxTime
    PROVE  /\ a..b \in SUBSET Ticks /\ IsFiniteSet(a..(b - 1)) /\ a..(b - 1) \in SUBSET Ticks
           /\ a..b = (a..(b - 1)) \cup {b} /\ b \in Ticks /\ b \notin a..(b - 1)
  <1>1. MaxTime \in Nat
    BY LimitConstants
  <1>2. a..b \in SUBSET Ticks /\ a..(b - 1) \in SUBSET Ticks /\ b \in Ticks
    BY <1>1 DEF Ticks
  <1>3. IsFiniteSet(a..(b - 1))
    BY FS_Interval
  <1> QED
    BY <1>2, <1>3

\* A total is a number.
LEMMA TotalType ==
    ASSUME NEW f \in Counts, NEW a \in Nat, NEW b \in Int, b <= MaxTime
    PROVE  Total(f, a, b) \in Nat
  <1>1. IsFiniteSet(a..b)
    BY FS_Interval
  <1>2. a..b \in SUBSET Ticks
    BY LimitConstants DEF Ticks
  <1> QED
    BY <1>1, <1>2, SumType DEF Counts, Total

\* An empty interval counts nothing.
LEMMA TotalEmpty ==
    ASSUME NEW f, NEW a \in Nat, NEW b \in Int, a > b
    PROVE  Total(f, a, b) = 0
  <1>1. a..b = {}
    OBVIOUS
  <1>2. SumFunctionOnSet(f, {}) = 0
    BY SumStep, FS_EmptySet
  <1> QED
    BY <1>1, <1>2 DEF Total

\* A tick adds its count to the sum over others.
LEMMA TickAdd ==
    ASSUME NEW f \in Counts, NEW S \in SUBSET Ticks, IsFiniteSet(S), NEW t \in Ticks, t \notin S
    PROVE  SumFunctionOnSet(f, S \cup {t}) = SumFunctionOnSet(f, S) + f[t]
  <1>1. f \in [Ticks -> Nat]
    BY DEF Counts
  <1> QED
    BY <1>1, SumAdd, SMT

\* The last tick adds its count.
LEMMA TotalLast ==
    ASSUME NEW f \in Counts, NEW a \in Nat, NEW b \in Int, a <= b, b <= MaxTime
    PROVE  Total(f, a, b) = Total(f, a, b - 1) + f[b]
  <1> DEFINE S == a..(b - 1)
  <1>1. /\ a..b = S \cup {b} /\ b \in Ticks /\ b \notin S
        /\ IsFiniteSet(S) /\ S \in SUBSET Ticks
    BY IntervalLast
  <1>2. Total(f, a, b) = SumFunctionOnSet(f, a..b) /\ Total(f, a, b - 1) = SumFunctionOnSet(f, S)
    BY DEF Total
  <1> HIDE DEF S
  <1>3. SumFunctionOnSet(f, S \cup {b}) = SumFunctionOnSet(f, S) + f[b]
    BY <1>1, TickAdd, Zenon
  <1> QED
    BY <1>1, <1>2, <1>3

\* Ticks at which nothing was counted add nothing.
LEMMA TotalRest ==
    ASSUME NEW f \in Counts, NEW a \in Nat, NEW c \in Int, a <= c + 1,
           NEW b \in Int, c <= b, b <= MaxTime, \A t \in Ticks : t > c /\ t <= b => f[t] = 0
    PROVE  Total(f, a, b) = Total(f, a, c)
  <1> DEFINE Bad == {n \in Nat : c <= n /\ n <= b /\ Total(f, a, n) # Total(f, a, c)}
  <1>1. ASSUME Bad # {} PROVE FALSE
    <2>1. PICK m \in Bad : \A k \in Bad : m <= k
      BY <1>1, LeastElement
    <2>2. m \in Nat /\ c < m /\ m <= b /\ Total(f, a, m) # Total(f, a, c)
      <3>1. m \in Nat /\ c <= m /\ m <= b /\ Total(f, a, m) # Total(f, a, c)
        BY <2>1
      <3>2. m # c
        BY <3>1
      <3> QED
        BY <3>1, <3>2
    <2>3. f[m] = 0
      BY <2>2, LimitConstants DEF Ticks
    <2>4. Total(f, a, m) = Total(f, a, m - 1) + f[m] /\ Total(f, a, m - 1) \in Nat
      <3> HIDE DEF Bad
      <3>1. m \in Int /\ a <= m /\ m <= MaxTime /\ m - 1 \in Int /\ m - 1 <= MaxTime
        BY <2>2, LimitConstants
      <3>2. Total(f, a, m) = Total(f, a, m - 1) + f[m]
        BY <3>1, TotalLast
      <3>3. Total(f, a, m - 1) \in Nat
        BY <3>1, TotalType
      <3> QED
        BY <3>2, <3>3
    <2>5. Total(f, a, m) = Total(f, a, m - 1)
      BY <2>3, <2>4
    <2>6. m - 1 # c
      BY <2>2, <2>5
    <2>7. m - 1 \in Nat /\ c <= m - 1 /\ m - 1 <= b
      BY <2>2, <2>6
    <2>8. m - 1 \in Bad
      BY <2>2, <2>5, <2>7
    <2>9. \A k \in Bad : m <= k
      BY <2>1
    <2>10. m <= m - 1
      <3> HIDE DEF Bad
      <3> QED
        BY <2>8, <2>9
    <2> QED
      BY <2>2, <2>10
  <1>2. CASE b = c
    BY <1>2
  <1>3. CASE b # c
    <2>1. b \in Nat
      BY <1>3
    <2> QED
      BY <1>1, <2>1
  <1> QED
    BY <1>2, <1>3

\* One more at a tick is one more in every interval around it.
LEMMA TotalPlus ==
    ASSUME NEW f \in Counts, NEW t \in Ticks, NEW n \in Nat, NEW a \in Nat,
           NEW b \in Nat, b <= MaxTime
    PROVE  /\ Plus(f, t, n) \in Counts
           /\ Total(Plus(f, t, n), a, b) = Total(f, a, b) + (IF a <= t /\ t <= b THEN n ELSE 0)
  <1> DEFINE g == Plus(f, t, n)
             Adds(k) == Total(g, a, k) = Total(f, a, k) + (IF a <= t /\ t <= k THEN n ELSE 0)
             Bad == {k \in Nat : k <= MaxTime /\ ~Adds(k)}
  <1>1. g \in Counts /\ (\A k \in Ticks : g[k] = IF k = t THEN f[k] + n ELSE f[k]) /\ t \in Nat
    <2>1. f \in [Ticks -> Nat] /\ g = [f EXCEPT ![t] = f[t] + n] /\ t \in Nat
      BY LimitConstants DEF Plus, Counts, Ticks
    <2>2. f[t] + n \in Nat
      BY <2>1
    <2> HIDE DEF g
    <2> QED
      BY <2>1, <2>2 DEF Counts
  <1> HIDE DEF g
  <1>2. ASSUME NEW k \in Nat, k <= MaxTime, k < a PROVE Adds(k)
    <2>1. Total(g, a, k) = 0 /\ Total(f, a, k) = 0
      BY <1>2, TotalEmpty
    <2> QED
      BY <1>1, <1>2, <2>1
  <1>3. ASSUME Bad # {} PROVE FALSE
    <2>1. PICK m \in Bad : \A k \in Bad : m <= k
      BY <1>3, LeastElement
    <2>2. m \in Nat /\ m <= MaxTime /\ ~Adds(m) /\ a <= m /\ m \in Ticks
      BY <1>2, <2>1, LimitConstants DEF Ticks
    <2>3. /\ Total(g, a, m) = Total(g, a, m - 1) + g[m] /\ Total(f, a, m) = Total(f, a, m - 1) + f[m]
          /\ Total(g, a, m - 1) \in Nat /\ Total(f, a, m - 1) \in Nat
          /\ Total(g, a, m) \in Nat /\ Total(f, a, m) \in Nat
      <3> HIDE DEF Bad, Adds
      <3>1. m \in Int /\ m - 1 \in Int /\ m - 1 <= MaxTime
        BY <2>2, LimitConstants
      <3>2. Total(g, a, m) = Total(g, a, m - 1) + g[m] /\ Total(f, a, m) = Total(f, a, m - 1) + f[m]
        BY <1>1, <2>2, <3>1, TotalLast
      <3>3. Total(g, a, m - 1) \in Nat /\ Total(f, a, m - 1) \in Nat
        BY <1>1, <3>1, TotalType
      <3>4. Total(g, a, m) \in Nat /\ Total(f, a, m) \in Nat
        BY <1>1, <2>2, <3>1, TotalType
      <3> QED
        BY <3>2, <3>3, <3>4
    <2>4. f[m] \in Nat /\ g[m] = IF m = t THEN f[m] + n ELSE f[m]
      BY <1>1, <2>2 DEF Counts
    <2>5. Adds(m - 1)
      <3>1. CASE m = 0
        <4>1. Total(g, a, m - 1) = 0 /\ Total(f, a, m - 1) = 0
          BY <2>2, <3>1, TotalEmpty
        <4>2. ~(t <= m - 1)
          BY <1>1, <3>1
        <4> QED
          BY <4>1, <4>2
      <3>2. CASE m # 0
        <4>1. m - 1 \in Nat /\ m - 1 <= MaxTime /\ ~(m <= m - 1)
          BY <2>2, <3>2, LimitConstants
        <4>2. m - 1 \notin Bad
          <5>1. \A k \in Bad : m <= k
            BY <2>1
          <5> HIDE DEF Bad
          <5> QED
            BY <4>1, <5>1
        <4> QED
          BY <4>1, <4>2
      <3> QED
        BY <3>1, <3>2
    <2>6. Adds(m)
      BY <1>1, <2>2, <2>3, <2>4, <2>5
    <2> QED
      BY <2>2, <2>6
  <1>4. Adds(b)
    BY <1>3
  <1> QED
    BY <1>1, <1>4 DEF g

\* Nothing was counted yet.
LEMMA TotalNever ==
    ASSUME NEW a \in Nat, NEW b \in Nat, b <= MaxTime
    PROVE  Never \in Counts /\ Total(Never, a, b) = 0
  <1>1. Never \in Counts /\ \A t \in Ticks : Never[t] = 0
    BY DEF Never, Counts
  <1>2. CASE a > b
    BY <1>1, <1>2, TotalEmpty
  <1>3. CASE a <= b
    <2>1. Total(Never, a, b) = Total(Never, a, a - 1)
      <3> HIDE DEF Never
      <3>1. a - 1 \in Int /\ a <= (a - 1) + 1 /\ a - 1 <= b
        BY <1>3
      <3> QED
        BY <1>1, <3>1, TotalRest
    <2>2. Total(Never, a, a - 1) = 0
      BY TotalEmpty
    <2> QED
      BY <1>1, <2>1, <2>2
  <1> QED
    BY <1>2, <1>3

-----------------------------------------------------------------------------
(* The inductive invariant.                                                *)

Kinds == {"login", "join", "tap", "answer", "page", "events"}
CounterKeys == {<<ip>> : ip \in Addresses} \cup ({"token", "user"} \X Accounts)
                   \cup (Addresses \X Codes)
Gates == {Bucket(rule, key) : rule \in RuleNames, key \in CounterKeys}
             \cup {Ask("guard"), Ask("badcode"), Ask("tap")}
Rows == [pc : {"gates", "badcode", "failure", "success"}, kind : Kinds,
         origin : Addresses, ip : Addresses, who : Codes \cup Accounts, gates : Seq(Gates)]

\* Only a login asks the guard and only a join asks for wrong codes, at a fixed
\* distance from the end of its gates.
InOrder(kind, gates) ==
    \A i \in DOMAIN gates :
        /\ gates[i].gate = "guard" <=> kind = "login" /\ i = Len(gates)
        /\ gates[i].gate = "badcode" <=> kind = "join" /\ i = Len(gates) - 2
        /\ gates[i].gate = "tap" => kind = "tap"

RowTyped(row) ==
    /\ row \in Rows /\ row.ip = row.origin /\ row.who \in About(row.kind)
    /\ InOrder(row.kind, row.gates)
    /\ row.pc # "gates" => row.gates = <<>>
    /\ row.pc = "badcode" => row.kind = "join"
    /\ row.pc \in {"failure", "success"} => row.kind = "login"

RequestsTyped ==
    /\ DOMAIN request = Requests /\ workload \in Workloads
    /\ \A r \in Requests : request[r] = Idle \/ RowTyped(request[r])

\* Nothing has been counted for a tick that has not come.
NothingAhead ==
    /\ \A ip \in Addresses : \A t \in Ticks : t > now => wrong[ip][t] = 0
    /\ \A k \in LoginKeys : \A t \in Ticks : t > now => guesses[k][t] = 0

\* What a bucket let through up to its last request, and what it still holds,
\* come from the burst and the refill.
Budget(counts, bucket, rule) ==
    /\ \A t \in Ticks : t > bucket.last => counts[t] = 0
    /\ \A from, to \in 0..bucket.last :
          from <= to => Total(counts, from, to) * rule.window
                            <= rule.burst * rule.window + (to - from) * rule.limit
    /\ \A from \in 0..bucket.last :
          Total(counts, from, bucket.last) * rule.window + bucket.tokens
              <= rule.burst * rule.window + (bucket.last - from) * rule.limit

BucketsBudgeted ==
    /\ IsFiniteSet(DOMAIN buckets) /\ DOMAIN buckets \subseteq RuleNames \X CounterKeys
    /\ \A k \in DOMAIN buckets :
          spent[k] \in [Ticks -> Nat] /\ Budget(spent[k], buckets[k], Rule[k[1]])

\* Joins of an address that were told of a wrong code not counted yet, and
\* those together with the ones past the check.
IsUntold(row, ip) == row # Idle /\ row.pc = "badcode" /\ row.ip = ip
IsJoining(row, ip) == row # Idle /\ row.kind = "join" /\ row.ip = ip /\ Len(row.gates) <= 2
Untold(ip) == {r \in Requests : IsUntold(request[r], ip)}
Joining(ip) == {r \in Requests : IsJoining(request[r], ip)}

Tracked(ip) == ip \in DOMAIN failures /\ now - failures[ip].windowStart < BadCodeWindow
TrackingFull == /\ Cardinality(DOMAIN failures) >= MaxKeys
                /\ \A ip \in DOMAIN failures : Tracked(ip)

CodesOf(ip) ==
    /\ Tracked(ip) =>
          /\ Total(wrong[ip], failures[ip].windowStart, now)
                 <= failures[ip].count + Cardinality(Untold(ip))
          /\ failures[ip].count + Cardinality(Joining(ip))
                 <= BadCodeLimit - 1 + Cardinality(Requests)
    /\ ~Tracked(ip) => TrackingFull \/ wrong[ip][now] <= Cardinality(Untold(ip))

CodesCounted == \A ip \in Addresses : CodesOf(ip)

\* Logins under a key whose failure is not counted yet, and those together with
\* the ones past the guard.
KeysFor(row) == {<<row.who, row.ip>>, <<row.who>>}
IsUncounted(row, k) == row # Idle /\ row.pc = "failure" /\ k \in KeysFor(row)
IsTrying(row, k) ==
    /\ row # Idle /\ row.kind = "login" /\ row.pc # "success" /\ row.gates = <<>>
    /\ k \in KeysFor(row)
Uncounted(k) == {r \in Requests : IsUncounted(request[r], k)}
Trying(k) == {r \in Requests : IsTrying(request[r], k)}

Fresh(k) == k \notin DOMAIN logins \/ now - logins[k].windowStart >= LoginWindow

\* The lock of a key has run out m times in its window.  Either no failure was
\* counted since, or the next lock, twice as long, is in place.
Epoch(entry, time, trying, k, m) ==
    /\ BaseLock(k) * (2^m - 1) <= time - entry.windowStart
    /\ entry.failures + trying <= LimitOf(k) - 1 + Cardinality(Requests) * (1 + m)
    /\ \/ /\ entry.failures <= LimitOf(k) - 1 + Cardinality(Requests) * m
          /\ m = 0 \/ entry.failures >= LimitOf(k) + m - 1
       \/ /\ entry.failures >= LimitOf(k) + m
          /\ \/ entry.lockedUntil >= entry.windowStart + LoginWindow
             \/ entry.lockedUntil >= entry.windowStart + BaseLock(k) * (2^(m + 1) - 1)

GuessesOf(k) ==
    /\ Fresh(k) => guesses[k][now] <= Cardinality(Uncounted(k))
    /\ ~Fresh(k) =>
          /\ Total(guesses[k], logins[k].windowStart, now)
                 <= logins[k].failures + Cardinality(Uncounted(k))
          /\ \E m \in Nat : Epoch(logins[k], now, Cardinality(Trying(k)), k, m)

GuessesCounted == \A k \in LoginKeys : GuessesOf(k)

RInv ==
    /\ LimitsTypeOK /\ RequestsTyped /\ NothingAhead
    /\ BucketsBudgeted /\ CodesCounted /\ GuessesCounted
    /\ IsFiniteSet(DOMAIN failures)

-----------------------------------------------------------------------------
(* Requests.                                                               *)

\* The parameters, one by one.
LEMMA Parameters ==
    /\ MaxTime \in Nat /\ Cardinality(Requests) \in Nat
    /\ MaxKeys \in Nat \ {0} /\ IdleTTL \in Nat \ {0} /\ BadCodeLimit \in Nat \ {0}
    /\ BadCodeWindow \in Nat \ {0} /\ LoginWindow \in Nat \ {0} /\ LockMax \in Nat \ {0}
    /\ LockMax >= LoginWindow
    /\ \A k : LimitOf(k) \in Nat \ {0} /\ BaseLock(k) \in Nat \ {0}
    /\ \A n \in RuleNames : /\ Rule[n].limit \in Nat \ {0} /\ Rule[n].window \in Nat \ {0}
                            /\ Rule[n].burst \in Nat \ {0}
  <1>1. Cardinality(Requests) \in Nat
    BY LimitConstants, FS_CardinalityType
  <1>2. {AccountIPLimit, AccountLimit, AccountIPLock, AccountLock} \subseteq Nat \ {0}
    BY LimitConstants
  <1>3. \A k : LimitOf(k) \in Nat \ {0} /\ BaseLock(k) \in Nat \ {0}
    BY <1>2 DEF LimitOf, BaseLock
  <1>4. \A n \in RuleNames : /\ Rule[n].limit \in Nat \ {0} /\ Rule[n].window \in Nat \ {0}
                             /\ Rule[n].burst \in Nat \ {0}
    BY LimitConstants
  <1> QED
    BY <1>1, <1>3, <1>4, LimitConstants

\* An address no proxy has is found, whatever the header says.
LEMMA OriginFound ==
    ASSUME NEW origin \in Addresses \ Trusted, NEW header \in Headers,
           NEW ip \in Resolved(origin, header)
    PROVE  ip = origin
  <1>1. header \in Seq(Addresses \cup {Garbage})
    <2>1. CASE header = <<>>
      BY <2>1
    <2>2. ASSUME NEW a \in Addresses \cup {Garbage}, header = <<a>>
          PROVE  header \in Seq(Addresses \cup {Garbage})
      BY <2>2
    <2> QED
      BY <2>1, <2>2 DEF Headers
  <1>2. ClientIP(origin, header) = origin
    BY DEF ClientIP
  <1>3. ASSUME NEW p \in Trusted PROVE ClientIP(p, Append(header, origin)) = origin
    <2> DEFINE chain == Append(header, origin)
               clients == {i \in DOMAIN chain : chain[i] \notin Trusted \cup {Garbage}}
               n == Len(chain)
    <2>1. chain \in Seq(Addresses \cup {Garbage}) /\ n = Len(header) + 1 /\ chain[n] = origin
      BY <1>1
    <2>2. DOMAIN chain = 1..n /\ n \in Nat \ {0} /\ chain # <<>>
      BY <1>1, <2>1
    <2>3. n \in clients /\ \A i \in clients : i <= n /\ i \in Nat
      <3>1. origin \notin Trusted \cup {Garbage}
        BY LimitConstants
      <3>2. \A i \in DOMAIN chain : i <= n /\ i \in Nat
        BY <2>2
      <3> HIDE DEF n
      <3> QED
        BY <2>1, <2>2, <3>1, <3>2
    <2>4. Max(clients) = n
      <3> HIDE DEF clients, n
      <3>1. \E m \in clients : \A i \in clients : m >= i
        BY <2>3
      <3>2. Max(clients) \in clients /\ \A i \in clients : Max(clients) >= i
        BY <3>1 DEF Max
      <3> QED
        BY <2>3, <3>2
    <2>5. Rightmost(chain, p) = origin
      <3>1. clients # {}
        BY <2>3
      <3>2. Rightmost(chain, p) = chain[Max(clients)]
        BY <3>1 DEF Rightmost
      <3> QED
        BY <2>1, <2>4, <3>2
    <2> HIDE DEF chain
    <2> QED
      BY <2>2, <2>5 DEF ClientIP, chain
  <1> QED
    BY <1>2, <1>3 DEF Resolved

\* What kinds of gates there are.
LEMMA GateFields ==
    /\ \A rule \in RuleNames : \A key \in CounterKeys :
          /\ Bucket(rule, key) \in Gates /\ Bucket(rule, key).gate = "bucket"
          /\ Bucket(rule, key).rule = rule /\ Bucket(rule, key).key = <<rule, key>>
    /\ \A g \in {"guard", "badcode", "tap"} : Ask(g) \in Gates /\ Ask(g).gate = g
    /\ \A g \in Gates : g.gate = "bucket" =>
          /\ g.rule \in RuleNames /\ g.key \in RuleNames \X CounterKeys /\ g.key[1] = g.rule
  BY DEF Bucket, Ask, Gates

\* A gate before others.
LEMMA GateThen ==
    ASSUME NEW g \in Gates, NEW q \in Seq(Gates)
    PROVE  /\ <<g>> \o q \in Seq(Gates) /\ Len(<<g>> \o q) = 1 + Len(q)
           /\ (<<g>> \o q)[1] = g
           /\ \A i \in 1..Len(q) : (<<g>> \o q)[i + 1] = q[i]
  <1>1. <<g>> \in Seq(Gates) /\ Len(<<g>>) = 1 /\ <<g>>[1] = g
    OBVIOUS
  <1>2. /\ <<g>> \o q \in Seq(Gates) /\ Len(<<g>> \o q) = Len(<<g>>) + Len(q)
        /\ \A i \in 1..(Len(<<g>>) + Len(q)) :
              (<<g>> \o q)[i] = IF i <= Len(<<g>>) THEN <<g>>[i] ELSE q[i - Len(<<g>>)]
    BY <1>1, ConcatProperties
  <1>3. Len(q) \in Nat
    OBVIOUS
  <1>4. (<<g>> \o q)[1] = g
    BY <1>1, <1>2, <1>3
  <1>5. ASSUME NEW i \in 1..Len(q) PROVE (<<g>> \o q)[i + 1] = q[i]
    BY <1>1, <1>2, <1>3
  <1> QED
    BY <1>1, <1>2, <1>4, <1>5

\* The gates of every request are in order.
LEMMA GatesInOrder ==
    ASSUME NEW kind \in Kinds, NEW ip \in Addresses, NEW who \in About(kind)
    PROVE  /\ IPAllowed(kind, ip, who) \o Proxied(kind, ip, who) \in Seq(Gates)
           /\ InOrder(kind, IPAllowed(kind, ip, who) \o Proxied(kind, ip, who))
           /\ kind = "login" => Len(IPAllowed(kind, ip, who) \o Proxied(kind, ip, who)) = 2
           /\ kind = "join" => Len(IPAllowed(kind, ip, who) \o Proxied(kind, ip, who)) = 4
  <1> DEFINE gates == IPAllowed(kind, ip, who) \o Proxied(kind, ip, who)
  <1>1. /\ <<ip>> \in CounterKeys
        /\ kind = "join" => <<ip, who>> \in CounterKeys
        /\ kind # "join" => <<"token", who>> \in CounterKeys /\ <<"user", who>> \in CounterKeys
    BY DEF CounterKeys, About
  <1>2. CASE kind = "login"
    <2> DEFINE g == Bucket("auth.login.ip", <<ip>>)
               q == <<Ask("guard")>>
    <2>1. g \in Gates /\ g.gate = "bucket" /\ q \in Seq(Gates) /\ Len(q) = 1 /\ q[1].gate = "guard"
      BY <1>1, GateFields DEF RuleNames
    <2>2. gates = <<g>> \o q
      BY <1>2 DEF IPAllowed, Proxied
    <2> HIDE DEF g, q, gates
    <2>3. /\ gates \in Seq(Gates) /\ Len(gates) = 2 /\ gates[1] = g /\ gates[2] = q[1]
      <3>1. /\ <<g>> \o q \in Seq(Gates) /\ Len(<<g>> \o q) = 1 + Len(q)
            /\ (<<g>> \o q)[1] = g /\ \A i \in 1..Len(q) : (<<g>> \o q)[i + 1] = q[i]
        <4>1. g \in Gates /\ q \in Seq(Gates)
          BY <2>1
        <4> QED
          BY <4>1, GateThen, Zenon
      <3>2. (<<g>> \o q)[1 + 1] = q[1]
        BY <2>1, <3>1
      <3> QED
        BY <2>1, <2>2, <3>1, <3>2
    <2>4. InOrder(kind, gates)
      <3>1. DOMAIN gates = {1, 2}
        BY <2>3
      <3> QED
        BY <1>2, <2>1, <2>3, <3>1 DEF InOrder
    <2> QED
      BY <1>2, <2>3, <2>4 DEF gates
  <1>3. CASE kind = "join"
    <2> DEFINE g == Bucket("api.ip", <<ip>>)
               q == <<Ask("badcode"), Bucket("live.join.ip", <<ip>>),
                      Bucket("live.join.code", <<ip, who>>)>>
    <2>1. /\ g \in Gates /\ g.gate = "bucket" /\ q \in Seq(Gates) /\ Len(q) = 3
          /\ q[1].gate = "badcode" /\ q[2].gate = "bucket" /\ q[3].gate = "bucket"
      BY <1>1, <1>3, GateFields DEF RuleNames
    <2>2. gates = <<g>> \o q
      BY <1>3 DEF IPAllowed, Proxied
    <2> HIDE DEF g, q, gates
    <2>3. /\ gates \in Seq(Gates) /\ Len(gates) = 4 /\ gates[1] = g
          /\ gates[2] = q[1] /\ gates[3] = q[2] /\ gates[4] = q[3]
      <3>1. /\ <<g>> \o q \in Seq(Gates) /\ Len(<<g>> \o q) = 1 + Len(q)
            /\ (<<g>> \o q)[1] = g /\ \A i \in 1..Len(q) : (<<g>> \o q)[i + 1] = q[i]
        <4>1. g \in Gates /\ q \in Seq(Gates)
          BY <2>1
        <4> QED
          BY <4>1, GateThen, Zenon
      <3>2. /\ (<<g>> \o q)[1 + 1] = q[1] /\ (<<g>> \o q)[2 + 1] = q[2]
            /\ (<<g>> \o q)[3 + 1] = q[3]
        BY <2>1, <3>1
      <3> QED
        BY <2>1, <2>2, <3>1, <3>2
    <2>4. InOrder(kind, gates)
      <3>1. DOMAIN gates = {1, 2, 3, 4}
        BY <2>3
      <3> QED
        BY <1>3, <2>1, <2>3, <3>1 DEF InOrder
    <2> QED
      BY <1>3, <2>3, <2>4 DEF gates
  <1>4. CASE kind = "tap"
    <2> DEFINE g == Bucket("api.user", <<"token", who>>)
               q == <<Bucket("api.user", <<"user", who>>), Ask("tap")>>
    <2>1. /\ g \in Gates /\ g.gate = "bucket" /\ q \in Seq(Gates) /\ Len(q) = 2
          /\ q[1].gate = "bucket" /\ q[2].gate = "tap"
      BY <1>1, <1>4, GateFields DEF RuleNames
    <2>2. gates = <<g>> \o q
      BY <1>4 DEF IPAllowed, Proxied
    <2> HIDE DEF g, q, gates
    <2>3. /\ gates \in Seq(Gates) /\ Len(gates) = 3 /\ gates[1] = g
          /\ gates[2] = q[1] /\ gates[3] = q[2]
      <3>1. /\ <<g>> \o q \in Seq(Gates) /\ Len(<<g>> \o q) = 1 + Len(q)
            /\ (<<g>> \o q)[1] = g /\ \A i \in 1..Len(q) : (<<g>> \o q)[i + 1] = q[i]
        <4>1. g \in Gates /\ q \in Seq(Gates)
          BY <2>1
        <4> QED
          BY <4>1, GateThen, Zenon
      <3>2. (<<g>> \o q)[1 + 1] = q[1] /\ (<<g>> \o q)[2 + 1] = q[2]
        BY <2>1, <3>1
      <3> QED
        BY <2>1, <2>2, <3>1, <3>2
    <2>4. InOrder(kind, gates)
      <3>1. DOMAIN gates = {1, 2, 3}
        BY <2>3
      <3> QED
        BY <1>4, <2>1, <2>3, <3>1 DEF InOrder
    <2> QED
      BY <1>4, <2>3, <2>4 DEF gates
  <1>5. CASE kind = "answer"
    <2> DEFINE g == Bucket("api.user", <<"token", who>>)
               q == <<Bucket("live.player.ip", <<ip>>)>>
    <2>1. /\ g \in Gates /\ g.gate = "bucket" /\ q \in Seq(Gates) /\ Len(q) = 1
          /\ q[1].gate = "bucket"
      BY <1>1, <1>5, GateFields DEF RuleNames
    <2>2. gates = <<g>> \o q
      BY <1>5 DEF IPAllowed, Proxied
    <2> HIDE DEF g, q, gates
    <2>3. gates \in Seq(Gates) /\ Len(gates) = 2 /\ gates[1] = g /\ gates[2] = q[1]
      <3>1. /\ <<g>> \o q \in Seq(Gates) /\ Len(<<g>> \o q) = 1 + Len(q)
            /\ (<<g>> \o q)[1] = g /\ \A i \in 1..Len(q) : (<<g>> \o q)[i + 1] = q[i]
        <4>1. g \in Gates /\ q \in Seq(Gates)
          BY <2>1
        <4> QED
          BY <4>1, GateThen, Zenon
      <3>2. (<<g>> \o q)[1 + 1] = q[1]
        BY <2>1, <3>1
      <3> QED
        BY <2>1, <2>2, <3>1, <3>2
    <2>4. InOrder(kind, gates)
      <3>1. DOMAIN gates = {1, 2}
        BY <2>3
      <3> QED
        BY <1>5, <2>1, <2>3, <3>1 DEF InOrder
    <2> QED
      BY <1>5, <2>3, <2>4 DEF gates
  <1>6. CASE kind = "page"
    <2> DEFINE g == Bucket("api.ip", <<ip>>)
               q == <<>>
    <2>1. g \in Gates /\ g.gate = "bucket" /\ q \in Seq(Gates) /\ Len(q) = 0
      BY <1>1, GateFields DEF RuleNames
    <2>2. gates = <<g>> \o q
      BY <1>6 DEF IPAllowed, Proxied
    <2> HIDE DEF g, q, gates
    <2>3. gates \in Seq(Gates) /\ Len(gates) = 1 /\ gates[1] = g
      BY <2>1, <2>2, GateThen
    <2>4. InOrder(kind, gates)
      BY <1>6, <2>1, <2>3 DEF InOrder
    <2> QED
      BY <1>6, <2>3, <2>4 DEF gates
  <1>7. CASE kind = "events"
    <2>1. gates = <<>> \o <<>>
      BY <1>7 DEF IPAllowed, Proxied
    <2> HIDE DEF gates
    <2>2. gates \in Seq(Gates) /\ Len(gates) = 0
      <3>1. <<>> \in Seq(Gates) /\ Len(<<>>) = 0
        OBVIOUS
      <3> QED
        BY <2>1, <3>1, ConcatProperties
    <2>3. InOrder(kind, gates)
      BY <2>2 DEF InOrder
    <2> QED
      BY <1>7, <2>2, <2>3 DEF gates
  <1> QED
    BY <1>2, <1>3, <1>4, <1>5, <1>6, <1>7 DEF Kinds

\* A row of a request is not idle, and says what it says.
LEMMA RowFields ==
    ASSUME NEW row, RowTyped(row)
    PROVE  /\ row # Idle /\ row.kind \in Kinds /\ row.ip \in Addresses /\ row.who \in About(row.kind)
           /\ row.gates \in Seq(Gates) /\ row.pc \in {"gates", "badcode", "failure", "success"}
           /\ row.kind # "join" => KeysFor(row) \subseteq LoginKeys
  <1>1. row \in Rows /\ row.who \in About(row.kind)
    BY DEF RowTyped
  <1>2. row.pc # "idle"
    BY <1>1 DEF Rows
  <1>3. row # Idle
    BY <1>2 DEF Idle
  <1>4. row.kind # "join" => KeysFor(row) \subseteq LoginKeys
    BY <1>1 DEF Rows, About, KeysFor, LoginKeys
  <1> QED
    BY <1>1, <1>3, <1>4 DEF Rows

\* A request that passes a gate has one gate less.  Only the check for wrong
\* codes lets a join through, and only the guard lets a login through.
LEMMA TailRow ==
    ASSUME NEW row, RowTyped(row), row.pc = "gates", row.gates # <<>>
    PROVE  LET next == [row EXCEPT !.gates = Tail(@)] IN
           /\ RowTyped(next) /\ next.pc = "gates"
           /\ \A ip : IsJoining(next, ip) =>
                 IsJoining(row, ip) \/ (Head(row.gates).gate = "badcode" /\ ip = row.ip)
           /\ \A k : IsTrying(next, k) => Head(row.gates).gate = "guard" /\ k \in KeysFor(row)
  <1> DEFINE g == row.gates
             next == [row EXCEPT !.gates = Tail(g)]
  <1>1. row \in Rows /\ g \in Seq(Gates) /\ g # <<>> /\ Len(g) \in Nat \ {0} /\ DOMAIN g = 1..Len(g)
    BY RowFields DEF RowTyped
  <1>2. /\ Tail(g) \in Seq(Gates) /\ Len(Tail(g)) = Len(g) - 1
        /\ \A i \in 1..(Len(g) - 1) : Tail(g)[i] = g[i + 1]
        /\ Head(g) = g[1]
    <2>1. g \in Seq(Gates) /\ g # <<>> /\ Len(g) \in Nat \ {0}
      BY <1>1
    <2> HIDE DEF g
    <2>2. Tail(g) \in Seq(Gates) /\ Len(Tail(g)) = Len(g) - 1
      BY <2>1
    <2>3. \A i \in 1..(Len(g) - 1) : Tail(g)[i] = g[i + 1]
      BY <2>1
    <2>4. Head(g) = g[1]
      BY <2>1
    <2> QED
      BY <2>2, <2>3, <2>4
  <1>3. /\ next \in Rows /\ next.pc = row.pc /\ next.kind = row.kind /\ next.ip = row.ip
        /\ next.origin = row.origin /\ next.who = row.who /\ next.gates = Tail(g)
    BY <1>1, <1>2 DEF Rows
  <1>4. InOrder(row.kind, g)
    BY DEF RowTyped
  <1> HIDE DEF next
  <1>5. InOrder(row.kind, Tail(g))
    <2>1. DOMAIN Tail(g) = 1..(Len(g) - 1)
      BY <1>2
    <2> SUFFICES ASSUME NEW i \in 1..(Len(g) - 1)
                 PROVE  /\ Tail(g)[i].gate = "guard" <=> row.kind = "login" /\ i = Len(Tail(g))
                        /\ Tail(g)[i].gate = "badcode" <=> row.kind = "join" /\ i = Len(Tail(g)) - 2
                        /\ Tail(g)[i].gate = "tap" => row.kind = "tap"
      BY <2>1 DEF InOrder
    <2>2. i + 1 \in DOMAIN g /\ Tail(g)[i] = g[i + 1] /\ i \in Nat
      BY <1>1, <1>2
    <2> HIDE DEF g
    <2>3. /\ g[i + 1].gate = "guard" <=> row.kind = "login" /\ i + 1 = Len(g)
          /\ g[i + 1].gate = "badcode" <=> row.kind = "join" /\ i + 1 = Len(g) - 2
          /\ g[i + 1].gate = "tap" => row.kind = "tap"
      BY <1>4, <2>2 DEF InOrder
    <2>4. /\ i + 1 = Len(g) <=> i = Len(Tail(g))
          /\ i + 1 = Len(g) - 2 <=> i = Len(Tail(g)) - 2
      BY <1>1, <1>2, <2>2
    <2> QED
      BY <2>2, <2>3, <2>4
  <1>6. RowTyped(next)
    BY <1>3, <1>5 DEF RowTyped
  <1>7. ASSUME NEW ip, IsJoining(next, ip)
        PROVE  IsJoining(row, ip) \/ (Head(row.gates).gate = "badcode" /\ ip = row.ip)
    <2>1. row.kind = "join" /\ row.ip = ip /\ Len(g) - 1 <= 2 /\ row # Idle
      BY <1>2, <1>3, <1>7, RowFields DEF IsJoining
    <2>2. CASE Len(g) <= 2
      BY <2>1, <2>2 DEF IsJoining
    <2>3. CASE Len(g) = 3
      <3>1. 1 \in DOMAIN g /\ 1 = Len(g) - 2
        BY <1>1, <2>3
      <3>2. g[1].gate = "badcode"
        BY <1>4, <2>1, <3>1 DEF InOrder
      <3> QED
        BY <1>2, <2>1, <3>2
    <2>4. Len(g) <= 2 \/ Len(g) = 3
      <3> HIDE DEF g
      <3> QED
        BY <1>1, <2>1
    <2> QED
      BY <2>2, <2>3, <2>4
  <1>8. ASSUME NEW k, IsTrying(next, k) PROVE Head(row.gates).gate = "guard" /\ k \in KeysFor(row)
    <2>1. row.kind = "login" /\ Tail(g) = <<>> /\ k \in KeysFor(row)
      BY <1>3, <1>8 DEF IsTrying, KeysFor
    <2>2. 1 \in DOMAIN g /\ 1 = Len(g)
      <3> HIDE DEF g
      <3>1. Tail(g) = <<>> /\ Len(<<>>) = 0
        BY <2>1
      <3>2. Len(Tail(g)) = 0
        BY <3>1, Zenon
      <3>3. Len(g) - 1 = 0 /\ Len(g) \in Nat /\ DOMAIN g = 1..Len(g)
        BY <1>1, <1>2, <3>2
      <3> QED
        BY <3>3
    <2>3. g[1].gate = "guard"
      BY <1>4, <2>1, <2>2 DEF InOrder
    <2> QED
      BY <1>2, <2>1, <2>3
  <1>9. next = [row EXCEPT !.gates = Tail(@)]
    BY DEF next
  <1> QED
    BY <1>3, <1>6, <1>7, <1>8, <1>9

\* A request that moves on after its last gate.
LEMMA StageRow ==
    ASSUME NEW row, RowTyped(row), row.gates = <<>>, NEW pc \in {"badcode", "failure", "success"},
           pc = "badcode" => row.kind = "join",
           pc \in {"failure", "success"} => row.kind = "login"
    PROVE  LET next == [row EXCEPT !.pc = pc] IN
           /\ RowTyped(next) /\ next.pc = pc /\ next.ip = row.ip /\ next.kind = row.kind
           /\ next.gates = row.gates /\ KeysFor(next) = KeysFor(row)
  <1> DEFINE next == [row EXCEPT !.pc = pc]
  <1>1. row \in Rows
    BY DEF RowTyped
  <1>2. /\ next \in Rows /\ next.pc = pc /\ next.kind = row.kind /\ next.ip = row.ip
        /\ next.origin = row.origin /\ next.who = row.who /\ next.gates = row.gates
    BY <1>1 DEF Rows
  <1> HIDE DEF next
  <1>3. RowTyped(next)
    BY <1>2 DEF RowTyped
  <1>4. KeysFor(next) = KeysFor(row)
    BY <1>2 DEF KeysFor
  <1> QED
    BY <1>2, <1>3, <1>4 DEF next

-----------------------------------------------------------------------------
(* What the steps do to the requests.                                      *)

Moves(r, row) == request' = [request EXCEPT ![r] = row]

\* A request is idle or has a row.
LEMMA RequestRow ==
    ASSUME RequestsTyped, NEW r \in Requests, request[r].pc # "idle"
    PROVE  RowTyped(request[r])
  BY DEF RequestsTyped, Idle

\* One row changes, the others stay.
LEMMA MoveTyped ==
    ASSUME RequestsTyped, NEW r \in Requests, NEW row, row = Idle \/ RowTyped(row), Moves(r, row),
           workload' = workload
    PROVE  /\ RequestsTyped'
           /\ request'[r] = row /\ \A x \in Requests \ {r} : request'[x] = request[x]
  <1>1. DOMAIN request' = Requests
    BY DEF Moves, RequestsTyped
  <1>2. request'[r] = row /\ \A x \in Requests \ {r} : request'[x] = request[x]
    BY DEF Moves, RequestsTyped
  <1>3. \A x \in Requests : request'[x] = Idle \/ RowTyped(request'[x])
    BY <1>2 DEF RequestsTyped
  <1>4. workload' \in Workloads
    BY DEF RequestsTyped
  <1>5. RequestsTyped'
    BY <1>1, <1>3, <1>4 DEF RequestsTyped
  <1> QED
    BY <1>2, <1>5

\* An idle request is past no check.
LEMMA IdleRow ==
    /\ \A ip : ~IsUntold(Idle, ip) /\ ~IsJoining(Idle, ip)
    /\ \A k : ~IsUncounted(Idle, k) /\ ~IsTrying(Idle, k)
  BY DEF IsUntold, IsJoining, IsUncounted, IsTrying

\* A request arrives with all its gates before it, counted by its origin.
LEMMA ArriveMoves ==
    ASSUME RequestsTyped, NEW r \in Requests, Arrive(r)
    PROVE  /\ request[r] = Idle
           /\ \E row : /\ Moves(r, row) /\ RowTyped(row)
                       /\ \A ip : ~IsUntold(row, ip) /\ ~IsJoining(row, ip)
                       /\ \A k : ~IsUncounted(row, k) /\ ~IsTrying(row, k)
  <1> DEFINE Arrived(kind, origin, who, ip) ==
               [pc |-> "gates", kind |-> kind, origin |-> origin, ip |-> ip, who |-> who,
                gates |-> IPAllowed(kind, ip, who) \o Proxied(kind, ip, who)]
  <1>1a. PICK kind \in workload.kinds, origin \in workload.clients, header \in Headers :
            \E who \in About(kind), ip \in Resolved(origin, header) :
               Moves(r, Arrived(kind, origin, who, ip))
    BY DEF Arrive, Moves
  <1>1. PICK who \in About(kind), ip \in Resolved(origin, header) :
               Moves(r, Arrived(kind, origin, who, ip))
    BY <1>1a
  <1>2. kind \in Kinds /\ origin \in Addresses \ Trusted
    <2>1. workload \in [kinds : SUBSET Kinds, clients : SUBSET (Addresses \ Trusted)]
      BY LimitConstants DEF RequestsTyped, Kinds
    <2> QED
      BY <1>1, <2>1
  <1>3. ip = origin
    BY <1>2, OriginFound
  <1> DEFINE gates == IPAllowed(kind, ip, who) \o Proxied(kind, ip, who)
             row == [pc |-> "gates", kind |-> kind, origin |-> origin, ip |-> ip, who |-> who,
                     gates |-> gates]
  <1>4. /\ gates \in Seq(Gates) /\ InOrder(kind, gates)
        /\ kind = "login" => Len(gates) = 2
        /\ kind = "join" => Len(gates) = 4
    BY <1>2, <1>3, GatesInOrder
  <1> HIDE DEF gates
  <1>5. /\ row.pc = "gates" /\ row.kind = kind /\ row.origin = origin /\ row.ip = ip
        /\ row.who = who /\ row.gates = gates
    OBVIOUS
  <1>6. row \in Rows
    BY <1>2, <1>3, <1>4 DEF Rows, About
  <1>7. Moves(r, row)
    BY <1>1 DEF gates
  <1> HIDE DEF row
  <1>8. RowTyped(row)
    BY <1>3, <1>4, <1>5, <1>6 DEF RowTyped
  <1>9. /\ \A x : ~IsUntold(row, x) /\ ~IsJoining(row, x)
        /\ \A k : ~IsUncounted(row, k) /\ ~IsTrying(row, k)
    <2> HIDE DEF Arrived
    <2>1. ASSUME kind = "join" PROVE ~(Len(gates) <= 2)
      <3>1. Len(gates) = 4
        BY <1>4, <2>1
      <3> QED
        BY <3>1
    <2>2. ASSUME kind = "login" PROVE gates # <<>>
      <3>1. Len(gates) = 2
        BY <1>4, <2>2
      <3> QED
        BY <3>1
    <2> QED
      BY <1>5, <2>1, <2>2 DEF IsUntold, IsJoining, IsUncounted, IsTrying
  <1> QED
    BY <1>7, <1>8, <1>9 DEF Arrive

\* A gate lets a request through or answers it.
LEMMA PassMoves ==
    ASSUME RequestsTyped, NEW r \in Requests, NEW gate, NEW allowed \in BOOLEAN,
           AtGate(r, gate), Pass(r, allowed)
    PROVE  /\ RowTyped(request[r])
           /\ Head(request[r].gates) \in Gates /\ Head(request[r].gates).gate = gate
           /\ gate = "guard" => request[r].kind = "login"
           /\ gate = "badcode" => request[r].kind = "join"
           /\ gate = "tap" => request[r].kind = "tap"
           /\ \A ip : ~IsUntold(request[r], ip)
           /\ \A k : ~IsUncounted(request[r], k)
           /\ \E row :
                 /\ Moves(r, row) /\ (row = Idle \/ RowTyped(row))
                 /\ \A ip : ~IsUntold(row, ip)
                 /\ \A ip : IsJoining(row, ip) =>
                       IsJoining(request[r], ip) \/ (allowed /\ gate = "badcode" /\ ip = request[r].ip)
                 /\ \A k : ~IsUncounted(row, k)
                 /\ \A k : IsTrying(row, k) => allowed /\ gate = "guard" /\ k \in KeysFor(request[r])
  <1>1. request[r].pc = "gates" /\ request[r].gates # <<>> /\ Head(request[r].gates).gate = gate
    BY DEF AtGate
  <1>2. RowTyped(request[r])
    BY <1>1, RequestRow
  <1> DEFINE old == request[r]
             g == request[r].gates
  <1>3. g \in Seq(Gates) /\ g # <<>> /\ InOrder(old.kind, g)
    BY <1>1, <1>2, RowFields DEF RowTyped
  <1>4. Head(g) \in Gates /\ 1 \in DOMAIN g /\ Head(g) = g[1]
    <2> HIDE DEF g
    <2> QED
      BY <1>3
  <1>5. /\ gate = "guard" => old.kind = "login"
        /\ gate = "badcode" => old.kind = "join"
        /\ gate = "tap" => old.kind = "tap"
    BY <1>1, <1>3, <1>4 DEF InOrder
  <1>6. (\A ip : ~IsUntold(old, ip)) /\ (\A k : ~IsUncounted(old, k))
    BY <1>1 DEF IsUntold, IsUncounted
  <1>7. \E row :
           /\ Moves(r, row) /\ (row = Idle \/ RowTyped(row))
           /\ \A ip : ~IsUntold(row, ip)
           /\ \A ip : IsJoining(row, ip) =>
                 IsJoining(old, ip) \/ (allowed /\ gate = "badcode" /\ ip = old.ip)
           /\ \A k : ~IsUncounted(row, k)
           /\ \A k : IsTrying(row, k) => allowed /\ gate = "guard" /\ k \in KeysFor(old)
    <2>1. CASE allowed
      <3> DEFINE next == [old EXCEPT !.gates = Tail(@)]
      <3>1. Moves(r, next)
        BY <2>1 DEF Pass, Moves
      <3>2. /\ RowTyped(next) /\ next.pc = "gates"
            /\ \A ip : IsJoining(next, ip) =>
                  IsJoining(old, ip) \/ (Head(old.gates).gate = "badcode" /\ ip = old.ip)
            /\ \A k : IsTrying(next, k) => Head(old.gates).gate = "guard" /\ k \in KeysFor(old)
        BY <1>1, <1>2, TailRow
      <3> HIDE DEF next
      <3>3. (\A ip : ~IsUntold(next, ip)) /\ (\A k : ~IsUncounted(next, k))
        BY <3>2 DEF IsUntold, IsUncounted
      <3> QED
        BY <1>1, <2>1, <3>1, <3>2, <3>3
    <2>2. CASE ~allowed
      <3>1. Moves(r, Idle)
        BY <2>2 DEF Pass, Moves
      <3> QED
        BY <3>1, IdleRow
    <2> QED
      BY <2>1, <2>2
  <1> QED
    BY <1>1, <1>2, <1>4, <1>5, <1>6, <1>7

-----------------------------------------------------------------------------
(* Wrong room codes.                                                       *)

\* Sets of requests, by size.
LEMMA RequestSets ==
    ASSUME NEW A \in SUBSET Requests, NEW B \in SUBSET Requests
    PROVE  /\ Cardinality(A) \in Nat /\ Cardinality(A) <= Cardinality(Requests)
           /\ A \subseteq B => Cardinality(A) <= Cardinality(B)
           /\ \A r \in B : A \subseteq B \ {r} => Cardinality(A) + 1 <= Cardinality(B)
  <1>1. IsFiniteSet(Requests)
    BY LimitConstants
  <1>2. IsFiniteSet(A) /\ IsFiniteSet(B) /\ Cardinality(A) \in Nat /\ Cardinality(B) \in Nat
    BY <1>1, FS_Subset, FS_CardinalityType
  <1>3. Cardinality(A) <= Cardinality(Requests)
    BY <1>1, FS_Subset
  <1>4. A \subseteq B => Cardinality(A) <= Cardinality(B)
    BY <1>2, FS_Subset
  <1>5. ASSUME NEW r \in B, A \subseteq B \ {r} PROVE Cardinality(A) + 1 <= Cardinality(B)
    <2>1. IsFiniteSet(B \ {r}) /\ Cardinality(B \ {r}) = Cardinality(B) - 1
      BY <1>2, FS_RemoveElement
    <2>2. Cardinality(A) <= Cardinality(B \ {r})
      BY <1>5, <2>1, FS_Subset
    <2> QED
      BY <1>2, <2>1, <2>2
  <1> QED
    BY <1>2, <1>3, <1>4, <1>5

\* What the type invariant says of the counters of an address.
LEMMA FailureTypes ==
    ASSUME LimitsTypeOK, NEW ip \in Addresses
    PROVE  /\ now \in Nat /\ now \in Ticks /\ now <= MaxTime /\ wrong[ip] \in Counts
           /\ ip \in DOMAIN failures =>
                 /\ failures[ip].windowStart \in Nat /\ failures[ip].windowStart <= now
                 /\ failures[ip].count \in Nat \ {0}
                 /\ failures[ip] = [windowStart |-> failures[ip].windowStart,
                                    count |-> failures[ip].count]
  <1>1. now \in Nat /\ now <= MaxTime /\ now \in Ticks
    BY LimitConstants DEF LimitsTypeOK, Ticks
  <1>2. wrong[ip] \in Counts
    BY DEF LimitsTypeOK, Counts
  <1>3. ASSUME ip \in DOMAIN failures PROVE failures[ip] \in [windowStart : 0..now, count : Nat \ {0}]
    BY <1>3 DEF LimitsTypeOK
  <1> QED
    BY <1>1, <1>2, <1>3

\* A step that neither counts nor forgets a wrong code, and lets a join through
\* only below the limit.
LEMMA CodesKept ==
    ASSUME LimitsTypeOK, RequestsTyped, CodesCounted,
           NEW r \in Requests, NEW row, Moves(r, row),
           failures' = failures, wrong' = wrong, now' = now,
           \A ip : IsUntold(row, ip) <=> IsUntold(request[r], ip),
           \A ip : IsJoining(row, ip) => IsJoining(request[r], ip) \/ ~BadCodeBlocked(ip)
    PROVE  CodesCounted'
  <1> SUFFICES ASSUME NEW ip \in Addresses PROVE CodesOf(ip)'
    BY DEF CodesCounted
  <1>1. \A x \in Requests : request'[x] = IF x = r THEN row ELSE request[x]
    BY DEF Moves, RequestsTyped
  <1>2. Untold(ip)' = Untold(ip)
    BY <1>1 DEF Untold
  <1>3. (Tracked(ip)' <=> Tracked(ip)) /\ (TrackingFull' <=> TrackingFull)
    BY DEF Tracked, TrackingFull
  <1>4. CodesOf(ip)
    BY DEF CodesCounted
  <1>5. CASE ~Tracked(ip)
    BY <1>2, <1>3, <1>4, <1>5 DEF CodesOf
  <1>6. CASE Tracked(ip)
    <2>1. /\ Total(wrong[ip], failures[ip].windowStart, now)
                 <= failures[ip].count + Cardinality(Untold(ip))
          /\ failures[ip].count + Cardinality(Joining(ip))
                 <= BadCodeLimit - 1 + Cardinality(Requests)
      BY <1>4, <1>6 DEF CodesOf
    <2>2. failures[ip].count + Cardinality(Joining(ip)') <= BadCodeLimit - 1 + Cardinality(Requests)
      <3>1. Joining(ip) \in SUBSET Requests /\ Joining(ip)' \in SUBSET Requests
        BY DEF Joining
      <3>2. CASE BadCodeBlocked(ip)
        <4>1. Joining(ip)' \subseteq Joining(ip)
          BY <1>1, <3>2 DEF Joining
        <4>2. /\ Cardinality(Joining(ip)') <= Cardinality(Joining(ip))
              /\ Cardinality(Joining(ip)) \in Nat /\ Cardinality(Joining(ip)') \in Nat
          BY <3>1, <4>1, RequestSets
        <4>3. failures[ip].count \in Nat
          BY <1>6, FailureTypes DEF Tracked
        <4> QED
          BY <2>1, <4>2, <4>3, Parameters
      <3>3. CASE ~BadCodeBlocked(ip)
        <4>1. failures[ip].count < BadCodeLimit /\ failures[ip].count \in Nat
          <5>1. failures[ip].count \in Nat
            BY <1>6, FailureTypes DEF Tracked
          <5>2. ~(failures[ip].count >= BadCodeLimit)
            BY <1>6, <3>3 DEF Tracked, BadCodeBlocked
          <5> QED
            BY <5>1, <5>2, Parameters
        <4>2. Cardinality(Joining(ip)') \in Nat /\ Cardinality(Joining(ip)') <= Cardinality(Requests)
          BY <3>1, RequestSets
        <4> QED
          BY <4>1, <4>2, Parameters
      <3> QED
        BY <3>2, <3>3
    <2> QED
      BY <1>2, <1>3, <1>6, <2>1, <2>2 DEF CodesOf
  <1> QED
    BY <1>5, <1>6

\* A wrong code is told, and is to be counted.
LEMMA CodesTold ==
    ASSUME LimitsTypeOK, RequestsTyped, CodesCounted,
           NEW r \in Requests, NEW row, Moves(r, row), RowTyped(request[r]),
           failures' = failures, now' = now,
           wrong' = [ip \in Addresses |->
               IF ip = request[r].ip THEN Plus(wrong[ip], now, 1) ELSE wrong[ip]],
           \A ip : ~IsUntold(request[r], ip),
           \A ip : IsUntold(row, ip) <=> ip = request[r].ip,
           \A ip : IsJoining(row, ip) => IsJoining(request[r], ip)
    PROVE  CodesCounted'
  <1> SUFFICES ASSUME NEW ip \in Addresses PROVE CodesOf(ip)'
    BY DEF CodesCounted
  <1> DEFINE told == IF ip = request[r].ip THEN 1 ELSE 0
  <1>1. \A x \in Requests : request'[x] = IF x = r THEN row ELSE request[x]
    BY DEF Moves, RequestsTyped
  <1>2. Cardinality(Untold(ip)) + told <= Cardinality(Untold(ip)')
    <2>1. Untold(ip) \in SUBSET Requests /\ Untold(ip)' \in SUBSET Requests
      BY DEF Untold
    <2>2. Untold(ip) \subseteq Untold(ip)' /\ (ip = request[r].ip => r \in Untold(ip)')
      BY <1>1 DEF Untold
    <2>3. r \notin Untold(ip)
      BY DEF Untold
    <2>4. CASE ip = request[r].ip
      <3>1. r \in Untold(ip)' /\ Untold(ip) \subseteq Untold(ip)' \ {r}
        BY <2>2, <2>3, <2>4
      <3> QED
        BY <2>1, <2>4, <3>1, RequestSets
    <2>5. CASE ip # request[r].ip
      <3>1. Cardinality(Untold(ip)) <= Cardinality(Untold(ip)') /\ Cardinality(Untold(ip)) \in Nat
        BY <2>1, <2>2, RequestSets
      <3> QED
        BY <2>5, <3>1
    <2> QED
      BY <2>4, <2>5
  <1>3. Cardinality(Joining(ip)') <= Cardinality(Joining(ip))
    <2>1. Joining(ip) \in SUBSET Requests /\ Joining(ip)' \in SUBSET Requests
      BY DEF Joining
    <2>2. Joining(ip)' \subseteq Joining(ip)
      BY <1>1 DEF Joining
    <2> QED
      BY <2>1, <2>2, RequestSets
  <1>4. /\ Cardinality(Untold(ip)) \in Nat /\ Cardinality(Untold(ip)') \in Nat
        /\ Cardinality(Joining(ip)) \in Nat /\ Cardinality(Joining(ip)') \in Nat
    <2>1. /\ Untold(ip) \in SUBSET Requests /\ Untold(ip)' \in SUBSET Requests
          /\ Joining(ip) \in SUBSET Requests /\ Joining(ip)' \in SUBSET Requests
      BY DEF Untold, Joining
    <2> QED
      BY <2>1, RequestSets
  <1>5. (Tracked(ip)' <=> Tracked(ip)) /\ (TrackingFull' <=> TrackingFull)
    BY DEF Tracked, TrackingFull
  <1>6. CodesOf(ip)
    BY DEF CodesCounted
  <1>7. /\ now \in Ticks /\ now \in Nat /\ now <= MaxTime /\ wrong[ip] \in Counts
        /\ wrong'[ip] = Plus(wrong[ip], now, told)
    <2>1. now \in Ticks /\ now \in Nat /\ now <= MaxTime /\ wrong[ip] \in Counts
      BY FailureTypes
    <2>2. wrong[ip] = Plus(wrong[ip], now, 0)
      BY <2>1 DEF Plus, Counts
    <2> QED
      BY <2>1, <2>2
  <1>8. CASE Tracked(ip)
    <2> DEFINE start == failures[ip].windowStart
    <2>1. start \in Nat /\ start <= now /\ failures[ip].count \in Nat
      BY <1>8, FailureTypes DEF Tracked
    <2>2. Total(Plus(wrong[ip], now, told), start, now) = Total(wrong[ip], start, now) + told
      <3> HIDE DEF start
      <3>1. told \in Nat
        OBVIOUS
      <3> HIDE DEF told
      <3> QED
        BY <1>7, <2>1, <3>1, TotalPlus
    <2>3. Total(wrong[ip], start, now) \in Nat
      <3> HIDE DEF start
      <3> QED
        BY <1>7, <2>1, TotalType
    <2>4. /\ Total(wrong[ip], start, now) <= failures[ip].count + Cardinality(Untold(ip))
          /\ failures[ip].count + Cardinality(Joining(ip)) <= BadCodeLimit - 1 + Cardinality(Requests)
      BY <1>6, <1>8 DEF CodesOf
    <2>5. /\ Total(wrong'[ip], start, now) <= failures[ip].count + Cardinality(Untold(ip)')
          /\ failures[ip].count + Cardinality(Joining(ip)') <= BadCodeLimit - 1 + Cardinality(Requests)
      <3>1. told \in Nat
        OBVIOUS
      <3> HIDE DEF told, start
      <3> QED
        BY <1>2, <1>3, <1>4, <1>7, <2>1, <2>2, <2>3, <2>4, <3>1, Parameters
    <2> QED
      BY <1>5, <1>8, <2>5 DEF CodesOf
  <1>9. CASE ~Tracked(ip)
    <2>1. CASE TrackingFull
      BY <1>5, <1>9, <2>1 DEF CodesOf
    <2>2. CASE ~TrackingFull
      <3>1. wrong[ip][now] <= Cardinality(Untold(ip)) /\ wrong[ip][now] \in Nat
        BY <1>6, <1>7, <1>9, <2>2 DEF CodesOf, Counts
      <3>2. wrong'[ip][now] = wrong[ip][now] + told
        BY <1>7 DEF Plus, Counts
      <3>3. wrong'[ip][now] <= Cardinality(Untold(ip)')
        <4>1. told \in Nat
          OBVIOUS
        <4> HIDE DEF told
        <4> QED
          BY <1>2, <1>4, <3>1, <3>2, <4>1
      <3> QED
        BY <1>5, <1>9, <3>3 DEF CodesOf
    <2> QED
      BY <2>1, <2>2
  <1> QED
    BY <1>8, <1>9

\* A wrong code is counted.
LEMMA CodesRecorded ==
    ASSUME LimitsTypeOK, RequestsTyped, CodesCounted, IsFiniteSet(DOMAIN failures),
           NEW r \in Requests, RecordBadCode(r)
    PROVE  CodesCounted'
  <1> DEFINE me == request[r].ip
             kept == FailuresKept(me)
             tracked == me \in kept \/ Cardinality(kept) < MaxKeys
  <1>1. /\ request[r].pc = "badcode" /\ Moves(r, Idle) /\ now' = now /\ wrong' = wrong
        /\ failures' = IF tracked THEN Put(failures, kept, me, FailureCounted(me))
                                  ELSE Restrict(failures, kept)
    BY DEF RecordBadCode, Moves, record
  <1>2. RowTyped(request[r]) /\ me \in Addresses /\ request[r].kind = "join" /\ request[r].gates = <<>>
    BY <1>1, RequestRow, RowFields DEF RowTyped
  <1>3. \A x \in Requests : request'[x] = IF x = r THEN Idle ELSE request[x]
    BY <1>1 DEF Moves, RequestsTyped
  <1>4a. kept \subseteq DOMAIN failures /\ \A ip \in DOMAIN failures : Tracked(ip) => ip \in kept
    BY DEF FailuresKept, Tracked
  <1>4b. Cardinality(kept) \in Nat /\ Cardinality(DOMAIN failures) \in Nat
    BY <1>4a, FS_Subset, FS_CardinalityType
  <1>4c. TrackingFull => kept = DOMAIN failures
    BY DEF FailuresKept, Tracked, TrackingFull
  <1>4d. ASSUME ~tracked
         PROVE  /\ me \notin DOMAIN failures /\ Cardinality(kept) >= MaxKeys
                /\ \A ip \in kept : Tracked(ip)
    <2>1. me \notin kept /\ ~(Cardinality(kept) < MaxKeys)
      BY <1>4d
    <2>3. me \notin DOMAIN failures
      BY <2>1 DEF FailuresKept
    <2>4. ~(Cardinality(DOMAIN failures) < MaxKeys)
      BY <2>1, <2>3 DEF FailuresKept
    <2>5. \A ip \in kept : Tracked(ip)
      BY <2>3, <2>4 DEF FailuresKept, Tracked
    <2> HIDE DEF kept
    <2> QED
      BY <1>4b, <2>1, <2>3, <2>5, Parameters
  <1>4. /\ kept \subseteq DOMAIN failures
        /\ \A ip \in DOMAIN failures : Tracked(ip) => ip \in kept
        /\ ~tracked => (/\ me \notin DOMAIN failures /\ Cardinality(kept) >= MaxKeys
                        /\ \A ip \in kept : Tracked(ip))
        /\ TrackingFull => kept = DOMAIN failures
    <2> HIDE DEF kept, tracked
    <2> QED
      BY <1>4a, <1>4c, <1>4d
  <1> HIDE DEF kept
  <1> SUFFICES ASSUME NEW ip \in Addresses PROVE CodesOf(ip)'
    BY DEF CodesCounted
  <1>5. /\ Untold(ip) \in SUBSET Requests /\ Untold(ip)' \in SUBSET Requests
        /\ Joining(ip) \in SUBSET Requests /\ Joining(ip)' \in SUBSET Requests
    BY DEF Untold, Joining
  <1>6. /\ Cardinality(Untold(ip)) \in Nat /\ Cardinality(Untold(ip)') \in Nat
        /\ Cardinality(Joining(ip)) \in Nat /\ Cardinality(Joining(ip)') \in Nat
    BY <1>5, RequestSets
  <1>7. CodesOf(ip)
    BY DEF CodesCounted
  <1>8. now \in Nat /\ now \in Ticks /\ now <= MaxTime /\ wrong[ip] \in Counts
    BY FailureTypes
  <1>9. CASE ip # me
    <2>1. Untold(ip)' = Untold(ip) /\ Joining(ip)' = Joining(ip)
      <3>1. \A x \in Requests : IsUntold(request'[x], ip) <=> IsUntold(request[x], ip)
        BY <1>3, <1>9, IdleRow DEF IsUntold
      <3>2. \A x \in Requests : IsJoining(request'[x], ip) <=> IsJoining(request[x], ip)
        BY <1>3, <1>9, IdleRow DEF IsJoining
      <3> QED
        BY <3>1, <3>2 DEF Untold, Joining
    <2>2. /\ ip \in DOMAIN failures' <=> ip \in kept
          /\ ip \in kept => failures'[ip] = failures[ip]
      BY <1>1, <1>9 DEF Put, Restrict
    <2>3. Tracked(ip)' <=> Tracked(ip)
      BY <1>1, <1>4, <2>2 DEF Tracked
    <2>4. CASE Tracked(ip)
      <3>1. failures'[ip] = failures[ip]
        BY <1>4, <2>2, <2>4 DEF Tracked
      <3> QED
        BY <1>1, <1>7, <2>1, <2>3, <2>4, <3>1 DEF CodesOf
    <2>5. CASE ~Tracked(ip) /\ TrackingFull
      <3>1. kept = DOMAIN failures
        BY <1>4, <2>5
      <3>2. DOMAIN failures' = DOMAIN failures /\ \A x \in DOMAIN failures : Tracked(x)'
        <4>1. CASE tracked
          <5>1. me \in DOMAIN failures
            <6>1. ~(Cardinality(kept) < MaxKeys)
              BY <1>4b, <2>5, <3>1, Parameters DEF TrackingFull
            <6> QED
              BY <3>1, <4>1, <6>1
          <5>2. failures' = Put(failures, kept, me, FailureCounted(me))
            BY <1>1, <4>1
          <5>3. DOMAIN failures' = DOMAIN failures /\ \A x \in DOMAIN failures : x # me => failures'[x] = failures[x]
            BY <3>1, <5>1, <5>2 DEF Put
          <5>4. failures'[me].windowStart = failures[me].windowStart
            <6>1. Tracked(me)
              BY <2>5, <5>1 DEF TrackingFull
            <6>2. failures'[me] = FailureCounted(me)
              BY <5>2 DEF Put
            <6>3. FailureCounted(me) = [failures[me] EXCEPT !.count = failures[me].count + 1]
              BY <6>1 DEF FailureCounted, Tracked
            <6>4. failures[me] = [windowStart |-> failures[me].windowStart, count |-> failures[me].count]
              BY <1>2, <5>1, FailureTypes
            <6> QED
              BY <6>2, <6>3, <6>4
          <5> QED
            BY <1>1, <2>5, <5>3, <5>4 DEF TrackingFull, Tracked
        <4>2. CASE ~tracked
          BY <1>1, <2>5, <3>1, <4>2 DEF Restrict, TrackingFull, Tracked
        <4> QED
          BY <4>1, <4>2
      <3>3. TrackingFull'
        BY <2>5, <3>2 DEF TrackingFull
      <3> QED
        BY <2>3, <2>5, <3>3 DEF CodesOf
    <2>6. CASE ~Tracked(ip) /\ ~TrackingFull
      <3>1. wrong[ip][now] <= Cardinality(Untold(ip))
        BY <1>7, <2>6 DEF CodesOf
      <3> QED
        BY <1>1, <2>1, <2>3, <2>6, <3>1 DEF CodesOf
    <2> QED
      BY <2>4, <2>5, <2>6
  <1>10. CASE ip = me
    <2>1. Cardinality(Untold(ip)') + 1 >= Cardinality(Untold(ip)) /\ Cardinality(Untold(ip)) >= 1
      <3>1. r \in Untold(ip)
        BY <1>1, <1>2, <1>10, RowFields DEF Untold, IsUntold
      <3>2. Untold(ip)' = Untold(ip) \ {r}
        <4>1. \A x \in Requests : IsUntold(request'[x], ip) <=> x # r /\ IsUntold(request[x], ip)
          BY <1>3, IdleRow
        <4> QED
          BY <4>1 DEF Untold
      <3>3. IsFiniteSet(Untold(ip))
        BY <1>5, LimitConstants, FS_Subset
      <3>4. Cardinality(Untold(ip) \ {r}) = Cardinality(Untold(ip)) - 1
        BY <3>1, <3>3, FS_RemoveElement
      <3>5. Cardinality(Untold(ip)') = Cardinality(Untold(ip)) - 1
        BY <3>2, <3>4
      <3> QED
        BY <1>6, <3>5
    <2>2. Cardinality(Joining(ip)') + 1 <= Cardinality(Joining(ip))
      <3>1. r \in Joining(ip)
        <4>1. Len(request[r].gates) <= 2
          BY <1>2
        <4> QED
          BY <1>2, <1>10, <4>1, RowFields DEF Joining, IsJoining
      <3>2. Joining(ip)' \subseteq Joining(ip) \ {r}
        <4>1. \A x \in Requests : IsJoining(request'[x], ip) => x # r /\ IsJoining(request[x], ip)
          BY <1>3, IdleRow
        <4> QED
          BY <4>1 DEF Joining
      <3> QED
        BY <1>5, <3>1, <3>2, RequestSets
    <2>3. CASE ~tracked
      <3>1. failures' = Restrict(failures, kept)
        BY <1>1, <2>3
      <3>2. DOMAIN failures' = kept /\ \A x \in kept : failures'[x] = failures[x]
        BY <3>1 DEF Restrict
      <3>3. TrackingFull'
        BY <1>1, <1>4, <2>3, <3>2 DEF TrackingFull, Tracked
      <3>4. ~Tracked(ip)'
        BY <1>4, <1>10, <2>3, <3>2 DEF Tracked
      <3> QED
        BY <3>3, <3>4 DEF CodesOf
    <2>4. CASE tracked
      <3>1. failures' = Put(failures, kept, me, FailureCounted(me))
        BY <1>1, <2>4
      <3>2. ip \in DOMAIN failures' /\ failures'[ip] = FailureCounted(ip)
        BY <1>10, <3>1 DEF Put
      <3>3. CASE Tracked(ip)
        <4> DEFINE start == failures[ip].windowStart
                   count == failures[ip].count
        <4>1. start \in Nat /\ count \in Nat /\ failures[ip] = [windowStart |-> start, count |-> count]
          BY <3>3, FailureTypes DEF Tracked
        <4>2. FailureCounted(ip) = [failures[ip] EXCEPT !.count = count + 1]
          BY <3>3 DEF FailureCounted, Tracked
        <4>3. failures'[ip].windowStart = start /\ failures'[ip].count = count + 1
          BY <3>2, <4>1, <4>2
        <4>4. /\ Total(wrong[ip], start, now) <= count + Cardinality(Untold(ip))
              /\ count + Cardinality(Joining(ip)) <= BadCodeLimit - 1 + Cardinality(Requests)
          BY <1>7, <3>3 DEF CodesOf
        <4>5. Total(wrong[ip], start, now) \in Nat
          <5> HIDE DEF start
          <5> QED
            BY <1>8, <4>1, TotalType
        <4> HIDE DEF start, count
        <4>6. /\ Total(wrong[ip], start, now) <= (count + 1) + Cardinality(Untold(ip)')
              /\ (count + 1) + Cardinality(Joining(ip)') <= BadCodeLimit - 1 + Cardinality(Requests)
          BY <1>6, <2>1, <2>2, <4>1, <4>4, <4>5, Parameters
        <4>7. Tracked(ip)'
          BY <1>1, <3>2, <3>3, <4>3 DEF Tracked, start
        <4> QED
          BY <1>1, <4>3, <4>6, <4>7 DEF CodesOf
      <3>4. CASE ~Tracked(ip)
        <4>1. FailureCounted(ip) = [windowStart |-> now, count |-> 1]
          BY <3>4 DEF FailureCounted, Tracked
        <4>2. failures'[ip].windowStart = now /\ failures'[ip].count = 1
          BY <3>2, <4>1
        <4>3. Tracked(ip)'
          BY <1>1, <1>8, <3>2, <4>2, Parameters DEF Tracked
        <4>4. ~TrackingFull
          <5>1. ASSUME TrackingFull PROVE FALSE
            <6>1. kept = DOMAIN failures /\ ip \notin DOMAIN failures
              BY <1>4, <3>4, <5>1 DEF TrackingFull
            <6>2. Cardinality(kept) < MaxKeys
              BY <1>10, <2>4, <6>1
            <6>3. Cardinality(kept) >= MaxKeys
              BY <5>1, <6>1 DEF TrackingFull
            <6> QED
              BY <1>4b, <6>2, <6>3, Parameters
          <5> QED
            BY <5>1
        <4>5. wrong[ip][now] <= Cardinality(Untold(ip)) /\ wrong[ip][now] \in Nat
          BY <1>7, <1>8, <3>4, <4>4 DEF CodesOf, Counts
        <4>6. Total(wrong[ip], now, now) = wrong[ip][now]
          <5>1. Total(wrong[ip], now, now - 1) = 0
            BY <1>8, TotalEmpty
          <5>2. Total(wrong[ip], now, now) = Total(wrong[ip], now, now - 1) + wrong[ip][now]
            BY <1>8, TotalLast
          <5> QED
            BY <4>5, <5>1, <5>2
        <4>7. /\ Total(wrong[ip], now, now) <= 1 + Cardinality(Untold(ip)')
              /\ 1 + Cardinality(Joining(ip)') <= BadCodeLimit - 1 + Cardinality(Requests)
          <5>1. Cardinality(Joining(ip)) <= Cardinality(Requests)
            BY <1>5, RequestSets
          <5> QED
            BY <1>6, <2>1, <2>2, <4>5, <4>6, <5>1, Parameters
        <4> QED
          BY <1>1, <4>2, <4>3, <4>7 DEF CodesOf
      <3> QED
        BY <3>3, <3>4
    <2> QED
      BY <2>3, <2>4
  <1> QED
    BY <1>9, <1>10

\* The clock only ends windows.
LEMMA CodesTicked ==
    ASSUME LimitsTypeOK, NothingAhead, CodesCounted, Tick
    PROVE  CodesCounted'
  <1> SUFFICES ASSUME NEW ip \in Addresses PROVE CodesOf(ip)'
    BY DEF CodesCounted
  <1>1. now < MaxTime /\ now' = now + 1 /\ request' = request /\ failures' = failures /\ wrong' = wrong
    BY DEF Tick, counters, record
  <1>2. now \in Nat /\ now \in Ticks /\ wrong[ip] \in Counts /\ now + 1 \in Ticks /\ now + 1 <= MaxTime
    <2>1. now \in Nat /\ now \in Ticks /\ wrong[ip] \in Counts /\ now <= MaxTime
      BY FailureTypes
    <2>2. now + 1 \in Ticks /\ now + 1 <= MaxTime
      BY <1>1, <2>1, Parameters DEF Ticks
    <2> QED
      BY <2>1, <2>2
  <1>3. \A t \in Ticks : t > now => wrong[ip][t] = 0
    BY DEF NothingAhead
  <1>4. Untold(ip)' = Untold(ip) /\ Joining(ip)' = Joining(ip)
    BY <1>1 DEF Untold, Joining
  <1>5. CodesOf(ip)
    BY DEF CodesCounted
  <1>6. CASE Tracked(ip)'
    <2> DEFINE start == failures[ip].windowStart
    <2>1. ip \in DOMAIN failures /\ now' - failures'[ip].windowStart < BadCodeWindow
      BY <1>1, <1>6 DEF Tracked
    <2>2. start \in Nat /\ start <= now
      BY <2>1, FailureTypes
    <2>3. Tracked(ip)
      <3>1. (now + 1) - start < BadCodeWindow
        BY <1>1, <2>1
      <3>2. now - start < BadCodeWindow
        <4> HIDE DEF start
        <4> QED
          BY <1>2, <2>2, <3>1, Parameters
      <3> QED
        BY <2>1, <3>2 DEF Tracked
    <2>4. Total(wrong[ip], start, now + 1) = Total(wrong[ip], start, now)
      <3> HIDE DEF start
      <3>1. \A t \in Ticks : t > now /\ t <= now + 1 => wrong[ip][t] = 0
        BY <1>3
      <3>2. start \in Nat /\ now \in Int /\ start <= now + 1 /\ now + 1 \in Int /\ now <= now + 1
        BY <1>2, <2>2
      <3> QED
        BY <1>2, <3>1, <3>2, TotalRest
    <2> QED
      BY <1>1, <1>4, <1>5, <1>6, <2>3, <2>4 DEF CodesOf
  <1>7. CASE ~Tracked(ip)'
    <2>1. wrong[ip][now + 1] = 0
      BY <1>2, <1>3
    <2>2. Cardinality(Untold(ip)) \in Nat
      BY RequestSets DEF Untold
    <2>3. wrong'[ip][now'] <= Cardinality(Untold(ip)')
      BY <1>1, <1>4, <2>1, <2>2
    <2> QED
      BY <1>7, <2>3 DEF CodesOf
  <1> QED
    BY <1>6, <1>7

-----------------------------------------------------------------------------
(* The locks of a login key.                                               *)

Entries == [failures : Nat \ {0}, windowStart : Nat, lockedUntil : Nat]

\* Products that occur in an epoch.
LEMMA EpochNumbers ==
    ASSUME NEW k, NEW m \in Nat
    PROVE  /\ 2^m \in Nat \ {0} /\ 2^(m + 1) = 2^m + 2^m
           /\ Cardinality(Requests) * m \in Nat /\ Cardinality(Requests) * 0 = 0
           /\ Cardinality(Requests) * (1 + m) = Cardinality(Requests) * m + Cardinality(Requests)
           /\ BaseLock(k) * (2^m - 1) \in Nat /\ BaseLock(k) * (2^(m + 1) - 1) \in Nat
           /\ BaseLock(k) * 2^m \in Nat
           /\ BaseLock(k) * (2^(m + 1) - 1) = BaseLock(k) * (2^m - 1) + BaseLock(k) * 2^m
  <1>1. 2^m \in Nat \ {0} /\ 2^(m + 1) = 2^m + 2^m
    <2>1. 2^m \in Nat /\ m + 1 <= 2^m
      BY PowerType, PowerGrows
    <2> QED
      BY <2>1, PowerDoubles
  <1> DEFINE p == 2^m
             q == 2^(m + 1)
             b == BaseLock(k)
             R == Cardinality(Requests)
  <1>2. p \in Nat \ {0} /\ q = p + p /\ b \in Nat /\ R \in Nat
    BY <1>1, Parameters
  <1> HIDE DEF p, q, b, R
  <1>3. R * m \in Nat /\ R * 0 = 0 /\ R * (1 + m) = R * m + R
    BY <1>2
  <1>4. b * (p - 1) \in Nat /\ b * (q - 1) \in Nat /\ b * p \in Nat
    <2>1. p - 1 \in Nat /\ q - 1 \in Nat
      BY <1>2
    <2> QED
      BY <1>2, <2>1
  <1>5. b * (q - 1) = b * (p - 1) + b * p
    <2>1. q - 1 = (p - 1) + p
      BY <1>2
    <2>2. b * ((p - 1) + p) = b * (p - 1) + b * p
      BY <1>2
    <2> QED
      BY <2>1, <2>2
  <1> QED
    BY <1>1, <1>3, <1>4, <1>5 DEF p, q, b, R

\* An epoch goes on when time passes and requests leave.
LEMMA EpochGoesOn ==
    ASSUME NEW e \in Entries, NEW k, NEW m \in Nat, NEW time \in Nat, NEW later \in Nat, time <= later,
           NEW some \in Nat, NEW fewer \in Nat, fewer <= some, Epoch(e, time, some, k, m)
    PROVE  Epoch(e, later, fewer, k, m)
  <1>1. e.failures \in Nat /\ e.windowStart \in Nat
    BY DEF Entries
  <1>2. /\ BaseLock(k) * (2^m - 1) \in Nat /\ Cardinality(Requests) * (1 + m) \in Nat
        /\ LimitOf(k) \in Nat
    <2>1. /\ BaseLock(k) * (2^m - 1) \in Nat /\ Cardinality(Requests) * m \in Nat
          /\ Cardinality(Requests) * (1 + m) = Cardinality(Requests) * m + Cardinality(Requests)
      BY EpochNumbers
    <2>2. Cardinality(Requests) \in Nat /\ LimitOf(k) \in Nat
      BY Parameters
    <2>3. Cardinality(Requests) * m + Cardinality(Requests) \in Nat
      BY <2>1, <2>2
    <2> QED
      BY <2>1, <2>2, <2>3
  <1>3. /\ BaseLock(k) * (2^m - 1) <= time - e.windowStart
        /\ e.failures + some <= LimitOf(k) - 1 + Cardinality(Requests) * (1 + m)
    BY DEF Epoch
  <1>4. BaseLock(k) * (2^m - 1) <= later - e.windowStart
    BY <1>1, <1>2, <1>3
  <1>5. e.failures + fewer <= LimitOf(k) - 1 + Cardinality(Requests) * (1 + m)
    BY <1>1, <1>2, <1>3
  <1> QED
    BY <1>4, <1>5 DEF Epoch

\* When the lock has run out, every request may try once more.
LEMMA EpochAfterLock ==
    ASSUME NEW e \in Entries, NEW k, NEW m \in Nat, NEW time \in Nat, NEW some \in Nat,
           NEW more \in Nat, more <= Cardinality(Requests), Epoch(e, time, some, k, m),
           ~(time < e.lockedUntil), ~(time - e.windowStart >= LoginWindow)
    PROVE  \E n \in Nat : Epoch(e, time, more, k, n)
  <1>1. e.failures \in Nat /\ e.windowStart \in Nat /\ e.lockedUntil \in Nat
    BY DEF Entries
  <1> DEFINE R == Cardinality(Requests)
             L == LimitOf(k)
             Early == /\ e.failures <= L - 1 + R * m
                      /\ m = 0 \/ e.failures >= L + m - 1
  <1>2. R \in Nat /\ L \in Nat \ {0} /\ R * m \in Nat /\ R * (1 + m) = R * m + R /\ LoginWindow \in Nat
    BY EpochNumbers, Parameters
  <1>3. CASE Early
    <2>1. e.failures + more <= L - 1 + R * (1 + m)
      <3>1. e.failures <= L - 1 + R * m /\ more <= R
        BY <1>3
      <3> HIDE DEF R, L
      <3> QED
        BY <1>1, <1>2, <3>1
    <2>2. Epoch(e, time, more, k, m)
      BY <1>3, <2>1 DEF Epoch
    <2> QED
      BY <2>2
  <1>4. CASE ~Early
    <2>1. /\ e.failures >= L + m
          /\ \/ e.lockedUntil >= e.windowStart + LoginWindow
             \/ e.lockedUntil >= e.windowStart + BaseLock(k) * (2^(m + 1) - 1)
          /\ e.failures + some <= L - 1 + R * (1 + m)
      BY <1>4 DEF Epoch
    <2>2. BaseLock(k) * (2^(m + 1) - 1) \in Nat
      BY EpochNumbers
    <2>3. BaseLock(k) * (2^(m + 1) - 1) <= time - e.windowStart
      BY <1>1, <1>2, <2>1, <2>2
    <2>4. R * (m + 1) = R * m + R /\ R * (1 + (m + 1)) = R * (m + 1) + R /\ m + 1 \in Nat
      BY <1>2
    <2>5. e.failures <= L - 1 + R * (m + 1)
      <3>1. R * (1 + m) = R * (m + 1)
        BY <1>2, <2>4
      <3> HIDE DEF R, L
      <3> QED
        BY <1>1, <1>2, <2>1, <3>1
    <2>6. e.failures + more <= L - 1 + R * (1 + (m + 1))
      <3>1. more <= R
        OBVIOUS
      <3> HIDE DEF R, L
      <3> QED
        BY <1>1, <1>2, <2>4, <2>5, <3>1
    <2>7. e.failures >= L + (m + 1) - 1
      <3> HIDE DEF R, L
      <3> QED
        BY <1>1, <1>2, <2>1
    <2>8. Epoch(e, time, more, k, m + 1)
      BY <2>3, <2>5, <2>6, <2>7 DEF Epoch
    <2> QED
      BY <2>4, <2>8
  <1> QED
    BY <1>3, <1>4

\* A failure counted in the window, and the lock that follows.
LEMMA EpochFailure ==
    ASSUME NEW e \in Entries, NEW next \in Entries, NEW k, NEW m \in Nat, NEW time \in Nat,
           NEW some \in Nat, NEW fewer \in Nat, fewer + 1 <= some, Epoch(e, time, some, k, m),
           next.failures = e.failures + 1, next.windowStart = e.windowStart,
           e.windowStart <= time, next.lockedUntil >= e.lockedUntil,
           next.failures >= LimitOf(k) =>
              \/ next.lockedUntil >= time + LockMax
              \/ next.lockedUntil >= time + BaseLock(k) * 2^(next.failures - LimitOf(k))
    PROVE  Epoch(next, time, fewer, k, m)
  <1> DEFINE R == Cardinality(Requests)
             L == LimitOf(k)
             c == next.failures
  <1>1. /\ e.failures \in Nat /\ e.windowStart \in Nat /\ e.lockedUntil \in Nat
        /\ c \in Nat /\ next.lockedUntil \in Nat
    BY DEF Entries
  <1>2. /\ R \in Nat /\ L \in Nat \ {0} /\ R * m \in Nat /\ R * (1 + m) = R * m + R /\ R * 0 = 0
        /\ LoginWindow \in Nat /\ LockMax \in Nat /\ LockMax >= LoginWindow
    BY EpochNumbers, Parameters
  <1>3. /\ BaseLock(k) * (2^m - 1) <= time - e.windowStart
        /\ e.failures + some <= L - 1 + R * (1 + m)
    BY DEF Epoch
  <1>4. c + fewer <= L - 1 + R * (1 + m)
    <2>1. c = e.failures + 1
      OBVIOUS
    <2> HIDE DEF R, L, c
    <2> QED
      BY <1>1, <1>2, <1>3, <2>1
  <1> DEFINE Locks == \/ next.lockedUntil >= e.windowStart + LoginWindow
                      \/ next.lockedUntil >= e.windowStart + BaseLock(k) * (2^(m + 1) - 1)
  <1>5. ASSUME c >= L + m PROVE Locks
    <2>1. c - L \in Nat /\ m <= c - L /\ c >= L
      <3> HIDE DEF L, c
      <3> QED
        BY <1>1, <1>2, <1>5
    <2>2. CASE next.lockedUntil >= time + LockMax
      <3>1. next.lockedUntil >= e.windowStart + LoginWindow
        BY <1>1, <1>2, <2>2
      <3> QED
        BY <3>1
    <2>3. CASE next.lockedUntil >= time + BaseLock(k) * 2^(c - L)
      <3> DEFINE b == BaseLock(k)
                 p == 2^m
                 q == 2^(c - L)
      <3>1. p \in Nat /\ q \in Nat /\ p <= q /\ b \in Nat
        <4>1. c - L \in Nat /\ m <= c - L
          BY <2>1
        <4> HIDE DEF L, c
        <4>2. 2^m <= 2^(c - L)
          BY <4>1, PowerGrows
        <4>3. 2^m \in Nat /\ 2^(c - L) \in Nat
          BY <4>1, PowerType
        <4> QED
          BY <4>2, <4>3, Parameters
      <3>2. b * p <= b * q /\ b * p \in Nat /\ b * q \in Nat
        <4> HIDE DEF b, p, q
        <4> QED
          BY <3>1
      <3>3. /\ b * (2^(m + 1) - 1) = b * (p - 1) + b * p
            /\ b * (p - 1) \in Nat
        BY EpochNumbers
      <3>4. next.lockedUntil >= time + b * q /\ b * (p - 1) <= time - e.windowStart
        BY <1>3, <2>3
      <3> HIDE DEF b, p, q
      <3>5. next.lockedUntil >= e.windowStart + (b * (p - 1) + b * p)
        BY <1>1, <3>2, <3>3, <3>4
      <3>6. next.lockedUntil >= e.windowStart + b * (2^(m + 1) - 1)
        BY <3>3, <3>5
      <3> QED
        BY <3>6 DEF b
    <2> QED
      BY <2>1, <2>2, <2>3
  <1>6. \/ /\ c <= L - 1 + R * m
           /\ m = 0 \/ c >= L + m - 1
        \/ c >= L + m /\ Locks
    <2>1. CASE c >= L + m
      BY <1>5, <2>1
    <2>2. CASE ~(c >= L + m)
      <3>1. /\ e.failures <= L - 1 + R * m
            /\ m = 0 \/ e.failures >= L + m - 1
        <4>1. ~(e.failures >= L + m)
          <5>1. c = e.failures + 1
            OBVIOUS
          <5> HIDE DEF L, c
          <5> QED
            BY <1>1, <1>2, <2>2, <5>1
        <4> QED
          BY <4>1 DEF Epoch
      <3>2. m = 0 /\ c <= L - 1
        <4>1. c = e.failures + 1
          OBVIOUS
        <4> HIDE DEF L, R, c, Locks
        <4> QED
          BY <1>1, <1>2, <2>2, <3>1, <4>1
      <3>3. c <= L - 1 + R * m
        <4> HIDE DEF L, R, c
        <4> QED
          BY <1>1, <1>2, <3>2
      <3> QED
        BY <3>2, <3>3
    <2> QED
      BY <2>1, <2>2
  <1> QED
    BY <1>3, <1>4, <1>6 DEF Epoch

\* The first failure of a window.
LEMMA EpochStarts ==
    ASSUME NEW next \in Entries, NEW k, NEW time \in Nat,
           NEW some \in Nat, some + 1 <= Cardinality(Requests),
           next.failures = 1, next.windowStart = time,
           next.failures >= LimitOf(k) =>
              \/ next.lockedUntil >= time + LockMax
              \/ next.lockedUntil >= time + BaseLock(k) * 2^(next.failures - LimitOf(k))
    PROVE  Epoch(next, time, some, k, 0)
  <1> DEFINE R == Cardinality(Requests)
             L == LimitOf(k)
             b == BaseLock(k)
  <1>1. R \in Nat /\ L \in Nat \ {0} /\ b \in Nat /\ R * 0 = 0 /\ R * (1 + 0) = R
    BY Parameters
  <1>2. 2^0 = 1 /\ 2^(0 + 1) = 2
    BY PowerOfZero, PowerDoubles
  <1>3. b * (2^0 - 1) = 0 /\ b * (2^(0 + 1) - 1) = b
    <2> HIDE DEF b
    <2>1. b * (1 - 1) = 0 /\ b * (2 - 1) = b
      BY <1>1
    <2> QED
      BY <1>2, <2>1
  <1>4. b * (2^0 - 1) <= time - next.windowStart
    BY <1>3
  <1>5. next.failures + some <= L - 1 + R * (1 + 0)
    <2>1. some + 1 <= R
      OBVIOUS
    <2> HIDE DEF R, L
    <2> QED
      BY <1>1, <2>1
  <1>6. CASE L = 1
    <2>1. next.failures - L = 0 /\ next.failures >= L
      BY <1>6
    <2>2. \/ next.lockedUntil >= next.windowStart + LoginWindow
          \/ next.lockedUntil >= next.windowStart + b * (2^(0 + 1) - 1)
      <3>1. CASE next.lockedUntil >= time + LockMax
        <4>1. next.lockedUntil \in Nat
          BY DEF Entries
        <4>2. next.lockedUntil >= next.windowStart + LoginWindow
          BY <3>1, <4>1, Parameters
        <4> QED
          BY <4>2
      <3>2. CASE next.lockedUntil >= time + b * 2^(next.failures - L)
        <4>1. b * 2^(next.failures - L) = b
          <5>1. 2^(next.failures - L) = 1
            BY <1>2, <2>1
          <5> HIDE DEF b
          <5> QED
            BY <1>1, <5>1
        <4> QED
          BY <1>3, <3>2, <4>1
      <3> QED
        BY <2>1, <3>1, <3>2
    <2>3. next.failures >= L + 0
      BY <1>6
    <2> QED
      BY <1>4, <1>5, <2>2, <2>3 DEF Epoch
  <1>7. CASE L # 1
    <2>1. next.failures <= L - 1 + R * 0
      <3> HIDE DEF R, L
      <3> QED
        BY <1>1, <1>7
    <2> QED
      BY <1>4, <1>5, <2>1 DEF Epoch
  <1> QED
    BY <1>6, <1>7

-----------------------------------------------------------------------------
(* Guessed passwords.                                                      *)

\* What the type invariant says of the entry of a login key.
LEMMA LoginTypes ==
    ASSUME LimitsTypeOK, NEW k \in LoginKeys
    PROVE  /\ now \in Nat /\ now \in Ticks /\ now <= MaxTime /\ guesses[k] \in Counts
           /\ k \in DOMAIN logins =>
                 /\ logins[k] \in [failures : Nat \ {0}, windowStart : 0..now,
                                   lockedUntil : 0..(now + LockMax)]
                 /\ logins[k] \in Entries /\ logins[k].windowStart \in Nat
                 /\ logins[k].windowStart <= now /\ logins[k].lockedUntil <= now + LockMax
                 /\ logins[k].failures \in Nat /\ logins[k].lockedUntil \in Nat
  <1>1. now \in Nat /\ now <= MaxTime /\ now \in Ticks
    BY LimitConstants DEF LimitsTypeOK, Ticks
  <1>2. guesses[k] \in Counts
    BY DEF LimitsTypeOK, Counts
  <1>3. ASSUME k \in DOMAIN logins
        PROVE  logins[k] \in [failures : Nat \ {0}, windowStart : 0..now, lockedUntil : 0..(now + LockMax)]
    BY <1>3 DEF LimitsTypeOK
  <1>4. now + LockMax \in Nat
    BY <1>1, Parameters
  <1> QED
    BY <1>1, <1>2, <1>3, <1>4 DEF Entries

\* What recordLocked makes of an entry.
LEMMA LockedEntry ==
    ASSUME LimitsTypeOK, NEW k \in LoginKeys
    PROVE  LET next == RecordLocked(k) IN
           /\ next \in [failures : Nat \ {0}, windowStart : 0..now, lockedUntil : 0..(now + LockMax)]
           /\ next \in Entries
           /\ Fresh(k) => next.failures = 1 /\ next.windowStart = now
           /\ ~Fresh(k) => /\ next.failures = logins[k].failures + 1
                           /\ next.windowStart = logins[k].windowStart
                           /\ next.lockedUntil >= logins[k].lockedUntil
           /\ next.failures >= LimitOf(k) =>
                 \/ next.lockedUntil >= now + LockMax
                 \/ next.lockedUntil >= now + BaseLock(k) * 2^(next.failures - LimitOf(k))
  <1> DEFINE entry == IF Fresh(k) THEN [failures |-> 0, windowStart |-> now, lockedUntil |-> 0]
                                  ELSE logins[k]
             count == entry.failures + 1
             lock == BaseLock(k) * 2^(count - LimitOf(k))
             until == now + Min({LockMax, lock})
             next == RecordLocked(k)
  <1>1. now \in Nat /\ LockMax \in Nat /\ LimitOf(k) \in Nat /\ BaseLock(k) \in Nat
    BY LoginTypes, Parameters
  <1>2. entry \in [failures : Nat, windowStart : 0..now, lockedUntil : 0..(now + LockMax)]
    BY <1>1, LoginTypes DEF Fresh
  <1>3. next = [entry EXCEPT !.failures = count,
                   !.lockedUntil = IF count >= LimitOf(k) THEN Max({@, until}) ELSE @]
    BY DEF RecordLocked, Fresh
  <1>4. /\ Fresh(k) => entry.failures = 0 /\ entry.windowStart = now
        /\ ~Fresh(k) => entry = logins[k]
    OBVIOUS
  <1> HIDE DEF entry, next
  <1>5. count \in Nat \ {0} /\ entry.windowStart \in 0..now /\ entry.lockedUntil \in 0..(now + LockMax)
    BY <1>2
  <1>6. ASSUME count >= LimitOf(k)
        PROVE  /\ until \in Nat /\ until <= now + LockMax /\ lock \in Nat
               /\ until >= now + LockMax \/ until >= now + lock
    <2>1. 2^(count - LimitOf(k)) \in Nat
      <3>1. count - LimitOf(k) \in Nat
        BY <1>1, <1>5, <1>6
      <3> HIDE DEF count
      <3> QED
        BY <3>1, PowerType
    <2>2. lock \in Nat
      <3> HIDE DEF count
      <3> QED
        BY <1>1, <2>1
    <2> HIDE DEF lock
    <2>3. Min({LockMax, lock}) = IF LockMax <= lock THEN LockMax ELSE lock
      BY <1>1, <2>2, SmallerOfTwo
    <2> QED
      BY <1>1, <2>2, <2>3
  <1> DEFINE locked == IF count >= LimitOf(k) THEN Max({entry.lockedUntil, until}) ELSE entry.lockedUntil
  <1>7. next = [entry EXCEPT !.failures = count, !.lockedUntil = locked]
    BY <1>3
  <1>8. /\ locked \in 0..(now + LockMax) /\ locked >= entry.lockedUntil
        /\ count >= LimitOf(k) => locked >= now + LockMax \/ locked >= now + lock
    <2>1. CASE count >= LimitOf(k)
      <3>1. /\ until \in Nat /\ until <= now + LockMax /\ lock \in Nat
            /\ until >= now + LockMax \/ until >= now + lock
            /\ entry.lockedUntil \in Nat /\ entry.lockedUntil <= now + LockMax
        BY <1>1, <1>5, <1>6, <2>1
      <3>2. locked = Max({entry.lockedUntil, until})
        BY <2>1
      <3> HIDE DEF until, lock, locked, count
      <3>3. locked = IF entry.lockedUntil >= until THEN entry.lockedUntil ELSE until
        BY <3>1, <3>2, LargerOfTwo
      <3>4. locked \in 0..(now + LockMax) /\ locked >= entry.lockedUntil /\ locked >= until
        BY <1>1, <3>1, <3>3
      <3>5. locked >= now + LockMax \/ locked >= now + lock
        BY <1>1, <3>1, <3>3, <3>4
      <3> QED
        BY <3>4, <3>5
    <2>2. CASE ~(count >= LimitOf(k))
      <3>1. locked = entry.lockedUntil
        BY <2>2
      <3> HIDE DEF locked
      <3> QED
        BY <1>5, <2>2, <3>1
    <2> QED
      BY <2>1, <2>2
  <1> HIDE DEF locked
  <1>9. /\ next \in [failures : Nat \ {0}, windowStart : 0..now, lockedUntil : 0..(now + LockMax)]
        /\ next.failures = count /\ next.windowStart = entry.windowStart /\ next.lockedUntil = locked
    <2> HIDE DEF count
    <2> QED
      BY <1>2, <1>5, <1>7, <1>8
  <1>10. next \in Entries
    <2>1. 0..now \subseteq Nat /\ 0..(now + LockMax) \subseteq Nat
      BY <1>1
    <2> QED
      BY <1>9, <2>1 DEF Entries
  <1>11. Fresh(k) => next.failures = 1 /\ next.windowStart = now
    BY <1>4, <1>9
  <1>12. ~Fresh(k) => /\ next.failures = logins[k].failures + 1
                      /\ next.windowStart = logins[k].windowStart
                      /\ next.lockedUntil >= logins[k].lockedUntil
    BY <1>4, <1>8, <1>9
  <1>13. next.failures >= LimitOf(k) =>
            \/ next.lockedUntil >= now + LockMax
            \/ next.lockedUntil >= now + BaseLock(k) * 2^(next.failures - LimitOf(k))
    <2> HIDE DEF count
    <2> QED
      BY <1>8, <1>9
  <1> QED
    BY <1>9, <1>10, <1>11, <1>12, <1>13 DEF next

\* A step that neither counts nor forgets a failure, and lets a login through
\* only when its keys are not locked.
LEMMA GuessesKept ==
    ASSUME LimitsTypeOK, RequestsTyped, GuessesCounted,
           NEW r \in Requests, NEW row, Moves(r, row),
           logins' = logins, guesses' = guesses, now' = now,
           \A k : IsUncounted(row, k) <=> IsUncounted(request[r], k),
           \A k : IsTrying(row, k) => IsTrying(request[r], k) \/ ~Locked(k)
    PROVE  GuessesCounted'
  <1> SUFFICES ASSUME NEW k \in LoginKeys PROVE GuessesOf(k)'
    BY DEF GuessesCounted
  <1>1. \A x \in Requests : request'[x] = IF x = r THEN row ELSE request[x]
    BY DEF Moves, RequestsTyped
  <1>2. Uncounted(k)' = Uncounted(k)
    BY <1>1 DEF Uncounted
  <1>3. Fresh(k)' <=> Fresh(k)
    BY DEF Fresh
  <1>4. GuessesOf(k)
    BY DEF GuessesCounted
  <1>5. CASE Fresh(k)
    BY <1>2, <1>3, <1>4, <1>5 DEF GuessesOf
  <1>6. CASE ~Fresh(k)
    <2>1. Total(guesses[k], logins[k].windowStart, now) <= logins[k].failures + Cardinality(Uncounted(k))
      BY <1>4, <1>6 DEF GuessesOf
    <2>2. PICK m \in Nat : Epoch(logins[k], now, Cardinality(Trying(k)), k, m)
      BY <1>4, <1>6 DEF GuessesOf
    <2>3. /\ logins[k] \in Entries /\ now \in Nat /\ k \in DOMAIN logins
          /\ ~(now - logins[k].windowStart >= LoginWindow)
      BY <1>6, LoginTypes DEF Fresh
    <2>4. Trying(k) \in SUBSET Requests /\ Trying(k)' \in SUBSET Requests
      BY DEF Trying
    <2>5. /\ Cardinality(Trying(k)) \in Nat /\ Cardinality(Trying(k)') \in Nat
          /\ Cardinality(Trying(k)') <= Cardinality(Requests)
      BY <2>4, RequestSets
    <2>6. \E n \in Nat : Epoch(logins[k], now, Cardinality(Trying(k)'), k, n)
      <3>1. CASE Locked(k)
        <4>1. Trying(k)' \subseteq Trying(k)
          BY <1>1, <3>1 DEF Trying
        <4>2. Cardinality(Trying(k)') <= Cardinality(Trying(k))
          BY <2>4, <4>1, RequestSets
        <4>3. Epoch(logins[k], now, Cardinality(Trying(k)'), k, m)
          BY <2>2, <2>3, <2>5, <4>2, EpochGoesOn
        <4> QED
          BY <4>3
      <3>2. CASE ~Locked(k)
        <4>1. ~(now < logins[k].lockedUntil)
          BY <2>3, <3>2 DEF Locked
        <4> QED
          BY <2>2, <2>3, <2>5, <4>1, EpochAfterLock
      <3> QED
        BY <3>1, <3>2
    <2> QED
      BY <1>2, <1>3, <1>6, <2>1, <2>6 DEF GuessesOf
  <1> QED
    BY <1>5, <1>6

\* A password is found wrong, and the failure is to be counted.
LEMMA GuessesTold ==
    ASSUME LimitsTypeOK, RequestsTyped, GuessesCounted,
           NEW r \in Requests, NEW row, Moves(r, row), logins' = logins, now' = now,
           guesses' = [k \in LoginKeys |->
               IF k \in KeysFor(request[r]) THEN Plus(guesses[k], now, 1) ELSE guesses[k]],
           \A k : ~IsUncounted(request[r], k),
           \A k : IsUncounted(row, k) <=> k \in KeysFor(request[r]),
           \A k : IsTrying(row, k) => IsTrying(request[r], k)
    PROVE  GuessesCounted'
  <1> SUFFICES ASSUME NEW k \in LoginKeys PROVE GuessesOf(k)'
    BY DEF GuessesCounted
  <1> DEFINE mine == k \in KeysFor(request[r])
             told == IF mine THEN 1 ELSE 0
  <1>0. told \in Nat
    OBVIOUS
  <1>1. \A x \in Requests : request'[x] = IF x = r THEN row ELSE request[x]
    BY DEF Moves, RequestsTyped
  <1>2. Cardinality(Uncounted(k)) + told <= Cardinality(Uncounted(k)')
    <2>1. Uncounted(k) \in SUBSET Requests /\ Uncounted(k)' \in SUBSET Requests
      BY DEF Uncounted
    <2>2. Uncounted(k) \subseteq Uncounted(k)' /\ (mine => r \in Uncounted(k)')
      BY <1>1 DEF Uncounted
    <2>3. r \notin Uncounted(k)
      BY DEF Uncounted
    <2>4. CASE mine
      <3>1. r \in Uncounted(k)' /\ Uncounted(k) \subseteq Uncounted(k)' \ {r}
        BY <2>2, <2>3, <2>4
      <3> QED
        BY <2>1, <2>4, <3>1, RequestSets
    <2>5. CASE ~mine
      <3>1. Cardinality(Uncounted(k)) <= Cardinality(Uncounted(k)') /\ Cardinality(Uncounted(k)) \in Nat
        BY <2>1, <2>2, RequestSets
      <3> QED
        BY <2>5, <3>1
    <2> QED
      BY <2>4, <2>5
  <1>3. /\ Cardinality(Trying(k)') <= Cardinality(Trying(k))
        /\ Cardinality(Trying(k)) \in Nat /\ Cardinality(Trying(k)') \in Nat
        /\ Cardinality(Uncounted(k)) \in Nat /\ Cardinality(Uncounted(k)') \in Nat
    <2>1. /\ Trying(k) \in SUBSET Requests /\ Trying(k)' \in SUBSET Requests
          /\ Uncounted(k) \in SUBSET Requests /\ Uncounted(k)' \in SUBSET Requests
      BY DEF Trying, Uncounted
    <2>2. Trying(k)' \subseteq Trying(k)
      BY <1>1 DEF Trying
    <2> QED
      BY <2>1, <2>2, RequestSets
  <1>4. Fresh(k)' <=> Fresh(k)
    BY DEF Fresh
  <1>5. GuessesOf(k)
    BY DEF GuessesCounted
  <1>6. /\ now \in Ticks /\ now \in Nat /\ now <= MaxTime /\ guesses[k] \in Counts
        /\ guesses'[k] = Plus(guesses[k], now, told)
    <2>1. now \in Ticks /\ now \in Nat /\ now <= MaxTime /\ guesses[k] \in Counts
      BY LoginTypes
    <2>2. guesses[k] = Plus(guesses[k], now, 0)
      BY <2>1 DEF Plus, Counts
    <2> QED
      BY <2>1, <2>2
  <1>7. CASE Fresh(k)
    <2>1. guesses[k][now] <= Cardinality(Uncounted(k)) /\ guesses[k][now] \in Nat
      BY <1>5, <1>6, <1>7 DEF GuessesOf, Counts
    <2>2. guesses'[k][now] = guesses[k][now] + told
      BY <1>6 DEF Plus, Counts
    <2>3. guesses'[k][now] <= Cardinality(Uncounted(k)')
      <3> HIDE DEF told
      <3> QED
        BY <1>0, <1>2, <1>3, <2>1, <2>2
    <2> QED
      BY <1>4, <1>7, <2>3 DEF GuessesOf
  <1>8. CASE ~Fresh(k)
    <2> DEFINE start == logins[k].windowStart
    <2>1. /\ start \in Nat /\ start <= now /\ logins[k].failures \in Nat /\ logins[k] \in Entries
      BY <1>8, LoginTypes DEF Fresh
    <2>2. Total(Plus(guesses[k], now, told), start, now) = Total(guesses[k], start, now) + told
      <3> HIDE DEF start, told
      <3> QED
        BY <1>0, <1>6, <2>1, TotalPlus
    <2>3. Total(guesses[k], start, now) \in Nat
      <3> HIDE DEF start
      <3> QED
        BY <1>6, <2>1, TotalType
    <2>4. Total(guesses[k], start, now) <= logins[k].failures + Cardinality(Uncounted(k))
      BY <1>5, <1>8 DEF GuessesOf
    <2>5. Total(guesses'[k], start, now) <= logins[k].failures + Cardinality(Uncounted(k)')
      <3> HIDE DEF told, start
      <3> QED
        BY <1>0, <1>2, <1>3, <1>6, <2>1, <2>2, <2>3, <2>4
    <2>6. PICK m \in Nat : Epoch(logins[k], now, Cardinality(Trying(k)), k, m)
      BY <1>5, <1>8 DEF GuessesOf
    <2>7. Epoch(logins[k], now, Cardinality(Trying(k)'), k, m)
      BY <1>3, <1>6, <2>1, <2>6, EpochGoesOn
    <2> QED
      BY <1>4, <1>8, <2>5, <2>7 DEF GuessesOf
  <1> QED
    BY <1>7, <1>8

\* A failure is counted, for the account and for the account at its address.
LEMMA GuessesRecorded ==
    ASSUME LimitsTypeOK, RequestsTyped, GuessesCounted, NEW r \in Requests, RecordFailure(r)
    PROVE  GuessesCounted'
  <1> DEFINE mine == KeysFor(request[r])
  <1>1. /\ request[r].pc = "failure" /\ Moves(r, Idle) /\ now' = now /\ guesses' = guesses
        /\ logins' = [k \in DOMAIN logins \cup mine |->
                         IF k \in mine THEN RecordLocked(k) ELSE logins[k]]
    BY DEF RecordFailure, Moves, record, KeysOf, KeysFor
  <1>2. RowTyped(request[r]) /\ request[r].kind = "login" /\ request[r].gates = <<>>
    BY <1>1, RequestRow DEF RowTyped
  <1>3. \A x \in Requests : request'[x] = IF x = r THEN Idle ELSE request[x]
    BY <1>1 DEF Moves, RequestsTyped
  <1> SUFFICES ASSUME NEW k \in LoginKeys PROVE GuessesOf(k)'
    BY DEF GuessesCounted
  <1>4. GuessesOf(k)
    BY DEF GuessesCounted
  <1>5. /\ Uncounted(k) \in SUBSET Requests /\ Uncounted(k)' \in SUBSET Requests
        /\ Trying(k) \in SUBSET Requests /\ Trying(k)' \in SUBSET Requests
    BY DEF Uncounted, Trying
  <1>6. /\ Cardinality(Uncounted(k)) \in Nat /\ Cardinality(Uncounted(k)') \in Nat
        /\ Cardinality(Trying(k)) \in Nat /\ Cardinality(Trying(k)') \in Nat
    BY <1>5, RequestSets
  <1>7. now \in Nat /\ now \in Ticks /\ now <= MaxTime /\ guesses[k] \in Counts
    BY LoginTypes
  <1>8. CASE k \notin mine
    <2>1. \A x \in Requests : IsUncounted(request'[x], k) <=> IsUncounted(request[x], k)
      BY <1>3, <1>8, IdleRow DEF IsUncounted
    <2>2. \A x \in Requests : IsTrying(request'[x], k) <=> IsTrying(request[x], k)
      BY <1>3, <1>8, IdleRow DEF IsTrying
    <2>3. Uncounted(k)' = Uncounted(k) /\ Trying(k)' = Trying(k)
      BY <2>1, <2>2 DEF Uncounted, Trying
    <2>4. /\ k \in DOMAIN logins' <=> k \in DOMAIN logins
          /\ k \in DOMAIN logins => logins'[k] = logins[k]
      <3> HIDE DEF mine
      <3> QED
        BY <1>1, <1>8
    <2>5. Fresh(k)' <=> Fresh(k)
      BY <1>1, <2>4 DEF Fresh
    <2>6. CASE Fresh(k)
      BY <1>1, <1>4, <2>3, <2>5, <2>6 DEF GuessesOf
    <2>7. CASE ~Fresh(k)
      <3>1. logins'[k] = logins[k]
        BY <2>4, <2>7 DEF Fresh
      <3> QED
        BY <1>1, <1>4, <2>3, <2>5, <2>7, <3>1 DEF GuessesOf
    <2> QED
      BY <2>6, <2>7
  <1>9. CASE k \in mine
    <2>1. Cardinality(Uncounted(k)') = Cardinality(Uncounted(k)) - 1
      <3>1. r \in Uncounted(k)
        BY <1>1, <1>2, <1>9, RowFields DEF Uncounted, IsUncounted
      <3>2. Uncounted(k)' = Uncounted(k) \ {r}
        <4>1. \A x \in Requests : IsUncounted(request'[x], k) <=> x # r /\ IsUncounted(request[x], k)
          BY <1>3, IdleRow
        <4> QED
          BY <4>1 DEF Uncounted
      <3>3. IsFiniteSet(Uncounted(k))
        BY <1>5, LimitConstants, FS_Subset
      <3>4. Cardinality(Uncounted(k) \ {r}) = Cardinality(Uncounted(k)) - 1
        BY <3>1, <3>3, FS_RemoveElement
      <3> QED
        BY <3>2, <3>4
    <2>2. Cardinality(Trying(k)') + 1 <= Cardinality(Trying(k))
      <3>1. r \in Trying(k)
        BY <1>1, <1>2, <1>9, RowFields DEF Trying, IsTrying
      <3>2. Trying(k)' \subseteq Trying(k) \ {r}
        <4>1. \A x \in Requests : IsTrying(request'[x], k) => x # r /\ IsTrying(request[x], k)
          BY <1>3, IdleRow
        <4> QED
          BY <4>1 DEF Trying
      <3> QED
        BY <1>5, <3>1, <3>2, RequestSets
    <2> DEFINE next == RecordLocked(k)
    <2>3. k \in DOMAIN logins' /\ logins'[k] = next
      <3> HIDE DEF mine
      <3> QED
        BY <1>1, <1>9
    <2>4. /\ next \in Entries
          /\ Fresh(k) => next.failures = 1 /\ next.windowStart = now
          /\ ~Fresh(k) => /\ next.failures = logins[k].failures + 1
                          /\ next.windowStart = logins[k].windowStart
                          /\ next.lockedUntil >= logins[k].lockedUntil
          /\ next.failures >= LimitOf(k) =>
                \/ next.lockedUntil >= now + LockMax
                \/ next.lockedUntil >= now + BaseLock(k) * 2^(next.failures - LimitOf(k))
      BY LockedEntry
    <2> HIDE DEF next
    <2>5. CASE Fresh(k)
      <3>1. next.failures = 1 /\ next.windowStart = now
        BY <2>4, <2>5
      <3>2. ~Fresh(k)'
        <4>1. ~(now - now >= LoginWindow)
          BY <1>7, Parameters
        <4> QED
          BY <1>1, <2>3, <3>1, <4>1 DEF Fresh
      <3>3. guesses[k][now] <= Cardinality(Uncounted(k)) /\ guesses[k][now] \in Nat
        BY <1>4, <1>7, <2>5 DEF GuessesOf, Counts
      <3>4. Total(guesses[k], now, now) = guesses[k][now]
        <4>1. Total(guesses[k], now, now - 1) = 0
          BY <1>7, TotalEmpty
        <4>2. Total(guesses[k], now, now) = Total(guesses[k], now, now - 1) + guesses[k][now]
          BY <1>7, TotalLast
        <4> QED
          BY <3>3, <4>1, <4>2
      <3>5. Total(guesses[k], now, now) <= 1 + Cardinality(Uncounted(k)')
        BY <1>6, <2>1, <3>3, <3>4
      <3>6. Epoch(next, now, Cardinality(Trying(k)'), k, 0)
        <4>1. Cardinality(Trying(k)') + 1 <= Cardinality(Requests)
          <5>1. Cardinality(Trying(k)) <= Cardinality(Requests)
            BY <1>5, RequestSets
          <5> QED
            BY <1>6, <2>2, <5>1, Parameters
        <4> QED
          BY <1>6, <1>7, <2>4, <3>1, <4>1, EpochStarts
      <3> QED
        BY <1>1, <2>3, <3>1, <3>2, <3>5, <3>6 DEF GuessesOf
    <2>6. CASE ~Fresh(k)
      <3>1. /\ next.failures = logins[k].failures + 1 /\ next.windowStart = logins[k].windowStart
            /\ next.lockedUntil >= logins[k].lockedUntil
        BY <2>4, <2>6
      <3>2. /\ logins[k] \in Entries /\ logins[k].windowStart <= now /\ logins[k].windowStart \in Nat
            /\ logins[k].failures \in Nat
        BY <2>6, LoginTypes DEF Fresh
      <3>3. ~Fresh(k)'
        BY <1>1, <2>3, <2>6, <3>1 DEF Fresh
      <3>4. Total(guesses[k], logins[k].windowStart, now) <= logins[k].failures + Cardinality(Uncounted(k))
        BY <1>4, <2>6 DEF GuessesOf
      <3>5. Total(guesses[k], next.windowStart, now) <= next.failures + Cardinality(Uncounted(k)')
        <4>1. Total(guesses[k], logins[k].windowStart, now) \in Nat
          BY <1>7, <3>2, TotalType
        <4> QED
          BY <1>6, <2>1, <3>1, <3>2, <3>4, <4>1
      <3>6. PICK m \in Nat : Epoch(logins[k], now, Cardinality(Trying(k)), k, m)
        BY <1>4, <2>6 DEF GuessesOf
      <3>7. Epoch(next, now, Cardinality(Trying(k)'), k, m)
        BY <1>6, <1>7, <2>2, <2>4, <3>1, <3>2, <3>6, EpochFailure
      <3> QED
        BY <1>1, <2>3, <3>3, <3>5, <3>7 DEF GuessesOf
    <2> QED
      BY <2>5, <2>6
  <1> QED
    BY <1>8, <1>9

\* A success forgets the entries of its keys and what was tried under them.
LEMMA GuessesForgotten ==
    ASSUME LimitsTypeOK, RequestsTyped, GuessesCounted, NEW r \in Requests, RecordSuccess(r)
    PROVE  GuessesCounted'
  <1> DEFINE mine == KeysFor(request[r])
  <1>1. /\ request[r].pc = "success" /\ Moves(r, Idle) /\ now' = now
        /\ logins' = Restrict(logins, DOMAIN logins \ mine)
        /\ guesses' = [k \in LoginKeys |-> IF k \in mine THEN Never ELSE guesses[k]]
    BY DEF RecordSuccess, Moves, KeysOf, KeysFor
  <1>2. \A x \in Requests : request'[x] = IF x = r THEN Idle ELSE request[x]
    BY <1>1 DEF Moves, RequestsTyped
  <1> SUFFICES ASSUME NEW k \in LoginKeys PROVE GuessesOf(k)'
    BY DEF GuessesCounted
  <1>3. GuessesOf(k)
    BY DEF GuessesCounted
  <1>4. \A x \in Requests : IsUncounted(request'[x], k) <=> IsUncounted(request[x], k)
    BY <1>1, <1>2, IdleRow DEF IsUncounted
  <1>5. \A x \in Requests : IsTrying(request'[x], k) <=> IsTrying(request[x], k)
    BY <1>1, <1>2, IdleRow DEF IsTrying
  <1>6. Uncounted(k)' = Uncounted(k) /\ Trying(k)' = Trying(k)
    BY <1>4, <1>5 DEF Uncounted, Trying
  <1> HIDE DEF mine
  <1>7. CASE k \in mine
    <2>1. Fresh(k)'
      BY <1>1, <1>7 DEF Fresh, Restrict
    <2>2. guesses'[k][now'] = 0
      BY <1>1, <1>7, LoginTypes DEF Never
    <2>3. Cardinality(Uncounted(k)) \in Nat
      BY RequestSets DEF Uncounted
    <2> QED
      BY <1>6, <2>1, <2>2, <2>3 DEF GuessesOf
  <1>8. CASE k \notin mine
    <2>1. /\ k \in DOMAIN logins' <=> k \in DOMAIN logins
          /\ k \in DOMAIN logins => logins'[k] = logins[k]
      BY <1>1, <1>8 DEF Restrict
    <2>2. guesses'[k] = guesses[k]
      BY <1>1, <1>8
    <2>3. Fresh(k)' <=> Fresh(k)
      BY <1>1, <2>1 DEF Fresh
    <2>4. CASE Fresh(k)
      BY <1>1, <1>3, <1>6, <2>2, <2>3, <2>4 DEF GuessesOf
    <2>5. CASE ~Fresh(k)
      <3>1. logins'[k] = logins[k]
        BY <2>1, <2>5 DEF Fresh
      <3> QED
        BY <1>1, <1>3, <1>6, <2>2, <2>3, <2>5, <3>1 DEF GuessesOf
    <2> QED
      BY <2>4, <2>5
  <1> QED
    BY <1>7, <1>8

\* The clock ends windows and locks.
LEMMA GuessesTicked ==
    ASSUME LimitsTypeOK, NothingAhead, GuessesCounted, Tick
    PROVE  GuessesCounted'
  <1> SUFFICES ASSUME NEW k \in LoginKeys PROVE GuessesOf(k)'
    BY DEF GuessesCounted
  <1>1. now < MaxTime /\ now' = now + 1 /\ request' = request /\ logins' = logins /\ guesses' = guesses
    BY DEF Tick, counters, record
  <1>2. now \in Nat /\ now \in Ticks /\ guesses[k] \in Counts /\ now + 1 \in Ticks /\ now + 1 <= MaxTime
    <2>1. now \in Nat /\ now \in Ticks /\ guesses[k] \in Counts /\ now <= MaxTime
      BY LoginTypes
    <2>2. now + 1 \in Ticks /\ now + 1 <= MaxTime
      BY <1>1, <2>1, Parameters DEF Ticks
    <2> QED
      BY <2>1, <2>2
  <1>3. \A t \in Ticks : t > now => guesses[k][t] = 0
    BY DEF NothingAhead
  <1>4. Uncounted(k)' = Uncounted(k) /\ Trying(k)' = Trying(k)
    BY <1>1 DEF Uncounted, Trying
  <1>5. GuessesOf(k)
    BY DEF GuessesCounted
  <1>6. Cardinality(Uncounted(k)) \in Nat /\ Cardinality(Trying(k)) \in Nat
    BY RequestSets DEF Uncounted, Trying
  <1>7. CASE Fresh(k)'
    <2>1. guesses[k][now + 1] = 0
      BY <1>2, <1>3
    <2>2. guesses'[k][now'] <= Cardinality(Uncounted(k)')
      BY <1>1, <1>4, <1>6, <2>1
    <2> QED
      BY <1>7, <2>2 DEF GuessesOf
  <1>8. CASE ~Fresh(k)'
    <2> DEFINE start == logins[k].windowStart
    <2>1. k \in DOMAIN logins /\ ~(now' - logins'[k].windowStart >= LoginWindow)
      BY <1>1, <1>8 DEF Fresh
    <2>2. start \in Nat /\ start <= now /\ logins[k] \in Entries
      BY <2>1, LoginTypes
    <2>3. ~Fresh(k)
      <3>1. ~((now + 1) - start >= LoginWindow)
        BY <1>1, <2>1
      <3>2. ~(now - start >= LoginWindow)
        <4> HIDE DEF start
        <4> QED
          BY <1>2, <2>2, <3>1, Parameters
      <3> QED
        BY <2>1, <3>2 DEF Fresh
    <2>4. Total(guesses[k], start, now + 1) = Total(guesses[k], start, now)
      <3> HIDE DEF start
      <3>1. \A t \in Ticks : t > now /\ t <= now + 1 => guesses[k][t] = 0
        BY <1>3
      <3>2. start \in Nat /\ now \in Int /\ start <= now + 1 /\ now + 1 \in Int /\ now <= now + 1
        BY <1>2, <2>2
      <3> QED
        BY <1>2, <3>1, <3>2, TotalRest
    <2>5. PICK m \in Nat : Epoch(logins[k], now, Cardinality(Trying(k)), k, m)
      BY <1>5, <2>3 DEF GuessesOf
    <2>6. Epoch(logins[k], now + 1, Cardinality(Trying(k)), k, m)
      <3>1. now + 1 \in Nat /\ now <= now + 1 /\ Cardinality(Trying(k)) <= Cardinality(Trying(k))
        BY <1>2, <1>6
      <3> QED
        BY <1>2, <1>6, <2>2, <2>5, <3>1, EpochGoesOn
    <2> QED
      BY <1>1, <1>4, <1>5, <1>8, <2>3, <2>4, <2>6 DEF GuessesOf
  <1> QED
    BY <1>7, <1>8

-----------------------------------------------------------------------------
(* Token buckets.                                                          *)

Rules == [limit : Nat \ {0}, window : Nat \ {0}, burst : Nat \ {0}]

\* Until the next request a bucket lets nothing through and refills.
LEMMA BudgetBetween ==
    ASSUME NEW f \in Counts, NEW bucket, bucket.last \in Nat, bucket.last <= MaxTime,
           bucket.tokens \in Nat, NEW rule \in Rules, Budget(f, bucket, rule),
           NEW from \in Nat, NEW to \in Nat, from <= to, to <= MaxTime
    PROVE  /\ Total(f, from, to) * rule.window
                  <= rule.burst * rule.window + (to - from) * rule.limit
           /\ to >= bucket.last =>
                 Total(f, from, to) * rule.window
                     + Min({rule.burst * rule.window, bucket.tokens + (to - bucket.last) * rule.limit})
                     <= rule.burst * rule.window + (to - from) * rule.limit
  <1> DEFINE W == rule.window
             L == rule.limit
             B == rule.burst * rule.window
             T == Total(f, from, to)
             last == bucket.last
             refill == bucket.tokens + (to - last) * L
  <1>1. W \in Nat /\ L \in Nat /\ B \in Nat
    <2>1. rule.window \in Nat /\ rule.limit \in Nat /\ rule.burst \in Nat
      BY DEF Rules
    <2> QED
      BY <2>1
  <1>2. T \in Nat
    BY TotalType
  <1>3. \A a, b \in Nat : a * L \in Nat /\ a * W \in Nat /\ (a + b) * L = a * L + b * L
    <2> HIDE DEF L, W
    <2> QED
      BY <1>1
  <1>4. T * W \in Nat /\ (to - from) * L \in Nat
    <2>1. to - from \in Nat
      OBVIOUS
    <2> HIDE DEF T, W, L
    <2> QED
      BY <1>2, <1>3, <2>1
  <1>5. ASSUME to >= last
        PROVE  /\ Min({B, refill}) \in Nat /\ Min({B, refill}) <= B /\ Min({B, refill}) <= refill
               /\ (to - last) * L \in Nat
    <2>1. to - last \in Nat
      BY <1>5
    <2>2. (to - last) * L \in Nat
      <3> HIDE DEF L, last
      <3> QED
        BY <1>3, <2>1
    <2>3. refill \in Nat
      <3> HIDE DEF L, last
      <3> QED
        BY <2>2
    <2> HIDE DEF refill, B
    <2>4. Min({B, refill}) = IF B <= refill THEN B ELSE refill
      BY <1>1, <2>3, SmallerOfTwo
    <2>5. Min({B, refill}) \in Nat /\ Min({B, refill}) <= B /\ Min({B, refill}) <= refill
      BY <1>1, <2>3, <2>4
    <2> QED
      BY <2>2, <2>5
  <1>6. ASSUME to >= last PROVE T * W + Min({B, refill}) <= B + (to - from) * L
    <2>1. CASE from <= last
      <3>1. Total(f, from, to) = Total(f, from, last)
        <4>1. \A t \in Ticks : t > last /\ t <= to => f[t] = 0
          BY DEF Budget
        <4>2. last \in Int /\ from <= last + 1 /\ last <= to /\ to \in Int
          BY <1>6, <2>1
        <4> HIDE DEF last
        <4> QED
          BY <4>1, <4>2, TotalRest
      <3>2. Total(f, from, last) * W + bucket.tokens <= B + (last - from) * L
        BY <2>1 DEF Budget
      <3>3. (to - from) * L = (last - from) * L + (to - last) * L /\ (last - from) * L \in Nat
        <4>1. last - from \in Nat /\ to - last \in Nat /\ to - from = (last - from) + (to - last)
          BY <1>6, <2>1
        <4> HIDE DEF last, L
        <4> QED
          BY <1>3, <4>1
      <3>4. T * W + bucket.tokens <= B + (last - from) * L
        BY <3>1, <3>2
      <3>5. Min({B, refill}) <= bucket.tokens + (to - last) * L /\ Min({B, refill}) \in Nat
            /\ (to - last) * L \in Nat
        BY <1>5, <1>6
      <3> DEFINE x == T * W
                 y == (last - from) * L
                 z == (to - last) * L
                 w == (to - from) * L
                 n == Min({B, refill})
      <3>6. /\ x \in Nat /\ y \in Nat /\ z \in Nat /\ w = y + z /\ n \in Nat /\ n <= bucket.tokens + z
            /\ x + bucket.tokens <= B + y
        BY <1>4, <3>3, <3>4, <3>5
      <3> HIDE DEF x, y, z, w, n, B
      <3>7. x + n <= B + w
        BY <1>1, <3>6
      <3> QED
        BY <3>7 DEF x, w, n
    <2>2. CASE ~(from <= last)
      <3>1. Total(f, from, to) = 0
        <4>1. \A t \in Ticks : t > from - 1 /\ t <= to => f[t] = 0
          BY <2>2 DEF Budget, Ticks
        <4>2. from - 1 \in Int /\ from <= (from - 1) + 1 /\ from - 1 <= to /\ to \in Int
          OBVIOUS
        <4>3. Total(f, from, to) = Total(f, from, from - 1)
          BY <4>1, <4>2, TotalRest
        <4>4. Total(f, from, from - 1) = 0
          BY TotalEmpty
        <4> QED
          BY <4>3, <4>4
      <3>2. T * W = 0
        <4> HIDE DEF W
        <4> QED
          BY <1>1, <3>1
      <3>3. Min({B, refill}) \in Nat /\ Min({B, refill}) <= B
        BY <1>5, <1>6
      <3> DEFINE n == Min({B, refill})
                 w == (to - from) * L
      <3>4. n \in Nat /\ n <= B /\ w \in Nat
        BY <1>4, <3>3
      <3> HIDE DEF n, w, B
      <3>5. 0 + n <= B + w
        BY <1>1, <3>4
      <3> QED
        BY <3>2, <3>5 DEF n, w
    <2> QED
      BY <2>1, <2>2
  <1>7. T * W <= B + (to - from) * L
    <2>1. CASE to <= last
      BY <2>1 DEF Budget
    <2>2. CASE ~(to <= last)
      <3>1. to >= last
        BY <2>2
      <3> DEFINE x == T * W
                 w == (to - from) * L
                 n == Min({B, refill})
      <3>2. x \in Nat /\ w \in Nat /\ n \in Nat /\ x + n <= B + w
        BY <1>4, <1>5, <1>6, <3>1
      <3> HIDE DEF x, w, n, B
      <3>3. x <= B + w
        BY <1>1, <3>2
      <3> QED
        BY <3>3 DEF x, w
    <2> QED
      BY <2>1, <2>2
  <1> QED
    BY <1>6, <1>7

\* A request that finds the bucket refilled, and takes a token or does not.
LEMMA BudgetSpent ==
    ASSUME NEW f \in Counts, NEW bucket, bucket.last \in Nat, bucket.tokens \in Nat,
           NEW rule \in Rules, Budget(f, bucket, rule),
           NEW time \in Nat, bucket.last <= time, time <= MaxTime,
           NEW n \in {0, 1}, NEW next, next.last = time, next.tokens \in Nat,
           next.tokens + n * rule.window
               = Min({rule.burst * rule.window, bucket.tokens + (time - bucket.last) * rule.limit})
    PROVE  Budget(Plus(f, time, n), next, rule)
  <1> DEFINE W == rule.window
             L == rule.limit
             B == rule.burst * rule.window
             g == Plus(f, time, n)
             filled == Min({rule.burst * rule.window, bucket.tokens + (time - bucket.last) * rule.limit})
  <1>1. W \in Nat /\ L \in Nat /\ B \in Nat /\ n \in Nat /\ time \in Ticks /\ bucket.last <= MaxTime
    <2>1. rule.window \in Nat /\ rule.limit \in Nat /\ rule.burst \in Nat
      BY DEF Rules
    <2>2. time \in Ticks /\ bucket.last <= MaxTime
      BY Parameters DEF Ticks
    <2> QED
      BY <2>1, <2>2
  <1>2. \A t \in Ticks : t > next.last => g[t] = 0
    <2> SUFFICES ASSUME NEW t \in Ticks, t > time PROVE g[t] = 0
      OBVIOUS
    <2>1. t # time /\ t > bucket.last
      BY DEF Ticks
    <2>2. f[t] = 0
      BY <2>1 DEF Budget
    <2> QED
      BY <2>1, <2>2 DEF Plus, Counts
  <1>3. \A a \in Nat : a * W \in Nat /\ (a + n) * W = a * W + n * W /\ a * L \in Nat /\ n * W \in Nat
    <2> HIDE DEF W, L
    <2> QED
      BY <1>1
  <1>4. ASSUME NEW from \in 0..time
        PROVE  Total(g, from, time) * W + next.tokens <= B + (time - from) * L
    <2> DEFINE T == Total(f, from, time)
    <2>1. from \in Nat /\ from <= time /\ time - from \in Nat
      OBVIOUS
    <2>2. T * W + filled <= B + (time - from) * L
      BY <1>1, <2>1, BudgetBetween
    <2>3. Total(g, from, time) = T + n /\ T \in Nat
      <3> HIDE DEF g
      <3>1. Total(Plus(f, time, n), from, time) = T + (IF from <= time /\ time <= time THEN n ELSE 0)
        BY <1>1, <2>1, TotalPlus
      <3>2. T \in Nat
        BY <2>1, TotalType
      <3> HIDE DEF T
      <3> QED
        BY <1>1, <2>1, <3>1, <3>2 DEF g
    <2>4. Total(g, from, time) * W = T * W + n * W /\ T * W \in Nat /\ n * W \in Nat
          /\ (time - from) * L \in Nat
      <3> HIDE DEF W, L, T, g
      <3> QED
        BY <1>3, <2>1, <2>3
    <2>5. next.tokens + n * W = filled
      OBVIOUS
    <2> DEFINE x == T * W
               y == n * W
               z == (time - from) * L
               u == Total(g, from, time) * W
    <2>6. x \in Nat /\ y \in Nat /\ z \in Nat /\ u = x + y /\ next.tokens + y = filled /\ x + filled <= B + z
      BY <2>2, <2>4, <2>5
    <2> HIDE DEF x, y, z, u, B, filled
    <2>7. u + next.tokens <= B + z
      BY <1>1, <2>6
    <2> QED
      BY <2>7 DEF u, z
  <1>5. ASSUME NEW from \in 0..time, NEW to \in 0..time, from <= to
        PROVE  Total(g, from, to) * W <= B + (to - from) * L
    <2>1. CASE to = time
      <3>1. Total(g, from, to) * W + next.tokens <= B + (to - from) * L
        BY <1>4, <2>1
      <3>2. Total(g, from, to) * W \in Nat /\ (to - from) * L \in Nat
        <4>1. from \in Nat /\ to \in Nat /\ to <= MaxTime /\ to - from \in Nat
          BY <1>5, <2>1
        <4>2. Total(g, from, to) \in Nat
          <5>1. g \in Counts
            BY <1>1, TotalPlus
          <5> HIDE DEF g
          <5> QED
            BY <4>1, <5>1, TotalType
        <4> HIDE DEF W, L, g
        <4> QED
          BY <1>3, <4>1, <4>2
      <3> DEFINE u == Total(g, from, to) * W
                 z == (to - from) * L
      <3>3. u \in Nat /\ z \in Nat /\ u + next.tokens <= B + z
        BY <3>1, <3>2
      <3> HIDE DEF u, z, B
      <3>4. u <= B + z
        BY <1>1, <3>3
      <3> QED
        BY <3>4 DEF u, z
    <2>2. CASE to # time
      <3>1. from \in Nat /\ to \in Nat /\ to <= MaxTime /\ ~(time <= to)
        BY <2>2, Parameters
      <3>2. Total(f, from, to) * W <= B + (to - from) * L
        BY <1>1, <1>5, <3>1, BudgetBetween
      <3>3. Total(g, from, to) = Total(f, from, to)
        <4> HIDE DEF g
        <4>1. Total(Plus(f, time, n), from, to)
                  = Total(f, from, to) + (IF from <= time /\ time <= to THEN n ELSE 0)
          BY <1>1, <3>1, TotalPlus
        <4>2. Total(f, from, to) \in Nat
          BY <3>1, TotalType
        <4> QED
          BY <3>1, <4>1, <4>2 DEF g
      <3> QED
        BY <3>2, <3>3
    <2> QED
      BY <2>1, <2>2
  <1> QED
    BY <1>2, <1>4, <1>5 DEF Budget

\* A bucket without a past is full.
LEMMA BudgetFull ==
    ASSUME NEW rule \in Rules, NEW time \in Nat, time <= MaxTime,
           NEW bucket, bucket.last = time, bucket.tokens = rule.burst * rule.window
    PROVE  Budget(Never, bucket, rule) /\ Never \in Counts
  <1> DEFINE W == rule.window
             L == rule.limit
             B == rule.burst * rule.window
  <1>1. W \in Nat /\ L \in Nat /\ B \in Nat /\ Never \in Counts
    <2>1. rule.window \in Nat /\ rule.limit \in Nat /\ rule.burst \in Nat
      BY DEF Rules
    <2>2. Never \in Counts
      BY DEF Never, Counts
    <2> QED
      BY <2>1, <2>2
  <1>2. ASSUME NEW from \in 0..time, NEW to \in 0..time, from <= to
        PROVE  /\ Total(Never, from, to) * W = 0 /\ (to - from) * L \in Nat
    <2>1. from \in Nat /\ to \in Nat /\ to <= MaxTime /\ to - from \in Nat
      BY <1>2, Parameters
    <2>2. Total(Never, from, to) = 0
      BY <2>1, TotalNever
    <2> HIDE DEF W, L
    <2> QED
      BY <1>1, <2>1, <2>2
  <1>3. \A t \in Ticks : Never[t] = 0
    BY DEF Never
  <1>4. \A from, to \in 0..time : from <= to => Total(Never, from, to) * W <= B + (to - from) * L
    <2> SUFFICES ASSUME NEW from \in 0..time, NEW to \in 0..time, from <= to
                 PROVE  Total(Never, from, to) * W <= B + (to - from) * L
      OBVIOUS
    <2> DEFINE z == (to - from) * L
    <2>1. Total(Never, from, to) * W = 0 /\ z \in Nat
      BY <1>2
    <2> HIDE DEF z, B
    <2>2. 0 <= B + z
      BY <1>1, <2>1
    <2> QED
      BY <2>1, <2>2 DEF z
  <1>5. \A from \in 0..time : Total(Never, from, time) * W + bucket.tokens <= B + (time - from) * L
    <2> SUFFICES ASSUME NEW from \in 0..time
                 PROVE  Total(Never, from, time) * W + bucket.tokens <= B + (time - from) * L
      OBVIOUS
    <2> DEFINE z == (time - from) * L
    <2>1. Total(Never, from, time) * W = 0 /\ z \in Nat
      BY <1>2
    <2>2. bucket.tokens = B
      OBVIOUS
    <2> HIDE DEF z, B
    <2>3. 0 + B <= B + z
      BY <1>1, <2>1
    <2> QED
      BY <2>1, <2>2, <2>3 DEF z
  <1> QED
    BY <1>1, <1>3, <1>4, <1>5 DEF Budget


\* A request at a bucket, in a map that may evict others for it.
LEMMA BucketStep ==
    ASSUME LimitsTypeOK, RequestsTyped, BucketsBudgeted, NEW r \in Requests, CheckBucket(r)
    PROVE  /\ BucketsBudgeted'
           /\ Cardinality(DOMAIN buckets') <= MaxKeys /\ DOMAIN spent' = DOMAIN buckets'
           /\ \A k \in DOMAIN buckets' :
                 /\ buckets'[k] \in [tokens : Nat, last : 0..now, seen : 0..now]
                 /\ buckets'[k].tokens <= Rule[k[1]].burst * Rule[k[1]].window
  <1> DEFINE gate == Head(request[r].gates)
             key == gate.key
             rule == Rule[gate.rule]
             tokens == Refill(key, rule)
             allowed == tokens >= rule.window
             entry == [tokens |-> IF allowed THEN tokens - rule.window ELSE tokens,
                       last |-> now, seen |-> now]
             counts == IF key \in DOMAIN spent THEN spent[key] ELSE Never
             n == IF allowed THEN 1 ELSE 0
             B == rule.burst * rule.window
  <1>1. PICK keep \in IF key \in DOMAIN buckets THEN {DOMAIN buckets} ELSE EvictLocked :
           /\ buckets' = Put(buckets, keep, key, entry)
           /\ spent' = Put(spent, keep, key, Plus(counts, now, n))
           /\ Pass(r, allowed)
    BY DEF CheckBucket
  <1>2. /\ gate \in Gates /\ gate.gate = "bucket"
        /\ gate.rule \in RuleNames /\ key \in RuleNames \X CounterKeys /\ key[1] = gate.rule
    <2>1. AtGate(r, "bucket")
      BY DEF CheckBucket
    <2>2. gate \in Gates /\ gate.gate = "bucket"
      <3>1. allowed \in BOOLEAN
        <4> HIDE DEF tokens, rule
        <4> QED
          OBVIOUS
      <3> HIDE DEF allowed
      <3> QED
        BY <1>1, <2>1, <3>1, PassMoves
    <2> QED
      BY <2>2, GateFields
  <1>3. rule \in Rules /\ rule = Rule[key[1]]
    BY <1>2, LimitConstants DEF Rules
  <1>4. now \in Nat /\ now <= MaxTime /\ now \in Ticks
    BY LimitConstants DEF LimitsTypeOK, Ticks
  <1> HIDE DEF gate, key
  <1>5. rule.window \in Nat \ {0} /\ rule.limit \in Nat /\ rule.burst \in Nat \ {0} /\ B \in Nat
    <2>1. rule.window \in Nat \ {0} /\ rule.limit \in Nat /\ rule.burst \in Nat \ {0}
      BY <1>3 DEF Rules
    <2> HIDE DEF rule
    <2> QED
      BY <2>1
  <1> HIDE DEF rule
  <1>6. ASSUME NEW k \in DOMAIN buckets
        PROVE  /\ buckets[k] \in [tokens : Nat, last : 0..now, seen : 0..now]
               /\ buckets[k].tokens \in Nat /\ buckets[k].last \in Nat /\ buckets[k].last <= now
               /\ buckets[k].tokens <= Rule[k[1]].burst * Rule[k[1]].window
               /\ spent[k] \in Counts /\ Budget(spent[k], buckets[k], Rule[k[1]])
    <2>1. /\ buckets[k] \in [tokens : Nat, last : 0..now, seen : 0..now]
          /\ buckets[k].tokens <= Rule[k[1]].burst * Rule[k[1]].window
      BY DEF LimitsTypeOK
    <2>2. spent[k] \in Counts /\ Budget(spent[k], buckets[k], Rule[k[1]])
      BY DEF BucketsBudgeted, Counts
    <2>3. buckets[k].tokens \in Nat /\ buckets[k].last \in Nat /\ buckets[k].last <= now
      BY <1>4, <2>1
    <2> QED
      BY <2>1, <2>2, <2>3
  <1>7. /\ key \in DOMAIN buckets =>
              tokens = Min({B, buckets[key].tokens + (now - buckets[key].last) * rule.limit})
        /\ key \notin DOMAIN buckets => tokens = B
        /\ tokens \in Nat /\ tokens <= B
    <2>1. CASE key \notin DOMAIN buckets
      BY <1>5, <2>1 DEF Refill
    <2>2. CASE key \in DOMAIN buckets
      <3> DEFINE refill == buckets[key].tokens + (now - buckets[key].last) * rule.limit
      <3>1. refill \in Nat
        <4>1. now - buckets[key].last \in Nat /\ buckets[key].tokens \in Nat
          BY <1>4, <1>6, <2>2
        <4>2. (now - buckets[key].last) * rule.limit \in Nat
          BY <1>5, <4>1
        <4> QED
          BY <4>1, <4>2
      <3>2. tokens = Min({B, refill})
        BY <2>2 DEF Refill
      <3> HIDE DEF tokens, refill, B
      <3>3. Min({B, refill}) = IF B <= refill THEN B ELSE refill
        BY <1>5, <3>1, SmallerOfTwo
      <3>4. tokens \in Nat /\ tokens <= B
        BY <1>5, <3>1, <3>2, <3>3
      <3> QED
        BY <2>2, <3>2, <3>4 DEF refill
    <2> QED
      BY <2>1, <2>2
  <1> HIDE DEF tokens, B
  <1>8. /\ entry \in [tokens : Nat, last : 0..now, seen : 0..now] /\ entry.tokens <= B
        /\ entry.last = now /\ n \in {0, 1} /\ entry.tokens + n * rule.window = tokens
    <2>1. CASE allowed
      <3>1. tokens - rule.window \in Nat /\ tokens - rule.window <= B
            /\ (tokens - rule.window) + 1 * rule.window = tokens
        BY <1>5, <1>7, <2>1
      <3> QED
        BY <1>4, <2>1, <3>1
    <2>2. CASE ~allowed
      <3>1. tokens + 0 * rule.window = tokens
        BY <1>5, <1>7
      <3> QED
        BY <1>4, <1>7, <2>2, <3>1
    <2> QED
      BY <2>1, <2>2
  <1> HIDE DEF entry, n
  <1>9. counts \in Counts /\ Plus(counts, now, n) \in Counts /\ Budget(Plus(counts, now, n), entry, rule)
    <2>0. DOMAIN spent = DOMAIN buckets
      BY DEF LimitsTypeOK
    <2>1. CASE key \in DOMAIN buckets
      <3>1. counts = spent[key]
        BY <2>0, <2>1
      <3>2. /\ spent[key] \in Counts /\ Budget(spent[key], buckets[key], rule)
            /\ buckets[key].tokens \in Nat /\ buckets[key].last \in Nat /\ buckets[key].last <= now
        BY <1>3, <1>6, <2>1
      <3>3. entry.tokens + n * rule.window
                = Min({rule.burst * rule.window, buckets[key].tokens + (now - buckets[key].last) * rule.limit})
        BY <1>7, <1>8, <2>1 DEF B
      <3>4. entry.tokens \in Nat
        BY <1>8
      <3>5. Budget(Plus(spent[key], now, n), entry, rule)
        BY <1>3, <1>4, <1>8, <3>2, <3>3, <3>4, BudgetSpent
      <3>6. Plus(spent[key], now, n) \in Counts
        <4>1. n \in Nat
          BY <1>8
        <4> QED
          BY <1>4, <3>2, <4>1, TotalPlus
      <3> QED
        BY <3>1, <3>2, <3>5, <3>6
    <2>2. CASE key \notin DOMAIN buckets
      <3>1. counts = Never
        BY <2>0, <2>2
      <3> DEFINE full == [tokens |-> rule.burst * rule.window, last |-> now]
      <3>2. full.tokens = rule.burst * rule.window /\ full.last = now /\ full.tokens \in Nat
        BY <1>5 DEF B
      <3> HIDE DEF full
      <3>3. Budget(Never, full, rule) /\ Never \in Counts
        BY <1>3, <1>4, <3>2, BudgetFull
      <3>4. entry.tokens + n * rule.window
                = Min({rule.burst * rule.window, full.tokens + (now - full.last) * rule.limit})
        <4>1. (now - full.last) * rule.limit = 0
          <5>1. now - full.last = 0
            BY <1>4, <3>2
          <5> QED
            BY <1>5, <5>1
        <4>2. full.tokens + (now - full.last) * rule.limit = B /\ rule.burst * rule.window = B
          BY <1>5, <3>2, <4>1 DEF B
        <4>3. Min({B, B}) = B
          BY <1>5, SmallerOfTwo
        <4> QED
          BY <1>7, <1>8, <2>2, <4>2, <4>3
      <3>5. entry.tokens \in Nat
        BY <1>8
      <3>6. Budget(Plus(Never, now, n), entry, rule)
        BY <1>3, <1>4, <1>8, <3>2, <3>3, <3>4, <3>5, BudgetSpent
      <3>7. Plus(Never, now, n) \in Counts
        <4>1. n \in Nat
          BY <1>8
        <4> QED
          BY <1>4, <3>3, <4>1, TotalPlus
      <3> QED
        BY <3>1, <3>3, <3>6, <3>7
    <2> QED
      BY <2>1, <2>2
  <1> HIDE DEF counts
  <1>10. /\ keep \subseteq DOMAIN buckets /\ IsFiniteSet(DOMAIN buckets)
         /\ key \notin DOMAIN buckets => Cardinality(keep) < MaxKeys
         /\ key \in DOMAIN buckets => keep = DOMAIN buckets
    <2>1. IsFiniteSet(DOMAIN buckets)
      BY DEF BucketsBudgeted
    <2>2. ASSUME key \notin DOMAIN buckets
          PROVE  keep \subseteq DOMAIN buckets /\ Cardinality(keep) < MaxKeys
      <3> DEFINE live == {k \in DOMAIN buckets : now - buckets[k].seen <= IdleTTL}
                 target == IF MaxKeys < 20 THEN 1 ELSE MaxKeys \div 10
      <3>1. keep \in EvictLocked
        BY <1>1, <2>2
      <3>2. IsFiniteSet(live) /\ Cardinality(live) <= Cardinality(DOMAIN buckets)
            /\ Cardinality(live) \in Nat /\ Cardinality(DOMAIN buckets) \in Nat
        BY <2>1, FS_Subset, FS_CardinalityType
      <3>3. Cardinality(DOMAIN buckets) <= MaxKeys
        BY DEF LimitsTypeOK
      <3>4. CASE Cardinality(DOMAIN buckets) < MaxKeys
        BY <3>1, <3>4 DEF EvictLocked
      <3>5. CASE ~(Cardinality(DOMAIN buckets) < MaxKeys) /\ Cardinality(live) < MaxKeys
        BY <3>1, <3>5 DEF EvictLocked
      <3>6. CASE ~(Cardinality(DOMAIN buckets) < MaxKeys) /\ ~(Cardinality(live) < MaxKeys)
        <4>1. PICK gone \in kSubset(target, live) : keep = live \ gone
          BY <3>1, <3>6 DEF EvictLocked
        <4>2. gone \in SUBSET live /\ Cardinality(gone) = target
          BY <4>1 DEF kSubset
        <4>3. target \in Nat \ {0}
          <5>1. MaxKeys \in Nat \ {0}
            BY Parameters
          <5>2. CASE MaxKeys < 20
            BY <5>2
          <5>3. CASE ~(MaxKeys < 20)
            <6>1. MaxKeys \div 10 \in Nat /\ MaxKeys \div 10 >= 1
              BY <5>1, <5>3
            <6> QED
              BY <5>3, <6>1
          <5> QED
            BY <5>2, <5>3
        <4> HIDE DEF target, live
        <4>4. gone # {}
          BY <4>2, <4>3, FS_EmptySet
        <4>5. PICK x \in gone : TRUE
          BY <4>4
        <4>6. IsFiniteSet(live \ {x}) /\ Cardinality(live \ {x}) = Cardinality(live) - 1
          BY <3>2, <4>2, <4>5, FS_RemoveElement
        <4>7. keep \subseteq live \ {x}
          BY <4>1, <4>5
        <4>8. Cardinality(keep) <= Cardinality(live \ {x}) /\ IsFiniteSet(keep)
          BY <4>6, <4>7, FS_Subset
        <4>9. Cardinality(keep) \in Nat
          BY <4>8, FS_CardinalityType
        <4>10. Cardinality(keep) < MaxKeys
          BY <3>2, <3>3, <4>6, <4>8, <4>9, Parameters
        <4> QED
          BY <4>1, <4>10 DEF live
      <3> QED
        BY <3>4, <3>5, <3>6
    <2>3. key \in DOMAIN buckets => keep = DOMAIN buckets
      BY <1>1
    <2> QED
      BY <2>1, <2>2, <2>3
  <1>11. DOMAIN buckets' = keep \cup {key} /\ DOMAIN spent' = keep \cup {key}
    BY <1>1 DEF Put
  <1>12. IsFiniteSet(keep \cup {key}) /\ Cardinality(keep \cup {key}) <= MaxKeys
    <2>1. CASE key \in DOMAIN buckets
      <3>1. keep \cup {key} = DOMAIN buckets
        BY <1>10, <2>1
      <3> QED
        BY <1>10, <3>1 DEF LimitsTypeOK
    <2>2. CASE key \notin DOMAIN buckets
      <3>1. IsFiniteSet(keep)
        BY <1>10, FS_Subset
      <3>2. key \notin keep /\ Cardinality(keep) < MaxKeys /\ Cardinality(keep) \in Nat
        BY <1>10, <2>2, <3>1, FS_CardinalityType
      <3>3. IsFiniteSet(keep \cup {key}) /\ Cardinality(keep \cup {key}) = Cardinality(keep) + 1
        BY <3>1, <3>2, FS_AddElement
      <3> QED
        BY <3>2, <3>3, Parameters
    <2> QED
      BY <2>1, <2>2
  <1>13. ASSUME NEW k \in keep \cup {key}
         PROVE  /\ buckets'[k] \in [tokens : Nat, last : 0..now, seen : 0..now]
                /\ buckets'[k].tokens <= Rule[k[1]].burst * Rule[k[1]].window
                /\ spent'[k] \in Counts /\ Budget(spent'[k], buckets'[k], Rule[k[1]])
                /\ k \in RuleNames \X CounterKeys
    <2>1. CASE k = key
      <3>1. buckets'[k] = entry /\ spent'[k] = Plus(counts, now, n)
        BY <1>1, <2>1 DEF Put
      <3> QED
        BY <1>2, <1>3, <1>8, <1>9, <2>1, <3>1 DEF B
    <2>2. CASE k # key
      <3>1. k \in keep /\ k \in DOMAIN buckets
        BY <1>10, <2>2
      <3>2. buckets'[k] = buckets[k] /\ spent'[k] = spent[k]
        BY <1>1, <2>2, <3>1 DEF Put
      <3> QED
        BY <1>6, <3>1, <3>2 DEF BucketsBudgeted
    <2> QED
      BY <2>1, <2>2
  <1>14. BucketsBudgeted'
    <2>1. IsFiniteSet(DOMAIN buckets') /\ DOMAIN buckets' \subseteq RuleNames \X CounterKeys
      BY <1>11, <1>12, <1>13
    <2>2. \A k \in DOMAIN buckets' :
             spent'[k] \in [Ticks -> Nat] /\ Budget(spent'[k], buckets'[k], Rule[k[1]])
      BY <1>11, <1>13 DEF Counts
    <2> QED
      BY <2>1, <2>2 DEF BucketsBudgeted
  <1> QED
    BY <1>11, <1>12, <1>13, <1>14

-----------------------------------------------------------------------------
(* The type invariant, map by map.                                         *)

BucketsTyped ==
    /\ Cardinality(DOMAIN buckets) <= MaxKeys /\ DOMAIN spent = DOMAIN buckets
    /\ \A k \in DOMAIN buckets :
          /\ buckets[k] \in [tokens : Nat, last : 0..now, seen : 0..now]
          /\ buckets[k].tokens <= Rule[k[1]].burst * Rule[k[1]].window

FailuresTyped ==
    /\ DOMAIN failures \subseteq Addresses /\ Cardinality(DOMAIN failures) <= MaxKeys
    /\ \A ip \in DOMAIN failures : failures[ip] \in [windowStart : 0..now, count : Nat \ {0}]

LoginsTyped ==
    /\ DOMAIN logins \subseteq LoginKeys
    /\ \A k \in DOMAIN logins :
          logins[k] \in [failures : Nat \ {0}, windowStart : 0..now, lockedUntil : 0..(now + LockMax)]

WindowsTyped ==
    /\ DOMAIN windows \subseteq Accounts
    /\ \A u \in DOMAIN windows : windows[u] \in [start : 0..now, hits : Nat \ {0}]

RecordsTyped == wrong \in [Addresses -> Counts] /\ guesses \in [LoginKeys -> Counts]

\* The stages of the requests follow from their rows.
LEMMA TypeParts ==
    /\ LimitsTypeOK => BucketsTyped /\ FailuresTyped /\ LoginsTyped /\ WindowsTyped /\ RecordsTyped
    /\ /\ now \in Ticks /\ RequestsTyped
       /\ BucketsTyped /\ FailuresTyped /\ LoginsTyped /\ WindowsTyped /\ RecordsTyped
       => LimitsTypeOK
  <1>1. RequestsTyped =>
           \A r \in Requests : request[r].pc \in {"idle", "gates", "badcode", "failure", "success"}
    <2> SUFFICES ASSUME RequestsTyped, NEW r \in Requests
                 PROVE  request[r].pc \in {"idle", "gates", "badcode", "failure", "success"}
      OBVIOUS
    <2>1. CASE request[r] = Idle
      BY <2>1 DEF Idle
    <2>2. CASE RowTyped(request[r])
      BY <2>2, RowFields
    <2> QED
      BY <2>1, <2>2 DEF RequestsTyped
  <1> QED
    BY <1>1 DEF LimitsTypeOK, BucketsTyped, FailuresTyped, LoginsTyped, WindowsTyped, RecordsTyped, Counts

\* A map and its clock as they were.
LEMMA TypesKept ==
    ASSUME now' = now
    PROVE  /\ buckets' = buckets /\ spent' = spent /\ BucketsTyped => BucketsTyped'
           /\ buckets' = buckets /\ spent' = spent /\ BucketsBudgeted => BucketsBudgeted'
           /\ failures' = failures /\ FailuresTyped => FailuresTyped'
           /\ logins' = logins /\ LoginsTyped => LoginsTyped'
           /\ windows' = windows /\ WindowsTyped => WindowsTyped'
           /\ wrong' = wrong /\ guesses' = guesses /\ RecordsTyped => RecordsTyped'
           /\ wrong' = wrong /\ guesses' = guesses /\ NothingAhead => NothingAhead'
  <1>1. buckets' = buckets /\ spent' = spent /\ BucketsTyped => BucketsTyped'
    BY DEF BucketsTyped
  <1>2. buckets' = buckets /\ spent' = spent /\ BucketsBudgeted => BucketsBudgeted'
    BY DEF BucketsBudgeted
  <1>3. failures' = failures /\ FailuresTyped => FailuresTyped'
    BY DEF FailuresTyped
  <1>4. logins' = logins /\ LoginsTyped => LoginsTyped'
    BY DEF LoginsTyped
  <1>5. windows' = windows /\ WindowsTyped => WindowsTyped'
    BY DEF WindowsTyped
  <1>6. wrong' = wrong /\ guesses' = guesses /\ RecordsTyped => RecordsTyped'
    BY DEF RecordsTyped
  <1>7. wrong' = wrong /\ guesses' = guesses /\ NothingAhead => NothingAhead'
    BY DEF NothingAhead
  <1> QED
    BY <1>1, <1>2, <1>3, <1>4, <1>5, <1>6, <1>7

\* The clock moves on: what was no later than it still is.
LEMMA TypesTicked ==
    ASSUME LimitsTypeOK, NothingAhead, Tick
    PROVE  /\ now' \in Ticks /\ BucketsTyped' /\ FailuresTyped' /\ LoginsTyped' /\ WindowsTyped'
           /\ RecordsTyped' /\ NothingAhead'
  <1>1. /\ now < MaxTime /\ now' = now + 1 /\ buckets' = buckets /\ failures' = failures
        /\ logins' = logins /\ windows' = windows /\ spent' = spent /\ wrong' = wrong
        /\ guesses' = guesses
    BY DEF Tick, counters, record
  <1>2. now \in Nat /\ LockMax \in Nat /\ MaxTime \in Nat
    BY Parameters DEF LimitsTypeOK, Ticks
  <1>3. 0..now \subseteq 0..now' /\ 0..(now + LockMax) \subseteq 0..(now' + LockMax) /\ now' \in Ticks
    BY <1>1, <1>2 DEF Ticks
  <1>4. BucketsTyped /\ FailuresTyped /\ LoginsTyped /\ WindowsTyped /\ RecordsTyped
    BY TypeParts
  <1>5. BucketsTyped'
    <2>1. ASSUME NEW k \in DOMAIN buckets
          PROVE  buckets[k] \in [tokens : Nat, last : 0..now', seen : 0..now']
      <3>1. buckets[k] \in [tokens : Nat, last : 0..now, seen : 0..now]
        BY <1>4 DEF BucketsTyped
      <3> QED
        BY <1>3, <3>1
    <2> QED
      BY <1>1, <1>4, <2>1 DEF BucketsTyped
  <1>6. FailuresTyped'
    <2>1. ASSUME NEW ip \in DOMAIN failures
          PROVE  failures[ip] \in [windowStart : 0..now', count : Nat \ {0}]
      <3>1. failures[ip] \in [windowStart : 0..now, count : Nat \ {0}]
        BY <1>4 DEF FailuresTyped
      <3> QED
        BY <1>3, <3>1
    <2> QED
      BY <1>1, <1>4, <2>1 DEF FailuresTyped
  <1>7. LoginsTyped'
    <2>1. ASSUME NEW k \in DOMAIN logins
          PROVE  logins[k] \in [failures : Nat \ {0}, windowStart : 0..now',
                                lockedUntil : 0..(now' + LockMax)]
      <3>1. logins[k] \in [failures : Nat \ {0}, windowStart : 0..now, lockedUntil : 0..(now + LockMax)]
        BY <1>4 DEF LoginsTyped
      <3> QED
        BY <1>3, <3>1
    <2> QED
      BY <1>1, <1>4, <2>1 DEF LoginsTyped
  <1>8. WindowsTyped'
    <2>1. ASSUME NEW u \in DOMAIN windows
          PROVE  windows[u] \in [start : 0..now', hits : Nat \ {0}]
      <3>1. windows[u] \in [start : 0..now, hits : Nat \ {0}]
        BY <1>4 DEF WindowsTyped
      <3> QED
        BY <1>3, <3>1
    <2> QED
      BY <1>1, <1>4, <2>1 DEF WindowsTyped
  <1>9. RecordsTyped'
    BY <1>1, <1>4 DEF RecordsTyped
  <1>10. NothingAhead'
    <2>1. \A t \in Ticks : t > now' => t > now
      BY <1>1, <1>2 DEF Ticks
    <2> QED
      BY <1>1, <2>1 DEF NothingAhead
  <1> QED
    BY <1>3, <1>5, <1>6, <1>7, <1>8, <1>9, <1>10

\* A wrong room code recorded, in a map that may shed others for it.
LEMMA FailureRecorded ==
    ASSUME LimitsTypeOK, RequestsTyped, IsFiniteSet(DOMAIN failures),
           NEW r \in Requests, RecordBadCode(r)
    PROVE  FailuresTyped' /\ IsFiniteSet(DOMAIN failures')
  <1> DEFINE ip == request[r].ip
             kept == FailuresKept(ip)
             tracked == ip \in kept \/ Cardinality(kept) < MaxKeys
  <1>1. /\ request[r].pc = "badcode" /\ now' = now
        /\ failures' = IF tracked THEN Put(failures, kept, ip, FailureCounted(ip))
                                  ELSE Restrict(failures, kept)
    BY DEF RecordBadCode
  <1>2. ip \in Addresses
    BY <1>1, RequestRow, RowFields
  <1>3. kept \subseteq DOMAIN failures
    BY DEF FailuresKept
  <1>4. /\ IsFiniteSet(kept) /\ Cardinality(kept) \in Nat /\ Cardinality(DOMAIN failures) \in Nat
        /\ Cardinality(kept) <= Cardinality(DOMAIN failures)
    <2> HIDE DEF kept
    <2> QED
      BY <1>3, FS_Subset, FS_CardinalityType
  <1>5. DOMAIN failures \subseteq Addresses /\ Cardinality(DOMAIN failures) <= MaxKeys
    BY TypeParts DEF FailuresTyped
  <1>6. \A x \in DOMAIN failures : failures[x] \in [windowStart : 0..now, count : Nat \ {0}]
    BY TypeParts DEF FailuresTyped
  <1>7. FailureCounted(ip) \in [windowStart : 0..now, count : Nat \ {0}]
    <2>1. now \in 0..now
      BY Parameters DEF LimitsTypeOK, Ticks
    <2>2. ASSUME ip \in DOMAIN failures
          PROVE  [failures[ip] EXCEPT !.count = @ + 1] \in [windowStart : 0..now, count : Nat \ {0}]
      BY <1>6, <2>2
    <2> QED
      BY <2>1, <2>2 DEF FailureCounted
  <1> HIDE DEF kept, ip
  <1>8. CASE tracked
    <2>1. DOMAIN failures' = kept \cup {ip}
      BY <1>1, <1>8 DEF Put
    <2>2. \A x \in DOMAIN failures' : failures'[x] \in [windowStart : 0..now, count : Nat \ {0}]
      BY <1>1, <1>3, <1>6, <1>7, <1>8 DEF Put
    <2>3. IsFiniteSet(kept \cup {ip}) /\ Cardinality(kept \cup {ip}) <= MaxKeys
      <3>1. CASE ip \in kept
        <4>1. kept \cup {ip} = kept
          BY <3>1
        <4>2. Cardinality(kept) <= MaxKeys
          BY <1>4, <1>5, Parameters
        <4> QED
          BY <1>4, <4>1, <4>2
      <3>2. CASE ip \notin kept
        <4>1. IsFiniteSet(kept \cup {ip}) /\ Cardinality(kept \cup {ip}) = Cardinality(kept) + 1
          BY <1>4, <3>2, FS_AddElement
        <4> QED
          BY <1>4, <1>8, <3>2, <4>1, Parameters
      <3> QED
        BY <3>1, <3>2
    <2> QED
      BY <1>1, <1>2, <1>3, <1>5, <2>1, <2>2, <2>3 DEF FailuresTyped
  <1>9. CASE ~tracked
    <2>1. DOMAIN failures' = kept /\ \A x \in kept : failures'[x] = failures[x]
      BY <1>1, <1>9 DEF Restrict
    <2>2. Cardinality(kept) <= MaxKeys
      BY <1>4, <1>5, Parameters
    <2> QED
      BY <1>1, <1>3, <1>4, <1>5, <1>6, <2>1, <2>2 DEF FailuresTyped
  <1> QED
    BY <1>8, <1>9

\* A failed login recorded under both of its keys.
LEMMA LoginRecorded ==
    ASSUME LimitsTypeOK, RequestsTyped, NEW r \in Requests, RecordFailure(r)
    PROVE  LoginsTyped'
  <1> DEFINE mine == KeysFor(request[r])
  <1>1. /\ request[r].pc = "failure" /\ now' = now
        /\ logins' = [k \in DOMAIN logins \cup mine |->
                         IF k \in mine THEN RecordLocked(k) ELSE logins[k]]
    BY DEF RecordFailure, KeysOf, KeysFor
  <1>2. mine \subseteq LoginKeys
    <2>1. RowTyped(request[r]) /\ request[r].kind = "login"
      BY <1>1, RequestRow DEF RowTyped
    <2> QED
      BY <2>1, RowFields
  <1> HIDE DEF mine
  <1>3. \A k \in DOMAIN logins :
           logins[k] \in [failures : Nat \ {0}, windowStart : 0..now, lockedUntil : 0..(now + LockMax)]
    BY TypeParts DEF LoginsTyped
  <1>4. \A k \in mine :
           RecordLocked(k) \in [failures : Nat \ {0}, windowStart : 0..now,
                                lockedUntil : 0..(now + LockMax)]
    BY <1>2, LockedEntry
  <1>5. DOMAIN logins' \subseteq LoginKeys
    BY <1>1, <1>2, TypeParts DEF LoginsTyped
  <1>6. \A k \in DOMAIN logins' :
           logins'[k] \in [failures : Nat \ {0}, windowStart : 0..now, lockedUntil : 0..(now + LockMax)]
    BY <1>1, <1>3, <1>4
  <1> QED
    BY <1>1, <1>5, <1>6 DEF LoginsTyped

\* A tap in the window of its user.
LEMMA TapRecorded ==
    ASSUME LimitsTypeOK, RequestsTyped, NEW r \in Requests, Tap(r)
    PROVE  WindowsTyped' /\ \E allowed \in BOOLEAN : Pass(r, allowed)
  <1> DEFINE u == request[r].who
             open == u \in DOMAIN windows /\ now < windows[u].start + TapWindow
             entry == IF open THEN [windows[u] EXCEPT !.hits = @ + 1]
                              ELSE [start |-> now, hits |-> 1]
             allowed == entry.hits <= TapMax
  <1>1. /\ AtGate(r, "tap") /\ now' = now /\ windows' = Put(windows, DOMAIN windows, u, entry)
        /\ Pass(r, allowed)
    BY DEF Tap
  <1>2. allowed \in BOOLEAN
    OBVIOUS
  <1>3. u \in Accounts
    <2> HIDE DEF allowed
    <2>1. RowTyped(request[r]) /\ request[r].kind = "tap"
      BY <1>1, <1>2, PassMoves
    <2> QED
      BY <2>1, RowFields DEF About
  <1>4. /\ DOMAIN windows \subseteq Accounts
        /\ \A x \in DOMAIN windows : windows[x] \in [start : 0..now, hits : Nat \ {0}]
    BY TypeParts DEF WindowsTyped
  <1>5. entry \in [start : 0..now, hits : Nat \ {0}]
    <2>1. now \in 0..now
      BY Parameters DEF LimitsTypeOK, Ticks
    <2>2. ASSUME u \in DOMAIN windows
          PROVE  [windows[u] EXCEPT !.hits = @ + 1] \in [start : 0..now, hits : Nat \ {0}]
      BY <1>4, <2>2
    <2> QED
      BY <2>1, <2>2
  <1> HIDE DEF entry, u
  <1>6. WindowsTyped'
    BY <1>1, <1>3, <1>4, <1>5 DEF WindowsTyped, Put
  <1> QED
    BY <1>1, <1>2, <1>6

-----------------------------------------------------------------------------
(* The steps.                                                              *)

\* Initially nothing is counted and no request is under way.
LEMMA InitRInv == LimitsInit => RInv
  <1> SUFFICES ASSUME LimitsInit PROVE RInv
    OBVIOUS
  <1>1. /\ workload \in Workloads /\ now = 0
        /\ buckets = <<>> /\ failures = <<>> /\ logins = <<>> /\ windows = <<>>
        /\ request = [r \in Requests |-> Idle] /\ spent = <<>>
        /\ wrong = [ip \in Addresses |-> Never] /\ guesses = [k \in LoginKeys |-> Never]
    BY DEF LimitsInit
  <1>2. DOMAIN <<>> = {} /\ IsFiniteSet({}) /\ Cardinality({}) = 0
    BY FS_EmptySet
  <1>3. now \in Ticks /\ Never \in Counts /\ \A t \in Ticks : Never[t] = 0
    BY <1>1, Parameters DEF Ticks, Never, Counts
  <1>4. RequestsTyped
    BY <1>1 DEF RequestsTyped
  <1>5. BucketsTyped /\ FailuresTyped /\ LoginsTyped /\ WindowsTyped
    BY <1>1, <1>2, Parameters DEF BucketsTyped, FailuresTyped, LoginsTyped, WindowsTyped
  <1>6. RecordsTyped
    BY <1>1, <1>3 DEF RecordsTyped
  <1>7. LimitsTypeOK
    BY <1>3, <1>4, <1>5, <1>6, TypeParts
  <1>8. NothingAhead
    BY <1>1, <1>3 DEF NothingAhead
  <1>9. BucketsBudgeted /\ IsFiniteSet(DOMAIN failures)
    BY <1>1, <1>2 DEF BucketsBudgeted
  <1>10. CodesCounted
    <2> SUFFICES ASSUME NEW ip \in Addresses PROVE CodesOf(ip)
      BY DEF CodesCounted
    <2>1. ~Tracked(ip)
      BY <1>1, <1>2 DEF Tracked
    <2>2. wrong[ip][now] = 0 /\ Cardinality(Untold(ip)) \in Nat
      BY <1>1, <1>3, RequestSets DEF Untold
    <2> QED
      BY <2>1, <2>2 DEF CodesOf
  <1>11. GuessesCounted
    <2> SUFFICES ASSUME NEW k \in LoginKeys PROVE GuessesOf(k)
      BY DEF GuessesCounted
    <2>1. Fresh(k)
      BY <1>1, <1>2 DEF Fresh
    <2>2. guesses[k][now] = 0 /\ Cardinality(Uncounted(k)) \in Nat
      BY <1>1, <1>3, RequestSets DEF Uncounted
    <2> QED
      BY <2>1, <2>2 DEF GuessesOf
  <1> QED
    BY <1>4, <1>7, <1>8, <1>9, <1>10, <1>11 DEF RInv

\* A gate lets a request through or answers it, and what was counted stays counted.
LEMMA PassKeeps ==
    ASSUME RInv, NEW r \in Requests, NEW gate, NEW allowed \in BOOLEAN,
           AtGate(r, gate), Pass(r, allowed), workload' = workload, now' = now,
           failures' = failures, logins' = logins, wrong' = wrong, guesses' = guesses,
           gate = "badcode" /\ allowed => ~BadCodeBlocked(request[r].ip),
           gate = "guard" /\ allowed => \A k \in KeysOf(r) : ~Locked(k)
    PROVE  RequestsTyped' /\ CodesCounted' /\ GuessesCounted'
  <1>1. LimitsTypeOK /\ RequestsTyped /\ CodesCounted /\ GuessesCounted
    BY DEF RInv
  <1>2. /\ \A ip : ~IsUntold(request[r], ip)
        /\ \A k : ~IsUncounted(request[r], k)
        /\ \E row :
              /\ Moves(r, row) /\ (row = Idle \/ RowTyped(row))
              /\ \A ip : ~IsUntold(row, ip)
              /\ \A ip : IsJoining(row, ip) =>
                    IsJoining(request[r], ip) \/ (allowed /\ gate = "badcode" /\ ip = request[r].ip)
              /\ \A k : ~IsUncounted(row, k)
              /\ \A k : IsTrying(row, k) => allowed /\ gate = "guard" /\ k \in KeysFor(request[r])
    BY <1>1, PassMoves
  <1>3. PICK row :
              /\ Moves(r, row) /\ (row = Idle \/ RowTyped(row))
              /\ \A ip : ~IsUntold(row, ip)
              /\ \A ip : IsJoining(row, ip) =>
                    IsJoining(request[r], ip) \/ (allowed /\ gate = "badcode" /\ ip = request[r].ip)
              /\ \A k : ~IsUncounted(row, k)
              /\ \A k : IsTrying(row, k) => allowed /\ gate = "guard" /\ k \in KeysFor(request[r])
    BY <1>2
  <1>4. RequestsTyped'
    BY <1>1, <1>3, MoveTyped
  <1>5. CodesCounted'
    <2>1. \A ip : IsUntold(row, ip) <=> IsUntold(request[r], ip)
      BY <1>2, <1>3
    <2>2. \A ip : IsJoining(row, ip) => IsJoining(request[r], ip) \/ ~BadCodeBlocked(ip)
      BY <1>3
    <2> QED
      BY <1>1, <1>3, <2>1, <2>2, CodesKept
  <1>6. GuessesCounted'
    <2>1. \A k : IsUncounted(row, k) <=> IsUncounted(request[r], k)
      BY <1>2, <1>3
    <2>2. \A k : IsTrying(row, k) => IsTrying(request[r], k) \/ ~Locked(k)
      BY <1>3 DEF KeysOf, KeysFor
    <2> QED
      BY <1>1, <1>3, <2>1, <2>2, GuessesKept
  <1> QED
    BY <1>4, <1>5, <1>6

\* A request leaves or moves on after its gates, without being past another check.
LEMMA MoveKeeps ==
    ASSUME RInv, NEW r \in Requests, NEW row, Moves(r, row), row = Idle \/ RowTyped(row),
           workload' = workload, now' = now
    PROVE  /\ RequestsTyped'
           /\ /\ failures' = failures /\ wrong' = wrong
              /\ \A ip : IsUntold(row, ip) <=> IsUntold(request[r], ip)
              /\ \A ip : IsJoining(row, ip) => IsJoining(request[r], ip)
              => CodesCounted'
           /\ /\ logins' = logins /\ guesses' = guesses
              /\ \A k : IsUncounted(row, k) <=> IsUncounted(request[r], k)
              /\ \A k : IsTrying(row, k) => IsTrying(request[r], k)
              => GuessesCounted'
  <1>1. LimitsTypeOK /\ RequestsTyped /\ CodesCounted /\ GuessesCounted
    BY DEF RInv
  <1>2. RequestsTyped'
    BY <1>1, MoveTyped
  <1>3. /\ failures' = failures /\ wrong' = wrong
        /\ \A ip : IsUntold(row, ip) <=> IsUntold(request[r], ip)
        /\ \A ip : IsJoining(row, ip) => IsJoining(request[r], ip)
        => CodesCounted'
    BY <1>1, CodesKept
  <1>4. /\ logins' = logins /\ guesses' = guesses
        /\ \A k : IsUncounted(row, k) <=> IsUncounted(request[r], k)
        /\ \A k : IsTrying(row, k) => IsTrying(request[r], k)
        => GuessesCounted'
    BY <1>1, GuessesKept
  <1> QED
    BY <1>2, <1>3, <1>4

\* Every step preserves the invariant.
LEMMA StepRInv == RInv /\ [LimitsNext]_limitVars => RInv'
  <1> SUFFICES ASSUME RInv, [LimitsNext]_limitVars PROVE RInv'
    OBVIOUS
  <1>1. /\ LimitsTypeOK /\ RequestsTyped /\ NothingAhead
        /\ BucketsBudgeted /\ CodesCounted /\ GuessesCounted /\ IsFiniteSet(DOMAIN failures)
    BY DEF RInv
  <1>2. /\ now \in Ticks /\ BucketsTyped /\ FailuresTyped /\ LoginsTyped /\ WindowsTyped
        /\ RecordsTyped
    BY <1>1, TypeParts DEF LimitsTypeOK
  \* What is left to show when the requests and the budgets are shown.
  <1>3. ASSUME now' = now, RequestsTyped', CodesCounted', GuessesCounted',
               BucketsTyped', BucketsBudgeted', FailuresTyped', IsFiniteSet(DOMAIN failures'),
               LoginsTyped', WindowsTyped', RecordsTyped', NothingAhead'
        PROVE  RInv'
    <2>1. (now \in Ticks)'
      BY <1>2, <1>3
    <2>2. LimitsTypeOK'
      BY <1>3, <2>1, TypeParts, PTL
    <2> QED
      BY <1>3, <2>2 DEF RInv
  <1>4. ASSUME NEW r \in Requests, Arrive(r) PROVE RInv'
    <2>1. UNCHANGED <<workload, now, buckets, failures, logins, windows, spent, wrong, guesses>>
      BY <1>4 DEF Arrive, counters, record
    <2>2. /\ request[r] = Idle
          /\ \E row : /\ Moves(r, row) /\ RowTyped(row)
                      /\ \A ip : ~IsUntold(row, ip) /\ ~IsJoining(row, ip)
                      /\ \A k : ~IsUncounted(row, k) /\ ~IsTrying(row, k)
      BY <1>1, <1>4, ArriveMoves
    <2>3. PICK row : /\ Moves(r, row) /\ RowTyped(row)
                     /\ \A ip : ~IsUntold(row, ip) /\ ~IsJoining(row, ip)
                     /\ \A k : ~IsUncounted(row, k) /\ ~IsTrying(row, k)
      BY <2>2
    <2>4. RequestsTyped' /\ CodesCounted' /\ GuessesCounted'
      BY <2>1, <2>2, <2>3, IdleRow, MoveKeeps
    <2> QED
      BY <1>1, <1>2, <1>3, <2>1, <2>4, TypesKept
  <1>5. ASSUME NEW r \in Requests, CheckBucket(r) PROVE RInv'
    <2>1. UNCHANGED <<workload, now, failures, logins, windows, wrong, guesses>>
      BY <1>5 DEF CheckBucket
    <2> DEFINE key == Head(request[r].gates).key
               rule == Rule[Head(request[r].gates).rule]
               allowed == Refill(key, rule) >= rule.window
    <2>2. AtGate(r, "bucket") /\ Pass(r, allowed) /\ allowed \in BOOLEAN
      <3>1. allowed \in BOOLEAN
        OBVIOUS
      <3>2. AtGate(r, "bucket")
        BY <1>5 DEF CheckBucket
      <3>3. Pass(r, allowed)
        BY <1>5, Zenon DEF CheckBucket
      <3> QED
        BY <3>1, <3>2, <3>3
    <2> HIDE DEF allowed
    <2>3. RequestsTyped' /\ CodesCounted' /\ GuessesCounted'
      BY <2>1, <2>2, PassKeeps
    <2>4. BucketsBudgeted' /\ BucketsTyped'
      BY <1>1, <1>5, <2>1, BucketStep DEF BucketsTyped
    <2> QED
      BY <1>1, <1>2, <1>3, <2>1, <2>3, <2>4, TypesKept
  <1>6. ASSUME NEW r \in Requests, CheckBadCode(r) PROVE RInv'
    <2>1. /\ AtGate(r, "badcode") /\ Pass(r, ~BadCodeBlocked(request[r].ip))
          /\ UNCHANGED <<workload, now, buckets, failures, logins, windows, spent, wrong, guesses>>
      BY <1>6 DEF CheckBadCode, counters, record
    <2> DEFINE allowed == ~BadCodeBlocked(request[r].ip)
    <2>2. allowed \in BOOLEAN /\ (allowed => ~BadCodeBlocked(request[r].ip)) /\ Pass(r, allowed)
      BY <2>1
    <2> HIDE DEF allowed
    <2>3. RequestsTyped' /\ CodesCounted' /\ GuessesCounted'
      BY <2>1, <2>2, PassKeeps
    <2> QED
      BY <1>1, <1>2, <1>3, <2>1, <2>3, TypesKept
  <1>7. ASSUME NEW r \in Requests, AnswerJoin(r) PROVE RInv'
    <2>1. /\ request[r].pc = "gates" /\ request[r].gates = <<>> /\ request[r].kind = "join"
          /\ UNCHANGED <<workload, now, buckets, failures, logins, windows, spent, guesses>>
      BY <1>7 DEF AnswerJoin, counters
    <2>2. RowTyped(request[r]) /\ request[r].ip \in Addresses /\ request[r] # Idle
      BY <1>1, <2>1, RequestRow, RowFields
    <2>3. CASE request[r].who \in LiveCodes
      <3>1. Moves(r, Idle) /\ wrong' = wrong
        BY <1>7, <2>3 DEF AnswerJoin, Moves
      <3>2. /\ \A ip : ~IsUntold(request[r], ip)
            /\ \A k : ~IsUncounted(request[r], k)
        BY <2>1 DEF IsUntold, IsUncounted
      <3>3. RequestsTyped' /\ CodesCounted' /\ GuessesCounted'
        BY <2>1, <3>1, <3>2, IdleRow, MoveKeeps
      <3> QED
        BY <1>1, <1>2, <1>3, <2>1, <3>1, <3>3, TypesKept
    <2>4. CASE request[r].who \notin LiveCodes
      <3> DEFINE row == [request[r] EXCEPT !.pc = "badcode"]
      <3>1. Moves(r, row)
        BY <1>7, <2>4 DEF AnswerJoin, Moves
      <3>2. wrong' = [ip \in Addresses |->
                IF ip = request[r].ip THEN Plus(wrong[ip], now, 1) ELSE wrong[ip]]
        BY <1>7, <2>4 DEF AnswerJoin
      <3>3. /\ RowTyped(row) /\ row.pc = "badcode" /\ row.ip = request[r].ip
            /\ row.kind = request[r].kind /\ row.gates = request[r].gates
            /\ KeysFor(row) = KeysFor(request[r])
        BY <2>1, <2>2, StageRow
      <3> HIDE DEF row
      <3>4. row # Idle
        BY <3>3, RowFields
      <3>5. /\ \A ip : ~IsUntold(request[r], ip)
            /\ \A ip : IsUntold(row, ip) <=> ip = request[r].ip
            /\ \A ip : IsJoining(row, ip) => IsJoining(request[r], ip)
        BY <2>1, <2>2, <3>3, <3>4 DEF IsUntold, IsJoining
      <3>6. CodesCounted'
        BY <1>1, <2>1, <2>2, <3>1, <3>2, <3>5, CodesTold
      <3>7. RequestsTyped' /\ GuessesCounted'
        <4>1. /\ \A k : IsUncounted(row, k) <=> IsUncounted(request[r], k)
              /\ \A k : IsTrying(row, k) => IsTrying(request[r], k)
          BY <2>1, <3>3 DEF IsUncounted, IsTrying
        <4> QED
          BY <2>1, <3>1, <3>3, <4>1, MoveKeeps
      <3>8. RecordsTyped' /\ NothingAhead'
        <4>1. ASSUME NEW ip \in Addresses
              PROVE  /\ wrong'[ip] \in Counts
                     /\ \A t \in Ticks : t > now => wrong'[ip][t] = wrong[ip][t]
          <5>1. wrong[ip] \in Counts /\ now \in Nat /\ now \in Ticks
            BY <1>1, FailureTypes
          <5>2. Plus(wrong[ip], now, 1) \in Counts
            BY <5>1 DEF Plus, Counts
          <5>3. \A t \in Ticks : t > now => Plus(wrong[ip], now, 1)[t] = wrong[ip][t]
            BY <5>1 DEF Plus, Counts
          <5> QED
            BY <3>2, <5>1, <5>2, <5>3
        <4>2. DOMAIN wrong' = Addresses /\ wrong' \in [Addresses -> Counts]
          BY <3>2, <4>1
        <4>3. RecordsTyped'
          BY <1>2, <2>1, <4>2 DEF RecordsTyped
        <4>4. NothingAhead'
          BY <1>1, <2>1, <4>1 DEF NothingAhead
        <4> QED
          BY <4>3, <4>4
      <3> QED
        BY <1>1, <1>2, <1>3, <2>1, <3>6, <3>7, <3>8, TypesKept
    <2> QED
      BY <2>3, <2>4
  <1>8. ASSUME NEW r \in Requests, RecordBadCode(r) PROVE RInv'
    <2>1. /\ request[r].pc = "badcode" /\ Moves(r, Idle)
          /\ UNCHANGED <<workload, now, buckets, logins, windows, spent, wrong, guesses>>
      BY <1>8 DEF RecordBadCode, Moves, record
    <2>2. CodesCounted'
      BY <1>1, <1>8, CodesRecorded
    <2>3. RequestsTyped' /\ GuessesCounted'
      <3>1. /\ \A k : IsUncounted(Idle, k) <=> IsUncounted(request[r], k)
            /\ \A k : IsTrying(Idle, k) => IsTrying(request[r], k)
        BY <2>1, IdleRow DEF IsUncounted
      <3> QED
        BY <2>1, <3>1, MoveKeeps
    <2>4. FailuresTyped' /\ IsFiniteSet(DOMAIN failures')
      BY <1>1, <1>8, FailureRecorded
    <2> QED
      BY <1>1, <1>2, <1>3, <2>1, <2>2, <2>3, <2>4, TypesKept
  <1>9. ASSUME NEW r \in Requests, CheckGuard(r) PROVE RInv'
    <2>1. /\ AtGate(r, "guard") /\ Pass(r, \A k \in KeysOf(r) : ~Locked(k))
          /\ UNCHANGED <<workload, now, buckets, failures, logins, windows, spent, wrong, guesses>>
      BY <1>9 DEF CheckGuard, counters, record
    <2> DEFINE allowed == \A k \in KeysOf(r) : ~Locked(k)
    <2>2. allowed \in BOOLEAN /\ (allowed => \A k \in KeysOf(r) : ~Locked(k)) /\ Pass(r, allowed)
      BY <2>1
    <2> HIDE DEF allowed
    <2>3. RequestsTyped' /\ CodesCounted' /\ GuessesCounted'
      BY <2>1, <2>2, PassKeeps
    <2> QED
      BY <1>1, <1>2, <1>3, <2>1, <2>3, TypesKept
  <1>10. ASSUME NEW r \in Requests, Verify(r) PROVE RInv'
    <2>1. /\ request[r].pc = "gates" /\ request[r].gates = <<>> /\ request[r].kind = "login"
          /\ UNCHANGED <<workload, now, buckets, failures, logins, windows, spent, wrong>>
      BY <1>10 DEF Verify, counters
    <2>2. RowTyped(request[r]) /\ request[r] # Idle /\ KeysFor(request[r]) \subseteq LoginKeys
      BY <1>1, <2>1, RequestRow, RowFields
    <2>3. PICK pc \in {"success", "failure"} :
             /\ Moves(r, [request[r] EXCEPT !.pc = pc])
             /\ IF pc = "success" THEN guesses' = guesses
                ELSE guesses' = [k \in LoginKeys |->
                        IF k \in KeysFor(request[r]) THEN Plus(guesses[k], now, 1) ELSE guesses[k]]
      <3>1. CASE request' = [request EXCEPT ![r].pc = "success"] /\ UNCHANGED guesses
        BY <3>1 DEF Moves
      <3>2. CASE /\ request' = [request EXCEPT ![r].pc = "failure"]
                 /\ guesses' = [k \in LoginKeys |->
                        IF k \in KeysOf(r) THEN Plus(guesses[k], now, 1) ELSE guesses[k]]
        <4>1. Moves(r, [request[r] EXCEPT !.pc = "failure"])
          BY <3>2 DEF Moves
        <4> QED
          BY <3>2, <4>1 DEF KeysOf, KeysFor
      <3> QED
        BY <1>10, <3>1, <3>2 DEF Verify
    <2> DEFINE row == [request[r] EXCEPT !.pc = pc]
    <2>4. /\ RowTyped(row) /\ row.pc = pc /\ row.ip = request[r].ip
          /\ row.kind = request[r].kind /\ row.gates = request[r].gates
          /\ KeysFor(row) = KeysFor(request[r])
      <3>1. pc \in {"badcode", "failure", "success"} /\ pc # "badcode"
        OBVIOUS
      <3> QED
        BY <2>1, <2>2, <3>1, StageRow
    <2>5. Moves(r, row)
      BY <2>3
    <2> HIDE DEF row
    <2>6. row # Idle
      BY <2>4, RowFields
    <2>7. /\ \A k : ~IsUncounted(request[r], k)
          /\ \A k : IsUncounted(row, k) <=> pc = "failure" /\ k \in KeysFor(request[r])
          /\ \A k : IsTrying(row, k) => IsTrying(request[r], k)
      BY <2>1, <2>2, <2>4, <2>6 DEF IsUncounted, IsTrying
    <2>8. RequestsTyped' /\ CodesCounted'
      <3>1. /\ \A ip : IsUntold(row, ip) <=> IsUntold(request[r], ip)
            /\ \A ip : IsJoining(row, ip) => IsJoining(request[r], ip)
        BY <2>1, <2>4 DEF IsUntold, IsJoining
      <3> QED
        BY <2>1, <2>4, <2>5, <3>1, MoveKeeps
    <2>9. CASE pc = "success"
      <3>1. guesses' = guesses
        BY <2>3, <2>9
      <3>2. GuessesCounted'
        BY <2>1, <2>4, <2>5, <2>7, <2>9, <3>1, MoveKeeps
      <3> QED
        BY <1>1, <1>2, <1>3, <2>1, <2>8, <3>1, <3>2, TypesKept
    <2>10. CASE pc = "failure"
      <3>1. guesses' = [k \in LoginKeys |->
                IF k \in KeysFor(request[r]) THEN Plus(guesses[k], now, 1) ELSE guesses[k]]
        BY <2>3, <2>10
      <3>2. GuessesCounted'
        BY <1>1, <2>1, <2>5, <2>7, <2>10, <3>1, GuessesTold
      <3>3. RecordsTyped' /\ NothingAhead'
        <4>1. ASSUME NEW k \in LoginKeys
              PROVE  /\ guesses'[k] \in Counts
                     /\ \A t \in Ticks : t > now => guesses'[k][t] = guesses[k][t]
          <5>1. guesses[k] \in Counts /\ now \in Nat /\ now \in Ticks
            BY <1>1, LoginTypes
          <5>2. Plus(guesses[k], now, 1) \in Counts
            BY <5>1 DEF Plus, Counts
          <5>3. \A t \in Ticks : t > now => Plus(guesses[k], now, 1)[t] = guesses[k][t]
            BY <5>1 DEF Plus, Counts
          <5> QED
            BY <3>1, <5>1, <5>2, <5>3
        <4>2. DOMAIN guesses' = LoginKeys /\ guesses' \in [LoginKeys -> Counts]
          BY <3>1, <4>1
        <4>3. RecordsTyped'
          BY <1>2, <2>1, <4>2 DEF RecordsTyped
        <4>4. NothingAhead'
          BY <1>1, <2>1, <4>1 DEF NothingAhead
        <4> QED
          BY <4>3, <4>4
      <3> QED
        BY <1>1, <1>2, <1>3, <2>1, <2>8, <3>2, <3>3, TypesKept
    <2> QED
      BY <2>9, <2>10
  <1>11. ASSUME NEW r \in Requests, RecordFailure(r) PROVE RInv'
    <2>1. /\ request[r].pc = "failure" /\ Moves(r, Idle)
          /\ UNCHANGED <<workload, now, buckets, failures, windows, spent, wrong, guesses>>
      BY <1>11 DEF RecordFailure, Moves, record
    <2>2. GuessesCounted'
      BY <1>1, <1>11, GuessesRecorded
    <2>3. RequestsTyped' /\ CodesCounted'
      <3>1. /\ \A ip : IsUntold(Idle, ip) <=> IsUntold(request[r], ip)
            /\ \A ip : IsJoining(Idle, ip) => IsJoining(request[r], ip)
        BY <2>1, IdleRow DEF IsUntold
      <3> QED
        BY <2>1, <3>1, MoveKeeps
    <2>4. LoginsTyped'
      BY <1>1, <1>11, LoginRecorded
    <2> QED
      BY <1>1, <1>2, <1>3, <2>1, <2>2, <2>3, <2>4, TypesKept
  <1>12. ASSUME NEW r \in Requests, RecordSuccess(r) PROVE RInv'
    <2> DEFINE mine == KeysFor(request[r])
    <2>1. /\ request[r].pc = "success" /\ Moves(r, Idle)
          /\ UNCHANGED <<workload, now, buckets, failures, windows, spent, wrong>>
          /\ logins' = Restrict(logins, DOMAIN logins \ mine)
          /\ guesses' = [k \in LoginKeys |-> IF k \in mine THEN Never ELSE guesses[k]]
      BY <1>12 DEF RecordSuccess, Moves, KeysOf, KeysFor
    <2> HIDE DEF mine
    <2>2. GuessesCounted'
      BY <1>1, <1>12, GuessesForgotten
    <2>3. RequestsTyped' /\ CodesCounted'
      <3>1. /\ \A ip : IsUntold(Idle, ip) <=> IsUntold(request[r], ip)
            /\ \A ip : IsJoining(Idle, ip) => IsJoining(request[r], ip)
        BY <2>1, IdleRow DEF IsUntold
      <3> QED
        BY <2>1, <3>1, MoveKeeps
    <2>4. LoginsTyped'
      <3>1. DOMAIN logins' = DOMAIN logins \ mine /\ \A k \in DOMAIN logins' : logins'[k] = logins[k]
        BY <2>1 DEF Restrict
      <3> QED
        BY <1>2, <2>1, <3>1 DEF LoginsTyped
    <2>5. Never \in Counts /\ \A t \in Ticks : Never[t] = 0
      BY DEF Never, Counts
    <2>6. RecordsTyped' /\ NothingAhead'
      BY <1>1, <1>2, <2>1, <2>5 DEF RecordsTyped, NothingAhead
    <2> QED
      BY <1>1, <1>2, <1>3, <2>1, <2>2, <2>3, <2>4, <2>6, TypesKept
  <1>13. ASSUME NEW r \in Requests, Tap(r) PROVE RInv'
    <2>1. /\ AtGate(r, "tap")
          /\ UNCHANGED <<workload, now, buckets, failures, logins, spent, wrong, guesses>>
      BY <1>13 DEF Tap, record
    <2>2. WindowsTyped' /\ \E allowed \in BOOLEAN : Pass(r, allowed)
      BY <1>1, <1>13, TapRecorded
    <2>3. RequestsTyped' /\ CodesCounted' /\ GuessesCounted'
      BY <2>1, <2>2, PassKeeps
    <2> QED
      BY <1>1, <1>2, <1>3, <2>1, <2>2, <2>3, TypesKept
  <1>14. ASSUME NEW r \in Requests, Answer(r) PROVE RInv'
    <2>1. /\ request[r].pc = "gates" /\ Moves(r, Idle)
          /\ UNCHANGED <<workload, now, buckets, failures, logins, windows, spent, wrong, guesses>>
      BY <1>14 DEF Answer, Moves, counters, record
    <2>2. /\ \A ip : ~IsUntold(request[r], ip)
          /\ \A k : ~IsUncounted(request[r], k)
      BY <2>1 DEF IsUntold, IsUncounted
    <2>3. RequestsTyped' /\ CodesCounted' /\ GuessesCounted'
      BY <2>1, <2>2, IdleRow, MoveKeeps
    <2> QED
      BY <1>1, <1>2, <1>3, <2>1, <2>3, TypesKept
  <1>15. CASE Tick
    <2>1. UNCHANGED <<workload, request, buckets, spent, failures>>
      BY <1>15 DEF Tick, counters, record
    <2>2. /\ now' \in Ticks /\ BucketsTyped' /\ FailuresTyped' /\ LoginsTyped' /\ WindowsTyped'
          /\ RecordsTyped' /\ NothingAhead'
      BY <1>1, <1>15, TypesTicked
    <2>3. CodesCounted' /\ GuessesCounted'
      BY <1>1, <1>15, CodesTicked, GuessesTicked
    <2>4. RequestsTyped'
      BY <1>1, <2>1 DEF RequestsTyped
    <2>5. BucketsBudgeted' /\ IsFiniteSet(DOMAIN failures)'
      BY <1>1, <2>1 DEF BucketsBudgeted
    <2>6. LimitsTypeOK'
      <3>1. (now \in Ticks)'
        BY <2>2
      <3> QED
        BY <2>2, <2>4, <3>1, TypeParts, PTL
    <2> QED
      BY <2>2, <2>3, <2>4, <2>5, <2>6 DEF RInv
  <1>16. CASE UNCHANGED limitVars
    <2>1. UNCHANGED <<workload, now, buckets, failures, logins, windows, request, spent, wrong, guesses>>
      BY <1>16 DEF limitVars
    <2>2. RequestsTyped'
      BY <1>1, <2>1 DEF RequestsTyped
    <2>3. CodesCounted'
      BY <1>1, <2>1 DEF CodesCounted, CodesOf, Tracked, TrackingFull, Untold, Joining
    <2>4. GuessesCounted'
      BY <1>1, <2>1 DEF GuessesCounted, GuessesOf, Fresh, Uncounted, Trying
    <2> QED
      BY <1>1, <1>2, <1>3, <2>1, <2>2, <2>3, <2>4, TypesKept
  <1> QED
    BY <1>4, <1>5, <1>6, <1>7, <1>8, <1>9, <1>10, <1>11, <1>12, <1>13, <1>14, <1>15, <1>16
    DEF LimitsNext

\* The counters, the gates and what they let through agree in every reachable state.
THEOREM RInvHolds == LimitsSpec => []RInv
  <1> QED
    BY InitRInv, StepRInv, PTL DEF LimitsSpec

-----------------------------------------------------------------------------
(* What the invariant implies.                                             *)

\* The maps hold well-formed entries no later than the clock, and the bounded
\* ones stay within MaxKeys, whatever keys clients present.
THEOREM LimitsTypeCorrect == LimitsSpec => []LimitsTypeOK
  <1>1. RInv => LimitsTypeOK
    BY DEF RInv
  <1> QED
    BY <1>1, RInvHolds, PTL

\* A bucket lets through, between any two moments, at most its burst and what
\* its rate refills in between, as long as it is not evicted.
THEOREM BucketsWithinBudget == LimitsSpec => []BucketBudget
  <1>1. RInv => BucketBudget
    <2> SUFFICES ASSUME RInv PROVE BucketBudget
      OBVIOUS
    <2>1. LimitsTypeOK /\ BucketsTyped /\ BucketsBudgeted
      BY TypeParts DEF RInv
    <2> SUFFICES ASSUME NEW k \in DOMAIN spent, NEW from \in 0..now, NEW to \in 0..now, from <= to
                 PROVE  Total(spent[k], from, to) * Rule[k[1]].window
                            <= Rule[k[1]].burst * Rule[k[1]].window + (to - from) * Rule[k[1]].limit
      BY <2>1 DEF BucketBudget
    <2>2. k \in DOMAIN buckets /\ spent[k] \in Counts /\ Budget(spent[k], buckets[k], Rule[k[1]])
      BY <2>1 DEF BucketsTyped, BucketsBudgeted, Counts
    <2>3. now \in Nat /\ now <= MaxTime
      BY <2>1, Parameters DEF LimitsTypeOK, Ticks
    <2>4. /\ buckets[k].last \in Nat /\ buckets[k].last <= MaxTime /\ buckets[k].tokens \in Nat
      <3>1. buckets[k] \in [tokens : Nat, last : 0..now, seen : 0..now]
        BY <2>1, <2>2 DEF BucketsTyped
      <3>2. buckets[k].last \in 0..now /\ buckets[k].tokens \in Nat
        BY <3>1
      <3> QED
        BY <2>3, <3>2, Parameters
    <2>5. Rule[k[1]] \in Rules
      <3>1. k[1] \in RuleNames
        BY <2>1, <2>2 DEF BucketsBudgeted
      <3> QED
        BY <3>1, LimitConstants DEF Rules
    <2>6. from \in Nat /\ to \in Nat /\ to <= MaxTime
      BY <2>3, Parameters
    <2> QED
      BY <2>2, <2>4, <2>5, <2>6, BudgetBetween
  <1> QED
    BY <1>1, RInvHolds, PTL

\* An address in its window learns of at most BadCodeLimit wrong codes and one
\* more for each other request.
LEMMA CodesBounded == RInv => WrongCodesBounded
  <1> SUFFICES ASSUME RInv, NEW ip \in DOMAIN failures, now - failures[ip].windowStart < BadCodeWindow
               PROVE  Total(wrong[ip], failures[ip].windowStart, now)
                          <= BadCodeLimit + Cardinality(Requests) - 1
    BY DEF WrongCodesBounded
  <1>1. LimitsTypeOK /\ RequestsTyped /\ CodesCounted /\ ip \in Addresses
    BY DEF RInv, LimitsTypeOK
  <1>2. Tracked(ip) /\ CodesOf(ip)
    BY <1>1 DEF Tracked, CodesCounted
  <1>3. /\ Total(wrong[ip], failures[ip].windowStart, now)
               <= failures[ip].count + Cardinality(Untold(ip))
        /\ failures[ip].count + Cardinality(Joining(ip)) <= BadCodeLimit - 1 + Cardinality(Requests)
    BY <1>2 DEF CodesOf
  <1>4. Untold(ip) \subseteq Joining(ip)
    <2> SUFFICES ASSUME NEW r \in Requests, IsUntold(request[r], ip) PROVE IsJoining(request[r], ip)
      BY DEF Untold, Joining
    <2>1. request[r] # Idle /\ request[r].pc = "badcode" /\ request[r].ip = ip
      BY DEF IsUntold
    <2>2. request[r].kind = "join" /\ request[r].gates = <<>>
      BY <1>1, <2>1, RequestRow DEF RowTyped
    <2> QED
      BY <2>1, <2>2 DEF IsJoining
  <1>5. /\ Cardinality(Untold(ip)) <= Cardinality(Joining(ip))
        /\ Cardinality(Untold(ip)) \in Nat /\ Cardinality(Joining(ip)) \in Nat
    <2>1. Untold(ip) \in SUBSET Requests /\ Joining(ip) \in SUBSET Requests
      BY DEF Untold, Joining
    <2> QED
      BY <1>4, <2>1, RequestSets
  <1>6. failures[ip].count \in Nat /\ Total(wrong[ip], failures[ip].windowStart, now) \in Nat
    <2>1. now \in Nat /\ now <= MaxTime /\ wrong[ip] \in Counts
      BY <1>1, FailureTypes
    <2>2. failures[ip].windowStart \in Nat /\ failures[ip].count \in Nat \ {0}
      BY <1>1, <1>2, FailureTypes DEF Tracked
    <2> QED
      BY <2>1, <2>2, TotalType
  <1> QED
    BY <1>3, <1>5, <1>6, Parameters

\* A lock that has run out m times inside the window did so at m of the numbers
\* Unlocks counts.
LEMMA EpochUnlocks ==
    ASSUME NEW k, NEW m \in Nat, BaseLock(k) * (2^m - 1) < LoginWindow
    PROVE  m <= Unlocks(k) /\ Unlocks(k) \in Nat
  <1> DEFINE U == {n \in 1..LoginWindow : BaseLock(k) * (2^n - 1) < LoginWindow}
             b == BaseLock(k)
  <1>1. LoginWindow \in Nat /\ b \in Nat \ {0}
    BY Parameters
  <1>2. IsFiniteSet(U) /\ IsFiniteSet(1..m) /\ Cardinality(1..m) = m
    <2>1. IsFiniteSet(1..LoginWindow) /\ U \subseteq 1..LoginWindow
      BY <1>1, FS_Interval
    <2>2. IsFiniteSet(1..m) /\ Cardinality(1..m) = m
      BY FS_Interval
    <2> HIDE DEF U
    <2> QED
      BY <2>1, <2>2, FS_Subset
  <1>3. ASSUME NEW n \in 1..m PROVE n \in U
    <2> DEFINE p == 2^m
               q == 2^n
    <2>1. n \in Nat \ {0} /\ n <= m
      OBVIOUS
    <2>2. p \in Nat /\ q \in Nat /\ q <= p /\ n + 1 <= q
      <3>1. 2^n \in Nat /\ 2^m \in Nat
        BY <2>1, PowerType
      <3>2. 2^n <= 2^m /\ n + 1 <= 2^n
        <4>1. n \in Nat /\ n <= m /\ n <= n
          BY <2>1
        <4>2. 2^n <= 2^m
          BY <4>1, PowerGrows
        <4>3. n + 1 <= 2^n
          BY <4>1, PowerGrows
        <4> QED
          BY <4>2, <4>3
      <3> QED
        BY <3>1, <3>2
    <2>3. b * (p - 1) < LoginWindow
      OBVIOUS
    <2> HIDE DEF b, p, q, U
    <2>4. /\ q - 1 \in Nat /\ p - 1 \in Nat /\ q - 1 <= p - 1 /\ n <= q - 1
      BY <2>1, <2>2
    <2>5. b * (q - 1) <= b * (p - 1) /\ q - 1 <= b * (q - 1)
      BY <1>1, <2>4
    <2>6. b * (q - 1) \in Nat /\ b * (p - 1) \in Nat
      BY <1>1, <2>4
    <2>7. b * (q - 1) < LoginWindow /\ n <= LoginWindow
      BY <1>1, <2>1, <2>3, <2>4, <2>5, <2>6
    <2> QED
      BY <1>1, <2>1, <2>7 DEF U, b, q
  <1>4. 1..m \subseteq U /\ Unlocks(k) = Cardinality(U)
    BY <1>3 DEF Unlocks
  <1> HIDE DEF U
  <1>5. Cardinality(1..m) <= Cardinality(U) /\ Cardinality(U) \in Nat
    BY <1>2, <1>4, FS_Subset, FS_CardinalityType
  <1> QED
    BY <1>2, <1>4, <1>5

\* The passwords tried under a login key in its window since the last success
\* are bounded by its limit and the times its lock can run out.
LEMMA TriesBounded == RInv => GuessesBounded
  <1> SUFFICES ASSUME RInv, NEW k \in DOMAIN logins, now - logins[k].windowStart < LoginWindow
               PROVE  Total(guesses[k], logins[k].windowStart, now)
                          <= LimitOf(k) - 1 + Cardinality(Requests) * (1 + Unlocks(k))
    BY DEF GuessesBounded
  <1>1. LimitsTypeOK /\ RequestsTyped /\ GuessesCounted /\ k \in LoginKeys
    BY DEF RInv, LimitsTypeOK
  <1>2. /\ logins[k].windowStart \in Nat /\ logins[k].windowStart <= now /\ now \in Nat
        /\ now <= MaxTime /\ guesses[k] \in Counts /\ logins[k].failures \in Nat
    BY <1>1, LoginTypes
  <1>3. ~Fresh(k)
    BY <1>2, Parameters DEF Fresh
  <1>4. Total(guesses[k], logins[k].windowStart, now) <= logins[k].failures + Cardinality(Uncounted(k))
    BY <1>1, <1>3 DEF GuessesCounted, GuessesOf
  <1>5. PICK m \in Nat : Epoch(logins[k], now, Cardinality(Trying(k)), k, m)
    BY <1>1, <1>3 DEF GuessesCounted, GuessesOf
  <1>6. Uncounted(k) \subseteq Trying(k)
    <2> SUFFICES ASSUME NEW r \in Requests, IsUncounted(request[r], k) PROVE IsTrying(request[r], k)
      BY DEF Uncounted, Trying
    <2>1. request[r] # Idle /\ request[r].pc = "failure" /\ k \in KeysFor(request[r])
      BY DEF IsUncounted
    <2>2. request[r].kind = "login" /\ request[r].gates = <<>>
      BY <1>1, <2>1, RequestRow DEF RowTyped
    <2> QED
      BY <2>1, <2>2 DEF IsTrying
  <1>7. /\ Cardinality(Uncounted(k)) <= Cardinality(Trying(k))
        /\ Cardinality(Uncounted(k)) \in Nat /\ Cardinality(Trying(k)) \in Nat
    <2>1. Uncounted(k) \in SUBSET Requests /\ Trying(k) \in SUBSET Requests
      BY DEF Uncounted, Trying
    <2> QED
      BY <1>6, <2>1, RequestSets
  <1>8. m <= Unlocks(k) /\ Unlocks(k) \in Nat
    <2>1. BaseLock(k) * (2^m - 1) <= now - logins[k].windowStart /\ BaseLock(k) * (2^m - 1) \in Nat
      BY <1>5, EpochNumbers DEF Epoch
    <2>2. BaseLock(k) * (2^m - 1) < LoginWindow
      BY <1>2, <2>1, Parameters
    <2> QED
      BY <2>2, EpochUnlocks
  <1> DEFINE R == Cardinality(Requests)
             U == Unlocks(k)
             L == LimitOf(k)
             T == Total(guesses[k], logins[k].windowStart, now)
             f == logins[k].failures
  <1>9. R * (1 + m) <= R * (1 + U) /\ R * (1 + m) \in Nat /\ R * (1 + U) \in Nat
    <2>1. R \in Nat /\ m <= U /\ U \in Nat
      BY <1>8, Parameters
    <2> HIDE DEF R, U
    <2>2. 1 + m \in Nat /\ 1 + U \in Nat /\ 1 + m <= 1 + U
      BY <2>1
    <2> QED
      BY <2>1, <2>2
  <1>10. f + Cardinality(Trying(k)) <= L - 1 + R * (1 + m) /\ L \in Nat
    BY <1>5, Parameters DEF Epoch
  <1>11. T \in Nat /\ f \in Nat /\ T <= f + Cardinality(Uncounted(k))
    BY <1>2, <1>4, TotalType
  <1>12. T <= L - 1 + R * (1 + U)
    <2> HIDE DEF R, U, L, T, f
    <2> QED
      BY <1>7, <1>9, <1>10, <1>11
  <1> QED
    BY <1>12

\* Requests in flight add no more than themselves to what may be tried, of room
\* codes from an address and of passwords of an account.
THEOREM AttemptsStayBounded == LimitsSpec => []AttemptsBounded
  <1>1. RInv => AttemptsBounded
    BY CodesBounded, TriesBounded DEF AttemptsBounded
  <1> QED
    BY <1>1, RInvHolds, PTL

\* A request from an address that is no trusted proxy is counted under that
\* address, whatever X-Forwarded-For it brought.
THEOREM RequestsCountedByOrigin == LimitsSpec => []CountedByOrigin
  <1>1. RInv => CountedByOrigin
    BY DEF RInv, RequestsTyped, RowTyped, CountedByOrigin
  <1> QED
    BY <1>1, RInvHolds, PTL

=============================================================================
