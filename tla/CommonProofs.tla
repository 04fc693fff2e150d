----------------------------- MODULE CommonProofs -----------------------------
(***************************************************************************)
(* Lemmas for the proofs about every component.  Numbers: induction and    *)
(* recursion, remainders, places in a ring, and sums.  Sequences without   *)
(* repetition, the lists and queues of the code.  Semaphores.              *)
(*                                                                         *)
(* The library's theorems on induction take an operator for the formula,   *)
(* which cannot be instantiated; these take a set or a function.           *)
(***************************************************************************)
EXTENDS Semaphores, FiniteSets, FiniteSetTheorems, SequenceTheorems, WellFoundedInduction, TLAPS

-------------------------------------------------------------------------------
(* Induction *)

\* A set of numbers has a least one.
LEMMA Least ==
  ASSUME NEW S \in SUBSET Nat, S # {}
  PROVE  \E x \in S : \A y \in S : x <= y
<1>1. PICK x \in S : \A y \in S : ~(<<y, x>> \in OpToRel(<, Nat))
  BY WFMin, NatLessThanWellFounded
<1>2. \A y \in S : ~(y < x)
  BY <1>1 DEF OpToRel
<1> QED
  BY <1>2

\* The places a walk through a list has passed: their number says which they are.
LEMMA PrefixSet ==
  ASSUME NEW L \in Nat, NEW P \in SUBSET (1 .. L), \A i \in P : 1 .. i \subseteq P
  PROVE  Cardinality(P) \in 0 .. L /\ P = 1 .. Cardinality(P)
<1> DEFINE S == (1 .. L + 1) \ P
<1>1. L + 1 \in S /\ S \in SUBSET Nat
  OBVIOUS
<1>2. PICK x \in S : \A y \in S : x <= y
  <2>1. S # {}
    BY <1>1
  <2> HIDE DEF S
  <2> QED
    BY <1>1, <2>1, Least
<1>3. x \in 1 .. L + 1 /\ x \notin P
  OBVIOUS
<1>4. 1 .. x - 1 \subseteq P
  BY <1>2, <1>3
<1>5. \A j \in P : j < x
  <2> SUFFICES ASSUME NEW j \in P, j >= x
               PROVE  FALSE
    BY <1>3
  <2>1. x \in 1 .. j
    BY <1>3
  <2> QED
    BY <2>1, <1>3
<1>6. P = 1 .. x - 1
  <2>1. \A j \in P : j \in 1 .. x - 1
    BY <1>3, <1>5
  <2> QED
    BY <1>4, <2>1
<1>7. Cardinality(1 .. x - 1) = x - 1
  BY <1>3, FS_Interval
<1> QED
  BY <1>3, <1>6, <1>7

\* Induction, with a set for the formula.
LEMMA Induct ==
  ASSUME NEW T, 0 \in T, \A n \in Nat : n \in T => n + 1 \in T
  PROVE  Nat \subseteq T
<1> SUFFICES ASSUME Nat \ T # {}
             PROVE  FALSE
  OBVIOUS
<1> DEFINE S == Nat \ T
<1>1. S \in SUBSET Nat /\ S # {}
  OBVIOUS
<1>2. PICK x \in S : \A y \in S : x <= y
  <2> HIDE DEF S
  <2> QED
    BY <1>1, Least
<1>3. x \in Nat /\ x # 0 /\ x \notin T
  OBVIOUS
<1>4. x - 1 \in Nat /\ ~(x <= x - 1) /\ (x - 1) + 1 = x
  BY <1>3
<1>5. x - 1 \in T
  BY <1>2, <1>4
<1> QED
  BY <1>3, <1>4, <1>5

\* h is what a recursion of L steps computes, step m by the function G[m].
Iterates(h, X, b, G, L) ==
  /\ h \in [0 .. L -> X] /\ h[0] = b
  /\ \A m \in 0 .. L - 1 : h[m + 1] = G[m][h[m]]

\* A recursion of finitely many steps defines a function.
LEMMA Recursion ==
  ASSUME NEW X, NEW b \in X, NEW G \in [Nat -> [X -> X]], NEW L \in Nat
  PROVE  \E h : Iterates(h, X, b, G, L)
<1> DEFINE T == {n \in Nat : \E h : Iterates(h, X, b, G, n)}
<1>1. 0 \in T
  <2>1. Iterates([m \in 0 .. 0 |-> b], X, b, G, 0)
    BY DEF Iterates
  <2> QED
    BY <2>1
<1>2. \A n \in Nat : n \in T => n + 1 \in T
  <2> SUFFICES ASSUME NEW n \in Nat, n \in T
               PROVE  n + 1 \in T
    OBVIOUS
  <2>1. PICK h : Iterates(h, X, b, G, n)
    OBVIOUS
  <2> DEFINE g == [m \in 0 .. n + 1 |-> IF m <= n THEN h[m] ELSE G[n][h[n]]]
  <2>2. g \in [0 .. n + 1 -> X] /\ g[0] = b
    BY <2>1 DEF Iterates
  <2>3. ASSUME NEW m \in 0 .. n
        PROVE  g[m + 1] = G[m][g[m]]
    <3>1. CASE m = n
      BY <3>1
    <3>2. CASE m # n
      <4>1. m \in 0 .. n - 1 /\ m + 1 <= n /\ m + 1 \in 0 .. n + 1
        BY <3>2
      <4> QED
        BY <2>1, <4>1 DEF Iterates
    <3> QED
      BY <3>1, <3>2
  <2> HIDE DEF g
  <2>4. n + 1 \in Nat /\ 0 .. (n + 1) - 1 = 0 .. n
    OBVIOUS
  <2>5. Iterates(g, X, b, G, n + 1)
    BY <2>2, <2>3, <2>4 DEF Iterates
  <2> QED
    BY <2>4, <2>5
<1> HIDE DEF T
<1>3. Nat \subseteq T
  BY <1>1, <1>2, Induct
<1> QED
  BY <1>3 DEF T

-------------------------------------------------------------------------------
(* Division *)

LEMMA DivMod ==
  ASSUME NEW a \in Int, NEW n \in Nat \ {0}
  PROVE  /\ a \div n \in Int /\ a % n \in 0 .. n - 1
         /\ n * (a \div n) + (a % n) = a
  OBVIOUS

\* A number is divided in one way.
LEMMA DivUnique ==
  ASSUME NEW n \in Nat \ {0}, NEW q \in Int, NEW k \in Int,
         NEW r \in 0 .. n - 1, NEW s \in 0 .. n - 1, n * q + r = n * k + s
  PROVE  q = k /\ r = s
<1>1. n * (q - k) = s - r
  OBVIOUS
<1>2. q - k >= 1 => n * (q - k) >= n
  OBVIOUS
<1>3. q - k <= -1 => n * (q - k) <= -n
  OBVIOUS
<1>4. q = k
  BY <1>1, <1>2, <1>3
<1> QED
  BY <1>4

LEMMA ModIs ==
  ASSUME NEW n \in Nat \ {0}, NEW q \in Int, NEW r \in 0 .. n - 1
  PROVE  (n * q + r) % n = r
<1> DEFINE a == n * q + r
<1>1. a \in Int
  OBVIOUS
<1>2. a \div n \in Int /\ a % n \in 0 .. n - 1 /\ n * (a \div n) + (a % n) = a
  <2> HIDE DEF a
  <2> QED
    BY <1>1, DivMod
<1>3. PICK k \in Int, s \in 0 .. n - 1 : k = a \div n /\ s = a % n
  BY <1>2
<1>4. n * q + r = n * k + s
  BY <1>2, <1>3
<1>5. r = s
  BY <1>4, DivUnique
<1> QED
  BY <1>3, <1>5

\* Multiples of n.
LEMMA Multiple ==
  ASSUME NEW n \in Nat \ {0}, NEW a \in Int
  PROVE  a % n = 0 <=> \E q \in Int : a = n * q
<1>1. ASSUME a % n = 0
      PROVE  \E q \in Int : a = n * q
  <2>1. a \div n \in Int /\ n * (a \div n) + (a % n) = a
    BY DivMod
  <2>2. PICK k \in Int : k = a \div n
    BY <2>1
  <2>3. a = n * k
    BY <1>1, <2>1, <2>2
  <2> QED
    BY <2>3
<1>2. ASSUME NEW q \in Int, a = n * q
      PROVE  a % n = 0
  <2>1. (n * q + 0) % n = 0
    BY ModIs
  <2> QED
    BY <1>2, <2>1
<1> QED
  BY <1>1, <1>2

LEMMA MultipleSum ==
  ASSUME NEW n \in Nat \ {0}, NEW a \in Int, NEW b \in Int, a % n = 0, b % n = 0
  PROVE  (a + b) % n = 0 /\ (a - b) % n = 0
<1>1. PICK q \in Int : a = n * q
  BY Multiple
<1>2. PICK k \in Int : b = n * k
  BY Multiple
<1>3. a + b = n * (q + k) /\ a - b = n * (q - k) /\ q + k \in Int /\ q - k \in Int
  BY <1>1, <1>2
<1>4. ASSUME NEW c \in Int, NEW d \in Int, c = n * d
      PROVE  c % n = 0
  BY <1>4, Multiple
<1>5. (a + b) % n = 0
  BY <1>3, <1>4
<1>6. (a - b) % n = 0
  BY <1>3, <1>4
<1> QED
  BY <1>5, <1>6

\* Multiples of n are n apart.
LEMMA MultipleGap ==
  ASSUME NEW n \in Nat \ {0}, NEW a \in Int, NEW b \in Int, a % n = 0, b % n = 0, a < b
  PROVE  a + n <= b
<1>1. PICK q \in Int : a = n * q
  BY Multiple
<1>2. PICK k \in Int : b = n * k
  BY Multiple
<1>3. q >= k => n * q >= n * k
  OBVIOUS
<1>4. q + 1 <= k
  BY <1>1, <1>2, <1>3
<1>5. n * (k - (q + 1)) >= 0
  BY <1>4
<1> QED
  BY <1>1, <1>2, <1>5

\* A count modulo n goes on as if it had not been reduced.
LEMMA ModKeeps ==
  ASSUME NEW n \in Nat \ {0}, NEW a \in Int, NEW b \in Int, (a + b) % n = 0
  PROVE  ((a % n) + b) % n = 0 /\ a % n \in Nat
<1>1. a \div n \in Int /\ a % n \in 0 .. n - 1 /\ n * (a \div n) + (a % n) = a
  BY DivMod
<1>2. PICK q \in Int : a + b = n * q
  BY Multiple
<1>3. (a % n) + b = n * (q - (a \div n)) /\ q - (a \div n) \in Int /\ (a % n) + b \in Int
  BY <1>1, <1>2
<1>4. ASSUME NEW c \in Int, NEW d \in Int, c = n * d
      PROVE  c % n = 0
  BY <1>4, Multiple
<1>5. PICK c \in Int, d \in Int : c = (a % n) + b /\ d = q - (a \div n) /\ c = n * d
  BY <1>3
<1>6. c % n = 0
  BY <1>4, <1>5
<1> QED
  BY <1>1, <1>5, <1>6

-------------------------------------------------------------------------------
(* Places in a ring *)

\* A number in a ring of n places.
LEMMA RingShift ==
  ASSUME NEW n \in Nat \ {0}, NEW i \in Int, NEW k \in Int
  PROVE  /\ ((i % n) + k) % n = (i + k) % n
         /\ (i + n) % n = i % n
         /\ i % n \in 0 .. n - 1
<1>1. /\ i \div n \in Int /\ i % n \in 0 .. n - 1
      /\ n * (i \div n) + (i % n) = i
  BY DivMod
<1> DEFINE a == (i % n) + k
<1>2. a \in Int
  BY <1>1
<1> HIDE DEF a
<1>3. /\ a \div n \in Int /\ a % n \in 0 .. n - 1
      /\ n * (a \div n) + (a % n) = a
  BY <1>2, DivMod
<1> DEFINE q == i \div n
           h == a \div n
           r == a % n
<1>4. /\ i + k = n * (q + h) + r
      /\ q + h \in Int /\ r \in 0 .. n - 1
  <2>1. a = (i % n) + k
    BY DEF a
  <2> HIDE DEF h, q, r
  <2> QED
    BY <1>1, <1>3, <2>1 DEF h, q, r
<1> DEFINE m == q + h
<1>5. i + k = n * m + r /\ m \in Int /\ r \in 0 .. n - 1
  BY <1>4
<1> HIDE DEF m, r
<1>6. (n * m + r) % n = r
  BY <1>5, ModIs
<1>7. (i + k) % n = r
  BY <1>5, <1>6
<1> DEFINE s == i % n
           l == q + 1
<1>8. i + n = n * l + s /\ l \in Int /\ s \in 0 .. n - 1
  <2> HIDE DEF q
  <2> QED
    BY <1>1 DEF q
<1> HIDE DEF l, s
<1>9. (n * l + s) % n = s
  BY <1>8, ModIs
<1>10. (i + n) % n = s
  BY <1>8, <1>9
<1> QED
  BY <1>1, <1>7, <1>10 DEF a, r, s

\* Places less than a turn apart are different ones.
LEMMA RingApart ==
  ASSUME NEW n \in Nat \ {0}, NEW i \in Int, NEW j \in Int, i <= j, j < i + n, i % n = j % n
  PROVE  i = j
<1>1. /\ i \div n \in Int /\ i % n \in 0 .. n - 1
      /\ n * (i \div n) + (i % n) = i
  BY DivMod
<1>2. /\ j \div n \in Int
      /\ n * (j \div n) + (j % n) = j
  BY DivMod
<1> DEFINE d == (j \div n) - (i \div n)
<1>3. d \in Int /\ j - i = n * d
  BY <1>1, <1>2
<1> HIDE DEF d
<1>4. d >= 1 => n * d >= n
  BY <1>3
<1>5. d <= -1 => n * d <= -n
  BY <1>3
<1>6. d = 0
  BY <1>3, <1>4, <1>5
<1> QED
  BY <1>3, <1>6

\* How far one place is ahead of another.
LEMMA RingAhead ==
  ASSUME NEW n \in Nat \ {0}, NEW i \in Int, NEW j \in Int, i <= j, j < i + n
  PROVE  ((j % n) - (i % n) + n) % n = j - i
<1>1. /\ i \div n \in Int /\ i % n \in 0 .. n - 1
      /\ n * (i \div n) + (i % n) = i
  BY DivMod
<1>2. /\ j \div n \in Int /\ j % n \in 0 .. n - 1
      /\ n * (j \div n) + (j % n) = j
  BY DivMod
<1> DEFINE d == 1 + (i \div n) - (j \div n)
           r == j - i
<1>3. d \in Int /\ r \in 0 .. n - 1 /\ (j % n) - (i % n) + n = n * d + r
  BY <1>1, <1>2
<1> HIDE DEF d, r
<1>4. (n * d + r) % n = r
  BY <1>3, ModIs
<1> QED
  BY <1>3, <1>4 DEF r

\* The place in a part of the ring, if the ring is a multiple of the part.
LEMMA RingPart ==
  ASSUME NEW n \in Nat \ {0}, NEW b \in Nat \ {0}, n % b = 0, NEW i \in Int
  PROVE  (i % n) % b = i % b
<1>1. /\ i \div n \in Int /\ i % n \in 0 .. n - 1
      /\ n * (i \div n) + (i % n) = i
  BY DivMod
<1> DEFINE a == i % n
           q == i \div n
<1>2. a \in Int /\ q \in Int /\ i = n * q + a
  BY <1>1
<1> HIDE DEF a, q
<1>3. PICK k \in Int : n = b * k
  BY Multiple
<1>4. /\ a \div b \in Int /\ a % b \in 0 .. b - 1
      /\ b * (a \div b) + (a % b) = a
  BY <1>2, DivMod
<1> DEFINE h == a \div b
           r == a % b
           m == k * q + h
<1>5. i = b * m + r /\ m \in Int /\ r \in 0 .. b - 1
  <2>1. h \in Int /\ r \in 0 .. b - 1 /\ b * h + r = a
    BY <1>4
  <2> HIDE DEF h, r
  <2>2. n * q = b * (k * q)
    BY <1>2, <1>3
  <2> QED
    BY <1>2, <1>3, <2>1, <2>2
<1> HIDE DEF m, r
<1>6. (b * m + r) % b = r
  BY <1>5, ModIs
<1> QED
  BY <1>5, <1>6 DEF a, r

-------------------------------------------------------------------------------
(* Sums *)

\* g adds up f over the subsets of T, in the order in which SumFunctionOnSet does.
IsSum(g, f, T) ==
  g = [s \in SUBSET T |-> IF s = {} THEN 0
                          ELSE LET x == CHOOSE x \in s : TRUE IN f[x] + g[s \ {x}]]

LEMMA SumExists ==
  ASSUME NEW f, NEW T, IsFiniteSet(T), \A x \in T : f[x] \in Int
  PROVE  \E g \in [SUBSET T -> Int] : IsSum(g, f, T)
<1> DEFINE rest(s) == s \ {CHOOSE x \in s : TRUE}
           next(g) == [s \in SUBSET T |-> IF s = {} THEN 0
                                          ELSE f[CHOOSE x \in s : TRUE] + g[rest(s)]]
           Good(g, n) == \A s \in SUBSET T : Cardinality(s) <= n => g[s] = next(g)[s]
           Q == {n \in Nat : \E g \in [SUBSET T -> Int] : Good(g, n)}
<1>1. \A s \in SUBSET T : IsFiniteSet(s) /\ Cardinality(s) \in Nat
  BY FS_Subset, FS_CardinalityType
<1>2. \A s \in SUBSET T : s # {} =>
        /\ (CHOOSE x \in s : TRUE) \in s /\ rest(s) \in SUBSET T
        /\ Cardinality(rest(s)) = Cardinality(s) - 1
  <2> SUFFICES ASSUME NEW s \in SUBSET T, s # {}
               PROVE  /\ (CHOOSE x \in s : TRUE) \in s /\ rest(s) \in SUBSET T
                      /\ Cardinality(rest(s)) = Cardinality(s) - 1
    OBVIOUS
  <2>1. (CHOOSE x \in s : TRUE) \in s
    OBVIOUS
  <2> QED
    BY <1>1, <2>1, FS_RemoveElement
<1>3. \A g \in [SUBSET T -> Int] : next(g) \in [SUBSET T -> Int]
  <2> SUFFICES ASSUME NEW g \in [SUBSET T -> Int], NEW s \in SUBSET T, s # {}
               PROVE  f[CHOOSE x \in s : TRUE] + g[rest(s)] \in Int
    OBVIOUS
  <2>1. (CHOOSE x \in s : TRUE) \in T /\ rest(s) \in SUBSET T
    BY <1>2
  <2>2. f[CHOOSE x \in s : TRUE] \in Int /\ g[rest(s)] \in Int
    BY <2>1
  <2> QED
    BY <2>2
<1>4. 0 \in Q
  <2> DEFINE g == [s \in SUBSET T |-> 0]
  <2>1. \A s \in SUBSET T : Cardinality(s) <= 0 => s = {}
    BY <1>1, FS_EmptySet
  <2>2. Good(g, 0)
    BY <2>1
  <2>3. g \in [SUBSET T -> Int]
    OBVIOUS
  <2> QED
    BY <2>2, <2>3
<1>5. \A n \in Nat : n \in Q => n + 1 \in Q
  <2> SUFFICES ASSUME NEW n \in Nat, NEW g \in [SUBSET T -> Int], Good(g, n)
               PROVE  n + 1 \in Q
    BY ZenonT(30)
  <2> DEFINE h == next(g)
  <2>1. h \in [SUBSET T -> Int]
    BY <1>3
  <2>2. Good(h, n + 1)
    <3> SUFFICES ASSUME NEW s \in SUBSET T, Cardinality(s) <= n + 1
                 PROVE  h[s] = next(h)[s]
      OBVIOUS
    <3>1. CASE s = {}
      BY <3>1
    <3>2. CASE s # {}
      <4>1. rest(s) \in SUBSET T /\ Cardinality(rest(s)) <= n
        BY <1>1, <1>2, <3>2
      <4>2. g[rest(s)] = h[rest(s)]
        BY <4>1
      <4> QED
        BY <3>2, <4>2
    <3> QED
      BY <3>1, <3>2
  <2> HIDE DEF h
  <2>3. \E k \in [SUBSET T -> Int] : Good(k, n + 1)
    BY <2>1, <2>2
  <2> HIDE DEF Good
  <2> QED
    BY <2>3
<1> HIDE DEF Q
<1>6. Nat \subseteq Q
  BY <1>4, <1>5, Induct
<1>7. Cardinality(T) \in Q
  BY <1>1, <1>6
<1>8. PICK g \in [SUBSET T -> Int] : Good(g, Cardinality(T))
  BY <1>7 DEF Q
<1>9. \A s \in SUBSET T : Cardinality(s) <= Cardinality(T)
  BY FS_Subset
<1>10. \A s \in SUBSET T : g[s] = next(g)[s]
  BY <1>8, <1>9
<1>11. g = next(g)
  <2> DEFINE h == next(g)
  <2>1. h \in [SUBSET T -> Int] /\ \A s \in SUBSET T : g[s] = h[s]
    BY <1>3, <1>10
  <2> HIDE DEF h
  <2>2. g = h
    BY <2>1
  <2> QED
    BY <2>2 DEF h
<1>12. IsSum(g, f, T)
  BY <1>11 DEF IsSum
<1> QED
  BY <1>12

\* The sum is taken element by element, whichever is taken first.
LEMMA SumIs ==
  ASSUME NEW f, NEW T, IsFiniteSet(T), \A x \in T : f[x] \in Int
  PROVE  \E g \in [SUBSET T -> Int] :
           /\ SumFunctionOnSet(f, T) = g[T] /\ IsSum(g, f, T)
<1> DEFINE h == CHOOSE h : IsSum(h, f, T)
<1>1. SumFunctionOnSet(f, T) = h[T]
  BY DEF SumFunctionOnSet, FoldFunctionOnSet, MapThenFoldSet, IsSum
<1>2. IsSum(h, f, T)
  BY SumExists
<1>3. h \in [SUBSET T -> Int]
  <2>1. PICK g \in [SUBSET T -> Int] : IsSum(g, f, T)
    BY SumExists
  <2> DEFINE Q == {n \in Nat : \A s \in SUBSET T : Cardinality(s) = n => h[s] = g[s]}
  <2>2. \A s \in SUBSET T : IsFiniteSet(s) /\ Cardinality(s) \in Nat
    BY FS_Subset, FS_CardinalityType
  <2>3. 0 \in Q
    <3>1. \A s \in SUBSET T : Cardinality(s) = 0 => s = {}
      BY <2>2, FS_EmptySet
    <3>2. h[{}] = 0 /\ g[{}] = 0
      BY <1>2, <2>1 DEF IsSum
    <3> HIDE DEF h
    <3> QED
      BY <3>1, <3>2
  <2>4. \A n \in Nat : n \in Q => n + 1 \in Q
    <3> SUFFICES ASSUME NEW n \in Nat, n \in Q, NEW s \in SUBSET T, Cardinality(s) = n + 1
                 PROVE  h[s] = g[s]
      OBVIOUS
    <3> DEFINE x == CHOOSE x \in s : TRUE
    <3>1. s # {} /\ x \in s
      <4>1. s # {}
        <5>1. Cardinality({}) = 0
          BY FS_EmptySet
        <5> QED
          BY <5>1
      <4> QED
        BY <4>1
    <3>2. h[s] = f[x] + h[s \ {x}] /\ g[s] = f[x] + g[s \ {x}]
      BY <1>2, <2>1, <3>1 DEF IsSum
    <3>3. s \ {x} \in SUBSET T /\ Cardinality(s \ {x}) = n
      <4> HIDE DEF x
      <4>1. IsFiniteSet(s) /\ x \in s
        BY <2>2, <3>1
      <4>2. Cardinality(s \ {x}) = Cardinality(s) - 1
        BY <4>1, FS_RemoveElement
      <4> QED
        BY <4>2
    <3> HIDE DEF h, x
    <3> QED
      BY <3>2, <3>3
  <2> HIDE DEF Q
  <2>5. Nat \subseteq Q
    BY <2>3, <2>4, Induct
  <2>6. \A s \in SUBSET T : h[s] = g[s]
    BY <2>2, <2>5 DEF Q
  <2>7. h = [s \in SUBSET T |-> h[s]]
    BY <1>2 DEF IsSum
  <2> HIDE DEF h
  <2> QED
    BY <2>6, <2>7
<1> HIDE DEF h
<1> QED
  BY <1>1, <1>2, <1>3

\* Induction over a finite set, with a set of its subsets for the formula.
LEMMA FiniteInduct ==
  ASSUME NEW T, IsFiniteSet(T), NEW P, {} \in P,
         \A s \in SUBSET T : \A x \in T \ s : s \in P => s \cup {x} \in P
  PROVE  SUBSET T \subseteq P
<1> DEFINE Q == {n \in Nat : \A s \in SUBSET T : Cardinality(s) = n => s \in P}
<1>1. \A s \in SUBSET T : IsFiniteSet(s) /\ Cardinality(s) \in Nat
  BY FS_Subset, FS_CardinalityType
<1>2. 0 \in Q
  BY <1>1, FS_EmptySet
<1>3. \A n \in Nat : n \in Q => n + 1 \in Q
  <2> SUFFICES ASSUME NEW n \in Nat, n \in Q, NEW s \in SUBSET T, Cardinality(s) = n + 1
               PROVE  s \in P
    OBVIOUS
  <2>1. s # {}
    <3>1. Cardinality({}) = 0
      BY FS_EmptySet
    <3>2. Cardinality(s) # 0
      OBVIOUS
    <3> HIDE DEF Q
    <3> QED
      BY <3>1, <3>2
  <2>2. PICK x \in s : TRUE
    BY <2>1
  <2>3. Cardinality(s \ {x}) = n
    <3>1. Cardinality(s \ {x}) = Cardinality(s) - 1
      BY <1>1, <2>2, FS_RemoveElement
    <3> QED
      BY <3>1
  <2>4. s \ {x} \in P /\ s \ {x} \in SUBSET T /\ x \in T \ (s \ {x})
    BY <2>2, <2>3
  <2>5. (s \ {x}) \cup {x} = s
    BY <2>2
  <2>6. (s \ {x}) \cup {x} \in P
    BY <2>4
  <2> QED
    BY <2>5, <2>6
<1> HIDE DEF Q
<1>4. Nat \subseteq Q
  BY <1>2, <1>3, Induct
<1> QED
  BY <1>1, <1>4 DEF Q

\* The sums over the subsets of a set are found on the way to the sum over it.
LEMMA SumPart ==
  ASSUME NEW f, NEW T, IsFiniteSet(T), \A x \in T : f[x] \in Int,
         NEW g, IsSum(g, f, T), NEW s \in SUBSET T
  PROVE  SumFunctionOnSet(f, s) = g[s]
<1>1. IsFiniteSet(s) /\ \A x \in s : f[x] \in Int
  BY FS_Subset
<1>2. PICK h : SumFunctionOnSet(f, s) = h[s] /\ IsSum(h, f, s)
  BY <1>1, SumIs
<1> DEFINE Q == {n \in Nat : \A r \in SUBSET s : Cardinality(r) = n => h[r] = g[r]}
<1>3. \A r \in SUBSET s : IsFiniteSet(r) /\ Cardinality(r) \in Nat
  BY <1>1, FS_Subset, FS_CardinalityType
<1>4. 0 \in Q
  <2>1. \A r \in SUBSET s : Cardinality(r) = 0 => r = {}
    BY <1>3, FS_EmptySet
  <2>2. h[{}] = 0 /\ g[{}] = 0
    BY <1>2 DEF IsSum
  <2> QED
    BY <2>1, <2>2
<1>5. \A n \in Nat : n \in Q => n + 1 \in Q
  <2> SUFFICES ASSUME NEW n \in Nat, n \in Q, NEW r \in SUBSET s, Cardinality(r) = n + 1
               PROVE  h[r] = g[r]
    OBVIOUS
  <2>0. r # {}
    <3>1. Cardinality({}) = 0
      BY FS_EmptySet
    <3> QED
      BY <3>1
  <2> DEFINE x == CHOOSE x \in r : TRUE
  <2>1. r # {} /\ x \in r
    BY <2>0
  <2>2. h[r] = f[x] + h[r \ {x}]
    BY <1>2, <2>1 DEF IsSum
  <2>3. g[r] = f[x] + g[r \ {x}]
    <3>1. r \in SUBSET T
      OBVIOUS
    <3> QED
      BY <2>1, <3>1 DEF IsSum
  <2>4. r \ {x} \in SUBSET s /\ Cardinality(r \ {x}) = n
    <3> HIDE DEF x
    <3>1. Cardinality(r \ {x}) = Cardinality(r) - 1
      BY <1>3, <2>1, FS_RemoveElement
    <3> QED
      BY <3>1
  <2> HIDE DEF x
  <2> QED
    BY <2>2, <2>3, <2>4
<1> HIDE DEF Q
<1>6. Nat \subseteq Q
  BY <1>4, <1>5, Induct
<1>7. h[s] = g[s]
  BY <1>3, <1>6 DEF Q
<1> QED
  BY <1>2, <1>7

\* The sum over a set is an element more than that over the others.
LEMMA SumSplit ==
  ASSUME NEW f, NEW T, IsFiniteSet(T), \A x \in T : f[x] \in Int
  PROVE  /\ SumFunctionOnSet(f, {}) = 0
         /\ \A s \in SUBSET T : SumFunctionOnSet(f, s) \in Int
         /\ \A s \in SUBSET T : \A y \in s :
              SumFunctionOnSet(f, s) = f[y] + SumFunctionOnSet(f, s \ {y})
<1>1. PICK g \in [SUBSET T -> Int] : IsSum(g, f, T)
  BY SumIs
<1>2. \A s \in SUBSET T : SumFunctionOnSet(f, s) = g[s]
  BY <1>1, SumPart
<1>3. SumFunctionOnSet(f, {}) = 0
  <2>1. g[{}] = 0
    BY <1>1 DEF IsSum
  <2> QED
    BY <1>2, <2>1
<1> DEFINE Q == {n \in Nat : \A s \in SUBSET T : \A y \in s :
                               Cardinality(s) = n => g[s] = f[y] + g[s \ {y}]}
<1>4. \A s \in SUBSET T : IsFiniteSet(s) /\ Cardinality(s) \in Nat
  BY FS_Subset, FS_CardinalityType
<1>5. 0 \in Q
  BY <1>4, FS_EmptySet
<1>6. \A n \in Nat : n \in Q => n + 1 \in Q
  <2> SUFFICES ASSUME NEW n \in Nat, n \in Q
               PROVE  n + 1 \in Q
    OBVIOUS
  <2> SUFFICES \A s \in SUBSET T : \A y \in s :
                 Cardinality(s) = n + 1 => g[s] = f[y] + g[s \ {y}]
    OBVIOUS
  <2> SUFFICES ASSUME NEW s \in SUBSET T, NEW y \in s, Cardinality(s) = n + 1
               PROVE  g[s] = f[y] + g[s \ {y}]
    OBVIOUS
  <2> DEFINE x == CHOOSE x \in s : TRUE
  <2>1. s # {} /\ x \in s
    OBVIOUS
  <2>2. g[s] = f[x] + g[s \ {x}]
    BY <1>1, <2>1 DEF IsSum
  <2> HIDE DEF x
  <2>3. CASE x = y
    BY <2>2, <2>3
  <2>4. CASE x # y
    <3> DEFINE a == s \ {x}
               b == s \ {y}
               c == s \ {x, y}
    <3>1. a \in SUBSET T /\ b \in SUBSET T /\ c \in SUBSET T /\ y \in a /\ x \in b
          /\ a \ {y} = c /\ b \ {x} = c
      BY <2>1, <2>4
    <3>2. Cardinality(a) = n /\ Cardinality(b) = n
      <4>1. Cardinality(s \ {x}) = Cardinality(s) - 1
        BY <1>4, <2>1, FS_RemoveElement
      <4>2. Cardinality(s \ {y}) = Cardinality(s) - 1
        BY <1>4, FS_RemoveElement
      <4> QED
        BY <4>1, <4>2
    <3> HIDE DEF a, b, c
    <3>3. g[a] = f[y] + g[c] /\ g[b] = f[x] + g[c]
      <4>1. g[a] = f[y] + g[a \ {y}]
        BY <3>1, <3>2
      <4>2. g[b] = f[x] + g[b \ {x}]
        BY <3>1, <3>2
      <4> QED
        BY <3>1, <4>1, <4>2
    <3>4. f[x] \in Int /\ f[y] \in Int /\ g[c] \in Int
      BY <2>1, <3>1
    <3>5. g[s] = f[x] + g[a]
      BY <2>2 DEF a
    <3>6. g[s] = f[y] + g[b]
      BY <3>3, <3>4, <3>5
    <3> QED
      BY <3>6 DEF b
  <2> QED
    BY <2>3, <2>4
<1> HIDE DEF Q
<1>7. Nat \subseteq Q
  BY <1>5, <1>6, Induct
<1>8. \A s \in SUBSET T : \A y \in s : g[s] = f[y] + g[s \ {y}]
  BY <1>4, <1>7 DEF Q
<1>9. \A s \in SUBSET T : \A y \in s :
        SumFunctionOnSet(f, s) = f[y] + SumFunctionOnSet(f, s \ {y})
  <2> SUFFICES ASSUME NEW s \in SUBSET T, NEW y \in s
               PROVE  SumFunctionOnSet(f, s) = f[y] + SumFunctionOnSet(f, s \ {y})
    OBVIOUS
  <2>1. s \ {y} \in SUBSET T
    OBVIOUS
  <2> QED
    BY <1>2, <1>8, <2>1
<1>10. \A s \in SUBSET T : SumFunctionOnSet(f, s) \in Int
  BY <1>2
<1> QED
  BY <1>3, <1>9, <1>10

\* Sums of functions that agree on the set are the same.
LEMMA SumAgree ==
  ASSUME NEW f, NEW h, NEW T, IsFiniteSet(T), \A x \in T : f[x] \in Int /\ h[x] = f[x]
  PROVE  SumFunctionOnSet(h, T) = SumFunctionOnSet(f, T)
<1> DEFINE P == {s \in SUBSET T : SumFunctionOnSet(h, s) = SumFunctionOnSet(f, s)}
<1>0. \A x \in T : f[x] \in Int
  OBVIOUS
<1>1. /\ SumFunctionOnSet(f, {}) = 0
      /\ \A s \in SUBSET T : \A y \in s : SumFunctionOnSet(f, s) = f[y] + SumFunctionOnSet(f, s \ {y})
  BY <1>0, SumSplit
<1>2. \A x \in T : h[x] \in Int
  OBVIOUS
<1>3. /\ SumFunctionOnSet(h, {}) = 0
      /\ \A s \in SUBSET T : \A y \in s : SumFunctionOnSet(h, s) = h[y] + SumFunctionOnSet(h, s \ {y})
  BY <1>2, SumSplit
<1>4. {} \in P
  BY <1>1, <1>3
<1>5. \A s \in SUBSET T : \A x \in T \ s : s \in P => s \cup {x} \in P
  <2> SUFFICES ASSUME NEW s \in SUBSET T, NEW x \in T \ s, s \in P
               PROVE  s \cup {x} \in P
    OBVIOUS
  <2> DEFINE r == s \cup {x}
  <2>1. r \in SUBSET T /\ x \in r /\ r \ {x} = s
    OBVIOUS
  <2> HIDE DEF r
  <2>2. SumFunctionOnSet(f, r) = f[x] + SumFunctionOnSet(f, s)
    BY <1>1, <2>1
  <2>3. SumFunctionOnSet(h, r) = h[x] + SumFunctionOnSet(h, s)
    BY <1>3, <2>1
  <2>4. SumFunctionOnSet(h, r) = SumFunctionOnSet(f, r)
    BY <2>2, <2>3
  <2> QED
    BY <2>1, <2>4 DEF r
<1> HIDE DEF P
<1>6. SUBSET T \subseteq P
  BY <1>4, <1>5, FiniteInduct
<1> QED
  BY <1>6 DEF P

\* What one part loses another one gains.
LEMMA Balance ==
  ASSUME NEW f \in Int, NEW g \in Int, NEW x \in Int, NEW y \in Int, NEW t \in Int, NEW m \in Int,
         g + y = f + x, f + t = m
  PROVE  g + (t - x + y) = m
OBVIOUS

\* The sum after one value has changed, and over a set with one more element.
LEMMA SumChange ==
  ASSUME NEW f, NEW h, NEW T, IsFiniteSet(T), \A x \in T : f[x] \in Int, NEW y \in T, h[y] \in Int,
         \A x \in T \ {y} : h[x] = f[x]
  PROVE  SumFunctionOnSet(h, T) = SumFunctionOnSet(f, T) - f[y] + h[y]
<1> DEFINE R == T \ {y}
<1>1. SumFunctionOnSet(f, T) = f[y] + SumFunctionOnSet(f, R) /\ SumFunctionOnSet(f, R) \in Int
  BY SumSplit
<1>2. \A x \in T : h[x] \in Int
  OBVIOUS
<1>3. SumFunctionOnSet(h, T) = h[y] + SumFunctionOnSet(h, R)
  BY <1>2, SumSplit
<1>4. SumFunctionOnSet(h, R) = SumFunctionOnSet(f, R)
  <2>1. IsFiniteSet(R) /\ \A x \in R : f[x] \in Int /\ h[x] = f[x]
    BY FS_Subset
  <2> HIDE DEF R
  <2> QED
    BY <2>1, SumAgree
<1> HIDE DEF R
<1>5. f[y] \in Int
  OBVIOUS
<1> QED
  BY <1>1, <1>3, <1>4, <1>5

\* What holds of each element holds of the sums, over a set S and a part R of it.
LEMMA SumBound ==
  ASSUME NEW f, NEW g, NEW h, NEW S, IsFiniteSet(S), NEW R \in SUBSET S,
         \A x \in S : g[x] \in Int /\ h[x] \in Int /\ g[x] <= h[x],
         \A x \in R : f[x] \in Int /\ f[x] + g[x] <= h[x]
  PROVE  SumFunctionOnSet(f, R) + SumFunctionOnSet(g, S) <= SumFunctionOnSet(h, S)
<1> DEFINE F(s) == SumFunctionOnSet(f, s)
           G(s) == SumFunctionOnSet(g, s)
           H(s) == SumFunctionOnSet(h, s)
           P == {s \in SUBSET S : F(R \cap s) + G(s) <= H(s)}
<1>1. IsFiniteSet(R) /\ \A x \in R : f[x] \in Int
  BY FS_Subset
<1>2. /\ F({}) = 0 /\ \A s \in SUBSET R : F(s) \in Int
      /\ \A s \in SUBSET R : \A y \in s : F(s) = f[y] + F(s \ {y})
  BY <1>1, SumSplit
<1>3. \A x \in S : g[x] \in Int
  OBVIOUS
<1>4. /\ G({}) = 0 /\ \A s \in SUBSET S : G(s) \in Int
      /\ \A s \in SUBSET S : \A y \in s : G(s) = g[y] + G(s \ {y})
  BY <1>3, SumSplit
<1>5. \A x \in S : h[x] \in Int
  OBVIOUS
<1>6. /\ H({}) = 0 /\ \A s \in SUBSET S : H(s) \in Int
      /\ \A s \in SUBSET S : \A y \in s : H(s) = h[y] + H(s \ {y})
  BY <1>5, SumSplit
<1> HIDE DEF F, G, H
<1>7. {} \in P
  <2>1. R \cap {} = {}
    OBVIOUS
  <2> QED
    BY <1>2, <1>4, <1>6, <2>1
<1>8. \A s \in SUBSET S : \A x \in S \ s : s \in P => s \cup {x} \in P
  <2> SUFFICES ASSUME NEW s \in SUBSET S, NEW x \in S \ s, s \in P
               PROVE  s \cup {x} \in P
    OBVIOUS
  <2> DEFINE r == s \cup {x}
             a == R \cap s
             b == R \cap r
  <2>1. r \in SUBSET S /\ x \in r /\ r \ {x} = s /\ x \in S /\ a \in SUBSET R /\ b \in SUBSET R
        /\ (x \notin R => b = a) /\ (x \in R => x \in b /\ b \ {x} = a)
    OBVIOUS
  <2>2. F(a) + G(s) <= H(s)
    OBVIOUS
  <2> HIDE DEF r, a, b, P
  <2>3. G(r) = g[x] + G(s) /\ H(r) = h[x] + H(s)
    BY <1>4, <1>6, <2>1
  <2>4. G(s) \in Int /\ H(s) \in Int /\ F(a) \in Int /\ g[x] \in Int /\ h[x] \in Int
    BY <1>2, <1>4, <1>6, <2>1
  <2>5. F(b) + G(r) <= H(r)
    <3>1. CASE x \notin R
      <4>1. F(b) = F(a) /\ g[x] <= h[x]
        BY <2>1, <3>1
      <4> QED
        BY <2>2, <2>3, <2>4, <4>1
    <3>2. CASE x \in R
      <4>1. F(b) = f[x] + F(a)
        BY <1>2, <2>1, <3>2
      <4>2. f[x] \in Int /\ f[x] + g[x] <= h[x]
        BY <3>2
      <4> QED
        BY <2>2, <2>3, <2>4, <4>1, <4>2
    <3> QED
      BY <3>1, <3>2
  <2> QED
    BY <2>1, <2>5 DEF P, r, b
<1> HIDE DEF P
<1>9. SUBSET S \subseteq P
  BY <1>7, <1>8, FiniteInduct
<1>10. R \cap S = R /\ S \in P
  BY <1>9
<1>11. F(R) + G(S) <= H(S)
  BY <1>10 DEF P
<1> QED
  BY <1>11 DEF F, G, H

-------------------------------------------------------------------------------
(* Sequences *)

\* The first element is taken.
LEMMA HeadOut ==
  ASSUME NEW S, NEW s \in Seq(S), s # <<>>
  PROVE  /\ Head(s) \in ToSet(s) /\ Head(s) \in S /\ Tail(s) \in Seq(S) /\ Len(Tail(s)) = Len(s) - 1
         /\ ToSet(s) = ToSet(Tail(s)) \cup {Head(s)}
         /\ IsInjective(s) => Head(s) \notin ToSet(Tail(s)) /\ IsInjective(Tail(s))
<1> DEFINE t == Tail(s)
<1>1. /\ t \in Seq(S) /\ Len(t) = Len(s) - 1 /\ Len(s) \in Nat \ {0} /\ Head(s) = s[1]
      /\ \A i \in 1 .. Len(s) - 1 : t[i] = s[i + 1]
      /\ s[1] \in S
  BY HeadTailProperties
<1> HIDE DEF t
<1>2. \A j \in 1 .. Len(s) : j = 1 \/ (j - 1 \in 1 .. Len(t) /\ t[j - 1] = s[j])
  <2> SUFFICES ASSUME NEW j \in 1 .. Len(s), j # 1
               PROVE  j - 1 \in 1 .. Len(t) /\ t[j - 1] = s[j]
    OBVIOUS
  <2>1. j - 1 \in 1 .. Len(s) - 1 /\ (j - 1) + 1 = j
    BY <1>1
  <2> QED
    BY <1>1, <2>1
<1>3. ToSet(s) = {s[i] : i \in 1 .. Len(s)} /\ ToSet(t) = {t[i] : i \in 1 .. Len(t)}
  BY <1>1 DEF ToSet
<1>4. \A i \in 1 .. Len(t) : i + 1 \in 1 .. Len(s) /\ t[i] = s[i + 1]
  BY <1>1
<1>5. ToSet(s) = ToSet(t) \cup {s[1]}
  <2>1. 1 \in 1 .. Len(s)
    BY <1>1
  <2> QED
    BY <1>2, <1>3, <1>4, <2>1
<1>6. ASSUME IsInjective(s)
      PROVE  s[1] \notin ToSet(t) /\ IsInjective(t)
  <2>1. \A i, j \in 1 .. Len(s) : s[i] = s[j] => i = j
    BY <1>6 DEF IsInjective
  <2>2. \A i \in 1 .. Len(t) : t[i] # s[1]
    BY <1>1, <1>4, <2>1
  <2>3. \A i, j \in 1 .. Len(t) : t[i] = t[j] => i = j
    BY <1>1, <1>4, <2>1
  <2> QED
    BY <1>1, <1>3, <2>2, <2>3 DEF IsInjective
<1> QED
  BY <1>1, <1>5, <1>6 DEF t

\* One more element, at the end or at the front.
LEMMA OneJoins ==
  ASSUME NEW S, NEW s \in Seq(S), NEW b \in S, NEW t, t = Append(s, b) \/ t = <<b>> \o s
  PROVE  /\ t \in Seq(S) /\ Len(t) = Len(s) + 1
         /\ ToSet(t) = ToSet(s) \cup {b}
         /\ IsInjective(s) /\ b \notin ToSet(s) => IsInjective(t)
<1> DEFINE k == IF t = Append(s, b) THEN Len(s) + 1 ELSE 1
           at(i) == IF i < k THEN i ELSE i + 1
<1>1. /\ t \in Seq(S) /\ Len(t) = Len(s) + 1 /\ Len(s) \in Nat
      /\ k \in 1 .. Len(t) /\ t[k] = b
      /\ \A i \in 1 .. Len(s) : t[at(i)] = s[i]
  <2>1. CASE t = Append(s, b)
    BY <2>1
  <2>2. CASE t # Append(s, b)
    <3>1. t = <<b>> \o s
      BY <2>2
    <3>2. <<b>> \in Seq(S) /\ Len(<<b>>) = 1 /\ <<b>>[1] = b
      OBVIOUS
    <3>3. /\ t \in Seq(S) /\ Len(t) = 1 + Len(s)
          /\ \A i \in 1 .. 1 + Len(s) : t[i] = IF i <= 1 THEN b ELSE s[i - 1]
      BY <3>1, <3>2, ConcatProperties
    <3>4. \A i \in 1 .. Len(s) : t[i + 1] = s[i]
      <4> SUFFICES ASSUME NEW i \in 1 .. Len(s)
                   PROVE  t[i + 1] = s[i]
        OBVIOUS
      <4>1. i + 1 \in 1 .. 1 + Len(s) /\ ~(i + 1 <= 1) /\ (i + 1) - 1 = i
        OBVIOUS
      <4> QED
        BY <3>3, <4>1
    <3> QED
      BY <2>2, <3>3, <3>4
  <2> QED
    BY <2>1, <2>2
<1> HIDE DEF k
<1>2. \A j \in 1 .. Len(t) : j # k => \E i \in 1 .. Len(s) : at(i) = j
  <2> SUFFICES ASSUME NEW j \in 1 .. Len(t), j # k
               PROVE  \E i \in 1 .. Len(s) : at(i) = j
    OBVIOUS
  <2>1. CASE j < k
    <3>1. j \in 1 .. Len(s) /\ at(j) = j
      BY <1>1, <2>1
    <3> QED
      BY <3>1
  <2>2. CASE j > k
    <3>1. j - 1 \in 1 .. Len(s) /\ at(j - 1) = j
      BY <1>1, <2>2
    <3> QED
      BY <3>1
  <2> QED
    BY <1>1, <2>1, <2>2
<1>3. \A i \in 1 .. Len(s) : at(i) \in 1 .. Len(t) /\ at(i) # k
  BY <1>1
<1> HIDE DEF at
<1>4. ToSet(s) = {s[i] : i \in 1 .. Len(s)} /\ ToSet(t) = {t[i] : i \in 1 .. Len(t)}
  BY <1>1 DEF ToSet
<1>5. ToSet(t) = ToSet(s) \cup {b}
  BY <1>1, <1>2, <1>3, <1>4
<1>6. ASSUME IsInjective(s), b \notin ToSet(s)
      PROVE  IsInjective(t)
  <2>1. \A i, j \in 1 .. Len(s) : s[i] = s[j] => i = j
    BY <1>6 DEF IsInjective
  <2>2. \A i \in 1 .. Len(s) : s[i] # b
    BY <1>4, <1>6
  <2>3. ASSUME NEW i \in 1 .. Len(t), NEW j \in 1 .. Len(t), t[i] = t[j]
        PROVE  i = j
    <3>1. CASE i # k /\ j # k
      <4>1. PICK x \in 1 .. Len(s) : at(x) = i
        BY <1>2, <3>1
      <4>2. PICK y \in 1 .. Len(s) : at(y) = j
        BY <1>2, <3>1
      <4>3. s[x] = s[y]
        BY <1>1, <2>3, <4>1, <4>2
      <4> QED
        BY <2>1, <4>1, <4>2, <4>3
    <3>2. \A x \in 1 .. Len(t) : x # k => t[x] # b
      BY <1>1, <1>2, <2>2
    <3> QED
      BY <1>1, <2>3, <3>1, <3>2
  <2> QED
    BY <1>1, <2>3 DEF IsInjective
<1> QED
  BY <1>1, <1>5, <1>6

\* At the end.
LEMMA AppendIn ==
  ASSUME NEW S, NEW s \in Seq(S), NEW b \in S
  PROVE  /\ Append(s, b) \in Seq(S) /\ Len(Append(s, b)) = Len(s) + 1
         /\ ToSet(Append(s, b)) = ToSet(s) \cup {b}
         /\ IsInjective(s) /\ b \notin ToSet(s) => IsInjective(Append(s, b))
<1> DEFINE t == Append(s, b)
<1>1. t = Append(s, b) \/ t = <<b>> \o s
  OBVIOUS
<1> HIDE DEF t
<1>2. /\ t \in Seq(S) /\ Len(t) = Len(s) + 1
      /\ ToSet(t) = ToSet(s) \cup {b}
      /\ IsInjective(s) /\ b \notin ToSet(s) => IsInjective(t)
  BY <1>1, OneJoins, Zenon
<1> QED
  BY <1>2 DEF t

\* At the front.
LEMMA PrependIn ==
  ASSUME NEW S, NEW s \in Seq(S), NEW b \in S
  PROVE  /\ <<b>> \o s \in Seq(S) /\ Len(<<b>> \o s) = Len(s) + 1
         /\ ToSet(<<b>> \o s) = ToSet(s) \cup {b}
         /\ IsInjective(s) /\ b \notin ToSet(s) => IsInjective(<<b>> \o s)
<1> DEFINE t == <<b>> \o s
<1>1. t = Append(s, b) \/ t = <<b>> \o s
  OBVIOUS
<1> HIDE DEF t
<1>2. /\ t \in Seq(S) /\ Len(t) = Len(s) + 1
      /\ ToSet(t) = ToSet(s) \cup {b}
      /\ IsInjective(s) /\ b \notin ToSet(s) => IsInjective(t)
  BY <1>1, OneJoins, Zenon
<1> QED
  BY <1>2 DEF t

\* One is taken out; the others keep their order.
LEMMA OneOut ==
  ASSUME NEW S, NEW s \in Seq(S), NEW i \in 1 .. Len(s)
  PROVE  /\ RemoveAt(s, i) \in Seq(S) /\ Len(RemoveAt(s, i)) = Len(s) - 1
         /\ \A j \in 1 .. Len(s) - 1 : RemoveAt(s, i)[j] = s[IF j < i THEN j ELSE j + 1]
         /\ IsInjective(s) => IsInjective(RemoveAt(s, i)) /\ ToSet(RemoveAt(s, i)) = ToSet(s) \ {s[i]}
<1> DEFINE a == SubSeq(s, 1, i - 1)
           c == SubSeq(s, i + 1, Len(s))
           r == a \o c
           from(j) == IF j < i THEN j ELSE j + 1
<1>1. r = RemoveAt(s, i)
  BY DEF RemoveAt
<1>2. a \in Seq(S) /\ Len(a) = i - 1 /\ \A j \in 1 .. i - 1 : a[j] = s[j]
  OBVIOUS
<1>3. c \in Seq(S) /\ Len(c) = Len(s) - i /\ \A j \in 1 .. Len(s) - i : c[j] = s[i + j]
  OBVIOUS
<1> HIDE DEF a, c
<1>4. /\ r \in Seq(S) /\ Len(r) = Len(a) + Len(c)
      /\ \A j \in 1 .. Len(a) + Len(c) : r[j] = IF j <= Len(a) THEN a[j] ELSE c[j - Len(a)]
  BY <1>2, <1>3, ConcatProperties
<1> HIDE DEF r
<1>5. Len(r) = Len(s) - 1
  BY <1>2, <1>3, <1>4
<1>6. ASSUME NEW j \in 1 .. Len(s) - 1
      PROVE  r[j] = s[from(j)]
  <2>1. CASE j < i
    <3>1. j \in 1 .. i - 1 /\ j \in 1 .. Len(a) + Len(c) /\ j <= Len(a)
      BY <1>2, <1>3, <2>1
    <3>2. r[j] = a[j] /\ a[j] = s[j]
      BY <1>2, <1>4, <3>1
    <3> QED
      BY <2>1, <3>2
  <2>2. CASE j >= i
    <3> DEFINE m == j - (i - 1)
    <3>1. /\ m \in 1 .. Len(s) - i /\ i + m = j + 1 /\ j - Len(a) = m /\ ~(j <= Len(a))
          /\ j \in 1 .. Len(a) + Len(c)
      BY <1>2, <1>3, <2>2
    <3> HIDE DEF m
    <3>2. r[j] = c[m]
      BY <1>4, <3>1
    <3>3. c[m] = s[j + 1]
      BY <1>3, <3>1
    <3> QED
      BY <2>2, <3>2, <3>3
  <2> QED
    BY <2>1, <2>2
<1>7. ASSUME IsInjective(s)
      PROVE  IsInjective(r) /\ ToSet(r) = ToSet(s) \ {s[i]}
  <2>1. \A j, k \in 1 .. Len(s) : s[j] = s[k] => j = k
    BY <1>7 DEF IsInjective
  <2>2. /\ \A j \in 1 .. Len(r) : from(j) \in 1 .. Len(s) /\ from(j) # i
        /\ \A j, k \in 1 .. Len(r) : from(j) = from(k) => j = k
    BY <1>5
  <2>3. \A k \in 1 .. Len(s) : k # i => \E j \in 1 .. Len(r) : from(j) = k
    <3> SUFFICES ASSUME NEW k \in 1 .. Len(s), k # i
                 PROVE  \E j \in 1 .. Len(r) : from(j) = k
      OBVIOUS
    <3>1. CASE k < i
      <4>1. k \in 1 .. Len(r) /\ from(k) = k
        BY <1>5, <3>1
      <4> HIDE DEF from
      <4> QED
        BY <4>1
    <3>2. CASE k > i
      <4>1. k - 1 \in 1 .. Len(r) /\ from(k - 1) = k
        BY <1>5, <3>2
      <4> HIDE DEF from
      <4> QED
        BY <4>1
    <3> QED
      BY <3>1, <3>2
  <2> HIDE DEF from
  <2>4. \A j \in 1 .. Len(r) : r[j] = s[from(j)]
    BY <1>5, <1>6
  <2>5. DOMAIN r = 1 .. Len(r) /\ DOMAIN s = 1 .. Len(s)
    BY <1>4
  <2>6. IsInjective(r)
    BY <2>1, <2>2, <2>4, <2>5 DEF IsInjective
  <2>7. ToSet(r) = {r[j] : j \in 1 .. Len(r)} /\ ToSet(s) = {s[j] : j \in 1 .. Len(s)}
    BY <2>5 DEF ToSet
  <2>8. ToSet(r) = ToSet(s) \ {s[i]}
    BY <2>1, <2>2, <2>3, <2>4, <2>7, SMTT(30)
  <2> QED
    BY <2>6, <2>8
<1> QED
  BY <1>1, <1>4, <1>5, <1>6, <1>7

-------------------------------------------------------------------------------
(* Semaphores, on which the members of C wait *)

SemOf(C) == [ok : BOOLEAN, count : Int, queue : Seq(C)]

\* A semaphore's queue holds as many as its count is below zero.
SoundSem(C, s) ==
  /\ s \in SemOf(C) /\ IsInjective(s.queue)
  /\ Len(s.queue) = IF s.count < 0 THEN -s.count ELSE 0
  /\ ~s.ok => s = BadSem

\* The units of a semaphore: those that may be taken, and those that were given to
\* members of E who have not run since.
Units(E, s) == Avail(s) + Cardinality({p \in E : ~Queued(s, p)})

\* The members of E that a semaphore has let through.
Through(E, s) == {p \in E : ~Queued(s, p)}

\* What a sound semaphore is made of.
LEMMA SemFacts ==
  ASSUME NEW C, NEW s, SoundSem(C, s)
  PROVE  /\ s \in SemOf(C) /\ s.ok \in BOOLEAN /\ s.count \in Int /\ s.queue \in Seq(C)
         /\ Len(s.queue) \in Nat /\ ToSet(s.queue) \subseteq C
         /\ s.count >= 0 => s.queue = <<>> /\ ToSet(s.queue) = {}
         /\ s.count < 0 => s.queue # <<>> /\ Len(s.queue) = -s.count
         /\ Avail(s) \in Nat
<1>1. s \in SemOf(C) /\ s.ok \in BOOLEAN /\ s.count \in Int /\ s.queue \in Seq(C) /\ Len(s.queue) \in Nat
  BY DEF SoundSem, SemOf
<1>2. ToSet(s.queue) \subseteq C
  <2>1. ToSet(s.queue) = {s.queue[i] : i \in 1 .. Len(s.queue)}
    BY <1>1 DEF ToSet
  <2> QED
    BY <1>1, <2>1
<1>3. ASSUME s.count >= 0
      PROVE  s.queue = <<>> /\ ToSet(s.queue) = {}
  <2>1. Len(s.queue) = 0
    BY <1>1, <1>3 DEF SoundSem
  <2>2. s.queue = <<>>
    BY <1>1, <2>1, EmptySeq
  <2> QED
    BY <2>2 DEF ToSet
<1>4. ASSUME s.count < 0
      PROVE  s.queue # <<>> /\ Len(s.queue) = -s.count
  <2>1. Len(s.queue) = -s.count
    BY <1>1, <1>4 DEF SoundSem
  <2>2. Len(s.queue) # 0
    BY <1>1, <1>4, <2>1
  <2> QED
    BY <2>1, <2>2, EmptySeq
<1>5. Avail(s) \in Nat
  BY <1>1 DEF Avail
<1> QED
  BY <1>1, <1>2, <1>3, <1>4, <1>5

\* What the number of units is.
LEMMA SemUnits ==
  ASSUME NEW C, IsFiniteSet(C), NEW s, SoundSem(C, s), NEW E \in SUBSET C
  PROVE  /\ IsFiniteSet(E) /\ IsFiniteSet(Through(E, s)) /\ Cardinality(Through(E, s)) \in Nat
         /\ Units(E, s) = Avail(s) + Cardinality(Through(E, s))
         /\ Units(E, s) \in Nat
         /\ s.count >= 0 => Through(E, s) = E
<1>1. IsFiniteSet(E)
  BY FS_Subset
<1>2. IsFiniteSet(Through(E, s)) /\ Cardinality(Through(E, s)) \in Nat
  BY <1>1, FS_Subset, FS_CardinalityType DEF Through
<1>3. Units(E, s) = Avail(s) + Cardinality(Through(E, s))
  BY DEF Units, Through
<1>4. Avail(s) \in Nat /\ (s.count >= 0 => ToSet(s.queue) = {})
  BY SemFacts
<1>5. s.count >= 0 => Through(E, s) = E
  BY <1>4 DEF Through, Queued
<1>6. Units(E, s) \in Nat
  BY <1>2, <1>3, <1>4
<1> QED
  BY <1>1, <1>2, <1>3, <1>5, <1>6

\* A unit is taken by one who does not wait.
LEMMA SemTakes ==
  ASSUME NEW C, IsFiniteSet(C), NEW s, SoundSem(C, s), s.ok, NEW p \in C, s.count > 0
  PROVE  /\ SoundSem(C, Waits(s, p)) /\ Waits(s, p).ok /\ Waits(s, p).queue = <<>>
         /\ ToSet(Waits(s, p).queue) = {}
         /\ \A E \in SUBSET C : Units(E, Waits(s, p)) = Units(E, s) - 1 /\ Units(E, s) >= 1
<1> DEFINE t == Waits(s, p)
<1>1. /\ s \in SemOf(C) /\ s.count \in Int /\ s.queue = <<>> /\ ToSet(s.queue) = {}
      /\ s.queue \in Seq(C)
  <2>1. s.count >= 0
    BY SemFacts
  <2> QED
    BY <2>1, SemFacts
<1> DEFINE q == s.queue
<1>2. t.ok = s.ok /\ t.count = s.count - 1 /\ t.queue = q /\ t \in SemOf(C)
  <2>1. ~(s.count <= 0)
    BY <1>1
  <2> DEFINE c == s.count - 1
  <2>2. t = [s EXCEPT !.count = c, !.queue = q]
    BY <2>1 DEF Waits
  <2>3. q \in Seq(C)
    BY <1>1
  <2>4. c \in Int
    BY <1>1
  <2> HIDE DEF t, q, c
  <2>5. t \in SemOf(C) /\ t.ok = s.ok /\ t.count = c /\ t.queue = q
    <3>1. t \in SemOf(C)
      BY <1>1, <2>2, <2>3, <2>4 DEF SemOf
    <3>2. t.ok = s.ok
      BY <1>1, <2>2 DEF SemOf
    <3>3. t.count = c
      BY <1>1, <2>2 DEF SemOf
    <3>4. t.queue = q
      BY <1>1, <2>2 DEF SemOf
    <3> QED
      BY <3>1, <3>2, <3>3, <3>4
  <2> QED
    BY <2>5 DEF c
<1> HIDE DEF t
<1>3. SoundSem(C, t)
  <2>1. IsInjective(t.queue) /\ Len(t.queue) = 0
    BY <1>1, <1>2 DEF IsInjective
  <2>2. ~(t.count < 0)
    BY <1>1, <1>2
  <2> QED
    BY <1>2, <2>1, <2>2 DEF SoundSem
<1>4. ASSUME NEW E \in SUBSET C
      PROVE  Units(E, t) = Units(E, s) - 1 /\ Units(E, s) >= 1
  <2>1. Through(E, t) = Through(E, s)
    BY <1>2 DEF Through, Queued
  <2>2. /\ Units(E, t) = Avail(t) + Cardinality(Through(E, s))
        /\ Units(E, s) = Avail(s) + Cardinality(Through(E, s))
        /\ Cardinality(Through(E, s)) \in Nat
    BY <1>3, <2>1, SemUnits
  <2>3. Avail(s) = s.count /\ Avail(t) = s.count - 1
    BY <1>1, <1>2 DEF Avail
  <2> QED
    BY <1>1, <2>2, <2>3
<1> QED
  BY <1>1, <1>2, <1>3, <1>4 DEF t

\* One who finds no unit is queued.
LEMMA SemQueues ==
  ASSUME NEW C, IsFiniteSet(C), NEW s, SoundSem(C, s), s.ok, NEW p \in C, ~(s.count > 0), ~Queued(s, p)
  PROVE  /\ SoundSem(C, Waits(s, p)) /\ Waits(s, p).ok
         /\ ToSet(Waits(s, p).queue) = ToSet(s.queue) \cup {p}
         /\ \A E \in SUBSET C : p \notin E => Units(E \cup {p}, Waits(s, p)) = Units(E, s)
<1> DEFINE t == Waits(s, p)
<1>1. s \in SemOf(C) /\ s.count \in Int /\ s.queue \in Seq(C)
  BY SemFacts
<1> DEFINE q == Append(s.queue, p)
<1>2. t.ok = s.ok /\ t.count = s.count - 1 /\ t.queue = q /\ t \in SemOf(C)
  <2>1. s.count <= 0
    BY <1>1
  <2> DEFINE c == s.count - 1
  <2>2. t = [s EXCEPT !.count = c, !.queue = q]
    BY <2>1 DEF Waits
  <2>3. q \in Seq(C)
    BY <1>1
  <2>4. c \in Int
    BY <1>1
  <2> HIDE DEF t, q, c
  <2>5. t \in SemOf(C) /\ t.ok = s.ok /\ t.count = c /\ t.queue = q
    <3>1. t \in SemOf(C)
      BY <1>1, <2>2, <2>3, <2>4 DEF SemOf
    <3>2. t.ok = s.ok
      BY <1>1, <2>2 DEF SemOf
    <3>3. t.count = c
      BY <1>1, <2>2 DEF SemOf
    <3>4. t.queue = q
      BY <1>1, <2>2 DEF SemOf
    <3> QED
      BY <3>1, <3>2, <3>3, <3>4
  <2> QED
    BY <2>5 DEF c
<1>3. /\ Len(t.queue) = Len(s.queue) + 1 /\ ToSet(t.queue) = ToSet(s.queue) \cup {p}
      /\ IsInjective(t.queue)
  <2> DEFINE r == s.queue
  <2>1. IsInjective(s.queue) /\ p \notin ToSet(s.queue)
    BY DEF SoundSem, Queued
  <2>4. r \in Seq(C) /\ IsInjective(r) /\ p \notin ToSet(r)
    BY <1>1, <2>1
  <2> HIDE DEF q, t, r
  <2>3. /\ Len(Append(r, p)) = Len(r) + 1 /\ ToSet(Append(r, p)) = ToSet(r) \cup {p}
        /\ IsInjective(Append(r, p))
    BY <2>4, AppendIn
  <2> QED
    BY <1>2, <2>3 DEF r, q
<1> HIDE DEF t, q
<1>4. SoundSem(C, t)
  <2>1. Len(s.queue) = IF s.count < 0 THEN -s.count ELSE 0
    BY DEF SoundSem
  <2>2. Len(t.queue) = IF t.count < 0 THEN -t.count ELSE 0
    BY <1>1, <1>2, <1>3, <2>1
  <2> QED
    BY <1>2, <1>3, <2>2 DEF SoundSem
<1>5. ASSUME NEW E \in SUBSET C, p \notin E
      PROVE  Units(E \cup {p}, t) = Units(E, s)
  <2>1. Through(E \cup {p}, t) = Through(E, s)
    BY <1>3, <1>5 DEF Through, Queued
  <2>2. /\ Units(E \cup {p}, t) = Avail(t) + Cardinality(Through(E, s))
        /\ Units(E, s) = Avail(s) + Cardinality(Through(E, s))
    BY <1>4, <2>1, SemUnits
  <2>3. Avail(s) = 0 /\ Avail(t) = 0
    BY <1>1, <1>2 DEF Avail
  <2> QED
    BY <2>2, <2>3
<1> QED
  BY <1>2, <1>3, <1>4, <1>5 DEF t

\* A signal adds a unit: one more to take, or the first of the queue is let through.
LEMMA SemAdds ==
  ASSUME NEW C, IsFiniteSet(C), NEW s, SoundSem(C, s)
  PROVE  /\ SoundSem(C, Signaled(s)) /\ Signaled(s).ok = s.ok
         /\ ToSet(Signaled(s).queue) \subseteq ToSet(s.queue)
         /\ \A E \in SUBSET C : s.ok /\ ToSet(s.queue) \subseteq E =>
              Units(E, Signaled(s)) = Units(E, s) + 1
<1> DEFINE t == Signaled(s)
<1>1. /\ s \in SemOf(C) /\ s.count \in Int /\ s.queue \in Seq(C) /\ Len(s.queue) \in Nat
      /\ s.count >= 0 => s.queue = <<>> /\ ToSet(s.queue) = {}
      /\ s.count < 0 => s.queue # <<>> /\ Len(s.queue) = -s.count
  BY SemFacts
<1>2. CASE ~s.ok
  BY <1>2 DEF Signaled, SignaledN
<1>3. CASE s.ok
  <2> DEFINE n == IF 1 < Len(s.queue) THEN 1 ELSE Len(s.queue)
             q == SubSeq(s.queue, n + 1, Len(s.queue))
  <2>1. t.ok = s.ok /\ t.count = s.count + 1 /\ t.queue = q /\ t \in SemOf(C)
    <3> DEFINE c == s.count + 1
    <3>1. t = [s EXCEPT !.count = c, !.queue = q]
      BY <1>3, Zenon DEF Signaled, SignaledN
    <3>2. q \in Seq(C)
      BY <1>1
    <3>3. c \in Int
      BY <1>1
    <3> HIDE DEF t, q, c
    <3>4. t \in SemOf(C) /\ t.ok = s.ok /\ t.count = c /\ t.queue = q
      <4>1. t \in SemOf(C)
        BY <1>1, <3>1, <3>2, <3>3 DEF SemOf
      <4>2. t.ok = s.ok
        BY <1>1, <3>1 DEF SemOf
      <4>3. t.count = c
        BY <1>1, <3>1 DEF SemOf
      <4>4. t.queue = q
        BY <1>1, <3>1 DEF SemOf
      <4> QED
        BY <4>1, <4>2, <4>3, <4>4
    <3> QED
      BY <3>4 DEF c
  <2> HIDE DEF t
  <2>2. CASE s.count >= 0
    <3>1. t.queue = <<>>
      <4>1. s.queue = <<>> /\ Len(<<>>) = 0
        BY <1>1, <2>2
      <4>2. n = 0
        BY <4>1
      <4>3. q = SubSeq(<<>>, 1, 0)
        BY <4>1, <4>2
      <4>4. SubSeq(<<>>, 1, 0) = <<>>
        OBVIOUS
      <4> QED
        BY <2>1, <4>3, <4>4
    <3>2. t.queue = s.queue
      BY <1>1, <2>2, <3>1
    <3>3. SoundSem(C, t)
      <4>1. IsInjective(t.queue) /\ Len(t.queue) = 0
        BY <3>1 DEF IsInjective
      <4>2. ~(t.count < 0)
        BY <1>1, <2>1, <2>2
      <4> QED
        BY <1>3, <2>1, <4>1, <4>2 DEF SoundSem
    <3>4. ASSUME NEW E \in SUBSET C
          PROVE  Units(E, t) = Units(E, s) + 1
      <4>1. Through(E, t) = Through(E, s)
        BY <3>2 DEF Through, Queued
      <4>2. /\ Units(E, t) = Avail(t) + Cardinality(Through(E, s))
            /\ Units(E, s) = Avail(s) + Cardinality(Through(E, s))
            /\ Cardinality(Through(E, s)) \in Nat
        BY <3>3, <4>1, SemUnits
      <4>3. Avail(s) = s.count /\ Avail(t) = s.count + 1
        BY <1>1, <2>1, <2>2 DEF Avail
      <4> QED
        BY <1>1, <4>2, <4>3
    <3> QED
      BY <2>1, <3>2, <3>3, <3>4 DEF t
  <2>3. CASE s.count < 0
    <3>1. s.queue # <<>> /\ Len(s.queue) = -s.count
      BY <1>1, <2>3
    <3>2. t.queue = Tail(s.queue)
      <4>1. n = 1
        BY <1>1, <2>3, <3>1
      <4>2. Tail(s.queue) = SubSeq(s.queue, 2, Len(s.queue))
        BY <1>1, <3>1, TailIsSubSeq
      <4>3. q = SubSeq(s.queue, 2, Len(s.queue))
        <5> HIDE DEF n
        <5>1. n + 1 = 2
          BY <4>1
        <5> QED
          BY <5>1
      <4> QED
        BY <2>1, <4>2, <4>3
    <3> DEFINE h == Head(s.queue)
    <3>3. /\ h \in ToSet(s.queue) /\ Len(t.queue) = Len(s.queue) - 1
          /\ ToSet(s.queue) = ToSet(t.queue) \cup {h}
          /\ h \notin ToSet(t.queue) /\ IsInjective(t.queue)
      BY <1>1, <3>1, <3>2, HeadOut DEF SoundSem
    <3> HIDE DEF h
    <3>4. SoundSem(C, t)
      <4>1. Len(t.queue) = IF t.count < 0 THEN -t.count ELSE 0
        BY <1>1, <2>1, <2>3, <3>1, <3>3
      <4> QED
        BY <1>3, <2>1, <3>3, <4>1 DEF SoundSem
    <3>5. ASSUME NEW E \in SUBSET C, ToSet(s.queue) \subseteq E
          PROVE  Units(E, t) = Units(E, s) + 1
      <4>1. Through(E, t) = Through(E, s) \cup {h} /\ h \notin Through(E, s)
        BY <3>3, <3>5 DEF Through, Queued
      <4>2. IsFiniteSet(Through(E, s)) /\ Cardinality(Through(E, s)) \in Nat
        BY SemUnits
      <4>3. Cardinality(Through(E, t)) = Cardinality(Through(E, s)) + 1
        BY <4>1, <4>2, FS_AddElement
      <4>4. /\ Units(E, t) = Avail(t) + Cardinality(Through(E, t))
            /\ Units(E, s) = Avail(s) + Cardinality(Through(E, s))
        BY <3>4, SemUnits
      <4>5. Avail(s) = 0 /\ Avail(t) = 0
        BY <1>1, <2>1, <2>3 DEF Avail
      <4> QED
        BY <4>2, <4>3, <4>4, <4>5
    <3> QED
      BY <2>1, <3>3, <3>4, <3>5 DEF t
  <2> QED
    BY <1>1, <2>2, <2>3
<1> QED
  BY <1>2, <1>3

\* One who was let through goes on.
LEMMA SemGoesOn ==
  ASSUME NEW C, IsFiniteSet(C), NEW s, SoundSem(C, s), NEW E \in SUBSET C, NEW p \in E, ~Queued(s, p)
  PROVE  Units(E \ {p}, s) = Units(E, s) - 1 /\ Units(E, s) >= 1
<1> DEFINE A == Through(E, s)
           B == Through(E \ {p}, s)
<1>1. B = A \ {p} /\ p \in A
  BY DEF Through
<1>2. /\ IsFiniteSet(A) /\ Cardinality(A) \in Nat /\ Cardinality(B) \in Nat
      /\ Units(E, s) = Avail(s) + Cardinality(A) /\ Units(E \ {p}, s) = Avail(s) + Cardinality(B)
  BY SemUnits
<1> HIDE DEF A, B
<1>3. Cardinality(B) = Cardinality(A) - 1
  BY <1>1, <1>2, FS_RemoveElement
<1>4. Avail(s) \in Nat
  BY SemFacts
<1> QED
  BY <1>2, <1>3, <1>4

\* A new semaphore, and one that there is not.
LEMMA SemFresh ==
  ASSUME NEW C, IsFiniteSet(C), NEW n \in Nat
  PROVE  /\ SoundSem(C, NewSem(n)) /\ NewSem(n).ok /\ ToSet(NewSem(n).queue) = {}
         /\ SoundSem(C, BadSem) /\ ~BadSem.ok /\ ToSet(BadSem.queue) = {}
         /\ Units({}, NewSem(n)) = n
<1>1. SoundSem(C, NewSem(n)) /\ NewSem(n).ok /\ NewSem(n).queue = <<>> /\ NewSem(n).count = n
  BY DEF NewSem, SoundSem, SemOf, IsInjective
<1>2. SoundSem(C, BadSem) /\ ~BadSem.ok /\ BadSem.queue = <<>>
  BY DEF BadSem, SoundSem, SemOf, IsInjective
<1>3. ToSet(<<>>) = {}
  BY DEF ToSet
<1>4. Units({}, NewSem(n)) = n
  <2>1. Through({}, NewSem(n)) = {}
    BY DEF Through
  <2>2. Units({}, NewSem(n)) = Avail(NewSem(n)) + Cardinality({})
    BY <1>1, <2>1, SemUnits
  <2>3. Avail(NewSem(n)) = n
    BY <1>1 DEF Avail
  <2> QED
    BY <2>2, <2>3, FS_EmptySet
<1> QED
  BY <1>1, <1>2, <1>3, <1>4

\* What semreset and semdelete leave.
LEMMA SemEmptied ==
  ASSUME NEW C, IsFiniteSet(C), NEW s, SoundSem(C, s), NEW n \in Nat
  PROVE  /\ Emptied(s, n) \in {NewSem(n), BadSem} /\ (Emptied(s, n).ok <=> s.ok)
         /\ SoundSem(C, Emptied(s, n)) /\ ToSet(Emptied(s, n).queue) = {}
<1>1. CASE s.ok
  BY <1>1, SemFresh DEF Emptied
<1>2. CASE ~s.ok
  <2>1. Emptied(s, n) = BadSem
    BY <1>2 DEF Emptied, SoundSem
  <2> QED
    BY <1>2, <2>1, SemFresh
<1> QED
  BY <1>1, <1>2
===============================================================================
