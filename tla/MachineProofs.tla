---------------------------- MODULE MachineProofs ----------------------------
(***************************************************************************)
(* The heap, the Ethernet rings and the clients of UDP: the proofs of      *)
(* HeapExact, RingsInOrder, AnswersMatch and SlotsReturned.                *)
(*                                                                         *)
(* The first two are about numbers reduced modulo a constant: the units of *)
(* the heap and the places of a descriptor ring.  The clients are held     *)
(* together by SvInv, which says what a call knows of its server and what  *)
(* may be on its way to it.                                                *)
(***************************************************************************)
EXTENDS Memory, Ether, Services, CommonProofs, FunctionTheorems, SequenceTheorems

-------------------------------------------------------------------------------
(* Sizes and units *)

\* What roundmb is meant for: a size near the end of the address space wraps to 0.
Rounds == \A bytes \in Requests : bytes <= AddrWord - MemBlk

Unit == {a \in Nat : a % MemBlk = 0}

LEMMA UnitSum ==
  \A a, b \in Int : a % MemBlk = 0 /\ b % MemBlk = 0 =>
    (a + b) % MemBlk = 0 /\ (a - b) % MemBlk = 0
<1>1. MemBlk \in Nat \ {0}
  BY MemoryAssumption
<1> QED
  BY <1>1, MultipleSum

LEMMA UnitMultiple == \A a \in Int : a % MemBlk = 0 <=> \E q \in Int : a = MemBlk * q
<1>1. MemBlk \in Nat \ {0}
  BY MemoryAssumption
<1> QED
  BY <1>1, Multiple

LEMMA UnitGap ==
  \A a, b \in Int : a % MemBlk = 0 /\ b % MemBlk = 0 /\ a < b => a + MemBlk <= b
<1>1. MemBlk \in Nat \ {0}
  BY MemoryAssumption
<1> QED
  BY <1>1, MultipleGap

LEMMA RoundmbFacts ==
  ASSUME Rounds, NEW bytes \in Requests, bytes # 0
  PROVE  /\ Roundmb(bytes) \in Unit /\ bytes <= Roundmb(bytes) /\ Roundmb(bytes) < bytes + MemBlk
         /\ Roundmb(bytes) > 0
<1> USE MemoryAssumption
<1>1. bytes \in Nat /\ bytes > 0 /\ bytes <= AddrWord - MemBlk /\ MemBlk \in Nat \ {0} /\ AddrWord \in Int
  BY DEF Rounds
<1> DEFINE b == bytes + MemBlk - 1
           q == b \div MemBlk
<1>2. b \in Int /\ q \in Int /\ b % MemBlk \in 0 .. MemBlk - 1 /\ MemBlk * q + (b % MemBlk) = b
  <2>1. b \in Int
    BY <1>1
  <2> HIDE DEF b
  <2> QED
    BY <1>1, <2>1, DivMod
<1> DEFINE n == q * MemBlk
<1>3. n \in Int /\ n = MemBlk * q
  <2> HIDE DEF q
  <2> QED
    BY <1>1, <1>2
<1>4. bytes <= n /\ n < bytes + MemBlk
  <2> HIDE DEF q, n
  <2> QED
    BY <1>1, <1>2, <1>3
<1>5. n \in 0 .. AddrWord - 1 /\ AddrWord \in Nat \ {0}
  BY <1>1, <1>2, <1>3, <1>4
<1>6. n % AddrWord = n
  <2> HIDE DEF n
  <2>1. (AddrWord * 0 + n) % AddrWord = n
    BY <1>5, ModIs
  <2>2. AddrWord * 0 + n = n
    BY <1>5
  <2> QED
    BY <2>1, <2>2
<1>7. n % MemBlk = 0
  <2> HIDE DEF q, n
  <2> QED
    BY <1>1, <1>2, <1>3, Multiple
<1>8. Roundmb(bytes) = n
  BY <1>6 DEF Roundmb
<1> HIDE DEF n
<1> QED
  BY <1>1, <1>4, <1>5, <1>7, <1>8 DEF Unit

\* n bytes hold as many units as MemBlk fits into n.
LEMMA UnitsCounted ==
  ASSUME NEW at \in Unit, NEW n \in Unit
  PROVE  /\ IsFiniteSet(UnitsOf(at, n))
         /\ MemBlk * Cardinality(UnitsOf(at, n)) = n
<1>1. MemBlk \in Nat \ {0} /\ at \in Nat /\ n \in Nat /\ at % MemBlk = 0 /\ n % MemBlk = 0
  BY MemoryAssumption DEF Unit
<1>2. PICK u \in Int : n = MemBlk * u
  BY <1>1, UnitMultiple
<1>3. u \in Nat
  <2>1. u <= -1 => MemBlk * u <= -MemBlk
    BY <1>1
  <2> QED
    BY <1>1, <1>2, <2>1
<1> DEFINE S == 0 .. u - 1
           T == UnitsOf(at, n)
           f == [k \in S |-> at + MemBlk * k]
<1>4. \A k \in S : f[k] \in T
  <2> SUFFICES ASSUME NEW k \in S
               PROVE  at + MemBlk * k \in T
    OBVIOUS
  <2>1. MemBlk * k \in Int /\ MemBlk * k >= 0
    BY <1>1
  <2>2. MemBlk * k <= MemBlk * (u - 1)
    BY <1>1, <1>3
  <2>3. MemBlk * (u - 1) = n - MemBlk
    BY <1>1, <1>2
  <2>4. (MemBlk * k) % MemBlk = 0
    <3> DEFINE c == MemBlk * k
    <3>1. c \in Int /\ c = MemBlk * k /\ k \in Int
      BY <1>1
    <3> HIDE DEF c
    <3>2. c % MemBlk = 0
      BY <1>1, <3>1, Multiple
    <3> QED
      BY <3>1, <3>2
  <2> DEFINE c == MemBlk * k
  <2>8. c \in Int /\ c >= 0 /\ c <= n - MemBlk /\ c % MemBlk = 0
    BY <2>1, <2>2, <2>3, <2>4
  <2> HIDE DEF c
  <2>5. (at + c) % MemBlk = 0
    <3>1. at \in Int /\ c \in Int /\ at % MemBlk = 0 /\ c % MemBlk = 0
      BY <1>1, <2>8
    <3> QED
      BY <3>1, UnitSum, Zenon
  <2>6. at + c \in at .. at + n - 1
    BY <1>1, <2>8
  <2>7. at + c \in T
    BY <2>5, <2>6 DEF UnitsOf
  <2> QED
    BY <2>7 DEF c
<1>5. \A j, k \in S : f[j] = f[k] => j = k
  <2> SUFFICES ASSUME NEW j \in S, NEW k \in S, at + MemBlk * j = at + MemBlk * k
               PROVE  j = k
    OBVIOUS
  <2>1. MemBlk * j + 0 = MemBlk * k + 0
    BY <1>1
  <2> QED
    BY <1>1, <2>1, DivUnique
<1>6. \A a \in T : \E k \in S : f[k] = a
  <2> SUFFICES ASSUME NEW a \in T
               PROVE  \E k \in S : at + MemBlk * k = a
    OBVIOUS
  <2>1. a \in Int /\ at <= a /\ a < at + n /\ a % MemBlk = 0
    BY <1>1 DEF UnitsOf
  <2>2. (a - at) % MemBlk = 0
    BY <1>1, <2>1, UnitSum
  <2>3. PICK k \in Int : a - at = MemBlk * k
    BY <1>1, <2>1, <2>2, Multiple
  <2>4. k >= 0
    <3>1. k <= -1 => MemBlk * k <= -MemBlk
      BY <1>1
    <3> QED
      BY <1>1, <2>1, <2>3, <3>1
  <2>5. k < u
    <3>1. k >= u => MemBlk * k >= MemBlk * u
      BY <1>1
    <3> QED
      BY <1>1, <1>2, <2>1, <2>3, <3>1
  <2>6. k \in S /\ at + MemBlk * k = a
    BY <1>1, <1>3, <2>1, <2>3, <2>4, <2>5
  <2> QED
    BY <2>6
<1>7. f \in Bijection(S, T)
  <2>1. f \in [S -> T]
    BY <1>4
  <2> HIDE DEF f, T
  <2> QED
    BY <1>5, <1>6, <2>1, Fun_IsBij
<1>8. IsFiniteSet(S) /\ Cardinality(S) = u
  <2>1. Cardinality(S) = IF 0 > u - 1 THEN 0 ELSE u - 1 - 0 + 1
    BY <1>3, FS_Interval
  <2> QED
    BY <1>3, <2>1, FS_Interval
<1>9. ExistsBijection(S, T)
  BY <1>7 DEF ExistsBijection
<1> HIDE DEF S, T
<1>10. IsFiniteSet(T) /\ Cardinality(T) = u
  BY <1>8, <1>9, FS_Bijection
<1> QED
  BY <1>2, <1>10 DEF T

-------------------------------------------------------------------------------
(* Lists of blocks *)

FreeBlock == [at : Unit, len : Unit \ {0}]

\* Blocks in the order of their addresses, no two of which touch.
Ordered(list) == \A i, j \in 1 .. Len(list) : i < j => list[i].at + list[i].len < list[j].at

Holds(b, x) == b.at <= x /\ x < b.at + b.len
Covers(list, x) == \E i \in 1 .. Len(list) : Holds(list[i], x)

\* A list where block b stands for those between the first h and the one at k.
Put(r, list, h, k, b) ==
  /\ r \in Seq(FreeBlock) /\ Len(r) = h + 1 + Len(list) + 1 - k
  /\ \A i \in 1 .. h : r[i] = list[i]
  /\ r[h + 1] = b
  /\ \A i \in k .. Len(list) : r[i - k + h + 2] = list[i]

\* A list without its block i.
Dropped(r, list, i) ==
  /\ r \in Seq(FreeBlock) /\ Len(r) = Len(list) - 1
  /\ \A j \in 1 .. Len(r) : r[j] = list[IF j < i THEN j ELSE j + 1]

LEMMA BlockNumbers ==
  ASSUME NEW b \in FreeBlock
  PROVE  b.at \in Nat /\ b.len \in Nat /\ b.len > 0
         /\ b.at \in Unit /\ b.len \in Unit /\ b.at + b.len \in Unit
<1>1. b.at \in Unit /\ b.len \in Unit /\ b.len # 0
  BY DEF FreeBlock
<1>2. b.at \in Nat /\ b.len \in Nat /\ b.at % MemBlk = 0 /\ b.len % MemBlk = 0
  BY <1>1 DEF Unit
<1>3. b.at \in Int /\ b.len \in Int
  BY <1>2
<1>4. (b.at + b.len) % MemBlk = 0
  BY <1>2, <1>3, UnitSum, Zenon
<1>5. b.at + b.len \in Nat
  BY <1>2
<1>6. b.at + b.len \in Unit
  BY <1>4, <1>5 DEF Unit
<1> QED
  BY <1>1, <1>2, <1>6

LEMMA PutFacts ==
  ASSUME NEW list \in Seq(FreeBlock), Ordered(list), NEW h \in 0 .. Len(list),
         NEW k \in h + 1 .. Len(list) + 1, NEW b \in FreeBlock, NEW r, Put(r, list, h, k, b),
         h > 0 => list[h].at + list[h].len < b.at,
         k <= Len(list) => b.at + b.len < list[k].at
  PROVE  /\ Ordered(r)
         /\ \A x \in Nat : Covers(r, x) <=>
              Holds(b, x) \/ \E i \in 1 .. Len(list) : (i <= h \/ i >= k) /\ Holds(list[i], x)
<1>1. /\ Len(r) = h + 1 + Len(list) + 1 - k /\ Len(list) \in Nat
      /\ \A i \in 1 .. h : r[i] = list[i]
      /\ r[h + 1] = b
      /\ \A i \in k .. Len(list) : r[i - k + h + 2] = list[i]
  BY DEF Put
<1>2. \A i \in 1 .. Len(list) : list[i] \in FreeBlock
  OBVIOUS
<1>3. \A i \in 1 .. Len(list) :
        list[i].at \in Nat /\ list[i].len \in Nat /\ list[i].len > 0
  BY <1>2, BlockNumbers
<1>4. b.at \in Nat /\ b.len \in Nat /\ b.len > 0
  BY BlockNumbers
<1> DEFINE From(j) == IF j <= h THEN j ELSE j - (h + 2) + k
<1>5. \A j \in 1 .. Len(r) : j # h + 1 =>
        From(j) \in 1 .. Len(list) /\ r[j] = list[From(j)]
  <2> SUFFICES ASSUME NEW j \in 1 .. Len(r), j # h + 1
               PROVE  From(j) \in 1 .. Len(list) /\ r[j] = list[From(j)]
    OBVIOUS
  <2>1. CASE j <= h
    BY <1>1, <2>1
  <2>2. CASE j > h + 1
    <3> DEFINE i == j - (h + 2) + k
    <3>1. i \in k .. Len(list) /\ i - k + h + 2 = j /\ From(j) = i
      BY <1>1, <2>2
    <3> HIDE DEF i, From
    <3>2. r[i - k + h + 2] = list[i]
      BY <1>1, <3>1
    <3>3. i \in 1 .. Len(list)
      BY <3>1
    <3>4. r[j] = list[i]
      BY <3>1, <3>2
    <3> QED
      BY <3>1, <3>3, <3>4
  <2> QED
    BY <2>1, <2>2
<1>6. \A i \in 1 .. Len(list) : i <= h => list[i].at + list[i].len < b.at
  <2> SUFFICES ASSUME NEW i \in 1 .. Len(list), i <= h
               PROVE  list[i].at + list[i].len < b.at
    OBVIOUS
  <2>1. CASE i = h
    BY <2>1
  <2>2. CASE i < h
    <3>1. list[i].at + list[i].len < list[h].at /\ list[h].at + list[h].len < b.at /\ h \in 1 .. Len(list)
      BY <2>2 DEF Ordered
    <3>2. list[h].at \in Nat /\ list[h].len \in Nat /\ list[h].len > 0
      BY <1>3, <3>1
    <3>3. list[i].at \in Nat /\ list[i].len \in Nat
      BY <1>3
    <3> QED
      BY <1>4, <3>1, <3>2, <3>3, SMTT(30)
  <2> QED
    BY <2>1, <2>2
<1>7. \A i \in 1 .. Len(list) : i >= k => b.at + b.len < list[i].at
  <2> SUFFICES ASSUME NEW i \in 1 .. Len(list), i >= k
               PROVE  b.at + b.len < list[i].at
    OBVIOUS
  <2>1. CASE i = k
    BY <2>1
  <2>2. CASE i > k
    <3>1. list[k].at + list[k].len < list[i].at /\ b.at + b.len < list[k].at /\ k \in 1 .. Len(list)
      BY <2>2 DEF Ordered
    <3> QED
      BY <1>3, <1>4, <3>1
  <2> QED
    BY <2>1, <2>2
<1>8. Ordered(r)
  <2> SUFFICES ASSUME NEW i \in 1 .. Len(r), NEW j \in 1 .. Len(r), i < j
               PROVE  r[i].at + r[i].len < r[j].at
    BY DEF Ordered
  <2>1. CASE i = h + 1
    <3>1. From(j) \in 1 .. Len(list) /\ From(j) >= k /\ r[j] = list[From(j)]
      BY <1>1, <1>5, <2>1
    <3> HIDE DEF From
    <3> QED
      BY <1>1, <1>7, <2>1, <3>1
  <2>2. CASE j = h + 1
    <3>1. From(i) \in 1 .. Len(list) /\ From(i) <= h /\ r[i] = list[From(i)]
      BY <1>1, <1>5, <2>2
    <3> HIDE DEF From
    <3> QED
      BY <1>1, <1>6, <2>2, <3>1
  <2>3. CASE i # h + 1 /\ j # h + 1
    <3>1. /\ From(i) \in 1 .. Len(list) /\ r[i] = list[From(i)]
          /\ From(j) \in 1 .. Len(list) /\ r[j] = list[From(j)]
      BY <1>5, <2>3
    <3>2. From(i) < From(j)
      <4>1. CASE i > h + 1
        BY <2>3, <4>1
      <4>2. CASE i <= h
        BY <2>3, <4>2
      <4> QED
        BY <2>3, <4>1, <4>2
    <3> HIDE DEF From
    <3> QED
      BY <3>1, <3>2 DEF Ordered
  <2> QED
    BY <2>1, <2>2, <2>3
<1>9. ASSUME NEW x \in Nat, Covers(r, x)
      PROVE  Holds(b, x) \/ \E i \in 1 .. Len(list) : (i <= h \/ i >= k) /\ Holds(list[i], x)
  <2>1. PICK j \in 1 .. Len(r) : Holds(r[j], x)
    BY <1>9 DEF Covers
  <2>2. CASE j = h + 1
    BY <1>1, <2>1, <2>2
  <2>3. CASE j # h + 1
    <3>1. From(j) \in 1 .. Len(list) /\ r[j] = list[From(j)]
      BY <1>5, <2>3
    <3>2. From(j) <= h \/ From(j) >= k
      BY <1>1, <2>3
    <3> HIDE DEF From
    <3> QED
      BY <2>1, <3>1, <3>2
  <2> QED
    BY <2>2, <2>3
<1>10. ASSUME NEW x \in Nat,
              Holds(b, x) \/ \E i \in 1 .. Len(list) : (i <= h \/ i >= k) /\ Holds(list[i], x)
       PROVE  Covers(r, x)
  <2>1. CASE Holds(b, x)
    <3>1. h + 1 \in 1 .. Len(r)
      BY <1>1
    <3> QED
      BY <1>1, <2>1, <3>1 DEF Covers
  <2>2. ASSUME NEW i \in 1 .. Len(list), i <= h \/ i >= k, Holds(list[i], x)
        PROVE  Covers(r, x)
    <3>1. CASE i <= h
      <4>1. i \in 1 .. Len(r) /\ r[i] = list[i]
        BY <1>1, <3>1
      <4> QED
        BY <2>2, <4>1 DEF Covers
    <3>2. CASE i >= k
      <4> DEFINE j == i - k + h + 2
      <4>1. j \in 1 .. Len(r) /\ r[j] = list[i]
        BY <1>1, <3>2
      <4> HIDE DEF j
      <4> QED
        BY <2>2, <4>1 DEF Covers
    <3> QED
      BY <2>2, <3>1, <3>2
  <2> QED
    BY <1>10, <2>1, <2>2
<1> QED
  BY <1>8, <1>9, <1>10

LEMMA DroppedFacts ==
  ASSUME NEW list \in Seq(FreeBlock), Ordered(list), NEW i \in 1 .. Len(list), NEW r, Dropped(r, list, i)
  PROVE  /\ Ordered(r)
         /\ \A x \in Nat : Covers(r, x) <=> \E j \in 1 .. Len(list) : j # i /\ Holds(list[j], x)
<1> DEFINE From(j) == IF j < i THEN j ELSE j + 1
<1>1. Len(r) = Len(list) - 1 /\ Len(list) \in Nat /\ \A j \in 1 .. Len(r) : r[j] = list[From(j)]
  BY DEF Dropped
<1>2. /\ \A j \in 1 .. Len(r) : From(j) \in 1 .. Len(list) /\ From(j) # i
      /\ \A j, k \in 1 .. Len(r) : j < k => From(j) < From(k)
      /\ \A j \in 1 .. Len(list) : j # i => \E k \in 1 .. Len(r) : From(k) = j
  <2>1. \A j \in 1 .. Len(r) : From(j) \in 1 .. Len(list) /\ From(j) # i
    BY <1>1
  <2>2. \A j, k \in 1 .. Len(r) : j < k => From(j) < From(k)
    BY <1>1
  <2>3. ASSUME NEW j \in 1 .. Len(list), j # i
        PROVE  \E k \in 1 .. Len(r) : From(k) = j
    <3>1. CASE j < i
      <4>1. j \in 1 .. Len(r) /\ From(j) = j
        BY <1>1, <3>1
      <4> HIDE DEF From
      <4> QED
        BY <4>1
    <3>2. CASE j > i
      <4>1. j - 1 \in 1 .. Len(r) /\ From(j - 1) = j
        BY <1>1, <3>2
      <4> HIDE DEF From
      <4> QED
        BY <4>1
    <3> QED
      BY <2>3, <3>1, <3>2
  <2> QED
    BY <2>1, <2>2, <2>3
<1> HIDE DEF From
<1>3. Ordered(r)
  BY <1>1, <1>2 DEF Ordered
<1>4. \A x \in Nat : Covers(r, x) <=> \E j \in 1 .. Len(list) : j # i /\ Holds(list[j], x)
  <2> SUFFICES ASSUME NEW x \in Nat
               PROVE  Covers(r, x) <=> \E j \in 1 .. Len(list) : j # i /\ Holds(list[j], x)
    OBVIOUS
  <2>1. Covers(r, x) <=> \E j \in 1 .. Len(r) : Holds(list[From(j)], x)
    BY <1>1 DEF Covers
  <2> QED
    BY <1>2, <2>1
<1> QED
  BY <1>3, <1>4

-------------------------------------------------------------------------------
(* What the operations do to a list *)

LEMMA BetweenPuts ==
  ASSUME NEW list \in Seq(FreeBlock), NEW h \in 0 .. Len(list), NEW k \in h + 1 .. Len(list) + 1,
         NEW b \in FreeBlock
  PROVE  Put(SubSeq(list, 1, h) \o <<b>> \o SubSeq(list, k, Len(list)), list, h, k, b)
<1> DEFINE s == SubSeq(list, 1, h)
           c == SubSeq(list, k, Len(list))
           t == s \o <<b>>
           r == t \o c
<1>1. /\ s \in Seq(FreeBlock) /\ Len(s) = h /\ \A i \in 1 .. h : s[i] = list[i]
  OBVIOUS
<1>2. /\ c \in Seq(FreeBlock) /\ Len(c) = Len(list) + 1 - k
      /\ \A i \in 1 .. Len(list) + 1 - k : c[i] = list[k - 1 + i]
  OBVIOUS
<1>3. r = SubSeq(list, 1, h) \o <<b>> \o SubSeq(list, k, Len(list))
  OBVIOUS
<1> HIDE DEF s, c, r
<1>4. /\ t \in Seq(FreeBlock) /\ Len(t) = h + 1 /\ \A i \in 1 .. h : t[i] = s[i]
      /\ t[h + 1] = b
  BY <1>1
<1>5. r = t \o c
  BY DEF r
<1> HIDE DEF t
<1>6. /\ r \in Seq(FreeBlock) /\ Len(r) = Len(t) + Len(c)
      /\ \A i \in 1 .. Len(t) : r[i] = t[i]
      /\ \A i \in Len(t) + 1 .. Len(t) + Len(c) : r[i] = c[i - Len(t)]
  <2>1. /\ t \o c \in Seq(FreeBlock) /\ Len(t \o c) = Len(t) + Len(c)
        /\ \A i \in 1 .. Len(t) + Len(c) :
             (t \o c)[i] = IF i <= Len(t) THEN t[i] ELSE c[i - Len(t)]
    BY <1>2, <1>4, ConcatProperties
  <2>2. Len(t) \in Nat /\ Len(c) \in Nat
    BY <1>2, <1>4
  <2> QED
    BY <1>5, <2>1, <2>2
<1>7. \A i \in k .. Len(list) : r[i - k + h + 2] = list[i]
  <2> SUFFICES ASSUME NEW i \in k .. Len(list)
               PROVE  r[i - k + h + 2] = list[i]
    OBVIOUS
  <2> DEFINE j == i - k + h + 2
             m == i - k + 1
  <2>1. /\ j \in Len(t) + 1 .. Len(t) + Len(c) /\ j - Len(t) = m
        /\ m \in 1 .. Len(list) + 1 - k /\ k - 1 + m = i
    BY <1>2, <1>4
  <2> HIDE DEF j, m
  <2>2. r[j] = c[m] /\ c[m] = list[i]
    BY <1>2, <1>6, <2>1
  <2> QED
    BY <2>2 DEF j
<1>8. Len(r) = h + 1 + Len(list) + 1 - k
  BY <1>2, <1>4, <1>6
<1>9. \A i \in 1 .. h : r[i] = list[i]
  BY <1>1, <1>4, <1>6
<1>10. r[h + 1] = b
  BY <1>4, <1>6
<1>11. Put(r, list, h, k, b)
  BY <1>6, <1>7, <1>8, <1>9, <1>10 DEF Put
<1> QED
  BY <1>3, <1>11

LEMMA ReplaceAtPuts ==
  ASSUME NEW list \in Seq(FreeBlock), NEW i \in 1 .. Len(list), NEW b \in FreeBlock
  PROVE  Put(ReplaceAt(list, i, b), list, i - 1, i + 1, b)
<1> DEFINE r == ReplaceAt(list, i, b)
<1>1. r = [list EXCEPT ![i] = b]
  BY DEF ReplaceAt
<1> HIDE DEF r
<1>2. r \in Seq(FreeBlock) /\ Len(r) = Len(list) /\ r[i] = b
      /\ \A j \in 1 .. Len(list) : j # i => r[j] = list[j]
  BY <1>1
<1>3. \A j \in i + 1 .. Len(list) : r[j - (i + 1) + (i - 1) + 2] = list[j]
  <2> SUFFICES ASSUME NEW j \in i + 1 .. Len(list)
               PROVE  r[j - (i + 1) + (i - 1) + 2] = list[j]
    OBVIOUS
  <2>1. j - (i + 1) + (i - 1) + 2 = j /\ j \in 1 .. Len(list) /\ j # i
    OBVIOUS
  <2> QED
    BY <1>2, <2>1
<1>4. r[(i - 1) + 1] = b
  <2>1. (i - 1) + 1 = i
    OBVIOUS
  <2> QED
    BY <1>2, <2>1
<1>5. Len(r) = (i - 1) + 1 + Len(list) + 1 - (i + 1) /\ \A j \in 1 .. i - 1 : r[j] = list[j]
  BY <1>2
<1>6. Put(r, list, i - 1, i + 1, b)
  BY <1>2, <1>3, <1>4, <1>5 DEF Put
<1> QED
  BY <1>6 DEF r

LEMMA RemoveAtDrops ==
  ASSUME NEW list \in Seq(FreeBlock), NEW i \in 1 .. Len(list)
  PROVE  Dropped(RemoveAt(list, i), list, i)
<1> DEFINE s == SubSeq(list, 1, i - 1)
           c == SubSeq(list, i + 1, Len(list))
           r == s \o c
<1>1. /\ s \in Seq(FreeBlock) /\ Len(s) = i - 1 /\ \A j \in 1 .. i - 1 : s[j] = list[j]
  OBVIOUS
<1>2. /\ c \in Seq(FreeBlock) /\ Len(c) = Len(list) - i
      /\ \A j \in 1 .. Len(list) - i : c[j] = list[i + j]
  OBVIOUS
<1>3. r = RemoveAt(list, i)
  BY DEF RemoveAt
<1> HIDE DEF s, c
<1>4. /\ r \in Seq(FreeBlock) /\ Len(r) = Len(s) + Len(c)
      /\ \A j \in 1 .. Len(s) + Len(c) : r[j] = IF j <= Len(s) THEN s[j] ELSE c[j - Len(s)]
  BY <1>1, <1>2, ConcatProperties
<1> HIDE DEF r
<1>5. Len(r) = Len(list) - 1
  BY <1>1, <1>2, <1>4
<1>6. ASSUME NEW j \in 1 .. Len(r)
      PROVE  r[j] = list[IF j < i THEN j ELSE j + 1]
  <2>1. CASE j < i
    BY <1>1, <1>2, <1>4, <2>1
  <2>2. CASE j >= i
    <3> DEFINE m == j - (i - 1)
    <3>1. m \in 1 .. Len(list) - i /\ i + m = j + 1 /\ j - Len(s) = m /\ j > Len(s)
      BY <1>1, <1>5, <2>2
    <3> HIDE DEF m
    <3>2. r[j] = c[m] /\ c[m] = list[j + 1]
      BY <1>1, <1>2, <1>4, <3>1
    <3> QED
      BY <2>2, <3>2
  <2> QED
    BY <2>1, <2>2
<1>7. Dropped(r, list, i)
  BY <1>4, <1>5, <1>6 DEF Dropped
<1> QED
  BY <1>3, <1>7

\* The blocks of an ordered list are apart.
LEMMA BlocksApart ==
  ASSUME NEW list \in Seq(FreeBlock), Ordered(list), NEW i \in 1 .. Len(list), NEW j \in 1 .. Len(list),
         NEW x \in Nat, Holds(list[i], x), Holds(list[j], x)
  PROVE  i = j
<1>1. list[i] \in FreeBlock /\ list[j] \in FreeBlock
  OBVIOUS
<1>2. /\ list[i].at \in Nat /\ list[i].len \in Nat
      /\ list[j].at \in Nat /\ list[j].len \in Nat
  BY <1>1, BlockNumbers
<1>3. ~(i < j)
  BY <1>2, SMTT(30) DEF Ordered, Holds
<1>4. ~(j < i)
  BY <1>2, SMTT(30) DEF Ordered, Holds
<1> QED
  BY <1>3, <1>4

Free == memlist \in Seq(FreeBlock) /\ Ordered(memlist)

\* n bytes of a block are taken from its bottom, or from its top.
Takes(r, a, n) ==
  /\ r \in Seq(FreeBlock) /\ Ordered(r)
  /\ \A x \in Nat : Covers(r, x) <=> Covers(memlist, x) /\ ~(a <= x /\ x < a + n)
  /\ a \in Unit /\ \A x \in Nat : a <= x /\ x < a + n => Covers(memlist, x)

LEMMA Taken ==
  ASSUME Free, NEW i \in 1 .. Len(memlist), NEW n \in Unit, n > 0, n <= memlist[i].len
  PROVE  /\ Takes(WithoutBottom(i, n), memlist[i].at, n)
         /\ Takes(WithoutTop(i, n), memlist[i].at + memlist[i].len - n, n)
<1> DEFINE b == memlist[i]
           low == Block(b.at + n, b.len - n)
           high == Block(b.at, b.len - n)
<1>1. b \in FreeBlock /\ b.at \in Nat /\ b.len \in Nat /\ b.at \in Unit /\ b.len \in Unit
  BY BlockNumbers DEF Free
<1>2. n \in Nat /\ n % MemBlk = 0
  BY DEF Unit
<1>3. /\ memlist \in Seq(FreeBlock) /\ Ordered(memlist) /\ Len(memlist) \in Nat
      /\ \A j \in 1 .. Len(memlist) : memlist[j].at \in Nat /\ memlist[j].len \in Nat /\ memlist[j].len > 0
  BY BlockNumbers DEF Free
<1>4. /\ b.at + n \in Unit /\ b.len - n \in Unit /\ b.at + b.len - n \in Unit
  <2>1. b.at \in Int /\ b.len \in Int /\ n \in Int /\ b.at % MemBlk = 0 /\ b.len % MemBlk = 0 /\ n % MemBlk = 0
    BY <1>1, <1>2 DEF Unit
  <2>2. (b.at + n) % MemBlk = 0
    BY <2>1, UnitSum, Zenon
  <2>3. (b.len - n) % MemBlk = 0
    BY <2>1, UnitSum, Zenon
  <2>4. b.len - n \in Int
    BY <2>1
  <2>5. (b.at + (b.len - n)) % MemBlk = 0
    BY <2>1, <2>3, <2>4, UnitSum, Zenon
  <2>6. b.at + (b.len - n) = b.at + b.len - n
    BY <2>1
  <2>7. b.at + n \in Nat /\ b.len - n \in Nat /\ b.at + b.len - n \in Nat
    BY <1>1, <1>2
  <2> QED
    BY <2>2, <2>3, <2>5, <2>6, <2>7 DEF Unit
<1>5. \A j \in 1 .. Len(memlist), x \in Nat : Holds(b, x) /\ Holds(memlist[j], x) => j = i
  BY <1>3, BlocksApart
<1>6. \A x \in Nat : Holds(b, x) => Covers(memlist, x)
  BY DEF Covers
<1>7. CASE memlist[i].len = n
  <2> DEFINE r == RemoveAt(memlist, i)
  <2>1. r \in Seq(FreeBlock) /\ Ordered(r)
        /\ \A x \in Nat : Covers(r, x) <=> \E j \in 1 .. Len(memlist) : j # i /\ Holds(memlist[j], x)
    <3>1. Dropped(r, memlist, i)
      BY <1>3, RemoveAtDrops
    <3> HIDE DEF r
    <3> QED
      BY <1>3, <3>1, DroppedFacts DEF Dropped
  <2> HIDE DEF r
  <2>2. \A x \in Nat : Covers(r, x) <=> Covers(memlist, x) /\ ~Holds(b, x)
    BY <1>5, <2>1 DEF Covers
  <2>3. b.at + b.len - n = b.at
    BY <1>1, <1>2, <1>7
  <2>4. Takes(r, b.at, n)
    BY <1>1, <1>6, <1>7, <2>1, <2>2 DEF Takes, Holds
  <2>5. WithoutBottom(i, n) = r /\ WithoutTop(i, n) = r
    BY <1>7 DEF WithoutBottom, WithoutTop, r
  <2> QED
    BY <2>3, <2>4, <2>5
<1>8. CASE memlist[i].len # n
  <2>1. low \in FreeBlock /\ high \in FreeBlock
    BY <1>1, <1>2, <1>4, <1>8 DEF FreeBlock, Block
  <2>2. /\ i > 1 => memlist[i - 1].at + memlist[i - 1].len < b.at
        /\ i < Len(memlist) => b.at + b.len < memlist[i + 1].at
    BY <1>3 DEF Ordered
  <2>3. ASSUME NEW c \in FreeBlock, c.at >= b.at, c.at + c.len <= b.at + b.len
        PROVE  LET r == ReplaceAt(memlist, i, c) IN
               /\ r \in Seq(FreeBlock) /\ Ordered(r)
               /\ \A x \in Nat : Covers(r, x) <=>
                    Holds(c, x) \/ \E j \in 1 .. Len(memlist) : j # i /\ Holds(memlist[j], x)
    <3> DEFINE r == ReplaceAt(memlist, i, c)
               h == i - 1
               k == i + 1
    <3>1. Put(r, memlist, h, k, c)
      BY <1>3, ReplaceAtPuts
    <3>2. h \in 0 .. Len(memlist) /\ k \in h + 1 .. Len(memlist) + 1
      BY <1>3
    <3>3. c.at \in Nat /\ c.len \in Nat
      BY BlockNumbers
    <3>4. h > 0 => memlist[h].at + memlist[h].len < c.at
      <4> SUFFICES ASSUME i > 1
                   PROVE  memlist[i - 1].at + memlist[i - 1].len < c.at
        OBVIOUS
      <4>1. i - 1 \in 1 .. Len(memlist)
        BY <1>3
      <4> QED
        BY <1>1, <1>3, <2>2, <2>3, <3>3, <4>1, SMTT(30)
    <3>5. k <= Len(memlist) => c.at + c.len < memlist[k].at
      <4> SUFFICES ASSUME i < Len(memlist)
                   PROVE  c.at + c.len < memlist[i + 1].at
        BY <1>3
      <4>1. i + 1 \in 1 .. Len(memlist)
        BY <1>3
      <4> QED
        BY <1>1, <1>3, <2>2, <2>3, <3>3, <4>1, SMTT(30)
    <3>6. \A j \in 1 .. Len(memlist) : (j <= h \/ j >= k) <=> j # i
      BY <1>3
    <3> HIDE DEF r, h, k
    <3>7. /\ Ordered(r)
          /\ \A x \in Nat : Covers(r, x) <=>
               Holds(c, x) \/ \E j \in 1 .. Len(memlist) : (j <= h \/ j >= k) /\ Holds(memlist[j], x)
      BY <1>3, <3>1, <3>2, <3>4, <3>5, PutFacts
    <3>8. r \in Seq(FreeBlock)
      BY <3>1 DEF Put
    <3>9. \A x \in Nat : Covers(r, x) <=>
            Holds(c, x) \/ \E j \in 1 .. Len(memlist) : j # i /\ Holds(memlist[j], x)
      BY <3>6, <3>7
    <3> QED
      BY <3>7, <3>8, <3>9 DEF r
  <2>4. ASSUME NEW c \in FreeBlock, NEW a \in Unit, c.at >= b.at, c.at + c.len <= b.at + b.len,
               \A x \in Nat : Holds(c, x) <=> Holds(b, x) /\ ~(a <= x /\ x < a + n),
               \A x \in Nat : a <= x /\ x < a + n => Holds(b, x)
        PROVE  Takes(ReplaceAt(memlist, i, c), a, n)
    <3> DEFINE r == ReplaceAt(memlist, i, c)
    <3>1. /\ r \in Seq(FreeBlock) /\ Ordered(r)
          /\ \A x \in Nat : Covers(r, x) <=>
               Holds(c, x) \/ \E j \in 1 .. Len(memlist) : j # i /\ Holds(memlist[j], x)
      BY <2>3, <2>4
    <3> HIDE DEF r
    <3>2. ASSUME NEW x \in Nat
          PROVE  Covers(r, x) <=> Covers(memlist, x) /\ ~(a <= x /\ x < a + n)
      <4>1. Covers(memlist, x) <=> Holds(b, x) \/ \E j \in 1 .. Len(memlist) : j # i /\ Holds(memlist[j], x)
        BY DEF Covers
      <4>2. Holds(b, x) => ~\E j \in 1 .. Len(memlist) : j # i /\ Holds(memlist[j], x)
        BY <1>5
      <4>3. a <= x /\ x < a + n => Holds(b, x)
        BY <2>4
      <4>4. Holds(c, x) <=> Holds(b, x) /\ ~(a <= x /\ x < a + n)
        BY <2>4
      <4> HIDE DEF b
      <4> QED
        BY <3>1, <4>1, <4>2, <4>3, <4>4
    <3>3. \A x \in Nat : a <= x /\ x < a + n => Covers(memlist, x)
      BY <1>6, <2>4
    <3>4. Takes(r, a, n)
      BY <3>1, <3>2, <3>3 DEF Takes
    <3> QED
      BY <3>4 DEF r
  <2>5. Takes(ReplaceAt(memlist, i, low), b.at, n)
    <3>1. low.at = b.at + n /\ low.len = b.len - n
      BY DEF Block
    <3>2. /\ low.at >= b.at /\ low.at + low.len <= b.at + b.len
          /\ \A x \in Nat : Holds(low, x) <=> Holds(b, x) /\ ~(b.at <= x /\ x < b.at + n)
          /\ \A x \in Nat : b.at <= x /\ x < b.at + n => Holds(b, x)
      <4> HIDE DEF low, b
      <4> QED
        BY <1>1, <1>2, <3>1 DEF Holds, b
    <3> HIDE DEF low
    <3> QED
      BY <1>1, <2>1, <2>4, <3>2
  <2>6. Takes(ReplaceAt(memlist, i, high), b.at + b.len - n, n)
    <3>1. high.at = b.at /\ high.len = b.len - n
      BY DEF Block
    <3> DEFINE a == b.at + b.len - n
    <3>2. /\ high.at >= b.at /\ high.at + high.len <= b.at + b.len
          /\ \A x \in Nat : Holds(high, x) <=> Holds(b, x) /\ ~(a <= x /\ x < a + n)
          /\ \A x \in Nat : a <= x /\ x < a + n => Holds(b, x)
      <4> HIDE DEF high, b
      <4> QED
        BY <1>1, <1>2, <3>1 DEF Holds, b
    <3>3. a \in Unit
      BY <1>4
    <3> HIDE DEF high, a
    <3>4. Takes(ReplaceAt(memlist, i, high), a, n)
      BY <2>1, <2>4, <3>2, <3>3
    <3> QED
      BY <3>4 DEF a
  <2>7. WithoutBottom(i, n) = ReplaceAt(memlist, i, low) /\ WithoutTop(i, n) = ReplaceAt(memlist, i, high)
    BY <1>8 DEF WithoutBottom, WithoutTop
  <2> QED
    BY <2>5, <2>6, <2>7
<1> QED
  BY <1>7, <1>8

\* Two blocks that touch, and the block they are together.
LEMMA Joined ==
  ASSUME NEW a \in FreeBlock, NEW b \in FreeBlock, NEW c \in FreeBlock, a.at + a.len = b.at,
         c.at = a.at, c.at + c.len = b.at + b.len
  PROVE  \A x \in Nat : Holds(c, x) <=> Holds(a, x) \/ Holds(b, x)
<1>1. /\ a.at \in Nat /\ a.len \in Nat /\ b.at \in Nat /\ b.len \in Nat
      /\ c.at \in Nat /\ c.len \in Nat
  BY BlockNumbers
<1> SUFFICES ASSUME NEW x \in Nat
             PROVE  Holds(c, x) <=> Holds(a, x) \/ Holds(b, x)
  OBVIOUS
<1> QED
  BY <1>1 DEF Holds

\* A block that does not overlap what is free is linked in, and merged with
\* the blocks it touches: freemem.
LEMMA MergedFacts ==
  ASSUME Free, NEW k \in 0 .. Len(memlist), NEW e \in FreeBlock,
         k > 0 => memlist[k].at + memlist[k].len <= e.at,
         k < Len(memlist) => e.at + e.len <= memlist[k + 1].at
  PROVE  /\ Merged(k, e) \in Seq(FreeBlock) /\ Ordered(Merged(k, e))
         /\ \A x \in Nat : Covers(Merged(k, e), x) <=> Covers(memlist, x) \/ Holds(e, x)
<1> DEFINE L == Len(memlist)
           before == IF k > 0 /\ memlist[k].at + memlist[k].len = e.at THEN 1 ELSE 0
           new == IF before = 1 THEN Block(memlist[k].at, memlist[k].len + e.len) ELSE e
           after == IF k < L /\ new.at + new.len = memlist[k + 1].at THEN 1 ELSE 0
           whole == IF after = 1 THEN Block(new.at, new.len + memlist[k + 1].len) ELSE new
           r == SubSeq(memlist, 1, k - before) \o <<whole>> \o SubSeq(memlist, k + 1 + after, L)
<1>1. /\ memlist \in Seq(FreeBlock) /\ Ordered(memlist) /\ L \in Nat
      /\ \A j \in 1 .. L : /\ memlist[j].at \in Nat /\ memlist[j].len \in Nat /\ memlist[j].len > 0
                           /\ memlist[j].at \in Unit /\ memlist[j].len \in Unit
  BY BlockNumbers DEF Free
<1>2. e.at \in Nat /\ e.len \in Nat /\ e.len > 0 /\ e.at \in Unit /\ e.len \in Unit
  BY BlockNumbers
<1>3. \A a, b \in Unit : a + b \in Unit
  <2> SUFFICES ASSUME NEW a \in Unit, NEW b \in Unit
               PROVE  a + b \in Unit
    OBVIOUS
  <2>1. a \in Nat /\ b \in Nat /\ a \in Int /\ b \in Int /\ a % MemBlk = 0 /\ b % MemBlk = 0
    BY DEF Unit
  <2>2. (a + b) % MemBlk = 0
    BY <2>1, UnitSum, Zenon
  <2> QED
    BY <2>1, <2>2 DEF Unit
<1>4. r = Merged(k, e)
  BY DEF Merged
<1>5. /\ before \in {0, 1} /\ (before = 1 => k \in 1 .. L /\ memlist[k].at + memlist[k].len = e.at)
      /\ before = 0 /\ k > 0 => memlist[k].at + memlist[k].len < e.at
  <2>1. k > 0 => k \in 1 .. L
    BY <1>1
  <2>2. before \in {0, 1} /\ (before = 1 => k > 0 /\ memlist[k].at + memlist[k].len = e.at)
    OBVIOUS
  <2>3. before = 0 /\ k > 0 => memlist[k].at + memlist[k].len # e.at
    OBVIOUS
  <2>4. ASSUME before = 0, k > 0
        PROVE  memlist[k].at + memlist[k].len < e.at
    <3> DEFINE m == memlist[k].at
               n == memlist[k].len
    <3>1. m \in Nat /\ n \in Nat /\ m + n <= e.at /\ m + n # e.at
      BY <1>1, <2>1, <2>3, <2>4
    <3> HIDE DEF m, n
    <3>2. m + n < e.at
      BY <1>2, <3>1
    <3> QED
      BY <3>2 DEF m, n
  <2> QED
    BY <2>1, <2>2, <2>4
<1>6. /\ new \in FreeBlock
      /\ new.at + new.len = e.at + e.len
      /\ new.at = IF before = 1 THEN memlist[k].at ELSE e.at
  <2> HIDE DEF before
  <2>1. CASE before = 1
    <3>1. k \in 1 .. L /\ memlist[k].at + memlist[k].len = e.at
      BY <1>5, <2>1
    <3>2. memlist[k].at \in Unit /\ memlist[k].at \in Nat /\ memlist[k].len \in Nat /\ memlist[k].len \in Unit
      BY <1>1, <3>1
    <3>3. new = Block(memlist[k].at, memlist[k].len + e.len)
      BY <2>1
    <3>4. memlist[k].len + e.len \in Unit
      BY <1>2, <1>3, <3>2
    <3>5. new.at = memlist[k].at /\ new.len = memlist[k].len + e.len
      BY <3>3 DEF Block
    <3>6. memlist[k].len + e.len # 0
      BY <1>2, <3>2
    <3> HIDE DEF new
    <3>7. new \in FreeBlock
      BY <3>2, <3>3, <3>4, <3>6 DEF FreeBlock, Block
    <3> QED
      BY <1>2, <2>1, <3>1, <3>2, <3>5, <3>7
  <2>2. CASE before = 0
    BY <2>2
  <2> QED
    BY <1>5, <2>1, <2>2
<1>7. \A x \in Nat : Holds(new, x) <=> Holds(e, x) \/ (before = 1 /\ Holds(memlist[k], x))
  <2> HIDE DEF before, new
  <2>1. new.at \in Nat /\ new.len \in Nat
    BY <1>6, BlockNumbers
  <2>2. CASE before = 1
    <3>1. k \in 1 .. L /\ memlist[k].at + memlist[k].len = e.at
      BY <1>5, <2>2
    <3> DEFINE a == memlist[k]
    <3>2. a \in FreeBlock /\ a.at + a.len = e.at
      BY <1>1, <3>1
    <3>3. new \in FreeBlock /\ new.at = a.at /\ new.at + new.len = e.at + e.len
      BY <1>6, <2>2
    <3> HIDE DEF a
    <3>4. \A x \in Nat : Holds(new, x) <=> Holds(a, x) \/ Holds(e, x)
      BY <3>2, <3>3, Joined
    <3> QED
      BY <2>2, <3>4 DEF a
  <2>3. CASE before = 0
    BY <1>2, <1>6, <2>1, <2>3 DEF Holds
  <2> QED
    BY <1>5, <2>2, <2>3
<1>8. /\ after \in {0, 1}
      /\ after = 1 => k + 1 \in 1 .. L /\ e.at + e.len = memlist[k + 1].at
      /\ after = 0 /\ k < L => e.at + e.len < memlist[k + 1].at
  <2> HIDE DEF before, new
  <2>1. after = IF k < L /\ e.at + e.len = memlist[k + 1].at THEN 1 ELSE 0
    BY <1>6
  <2> HIDE DEF after
  <2>2. CASE k < L
    <3>1. k + 1 \in 1 .. L
      BY <1>1, <2>2
    <3>2. memlist[k + 1].at \in Nat
      BY <1>1, <3>1
    <3>3. e.at + e.len <= memlist[k + 1].at
      BY <2>2
    <3> QED
      BY <1>2, <2>1, <3>1, <3>2, <3>3
  <2>3. CASE ~(k < L)
    BY <2>1, <2>3
  <2> QED
    BY <2>2, <2>3
<1>9. /\ whole \in FreeBlock
      /\ whole.at = new.at
      /\ whole.at + whole.len = IF after = 1 THEN memlist[k + 1].at + memlist[k + 1].len ELSE e.at + e.len
  <2> HIDE DEF before, new, after
  <2>0. new.at \in Nat /\ new.len \in Nat /\ new.at \in Unit /\ new.len \in Unit /\ new.len > 0
    BY <1>6, BlockNumbers
  <2>1. CASE after = 1
    <3>1. k + 1 \in 1 .. L /\ e.at + e.len = memlist[k + 1].at
      BY <1>8, <2>1
    <3>2. memlist[k + 1].len \in Nat /\ memlist[k + 1].len \in Unit
      BY <1>1, <3>1
    <3>3. whole = Block(new.at, new.len + memlist[k + 1].len)
      BY <2>1
    <3>4. new.len + memlist[k + 1].len \in Unit
      BY <1>3, <2>0, <3>2
    <3>5. whole.at = new.at /\ whole.len = new.len + memlist[k + 1].len
      BY <3>3 DEF Block
    <3>6. new.len + memlist[k + 1].len # 0
      BY <2>0, <3>2
    <3> HIDE DEF whole
    <3>7. whole \in FreeBlock
      BY <2>0, <3>3, <3>4, <3>6 DEF FreeBlock, Block
    <3> QED
      BY <1>2, <1>6, <2>0, <2>1, <3>1, <3>2, <3>5, <3>7
  <2>2. CASE after = 0
    BY <1>6, <2>2
  <2> QED
    BY <1>8, <2>1, <2>2
<1>10. \A x \in Nat : Holds(whole, x) <=>
         Holds(e, x) \/ (before = 1 /\ Holds(memlist[k], x)) \/ (after = 1 /\ Holds(memlist[k + 1], x))
  <2> HIDE DEF before, new, after, whole
  <2>1. new.at \in Nat /\ new.len \in Nat /\ new.len > 0 /\ whole.at \in Nat /\ whole.len \in Nat
    BY <1>6, <1>9, BlockNumbers
  <2>2. \A x \in Nat : Holds(whole, x) <=> Holds(new, x) \/ (after = 1 /\ Holds(memlist[k + 1], x))
    <3>1. CASE after = 1
      <4>1. k + 1 \in 1 .. L /\ e.at + e.len = memlist[k + 1].at
        BY <1>8, <3>1
      <4> DEFINE a == memlist[k + 1]
      <4>2. a \in FreeBlock /\ new \in FreeBlock /\ new.at + new.len = a.at
        BY <1>1, <1>6, <4>1
      <4>3. whole \in FreeBlock /\ whole.at = new.at /\ whole.at + whole.len = a.at + a.len
        BY <1>9, <3>1
      <4> HIDE DEF a
      <4>4. \A x \in Nat : Holds(whole, x) <=> Holds(new, x) \/ Holds(a, x)
        BY <4>2, <4>3, Joined
      <4> QED
        BY <3>1, <4>4 DEF a
    <3>2. CASE after = 0
      BY <1>2, <1>6, <1>9, <2>1, <3>2 DEF Holds
    <3> QED
      BY <1>8, <3>1, <3>2
  <2> QED
    BY <1>7, <2>2
<1> DEFINE h == k - before
           m == k + 1 + after
<1>11. /\ h \in 0 .. L /\ m \in h + 1 .. L + 1
       /\ h = (IF before = 1 THEN k - 1 ELSE k) /\ m = (IF after = 1 THEN k + 2 ELSE k + 1)
  <2> HIDE DEF before, after
  <2> QED
    BY <1>1, <1>5, <1>8
<1>12. r = SubSeq(memlist, 1, h) \o <<whole>> \o SubSeq(memlist, m, Len(memlist))
  OBVIOUS
<1> HIDE DEF before, new, after, whole, h, m, r
<1>13. Put(r, memlist, h, m, whole)
  BY <1>1, <1>9, <1>11, <1>12, BetweenPuts
<1>14. h > 0 => memlist[h].at + memlist[h].len < whole.at
  <2>1. CASE before = 1
    <3>1. k \in 1 .. L /\ h = k - 1
      BY <1>5, <1>11, <2>1
    <3>2. h > 0 => h \in 1 .. L /\ h < k
      BY <3>1
    <3>3. whole.at = memlist[k].at
      BY <1>6, <1>9, <2>1
    <3> QED
      BY <1>1, <3>1, <3>2, <3>3 DEF Ordered
  <2>2. CASE before = 0
    BY <1>5, <1>6, <1>9, <1>11, <2>2
  <2> QED
    BY <1>5, <2>1, <2>2
<1>15. m <= L => whole.at + whole.len < memlist[m].at
  <2>1. CASE after = 1
    <3>1. k + 1 \in 1 .. L /\ m = k + 2
      BY <1>8, <1>11, <2>1
    <3>2. m <= L => m \in 1 .. L /\ k + 1 < m
      BY <3>1
    <3>3. whole.at + whole.len = memlist[k + 1].at + memlist[k + 1].len
      BY <1>9, <2>1
    <3> QED
      BY <1>1, <3>1, <3>2, <3>3 DEF Ordered
  <2>2. CASE after = 0
    <3>1. m = k + 1 /\ whole.at + whole.len = e.at + e.len
      BY <1>9, <1>11, <2>2
    <3>2. m <= L => k < L
      BY <1>1, <3>1
    <3> QED
      BY <1>8, <2>2, <3>1, <3>2
  <2> QED
    BY <1>8, <2>1, <2>2
<1>16. /\ Ordered(r)
       /\ \A x \in Nat : Covers(r, x) <=>
            Holds(whole, x) \/ \E i \in 1 .. L : (i <= h \/ i >= m) /\ Holds(memlist[i], x)
  BY <1>1, <1>9, <1>11, <1>13, <1>14, <1>15, PutFacts
<1>17. \A i \in 1 .. L : (i <= h \/ i >= m) \/ (before = 1 /\ i = k) \/ (after = 1 /\ i = k + 1)
  BY <1>1, <1>5, <1>8, <1>11
<1>18. ASSUME NEW x \in Nat
       PROVE  Covers(r, x) <=> Covers(memlist, x) \/ Holds(e, x)
  <2>1. Covers(memlist, x) <=> \E i \in 1 .. L : Holds(memlist[i], x)
    BY DEF Covers
  <2>2. Covers(r, x) <=> Holds(whole, x) \/ \E i \in 1 .. L : (i <= h \/ i >= m) /\ Holds(memlist[i], x)
    BY <1>16
  <2>3. /\ before = 1 => k \in 1 .. L
        /\ after = 1 => k + 1 \in 1 .. L
    BY <1>5, <1>8
  <2>4. Holds(whole, x) <=>
         Holds(e, x) \/ (before = 1 /\ Holds(memlist[k], x)) \/ (after = 1 /\ Holds(memlist[k + 1], x))
    BY <1>10
  <2> HIDE DEF L
  <2> QED
    BY <1>17, <2>1, <2>2, <2>3, <2>4
<1>19. r \in Seq(FreeBlock)
  BY <1>13 DEF Put
<1> QED
  BY <1>4, <1>16, <1>18, <1>19

-------------------------------------------------------------------------------
(* The invariant *)

\* The memory that meminit finds.
Region == UnitsOf(MinHeap, Hole[1] - MinHeap) \cup UnitsOf(Hole[2], MaxHeap - Hole[2])

\* What makes HeapExact inductive: blocks and sizes are multiples of the unit, and
\* each block is before all that follow.
HeapInv ==
  /\ Free
  /\ memfree \in Nat
  /\ IsFiniteSet(taken)
  /\ FreeUnits \cap taken = {}
  /\ FreeUnits \cup taken = Region
  /\ (memfree + MemBlk * Cardinality(taken)) % AddrWord = 0

LEMMA UnitsAre ==
  ASSUME NEW at \in Nat, NEW n \in Nat
  PROVE  UnitsOf(at, n) = {x \in Unit : at <= x /\ x < at + n}
  BY DEF UnitsOf, Unit

LEMMA FreeUnitsAre ==
  ASSUME NEW list \in Seq(FreeBlock)
  PROVE  UNION {UnitsOf(list[i].at, list[i].len) : i \in DOMAIN list} = {x \in Unit : Covers(list, x)}
<1>1. \A i \in 1 .. Len(list) : list[i].at \in Nat /\ list[i].len \in Nat
  BY BlockNumbers
<1>2. \A i \in 1 .. Len(list) :
        UnitsOf(list[i].at, list[i].len) = {x \in Unit : Holds(list[i], x)}
  BY <1>1, UnitsAre DEF Holds
<1>3. DOMAIN list = 1 .. Len(list)
  OBVIOUS
<1> QED
  BY <1>2, <1>3 DEF Covers

LEMMA RegionAre ==
  /\ Region = {x \in Unit : MinHeap <= x /\ x < MaxHeap /\ ~(Hole[1] <= x /\ x < Hole[2])}
  /\ IsFiniteSet(Region)
<1>1. /\ MinHeap \in Nat /\ MaxHeap \in Nat /\ Hole[1] \in Nat /\ Hole[2] \in Nat
      /\ MinHeap < Hole[1] /\ Hole[1] < Hole[2] /\ Hole[2] < MaxHeap
  BY MemoryAssumption
<1>2. Hole[1] - MinHeap \in Nat /\ MaxHeap - Hole[2] \in Nat
  BY <1>1
<1>3. Region = {x \in Unit : MinHeap <= x /\ x < MinHeap + (Hole[1] - MinHeap)}
                 \cup {x \in Unit : Hole[2] <= x /\ x < Hole[2] + (MaxHeap - Hole[2])}
  BY <1>1, <1>2, UnitsAre DEF Region
<1>4. Region = {x \in Unit : MinHeap <= x /\ x < MaxHeap /\ ~(Hole[1] <= x /\ x < Hole[2])}
  BY <1>1, <1>3 DEF Unit
<1>5. Region \subseteq 0 .. MaxHeap
  BY <1>1, <1>4 DEF Unit
<1>6. IsFiniteSet(0 .. MaxHeap)
  BY <1>1, FS_Interval
<1>7. IsFiniteSet(Region)
  BY <1>5, <1>6, FS_Subset
<1> QED
  BY <1>4, <1>7

LEMMA HeapInit ==
  ASSUME MemInit
  PROVE  HeapInv
<1>1. /\ MinHeap \in Nat /\ MaxHeap \in Nat /\ Hole[1] \in Nat /\ Hole[2] \in Nat /\ AddrWord \in Nat \ {0}
      /\ MinHeap < Hole[1] /\ Hole[1] < Hole[2] /\ Hole[2] < MaxHeap /\ MemBlk \in Nat \ {0}
      /\ MinHeap % MemBlk = 0 /\ MaxHeap % MemBlk = 0 /\ Hole[1] % MemBlk = 0 /\ Hole[2] % MemBlk = 0
  BY MemoryAssumption
<1> DEFINE a == Block(MinHeap, Hole[1] - MinHeap)
           b == Block(Hole[2], MaxHeap - Hole[2])
<1>2. Hole[1] - MinHeap \in Unit \ {0} /\ MaxHeap - Hole[2] \in Unit \ {0} /\ MinHeap \in Unit /\ Hole[2] \in Unit
  <2>1. MinHeap \in Int /\ MaxHeap \in Int /\ Hole[1] \in Int /\ Hole[2] \in Int
    BY <1>1
  <2>2. (Hole[1] - MinHeap) % MemBlk = 0
    BY <1>1, <2>1, UnitSum, Zenon
  <2>3. (MaxHeap - Hole[2]) % MemBlk = 0
    BY <1>1, <2>1, UnitSum, Zenon
  <2> QED
    BY <1>1, <2>2, <2>3 DEF Unit
<1>3. a \in FreeBlock /\ b \in FreeBlock /\ a.at + a.len = Hole[1] /\ b.at = Hole[2]
      /\ a.at = MinHeap /\ a.len = Hole[1] - MinHeap /\ b.len = MaxHeap - Hole[2]
  BY <1>1, <1>2 DEF FreeBlock, Block
<1>4. memlist = <<a, b>>
  BY DEF MemInit
<1> HIDE DEF a, b
<1>5. memlist \in Seq(FreeBlock) /\ Len(memlist) = 2 /\ memlist[1] = a /\ memlist[2] = b
      /\ DOMAIN memlist = {1, 2}
  BY <1>3, <1>4
<1>6. Free
  BY <1>1, <1>3, <1>5 DEF Free, Ordered
<1>7. FreeUnits = Region
  <2>1. FreeUnits = UnitsOf(a.at, a.len) \cup UnitsOf(b.at, b.len)
    BY <1>5 DEF FreeUnits
  <2> QED
    BY <1>3, <2>1 DEF Region
<1>8. (memfree + MemBlk * Cardinality(taken)) % AddrWord = 0
  <2>1. memfree = 0 /\ Cardinality(taken) = 0
    BY FS_EmptySet DEF MemInit
  <2>2. memfree + MemBlk * Cardinality(taken) = 0
    BY <1>1, <2>1
  <2>3. 0 % AddrWord = 0
    BY <1>1
  <2> QED
    BY <2>2, <2>3
<1> QED
  BY <1>6, <1>7, <1>8, FS_EmptySet DEF HeapInv, MemInit

\* The count goes with what callers hold.
LEMMA HeldMore ==
  ASSUME HeapInv, NEW S, IsFiniteSet(S), S \cap taken = {}, NEW n \in Nat, MemBlk * Cardinality(S) = n
  PROVE  /\ (memfree - n) % AddrWord \in Nat
         /\ (((memfree - n) % AddrWord) + MemBlk * Cardinality(taken \cup S)) % AddrWord = 0
         /\ IsFiniteSet(taken \cup S)
<1>1. AddrWord \in Nat \ {0} /\ MemBlk \in Nat \ {0} /\ memfree \in Nat
  BY MemoryAssumption DEF HeapInv
<1>2. IsFiniteSet(taken \cup S) /\ Cardinality(taken \cup S) = Cardinality(taken) + Cardinality(S)
  <2>1. taken \cap S = {}
    OBVIOUS
  <2>2. Cardinality(taken) \in Nat /\ Cardinality(S) \in Nat
    BY FS_CardinalityType DEF HeapInv
  <2>3. IsFiniteSet(taken) /\ Cardinality(taken \cap S) = 0
    BY <2>1, FS_EmptySet DEF HeapInv
  <2>4. /\ IsFiniteSet(taken \cup S)
        /\ Cardinality(taken \cup S) = Cardinality(taken) + Cardinality(S) - Cardinality(taken \cap S)
    BY <2>3, FS_Union, Zenon
  <2> QED
    BY <2>2, <2>3, <2>4
<1>3. Cardinality(taken) \in Nat /\ Cardinality(S) \in Nat
  BY FS_CardinalityType DEF HeapInv
<1> DEFINE c == MemBlk * Cardinality(taken)
           d == MemBlk * Cardinality(taken \cup S)
<1>4. c \in Int /\ d \in Int /\ d = c + n
  BY <1>1, <1>2, <1>3
<1>5. (memfree + c) % AddrWord = 0
  BY DEF HeapInv
<1> HIDE DEF c, d
<1>6. (memfree - n) + d = memfree + c /\ memfree - n \in Int
  BY <1>1, <1>4
<1>7. (((memfree - n) % AddrWord) + d) % AddrWord = 0 /\ (memfree - n) % AddrWord \in Nat
  BY <1>1, <1>4, <1>5, <1>6, ModKeeps
<1> QED
  BY <1>2, <1>7 DEF d

LEMMA HeldLess ==
  ASSUME HeapInv, NEW S \in SUBSET taken, NEW n \in Nat, MemBlk * Cardinality(S) = n
  PROVE  /\ (memfree + n) % AddrWord \in Nat
         /\ (((memfree + n) % AddrWord) + MemBlk * Cardinality(taken \ S)) % AddrWord = 0
         /\ IsFiniteSet(taken \ S)
<1>1. AddrWord \in Nat \ {0} /\ MemBlk \in Nat \ {0} /\ memfree \in Nat /\ IsFiniteSet(taken)
  BY MemoryAssumption DEF HeapInv
<1>2. IsFiniteSet(taken \ S) /\ Cardinality(taken \ S) = Cardinality(taken) - Cardinality(S)
  <2>1. taken \cap S = S
    OBVIOUS
  <2>2. /\ IsFiniteSet(taken \ S)
        /\ Cardinality(taken \ S) = Cardinality(taken) - Cardinality(taken \cap S)
    BY <1>1, FS_Difference, Zenon
  <2> QED
    BY <2>1, <2>2
<1>3. Cardinality(taken) \in Nat /\ Cardinality(S) \in Nat
  BY <1>1, FS_CardinalityType, FS_Subset
<1> DEFINE c == MemBlk * Cardinality(taken)
           d == MemBlk * Cardinality(taken \ S)
<1>4. c \in Int /\ d \in Int /\ d = c - n
  BY <1>1, <1>2, <1>3
<1>5. (memfree + c) % AddrWord = 0
  BY DEF HeapInv
<1> HIDE DEF c, d
<1>6. (memfree + n) + d = memfree + c /\ memfree + n \in Int
  BY <1>1, <1>4
<1>7. (((memfree + n) % AddrWord) + d) % AddrWord = 0 /\ (memfree + n) % AddrWord \in Nat
  BY <1>1, <1>4, <1>5, <1>6, ModKeeps
<1> QED
  BY <1>2, <1>7 DEF d

-------------------------------------------------------------------------------
(* The steps *)

LEMMA MinMaxIn ==
  ASSUME NEW L \in Nat, NEW S \in SUBSET (1 .. L), S # {}
  PROVE  Min(S) \in S /\ Max(S) \in S
<1>1. Min(S) \in S
  <2>1. \E x \in S : \A y \in S : x <= y
    BY Least
  <2> QED
    BY <2>1 DEF Min
<1>2. Max(S) \in S
  <2> DEFINE T == {L - x : x \in S}
  <2>1. T \in SUBSET Nat /\ T # {}
    OBVIOUS
  <2>2. PICK z \in T : \A y \in T : z <= y
    <3> HIDE DEF T
    <3> QED
      BY <2>1, Least
  <2>3. PICK x \in S : z = L - x
    OBVIOUS
  <2>4. \A y \in S : x >= y
    <3> SUFFICES ASSUME NEW y \in S
                 PROVE  x >= y
      OBVIOUS
    <3>1. L - y \in T
      OBVIOUS
    <3>2. L - x <= L - y
      BY <2>2, <2>3, <3>1
    <3>3. x \in 1 .. L /\ y \in 1 .. L
      OBVIOUS
    <3> QED
      BY <3>2, <3>3
  <2> QED
    BY <2>4 DEF Max
<1> QED
  BY <1>1, <1>2

\* getmem and getstk: from whichever end of whichever block that fits.
LEMMA TakeStep ==
  ASSUME HeapInv, NEW a, NEW n \in Unit, Takes(memlist', a, n),
         memfree' = (memfree - n) % AddrWord, taken' = taken \cup UnitsOf(a, n)
  PROVE  HeapInv'
<1> DEFINE U == UnitsOf(a, n)
<1>1. a \in Unit /\ a \in Nat /\ n \in Nat
  BY DEF Takes, Unit
<1>2. U = {x \in Unit : a <= x /\ x < a + n}
  BY <1>1, UnitsAre
<1>3. memlist \in Seq(FreeBlock) /\ memlist' \in Seq(FreeBlock) /\ Free'
  BY DEF HeapInv, Free, Takes, Ordered
<1>4. FreeUnits = {x \in Unit : Covers(memlist, x)}
  BY <1>3, FreeUnitsAre DEF FreeUnits
<1>5. FreeUnits' = {x \in Unit : Covers(memlist', x)}
  BY <1>3, FreeUnitsAre DEF FreeUnits
<1>6. U \subseteq FreeUnits /\ FreeUnits' = FreeUnits \ U
  BY <1>2, <1>4, <1>5 DEF Takes, Unit
<1>7. IsFiniteSet(U) /\ MemBlk * Cardinality(U) = n
  BY <1>1, UnitsCounted
<1> HIDE DEF U
<1>8. taken' = taken \cup U
  BY DEF U
<1>9. U \cap taken = {}
  BY <1>6 DEF HeapInv
<1>10. /\ memfree' \in Nat /\ IsFiniteSet(taken')
       /\ (memfree' + MemBlk * Cardinality(taken')) % AddrWord = 0
  BY <1>1, <1>7, <1>8, <1>9, HeldMore
<1>11. FreeUnits' \cap taken' = {} /\ FreeUnits' \cup taken' = Region /\ Region' = Region
  BY <1>6, <1>8 DEF HeapInv, Region, UnitsOf
<1> QED
  BY <1>3, <1>10, <1>11 DEF HeapInv

LEMMA GetmemStep ==
  ASSUME HeapInv, Rounds, NEW bytes \in Requests, Getmem(bytes) \/ Getstk(bytes)
  PROVE  HeapInv'
<1> DEFINE n == Roundmb(bytes)
<1>1. bytes # 0 /\ Fitting(n) # {}
  BY DEF Getmem, Getstk
<1>2. n \in Unit /\ n > 0
  BY <1>1, RoundmbFacts
<1>3. Free /\ memlist \in Seq(FreeBlock) /\ Len(memlist) \in Nat
  BY DEF HeapInv, Free
<1> HIDE DEF n
<1>4. \A i \in Fitting(n) : i \in 1 .. Len(memlist) /\ n <= memlist[i].len
  <2>1. \A i \in 1 .. Len(memlist) : memlist[i].len \in Nat
    BY <1>3, BlockNumbers
  <2>2. n \in Nat /\ DOMAIN memlist = 1 .. Len(memlist)
    BY <1>2, <1>3 DEF Unit
  <2> QED
    BY <2>1, <2>2 DEF Fitting
<1>5. Min(Fitting(n)) \in Fitting(n) /\ Max(Fitting(n)) \in Fitting(n)
  BY <1>1, <1>3, <1>4, MinMaxIn
<1>6. CASE Getmem(bytes)
  <2> DEFINE i == Min(Fitting(n))
  <2>1. /\ memlist' = WithoutBottom(i, n)
        /\ memfree' = (memfree - n) % AddrWord
        /\ taken' = taken \cup UnitsOf(memlist[i].at, n)
    BY <1>6 DEF Getmem, n
  <2>2. i \in 1 .. Len(memlist) /\ n <= memlist[i].len
    BY <1>4, <1>5
  <2> HIDE DEF i
  <2>3. Takes(WithoutBottom(i, n), memlist[i].at, n)
    BY <1>2, <1>3, <2>2, Taken
  <2> QED
    BY <1>2, <2>1, <2>3, TakeStep
<1>7. CASE Getstk(bytes)
  <2> DEFINE i == Max(Fitting(n))
             a == memlist[i].at + memlist[i].len - n
  <2>1. /\ memlist' = WithoutTop(i, n)
        /\ memfree' = (memfree - n) % AddrWord
        /\ taken' = taken \cup UnitsOf(a, n)
    BY <1>7 DEF Getstk, n
  <2>2. i \in 1 .. Len(memlist) /\ n <= memlist[i].len
    BY <1>4, <1>5
  <2> HIDE DEF i
  <2>3. Takes(WithoutTop(i, n), a, n)
    BY <1>2, <1>3, <2>2, Taken
  <2> HIDE DEF a
  <2> QED
    BY <1>2, <2>1, <2>3, TakeStep
<1> QED
  BY <1>6, <1>7

\* freemem: what is not free, in the heap and not in its hole, is held.
LEMMA FreememStep ==
  ASSUME HeapInv, Rounds, NEW bytes \in Requests, NEW at \in UnitsOf(MinHeap, MaxHeap - MinHeap),
         UnitsOf(at, bytes) \cap UnitsOf(Hole[1], Hole[2] - Hole[1]) = {}, Freemem(at, bytes)
  PROVE  HeapInv'
<1> DEFINE n == Roundmb(bytes)
           P == {i \in DOMAIN memlist : memlist[i].at < at}
           k == Cardinality(P)
           e == Block(at, n)
           U == UnitsOf(at, n)
<1>1. /\ MinHeap \in Nat /\ MaxHeap \in Nat /\ Hole[1] \in Nat /\ Hole[2] \in Nat /\ MemBlk \in Nat \ {0}
      /\ MinHeap < Hole[1] /\ Hole[1] < Hole[2] /\ Hole[2] < MaxHeap /\ bytes \in Nat
  BY MemoryAssumption
<1>2. /\ bytes # 0 /\ MinHeap <= at /\ at + n <= MaxHeap /\ ~Overlaps(k, at, n)
      /\ memlist' = Merged(k, e) /\ memfree' = (memfree + n) % AddrWord /\ taken' = taken \ U
  BY DEF Freemem
<1>3. n \in Unit /\ n > 0 /\ bytes <= n /\ n < bytes + MemBlk
  BY <1>2, RoundmbFacts
<1>4. Free /\ memlist \in Seq(FreeBlock) /\ Ordered(memlist) /\ Len(memlist) \in Nat
      /\ DOMAIN memlist = 1 .. Len(memlist)
  BY DEF HeapInv, Free
<1>5. at \in Unit /\ at \in Nat
  <2>1. at \in MinHeap .. MinHeap + (MaxHeap - MinHeap) - 1 /\ at % MemBlk = 0
    BY DEF UnitsOf
  <2> QED
    BY <1>1, <2>1 DEF Unit
<1> HIDE DEF n
<1>6. e \in FreeBlock /\ e.at = at /\ e.len = n
  BY <1>3, <1>5 DEF FreeBlock, Block
<1>7. \A i \in 1 .. Len(memlist) :
        memlist[i].at \in Nat /\ memlist[i].len \in Nat /\ memlist[i].len > 0
  BY <1>4, BlockNumbers
<1>8. k \in 0 .. Len(memlist) /\ P = 1 .. k
  <2>1. P \in SUBSET (1 .. Len(memlist))
    BY <1>4
  <2>2. ASSUME NEW i \in P, NEW j \in 1 .. i
        PROVE  j \in P
    <3>1. i \in 1 .. Len(memlist) /\ memlist[i].at < at /\ j \in 1 .. Len(memlist)
      BY <1>4
    <3>2. CASE j = i
      BY <3>2
    <3>3. CASE j < i
      <4>1. memlist[j].at + memlist[j].len < memlist[i].at
        BY <1>4, <3>1, <3>3 DEF Ordered
      <4>2. memlist[j].at < at
        BY <1>5, <1>7, <3>1, <4>1
      <4> QED
        BY <1>4, <3>1, <4>2
    <3> QED
      BY <3>1, <3>2, <3>3
  <2> HIDE DEF P
  <2> QED
    BY <1>4, <2>1, <2>2, PrefixSet
<1> HIDE DEF k, P, e
<1>9. /\ k > 0 => memlist[k].at + memlist[k].len <= at
      /\ k < Len(memlist) => at + n <= memlist[k + 1].at
  <2>1. k > 0 => k \in 1 .. Len(memlist)
    BY <1>8
  <2>2. k < Len(memlist) => k + 1 \in 1 .. Len(memlist)
    BY <1>4, <1>8
  <2>3. n \in Nat
    BY <1>3 DEF Unit
  <2> QED
    BY <1>2, <1>5, <1>7, <2>1, <2>2, <2>3 DEF Overlaps
<1>10. /\ memlist' \in Seq(FreeBlock) /\ Ordered(memlist')
       /\ \A x \in Nat : Covers(memlist', x) <=> Covers(memlist, x) \/ Holds(e, x)
  BY <1>2, <1>4, <1>6, <1>8, <1>9, MergedFacts
<1>11. n \in Nat /\ U = {x \in Unit : at <= x /\ x < at + n}
  BY <1>3, <1>5, UnitsAre DEF Unit
<1>12. FreeUnits = {x \in Unit : Covers(memlist, x)}
  BY <1>4, FreeUnitsAre DEF FreeUnits
<1>13. FreeUnits' = {x \in Unit : Covers(memlist', x)}
  BY <1>10, FreeUnitsAre DEF FreeUnits
<1>14. FreeUnits' = FreeUnits \cup U
  BY <1>6, <1>10, <1>11, <1>12, <1>13 DEF Holds, Unit
<1>15. U \cap FreeUnits = {}
  <2> SUFFICES ASSUME NEW x \in U, NEW j \in 1 .. Len(memlist), Holds(memlist[j], x)
               PROVE  FALSE
    BY <1>12 DEF Covers
  <2>1. x \in Nat /\ at <= x /\ x < at + n
    BY <1>11 DEF Unit
  <2>2. memlist[j].at <= x /\ x < memlist[j].at + memlist[j].len
    BY DEF Holds
  <2>3. CASE j <= k
    <3>1. k \in 1 .. Len(memlist) /\ memlist[k].at + memlist[k].len <= at
      BY <1>8, <1>9, <2>3
    <3>2. j = k \/ memlist[j].at + memlist[j].len < memlist[k].at
      BY <1>4, <2>3, <3>1 DEF Ordered
    <3>3. memlist[k].at \in Nat /\ memlist[k].len \in Nat /\ memlist[j].at \in Nat /\ memlist[j].len \in Nat
      BY <1>7, <3>1
    <3> QED
      BY <1>5, <2>1, <2>2, <3>1, <3>2, <3>3, SMTT(30)
  <2>4. CASE j > k
    <3> DEFINE m == k + 1
    <3>1. m \in 1 .. Len(memlist) /\ at + n <= memlist[m].at /\ j >= m
      BY <1>4, <1>8, <1>9, <2>4
    <3> HIDE DEF m
    <3>2. j = m \/ memlist[m].at + memlist[m].len < memlist[j].at
      BY <1>4, <3>1 DEF Ordered
    <3>3. memlist[m].at \in Nat /\ memlist[m].len \in Nat /\ memlist[j].at \in Nat /\ memlist[j].len \in Nat
      BY <1>7, <3>1
    <3> QED
      BY <1>5, <1>11, <2>1, <2>2, <3>1, <3>2, <3>3
  <2> QED
    BY <1>8, <2>3, <2>4
<1>16. U \subseteq Region
  <2> SUFFICES ASSUME NEW x \in U, Hole[1] <= x, x < Hole[2]
               PROVE  FALSE
    <3>1. \A x \in U : x \in Unit /\ MinHeap <= x /\ x < MaxHeap
      BY <1>1, <1>2, <1>5, <1>11 DEF Unit
    <3> QED
      BY <3>1, RegionAre
  <2>1. x \in Unit /\ x \in Nat /\ at <= x /\ x < at + n /\ x % MemBlk = 0
    BY <1>11 DEF Unit
  <2>2. x < at + bytes
    <3> DEFINE t == at + n
    <3>1. t \in Int /\ t % MemBlk = 0
      <4>1. at \in Int /\ n \in Int /\ at % MemBlk = 0 /\ n % MemBlk = 0
        BY <1>3, <1>5 DEF Unit
      <4>2. (at + n) % MemBlk = 0
        BY <4>1, UnitSum, Zenon
      <4> QED
        BY <4>1, <4>2
    <3>2. x < t
      BY <2>1
    <3> HIDE DEF t
    <3>3. x + MemBlk <= t
      BY <2>1, <3>1, <3>2, UnitGap
    <3> QED
      BY <1>1, <1>3, <1>5, <1>11, <2>1, <3>3 DEF t
  <2>3. x \in UnitsOf(at, bytes)
    BY <1>1, <1>5, <2>1, <2>2, UnitsAre
  <2>4. x \in UnitsOf(Hole[1], Hole[2] - Hole[1])
    <3>1. Hole[2] - Hole[1] \in Nat /\ Hole[1] + (Hole[2] - Hole[1]) = Hole[2]
      BY <1>1
    <3>2. UnitsOf(Hole[1], Hole[2] - Hole[1]) = {y \in Unit : Hole[1] <= y /\ y < Hole[1] + (Hole[2] - Hole[1])}
      BY <1>1, <3>1, UnitsAre
    <3> QED
      BY <2>1, <3>1, <3>2
  <2> QED
    BY <2>3, <2>4
<1>17. U \subseteq taken
  BY <1>15, <1>16 DEF HeapInv
<1>18. MemBlk * Cardinality(U) = n
  BY <1>3, <1>5, UnitsCounted
<1> HIDE DEF U
<1>19. /\ memfree' \in Nat /\ IsFiniteSet(taken')
       /\ (memfree' + MemBlk * Cardinality(taken')) % AddrWord = 0
  BY <1>2, <1>11, <1>17, <1>18, HeldLess
<1>20. FreeUnits' \cap taken' = {} /\ FreeUnits' \cup taken' = Region /\ Region' = Region
  BY <1>2, <1>14, <1>16, <1>17 DEF HeapInv, Region, UnitsOf
<1>21. Free'
  BY <1>10 DEF Free, Ordered
<1> QED
  BY <1>19, <1>20, <1>21 DEF HeapInv

LEMMA HeapStep ==
  ASSUME Rounds, HeapInv, [MemNext]_memVars
  PROVE  HeapInv'
<1>1. CASE UNCHANGED memVars
  BY <1>1 DEF memVars, HeapInv, Free, Ordered, FreeUnits, UnitsOf, Region
<1>2. CASE MemNext
  <2>1. PICK bytes \in Requests :
          \/ Getmem(bytes) \/ Getstk(bytes)
          \/ \E at \in UnitsOf(MinHeap, MaxHeap - MinHeap) :
               UnitsOf(at, bytes) \cap UnitsOf(Hole[1], Hole[2] - Hole[1]) = {} /\ Freemem(at, bytes)
    BY <1>2 DEF MemNext
  <2>2. CASE Getmem(bytes) \/ Getstk(bytes)
    BY <2>2, GetmemStep
  <2>3. ASSUME NEW at \in UnitsOf(MinHeap, MaxHeap - MinHeap),
               UnitsOf(at, bytes) \cap UnitsOf(Hole[1], Hole[2] - Hole[1]) = {}, Freemem(at, bytes)
        PROVE  HeapInv'
    BY <2>3, FreememStep
  <2> QED
    BY <2>1, <2>2, <2>3
<1> QED
  BY <1>1, <1>2

LEMMA HeapInvExact ==
  ASSUME HeapInv
  PROVE  HeapExact
<1>1. memlist \in Seq(FreeBlock) /\ Ordered(memlist) /\ Len(memlist) \in Nat
      /\ DOMAIN memlist = 1 .. Len(memlist)
  BY DEF HeapInv, Free
<1>2. \A i \in 1 .. Len(memlist) - 1 : memlist[i].at + memlist[i].len < memlist[i + 1].at
  <2> SUFFICES ASSUME NEW i \in 1 .. Len(memlist) - 1
               PROVE  memlist[i].at + memlist[i].len < memlist[i + 1].at
    OBVIOUS
  <2>1. i \in 1 .. Len(memlist) /\ i + 1 \in 1 .. Len(memlist) /\ i < i + 1
    BY <1>1
  <2> QED
    BY <1>1, <2>1 DEF Ordered
<1>3. \A i \in DOMAIN memlist : memlist[i].len > 0
  BY <1>1, BlockNumbers
<1> QED
  BY <1>2, <1>3 DEF HeapInv, HeapExact, Region

\* The free list and the callers divide the heap between them, the free blocks
\* are in order and do not touch, and mlength has changed by what is held, in
\* every heap and after any calls of getmem, getstk and freemem, as long as no
\* size is so large that roundmb wraps.
THEOREM HeapStaysExact ==
  ASSUME Rounds
  PROVE  MemSpec => []HeapExact
<1>1. MemInit => HeapInv
  BY HeapInit
<1>2. HeapInv /\ [MemNext]_memVars => HeapInv'
  BY HeapStep
<1>3. HeapInv => HeapExact
  BY HeapInvExact
<1> QED
  BY <1>1, <1>2, <1>3, PTL DEF MemSpec

-------------------------------------------------------------------------------
(* The descriptor rings *)

Desc == [pkt : Nat, dd : BOOLEAN]
Position(size) == 0 .. size - 1

\* The handler counts the descriptors that are done up to the first that is not.
LEMMA DoneFromIs ==
  ASSUME NEW size \in Nat \ {0}, NEW desc, NEW c \in Nat, NEW n \in 0 .. size,
         \A k \in 0 .. n - 1 : desc[(c + k) % size].dd,
         n < size => ~desc[(c + n) % size].dd
  PROVE  DoneFrom(desc, c % size, size) = n
<1> DEFINE S == {k \in 0 .. size : k = size \/ ~desc[((c % size) + k) % size].dd}
<1>1. \A k \in 0 .. size : ((c % size) + k) % size = (c + k) % size
  <2>1. c \in Int /\ \A k \in 0 .. size : k \in Int
    OBVIOUS
  <2> QED
    BY <2>1, RingShift, Zenon
<1>2. S = {k \in 0 .. size : k = size \/ ~desc[(c + k) % size].dd}
  BY <1>1
<1>3. n \in S
  <2>1. n = size \/ n < size
    OBVIOUS
  <2> HIDE DEF S
  <2> QED
    BY <1>2, <2>1
<1>4. \A k \in S : n <= k
  <2> SUFFICES ASSUME NEW k \in S, k < n
               PROVE  FALSE
    BY <1>2
  <2>1. k \in 0 .. n - 1 /\ k # size
    OBVIOUS
  <2> HIDE DEF S
  <2> QED
    BY <1>2, <2>1
<1>5. S \subseteq Int
  OBVIOUS
<1> HIDE DEF S
<1>6. Min(S) = n
  <2>1. \A k \in S : (\A m \in S : k <= m) => k = n
    BY <1>3, <1>4, <1>5
  <2>2. n \in S /\ \A m \in S : n <= m
    BY <1>3, <1>4
  <2> QED
    BY <2>1, <2>2 DEF Min
<1> QED
  BY <1>6 DEF S, DoneFrom

-------------------------------------------------------------------------------
(* The receive ring *)

RxRing == [desc : [Position(RxRingSize) -> Desc], head : Nat, tail : Nat,
           rdh : Nat, rdt : Nat, isem : Nat]

\* How far the controller may go: RDT, as a number of descriptors, is the end of the
\* last block whose first descriptor was read, a block less than a turn ahead.
Limit(d) ==
  /\ rx.rdt = d % RxRingSize /\ d % RingBoundary = 0
  /\ Len(ethgot) + RxRingSize - RingBoundary <= d /\ d < Len(ethgot) + RxRingSize
  /\ arrivals <= d

\* What the receive ring holds: packets that were stored and not read, the first
\* isem of which the handler has counted.
RxInv ==
  /\ rx \in RxRing /\ arrivals \in Nat
  /\ ethgot \in Seq(Nat) /\ \A k \in 1 .. Len(ethgot) : ethgot[k] = k
  /\ Len(ethgot) + rx.isem <= arrivals
  /\ rx.head = Len(ethgot) % RxRingSize
  /\ rx.tail = (Len(ethgot) + rx.isem) % RxRingSize
  /\ rx.rdh = arrivals % RxRingSize
  /\ \E d \in Nat : Limit(d)
  /\ \A i \in Nat : Len(ethgot) <= i /\ i < arrivals =>
       rx.desc[i % RxRingSize] = [pkt |-> i + 1, dd |-> TRUE]
  /\ \A i \in Nat : arrivals <= i /\ i < Len(ethgot) + RxRingSize =>
       rx.desc[i % RxRingSize] = EmptyDesc

rxVars == <<rx, ethgot, arrivals>>

LEMMA RxSizes ==
  /\ RxRingSize \in Nat \ {0} /\ RingBoundary \in Nat \ {0}
  /\ RxRingSize % RingBoundary = 0 /\ RxRingSize > RingBoundary
  BY EtherAssumption

LEMMA RxFresh ==
  ASSUME rx = ConfigureRx, ethgot = <<>>, arrivals = 0
  PROVE  RxInv
<1> DEFINE R == RxRingSize
           B == RingBoundary
<1>1. R \in Nat \ {0} /\ B \in Nat \ {0} /\ R % B = 0 /\ R > B
  BY RxSizes
<1>2. /\ rx.desc = [i \in 0 .. R - 1 |-> EmptyDesc] /\ rx.head = 0 /\ rx.tail = 0
      /\ rx.rdh = 0 /\ rx.rdt = R - B /\ rx.isem = 0 /\ Len(ethgot) = 0
  BY DEF ConfigureRx, Ring
<1> HIDE DEF R, B
<1>3. rx \in RxRing
  <2>1. EmptyDesc \in Desc
    BY DEF EmptyDesc, Desc
  <2>2. [i \in 0 .. R - 1 |-> EmptyDesc] \in [Position(R) -> Desc]
    BY <2>1 DEF Position
  <2>3. R - B \in Nat
    BY <1>1
  <2> QED
    BY <2>2, <2>3 DEF RxRing, ConfigureRx, Ring, R, B
<1>4. 0 % R = 0
  BY <1>1
<1>5. \A i \in Nat : i % R \in 0 .. R - 1
  BY <1>1, RingShift
<1>6. \A i \in Nat : rx.desc[i % R] = EmptyDesc
  BY <1>2, <1>5
<1>7. Limit(R - B)
  <2>1. (R - B) % R = R - B
    <3> DEFINE r == R - B
    <3>1. r \in 0 .. R - 1
      BY <1>1
    <3>2. R * 0 + r = r
      BY <1>1, <3>1
    <3> HIDE DEF r
    <3>3. (R * 0 + r) % R = r
      BY <1>1, <3>1, ModIs
    <3> QED
      BY <3>2, <3>3 DEF r
  <2>2. (R - B) % B = 0
    <3>1. (B * 1 + 0) % B = 0
      BY <1>1, ModIs
    <3>2. B % B = 0
      BY <1>1, <3>1
    <3>3. R \in Int /\ B \in Int
      BY <1>1
    <3> QED
      BY <1>1, <3>2, <3>3, MultipleSum, Zenon
  <2> QED
    BY <1>1, <1>2, <2>1, <2>2 DEF Limit, R, B
<1>8. R - B \in Nat
  BY <1>1
<1>9. ethgot \in Seq(Nat) /\ \A k \in 1 .. Len(ethgot) : ethgot[k] = k
  BY <1>2
<1>10. arrivals = 0 /\ arrivals \in Nat /\ Len(ethgot) + rx.isem = 0
  BY <1>2
<1>11. \E d \in Nat : Limit(d)
  BY <1>7, <1>8
<1>12. /\ rx.head = Len(ethgot) % RxRingSize /\ rx.rdh = arrivals % RxRingSize
       /\ rx.tail = (Len(ethgot) + rx.isem) % RxRingSize
       /\ Len(ethgot) + rx.isem <= arrivals
  BY <1>2, <1>4, <1>10 DEF R
<1>13. \A i \in Nat : ~(Len(ethgot) <= i /\ i < arrivals)
  BY <1>10
<1>14. \A i \in Nat : rx.desc[i % RxRingSize] = EmptyDesc
  BY <1>6 DEF R
<1> QED
  BY <1>3, <1>9, <1>10, <1>11, <1>12, <1>13, <1>14 DEF RxInv

LEMMA RxSame ==
  ASSUME RxInv, UNCHANGED rxVars
  PROVE  RxInv'
  BY DEF RxInv, rxVars, Limit, RxRing, Position, Desc

\* Within a turn, places are told apart.
LEMMA RxPlaces ==
  /\ \A i, j \in Int : i <= j /\ j < i + RxRingSize /\ i % RxRingSize = j % RxRingSize => i = j
  /\ \A i \in Int : i % RxRingSize \in Position(RxRingSize)
  /\ \A i \in Int : (i + RxRingSize) % RxRingSize = i % RxRingSize
  /\ \A i, k \in Int : ((i % RxRingSize) + k) % RxRingSize = (i + k) % RxRingSize
<1>1. RxRingSize \in Nat \ {0}
  BY RxSizes
<1>2. \A i, j \in Int : i <= j /\ j < i + RxRingSize /\ i % RxRingSize = j % RxRingSize => i = j
  BY <1>1, RingApart, Zenon
<1>3. \A i \in Int : i % RxRingSize \in Position(RxRingSize)
  BY <1>1, RingShift, Zenon DEF Position
<1>4. \A i \in Int : (i + RxRingSize) % RxRingSize = i % RxRingSize
  BY <1>1, RingShift, Zenon
<1>5. \A i, k \in Int : ((i % RxRingSize) + k) % RxRingSize = (i + k) % RxRingSize
  BY <1>1, RingShift, Zenon
<1> QED
  BY <1>2, <1>3, <1>4, <1>5

\* The controller stores a packet where the driver has emptied a descriptor: it has
\* not reached RDT, which is less than a turn ahead of what is read.
LEMMA RxStores ==
  ASSUME RxInv, Stores
  PROVE  RxInv'
<1> DEFINE R == RxRingSize
           B == RingBoundary
           G == Len(ethgot)
           A == arrivals
           m == [pkt |-> A + 1, dd |-> TRUE]
<1>1. R \in Nat \ {0} /\ B \in Nat \ {0} /\ G \in Nat /\ A \in Nat /\ rx.isem \in Nat /\ G <= A
      /\ rx \in RxRing /\ R > B
  BY RxSizes DEF RxInv, RxRing
<1>2. /\ rx.rdh # rx.rdt /\ arrivals' = A + 1 /\ ethgot' = ethgot
      /\ rx' = [rx EXCEPT !.desc[rx.rdh] = m, !.rdh = Succ(@, R)]
  BY DEF Stores
<1>3. PICK d \in Nat : Limit(d)
  BY DEF RxInv
<1>4. A < d /\ d < G + R /\ A < G + R
  BY <1>1, <1>2, <1>3, SMTT(30) DEF Limit, RxInv
<1>5. /\ A % R \in Position(R) /\ ((A % R) + 1) % R = (A + 1) % R
  <2>1. A \in Int /\ 1 \in Int
    BY <1>1
  <2> QED
    BY <2>1, RxPlaces, Zenon
<1>6. rx'.desc = [rx.desc EXCEPT ![A % R] = m] /\ rx'.rdh = (A + 1) % R
      /\ rx'.head = rx.head /\ rx'.tail = rx.tail /\ rx'.rdt = rx.rdt /\ rx'.isem = rx.isem
      /\ rx' \in RxRing
  <2>1. m \in Desc
    BY <1>1 DEF Desc
  <2>2. (A + 1) % R \in Nat
    BY <1>1
  <2>3. rx.rdh = A % R
    BY DEF RxInv
  <2> HIDE DEF m, R
  <2>4. rx'.desc = [rx.desc EXCEPT ![A % R] = m] /\ rx'.rdh = (A + 1) % R
        /\ rx'.head = rx.head /\ rx'.tail = rx.tail /\ rx'.rdt = rx.rdt /\ rx'.isem = rx.isem
    BY <1>1, <1>2, <1>5, <2>3 DEF RxRing, Succ
  <2>5. rx' \in RxRing
    BY <1>1, <1>2, <1>5, <2>1, <2>2, <2>3 DEF RxRing, Succ, R
  <2> QED
    BY <2>4, <2>5
<1>7. \A i \in Nat : G <= i /\ i < G + R /\ i # A => rx'.desc[i % R] = rx.desc[i % R]
  <2> SUFFICES ASSUME NEW i \in Nat, G <= i, i < G + R, i # A
               PROVE  rx'.desc[i % R] = rx.desc[i % R]
    OBVIOUS
  <2>1. i % R # A % R
    <3>1. i \in Int /\ A \in Int /\ (i < A \/ A < i) /\ i < A + R /\ A < i + R
      BY <1>1, <1>4
    <3> QED
      BY <3>1, RxPlaces
  <2> QED
    BY <1>6, <2>1
<1>8. rx'.desc[A % R] = m
  BY <1>1, <1>5, <1>6 DEF RxRing
<1>9. \A i \in Nat : G <= i /\ i < A + 1 => rx'.desc[i % R] = [pkt |-> i + 1, dd |-> TRUE]
  <2> SUFFICES ASSUME NEW i \in Nat, G <= i, i < A + 1
               PROVE  rx'.desc[i % R] = [pkt |-> i + 1, dd |-> TRUE]
    OBVIOUS
  <2>1. CASE i = A
    BY <1>8, <2>1
  <2>2. CASE i # A
    <3>1. i < A /\ i < G + R
      BY <1>1, <1>4, <2>2
    <3> QED
      BY <1>7, <2>2, <3>1 DEF RxInv
  <2> QED
    BY <2>1, <2>2
<1>10. \A i \in Nat : A + 1 <= i /\ i < G + R => rx'.desc[i % R] = EmptyDesc
  <2> SUFFICES ASSUME NEW i \in Nat, A + 1 <= i, i < G + R
               PROVE  rx'.desc[i % R] = EmptyDesc
    OBVIOUS
  <2>1. i # A /\ G <= i /\ A <= i
    BY <1>1
  <2> QED
    BY <1>7, <2>1 DEF RxInv
<1>11. Limit(d)'
  BY <1>1, <1>2, <1>3, <1>4, <1>6 DEF Limit
<1>12. \E e \in Nat : Limit(e)'
  BY <1>11
<1> HIDE DEF m
<1>13. /\ rx' \in RxRing /\ arrivals' \in Nat /\ Len(ethgot') + rx'.isem <= arrivals'
       /\ ethgot' \in Seq(Nat) /\ \A k \in 1 .. Len(ethgot') : ethgot'[k] = k
  <2>1. G + rx.isem <= A
    BY DEF RxInv
  <2>2. Len(ethgot') + rx'.isem <= arrivals' /\ arrivals' \in Nat
    BY <1>1, <1>2, <1>6, <2>1
  <2>3. ethgot' \in Seq(Nat) /\ \A k \in 1 .. Len(ethgot') : ethgot'[k] = k
    BY <1>2 DEF RxInv
  <2> QED
    BY <1>6, <2>2, <2>3
<1>14. /\ rx'.head = Len(ethgot') % RxRingSize
       /\ rx'.tail = (Len(ethgot') + rx'.isem) % RxRingSize
       /\ rx'.rdh = arrivals' % RxRingSize
  BY <1>2, <1>6 DEF RxInv
<1>15. /\ \A i \in Nat : Len(ethgot') <= i /\ i < arrivals' =>
            rx'.desc[i % RxRingSize] = [pkt |-> i + 1, dd |-> TRUE]
       /\ \A i \in Nat : arrivals' <= i /\ i < Len(ethgot') + RxRingSize =>
            rx'.desc[i % RxRingSize] = EmptyDesc
  BY <1>2, <1>9, <1>10
<1> QED
  BY <1>12, <1>13, <1>14, <1>15 DEF RxInv

\* The handler counts what was stored since it last ran, and moves the tail.
LEMMA RxHandled ==
  ASSUME RxInv, rx' = RxPackets(rx), UNCHANGED <<ethgot, arrivals>>
  PROVE  RxInv'
<1> DEFINE R == RxRingSize
           G == Len(ethgot)
           A == arrivals
           c == G + rx.isem
           n == A - c
<1>0. R \in Nat \ {0} /\ RingBoundary \in Nat \ {0} /\ G \in Nat /\ A \in Nat /\ rx.isem \in Nat
      /\ rx \in RxRing /\ G + rx.isem <= A
  BY RxSizes DEF RxInv, RxRing
<1>1. c \in Nat /\ c <= A /\ G <= c
  BY <1>0
<1> USE <1>0
<1>2. A < G + R
  <2>1. PICK d \in Nat : Limit(d)
    BY DEF RxInv
  <2> HIDE DEF c, n
  <2> QED
    BY <2>1 DEF Limit
<1>3. n \in 0 .. R - 1 /\ n \in 0 .. R /\ c + n = A
  BY <1>1, <1>2, SMTT(30)
<1>4. \A k \in 0 .. n - 1 : rx.desc[(c + k) % R].dd
  <2> SUFFICES ASSUME NEW k \in 0 .. n - 1
               PROVE  rx.desc[(c + k) % R].dd
    OBVIOUS
  <2> DEFINE i == c + k
  <2>1. i \in Nat /\ G <= i /\ i < A
    <3> HIDE DEF c, n
    <3> QED
      BY <1>1, <1>3
  <2> HIDE DEF i
  <2>2. rx.desc[i % R] = [pkt |-> i + 1, dd |-> TRUE]
    BY <2>1 DEF RxInv
  <2>3. rx.desc[i % R].dd
    BY <2>2
  <2> QED
    BY <2>3 DEF i
<1>5. ~rx.desc[(c + n) % R].dd
  <2>1. rx.desc[A % R] = EmptyDesc
    BY <1>1, <1>2 DEF RxInv
  <2> QED
    BY <1>3, <2>1 DEF EmptyDesc
<1>6. DoneFrom(rx.desc, c % R, R) = n
  <2> HIDE DEF n, c
  <2> QED
    BY <1>1, <1>3, <1>4, <1>5, DoneFromIs
<1>7. rx' = [rx EXCEPT !.tail = (@ + n) % R, !.isem = @ + n]
  BY <1>6 DEF RxPackets, RxInv
<1>8. (rx.tail + n) % R = A % R
  <2>1. rx.tail = c % R
    BY DEF RxInv
  <2>2. ((c % R) + n) % R = (c + n) % R
    <3>1. c \in Int /\ n \in Int
      BY <1>1, <1>3
    <3> HIDE DEF c, n
    <3> QED
      BY <3>1, RxPlaces, Zenon
  <2> QED
    BY <1>3, <2>1, <2>2
<1>9. A % R \in Nat /\ rx.isem + n \in Nat /\ G + (rx.isem + n) = A
  BY <1>1, SMTT(30)
<1>10. /\ rx'.desc = rx.desc /\ rx'.head = rx.head /\ rx'.rdh = rx.rdh /\ rx'.rdt = rx.rdt
       /\ rx'.tail = A % R /\ rx'.isem = rx.isem + n /\ rx' \in RxRing
  <2> HIDE DEF n, A, R
  <2> QED
    BY <1>1, <1>7, <1>8, <1>9 DEF RxRing
<1> HIDE DEF n
<1>11. \A e : Limit(e) => Limit(e)'
  BY <1>10 DEF Limit
<1>12. \E e \in Nat : Limit(e)'
  BY <1>11 DEF RxInv
<1>13. /\ rx' \in RxRing /\ arrivals' \in Nat /\ Len(ethgot') + rx'.isem <= arrivals'
       /\ ethgot' \in Seq(Nat) /\ \A k \in 1 .. Len(ethgot') : ethgot'[k] = k
  BY <1>9, <1>10 DEF RxInv
<1>14. /\ rx'.head = Len(ethgot') % RxRingSize
       /\ rx'.tail = (Len(ethgot') + rx'.isem) % RxRingSize
       /\ rx'.rdh = arrivals' % RxRingSize
  <2>1. rx.head = G % R /\ rx.rdh = A % R
    BY DEF RxInv
  <2>2. Len(ethgot') + rx'.isem = A
    BY <1>9, <1>10
  <2> QED
    BY <1>10, <2>1, <2>2
<1>15. /\ \A i \in Nat : Len(ethgot') <= i /\ i < arrivals' =>
            rx'.desc[i % RxRingSize] = [pkt |-> i + 1, dd |-> TRUE]
       /\ \A i \in Nat : arrivals' <= i /\ i < Len(ethgot') + RxRingSize =>
            rx'.desc[i % RxRingSize] = EmptyDesc
  BY <1>10 DEF RxInv
<1> QED
  BY <1>12, <1>13, <1>14, <1>15 DEF RxInv

\* ethread takes the packet it was signalled for, empties the descriptor, and gives
\* a block back with the first descriptor of the next.
LEMMA RxRead ==
  ASSUME RxInv, EthRead
  PROVE  RxInv'
<1> DEFINE R == RxRingSize
           B == RingBoundary
           G == Len(ethgot)
           A == arrivals
<1>1. R \in Nat \ {0} /\ B \in Nat \ {0} /\ G \in Nat /\ A \in Nat /\ rx.isem \in Nat
      /\ rx \in RxRing /\ R > B /\ R % B = 0 /\ G + rx.isem <= A /\ ethgot \in Seq(Nat)
  BY RxSizes DEF RxInv, RxRing
<1>2. /\ rx.isem > 0 /\ arrivals' = A
      /\ ethgot' = Append(ethgot, IF rx.desc[rx.head].dd THEN rx.desc[rx.head].pkt ELSE 0)
      /\ rx' = [rx EXCEPT !.isem = @ - 1, !.desc[rx.head] = EmptyDesc,
                          !.rdt = RdtAfter(rx), !.head = Succ(@, R)]
  BY DEF EthRead
<1>3. PICK d \in Nat : Limit(d)
  BY DEF RxInv
<1>4. rx.head = G % R /\ G < A
  BY <1>1, <1>2 DEF RxInv
<1>5. rx.desc[G % R] = [pkt |-> G + 1, dd |-> TRUE]
  BY <1>1, <1>4 DEF RxInv
<1>6. ethgot' = Append(ethgot, G + 1)
  BY <1>2, <1>4, <1>5
<1>7. /\ ethgot' \in Seq(Nat) /\ Len(ethgot') = G + 1
      /\ \A k \in 1 .. Len(ethgot') : ethgot'[k] = k
  BY <1>1, <1>6 DEF RxInv
<1>8. G % R \in Position(R) /\ ((G % R) + 1) % R = (G + 1) % R /\ (G + R) % R = G % R
  <2>1. G \in Int /\ 1 \in Int
    BY <1>1
  <2> QED
    BY <2>1, RxPlaces, Zenon
\* The end of the block that may be filled now.
<1>9. PICK e \in Nat : /\ RdtAfter(rx) = e % R /\ e % B = 0
                       /\ (G + 1) + R - B <= e /\ e < (G + 1) + R /\ A <= e
  <2>1. d % B = 0 /\ rx.rdt = d % R /\ G + R - B <= d /\ d < G + R /\ A <= d /\ d \in Int /\ B \in Int
    BY <1>1, <1>3 DEF Limit
  <2>2. (G % R) % B = G % B
    <3>1. G \in Int
      BY <1>1
    <3> QED
      BY <1>1, <3>1, RingPart, Zenon
  <2>3. CASE G % B = 0
    <3>1. (d + B) % B = 0
      <4>1. (B * 1 + 0) % B = 0
        BY <1>1, ModIs
      <4>2. B % B = 0
        BY <1>1, <4>1
      <4> QED
        BY <1>1, <2>1, <4>2, MultipleSum, Zenon
    <3>2. RdtAfter(rx) = (d + B) % R
      <4>1. ((d % R) + B) % R = (d + B) % R
        BY <2>1, RxPlaces, Zenon
      <4> QED
        BY <1>4, <2>1, <2>2, <2>3, <4>1 DEF RdtAfter
    <3>3. d = G + R - B
      <4> DEFINE l == G + R - B
      <4>1. l \in Int /\ l % B = 0
        <5>1. G \in Int /\ R \in Int /\ B \in Int /\ G + R \in Int
          BY <1>1
        <5>2. (G + R) % B = 0
          BY <1>1, <2>3, <5>1, MultipleSum, Zenon
        <5>3. (B * 1 + 0) % B = 0
          BY <1>1, ModIs
        <5>4. B % B = 0
          BY <1>1, <5>3
        <5>5. ((G + R) - B) % B = 0
          BY <1>1, <5>1, <5>2, <5>4, MultipleSum, Zenon
        <5> QED
          BY <5>1, <5>5
      <4>2. l <= d /\ d < l + B
        BY <1>1, <2>1
      <4> HIDE DEF l
      <4>3. l < d => l + B <= d
        BY <1>1, <2>1, <4>1, MultipleGap, Zenon
      <4>4. l = d
        BY <1>1, <2>1, <4>1, <4>2, <4>3
      <4> QED
        BY <4>4 DEF l
    <3>4. /\ d + B \in Nat /\ (G + 1) + R - B <= d + B /\ d + B < (G + 1) + R /\ A <= d + B
      BY <1>1, <2>1, <3>3
    <3> QED
      BY <3>1, <3>2, <3>4
  <2>4. CASE G % B # 0
    <3>1. RdtAfter(rx) = d % R
      BY <1>4, <2>1, <2>2, <2>4 DEF RdtAfter
    <3>2. d # G + R - B
      <4> SUFFICES ASSUME d = G + R - B
                   PROVE  FALSE
        OBVIOUS
      <4>1. (d + B) % B = 0
        <5>1. (B * 1 + 0) % B = 0
          BY <1>1, ModIs
        <5>2. B % B = 0
          BY <1>1, <5>1
        <5> QED
          BY <1>1, <2>1, <5>2, MultipleSum, Zenon
      <4>2. d + B \in Int /\ R \in Int /\ (d + B) - R = G
        BY <1>1, <2>1
      <4>3. ((d + B) - R) % B = 0
        BY <1>1, <4>1, <4>2, MultipleSum, Zenon
      <4> QED
        BY <2>4, <4>2, <4>3
    <3>3. (G + 1) + R - B <= d /\ d < (G + 1) + R
      <4>1. G \in Int /\ R \in Int /\ B \in Int /\ d \in Int
        BY <1>1
      <4>2. G + R - B <= d /\ d < G + R
        BY <2>1
      <4> HIDE DEF G, R, B
      <4> QED
        BY <3>2, <4>1, <4>2
    <3> QED
      BY <2>1, <3>1, <3>3
  <2> QED
    BY <2>3, <2>4
<1>10. /\ rx'.desc = [rx.desc EXCEPT ![G % R] = EmptyDesc] /\ rx'.head = (G + 1) % R
       /\ rx'.rdh = rx.rdh /\ rx'.tail = rx.tail /\ rx'.rdt = e % R /\ rx'.isem = rx.isem - 1
       /\ rx' \in RxRing
  <2>1. EmptyDesc \in Desc
    BY DEF Desc, EmptyDesc
  <2>2. (G + 1) % R \in Nat /\ e % R \in Nat /\ rx.isem - 1 \in Nat
    BY <1>1, <1>2
  <2> HIDE DEF R
  <2>3. /\ rx'.desc = [rx.desc EXCEPT ![G % R] = EmptyDesc] /\ rx'.head = (G + 1) % R
        /\ rx'.rdh = rx.rdh /\ rx'.tail = rx.tail /\ rx'.rdt = e % R /\ rx'.isem = rx.isem - 1
    BY <1>1, <1>2, <1>4, <1>8, <1>9 DEF RxRing, Succ
  <2>4. rx' \in RxRing
    BY <1>1, <1>2, <1>4, <1>8, <1>9, <2>1, <2>2 DEF RxRing, Succ, R
  <2> QED
    BY <2>3, <2>4
<1>11. \A i \in Nat : G < i /\ i < G + R => rx'.desc[i % R] = rx.desc[i % R]
  <2> SUFFICES ASSUME NEW i \in Nat, G < i, i < G + R
               PROVE  rx'.desc[i % R] = rx.desc[i % R]
    OBVIOUS
  <2>1. i % R # G % R
    <3>1. i \in Int /\ G \in Int /\ G <= i /\ i # G
      BY <1>1
    <3> QED
      BY <3>1, RxPlaces
  <2> QED
    BY <1>10, <2>1
<1>12. rx'.desc[(G + R) % R] = EmptyDesc
  BY <1>1, <1>8, <1>10 DEF RxRing
<1>13. A < G + R
  BY <1>1, <1>3 DEF Limit
<1>14. \A i \in Nat : Len(ethgot') <= i /\ i < arrivals' =>
         rx'.desc[i % RxRingSize] = [pkt |-> i + 1, dd |-> TRUE]
  <2> SUFFICES ASSUME NEW i \in Nat, G + 1 <= i, i < A
               PROVE  rx'.desc[i % RxRingSize] = [pkt |-> i + 1, dd |-> TRUE]
    BY <1>2, <1>7
  <2>1. G < i /\ G <= i /\ i < G + R
    BY <1>1, <1>13
  <2> QED
    BY <1>11, <2>1 DEF RxInv
<1>15. \A i \in Nat : arrivals' <= i /\ i < Len(ethgot') + RxRingSize =>
         rx'.desc[i % RxRingSize] = EmptyDesc
  <2> SUFFICES ASSUME NEW i \in Nat, A <= i, i < G + 1 + R
               PROVE  rx'.desc[i % RxRingSize] = EmptyDesc
    BY <1>2, <1>7
  <2>1. CASE i = G + R
    BY <1>12, <2>1
  <2>2. CASE i # G + R
    <3>1. G < i /\ i < G + R
      BY <1>1, <1>4, <2>2
    <3> QED
      BY <1>11, <3>1 DEF RxInv
  <2> QED
    BY <2>1, <2>2
<1>16. Limit(e)'
  BY <1>2, <1>7, <1>9, <1>10 DEF Limit
<1>17. \E l \in Nat : Limit(l)'
  BY <1>16
<1>18. /\ rx' \in RxRing /\ arrivals' \in Nat /\ Len(ethgot') + rx'.isem <= arrivals'
  BY <1>1, <1>2, <1>7, <1>10
<1>19. /\ rx'.head = Len(ethgot') % RxRingSize
       /\ rx'.tail = (Len(ethgot') + rx'.isem) % RxRingSize
       /\ rx'.rdh = arrivals' % RxRingSize
  <2>1. rx.tail = (G + rx.isem) % R /\ rx.rdh = A % R
    BY DEF RxInv
  <2>2. Len(ethgot') + rx'.isem = G + rx.isem
    BY <1>1, <1>7, <1>10
  <2> QED
    BY <1>2, <1>7, <1>10, <2>1, <2>2
<1> QED
  BY <1>7, <1>14, <1>15, <1>17, <1>18, <1>19 DEF RxInv

\* What the property says of the receive ring.
LEMMA RxOrder ==
  ASSUME RxInv
  PROVE  LET unread == arrivals - Len(ethgot) IN
         /\ unread \in 0 .. RxRingSize
         /\ ethgot \o InDescs(rx.desc, rx.head, unread) = [k \in 1 .. arrivals |-> k]
<1> DEFINE R == RxRingSize
           G == Len(ethgot)
           A == arrivals
           u == A - G
           s == InDescs(rx.desc, rx.head, u)
<1>1. R \in Nat \ {0} /\ G \in Nat /\ A \in Nat /\ rx.isem \in Nat
      /\ rx \in RxRing /\ G + rx.isem <= A /\ ethgot \in Seq(Nat) /\ rx.head = G % R
  BY RxSizes DEF RxInv, RxRing
<1>2. PICK d \in Nat : Limit(d)
  BY DEF RxInv
<1>3. u \in 0 .. R /\ A < G + R /\ G <= A
  BY <1>1, <1>2 DEF Limit
<1>4. Cardinality(DOMAIN rx.desc) = R
  <2>1. DOMAIN rx.desc = 0 .. R - 1
    BY <1>1 DEF RxRing, Position
  <2>2. Cardinality(0 .. R - 1) = IF 0 > R - 1 THEN 0 ELSE (R - 1) - 0 + 1
    BY <1>1, FS_Interval
  <2>3. (0 .. R - 1) = DOMAIN rx.desc /\ R \in Nat /\ R > 0
    BY <1>1, <2>1
  <2>4. (IF 0 > R - 1 THEN 0 ELSE (R - 1) - 0 + 1) = R
    BY <2>3
  <2> QED
    BY <2>1, <2>2, <2>4
<1>5. \A k \in 1 .. u : rx.desc[(rx.head + k - 1) % R].pkt = G + k
  <2> SUFFICES ASSUME NEW k \in 1 .. u
               PROVE  rx.desc[(rx.head + k - 1) % R].pkt = G + k
    OBVIOUS
  <2> DEFINE i == G + (k - 1)
  <2>1. i \in Nat /\ G <= i /\ i < A /\ i + 1 = G + k
    BY <1>1, <1>3
  <2>2. ((G % R) + (k - 1)) % R = i % R
    <3>1. G \in Int /\ k - 1 \in Int
      BY <1>1
    <3> QED
      BY <3>1, RxPlaces, Zenon
  <2>3. (rx.head + k - 1) % R = i % R
    <3>1. G % R \in Int /\ (G % R) + (k - 1) = rx.head + k - 1
      BY <1>1
    <3> QED
      BY <2>2, <3>1
  <2> HIDE DEF i
  <2>4. rx.desc[i % R] = [pkt |-> i + 1, dd |-> TRUE]
    BY <2>1 DEF RxInv
  <2> QED
    BY <2>1, <2>3, <2>4
<1>6. s = [k \in 1 .. u |-> G + k]
  BY <1>4, <1>5 DEF InDescs
<1>7. s \in Seq(Nat) /\ Len(s) = u /\ \A k \in 1 .. u : s[k] = G + k
  <2> HIDE DEF s
  <2> QED
    BY <1>1, <1>3, <1>6
<1> DEFINE t == ethgot \o s
<1>8. t = [k \in 1 .. A |-> k]
  <2> HIDE DEF s
  <2>1. /\ t \in Seq(Nat) /\ Len(t) = G + u
        /\ \A k \in 1 .. G + u : t[k] = IF k <= G THEN ethgot[k] ELSE s[k - G]
    BY <1>1, <1>7, ConcatProperties
  <2>2. G + u = A
    BY <1>1
  <2> HIDE DEF u, t
  <2>3. \A k \in 1 .. A : t[k] = k
    <3> SUFFICES ASSUME NEW k \in 1 .. A
                 PROVE  t[k] = k
      OBVIOUS
    <3>1. CASE k <= G
      <4>1. k \in 1 .. G
        BY <1>1, <3>1
      <4>2. ethgot[k] = k
        BY <4>1 DEF RxInv
      <4>3. k \in 1 .. G + u
        BY <2>2
      <4> QED
        BY <2>1, <3>1, <4>2, <4>3
    <3>2. CASE k > G
      <4>1. k - G \in 1 .. u /\ G + (k - G) = k
        BY <1>1, <2>2, <3>2 DEF u
      <4>2. s[k - G] = k
        BY <1>7, <4>1
      <4> QED
        BY <1>1, <2>1, <2>2, <3>2, <4>2
    <3> QED
      BY <1>1, <3>1, <3>2
  <2>4. t = [k \in 1 .. A |-> t[k]]
    BY <2>1, <2>2
  <2> QED
    BY <2>3, <2>4
<1> QED
  BY <1>3, <1>8

-------------------------------------------------------------------------------
(* The transmit ring *)

TxRing == [desc : [Position(TxRingSize) -> Desc], head : Nat, tail : Nat,
           tdh : Nat, tdt : Nat, osem : Nat]
Call == [at : {"none", "wait", "copied"}, pkt : Nat, tail : Nat]

\* A process is between the copy and the end of ethwrite: the descriptor it took
\* is counted by osem, and not yet by the tail.
Copies(p) == ethcall[p].at = "copied"
Copying == IF \E p \in EthProc : Copies(p) THEN 1 ELSE 0

\* What the transmit ring holds, if the handler has reclaimed c descriptors: done
\* ones, the packets queued and not sent, and free ones, of which the first may
\* have the packet that a process copied.
TxHolds(c) ==
  /\ c + TxRingSize = Len(written) + Copying + tx.osem
  /\ c <= Len(wire) /\ Len(wire) <= Len(written)
  /\ Len(written) + Copying < Len(wire) + TxRingSize
  /\ tx.head = c % TxRingSize /\ tx.tdh = Len(wire) % TxRingSize
  /\ tx.tail = Len(written) % TxRingSize /\ tx.tdt = Len(written) % TxRingSize
  /\ \A i \in Nat : c <= i /\ i < Len(wire) => tx.desc[i % TxRingSize].dd
  /\ \A i \in Nat : Len(wire) <= i /\ i < Len(written) =>
       tx.desc[i % TxRingSize] = [pkt |-> written[i + 1], dd |-> FALSE]
  /\ \A i \in Nat : Len(written) <= i /\ i < c + TxRingSize => ~tx.desc[i % TxRingSize].dd
  /\ \A p \in EthProc : Copies(p) =>
       tx.desc[Len(written) % TxRingSize] = [pkt |-> ethcall[p].pkt, dd |-> FALSE]

TxInv ==
  /\ tx \in TxRing /\ ethcall \in [EthProc -> Call] /\ sends \in Nat
  /\ written \in Seq(Nat) /\ wire \in Seq(Nat)
  /\ \A k \in 1 .. Len(wire) : wire[k] = written[k]
  /\ \A p, q \in EthProc : Copies(p) /\ Copies(q) => p = q
  /\ \E c \in Nat : TxHolds(c)

txVars == <<tx, ethcall, sends, written, wire>>

LEMMA TxSize == TxRingSize \in Nat \ {0}
  BY EtherAssumption

LEMMA TxFresh ==
  ASSUME tx = ConfigureTx, ethcall = [p \in EthProc |-> NoWrite], sends = 0,
         written = <<>>, wire = <<>>
  PROVE  TxInv
<1> DEFINE S == TxRingSize
<1>1. S \in Nat \ {0}
  BY TxSize
<1>2. /\ tx.desc = [i \in 0 .. S - 1 |-> EmptyDesc] /\ tx.head = 0 /\ tx.tail = 0
      /\ tx.tdh = 0 /\ tx.tdt = 0 /\ tx.osem = S /\ Len(written) = 0 /\ Len(wire) = 0
  BY DEF ConfigureTx, Ring
<1>3. \A p \in EthProc : ~Copies(p) /\ ethcall[p] \in Call
  BY DEF NoWrite, Copies, Call
<1>4. Copying = 0
  BY <1>3 DEF Copying
<1>5. tx \in TxRing
  <2>1. EmptyDesc \in Desc
    BY DEF EmptyDesc, Desc
  <2>2. [i \in 0 .. S - 1 |-> EmptyDesc] \in [Position(S) -> Desc]
    BY <2>1 DEF Position
  <2> QED
    BY <1>1, <2>2 DEF TxRing, ConfigureTx, Ring
<1>6. 0 % S = 0
  BY <1>1
<1>7. \A i \in Nat : i % S \in 0 .. S - 1
  BY <1>1, RingShift
<1>8. \A i \in Nat : ~tx.desc[i % S].dd
  <2> HIDE DEF S
  <2> QED
    BY <1>2, <1>7 DEF EmptyDesc
<1>9. TxHolds(0)
  BY <1>1, <1>2, <1>3, <1>4, <1>6, <1>8 DEF TxHolds
<1>10. ethcall \in [EthProc -> Call]
  BY <1>3
<1> QED
  BY <1>2, <1>3, <1>5, <1>9, <1>10 DEF TxInv

LEMMA TxSame ==
  ASSUME TxInv, UNCHANGED txVars
  PROVE  TxInv'
<1>1. \A p : Copies(p)' <=> Copies(p)
  BY DEF Copies, txVars
<1>2. Copying' = Copying
  BY <1>1 DEF Copying
<1>3. \A c : TxHolds(c) => TxHolds(c)'
  BY <1>1, <1>2 DEF TxHolds, txVars
<1>4. \E c \in Nat : TxHolds(c)'
  BY <1>3 DEF TxInv
<1> QED
  BY <1>1, <1>4 DEF TxInv, txVars, TxRing, Call, Desc, Position

LEMMA TxPlaces ==
  /\ \A i, j \in Int : i <= j /\ j < i + TxRingSize /\ i % TxRingSize = j % TxRingSize => i = j
  /\ \A i \in Int : i % TxRingSize \in Position(TxRingSize)
  /\ \A i \in Int : (i + TxRingSize) % TxRingSize = i % TxRingSize
  /\ \A i, k \in Int : ((i % TxRingSize) + k) % TxRingSize = (i + k) % TxRingSize
<1>1. TxRingSize \in Nat \ {0}
  BY TxSize
<1>2. \A i, j \in Int : i <= j /\ j < i + TxRingSize /\ i % TxRingSize = j % TxRingSize => i = j
  BY <1>1, RingApart, Zenon
<1>3. \A i \in Int : i % TxRingSize \in Position(TxRingSize)
  BY <1>1, RingShift, Zenon DEF Position
<1>4. \A i \in Int : (i + TxRingSize) % TxRingSize = i % TxRingSize
  BY <1>1, RingShift, Zenon
<1>5. \A i, k \in Int : ((i % TxRingSize) + k) % TxRingSize = (i + k) % TxRingSize
  BY <1>1, RingShift, Zenon
<1> QED
  BY <1>2, <1>3, <1>4, <1>5

\* The numbers in TxHolds.
LEMMA TxNumbers ==
  ASSUME TxInv, NEW c \in Nat, TxHolds(c)
  PROVE  /\ TxRingSize \in Nat \ {0} /\ Len(wire) \in Nat /\ Len(written) \in Nat
         /\ Copying \in {0, 1} /\ tx.osem \in Nat
         /\ c + TxRingSize = Len(written) + Copying + tx.osem
         /\ c <= Len(wire) /\ Len(wire) <= Len(written)
         /\ Len(written) + Copying < Len(wire) + TxRingSize
         /\ Len(written) + Copying <= c + TxRingSize
<1>1. /\ TxRingSize \in Nat \ {0} /\ Len(wire) \in Nat /\ Len(written) \in Nat
      /\ Copying \in {0, 1} /\ tx.osem \in Nat
  BY TxSize DEF TxInv, TxRing, Copying
<1>2. /\ c + TxRingSize = Len(written) + Copying + tx.osem
      /\ c <= Len(wire) /\ Len(wire) <= Len(written)
      /\ Len(written) + Copying < Len(wire) + TxRingSize
  BY DEF TxHolds
<1> QED
  BY <1>1, <1>2

\* A descriptor other than the one at i, less than a turn away, is told apart.
LEMMA TxApart ==
  ASSUME NEW i \in Nat, NEW j \in Nat, i # j, i < j + TxRingSize, j < i + TxRingSize
  PROVE  i % TxRingSize # j % TxRingSize
<1>1. i \in Int /\ j \in Int /\ (i <= j \/ j <= i)
  OBVIOUS
<1> QED
  BY <1>1, TxPlaces

\* ethwrite begins: it waits on osem.
LEMMA TxBegins ==
  ASSUME TxInv, NEW p \in EthProc, EthWrite(p)
  PROVE  TxInv'
<1>1. PICK c \in Nat : TxHolds(c)
  BY DEF TxInv
<1> DEFINE new == [NoWrite EXCEPT !.at = "wait", !.pkt = sends + 1]
<1>2. /\ UNCHANGED <<tx, written, wire>> /\ sends' = sends + 1 /\ ethcall[p].at = "none"
      /\ ethcall' = [ethcall EXCEPT ![p] = new]
  BY DEF EthWrite
<1>3. sends \in Nat /\ ethcall \in [EthProc -> Call]
  BY DEF TxInv
<1>4. new \in Call /\ new.at = "wait"
  <2>1. NoWrite \in Call /\ sends + 1 \in Nat
    BY <1>3 DEF NoWrite, Call
  <2> QED
    BY <2>1 DEF Call
<1> HIDE DEF new
<1>5. /\ ethcall' \in [EthProc -> Call] /\ ethcall'[p] = new
      /\ \A q \in EthProc \ {p} : ethcall'[q] = ethcall[q]
  BY <1>2, <1>3, <1>4
<1>6. \A q \in EthProc : (Copies(q)' <=> Copies(q)) /\ (Copies(q) => ethcall'[q] = ethcall[q])
  BY <1>2, <1>4, <1>5 DEF Copies
<1>7. Copying' = Copying
  BY <1>6 DEF Copying
<1>8. \A q \in EthProc : Copies(q)' =>
        tx.desc[Len(written) % TxRingSize] = [pkt |-> ethcall'[q].pkt, dd |-> FALSE]
  BY <1>1, <1>6 DEF TxHolds
<1>9. TxHolds(c)'
  BY <1>1, <1>2, <1>7, <1>8 DEF TxHolds
<1>10. \A q, r \in EthProc : Copies(q)' /\ Copies(r)' => q = r
  BY <1>6 DEF TxInv
<1>11. sends' \in Nat
  BY <1>2, <1>3
<1>12. tx \in TxRing /\ written \in Seq(Nat) /\ wire \in Seq(Nat)
       /\ \A k \in 1 .. Len(wire) : wire[k] = written[k]
  BY DEF TxInv
<1> QED
  BY <1>2, <1>5, <1>9, <1>10, <1>11, <1>12 DEF TxInv, TxRing, Position, Desc, Call

\* osem counts the descriptors that are free: the packet goes to one of them, and
\* one more is left free, by which the controller tells a full ring from an empty one.
LEMMA TxCopies ==
  ASSUME TxInv, NEW p \in EthProc, EthCopies(p), "race" \notin EthHazards, "full" \notin EthHazards
  PROVE  TxInv'
<1> DEFINE S == TxRingSize
           W == Len(written)
           X == Len(wire)
           m == [EmptyDesc EXCEPT !.pkt = ethcall[p].pkt]
<1>1. PICK c \in Nat : TxHolds(c)
  BY DEF TxInv
<1>2. /\ UNCHANGED <<written, wire, sends>> /\ ethcall[p].at = "wait" /\ tx.osem > 0
      /\ \A q \in EthProc \ {p} : ~Copies(q)
      /\ Listed(tx) < S - 1
      /\ tx' = [tx EXCEPT !.osem = @ - 1, !.desc[tx.tail] = m]
      /\ ethcall' = [ethcall EXCEPT ![p].at = "copied", ![p].tail = tx.tail]
  BY DEF EthCopies, MayWrite, Copies
<1>3. \A q \in EthProc : ~Copies(q)
  BY <1>2 DEF Copies
<1>4. Copying = 0
  BY <1>3 DEF Copying
<1>5. /\ S \in Nat \ {0} /\ X \in Nat /\ W \in Nat /\ tx.osem \in Nat
      /\ c + S = W + tx.osem /\ c <= X /\ X <= W /\ W < X + S /\ W < c + S
  <2>1. /\ S \in Nat \ {0} /\ X \in Nat /\ W \in Nat /\ tx.osem \in Nat
        /\ c + S = W + 0 + tx.osem /\ c <= X /\ X <= W /\ W + 0 < X + S
    BY <1>1, <1>4, TxNumbers
  <2> HIDE DEF S, W, X
  <2> QED
    BY <1>2, <2>1
<1>6. /\ tx \in TxRing /\ ethcall \in [EthProc -> Call] /\ tx.tail = W % S /\ W % S \in Position(S)
      /\ tx.tdh = X % S
  BY <1>1, <1>5, TxPlaces DEF TxInv, TxHolds
<1>7. W + 1 < X + S
  <2>1. Listed(tx) = W - X
    <3>1. X \in Int /\ W \in Int
      BY <1>5
    <3>2. ((W % S) - (X % S) + S) % S = W - X
      BY <1>5, <3>1, RingAhead, Zenon
    <3> QED
      BY <1>6, <3>2 DEF Listed
  <2>2. W - X < S - 1
    BY <1>2, <2>1
  <2> HIDE DEF S, W, X
  <2> QED
    BY <1>5, <2>2
<1>8. m = [pkt |-> ethcall[p].pkt, dd |-> FALSE] /\ m \in Desc
  <2>1. EmptyDesc \in Desc /\ EmptyDesc.dd = FALSE /\ ethcall[p].pkt \in Nat
    BY <1>6 DEF EmptyDesc, Desc, Call
  <2>2. m \in Desc /\ m.pkt = ethcall[p].pkt /\ m.dd = FALSE
    BY <2>1 DEF Desc
  <2> HIDE DEF m
  <2>3. m = [pkt |-> m.pkt, dd |-> m.dd]
    BY <2>2 DEF Desc
  <2> QED
    BY <2>2, <2>3
<1> HIDE DEF m
<1>9. /\ tx'.desc = [tx.desc EXCEPT ![W % S] = m] /\ tx'.osem = tx.osem - 1
      /\ tx'.head = tx.head /\ tx'.tail = tx.tail /\ tx'.tdh = tx.tdh /\ tx'.tdt = tx.tdt
      /\ tx' \in TxRing
  <2>1. tx.osem - 1 \in Nat
    BY <1>2, <1>5
  <2> HIDE DEF W, X
  <2>2. /\ tx'.desc = [tx.desc EXCEPT ![W % S] = m] /\ tx'.osem = tx.osem - 1
        /\ tx'.head = tx.head /\ tx'.tail = tx.tail /\ tx'.tdh = tx.tdh /\ tx'.tdt = tx.tdt
    BY <1>2, <1>6 DEF TxRing
  <2>3. tx' \in TxRing
    BY <1>2, <1>6, <1>8, <2>1 DEF TxRing
  <2> QED
    BY <2>2, <2>3
<1>10. \A i \in Nat : c <= i /\ i < c + S /\ i # W => tx'.desc[i % S] = tx.desc[i % S]
  <2> SUFFICES ASSUME NEW i \in Nat, c <= i, i < c + S, i # W
               PROVE  tx'.desc[i % S] = tx.desc[i % S]
    OBVIOUS
  <2>1. i < W + S /\ W < i + S
    <3> HIDE DEF S, W, X
    <3> QED
      BY <1>5
  <2>2. i % S # W % S
    BY <1>5, <2>1, TxApart
  <2> QED
    BY <1>9, <2>2
<1>11. tx'.desc[W % S] = m
  BY <1>6, <1>9 DEF TxRing
<1>12. /\ ethcall' \in [EthProc -> Call] /\ ethcall'[p].pkt = ethcall[p].pkt
       /\ ethcall'[p].at = "copied"
       /\ \A q \in EthProc \ {p} : ethcall'[q] = ethcall[q]
  <2>1. tx.tail \in Nat
    BY <1>6 DEF TxRing
  <2> QED
    BY <1>2, <1>6, <2>1 DEF Call
<1>13. \A q \in EthProc : Copies(q)' <=> q = p
  BY <1>3, <1>12 DEF Copies
<1>14. Copying' = 1
  BY <1>13 DEF Copying
<1>15. TxHolds(c)'
  <2>1. c + S = W + 1 + tx'.osem
    BY <1>5, <1>9
  <2>2. \A i \in Nat : c <= i /\ i < X => tx'.desc[i % S].dd
    <3> SUFFICES ASSUME NEW i \in Nat, c <= i, i < X
                 PROVE  tx'.desc[i % S].dd
      OBVIOUS
    <3>1. i # W /\ i < c + S
      BY <1>5
    <3> QED
      BY <1>1, <1>10, <3>1 DEF TxHolds
  <2>3. \A i \in Nat : X <= i /\ i < W => tx'.desc[i % S] = [pkt |-> written[i + 1], dd |-> FALSE]
    <3> SUFFICES ASSUME NEW i \in Nat, X <= i, i < W
                 PROVE  tx'.desc[i % S] = [pkt |-> written[i + 1], dd |-> FALSE]
      OBVIOUS
    <3>1. i # W /\ i < c + S /\ c <= i
      BY <1>5
    <3> QED
      BY <1>1, <1>10, <3>1 DEF TxHolds
  <2>4. \A i \in Nat : W <= i /\ i < c + S => ~tx'.desc[i % S].dd
    <3> SUFFICES ASSUME NEW i \in Nat, W <= i, i < c + S
                 PROVE  ~tx'.desc[i % S].dd
      OBVIOUS
    <3>1. CASE i = W
      BY <1>8, <1>11, <3>1
    <3>2. CASE i # W
      <4>1. c <= i
        BY <1>5
      <4> QED
        BY <1>1, <1>10, <3>2, <4>1 DEF TxHolds
    <3> QED
      BY <3>1, <3>2
  <2>5. \A q \in EthProc : Copies(q)' =>
          tx'.desc[W % S] = [pkt |-> ethcall'[q].pkt, dd |-> FALSE]
    BY <1>8, <1>11, <1>12, <1>13
  <2>6. tx'.head = c % S /\ tx'.tdh = X % S /\ tx'.tail = W % S /\ tx'.tdt = W % S
    BY <1>1, <1>9 DEF TxHolds
  <2> QED
    BY <1>2, <1>5, <1>7, <1>14, <2>1, <2>2, <2>3, <2>4, <2>5, <2>6 DEF TxHolds
<1>16. \A q, r \in EthProc : Copies(q)' /\ Copies(r)' => q = r
  BY <1>13
<1>17. /\ tx' \in TxRing /\ ethcall' \in [EthProc -> Call] /\ sends' \in Nat
       /\ written' \in Seq(Nat) /\ wire' \in Seq(Nat)
       /\ \A k \in 1 .. Len(wire') : wire'[k] = written'[k]
  BY <1>2, <1>9, <1>12 DEF TxInv
<1>18. \E d \in Nat : TxHolds(d)'
  BY <1>15
<1> QED
  BY <1>16, <1>17, <1>18 DEF TxInv, TxRing, Position, Desc, Call

\* The tail advances over the packet: the controller may send it.
LEMMA TxAdvances ==
  ASSUME TxInv, NEW p \in EthProc, EthAdvances(p)
  PROVE  TxInv'
<1> DEFINE S == TxRingSize
           W == Len(written)
           X == Len(wire)
           k == ethcall[p].pkt
<1>1. PICK c \in Nat : TxHolds(c)
  BY DEF TxInv
<1>2. /\ UNCHANGED <<wire, sends>> /\ Copies(p) /\ written' = Append(written, k)
      /\ tx' = [tx EXCEPT !.tdt = Succ(@, S), !.tail = Succ(@, S)]
      /\ ethcall' = [ethcall EXCEPT ![p] = NoWrite]
  BY DEF EthAdvances, Copies
<1>3. /\ tx \in TxRing /\ ethcall \in [EthProc -> Call] /\ written \in Seq(Nat) /\ k \in Nat
      /\ \A q \in EthProc : Copies(q) => q = p
  BY <1>2 DEF TxInv, Call
<1>4. Copying = 1
  BY <1>2 DEF Copying
<1>5. /\ S \in Nat \ {0} /\ X \in Nat /\ W \in Nat /\ tx.osem \in Nat
      /\ c + S = W + 1 + tx.osem /\ c <= X /\ X <= W /\ W + 1 < X + S
  BY <1>1, <1>4, TxNumbers
<1>6. /\ written' \in Seq(Nat) /\ Len(written') = W + 1 /\ written'[W + 1] = k
      /\ \A i \in 1 .. W : written'[i] = written[i]
  BY <1>2, <1>3
<1>7. ((W % S) + 1) % S = (W + 1) % S
  <2>1. W \in Int /\ 1 \in Int
    BY <1>5
  <2> QED
    BY <2>1, TxPlaces, Zenon
<1>8. /\ tx'.desc = tx.desc /\ tx'.osem = tx.osem /\ tx'.head = tx.head /\ tx'.tdh = tx.tdh
      /\ tx'.tail = (W + 1) % S /\ tx'.tdt = (W + 1) % S /\ tx' \in TxRing
  <2>1. tx.tail = W % S /\ tx.tdt = W % S
    BY <1>1 DEF TxHolds
  <2>2. (W + 1) % S \in Nat
    BY <1>5
  <2> HIDE DEF W, X, S
  <2> QED
    BY <1>2, <1>3, <1>7, <2>1, <2>2 DEF TxRing, Succ
<1>9. ethcall' \in [EthProc -> Call] /\ \A q \in EthProc : ~Copies(q)'
  <2>1. NoWrite \in Call /\ NoWrite.at = "none"
    BY DEF NoWrite, Call
  <2> QED
    BY <1>2, <1>3, <2>1 DEF Copies
<1>10. Copying' = 0
  BY <1>9 DEF Copying
<1>11. tx.desc[W % S] = [pkt |-> k, dd |-> FALSE]
  BY <1>1, <1>2 DEF TxHolds
<1>12. TxHolds(c)'
  <2>1. /\ c + S = (W + 1) + 0 + tx'.osem /\ X <= W + 1 /\ (W + 1) + 0 < X + S
    BY <1>5, <1>8
  <2>2. \A i \in Nat : c <= i /\ i < X => tx'.desc[i % S].dd
    BY <1>1, <1>8 DEF TxHolds
  <2>3. \A i \in Nat : X <= i /\ i < W + 1 =>
          tx'.desc[i % S] = [pkt |-> written'[i + 1], dd |-> FALSE]
    <3> SUFFICES ASSUME NEW i \in Nat, X <= i, i < W + 1
                 PROVE  tx'.desc[i % S] = [pkt |-> written'[i + 1], dd |-> FALSE]
      OBVIOUS
    <3>1. CASE i = W
      BY <1>6, <1>8, <1>11, <3>1
    <3>2. CASE i # W
      <4>1. i < W /\ i + 1 \in 1 .. W
        BY <1>5, <3>2
      <4>2. tx.desc[i % S] = [pkt |-> written[i + 1], dd |-> FALSE]
        BY <1>1, <4>1 DEF TxHolds
      <4> QED
        BY <1>6, <1>8, <4>1, <4>2
    <3> QED
      BY <3>1, <3>2
  <2>4. \A i \in Nat : W + 1 <= i /\ i < c + S => ~tx'.desc[i % S].dd
    <3> SUFFICES ASSUME NEW i \in Nat, W + 1 <= i, i < c + S
                 PROVE  ~tx'.desc[i % S].dd
      OBVIOUS
    <3>1. W <= i
      BY <1>5
    <3> QED
      BY <1>1, <1>8, <3>1 DEF TxHolds
  <2>5. tx'.head = c % S /\ tx'.tdh = X % S /\ c <= X
    BY <1>1, <1>5, <1>8 DEF TxHolds
  <2> QED
    BY <1>2, <1>6, <1>8, <1>9, <1>10, <2>1, <2>2, <2>3, <2>4, <2>5 DEF TxHolds
<1>13. /\ tx' \in TxRing /\ ethcall' \in [EthProc -> Call] /\ sends' \in Nat
       /\ written' \in Seq(Nat) /\ wire' \in Seq(Nat)
  BY <1>2, <1>6, <1>8, <1>9 DEF TxInv
<1>14. \A i \in 1 .. Len(wire') : wire'[i] = written'[i]
  <2> SUFFICES ASSUME NEW i \in 1 .. X
               PROVE  wire[i] = written'[i]
    BY <1>2
  <2>1. i \in 1 .. W
    BY <1>5
  <2> QED
    BY <1>6, <2>1 DEF TxInv
<1>15. \E d \in Nat : TxHolds(d)'
  BY <1>12
<1> QED
  BY <1>9, <1>13, <1>14, <1>15 DEF TxInv, TxRing, Position, Desc, Call

\* The controller sends the packet at TDH, which is the next one that was queued.
LEMMA TxSends ==
  ASSUME TxInv, Transmits
  PROVE  TxInv'
<1> DEFINE S == TxRingSize
           W == Len(written)
           X == Len(wire)
<1>1. PICK c \in Nat : TxHolds(c)
  BY DEF TxInv
<1>2. /\ UNCHANGED <<written, sends, ethcall>> /\ tx.tdh # tx.tdt
      /\ wire' = Append(wire, tx.desc[tx.tdh].pkt)
      /\ tx' = [tx EXCEPT !.desc[tx.tdh].dd = TRUE, !.tdh = Succ(@, S)]
  BY DEF Transmits
<1>3. /\ S \in Nat \ {0} /\ X \in Nat /\ W \in Nat /\ tx.osem \in Nat /\ Copying \in {0, 1}
      /\ c + S = W + Copying + tx.osem /\ c <= X /\ X <= W /\ W + Copying < X + S
      /\ W + Copying <= c + S
  BY <1>1, TxNumbers
<1>4. /\ tx \in TxRing /\ tx.tdh = X % S /\ tx.tdt = W % S /\ X % S \in Position(S)
      /\ wire \in Seq(Nat) /\ written \in Seq(Nat)
  BY <1>1, <1>3, TxPlaces DEF TxInv, TxHolds
<1>5. X < W /\ X < c + S /\ X + 1 <= W
  <2>1. X # W
    BY <1>2, <1>4
  <2> HIDE DEF S, W, X
  <2> QED
    BY <1>3, <2>1
<1>6. tx.desc[X % S] = [pkt |-> written[X + 1], dd |-> FALSE]
  BY <1>1, <1>3, <1>5 DEF TxHolds
<1>7. /\ wire' \in Seq(Nat) /\ Len(wire') = X + 1 /\ wire'[X + 1] = written[X + 1]
      /\ \A i \in 1 .. X : wire'[i] = wire[i]
  <2>1. written[X + 1] \in Nat
    <3>1. X + 1 \in 1 .. W
      BY <1>3, <1>5
    <3> QED
      BY <1>4, <3>1
  <2>2. wire' = Append(wire, written[X + 1])
    BY <1>2, <1>4, <1>6
  <2> QED
    BY <1>4, <2>1, <2>2
<1>8. ((X % S) + 1) % S = (X + 1) % S
  <2>1. X \in Int /\ 1 \in Int
    BY <1>3
  <2> QED
    BY <2>1, TxPlaces, Zenon
<1>9. /\ tx'.osem = tx.osem /\ tx'.head = tx.head /\ tx'.tail = tx.tail /\ tx'.tdt = tx.tdt
      /\ tx'.tdh = (X + 1) % S /\ tx'.desc = [tx.desc EXCEPT ![X % S].dd = TRUE]
      /\ tx' \in TxRing
  <2>1. (X + 1) % S \in Nat
    BY <1>3
  <2> HIDE DEF W, X, S
  <2>2. /\ tx'.osem = tx.osem /\ tx'.head = tx.head /\ tx'.tail = tx.tail /\ tx'.tdt = tx.tdt
        /\ tx'.tdh = (X + 1) % S /\ tx'.desc = [tx.desc EXCEPT ![X % S].dd = TRUE]
    BY <1>2, <1>4, <1>8 DEF TxRing, Succ
  <2>3. [tx.desc EXCEPT ![X % S].dd = TRUE] \in [Position(TxRingSize) -> Desc]
    BY <1>4 DEF TxRing, Desc
  <2>4. tx' = [tx EXCEPT !.desc = [tx.desc EXCEPT ![X % S].dd = TRUE], !.tdh = (X + 1) % S]
    BY <1>2, <1>4, <1>8 DEF TxRing, Succ
  <2>5. tx' \in TxRing
    BY <1>4, <2>1, <2>3, <2>4 DEF TxRing
  <2> QED
    BY <2>2, <2>5
<1>10. \A i \in Nat : c <= i /\ i < c + S /\ i # X => tx'.desc[i % S] = tx.desc[i % S]
  <2> SUFFICES ASSUME NEW i \in Nat, c <= i, i < c + S, i # X
               PROVE  tx'.desc[i % S] = tx.desc[i % S]
    OBVIOUS
  <2>1. i < X + S /\ X < i + S
    <3> HIDE DEF S, W, X
    <3> QED
      BY <1>3, <1>5
  <2>2. i % S # X % S
    BY <1>3, <2>1, TxApart
  <2> QED
    BY <1>9, <2>2
<1>11. tx'.desc[X % S].dd
  BY <1>4, <1>9 DEF TxRing, Desc
<1>12. Copying' = Copying /\ \A q \in EthProc : Copies(q)' <=> Copies(q)
  BY <1>2 DEF Copying, Copies
<1>13. TxHolds(c)'
  <2>1. /\ c + S = W + Copying + tx'.osem /\ c <= X + 1 /\ X + 1 <= W
        /\ W + Copying < (X + 1) + S
    BY <1>3, <1>5, <1>9
  <2>2. \A i \in Nat : c <= i /\ i < X + 1 => tx'.desc[i % S].dd
    <3> SUFFICES ASSUME NEW i \in Nat, c <= i, i < X + 1
                 PROVE  tx'.desc[i % S].dd
      OBVIOUS
    <3>1. CASE i = X
      BY <1>11, <3>1
    <3>2. CASE i # X
      <4>1. i < X /\ i < c + S
        BY <1>3, <1>5, <3>2
      <4> QED
        BY <1>1, <1>10, <3>2, <4>1 DEF TxHolds
    <3> QED
      BY <3>1, <3>2
  <2>3. \A i \in Nat : X + 1 <= i /\ i < W =>
          tx'.desc[i % S] = [pkt |-> written[i + 1], dd |-> FALSE]
    <3> SUFFICES ASSUME NEW i \in Nat, X + 1 <= i, i < W
                 PROVE  tx'.desc[i % S] = [pkt |-> written[i + 1], dd |-> FALSE]
      OBVIOUS
    <3>1. i # X /\ X <= i /\ c <= i /\ i < c + S
      BY <1>3
    <3> QED
      BY <1>1, <1>10, <3>1 DEF TxHolds
  <2>4. \A i \in Nat : W <= i /\ i < c + S => ~tx'.desc[i % S].dd
    <3> SUFFICES ASSUME NEW i \in Nat, W <= i, i < c + S
                 PROVE  ~tx'.desc[i % S].dd
      OBVIOUS
    <3>1. i # X /\ c <= i
      BY <1>3, <1>5
    <3> QED
      BY <1>1, <1>10, <3>1 DEF TxHolds
  <2>5. \A q \in EthProc : Copies(q)' =>
          tx'.desc[W % S] = [pkt |-> ethcall'[q].pkt, dd |-> FALSE]
    <3> SUFFICES ASSUME NEW q \in EthProc, Copies(q)
                 PROVE  tx'.desc[W % S] = [pkt |-> ethcall[q].pkt, dd |-> FALSE]
      BY <1>2, <1>12
    <3>1. Copying = 1
      BY DEF Copying
    <3>2. c <= W /\ W < c + S /\ W # X
      BY <1>3, <1>5, <3>1
    <3> QED
      BY <1>1, <1>3, <1>10, <3>2 DEF TxHolds
  <2>6. tx'.head = c % S /\ tx'.tail = W % S /\ tx'.tdt = W % S
    BY <1>1, <1>9 DEF TxHolds
  <2> QED
    BY <1>2, <1>7, <1>9, <1>12, <2>1, <2>2, <2>3, <2>4, <2>5, <2>6, SMTT(30) DEF TxHolds
<1>14. \A i \in 1 .. Len(wire') : wire'[i] = written'[i]
  <2> SUFFICES ASSUME NEW i \in 1 .. X + 1
               PROVE  wire'[i] = written[i]
    BY <1>2, <1>7
  <2>1. CASE i = X + 1
    BY <1>7, <2>1
  <2>2. CASE i # X + 1
    <3>1. i \in 1 .. X
      BY <1>3, <2>2
    <3> QED
      BY <1>7, <3>1 DEF TxInv
  <2> QED
    BY <2>1, <2>2
<1>15. /\ tx' \in TxRing /\ ethcall' \in [EthProc -> Call] /\ sends' \in Nat
       /\ written' \in Seq(Nat) /\ wire' \in Seq(Nat)
  BY <1>2, <1>7, <1>9 DEF TxInv
<1>16. \E d \in Nat : TxHolds(d)'
  BY <1>13
<1>17. \A q, r \in EthProc : Copies(q)' /\ Copies(r)' => q = r
  BY <1>12 DEF TxInv
<1> QED
  BY <1>14, <1>15, <1>16, <1>17 DEF TxInv, TxRing, Position, Desc, Call

\* The handler reclaims what was sent since it last ran.
LEMMA TxReclaims ==
  ASSUME TxInv, tx' = TxPackets(tx), UNCHANGED <<ethcall, sends, written, wire>>,
         \A p \in EthProc : ~Copies(p)
  PROVE  TxInv'
<1> DEFINE S == TxRingSize
           W == Len(written)
           X == Len(wire)
<1>1. PICK c \in Nat : TxHolds(c)
  BY DEF TxInv
<1> DEFINE n == X - c
           gone == {(tx.head + k) % S : k \in 0 .. n - 1}
<1>2. Copying = 0
  BY DEF Copying
<1>3. /\ S \in Nat \ {0} /\ X \in Nat /\ W \in Nat /\ tx.osem \in Nat
      /\ c + S = W + tx.osem /\ c <= X /\ X <= W /\ W < X + S /\ W <= c + S
  <2>1. /\ S \in Nat \ {0} /\ X \in Nat /\ W \in Nat /\ tx.osem \in Nat
        /\ c + S = W + 0 + tx.osem /\ c <= X /\ X <= W /\ W + 0 < X + S /\ W + 0 <= c + S
    BY <1>1, <1>2, TxNumbers
  <2> HIDE DEF S, W, X
  <2> QED
    BY <2>1
<1>4. tx \in TxRing /\ tx.head = c % S
  BY <1>1 DEF TxInv, TxHolds
<1>5. n \in 0 .. S /\ c + n = X /\ n \in Nat
  BY <1>3
<1>6. DoneFrom(tx.desc, c % S, S) = n
  <2>1. \A k \in 0 .. n - 1 : tx.desc[(c + k) % S].dd
    <3> SUFFICES ASSUME NEW k \in 0 .. n - 1
                 PROVE  tx.desc[(c + k) % S].dd
      OBVIOUS
    <3> DEFINE i == c + k
    <3>1. i \in Nat /\ c <= i /\ i < X
      BY <1>3
    <3> HIDE DEF i
    <3>2. tx.desc[i % S].dd
      BY <1>1, <3>1 DEF TxHolds
    <3> QED
      BY <3>2 DEF i
  <2>2. n < S => ~tx.desc[(c + n) % S].dd
    <3> SUFFICES ASSUME n < S
                 PROVE  ~tx.desc[X % S].dd
      BY <1>5
    <3>1. CASE X = W
      <4>1. X < c + S
        BY <1>3
      <4> QED
        BY <1>1, <1>3, <3>1, <4>1 DEF TxHolds
    <3>2. CASE X # W
      <4>1. X < W
        BY <1>3, <3>2
      <4>2. tx.desc[X % S] = [pkt |-> written[X + 1], dd |-> FALSE]
        BY <1>1, <1>3, <4>1 DEF TxHolds
      <4> QED
        BY <4>2
    <3> QED
      BY <3>1, <3>2
  <2> HIDE DEF n, S
  <2> QED
    BY <1>3, <1>5, <2>1, <2>2, DoneFromIs
<1>7. ((c % S) + n) % S = X % S
  <2>1. c \in Int /\ n \in Int
    BY <1>5
  <2>2. ((c % S) + n) % S = (c + n) % S
    <3> HIDE DEF n
    <3> QED
      BY <2>1, TxPlaces, Zenon
  <2> QED
    BY <1>5, <2>2
<1> DEFINE desc == [i \in DOMAIN tx.desc |-> IF i \in gone THEN EmptyDesc ELSE tx.desc[i]]
<1>8. tx' = [tx EXCEPT !.desc = desc, !.head = X % S, !.osem = tx.osem + n]
  <2>1. tx' = [tx EXCEPT !.desc = [i \in DOMAIN @ |-> IF i \in gone THEN EmptyDesc ELSE @[i]],
                         !.head = (@ + n) % S, !.osem = @ + n]
    BY <1>4, <1>6 DEF TxPackets
  <2> HIDE DEF n, X, S, gone
  <2> QED
    BY <1>4, <1>7, <2>1 DEF TxRing
<1>9. desc \in [Position(S) -> Desc]
  <2>1. EmptyDesc \in Desc
    BY DEF EmptyDesc, Desc
  <2> HIDE DEF n, S, gone
  <2> QED
    BY <1>4, <2>1 DEF TxRing, S
<1>10. \A i \in Nat : i % S \in Position(S)
  <2>1. \A i \in Nat : i \in Int
    OBVIOUS
  <2> QED
    BY <2>1, TxPlaces, Zenon
<1>11. \A i \in Nat : X <= i /\ i < c + S => desc[i % S] = tx.desc[i % S]
  <2> SUFFICES ASSUME NEW i \in Nat, X <= i, i < c + S
               PROVE  desc[i % S] = tx.desc[i % S]
    OBVIOUS
  <2>1. i % S \notin gone
    <3> SUFFICES ASSUME NEW k \in 0 .. n - 1, i % S = (tx.head + k) % S
                 PROVE  FALSE
      OBVIOUS
    <3>1. ((c % S) + k) % S = (c + k) % S
      <4>1. c \in Int /\ k \in Int
        BY <1>5
      <4> QED
        BY <4>1, TxPlaces, Zenon
    <3> DEFINE j == c + k
    <3>2. j \in Nat /\ j < X /\ c <= j
      BY <1>3
    <3>3. i % S = j % S
      BY <1>4, <3>1
    <3> HIDE DEF j
    <3>4. j # i /\ j < i + S /\ i < j + S
      <4> HIDE DEF S, X, W
      <4> QED
        BY <1>3, <3>2
    <3> QED
      BY <3>2, <3>3, <3>4, TxApart
  <2>2. i % S \in DOMAIN tx.desc
    BY <1>4, <1>10 DEF TxRing
  <2> HIDE DEF gone
  <2> QED
    BY <2>1, <2>2
<1>12. \A i \in Nat : c + S <= i /\ i < X + S => desc[i % S] = EmptyDesc
  <2> SUFFICES ASSUME NEW i \in Nat, c + S <= i, i < X + S
               PROVE  desc[i % S] = EmptyDesc
    OBVIOUS
  <2> DEFINE k == i - S - c
             j == c + k
  <2>1. k \in 0 .. n - 1 /\ j \in Int /\ j + S = i /\ c \in Int /\ k \in Int
    BY <1>3
  <2> HIDE DEF k
  <2>2. i % S = (tx.head + k) % S
    <3>1. ((c % S) + k) % S = j % S
      BY <2>1, TxPlaces, Zenon
    <3>2. (j + S) % S = j % S
      <4> HIDE DEF j
      <4> QED
        BY <2>1, TxPlaces, Zenon
    <3> QED
      BY <1>4, <2>1, <3>1, <3>2
  <2>3. i % S \in gone
    BY <2>1, <2>2
  <2>4. i % S \in DOMAIN tx.desc
    BY <1>4, <1>10 DEF TxRing
  <2> HIDE DEF gone
  <2> QED
    BY <2>3, <2>4
<1> HIDE DEF desc
<1>13. /\ tx'.desc = desc /\ tx'.head = X % S /\ tx'.osem = tx.osem + n
       /\ tx'.tail = tx.tail /\ tx'.tdh = tx.tdh /\ tx'.tdt = tx.tdt /\ tx' \in TxRing
  <2>1. X % S \in Nat /\ tx.osem + n \in Nat
    BY <1>3, <1>5
  <2> HIDE DEF n, X, S
  <2>2. /\ tx'.desc = desc /\ tx'.head = X % S /\ tx'.osem = tx.osem + n
        /\ tx'.tail = tx.tail /\ tx'.tdh = tx.tdh /\ tx'.tdt = tx.tdt
    BY <1>4, <1>8 DEF TxRing
  <2>3. tx' \in TxRing
    BY <1>4, <1>8, <1>9, <2>1 DEF TxRing, S
  <2> QED
    BY <2>2, <2>3
<1>14. Copying' = 0 /\ \A q \in EthProc : ~Copies(q)'
  BY DEF Copying, Copies
<1>15. TxHolds(X)'
  <2>1. X + S = W + 0 + tx'.osem /\ X <= X /\ W + 0 < X + S
    <3> HIDE DEF X, W, S
    <3> QED
      BY <1>3, <1>13
  <2>2. \A i \in Nat : ~(X <= i /\ i < X)
    BY <1>3
  <2>3. \A i \in Nat : X <= i /\ i < W =>
          tx'.desc[i % S] = [pkt |-> written[i + 1], dd |-> FALSE]
    <3> SUFFICES ASSUME NEW i \in Nat, X <= i, i < W
                 PROVE  tx'.desc[i % S] = [pkt |-> written[i + 1], dd |-> FALSE]
      OBVIOUS
    <3>1. i < c + S
      BY <1>3
    <3> QED
      BY <1>1, <1>11, <1>13, <3>1 DEF TxHolds
  <2>4. \A i \in Nat : W <= i /\ i < X + S => ~tx'.desc[i % S].dd
    <3> SUFFICES ASSUME NEW i \in Nat, W <= i, i < X + S
                 PROVE  ~desc[i % S].dd
      BY <1>13
    <3>1. CASE i < c + S
      <4>1. X <= i
        BY <1>3
      <4> QED
        BY <1>1, <1>11, <3>1, <4>1 DEF TxHolds
    <3>2. CASE c + S <= i
      BY <1>12, <3>2 DEF EmptyDesc
    <3> QED
      BY <1>3, <3>1, <3>2
  <2>5. tx'.head = X % S /\ tx'.tdh = X % S /\ tx'.tail = W % S /\ tx'.tdt = W % S
    BY <1>1, <1>13 DEF TxHolds
  <2> QED
    BY <1>3, <1>14, <2>1, <2>2, <2>3, <2>4, <2>5 DEF TxHolds
<1>16. /\ tx' \in TxRing /\ ethcall' \in [EthProc -> Call] /\ sends' \in Nat
       /\ written' \in Seq(Nat) /\ wire' \in Seq(Nat)
       /\ \A i \in 1 .. Len(wire') : wire'[i] = written'[i]
  BY <1>13 DEF TxInv
<1>17. \E d \in Nat : TxHolds(d)'
  BY <1>3, <1>15
<1> QED
  BY <1>14, <1>16, <1>17 DEF TxInv, TxRing, Position, Desc, Call

\* What the property says of the transmit ring.
LEMMA TxOrder ==
  ASSUME TxInv
  PROVE  wire \o InDescs(tx.desc, tx.tdh, (tx.tdt - tx.tdh + TxRingSize) % TxRingSize) = written
<1> DEFINE S == TxRingSize
           W == Len(written)
           X == Len(wire)
           u == W - X
           s == InDescs(tx.desc, tx.tdh, u)
<1>1. PICK c \in Nat : TxHolds(c)
  BY DEF TxInv
<1>2. /\ S \in Nat \ {0} /\ X \in Nat /\ W \in Nat /\ Copying \in {0, 1}
      /\ c <= X /\ X <= W /\ W + Copying < X + S
  BY <1>1, TxNumbers
<1>3. /\ tx \in TxRing /\ wire \in Seq(Nat) /\ written \in Seq(Nat)
      /\ tx.tdh = X % S /\ tx.tdt = W % S
  BY <1>1 DEF TxInv, TxHolds
<1>4. W < X + S /\ u \in Nat
  <2> HIDE DEF S, W, X
  <2> QED
    BY <1>2
<1>5. (tx.tdt - tx.tdh + S) % S = u
  <2>1. X \in Int /\ W \in Int
    BY <1>2
  <2>2. ((W % S) - (X % S) + S) % S = W - X
    BY <1>2, <1>4, <2>1, RingAhead, Zenon
  <2> QED
    BY <1>3, <2>2
<1>6. Cardinality(DOMAIN tx.desc) = S
  <2>1. DOMAIN tx.desc = 0 .. S - 1
    BY <1>3 DEF TxRing, Position
  <2>2. Cardinality(0 .. S - 1) = IF 0 > S - 1 THEN 0 ELSE (S - 1) - 0 + 1
    BY <1>2, FS_Interval
  <2>3. (0 .. S - 1) = DOMAIN tx.desc /\ S \in Nat /\ S > 0
    BY <1>2, <2>1
  <2>4. (IF 0 > S - 1 THEN 0 ELSE (S - 1) - 0 + 1) = S
    BY <2>3
  <2> QED
    BY <2>1, <2>2, <2>4
<1>7. \A k \in 1 .. u : tx.desc[(tx.tdh + k - 1) % S].pkt = written[X + k]
  <2> SUFFICES ASSUME NEW k \in 1 .. u
               PROVE  tx.desc[(tx.tdh + k - 1) % S].pkt = written[X + k]
    OBVIOUS
  <2> DEFINE i == X + (k - 1)
  <2>1. i \in Nat /\ X <= i /\ i < W /\ i + 1 = X + k
    BY <1>2
  <2>2. ((X % S) + (k - 1)) % S = i % S
    <3>1. X \in Int /\ k - 1 \in Int
      BY <1>2
    <3> QED
      BY <3>1, TxPlaces, Zenon
  <2>3. (tx.tdh + k - 1) % S = i % S
    <3>1. X % S \in Int /\ (X % S) + (k - 1) = tx.tdh + k - 1
      BY <1>2, <1>3
    <3> QED
      BY <2>2, <3>1
  <2> HIDE DEF i
  <2>4. tx.desc[i % S] = [pkt |-> written[i + 1], dd |-> FALSE]
    BY <1>1, <2>1 DEF TxHolds
  <2> QED
    BY <2>1, <2>3, <2>4
<1>8. s = [k \in 1 .. u |-> written[X + k]]
  BY <1>6, <1>7 DEF InDescs
<1>9. \A k \in 1 .. u : written[X + k] \in Nat
  <2> SUFFICES ASSUME NEW k \in 1 .. u
               PROVE  written[X + k] \in Nat
    OBVIOUS
  <2>1. X + k \in 1 .. W
    BY <1>2
  <2> QED
    BY <1>3, <2>1
<1>10. s \in Seq(Nat) /\ Len(s) = u /\ \A k \in 1 .. u : s[k] = written[X + k]
  <2> HIDE DEF s, u
  <2> QED
    BY <1>4, <1>8, <1>9
<1> DEFINE t == wire \o s
<1>11. t = written
  <2> HIDE DEF s
  <2>1. /\ t \in Seq(Nat) /\ Len(t) = X + u
        /\ \A k \in 1 .. X + u : t[k] = IF k <= X THEN wire[k] ELSE s[k - X]
    BY <1>2, <1>3, <1>10, ConcatProperties, SMTT(30)
  <2>2. X + u = W
    BY <1>2
  <2> HIDE DEF u, t
  <2>3. \A k \in 1 .. W : t[k] = written[k]
    <3> SUFFICES ASSUME NEW k \in 1 .. W
                 PROVE  t[k] = written[k]
      OBVIOUS
    <3>1. CASE k <= X
      <4>1. k \in 1 .. X
        BY <1>2, <3>1
      <4>2. wire[k] = written[k]
        BY <4>1 DEF TxInv
      <4>3. k \in 1 .. X + u
        BY <1>2, <2>2
      <4> QED
        BY <2>1, <3>1, <4>2, <4>3
    <3>2. CASE k > X
      <4>1. k - X \in 1 .. u /\ X + (k - X) = k
        BY <1>2, <2>2, <3>2 DEF u
      <4>2. s[k - X] = written[k]
        BY <1>10, <4>1
      <4> QED
        BY <1>2, <2>1, <2>2, <3>2, <4>2
    <3> QED
      BY <1>2, <3>1, <3>2
  <2>4. t \in Seq(Nat) /\ Len(t) = W
    BY <2>1, <2>2
  <2> QED
    BY <1>3, <2>3, <2>4, SeqEqual
<1> QED
  BY <1>5, <1>11

-------------------------------------------------------------------------------
(* Both rings *)

\* Until the device is up the rings are as ethinit leaves them.
Fresh ==
  /\ rx = ConfigureRx /\ tx = ConfigureTx /\ cause = {}
  /\ ethcall = [p \in EthProc |-> NoWrite]
  /\ ethgot = <<>> /\ arrivals = 0 /\ sends = 0 /\ written = <<>> /\ wire = <<>>

RingInv == RxInv /\ TxInv /\ (ethstate # "up" => Fresh)

LEMMA RingInit ==
  EthInit => RingInv
BY RxFresh, TxFresh DEF EthInit, RingInv, Fresh

LEMMA RingStep ==
  ASSUME "race" \notin EthHazards, "full" \notin EthHazards, RingInv, [EthNext]_ethVars
  PROVE  RingInv'
<1> USE DEF RingInv
<1>1. ASSUME UNCHANGED <<rx, tx, cause, ethcall, ethgot, arrivals, sends, written, wire>>,
             ethstate = "up" => ethstate' = "up"
      PROVE  RingInv'
  <2>1. RxInv' /\ TxInv'
    BY <1>1, RxSame, TxSame DEF rxVars, txVars
  <2>2. Fresh => Fresh'
    BY <1>1 DEF Fresh, ConfigureRx, ConfigureTx, Ring, EmptyDesc, NoWrite
  <2> QED
    BY <1>1, <2>1, <2>2
<1>2. CASE FindController \/ ProgramPhy \/ UNCHANGED ethVars
  BY <1>1, <1>2 DEF FindController, ProgramPhy, ethVars
<1>3. CASE Negotiate
  BY <1>1, <1>3 DEF Negotiate, Fresh
<1>4. CASE Stores
  <2>1. RxInv'
    BY <1>4, RxStores
  <2>2. TxInv'
    BY <1>4, TxSame DEF Stores, txVars
  <2> QED
    BY <1>4, <2>1, <2>2 DEF Stores
<1>5. CASE Transmits
  <2>1. TxInv'
    BY <1>5, TxSends
  <2>2. RxInv'
    BY <1>5, RxSame DEF Transmits, rxVars
  <2> QED
    BY <1>5, <2>1, <2>2 DEF Transmits
<1>6. CASE Handler
  <2>1. ethstate = "up" /\ ethstate' = ethstate
    BY <1>6 DEF Handler, Fresh
  <2>2. RxInv'
    <3>1. CASE rx' = RxPackets(rx)
      BY <1>6, <3>1, RxHandled DEF Handler
    <3>2. CASE rx' = rx
      BY <1>6, <3>2, RxSame DEF Handler, rxVars
    <3> QED
      BY <1>6, <3>1, <3>2 DEF Handler
  <2>3. TxInv'
    <3>1. \A p \in EthProc : ~Copies(p)
      BY <1>6 DEF Handler, Copies
    <3>2. CASE tx' = TxPackets(tx)
      BY <1>6, <3>1, <3>2, TxReclaims DEF Handler
    <3>3. CASE tx' = tx
      BY <1>6, <3>3, TxSame DEF Handler, txVars
    <3> QED
      BY <1>6, <3>2, <3>3 DEF Handler
  <2> QED
    BY <2>1, <2>2, <2>3
<1>7. CASE EthRead
  <2>1. RxInv'
    BY <1>7, RxRead
  <2>2. TxInv'
    BY <1>7, TxSame DEF EthRead, txVars
  <2> QED
    BY <1>7, <2>1, <2>2 DEF EthRead
<1>8. ASSUME NEW p \in EthProc, EthWrite(p) \/ EthCopies(p) \/ EthAdvances(p)
      PROVE  RingInv'
  <2>1. TxInv'
    BY <1>8, TxBegins, TxCopies, TxAdvances
  <2>2. ethstate = "up" /\ ethstate' = ethstate /\ UNCHANGED rxVars
    BY <1>8 DEF EthWrite, EthCopies, EthAdvances, MayWrite, rxVars
  <2>3. RxInv'
    BY <2>2, RxSame
  <2> QED
    BY <2>1, <2>2, <2>3
<1> QED
  BY <1>2, <1>3, <1>4, <1>5, <1>6, <1>7, <1>8 DEF EthNext

\* Both rings keep every packet, in order, whatever their sizes and however many
\* packets go through them, as long as processes write with interrupts disabled and
\* leave a transmit descriptor free (ethread, ethwrite, ethhandler).
THEOREM RingsKeepOrder ==
  ASSUME "race" \notin EthHazards, "full" \notin EthHazards
  PROVE  EthSpec => []RingsInOrder
<1>1. RingInv /\ [EthNext]_ethVars => RingInv'
  BY RingStep
<1>2. RingInv => RingsInOrder
  BY RxOrder, TxOrder DEF RingInv, RingsInOrder
<1> QED
  BY RingInit, <1>1, <1>2, PTL DEF EthSpec

-------------------------------------------------------------------------------
(* The clients of UDP *)

\* What the uses admitted leave out: offers without their server and messages that
\* udp_in did not send, which leave a slot behind; late acknowledgements, which are
\* not of what this call requested.
Tidy == SvHazards \cap {"nosid", "stray"} = {}
Prompt == "late" \notin SvHazards

SvOps == {"dhcp", "dns", "tftp"}
SvState ==
  [op : SvOps \cup {"none"}, name : DnsNames \cup {<<>>}, i : Nat, j : Nat,
   last : {"discover", "request"}, asked : SUBSET Leases, port : Nat,
   expected : Nat, room : Nat, got : Seq(Nat), held : SUBSET SvOps]

DhcpMsg == [to : {"dhcp"}, type : {"offer", "ack"}, mine : BOOLEAN, addr : Leases,
            sid : {given \in BOOLEAN : given \/ ~Tidy}]
DnsMsg == [to : {"dns"}, answers : UNION {DnsReplies[n] : n \in DnsNames}]
TftpMsg == [to : {"tftp"}, type : {"data", "error"}, port : TfPorts, blk : Nat]

\* A call has its slot, and between calls nothing is left but slots that were
\* forgotten; what tftpget_mb stored is the start of the file up to the block it
\* expects.
SvOk(s) ==
  /\ s \in SvState
  /\ s.op = "none" => s = [SvIdle EXCEPT !.held = s.held]
  /\ s.op # "none" => s.op \in s.held
  /\ Tidy => s.held = {s.op} \cap SvOps
  /\ s.op = "dns" => s.name \in DnsNames
  /\ s.op = "tftp" => /\ s.got = [k \in 1 .. Len(s.got) |-> k]
                      /\ s.expected = Len(s.got) + 1

\* An acknowledgement on its way is of an address that this call requested.
NetOk(s, net) ==
  /\ net \subseteq DhcpMsg \cup DnsMsg \cup TftpMsg
  /\ Prompt /\ s.op = "dhcp" =>
       \A m \in net : m.to = "dhcp" /\ m.mine /\ m.type = "ack" => m.addr \in s.asked

SvInv ==
  /\ SvOk(sv) /\ NetOk(sv, svnet) /\ svserver \in [TfPorts -> Nat]
  /\ Prompt => AnswersMatch

-------------------------------------------------------------------------------
(* What a call leaves *)

LEMMA SvIdleIs ==
  /\ SvIdle \in SvState /\ SvIdle.op = "none" /\ SvIdle.held = {} /\ SvIdle.name = <<>>
  /\ SvIdle.asked = {} /\ SvIdle.got = <<>> /\ SvIdle.expected = 1
  BY DEF SvIdle, SvState, SvOps, TftpPort

LEMMA ReturnedIs ==
  ASSUME NEW s \in SvState
  PROVE  /\ Returned(s) \in SvState /\ Returned(s).op = "none" /\ Returned(s).held = s.held
         /\ Returned(s) = [SvIdle EXCEPT !.held = Returned(s).held]
<1> DEFINE h == s.held
<1>1. h \in SUBSET SvOps
  BY DEF SvState
<1>2. Returned(s) = [SvIdle EXCEPT !.held = h]
  BY DEF Returned
<1> HIDE DEF h
<1>3. Returned(s) \in SvState /\ Returned(s).op = "none" /\ Returned(s).held = h
  BY <1>1, <1>2, SvIdleIs DEF SvState
<1> QED
  BY <1>2, <1>3 DEF h

LEMMA ReleasesIs ==
  ASSUME NEW s \in SvState, NEW service
  PROVE  /\ Releases(s, service) \in SvState /\ Releases(s, service).held = s.held \ {service}
         /\ Releases(s, service).name = s.name
<1> DEFINE h == s.held \ {service}
<1>1. h \in SUBSET SvOps
  BY DEF SvState
<1>2. Releases(s, service) = [s EXCEPT !.held = h]
  BY DEF Releases
<1> HIDE DEF h
<1>3. Releases(s, service) \in SvState /\ Releases(s, service).held = h /\ Releases(s, service).name = s.name
  BY <1>1, <1>2 DEF SvState
<1> QED
  BY <1>3 DEF h

\* A call that releases its slot returns with none, one that does not only where
\* slots are forgotten.
LEMMA Closes ==
  ASSUME NEW s, SvOk(s), s.op # "none"
  PROVE  SvOk(Returned(Releases(s, s.op))) /\ Returned(Releases(s, s.op)).op = "none"
<1> DEFINE t == Releases(s, s.op)
<1>1. s \in SvState /\ s.op \in SvOps
  BY DEF SvOk, SvState
<1>2. t \in SvState /\ t.held = s.held \ {s.op}
  BY <1>1, ReleasesIs
<1> HIDE DEF t
<1> DEFINE r == Returned(t)
<1>3. r \in SvState /\ r.op = "none" /\ r.held = t.held /\ r = [SvIdle EXCEPT !.held = r.held]
  BY <1>2, ReturnedIs
<1> HIDE DEF r
<1>4. Tidy => r.held = {r.op} \cap SvOps
  BY <1>1, <1>2, <1>3 DEF SvOk, SvOps
<1>5. SvOk(r)
  BY <1>3, <1>4 DEF SvOk
<1> QED
  BY <1>3, <1>5 DEF r, t

LEMMA Leaves ==
  ASSUME NEW s, SvOk(s), ~Tidy
  PROVE  SvOk(Returned(s)) /\ Returned(s).op = "none"
<1> DEFINE r == Returned(s)
<1>1. r \in SvState /\ r.op = "none" /\ r = [SvIdle EXCEPT !.held = r.held]
  BY ReturnedIs DEF SvOk
<1> HIDE DEF r
<1>2. SvOk(r)
  BY <1>1 DEF SvOk
<1> QED
  BY <1>1, <1>2 DEF r

\* A datagram that arrives leaves others as they are.
LEMMA RemainsIs ==
  ASSUME NEW s, NetOk(s, svnet), NEW m, NEW net \in Remains(m)
  PROVE  NetOk(s, net) /\ net \subseteq svnet
  BY DEF Remains, NetOk

\* To a process that waits for nothing of DHCP anything may be on its way.
LEMMA NetAny ==
  ASSUME NEW s, s.op # "dhcp", NEW net, net \subseteq DhcpMsg \cup DnsMsg \cup TftpMsg
  PROVE  NetOk(s, net)
  BY DEF NetOk

\* A result that answers no question.
NoAnswer(op, value) == value = "error" \/ op \notin SvOps

LEMMA ResultEmpty ==
  ASSUME NEW op, NEW value, NoAnswer(op, value), svresult' = SvResult(op, value, {})
  PROVE  AnswersMatch'
<1>1. svresult'.op = op /\ svresult'.value = value /\ svresult'.for = {}
  BY DEF SvResult
<1> QED
  BY <1>1 DEF AnswersMatch, NoAnswer, SvOps

LEMMA ResultKept == AnswersMatch /\ UNCHANGED svresult => AnswersMatch'
  BY DEF AnswersMatch

-------------------------------------------------------------------------------
(* getlocalip *)

LEMMA DhcpAnswersIn ==
  /\ DhcpOffers \subseteq DhcpMsg /\ DhcpOthers \subseteq DhcpMsg
  /\ \A m \in DhcpOffers : m.to = "dhcp" /\ m.type = "offer"
  /\ \A m \in DhcpOthers : m.to = "dhcp" /\ ~m.mine
  /\ \A a \in Leases : DhcpAck(a) \in DhcpMsg /\ DhcpAck(a).addr = a
<1>1. DhcpOffers \subseteq DhcpMsg /\ \A m \in DhcpOffers : m.to = "dhcp" /\ m.type = "offer"
  BY DEF DhcpOffers, DhcpMsg, Tidy
<1>2. DhcpOthers \subseteq DhcpMsg /\ \A m \in DhcpOthers : m.to = "dhcp" /\ ~m.mine
  BY DEF DhcpOthers, DhcpMsg
<1>3. \A a \in Leases : DhcpAck(a) \in DhcpMsg /\ DhcpAck(a).addr = a
  BY DEF DhcpAck, DhcpMsg
<1> QED
  BY <1>1, <1>2, <1>3

\* What a message of this call is answered with, when it asked for what it requests.
LEMMA NetAdds ==
  ASSUME NEW s, NEW net, NetOk(s, net), NEW last, NEW a \in Leases,
         last # "discover" => a \in s.asked, NEW m \in DhcpAnswers(last, a)
  PROVE  NetOk(s, net \cup {m})
<1>1. CASE last = "discover"
  <2>1. m \in DhcpMsg /\ m.type = "offer"
    BY <1>1, DhcpAnswersIn DEF DhcpAnswers
  <2> QED
    BY <2>1 DEF NetOk
<1>2. CASE last # "discover"
  <2>1. m \in DhcpMsg /\ m.addr = a
    BY <1>2, DhcpAnswersIn DEF DhcpAnswers
  <2> QED
    BY <1>2, <2>1 DEF NetOk
<1> QED
  BY <1>1, <1>2

\* The end of one of the reads, with what it has left under way.
LEMMA TurnKeeps ==
  ASSUME SvInv, NEW s, SvOk(s), s.op = "dhcp", NEW net, NetOk(s, net), DhcpTurn(s, net)
  PROVE  SvInv'
<1>0. s \in SvState /\ s.asked \subseteq Leases /\ s.i \in Nat /\ s.j \in Nat
  BY DEF SvOk, SvState
<1> DEFINE r == Returned(Releases(s, "dhcp"))
<1>1. SvOk(r) /\ r.op = "none"
  BY Closes
<1>2. \/ sv' = r
      \/ /\ SvOk(sv') /\ sv'.op = "dhcp" /\ sv'.asked = s.asked
  <2> DEFINE k == s.j + 1
             l == s.i + 1
  <2> HIDE DEF r
  <2>1. k \in Nat /\ l \in Nat
    BY <1>0
  <2>2. sv' \in {[s EXCEPT !.j = k], [s EXCEPT !.i = l, !.j = 0], r}
    BY DEF DhcpTurn, DhcpNextRead, r
  <2> HIDE DEF k, l
  <2>3. ASSUME NEW t \in {[s EXCEPT !.j = k], [s EXCEPT !.i = l, !.j = 0]}
        PROVE  SvOk(t) /\ t.op = "dhcp" /\ t.asked = s.asked
    <3>1. t \in SvState /\ t.op = "dhcp" /\ t.asked = s.asked /\ t.held = s.held
      <4>1. CASE t = [s EXCEPT !.j = k]
        BY <1>0, <2>1, <4>1 DEF SvState
      <4>2. CASE t = [s EXCEPT !.i = l, !.j = 0]
        BY <1>0, <2>1, <4>2 DEF SvState
      <4> QED
        BY <4>1, <4>2
    <3> QED
      BY <3>1 DEF SvOk
  <2> QED
    BY <2>2, <2>3
<1>3. NetOk(s, svnet')
  <2>1. CASE s.j + 1 >= DhcpReads /\ s.i + 1 < DhcpRetry
    <3>1. PICK a \in IF s.last = "discover" THEN Leases ELSE s.asked :
            \E m \in DhcpAnswers(s.last, a) : svnet' \in {net, net \cup {m}}
      BY <2>1 DEF DhcpTurn
    <3>2. PICK m \in DhcpAnswers(s.last, a) : svnet' \in {net, net \cup {m}}
      BY <3>1
    <3>3. a \in Leases /\ (s.last # "discover" => a \in s.asked)
      BY <1>0, <3>1
    <3> QED
      BY <3>2, <3>3, NetAdds
  <2>2. CASE ~(s.j + 1 >= DhcpReads /\ s.i + 1 < DhcpRetry)
    BY <2>2 DEF DhcpTurn
  <2> QED
    BY <2>1, <2>2
<1>4. SvOk(sv') /\ NetOk(sv', svnet')
  BY <1>1, <1>2, <1>3 DEF NetOk
<1>5. svserver' \in [TfPorts -> Nat]
  BY DEF SvInv, DhcpTurn
<1>6. Prompt => AnswersMatch'
  <2>1. svresult' = svresult \/ svresult' = SvResult("dhcp", "error", {})
    BY DEF DhcpTurn
  <2> QED
    BY <2>1, ResultEmpty, ResultKept DEF SvInv, NoAnswer
<1> QED
  BY <1>4, <1>5, <1>6 DEF SvInv, SvOk, NetOk, Prompt, Tidy

LEMMA GetLocalIpKeeps ==
  ASSUME SvInv, NEW op, NEW name \in DnsNames \cup {<<>>}, GetLocalIp(op, name)
  PROVE  SvInv'
<1>1. CASE "dhcp" \in sv.held
  <2>1. svresult' = SvResult(op, "error", {}) /\ UNCHANGED <<sv, svnet, svserver>>
    BY <1>1 DEF GetLocalIp
  <2>2. AnswersMatch'
    BY <2>1, ResultEmpty DEF NoAnswer
  <2> QED
    BY <2>1, <2>2 DEF SvInv, SvOk, NetOk, Prompt, Tidy
<1>2. CASE "dhcp" \notin sv.held
  <2> DEFINE h == sv.held \cup {"dhcp"}
  <2>1. /\ sv.op = "none" /\ sv \in SvState /\ sv.held \subseteq SvOps
        /\ sv = [SvIdle EXCEPT !.held = sv.held]
    BY DEF GetLocalIp, SvInv, SvOk, SvState
  <2>2. sv.asked = {}
    BY <2>1, SvIdleIs DEF SvIdle
  <2>3. Registers(sv, "dhcp") = [sv EXCEPT !.held = h]
    BY DEF Registers
  <2>4. sv' = [[sv EXCEPT !.held = h] EXCEPT !.op = "dhcp", !.name = name]
    BY <1>2, <2>3 DEF GetLocalIp
  <2>5. h \subseteq SvOps
    BY <2>1 DEF SvOps
  <2>6. Tidy => h = {"dhcp"} \cap SvOps
    BY <2>1 DEF SvInv, SvOk, SvOps
  <2>7. "dhcp" \in h
    OBVIOUS
  <2> HIDE DEF h
  <2>8. sv' \in SvState /\ sv'.op = "dhcp" /\ sv'.held = h /\ sv'.asked = sv.asked
    BY <2>1, <2>4, <2>5 DEF SvState, SvOps
  <2>9. SvOk(sv')
    BY <2>6, <2>7, <2>8 DEF SvOk
  <2>10. NetOk(sv', svnet')
    <3>1. PICK m \in DhcpOffers \cup DhcpOthers : svnet' \in {Before, Before \cup {m}}
      BY <1>2 DEF GetLocalIp
    <3>2. m \in DhcpMsg /\ ~(m.mine /\ m.type = "ack")
      BY DhcpAnswersIn
    <3>3. Before \subseteq svnet /\ (Prompt => \A d \in Before : d.to # "dhcp")
      BY DEF Before, Prompt
    <3>4. svnet \subseteq DhcpMsg \cup DnsMsg \cup TftpMsg
      BY DEF SvInv, NetOk
    <3>5. svnet' \subseteq DhcpMsg \cup DnsMsg \cup TftpMsg
      BY <3>1, <3>2, <3>3, <3>4
    <3>6. Prompt => \A d \in svnet' : ~(d.to = "dhcp" /\ d.mine /\ d.type = "ack")
      BY <3>1, <3>2, <3>3
    <3> QED
      BY <3>5, <3>6 DEF NetOk
  <2>11. AnswersMatch' /\ svserver' = svserver
    <3>1. svresult' = SvResult("none", "none", {}) /\ svserver' = svserver
      BY <1>2 DEF GetLocalIp
    <3> QED
      BY <3>1, ResultEmpty DEF NoAnswer, SvOps
  <2> QED
    BY <2>9, <2>10, <2>11 DEF SvInv, SvOk, NetOk, Prompt, Tidy
<1> QED
  BY <1>1, <1>2

LEMMA DhcpTimesOutKeeps == SvInv /\ DhcpTimesOut => SvInv'
  BY TurnKeeps DEF DhcpTimesOut, SvInv

LEMMA DhcpStrayKeeps == SvInv /\ DhcpStray => SvInv'
<1> SUFFICES ASSUME SvInv, DhcpStray
             PROVE  SvInv'
  OBVIOUS
<1>1. /\ ~Tidy /\ sv.op = "dhcp" /\ sv' = Returned(sv) /\ svresult' = SvResult("dhcp", "error", {})
      /\ svnet' = svnet /\ svserver' = svserver
  BY DEF DhcpStray, Tidy
<1>2. SvOk(sv') /\ sv'.op = "none"
  BY <1>1, Leaves DEF SvInv
<1>3. NetOk(sv', svnet')
  BY <1>1, <1>2 DEF SvInv, NetOk
<1>4. AnswersMatch'
  BY <1>1, ResultEmpty DEF NoAnswer
<1> QED
  BY <1>1, <1>2, <1>3, <1>4 DEF SvInv, SvOk, NetOk, Prompt, Tidy

LEMMA DhcpRequestsKeeps ==
  ASSUME SvInv, NEW m \in svnet, DhcpRequests(m)
  PROVE  SvInv'
<1>1. SvOk(sv) /\ sv \in SvState /\ sv.op = "dhcp" /\ NetOk(sv, svnet) /\ m.to = "dhcp" /\ m.mine /\ m.type = "offer"
  BY DEF SvInv, SvOk, DhcpRequests
<1>2. m \in DhcpMsg
  BY <1>1 DEF NetOk, DhcpMsg, DnsMsg, TftpMsg
<1>3. CASE m.sid
  <2> DEFINE a == m.addr
             s == [sv EXCEPT !.last = "request", !.asked = @ \cup {a}]
             k == sv.asked \cup {a}
  <2>1. PICK net \in Remains(m) : \E back \in {net, net \cup {DhcpAck(a)}} : DhcpTurn(s, back)
    BY <1>3 DEF DhcpRequests
  <2>2. PICK back \in {net, net \cup {DhcpAck(a)}} : DhcpTurn(s, back)
    BY <2>1
  <2>3. a \in Leases /\ k \subseteq Leases
    BY <1>1, <1>2 DEF DhcpMsg, SvState
  <2>4. s = [sv EXCEPT !.last = "request", !.asked = k]
    BY <1>1
  <2>5. a \in k /\ sv.asked \subseteq k
    OBVIOUS
  <2> HIDE DEF s, k, a
  <2>6. s \in SvState /\ s.op = "dhcp" /\ s.held = sv.held /\ s.asked = k
    BY <1>1, <2>3, <2>4 DEF SvState
  <2>7. SvOk(s)
    BY <1>1, <2>6 DEF SvOk
  <2>8. NetOk(s, net)
    BY <1>1, <2>1, <2>5, <2>6, RemainsIs DEF NetOk
  <2>9. NetOk(s, back)
    BY <2>2, <2>3, <2>5, <2>6, <2>8, DhcpAnswersIn DEF NetOk
  <2> QED
    BY <2>2, <2>6, <2>7, <2>9, TurnKeeps
<1>4. CASE ~m.sid
  <2>1. sv' = Returned(sv) /\ svnet' \in Remains(m) /\ svresult' = SvResult("dhcp", "error", {}) /\ svserver' = svserver
    BY <1>4 DEF DhcpRequests
  <2>2. SvOk(sv') /\ sv'.op = "none"
    <3>1. CASE Tidy
      <4>1. m.sid
        BY <1>2, <3>1 DEF DhcpMsg
      <4> QED
        BY <1>4, <4>1
    <3>2. CASE ~Tidy
      BY <1>1, <2>1, <3>2, Leaves
    <3> QED
      BY <3>1, <3>2
  <2>3. NetOk(sv', svnet')
    BY <1>1, <2>1, <2>2, RemainsIs DEF NetOk
  <2>4. AnswersMatch'
    BY <2>1, ResultEmpty DEF NoAnswer
  <2> QED
    BY <2>1, <2>2, <2>3, <2>4 DEF SvInv, SvOk, NetOk, Prompt, Tidy
<1> QED
  BY <1>3, <1>4

\* dnslookup registers its slot, or returns if it is not free.
LEMMA DnsStarts ==
  ASSUME NEW s, SvOk(s), s.op = "dhcp", NEW t, t = Releases(s, "dhcp"), s.name \in DnsNames
  PROVE  SvOk(DnsStart(t)) /\ DnsStart(t).op \in {"none", "dns"}
         /\ (DnsStart(t).op = "dns" => DnsStart(t).name \in DnsNames)
<1>1. s \in SvState /\ s.op \in SvOps
  BY DEF SvOk, SvState, SvOps
<1>2. t \in SvState /\ t.held = s.held \ {"dhcp"} /\ t.name = s.name
  BY <1>1, ReleasesIs
<1> DEFINE r == Returned(t)
<1>3. SvOk(r) /\ r.op = "none"
  BY Closes
<1>4. r \in SvState /\ r.held = t.held
  BY <1>2, ReturnedIs
<1>5. CASE "dns" \in t.held
  BY <1>3, <1>5 DEF DnsStart
<1>6. CASE "dns" \notin t.held
  <2> DEFINE h == r.held \cup {"dns"}
             n == t.name
             u == [[r EXCEPT !.held = h] EXCEPT !.op = "dns", !.name = n]
  <2>1. DnsStart(t) = u
    BY <1>6 DEF DnsStart, Registers
  <2>2. h \subseteq SvOps /\ "dns" \in h /\ n \in DnsNames
    BY <1>2, <1>4 DEF SvState, SvOps
  <2>3. Tidy => h = {"dns"} \cap SvOps
    BY <1>2, <1>4 DEF SvOk, SvOps
  <2> HIDE DEF h, n, r
  <2>4. u \in SvState /\ u.op = "dns" /\ u.held = h /\ u.name = n
    BY <1>4, <2>2 DEF SvState, SvOps
  <2> HIDE DEF u
  <2>5. SvOk(u)
    BY <2>2, <2>3, <2>4 DEF SvOk
  <2> QED
    BY <2>1, <2>2, <2>4, <2>5
<1> QED
  BY <1>5, <1>6

\* What may be added to the net by a query for a name.
LEMMA DnsAsks ==
  ASSUME NEW s, NEW net, NetOk(s, net), NEW name \in DnsNames, NEW a \in DnsReplies[name]
  PROVE  NetOk(s, net \cup {[to |-> "dns", answers |-> a]})
<1> DEFINE m == [to |-> "dns", answers |-> a]
<1>1. a \in UNION {DnsReplies[n] : n \in DnsNames}
  OBVIOUS
<1>2. m \in DnsMsg /\ m.to = "dns"
  BY <1>1 DEF DnsMsg
<1> HIDE DEF m
<1>3. NetOk(s, net \cup {m})
  BY <1>2 DEF NetOk
<1> QED
  BY <1>3 DEF m

LEMMA DhcpBindsKeeps ==
  ASSUME SvInv, NEW m \in svnet, DhcpBinds(m)
  PROVE  SvInv'
<1> DEFINE s == Releases(sv, "dhcp")
<1>1. /\ SvOk(sv) /\ sv \in SvState /\ sv.op = "dhcp" /\ NetOk(sv, svnet)
      /\ m.to = "dhcp" /\ m.mine /\ m.type = "ack"
  BY DEF SvInv, SvOk, DhcpBinds, DhcpAccepts
<1>2. /\ sv' = IF sv.name = <<>> THEN Returned(s) ELSE DnsStart(s)
      /\ svresult' = SvResult("dhcp", m.addr, IF m.mine THEN sv.asked ELSE {})
      /\ svserver' = svserver
  BY DEF DhcpBinds
<1>3. /\ SvOk(sv') /\ sv'.op \in {"none", "dns"}
      /\ sv'.op = "dns" => sv.name \in DnsNames
  <2>1. CASE sv.name = <<>>
    <3>1. sv' = Returned(s)
      BY <1>2, <2>1
    <3> QED
      BY <1>1, <3>1, Closes
  <2>2. CASE sv.name # <<>>
    <3>1. sv' = DnsStart(s) /\ sv.name \in DnsNames
      BY <1>1, <1>2, <2>2 DEF SvState
    <3> QED
      BY <1>1, <3>1, DnsStarts
  <2> QED
    BY <2>1, <2>2
<1>4. NetOk(sv', svnet')
  <2>1. PICK net \in Remains(m) :
          svnet' \in {net} \cup {net \cup {[to |-> "dns", answers |-> a]} :
                               a \in IF sv'.op = "dns" THEN DnsReplies[sv.name] ELSE {}}
    BY DEF DhcpBinds
  <2>2. NetOk(sv, net)
    BY <1>1, <2>1, RemainsIs
  <2>3. NetOk(sv', net)
    BY <1>3, <2>2 DEF NetOk
  <2>4. CASE svnet' = net
    BY <2>3, <2>4
  <2>5. CASE svnet' # net
    <3>1. sv'.op = "dns" /\ \E a \in DnsReplies[sv.name] : svnet' = net \cup {[to |-> "dns", answers |-> a]}
      BY <2>1, <2>5
    <3> QED
      BY <1>3, <2>3, <3>1, DnsAsks
  <2> QED
    BY <2>4, <2>5
<1>5. Prompt => AnswersMatch'
  <2> SUFFICES ASSUME Prompt
               PROVE  AnswersMatch'
    OBVIOUS
  <2>1. m.addr \in sv.asked
    BY <1>1 DEF NetOk
  <2>2. svresult'.op = "dhcp" /\ svresult'.value = m.addr /\ svresult'.for = sv.asked
    BY <1>1, <1>2 DEF SvResult
  <2> QED
    BY <2>1, <2>2 DEF AnswersMatch
<1> QED
  BY <1>2, <1>3, <1>4, <1>5 DEF SvInv, SvOk, NetOk, Prompt, Tidy

LEMMA DhcpSkipsKeeps ==
  ASSUME SvInv, NEW m \in svnet, DhcpSkips(m)
  PROVE  SvInv'
<1>1. SvOk(sv) /\ sv.op = "dhcp" /\ NetOk(sv, svnet)
  BY DEF SvInv, DhcpSkips
<1>2. PICK net \in Remains(m) : DhcpTurn(sv, net)
  BY DEF DhcpSkips
<1>3. NetOk(sv, net)
  BY <1>1, <1>2, RemainsIs
<1> QED
  BY <1>1, <1>2, <1>3, TurnKeeps

-------------------------------------------------------------------------------
(* dnslookup *)

LEMMA DnsTurnKeeps ==
  ASSUME SvInv, sv.op = "dns", NEW net, NetOk(sv, net), DnsTurn(net)
  PROVE  SvInv'
<1>1. SvOk(sv) /\ sv \in SvState /\ sv.i \in Nat /\ sv.name \in DnsNames
  BY DEF SvInv, SvOk, SvState
<1> DEFINE r == Returned(Releases(sv, "dns"))
           k == sv.i + 1
<1>2. SvOk(r) /\ r.op = "none"
  BY <1>1, Closes
<1> HIDE DEF r
<1>3. sv' \in {[sv EXCEPT !.i = k], r}
  BY DEF DnsTurn, DnsAgain, r
<1>4. k \in Nat
  BY <1>1
<1> HIDE DEF k
<1>5. SvOk(sv') /\ sv'.op \in {"dns", "none"}
  <2>1. CASE sv' = [sv EXCEPT !.i = k]
    <3>1. /\ sv' \in SvState /\ sv'.op = "dns" /\ sv'.held = sv.held /\ sv'.name = sv.name
      BY <1>1, <1>4, <2>1 DEF SvState
    <3> QED
      BY <1>1, <3>1 DEF SvOk
  <2> QED
    BY <1>2, <1>3, <2>1
<1>6. NetOk(sv', svnet')
  <2>1. svnet' \in {net} \cup {net \cup {[to |-> "dns", answers |-> a]} :
                               a \in IF sv'.op = "dns" THEN DnsReplies[sv.name] ELSE {}}
    BY DEF DnsTurn
  <2>2. NetOk(sv', net)
    BY <1>5 DEF NetOk
  <2>3. CASE svnet' # net
    <3>1. \E a \in DnsReplies[sv.name] : svnet' = net \cup {[to |-> "dns", answers |-> a]}
      BY <2>1, <2>3
    <3> QED
      BY <1>1, <2>2, <3>1, DnsAsks
  <2> QED
    BY <2>2, <2>3
<1>7. Prompt => AnswersMatch'
  <2>1. svresult' = svresult \/ svresult' = SvResult("dns", "error", {})
    BY DEF DnsTurn
  <2> QED
    BY <2>1, ResultEmpty, ResultKept DEF SvInv, NoAnswer
<1>8. svserver' = svserver
  BY DEF DnsTurn
<1> QED
  BY <1>5, <1>6, <1>7, <1>8 DEF SvInv, SvOk, NetOk, Prompt, Tidy

LEMMA DnsTimesOutKeeps == SvInv /\ DnsTimesOut => SvInv'
  BY DnsTurnKeeps DEF DnsTimesOut, SvInv

\* A set of places has a first and a last.
LEMMA Ends ==
  ASSUME NEW n \in Nat, NEW S \in SUBSET (1 .. n), S # {}
  PROVE  Min(S) \in S /\ Max(S) \in S
<1>1. \E x \in S : \A y \in S : x <= y
  BY Least
<1>2. \E x \in S : \A y \in S : x >= y
  <2> DEFINE R == {n - x : x \in S}
  <2>1. R \in SUBSET Nat /\ R # {}
    <3>1. \A x \in S : n - x \in Nat
      OBVIOUS
    <3>2. PICK x \in S : TRUE
      OBVIOUS
    <3>3. n - x \in R
      BY <3>2
    <3> QED
      BY <3>1, <3>3
  <2>2. PICK x \in R : \A y \in R : x <= y
    <3> HIDE DEF R
    <3> QED
      BY <2>1, Least
  <2>3. PICK z \in S : x = n - z
    OBVIOUS
  <2>4. ASSUME NEW y \in S
        PROVE  z >= y
    <3>1. n - y \in R
      OBVIOUS
    <3>2. n - z <= n - y
      BY <2>2, <2>3, <3>1
    <3> QED
      BY <3>2
  <2> QED
    BY <2>4
<1> QED
  BY <1>1, <1>2 DEF Min, Max

\* The address taken for a name is that name's, whatever was asked for before.
LEMMA DnsBestIs ==
  ASSUME NEW dname \in DnsNames, NEW name \in DnsNames, NEW answers \in DnsReplies[name],
         DnsBest(dname, answers) # "none"
  PROVE  dname = <<DnsBest(dname, answers)>>
<1> DEFINE hits == {k \in DOMAIN answers : AnswersName(dname, answers[k])}
           near == {k \in hits : answers[k].addr \in LocalHosts}
           n == Len(answers)
<1>1. /\ n \in Nat /\ DOMAIN answers = 1 .. n
      /\ \A k \in DOMAIN answers : answers[k].type = "A" => answers[k].name = <<answers[k].addr>>
  <2>1. answers \in Seq([type : STRING, name : Seq(STRING), addr : STRING])
    BY DnsAssumption
  <2> QED
    BY <2>1, DnsAssumption
<1>2. hits # {}
  BY DEF DnsBest
<1>3. hits \subseteq 1 .. n /\ near \subseteq 1 .. n
  BY <1>1
<1>4. PICK k \in hits : DnsBest(dname, answers) = answers[k].addr
  <2>1. CASE near = {}
    <3>1. Min(hits) \in hits
      <4> HIDE DEF hits, n
      <4> QED
        BY <1>1, <1>2, <1>3, Ends
    <3> QED
      BY <1>2, <2>1, <3>1 DEF DnsBest
  <2>2. CASE near # {}
    <3>1. Max(near) \in near
      <4> HIDE DEF near, n
      <4> QED
        BY <1>1, <1>3, <2>2, Ends
    <3> QED
      BY <1>2, <2>2, <3>1 DEF DnsBest
  <2> QED
    BY <2>1, <2>2
<1> DEFINE a == answers[k].addr
           w == <<a>>
<1>5. IsPrefix(dname, w)
  BY <1>1 DEF AnswersName
<1>6. dname \in Seq(STRING) /\ dname # <<>>
  BY DnsAssumption
<1>7. Len(dname) \in Nat /\ Len(dname) # 0 /\ DOMAIN dname = 1 .. Len(dname)
  BY <1>6, EmptySeq
<1>8. w \in Seq({a}) /\ Len(w) = 1 /\ w[1] = a
  OBVIOUS
<1> HIDE DEF a, w
<1>9. Len(dname) = 1 /\ SubSeq(dname, 1, 1) = SubSeq(w, 1, 1)
  BY <1>5, <1>7, <1>8 DEF IsPrefix
<1>10. dname[1] = w[1]
  <2>1. SubSeq(dname, 1, 1)[1] = dname[1]
    BY <1>6, <1>9
  <2>2. SubSeq(w, 1, 1)[1] = w[1]
    BY <1>8
  <2> QED
    BY <1>9, <2>1, <2>2
<1>11. dname = <<dname[1]>>
  BY <1>6, <1>9
<1>12. dname = <<a>>
  BY <1>8, <1>10, <1>11
<1> QED
  BY <1>4, <1>12 DEF a

LEMMA DnsReceivesKeeps ==
  ASSUME SvInv, NEW m \in svnet, DnsReceives(m)
  PROVE  SvInv'
<1> DEFINE best == DnsBest(sv.name, m.answers)
<1>1. SvOk(sv) /\ sv \in SvState /\ sv.op = "dns" /\ sv.name \in DnsNames /\ NetOk(sv, svnet) /\ m.to = "dns"
  BY DEF SvInv, SvOk, DnsReceives
<1>2. CASE best = "none"
  <2>1. PICK net \in Remains(m) : DnsTurn(net)
    BY <1>2 DEF DnsReceives
  <2>2. NetOk(sv, net)
    BY <1>1, <2>1, RemainsIs
  <2> QED
    BY <1>1, <2>1, <2>2, DnsTurnKeeps
<1>3. CASE best # "none"
  <2>1. /\ sv' = Returned(Releases(sv, "dns")) /\ svnet' \in Remains(m)
        /\ svresult' = SvResult("dns", best, {sv.name}) /\ svserver' = svserver
    BY <1>3 DEF DnsReceives
  <2>2. SvOk(sv') /\ sv'.op = "none"
    BY <1>1, <2>1, Closes
  <2>3. NetOk(sv', svnet')
    BY <1>1, <2>1, <2>2, RemainsIs DEF NetOk
  <2>4. sv.name = <<best>>
    <3>1. m \in DnsMsg
      BY <1>1 DEF NetOk, DhcpMsg, DnsMsg, TftpMsg
    <3>2. PICK name \in DnsNames : m.answers \in DnsReplies[name]
      BY <3>1 DEF DnsMsg
    <3> QED
      BY <1>1, <1>3, <3>2, DnsBestIs
  <2>5. AnswersMatch'
    <3> HIDE DEF best
    <3>1. svresult'.op = "dns" /\ svresult'.value = best /\ svresult'.for = {<<best>>}
      BY <2>1, <2>4 DEF SvResult
    <3> QED
      BY <3>1 DEF AnswersMatch
  <2> QED
    BY <2>1, <2>2, <2>3, <2>5 DEF SvInv, SvOk, NetOk, Prompt, Tidy
<1> QED
  BY <1>2, <1>3

-------------------------------------------------------------------------------
(* tftpget_mb *)

LEMMA TfDataIn ==
  \A p \in TfPorts : \A blk \in Nat :
    TfData(p, blk) \in TftpMsg /\ [to |-> "tftp", type |-> "error", port |-> p, blk |-> 0] \in TftpMsg
  BY DEF TfData, TftpMsg

\* What the servers do with a message, and what that leads to.
LEMMA ServesKeeps ==
  ASSUME NEW server \in [TfPorts -> Nat], NEW port \in Nat, NEW blk,
         NEW later \in TfServes(port, blk, server)
  PROVE  later \in [TfPorts -> Nat]
<1>1. CASE port = TftpPort
  BY <1>1 DEF TfServes
<1>2. CASE port # TftpPort
  <2>1. later = [server EXCEPT ![port] = IF blk = @ /\ blk < TfBlocks THEN @ + 1 ELSE @]
    BY <1>2 DEF TfServes
  <2>2. CASE port \in TfPorts
    <3> DEFINE v == IF blk = server[port] /\ blk < TfBlocks THEN server[port] + 1 ELSE server[port]
    <3>1. v \in Nat
      BY <2>2
    <3>2. later = [server EXCEPT ![port] = v]
      BY <2>1
    <3> HIDE DEF v
    <3> QED
      BY <3>1, <3>2
  <2>3. CASE port \notin TfPorts
    <3>1. later = server
      BY <2>1, <2>3
    <3> QED
      BY <3>1
  <2> QED
    BY <2>2, <2>3
<1> QED
  BY <1>1, <1>2

Msgs == DhcpMsg \cup DnsMsg \cup TftpMsg

LEMMA SendsKeeps ==
  ASSUME svserver \in [TfPorts -> Nat], NEW port \in Nat, NEW blk, NEW net, net \subseteq Msgs,
         TfSends(port, blk, net)
  PROVE  svserver' \in [TfPorts -> Nat] /\ svnet' \subseteq Msgs
<1>1. CASE svserver' = svserver /\ svnet' = net
  BY <1>1
<1>2. CASE /\ svserver' \in TfServes(port, blk, svserver)
           /\ svnet' = net \cup {TfData(p, svserver'[p]) : p \in {q \in TfPorts : svserver'[q] > svserver[q]}}
  <2>1. svserver' \in [TfPorts -> Nat]
    BY <1>2, ServesKeeps
  <2>2. \A p \in TfPorts : TfData(p, svserver'[p]) \in TftpMsg
    BY <2>1, TfDataIn
  <2> QED
    BY <1>2, <2>1, <2>2 DEF Msgs
<1> QED
  BY <1>1, <1>2 DEF TfSends

LEMMA TfServerAgainKeeps == SvInv /\ TfServerAgain => SvInv'
<1> SUFFICES ASSUME SvInv, TfServerAgain
             PROVE  SvInv'
  OBVIOUS
<1>1. PICK p \in TfPorts :
        /\ svnet' \in {svnet \cup {TfData(p, svserver[p])},
                       svnet \cup {[to |-> "tftp", type |-> "error", port |-> p, blk |-> 0]}}
        /\ UNCHANGED <<sv, svserver, svresult>> /\ sv.op = "tftp"
  BY DEF TfServerAgain
<1>2. svnet' \subseteq Msgs
  <2>1. svserver[p] \in Nat /\ svnet \subseteq Msgs
    BY DEF SvInv, NetOk, Msgs
  <2>2. TfData(p, svserver[p]) \in Msgs /\ [to |-> "tftp", type |-> "error", port |-> p, blk |-> 0] \in Msgs
    BY <2>1, TfDataIn DEF Msgs
  <2> HIDE DEF Msgs
  <2> QED
    BY <1>1, <2>1, <2>2
<1>3. NetOk(sv', svnet')
  BY <1>1, <1>2 DEF NetOk, Msgs
<1> QED
  BY <1>1, <1>3, ResultKept DEF SvInv, SvOk, NetOk, Prompt, Tidy

LEMMA TftpGetKeeps == SvInv /\ TftpGet => SvInv'
<1> SUFFICES ASSUME SvInv, TftpGet
             PROVE  SvInv'
  OBVIOUS
<1> DEFINE h == sv.held \cup {"tftp"}
           server == [p \in TfPorts |-> 0]
           net == {m \in svnet : m.to # "tftp"}
<1>1. PICK room \in TfRooms : sv' = [Registers(sv, "tftp") EXCEPT !.op = "tftp", !.room = room]
  BY DEF TftpGet
<1>2. /\ sv.op = "none" /\ sv \in SvState /\ sv.held \subseteq SvOps /\ room \in Nat
      /\ sv = [SvIdle EXCEPT !.held = sv.held]
  BY ServicesAssumption DEF TftpGet, SvInv, SvOk, SvState
<1>3. sv.got = <<>> /\ sv.expected = 1
  BY <1>2, SvIdleIs DEF SvIdle
<1>4. sv' = [[sv EXCEPT !.held = h] EXCEPT !.op = "tftp", !.room = room]
  BY <1>1 DEF Registers
<1>5. h \subseteq SvOps /\ "tftp" \in h
  BY <1>2 DEF SvOps
<1>6. Tidy => h = {"tftp"} \cap SvOps
  BY <1>2 DEF SvInv, SvOk, SvOps
<1> HIDE DEF h
<1>7. /\ sv' \in SvState /\ sv'.op = "tftp" /\ sv'.held = h
      /\ sv'.got = sv.got /\ sv'.expected = sv.expected
  BY <1>2, <1>4, <1>5 DEF SvState, SvOps
<1>8. SvOk(sv')
  <2>1. sv'.got = [k \in 1 .. Len(sv'.got) |-> k] /\ sv'.expected = Len(sv'.got) + 1
    BY <1>3, <1>7
  <2> QED
    BY <1>5, <1>6, <1>7, <2>1 DEF SvOk
<1>9. svserver' \in [TfPorts -> Nat] /\ svnet' \subseteq Msgs
  <2>1. net \subseteq Msgs /\ server \in [TfPorts -> Nat]
    BY DEF SvInv, NetOk, Msgs
  <2>2. CASE svserver' = server /\ svnet' = net
    BY <2>1, <2>2
  <2>3. CASE /\ svserver' \in TfServes(TftpPort, 0, server)
             /\ svnet' = net \cup {TfData(p, 1) : p \in {q \in TfPorts : svserver'[q] > 0}}
    <3>1. svserver' \in [TfPorts -> Nat]
      <4> HIDE DEF server
      <4>1. TftpPort \in Nat
        BY DEF TftpPort
      <4> QED
        BY <2>1, <2>3, <4>1, ServesKeeps
    <3>2. \A p \in TfPorts : TfData(p, 1) \in TftpMsg
      BY TfDataIn
    <3> HIDE DEF net
    <3> QED
      BY <2>1, <2>3, <3>1, <3>2 DEF Msgs
  <2> QED
    BY <2>2, <2>3 DEF TftpGet
<1>10. NetOk(sv', svnet')
  BY <1>7, <1>9, NetAny DEF Msgs
<1>11. AnswersMatch'
  <2>1. svresult' = SvResult("none", "none", {})
    BY DEF TftpGet
  <2> QED
    BY <2>1, ResultEmpty DEF NoAnswer, SvOps
<1> QED
  BY <1>8, <1>9, <1>10, <1>11 DEF SvInv, SvOk, NetOk, Prompt, Tidy

\* The call ends with what it has stored.
LEMMA TftpEnds ==
  ASSUME SvInv, sv.op = "tftp", NEW value, NEW got, sv' = Returned(Releases(sv, "tftp")),
         svresult' = SvResult("tftp", value, {got}), got = [k \in 1 .. Len(got) |-> k],
         value = "whole" => Len(got) = TfBlocks,
         svserver' \in [TfPorts -> Nat], svnet' \subseteq Msgs
  PROVE  SvInv'
<1>1. SvOk(sv') /\ sv'.op = "none"
  BY Closes DEF SvInv
<1>2. NetOk(sv', svnet')
  BY <1>1, NetAny DEF Msgs
<1>3. AnswersMatch'
  <2>1. svresult'.op = "tftp" /\ svresult'.value = value /\ svresult'.for = {got}
    BY DEF SvResult
  <2> QED
    BY <2>1 DEF AnswersMatch
<1> QED
  BY <1>1, <1>2, <1>3 DEF SvInv, SvOk, NetOk, Prompt, Tidy

\* The call goes on: what it has stored and expects is as it was.
LEMMA TftpGoesOn ==
  ASSUME SvInv, sv.op = "tftp", sv' \in SvState, sv'.op = "tftp", sv'.held = sv.held,
         sv'.got = [k \in 1 .. Len(sv'.got) |-> k], sv'.expected = Len(sv'.got) + 1,
         svserver' \in [TfPorts -> Nat], svnet' \subseteq Msgs, svresult' = svresult
  PROVE  SvInv'
<1>1. SvOk(sv')
  BY DEF SvInv, SvOk
<1>2. NetOk(sv', svnet')
  BY NetAny DEF Msgs
<1> QED
  BY <1>1, <1>2, ResultKept DEF SvInv, SvOk, NetOk, Prompt, Tidy

LEMMA TftpFacts ==
  ASSUME SvInv, sv.op = "tftp"
  PROVE  /\ sv \in SvState /\ sv.got \in Seq(Nat) /\ Len(sv.got) \in Nat /\ sv.port \in Nat /\ sv.i \in Nat
         /\ sv.got = [k \in 1 .. Len(sv.got) |-> k] /\ sv.expected = Len(sv.got) + 1
         /\ svserver \in [TfPorts -> Nat] /\ svnet \subseteq Msgs
         /\ \A m \in svnet : m.to = "tftp" => m.port \in Nat
<1>1. /\ sv \in SvState /\ sv.got \in Seq(Nat) /\ sv.port \in Nat /\ sv.i \in Nat
      /\ sv.got = [k \in 1 .. Len(sv.got) |-> k] /\ sv.expected = Len(sv.got) + 1
      /\ svserver \in [TfPorts -> Nat] /\ svnet \subseteq Msgs
  BY DEF SvInv, SvOk, SvState, NetOk, Msgs
<1>2. \A m \in svnet : m.to = "tftp" => m.port \in Nat
  BY <1>1, ServicesAssumption DEF Msgs, DhcpMsg, DnsMsg, TftpMsg
<1> QED
  BY <1>1, <1>2

LEMMA TftpTimesOutKeeps == SvInv /\ TftpTimesOut => SvInv'
<1> SUFFICES ASSUME SvInv, TftpTimesOut
             PROVE  SvInv'
  OBVIOUS
<1>1. sv.op = "tftp"
  BY DEF TftpTimesOut
<1>2. CASE sv.i + 1 < TftpMaxRetries
  <2> DEFINE k == sv.i + 1
  <2>1. sv' = [sv EXCEPT !.i = k] /\ TfSends(sv.port, sv.expected - 1, svnet) /\ svresult' = svresult
    BY <1>2 DEF TftpTimesOut
  <2>2. k \in Nat
    BY <1>1, TftpFacts
  <2> HIDE DEF k
  <2>3. /\ sv' \in SvState /\ sv'.op = "tftp" /\ sv'.held = sv.held /\ sv'.got = sv.got
        /\ sv'.expected = sv.expected
    BY <1>1, <2>1, <2>2, TftpFacts DEF SvState
  <2>4. svserver' \in [TfPorts -> Nat] /\ svnet' \subseteq Msgs
    BY <1>1, <2>1, TftpFacts, SendsKeeps
  <2> QED
    BY <1>1, <2>1, <2>3, <2>4, TftpFacts, TftpGoesOn
<1>3. CASE ~(sv.i + 1 < TftpMaxRetries)
  <2>1. TftpReturns("error") /\ UNCHANGED <<svnet, svserver>>
    BY <1>3 DEF TftpTimesOut
  <2>2. svserver' \in [TfPorts -> Nat] /\ svnet' \subseteq Msgs
    BY <1>1, <2>1, TftpFacts
  <2> QED
    BY <1>1, <2>1, <2>2, TftpFacts, TftpEnds DEF TftpReturns
<1> QED
  BY <1>2, <1>3

LEMMA TftpIgnoresKeeps ==
  ASSUME SvInv, NEW m \in svnet, TftpIgnores(m)
  PROVE  SvInv'
<1> DEFINE q == m.port
<1>1. /\ sv.op = "tftp" /\ m.to = "tftp" /\ sv' = [sv EXCEPT !.port = q]
      /\ svnet' \in Remains(m) /\ svserver' = svserver /\ svresult' = svresult
  BY DEF TftpIgnores
<1>2. q \in Nat
  BY <1>1, TftpFacts
<1> HIDE DEF q
<1>3. /\ sv' \in SvState /\ sv'.op = "tftp" /\ sv'.held = sv.held /\ sv'.got = sv.got
      /\ sv'.expected = sv.expected
  BY <1>1, <1>2, TftpFacts DEF SvState
<1>4. svserver' \in [TfPorts -> Nat] /\ svnet' \subseteq Msgs
  BY <1>1, TftpFacts DEF Remains
<1> QED
  BY <1>1, <1>3, <1>4, TftpFacts, TftpGoesOn

LEMMA TftpErrorKeeps ==
  ASSUME SvInv, NEW m \in svnet, TftpError(m)
  PROVE  SvInv'
<1>1. sv.op = "tftp" /\ TftpReturns("error") /\ svnet' \in Remains(m) /\ svserver' = svserver
  BY DEF TftpError
<1>2. svserver' \in [TfPorts -> Nat] /\ svnet' \subseteq Msgs
  BY <1>1, TftpFacts DEF Remains
<1> QED
  BY <1>1, <1>2, TftpFacts, TftpEnds DEF TftpReturns

\* The block that is expected is stored behind those that there are.
LEMMA TftpReceivesKeeps ==
  ASSUME SvInv, NEW m \in svnet, TftpReceives(m)
  PROVE  SvInv'
<1> DEFINE got == Append(sv.got, m.blk)
           full == Len(sv.got) = sv.room
           last == m.blk = TfBlocks
           q == m.port
<1>1. sv.op = "tftp" /\ m.to = "tftp" /\ m.blk = sv.expected
  BY DEF TftpReceives, TftpExpects
<1>2. /\ got \in Seq(Nat) /\ Len(got) = m.blk /\ got = [k \in 1 .. Len(got) |-> k] /\ m.blk \in Nat /\ q \in Nat
  <2> DEFINE n == Len(sv.got)
             g == sv.got
             b == m.blk
  <2>1. g \in Seq(Nat) /\ n \in Nat /\ g = [k \in 1 .. n |-> k] /\ b = n + 1 /\ q \in Nat /\ n = Len(g)
    BY <1>1, TftpFacts
  <2>2. Append(g, b) \in Seq(Nat) /\ Len(Append(g, b)) = n + 1
    BY <2>1
  <2>3. \A k \in 1 .. n + 1 : Append(g, b)[k] = k
    BY <2>1
  <2>4. Append(g, b) = [k \in 1 .. n + 1 |-> k]
    BY <2>1, <2>2, <2>3
  <2> QED
    BY <2>1, <2>2, <2>4
<1>3. svserver' \in [TfPorts -> Nat] /\ svnet' \subseteq Msgs
  <2>1. PICK net \in Remains(m) :
          IF full THEN svnet' = net /\ UNCHANGED svserver ELSE TfSends(m.port, m.blk, net)
    BY DEF TftpReceives
  <2>2. net \subseteq Msgs
    BY <1>1, <2>1, TftpFacts DEF Remains
  <2> QED
    BY <1>1, <1>2, <2>1, <2>2, TftpFacts, SendsKeeps
<1>4. CASE full \/ last
  <2> DEFINE value == IF full THEN "full" ELSE "whole"
             stored == IF full THEN sv.got ELSE got
  <2>1. sv' = Returned(Releases(sv, "tftp")) /\ svresult' = SvResult("tftp", value, {stored})
    BY <1>4 DEF TftpReceives
  <2>2. stored = [k \in 1 .. Len(stored) |-> k]
    <3> HIDE DEF got
    <3> QED
      BY <1>1, <1>2, TftpFacts
  <2>3. value = "whole" => Len(stored) = TfBlocks
    <3> HIDE DEF got
    <3> QED
      BY <1>2, <1>4
  <2> HIDE DEF value, stored
  <2> QED
    BY <1>1, <1>3, <2>1, <2>2, <2>3, TftpEnds
<1>5. CASE ~(full \/ last)
  <2> DEFINE e == sv.expected + 1
  <2>1. sv' = [sv EXCEPT !.got = got, !.expected = e, !.port = q, !.i = 0] /\ svresult' = svresult
    BY <1>5 DEF TftpReceives
  <2>2. e \in Nat /\ e = Len(got) + 1
    BY <1>1, <1>2
  <2> HIDE DEF got, e, q
  <2>3. /\ sv' \in SvState /\ sv'.op = "tftp" /\ sv'.held = sv.held /\ sv'.got = got /\ sv'.expected = e
    BY <1>1, <1>2, <2>1, <2>2, TftpFacts DEF SvState
  <2> QED
    BY <1>1, <1>2, <1>3, <2>1, <2>2, <2>3, TftpGoesOn
<1> QED
  BY <1>4, <1>5

-------------------------------------------------------------------------------
(* The theorems *)

LEMMA SvInitKeeps == SvInit => SvInv
<1> SUFFICES ASSUME SvInit
             PROVE  SvInv
  OBVIOUS
<1>1. sv = SvIdle /\ svnet = {} /\ svserver = [p \in TfPorts |-> 0] /\ svresult = SvResult("none", "none", {})
  BY DEF SvInit
<1>2. SvOk(sv)
  <2>1. SvIdle = [SvIdle EXCEPT !.held = SvIdle.held]
    BY DEF SvIdle
  <2> QED
    BY <1>1, <2>1, SvIdleIs DEF SvOk, SvOps
<1>3. NetOk(sv, svnet)
  BY <1>1 DEF NetOk
<1>4. AnswersMatch
  BY <1>1 DEF AnswersMatch, SvResult
<1>5. svserver \in [TfPorts -> Nat]
  BY <1>1
<1> QED
  BY <1>2, <1>3, <1>4, <1>5 DEF SvInv

LEMMA SvNextKeeps == SvInv /\ [SvNext]_svVars => SvInv'
<1> SUFFICES ASSUME SvInv, [SvNext]_svVars
             PROVE  SvInv'
  OBVIOUS
<1>1. ASSUME GetLocalIp("dhcp", <<>>) PROVE SvInv'
  BY <1>1, GetLocalIpKeeps
<1>2. ASSUME NEW name \in DnsNames, GetLocalIp("dns", name) PROVE SvInv'
  BY <1>2, GetLocalIpKeeps
<1>3. ASSUME NEW m \in svnet, DhcpRequests(m) PROVE SvInv'
  BY <1>3, DhcpRequestsKeeps
<1>4. ASSUME NEW m \in svnet, DhcpBinds(m) PROVE SvInv'
  BY <1>4, DhcpBindsKeeps
<1>5. ASSUME NEW m \in svnet, DhcpSkips(m) PROVE SvInv'
  BY <1>5, DhcpSkipsKeeps
<1>6. ASSUME NEW m \in svnet, DnsReceives(m) PROVE SvInv'
  BY <1>6, DnsReceivesKeeps
<1>7. ASSUME NEW m \in svnet, TftpIgnores(m) PROVE SvInv'
  BY <1>7, TftpIgnoresKeeps
<1>8. ASSUME NEW m \in svnet, TftpError(m) PROVE SvInv'
  BY <1>8, TftpErrorKeeps
<1>9. ASSUME NEW m \in svnet, TftpReceives(m) PROVE SvInv'
  BY <1>9, TftpReceivesKeeps
<1>10. ASSUME DhcpTimesOut \/ DhcpStray \/ DnsTimesOut \/ TftpGet \/ TftpTimesOut \/ TfServerAgain PROVE SvInv'
  BY <1>10, DhcpTimesOutKeeps, DhcpStrayKeeps, DnsTimesOutKeeps, TftpGetKeeps, TftpTimesOutKeeps, TfServerAgainKeeps
<1>11. ASSUME UNCHANGED svVars PROVE SvInv'
  BY <1>11 DEF svVars, SvInv, SvOk, NetOk, Prompt, Tidy, AnswersMatch
<1> QED
  BY <1>1, <1>2, <1>3, <1>4, <1>5, <1>6, <1>7, <1>8, <1>9, <1>10, <1>11 DEF SvNext

\* The clients of UDP keep SvInv: a call has its slot, a slot nobody uses was left
\* behind by one of the ways out that the admitted uses have, and tftpget_mb expects
\* the block after those it has stored (dhcp.c, dns.c, tftp.c).
THEOREM ServicesInvariant == SvSpec => []SvInv
<1>1. SvInit => SvInv
  BY SvInitKeeps
<1>2. SvInv /\ [SvNext]_svVars => SvInv'
  BY SvNextKeeps
<1> QED
  BY <1>1, <1>2, PTL DEF SvSpec

\* Where an answer to an earlier call is not late, what a call returns is the
\* answer to what it asked (dhcp.c, dns.c, tftp.c).
THEOREM ServicesAnswersMatch ==
  ASSUME Prompt
  PROVE  SvSpec => []AnswersMatch
<1>1. SvInv => AnswersMatch
  BY DEF SvInv
<1> QED
  BY <1>1, ServicesInvariant, PTL

\* Where DHCP servers name themselves and nobody else sends messages, a call that
\* has returned holds no UDP slot (dhcp.c, dns.c, tftp.c).
THEOREM ServicesSlotsReturned ==
  ASSUME Tidy
  PROVE  SvSpec => []SlotsReturned
<1>1. SvInv => SlotsReturned
  BY DEF SvInv, SvOk, SlotsReturned, SvOps
<1> QED
  BY <1>1, ServicesInvariant, PTL
===============================================================================
