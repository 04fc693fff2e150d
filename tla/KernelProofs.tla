----------------------------- MODULE KernelProofs -----------------------------
(***************************************************************************)
(* The process manager: lemmas about the lists of queuetab, what a list    *)
(* holds after insert, getitem and getfirst and that it keeps its order,   *)
(* and about the functions of the scheduler: ready, resched, the deferred  *)
(* readying of several processes, the entrance to the delta list and the   *)
(* ways out; then the theorems, action by action.                          *)
(***************************************************************************)
EXTENDS KernelInvariant, CommonProofs, SequenceTheorems

-------------------------------------------------------------------------------
(* Lists *)

\* What is on a list.
LEMMA InDef ==
  ASSUME NEW list \in Seq(Pid)
  PROVE  /\ \A q : In(list, q) <=> \E i \in 1 .. Len(list) : list[i] = q
         /\ \A q : In(list, q) => q \in Pid
         /\ \A i \in 1 .. Len(list) : In(list, list[i])
         /\ IsInjective(list) <=> \A i, j \in 1 .. Len(list) : list[i] = list[j] => i = j
  BY DEF In, ToSet, IsInjective

\* A list with one more element, which insert, insertd and enqueue make and
\* getitem undoes: it holds that element and what it held before, and each of
\* its processes is on it once if that was so and the new one was not on it.
LEMMA SplicedFacts ==
  ASSUME NEW list \in Seq(Pid), NEW r, NEW n \in 0 .. Len(list), NEW p \in Pid,
         Spliced(r, list, n, p)
  PROVE  /\ \A q : In(r, q) <=> In(list, q) \/ q = p
         /\ IsInjective(r) <=> IsInjective(list) /\ ~In(list, p)
<1>1. r \in Seq(Pid)
  BY DEF Spliced
<1>2. \A i \in 1 .. Len(list) : i <= n \/ i \in n + 1 .. Len(list)
  OBVIOUS
<1>3. \A i \in 1 .. Len(list) : \E j \in 1 .. Len(r) : j # n + 1 /\ r[j] = list[i]
  <2> SUFFICES ASSUME NEW i \in 1 .. Len(list)
               PROVE  \E j \in 1 .. Len(r) : j # n + 1 /\ r[j] = list[i]
    OBVIOUS
  <2>1. CASE i <= n
    BY <2>1 DEF Spliced
  <2>2. CASE i > n
    <3>1. r[i + 1] = list[i] /\ i + 1 \in 1 .. Len(r) /\ i + 1 # n + 1
      BY <2>2 DEF Spliced
    <3> QED
      BY <3>1
  <2> QED
    BY <2>1, <2>2
<1>4. \A j \in 1 .. Len(r) : j # n + 1 => \E i \in 1 .. Len(list) :
         /\ list[i] = r[j]
         /\ (j <= n /\ i = j) \/ (j > n + 1 /\ i = j - 1)
  <2> SUFFICES ASSUME NEW j \in 1 .. Len(r), j # n + 1
               PROVE  \E i \in 1 .. Len(list) :
                        /\ list[i] = r[j]
                        /\ (j <= n /\ i = j) \/ (j > n + 1 /\ i = j - 1)
    OBVIOUS
  <2>1. CASE j <= n
    BY <2>1 DEF Spliced
  <2>2. CASE j > n
    <3>1. j - 1 \in n + 1 .. Len(list) /\ (j - 1) + 1 = j
      BY <2>2 DEF Spliced
    <3>2. r[j] = list[j - 1] /\ j > n + 1
      BY <3>1 DEF Spliced
    <3> QED
      BY <3>1, <3>2
  <2> QED
    BY <2>1, <2>2
<1>5. r[n + 1] = p /\ n + 1 \in 1 .. Len(r)
  BY DEF Spliced
<1>6. \A q : In(r, q) <=> In(list, q) \/ q = p
  <2>1. \A q : In(r, q) <=> \E j \in 1 .. Len(r) : r[j] = q
    BY <1>1, InDef
  <2>2. \A q : In(list, q) <=> \E j \in 1 .. Len(list) : list[j] = q
    BY InDef
  <2> QED
    BY <2>1, <2>2, <1>3, <1>4, <1>5
<1>7. ASSUME IsInjective(r)
      PROVE  IsInjective(list) /\ ~In(list, p)
  <2>1. \A i, j \in 1 .. Len(r) : r[i] = r[j] => i = j
    BY <1>1, <1>7, InDef
  <2>2. ~In(list, p)
    <3>1. ~\E i \in 1 .. Len(list) : list[i] = p
      BY <1>3, <1>5, <2>1
    <3> QED
      BY <3>1, InDef
  <2>3. ASSUME NEW i \in 1 .. Len(list), NEW j \in 1 .. Len(list), list[i] = list[j]
        PROVE  i = j
    <3> DEFINE at(k) == IF k <= n THEN k ELSE k + 1
    <3>1. \A k \in 1 .. Len(list) : at(k) \in 1 .. Len(r) /\ r[at(k)] = list[k]
      BY DEF Spliced
    <3>2. at(i) = at(j)
      <4> HIDE DEF at
      <4> QED
        BY <2>1, <2>3, <3>1
    <3> QED
      BY <3>2
  <2> QED
    BY <2>2, <2>3, InDef
<1>8. ASSUME IsInjective(list), ~In(list, p)
      PROVE  IsInjective(r)
  <2>1. \A i, j \in 1 .. Len(list) : list[i] = list[j] => i = j
    BY <1>8, InDef
  <2>2. \A j \in 1 .. Len(r) : j # n + 1 => r[j] # p
    BY <1>4, <1>8, InDef
  <2>3. ASSUME NEW i \in 1 .. Len(r), NEW j \in 1 .. Len(r), r[i] = r[j],
               i # n + 1, j # n + 1
        PROVE  i = j
    BY <1>4, <2>1, <2>3
  <2> QED
    BY <1>1, <1>5, <2>2, <2>3, InDef
<1> QED
  BY <1>6, <1>7, <1>8

\* InsertAt of the community modules splices.
LEMMA InsertAtSplices ==
  ASSUME NEW list \in Seq(Pid), NEW n \in 0 .. Len(list), NEW p \in Pid
  PROVE  Spliced(InsertAt(list, n + 1, p), list, n, p)
<1> DEFINE a == SubSeq(list, 1, n)
           c == SubSeq(list, n + 1, Len(list))
           b == a \o <<p>>
           r == InsertAt(list, n + 1, p)
<1>1. /\ a \in Seq(Pid) /\ Len(a) = n /\ \A i \in 1 .. n : a[i] = list[i]
  OBVIOUS
<1>2. /\ c \in Seq(Pid) /\ Len(c) = Len(list) - n
      /\ \A i \in 1 .. Len(list) - n : c[i] = list[n + i]
  OBVIOUS
<1>3. r = b \o c
  <2>1. (n + 1) - 1 = n
    OBVIOUS
  <2> QED
    BY <2>1 DEF InsertAt
<1> HIDE DEF a, c, r
<1>4. /\ b \in Seq(Pid) /\ Len(b) = n + 1 /\ \A i \in 1 .. n : b[i] = a[i]
      /\ b[n + 1] = p
  BY <1>1
<1> HIDE DEF b
<1>5. /\ r \in Seq(Pid) /\ Len(r) = Len(list) + 1 /\ \A i \in 1 .. n + 1 : r[i] = b[i]
      /\ \A i \in n + 2 .. Len(list) + 1 : r[i] = c[i - (n + 1)]
  BY <1>2, <1>3, <1>4
<1>6. \A i \in n + 1 .. Len(list) : r[i + 1] = list[i]
  <2> SUFFICES ASSUME NEW i \in n + 1 .. Len(list)
               PROVE  r[i + 1] = list[i]
    OBVIOUS
  <2>1. i + 1 \in n + 2 .. Len(list) + 1 /\ (i + 1) - (n + 1) = i - n
    OBVIOUS
  <2>2. r[i + 1] = c[i - n]
    BY <1>5, <2>1
  <2>3. i - n \in 1 .. Len(list) - n /\ n + (i - n) = i
    OBVIOUS
  <2> QED
    BY <1>2, <2>2, <2>3
<1> QED
  BY <1>1, <1>4, <1>5, <1>6 DEF r, Spliced

\* insert: behind all that have keys not smaller, before one that is smaller.
LEMMA InsertSplices ==
  ASSUME NEW list \in Seq(Pid), NEW key \in [Pid -> Int], NEW p \in Pid
  PROVE  \E n \in 0 .. Len(list) :
           /\ Spliced(Insert(list, key, p), list, n, p)
           /\ \A j \in 1 .. n : key[list[j]] >= key[p]
           /\ n < Len(list) => key[list[n + 1]] < key[p]
<1> DEFINE passed == {i \in DOMAIN list : \A j \in 1 .. i : key[list[j]] >= key[p]}
           n == Cardinality(passed)
<1>1. /\ passed \in SUBSET (1 .. Len(list)) /\ Len(list) \in Nat
      /\ \A i \in passed : 1 .. i \subseteq passed
  OBVIOUS
<1>2. n \in 0 .. Len(list) /\ passed = 1 .. n
  <2> HIDE DEF passed
  <2> QED
    BY <1>1, PrefixSet
<1>3. Insert(list, key, p) = InsertAt(list, n + 1, p)
  BY DEF Insert
<1> HIDE DEF n
<1>4. Spliced(Insert(list, key, p), list, n, p)
  BY <1>2, <1>3, InsertAtSplices
<1>5. \A j \in 1 .. n : key[list[j]] >= key[p]
  BY <1>2
<1>6. ASSUME n < Len(list)
      PROVE  key[list[n + 1]] < key[p]
  <2>1. n + 1 \in 1 .. Len(list) /\ n + 1 \notin passed
    BY <1>2, <1>6
  <2>2. PICK j \in 1 .. n + 1 : ~(key[list[j]] >= key[p])
    BY <2>1
  <2>3. j = n + 1
    BY <1>2, <1>5, <2>2
  <2>4. key[list[j]] \in Int /\ key[p] \in Int
    BY <2>1, <2>3
  <2> QED
    BY <2>2, <2>3, <2>4
<1> QED
  BY <1>2, <1>4, <1>5, <1>6

\* getitem: what was there once is taken out.
LEMMA UnlinkSplices ==
  ASSUME NEW list \in Seq(Pid), NEW p, In(list, p)
  PROVE  \E n \in 0 .. Len(list) - 1 :
           /\ Unlink(list, p) \in Seq(Pid) /\ Len(Unlink(list, p)) = Len(list) - 1
           /\ Spliced(list, Unlink(list, p), n, p)
           /\ n + 1 = CHOOSE i \in DOMAIN list : list[i] = p
<1> DEFINE m == CHOOSE i \in DOMAIN list : list[i] = p
           r == Unlink(list, p)
<1>1. m \in 1 .. Len(list) /\ list[m] = p
  BY DEF In, ToSet
<1>2. r = SubSeq(list, 1, m - 1) \o SubSeq(list, m + 1, Len(list))
  BY DEF Unlink, RemoveAt
<1>3. m = CHOOSE i \in DOMAIN list : list[i] = p
  OBVIOUS
<1> HIDE DEF m, r
<1> DEFINE a == SubSeq(list, 1, m - 1)
           c == SubSeq(list, m + 1, Len(list))
<1>4. /\ a \in Seq(Pid) /\ Len(a) = m - 1 /\ \A i \in 1 .. m - 1 : a[i] = list[i]
  BY <1>1
<1>5. /\ c \in Seq(Pid) /\ Len(c) = Len(list) - m
      /\ \A i \in 1 .. Len(list) - m : c[i] = list[m + i]
  BY <1>1
<1>6. r = a \o c
  BY <1>2
<1> HIDE DEF a, c
<1>7. /\ r \in Seq(Pid) /\ Len(r) = Len(a) + Len(c)
      /\ \A i \in 1 .. Len(a) : r[i] = a[i]
      /\ \A i \in Len(a) + 1 .. Len(a) + Len(c) : r[i] = c[i - Len(a)]
  <2>1. a \in Seq(Pid) /\ c \in Seq(Pid)
    BY <1>4, <1>5
  <2>2. /\ a \o c \in Seq(Pid) /\ Len(a \o c) = Len(a) + Len(c)
        /\ \A i \in 1 .. Len(a) + Len(c) :
             (a \o c)[i] = IF i <= Len(a) THEN a[i] ELSE c[i - Len(a)]
    BY <2>1, ConcatProperties
  <2>3. Len(a) \in Nat /\ Len(c) \in Nat
    BY <2>1
  <2> QED
    BY <1>6, <2>2, <2>3
<1>8. \A i \in 1 .. m - 1 : list[i] = r[i]
  BY <1>1, <1>4, <1>7
<1>9. \A i \in (m - 1) + 1 .. Len(r) : list[i + 1] = r[i]
  <2> SUFFICES ASSUME NEW i \in (m - 1) + 1 .. Len(r)
               PROVE  list[i + 1] = r[i]
    OBVIOUS
  <2>1. i \in Len(a) + 1 .. Len(a) + Len(c)
    BY <1>4, <1>5, <1>7
  <2>2. i - Len(a) \in 1 .. Len(list) - m /\ m + (i - Len(a)) = i + 1
    BY <2>1, <1>1, <1>4, <1>5
  <2> QED
    BY <2>1, <2>2, <1>5, <1>7
<1>10. Len(r) = Len(list) - 1
  BY <1>1, <1>4, <1>5, <1>7
<1>11. (m - 1) + 1 = m /\ m - 1 \in 0 .. Len(list) - 1
  BY <1>1
<1>12. Spliced(list, r, m - 1, p)
  BY <1>1, <1>8, <1>9, <1>10, <1>11 DEF Spliced
<1> QED
  BY <1>3, <1>7, <1>10, <1>11, <1>12 DEF r

\* A list that keeps its order when one is put in at its place, or taken out.
LEMMA SplicedSorted ==
  ASSUME NEW list \in Seq(Pid), NEW key \in [Pid -> Int], NEW r, NEW n \in 0 .. Len(list),
         NEW p \in Pid, Spliced(r, list, n, p)
  PROVE  /\ Sorted(r, key) => Sorted(list, key)
         /\ /\ Sorted(list, key)
            /\ \A j \in 1 .. n : key[list[j]] >= key[p]
            /\ n < Len(list) => key[list[n + 1]] < key[p]
            => Sorted(r, key)
<1> DEFINE at(k) == IF k <= n THEN k ELSE k + 1
<1>1. \A k \in 1 .. Len(list) : at(k) \in 1 .. Len(r) /\ r[at(k)] = list[k]
  <2> SUFFICES ASSUME NEW k \in 1 .. Len(list)
               PROVE  at(k) \in 1 .. Len(r) /\ r[at(k)] = list[k]
    OBVIOUS
  <2>1. CASE k <= n
    <3>1. k \in 1 .. n /\ at(k) = k /\ k \in 1 .. Len(r)
      BY <2>1 DEF Spliced
    <3> QED
      BY <3>1 DEF Spliced
  <2>2. CASE k > n
    <3>1. k \in n + 1 .. Len(list) /\ at(k) = k + 1 /\ k + 1 \in 1 .. Len(r)
      BY <2>2, SMTT(30) DEF Spliced
    <3> HIDE DEF at
    <3> QED
      BY <3>1 DEF Spliced
  <2> QED
    BY <2>1, <2>2
<1>2. \A i \in 1 .. Len(list) : \A j \in 1 .. i : at(j) \in 1 .. at(i)
  OBVIOUS
<1>3. \A m \in 1 .. Len(r) : m = n + 1 \/ \E k \in 1 .. Len(list) : m = at(k)
  <2> SUFFICES ASSUME NEW m \in 1 .. Len(r), m # n + 1
               PROVE  \E k \in 1 .. Len(list) : m = at(k)
    OBVIOUS
  <2>1. CASE m <= n
    BY <2>1
  <2>2. CASE m > n
    <3>1. m - 1 \in 1 .. Len(list) /\ m = at(m - 1)
      BY <2>2 DEF Spliced
    <3> QED
      BY <3>1
  <2> QED
    BY <2>1, <2>2
<1>4. r[n + 1] = p /\ n + 1 \in 1 .. Len(r)
  BY DEF Spliced
<1>5. \A i \in 1 .. Len(list) : list[i] \in Pid /\ key[list[i]] \in Int
  OBVIOUS
<1>6. ASSUME Sorted(r, key)
      PROVE  Sorted(list, key)
  <2> SUFFICES ASSUME NEW i \in 1 .. Len(list), NEW j \in 1 .. i
               PROVE  key[list[j]] >= key[list[i]]
    BY DEF Sorted
  <2>1. at(i) \in 1 .. Len(r) /\ at(j) \in 1 .. at(i) /\ r[at(i)] = list[i] /\ r[at(j)] = list[j]
    BY <1>1, <1>2
  <2> HIDE DEF at
  <2> QED
    BY <1>6, <2>1 DEF Sorted
<1>7. ASSUME Sorted(list, key),
             \A j \in 1 .. n : key[list[j]] >= key[p],
             n < Len(list) => key[list[n + 1]] < key[p]
      PROVE  Sorted(r, key)
  <2>1. \A j \in n + 1 .. Len(list) : key[list[j]] < key[p]
    <3> SUFFICES ASSUME NEW j \in n + 1 .. Len(list)
                 PROVE  key[list[j]] < key[p]
      OBVIOUS
    <3>1. n + 1 \in 1 .. j /\ j \in 1 .. Len(list) /\ n < Len(list) /\ n + 1 \in 1 .. Len(list)
      OBVIOUS
    <3>2. key[list[n + 1]] >= key[list[j]]
      BY <1>7, <3>1 DEF Sorted
    <3>3. key[list[n + 1]] < key[p] /\ key[p] \in Int
      BY <1>7, <3>1
    <3>4. key[list[n + 1]] \in Int /\ key[list[j]] \in Int
      BY <1>5, <3>1
    <3> QED
      BY <3>2, <3>3, <3>4
  <2> SUFFICES ASSUME NEW m \in 1 .. Len(r), NEW l \in 1 .. m
               PROVE  key[r[l]] >= key[r[m]]
    BY DEF Sorted
  <2>2. l \in 1 .. Len(r) /\ key[p] \in Int
    BY <1>4
  <2>3. CASE m = n + 1 /\ l = n + 1
    BY <1>4, <2>2, <2>3
  <2>4. CASE m = n + 1 /\ l # n + 1
    <3>1. l \in 1 .. n /\ r[l] = list[l]
      BY <2>4 DEF Spliced
    <3> QED
      BY <1>4, <1>7, <2>4, <3>1
  <2>5. CASE m # n + 1
    <3>1. PICK i \in 1 .. Len(list) : m = at(i)
      BY <1>3, <2>5
    <3>2. r[m] = list[i]
      BY <1>1, <3>1
    <3>3. CASE l = n + 1
      <4>1. i \in n + 1 .. Len(list)
        BY <3>1, <3>3
      <4>2. key[list[i]] < key[p] /\ key[list[i]] \in Int
        BY <2>1, <4>1, <1>5
      <4> QED
        BY <1>4, <2>2, <3>2, <3>3, <4>2
    <3>4. CASE l # n + 1
      <4>1. PICK j \in 1 .. Len(list) : l = at(j)
        BY <1>3, <2>2, <3>4
      <4>2. j \in 1 .. i
        BY <3>1, <4>1
      <4>3. r[l] = list[j]
        BY <1>1, <4>1
      <4> QED
        BY <1>7, <3>2, <4>2, <4>3 DEF Sorted
    <3> QED
      BY <3>3, <3>4
  <2> QED
    BY <2>3, <2>4, <2>5
<1> QED
  BY <1>6, <1>7

\* A list without its first: getfirst, and what resched takes off the ready list.
LEMMA TailSplices ==
  ASSUME NEW list \in Seq(Pid), list # <<>>
  PROVE  /\ Tail(list) \in Seq(Pid) /\ Head(list) \in Pid /\ In(list, Head(list))
         /\ Head(list) = list[1] /\ 1 \in 1 .. Len(list) /\ 0 \in 0 .. Len(Tail(list))
         /\ Spliced(list, Tail(list), 0, Head(list))
<1>1. /\ Len(list) \in Nat \ {0} /\ Head(list) = list[1] /\ Tail(list) \in Seq(Pid)
      /\ Len(Tail(list)) = Len(list) - 1
      /\ \A i \in 1 .. Len(list) - 1 : Tail(list)[i] = list[i + 1]
  OBVIOUS
<1>2. In(list, list[1])
  BY <1>1, InDef
<1> QED
  BY <1>1, <1>2 DEF Spliced

\* A list and one more behind it: enqueue.
LEMMA AppendSplices ==
  ASSUME NEW list \in Seq(Pid), NEW p \in Pid
  PROVE  /\ Append(list, p) \in Seq(Pid) /\ Len(list) \in 0 .. Len(list)
         /\ Spliced(Append(list, p), list, Len(list), p)
  BY DEF Spliced

\* The first k of a list, which are made ready, and the rest, which stays: each
\* process is in one of the two.
LEMMA SplitFacts ==
  ASSUME NEW list \in Seq(Pid), IsInjective(list), NEW k \in 0 .. Len(list)
  PROVE  LET a == SubSeq(list, 1, k)
             b == SubSeq(list, k + 1, Len(list))
         IN  /\ a \in Seq(Pid) /\ b \in Seq(Pid) /\ Len(a) = k /\ Len(b) = Len(list) - k
             /\ IsInjective(a) /\ IsInjective(b)
             /\ \A q : In(list, q) <=> In(a, q) \/ In(b, q)
             /\ \A q : ~(In(a, q) /\ In(b, q))
             /\ \A i \in 1 .. k : a[i] = list[i]
             /\ \A i \in 1 .. Len(list) - k : b[i] = list[k + i]
<1> DEFINE a == SubSeq(list, 1, k)
           b == SubSeq(list, k + 1, Len(list))
<1>1. /\ a \in Seq(Pid) /\ Len(a) = k /\ \A i \in 1 .. k : a[i] = list[i]
  OBVIOUS
<1>2. /\ b \in Seq(Pid) /\ Len(b) = Len(list) - k
      /\ \A i \in 1 .. Len(list) - k : b[i] = list[k + i]
  OBVIOUS
<1> HIDE DEF a, b
<1>3. \A i, j \in 1 .. Len(list) : list[i] = list[j] => i = j
  BY InDef
<1>4. IsInjective(a)
  <2>1. \A i, j \in 1 .. Len(a) : a[i] = a[j] => i = j
    BY <1>1, <1>3
  <2> QED
    BY <1>1, <2>1, InDef
<1>5. IsInjective(b)
  <2> SUFFICES ASSUME NEW i \in 1 .. Len(b), NEW j \in 1 .. Len(b), b[i] = b[j]
               PROVE  i = j
    BY <1>2, InDef
  <2>1. k + i \in 1 .. Len(list) /\ k + j \in 1 .. Len(list) /\ list[k + i] = list[k + j]
    BY <1>2
  <2>2. k + i = k + j
    BY <1>3, <2>1
  <2> QED
    BY <1>2, <2>2
<1>6. \A q : In(a, q) <=> \E i \in 1 .. k : list[i] = q
  <2>1. \A q : In(a, q) <=> \E i \in 1 .. Len(a) : a[i] = q
    BY <1>1, InDef
  <2> QED
    BY <1>1, <2>1
<1>7. \A q : In(b, q) <=> \E i \in k + 1 .. Len(list) : list[i] = q
  <2> SUFFICES ASSUME NEW q
               PROVE  In(b, q) <=> \E i \in k + 1 .. Len(list) : list[i] = q
    OBVIOUS
  <2>1. In(b, q) <=> \E i \in 1 .. Len(b) : b[i] = q
    BY <1>2, InDef
  <2>2. ASSUME NEW i \in 1 .. Len(b), b[i] = q
        PROVE  \E m \in k + 1 .. Len(list) : list[m] = q
    <3>1. k + i \in k + 1 .. Len(list) /\ list[k + i] = q
      BY <1>2, <2>2
    <3> QED
      BY <3>1
  <2>3. ASSUME NEW m \in k + 1 .. Len(list), list[m] = q
        PROVE  \E i \in 1 .. Len(b) : b[i] = q
    <3>1. m - k \in 1 .. Len(b) /\ k + (m - k) = m
      BY <1>2
    <3>2. b[m - k] = q
      BY <1>2, <2>3, <3>1
    <3> QED
      BY <3>1, <3>2
  <2> QED
    BY <2>1, <2>2, <2>3
<1>8. \A q : In(list, q) <=> In(a, q) \/ In(b, q)
  <2>1. \A q : In(list, q) <=> \E i \in 1 .. Len(list) : list[i] = q
    BY InDef
  <2>2. \A i \in 1 .. Len(list) : i \in 1 .. k \/ i \in k + 1 .. Len(list)
    OBVIOUS
  <2>3. \A i \in 1 .. k : i \in 1 .. Len(list)
    OBVIOUS
  <2>4. \A i \in k + 1 .. Len(list) : i \in 1 .. Len(list)
    OBVIOUS
  <2> QED
    BY <1>6, <1>7, <2>1, <2>2, <2>3, <2>4
<1>9. \A q : ~(In(a, q) /\ In(b, q))
  BY <1>3, <1>6, <1>7
<1> QED
  BY <1>1, <1>2, <1>4, <1>5, <1>8, <1>9 DEF a, b

-------------------------------------------------------------------------------
(* The scheduler *)

\* The fields of a state of the scheduler.
LEMMA SchedFields ==
  ASSUME NEW s \in Sched
  PROVE  /\ s.state \in [Pid -> States] /\ s.key \in [Pid -> Int]
         /\ s.list \in Seq(Pid) /\ s.sleep \in Seq(Pid)
         /\ s.cur \in Pid /\ s.slice \in 1 .. Quantum
  BY DEF Sched

\* What ready does to each field.
LEMMA MakeReadyFields ==
  ASSUME NEW s \in Sched, NEW p \in Pid, prprio \in [Pid -> Int]
  PROVE  LET m == MakeReady(s, p)
         IN  /\ m \in Sched
             /\ m.state = [s.state EXCEPT ![p] = "ready"]
             /\ m.key = [s.key EXCEPT ![p] = prprio[p]]
             /\ m.list = Insert(s.list, m.key, p)
             /\ m.sleep = s.sleep /\ m.cur = s.cur /\ m.slice = s.slice
<1> DEFINE key == [s.key EXCEPT ![p] = prprio[p]]
           m == MakeReady(s, p)
<1>1. /\ key \in [Pid -> Int] /\ s.list \in Seq(Pid)
      /\ [s.state EXCEPT ![p] = "ready"] \in [Pid -> States]
  BY DEF Sched, States
<1>2. Insert(s.list, key, p) \in Seq(Pid)
  <2> HIDE DEF key
  <2> QED
    BY <1>1, InsertSplices DEF Spliced
<1>3. m = [s EXCEPT !.state = [s.state EXCEPT ![p] = "ready"], !.key = key,
                    !.list = Insert(s.list, key, p)]
  BY DEF MakeReady, Sched
<1> HIDE DEF key
<1>4. /\ m.state = [s.state EXCEPT ![p] = "ready"]
      /\ m.key = key /\ m.list = Insert(s.list, key, p)
      /\ m.sleep = s.sleep /\ m.cur = s.cur /\ m.slice = s.slice
  BY <1>3 DEF Sched
<1>5. m \in Sched
  BY <1>1, <1>2, <1>3 DEF Sched
<1> QED
  BY <1>4, <1>5 DEF key

\* ready: a process that is on no list is on the ready list then, at its place.
LEMMA MakeReadyFacts ==
  ASSUME NEW s \in Sched, NEW T, NEW p \in Pid, prprio \in [Pid -> Int],
         Linked(s, T \cup {p}), OnNone(s, T \cup {p})
  PROVE  LET m == MakeReady(s, p)
         IN  /\ Linked(m, T \ {p}) /\ OnNone(m, T \ {p})
             /\ Ordered(s) => Ordered(m)
<1> DEFINE m == MakeReady(s, p)
<1>1. /\ m \in Sched
      /\ m.state = [s.state EXCEPT ![p] = "ready"]
      /\ m.key = [s.key EXCEPT ![p] = prprio[p]]
      /\ m.list = Insert(s.list, m.key, p)
      /\ m.sleep = s.sleep /\ m.cur = s.cur /\ m.slice = s.slice
  BY MakeReadyFields
<1>2. /\ s.list \in Seq(Pid) /\ m.list \in Seq(Pid) /\ m.key \in [Pid -> Int]
      /\ s.state \in [Pid -> States] /\ s.key \in [Pid -> Int]
  BY <1>1, SchedFields
<1> HIDE DEF m
<1>3. PICK n \in 0 .. Len(s.list) :
        /\ Spliced(m.list, s.list, n, p)
        /\ \A j \in 1 .. n : m.key[s.list[j]] >= m.key[p]
        /\ n < Len(s.list) => m.key[s.list[n + 1]] < m.key[p]
  BY <1>1, <1>2, InsertSplices, ZenonT(30)
<1>4. /\ \A q : In(m.list, q) <=> In(s.list, q) \/ q = p
      /\ IsInjective(m.list) <=> IsInjective(s.list) /\ ~In(s.list, p)
  BY <1>2, <1>3, SplicedFacts
<1>5. ~In(s.list, p) /\ ~In(s.sleep, p)
  BY DEF OnNone
<1>6. Linked(m, T \ {p})
  <2>1. \A q \in Pid : m.state[q] = IF q = p THEN "ready" ELSE s.state[q]
    BY <1>1, <1>2
  <2>2. \A q \in Pid \ (T \ {p}) : OnItsList(m, q)
    <3> SUFFICES ASSUME NEW q \in Pid \ (T \ {p})
                 PROVE  OnItsList(m, q)
      OBVIOUS
    <3>1. CASE q = p
      BY <1>1, <1>4, <1>5, <2>1, <3>1 DEF Asleep, OnItsList
    <3>2. CASE q # p
      <4>1. OnItsList(s, q)
        BY <3>2 DEF Linked
      <4> QED
        BY <1>1, <1>4, <2>1, <3>2, <4>1 DEF OnItsList
    <3> QED
      BY <3>1, <3>2
  <2>3. IsInjective(m.list) /\ IsInjective(m.sleep)
    BY <1>1, <1>4, <1>5 DEF Linked
  <2>4. \A q \in Pid : m.state[q] = "curr" => q = m.cur
    BY <1>1, <2>1 DEF Linked
  <2>5. m.state[Null] \in Eligible
    BY <2>1, KernelAssumption DEF Linked, Eligible
  <2> QED
    BY <2>2, <2>3, <2>4, <2>5 DEF Linked
<1>7. OnNone(m, T \ {p})
  BY <1>1, <1>4 DEF OnNone
<1>8. ASSUME Ordered(s)
      PROVE  Ordered(m)
  <2>1. \A i \in 1 .. Len(s.list) : s.list[i] \in Pid /\ s.list[i] # p
    BY <1>2, <1>5, InDef
  <2>2. Sorted(s.list, m.key)
    <3>1. \A i \in 1 .. Len(s.list) : m.key[s.list[i]] = s.key[s.list[i]]
      BY <1>1, <1>2, <2>1
    <3>2. \A i \in 1 .. Len(s.list) : \A j \in 1 .. i : j \in 1 .. Len(s.list)
      OBVIOUS
    <3> QED
      BY <1>8, <3>1, <3>2 DEF Ordered, Sorted
  <2>3. Sorted(m.list, m.key)
    <3> DEFINE k == m.key
               r == m.list
               l == s.list
    <3>1. /\ k \in [Pid -> Int] /\ l \in Seq(Pid) /\ Spliced(r, l, n, p) /\ Sorted(l, k)
          /\ \A j \in 1 .. n : k[l[j]] >= k[p]
          /\ n < Len(l) => k[l[n + 1]] < k[p]
      BY <1>2, <1>3, <2>2
    <3> HIDE DEF k, r, l
    <3>2. n \in 0 .. Len(l)
      BY DEF l
    <3>3. Sorted(r, k)
      BY <3>1, <3>2, SplicedSorted
    <3> QED
      BY <3>3 DEF r, k
  <2>4. \A q \in Pid : In(m.list, q) => m.key[q] = prprio[q]
    BY <1>1, <1>2, <1>4, <1>8 DEF Ordered
  <2> QED
    BY <2>3, <2>4 DEF Ordered
<1> QED
  BY <1>6, <1>7, <1>8 DEF m

\* What giving the processor to the first of the ready list does to each field.
LEMMA DispatchFields ==
  ASSUME NEW s \in Sched, s.list # <<>>
  PROVE  LET d == Dispatch(s)
             h == Head(s.list)
         IN  /\ d \in Sched /\ h \in Pid
             /\ d.state = [s.state EXCEPT ![h] = "curr"]
             /\ d.key = s.key /\ d.list = Tail(s.list)
             /\ d.sleep = s.sleep /\ d.cur = h /\ d.slice = Quantum
<1> DEFINE h == Head(s.list)
<1>1. h \in Pid /\ Tail(s.list) \in Seq(Pid)
  BY SchedFields, TailSplices
<1>2. Dispatch(s) = [s EXCEPT !.state = [s.state EXCEPT ![h] = "curr"], !.list = Tail(s.list),
                              !.cur = h, !.slice = Quantum]
  BY DEF Dispatch, Sched
<1> HIDE DEF h
<1>3. [s.state EXCEPT ![h] = "curr"] \in [Pid -> States] /\ Quantum \in 1 .. Quantum
  BY <1>1, SchedFields, KernelAssumption DEF States
<1> QED
  BY <1>1, <1>2, <1>3 DEF Sched, h

\* The current process has lost the processor, to the first of the ready list:
\* the state is in order again, and if the list was, nobody on it has a higher
\* priority.
LEMMA DispatchFacts ==
  ASSUME NEW s \in Sched, Linked(s, {}), s.state[s.cur] # "curr"
  PROVE  LET d == Dispatch(s)
         IN  /\ Runs(d) /\ Alike(s.state, d.state)
             /\ d.sleep = s.sleep /\ d.key = s.key
             /\ Ordered(s) => Ordered(d) /\ Highest(d)
<1> DEFINE d == Dispatch(s)
           h == Head(s.list)
<1>1. /\ s.list \in Seq(Pid) /\ s.state \in [Pid -> States] /\ s.key \in [Pid -> Int]
  BY SchedFields
<1>2. In(s.list, Null)
  <2>1. s.state[Null] = "ready" /\ OnItsList(s, Null)
    BY KernelAssumption DEF Linked, Eligible
  <2> QED
    BY <2>1 DEF OnItsList
<1>3. s.list # <<>>
  BY <1>2 DEF In, ToSet
<1>4. /\ d \in Sched /\ h \in Pid
      /\ d.state = [s.state EXCEPT ![h] = "curr"]
      /\ d.key = s.key /\ d.list = Tail(s.list)
      /\ d.sleep = s.sleep /\ d.cur = h /\ d.slice = Quantum
  BY <1>3, DispatchFields
<1>5. /\ Tail(s.list) \in Seq(Pid) /\ In(s.list, h)
      /\ h = s.list[1] /\ 1 \in 1 .. Len(s.list) /\ 0 \in 0 .. Len(Tail(s.list))
      /\ Spliced(s.list, Tail(s.list), 0, h)
  BY <1>1, <1>3, TailSplices
<1> HIDE DEF d, h
<1>6. /\ \A q : In(s.list, q) <=> In(d.list, q) \/ q = h
      /\ IsInjective(s.list) <=> IsInjective(d.list) /\ ~In(d.list, h)
  <2> DEFINE l == Tail(s.list)
  <2>1. l \in Seq(Pid) /\ 0 \in 0 .. Len(l) /\ Spliced(s.list, l, 0, h)
    BY <1>5
  <2>2. d.list = l
    BY <1>4
  <2>3. h \in Pid
    BY <1>4
  <2> HIDE DEF l
  <2> DEFINE r == s.list
             z == 0
  <2>4. l \in Seq(Pid) /\ z \in 0 .. Len(l) /\ Spliced(r, l, z, h)
    BY <2>1
  <2> HIDE DEF r, z
  <2>5. /\ \A q : In(r, q) <=> In(l, q) \/ q = h
        /\ IsInjective(r) <=> IsInjective(l) /\ ~In(l, h)
    BY <2>3, <2>4, SplicedFacts
  <2> QED
    BY <2>2, <2>5 DEF r
<1>7. s.state[h] = "ready" /\ ~In(s.sleep, h) /\ OnItsList(s, h)
  BY <1>4, <1>5 DEF Linked, OnItsList, Asleep
<1>8. \A q \in Pid : d.state[q] = IF q = h THEN "curr" ELSE s.state[q]
  BY <1>1, <1>4
<1>9. Linked(d, {})
  <2>1. \A q \in Pid : OnItsList(d, q)
    <3> SUFFICES ASSUME NEW q \in Pid
                 PROVE  OnItsList(d, q)
      OBVIOUS
    <3>1. OnItsList(s, q)
      BY DEF Linked
    <3>2. CASE q = h
      BY <1>4, <1>6, <1>7, <1>8, <3>2 DEF OnItsList, Asleep, Linked
    <3>3. CASE q # h
      BY <1>4, <1>6, <1>8, <3>1, <3>3 DEF OnItsList
    <3> QED
      BY <3>2, <3>3
  <2>2. IsInjective(d.list) /\ IsInjective(d.sleep)
    BY <1>4, <1>6 DEF Linked
  <2>3. \A q \in Pid : d.state[q] = "curr" => q = d.cur
    BY <1>4, <1>8 DEF Linked
  <2>4. d.state[Null] \in Eligible
    BY <1>8, KernelAssumption DEF Linked, Eligible
  <2> QED
    BY <2>1, <2>2, <2>3, <2>4 DEF Linked
<1>10. Runs(d)
  BY <1>4, <1>8, <1>9 DEF Runs
<1>11. Alike(s.state, d.state)
  BY <1>7, <1>8 DEF Alike, Eligible
<1>12. ASSUME Ordered(s)
       PROVE  Ordered(d) /\ Highest(d)
  <2>1. Sorted(d.list, d.key)
    <3> DEFINE k == s.key
               r == s.list
               l == Tail(s.list)
    <3>1. /\ k \in [Pid -> Int] /\ l \in Seq(Pid) /\ Spliced(r, l, 0, h) /\ Sorted(r, k)
          /\ 0 \in 0 .. Len(l)
      BY <1>1, <1>5, <1>12 DEF Ordered
    <3> HIDE DEF k, r, l
    <3>2. Sorted(l, k)
      BY <3>1, <1>4, SplicedSorted
    <3> QED
      BY <3>2, <1>4 DEF k, l
  <2>2. Ordered(d)
    BY <2>1, <1>4, <1>6, <1>12 DEF Ordered
  <2>3. \A q \in Pid : In(s.list, q) => s.key[q] <= s.key[h]
    <3> SUFFICES ASSUME NEW q \in Pid, In(s.list, q)
                 PROVE  s.key[q] <= s.key[h]
      OBVIOUS
    <3>1. PICK i \in 1 .. Len(s.list) : s.list[i] = q
      BY <1>1, InDef
    <3>2. 1 \in 1 .. i
      OBVIOUS
    <3>3. s.key[s.list[1]] >= s.key[s.list[i]]
      BY <1>12, <3>2 DEF Ordered, Sorted
    <3>4. s.key[q] \in Int /\ s.key[h] \in Int
      BY <1>1, <1>4
    <3> QED
      BY <1>5, <3>1, <3>3, <3>4
  <2>4. s.key[h] = prprio[h]
    BY <1>4, <1>5, <1>12 DEF Ordered
  <2>5. Highest(d)
    BY <1>4, <1>6, <2>3, <2>4 DEF Highest
  <2> QED
    BY <2>2, <2>5
<1> QED
  BY <1>4, <1>10, <1>11, <1>12 DEF d

\* resched: whoever runs afterwards, only eligible processes have changed, and
\* when the ready list was in order nobody left on it has a higher priority.
LEMMA ReschedFacts ==
  ASSUME NEW s \in Sched, prprio \in [Pid -> Int], Linked(s, {})
  PROVE  LET r == Resched(s)
         IN  /\ Runs(r) /\ Alike(s.state, r.state)
             /\ r.sleep = s.sleep
             /\ \A p \in Pid : ~(s.state[p] \in Eligible) => r.key[p] = s.key[p]
             /\ Ordered(s) => Ordered(r) /\ Highest(r)
<1> DEFINE r == Resched(s)
           c == s.cur
           m == MakeReady(s, c)
<1>1. /\ s.list \in Seq(Pid) /\ s.state \in [Pid -> States] /\ s.key \in [Pid -> Int]
      /\ s.sleep \in Seq(Pid) /\ c \in Pid
  BY SchedFields
<1>2. CASE s.state[c] # "curr"
  <2>1. r = Dispatch(s)
    BY <1>2 DEF Resched
  <2> QED
    BY <1>2, <2>1, DispatchFacts
<1>3. CASE s.state[c] = "curr" /\ (s.list = <<>> \/ prprio[c] > s.key[Head(s.list)])
  <2>1. r = s
    BY <1>3 DEF Resched
  <2>2. Runs(s) /\ Alike(s.state, s.state)
    BY <1>3 DEF Runs, Alike
  <2>3. ASSUME Ordered(s)
        PROVE  Highest(s)
    <3> SUFFICES ASSUME NEW q \in Pid, In(s.list, q)
                 PROVE  s.key[q] <= prprio[c]
      BY DEF Highest
    <3>1. s.list # <<>>
      BY DEF In, ToSet
    <3>2. Head(s.list) = s.list[1] /\ 1 \in 1 .. Len(s.list)
      BY <1>1, <3>1, TailSplices
    <3>3. PICK i \in 1 .. Len(s.list) : s.list[i] = q
      BY <1>1, InDef
    <3>4. s.key[s.list[1]] >= s.key[s.list[i]]
      <4>1. 1 \in 1 .. i
        OBVIOUS
      <4> QED
        BY <2>3, <4>1 DEF Ordered, Sorted
    <3>5. s.list[1] \in Pid /\ s.key[s.list[1]] \in Int /\ s.key[q] \in Int /\ prprio[c] \in Int
      BY <1>1, <3>2
    <3> QED
      BY <1>3, <3>1, <3>2, <3>3, <3>4, <3>5
  <2> QED
    BY <2>1, <2>2, <2>3
<1>4. CASE s.state[c] = "curr" /\ ~(s.list = <<>> \/ prprio[c] > s.key[Head(s.list)])
  <2>1. r = Dispatch(m)
    BY <1>4 DEF Resched
  <2>2. /\ m \in Sched
        /\ m.state = [s.state EXCEPT ![c] = "ready"]
        /\ m.key = [s.key EXCEPT ![c] = prprio[c]]
        /\ m.sleep = s.sleep /\ m.cur = c
    BY <1>1, MakeReadyFields
  <2>3. Linked(s, {} \cup {c}) /\ OnNone(s, {} \cup {c})
    <3>1. OnItsList(s, c)
      BY <1>1 DEF Linked
    <3> QED
      BY <1>4, <3>1 DEF Linked, OnNone, OnItsList, Asleep
  <2> HIDE DEF m, c
  <2>4. Linked(m, {} \ {c}) /\ (Ordered(s) => Ordered(m))
    BY <1>1, <2>3, MakeReadyFacts DEF m
  <2>5. Linked(m, {}) /\ m.state[m.cur] # "curr"
    <3>1. {} \ {c} = {}
      OBVIOUS
    <3>2. m.state[c] = "ready"
      BY <1>1, <2>2
    <3> QED
      BY <2>2, <2>4, <3>1, <3>2
  <2>6. /\ Runs(Dispatch(m)) /\ Alike(m.state, Dispatch(m).state)
        /\ Dispatch(m).sleep = m.sleep /\ Dispatch(m).key = m.key
        /\ Ordered(m) => Ordered(Dispatch(m)) /\ Highest(Dispatch(m))
    BY <2>2, <2>5, DispatchFacts
  <2> DEFINE d == Dispatch(m)
  <2>7. r = d
    BY <2>1
  <2> HIDE DEF d, r
  <2>8. /\ Runs(d) /\ Alike(m.state, d.state) /\ d.sleep = m.sleep /\ d.key = m.key
        /\ Ordered(m) => Ordered(d) /\ Highest(d)
    BY <2>6 DEF d
  <2>9. Alike(s.state, d.state)
    BY <1>1, <1>4, <2>2, <2>8 DEF Alike, Eligible, c
  <2>10. \A p \in Pid : ~(s.state[p] \in Eligible) => d.key[p] = s.key[p]
    BY <1>1, <1>4, <2>2, <2>8 DEF Eligible, c
  <2>11. d.sleep = s.sleep /\ (Ordered(s) => Ordered(d) /\ Highest(d))
    BY <2>2, <2>4, <2>8
  <2> QED
    BY <2>7, <2>8, <2>9, <2>10, <2>11 DEF r
<1> QED
  BY <1>2, <1>3, <1>4

\* Several calls of ready one after the other, each on what the one before left.
LEMMA ReadiedDef ==
  ASSUME NEW s \in Sched, NEW list \in Seq(Pid), prprio \in [Pid -> Int]
  PROVE  /\ Readied(s, list)[0] = s
         /\ \A i \in 0 .. Len(list) : Readied(s, list)[i] \in Sched
         /\ \A i \in 1 .. Len(list) :
              Readied(s, list)[i] = MakeReady(Readied(s, list)[i - 1], list[i])
<1> DEFINE L == Len(list)
           G == [m \in Nat |-> [x \in Sched |-> IF m < L THEN MakeReady(x, list[m + 1]) ELSE x]]
<1>1. L \in Nat
  OBVIOUS
<1>2. G \in [Nat -> [Sched -> Sched]]
  <2> SUFFICES ASSUME NEW m \in Nat, NEW x \in Sched
               PROVE  (IF m < L THEN MakeReady(x, list[m + 1]) ELSE x) \in Sched
    OBVIOUS
  <2>1. CASE m < L
    <3>1. list[m + 1] \in Pid
      BY <2>1
    <3>2. MakeReady(x, list[m + 1]) \in Sched
      BY <3>1, MakeReadyFields
    <3> QED
      BY <2>1, <3>2
  <2>2. CASE ~(m < L)
    BY <2>2
  <2> QED
    BY <2>1, <2>2
<1>3. PICK h : Iterates(h, Sched, s, G, L)
  <2> HIDE DEF G, L
  <2> QED
    BY <1>1, <1>2, Recursion
<1>4. /\ h \in [0 .. L -> Sched] /\ h[0] = s
      /\ \A m \in 0 .. L - 1 : h[m + 1] = G[m][h[m]]
  BY <1>3 DEF Iterates
<1>5. \A i \in 0 .. L : i # 0 => h[i] = MakeReady(h[i - 1], list[i])
  <2> SUFFICES ASSUME NEW i \in 0 .. L, i # 0
               PROVE  h[i] = MakeReady(h[i - 1], list[i])
    OBVIOUS
  <2>1. i - 1 \in 0 .. L - 1 /\ (i - 1) + 1 = i /\ i - 1 \in Nat /\ i - 1 < L /\ i - 1 \in 0 .. L
    OBVIOUS
  <2> HIDE DEF G, L
  <2>2. h[i] = G[i - 1][h[i - 1]]
    BY <1>4, <2>1
  <2>3. h[i - 1] \in Sched
    BY <1>4, <2>1
  <2> QED
    BY <2>1, <2>2, <2>3 DEF G
<1> DEFINE IsReadied(g) ==
             g = [i \in 0 .. Len(list) |-> IF i = 0 THEN s ELSE MakeReady(g[i - 1], list[i])]
<1>6. IsReadied(h)
  <2> HIDE DEF G
  <2> QED
    BY <1>4, <1>5
<1>7. \E g : IsReadied(g)
  BY <1>6
<1>8. Readied(s, list) = CHOOSE g : IsReadied(g)
  BY DEF Readied
<1> DEFINE R == Readied(s, list)
<1> HIDE DEF IsReadied, R
<1>9. IsReadied(R)
  BY <1>7, <1>8 DEF R
<1>10. R = [i \in 0 .. Len(list) |-> IF i = 0 THEN s ELSE MakeReady(R[i - 1], list[i])]
  BY <1>9 DEF IsReadied
<1> HIDE DEF G
<1>11. R[0] = s /\ \A i \in 1 .. L : R[i] = MakeReady(R[i - 1], list[i])
  <2>1. 0 \in 0 .. L /\ \A i \in 1 .. L : i \in 0 .. L /\ i # 0
    OBVIOUS
  <2> HIDE DEF L
  <2> QED
    BY <1>10, <2>1 DEF L
<1>12. \A i \in 0 .. L : R[i] \in Sched
  <2> DEFINE T == {i \in Nat : i <= L => R[i] \in Sched}
  <2>1. 0 \in T
    BY <1>11
  <2>2. \A n \in Nat : n \in T => n + 1 \in T
    <3> SUFFICES ASSUME NEW n \in Nat, n \in T, n + 1 <= L
                 PROVE  R[n + 1] \in Sched
      OBVIOUS
    <3>1. R[n] \in Sched /\ n + 1 \in 1 .. L /\ (n + 1) - 1 = n /\ list[n + 1] \in Pid
      OBVIOUS
    <3>2. R[n + 1] = MakeReady(R[n], list[n + 1])
      BY <1>11, <3>1
    <3>3. MakeReady(R[n], list[n + 1]) \in Sched
      BY <3>1, MakeReadyFields
    <3> QED
      BY <3>2, <3>3
  <2> HIDE DEF T
  <2>3. Nat \subseteq T
    BY <2>1, <2>2, Induct
  <2> QED
    BY <2>3 DEF T
<1> QED
  BY <1>11, <1>12 DEF R

\* Several calls of ready: the processes of a list are readied in turn, and the
\* rest of it is on its way.
LEMMA ReadiedFacts ==
  ASSUME NEW s \in Sched, NEW list \in Seq(Pid), prprio \in [Pid -> Int], IsInjective(list),
         Linked(s, ToSet(list)), OnNone(s, ToSet(list))
  PROVE  LET r == Readied(s, list)[Len(list)]
         IN  Linked(r, {}) /\ Readies(s, r, ToSet(list))
<1> DEFINE L == Len(list)
           R == Readied(s, list)
           Done(n) == {list[i] : i \in 1 .. n}
           Rest(n) == {list[i] : i \in n + 1 .. L}
           Good(n) == /\ Linked(R[n], Rest(n)) /\ OnNone(R[n], Rest(n))
                      /\ Readies(s, R[n], Done(n))
           T == {n \in Nat : n <= L => Good(n)}
<1>1. /\ R[0] = s /\ \A i \in 0 .. L : R[i] \in Sched
      /\ \A i \in 1 .. L : R[i] = MakeReady(R[i - 1], list[i])
  BY ReadiedDef
<1>2. L \in Nat /\ Rest(0) = ToSet(list) /\ Done(L) = ToSet(list) /\ Rest(L) = {} /\ Done(0) = {}
  BY DEF ToSet
<1>3. \A i, j \in 1 .. L : list[i] = list[j] => i = j
  BY InDef
<1> HIDE DEF R
<1>4. 0 \in T
  <2>1. Readies(s, s, {})
    BY DEF Readies
  <2> HIDE DEF Rest, Done, L
  <2>2. Good(0)
    BY <1>1, <1>2, <2>1
  <2> QED
    BY <2>2
<1>5. \A n \in Nat : n \in T => n + 1 \in T
  <2> HIDE DEF Good
  <2> SUFFICES ASSUME NEW n \in Nat, n \in T, n + 1 <= L
               PROVE  Good(n + 1)
    OBVIOUS
  <2>0. n <= L /\ Good(n)
    BY <1>2
  <2> USE DEF Good
  <2> DEFINE x == R[n]
             p == list[n + 1]
             m == R[n + 1]
  <2>1. Good(n) /\ n + 1 \in 1 .. L /\ (n + 1) - 1 = n /\ n \in 0 .. L /\ p \in Pid
    BY <1>2, <2>0
  <2>2. m = MakeReady(x, p) /\ x \in Sched
    BY <1>1, <2>1
  <2>3. Rest(n) = Rest(n + 1) \cup {p} /\ Rest(n) \ {p} = Rest(n + 1) /\ p \notin Rest(n + 1)
    <3>1. \A i \in n + 1 .. L : i = n + 1 \/ i \in (n + 1) + 1 .. L
      OBVIOUS
    <3>2. \A i \in (n + 1) + 1 .. L : i \in n + 1 .. L /\ i \in 1 .. L /\ i # n + 1
      OBVIOUS
    <3>3. n + 1 \in n + 1 .. L
      OBVIOUS
    <3>4. p \notin Rest(n + 1)
      BY <1>3, <2>1, <3>2
    <3> QED
      BY <3>1, <3>2, <3>3, <3>4
  <2>4. Done(n + 1) = Done(n) \cup {p}
    OBVIOUS
  <2>5. /\ m \in Sched
        /\ m.state = [x.state EXCEPT ![p] = "ready"]
        /\ m.key = [x.key EXCEPT ![p] = prprio[p]]
        /\ m.sleep = x.sleep /\ m.cur = x.cur /\ m.slice = x.slice
    <3> HIDE DEF x, p, m
    <3> QED
      BY <2>1, <2>2, MakeReadyFields
  <2> HIDE DEF Rest, Done, L
  <2> DEFINE U == Rest(n + 1)
  <2>6. Linked(x, U \cup {p}) /\ OnNone(x, U \cup {p})
    BY <2>1, <2>3
  <2> HIDE DEF x, p, m
  <2>7. /\ Linked(m, U \ {p}) /\ OnNone(m, U \ {p})
        /\ Ordered(x) => Ordered(m)
    <3> HIDE DEF U
    <3> QED
      BY <2>1, <2>2, <2>6, MakeReadyFacts
  <2>8. U \ {p} = U
    BY <2>3
  <2>9. Readies(s, x, Done(n))
    BY <2>1 DEF x
  <2>10. Readies(s, m, Done(n) \cup {p})
    <3>1. /\ x.state \in [Pid -> States] /\ x.key \in [Pid -> Int]
      BY <2>2, SchedFields
    <3>2. \A q \in Pid : m.state[q] = IF q \in Done(n) \cup {p} THEN "ready" ELSE s.state[q]
      BY <2>5, <2>9, <3>1 DEF Readies
    <3>3. \A q \in Pid \ (Done(n) \cup {p}) : m.key[q] = s.key[q]
      BY <2>5, <2>9, <3>1 DEF Readies
    <3> QED
      BY <2>5, <2>7, <2>9, <3>2, <3>3 DEF Readies
  <2> QED
    BY <2>4, <2>7, <2>8, <2>10 DEF m
<1> HIDE DEF T
<1>6. Nat \subseteq T
  BY <1>4, <1>5, Induct
<1>7. Good(L)
  <2> HIDE DEF Good, L
  <2> QED
    BY <1>2, <1>6 DEF T
<1> QED
  BY <1>2, <1>7 DEF R

\* The processes of a list are made ready, and the processor is given away once at
\* the end.
LEMMA ReadyAllFacts ==
  ASSUME NEW s \in Sched, NEW list \in Seq(Pid), prprio \in [Pid -> Int], IsInjective(list),
         Linked(s, ToSet(list)), OnNone(s, ToSet(list)), s.state[s.cur] = "curr"
  PROVE  LET r == ReadyAll(s, list)
         IN  /\ Runs(r) /\ r.sleep = s.sleep
             /\ \A p \in Pid : IF In(list, p) THEN r.state[p] \in Eligible
                               ELSE r.state[p] = s.state[p]
                                    \/ (r.state[p] \in Eligible /\ s.state[p] \in Eligible)
             /\ \A p \in Pid : In(s.sleep, p) => r.key[p] = s.key[p]
             /\ Ordered(s) /\ Highest(s) => Ordered(r) /\ Highest(r)
<1> DEFINE r == ReadyAll(s, list)
           T == ToSet(list)
<1>1. CASE list = <<>>
  <2>1. T = {} /\ r = s
    BY <1>1 DEF ReadyAll, ToSet
  <2>2. Runs(r)
    BY <2>1 DEF Runs
  <2>3. \A p \in Pid : ~In(list, p)
    BY <2>1 DEF In
  <2> QED
    BY <2>1, <2>2, <2>3
<1>2. CASE list # <<>>
  <2> DEFINE m == Readied(s, list)[Len(list)]
  <2>1. Linked(m, {}) /\ Readies(s, m, T)
    BY ReadiedFacts
  <2>2. r = Resched(m)
    BY <1>2 DEF ReadyAll
  <2> HIDE DEF m, r
  <2>3. m \in Sched
    BY <2>1 DEF Readies
  <2>4. /\ Runs(Resched(m)) /\ Alike(m.state, Resched(m).state)
        /\ Resched(m).sleep = m.sleep
        /\ \A p \in Pid : ~(m.state[p] \in Eligible) => Resched(m).key[p] = m.key[p]
        /\ Ordered(m) => Ordered(Resched(m)) /\ Highest(Resched(m))
    BY <2>1, <2>3, ReschedFacts
  <2>5. Runs(r) /\ Alike(m.state, r.state) /\ r.sleep = m.sleep
    BY <2>2, <2>4
  <2>6. ASSUME NEW p \in Pid
        PROVE  IF In(list, p) THEN r.state[p] \in Eligible
               ELSE r.state[p] = s.state[p] \/ (r.state[p] \in Eligible /\ s.state[p] \in Eligible)
    <3>1. m.state[p] = IF p \in T THEN "ready" ELSE s.state[p]
      BY <2>1 DEF Readies
    <3>2. r.state[p] = m.state[p] \/ (r.state[p] \in Eligible /\ m.state[p] \in Eligible)
      BY <2>5 DEF Alike
    <3> QED
      BY <3>1, <3>2 DEF In, Eligible
  <2>7. ASSUME NEW p \in Pid, In(s.sleep, p)
        PROVE  r.key[p] = s.key[p]
    <3>1. p \notin T
      BY <2>7 DEF OnNone
    <3>2. OnItsList(s, p)
      BY <3>1 DEF Linked
    <3>3. m.state[p] = s.state[p] /\ m.key[p] = s.key[p]
      BY <2>1, <3>1 DEF Readies
    <3>4. ~(m.state[p] \in Eligible)
      BY <2>7, <3>2, <3>3 DEF OnItsList, Asleep, Eligible
    <3> QED
      BY <2>2, <2>4, <3>3, <3>4
  <2>8. Ordered(s) => Ordered(r) /\ Highest(r)
    BY <2>1, <2>2, <2>4 DEF Readies
  <2>9. r.sleep = s.sleep
    BY <2>1, <2>5 DEF Readies
  <2> QED
    BY <2>5, <2>6, <2>7, <2>8, <2>9 DEF r
<1> QED
  BY <1>1, <1>2

\* ready of one process that is on no list, and resched.
LEMMA ReadyFacts ==
  ASSUME NEW s \in Sched, NEW p \in Pid, prprio \in [Pid -> Int],
         Linked(s, {p}), OnNone(s, {p})
  PROVE  LET r == Ready(s, p)
         IN  /\ Runs(r) /\ r.sleep = s.sleep
             /\ r.state[p] \in Eligible
             /\ \A q \in Pid \ {p} : r.state[q] = s.state[q]
                                     \/ (r.state[q] \in Eligible /\ s.state[q] \in Eligible)
             /\ \A q \in Pid : In(s.sleep, q) => r.key[q] = s.key[q]
             /\ Ordered(s) => Ordered(r) /\ Highest(r)
<1> DEFINE m == MakeReady(s, p)
           r == Ready(s, p)
<1>1. /\ m \in Sched
      /\ m.state = [s.state EXCEPT ![p] = "ready"]
      /\ m.key = [s.key EXCEPT ![p] = prprio[p]]
      /\ m.sleep = s.sleep
  BY MakeReadyFields
<1>2. Linked(m, {}) /\ (Ordered(s) => Ordered(m))
  <2>1. Linked(s, {} \cup {p}) /\ OnNone(s, {} \cup {p}) /\ {} \ {p} = {}
    <3>1. {} \cup {p} = {p}
      OBVIOUS
    <3> QED
      BY <3>1
  <2> HIDE DEF m
  <2>2. Linked(m, {} \ {p}) /\ (Ordered(s) => Ordered(m))
    BY <2>1, MakeReadyFacts DEF m
  <2> QED
    BY <2>1, <2>2
<1>3. r = Resched(m)
  BY DEF Ready
<1> HIDE DEF m, r
<1>4. /\ Runs(r) /\ Alike(m.state, r.state) /\ r.sleep = m.sleep
      /\ \A q \in Pid : ~(m.state[q] \in Eligible) => r.key[q] = m.key[q]
      /\ Ordered(m) => Ordered(r) /\ Highest(r)
  BY <1>1, <1>2, <1>3, ReschedFacts
<1>5. s.state \in [Pid -> States] /\ s.key \in [Pid -> Int]
  BY SchedFields
<1>6. \A q \in Pid : r.state[q] = m.state[q] \/ (r.state[q] \in Eligible /\ m.state[q] \in Eligible)
  BY <1>4 DEF Alike
<1>7. r.state[p] \in Eligible
  BY <1>1, <1>5, <1>6 DEF Eligible
<1>8. \A q \in Pid \ {p} : r.state[q] = s.state[q]
                           \/ (r.state[q] \in Eligible /\ s.state[q] \in Eligible)
  BY <1>1, <1>5, <1>6
<1>9. ASSUME NEW q \in Pid, In(s.sleep, q)
      PROVE  r.key[q] = s.key[q]
  <2>1. q # p
    BY <1>9 DEF OnNone
  <2>2. OnItsList(s, q)
    BY <2>1 DEF Linked
  <2>3. m.state[q] = s.state[q] /\ m.key[q] = s.key[q]
    BY <1>1, <1>5, <2>1
  <2>4. ~(m.state[q] \in Eligible)
    BY <1>9, <2>2, <2>3 DEF OnItsList, Asleep, Eligible
  <2> QED
    BY <1>4, <2>3, <2>4
<1> QED
  BY <1>1, <1>2, <1>4, <1>7, <1>8, <1>9 DEF r

\* The current process, which is on the delta list or not as its new state says,
\* gives the processor away.
LEMMA LeaveFacts ==
  ASSUME NEW s \in Sched, prprio \in [Pid -> Int], NEW state \in States \ Eligible,
         Linked(s, {s.cur}), ~In(s.list, s.cur), s.cur # Null,
         state \in Asleep <=> In(s.sleep, s.cur)
  PROVE  LET r == Leave(s, state)
         IN  /\ Runs(r) /\ r.sleep = s.sleep
             /\ r.state[s.cur] = state
             /\ \A q \in Pid \ {s.cur} :
                  r.state[q] = s.state[q] \/ (r.state[q] \in Eligible /\ s.state[q] \in Eligible)
             /\ \A q \in Pid : In(s.sleep, q) => r.key[q] = s.key[q]
             /\ Ordered(s) => Ordered(r) /\ Highest(r)
<1> DEFINE c == s.cur
           m == [s EXCEPT !.state[s.cur] = state]
           r == Leave(s, state)
<1>1. /\ s.state \in [Pid -> States] /\ s.key \in [Pid -> Int] /\ c \in Pid
  BY SchedFields
<1>2. /\ m \in Sched /\ m.state = [s.state EXCEPT ![c] = state]
      /\ m.key = s.key /\ m.list = s.list /\ m.sleep = s.sleep /\ m.cur = c
  BY <1>1 DEF Sched
<1>3. r = Resched(m)
  BY DEF Leave
<1> HIDE DEF m, r
<1>4. \A q \in Pid : m.state[q] = IF q = c THEN state ELSE s.state[q]
  BY <1>1, <1>2
<1>5. Linked(m, {})
  <2>1. ASSUME NEW q \in Pid
        PROVE  OnItsList(m, q)
    <3>1. CASE q = c
      BY <1>2, <1>4, <3>1 DEF OnItsList, Eligible
    <3>2. CASE q # c
      <4>1. OnItsList(s, q)
        BY <3>2 DEF Linked
      <4> QED
        BY <1>2, <1>4, <3>2, <4>1 DEF OnItsList
    <3> QED
      BY <3>1, <3>2
  <2>2. IsInjective(m.list) /\ IsInjective(m.sleep)
    BY <1>2 DEF Linked
  <2>3. \A q \in Pid : m.state[q] = "curr" => q = m.cur
    BY <1>2, <1>4 DEF Linked, Eligible
  <2>4. m.state[Null] \in Eligible
    BY <1>4, KernelAssumption DEF Linked
  <2> QED
    BY <2>1, <2>2, <2>3, <2>4 DEF Linked
<1>6. Ordered(s) => Ordered(m)
  BY <1>2 DEF Ordered
<1>7. /\ Runs(r) /\ Alike(m.state, r.state) /\ r.sleep = m.sleep
      /\ \A q \in Pid : ~(m.state[q] \in Eligible) => r.key[q] = m.key[q]
      /\ Ordered(m) => Ordered(r) /\ Highest(r)
  BY <1>2, <1>3, <1>5, ReschedFacts
<1>8. \A q \in Pid : r.state[q] = m.state[q] \/ (r.state[q] \in Eligible /\ m.state[q] \in Eligible)
  BY <1>7 DEF Alike
<1>9. r.state[c] = state
  BY <1>1, <1>4, <1>8
<1>10. \A q \in Pid \ {c} : r.state[q] = s.state[q]
                            \/ (r.state[q] \in Eligible /\ s.state[q] \in Eligible)
  BY <1>4, <1>8
<1>11. ASSUME NEW q \in Pid, In(s.sleep, q)
       PROVE  r.key[q] = s.key[q]
  <2>1. OnItsList(m, q) /\ In(m.sleep, q)
    BY <1>2, <1>5, <1>11 DEF Linked
  <2>2. ~(m.state[q] \in Eligible)
    BY <2>1 DEF OnItsList, Asleep, Eligible
  <2> QED
    BY <1>2, <1>7, <2>2
<1> QED
  BY <1>2, <1>6, <1>7, <1>9, <1>10, <1>11 DEF r

\* The sums of the keys along a delta list.
LEMMA SumsDef ==
  ASSUME NEW list \in Seq(Pid), NEW key \in [Pid -> Int]
  PROVE  /\ Until(list, key, 0) = 0
         /\ \A i \in 0 .. Len(list) : Until(list, key, i) \in Int
         /\ \A i \in 1 .. Len(list) :
              Until(list, key, i) = Until(list, key, i - 1) + key[list[i]]
<1> DEFINE L == Len(list)
           G == [m \in Nat |-> [x \in Int |-> IF m < L THEN x + key[list[m + 1]] ELSE x]]
<1>1. L \in Nat
  OBVIOUS
<1>2. G \in [Nat -> [Int -> Int]]
  <2> SUFFICES ASSUME NEW m \in Nat, NEW x \in Int
               PROVE  (IF m < L THEN x + key[list[m + 1]] ELSE x) \in Int
    OBVIOUS
  <2>1. m < L => list[m + 1] \in Pid
    OBVIOUS
  <2> QED
    BY <2>1
<1>3. PICK h : Iterates(h, Int, 0, G, L)
  <2> DEFINE X == Int
             z == 0
  <2>1. z \in X /\ L \in Nat /\ G \in [Nat -> [X -> X]]
    BY <1>1, <1>2
  <2> HIDE DEF X, z, G, L
  <2>2. \E h : Iterates(h, X, z, G, L)
    BY <2>1, Recursion
  <2> QED
    BY <2>2 DEF X, z
<1>4. /\ h \in [0 .. L -> Int] /\ h[0] = 0
      /\ \A m \in 0 .. L - 1 : h[m + 1] = G[m][h[m]]
  BY <1>3 DEF Iterates
<1>5. \A i \in 0 .. L : i # 0 => h[i] = h[i - 1] + key[list[i]]
  <2> SUFFICES ASSUME NEW i \in 0 .. L, i # 0
               PROVE  h[i] = h[i - 1] + key[list[i]]
    OBVIOUS
  <2>1. i - 1 \in 0 .. L - 1 /\ (i - 1) + 1 = i /\ i - 1 \in Nat /\ i - 1 < L /\ i - 1 \in 0 .. L
    OBVIOUS
  <2> HIDE DEF G, L
  <2>2. h[i] = G[i - 1][h[i - 1]]
    BY <1>4, <2>1
  <2>3. h[i - 1] \in Int
    BY <1>4, <2>1
  <2> QED
    BY <2>1, <2>2, <2>3 DEF G
<1> DEFINE IsSums(g) ==
             g = [i \in 0 .. Len(list) |-> IF i = 0 THEN 0 ELSE g[i - 1] + key[list[i]]]
<1>6. IsSums(h)
  <2> HIDE DEF G
  <2> QED
    BY <1>4, <1>5
<1>7. \E g : IsSums(g)
  BY <1>6
<1>8. Sums(list, key) = CHOOSE g : IsSums(g)
  BY DEF Sums
<1> DEFINE R == Sums(list, key)
<1> HIDE DEF IsSums, R
<1>9. IsSums(R)
  BY <1>7, <1>8 DEF R
<1>10. R = [i \in 0 .. Len(list) |-> IF i = 0 THEN 0 ELSE R[i - 1] + key[list[i]]]
  BY <1>9 DEF IsSums
<1> HIDE DEF G
<1>11. R[0] = 0 /\ \A i \in 1 .. L : R[i] = R[i - 1] + key[list[i]]
  <2>1. 0 \in 0 .. L /\ \A i \in 1 .. L : i \in 0 .. L /\ i # 0
    OBVIOUS
  <2> HIDE DEF L
  <2> QED
    BY <1>10, <2>1 DEF L
<1>12. \A i \in 0 .. L : R[i] \in Int
  <2> DEFINE T == {i \in Nat : i <= L => R[i] \in Int}
  <2>1. 0 \in T
    BY <1>11
  <2>2. \A n \in Nat : n \in T => n + 1 \in T
    <3> SUFFICES ASSUME NEW n \in Nat, n \in T, n + 1 <= L
                 PROVE  R[n + 1] \in Int
      OBVIOUS
    <3>1. R[n] \in Int /\ n + 1 \in 1 .. L /\ (n + 1) - 1 = n /\ list[n + 1] \in Pid
      OBVIOUS
    <3>2. R[n + 1] = R[n] + key[list[n + 1]]
      BY <1>11, <3>1
    <3> QED
      BY <3>1, <3>2
  <2> HIDE DEF T
  <2>3. Nat \subseteq T
    BY <2>1, <2>2, Induct
  <2> QED
    BY <2>3 DEF T
<1> QED
  BY <1>11, <1>12 DEF R, Until

\* insertd of the current process: its place on the delta list, and the keys.
LEMMA EnterSleepFields ==
  ASSUME NEW s \in Sched, NEW d \in Nat, ~In(s.sleep, s.cur)
  PROVE  LET e == EnterSleep(s, d)
         IN  /\ e \in Sched
             /\ e.state = s.state /\ e.list = s.list /\ e.cur = s.cur /\ e.slice = s.slice
             /\ \E n \in 0 .. Len(s.sleep) :
                  /\ Spliced(e.sleep, s.sleep, n, s.cur)
                  /\ Until(s.sleep, s.key, n) <= d
                  /\ n < Len(s.sleep) => Until(s.sleep, s.key, n + 1) > d
                  /\ e.key[s.cur] = d - Until(s.sleep, s.key, n)
                  /\ n < Len(s.sleep) =>
                       e.key[s.sleep[n + 1]] = s.key[s.sleep[n + 1]] - (d - Until(s.sleep, s.key, n))
                  /\ \A q \in Pid : /\ q # s.cur
                                    /\ n < Len(s.sleep) => q # s.sleep[n + 1]
                                    => e.key[q] = s.key[q]
<1> DEFINE list == s.sleep
           c == s.cur
           passed == {i \in DOMAIN list : \A j \in 1 .. i : Until(list, s.key, j) <= d}
           n == Cardinality(passed)
           own == d - Until(list, s.key, n)
           key == [s.key EXCEPT ![c] = own]
           new == IF n = Len(list) THEN key ELSE [key EXCEPT ![list[n + 1]] = @ - own]
           e == EnterSleep(s, d)
<1>1. /\ s.key \in [Pid -> Int] /\ c \in Pid /\ list \in Seq(Pid) /\ Len(list) \in Nat
  BY SchedFields
<1>2. /\ passed \in SUBSET (1 .. Len(list)) /\ \A i \in passed : 1 .. i \subseteq passed
  BY <1>1
<1>3. n \in 0 .. Len(list) /\ passed = 1 .. n
  <2> HIDE DEF passed
  <2> QED
    BY <1>1, <1>2, PrefixSet
<1>4. /\ Until(list, s.key, 0) = 0
      /\ \A i \in 0 .. Len(list) : Until(list, s.key, i) \in Int
  BY <1>1, SumsDef
<1>5. e = [s EXCEPT !.sleep = InsertAt(list, n + 1, c), !.key = new]
  BY DEF EnterSleep, Sched
<1> HIDE DEF n, list, c
<1>6. own \in Int /\ key \in [Pid -> Int]
  BY <1>1, <1>3, <1>4
<1>7. n # Len(list) => n < Len(list) /\ n + 1 \in 1 .. Len(list) /\ list[n + 1] \in Pid
  BY <1>1, <1>3
<1>8. new \in [Pid -> Int]
  BY <1>6, <1>7
<1>9. /\ InsertAt(list, n + 1, c) \in Seq(Pid)
      /\ Spliced(InsertAt(list, n + 1, c), list, n, c)
  BY <1>1, <1>3, InsertAtSplices DEF Spliced
<1> HIDE DEF own, key, new, e
<1>10. /\ e \in Sched
       /\ e.state = s.state /\ e.list = s.list /\ e.cur = s.cur /\ e.slice = s.slice
       /\ e.sleep = InsertAt(list, n + 1, c) /\ e.key = new
  BY <1>5, <1>8, <1>9 DEF Sched
<1>11. Until(list, s.key, n) <= d
  <2>1. CASE n = 0
    BY <1>4, <2>1
  <2>2. CASE n # 0
    <3>1. n \in passed /\ n \in 1 .. n
      BY <1>3, <2>2
    <3> QED
      BY <3>1
  <2> QED
    BY <2>1, <2>2
<1>12. ASSUME n < Len(list)
       PROVE  Until(list, s.key, n + 1) > d
  <2>1. n + 1 \in 1 .. Len(list) /\ n + 1 \notin passed
    BY <1>3, <1>12
  <2>2. PICK j \in 1 .. n + 1 : ~(Until(list, s.key, j) <= d)
    BY <1>1, <2>1
  <2>3. j = n + 1
    <3>1. ASSUME j # n + 1
          PROVE  FALSE
      <4>1. j \in passed /\ j \in 1 .. j
        BY <1>3, <3>1
      <4> QED
        BY <2>2, <4>1
    <3> QED
      BY <3>1
  <2>4. Until(list, s.key, n + 1) \in Int
    BY <1>1, <1>4, <2>1
  <2> QED
    BY <2>2, <2>3, <2>4
<1>13. c # list[n + 1] \/ n = Len(list)
  BY <1>1, <1>7, InDef DEF list, c
<1>14. e.key[c] = own
  BY <1>1, <1>6, <1>7, <1>10, <1>13 DEF new, key
<1>15. n < Len(list) => e.key[list[n + 1]] = s.key[list[n + 1]] - own
  BY <1>1, <1>6, <1>7, <1>10, <1>13 DEF new, key
<1>16. \A q \in Pid : q # c /\ (n < Len(list) => q # list[n + 1]) => e.key[q] = s.key[q]
  BY <1>1, <1>6, <1>7, <1>10, <1>13 DEF new, key
<1> QED
  BY <1>3, <1>9, <1>10, <1>11, <1>12, <1>14, <1>15, <1>16 DEF e, own, list, c

\* unsleep: the process leaves the delta list, the keys of the others but the next
\* stay.
LEMMA UnsleepFields ==
  ASSUME NEW s \in Sched, NEW p \in Pid, In(s.sleep, p)
  PROVE  LET u == Unsleep(s, p)
         IN  /\ u \in Sched
             /\ u.state = s.state /\ u.list = s.list /\ u.cur = s.cur /\ u.slice = s.slice
             /\ \E n \in 0 .. Len(s.sleep) - 1 :
                  /\ Len(u.sleep) = Len(s.sleep) - 1
                  /\ Spliced(s.sleep, u.sleep, n, p)
                  /\ n < Len(u.sleep) =>
                       u.key[s.sleep[n + 2]] = s.key[s.sleep[n + 2]] + s.key[p]
                  /\ \A q \in Pid : (n < Len(u.sleep) => q # s.sleep[n + 2])
                                    => u.key[q] = s.key[q]
<1> DEFINE list == s.sleep
           m == CHOOSE i \in DOMAIN list : list[i] = p
           new == IF m = Len(list) THEN s.key
                  ELSE [s.key EXCEPT ![list[m + 1]] = @ + s.key[p]]
           u == Unsleep(s, p)
<1>1. /\ s.key \in [Pid -> Int] /\ list \in Seq(Pid) /\ Len(list) \in Nat
  BY SchedFields
<1>2. PICK n \in 0 .. Len(list) - 1 :
        /\ Unlink(list, p) \in Seq(Pid) /\ Len(Unlink(list, p)) = Len(list) - 1
        /\ Spliced(list, Unlink(list, p), n, p)
        /\ n + 1 = m
  BY <1>1, UnlinkSplices
<1>3. u = [s EXCEPT !.sleep = Unlink(list, p), !.key = new]
  BY DEF Unsleep, Sched
<1> HIDE DEF m, list
<1>4. m \in 1 .. Len(list) /\ (m # Len(list) <=> n < Len(list) - 1) /\ m + 1 = n + 2
  BY <1>1, <1>2
<1>5. m # Len(list) => list[m + 1] \in Pid
  BY <1>1, <1>4
<1>6. new \in [Pid -> Int]
  BY <1>1, <1>5
<1>7. /\ m # Len(list) => new[list[m + 1]] = s.key[list[m + 1]] + s.key[p]
      /\ \A q \in Pid : (m # Len(list) => q # list[m + 1]) => new[q] = s.key[q]
  BY <1>1, <1>5
<1> HIDE DEF new, u
<1>8. /\ u \in Sched
      /\ u.state = s.state /\ u.list = s.list /\ u.cur = s.cur /\ u.slice = s.slice
      /\ u.sleep = Unlink(list, p) /\ u.key = new
  BY <1>2, <1>3, <1>6 DEF Sched
<1> QED
  BY <1>2, <1>4, <1>7, <1>8 DEF u, list

\* The order of the ready list rests on its own keys alone.
LEMMA OrderedKept ==
  ASSUME NEW s \in Sched, NEW e \in Sched, e.list = s.list,
         \A q \in Pid : In(s.list, q) => e.key[q] = s.key[q]
  PROVE  Ordered(s) => Ordered(e)
<1> SUFFICES ASSUME Ordered(s)
             PROVE  Ordered(e)
  OBVIOUS
<1>1. s.list \in Seq(Pid)
  BY SchedFields
<1>2. \A i \in 1 .. Len(s.list) : e.key[s.list[i]] = s.key[s.list[i]]
  BY <1>1, InDef
<1>3. Sorted(e.list, e.key)
  <2>1. \A i \in 1 .. Len(s.list) : \A j \in 1 .. i : j \in 1 .. Len(s.list)
    BY <1>1
  <2> QED
    BY <1>2, <2>1 DEF Ordered, Sorted
<1> QED
  BY <1>3 DEF Ordered

\* The current process has entered the delta list and has not changed its state yet.
LEMMA EnterSleepFacts ==
  ASSUME NEW s, NEW d \in Nat, Runs(s)
  PROVE  LET e == EnterSleep(s, d)
         IN  /\ e \in Sched /\ Linked(e, {s.cur}) /\ ~In(e.list, s.cur)
             /\ e.state = s.state /\ e.cur = s.cur
             /\ \A q : In(e.sleep, q) <=> In(s.sleep, q) \/ q = s.cur
             /\ Ordered(s) => Ordered(e)
<1> DEFINE e == EnterSleep(s, d)
           c == s.cur
<1>1. s \in Sched /\ Linked(s, {}) /\ s.state[c] = "curr"
  BY DEF Runs
<1>2. /\ s.state \in [Pid -> States] /\ s.key \in [Pid -> Int] /\ c \in Pid
      /\ s.list \in Seq(Pid) /\ s.sleep \in Seq(Pid)
  BY <1>1, SchedFields
<1>3. OnItsList(s, c)
  BY <1>1, <1>2 DEF Linked
<1>4. ~In(s.list, c) /\ ~In(s.sleep, c)
  BY <1>1, <1>3 DEF OnItsList, Asleep
<1>5. /\ e \in Sched
      /\ e.state = s.state /\ e.list = s.list /\ e.cur = s.cur /\ e.slice = s.slice
  BY <1>1, <1>4, EnterSleepFields
<1>6. PICK n \in 0 .. Len(s.sleep) :
        /\ Spliced(e.sleep, s.sleep, n, c)
        /\ \A q \in Pid : q # c /\ (n < Len(s.sleep) => q # s.sleep[n + 1])
                          => e.key[q] = s.key[q]
  BY <1>1, <1>4, EnterSleepFields
<1> HIDE DEF e, c
<1>7. /\ \A q : In(e.sleep, q) <=> In(s.sleep, q) \/ q = c
      /\ IsInjective(e.sleep) <=> IsInjective(s.sleep) /\ ~In(s.sleep, c)
  <2> DEFINE r == e.sleep
             l == s.sleep
  <2>1. l \in Seq(Pid) /\ n \in 0 .. Len(l) /\ Spliced(r, l, n, c)
    BY <1>2, <1>6
  <2> HIDE DEF r, l
  <2>2. /\ \A q : In(r, q) <=> In(l, q) \/ q = c
        /\ IsInjective(r) <=> IsInjective(l) /\ ~In(l, c)
    BY <1>2, <2>1, SplicedFacts
  <2> QED
    BY <2>2 DEF r, l
<1>8. Linked(e, {c})
  <2>1. ASSUME NEW q \in Pid \ {c}
        PROVE  OnItsList(e, q)
    <3>1. OnItsList(s, q)
      BY <1>1 DEF Linked
    <3> QED
      BY <1>5, <1>7, <3>1 DEF OnItsList
  <2>2. IsInjective(e.list) /\ IsInjective(e.sleep)
    BY <1>1, <1>4, <1>5, <1>7 DEF Linked
  <2> QED
    BY <1>1, <1>5, <2>1, <2>2 DEF Linked
<1>9. Ordered(s) => Ordered(e)
  <2>1. ASSUME NEW q \in Pid, In(s.list, q)
        PROVE  e.key[q] = s.key[q]
    <3>1. OnItsList(s, q)
      BY <1>1 DEF Linked
    <3>2. ~In(s.sleep, q) /\ q # c
      BY <1>4, <2>1, <3>1 DEF OnItsList, Asleep
    <3>3. n < Len(s.sleep) => q # s.sleep[n + 1]
      <4>1. n < Len(s.sleep) => n + 1 \in 1 .. Len(s.sleep)
        BY <1>2
      <4> QED
        BY <1>2, <3>2, <4>1, InDef
    <3> QED
      BY <1>6, <3>2, <3>3
  <2> QED
    BY <1>1, <1>5, <2>1, OrderedKept
<1> QED
  BY <1>4, <1>5, <1>7, <1>8, <1>9 DEF e, c

\* unsleep: the process is on no list then.
LEMMA UnsleepFacts ==
  ASSUME NEW s \in Sched, NEW p \in Pid, In(s.sleep, p), ~In(s.list, p), Linked(s, {p})
  PROVE  LET u == Unsleep(s, p)
         IN  /\ u \in Sched /\ Linked(u, {p}) /\ OnNone(u, {p})
             /\ u.state = s.state /\ u.list = s.list /\ u.cur = s.cur
             /\ \A q : In(u.sleep, q) <=> In(s.sleep, q) /\ q # p
             /\ Ordered(s) => Ordered(u)
<1> DEFINE u == Unsleep(s, p)
<1>1. /\ s.state \in [Pid -> States] /\ s.key \in [Pid -> Int]
      /\ s.list \in Seq(Pid) /\ s.sleep \in Seq(Pid)
  BY SchedFields
<1>2. /\ u \in Sched
      /\ u.state = s.state /\ u.list = s.list /\ u.cur = s.cur /\ u.slice = s.slice
  BY UnsleepFields
<1>3. PICK n \in 0 .. Len(s.sleep) - 1 :
        /\ Len(u.sleep) = Len(s.sleep) - 1
        /\ Spliced(s.sleep, u.sleep, n, p)
        /\ \A q \in Pid : (n < Len(u.sleep) => q # s.sleep[n + 2]) => u.key[q] = s.key[q]
  BY UnsleepFields
<1> HIDE DEF u
<1>4. u.sleep \in Seq(Pid)
  BY <1>2, SchedFields
<1>5. /\ \A q : In(s.sleep, q) <=> In(u.sleep, q) \/ q = p
      /\ IsInjective(s.sleep) <=> IsInjective(u.sleep) /\ ~In(u.sleep, p)
  <2> DEFINE r == s.sleep
             l == u.sleep
  <2>1. l \in Seq(Pid) /\ n \in 0 .. Len(l) /\ Spliced(r, l, n, p)
    BY <1>3, <1>4
  <2> HIDE DEF r, l
  <2>2. /\ \A q : In(r, q) <=> In(l, q) \/ q = p
        /\ IsInjective(r) <=> IsInjective(l) /\ ~In(l, p)
    BY <2>1, SplicedFacts
  <2> QED
    BY <2>2 DEF r, l
<1>6. IsInjective(s.sleep)
  BY DEF Linked
<1>7. \A q : In(u.sleep, q) <=> In(s.sleep, q) /\ q # p
  BY <1>5, <1>6
<1>8. Linked(u, {p})
  <2>1. ASSUME NEW q \in Pid \ {p}
        PROVE  OnItsList(u, q)
    <3>1. OnItsList(s, q)
      BY DEF Linked
    <3> QED
      BY <1>2, <1>7, <3>1 DEF OnItsList
  <2>2. IsInjective(u.list) /\ IsInjective(u.sleep)
    BY <1>2, <1>5, <1>6 DEF Linked
  <2> QED
    BY <1>2, <2>1, <2>2 DEF Linked
<1>9. OnNone(u, {p})
  BY <1>2, <1>7 DEF OnNone
<1>10. Ordered(s) => Ordered(u)
  <2>1. ASSUME NEW q \in Pid, In(s.list, q)
        PROVE  u.key[q] = s.key[q]
    <3>1. OnItsList(s, q)
      BY <2>1 DEF Linked
    <3>2. ~In(s.sleep, q)
      BY <2>1, <3>1 DEF OnItsList, Asleep
    <3>3. n < Len(u.sleep) => q # s.sleep[n + 2]
      <4>1. n < Len(u.sleep) => n + 2 \in 1 .. Len(s.sleep)
        BY <1>1, <1>3
      <4> QED
        BY <1>1, <3>2, <4>1, InDef
    <3> QED
      BY <1>3, <3>3
  <2> QED
    BY <1>2, <2>1, OrderedKept
<1> QED
  BY <1>2, <1>7, <1>8, <1>9, <1>10 DEF u

\* wakeup: the processes at the head of the delta list whose keys are used up are
\* ready, the others stay asleep with the keys they have.
LEMMA WakeupFacts ==
  ASSUME NEW s, prprio \in [Pid -> Int], Runs(s)
  PROVE  LET r == Wakeup(s)
         IN  /\ Runs(r)
             /\ \E due \in 0 .. Len(s.sleep) :
                  /\ \A i \in 1 .. due : s.key[s.sleep[i]] <= 0
                  /\ due < Len(s.sleep) => s.key[s.sleep[due + 1]] > 0
                  /\ r.sleep = SubSeq(s.sleep, due + 1, Len(s.sleep))
             /\ \A q : In(r.sleep, q) => In(s.sleep, q)
             /\ \A q \in Pid : IF In(s.sleep, q) /\ ~In(r.sleep, q) THEN r.state[q] \in Eligible
                               ELSE r.state[q] = s.state[q]
                                    \/ (r.state[q] \in Eligible /\ s.state[q] \in Eligible)
             /\ \A q \in Pid : In(r.sleep, q) => r.key[q] = s.key[q]
             /\ Ordered(s) /\ Highest(s) => Ordered(r) /\ Highest(r)
<1> DEFINE list == s.sleep
           P == {i \in DOMAIN list : \A j \in 1 .. i : s.key[list[j]] <= 0}
           due == Cardinality(P)
           a == SubSeq(list, 1, due)
           b == SubSeq(list, due + 1, Len(list))
           m == [s EXCEPT !.sleep = b]
           r == Wakeup(s)
<1>1. s \in Sched /\ Linked(s, {}) /\ s.state[s.cur] = "curr"
  BY DEF Runs
<1>2. /\ s.key \in [Pid -> Int] /\ list \in Seq(Pid) /\ Len(list) \in Nat
      /\ s.state \in [Pid -> States] /\ s.cur \in Pid /\ s.list \in Seq(Pid)
  BY <1>1, SchedFields
<1>3. P \in SUBSET (1 .. Len(list)) /\ \A i \in P : 1 .. i \subseteq P
  BY <1>2
<1>4. due \in 0 .. Len(list) /\ P = 1 .. due
  <2> HIDE DEF P
  <2> QED
    BY <1>2, <1>3, PrefixSet
<1>5. r = ReadyAll(m, a)
  <2>1. m = [s EXCEPT !.sleep = SubSeq(@, due + 1, Len(@))]
    BY <1>1 DEF Sched
  <2> HIDE DEF m
  <2> QED
    BY <2>1 DEF Wakeup
<1> HIDE DEF due
<1>6. \A i \in 1 .. due : s.key[list[i]] <= 0
  BY <1>4
<1>7. ASSUME due < Len(list)
      PROVE  s.key[list[due + 1]] > 0
  <2>1. due + 1 \in 1 .. Len(list) /\ due + 1 \notin P
    BY <1>4, <1>7
  <2>2. PICK j \in 1 .. due + 1 : ~(s.key[list[j]] <= 0)
    BY <1>2, <2>1
  <2>3. j = due + 1
    BY <1>4, <1>6, <2>2
  <2>4. s.key[list[due + 1]] \in Int
    BY <1>2, <2>1
  <2> QED
    BY <2>2, <2>3, <2>4
<1>8. IsInjective(list)
  BY <1>1 DEF Linked
<1>9. /\ a \in Seq(Pid) /\ b \in Seq(Pid) /\ IsInjective(a) /\ IsInjective(b)
      /\ \A q : In(list, q) <=> In(a, q) \/ In(b, q)
      /\ \A q : ~(In(a, q) /\ In(b, q))
  <2> HIDE DEF list, a, b
  <2> QED
    BY <1>2, <1>4, <1>8, SplitFacts DEF a, b
<1> HIDE DEF a, b, r
<1>10. /\ m \in Sched /\ m.state = s.state /\ m.key = s.key /\ m.list = s.list
       /\ m.sleep = b /\ m.cur = s.cur
  BY <1>1, <1>9 DEF Sched
<1> HIDE DEF m
<1>11. \A q \in Pid : OnItsList(s, q)
  BY <1>1 DEF Linked
<1>12. OnNone(m, ToSet(a))
  <2> SUFFICES ASSUME NEW q \in ToSet(a)
               PROVE  ~In(m.list, q) /\ ~In(m.sleep, q)
    BY DEF OnNone
  <2>1. In(a, q)
    BY DEF In
  <2>2. In(list, q) /\ q \in Pid /\ ~In(b, q)
    BY <1>9, <2>1, InDef
  <2>3. ~In(s.list, q)
    BY <1>11, <2>2 DEF OnItsList, Asleep
  <2> QED
    BY <1>10, <2>2, <2>3
<1>13. Linked(m, ToSet(a))
  <2>1. ASSUME NEW q \in Pid \ ToSet(a)
        PROVE  OnItsList(m, q)
    <3>1. ~In(a, q)
      BY DEF In
    <3>2. In(m.sleep, q) <=> In(list, q)
      BY <1>9, <1>10, <3>1
    <3> QED
      BY <1>10, <1>11, <3>2 DEF OnItsList
  <2> QED
    BY <1>1, <1>9, <1>10, <2>1 DEF Linked
<1>14. m.state[m.cur] = "curr"
  BY <1>1, <1>10
<1>15. /\ Runs(r) /\ r.sleep = m.sleep
       /\ \A q \in Pid : IF In(a, q) THEN r.state[q] \in Eligible
                         ELSE r.state[q] = m.state[q]
                              \/ (r.state[q] \in Eligible /\ m.state[q] \in Eligible)
       /\ \A q \in Pid : In(m.sleep, q) => r.key[q] = m.key[q]
       /\ Ordered(m) /\ Highest(m) => Ordered(r) /\ Highest(r)
  BY <1>5, <1>9, <1>10, <1>12, <1>13, <1>14, ReadyAllFacts
<1>16. Ordered(s) /\ Highest(s) => Ordered(m) /\ Highest(m)
  BY <1>10 DEF Ordered, Highest
<1>17. \A q : In(r.sleep, q) <=> In(b, q)
  BY <1>10, <1>15
<1>18. \A q \in Pid : IF In(list, q) /\ ~In(r.sleep, q) THEN r.state[q] \in Eligible
                      ELSE r.state[q] = s.state[q]
                           \/ (r.state[q] \in Eligible /\ s.state[q] \in Eligible)
  BY <1>9, <1>10, <1>15, <1>17
<1>19. \A q : In(r.sleep, q) => In(list, q)
  BY <1>9, <1>17
<1>20. \A q \in Pid : In(r.sleep, q) => r.key[q] = s.key[q]
  BY <1>10, <1>15
<1>21. r.sleep = b
  BY <1>10, <1>15
<1> QED
  BY <1>4, <1>6, <1>7, <1>15, <1>16, <1>18, <1>19, <1>20, <1>21 DEF r, b

\* The end of the clock handler: a slice less, or a new one and resched.
LEMMA EndOfTickFacts ==
  ASSUME NEW s, prprio \in [Pid -> Int], Runs(s)
  PROVE  LET r == EndOfTick(s)
         IN  /\ Runs(r) /\ Alike(s.state, r.state) /\ r.sleep = s.sleep
             /\ \A p \in Pid : In(s.sleep, p) => r.key[p] = s.key[p]
             /\ Ordered(s) /\ Highest(s) => Ordered(r) /\ Highest(r)
<1> DEFINE slice == s.slice - 1
           r == EndOfTick(s)
<1>1. s \in Sched /\ Linked(s, {}) /\ s.state[s.cur] = "curr"
  BY DEF Runs
<1>2. s.slice \in 1 .. Quantum /\ Quantum \in Nat
  BY <1>1, SchedFields, KernelAssumption
<1>3. CASE slice <= 0
  <2> DEFINE m == [s EXCEPT !.slice = Quantum]
  <2>1. r = Resched(m)
    BY <1>3 DEF EndOfTick
  <2>2. /\ m \in Sched /\ m.state = s.state /\ m.key = s.key /\ m.list = s.list
        /\ m.sleep = s.sleep /\ m.cur = s.cur
    <3>1. Quantum \in 1 .. Quantum
      BY <1>2
    <3> QED
      BY <1>1, <3>1 DEF Sched
  <2> HIDE DEF m, r
  <2>3. Linked(m, {})
    BY <1>1, <2>2 DEF Linked, OnItsList
  <2>4. /\ Runs(r) /\ Alike(m.state, r.state) /\ r.sleep = m.sleep
        /\ \A p \in Pid : ~(m.state[p] \in Eligible) => r.key[p] = m.key[p]
        /\ Ordered(m) => Ordered(r) /\ Highest(r)
    BY <2>1, <2>2, <2>3, ReschedFacts
  <2>5. Ordered(s) => Ordered(m)
    BY <2>2 DEF Ordered
  <2>6. \A p \in Pid : In(s.sleep, p) => ~(s.state[p] \in Eligible)
    BY <1>1 DEF Linked, OnItsList, Asleep, Eligible
  <2> QED
    BY <2>2, <2>4, <2>5, <2>6 DEF r
<1>4. CASE ~(slice <= 0)
  <2>1. r = [s EXCEPT !.slice = slice]
    BY <1>4 DEF EndOfTick
  <2>2. slice \in 1 .. Quantum
    BY <1>2, <1>4
  <2> HIDE DEF slice, r
  <2>3. /\ r \in Sched /\ r.state = s.state /\ r.key = s.key /\ r.list = s.list
        /\ r.sleep = s.sleep /\ r.cur = s.cur
    BY <1>1, <2>1, <2>2 DEF Sched
  <2>4. Runs(r)
    BY <1>1, <2>3 DEF Runs, Linked, OnItsList
  <2>5. Alike(s.state, r.state)
    BY <2>3 DEF Alike
  <2>6. Ordered(s) /\ Highest(s) => Ordered(r) /\ Highest(r)
    BY <2>3 DEF Ordered, Highest
  <2> QED
    BY <2>3, <2>4, <2>5, <2>6 DEF r
<1> QED
  BY <1>3, <1>4

(***************************************************************************)
(* The delta list.                                                         *)
(***************************************************************************)
\* The keys up to a process sum up to what it has left to sleep.
LEMMA DeltasSum ==
  ASSUME NEW list \in Seq(Pid), NEW key \in [Pid -> Int], NEW rest \in [Pid -> Int],
         Deltas(list, key, rest)
  PROVE  \A i \in 1 .. Len(list) : Until(list, key, i) = rest[list[i]]
<1> DEFINE T == {n \in Nat : n \in 1 .. Len(list) => Until(list, key, n) = rest[list[n]]}
<1>1. 0 \in T
  OBVIOUS
<1>2. ASSUME NEW n \in Nat, n \in T
      PROVE  n + 1 \in T
  <2> SUFFICES ASSUME n + 1 \in 1 .. Len(list)
               PROVE  Until(list, key, n + 1) = rest[list[n + 1]]
    OBVIOUS
  <2>1. Until(list, key, n + 1) = Until(list, key, n) + key[list[n + 1]]
    <3>1. Until(list, key, n + 1) = Until(list, key, (n + 1) - 1) + key[list[n + 1]]
      BY SumsDef
    <3> QED
      BY <3>1
  <2>2. rest[list[n + 1]] = (IF n = 0 THEN 0 ELSE rest[list[n]]) + key[list[n + 1]]
    <3>1. rest[list[n + 1]] = (IF n + 1 = 1 THEN 0 ELSE rest[list[(n + 1) - 1]]) + key[list[n + 1]]
      BY DEF Deltas, Before
    <3> QED
      BY <3>1
  <2>3. CASE n = 0
    <3>1. Until(list, key, 0) = 0
      BY SumsDef
    <3> QED
      BY <2>1, <2>2, <2>3, <3>1
  <2>4. CASE n # 0
    <3>1. Until(list, key, n) = rest[list[n]]
      BY <1>2, <2>4
    <3> QED
      BY <2>1, <2>2, <2>4, <3>1
  <2> QED
    BY <2>3, <2>4
<1> HIDE DEF T
<1>3. Nat \subseteq T
  BY <1>1, <1>2, Induct
<1> QED
  BY <1>3 DEF T

\* A delta list whose processes keep their keys and what they have left is one.
LEMMA DeltasKept ==
  ASSUME NEW list \in Seq(Pid), NEW key, NEW rest, NEW key2, NEW rest2,
         Deltas(list, key, rest),
         \A p \in Pid : In(list, p) => key2[p] = key[p] /\ rest2[p] = rest[p]
  PROVE  Deltas(list, key2, rest2)
<1>1. \A i \in 1 .. Len(list) : list[i] \in Pid /\ In(list, list[i])
  BY InDef
<1>2. \A i \in 1 .. Len(list) : i # 1 => i - 1 \in 1 .. Len(list)
  OBVIOUS
<1> QED
  BY <1>1, <1>2 DEF Deltas, Before

\* A process enters the delta list behind those that wake up no later, and the one
\* behind it has so much less to wait after it.
LEMMA DeltasEnter ==
  ASSUME NEW list \in Seq(Pid), NEW key \in [Pid -> Int], NEW rest \in [Pid -> Int],
         NEW key2 \in [Pid -> Int], NEW rest2 \in [Pid -> Int],
         NEW r \in Seq(Pid), NEW n \in 0 .. Len(list), NEW p \in Pid, NEW d \in Nat \ {0},
         IsInjective(list), ~In(list, p), Spliced(r, list, n, p), Deltas(list, key, rest),
         Enters(list, key, rest, key2, rest2, n, p, d)
  PROVE  Deltas(r, key2, rest2)
<1> DEFINE L == Len(list)
<1>1. L \in Nat /\ n \in 0 .. L /\ Len(r) = L + 1
  BY DEF Spliced
<1>2. /\ r[n + 1] = p
      /\ \A j \in 1 .. n : r[j] = list[j]
      /\ \A j \in n + 1 .. L : r[j + 1] = list[j]
  BY DEF Spliced
<1>3. \A j \in 1 .. L : list[j] \in Pid /\ list[j] # p
  BY InDef
<1>4. \A j \in 1 .. L : rest2[list[j]] = rest[list[j]]
  BY <1>3 DEF Enters
<1>5. \A j \in 1 .. L : j # n + 1 => key2[list[j]] = key[list[j]]
  <2>1. \A i, j \in 1 .. L : list[i] = list[j] => i = j
    BY InDef
  <2>2. n < L => n + 1 \in 1 .. L
    BY <1>1
  <2>3. \A q \in Pid : q # p /\ (n < L => q # list[n + 1]) => key2[q] = key[q]
    BY DEF Enters
  <2> HIDE DEF L
  <2> QED
    BY <1>3, <2>1, <2>2, <2>3
<1>6. \A j \in 1 .. L :
        /\ key[list[j]] >= 0 /\ rest[list[j]] > 0
        /\ rest[list[j]] = Before(list, rest, j) + key[list[j]]
  BY DEF Deltas
<1>7. /\ Before(list, rest, n + 1) <= d /\ (n < L => rest[list[n + 1]] > d)
      /\ key2[p] = d - Before(list, rest, n + 1) /\ rest2[p] = d
      /\ n < L => key2[list[n + 1]] = key[list[n + 1]] - key2[p]
  BY DEF Enters
<1>8. Before(list, rest, n + 1) \in Int
  <2>1. n # 0 => n \in 1 .. L
    BY <1>1
  <2> QED
    BY <1>3, <2>1, SMTT(30) DEF Before
<1> HIDE DEF L
<1>9. ASSUME NEW i \in 1 .. L + 1
      PROVE  /\ key2[r[i]] >= 0 /\ rest2[r[i]] > 0
             /\ rest2[r[i]] = Before(r, rest2, i) + key2[r[i]]
  <2>1. CASE i <= n
    <3>1. i \in 1 .. L /\ i # n + 1 /\ r[i] = list[i]
      <4>1. i \in 1 .. L /\ i # n + 1 /\ i \in 1 .. n
        BY <1>1, <2>1
      <4> QED
        BY <1>2, <4>1
    <3>2. Before(r, rest2, i) = Before(list, rest, i)
      <4>1. i # 1 => i - 1 \in 1 .. n /\ i - 1 \in 1 .. L
        BY <1>1, <2>1
      <4> QED
        BY <1>2, <1>4, <4>1 DEF Before
    <3> QED
      BY <1>4, <1>5, <1>6, <3>1, <3>2
  <2>2. CASE i = n + 1
    <3>1. Before(r, rest2, i) = Before(list, rest, n + 1)
      <4>1. i # 1 => n \in 1 .. n /\ n \in 1 .. L /\ i - 1 = n /\ (n + 1) - 1 = n
        BY <1>1, <2>2
      <4> QED
        BY <1>2, <1>4, <2>2, <4>1 DEF Before
    <3>2. r[i] = p
      BY <1>2, <2>2
    <3>3. key2[p] >= 0 /\ d > 0 /\ d = Before(list, rest, n + 1) + key2[p]
      BY <1>7, <1>8
    <3> QED
      BY <1>7, <3>1, <3>2, <3>3
  <2>3. CASE i = n + 2
    <3>1. n + 1 \in 1 .. L /\ n + 1 \in n + 1 .. L /\ n < L /\ (n + 1) + 1 = i /\ i - 1 = n + 1 /\ i # 1
      BY <1>1, <2>3
    <3>2. r[i] = list[n + 1]
      BY <1>2, <3>1
    <3>3. Before(r, rest2, i) = d
      BY <1>2, <1>7, <3>1 DEF Before
    <3>4. rest[list[n + 1]] = Before(list, rest, n + 1) + key[list[n + 1]] /\ rest[list[n + 1]] > d
      BY <1>6, <1>7, <3>1
    <3>5. /\ key2[list[n + 1]] = key[list[n + 1]] - (d - Before(list, rest, n + 1))
          /\ rest2[list[n + 1]] = rest[list[n + 1]]
          /\ key[list[n + 1]] \in Int /\ rest[list[n + 1]] \in Int
      BY <1>3, <1>4, <1>7, <3>1
    <3>6. /\ key2[list[n + 1]] >= 0 /\ rest[list[n + 1]] > 0
          /\ rest[list[n + 1]] = d + key2[list[n + 1]]
      <4> DEFINE t == rest[list[n + 1]]
                 k == key[list[n + 1]]
                 h == key2[list[n + 1]]
                 b == Before(list, rest, n + 1)
      <4>1. /\ t \in Int /\ k \in Int /\ b \in Int /\ d \in Int /\ d > 0
            /\ t = b + k /\ t > d /\ h = k - (d - b)
        BY <1>8, <3>4, <3>5
      <4> HIDE DEF t, k, h, b
      <4>2. h >= 0 /\ t > 0 /\ t = d + h
        BY <4>1
      <4> QED
        BY <4>2 DEF t, h
    <3> QED
      BY <3>2, <3>3, <3>5, <3>6
  <2>4. CASE i > n + 2
    <3>1. i - 1 \in n + 1 .. L /\ i - 1 \in 1 .. L /\ (i - 1) + 1 = i /\ i - 1 # n + 1
      BY <1>1, <2>4
    <3>2. r[i] = list[i - 1]
      BY <1>2, <3>1
    <3>3. Before(r, rest2, i) = Before(list, rest, i - 1)
      <4>1. /\ (i - 1) - 1 \in n + 1 .. L /\ (i - 1) - 1 \in 1 .. L /\ ((i - 1) - 1) + 1 = i - 1
            /\ i # 1 /\ i - 1 # 1
        BY <1>1, <2>4, SMTT(30)
      <4>2. r[i - 1] = list[(i - 1) - 1]
        BY <1>2, <4>1
      <4> QED
        BY <1>4, <4>1, <4>2 DEF Before
    <3> QED
      BY <1>4, <1>5, <1>6, <3>1, <3>2, <3>3
  <2> QED
    BY <1>1, <2>1, <2>2, <2>3, <2>4
<1> QED
  BY <1>1, <1>9 DEF Deltas

\* A process leaves the delta list, and the one behind it waits as long as before.
LEMMA DeltasLeave ==
  ASSUME NEW list \in Seq(Pid), NEW key \in [Pid -> Int], NEW rest \in [Pid -> Int],
         NEW key2 \in [Pid -> Int], NEW rest2 \in [Pid -> Int],
         NEW r \in Seq(Pid), NEW n \in 0 .. Len(r), NEW p \in Pid,
         IsInjective(list), Spliced(list, r, n, p), Deltas(list, key, rest),
         Leaves(list, key, rest, r, key2, rest2, n, p)
  PROVE  Deltas(r, key2, rest2)
<1> DEFINE L == Len(r)
<1>1. L \in Nat /\ n \in 0 .. L /\ Len(list) = L + 1
  BY DEF Spliced
<1>2. /\ list[n + 1] = p
      /\ \A j \in 1 .. n : list[j] = r[j]
      /\ \A j \in n + 1 .. L : list[j + 1] = r[j]
  BY DEF Spliced
<1>3. \A j \in 1 .. L : r[j] \in Pid /\ rest2[r[j]] = rest[r[j]]
  BY InDef DEF Leaves
<1>4. \A j \in 1 .. L + 1 : list[j] \in Pid
  BY <1>1
<1>5. \A j \in 1 .. L + 1 : j # n + 2 => key2[list[j]] = key[list[j]]
  <2>1. \A i, j \in 1 .. L + 1 : list[i] = list[j] => i = j
    BY <1>1, InDef
  <2>2. n < L => n + 2 \in 1 .. L + 1
    BY <1>1
  <2>3. \A q \in Pid : (n < L => q # list[n + 2]) => key2[q] = key[q]
    BY DEF Leaves
  <2> HIDE DEF L
  <2> QED
    BY <1>4, <2>1, <2>2, <2>3
<1>6. \A j \in 1 .. L + 1 :
        /\ key[list[j]] >= 0 /\ rest[list[j]] > 0
        /\ rest[list[j]] = Before(list, rest, j) + key[list[j]]
  BY <1>1 DEF Deltas
<1>7. n < L => key2[list[n + 2]] = key[list[n + 2]] + key[p]
  BY DEF Leaves
<1> HIDE DEF L
<1>8. ASSUME NEW i \in 1 .. L
      PROVE  /\ key2[r[i]] >= 0 /\ rest2[r[i]] > 0
             /\ rest2[r[i]] = Before(r, rest2, i) + key2[r[i]]
  <2>1. CASE i <= n
    <3>1. i \in 1 .. L + 1 /\ i # n + 2 /\ list[i] = r[i]
      <4>1. i \in 1 .. L + 1 /\ i # n + 2 /\ i \in 1 .. n
        BY <1>1, <2>1
      <4> QED
        BY <1>2, <4>1
    <3>2. Before(r, rest2, i) = Before(list, rest, i)
      <4>1. i # 1 => i - 1 \in 1 .. n /\ i - 1 \in 1 .. L
        BY <1>1, <2>1
      <4> QED
        BY <1>2, <1>3, <4>1 DEF Before
    <3> QED
      BY <1>3, <1>5, <1>6, <3>1, <3>2
  <2>2. CASE i = n + 1
    <3>1. /\ i \in n + 1 .. L /\ n + 1 \in 1 .. L + 1 /\ n + 2 \in 1 .. L + 1 /\ n < L
          /\ i + 1 = n + 2 /\ (n + 2) - 1 = n + 1 /\ n + 2 # 1
      BY <1>1, <2>2
    <3>2. r[i] = list[n + 2]
      BY <1>2, <3>1
    <3>3. Before(list, rest, n + 2) = rest[p]
      BY <1>2, <3>1 DEF Before
    <3>4. Before(r, rest2, i) = Before(list, rest, n + 1)
      <4>1. i # 1 => i - 1 \in 1 .. n /\ i - 1 \in 1 .. L
        BY <1>1, <2>2
      <4> QED
        BY <1>2, <1>3, <2>2, <4>1 DEF Before
    <3>5. /\ rest[list[n + 2]] = rest[p] + key[list[n + 2]]
          /\ key[list[n + 2]] >= 0 /\ rest[list[n + 2]] > 0
      BY <1>6, <3>1, <3>3
    <3>6. rest[p] = Before(list, rest, n + 1) + key[p] /\ key[p] >= 0
      BY <1>2, <1>6, <3>1
    <3>7. Before(list, rest, n + 1) \in Int
      <4>1. n # 0 => n \in 1 .. L + 1
        BY <1>1
      <4> QED
        BY <1>4, <4>1, SMTT(30) DEF Before
    <3>8. rest2[list[n + 2]] = rest[list[n + 2]] /\ key2[list[n + 2]] = key[list[n + 2]] + key[p]
      BY <1>3, <1>7, <3>1, <3>2
    <3>9. key[list[n + 2]] \in Int /\ rest[list[n + 2]] \in Int /\ key[p] \in Int
      BY <1>4, <3>1
    <3>10. /\ key2[list[n + 2]] >= 0 /\ rest[list[n + 2]] > 0
           /\ rest[list[n + 2]] = Before(list, rest, n + 1) + key2[list[n + 2]]
      <4> DEFINE t == rest[list[n + 2]]
                 k == key[list[n + 2]]
                 h == key2[list[n + 2]]
                 m == key[p]
                 u == rest[p]
                 b == Before(list, rest, n + 1)
      <4>1. /\ t \in Int /\ k \in Int /\ b \in Int /\ m \in Int
            /\ t = u + k /\ u = b + m /\ h = k + m /\ k >= 0 /\ m >= 0 /\ t > 0
        BY <3>5, <3>6, <3>7, <3>8, <3>9
      <4> HIDE DEF t, k, h, m, u, b
      <4>2. h >= 0 /\ t > 0 /\ t = b + h
        BY <4>1
      <4> QED
        BY <4>2 DEF t, h, b
    <3> QED
      BY <3>2, <3>4, <3>8, <3>10
  <2>3. CASE i > n + 1
    <3>1. i \in n + 1 .. L /\ i + 1 \in 1 .. L + 1 /\ i + 1 # n + 2
      BY <1>1, <2>3
    <3>2. r[i] = list[i + 1]
      BY <1>2, <3>1
    <3>3. Before(r, rest2, i) = Before(list, rest, i + 1)
      <4>1. /\ i - 1 \in n + 1 .. L /\ i - 1 \in 1 .. L /\ (i - 1) + 1 = i /\ (i + 1) - 1 = i
            /\ i # 1 /\ i + 1 # 1
        BY <1>1, <2>3, SMTT(30)
      <4>2. list[i] = r[i - 1]
        BY <1>2, <4>1
      <4> QED
        BY <1>3, <4>1, <4>2 DEF Before
    <3>4. rest2[r[i]] = rest[list[i + 1]] /\ key2[list[i + 1]] = key[list[i + 1]]
      <4>1. rest2[r[i]] = rest[r[i]]
        BY <1>3
      <4> QED
        BY <1>5, <3>1, <3>2, <4>1
    <3>5. /\ key[list[i + 1]] >= 0 /\ rest[list[i + 1]] > 0
          /\ rest[list[i + 1]] = Before(list, rest, i + 1) + key[list[i + 1]]
      BY <1>6, <3>1
    <3> QED
      BY <3>2, <3>3, <3>4, <3>5
  <2> QED
    BY <1>1, <2>1, <2>2, <2>3
<1> QED
  BY <1>1, <1>8 DEF Deltas, L

\* What is left of a list when its first n are taken away.
LEMMA SuffixFacts ==
  ASSUME NEW list \in Seq(Pid), NEW n \in 0 .. Len(list)
  PROVE  LET r == SubSeq(list, n + 1, Len(list)) IN
         /\ r \in Seq(Pid) /\ Len(r) = Len(list) - n
         /\ \A i \in 1 .. Len(list) - n : r[i] = list[n + i]
OBVIOUS

\* A clock tick: the first key is counted down, and those at the front that have
\* nothing left leave.
LEMMA DeltasCount ==
  ASSUME NEW list \in Seq(Pid), NEW key \in [Pid -> Int], NEW rest \in [Pid -> Int],
         NEW key2 \in [Pid -> Int], NEW rest2 \in [Pid -> Int],
         NEW r \in Seq(Pid), NEW due \in 0 .. Len(list),
         Deltas(list, key, rest), CountsDown(list, key, rest, r, key2, rest2, due)
  PROVE  Deltas(r, key2, rest2)
<1> DEFINE L == Len(list)
<1>1. L \in Nat /\ due \in 0 .. L
  OBVIOUS
<1>2. r \in Seq(Pid) /\ Len(r) = L - due /\ \A i \in 1 .. L - due : r[i] = list[due + i]
  BY SuffixFacts DEF CountsDown
<1>3. \A j \in 1 .. L :
        /\ key[list[j]] >= 0 /\ rest[list[j]] > 0 /\ list[j] \in Pid
        /\ rest[list[j]] = Before(list, rest, j) + key[list[j]]
        /\ key[list[j]] \in Int /\ rest[list[j]] \in Int
  <2>1. \A j \in 1 .. L : list[j] \in Pid
    OBVIOUS
  <2> QED
    BY <2>1 DEF Deltas
<1>4. \A j \in 1 .. L : key2[list[j]] = IF j = 1 THEN key[list[j]] - 1 ELSE key[list[j]]
  BY DEF CountsDown
<1>5. /\ \A i \in 1 .. due : key2[list[i]] <= 0
      /\ due < L => key2[list[due + 1]] > 0
      /\ \A q \in Pid : In(r, q) /\ rest[q] > 0 => rest2[q] = rest[q] - 1
  BY DEF CountsDown
<1> HIDE DEF L
<1>6. ASSUME NEW i \in 1 .. L - due
      PROVE  /\ due + i \in 1 .. L /\ r[i] = list[due + i]
             /\ rest2[list[due + i]] = rest[list[due + i]] - 1
  <2>1. due + i \in 1 .. L
    BY <1>1
  <2>2. r[i] = list[due + i] /\ In(r, r[i])
    BY <1>2, InDef
  <2> QED
    BY <1>3, <1>5, <2>1, <2>2
<1>7. \A n \in Nat : n \in 1 .. L => IF n <= due THEN rest[list[n]] = 1 ELSE rest[list[n]] > 1
  <2> DEFINE T == {n \in Nat : n \in 1 .. L => IF n <= due THEN rest[list[n]] = 1 ELSE rest[list[n]] > 1}
  <2>1. 0 \in T
    BY <1>1
  <2>2. ASSUME NEW n \in Nat, n \in T
        PROVE  n + 1 \in T
    <3> SUFFICES ASSUME n + 1 \in 1 .. L
                 PROVE  IF n + 1 <= due THEN rest[list[n + 1]] = 1 ELSE rest[list[n + 1]] > 1
      OBVIOUS
    <3>1. /\ rest[list[n + 1]] > 0 /\ key[list[n + 1]] >= 0
          /\ rest[list[n + 1]] = Before(list, rest, n + 1) + key[list[n + 1]]
          /\ key[list[n + 1]] \in Int /\ rest[list[n + 1]] \in Int
          /\ key2[list[n + 1]] = IF n + 1 = 1 THEN key[list[n + 1]] - 1 ELSE key[list[n + 1]]
      BY <1>3, <1>4
    <3>2. n + 1 <= due => key2[list[n + 1]] <= 0
      BY <1>1, <1>5
    <3>3. n = due => key2[list[n + 1]] > 0
      BY <1>1, <1>5
    <3>4. CASE n = 0
      <4>1. Before(list, rest, n + 1) = 0 /\ key2[list[n + 1]] = key[list[n + 1]] - 1
        BY <3>1, <3>4 DEF Before
      <4> QED
        BY <1>1, <3>1, <3>2, <3>3, <3>4, <4>1, SMTT(30)
    <3>5. CASE n # 0
      <4>1. n \in 1 .. L /\ (n + 1) - 1 = n /\ n + 1 # 1
        BY <1>1, <3>5
      <4>2. IF n <= due THEN rest[list[n]] = 1 ELSE rest[list[n]] > 1
        BY <2>2, <4>1
      <4>3. /\ Before(list, rest, n + 1) = rest[list[n]] /\ key2[list[n + 1]] = key[list[n + 1]]
            /\ rest[list[n]] \in Int
        BY <1>3, <3>1, <4>1 DEF Before
      <4>4. n + 1 <= due => rest[list[n]] = 1 /\ key[list[n + 1]] <= 0
        BY <1>1, <3>2, <4>2, <4>3
      <4>5. ~(n + 1 <= due) => rest[list[n]] > 1 \/ (rest[list[n]] = 1 /\ key[list[n + 1]] > 0)
        BY <1>1, <3>3, <4>2, <4>3
      <4>6. rest[list[n + 1]] = rest[list[n]] + key[list[n + 1]] /\ key[list[n + 1]] >= 0
            /\ key[list[n + 1]] \in Int
        BY <3>1, <4>3
      <4> DEFINE t == rest[list[n]]
                 k == key[list[n + 1]]
                 u == rest[list[n + 1]]
      <4>7. /\ t \in Int /\ k \in Int /\ u = t + k /\ k >= 0
            /\ n + 1 <= due => t = 1 /\ k <= 0
            /\ ~(n + 1 <= due) => t > 1 \/ (t = 1 /\ k > 0)
        BY <4>3, <4>4, <4>5, <4>6
      <4> HIDE DEF t, k, u
      <4>8. IF n + 1 <= due THEN u = 1 ELSE u > 1
        BY <4>7
      <4> QED
        BY <4>8 DEF u
    <3> QED
      BY <3>4, <3>5
  <2> HIDE DEF T
  <2>3. Nat \subseteq T
    BY <2>1, <2>2, Induct
  <2> QED
    BY <2>3 DEF T
<1>8. ASSUME NEW i \in 1 .. L - due
      PROVE  /\ key2[r[i]] >= 0 /\ rest2[r[i]] > 0
             /\ rest2[r[i]] = Before(r, rest2, i) + key2[r[i]]
  <2> DEFINE j == due + i
  <2>1. j \in 1 .. L /\ ~(j <= due) /\ j \in Nat
    BY <1>1
  <2>2. r[i] = list[j] /\ rest2[list[j]] = rest[list[j]] - 1
    BY <1>6
  <2>3. i # 1 => i - 1 \in 1 .. L - due /\ due + (i - 1) = j - 1 /\ j - 1 \in 1 .. L /\ j - 1 \in Nat
    BY <1>1
  <2>4. i = 1 => j - 1 = due
    BY <1>1
  <2> HIDE DEF j
  <2>5. rest[list[j]] > 1
    BY <1>7, <2>1
  <2>6. /\ rest[list[j]] = Before(list, rest, j) + key[list[j]] /\ key[list[j]] >= 0
        /\ key2[list[j]] = IF j = 1 THEN key[list[j]] - 1 ELSE key[list[j]]
        /\ key[list[j]] \in Int /\ rest[list[j]] \in Int
    BY <1>3, <1>4, <2>1
  <2>7. CASE i # 1
    <3>1. r[i - 1] = list[j - 1] /\ rest2[list[j - 1]] = rest[list[j - 1]] - 1
      BY <1>6, <2>3, <2>7
    <3>2. /\ Before(r, rest2, i) = rest[list[j - 1]] - 1 /\ Before(list, rest, j) = rest[list[j - 1]]
          /\ j # 1
      <4>1. j # 1
        BY <2>3, <2>7
      <4> QED
        BY <2>7, <3>1, <4>1 DEF Before
    <3>3. rest[list[j - 1]] \in Int
      BY <1>3, <2>3, <2>7
    <3>4. /\ key2[list[j]] >= 0 /\ rest[list[j]] - 1 > 0
          /\ rest[list[j]] - 1 = (rest[list[j - 1]] - 1) + key2[list[j]]
      <4> DEFINE t == rest[list[j]]
                 k == key[list[j]]
                 h == key2[list[j]]
                 u == rest[list[j - 1]]
      <4>1. t = u + k /\ h = k /\ k >= 0 /\ t > 1 /\ t \in Int /\ u \in Int /\ k \in Int
        BY <2>5, <2>6, <3>2, <3>3
      <4> HIDE DEF t, k, h, u
      <4>2. h >= 0 /\ t - 1 > 0 /\ t - 1 = (u - 1) + h
        BY <4>1
      <4> QED
        BY <4>2 DEF t, h, u
    <3> QED
      BY <2>2, <3>2, <3>4
  <2>8. CASE i = 1 /\ j = 1
    <3>1. Before(r, rest2, i) = 0 /\ Before(list, rest, j) = 0
      BY <2>8 DEF Before
    <3>2. /\ key2[list[j]] >= 0 /\ rest[list[j]] - 1 > 0 /\ rest[list[j]] - 1 = 0 + key2[list[j]]
      BY <2>5, <2>6, <2>8, <3>1
    <3> QED
      BY <2>2, <3>1, <3>2
  <2>9. CASE i = 1 /\ j # 1
    <3>1. Before(r, rest2, i) = 0 /\ Before(list, rest, j) = rest[list[j - 1]]
      BY <2>9 DEF Before
    <3>2. j - 1 \in 1 .. L /\ j - 1 \in Nat /\ j - 1 <= due
      BY <1>1, <2>1, <2>4, <2>9
    <3>3. rest[list[j - 1]] = 1
      BY <1>7, <3>2
    <3>4. /\ key2[list[j]] >= 0 /\ rest[list[j]] - 1 > 0 /\ rest[list[j]] - 1 = 0 + key2[list[j]]
      <4> DEFINE t == rest[list[j]]
                 k == key[list[j]]
                 h == key2[list[j]]
      <4>1. t = 1 + k /\ h = k /\ k >= 0 /\ t > 1 /\ t \in Int /\ k \in Int
        BY <2>5, <2>6, <2>9, <3>1, <3>3
      <4> HIDE DEF t, k, h
      <4>2. h >= 0 /\ t - 1 > 0 /\ t - 1 = 0 + h
        BY <4>1
      <4> QED
        BY <4>2 DEF t, h
    <3> QED
      BY <2>2, <3>1, <3>4
  <2> QED
    BY <2>7, <2>8, <2>9
<1> QED
  BY <1>2, <1>8 DEF Deltas

-------------------------------------------------------------------------------
(* The process manager *)

\* The state of the scheduler is one.
LEMMA NowTyped ==
  ASSUME TypeOK
  PROVE  /\ Now \in Sched /\ prprio \in [Pid -> Int]
         /\ Now.state = prstate /\ Now.key = qkey /\ Now.list = readylist
         /\ Now.sleep = sleepq /\ Now.cur = currpid /\ Now.slice = preempt
<1>1. prprio \in [Pid -> Int]
  <2>1. Prio \cup {0} \subseteq Int
    BY KernelAssumption
  <2> QED
    BY <2>1 DEF TypeOK
<1> QED
  BY <1>1 DEF TypeOK, Now, Sched

\* The fields of a state of the scheduler make the next one.
LEMMA Settled ==
  ASSUME NEW x, Becomes(x), Runs(x)
  PROVE  /\ Now' = x /\ SchedTypes' /\ Scheduled'
         /\ prstate' = x.state /\ qkey' = x.key /\ sleepq' = x.sleep /\ currpid' = x.cur
         /\ readylist' = x.list
         /\ (Ordered(x) /\ Highest(x) /\ prprio' = prprio) => InOrder'
<1>1. x \in Sched
  BY DEF Runs
<1>2. /\ prstate' = x.state /\ qkey' = x.key /\ readylist' = x.list /\ sleepq' = x.sleep
      /\ currpid' = x.cur /\ preempt' = x.slice
  BY DEF Becomes
<1>3. SchedTypes'
  BY <1>1, <1>2, SchedFields DEF SchedTypes
<1>4. Now' = x
  <2>1. x = [state |-> x.state, key |-> x.key, list |-> x.list, sleep |-> x.sleep,
             cur |-> x.cur, slice |-> x.slice]
    BY <1>1 DEF Sched
  <2> QED
    BY <1>2, <2>1 DEF Now
<1>5. Scheduled'
  BY <1>4 DEF Scheduled, Runs, Linked, OnItsList, Sched
<1>6. (Ordered(x) /\ Highest(x) /\ prprio' = prprio) => InOrder'
  BY <1>4 DEF InOrder, Ordered, Highest
<1> QED
  BY <1>2, <1>3, <1>4, <1>5, <1>6

\* Where nobody begins or ends to wait, the semaphores' queues still match.
LEMMA QueuesKept ==
  ASSUME QueuesMatch, CountsWaiting, UNCHANGED <<prsem, semVars>>,
         \A p \in Pid : prstate'[p] = "wait" <=> prstate[p] = "wait"
  PROVE  QueuesMatch' /\ CountsWaiting'
  BY DEF QueuesMatch, CountsWaiting, semVars

\* Where each process is, between two steps.
LEMMA NowLinked ==
  ASSUME TypeOK, Scheduled
  PROVE  /\ \A p \in Pid : /\ prstate[p] = "ready" <=> In(readylist, p)
                           /\ prstate[p] \in Asleep <=> In(sleepq, p)
                           /\ prstate[p] = "curr" <=> p = currpid
         /\ IsInjective(readylist) /\ IsInjective(sleepq)
         /\ prstate[Null] \in Eligible
         /\ Runs(Now) /\ Linked(Now, {})
<1>1. /\ Now.state = prstate /\ Now.key = qkey /\ Now.list = readylist
      /\ Now.sleep = sleepq /\ Now.cur = currpid
  BY NowTyped
<1>2. Runs(Now) /\ Linked(Now, {}) /\ Now.state[Now.cur] = "curr"
  BY DEF Scheduled, Runs
<1>3. \A p \in Pid : OnItsList(Now, p)
  BY <1>2 DEF Linked
<1> QED
  BY <1>1, <1>2, <1>3 DEF Linked, OnItsList

\* A process that is on neither list may be on its way.
LEMMA OnItsWay ==
  ASSUME TypeOK, Scheduled, NEW T \in SUBSET Pid,
         \A p \in T : prstate[p] # "ready" /\ ~(prstate[p] \in Asleep)
  PROVE  Linked(Now, T) /\ OnNone(Now, T)
<1>1. /\ Now.state = prstate /\ Now.key = qkey /\ Now.list = readylist
      /\ Now.sleep = sleepq /\ Now.cur = currpid
  BY NowTyped
<1>2. OnNone(Now, T)
  BY <1>1, NowLinked DEF OnNone
<1>3. Linked(Now, {})
  BY NowLinked
<1> QED
  BY <1>2, <1>3 DEF Linked

\* yield, and whatever else only calls resched.
LEMMA ReschedStep ==
  ASSUME TypeOK, Scheduled, Becomes(Resched(Now))
  PROVE  Reschedules({}) /\ SleepersKept
<1> DEFINE x == Resched(Now)
<1>1. /\ Now \in Sched /\ prprio \in [Pid -> Int]
      /\ Now.state = prstate /\ Now.key = qkey /\ Now.list = readylist
      /\ Now.sleep = sleepq /\ Now.cur = currpid
  BY NowTyped
<1>2. /\ Runs(x) /\ Alike(prstate, x.state) /\ x.sleep = sleepq
      /\ \A p \in Pid : ~(prstate[p] \in Eligible) => x.key[p] = qkey[p]
      /\ Ordered(Now) => Ordered(x) /\ Highest(x)
  BY <1>1, NowLinked, ReschedFacts
<1> HIDE DEF x
<1>3. /\ SchedTypes' /\ Scheduled'
      /\ prstate' = x.state /\ qkey' = x.key /\ sleepq' = x.sleep
      /\ (Ordered(x) /\ Highest(x) /\ prprio' = prprio) => InOrder'
  BY <1>2, Settled DEF x
<1>4. Stay({})
  BY <1>2, <1>3 DEF Stay, Alike
<1>5. Reschedules({})
  BY <1>2, <1>3, <1>4 DEF Reschedules, InOrder
<1>6. SleepersKept
  BY <1>2, <1>3, NowLinked DEF SleepersKept, Eligible, Asleep
<1> QED
  BY <1>5, <1>6

\* The end of the clock handler.
LEMMA EndOfTickStep ==
  ASSUME TypeOK, Scheduled, Becomes(EndOfTick(Now))
  PROVE  Reschedules({}) /\ SleepersKept
<1> DEFINE x == EndOfTick(Now)
<1>1. /\ Now \in Sched /\ prprio \in [Pid -> Int]
      /\ Now.state = prstate /\ Now.key = qkey /\ Now.list = readylist
      /\ Now.sleep = sleepq /\ Now.cur = currpid
  BY NowTyped
<1>2. /\ Runs(x) /\ Alike(prstate, x.state) /\ x.sleep = sleepq
      /\ \A p \in Pid : In(sleepq, p) => x.key[p] = qkey[p]
      /\ Ordered(Now) /\ Highest(Now) => Ordered(x) /\ Highest(x)
  BY <1>1, NowLinked, EndOfTickFacts
<1> HIDE DEF x
<1>3. /\ SchedTypes' /\ Scheduled'
      /\ prstate' = x.state /\ qkey' = x.key /\ sleepq' = x.sleep
      /\ (Ordered(x) /\ Highest(x) /\ prprio' = prprio) => InOrder'
  BY <1>2, Settled DEF x
<1>4. Stay({})
  BY <1>2, <1>3 DEF Stay, Alike
<1>5. Reschedules({})
  BY <1>2, <1>3, <1>4 DEF Reschedules, InOrder
<1>6. SleepersKept
  BY <1>2, <1>3 DEF SleepersKept
<1> QED
  BY <1>5, <1>6

\* A process that is on no list is made ready.
LEMMA ReadyStep ==
  ASSUME TypeOK, Scheduled, NEW p \in Pid, Becomes(Ready(Now, p)),
         prstate[p] # "ready", ~(prstate[p] \in Asleep)
  PROVE  Reschedules({p}) /\ SleepersKept /\ prstate'[p] \in Eligible
<1> DEFINE x == Ready(Now, p)
<1>1. /\ Now \in Sched /\ prprio \in [Pid -> Int]
      /\ Now.state = prstate /\ Now.key = qkey /\ Now.list = readylist
      /\ Now.sleep = sleepq /\ Now.cur = currpid
  BY NowTyped
<1>2. Linked(Now, {p}) /\ OnNone(Now, {p})
  BY OnItsWay
<1>3. /\ Runs(x) /\ x.sleep = sleepq /\ x.state[p] \in Eligible
      /\ \A q \in Pid \ {p} : x.state[q] = prstate[q]
                              \/ (x.state[q] \in Eligible /\ prstate[q] \in Eligible)
      /\ \A q \in Pid : In(sleepq, q) => x.key[q] = qkey[q]
      /\ Ordered(Now) => Ordered(x) /\ Highest(x)
  BY <1>1, <1>2, ReadyFacts
<1> HIDE DEF x
<1>4. /\ SchedTypes' /\ Scheduled'
      /\ prstate' = x.state /\ qkey' = x.key /\ sleepq' = x.sleep
      /\ (Ordered(x) /\ Highest(x) /\ prprio' = prprio) => InOrder'
  BY <1>3, Settled DEF x
<1>5. Stay({p})
  BY <1>3, <1>4 DEF Stay
<1>6. Reschedules({p})
  BY <1>3, <1>4, <1>5 DEF Reschedules, InOrder
<1>7. SleepersKept
  BY <1>3, <1>4 DEF SleepersKept
<1> QED
  BY <1>3, <1>4, <1>6, <1>7

\* The current process blocks.
LEMMA LeaveStep ==
  ASSUME TypeOK, Scheduled, NEW state \in {"susp", "wait", "recv", "free"},
         Becomes(Leave(Now, state)), currpid # Null
  PROVE  Reschedules({currpid}) /\ SleepersKept /\ prstate'[currpid] = state
<1> DEFINE x == Leave(Now, state)
<1>1. /\ Now \in Sched /\ prprio \in [Pid -> Int]
      /\ Now.state = prstate /\ Now.key = qkey /\ Now.list = readylist
      /\ Now.sleep = sleepq /\ Now.cur = currpid /\ currpid \in Pid
  BY NowTyped DEF TypeOK
<1>2. prstate[currpid] = "curr" /\ ~In(readylist, currpid) /\ ~In(sleepq, currpid)
  BY <1>1, NowLinked DEF Asleep
<1>3. Linked(Now, {currpid}) /\ state \in States \ Eligible /\ ~(state \in Asleep)
  BY <1>1, <1>2, OnItsWay DEF Asleep, States, Eligible
<1>4. /\ Runs(x) /\ x.sleep = sleepq /\ x.state[currpid] = state
      /\ \A q \in Pid \ {currpid} : x.state[q] = prstate[q]
                              \/ (x.state[q] \in Eligible /\ prstate[q] \in Eligible)
      /\ \A q \in Pid : In(sleepq, q) => x.key[q] = qkey[q]
      /\ Ordered(Now) => Ordered(x) /\ Highest(x)
  BY <1>1, <1>2, <1>3, LeaveFacts
<1> HIDE DEF x
<1>5. /\ SchedTypes' /\ Scheduled'
      /\ prstate' = x.state /\ qkey' = x.key /\ sleepq' = x.sleep
      /\ (Ordered(x) /\ Highest(x) /\ prprio' = prprio) => InOrder'
  BY <1>4, Settled DEF x
<1>6. Stay({currpid})
  BY <1>4, <1>5 DEF Stay
<1>7. Reschedules({currpid})
  BY <1>4, <1>5, <1>6 DEF Reschedules, InOrder
<1>8. SleepersKept
  BY <1>4, <1>5 DEF SleepersKept
<1> QED
  BY <1>4, <1>5, <1>7, <1>8

\* The current process enters the delta list.
LEMMA SleepStep ==
  ASSUME TypeOK, Scheduled, NEW state \in Asleep, NEW d \in Nat,
         Becomes(Leave(EnterSleep(Now, d), state)), currpid # Null
  PROVE  /\ Reschedules({currpid}) /\ prstate'[currpid] = state
         /\ sleepq' = EnterSleep(Now, d).sleep
         /\ \A q \in Pid : In(sleepq', q) => qkey'[q] = EnterSleep(Now, d).key[q]
<1> DEFINE e == EnterSleep(Now, d)
           x == Leave(e, state)
<1>1. /\ Now \in Sched /\ prprio \in [Pid -> Int]
      /\ Now.state = prstate /\ Now.key = qkey /\ Now.list = readylist
      /\ Now.sleep = sleepq /\ Now.cur = currpid /\ currpid \in Pid
  BY NowTyped DEF TypeOK
<1>2. /\ e \in Sched /\ Linked(e, {currpid}) /\ ~In(e.list, currpid)
      /\ e.state = prstate /\ e.cur = currpid
      /\ \A q : In(e.sleep, q) <=> In(sleepq, q) \/ q = currpid
      /\ Ordered(Now) => Ordered(e)
  BY <1>1, NowLinked, EnterSleepFacts
<1>3. state \in States \ Eligible /\ In(e.sleep, currpid)
  BY <1>2 DEF Asleep, States, Eligible
<1> HIDE DEF e
<1>4. /\ Runs(x) /\ x.sleep = e.sleep /\ x.state[currpid] = state
      /\ \A q \in Pid \ {currpid} : x.state[q] = prstate[q]
                              \/ (x.state[q] \in Eligible /\ prstate[q] \in Eligible)
      /\ \A q \in Pid : In(e.sleep, q) => x.key[q] = e.key[q]
      /\ Ordered(e) => Ordered(x) /\ Highest(x)
  BY <1>1, <1>2, <1>3, LeaveFacts
<1> HIDE DEF x
<1>5. Becomes(x)
  BY DEF x, e
<1>6. /\ SchedTypes' /\ Scheduled'
      /\ prstate' = x.state /\ qkey' = x.key /\ sleepq' = x.sleep
      /\ (Ordered(x) /\ Highest(x) /\ prprio' = prprio) => InOrder'
  BY <1>4, <1>5, Settled
<1>7. Stay({currpid})
  BY <1>4, <1>6 DEF Stay
<1>8. Reschedules({currpid})
  BY <1>2, <1>4, <1>6, <1>7 DEF Reschedules, InOrder
<1> QED
  BY <1>4, <1>6, <1>8 DEF e

\* A process that receives with a time limit is sent a message: it leaves the delta
\* list and is ready.
LEMMA TimedWakeStep ==
  ASSUME TypeOK, Scheduled, NEW p \in Pid, prstate[p] \in Asleep,
         Becomes(Ready(Unsleep(Now, p), p))
  PROVE  /\ Reschedules({p}) /\ prstate'[p] \in Eligible
         /\ sleepq' = Unsleep(Now, p).sleep
         /\ \A q \in Pid : In(sleepq', q) => qkey'[q] = Unsleep(Now, p).key[q]
<1> DEFINE u == Unsleep(Now, p)
           x == Ready(u, p)
<1>1. /\ Now \in Sched /\ prprio \in [Pid -> Int]
      /\ Now.state = prstate /\ Now.key = qkey /\ Now.list = readylist
      /\ Now.sleep = sleepq /\ Now.cur = currpid /\ currpid \in Pid
  BY NowTyped DEF TypeOK
<1>2. In(sleepq, p) /\ ~In(readylist, p)
  BY NowLinked DEF Asleep
<1>3. Linked(Now, {p})
  BY NowLinked DEF Linked
<1>4. /\ u \in Sched /\ Linked(u, {p}) /\ OnNone(u, {p}) /\ u.state = prstate
      /\ Ordered(Now) => Ordered(u)
  BY <1>1, <1>2, <1>3, UnsleepFacts
<1> HIDE DEF u
<1>5. /\ Runs(x) /\ x.sleep = u.sleep /\ x.state[p] \in Eligible
      /\ \A q \in Pid \ {p} : x.state[q] = prstate[q]
                              \/ (x.state[q] \in Eligible /\ prstate[q] \in Eligible)
      /\ \A q \in Pid : In(u.sleep, q) => x.key[q] = u.key[q]
      /\ Ordered(u) => Ordered(x) /\ Highest(x)
  BY <1>1, <1>4, ReadyFacts
<1> HIDE DEF x
<1>6. Becomes(x)
  BY DEF x, u
<1>7. /\ SchedTypes' /\ Scheduled'
      /\ prstate' = x.state /\ qkey' = x.key /\ sleepq' = x.sleep
      /\ (Ordered(x) /\ Highest(x) /\ prprio' = prprio) => InOrder'
  BY <1>5, <1>6, Settled
<1>8. Stay({p})
  BY <1>5, <1>7 DEF Stay
<1>9. Reschedules({p})
  BY <1>4, <1>5, <1>7, <1>8 DEF Reschedules, InOrder
<1> QED
  BY <1>5, <1>7, <1>9 DEF u

\* Nothing happens to the scheduler.
LEMMA IdleStep ==
  ASSUME TypeOK, Scheduled, UNCHANGED schedVars
  PROVE  Reschedules({}) /\ SleepersKept
<1>1. Now' = Now
  BY DEF Now, schedVars
<1>2. Scheduled'
  BY <1>1 DEF Scheduled, Runs, Linked, OnItsList, Sched
<1>3. SchedTypes'
  BY DEF SchedTypes, TypeOK, schedVars
<1>4. InOrder /\ prprio' = prprio => InOrder'
  BY <1>1 DEF InOrder, Ordered, Highest
<1>5. Stay({})
  BY DEF Stay, schedVars
<1>6. SleepersKept
  BY DEF SleepersKept, schedVars
<1> QED
  BY <1>2, <1>3, <1>4, <1>5, <1>6 DEF Reschedules

\* No change at all is one where the state is said to become what it is.
LEMMA SameStep ==
  ASSUME TypeOK, Becomes(Now)
  PROVE  UNCHANGED schedVars
  BY NowTyped DEF Becomes, schedVars

\* send wakes the receiver if it waits for a message, with a time limit or without.
LEMMA WokenStep ==
  ASSUME TypeOK, Scheduled, NEW p \in Pid, Becomes(Woken(p))
  PROVE  /\ Reschedules({p})
         /\ prstate[p] \in {"recv", "rectim"} => prstate'[p] \in Eligible
         /\ ~(prstate[p] \in {"recv", "rectim"}) => Stay({})
         /\ prstate[p] # "rectim" => SleepersKept
<1>1. CASE prstate[p] = "recv"
  <2>1. Becomes(Ready(Now, p))
    BY <1>1 DEF Woken
  <2> QED
    BY <1>1, <2>1, ReadyStep DEF Asleep
<1>2. CASE prstate[p] = "rectim"
  <2>1. Becomes(Ready(Unsleep(Now, p), p))
    BY <1>2 DEF Woken
  <2> QED
    BY <1>2, <2>1, TimedWakeStep DEF Asleep
<1>3. CASE ~(prstate[p] \in {"recv", "rectim"})
  <2>1. UNCHANGED schedVars
    BY <1>3, SameStep DEF Woken
  <2>2. Reschedules({}) /\ SleepersKept
    BY <2>1, IdleStep
  <2> QED
    BY <1>3, <2>2 DEF Reschedules, Stay
<1> QED
  BY <1>1, <1>2, <1>3

\* Some of those who wait for a semaphore are made ready.
LEMMA ReadyAllStep ==
  ASSUME TypeOK, Scheduled, NEW list \in Seq(Pid), IsInjective(list),
         Becomes(ReadyAll(Now, list)), \A p \in Pid : In(list, p) => prstate[p] = "wait"
  PROVE  /\ Reschedules(ToSet(list)) /\ SleepersKept
         /\ \A p \in Pid : In(list, p) => prstate'[p] \in Eligible
<1> DEFINE x == ReadyAll(Now, list)
           T == ToSet(list)
<1>1. /\ Now \in Sched /\ prprio \in [Pid -> Int]
      /\ Now.state = prstate /\ Now.key = qkey /\ Now.list = readylist
      /\ Now.sleep = sleepq /\ Now.cur = currpid /\ currpid \in Pid
  BY NowTyped DEF TypeOK
<1>2. T \in SUBSET Pid /\ \A p \in T : In(list, p)
  BY DEF ToSet, In
<1>3. Linked(Now, T) /\ OnNone(Now, T)
  <2>1. \A p \in T : prstate[p] # "ready" /\ ~(prstate[p] \in Asleep)
    BY <1>2 DEF Asleep
  <2> HIDE DEF T
  <2> QED
    BY <1>2, <2>1, OnItsWay
<1>4. prstate[currpid] = "curr"
  BY <1>1, NowLinked
<1>5. /\ Runs(x) /\ x.sleep = sleepq
      /\ \A p \in Pid : IF In(list, p) THEN x.state[p] \in Eligible
                        ELSE x.state[p] = prstate[p]
                             \/ (x.state[p] \in Eligible /\ prstate[p] \in Eligible)
      /\ \A p \in Pid : In(sleepq, p) => x.key[p] = qkey[p]
      /\ Ordered(Now) /\ Highest(Now) => Ordered(x) /\ Highest(x)
  BY <1>1, <1>3, <1>4, ReadyAllFacts
<1> HIDE DEF x
<1>6. /\ SchedTypes' /\ Scheduled'
      /\ prstate' = x.state /\ qkey' = x.key /\ sleepq' = x.sleep
      /\ (Ordered(x) /\ Highest(x) /\ prprio' = prprio) => InOrder'
  BY <1>5, Settled DEF x
<1>7. Stay(T)
  BY <1>5, <1>6 DEF Stay, In
<1>8. Reschedules(T)
  BY <1>5, <1>6, <1>7 DEF Reschedules, InOrder
<1>9. SleepersKept
  BY <1>5, <1>6 DEF SleepersKept
<1> QED
  BY <1>5, <1>6, <1>8, <1>9

\* suspend of another process, and kill of a ready one: it leaves the ready list.
LEMMA UnlinkStep ==
  ASSUME TypeOK, Scheduled, NEW p \in Pid \ {Null}, prstate[p] = "ready",
         NEW state \in {"susp", "free"},
         Becomes([Now EXCEPT !.state[p] = state, !.list = Unlink(@, p)])
  PROVE  Reschedules({p}) /\ SleepersKept /\ prstate'[p] = state
<1> DEFINE x == [Now EXCEPT !.state[p] = state, !.list = Unlink(@, p)]
<1>1. /\ Now \in Sched /\ prprio \in [Pid -> Int]
      /\ Now.state = prstate /\ Now.key = qkey /\ Now.list = readylist
      /\ Now.sleep = sleepq /\ Now.cur = currpid /\ currpid \in Pid
      /\ prstate \in [Pid -> States] /\ qkey \in [Pid -> Int] /\ readylist \in Seq(Pid)
  BY NowTyped DEF TypeOK
<1>2. In(readylist, p) /\ p # currpid /\ ~In(sleepq, p)
  BY NowLinked DEF Asleep
<1>3. PICK n \in 0 .. Len(readylist) - 1 :
        /\ Unlink(readylist, p) \in Seq(Pid)
        /\ Len(Unlink(readylist, p)) = Len(readylist) - 1
        /\ Spliced(readylist, Unlink(readylist, p), n, p)
  BY <1>1, <1>2, UnlinkSplices
<1>4. x = [Now EXCEPT !.state = [prstate EXCEPT ![p] = state], !.list = Unlink(readylist, p)]
  BY <1>1 DEF Sched
<1>5. [prstate EXCEPT ![p] = state] \in [Pid -> States]
  BY <1>1 DEF States
<1> HIDE DEF x
<1>6. /\ x \in Sched /\ x.state = [prstate EXCEPT ![p] = state]
      /\ x.key = qkey /\ x.list = Unlink(readylist, p) /\ x.sleep = sleepq /\ x.cur = currpid
  BY <1>1, <1>3, <1>4, <1>5 DEF Sched
<1>7. \A q \in Pid : x.state[q] = IF q = p THEN state ELSE prstate[q]
  BY <1>1, <1>6
<1>8. /\ \A q : In(readylist, q) <=> In(x.list, q) \/ q = p
      /\ IsInjective(readylist) <=> IsInjective(x.list) /\ ~In(x.list, p)
  <2> DEFINE l == Unlink(readylist, p)
  <2>1. l \in Seq(Pid) /\ n \in 0 .. Len(l) /\ Spliced(readylist, l, n, p)
    BY <1>1, <1>3
  <2>2. x.list = l
    BY <1>6
  <2> HIDE DEF l
  <2>3. /\ \A q : In(readylist, q) <=> In(l, q) \/ q = p
        /\ IsInjective(readylist) <=> IsInjective(l) /\ ~In(l, p)
    BY <2>1, SplicedFacts
  <2> QED
    BY <2>2, <2>3
<1>9. \A q \in Pid : OnItsList(x, q)
  BY <1>2, <1>6, <1>7, <1>8, NowLinked DEF OnItsList, Asleep
<1>10. Runs(x)
  <2>1. IsInjective(x.list) /\ IsInjective(x.sleep)
    BY <1>6, <1>8, NowLinked
  <2>2. \A q \in Pid : x.state[q] = "curr" => q = x.cur
    BY <1>6, <1>7, NowLinked
  <2>3. x.state[Null] \in Eligible /\ x.state[x.cur] = "curr"
    BY <1>1, <1>2, <1>6, <1>7, NowLinked, KernelAssumption
  <2> QED
    BY <1>6, <1>9, <2>1, <2>2, <2>3 DEF Runs, Linked
<1>11. Ordered(Now) /\ Highest(Now) => Ordered(x) /\ Highest(x)
  <2> SUFFICES ASSUME Ordered(Now), Highest(Now)
               PROVE  Ordered(x) /\ Highest(x)
    OBVIOUS
  <2> DEFINE l == Unlink(readylist, p)
  <2>1. l \in Seq(Pid) /\ n \in 0 .. Len(l) /\ Spliced(readylist, l, n, p)
    BY <1>1, <1>3
  <2>2. x.list = l
    BY <1>6
  <2> HIDE DEF l
  <2>3. Sorted(readylist, qkey)
    BY <1>1 DEF Ordered
  <2>4. Sorted(l, qkey)
    BY <1>1, <2>1, <2>3, SplicedSorted
  <2> QED
    BY <1>1, <1>6, <1>8, <2>2, <2>4 DEF Ordered, Highest
<1>12. /\ SchedTypes' /\ Scheduled'
       /\ prstate' = x.state /\ qkey' = x.key /\ sleepq' = x.sleep
       /\ (Ordered(x) /\ Highest(x) /\ prprio' = prprio) => InOrder'
  BY <1>10, Settled DEF x
<1>13. Stay({p})
  BY <1>7, <1>12 DEF Stay
<1>14. Reschedules({p})
  BY <1>11, <1>12, <1>13 DEF Reschedules, InOrder
<1>15. SleepersKept
  BY <1>6, <1>12 DEF SleepersKept
<1> QED
  BY <1>7, <1>12, <1>14, <1>15

\* The clock handler has counted the first sleeper down.
LEMMA CountedFacts ==
  ASSUME TypeOK, Scheduled
  PROVE  /\ Runs(Counted) /\ Counted.state = prstate /\ Counted.list = readylist
         /\ Counted.sleep = sleepq /\ Counted.cur = currpid
         /\ sleepq = <<>> => Counted.key = qkey
         /\ sleepq # <<>> => Counted.key[Head(sleepq)] = qkey[Head(sleepq)] - 1
         /\ \A q \in Pid : (sleepq # <<>> => q # Head(sleepq)) => Counted.key[q] = qkey[q]
         /\ InOrder => Ordered(Counted) /\ Highest(Counted)
<1> DEFINE x == Counted
<1>1. /\ Now \in Sched
      /\ Now.state = prstate /\ Now.key = qkey /\ Now.list = readylist
      /\ Now.sleep = sleepq /\ Now.cur = currpid
      /\ qkey \in [Pid -> Int] /\ sleepq \in Seq(Pid)
  BY NowTyped DEF TypeOK
<1>2. Runs(Now)
  BY NowLinked
<1>3. CASE sleepq = <<>>
  <2>1. x = Now
    BY <1>3 DEF Counted
  <2> QED
    BY <1>1, <1>2, <1>3, <2>1 DEF InOrder
<1>4. CASE sleepq # <<>>
  <2> DEFINE h == Head(sleepq)
  <2>1. h \in Pid /\ In(sleepq, h)
    BY <1>1, <1>4, TailSplices
  <2>2. x = [Now EXCEPT !.key = [qkey EXCEPT ![h] = qkey[h] - 1]]
    BY <1>1, <1>4 DEF Counted, Sched
  <2> HIDE DEF h, x
  <2>3. [qkey EXCEPT ![h] = qkey[h] - 1] \in [Pid -> Int]
    BY <1>1, <2>1
  <2>4. /\ x \in Sched /\ x.state = prstate /\ x.list = readylist /\ x.sleep = sleepq
        /\ x.cur = currpid /\ x.key = [qkey EXCEPT ![h] = qkey[h] - 1]
    BY <1>1, <2>2, <2>3 DEF Sched
  <2>5. Runs(x)
    BY <1>1, <1>2, <2>4 DEF Runs, Linked, OnItsList
  <2>6. x.key[h] = qkey[h] - 1 /\ \A q \in Pid : q # h => x.key[q] = qkey[q]
    BY <1>1, <2>1, <2>4
  <2>7. \A q \in Pid : In(readylist, q) => x.key[q] = qkey[q]
    BY <2>1, <2>6, NowLinked DEF Asleep
  <2>8. Ordered(Now) => Ordered(x)
    BY <1>1, <2>4, <2>7, OrderedKept
  <2>9. Ordered(Now) /\ Highest(Now) => Highest(x)
    BY <1>1, <2>4, <2>7 DEF Highest
  <2> QED
    BY <1>4, <2>4, <2>5, <2>6, <2>8, <2>9 DEF x, h, InOrder
<1> QED
  BY <1>3, <1>4

\* A clock interrupt: those whose delay is over leave the delta list and are ready.
LEMMA TickStep ==
  ASSUME TypeOK, Scheduled, Tick
  PROVE  /\ Reschedules({p \in Pid : In(sleepq, p) /\ ~In(sleepq', p)})
         /\ \A p \in Pid : In(sleepq, p) /\ ~In(sleepq', p) => prstate'[p] \in Eligible
         /\ \A p \in Pid : In(sleepq', p) => In(sleepq, p) /\ qkey'[p] = Counted.key[p]
         /\ \E due \in 0 .. Len(sleepq) :
              /\ \A i \in 1 .. due : Counted.key[sleepq[i]] <= 0
              /\ due < Len(sleepq) => Counted.key[sleepq[due + 1]] > 0
              /\ sleepq' = SubSeq(sleepq, due + 1, Len(sleepq))
<1> DEFINE w == Wakeup(Counted)
           x == IF w.cur # currpid THEN w ELSE EndOfTick(w)
           T == {p \in Pid : In(sleepq, p) /\ ~In(sleepq', p)}
<1>1. /\ prprio \in [Pid -> Int] /\ Runs(Counted) /\ Counted.state = prstate
      /\ Counted.sleep = sleepq
      /\ InOrder => Ordered(Counted) /\ Highest(Counted)
  BY NowTyped, CountedFacts
<1>2. /\ Runs(w)
      /\ \E due \in 0 .. Len(sleepq) :
           /\ \A i \in 1 .. due : Counted.key[sleepq[i]] <= 0
           /\ due < Len(sleepq) => Counted.key[sleepq[due + 1]] > 0
           /\ w.sleep = SubSeq(sleepq, due + 1, Len(sleepq))
      /\ \A q : In(w.sleep, q) => In(sleepq, q)
      /\ \A q \in Pid : IF In(sleepq, q) /\ ~In(w.sleep, q) THEN w.state[q] \in Eligible
                        ELSE w.state[q] = prstate[q]
                             \/ (w.state[q] \in Eligible /\ prstate[q] \in Eligible)
      /\ \A q \in Pid : In(w.sleep, q) => w.key[q] = Counted.key[q]
      /\ InOrder => Ordered(w) /\ Highest(w)
  <2> DEFINE c == Counted
  <2>1. Runs(c)
    BY <1>1
  <2> HIDE DEF c
  <2>2. /\ Runs(Wakeup(c))
        /\ \E due \in 0 .. Len(c.sleep) :
             /\ \A i \in 1 .. due : c.key[c.sleep[i]] <= 0
             /\ due < Len(c.sleep) => c.key[c.sleep[due + 1]] > 0
             /\ Wakeup(c).sleep = SubSeq(c.sleep, due + 1, Len(c.sleep))
        /\ \A q : In(Wakeup(c).sleep, q) => In(c.sleep, q)
        /\ \A q \in Pid : IF In(c.sleep, q) /\ ~In(Wakeup(c).sleep, q)
                          THEN Wakeup(c).state[q] \in Eligible
                          ELSE Wakeup(c).state[q] = c.state[q]
                               \/ (Wakeup(c).state[q] \in Eligible /\ c.state[q] \in Eligible)
        /\ \A q \in Pid : In(Wakeup(c).sleep, q) => Wakeup(c).key[q] = c.key[q]
        /\ Ordered(c) /\ Highest(c) => Ordered(Wakeup(c)) /\ Highest(Wakeup(c))
    BY <1>1, <2>1, WakeupFacts
  <2>3. c.sleep = sleepq /\ c.state = prstate /\ (InOrder => Ordered(c) /\ Highest(c))
    BY <1>1 DEF c
  <2> HIDE DEF w
  <2>4. w = Wakeup(c)
    BY DEF w, c
  <2> QED
    BY <2>2, <2>3, <2>4 DEF c
<1>3. Becomes(x)
  BY DEF Tick
<1> HIDE DEF w
<1>4. /\ Runs(EndOfTick(w)) /\ Alike(w.state, EndOfTick(w).state)
      /\ EndOfTick(w).sleep = w.sleep
      /\ \A p \in Pid : In(w.sleep, p) => EndOfTick(w).key[p] = w.key[p]
      /\ Ordered(w) /\ Highest(w) => Ordered(EndOfTick(w)) /\ Highest(EndOfTick(w))
  BY <1>1, <1>2, EndOfTickFacts
<1>5. /\ Runs(x) /\ Alike(w.state, x.state) /\ x.sleep = w.sleep
      /\ \A p \in Pid : In(w.sleep, p) => x.key[p] = w.key[p]
      /\ InOrder => Ordered(x) /\ Highest(x)
  <2>1. CASE w.cur # currpid
    <3>1. x = w /\ Alike(w.state, w.state)
      BY <2>1 DEF Alike
    <3> QED
      BY <1>2, <3>1
  <2>2. CASE ~(w.cur # currpid)
    BY <1>2, <1>4, <2>2
  <2> QED
    BY <2>1, <2>2
<1> HIDE DEF x
<1>6. /\ SchedTypes' /\ Scheduled'
      /\ prstate' = x.state /\ qkey' = x.key /\ sleepq' = x.sleep
      /\ (Ordered(x) /\ Highest(x) /\ prprio' = prprio) => InOrder'
  BY <1>3, <1>5, Settled
<1>7. \A q \in Pid : x.state[q] = w.state[q] \/ (x.state[q] \in Eligible /\ w.state[q] \in Eligible)
  BY <1>5 DEF Alike
<1>8. sleepq' = w.sleep
  BY <1>5, <1>6
<1>9. \A q \in Pid : IF In(sleepq, q) /\ ~In(sleepq', q) THEN prstate'[q] \in Eligible
                     ELSE prstate'[q] = prstate[q]
                          \/ (prstate'[q] \in Eligible /\ prstate[q] \in Eligible)
  BY <1>2, <1>6, <1>7, <1>8
<1>10. Stay(T)
  BY <1>9 DEF Stay
<1>11. Reschedules(T)
  BY <1>5, <1>6, <1>10 DEF Reschedules
<1>12. \A p \in Pid : In(sleepq', p) => In(sleepq, p) /\ qkey'[p] = Counted.key[p]
  BY <1>2, <1>5, <1>6, <1>8
<1>13. \E due \in 0 .. Len(sleepq) :
         /\ \A i \in 1 .. due : Counted.key[sleepq[i]] <= 0
         /\ due < Len(sleepq) => Counted.key[sleepq[due + 1]] > 0
         /\ sleepq' = SubSeq(sleepq, due + 1, Len(sleepq))
  BY <1>2, <1>8
<1> QED
  BY <1>9, <1>11, <1>12, <1>13

\* kill takes a process from the list it is on; if it is the current one, another
\* runs.
LEMMA RemovedStep ==
  ASSUME TypeOK, Scheduled, NEW p \in Pid \ {Null}, Becomes(Removed(p))
  PROVE  /\ Reschedules({p}) /\ prstate'[p] = "free"
         /\ ~(prstate[p] \in Asleep) => SleepersKept
         /\ prstate[p] \in Asleep =>
              /\ sleepq' = Unsleep([Now EXCEPT !.state[p] = "free"], p).sleep
              /\ qkey' = Unsleep([Now EXCEPT !.state[p] = "free"], p).key
<1> DEFINE s == [Now EXCEPT !.state[p] = "free"]
<1>1. /\ Now \in Sched /\ prprio \in [Pid -> Int]
      /\ Now.state = prstate /\ Now.key = qkey /\ Now.list = readylist
      /\ Now.sleep = sleepq /\ Now.cur = currpid /\ currpid \in Pid
      /\ prstate \in [Pid -> States]
  BY NowTyped DEF TypeOK
<1>2. [prstate EXCEPT ![p] = "free"] \in [Pid -> States]
  BY <1>1 DEF States
<1>3. /\ s \in Sched /\ s.state = [prstate EXCEPT ![p] = "free"]
      /\ s.key = qkey /\ s.list = readylist /\ s.sleep = sleepq /\ s.cur = currpid
  BY <1>1, <1>2 DEF Sched
<1>4. CASE prstate[p] = "curr"
  <2>1. p = currpid
    BY <1>4, NowLinked
  <2>2. Becomes(Leave(Now, "free"))
    <3>1. s = [Now EXCEPT !.state[Now.cur] = "free"]
      BY <1>1, <2>1
    <3> QED
      BY <1>4, <3>1 DEF Removed, Leave
  <2>3. currpid # Null
    BY <2>1
  <2>4. Reschedules({currpid}) /\ SleepersKept /\ prstate'[currpid] = "free"
    BY <2>2, <2>3, LeaveStep
  <2> QED
    BY <1>4, <2>1, <2>4 DEF Asleep
<1>5. CASE prstate[p] = "ready"
  <2>1. Becomes([Now EXCEPT !.state[p] = "free", !.list = Unlink(@, p)])
    <3>1. [s EXCEPT !.list = Unlink(@, p)] = [Now EXCEPT !.state[p] = "free", !.list = Unlink(@, p)]
      BY <1>1 DEF Sched
    <3> HIDE DEF s
    <3> QED
      BY <1>5, <3>1 DEF Removed, s
  <2> QED
    BY <1>5, <2>1, UnlinkStep DEF Asleep
<1> HIDE DEF s
<1>6. \A q \in Pid : s.state[q] = IF q = p THEN "free" ELSE prstate[q]
  BY <1>1, <1>3
<1>7. Ordered(Now) /\ Highest(Now) => Ordered(s) /\ Highest(s)
  BY <1>1, <1>3 DEF Ordered, Highest
<1>8. prstate[p] # "curr" => p # currpid
  BY <1>1, NowLinked
<1>9. CASE prstate[p] \in Asleep
  <2> DEFINE x == Unsleep(s, p)
  <2>1. Becomes(x)
    BY <1>9 DEF Removed, s, Asleep
  <2>2. In(sleepq, p) /\ ~In(readylist, p)
    BY <1>9, NowLinked DEF Asleep
  <2>3. Linked(s, {p})
    BY <1>3, <1>6, NowLinked, KernelAssumption DEF Linked, OnItsList
  <2>4. /\ x \in Sched /\ Linked(x, {p}) /\ OnNone(x, {p})
        /\ x.state = s.state /\ x.list = s.list /\ x.cur = s.cur
        /\ Ordered(s) => Ordered(x)
    BY <1>3, <2>2, <2>3, UnsleepFacts
  <2>5. \A q \in Pid : In(s.list, q) => x.key[q] = s.key[q] \/ ~Ordered(s)
    BY <2>4 DEF Ordered
  <2> HIDE DEF x
  <2>6. OnItsList(x, p)
    BY <1>6, <2>4 DEF OnItsList, OnNone, Asleep
  <2>7. Linked(x, {})
    BY <2>4, <2>6 DEF Linked
  <2>8. x.state[x.cur] = "curr"
    BY <1>1, <1>3, <1>6, <1>8, <1>9, <2>4, NowLinked DEF Asleep
  <2>9. Runs(x)
    BY <2>4, <2>7, <2>8 DEF Runs
  <2>10. Ordered(Now) /\ Highest(Now) => Ordered(x) /\ Highest(x)
    BY <1>7, <2>4, <2>5 DEF Highest
  <2>11. /\ SchedTypes' /\ Scheduled'
         /\ prstate' = x.state /\ qkey' = x.key /\ sleepq' = x.sleep
         /\ (Ordered(x) /\ Highest(x) /\ prprio' = prprio) => InOrder'
    BY <2>1, <2>9, Settled
  <2>12. Stay({p})
    BY <1>6, <2>4, <2>11 DEF Stay
  <2>13. Reschedules({p})
    BY <2>10, <2>11, <2>12 DEF Reschedules, InOrder
  <2>14. prstate'[p] = "free"
    BY <1>6, <2>4, <2>11
  <2> QED
    BY <1>9, <2>11, <2>13, <2>14 DEF x, s
<1>10. CASE ~(prstate[p] \in {"curr", "ready"}) /\ ~(prstate[p] \in Asleep)
  <2>1. Becomes(s)
    BY <1>10 DEF Removed, s, Asleep
  <2>2. \A q \in Pid : OnItsList(s, q)
    BY <1>3, <1>6, <1>10, NowLinked DEF OnItsList, Asleep
  <2>3. s.state[s.cur] = "curr"
    BY <1>1, <1>3, <1>6, <1>8, <1>10, NowLinked
  <2>4. Runs(s)
    BY <1>3, <1>6, <2>2, <2>3, NowLinked, KernelAssumption DEF Runs, Linked
  <2>5. /\ SchedTypes' /\ Scheduled'
        /\ prstate' = s.state /\ qkey' = s.key /\ sleepq' = s.sleep
        /\ (Ordered(s) /\ Highest(s) /\ prprio' = prprio) => InOrder'
    BY <2>1, <2>4, Settled
  <2>6. Stay({p})
    BY <1>6, <2>5 DEF Stay
  <2>7. Reschedules({p})
    BY <1>7, <2>5, <2>6 DEF Reschedules, InOrder
  <2>8. SleepersKept
    BY <1>3, <2>5 DEF SleepersKept
  <2> QED
    BY <1>6, <1>10, <2>5, <2>7, <2>8
<1> QED
  BY <1>4, <1>5, <1>9, <1>10

\* The types, in two halves.
LEMMA TypeHalves ==
  /\ TypeOK <=> SchedTypes /\ OtherTypes
  /\ SchedTypes' /\ OtherTypes' => TypeOK'
  BY DEF TypeOK, SchedTypes, OtherTypes

\* A step of the scheduler in which nobody begins or ends to wait.
LEMMA KernelKept ==
  ASSUME KernelInv, NEW T, Reschedules(T), UNCHANGED <<prsem, semVars>>,
         \A p \in T : prstate'[p] = "wait" <=> prstate[p] = "wait",
         OtherTypes', NullSpared'
  PROVE  KernelInv'
<1>1. \A p \in Pid : prstate'[p] = "wait" <=> prstate[p] = "wait"
  <2> SUFFICES ASSUME NEW p \in Pid
               PROVE  prstate'[p] = "wait" <=> prstate[p] = "wait"
    OBVIOUS
  <2>1. CASE p \in T
    BY <2>1
  <2>2. CASE p \notin T
    BY <2>2 DEF Reschedules, Stay, Eligible
  <2> QED
    BY <2>1, <2>2
<1>2. QueuesMatch' /\ CountsWaiting'
  BY <1>1, QueuesKept DEF KernelInv
<1>3. TypeOK'
  BY TypeHalves DEF Reschedules
<1> QED
  BY <1>2, <1>3 DEF KernelInv, Reschedules

\* A step of the scheduler that moves processes between other states than these.
LEMMA StaysQuiet ==
  ASSUME NEW T, Reschedules(T), UNCHANGED <<prhasmsg, victim, prcount, halted>>,
         \A p \in Pid : cont'[p] # cont[p] => cont[p] \in {"user", "tick"} /\ cont'[p] \in {"user", "tick"},
         \A p \in T : /\ prstate[p] \notin {"free", "recv"}
                      /\ prstate'[p] \notin {"free", "recv", "rectim"}
  PROVE  Quiet
<1>1. ASSUME NEW p \in Pid, prstate'[p] # prstate[p]
      PROVE  prstate[p] \notin {"free", "recv"} /\ prstate'[p] \notin {"free", "recv", "rectim"}
  <2>1. CASE p \in T
    BY <2>1
  <2>2. CASE p \notin T
    BY <1>1, <2>2 DEF Reschedules, Stay, Eligible
  <2> QED
    BY <2>1, <2>2
<1> QED
  BY <1>1 DEF Quiet

\* The first k processes that wait for a semaphore are released.
LEMMA ReleaseStep ==
  ASSUME KernelInv, NEW s \in Sem, NEW k \in 0 .. Len(squeue[s]), Release(s, k),
         UNCHANGED prsem
  PROVE  /\ QueuesMatch' /\ SleepersKept
         /\ Reschedules({p \in Pid : prstate[p] = "wait" /\ prstate'[p] \in Eligible})
         /\ squeue' \in [Sem -> Seq(Pid)]
         /\ \A t \in Sem \ {s} : squeue'[t] = squeue[t]
         /\ Len(squeue'[s]) = Len(squeue[s]) - k
<1> DEFINE q == squeue[s]
           a == SubSeq(q, 1, k)
           b == SubSeq(q, k + 1, Len(q))
           T == {p \in Pid : prstate[p] = "wait" /\ prstate'[p] \in Eligible}
<1>1. TypeOK /\ Scheduled /\ QueuesMatch /\ squeue \in [Sem -> Seq(Pid)]
  BY DEF KernelInv, TypeOK
<1>2. q \in Seq(Pid) /\ IsInjective(q)
  BY <1>1 DEF QueuesMatch
<1>3. /\ a \in Seq(Pid) /\ b \in Seq(Pid) /\ Len(b) = Len(q) - k
      /\ IsInjective(a) /\ IsInjective(b)
      /\ \A p : In(q, p) <=> In(a, p) \/ In(b, p)
      /\ \A p : ~(In(a, p) /\ In(b, p))
  <2> HIDE DEF q, a, b
  <2>1. k \in 0 .. Len(q)
    BY DEF q
  <2> QED
    BY <1>2, <2>1, SplitFacts DEF a, b
<1>4. squeue' = [squeue EXCEPT ![s] = b]
  BY DEF Release
<1>5. Becomes(ReadyAll(Now, a))
  BY DEF Release
<1> HIDE DEF a, b, T
<1>6. \A p \in Pid : In(q, p) <=> prstate[p] = "wait" /\ prsem[p] = s
  BY <1>1 DEF QueuesMatch
<1>7. \A p \in Pid : In(a, p) => prstate[p] = "wait"
  BY <1>3, <1>6
<1>8. /\ Reschedules(ToSet(a)) /\ SleepersKept
      /\ \A p \in Pid : In(a, p) => prstate'[p] \in Eligible
  BY <1>1, <1>3, <1>5, <1>7, ReadyAllStep
<1>9. \A p \in Pid : ~In(a, p) => prstate'[p] = prstate[p]
                                  \/ (prstate'[p] \in Eligible /\ prstate[p] \in Eligible)
  BY <1>8 DEF Reschedules, Stay, In
<1>10. Stay(T)
  BY <1>7, <1>8, <1>9 DEF Stay, T
<1>11. Reschedules(T)
  BY <1>8, <1>10 DEF Reschedules
<1>12. \A p \in Pid : prstate'[p] = "wait" <=> prstate[p] = "wait" /\ ~In(a, p)
  BY <1>7, <1>8, <1>9 DEF Eligible
<1>13. squeue'[s] = b /\ \A t \in Sem \ {s} : squeue'[t] = squeue[t]
  BY <1>1, <1>4
<1>14. QueuesMatch'
  <2>1. ASSUME NEW t \in Sem
        PROVE  /\ IsInjective(squeue'[t])
               /\ \A p \in Pid : In(squeue'[t], p) <=> prstate'[p] = "wait" /\ prsem[p] = t
    <3>1. CASE t = s
      BY <1>3, <1>6, <1>12, <1>13, <3>1
    <3>2. CASE t # s
      <4>1. /\ IsInjective(squeue[t])
            /\ \A p \in Pid : In(squeue[t], p) <=> prstate[p] = "wait" /\ prsem[p] = t
        BY <1>1 DEF QueuesMatch
      <4>2. \A p \in Pid : In(a, p) => prsem[p] = s
        BY <1>3, <1>6
      <4> QED
        BY <1>12, <1>13, <3>2, <4>1, <4>2
    <3> QED
      BY <3>1, <3>2
  <2>2. \A p \in Pid : prstate'[p] = "wait" => prsem[p] \in Sem
    BY <1>1, <1>12 DEF QueuesMatch
  <2> QED
    BY <2>1, <2>2 DEF QueuesMatch
<1>15. squeue' \in [Sem -> Seq(Pid)]
  BY <1>1, <1>3, <1>4
<1> QED
  BY <1>3, <1>8, <1>11, <1>13, <1>14, <1>15 DEF T

\* A message, as send and kill deliver it.
LEMMA DeliverStep ==
  ASSUME KernelInv, NEW p \in Pid, Deliver(p)
  PROVE  /\ Reschedules({p}) /\ (prstate'[p] = "wait" <=> prstate[p] = "wait")
         /\ prhasmsg' \in [Pid -> BOOLEAN] /\ left' \in [Pid -> Int]
<1>1. TypeOK /\ Scheduled
  BY DEF KernelInv
<1>2. CASE p \in Live /\ ~prhasmsg[p]
  <2>1. Becomes(Woken(p)) /\ StillAsleep /\ prhasmsg' = [prhasmsg EXCEPT ![p] = TRUE]
    BY <1>2 DEF Deliver
  <2>2. /\ Reschedules({p})
        /\ prstate[p] \in {"recv", "rectim"} => prstate'[p] \in Eligible
        /\ ~(prstate[p] \in {"recv", "rectim"}) => Stay({})
    BY <1>1, <2>1, WokenStep
  <2>3. prstate'[p] = "wait" <=> prstate[p] = "wait"
    BY <2>2 DEF Stay, Eligible
  <2>4. prhasmsg' \in [Pid -> BOOLEAN]
    BY <1>1, <2>1 DEF TypeOK
  <2>5. left' \in [Pid -> Int]
    BY <1>1, <2>1 DEF TypeOK, StillAsleep
  <2> QED
    BY <2>2, <2>3, <2>4, <2>5
<1>3. CASE ~(p \in Live /\ ~prhasmsg[p])
  <2>1. UNCHANGED <<prhasmsg, schedVars, left>>
    BY <1>3 DEF Deliver
  <2>2. Reschedules({})
    BY <1>1, <2>1, IdleStep
  <2> QED
    BY <1>1, <2>1, <2>2 DEF Reschedules, Stay, Eligible, TypeOK, schedVars
<1> QED
  BY <1>2, <1>3

\* suspend takes the processor or the place in the ready list from a process.
LEMMA SuspendStep ==
  ASSUME TypeOK, Scheduled, NEW p \in Pid, Suspend(p)
  PROVE  Reschedules({p}) /\ prstate'[p] = "susp" /\ SleepersKept
<1>1. /\ currpid # Null /\ p # Null /\ prstate[p] \in {"curr", "ready"}
      /\ Becomes(IF prstate[p] = "curr" THEN Leave(Now, "susp")
                 ELSE [Now EXCEPT !.state[p] = "susp", !.list = Unlink(@, p)])
  BY DEF Suspend, InProcess
<1>2. CASE prstate[p] = "curr"
  <2>1. Becomes(Leave(Now, "susp")) /\ p = currpid
    BY <1>1, <1>2, NowLinked
  <2> QED
    BY <1>1, <2>1, LeaveStep
<1>3. CASE prstate[p] # "curr"
  <2>1. Becomes([Now EXCEPT !.state[p] = "susp", !.list = Unlink(@, p)]) /\ prstate[p] = "ready"
    BY <1>1, <1>3
  <2> QED
    BY <1>1, <2>1, UnlinkStep
<1> QED
  BY <1>2, <1>3

\* The inductive step, for create.
LEMMA CreateStep ==
  ASSUME KernelInv, NEW p \in Pid, NEW prio \in Prio, Create(p, prio)
  PROVE  KernelInv' /\ (InOrder => InOrder') /\ Undisturbed
<1> USE DEF Running
<1>1. /\ TypeOK /\ Scheduled /\ QueuesMatch /\ CountsWaiting /\ NullSpared
      /\ OtherTypes /\ SchedTypes
  BY TypeHalves DEF KernelInv
<1>2. Create(p, prio)
  OBVIOUS
<1>3. p # Null /\ p # currpid /\ prstate[p] = "free"
  BY <1>1, <1>2, NowLinked DEF Create, Eligible
<1>4. prstate' = [prstate EXCEPT ![p] = "susp"] /\ UNCHANGED <<qkey, readylist, sleepq, currpid, preempt>>
  BY <1>2 DEF Create
<1>5. \A q \in Pid : prstate'[q] = IF q = p THEN "susp" ELSE prstate[q]
  BY <1>1, <1>4 DEF SchedTypes
<1>6. SchedTypes'
  BY <1>1, <1>4 DEF SchedTypes, States
<1>7. OtherTypes'
  <2>1. Prio \subseteq Prio \cup {0} /\ -1 \in Sem \cup {-1} /\ Null \in Pid /\ currpid \in Pid
    BY <1>1, KernelAssumption DEF SchedTypes
  <2>2. prcount + 1 \in Int
    BY <1>1 DEF OtherTypes
  <2> QED
    BY <1>1, <1>2, <2>1, <2>2 DEF Create, OtherTypes, semVars
<1>8. Scheduled'
  <2> DEFINE x == Now'
  <2>1. /\ x.state = prstate' /\ x.key = qkey /\ x.list = readylist /\ x.sleep = sleepq
        /\ x.cur = currpid /\ x.slice = preempt
        /\ x = [state |-> prstate', key |-> qkey, list |-> readylist, sleep |-> sleepq,
                cur |-> currpid, slice |-> preempt]
    BY <1>4 DEF Now
  <2>2. x \in Sched
    BY <1>4, <1>6, <2>1 DEF SchedTypes, Sched
  <2> HIDE DEF x
  <2>3. \A q \in Pid : OnItsList(x, q)
    BY <1>1, <1>3, <1>5, <2>1, NowLinked DEF OnItsList, Asleep
  <2>4. Runs(x)
    BY <1>1, <1>3, <1>5, <2>1, <2>2, <2>3, NowLinked, KernelAssumption DEF Runs, Linked, SchedTypes
  <2> QED
    BY <2>4 DEF x, Scheduled, Runs, Linked, OnItsList, Sched
<1>9. \A q \in Pid : prstate'[q] = "wait" <=> prstate[q] = "wait"
  BY <1>3, <1>5
<1>10. QueuesMatch'
  <2>1. \A q \in Pid : prstate[q] = "wait" => prsem'[q] = prsem[q]
    BY <1>1, <1>2, <1>3 DEF Create, OtherTypes
  <2> QED
    BY <1>1, <1>2, <1>9, <2>1 DEF Create, QueuesMatch, semVars
<1>11. CountsWaiting'
  BY <1>1, <1>2 DEF Create, CountsWaiting, semVars
<1>12. NullSpared'
  BY <1>1, <1>2 DEF Create, NullSpared, OtherTypes
<1>13. InOrder => InOrder'
  <2> SUFFICES ASSUME InOrder
               PROVE  InOrder'
    OBVIOUS
  <2>1. Now.key = qkey /\ Now.list = readylist /\ Now.cur = currpid
    BY <1>1, NowTyped
  <2>2. Now'.key = qkey /\ Now'.list = readylist /\ Now'.cur = currpid
    BY <1>4 DEF Now
  <2>3. \A q \in Pid : q # p => prprio'[q] = prprio[q]
    BY <1>1, <1>2 DEF Create, OtherTypes
  <2>4. ~In(readylist, p)
    BY <1>1, <1>3, NowLinked
  <2> QED
    BY <1>1, <1>3, <2>1, <2>2, <2>3, <2>4 DEF InOrder, Ordered, Highest, Sorted, SchedTypes
<1>14. TypeOK'
  BY <1>6, <1>7, TypeHalves
<1>15. Undisturbed
  BY <1>2 DEF Create, Undisturbed, SleepersKept
<1> QED
  BY <1>8, <1>10, <1>11, <1>12, <1>13, <1>14, <1>15 DEF KernelInv

\* The inductive step, for the calls about processes.
LEMMA ProcessStep ==
  ASSUME KernelInv, NEW p \in Pid,
         Resume(p) \/ Suspend(p) \/ Yield
  PROVE  KernelInv' /\ (InOrder => InOrder') /\ Quiet /\ Undisturbed
<1> USE DEF Running, InProcess
<1>1. /\ TypeOK /\ Scheduled /\ QueuesMatch /\ CountsWaiting /\ NullSpared
      /\ OtherTypes /\ SchedTypes
  BY TypeHalves DEF KernelInv
<1>2. ASSUME UNCHANGED <<procVars, prhasmsg, semVars, callVars, prcount, halted, left>>
      PROVE  /\ OtherTypes' /\ NullSpared' /\ UNCHANGED <<prsem, semVars, prprio>>
             /\ UNCHANGED <<prhasmsg, victim, prcount, halted, cont, left>>
  BY <1>1, <1>2 DEF OtherTypes, NullSpared, procVars, semVars, callVars
<1>3. CASE Resume(p)
  <2>1. /\ prstate[p] = "susp" /\ Becomes(Ready(Now, p))
        /\ UNCHANGED <<procVars, prhasmsg, semVars, callVars, prcount, halted, left>>
    BY <1>3 DEF Resume
  <2>2. Reschedules({p}) /\ prstate'[p] \in Eligible /\ SleepersKept
    BY <1>1, <2>1, ReadyStep DEF Asleep
  <2>3. \A q \in {p} : prstate'[q] = "wait" <=> prstate[q] = "wait"
    BY <2>1, <2>2 DEF Eligible
  <2>4. KernelInv'
    BY <1>2, <2>1, <2>2, <2>3, KernelKept
  <2>5. Quiet
    BY <1>2, <2>1, <2>2, StaysQuiet DEF Eligible
  <2> QED
    BY <1>2, <2>1, <2>2, <2>4, <2>5 DEF Reschedules, Undisturbed
<1>4. CASE Suspend(p)
  <2>1. /\ currpid # Null /\ p # Null /\ prstate[p] \in {"curr", "ready"}
        /\ Becomes(IF prstate[p] = "curr" THEN Leave(Now, "susp")
                   ELSE [Now EXCEPT !.state[p] = "susp", !.list = Unlink(@, p)])
        /\ UNCHANGED <<procVars, prhasmsg, semVars, callVars, prcount, halted, left>>
    BY <1>4 DEF Suspend
  <2>2. Reschedules({p}) /\ prstate'[p] = "susp" /\ SleepersKept
    BY <1>1, <1>4, SuspendStep
  <2>3. \A q \in {p} : prstate'[q] = "wait" <=> prstate[q] = "wait"
    BY <2>1, <2>2
  <2>4. KernelInv'
    BY <1>2, <2>1, <2>2, <2>3, KernelKept
  <2>5. Quiet
    BY <1>2, <2>1, <2>2, StaysQuiet DEF Eligible
  <2> QED
    BY <1>2, <2>1, <2>2, <2>4, <2>5 DEF Reschedules, Undisturbed
<1>5. CASE Yield
  <2>1. /\ Becomes(Resched(Now))
        /\ UNCHANGED <<procVars, prhasmsg, semVars, callVars, prcount, halted, left>>
    BY <1>5 DEF Yield
  <2>2. Reschedules({}) /\ SleepersKept
    BY <1>1, <2>1, ReschedStep
  <2>3. KernelInv'
    BY <1>2, <2>1, <2>2, KernelKept
  <2>4. Quiet
    BY <1>2, <2>1, <2>2, StaysQuiet
  <2> QED
    BY <1>2, <2>1, <2>2, <2>3, <2>4 DEF Reschedules, Undisturbed
<1> QED
  BY <1>3, <1>4, <1>5

\* chprio: the scheduler's state stays; where the priorities of ready processes and
\* of the current one may not fall out of order, neither does the ready list.
LEMMA ChprioStep ==
  ASSUME KernelInv, NEW p \in Pid, NEW prio \in Prio, Chprio(p, prio)
  PROVE  /\ KernelInv' /\ ("chprio" \notin Hazards /\ InOrder => InOrder')
         /\ Quiet /\ Undisturbed
<1>1. /\ TypeOK /\ Scheduled /\ QueuesMatch /\ CountsWaiting /\ NullSpared
      /\ OtherTypes /\ SchedTypes
  BY TypeHalves DEF KernelInv
<1>2. /\ prprio' = [prprio EXCEPT ![p] = prio]
      /\ UNCHANGED <<prsem, prparent, prhasmsg, semVars, schedVars, callVars, prcount, halted, left>>
  BY DEF Chprio
<1>3. Reschedules({}) /\ SleepersKept
  BY <1>1, <1>2, IdleStep
<1>4. OtherTypes' /\ NullSpared'
  <2>1. Prio \subseteq Prio \cup {0}
    OBVIOUS
  <2> QED
    BY <1>1, <1>2, <2>1 DEF OtherTypes, NullSpared, semVars, callVars
<1>5. KernelInv'
  BY <1>2, <1>3, <1>4, KernelKept
<1>6. ASSUME "chprio" \notin Hazards, InOrder
      PROVE  InOrder'
  <2>1. prstate[p] # "ready" /\ (p = currpid => prio >= prprio[p])
    BY <1>6 DEF Chprio
  <2>2. /\ Now.key = qkey /\ Now.list = readylist /\ Now.cur = currpid
        /\ qkey \in [Pid -> Int] /\ prprio \in [Pid -> Int] /\ currpid \in Pid
    BY <1>1, NowTyped DEF SchedTypes
  <2>3. Now' = Now
    BY <1>2 DEF Now, schedVars
  <2>4. ~In(readylist, p)
    BY <1>1, <2>1, NowLinked
  <2>5. prio \in Int /\ \A q \in Pid : prprio'[q] = IF q = p THEN prio ELSE prprio[q]
    BY <1>2, <2>2, KernelAssumption
  <2>6. Ordered(Now)'
    BY <1>6, <2>2, <2>3, <2>4, <2>5 DEF InOrder, Ordered
  <2>7. Highest(Now)'
    <3>1. \A q \in Pid : In(readylist, q) => qkey[q] <= prprio[currpid]
      BY <1>6, <2>2 DEF InOrder, Highest
    <3>2. prprio[currpid] <= prprio'[currpid] /\ prprio[currpid] \in Int /\ prprio'[currpid] \in Int
      BY <2>1, <2>2, <2>5
    <3>3. \A q \in Pid : In(readylist, q) => qkey[q] <= prprio'[currpid]
      BY <2>2, <3>1, <3>2
    <3> QED
      BY <2>2, <2>3, <3>3 DEF Highest
  <2> QED
    BY <2>6, <2>7 DEF InOrder
<1>7. Quiet /\ Undisturbed
  <2>1. UNCHANGED <<prhasmsg, victim, prcount, halted, cont, left>>
    BY <1>2 DEF callVars
  <2> QED
    BY <1>3, <2>1, StaysQuiet DEF Undisturbed
<1> QED
  BY <1>5, <1>6, <1>7

\* A call that releases some of the waiting processes and brings the semaphore's
\* count to what is left of them.
LEMMA CountStep ==
  ASSUME KernelInv, NEW s \in Sem, NEW k \in 0 .. Len(squeue[s]), Release(s, k),
         UNCHANGED <<procVars, prhasmsg, callVars, prcount, halted, left>>,
         sused' \in [Sem -> BOOLEAN], scount' \in [Sem -> Int],
         \A t \in Sem \ {s} : sused'[t] = sused[t] /\ scount'[t] = scount[t],
         Len(squeue[s]) - k = IF sused'[s] /\ scount'[s] < 0 THEN -scount'[s] ELSE 0
  PROVE  KernelInv' /\ (InOrder => InOrder') /\ Quiet /\ Undisturbed
<1>1. CountsWaiting /\ NullSpared /\ OtherTypes
  BY TypeHalves DEF KernelInv
<1>2. prsem' = prsem /\ prprio' = prprio
  BY DEF procVars
<1> DEFINE T == {p \in Pid : prstate[p] = "wait" /\ prstate'[p] \in Eligible}
<1>3. /\ QueuesMatch' /\ SleepersKept /\ Reschedules(T)
      /\ squeue' \in [Sem -> Seq(Pid)]
      /\ \A t \in Sem \ {s} : squeue'[t] = squeue[t]
      /\ Len(squeue'[s]) = Len(squeue[s]) - k
  BY <1>2, ReleaseStep
<1>4. Quiet /\ Undisturbed
  <2>1. UNCHANGED <<prhasmsg, victim, prcount, halted, cont, left>>
    BY DEF callVars
  <2> QED
    BY <1>3, <2>1, StaysQuiet DEF Undisturbed, Eligible
<1> HIDE DEF T
<1>5. CountsWaiting'
  BY <1>1, <1>3 DEF CountsWaiting
<1>6. OtherTypes' /\ NullSpared'
  BY <1>1, <1>3 DEF OtherTypes, NullSpared, procVars, callVars
<1>7. TypeOK'
  BY <1>3, <1>6, TypeHalves DEF Reschedules
<1> QED
  BY <1>2, <1>3, <1>5, <1>6, <1>7, <1>4 DEF KernelInv, Reschedules

\* wait that blocks: the caller is behind the others in the queue.
LEMMA WaitStep ==
  ASSUME KernelInv, NEW s \in Sem, Wait(s)
  PROVE  KernelInv' /\ (InOrder => InOrder') /\ Quiet /\ Undisturbed
<1>1. /\ TypeOK /\ Scheduled /\ QueuesMatch /\ CountsWaiting /\ NullSpared
      /\ OtherTypes /\ SchedTypes
  BY TypeHalves DEF KernelInv
<1>2. /\ sused[s] /\ scount' = [scount EXCEPT ![s] = scount[s] - 1] /\ currpid # Null
      /\ UNCHANGED <<prprio, prparent, prhasmsg, callVars, sused, prcount, halted, left>>
  BY DEF Wait, InProcess
<1>3. scount' \in [Sem -> Int] /\ scount'[s] = scount[s] - 1
      /\ \A t \in Sem \ {s} : scount'[t] = scount[t]
  BY <1>1, <1>2 DEF OtherTypes
<1>4. NullSpared'
  BY <1>1, <1>2 DEF NullSpared, callVars
<1>5. CASE scount[s] - 1 < 0
  <2>1. /\ prsem' = [prsem EXCEPT ![currpid] = s]
        /\ squeue' = [squeue EXCEPT ![s] = Append(squeue[s], currpid)]
        /\ Becomes(Leave(Now, "wait"))
    BY <1>5 DEF Wait
  <2>2. Reschedules({currpid}) /\ prstate'[currpid] = "wait" /\ SleepersKept
    BY <1>1, <1>2, <2>1, LeaveStep
  <2>3. currpid \in Pid /\ squeue[s] \in Seq(Pid) /\ prstate[currpid] = "curr"
    BY <1>1, NowLinked DEF SchedTypes, OtherTypes
  <2>4. \A p \in Pid \ {currpid} : /\ prstate'[p] = "wait" <=> prstate[p] = "wait"
                                   /\ prsem'[p] = prsem[p]
    BY <1>1, <2>1, <2>2 DEF Reschedules, Stay, Eligible, OtherTypes
  <2>5. prsem'[currpid] = s
    BY <1>1, <2>1, <2>3 DEF OtherTypes
  <2> DEFINE l == squeue[s]
             r == Append(l, currpid)
             n == Len(l)
  <2>6. r \in Seq(Pid) /\ n \in 0 .. Len(l) /\ Spliced(r, l, n, currpid)
    BY <2>3, AppendSplices
  <2>7. /\ squeue'[s] = r /\ \A t \in Sem \ {s} : squeue'[t] = squeue[t]
        /\ squeue' \in [Sem -> Seq(Pid)]
    BY <1>1, <2>1, <2>6 DEF OtherTypes
  <2>8. Len(r) = Len(l) + 1
    BY <2>3
  <2>9. IsInjective(l) /\ ~In(l, currpid)
    BY <1>1, <2>3 DEF QueuesMatch
  <2>10. \A p \in Pid : In(l, p) <=> prstate[p] = "wait" /\ prsem[p] = s
    BY <1>1 DEF QueuesMatch
  <2>11. Len(l) = -scount[s]
    BY <1>1, <1>2, <1>5 DEF CountsWaiting, OtherTypes
  <2> HIDE DEF l, r, n
  <2>12. l \in Seq(Pid)
    BY <2>3 DEF l
  <2>13. IsInjective(r) /\ \A p : In(r, p) <=> In(l, p) \/ p = currpid
    BY <2>3, <2>6, <2>9, <2>12, SplicedFacts
  <2>14. QueuesMatch'
    <3>1. ASSUME NEW t \in Sem
          PROVE  /\ IsInjective(squeue'[t])
                 /\ \A p \in Pid : In(squeue'[t], p) <=> prstate'[p] = "wait" /\ prsem'[p] = t
      <4>1. CASE t = s
        BY <2>2, <2>4, <2>5, <2>7, <2>10, <2>13, <4>1
      <4>2. CASE t # s
        <5>1. /\ IsInjective(squeue[t])
              /\ \A p \in Pid : In(squeue[t], p) <=> prstate[p] = "wait" /\ prsem[p] = t
          BY <1>1 DEF QueuesMatch
        <5> QED
          BY <2>3, <2>4, <2>5, <2>7, <4>2, <5>1
      <4> QED
        BY <4>1, <4>2
    <3>2. \A p \in Pid : prstate'[p] = "wait" => prsem'[p] \in Sem
      BY <1>1, <2>4, <2>5 DEF QueuesMatch
    <3> QED
      BY <3>1, <3>2 DEF QueuesMatch
  <2>15. CountsWaiting'
    <3>1. Len(squeue'[s]) = -scount'[s] /\ sused'[s] /\ scount'[s] < 0
      BY <1>2, <1>3, <1>5, <2>7, <2>8, <2>11, <1>1 DEF OtherTypes
    <3> QED
      BY <1>1, <1>2, <1>3, <2>7, <3>1 DEF CountsWaiting
  <2>16. OtherTypes'
    BY <1>1, <1>2, <1>3, <2>1, <2>3, <2>7 DEF OtherTypes, callVars
  <2>17. TypeOK'
    BY <2>2, <2>16, TypeHalves DEF Reschedules
  <2>18. Quiet
    BY <1>2, <2>2, <2>3, StaysQuiet DEF callVars
  <2> QED
    BY <1>2, <1>4, <2>2, <2>14, <2>15, <2>17, <2>18 DEF KernelInv, Reschedules, Undisturbed
<1>6. CASE ~(scount[s] - 1 < 0)
  <2>1. UNCHANGED <<prsem, squeue, schedVars>>
    BY <1>6 DEF Wait
  <2>2. Reschedules({}) /\ SleepersKept
    BY <1>1, <2>1, IdleStep
  <2>3. OtherTypes'
    BY <1>1, <1>2, <1>3, <2>1 DEF OtherTypes, callVars
  <2>4. TypeOK'
    BY <2>2, <2>3, TypeHalves DEF Reschedules
  <2>5. QueuesMatch'
    BY <1>1, <2>1 DEF QueuesMatch, schedVars
  <2>6. CountsWaiting'
    BY <1>1, <1>2, <1>3, <1>6, <2>1 DEF CountsWaiting, OtherTypes
  <2>7. Quiet
    BY <1>2, <2>2, StaysQuiet DEF callVars
  <2> QED
    BY <1>2, <1>4, <2>2, <2>4, <2>5, <2>6, <2>7 DEF KernelInv, Reschedules, Undisturbed
<1> QED
  BY <1>5, <1>6

\* The inductive step, for the calls about semaphores.
LEMMA SemaphoreStep ==
  ASSUME KernelInv, NEW s \in Sem,
         \/ Wait(s) \/ Signal(s) \/ Semdelete(s)
         \/ \E n \in Count : Semcreate(s, n) \/ Signaln(s, n) \/ Semreset(s, n)
  PROVE  KernelInv' /\ (InOrder => InOrder') /\ Quiet /\ Undisturbed
<1>1. /\ TypeOK /\ Scheduled /\ QueuesMatch /\ CountsWaiting /\ NullSpared
      /\ OtherTypes /\ SchedTypes
  BY TypeHalves DEF KernelInv
<1>2. /\ Count \subseteq Nat /\ scount \in [Sem -> Int] /\ sused \in [Sem -> BOOLEAN]
      /\ scount[s] \in Int /\ Len(squeue[s]) \in Nat /\ squeue[s] \in Seq(Pid)
  BY <1>1, KernelAssumption DEF OtherTypes
<1>3. Len(squeue[s]) = IF sused[s] /\ scount[s] < 0 THEN -scount[s] ELSE 0
  BY <1>1 DEF CountsWaiting
<1>4. ASSUME NEW n \in Count, Semcreate(s, n)
      PROVE  KernelInv' /\ (InOrder => InOrder') /\ Quiet /\ Undisturbed
  <2>1. /\ ~sused[s] /\ sused' = [sused EXCEPT ![s] = TRUE]
        /\ scount' = [scount EXCEPT ![s] = n]
        /\ UNCHANGED <<procVars, prhasmsg, schedVars, callVars, squeue, prcount, halted, left>>
    BY <1>4 DEF Semcreate
  <2>2. Reschedules({}) /\ SleepersKept
    BY <1>1, <2>1, IdleStep
  <2>3. OtherTypes' /\ NullSpared'
    BY <1>1, <1>2, <2>1 DEF OtherTypes, NullSpared, procVars, callVars
  <2>4. TypeOK'
    BY <2>2, <2>3, TypeHalves DEF Reschedules
  <2>5. QueuesMatch'
    BY <1>1, <2>1 DEF QueuesMatch, schedVars, procVars
  <2>6. CountsWaiting'
    BY <1>1, <1>2, <1>3, <2>1 DEF CountsWaiting
  <2>7. Quiet /\ Undisturbed
    BY <2>1, <2>2, StaysQuiet DEF callVars, Undisturbed
  <2> QED
    BY <2>1, <2>2, <2>3, <2>4, <2>5, <2>6, <2>7 DEF KernelInv, Reschedules, procVars
<1>5. CASE Wait(s)
  BY <1>5, WaitStep
<1>6. CASE Signal(s)
  <2> DEFINE k == IF scount[s] < 0 THEN 1 ELSE 0
  <2>1. /\ sused[s] /\ scount' = [scount EXCEPT ![s] = scount[s] + 1] /\ Release(s, k)
        /\ UNCHANGED <<procVars, prhasmsg, callVars, sused, prcount, halted, left>>
    BY <1>6 DEF Signal
  <2>2. scount' \in [Sem -> Int] /\ scount'[s] = scount[s] + 1
        /\ \A t \in Sem \ {s} : scount'[t] = scount[t]
    BY <1>2, <2>1
  <2>3. /\ k \in 0 .. Len(squeue[s])
        /\ Len(squeue[s]) - k = IF sused[s] /\ scount'[s] < 0 THEN -scount'[s] ELSE 0
    BY <1>2, <1>3, <2>1, <2>2
  <2> HIDE DEF k
  <2> QED
    BY <1>2, <2>1, <2>2, <2>3, CountStep
<1>7. ASSUME NEW n \in Count, Signaln(s, n)
      PROVE  KernelInv' /\ (InOrder => InOrder') /\ Quiet /\ Undisturbed
  <2> DEFINE k == Min0(-scount[s], n)
  <2>1. /\ sused[s] /\ scount' = [scount EXCEPT ![s] = scount[s] + n] /\ Release(s, k)
        /\ UNCHANGED <<procVars, prhasmsg, callVars, sused, prcount, halted, left>>
    BY <1>7 DEF Signaln
  <2>2. scount' \in [Sem -> Int] /\ scount'[s] = scount[s] + n
        /\ \A t \in Sem \ {s} : scount'[t] = scount[t]
    BY <1>2, <2>1
  <2>3. /\ k \in 0 .. Len(squeue[s])
        /\ Len(squeue[s]) - k = IF sused[s] /\ scount'[s] < 0 THEN -scount'[s] ELSE 0
    <3>1. n \in Nat
      BY <1>2
    <3> QED
      BY <1>2, <1>3, <2>1, <2>2, <3>1 DEF Min0
  <2> HIDE DEF k
  <2> QED
    BY <1>2, <2>1, <2>2, <2>3, CountStep
<1>8. ASSUME NEW n \in Count, Semreset(s, n)
      PROVE  KernelInv' /\ (InOrder => InOrder') /\ Quiet /\ Undisturbed
  <2> DEFINE k == Len(squeue[s])
  <2>1. /\ sused[s] /\ scount' = [scount EXCEPT ![s] = n] /\ Release(s, k)
        /\ UNCHANGED <<procVars, prhasmsg, callVars, sused, prcount, halted, left>>
    BY <1>8 DEF Semreset
  <2>2. scount' \in [Sem -> Int] /\ scount'[s] = n
        /\ \A t \in Sem \ {s} : scount'[t] = scount[t]
    BY <1>2, <2>1
  <2>3. /\ k \in 0 .. Len(squeue[s])
        /\ Len(squeue[s]) - k = IF sused[s] /\ scount'[s] < 0 THEN -scount'[s] ELSE 0
    BY <1>2, <2>2
  <2> HIDE DEF k
  <2> QED
    BY <1>2, <2>1, <2>2, <2>3, CountStep
<1>9. CASE Semdelete(s)
  <2> DEFINE k == Min0(-scount[s], Len(squeue[s]))
  <2>1. /\ sused[s] /\ sused' = [sused EXCEPT ![s] = FALSE]
        /\ scount' = [scount EXCEPT ![s] = scount[s] + k + 1] /\ Release(s, k)
        /\ UNCHANGED <<procVars, prhasmsg, callVars, prcount, halted, left>>
    BY <1>9 DEF Semdelete
  <2>2. /\ k \in 0 .. Len(squeue[s]) /\ Len(squeue[s]) - k = 0 /\ k \in Int
    BY <1>2, <1>3, <2>1 DEF Min0
  <2> HIDE DEF k
  <2>3. /\ scount' \in [Sem -> Int] /\ sused' \in [Sem -> BOOLEAN] /\ ~sused'[s]
        /\ \A t \in Sem \ {s} : scount'[t] = scount[t] /\ sused'[t] = sused[t]
    BY <1>2, <2>1, <2>2
  <2> QED
    BY <2>1, <2>2, <2>3, CountStep
<1> QED
  BY <1>4, <1>5, <1>6, <1>7, <1>8, <1>9

\* A call takes the message there is, or finds that the time is over.
LEMMA TakeStep ==
  ASSUME KernelInv, TakeMessage
  PROVE  KernelInv' /\ (InOrder => InOrder') /\ Undisturbed
<1>1. TypeOK /\ Scheduled /\ NullSpared /\ OtherTypes /\ SchedTypes
  BY TypeHalves DEF KernelInv
<1>2. UNCHANGED <<procVars, semVars, schedVars, victim, prcount, halted, left>>
  BY DEF TakeMessage
<1>3. UNCHANGED schedVars /\ UNCHANGED <<prsem, semVars>> /\ prprio' = prprio
  BY <1>2 DEF procVars
<1>4. Reschedules({}) /\ SleepersKept
  BY <1>1, <1>3, IdleStep
<1>5. OtherTypes' /\ NullSpared'
  BY <1>1, <1>2 DEF OtherTypes, SchedTypes, NullSpared, TakeMessage, procVars, semVars
<1>6. KernelInv'
  BY <1>3, <1>4, <1>5, KernelKept
<1> QED
  BY <1>2, <1>3, <1>4, <1>6 DEF Reschedules, Undisturbed

\* The inductive step, for the calls that send and receive.
LEMMA MessageStep ==
  ASSUME KernelInv,
         \/ (\E p \in Pid : Send(p)) \/ Recvclr \/ Receive \/ ReceiveReturns
         \/ \E d \in Delay : Recvtime(d)
  PROVE  KernelInv' /\ (InOrder => InOrder')
<1> USE DEF Running, InProcess
<1>1. /\ TypeOK /\ Scheduled /\ NullSpared /\ OtherTypes /\ SchedTypes
      /\ currpid \in Pid /\ Delay \subseteq Nat
  BY TypeHalves, KernelAssumption DEF KernelInv, SchedTypes
<1>2. prstate[currpid] = "curr"
  BY <1>1, NowLinked
<1>3. ASSUME NEW p \in Pid, Send(p)
      PROVE  KernelInv' /\ (InOrder => InOrder')
  <2>1. Deliver(p) /\ UNCHANGED <<procVars, semVars, callVars, prcount, halted>>
    BY <1>3 DEF Send
  <2>2. /\ Reschedules({p}) /\ (prstate'[p] = "wait" <=> prstate[p] = "wait")
        /\ prhasmsg' \in [Pid -> BOOLEAN] /\ left' \in [Pid -> Int]
    BY <2>1, DeliverStep
  <2>3. OtherTypes' /\ NullSpared' /\ UNCHANGED <<prsem, semVars>> /\ prprio' = prprio
    BY <1>1, <2>1, <2>2 DEF OtherTypes, NullSpared, procVars, semVars, callVars
  <2>4. KernelInv'
    BY <2>2, <2>3, KernelKept
  <2> QED
    BY <2>2, <2>3, <2>4 DEF Reschedules
<1>4. CASE Recvclr \/ ReceiveReturns
  <2>1. TakeMessage
    BY <1>4 DEF Recvclr, ReceiveReturns
  <2> QED
    BY <2>1, TakeStep
<1>5. CASE Receive
  <2>1. /\ currpid # Null /\ Becomes(Leave(Now, "recv"))
        /\ cont' = [cont EXCEPT ![currpid] = "receive"]
        /\ UNCHANGED <<procVars, prhasmsg, semVars, victim, prcount, halted, left>>
    BY <1>5 DEF Receive
  <2>2. Reschedules({currpid}) /\ prstate'[currpid] = "recv"
    BY <1>1, <2>1, LeaveStep
  <2>3. OtherTypes' /\ NullSpared' /\ UNCHANGED <<prsem, semVars>> /\ prprio' = prprio
    BY <1>1, <2>1 DEF OtherTypes, NullSpared, procVars, semVars
  <2>4. \A q \in {currpid} : prstate'[q] = "wait" <=> prstate[q] = "wait"
    BY <1>2, <2>2
  <2>5. KernelInv'
    BY <2>2, <2>3, <2>4, KernelKept
  <2> QED
    BY <2>2, <2>3, <2>5 DEF Reschedules
<1>6. ASSUME NEW d \in Delay, Recvtime(d)
      PROVE  KernelInv' /\ (InOrder => InOrder')
  <2>1. /\ currpid # Null /\ Becomes(Leave(EnterSleep(Now, d), "rectim"))
        /\ left' = [left EXCEPT ![currpid] = d]
        /\ cont' = [cont EXCEPT ![currpid] = "recvtime"]
        /\ UNCHANGED <<procVars, prhasmsg, semVars, victim, prcount, halted>>
    BY <1>6 DEF Recvtime
  <2>2. Reschedules({currpid}) /\ prstate'[currpid] = "rectim"
    BY <1>1, <2>1, SleepStep DEF Asleep
  <2>3. OtherTypes' /\ NullSpared' /\ UNCHANGED <<prsem, semVars>> /\ prprio' = prprio
    BY <1>1, <2>1 DEF OtherTypes, NullSpared, procVars, semVars
  <2>4. \A q \in {currpid} : prstate'[q] = "wait" <=> prstate[q] = "wait"
    BY <1>2, <2>2
  <2>5. KernelInv'
    BY <2>2, <2>3, <2>4, KernelKept
  <2> QED
    BY <2>2, <2>3, <2>5 DEF Reschedules
<1> QED
  BY <1>3, <1>4, <1>5, <1>6

\* The inductive step, for sleepms.
LEMMA SleepKept ==
  ASSUME KernelInv, NEW d \in Delay, Sleep(d)
  PROVE  KernelInv' /\ (InOrder => InOrder') /\ Quiet
<1>1. /\ TypeOK /\ Scheduled /\ NullSpared /\ OtherTypes
      /\ currpid \in Pid /\ d \in Nat /\ d \in Int
  BY TypeHalves, KernelAssumption, SMTT(30) DEF KernelInv, TypeOK
<1>2. prstate[currpid] = "curr"
  BY <1>1, NowLinked
<1>3. /\ currpid # Null /\ Becomes(Leave(EnterSleep(Now, d), "sleep"))
      /\ left' = [left EXCEPT ![currpid] = d]
      /\ UNCHANGED <<procVars, prhasmsg, semVars, callVars, prcount, halted>>
  BY DEF Sleep, InProcess
<1>4. Reschedules({currpid}) /\ prstate'[currpid] = "sleep"
  BY <1>1, <1>3, SleepStep DEF Asleep
<1>5. /\ OtherTypes' /\ NullSpared' /\ UNCHANGED <<prsem, semVars>> /\ prprio' = prprio
      /\ UNCHANGED cont
  BY <1>1, <1>3 DEF OtherTypes, NullSpared, procVars, semVars, callVars
<1>6. \A q \in {currpid} : prstate'[q] = "wait" <=> prstate[q] = "wait"
  BY <1>2, <1>4
<1>7. KernelInv'
  BY <1>4, <1>5, <1>6, KernelKept
<1>8. UNCHANGED <<prhasmsg, victim, prcount, halted>>
  BY <1>3 DEF callVars
<1>9. Quiet
  BY <1>2, <1>4, <1>5, <1>8, StaysQuiet
<1> QED
  BY <1>4, <1>5, <1>7, <1>9 DEF Reschedules

\* The inductive step, for the clock interrupt.
LEMMA TickKept ==
  ASSUME KernelInv, Tick
  PROVE  KernelInv' /\ (InOrder => InOrder') /\ Quiet
<1>1. TypeOK /\ Scheduled /\ NullSpared /\ OtherTypes /\ SchedTypes /\ currpid \in Pid
  BY TypeHalves DEF KernelInv, SchedTypes
<1> DEFINE T == {p \in Pid : In(sleepq, p) /\ ~In(sleepq', p)}
<1>2. /\ Reschedules(T)
      /\ \A p \in Pid : In(sleepq, p) /\ ~In(sleepq', p) => prstate'[p] \in Eligible
  BY <1>1, TickStep
<1>3. \A p \in T : prstate[p] \in Asleep /\ prstate'[p] \in Eligible
  BY <1>1, <1>2, NowLinked
<1> HIDE DEF T
<1>4. /\ cont[currpid] = "user"
      /\ \/ cont' = [cont EXCEPT ![currpid] = "tick"]
         \/ cont' = [cont EXCEPT ![currpid] = cont[currpid]]
      /\ UNCHANGED <<procVars, prhasmsg, semVars, victim, prcount, halted>>
  BY DEF Tick, Running
<1>5. left' \in [Pid -> Int]
  BY <1>1 DEF Tick, OtherTypes
<1>6. cont' \in [Pid -> {"user", "receive", "recvtime", "tick", "kill"}]
  BY <1>1, <1>4 DEF OtherTypes
<1>7. \A k \in Pid : cont'[k] # cont[k] => cont[k] = "user" /\ cont'[k] = "tick"
  BY <1>1, <1>4 DEF OtherTypes
<1>8. OtherTypes' /\ NullSpared' /\ UNCHANGED <<prsem, semVars>> /\ prprio' = prprio
  BY <1>1, <1>4, <1>5, <1>6, <1>7 DEF OtherTypes, NullSpared, procVars, semVars
<1>9. \A p \in T : prstate'[p] = "wait" <=> prstate[p] = "wait"
  BY <1>3 DEF Asleep, Eligible
<1>10. KernelInv'
  BY <1>2, <1>8, <1>9, KernelKept
<1>11. Quiet
  BY <1>2, <1>3, <1>4, <1>7, StaysQuiet DEF Asleep, Eligible
<1> QED
  BY <1>2, <1>8, <1>10, <1>11 DEF Reschedules

\* The inductive step, for the end of an interrupt that took the processor away.
LEMMA TickReturnsKept ==
  ASSUME KernelInv, TickReturns
  PROVE  KernelInv' /\ (InOrder => InOrder') /\ Quiet /\ Undisturbed
<1>1. TypeOK /\ Scheduled /\ NullSpared /\ OtherTypes /\ SchedTypes /\ currpid \in Pid
  BY TypeHalves DEF KernelInv, SchedTypes
<1>2. /\ Becomes(EndOfTick(Now)) /\ cont[currpid] = "tick"
      /\ cont' = [cont EXCEPT ![currpid] = "user"]
      /\ UNCHANGED <<procVars, prhasmsg, semVars, victim, prcount, halted, left>>
  BY DEF TickReturns
<1>3. Reschedules({}) /\ SleepersKept
  BY <1>1, <1>2, EndOfTickStep
<1>4. OtherTypes' /\ NullSpared' /\ UNCHANGED <<prsem, semVars>> /\ prprio' = prprio
  BY <1>1, <1>2 DEF OtherTypes, NullSpared, procVars, semVars
<1>5. KernelInv'
  BY <1>3, <1>4, KernelKept
<1>6. \A k \in Pid : cont'[k] # cont[k] => cont[k] = "tick" /\ cont'[k] = "user"
  BY <1>1, <1>2 DEF OtherTypes
<1>7. Quiet
  BY <1>2, <1>3, <1>6, StaysQuiet
<1> QED
  BY <1>2, <1>3, <1>4, <1>5, <1>7 DEF Reschedules, Undisturbed

\* The inductive step, for the beginning of kill.
LEMMA KillStep ==
  ASSUME KernelInv, NEW p \in Pid, Kill(p)
  PROVE  KernelInv' /\ (InOrder => InOrder')
<1>1. /\ TypeOK /\ Scheduled /\ NullSpared /\ OtherTypes /\ SchedTypes
      /\ currpid \in Pid
  BY TypeHalves DEF KernelInv, SchedTypes
<1>2. /\ currpid # Null /\ p # Null /\ prcount' = prcount - 1 /\ UNCHANGED <<procVars, semVars>>
  BY DEF Kill, InProcess
<1>3. prcount' \in Int
  BY <1>1, <1>2 DEF OtherTypes
<1>4. CASE Completed(prcount - 1)
  <2>1. halted' = TRUE /\ UNCHANGED <<prhasmsg, schedVars, callVars, left>>
    BY <1>4 DEF Kill
  <2>2. Reschedules({})
    BY <1>1, <2>1, IdleStep
  <2>3. OtherTypes' /\ NullSpared' /\ UNCHANGED <<prsem, semVars>> /\ prprio' = prprio
    BY <1>1, <1>2, <1>3, <2>1 DEF OtherTypes, NullSpared, procVars, semVars, callVars
  <2>4. KernelInv'
    BY <2>2, <2>3, KernelKept
  <2> QED
    BY <2>2, <2>3, <2>4 DEF Reschedules
<1>5. CASE ~Completed(prcount - 1)
  <2> DEFINE q == prparent[p]
  <2>1. /\ Deliver(q) /\ cont' = [cont EXCEPT ![currpid] = "kill"]
        /\ victim' = [victim EXCEPT ![currpid] = p] /\ halted' = halted
    BY <1>5 DEF Kill
  <2>2. q \in Pid
    BY <1>1 DEF OtherTypes
  <2> HIDE DEF q
  <2>3. /\ Reschedules({q}) /\ (prstate'[q] = "wait" <=> prstate[q] = "wait")
        /\ prhasmsg' \in [Pid -> BOOLEAN] /\ left' \in [Pid -> Int]
    BY <2>1, <2>2, DeliverStep
  <2>4. OtherTypes' /\ NullSpared' /\ UNCHANGED <<prsem, semVars>> /\ prprio' = prprio
    BY <1>1, <1>2, <1>3, <2>1, <2>3 DEF OtherTypes, NullSpared, procVars, semVars
  <2>5. KernelInv'
    BY <2>3, <2>4, KernelKept
  <2> QED
    BY <2>3, <2>4, <2>5 DEF Reschedules
<1> QED
  BY <1>4, <1>5

\* A semaphore's queue and its count forget a process that waited.
LEMMA ForgetStep ==
  ASSUME KernelInv, NEW p \in Pid, Forget(p), Reschedules({p}), prstate'[p] = "free",
         UNCHANGED <<prsem, sused>>
  PROVE  /\ QueuesMatch' /\ CountsWaiting'
         /\ scount' \in [Sem -> Int] /\ squeue' \in [Sem -> Seq(Pid)]
<1>1. /\ TypeOK /\ Scheduled /\ QueuesMatch /\ CountsWaiting /\ OtherTypes
  BY TypeHalves DEF KernelInv
<1>2. \A q \in Pid : prstate'[q] = "wait" <=> prstate[q] = "wait" /\ q # p
  BY DEF Reschedules, Stay, Eligible
<1>3. CASE prstate[p] = "wait"
  <2> DEFINE s == prsem[p]
             l == squeue[s]
             r == Unlink(l, p)
  <2>1. s \in Sem /\ In(l, p) /\ IsInjective(l) /\ l \in Seq(Pid)
    BY <1>1, <1>3 DEF QueuesMatch, OtherTypes
  <2>2. /\ scount' = [scount EXCEPT ![s] = scount[s] + 1]
        /\ squeue' = [squeue EXCEPT ![s] = r]
    BY <1>3 DEF Forget
  <2>3. \A q \in Pid : In(l, q) <=> prstate[q] = "wait" /\ prsem[q] = s
    BY <1>1, <2>1 DEF QueuesMatch
  <2>4. Len(l) = IF sused[s] /\ scount[s] < 0 THEN -scount[s] ELSE 0
    BY <1>1, <2>1 DEF CountsWaiting
  <2> HIDE DEF s, l, r
  <2>5. PICK n \in 0 .. Len(l) - 1 :
          r \in Seq(Pid) /\ Len(r) = Len(l) - 1 /\ Spliced(l, r, n, p)
    BY <2>1, UnlinkSplices DEF r
  <2>6. n \in 0 .. Len(r)
    BY <2>1, <2>5
  <2>7. IsInjective(r) /\ ~In(r, p) /\ \A q : In(l, q) <=> In(r, q) \/ q = p
    BY <2>1, <2>5, <2>6, SplicedFacts
  <2>8. /\ squeue'[s] = r /\ \A t \in Sem \ {s} : squeue'[t] = squeue[t]
        /\ scount'[s] = scount[s] + 1 /\ \A t \in Sem \ {s} : scount'[t] = scount[t]
        /\ squeue' \in [Sem -> Seq(Pid)] /\ scount' \in [Sem -> Int]
    BY <1>1, <2>1, <2>2, <2>5 DEF OtherTypes
  <2>9. QueuesMatch'
    <3>1. ASSUME NEW t \in Sem
          PROVE  /\ IsInjective(squeue'[t])
                 /\ \A q \in Pid : In(squeue'[t], q) <=> prstate'[q] = "wait" /\ prsem[q] = t
      <4>1. CASE t = s
        BY <1>2, <2>3, <2>7, <2>8, <4>1
      <4>2. CASE t # s
        <5>1. /\ IsInjective(squeue[t])
              /\ \A q \in Pid : In(squeue[t], q) <=> prstate[q] = "wait" /\ prsem[q] = t
          BY <1>1 DEF QueuesMatch
        <5> QED
          BY <1>2, <2>8, <4>2, <5>1 DEF s
      <4> QED
        BY <4>1, <4>2
    <3>2. \A q \in Pid : prstate'[q] = "wait" => prsem[q] \in Sem
      BY <1>1, <1>2 DEF QueuesMatch
    <3> QED
      BY <3>1, <3>2 DEF QueuesMatch
  <2>10. CountsWaiting'
    <3>1. Len(l) > 0
      BY <2>1, InDef
    <3>2. sused[s] /\ scount[s] < 0 /\ Len(l) = -scount[s] /\ scount[s] \in Int
      BY <1>1, <2>1, <2>4, <3>1 DEF OtherTypes
    <3>3. Len(squeue'[s]) = IF sused'[s] /\ scount'[s] < 0 THEN -scount'[s] ELSE 0
      BY <2>5, <2>8, <3>2
    <3> QED
      BY <1>1, <2>8, <3>3 DEF CountsWaiting
  <2> QED
    BY <2>8, <2>9, <2>10
<1>4. CASE prstate[p] # "wait"
  <2>1. UNCHANGED <<scount, squeue>>
    BY <1>4 DEF Forget
  <2>2. \A q \in Pid : prstate'[q] = "wait" <=> prstate[q] = "wait"
    BY <1>2, <1>4
  <2>3. QueuesMatch' /\ CountsWaiting'
    BY <1>1, <2>1, <2>2, QueuesKept DEF semVars
  <2> QED
    BY <1>1, <2>1, <2>3 DEF OtherTypes
<1> QED
  BY <1>3, <1>4

\* The inductive step, for the rest of kill.
LEMMA FinishKillStep ==
  ASSUME KernelInv, FinishKill
  PROVE  KernelInv' /\ (InOrder => InOrder')
<1> DEFINE p == victim[currpid]
<1>1. /\ TypeOK /\ Scheduled /\ NullSpared /\ OtherTypes /\ SchedTypes
      /\ currpid \in Pid
  BY TypeHalves DEF KernelInv, SchedTypes
<1>2. p \in Pid \ {Null}
  BY <1>1 DEF FinishKill, NullSpared, OtherTypes
<1>3. /\ Becomes(Removed(p)) /\ Forget(p) /\ StillAsleep
      /\ cont' = [cont EXCEPT ![currpid] = "user"]
      /\ victim' = [victim EXCEPT ![currpid] = Null]
      /\ UNCHANGED <<procVars, prhasmsg, sused, prcount, halted>>
  BY DEF FinishKill
<1> HIDE DEF p
<1>4. Reschedules({p}) /\ prstate'[p] = "free"
  BY <1>1, <1>2, <1>3, RemovedStep
<1>5. prsem' = prsem /\ prprio' = prprio
  BY <1>3 DEF procVars
<1>6. /\ QueuesMatch' /\ CountsWaiting'
      /\ scount' \in [Sem -> Int] /\ squeue' \in [Sem -> Seq(Pid)]
  BY <1>2, <1>3, <1>4, <1>5, ForgetStep
<1>7. left' \in [Pid -> Int]
  BY <1>1, <1>3 DEF OtherTypes, StillAsleep
<1>8. OtherTypes' /\ NullSpared'
  BY <1>1, <1>3, <1>6, <1>7, KernelAssumption DEF OtherTypes, NullSpared, procVars
<1>9. TypeOK'
  BY <1>4, <1>8, TypeHalves DEF Reschedules
<1> QED
  BY <1>4, <1>5, <1>6, <1>8, <1>9 DEF KernelInv, Reschedules

\* The invariant is inductive: one step per group of calls.  The order of the ready
\* list is kept by all of them but chprio.
LEMMA KernelStep ==
  ASSUME KernelInv, [Next]_vars
  PROVE  KernelInv' /\ ("chprio" \notin Hazards /\ InOrder => InOrder')
<1>1. ASSUME NEW p \in Pid,
             Resume(p) \/ Suspend(p) \/ (\E prio \in Prio : Create(p, prio))
      PROVE  KernelInv' /\ (InOrder => InOrder')
  BY <1>1, ProcessStep, CreateStep
<1>2. ASSUME NEW p \in Pid, NEW prio \in Prio, Chprio(p, prio)
      PROVE  KernelInv' /\ ("chprio" \notin Hazards /\ InOrder => InOrder')
  BY <1>2, ChprioStep
<1>3. ASSUME NEW p \in Pid, Kill(p)
      PROVE  KernelInv' /\ (InOrder => InOrder')
  BY <1>3, KillStep
<1>4. CASE Yield
  BY <1>4, ProcessStep, KernelAssumption
<1>5. ASSUME NEW s \in Sem,
             \/ Wait(s) \/ Signal(s) \/ Semdelete(s)
             \/ \E n \in Count : Semcreate(s, n) \/ Signaln(s, n) \/ Semreset(s, n)
      PROVE  KernelInv' /\ (InOrder => InOrder')
  BY <1>5, SemaphoreStep
<1>6. CASE \/ (\E p \in Pid : Send(p)) \/ Recvclr \/ Receive \/ ReceiveReturns
           \/ \E d \in Delay : Recvtime(d) \/ Sleep(d)
  BY <1>6, MessageStep, SleepKept
<1>7. CASE Tick \/ TickReturns
  BY <1>7, TickKept, TickReturnsKept
<1>8. CASE FinishKill
  BY <1>8, FinishKillStep
<1>9. CASE UNCHANGED vars
  <2>1. /\ TypeOK /\ Scheduled /\ OtherTypes /\ NullSpared
        /\ UNCHANGED schedVars /\ UNCHANGED <<prsem, semVars>> /\ prprio' = prprio
    BY <1>9, TypeHalves DEF KernelInv, vars, procVars
  <2>2. Reschedules({})
    BY <2>1, IdleStep
  <2>3. OtherTypes' /\ NullSpared'
    BY <1>9, <2>1 DEF OtherTypes, NullSpared, vars, procVars, semVars, callVars
  <2>4. KernelInv'
    BY <2>1, <2>2, <2>3, KernelKept
  <2> QED
    BY <2>1, <2>2, <2>4 DEF Reschedules
<1> QED
  BY <1>1, <1>2, <1>3, <1>4, <1>5, <1>6, <1>7, <1>8, <1>9 DEF Next, Returns, Halt

\* The system starts with the null process running, and all lists empty.
LEMMA KernelInit ==
  ASSUME Init
  PROVE  KernelInv /\ InOrder
<1> USE DEF Init
<1>1. Null \in Pid /\ 0 \in Prio \cup {0} /\ -1 \in Sem \cup {-1} /\ Quantum \in 1 .. Quantum
  BY KernelAssumption
<1>2. <<>> \in Seq(Pid) /\ IsInjective(<<>>) /\ Len(<<>>) = 0 /\ \A p : ~In(<<>>, p)
  BY DEF IsInjective, In, ToSet
<1>3. TypeOK
  <2>1. [p \in Pid |-> IF p = Null THEN "curr" ELSE "free"] \in [Pid -> States]
    BY DEF States
  <2>2. SchedTypes
    BY <1>1, <1>2, <2>1 DEF SchedTypes
  <2>3. OtherTypes
    <3>1. prprio \in [Pid -> Prio \cup {0}] /\ prparent \in [Pid -> Pid]
      BY <1>1
    <3>2. prsem \in [Pid -> Sem \cup {-1}]
      BY <1>1
    <3>3. squeue \in [Sem -> Seq(Pid)]
      BY <1>2
    <3>4. prhasmsg \in [Pid -> BOOLEAN]
      OBVIOUS
    <3>5. sused \in [Sem -> BOOLEAN] /\ halted \in BOOLEAN
      OBVIOUS
    <3>6. scount \in [Sem -> Int] /\ left \in [Pid -> Int] /\ prcount \in Int
      OBVIOUS
    <3>7. /\ victim \in [Pid -> Pid]
          /\ cont \in [Pid -> {"user", "receive", "recvtime", "tick", "kill"}]
      BY <1>1
    <3> QED
      BY <3>1, <3>2, <3>3, <3>4, <3>5, <3>6, <3>7 DEF OtherTypes
  <2> QED
    BY <2>2, <2>3, TypeHalves
<1>4. /\ Now \in Sched /\ Now.state = prstate /\ Now.key = qkey /\ Now.list = readylist
      /\ Now.sleep = sleepq /\ Now.cur = currpid
  BY <1>3, NowTyped
<1>5. \A p \in Pid : OnItsList(Now, p)
  BY <1>2, <1>4 DEF OnItsList, Asleep
<1>6. Runs(Now)
  BY <1>1, <1>2, <1>4, <1>5 DEF Runs, Linked, Eligible
<1>7. QueuesMatch /\ CountsWaiting /\ NullSpared
  BY <1>2 DEF QueuesMatch, CountsWaiting, NullSpared
<1>8. InOrder
  BY <1>2, <1>4 DEF InOrder, Ordered, Highest, Sorted
<1> QED
  BY <1>3, <1>6, <1>7, <1>8 DEF KernelInv, Scheduled

\* The inductive invariant holds in every state, whatever is admitted in Hazards.
THEOREM KernelInvariantHolds == Spec => []KernelInv
<1>1. Init => KernelInv
  BY KernelInit
<1>2. KernelInv /\ [Next]_vars => KernelInv'
  BY KernelStep
<1> QED
  BY <1>1, <1>2, PTL DEF Spec

\* Every variable of the process manager keeps its type, and preempt its bounds.
THEOREM TypesKept == Spec => []TypeOK
<1>1. KernelInv => TypeOK
  BY DEF KernelInv
<1> QED
  BY <1>1, KernelInvariantHolds, PTL

\* Every process is on the list that its state names, once, and on no other, however
\* many processes and semaphores there are and whatever they call.
THEOREM ListsAndStates == Spec => []ListsMatchStates
<1>1. ASSUME KernelInv
      PROVE  ListsMatchStates
  BY <1>1, NowLinked DEF KernelInv, QueuesMatch, ListsMatchStates, Asleep
<1> QED
  BY <1>1, KernelInvariantHolds, PTL

\* A negative count of a semaphore is the number of processes in its queue.
THEOREM CountsAndQueues == Spec => []CountsWaiting
<1>1. KernelInv => CountsWaiting
  BY DEF KernelInv
<1> QED
  BY <1>1, KernelInvariantHolds, PTL

\* No ready process has a higher priority than the one that runs, if nobody changes
\* the priority of a ready process or lowers the one of the process that runs.
THEOREM HighestHasProcessor ==
  ASSUME "chprio" \notin Hazards
  PROVE  Spec => []HighestRuns
<1>1. ASSUME KernelInv, InOrder
      PROVE  HighestRuns
  <2>1. TypeOK /\ Scheduled
    BY <1>1 DEF KernelInv
  <2>2. Now.key = qkey /\ Now.list = readylist /\ Now.cur = currpid
    BY <2>1, NowTyped
  <2> QED
    BY <1>1, <2>1, <2>2, NowLinked DEF InOrder, Ordered, Highest, HighestRuns
<1>2. Init => KernelInv /\ InOrder
  BY KernelInit
<1>3. KernelInv /\ InOrder /\ [Next]_vars => (KernelInv /\ InOrder)'
  BY KernelStep
<1> QED
  BY <1>1, <1>2, <1>3, PTL DEF Spec

(***************************************************************************)
(* Messages, and what kill counts.                                         *)
(***************************************************************************)
\* Most steps neither create nor remove a process, and nobody sends or receives.
LEMMA StepKinds ==
  ASSUME KernelInv, [Next]_vars
  PROVE  \/ Quiet /\ ~halted
         \/ UNCHANGED vars
         \/ \E p \in Pid : (\E prio \in Prio : Create(p, prio)) \/ Send(p) \/ Kill(p)
         \/ Recvclr \/ Receive \/ (\E d \in Delay : Recvtime(d)) \/ ReceiveReturns
         \/ FinishKill
<1>1. ASSUME NEW p \in Pid, Resume(p) \/ Suspend(p)
      PROVE  Quiet /\ ~halted
  <2>1. ~halted
    BY <1>1 DEF Resume, Suspend, InProcess, Running
  <2> QED
    BY <1>1, <2>1, ProcessStep
<1>2. ASSUME NEW p \in Pid, NEW prio \in Prio, Chprio(p, prio)
      PROVE  Quiet /\ ~halted
  BY <1>2, ChprioStep DEF Chprio, InProcess, Running
<1>3. CASE Yield
  BY <1>3, ProcessStep, KernelAssumption DEF Yield, InProcess, Running
<1>4. ASSUME NEW s \in Sem,
             \/ Wait(s) \/ Signal(s) \/ Semdelete(s)
             \/ \E n \in Count : Semcreate(s, n) \/ Signaln(s, n) \/ Semreset(s, n)
      PROVE  Quiet /\ ~halted
  <2>1. ~halted
    BY <1>4 DEF Wait, Signal, Semdelete, Semcreate, Signaln, Semreset, InProcess, Running
  <2> QED
    BY <1>4, <2>1, SemaphoreStep
<1>5. ASSUME NEW d \in Delay, Sleep(d)
      PROVE  Quiet /\ ~halted
  BY <1>5, SleepKept DEF Sleep, InProcess, Running
<1>6. CASE Tick
  BY <1>6, TickKept DEF Tick, Running
<1>7. CASE TickReturns
  BY <1>7, TickReturnsKept DEF TickReturns
<1> QED
  BY <1>1, <1>2, <1>3, <1>4, <1>5, <1>6, <1>7 DEF Next, Returns, Halt

\* A message wakes the one it is for if that one waits for it, and nobody else.
LEMMA DeliverFacts ==
  ASSUME KernelInv, NEW p \in Pid, Deliver(p)
  PROVE  /\ \A q \in Pid : prstate'[q] = "free" <=> prstate[q] = "free"
         /\ \A q \in Pid : \/ /\ prhasmsg'[q] /\ ~(prstate'[q] \in {"recv", "rectim"})
                           \/ /\ prhasmsg'[q] = prhasmsg[q]
                              /\ prstate'[q] = prstate[q]
                                 \/ (prstate'[q] \in Eligible /\ prstate[q] \in Eligible)
<1>1. TypeOK /\ Scheduled
  BY DEF KernelInv
<1>2. CASE p \in Live /\ ~prhasmsg[p]
  <2>1. Becomes(Woken(p)) /\ prhasmsg' = [prhasmsg EXCEPT ![p] = TRUE]
    BY <1>2 DEF Deliver
  <2>2. /\ Stay({p})
        /\ prstate[p] \in {"recv", "rectim"} => prstate'[p] \in Eligible
        /\ ~(prstate[p] \in {"recv", "rectim"}) => Stay({})
    BY <1>1, <2>1, WokenStep DEF Reschedules
  <2>3. /\ prhasmsg'[p]
        /\ \A q \in Pid \ {p} : prhasmsg'[q] = prhasmsg[q]
    BY <1>1, <2>1 DEF TypeOK
  <2>4. ~(prstate'[p] \in {"recv", "rectim"}) /\ (prstate'[p] = "free" <=> prstate[p] = "free")
    BY <2>2 DEF Stay, Eligible
  <2> QED
    BY <2>2, <2>3, <2>4 DEF Stay, Eligible
<1>3. CASE ~(p \in Live /\ ~prhasmsg[p])
  BY <1>3 DEF Deliver, schedVars
<1> QED
  BY <1>2, <1>3

\* send and receive do not miss each other, step by step.
LEMMA MessageKept ==
  ASSUME KernelInv, MessageWakes, [Next]_vars
  PROVE  MessageWakes'
<1> USE DEF MessageWakes, Live
<1>1. /\ TypeOK /\ Scheduled /\ currpid \in Pid /\ Delay \subseteq Nat
      /\ cont \in [Pid -> {"user", "receive", "recvtime", "tick", "kill"}]
      /\ prhasmsg \in [Pid -> BOOLEAN] /\ prstate \in [Pid -> States]
  BY KernelAssumption DEF KernelInv, TypeOK
<1>2. prstate[currpid] = "curr"
  BY <1>1, NowLinked
<1>3. CASE Quiet
  BY <1>3 DEF Quiet
<1>4. CASE UNCHANGED vars
  BY <1>4 DEF vars, schedVars, callVars
<1>5. ASSUME NEW p \in Pid, NEW prio \in Prio, Create(p, prio)
      PROVE  MessageWakes'
  BY <1>1, <1>5 DEF Create
<1>6. ASSUME NEW p \in Pid, Send(p)
      PROVE  MessageWakes'
  <2>1. Deliver(p) /\ cont' = cont
    BY <1>6 DEF Send, callVars
  <2> QED
    BY <2>1, DeliverFacts DEF Eligible
<1>7. ASSUME NEW p \in Pid, Kill(p)
      PROVE  MessageWakes'
  <2>1. CASE Completed(prcount - 1)
    BY <1>7, <2>1 DEF Kill, schedVars, callVars
  <2>2. CASE ~Completed(prcount - 1)
    <3>1. Deliver(prparent[p]) /\ cont' = [cont EXCEPT ![currpid] = "kill"]
      BY <1>7, <2>2 DEF Kill
    <3>2. prparent[p] \in Pid
      BY <1>1 DEF TypeOK
    <3>3. \A q \in Pid : cont'[q] = "receive" => cont[q] = "receive"
      BY <1>1, <3>1
    <3> QED
      BY <3>1, <3>2, <3>3, DeliverFacts DEF Eligible
  <2> QED
    BY <2>1, <2>2
<1>8. CASE Recvclr \/ ReceiveReturns
  BY <1>1, <1>2, <1>8 DEF Recvclr, ReceiveReturns, TakeMessage, schedVars
<1>9. CASE Receive \/ \E d \in Delay : Recvtime(d)
  <2>1. /\ Stay({currpid}) /\ ~prhasmsg[currpid] /\ prhasmsg' = prhasmsg
        /\ \/ prstate'[currpid] = "recv" /\ cont' = [cont EXCEPT ![currpid] = "receive"]
           \/ prstate'[currpid] = "rectim" /\ cont' = [cont EXCEPT ![currpid] = "recvtime"]
    <3>1. CASE Receive
      BY <1>1, <3>1, LeaveStep DEF Receive, InProcess, Reschedules
    <3>2. ASSUME NEW d \in Delay, Recvtime(d)
          PROVE  /\ Stay({currpid}) /\ prstate'[currpid] = "rectim"
                 /\ ~prhasmsg[currpid] /\ prhasmsg' = prhasmsg
                 /\ cont' = [cont EXCEPT ![currpid] = "recvtime"]
      <4>1. d \in Nat /\ currpid # Null /\ Becomes(Leave(EnterSleep(Now, d), "rectim"))
        BY <1>1, <3>2 DEF Recvtime, InProcess
      <4>2. Reschedules({currpid}) /\ prstate'[currpid] = "rectim"
        BY <1>1, <4>1, SleepStep DEF Asleep
      <4> QED
        BY <3>2, <4>2 DEF Recvtime, Reschedules
    <3> QED
      BY <1>9, <3>1, <3>2
  <2> QED
    BY <1>1, <1>2, <2>1 DEF Stay, Eligible
<1>10. CASE FinishKill
  <2> DEFINE p == victim[currpid]
  <2>1. p \in Pid \ {Null}
    BY <1>1, <1>10 DEF FinishKill, KernelInv, NullSpared, TypeOK
  <2>2. /\ Becomes(Removed(p)) /\ prhasmsg' = prhasmsg
        /\ cont' = [cont EXCEPT ![currpid] = "user"]
    BY <1>10 DEF FinishKill
  <2> HIDE DEF p
  <2>3. Stay({p}) /\ prstate'[p] = "free"
    BY <1>1, <2>1, <2>2, RemovedStep DEF Reschedules
  <2> QED
    BY <1>1, <2>2, <2>3 DEF Stay, Eligible
<1> QED
  BY <1>3, <1>4, <1>5, <1>6, <1>7, <1>8, <1>9, <1>10, StepKinds

\* Nobody waits for a message who has one, and receive comes back only with one.
THEOREM MessagesWake == Spec => []MessageWakes
<1>1. Init => KernelInv /\ MessageWakes
  <2>1. Init => MessageWakes
    BY DEF Init, MessageWakes, Live
  <2> QED
    BY <2>1, KernelInit
<1>2. KernelInv /\ MessageWakes /\ [Next]_vars => (KernelInv /\ MessageWakes)'
  BY KernelStep, MessageKept
<1> QED
  BY <1>1, <1>2, PTL DEF Spec

(***************************************************************************)
(* kill stops the machine only at the end.                                 *)
(***************************************************************************)
\* A finite set with one element more has one more.
LEMMA OneMore ==
  ASSUME NEW S, IsFiniteSet(S), NEW x, x \notin S
  PROVE  Cardinality(S \cup {x}) = Cardinality(S) + 1
  BY FS_AddElement

\* A finite set of at most two elements has no third.
LEMMA NoThird ==
  ASSUME NEW S, IsFiniteSet(S), NEW x \in S, NEW y \in S, x # y, Cardinality(S) <= 2
  PROVE  S = {x, y}
<1>1. IsFiniteSet(S \ {x}) /\ Cardinality(S \ {x}) = Cardinality(S) - 1
  BY FS_RemoveElement
<1>2. y \in S \ {x}
  OBVIOUS
<1>3. /\ IsFiniteSet((S \ {x}) \ {y})
      /\ Cardinality((S \ {x}) \ {y}) = Cardinality(S \ {x}) - 1
  BY <1>1, <1>2, FS_RemoveElement
<1>4. Cardinality((S \ {x}) \ {y}) \in Nat /\ Cardinality(S) \in Nat
  BY <1>3, FS_CardinalityType
<1>5. Cardinality((S \ {x}) \ {y}) = 0
  BY <1>1, <1>3, <1>4
<1>6. (S \ {x}) \ {y} = {}
  BY <1>3, <1>5, FS_EmptySet
<1> QED
  BY <1>6

\* Who kills whom, and the processes that are left, as functions of the state.
LEMMA VictimsDef ==
  /\ \A p : p \in Victims <=> \E k \in Pid : Killing(k) /\ victim[k] = p
  /\ \A p : p \in Live \ Victims <=> p \in Live /\ \A k \in Pid : Killing(k) => victim[k] # p
  /\ IsFiniteSet(Live \ Victims)
  /\ \A k : Killing(k) <=> k \in Live /\ cont[k] = "kill"
<1>1. Live \ Victims \subseteq Pid
  BY DEF Live
<1> QED
  BY <1>1, FS_Subset, KernelAssumption DEF Victims, Killing

\* Steps in which no process comes or goes and no kill begins or ends.
LEMMA HaltSame ==
  ASSUME HaltInv, ~halted,
         \A p \in Pid : prstate'[p] = "free" <=> prstate[p] = "free",
         \A p \in Pid : cont'[p] = "kill" <=> cont[p] = "kill",
         UNCHANGED <<victim, prcount, halted>>
  PROVE  HaltInv'
<1>1. Live' = Live /\ \A p \in Pid : Killing(p)' <=> Killing(p)
  BY DEF Live, Killing
<1>2. Victims' = Victims
  BY <1>1 DEF Victims
<1> QED
  BY <1>1, <1>2 DEF HaltInv, KillsApart, ProcessesCounted, HaltsAtTheEnd

\* A new process is one more.
LEMMA HaltCreate ==
  ASSUME KernelInv, HaltInv, NEW p \in Pid, NEW prio \in Prio, Create(p, prio)
  PROVE  HaltInv'
<1>1. /\ prstate[p] = "free" /\ ~halted /\ halted' = halted /\ prcount' = prcount + 1
      /\ prstate' = [prstate EXCEPT ![p] = "susp"] /\ prstate \in [Pid -> States]
      /\ cont' = [cont EXCEPT ![p] = "user"] /\ victim' = [victim EXCEPT ![p] = Null]
      /\ cont \in [Pid -> {"user", "receive", "recvtime", "tick", "kill"}]
      /\ victim \in [Pid -> Pid]
  BY DEF Create, Running, KernelInv, TypeOK
<1>2. p \notin Live /\ Live' = Live \cup {p}
  BY <1>1 DEF Live
<1>3. \A k \in Pid : /\ Killing(k)' <=> Killing(k)
                     /\ Killing(k) => k # p /\ victim'[k] = victim[k]
  BY <1>1, <1>2 DEF Killing
<1>4. Victims' = Victims /\ p \notin Victims
  <2>1. Victims' = Victims
    BY <1>3 DEF Victims
  <2>2. p \notin Victims
    BY <1>2, VictimsDef DEF HaltInv, KillsApart
  <2> QED
    BY <2>1, <2>2
<1>5. Live' \ Victims' = (Live \ Victims) \cup {p} /\ p \notin Live \ Victims
  BY <1>2, <1>4
<1>6. Cardinality(Live' \ Victims') = Cardinality(Live \ Victims) + 1
  BY <1>5, VictimsDef, OneMore
<1>7. ProcessesCounted'
  BY <1>1, <1>6 DEF HaltInv, ProcessesCounted
<1>8. KillsApart'
  BY <1>2, <1>3 DEF HaltInv, KillsApart
<1> QED
  BY <1>1, <1>7, <1>8 DEF HaltInv, HaltsAtTheEnd

\* A kill that does not stop the machine begins: one more has a killer.
LEMMA HaltKill ==
  ASSUME KernelInv, HaltInv, "killrace" \notin Hazards, NEW p \in Pid, Kill(p),
         ~Completed(prcount - 1)
  PROVE  HaltInv'
<1>1. /\ currpid \in Pid /\ p \in Live \ {Null} /\ ~Killing(p) /\ ~halted /\ halted' = halted
      /\ \A k \in Pid : Killing(k) => victim[k] \notin {p, currpid}
      /\ prcount' = prcount - 1 /\ prcount \in Int /\ Deliver(prparent[p]) /\ prparent[p] \in Pid
      /\ cont[currpid] = "user" /\ cont' = [cont EXCEPT ![currpid] = "kill"]
      /\ victim' = [victim EXCEPT ![currpid] = p]
      /\ cont \in [Pid -> {"user", "receive", "recvtime", "tick", "kill"}]
      /\ victim \in [Pid -> Pid]
  BY DEF Kill, InProcess, Running, KernelInv, TypeOK
<1>2. Live' = Live
  BY <1>1, DeliverFacts DEF Live
<1>3. currpid \in Live /\ ~Killing(currpid)
  <2>1. prstate[currpid] = "curr"
    BY <1>1, NowLinked DEF KernelInv
  <2> QED
    BY <1>1, <2>1 DEF Live, Killing
<1>4. \A k \in Pid : /\ Killing(k)' <=> Killing(k) \/ k = currpid
                     /\ Killing(k) => victim'[k] = victim[k]
  BY <1>1, <1>2, <1>3 DEF Killing
<1>5. victim'[currpid] = p
  BY <1>1
<1>6. KillsApart'
  BY <1>1, <1>2, <1>3, <1>4, <1>5 DEF HaltInv, KillsApart
<1>7. \A q : q \in Victims' <=> q \in Victims \/ q = p
  <2>1. \A q : q \in Victims' <=> \E k \in Pid : Killing(k)' /\ victim'[k] = q
    BY DEF Victims
  <2> QED
    BY <1>1, <1>4, <1>5, <2>1, VictimsDef
<1>8. p \notin Victims
  BY <1>1, VictimsDef
<1>9. Live \ Victims = (Live' \ Victims') \cup {p} /\ p \notin Live' \ Victims'
  BY <1>1, <1>2, <1>7, <1>8
<1>10. IsFiniteSet(Live' \ Victims')
  <2>1. Live' \ Victims' \subseteq Pid
    BY DEF Live
  <2> QED
    BY <2>1, FS_Subset, KernelAssumption
<1>11. Cardinality(Live \ Victims) = Cardinality(Live' \ Victims') + 1
  BY <1>9, <1>10, OneMore
<1>12. Cardinality(Live' \ Victims') \in Nat
  BY <1>10, FS_CardinalityType
<1>13. ProcessesCounted'
  BY <1>1, <1>11, <1>12 DEF HaltInv, ProcessesCounted
<1> QED
  BY <1>1, <1>6, <1>13 DEF HaltInv, HaltsAtTheEnd

\* The kill that stops the machine: the null process and the caller are the only ones
\* that nobody else is killing.
LEMMA HaltLast ==
  ASSUME KernelInv, HaltInv, "killrace" \notin Hazards, NEW p \in Pid, Kill(p),
         Completed(prcount - 1)
  PROVE  HaltInv'
<1>1. /\ currpid \in Pid /\ currpid # Null /\ p \in Live \ {Null} /\ ~halted /\ halted'
      /\ \A k \in Pid : Killing(k) => victim[k] \notin {p, currpid}
      /\ prcount \in Int /\ UNCHANGED <<schedVars, callVars>>
  BY DEF Kill, InProcess, KernelInv, TypeOK, Running
<1>2. currpid \in Live /\ Null \in Live
  BY <1>1, NowLinked, KernelAssumption DEF Live, KernelInv, Eligible
<1>3. p \notin Victims /\ currpid \notin Victims /\ Null \notin Victims
  BY <1>1, VictimsDef DEF HaltInv, KillsApart
<1>4. Cardinality(Live \ Victims) <= 2
  BY <1>1 DEF HaltInv, ProcessesCounted, Completed
<1>5. Live \ Victims = {Null, p}
  BY <1>1, <1>2, <1>3, <1>4, VictimsDef, NoThird
<1>6. \A q \in Live \ {Null, currpid} : \E k \in Pid : Killing(k) /\ victim[k] = q
  BY <1>1, <1>2, <1>3, <1>5, VictimsDef
<1>7. UNCHANGED <<prstate, currpid, cont, victim>>
  BY <1>1 DEF schedVars, callVars
<1>8. Live' = Live /\ \A k \in Pid : Killing(k)' <=> Killing(k)
  BY <1>7 DEF Live, Killing
<1> QED
  BY <1>1, <1>6, <1>7, <1>8 DEF HaltInv, KillsApart, ProcessesCounted, HaltsAtTheEnd

\* A kill ends: its victim is gone, and so is the kill.
LEMMA HaltFinish ==
  ASSUME KernelInv, HaltInv, FinishKill
  PROVE  HaltInv'
<1> DEFINE p == victim[currpid]
<1>1. /\ currpid \in Pid /\ ~halted /\ halted' = halted /\ prcount' = prcount
      /\ Becomes(Removed(p)) /\ cont[currpid] = "kill"
      /\ cont' = [cont EXCEPT ![currpid] = "user"] /\ victim' = [victim EXCEPT ![currpid] = Null]
      /\ cont \in [Pid -> {"user", "receive", "recvtime", "tick", "kill"}]
      /\ victim \in [Pid -> Pid]
  BY DEF FinishKill, KernelInv, TypeOK
<1>2. Killing(currpid)
  <2>1. prstate[currpid] = "curr"
    BY <1>1, NowLinked DEF KernelInv
  <2> QED
    BY <1>1, <2>1 DEF Live, Killing
<1>3. p \in Live \ {Null} /\ p \in Pid
  BY <1>1, <1>2 DEF HaltInv, KillsApart
<1>4. \A k \in Pid : Killing(k) /\ k # currpid => k # p /\ victim[k] # p
  BY <1>1, <1>2 DEF HaltInv, KillsApart
<1>5. p \in Victims
  BY <1>1, <1>2, VictimsDef
<1>6. victim[currpid] = p
  OBVIOUS
<1> HIDE DEF p
<1>7. Live' = Live \ {p}
  <2>1. Stay({p}) /\ prstate'[p] = "free"
    BY <1>1, <1>3, RemovedStep DEF KernelInv, Reschedules
  <2> QED
    BY <1>3, <2>1 DEF Live, Stay, Eligible
<1>8. \A k \in Pid : /\ Killing(k)' <=> Killing(k) /\ k # currpid
                     /\ k # currpid => victim'[k] = victim[k]
  BY <1>1, <1>4, <1>7 DEF Killing
<1>9. \A q : q \in Victims' <=> q \in Victims /\ q # p
  <2>1. \A q : q \in Victims' <=> \E k \in Pid : Killing(k)' /\ victim'[k] = q
    BY DEF Victims
  <2> QED
    BY <1>4, <1>6, <1>8, <2>1, VictimsDef
<1>10. Live' \ Victims' = Live \ Victims
  BY <1>5, <1>7, <1>9
<1>11. KillsApart'
  BY <1>4, <1>7, <1>8 DEF HaltInv, KillsApart
<1> QED
  BY <1>1, <1>10, <1>11 DEF HaltInv, ProcessesCounted, HaltsAtTheEnd

\* The inductive step.
LEMMA HaltKept ==
  ASSUME KernelInv, HaltInv, "killrace" \notin Hazards, [Next]_vars
  PROVE  HaltInv'
<1>1. /\ TypeOK /\ Scheduled /\ currpid \in Pid /\ Delay \subseteq Nat
      /\ cont \in [Pid -> {"user", "receive", "recvtime", "tick", "kill"}]
  BY KernelAssumption DEF KernelInv, TypeOK
<1>2. prstate[currpid] = "curr"
  BY <1>1, NowLinked
<1>3. CASE Quiet /\ ~halted
  BY <1>3, HaltSame DEF Quiet
<1>4. CASE UNCHANGED vars
  <2>1. UNCHANGED <<prstate, cont, victim, prcount, halted, currpid>>
    BY <1>4 DEF vars, schedVars, callVars
  <2>2. Live' = Live /\ \A p \in Pid : Killing(p)' <=> Killing(p)
    BY <2>1 DEF Live, Killing
  <2>3. Victims' = Victims
    BY <2>1, <2>2 DEF Victims
  <2> QED
    BY <2>1, <2>2, <2>3 DEF HaltInv, KillsApart, ProcessesCounted, HaltsAtTheEnd
<1>5. ASSUME NEW p \in Pid, NEW prio \in Prio, Create(p, prio)
      PROVE  HaltInv'
  BY <1>5, HaltCreate
<1>6. ASSUME NEW p \in Pid, Send(p)
      PROVE  HaltInv'
  <2>1. ~halted /\ Deliver(p) /\ UNCHANGED <<cont, victim, prcount, halted>>
    BY <1>6 DEF Send, Running, callVars
  <2> QED
    BY <2>1, DeliverFacts, HaltSame
<1>7. ASSUME NEW p \in Pid, Kill(p)
      PROVE  HaltInv'
  BY <1>7, HaltKill, HaltLast
<1>8. CASE Recvclr \/ ReceiveReturns
  <2>1. /\ ~halted /\ cont[currpid] # "kill" /\ UNCHANGED <<schedVars, victim, prcount, halted>>
        /\ cont' = [cont EXCEPT ![currpid] = "user"]
    BY <1>8 DEF Recvclr, ReceiveReturns, TakeMessage, InProcess, Running
  <2> QED
    BY <1>1, <2>1, HaltSame DEF schedVars
<1>9. CASE Receive \/ \E d \in Delay : Recvtime(d)
  <2>1. /\ ~halted /\ cont[currpid] # "kill" /\ UNCHANGED <<victim, prcount, halted>>
        /\ \/ cont' = [cont EXCEPT ![currpid] = "receive"]
           \/ cont' = [cont EXCEPT ![currpid] = "recvtime"]
    BY <1>9 DEF Receive, Recvtime, InProcess, Running
  <2>2. Stay({currpid}) /\ prstate'[currpid] \in {"recv", "rectim"}
    <3>1. CASE Receive
      BY <1>1, <3>1, LeaveStep DEF Receive, InProcess, Reschedules
    <3>2. ASSUME NEW d \in Delay, Recvtime(d)
          PROVE  Stay({currpid}) /\ prstate'[currpid] = "rectim"
      <4>1. d \in Nat /\ currpid # Null /\ Becomes(Leave(EnterSleep(Now, d), "rectim"))
        BY <1>1, <3>2 DEF Recvtime, InProcess
      <4>2. Reschedules({currpid}) /\ prstate'[currpid] = "rectim"
        BY <1>1, <4>1, SleepStep DEF Asleep
      <4> QED
        BY <4>2 DEF Reschedules
    <3> QED
      BY <1>9, <3>1, <3>2
  <2> QED
    BY <1>1, <1>2, <2>1, <2>2, HaltSame DEF Stay, Eligible
<1>10. CASE FinishKill
  BY <1>10, HaltFinish
<1> QED
  BY <1>3, <1>4, <1>5, <1>6, <1>7, <1>8, <1>9, <1>10, StepKinds

\* kill halts the machine only when every other process but the null process is being
\* killed too, unless processes that are being killed are killed again or kill.
THEOREM HaltsOnlyAtTheEnd ==
  ASSUME "killrace" \notin Hazards
  PROVE  Spec => []HaltsAtTheEnd
<1>1. Init => KernelInv /\ HaltInv
  <2> SUFFICES ASSUME Init
               PROVE  HaltInv
    BY KernelInit
  <2>1. Live = {Null} /\ Victims = {} /\ \A k \in Pid : ~Killing(k)
    BY KernelAssumption DEF Init, Live, Killing, Victims
  <2>2. Live \ Victims = {Null}
    BY <2>1
  <2>3. Cardinality(Live \ Victims) = 1
    BY <2>2, FS_Singleton
  <2> QED
    BY <2>1, <2>3 DEF Init, HaltInv, KillsApart, ProcessesCounted, HaltsAtTheEnd
<1>2. KernelInv /\ HaltInv /\ [Next]_vars => (KernelInv /\ HaltInv)'
  BY KernelStep, HaltKept
<1>3. HaltInv => HaltsAtTheEnd
  BY DEF HaltInv
<1> QED
  BY <1>1, <1>2, <1>3, PTL DEF Spec

(***************************************************************************)
(* Delays.                                                                 *)
(***************************************************************************)
\* What the types say of the delta list and of what keeps it.
LEMMA DelayTypes ==
  ASSUME KernelInv
  PROVE  /\ sleepq \in Seq(Pid) /\ qkey \in [Pid -> Int] /\ left \in [Pid -> Int]
         /\ currpid \in Pid /\ Len(sleepq) \in Nat /\ IsInjective(sleepq)
         /\ Now \in Sched /\ Now.key = qkey /\ Now.sleep = sleepq /\ Now.cur = currpid
         /\ ~In(sleepq, currpid)
         /\ \A i \in 1 .. Len(sleepq) : sleepq[i] \in Pid /\ In(sleepq, sleepq[i])
<1>1. TypeOK /\ Scheduled
  BY DEF KernelInv
<1>2. sleepq \in Seq(Pid) /\ qkey \in [Pid -> Int] /\ left \in [Pid -> Int] /\ currpid \in Pid
  BY <1>1 DEF TypeOK
<1>3. Len(sleepq) \in Nat /\ \A i \in 1 .. Len(sleepq) : sleepq[i] \in Pid /\ In(sleepq, sleepq[i])
  BY <1>2, InDef
<1>4. IsInjective(sleepq) /\ ~In(sleepq, currpid)
  BY <1>1, <1>2, NowLinked DEF Asleep
<1>5. Now \in Sched /\ Now.key = qkey /\ Now.sleep = sleepq /\ Now.cur = currpid
  BY <1>1, NowTyped
<1> QED
  BY <1>2, <1>3, <1>4, <1>5

\* The delta list is changed by sleep, recvtime and the clock, and when a message or
\* kill takes a process from it; by nothing else.
LEMMA DelaySteps ==
  ASSUME KernelInv, [Next]_vars
  PROVE  \/ Undisturbed
         \/ Tick \/ FinishKill
         \/ \E d \in Delay : Sleep(d) \/ Recvtime(d)
         \/ \E p \in Pid : Deliver(p)
<1>1. TypeOK /\ Scheduled /\ prparent \in [Pid -> Pid]
  BY DEF KernelInv, TypeOK
<1>2. ASSUME NEW p \in Pid,
             \/ Resume(p) \/ Suspend(p)
             \/ \E prio \in Prio : Create(p, prio) \/ Chprio(p, prio)
      PROVE  Undisturbed
  BY <1>2, ProcessStep, CreateStep, ChprioStep
<1>3. ASSUME NEW p \in Pid, Kill(p)
      PROVE  Undisturbed \/ \E q \in Pid : Deliver(q)
  <2>1. CASE Completed(prcount - 1)
    <3>1. UNCHANGED schedVars /\ left' = left
      BY <1>3, <2>1 DEF Kill
    <3> QED
      BY <1>1, <3>1, IdleStep DEF Undisturbed
  <2>2. CASE ~Completed(prcount - 1)
    BY <1>1, <1>3, <2>2 DEF Kill
  <2> QED
    BY <2>1, <2>2
<1>4. ASSUME NEW p \in Pid, Send(p)
      PROVE  Deliver(p)
  BY <1>4 DEF Send
<1>5. ASSUME NEW s \in Sem,
             \/ Wait(s) \/ Signal(s) \/ Semdelete(s)
             \/ \E n \in Count : Semcreate(s, n) \/ Signaln(s, n) \/ Semreset(s, n)
      PROVE  Undisturbed
  BY <1>5, SemaphoreStep
<1>6. CASE Yield
  BY <1>6, ProcessStep, KernelAssumption
<1>7. CASE Recvclr \/ ReceiveReturns
  BY <1>7, TakeStep DEF Recvclr, ReceiveReturns
<1>8. CASE Receive
  <2>1. Becomes(Leave(Now, "recv")) /\ currpid # Null /\ left' = left
    BY <1>8 DEF Receive, InProcess
  <2> QED
    BY <1>1, <2>1, LeaveStep DEF Undisturbed
<1>9. CASE TickReturns
  BY <1>9, TickReturnsKept
<1>10. CASE UNCHANGED vars
  <2>1. UNCHANGED schedVars /\ left' = left
    BY <1>10 DEF vars
  <2> QED
    BY <1>1, <2>1, IdleStep DEF Undisturbed
<1> QED
  BY <1>2, <1>3, <1>4, <1>5, <1>6, <1>7, <1>8, <1>9, <1>10 DEF Next, Returns, Halt

\* sleep and recvtime: the process behind the new one waits as long as before.
LEMMA DelayEntered ==
  ASSUME KernelInv, KernelInv', DelayInv, NEW state \in Asleep, NEW d \in Nat \ {0},
         Becomes(Leave(EnterSleep(Now, d), state)), currpid # Null,
         left' = [left EXCEPT ![currpid] = d]
  PROVE  DelayInv'
<1> DEFINE e == EnterSleep(Now, d)
<1>1. /\ sleepq \in Seq(Pid) /\ qkey \in [Pid -> Int] /\ left \in [Pid -> Int]
      /\ currpid \in Pid /\ Len(sleepq) \in Nat /\ IsInjective(sleepq)
      /\ Now \in Sched /\ Now.key = qkey /\ Now.sleep = sleepq /\ Now.cur = currpid
      /\ ~In(sleepq, currpid)
      /\ \A i \in 1 .. Len(sleepq) : sleepq[i] \in Pid /\ In(sleepq, sleepq[i])
  BY DelayTypes
<1>2. d \in Nat /\ left' \in [Pid -> Int]
  BY <1>1
<1>3. /\ e \in Sched
      /\ \E n \in 0 .. Len(sleepq) :
           /\ Spliced(e.sleep, sleepq, n, currpid)
           /\ Until(sleepq, qkey, n) <= d
           /\ n < Len(sleepq) => Until(sleepq, qkey, n + 1) > d
           /\ e.key[currpid] = d - Until(sleepq, qkey, n)
           /\ n < Len(sleepq) =>
                e.key[sleepq[n + 1]] = qkey[sleepq[n + 1]] - (d - Until(sleepq, qkey, n))
           /\ \A q \in Pid : /\ q # currpid
                             /\ n < Len(sleepq) => q # sleepq[n + 1]
                             => e.key[q] = qkey[q]
  <2> DEFINE c == Now
  <2>1. c \in Sched /\ c.key = qkey /\ c.sleep = sleepq /\ c.cur = currpid /\ e = EnterSleep(c, d)
    BY <1>1
  <2> HIDE DEF c, e
  <2>2. e \in Sched /\ ~In(c.sleep, c.cur)
    BY <1>1, <1>2, <2>1, EnterSleepFields
  <2>3. \E n \in 0 .. Len(c.sleep) :
          /\ Spliced(EnterSleep(c, d).sleep, c.sleep, n, c.cur)
          /\ Until(c.sleep, c.key, n) <= d
          /\ n < Len(c.sleep) => Until(c.sleep, c.key, n + 1) > d
          /\ EnterSleep(c, d).key[c.cur] = d - Until(c.sleep, c.key, n)
          /\ n < Len(c.sleep) =>
               EnterSleep(c, d).key[c.sleep[n + 1]] = c.key[c.sleep[n + 1]] - (d - Until(c.sleep, c.key, n))
          /\ \A q \in Pid : /\ q # c.cur
                            /\ n < Len(c.sleep) => q # c.sleep[n + 1]
                            => EnterSleep(c, d).key[q] = c.key[q]
    BY <1>2, <2>1, <2>2, EnterSleepFields, Zenon
  <2> QED
    BY <2>1, <2>2, <2>3
<1>4. sleepq' = e.sleep /\ \A q \in Pid : In(sleepq', q) => qkey'[q] = e.key[q]
  BY <1>2, SleepStep DEF KernelInv
<1> HIDE DEF e
<1>5. e.key \in [Pid -> Int] /\ e.sleep \in Seq(Pid)
  BY <1>3 DEF Sched
<1>6. Deltas(sleepq, qkey, left)
  BY DEF DelayInv
<1>7. PICK n \in 0 .. Len(sleepq) :
        /\ Spliced(e.sleep, sleepq, n, currpid)
        /\ Until(sleepq, qkey, n) <= d
        /\ n < Len(sleepq) => Until(sleepq, qkey, n + 1) > d
        /\ e.key[currpid] = d - Until(sleepq, qkey, n)
        /\ n < Len(sleepq) =>
             e.key[sleepq[n + 1]] = qkey[sleepq[n + 1]] - (d - Until(sleepq, qkey, n))
        /\ \A q \in Pid : /\ q # currpid
                          /\ n < Len(sleepq) => q # sleepq[n + 1]
                          => e.key[q] = qkey[q]
  BY <1>3
<1>14. \A i \in 1 .. Len(sleepq) : Until(sleepq, qkey, i) = left[sleepq[i]]
  BY <1>1, <1>6, DeltasSum, ZenonT(30)
<1>8. Until(sleepq, qkey, n) = Before(sleepq, left, n + 1)
  <2>1. CASE n = 0
    BY <1>1, <2>1, SumsDef DEF Before
  <2>2. CASE n # 0
    <3>1. n \in 1 .. Len(sleepq) /\ (n + 1) - 1 = n /\ n + 1 # 1
      BY <1>1, <2>2
    <3>2. Until(sleepq, qkey, n) = left[sleepq[n]]
      BY <3>1, <1>14
    <3> QED
      BY <3>1, <3>2 DEF Before
  <2> QED
    BY <2>1, <2>2
<1>9. n < Len(sleepq) => Until(sleepq, qkey, n + 1) = left[sleepq[n + 1]]
  <2>1. n < Len(sleepq) => n + 1 \in 1 .. Len(sleepq)
    BY <1>1
  <2> QED
    BY <1>14, <2>1
<1>10. left'[currpid] = d /\ \A q \in Pid : q # currpid => left'[q] = left[q]
  BY <1>1
<1>11. Enters(sleepq, qkey, left, e.key, left', n, currpid, d)
  BY <1>7, <1>8, <1>9, <1>10 DEF Enters
<1>12. Deltas(e.sleep, e.key, left')
  BY <1>1, <1>2, <1>5, <1>6, <1>7, <1>11, DeltasEnter
<1>13. Deltas(e.sleep, qkey', left')
  BY <1>4, <1>5, <1>12, DeltasKept
<1> QED
  BY <1>4, <1>13 DEF DelayInv

\* A process leaves before its time, called back by a message or killed: the one
\* behind it waits as long as before.
LEMMA DelayLeft ==
  ASSUME KernelInv, KernelInv', DelayInv, NEW p \in Pid, In(sleepq, p),
         NEW s \in Sched, s.key = qkey, s.sleep = sleepq,
         sleepq' = Unsleep(s, p).sleep,
         \A q \in Pid : In(sleepq', q) => qkey'[q] = Unsleep(s, p).key[q],
         StillAsleep
  PROVE  DelayInv'
<1> DEFINE u == Unsleep(s, p)
<1>1. /\ sleepq \in Seq(Pid) /\ qkey \in [Pid -> Int] /\ left \in [Pid -> Int]
      /\ Len(sleepq) \in Nat /\ IsInjective(sleepq)
  BY DelayTypes
<1>2. /\ u \in Sched
      /\ \E n \in 0 .. Len(sleepq) - 1 :
           /\ Len(u.sleep) = Len(sleepq) - 1
           /\ Spliced(sleepq, u.sleep, n, p)
           /\ n < Len(u.sleep) => u.key[sleepq[n + 2]] = qkey[sleepq[n + 2]] + qkey[p]
           /\ \A q \in Pid : (n < Len(u.sleep) => q # sleepq[n + 2]) => u.key[q] = qkey[q]
  BY UnsleepFields
<1>3. sleepq' = u.sleep /\ \A q \in Pid : In(sleepq', q) => qkey'[q] = u.key[q]
  OBVIOUS
<1> HIDE DEF u
<1>4. u.key \in [Pid -> Int] /\ u.sleep \in Seq(Pid)
  BY <1>2 DEF Sched
<1>5. PICK n \in 0 .. Len(sleepq) - 1 :
        /\ Len(u.sleep) = Len(sleepq) - 1
        /\ Spliced(sleepq, u.sleep, n, p)
        /\ n < Len(u.sleep) => u.key[sleepq[n + 2]] = qkey[sleepq[n + 2]] + qkey[p]
        /\ \A q \in Pid : (n < Len(u.sleep) => q # sleepq[n + 2]) => u.key[q] = qkey[q]
  BY <1>2
<1>6. left' \in [Pid -> Int] /\ \A q \in Pid : In(u.sleep, q) => left'[q] = left[q]
  BY <1>1, <1>3 DEF StillAsleep, In
<1>7. Leaves(sleepq, qkey, left, u.sleep, u.key, left', n, p)
  BY <1>5, <1>6 DEF Leaves
<1>8. n \in 0 .. Len(u.sleep) /\ Deltas(sleepq, qkey, left)
  BY <1>1, <1>5 DEF DelayInv
<1>9. Deltas(u.sleep, u.key, left')
  BY <1>1, <1>4, <1>5, <1>6, <1>7, <1>8, DeltasLeave
<1>10. Deltas(u.sleep, qkey', left')
  BY <1>3, <1>4, <1>9, DeltasKept
<1> QED
  BY <1>3, <1>10 DEF DelayInv

\* A clock interrupt counts down what each of them has left to sleep.
LEMMA DelayTicked ==
  ASSUME KernelInv, KernelInv', DelayInv, Tick
  PROVE  DelayInv'
<1> DEFINE x == Counted
<1>1. /\ sleepq \in Seq(Pid) /\ qkey \in [Pid -> Int] /\ left \in [Pid -> Int]
      /\ Len(sleepq) \in Nat /\ IsInjective(sleepq)
      /\ \A i \in 1 .. Len(sleepq) : sleepq[i] \in Pid /\ In(sleepq, sleepq[i])
  BY DelayTypes
<1>2. /\ x \in Sched
      /\ sleepq # <<>> => x.key[Head(sleepq)] = qkey[Head(sleepq)] - 1
      /\ \A q \in Pid : (sleepq # <<>> => q # Head(sleepq)) => x.key[q] = qkey[q]
  BY CountedFacts DEF KernelInv, Runs
<1>3. /\ \A p \in Pid : In(sleepq', p) => In(sleepq, p) /\ qkey'[p] = x.key[p]
      /\ \E due \in 0 .. Len(sleepq) :
           /\ \A i \in 1 .. due : x.key[sleepq[i]] <= 0
           /\ due < Len(sleepq) => x.key[sleepq[due + 1]] > 0
           /\ sleepq' = SubSeq(sleepq, due + 1, Len(sleepq))
  BY TickStep DEF KernelInv
<1>4. x.key \in [Pid -> Int]
  BY <1>2 DEF Sched
<1> HIDE DEF x
<1>5. PICK due \in 0 .. Len(sleepq) :
        /\ \A i \in 1 .. due : x.key[sleepq[i]] <= 0
        /\ due < Len(sleepq) => x.key[sleepq[due + 1]] > 0
        /\ sleepq' = SubSeq(sleepq, due + 1, Len(sleepq))
  BY <1>3
<1>6. left' = [p \in Pid |-> IF In(sleepq', p) /\ left[p] > 0 THEN left[p] - 1 ELSE 0]
  BY DEF Tick, In
<1>7. left' \in [Pid -> Int]
  BY <1>1, <1>6
<1>8. \A i \in 1 .. Len(sleepq) : x.key[sleepq[i]] = IF i = 1 THEN qkey[sleepq[i]] - 1 ELSE qkey[sleepq[i]]
  <2> SUFFICES ASSUME NEW i \in 1 .. Len(sleepq)
               PROVE  x.key[sleepq[i]] = IF i = 1 THEN qkey[sleepq[i]] - 1 ELSE qkey[sleepq[i]]
    OBVIOUS
  <2>1. sleepq # <<>> /\ Head(sleepq) = sleepq[1] /\ 1 \in 1 .. Len(sleepq)
    BY <1>1
  <2>2. i # 1 => sleepq[i] # sleepq[1]
    BY <1>1, <2>1, InDef
  <2> QED
    BY <1>1, <1>2, <2>1, <2>2
<1>9. \A q \in Pid : In(sleepq', q) /\ left[q] > 0 => left'[q] = left[q] - 1
  BY <1>6
<1>10. CountsDown(sleepq, qkey, left, sleepq', x.key, left', due)
  BY <1>5, <1>8, <1>9 DEF CountsDown
<1>11. Deltas(sleepq, qkey, left)
  BY DEF DelayInv
<1>12. sleepq' \in Seq(Pid)
  BY DelayTypes DEF KernelInv, TypeOK
<1>13. Deltas(sleepq', x.key, left')
  <2>1. ASSUME NEW key2 \in [Pid -> Int], NEW n \in 0 .. Len(sleepq),
               CountsDown(sleepq, qkey, left, sleepq', key2, left', n)
        PROVE  Deltas(sleepq', key2, left')
    BY <1>1, <1>7, <1>11, <1>12, <2>1, DeltasCount
  <2>2. due \in 0 .. Len(sleepq)
    BY <1>5
  <2> QED
    BY <1>4, <1>10, <2>1, <2>2
<1>14. Deltas(sleepq', qkey', left')
  BY <1>3, <1>12, <1>13, DeltasKept
<1> QED
  BY <1>14 DEF DelayInv

\* The delta list is exact after every step.
LEMMA DelayKept ==
  ASSUME 0 \notin Delay, KernelInv, KernelInv', DelayInv, [Next]_vars
  PROVE  DelayInv'
<1>1. /\ TypeOK /\ Scheduled /\ Delay \subseteq Nat /\ Deltas(sleepq, qkey, left)
      /\ sleepq \in Seq(Pid) /\ currpid \in Pid
  BY DelayTypes, KernelAssumption DEF KernelInv, DelayInv
<1>2. ASSUME SleepersKept, left' = left \/ StillAsleep
      PROVE  DelayInv'
  <2>1. sleepq' = sleepq /\ \A p \in Pid : In(sleepq, p) => qkey'[p] = qkey[p] /\ left'[p] = left[p]
    BY <1>2 DEF SleepersKept, StillAsleep, In
  <2> QED
    BY <1>1, <2>1, DeltasKept DEF DelayInv
<1>3. CASE Undisturbed
  BY <1>2, <1>3 DEF Undisturbed
<1>4. CASE Tick
  BY <1>4, DelayTicked
<1>5. ASSUME NEW d \in Delay, Sleep(d) \/ Recvtime(d)
      PROVE  DelayInv'
  <2>1. d \in Nat \ {0}
    BY <1>1
  <2>2. CASE Sleep(d)
    <3>1. /\ Becomes(Leave(EnterSleep(Now, d), "sleep")) /\ currpid # Null
          /\ left' = [left EXCEPT ![currpid] = d]
      BY <2>2 DEF Sleep, InProcess
    <3> QED
      BY <2>1, <3>1, DelayEntered DEF Asleep
  <2>3. CASE Recvtime(d)
    <3>1. /\ Becomes(Leave(EnterSleep(Now, d), "rectim")) /\ currpid # Null
          /\ left' = [left EXCEPT ![currpid] = d]
      BY <2>3 DEF Recvtime, InProcess
    <3> QED
      BY <2>1, <3>1, DelayEntered DEF Asleep
  <2> QED
    BY <1>5, <2>2, <2>3
<1>6. ASSUME NEW p \in Pid, Deliver(p)
      PROVE  DelayInv'
  <2>1. CASE p \in Live /\ ~prhasmsg[p]
    <3>1. Becomes(Woken(p)) /\ StillAsleep
      BY <1>6, <2>1 DEF Deliver
    <3>2. CASE prstate[p] # "rectim"
      BY <1>1, <1>2, <3>1, <3>2, WokenStep
    <3>3. CASE prstate[p] = "rectim"
      <4>1. Becomes(Ready(Unsleep(Now, p), p)) /\ prstate[p] \in Asleep
        BY <3>1, <3>3 DEF Woken, Asleep
      <4>2. /\ sleepq' = Unsleep(Now, p).sleep
            /\ \A q \in Pid : In(sleepq', q) => qkey'[q] = Unsleep(Now, p).key[q]
        BY <1>1, <4>1, TimedWakeStep
      <4>3. In(sleepq, p) /\ Now \in Sched /\ Now.key = qkey /\ Now.sleep = sleepq
        BY <1>1, <4>1, NowLinked, NowTyped
      <4> QED
        BY <3>1, <4>2, <4>3, DelayLeft
    <3> QED
      BY <3>2, <3>3
  <2>2. CASE ~(p \in Live /\ ~prhasmsg[p])
    <3>1. UNCHANGED schedVars /\ left' = left
      BY <1>6, <2>2 DEF Deliver
    <3> QED
      BY <1>1, <1>2, <3>1, IdleStep
  <2> QED
    BY <2>1, <2>2
<1>7. CASE FinishKill
  <2> DEFINE p == victim[currpid]
             s == [Now EXCEPT !.state[p] = "free"]
  <2>1. p \in Pid \ {Null}
    BY <1>1, <1>7 DEF FinishKill, KernelInv, NullSpared, TypeOK
  <2>2. Becomes(Removed(p)) /\ StillAsleep
    BY <1>7 DEF FinishKill
  <2> HIDE DEF p
  <2>3. CASE ~(prstate[p] \in Asleep)
    BY <1>1, <1>2, <2>1, <2>2, <2>3, RemovedStep
  <2>4. CASE prstate[p] \in Asleep
    <3>1. sleepq' = Unsleep(s, p).sleep /\ qkey' = Unsleep(s, p).key
      BY <1>1, <2>1, <2>2, <2>4, RemovedStep
    <3>2. s \in Sched /\ s.key = qkey /\ s.sleep = sleepq
      <4>1. /\ Now \in Sched /\ Now.state = prstate /\ Now.key = qkey /\ Now.sleep = sleepq
            /\ prstate \in [Pid -> States]
        BY <1>1, NowTyped DEF TypeOK
      <4>2. [prstate EXCEPT ![p] = "free"] \in [Pid -> States]
        BY <2>1, <4>1 DEF States
      <4> QED
        BY <4>1, <4>2 DEF Sched
    <3>3. In(sleepq, p)
      BY <1>1, <2>1, <2>4, NowLinked
    <3> HIDE DEF s
    <3> QED
      BY <2>1, <2>2, <3>1, <3>2, <3>3, DelayLeft
  <2> QED
    BY <2>3, <2>4
<1> QED
  BY <1>3, <1>4, <1>5, <1>6, <1>7, DelaySteps

\* The delta list is exact in every state, if nobody receives with a time limit of 0.
LEMMA DelayInvariant ==
  ASSUME 0 \notin Delay
  PROVE  Spec => [](KernelInv /\ DelayInv)
<1>1. Init => KernelInv /\ DelayInv
  <2>1. ASSUME Init
        PROVE  DelayInv
    BY <2>1 DEF Init, DelayInv, Deltas
  <2> QED
    BY <2>1, KernelInit
<1>2. KernelInv /\ DelayInv /\ [Next]_vars => (KernelInv /\ DelayInv)'
  BY KernelStep, DelayKept
<1> QED
  BY <1>1, <1>2, PTL DEF Spec

\* The keys up to a process sum up to the ticks it still has to sleep, whoever
\* enters the delta list or leaves it, and however many sleep.
THEOREM DeltasStayExact ==
  ASSUME 0 \notin Delay
  PROVE  Spec => []DeltasExact
<1>1. ASSUME KernelInv, DelayInv
      PROVE  DeltasExact
  <2>1. DOMAIN sleepq = 1 .. Len(sleepq)
    BY <1>1, DelayTypes
  <2> QED
    BY <1>1, <2>1, DelayTypes, DeltasSum, SMTT(30) DEF DelayInv, DeltasExact
<1> QED
  BY <1>1, DelayInvariant, PTL

\* A process that sleeps still has a tick to sleep: nobody sleeps too long.
THEOREM NobodySleepsOn ==
  ASSUME 0 \notin Delay
  PROVE  Spec => []SleepsNoLonger
<1>1. ASSUME KernelInv, DelayInv
      PROVE  SleepsNoLonger
  <2>1. ASSUME NEW p \in Pid, prstate[p] = "sleep"
        PROVE  left[p] > 0
    <3>1. In(sleepq, p)
      BY <1>1, <2>1, NowLinked DEF KernelInv, Asleep
    <3>2. PICK i \in 1 .. Len(sleepq) : sleepq[i] = p
      BY <1>1, <3>1, DelayTypes, InDef
    <3> QED
      BY <1>1, <3>2 DEF DelayInv, Deltas
  <2> QED
    BY <2>1 DEF SleepsNoLonger
<1> QED
  BY <1>1, DelayInvariant, PTL
==============================================================================
