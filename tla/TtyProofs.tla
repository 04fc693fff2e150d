------------------------------- MODULE TtyProofs -------------------------------
(***************************************************************************)
(* The console: the proofs of InputFaithful, OutputFaithful and            *)
(* OutputGoesOn, for every length of the buffers and of the FIFO, every    *)
(* number of processes and whatever is typed, written and read.            *)
(*                                                                         *)
(* The first two are inductive with what they leave open: that who is in a *)
(* queue is in the call it belongs to, and what it has still to put or to  *)
(* take.  OutInv and InInv share no variable but ttyon: a step of one side *)
(* leaves the other alone.  What is in a ring is RingHolds, and the first  *)
(* sections say how rings and semaphores change.                           *)
(***************************************************************************)
EXTENDS Tty, CommonProofs

-------------------------------------------------------------------------------
(* Rings *)

\* The characters that a ring may hold: any string.
Chars == STRING \cup Key \cup {"cr", "none"}

LEMMA PairIn ==
  ASSUME NEW X, NEW x \in X, NEW y \in X
  PROVE  <<x, y>> \in Seq(X)
  OBVIOUS

\* A ring of n places holds chars from place head on.
RingHolds(ring, n, head, chars) ==
  \A i \in 1 .. Len(chars) : ring[(head + i - 1) % n] = chars[i]

\* The first m are taken out.
Dropped(ring, n, head, chars, m) ==
  LET left == SubSeq(chars, m + 1, Len(chars)) IN
  /\ left \in Seq(Chars) /\ Len(left) = Len(chars) - m
  /\ (head + m) % n \in 0 .. n - 1
  /\ RingHolds(ring, n, (head + m) % n, left)
  /\ (((head + m) % n) + Len(left)) % n = (head + Len(chars)) % n

LEMMA RingDrops ==
  ASSUME NEW n \in Nat \ {0}, NEW ring, NEW head \in Nat, NEW chars \in Seq(Chars), NEW m \in 0 .. Len(chars),
         RingHolds(ring, n, head, chars)
  PROVE  Dropped(ring, n, head, chars, m)
<1> DEFINE left == SubSeq(chars, m + 1, Len(chars))
           x == head + m
           L == Len(chars)
<1>1. L \in Nat /\ x \in Int /\ m \in Int /\ m <= L
  OBVIOUS
<1>2. left \in Seq(Chars) /\ Len(left) = L - m /\ \A i \in 1 .. L - m : left[i] = chars[m + i]
  OBVIOUS
<1> HIDE DEF left, x, L
<1>3. x % n \in 0 .. n - 1 /\ \A k \in Int : ((x % n) + k) % n = (x + k) % n
  BY <1>1, RingShift
<1>4. ASSUME NEW i \in 1 .. Len(left)
      PROVE  ring[((x % n) + i - 1) % n] = left[i]
  <2>1. i \in Int /\ i \in 1 .. L - m /\ i - 1 \in Int /\ m + i \in 1 .. L
    BY <1>1, <1>2
  <2>2. ((x % n) + (i - 1)) % n = (x + (i - 1)) % n
    BY <1>3, <2>1
  <2>3. x + (i - 1) = head + (m + i) - 1
    BY <1>1, <2>1 DEF x
  <2>4. (x % n) + (i - 1) = (x % n) + i - 1
    BY <1>3, <2>1
  <2>5. ring[(head + (m + i) - 1) % n] = chars[m + i]
    BY <2>1 DEF RingHolds, L
  <2> QED
    BY <1>2, <2>1, <2>2, <2>3, <2>4, <2>5
<1>5. ((x % n) + Len(left)) % n = (head + L) % n
  <2>1. x + (L - m) = head + L /\ L - m \in Int
    BY <1>1 DEF x
  <2> QED
    BY <1>2, <1>3, <2>1
<1> QED
  BY <1>2, <1>3, <1>4, <1>5 DEF Dropped, RingHolds, left, x, L

\* More characters are put behind those that there are.
LEMMA RingPuts ==
  ASSUME NEW n \in Nat \ {0}, NEW ring, NEW after, NEW head \in Nat,
         NEW chars \in Seq(Chars), NEW now \in Seq(Chars), Len(chars) + Len(now) <= n,
         RingHolds(ring, n, head, chars),
         \A i \in 1 .. Len(chars) : after[(head + i - 1) % n] = ring[(head + i - 1) % n],
         \A d \in 0 .. Len(now) - 1 : after[(head + Len(chars) + d) % n] = now[d + 1]
  PROVE  RingHolds(after, n, head, chars \o now)
<1> DEFINE L == Len(chars)
           N == Len(now)
           all == chars \o now
<1>1. /\ L \in Nat /\ N \in Nat /\ Len(all) = L + N
      /\ \A i \in 1 .. L + N : all[i] = IF i <= L THEN chars[i] ELSE now[i - L]
  BY ConcatProperties
<1> HIDE DEF all, L, N
<1> SUFFICES ASSUME NEW i \in 1 .. L + N
             PROVE  after[(head + i - 1) % n] = all[i]
  BY <1>1 DEF RingHolds, all
<1>2. CASE i <= L
  <2>1. i \in 1 .. L
    BY <1>1, <1>2
  <2> QED
    BY <1>1, <1>2, <2>1 DEF RingHolds, L
<1>3. CASE ~(i <= L)
  <2> DEFINE d == i - L - 1
  <2>1. d \in 0 .. N - 1 /\ head + L + d = head + i - 1 /\ d + 1 = i - L
    BY <1>1, <1>3
  <2>2. after[(head + L + d) % n] = now[d + 1]
    BY <2>1 DEF L, N
  <2> HIDE DEF d
  <2> QED
    BY <1>1, <1>3, <2>1, <2>2
<1> QED
  BY <1>2, <1>3

LEMMA ModSmall ==
  ASSUME NEW n \in Nat \ {0}, NEW r \in 0 .. n - 1
  PROVE  r % n = r
<1>1. \A q \in Int : (n * q + r) % n = r
  BY ModIs
<1>2. 0 \in Int /\ n * 0 + r = r
  OBVIOUS
<1>3. (n * 0 + r) % n = r
  BY <1>1, <1>2, Zenon
<1> QED
  BY <1>2, <1>3, Zenon

\* What Stored puts where.
LEMMA RingStores ==
  ASSUME NEW n \in Nat \ {0}, NEW ring \in [0 .. n - 1 -> Chars], NEW head \in Nat,
         NEW chars \in Seq(Chars), NEW now \in Seq(Chars), Len(chars) + Len(now) <= n,
         RingHolds(ring, n, head, chars)
  PROVE  LET after == Stored(ring, n, (head + Len(chars)) % n, now) IN
         /\ after \in [0 .. n - 1 -> Chars]
         /\ RingHolds(after, n, head, chars \o now)
<1> DEFINE L == Len(chars)
           N == Len(now)
           at == (head + L) % n
           after == Stored(ring, n, at, now)
<1>1. L \in Nat /\ N \in Nat /\ head + L \in Int /\ \A k \in 1 .. N : now[k] \in Chars
  OBVIOUS
<1>2. at \in 0 .. n - 1
  <2> DEFINE x == head + L
  <2>1. x \in Int
    BY <1>1
  <2> HIDE DEF x
  <2>2. x % n \in 0 .. n - 1
    BY <2>1, RingShift
  <2> QED
    BY <2>2 DEF x
<1>3. \A k \in 0 .. n - 1 : (k - at) % n \in 0 .. n - 1
  <2> HIDE DEF at
  <2> SUFFICES ASSUME NEW k \in 0 .. n - 1
               PROVE  (k - at) % n \in 0 .. n - 1
    OBVIOUS
  <2>1. k - at \in Int
    BY <1>2
  <2> QED
    BY <2>1, RingShift
<1>4. after = [k \in 0 .. n - 1 |->
                 IF k < n /\ (k - at) % n < N THEN now[((k - at) % n) + 1] ELSE ring[k]]
  <2>1. DOMAIN ring = 0 .. n - 1
    OBVIOUS
  <2> QED
    BY <2>1 DEF Stored
<1> HIDE DEF at, after, L, N
<1>5. after \in [0 .. n - 1 -> Chars]
  <2> SUFFICES ASSUME NEW k \in 0 .. n - 1
               PROVE  (IF k < n /\ (k - at) % n < N THEN now[((k - at) % n) + 1] ELSE ring[k]) \in Chars
    BY <1>4
  <2> DEFINE d == (k - at) % n
  <2>1. d \in 0 .. n - 1
    BY <1>3
  <2> HIDE DEF d
  <2>2. d < N => now[d + 1] \in Chars
    BY <1>1, <2>1
  <2> QED
    BY <2>2 DEF d
\* The distance of a place from where they are put.
<1>6. ASSUME NEW d \in -L .. n - L - 1
      PROVE  LET k == (head + L + d) % n IN
             /\ k \in 0 .. n - 1 /\ (k - at) % n = IF d >= 0 THEN d ELSE d + n
  <2> DEFINE k == (head + L + d) % n
             x == head + L + d
             e == IF d >= 0 THEN d ELSE d + n
  <2>1. x \in Int /\ d \in Int /\ e \in 0 .. n - 1 /\ x \div n \in Int /\ (head + L) \div n \in Int
    <3>1. x \in Int /\ d \in Int /\ head + L \in Int
      BY <1>1
    <3>2. L <= n
      BY <1>1 DEF L, N
    <3>3. e \in 0 .. n - 1
      BY <1>1, <3>1, <3>2
    <3> HIDE DEF x, e
    <3> QED
      BY <3>1, <3>3, DivMod
  <2>2. x % n \in 0 .. n - 1 /\ n * (x \div n) + (x % n) = x
    <3> HIDE DEF x
    <3> QED
      BY <2>1, DivMod
  <2>3. n * ((head + L) \div n) + at = head + L /\ at \in Int
    <3> DEFINE y == head + L
    <3>1. y \in Int
      BY <1>1
    <3> HIDE DEF y
    <3>2. n * (y \div n) + (y % n) = y /\ y % n \in 0 .. n - 1
      BY <3>1, DivMod
    <3> QED
      BY <3>2 DEF y, at
  <2> DEFINE p == x \div n
             q == (head + L) \div n
  <2>4. k = x % n /\ p \in Int /\ q \in Int
    BY <2>1
  <2>5. n * p + k = x /\ n * q + at = head + L /\ x = head + L + d
    BY <2>2, <2>3, <2>4
  <2>6. head + L \in Int
    BY <1>1
  <2> DEFINE y == head + L
  <2>7. n * p + k = y + d /\ n * q + at = y /\ y \in Int /\ k \in Int
    BY <2>2, <2>5, <2>6
  <2> HIDE DEF p, q, y, x, k
  <2> DEFINE z == IF d >= 0 THEN q - p ELSE q - p - 1
  <2>8. z \in Int /\ k - at = n * z + e
    <3> DEFINE a == n * p
               b == n * q
    <3>0. a \in Int /\ b \in Int /\ d \in Int
      BY <2>1, <2>4
    <3>1. n * (q - p) = b - a /\ n * (q - p - 1) = b - a - n
      BY <2>4
    <3>2. a + k = y + d /\ b + at = y /\ q - p \in Int /\ q - p - 1 \in Int
      BY <2>4, <2>7
    <3>3. CASE d >= 0
      <4>1. z = q - p /\ e = d
        BY <3>3
      <4>2. n * z = b - a /\ z \in Int
        BY <3>1, <3>2, <4>1
      <4>3. k - at = (b - a) + e
        <5> HIDE DEF a, b, z, e
        <5> QED
          BY <2>3, <2>7, <3>0, <3>2, <4>1
      <4> HIDE DEF a, b, z, e
      <4> QED
        BY <4>2, <4>3, Zenon
    <3>4. CASE ~(d >= 0)
      <4>1. z = q - p - 1 /\ e = d + n
        BY <3>4
      <4>2. n * z = b - a - n /\ z \in Int
        BY <3>1, <3>2, <4>1
      <4>3. k - at = (b - a - n) + e
        <5> HIDE DEF a, b, z, e
        <5> QED
          BY <2>3, <2>7, <3>0, <3>2, <4>1
      <4> HIDE DEF a, b, z, e
      <4> QED
        BY <4>2, <4>3, Zenon
    <3> QED
      BY <3>3, <3>4
  <2> HIDE DEF z
  <2>9. (k - at) % n = e
    <3> HIDE DEF e
    <3> QED
      BY <2>1, <2>8, ModIs
  <2> QED
    BY <2>2, <2>4, <2>9 DEF k, x
<1>7. ASSUME NEW i \in 1 .. L
      PROVE  after[(head + i - 1) % n] = ring[(head + i - 1) % n]
  <2> DEFINE d == i - 1 - L
             k == (head + i - 1) % n
  <2>0. L + N <= n
    BY DEF L, N
  <2>1. d \in -L .. n - L - 1 /\ d < 0 /\ head + L + d = head + i - 1 /\ d + n >= N /\ d + n \in Int
    BY <1>1, <2>0
  <2>2. k \in 0 .. n - 1 /\ (k - at) % n = d + n
    <3> HIDE DEF d
    <3>1. (head + L + d) % n = k
      BY <2>1
    <3> QED
      BY <1>6, <2>1, <3>1
  <2>3. ~((k - at) % n < N)
    <3> HIDE DEF d, k
    <3> QED
      BY <1>1, <2>1, <2>2
  <2> HIDE DEF d, k
  <2>4. after[k] = ring[k]
    BY <1>4, <2>2, <2>3
  <2> QED
    BY <2>4 DEF k
<1>8. ASSUME NEW d \in 0 .. N - 1
      PROVE  after[(head + L + d) % n] = now[d + 1]
  <2> DEFINE k == (head + L + d) % n
  <2>0. L + N <= n
    BY DEF L, N
  <2>1. d \in -L .. n - L - 1 /\ d >= 0 /\ d < N
    BY <1>1, <2>0
  <2>2. k \in 0 .. n - 1 /\ (k - at) % n = d
    BY <1>6, <2>1
  <2> HIDE DEF k
  <2>3. after[k] = now[d + 1]
    BY <1>4, <2>1, <2>2
  <2> QED
    BY <2>3 DEF k
<1>9. RingHolds(after, n, head, chars \o now)
  BY <1>7, <1>8, RingPuts DEF L, N
<1> QED
  BY <1>5, <1>9 DEF at, after, L

\* One character is put behind those that there are.
OnePut(ring, n, D, head, chars, c) ==
  LET at == (head + Len(chars)) % n
      after == [ring EXCEPT ![at] = c]
  IN /\ after \in [D -> Chars]
     /\ Append(chars, c) \in Seq(Chars) /\ Len(Append(chars, c)) = Len(chars) + 1
     /\ RingHolds(after, n, head, Append(chars, c))
     /\ (IF at + 1 >= n THEN 0 ELSE at + 1) = (head + (Len(chars) + 1)) % n
     /\ at \in 0 .. n - 1

LEMMA RingPutsOne ==
  ASSUME NEW n \in Nat \ {0}, NEW ring, NEW D, 0 .. n - 1 \subseteq D, ring \in [D -> Chars], NEW head \in Nat,
         NEW chars \in Seq(Chars), NEW c \in Chars, Len(chars) + 1 <= n,
         RingHolds(ring, n, head, chars)
  PROVE  OnePut(ring, n, D, head, chars, c)
<1> DEFINE L == Len(chars)
           x == head + L
           at == x % n
           after == [ring EXCEPT ![at] = c]
           all == Append(chars, c)
<1>1. L \in Nat /\ x \in Int
  OBVIOUS
<1>2. all \in Seq(Chars) /\ Len(all) = L + 1 /\ (\A i \in 1 .. L : all[i] = chars[i]) /\ all[L + 1] = c
  OBVIOUS
<1> HIDE DEF x, L, all
<1>3. at \in 0 .. n - 1 /\ ((x % n) + 1) % n = (x + 1) % n
  <2>1. x % n \in 0 .. n - 1
    BY <1>1, RingShift
  <2>2. 1 \in Int
    OBVIOUS
  <2>3. ((x % n) + 1) % n = (x + 1) % n
    BY <1>1, <2>2, RingShift
  <2> QED
    BY <2>1, <2>3
<1>4. (IF at + 1 >= n THEN 0 ELSE at + 1) = (head + (L + 1)) % n
  <2>1. head + (L + 1) = x + 1
    BY <1>1 DEF x
  <2>2. CASE at + 1 >= n
    <3>1. at + 1 = n * 1 + 0 /\ 0 \in 0 .. n - 1
      BY <1>3, <2>2
    <3>2. (n * 1 + 0) % n = 0
      BY <3>1, ModIs
    <3> QED
      BY <1>3, <2>1, <2>2, <3>1, <3>2
  <2>3. CASE ~(at + 1 >= n)
    <3>1. at + 1 \in 0 .. n - 1
      BY <1>3, <2>3
    <3>2. (at + 1) % n = at + 1
      BY <3>1, ModSmall
    <3> QED
      BY <1>3, <2>1, <2>3, <3>1, <3>2
  <2> QED
    BY <2>2, <2>3
<1>5. ASSUME NEW i \in 1 .. L
      PROVE  (head + i - 1) % n \in 0 .. n - 1 /\ (head + i - 1) % n # at
  <2> DEFINE y == head + i - 1
  <2>0. L + 1 <= n
    BY DEF L
  <2>1. y \in Int /\ y <= x /\ x < y + n /\ y # x
    BY <1>1, <2>0 DEF x
  <2> HIDE DEF y
  <2>2. y % n \in 0 .. n - 1 /\ y % n # x % n
    BY <1>1, <2>1, RingApart, RingShift
  <2> QED
    BY <2>2 DEF y
<1>6. RingHolds(after, n, head, all)
  <2> SUFFICES ASSUME NEW i \in 1 .. L + 1
               PROVE  after[(head + i - 1) % n] = all[i]
    BY <1>2 DEF RingHolds
  <2>1. CASE i \in 1 .. L
    <3>1. ring[(head + i - 1) % n] = chars[i]
      BY <2>1 DEF RingHolds, L
    <3> QED
      BY <1>2, <1>5, <2>1, <3>1
  <2>2. CASE i = L + 1
    <3>1. head + i - 1 = x
      BY <1>1, <2>2 DEF x
    <3>2. at \in D
      BY <1>3
    <3> HIDE DEF at
    <3>3. after[at] = c
      BY <3>2
    <3> QED
      BY <1>2, <2>2, <3>1, <3>3 DEF at
  <2> QED
    BY <1>1, <2>1, <2>2
<1>7. after \in [D -> Chars]
  BY <1>3
<1> QED
  BY <1>2, <1>3, <1>4, <1>6, <1>7 DEF OnePut, after, at, x, L, all

-------------------------------------------------------------------------------
(* Semaphores that are waited on for several units, and signalled with several *)

\* Taking k of the units that there are.
LEMMA SemLess ==
  ASSUME NEW C, NEW s, SoundSem(C, s), s.ok, NEW k \in 0 .. Avail(s)
  PROVE  LET t == [s EXCEPT !.count = @ - k] IN
         /\ SoundSem(C, t) /\ t.ok /\ t.queue = s.queue /\ Avail(t) = Avail(s) - k
<1> DEFINE c == s.count - k
           t == [s EXCEPT !.count = @ - k]
<1>1. /\ s \in SemOf(C) /\ s.count \in Int /\ Avail(s) \in Nat /\ s.queue \in Seq(C) /\ k \in Nat /\ c \in Int
  BY SemFacts
<1>3. t.ok = s.ok /\ t.count = c /\ t.queue = s.queue /\ t \in SemOf(C)
  <2>1. t = [s EXCEPT !.count = c]
    BY <1>1
  <2> HIDE DEF t, c
  <2> QED
    BY <1>1, <2>1 DEF SemOf
<1> HIDE DEF t
<1>4. k = 0 \/ (s.count > 0 /\ k <= s.count)
  BY <1>1 DEF Avail
<1>5. SoundSem(C, t)
  <2>1. Len(s.queue) = IF s.count < 0 THEN -s.count ELSE 0
    BY DEF SoundSem
  <2>2. Len(t.queue) = IF t.count < 0 THEN -t.count ELSE 0
    BY <1>1, <1>3, <1>4, <2>1
  <2> QED
    BY <1>3, <2>2 DEF SoundSem
<1>6. Avail(t) = Avail(s) - k
  BY <1>1, <1>3, <1>4 DEF Avail
<1> QED
  BY <1>3, <1>5, <1>6 DEF t

\* The places that p has already.
Has(p, E) == IF p \in E THEN 1 ELSE 0

\* One who has a place already, or none, takes m in all: those that there are at most.
LEMMA SemTakesMore ==
  ASSUME NEW C, IsFiniteSet(C), NEW s, SoundSem(C, s), s.ok, NEW E \in SUBSET C, NEW p \in C,
         ~Queued(s, p), NEW k \in 0 .. Avail(s)
  PROVE  LET t == [s EXCEPT !.count = @ - k]
             m == Has(p, E) + k
         IN  m <= Units(E, s) /\ Units(E \ {p}, t) = Units(E, s) - m
<1> DEFINE has == Has(p, E)
           t == [s EXCEPT !.count = @ - k]
           m == has + k
<1>0. has \in {0, 1} /\ (has = 0 => p \notin E) /\ (has = 1 => p \in E)
  BY DEF Has
<1> HIDE DEF has
<1>1. /\ s \in SemOf(C) /\ s.count \in Int /\ Avail(s) \in Nat /\ s.queue \in Seq(C)
  BY SemFacts
<1>2. k \in Nat /\ m \in Nat
  BY <1>0, <1>1
<1>5. SoundSem(C, t) /\ t.ok /\ t.queue = s.queue /\ Avail(t) = Avail(s) - k
  BY SemLess
<1> HIDE DEF t
<1>7. \A F \in SUBSET C : Units(F, t) = Units(F, s) - k
  <2> SUFFICES ASSUME NEW F \in SUBSET C
               PROVE  Units(F, t) = Units(F, s) - k
    OBVIOUS
  <2>1. Through(F, t) = Through(F, s)
    BY <1>5 DEF Through, Queued
  <2>2. /\ Units(F, s) = Avail(s) + Cardinality(Through(F, s)) /\ Cardinality(Through(F, s)) \in Nat
        /\ Units(F, t) = Avail(t) + Cardinality(Through(F, s))
    BY <1>5, <2>1, SemUnits
  <2> QED
    BY <1>1, <1>2, <1>5, <2>2
<1>8. Units(E \ {p}, s) = Units(E, s) - has /\ Units(E \ {p}, s) \in Nat /\ Units(E, s) \in Nat
      /\ Avail(s) <= Units(E \ {p}, s)
  <2>1. Units(E \ {p}, s) \in Nat /\ Units(E, s) \in Nat /\ Avail(s) <= Units(E \ {p}, s)
    <3>1. Units(E, s) \in Nat
      BY SemUnits
    <3>2. E \ {p} \in SUBSET C
      OBVIOUS
    <3>3. /\ Units(E \ {p}, s) = Avail(s) + Cardinality(Through(E \ {p}, s))
          /\ Cardinality(Through(E \ {p}, s)) \in Nat
      BY <3>2, SemUnits
    <3> QED
      BY <1>1, <3>1, <3>3
  <2>2. CASE has = 0
    <3> DEFINE F == E \ {p}
    <3>1. F = E
      BY <1>0, <2>2
    <3>2. Units(F, s) = Units(E, s) /\ Units(F, s) \in Nat /\ Avail(s) <= Units(F, s)
      <4>1. Units(F, s) \in Nat /\ Avail(s) <= Units(F, s)
        BY <2>1
      <4> HIDE DEF F
      <4> QED
        BY <3>1, <4>1
    <3> QED
      BY <2>2, <3>2
  <2>3. CASE has = 1
    <3>1. Units(E \ {p}, s) = Units(E, s) - 1
      BY <1>0, <2>3, SemGoesOn
    <3> QED
      BY <2>1, <2>3, <3>1
  <2> QED
    BY <1>0, <2>2, <2>3
<1>9. Units(E \ {p}, t) = Units(E, s) - m /\ m <= Units(E, s)
  <2>1. Units(E \ {p}, t) = Units(E \ {p}, s) - k
    BY <1>7
  <2> HIDE DEF t
  <2> QED
    BY <1>0, <1>1, <1>2, <1>8, <2>1
<1> QED
  BY <1>9 DEF t, m, has

Joined(C, E, r, p) ==
  /\ SoundSem(C, Waits(r, p)) /\ Waits(r, p).ok
  /\ ToSet(Waits(r, p).queue) = ToSet(r.queue) \cup {p}
  /\ Units(E \cup {p}, Waits(r, p)) = Units(E \ {p}, r)

\* One who finds none left waits, whether it was let through or not.
LEMMA SemTakesAll ==
  ASSUME NEW C, IsFiniteSet(C), NEW r, SoundSem(C, r), r.ok, Avail(r) = 0, NEW E \in SUBSET C, NEW p \in C,
         ~Queued(r, p)
  PROVE  Joined(C, E, r, p)
<1>1. r.count \in Int /\ ~(r.count > 0)
  <2>1. r.count \in Int
    BY SemFacts
  <2> QED
    BY <2>1 DEF Avail
<1>2. E \ {p} \in SUBSET C /\ p \notin E \ {p} /\ (E \ {p}) \cup {p} = E \cup {p}
  OBVIOUS
<1> DEFINE t == Waits(r, p)
<1>3. \A F \in SUBSET C : p \notin F => Units(F \cup {p}, t) = Units(F, r)
  BY <1>1, SemQueues
<1>4. SoundSem(C, t) /\ t.ok /\ ToSet(t.queue) = ToSet(r.queue) \cup {p}
  BY <1>1, SemQueues
<1>5. Units((E \ {p}) \cup {p}, t) = Units(E \ {p}, r)
  BY <1>2, <1>3
<1> QED
  BY <1>2, <1>4, <1>5 DEF Joined

\* Signalling n more times.
LEMMA SignaledNext ==
  ASSUME NEW C, NEW s, SoundSem(C, s), s.ok, NEW n \in Nat
  PROVE  SignaledN(s, n + 1) = SignaledN(Signaled(s), n)
<1> DEFINE Q == s.queue
           L == Len(Q)
           a == IF n + 1 < L THEN n + 1 ELSE L
           b == IF 1 < L THEN 1 ELSE L
           R == SubSeq(Q, b + 1, L)
           d == IF n < Len(R) THEN n ELSE Len(R)
<1>1. s \in SemOf(C) /\ s.count \in Int /\ Q \in Seq(C) /\ L \in Nat
  BY SemFacts
<1>2. R \in Seq(C) /\ Len(R) = L - b /\ \A i \in 1 .. L - b : R[i] = Q[b + i]
  <2>1. b \in 0 .. L
    BY <1>1
  <2> HIDE DEF b
  <2> QED
    BY <1>1, <2>1
<1>3. /\ Signaled(s) = [s EXCEPT !.count = @ + 1, !.queue = R]
      /\ SignaledN(s, n + 1) = [s EXCEPT !.count = @ + (n + 1), !.queue = SubSeq(Q, a + 1, L)]
  BY DEF Signaled, SignaledN
<1> DEFINE u == Signaled(s)
<1>4. u.ok /\ u.count = s.count + 1 /\ u.queue = R /\ u \in SemOf(C)
  <2> DEFINE c == s.count + 1
  <2>1. u = [s EXCEPT !.count = c, !.queue = R]
    BY <1>3
  <2>2. c \in Int
    BY <1>1
  <2> HIDE DEF u, c, R
  <2>3. u \in SemOf(C) /\ u.ok = s.ok /\ u.count = c /\ u.queue = R
    BY <1>1, <1>2, <2>1, <2>2 DEF SemOf
  <2> QED
    BY <2>3 DEF c
<1>5. SubSeq(R, d + 1, Len(R)) = SubSeq(Q, a + 1, L)
  <2> HIDE DEF R
  <2>1. b \in 0 .. L /\ d = a - b /\ a \in b .. L /\ Len(R) - d = L - a
    <3> DEFINE r == Len(R)
    <3>1. L \in Nat /\ r = L - b /\ r \in Int
      BY <1>1, <1>2
    <3> HIDE DEF L
    <3>2. b \in 0 .. L /\ a \in b .. L
      BY <3>1
    <3>3. d = a - b
      <4> HIDE DEF r
      <4>1. d = IF n < r THEN n ELSE r
        BY DEF r
      <4> HIDE DEF d
      <4> QED
        BY <3>1, <4>1
    <3> HIDE DEF a, b, d, r
    <3>4. r - d = L - a
      BY <3>1, <3>2, <3>3
    <3> QED
      BY <3>2, <3>3, <3>4 DEF r
  <2> HIDE DEF a, b, d, L
  <2>2. /\ SubSeq(R, d + 1, Len(R)) \in Seq(C) /\ Len(SubSeq(R, d + 1, Len(R))) = L - a
        /\ \A i \in 1 .. L - a : SubSeq(R, d + 1, Len(R))[i] = R[d + i]
    BY <1>1, <1>2, <2>1
  <2>3. /\ SubSeq(Q, a + 1, L) \in Seq(C) /\ Len(SubSeq(Q, a + 1, L)) = L - a
        /\ \A i \in 1 .. L - a : SubSeq(Q, a + 1, L)[i] = Q[a + i]
    BY <1>1, <2>1 DEF L
  <2>4. \A i \in 1 .. L - a : R[d + i] = Q[a + i]
    <3> SUFFICES ASSUME NEW i \in 1 .. L - a
                 PROVE  R[d + i] = Q[a + i]
      OBVIOUS
    <3>1. d + i \in 1 .. L - b /\ b + (d + i) = a + i
      BY <1>1, <2>1
    <3> QED
      BY <1>2, <3>1
  <2> DEFINE S1 == SubSeq(R, d + 1, Len(R))
             S2 == SubSeq(Q, a + 1, L)
  <2>5. Len(S1) = Len(S2) /\ \A i \in 1 .. Len(S1) : S1[i] = S2[i]
    BY <2>2, <2>3, <2>4
  <2>6. S1 \in Seq(C) /\ S2 \in Seq(C)
    BY <2>2, <2>3
  <2> HIDE DEF S1, S2
  <2>7. S1 = S2
    BY <2>5, <2>6
  <2> QED
    BY <2>7 DEF S1, S2
<1> HIDE DEF u
<1>6. SignaledN(u, n) = [u EXCEPT !.count = @ + n, !.queue = SubSeq(R, d + 1, Len(R))]
  BY <1>4 DEF SignaledN
<1> DEFINE w == SubSeq(Q, a + 1, L)
           x == SignaledN(s, n + 1)
           y == SignaledN(u, n)
<1>7. w \in Seq(C)
  <2>1. a \in 0 .. L
    BY <1>1
  <2> HIDE DEF a
  <2> QED
    BY <1>1, <2>1
<1> DEFINE c == s.count + (n + 1)
<1>8. x = [s EXCEPT !.count = c, !.queue = w]
  BY <1>3
<1>9. y = [u EXCEPT !.count = c, !.queue = w]
  <2>1. u.count + n = c
    BY <1>1, <1>4
  <2>2. y = [u EXCEPT !.count = u.count + n, !.queue = w]
    BY <1>5, <1>6
  <2> QED
    BY <2>1, <2>2
<1>10. c \in Int
  BY <1>1
<1> HIDE DEF w, x, y, c, R, Q
<1>11. x \in SemOf(C) /\ y \in SemOf(C) /\ x.ok = y.ok /\ x.count = y.count /\ x.queue = y.queue
  BY <1>1, <1>4, <1>7, <1>8, <1>9, <1>10 DEF SemOf
<1>12. x = y
  BY <1>11 DEF SemOf
<1> QED
  BY <1>12 DEF x, y, u

\* n signals add n units.
Gains(C, E, s, n) ==
  LET t == SignaledN(s, n) IN
  /\ SoundSem(C, t) /\ t.ok /\ ToSet(t.queue) \subseteq ToSet(s.queue)
  /\ Units(E, t) = Units(E, s) + n

LEMMA SemAddsMore ==
  ASSUME NEW C, IsFiniteSet(C), NEW E \in SUBSET C, NEW s0, SoundSem(C, s0), s0.ok, ToSet(s0.queue) \subseteq E,
         NEW n \in Nat
  PROVE  Gains(C, E, s0, n)
<1> DEFINE Good(s) == SoundSem(C, s) /\ s.ok /\ ToSet(s.queue) \subseteq E
           T == {k \in Nat : \A s \in SemOf(C) : Good(s) => Gains(C, E, s, k)}
<1>0. \A s : Good(s) => s \in SemOf(C) /\ Units(E, s) \in Nat
  BY SemFacts, SemUnits
<1>1. 0 \in T
  <2> SUFFICES ASSUME NEW s \in SemOf(C), Good(s)
               PROVE  Gains(C, E, s, 0)
    OBVIOUS
  <2>1. s.queue \in Seq(C) /\ s.count \in Int /\ Len(s.queue) \in Nat /\ Units(E, s) \in Nat
    BY <1>0, SemFacts
  <2>2. SignaledN(s, 0) = s
    <3> DEFINE Q == s.queue
               k == IF 0 < Len(Q) THEN 0 ELSE Len(Q)
    <3>1. k = 0
      BY <2>1
    <3>2. SubSeq(Q, k + 1, Len(Q)) = Q
      <4>1. SubSeq(Q, 1, Len(Q)) = Q
        BY <2>1, SubSeqFull
      <4>2. k + 1 = 1
        BY <3>1
      <4> HIDE DEF k, Q
      <4> QED
        BY <4>1, <4>2
    <3>3. SignaledN(s, 0) = [s EXCEPT !.count = @ + 0, !.queue = SubSeq(Q, k + 1, Len(Q))]
      BY DEF SignaledN
    <3>4. s.count + 0 = s.count
      BY <2>1
    <3>5. SignaledN(s, 0) = [s EXCEPT !.count = s.count, !.queue = s.queue]
      BY <3>2, <3>3, <3>4
    <3> QED
      BY <3>5 DEF SemOf
  <2>3. Units(E, s) + 0 = Units(E, s)
    BY <2>1
  <2>4. SoundSem(C, s) /\ s.ok
    OBVIOUS
  <2> HIDE DEF Good
  <2> QED
    BY <2>2, <2>3, <2>4 DEF Gains
<1>2. \A k \in Nat : k \in T => k + 1 \in T
  <2> SUFFICES ASSUME NEW k \in Nat, k \in T
               PROVE  \A s \in SemOf(C) : Good(s) => Gains(C, E, s, k + 1)
    <3> HIDE DEF Good
    <3> QED
      OBVIOUS
  <2> SUFFICES ASSUME NEW s \in SemOf(C), Good(s)
               PROVE  Gains(C, E, s, k + 1)
    <3> HIDE DEF Good
    <3> QED
      OBVIOUS
  <2> DEFINE u == Signaled(s)
  <2>1. /\ SoundSem(C, u) /\ u.ok /\ ToSet(u.queue) \subseteq ToSet(s.queue)
        /\ Units(E, u) = Units(E, s) + 1
    <3>1. SoundSem(C, u) /\ u.ok
      BY SemAdds
    <3>2. ToSet(u.queue) \subseteq ToSet(s.queue)
      BY SemAdds
    <3>3. Units(E, u) = Units(E, s) + 1
      BY SemAdds
    <3> QED
      BY <3>1, <3>2, <3>3
  <2>2. SignaledN(s, k + 1) = SignaledN(u, k)
    BY SignaledNext
  <2> HIDE DEF u
  <2>3. Good(u) /\ u \in SemOf(C)
    BY <1>0, <2>1
  <2>4. Gains(C, E, u, k)
    BY <2>3
  <2>5. Units(E, s) \in Nat
    BY <1>0
  <2> QED
    BY <2>1, <2>2, <2>4, <2>5 DEF Gains
<1> HIDE DEF T
<1>3. Nat \subseteq T
  BY <1>1, <1>2, Induct
<1>4. s0 \in SemOf(C) /\ Good(s0) /\ n \in T
  BY <1>0, <1>3
<1>5. Gains(C, E, s0, n)
  BY <1>4 DEF T
<1> QED
  BY <1>5

-------------------------------------------------------------------------------
(* Output *)

LEMMA TtyConst ==
  /\ IBufLen \in Nat \ {0} /\ IBufLen > 1 /\ OBufLen \in Nat \ {0} /\ EBufLen \in Nat \ {0}
  /\ FifoSize \in Nat \ {0} /\ IsFiniteSet(TtyProc)
  BY TtyAssumption

\* ttyputc's expansion of a text is a text.
LEMMA ExpandedIn == \A text \in Texts : Expanded(text) \in Seq(Chars)
<1> SUFFICES ASSUME NEW text \in Texts
             PROVE  Expanded(text) \in Seq(Chars)
  OBVIOUS
<1> DEFINE L == Len(text)
           X == Seq(Chars)
           More(k) == IF text[k] = "nl" THEN <<"cr", "nl">> ELSE <<text[k]>>
           G == [m \in Nat |-> [x \in X |-> IF m < L THEN x \o More(m + 1) ELSE x]]
<1>1. text \in Seq(STRING) /\ L \in Nat
  BY TtyAssumption
<1>2. \A k \in 1 .. L : More(k) \in X
  <2> SUFFICES ASSUME NEW k \in 1 .. L
               PROVE  More(k) \in X
    OBVIOUS
  <2>1. text[k] \in Chars
    BY <1>1 DEF Chars
  <2> DEFINE c == text[k]
  <2> HIDE DEF c
  <2>2. <<c>> \in Seq(Chars)
    BY <2>1 DEF c
  <2>3. <<"cr", "nl">> \in Seq(Chars)
    <3>1. "cr" \in Chars /\ "nl" \in Chars
      BY DEF Chars, Key
    <3> QED
      BY <3>1, PairIn
  <2>4. More(k) = IF c = "nl" THEN <<"cr", "nl">> ELSE <<c>>
    BY DEF c
  <2> HIDE DEF More
  <2> QED
    BY <2>2, <2>3, <2>4
<1> HIDE DEF More, L
<1>3. G \in [Nat -> [X -> X]]
  <2> SUFFICES ASSUME NEW m \in Nat, NEW x \in X
               PROVE  (IF m < L THEN x \o More(m + 1) ELSE x) \in X
    OBVIOUS
  <2>1. CASE m < L
    <3>1. m + 1 \in 1 .. L
      BY <1>1, <2>1
    <3>2. More(m + 1) \in X
      BY <1>2, <3>1
    <3> QED
      BY <2>1, <3>2, ConcatProperties
  <2> QED
    BY <2>1
<1>4. <<>> \in X
  OBVIOUS
<1>5. PICK h : Iterates(h, X, <<>>, G, L)
  <2> HIDE DEF G, X
  <2> QED
    BY <1>1, <1>3, <1>4, Recursion
<1>6. h \in [0 .. L -> X] /\ h[0] = <<>> /\ \A m \in 0 .. L - 1 : h[m + 1] = G[m][h[m]]
  BY <1>5 DEF Iterates
<1>7. \A i \in 0 .. L : i # 0 => h[i] = h[i - 1] \o More(i)
  <2> SUFFICES ASSUME NEW i \in 0 .. L, i # 0
               PROVE  h[i] = h[i - 1] \o More(i)
    OBVIOUS
  <2>1. i - 1 \in 0 .. L - 1 /\ (i - 1) + 1 = i /\ i - 1 \in Nat /\ i - 1 \in 0 .. L /\ i - 1 < L
    BY <1>1
  <2> HIDE DEF G, X
  <2>2. h[i] = G[i - 1][h[i - 1]] /\ h[i - 1] \in X
    BY <1>6, <2>1
  <2> QED
    BY <2>1, <2>2 DEF G
<1> DEFINE IsPut(g) ==
             g = [n \in 0 .. L |-> IF n = 0 THEN <<>> ELSE g[n - 1] \o More(n)]
<1>8. IsPut(h)
  <2> HIDE DEF G, X
  <2> QED
    BY <1>6, <1>7
<1>9. \E g : IsPut(g)
  BY <1>8
<1> DEFINE R == CHOOSE g : IsPut(g)
<1>10. Expanded(text) = R[L]
  BY DEF Expanded, More, L
<1>11. IsPut(R)
  <2> HIDE DEF IsPut
  <2> QED
    BY <1>9
<1> HIDE DEF R
<1> DEFINE T == {n \in Nat : n <= L => R[n] \in X}
<1>12. 0 \in T
  BY <1>1, <1>4, <1>11
<1>13. \A n \in Nat : n \in T => n + 1 \in T
  <2> SUFFICES ASSUME NEW n \in Nat, n \in T, n + 1 <= L
               PROVE  R[n + 1] \in X
    OBVIOUS
  <2>1. R[n] \in X /\ n + 1 \in 1 .. L /\ n + 1 \in 0 .. L /\ n + 1 # 0 /\ (n + 1) - 1 = n
    BY <1>1
  <2>2. R[n + 1] = R[n] \o More(n + 1)
    BY <1>11, <2>1
  <2>3. More(n + 1) \in X
    BY <1>2, <2>1
  <2> QED
    BY <2>1, <2>2, <2>3, ConcatProperties
<1> HIDE DEF T
<1>14. Nat \subseteq T
  BY <1>12, <1>13, Induct
<1>15. R[L] \in X
  BY <1>1, <1>14 DEF T
<1> QED
  BY <1>10, <1>15

Writing == {p \in TtyProc : ttyon[p] = "write"}
Reading == {p \in TtyProc : ttyon[p] = "read"}

OutTypes ==
  /\ obuf \in [0 .. OBufLen - 1 -> Chars] /\ pending \in Seq(Chars)
  /\ tyohead \in 0 .. OBufLen - 1 /\ tyotail \in 0 .. OBufLen - 1
  /\ SoundSem(TtyProc, tyosem) /\ tyosem.ok
  /\ ttyon \in [TtyProc -> {"none", "read", "write"}] /\ rest \in [TtyProc -> Seq(Chars)]
  /\ echoed \in 0 .. EBufLen - 1 /\ thre \in BOOLEAN /\ tyoheld \in BOOLEAN /\ tyiecho \in BOOLEAN
  /\ tyicursor \in Nat

\* Who waits for room writes, and has something left to put.
OutQueue == ToSet(tyosem.queue) \subseteq Writing /\ \A p \in Writing : rest[p] # <<>>

OutRing ==
  /\ RingHolds(obuf, OBufLen, tyohead, pending)
  /\ tyotail = (tyohead + Len(pending)) % OBufLen

\* A place is taken, free, or given to a writer that has not run since.
OutUnits == Len(pending) + Units(Writing, tyosem) = OBufLen

OutInv == OutTypes /\ OutQueue /\ OutRing /\ OutUnits

LEMMA TtyMinIs ==
  ASSUME NEW a \in Int, NEW b \in Int
  PROVE  TtyMin(a, b) \in {a, b} /\ TtyMin(a, b) <= a /\ TtyMin(a, b) <= b
  BY DEF TtyMin

LEMMA PutKeeps ==
  ASSUME OutInv, NEW p \in TtyProc, NEW chars \in Seq(Chars), NEW has \in {0, 1},
         has = 0 => ttyon[p] = "none",
         has = 1 => ttyon[p] = "write" /\ ~Queued(tyosem, p) /\ chars # <<>>,
         Put(p, chars, has)
  PROVE  OutInv' /\ (thre' \/ (pending' = pending /\ thre' = thre))
<1> DEFINE m == TtyMin(Len(chars), has + Avail(tyosem))
           k == m - has
           now == SubSeq(chars, 1, m)
           later == SubSeq(chars, m + 1, Len(chars))
           sem == [tyosem EXCEPT !.count = @ - k]
<1>1. OutTypes /\ OutQueue /\ OutRing /\ OutUnits
  BY DEF OutInv
<1>2. SoundSem(TtyProc, tyosem) /\ tyosem.ok /\ Avail(tyosem) \in Nat /\ IsFiniteSet(TtyProc)
      /\ pending \in Seq(Chars) /\ Len(pending) \in Nat
  BY <1>1, SemFacts, TtyConst DEF OutTypes
<1>3. ~Queued(tyosem, p) /\ Writing \in SUBSET TtyProc /\ has = Has(p, Writing)
  BY <1>1 DEF OutQueue, Queued, Writing, Has
<1>4. /\ m \in Nat /\ m \in has .. has + Avail(tyosem) /\ m \in 0 .. Len(chars)
      /\ m = Len(chars) \/ m = has + Avail(tyosem)
  <2>1. Len(chars) \in Nat /\ (has = 1 => Len(chars) >= 1)
    BY EmptySeq
  <2> HIDE DEF m
  <2>2. m = IF Len(chars) < has + Avail(tyosem) THEN Len(chars) ELSE has + Avail(tyosem)
    BY DEF m, TtyMin
  <2> QED
    BY <1>2, <2>1, <2>2
<1>5. k \in 0 .. Avail(tyosem) /\ has + k = m
  <2> HIDE DEF m
  <2> QED
    BY <1>2, <1>4
<1>6. /\ now \in Seq(Chars) /\ Len(now) = m
      /\ later \in Seq(Chars) /\ Len(later) = Len(chars) - m /\ (later = <<>> <=> m = Len(chars))
  <2> HIDE DEF m
  <2>1. now \in Seq(Chars) /\ Len(now) = m
    BY <1>4
  <2>2. later \in Seq(Chars) /\ Len(later) = Len(chars) - m
    BY <1>4
  <2> HIDE DEF later, now
  <2>3. later = <<>> <=> Len(later) = 0
    BY <2>2, EmptySeq
  <2> QED
    BY <1>4, <2>1, <2>2, <2>3
<1>7. /\ obuf' = Stored(obuf, OBufLen, tyotail, now) /\ tyotail' = (tyotail + m) % OBufLen
      /\ pending' = pending \o now /\ thre' = (thre \/ m > 0)
      /\ tyosem' = IF later = <<>> THEN sem ELSE Waits(sem, p)
      /\ ttyon' = [ttyon EXCEPT ![p] = IF later = <<>> THEN "none" ELSE "write"]
      /\ rest' = [rest EXCEPT ![p] = later]
      /\ tyohead' = tyohead /\ tyiecho' = tyiecho /\ tyoheld' = tyoheld /\ echoed' = echoed /\ tyicursor' = tyicursor
  BY DEF Put, inVars
<1> HIDE DEF m, k, now, later
<1>8. m <= Units(Writing, tyosem) /\ Units(Writing \ {p}, sem) = Units(Writing, tyosem) - m
  <2>0. sem = [tyosem EXCEPT !.count = @ - k]
    BY DEF sem
  <2>1. /\ Has(p, Writing) + k <= Units(Writing, tyosem)
        /\ Units(Writing \ {p}, sem) = Units(Writing, tyosem) - (Has(p, Writing) + k)
    <3> HIDE DEF sem
    <3> DEFINE E == Writing
               s == tyosem
    <3> HIDE DEF E, s
    <3>1. k \in 0 .. Avail(s) /\ ~Queued(s, p) /\ E \in SUBSET TtyProc /\ p \in TtyProc
          /\ IsFiniteSet(TtyProc) /\ SoundSem(TtyProc, s) /\ s.ok
      BY <1>2, <1>3, <1>5 DEF E, s
    <3>2. Has(p, E) + k <= Units(E, s)
      BY <3>1, SemTakesMore
    <3>3. Units(E \ {p}, [s EXCEPT !.count = @ - k])
             = Units(E, s) - (Has(p, E) + k)
      BY <3>1, SemTakesMore
    <3> QED
      BY <2>0, <3>2, <3>3 DEF E, s
  <2> HIDE DEF sem
  <2> QED
    BY <1>3, <1>5, <2>1
<1>9. Units(Writing, tyosem) \in Nat
  BY <1>2, <1>3, SemUnits
<1>10. /\ ttyon' \in [TtyProc -> {"none", "read", "write"}]
       /\ Writing' = IF later = <<>> THEN Writing \ {p} ELSE Writing \cup {p}
  BY <1>1, <1>7 DEF OutTypes, Writing
<1>11. /\ SoundSem(TtyProc, tyosem') /\ tyosem'.ok /\ ToSet(tyosem'.queue) \subseteq Writing'
       /\ Units(Writing', tyosem') = Units(Writing, tyosem) - m
  <2>1. CASE later = <<>>
    <3>1. SoundSem(TtyProc, sem) /\ sem.ok /\ sem.queue = tyosem.queue
      BY <1>2, <1>5, SemLess
    <3>2. tyosem' = sem /\ Writing' = Writing \ {p}
      BY <1>7, <1>10, <2>1
    <3>3. ToSet(tyosem.queue) \subseteq Writing \ {p}
      BY <1>1, <1>3 DEF OutQueue, Queued
    <3> HIDE DEF sem
    <3> QED
      BY <1>8, <3>1, <3>2, <3>3
  <2>2. CASE later # <<>>
    <3>1. k = Avail(tyosem) /\ m = has + Avail(tyosem)
      BY <1>2, <1>4, <1>5, <1>6, <2>2
    <3>2. tyosem' = Waits([tyosem EXCEPT !.count = @ - Avail(tyosem)], p) /\ Writing' = Writing \cup {p}
      BY <1>7, <1>10, <2>2, <3>1
    <3>3. /\ SoundSem(TtyProc, tyosem') /\ tyosem'.ok /\ ToSet(tyosem'.queue) = ToSet(tyosem.queue) \cup {p}
          /\ Units(Writing \cup {p}, tyosem') = Units(Writing, tyosem) - (Has(p, Writing) + Avail(tyosem))
      <4> DEFINE E == Writing
                 r == [tyosem EXCEPT !.count = @ - Avail(tyosem)]
      <4>1. SoundSem(TtyProc, r) /\ r.ok /\ r.queue = tyosem.queue /\ Avail(r) = 0
        <5>1. Avail(tyosem) \in 0 .. Avail(tyosem) /\ Avail(tyosem) - Avail(tyosem) = 0
          BY <1>2
        <5> QED
          BY <1>2, <5>1, SemLess
      <4>2. Units(E \ {p}, r) = Units(E, tyosem) - m
        BY <1>8, <3>1
      <4> HIDE DEF E, r
      <4>3. ~Queued(r, p) /\ E \in SUBSET TtyProc /\ p \in TtyProc /\ IsFiniteSet(TtyProc)
        BY <1>2, <1>3, <4>1 DEF E, Queued
      <4>4. Joined(TtyProc, E, r, p)
        BY <4>1, <4>3, SemTakesAll
      <4>5. tyosem' = Waits(r, p)
        BY <3>2 DEF r
      <4> QED
        BY <3>1, <4>1, <4>2, <4>4, <4>5, <1>3 DEF E, Joined
    <3> QED
      BY <1>1, <1>3, <3>1, <3>2, <3>3 DEF OutQueue
  <2> QED
    BY <2>1, <2>2
<1>12. /\ pending' \in Seq(Chars) /\ Len(pending') = Len(pending) + m
  BY <1>2, <1>6, <1>7, ConcatProperties
<1>13. OutUnits'
  BY <1>1, <1>2, <1>4, <1>8, <1>9, <1>11, <1>12 DEF OutUnits
<1>14. OutRing' /\ obuf' \in [0 .. OBufLen - 1 -> Chars] /\ tyotail' \in 0 .. OBufLen - 1
  <2>1. /\ tyotail = (tyohead + Len(pending)) % OBufLen /\ Len(pending) + Len(now) <= OBufLen
        /\ tyohead \in Nat /\ OBufLen \in Nat \ {0}
        /\ RingHolds(obuf, OBufLen, tyohead, pending) /\ obuf \in [0 .. OBufLen - 1 -> Chars]
    <3>1. Len(pending) + m <= OBufLen
      BY <1>1, <1>2, <1>4, <1>8, <1>9, TtyConst DEF OutUnits
    <3> QED
      BY <1>1, <1>6, <3>1, TtyConst DEF OutRing, OutTypes
  <2>2. RingHolds(obuf', OBufLen, tyohead', pending') /\ obuf' \in [0 .. OBufLen - 1 -> Chars]
    BY <1>2, <1>6, <1>7, <2>1, RingStores
  <2> DEFINE x == tyohead + Len(pending)
  <2>3. x \in Int /\ m \in Int /\ x + m = tyohead' + Len(pending')
    BY <1>2, <1>4, <1>7, <1>12, <2>1
  <2>4. tyotail' = ((x % OBufLen) + m) % OBufLen
    BY <1>7, <2>1
  <2> HIDE DEF x
  <2>5. ((x % OBufLen) + m) % OBufLen = (x + m) % OBufLen
    BY <2>1, <2>3, RingShift
  <2>6. (x + m) % OBufLen \in 0 .. OBufLen - 1
    <3> DEFINE y == x + m
    <3>1. y \in Int
      BY <2>3
    <3> HIDE DEF y
    <3>2. y % OBufLen \in 0 .. OBufLen - 1
      BY <2>1, <3>1, RingShift
    <3> QED
      BY <3>2 DEF y
  <2> QED
    BY <2>2, <2>3, <2>4, <2>5, <2>6 DEF OutRing
<1>15. rest' \in [TtyProc -> Seq(Chars)] /\ \A q \in Writing' : rest'[q] # <<>>
  <2>1. rest' \in [TtyProc -> Seq(Chars)]
    BY <1>1, <1>6, <1>7 DEF OutTypes
  <2>2. ASSUME NEW q \in Writing'
        PROVE  rest'[q] # <<>>
    <3>1. q \in TtyProc
      BY <1>3, <1>10
    <3>2. CASE q = p
      BY <1>1, <1>7, <1>10, <2>2, <3>1, <3>2 DEF OutTypes
    <3>3. CASE q # p
      BY <1>1, <1>7, <1>10, <2>2, <3>1, <3>3 DEF OutTypes, OutQueue
    <3> QED
      BY <3>2, <3>3
  <2> QED
    BY <2>1, <2>2
<1>16. thre' \in BOOLEAN /\ (thre' \/ (pending' = pending /\ thre' = thre))
  <2>1. CASE m > 0
    BY <1>7, <2>1
  <2>2. CASE ~(m > 0)
    <3>1. m = 0
      BY <1>4, <2>2
    <3>2. now = <<>>
      BY <1>6, <3>1, EmptySeq
    <3>3. pending \o <<>> = pending
      BY <1>2, ConcatEmptySeq
    <3>4. thre' = thre
      BY <1>1, <1>7, <2>2 DEF OutTypes
    <3> QED
      BY <1>1, <1>7, <3>2, <3>3, <3>4 DEF OutTypes
  <2> QED
    BY <2>1, <2>2
<1> QED
  BY <1>1, <1>7, <1>10, <1>11, <1>12, <1>13, <1>14, <1>15, <1>16 DEF OutInv, OutTypes, OutQueue

\* What the device does, while a writer that has room goes on before all that was
\* there is sent.
LEMMA HandleOutKeeps ==
  ASSUME OutInv, "slow" \notin TtyHazards, Ttyhandle_out
  PROVE  OutInv' /\ (thre' \/ tyoheld' \/ (echoed' = 0 /\ pending' = <<>>))
<1> DEFINE e     == TtyMin(echoed, FifoSize)
           avail == OBufLen - tyosem.count
           o     == TtyMin(avail, FifoSize - e)
<1>1. OutTypes /\ OutQueue /\ OutRing /\ OutUnits
  BY DEF OutInv
<1>2. /\ SoundSem(TtyProc, tyosem) /\ tyosem.ok /\ Avail(tyosem) \in Nat /\ tyosem.count \in Int
      /\ IsFiniteSet(TtyProc) /\ pending \in Seq(Chars) /\ Len(pending) \in Nat /\ Writing \in SUBSET TtyProc
      /\ ToSet(tyosem.queue) \subseteq Writing
  BY <1>1, SemFacts, TtyConst DEF OutTypes, OutQueue, Writing
<1>3. avail \in Nat /\ avail >= Len(pending)
  <2>1. /\ Units(Writing, tyosem) = Avail(tyosem) + Cardinality(Through(Writing, tyosem))
        /\ Cardinality(Through(Writing, tyosem)) \in Nat
    BY <1>2, SemUnits
  <2>2. Len(pending) + Units(Writing, tyosem) = OBufLen
    BY <1>1 DEF OutUnits
  <2>3. Avail(tyosem) >= tyosem.count
    BY <1>2 DEF Avail
  <2> QED
    BY <1>2, <2>1, <2>2, <2>3, TtyConst
<1>4. e \in 0 .. echoed /\ e <= FifoSize /\ (e = 0 => echoed = 0) /\ e \in Nat /\ echoed \in Nat
  BY <1>1, TtyConst DEF OutTypes, TtyMin
<1> HIDE DEF avail, e
<1>5. o \in Nat /\ (o = 0 /\ e = 0 => avail = 0)
  BY <1>3, <1>4, TtyConst DEF TtyMin
<1> HIDE DEF o
<1>6. /\ tyiecho' = tyiecho /\ tyoheld' = tyoheld /\ ttyon' = ttyon /\ rest' = rest /\ tyicursor' = tyicursor
      /\ Writing' = Writing
  BY DEF Ttyhandle_out, inVars, Writing
<1>7. CASE tyoheld
  <2>1. /\ thre' = FALSE /\ echoed' = echoed /\ obuf' = obuf /\ pending' = pending
        /\ tyohead' = tyohead /\ tyotail' = tyotail /\ tyosem' = tyosem
    BY <1>7 DEF Ttyhandle_out, outVars
  <2> QED
    BY <1>1, <1>6, <1>7, <2>1 DEF OutInv, OutTypes, OutQueue, OutRing, OutUnits, RingHolds
<1>8. CASE ~tyoheld
  <2>1. /\ o <= Len(pending) /\ thre' = (e + o > 0) /\ echoed' = echoed - e
        /\ tyohead' = (tyohead + o) % OBufLen /\ tyosem' = SignaledN(tyosem, o)
        /\ pending' = SubSeq(pending, o + 1, Len(pending)) /\ obuf' = obuf /\ tyotail' = tyotail
    BY <1>8 DEF Ttyhandle_out, e, avail, o
  <2>2. /\ SoundSem(TtyProc, tyosem') /\ tyosem'.ok /\ ToSet(tyosem'.queue) \subseteq Writing
        /\ Units(Writing, tyosem') = Units(Writing, tyosem) + o
    <3> DEFINE E == Writing
               s == tyosem
    <3> HIDE DEF E, s
    <3>1. /\ SoundSem(TtyProc, s) /\ s.ok /\ IsFiniteSet(TtyProc) /\ E \in SUBSET TtyProc
          /\ ToSet(s.queue) \subseteq E
      BY <1>2 DEF E, s
    <3>2. Gains(TtyProc, E, s, o)
      BY <1>5, <3>1, SemAddsMore
    <3>3. tyosem' = SignaledN(s, o)
      BY <2>1 DEF s
    <3> QED
      BY <3>1, <3>2, <3>3 DEF E, s, Gains
  <2>3. /\ pending' \in Seq(Chars) /\ Len(pending') = Len(pending) - o
        /\ tyohead' \in 0 .. OBufLen - 1
        /\ RingHolds(obuf, OBufLen, tyohead', pending')
        /\ (tyohead' + Len(pending')) % OBufLen = (tyohead + Len(pending)) % OBufLen
    <3>1. o \in 0 .. Len(pending) /\ OBufLen \in Nat \ {0} /\ tyohead \in Nat
          /\ RingHolds(obuf, OBufLen, tyohead, pending)
      BY <1>1, <1>2, <1>5, <2>1, TtyConst DEF OutTypes, OutRing
    <3> DEFINE at == tyohead
               chars == pending
               left == SubSeq(chars, o + 1, Len(chars))
    <3> HIDE DEF at, chars
    <3>2. o \in 0 .. Len(chars) /\ OBufLen \in Nat \ {0} /\ at \in Nat /\ chars \in Seq(Chars)
          /\ RingHolds(obuf, OBufLen, at, chars)
      BY <1>2, <3>1 DEF at, chars
    <3>3. Dropped(obuf, OBufLen, at, chars, o)
      BY <3>2, RingDrops
    <3>4. pending' = left /\ tyohead' = (at + o) % OBufLen
      BY <2>1 DEF at, chars
    <3> QED
      BY <3>3, <3>4 DEF at, chars, Dropped
  <2>4. OutRing'
    BY <1>1, <2>1, <2>3 DEF OutRing
  <2>5. OutUnits'
    <3>1. Units(Writing, tyosem) \in Nat
      BY <1>2, SemUnits
    <3> QED
      BY <1>1, <1>2, <1>5, <1>6, <2>2, <2>3, <3>1 DEF OutUnits
  <2>6. OutQueue'
    BY <1>1, <1>6, <2>2 DEF OutQueue
  <2>7. echoed' \in 0 .. EBufLen - 1 /\ thre' \in BOOLEAN
    BY <1>1, <1>4, <2>1, TtyConst DEF OutTypes
  <2>8. OutTypes'
    BY <1>1, <1>6, <2>1, <2>2, <2>3, <2>7 DEF OutTypes
  <2>9. thre' \/ (echoed' = 0 /\ pending' = <<>>)
    <3>1. CASE e + o > 0
      BY <2>1, <3>1
    <3>2. CASE ~(e + o > 0)
      <4>1. e = 0 /\ o = 0
        BY <1>4, <1>5, <3>2
      <4>2. avail = 0 /\ echoed = 0
        BY <1>4, <1>5, <4>1
      <4>3. Len(pending') = 0
        BY <1>2, <1>3, <2>3, <4>1, <4>2
      <4> QED
        BY <1>4, <2>1, <2>3, <4>1, <4>2, <4>3, EmptySeq
    <3> QED
      BY <3>1, <3>2
  <2> QED
    BY <2>4, <2>5, <2>6, <2>8, <2>9 DEF OutInv
<1> QED
  BY <1>7, <1>8

\* n characters in the echo queue.
LEMMA EputcKeeps ==
  ASSUME echoed \in 0 .. EBufLen - 1, thre \in BOOLEAN, NEW n \in Nat, Eputc(n)
  PROVE  /\ echoed' \in 0 .. EBufLen - 1 /\ thre' \in BOOLEAN
         /\ IF n > 0 THEN thre' ELSE echoed' = echoed /\ thre' = thre
<1>1. echoed' = (echoed + n) % EBufLen /\ thre' = (n > 0 \/ thre)
  BY DEF Eputc
<1>2. EBufLen \in Nat \ {0} /\ echoed + n \in Int
  BY TtyConst
<1> DEFINE x == echoed + n
<1>3. x % EBufLen \in 0 .. EBufLen - 1
  <2> HIDE DEF x
  <2> QED
    BY <1>2, RingShift DEF x
<1>4. ASSUME n = 0
      PROVE  echoed' = echoed /\ thre' = thre
  <2>1. x = echoed
    BY <1>4
  <2>2. echoed % EBufLen = echoed
    BY <1>2, ModSmall
  <2> HIDE DEF x
  <2>3. echoed' = echoed
    BY <1>1, <2>1, <2>2 DEF x
  <2>4. ~(n > 0)
    BY <1>4
  <2> QED
    BY <1>1, <2>3, <2>4, Zenon
<1>5. ASSUME n > 0
      PROVE  thre'
  BY <1>1, <1>5, Zenon
<1>6. thre' \in BOOLEAN /\ echoed' \in 0 .. EBufLen - 1
  BY <1>1, <1>3
<1> QED
  BY <1>4, <1>5, <1>6

\* What a character typed changes of what is sent.
LEMMA InputLeavesOutput ==
  ASSUME OutInv, NEW c \in Key, Ttyhandle_in(c)
  PROVE  /\ OutInv' /\ pending' = pending
         /\ \/ thre' \/ tyoheld'
            \/ /\ echoed' = echoed /\ thre' = thre
               /\ tyoheld' = tyoheld \/ (Silent(c) /\ tyimode # "raw" /\ c \notin {"start", "stop"})
<1> DEFINE Done ==
             /\ echoed' \in 0 .. EBufLen - 1 /\ thre' \in BOOLEAN /\ tyoheld' \in BOOLEAN /\ tyicursor' \in Nat
             /\ \/ thre' \/ tyoheld'
                \/ /\ echoed' = echoed /\ thre' = thre
                   /\ tyoheld' = tyoheld \/ (Silent(c) /\ tyimode # "raw" /\ c \notin {"start", "stop"})
<1>1. OutTypes
  BY DEF OutInv
<1>2. /\ echoed \in 0 .. EBufLen - 1 /\ thre \in BOOLEAN /\ tyoheld \in BOOLEAN /\ tyiecho \in BOOLEAN
      /\ tyicursor \in Nat
  BY <1>1 DEF OutTypes
<1>3. \A n \in Nat : Eputc(n) =>
        /\ echoed' \in 0 .. EBufLen - 1 /\ thre' \in BOOLEAN
        /\ IF n > 0 THEN thre' ELSE echoed' = echoed /\ thre' = thre
  BY <1>2, EputcKeeps
\* A character is echoed, or it is silent.
<1>4. \A k : Echoch(k) =>
        /\ echoed' \in 0 .. EBufLen - 1 /\ thre' \in BOOLEAN
        /\ IF tyiecho THEN thre' ELSE echoed' = echoed /\ thre' = thre
  <2> SUFFICES ASSUME NEW k, Echoch(k)
               PROVE  /\ echoed' \in 0 .. EBufLen - 1 /\ thre' \in BOOLEAN
                      /\ IF tyiecho THEN thre' ELSE echoed' = echoed /\ thre' = thre
    OBVIOUS
  <2> DEFINE n == IF ~tyiecho THEN 0 ELSE IF k = "nl" \/ k = "eof" THEN 2 ELSE 1
  <2>1. Eputc(n) /\ n \in Nat /\ (n > 0 <=> tyiecho)
    BY <1>2 DEF Echoch
  <2> HIDE DEF n
  <2> QED
    BY <1>2, <1>3, <2>1
<1>5. ASSUME Raw(c)
      PROVE  Done
  BY <1>2, <1>5 DEF Raw
<1>6. ASSUME FlowControl(c)
      PROVE  Done
  BY <1>2, <1>6 DEF FlowControl
<1>7. ASSUME Cbreak(c)
      PROVE  Done
  <2>1. /\ tyoheld' = FALSE /\ tyicursor' = tyicursor /\ tyimode # "raw" /\ c \notin {"start", "stop"}
        /\ Eputc(1) \/ Echoch(c)
    BY <1>7 DEF Cbreak
  <2>2. Eputc(1) => echoed' \in 0 .. EBufLen - 1 /\ thre'
    BY <1>3
  <2>3. ~tyiecho => Silent(c)
    BY DEF Silent
  <2> QED
    BY <1>2, <1>4, <2>1, <2>2, <2>3
<1>8. ASSUME Cooked(c)
      PROVE  Done
  <2>1. tyoheld' = FALSE /\ tyimode # "raw" /\ c \notin {"start", "stop"}
    BY <1>8 DEF Cooked
  <2>2. /\ tyicursor' \in Nat
        /\ \/ \E n \in 1 .. 3 : Eputc(n)
           \/ Echoch(c)
           \/ Silent(c) /\ (Eputc(0) \/ (echoed' = echoed /\ thre' = thre))
    <3>1. c = "kill" => Kill
      BY <1>8 DEF Cooked
    <3>2. c = "erase" => Erase
      BY <1>8 DEF Cooked
    <3>3. c = "nl" => EndLine
      BY <1>8 DEF Cooked
    <3>4. c \in {"a", "eof"} => (Eputc(1) /\ tyicursor' = tyicursor) \/ (c = "eof" /\ Eof) \/ Insert1(c)
      BY <1>8 DEF Cooked
    <3>5. CASE c = "kill"
      BY <3>1, <3>5 DEF Kill
    <3>6. CASE c = "erase"
      <4>1. tyicursor > 0 => tyicursor' = tyicursor - 1 /\ Eputc(IF tyiecho THEN 3 ELSE 0)
        BY <3>2, <3>6 DEF Erase
      <4>2. ~(tyicursor > 0) => tyicursor' = tyicursor /\ echoed' = echoed /\ thre' = thre
        BY <3>2, <3>6 DEF Erase
      <4>3. CASE tyicursor > 0
        BY <1>2, <4>1, <4>3 DEF Silent
      <4>4. CASE ~(tyicursor > 0)
        <5>1. Silent(c)
          BY <1>2, <3>6, <4>4 DEF Silent
        <5> QED
          BY <1>2, <4>2, <4>4, <5>1
      <4> QED
        BY <4>3, <4>4
    <3>7. CASE c = "nl"
      BY <3>3, <3>7 DEF EndLine
    <3>8. CASE c \in {"a", "eof"}
      <4>1. CASE Eputc(1) /\ tyicursor' = tyicursor
        BY <1>2, <4>1
      <4>2. CASE c = "eof" /\ Eof
        BY <1>2, <4>2 DEF Eof
      <4>3. CASE Insert1(c)
        BY <1>2, <4>3 DEF Insert1
      <4> QED
        BY <3>4, <3>8, <4>1, <4>2, <4>3
    <3> QED
      BY <2>1, <3>5, <3>6, <3>7, <3>8 DEF Key
  <2>3. \A n \in 1 .. 3 : Eputc(n) => echoed' \in 0 .. EBufLen - 1 /\ thre'
    BY <1>3
  <2>4. Eputc(0) => echoed' = echoed /\ thre' = thre
    BY <1>3
  <2>5. ~tyiecho => Silent(c)
    BY DEF Silent
  <2>6. CASE \E n \in 1 .. 3 : Eputc(n)
    BY <1>3, <2>1, <2>2, <2>3, <2>6
  <2>7. CASE Echoch(c)
    BY <1>2, <1>4, <2>1, <2>2, <2>5, <2>7
  <2>8. CASE Silent(c) /\ (Eputc(0) \/ (echoed' = echoed /\ thre' = thre))
    BY <1>2, <2>1, <2>2, <2>4, <2>8
  <2> QED
    BY <2>2, <2>6, <2>7, <2>8
<1>9. Done
  BY <1>5, <1>6, <1>7, <1>8 DEF Ttyhandle_in
<1>10. /\ tyiecho' = tyiecho /\ obuf' = obuf /\ tyohead' = tyohead /\ tyotail' = tyotail /\ tyosem' = tyosem
       /\ pending' = pending /\ ttyon' = ttyon /\ rest' = rest /\ Writing' = Writing
  BY DEF Ttyhandle_in, outVars, Writing
<1> HIDE DEF Done
<1>11. OutInv'
  BY <1>1, <1>9, <1>10 DEF Done, OutInv, OutTypes, OutQueue, OutRing, OutUnits, RingHolds
<1> QED
  BY <1>9, <1>10, <1>11 DEF Done

\* Readers leave the output alone.
LEMMA GetLeavesOutput ==
  ASSUME OutInv, NEW p \in TtyProc, ttyon[p] # "write", NEW count, NEW first, NEW has, Get(p, count, first, has)
  PROVE  OutInv' /\ pending' = pending /\ echoed' = echoed /\ thre' = thre /\ tyoheld' = tyoheld
<1>1. OutTypes /\ OutQueue /\ OutRing /\ OutUnits
  BY DEF OutInv
<1>2. /\ tyiecho' = tyiecho /\ obuf' = obuf /\ tyohead' = tyohead /\ tyotail' = tyotail /\ tyosem' = tyosem
      /\ pending' = pending /\ rest' = rest /\ tyicursor' = tyicursor
      /\ echoed' = echoed /\ thre' = thre /\ tyoheld' = tyoheld
  BY DEF Get, outVars
<1>3. \E how \in {"none", "read"} : ttyon' = [ttyon EXCEPT ![p] = how]
  BY DEF Get
<1>4. ttyon' \in [TtyProc -> {"none", "read", "write"}] /\ Writing' = Writing
  BY <1>1, <1>3 DEF OutTypes, Writing
<1>5. OutInv'
  BY <1>1, <1>2, <1>4 DEF OutInv, OutTypes, OutQueue, OutRing, OutUnits, RingHolds
<1> QED
  BY <1>2, <1>5

LEMMA OutInit == TtyInit => OutInv /\ OutputGoesOn
<1> SUFFICES ASSUME TtyInit
             PROVE  OutInv /\ OutputGoesOn
  OBVIOUS
<1>1. OBufLen \in Nat \ {0} /\ EBufLen \in Nat \ {0} /\ IsFiniteSet(TtyProc)
  BY TtyConst
<1>2. /\ obuf = [k \in 0 .. OBufLen - 1 |-> "none"] /\ tyohead = 0 /\ tyotail = 0
      /\ tyosem = NewSem(OBufLen) /\ tyoheld = FALSE /\ echoed = 0 /\ thre = TRUE
      /\ ttyon = [p \in TtyProc |-> "none"] /\ rest = [p \in TtyProc |-> <<>>]
      /\ tyicursor = 0 /\ tyiecho = TRUE /\ pending = <<>>
  BY DEF TtyInit
<1>3. SoundSem(TtyProc, tyosem) /\ tyosem.ok /\ ToSet(tyosem.queue) = {} /\ Units({}, tyosem) = OBufLen
  BY <1>1, <1>2, SemFresh
<1>4. Writing = {}
  BY <1>2 DEF Writing
<1>5. pending \in Seq(Chars) /\ Len(pending) = 0
  BY <1>2
<1>6. OutQueue /\ OutUnits
  BY <1>1, <1>3, <1>4, <1>5 DEF OutQueue, OutUnits
<1>7. OutRing
  <2>1. RingHolds(obuf, OBufLen, tyohead, pending)
    BY <1>5 DEF RingHolds
  <2>2. tyohead + Len(pending) = 0 /\ 0 \in 0 .. OBufLen - 1
    BY <1>1, <1>2, <1>5
  <2>3. 0 % OBufLen = 0
    BY <1>1, <2>2, ModSmall
  <2> QED
    BY <1>2, <2>1, <2>2, <2>3 DEF OutRing
<1>8. obuf \in [0 .. OBufLen - 1 -> Chars]
  BY <1>2 DEF Chars
<1>9. rest \in [TtyProc -> Seq(Chars)] /\ ttyon \in [TtyProc -> {"none", "read", "write"}]
  BY <1>2
<1>10. OutTypes
  BY <1>1, <1>2, <1>3, <1>5, <1>8, <1>9 DEF OutTypes
<1> QED
  BY <1>2, <1>6, <1>7, <1>10 DEF OutInv, OutputGoesOn

\* Every step of the console keeps what the output is made of, and that the UART
\* is going to interrupt.
LEMMA OutNext ==
  ASSUME OutInv, "slow" \notin TtyHazards, [TtyNext]_ttyVars
  PROVE  OutInv' /\ ("quiet" \notin TtyHazards /\ OutputGoesOn => OutputGoesOn')
<1> DEFINE Goal == OutInv' /\ ("quiet" \notin TtyHazards /\ OutputGoesOn => OutputGoesOn')
<1>0. OutTypes /\ OutQueue
  BY DEF OutInv
<1>1. ASSUME UNCHANGED ttyVars
      PROVE  Goal
  <2>1. /\ tyiecho' = tyiecho /\ obuf' = obuf /\ tyohead' = tyohead /\ tyotail' = tyotail /\ tyosem' = tyosem
        /\ pending' = pending /\ rest' = rest /\ tyicursor' = tyicursor /\ ttyon' = ttyon
        /\ echoed' = echoed /\ thre' = thre /\ tyoheld' = tyoheld /\ Writing' = Writing
    BY <1>1 DEF ttyVars, inVars, outVars, Writing
  <2> QED
    BY <2>1 DEF OutInv, OutTypes, OutQueue, OutRing, OutUnits, RingHolds, OutputGoesOn
<1>2. ASSUME Ttyhandle_out
      PROVE  Goal
  BY <1>2, HandleOutKeeps DEF OutputGoesOn
<1>3. ASSUME NEW c \in Key, Ttyhandle_in(c)
      PROVE  Goal
  <2>1. OutInv' /\ pending' = pending
    BY <1>3, InputLeavesOutput
  <2>2. ASSUME "quiet" \notin TtyHazards, OutputGoesOn
        PROVE  OutputGoesOn'
    <3>1. \/ thre' \/ tyoheld'
          \/ /\ echoed' = echoed /\ thre' = thre
             /\ tyoheld' = tyoheld \/ (Silent(c) /\ tyimode # "raw" /\ c \notin {"start", "stop"})
      BY <1>3, InputLeavesOutput
    <3>2. tyoheld /\ tyimode # "raw" /\ Silent(c) => c \in {"start", "stop"}
      BY <1>3, <2>2 DEF Ttyhandle_in
    <3> QED
      BY <2>1, <2>2, <3>1, <3>2 DEF OutputGoesOn
  <2> QED
    BY <2>1, <2>2
<1>4. ASSUME NEW func \in {"raw", "cooked", "cbreak", "echo", "noecho"}, Ttycontrol(func)
      PROVE  Goal
  <2>1. /\ tyiecho' \in BOOLEAN /\ obuf' = obuf /\ tyohead' = tyohead /\ tyotail' = tyotail /\ tyosem' = tyosem
        /\ pending' = pending /\ rest' = rest /\ tyicursor' = tyicursor /\ ttyon' = ttyon
        /\ echoed' = echoed /\ thre' = thre /\ tyoheld' = tyoheld /\ Writing' = Writing
    BY <1>0, <1>4 DEF Ttycontrol, outVars, Writing, OutTypes
  <2> QED
    BY <2>1 DEF OutInv, OutTypes, OutQueue, OutRing, OutUnits, RingHolds, OutputGoesOn
<1>5. ASSUME NEW p \in TtyProc, NEW chars \in Seq(Chars), NEW has \in {0, 1},
             has = 0 => ttyon[p] = "none",
             has = 1 => ttyon[p] = "write" /\ ~Queued(tyosem, p) /\ chars # <<>>,
             Put(p, chars, has)
      PROVE  Goal
  <2>1. OutInv' /\ (thre' \/ (pending' = pending /\ thre' = thre))
    BY <1>5, PutKeeps
  <2>2. tyoheld' = tyoheld /\ echoed' = echoed
    BY <1>5 DEF Put
  <2> QED
    BY <2>1, <2>2 DEF OutputGoesOn
<1>6. ASSUME NEW p \in TtyProc, ttyon[p] # "write", NEW count, NEW first, NEW has, Get(p, count, first, has)
      PROVE  Goal
  BY <1>6, GetLeavesOutput DEF OutputGoesOn
<1>7. ASSUME NEW p \in TtyProc, NEW text \in Texts, Ttywrite(p, text)
      PROVE  Goal
  BY <1>5, <1>7, ExpandedIn DEF Ttywrite
<1>8. ASSUME NEW p \in TtyProc, NEW count \in Reads, Ttyread(p, count)
      PROVE  Goal
  <2>1. PICK n : ttyon[p] = "none" /\ Get(p, n, TRUE, 0)
    BY <1>8 DEF Ttyread
  <2> QED
    BY <1>6, <2>1
<1>9. ASSUME NEW p \in TtyProc, TtywriteReturns(p)
      PROVE  Goal
  <2>1. ttyon[p] = "write" /\ ~Queued(tyosem, p) /\ Put(p, rest[p], 1)
    BY <1>9 DEF TtywriteReturns, LetThrough
  <2>2. rest[p] \in Seq(Chars) /\ rest[p] # <<>>
    BY <1>0, <2>1 DEF OutTypes, OutQueue, Writing
  <2> QED
    BY <1>5, <2>1, <2>2
<1>10. ASSUME NEW p \in TtyProc, TtyreadReturns(p)
       PROVE  Goal
  <2>1. ttyon[p] = "read" /\ Get(p, wants[p].left, wants[p].first, 1)
    BY <1>10 DEF TtyreadReturns, LetThrough
  <2> QED
    BY <1>6, <2>1
<1> HIDE DEF Goal
<1>11. Goal
  BY <1>1, <1>2, <1>3, <1>4, <1>7, <1>8, <1>9, <1>10 DEF TtyNext
<1> QED
  BY <1>11 DEF Goal

\* What is in the output ring, as the property states it.
LEMMA OutIs == OutInv => OutputFaithful
<1> SUFFICES ASSUME OutInv
             PROVE  OutputFaithful
  OBVIOUS
<1>1. OutTypes /\ OutRing /\ OutUnits
  BY DEF OutInv
<1>2. /\ SoundSem(TtyProc, tyosem) /\ Writing \in SUBSET TtyProc /\ Len(pending) \in Nat /\ Avail(tyosem) \in Nat
      /\ DOMAIN pending = 1 .. Len(pending)
  BY <1>1, SemFacts DEF OutTypes, Writing
<1>3. LetThrough("write", tyosem) = Through(Writing, tyosem)
  BY DEF LetThrough, Through, Writing
<1>4. /\ Units(Writing, tyosem) = Avail(tyosem) + Cardinality(Through(Writing, tyosem))
      /\ Cardinality(Through(Writing, tyosem)) \in Nat
  BY <1>2, SemUnits, TtyConst
<1>5. Len(pending) = OBufLen - Avail(tyosem) - Cardinality(LetThrough("write", tyosem))
  BY <1>1, <1>2, <1>3, <1>4, TtyConst DEF OutUnits
<1> QED
  BY <1>1, <1>2, <1>5 DEF OutputFaithful, OutRing, RingHolds

\* The UART is sent what was written, in the order in which it was written: the
\* output ring holds from its head on what was put and not sent, and its semaphore
\* counts what is left of it (ttyputc.c, ttyhandle_out.c).
THEOREM OutputStaysFaithful ==
  ASSUME "slow" \notin TtyHazards
  PROVE  TtySpec => []OutputFaithful
<1>1. TtyInit => OutInv
  BY OutInit
<1>2. OutInv /\ [TtyNext]_ttyVars => OutInv'
  BY OutNext
<1>3. OutInv => OutputFaithful
  BY OutIs
<1> QED
  BY <1>1, <1>2, <1>3, PTL DEF TtySpec

\* Output never stalls: while there is something to send that is not held back, the
\* UART is going to interrupt (ttykickout.c, ttyhandle_out.c, ttyhandle_in.c).
THEOREM OutputAlwaysGoesOn ==
  ASSUME TtyHazards \cap {"slow", "quiet"} = {}
  PROVE  TtySpec => []OutputGoesOn
<1> DEFINE Inv == OutInv /\ OutputGoesOn
<1>1. TtyInit => Inv
  BY OutInit
<1>2. Inv /\ [TtyNext]_ttyVars => Inv'
  BY OutNext
<1>3. Inv => OutputGoesOn
  OBVIOUS
<1> QED
  BY <1>1, <1>2, <1>3, PTL DEF TtySpec

-------------------------------------------------------------------------------
(* Input *)

InTypes ==
  /\ ibuf \in [0 .. IBufLen -> Chars] /\ line \in Seq(Chars) /\ typed \in Seq(Chars)
  /\ tyihead \in 0 .. IBufLen - 1
  /\ SoundSem(TtyProc, tyisem) /\ tyisem.ok
  /\ ttyon \in [TtyProc -> {"none", "read", "write"}]
  /\ wants \in [TtyProc -> [left : Nat, first : BOOLEAN]]

\* Who waits for characters reads, and wants some.
InQueue == ToSet(tyisem.queue) \subseteq Reading /\ \A p \in Reading : wants[p].left > 0

\* What is in the ring: the lines that are complete, then the one being typed.
InRing ==
  /\ Len(typed \o line) <= IBufLen /\ RingHolds(ibuf, IBufLen, tyihead, typed \o line)
  /\ tyitail = (tyihead + Len(typed \o line)) % IBufLen
  /\ tyicursor = Len(line) /\ (tyimode # "cooked" => line = <<>>)

\* A character of a complete line may be taken, or was granted to a reader.
InUnits == Len(typed) = Units(Reading, tyisem)

InInv == InTypes /\ InQueue /\ InRing /\ InUnits

\* Two pieces of text of which one goes on.
LEMMA PiecesGrow ==
  ASSUME NEW X, NEW s \in Seq(X), NEW t \in Seq(X), NEW c \in X
  PROVE  /\ s \o Append(t, c) = Append(s \o t, c)
         /\ t = <<>> => Append(s, c) \o t = Append(s \o t, c)
         /\ s \o t \in Seq(X) /\ Len(s \o t) = Len(s) + Len(t)
<1>1. Append(t, c) = t \o <<c>> /\ Append(s, c) = s \o <<c>> /\ <<c>> \in Seq(X)
  BY AppendIsConcat
<1>2. s \o t \in Seq(X) /\ Len(s \o t) = Len(s) + Len(t)
  BY ConcatProperties
<1>3. Append(s \o t, c) = (s \o t) \o <<c>>
  BY <1>2, AppendIsConcat
<1>4. s \o (t \o <<c>>) = (s \o t) \o <<c>>
  BY <1>1, ConcatAssociative
<1>5. ASSUME t = <<>>
      PROVE  Append(s, c) \o t = Append(s \o t, c)
  <2>1. s \o t = s /\ Append(s, c) \o t = Append(s, c)
    BY <1>5, ConcatEmptySeq, AppendProperties
  <2> QED
    BY <2>1
<1> QED
  BY <1>1, <1>2, <1>3, <1>4, <1>5

\* The beginning of the first piece is taken.
LEMMA PiecesDrop ==
  ASSUME NEW X, NEW s \in Seq(X), NEW t \in Seq(X), NEW m \in 0 .. Len(s)
  PROVE  SubSeq(s, m + 1, Len(s)) \o t = SubSeq(s \o t, m + 1, Len(s \o t))
<1> DEFINE L == Len(s)
           N == Len(t)
           st == s \o t
           sm == SubSeq(s, m + 1, L)
           a == sm \o t
           b == SubSeq(st, m + 1, Len(st))
<1>1. L \in Nat /\ N \in Nat /\ m \in 0 .. L
  OBVIOUS
<1>2. st \in Seq(X) /\ Len(st) = L + N /\ \A i \in 1 .. L + N : st[i] = IF i <= L THEN s[i] ELSE t[i - L]
  BY ConcatProperties
<1>3. sm \in Seq(X) /\ Len(sm) = L - m /\ \A i \in 1 .. L - m : sm[i] = s[m + i]
  OBVIOUS
<1> HIDE DEF st, sm
<1>4. /\ a \in Seq(X) /\ Len(a) = (L - m) + N
      /\ \A i \in 1 .. (L - m) + N : a[i] = IF i <= L - m THEN sm[i] ELSE t[i - (L - m)]
  <2>1. /\ a \in Seq(X) /\ Len(a) = Len(sm) + N
        /\ \A i \in 1 .. Len(sm) + N : a[i] = IF i <= Len(sm) THEN sm[i] ELSE t[i - Len(sm)]
    BY <1>3, ConcatProperties
  <2> HIDE DEF a, L, N
  <2> QED
    BY <1>3, <2>1
<1>5. b \in Seq(X) /\ Len(b) = (L + N) - m /\ \A i \in 1 .. (L + N) - m : b[i] = st[m + i]
  <2>1. m \in 0 .. Len(st)
    BY <1>1, <1>2
  <2> QED
    BY <1>1, <1>2, <2>1
<1> HIDE DEF a, b, L, N
<1>6. ASSUME NEW i \in 1 .. (L + N) - m
      PROVE  a[i] = b[i]
  <2>1. b[i] = st[m + i] /\ m + i \in 1 .. L + N
    BY <1>1, <1>5
  <2>2. CASE i <= L - m
    <3>1. i \in 1 .. L - m /\ i \in 1 .. (L - m) + N /\ m + i <= L
      BY <1>1, <2>2
    <3> QED
      BY <1>2, <1>3, <1>4, <2>1, <3>1
  <2>3. CASE ~(i <= L - m)
    <3>1. i \in 1 .. (L - m) + N /\ ~(m + i <= L) /\ i - (L - m) = (m + i) - L
      BY <1>1, <2>3
    <3>2. a[i] = t[i - (L - m)] /\ st[m + i] = t[(m + i) - L]
      BY <1>2, <1>4, <2>1, <2>3, <3>1
    <3> QED
      BY <2>1, <3>1, <3>2
  <2> QED
    BY <2>2, <2>3
<1>7. Len(a) = Len(b) /\ Len(a) = (L + N) - m
  BY <1>1, <1>4, <1>5
<1>8. a = b
  BY <1>4, <1>5, <1>6, <1>7
<1> QED
  BY <1>8 DEF a, b, sm, st, L

\* The tail goes back over what was put last.
WentBack(ring, n, head, part, d, tail) ==
  /\ RingHolds(ring, n, head, part)
  /\ (IF tail - d < 0 THEN tail - d + n ELSE tail - d) = (head + Len(part)) % n

LEMMA RingBack ==
  ASSUME NEW n \in Nat \ {0}, NEW ring, NEW head \in 0 .. n - 1, NEW all \in Seq(Chars), Len(all) <= n,
         RingHolds(ring, n, head, all), NEW part \in Seq(Chars), Len(part) <= Len(all),
         \A i \in 1 .. Len(part) : part[i] = all[i],
         NEW d, d = Len(all) - Len(part), NEW tail, tail = (head + Len(all)) % n
  PROVE  WentBack(ring, n, head, part, d, tail)
<1> DEFINE L == Len(all)
           N == Len(part)
           x == head + L
           y == head + N
           back == IF tail - d < 0 THEN tail - d + n ELSE tail - d
<1>1. L \in Nat /\ N \in Nat /\ x \in Int /\ y \in Int /\ d \in 0 .. n /\ y = x - d /\ N <= L
  OBVIOUS
<1>2. RingHolds(ring, n, head, part)
  BY <1>1 DEF RingHolds
<1> HIDE DEF L, N
<1>3. tail = x % n
  BY DEF L
<1> HIDE DEF x, y
<1>4. tail \in 0 .. n - 1 /\ x \div n \in Int /\ n * (x \div n) + tail = x
  BY <1>1, <1>3, DivMod
<1> DEFINE q == x \div n
           r == IF tail - d < 0 THEN q - 1 ELSE q
<1>5. back \in 0 .. n - 1 /\ r \in Int /\ n * r + back = y
  <2>0. q \in Int /\ n * q + tail = x
    BY <1>4
  <2> HIDE DEF q
  <2> DEFINE a == n * q
  <2>1. n * (q - 1) = a - n /\ a \in Int /\ q - 1 \in Int
    BY <2>0
  <2>2. n * r = (IF tail - d < 0 THEN a - n ELSE a) /\ r \in Int
    BY <2>0, <2>1
  <2>3. a + tail = x
    BY <2>0
  <2> DEFINE b == n * r
  <2>4. b = IF tail - d < 0 THEN a - n ELSE a
    BY <2>2
  <2> HIDE DEF a, b
  <2>5. back \in 0 .. n - 1 /\ tail \in Int /\ d \in Int
    <3>1. tail \in 0 .. n - 1
      BY <1>4
    <3>2. d \in 0 .. n
      BY <1>1
    <3> QED
      BY <3>1, <3>2
  <2>7. a \in Int
    BY <2>1
  <2>6. b + back = x - d
    <3>1. b + back = (a + tail) - d
      <4>1. tail - d < 0 => b = a - n /\ back = (tail - d) + n
        BY <2>4
      <4>2. ~(tail - d < 0) => b = a /\ back = tail - d
        BY <2>4
      <4> HIDE DEF back
      <4> QED
        BY <2>5, <2>7, <4>1, <4>2
    <3> HIDE DEF back
    <3> QED
      BY <2>3, <3>1
  <2> QED
    BY <1>1, <2>2, <2>5, <2>6 DEF b
<1> HIDE DEF back, r, q
<1>6. (n * r + back) % n = back
  BY <1>5, ModIs
<1>7. y % n = back
  BY <1>5, <1>6
<1> QED
  BY <1>2, <1>7 DEF WentBack, back, y, N

\* A character that there is room for is put behind the others.
LEMMA DepositKeeps ==
  ASSUME InInv, Room > 0, NEW c \in Chars, Deposit(c)
  PROVE  LET all == Append(typed \o line, c) IN
         /\ ibuf' \in [0 .. IBufLen -> Chars]
         /\ all \in Seq(Chars) /\ Len(all) = Len(typed) + Len(line) + 1 /\ Len(all) <= IBufLen
         /\ RingHolds(ibuf', IBufLen, tyihead, all)
         /\ tyitail' = (tyihead + Len(all)) % IBufLen
<1> DEFINE before == typed \o line
           n == IBufLen
           all == Append(before, c)
           D == 0 .. IBufLen
<1>1. /\ before \in Seq(Chars) /\ Len(before) = Len(typed) + Len(line) /\ Len(typed) \in Nat /\ Len(line) \in Nat
      /\ Len(before) <= n /\ RingHolds(ibuf, n, tyihead, before) /\ tyitail = (tyihead + Len(before)) % n
      /\ ibuf \in [D -> Chars] /\ tyihead \in Nat
  BY TtyConst, ConcatProperties DEF InInv, InTypes, InRing
<1>2. n \in Nat \ {0} /\ 0 .. n - 1 \subseteq D /\ Len(before) + 1 <= n
  BY <1>1, TtyConst DEF Room
<1>3. ibuf' = [ibuf EXCEPT ![tyitail] = c] /\ tyitail' = IF tyitail + 1 >= n THEN 0 ELSE tyitail + 1
  BY DEF Deposit
<1> HIDE DEF before, D
<1>4. OnePut(ibuf, n, D, tyihead, before, c)
  BY <1>1, <1>2, RingPutsOne
<1>5. /\ ibuf' \in [D -> Chars] /\ all \in Seq(Chars) /\ Len(all) = Len(before) + 1
      /\ RingHolds(ibuf', n, tyihead, all)
      /\ tyitail' = (tyihead + Len(all)) % n
  BY <1>1, <1>3, <1>4 DEF OnePut
<1> QED
  BY <1>1, <1>2, <1>5 DEF before, D

\* What a character typed does with the input.
Added(c) ==  \* to what is complete
  /\ Room > 0 /\ Deposit(c) /\ line = <<>> /\ line' = line /\ tyicursor' = tyicursor
  /\ tyisem' = Signaled(tyisem) /\ typed' = Append(typed, c)
Ended ==     \* the line is complete
  /\ Room > 0 /\ Deposit("nl") /\ typed' = typed \o Append(line, "nl") /\ line' = <<>> /\ tyicursor' = 0
  /\ tyisem' = SignaledN(tyisem, tyicursor + 1)
Inserted(c) == \* into the line
  /\ Room > 0 /\ Deposit(c) /\ line' = Append(line, c) /\ tyicursor' = tyicursor + 1
  /\ tyisem' = tyisem /\ typed' = typed /\ tyimode = "cooked"

LEMMA InputDoes ==
  ASSUME InInv, TtyHazards \cap {"overrun", "eofwrap"} = {}, NEW c \in Key, Ttyhandle_in(c)
  PROVE  \/ UNCHANGED <<ibuf, tyitail, tyisem, tyicursor, line, typed>>
         \/ Added(c) \/ Ended \/ Inserted(c) \/ Kill
         \/ tyicursor > 0 /\ Erase
<1> DEFINE Same == UNCHANGED <<ibuf, tyitail, tyisem, tyicursor, line, typed>>
           Goal == Same \/ Added(c) \/ Ended \/ Inserted(c) \/ Kill \/ (tyicursor > 0 /\ Erase)
<1>1. Deposits(c) => Room > 0
  BY DEF Ttyhandle_in
<1>2. /\ tyicursor = Len(line) /\ (tyimode # "cooked" => line = <<>>) /\ line \in Seq(Chars)
      /\ Len(line) \in Nat /\ (Len(line) = 0 => line = <<>>)
  BY EmptySeq DEF InInv, InRing, InTypes
<1>3. tyicursor = 0 => line = <<>>
  BY <1>2
<1>4. ASSUME Raw(c)
      PROVE  Goal
  <2>1. CASE Avail(tyisem) >= IBufLen
    BY <1>4, <2>1 DEF Raw
  <2>2. CASE ~(Avail(tyisem) >= IBufLen)
    <3>1. /\ Deposit(c) /\ tyisem' = Signaled(tyisem) /\ typed' = Append(typed, c) /\ tyimode = "raw"
          /\ line' = line /\ tyicursor' = tyicursor
      BY <1>4, <2>2 DEF Raw
    <3>2. Deposits(c)
      <4>1. Avail(tyisem) \in Nat /\ IBufLen \in Nat
        BY SemFacts, TtyConst DEF InInv, InTypes
      <4> QED
        BY <2>2, <3>1, <4>1 DEF Deposits
    <3> QED
      BY <1>1, <1>2, <3>1, <3>2 DEF Added
  <2> QED
    BY <2>1, <2>2
<1>5. ASSUME FlowControl(c)
      PROVE  Goal
  BY <1>5 DEF FlowControl
<1>6. ASSUME Cbreak(c)
      PROVE  Goal
  <2>1. CASE Avail(tyisem) >= IBufLen
    BY <1>6, <2>1 DEF Cbreak
  <2>2. CASE ~(Avail(tyisem) >= IBufLen)
    <3>1. /\ Deposit(c) /\ tyisem' = Signaled(tyisem) /\ typed' = Append(typed, c) /\ tyimode = "cbreak"
          /\ line' = line /\ tyicursor' = tyicursor
      BY <1>6, <2>2 DEF Cbreak
    <3>2. Deposits(c)
      <4>1. Avail(tyisem) \in Nat /\ IBufLen \in Nat
        BY SemFacts, TtyConst DEF InInv, InTypes
      <4> QED
        BY <2>2, <3>1, <4>1 DEF Deposits
    <3> QED
      BY <1>1, <1>2, <3>1, <3>2 DEF Added
  <2> QED
    BY <2>1, <2>2
<1>7. ASSUME Cooked(c)
      PROVE  Goal
  <2>1. tyimode = "cooked" /\ c \notin {"start", "stop"}
    BY <1>7 DEF Cooked
  <2>2. CASE c = "kill"
    <3>1. Kill
      BY <1>7, <2>2 DEF Cooked
    <3> QED
      BY <3>1
  <2>3. CASE c = "erase"
    <3>1. Erase
      BY <1>7, <2>3 DEF Cooked
    <3>2. CASE tyicursor > 0
      BY <3>1, <3>2
    <3>3. CASE ~(tyicursor > 0)
      BY <3>1, <3>3 DEF Erase
    <3> QED
      BY <3>2, <3>3
  <2>4. CASE c = "nl"
    <3>1. EndLine
      BY <1>7, <2>4 DEF Cooked
    <3>2. Deposits(c)
      BY <2>1, <2>4 DEF Deposits
    <3> QED
      BY <1>1, <3>1, <3>2 DEF EndLine, Ended
  <2>5. CASE c \in {"a", "eof"}
    <3>1. IF Full THEN Eputc(1) /\ UNCHANGED <<ibuf, tyitail, tyisem, tyicursor, line, typed>>
          ELSE IF c = "eof" THEN Eof ELSE Insert1(c)
      BY <1>7, <2>5 DEF Cooked
    <3>2. CASE Full
      BY <3>1, <3>2
    <3>3. CASE ~Full
      <4>1. Room > 0
        BY <1>1, <2>1, <2>5, <3>3 DEF Deposits
      <4>2. CASE c = "eof"
        <5>1. Eof
          BY <3>1, <3>3, <4>2
        <5>2. CASE tyicursor # 0
          BY <5>1, <5>2 DEF Eof
        <5>3. CASE tyicursor = 0
          <6>1. /\ tyitail + 1 < IBufLen /\ DepositUnwrapped("eof") /\ tyisem' = Signaled(tyisem)
                /\ typed' = Append(typed, "eof") /\ tyicursor' = tyicursor /\ line' = line
            BY <5>1, <5>3 DEF Eof
          <6>2. tyitail \in Nat
            <7> DEFINE x == tyihead + Len(typed \o line)
            <7>1. x \in Int /\ tyitail = x % IBufLen
              BY ConcatProperties, TtyConst DEF InInv, InRing, InTypes
            <7> HIDE DEF x
            <7> QED
              BY <7>1, RingShift, TtyConst
          <6>3. Deposit("eof")
            BY <6>1, <6>2, TtyConst DEF Deposit, DepositUnwrapped
          <6> QED
            BY <1>3, <4>1, <4>2, <5>3, <6>1, <6>3 DEF Added
        <5> QED
          BY <5>2, <5>3
      <4>3. CASE c # "eof"
        <5>1. Insert1(c)
          BY <3>1, <3>3, <4>3
        <5> QED
          BY <2>1, <4>1, <5>1 DEF Insert1, Inserted
      <4> QED
        BY <4>2, <4>3
    <3> QED
      BY <3>2, <3>3
  <2> QED
    BY <2>1, <2>2, <2>3, <2>4, <2>5 DEF Key
<1> HIDE DEF Goal
<1>8. Goal
  BY <1>4, <1>5, <1>6, <1>7 DEF Ttyhandle_in
<1> QED
  BY <1>8 DEF Goal

\* What a character typed leaves alone.
LEMMA HandleInFrame ==
  ASSUME NEW c, Ttyhandle_in(c)
  PROVE  tyihead' = tyihead /\ tyimode' = tyimode /\ ttyon' = ttyon /\ wants' = wants /\ Reading' = Reading
  BY DEF Ttyhandle_in, Reading

\* The units of a semaphore that n were added to.
LEMMA InSignals ==
  ASSUME InInv, NEW n \in Nat, tyisem' = SignaledN(tyisem, n)
  PROVE  /\ SoundSem(TtyProc, tyisem') /\ tyisem'.ok /\ ToSet(tyisem'.queue) \subseteq Reading
         /\ Units(Reading, tyisem') = Len(typed) + n
<1> DEFINE E == Reading
           s == tyisem
<1>1. /\ SoundSem(TtyProc, s) /\ s.ok /\ IsFiniteSet(TtyProc) /\ E \in SUBSET TtyProc
      /\ ToSet(s.queue) \subseteq E /\ Units(E, s) = Len(typed)
  BY TtyConst DEF InInv, InTypes, InQueue, InUnits, Reading
<1>2. tyisem' = SignaledN(s, n)
  OBVIOUS
<1> HIDE DEF E, s
<1>3. Gains(TtyProc, E, s, n)
  BY <1>1, SemAddsMore
<1> QED
  BY <1>1, <1>2, <1>3 DEF E, Gains

LEMMA AddedKeeps ==
  ASSUME InInv, NEW c \in Chars, Added(c), Ttyhandle_in(c)
  PROVE  InInv'
<1> DEFINE all == Append(typed \o line, c)
<1>1. /\ Room > 0 /\ Deposit(c) /\ line = <<>> /\ line' = line /\ tyicursor' = tyicursor
      /\ tyisem' = Signaled(tyisem) /\ typed' = Append(typed, c)
  BY DEF Added
<1>2. /\ typed \in Seq(Chars) /\ line \in Seq(Chars) /\ Len(typed) \in Nat /\ tyicursor = Len(line)
      /\ (tyimode # "cooked" => line = <<>>)
  BY DEF InInv, InTypes, InRing
<1>3. typed' \o line' = all /\ typed' \in Seq(Chars) /\ line' \in Seq(Chars) /\ Len(typed') = Len(typed) + 1
  BY <1>1, <1>2, PiecesGrow
<1>4. /\ ibuf' \in [0 .. IBufLen -> Chars] /\ Len(all) <= IBufLen
      /\ RingHolds(ibuf', IBufLen, tyihead, all) /\ tyitail' = (tyihead + Len(all)) % IBufLen
  BY <1>1, DepositKeeps
<1>5. tyihead' = tyihead /\ tyimode' = tyimode /\ ttyon' = ttyon /\ wants' = wants /\ Reading' = Reading
  BY HandleInFrame
<1> HIDE DEF all
<1>6. InRing'
  BY <1>1, <1>2, <1>3, <1>4, <1>5 DEF InRing
<1>7. /\ SoundSem(TtyProc, tyisem') /\ tyisem'.ok /\ ToSet(tyisem'.queue) \subseteq Reading
      /\ Units(Reading, tyisem') = Len(typed) + 1
  <2>1. tyisem' = SignaledN(tyisem, 1)
    BY <1>1 DEF Signaled
  <2> QED
    BY <2>1, InSignals
<1> QED
  BY <1>3, <1>4, <1>5, <1>6, <1>7 DEF InInv, InTypes, InQueue, InUnits

LEMMA EndedKeeps ==
  ASSUME InInv, Ended, NEW c, Ttyhandle_in(c)
  PROVE  InInv'
<1> DEFINE all == Append(typed \o line, "nl")
<1>1. /\ Room > 0 /\ Deposit("nl") /\ typed' = typed \o Append(line, "nl") /\ line' = <<>> /\ tyicursor' = 0
      /\ tyisem' = SignaledN(tyisem, tyicursor + 1) /\ "nl" \in Chars
  BY DEF Ended, Chars, Key
<1>2. /\ typed \in Seq(Chars) /\ line \in Seq(Chars) /\ Len(typed) \in Nat /\ Len(line) \in Nat
      /\ tyicursor = Len(line)
  BY DEF InInv, InTypes, InRing
<1>3. /\ typed' = all /\ line' \in Seq(Chars) /\ Len(line') = 0
  BY <1>1, <1>2, PiecesGrow
<1>4. /\ ibuf' \in [0 .. IBufLen -> Chars] /\ all \in Seq(Chars) /\ Len(all) <= IBufLen
      /\ Len(all) = Len(typed) + Len(line) + 1
      /\ RingHolds(ibuf', IBufLen, tyihead, all) /\ tyitail' = (tyihead + Len(all)) % IBufLen
  BY <1>1, DepositKeeps
<1>5. tyihead' = tyihead /\ tyimode' = tyimode /\ ttyon' = ttyon /\ wants' = wants /\ Reading' = Reading
  BY HandleInFrame
<1> HIDE DEF all
<1>6. typed' \o line' = all
  BY <1>1, <1>3, <1>4, ConcatEmptySeq
<1>7. InRing'
  BY <1>1, <1>3, <1>4, <1>5, <1>6 DEF InRing
<1>8. /\ SoundSem(TtyProc, tyisem') /\ tyisem'.ok /\ ToSet(tyisem'.queue) \subseteq Reading
      /\ Units(Reading, tyisem') = Len(typed) + (Len(line) + 1)
  <2>1. tyisem' = SignaledN(tyisem, Len(line) + 1) /\ Len(line) + 1 \in Nat
    BY <1>1, <1>2
  <2> QED
    BY <2>1, InSignals
<1> QED
  BY <1>2, <1>3, <1>4, <1>5, <1>7, <1>8 DEF InInv, InTypes, InQueue, InUnits

LEMMA InsertedKeeps ==
  ASSUME InInv, NEW c \in Chars, Inserted(c), Ttyhandle_in(c)
  PROVE  InInv'
<1> DEFINE all == Append(typed \o line, c)
<1>1. /\ Room > 0 /\ Deposit(c) /\ line' = Append(line, c) /\ tyicursor' = tyicursor + 1
      /\ tyisem' = tyisem /\ typed' = typed /\ tyimode = "cooked"
  BY DEF Inserted
<1>2. /\ typed \in Seq(Chars) /\ line \in Seq(Chars) /\ tyicursor = Len(line)
  BY DEF InInv, InTypes, InRing
<1>3. typed' \o line' = all /\ line' \in Seq(Chars) /\ Len(line') = Len(line) + 1
  BY <1>1, <1>2, PiecesGrow
<1>4. /\ ibuf' \in [0 .. IBufLen -> Chars] /\ Len(all) <= IBufLen
      /\ RingHolds(ibuf', IBufLen, tyihead, all) /\ tyitail' = (tyihead + Len(all)) % IBufLen
  BY <1>1, DepositKeeps
<1>5. tyihead' = tyihead /\ tyimode' = tyimode /\ ttyon' = ttyon /\ wants' = wants /\ Reading' = Reading
  BY HandleInFrame
<1> HIDE DEF all
<1>6. InRing'
  BY <1>1, <1>2, <1>3, <1>4, <1>5 DEF InRing
<1> QED
  BY <1>1, <1>3, <1>4, <1>5, <1>6 DEF InInv, InTypes, InQueue, InUnits

\* The line that is left is the beginning of the line that there was.
LEMMA ShrunkKeeps ==
  ASSUME InInv, NEW c, Ttyhandle_in(c), line' \in Seq(Chars), Len(line') <= Len(line),
         \A i \in 1 .. Len(line') : line'[i] = line[i],
         NEW d, d = Len(line) - Len(line'),
         tyitail' = (IF tyitail - d < 0 THEN tyitail - d + IBufLen ELSE tyitail - d),
         tyicursor' = Len(line'), UNCHANGED <<ibuf, tyisem, typed>>
  PROVE  InInv'
<1> DEFINE all == typed \o line
           part == typed \o line'
           K == Len(typed)
           L == Len(line)
           N == Len(line')
<1>1. /\ typed \in Seq(Chars) /\ line \in Seq(Chars) /\ K \in Nat /\ L \in Nat /\ N \in Nat
      /\ (tyimode # "cooked" => L = 0) /\ tyihead \in 0 .. IBufLen - 1
  BY DEF InInv, InTypes, InRing
<1>2. /\ all \in Seq(Chars) /\ Len(all) = K + L
      /\ \A i \in 1 .. K + L : all[i] = IF i <= K THEN typed[i] ELSE line[i - K]
  BY <1>1, ConcatProperties
<1>3. /\ part \in Seq(Chars) /\ Len(part) = K + N
      /\ \A i \in 1 .. K + N : part[i] = IF i <= K THEN typed[i] ELSE line'[i - K]
  BY <1>1, ConcatProperties
<1>4. /\ Len(all) <= IBufLen /\ RingHolds(ibuf, IBufLen, tyihead, all)
      /\ tyitail = (tyihead + Len(all)) % IBufLen
  BY DEF InInv, InRing
<1>5. N <= L /\ d = L - N /\ \A i \in 1 .. N : line'[i] = line[i]
  OBVIOUS
<1> HIDE DEF all, part, K, L, N
<1>6. \A i \in 1 .. Len(part) : part[i] = all[i]
  <2> SUFFICES ASSUME NEW i \in 1 .. K + N
               PROVE  part[i] = all[i]
    BY <1>3
  <2>1. i \in 1 .. K + L
    BY <1>1, <1>5
  <2>2. CASE i <= K
    BY <1>2, <1>3, <2>1, <2>2
  <2>3. CASE ~(i <= K)
    <3>1. i - K \in 1 .. N
      BY <1>1, <2>3
    <3> QED
      BY <1>2, <1>3, <1>5, <2>1, <2>3, <3>1
  <2> QED
    BY <2>2, <2>3
<1>7. Len(part) <= Len(all) /\ d = Len(all) - Len(part)
  <2> DEFINE a == Len(all)
             b == Len(part)
  <2>1. a = K + L
    BY <1>2
  <2>2. b = K + N
    BY <1>3
  <2>3. N <= L /\ d = L - N
    BY <1>5
  <2>4. K \in Int /\ L \in Int /\ N \in Int
    BY <1>1
  <2> HIDE DEF a, b
  <2>5. b <= a
    BY <2>1, <2>2, <2>3, <2>4
  <2>6. d = a - b
    BY <2>1, <2>2, <2>3, <2>4
  <2> QED
    BY <2>5, <2>6 DEF a, b
<1>8. WentBack(ibuf, IBufLen, tyihead, part, d, tyitail)
  <2>1. IBufLen \in Nat \ {0} /\ all \in Seq(Chars) /\ part \in Seq(Chars)
    BY <1>2, <1>3, TtyConst
  <2> QED
    BY <1>1, <1>4, <1>6, <1>7, <2>1, RingBack
<1>9. tyihead' = tyihead /\ tyimode' = tyimode /\ ttyon' = ttyon /\ wants' = wants /\ Reading' = Reading
  BY HandleInFrame
<1>10. typed' \o line' = part
  BY DEF part
<1>11. tyimode # "cooked" => line' = <<>>
  <2>1. N = 0 => line' = <<>>
    BY EmptySeq DEF N
  <2> QED
    BY <1>1, <1>5, <2>1
<1>12. Len(part) <= IBufLen
  BY <1>1, <1>2, <1>3, <1>4, <1>5, TtyConst
<1>13. InRing'
  BY <1>8, <1>9, <1>10, <1>11, <1>12 DEF InRing, WentBack
<1> QED
  BY <1>9, <1>13 DEF InInv, InTypes, InQueue, InUnits

LEMMA HandleInKeeps ==
  ASSUME InInv, TtyHazards \cap {"overrun", "eofwrap"} = {}, NEW c \in Key, Ttyhandle_in(c)
  PROVE  InInv'
<1>0. c \in Chars
  BY DEF Chars
<1>1. /\ line \in Seq(Chars) /\ Len(line) \in Nat /\ tyicursor = Len(line)
  BY DEF InInv, InTypes, InRing
<1>2. CASE UNCHANGED <<ibuf, tyitail, tyisem, tyicursor, line, typed>>
  <2>1. tyihead' = tyihead /\ tyimode' = tyimode /\ ttyon' = ttyon /\ wants' = wants /\ Reading' = Reading
    BY HandleInFrame
  <2>2. InRing'
    BY <1>2, <2>1 DEF InInv, InRing
  <2> QED
    BY <1>2, <2>1, <2>2 DEF InInv, InTypes, InQueue, InUnits
<1>3. CASE Added(c)
  BY <1>0, <1>3, AddedKeeps
<1>4. CASE Ended
  BY <1>4, EndedKeeps
<1>5. CASE Inserted(c)
  BY <1>0, <1>5, InsertedKeeps
<1>6. CASE Kill
  <2>1. /\ tyitail' = (IF tyitail - tyicursor < 0 THEN tyitail - tyicursor + IBufLen ELSE tyitail - tyicursor)
        /\ tyicursor' = 0 /\ line' = <<>> /\ UNCHANGED <<ibuf, tyisem, typed>>
    BY <1>6 DEF Kill
  <2>2. line' \in Seq(Chars) /\ Len(line') = 0 /\ Len(line') <= Len(line) /\ tyicursor = Len(line) - Len(line')
        /\ \A i \in 1 .. Len(line') : line'[i] = line[i]
    BY <1>1, <2>1
  <2> QED
    BY <2>1, <2>2, ShrunkKeeps
<1>7. CASE tyicursor > 0 /\ Erase
  <2>1. /\ tyitail' = (IF tyitail = 0 THEN IBufLen - 1 ELSE tyitail - 1)
        /\ tyicursor' = tyicursor - 1 /\ line' = Front(line) /\ UNCHANGED <<ibuf, tyisem, typed>>
    BY <1>7 DEF Erase, Erase1
  <2>2. line' \in Seq(Chars) /\ Len(line') = Len(line) - 1 /\ Len(line') <= Len(line) /\ 1 = Len(line) - Len(line')
        /\ \A i \in 1 .. Len(line') : line'[i] = line[i]
    <3>1. line' = SubSeq(line, 1, Len(line) - 1) /\ Len(line) >= 1
      BY <1>1, <1>7, <2>1 DEF Front
    <3>2. Len(line) - 1 \in 0 .. Len(line)
      BY <1>1, <3>1
    <3>3. /\ SubSeq(line, 1, Len(line) - 1) \in Seq(Chars)
          /\ Len(SubSeq(line, 1, Len(line) - 1)) = Len(line) - 1
          /\ \A i \in 1 .. Len(line) - 1 : SubSeq(line, 1, Len(line) - 1)[i] = line[i]
      BY <1>1, <3>2
    <3> QED
      BY <1>1, <3>1, <3>3
  <2>3. tyitail \in 0 .. IBufLen - 1
    <3> DEFINE x == tyihead + Len(typed \o line)
    <3>1. x \in Int /\ tyitail = x % IBufLen
      BY ConcatProperties, TtyConst DEF InInv, InRing, InTypes
    <3> HIDE DEF x
    <3> QED
      BY <3>1, RingShift, TtyConst
  <2>4. tyitail' = (IF tyitail - 1 < 0 THEN tyitail - 1 + IBufLen ELSE tyitail - 1) /\ tyicursor' = Len(line')
    BY <1>1, <2>1, <2>2, <2>3, TtyConst
  <2> QED
    BY <2>1, <2>2, <2>4, ShrunkKeeps
<1> QED
  BY <1>2, <1>3, <1>4, <1>5, <1>6, <1>7, InputDoes

\* How many of n characters are taken: a reader that goes on waiting takes them all.
LEMMA WantedIs ==
  ASSUME NEW count \in Nat, NEW first, NEW n \in Nat
  PROVE  LET m == Wanted(count, first, n) IN
         /\ m \in 0 .. n /\ m <= count
         /\ count > 0 /\ n > 0 => m > 0
         /\ m = n \/ m = count \/ (m > 0 /\ EndsRead(m, first))
<1> DEFINE ends == {i \in 1 .. n : EndsRead(i, first)}
           k == IF ends = {} THEN n ELSE Min(ends)
           m == Wanted(count, first, n)
<1>1. k \in 0 .. n /\ (n > 0 => k > 0) /\ (k = n \/ (k > 0 /\ EndsRead(k, first)))
  <2>1. CASE ends = {}
    BY <2>1
  <2>2. CASE ends # {}
    <3>1. \E x \in ends : \A y \in ends : x <= y
      <4>1. ends \in SUBSET Nat
        OBVIOUS
      <4> HIDE DEF ends
      <4> QED
        BY <2>2, <4>1, Least
    <3>2. Min(ends) \in ends
      BY <3>1 DEF Min
    <3> HIDE DEF ends
    <3>3. k \in ends
      BY <2>2, <3>2
    <3> QED
      BY <3>3 DEF ends
  <2> QED
    BY <2>1, <2>2
<1>2. m = IF count < k THEN count ELSE k
  BY DEF Wanted, TtyMin
<1> HIDE DEF k, m
<1>3. m \in {count, k} /\ m <= count /\ m <= k /\ m \in Nat
  BY <1>1, <1>2
<1>4. m \in 0 .. n /\ (count > 0 /\ n > 0 => m > 0)
  BY <1>1, <1>3
<1>5. m = n \/ m = count \/ (m > 0 /\ EndsRead(m, first))
  BY <1>1, <1>3, Zenon
<1> QED
  BY <1>3, <1>4, <1>5 DEF m

LEMMA GetKeeps ==
  ASSUME InInv, NEW p \in TtyProc, NEW count \in Nat, NEW first \in BOOLEAN, NEW has \in {0, 1},
         has = 0 => ttyon[p] = "none",
         has = 1 => ttyon[p] = "read" /\ ~Queued(tyisem, p) /\ count > 0,
         Get(p, count, first, has)
  PROVE  InInv'
<1> DEFINE n == has + Avail(tyisem)
           m == Wanted(count, first, n)
           k == m - has
           done == m = count \/ (m > 0 /\ EndsRead(m, first))
           sem == [tyisem EXCEPT !.count = @ - k]
           all == typed \o line
<1>1. InTypes /\ InQueue /\ InRing /\ InUnits
  BY DEF InInv
<1>2. /\ SoundSem(TtyProc, tyisem) /\ tyisem.ok /\ Avail(tyisem) \in Nat /\ IsFiniteSet(TtyProc)
      /\ typed \in Seq(Chars) /\ line \in Seq(Chars) /\ Len(typed) \in Nat
  BY <1>1, SemFacts, TtyConst DEF InTypes
<1>3. /\ ~Queued(tyisem, p) /\ Reading \in SUBSET TtyProc /\ has = Has(p, Reading)
      /\ ToSet(tyisem.queue) \subseteq Reading
  BY <1>1 DEF InQueue, Queued, Reading, Has
<1>4. n \in Nat /\ (has = 1 => n > 0)
  BY <1>2
<1> DEFINE wanted == [left |-> count - m, first |-> first /\ m = 0]
<1>5. /\ tyihead' = (tyihead + m) % IBufLen /\ typed' = SubSeq(typed, m + 1, Len(typed))
      /\ tyisem' = (IF done THEN sem ELSE Waits(sem, p))
      /\ ttyon' = [ttyon EXCEPT ![p] = IF done THEN "none" ELSE "read"]
      /\ wants' = [wants EXCEPT ![p] = IF done THEN [left |-> 0, first |-> TRUE] ELSE wanted]
      /\ ibuf' = ibuf /\ tyitail' = tyitail /\ tyicursor' = tyicursor /\ tyimode' = tyimode /\ line' = line
  BY DEF Get
<1> HIDE DEF n
<1>6. /\ m \in 0 .. n /\ m <= count /\ (count > 0 /\ n > 0 => m > 0)
      /\ m = n \/ m = count \/ (m > 0 /\ EndsRead(m, first))
  BY <1>4, WantedIs
<1>7. ~done => m = n /\ count - m > 0
  <2> HIDE DEF m
  <2> QED
    BY <1>4, <1>6
<1> HIDE DEF done, m
<1>8. k \in 0 .. Avail(tyisem) /\ has + k = m /\ m \in Nat /\ (m = n => k = Avail(tyisem))
  BY <1>2, <1>4, <1>6 DEF n
<1> HIDE DEF k
<1>9. m <= Len(typed) /\ Units(Reading \ {p}, sem) = Len(typed) - m
  <2> DEFINE E == Reading
             s == tyisem
  <2>0. sem = [s EXCEPT !.count = @ - k]
    BY DEF sem, s
  <2>1. Units(E, s) = Len(typed)
    BY <1>1 DEF InUnits
  <2> HIDE DEF E, s, sem
  <2>2. /\ k \in 0 .. Avail(s) /\ ~Queued(s, p) /\ E \in SUBSET TtyProc /\ p \in TtyProc
        /\ IsFiniteSet(TtyProc) /\ SoundSem(TtyProc, s) /\ s.ok
    BY <1>2, <1>3, <1>8 DEF E, s
  <2>3. Has(p, E) + k <= Units(E, s)
    BY <2>2, SemTakesMore
  <2>4. Units(E \ {p}, [s EXCEPT !.count = @ - k]) = Units(E, s) - (Has(p, E) + k)
    BY <2>2, SemTakesMore
  <2>5. Has(p, E) + k = m
    BY <1>3, <1>8 DEF E
  <2>6. Units(E \ {p}, sem) = Units(E, s) - m
    BY <2>0, <2>4, <2>5
  <2> QED
    BY <2>1, <2>3, <2>5, <2>6 DEF E
<1>10. /\ ttyon' \in [TtyProc -> {"none", "read", "write"}]
       /\ Reading' = IF done THEN Reading \ {p} ELSE Reading \cup {p}
  BY <1>1, <1>5 DEF InTypes, Reading
<1>11. /\ SoundSem(TtyProc, tyisem') /\ tyisem'.ok /\ ToSet(tyisem'.queue) \subseteq Reading'
       /\ Units(Reading', tyisem') = Len(typed) - m
  <2>0. SoundSem(TtyProc, sem) /\ sem.ok /\ sem.queue = tyisem.queue /\ Avail(sem) = Avail(tyisem) - k
    BY <1>2, <1>8, SemLess
  <2>1. CASE done
    <3>1. tyisem' = sem /\ Reading' = Reading \ {p}
      BY <1>5, <1>10, <2>1
    <3>2. ToSet(tyisem.queue) \subseteq Reading \ {p}
      BY <1>3 DEF Queued
    <3> HIDE DEF sem
    <3> QED
      BY <1>9, <2>0, <3>1, <3>2
  <2>2. CASE ~done
    <3> DEFINE E == Reading
    <3>1. tyisem' = Waits(sem, p) /\ Reading' = Reading \cup {p}
      BY <1>5, <1>10, <2>2
    <3> HIDE DEF sem, E
    <3>2. Avail(sem) = 0
      BY <1>2, <1>7, <1>8, <2>0, <2>2
    <3>3. ~Queued(sem, p) /\ E \in SUBSET TtyProc
      BY <1>3, <2>0 DEF Queued, E
    <3>4. Joined(TtyProc, E, sem, p)
      BY <1>2, <2>0, <3>2, <3>3, SemTakesAll
    <3> QED
      BY <1>3, <1>9, <2>0, <3>1, <3>4 DEF E, Joined
  <2> QED
    BY <2>1, <2>2
<1> HIDE DEF sem, all
<1>12. /\ all \in Seq(Chars) /\ Len(all) \in Nat /\ Len(typed) <= Len(all) /\ m \in 0 .. Len(typed)
       /\ m \in 0 .. Len(all)
  <2>1. Len(all) = Len(typed) + Len(line) /\ all \in Seq(Chars) /\ Len(line) \in Nat
    BY <1>2, ConcatProperties DEF all
  <2> QED
    BY <1>2, <1>8, <1>9, <2>1
<1>13. /\ typed' \in Seq(Chars) /\ Len(typed') = Len(typed) - m
       /\ typed' \o line' = SubSeq(all, m + 1, Len(all))
  <2>1. typed' \in Seq(Chars) /\ Len(typed') = Len(typed) - m
    BY <1>2, <1>5, <1>12
  <2> QED
    BY <1>2, <1>5, <1>12, <2>1, PiecesDrop DEF all
<1>14. InRing' /\ tyihead' \in 0 .. IBufLen - 1
  <2>1. /\ RingHolds(ibuf, IBufLen, tyihead, all) /\ Len(all) <= IBufLen
        /\ tyitail = (tyihead + Len(all)) % IBufLen
        /\ tyicursor = Len(line) /\ (tyimode # "cooked" => line = <<>>)
        /\ tyihead \in Nat /\ IBufLen \in Nat \ {0}
    BY <1>1, TtyConst DEF InRing, InTypes, all
  <2>2. Dropped(ibuf, IBufLen, tyihead, all, m)
    BY <1>12, <2>1, RingDrops
  <2>3. /\ tyihead' \in 0 .. IBufLen - 1 /\ RingHolds(ibuf, IBufLen, tyihead', typed' \o line')
        /\ Len(typed' \o line') = Len(all) - m
        /\ (tyihead' + Len(typed' \o line')) % IBufLen = (tyihead + Len(all)) % IBufLen
    BY <1>5, <1>13, <2>2 DEF Dropped
  <2>4. Len(typed' \o line') <= IBufLen
    BY <1>12, <2>1, <2>3
  <2> QED
    BY <1>5, <2>1, <2>3, <2>4 DEF InRing
<1>15. wants' \in [TtyProc -> [left : Nat, first : BOOLEAN]] /\ \A q \in Reading' : wants'[q].left > 0
  <2>1. wants \in [TtyProc -> [left : Nat, first : BOOLEAN]] /\ \A q \in Reading : wants[q].left > 0
    BY <1>1 DEF InTypes, InQueue
  <2>2. CASE done
    <3>1. wants' = [wants EXCEPT ![p] = [left |-> 0, first |-> TRUE]] /\ Reading' = Reading \ {p}
      BY <1>5, <1>10, <2>2
    <3> QED
      BY <1>3, <2>1, <3>1
  <2>3. CASE ~done
    <3>1. wants' = [wants EXCEPT ![p] = wanted] /\ Reading' = Reading \cup {p}
      BY <1>5, <1>10, <2>3
    <3>2. wanted \in [left : Nat, first : BOOLEAN] /\ wanted.left > 0
      BY <1>6, <1>7, <1>8, <2>3
    <3> HIDE DEF wanted
    <3> QED
      BY <1>3, <2>1, <3>1, <3>2
  <2> QED
    BY <2>2, <2>3
<1>16. InUnits'
  BY <1>11, <1>13 DEF InUnits
<1>17. InTypes' /\ InQueue'
  BY <1>1, <1>5, <1>10, <1>11, <1>13, <1>14, <1>15 DEF InTypes, InQueue
<1> QED
  BY <1>14, <1>16, <1>17 DEF InInv

\* What leaves the input alone.
LEMMA InFrame ==
  ASSUME InInv, ibuf' = ibuf, tyihead' = tyihead, tyitail' = tyitail, tyisem' = tyisem, tyicursor' = tyicursor,
         tyimode' = tyimode \/ tyicursor = 0, line' = line, typed' = typed,
         ttyon' \in [TtyProc -> {"none", "read", "write"}], Reading' = Reading, wants' = wants
  PROVE  InInv'
<1>1. InTypes /\ InQueue /\ InRing /\ InUnits
  BY DEF InInv
<1>2. tyicursor = 0 => line = <<>>
  BY <1>1, EmptySeq DEF InTypes, InRing
<1>3. InRing'
  BY <1>1, <1>2 DEF InRing
<1> QED
  BY <1>1, <1>3 DEF InInv, InTypes, InQueue, InUnits

LEMMA InInit == TtyInit => InInv
<1> SUFFICES ASSUME TtyInit
             PROVE  InInv
  OBVIOUS
<1>1. IBufLen \in Nat \ {0} /\ IsFiniteSet(TtyProc)
  BY TtyConst
<1>2. /\ ibuf = [k \in 0 .. IBufLen |-> "none"] /\ tyihead = 0 /\ tyitail = 0 /\ tyisem = NewSem(0)
      /\ tyicursor = 0 /\ tyimode = "cooked"
      /\ ttyon = [p \in TtyProc |-> "none"]
      /\ wants = [p \in TtyProc |-> [left |-> 0, first |-> TRUE]]
      /\ line = <<>> /\ typed = <<>>
  BY DEF TtyInit
<1>3. SoundSem(TtyProc, tyisem) /\ tyisem.ok /\ ToSet(tyisem.queue) = {} /\ Units({}, tyisem) = 0
  BY <1>1, <1>2, SemFresh
<1>4. Reading = {}
  BY <1>2 DEF Reading
<1>5. typed \o line = <<>> /\ Len(typed) = 0 /\ Len(line) = 0 /\ typed \in Seq(Chars) /\ line \in Seq(Chars)
  BY <1>2
<1>6. InQueue /\ InUnits
  BY <1>3, <1>4, <1>5 DEF InQueue, InUnits
<1>7. InRing
  <2>1. RingHolds(ibuf, IBufLen, tyihead, <<>>) /\ Len(<<>>) = 0
    BY DEF RingHolds
  <2>2. tyihead + 0 = 0 /\ 0 \in 0 .. IBufLen - 1 /\ 0 <= IBufLen
    BY <1>1, <1>2
  <2>3. 0 % IBufLen = 0
    BY <1>1, <2>2, ModSmall
  <2> QED
    BY <1>2, <1>5, <2>1, <2>2, <2>3 DEF InRing
<1>8. ibuf \in [0 .. IBufLen -> Chars]
  BY <1>2 DEF Chars
<1>9. wants \in [TtyProc -> [left : Nat, first : BOOLEAN]] /\ ttyon \in [TtyProc -> {"none", "read", "write"}]
  <2> DEFINE w == [left |-> 0, first |-> TRUE]
  <2>1. w \in [left : Nat, first : BOOLEAN]
    OBVIOUS
  <2>2. wants = [p \in TtyProc |-> w]
    BY <1>2
  <2> HIDE DEF w
  <2> QED
    BY <1>2, <2>1, <2>2
<1>10. tyihead \in 0 .. IBufLen - 1
  BY <1>1, <1>2
<1>11. InTypes
  BY <1>3, <1>5, <1>8, <1>9, <1>10 DEF InTypes
<1> QED
  BY <1>6, <1>7, <1>11 DEF InInv

\* Every step of the console keeps what the input is made of.
LEMMA InNext ==
  ASSUME InInv, TtyHazards \cap {"overrun", "eofwrap"} = {}, [TtyNext]_ttyVars
  PROVE  InInv'
<1>0. ttyon \in [TtyProc -> {"none", "read", "write"}] /\ wants \in [TtyProc -> [left : Nat, first : BOOLEAN]]
      /\ \A p \in Reading : wants[p].left > 0
  BY DEF InInv, InTypes, InQueue
<1>1. ASSUME UNCHANGED ttyVars
      PROVE  InInv'
  <2>1. /\ ibuf' = ibuf /\ tyihead' = tyihead /\ tyitail' = tyitail /\ tyisem' = tyisem /\ tyicursor' = tyicursor
        /\ tyimode' = tyimode /\ line' = line /\ typed' = typed /\ ttyon' = ttyon /\ wants' = wants
        /\ Reading' = Reading
    BY <1>1 DEF ttyVars, inVars, Reading
  <2> QED
    BY <1>0, <2>1, InFrame
<1>2. ASSUME Ttyhandle_out
      PROVE  InInv'
  <2>1. /\ ibuf' = ibuf /\ tyihead' = tyihead /\ tyitail' = tyitail /\ tyisem' = tyisem /\ tyicursor' = tyicursor
        /\ tyimode' = tyimode /\ line' = line /\ typed' = typed /\ ttyon' = ttyon /\ wants' = wants
        /\ Reading' = Reading
    BY <1>2 DEF Ttyhandle_out, inVars, Reading
  <2> QED
    BY <1>0, <2>1, InFrame
<1>3. ASSUME NEW c \in Key, Ttyhandle_in(c)
      PROVE  InInv'
  BY <1>3, HandleInKeeps
<1>4. ASSUME NEW func \in {"raw", "cooked", "cbreak", "echo", "noecho"}, Ttycontrol(func)
      PROVE  InInv'
  <2>1. /\ ibuf' = ibuf /\ tyihead' = tyihead /\ tyitail' = tyitail /\ tyisem' = tyisem /\ tyicursor' = tyicursor
        /\ (tyimode' = tyimode \/ tyicursor = 0) /\ line' = line /\ typed' = typed /\ ttyon' = ttyon
        /\ wants' = wants /\ Reading' = Reading
    BY <1>4 DEF Ttycontrol, Reading
  <2> QED
    BY <1>0, <2>1, InFrame
<1>5. ASSUME NEW p \in TtyProc, ttyon[p] # "read", NEW chars, NEW has, Put(p, chars, has)
      PROVE  InInv'
  <2>1. /\ ibuf' = ibuf /\ tyihead' = tyihead /\ tyitail' = tyitail /\ tyisem' = tyisem /\ tyicursor' = tyicursor
        /\ tyimode' = tyimode /\ line' = line /\ typed' = typed /\ wants' = wants
    BY <1>5 DEF Put, inVars
  <2>2. \E how \in {"none", "write"} : ttyon' = [ttyon EXCEPT ![p] = how]
    BY <1>5 DEF Put
  <2>3. ttyon' \in [TtyProc -> {"none", "read", "write"}] /\ Reading' = Reading
    BY <1>0, <1>5, <2>2 DEF Reading
  <2> QED
    BY <2>1, <2>3, InFrame
<1>6. ASSUME NEW p \in TtyProc, NEW text \in Texts, Ttywrite(p, text)
      PROVE  InInv'
  BY <1>5, <1>6 DEF Ttywrite
<1>7. ASSUME NEW p \in TtyProc, TtywriteReturns(p)
      PROVE  InInv'
  BY <1>5, <1>7 DEF TtywriteReturns, LetThrough
<1>8. ASSUME NEW p \in TtyProc, NEW count \in Reads, Ttyread(p, count)
      PROVE  InInv'
  <2> DEFINE n == IF count > 0 THEN count ELSE IF tyimode = "cooked" THEN 1 ELSE Avail(tyisem)
  <2>1. ttyon[p] = "none" /\ Get(p, n, TRUE, 0)
    BY <1>8 DEF Ttyread
  <2>2. n \in Nat
    <3>1. count \in Nat
      BY TtyAssumption
    <3>2. Avail(tyisem) \in Nat
      BY SemFacts DEF InInv, InTypes
    <3> QED
      BY <3>1, <3>2
  <2> DEFINE first == TRUE
             has == 0
  <2>3. has \in {0, 1} /\ (has = 0 => ttyon[p] = "none") /\ ~(has = 1) /\ first \in BOOLEAN
    BY <2>1
  <2>4. Get(p, n, first, has)
    BY <2>1
  <2> HIDE DEF n, first, has
  <2> QED
    BY <2>2, <2>3, <2>4, GetKeeps
<1>9. ASSUME NEW p \in TtyProc, TtyreadReturns(p)
      PROVE  InInv'
  <2>1. ttyon[p] = "read" /\ ~Queued(tyisem, p) /\ Get(p, wants[p].left, wants[p].first, 1)
    BY <1>9 DEF TtyreadReturns, LetThrough
  <2>2. wants[p].left \in Nat /\ wants[p].left > 0 /\ wants[p].first \in BOOLEAN
    BY <1>0, <2>1 DEF Reading
  <2> QED
    BY <2>1, <2>2, GetKeeps
<1> QED
  BY <1>1, <1>2, <1>3, <1>4, <1>6, <1>7, <1>8, <1>9 DEF TtyNext

\* What is in the input ring, as the property states it.
LEMMA InIs == InInv => InputFaithful
<1> SUFFICES ASSUME InInv
             PROVE  InputFaithful
  OBVIOUS
<1> DEFINE all == typed \o line
<1>1. InTypes /\ InRing /\ InUnits
  BY DEF InInv
<1>2. /\ SoundSem(TtyProc, tyisem) /\ Reading \in SUBSET TtyProc
      /\ all \in Seq(Chars) /\ DOMAIN all = 1 .. Len(all)
  BY <1>1, ConcatProperties, LenProperties DEF InTypes, Reading
<1>3. LetThrough("read", tyisem) = Through(Reading, tyisem)
  BY DEF LetThrough, Through, Reading
<1>4. Units(Reading, tyisem) = Avail(tyisem) + Cardinality(Through(Reading, tyisem))
  BY <1>2, SemUnits, TtyConst
<1>5. Len(typed) = Avail(tyisem) + Cardinality(LetThrough("read", tyisem))
  BY <1>1, <1>3, <1>4 DEF InUnits
<1>6. /\ Len(all) <= IBufLen /\ tyitail = (tyihead + Len(all)) % IBufLen /\ tyicursor = Len(line)
      /\ \A i \in 1 .. Len(all) : Unread(i) = all[i]
  BY <1>1 DEF InRing, RingHolds, Unread
<1> QED
  BY <1>2, <1>5, <1>6 DEF InputFaithful

\* Readers get what was typed, line by line, as it was edited: the input ring holds
\* from its head on the lines that are complete and the one being typed, whatever
\* was erased or killed over its end, and the semaphore counts the characters of
\* the first (ttyhandle_in.c, ttygetc.c, ttyread.c).
THEOREM InputStaysFaithful ==
  ASSUME TtyHazards \cap {"overrun", "eofwrap"} = {}
  PROVE  TtySpec => []InputFaithful
<1>1. TtyInit => InInv
  BY InInit
<1>2. InInv /\ [TtyNext]_ttyVars => InInv'
  BY InNext
<1>3. InInv => InputFaithful
  BY InIs
<1> QED
  BY <1>1, <1>2, <1>3, PTL DEF TtySpec
================================================================================
