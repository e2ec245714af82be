------------------------------ MODULE ChrootProofs ------------------------------
(***************************************************************************)
(* Proofs about PathSanitize and ChrootEnv, which extends it, for every    *)
(* PATH and every user environment.                                        *)
(***************************************************************************)
EXTENDS ChrootEnv, SequenceTheorems, TLAPS

(***************************************************************************)
(* PathSanitize.                                                           *)
(***************************************************************************)
(* What an insertion does to a sequence, element by element.               *)
LEMMA Inserted ==
  ASSUME NEW S, NEW s \in Seq(S), NEW p \in 1..(Len(s) + 1), NEW e \in S
  PROVE  /\ InsertAt(s, p, e) \in Seq(S)
         /\ Len(InsertAt(s, p, e)) = Len(s) + 1
         /\ \A q \in 1..(p - 1) : InsertAt(s, p, e)[q] = s[q]
         /\ InsertAt(s, p, e)[p] = e
         /\ \A q \in (p + 1)..(Len(s) + 1) : InsertAt(s, p, e)[q] = s[q - 1]
<1> DEFINE n == Len(s)
           a == SubSeq(s, 1, p - 1)
           b == SubSeq(s, p, n)
           one == <<e>>
           c == a \o one
<1>0. n \in Nat /\ p \in Int /\ p - 1 \in Int /\ 1 <= p /\ p <= n + 1
  BY LenProperties
<1>1. \A q \in 1..n : s[q] \in S
  BY ElementOfSeq
<1>2. /\ a \in Seq(S) /\ Len(a) = p - 1
      /\ \A q \in 1..(p - 1) : a[q] = s[q]
  <2>1. \A q \in 1..(p - 1) : s[q] \in S
    BY <1>0, <1>1
  <2>2. /\ a \in Seq(S)
        /\ Len(a) = IF 1 <= p - 1 THEN p - 1 - 1 + 1 ELSE 0
        /\ \A q \in 1..(p - 1 - 1 + 1) : a[q] = s[1 + q - 1]
    BY <1>0, <2>1, SubSeqProperties
  <2> QED  BY <1>0, <2>2
<1>3. /\ b \in Seq(S) /\ Len(b) = n - p + 1
      /\ \A q \in 1..(n - p + 1) : b[q] = s[p + q - 1]
  <2>1. \A q \in p..n : s[q] \in S
    BY <1>0, <1>1
  <2>2. /\ b \in Seq(S)
        /\ Len(b) = IF p <= n THEN n - p + 1 ELSE 0
        /\ \A q \in 1..(n - p + 1) : b[q] = s[p + q - 1]
    BY <1>0, <2>1, SubSeqProperties
  <2> QED  BY <1>0, <2>2
<1>4. one \in Seq(S) /\ Len(one) = 1 /\ one[1] = e
  OBVIOUS
<1>5. InsertAt(s, p, e) = c \o b
  BY DEF InsertAt
<1> HIDE DEF n, a, b, one
<1>6. /\ c \in Seq(S) /\ Len(c) = p
      /\ \A q \in 1..(p - 1) : c[q] = s[q]
      /\ c[p] = e
  <2>1. /\ c \in Seq(S) /\ Len(c) = Len(a) + Len(one)
        /\ \A q \in 1..(Len(a) + Len(one)) :
             c[q] = IF q <= Len(a) THEN a[q] ELSE one[q - Len(a)]
    BY <1>2, <1>4, ConcatProperties
  <2> QED  BY <1>0, <1>2, <1>4, <2>1
<1> HIDE DEF c
<1>7. /\ c \o b \in Seq(S) /\ Len(c \o b) = Len(c) + Len(b)
      /\ \A q \in 1..(Len(c) + Len(b)) :
           (c \o b)[q] = IF q <= Len(c) THEN c[q] ELSE b[q - Len(c)]
  BY <1>3, <1>6, ConcatProperties
<1>8. Len(c) + Len(b) = n + 1
  BY <1>0, <1>3, <1>6
<1>9. ASSUME NEW q \in 1..(p - 1)  PROVE (c \o b)[q] = s[q]
  BY <1>0, <1>6, <1>7, <1>8
<1>10. (c \o b)[p] = e
  BY <1>0, <1>6, <1>7, <1>8
<1>11. ASSUME NEW q \in (p + 1)..(n + 1)  PROVE (c \o b)[q] = s[q - 1]
  <2>1. (c \o b)[q] = b[q - p]
    BY <1>0, <1>6, <1>7, <1>8
  <2>2. q - p \in 1..(n - p + 1) /\ p + (q - p) - 1 = q - 1
    BY <1>0
  <2> QED  BY <1>3, <2>1, <2>2
<1> QED  BY <1>5, <1>7, <1>8, <1>9, <1>10, <1>11 DEF n

(* Where first occurrences are after an insertion of something new.        *)
LEMMA FirstShifts ==
  ASSUME NEW S, NEW s \in Seq(S), NEW p \in 1..(Len(s) + 1), NEW x \in S, ~Contains(s, x)
  PROVE  /\ \A q \in 1..(Len(s) + 1) : First(InsertAt(s, p, x), x, q) <=> q = p
         /\ \A d : d # x => \A q \in 1..(Len(s) + 1) :
              First(InsertAt(s, p, x), d, q) <=> \/ q < p /\ First(s, d, q)
                                                 \/ q > p /\ First(s, d, q - 1)
<1> DEFINE t == InsertAt(s, p, x)
           n == Len(s)
<1>1. /\ t \in Seq(S)
      /\ Len(t) = n + 1
      /\ \A q \in 1..(p - 1) : t[q] = s[q]
      /\ t[p] = x
      /\ \A q \in (p + 1)..(n + 1) : t[q] = s[q - 1]
  BY Inserted
<1>0. n \in Nat /\ p \in 1..(n + 1)
  BY LenProperties
<1>2. \A q \in 1..n : s[q] # x
  BY DEF Contains
<1> SUFFICES ASSUME NEW q \in 1..(n + 1)
             PROVE  /\ First(t, x, q) <=> q = p
                    /\ \A d : d # x => (First(t, d, q) <=> \/ q < p /\ First(s, d, q)
                                                           \/ q > p /\ First(s, d, q - 1))
  OBVIOUS
<1>3. First(t, x, q) <=> q \in 1..(n + 1) /\ t[q] = x /\ \A r \in 1..(q - 1) : t[r] # x
  BY <1>1 DEF First
<1>4. \A d : First(t, d, q) <=> q \in 1..(n + 1) /\ t[q] = d /\ \A r \in 1..(q - 1) : t[r] # d
  BY <1>1 DEF First
<1>5. \A d, r : First(s, d, r) <=> r \in 1..n /\ s[r] = d /\ \A u \in 1..(r - 1) : s[u] # d
  BY DEF First
<1> HIDE DEF t, n
<1>6. \A r \in 1..(n + 1) : t[r] = x <=> r = p
  BY <1>0, <1>1, <1>2
<1>7. First(t, x, q) <=> q = p
  BY <1>0, <1>3, <1>6
<1>8. ASSUME NEW d, d # x
      PROVE  First(t, d, q) <=> \/ q < p /\ First(s, d, q)
                                \/ q > p /\ First(s, d, q - 1)
  <2>1. CASE q < p
    BY <1>0, <1>1, <1>4, <1>5, <2>1
  <2>2. CASE q = p
    BY <1>0, <1>1, <1>4, <1>8, <2>2
  <2>3. CASE q > p
    <3>1. t[q] = s[q - 1] /\ q - 1 \in 1..n
      BY <1>0, <1>1, <2>3
    <3>2. ASSUME \A r \in 1..(q - 1) : t[r] # d, NEW r \in 1..(q - 1 - 1)  PROVE s[r] # d
      <4>1. CASE r < p
        BY <1>0, <1>1, <2>3, <3>2, <4>1
      <4>2. CASE r >= p
        <5>1. t[r + 1] = s[r] /\ r + 1 \in 1..(q - 1)
          BY <1>0, <1>1, <2>3, <4>2
        <5> QED  BY <3>2, <5>1
      <4> QED  BY <1>0, <4>1, <4>2
    <3>3. ASSUME \A r \in 1..(q - 1 - 1) : s[r] # d, NEW r \in 1..(q - 1)  PROVE t[r] # d
      <4>1. CASE r < p
        BY <1>0, <1>1, <2>3, <3>3, <4>1
      <4>2. CASE r = p
        BY <1>0, <1>1, <1>8, <4>2
      <4>3. CASE r > p
        <5>1. t[r] = s[r - 1] /\ r - 1 \in 1..(q - 1 - 1)
          BY <1>0, <1>1, <2>3, <4>3
        <5> QED  BY <3>3, <5>1
      <4> QED  BY <1>0, <4>1, <4>2, <4>3
    <3>4. First(t, d, q) <=> First(s, d, q - 1)
      BY <1>4, <1>5, <3>1, <3>2, <3>3
    <3> QED  BY <1>0, <2>3, <3>4
  <2> QED  BY <1>0, <2>1, <2>2, <2>3
<1> QED  BY <1>7, <1>8

LEMMA WantedDiffer == \A v, w \in 1..6 : v # w => WantedPaths[v] # WantedPaths[w]
<1>1. /\ WantedPaths[1] = "/usr/local/sbin" /\ WantedPaths[2] = "/usr/local/bin"
      /\ WantedPaths[3] = "/usr/sbin" /\ WantedPaths[4] = "/usr/bin"
      /\ WantedPaths[5] = "/sbin" /\ WantedPaths[6] = "/bin"
  BY DEF WantedPaths
<1>2. \A v \in 1..6 : v = 1 \/ v = 2 \/ v = 3 \/ v = 4 \/ v = 5 \/ v = 6
  OBVIOUS
<1>3. ASSUME NEW v \in 1..6, NEW w \in 1..6, v # w  PROVE WantedPaths[v] # WantedPaths[w]
  <2>1. CASE v = 1  BY <1>1, <1>2, <1>3, <2>1
  <2>2. CASE v = 2  BY <1>1, <1>2, <1>3, <2>2
  <2>3. CASE v = 3  BY <1>1, <1>2, <1>3, <2>3
  <2>4. CASE v = 4  BY <1>1, <1>2, <1>3, <2>4
  <2>5. CASE v = 5  BY <1>1, <1>2, <1>3, <2>5
  <2>6. CASE v = 6  BY <1>1, <1>2, <1>3, <2>6
  <2> QED  BY <1>2, <2>1, <2>2, <2>3, <2>4, <2>5, <2>6
<1> QED  BY <1>3

(* An insertion takes nothing out of a sequence.                           *)
LEMMA NothingLost ==
  ASSUME NEW S, NEW s \in Seq(S), NEW p \in 1..(Len(s) + 1), NEW x \in S
  PROVE  /\ Contains(InsertAt(s, p, x), x)
         /\ \A d : Contains(s, d) => Contains(InsertAt(s, p, x), d)
<1> DEFINE t == InsertAt(s, p, x)
<1>0. Len(s) \in Nat
  BY LenProperties
<1>1. /\ Len(t) = Len(s) + 1 /\ t[p] = x
      /\ \A q \in 1..(p - 1) : t[q] = s[q]
      /\ \A q \in (p + 1)..(Len(s) + 1) : t[q] = s[q - 1]
  BY Inserted
<1> HIDE DEF t
<1>2. Contains(t, x)
  BY <1>0, <1>1 DEF Contains
<1>3. ASSUME NEW q \in 1..Len(s)  PROVE \E r \in 1..Len(t) : t[r] = s[q]
  <2>1. CASE q < p
    BY <1>0, <1>1, <2>1
  <2>2. CASE q >= p
    <3>1. q + 1 \in (p + 1)..(Len(s) + 1) /\ q + 1 - 1 = q /\ q + 1 \in 1..Len(t)
      BY <1>0, <1>1, <2>2
    <3>2. t[q + 1] = s[q]
      BY <1>1, <3>1
    <3> QED  BY <3>1, <3>2, Zenon
  <2> QED  BY <1>0, <2>1, <2>2
<1>4. \A d : Contains(s, d) => Contains(t, d)
  BY <1>3 DEF Contains
<1> QED  BY <1>2, <1>4 DEF t

(* The order of first occurrences of what was there stays the same.        *)
LEMMA OrderKept ==
  ASSUME NEW S, NEW s \in Seq(S), NEW p \in 1..(Len(s) + 1), NEW x \in S, ~Contains(s, x),
         NEW d, d # x, NEW e, e # x
  PROVE  Precedes(InsertAt(s, p, x), d, e) <=> Precedes(s, d, e)
<1> DEFINE t == InsertAt(s, p, x)
<1>0. Len(s) \in Nat /\ p \in 1..(Len(s) + 1) /\ Len(t) = Len(s) + 1
  BY LenProperties, Inserted
<1>1. \A c : c # x => \A q \in 1..(Len(s) + 1) :
              First(t, c, q) <=> \/ q < p /\ First(s, c, q)
                                 \/ q > p /\ First(s, c, q - 1)
  BY FirstShifts
<1> HIDE DEF t
<1> DEFINE Old(q) == IF q < p THEN q ELSE q - 1
           New(q) == IF q < p THEN q ELSE q + 1
<1>2. ASSUME NEW c, c # x, NEW q \in 1..Len(t), First(t, c, q)
      PROVE  q # p /\ Old(q) \in 1..Len(s) /\ First(s, c, Old(q))
  <2>1. \/ q < p /\ First(s, c, q)
        \/ q > p /\ First(s, c, q - 1)
    BY <1>0, <1>1, <1>2
  <2> QED  BY <1>0, <2>1
<1>3. ASSUME NEW c, c # x, NEW q \in 1..Len(s), First(s, c, q)
      PROVE  New(q) \in 1..Len(t) /\ First(t, c, New(q))
  <2>1. New(q) \in 1..(Len(s) + 1)
    BY <1>0
  <2>2. \/ New(q) < p /\ First(s, c, New(q))
        \/ New(q) > p /\ First(s, c, New(q) - 1)
    <3>1. CASE q < p
      BY <1>3, <3>1
    <3>2. CASE q >= p
      <4>1. New(q) = q + 1 /\ q + 1 > p /\ q + 1 - 1 = q
        BY <1>0, <3>2
      <4> QED  BY <1>3, <4>1
    <3> QED  BY <1>0, <3>1, <3>2
  <2> QED  BY <1>0, <1>1, <1>3, <2>1, <2>2
<1>4. ASSUME Precedes(t, d, e)  PROVE Precedes(s, d, e)
  <2>1. PICK q, r \in 1..Len(t) : First(t, d, q) /\ First(t, e, r) /\ q < r
    BY <1>4 DEF Precedes
  <2>2. /\ q # p /\ Old(q) \in 1..Len(s) /\ First(s, d, Old(q))
        /\ r # p /\ Old(r) \in 1..Len(s) /\ First(s, e, Old(r))
    BY <1>2, <2>1
  <2>3. Old(q) < Old(r)
    BY <1>0, <2>1, <2>2
  <2> HIDE DEF Old
  <2> QED  BY <2>2, <2>3 DEF Precedes
<1>5. ASSUME Precedes(s, d, e)  PROVE Precedes(t, d, e)
  <2>1. PICK q, r \in 1..Len(s) : First(s, d, q) /\ First(s, e, r) /\ q < r
    BY <1>5 DEF Precedes
  <2>2. /\ New(q) \in 1..Len(t) /\ First(t, d, New(q))
        /\ New(r) \in 1..Len(t) /\ First(t, e, New(r))
    BY <1>3, <2>1
  <2>3. New(q) < New(r)
    BY <1>0, <2>1
  <2> HIDE DEF New
  <2> QED  BY <2>2, <2>3 DEF Precedes
<1> QED  BY <1>4, <1>5 DEF t

(***************************************************************************)
(* What holds at every step.                                               *)
(***************************************************************************)

(* The user's directories are not taken out of PATH.                       *)
OriginalsIn == \A m \in 1..Len(original) : Contains(path, original[m])

IInv == TypeOK /\ OriginalsIn /\ AllWanted /\ PrecedenceKept /\ WantedInOrder

(* The index computed for an element keeps the wanted order of a list that *)
(* is in this order: nothing is in conflict.                               *)
LEMMA InsertedInOrder ==
  ASSUME TypeOK, i \in 1..6, InOrder(path), ~Contains(path, WantedPaths[i]),
         NEW p \in 1..(Len(path) + 1), InsertionIndex(p)
  PROVE  InOrder(InsertAt(path, p, WantedPaths[i]))
<1> DEFINE x == WantedPaths[i]
           t == InsertAt(path, p, x)
           n == Len(path)
<1>0. /\ path \in Seq(Directories) /\ n \in Nat /\ p \in 1..(n + 1)
      /\ x \in Directories /\ Len(t) = n + 1
  <2>1. path \in Seq(Directories) /\ x \in Directories
    <3>1. path \in Seq(Directories)  BY DEF TypeOK
    <3>2. x \in Directories  BY DirectoriesAssumption, Zenon
    <3> QED  BY <3>1, <3>2
  <2>2. n \in Nat
    BY <2>1, LenProperties
  <2>3. Len(t) = n + 1
    <3>1. \A s \in Seq(Directories) : \A q \in 1..(Len(s) + 1) : \A e \in Directories :
            Len(InsertAt(s, q, e)) = Len(s) + 1
      BY Inserted
    <3> QED  BY <2>1, <3>1, Zenon
  <2> QED  BY <2>1, <2>2, <2>3
<1>1. /\ \A q \in 1..(n + 1) : First(t, x, q) <=> q = p
      /\ \A d : d # x => \A q \in 1..(n + 1) :
           First(t, d, q) <=> \/ q < p /\ First(path, d, q)
                              \/ q > p /\ First(path, d, q - 1)
  BY <1>0, FirstShifts
<1> HIDE DEF t
<1>2. \A v, w \in 1..6 : \A q, r \in 1..n :
        v < w /\ First(path, WantedPaths[v], q) /\ First(path, WantedPaths[w], r) => q < r
  BY DEF InOrder
<1>3. \A w \in 1..6 : w # i => WantedPaths[w] # x
  BY WantedDiffer
<1>4. \A w \in 1..6 : \A q \in 1..n : w < i /\ First(path, WantedPaths[w], q) => q \in Befores
  BY DEF Befores
<1>5. \A w \in 1..6 : \A q \in 1..n : w > i /\ First(path, WantedPaths[w], q) => q \in Afters
  BY DEF Afters
<1>6. ASSUME NEW b \in Befores, NEW a \in Afters  PROVE b < a
  <2>1. PICK v \in 1..(i - 1) : First(path, WantedPaths[v], b)
    BY DEF Befores
  <2>2. PICK w \in (i + 1)..6 : First(path, WantedPaths[w], a)
    BY DEF Afters
  <2>3. v \in 1..6 /\ w \in 1..6 /\ v < w /\ a \in 1..n /\ b \in 1..n
    BY <2>1, <2>2 DEF Befores, Afters
  <2> QED  BY <1>2, <2>1, <2>2, <2>3
<1>7. Befores \subseteq 1..n /\ Afters \subseteq 1..n
  BY DEF Befores, Afters
<1>8. ~Conflict
  BY <1>0, <1>6, <1>7 DEF Conflict
<1>9. (\A b \in Befores : b < p) /\ (p = 1 \/ p - 1 \in Befores)
  BY <1>8 DEF InsertionIndex
<1>10. ASSUME NEW a \in Afters  PROVE a >= p
  <2>1. a \in 1..n
    BY <1>7
  <2>2. p - 1 \in Befores => p - 1 < a
    BY <1>6
  <2> QED  BY <1>0, <1>9, <2>1, <2>2
<1>11. ASSUME NEW v \in 1..6, NEW w \in 1..6, NEW q \in 1..(n + 1), NEW r \in 1..(n + 1),
              v < w, First(t, WantedPaths[v], q), First(t, WantedPaths[w], r)
       PROVE  q < r
  <2>1. CASE v = i
    <3>1. q = p /\ w # i /\ w > i
      BY <1>0, <1>1, <1>11, <2>1
    <3>2. \/ r < p /\ First(path, WantedPaths[w], r)
          \/ r > p /\ First(path, WantedPaths[w], r - 1)
      BY <1>1, <1>3, <1>11, <3>1
    <3>3. r < p => FALSE
      <4>1. ASSUME r < p  PROVE FALSE
        <5>1. r \in 1..n
          BY <1>0, <4>1
        <5>2. r \in Afters
          BY <1>0, <1>5, <3>1, <3>2, <4>1, <5>1
        <5> QED  BY <1>0, <1>10, <4>1, <5>2
      <4> QED  BY <4>1
    <3> QED  BY <1>0, <3>1, <3>2, <3>3
  <2>2. CASE w = i
    <3>1. r = p /\ v # i /\ v < i
      BY <1>0, <1>1, <1>11, <2>2
    <3>2. \/ q < p /\ First(path, WantedPaths[v], q)
          \/ q > p /\ First(path, WantedPaths[v], q - 1)
      BY <1>1, <1>3, <1>11, <3>1
    <3>3. q > p => FALSE
      <4>1. ASSUME q > p  PROVE FALSE
        <5>1. q - 1 \in 1..n
          BY <1>0, <4>1
        <5>2. q - 1 \in Befores
          BY <1>0, <1>4, <3>1, <3>2, <4>1, <5>1
        <5> QED  BY <1>0, <1>9, <4>1, <5>2
      <4> QED  BY <4>1
    <3> QED  BY <1>0, <3>1, <3>2, <3>3
  <2>3. CASE v # i /\ w # i
    <3>1. \/ q < p /\ First(path, WantedPaths[v], q)
          \/ q > p /\ First(path, WantedPaths[v], q - 1)
      BY <1>1, <1>3, <1>11, <2>3
    <3>2. \/ r < p /\ First(path, WantedPaths[w], r)
          \/ r > p /\ First(path, WantedPaths[w], r - 1)
      BY <1>1, <1>3, <1>11, <2>3
    <3>3. CASE q < p /\ First(path, WantedPaths[v], q)
      <4>1. q \in 1..n
        BY <1>0, <3>3
      <4>2. CASE r < p /\ First(path, WantedPaths[w], r)
        <5>1. r \in 1..n
          BY <1>0, <4>2
        <5> QED  BY <1>2, <1>11, <3>3, <4>1, <4>2, <5>1
      <4>3. CASE r > p
        BY <1>0, <3>3, <4>3
      <4> QED  BY <3>2, <4>2, <4>3
    <3>4. CASE q > p /\ First(path, WantedPaths[v], q - 1)
      <4>1. q - 1 \in 1..n
        BY <1>0, <3>4
      <4>2. CASE r < p /\ First(path, WantedPaths[w], r)
        <5>1. r \in 1..n
          BY <1>0, <4>2
        <5>2. q - 1 < r
          BY <1>2, <1>11, <3>4, <4>1, <4>2, <5>1
        <5> QED  BY <1>0, <3>4, <4>2, <5>2
      <4>3. CASE r > p /\ First(path, WantedPaths[w], r - 1)
        <5>1. r - 1 \in 1..n
          BY <1>0, <4>3
        <5>2. q - 1 < r - 1
          BY <1>2, <1>11, <3>4, <4>1, <4>3, <5>1
        <5> QED  BY <1>0, <5>2
      <4> QED  BY <3>2, <4>2, <4>3
    <3> QED  BY <3>1, <3>3, <3>4
  <2> QED  BY <2>1, <2>2, <2>3
<1> QED  BY <1>0, <1>11 DEF InOrder, t

LEMMA InitInv == Init => IInv
<1> SUFFICES ASSUME Init PROVE IInv
  OBVIOUS
<1>1. original \in Originals /\ original \in Seq(Directories) /\ path = original /\ i = 1
  BY OriginalsAssumption DEF Init
<1>2. TypeOK
  BY <1>1 DEF TypeOK
<1>3. OriginalsIn
  BY <1>1 DEF OriginalsIn, Contains
<1>4. AllWanted
  BY <1>1 DEF AllWanted
<1>5. PrecedenceKept
  BY <1>1 DEF PrecedenceKept
<1>6. WantedInOrder
  BY <1>1 DEF WantedInOrder
<1> QED  BY <1>2, <1>3, <1>4, <1>5, <1>6 DEF IInv

(* A step of the loop either finds the directory or puts it in somewhere.  *)
LEMMA Steps ==
  ASSUME TypeOK, i < 7, Skip \/ Insert, i' = i + 1, UNCHANGED original
  PROVE  /\ i \in 1..6
         /\ \/ Contains(path, WantedPaths[i]) /\ UNCHANGED path
            \/ /\ ~Contains(path, WantedPaths[i])
               /\ \E p \in 1..(Len(path) + 1) :
                    InsertionIndex(p) /\ path' = InsertAt(path, p, WantedPaths[i])
<1>1. i \in 1..6
  BY DEF TypeOK
<1>2. CASE Skip
  BY <1>1, <1>2 DEF Skip, Present
<1>3. CASE Insert
  BY <1>1, <1>3 DEF Insert, Present, InsertBeforeAfter
<1> QED  BY <1>2, <1>3

LEMMA StepInv == IInv /\ [Next]_vars => IInv'
<1> SUFFICES ASSUME IInv, [Next]_vars  PROVE IInv'
  OBVIOUS
<1>0. TypeOK /\ OriginalsIn /\ AllWanted /\ PrecedenceKept /\ WantedInOrder
  BY DEF IInv
<1>1. CASE UNCHANGED vars
  BY <1>0, <1>1 DEF IInv, TypeOK, OriginalsIn, AllWanted, PrecedenceKept, WantedInOrder, vars
<1>2. CASE (Skip \/ Insert) /\ i' = i + 1 /\ UNCHANGED original
  <2>0. i < 7 /\ i \in 1..7 /\ path \in Seq(Directories) /\ original' = original /\ i' = i + 1
    BY <1>0, <1>2 DEF Skip, Insert, TypeOK
  <2>1. i \in 1..6 /\ WantedPaths[i] \in Directories
    BY <2>0, DirectoriesAssumption
  <2>2. CASE Contains(path, WantedPaths[i]) /\ path' = path
    <3>1. TypeOK'
      BY <1>0, <2>0, <2>2 DEF TypeOK
    <3>2. OriginalsIn' /\ PrecedenceKept' /\ WantedInOrder'
      BY <1>0, <2>0, <2>2 DEF OriginalsIn, PrecedenceKept, WantedInOrder
    <3>3. AllWanted'
      <4>1. \A w \in 1..(i + 1 - 1) : w \in 1..(i - 1) \/ w = i
        BY <2>1
      <4> QED  BY <1>0, <2>0, <2>2, <4>1 DEF AllWanted
    <3> QED  BY <3>1, <3>2, <3>3 DEF IInv
  <2>3. CASE /\ ~Contains(path, WantedPaths[i])
             /\ \E p \in 1..(Len(path) + 1) :
                  InsertionIndex(p) /\ path' = InsertAt(path, p, WantedPaths[i])
    <3>0. PICK p \in 1..(Len(path) + 1) :
            InsertionIndex(p) /\ path' = InsertAt(path, p, WantedPaths[i])
      BY <2>3
    <3> DEFINE x == WantedPaths[i]
    <3>1. path' \in Seq(Directories) /\ Contains(path', x)
          /\ \A d : Contains(path, d) => Contains(path', d)
      BY <2>0, <2>1, <3>0, Inserted, NothingLost
    <3>2. TypeOK'
      BY <1>0, <2>0, <3>1 DEF TypeOK
    <3>3. OriginalsIn'
      BY <1>0, <2>0, <3>1 DEF OriginalsIn
    <3>4. AllWanted'
      <4>1. \A w \in 1..(i + 1 - 1) : w \in 1..(i - 1) \/ w = i
        BY <2>1
      <4> QED  BY <1>0, <2>0, <3>1, <4>1 DEF AllWanted
    <3>5. PrecedenceKept'
      <4>1. ASSUME NEW m \in 1..Len(original), NEW n \in 1..Len(original)
            PROVE  Precedes(path', original[m], original[n])
                     <=> Precedes(original, original[m], original[n])
        <5>1. original[m] # x /\ original[n] # x
          BY <1>0, <2>3 DEF OriginalsIn
        <5>2. Precedes(path', original[m], original[n])
                <=> Precedes(path, original[m], original[n])
          BY <2>0, <2>1, <2>3, <3>0, <5>1, OrderKept
        <5> QED  BY <1>0, <5>2 DEF PrecedenceKept
      <4> QED  BY <2>0, <4>1 DEF PrecedenceKept
    <3>6. WantedInOrder'
      <4>1. InOrder(path) => InOrder(path')
        BY <1>0, <2>1, <2>3, <3>0, InsertedInOrder
      <4> QED  BY <1>0, <2>0, <4>1 DEF WantedInOrder
    <3> QED  BY <3>2, <3>3, <3>4, <3>5, <3>6 DEF IInv
  <2> QED  BY <1>0, <1>2, <2>0, <2>2, <2>3, Steps
<1>3. CASE Finished
  BY <1>1, <1>3 DEF Finished
<1> QED  BY <1>1, <1>2, <1>3 DEF Next

LEMMA AlwaysInv == Spec => []IInv
BY InitInv, StepInv, PTL DEF Spec

(* PATH stays a list of directories and the index inside the wanted ones,  *)
(* for every PATH.                                                         *)
THEOREM TypeCorrect == Spec => []TypeOK
<1>1. IInv => TypeOK
  BY DEF IInv
<1> QED  BY <1>1, AlwaysInv, PTL

(* Each wanted directory dealt with is in PATH, for every PATH.            *)
THEOREM AllWantedHolds == Spec => []AllWanted
<1>1. IInv => AllWanted
  BY DEF IInv
<1> QED  BY <1>1, AlwaysInv, PTL

(* _sanitize_path never changes which of two directories of the user's     *)
(* PATH is searched first, for every PATH.                                 *)
THEOREM PrecedenceIsKept == Spec => []PrecedenceKept
<1>1. IInv => PrecedenceKept
  BY DEF IInv
<1> QED  BY <1>1, AlwaysInv, PTL

(* If the user's PATH has the wanted directories in the wanted order, so   *)
(* has the result, for every PATH.                                         *)
THEOREM WantedStayInOrder == Spec => []WantedInOrder
<1>1. IInv => WantedInOrder
  BY DEF IInv
<1> QED  BY <1>1, AlwaysInv, PTL

(***************************************************************************)
(* ChrootEnv.  The argument: os.environ differs from what the user has set *)
(* in PATH only, the prototype is fixed once there is a distribution, and  *)
(* every command of a kind gets the one environment, Expected, that these  *)
(* two determine.                                                          *)
(***************************************************************************)
Dictionaries == {"environ", "prototype", "local"}
HeapType     == [Dictionaries -> EnvironmentType]

Environ == [v \in Names |-> IF v = "PATH" /\ i = 7 THEN "ours" ELSE Given(v)]

(* What os.environ is once PATH is sanitised.                              *)
Final == [v \in Names |-> IF v = "PATH" THEN "ours" ELSE Given(v)]

Changed(e, vs, value) == [v \in Names |-> IF v \in vs THEN value ELSE e[v]]

Prototype == Changed(Changed(Final, {"LANG", "TMPDIR"}, "unset"), {"HOSTNAME", "LC_ALL"}, "ours")

NoPythonPath(e) == [e EXCEPT !.PYTHONPATH = "unset"]

Expected(k) ==
  CASE k = "host command"  -> NoPythonPath(Final)
    [] k = "emerge"        -> NoPythonPath(Final)
    [] k = "script"        -> NoPythonPath(Changed(Prototype, {"IB_ROOT"}, "ours"))
    [] k = "chpasswd"      -> Prototype
    [] k = "pacstrap"      -> NoPythonPath(Changed(Changed(Final, {"LANG"}, "unset"), {"LC_ALL"}, "ours"))
    [] k = "apt-get"       -> NoPythonPath(IF Prototype["DEBIAN_FRONTEND"] = "unset"
                                           THEN Changed(Prototype, {"DEBIAN_FRONTEND"}, "ours")
                                           ELSE Prototype)
    [] OTHER               -> NoPythonPath(Prototype)

Inv ==
  /\ heap \in HeapType
  /\ heap.environ = Environ
  /\ distro # "none" => i = 7 /\ heap.prototype = Prototype
  /\ seen \in [Kinds -> SUBSET EnvironmentType]
  /\ \A k \in Kinds : \A e \in seen[k] : e = Expected(k)

(* r refers to the local dictionary, which is e, and the others are h's.   *)
Local(r, h, e) ==
  \E g \in HeapType : /\ r = Refer(g, "local")
                      /\ g.environ = h.environ /\ g.prototype = h.prototype
                      /\ g.local = e

LEMMA CopyIsLocal ==
  ASSUME NEW h \in HeapType, NEW o \in Dictionaries
  PROVE  Local(Copy(h, o), h, h[o])
<1> DEFINE g == [h EXCEPT !.local = h[o]]
<1>1. g \in HeapType  BY DEF HeapType, Dictionaries
<1>2. g.environ = h.environ /\ g.prototype = h.prototype /\ g.local = h[o]
  BY DEF HeapType, Dictionaries
<1>3. Copy(h, o) = Refer(g, "local")  BY DEF Copy
<1> QED  BY <1>1, <1>2, <1>3 DEF Local

LEMMA PutIsLocal ==
  ASSUME NEW h \in HeapType, NEW e \in EnvironmentType, NEW r, Local(r, h, e),
         NEW vs, NEW value \in {"unset", "user", "ours"}
  PROVE  /\ Local(Put(r, vs, value), h, Changed(e, vs, value))
         /\ Changed(e, vs, value) \in EnvironmentType
<1>1. PICK g \in HeapType : /\ r = Refer(g, "local")
                            /\ g.environ = h.environ /\ g.prototype = h.prototype
                            /\ g.local = e
  BY DEF Local
<1> DEFINE c == Changed(e, vs, value)
           f == [g EXCEPT !["local"] = c]
<1>2. c \in EnvironmentType  BY DEF Changed, EnvironmentType
<1>3. r.heap = g /\ r.at = "local"  BY <1>1 DEF Refer
<1>4. g["local"] = e  BY <1>1
<1>5. Put(r, vs, value) = [r EXCEPT !.heap = [g EXCEPT !["local"] = [v \in Names |-> IF v \in vs THEN value ELSE g["local"][v]]]]
  BY <1>1, <1>3 DEF Put, Refer
<1>6. Put(r, vs, value) = [r EXCEPT !.heap = f]
  BY <1>4, <1>5 DEF Changed
<1>7. f \in HeapType  BY <1>2 DEF HeapType, Dictionaries
<1>8. f.environ = h.environ /\ f.prototype = h.prototype /\ f.local = c
  BY <1>1 DEF HeapType, Dictionaries
<1>9. Put(r, vs, value) = Refer(f, "local")
  BY <1>1, <1>6 DEF Refer
<1> HIDE DEF f, c
<1> QED  BY <1>2, <1>7, <1>8, <1>9 DEF Local, c

LEMMA FinalTyped ==
  Final \in EnvironmentType /\ Prototype \in EnvironmentType
<1>1. Final \in EnvironmentType  BY DEF Final, Given, EnvironmentType
<1>2. Changed(Final, {"LANG", "TMPDIR"}, "unset") \in EnvironmentType
  BY <1>1 DEF Changed, EnvironmentType
<1> QED  BY <1>1, <1>2 DEF Prototype, Changed, EnvironmentType

LEMMA MakeEnvironmentIsLocal ==
  ASSUME NEW h \in HeapType, h.environ = Final, NEW tell \in BOOLEAN
  PROVE  /\ Local(MakeEnvironment(h, tell), h, IF tell THEN Changed(Prototype, {"IB_ROOT"}, "ours") ELSE Prototype)
         /\ Changed(Prototype, {"IB_ROOT"}, "ours") \in EnvironmentType
<1> DEFINE a == Copy(h, "environ")
           b == Put(a, {"LANG", "TMPDIR"}, "unset")
           c == Put(b, {"HOSTNAME", "LC_ALL"}, "ours")
           d == Put(c, {"IB_ROOT"}, "ours")
           eb == Changed(Final, {"LANG", "TMPDIR"}, "unset")
<1>1. Local(a, h, Final)  BY CopyIsLocal DEF Dictionaries
<1>2. Local(b, h, eb) /\ eb \in EnvironmentType  BY <1>1, FinalTyped, PutIsLocal
<1>3. Local(c, h, Prototype)  BY <1>2, PutIsLocal DEF Prototype
<1>4. /\ Local(d, h, Changed(Prototype, {"IB_ROOT"}, "ours"))
      /\ Changed(Prototype, {"IB_ROOT"}, "ours") \in EnvironmentType
  BY <1>3, FinalTyped, PutIsLocal
<1>5. MakeEnvironment(h, tell) = IF tell THEN d ELSE c  BY DEF MakeEnvironment
<1> QED  BY <1>3, <1>4, <1>5

LEMMA ExpectedUnchanged ==
  ASSUME user' = user, NEW k
  PROVE  Expected(k)' = Expected(k) /\ Prototype' = Prototype
<1>1. \A v : Given(v)' = Given(v)  BY DEF Given
<1>2. Final' = Final  BY <1>1 DEF Final
<1>3. Prototype' = Prototype  BY <1>2 DEF Prototype, Changed
<1> QED  BY <1>2, <1>3 DEF Expected, NoPythonPath, Changed

(* Starting a command with the environment expected.                       *)
LEMMA StartKeepsInv ==
  ASSUME Inv, NEW k \in Kinds, NEW r, NEW e, Start(k, r, e),
         r.heap \in HeapType, r.heap.environ = heap.environ, r.heap.prototype = heap.prototype,
         e = Expected(k), e \in EnvironmentType
  PROVE  Inv'
<1>1. /\ heap' = r.heap /\ seen' = [seen EXCEPT ![k] = @ \cup {e}]
      /\ i' = i /\ user' = user /\ distro' = distro
  BY DEF Start, vars
<1>2. heap' \in HeapType  BY <1>1
<1>3. Environ' = Environ  BY <1>1 DEF Environ, Given
<1>4. heap'.environ = Environ'  BY <1>1, <1>3 DEF Inv
<1>5. distro' # "none" => i' = 7 /\ heap'.prototype = Prototype'
  BY <1>1, ExpectedUnchanged DEF Inv
<1>6. seen' \in [Kinds -> SUBSET EnvironmentType]  BY <1>1 DEF Inv
<1>7. ASSUME NEW l \in Kinds, NEW f \in seen'[l] PROVE f = Expected(l)'
  <2>1. Expected(l)' = Expected(l)  BY <1>1, ExpectedUnchanged
  <2>2. f \in seen[l] \/ (l = k /\ f = e)  BY <1>1 DEF Inv
  <2> QED  BY <2>1, <2>2 DEF Inv
<1> QED  BY <1>2, <1>4, <1>5, <1>6, <1>7 DEF Inv

LEMMA LocalKeeps ==
  ASSUME NEW h, NEW r, NEW e, Local(r, h, e)
  PROVE  /\ r.heap \in HeapType /\ r.heap.environ = h.environ
         /\ r.heap.prototype = h.prototype
         /\ r.heap[r.at] = e /\ CheckCall(r) = NoPythonPath(e)
<1>1. PICK g \in HeapType : /\ r = Refer(g, "local")
                            /\ g.environ = h.environ /\ g.prototype = h.prototype
                            /\ g.local = e
  BY DEF Local
<1>2. r.heap = g /\ r.at = "local"  BY <1>1 DEF Refer
<1>3. r.heap[r.at] = e  BY <1>1, <1>2
<1> QED  BY <1>1, <1>2, <1>3 DEF CheckCall, NoPythonPath

LEMMA NoPythonPathTyped ==
  ASSUME NEW e \in EnvironmentType
  PROVE  NoPythonPath(e) \in EnvironmentType
BY DEF NoPythonPath, EnvironmentType, Names

(* A command whose environment is a copy, changed or not.                  *)
LEMMA StartLocal ==
  ASSUME Inv, NEW k \in Kinds, NEW r, NEW e \in EnvironmentType, Local(r, heap, e),
         Start(k, r, CheckCall(r)), Expected(k) = NoPythonPath(e)
  PROVE  Inv'
BY LocalKeeps, NoPythonPathTyped, StartKeepsInv

LEMMA SetDefaultIsLocal ==
  ASSUME NEW h \in HeapType, NEW e \in EnvironmentType, NEW r, Local(r, h, e), NEW v \in Names
  PROVE  /\ Local(SetDefault(r, v), h, IF e[v] = "unset" THEN Changed(e, {v}, "ours") ELSE e)
         /\ (IF e[v] = "unset" THEN Changed(e, {v}, "ours") ELSE e) \in EnvironmentType
<1>1. r.heap[r.at] = e  BY LocalKeeps
<1>2. /\ Local(Put(r, {v}, "ours"), h, Changed(e, {v}, "ours"))
      /\ Changed(e, {v}, "ours") \in EnvironmentType
  BY PutIsLocal
<1> QED  BY <1>1, <1>2 DEF SetDefault

LEMMA InitHolds ==
  ASSUME EnvInit
  PROVE  Inv
<1>1. i = 1 /\ distro = "none" /\ seen = [k \in Kinds |-> {}]
      /\ heap = [o \in Dictionaries |-> [v \in Names |-> Given(v)]]
  BY DEF EnvInit, Init, Dictionaries
<1>2. [v \in Names |-> Given(v)] \in EnvironmentType  BY DEF Given, EnvironmentType
<1>3. heap \in HeapType  BY <1>1, <1>2 DEF HeapType
<1>4. heap.environ = Environ  BY <1>1 DEF Environ, Dictionaries
<1> QED  BY <1>1, <1>3, <1>4 DEF Inv

LEMMA SanitizeKeepsInv ==
  ASSUME Inv, Sanitize
  PROVE  Inv'
<1>1. i < 7 /\ i' = i + 1 /\ user' = user /\ distro' = distro /\ seen' = seen
  BY DEF Sanitize, Next, Finished
<1>2. distro = "none" /\ i # 7  BY <1>1 DEF Inv
<1>3. heap' = IF i' = 7 THEN [heap EXCEPT !.environ.PATH = "ours"] ELSE heap
  BY DEF Sanitize
<1>4. heap.environ \in EnvironmentType /\ heap.environ = [v \in Names |-> Given(v)]
  BY <1>2, FinalTyped DEF Inv, Environ, HeapType, Dictionaries
<1>5. heap' \in HeapType
  <2>1. "PATH" \in Names  BY DEF Names
  <2>2. [heap.environ EXCEPT !.PATH = "ours"] \in EnvironmentType
    BY <1>4, <2>1 DEF EnvironmentType
  <2> QED  BY <1>3, <2>2 DEF Inv, HeapType, Dictionaries
<1>6. heap'.environ = Environ'
  <2>1. CASE i' = 7
    <3>1. heap'.environ = [heap.environ EXCEPT !.PATH = "ours"]
      BY <1>3, <2>1 DEF Inv, HeapType, Dictionaries
    <3>2. \A v : Given(v)' = Given(v)  BY <1>1 DEF Given
    <3>3. Environ' = [v \in Names |-> IF v = "PATH" THEN "ours" ELSE Given(v)]
      BY <2>1, <3>2 DEF Environ
    <3> QED  BY <1>4, <3>1, <3>3
  <2>2. CASE i' # 7
    <3>1. \A v : Given(v)' = Given(v)  BY <1>1 DEF Given
    <3> QED  BY <1>3, <1>4, <2>2, <3>1 DEF Environ
  <2> QED  BY <2>1, <2>2
<1>7. \A k \in Kinds : \A e \in seen'[k] : e = Expected(k)'
  BY <1>1, ExpectedUnchanged DEF Inv
<1> QED  BY <1>1, <1>2, <1>5, <1>6, <1>7 DEF Inv

LEMMA EnvironFinal ==
  ASSUME Inv, i = 7
  PROVE  heap.environ = Final
BY DEF Inv, Environ, Final

LEMMA SetDistroKeepsInv ==
  ASSUME Inv, SetDistro
  PROVE  Inv'
<1> DEFINE r == MakeEnvironment(heap, FALSE)
<1>1. /\ i = 7 /\ i' = i /\ user' = user /\ seen' = seen
      /\ heap' = [r.heap EXCEPT !.prototype = r.heap[r.at]]
  BY DEF SetDistro, vars
<1>2. heap \in HeapType /\ heap.environ = Final  BY <1>1, EnvironFinal DEF Inv
<1>3. Local(r, heap, Prototype)  BY <1>2, MakeEnvironmentIsLocal
<1>4. r.heap \in HeapType /\ r.heap.environ = heap.environ /\ r.heap[r.at] = Prototype
  BY <1>3, LocalKeeps
<1> HIDE DEF r
<1>5. heap' \in HeapType /\ heap'.environ = heap.environ /\ heap'.prototype = Prototype
  BY <1>1, <1>4, FinalTyped DEF HeapType, Dictionaries
<1>6. Environ' = Environ  BY <1>1 DEF Environ, Given
<1>7. \A k \in Kinds : \A e \in seen'[k] : e = Expected(k)'
  BY <1>1, ExpectedUnchanged DEF Inv
<1>8. Prototype' = Prototype  BY <1>1, ExpectedUnchanged
<1> QED  BY <1>1, <1>5, <1>6, <1>7, <1>8 DEF Inv

LEMMA RunKeepsInv ==
  ASSUME Inv, Run
  PROVE  Inv'
<1>1. heap \in HeapType /\ distro # "none"  BY DEF Inv, Run, HostCommand, RunScripts,
       RunChrootScripts, SetRootPassword, ChrootCommand, InstallGrub2, InstallPackages,
       InstallPackageAtoms, RunPacstrap, Start
<1>2. i = 7 /\ heap.prototype = Prototype /\ heap.environ = Final
  BY <1>1, EnvironFinal DEF Inv
<1>3. Local(CreateChrootEnv(heap), heap, Prototype)
  BY <1>1, <1>2, CopyIsLocal DEF CreateChrootEnv, Dictionaries
<1>4. Local(MakeEnvironment(heap, FALSE), heap, Prototype)
  BY <1>1, <1>2, MakeEnvironmentIsLocal
<1>5. NoPythonPath(Prototype) \in EnvironmentType /\ NoPythonPath(Final) \in EnvironmentType
  BY FinalTyped, NoPythonPathTyped
<1>6. CASE HostCommand
  <2> DEFINE r == Refer(heap, "environ")
  <2>1. r.heap = heap /\ CheckCall(r) = NoPythonPath(Final)
    BY <1>2 DEF Refer, CheckCall, NoPythonPath
  <2>2. Expected("host command") = NoPythonPath(Final)  BY DEF Expected
  <2>3. Start("host command", r, CheckCall(r))  BY <1>6 DEF HostCommand
  <2> HIDE DEF r
  <2> QED  BY <1>1, <1>5, <2>1, <2>2, <2>3, StartKeepsInv DEF Kinds, Outside
<1>7. CASE RunScripts
  <2> DEFINE r == MakeEnvironment(heap, TRUE)
             e == Changed(Prototype, {"IB_ROOT"}, "ours")
  <2>1. Local(r, heap, e) /\ e \in EnvironmentType  BY <1>1, <1>2, MakeEnvironmentIsLocal
  <2>2. Expected("script") = NoPythonPath(e)  BY DEF Expected
  <2>3. Start("script", r, CheckCall(r))  BY <1>7 DEF RunScripts
  <2> HIDE DEF r, e
  <2> QED  BY <2>1, <2>2, <2>3, StartLocal DEF Kinds, Outside
<1>8. CASE RunChrootScripts
  <2>1. Expected("chroot script") = NoPythonPath(Prototype)  BY DEF Expected
  <2>2. Start("chroot script", MakeEnvironment(heap, FALSE), CheckCall(MakeEnvironment(heap, FALSE)))
    BY <1>8 DEF RunChrootScripts
  <2> QED  BY <1>4, <2>1, <2>2, FinalTyped, StartLocal DEF Kinds, Inside
<1>9. CASE SetRootPassword
  <2> DEFINE r == MakeEnvironment(heap, FALSE)
  <2>1. Expected("chpasswd") = Prototype  BY DEF Expected
  <2>2. Start("chpasswd", r, r.heap[r.at])  BY <1>9 DEF SetRootPassword
  <2>3. /\ r.heap \in HeapType /\ r.heap.environ = heap.environ
        /\ r.heap.prototype = heap.prototype /\ r.heap[r.at] = Prototype
    BY <1>4, LocalKeeps
  <2> HIDE DEF r
  <2> QED  BY <2>1, <2>2, <2>3, FinalTyped, StartKeepsInv DEF Kinds, Inside
<1>10. CASE ChrootCommand
  <2>1. Expected("chroot command") = NoPythonPath(Prototype)  BY DEF Expected
  <2>2. PICK r \in {CreateChrootEnv(heap), MakeEnvironment(heap, FALSE)} :
          Start("chroot command", r, CheckCall(r))
    BY <1>10 DEF ChrootCommand
  <2>3. Local(r, heap, Prototype)  BY <1>3, <1>4
  <2> QED  BY <2>1, <2>2, <2>3, FinalTyped, StartLocal DEF Kinds, Inside
<1>11. CASE InstallGrub2
  <2>1. Expected("grub-install") = NoPythonPath(Prototype)  BY DEF Expected
  <2>2. Start("grub-install", MakeEnvironment(heap, FALSE), CheckCall(MakeEnvironment(heap, FALSE)))
    BY <1>11 DEF InstallGrub2
  <2> QED  BY <1>4, <2>1, <2>2, FinalTyped, StartLocal DEF Kinds, Inside
<1>12. CASE InstallPackages
  <2> DEFINE r == SetDefault(CreateChrootEnv(heap), "DEBIAN_FRONTEND")
             e == IF Prototype["DEBIAN_FRONTEND"] = "unset"
                  THEN Changed(Prototype, {"DEBIAN_FRONTEND"}, "ours") ELSE Prototype
  <2>1. "DEBIAN_FRONTEND" \in Names  BY DEF Names
  <2>2. Local(r, heap, e) /\ e \in EnvironmentType
    BY <1>1, <1>3, <2>1, FinalTyped, SetDefaultIsLocal
  <2>3. Expected("apt-get") = NoPythonPath(e)  BY DEF Expected
  <2>4. Start("apt-get", r, CheckCall(r))  BY <1>12 DEF InstallPackages
  <2> HIDE DEF r, e
  <2> QED  BY <2>2, <2>3, <2>4, StartLocal DEF Kinds, Inside
<1>13. CASE InstallPackageAtoms
  <2> DEFINE r == Put(CreateChrootEnv(heap), {"DONT_MOUNT_BOOT"}, "ours")
             f == CheckCall(Refer(r.heap, "environ"))
  <2>1. Local(r, heap, Changed(Prototype, {"DONT_MOUNT_BOOT"}, "ours"))
    BY <1>1, <1>3, FinalTyped, PutIsLocal
  <2>2. /\ r.heap \in HeapType /\ r.heap.environ = heap.environ
        /\ r.heap.prototype = heap.prototype
    BY <2>1, LocalKeeps
  <2>3. Start("emerge", r, f)  BY <1>13 DEF InstallPackageAtoms
  <2> HIDE DEF r
  <2>4. f = NoPythonPath(Final)  BY <1>2, <2>2 DEF CheckCall, Refer, NoPythonPath
  <2>5. Expected("emerge") = NoPythonPath(Final)  BY DEF Expected
  <2> HIDE DEF f
  <2> QED  BY <1>5, <2>2, <2>3, <2>4, <2>5, StartKeepsInv DEF Kinds, Inside
<1>14. CASE RunPacstrap
  <2> DEFINE r == MakeChrootEnv(heap)
             d == Changed(Final, {"LANG"}, "unset")
             e == Changed(d, {"LC_ALL"}, "ours")
  <2>1. Local(Copy(heap, "environ"), heap, Final)
    BY <1>1, <1>2, CopyIsLocal DEF Dictionaries
  <2>2. Local(Put(Copy(heap, "environ"), {"LANG"}, "unset"), heap, d) /\ d \in EnvironmentType
    BY <1>1, <2>1, FinalTyped, PutIsLocal
  <2>3. Local(r, heap, e) /\ e \in EnvironmentType
    BY <1>1, <2>2, PutIsLocal DEF MakeChrootEnv
  <2>4. Expected("pacstrap") = NoPythonPath(e)  BY DEF Expected
  <2>5. Start("pacstrap", r, CheckCall(r))  BY <1>14 DEF RunPacstrap
  <2> HIDE DEF r, e, d
  <2> QED  BY <2>3, <2>4, <2>5, StartLocal DEF Kinds, Inside
<1> QED  BY <1>6, <1>7, <1>8, <1>9, <1>10, <1>11, <1>12, <1>13, <1>14 DEF Run

LEMMA UnchangedKeepsInv ==
  ASSUME Inv, UNCHANGED envVars
  PROVE  Inv'
<1>1. heap' = heap /\ seen' = seen /\ distro' = distro /\ user' = user /\ i' = i
  BY DEF envVars, vars, strategy
<1>2. Environ' = Environ  BY <1>1 DEF Environ, Given
<1>3. \A k \in Kinds : \A e \in seen'[k] : e = Expected(k)'
  BY <1>1, ExpectedUnchanged DEF Inv
<1>4. Prototype' = Prototype  BY <1>1, ExpectedUnchanged
<1> QED  BY <1>1, <1>2, <1>3, <1>4 DEF Inv

LEMMA InvHolds == EnvSpec => []Inv
<1>1. Inv /\ [EnvNext]_envVars => Inv'
  BY SanitizeKeepsInv, SetDistroKeepsInv, RunKeepsInv, UnchangedKeepsInv DEF EnvNext
<1> QED  BY <1>1, InitHolds, PTL DEF EnvSpec

(* os.environ is what the user had, but for PATH, whichever commands were  *)
(* started, in whichever order.                                            *)
THEOREM UserEnvironmentIsKept == EnvSpec => []UserEnvironmentKept
<1>1. Inv => UserEnvironmentKept  BY DEF Inv, Environ, UserEnvironmentKept
<1> QED  BY <1>1, InvHolds, PTL

(* The environment of a command depends on nothing but its kind.           *)
THEOREM OrderDoesNotMatter == EnvSpec => []OrderIndependent
<1>1. Inv => OrderIndependent  BY DEF Inv, OrderIndependent
<1> QED  BY <1>1, InvHolds, PTL

(* What is expected of commands inside the new root has the sanitised PATH *)
(* and nothing of the user's that the code does not let pass.              *)
LEMMA ExpectedClean ==
  ASSUME NEW k \in Inside
  PROVE  Expected(k).PATH = "ours" /\ \A v \in OfTheHost \ LetPass(k) : Expected(k)[v] # "user"
<1>1. \A v \in Names : Final[v] = IF v = "PATH" THEN "ours" ELSE Given(v)
  BY DEF Final
<1>2. \A v \in Names : Prototype[v] = IF v \in {"HOSTNAME", "LC_ALL", "PATH"} THEN "ours"
                                      ELSE IF v \in {"LANG", "TMPDIR"} THEN "unset" ELSE Given(v)
  BY <1>1 DEF Prototype, Changed
<1>3. OfTheHost \subseteq Names /\ {"PATH", "DEBIAN_FRONTEND", "PYTHONPATH"} \subseteq Names
  BY DEF OfTheHost, Names
<1>4. Prototype.PATH = "ours" /\ Final.PATH = "ours"  BY <1>1, <1>2, <1>3
<1>5. \A v \in OfTheHost \ {"PYTHONPATH"} : Prototype[v] # "user"  BY <1>2, <1>3 DEF OfTheHost
<1>6. \A e \in EnvironmentType, v \in Names :
        NoPythonPath(e)[v] = IF v = "PYTHONPATH" THEN "unset" ELSE e[v]
  BY DEF NoPythonPath, EnvironmentType
<1>7. CASE k = "pacstrap"
  <2> DEFINE d == Changed(Final, {"LANG"}, "unset")
             e == Changed(d, {"LC_ALL"}, "ours")
  <2>1. \A v \in Names : e[v] = IF v = "LC_ALL" THEN "ours" ELSE IF v = "LANG" THEN "unset" ELSE Final[v]
    BY DEF Changed
  <2>2. d \in EnvironmentType  BY FinalTyped DEF Changed, EnvironmentType
  <2>3. e \in EnvironmentType  BY <2>2 DEF Changed, EnvironmentType
  <2>4. Expected(k) = NoPythonPath(e)  BY <1>7 DEF Expected
  <2>5. LetPass(k) = {"TMPDIR", "HOSTNAME"}  BY <1>7 DEF LetPass
  <2> HIDE DEF e
  <2> QED  BY <1>3, <1>4, <1>6, <2>1, <2>3, <2>4, <2>5 DEF OfTheHost
<1>8. CASE k = "chpasswd"
  <2>1. Expected(k) = Prototype /\ LetPass(k) = {"PYTHONPATH"}  BY <1>8 DEF Expected, LetPass
  <2> QED  BY <1>4, <1>5, <2>1
<1>9. CASE k = "emerge"
  <2>1. Expected(k) = NoPythonPath(Final) /\ LetPass(k) = {"LANG", "LC_ALL", "TMPDIR", "HOSTNAME"}
    BY <1>9 DEF Expected, LetPass
  <2> QED  BY <1>3, <1>4, <1>6, <2>1, FinalTyped DEF OfTheHost
<1>10. CASE k = "apt-get"
  <2> DEFINE e == IF Prototype["DEBIAN_FRONTEND"] = "unset"
                  THEN Changed(Prototype, {"DEBIAN_FRONTEND"}, "ours") ELSE Prototype
  <2>1. e \in EnvironmentType  BY FinalTyped DEF Changed, EnvironmentType
  <2>2. \A v \in Names \ {"DEBIAN_FRONTEND"} : e[v] = Prototype[v]
    <3>1. \A v \in Names : Changed(Prototype, {"DEBIAN_FRONTEND"}, "ours")[v]
            = IF v = "DEBIAN_FRONTEND" THEN "ours" ELSE Prototype[v]
      BY DEF Changed
    <3> QED  BY <3>1
  <2>3. Expected(k) = NoPythonPath(e)  BY <1>10 DEF Expected
  <2>4. LetPass(k) = {}  BY <1>10 DEF LetPass
  <2> HIDE DEF e
  <2>5. \A v \in OfTheHost \cup {"PATH"} : v \in Names \ {"DEBIAN_FRONTEND"}
    BY <1>3 DEF OfTheHost
  <2> QED  BY <1>3, <1>4, <1>5, <1>6, <2>1, <2>2, <2>3, <2>4, <2>5
<1>11. CASE k \in {"chroot command", "chroot script", "grub-install"}
  <2>1. Expected(k) = NoPythonPath(Prototype)  BY <1>11 DEF Expected
  <2>2. LetPass(k) = {}  BY <1>11 DEF LetPass
  <2> QED  BY <1>3, <1>4, <1>5, <1>6, <2>1, <2>2, FinalTyped
<1> QED  BY <1>7, <1>8, <1>9, <1>10, <1>11 DEF Inside

(* Commands inside the new root see nothing of the user's language, TMPDIR,*)
(* host name or PYTHONPATH, but for what the code is known to let pass.    *)
THEOREM InsideIsClean == EnvSpec => []InsideClean
<1>1. Inv => InsideClean  BY ExpectedClean DEF Inv, InsideClean, Kinds
<1> QED  BY <1>1, InvHolds, PTL

(* The PATH of image-bootstrap is made as PathSanitize has it, so that what*)
(* is shown above of Spec holds of EnvSpec as well.                        *)
THEOREM PathIsSanitised == EnvSpec => Spec
<1>1. EnvInit => Init  BY DEF EnvInit
<1>2. [EnvNext]_envVars => [Next]_vars
  BY DEF EnvNext, envVars, Sanitize, SetDistro, Run, HostCommand, RunScripts, RunChrootScripts,
         SetRootPassword, ChrootCommand, InstallGrub2, InstallPackages, InstallPackageAtoms,
         RunPacstrap, Start
<1> QED  BY <1>1, <1>2, PTL DEF EnvSpec, Spec
=============================================================================
